--------------------------- MODULE SystemResource ---------------------------
(***************************************************************************)
(* One EbSystemResource: a fixed set of wrapped objects that producers     *)
(* take from the empty queue, fill and post to the full queue, and that    *)
(* consumers receive there and release back.  Every inter-thread channel   *)
(* and every buffer pool of the encoder is one of these.                   *)
(*                                                                         *)
(* A step is what the code does under one mutex: the queue's lockout mutex *)
(* for queueing and assigning (svt_release_process, svt_post_full_object,  *)
(* svt_release_object, setting counts), the FIFO's for taking an object.   *)
(***************************************************************************)
EXTENDS MuxingQueue, FiniteSets

CONSTANTS
    Objects,        \* the wrappers in wrapper_ptr_pool
    Producers,      \* processes with a FIFO in the empty queue
    Consumers,      \* processes with a FIFO in the full queue
    Polling,        \* consumers that may use svt_get_full_object_non_blocking
    Pinners,        \* producers that may keep an object with release_disable
    MaxShared,      \* bound on references given to third parties per object
    MaxHeld,        \* bound on what a producer still holds when it asks for more
    CountModulus,   \* live_count is a counter modulo this (2^32 in the code)
    MayShutDown,    \* whether svt_shutdown_process is ever called
    None

\* Polling is used by the application alone, the one consumer of the output
\* and recon resources; release_disable by Resource Coordination alone, the
\* one producer of the SequenceControlSet pool.
ASSUME SystemResourceAssumption ==
    /\ IsFiniteSet(Objects) /\ IsFiniteSet(Producers) /\ IsFiniteSet(Consumers)
    /\ Producers \cap Consumers = {}
    /\ Polling \subseteq Consumers /\ \A c \in Polling, d \in Consumers : c = d
    /\ Pinners \subseteq Producers /\ \A p \in Pinners, r \in Producers : p = r
    /\ MaxShared \in Nat /\ MaxHeld \in Nat /\ CountModulus \in Nat
    /\ CountModulus > MaxShared + 3
    /\ MayShutDown \in BOOLEAN
    /\ None \notin Objects

Processes == Producers \cup Consumers
Released == CountModulus - 1    \* EB_ObjectWrapperReleasedValue, ~0u

VARIABLES
    emptyQueue, fullQueue,      \* the two muxing queues
    fifo, semaphore,            \* EbFifo list and counting_semaphore, per process
    quit,                       \* quit_signal of each consumer's FIFO
    liveCount, releaseEnable,   \* the wrapper's fields
    pc,                         \* where each process is in its call
    holding,                    \* what each process may still post or release
    shared,                     \* references to an object held by third parties
    active, retiring,           \* the pinned object and the one it replaces
    posted                      \* history: posted and not yet received, in order

queueVars == <<emptyQueue, fullQueue, fifo, semaphore>>
countVars == <<liveCount, releaseEnable>>
pinVars   == <<active, retiring>>
vars == <<queueVars, quit, countVars, pc, holding, shared, pinVars, posted>>

ObjectCount == Cardinality(Objects)

\* A sequence without the first occurrence of x.
Without(s, x) ==
    LET i == CHOOSE j \in DOMAIN s : s[j] = x
    IN  IF x \in Elements(s) THEN SubSeq(s, 1, i - 1) \o SubSeq(s, i + 1, Len(s)) ELSE s

\* svt_system_resource_ctor: every wrapper is pushed on the empty queue.
Init ==
    /\ emptyQueue \in {[EmptyMuxingQueue EXCEPT !.objects = s] :
                          s \in {t \in [1..ObjectCount -> Objects] : Elements(t) = Objects}}
    /\ fullQueue = EmptyMuxingQueue
    /\ fifo = [p \in Processes |-> <<>>]
    /\ semaphore = [p \in Processes |-> 0]
    /\ quit = [c \in Consumers |-> FALSE]
    /\ liveCount = [o \in Objects |-> 0]
    /\ releaseEnable = [o \in Objects |-> TRUE]
    /\ pc = [p \in Processes |-> "running"]
    /\ holding = [p \in Processes |-> {}]
    /\ shared = [o \in Objects |-> 0]
    /\ active = None /\ retiring = None
    /\ posted = <<>>

-----------------------------------------------------------------------------
(* The queues.  A muxing queue is always left assigned. *)

\* Bugs a check must notice: the semaphore is not posted.
AssignEmptyUnposted(q) ==
    /\ emptyQueue' = Unmatched(q) /\ fifo' = FifosAfter(q, fifo)
    /\ UNCHANGED <<fullQueue, semaphore>>

AssignFullUnposted(q) ==
    /\ fullQueue' = Unmatched(q) /\ fifo' = FifosAfter(q, fifo)
    /\ UNCHANGED <<emptyQueue, semaphore>>

AssignEmpty(q) ==
    /\ emptyQueue' = Unmatched(q)
    /\ fifo' = FifosAfter(q, fifo)
    /\ semaphore' = SemaphoresAfter(q, semaphore)
    /\ UNCHANGED fullQueue

AssignFull(q) ==
    /\ fullQueue' = Unmatched(q)
    /\ fifo' = FifosAfter(q, fifo)
    /\ semaphore' = SemaphoresAfter(q, semaphore)
    /\ UNCHANGED emptyQueue

\* svt_release_object under the empty queue's mutex.
DecrementedUnchecked(o) == liveCount[o] - 1     \* bug: below zero
Decremented(o) == IF liveCount[o] = 0 THEN 0 ELSE liveCount[o] - 1
FreesAlways(o) == releaseEnable[o]              \* bug: count ignored
Frees(o) == releaseEnable[o] /\ Decremented(o) = 0

\* Bugs: the object is queued but not assigned; no released value is stored.
ReleaseObjectUnassigned(o) ==
    /\ liveCount' = [liveCount EXCEPT ![o] = IF Frees(o) THEN Released ELSE Decremented(o)]
    /\ emptyQueue' = IF Frees(o) THEN QueueObjectFront(emptyQueue, o, ObjectCount) ELSE emptyQueue
    /\ UNCHANGED <<fullQueue, fifo, semaphore, releaseEnable>>

ReleaseObjectUnmarked(o) ==
    /\ liveCount' = [liveCount EXCEPT ![o] = Decremented(o)]
    /\ IF Frees(o)
       THEN AssignEmpty(QueueObjectFront(emptyQueue, o, ObjectCount))
       ELSE UNCHANGED queueVars
    /\ UNCHANGED releaseEnable

ReleaseObject(o) ==
    /\ liveCount' = [liveCount EXCEPT ![o] = IF Frees(o) THEN Released ELSE Decremented(o)]
    /\ IF Frees(o)
       THEN AssignEmpty(QueueObjectFront(emptyQueue, o, ObjectCount))
       ELSE UNCHANGED queueVars
    /\ UNCHANGED releaseEnable

-----------------------------------------------------------------------------
(* Producers *)

\* svt_get_empty_object up to the semaphore: svt_release_process.  Most callers
\* post or hand on one object before they ask for the next; Resource
\* Coordination keeps the previous picture until it has the next one.
RequestEmpty(p) ==
    /\ pc[p] = "running" /\ Cardinality(holding[p]) \leq MaxHeld
    /\ AssignEmpty(QueueProcess(emptyQueue, p, Cardinality(Producers)))
    /\ pc' = [pc EXCEPT ![p] = "waiting"]
    /\ UNCHANGED <<quit, countVars, holding, shared, pinVars, posted>>

\* Bug: the released value stays in live_count.
TakeEmptyStale(p) ==
    /\ pc[p] = "waiting" /\ semaphore[p] > 0
    /\ semaphore' = [semaphore EXCEPT ![p] = @ - 1]
    /\ fifo' = [fifo EXCEPT ![p] = Tail(@)]
    /\ pc' = [pc EXCEPT ![p] = "running"]
    /\ holding' = [holding EXCEPT ![p] = @ \cup {Head(fifo[p])}]
    /\ UNCHANGED <<emptyQueue, fullQueue, quit, countVars, shared, pinVars, posted>>

\* svt_get_empty_object from the semaphore on.
TakeEmpty(p) ==
    LET o == Head(fifo[p])
    IN  /\ pc[p] = "waiting" /\ semaphore[p] > 0
        /\ semaphore' = [semaphore EXCEPT ![p] = @ - 1]
        /\ fifo' = [fifo EXCEPT ![p] = Tail(@)]
        /\ liveCount' = [liveCount EXCEPT ![o] = 0]
        /\ releaseEnable' = [releaseEnable EXCEPT ![o] = TRUE]
        /\ pc' = [pc EXCEPT ![p] = "running"]
        /\ holding' = [holding EXCEPT ![p] = @ \cup {o}]
        /\ UNCHANGED <<emptyQueue, fullQueue, quit, shared, pinVars, posted>>

\* svt_post_full_object.
Post(p, o) ==
    /\ pc[p] = "running" /\ o \in holding[p]
    /\ AssignFull(QueueObjectBack(fullQueue, o))
    /\ holding' = [holding EXCEPT ![p] = @ \ {o}]
    /\ posted' = Append(posted, o)
    /\ UNCHANGED <<quit, countVars, pc, shared, pinVars>>

-----------------------------------------------------------------------------
(* Consumers *)

\* svt_get_full_object up to the semaphore.  A kernel, like the application,
\* asks only after it has released what it received last.
RequestFull(c) ==
    /\ \/ pc[c] = "running" /\ holding[c] = {}
       \/ pc[c] = "peeked"
    /\ AssignFull(QueueProcess(fullQueue, c, Cardinality(Consumers)))
    /\ pc' = [pc EXCEPT ![c] = "waiting"]
    /\ UNCHANGED <<quit, countVars, holding, shared, pinVars, posted>>

\* The semaphore wait of svt_get_full_object.
WakeFull(c) ==
    /\ pc[c] = "waiting" /\ semaphore[c] > 0
    /\ semaphore' = [semaphore EXCEPT ![c] = @ - 1]
    /\ pc' = [pc EXCEPT ![c] = "woken"]
    /\ UNCHANGED <<emptyQueue, fullQueue, fifo, quit, countVars, holding, shared, pinVars, posted>>

\* The rest of svt_get_full_object; EB_GET_FULL_OBJECT leaves the kernel when
\* the FIFO has been shut down.
TakeFull(c) ==
    LET o == Head(fifo[c])
    IN  /\ pc[c] = "woken" /\ ~quit[c]
        /\ fifo' = [fifo EXCEPT ![c] = Tail(@)]
        /\ pc' = [pc EXCEPT ![c] = "running"]
        /\ holding' = [holding EXCEPT ![c] = @ \cup {o}]
        /\ posted' = Without(posted, o)
        /\ UNCHANGED <<emptyQueue, fullQueue, semaphore, quit, countVars, shared, pinVars>>

Leave(c) ==
    /\ pc[c] = "woken" /\ quit[c]
    /\ pc' = [pc EXCEPT ![c] = "stopped"]
    /\ UNCHANGED <<queueVars, quit, countVars, holding, shared, pinVars, posted>>

\* svt_get_full_object_non_blocking: queue the process, then look whether the
\* FIFO holds anything; only then go on to svt_get_full_object, which queues
\* the process a second time.
PollUnqueued(c) ==      \* bug: only looks
    /\ c \in Polling /\ pc[c] = "running" /\ holding[c] = {}
    /\ pc' = [pc EXCEPT ![c] = "peeking"]
    /\ UNCHANGED <<queueVars, quit, countVars, holding, shared, pinVars, posted>>

Poll(c) ==
    /\ c \in Polling /\ pc[c] = "running" /\ holding[c] = {}
    /\ AssignFull(QueueProcess(fullQueue, c, Cardinality(Consumers)))
    /\ pc' = [pc EXCEPT ![c] = "peeking"]
    /\ UNCHANGED <<quit, countVars, holding, shared, pinVars, posted>>

Peek(c) ==
    /\ pc[c] = "peeking"
    /\ pc' = [pc EXCEPT ![c] = IF quit[c] \/ fifo[c] = <<>> THEN "running" ELSE "peeked"]
    /\ UNCHANGED <<queueVars, quit, countVars, holding, shared, pinVars, posted>>

\* Bug: nobody is woken.
ShutDownSilently(c) ==
    /\ MayShutDown /\ ~quit[c]
    /\ quit' = [quit EXCEPT ![c] = TRUE]
    /\ UNCHANGED <<queueVars, countVars, pc, holding, shared, pinVars, posted>>

\* svt_shutdown_process on one consumer's FIFO: quit_signal, then a post.  The
\* post cannot be told from the flag: a consumer reads the flag only after a wait.
ShutDown(c) ==
    /\ MayShutDown /\ ~quit[c]
    /\ quit' = [quit EXCEPT ![c] = TRUE]
    /\ semaphore' = [semaphore EXCEPT ![c] = @ + 1]
    /\ UNCHANGED <<emptyQueue, fullQueue, fifo, countVars, pc, holding, shared, pinVars, posted>>

-----------------------------------------------------------------------------
(* References.  A fresh object has live_count 0 and is freed by one release. *)
(* svt_object_inc_live_count(n) makes it n releases: the first is the        *)
(* caller's own when nothing was counted yet, the others are for other       *)
(* parties (dependent pictures, later pipeline stages).                      *)

AddReferences(p, o, n) ==
    LET own == IF liveCount[o] = 0 /\ o # active THEN 1 ELSE 0
    IN  /\ pc[p] = "running"
        /\ o \in holding[p] \/ (p \in Pinners /\ o = active)
        /\ shared[o] + n - own \leq MaxShared
        /\ liveCount' = [liveCount EXCEPT ![o] = (@ + n) % CountModulus]
        /\ shared' = [shared EXCEPT ![o] = @ + n - own]
        /\ UNCHANGED <<queueVars, quit, releaseEnable, pc, holding, pinVars, posted>>

Release(p, o) ==
    /\ pc[p] = "running" /\ o \in holding[p]
    /\ ReleaseObject(o)
    /\ holding' = [holding EXCEPT ![p] = @ \ {o}]
    /\ UNCHANGED <<quit, pc, shared, pinVars, posted>>

ReleaseShared(o) ==
    /\ shared[o] > 0
    /\ ReleaseObject(o)
    /\ shared' = [shared EXCEPT ![o] = @ - 1]
    /\ UNCHANGED <<quit, pc, holding, pinVars, posted>>

-----------------------------------------------------------------------------
(* Replacing the active SequenceControlSet in Resource Coordination.  *)

\* svt_object_release_disable on the new one.
Pin(p, o) ==
    /\ p \in Pinners /\ pc[p] = "running" /\ o \in holding[p] /\ liveCount[o] = 0
    /\ releaseEnable' = [releaseEnable EXCEPT ![o] = FALSE]
    /\ holding' = [holding EXCEPT ![p] = @ \ {o}]
    /\ active' = o /\ retiring' = active
    /\ pc' = [pc EXCEPT ![p] = IF active = None THEN "running" ELSE "enabling"]
    /\ UNCHANGED <<queueVars, quit, liveCount, shared, posted>>

\* svt_object_release_enable on the old one.
Unpin(p) ==
    /\ pc[p] = "enabling"
    /\ releaseEnable' = [releaseEnable EXCEPT ![retiring] = TRUE]
    /\ pc' = [pc EXCEPT ![p] = "checking"]
    /\ UNCHANGED <<queueVars, quit, liveCount, holding, shared, pinVars, posted>>

\* The old one's live_count is read without the mutex.  A releaser may be
\* between its two stores, 0 and then the released value: either is read.
CheckIdle(p) ==
    /\ pc[p] = "checking"
    /\ \E seen \in {liveCount[retiring]} \cup (IF liveCount[retiring] = Released THEN {0} ELSE {}) :
         /\ pc' = [pc EXCEPT ![p] = IF seen = 0 THEN "retiring" ELSE "running"]
         /\ retiring' = IF seen = 0 THEN retiring ELSE None
    /\ UNCHANGED <<queueVars, quit, countVars, holding, shared, active, posted>>

Retire(p) ==
    /\ pc[p] = "retiring"
    /\ ReleaseObject(retiring)
    /\ retiring' = None
    /\ pc' = [pc EXCEPT ![p] = "running"]
    /\ UNCHANGED <<quit, holding, shared, active, posted>>

-----------------------------------------------------------------------------
ProducerStep(p) ==
    \/ RequestEmpty(p) \/ TakeEmpty(p)
    \/ Consumers # {} /\ \E o \in Objects : Post(p, o)
    \/ \E o \in Objects : Pin(p, o)
    \/ Unpin(p) \/ CheckIdle(p) \/ Retire(p)

ConsumerStep(c) ==
    \/ RequestFull(c) \/ WakeFull(c) \/ TakeFull(c) \/ Leave(c)
    \/ Poll(c) \/ Peek(c)

Next ==
    \/ \E p \in Producers : ProducerStep(p)
    \/ \E c \in Consumers : ConsumerStep(c) \/ ShutDown(c)
    \/ \E p \in Processes, o \in Objects :
          Release(p, o) \/ \E n \in 1..MaxShared + 1 : AddReferences(p, o, n)
    \/ \E o \in Objects : ReleaseShared(o)

Spec == Init /\ [][Next]_vars

\* The operating system schedules every thread, and a thread never keeps an
\* object or a reference for ever: consumer kernels always come back for more
\* and release what they got, third parties release what they were given.
Fairness ==
    /\ \A p \in Producers : WF_vars(TakeEmpty(p) \/ Unpin(p) \/ CheckIdle(p) \/ Retire(p))
    /\ \A c \in Consumers : WF_vars(ConsumerStep(c))
    /\ \A p \in Processes, o \in Objects :
          WF_vars(Release(p, o) \/ (p \in Producers /\ Consumers # {} /\ Post(p, o)))
    /\ \A o \in Objects : WF_vars(ReleaseShared(o))

FairSpec == Spec /\ Fairness
-----------------------------------------------------------------------------
(* Where objects are *)

InPool(o) ==
    \/ o \in Elements(emptyQueue.objects)
    \/ \E p \in Producers : o \in Elements(fifo[p])

InFlight(o) ==
    \/ o \in Elements(fullQueue.objects)
    \/ \E c \in Consumers : o \in Elements(fifo[c])

Holders(o) == {p \in Processes : o \in holding[p]}

\* The releases that are still to come for an object.
Outstanding(o) == Cardinality(Holders(o)) + shared[o] + (IF InFlight(o) THEN 1 ELSE 0)

\* Kept without a counted reference: pinned, or unpinned when nothing counted
\* was left and so still to be released by the one who unpinned it.
Kept(o) ==
    \/ o \in {active, retiring} /\ ~releaseEnable[o]
    \/ o = retiring /\ Outstanding(o) = 0 /\ ~InPool(o)

-----------------------------------------------------------------------------
(* The inductive invariant behind NoReuseWhileReferenced, NoLeak and          *)
(* ImplementsPool, next to QueueInvariant.                                    *)

Carried(o) == InFlight(o) \/ Holders(o) # {}

\* A buffer of objects and the FIFOs it feeds hold no object twice.
Strung(s, f, P) ==
    /\ NoDuplicate(s)
    /\ \A x \in P : NoDuplicate(f[x]) /\ Elements(f[x]) \cap Elements(s) = {}
    /\ \A x, y \in P : x # y => Elements(f[x]) \cap Elements(f[y]) = {}

\* One party at most can post or release an object as its own.
OneCarrier ==
    \A o \in Objects :
        /\ \A x, y \in Processes : o \in holding[x] /\ o \in holding[y] => x = y
        /\ InFlight(o) => Holders(o) = {}

\* live_count is the number of releases to come, or 0 while the carrier's own
\* is the only one; the carrier of a pinned object has let go of it.
CountIsOutstanding(o) ==
    IF o \in {active, retiring}
    THEN ~Carried(o) /\ liveCount[o] = shared[o]
    ELSE /\ releaseEnable[o]
         /\ \/ /\ liveCount[o] = shared[o] + (IF Carried(o) THEN 1 ELSE 0)
               /\ liveCount[o] > 0
            \/ liveCount[o] = 0 /\ shared[o] = 0 /\ Carried(o)

CountsAreRight ==
    \A o \in Objects :
        /\ shared[o] \leq MaxShared
        /\ InPool(o) => ~Carried(o) /\ shared[o] = 0 /\ o # active
        /\ ~InPool(o) => CountIsOutstanding(o)

\* Where Resource Coordination is in replacing the pinned object, and what it
\* relies on there: an object it is about to release again was either freed by
\* another thread meanwhile, and is marked so, or has no release to come.
PinningIsSafe ==
    /\ active # None => ~releaseEnable[active] /\ active # retiring
    /\ retiring # None => \E p \in Pinners : pc[p] \in {"enabling", "checking", "retiring"}
    /\ \A p \in Producers :
          /\ pc[p] = "enabling" => ~releaseEnable[retiring] /\ ~InPool(retiring)
          /\ pc[p] \in {"checking", "retiring"} =>
                releaseEnable[retiring] /\ (InPool(retiring) => liveCount[retiring] = Released)
          /\ pc[p] = "retiring" => InPool(retiring) \/ liveCount[retiring] = 0

\* The posted objects are those in flight; the ones not assigned yet are the
\* last posted, in order.
LineIsInFlight ==
    LET assigned == Len(posted) - Len(fullQueue.objects)
    IN  /\ NoDuplicate(posted)
        /\ \A o \in Objects : InFlight(o) <=> o \in Elements(posted)
        /\ assigned \geq 0
        /\ \A i \in DOMAIN fullQueue.objects : posted[assigned + i] = fullQueue.objects[i]
        /\ \A c \in Polling : /\ Len(fifo[c]) = assigned
                             /\ \A i \in DOMAIN fifo[c] : posted[i] = fifo[c][i]

\* A consumer that does not poll is handed one object for each request, even
\* after it was shut down.
OneHandedOver ==
    \A c \in Consumers \ Polling :
        /\ Len(fifo[c]) \leq 1
        /\ pc[c] = "running" \/ c \in Elements(fullQueue.procs) => fifo[c] = <<>>

Custody ==
    /\ Strung(emptyQueue.objects, fifo, Producers)
    /\ Strung(fullQueue.objects, fifo, Consumers)
    /\ OneCarrier
    /\ CountsAreRight
    /\ PinningIsSafe

LineInvariant == LineIsInFlight /\ OneHandedOver

-----------------------------------------------------------------------------
(* Properties *)

\* Every variable has its type.
TypeOK ==
    /\ emptyQueue \in [objects : Seq(Objects), procs : Seq(Producers)]
    /\ fullQueue \in [objects : Seq(Objects), procs : Seq(Consumers)]
    /\ fifo \in [Processes -> Seq(Objects)]
    /\ semaphore \in [Processes -> Nat]
    /\ quit \in [Consumers -> BOOLEAN]
    /\ liveCount \in [Objects -> 0..CountModulus - 1]
    /\ releaseEnable \in [Objects -> BOOLEAN]
    /\ pc \in [Processes -> {"running", "waiting", "woken", "peeking", "peeked", "stopped",
                             "enabling", "checking", "retiring"}]
    /\ holding \in [Processes -> SUBSET Objects]
    /\ shared \in [Objects -> Nat]
    /\ active \in Objects \cup {None} /\ retiring \in Objects \cup {None}
    /\ posted \in Seq(Objects)

\* No object waits in a queue in which a process waits too: between any two
\* critical sections the assignment loop has left one of the buffers empty.
NoIdleMatch ==
    /\ emptyQueue.objects = <<>> \/ emptyQueue.procs = <<>>
    /\ fullQueue.objects = <<>> \/ fullQueue.procs = <<>>

\* The counting semaphore counts the objects of its FIFO: a process that gets
\* past svt_block_on_semaphore finds an object to pop (svt_fifo_pop_front
\* dereferences first_ptr unchecked) or, once shut down, the quit signal.
SemaphoreCountsObjects ==
    /\ \A p \in Producers : semaphore[p] = Len(fifo[p])
    /\ \A c \in Consumers :
          semaphore[c] + (IF pc[c] = "woken" THEN 1 ELSE 0)
             = Len(fifo[c]) + (IF quit[c] /\ pc[c] # "stopped" THEN 1 ELSE 0)

\* No wakeup is lost: a process blocked on its semaphore is still queued to be
\* served, or its semaphore has been posted.
NoLostWakeup ==
    /\ \A p \in Producers :
          pc[p] = "waiting" => semaphore[p] > 0 \/ p \in Elements(emptyQueue.procs)
    /\ \A c \in Consumers :
          pc[c] = "waiting" => semaphore[c] > 0 \/ c \in Elements(fullQueue.procs)

\* A poll is exact, although every successful one queues the application twice
\* and every failed one leaves it queued: whatever was posted before the look at
\* the FIFO has reached it, so that the application is never told there is
\* nothing while a packet waits, and the blocking get that follows a successful
\* look finds a permit, so that the non-blocking call does not block.
PollIsExact ==
    \A c \in Polling :
        /\ pc[c] = "peeking" /\ posted # <<>> => fifo[c] # <<>>
        /\ pc[c] = "peeked" => semaphore[c] > 0

\* Queueing a process never overruns its circular buffer, which has one slot
\* per process: a process that may be queued is not queued yet, except for the
\* polling application, alone in its buffer.
ProcessBufferSuffices ==
    /\ \A i, j \in DOMAIN emptyQueue.procs : emptyQueue.procs[i] = emptyQueue.procs[j] => i = j
    /\ \A i, j \in DOMAIN fullQueue.procs : fullQueue.procs[i] = fullQueue.procs[j] => i = j
    /\ \A p \in Elements(emptyQueue.procs) : pc[p] = "waiting" /\ semaphore[p] = 0
    /\ \A c \in Elements(fullQueue.procs) :
          \/ c \in Polling
          \/ pc[c] = "waiting" /\ semaphore[c] = 0
          \/ pc[c] \in {"waiting", "woken", "stopped"} /\ quit[c]

\* Each process is at a step of a call it can be in.
CallsWellFormed ==
    /\ \A p \in Producers : pc[p] \in {"running", "waiting", "enabling", "checking", "retiring"}
    /\ \A c \in Consumers :
          pc[c] \in {"running", "waiting", "woken", "peeking", "peeked", "stopped"}
    /\ \A p \in Producers :
          pc[p] \in {"enabling", "checking", "retiring"} => p \in Pinners /\ retiring \in Objects
    /\ \A c \in Consumers : pc[c] \in {"peeking", "peeked"} => c \in Polling
    /\ \A c \in Consumers : pc[c] = "stopped" => quit[c]

\* A request is answered once: no second object is on its way to a process that
\* has one, and none to a process that is not waiting.  Only polling and
\* shutting down put more in a FIFO than was asked for.
OneAnswer ==
    /\ \A p \in Producers : semaphore[p] \leq 1 /\ (pc[p] # "waiting" => semaphore[p] = 0)
    /\ \A c \in Consumers :
          \/ c \in Polling \/ quit[c]
          \/ semaphore[c] \leq 1 /\ (pc[c] # "waiting" => semaphore[c] = 0)

\* The inductive invariant behind TypeOK, NoIdleMatch, SemaphoreCountsObjects
\* and NoLostWakeup.
QueueInvariant ==
    /\ TypeOK
    /\ NoIdleMatch
    /\ ProcessBufferSuffices
    /\ SemaphoreCountsObjects
    /\ NoLostWakeup
    /\ OneAnswer
    /\ CallsWellFormed

\* Each object is at one place at most: twice in no queue or FIFO, in no two of
\* them, and out of the pool while anyone refers to it or keeps it.  This is
\* what a late, early or double svt_release_object would break.
NoReuseWhileReferenced ==
    /\ Len(emptyQueue.objects) + Cardinality(UNION {{p} \X DOMAIN fifo[p] : p \in Producers})
          = Cardinality({o \in Objects : InPool(o)})
    /\ Len(fullQueue.objects) + Cardinality(UNION {{c} \X DOMAIN fifo[c] : c \in Consumers})
          = Cardinality({o \in Objects : InFlight(o)})
    /\ \A o \in Objects : InPool(o) => Outstanding(o) = 0 /\ ~Kept(o)

\* No object leaks: one that is out of the pool has a release to come or is
\* kept as the active SequenceControlSet.
NoLeak == \A o \in Objects : InPool(o) \/ Outstanding(o) > 0 \/ Kept(o)

PoolReferences == [o \in Objects |-> Outstanding(o) + (IF Kept(o) THEN 1 ELSE 0)]

\* The resource implements the object pool.
Pool == INSTANCE ObjectPool WITH
    Receivers  <- Cardinality(Consumers),
    references <- PoolReferences,
    line       <- posted

ImplementsPool == Pool!Spec

\* Every posted object is received in the end, unless a consumer is shut down
\* (what was assigned to it stays behind).
PostedIsReceived ==
    \A o \in Objects :
        o \in Elements(posted) ~> (o \notin Elements(posted) \/ \E c \in Consumers : quit[c])

\* Every consumer leaves its kernel after svt_shutdown_process, whatever it was
\* doing and however many objects are still queued for it.
ShutdownStopsConsumers ==
    \A c \in Consumers : quit[c] ~> pc[c] = "stopped"

\* A producer that waits for an empty object gets one.
WaitingProducerIsServed ==
    \A p \in Producers : pc[p] = "waiting" ~> pc[p] # "waiting"
=============================================================================
