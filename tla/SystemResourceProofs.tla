------------------------ MODULE SystemResourceProofs ------------------------
(***************************************************************************)
(* For any number of objects, producers and consumers: QueueInvariant is   *)
(* inductive, so the resource is type correct, leaves no object beside a   *)
(* waiting process, loses no wakeup, and never pops an empty FIFO.         *)
(* Custody is inductive beside it, so no object is reused while referred   *)
(* to and none leaks; LineInvariant beside both keeps the posted objects   *)
(* in order.  The three together make every step of the resource one of    *)
(* ObjectPool, or a stutter.                                               *)
(***************************************************************************)
EXTENDS SystemResource, FiniteSetTheorems, SequenceTheorems, FunctionTheorems, TLAPS

(* What one pass through the assignment does to a muxing queue that was    *)
(* settled (one buffer empty) before a process or an object was added.     *)

Queues(O, P) == [objects : Seq(O), procs : Seq(P)]

Settled(q) == q.objects = <<>> \/ q.procs = <<>>

\* A buffer that may take process p once more: p is not queued, or it is the
\* only process there can be.
RoomFor(q, p, P) ==
    /\ NoDuplicate(q.procs)
    /\ p \notin Elements(q.procs) \/ P = {p}

-----------------------------------------------------------------------------
\* Distinct processes that leave one out do not fill a buffer with one slot
\* for each.
LEMMA DistinctLeaveRoom ==
    ASSUME NEW P, IsFiniteSet(P), NEW p \in P, NEW s \in Seq(P),
           NoDuplicate(s), p \notin Elements(s)
    PROVE  Len(s) < Cardinality(P)
<1> DEFINE T == P \ {p}
<1>1. IsFiniteSet(T) /\ Cardinality(T) = Cardinality(P) - 1 /\ Cardinality(P) \in Nat
  BY FS_RemoveElement, FS_CardinalityType
<1>2. Len(s) \in Nat /\ DOMAIN s = 1..Len(s)
  BY LenProperties
<1>3. IsFiniteSet(1..Len(s)) /\ Cardinality(1..Len(s)) = Len(s)
  BY <1>2, FS_Interval
<1>4. s \in [1..Len(s) -> T]
  BY <1>2, LenProperties DEF Elements
<1>5. CASE Cardinality(T) < Len(s)
  <2>1. \E x, y \in 1..Len(s) : x # y /\ s[x] = s[y]
    <3> HIDE DEF T
    <3> QED BY <1>1, <1>3, <1>4, <1>5, FS_PigeonHole
  <2> QED BY <2>1, <1>2 DEF NoDuplicate
<1>6. CASE Len(s) \leq Cardinality(T)
  BY <1>1, <1>2, <1>6
<1> QED BY <1>1, <1>2, <1>5, <1>6

\* Putting an element in front.
IsFronted(t, x, s, S) ==
    /\ t \in Seq(S) /\ t # <<>> /\ t[1] = x
    /\ Elements(t) = Elements(s) \cup {x}
    /\ NoDuplicate(s) /\ x \notin Elements(s) => NoDuplicate(t)

LEMMA ConsProperties ==
    ASSUME NEW S, NEW s \in Seq(S), NEW x \in S, NEW t, t = <<x>> \o s
    PROVE  IsFronted(t, x, s, S)
<1>1. Len(s) \in Nat /\ DOMAIN s = 1..Len(s) /\ \A i \in 1..Len(s) : s[i] \in S
  BY LenProperties, ElementOfSeq
<1>2. /\ t \in Seq(S) /\ Len(t) = Len(s) + 1 /\ t # <<>>
      /\ t[1] = x /\ \A i \in 2..Len(s) + 1 : t[i] = s[i - 1]
  BY <1>1
<1>3. DOMAIN t = 1..Len(s) + 1
  BY <1>2, LenProperties
<1>4. \A y : y \in Elements(s) <=> \E i \in 1..Len(s) : y = s[i]
  BY <1>1 DEF Elements
<1>5. \A y : y \in Elements(t) <=> \E i \in 1..Len(s) + 1 : y = t[i]
  BY <1>3 DEF Elements
<1>6. \A i \in 1..Len(s) : i + 1 \in 1..Len(s) + 1 /\ t[i + 1] = s[i]
  BY <1>1, <1>2
<1>7. \A i \in 1..Len(s) + 1 : i = 1 \/ (i \in 2..Len(s) + 1 /\ i - 1 \in 1..Len(s))
  BY <1>1
<1>8. 1 \in 1..Len(s) + 1
  BY <1>1
<1>9. ASSUME NEW y PROVE y \in Elements(t) <=> (y \in Elements(s) \/ y = x)
  BY <1>2, <1>4, <1>5, <1>6, <1>7, <1>8
<1>10. Elements(t) = Elements(s) \cup {x}
  BY <1>9
<1>11. ASSUME NoDuplicate(s), x \notin Elements(s)
       PROVE  NoDuplicate(t)
  <2>1. SUFFICES ASSUME NEW i \in 1..Len(s) + 1, NEW j \in 1..Len(s) + 1, t[i] = t[j]
                 PROVE  i = j
    BY <1>3 DEF NoDuplicate
  <2>2. CASE i = 1 /\ j = 1
    BY <2>2
  <2>3. CASE i = 1 /\ j # 1
    BY <2>1, <2>3, <1>11, <1>2, <1>4, <1>7
  <2>4. CASE i # 1 /\ j = 1
    BY <2>1, <2>4, <1>11, <1>2, <1>4, <1>7
  <2>5. CASE i # 1 /\ j # 1
    <3>1. i - 1 \in DOMAIN s /\ j - 1 \in DOMAIN s /\ s[i - 1] = s[j - 1]
      BY <2>1, <2>5, <1>1, <1>2, <1>7
    <3>2. i - 1 = j - 1
      BY <3>1, <1>11 DEF NoDuplicate
    <3> QED BY <3>2
  <2> QED BY <2>2, <2>3, <2>4, <2>5
<1> QED BY <1>2, <1>10, <1>11 DEF IsFronted

\* Dropping the first element.
LEMMA TailKeepsDistinct ==
    ASSUME NEW S, NEW s \in Seq(S), s # <<>>, NEW t, t = SubSeq(s, 2, Len(s))
    PROVE  /\ t \in Seq(S)
           /\ \A y : y \in Elements(s) => y = s[1] \/ y \in Elements(t)
           /\ Elements(t) \subseteq Elements(s)
           /\ NoDuplicate(s) => NoDuplicate(t) /\ s[1] \notin Elements(t)
<1>1. Len(s) \in Nat /\ Len(s) > 0 /\ DOMAIN s = 1..Len(s) /\ \A i \in 1..Len(s) : s[i] \in S
  BY LenProperties, ElementOfSeq, EmptySeq
<1>2. /\ t \in Seq(S) /\ Len(t) = Len(s) - 1
      /\ \A i \in 1..Len(s) - 1 : t[i] = s[i + 1]
  BY <1>1
<1>3. DOMAIN t = 1..Len(s) - 1
  BY <1>2, LenProperties
<1>4. \A y : y \in Elements(s) <=> \E i \in 1..Len(s) : y = s[i]
  BY <1>1 DEF Elements
<1>5. \A y : y \in Elements(t) <=> \E i \in 1..Len(s) - 1 : y = t[i]
  BY <1>3 DEF Elements
<1>6. \A i \in 1..Len(s) : i = 1 \/ (i - 1 \in 1..Len(s) - 1 /\ t[i - 1] = s[i])
  BY <1>1, <1>2
<1>7. \A i \in 1..Len(s) - 1 : i + 1 \in 1..Len(s) /\ i + 1 # 1 /\ 1 \in 1..Len(s)
  BY <1>1
<1>8. NoDuplicate(s) => NoDuplicate(t)
  <2>1. SUFFICES ASSUME NoDuplicate(s), NEW i \in 1..Len(s) - 1, NEW j \in 1..Len(s) - 1,
                        t[i] = t[j]
                 PROVE  i = j
    BY <1>3 DEF NoDuplicate
  <2>2. i + 1 \in DOMAIN s /\ j + 1 \in DOMAIN s /\ s[i + 1] = s[j + 1]
    BY <2>1, <1>1, <1>2
  <2>3. i + 1 = j + 1
    BY <2>1, <2>2 DEF NoDuplicate
  <2> QED BY <2>3
<1>9. NoDuplicate(s) => s[1] \notin Elements(t)
  BY <1>1, <1>2, <1>5, <1>7 DEF NoDuplicate
<1>10. ASSUME NEW y, y \in Elements(s) PROVE y = s[1] \/ y \in Elements(t)
  <2>1. PICK i \in 1..Len(s) : y = s[i]
    BY <1>4, <1>10
  <2> QED BY <2>1, <1>5, <1>6
<1>11. Elements(t) \subseteq Elements(s)
  BY <1>2, <1>4, <1>5, <1>7
<1> QED BY <1>2, <1>8, <1>9, <1>10, <1>11

\* svt_circular_buffer_push_front of a process there is room for.
LEMMA PushFrontPushes ==
    ASSUME NEW P, IsFiniteSet(P), NEW p \in P, NEW s \in Seq(P),
           NoDuplicate(s), p \notin Elements(s) \/ P = {p},
           NEW t, t = PushFront(s, p, Cardinality(P))
    PROVE  /\ t \in Seq(P) /\ t # <<>> /\ t[1] = p
           /\ NoDuplicate(t)
           /\ Elements(t) = Elements(s) \cup {p}
           /\ s = <<>> => t = <<p>>
<1>1. Len(s) \in Nat /\ DOMAIN s = 1..Len(s) /\ \A i \in 1..Len(s) : s[i] \in P
  BY LenProperties, ElementOfSeq
<1>2. CASE p \notin Elements(s)
  <2>1. Len(s) < Cardinality(P)
    BY <1>2, DistinctLeaveRoom
  <2>2. t = <<p>> \o s
    BY <2>1 DEF PushFront
  <2>3. s = <<>> => t = <<p>>
    BY <2>2
  <2>4. IsFronted(t, p, s, P)
    BY <2>2, ConsProperties
  <2> QED BY <1>2, <2>3, <2>4 DEF IsFronted
<1>3. CASE P = {p}
  <2>1. Cardinality(P) = 1
    BY <1>3, FS_Singleton
  <2>2. t = <<p>>
    <3>1. CASE s = <<>>
      BY <3>1, <2>1 DEF PushFront
    <3>2. CASE s # <<>>
      <4>1. ~(Len(s) < Cardinality(P)) /\ Cardinality(P) - 1 = 0
        BY <1>1, <2>1, <3>2
      <4>2. SubSeq(s, 1, 0) = <<>>
        BY SubSeqEmpty
      <4>3. t = <<p>> \o SubSeq(s, 1, Cardinality(P) - 1)
        BY <4>1 DEF PushFront
      <4>4. t = <<p>> \o <<>>
        BY <4>1, <4>2, <4>3
      <4>5. <<p>> \in Seq(P)
        OBVIOUS
      <4> QED BY <4>4, <4>5, ConcatEmptySeq
    <3> QED BY <3>1, <3>2
  <2>3. Elements(s) \subseteq {p}
    BY <1>1, <1>3 DEF Elements
  <2>4. DOMAIN <<p>> = {1} /\ <<p>>[1] = p
    OBVIOUS
  <2>5. Elements(<<p>>) = {p} /\ NoDuplicate(<<p>>)
    BY <2>4 DEF Elements, NoDuplicate
  <2> QED BY <2>2, <2>3, <2>5
<1> QED BY <1>2, <1>3
-----------------------------------------------------------------------------
\* The outcome of svt_muxing_queue_assignation on queue r, given the FIFOs and
\* semaphores before: the queue is settled again; each process's FIFO and its
\* semaphore grow by the same; a process that was queued either still is, and
\* got nothing, or it is not queued any more and its semaphore was posted.
IsAssigned(r, f, s, O, P, D) ==
    LET u == Unmatched(r)
        f1 == FifosAfter(r, f)
        s1 == SemaphoresAfter(r, s)
    IN  /\ u \in Queues(O, P) /\ Settled(u) /\ NoDuplicate(u.procs)
        /\ f1 \in [D -> Seq(O)] /\ s1 \in [D -> Nat]
        /\ Elements(u.procs) \subseteq Elements(r.procs)
        /\ \A x \in D :
              \/ s1[x] = s[x] /\ f1[x] = f[x] /\ (x \in Elements(r.procs) => x \in Elements(u.procs))
              \/ /\ s1[x] = s[x] + 1 /\ Len(f1[x]) = Len(f[x]) + 1
                 /\ x \in Elements(r.procs) \ Elements(u.procs)

LEMMA AssignOnce ==
    ASSUME NEW O, NEW P, NEW D, P \subseteq D, NEW r \in Queues(O, P), NoDuplicate(r.procs),
           Len(r.objects) \leq 1 \/ Len(r.procs) \leq 1,
           NEW f \in [D -> Seq(O)], NEW s \in [D -> Nat]
    PROVE  IsAssigned(r, f, s, O, P, D)
<1>1. r.objects \in Seq(O) /\ r.procs \in Seq(P) /\ r = [objects |-> r.objects, procs |-> r.procs]
  BY DEF Queues
<1>2. /\ Len(r.objects) \in Nat /\ Len(r.procs) \in Nat
      /\ DOMAIN r.objects = 1..Len(r.objects) /\ DOMAIN r.procs = 1..Len(r.procs)
      /\ Len(r.objects) = 0 <=> r.objects = <<>>
      /\ Len(r.procs) = 0 <=> r.procs = <<>>
  BY <1>1, LenProperties, EmptySeq
<1>3. CASE Settled(r)
  <2>1. Matches(r) = 0
    BY <1>2, <1>3 DEF Matches, Settled
  <2>2. Served(r) = {}
    BY <2>1 DEF Served
  <2>3. Unmatched(r) = r
    BY <1>1, <2>1, SubSeqFull DEF Unmatched
  <2>4. FifosAfter(r, f) = f /\ SemaphoresAfter(r, s) = s
    BY <2>2 DEF FifosAfter, SemaphoresAfter
  <2> QED BY <1>3, <2>3, <2>4 DEF IsAssigned
<1>4. CASE ~Settled(r)
  <2> DEFINE p == r.procs[1]
             o == r.objects[1]
             u == Unmatched(r)
  <2>1. Matches(r) = 1 /\ r.procs # <<>> /\ r.objects # <<>>
    <3>1. r.procs # <<>> /\ r.objects # <<>>
      BY <1>4 DEF Settled
    <3>2. Len(r.objects) # 0 /\ Len(r.procs) # 0
      BY <1>2, <3>1
    <3>3. Len(r.objects) \geq 1 /\ Len(r.procs) \geq 1
      BY <1>2, <3>2
    <3> DEFINE a == Len(r.objects)
               b == Len(r.procs)
    <3>4. a \in Nat /\ b \in Nat /\ a \geq 1 /\ b \geq 1 /\ (a \leq 1 \/ b \leq 1)
      BY <1>2, <3>3
    <3>5. Matches(r) = IF a < b THEN a ELSE b
      BY DEF Matches
    <3> HIDE DEF a, b
    <3>6. Matches(r) = 1
      BY <3>4, <3>5
    <3> QED BY <3>1, <3>6
  <2>2. p \in P /\ o \in O /\ 1 \in DOMAIN r.procs
    BY <1>1, <1>2, <2>1, ElementOfSeq
  <2>3. Served(r) = {p} /\ HandedTo(r, p) = o
    <3>1. 1..1 = {1}
      OBVIOUS
    <3> QED BY <2>1, <3>1 DEF Served, HandedTo
  <2>4. u.procs = SubSeq(r.procs, 2, Len(r.procs)) /\ u.objects = SubSeq(r.objects, 2, Len(r.objects))
    BY <2>1 DEF Unmatched
  <2>5. /\ u.procs \in Seq(P) /\ NoDuplicate(u.procs) /\ p \notin Elements(u.procs)
        /\ Elements(u.procs) \subseteq Elements(r.procs)
        /\ \A y \in Elements(r.procs) : y = p \/ y \in Elements(u.procs)
    BY <1>1, <2>1, <2>4, TailKeepsDistinct
  <2>6. u.objects \in Seq(O) /\ u = [objects |-> u.objects, procs |-> u.procs]
    BY <1>1, <2>1, <2>4, TailKeepsDistinct DEF Unmatched
  <2>7. Settled(u)
    BY <1>2, <2>1, <2>4, SubSeqEmpty DEF Settled
  <2>8. p \in Elements(r.procs)
    BY <2>2 DEF Elements
  <2>9. /\ FifosAfter(r, f) = [x \in D |-> IF x = p THEN Append(f[x], o) ELSE f[x]]
        /\ SemaphoresAfter(r, s) = [x \in D |-> IF x = p THEN s[x] + 1 ELSE s[x]]
    BY <2>3 DEF FifosAfter, SemaphoresAfter
  <2>10. \A x \in D : Append(f[x], o) \in Seq(O) /\ Len(Append(f[x], o)) = Len(f[x]) + 1
    BY <2>2
  <2>11. FifosAfter(r, f) \in [D -> Seq(O)] /\ SemaphoresAfter(r, s) \in [D -> Nat]
    BY <2>9, <2>10
  <2>12. u \in Queues(O, P)
    BY <2>5, <2>6 DEF Queues
  <2>13. ASSUME NEW x \in D
         PROVE  \/ /\ SemaphoresAfter(r, s)[x] = s[x] /\ FifosAfter(r, f)[x] = f[x]
                   /\ (x \in Elements(r.procs) => x \in Elements(u.procs))
                \/ /\ SemaphoresAfter(r, s)[x] = s[x] + 1
                   /\ Len(FifosAfter(r, f)[x]) = Len(f[x]) + 1
                   /\ x \in Elements(r.procs) \ Elements(u.procs)
    BY <2>5, <2>8, <2>9, <2>10
  <2> QED BY <2>5, <2>7, <2>11, <2>12, <2>13 DEF IsAssigned
<1> QED BY <1>3, <1>4
-----------------------------------------------------------------------------
\* A settled queue on which one process or one object was pushed: the loop body
\* runs at most once.
OnePushed(r, O, P) ==
    /\ r \in Queues(O, P) /\ NoDuplicate(r.procs)
    /\ Len(r.objects) \leq 1 \/ Len(r.procs) \leq 1

LEMMA QueueProcessPushes ==
    ASSUME NEW O, NEW P, IsFiniteSet(P), NEW p \in P,
           NEW q \in Queues(O, P), Settled(q), RoomFor(q, p, P),
           NEW r, r = QueueProcess(q, p, Cardinality(P))
    PROVE  OnePushed(r, O, P) /\ Elements(r.procs) = Elements(q.procs) \cup {p}
<1> DEFINE t == PushFront(q.procs, p, Cardinality(P))
<1>1. q.procs \in Seq(P) /\ q.objects \in Seq(O) /\ q = [objects |-> q.objects, procs |-> q.procs]
  BY DEF Queues
<1>2. /\ t \in Seq(P) /\ NoDuplicate(t) /\ Elements(t) = Elements(q.procs) \cup {p}
      /\ q.procs = <<>> => t = <<p>>
  BY <1>1, PushFrontPushes DEF RoomFor
<1>3. r = [objects |-> q.objects, procs |-> t]
  BY <1>1 DEF QueueProcess
<1> HIDE DEF t
<1>4. Len(q.objects) \leq 1 \/ Len(t) \leq 1
  <2>1. CASE q.objects = <<>>
    <3>1. Len(q.objects) = 0
      BY <2>1
    <3> QED BY <3>1
  <2>2. CASE q.procs = <<>>
    <3>1. Len(t) = 1
      BY <2>2, <1>2
    <3> QED BY <3>1
  <2> QED BY <2>1, <2>2 DEF Settled
<1> QED BY <1>1, <1>2, <1>3, <1>4 DEF OnePushed, Queues

LEMMA QueueObjectFrontPushes ==
    ASSUME NEW O, NEW P, NEW o \in O, NEW n \in Nat, n > 0,
           NEW q \in Queues(O, P), Settled(q), NoDuplicate(q.procs),
           NEW r, r = QueueObjectFront(q, o, n)
    PROVE  OnePushed(r, O, P) /\ r.procs = q.procs
<1> DEFINE t == PushFront(q.objects, o, n)
<1>1. q.procs \in Seq(P) /\ q.objects \in Seq(O) /\ q = [objects |-> q.objects, procs |-> q.procs]
  BY DEF Queues
<1>2. Len(q.objects) \in Nat /\ \A i \in 1..Len(q.objects) : q.objects[i] \in O
  BY <1>1, LenProperties, ElementOfSeq
<1>3. t \in Seq(O) /\ (q.objects = <<>> => Len(t) \leq 1)
  <2>1. CASE Len(q.objects) < n
    <3>1. t = <<o>> \o q.objects
      BY <2>1 DEF PushFront
    <3> QED BY <1>1, <3>1
  <2>2. CASE ~(Len(q.objects) < n)
    <3>1. t = <<o>> \o SubSeq(q.objects, 1, n - 1)
      BY <2>2 DEF PushFront
    <3>2. SubSeq(q.objects, 1, n - 1) \in Seq(O)
      <4>1. \A i \in 1..(n - 1) : q.objects[i] \in O
        BY <1>2, <2>2
      <4> QED BY <4>1, SubSeqProperties
    <3>3. q.objects # <<>>
      BY <1>2, <2>2
    <3> QED BY <3>1, <3>2, <3>3
  <2> QED BY <2>1, <2>2
<1>4. r = [objects |-> t, procs |-> q.procs]
  BY <1>1 DEF QueueObjectFront
<1>5. Len(t) \leq 1 \/ Len(q.procs) \leq 1
  BY <1>3 DEF Settled
<1> HIDE DEF t
<1> QED BY <1>1, <1>3, <1>4, <1>5 DEF OnePushed, Queues

LEMMA QueueObjectBackPushes ==
    ASSUME NEW O, NEW P, NEW o \in O,
           NEW q \in Queues(O, P), Settled(q), NoDuplicate(q.procs),
           NEW r, r = QueueObjectBack(q, o)
    PROVE  OnePushed(r, O, P) /\ r.procs = q.procs
<1> DEFINE t == Append(q.objects, o)
<1>1. q.procs \in Seq(P) /\ q.objects \in Seq(O) /\ q = [objects |-> q.objects, procs |-> q.procs]
  BY DEF Queues
<1>2. t \in Seq(O) /\ (q.objects = <<>> => Len(t) \leq 1)
  BY <1>1
<1>3. r = [objects |-> t, procs |-> q.procs]
  BY <1>1 DEF QueueObjectBack
<1>4. Len(t) \leq 1 \/ Len(q.procs) \leq 1
  BY <1>2 DEF Settled
<1> HIDE DEF t
<1> QED BY <1>1, <1>2, <1>3, <1>4 DEF OnePushed, Queues

-----------------------------------------------------------------------------
(* The resource.                                                           *)

\* The parts of QueueInvariant about the queues, FIFOs and semaphores.
QueueTypes ==
    /\ emptyQueue \in Queues(Objects, Producers)
    /\ fullQueue \in Queues(Objects, Consumers)
    /\ fifo \in [Processes -> Seq(Objects)]
    /\ semaphore \in [Processes -> Nat]

QueueParts ==
    /\ QueueTypes
    /\ NoIdleMatch
    /\ ProcessBufferSuffices
    /\ SemaphoreCountsObjects
    /\ NoLostWakeup
    /\ OneAnswer

\* The part of TypeOK about the variables the queues do not touch.
OtherTypes ==
    /\ quit \in [Consumers -> BOOLEAN]
    /\ liveCount \in [Objects -> 0..CountModulus - 1]
    /\ releaseEnable \in [Objects -> BOOLEAN]
    /\ pc \in [Processes -> {"running", "waiting", "woken", "peeking", "peeked", "stopped",
                             "enabling", "checking", "retiring"}]
    /\ holding \in [Processes -> SUBSET Objects]
    /\ shared \in [Objects -> Nat]
    /\ active \in Objects \cup {None} /\ retiring \in Objects \cup {None}
    /\ posted \in Seq(Objects)

\* QueueInvariant, before and after a step, is the sum of these parts.
LEMMA InvariantParts ==
    /\ QueueInvariant <=> QueueParts /\ OtherTypes /\ CallsWellFormed
    /\ QueueInvariant' <=> QueueParts' /\ OtherTypes' /\ CallsWellFormed'
<1>1. QueueInvariant <=> QueueParts /\ OtherTypes /\ CallsWellFormed
  BY DEF QueueInvariant, TypeOK, QueueParts, QueueTypes, Queues, OtherTypes
<1>2. QueueInvariant' <=> QueueParts' /\ OtherTypes' /\ CallsWellFormed'
  BY DEF QueueInvariant, TypeOK, QueueParts, QueueTypes, Queues, OtherTypes
<1> QED BY <1>1, <1>2

-----------------------------------------------------------------------------
\* Assigning the empty queue keeps the queue parts, whatever was pushed on it,
\* if the processes in it are those that wait with their semaphore at zero.
LEMMA AssignEmptyKeeps ==
    ASSUME SystemResourceAssumption, QueueParts,
           NEW r, OnePushed(r, Objects, Producers),
           AssignEmpty(r), quit' = quit,
           \A p \in Elements(r.procs) : pc'[p] = "waiting" /\ semaphore[p] = 0,
           \A p \in Producers : pc'[p] = "waiting" => p \in Elements(r.procs) \/ semaphore[p] > 0,
           \A p \in Producers : pc'[p] # "waiting" => pc[p] # "waiting",
           \A c \in Consumers : pc'[c] = pc[c]
    PROVE  QueueParts'
<1>1. IsAssigned(r, fifo, semaphore, Objects, Producers, Processes)
  BY AssignOnce DEF Processes, QueueParts, QueueTypes, OnePushed
<1>2. /\ emptyQueue' = Unmatched(r) /\ fullQueue' = fullQueue
      /\ fifo' = FifosAfter(r, fifo) /\ semaphore' = SemaphoresAfter(r, semaphore)
  BY DEF AssignEmpty
<1>3. /\ emptyQueue' \in Queues(Objects, Producers) /\ Settled(emptyQueue')
      /\ NoDuplicate(emptyQueue'.procs)
      /\ fifo' \in [Processes -> Seq(Objects)] /\ semaphore' \in [Processes -> Nat]
      /\ Elements(emptyQueue'.procs) \subseteq Elements(r.procs)
  BY <1>1, <1>2 DEF IsAssigned
<1>4. \A x \in Processes :
        \/ /\ semaphore'[x] = semaphore[x] /\ fifo'[x] = fifo[x]
           /\ x \in Elements(r.procs) => x \in Elements(emptyQueue'.procs)
        \/ /\ semaphore'[x] = semaphore[x] + 1 /\ Len(fifo'[x]) = Len(fifo[x]) + 1
           /\ x \in Elements(r.procs) /\ x \notin Elements(emptyQueue'.procs)
  BY <1>1, <1>2 DEF IsAssigned
<1>5. Elements(r.procs) \subseteq Producers
  BY LenProperties, ElementOfSeq DEF Queues, Elements, OnePushed
<1>6. \A c \in Consumers : c \notin Producers /\ c \in Processes
  BY DEF SystemResourceAssumption, Processes
<1>7. \A c \in Consumers : semaphore'[c] = semaphore[c] /\ fifo'[c] = fifo[c]
  BY <1>4, <1>5, <1>6
<1>8. \A x \in Processes : semaphore[x] \in Nat /\ Len(fifo[x]) \in Nat
  BY LenProperties DEF QueueParts, QueueTypes
<1>9. QueueTypes'
  BY <1>2, <1>3 DEF QueueParts, QueueTypes
<1>10. NoIdleMatch'
  BY <1>2, <1>3 DEF QueueParts, NoIdleMatch, Settled
<1>11. ProcessBufferSuffices'
  <2>1. \A p \in Elements(emptyQueue'.procs) : pc'[p] = "waiting" /\ semaphore'[p] = 0
    BY <1>3, <1>4, <1>5, <1>8 DEF Processes
  <2>2. Elements(fullQueue.procs) \subseteq Consumers
    BY LenProperties, ElementOfSeq DEF QueueParts, QueueTypes, Queues, Elements
  <2> QED BY <1>2, <1>3, <1>7, <2>1, <2>2 DEF QueueParts, ProcessBufferSuffices, NoDuplicate
<1>12. SemaphoreCountsObjects'
  <2>1. ASSUME NEW p \in Producers PROVE semaphore'[p] = Len(fifo'[p])
    <3>1. p \in Processes /\ semaphore[p] = Len(fifo[p])
      BY DEF Processes, QueueParts, SemaphoreCountsObjects
    <3> QED BY <3>1, <1>4
  <2> QED BY <2>1, <1>7 DEF QueueParts, SemaphoreCountsObjects
<1>13. NoLostWakeup'
  <2>1. ASSUME NEW p \in Producers, pc'[p] = "waiting"
        PROVE  semaphore'[p] > 0 \/ p \in Elements(emptyQueue'.procs)
    BY <2>1, <1>4, <1>8 DEF Processes
  <2> QED BY <2>1, <1>2, <1>7 DEF QueueParts, NoLostWakeup
<1>14. OneAnswer'
  <2>1. ASSUME NEW p \in Producers
        PROVE  semaphore'[p] \leq 1 /\ (pc'[p] # "waiting" => semaphore'[p] = 0)
    <3>1. p \in Processes /\ semaphore[p] \leq 1 /\ (pc[p] # "waiting" => semaphore[p] = 0)
      BY DEF Processes, QueueParts, OneAnswer
    <3>2. CASE p \in Elements(r.procs)
      BY <3>2, <3>1, <1>4
    <3>3. CASE p \notin Elements(r.procs)
      BY <3>3, <3>1, <1>4
    <3> QED BY <3>2, <3>3
  <2> QED BY <2>1, <1>7 DEF QueueParts, OneAnswer
<1> QED BY <1>9, <1>10, <1>11, <1>12, <1>13, <1>14 DEF QueueParts

\* The same for the full queue, where a consumer may be queued while it runs:
\* the polling one, or one that was shut down.
LEMMA AssignFullKeeps ==
    ASSUME SystemResourceAssumption, QueueParts,
           NEW r, OnePushed(r, Objects, Consumers),
           AssignFull(r), quit' = quit,
           \A c \in Elements(r.procs) :
              \/ c \in Polling
              \/ pc'[c] = "waiting" /\ semaphore[c] = 0
              \/ pc'[c] \in {"waiting", "woken", "stopped"} /\ quit[c],
           \A c \in Consumers : pc'[c] = "waiting" => c \in Elements(r.procs) \/ semaphore[c] > 0,
           \A c \in Consumers : pc'[c] # "waiting" => pc[c] # "waiting",
           \A c \in Consumers : (pc'[c] = "woken") = (pc[c] = "woken"),
           \A c \in Consumers : (pc'[c] = "stopped") = (pc[c] = "stopped"),
           \A p \in Producers : pc'[p] = pc[p]
    PROVE  QueueParts'
<1>1. IsAssigned(r, fifo, semaphore, Objects, Consumers, Processes)
  BY AssignOnce DEF Processes, QueueParts, QueueTypes, OnePushed
<1>2. /\ fullQueue' = Unmatched(r) /\ emptyQueue' = emptyQueue
      /\ fifo' = FifosAfter(r, fifo) /\ semaphore' = SemaphoresAfter(r, semaphore)
  BY DEF AssignFull
<1>3. /\ fullQueue' \in Queues(Objects, Consumers) /\ Settled(fullQueue')
      /\ NoDuplicate(fullQueue'.procs)
      /\ fifo' \in [Processes -> Seq(Objects)] /\ semaphore' \in [Processes -> Nat]
      /\ Elements(fullQueue'.procs) \subseteq Elements(r.procs)
  BY <1>1, <1>2 DEF IsAssigned
<1>4. \A x \in Processes :
        \/ /\ semaphore'[x] = semaphore[x] /\ fifo'[x] = fifo[x]
           /\ x \in Elements(r.procs) => x \in Elements(fullQueue'.procs)
        \/ /\ semaphore'[x] = semaphore[x] + 1 /\ Len(fifo'[x]) = Len(fifo[x]) + 1
           /\ x \in Elements(r.procs) /\ x \notin Elements(fullQueue'.procs)
  BY <1>1, <1>2 DEF IsAssigned
<1>5. Elements(r.procs) \subseteq Consumers
  BY LenProperties, ElementOfSeq DEF Queues, Elements, OnePushed
<1>6. \A p \in Producers : p \notin Consumers /\ p \in Processes
  BY DEF SystemResourceAssumption, Processes
<1>7. \A p \in Producers : semaphore'[p] = semaphore[p] /\ fifo'[p] = fifo[p]
  BY <1>4, <1>5, <1>6
<1>8. \A x \in Processes : semaphore[x] \in Nat /\ Len(fifo[x]) \in Nat
  BY LenProperties DEF QueueParts, QueueTypes
<1>9. QueueTypes'
  BY <1>2, <1>3 DEF QueueParts, QueueTypes
<1>10. NoIdleMatch'
  BY <1>2, <1>3 DEF QueueParts, NoIdleMatch, Settled
<1>11. ProcessBufferSuffices'
  <2>1. ASSUME NEW c \in Elements(fullQueue'.procs)
        PROVE  \/ c \in Polling
               \/ pc'[c] = "waiting" /\ semaphore'[c] = 0
               \/ pc'[c] \in {"waiting", "woken", "stopped"} /\ quit[c]
    <3>1. c \in Elements(r.procs) /\ c \in Processes
      BY <1>3, <1>5 DEF Processes
    <3>2. semaphore'[c] = semaphore[c]
      BY <1>4, <3>1
    <3> QED BY <3>1, <3>2
  <2>2. Elements(emptyQueue.procs) \subseteq Producers
    BY LenProperties, ElementOfSeq DEF QueueParts, QueueTypes, Queues, Elements
  <2> QED BY <1>2, <1>3, <1>7, <2>1, <2>2 DEF QueueParts, ProcessBufferSuffices, NoDuplicate
<1>12. SemaphoreCountsObjects'
  <2>1. ASSUME NEW c \in Consumers
        PROVE  semaphore'[c] + (IF pc'[c] = "woken" THEN 1 ELSE 0)
                 = Len(fifo'[c]) + (IF quit'[c] /\ pc'[c] # "stopped" THEN 1 ELSE 0)
    <3>1. /\ c \in Processes
          /\ semaphore[c] + (IF pc[c] = "woken" THEN 1 ELSE 0)
               = Len(fifo[c]) + (IF quit[c] /\ pc[c] # "stopped" THEN 1 ELSE 0)
      BY DEF Processes, QueueParts, SemaphoreCountsObjects
    <3>2. \E k \in {0, 1} : semaphore'[c] = semaphore[c] + k /\ Len(fifo'[c]) = Len(fifo[c]) + k
      BY <3>1, <1>4, <1>8
    <3> DEFINE woken == IF pc[c] = "woken" THEN 1 ELSE 0
               owed == IF quit[c] /\ pc[c] # "stopped" THEN 1 ELSE 0
    <3>3. (IF pc'[c] = "woken" THEN 1 ELSE 0) = woken
      BY Zenon
    <3>4. (IF quit'[c] /\ pc'[c] # "stopped" THEN 1 ELSE 0) = owed
      BY Zenon
    <3>5. woken \in {0, 1} /\ owed \in {0, 1}
      BY Zenon
    <3> HIDE DEF woken, owed
    <3>6. semaphore[c] + woken = Len(fifo[c]) + owed
      BY <3>1 DEF woken, owed
    <3>7. semaphore'[c] + woken = Len(fifo'[c]) + owed
      BY <3>1, <3>2, <3>5, <3>6, <1>8
    <3> QED BY <3>3, <3>4, <3>7
  <2> QED BY <2>1, <1>7 DEF QueueParts, SemaphoreCountsObjects
<1>13. NoLostWakeup'
  <2>1. ASSUME NEW c \in Consumers, pc'[c] = "waiting"
        PROVE  semaphore'[c] > 0 \/ c \in Elements(fullQueue'.procs)
    BY <2>1, <1>4, <1>8 DEF Processes
  <2> QED BY <2>1, <1>2, <1>7 DEF QueueParts, NoLostWakeup
<1>14. OneAnswer'
  <2>1. ASSUME NEW c \in Consumers, c \notin Polling, ~quit[c]
        PROVE  semaphore'[c] \leq 1 /\ (pc'[c] # "waiting" => semaphore'[c] = 0)
    <3>1. c \in Processes /\ semaphore[c] \leq 1 /\ (pc[c] # "waiting" => semaphore[c] = 0)
      BY <2>1 DEF Processes, QueueParts, OneAnswer
    <3>2. CASE c \in Elements(r.procs)
      BY <2>1, <3>2, <3>1, <1>4
    <3>3. CASE c \notin Elements(r.procs)
      BY <3>3, <3>1, <1>4
    <3> QED BY <3>2, <3>3
  <2> QED BY <2>1, <1>7 DEF QueueParts, OneAnswer
<1> QED BY <1>9, <1>10, <1>11, <1>12, <1>13, <1>14 DEF QueueParts

\* A step that leaves the queues alone, and moves no consumer into, out of or
\* between the places where its semaphore counts.
LEMMA UnchangedKeeps ==
    ASSUME QueueParts, UNCHANGED queueVars, quit' = quit,
           \A p \in Producers : (pc'[p] = "waiting") = (pc[p] = "waiting"),
           \A c \in Consumers :
              \/ pc'[c] = pc[c]
              \/ pc[c] \notin {"waiting", "woken", "stopped"} /\ pc'[c] \notin {"waiting", "woken", "stopped"}
    PROVE  QueueParts'
<1>1. /\ emptyQueue' = emptyQueue /\ fullQueue' = fullQueue
      /\ fifo' = fifo /\ semaphore' = semaphore
  BY DEF queueVars
<1>2. QueueTypes' /\ NoIdleMatch'
  BY <1>1 DEF QueueParts, QueueTypes, NoIdleMatch
<1>3. Elements(emptyQueue.procs) \subseteq Producers /\ Elements(fullQueue.procs) \subseteq Consumers
  BY LenProperties, ElementOfSeq DEF QueueParts, QueueTypes, Queues, Elements
<1>4. ProcessBufferSuffices'
  BY <1>1, <1>3 DEF QueueParts, ProcessBufferSuffices
<1>5. SemaphoreCountsObjects'
  <2>1. ASSUME NEW c \in Consumers
        PROVE  semaphore'[c] + (IF pc'[c] = "woken" THEN 1 ELSE 0)
                 = Len(fifo'[c]) + (IF quit'[c] /\ pc'[c] # "stopped" THEN 1 ELSE 0)
    <3>1. (pc'[c] = "woken" <=> pc[c] = "woken") /\ (pc'[c] = "stopped" <=> pc[c] = "stopped")
      OBVIOUS
    <3> QED BY <1>1, <3>1 DEF QueueParts, SemaphoreCountsObjects
  <2> QED BY <2>1, <1>1 DEF QueueParts, SemaphoreCountsObjects
<1>6. NoLostWakeup'
  BY <1>1 DEF QueueParts, NoLostWakeup
<1>7. OneAnswer'
  BY <1>1 DEF QueueParts, OneAnswer
<1> QED BY <1>2, <1>4, <1>5, <1>6, <1>7 DEF QueueParts

\* svt_release_object, whoever calls it.
LEMMA ReleaseKeeps ==
    ASSUME SystemResourceAssumption, QueueParts, NEW o \in Objects, ReleaseObject(o), quit' = quit,
           \A p \in Producers : (pc'[p] = "waiting") = (pc[p] = "waiting"),
           \A c \in Consumers : pc'[c] = pc[c]
    PROVE  QueueParts'
<1>1. CASE Frees(o)
  <2> DEFINE r == QueueObjectFront(emptyQueue, o, ObjectCount)
  <2>1. AssignEmpty(r)
    BY <1>1 DEF ReleaseObject
  <2>2. ObjectCount \in Nat /\ ObjectCount > 0
    <3>1. IsFiniteSet(Objects) /\ Objects # {}
      BY DEF SystemResourceAssumption
    <3>2. Cardinality(Objects) \in Nat /\ Cardinality(Objects) # 0
      BY <3>1, FS_CardinalityType, FS_EmptySet
    <3> QED BY <3>2 DEF ObjectCount
  <2>3. emptyQueue \in Queues(Objects, Producers) /\ Settled(emptyQueue) /\ NoDuplicate(emptyQueue.procs)
    BY DEF QueueParts, QueueTypes, NoIdleMatch, Settled, ProcessBufferSuffices, NoDuplicate
  <2>4. OnePushed(r, Objects, Producers) /\ r.procs = emptyQueue.procs
    BY <2>2, <2>3, QueueObjectFrontPushes
  <2> HIDE DEF r
  <2>5. Elements(emptyQueue.procs) \subseteq Producers
    BY LenProperties, ElementOfSeq DEF QueueParts, QueueTypes, Queues, Elements
  <2>6. \A p \in Elements(r.procs) : pc'[p] = "waiting" /\ semaphore[p] = 0
    BY <2>4, <2>5 DEF QueueParts, ProcessBufferSuffices
  <2>7. \A p \in Producers : pc'[p] = "waiting" => p \in Elements(r.procs) \/ semaphore[p] > 0
    BY <2>4 DEF QueueParts, NoLostWakeup
  <2> QED BY <2>1, <2>4, <2>6, <2>7, AssignEmptyKeeps
<1>2. CASE ~Frees(o)
  <2>1. UNCHANGED queueVars
    BY <1>2 DEF ReleaseObject
  <2> QED BY <2>1, UnchangedKeeps
<1> QED BY <1>1, <1>2

\* live_count and release_enable stay what they are declared.
LEMMA ReleaseTypes ==
    ASSUME SystemResourceAssumption, OtherTypes, NEW o \in Objects, ReleaseObject(o)
    PROVE  liveCount' \in [Objects -> 0..CountModulus - 1] /\ releaseEnable' = releaseEnable
<1>1. liveCount[o] \in 0..CountModulus - 1 /\ CountModulus \in Nat /\ CountModulus > 3
  BY DEF OtherTypes, SystemResourceAssumption
<1>2. Decremented(o) \in 0..CountModulus - 1 /\ Released \in 0..CountModulus - 1
  BY <1>1 DEF Decremented, Released
<1> QED BY <1>2 DEF ReleaseObject, OtherTypes

-----------------------------------------------------------------------------
(* One lemma for each action. *)

LEMMA RequestEmptyKeeps ==
    ASSUME SystemResourceAssumption, QueueInvariant, NEW p \in Producers, RequestEmpty(p)
    PROVE  QueueInvariant'
<1> DEFINE r == QueueProcess(emptyQueue, p, Cardinality(Producers))
<1>1. QueueParts /\ OtherTypes /\ CallsWellFormed
  BY InvariantParts
<1>2. AssignEmpty(r) /\ quit' = quit /\ pc[p] = "running" /\ pc' = [pc EXCEPT ![p] = "waiting"]
  BY DEF RequestEmpty
<1>3. /\ \A x \in Processes : pc'[x] = IF x = p THEN "waiting" ELSE pc[x]
      /\ \A x \in Producers : x \in Processes
      /\ \A x \in Consumers : x \in Processes /\ x # p
  BY <1>1, <1>2 DEF OtherTypes, Processes, SystemResourceAssumption
<1>4. OnePushed(r, Objects, Producers) /\ Elements(r.procs) = Elements(emptyQueue.procs) \cup {p}
  <2>1. emptyQueue \in Queues(Objects, Producers) /\ Settled(emptyQueue)
    BY <1>1 DEF QueueParts, QueueTypes, NoIdleMatch, Settled
  <2>2. RoomFor(emptyQueue, p, Producers)
    BY <1>1, <1>2 DEF QueueParts, ProcessBufferSuffices, RoomFor, NoDuplicate
  <2>3. IsFiniteSet(Producers)
    BY DEF SystemResourceAssumption
  <2> QED BY <2>1, <2>2, <2>3, QueueProcessPushes
<1> HIDE DEF r
<1>5. Elements(emptyQueue.procs) \subseteq Producers
  BY <1>1, LenProperties, ElementOfSeq DEF QueueParts, QueueTypes, Queues, Elements
<1>6. QueueParts'
  <2>1. \A x \in Elements(r.procs) : pc'[x] = "waiting" /\ semaphore[x] = 0
    BY <1>1, <1>2, <1>3, <1>4, <1>5 DEF QueueParts, ProcessBufferSuffices, OneAnswer
  <2>2. \A x \in Producers : pc'[x] = "waiting" => x \in Elements(r.procs) \/ semaphore[x] > 0
    BY <1>1, <1>3, <1>4 DEF QueueParts, NoLostWakeup
  <2>3. \A x \in Producers : pc'[x] # "waiting" => pc[x] # "waiting"
    BY <1>3
  <2>4. \A x \in Consumers : pc'[x] = pc[x]
    BY <1>3
  <2> QED BY <1>1, <1>2, <1>4, <2>1, <2>2, <2>3, <2>4, AssignEmptyKeeps
<1>7. OtherTypes'
  BY <1>1, <1>2 DEF RequestEmpty, OtherTypes, countVars, pinVars
<1>8. CallsWellFormed'
  BY <1>1, <1>2, <1>3 DEF RequestEmpty, CallsWellFormed, pinVars
<1> QED BY <1>6, <1>7, <1>8, InvariantParts

LEMMA TakeEmptyKeeps ==
    ASSUME SystemResourceAssumption, QueueInvariant, NEW p \in Producers, TakeEmpty(p)
    PROVE  QueueInvariant'
<1>1. QueueParts /\ OtherTypes /\ CallsWellFormed
  BY InvariantParts
<1>2. /\ p \in Processes /\ pc[p] = "waiting"
      /\ semaphore[p] = 1 /\ Len(fifo[p]) = 1 /\ fifo[p] \in Seq(Objects)
  <2>1. p \in Processes /\ pc[p] = "waiting" /\ semaphore[p] > 0
    BY DEF TakeEmpty, Processes
  <2>2. semaphore[p] \in Nat /\ fifo[p] \in Seq(Objects)
    BY <1>1, <2>1 DEF QueueParts, QueueTypes
  <2>3. semaphore[p] \leq 1 /\ semaphore[p] = Len(fifo[p])
    BY <1>1 DEF QueueParts, SemaphoreCountsObjects, OneAnswer
  <2> DEFINE k == semaphore[p]
  <2>4. k \in Nat /\ k > 0 /\ k \leq 1
    BY <2>1, <2>2, <2>3
  <2> HIDE DEF k
  <2>5. k = 1
    BY <2>4
  <2> QED BY <2>1, <2>2, <2>3, <2>5 DEF k
<1>3. /\ Head(fifo[p]) \in Objects /\ Tail(fifo[p]) \in Seq(Objects) /\ Len(Tail(fifo[p])) = 0
  <2> DEFINE s == fifo[p]
  <2>1. s \in Seq(Objects) /\ Len(s) = 1
    BY <1>2
  <2> HIDE DEF s
  <2>2. Head(s) \in Objects /\ Tail(s) \in Seq(Objects) /\ Len(Tail(s)) = 0
    BY <2>1
  <2> QED BY <2>2 DEF s
<1>4. /\ emptyQueue' = emptyQueue /\ fullQueue' = fullQueue /\ quit' = quit
      /\ semaphore' = [semaphore EXCEPT ![p] = 0]
      /\ fifo' = [fifo EXCEPT ![p] = Tail(fifo[p])]
      /\ pc' = [pc EXCEPT ![p] = "running"]
  BY <1>2 DEF TakeEmpty
<1>5. /\ semaphore' \in [Processes -> Nat] /\ fifo' \in [Processes -> Seq(Objects)]
      /\ semaphore'[p] = 0 /\ Len(fifo'[p]) = 0 /\ pc'[p] = "running"
      /\ \A x \in Processes \ {p} : semaphore'[x] = semaphore[x] /\ fifo'[x] = fifo[x] /\ pc'[x] = pc[x]
  BY <1>1, <1>2, <1>3, <1>4 DEF QueueParts, QueueTypes, OtherTypes
<1>6. /\ \A x \in Producers : x = p \/ x \in Processes \ {p}
      /\ \A x \in Consumers : x \in Processes \ {p}
  BY DEF Processes, SystemResourceAssumption
<1>7. Elements(emptyQueue.procs) \subseteq Producers /\ Elements(fullQueue.procs) \subseteq Consumers
  BY <1>1, LenProperties, ElementOfSeq DEF QueueParts, QueueTypes, Queues, Elements
<1>8. p \notin Elements(emptyQueue.procs)
  BY <1>1, <1>2 DEF QueueParts, ProcessBufferSuffices
<1>9. QueueTypes' /\ NoIdleMatch'
  BY <1>1, <1>4, <1>5 DEF QueueParts, QueueTypes, NoIdleMatch
<1>10. ProcessBufferSuffices'
  BY <1>1, <1>4, <1>5, <1>6, <1>7, <1>8 DEF QueueParts, ProcessBufferSuffices
<1>11. SemaphoreCountsObjects'
  <2>1. \A x \in Producers : semaphore'[x] = Len(fifo'[x])
    BY <1>1, <1>5, <1>6 DEF QueueParts, SemaphoreCountsObjects
  <2>2. \A x \in Consumers : /\ semaphore'[x] = semaphore[x] /\ fifo'[x] = fifo[x]
                             /\ pc'[x] = pc[x] /\ quit'[x] = quit[x]
    BY <1>4, <1>5, <1>6
  <2> QED BY <1>1, <2>1, <2>2 DEF QueueParts, SemaphoreCountsObjects
<1>12. NoLostWakeup' /\ OneAnswer'
  BY <1>1, <1>4, <1>5, <1>6 DEF QueueParts, NoLostWakeup, OneAnswer
<1>13. OtherTypes'
  BY <1>1, <1>2, <1>3, <1>4 DEF TakeEmpty, OtherTypes, pinVars, SystemResourceAssumption
<1>14. CallsWellFormed'
  BY <1>1, <1>4, <1>5, <1>6 DEF TakeEmpty, CallsWellFormed, pinVars
<1> QED BY <1>9, <1>10, <1>11, <1>12, <1>13, <1>14, InvariantParts DEF QueueParts

LEMMA PostKeeps ==
    ASSUME SystemResourceAssumption, QueueInvariant, NEW p \in Producers, NEW o \in Objects, Post(p, o)
    PROVE  QueueInvariant'
<1> DEFINE r == QueueObjectBack(fullQueue, o)
<1>1. QueueParts /\ OtherTypes /\ CallsWellFormed
  BY InvariantParts
<1>2. AssignFull(r) /\ quit' = quit /\ pc' = pc
  BY DEF Post
<1>3. OnePushed(r, Objects, Consumers) /\ r.procs = fullQueue.procs
  <2>1. fullQueue \in Queues(Objects, Consumers) /\ Settled(fullQueue) /\ NoDuplicate(fullQueue.procs)
    BY <1>1 DEF QueueParts, QueueTypes, NoIdleMatch, Settled, ProcessBufferSuffices, NoDuplicate
  <2> QED BY <2>1, QueueObjectBackPushes
<1> HIDE DEF r
<1>4. QueueParts'
  <2>1. \A c \in Elements(r.procs) :
              \/ c \in Polling
              \/ pc'[c] = "waiting" /\ semaphore[c] = 0
              \/ pc'[c] \in {"waiting", "woken", "stopped"} /\ quit[c]
    BY <1>1, <1>2, <1>3 DEF QueueParts, ProcessBufferSuffices
  <2>2. \A c \in Consumers : pc'[c] = "waiting" => c \in Elements(r.procs) \/ semaphore[c] > 0
    BY <1>1, <1>2, <1>3 DEF QueueParts, NoLostWakeup
  <2> QED BY <1>1, <1>2, <1>3, <2>1, <2>2, AssignFullKeeps
<1>5. OtherTypes'
  <2>1. posted \in Seq(Objects) /\ posted' = Append(posted, o)
    BY <1>1 DEF Post, OtherTypes
  <2>2. posted' \in Seq(Objects)
    BY <2>1
  <2>3. holding' \in [Processes -> SUBSET Objects]
    BY <1>1 DEF Post, OtherTypes
  <2> QED BY <1>1, <1>2, <2>2, <2>3 DEF Post, OtherTypes, countVars, pinVars
<1>6. CallsWellFormed'
  BY <1>1, <1>2 DEF Post, CallsWellFormed, pinVars
<1> QED BY <1>4, <1>5, <1>6, InvariantParts

\* RequestFull and Poll: the consumer queues itself and moves on to w.
LEMMA QueueingKeeps ==
    ASSUME SystemResourceAssumption, QueueInvariant, NEW c \in Consumers,
           NEW w, w = "waiting" \/ (w = "peeking" /\ c \in Polling),
           pc[c] = "running" \/ (pc[c] = "peeked" /\ c \in Polling),
           AssignFull(QueueProcess(fullQueue, c, Cardinality(Consumers))),
           pc' = [pc EXCEPT ![c] = w],
           UNCHANGED <<quit, countVars, holding, shared, pinVars, posted>>
    PROVE  QueueInvariant'
<1> DEFINE r == QueueProcess(fullQueue, c, Cardinality(Consumers))
<1>1. QueueParts /\ OtherTypes /\ CallsWellFormed
  BY InvariantParts
<1>2. AssignFull(r) /\ quit' = quit
  OBVIOUS
<1>3. /\ \A x \in Processes : pc'[x] = IF x = c THEN w ELSE pc[x]
      /\ \A x \in Consumers : x \in Processes
      /\ \A x \in Producers : x \in Processes /\ x # c
  BY <1>1, <1>2 DEF OtherTypes, Processes, SystemResourceAssumption
<1>4. c \in Polling => Consumers = {c}
  BY DEF SystemResourceAssumption
<1>5. c \in Polling \/ quit[c] \/ (semaphore[c] = 0 /\ c \notin Elements(fullQueue.procs))
  BY <1>1 DEF QueueParts, OneAnswer, ProcessBufferSuffices
<1>6. c \in Polling \/ c \notin Elements(fullQueue.procs)
  BY <1>1 DEF QueueParts, ProcessBufferSuffices
<1>7. OnePushed(r, Objects, Consumers) /\ Elements(r.procs) = Elements(fullQueue.procs) \cup {c}
  <2>1. fullQueue \in Queues(Objects, Consumers) /\ Settled(fullQueue)
    BY <1>1 DEF QueueParts, QueueTypes, NoIdleMatch, Settled
  <2>2. RoomFor(fullQueue, c, Consumers)
    BY <1>1, <1>4, <1>6 DEF QueueParts, ProcessBufferSuffices, RoomFor, NoDuplicate
  <2>3. IsFiniteSet(Consumers)
    BY DEF SystemResourceAssumption
  <2> QED BY <2>1, <2>2, <2>3, QueueProcessPushes
<1> HIDE DEF r
<1>8. Elements(fullQueue.procs) \subseteq Consumers
  BY <1>1, LenProperties, ElementOfSeq DEF QueueParts, QueueTypes, Queues, Elements
<1>9. QueueParts'
  <2>1. \A x \in Elements(r.procs) :
              \/ x \in Polling
              \/ pc'[x] = "waiting" /\ semaphore[x] = 0
              \/ pc'[x] \in {"waiting", "woken", "stopped"} /\ quit[x]
    BY <1>1, <1>3, <1>5, <1>7, <1>8 DEF QueueParts, ProcessBufferSuffices
  <2>2. \A x \in Consumers : pc'[x] = "waiting" => x \in Elements(r.procs) \/ semaphore[x] > 0
    BY <1>1, <1>3, <1>7 DEF QueueParts, NoLostWakeup
  <2>3. \A x \in Consumers : pc'[x] # "waiting" => pc[x] # "waiting"
    BY <1>3
  <2>4. \A x \in Consumers : ((pc'[x] = "woken") = (pc[x] = "woken")) /\ ((pc'[x] = "stopped") = (pc[x] = "stopped"))
    BY <1>3
  <2>5. \A x \in Producers : pc'[x] = pc[x]
    BY <1>3
  <2> QED BY <1>1, <1>2, <1>7, <2>1, <2>2, <2>3, <2>4, <2>5, AssignFullKeeps
<1>10. OtherTypes'
  BY <1>1, <1>2 DEF OtherTypes, countVars, pinVars
<1>11. CallsWellFormed'
  BY <1>1, <1>2, <1>3 DEF CallsWellFormed, pinVars
<1> QED BY <1>9, <1>10, <1>11, InvariantParts

\* The steps of svt_get_full_object after queueing: one consumer's semaphore,
\* FIFO and place change, its balance between them does not.
LEMMA ConsumerStepKeeps ==
    ASSUME SystemResourceAssumption, QueueParts, NEW c \in Consumers,
           emptyQueue' = emptyQueue, fullQueue' = fullQueue,
           semaphore' \in [Processes -> Nat], fifo' \in [Processes -> Seq(Objects)],
           \A x \in Processes \ {c} : semaphore'[x] = semaphore[x] /\ fifo'[x] = fifo[x] /\ pc'[x] = pc[x],
           \A x \in Consumers \ {c} : quit'[x] = quit[x],
           semaphore'[c] + (IF pc'[c] = "woken" THEN 1 ELSE 0)
              = Len(fifo'[c]) + (IF quit'[c] /\ pc'[c] # "stopped" THEN 1 ELSE 0),
           \/ c \in Polling \/ c \notin Elements(fullQueue.procs)
           \/ pc'[c] \in {"waiting", "woken", "stopped"} /\ quit'[c],
           pc'[c] = "waiting" => semaphore'[c] > 0,
           \/ c \in Polling \/ quit'[c]
           \/ semaphore'[c] \leq 1 /\ (pc'[c] # "waiting" => semaphore'[c] = 0)
    PROVE  QueueParts'
<1>1. /\ \A x \in Producers : x \in Processes \ {c}
      /\ \A x \in Consumers : x = c \/ x \in Processes \ {c}
      /\ \A x \in Consumers : x = c \/ x \in Consumers \ {c}
  BY DEF Processes, SystemResourceAssumption
<1>2. Elements(emptyQueue.procs) \subseteq Producers /\ Elements(fullQueue.procs) \subseteq Consumers
  BY LenProperties, ElementOfSeq DEF QueueParts, QueueTypes, Queues, Elements
<1>3. QueueTypes' /\ NoIdleMatch'
  BY DEF QueueParts, QueueTypes, NoIdleMatch
<1>4. ProcessBufferSuffices'
  BY <1>1, <1>2 DEF QueueParts, ProcessBufferSuffices
<1>5. SemaphoreCountsObjects'
  <2>1. \A x \in Producers : semaphore'[x] = Len(fifo'[x])
    BY <1>1 DEF QueueParts, SemaphoreCountsObjects
  <2>2. ASSUME NEW x \in Consumers, x # c
        PROVE  semaphore'[x] + (IF pc'[x] = "woken" THEN 1 ELSE 0)
                 = Len(fifo'[x]) + (IF quit'[x] /\ pc'[x] # "stopped" THEN 1 ELSE 0)
    <3>1. semaphore'[x] = semaphore[x] /\ fifo'[x] = fifo[x] /\ pc'[x] = pc[x] /\ quit'[x] = quit[x]
      BY <1>1, <2>2
    <3> QED BY <2>2, <3>1, ZenonT(40) DEF QueueParts, SemaphoreCountsObjects
  <2> QED BY <2>1, <2>2 DEF SemaphoreCountsObjects
<1>6. NoLostWakeup'
  BY <1>1 DEF QueueParts, NoLostWakeup
<1>7. OneAnswer'
  BY <1>1 DEF QueueParts, OneAnswer
<1> QED BY <1>3, <1>4, <1>5, <1>6, <1>7 DEF QueueParts

\* What the invariant says of one consumer.
OneConsumer(c) ==
    /\ c \in Processes /\ semaphore[c] \in Nat
    /\ fifo[c] \in Seq(Objects) /\ Len(fifo[c]) \in Nat
    /\ semaphore[c] + (IF pc[c] = "woken" THEN 1 ELSE 0)
          = Len(fifo[c]) + (IF quit[c] /\ pc[c] # "stopped" THEN 1 ELSE 0)
    /\ \/ c \in Polling \/ c \notin Elements(fullQueue.procs)
       \/ pc[c] = "waiting" /\ semaphore[c] = 0
       \/ pc[c] \in {"waiting", "woken", "stopped"} /\ quit[c]
    /\ \/ c \in Polling \/ quit[c]
       \/ semaphore[c] \leq 1 /\ (pc[c] # "waiting" => semaphore[c] = 0)
    /\ pc[c] = "waiting" => semaphore[c] > 0 \/ c \in Elements(fullQueue.procs)
    /\ quit[c] \in BOOLEAN
    /\ pc[c] = "stopped" => quit[c]

LEMMA ConsumerFacts ==
    ASSUME QueueInvariant, NEW c \in Consumers
    PROVE  OneConsumer(c)
<1>1. QueueParts /\ OtherTypes /\ CallsWellFormed
  BY InvariantParts
<1>2. c \in Processes
  BY DEF Processes
<1>3. semaphore[c] \in Nat /\ fifo[c] \in Seq(Objects) /\ Len(fifo[c]) \in Nat
  BY <1>1, <1>2, LenProperties DEF QueueParts, QueueTypes
<1>4. semaphore[c] + (IF pc[c] = "woken" THEN 1 ELSE 0)
                 = Len(fifo[c]) + (IF quit[c] /\ pc[c] # "stopped" THEN 1 ELSE 0)
  BY <1>1 DEF QueueParts, SemaphoreCountsObjects
<1>5. /\ \/ c \in Polling \/ c \notin Elements(fullQueue.procs)
         \/ pc[c] = "waiting" /\ semaphore[c] = 0
         \/ pc[c] \in {"waiting", "woken", "stopped"} /\ quit[c]
      /\ \/ c \in Polling \/ quit[c]
         \/ semaphore[c] \leq 1 /\ (pc[c] # "waiting" => semaphore[c] = 0)
      /\ pc[c] = "waiting" => semaphore[c] > 0 \/ c \in Elements(fullQueue.procs)
  BY <1>1 DEF QueueParts, ProcessBufferSuffices, OneAnswer, NoLostWakeup
<1>6. quit[c] \in BOOLEAN /\ (pc[c] = "stopped" => quit[c])
  BY <1>1 DEF OtherTypes, CallsWellFormed
<1> QED BY <1>2, <1>3, <1>4, <1>5, <1>6 DEF OneConsumer

LEMMA WakeFullKeeps ==
    ASSUME SystemResourceAssumption, QueueInvariant, NEW c \in Consumers, WakeFull(c)
    PROVE  QueueInvariant'
<1>1. QueueParts /\ OtherTypes /\ CallsWellFormed
  BY InvariantParts
<1>0. OneConsumer(c)
  BY ConsumerFacts
<1>2. /\ c \in Processes /\ pc[c] = "waiting" /\ semaphore[c] \in Nat /\ semaphore[c] > 0
      /\ pc' = [pc EXCEPT ![c] = "woken"] /\ semaphore' = [semaphore EXCEPT ![c] = semaphore[c] - 1]
      /\ emptyQueue' = emptyQueue /\ fullQueue' = fullQueue /\ fifo' = fifo /\ quit' = quit
  BY <1>0 DEF WakeFull, OneConsumer
<1>3. /\ semaphore' \in [Processes -> Nat] /\ fifo' \in [Processes -> Seq(Objects)]
      /\ semaphore'[c] = semaphore[c] - 1 /\ pc'[c] = "woken"
      /\ \A x \in Processes \ {c} : semaphore'[x] = semaphore[x] /\ fifo'[x] = fifo[x] /\ pc'[x] = pc[x]
  BY <1>1, <1>2 DEF QueueParts, QueueTypes, OtherTypes
<1>4. semaphore'[c] + (IF pc'[c] = "woken" THEN 1 ELSE 0)
              = Len(fifo'[c]) + (IF quit'[c] /\ pc'[c] # "stopped" THEN 1 ELSE 0)
  <2>1. semaphore[c] = Len(fifo[c]) + (IF quit[c] THEN 1 ELSE 0)
    <3>1. pc[c] # "woken" /\ pc[c] # "stopped"
      BY <1>2
    <3>2. /\ (IF pc[c] = "woken" THEN 1 ELSE 0) = 0
          /\ (IF quit[c] /\ pc[c] # "stopped" THEN 1 ELSE 0) = (IF quit[c] THEN 1 ELSE 0)
      BY <3>1, Zenon
    <3>3. semaphore[c] + (IF pc[c] = "woken" THEN 1 ELSE 0)
            = Len(fifo[c]) + (IF quit[c] /\ pc[c] # "stopped" THEN 1 ELSE 0)
      BY <1>0 DEF OneConsumer
    <3>4. semaphore[c] + 0 = Len(fifo[c]) + (IF quit[c] THEN 1 ELSE 0)
      BY <3>2, <3>3, Zenon
    <3>5. semaphore[c] + 0 = semaphore[c]
      BY <1>2
    <3> QED BY <3>4, <3>5, Zenon
  <2>2. (IF pc'[c] = "woken" THEN 1 ELSE 0) = 1
        /\ (IF quit'[c] /\ pc'[c] # "stopped" THEN 1 ELSE 0) = (IF quit[c] THEN 1 ELSE 0)
    BY <1>2, <1>3
  <2>3. semaphore'[c] + 1 = semaphore[c]
    BY <1>2, <1>3
  <2> QED BY <1>2, <2>1, <2>2, <2>3
<1>5. \/ c \in Polling \/ c \notin Elements(fullQueue.procs)
      \/ pc'[c] \in {"waiting", "woken", "stopped"} /\ quit'[c]
  <2>1. semaphore[c] # 0 /\ pc'[c] \in {"waiting", "woken", "stopped"} /\ quit' = quit
    BY <1>2, <1>3
  <2> QED BY <1>0, <2>1, Zenon DEF OneConsumer
<1>6. c \in Polling \/ quit'[c] \/ (semaphore'[c] \leq 1 /\ semaphore'[c] = 0)
  <2>1. c \in Polling \/ quit[c] \/ semaphore[c] \leq 1
    BY <1>0, Zenon DEF OneConsumer
  <2>2. semaphore[c] \leq 1 => semaphore'[c] = 0
    BY <1>2, <1>3
  <2>3. semaphore'[c] = 0 => semaphore'[c] \leq 1
    BY <1>3
  <2> QED BY <1>2, <2>1, <2>2, <2>3, Zenon
<1>7. QueueParts'
  BY <1>1, <1>2, <1>3, <1>4, <1>5, <1>6, ConsumerStepKeeps
<1>8. OtherTypes'
  BY <1>1, <1>2 DEF WakeFull, OtherTypes, countVars, pinVars
<1>9. CallsWellFormed'
  BY <1>1, <1>2, <1>3 DEF WakeFull, CallsWellFormed, pinVars, Processes, SystemResourceAssumption
<1> QED BY <1>7, <1>8, <1>9, InvariantParts

\* Without keeps the type of a sequence.
LEMMA WithoutType ==
    ASSUME NEW S, NEW s \in Seq(S), NEW x
    PROVE  Without(s, x) \in Seq(S)
<1> DEFINE i == CHOOSE j \in DOMAIN s : s[j] = x
<1>1. CASE x \in Elements(s)
  <2>1. \E j \in DOMAIN s : s[j] = x
    BY <1>1 DEF Elements
  <2>2. i \in DOMAIN s
    BY <2>1
  <2> HIDE DEF i
  <2>3. Len(s) \in Nat /\ DOMAIN s = 1..Len(s) /\ \A j \in 1..Len(s) : s[j] \in S
    BY LenProperties, ElementOfSeq
  <2>4. i \in Int /\ i - 1 \in Int /\ i + 1 \in Int /\ Len(s) \in Int
    BY <2>2, <2>3
  <2>5. (\A j \in 1..i - 1 : s[j] \in S) /\ (\A j \in i + 1..Len(s) : s[j] \in S)
    BY <2>2, <2>3
  <2>6. SubSeq(s, 1, i - 1) \in Seq(S) /\ SubSeq(s, i + 1, Len(s)) \in Seq(S)
    BY <2>4, <2>5, SubSeqProperties
  <2>7. SubSeq(s, 1, i - 1) \o SubSeq(s, i + 1, Len(s)) \in Seq(S)
    BY <2>6, ConcatProperties
  <2> QED BY <1>1, <2>7 DEF Without, i
<1>2. CASE x \notin Elements(s)
  BY <1>2 DEF Without
<1> QED BY <1>1, <1>2

LEMMA TakeFullKeeps ==
    ASSUME SystemResourceAssumption, QueueInvariant, NEW c \in Consumers, TakeFull(c)
    PROVE  QueueInvariant'
<1>1. QueueParts /\ OtherTypes /\ CallsWellFormed
  BY InvariantParts
<1>2. OneConsumer(c)
  BY ConsumerFacts
<1>3. /\ c \in Processes /\ pc[c] = "woken" /\ ~quit[c] /\ semaphore[c] \in Nat
      /\ pc' = [pc EXCEPT ![c] = "running"] /\ fifo' = [fifo EXCEPT ![c] = Tail(fifo[c])]
      /\ emptyQueue' = emptyQueue /\ fullQueue' = fullQueue /\ semaphore' = semaphore /\ quit' = quit
  BY <1>2 DEF TakeFull, OneConsumer
<1>4. semaphore[c] + 1 = Len(fifo[c])
  <2>1. /\ (IF pc[c] = "woken" THEN 1 ELSE 0) = 1
        /\ (IF quit[c] /\ pc[c] # "stopped" THEN 1 ELSE 0) = 0
    BY <1>3, Zenon
  <2>2. semaphore[c] + 1 = Len(fifo[c]) + 0
    BY <1>2, <2>1, Zenon DEF OneConsumer
  <2>3. Len(fifo[c]) + 0 = Len(fifo[c])
    BY <1>2 DEF OneConsumer
  <2> QED BY <2>2, <2>3, Zenon
<1>5. Head(fifo[c]) \in Objects /\ Tail(fifo[c]) \in Seq(Objects) /\ Len(Tail(fifo[c])) = semaphore[c]
  <2> DEFINE s == fifo[c]
             k == semaphore[c]
  <2>1. s \in Seq(Objects) /\ Len(s) = k + 1 /\ k \in Nat
    BY <1>2, <1>3, <1>4 DEF OneConsumer
  <2> HIDE DEF s, k
  <2>2. Head(s) \in Objects /\ Tail(s) \in Seq(Objects) /\ Len(Tail(s)) = k
    BY <2>1
  <2> QED BY <2>2 DEF s, k
<1>6. /\ semaphore' \in [Processes -> Nat] /\ fifo' \in [Processes -> Seq(Objects)]
      /\ fifo'[c] = Tail(fifo[c]) /\ pc'[c] = "running"
      /\ \A x \in Processes \ {c} : semaphore'[x] = semaphore[x] /\ fifo'[x] = fifo[x] /\ pc'[x] = pc[x]
  BY <1>1, <1>3, <1>5 DEF QueueParts, QueueTypes, OtherTypes
<1>7. semaphore'[c] + (IF pc'[c] = "woken" THEN 1 ELSE 0)
              = Len(fifo'[c]) + (IF quit'[c] /\ pc'[c] # "stopped" THEN 1 ELSE 0)
  <2>1. /\ (IF pc'[c] = "woken" THEN 1 ELSE 0) = 0
        /\ (IF quit'[c] /\ pc'[c] # "stopped" THEN 1 ELSE 0) = 0
    BY <1>3, <1>6, Zenon
  <2>2. semaphore'[c] + 0 = Len(fifo'[c]) + 0
    BY <1>3, <1>5, <1>6
  <2> QED BY <2>1, <2>2, Zenon
<1>8. \/ c \in Polling \/ c \notin Elements(fullQueue.procs)
      \/ pc'[c] \in {"waiting", "woken", "stopped"} /\ quit'[c]
  <2>1. pc[c] # "waiting"
    BY <1>3
  <2> QED BY <1>2, <1>3, <2>1, Zenon DEF OneConsumer
<1>9. c \in Polling \/ quit'[c] \/ (semaphore'[c] \leq 1 /\ semaphore'[c] = 0)
  <2>1. pc[c] # "waiting"
    BY <1>3
  <2> QED BY <1>2, <1>3, <2>1, Zenon DEF OneConsumer
<1>10. pc'[c] # "waiting"
  BY <1>6
<1>11. QueueParts'
  BY <1>1, <1>3, <1>6, <1>7, <1>8, <1>9, <1>10, ConsumerStepKeeps
<1>12. OtherTypes'
  <2>1. posted' \in Seq(Objects)
    BY <1>1, WithoutType DEF TakeFull, OtherTypes
  <2>2. holding' \in [Processes -> SUBSET Objects]
    BY <1>1, <1>3, <1>5 DEF TakeFull, OtherTypes
  <2> QED BY <1>1, <1>3, <2>1, <2>2 DEF TakeFull, OtherTypes, countVars, pinVars
<1>13. CallsWellFormed'
  BY <1>1, <1>3, <1>6 DEF TakeFull, CallsWellFormed, pinVars, Processes, SystemResourceAssumption
<1> QED BY <1>11, <1>12, <1>13, InvariantParts

LEMMA LeaveKeeps ==
    ASSUME SystemResourceAssumption, QueueInvariant, NEW c \in Consumers, Leave(c)
    PROVE  QueueInvariant'
<1>1. QueueParts /\ OtherTypes /\ CallsWellFormed
  BY InvariantParts
<1>2. OneConsumer(c)
  BY ConsumerFacts
<1>3. /\ c \in Processes /\ pc[c] = "woken" /\ quit[c] /\ semaphore[c] \in Nat
      /\ pc' = [pc EXCEPT ![c] = "stopped"] /\ fifo' = fifo
      /\ emptyQueue' = emptyQueue /\ fullQueue' = fullQueue /\ semaphore' = semaphore /\ quit' = quit
  BY <1>2 DEF Leave, OneConsumer, queueVars
<1>4. /\ semaphore' \in [Processes -> Nat] /\ fifo' \in [Processes -> Seq(Objects)]
      /\ pc'[c] = "stopped"
      /\ \A x \in Processes \ {c} : semaphore'[x] = semaphore[x] /\ fifo'[x] = fifo[x] /\ pc'[x] = pc[x]
  BY <1>1, <1>3 DEF QueueParts, QueueTypes, OtherTypes
<1>5. semaphore'[c] + (IF pc'[c] = "woken" THEN 1 ELSE 0)
              = Len(fifo'[c]) + (IF quit'[c] /\ pc'[c] # "stopped" THEN 1 ELSE 0)
  <2>1. /\ (IF pc[c] = "woken" THEN 1 ELSE 0) = 1
        /\ (IF quit[c] /\ pc[c] # "stopped" THEN 1 ELSE 0) = 1
    <3>1. pc[c] # "stopped"
      BY <1>3
    <3> QED BY <1>3, <3>1, Zenon
  <2>2. semaphore[c] + 1 = Len(fifo[c]) + 1
    BY <1>2, <2>1, Zenon DEF OneConsumer
  <2>3. semaphore'[c] + 0 = Len(fifo'[c]) + 0
    BY <1>2, <1>3, <2>2 DEF OneConsumer
  <2>4. /\ (IF pc'[c] = "woken" THEN 1 ELSE 0) = 0
        /\ (IF quit'[c] /\ pc'[c] # "stopped" THEN 1 ELSE 0) = 0
    BY <1>4
  <2> QED BY <2>3, <2>4, Zenon
<1>6. pc'[c] # "waiting" /\ pc'[c] \in {"waiting", "woken", "stopped"} /\ quit'[c]
  BY <1>3, <1>4
<1>7. QueueParts'
  BY <1>1, <1>3, <1>4, <1>5, <1>6, ConsumerStepKeeps
<1>8. OtherTypes'
  BY <1>1, <1>3 DEF Leave, OtherTypes, countVars, pinVars
<1>9. CallsWellFormed'
  BY <1>1, <1>3, <1>4 DEF Leave, CallsWellFormed, pinVars, Processes, SystemResourceAssumption
<1> QED BY <1>7, <1>8, <1>9, InvariantParts

LEMMA ShutDownKeeps ==
    ASSUME SystemResourceAssumption, QueueInvariant, NEW c \in Consumers, ShutDown(c)
    PROVE  QueueInvariant'
<1>1. QueueParts /\ OtherTypes /\ CallsWellFormed
  BY InvariantParts
<1>2. OneConsumer(c)
  BY ConsumerFacts
<1>3. /\ c \in Processes /\ ~quit[c] /\ semaphore[c] \in Nat /\ pc' = pc /\ fifo' = fifo
      /\ quit' = [quit EXCEPT ![c] = TRUE] /\ semaphore' = [semaphore EXCEPT ![c] = semaphore[c] + 1]
      /\ emptyQueue' = emptyQueue /\ fullQueue' = fullQueue
  BY <1>2 DEF ShutDown, OneConsumer
<1>4. /\ semaphore' \in [Processes -> Nat] /\ fifo' \in [Processes -> Seq(Objects)]
      /\ semaphore'[c] = semaphore[c] + 1 /\ quit'[c]
      /\ \A x \in Processes \ {c} : semaphore'[x] = semaphore[x] /\ fifo'[x] = fifo[x] /\ pc'[x] = pc[x]
      /\ \A x \in Consumers \ {c} : quit'[x] = quit[x]
  BY <1>1, <1>3 DEF QueueParts, QueueTypes, OtherTypes
<1>5. semaphore'[c] + (IF pc'[c] = "woken" THEN 1 ELSE 0)
              = Len(fifo'[c]) + (IF quit'[c] /\ pc'[c] # "stopped" THEN 1 ELSE 0)
  <2> DEFINE woken == IF pc[c] = "woken" THEN 1 ELSE 0
             len == Len(fifo[c])
  <2>1. pc[c] # "stopped"
    BY <1>2, <1>3, Zenon DEF OneConsumer
  <2>2. /\ (IF quit[c] /\ pc[c] # "stopped" THEN 1 ELSE 0) = 0
        /\ (IF quit'[c] /\ pc'[c] # "stopped" THEN 1 ELSE 0) = 1
        /\ (IF pc'[c] = "woken" THEN 1 ELSE 0) = woken
    BY <1>3, <1>4, <2>1, Zenon
  <2>3. semaphore[c] + woken = len + 0 /\ len \in Nat
    BY <1>2, <2>2, Zenon DEF OneConsumer
  <2>4. woken \in {0, 1}
    BY Zenon
  <2>5. Len(fifo'[c]) = len
    BY <1>3
  <2> HIDE DEF woken, len
  <2>6. semaphore'[c] + woken = len + 1
    BY <1>3, <1>4, <2>3, <2>4
  <2> QED BY <2>2, <2>5, <2>6, Zenon
<1>6. \/ c \in Polling \/ c \notin Elements(fullQueue.procs)
      \/ pc'[c] \in {"waiting", "woken", "stopped"} /\ quit'[c]
  <2>1. pc[c] = "waiting" => pc'[c] \in {"waiting", "woken", "stopped"}
    BY <1>3
  <2> QED BY <1>2, <1>3, <1>4, <2>1, Zenon DEF OneConsumer
<1>7. semaphore'[c] > 0
  BY <1>3, <1>4
<1>8. QueueParts'
  BY <1>1, <1>3, <1>4, <1>5, <1>6, <1>7, ConsumerStepKeeps
<1>9. OtherTypes'
  BY <1>1, <1>3 DEF ShutDown, OtherTypes, countVars, pinVars
<1>10. CallsWellFormed'
  BY <1>1, <1>3, <1>4 DEF ShutDown, CallsWellFormed, pinVars, Processes, SystemResourceAssumption
<1> QED BY <1>8, <1>9, <1>10, InvariantParts

LEMMA PeekKeeps ==
    ASSUME SystemResourceAssumption, QueueInvariant, NEW c \in Consumers, Peek(c)
    PROVE  QueueInvariant'
<1>1. QueueParts /\ OtherTypes /\ CallsWellFormed
  BY InvariantParts
<1>2. c \in Processes /\ \A p \in Producers : p \in Processes /\ p # c
  BY DEF Processes, SystemResourceAssumption
<1>3. PICK w \in {"running", "peeked"} : pc' = [pc EXCEPT ![c] = w]
  BY DEF Peek
<1>4. pc[c] = "peeking" /\ UNCHANGED queueVars /\ quit' = quit
  BY DEF Peek
<1>5. \A x \in Processes : pc'[x] = IF x = c THEN w ELSE pc[x]
  BY <1>1, <1>3 DEF OtherTypes
<1>6. QueueParts'
  <2>1. \A p \in Producers : (pc'[p] = "waiting") = (pc[p] = "waiting")
    BY <1>2, <1>5
  <2>2. \A x \in Consumers :
              \/ pc'[x] = pc[x]
              \/ pc[x] \notin {"waiting", "woken", "stopped"} /\ pc'[x] \notin {"waiting", "woken", "stopped"}
    BY <1>4, <1>5 DEF Processes
  <2> QED BY <1>1, <1>4, <2>1, <2>2, UnchangedKeeps
<1>7. OtherTypes'
  BY <1>1, <1>3 DEF Peek, OtherTypes, countVars, pinVars
<1>8. CallsWellFormed'
  BY <1>1, <1>2, <1>4, <1>5 DEF Peek, CallsWellFormed, pinVars, Processes
<1> QED BY <1>6, <1>7, <1>8, InvariantParts

LEMMA AddReferencesKeeps ==
    ASSUME SystemResourceAssumption, QueueInvariant, NEW p \in Processes, NEW o \in Objects,
           NEW n \in 1..MaxShared + 1, AddReferences(p, o, n)
    PROVE  QueueInvariant'
<1>1. QueueParts /\ OtherTypes /\ CallsWellFormed
  BY InvariantParts
<1>2. UNCHANGED queueVars /\ quit' = quit /\ pc' = pc /\ retiring' = retiring
  BY DEF AddReferences, pinVars
<1>3. QueueParts'
  BY <1>1, <1>2, UnchangedKeeps
<1>4. OtherTypes'
  <2>1. liveCount' \in [Objects -> 0..CountModulus - 1]
    <3>1. CountModulus \in Nat /\ CountModulus > 0 /\ MaxShared \in Nat
      BY DEF SystemResourceAssumption
    <3>2. liveCount[o] \in 0..CountModulus - 1 /\ n \in Nat
      BY <1>1, <3>1 DEF OtherTypes
    <3>3. (liveCount[o] + n) % CountModulus \in 0..CountModulus - 1
      BY <3>1, <3>2
    <3> QED BY <1>1, <3>3 DEF AddReferences, OtherTypes
  <2>2. shared' \in [Objects -> Nat]
    <3> DEFINE own == IF liveCount[o] = 0 /\ o # active THEN 1 ELSE 0
    <3>1. own \in {0, 1} /\ shared[o] \in Nat /\ n \in Nat /\ n \geq 1
      BY <1>1 DEF OtherTypes, SystemResourceAssumption
    <3>2. shared' = [shared EXCEPT ![o] = shared[o] + n - own]
      BY DEF AddReferences
    <3> HIDE DEF own
    <3>3. shared[o] + n - own \in Nat
      BY <3>1
    <3> QED BY <1>1, <3>2, <3>3 DEF OtherTypes
  <2> QED BY <1>1, <1>2, <2>1, <2>2 DEF AddReferences, OtherTypes, pinVars
<1>5. CallsWellFormed'
  BY <1>1, <1>2 DEF CallsWellFormed
<1> QED BY <1>3, <1>4, <1>5, InvariantParts

LEMMA ReleasesKeep ==
    ASSUME SystemResourceAssumption, QueueInvariant, NEW o \in Objects,
           (\E p \in Processes : Release(p, o)) \/ ReleaseShared(o)
    PROVE  QueueInvariant'
<1>1. QueueParts /\ OtherTypes /\ CallsWellFormed
  BY InvariantParts
<1>2. /\ ReleaseObject(o) /\ quit' = quit /\ pc' = pc /\ posted' = posted
      /\ active' = active /\ retiring' = retiring
  BY DEF Release, ReleaseShared, pinVars
<1>3. QueueParts'
  BY <1>1, <1>2, ReleaseKeeps
<1>4. OtherTypes'
  <2>1. liveCount' \in [Objects -> 0..CountModulus - 1] /\ releaseEnable' = releaseEnable
    BY <1>1, <1>2, ReleaseTypes
  <2>2. CASE \E p \in Processes : Release(p, o)
    <3>1. PICK p \in Processes : Release(p, o)
      BY <2>2
    <3>2. holding' = [holding EXCEPT ![p] = holding[p] \ {o}] /\ shared' = shared
      BY <3>1 DEF Release
    <3> QED BY <1>1, <1>2, <2>1, <3>2 DEF OtherTypes
  <2>3. CASE ReleaseShared(o)
    <3>1. /\ holding' = holding /\ shared[o] \in Nat /\ shared[o] > 0
          /\ shared' = [shared EXCEPT ![o] = shared[o] - 1]
      BY <1>1, <2>3 DEF ReleaseShared, OtherTypes
    <3>2. shared' \in [Objects -> Nat]
      BY <1>1, <3>1 DEF OtherTypes
    <3> QED BY <1>1, <1>2, <2>1, <3>1, <3>2 DEF OtherTypes
  <2> QED BY <2>2, <2>3
<1>5. CallsWellFormed'
  BY <1>1, <1>2 DEF CallsWellFormed
<1> QED BY <1>3, <1>4, <1>5, InvariantParts

LEMMA PinningKeeps ==
    ASSUME SystemResourceAssumption, QueueInvariant, NEW p \in Producers,
           (\E o \in Objects : Pin(p, o)) \/ Unpin(p) \/ CheckIdle(p)
    PROVE  QueueInvariant'
<1>1. QueueParts /\ OtherTypes /\ CallsWellFormed
  BY InvariantParts
<1>2. /\ p \in Processes /\ \A c \in Consumers : c \in Processes /\ c # p
      /\ \A x \in Producers : x \in Processes
  BY DEF Processes, SystemResourceAssumption
<1>3. PICK w \in {"running", "enabling", "checking", "retiring"} : pc' = [pc EXCEPT ![p] = w]
  BY DEF Pin, Unpin, CheckIdle
<1>4. UNCHANGED queueVars /\ quit' = quit /\ posted' = posted /\ liveCount' = liveCount /\ shared' = shared
  BY DEF Pin, Unpin, CheckIdle, countVars
<1>5. \A x \in Processes : pc'[x] = IF x = p THEN w ELSE pc[x]
  BY <1>1, <1>3 DEF OtherTypes
<1>6. pc[p] # "waiting" /\ (pc[p] = "running" \/ p \in Pinners)
  BY <1>1 DEF Pin, Unpin, CheckIdle, CallsWellFormed
<1>7. QueueParts'
  <2>1. \A x \in Producers : (pc'[x] = "waiting") = (pc[x] = "waiting")
    BY <1>2, <1>5, <1>6
  <2>2. \A x \in Consumers : pc'[x] = pc[x]
    BY <1>2, <1>5
  <2> QED BY <1>1, <1>4, <2>1, <2>2, UnchangedKeeps
<1>8. OtherTypes'
  <2>1. holding' \in [Processes -> SUBSET Objects] /\ releaseEnable' \in [Objects -> BOOLEAN]
    <3>1. CASE \E o \in Objects : Pin(p, o)
      <4>1. PICK o \in Objects : Pin(p, o)
        BY <3>1
      <4>2. /\ holding' = [holding EXCEPT ![p] = holding[p] \ {o}]
            /\ releaseEnable' = [releaseEnable EXCEPT ![o] = FALSE]
        BY <4>1 DEF Pin
      <4> QED BY <1>1, <4>2 DEF OtherTypes
    <3>2. CASE Unpin(p) \/ CheckIdle(p)
      <4>1. holding' = holding /\ (releaseEnable' = releaseEnable \/ releaseEnable' = [releaseEnable EXCEPT ![retiring] = TRUE])
        BY <3>2 DEF Unpin, CheckIdle, countVars
      <4> QED BY <1>1, <4>1 DEF OtherTypes
    <3> QED BY <3>1, <3>2
  <2>2. active' \in Objects \cup {None} /\ retiring' \in Objects \cup {None}
    BY <1>1 DEF Pin, Unpin, CheckIdle, OtherTypes, pinVars
  <2>3. pc' \in [Processes -> {"running", "waiting", "woken", "peeking", "peeked", "stopped",
                               "enabling", "checking", "retiring"}]
    BY <1>1, <1>3 DEF OtherTypes
  <2> QED BY <1>1, <1>4, <2>1, <2>2, <2>3 DEF OtherTypes
<1>9. CallsWellFormed'
  <2>1. \A x \in Producers \ {p} : x \notin Pinners \/ p \notin Pinners
    BY DEF SystemResourceAssumption
  <2>2. p \in Pinners
    BY <1>1 DEF Pin, Unpin, CheckIdle, CallsWellFormed
  <2>3. pc'[p] = w
    BY <1>2, <1>5
  <2>4. pc'[p] # "running" => retiring' \in Objects
    <3>1. CASE \E o \in Objects : Pin(p, o)
      BY <1>1, <1>2, <3>1 DEF Pin, OtherTypes
    <3>2. CASE Unpin(p)
      BY <1>1, <3>2 DEF Unpin, CallsWellFormed, pinVars
    <3>3. CASE CheckIdle(p)
      BY <1>1, <1>2, <3>3 DEF CheckIdle, CallsWellFormed, OtherTypes
    <3> QED BY <3>1, <3>2, <3>3
  <2> QED BY <1>1, <1>2, <1>4, <1>5, <2>1, <2>2, <2>3, <2>4 DEF CallsWellFormed
<1> QED BY <1>7, <1>8, <1>9, InvariantParts

LEMMA RetireKeeps ==
    ASSUME SystemResourceAssumption, QueueInvariant, NEW p \in Producers, Retire(p)
    PROVE  QueueInvariant'
<1>1. QueueParts /\ OtherTypes /\ CallsWellFormed
  BY InvariantParts
<1>2. /\ p \in Processes /\ \A c \in Consumers : c \in Processes /\ c # p
      /\ \A x \in Producers : x \in Processes
  BY DEF Processes, SystemResourceAssumption
<1>3. /\ pc[p] = "retiring" /\ ReleaseObject(retiring) /\ retiring' = None
      /\ pc' = [pc EXCEPT ![p] = "running"] /\ quit' = quit /\ posted' = posted
      /\ holding' = holding /\ shared' = shared /\ active' = active
  BY DEF Retire
<1>4. retiring \in Objects /\ p \in Pinners
  BY <1>1, <1>3 DEF CallsWellFormed
<1>5. \A x \in Processes : pc'[x] = IF x = p THEN "running" ELSE pc[x]
  BY <1>1, <1>3 DEF OtherTypes
<1>6. QueueParts'
  <2>1. \A x \in Producers : (pc'[x] = "waiting") = (pc[x] = "waiting")
    BY <1>2, <1>3, <1>5
  <2>2. \A x \in Consumers : pc'[x] = pc[x]
    BY <1>2, <1>5
  <2> QED BY <1>1, <1>3, <1>4, <2>1, <2>2, ReleaseKeeps
<1>7. OtherTypes'
  <2>1. liveCount' \in [Objects -> 0..CountModulus - 1] /\ releaseEnable' = releaseEnable
    BY <1>1, <1>3, <1>4, ReleaseTypes
  <2> QED BY <1>1, <1>3, <2>1 DEF OtherTypes
<1>8. CallsWellFormed'
  <2>1. \A x \in Producers \ {p} : x \notin Pinners
    BY <1>4 DEF SystemResourceAssumption
  <2> QED BY <1>1, <1>2, <1>3, <1>5, <2>1 DEF CallsWellFormed
<1> QED BY <1>6, <1>7, <1>8, InvariantParts

-----------------------------------------------------------------------------
\* After svt_system_resource_ctor every object is in the empty queue, once.
LEMMA InitialStates == SystemResourceAssumption /\ Init => QueueInvariant
<1> SUFFICES ASSUME SystemResourceAssumption, Init PROVE QueueInvariant
  OBVIOUS
<1>1. PICK s \in [1..ObjectCount -> Objects] : emptyQueue = [EmptyMuxingQueue EXCEPT !.objects = s]
  BY DEF Init
<1>2. ObjectCount \in Nat
  BY FS_CardinalityType DEF SystemResourceAssumption, ObjectCount
<1>3. s \in Seq(Objects)
  BY <1>1, <1>2, SeqDef
<1>4. emptyQueue = [objects |-> s, procs |-> <<>>] /\ fullQueue = [objects |-> <<>>, procs |-> <<>>]
  BY <1>1 DEF Init, EmptyMuxingQueue
<1>5. Elements(<<>>) = {} /\ DOMAIN <<>> = {} /\ Len(<<>>) = 0
  BY DEF Elements
<1>6. CountModulus \in Nat /\ CountModulus > 3
  BY DEF SystemResourceAssumption
<1>7. QueueTypes /\ NoIdleMatch
  BY <1>3, <1>4 DEF Init, QueueTypes, Queues, NoIdleMatch
<1>8. ProcessBufferSuffices
  BY <1>4, <1>5 DEF ProcessBufferSuffices
<1>9. SemaphoreCountsObjects
  BY <1>5 DEF Init, SemaphoreCountsObjects, Processes
<1>10. NoLostWakeup /\ OneAnswer /\ CallsWellFormed
  BY DEF Init, NoLostWakeup, OneAnswer, CallsWellFormed, Processes
<1>11. OtherTypes
  BY <1>6 DEF Init, OtherTypes
<1> QED BY <1>7, <1>8, <1>9, <1>10, <1>11, InvariantParts DEF QueueParts

\* Every step of the resource keeps the invariant.
LEMMA StepsKeep == SystemResourceAssumption /\ QueueInvariant /\ [Next]_vars => QueueInvariant'
<1> SUFFICES ASSUME SystemResourceAssumption, QueueInvariant, [Next]_vars PROVE QueueInvariant'
  OBVIOUS
<1>1. CASE \E p \in Producers : ProducerStep(p)
  <2>1. PICK p \in Producers : ProducerStep(p)
    BY <1>1
  <2>2. CASE RequestEmpty(p)
    BY <2>2, RequestEmptyKeeps
  <2>3. CASE TakeEmpty(p)
    BY <2>3, TakeEmptyKeeps
  <2>4. CASE \E o \in Objects : Post(p, o)
    BY <2>4, PostKeeps
  <2>5. CASE (\E o \in Objects : Pin(p, o)) \/ Unpin(p) \/ CheckIdle(p)
    BY <2>5, PinningKeeps
  <2>6. CASE Retire(p)
    BY <2>6, RetireKeeps
  <2> QED BY <2>1, <2>2, <2>3, <2>4, <2>5, <2>6 DEF ProducerStep
<1>2. CASE \E c \in Consumers : ConsumerStep(c) \/ ShutDown(c)
  <2>1. PICK c \in Consumers : ConsumerStep(c) \/ ShutDown(c)
    BY <1>2
  <2>2. CASE RequestFull(c) \/ Poll(c)
    <3>1. CallsWellFormed
      BY InvariantParts
    <3>2. pc[c] = "running" \/ (pc[c] = "peeked" /\ c \in Polling)
      BY <2>2, <3>1 DEF RequestFull, Poll, CallsWellFormed
    <3>3. CASE RequestFull(c)
      BY <3>2, <3>3, QueueingKeeps DEF RequestFull
    <3>4. CASE Poll(c)
      BY <3>2, <3>4, QueueingKeeps DEF Poll
    <3> QED BY <2>2, <3>3, <3>4
  <2>3. CASE WakeFull(c)
    BY <2>3, WakeFullKeeps
  <2>4. CASE TakeFull(c)
    BY <2>4, TakeFullKeeps
  <2>5. CASE Leave(c)
    BY <2>5, LeaveKeeps
  <2>6. CASE Peek(c)
    BY <2>6, PeekKeeps
  <2>7. CASE ShutDown(c)
    BY <2>7, ShutDownKeeps
  <2> QED BY <2>1, <2>2, <2>3, <2>4, <2>5, <2>6, <2>7 DEF ConsumerStep
<1>3. CASE \E p \in Processes, o \in Objects :
              Release(p, o) \/ \E n \in 1..MaxShared + 1 : AddReferences(p, o, n)
  BY <1>3, ReleasesKeep, AddReferencesKeeps
<1>4. CASE \E o \in Objects : ReleaseShared(o)
  BY <1>4, ReleasesKeep
<1>5. CASE UNCHANGED vars
  <2>1. UNCHANGED queueVars /\ UNCHANGED <<quit, countVars, pc, holding, shared, pinVars, posted>>
    BY <1>5 DEF vars
  <2>2. QueueParts /\ OtherTypes /\ CallsWellFormed
    BY InvariantParts
  <2>3. QueueParts'
    BY <2>1, <2>2, UnchangedKeeps
  <2>4. OtherTypes' /\ CallsWellFormed'
    BY <2>1, <2>2 DEF OtherTypes, CallsWellFormed, countVars, pinVars
  <2> QED BY <2>3, <2>4, InvariantParts
<1> QED BY <1>1, <1>2, <1>3, <1>4, <1>5 DEF Next

\* The inductive invariant holds in every reachable state of every resource.
THEOREM QueueInvariantHolds == Spec => []QueueInvariant
<1>1. Init => QueueInvariant
  BY SystemResourceAssumption, InitialStates
<1>2. QueueInvariant /\ [Next]_vars => QueueInvariant'
  BY SystemResourceAssumption, StepsKeep
<1> QED BY <1>1, <1>2, PTL DEF Spec

\* Type correctness, for any number of objects, producers and consumers.
THEOREM TypesHold == Spec => []TypeOK
<1>1. QueueInvariant => TypeOK
  BY DEF QueueInvariant
<1> QED BY <1>1, QueueInvariantHolds, PTL

\* The assignment loop never leaves an object beside a waiting process.
THEOREM NothingIdles == Spec => []NoIdleMatch
<1>1. QueueInvariant => NoIdleMatch
  BY DEF QueueInvariant
<1> QED BY <1>1, QueueInvariantHolds, PTL

\* A process past its semaphore finds an object in its FIFO, or the quit signal.
THEOREM SemaphoresCount == Spec => []SemaphoreCountsObjects
<1>1. QueueInvariant => SemaphoreCountsObjects
  BY DEF QueueInvariant
<1> QED BY <1>1, QueueInvariantHolds, PTL

\* A blocked process is queued to be served or its semaphore has been posted.
THEOREM NoWakeupIsLost == Spec => []NoLostWakeup
<1>1. QueueInvariant => NoLostWakeup
  BY DEF QueueInvariant
<1> QED BY <1>1, QueueInvariantHolds, PTL

-----------------------------------------------------------------------------
(* Families of lines: a buffer of objects and the FIFOs it feeds.            *)

\* The objects in a buffer or in one of the FIFOs it feeds.
Within(s, f, P) == Elements(s) \cup UNION {Elements(f[x]) : x \in P}

\* The family of buffer s and FIFOs f holds the objects W, none of them twice.
Holds(s, f, P, W) == Strung(s, f, P) /\ Within(s, f, P) = W

\* The slots of the FIFOs of P.
SlotsOf(f, P) == UNION {{x} \X DOMAIN f[x] : x \in P}

\* A sequence without duplicates is as long as it has elements.
LEMMA DistinctCount ==
    ASSUME NEW S, NEW s \in Seq(S), NoDuplicate(s)
    PROVE  IsFiniteSet(Elements(s)) /\ Cardinality(Elements(s)) = Len(s)
<1>1. Len(s) \in Nat /\ DOMAIN s = 1..Len(s) /\ s \in [1..Len(s) -> S]
  BY LenProperties
<1>2. s \in [1..Len(s) -> Elements(s)] /\ \A x \in Elements(s) : \E i \in 1..Len(s) : s[i] = x
  BY <1>1 DEF Elements
<1>3. \A i, j \in 1..Len(s) : s[i] = s[j] => i = j
  BY <1>1 DEF NoDuplicate
<1>4. s \in Bijection(1..Len(s), Elements(s))
  BY <1>2, <1>3, Fun_IsBij
<1>5. ExistsBijection(1..Len(s), Elements(s))
  BY <1>4 DEF ExistsBijection
<1>6. IsFiniteSet(1..Len(s)) /\ Cardinality(1..Len(s)) = Len(s)
  BY <1>1, FS_Interval
<1> QED BY <1>5, <1>6, FS_Bijection

\* In a strung family there are as many slots as objects.
LEMMA StrungCount ==
    ASSUME NEW O, IsFiniteSet(O), NEW P, NEW D, P \subseteq D,
           NEW s \in Seq(O), NEW f \in [D -> Seq(O)], Strung(s, f, P)
    PROVE  /\ IsFiniteSet(SlotsOf(f, P))
           /\ Cardinality(SlotsOf(f, P)) \in Nat
           /\ Len(s) + Cardinality(SlotsOf(f, P)) = Cardinality(Within(s, f, P))
<1> DEFINE A == Elements(s)
           B == UNION {Elements(f[x]) : x \in P}
           Z == SlotsOf(f, P)
           F == [z \in Z |-> f[z[1]][z[2]]]
<1>1. \A x \in P : Elements(f[x]) \subseteq O /\ Elements(f[x]) = {f[x][i] : i \in DOMAIN f[x]}
  <2> TAKE x \in P
  <2>1. f[x] \in Seq(O)
    OBVIOUS
  <2>2. DOMAIN f[x] = 1..Len(f[x]) /\ \A i \in 1..Len(f[x]) : f[x][i] \in O
    BY <2>1, LenProperties, ElementOfSeq
  <2> QED BY <2>2 DEF Elements
<1>2. A \subseteq O
  BY LenProperties, ElementOfSeq DEF Elements
<1>3. IsFiniteSet(A) /\ IsFiniteSet(B) /\ A \cap B = {}
  <2>1. B \subseteq O
    BY <1>1
  <2>2. A \cap B = {}
    BY DEF Strung
  <2> QED BY <1>2, <2>1, <2>2, FS_Subset
<1>4. F \in Bijection(Z, B)
  <2>1. \A z : z \in Z <=> \E x \in P : \E i \in DOMAIN f[x] : z = <<x, i>>
    BY DEF SlotsOf
  <2>2. F \in [Z -> B]
    <3>1. ASSUME NEW z \in Z PROVE f[z[1]][z[2]] \in B
      <4>1. PICK x \in P : \E i \in DOMAIN f[x] : z = <<x, i>>
        BY <2>1
      <4>2. PICK i \in DOMAIN f[x] : z = <<x, i>>
        BY <4>1
      <4>3. z[1] = x /\ z[2] = i /\ f[x][i] \in Elements(f[x])
        BY <4>2, <1>1
      <4> QED BY <4>3
    <3> QED BY <3>1
  <2>3. ASSUME NEW y \in B PROVE \E z \in Z : F[z] = y
    <3>1. PICK x \in P : y \in Elements(f[x])
      OBVIOUS
    <3>2. PICK i \in DOMAIN f[x] : y = f[x][i]
      BY <3>1, <1>1
    <3>3. <<x, i>> \in Z
      BY <2>1, <3>2
    <3> QED BY <3>2, <3>3
  <2>4. ASSUME NEW y \in Z, NEW z \in Z, F[y] = F[z] PROVE y = z
    <3>7. PICK x \in P : \E i \in DOMAIN f[x] : y = <<x, i>>
      BY <2>1
    <3>1. PICK i \in DOMAIN f[x] : y = <<x, i>>
      BY <3>7
    <3>8. PICK w \in P : \E j \in DOMAIN f[w] : z = <<w, j>>
      BY <2>1
    <3>2. PICK j \in DOMAIN f[w] : z = <<w, j>>
      BY <3>8
    <3>3. f[x][i] = f[w][j] /\ f[x][i] \in Elements(f[x]) /\ f[w][j] \in Elements(f[w])
      BY <2>4, <3>1, <3>2, <1>1
    <3>4. x = w
      BY <3>3 DEF Strung
    <3>5. NoDuplicate(f[x])
      BY DEF Strung
    <3>6. i = j
      BY <3>3, <3>4, <3>5 DEF NoDuplicate
    <3> QED BY <3>1, <3>2, <3>4, <3>6
  <2> HIDE DEF F, B, Z
  <2> QED BY <2>2, <2>3, <2>4, Fun_IsBij
<1>5. IsFiniteSet(Z) /\ Cardinality(Z) = Cardinality(B)
  <2> HIDE DEF F, B, Z
  <2>1. Inverse(F, Z, B) \in Bijection(B, Z)
    BY <1>4, Fun_BijInverse
  <2>2. ExistsBijection(B, Z)
    BY <2>1 DEF ExistsBijection
  <2> QED BY <1>3, <2>2, FS_Bijection
<1>6. Cardinality(A) = Len(s) /\ Len(s) \in Nat
  BY DistinctCount, LenProperties DEF Strung
<1>7. Cardinality(A \cup B) = Cardinality(A) + Cardinality(B) - 0 /\ Cardinality(B) \in Nat
  <2>1. Cardinality(A \cap B) = 0
    BY <1>3, FS_EmptySet
  <2> HIDE DEF A, B
  <2> QED BY <1>3, <2>1, FS_Union, FS_CardinalityType
<1>8. Within(s, f, P) = A \cup B
  BY DEF Within
<1> HIDE DEF A, B, Z, F
<1> QED BY <1>5, <1>6, <1>7, <1>8 DEF Z

\* Only the FIFOs of P count.
LEMMA StrungAlone ==
    ASSUME NEW P, NEW s, NEW f, NEW g, \A x \in P : g[x] = f[x]
    PROVE  (Strung(s, f, P) <=> Strung(s, g, P)) /\ Within(s, f, P) = Within(s, g, P)
<1>1. Strung(s, f, P) <=> Strung(s, g, P)
  BY DEF Strung
<1>2. Within(s, f, P) = Within(s, g, P)
  BY DEF Within
<1> QED BY <1>1, <1>2

\* Putting a new object into the buffer, in front or at the back.
LEMMA StrungFront ==
    ASSUME NEW O, NEW P, NEW s \in Seq(O), NEW f, NEW o \in O, Strung(s, f, P),
           o \notin Within(s, f, P)
    PROVE  Holds(<<o>> \o s, f, P, Within(s, f, P) \cup {o})
<1> DEFINE t == <<o>> \o s
<1>1. IsFronted(t, o, s, O)
  BY ConsProperties
<1>2. Elements(t) = Elements(s) \cup {o} /\ NoDuplicate(t)
  BY <1>1 DEF IsFronted, Strung, Within
<1>3. \A x \in P : o \notin Elements(f[x])
  BY DEF Within
<1> HIDE DEF t
<1>4. Strung(t, f, P) /\ Within(t, f, P) = Within(s, f, P) \cup {o}
  BY <1>2, <1>3 DEF Strung, Within
<1> QED BY <1>4 DEF Holds, t

\* Append adds one element and nothing else.
LEMMA AppendElements ==
    ASSUME NEW O, NEW s \in Seq(O), NEW o \in O
    PROVE  /\ Elements(Append(s, o)) = Elements(s) \cup {o}
           /\ NoDuplicate(s) /\ o \notin Elements(s) => NoDuplicate(Append(s, o))
<1> DEFINE t == Append(s, o)
<1>1. Len(s) \in Nat /\ DOMAIN s = 1..Len(s)
  BY LenProperties
<1>2. /\ t \in Seq(O) /\ Len(t) = Len(s) + 1 /\ t[Len(s) + 1] = o
      /\ \A i \in 1..Len(s) : t[i] = s[i]
  OBVIOUS
<1> HIDE DEF t
<1>3. DOMAIN t = 1..Len(s) + 1
  BY <1>2, LenProperties
<1>4. \A y : y \in Elements(s) <=> \E i \in 1..Len(s) : y = s[i]
  BY <1>1 DEF Elements
<1>5. \A y : y \in Elements(t) <=> \E i \in 1..Len(s) + 1 : y = t[i]
  BY <1>3 DEF Elements
<1>6. \A i \in 1..Len(s) + 1 : i = Len(s) + 1 \/ i \in 1..Len(s)
  BY <1>1
<1>7. Len(s) + 1 \in 1..Len(s) + 1 /\ \A i \in 1..Len(s) : i \in 1..Len(s) + 1
  BY <1>1
<1>8. ASSUME NEW y PROVE y \in Elements(t) <=> (y \in Elements(s) \/ y = o)
  BY <1>2, <1>4, <1>5, <1>6, <1>7
<1>9. Elements(t) = Elements(s) \cup {o}
  BY <1>8
<1>10. ASSUME NoDuplicate(s), o \notin Elements(s) PROVE NoDuplicate(t)
  <2>1. \A i \in 1..Len(s) : s[i] # o
    BY <1>4, <1>10
  <2>2. \A i, j \in 1..Len(s) : s[i] = s[j] => i = j
    BY <1>1, <1>10 DEF NoDuplicate
  <2> QED BY <1>2, <1>3, <1>6, <2>1, <2>2 DEF NoDuplicate
<1> QED BY <1>9, <1>10 DEF t

\* Putting a new object into the buffer at the back.
LEMMA StrungBack ==
    ASSUME NEW O, NEW P, NEW s \in Seq(O), NEW f, NEW o \in O, Strung(s, f, P),
           o \notin Within(s, f, P)
    PROVE  Holds(Append(s, o), f, P, Within(s, f, P) \cup {o})
<1> DEFINE t == Append(s, o)
<1>1. Elements(t) = Elements(s) \cup {o}
  BY AppendElements
<1>2. NoDuplicate(t)
  BY AppendElements DEF Strung, Within
<1>3. \A x \in P : o \notin Elements(f[x])
  BY DEF Within
<1> HIDE DEF t
<1>4. Strung(t, f, P) /\ Within(t, f, P) = Within(s, f, P) \cup {o}
  BY <1>1, <1>2, <1>3 DEF Strung, Within
<1> QED BY <1>4 DEF Holds, t

\* A sequence without duplicates, without its first element.
LEMMA RestOfDistinct ==
    ASSUME NEW S, NEW s \in Seq(S), s # <<>>, NoDuplicate(s)
    PROVE  /\ s[1] \in S /\ s[1] \in Elements(s)
           /\ Elements(SubSeq(s, 2, Len(s))) = Elements(s) \ {s[1]}
           /\ NoDuplicate(SubSeq(s, 2, Len(s)))
<1> DEFINE t == SubSeq(s, 2, Len(s))
<1>1. 1 \in DOMAIN s /\ 1 \in 1..Len(s)
  BY EmptySeq, LenProperties
<1>2. s[1] \in S /\ s[1] \in Elements(s)
  BY <1>1, ElementOfSeq DEF Elements
<1>3. /\ t \in Seq(S)
      /\ \A y : y \in Elements(s) => y = s[1] \/ y \in Elements(t)
      /\ Elements(t) \subseteq Elements(s)
      /\ NoDuplicate(s) => NoDuplicate(t) /\ s[1] \notin Elements(t)
  BY TailKeepsDistinct, ZenonT(40)
<1> HIDE DEF t
<1>4. Elements(t) = Elements(s) \ {s[1]}
  BY <1>3
<1> QED BY <1>2, <1>3, <1>4 DEF t

\* Taking the first object of one FIFO.
LEMMA StrungTake ==
    ASSUME NEW O, NEW P, NEW D, P \subseteq D, NEW s \in Seq(O), NEW f \in [D -> Seq(O)],
           Strung(s, f, P), NEW x \in P, f[x] # <<>>
    PROVE  /\ Holds(s, [f EXCEPT ![x] = Tail(f[x])], P, Within(s, f, P) \ {Head(f[x])})
           /\ Head(f[x]) \in Within(s, f, P)
           /\ Head(f[x]) \in O
<1> DEFINE g == [f EXCEPT ![x] = Tail(f[x])]
           q == f[x]
           o == Head(q)
           t == Tail(q)
<1>0. q \in Seq(O) /\ q # <<>> /\ NoDuplicate(q)
  BY DEF Strung
<1>1. /\ o \in O /\ o \in Elements(q)
      /\ Elements(t) = Elements(q) \ {o}
      /\ NoDuplicate(t)
  <2> HIDE DEF q
  <2>1. o = q[1] /\ t = SubSeq(q, 2, Len(q))
    BY <1>0, TailIsSubSeq
  <2> HIDE DEF o, t
  <2> QED BY <1>0, <2>1, RestOfDistinct
<1>2. g[x] = t /\ \A y \in P : y # x => g[y] = f[y]
  OBVIOUS
<1> HIDE DEF g, o, t
<1>3. \A y \in P : Elements(g[y]) = Elements(f[y]) \ {o}
  BY <1>1, <1>2 DEF Strung, q
<1>4. o \notin Elements(s)
  BY <1>1 DEF Strung, q
<1>5. Within(s, g, P) = Within(s, f, P) \ {o}
  <2>1. ASSUME NEW y PROVE y \in Within(s, g, P) <=> y \in Within(s, f, P) /\ y # o
    <3>1. y \in Within(s, g, P) <=> y \in Elements(s) \/ \E z \in P : y \in Elements(g[z])
      BY DEF Within
    <3>2. y \in Within(s, f, P) <=> y \in Elements(s) \/ \E z \in P : y \in Elements(f[z])
      BY DEF Within
    <3> QED BY <3>1, <3>2, <1>3, <1>4
  <2> QED BY <2>1
<1>6. Strung(s, g, P)
  BY <1>1, <1>2, <1>3 DEF Strung
<1>7. o \in Within(s, f, P)
  BY <1>1 DEF Within, q
<1>8. Holds(s, g, P, Within(s, f, P) \ {o})
  BY <1>5, <1>6 DEF Holds
<1> QED BY <1>1, <1>7, <1>8 DEF o, q, g

\* What the assignment loop does after one push: nothing, or one pass that moves
\* the first object to the FIFO of the first process.
Moves(r, f, g, u) ==
    /\ r.objects # <<>> /\ r.procs # <<>>
    /\ g = [f EXCEPT ![r.procs[1]] = Append(f[r.procs[1]], r.objects[1])]
    /\ u.objects = SubSeq(r.objects, 2, Len(r.objects))
    /\ u.procs = SubSeq(r.procs, 2, Len(r.procs))

\* One push is assigned at once, or nothing was waiting for it.
LEMMA AssignShape ==
    ASSUME NEW O, NEW P, NEW D, P \subseteq D, NEW r, OnePushed(r, O, P), NEW f \in [D -> Seq(O)]
    PROVE  \/ Unmatched(r) = r /\ FifosAfter(r, f) = f /\ Settled(r)
           \/ /\ r.procs[1] \in P /\ r.objects[1] \in O
              /\ Moves(r, f, FifosAfter(r, f), Unmatched(r))
<1>1. r.objects \in Seq(O) /\ r.procs \in Seq(P) /\ r = [objects |-> r.objects, procs |-> r.procs]
  BY DEF OnePushed, Queues
<1>2. /\ Len(r.objects) \in Nat /\ Len(r.procs) \in Nat
      /\ DOMAIN r.objects = 1..Len(r.objects) /\ DOMAIN r.procs = 1..Len(r.procs)
      /\ Len(r.objects) = 0 <=> r.objects = <<>>
      /\ Len(r.procs) = 0 <=> r.procs = <<>>
  BY <1>1, LenProperties, EmptySeq
<1>3. CASE Settled(r)
  <2>1. Matches(r) = 0
    BY <1>2, <1>3 DEF Matches, Settled
  <2>2. Served(r) = {}
    BY <2>1 DEF Served
  <2>3. Unmatched(r) = r
    BY <1>1, <2>1, SubSeqFull DEF Unmatched
  <2>4. FifosAfter(r, f) = f
    BY <2>2 DEF FifosAfter
  <2> QED BY <1>3, <2>3, <2>4
<1>4. CASE ~Settled(r)
  <2> DEFINE a == Len(r.objects)
             b == Len(r.procs)
             p == r.procs[1]
             o == r.objects[1]
  <2>1. r.procs # <<>> /\ r.objects # <<>>
    BY <1>4 DEF Settled
  <2>2. Matches(r) = 1
    <3>1. a \in Nat /\ b \in Nat /\ a # 0 /\ b # 0 /\ (a \leq 1 \/ b \leq 1)
      BY <1>2, <2>1 DEF OnePushed
    <3>2. Matches(r) = IF a < b THEN a ELSE b
      BY DEF Matches
    <3> HIDE DEF a, b
    <3> QED BY <3>1, <3>2
  <2>3. p \in P /\ o \in O
    BY <1>1, <1>2, <2>1, ElementOfSeq
  <2>4. Served(r) = {p} /\ HandedTo(r, p) = o
    <3>1. 1..1 = {1}
      OBVIOUS
    <3> QED BY <2>2, <3>1 DEF Served, HandedTo
  <2>5. /\ Unmatched(r).objects = SubSeq(r.objects, 2, Len(r.objects))
        /\ Unmatched(r).procs = SubSeq(r.procs, 2, Len(r.procs))
    BY <2>2 DEF Unmatched
  <2>6. FifosAfter(r, f) = [f EXCEPT ![p] = Append(f[p], o)]
    BY <2>3, <2>4 DEF FifosAfter
  <2> QED BY <2>1, <2>3, <2>5, <2>6 DEF Moves
<1> QED BY <1>3, <1>4

\* The assignment loop keeps a family strung, loses no object of it and adds none.
LEMMA StrungAssign ==
    ASSUME NEW O, NEW P, NEW D, P \subseteq D, NEW r, OnePushed(r, O, P),
           NEW f \in [D -> Seq(O)], Strung(r.objects, f, P)
    PROVE  Holds(Unmatched(r).objects, FifosAfter(r, f), P, Within(r.objects, f, P))
<1> DEFINE u == Unmatched(r)
           g == FifosAfter(r, f)
           p == r.procs[1]
           o == r.objects[1]
           s == r.objects
           t == u.objects
<1>1. \/ u = r /\ g = f
      \/ p \in P /\ o \in O /\ Moves(r, f, g, u)
  BY AssignShape
<1>2. CASE u = r /\ g = f
  BY <1>2 DEF Holds
<1>3. CASE p \in P /\ o \in O /\ Moves(r, f, g, u)
  <2>1. s \in Seq(O) /\ s # <<>> /\ t = SubSeq(s, 2, Len(s)) /\ NoDuplicate(s)
    BY <1>3 DEF Moves, OnePushed, Queues, Strung
  <2>2. g = [f EXCEPT ![p] = Append(f[p], o)] /\ f[p] \in Seq(O)
    BY <1>3 DEF Moves
  <2>3. /\ o \in Elements(s) /\ Elements(t) = Elements(s) \ {o} /\ NoDuplicate(t)
    BY <2>1, RestOfDistinct
  <2>4. o \notin Elements(f[p])
    BY <1>3, <2>3 DEF Strung
  <2>5. Elements(g[p]) = Elements(f[p]) \cup {o} /\ NoDuplicate(g[p])
    <3>1. g[p] = Append(f[p], o)
      BY <1>3, <2>2
    <3>2. NoDuplicate(f[p])
      BY <1>3 DEF Strung
    <3> HIDE DEF g, p, o
    <3>3. /\ Elements(Append(f[p], o)) = Elements(f[p]) \cup {o}
          /\ NoDuplicate(f[p]) /\ o \notin Elements(f[p]) => NoDuplicate(Append(f[p], o))
      BY <1>3, <2>2, AppendElements
    <3> QED BY <2>4, <3>1, <3>2, <3>3
  <2>6. \A x \in D : x # p => g[x] = f[x]
    BY <2>2
  <2> HIDE DEF g, t, p, o, s, u
  <2>7. \A x \in P : x # p => g[x] = f[x]
    BY <2>6
  <2>8. Strung(t, g, P)
    <3>1. \A x \in P : NoDuplicate(g[x])
      BY <2>5, <2>7 DEF Strung, s
    <3>2. \A x \in P : Elements(g[x]) \cap Elements(t) = {}
      BY <2>3, <2>5, <2>7 DEF Strung, s
    <3>3. ASSUME NEW x \in P, NEW y \in P, x # y
          PROVE  Elements(g[x]) \cap Elements(g[y]) = {}
      <4>1. /\ Elements(f[x]) \cap Elements(f[y]) = {}
            /\ o \notin Elements(f[x]) /\ o \notin Elements(f[y])
        BY <3>3, <2>3 DEF Strung, s
      <4>2. Elements(g[x]) \subseteq Elements(f[x]) \cup (IF x = p THEN {o} ELSE {})
        BY <2>5, <2>7
      <4>3. Elements(g[y]) \subseteq Elements(f[y]) \cup (IF y = p THEN {o} ELSE {})
        BY <2>5, <2>7
      <4> QED BY <3>3, <4>1, <4>2, <4>3
    <3> QED BY <2>3, <3>1, <3>2, <3>3 DEF Strung
  <2>9. ASSUME NEW y PROVE y \in Within(t, g, P) <=> y \in Within(s, f, P)
    <3>1. y \in Within(t, g, P) <=> y \in Elements(t) \/ \E z \in P : y \in Elements(g[z])
      BY DEF Within
    <3>2. y \in Within(s, f, P) <=> y \in Elements(s) \/ \E z \in P : y \in Elements(f[z])
      BY DEF Within
    <3> QED BY <1>3, <2>3, <2>5, <2>7, <3>1, <3>2
  <2>10. Within(t, g, P) = Within(s, f, P)
    BY <2>9
  <2> QED BY <2>8, <2>10 DEF Holds, t, g, s, u
<1> QED BY <1>1, <1>2, <1>3
\* A process outside P gets nothing.
OthersKeep(f, g, D, P) == \A x \in D \ P : g[x] = f[x]

\* The assignment loop leaves the FIFOs of other processes alone.
LEMMA AssignElsewhere ==
    ASSUME NEW O, NEW P, NEW D, P \subseteq D, NEW r, OnePushed(r, O, P),
           NEW f \in [D -> Seq(O)]
    PROVE  OthersKeep(f, FifosAfter(r, f), D, P)
<1>1. \/ FifosAfter(r, f) = f
      \/ r.procs[1] \in P /\ Moves(r, f, FifosAfter(r, f), Unmatched(r))
  BY AssignShape
<1> QED BY <1>1 DEF Moves, OthersKeep

-----------------------------------------------------------------------------
(* Where the steps of the resource move objects.                             *)

\* The two families of lines an object can be in.
PlacesStrung ==
    /\ Strung(emptyQueue.objects, fifo, Producers)
    /\ Strung(fullQueue.objects, fifo, Consumers)

PoolSet == Within(emptyQueue.objects, fifo, Producers)
FlightSet == Within(fullQueue.objects, fifo, Consumers)

\* PoolSet and FlightSet are the objects in the pool and in flight.
LEMMA PlaceSets ==
    /\ \A o : InPool(o) <=> o \in PoolSet
    /\ \A o : InFlight(o) <=> o \in FlightSet
    /\ \A o : InPool(o)' <=> o \in PoolSet'
    /\ \A o : InFlight(o)' <=> o \in FlightSet'
<1>1. ASSUME NEW o PROVE InPool(o) <=> o \in PoolSet
  BY DEF InPool, PoolSet, Within
<1>2. ASSUME NEW o PROVE InFlight(o) <=> o \in FlightSet
  BY DEF InFlight, FlightSet, Within
<1>3. ASSUME NEW o PROVE InPool(o)' <=> o \in PoolSet'
  BY DEF InPool, PoolSet, Within
<1>4. ASSUME NEW o PROVE InFlight(o)' <=> o \in FlightSet'
  BY DEF InFlight, FlightSet, Within
<1> QED BY <1>1, <1>2, <1>3, <1>4

\* Assigning a queue moves objects within its own family only.
LEMMA AssignEmptyMoves ==
    ASSUME SystemResourceAssumption, QueueTypes, NEW r, OnePushed(r, Objects, Producers),
           AssignEmpty(r), Strung(r.objects, fifo, Producers),
           Strung(fullQueue.objects, fifo, Consumers)
    PROVE  /\ PlacesStrung'
           /\ PoolSet' = Within(r.objects, fifo, Producers)
           /\ FlightSet' = FlightSet
<1>1. Producers \subseteq Processes /\ fifo \in [Processes -> Seq(Objects)]
  BY DEF Processes, QueueTypes
<1>2. /\ emptyQueue' = Unmatched(r) /\ fullQueue' = fullQueue /\ fifo' = FifosAfter(r, fifo)
  BY DEF AssignEmpty
<1>3. Holds(Unmatched(r).objects, FifosAfter(r, fifo), Producers, Within(r.objects, fifo, Producers))
  BY <1>1, StrungAssign
<1>4. ASSUME NEW x \in Consumers PROVE fifo'[x] = fifo[x]
  <2>1. x \in Processes /\ x \notin Producers
    BY DEF Processes, SystemResourceAssumption
  <2>2. OthersKeep(fifo, FifosAfter(r, fifo), Processes, Producers)
    BY <1>1, AssignElsewhere
  <2> QED BY <1>2, <2>1, <2>2 DEF OthersKeep
<1>5. /\ Strung(fullQueue.objects, fifo', Consumers)
      /\ Within(fullQueue.objects, fifo', Consumers) = Within(fullQueue.objects, fifo, Consumers)
  BY <1>4, StrungAlone
<1>6. PlacesStrung'
  BY <1>2, <1>3, <1>5 DEF PlacesStrung, Holds
<1>7. PoolSet' = Within(r.objects, fifo, Producers)
  BY <1>2, <1>3 DEF PoolSet, Holds
<1>8. FlightSet' = FlightSet
  BY <1>2, <1>5 DEF FlightSet
<1> QED BY <1>6, <1>7, <1>8

\* The same for the full queue.
LEMMA AssignFullMoves ==
    ASSUME SystemResourceAssumption, QueueTypes, NEW r, OnePushed(r, Objects, Consumers),
           AssignFull(r), Strung(r.objects, fifo, Consumers),
           Strung(emptyQueue.objects, fifo, Producers)
    PROVE  /\ PlacesStrung'
           /\ FlightSet' = Within(r.objects, fifo, Consumers)
           /\ PoolSet' = PoolSet
<1>1. Consumers \subseteq Processes /\ fifo \in [Processes -> Seq(Objects)]
  BY DEF Processes, QueueTypes
<1>2. /\ fullQueue' = Unmatched(r) /\ emptyQueue' = emptyQueue /\ fifo' = FifosAfter(r, fifo)
  BY DEF AssignFull
<1>3. Holds(Unmatched(r).objects, FifosAfter(r, fifo), Consumers, Within(r.objects, fifo, Consumers))
  BY <1>1, StrungAssign
<1>4. ASSUME NEW x \in Producers PROVE fifo'[x] = fifo[x]
  <2>1. x \in Processes /\ x \notin Consumers
    BY DEF Processes, SystemResourceAssumption
  <2>2. OthersKeep(fifo, FifosAfter(r, fifo), Processes, Consumers)
    BY <1>1, AssignElsewhere
  <2> QED BY <1>2, <2>1, <2>2 DEF OthersKeep
<1>5. /\ Strung(emptyQueue.objects, fifo', Producers)
      /\ Within(emptyQueue.objects, fifo', Producers) = Within(emptyQueue.objects, fifo, Producers)
  BY <1>4, StrungAlone
<1>6. PlacesStrung'
  BY <1>2, <1>3, <1>5 DEF PlacesStrung, Holds
<1>7. FlightSet' = Within(r.objects, fifo, Consumers)
  BY <1>2, <1>3 DEF FlightSet, Holds
<1>8. PoolSet' = PoolSet
  BY <1>2, <1>5 DEF PoolSet
<1> QED BY <1>6, <1>7, <1>8

\* svt_release_process and svt_post_full_object, by their effect on where
\* objects are.
LEMMA QueueProcessMoves ==
    ASSUME SystemResourceAssumption, QueueParts, PlacesStrung
    PROVE  /\ \A p \in Producers :
                /\ RoomFor(emptyQueue, p, Producers)
                /\ AssignEmpty(QueueProcess(emptyQueue, p, Cardinality(Producers)))
                => PlacesStrung' /\ PoolSet' = PoolSet /\ FlightSet' = FlightSet
           /\ \A c \in Consumers :
                /\ RoomFor(fullQueue, c, Consumers)
                /\ AssignFull(QueueProcess(fullQueue, c, Cardinality(Consumers)))
                => PlacesStrung' /\ PoolSet' = PoolSet /\ FlightSet' = FlightSet
<1>1. /\ emptyQueue \in Queues(Objects, Producers) /\ Settled(emptyQueue)
      /\ fullQueue \in Queues(Objects, Consumers) /\ Settled(fullQueue)
      /\ IsFiniteSet(Producers) /\ IsFiniteSet(Consumers) /\ QueueTypes
  BY DEF QueueParts, QueueTypes, NoIdleMatch, Settled, SystemResourceAssumption
<1>2. ASSUME NEW p \in Producers, RoomFor(emptyQueue, p, Producers),
             AssignEmpty(QueueProcess(emptyQueue, p, Cardinality(Producers)))
      PROVE  PlacesStrung' /\ PoolSet' = PoolSet /\ FlightSet' = FlightSet
  <2> DEFINE r == QueueProcess(emptyQueue, p, Cardinality(Producers))
  <2>1. OnePushed(r, Objects, Producers)
    BY <1>1, <1>2, QueueProcessPushes
  <2>2. r.objects = emptyQueue.objects
    BY <1>1 DEF QueueProcess, Queues
  <2>3. AssignEmpty(r)
    BY <1>2
  <2> HIDE DEF r
  <2>4. Strung(r.objects, fifo, Producers) /\ Strung(fullQueue.objects, fifo, Consumers)
    BY <2>2 DEF PlacesStrung
  <2> QED BY <1>1, <2>1, <2>2, <2>3, <2>4, AssignEmptyMoves DEF PoolSet
<1>3. ASSUME NEW c \in Consumers, RoomFor(fullQueue, c, Consumers),
             AssignFull(QueueProcess(fullQueue, c, Cardinality(Consumers)))
      PROVE  PlacesStrung' /\ PoolSet' = PoolSet /\ FlightSet' = FlightSet
  <2> DEFINE r == QueueProcess(fullQueue, c, Cardinality(Consumers))
  <2>1. OnePushed(r, Objects, Consumers)
    BY <1>1, <1>3, QueueProcessPushes
  <2>2. r.objects = fullQueue.objects
    BY <1>1 DEF QueueProcess, Queues
  <2>3. AssignFull(r)
    BY <1>3
  <2> HIDE DEF r
  <2>4. Strung(r.objects, fifo, Consumers) /\ Strung(emptyQueue.objects, fifo, Producers)
    BY <2>2 DEF PlacesStrung
  <2> QED BY <1>1, <2>1, <2>2, <2>3, <2>4, AssignFullMoves DEF FlightSet
<1> QED BY <1>2, <1>3

\* svt_post_full_object puts the object in flight.
LEMMA PostMoves ==
    ASSUME SystemResourceAssumption, QueueParts, PlacesStrung, NEW o \in Objects,
           o \notin FlightSet, AssignFull(QueueObjectBack(fullQueue, o))
    PROVE  PlacesStrung' /\ PoolSet' = PoolSet /\ FlightSet' = FlightSet \cup {o}
<1> DEFINE r == QueueObjectBack(fullQueue, o)
<1>1. /\ fullQueue \in Queues(Objects, Consumers) /\ Settled(fullQueue) /\ QueueTypes
      /\ NoDuplicate(fullQueue.procs)
  BY DEF QueueParts, QueueTypes, NoIdleMatch, Settled, ProcessBufferSuffices, NoDuplicate
<1>2. OnePushed(r, Objects, Consumers)
  BY <1>1, QueueObjectBackPushes
<1>3. r.objects = Append(fullQueue.objects, o) /\ fullQueue.objects \in Seq(Objects)
  BY <1>1 DEF QueueObjectBack, Queues
<1>4. AssignFull(r)
  OBVIOUS
<1> HIDE DEF r
<1>5. Strung(fullQueue.objects, fifo, Consumers) /\ o \notin Within(fullQueue.objects, fifo, Consumers)
  BY DEF PlacesStrung, FlightSet
<1>6. Holds(r.objects, fifo, Consumers, Within(fullQueue.objects, fifo, Consumers) \cup {o})
  BY <1>3, <1>5, StrungBack
<1> QED BY <1>1, <1>2, <1>4, <1>6, AssignFullMoves DEF PlacesStrung, FlightSet, Holds

\* svt_release_object, by its effect on where objects are.
LEMMA ReleaseMoves ==
    ASSUME SystemResourceAssumption, QueueParts, PlacesStrung, NEW o \in Objects,
           ReleaseObject(o), Frees(o) => o \notin PoolSet
    PROVE  /\ PlacesStrung' /\ FlightSet' = FlightSet
           /\ PoolSet' = IF Frees(o) THEN PoolSet \cup {o} ELSE PoolSet
<1>1. CASE Frees(o)
  <2> DEFINE r == QueueObjectFront(emptyQueue, o, ObjectCount)
  <2>1. /\ emptyQueue \in Queues(Objects, Producers) /\ Settled(emptyQueue) /\ QueueTypes
        /\ NoDuplicate(emptyQueue.procs)
    BY DEF QueueParts, QueueTypes, NoIdleMatch, Settled, ProcessBufferSuffices, NoDuplicate
  <2>2. emptyQueue.objects \in Seq(Objects) /\ o \notin Elements(emptyQueue.objects)
        /\ NoDuplicate(emptyQueue.objects) /\ IsFiniteSet(Objects)
    BY <1>1, <2>1 DEF Queues, PoolSet, Within, PlacesStrung, Strung, SystemResourceAssumption
  <2>3. Len(emptyQueue.objects) < ObjectCount /\ ObjectCount \in Nat /\ ObjectCount > 0
    <3>1. Len(emptyQueue.objects) < Cardinality(Objects)
      BY <2>2, DistinctLeaveRoom
    <3>2. Cardinality(Objects) \in Nat /\ Len(emptyQueue.objects) \in Nat
      BY <2>2, FS_CardinalityType, LenProperties
    <3> QED BY <3>1, <3>2 DEF ObjectCount
  <2>4. r.objects = <<o>> \o emptyQueue.objects
    BY <2>1, <2>3 DEF QueueObjectFront, PushFront, Queues
  <2>5. OnePushed(r, Objects, Producers)
    BY <2>1, <2>3, QueueObjectFrontPushes
  <2>6. AssignEmpty(r)
    BY <1>1 DEF ReleaseObject
  <2> HIDE DEF r
  <2>7. Strung(emptyQueue.objects, fifo, Producers) /\ o \notin Within(emptyQueue.objects, fifo, Producers)
    BY <1>1 DEF PlacesStrung, PoolSet
  <2>8. Holds(r.objects, fifo, Producers, Within(emptyQueue.objects, fifo, Producers) \cup {o})
    BY <2>2, <2>4, <2>7, StrungFront
  <2> QED BY <1>1, <2>1, <2>5, <2>6, <2>8, AssignEmptyMoves DEF PlacesStrung, PoolSet, Holds
<1>2. CASE ~Frees(o)
  <2>1. emptyQueue' = emptyQueue /\ fullQueue' = fullQueue /\ fifo' = fifo
    BY <1>2 DEF ReleaseObject, queueVars
  <2> QED BY <1>2, <2>1 DEF PlacesStrung, PoolSet, FlightSet
<1> QED BY <1>1, <1>2

-----------------------------------------------------------------------------
(* Custody, object by object.                                                *)

\* What Custody says of one object, with the carriers told apart.
Held(x) == \E q \in Processes : x \in holding[q]

OneHolder(x) == \A a, b \in Processes : x \in holding[a] /\ x \in holding[b] => a = b

Well(x) ==
    /\ OneHolder(x)
    /\ InFlight(x) => ~Held(x)
    /\ shared[x] \leq MaxShared
    /\ InPool(x) => ~InFlight(x) /\ ~Held(x) /\ shared[x] = 0 /\ x # active
    /\ ~InPool(x) /\ (x = active \/ x = retiring) =>
          ~InFlight(x) /\ ~Held(x) /\ liveCount[x] = shared[x]
    /\ ~InPool(x) /\ x # active /\ x # retiring =>
          /\ releaseEnable[x]
          /\ InFlight(x) \/ Held(x) =>
                liveCount[x] = shared[x] + 1 \/ (liveCount[x] = 0 /\ shared[x] = 0)
          /\ ~InFlight(x) /\ ~Held(x) => liveCount[x] = shared[x] /\ liveCount[x] > 0

\* The parts of Custody about one object.
LEMMA WellMeans ==
    ASSUME OtherTypes, NEW x \in Objects
    PROVE  Well(x) <=>
             /\ \A a, b \in Processes : x \in holding[a] /\ x \in holding[b] => a = b
             /\ InFlight(x) => Holders(x) = {}
             /\ shared[x] \leq MaxShared
             /\ InPool(x) => ~Carried(x) /\ shared[x] = 0 /\ x # active
             /\ ~InPool(x) => CountIsOutstanding(x)
<1>1. Holders(x) = {} <=> ~Held(x)
  BY DEF Holders, Held
<1>2. Carried(x) <=> InFlight(x) \/ Held(x)
  BY <1>1 DEF Carried
<1>3. shared[x] \in Nat /\ liveCount[x] \in Nat
  <2>1. liveCount[x] \in 0..CountModulus - 1
    BY DEF OtherTypes
  <2> QED BY <2>1 DEF OtherTypes
<1>4. CASE InFlight(x) \/ Held(x)
  <2>1. Carried(x) /\ (IF Carried(x) THEN 1 ELSE 0) = 1
    BY <1>2, <1>4
  <2> QED BY <1>1, <1>2, <1>3, <1>4, <2>1 DEF Well, OneHolder, CountIsOutstanding
<1>5. CASE ~InFlight(x) /\ ~Held(x)
  <2>1. ~Carried(x) /\ (IF Carried(x) THEN 1 ELSE 0) = 0
    BY <1>2, <1>5
  <2> QED BY <1>1, <1>2, <1>3, <1>5, <2>1 DEF Well, OneHolder, CountIsOutstanding
<1> QED BY <1>4, <1>5

\* The same after a step.
LEMMA WellMeansNext ==
    ASSUME OtherTypes', NEW x \in Objects
    PROVE  Well(x)' <=>
             /\ \A a, b \in Processes : x \in holding'[a] /\ x \in holding'[b] => a = b
             /\ InFlight(x)' => Holders(x)' = {}
             /\ shared'[x] \leq MaxShared
             /\ InPool(x)' => ~Carried(x)' /\ shared'[x] = 0 /\ x # active'
             /\ ~InPool(x)' => CountIsOutstanding(x)'
<1>1. Holders(x)' = {} <=> ~Held(x)'
  BY DEF Holders, Held
<1>2. Carried(x)' <=> InFlight(x)' \/ Held(x)'
  BY <1>1 DEF Carried
<1>3. shared'[x] \in Nat /\ liveCount'[x] \in Nat
  <2>1. liveCount'[x] \in 0..CountModulus - 1
    BY DEF OtherTypes
  <2> QED BY <2>1 DEF OtherTypes
<1>4. CASE InFlight(x)' \/ Held(x)'
  <2>1. Carried(x)' /\ (IF Carried(x)' THEN 1 ELSE 0) = 1
    BY <1>2, <1>4
  <2> QED BY <1>1, <1>2, <1>3, <1>4, <2>1 DEF Well, OneHolder, CountIsOutstanding
<1>5. CASE ~InFlight(x)' /\ ~Held(x)'
  <2>1. ~Carried(x)' /\ (IF Carried(x)' THEN 1 ELSE 0) = 0
    BY <1>2, <1>5
  <2> QED BY <1>1, <1>2, <1>3, <1>5, <2>1 DEF Well, OneHolder, CountIsOutstanding
<1> QED BY <1>4, <1>5

\* Custody, before and after a step, object by object.
LEMMA CustodyParts ==
    /\ OtherTypes => (Custody <=> PlacesStrung /\ PinningIsSafe /\ \A x \in Objects : Well(x))
    /\ OtherTypes' => (Custody' <=> PlacesStrung' /\ PinningIsSafe' /\ \A x \in Objects : Well(x)')
<1>1. ASSUME OtherTypes
      PROVE  Custody <=> PlacesStrung /\ PinningIsSafe /\ \A x \in Objects : Well(x)
  <2>1. (\A x \in Objects : Well(x)) <=> OneCarrier /\ CountsAreRight
    BY <1>1, WellMeans DEF OneCarrier, CountsAreRight
  <2> QED BY <2>1 DEF Custody, PlacesStrung
<1>2. ASSUME OtherTypes'
      PROVE  Custody' <=> PlacesStrung' /\ PinningIsSafe' /\ \A x \in Objects : Well(x)'
  <2>1. (\A x \in Objects : Well(x)') <=> OneCarrier' /\ CountsAreRight'
    BY <1>2, WellMeansNext DEF OneCarrier, CountsAreRight
  <2> QED BY <2>1 DEF Custody, PlacesStrung
<1> QED BY <1>1, <1>2

\* The references of the object pool ObjectPool describes, by cases: those of
\* third parties, and one more of the carrier or of Resource Coordination.
Owned(x) ==
    \/ InFlight(x) \/ Held(x) \/ x = active
    \/ x = retiring /\ (~releaseEnable[x] \/ shared[x] = 0)

Refs(x) == IF InPool(x) THEN 0 ELSE shared[x] + (IF Owned(x) THEN 1 ELSE 0)

\* Steps by what they do to the references: nothing, or something to one object.
SameRefs == \A x \in Objects : Refs(x)' = Refs(x)

Only(o) == \A x \in Objects : x # o => Refs(x)' = Refs(x)

Acquires(o) == Only(o) /\ Refs(o) = 0 /\ Refs(o)' = 1

Shares(o) == Only(o) /\ Refs(o) > 0 /\ Refs(o)' > Refs(o)

Drops(o) ==
    /\ Only(o)
    /\ Refs(o) > IF InFlight(o) THEN 1 ELSE 0
    /\ Refs(o)' = Refs(o) - 1

\* A step that does not touch object x.
Untouched(x) ==
    /\ InPool(x)' <=> InPool(x)
    /\ InFlight(x)' <=> InFlight(x)
    /\ \A q \in Processes : x \in holding'[q] <=> x \in holding[q]
    /\ shared'[x] = shared[x] /\ liveCount'[x] = liveCount[x]
    /\ releaseEnable'[x] = releaseEnable[x]
    /\ (x = active' <=> x = active) /\ (x = retiring' <=> x = retiring)

\* Such a step keeps what Custody says of x, and the references to it.
LEMMA UntouchedKeeps ==
    ASSUME NEW x \in Objects, Well(x), Untouched(x)
    PROVE  Well(x)' /\ Refs(x)' = Refs(x)
<1>1. Held(x)' <=> Held(x)
  BY DEF Untouched, Held
<1>2. OneHolder(x)' <=> OneHolder(x)
  BY DEF Untouched, OneHolder
<1>3. Well(x)'
  BY <1>1, <1>2 DEF Untouched, Well
<1>4. Refs(x)' = Refs(x)
  <2>1. Owned(x)' <=> Owned(x)
    BY <1>1 DEF Untouched, Owned
  <2> QED BY <2>1 DEF Untouched, Refs
<1> QED BY <1>3, <1>4

\* Steps that move no object, count nothing and are no part of replacing the
\* pinned object.
LEMMA QuietKeeps ==
    ASSUME SystemResourceAssumption, OtherTypes, OtherTypes', Custody,
           PlacesStrung', PoolSet' = PoolSet, FlightSet' = FlightSet,
           UNCHANGED <<holding, shared, countVars, pinVars>>,
           \A p \in Producers :
              \/ pc'[p] = pc[p]
              \/ /\ pc[p] \notin {"enabling", "checking", "retiring"}
                 /\ pc'[p] \notin {"enabling", "checking", "retiring"}
    PROVE  Custody' /\ SameRefs
<1>1. /\ PinningIsSafe /\ \A x \in Objects : Well(x)
  BY CustodyParts
<1>2. \A x : (InPool(x)' <=> InPool(x)) /\ (InFlight(x)' <=> InFlight(x))
  BY PlaceSets
<1>3. /\ holding' = holding /\ shared' = shared /\ liveCount' = liveCount
      /\ releaseEnable' = releaseEnable /\ active' = active /\ retiring' = retiring
  BY DEF countVars, pinVars
<1>4. ASSUME NEW x \in Objects PROVE Well(x)' /\ Refs(x)' = Refs(x)
  <2>1. Untouched(x)
    BY <1>2, <1>3 DEF Untouched
  <2> QED BY <1>1, <2>1, UntouchedKeeps
<1>5. PinningIsSafe'
  <2>1. InPool(retiring)' <=> InPool(retiring)
    BY <1>3, PlaceSets DEF InPool, PoolSet, Within
  <2>2. Pinners \subseteq Producers
    BY DEF SystemResourceAssumption
  <2> QED BY <1>1, <1>3, <2>1, <2>2 DEF PinningIsSafe
<1> QED BY <1>4, <1>5, CustodyParts DEF SameRefs

-----------------------------------------------------------------------------
(* What each step does to where objects are and to the references to them.   *)

\* What a step may rely on.
Ready ==
    /\ SystemResourceAssumption
    /\ QueueInvariant /\ QueueParts /\ OtherTypes /\ CallsWellFormed
    /\ Custody /\ PlacesStrung /\ PinningIsSafe
    /\ \A x \in Objects : Well(x)

Phases == {"enabling", "checking", "retiring"}

\* The invariants give all that a step may rely on.
LEMMA CustodyIsReady == SystemResourceAssumption /\ QueueInvariant /\ Custody => Ready
BY InvariantParts, CustodyParts DEF Ready

\* The only pinner is the only producer: while it is not replacing the pinned
\* object, nothing is being replaced.
LEMMA NothingRetires ==
    ASSUME Ready, NEW p \in Producers, pc[p] \notin Phases
    PROVE  retiring = None /\ \A q \in Producers : pc[q] \notin Phases
<1>1. \A a \in Pinners, b \in Producers : a = b
  BY DEF Ready, SystemResourceAssumption
<1>2. retiring = None
  BY <1>1 DEF Ready, PinningIsSafe, Phases
<1>3. \A q \in Producers : pc[q] \in Phases => q \in Pinners
  BY DEF Ready, CallsWellFormed, Phases
<1> QED BY <1>1, <1>2, <1>3

\* An object somebody holds is neither in the pool nor in flight nor pinned.
LEMMA HeldIsOut ==
    ASSUME Ready, NEW q \in Processes, NEW o \in Objects, o \in holding[q]
    PROVE  /\ Held(o) /\ ~InPool(o) /\ ~InFlight(o) /\ o # active /\ o # retiring
           /\ releaseEnable[o]
           /\ liveCount[o] = shared[o] + 1 \/ (liveCount[o] = 0 /\ shared[o] = 0)
           /\ \A a \in Processes : o \in holding[a] => a = q
<1>1. Held(o) /\ Well(o)
  BY DEF Held, Ready
<1> QED BY <1>1 DEF Well, OneHolder

\* The counters are natural numbers below the modulus.
LEMMA CountTypes ==
    ASSUME Ready, NEW o \in Objects
    PROVE  /\ liveCount[o] \in Nat /\ liveCount[o] \leq Released /\ shared[o] \in Nat
           /\ Released \in Nat /\ Released > MaxShared + 2 /\ MaxShared \in Nat
           /\ CountModulus = Released + 1
<1>1. CountModulus \in Nat /\ MaxShared \in Nat /\ CountModulus > MaxShared + 3
  BY DEF Ready, SystemResourceAssumption
<1>2. liveCount[o] \in 0..CountModulus - 1 /\ shared[o] \in Nat
  BY DEF Ready, OtherTypes
<1> QED BY <1>1, <1>2 DEF Released

\* The steps of a consumer that move no object, and asking for an empty one.
LEMMA RequestEmptyCustody ==
    ASSUME Ready, OtherTypes', NEW p \in Producers, RequestEmpty(p)
    PROVE  Custody' /\ SameRefs
<1>1. RoomFor(emptyQueue, p, Producers)
  <2>1. pc[p] = "running"
    BY DEF RequestEmpty
  <2> QED BY <2>1 DEF Ready, QueueParts, ProcessBufferSuffices, RoomFor, NoDuplicate
<1>2. PlacesStrung' /\ PoolSet' = PoolSet /\ FlightSet' = FlightSet
  BY <1>1, QueueProcessMoves DEF RequestEmpty, Ready
<1>3. \A q \in Producers : pc'[q] = pc[q] \/ (q = p /\ pc[q] = "running" /\ pc'[q] = "waiting")
  BY DEF RequestEmpty, Ready, OtherTypes, Processes
<1>4. UNCHANGED <<holding, shared, countVars, pinVars>>
  BY DEF RequestEmpty
<1> QED BY <1>2, <1>3, <1>4, QuietKeeps DEF Ready

\* Asking for a full object moves no object, even twice from Poll.
LEMMA RequestFullCustody ==
    ASSUME Ready, OtherTypes', NEW c \in Consumers, RequestFull(c) \/ Poll(c)
    PROVE  Custody' /\ SameRefs
<1>1. AssignFull(QueueProcess(fullQueue, c, Cardinality(Consumers)))
  BY DEF RequestFull, Poll
<1>2. RoomFor(fullQueue, c, Consumers)
  <2>1. pc[c] = "running" \/ c \in Polling
    BY DEF RequestFull, Poll, Ready, CallsWellFormed
  <2>2. c \in Polling => Consumers = {c}
    BY DEF Ready, SystemResourceAssumption
  <2> QED BY <2>1, <2>2 DEF Ready, QueueParts, ProcessBufferSuffices, RoomFor, NoDuplicate
<1>3. PlacesStrung' /\ PoolSet' = PoolSet /\ FlightSet' = FlightSet
  BY <1>1, <1>2, QueueProcessMoves DEF Ready
<1>4. \A q \in Producers : pc'[q] = pc[q]
  BY DEF RequestFull, Poll, Ready, OtherTypes, Processes, SystemResourceAssumption
<1>5. UNCHANGED <<holding, shared, countVars, pinVars>>
  BY DEF RequestFull, Poll
<1> QED BY <1>3, <1>4, <1>5, QuietKeeps DEF Ready

\* Waking up, leaving, peeking and shutting down move no object.
LEMMA OtherConsumerCustody ==
    ASSUME Ready, OtherTypes', NEW c \in Consumers,
           WakeFull(c) \/ Leave(c) \/ Peek(c) \/ ShutDown(c)
    PROVE  Custody' /\ SameRefs
<1>1. emptyQueue' = emptyQueue /\ fullQueue' = fullQueue /\ fifo' = fifo
  BY DEF WakeFull, Leave, Peek, ShutDown, queueVars
<1>2. PlacesStrung' /\ PoolSet' = PoolSet /\ FlightSet' = FlightSet
  BY <1>1 DEF Ready, PlacesStrung, PoolSet, FlightSet
<1>3. \A q \in Producers : pc'[q] = pc[q]
  BY DEF WakeFull, Leave, Peek, ShutDown, Ready, OtherTypes, Processes, SystemResourceAssumption
<1>4. UNCHANGED <<holding, shared, countVars, pinVars>>
  BY DEF WakeFull, Leave, Peek, ShutDown
<1> QED BY <1>2, <1>3, <1>4, QuietKeeps DEF Ready

\* A step that touches one object.
LEMMA OneTouched ==
    ASSUME Ready, OtherTypes', NEW o \in Objects, PlacesStrung', PinningIsSafe', Well(o)',
           \A x \in Objects : x # o => Untouched(x)
    PROVE  Custody' /\ Only(o)
<1>1. ASSUME NEW x \in Objects PROVE Well(x)'
  <2>1. CASE x = o
    BY <2>1
  <2>2. CASE x # o
    <3>1. Untouched(x) /\ Well(x)
      BY <2>2 DEF Ready
    <3> QED BY <3>1, UntouchedKeeps
  <2> QED BY <2>1, <2>2
<1>2. ASSUME NEW x \in Objects, x # o PROVE Refs(x)' = Refs(x)
  <2>1. Untouched(x) /\ Well(x)
    BY <1>2 DEF Ready
  <2> QED BY <2>1, UntouchedKeeps
<1> QED BY <1>1, <1>2, CustodyParts DEF Only

\* A step outside the replacement of the pinned object that leaves it and the
\* one it replaces alone.
LEMMA PinningKept ==
    ASSUME Ready, OtherTypes', pinVars' = pinVars,
           \A q \in Producers : pc'[q] = pc[q] \/ (pc[q] \notin Phases /\ pc'[q] \notin Phases),
           active # None => releaseEnable'[active] = releaseEnable[active],
           retiring # None => /\ releaseEnable'[retiring] = releaseEnable[retiring]
                              /\ liveCount'[retiring] = liveCount[retiring]
                              /\ InPool(retiring)' <=> InPool(retiring)
    PROVE  PinningIsSafe'
<1>1. Pinners \subseteq Producers
  BY DEF Ready, SystemResourceAssumption
<1>2. active' = active /\ retiring' = retiring
  BY DEF pinVars
<1>3. /\ active # None => ~releaseEnable[active] /\ active # retiring
      /\ retiring # None => \E p \in Pinners : pc[p] \in {"enabling", "checking", "retiring"}
      /\ \A p \in Producers :
          /\ pc[p] = "enabling" => ~releaseEnable[retiring] /\ ~InPool(retiring)
          /\ pc[p] \in {"checking", "retiring"} =>
                releaseEnable[retiring] /\ (InPool(retiring) => liveCount[retiring] = Released)
          /\ pc[p] = "retiring" => InPool(retiring) \/ liveCount[retiring] = 0
  BY DEF Ready, PinningIsSafe
<1>4. \A q \in Producers : pc[q] \in Phases => retiring # None
  BY DEF Ready, CallsWellFormed, Phases, SystemResourceAssumption
<1>5. active' # None => ~releaseEnable'[active'] /\ active' # retiring'
  BY <1>2, <1>3
<1>6. retiring' # None => \E p \in Pinners : pc'[p] \in {"enabling", "checking", "retiring"}
  BY <1>1, <1>2, <1>3 DEF Phases
<1>7. ASSUME NEW p \in Producers, pc'[p] \in Phases
      PROVE  /\ pc[p] = pc'[p] /\ retiring' = retiring
             /\ releaseEnable'[retiring'] = releaseEnable[retiring]
             /\ liveCount'[retiring'] = liveCount[retiring]
             /\ InPool(retiring)' <=> InPool(retiring)
  BY <1>2, <1>4, <1>7
<1>8. \A p \in Producers :
          /\ pc'[p] = "enabling" => ~releaseEnable'[retiring'] /\ ~InPool(retiring)'
          /\ pc'[p] \in {"checking", "retiring"} =>
                releaseEnable'[retiring'] /\ (InPool(retiring)' => liveCount'[retiring'] = Released)
          /\ pc'[p] = "retiring" => InPool(retiring)' \/ liveCount'[retiring'] = 0
  BY <1>3, <1>7 DEF Phases
<1> QED BY <1>5, <1>6, <1>8 DEF PinningIsSafe

\* Places change by the objects that entered or left them.
LEMMA PlacesKept ==
    ASSUME Ready, NEW o, PoolSet' \ {o} = PoolSet \ {o}, FlightSet' \ {o} = FlightSet \ {o}
    PROVE  \A x : x # o => (InPool(x)' <=> InPool(x)) /\ (InFlight(x)' <=> InFlight(x))
BY PlaceSets

\* svt_get_empty_object takes an object nobody refers to: one reference now.
LEMMA TakeEmptyCustody ==
    ASSUME Ready, OtherTypes', NEW p \in Producers, TakeEmpty(p)
    PROVE  Custody' /\ \E o \in Objects : Acquires(o)
<1>0. PICK o : o = Head(fifo[p])
  OBVIOUS
<1>1. /\ pc[p] = "waiting" /\ semaphore[p] > 0 /\ fifo' = [fifo EXCEPT ![p] = Tail(fifo[p])]
      /\ liveCount' = [liveCount EXCEPT ![o] = 0]
      /\ releaseEnable' = [releaseEnable EXCEPT ![o] = TRUE]
      /\ pc' = [pc EXCEPT ![p] = "running"]
      /\ holding' = [holding EXCEPT ![p] = holding[p] \cup {o}]
      /\ emptyQueue' = emptyQueue /\ fullQueue' = fullQueue /\ shared' = shared
      /\ active' = active /\ retiring' = retiring
  BY <1>0 DEF TakeEmpty, pinVars
<1>2. /\ p \in Processes /\ Producers \subseteq Processes /\ fifo \in [Processes -> Seq(Objects)]
      /\ emptyQueue.objects \in Seq(Objects) /\ OtherTypes
      /\ \A c \in Consumers : c # p /\ c \in Processes
  BY DEF Ready, QueueParts, QueueTypes, Queues, Processes, SystemResourceAssumption
<1>3. fifo[p] # <<>>
  <2>1. semaphore[p] = Len(fifo[p])
    BY DEF Ready, QueueParts, SemaphoreCountsObjects
  <2> QED BY <1>1, <2>1
<1>4. Strung(emptyQueue.objects, fifo, Producers) /\ Strung(fullQueue.objects, fifo, Consumers)
  BY DEF Ready, PlacesStrung
<1>5. /\ Holds(emptyQueue.objects, [fifo EXCEPT ![p] = Tail(fifo[p])], Producers, PoolSet \ {o})
      /\ o \in PoolSet /\ o \in Objects
  BY <1>0, <1>2, <1>3, <1>4, StrungTake DEF PoolSet
<1>6. /\ Strung(fullQueue.objects, fifo', Consumers)
      /\ Within(fullQueue.objects, fifo', Consumers) = Within(fullQueue.objects, fifo, Consumers)
  <2>1. \A c \in Consumers : fifo'[c] = fifo[c]
    BY <1>1, <1>2
  <2> QED BY <1>4, <2>1, StrungAlone
<1>7. PlacesStrung' /\ PoolSet' = PoolSet \ {o} /\ FlightSet' = FlightSet
  BY <1>1, <1>5, <1>6 DEF PlacesStrung, PoolSet, FlightSet, Holds
<1>8. InPool(o) /\ ~InFlight(o) /\ ~Held(o) /\ shared[o] = 0 /\ o # active
  <2>1. InPool(o) /\ Well(o)
    BY <1>5, PlaceSets DEF Ready
  <2> QED BY <2>1 DEF Well
<1>9. retiring = None /\ \A q \in Producers : pc[q] \notin Phases
  BY <1>1, NothingRetires DEF Phases
<1>10. \A x : x # o => (InPool(x)' <=> InPool(x)) /\ (InFlight(x)' <=> InFlight(x))
  BY <1>7, PlacesKept
<1>11. ~InPool(o)' /\ ~InFlight(o)'
  BY <1>7, <1>8, PlaceSets
<1>12. /\ \A q \in Processes : o \in holding'[q] <=> q = p
       /\ \A q \in Processes, x \in Objects : x # o => (x \in holding'[q] <=> x \in holding[q])
  BY <1>1, <1>2, <1>8 DEF OtherTypes, Held
<1>13. /\ liveCount'[o] = 0 /\ releaseEnable'[o] /\ shared'[o] = 0
       /\ \A x \in Objects : x # o => liveCount'[x] = liveCount[x] /\ releaseEnable'[x] = releaseEnable[x]
  BY <1>1, <1>2, <1>5, <1>8 DEF OtherTypes
<1>14. \A x \in Objects : x # o => Untouched(x)
  BY <1>1, <1>10, <1>12, <1>13 DEF Untouched
<1>15. Well(o)'
  <2>1. Held(o)' /\ OneHolder(o)'
    BY <1>2, <1>12 DEF Held, OneHolder
  <2>2. o # active' /\ o # retiring'
    BY <1>1, <1>5, <1>8, <1>9 DEF Ready, SystemResourceAssumption
  <2>3. 0 \leq MaxShared
    BY <1>5, CountTypes
  <2> QED BY <2>1, <2>2, <2>3, <1>11, <1>13 DEF Well
<1>16. PinningIsSafe'
  <2>1. \A q \in Producers : pc'[q] = pc[q] \/ (pc[q] \notin Phases /\ pc'[q] \notin Phases)
    BY <1>1, <1>2, <1>9 DEF OtherTypes, Phases
  <2>2. active # None => releaseEnable'[active] = releaseEnable[active]
    BY <1>2, <1>8, <1>13 DEF OtherTypes
  <2> QED BY <1>1, <1>9, <2>1, <2>2, PinningKept DEF pinVars
<1>17. Custody' /\ Only(o)
  BY <1>5, <1>7, <1>14, <1>15, <1>16, OneTouched
<1>18. Refs(o) = 0 /\ Refs(o)' = 1
  <2>1. Held(o)'
    BY <1>2, <1>12 DEF Held
  <2> QED BY <1>8, <1>11, <1>13, <2>1 DEF Refs, Owned
<1> QED BY <1>5, <1>17, <1>18 DEF Acquires

\* Posting hands the reference of the poster to the full queue.
LEMMA PostCustody ==
    ASSUME Ready, OtherTypes', NEW p \in Processes, NEW o \in Objects, Post(p, o)
    PROVE  Custody' /\ SameRefs /\ Refs(o) > 0 /\ ~InFlight(o)
<1>1. /\ o \in holding[p] /\ AssignFull(QueueObjectBack(fullQueue, o))
      /\ holding' = [holding EXCEPT ![p] = holding[p] \ {o}]
      /\ pc' = pc /\ shared' = shared /\ liveCount' = liveCount /\ releaseEnable' = releaseEnable
      /\ active' = active /\ retiring' = retiring
  BY DEF Post, countVars, pinVars
<1>2. /\ ~InPool(o) /\ ~InFlight(o) /\ o # active /\ o # retiring /\ releaseEnable[o]
      /\ liveCount[o] = shared[o] + 1 \/ (liveCount[o] = 0 /\ shared[o] = 0)
      /\ \A a \in Processes : o \in holding[a] => a = p
  BY <1>1, HeldIsOut
<1>3. PlacesStrung' /\ PoolSet' = PoolSet /\ FlightSet' = FlightSet \cup {o}
  <2>1. o \notin FlightSet
    BY <1>2, PlaceSets
  <2> QED BY <1>1, <2>1, PostMoves DEF Ready
<1>4. \A x : x # o => (InPool(x)' <=> InPool(x)) /\ (InFlight(x)' <=> InFlight(x))
  BY <1>3, PlacesKept
<1>5. ~InPool(o)' /\ InFlight(o)'
  BY <1>2, <1>3, PlaceSets
<1>6. /\ \A q \in Processes : o \notin holding'[q]
      /\ \A q \in Processes, x \in Objects : x # o => (x \in holding'[q] <=> x \in holding[q])
  BY <1>1, <1>2 DEF Ready, OtherTypes
<1>7. \A x \in Objects : x # o => Untouched(x)
  BY <1>1, <1>4, <1>6 DEF Untouched
<1>8. Well(o)'
  <2>1. ~Held(o)' /\ OneHolder(o)'
    BY <1>6 DEF Held, OneHolder
  <2>2. shared[o] \leq MaxShared
    BY DEF Ready, Well
  <2> QED BY <1>1, <1>2, <1>5, <2>1, <2>2 DEF Well
<1>9. PinningIsSafe'
  <2>1. retiring # None => (InPool(retiring)' <=> InPool(retiring))
    BY <1>1, <1>2, <1>4
  <2> QED BY <1>1, <2>1, PinningKept DEF pinVars
<1>10. Custody' /\ Only(o)
  BY <1>3, <1>7, <1>8, <1>9, OneTouched
<1>11. Refs(o) > 0 /\ Refs(o)' = Refs(o)
  <2>1. Held(o) /\ shared[o] \in Nat
    BY <1>1, CountTypes DEF Held
  <2>2. Owned(o) /\ Owned(o)'
    BY <1>5, <2>1 DEF Owned
  <2> QED BY <1>1, <1>2, <1>5, <2>1, <2>2 DEF Refs
<1> QED BY <1>2, <1>10, <1>11 DEF SameRefs, Only

\* svt_get_full_object hands it to the receiver.
LEMMA TakeFullCustody ==
    ASSUME Ready, OtherTypes', NEW c \in Consumers, TakeFull(c)
    PROVE  Custody' /\ SameRefs
<1>0. PICK o : o = Head(fifo[c])
  OBVIOUS
<1>1. /\ pc[c] = "woken" /\ ~quit[c] /\ fifo' = [fifo EXCEPT ![c] = Tail(fifo[c])]
      /\ liveCount' = liveCount /\ releaseEnable' = releaseEnable
      /\ pc' = [pc EXCEPT ![c] = "running"]
      /\ holding' = [holding EXCEPT ![c] = holding[c] \cup {o}]
      /\ emptyQueue' = emptyQueue /\ fullQueue' = fullQueue /\ shared' = shared
      /\ active' = active /\ retiring' = retiring
  BY <1>0 DEF TakeFull, countVars, pinVars
<1>2. /\ c \in Processes /\ Consumers \subseteq Processes /\ fifo \in [Processes -> Seq(Objects)]
      /\ fullQueue.objects \in Seq(Objects) /\ OtherTypes
      /\ \A p \in Producers : c # p /\ p \in Processes
  BY DEF Ready, QueueParts, QueueTypes, Queues, Processes, SystemResourceAssumption
<1>3. fifo[c] # <<>>
  <2>1. /\ (IF pc[c] = "woken" THEN 1 ELSE 0) = 1
        /\ (IF quit[c] /\ pc[c] # "stopped" THEN 1 ELSE 0) = 0
    BY <1>1, Zenon
  <2>2. semaphore[c] + 1 = Len(fifo[c]) + 0
    BY <2>1, Zenon DEF Ready, QueueParts, SemaphoreCountsObjects
  <2>3. semaphore[c] \in Nat /\ Len(<<>>) = 0
    BY <1>2 DEF Ready, QueueParts, QueueTypes
  <2> QED BY <2>2, <2>3
<1>4. Strung(emptyQueue.objects, fifo, Producers) /\ Strung(fullQueue.objects, fifo, Consumers)
  BY DEF Ready, PlacesStrung
<1>5. /\ Holds(fullQueue.objects, [fifo EXCEPT ![c] = Tail(fifo[c])], Consumers, FlightSet \ {o})
      /\ o \in FlightSet /\ o \in Objects
  BY <1>0, <1>2, <1>3, <1>4, StrungTake DEF FlightSet
<1>6. /\ Strung(emptyQueue.objects, fifo', Producers)
      /\ Within(emptyQueue.objects, fifo', Producers) = Within(emptyQueue.objects, fifo, Producers)
  <2>1. \A p \in Producers : fifo'[p] = fifo[p]
    BY <1>1, <1>2
  <2> QED BY <1>4, <2>1, StrungAlone
<1>7. PlacesStrung' /\ FlightSet' = FlightSet \ {o} /\ PoolSet' = PoolSet
  BY <1>1, <1>5, <1>6 DEF PlacesStrung, PoolSet, FlightSet, Holds
<1>8. Well(o) /\ InFlight(o) /\ ~InPool(o) /\ ~Held(o) /\ o # active /\ o # retiring
  <2>1. InFlight(o) /\ Well(o)
    BY <1>5, PlaceSets DEF Ready
  <2> QED BY <2>1 DEF Well
<1>9. \A x : x # o => (InPool(x)' <=> InPool(x)) /\ (InFlight(x)' <=> InFlight(x))
  BY <1>7, PlacesKept
<1>10. ~InPool(o)' /\ ~InFlight(o)'
  BY <1>7, <1>8, PlaceSets
<1>11. /\ \A q \in Processes : o \in holding'[q] <=> q = c
       /\ \A q \in Processes, x \in Objects : x # o => (x \in holding'[q] <=> x \in holding[q])
  BY <1>1, <1>2, <1>8 DEF OtherTypes, Held
<1>12. \A x \in Objects : x # o => Untouched(x)
  BY <1>1, <1>9, <1>11 DEF Untouched
<1>13. Well(o)'
  <2>1. Held(o)' /\ OneHolder(o)'
    BY <1>2, <1>11 DEF Held, OneHolder
  <2> QED BY <1>1, <1>8, <1>10, <2>1 DEF Well
<1>14. PinningIsSafe'
  <2>1. retiring # None => (InPool(retiring)' <=> InPool(retiring))
    BY <1>1, <1>8, <1>9
  <2>2. \A p \in Producers : pc'[p] = pc[p]
    BY <1>1, <1>2 DEF OtherTypes
  <2> QED BY <1>1, <2>1, <2>2, PinningKept DEF pinVars
<1>15. Custody' /\ Only(o)
  BY <1>5, <1>7, <1>12, <1>13, <1>14, OneTouched
<1>16. Refs(o)' = Refs(o)
  <2>1. Held(o)'
    BY <1>2, <1>11 DEF Held
  <2>2. Owned(o) /\ Owned(o)'
    BY <1>8, <2>1 DEF Owned
  <2> QED BY <1>1, <1>8, <1>10, <2>2 DEF Refs
<1> QED BY <1>15, <1>16 DEF SameRefs, Only

\* svt_object_inc_live_count adds references for third parties, if any.
LEMMA AddReferencesCustody ==
    ASSUME Ready, OtherTypes', NEW p \in Processes, NEW o \in Objects,
           NEW n \in 1..MaxShared + 1, AddReferences(p, o, n)
    PROVE  Custody' /\ (SameRefs \/ Shares(o))
<1> DEFINE own == IF liveCount[o] = 0 /\ o # active THEN 1 ELSE 0
<1>1. /\ o \in holding[p] \/ o = active
      /\ shared[o] + n - own \leq MaxShared
      /\ liveCount' = [liveCount EXCEPT ![o] = (liveCount[o] + n) % CountModulus]
      /\ shared' = [shared EXCEPT ![o] = shared[o] + n - own]
      /\ emptyQueue' = emptyQueue /\ fullQueue' = fullQueue /\ fifo' = fifo
      /\ pc' = pc /\ holding' = holding /\ releaseEnable' = releaseEnable
      /\ active' = active /\ retiring' = retiring
  BY DEF AddReferences, queueVars, pinVars
<1>2. (own = 1 /\ liveCount[o] = 0 /\ o # active) \/ (own = 0 /\ (liveCount[o] # 0 \/ o = active))
  OBVIOUS
<1> HIDE DEF own
<1>3. /\ liveCount[o] \in Nat /\ shared[o] \in Nat /\ MaxShared \in Nat
      /\ CountModulus \in Nat /\ CountModulus > MaxShared + 3 /\ n \in Nat /\ n > 0
      /\ OtherTypes
  <2>1. CountModulus \in Nat /\ CountModulus > MaxShared + 3
    BY DEF Ready, SystemResourceAssumption
  <2> QED BY <2>1, CountTypes DEF Ready
<1>4. PlacesStrung' /\ PoolSet' = PoolSet /\ FlightSet' = FlightSet
  BY <1>1 DEF Ready, PlacesStrung, PoolSet, FlightSet
<1>5. \A x : (InPool(x)' <=> InPool(x)) /\ (InFlight(x)' <=> InFlight(x))
  BY <1>4, PlaceSets
<1>6. Well(o) /\ ~InPool(o) /\ ~InFlight(o) /\ o # retiring
  <2>1. CASE o \in holding[p]
    BY <2>1, HeldIsOut DEF Ready
  <2>2. CASE o = active
    <3>1. o # None
      BY DEF Ready, SystemResourceAssumption
    <3>2. active # retiring
      BY <2>2, <3>1 DEF Ready, PinningIsSafe
    <3> QED BY <2>2, <3>2 DEF Ready, Well
  <2> QED BY <1>1, <2>1, <2>2
<1>7. /\ \A x \in Objects : x # o => liveCount'[x] = liveCount[x] /\ shared'[x] = shared[x]
      /\ shared'[o] = shared[o] + n - own /\ liveCount'[o] = (liveCount[o] + n) % CountModulus
  BY <1>1, <1>3 DEF OtherTypes
<1>8. \A x \in Objects : x # o => Untouched(x)
  BY <1>1, <1>5, <1>7 DEF Untouched
<1>9. Well(o)'
  <2>1. Held(o)' <=> Held(o)
    BY <1>1 DEF Held
  <2>2. OneHolder(o)'
    BY <1>1, <1>6 DEF Well, OneHolder
  <2>3. shared'[o] \leq MaxShared
    BY <1>1, <1>7
  <2>4. CASE o = active
    <3>1. ~Held(o) /\ liveCount[o] = shared[o]
      BY <1>6, <2>4 DEF Well
    <3>2. liveCount'[o] = liveCount[o] + n /\ shared'[o] = shared[o] + n
      BY <1>1, <1>2, <1>3, <1>7, <2>4, <3>1
    <3> QED BY <1>1, <1>5, <1>6, <2>1, <2>2, <2>3, <2>4, <3>1, <3>2 DEF Well
  <2>5. CASE o # active
    <3>1. /\ Held(o) /\ releaseEnable[o]
          /\ liveCount[o] = shared[o] + 1 \/ (liveCount[o] = 0 /\ shared[o] = 0)
      BY <1>1, <2>5, HeldIsOut
    <3>2. liveCount[o] + n = shared[o] + n - own + 1 /\ own \in {0, 1}
      BY <1>2, <1>3, <2>5, <3>1
    <3>3. (liveCount[o] + n) % CountModulus = liveCount[o] + n
      BY <1>1, <1>3, <3>2
    <3>4. liveCount'[o] = shared'[o] + 1
      BY <1>7, <3>2, <3>3
    <3> QED BY <1>1, <1>5, <1>6, <2>1, <2>2, <2>3, <2>5, <3>1, <3>4 DEF Well
  <2> QED BY <2>4, <2>5
<1>10. PinningIsSafe'
  <2>1. retiring # None => (InPool(retiring)' <=> InPool(retiring)) /\ liveCount'[retiring] = liveCount[retiring]
    BY <1>1, <1>3, <1>5, <1>6, <1>7 DEF OtherTypes
  <2> QED BY <1>1, <2>1, PinningKept DEF pinVars
<1>11. Custody' /\ Only(o)
  BY <1>4, <1>8, <1>9, <1>10, OneTouched
<1>12. Refs(o) > 0 /\ (Refs(o)' = Refs(o) \/ Refs(o)' > Refs(o))
  <2>1. Owned(o) /\ Owned(o)'
    BY <1>1 DEF Owned, Held
  <2>2. Refs(o) = shared[o] + 1 /\ Refs(o)' = shared'[o] + 1
    BY <1>5, <1>6, <2>1 DEF Refs
  <2>3. shared'[o] = shared[o] \/ shared'[o] > shared[o]
    BY <1>2, <1>3, <1>7
  <2>4. shared'[o] \in Nat
    BY DEF OtherTypes
  <2> QED BY <1>3, <2>2, <2>3, <2>4
<1> QED BY <1>11, <1>12 DEF SameRefs, Only, Shares

\* svt_release_object by its effect on the objects: the released one enters the
\* pool if the call frees it, the others are left alone.
ReleaseSeen(o) ==
    /\ PlacesStrung'
    /\ InPool(o)' <=> InPool(o) \/ Frees(o)
    /\ InFlight(o)' <=> InFlight(o)
    /\ \A x : x # o => (InPool(x)' <=> InPool(x)) /\ (InFlight(x)' <=> InFlight(x))
    /\ \A x \in Objects : x # o => liveCount'[x] = liveCount[x]
    /\ liveCount'[o] = IF Frees(o) THEN Released ELSE Decremented(o)
    /\ releaseEnable' = releaseEnable

\* What svt_release_object does to an object that is not in the pool.
LEMMA ReleaseEffect ==
    ASSUME Ready, NEW o \in Objects, ReleaseObject(o), Frees(o) => ~InPool(o)
    PROVE  ReleaseSeen(o)
<1>1. Frees(o) => o \notin PoolSet
  BY PlaceSets
<1>2. /\ PlacesStrung' /\ FlightSet' = FlightSet
      /\ PoolSet' = IF Frees(o) THEN PoolSet \cup {o} ELSE PoolSet
  BY <1>1, ReleaseMoves DEF Ready
<1>3. \A x : x # o => (InPool(x)' <=> InPool(x)) /\ (InFlight(x)' <=> InFlight(x))
  BY <1>2, PlacesKept
<1>4. (InPool(o)' <=> InPool(o) \/ Frees(o)) /\ (InFlight(o)' <=> InFlight(o))
  BY <1>2, PlaceSets
<1>5. /\ liveCount' = [liveCount EXCEPT ![o] = IF Frees(o) THEN Released ELSE Decremented(o)]
      /\ releaseEnable' = releaseEnable
  BY DEF ReleaseObject
<1>6. /\ \A x \in Objects : x # o => liveCount'[x] = liveCount[x]
      /\ liveCount'[o] = IF Frees(o) THEN Released ELSE Decremented(o)
  BY <1>5 DEF Ready, OtherTypes
<1> QED BY <1>2, <1>3, <1>4, <1>5, <1>6 DEF ReleaseSeen

\* The carrier drops its own reference, not one that travels with the object.
LEMMA ReleaseCustody ==
    ASSUME Ready, OtherTypes', NEW p \in Processes, NEW o \in Objects, Release(p, o)
    PROVE  Custody' /\ Drops(o)
<1>1. /\ o \in holding[p] /\ ReleaseObject(o)
      /\ holding' = [holding EXCEPT ![p] = holding[p] \ {o}]
      /\ pc' = pc /\ shared' = shared /\ active' = active /\ retiring' = retiring
  BY DEF Release, pinVars
<1>2. /\ ~InPool(o) /\ ~InFlight(o) /\ o # active /\ o # retiring /\ releaseEnable[o]
      /\ liveCount[o] = shared[o] + 1 \/ (liveCount[o] = 0 /\ shared[o] = 0)
      /\ \A a \in Processes : o \in holding[a] => a = p
  BY <1>1, HeldIsOut
<1>3. ReleaseSeen(o)
  BY <1>1, <1>2, ReleaseEffect
<1>4. /\ \A q \in Processes : o \notin holding'[q]
      /\ \A q \in Processes, x \in Objects : x # o => (x \in holding'[q] <=> x \in holding[q])
  BY <1>1, <1>2 DEF Ready, OtherTypes
<1>5. \A x \in Objects : x # o => Untouched(x)
  BY <1>1, <1>3, <1>4 DEF Untouched, ReleaseSeen
<1>6. Well(o)'
  <2>1. ~Held(o)' /\ OneHolder(o)'
    BY <1>4 DEF Held, OneHolder
  <2>2. shared[o] \leq MaxShared /\ shared[o] \in Nat /\ liveCount[o] \in Nat
    BY CountTypes DEF Ready, Well
  <2>3. Decremented(o) = shared[o] /\ (Frees(o) <=> shared[o] = 0)
    BY <1>2, <2>2 DEF Decremented, Frees
  <2>4. InPool(o)' <=> shared[o] = 0
    BY <1>2, <1>3, <2>3 DEF ReleaseSeen
  <2>5. ~InPool(o)' => liveCount'[o] = shared[o] /\ liveCount'[o] > 0
    BY <1>3, <2>2, <2>3, <2>4 DEF ReleaseSeen
  <2>6. ~InFlight(o)' /\ releaseEnable'[o]
    BY <1>2, <1>3 DEF ReleaseSeen
  <2> QED BY <1>1, <1>2, <2>1, <2>2, <2>4, <2>5, <2>6 DEF Well
<1>7. PinningIsSafe'
  <2>1. retiring # None => (InPool(retiring)' <=> InPool(retiring)) /\ liveCount'[retiring] = liveCount[retiring]
    BY <1>1, <1>2, <1>3 DEF ReleaseSeen, Ready, OtherTypes
  <2> QED BY <1>1, <1>3, <2>1, PinningKept DEF pinVars, ReleaseSeen
<1>8. Custody' /\ Only(o)
  BY <1>3, <1>5, <1>6, <1>7, OneTouched DEF ReleaseSeen
<1>9. Refs(o) = shared[o] + 1 /\ Refs(o)' = shared[o] /\ shared[o] \in Nat
  <2>1. Held(o) /\ shared[o] \in Nat /\ liveCount[o] \in Nat
    BY <1>1, CountTypes DEF Held
  <2>2. Owned(o) /\ ~Owned(o)'
    BY <1>1, <1>2, <1>3, <1>4, <2>1 DEF Owned, Held, ReleaseSeen
  <2>3. Decremented(o) = shared[o] /\ (Frees(o) <=> shared[o] = 0)
    BY <1>2, <2>1 DEF Decremented, Frees
  <2>4. InPool(o)' <=> shared[o] = 0
    BY <1>2, <1>3, <2>3 DEF ReleaseSeen
  <2> QED BY <1>1, <1>2, <2>1, <2>2, <2>4 DEF Refs
<1> QED BY <1>2, <1>8, <1>9 DEF Drops

\* A third party drops one reference.
LEMMA ReleaseSharedCustody ==
    ASSUME Ready, OtherTypes', NEW o \in Objects, ReleaseShared(o)
    PROVE  Custody' /\ Drops(o)
<1>1. /\ shared[o] > 0 /\ ReleaseObject(o) /\ shared' = [shared EXCEPT ![o] = shared[o] - 1]
      /\ pc' = pc /\ holding' = holding /\ active' = active /\ retiring' = retiring
  BY DEF ReleaseShared, pinVars
<1>2. /\ Well(o) /\ ~InPool(o) /\ shared[o] \in Nat /\ liveCount[o] \in Nat /\ OtherTypes
      /\ Pinners \subseteq Producers /\ o # None
  <2>1. Well(o) /\ shared[o] \in Nat /\ liveCount[o] \in Nat
    BY CountTypes DEF Ready
  <2>2. ~InPool(o)
    BY <1>1, <2>1 DEF Well
  <2> QED BY <2>1, <2>2 DEF Ready, SystemResourceAssumption
<1>3. ReleaseSeen(o)
  BY <1>1, <1>2, ReleaseEffect
<1>4. /\ shared'[o] = shared[o] - 1
      /\ \A x \in Objects : x # o => shared'[x] = shared[x]
  BY <1>1, <1>2 DEF OtherTypes
<1>5. \A x \in Objects : x # o => Untouched(x)
  BY <1>1, <1>3, <1>4 DEF Untouched, ReleaseSeen
<1>6. (InPool(o)' <=> Frees(o)) /\ (InFlight(o)' <=> InFlight(o))
  BY <1>2, <1>3 DEF ReleaseSeen
<1>7. (Held(o)' <=> Held(o)) /\ OneHolder(o)' /\ (InFlight(o) => ~Held(o)) /\ shared'[o] \leq MaxShared
  BY <1>1, <1>2, <1>4 DEF Held, OneHolder, Well, Ready, SystemResourceAssumption
<1>8. liveCount'[o] = (IF Frees(o) THEN Released ELSE Decremented(o)) /\ releaseEnable' = releaseEnable
  BY <1>3 DEF ReleaseSeen
<1>9. CASE InFlight(o) \/ Held(o)
  <2>1. o # active /\ o # retiring /\ releaseEnable[o] /\ liveCount[o] = shared[o] + 1
    BY <1>1, <1>2, <1>9 DEF Well
  <2>2. Decremented(o) = shared[o] /\ ~Frees(o)
    BY <1>1, <1>2, <2>1 DEF Decremented, Frees
  <2>3. Well(o)'
    BY <1>1, <1>2, <1>4, <1>6, <1>7, <1>8, <1>9, <2>1, <2>2 DEF Well
  <2>4. retiring # None => (InPool(retiring)' <=> InPool(retiring)) /\ liveCount'[retiring] = liveCount[retiring]
    BY <1>1, <1>2, <1>3, <2>1 DEF ReleaseSeen, OtherTypes
  <2>5. PinningIsSafe'
    BY <1>1, <1>8, <2>4, PinningKept DEF pinVars
  <2>6. Custody' /\ Only(o)
    BY <1>3, <1>5, <2>3, <2>5, OneTouched DEF ReleaseSeen
  <2>7. Refs(o) = shared[o] + 1 /\ Refs(o)' = shared[o]
    <3>1. Owned(o) /\ Owned(o)'
      BY <1>6, <1>7, <1>9 DEF Owned
    <3> QED BY <1>2, <1>4, <1>6, <2>2, <3>1 DEF Refs
  <2>8. Refs(o) > (IF InFlight(o) THEN 1 ELSE 0) /\ Refs(o)' = Refs(o) - 1
    BY <1>1, <1>2, <2>7
  <2> QED BY <2>6, <2>8 DEF Drops
<1>10. CASE ~InFlight(o) /\ ~Held(o)
  <2>1. liveCount[o] = shared[o]
    BY <1>2, <1>10 DEF Well
  <2>2. Decremented(o) = shared'[o] /\ (Frees(o) <=> releaseEnable[o] /\ shared'[o] = 0)
    BY <1>1, <1>2, <1>4, <2>1 DEF Decremented, Frees
  <2>3. o = active => ~Frees(o)
    BY <1>2, <2>2 DEF Ready, PinningIsSafe
  <2>4. Frees(o) => shared'[o] = 0 /\ o # active'
    BY <1>1, <2>2, <2>3
  <2>5. ~Frees(o) => liveCount'[o] = shared'[o]
    BY <1>8, <2>2
  <2>6. ~Frees(o) /\ o # active /\ o # retiring => releaseEnable[o] /\ shared'[o] > 0
    BY <1>1, <1>2, <1>4, <2>2 DEF Well
  <2>7. Well(o)'
    <3>1. CASE Frees(o)
      BY <1>6, <1>7, <1>10, <2>4, <3>1 DEF Well
    <3>2. CASE ~Frees(o)
      BY <1>1, <1>6, <1>7, <1>8, <1>10, <2>5, <2>6, <3>2 DEF Well
    <3> QED BY <3>1, <3>2
  <2>8. PinningIsSafe'
    <3>1. CASE o # retiring
      <4>1. retiring # None => (InPool(retiring)' <=> InPool(retiring)) /\ liveCount'[retiring] = liveCount[retiring]
        BY <1>1, <1>2, <1>3, <3>1 DEF ReleaseSeen, OtherTypes
      <4> QED BY <1>1, <1>8, <4>1, PinningKept DEF pinVars
    <3>2. CASE o = retiring
      <4>1. /\ active # None => ~releaseEnable[active] /\ active # retiring
            /\ \E p \in Pinners : pc[p] \in {"enabling", "checking", "retiring"}
            /\ \A p \in Producers :
                /\ pc[p] = "enabling" => ~releaseEnable[o]
                /\ pc[p] \in {"checking", "retiring"} => releaseEnable[o]
                /\ pc[p] # "retiring"
        BY <1>1, <1>2, <2>1, <3>2 DEF Ready, PinningIsSafe
      <4>2. \A p \in Producers : pc[p] = "enabling" => ~InPool(o)'
        BY <1>6, <2>2, <4>1
      <4>3. InPool(o)' => liveCount'[o] = Released
        BY <1>6, <1>8
      <4>4. InPool(retiring)' <=> InPool(o)'
        BY <1>1, <3>2
      <4> QED BY <1>1, <1>8, <3>2, <4>1, <4>2, <4>3, <4>4 DEF PinningIsSafe
    <3> QED BY <3>1, <3>2
  <2>9. Custody' /\ Only(o)
    BY <1>3, <1>5, <2>7, <2>8, OneTouched DEF ReleaseSeen
  <2>10. Refs(o) > 0 /\ Refs(o)' = Refs(o) - 1
    <3>1. Owned(o) <=> o = active \/ (o = retiring /\ ~releaseEnable[o])
      BY <1>1, <1>10 DEF Owned
    <3>2. Owned(o)' <=> o = active \/ (o = retiring /\ (~releaseEnable[o] \/ shared'[o] = 0))
      BY <1>1, <1>6, <1>7, <1>8, <1>10 DEF Owned
    <3>3. Refs(o) = shared[o] + (IF Owned(o) THEN 1 ELSE 0)
      BY <1>2 DEF Refs
    <3>4. CASE Frees(o)
      <4>1. ~Owned(o) /\ Refs(o)' = 0
        BY <1>6, <2>2, <2>3, <3>1, <3>4 DEF Refs
      <4> QED BY <1>1, <1>2, <1>4, <2>2, <3>3, <3>4, <4>1
    <3>5. CASE ~Frees(o)
      <4>1. Refs(o)' = shared'[o] + (IF Owned(o)' THEN 1 ELSE 0)
        BY <1>6, <3>5 DEF Refs
      <4>2. Owned(o)' <=> Owned(o)
        BY <2>2, <3>1, <3>2, <3>5
      <4> QED BY <1>1, <1>2, <1>4, <3>3, <4>1, <4>2
    <3> QED BY <3>4, <3>5
  <2> QED BY <1>10, <2>9, <2>10 DEF Drops
<1> QED BY <1>9, <1>10

\* Pinning makes the reference of the holder that of Resource Coordination.
LEMMA PinCustody ==
    ASSUME Ready, OtherTypes', NEW p \in Producers, NEW o \in Objects, Pin(p, o)
    PROVE  Custody' /\ SameRefs
<1>1. /\ p \in Pinners /\ pc[p] = "running" /\ o \in holding[p] /\ liveCount[o] = 0
      /\ releaseEnable' = [releaseEnable EXCEPT ![o] = FALSE]
      /\ holding' = [holding EXCEPT ![p] = holding[p] \ {o}]
      /\ active' = o /\ retiring' = active
      /\ pc' = [pc EXCEPT ![p] = IF active = None THEN "running" ELSE "enabling"]
      /\ emptyQueue' = emptyQueue /\ fullQueue' = fullQueue /\ fifo' = fifo
      /\ liveCount' = liveCount /\ shared' = shared
  BY DEF Pin, queueVars
<1>2. /\ p \in Processes /\ Producers \subseteq Processes /\ OtherTypes /\ o # None
      /\ \A a \in Pinners, b \in Producers : a = b
  BY DEF Ready, SystemResourceAssumption, Processes
<1>3. /\ ~InPool(o) /\ ~InFlight(o) /\ o # active /\ o # retiring /\ shared[o] = 0
      /\ \A a \in Processes : o \in holding[a] => a = p
  <2>1. shared[o] \in Nat
    BY CountTypes
  <2> QED BY <1>1, <1>2, <2>1, HeldIsOut
<1>4. retiring = None /\ \A q \in Producers : pc[q] \notin Phases
  BY <1>1, NothingRetires DEF Phases
<1>5. PlacesStrung' /\ PoolSet' = PoolSet /\ FlightSet' = FlightSet
  BY <1>1 DEF Ready, PlacesStrung, PoolSet, FlightSet
<1>6. \A x : (InPool(x)' <=> InPool(x)) /\ (InFlight(x)' <=> InFlight(x))
  BY <1>5, PlaceSets
<1>7. /\ \A q \in Processes : o \notin holding'[q]
      /\ \A q \in Processes, x \in Objects : x # o => (x \in holding'[q] <=> x \in holding[q])
  BY <1>1, <1>3, <1>2 DEF OtherTypes
<1>8. ~releaseEnable'[o] /\ \A x \in Objects : x # o => releaseEnable'[x] = releaseEnable[x]
  BY <1>1, <1>2 DEF OtherTypes
<1>9. ASSUME NEW x \in Objects PROVE Well(x)' /\ Refs(x)' = Refs(x)
  <2>1. Well(x) /\ x # None
    BY DEF Ready, SystemResourceAssumption
  <2>2. CASE x = o
    <3>1. ~Held(o)' /\ OneHolder(o)'
      BY <1>7 DEF Held, OneHolder
    <3>2. shared[o] \leq MaxShared
      BY <2>1, <2>2 DEF Well
    <3>3. Owned(x) /\ Owned(x)'
      BY <1>1, <1>2, <2>2 DEF Owned, Held
    <3> QED BY <1>1, <1>3, <1>6, <2>2, <3>1, <3>2, <3>3 DEF Well, Refs
  <2>3. CASE x # o
    <3>1. (Held(x)' <=> Held(x)) /\ (OneHolder(x)' <=> OneHolder(x))
      BY <1>7, <2>3 DEF Held, OneHolder
    <3>2. releaseEnable'[x] = releaseEnable[x] /\ x # active' /\ (x = retiring' <=> x = active)
          /\ x # retiring
      BY <1>1, <1>4, <1>8, <2>1, <2>3
    <3>3. x = active => ~releaseEnable'[x]
      BY <2>1, <3>2 DEF Ready, PinningIsSafe
    <3>4. Owned(x)' <=> Owned(x)
      BY <1>1, <1>6, <3>1, <3>2, <3>3 DEF Owned
    <3> QED BY <1>1, <1>6, <2>1, <3>1, <3>2, <3>4 DEF Well, Refs
  <2> QED BY <2>2, <2>3
<1>10. PinningIsSafe'
  <2>1. active' # None => ~releaseEnable'[active'] /\ active' # retiring'
    BY <1>1, <1>3, <1>8
  <2>2. /\ pc'[p] = IF active = None THEN "running" ELSE "enabling"
        /\ \A q \in Producers : q = p
    BY <1>1, <1>2 DEF OtherTypes
  <2>3. retiring' # None => \E q \in Pinners : pc'[q] \in {"enabling", "checking", "retiring"}
    BY <1>1, <2>2
  <2>4. active # None => ~releaseEnable'[retiring'] /\ ~InPool(retiring)'
    <3>1. InPool(retiring)' <=> InPool(active)
      BY <1>1, <1>6 DEF InPool
    <3>2. active # None => active \in Objects /\ ~releaseEnable[active] /\ active # o
      BY <1>2, <1>3 DEF OtherTypes, Ready, PinningIsSafe
    <3>3. active # None => ~InPool(active)
      BY <3>2 DEF Ready, Well
    <3> QED BY <1>1, <1>8, <3>1, <3>2, <3>3
  <2> QED BY <1>1, <2>1, <2>2, <2>3, <2>4 DEF PinningIsSafe
<1> QED BY <1>5, <1>9, <1>10, CustodyParts DEF SameRefs

\* Unpinning drops the reference of Resource Coordination, unless it is the last.
LEMMA UnpinCustody ==
    ASSUME Ready, OtherTypes', NEW p \in Producers, Unpin(p)
    PROVE  Custody' /\ (SameRefs \/ \E o \in Objects : Drops(o))
<1>1. /\ pc[p] = "enabling" /\ releaseEnable' = [releaseEnable EXCEPT ![retiring] = TRUE]
      /\ pc' = [pc EXCEPT ![p] = "checking"]
      /\ emptyQueue' = emptyQueue /\ fullQueue' = fullQueue /\ fifo' = fifo
      /\ liveCount' = liveCount /\ shared' = shared /\ holding' = holding
      /\ active' = active /\ retiring' = retiring
  BY DEF Unpin, queueVars, pinVars
<1>2. /\ p \in Processes /\ Producers \subseteq Processes /\ OtherTypes
      /\ p \in Pinners /\ retiring \in Objects /\ \A q \in Producers : q = p
  BY <1>1 DEF Ready, SystemResourceAssumption, Processes, CallsWellFormed
<1>3. /\ ~InPool(retiring) /\ (active # None => ~releaseEnable[active] /\ active # retiring)
  BY <1>1 DEF Ready, PinningIsSafe
<1>4. PlacesStrung' /\ PoolSet' = PoolSet /\ FlightSet' = FlightSet
  BY <1>1 DEF Ready, PlacesStrung, PoolSet, FlightSet
<1>5. \A x : (InPool(x)' <=> InPool(x)) /\ (InFlight(x)' <=> InFlight(x))
  BY <1>4, PlaceSets
<1>6. releaseEnable'[retiring] /\ \A x \in Objects : x # retiring => releaseEnable'[x] = releaseEnable[x]
  BY <1>1, <1>2 DEF OtherTypes
<1>7. ASSUME NEW x \in Objects PROVE Well(x)'
  <2>1. (Held(x)' <=> Held(x)) /\ (OneHolder(x)' <=> OneHolder(x)) /\ Well(x)
    BY <1>1 DEF Held, OneHolder, Ready
  <2> QED BY <1>1, <1>5, <1>6, <2>1 DEF Well
<1>8. PinningIsSafe'
  <2>1. pc'[p] = "checking"
    BY <1>1, <1>2 DEF OtherTypes
  <2>2. ~InPool(retiring)'
    BY <1>1, <1>3, <1>5 DEF InPool
  <2>3. active' # None => ~releaseEnable'[active'] /\ active' # retiring'
    BY <1>1, <1>2, <1>3, <1>6 DEF OtherTypes
  <2> QED BY <1>1, <1>2, <1>6, <2>1, <2>2, <2>3 DEF PinningIsSafe
<1>9. PICK r \in Objects : r = retiring
  BY <1>2
<1>10. Only(r)
  <2> SUFFICES ASSUME NEW x \in Objects, x # r PROVE Refs(x)' = Refs(x)
    BY DEF Only
  <2>1. Owned(x)' <=> Owned(x)
    BY <1>1, <1>5, <1>9 DEF Owned, Held
  <2> QED BY <1>1, <1>5, <2>1 DEF Refs
<1>11. IF shared[r] = 0 THEN Refs(r)' = Refs(r)
                       ELSE Refs(r) > (IF InFlight(r) THEN 1 ELSE 0) /\ Refs(r)' = Refs(r) - 1
  <2>1. /\ ~InPool(r) /\ ~InPool(r)' /\ ~InFlight(r) /\ ~Held(r) /\ r # active
        /\ ~InFlight(r)' /\ ~Held(r)' /\ r # active' /\ r = retiring'
        /\ shared[r] \in Nat /\ shared'[r] = shared[r]
        /\ releaseEnable'[r] /\ ~releaseEnable[r]
    <3>1. Well(r) /\ r # None /\ shared[r] \in Nat
      BY CountTypes DEF Ready, SystemResourceAssumption
    <3>2. ~InPool(r) /\ r # active /\ ~releaseEnable[r]
      BY <1>1, <1>3, <1>9, <3>1 DEF Ready, PinningIsSafe
    <3>3. ~InFlight(r) /\ ~Held(r)
      BY <1>9, <3>1, <3>2 DEF Well
    <3>4. ~Held(r)'
      BY <1>1, <3>3 DEF Held
    <3> QED BY <1>1, <1>5, <1>6, <1>9, <3>1, <3>2, <3>3, <3>4
  <2>2. Owned(r) /\ (Owned(r)' <=> shared[r] = 0)
    BY <1>9, <2>1 DEF Owned
  <2>3. Refs(r) = shared[r] + 1 /\ Refs(r)' = shared[r] + (IF shared[r] = 0 THEN 1 ELSE 0)
    BY <2>1, <2>2 DEF Refs
  <2> QED BY <2>1, <2>3
<1>12. SameRefs \/ Drops(r)
  BY <1>10, <1>11 DEF SameRefs, Only, Drops
<1> QED BY <1>4, <1>7, <1>8, <1>12, CustodyParts

\* Looking at live_count and finding releases to come drops nothing.
LEMMA CheckIdleCustody ==
    ASSUME Ready, OtherTypes', NEW p \in Producers, CheckIdle(p)
    PROVE  Custody' /\ SameRefs
<1>1. PICK seen \in {liveCount[retiring]} \cup (IF liveCount[retiring] = Released THEN {0} ELSE {}) :
         /\ pc' = [pc EXCEPT ![p] = IF seen = 0 THEN "retiring" ELSE "running"]
         /\ retiring' = IF seen = 0 THEN retiring ELSE None
  BY DEF CheckIdle
<1>2. /\ pc[p] = "checking" /\ releaseEnable' = releaseEnable
      /\ emptyQueue' = emptyQueue /\ fullQueue' = fullQueue /\ fifo' = fifo
      /\ liveCount' = liveCount /\ shared' = shared /\ holding' = holding /\ active' = active
  BY DEF CheckIdle, queueVars, countVars
<1>3. /\ p \in Processes /\ Producers \subseteq Processes /\ OtherTypes
      /\ p \in Pinners /\ retiring \in Objects /\ \A q \in Producers : q = p
  BY <1>2 DEF Ready, SystemResourceAssumption, Processes, CallsWellFormed
<1>4. /\ releaseEnable[retiring] /\ (InPool(retiring) => liveCount[retiring] = Released)
      /\ (active # None => ~releaseEnable[active] /\ active # retiring) /\ Well(retiring)
      /\ retiring # active
  BY <1>2, <1>3 DEF Ready, PinningIsSafe
<1>5. PlacesStrung' /\ PoolSet' = PoolSet /\ FlightSet' = FlightSet
  BY <1>2 DEF Ready, PlacesStrung, PoolSet, FlightSet
<1>6. \A x : (InPool(x)' <=> InPool(x)) /\ (InFlight(x)' <=> InFlight(x))
  BY <1>5, PlaceSets
<1>7. /\ liveCount[retiring] \in Nat /\ shared[retiring] \in Nat /\ MaxShared \in Nat
      /\ Released > MaxShared + 2 /\ Released \in Nat
  BY <1>3, CountTypes
<1>8. liveCount[retiring] = Released => InPool(retiring)
  BY <1>4, <1>7 DEF Well
<1>9. pc'[p] = IF seen = 0 THEN "retiring" ELSE "running"
  BY <1>1, <1>3 DEF OtherTypes
<1>10. CASE seen = 0
  <2>1. retiring' = retiring /\ pc'[p] = "retiring"
    BY <1>1, <1>9, <1>10
  <2>2. liveCount[retiring] = 0 \/ InPool(retiring)
    BY <1>8, <1>10
  <2>3. InPool(retiring)' <=> InPool(retiring)
    BY <1>2, <2>1 DEF InPool
  <2>4. PinningIsSafe'
    BY <1>2, <1>3, <1>4, <2>1, <2>2, <2>3 DEF PinningIsSafe
  <2>5. ASSUME NEW x \in Objects PROVE Well(x)' /\ Refs(x)' = Refs(x)
    <3>1. (Held(x)' <=> Held(x)) /\ (OneHolder(x)' <=> OneHolder(x)) /\ Well(x)
      BY <1>2 DEF Held, OneHolder, Ready
    <3>2. Owned(x)' <=> Owned(x)
      BY <1>2, <1>6, <2>1, <3>1 DEF Owned
    <3> QED BY <1>2, <1>6, <2>1, <3>1, <3>2 DEF Well, Refs
  <2> QED BY <1>5, <2>4, <2>5, CustodyParts DEF SameRefs
<1>11. CASE seen # 0
  <2>1. retiring' = None /\ pc'[p] = "running" /\ liveCount[retiring] > 0 /\ seen = liveCount[retiring]
    BY <1>1, <1>7, <1>9, <1>11
  <2>2. PinningIsSafe'
    BY <1>2, <1>3, <1>4, <2>1 DEF PinningIsSafe
  <2>3. ASSUME NEW x \in Objects PROVE Well(x)' /\ Refs(x)' = Refs(x)
    <3>1. (Held(x)' <=> Held(x)) /\ (OneHolder(x)' <=> OneHolder(x)) /\ Well(x) /\ x # None
      BY <1>2 DEF Held, OneHolder, Ready, SystemResourceAssumption
    <3>2. CASE x = retiring
      <4>1. Well(x)'
        BY <1>2, <1>4, <1>6, <2>1, <3>1, <3>2 DEF Well
      <4>2. CASE InPool(x)
        BY <1>6, <4>1, <4>2 DEF Refs
      <4>3. CASE ~InPool(x)
        <5>1. ~InFlight(x) /\ ~Held(x) /\ shared[x] # 0 /\ releaseEnable[x] /\ x # active
          BY <1>4, <2>1, <3>1, <3>2, <4>3 DEF Well
        <5>2. ~Owned(x) /\ ~Owned(x)'
          BY <1>2, <1>6, <2>1, <3>1, <5>1 DEF Owned
        <5> QED BY <1>2, <1>6, <4>1, <4>3, <5>2 DEF Refs
      <4> QED BY <4>1, <4>2, <4>3
    <3>3. CASE x # retiring
      <4>1. Owned(x)' <=> Owned(x)
        BY <1>2, <1>6, <2>1, <3>1, <3>3 DEF Owned
      <4> QED BY <1>2, <1>6, <2>1, <3>1, <3>3, <4>1 DEF Well, Refs
    <3> QED BY <3>2, <3>3
  <2> QED BY <1>5, <2>2, <2>3, CustodyParts DEF SameRefs
<1> QED BY <1>10, <1>11

\* The last reference is dropped by Resource Coordination, unless it was freed.
LEMMA RetireCustody ==
    ASSUME Ready, OtherTypes', NEW p \in Producers, Retire(p)
    PROVE  Custody' /\ (SameRefs \/ \E o \in Objects : Drops(o))
<1>0. PICK o : o = retiring
  OBVIOUS
<1>1. /\ pc[p] = "retiring" /\ ReleaseObject(o) /\ retiring' = None
      /\ pc' = [pc EXCEPT ![p] = "running"]
      /\ shared' = shared /\ holding' = holding /\ active' = active
  BY <1>0 DEF Retire
<1>2. /\ p \in Processes /\ Producers \subseteq Processes /\ OtherTypes /\ o # None
      /\ p \in Pinners /\ o \in Objects /\ \A q \in Producers : q = p
  BY <1>0, <1>1 DEF Ready, SystemResourceAssumption, Processes, CallsWellFormed
<1>3. /\ releaseEnable[o] /\ (InPool(o) => liveCount[o] = Released)
      /\ (InPool(o) \/ liveCount[o] = 0)
      /\ (active # None => ~releaseEnable[active] /\ active # o) /\ Well(o) /\ o # active
  BY <1>0, <1>1, <1>2 DEF Ready, PinningIsSafe
<1>4. /\ liveCount[o] \in Nat /\ shared[o] \in Nat /\ MaxShared \in Nat
      /\ Released > MaxShared + 2 /\ Released \in Nat
  BY <1>2, CountTypes
<1>5. Frees(o) <=> ~InPool(o)
  <2>1. CASE InPool(o)
    BY <1>3, <1>4, <2>1 DEF Frees, Decremented
  <2>2. CASE ~InPool(o)
    BY <1>3, <2>2 DEF Frees, Decremented
  <2> QED BY <2>1, <2>2
<1>6. ReleaseSeen(o)
  BY <1>1, <1>2, <1>5, ReleaseEffect
<1>7. InPool(o)' /\ (InFlight(o)' <=> InFlight(o)) /\ releaseEnable' = releaseEnable
  BY <1>5, <1>6 DEF ReleaseSeen
<1>8. ASSUME NEW x \in Objects PROVE Well(x)'
  <2>1. (Held(x)' <=> Held(x)) /\ (OneHolder(x)' <=> OneHolder(x)) /\ Well(x) /\ x # None
    BY <1>1 DEF Held, OneHolder, Ready, SystemResourceAssumption
  <2>2. CASE x = o
    <3>1. ~InFlight(o) /\ ~Held(o) /\ shared[o] = 0
      BY <1>0, <1>3, <1>4 DEF Well
    <3> QED BY <1>1, <1>3, <1>7, <2>1, <2>2, <3>1 DEF Well
  <2>3. CASE x # o
    <3>1. /\ (InPool(x)' <=> InPool(x)) /\ (InFlight(x)' <=> InFlight(x))
          /\ liveCount'[x] = liveCount[x] /\ releaseEnable'[x] = releaseEnable[x]
      BY <1>6, <2>3 DEF ReleaseSeen
    <3> QED BY <1>0, <1>1, <2>1, <2>3, <3>1 DEF Well
  <2> QED BY <2>2, <2>3
<1>9. PinningIsSafe'
  <2>1. pc'[p] = "running"
    BY <1>1, <1>2 DEF OtherTypes
  <2> QED BY <1>1, <1>2, <1>3, <1>7, <2>1 DEF PinningIsSafe
<1>10. Only(o)
  <2> SUFFICES ASSUME NEW x \in Objects, x # o PROVE Refs(x)' = Refs(x)
    BY DEF Only
  <2>1. /\ (InPool(x)' <=> InPool(x)) /\ (InFlight(x)' <=> InFlight(x)) /\ x # None
        /\ (Held(x)' <=> Held(x))
    BY <1>1, <1>6 DEF ReleaseSeen, Held, Ready, SystemResourceAssumption
  <2>2. Owned(x)' <=> Owned(x)
    BY <1>0, <1>1, <2>1 DEF Owned
  <2> QED BY <1>1, <2>1, <2>2 DEF Refs
<1>11. Refs(o)' = 0
  BY <1>7 DEF Refs
<1>12. CASE InPool(o)
  <2>1. SameRefs
    BY <1>10, <1>11, <1>12 DEF SameRefs, Only, Refs
  <2> QED BY <1>6, <1>8, <1>9, <2>1, CustodyParts DEF ReleaseSeen
<1>13. CASE ~InPool(o)
  <2>1. ~InFlight(o) /\ ~Held(o) /\ shared[o] = 0
    BY <1>0, <1>3, <1>13 DEF Well
  <2>2. Refs(o) = 1
    BY <1>0, <1>13, <2>1 DEF Refs, Owned
  <2>3. Drops(o)
    BY <1>10, <1>11, <2>1, <2>2 DEF Drops
  <2> QED BY <1>2, <1>6, <1>8, <1>9, <2>3, CustodyParts DEF ReleaseSeen
<1> QED BY <1>12, <1>13

-----------------------------------------------------------------------------
(* Custody holds, and what follows from it.                                  *)

\* As many slots as objects, and every object in one: none is in two.
LEMMA InitialCustody == SystemResourceAssumption /\ Init => Custody
<1> SUFFICES ASSUME SystemResourceAssumption, Init PROVE Custody
  OBVIOUS
<1>1. PICK s \in {t \in [1..ObjectCount -> Objects] : Elements(t) = Objects} :
          emptyQueue = [EmptyMuxingQueue EXCEPT !.objects = s]
  BY DEF Init
<1>2. ObjectCount \in Nat /\ IsFiniteSet(Objects) /\ ObjectCount = Cardinality(Objects)
  BY FS_CardinalityType DEF SystemResourceAssumption, ObjectCount
<1>3. emptyQueue.objects = s /\ fullQueue.objects = <<>>
  BY <1>1 DEF Init, EmptyMuxingQueue
<1>4. NoDuplicate(s)
  <2>1. s \in [1..ObjectCount -> Objects] /\ DOMAIN s = 1..ObjectCount
    BY <1>1
  <2>2. \A x \in Objects : \E i \in 1..ObjectCount : s[i] = x
    BY <1>1, <2>1 DEF Elements
  <2>3. s \in Surjection(1..ObjectCount, Objects)
    BY <2>1, <2>2, Fun_IsSurj
  <2>4. IsFiniteSet(1..ObjectCount) /\ Cardinality(1..ObjectCount) = Cardinality(Objects)
    BY <1>2, FS_Interval
  <2>5. s \in Injection(1..ObjectCount, Objects)
    BY <2>3, <2>4, FS_SurjSameCardinalityImpliesInj
  <2>6. \A i, j \in 1..ObjectCount : s[i] = s[j] => i = j
    BY <2>5 DEF Injection, IsInjective
  <2> QED BY <2>1, <2>6 DEF NoDuplicate
<1>5. Elements(<<>>) = {} /\ NoDuplicate(<<>>)
  BY DEF Elements, NoDuplicate
<1>6. \A x \in Processes : fifo[x] = <<>> /\ holding[x] = {} /\ pc[x] = "running"
  BY DEF Init
<1>7. PlacesStrung
  BY <1>3, <1>4, <1>5, <1>6 DEF PlacesStrung, Strung, Processes
<1>8. active = None /\ retiring = None /\ \A x \in Objects : shared[x] = 0 /\ x # None
  BY DEF Init, SystemResourceAssumption
<1>9. ASSUME NEW x \in Objects PROVE Well(x)
  <2>1. InPool(x)
    BY <1>1, <1>3 DEF InPool
  <2>2. ~InFlight(x) /\ ~Held(x) /\ OneHolder(x)
    BY <1>3, <1>5, <1>6 DEF InFlight, Held, OneHolder, Processes
  <2>3. 0 \leq MaxShared
    BY DEF SystemResourceAssumption
  <2> QED BY <1>8, <2>1, <2>2, <2>3 DEF Well
<1>10. PinningIsSafe
  BY <1>6, <1>8 DEF PinningIsSafe, Processes
<1>11. OtherTypes
  BY InitialStates, InvariantParts
<1> QED BY <1>7, <1>9, <1>10, <1>11, CustodyParts

\* Every step of the resource keeps Custody.
LEMMA StepsKeepCustody ==
    SystemResourceAssumption /\ QueueInvariant /\ QueueInvariant' /\ Custody /\ [Next]_vars => Custody'
<1> SUFFICES ASSUME SystemResourceAssumption, QueueInvariant, QueueInvariant', Custody, [Next]_vars
             PROVE  Custody'
  OBVIOUS
<1>0. Ready /\ OtherTypes'
  BY CustodyIsReady, InvariantParts
<1>1. CASE \E p \in Producers : ProducerStep(p)
  <2>1. PICK p \in Producers : ProducerStep(p)
    BY <1>1
  <2>2. p \in Processes
    BY DEF Processes
  <2>3. CASE RequestEmpty(p)
    BY <1>0, <2>3, RequestEmptyCustody
  <2>4. CASE TakeEmpty(p)
    BY <1>0, <2>4, TakeEmptyCustody
  <2>5. CASE \E o \in Objects : Post(p, o)
    BY <1>0, <2>2, <2>5, PostCustody
  <2>6. CASE \E o \in Objects : Pin(p, o)
    BY <1>0, <2>6, PinCustody
  <2>7. CASE Unpin(p)
    BY <1>0, <2>7, UnpinCustody
  <2>8. CASE CheckIdle(p)
    BY <1>0, <2>8, CheckIdleCustody
  <2>9. CASE Retire(p)
    BY <1>0, <2>9, RetireCustody
  <2> QED BY <2>1, <2>3, <2>4, <2>5, <2>6, <2>7, <2>8, <2>9 DEF ProducerStep
<1>2. CASE \E c \in Consumers : ConsumerStep(c) \/ ShutDown(c)
  <2>1. PICK c \in Consumers : ConsumerStep(c) \/ ShutDown(c)
    BY <1>2
  <2>2. CASE RequestFull(c) \/ Poll(c)
    BY <1>0, <2>2, RequestFullCustody
  <2>3. CASE WakeFull(c) \/ Leave(c) \/ Peek(c) \/ ShutDown(c)
    BY <1>0, <2>3, OtherConsumerCustody
  <2>4. CASE TakeFull(c)
    BY <1>0, <2>4, TakeFullCustody
  <2> QED BY <2>1, <2>2, <2>3, <2>4 DEF ConsumerStep
<1>3. CASE \E p \in Processes, o \in Objects :
              Release(p, o) \/ \E n \in 1..MaxShared + 1 : AddReferences(p, o, n)
  BY <1>0, <1>3, ReleaseCustody, AddReferencesCustody
<1>4. CASE \E o \in Objects : ReleaseShared(o)
  BY <1>0, <1>4, ReleaseSharedCustody
<1>5. CASE UNCHANGED vars
  <2>1. /\ emptyQueue' = emptyQueue /\ fullQueue' = fullQueue /\ fifo' = fifo /\ pc' = pc
        /\ UNCHANGED <<holding, shared, countVars, pinVars>>
    BY <1>5 DEF vars, queueVars
  <2>2. PlacesStrung' /\ PoolSet' = PoolSet /\ FlightSet' = FlightSet
    BY <1>0, <2>1 DEF Ready, PlacesStrung, PoolSet, FlightSet
  <2> QED BY <1>0, <2>1, <2>2, QuietKeeps DEF Ready
<1> QED BY <1>1, <1>2, <1>3, <1>4, <1>5 DEF Next

\* Where objects are and what their counts say, in every reachable state of
\* every resource.
THEOREM CustodyHolds == Spec => []Custody
<1>1. Init => Custody
  BY SystemResourceAssumption, InitialCustody
<1>2. QueueInvariant /\ QueueInvariant' /\ Custody /\ [Next]_vars => Custody'
  BY SystemResourceAssumption, StepsKeepCustody
<1> QED BY <1>1, <1>2, QueueInvariantHolds, PTL DEF Spec

\* The releases to come: the carrier's own and those of third parties.
OutstandingRight ==
    \A o \in Objects :
        /\ Outstanding(o) \in Nat
        /\ Outstanding(o) = shared[o] + (IF InFlight(o) \/ Held(o) THEN 1 ELSE 0)

\* Outstanding is that sum: an object has one carrier at most.
LEMMA OutstandingCounts == Ready => OutstandingRight
<1> SUFFICES ASSUME Ready, NEW o \in Objects
             PROVE  /\ Outstanding(o) \in Nat
                    /\ Outstanding(o) = shared[o] + (IF InFlight(o) \/ Held(o) THEN 1 ELSE 0)
  BY DEF OutstandingRight
<1>1. Well(o) /\ shared[o] \in Nat
  BY CountTypes DEF Ready
<1>2. CASE Held(o)
  <2>1. PICK p \in Processes : o \in holding[p]
    BY <1>2 DEF Held
  <2>2. Holders(o) = {p}
    BY <1>1, <2>1 DEF Holders, Well, OneHolder
  <2>3. Cardinality(Holders(o)) = 1
    BY <2>2, FS_Singleton
  <2>4. ~InFlight(o)
    BY <1>1, <1>2 DEF Well
  <2> QED BY <1>1, <1>2, <2>3, <2>4 DEF Outstanding
<1>3. CASE ~Held(o)
  <2>1. Cardinality(Holders(o)) = 0
    BY <1>3, FS_EmptySet DEF Holders, Held
  <2> QED BY <1>1, <1>3, <2>1 DEF Outstanding
<1> QED BY <1>2, <1>3

\* Custody is enough for NoReuseWhileReferenced ...
LEMMA CustodyForbidsReuse == Ready => NoReuseWhileReferenced
<1> SUFFICES ASSUME Ready PROVE NoReuseWhileReferenced
  OBVIOUS
<1>1. /\ Producers \subseteq Processes /\ Consumers \subseteq Processes
      /\ emptyQueue.objects \in Seq(Objects) /\ fullQueue.objects \in Seq(Objects)
      /\ fifo \in [Processes -> Seq(Objects)] /\ IsFiniteSet(Objects)
      /\ Strung(emptyQueue.objects, fifo, Producers) /\ Strung(fullQueue.objects, fifo, Consumers)
  BY DEF Ready, QueueParts, QueueTypes, Queues, Processes, SystemResourceAssumption, PlacesStrung
<1>2. \A s \in Seq(Objects) : Elements(s) \subseteq Objects
  BY LenProperties, ElementOfSeq DEF Elements
<1>3. PoolSet = {o \in Objects : InPool(o)}
  <2>1. PoolSet \subseteq Objects
    BY <1>1, <1>2 DEF PoolSet, Within
  <2> QED BY <2>1, PlaceSets
<1>4. FlightSet = {o \in Objects : InFlight(o)}
  <2>1. FlightSet \subseteq Objects
    BY <1>1, <1>2 DEF FlightSet, Within
  <2> QED BY <2>1, PlaceSets
<1>5. Len(emptyQueue.objects) + Cardinality(UNION {{p} \X DOMAIN fifo[p] : p \in Producers})
          = Cardinality({o \in Objects : InPool(o)})
  <2>1. Len(emptyQueue.objects) + Cardinality(SlotsOf(fifo, Producers))
            = Cardinality(Within(emptyQueue.objects, fifo, Producers))
    BY <1>1, StrungCount
  <2> QED BY <1>3, <2>1, Zenon DEF PoolSet, SlotsOf
<1>6. Len(fullQueue.objects) + Cardinality(UNION {{c} \X DOMAIN fifo[c] : c \in Consumers})
          = Cardinality({o \in Objects : InFlight(o)})
  <2>1. Len(fullQueue.objects) + Cardinality(SlotsOf(fifo, Consumers))
            = Cardinality(Within(fullQueue.objects, fifo, Consumers))
    BY <1>1, StrungCount
  <2> QED BY <1>4, <2>1, Zenon DEF FlightSet, SlotsOf
<1>7. ASSUME NEW o \in Objects, InPool(o) PROVE Outstanding(o) = 0 /\ ~Kept(o)
  <2>1. Well(o) /\ o # None /\ Pinners \subseteq Producers
    BY DEF Ready, SystemResourceAssumption
  <2>2. ~InFlight(o) /\ ~Held(o) /\ shared[o] = 0 /\ o # active
    BY <1>7, <2>1 DEF Well
  <2>3. Outstanding(o) = 0
    BY <2>2, OutstandingCounts DEF OutstandingRight
  <2>4. o = retiring => releaseEnable[o]
    BY <1>7, <2>1 DEF Ready, PinningIsSafe
  <2> QED BY <1>7, <2>2, <2>3, <2>4 DEF Kept
<1> QED BY <1>5, <1>6, <1>7 DEF NoReuseWhileReferenced

\* ... and for NoLeak.
LEMMA CustodyForbidsLeaks == Ready => NoLeak
<1> SUFFICES ASSUME Ready, NEW o \in Objects, ~InPool(o) PROVE Outstanding(o) > 0 \/ Kept(o)
  BY DEF NoLeak
<1>1. Well(o) /\ shared[o] \in Nat /\ liveCount[o] \in Nat /\ o # None
  BY CountTypes DEF Ready, SystemResourceAssumption
<1>2. Outstanding(o) \in Nat /\ Outstanding(o) = shared[o] + (IF InFlight(o) \/ Held(o) THEN 1 ELSE 0)
  BY OutstandingCounts DEF OutstandingRight
<1>3. CASE o = active
  BY <1>1, <1>3 DEF Ready, PinningIsSafe, Kept
<1>4. CASE o = retiring
  BY <1>2, <1>4 DEF Kept
<1>5. CASE o # active /\ o # retiring
  BY <1>1, <1>2, <1>5 DEF Well
<1> QED BY <1>3, <1>4, <1>5

\* No object is at two places, or in the pool while anyone refers to it.
THEOREM NoObjectIsReused == Spec => []NoReuseWhileReferenced
<1>1. QueueInvariant /\ Custody => NoReuseWhileReferenced
  BY SystemResourceAssumption, CustodyIsReady, CustodyForbidsReuse
<1> QED BY <1>1, QueueInvariantHolds, CustodyHolds, PTL

\* Every object out of the pool is on its way back to it, or kept.
THEOREM NoObjectLeaks == Spec => []NoLeak
<1>1. QueueInvariant /\ Custody => NoLeak
  BY SystemResourceAssumption, CustodyIsReady, CustodyForbidsLeaks
<1> QED BY <1>1, QueueInvariantHolds, CustodyHolds, PTL

-----------------------------------------------------------------------------
(* The order of the posted objects.                                          *)

\* t is s without its i-th element.
DropsAt(s, t, i) ==
    /\ Len(t) = Len(s) - 1
    /\ \A j \in 1..Len(s) - 1 : t[j] = IF j < i THEN s[j] ELSE s[j + 1]
    /\ NoDuplicate(t)
    /\ Elements(t) = Elements(s) \ {s[i]}

\* Cutting the i-th element out does that.
LEMMA DropShape ==
    ASSUME NEW S, NEW s \in Seq(S), NEW i \in 1..Len(s), NoDuplicate(s)
    PROVE  DropsAt(s, SubSeq(s, 1, i - 1) \o SubSeq(s, i + 1, Len(s)), i)
<1> DEFINE a == SubSeq(s, 1, i - 1)
           b == SubSeq(s, i + 1, Len(s))
           t == a \o b
           n == Len(s)
<1>1. n \in Nat /\ DOMAIN s = 1..n /\ (\A j \in 1..n : s[j] \in S) /\ i \in Int
  BY LenProperties, ElementOfSeq
<1>2. i - 1 \in Int /\ i + 1 \in Int /\ n \in Int /\ i \geq 1 /\ i \leq n
  BY <1>1
<1> HIDE DEF n
<1>3. a \in Seq(S) /\ Len(a) = i - 1 /\ \A j \in 1..i - 1 : a[j] = s[j]
  <2>1. \A j \in 1..i - 1 : s[j] \in S
    BY <1>1, <1>2
  <2>2. /\ a \in Seq(S) /\ Len(a) = IF 1 \leq i - 1 THEN (i - 1) - 1 + 1 ELSE 0
        /\ \A j \in 1..(i - 1) - 1 + 1 : a[j] = s[1 + j - 1]
    BY <1>2, <2>1, SubSeqProperties
  <2> HIDE DEF a
  <2> QED BY <1>2, <2>2
<1>4. b \in Seq(S) /\ Len(b) = n - i /\ \A j \in 1..n - i : b[j] = s[i + j]
  <2>1. \A j \in i + 1..n : s[j] \in S
    BY <1>1, <1>2
  <2>2. /\ b \in Seq(S) /\ Len(b) = IF i + 1 \leq n THEN n - (i + 1) + 1 ELSE 0
        /\ \A j \in 1..n - (i + 1) + 1 : b[j] = s[i + 1 + j - 1]
    BY <1>2, <2>1, SubSeqProperties DEF n
  <2> HIDE DEF b
  <2> QED BY <1>2, <2>2
<1> HIDE DEF a, b
<1>5. /\ t \in Seq(S) /\ Len(t) = Len(a) + Len(b)
      /\ \A j \in 1..Len(a) + Len(b) : t[j] = IF j \leq Len(a) THEN a[j] ELSE b[j - Len(a)]
  BY <1>3, <1>4, ConcatProperties
<1> HIDE DEF t
<1>6. Len(t) = n - 1
  BY <1>2, <1>3, <1>4, <1>5
<1>7. ASSUME NEW j \in 1..n - 1 PROVE t[j] = IF j < i THEN s[j] ELSE s[j + 1]
  <2>1. j \in 1..Len(a) + Len(b)
    BY <1>2, <1>3, <1>4
  <2>2. CASE j < i
    <3>1. j \in 1..i - 1 /\ j \leq Len(a)
      BY <1>2, <1>3, <2>2
    <3>2. t[j] = a[j] /\ a[j] = s[j]
      BY <1>3, <1>5, <2>1, <3>1
    <3> QED BY <2>2, <3>2
  <2>3. CASE ~(j < i)
    <3>1. t[j] = b[j - (i - 1)] /\ j - (i - 1) \in 1..n - i
      BY <1>2, <1>3, <1>5, <2>1, <2>3
    <3>2. b[j - (i - 1)] = s[i + (j - (i - 1))] /\ i + (j - (i - 1)) = j + 1
      BY <1>2, <1>4, <3>1
    <3> QED BY <2>3, <3>1, <3>2
  <2> QED BY <2>2, <2>3
<1>8. DOMAIN t = 1..n - 1
  BY <1>5, <1>6, LenProperties
<1>9. \A j, k \in 1..n : s[j] = s[k] => j = k
  BY <1>1 DEF NoDuplicate
<1>10. NoDuplicate(t)
  <2>1. ASSUME NEW j \in 1..n - 1, NEW k \in 1..n - 1, t[j] = t[k] PROVE j = k
    <3>1. j \in 1..n /\ k \in 1..n /\ j + 1 \in 1..n /\ k + 1 \in 1..n
      BY <1>2
    <3> QED BY <1>2, <1>7, <1>9, <2>1, <3>1
  <2> QED BY <1>8, <2>1 DEF NoDuplicate
<1>11. ASSUME NEW y PROVE y \in Elements(t) <=> y \in Elements(s) /\ y # s[i]
  <2>1. y \in Elements(t) <=> \E j \in 1..n - 1 : y = t[j]
    BY <1>8 DEF Elements
  <2>2. y \in Elements(s) <=> \E j \in 1..n : y = s[j]
    BY <1>1 DEF Elements
  <2>3. ASSUME NEW j \in 1..n - 1, y = t[j] PROVE y \in Elements(s) /\ y # s[i]
    <3>1. j \in 1..n /\ j + 1 \in 1..n
      BY <1>2
    <3> QED BY <1>2, <1>7, <1>9, <2>2, <2>3, <3>1
  <2>4. ASSUME NEW j \in 1..n, y = s[j], y # s[i] PROVE y \in Elements(t)
    <3>1. CASE j < i
      <4>1. j \in 1..n - 1
        BY <1>2, <3>1
      <4> QED BY <1>7, <2>1, <2>4, <3>1, <4>1
    <3>2. CASE j > i
      <4>1. j - 1 \in 1..n - 1 /\ ~(j - 1 < i) /\ (j - 1) + 1 = j
        BY <1>2, <3>2
      <4> QED BY <1>7, <2>1, <2>4, <4>1
    <3>3. j # i
      BY <2>4
    <3> QED BY <1>2, <3>1, <3>2, <3>3
  <2> QED BY <2>1, <2>2, <2>3, <2>4
<1>12. Elements(t) = Elements(s) \ {s[i]}
  BY <1>11
<1>13. DropsAt(s, t, i)
  BY <1>6, <1>7, <1>10, <1>12 DEF DropsAt, n
<1> QED BY <1>13 DEF t, a, b, n

\* Without takes out the one occurrence.
LEMMA WithoutDistinct ==
    ASSUME NEW S, NEW s \in Seq(S), NEW i \in 1..Len(s), NoDuplicate(s)
    PROVE  /\ Without(s, s[i]) = SubSeq(s, 1, i - 1) \o SubSeq(s, i + 1, Len(s))
           /\ DropsAt(s, Without(s, s[i]), i)
<1>1. DOMAIN s = 1..Len(s)
  BY LenProperties
<1>2. s[i] \in Elements(s) /\ \A j \in DOMAIN s : s[j] = s[i] => j = i
  BY <1>1 DEF NoDuplicate, Elements
<1>3. (CHOOSE j \in DOMAIN s : s[j] = s[i]) = i
  BY <1>1, <1>2
<1>4. Without(s, s[i]) = SubSeq(s, 1, i - 1) \o SubSeq(s, i + 1, Len(s))
  BY <1>2, <1>3 DEF Without
<1> QED BY <1>4, DropShape

\* The posted objects q against the buffer s and the FIFOs f: those not assigned
\* are the last ones, and the polling consumer's FIFO holds the first ones.
Lined(q, s, f) ==
    /\ NoDuplicate(q) /\ Len(s) \leq Len(q)
    /\ \A i \in 1..Len(s) : q[Len(q) - Len(s) + i] = s[i]
    /\ \A c \in Polling : /\ Len(f[c]) = Len(q) - Len(s)
                         /\ \A i \in 1..Len(f[c]) : q[i] = f[c][i]

\* A consumer that does not poll has one object at most, and none when it runs
\* or is queued.
Handed(f, procs, states) ==
    \A c \in Consumers \ Polling :
        /\ Len(f[c]) \leq 1
        /\ states[c] = "running" \/ c \in Elements(procs) => f[c] = <<>>

\* LineInvariant, before and after a step, is the sum of these parts.
LineParts ==
    /\ Lined(posted, fullQueue.objects, fifo)
    /\ FlightSet = Elements(posted)
    /\ Handed(fifo, fullQueue.procs, pc)

\* The sequences LineMeans is about.
LEMMA SomeSequences ==
    ASSUME NEW O, NEW P, NEW D, P \subseteq D, NEW s \in Seq(O), NEW f \in [D -> Seq(O)]
    PROVE  Within(s, f, P) \subseteq O
<1>1. \A t \in Seq(O) : Elements(t) \subseteq O
  BY LenProperties, ElementOfSeq DEF Elements
<1> QED BY <1>1 DEF Within

\* LineInvariant in terms of the sequences and sets the steps change.
LEMMA LineMeans == QueueInvariant => (LineInvariant <=> LineParts)
<1> SUFFICES ASSUME QueueInvariant PROVE LineInvariant <=> LineParts
  OBVIOUS
<1>1. /\ posted \in Seq(Objects) /\ fullQueue.objects \in Seq(Objects)
      /\ fifo \in [Processes -> Seq(Objects)] /\ Consumers \subseteq Processes
      /\ Polling \subseteq Consumers
  BY InvariantParts, SystemResourceAssumption
     DEF OtherTypes, QueueParts, QueueTypes, Queues, Processes, SystemResourceAssumption
<1>2. /\ DOMAIN posted = 1..Len(posted) /\ DOMAIN fullQueue.objects = 1..Len(fullQueue.objects)
      /\ Len(posted) \in Nat /\ Len(fullQueue.objects) \in Nat
      /\ \A c \in Polling : DOMAIN fifo[c] = 1..Len(fifo[c])
  BY <1>1, LenProperties
<1>3. FlightSet \subseteq Objects
  BY <1>1, SomeSequences DEF FlightSet
<1>4. Elements(posted) \subseteq Objects
  BY <1>1, LenProperties, ElementOfSeq DEF Elements
<1>5. (\A o \in Objects : InFlight(o) <=> o \in Elements(posted)) <=> FlightSet = Elements(posted)
  BY <1>3, <1>4, PlaceSets
<1>6. LineIsInFlight <=>
        /\ Lined(posted, fullQueue.objects, fifo)
        /\ \A o \in Objects : InFlight(o) <=> o \in Elements(posted)
  <2> DEFINE a == Len(posted)
             b == Len(fullQueue.objects)
  <2>1. (a - b \geq 0) <=> (b \leq a)
    BY <1>2
  <2> QED BY <1>2, <2>1, Zenon DEF LineIsInFlight, Lined
<1>7. OneHandedOver <=> Handed(fifo, fullQueue.procs, pc)
  BY DEF OneHandedOver, Handed
<1> QED BY <1>5, <1>6, <1>7 DEF LineInvariant, LineParts

\* The same after a step.
LEMMA LineMeansNext == QueueInvariant' => (LineInvariant' <=> LineParts')
BY LineMeans, PTL

\* The assignment loop keeps the order in which objects were posted.
LEMMA LineAssign ==
    ASSUME SystemResourceAssumption, NEW r, OnePushed(r, Objects, Consumers),
           NEW f \in [Processes -> Seq(Objects)], NEW q \in Seq(Objects), NEW states,
           Lined(q, r.objects, f), NoDuplicate(r.procs), Handed(f, r.procs, states),
           \A c \in Consumers \ Polling : c \in Elements(r.procs) => states[c] # "running"
    PROVE  /\ Lined(q, Unmatched(r).objects, FifosAfter(r, f))
           /\ Handed(FifosAfter(r, f), Unmatched(r).procs, states)
<1> DEFINE u == Unmatched(r)
           g == FifosAfter(r, f)
           p == r.procs[1]
           o == r.objects[1]
           s == r.objects
           t == u.objects
<1>1. \/ u = r /\ g = f
      \/ p \in Consumers /\ o \in Objects /\ Moves(r, f, g, u)
  <2>1. Consumers \subseteq Processes
    BY DEF Processes
  <2>2. IsFiniteSet(Consumers)
    BY DEF SystemResourceAssumption
  <2> QED BY <2>1, AssignShape
<1>2. CASE u = r /\ g = f
  BY <1>2
<1>3. CASE p \in Consumers /\ o \in Objects /\ Moves(r, f, g, u)
  <2>1. /\ s \in Seq(Objects) /\ s # <<>> /\ t = SubSeq(s, 2, Len(s))
        /\ r.procs \in Seq(Consumers) /\ r.procs # <<>>
        /\ u.procs = SubSeq(r.procs, 2, Len(r.procs))
    BY <1>3 DEF Moves, OnePushed, Queues
  <2>2. /\ g = [f EXCEPT ![p] = Append(f[p], o)] /\ f[p] \in Seq(Objects) /\ p \in Processes
    BY <1>3 DEF Moves, Processes
  <2>3. g[p] = Append(f[p], o) /\ \A x \in Processes : x # p => g[x] = f[x]
    BY <2>2
  <2>4. /\ Elements(u.procs) = Elements(r.procs) \ {p} /\ p \in Elements(r.procs)
    BY <2>1, RestOfDistinct
  <2> DEFINE m == Len(s)
             n == Len(q)
  <2>5. m \in Nat /\ m > 0 /\ n \in Nat /\ m \leq n
    BY <2>1, LenProperties, EmptySeq DEF Lined
  <2>6. Len(t) = m - 1 /\ \A i \in 1..m - 1 : t[i] = s[i + 1]
    <3>1. Len(Tail(s)) = Len(s) - 1 /\ \A i \in 1..Len(Tail(s)) : Tail(s)[i] = s[i + 1]
      BY <2>1, HeadTailProperties
    <3>2. t = Tail(s)
      BY <2>1, TailIsSubSeq
    <3> HIDE DEF t, s
    <3> QED BY <3>1, <3>2
  <2>7. /\ Len(g[p]) = Len(f[p]) + 1 /\ g[p][Len(f[p]) + 1] = o
        /\ \A i \in 1..Len(f[p]) : g[p][i] = f[p][i]
    BY <1>3, <2>2, <2>3, AppendProperties
  <2>8. Len(f[p]) \in Nat
    BY <2>2, LenProperties
  <2>9. /\ NoDuplicate(q)
        /\ \A i \in 1..m : q[n - m + i] = s[i]
        /\ \A c \in Polling : /\ Len(f[c]) = n - m
                             /\ \A i \in 1..Len(f[c]) : q[i] = f[c][i]
    BY DEF Lined
  <2>10. \A c \in Polling : c = p
    BY <1>3 DEF SystemResourceAssumption
  <2>11. p \notin Polling => f[p] = <<>> /\ states[p] # "running"
    BY <1>3, <2>4 DEF Handed
  <2> HIDE DEF g, t, p, s, u, m, n
  <2>12. \A i \in 1..m - 1 : q[n - (m - 1) + i] = t[i]
    <3> TAKE i \in 1..m - 1
    <3>1. i + 1 \in 1..m /\ n - (m - 1) + i = n - m + (i + 1)
      BY <2>5
    <3> QED BY <2>6, <2>9, <3>1
  <2>13. o = q[n - m + 1]
    <3>1. 1 \in 1..m
      BY <2>5
    <3> QED BY <2>9, <3>1 DEF s
  <2>14. ASSUME NEW c \in Polling
         PROVE  Len(g[c]) = n - (m - 1) /\ \A i \in 1..Len(g[c]) : q[i] = g[c][i]
    <3>1. c = p /\ Len(f[p]) = n - m /\ \A i \in 1..Len(f[p]) : q[i] = f[p][i]
      BY <2>9, <2>10
    <3>2. Len(g[p]) = n - (m - 1)
      BY <2>5, <2>7, <3>1
    <3>3. ASSUME NEW i \in 1..Len(g[p]) PROVE q[i] = g[p][i]
      <4>1. i \in 1..Len(f[p]) \/ i = Len(f[p]) + 1
        BY <2>7, <2>8
      <4> QED BY <2>7, <2>13, <3>1, <4>1
    <3> QED BY <3>1, <3>2, <3>3
  <2>15. Lined(q, t, g)
    <3>1. m - 1 \leq n
      BY <2>5
    <3> QED BY <2>6, <2>9, <2>12, <2>14, <3>1 DEF Lined, n
  <2>16. Handed(g, u.procs, states)
    <3> SUFFICES ASSUME NEW c \in Consumers \ Polling
                 PROVE  /\ Len(g[c]) \leq 1
                        /\ states[c] = "running" \/ c \in Elements(u.procs) => g[c] = <<>>
      BY DEF Handed
    <3>1. CASE c = p
      <4>1. Len(<<>>) = 0
        OBVIOUS
      <4>2. Len(g[p]) = 1
        BY <2>7, <2>11, <3>1, <4>1
      <4> QED BY <2>4, <2>11, <3>1, <4>2
    <3>2. CASE c # p
      <4>1. g[c] = f[c]
        BY <2>3, <3>2 DEF Processes
      <4> QED BY <2>4, <4>1 DEF Handed
    <3> QED BY <3>1, <3>2
  <2> QED BY <2>15, <2>16 DEF g, t, u
<1> QED BY <1>1, <1>2, <1>3

\* What a step may rely on for the order of the posted objects.
InLine ==
    /\ Ready
    /\ QueueInvariant'
    /\ LineInvariant /\ LineParts
    /\ fifo \in [Processes -> Seq(Objects)] /\ fullQueue.objects \in Seq(Objects)
    /\ posted \in Seq(Objects) /\ Consumers \subseteq Processes

\* The invariants give all that a step may rely on for the order.
LEMMA LineIsReady ==
    SystemResourceAssumption /\ QueueInvariant /\ QueueInvariant' /\ Custody /\ LineInvariant => InLine
<1> SUFFICES ASSUME SystemResourceAssumption, QueueInvariant, QueueInvariant', Custody, LineInvariant
             PROVE  InLine
  OBVIOUS
<1>1. Ready
  BY CustodyIsReady
<1>2. LineParts
  BY LineMeans
<1>3. /\ fifo \in [Processes -> Seq(Objects)] /\ fullQueue.objects \in Seq(Objects)
      /\ posted \in Seq(Objects) /\ Consumers \subseteq Processes
  BY <1>1 DEF Ready, OtherTypes, QueueParts, QueueTypes, Queues, Processes
<1> QED BY <1>1, <1>2, <1>3 DEF InLine

\* Steps that leave the full queue, its FIFOs and the posted objects alone.
LEMMA QuietLine ==
    ASSUME InLine, fullQueue' = fullQueue, posted' = posted,
           \A c \in Consumers : fifo'[c] = fifo[c],
           \A c \in Consumers \ Polling : pc'[c] = "running" => pc[c] = "running"
    PROVE  LineInvariant'
<1>1. LineParts /\ Polling \subseteq Consumers
  BY DEF InLine, Ready, SystemResourceAssumption
<1>2. FlightSet' = FlightSet
  BY StrungAlone DEF FlightSet
<1>3. Lined(posted, fullQueue.objects, fifo)'
  BY <1>1 DEF LineParts, Lined
<1>4. Handed(fifo, fullQueue.procs, pc)'
  BY <1>1 DEF LineParts, Handed
<1>5. LineParts'
  BY <1>1, <1>2, <1>3, <1>4 DEF LineParts
<1> QED BY <1>5, LineMeansNext DEF InLine

\* The empty queue's assignments reach no consumer.
LEMMA EmptyKeepsConsumers ==
    ASSUME SystemResourceAssumption, QueueTypes, NEW r, r.procs \in Seq(Producers), AssignEmpty(r)
    PROVE  fullQueue' = fullQueue /\ \A c \in Consumers : fifo'[c] = fifo[c]
<1>1. fullQueue' = fullQueue /\ fifo' = FifosAfter(r, fifo)
  BY DEF AssignEmpty
<1>2. DOMAIN r.procs = 1..Len(r.procs) /\ (\A i \in 1..Len(r.procs) : r.procs[i] \in Producers)
      /\ Len(r.procs) \in Nat
  BY LenProperties, ElementOfSeq
<1>3. \A i \in 1..Matches(r) : i \in 1..Len(r.procs)
  <2>1. CASE Len(r.objects) < Len(r.procs)
    <3>1. Matches(r) = Len(r.objects)
      BY <2>1 DEF Matches
    <3> QED BY <1>2, <2>1, <3>1
  <2>2. CASE ~(Len(r.objects) < Len(r.procs))
    BY <2>2 DEF Matches
  <2> QED BY <2>1, <2>2
<1>4. Served(r) \subseteq Producers
  BY <1>2, <1>3 DEF Served
<1>5. ASSUME NEW c \in Consumers PROVE fifo'[c] = fifo[c]
  <2>1. c \in Processes /\ c \notin Served(r)
    BY <1>4 DEF Processes, SystemResourceAssumption
  <2>2. DOMAIN fifo = Processes
    BY DEF QueueTypes
  <2> QED BY <1>1, <2>1, <2>2 DEF FifosAfter
<1> QED BY <1>1, <1>5

\* svt_release_object reaches no consumer.
LEMMA ReleaseKeepsConsumers ==
    ASSUME Ready, NEW o, ReleaseObject(o)
    PROVE  fullQueue' = fullQueue /\ \A c \in Consumers : fifo'[c] = fifo[c]
<1>1. SystemResourceAssumption /\ QueueTypes /\ emptyQueue \in Queues(Objects, Producers)
  BY DEF Ready, QueueParts, QueueTypes
<1>2. CASE Frees(o)
  <2> DEFINE r == QueueObjectFront(emptyQueue, o, ObjectCount)
  <2>1. r.procs \in Seq(Producers)
    BY <1>1 DEF QueueObjectFront, Queues
  <2>2. AssignEmpty(r)
    BY <1>2 DEF ReleaseObject
  <2> HIDE DEF r
  <2> QED BY <1>1, <2>1, <2>2, EmptyKeepsConsumers
<1>3. CASE ~Frees(o)
  BY <1>3 DEF ReleaseObject, queueVars
<1> QED BY <1>2, <1>3

\* What a producer does besides posting reaches no consumer.
LEMMA ProducerKeepsConsumers ==
    ASSUME InLine, NEW p \in Producers,
           \/ RequestEmpty(p) \/ TakeEmpty(p) \/ (\E o \in Objects : Pin(p, o))
           \/ Unpin(p) \/ CheckIdle(p) \/ Retire(p)
    PROVE  fullQueue' = fullQueue /\ \A c \in Consumers : fifo'[c] = fifo[c]
<1>1. /\ Ready /\ SystemResourceAssumption /\ QueueTypes /\ p \in Processes
      /\ \A c \in Consumers : c \in Processes /\ c # p
  BY DEF InLine, Ready, QueueParts, Processes, SystemResourceAssumption
<1>2. CASE RequestEmpty(p)
  <2>1. RoomFor(emptyQueue, p, Producers)
    <3>1. pc[p] = "running"
      BY <1>2 DEF RequestEmpty
    <3> QED BY <1>1, <3>1 DEF Ready, QueueParts, ProcessBufferSuffices, RoomFor, NoDuplicate
  <2>2. /\ emptyQueue \in Queues(Objects, Producers) /\ Settled(emptyQueue) /\ IsFiniteSet(Producers)
    BY <1>1 DEF Ready, QueueParts, QueueTypes, NoIdleMatch, Settled, SystemResourceAssumption
  <2> DEFINE r == QueueProcess(emptyQueue, p, Cardinality(Producers))
  <2>3. OnePushed(r, Objects, Producers)
    BY <2>1, <2>2, QueueProcessPushes
  <2>4. AssignEmpty(r)
    BY <1>2 DEF RequestEmpty
  <2> HIDE DEF r
  <2>5. r.procs \in Seq(Producers)
    BY <2>3 DEF OnePushed, Queues
  <2> QED BY <1>1, <2>4, <2>5, EmptyKeepsConsumers
<1>3. CASE TakeEmpty(p)
  BY <1>1, <1>3 DEF TakeEmpty, QueueTypes
<1>4. CASE (\E o \in Objects : Pin(p, o)) \/ Unpin(p) \/ CheckIdle(p)
  BY <1>4 DEF Pin, Unpin, CheckIdle, queueVars
<1>5. CASE Retire(p)
  BY <1>1, <1>5, ReleaseKeepsConsumers DEF Retire
<1> QED BY <1>2, <1>3, <1>4, <1>5

\* So it leaves the line alone.
LEMMA ProducerLine ==
    ASSUME InLine, NEW p \in Producers,
           \/ RequestEmpty(p) \/ TakeEmpty(p) \/ (\E o \in Objects : Pin(p, o))
           \/ Unpin(p) \/ CheckIdle(p) \/ Retire(p)
    PROVE  LineInvariant'
<1>1. OtherTypes /\ p \in Processes /\ \A c \in Consumers : c \in Processes /\ c # p
  BY DEF InLine, Ready, Processes, SystemResourceAssumption
<1>2. \A c \in Consumers : pc'[c] = pc[c]
  BY <1>1 DEF RequestEmpty, TakeEmpty, Pin, Unpin, CheckIdle, Retire, OtherTypes
<1>3. posted' = posted
  BY DEF RequestEmpty, TakeEmpty, Pin, Unpin, CheckIdle, Retire
<1>4. fullQueue' = fullQueue /\ \A c \in Consumers : fifo'[c] = fifo[c]
  BY ProducerKeepsConsumers
<1> QED BY <1>2, <1>3, <1>4, QuietLine

\* So does counting and releasing references.
LEMMA ReferenceLine ==
    ASSUME InLine, NEW o \in Objects,
           \/ \E p \in Processes : Release(p, o) \/ \E n \in 1..MaxShared + 1 : AddReferences(p, o, n)
           \/ ReleaseShared(o)
    PROVE  LineInvariant'
<1>1. pc' = pc /\ posted' = posted
  BY DEF Release, AddReferences, ReleaseShared
<1>2. fullQueue' = fullQueue /\ \A c \in Consumers : fifo'[c] = fifo[c]
  <2>1. ReleaseObject(o) \/ UNCHANGED queueVars
    BY DEF Release, AddReferences, ReleaseShared
  <2>2. CASE ReleaseObject(o)
    BY <2>2, ReleaseKeepsConsumers DEF InLine
  <2>3. CASE UNCHANGED queueVars
    BY <2>3 DEF queueVars
  <2> QED BY <2>1, <2>2, <2>3
<1> QED BY <1>1, <1>2, QuietLine

\* So do the steps of a consumer that push and pop nothing.
LEMMA OtherConsumerLine ==
    ASSUME InLine, NEW c \in Consumers,
           WakeFull(c) \/ Leave(c) \/ Peek(c) \/ ShutDown(c)
    PROVE  LineInvariant'
<1>1. fullQueue' = fullQueue /\ fifo' = fifo /\ posted' = posted
  BY DEF WakeFull, Leave, Peek, ShutDown, queueVars
<1>2. \A d \in Consumers \ Polling : pc'[d] = "running" => pc[d] = "running"
  <2>1. Peek(c) => c \in Polling
    BY DEF Peek, InLine, Ready, CallsWellFormed
  <2>2. OtherTypes /\ Consumers \subseteq Processes
    BY DEF InLine, Ready
  <2> QED BY <2>1, <2>2 DEF WakeFull, Leave, Peek, ShutDown, OtherTypes
<1> QED BY <1>1, <1>2, QuietLine

\* Steps that push on the full queue.
LEMMA FullLine ==
    ASSUME InLine, NEW r, OnePushed(r, Objects, Consumers), AssignFull(r),
           Strung(r.objects, fifo, Consumers),
           Lined(posted', r.objects, fifo),
           Within(r.objects, fifo, Consumers) = Elements(posted'),
           Handed(fifo, r.procs, pc'),
           \A c \in Consumers \ Polling : c \in Elements(r.procs) => pc'[c] # "running"
    PROVE  LineInvariant'
<1>1. /\ SystemResourceAssumption /\ QueueTypes /\ fifo \in [Processes -> Seq(Objects)]
      /\ Strung(emptyQueue.objects, fifo, Producers)
  BY DEF InLine, Ready, QueueParts, PlacesStrung
<1>2. fullQueue' = Unmatched(r) /\ fifo' = FifosAfter(r, fifo)
  BY DEF AssignFull
<1>3. FlightSet' = Within(r.objects, fifo, Consumers)
  BY <1>1, AssignFullMoves
<1>4. posted' \in Seq(Objects) /\ NoDuplicate(r.procs)
  BY InvariantParts DEF InLine, OtherTypes, OnePushed
<1>5. /\ Lined(posted', Unmatched(r).objects, FifosAfter(r, fifo))
      /\ Handed(FifosAfter(r, fifo), Unmatched(r).procs, pc')
  BY <1>1, <1>4, LineAssign
<1>6. LineParts'
  BY <1>2, <1>3, <1>5 DEF LineParts
<1> QED BY <1>6, LineMeansNext DEF InLine

\* Who is queued and does not poll does not run.
LEMMA QueuedAreStopped ==
    ASSUME InLine, NEW c \in Consumers \ Polling, c \in Elements(fullQueue.procs)
    PROVE  pc[c] # "running"
BY DEF InLine, Ready, QueueParts, ProcessBufferSuffices

\* The posted object is the last in line, and in flight.
LEMMA PostLine ==
    ASSUME InLine, NEW p \in Processes, NEW o \in Objects, Post(p, o)
    PROVE  LineInvariant'
<1> DEFINE r == QueueObjectBack(fullQueue, o)
           q == posted
           s == fullQueue.objects
           m == Len(s)
           n == Len(q)
<1>1. /\ AssignFull(r) /\ o \in holding[p] /\ posted' = Append(q, o) /\ pc' = pc
  BY DEF Post
<1>2. /\ q \in Seq(Objects) /\ s \in Seq(Objects) /\ Lined(q, s, fifo)
      /\ FlightSet = Elements(q) /\ Handed(fifo, fullQueue.procs, pc)
      /\ m \in Nat /\ n \in Nat
  BY LenProperties DEF InLine, LineParts
<1>3. o \notin FlightSet
  BY <1>1, HeldIsOut, PlaceSets DEF InLine
<1>4. OnePushed(r, Objects, Consumers) /\ r.procs = fullQueue.procs /\ r.objects = Append(s, o)
  <2>1. /\ fullQueue \in Queues(Objects, Consumers) /\ Settled(fullQueue)
        /\ NoDuplicate(fullQueue.procs)
    BY DEF InLine, Ready, QueueParts, QueueTypes, NoIdleMatch, Settled, ProcessBufferSuffices, NoDuplicate
  <2>2. r.objects = Append(s, o)
    BY <2>1 DEF QueueObjectBack, Queues
  <2> QED BY <2>1, <2>2, QueueObjectBackPushes
<1>5. Holds(Append(s, o), fifo, Consumers, FlightSet \cup {o})
  <2>1. Strung(s, fifo, Consumers) /\ o \notin Within(s, fifo, Consumers)
    BY <1>3 DEF InLine, Ready, PlacesStrung, FlightSet
  <2> QED BY <1>2, <2>1, StrungBack DEF FlightSet
<1>6. Elements(Append(q, o)) = Elements(q) \cup {o} /\ NoDuplicate(Append(q, o))
  BY <1>2, <1>3, AppendElements DEF Lined
<1>7. /\ Len(Append(q, o)) = n + 1 /\ Append(q, o)[n + 1] = o
      /\ \A i \in 1..n : Append(q, o)[i] = q[i]
  BY <1>2, AppendProperties
<1>8. /\ Len(Append(s, o)) = m + 1 /\ Append(s, o)[m + 1] = o
      /\ \A i \in 1..m : Append(s, o)[i] = s[i]
  BY <1>2, AppendProperties
<1>9. /\ m \leq n /\ \A i \in 1..m : q[n - m + i] = s[i]
      /\ \A c \in Polling : Len(fifo[c]) = n - m /\ \A i \in 1..Len(fifo[c]) : q[i] = fifo[c][i]
  BY <1>2 DEF Lined
<1> HIDE DEF r, q, s, m, n
<1>10. Lined(Append(q, o), Append(s, o), fifo)
  <2> DEFINE t == Append(s, o)
             u == Append(q, o)
  <2> HIDE DEF t, u
  <2>1. ASSUME NEW i \in 1..m + 1 PROVE u[(n + 1) - (m + 1) + i] = t[i]
    <3>1. CASE i = m + 1
      <4>1. (n + 1) - (m + 1) + i = n + 1
        BY <1>2, <3>1
      <4> QED BY <1>7, <1>8, <3>1, <4>1 DEF t, u
    <3>2. CASE i # m + 1
      <4>1. i \in 1..m /\ (n + 1) - (m + 1) + i = n - m + i /\ n - m + i \in 1..n
        BY <1>2, <1>9, <3>2
      <4> QED BY <1>7, <1>8, <1>9, <4>1 DEF t, u
    <3> QED BY <3>1, <3>2
  <2>2. ASSUME NEW c \in Polling
        PROVE  Len(fifo[c]) = (n + 1) - (m + 1) /\ \A i \in 1..Len(fifo[c]) : u[i] = fifo[c][i]
    <3>1. Len(fifo[c]) = n - m /\ n - m \leq n /\ (n + 1) - (m + 1) = n - m
      BY <1>2, <1>9, <2>2
    <3>2. \A i \in 1..n - m : i \in 1..n
      BY <1>2, <1>9
    <3> QED BY <1>7, <1>9, <3>1, <3>2 DEF u
  <2>3. m + 1 \leq n + 1
    BY <1>2, <1>9
  <2>4. Len(u) = n + 1 /\ Len(t) = m + 1 /\ NoDuplicate(u)
    BY <1>6, <1>7, <1>8 DEF t, u
  <2>5. Lined(u, t, fifo)
    BY <2>1, <2>2, <2>3, <2>4 DEF Lined
  <2> QED BY <2>5 DEF t, u
<1>11. Strung(r.objects, fifo, Consumers) /\ Within(r.objects, fifo, Consumers) = Elements(posted')
  BY <1>1, <1>2, <1>4, <1>5, <1>6 DEF Holds
<1>12. \A c \in Consumers \ Polling : c \in Elements(r.procs) => pc'[c] # "running"
  BY <1>1, <1>4, QueuedAreStopped
<1>13. Lined(posted', r.objects, fifo) /\ Handed(fifo, r.procs, pc')
  BY <1>1, <1>2, <1>4, <1>10
<1> QED BY <1>1, <1>4, <1>11, <1>12, <1>13, FullLine

\* Asking for a full object queues the consumer.
LEMMA FullRequestPushes ==
    ASSUME InLine, NEW c \in Consumers, RequestFull(c) \/ Poll(c),
           NEW r, r = QueueProcess(fullQueue, c, Cardinality(Consumers))
    PROVE  OnePushed(r, Objects, Consumers) /\ Elements(r.procs) = Elements(fullQueue.procs) \cup {c}
<1>1. pc[c] = "running" \/ c \in Polling
  BY DEF RequestFull, Poll, InLine, Ready, CallsWellFormed
<1>2. c \in Polling => Consumers = {c}
  BY DEF InLine, Ready, SystemResourceAssumption
<1>3. RoomFor(fullQueue, c, Consumers)
  BY <1>1, <1>2 DEF InLine, Ready, QueueParts, ProcessBufferSuffices, RoomFor, NoDuplicate
<1>4. fullQueue \in Queues(Objects, Consumers) /\ Settled(fullQueue) /\ IsFiniteSet(Consumers)
  BY DEF InLine, Ready, QueueParts, QueueTypes, NoIdleMatch, Settled, SystemResourceAssumption
<1> QED BY <1>3, <1>4, QueueProcessPushes

\* It assigns the first that is not assigned yet.
LEMMA RequestLine ==
    ASSUME InLine, NEW c \in Consumers, RequestFull(c) \/ Poll(c)
    PROVE  LineInvariant'
<1> DEFINE r == QueueProcess(fullQueue, c, Cardinality(Consumers))
<1>1. AssignFull(r) /\ posted' = posted
  BY DEF RequestFull, Poll
<1>2. pc[c] = "running" \/ c \in Polling
  BY DEF RequestFull, Poll, InLine, Ready, CallsWellFormed
<1>4. OnePushed(r, Objects, Consumers) /\ Elements(r.procs) = Elements(fullQueue.procs) \cup {c}
  BY FullRequestPushes
<1>5. r.objects = fullQueue.objects
  BY DEF QueueProcess, InLine, Ready, QueueParts, QueueTypes, Queues
<1> HIDE DEF r
<1>6. \A d \in Consumers : pc'[d] = IF d = c THEN pc'[c] ELSE pc[d]
  BY DEF RequestFull, Poll, InLine, Ready, OtherTypes
<1>7. c \notin Polling => pc'[c] = "waiting" /\ pc[c] = "running"
  BY <1>2 DEF RequestFull, Poll, InLine, Ready, OtherTypes
<1>8. \A d \in Consumers \ Polling : d \in Elements(r.procs) => pc'[d] # "running"
  BY <1>4, <1>6, <1>7, QueuedAreStopped
<1>9. Handed(fifo, r.procs, pc')
  BY <1>4, <1>6, <1>7 DEF InLine, LineParts, Handed
<1>10. /\ Lined(posted', r.objects, fifo) /\ Strung(r.objects, fifo, Consumers)
       /\ Within(r.objects, fifo, Consumers) = Elements(posted')
  BY <1>1, <1>5 DEF InLine, LineParts, FlightSet, Ready, PlacesStrung
<1> QED BY <1>1, <1>4, <1>8, <1>9, <1>10, FullLine

\* What svt_get_full_object takes is one of the posted objects that are assigned,
\* for a polling consumer the first.
Receives(c, i) ==
    /\ i \in 1..Len(posted) - Len(fullQueue.objects)
    /\ posted[i] = Head(fifo[c])
    /\ c \in Polling => i = 1
    /\ posted' = SubSeq(posted, 1, i - 1) \o SubSeq(posted, i + 1, Len(posted))
    /\ DropsAt(posted, posted', i)

\* A woken consumer that was not shut down finds an object.
LEMMA WokenFindsObject ==
    ASSUME Ready, NEW c \in Consumers, TakeFull(c)
    PROVE  /\ fifo[c] \in Seq(Objects) /\ fifo[c] # <<>>
           /\ Head(fifo[c]) \in Elements(fifo[c]) /\ Head(fifo[c]) \in FlightSet
           /\ Head(fifo[c]) \notin Elements(fullQueue.objects) /\ Head(fifo[c]) \in Objects
           /\ Head(fifo[c]) = fifo[c][1]
<1>1. /\ (IF pc[c] = "woken" THEN 1 ELSE 0) = 1
      /\ (IF quit[c] /\ pc[c] # "stopped" THEN 1 ELSE 0) = 0
  BY Zenon DEF TakeFull
<1>2. semaphore[c] + 1 = Len(fifo[c]) + 0
  BY <1>1, Zenon DEF Ready, QueueParts, SemaphoreCountsObjects
<1>3. semaphore[c] \in Nat /\ Len(<<>>) = 0 /\ fifo[c] \in Seq(Objects)
  BY DEF Ready, QueueParts, QueueTypes, Processes
<1>4. fifo[c] # <<>>
  BY <1>2, <1>3
<1>5. Strung(fullQueue.objects, fifo, Consumers)
  BY DEF Ready, PlacesStrung
<1>6. fifo[c][1] \in Elements(fifo[c]) /\ fifo[c][1] \in Objects
  BY <1>3, <1>4, <1>5, RestOfDistinct DEF Strung
<1>7. Head(fifo[c]) = fifo[c][1]
  BY <1>3, <1>4
<1>8. fifo[c][1] \in FlightSet /\ fifo[c][1] \notin Elements(fullQueue.objects)
  BY <1>5, <1>6 DEF FlightSet, Within, Strung
<1> QED BY <1>3, <1>4, <1>6, <1>7, <1>8

\* It is one of the assigned objects, and not in line twice.
LEMMA WhichIsReceived ==
    ASSUME InLine, NEW c \in Consumers, TakeFull(c)
    PROVE  \E i \in 1..Len(posted) : Receives(c, i)
<1> DEFINE q == posted
           s == fullQueue.objects
           m == Len(s)
           n == Len(q)
           o == Head(fifo[c])
<1>1. /\ q \in Seq(Objects) /\ s \in Seq(Objects) /\ Lined(q, s, fifo)
      /\ FlightSet = Elements(q)
      /\ m \in Nat /\ n \in Nat /\ DOMAIN q = 1..n /\ DOMAIN s = 1..m
  BY LenProperties DEF InLine, LineParts
<1>2. /\ fifo[c] \in Seq(Objects) /\ fifo[c] # <<>>
      /\ o \in FlightSet /\ o \notin Elements(s) /\ o \in Objects /\ o = fifo[c][1]
  BY WokenFindsObject DEF InLine
<1>3. posted' = Without(q, o)
  BY DEF TakeFull
<1>4. 1 \in 1..Len(fifo[c])
  <2>1. Len(fifo[c]) \in Nat /\ Len(fifo[c]) # 0
    BY <1>2, LenProperties, EmptySeq
  <2> QED BY <2>1
<1> HIDE DEF q, s, m, n, o
<1>5. PICK i \in 1..n : q[i] = o
  <2>1. o \in Elements(q)
    BY <1>1, <1>2
  <2>2. PICK k \in DOMAIN q : q[k] = o
    BY <2>1, Zenon DEF Elements
  <2> QED BY <1>1, <2>2
<1>6. NoDuplicate(q) /\ m \leq n /\ (\A j \in 1..m : q[n - m + j] = s[j])
      /\ \A d \in Polling : \A j \in 1..Len(fifo[d]) : q[j] = fifo[d][j]
  BY <1>1, Zenon DEF Lined, m, n
<1>7. i \in 1..n - m
  <2> SUFFICES ASSUME i > n - m PROVE FALSE
    BY <1>1, <1>5, <1>6
  <2>1. i - (n - m) \in 1..m /\ n - m + (i - (n - m)) = i
    BY <1>1, <1>5, <1>6
  <2>2. s[i - (n - m)] = o
    BY <1>5, <1>6, <2>1
  <2> QED BY <1>1, <1>2, <2>1, <2>2 DEF Elements
<1>8. c \in Polling => i = 1
  <2>1. c \in Polling => q[1] = o
    BY <1>2, <1>4, <1>6
  <2>2. 1 \in 1..n
    BY <1>1, <1>5
  <2> QED BY <1>1, <1>5, <1>6, <2>1, <2>2 DEF NoDuplicate
<1>9. /\ Without(q, q[i]) = SubSeq(q, 1, i - 1) \o SubSeq(q, i + 1, Len(q))
      /\ DropsAt(q, Without(q, q[i]), i)
  BY <1>1, <1>5, <1>6, WithoutDistinct DEF n
<1> QED BY <1>3, <1>5, <1>7, <1>8, <1>9 DEF Receives, q, s, m, n, o

\* Receiving it leaves the others in line as they were.
LEMMA TakeFullLine ==
    ASSUME InLine, NEW c \in Consumers, TakeFull(c)
    PROVE  LineInvariant'
<1>0. PICK o : o = Head(fifo[c])
  OBVIOUS
<1>1. PICK i \in 1..Len(posted) : Receives(c, i)
  BY WhichIsReceived
<1>2. PICK g : g = fifo'
  OBVIOUS
<1>3. /\ fifo' = [fifo EXCEPT ![c] = Tail(fifo[c])] /\ pc' = [pc EXCEPT ![c] = "running"]
      /\ fullQueue' = fullQueue
  BY DEF TakeFull
<1>4. /\ fifo[c] \in Seq(Objects) /\ fifo[c] # <<>> /\ c \in Processes
      /\ fullQueue.objects \in Seq(Objects) /\ Consumers \subseteq Processes
      /\ fifo \in [Processes -> Seq(Objects)] /\ Lined(posted, fullQueue.objects, fifo)
      /\ Handed(fifo, fullQueue.procs, pc) /\ FlightSet = Elements(posted)
      /\ Strung(fullQueue.objects, fifo, Consumers)
      /\ posted \in Seq(Objects) /\ \A d \in Polling, e \in Consumers : d = e
  BY WokenFindsObject DEF InLine, LineParts, Processes, Ready, PlacesStrung, SystemResourceAssumption
<1>5. FlightSet' = FlightSet \ {o}
  <2>1. Holds(fullQueue.objects, [fifo EXCEPT ![c] = Tail(fifo[c])], Consumers,
              Within(fullQueue.objects, fifo, Consumers) \ {Head(fifo[c])})
    BY <1>4, StrungTake
  <2> QED BY <1>0, <1>3, <2>1 DEF FlightSet, Holds
<1>6. FlightSet' = Elements(posted')
  BY <1>0, <1>1, <1>4, <1>5 DEF Receives, DropsAt
<1>7. /\ Tail(fifo[c]) \in Seq(Objects) /\ Len(Tail(fifo[c])) = Len(fifo[c]) - 1
      /\ \A j \in 1..Len(Tail(fifo[c])) : Tail(fifo[c])[j] = fifo[c][j + 1]
      /\ Len(fifo[c]) \in Nat /\ Len(fifo[c]) > 0
  BY <1>4, HeadTailProperties, LenProperties, EmptySeq
<1>8. g[c] = Tail(fifo[c]) /\ \A d \in Consumers : d # c => g[d] = fifo[d]
  BY <1>2, <1>3, <1>4
<1>9. Lined(posted', fullQueue.objects, g)
  <2> DEFINE q == posted
             t == posted'
             s == fullQueue.objects
             m == Len(s)
             n == Len(q)
  <2>1. /\ m \in Nat /\ n \in Nat /\ m \leq n
        /\ \A j \in 1..m : q[n - m + j] = s[j]
        /\ \A d \in Polling : /\ Len(fifo[d]) = n - m
                             /\ \A j \in 1..Len(fifo[d]) : q[j] = fifo[d][j]
    BY <1>4, LenProperties DEF Lined
  <2>2. /\ i \in 1..n - m /\ (c \in Polling => i = 1)
        /\ Len(t) = n - 1 /\ NoDuplicate(t)
        /\ \A j \in 1..n - 1 : t[j] = IF j < i THEN q[j] ELSE q[j + 1]
    BY <1>1 DEF Receives, DropsAt
  <2> HIDE DEF q, t, s, m, n
  <2>3. ASSUME NEW j \in 1..m PROVE t[(n - 1) - m + j] = s[j]
    <3>1. /\ (n - 1) - m + j \in 1..n - 1 /\ ~((n - 1) - m + j < i)
          /\ (n - 1) - m + j + 1 = n - m + j
      BY <2>1, <2>2
    <3>2. t[(n - 1) - m + j] = q[(n - 1) - m + j + 1]
      BY <2>2, <3>1
    <3> QED BY <2>1, <3>1, <3>2
  <2>4. ASSUME NEW d \in Polling
        PROVE  Len(g[d]) = (n - 1) - m /\ \A j \in 1..Len(g[d]) : t[j] = g[d][j]
    <3>1. d = c /\ i = 1 /\ Len(fifo[c]) = n - m /\ \A j \in 1..Len(fifo[c]) : q[j] = fifo[c][j]
      BY <1>4, <2>1, <2>2, <2>4
    <3>2. Len(g[c]) = (n - 1) - m
      BY <1>7, <1>8, <2>1, <3>1
    <3>3. ASSUME NEW j \in 1..Len(g[c]) PROVE t[j] = g[c][j]
      <4>1. j + 1 \in 1..Len(fifo[c]) /\ j \in 1..n - 1 /\ ~(j < i)
        BY <1>7, <1>8, <2>1, <3>1
      <4> QED BY <1>7, <1>8, <2>2, <3>1, <4>1
    <3> QED BY <3>1, <3>2, <3>3
  <2>5. m \leq n - 1
    BY <2>1, <2>2
  <2>6. Lined(t, s, g)
    BY <2>2, <2>3, <2>4, <2>5 DEF Lined, m
  <2> QED BY <2>6 DEF t, s
<1>10. Handed(g, fullQueue.procs, pc')
  <2> SUFFICES ASSUME NEW d \in Consumers \ Polling
               PROVE  /\ Len(g[d]) \leq 1
                      /\ pc'[d] = "running" \/ d \in Elements(fullQueue.procs) => g[d] = <<>>
    BY DEF Handed
  <2>1. CASE d = c
    <3>1. Len(fifo[c]) \leq 1
      BY <1>4, <2>1 DEF Handed
    <3> DEFINE k == Len(fifo[c])
               l == Len(Tail(fifo[c]))
    <3>2. Len(g[c]) = 0
      <4>1. l = k - 1 /\ k \in Nat /\ k > 0 /\ k \leq 1
        BY <1>7, <3>1
      <4>2. Len(g[c]) = l
        BY <1>8
      <4> HIDE DEF k, l
      <4> QED BY <4>1, <4>2
    <3> HIDE DEF k, l
    <3>3. g[c] = <<>>
      BY <1>7, <1>8, <3>2, EmptySeq
    <3> QED BY <2>1, <3>2, <3>3
  <2>2. CASE d # c
    <3>1. pc'[d] = pc[d]
      BY <1>3, <1>4, <2>2 DEF InLine, Ready, OtherTypes
    <3> QED BY <1>4, <1>8, <2>2, <3>1 DEF Handed
  <2> QED BY <2>1, <2>2
<1>11. LineParts'
  BY <1>2, <1>3, <1>6, <1>9, <1>10 DEF LineParts
<1> QED BY <1>11, LineMeansNext DEF InLine

\* At first nothing is posted.
LEMMA InitialLine == SystemResourceAssumption /\ Init => LineInvariant
<1> SUFFICES ASSUME SystemResourceAssumption, Init PROVE LineInvariant
  OBVIOUS
<1>1. /\ posted = <<>> /\ fullQueue.objects = <<>> /\ fullQueue.procs = <<>>
      /\ \A x \in Processes : fifo[x] = <<>>
  BY DEF Init, EmptyMuxingQueue
<1>2. Elements(<<>>) = {} /\ DOMAIN <<>> = {} /\ Len(<<>>) = 0 /\ 1..0 = {}
  BY DEF Elements
<1>3. Polling \subseteq Consumers /\ Consumers \subseteq Processes
  BY DEF SystemResourceAssumption, Processes
<1>4. Lined(posted, fullQueue.objects, fifo)
  BY <1>1, <1>2, <1>3 DEF Lined, NoDuplicate
<1>5. FlightSet = Elements(posted)
  BY <1>1, <1>2, <1>3 DEF FlightSet, Within
<1>6. Handed(fifo, fullQueue.procs, pc)
  BY <1>1, <1>2, <1>3 DEF Handed
<1>7. QueueInvariant
  BY InitialStates
<1> QED BY <1>4, <1>5, <1>6, <1>7, LineMeans DEF LineParts

\* Every step of the resource keeps the posted objects in order.
LEMMA StepsKeepLine ==
    SystemResourceAssumption /\ QueueInvariant /\ QueueInvariant' /\ Custody
    /\ LineInvariant /\ [Next]_vars => LineInvariant'
<1> SUFFICES ASSUME SystemResourceAssumption, QueueInvariant, QueueInvariant', Custody,
                    LineInvariant, [Next]_vars
             PROVE  LineInvariant'
  OBVIOUS
<1>0. InLine
  BY LineIsReady
<1>1. CASE \E p \in Producers : ProducerStep(p)
  <2>1. PICK p \in Producers : ProducerStep(p)
    BY <1>1
  <2>2. p \in Processes
    BY DEF Processes
  <2>3. CASE \E o \in Objects : Post(p, o)
    BY <1>0, <2>2, <2>3, PostLine
  <2>4. CASE \/ RequestEmpty(p) \/ TakeEmpty(p) \/ (\E o \in Objects : Pin(p, o))
             \/ Unpin(p) \/ CheckIdle(p) \/ Retire(p)
    BY <1>0, <2>4, ProducerLine
  <2> QED BY <2>1, <2>3, <2>4 DEF ProducerStep
<1>2. CASE \E c \in Consumers : ConsumerStep(c) \/ ShutDown(c)
  <2>1. PICK c \in Consumers : ConsumerStep(c) \/ ShutDown(c)
    BY <1>2
  <2>2. CASE RequestFull(c) \/ Poll(c)
    BY <1>0, <2>2, RequestLine
  <2>3. CASE WakeFull(c) \/ Leave(c) \/ Peek(c) \/ ShutDown(c)
    BY <1>0, <2>3, OtherConsumerLine
  <2>4. CASE TakeFull(c)
    BY <1>0, <2>4, TakeFullLine
  <2> QED BY <2>1, <2>2, <2>3, <2>4 DEF ConsumerStep
<1>3. CASE \E p \in Processes, o \in Objects :
              Release(p, o) \/ \E n \in 1..MaxShared + 1 : AddReferences(p, o, n)
  BY <1>0, <1>3, ReferenceLine
<1>4. CASE \E o \in Objects : ReleaseShared(o)
  BY <1>0, <1>4, ReferenceLine
<1>5. CASE UNCHANGED vars
  BY <1>0, <1>5, QuietLine DEF vars, queueVars
<1> QED BY <1>1, <1>2, <1>3, <1>4, <1>5 DEF Next

\* The posted objects are those in flight, in order, in every reachable state.
THEOREM LineHolds == Spec => []LineInvariant
<1>1. Init => LineInvariant
  BY SystemResourceAssumption, InitialLine
<1>2. QueueInvariant /\ QueueInvariant' /\ Custody /\ LineInvariant /\ [Next]_vars => LineInvariant'
  BY SystemResourceAssumption, StepsKeepLine
<1> QED BY <1>1, <1>2, QueueInvariantHolds, CustodyHolds, PTL DEF Spec

-----------------------------------------------------------------------------
(* The poll of the application.                                              *)

\* A consumer that polls and has not looked yet is queued or has an object in
\* its FIFO; after a successful look the object is still there.
Asked ==
    \A c \in Polling :
        /\ pc[c] = "peeking" => c \in Elements(fullQueue.procs) \/ fifo[c] # <<>>
        /\ pc[c] = "peeked" => fifo[c] # <<>>

\* An assignment of the full queue empties no FIFO, and who leaves the queue
\* has been handed an object.
LEMMA AssignAnswers ==
    ASSUME InLine, NEW c \in Consumers, NEW r, OnePushed(r, Objects, Consumers), AssignFull(r)
    PROVE  /\ fifo[c] # <<>> => fifo'[c] # <<>>
           /\ c \in Elements(r.procs) => c \in Elements(fullQueue'.procs) \/ fifo'[c] # <<>>
<1>1. /\ Consumers \subseteq Processes /\ c \in Processes
      /\ fifo \in [Processes -> Seq(Objects)] /\ semaphore \in [Processes -> Nat]
  BY DEF InLine, Ready, QueueParts, QueueTypes
<1>2. IsAssigned(r, fifo, semaphore, Objects, Consumers, Processes)
  BY <1>1, AssignOnce DEF OnePushed
<1>3. fullQueue' = Unmatched(r) /\ fifo' = FifosAfter(r, fifo)
  BY DEF AssignFull
<1>4. \/ fifo'[c] = fifo[c] /\ (c \in Elements(r.procs) => c \in Elements(fullQueue'.procs))
      \/ Len(fifo'[c]) = Len(fifo[c]) + 1
  BY <1>1, <1>2, <1>3 DEF IsAssigned
<1>5. Len(fifo[c]) \in Nat /\ Len(<<>>) = 0
  BY <1>1, LenProperties
<1>6. Len(fifo'[c]) = Len(fifo[c]) + 1 => fifo'[c] # <<>>
  <2> DEFINE a == Len(fifo[c])
             b == Len(fifo'[c])
  <2>1. a \in Nat /\ (fifo'[c] = <<>> => b = 0)
    BY <1>5
  <2> HIDE DEF a, b
  <2>2. b = a + 1 => fifo'[c] # <<>>
    BY <2>1
  <2> QED BY <2>2 DEF a, b
<1> QED BY <1>4, <1>6

\* Steps that leave the full queue, its FIFOs and the polling consumer alone.
LEMMA QuietAsked ==
    ASSUME InLine, Asked, fullQueue' = fullQueue,
           \A c \in Consumers : fifo'[c] = fifo[c] /\ pc'[c] = pc[c]
    PROVE  Asked'
BY DEF Asked, InLine, Ready, SystemResourceAssumption

\* No step takes from a polling consumer what it has asked for.
LEMMA StepsKeepAsked ==
    ASSUME InLine, Asked, [Next]_vars
    PROVE  Asked'
<1>1. /\ SystemResourceAssumption /\ OtherTypes /\ QueueTypes /\ Ready
      /\ Polling \subseteq Consumers /\ Consumers \subseteq Processes
      /\ \A c \in Polling, d \in Consumers : c = d
      /\ \A p \in Producers, c \in Consumers : p # c
  BY DEF InLine, Ready, QueueParts, SystemResourceAssumption
<1>2. ASSUME NEW p \in Producers, NEW o \in Objects, Post(p, o) PROVE Asked'
  <2> DEFINE r == QueueObjectBack(fullQueue, o)
  <2>1. AssignFull(r) /\ pc' = pc
    BY <1>2 DEF Post
  <2>2. OnePushed(r, Objects, Consumers) /\ r.procs = fullQueue.procs
    <3>1. /\ fullQueue \in Queues(Objects, Consumers) /\ Settled(fullQueue)
          /\ NoDuplicate(fullQueue.procs)
      BY DEF InLine, Ready, QueueParts, QueueTypes, NoIdleMatch, Settled, ProcessBufferSuffices, NoDuplicate
    <3> QED BY <3>1, QueueObjectBackPushes
  <2> HIDE DEF r
  <2>3. ASSUME NEW c \in Polling
        PROVE  /\ fifo[c] # <<>> => fifo'[c] # <<>>
               /\ c \in Elements(r.procs) => c \in Elements(fullQueue'.procs) \/ fifo'[c] # <<>>
    BY <1>1, <2>1, <2>2, AssignAnswers
  <2> QED BY <2>1, <2>2, <2>3 DEF Asked
<1>3. ASSUME NEW p \in Producers,
             \/ RequestEmpty(p) \/ TakeEmpty(p) \/ (\E o \in Objects : Pin(p, o))
             \/ Unpin(p) \/ CheckIdle(p) \/ Retire(p)
      PROVE  Asked'
  <2>1. \A c \in Consumers : pc'[c] = pc[c]
    BY <1>1, <1>3 DEF RequestEmpty, TakeEmpty, Pin, Unpin, CheckIdle, Retire, OtherTypes
  <2>2. fullQueue' = fullQueue /\ \A c \in Consumers : fifo'[c] = fifo[c]
    BY <1>3, ProducerKeepsConsumers
  <2> QED BY <2>1, <2>2, QuietAsked
<1>4. ASSUME NEW c \in Consumers, RequestFull(c) \/ Poll(c) PROVE Asked'
  <2> DEFINE r == QueueProcess(fullQueue, c, Cardinality(Consumers))
  <2>1. AssignFull(r)
    BY <1>4 DEF RequestFull, Poll
  <2>2. OnePushed(r, Objects, Consumers) /\ Elements(r.procs) = Elements(fullQueue.procs) \cup {c}
    BY <1>4, FullRequestPushes
  <2> HIDE DEF r
  <2>3. c \in Elements(fullQueue'.procs) \/ fifo'[c] # <<>>
    BY <2>1, <2>2, AssignAnswers
  <2>4. pc'[c] # "peeked"
    BY <1>1, <1>4 DEF RequestFull, Poll, OtherTypes
  <2> QED BY <1>1, <2>3, <2>4 DEF Asked
<1>5. ASSUME NEW c \in Consumers, Peek(c) PROVE Asked'
  <2>1. fullQueue' = fullQueue /\ fifo' = fifo
    BY <1>5 DEF Peek, queueVars
  <2>2. pc'[c] = "peeked" => fifo[c] # <<>>
    BY <1>1, <1>5 DEF Peek, OtherTypes
  <2>3. pc'[c] # "peeking"
    BY <1>1, <1>5 DEF Peek, OtherTypes
  <2> QED BY <1>1, <2>1, <2>2, <2>3 DEF Asked
<1>6. ASSUME NEW c \in Consumers, WakeFull(c) \/ TakeFull(c) \/ Leave(c) PROVE Asked'
  <2>1. pc'[c] \notin {"peeking", "peeked"}
    BY <1>1, <1>6 DEF WakeFull, TakeFull, Leave, OtherTypes
  <2> QED BY <1>1, <2>1 DEF Asked
<1>7. ASSUME NEW c \in Consumers, ShutDown(c) PROVE Asked'
  <2>1. fullQueue' = fullQueue /\ fifo' = fifo /\ pc' = pc
    BY <1>7 DEF ShutDown
  <2> QED BY <2>1, QuietAsked
<1>8. ASSUME NEW o \in Objects,
             \/ \E p \in Processes : Release(p, o) \/ \E n \in 1..MaxShared + 1 : AddReferences(p, o, n)
             \/ ReleaseShared(o)
      PROVE  Asked'
  <2>1. pc' = pc
    BY <1>8 DEF Release, AddReferences, ReleaseShared
  <2>2. fullQueue' = fullQueue /\ \A c \in Consumers : fifo'[c] = fifo[c]
    <3>1. CASE ReleaseObject(o)
      BY <1>1, <3>1, ReleaseKeepsConsumers
    <3>2. CASE UNCHANGED queueVars
      BY <3>2 DEF queueVars
    <3> QED BY <1>8, <3>1, <3>2 DEF Release, AddReferences, ReleaseShared
  <2> QED BY <2>1, <2>2, QuietAsked
<1>9. CASE UNCHANGED vars
  BY <1>9, QuietAsked DEF vars, queueVars
<1>10. CASE \E p \in Producers : ProducerStep(p)
  BY <1>2, <1>3, <1>10 DEF ProducerStep
<1>11. CASE \E c \in Consumers : ConsumerStep(c) \/ ShutDown(c)
  BY <1>4, <1>5, <1>6, <1>7, <1>11 DEF ConsumerStep
<1> QED BY <1>8, <1>9, <1>10, <1>11 DEF Next

\* What a polling consumer finds follows from where it stands and from the line.
LEMMA AskedIsExact ==
    ASSUME QueueInvariant, LineInvariant, Asked
    PROVE  PollIsExact
<1>1. QueueParts /\ Lined(posted, fullQueue.objects, fifo) /\ SystemResourceAssumption
  BY InvariantParts, LineMeans, SystemResourceAssumption DEF LineParts
<1> SUFFICES ASSUME NEW c \in Polling
             PROVE  /\ pc[c] = "peeking" /\ posted # <<>> => fifo[c] # <<>>
                    /\ pc[c] = "peeked" => semaphore[c] > 0
  BY DEF PollIsExact
<1>2. /\ c \in Consumers /\ semaphore[c] \in Nat /\ fifo[c] \in Seq(Objects)
      /\ fullQueue.procs \in Seq(Consumers) /\ posted \in Seq(Objects)
  BY <1>1, InvariantParts
     DEF QueueParts, QueueTypes, Queues, OtherTypes, Processes, SystemResourceAssumption
<1>3. ASSUME pc[c] = "peeking", posted # <<>>, fifo[c] = <<>> PROVE FALSE
  <2>1. c \in Elements(fullQueue.procs)
    BY <1>3 DEF Asked
  <2>2. fullQueue.procs # <<>>
    <3>1. DOMAIN fullQueue.procs # {}
      BY <2>1 DEF Elements
    <3>2. DOMAIN <<>> = {}
      OBVIOUS
    <3> QED BY <3>1, <3>2
  <2>3. fullQueue.objects = <<>>
    BY <1>1, <2>2 DEF QueueParts, NoIdleMatch
  <2>4. Len(fifo[c]) = Len(posted) - Len(fullQueue.objects)
    BY <1>1 DEF Lined
  <2>5. Len(posted) \in Nat /\ Len(posted) # 0 /\ Len(<<>>) = 0
    BY <1>2, <1>3, LenProperties, EmptySeq
  <2> QED BY <1>3, <2>3, <2>4, <2>5
<1>4. ASSUME pc[c] = "peeked" PROVE semaphore[c] > 0
  <2>1. Len(fifo[c]) \in Nat /\ Len(fifo[c]) # 0
    BY <1>2, <1>4, LenProperties, EmptySeq DEF Asked
  <2>2. semaphore[c] + (IF pc[c] = "woken" THEN 1 ELSE 0)
           = Len(fifo[c]) + (IF quit[c] /\ pc[c] # "stopped" THEN 1 ELSE 0)
    BY <1>1, <1>2 DEF QueueParts, SemaphoreCountsObjects
  <2>3. (IF pc[c] = "woken" THEN 1 ELSE 0) = 0
    BY <1>4
  <2> DEFINE n == IF quit[c] /\ pc[c] # "stopped" THEN 1 ELSE 0
  <2>4. n \in {0, 1}
    BY Zenon
  <2>5. semaphore[c] + 0 = Len(fifo[c]) + n
    BY <2>2, <2>3
  <2> HIDE DEF n
  <2> QED BY <1>2, <2>1, <2>4, <2>5
<1> QED BY <1>3, <1>4

\* The non-blocking get misses no posted object and never blocks, whatever the
\* producers do between its two halves.
THEOREM PollsAreExact == Spec => []PollIsExact
<1>1. Init => Asked
  BY SystemResourceAssumption DEF Init, Asked, Processes, SystemResourceAssumption
<1>2. QueueInvariant /\ QueueInvariant' /\ Custody /\ LineInvariant /\ Asked /\ [Next]_vars => Asked'
  BY SystemResourceAssumption, LineIsReady, StepsKeepAsked
<1>3. QueueInvariant /\ LineInvariant /\ Asked => PollIsExact
  BY AskedIsExact
<1> QED BY <1>1, <1>2, <1>3, QueueInvariantHolds, CustodyHolds, LineHolds, PTL DEF Spec

-----------------------------------------------------------------------------
\* FIFOs of one slot have at most as many slots as there are FIFOs.
LEMMA SingleSlots ==
    ASSUME NEW O, NEW P, IsFiniteSet(P), NEW D, P \subseteq D, NEW f \in [D -> Seq(O)],
           \A x \in P : Len(f[x]) \leq 1
    PROVE  Cardinality(SlotsOf(f, P)) \leq Cardinality(P)
<1> DEFINE Z == SlotsOf(f, P)
           F == [z \in Z |-> z[1]]
<1>1. \A x \in P : \A i \in DOMAIN f[x] : i = 1
  <2> TAKE x \in P
  <2>1. f[x] \in Seq(O)
    OBVIOUS
  <2>2. DOMAIN f[x] = 1..Len(f[x]) /\ Len(f[x]) \in Nat /\ Len(f[x]) \leq 1
    BY <2>1, LenProperties
  <2> QED BY <2>2
<1>2. ASSUME NEW z \in Z PROVE \E x \in P : z = <<x, 1>>
  <2>1. PICK x \in P : z \in {x} \X DOMAIN f[x]
    BY DEF SlotsOf
  <2> QED BY <1>1, <2>1
<1>3. F \in [Z -> P] /\ \A y, z \in Z : F[y] = F[z] => y = z
  BY <1>2
<1> HIDE DEF F, Z
<1>4. F \in Injection(Z, P)
  BY <1>3, Fun_IsInj
<1>5. Cardinality(Z) \leq Cardinality(P)
  BY <1>4, FS_Injection
<1> QED BY <1>5 DEF Z

\* There is a receiver for each object that is assigned and not received yet,
\* unless the receiver polls, who receives them in order.
LEMMA ReceiversSuffice ==
    ASSUME InLine, NEW c \in Consumers, NEW i \in Nat, Receives(c, i)
    PROVE  i \leq Cardinality(Consumers)
<1>1. /\ IsFiniteSet(Consumers) /\ IsFiniteSet(Objects) /\ Cardinality(Consumers) \in Nat
      /\ Polling \subseteq Consumers /\ \A d \in Polling, e \in Consumers : d = e
  BY FS_CardinalityType DEF InLine, Ready, SystemResourceAssumption
<1>2. CASE Polling = {}
  <2>1. \A d \in Consumers : Len(fifo[d]) \leq 1
    BY <1>2 DEF InLine, LineParts, Handed
  <2>2. Cardinality(SlotsOf(fifo, Consumers)) \leq Cardinality(Consumers)
    BY <1>1, <2>1, SingleSlots DEF InLine
  <2>3. Strung(fullQueue.objects, fifo, Consumers) /\ FlightSet = Elements(posted) /\ NoDuplicate(posted)
    BY DEF InLine, LineParts, Lined, Ready, PlacesStrung
  <2>4. /\ Cardinality(SlotsOf(fifo, Consumers)) \in Nat
        /\ Len(fullQueue.objects) + Cardinality(SlotsOf(fifo, Consumers))
              = Cardinality(Within(fullQueue.objects, fifo, Consumers))
    BY <1>1, <2>3, StrungCount DEF InLine
  <2>5. Cardinality(Elements(posted)) = Len(posted) /\ Len(posted) \in Nat /\ Len(fullQueue.objects) \in Nat
    BY <2>3, DistinctCount, LenProperties DEF InLine
  <2>6. Len(posted) - Len(fullQueue.objects) = Cardinality(SlotsOf(fifo, Consumers))
    BY <2>3, <2>4, <2>5 DEF FlightSet
  <2>7. i \leq Len(posted) - Len(fullQueue.objects)
    BY <2>5 DEF Receives
  <2> QED BY <1>1, <2>2, <2>4, <2>5, <2>6, <2>7
<1>3. CASE Polling # {}
  <2>1. Consumers = {c} /\ c \in Polling
    BY <1>1, <1>3
  <2>2. Cardinality(Consumers) = 1
    BY <2>1, FS_Singleton
  <2> QED BY <2>1, <2>2 DEF Receives
<1> QED BY <1>2, <1>3

-----------------------------------------------------------------------------
(* The resource implements the object pool.                                  *)

\* The references the object pool counts are those told apart by cases in Refs.
RefsRight == \A o \in Objects : PoolReferences[o] = Refs(o)

\* What is outstanding and what is kept are the references told apart in Refs.
LEMMA ReferencesByCases == Ready => RefsRight
<1> SUFFICES ASSUME Ready, NEW o \in Objects
             PROVE  Outstanding(o) + (IF Kept(o) THEN 1 ELSE 0) = Refs(o)
  BY DEF RefsRight, PoolReferences
<1>1. Well(o) /\ shared[o] \in Nat /\ o # None
  BY CountTypes DEF Ready, SystemResourceAssumption
<1>2. Outstanding(o) \in Nat /\ Outstanding(o) = shared[o] + (IF InFlight(o) \/ Held(o) THEN 1 ELSE 0)
  BY OutstandingCounts DEF OutstandingRight
<1>3. CASE InPool(o)
  <2>1. Outstanding(o) = 0 /\ ~Kept(o)
    BY <1>3, CustodyForbidsReuse DEF NoReuseWhileReferenced
  <2> QED BY <1>3, <2>1 DEF Refs
<1>4. CASE ~InPool(o) /\ (o = active \/ o = retiring)
  <2>1. Outstanding(o) = shared[o]
    BY <1>1, <1>2, <1>4 DEF Well
  <2>2. Owned(o) <=> o = active \/ ~releaseEnable[o] \/ shared[o] = 0
    BY <1>1, <1>4 DEF Owned, Well
  <2>3. Kept(o) <=> ~releaseEnable[o] \/ (o = retiring /\ shared[o] = 0)
    BY <1>4, <2>1 DEF Kept
  <2>4. o = active => ~releaseEnable[o]
    BY <1>1 DEF Ready, PinningIsSafe
  <2>5. Owned(o) <=> Kept(o)
    BY <1>4, <2>2, <2>3, <2>4
  <2> QED BY <1>4, <2>1, <2>5 DEF Refs
<1>5. CASE ~InPool(o) /\ o # active /\ o # retiring
  <2>1. ~Kept(o)
    BY <1>5 DEF Kept
  <2>2. Owned(o) <=> InFlight(o) \/ Held(o)
    BY <1>5 DEF Owned
  <2> QED BY <1>1, <1>2, <1>5, <2>1, <2>2 DEF Refs
<1> QED BY <1>3, <1>4, <1>5

\* Both, before and after a step.
LEMMA ReferencesBefore ==
    SystemResourceAssumption /\ QueueInvariant /\ Custody => RefsRight
BY CustodyIsReady, ReferencesByCases

\* The same after a step.
LEMMA ReferencesAfter ==
    SystemResourceAssumption /\ QueueInvariant' /\ Custody' => RefsRight'
<1>1. QueueInvariant /\ Custody => RefsRight
  BY SystemResourceAssumption, ReferencesBefore
<1>2. QueueInvariant' /\ Custody' => RefsRight'
  BY <1>1, PTL
<1> QED BY <1>2

\* What is in line is what is in flight.
LEMMA LinedInFlight ==
    ASSUME InLine, NEW o \in Objects
    PROVE  Pool!InLine(o) <=> InFlight(o)
<1>1. FlightSet = Elements(posted) /\ (o \in FlightSet <=> InFlight(o))
  BY PlaceSets DEF InLine, LineParts
<1>2. DOMAIN posted = 1..Len(posted)
  BY LenProperties DEF InLine
<1> QED BY <1>1, <1>2 DEF Pool!InLine, Elements

\* How a step of the resource moves the references and the line, and the steps
\* of the pool these are.
LEMMA PoolStutters ==
    ASSUME RefsRight, RefsRight', SameRefs
    PROVE  PoolReferences' = PoolReferences
BY DEF RefsRight, SameRefs, PoolReferences

\* A step that touches the references to one object.
LEMMA OneReferenceMoves ==
    ASSUME RefsRight, RefsRight', NEW o \in Objects, Only(o)
    PROVE  PoolReferences' = [PoolReferences EXCEPT ![o] = Refs(o)']
<1>1. PoolReferences'[o] = Refs(o)' /\ \A x \in Objects : x # o => PoolReferences'[x] = PoolReferences[x]
  BY DEF RefsRight, Only
<1> QED BY <1>1 DEF PoolReferences

\* svt_get_empty_object acquires.
LEMMA PoolAcquires ==
    ASSUME RefsRight, RefsRight', NEW o \in Objects, Acquires(o), posted' = posted
    PROVE  Pool!Next
<1>1. /\ PoolReferences' = [PoolReferences EXCEPT ![o] = 1] /\ PoolReferences[o] = 0
  BY OneReferenceMoves DEF Acquires, RefsRight
<1>2. Pool!Acquire(o)
  BY <1>1 DEF Pool!Acquire
<1> QED BY <1>2 DEF Pool!Next

\* svt_object_inc_live_count shares.
LEMMA PoolShares ==
    ASSUME RefsRight, RefsRight', NEW o \in Objects, Shares(o), posted' = posted
    PROVE  Pool!Next
<1>1. /\ PoolReferences' = [PoolReferences EXCEPT ![o] = PoolReferences'[o]]
      /\ PoolReferences[o] > 0 /\ PoolReferences'[o] > PoolReferences[o]
  BY OneReferenceMoves DEF Shares, RefsRight
<1>2. Pool!Share(o)
  BY <1>1 DEF Pool!Share
<1> QED BY <1>2 DEF Pool!Next

\* A release drops, and not the reference that travels with a posted object.
LEMMA PoolDrops ==
    ASSUME InLine, RefsRight, RefsRight', NEW o \in Objects, Drops(o), posted' = posted
    PROVE  Pool!Next
<1>1. /\ PoolReferences' = [PoolReferences EXCEPT ![o] = PoolReferences[o] - 1]
      /\ PoolReferences[o] > IF Pool!InLine(o) THEN 1 ELSE 0
  BY OneReferenceMoves, LinedInFlight DEF Drops, RefsRight
<1>2. Pool!Drop(o)
  BY <1>1 DEF Pool!Drop
<1> QED BY <1>2 DEF Pool!Next

\* svt_post_full_object posts an object that is referred to and not in line.
LEMMA PoolPosts ==
    ASSUME InLine, RefsRight, RefsRight', NEW o \in Objects, SameRefs, Refs(o) > 0, ~InFlight(o),
           posted' = Append(posted, o)
    PROVE  Pool!Next
<1>1. PoolReferences' = PoolReferences /\ PoolReferences[o] > 0 /\ ~Pool!InLine(o)
  BY PoolStutters, LinedInFlight DEF RefsRight
<1>2. Pool!Post(o)
  BY <1>1 DEF Pool!Post
<1> QED BY <1>2 DEF Pool!Next

\* svt_get_full_object receives: there are as many receivers as it can overtake.
LEMMA PoolReceives ==
    ASSUME InLine, RefsRight, RefsRight', SameRefs, NEW c \in Consumers, TakeFull(c)
    PROVE  Pool!Next
<1>1. PICK i \in 1..Len(posted) : Receives(c, i)
  BY WhichIsReceived
<1>2. Len(posted) \in Nat /\ i \in Nat
  BY LenProperties DEF InLine
<1>3. i \leq Cardinality(Consumers)
  BY <1>1, <1>2, ReceiversSuffice
<1>4. PoolReferences' = PoolReferences
  BY PoolStutters
<1>5. Pool!Receive(i)
  BY <1>1, <1>3, <1>4 DEF Receives, Pool!Receive
<1> QED BY <1>1, <1>5 DEF Pool!Next

\* Everything else changes nothing of the pool.
LEMMA PoolRests ==
    ASSUME RefsRight, RefsRight', SameRefs, posted' = posted
    PROVE  UNCHANGED Pool!vars
BY PoolStutters DEF Pool!vars

-----------------------------------------------------------------------------
\* At first every object is in the pool, and none is posted.
LEMMA InitialPool == SystemResourceAssumption /\ Init => Pool!Init
<1> SUFFICES ASSUME SystemResourceAssumption, Init PROVE Pool!Init
  OBVIOUS
<1>1. RefsRight
  BY InitialStates, InitialCustody, ReferencesBefore
<1>2. PICK s \in {t \in [1..ObjectCount -> Objects] : Elements(t) = Objects} :
          emptyQueue = [EmptyMuxingQueue EXCEPT !.objects = s]
  BY DEF Init
<1>3. emptyQueue.objects = s
  BY <1>2 DEF EmptyMuxingQueue
<1>4. \A o \in Objects : Refs(o) = 0
  BY <1>2, <1>3 DEF Refs, InPool
<1>5. PoolReferences = [o \in Objects |-> 0]
  BY <1>1, <1>4 DEF RefsRight, PoolReferences
<1>6. posted = <<>>
  BY DEF Init
<1> QED BY <1>5, <1>6 DEF Pool!Init

\* Every step of the resource is one of the pool, or changes nothing there.
LEMMA StepsRefinePool ==
    SystemResourceAssumption /\ QueueInvariant /\ QueueInvariant' /\ Custody /\ Custody'
    /\ LineInvariant /\ [Next]_vars => [Pool!Next]_(Pool!vars)
<1> SUFFICES ASSUME SystemResourceAssumption, QueueInvariant, QueueInvariant', Custody, Custody',
                    LineInvariant, [Next]_vars
             PROVE  Pool!Next \/ UNCHANGED Pool!vars
  OBVIOUS
<1>0. InLine /\ Ready /\ OtherTypes' /\ RefsRight /\ RefsRight'
  BY LineIsReady, CustodyIsReady, InvariantParts, ReferencesBefore, ReferencesAfter
<1>1. CASE \E p \in Producers : ProducerStep(p)
  <2>1. PICK p \in Producers : ProducerStep(p)
    BY <1>1
  <2>2. p \in Processes
    BY DEF Processes
  <2>3. CASE RequestEmpty(p)
    <3>1. SameRefs /\ posted' = posted
      BY <1>0, <2>3, RequestEmptyCustody DEF RequestEmpty
    <3> QED BY <1>0, <3>1, PoolRests
  <2>4. CASE TakeEmpty(p)
    <3>1. posted' = posted
      BY <2>4 DEF TakeEmpty
    <3>2. PICK o \in Objects : Acquires(o)
      BY <1>0, <2>4, TakeEmptyCustody
    <3> QED BY <1>0, <3>1, <3>2, PoolAcquires
  <2>5. CASE \E o \in Objects : Post(p, o)
    <3>1. PICK o \in Objects : Post(p, o)
      BY <2>5
    <3>2. SameRefs /\ Refs(o) > 0 /\ ~InFlight(o)
      BY <1>0, <2>2, <3>1, PostCustody
    <3>3. posted' = Append(posted, o)
      BY <3>1 DEF Post
    <3> QED BY <1>0, <3>2, <3>3, PoolPosts
  <2>6. CASE (\E o \in Objects : Pin(p, o)) \/ CheckIdle(p)
    <3>1. SameRefs
      BY <1>0, <2>6, PinCustody, CheckIdleCustody
    <3>2. posted' = posted
      BY <2>6 DEF Pin, CheckIdle
    <3> QED BY <1>0, <3>1, <3>2, PoolRests
  <2>7. CASE Unpin(p) \/ Retire(p)
    <3>1. SameRefs \/ \E o \in Objects : Drops(o)
      BY <1>0, <2>7, UnpinCustody, RetireCustody
    <3>2. posted' = posted
      BY <2>7 DEF Unpin, Retire
    <3> QED BY <1>0, <3>1, <3>2, PoolRests, PoolDrops
  <2> QED BY <2>1, <2>3, <2>4, <2>5, <2>6, <2>7 DEF ProducerStep
<1>2. CASE \E c \in Consumers : ConsumerStep(c) \/ ShutDown(c)
  <2>1. PICK c \in Consumers : ConsumerStep(c) \/ ShutDown(c)
    BY <1>2
  <2>2. CASE RequestFull(c) \/ Poll(c)
    <3>1. SameRefs
      BY <1>0, <2>2, RequestFullCustody
    <3>2. posted' = posted
      BY <2>2 DEF RequestFull, Poll
    <3> QED BY <1>0, <3>1, <3>2, PoolRests
  <2>3. CASE WakeFull(c) \/ Leave(c) \/ Peek(c) \/ ShutDown(c)
    <3>1. SameRefs
      BY <1>0, <2>3, OtherConsumerCustody
    <3>2. posted' = posted
      BY <2>3 DEF WakeFull, Leave, Peek, ShutDown
    <3> QED BY <1>0, <3>1, <3>2, PoolRests
  <2>4. CASE TakeFull(c)
    BY <1>0, <2>4, TakeFullCustody, PoolReceives
  <2> QED BY <2>1, <2>2, <2>3, <2>4 DEF ConsumerStep
<1>3. CASE \E p \in Processes, o \in Objects :
              Release(p, o) \/ \E n \in 1..MaxShared + 1 : AddReferences(p, o, n)
  <2>1. PICK p \in Processes, o \in Objects :
              Release(p, o) \/ \E n \in 1..MaxShared + 1 : AddReferences(p, o, n)
    BY <1>3
  <2>2. CASE Release(p, o)
    <3>1. Drops(o)
      BY <1>0, <2>2, ReleaseCustody
    <3>2. posted' = posted
      BY <2>2 DEF Release
    <3> QED BY <1>0, <3>1, <3>2, PoolDrops
  <2>3. CASE \E n \in 1..MaxShared + 1 : AddReferences(p, o, n)
    <3>1. SameRefs \/ Shares(o)
      BY <1>0, <2>3, AddReferencesCustody
    <3>2. posted' = posted
      BY <2>3 DEF AddReferences
    <3> QED BY <1>0, <3>1, <3>2, PoolRests, PoolShares
  <2> QED BY <2>1, <2>2, <2>3
<1>4. CASE \E o \in Objects : ReleaseShared(o)
  <2>1. PICK o \in Objects : ReleaseShared(o)
    BY <1>4
  <2>2. Drops(o)
    BY <1>0, <2>1, ReleaseSharedCustody
  <2>3. posted' = posted
    BY <2>1 DEF ReleaseShared
  <2> QED BY <1>0, <2>2, <2>3, PoolDrops
<1>5. CASE UNCHANGED vars
  <2>1. UNCHANGED Pool!vars
    BY <1>5 DEF vars, queueVars, countVars, pinVars, Pool!vars, PoolReferences, Outstanding,
                Holders, InFlight, InPool, Kept
  <2> QED BY <2>1
<1> QED BY <1>1, <1>2, <1>3, <1>4, <1>5 DEF Next

\* The resource is the object pool, whatever its size and its threads.
THEOREM PoolIsImplemented == Spec => ImplementsPool
<1>1. Init => Pool!Init
  BY SystemResourceAssumption, InitialPool
<1>2. QueueInvariant /\ QueueInvariant' /\ Custody /\ Custody' /\ LineInvariant /\ [Next]_vars
      => [Pool!Next]_(Pool!vars)
  BY SystemResourceAssumption, StepsRefinePool
<1> QED BY <1>1, <1>2, QueueInvariantHolds, CustodyHolds, LineHolds, PTL
        DEF Spec, ImplementsPool, Pool!Spec
=============================================================================
