--------------------------- MODULE PictureManager ---------------------------
(***************************************************************************)
(* The Picture Manager: it starts every picture once its references are    *)
(* reconstructed, and gives a reference picture's buffer back once every   *)
(* picture that refers to it has been started.  How many will refer to it  *)
(* is a count promised by the prediction structure and corrected later, by *)
(* links that arrive with other pictures.                                  *)
(*                                                                         *)
(* The kernel is one thread with a message queue (the PictureDemux         *)
(* resource).  Around it are the stages that send it messages: Picture     *)
(* Decision to Source Based Operations, taken together as Arrive; the      *)
(* stages up to Restoration as Reconstruct; Entropy Coding, Packetization  *)
(* and Rate Control as CodeEntropy, Packetize and Finish.                  *)
(***************************************************************************)
EXTENDS Integers, Sequences, FiniteSets, Functions

CONSTANTS
    Scenarios,  \* pairs of a stream, what Picture Decision decides: a function from
                \* pictures to decisions, and a mode: [decOrder, managerOrder, rateControl]
    ChildPool,  \* child PictureControlSets (and EncDecSets, which are as many)
    DemuxPool   \* objects of the PictureDemux resource

\* A decision is a record of
\*   number    the picture number (an overlay has that of its alt-ref picture),
\*   order     decode_order,
\*   refs      the picture numbers of both reference lists, one after the other,
\*   used      is_used_as_reference_flag,
\*   overlay   is_overlay,
\*   promised  the length of the dependent lists of its prediction structure,
\*   self      self_updated_links,
\*   links     updated_links_arr: corrections [number, diff] for earlier pictures,
\*   base      an inter picture of temporal layer 0,
\*   cdf       frame_end_cdf_update_mode.

Decisions ==
    [number : Nat, order : Nat, refs : Seq(Nat), used : BOOLEAN, overlay : BOOLEAN, promised : Nat,
     self : Int, links : SUBSET [number : Nat, diff : Int], base : BOOLEAN, cdf : BOOLEAN]

\* dependent_count is decremented for every place in the two lists.
TimesReferred(d, n) == Cardinality({i \in DOMAIN d.refs : d.refs[i] = n})

\* How often the pictures of S refer to picture number n.
Uses(s, S, n) == SumFunctionOnSet([p \in DOMAIN s |-> TimesReferred(s[p], n)], S)
Owner(s, n) == CHOOSE p \in DOMAIN s : s[p].number = n /\ ~s[p].overlay
AllLinks(s) == UNION {{[by |-> p, number |-> l.number, diff |-> l.diff] : l \in s[p].links} : p \in DOMAIN s}
LinksOf(links, n) == {l \in links : l.number = n}
Total(links, n) == SumFunctionOnSet([l \in LinksOf(links, n) |-> l.diff], LinksOf(links, n))
\* Dependents that were promised and never come: the stream ended before.
Surplus(s, p) ==
    s[p].promised + s[p].self + Total(AllLinks(s), s[p].number) - Uses(s, DOMAIN s, s[p].number)

Streams == {x[1] : x \in Scenarios}

\* The sets of pictures that may be the first ones in decode order.
FirstPictures(s) ==
    {S \in SUBSET DOMAIN s : \A p \in S : \A q \in DOMAIN s : s[q].order < s[p].order => q \in S}

\* A picture of s that comes before p in decode order, by its number.
ComesBefore(s, n, p) ==
    \E r \in DOMAIN s : ~s[r].overlay /\ s[r].number = n /\ s[r].order < s[p].order

\* What is counted of the dependents of p once the pictures of S have come.
Counted(s, p, S) ==
    s[p].promised + s[p].self + Total({l \in AllLinks(s) : l.by \in S}, s[p].number)

\* What Picture Decision guarantees: a number is that of one picture and its
\* overlay, which is never a reference; the pictures that are referred to and those
\* whose counts are corrected come first in decode order.
ASSUME StreamAssumption ==
    \A s \in Streams :
        /\ IsFiniteSet(DOMAIN s)
        /\ \A p \in DOMAIN s : s[p] \in Decisions /\ IsFiniteSet(s[p].links)
        /\ \A p, q \in DOMAIN s :
              s[p].number = s[q].number /\ ~s[p].overlay /\ ~s[q].overlay => p = q
        /\ \A p \in DOMAIN s :
              /\ s[p].overlay => ~s[p].used
              /\ \A i \in DOMAIN s[p].refs :
                    ComesBefore(s, s[p].refs[i], p) /\ s[Owner(s, s[p].refs[i])].used
              /\ \A l \in s[p].links : ComesBefore(s, l.number, p)

\* A correction comes with the first picture, in decode order, of those that make
\* the difference: whichever pictures have come, what is counted is at least what
\* they refer to a picture, and more if another one is still to do so.
ASSUME CountAssumption ==
    \A s \in Streams : \A S \in FirstPictures(s) : \A p \in S : ~s[p].overlay =>
        LET uses == Uses(s, S, s[p].number)
        IN  /\ Counted(s, p, S) \geq uses
            /\ (\E q \in DOMAIN s \ S : TimesReferred(s[q], s[p].number) > 0) => Counted(s, p, S) > uses
ASSUME PoolAssumption == ChildPool \in Nat \ {0} /\ DemuxPool \in Nat \ {0}

VARIABLES
    stream, mode,
    stage,          \* how far each picture is
    inbox,          \* the messages posted to the Picture Manager
    pc, walk,       \* the kernel: "idle", or walking the input queue at a position
    inputQueue,     \* input_picture_queue without the entries that were started
    entries,        \* every entry made in reference_picture_queue
    head,           \* reference_picture_queue_head_index; the tail is after the entries
    links,          \* dep_cnt_picture_queue without the entries that are done
    nextOrder,      \* decode_order, counted by feedback
    lastStarted,    \* pmgr_dec_order
    terminating,    \* terminating_sequence_flag_received
    live,           \* live_count of each picture's reference object
    scsCount,       \* references to the SequenceControlSet
    freeChild       \* child PictureControlSets in the pool

managerVars == <<inputQueue, entries, head, links, nextOrder, lastStarted>>
countVars == <<live, scsCount, freeChild>>
vars == <<stream, mode, stage, inbox, pc, walk, managerVars, terminating, countVars>>

Pictures == DOMAIN stream
Count(b) == IF b THEN 1 ELSE 0

Init ==
    /\ \E x \in Scenarios : stream = x[1] /\ mode = x[2]
    /\ stage = [p \in Pictures |-> "coming"]
    /\ inbox = <<>> /\ pc = "idle" /\ walk = 1
    /\ inputQueue = <<>> /\ entries = <<>> /\ head = 1 /\ links = {}
    /\ nextOrder = 0 /\ lastStarted = 0 /\ terminating = FALSE
    /\ live = [p \in Pictures |-> 0]
    /\ scsCount = 0 /\ freeChild = ChildPool

-----------------------------------------------------------------------------
\* The stages around the kernel.

\* A message needs an object of the demux resource; the kernel keeps the one of
\* the message it handles until it is through.
Send(type, p) ==
    /\ Len(inbox) + Count(pc # "idle") < DemuxPool
    /\ inbox' = Append(inbox, [type |-> type, pic |-> p])

Move(p, from, to) == stage[p] = from /\ stage' = [stage EXCEPT ![p] = to]

\* A picture gets its references to the SequenceControlSet, a reference picture
\* its buffer with the nominal live_count, and is sent to the kernel: the queue
\* of Initial Rate Control lets pictures go in decode order.  Picture Decision
\* has met the end of the stream when the last one in display order comes.
Arrive(p) ==
    /\ \A q \in Pictures : stream[q].order < stream[p].order => stage[q] # "coming"
    /\ (\A q \in Pictures : stream[q].number \leq stream[p].number) => terminating
    /\ Move(p, "coming", "sent")
    /\ Send("INPUT", p)
    /\ live' = [live EXCEPT ![p] = Count(stream[p].used)]
    /\ scsCount' = scsCount + 3
    /\ UNCHANGED <<stream, mode, pc, walk, managerVars, terminating, freeChild>>

\* Picture Decision runs ahead of the kernel and may meet the end at any time.
MeetEnd ==
    /\ ~terminating /\ terminating' = TRUE
    /\ UNCHANGED <<stream, mode, stage, inbox, pc, walk, managerVars, countVars>>

\* rest_kernel, last segment of a picture.
Reconstruct(p) ==
    /\ Move(p, "started", "reconstructed")
    /\ IF stream[p].used THEN Send("REFERENCE", p) ELSE UNCHANGED inbox
    /\ UNCHANGED <<stream, mode, pc, walk, managerVars, terminating, countVars>>

\* The references of a picture that are the reference object of picture r.
Occurrences(p, r) ==
    Cardinality({i \in DOMAIN stream[p].refs : Owner(stream, stream[p].refs[i]) = r})

\* entropy_coding_kernel, last row of a picture: its references are released.
CodeEntropy(p) ==
    /\ Move(p, "reconstructed", "coded")
    /\ live' = [r \in Pictures |-> live[r] - Occurrences(p, r)]
    /\ UNCHANGED <<stream, mode, inbox, pc, walk, managerVars, terminating, scsCount, freeChild>>

\* packetization_kernel: feedback for reference pictures, or for all of them.
Packetize(p) ==
    /\ Move(p, "coded", "packed")
    /\ IF mode.decOrder \/ stream[p].used
       THEN Send("FEEDBACK", p) /\ UNCHANGED scsCount
       ELSE UNCHANGED inbox /\ scsCount' = scsCount - 1
    /\ freeChild' = freeChild + 1
    /\ UNCHANGED <<stream, mode, pc, walk, managerVars, terminating, live>>

\* rate_control_kernel, RC_PACKETIZATION_FEEDBACK_RESULT.
Finish(p) ==
    /\ Move(p, "packed", "finished")
    /\ scsCount' = scsCount - 1
    /\ UNCHANGED <<stream, mode, inbox, pc, walk, managerVars, terminating, live, freeChild>>

-----------------------------------------------------------------------------
\* The reference queue.

\* The entries search_ref_in_ref_queue looks at.  The loop ends when it comes to
\* the tail, so it goes once around the whole array if the queue is empty.
Searched(es, h) == IF h > Len(es) THEN DOMAIN es ELSE h..Len(es)

Found(es, h, n) == {i \in Searched(es, h) : es[i].number = n}

\* clean_pictures_in_ref_queue: the links of pictures that are found are applied
\* and done, the others are tried again with the next message.
Cleaned(ls) ==
    [i \in DOMAIN entries |->
        IF i \in Searched(entries, head)
        THEN [entries[i] EXCEPT !.dependents = @ + Total(ls, entries[i].number)]
        ELSE entries[i]]
LinksLeft(ls) == {l \in ls : Found(entries, head, l.number) = {}}

\* Bug: the correction that is known from the start is forgotten.
PromisedOnly(p) == stream[p].promised
\* dependent_count of a new entry
Promised(p) == stream[p].promised + stream[p].self

NewEntry(p) ==
    [number |-> stream[p].number, dependents |-> Promised(p), used |-> stream[p].used,
     available |-> FALSE, updated |-> FALSE, object |-> FALSE]

Receive(type, p) ==
    /\ pc = "idle" /\ inbox # <<>> /\ Head(inbox) = [type |-> type, pic |-> p]
    /\ inbox' = Tail(inbox)
    /\ pc' = "walk" /\ walk' = 1
    /\ UNCHANGED <<stream, mode, terminating, head, lastStarted, freeChild, live>>

\* EB_PIC_INPUT.  An overlay has no entry: it is never a reference.
ReceiveInput(p) ==
    LET ls == links \cup {l \in AllLinks(stream) : l.by = p}
    IN  /\ Receive("INPUT", p)
        /\ Move(p, "sent", "queued")
        /\ links' = LinksLeft(ls)
        /\ inputQueue' = Append(inputQueue, p)
        /\ entries' = IF stream[p].overlay THEN Cleaned(ls) ELSE Append(Cleaned(ls), NewEntry(p))
        /\ UNCHANGED <<nextOrder, scsCount>>

\* EB_PIC_REFERENCE
ReceiveReference(p) ==
    LET es == Cleaned(links)
    IN  /\ Receive("REFERENCE", p)
        /\ links' = LinksLeft(links)
        /\ entries' = [i \in DOMAIN es |->
                          IF i \in Found(es, head, stream[p].number)
                          THEN [es[i] EXCEPT !.available = TRUE, !.object = TRUE] ELSE es[i]]
        /\ scsCount' = scsCount - 1
        /\ UNCHANGED <<stage, inputQueue, nextOrder>>

\* EB_PIC_FEEDBACK
ReceiveFeedback(p) ==
    LET es == Cleaned(links)
    IN  /\ Receive("FEEDBACK", p)
        /\ links' = LinksLeft(links)
        /\ entries' = [i \in DOMAIN es |->
                          IF i \in Found(es, head, stream[p].number)
                          THEN [es[i] EXCEPT !.updated = TRUE] ELSE es[i]]
        /\ nextOrder' = nextOrder + Count(stream[p].order = nextOrder)
        /\ scsCount' = scsCount - 1
        /\ UNCHANGED <<stage, inputQueue>>

-----------------------------------------------------------------------------
\* The walk over the input queue, after every message.

\* Bug: a picture is started although a reference is not reconstructed yet.
KnownReference(p, e) == e.number \in {stream[p].refs[i] : i \in DOMAIN stream[p].refs}
\* A reference is usable: it is complete, with its CDFs if they are wanted, and
\* with the rate control's feedback if the picture is to be controlled by it.
UsableReference(p, e) ==
    /\ e.available
    /\ stream[p].cdf => e.updated
    /\ mode.rateControl /\ stream[p].base /\ ~terminating => e.updated

\* What the order settings demand.
InOrder(p) ==
    /\ mode.decOrder => stream[p].order = nextOrder
    /\ mode.managerOrder /\ stream[p].number > 0 => stream[p].order = lastStarted + 1

Ready(p) ==
    /\ InOrder(p)
    /\ \A i \in DOMAIN stream[p].refs :
          \E e \in Found(entries, head, stream[p].refs[i]) : UsableReference(p, entries[e])

\* A ready picture is started as soon as there are objects for it; the kernel
\* waits for them in the middle of its walk.
Start ==
    /\ pc = "walk" /\ walk \leq Len(inputQueue)
    /\ LET p == inputQueue[walk]
       IN  /\ Ready(p)
           /\ freeChild > 0 /\ freeChild' = freeChild - 1
           /\ Move(p, "queued", "started")
           /\ inputQueue' = [i \in 1..Len(inputQueue) - 1 |-> inputQueue[IF i < walk THEN i ELSE i + 1]]
           /\ entries' = [i \in DOMAIN entries |->
                             IF i \in Searched(entries, head)
                             THEN [entries[i] EXCEPT !.dependents = @ - TimesReferred(stream[p], entries[i].number)]
                             ELSE entries[i]]
           /\ live' = [r \in Pictures |-> live[r] + Occurrences(p, r)]
           /\ lastStarted' = stream[p].order
           /\ scsCount' = scsCount + Count(stream[p].used)
    /\ UNCHANGED <<stream, mode, inbox, pc, walk, head, links, nextOrder, terminating>>

Pass ==
    /\ pc = "walk" /\ walk \leq Len(inputQueue) /\ ~Ready(inputQueue[walk])
    /\ walk' = walk + 1
    /\ UNCHANGED <<stream, mode, stage, inbox, pc, managerVars, terminating, countVars>>

\* The walk over the reference queue, which ends the handling of the message.

\* The entry's nominal reference is released: nobody will refer to it any more.
Unneeded(e) == e.dependents = 0 /\ e.available /\ e.object

Released(e) == [e EXCEPT !.object = FALSE, !.available = FALSE, !.used = FALSE]

\* Bug: a complete picture leaves the queue although others will refer to it.
HoldsIncomplete(e) == ~e.available /\ e.used
\* What keeps the head of the queue where it is.
Holds(e) == (~e.available /\ e.used) \/ e.dependents # 0

Retire ==
    LET window == head..Len(entries)
        gone == {i \in window : Unneeded(entries[i])}
        es == [i \in DOMAIN entries |->
                  IF i \in gone THEN Released(entries[i]) ELSE entries[i]]
        holding == {i \in window : Holds(es[i])}
    IN  /\ pc = "walk" /\ walk > Len(inputQueue)
        /\ entries' = es
        /\ head' = IF holding = {} THEN Len(entries) + 1 ELSE CHOOSE i \in holding : \A j \in holding : i \leq j
        /\ live' = [r \in Pictures |-> live[r] - Count(\E i \in gone :
                       Owner(stream, entries[i].number) = r)]
        /\ pc' = "idle" /\ walk' = 1
        /\ UNCHANGED <<stream, mode, stage, inbox, inputQueue, links, nextOrder, lastStarted,
                       terminating, scsCount, freeChild>>

-----------------------------------------------------------------------------
Manager ==
    \/ \E p \in Pictures : ReceiveInput(p) \/ ReceiveReference(p) \/ ReceiveFeedback(p)
    \/ Start \/ Pass \/ Retire
Pipeline(p) == Reconstruct(p) \/ CodeEntropy(p) \/ Packetize(p) \/ Finish(p)

Next == Manager \/ MeetEnd \/ \E p \in Pictures : Arrive(p) \/ Pipeline(p)

\* Every thread runs, and the stages before the kernel send all pictures.
Fairness ==
    /\ WF_vars(Manager) /\ WF_vars(MeetEnd)
    /\ \A s \in Streams : \A p \in DOMAIN s :
          /\ WF_vars(p \in Pictures /\ Arrive(p))
          /\ WF_vars(p \in Pictures /\ Pipeline(p))

Spec == Init /\ [][Next]_vars /\ Fairness

-----------------------------------------------------------------------------
Started(p) == stage[p] \in {"started", "reconstructed", "coded", "packed", "finished"}
InFlight(p) == stage[p] \in {"started", "reconstructed"}
Unstarted == {p \in Pictures : ~Started(p)}

\* The types of the variables, and the room the queues have.
TypeOK ==
    /\ stage \in [Pictures -> {"coming", "sent", "queued", "started", "reconstructed", "coded",
                               "packed", "finished"}]
    /\ Len(inbox) \leq DemuxPool
    /\ pc \in {"idle", "walk"} /\ walk \in 1..Len(inputQueue) + 1
    /\ \A i \in DOMAIN inputQueue : stage[inputQueue[i]] = "queued"
    /\ head \in 1..Len(entries) + 1
    /\ live \in [Pictures -> Nat]
    /\ freeChild \in 0..ChildPool

\* dependent_count is exact: with the corrections that are still under way it is
\* the number of references that pictures not yet started will make (and those
\* the end of the stream cut off).  It never falls short, so no buffer is
\* released too early, and never exceeds it, so every buffer is.
DependentsAreExact ==
    \A i \in DOMAIN entries :
        LET n == entries[i].number
            pending == {l \in AllLinks(stream) : stage[l.by] \in {"coming", "sent"}} \cup links
        IN  entries[i].dependents + Total(pending, n) =
                Uses(stream, Unstarted, n) + Surplus(stream, Owner(stream, n))

\* A picture in the pipeline reads its references until its last row is coded:
\* each is reconstructed and its buffer has not gone back to the pool.  The
\* same holds of the references of every picture that is still to be started.
ReferencesAreHeld ==
    \A p \in Pictures : \A i \in DOMAIN stream[p].refs :
        LET r == Owner(stream, stream[p].refs[i])
            done == stage[r] \in {"reconstructed", "coded", "packed", "finished"}
        IN  /\ InFlight(p) => done /\ live[r] > 0
            /\ p \in Unstarted /\ stage[r] # "coming" => live[r] > 0

\* Every picture is coded in the end, every buffer goes back to its pool (but
\* those whose promised dependents the end of the stream cut off), and the
\* kernel has nothing left: no setting, order of arrival or lack of child
\* PictureControlSets brings the encoder to a halt.  Nothing is claimed of the
\* SequenceControlSet: its references are not all given back.
EverythingIsCoded ==
    <>[](/\ \A p \in Pictures :
               /\ stage[p] = "finished"
               /\ stream[p].overlay \/ Surplus(stream, p) = 0 => live[p] = 0
         /\ inbox = <<>> /\ inputQueue = <<>> /\ links = {} /\ freeChild = ChildPool)
=============================================================================
