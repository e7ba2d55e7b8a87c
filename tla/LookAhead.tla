------------------------------ MODULE LookAhead -----------------------------
(***************************************************************************)
(* The picture decision kernel between its neighbours, and the two pools   *)
(* they live on.  Resource Coordination takes a parent picture control set *)
(* for every picture of the application, and one more for a potential      *)
(* overlay; picture decision takes a motion estimation object for every    *)
(* picture of a mini-GOP; Initial Rate Control holds base pictures back    *)
(* until the mini-GOPs after them are there; Source Based Operations runs  *)
(* TPL over these and releases picture analysis references; both objects   *)
(* come back when a picture is coded.                                      *)
(*                                                                         *)
(* Each pool has a single taker, so that whether the encoder comes to a    *)
(* halt does not depend on the order in which the kernels run.  A stream   *)
(* of large mini-GOPs is run with the later kernels first, any other with  *)
(* the kernels in any order (the field free).                              *)
(*                                                                         *)
(* TPL is on, as by default, and the encoder makes one pass.  The other    *)
(* pools (input, reference, picture analysis reference, child) are left    *)
(* out.                                                                    *)
(***************************************************************************)
EXTENDS PictureDecision, SequencesExt

\* Further fields of a stream:
\*   delay      scd_delay, future pictures picture decision waits for
\*   cores      core_count
\*   free       the kernels run in any order
ASSUME LookAheadAssumption ==
    \A s \in Streams :
        /\ s.delay \in 0 .. 6 /\ s.cores \in Nat \ {0} /\ s.free \in BOOLEAN
        /\ s.overlays => s.delay > 0

VARIABLES
    taken,      \* parent sets taken for pictures and potential overlays
    closed,     \* the end of the stream has been given, with a set of its own
    parents,    \* free objects of the parent picture control set pool
    meObjects,  \* free objects of the motion estimation pool
    held,       \* prev_delayed_intra: none or one picture
    inMe,       \* decode orders of pictures in motion estimation
    lad,        \* decode orders in lad_queue
    left,       \* decode order at its head
    results,    \* pictures on their way to Source Based Operations
    released    \* for each picture of "sent": releases of its PA references

coordinationVars == <<taken, closed>>
aheadVars == <<coordinationVars, parents, meObjects, held, inMe, lad, left, results, released>>

LadMg == 1      \* lad_mg, the mini-GOPs a base picture waits for

-----------------------------------------------------------------------------
(* The pools: load_default_buffer_configuration_settings.                  *)

MgSize == Period(stream.levels)

MinParent ==
    IF stream.overlays THEN 2 * (MgSize + 1 + 1 + stream.delay) + 1
    ELSE (1 + MgSize) * (LadMg + 1) + stream.delay + 1

MinMe == MgSize + 1 + (1 + MgSize) * LadMg

ParentCount == IF stream.cores <= 2 THEN MinParent ELSE Max({MinParent, 64})

MeCount ==
    CASE stream.cores = 1 -> MinMe
      [] stream.cores = 2 -> Max({MinMe, MinParent})
      [] OTHER            -> Max({MinMe, 55})

AheadInit ==
    /\ Init
    /\ taken = 0 /\ closed = FALSE
    /\ parents = ParentCount /\ meObjects = MeCount
    /\ held = <<>> /\ inMe = {} /\ lad = {} /\ left = 0
    /\ results = <<>> /\ released = <<>>

-----------------------------------------------------------------------------
(* Resource Coordination and Picture Analysis.                             *)

\* Sets taken before that of a picture: every picture but the first takes two.
SetsBefore(pic) == IF stream.overlays /\ pic > 0 THEN 2 * pic - 1 ELSE pic
PicturesTaken == IF stream.overlays THEN (taken + 1) \div 2 ELSE taken
AtPicture == taken = SetsBefore(PicturesTaken)

\* A set is posted when the next one has been taken.
Posted(pic) == taken + (IF closed THEN 1 ELSE 0) > SetsBefore(pic) + 1

LastSet == AtPicture /\ PicturesTaken = stream.length

-----------------------------------------------------------------------------
(* Initial Rate Control and Source Based Operations.                       *)

Pic(o) == sent[o - coded + 1]

\* lad_queue as it is read from an entry on: up to the first empty one.
From(queue, o) == o .. Min({p \in o .. Max(queue) + 1 : p \notin queue}) - 1

\* process_lad_queue, for one entry of the queue: mini-GOPs are counted by their
\* size until there are as many as the head needs, fewer at the end of the stream.
Counted(c, o) ==
    LET p == Pic(o)
        target == IF EndsStream(p.pic) THEN Min({c.target, p.mg - c.own + 1}) ELSE c.target
        full == c.pictures + 1 = p.mgSize
        mgs == IF full THEN c.mgs + 1 ELSE c.mgs
    IN  IF c.end # None THEN c
        ELSE [c EXCEPT !.target = target, !.mgs = mgs,
                       !.pictures = IF full THEN 0 ELSE @ + 1,
                       !.end = IF mgs = target THEN p.mg ELSE None]

CountFrom(queue, h, target) ==
    FoldLeft(Counted,
             [own |-> Pic(h).mg, mgs |-> 0, pictures |-> 0, target |-> target, end |-> None],
             [k \in 1 .. Cardinality(From(queue, h)) |-> h + k - 1])

\* The last mini-GOP of the extended group of a base picture, if it is there.
\* Bug: a delayed intra picture needs no more than another.
LastMgSameForIntra(queue, h) == CountFrom(queue, h, LadMg + 1).end
LastMg(queue, h) ==
    CountFrom(queue, h, LadMg + 1 + (IF Pic(h).delayed THEN 1 ELSE 0)).end

IsBase(o) == Pic(o).layer = 0

\* Base pictures are held, others pass.
GoesOut(queue, o) == IsBase(o) => LastMg(queue, o) # None

\* Where process_lad_queue stops: the first picture that is not there or is held.
FirstHeld(queue) ==
    LET seen == From(queue, left)
    IN  Min({o \in seen : ~GoesOut(queue, o)} \cup {left + Cardinality(seen)})

\* store_extended_group: ext_group of a base picture.
ExtGroup(queue, h) ==
    IF IsBase(h) THEN {o \in From(queue, h) : Pic(o).mg <= LastMg(queue, h)} ELSE {}

\* ntpl_group stops at a delayed intra picture, or after the mini-GOP of another.
IntrasBefore(group, h, o) == {p \in group : p > h /\ p < o /\ Pic(p).slice = "I"}
StopsAt(group, h, o) ==
    IF Pic(o).slice = "I" THEN o # h /\ Pic(o).delayed
    ELSE LET intras == IntrasBefore(group, h, o)
         IN  intras # {} /\ Pic(Max(intras)).mg # Pic(o).mg
TplGroup(group, h) ==
    LET stops == {o \in group : StopsAt(group, h, o)}
    IN  {o \in group : stops = {} \/ o < Min(stops)}

\* The end of tpl_mc_flow: pictures of the low delay structure and overlays are used
\* by the base picture of the mini-GOP before theirs, the others by their own.
\* Bug: all are released by the base picture of their own mini-GOP.
DoneByOwn(group, h) == {o \in TplGroup(group, h) : Pic(o).mg = Pic(h).mg}
DoneBy(group, h) ==
    {o \in TplGroup(group, h) :
        Pic(o).mg = IF Pic(o).slice = "P" THEN Pic(h).mg + 1 ELSE Pic(h).mg}

-----------------------------------------------------------------------------
(* The kernels.                                                            *)

\* store_tpl_pictures takes motion estimation objects for a whole mini-GOP, when it
\* has a base picture that is not delayed or follows one that was.
TplStored == held # <<>> \/ \E k \in DOMAIN decided : decided[k].layer = 0 /\ ~decided[k].delayed

MeNeeded ==
    (IF held # <<>> /\ ~held[1].hasMe THEN 1 ELSE 0)
    + (IF TplStored THEN Len(decided)
       ELSE Cardinality({k \in DOMAIN decided : ~decided[k].delayed}))

\* What each kernel can do, from the first one on.
Ready ==
    <<~closed /\ parents > 0,
      ~ended /\ gops = <<>> /\ Posted(arrived) /\ (Posted(arrived + stream.delay) \/ closed),
      gops # <<>> /\ idx < Head(gops).len,
      gops # <<>> /\ idx = Head(gops).len /\ MeNeeded <= meObjects,
      inMe # {},
      results # <<>>,
      sent # <<>> /\ coded < left - Len(results)>>

Runs(kernel) ==
    \E ready \in {Ready} :
        ready[kernel] /\ (stream.free \/ \A later \in kernel + 1 .. Len(ready) : ~ready[later])

\* A parent set is taken and the one before it goes to Picture Analysis.
TakeSet ==
    /\ Runs(1) /\ ~LastSet
    /\ taken' = taken + 1 /\ parents' = parents - 1
    /\ UNCHANGED <<vars, closed, meObjects, held, inMe, lad, left, results, released>>

\* The end of the stream takes a set that no picture brings back.
TakeEnd ==
    /\ Runs(1) /\ AtPicture /\ taken > 0
    /\ closed' = TRUE /\ parents' = parents - 1
    /\ UNCHANGED <<vars, taken, meObjects, held, inMe, lad, left, results, released>>

PictureArrives(wish) ==
    /\ Runs(2)
    /\ Arrive(wish, closed /\ arrived + 1 = PicturesTaken)
    /\ UNCHANGED aheadVars

\* The set of an overlay that will not be is released.
HasOverlay == Len(decided') = Len(decided) + 2
DecidePicture ==
    /\ Runs(3)
    /\ Decide
    /\ parents' = IF stream.overlays /\ Picture(Head(gops), idx).pic > 0 /\ ~HasOverlay
                  THEN parents + 1 ELSE parents
    /\ UNCHANGED <<coordinationVars, meObjects, held, inMe, lad, left, results, released>>

SendMiniGop ==
    /\ Runs(4)
    /\ Send
    /\ meObjects' = meObjects - MeNeeded
    /\ LET waits == {k \in DOMAIN decided : decided[k].delayed}
       IN  /\ inMe' = inMe \cup {decided[k].order : k \in DOMAIN decided \ waits}
                           \cup {held[k].order : k \in DOMAIN held}
           /\ held' = IF waits = {} THEN <<>>
                      ELSE <<[order |-> decided[Max(waits)].order, hasMe |-> TplStored]>>
    /\ released' = released \o [k \in DOMAIN decided |-> 0]
    /\ UNCHANGED <<coordinationVars, parents, lad, left, results>>

\* The last segment of a picture comes to Initial Rate Control: it enters lad_queue,
\* which lets out the pictures at its head that need not wait.
Measured(o) ==
    /\ inMe' = inMe \ {o}
    /\ \E queue \in {lad \cup {o}} :
       \E head \in {FirstHeld(queue)} :
          /\ lad' = queue \ (left .. head - 1)
          /\ left' = head
          /\ results' = results \o
                [k \in 1 .. head - left |->
                    [order |-> left + k - 1, group |-> ExtGroup(queue, left + k - 1)]]
    /\ UNCHANGED <<vars, coordinationVars, parents, meObjects, held, released>>

\* Motion estimation has several processes: a picture may overtake the one before it.
MeasurePicture ==
    /\ Runs(5)
    /\ \E o \in inMe :
         /\ Cardinality({p \in inMe : p < o}) <= (IF stream.free THEN 1 ELSE 0)
         /\ Measured(o)

\* Source Based Operations: TPL for a base picture.
AnalysePicture ==
    /\ Runs(6)
    /\ \E r \in {Head(results)} :
       \E done \in {IF IsBase(r.order) THEN DoneBy(r.group, r.order) ELSE {}} :
          released' = [k \in DOMAIN released |->
                         released[k] + (IF coded + k - 1 \in done THEN 1 ELSE 0)]
    /\ results' = Tail(results)
    /\ UNCHANGED <<vars, coordinationVars, parents, meObjects, held, inMe, lad, left>>

\* A picture is coded: its parent set and its motion estimation object are free.
CodePicture ==
    /\ Runs(7)
    /\ Code
    /\ parents' = parents + 1 /\ meObjects' = meObjects + 1
    /\ released' = Tail(released)
    /\ UNCHANGED <<coordinationVars, held, inMe, lad, left, results>>

AheadNext ==
    \/ TakeSet \/ TakeEnd
    \/ \E wish \in {"none", "key", "intra"} : PictureArrives(wish)
    \/ DecidePicture \/ SendMiniGop \/ MeasurePicture \/ AnalysePicture \/ CodePicture

AheadSpec == AheadInit /\ [][AheadNext]_<<vars, aheadVars>>

-----------------------------------------------------------------------------

\* The stream has ended and every picture has been coded.
Over == closed /\ ended /\ gops = <<>> /\ sent = <<>> /\ held = <<>>

\* Every object is back, but for the parent set that the end of the stream took.
AllReturned == parents = ParentCount - 1 /\ meObjects = MeCount

\* The pools are large enough: when no kernel can do anything, the stream is over and
\* all objects are back.
EveryPictureLeaves ==
    (\A kernel \in DOMAIN Ready : ~Ready[kernel]) => Over /\ AllReturned

\* What lad_mg promises: a base picture that goes on to TPL brings whole mini-GOPs with
\* consecutive numbers, its own and those of the next LadMg base pictures, two more
\* when it is delayed, or all up to the end of the stream.
LookAheadIsWhole ==
    results # <<>> /\ IsBase(Head(results).order) =>
      LET h == Head(results).order
          group == Head(results).group
          mgs == {Pic(o).mg : o \in group}
          wanted == Pic(h).mg .. Pic(h).mg + LadMg + (IF Pic(h).delayed THEN 1 ELSE 0)
      IN  /\ \A o \in group :
               Cardinality({p \in group : Pic(p).mg = Pic(o).mg}) = Pic(o).mgSize
          /\ mgs = Pic(h).mg .. Max(mgs)
          /\ mgs = wanted \/ (mgs \subseteq wanted /\ \E o \in group : EndsStream(Pic(o).pic))

\* The picture analysis references of a picture are released exactly once before it
\* is coded: not at all keeps them from the pool for ever, twice gives them to another
\* picture while they are in use.
PaReferencesReleasedOnce ==
    sent # <<>> /\ coded < left - Len(results) => released[1] = 1

=============================================================================
