----------------------------- MODULE PictureSets -----------------------------
(***************************************************************************)
(* The two objects every picture in work has: an EncDecSet and a child     *)
(* PictureControlSet.  The Picture Manager takes them when it starts a     *)
(* picture, Packetization gives them back while it still uses the links    *)
(* between them.  Pools are sequences: objects come and go at the front.   *)
(***************************************************************************)
EXTENDS Integers, Sequences, SequencesExt

CONSTANTS
    Pictures,
    Children,   \* child PictureControlSets
    Sets,       \* EncDecSets, which are as many
    None

VARIABLES
    stage,      \* "waiting", "linked" to a set, "started", "coded", "unlinked"
                \* (its child is given back), "packed"
    freeChildren, freeSets, \* the pools
    liveCount,  \* live_count of each set; Released when it is in the pool
    childOf,    \* c_pcs_wrapper_ptr: the child that carries each picture
    parentOf,   \* parent_pcs_ptr of each child
    setOf       \* enc_dec_ptr of each picture's parent PictureControlSet

vars == <<stage, freeChildren, freeSets, liveCount, childOf, parentOf, setOf>>

Released == -1

Init ==
    /\ stage = [p \in Pictures |-> "waiting"]
    /\ freeChildren = SetToSeq(Children) /\ freeSets = SetToSeq(Sets)
    /\ liveCount = [s \in Sets |-> Released]
    /\ childOf = [p \in Pictures |-> None]
    /\ parentOf = [c \in Children |-> None]
    /\ setOf = [p \in Pictures |-> None]

Move(p, from, to) == stage[p] = from /\ stage' = [stage EXCEPT ![p] = to]

\* The Picture Manager is one thread and starts one picture at a time.  It takes
\* the EncDecSet first and links it to the parent,
TakeSet(p) ==
    /\ \A q \in Pictures : stage[q] # "linked"
    /\ Move(p, "waiting", "linked")
    /\ freeSets # <<>>
    /\ freeSets' = Tail(freeSets)
    /\ liveCount' = [liveCount EXCEPT ![Head(freeSets)] = 1]
    /\ setOf' = [setOf EXCEPT ![p] = Head(freeSets)]
    /\ UNCHANGED <<freeChildren, childOf, parentOf>>

\* then the child, and links it to the parent.
TakeChild(p) ==
    /\ Move(p, "linked", "started")
    /\ freeChildren # <<>>
    /\ freeChildren' = Tail(freeChildren)
    /\ childOf' = [childOf EXCEPT ![p] = Head(freeChildren)]
    /\ parentOf' = [parentOf EXCEPT ![Head(freeChildren)] = p]
    /\ UNCHANGED <<freeSets, liveCount, setOf>>

\* Everything from Mode Decision Configuration to Entropy Coding.
Code(p) ==
    /\ Move(p, "started", "coded")
    /\ UNCHANGED <<freeChildren, freeSets, liveCount, childOf, parentOf, setOf>>

\* Packetization is one thread.  It releases the child,
ReleaseChild(p) ==
    /\ \A q \in Pictures : stage[q] # "unlinked"
    /\ Move(p, "coded", "unlinked")
    /\ freeChildren' = <<childOf[p]>> \o freeChildren
    /\ UNCHANGED <<freeSets, liveCount, childOf, parentOf, setOf>>

\* then the EncDecSet, which it finds through the child: svt_release_object on
\* pcs_ptr->parent_pcs_ptr->enc_dec_ptr->enc_dec_wrapper_ptr.
ReleaseSet(p) ==
    LET s == setOf[parentOf[childOf[p]]]
        count == IF liveCount[s] > 0 THEN liveCount[s] - 1 ELSE liveCount[s]
    IN  /\ Move(p, "unlinked", "packed")
        /\ liveCount' = [liveCount EXCEPT ![s] = IF count = 0 THEN Released ELSE count]
        /\ freeSets' = IF count = 0 THEN <<s>> \o freeSets ELSE freeSets
        /\ UNCHANGED <<freeChildren, childOf, parentOf, setOf>>

Next ==
    \E p \in Pictures : TakeSet(p) \/ TakeChild(p) \/ Code(p) \/ ReleaseChild(p) \/ ReleaseSet(p)

Spec == Init /\ [][Next]_vars

-----------------------------------------------------------------------------
\* While a picture is in work its EncDecSet is its own: it is released by
\* Packetization, when the picture is through, and by nobody else.
SetsAreExclusive ==
    \A p, q \in Pictures :
        p # q /\ stage[p] \in {"started", "coded"} /\ stage[q] \in {"started", "coded"} => setOf[p] # setOf[q]
=============================================================================
