----------------------------- MODULE ObjectPool -----------------------------
(***************************************************************************)
(* What a system resource promises, without queues, semaphores or          *)
(* processes: an object is handed out only while nobody refers to it,      *)
(* stays out until its last reference is dropped, and posted objects are   *)
(* received each once and in the order they were posted, except that as    *)
(* many may be under way as there are receivers.                           *)
(***************************************************************************)
EXTENDS Integers, Sequences

CONSTANTS Objects, Receivers      \* Receivers: how many processes receive

VARIABLES
    references,     \* [Objects -> Nat], 0 when the object is in the pool
    line            \* the posted objects in order, not yet received

vars == <<references, line>>

Init == references = [o \in Objects |-> 0] /\ line = <<>>

InLine(o) == \E i \in DOMAIN line : line[i] = o

Acquire(o) ==
    /\ references[o] = 0
    /\ references' = [references EXCEPT ![o] = 1]
    /\ UNCHANGED line

Share(o) ==
    /\ references[o] > 0
    /\ references'[o] > references[o]
    /\ references' = [references EXCEPT ![o] = references'[o]]
    /\ UNCHANGED line

Post(o) ==
    /\ references[o] > 0 /\ ~InLine(o)
    /\ line' = Append(line, o)
    /\ UNCHANGED references

Receive(i) ==
    /\ i \leq Receivers
    /\ line' = SubSeq(line, 1, i - 1) \o SubSeq(line, i + 1, Len(line))
    /\ UNCHANGED references

\* The reference that travels with a posted object is not dropped.
Drop(o) ==
    /\ references[o] > IF InLine(o) THEN 1 ELSE 0
    /\ references' = [references EXCEPT ![o] = @ - 1]
    /\ UNCHANGED line

Next ==
    \/ \E o \in Objects : Acquire(o) \/ Share(o) \/ Post(o) \/ Drop(o)
    \/ \E i \in 1..Len(line) : Receive(i)

Spec == Init /\ [][Next]_vars
=============================================================================
