------------------------------ MODULE MCEncDec ------------------------------
(* Instances of EncDec for TLC. *)
EXTENDS EncDec, TLC

Group(w, h, cols, rows) == [w |-> w, h |-> h, cols |-> cols, rows |-> rows]

\* One tile group in several shapes, among them segments that are wider than a
\* superblock, pictures lower than their segment rows and more rows than task
\* objects; and two or three tile groups.
SmallLayouts ==
    {<<Group(3, 3, 3, 3)>>, <<Group(4, 3, 2, 2)>>, <<Group(2, 3, 5, 8)>>, <<Group(4, 2, 3, 2)>>,
     <<Group(2, 4, 1, 3)>>, <<Group(3, 4, 3, 4)>>,
     <<Group(2, 2, 2, 2), Group(1, 2, 1, 1)>>, <<Group(1, 1, 1, 1), Group(2, 1, 1, 1), Group(1, 1, 1, 1)>>}

\* A picture one superblock wide, cut into two segment rows.
NarrowLayouts == {<<Group(1, 2, 1, 2)>>}

ThreadSymmetry == Permutations(Threads)
=============================================================================
