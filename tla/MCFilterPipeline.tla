-------------------------- MODULE MCFilterPipeline --------------------------
(* Instances of FilterPipeline for TLC. *)
EXTENDS FilterPipeline, TLC

Picture(cdef, rest, rows, ref) == [cdef |-> cdef, rest |-> rest, rows |-> rows, reference |-> ref]

SmallStreams ==
    {<<Picture(2, 1, <<2>>, TRUE), Picture(1, 2, <<2>>, FALSE), Picture(1, 1, <<2>>, FALSE)>>,
     <<Picture(2, 2, <<1, 2>>, TRUE), Picture(1, 2, <<1, 2>>, TRUE)>>}

FewOfEach == [r \in Resources |-> IF r \in {"rest", "ec"} THEN 2 ELSE 1]
WorkerSymmetry ==
    Permutations(Cdef) \cup Permutations(Rest) \cup Permutations(Ec) \cup Permutations(Slots)
=============================================================================
