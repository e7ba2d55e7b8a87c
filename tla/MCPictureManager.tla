-------------------------- MODULE MCPictureManager --------------------------
(* Instances of PictureManager for TLC. *)
EXTENDS PictureManager, TLC

Decision(number, order, refs, used, promised) ==
    [number |-> number, order |-> order, refs |-> refs, used |-> used, overlay |-> FALSE,
     promised |-> promised, self |-> 0, links |-> {}, base |-> FALSE, cdf |-> FALSE]
Link(number, diff) == [number |-> number, diff |-> diff]

\* A random access mini-GOP of four pictures, whose base picture and the key
\* picture lose dependents they were promised; the CDFs come from the references.
RandomAccess == (0 :> Decision(0, 0, <<>>, TRUE, 4))
    @@ (4 :> [Decision(4, 1, <<0, 0>>, TRUE, 4) EXCEPT !.base = TRUE])
    @@ (2 :> [Decision(2, 2, <<0, 4>>, TRUE, 2) EXCEPT !.cdf = TRUE])
    @@ (1 :> Decision(1, 3, <<0, 2>>, FALSE, 0))
    @@ (3 :> [Decision(3, 4, <<2, 4>>, FALSE, 0) EXCEPT !.cdf = TRUE])

\* Low delay pictures cut off by a key picture: it carries the correction for
\* the one that has left Picture Decision, the other corrects itself.
KeyPicture == (0 :> Decision(0, 0, <<>>, TRUE, 3))
    @@ (1 :> [Decision(1, 1, <<0, 0>>, TRUE, 2) EXCEPT !.self = -2, !.base = TRUE])
    @@ (2 :> [Decision(2, 2, <<>>, TRUE, 1) EXCEPT !.links = {Link(0, -1)}])
    @@ (3 :> [Decision(3, 3, <<2>>, FALSE, 0) EXCEPT !.cdf = TRUE])

\* A mini-GOP larger than the one before: its base picture raises the count of
\* the picture between the two.  It is an alt-ref picture with an overlay.
LargerGop == (0 :> Decision(0, 0, <<>>, TRUE, 1))
    @@ (2 :> [Decision(2, 1, <<0>>, TRUE, 2) EXCEPT !.base = TRUE, !.links = {Link(0, 1)}])
    @@ (1 :> Decision(1, 2, <<0, 2>>, FALSE, 0))
    @@ (3 :> [Decision(2, 3, <<2>>, FALSE, 0) EXCEPT !.overlay = TRUE])

Free == [decOrder |-> FALSE, managerOrder |-> FALSE, rateControl |-> FALSE]
RateControlled == [Free EXCEPT !.rateControl = TRUE]
InDecodeOrder == [Free EXCEPT !.decOrder = TRUE]
InManagerOrder == [Free EXCEPT !.managerOrder = TRUE]

AllScenarios ==
    {<<RandomAccess, Free>>, <<KeyPicture, Free>>, <<KeyPicture, InDecodeOrder>>,
     <<KeyPicture, InManagerOrder>>, <<LargerGop, RateControlled>>}
=============================================================================
