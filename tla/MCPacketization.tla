--------------------------- MODULE MCPacketization ---------------------------
(* Instances of Packetization for TLC. *)
EXTENDS Packetization

\* A key picture, a picture shown when it is coded, a hidden one, and one that
\* shows the next after itself.
Key(order) == [number |-> 0, order |-> order, refs |-> {}, cdf |-> FALSE, shown |-> TRUE,
               existing |-> FALSE, altRef |-> FALSE, overlay |-> FALSE]
Shown(number, order, refs) == [Key(order) EXCEPT !.number = number, !.refs = refs]
Hidden(number, order, refs) == [Shown(number, order, refs) EXCEPT !.shown = FALSE]
Showing(number, order, refs) == [Shown(number, order, refs) EXCEPT !.existing = TRUE]

\* The same stream with frame-end CDF updates.
WithCdf(s) == [p \in DOMAIN s |-> [s[p] EXCEPT !.cdf = s[p].shown]]

\* A random access mini-GOP of four pictures.
GopOfFour == <<Key(0), Hidden(4, 1, {1}), Hidden(2, 2, {1, 2}), Showing(1, 3, {1, 3}),
               Showing(3, 4, {2, 3})>>

\* One of eight pictures: three are hidden when the first unit is complete.
GopOfEight == <<Key(0), Hidden(8, 1, {1}), Hidden(4, 2, {1, 2}), Hidden(2, 3, {1, 3}),
                Showing(1, 4, {1, 4}), Showing(3, 5, {3, 4}), Hidden(6, 6, {2, 3}),
                Showing(5, 7, {3, 7}), Showing(7, 8, {2, 7})>>

\* Two mini-GOPs of two pictures, then one that is cut short.
GopsOfTwo == <<Key(0), Hidden(2, 1, {1}), Showing(1, 2, {1, 2}), Hidden(4, 3, {2}),
               Showing(3, 4, {2, 4}), Shown(5, 5, {4}), Shown(6, 6, {4, 6})>>

\* The base picture of a mini-GOP is an alt-ref picture with an overlay.
WithOverlay == <<Key(0), [Hidden(2, 1, {1}) EXCEPT !.altRef = TRUE], Shown(1, 2, {1, 2}),
                 [Shown(2, 3, {2}) EXCEPT !.overlay = TRUE], Shown(3, 4, {2})>>

AllStreams == {GopOfFour, WithCdf(GopOfFour), GopOfEight, WithCdf(GopOfEight), GopsOfTwo,
               WithCdf(GopsOfTwo), WithOverlay}
=============================================================================
