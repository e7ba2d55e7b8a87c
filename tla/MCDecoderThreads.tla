-------------------------- MODULE MCDecoderThreads --------------------------
(* Instances of DecoderThreads for TLC. *)
EXTENDS DecoderThreads, TLC

TileOf(top, rows, cols) == [top |-> top, rows |-> rows, cols |-> cols]
Square == <<TileOf(0, 2, 2)>>
SideBySide == <<TileOf(0, 1, 1), TileOf(0, 1, 1)>>
Stacked == <<TileOf(0, 1, 1), TileOf(1, 1, 1)>>
Single == <<TileOf(0, 1, 1)>>

Frame(rows, cols, tiles, motion, upscale, filters) ==
    [rows |-> rows, cols |-> cols, tiles |-> tiles, hint |-> TRUE, motion |-> motion,
     upscale |-> upscale, filters |-> filters, corrupt |-> {}]

\* All filters over a 2 by 2 frame; without lf, and with a motion field and
\* upscaling; two tiles below each other with the filters that look across;
\* two frames of two tiles, one of them upscaled; and a tile that is corrupt.
SmallStreams ==
    {<<Frame(2, 2, Square, FALSE, FALSE, Filters)>>,
     <<Frame(2, 2, Square, TRUE, TRUE, {"cdef", "lr"})>>,
     <<Frame(2, 1, Stacked, FALSE, FALSE, {"lf", "lr"})>>,
     <<Frame(1, 2, SideBySide, FALSE, TRUE, {"lf"}), Frame(1, 2, SideBySide, TRUE, FALSE, Filters)>>,
     <<[Frame(1, 2, SideBySide, TRUE, FALSE, Filters) EXCEPT !.corrupt = {1}]>>}

\* Two frames of a sequence without order hints.
UnhintedStreams ==
    LET f == [Frame(1, 1, Single, FALSE, FALSE, Filters) EXCEPT !.hint = FALSE] IN {<<f, f>>}

WorkerSymmetry == Permutations(Workers)
=============================================================================
