------------------------- MODULE MCPictureDecision --------------------------
EXTENDS LookAhead

Stream(levels, mrp, period, refresh, overlays, forcedBound, length) ==
    [levels |-> levels, mrp |-> mrp, tuned |-> mrp = 1, period |-> period,
     refresh |-> refresh, overlays |-> overlays, forced |-> forcedBound, length |-> length,
     delay |-> IF overlays \/ levels = 3 THEN 1 ELSE 0, cores |-> IF overlays THEN 4 ELSE 1,
     free |-> FALSE]

\* An encoder in a process where another has overwritten the tables.
Tuned(s) == [s EXCEPT !.tuned = TRUE]

\* Flat and two levels.  With two levels only what the code works for: one
\* reference in each list, intra pictures where a mini-GOP ends.
SmallStreams ==
    {Stream(0, mrp, 3, "intra", FALSE, 1, 12) : mrp \in {1, 3, 4}}
    \cup {Stream(1, 4, -1, "intra", FALSE, 0, 9), Stream(1, 4, 5, "intra", FALSE, 0, 14),
          Stream(1, 4, 4, "key", FALSE, 0, 12)}

\* Three to five levels: any one picture is made key or intra-only, the stream ends
\* anywhere, and periods cut windows short.  Overlays with four levels only where
\* the last pictures of a mini-GOP are not kept.
LargeStreams ==
    {Stream(2, mrp, -1, "intra", ov, 1, 13) : mrp \in {1, 3, 4}, ov \in BOOLEAN}
    \cup {Stream(2, 3, 5, refresh, ov, 0, 16) : refresh \in {"key", "intra"}, ov \in BOOLEAN}
    \cup {Stream(3, mrp, -1, "intra", mrp # 1, 1, 26) : mrp \in {1, 3, 4}}
    \cup {Stream(3, 1, 12, refresh, FALSE, 0, 34) : refresh \in {"key", "intra"}}
    \cup {Stream(4, mrp, -1, "intra", ov, 1, 37) : mrp \in {1, 3}, ov \in BOOLEAN}
    \cup {Stream(4, 4, 24, refresh, TRUE, 0, 58) : refresh \in {"key", "intra"}}
    \cup {Tuned(Stream(3, 3, -1, "intra", FALSE, 0, 26)), Tuned(Stream(4, 4, -1, "intra", FALSE, 0, 36))}

\* Six levels: intra pictures where a mini-GOP of 32 ends, key pictures anywhere.
SixLevelStreams ==
    {Stream(5, mrp, 31, "intra", FALSE, 0, 78) : mrp \in {3, 4}}
    \cup {Stream(5, 3, 44, "key", FALSE, 0, 98)}

\* Small mini-GOPs, with the kernels in any order.
Free(s, delay, cores) == [s EXCEPT !.free = TRUE, !.delay = delay, !.cores = cores]
FreeStreams ==
    {Free(Stream(0, 3, 3, "intra", FALSE, 1, 6), 0, 1),
     Free(Stream(2, 3, -1, "intra", FALSE, 1, 9), 1, 1),
     Free(Stream(2, 3, 5, "key", FALSE, 0, 16), 0, 2),
     Free(Stream(2, 3, 5, "intra", TRUE, 0, 10), 1, 4),
     Free(Stream(3, 3, -1, "intra", FALSE, 0, 22), 1, 1)}

AllStreams == SmallStreams \cup LargeStreams \cup SixLevelStreams \cup FreeStreams

\* Overlays on one or two cores, where the parent sets do not suffice: with these
\* streams EveryPictureLeaves does not hold.
OverlayStreams ==
    {[Stream(levels, 3, -1, "intra", TRUE, 0, 50) EXCEPT !.cores = cores] :
        levels \in 2 .. 4, cores \in {1, 2}}

\* Six levels, with an intra picture after 24 pictures of a window.
OffPeriodStreams == {Stream(5, 3, 55, "intra", FALSE, 0, 66)}

=============================================================================
