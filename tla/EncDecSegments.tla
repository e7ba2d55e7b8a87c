--------------------------- MODULE EncDecSegments ---------------------------
(***************************************************************************)
(* The geometry of EncDecSegments: how a tile group of w by h superblocks  *)
(* is cut into segments, which are numbered, made dependent on each other, *)
(* and walked superblock by superblock.  A segment is the part of a row of *)
(* segments that lies in one band, a band being a range of x + y.          *)
(*                                                                         *)
(* A geometry is a record [w, h, cols, rows]: the size of the tile group   *)
(* and the segment counts that were configured.                            *)
(***************************************************************************)
EXTENDS Integers, FiniteSets

Shapes == [w : Nat \ {0}, h : Nat \ {0}, cols : Nat \ {0}, rows : Nat \ {0}]

AtMost(a, b) == IF a < b THEN a ELSE b

Superblocks(g) == (0..g.w - 1) \X (0..g.h - 1)

\* enc_dec_segments_init: the counts, clamped to the size of the tile group.
ColCount(g) == AtMost(g.cols, g.w)
RowCount(g) == AtMost(g.rows, g.h)
BandCount(g) == RowCount(g) + ColCount(g) - 1      \* BAND_TOTAL_COUNT
SbBandCount(g) == g.h + g.w - 1
Rows(g) == 0..RowCount(g) - 1
Indices(g) == 0..RowCount(g) * BandCount(g) - 1

\* ROW_INDEX, BAND_INDEX and SEGMENT_INDEX.
RowIndex(g, y) == (y * RowCount(g)) \div g.h
BandIndex(g, x, y) == ((x + y) * BandCount(g)) \div SbBandCount(g)
SegmentIndex(g, x, y) == RowIndex(g, y) * BandCount(g) + BandIndex(g, x, y)

\* The superblocks of segment s; valid_sb_count_array holds their number.
SbsOf(g, s) == {b \in Superblocks(g) : SegmentIndex(g, b[1], b[2]) = s}

\* The row controls: the first and the last segment of row r.
StartOf(g, r) ==
    LET y == (r * g.h + RowCount(g) - 1) \div RowCount(g)
    IN  r * BandCount(g) + BandIndex(g, 0, y)
EndOf(g, r) ==
    LET y == ((r + 1) * g.h + RowCount(g) - 1) \div RowCount(g) - 1
    IN  r * BandCount(g) + BandIndex(g, g.w - 1, y)

SegmentRow(g, s) == s \div BandCount(g)
SegmentsOf(g, r) == {s \in StartOf(g, r)..EndOf(g, r) : SbsOf(g, s) # {}}

\* Whether finishing segment s clears a dependency of the next segment of its
\* row, and of the segment of its band in the row below.
HasRight(g, s) == s < EndOf(g, SegmentRow(g, s))
HasBelow(g, s) ==
    LET r == SegmentRow(g, s)
    IN  r < RowCount(g) - 1 /\ s + BandCount(g) \geq StartOf(g, r + 1)

\* dependency_map: how many segments must be finished before each one.
Dependencies(g) ==
    [s \in Indices(g) |->
        LET source == UNION {SegmentsOf(g, r) : r \in Rows(g)}
        IN  Cardinality({f \in source : f + 1 = s /\ HasRight(g, f)})
            + Cardinality({f \in source : f + BandCount(g) = s /\ HasBelow(g, f)})]

-----------------------------------------------------------------------------
\* The superblock loops of mode_decision_kernel.  They start at the segment's
\* first superblock in raster order, go right as long as the band lasts, and
\* start each next line one superblock further left, until as many superblocks
\* are coded as the segment has.

Before(b, c) == b[2] < c[2] \/ (b[2] = c[2] /\ b[1] < c[1])
First(sbs) == CHOOSE b \in sbs : \A c \in sbs : b = c \/ Before(b, c)
FirstOf(g, s) == First(SbsOf(g, s))    \* x_start_array and y_start_array

BandSize(g, s) ==   \* segment_band_size: where the band ends
    (SbBandCount(g) * ((s % BandCount(g)) + 1) + BandCount(g) - 1) \div BandCount(g)

\* Bug: the lines all start in the same column.
LineStartStraight(g, s, y) == FirstOf(g, s)[1]
\* x_sb_start_index, when the line is y
LineStart(g, s, y) ==
    LET x == FirstOf(g, s)[1] - (y - FirstOf(g, s)[2]) IN IF x > 0 THEN x ELSE 0

\* The lines go on below the segment; the number of superblocks ends the walk.
InLines(g, s) ==
    {b \in Superblocks(g) :
        /\ b[2] \geq FirstOf(g, s)[2] /\ b[1] \geq LineStart(g, s, b[2])
        /\ b[1] + b[2] < BandSize(g, s)}
Walk(g, s) ==
    {b \in InLines(g, s) :
        Cardinality({c \in InLines(g, s) : Before(c, b)}) < Cardinality(SbsOf(g, s))}

\* What coding superblock b reads: left, above, and above to the right (the
\* CDFs averaged into ec_ctx_array, the intra and motion vector neighbours).
Neighbours(g, b) ==
    {<<b[1] - 1, b[2]>>, <<b[1], b[2] - 1>>, <<b[1] + 1, b[2] - 1>>} \cap Superblocks(g)
=============================================================================
