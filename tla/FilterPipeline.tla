--------------------------- MODULE FilterPipeline ---------------------------
(***************************************************************************)
(* A picture from the end of EncDec to Packetization:                      *)
(*                                                                         *)
(*   DLF -> CDEF -> Restoration -> Entropy Coding                          *)
(*                                                                         *)
(* DLF filters a whole picture and posts one DlfResults per segment.  CDEF *)
(* and Restoration search their segments in parallel; the worker that      *)
(* counts the last one filters the whole picture and posts the next        *)
(* stage's objects, all under the picture's mutex and with its own input   *)
(* unreleased.  Restoration posts one object per tile, and the worker of   *)
(* Entropy Coding that completes the last tile posts the picture.          *)
(*                                                                         *)
(* A picture lives in a child PictureControlSet (a slot), which goes back  *)
(* to its pool when Packetization is done with the picture, and is then    *)
(* set up for another one.  Every resource between the stages is a pool of *)
(* objects and a queue of the posted ones, as ObjectPool has it.           *)
(***************************************************************************)
EXTENDS Naturals, Sequences, FiniteSets

CONSTANTS
    Slots,              \* child PictureControlSets
    Dlf, Cdef, Rest, Ec,    \* the worker threads of each stage
    Capacity,           \* objects of each resource
    Streams,            \* sequences of pictures
    None

Workers == Dlf \cup Cdef \cup Rest \cup Ec
Searching == {"cdef", "rest"}
Stages == {"dlf", "ec"} \cup Searching
Resources == Stages \cup {"packet"}     \* named for the stage they lead to

\* Segments of CDEF and of Restoration, the superblock rows of each tile, and whether
\* other pictures will refer to it.
Pictures ==
    [cdef : Nat \ {0}, rest : Nat \ {0}, rows : Seq(Nat \ {0}) \ {<<>>}, reference : BOOLEAN]

ASSUME FilterPipelineAssumption ==
    /\ IsFiniteSet(Workers) /\ Capacity \in [Resources -> Nat \ {0}]
    /\ Dlf \cap (Cdef \cup Rest \cup Ec) = {} /\ Cdef \cap (Rest \cup Ec) = {} /\ Rest \cap Ec = {}
    /\ None \notin Workers \cup Slots
    /\ \A str \in Streams :
          /\ str \in Seq(Pictures)
          /\ \A p \in DOMAIN str : str[p].rows = str[1].rows  \* the tiling is the sequence's

VARIABLES
    stream, started,    \* the pictures, and the number of those begun
    picture,            \* the picture a slot is set up for, 0 when it is in the pool
    free, queue,        \* objects of each resource: empty ones, posted ones
    at, job,            \* where a worker is, and what it has taken
    left,               \* segments or tiles a worker has still to post
    searched, holder,   \* tot_seg_searched_cdef, _rest and the two search mutexes
    fresh,              \* entropy_coding_pic_reset_flag
    tile,               \* entropy_coding_info of a slot
    reference,          \* pictures announced to the Picture Manager
    packets,            \* pictures posted to Packetization, in order
    overtaken           \* history: a slot has come back while a worker lingered at it

slotVars == <<picture, searched, holder, fresh, tile>>
vars == <<stream, started, slotVars, free, queue, at, job, left, reference, packets, overtaken>>

Stage(w) ==
    CASE w \in Dlf -> "dlf" [] w \in Cdef -> "cdef" [] w \in Rest -> "rest" [] w \in Ec -> "ec"
Output(s) ==
    CASE s = "dlf" -> "cdef" [] s = "cdef" -> "rest" [] s = "rest" -> "ec" [] s = "ec" -> "packet"

Pic(c) == stream[picture[c]]
Tiles(c) == DOMAIN Pic(c).rows

\* What a stage posts for a picture: a segment each, or a tile each.
Parts(s, c) ==
    CASE s = "dlf" -> Pic(c).cdef [] s = "cdef" -> Pic(c).rest [] s = "rest" -> Len(Pic(c).rows)
      [] s = "ec" -> 1

\* A tile of n rows as the Picture Manager sets it up: entropy_coding_current_row,
\* _current_available_row, _in_progress, _tile_done, and the rows in the bitstream.
NewTile(n) == [rows |-> n, row |-> 0, ready |-> 0, busy |-> FALSE, done |-> FALSE, coded |-> 0]
NoJob == [slot |-> None, part |-> 0, pic |-> 0, row |-> 0, first |-> FALSE, last |-> FALSE]

Init ==
    /\ stream \in Streams /\ started = 0
    /\ picture = [c \in Slots |-> 0]
    /\ free = Capacity /\ queue = [r \in Resources |-> <<>>]
    /\ at = [w \in Workers |-> "idle"] /\ job = [w \in Workers |-> NoJob]
    /\ left = [w \in Workers |-> 0]
    /\ searched = [s \in Searching |-> [c \in Slots |-> 0]]
    /\ holder = [s \in Searching |-> [c \in Slots |-> None]]
    /\ fresh = [c \in Slots |-> FALSE]
    /\ tile = [c \in Slots |-> <<>>]
    /\ reference = {} /\ packets = <<>> /\ overtaken = FALSE

-----------------------------------------------------------------------------
(* Around the stages.                                                      *)

\* A worker that was done with a tile of the last picture of the slot has not yet
\* found that there is no row left.
Lingers(c) == \E w \in Ec : at[w] = "rows" /\ job[w].slot = c

\* The Picture Manager takes a slot and sets its tiles up (init_enc_dec_segement);
\* EncDec posts the picture.  Nothing keeps a slot from coming back while a worker
\* lingers, who will find the rows of the new picture there.
Start(c) ==
    /\ picture[c] = 0 /\ started < Len(stream) /\ free["dlf"] > 0
    /\ started' = started + 1
    /\ picture' = [picture EXCEPT ![c] = started']
    /\ tile' = [tile EXCEPT ![c] = [k \in DOMAIN stream[started'].rows |-> NewTile(stream[started'].rows[k])]]
    /\ fresh' = [fresh EXCEPT ![c] = TRUE]
    /\ free' = [free EXCEPT !["dlf"] = @ - 1]
    /\ queue' = [queue EXCEPT !["dlf"] = Append(@, [slot |-> c, part |-> 0])]
    /\ overtaken' = (overtaken \/ Lingers(c))
    /\ UNCHANGED <<stream, searched, holder, at, job, left, reference, packets>>

\* Packetization releases the child, and its own input.
Packetize ==
    /\ queue["packet"] # <<>>
    /\ LET c == Head(queue["packet"]).slot IN
       /\ picture' = [picture EXCEPT ![c] = 0]
       /\ packets' = Append(packets, picture[c])
    /\ queue' = [queue EXCEPT !["packet"] = Tail(@)]
    /\ free' = [free EXCEPT !["packet"] = @ + 1]
    /\ UNCHANGED <<stream, started, searched, holder, fresh, tile, at, job, left, reference, overtaken>>

-----------------------------------------------------------------------------
(* What the stages have in common.                                         *)

GoTo(w, place) == at' = [at EXCEPT ![w] = place]

Take(w) ==
    LET s == Stage(w) IN
    /\ at[w] = "idle" /\ queue[s] # <<>>
    /\ LET m == Head(queue[s]) IN
       job' = [job EXCEPT ![w] =
           [slot |-> m.slot, part |-> m.part, pic |-> picture[m.slot], row |-> 0,
            first |-> TRUE, last |-> FALSE]]
    /\ queue' = [queue EXCEPT ![s] = Tail(@)]
    /\ GoTo(w, IF s = "ec" THEN "rows" ELSE "work")
    /\ UNCHANGED <<stream, started, slotVars, free, left, reference, packets, overtaken>>

\* One of the results of a picture: get an empty object, fill it, post it.
PostPart(w) ==
    LET s == Stage(w)
        c == job[w].slot
        r == Output(s)
    IN /\ at[w] = "post" /\ left[w] > 0 /\ free[r] > 0
       /\ free' = [free EXCEPT ![r] = @ - 1]
       /\ queue' = [queue EXCEPT ![r] = Append(@, [slot |-> c, part |-> Parts(s, c) - left[w] + 1])]
       /\ left' = [left EXCEPT ![w] = @ - 1]
       /\ UNCHANGED <<stream, started, slotVars, at, job, reference, packets, overtaken>>

\* After the last one the mutex is released.
EndPosting(w) ==
    LET s == Stage(w) IN
    /\ at[w] = "post" /\ left[w] = 0
    /\ holder' = IF s \in Searching THEN [holder EXCEPT ![s][job[w].slot] = None] ELSE holder
    /\ GoTo(w, "release")
    /\ UNCHANGED <<stream, started, picture, searched, fresh, tile, free, queue, job, left, reference, packets, overtaken>>

\* Bug: the worker that filtered the picture keeps its input.
ReleaseUnlessLast(w) == IF job[w].last THEN free ELSE [free EXCEPT ![Stage(w)] = @ + 1]
Release(w) == [free EXCEPT ![Stage(w)] = @ + 1]

GiveBack(w) ==
    /\ at[w] = "release"
    /\ free' = Release(w)
    /\ job' = [job EXCEPT ![w] = NoJob]
    /\ GoTo(w, "idle")
    /\ UNCHANGED <<stream, started, slotVars, queue, left, reference, packets, overtaken>>

-----------------------------------------------------------------------------
(* Deblocking, CDEF and Restoration.                                       *)

\* The whole picture is deblocked; the segments of CDEF are still to be searched.
Deblock(w) ==
    LET c == job[w].slot IN
    /\ w \in Dlf /\ at[w] = "work"
    /\ searched' = [searched EXCEPT !["cdef"][c] = 0]
    /\ left' = [left EXCEPT ![w] = Parts("dlf", c)]
    /\ GoTo(w, "post")
    /\ UNCHANGED <<stream, started, picture, holder, fresh, tile, free, queue, job, reference, packets, overtaken>>

Total(s, c) == Parts(IF s = "cdef" THEN "dlf" ELSE "cdef", c)

\* Bug: the segment being counted is taken for counted already.
CompletesEarly(s, c) == searched[s][c] + 2 >= Total(s, c)
Completes(s, c) == searched[s][c] + 1 = Total(s, c)

\* A segment is searched, and counted under the mutex.  The last one keeps it.
CountSegment(w) ==
    LET s == Stage(w)
        c == job[w].slot
    IN /\ s \in Searching /\ at[w] = "work" /\ holder[s][c] = None
       /\ searched' = [searched EXCEPT ![s][c] = @ + 1]
       /\ holder' = IF Completes(s, c) THEN [holder EXCEPT ![s][c] = w] ELSE holder
       /\ job' = [job EXCEPT ![w].last = Completes(s, c)]
       /\ GoTo(w, IF Completes(s, c) THEN "filter" ELSE "release")
       /\ UNCHANGED <<stream, started, picture, fresh, tile, free, queue, left, reference, packets, overtaken>>

\* The whole picture is filtered.  Restoration announces a reference picture to
\* the Picture Manager, which takes such messages at any time.
FilterPicture(w) ==
    LET s == Stage(w)
        c == job[w].slot
    IN /\ s \in Searching /\ at[w] = "filter"
       /\ searched' = IF s = "cdef" THEN [searched EXCEPT !["rest"][c] = 0] ELSE searched
       /\ reference' = IF s = "rest" /\ Pic(c).reference THEN reference \cup {picture[c]} ELSE reference
       /\ left' = [left EXCEPT ![w] = Parts(s, c)]
       /\ GoTo(w, "post")
       /\ UNCHANGED <<stream, started, picture, holder, fresh, tile, free, queue, job, packets, overtaken>>

-----------------------------------------------------------------------------
(* Entropy Coding (entropy_coding_kernel).                                 *)

\* update_entropy_coding_rows, under the tile's mutex: on the first call the
\* rows of the message become available, on the others the row just coded is
\* not in progress any more; then the next row is taken.
NextRow(w) ==
    LET c == job[w].slot
        k == job[w].part
        t == [tile[c][k] EXCEPT !.ready = IF job[w].first THEN tile[c][k].rows ELSE @,
                                !.busy = job[w].first /\ @]
        go == t.row < t.rows /\ t.row < t.ready /\ ~t.busy
    IN /\ w \in Ec /\ at[w] = "rows"
       /\ tile' = [tile EXCEPT ![c][k] = IF go THEN [t EXCEPT !.busy = TRUE, !.row = @ + 1] ELSE t]
       /\ job' = [job EXCEPT ![w].first = FALSE, ![w].row = IF go THEN t.row ELSE @]
       /\ left' = [left EXCEPT ![w] = IF ~go /\ job[w].last THEN 1 ELSE 0]
       /\ GoTo(w, IF go THEN "row" ELSE IF job[w].last THEN "post" ELSE "release")
       /\ UNCHANGED <<stream, started, picture, searched, holder, fresh, free, queue, reference, packets, overtaken>>

\* Bug: every tile resets the coders of the picture.
NeedsResetAlways(c) == TRUE
NeedsReset(c) == fresh[c]

\* The first row of the first tile resets the coders of all tiles
\* (reset_entropy_coding_picture), under the picture's mutex.
BeginRow(w) ==
    LET c == job[w].slot
        reset == job[w].row = 0 /\ NeedsReset(c)
    IN /\ w \in Ec /\ at[w] = "row"
       /\ fresh' = IF reset THEN [fresh EXCEPT ![c] = FALSE] ELSE fresh
       /\ tile' = IF reset THEN [tile EXCEPT ![c] = [k \in DOMAIN @ |-> [@[k] EXCEPT !.coded = 0]]] ELSE tile
       /\ GoTo(w, "code")
       /\ UNCHANGED <<stream, started, picture, searched, holder, free, queue, job, left, reference, packets, overtaken>>

\* The superblocks of the row; the bits are reported to Rate Control.
\* entropy_coding_tile_done is cleared without a mutex.
CodeRow(w) ==
    LET c == job[w].slot
        k == job[w].part
    IN /\ w \in Ec /\ at[w] = "code"
       /\ tile' = [tile EXCEPT ![c][k].coded = @ + 1,
                               ![c][k].done = @ /\ job[w].row # 0]
       /\ GoTo(w, "finish")
       /\ UNCHANGED <<stream, started, picture, searched, holder, fresh, free, queue, job, left, reference, packets, overtaken>>

\* Bug: the flags of the other tiles are not looked at.
PictureReadyAtOnce(c, k) == TRUE
PictureReady(c, k) == \A i \in DOMAIN tile[c] \ {k} : tile[c][i].done
TileComplete(t) == ~t.done /\ t.row = t.rows

\* Bug: the picture is passed on before the loop is left.
FinishRowAtOnce(w) ==
    LET c == job[w].slot
        k == job[w].part
        complete == TileComplete(tile[c][k])
    IN /\ w \in Ec /\ at[w] = "finish"
       /\ tile' = IF complete THEN [tile EXCEPT ![c][k].done = TRUE] ELSE tile
       /\ IF complete /\ PictureReady(c, k)
          THEN /\ free["packet"] > 0 /\ free' = [free EXCEPT !["packet"] = @ - 1]
               /\ queue' = [queue EXCEPT !["packet"] = Append(@, [slot |-> c, part |-> 1])]
          ELSE UNCHANGED <<free, queue>>
       /\ GoTo(w, "rows")
       /\ UNCHANGED <<stream, started, picture, searched, holder, fresh, job, left, reference, packets, overtaken>>

\* The end of a tile, under its mutex.  Who finds all tiles done, under the picture's
\* mutex inside the tile's, releases the references of the picture and will pass it
\* on after the loop.
FinishRow(w) ==
    LET c == job[w].slot
        k == job[w].part
        complete == TileComplete(tile[c][k])
    IN /\ w \in Ec /\ at[w] = "finish"
       /\ tile' = IF complete THEN [tile EXCEPT ![c][k].done = TRUE] ELSE tile
       /\ job' = [job EXCEPT ![w].last = @ \/ (complete /\ PictureReady(c, k))]
       /\ GoTo(w, "rows")
       /\ UNCHANGED <<stream, started, picture, searched, holder, fresh, free, queue, left, reference, packets, overtaken>>

-----------------------------------------------------------------------------
WorkerStep(w) ==
    \/ Take(w) \/ PostPart(w) \/ EndPosting(w) \/ GiveBack(w)
    \/ Deblock(w) \/ CountSegment(w) \/ FilterPicture(w)
    \/ NextRow(w) \/ BeginRow(w) \/ CodeRow(w) \/ FinishRow(w)

Next == (\E c \in Slots : Start(c)) \/ Packetize \/ (\E w \in Workers : WorkerStep(w))

Spec == Init /\ [][Next]_vars

-----------------------------------------------------------------------------
(* Properties.                                                             *)

Places == {"idle", "work", "filter", "post", "rows", "row", "code", "finish", "release"}

\* Every variable has its type; no more objects are about than a resource has, no
\* more rows begun than a tile has.
TypeOK ==
    /\ stream \in Streams /\ started \in 0 .. Len(stream)
    /\ picture \in [Slots -> 0 .. started]
    /\ \A r \in Resources : free[r] \in 0 .. Capacity[r] /\ free[r] + Len(queue[r]) <= Capacity[r]
    /\ at \in [Workers -> Places]
    /\ \A w \in Workers : at[w] = "idle" <=> job[w].slot = None
    /\ \A s \in Searching, c \in Slots :
          /\ holder[s][c] \in {None} \cup {w \in Workers : Stage(w) = s}
          /\ searched[s][c] \in Nat
    /\ \A c \in Slots : \A k \in DOMAIN tile[c] : tile[c][k].row \in 0 .. tile[c][k].rows

\* What follows is claimed until a slot comes back under a lingering worker, which
\* with one tile never happens (OwnPictureOnly).

\* Nobody searches a segment of a picture, or has one still to take, while its
\* reconstruction is filtered: the search reads what the filter writes.
SearchBeforeFilter ==
    ~overtaken => \A w \in Workers : at[w] = "filter" =>
        /\ \A v \in Workers : at[v] = "work" => job[v].slot # job[w].slot
        /\ \A i \in DOMAIN queue[Stage(w)] : queue[Stage(w)][i].slot # job[w].slot
        /\ searched[Stage(w)][job[w].slot] = Total(Stage(w), job[w].slot)

Coding(w) == at[w] \in {"row", "code", "finish"}
AtTile(w) == at[w] = "rows" \/ Coding(w)

\* In pictures of one tile only one worker is at a PictureControlSet, also while it
\* asks for the next row, and the PictureControlSet is still that of the picture the
\* worker took: nobody touches one that was passed on.  With several tiles that is
\* not so, and nothing is claimed.
OwnPictureOnly ==
    Len(stream[1].rows) = 1 =>
        \A w \in Ec : AtTile(w) =>
            /\ picture[job[w].slot] = job[w].pic
            /\ \A v \in Ec \ {w} : AtTile(v) => job[v].slot # job[w].slot

\* A picture is posted to Packetization once, when all rows of all its tiles are in
\* the bitstream and no worker is at one of them.
PassedOnComplete ==
    ~overtaken =>
    /\ \A i, j \in DOMAIN packets : packets[i] \in 1 .. started /\ (packets[i] = packets[j] => i = j)
    /\ \A i \in DOMAIN queue["packet"] : LET c == queue["packet"][i].slot IN
          /\ picture[c] # 0
          /\ \A k \in Tiles(c) : tile[c][k].coded = Pic(c).rows[k] /\ tile[c][k].done
          /\ \A w \in Ec : Coding(w) => job[w].slot # c

\* Until all pictures are packetized somebody can go on: no worker waits for an
\* empty object, or for a mutex, that is only given up by those behind it.
NeverStuck ==
    ~overtaken => ENABLED Next \/ (Len(packets) = Len(stream) /\ \A w \in Workers : at[w] = "idle")
=============================================================================
