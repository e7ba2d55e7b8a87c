--------------------------- MODULE DecoderThreads ---------------------------
(***************************************************************************)
(* The threads of the decoder.  The thread that calls the decoder (Main)   *)
(* and the workers (dec_all_stage_kernel) go together through the stages   *)
(* of every frame:                                                         *)
(*                                                                         *)
(*   motion   motion field projection, by superblock row                   *)
(*   parse    parsing, by tile                                             *)
(*   recon    reconstruction, by superblock row of a tile                  *)
(*   lf, cdef, lr   the three filters, by superblock row of the frame      *)
(*                                                                         *)
(* In a stage a thread takes one row (or tile) after the other until there *)
(* is none left and goes on to the next stage, where the rows it takes may *)
(* have to wait for rows of the stage before (maps of finished rows) and   *)
(* for the superblocks above and to the right (counts of finished          *)
(* superblocks).  A stage begins when Main sets its start flag; threads    *)
(* that come too early wait at their semaphore.  At the end of the motion  *)
(* stage and of the frame, and after cdef when the frame is upscaled,      *)
(* everyone waits for everyone.                                            *)
(*                                                                         *)
(* To close the decoder (dec_sync_all_threads) Main starts the stages once *)
(* more, with nothing to take in them, and waits for the workers to end.   *)
(*                                                                         *)
(* A superblock is 64x64, so that the rows of cdef and lr are those of the *)
(* other stages; lr of an upscaled frame is given as many columns as the   *)
(* rest.  A semaphore is kept as whether its count is positive: it is only *)
(* ever waited at in a loop that tests a flag again.                       *)
(***************************************************************************)
EXTENDS Integers, Sequences, FiniteSets, FiniteSetsExt

CONSTANTS
    Main, Workers,      \* the caller, and the threads the library creates
    Streams             \* sequences of frames to decode

None == "none"
Filters == {"lf", "cdef", "lr"}
Tile == [top : Nat, rows : Nat \ {0}, cols : Nat \ {0}]
Frames ==
    [rows : Nat \ {0}, cols : Nat \ {0}, tiles : Seq(Tile), hint : BOOLEAN, motion : BOOLEAN,
     upscale : BOOLEAN, filters : SUBSET Filters, corrupt : SUBSET Nat]

\* The frames of a stream have one size and tiling: for another one
\* dec_system_resource_init sets the counters up anew.  Tiles cover the frame.
ASSUME DecoderAssumption ==
    /\ IsFiniteSet(Workers) /\ Main \notin Workers /\ None \notin Workers \cup {Main}
    /\ \A str \in Streams : str \in Seq(Frames) /\ str # <<>>
    /\ \A str \in Streams : \A f \in DOMAIN str :
          /\ str[f].rows = str[1].rows /\ str[f].cols = str[1].cols /\ str[f].tiles = str[1].tiles
          /\ str[f].motion => str[f].hint
          /\ \A k \in DOMAIN str[f].tiles : LET below == str[f].tiles[k].top + str[f].tiles[k].rows IN
                below = str[f].rows \/ \E i \in DOMAIN str[f].tiles : str[f].tiles[i].top = below

Threads == Workers \cup {Main}
RowStages == {"recon"} \cup Filters
Stages == {"motion", "parse"} \cup RowStages
Barriers == {"motion", "cdef", "lr"}

VARIABLES
    stream, frame,      \* the frames, and the number of those begun
    ended,              \* end_flag
    start,              \* start_motion_proj, start_parse_frame, ... per stage
    arrived,            \* num_threads_header, num_threads_cdefed, num_threads_lred
    mutex,              \* the holder of temp_mutex, or None
    posted,             \* thread_semaphore of a thread has a positive count
    pc, job,            \* where each thread is, and the tile and row it is at
    next,               \* sb_row_to_process, per stage (a tile for parse and recon)
    nextRow,            \* sb_row_to_process, per tile
    parsed,             \* rows with sb_recon_row_parsed, per tile
    progress,           \* superblocks finished, per stage and row
    rowMap              \* sb_recon_row_map, lf_row_map, ...: rows finished, per stage

syncVars == <<ended, start, arrived, mutex, posted>>
rowVars == <<next, nextRow, parsed, progress, rowMap>>
vars == <<stream, frame, syncVars, pc, job, rowVars>>

\* The header of the current frame, and its tiles in raster order.
Header == stream[frame]
Tiles == Header.tiles
Rows == Header.rows     \* in superblocks
Cols == Header.cols
FrameRows(f) == {<<0, r>> : r \in 0 .. f.rows - 1}
TileRows(f) == UNION {{<<k, r>> : r \in 0 .. f.tiles[k].rows - 1} : k \in DOMAIN f.tiles}
JobsOf(f, s) == IF s = "recon" THEN TileRows(f) ELSE FrameRows(f)
NothingDone(f, s) == [j \in JobsOf(f, s) |-> 0]

Init ==
    /\ stream \in Streams /\ frame = 0
    /\ ended = FALSE
    /\ start = [s \in Stages |-> FALSE]
    /\ arrived = [b \in Barriers |-> 0]
    /\ mutex = None
    /\ posted = [t \in Threads |-> FALSE]
    /\ pc = [t \in Threads |-> IF t = Main THEN <<"main", "begin">> ELSE <<"motion", "start">>]
    /\ job = [t \in Threads |-> <<0, 0>>]
    /\ next = [s \in Stages |-> 0]
    /\ nextRow = [k \in DOMAIN stream[1].tiles |-> 0]
    /\ parsed = [k \in DOMAIN stream[1].tiles |-> 0]
    /\ progress = [s \in RowStages |-> NothingDone(stream[1], s)]
    /\ rowMap = [s \in Stages \ {"parse"} |-> {}]

At(t, stage, step) == pc[t] = <<stage, step>>
GoTo(t, place) == pc' = [pc EXCEPT ![t] = place]
PostToAll == posted' = [t \in Threads |-> TRUE]

\* Where a thread goes at the end of a stage.
AfterStage(t, s) ==
    CASE s = "motion" /\ t = Main -> <<"main", "queueParse">>
      [] s = "motion" /\ t # Main -> <<"parse", "start">>
      [] s = "parse" -> <<"recon", "start">>
      [] s = "recon" -> <<"lf", "start">>
      [] s = "lf" -> <<"cdef", "start">>
      [] s = "cdef" /\ t = Main -> <<"main", IF Header.upscale THEN "queueLr" ELSE "startLr">>
      [] s = "cdef" /\ t # Main -> <<"lr", "start">>
      [] s = "lr" /\ t = Main -> <<"main", "begin">>
      [] s = "lr" /\ t # Main -> IF ended THEN <<"lr", "exit">> ELSE <<"motion", "start">>

-----------------------------------------------------------------------------
(* What Main does between the stages (read_tile_group_obu).                *)

\* The next frame: the tiles' rows and the motion field.
Begin ==
    /\ At(Main, "main", "begin") /\ frame < Len(stream)
    /\ frame' = frame + 1
    /\ nextRow' = [k \in DOMAIN stream[frame'].tiles |-> 0]
    /\ parsed' = [k \in DOMAIN stream[frame'].tiles |-> 0]
    /\ progress' = [progress EXCEPT !["recon"] = NothingDone(stream[frame'], "recon")]
    /\ next' = [next EXCEPT !["motion"] = 0]
    /\ rowMap' = [rowMap EXCEPT !["motion"] = {}]
    /\ arrived' = [arrived EXCEPT !["motion"] = 0]
    /\ GoTo(Main, <<"main", "startMotion">>)
    /\ UNCHANGED <<stream, ended, start, mutex, posted, job>>

\* A start flag is set and then everyone is posted, as one step: a thread that
\* looks in between finds the flag, and its semaphore is posted all the same.
SetStart(step, s, place) ==
    /\ At(Main, "main", step)
    /\ start' = [start EXCEPT ![s] = TRUE]
    /\ PostToAll
    /\ GoTo(Main, place)
    /\ UNCHANGED <<stream, frame, ended, mutex, job, rowVars>>

StartMotion ==
    mutex = None /\ SetStart("startMotion", "motion", <<"motion", "start">>) /\ UNCHANGED arrived

CountersReset == [arrived EXCEPT !["cdef"] = 0, !["lr"] = 0]
StartParse ==
    /\ mutex = None /\ SetStart("startParse", "parse", <<"main", "queueFilters">>)
    /\ arrived' = CountersReset

\* Bug: the rows of lr are queued after its start even without upscaling.
AfterStartLate(s) ==
    CASE s = "cdef" -> <<"parse", "start">>
      [] s = "lr" -> IF Header.upscale THEN <<"lr", "start">> ELSE <<"main", "queueLr">>
AfterStart(s) ==
    CASE s = "cdef" -> IF Header.upscale THEN <<"parse", "start">> ELSE <<"main", "queueLr">>
      [] s = "lr" -> <<"lr", "start">>

StartFilters ==
    /\ \/ mutex = None /\ SetStart("startLf", "lf", <<"main", "startCdef">>)
       \/ SetStart("startCdef", "cdef", AfterStart("cdef"))
       \/ SetStart("startLr", "lr", AfterStart("lr"))
    /\ UNCHANGED arrived

\* Bug: the map still has the rows of the frame before.
QueueParseStale ==
    /\ rowMap' = rowMap
    /\ next' = [next EXCEPT !["parse"] = 0, !["recon"] = 0]
QueueParse ==
    /\ rowMap' = [rowMap EXCEPT !["recon"] = {}]
    /\ next' = [next EXCEPT !["parse"] = 0, !["recon"] = 0]

\* The rows of the stages of S are all to be filtered.
QueueFilters(S) ==
    /\ rowMap' = [s \in DOMAIN rowMap |-> IF s \in S THEN {} ELSE rowMap[s]]
    /\ progress' = [s \in RowStages |-> IF s \in S THEN NothingDone(Header, s) ELSE progress[s]]
    /\ next' = [s \in Stages |-> IF s \in S THEN 0 ELSE next[s]]

Queue ==
    /\ \/ /\ At(Main, "main", "queueParse")
          /\ QueueParse /\ GoTo(Main, <<"main", "startParse">>)
          /\ UNCHANGED progress
       \/ /\ At(Main, "main", "queueFilters")
          /\ QueueFilters({"lf", "cdef"}) /\ GoTo(Main, <<"main", "startLf">>)
       \/ /\ At(Main, "main", "queueLr")
          /\ QueueFilters({"lr"})
          /\ GoTo(Main, IF Header.upscale THEN <<"main", "startLr">> ELSE <<"parse", "start">>)
    /\ UNCHANGED <<stream, frame, syncVars, job, nextRow, parsed>>

-----------------------------------------------------------------------------
(* Closing the decoder (dec_sync_all_threads).                             *)

\* After any frame.  The counters are set as if only the workers were still to
\* come.  Some of them may still be in the last frame: at its end after cdef if it
\* was upscaled, and the last one clearing the start flags.
Close ==
    /\ At(Main, "main", "begin") /\ frame > 0
    /\ ended' = TRUE
    /\ arrived' = [b \in Barriers |-> 1]
    /\ GoTo(Main, <<"close", "motion">>)
    /\ UNCHANGED <<stream, frame, start, mutex, posted, job, rowVars>>

AfterOpening(s) ==
    CASE s = "motion" -> "parse" [] s = "parse" -> "recon" [] s = "recon" -> "lf"
      [] s = "lf" -> "cdef" [] s = "cdef" -> "lr" [] s = "lr" -> "wait"

\* The stages are started in their order; the first two are posted together.
OpenStage(s) ==
    /\ At(Main, "close", s)
    /\ start' = [start EXCEPT ![s] = TRUE]
    /\ IF s = "motion" THEN UNCHANGED posted ELSE PostToAll
    /\ GoTo(Main, <<"close", AfterOpening(s)>>)
    /\ UNCHANGED <<stream, frame, ended, arrived, mutex, job, rowVars>>

\* num_threads_exited is that of all workers.
AllExited ==
    /\ At(Main, "close", "wait") /\ \A w \in Workers : At(w, "main", "exited")
    /\ GoTo(Main, <<"main", "exited">>)
    /\ UNCHANGED <<stream, frame, syncVars, job, rowVars>>

\* A worker counts itself under temp_mutex, and ends.
Exit(t) ==
    /\ At(t, "lr", "exit") /\ mutex = None
    /\ GoTo(t, <<"main", "exited">>)
    /\ UNCHANGED <<stream, frame, syncVars, job, rowVars>>

-----------------------------------------------------------------------------
MainStep ==
    Close \/ AllExited \/ (\E s \in Stages : OpenStage(s))
    \/ Begin \/ StartMotion \/ StartParse \/ StartFilters \/ Queue

-----------------------------------------------------------------------------
(* Waiting for the start of a stage.                                       *)

CheckStart(t) ==
    /\ pc[t][2] = "start"
    /\ GoTo(t, <<pc[t][1], IF start[pc[t][1]] THEN "claim" ELSE "block">>)
    /\ UNCHANGED <<stream, frame, syncVars, job, rowVars>>

Block(t) ==
    /\ pc[t][2] = "block" /\ posted[t]
    /\ posted' = [posted EXCEPT ![t] = FALSE]
    /\ GoTo(t, <<pc[t][1], "start">>)
    /\ UNCHANGED <<stream, frame, ended, start, arrived, mutex, job, rowVars>>

-----------------------------------------------------------------------------
(* Motion field (svt_setup_motion_field).                                  *)

\* Without order hints there is nothing to do, not even to wait.  Closing clears
\* use_ref_frame_mvs.
ClaimMotionRow(t) ==
    /\ At(t, "motion", "claim")
    /\ IF Header.motion /\ ~ended /\ next["motion"] < Rows
       THEN /\ job' = [job EXCEPT ![t] = <<0, next["motion"]>>]
            /\ next' = [next EXCEPT !["motion"] = @ + 1]
            /\ GoTo(t, <<"motion", "run">>)
       ELSE /\ GoTo(t, IF Header.hint THEN <<"motion", "count">> ELSE AfterStage(t, "motion"))
            /\ UNCHANGED <<job, next>>
    /\ UNCHANGED <<stream, frame, syncVars, nextRow, parsed, progress, rowMap>>

ProjectRow(t) ==
    /\ At(t, "motion", "run")
    /\ rowMap' = [rowMap EXCEPT !["motion"] = @ \cup {job[t]}]
    /\ GoTo(t, <<"motion", "claim">>)
    /\ UNCHANGED <<stream, frame, syncVars, job, next, nextRow, parsed, progress>>

-----------------------------------------------------------------------------
(* Parsing (parse_frame_tiles).                                            *)

ClaimTile(t) ==
    /\ At(t, "parse", "claim")
    /\ IF next["parse"] < Len(Tiles)
       THEN /\ next' = [next EXCEPT !["parse"] = @ + 1]
            /\ job' = [job EXCEPT ![t] = <<next["parse"] + 1, 0>>]
            /\ GoTo(t, <<"parse", "flag">>)
       ELSE /\ GoTo(t, AfterStage(t, "parse"))
            /\ UNCHANGED <<next, job>>
    /\ UNCHANGED <<stream, frame, syncVars, nextRow, parsed, progress, rowMap>>

\* Others, who found no tile, may already wait for this.
StartRecon(t) ==
    /\ At(t, "parse", "flag")
    /\ start' = [start EXCEPT !["recon"] = TRUE]
    /\ GoTo(t, <<"parse", "run">>)
    /\ UNCHANGED <<stream, frame, ended, arrived, mutex, posted, job, rowVars>>

\* One row of the tile, whose reconstruction may begin.  A tile the reader cannot
\* be set up for is left unparsed: parse_tile_job drops the error.
ParseRow(t) ==
    /\ At(t, "parse", "run")
    /\ LET k == job[t][1] IN
       /\ parsed' = IF k \in Header.corrupt THEN parsed ELSE [parsed EXCEPT ![k] = @ + 1]
       /\ GoTo(t, <<"parse", IF k \in Header.corrupt \/ parsed'[k] = Tiles[k].rows THEN "post" ELSE "run">>)
    /\ UNCHANGED <<stream, frame, syncVars, job, next, nextRow, progress, rowMap>>

\* Bug: the calling thread, which has no DecThreadCtxt, is left out.
PostToWorkers == posted' = [t \in Threads |-> IF t = Main THEN posted[t] ELSE TRUE]
PostTile == PostToAll

TileParsed(t) ==
    /\ At(t, "parse", "post")
    /\ PostTile
    /\ GoTo(t, <<"parse", "claim">>)
    /\ UNCHANGED <<stream, frame, ended, start, arrived, mutex, job, rowVars>>

-----------------------------------------------------------------------------
(* Reconstruction (decode_frame_tiles, decode_tile).                       *)

Unfinished == {k \in DOMAIN Tiles : nextRow[k] < Tiles[k].rows}

\* A tile nobody has begun, or else any that has rows left (the code prefers
\* the one with the most).
PickTile(t) ==
    /\ At(t, "recon", "claim")
    /\ \/ /\ next["recon"] < Len(Tiles)
          /\ next' = [next EXCEPT !["recon"] = @ + 1]
          /\ job' = [job EXCEPT ![t] = <<next["recon"] + 1, 0>>]
          /\ GoTo(t, <<"recon", "claimRow">>)
       \/ /\ next["recon"] = Len(Tiles)
          /\ \E k \in Unfinished : job' = [job EXCEPT ![t] = <<k, 0>>]
          /\ GoTo(t, <<"recon", "claimRow">>)
          /\ UNCHANGED next
       \/ /\ next["recon"] = Len(Tiles) /\ Unfinished = {}
          /\ GoTo(t, AfterStage(t, "recon"))
          /\ UNCHANGED <<job, next>>
    /\ UNCHANGED <<stream, frame, syncVars, nextRow, parsed, progress, rowMap>>

ClaimTileRow(t) ==
    /\ At(t, "recon", "claimRow")
    /\ LET k == job[t][1] IN
       IF nextRow[k] < Tiles[k].rows
       THEN /\ nextRow' = [nextRow EXCEPT ![k] = @ + 1]
            /\ job' = [job EXCEPT ![t] = <<k, nextRow[k]>>]
            /\ GoTo(t, <<"recon", "run">>)
       ELSE GoTo(t, <<"recon", "claim">>) /\ UNCHANGED <<nextRow, job>>
    /\ UNCHANGED <<stream, frame, syncVars, next, parsed, progress, rowMap>>

-----------------------------------------------------------------------------
(* The filters, and what they have in common with reconstruction.          *)

ClaimFilterRow(t, s) ==
    /\ At(t, s, "claim")
    /\ IF next[s] < Rows
       THEN /\ next' = [next EXCEPT ![s] = @ + 1]
            /\ job' = [job EXCEPT ![t] = <<0, next[s]>>]
            /\ GoTo(t, <<s, "run">>)
       ELSE /\ GoTo(t, IF s \in Barriers THEN <<s, "count">> ELSE AfterStage(t, s))
            /\ UNCHANGED <<next, job>>
    /\ UNCHANGED <<stream, frame, syncVars, nextRow, parsed, progress, rowMap>>

\* All tiles have reconstructed row r of the frame.
Reconstructed(r) ==
    \A j \in TileRows(Header) : Tiles[j[1]].top + j[2] = r => j \in rowMap["recon"]

\* The rows of the stage before that a row waits for.
RowReady(s, j) ==
    CASE s = "recon" -> j[2] < parsed[j[1]]
      [] s = "lf" -> \A r \in {j[2] - 1, j[2], j[2] + 1} \cap (0 .. Rows - 1) : Reconstructed(r)
      [] s = "cdef" -> <<0, Min({j[2] + 1, Rows - 1})>> \in rowMap["lf"]
      [] s = "lr" -> j \in rowMap["cdef"]

Width(s, j) == IF s = "recon" THEN Tiles[j[1]].cols ELSE Cols
Enabled(s) == s = "recon" \/ s \in Header.filters

\* Bug: the superblock to the right of the one above may be unfinished.
AboveFinishedLate(s, n, c, w) ==
    CASE s = "recon" -> n >= Min({c + 2, w})
      [] s = "lf" -> n - 1 >= Min({c + 2, w - 1})
      [] s = "cdef" -> Max({n - 1, 0}) >= c
      [] s = "lr" -> n - 1 >= (IF c = w - 1 THEN c ELSE c + 1)

\* The wait at column c of w, with n superblocks finished in the row above.
\* What the code keeps of n is n itself for recon, and for the filters the
\* index of the last one, -1 or (cdef) 0 when there is none.
AboveFinished(s, n, c, w) ==
    CASE s = "recon" -> n >= Min({c + 2, w})
      [] s = "lf" -> n - 1 >= Min({c + 2, w - 1})
      [] s = "cdef" -> Max({n - 1, 0}) >= (IF c = w - 1 THEN c ELSE c + 1)
      [] s = "lr" -> n - 1 >= (IF c = w - 1 THEN c ELSE c + 1)

DoSuperblock(t, s) ==
    LET j == job[t]
        c == progress[s][j]
    IN /\ At(t, s, "run") /\ Enabled(s) /\ c < Width(s, j)
       /\ c = 0 => RowReady(s, j)
       /\ j[2] # 0 => AboveFinished(s, progress[s][<<j[1], j[2] - 1>>], c, Width(s, j))
       /\ progress' = [progress EXCEPT ![s][j] = c + 1]
       /\ UNCHANGED <<stream, frame, syncVars, pc, job, next, nextRow, parsed, rowMap>>

\* lf reports a row when it is done with the one below, which changes it.
Reported(s, j) ==
    IF s = "lf" THEN {<<0, r>> : r \in {j[2] - 1} \cap Nat} \cup (IF j[2] = Rows - 1 THEN {j} ELSE {})
    ELSE {j}

FinishRow(t, s) ==
    /\ At(t, s, "run")
    /\ IF Enabled(s) THEN progress[s][job[t]] = Width(s, job[t]) ELSE RowReady(s, job[t])
    /\ rowMap' = [rowMap EXCEPT ![s] = @ \cup Reported(s, job[t])]
    /\ GoTo(t, <<s, IF s = "recon" THEN "claimRow" ELSE "claim">>)
    /\ UNCHANGED <<stream, frame, syncVars, job, next, nextRow, parsed, progress>>

-----------------------------------------------------------------------------
(* Where everyone waits for everyone.                                      *)

\* Bugs: nobody waits after the motion field, or after lr.
WaitsNotAtMotion(s) == s = "lr" \/ (s = "cdef" /\ Header.upscale)
WaitsNotAtLr(s) == s = "motion" \/ (s = "cdef" /\ Header.upscale)
Waits(s) == s \in {"motion", "lr"} \/ (s = "cdef" /\ Header.upscale)

\* A thread counts itself under temp_mutex.  The last one at the end of the
\* frame goes on to clear the start flags, while the others already see it.
Arrive(t, s) ==
    /\ At(t, s, "count") /\ mutex = None
    /\ arrived' = [arrived EXCEPT ![s] = @ + 1]
    /\ LET last == arrived'[s] = Cardinality(Threads) IN
       /\ start' = IF s = "motion" /\ last THEN [start EXCEPT !["motion"] = FALSE] ELSE start
       /\ mutex' = IF s = "lr" /\ last THEN t ELSE None
       /\ GoTo(t, CASE s = "lr" /\ last -> <<"lr", "clear">>
                    [] ~(s = "lr" /\ last) /\ Waits(s) -> <<s, "spin">>
                    [] ~(s = "lr" /\ last) /\ ~Waits(s) -> AfterStage(t, s))
    /\ UNCHANGED <<stream, frame, ended, posted, job, rowVars>>

ClearFlags(t) ==
    /\ At(t, "lr", "clear")
    /\ start' = [s \in Stages |-> FALSE]
    /\ mutex' = None
    /\ GoTo(t, <<"lr", "spin">>)
    /\ UNCHANGED <<stream, frame, ended, arrived, posted, job, rowVars>>

\* The wait after cdef does not look at end_flag.
SpinEnds(t, s) ==
    /\ At(t, s, "spin")
    /\ arrived[s] = Cardinality(Threads) \/ (ended /\ s # "cdef")
    /\ GoTo(t, AfterStage(t, s))
    /\ UNCHANGED <<stream, frame, syncVars, job, rowVars>>

-----------------------------------------------------------------------------
ThreadStep(t) ==
    \/ CheckStart(t) \/ Block(t)
    \/ ClaimMotionRow(t) \/ ProjectRow(t)
    \/ ClaimTile(t) \/ StartRecon(t) \/ ParseRow(t) \/ TileParsed(t)
    \/ PickTile(t) \/ ClaimTileRow(t)
    \/ \E s \in Filters : ClaimFilterRow(t, s)
    \/ \E s \in RowStages : DoSuperblock(t, s) \/ FinishRow(t, s)
    \/ \E s \in Barriers : Arrive(t, s) \/ SpinEnds(t, s)
    \/ ClearFlags(t) \/ Exit(t)

Next == MainStep \/ \E t \in Threads : ThreadStep(t)

Spec == Init /\ [][Next]_vars

-----------------------------------------------------------------------------
(* Properties.                                                             *)

Steps ==
    {"start", "block", "claim", "claimRow", "flag", "run", "post", "count", "clear", "spin", "exit"}
MainSteps ==
    {"exited", "begin", "startMotion", "queueParse", "startParse", "queueFilters", "startLf", "startCdef",
     "queueLr", "startLr"}

\* Every variable has its type; no counter of a barrier exceeds the number of
\* threads, no row counter the number of rows.
TypeOK ==
    /\ stream \in Streams /\ frame \in 0 .. Len(stream)
    /\ ended \in BOOLEAN /\ start \in [Stages -> BOOLEAN]
    /\ arrived \in [Barriers -> 0 .. Cardinality(Threads)]
    /\ mutex \in Threads \cup {None}
    /\ posted \in [Threads -> BOOLEAN]
    /\ \A t \in Threads : pc[t] \in (Stages \X Steps) \cup ({"main"} \X MainSteps)
                                         \cup ({"close"} \X (Stages \cup {"wait"}))
    /\ frame > 0 =>
         /\ \A s \in Stages \ {"parse", "recon"} : next[s] \in 0 .. Rows
         /\ \A s \in {"parse", "recon"} : next[s] \in 0 .. Len(Tiles)
         /\ \A k \in DOMAIN Tiles : nextRow[k] \in 0 .. Tiles[k].rows /\ parsed[k] \in 0 .. Tiles[k].rows
         /\ \A s \in RowStages : \A j \in DOMAIN progress[s] : progress[s][j] \in 0 .. Width(s, j)

AtWork(t, s) == At(t, s, "flag") \/ At(t, s, "run") \/ At(t, s, "post")

\* Nobody parses or reconstructs, that is reads the projected motion vectors,
\* before all rows of the motion field of this frame are projected.
MotionFieldReady ==
    \A t \in Threads :
        (AtWork(t, "parse") \/ AtWork(t, "recon")) /\ Header.motion
            => rowMap["motion"] = FrameRows(Header)

\* In every stage the superblock above and to the right is finished before a
\* superblock is: the wavefront that prediction, the saved lines above and the
\* filters' reach over the edges rely on.
Wavefront ==
    \A s \in RowStages : \A j \in DOMAIN progress[s] :
        LET n == progress[s][j] IN
        frame > 0 /\ j[2] > 0 /\ n > 0
            => progress[s][<<j[1], j[2] - 1>>] >= Min({n + 1, Width(s, j)})

\* The pixels of a row: those of all tiles.
Pixels(r) == \A j \in TileRows(Header) : Tiles[j[1]].top + j[2] = r => progress["recon"][j] = Width("recon", j)
Deblocked(r) == "lf" \in Header.filters => progress["lf"][<<0, r>>] = Cols
Directed(r) == "cdef" \in Header.filters => progress["cdef"][<<0, r>>] = Cols
RowsTo(r) == 0 .. Min({r, Rows - 1})

\* t is at a row of s with some superblocks done.
HasFiltered(t, s) == At(t, s, "run") /\ progress[s][job[t]] > 0

\* Tiles below each other are reconstructed without regard to each other, and
\* only the wavefront of lf keeps the rows of later stages in order.
OrderIsKept == "lf" \in Header.filters \/ \A k \in DOMAIN Tiles : Tiles[k].top = 0

\* No thread filters a row before the pixels it reads are final in the stages
\* before: lf needs the rows around it reconstructed, cdef all rows to the next
\* one deblocked, lr all rows to its own through cdef (except that with lf
\* switched off and tiles below each other nothing holds cdef back).
FilteredInOrder ==
    frame > 0 /\ OrderIsKept =>
    \A t \in Threads : LET r == job[t][2] IN
        /\ HasFiltered(t, "lf") => \A x \in RowsTo(r + 1) : Pixels(x)
        /\ HasFiltered(t, "cdef") => \A x \in RowsTo(r + 1) : Pixels(x) /\ Deblocked(x)
        /\ HasFiltered(t, "lr") => \A x \in RowsTo(r) : Pixels(x) /\ Deblocked(x) /\ Directed(x)

\* When the caller gets the frame back every row has been through every stage,
\* and no thread is still at one.
FrameComplete ==
    At(Main, "main", "begin") /\ frame > 0 =>
        /\ \A s \in RowStages :
              /\ rowMap[s] = JobsOf(Header, s)
              /\ Enabled(s) => \A j \in JobsOf(Header, s) : progress[s][j] = Width(s, j)
        /\ \A t \in Threads, s \in Stages : ~AtWork(t, s)

\* The rows of a stage are queued anew only while no thread is at one of them.
NoResetUnderWork ==
    [][/\ \A s \in Stages : next'[s] < next[s] => \A t \in Threads : ~AtWork(t, s)
       /\ \A s \in RowStages : progress[s] # progress'[s] /\ (\A j \in DOMAIN progress'[s] : progress'[s][j] = 0)
              => \A t \in Threads : ~AtWork(t, s)]_vars

\* Between two frames and in one, unless a tile is left unparsed, somebody can
\* always go on: no start flag, post, row or count is missed for which threads
\* would wait for ever.  Nothing is said of a decoder that is being closed, where
\* threads do wait for ever.
NeverStuck ==
    ~ended /\ (\A f \in DOMAIN stream : stream[f].corrupt = {}) => ENABLED Next
=============================================================================
