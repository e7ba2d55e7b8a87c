------------------------ MODULE DecoderThreadsProofs ------------------------
(***************************************************************************)
(* Proofs about DecoderThreads: the order in which superblocks are decoded *)
(* and filtered, and that the threads are in one frame and one stage as    *)
(* far as the rows of the frame are concerned, for any number of threads   *)
(* and every stream.                                                       *)
(***************************************************************************)
EXTENDS DecoderThreads, FiniteSetTheorems, TLAPS

-----------------------------------------------------------------------------
(* Types.                                                                  *)

\* The rows of stage s, which are the same in all frames.
Jobs(s) == JobsOf(stream[1], s)

Places ==
    (Stages \cup {"main", "close"}) \X (Steps \cup MainSteps \cup Stages \cup {"wait"})

Types ==
    /\ stream \in Streams /\ frame \in 0 .. Len(stream)
    /\ ended \in BOOLEAN /\ start \in [Stages -> BOOLEAN]
    /\ arrived \in [Barriers -> Nat]
    /\ pc \in [Threads -> Places] /\ job \in [Threads -> Nat \X Nat]
    /\ next \in [Stages -> Nat]
    /\ nextRow \in [DOMAIN stream[1].tiles -> Nat] /\ parsed \in [DOMAIN stream[1].tiles -> Nat]
    /\ progress = [s \in RowStages |-> progress[s]]
    /\ \A s \in RowStages : progress[s] \in [Jobs(s) -> Nat]
    /\ rowMap \in [Stages \ {"parse"} -> SUBSET (Nat \X Nat)]

Waiting(s) == {<<s, "start">>, <<s, "block">>}
FlagsDown(S) == \A s \in S : ~start[s]

\* Before the first frame the workers wait for it.
First == frame = 0
BeforeFirst ==
    First => /\ At(Main, "main", "begin") /\ \A w \in Workers : pc[w] \in Waiting("motion")
             /\ FlagsDown(Stages) /\ mutex = None

\* What a thread is at is there.
AtRow(t) ==
    /\ \A s \in Stages \ {"parse"} : At(t, s, "run") => job[t] \in Jobs(s)
    /\ AtWork(t, "parse") \/ At(t, "recon", "claimRow") => job[t][1] \in DOMAIN stream[1].tiles
InRange == \A t \in Threads : AtRow(t)

BaseInvariant == Types /\ BeforeFirst /\ InRange


-----------------------------------------------------------------------------
(* Frames and rows.                                                        *)

LEMMA FrameFacts ==
    ASSUME stream \in Streams, frame \in 0 .. Len(stream), frame > 0
    PROVE  /\ Header \in Frames /\ Header.rows = stream[1].rows /\ Header.cols = stream[1].cols
           /\ Header.tiles = stream[1].tiles /\ Tiles = stream[1].tiles
           /\ Rows \in Nat \ {0} /\ Cols \in Nat \ {0} /\ Tiles \in Seq(Tile)
<1>1. stream \in Seq(Frames) /\ frame \in DOMAIN stream
  BY DecoderAssumption
<1>2. stream[frame] \in Frames
  BY <1>1
<1>3. /\ stream[frame].rows = stream[1].rows /\ stream[frame].cols = stream[1].cols
      /\ stream[frame].tiles = stream[1].tiles
  BY <1>1, DecoderAssumption
<1> QED BY <1>2, <1>3 DEF Header, Rows, Cols, Tiles, Frames

LEMMA FirstFrameFacts ==
    ASSUME stream \in Streams
    PROVE  stream \in Seq(Frames) /\ 1 \in DOMAIN stream /\ stream[1] \in Frames
BY DecoderAssumption

LEMMA JobsFacts ==
    ASSUME stream \in Streams
    PROVE  /\ \A s \in Stages \ {"recon"} :
                 /\ Jobs(s) = {<<0, r>> : r \in 0 .. stream[1].rows - 1}
                 /\ \A r \in Nat : r < stream[1].rows => <<0, r>> \in Jobs(s)
           /\ \A k \in DOMAIN stream[1].tiles : \A r \in Nat :
                 r < stream[1].tiles[k].rows => <<k, r>> \in Jobs("recon")
           /\ \A j \in Jobs("recon") : /\ j = <<j[1], j[2]>> /\ j[1] \in DOMAIN stream[1].tiles
                                        /\ j[2] \in Nat /\ j[2] < stream[1].tiles[j[1]].rows
           /\ \A s \in Stages : \A j \in Jobs(s) : /\ j \in Nat \X Nat /\ j = <<j[1], j[2]>>
                                                   /\ \A r \in 0 .. j[2] : <<j[1], r>> \in Jobs(s)
<1>1. stream[1] \in Frames
  BY FirstFrameFacts
<1>2. stream[1].rows \in Nat /\ stream[1].tiles \in Seq(Tile)
  BY <1>1 DEF Frames
<1>3. \A k \in DOMAIN stream[1].tiles : k \in Nat /\ stream[1].tiles[k].rows \in Nat
  <2> DEFINE tiles == stream[1].tiles
  <2>1. \A k \in DOMAIN tiles : k \in Nat /\ tiles[k] \in Tile
    <3> HIDE DEF tiles
    <3> QED BY <1>2 DEF tiles
  <2> QED BY <2>1 DEF Tile
<1>4. \A s \in Stages \ {"recon"} : Jobs(s) = {<<0, r>> : r \in 0 .. stream[1].rows - 1}
  BY DEF Jobs, JobsOf, FrameRows
<1>5. Jobs("recon") =
         UNION {{<<k, r>> : r \in 0 .. stream[1].tiles[k].rows - 1} : k \in DOMAIN stream[1].tiles}
  BY DEF Jobs, JobsOf, TileRows
<1>6. \A s \in Stages \ {"recon"} : \A r \in Nat : r < stream[1].rows => <<0, r>> \in Jobs(s)
  BY <1>2, <1>4
<1>7. \A k \in DOMAIN stream[1].tiles : \A r \in Nat :
         r < stream[1].tiles[k].rows => <<k, r>> \in Jobs("recon")
  <2> TAKE k \in DOMAIN stream[1].tiles
  <2> TAKE r \in Nat
  <2> HAVE r < stream[1].tiles[k].rows
  <2>1. r \in 0 .. stream[1].tiles[k].rows - 1
    BY <1>3
  <2> QED BY <1>5, <2>1
<1>8. \A j \in Jobs("recon") : /\ j = <<j[1], j[2]>> /\ j[1] \in DOMAIN stream[1].tiles
                              /\ j[2] \in Nat /\ j[2] < stream[1].tiles[j[1]].rows
  <2> TAKE j \in Jobs("recon")
  <2>1. PICK k \in DOMAIN stream[1].tiles : \E r \in 0 .. stream[1].tiles[k].rows - 1 : j = <<k, r>>
    BY <1>5
  <2>2. PICK r \in 0 .. stream[1].tiles[k].rows - 1 : j = <<k, r>>
    BY <2>1
  <2> QED BY <1>3, <2>2
<1>9. ASSUME NEW s \in Stages, NEW j \in Jobs(s)
      PROVE  /\ j \in Nat \X Nat /\ j = <<j[1], j[2]>>
             /\ \A r \in 0 .. j[2] : <<j[1], r>> \in Jobs(s)
  <2>1. CASE s = "recon"
    <3>1. /\ j = <<j[1], j[2]>> /\ j[1] \in DOMAIN stream[1].tiles
          /\ j[2] \in Nat /\ j[2] < stream[1].tiles[j[1]].rows
      BY <1>8, <2>1
    <3>2. \A r \in 0 .. j[2] : r \in Nat /\ r < stream[1].tiles[j[1]].rows
      BY <1>3, <3>1
    <3> QED BY <1>3, <1>7, <2>1, <3>1, <3>2
  <2>2. CASE s # "recon"
    <3>1. PICK r \in 0 .. stream[1].rows - 1 : j = <<0, r>>
      BY <1>4, <2>2
    <3>2. \A x \in 0 .. r : x \in Nat /\ x < stream[1].rows
      BY <1>2, <3>1
    <3> QED BY <1>2, <1>6, <2>2, <3>1, <3>2
  <2> QED BY <2>1, <2>2
<1> QED BY <1>4, <1>6, <1>7, <1>8, <1>9

-----------------------------------------------------------------------------
(* Types and ranges.                                                       *)

LEMMA MoveFacts ==
    ASSUME Types, NEW t \in Threads, NEW place \in Places, GoTo(t, place)
    PROVE  /\ pc' \in [Threads -> Places] /\ pc'[t] = place
           /\ \A u \in Threads : u # t => pc'[u] = pc[u]
BY DEF Types, GoTo

LEMMA AtPlace ==
    ASSUME NEW t, NEW s, NEW p, At(t, s, p)
    PROVE  pc[t][1] = s /\ pc[t][2] = p
BY DEF At

LEMMA AfterStageFacts ==
    ASSUME NEW t \in Threads, NEW s \in Stages
    PROVE  AfterStage(t, s) \in Places
BY DEF AfterStage, Places, Stages, RowStages, Filters, Steps, MainSteps

LEMMA InitIsBase == Init => BaseInvariant
<1> SUFFICES ASSUME Init PROVE BaseInvariant
  OBVIOUS
<1>1. stream \in Streams /\ stream \in Seq(Frames) /\ 1 \in DOMAIN stream
  BY FirstFrameFacts DEF Init
<1>2. Main \in Threads /\ Main \notin Workers
  BY DecoderAssumption DEF Threads
<1>3. Types
  <2>1. \A s \in RowStages : progress[s] \in [Jobs(s) -> Nat]
    BY DEF Init, Jobs, NothingDone
  <2>2. pc \in [Threads -> Places]
    BY DEF Init, Places, Stages, RowStages, Steps, MainSteps
  <2>3. frame \in 0 .. Len(stream)
    BY <1>1 DEF Init
  <2>4. progress = [s \in RowStages |-> progress[s]]
    BY DEF Init
  <2>5. rowMap \in [Stages \ {"parse"} -> SUBSET (Nat \X Nat)]
    BY DEF Init
  <2>6. /\ ended \in BOOLEAN /\ start \in [Stages -> BOOLEAN] /\ arrived \in [Barriers -> Nat]
        /\ job \in [Threads -> Nat \X Nat] /\ next \in [Stages -> Nat]
        /\ nextRow \in [DOMAIN stream[1].tiles -> Nat] /\ parsed \in [DOMAIN stream[1].tiles -> Nat]
    BY DEF Init
  <2> QED BY <1>1, <2>1, <2>2, <2>3, <2>4, <2>5, <2>6 DEF Types
<1>4. BeforeFirst
  BY <1>2 DEF Init, BeforeFirst, First, At, Waiting, FlagsDown, Threads
<1>5. InRange
  BY DEF Init, InRange, AtRow, At, AtWork
<1> QED BY <1>3, <1>4, <1>5 DEF BaseInvariant

\* A thread that is beyond its wait for the first frame knows that there is one.
LEMMA FrameHasBegun ==
    ASSUME BaseInvariant, NEW t \in Threads, pc[t][2] \notin {"start", "block", "begin"}
    PROVE  frame > 0
<1>1. frame \in Nat
  BY FirstFrameFacts DEF BaseInvariant, Types
<1>2. CASE t = Main
  BY <1>1, <1>2 DEF BaseInvariant, BeforeFirst, First, At
<1>3. CASE t \in Workers
  BY <1>1, <1>3 DEF BaseInvariant, BeforeFirst, First, Waiting
<1> QED BY <1>2, <1>3 DEF Threads

LEMMA RangeStays ==
    ASSUME InRange, NEW t \in Threads, stream' = stream, AtRow(t)',
           \A u \in Threads : u # t => pc'[u] = pc[u] /\ job'[u] = job[u]
    PROVE  InRange'
<1> SUFFICES ASSUME NEW u \in Threads, u # t PROVE AtRow(u)'
  BY DEF InRange
<1>1. AtRow(u) /\ pc'[u] = pc[u] /\ job'[u] = job[u]
  BY DEF InRange
<1>2. \A s \in Stages : Jobs(s)' = Jobs(s)
  BY DEF Jobs
<1> QED BY <1>1, <1>2 DEF AtRow, At, AtWork

\* The steps after the first frame has begun.
LEMMA ThreadStepIsBase ==
    ASSUME BaseInvariant, NEW t \in Threads, frame > 0, AtRow(t)',
           pc' \in [Threads -> Places], job' \in [Threads -> Nat \X Nat],
           \A u \in Threads : u # t => pc'[u] = pc[u] /\ job'[u] = job[u],
           UNCHANGED <<stream, frame>>, ended' \in BOOLEAN, start' \in [Stages -> BOOLEAN],
           arrived' \in [Barriers -> Nat],
           next' \in [Stages -> Nat], nextRow' \in [DOMAIN stream[1].tiles -> Nat],
           parsed' \in [DOMAIN stream[1].tiles -> Nat],
           progress' = [s \in RowStages |-> progress'[s]],
           \A s \in RowStages : progress'[s] \in [Jobs(s) -> Nat],
           rowMap' \in [Stages \ {"parse"} -> SUBSET (Nat \X Nat)]
    PROVE  BaseInvariant'
<1>1. \A s \in Stages : Jobs(s)' = Jobs(s)
  BY DEF Jobs
<1>2. Types'
  BY <1>1 DEF BaseInvariant, Types, RowStages, Stages
<1>3. BeforeFirst'
  BY DEF BeforeFirst, First
<1>4. InRange'
  BY RangeStays DEF BaseInvariant
<1> QED BY <1>2, <1>3, <1>4 DEF BaseInvariant

LEMMA BeginIsBase == BaseInvariant /\ Begin => BaseInvariant'
<1> SUFFICES ASSUME BaseInvariant, Begin PROVE BaseInvariant'
  OBVIOUS
<1>1. Types /\ Main \in Threads
  BY DEF BaseInvariant, Threads
<1>2. stream \in Streams /\ frame \in Nat /\ frame' = frame + 1 /\ frame' \in 0 .. Len(stream) /\ stream' = stream
  BY <1>1, FirstFrameFacts DEF Types, Begin
<1>3. Header'.tiles = stream[1].tiles /\ Header' = stream[frame']
  BY <1>2, FrameFacts, DecoderAssumption DEF Header
<1>4. pc' \in [Threads -> Places] /\ pc'[Main] = <<"main", "startMotion">>
      /\ \A u \in Threads : u # Main => pc'[u] = pc[u]
  BY <1>1, MoveFacts DEF Begin, Places, MainSteps
<1>5. \A s \in RowStages : Jobs(s)' = Jobs(s)
  BY <1>2 DEF Jobs
<1>6. NothingDone(stream[frame'], "recon") \in [Jobs("recon") -> Nat]
  BY <1>3 DEF NothingDone, Jobs, JobsOf, TileRows
<1>7. Types'
  <2>1. progress' = [s \in RowStages |-> progress'[s]]
        /\ \A s \in RowStages : progress'[s] \in [Jobs(s) -> Nat]
    <3>1. progress' = [progress EXCEPT !["recon"] = NothingDone(stream[frame'], "recon")]
      BY DEF Begin
    <3>2. progress' = [s \in RowStages |->
                         IF s = "recon" THEN NothingDone(stream[frame'], "recon") ELSE progress[s]]
      BY <1>1, <3>1 DEF Types
    <3> QED BY <1>1, <1>6, <3>2 DEF Types
  <2>2. /\ nextRow' \in [DOMAIN stream[1].tiles -> Nat]
        /\ parsed' \in [DOMAIN stream[1].tiles -> Nat]
    BY <1>3 DEF Begin
  <2>3. /\ rowMap' \in [Stages \ {"parse"} -> SUBSET (Nat \X Nat)]
        /\ next' \in [Stages -> Nat] /\ arrived' \in [Barriers -> Nat]
    BY <1>1 DEF Begin, Types
  <2> QED BY <1>1, <1>2, <1>4, <1>5, <2>1, <2>2, <2>3 DEF Begin, Types
<1>8. BeforeFirst'
  BY <1>2 DEF BeforeFirst, First
<1>9. InRange'
  <2>1. AtRow(Main)'
    BY <1>4 DEF AtRow, At, AtWork, Stages, RowStages
  <2> QED BY <1>1, <1>2, <1>4, <2>1, RangeStays DEF BaseInvariant, Begin
<1> QED BY <1>7, <1>8, <1>9 DEF BaseInvariant

LEMMA MainStepIsBase == BaseInvariant /\ MainStep => BaseInvariant'
<1> SUFFICES ASSUME BaseInvariant, MainStep, ~Begin PROVE BaseInvariant'
  BY BeginIsBase
<1>1. Types /\ Main \in Threads
  BY DEF BaseInvariant, Threads
<1>2. frame > 0
  <2>1. CASE Close
    BY <2>1 DEF Close
  <2>2. CASE ~Close
    <3>1. ASSUME AllExited PROVE pc[Main][2] \notin {"start", "block", "begin"}
      BY <3>1 DEF AllExited, At
    <3>2. ASSUME NEW s \in Stages, OpenStage(s) PROVE pc[Main][2] = s
      BY <3>2 DEF OpenStage, At
    <3>3. \A s \in Stages : s \notin {"start", "block", "begin"}
      BY DEF Stages, RowStages, Filters
    <3>4. ASSUME StartMotion \/ StartParse PROVE pc[Main][2] \notin {"start", "block", "begin"}
      BY <3>4 DEF StartMotion, StartParse, SetStart, At
    <3>5. ASSUME StartFilters PROVE pc[Main][2] \notin {"start", "block", "begin"}
      BY <3>5 DEF StartFilters, SetStart, At
    <3>6. ASSUME Queue PROVE pc[Main][2] \notin {"start", "block", "begin"}
      BY <3>6 DEF Queue, At
    <3>7. pc[Main][2] \notin {"start", "block", "begin"}
      BY <2>2, <3>1, <3>2, <3>3, <3>4, <3>5, <3>6 DEF MainStep, AllExited, StartMotion, StartParse, StartFilters,
         SetStart, Queue, At
    <3> QED BY <1>1, <3>7, FrameHasBegun
  <2> QED BY <2>1, <2>2
<1>3. /\ UNCHANGED <<stream, frame, job>> /\ ended' \in BOOLEAN /\ arrived' \in [Barriers -> Nat]
      /\ start' \in [Stages -> BOOLEAN] /\ nextRow' = nextRow /\ parsed' = parsed
  <2> USE <1>1 DEF Types, rowVars, syncVars
  <2>1. CASE Close
    BY <2>1 DEF Close
  <2>2. CASE AllExited
    BY <2>2 DEF AllExited
  <2>3. ASSUME NEW s \in Stages, OpenStage(s) PROVE <1>3
    BY <2>3 DEF OpenStage
  <2>4. CASE StartMotion
    BY <2>4 DEF StartMotion, SetStart, Stages
  <2>5. CASE StartParse
    BY <2>5 DEF StartParse, SetStart, CountersReset, Stages, Barriers
  <2>6. CASE StartFilters
    BY <2>6 DEF StartFilters, SetStart, Stages
  <2>7. CASE Queue
    BY <2>7 DEF Queue
  <2> QED BY <2>1, <2>2, <2>3, <2>4, <2>5, <2>6, <2>7 DEF MainStep
<1>4. \E place \in Places : GoTo(Main, place) /\ (place[1] \notin {"main", "close"} => place[2] = "start")
  <2>1. CASE Close \/ AllExited \/ StartMotion \/ StartParse
    BY <2>1 DEF Close, AllExited, StartMotion, StartParse, SetStart, Places, Stages, MainSteps, Steps, RowStages
  <2>2. CASE StartFilters
    <3>1. /\ <<"main", "startCdef">> \in Places /\ <<"main", "queueLr">> \in Places
          /\ <<"parse", "start">> \in Places /\ <<"lr", "start">> \in Places
      BY DEF Places, Stages, MainSteps, Steps, RowStages, Filters
    <3>2. AfterStart("cdef") \in {<<"parse", "start">>, <<"main", "queueLr">>}
          /\ AfterStart("lr") = <<"lr", "start">>
      BY DEF AfterStart
    <3>3. \/ GoTo(Main, <<"main", "startCdef">>) \/ GoTo(Main, AfterStart("cdef"))
          \/ GoTo(Main, AfterStart("lr"))
      BY <2>2 DEF StartFilters, SetStart
    <3> QED BY <3>1, <3>2, <3>3
  <2>3. CASE Queue
    BY <2>3 DEF Queue, Places, Stages, MainSteps, Steps, RowStages
  <2>4. ASSUME NEW s \in Stages, OpenStage(s)
        PROVE  \E place \in Places :
                  GoTo(Main, place) /\ (place[1] \notin {"main", "close"} => place[2] = "start")
    BY <2>4 DEF OpenStage, AfterOpening, Places, Stages, RowStages, Filters
  <2> QED BY <2>1, <2>2, <2>3, <2>4 DEF MainStep
<1>5. PICK place \in Places :
         GoTo(Main, place) /\ (place[1] \notin {"main", "close"} => place[2] = "start")
  BY <1>4
<1>6. /\ pc' \in [Threads -> Places] /\ pc'[Main] = place
      /\ \A u \in Threads : u # Main => pc'[u] = pc[u]
  BY <1>1, <1>5, MoveFacts
<1>7. AtRow(Main)'
  <2>1. \A s \in Stages : s \notin {"main", "close"}
    BY DEF Stages, RowStages, Filters
  <2>2. \A s \in Stages : place[1] = s => place[2] = "start"
    BY <1>5, <2>1
  <2> QED BY <1>6, <2>2 DEF AtRow, At, AtWork, Stages, RowStages
<1>8. /\ next' \in [Stages -> Nat] /\ rowMap' \in [Stages \ {"parse"} -> SUBSET (Nat \X Nat)]
      /\ progress' = [s \in RowStages |-> progress'[s]]
      /\ \A s \in RowStages : progress'[s] \in [Jobs(s) -> Nat]
  <2>1. CASE UNCHANGED rowVars
    BY <1>1, <2>1 DEF Types, rowVars
  <2>2. CASE QueueParse /\ UNCHANGED progress
    BY <1>1, <2>2 DEF QueueParse, Types
  <2>3. ASSUME NEW S \in {{"lf", "cdef"}, {"lr"}}, QueueFilters(S)
        PROVE  <1>8
    <3>1. \A s \in Filters : NothingDone(Header, s) \in [Jobs(s) -> Nat]
      BY <1>1, <1>2, FrameFacts DEF NothingDone, Jobs, JobsOf, FrameRows, Types, Filters
    <3>2. S \subseteq Filters
      BY DEF Filters
    <3> QED BY <1>1, <2>3, <3>1, <3>2 DEF QueueFilters, Types
  <2> QED BY <2>1, <2>2, <2>3 DEF MainStep, Close, AllExited, OpenStage, StartMotion, StartParse, StartFilters,
        SetStart, Queue
<1> QED BY <1>1, <1>2, <1>3, <1>6, <1>7, <1>8, ThreadStepIsBase DEF BaseInvariant, Types

LEMMA StageFacts ==
    /\ {"parse", "motion", "recon"} \subseteq Stages /\ Filters \subseteq RowStages /\ RowStages \subseteq Stages
    /\ Barriers \subseteq Stages /\ "motion" \notin RowStages /\ "parse" \notin RowStages
    /\ \A s \in Stages : s \notin {"main", "close"}
BY DEF Stages, RowStages, Filters, Barriers

LEMMA WaitIsBase ==
    ASSUME BaseInvariant, NEW t \in Threads, CheckStart(t) \/ Block(t)
    PROVE  BaseInvariant'
<1>1. Types
  BY DEF BaseInvariant
<1> DEFINE s == pc[t][1]
<1>2. PICK p \in {"claim", "block", "start"} : GoTo(t, <<s, p>>)
  BY DEF CheckStart, Block
<1>3. pc[t] \in Places /\ pc[t] = <<s, pc[t][2]>> /\ pc[t][2] \in {"start", "block"}
  <2>1. pc[t] \in Places
    BY <1>1 DEF Types
  <2> QED BY <2>1 DEF CheckStart, Block, Places
<1>4. <<s, p>> \in Places
  BY <1>2, <1>3 DEF Places, Steps
<1> HIDE DEF s
<1>5. /\ pc' \in [Threads -> Places] /\ pc'[t] = <<s, p>>
      /\ \A u \in Threads : u # t => pc'[u] = pc[u]
  BY <1>1, <1>2, <1>4, MoveFacts
<1>6. UNCHANGED <<stream, frame, ended, start, arrived, mutex, job, rowVars>>
  BY DEF CheckStart, Block, syncVars, rowVars
<1>7. AtRow(t)'
  BY <1>2, <1>5 DEF AtRow, At, AtWork
<1>8. InRange'
  BY <1>5, <1>6, <1>7, RangeStays DEF BaseInvariant
<1>9. Types'
  BY <1>1, <1>5, <1>6 DEF Types, Jobs, rowVars
<1>10. BeforeFirst'
  <2> SUFFICES ASSUME frame = 0 PROVE BeforeFirst'
    BY <1>6 DEF BeforeFirst, First
  <2>1. /\ At(Main, "main", "begin") /\ \A w \in Workers : pc[w] \in Waiting("motion")
        /\ FlagsDown(Stages) /\ mutex = None
    BY DEF BaseInvariant, BeforeFirst, First
  <2>2. t \in Workers /\ t # Main /\ s = "motion"
    BY <1>3, <2>1, DecoderAssumption DEF At, Waiting, Threads
  <2>3. p # "claim"
    BY <1>3, <1>5, <2>1, <2>2, StageFacts DEF CheckStart, Block, GoTo, FlagsDown, s, Types
  <2> QED BY <1>2, <1>5, <1>6, <2>1, <2>2, <2>3, DecoderAssumption
          DEF BeforeFirst, First, At, Waiting, FlagsDown, Threads
<1> QED BY <1>8, <1>9, <1>10 DEF BaseInvariant

\* A step after which the thread is at no row, and that leaves the rows alone.
LEMMA MoveIsBase ==
    ASSUME BaseInvariant, NEW t \in Threads, NEW place \in Places, GoTo(t, place), frame > 0,
           place[2] \notin {"run", "claimRow", "flag", "post"},
           UNCHANGED <<stream, frame, ended, job, rowVars>>,
           start' \in [Stages -> BOOLEAN], arrived' \in [Barriers -> Nat]
    PROVE  BaseInvariant'
<1>1. Types
  BY DEF BaseInvariant
<1>2. /\ pc' \in [Threads -> Places] /\ pc'[t] = place
      /\ \A u \in Threads : u # t => pc'[u] = pc[u]
  BY <1>1, MoveFacts
<1>3. AtRow(t)'
  BY <1>2 DEF AtRow, At, AtWork
<1> QED BY <1>1, <1>2, <1>3, ThreadStepIsBase DEF Types, rowVars

LEMMA BarrierIsBase ==
    ASSUME BaseInvariant, NEW t \in Threads,
           \/ \E s \in Barriers : Arrive(t, s) \/ SpinEnds(t, s)
           \/ ClearFlags(t) \/ Exit(t) \/ TileParsed(t)
    PROVE  BaseInvariant'
<1>1. Types
  BY DEF BaseInvariant
<1>2. frame > 0
  <2>1. ASSUME NEW s \in Barriers, Arrive(t, s) \/ SpinEnds(t, s) PROVE pc[t][2] \in {"count", "spin"}
    BY <2>1, AtPlace DEF Arrive, SpinEnds
  <2>2. ASSUME ClearFlags(t) \/ Exit(t) \/ TileParsed(t) PROVE pc[t][2] \in {"clear", "exit", "post"}
    BY <2>2, AtPlace DEF ClearFlags, Exit, TileParsed
  <2> QED BY <2>1, <2>2, FrameHasBegun
<1>3. \A s \in Stages : AfterStage(t, s) \in Places /\ AfterStage(t, s)[2] \notin {"run", "claimRow", "flag", "post"}
  BY AfterStageFacts DEF AfterStage, Stages, RowStages, Filters
<1>4. \A s \in Barriers : {<<s, "spin">>, <<"lr", "clear">>, <<"main", "exited">>, <<"parse", "claim">>} \subseteq Places
  BY DEF Places, Stages, Steps, MainSteps, RowStages, Filters, Barriers
<1>5. ASSUME NEW s \in Barriers, Arrive(t, s)
      PROVE  BaseInvariant'
  <2>1. PICK place \in {AfterStage(t, s), <<s, "spin">>, <<"lr", "clear">>} : GoTo(t, place)
    BY <1>5 DEF Arrive
  <2>2. start' \in [Stages -> BOOLEAN] /\ arrived' \in [Barriers -> Nat]
    <3>1. start' \in {start, [start EXCEPT !["motion"] = FALSE]} /\ arrived' = [arrived EXCEPT ![s] = @ + 1]
      BY <1>5 DEF Arrive
    <3>2. start' \in [Stages -> BOOLEAN]
      BY <1>1, <3>1, StageFacts DEF Types
    <3>3. arrived[s] \in Nat /\ arrived \in [Barriers -> Nat]
      BY <1>1 DEF Types
    <3>4. arrived' \in [Barriers -> Nat]
      BY <3>1, <3>3
    <3> QED BY <3>2, <3>4
  <2>3. UNCHANGED <<stream, frame, ended, job, rowVars>>
    BY <1>5 DEF Arrive
  <2> QED BY <1>2, <1>3, <1>4, <2>1, <2>2, <2>3, MoveIsBase, StageFacts
<1>6. ASSUME NEW s \in Barriers, SpinEnds(t, s)
      PROVE  BaseInvariant'
  <2>1. UNCHANGED <<stream, frame, ended, job, rowVars, start, arrived>> /\ GoTo(t, AfterStage(t, s))
    BY <1>6 DEF SpinEnds, syncVars
  <2> QED BY <1>1, <1>2, <1>3, <2>1, MoveIsBase, StageFacts DEF Types
<1>7. CASE ClearFlags(t)
  <2>1. /\ UNCHANGED <<stream, frame, ended, job, rowVars, arrived>> /\ GoTo(t, <<"lr", "spin">>)
        /\ start' \in [Stages -> BOOLEAN]
    BY <1>7 DEF ClearFlags
  <2>2. "lr" \in Barriers
    BY DEF Barriers
  <2> QED BY <1>1, <1>2, <1>4, <2>1, <2>2, MoveIsBase DEF Types
<1>8. CASE Exit(t)
  <2>1. UNCHANGED <<stream, frame, ended, job, rowVars, start, arrived>> /\ GoTo(t, <<"main", "exited">>)
    BY <1>8 DEF Exit, syncVars
  <2>2. "lr" \in Barriers
    BY DEF Barriers
  <2> QED BY <1>1, <1>2, <1>4, <2>1, <2>2, MoveIsBase DEF Types
<1>9. CASE TileParsed(t)
  <2>1. UNCHANGED <<stream, frame, ended, job, rowVars, start, arrived>> /\ GoTo(t, <<"parse", "claim">>)
    BY <1>9 DEF TileParsed, rowVars
  <2>2. "lr" \in Barriers
    BY DEF Barriers
  <2> QED BY <1>1, <1>2, <1>4, <2>1, <2>2, MoveIsBase DEF Types
<1> QED BY <1>5, <1>6, <1>7, <1>8, <1>9

LEMMA ClaimIsBase ==
    ASSUME BaseInvariant, NEW t \in Threads,
           ClaimMotionRow(t) \/ ClaimTile(t) \/ PickTile(t) \/ \E s \in Filters : ClaimFilterRow(t, s)
    PROVE  BaseInvariant'
<1>1. Types
  BY DEF BaseInvariant
<1>2. frame > 0
  <2>1. pc[t][2] = "claim"
    BY AtPlace DEF ClaimMotionRow, ClaimTile, PickTile, ClaimFilterRow
  <2> QED BY <2>1, FrameHasBegun
<1>3. /\ Tiles = stream[1].tiles /\ Rows = stream[1].rows
      /\ Tiles \in Seq(Tile) /\ DOMAIN Tiles = 1 .. Len(Tiles) /\ Len(Tiles) \in Nat
  BY <1>1, <1>2, FrameFacts DEF Types, Rows
<1>4. \A s \in Stages : \A p \in Steps : <<s, p>> \in Places
  BY DEF Places
<1>5. \A s \in Stages : AfterStage(t, s) \in Places /\ AfterStage(t, s)[2] \notin {"run", "claimRow", "flag", "post"}
  BY AfterStageFacts DEF AfterStage, Stages, RowStages, Filters
<1>6. UNCHANGED <<stream, frame, ended, start, arrived, nextRow, parsed, progress, rowMap>>
  BY DEF ClaimMotionRow, ClaimTile, PickTile, ClaimFilterRow, syncVars
<1>7. SUFFICES \E place \in Places : /\ GoTo(t, place)
                                    /\ \/ UNCHANGED <<job, next>>
                                          /\ place[2] \notin {"run", "claimRow", "flag", "post"}
                                       \/ /\ job' \in [Threads -> Nat \X Nat] /\ next' \in [Stages -> Nat]
                                          /\ \A u \in Threads : u # t => job'[u] = job[u]
                                          /\ \A s \in Stages \ {"parse"} :
                                                place = <<s, "run">> => job'[t] \in Jobs(s)
                                          /\ place[1] \in {"parse", "recon"} =>
                                                job'[t][1] \in DOMAIN stream[1].tiles
  <2> SUFFICES ASSUME NEW place \in Places, GoTo(t, place),
                      \/ UNCHANGED <<job, next>> /\ place[2] \notin {"run", "claimRow", "flag", "post"}
                      \/ /\ job' \in [Threads -> Nat \X Nat] /\ next' \in [Stages -> Nat]
                         /\ \A u \in Threads : u # t => job'[u] = job[u]
                         /\ \A s \in Stages \ {"parse"} : place = <<s, "run">> => job'[t] \in Jobs(s)
                         /\ place[1] \in {"parse", "recon"} => job'[t][1] \in DOMAIN stream[1].tiles
               PROVE  BaseInvariant'
    OBVIOUS
  <2>1. /\ pc' \in [Threads -> Places] /\ pc'[t] = place
        /\ \A u \in Threads : u # t => pc'[u] = pc[u]
    BY <1>1, MoveFacts
  <2>2. /\ job' \in [Threads -> Nat \X Nat] /\ next' \in [Stages -> Nat]
        /\ \A u \in Threads : u # t => job'[u] = job[u]
    BY <1>1 DEF Types
  <2>3. \A s \in Stages : Jobs(s)' = Jobs(s)
    BY <1>6 DEF Jobs
  <2>4. AtRow(t)'
    BY <1>6, <2>1, <2>3 DEF AtRow, At, AtWork
  <2> QED BY <1>1, <1>2, <1>6, <2>1, <2>2, <2>4, ThreadStepIsBase DEF Types
<1>8. ASSUME NEW s \in Stages, s \notin {"parse", "recon"}, next[s] < Rows,
             job' = [job EXCEPT ![t] = <<0, next[s]>>], next' = [next EXCEPT ![s] = @ + 1]
      PROVE  /\ job' \in [Threads -> Nat \X Nat] /\ next' \in [Stages -> Nat]
             /\ \A u \in Threads : u # t => job'[u] = job[u]
             /\ job'[t] \in Jobs(s)
  <2>1. next[s] \in Nat
    BY <1>1 DEF Types
  <2>2. <<0, next[s]>> \in Jobs(s)
    BY <1>1, <1>3, <1>8, <2>1, JobsFacts DEF Types
  <2> QED BY <1>1, <1>8, <2>1, <2>2 DEF Types
<1>9. ASSUME NEW s \in {"parse", "recon"}, next[s] < Len(Tiles),
             job' = [job EXCEPT ![t] = <<next[s] + 1, 0>>], next' = [next EXCEPT ![s] = @ + 1]
      PROVE  /\ job' \in [Threads -> Nat \X Nat] /\ next' \in [Stages -> Nat]
             /\ \A u \in Threads : u # t => job'[u] = job[u]
             /\ job'[t][1] \in DOMAIN stream[1].tiles
  <2>1. next[s] \in Nat /\ s \in Stages
    BY <1>1, StageFacts DEF Types
  <2>2. next[s] + 1 \in DOMAIN Tiles /\ next[s] + 1 \in Nat
    BY <1>3, <1>9, <2>1
  <2> QED BY <1>1, <1>3, <1>9, <2>1, <2>2 DEF Types
<1>10. CASE ClaimMotionRow(t)
  <2>1. CASE Header.motion /\ ~ended /\ next["motion"] < Rows
    <3>1. /\ job' = [job EXCEPT ![t] = <<0, next["motion"]>>] /\ next' = [next EXCEPT !["motion"] = @ + 1]
          /\ GoTo(t, <<"motion", "run">>)
      BY <1>10, <2>1 DEF ClaimMotionRow
    <3>2. <<"motion", "run">> \in Places /\ "motion" \in Stages
      BY <1>4, StageFacts DEF Steps
    <3> QED BY <1>8, <2>1, <3>1, <3>2
  <2>2. CASE ~(Header.motion /\ ~ended /\ next["motion"] < Rows)
    <3>1. UNCHANGED <<job, next>> /\ (GoTo(t, <<"motion", "count">>) \/ GoTo(t, AfterStage(t, "motion")))
      BY <1>10, <2>2 DEF ClaimMotionRow
    <3>2. <<"motion", "count">> \in Places
      BY <1>4, StageFacts DEF Steps
    <3> QED BY <1>5, <3>1, <3>2, StageFacts
  <2> QED BY <2>1, <2>2
<1>11. CASE ClaimTile(t)
  <2>1. CASE next["parse"] < Len(Tiles)
    <3>1. /\ job' = [job EXCEPT ![t] = <<next["parse"] + 1, 0>>] /\ next' = [next EXCEPT !["parse"] = @ + 1]
          /\ GoTo(t, <<"parse", "flag">>)
      BY <1>11, <2>1 DEF ClaimTile
    <3>2. <<"parse", "flag">> \in Places /\ \A s \in Stages : <<"parse", "flag">> # <<s, "run">>
      BY <1>4, StageFacts DEF Steps
    <3> QED BY <1>9, <2>1, <3>1, <3>2
  <2>2. CASE ~(next["parse"] < Len(Tiles))
    <3>1. UNCHANGED <<job, next>> /\ GoTo(t, AfterStage(t, "parse"))
      BY <1>11, <2>2 DEF ClaimTile
    <3> QED BY <1>5, <3>1, StageFacts
  <2> QED BY <2>1, <2>2
<1>12. CASE PickTile(t)
  <2>1. <<"recon", "claimRow">> \in Places /\ \A s \in Stages : <<"recon", "claimRow">> # <<s, "run">>
    BY <1>4, StageFacts DEF Steps
  <2>2. CASE /\ next["recon"] < Len(Tiles) /\ next' = [next EXCEPT !["recon"] = @ + 1]
             /\ job' = [job EXCEPT ![t] = <<next["recon"] + 1, 0>>] /\ GoTo(t, <<"recon", "claimRow">>)
    BY <1>9, <2>1, <2>2
  <2>3. ASSUME NEW k \in Unfinished, job' = [job EXCEPT ![t] = <<k, 0>>], GoTo(t, <<"recon", "claimRow">>),
               UNCHANGED next
        PROVE  \E place \in Places :
                  /\ GoTo(t, place)
                  /\ job' \in [Threads -> Nat \X Nat] /\ next' \in [Stages -> Nat]
                  /\ \A u \in Threads : u # t => job'[u] = job[u]
                  /\ \A s \in Stages \ {"parse"} : place = <<s, "run">> => job'[t] \in Jobs(s)
                  /\ place[1] \in {"parse", "recon"} => job'[t][1] \in DOMAIN stream[1].tiles
    <3>1. k \in DOMAIN Tiles /\ k \in Nat
      BY <1>3 DEF Unfinished
    <3>2. /\ job' \in [Threads -> Nat \X Nat] /\ \A u \in Threads : u # t => job'[u] = job[u]
          /\ job'[t][1] \in DOMAIN stream[1].tiles
      BY <1>1, <1>3, <2>3, <3>1 DEF Types
    <3> QED BY <1>1, <2>1, <2>3, <3>2 DEF Types
  <2>4. CASE UNCHANGED <<job, next>> /\ GoTo(t, AfterStage(t, "recon"))
    BY <1>5, <2>4, StageFacts
  <2> QED BY <1>12, <2>2, <2>3, <2>4 DEF PickTile
<1>13. ASSUME NEW s \in Filters, ClaimFilterRow(t, s)
       PROVE  \E place \in Places : /\ GoTo(t, place)
                                    /\ \/ UNCHANGED <<job, next>>
                                          /\ place[2] \notin {"run", "claimRow", "flag", "post"}
                                       \/ /\ job' \in [Threads -> Nat \X Nat] /\ next' \in [Stages -> Nat]
                                          /\ \A u \in Threads : u # t => job'[u] = job[u]
                                          /\ \A x \in Stages \ {"parse"} :
                                                place = <<x, "run">> => job'[t] \in Jobs(x)
                                          /\ place[1] \in {"parse", "recon"} =>
                                                job'[t][1] \in DOMAIN stream[1].tiles
  <2>1. s \in Stages /\ s \notin {"parse", "recon"}
    BY DEF Stages, RowStages, Filters
  <2>2. CASE next[s] < Rows
    <3>1. /\ job' = [job EXCEPT ![t] = <<0, next[s]>>] /\ next' = [next EXCEPT ![s] = @ + 1]
          /\ GoTo(t, <<s, "run">>)
      BY <1>13, <2>2 DEF ClaimFilterRow
    <3>2. <<s, "run">> \in Places
      BY <1>4, <2>1 DEF Steps
    <3> QED BY <1>8, <2>1, <2>2, <3>1, <3>2
  <2>3. CASE ~(next[s] < Rows)
    <3>1. UNCHANGED <<job, next>> /\ (GoTo(t, <<s, "count">>) \/ GoTo(t, AfterStage(t, s)))
      BY <1>13, <2>3 DEF ClaimFilterRow
    <3>2. <<s, "count">> \in Places
      BY <1>4, <2>1 DEF Steps
    <3> QED BY <1>5, <2>1, <3>1, <3>2
  <2> QED BY <2>2, <2>3
<1> QED BY <1>10, <1>11, <1>12, <1>13

LEMMA RowIsBase ==
    ASSUME BaseInvariant, NEW t \in Threads,
           \/ ProjectRow(t) \/ StartRecon(t) \/ ParseRow(t) \/ ClaimTileRow(t)
           \/ \E s \in RowStages : DoSuperblock(t, s) \/ FinishRow(t, s)
    PROVE  BaseInvariant'
<1>1. Types /\ AtRow(t)
  BY DEF BaseInvariant, InRange
<1>2. frame > 0
  <2>1. pc[t][2] \in {"run", "flag", "claimRow"}
    BY AtPlace DEF ProjectRow, StartRecon, ParseRow, ClaimTileRow, DoSuperblock, FinishRow
  <2> QED BY <2>1, FrameHasBegun
<1>3. /\ Tiles = stream[1].tiles /\ Rows = stream[1].rows
      /\ Tiles \in Seq(Tile) /\ DOMAIN Tiles = 1 .. Len(Tiles) /\ Len(Tiles) \in Nat
  BY <1>1, <1>2, FrameFacts DEF Types, Rows
<1>4. \A s \in Stages : \A p \in Steps : <<s, p>> \in Places
  BY DEF Places
<1>5. \A s \in Stages : Jobs(s)' = Jobs(s)
  BY DEF Jobs, ProjectRow, StartRecon, ParseRow, ClaimTileRow, DoSuperblock, FinishRow
<1>6. job[t] \in Nat \X Nat /\ job[t] = <<job[t][1], job[t][2]>>
  BY <1>1 DEF Types
<1>7. CASE ProjectRow(t)
  <2>1. GoTo(t, <<"motion", "claim">>) /\ <<"motion", "claim">> \in Places
    BY <1>4, <1>7, StageFacts DEF ProjectRow, Steps
  <2>2. pc' \in [Threads -> Places] /\ pc'[t] = <<"motion", "claim">> /\ \A u \in Threads : u # t => pc'[u] = pc[u]
    BY <1>1, <2>1, MoveFacts
  <2>3. AtRow(t)'
    BY <2>2 DEF AtRow, At, AtWork
  <2>4. rowMap' \in [Stages \ {"parse"} -> SUBSET (Nat \X Nat)]
    <3>1. rowMap' = [rowMap EXCEPT !["motion"] = rowMap["motion"] \cup {job[t]}] /\ rowMap["motion"] \subseteq Nat \X Nat
      BY <1>1, <1>7, StageFacts DEF ProjectRow, Types
    <3> QED BY <1>1, <1>6, <3>1 DEF Types
  <2>5. UNCHANGED <<stream, frame, ended, start, arrived, job, next, nextRow, parsed, progress>>
    BY <1>7 DEF ProjectRow, syncVars
  <2> QED BY <1>1, <1>2, <2>2, <2>3, <2>4, <2>5, ThreadStepIsBase DEF Types
<1>8. CASE StartRecon(t)
  <2>1. GoTo(t, <<"parse", "run">>) /\ <<"parse", "run">> \in Places
    BY <1>4, <1>8, StageFacts DEF StartRecon, Steps
  <2>2. pc' \in [Threads -> Places] /\ pc'[t] = <<"parse", "run">> /\ \A u \in Threads : u # t => pc'[u] = pc[u]
    BY <1>1, <2>1, MoveFacts
  <2>3. job[t][1] \in DOMAIN stream[1].tiles
    BY <1>1, <1>8 DEF AtRow, AtWork, StartRecon
  <2>4. UNCHANGED <<stream, frame, ended, arrived, job, rowVars>> /\ start' \in [Stages -> BOOLEAN]
    BY <1>1, <1>8 DEF StartRecon, Types
  <2>5. AtRow(t)'
    BY <2>2, <2>3, <2>4 DEF AtRow, At, AtWork
  <2> QED BY <1>1, <1>2, <2>2, <2>4, <2>5, ThreadStepIsBase DEF Types, rowVars
<1>9. CASE ParseRow(t)
  <2>1. PICK p \in {"post", "run"} : GoTo(t, <<"parse", p>>)
    BY <1>9 DEF ParseRow
  <2>2. <<"parse", p>> \in Places
    BY <1>4, StageFacts DEF Steps
  <2>3. pc' \in [Threads -> Places] /\ pc'[t] = <<"parse", p>> /\ \A u \in Threads : u # t => pc'[u] = pc[u]
    BY <1>1, <2>1, <2>2, MoveFacts
  <2>4. job[t][1] \in DOMAIN stream[1].tiles
    BY <1>1, <1>9 DEF AtRow, AtWork, ParseRow
  <2>5. parsed' \in [DOMAIN stream[1].tiles -> Nat]
    <3>1. parsed' = parsed \/ parsed' = [parsed EXCEPT ![job[t][1]] = @ + 1]
      BY <1>9 DEF ParseRow
    <3>2. parsed \in [DOMAIN stream[1].tiles -> Nat]
      BY <1>1 DEF Types
    <3> QED BY <2>4, <3>1, <3>2
  <2>6. UNCHANGED <<stream, frame, ended, start, arrived, job, next, nextRow, progress, rowMap>>
    BY <1>9 DEF ParseRow, syncVars
  <2>7. AtRow(t)'
    BY <2>3, <2>4, <2>6 DEF AtRow, At, AtWork
  <2> QED BY <1>1, <1>2, <2>3, <2>5, <2>6, <2>7, ThreadStepIsBase DEF Types
<1>10. CASE ClaimTileRow(t)
  <2> DEFINE k == job[t][1]
  <2>1. k \in DOMAIN stream[1].tiles /\ k \in DOMAIN Tiles /\ k \in Nat
    BY <1>1, <1>3, <1>6, <1>10 DEF AtRow, ClaimTileRow
  <2>2. nextRow[k] \in Nat
    BY <1>1, <2>1 DEF Types
  <2>3. UNCHANGED <<stream, frame, ended, start, arrived, next, parsed, progress, rowMap>>
    BY <1>10 DEF ClaimTileRow, syncVars
  <2>4. <<"recon", "run">> \in Places /\ <<"recon", "claim">> \in Places
    BY <1>4, StageFacts DEF Steps
  <2>5. CASE nextRow[k] < Tiles[k].rows
    <3>1. /\ nextRow' = [nextRow EXCEPT ![k] = @ + 1]
          /\ job' = [job EXCEPT ![t] = <<k, nextRow[k]>>] /\ GoTo(t, <<"recon", "run">>)
      BY <1>10, <2>5 DEF ClaimTileRow
    <3>2. pc' \in [Threads -> Places] /\ pc'[t] = <<"recon", "run">> /\ \A u \in Threads : u # t => pc'[u] = pc[u]
      BY <1>1, <2>4, <3>1, MoveFacts
    <3>3. /\ job' \in [Threads -> Nat \X Nat] /\ job'[t] = <<k, nextRow[k]>>
          /\ \A u \in Threads : u # t => job'[u] = job[u]
      BY <1>1, <2>1, <2>2, <3>1 DEF Types
    <3>4. <<k, nextRow[k]>> \in Jobs("recon")
      BY <1>1, <1>3, <2>1, <2>2, <2>5, JobsFacts DEF Types
    <3>5. nextRow' \in [DOMAIN stream[1].tiles -> Nat]
      BY <1>1, <2>1, <2>2, <3>1 DEF Types
    <3>6. AtRow(t)'
      BY <1>5, <3>2, <3>3, <3>4, StageFacts DEF AtRow, At, AtWork
    <3> QED BY <1>1, <1>2, <2>3, <3>2, <3>3, <3>5, <3>6, ThreadStepIsBase DEF Types
  <2>6. CASE ~(nextRow[k] < Tiles[k].rows)
    <3>1. UNCHANGED <<nextRow, job>> /\ GoTo(t, <<"recon", "claim">>)
      BY <1>10, <2>6 DEF ClaimTileRow
    <3> QED BY <1>1, <1>2, <2>3, <2>4, <3>1, MoveIsBase DEF Types, rowVars
  <2> QED BY <2>5, <2>6
<1>11. ASSUME NEW s \in RowStages, DoSuperblock(t, s)
       PROVE  BaseInvariant'
  <2>1. UNCHANGED <<stream, frame, ended, start, arrived, pc, job, next, nextRow, parsed, rowMap>>
    BY <1>11 DEF DoSuperblock, syncVars
  <2>2. job[t] \in Jobs(s)
    BY <1>1, <1>11, StageFacts DEF DoSuperblock, AtRow
  <2>3. progress' = [progress EXCEPT ![s][job[t]] = progress[s][job[t]] + 1]
    BY <1>11 DEF DoSuperblock
  <2>4. progress = [x \in RowStages |-> progress[x]] /\ \A x \in RowStages : progress[x] \in [Jobs(x) -> Nat]
    BY <1>1 DEF Types
  <2>5. progress' = [x \in RowStages |->
                       IF x = s THEN [progress[x] EXCEPT ![job[t]] = progress[s][job[t]] + 1] ELSE progress[x]]
    BY <2>3, <2>4
  <2>6. \A x \in RowStages : progress'[x] \in [Jobs(x) -> Nat]
    BY <2>2, <2>4, <2>5
  <2>7. AtRow(t)'
    BY <1>1, <1>5, <2>1 DEF AtRow, At, AtWork
  <2>8. progress' = [x \in RowStages |-> progress'[x]]
    BY <2>5
  <2> QED BY <1>1, <1>2, <2>1, <2>6, <2>7, <2>8, ThreadStepIsBase DEF Types
<1>12. ASSUME NEW s \in RowStages, FinishRow(t, s)
       PROVE  BaseInvariant'
  <2>1. UNCHANGED <<stream, frame, ended, start, arrived, job, next, nextRow, parsed, progress>>
    BY <1>12 DEF FinishRow, syncVars
  <2>2. PICK p \in {"claimRow", "claim"} : GoTo(t, <<s, p>>) /\ (s = "recon" \/ p = "claim")
    BY <1>12 DEF FinishRow
  <2>3. s \in Stages \ {"parse"} /\ <<s, p>> \in Places
    BY <1>4, StageFacts DEF Steps
  <2>4. pc' \in [Threads -> Places] /\ pc'[t] = <<s, p>> /\ \A u \in Threads : u # t => pc'[u] = pc[u]
    BY <1>1, <2>2, <2>3, MoveFacts
  <2>5. job[t] \in Jobs(s)
    BY <1>1, <1>12, <2>3 DEF FinishRow, AtRow
  <2>6. Reported(s, job[t]) \subseteq Nat \X Nat
    <3>1. {<<0, r>> : r \in {job[t][2] - 1} \cap Nat} \subseteq Nat \X Nat /\ {job[t]} \subseteq Nat \X Nat
      BY <1>6
    <3> QED BY <3>1 DEF Reported
  <2>7. rowMap' \in [Stages \ {"parse"} -> SUBSET (Nat \X Nat)]
    <3>1. rowMap' = [rowMap EXCEPT ![s] = rowMap[s] \cup Reported(s, job[t])] /\ rowMap[s] \subseteq Nat \X Nat
      BY <1>1, <1>12, <2>3 DEF FinishRow, Types
    <3> QED BY <1>1, <2>6, <3>1 DEF Types
  <2>8. s = "recon" => job[t][1] \in DOMAIN stream[1].tiles
    BY <1>1, <2>5, JobsFacts DEF Types
  <2>9. AtRow(t)'
    BY <2>1, <2>2, <2>4, <2>8 DEF AtRow, At, AtWork
  <2> QED BY <1>1, <1>2, <2>1, <2>4, <2>7, <2>9, ThreadStepIsBase DEF Types
<1> QED BY <1>7, <1>8, <1>9, <1>10, <1>11, <1>12

LEMMA NextIsBase == BaseInvariant /\ [Next]_vars => BaseInvariant'
<1> SUFFICES ASSUME BaseInvariant, [Next]_vars PROVE BaseInvariant'
  OBVIOUS
<1>1. CASE UNCHANGED vars
  <2>1. UNCHANGED <<stream, frame, ended, start, arrived, mutex, pc, job, next, nextRow, parsed, progress, rowMap>>
    BY <1>1 DEF vars, syncVars, rowVars
  <2>2. \A s \in Stages : Jobs(s)' = Jobs(s)
    BY <2>1 DEF Jobs
  <2>3. Types'
    BY <2>1 DEF BaseInvariant, Types, Jobs
  <2>4. BeforeFirst'
    BY <2>1 DEF BaseInvariant, BeforeFirst, First, At, FlagsDown
  <2>5. InRange'
    BY <2>1, <2>2 DEF BaseInvariant, InRange, AtRow, At, AtWork
  <2> QED BY <2>3, <2>4, <2>5 DEF BaseInvariant
<1>2. CASE MainStep
  BY <1>2, MainStepIsBase
<1>3. ASSUME NEW t \in Threads, ThreadStep(t)
      PROVE  BaseInvariant'
  BY <1>3, WaitIsBase, BarrierIsBase, ClaimIsBase, RowIsBase DEF ThreadStep
<1> QED BY <1>1, <1>2, <1>3 DEF Next

\* In every reachable state the variables have their types, no worker is ahead of
\* the first frame, and a thread at a row or tile is at one of the frame's.
THEOREM BaseHolds == Spec => []BaseInvariant
<1>1. Init => BaseInvariant
  BY InitIsBase
<1>2. BaseInvariant /\ [Next]_vars => BaseInvariant'
  BY NextIsBase
<1> QED BY <1>1, <1>2, PTL DEF Spec

-----------------------------------------------------------------------------
(* The wavefront.                                                          *)

\* cdef_completed_in_row does not tell the first superblock of a row from none.
Wide == \A str \in Streams : \A f \in DOMAIN str : "cdef" \in str[f].filters => str[f].cols > 1

WidthOf(s, j) == IF s = "recon" THEN stream[1].tiles[j[1]].cols ELSE stream[1].cols
\* n superblocks are done in a row, or more, when c are in one below it.
IsAhead(n, c, w) == n > c \/ n >= w

\* All rows above are at least one superblock ahead, up to the end.
Staircase(s) ==
    \A j \in Jobs(s) : \A r \in 0 .. j[2] - 1 :
        progress[s][j] > 0 => IsAhead(progress[s][<<j[1], r>>], progress[s][j], WidthOf(s, j))
\* The wait of CDEF does not hold back a row of one column.
KeepsOrder(s) == s # "cdef" \/ Wide
WavefrontInvariant == BaseInvariant /\ \A s \in RowStages : KeepsOrder(s) => Staircase(s)

LEMMA MinOfTwo ==
    ASSUME NEW a \in Int, NEW b \in Int
    PROVE  Min({a, b}) = (IF a <= b THEN a ELSE b)
BY DEF Min

LEMMA MaxOfTwo ==
    ASSUME NEW a \in Int, NEW b \in Int
    PROVE  Max({a, b}) = (IF a >= b THEN a ELSE b)
BY DEF Max

LEMMA WidthFacts ==
    ASSUME Types, frame > 0, NEW s \in RowStages, NEW j \in Jobs(s)
    PROVE  Width(s, j) = WidthOf(s, j) /\ WidthOf(s, j) \in Nat \ {0}
<1>1. /\ Cols = stream[1].cols /\ Cols \in Nat \ {0} /\ Tiles = stream[1].tiles /\ Tiles \in Seq(Tile)
  BY FrameFacts DEF Types, Cols
<1>2. CASE s = "recon"
  <2>1. j[1] \in DOMAIN Tiles
    BY <1>1, <1>2, JobsFacts DEF Types
  <2>2. Tiles[j[1]] \in Tile
    BY <1>1, <2>1
  <2> QED BY <1>1, <1>2, <2>2 DEF Width, WidthOf, Tile
<1>3. CASE s # "recon"
  BY <1>1, <1>3 DEF Width, WidthOf
<1> QED BY <1>2, <1>3

\* What the wait before a superblock guarantees.
LEMMA AboveIsAhead ==
    ASSUME NEW s \in RowStages, NEW n \in Nat, NEW c \in Nat, NEW w \in Nat \ {0}, c < w,
           AboveFinished(s, n, c, w), s = "cdef" => w > 1
    PROVE  IsAhead(n, c + 1, w) /\ n > 0
<1>1. CASE s = "recon"
  <2>1. n >= Min({c + 2, w})
    BY <1>1 DEF AboveFinished
  <2> QED BY <2>1, MinOfTwo DEF IsAhead
<1>2. CASE s = "lf"
  <2>1. n - 1 >= Min({c + 2, w - 1})
    BY <1>2 DEF AboveFinished
  <2> QED BY <2>1, MinOfTwo DEF IsAhead
<1>3. CASE s = "cdef"
  <2>1. Max({n - 1, 0}) >= (IF c = w - 1 THEN c ELSE c + 1)
    BY <1>3 DEF AboveFinished
  <2>2. Max({n - 1, 0}) = IF n - 1 >= 0 THEN n - 1 ELSE 0
    BY MaxOfTwo
  <2>3. w > 1
    BY <1>3
  <2> QED BY <2>1, <2>2, <2>3 DEF IsAhead
<1>4. CASE s = "lr"
  <2>1. n - 1 >= (IF c = w - 1 THEN c ELSE c + 1)
    BY <1>4 DEF AboveFinished
  <2> QED BY <2>1 DEF IsAhead
<1> QED BY <1>1, <1>2, <1>3, <1>4 DEF RowStages, Filters

LEMMA SuperblockKeepsWavefront ==
    ASSUME WavefrontInvariant, NEW t \in Threads, NEW s \in RowStages, DoSuperblock(t, s)
    PROVE  \A x \in RowStages : KeepsOrder(x) => Staircase(x)'
<1>1. Types /\ BaseInvariant
  BY DEF WavefrontInvariant, BaseInvariant
<1>2. frame > 0
  BY <1>1, AtPlace, FrameHasBegun DEF DoSuperblock
<1> DEFINE j == job[t]
<1> DEFINE c == progress[s][j]
<1> DEFINE w == WidthOf(s, j)
<1>3. s \in Stages \ {"parse"} /\ stream' = stream
  BY StageFacts DEF DoSuperblock
<1>4. j \in Jobs(s)
  BY <1>1, <1>3 DEF DoSuperblock, BaseInvariant, InRange, AtRow
<1>5. /\ progress = [x \in RowStages |-> progress[x]]
      /\ \A x \in RowStages : progress[x] \in [Jobs(x) -> Nat]
  BY <1>1 DEF Types
<1>6. progress' = [progress EXCEPT ![s][j] = c + 1]
  BY DEF DoSuperblock
<1>7. /\ progress'[s] = [progress[s] EXCEPT ![j] = c + 1]
      /\ \A x \in RowStages : x # s => progress'[x] = progress[x]
  BY <1>5, <1>6
<1>8. w \in Nat \ {0} /\ Width(s, j) = w /\ c < w /\ c \in Nat
  BY <1>1, <1>2, <1>4, <1>5, WidthFacts DEF DoSuperblock
<1>9. s = "cdef" /\ KeepsOrder(s) => w > 1
  <2> SUFFICES ASSUME s = "cdef", Wide PROVE w > 1
    BY DEF KeepsOrder
  <2>1. "cdef" \in Header.filters
    BY DEF DoSuperblock, Enabled
  <2>2. stream \in Streams /\ frame \in DOMAIN stream
    BY <1>1, <1>2, FirstFrameFacts DEF Types
  <2>3. Cols > 1
    BY <2>1, <2>2 DEF Wide, Header, Cols
  <2> QED BY <1>8, <2>3 DEF Width
<1>10. \A x \in Stages : Jobs(x)' = Jobs(x)
  BY <1>3 DEF Jobs
<1>11. \A x \in RowStages : \A i \in Jobs(x) : WidthOf(x, i)' = WidthOf(x, i)
  BY <1>3 DEF WidthOf
<1>12. ASSUME NEW x \in RowStages, x # s, KeepsOrder(x) PROVE Staircase(x)'
  <2>1. Staircase(x)
    BY <1>12 DEF WavefrontInvariant
  <2> QED BY <1>3, <1>7, <1>10, <1>12, <2>1, StageFacts DEF Staircase, WidthOf
<1>13. ASSUME KeepsOrder(s) PROVE Staircase(s)'
  <2> SUFFICES ASSUME NEW i \in Jobs(s), NEW r \in 0 .. i[2] - 1, progress'[s][i] > 0
               PROVE  IsAhead(progress'[s][<<i[1], r>>], progress'[s][i], WidthOf(s, i))
    BY <1>3, <1>10 DEF Staircase, WidthOf
  <2>1. i \in Nat \X Nat /\ i = <<i[1], i[2]>> /\ \A y \in 0 .. i[2] : <<i[1], y>> \in Jobs(s)
    BY <1>1, <1>3, JobsFacts DEF Types
  <2>2. <<i[1], r>> \in Jobs(s) /\ <<i[1], r>> # i /\ i[2] \in Nat
    BY <2>1
  <2>3. Staircase(s)
    BY <1>13 DEF WavefrontInvariant
  <2>4. progress[s] \in [Jobs(s) -> Nat]
    BY <1>5
  <2>5. CASE i # j
    <3>1. progress'[s][i] = progress[s][i]
      BY <1>7, <2>4, <2>5
    <3>2. IsAhead(progress[s][<<i[1], r>>], progress[s][i], WidthOf(s, i))
      BY <2>3, <3>1 DEF Staircase
    <3>3. progress'[s][<<i[1], r>>] >= progress[s][<<i[1], r>>] /\ progress'[s][<<i[1], r>>] \in Nat
      BY <1>7, <1>8, <2>2, <2>4
    <3>4. WidthOf(s, i) \in Nat /\ progress[s][i] \in Nat /\ progress[s][<<i[1], r>>] \in Nat
      BY <1>1, <1>2, <2>2, <2>4, WidthFacts
    <3> QED BY <3>1, <3>2, <3>3, <3>4 DEF IsAhead
  <2>6. CASE i = j
    <3> DEFINE above == <<j[1], j[2] - 1>>
    <3>1. j[2] # 0 /\ above \in Jobs(s) /\ above # j
      <4>1. j[2] \in Nat /\ r \in 0 .. j[2] - 1
        BY <2>1, <2>6
      <4>2. j[2] # 0 /\ j[2] - 1 \in 0 .. j[2] /\ j[2] - 1 # j[2]
        BY <4>1
      <4> QED BY <2>1, <2>6, <4>2
    <3>2. progress[s][above] \in Nat
      BY <2>4, <3>1
    <3>3. AboveFinished(s, progress[s][above], c, w)
      BY <1>8, <3>1 DEF DoSuperblock
    <3>4. IsAhead(progress[s][above], c + 1, w) /\ progress[s][above] > 0
      BY <1>8, <1>9, <1>13, <3>2, <3>3, AboveIsAhead
    <3>5. progress'[s][j] = c + 1 /\ progress'[s][<<j[1], r>>] = progress[s][<<j[1], r>>]
      BY <1>4, <1>7, <2>2, <2>4, <2>6
    <3>6. CASE r = j[2] - 1
      BY <2>6, <3>4, <3>5, <3>6
    <3>7. CASE r # j[2] - 1
      <4>1. r \in 0 .. above[2] - 1 /\ above[1] = j[1]
        BY <2>1, <2>6, <3>7
      <4>2. IsAhead(progress[s][<<j[1], r>>], progress[s][above], WidthOf(s, above))
        BY <2>3, <3>1, <3>4, <4>1 DEF Staircase
      <4>3. WidthOf(s, above) = w
        BY DEF WidthOf
      <4>4. progress[s][<<j[1], r>>] \in Nat
        BY <2>2, <2>4, <2>6
      <4> QED BY <1>8, <2>6, <3>2, <3>4, <3>5, <4>2, <4>3, <4>4 DEF IsAhead
    <3> QED BY <3>6, <3>7
  <2> QED BY <2>5, <2>6
<1> QED BY <1>12, <1>13

\* Only superblocks add to the progress of a row; queuing a stage clears it.
LEMMA ProgressOnly ==
    ASSUME BaseInvariant, [Next]_vars
    PROVE  \/ \E t \in Threads, s \in RowStages : DoSuperblock(t, s)
           \/ /\ stream' = stream
              /\ \A s \in RowStages : progress'[s] = progress[s] \/ \A j \in Jobs(s) : progress'[s][j] = 0
<1>1. BaseInvariant' /\ Types /\ Types'
  BY NextIsBase DEF BaseInvariant
<1> DEFINE Goal == \A s \in RowStages : progress'[s] = progress[s] \/ \A j \in Jobs(s) : progress'[s][j] = 0
<1>2. CASE UNCHANGED <<stream, progress>>
  BY <1>2
<1>3. CASE Begin
  <2>1. /\ progress' = [progress EXCEPT !["recon"] = NothingDone(stream[frame'], "recon")]
        /\ stream' = stream
    BY <1>3 DEF Begin
  <2>2. \A s \in RowStages : s # "recon" => progress'[s] = progress[s]
    BY <1>1, <2>1 DEF Types
  <2>3. progress'["recon"] = NothingDone(stream[frame'], "recon")
    BY <1>1, <2>1, StageFacts DEF Types, RowStages
  <2>4. DOMAIN progress'["recon"] = Jobs("recon")'
    BY <1>1, StageFacts DEF Types, RowStages
  <2>5. \A j \in Jobs("recon") : progress'["recon"][j] = 0
    BY <2>1, <2>3, <2>4 DEF NothingDone, Jobs
  <2> QED BY <2>1, <2>2, <2>5
<1>4. ASSUME NEW S \in {{"lf", "cdef"}, {"lr"}}, QueueFilters(S), stream' = stream
      PROVE  Goal
  <2> SUFFICES ASSUME NEW s \in RowStages
               PROVE  progress'[s] = progress[s] \/ \A j \in Jobs(s) : progress'[s][j] = 0
    OBVIOUS
  <2>1. progress'[s] = IF s \in S THEN NothingDone(Header, s) ELSE progress[s]
    BY <1>4 DEF QueueFilters
  <2>2. CASE s \in S
    <3>1. progress'[s] = NothingDone(Header, s) /\ DOMAIN progress'[s] = Jobs(s)
      BY <1>1, <1>4, <2>1, <2>2 DEF Types, Jobs
    <3> QED BY <3>1 DEF NothingDone
  <2> QED BY <2>1, <2>2
<1>5. CASE Queue
  <2>1. stream' = stream
    BY <1>5 DEF Queue
  <2>2. UNCHANGED progress \/ \E S \in {{"lf", "cdef"}, {"lr"}} : QueueFilters(S)
    BY <1>5 DEF Queue
  <2> QED BY <1>2, <1>4, <2>1, <2>2
<1>6. CASE MainStep
  BY <1>2, <1>3, <1>5, <1>6 DEF MainStep, Close, AllExited, OpenStage, StartMotion, StartParse, StartFilters,
     SetStart, rowVars
<1>7. ASSUME NEW t \in Threads, ThreadStep(t), ~(\E s \in RowStages : DoSuperblock(t, s))
      PROVE  UNCHANGED <<stream, progress>>
  <2>1. CASE CheckStart(t) \/ Block(t) \/ StartRecon(t) \/ TileParsed(t)
             \/ (\E s \in Barriers : Arrive(t, s) \/ SpinEnds(t, s)) \/ ClearFlags(t) \/ Exit(t)
    BY <2>1 DEF CheckStart, Block, StartRecon, TileParsed, Arrive, SpinEnds, ClearFlags, Exit, rowVars
  <2>2. CASE ClaimMotionRow(t) \/ ProjectRow(t) \/ ClaimTile(t) \/ ParseRow(t) \/ PickTile(t) \/ ClaimTileRow(t)
             \/ (\E s \in Filters : ClaimFilterRow(t, s)) \/ (\E s \in RowStages : FinishRow(t, s))
    BY <2>2 DEF ClaimMotionRow, ProjectRow, ClaimTile, ParseRow, PickTile, ClaimTileRow, ClaimFilterRow,
       FinishRow
  <2> QED BY <1>7, <2>1, <2>2 DEF ThreadStep
<1>8. CASE UNCHANGED vars
  BY <1>2, <1>8 DEF vars, rowVars
<1> QED BY <1>2, <1>6, <1>7, <1>8 DEF Next

LEMMA NextKeepsWavefront ==
    ASSUME WavefrontInvariant, [Next]_vars
    PROVE  WavefrontInvariant'
<1>1. BaseInvariant /\ BaseInvariant'
  BY NextIsBase DEF WavefrontInvariant
<1> SUFFICES \A s \in RowStages : KeepsOrder(s) => Staircase(s)'
  BY <1>1 DEF WavefrontInvariant
<1>2. CASE \E t \in Threads, s \in RowStages : DoSuperblock(t, s)
  BY <1>2, SuperblockKeepsWavefront
<1>3. CASE /\ stream' = stream
           /\ \A s \in RowStages : progress'[s] = progress[s] \/ \A j \in Jobs(s) : progress'[s][j] = 0
  <2> SUFFICES ASSUME NEW s \in RowStages, KeepsOrder(s) PROVE Staircase(s)'
    OBVIOUS
  <2>1. Staircase(s)
    BY DEF WavefrontInvariant
  <2>2. Jobs(s)' = Jobs(s) /\ \A j \in Jobs(s) : WidthOf(s, j)' = WidthOf(s, j)
    BY <1>3 DEF Jobs, WidthOf
  <2> QED BY <1>3, <2>1, <2>2 DEF Staircase
<1> QED BY <1>1, <1>2, <1>3, ProgressOnly

LEMMA WavefrontFollows == Wide /\ WavefrontInvariant => Wavefront
<1> SUFFICES ASSUME Wide, WavefrontInvariant, NEW s \in RowStages, NEW j \in DOMAIN progress[s],
                    frame > 0, j[2] > 0, progress[s][j] > 0
             PROVE  progress[s][<<j[1], j[2] - 1>>] >= Min({progress[s][j] + 1, Width(s, j)})
  BY DEF Wavefront
<1>1. Types /\ Staircase(s) /\ progress[s] \in [Jobs(s) -> Nat]
  BY DEF WavefrontInvariant, KeepsOrder, BaseInvariant, Types
<1>2. j \in Jobs(s) /\ j \in Nat \X Nat /\ \A r \in 0 .. j[2] : <<j[1], r>> \in Jobs(s)
  BY <1>1, JobsFacts, StageFacts DEF Types
<1>3. j[2] - 1 \in 0 .. j[2] - 1 /\ j[2] - 1 \in 0 .. j[2]
  BY <1>2
<1>4. IsAhead(progress[s][<<j[1], j[2] - 1>>], progress[s][j], WidthOf(s, j))
  BY <1>1, <1>2, <1>3 DEF Staircase
<1>5. Width(s, j) = WidthOf(s, j) /\ WidthOf(s, j) \in Nat
  BY <1>1, <1>2, WidthFacts
<1>6. progress[s][j] \in Nat /\ progress[s][<<j[1], j[2] - 1>>] \in Nat
  BY <1>1, <1>2, <1>3
<1>7. Min({progress[s][j] + 1, WidthOf(s, j)})
         = IF progress[s][j] + 1 <= WidthOf(s, j) THEN progress[s][j] + 1 ELSE WidthOf(s, j)
  <2>1. progress[s][j] + 1 \in Int /\ WidthOf(s, j) \in Int
    BY <1>5, <1>6
  <2> QED BY <2>1, MinOfTwo
<1> QED BY <1>4, <1>5, <1>6, <1>7 DEF IsAhead

LEMMA WavefrontInvariantHolds == Spec => []WavefrontInvariant
<1>1. Init => WavefrontInvariant
  <2> SUFFICES ASSUME Init PROVE \A s \in RowStages : Staircase(s)
    BY InitIsBase DEF WavefrontInvariant
  <2> TAKE s \in RowStages
  <2>1. \A j \in Jobs(s) : progress[s][j] = 0
    BY DEF Init, NothingDone, Jobs
  <2> QED BY <2>1 DEF Staircase
<1>2. WavefrontInvariant /\ [Next]_vars => WavefrontInvariant'
  BY NextKeepsWavefront
<1> QED BY <1>1, <1>2, PTL DEF Spec

\* For any number of threads and tiles, whatever the order in which they take rows:
\* no superblock is reconstructed or filtered before the one above and to the right
\* is, provided CDEF is only used on frames of more than one column.
THEOREM WavefrontHolds ==
    ASSUME Wide
    PROVE  Spec => []Wavefront
BY WavefrontInvariantHolds, WavefrontFollows, PTL

-----------------------------------------------------------------------------
(* Where the threads are.                                                  *)

\* use_ref_frame_mvs is not needed, but the barrier after the motion stage is.
Hinted == \A str \in Streams : \A f \in DOMAIN str : str[f].hint

StepsNow == Steps \ {"exit"}
LateStages == {"parse", "recon", "lf", "cdef", "lr"}
LatePlaces == LateStages \X StepsNow
MainPlaces == {"main"} \X {"queueFilters", "startLf", "startCdef", "queueLr", "startLr", "begin"}
Ends == {<<"lr", "clear">>, <<"lr", "spin">>}
Resting == Ends \cup Waiting("motion") \cup {<<"main", "begin">>}
\* t has been counted at the end of the frame.
Rest(t) == pc[t] \in Resting
AllRest == \A t \in Threads : Rest(t)
\* t has been counted at the end of the motion stage, while Main is at it.
Projected(t) == pc[t] = <<"motion", "spin">> \/ pc[t][1] = "parse"

\* The stages after s, and the threads that have found the start flag of s set.
Later(s) ==
    CASE s = "motion" -> LateStages
      [] s = "parse" -> {"recon", "lf", "cdef", "lr"}
      [] s = "recon" -> {"lf", "cdef", "lr"}
      [] s = "lf" -> {"cdef", "lr"}
      [] s = "cdef" -> {"lr"}
      [] s = "lr" -> {}
Into(t, s) == Rest(t) \/ pc[t][1] \in Later(s) \/ (pc[t][1] = s /\ pc[t] \notin Waiting(s))

\* Main has set the start flag of s in this frame.
HasStarted(s) ==
    CASE s = "lf" -> pc[Main] \notin {<<"main", "queueFilters">>, <<"main", "startLf">>}
      [] s = "cdef" -> pc[Main] \notin
             {<<"main", "queueFilters">>, <<"main", "startLf">>, <<"main", "startCdef">>}
      [] s = "lr" -> pc[Main][1] = "lr" \/ pc[Main] = <<"main", "begin">>

\* The last thread of a frame holds the mutex while it clears the flags.
MutexIsLast ==
    /\ \A t \in Threads : At(t, "lr", "clear") => mutex = t
    /\ mutex # None => mutex \in Threads /\ At(mutex, "lr", "clear")

\* Between frames: all have been counted at the end of the last one.
InOpening ==
    /\ pc[Main] = <<"main", "startMotion">> /\ frame > 0
    /\ \A w \in Workers : pc[w] \in Ends \cup Waiting("motion")
    /\ arrived["motion"] = 0
    /\ ~start["motion"] /\ MutexIsLast /\ (mutex = None => FlagsDown(Stages))

InProjecting ==
    /\ pc[Main] \in {"motion"} \X StepsNow /\ frame > 0
    /\ \A w \in Workers : pc[w] \in ({"motion"} \X StepsNow) \cup Waiting("parse") \cup {<<"lr", "spin">>}
    /\ arrived["motion"] = Cardinality({t \in Threads : Projected(t)})
    /\ (\E t \in Threads : pc[t][1] = "parse") => \A t \in Threads : Projected(t)
    /\ (\A t \in Threads : Projected(t)) => ~start["motion"]
    /\ mutex = None /\ FlagsDown(Stages \ {"motion"})

InTurning ==
    /\ pc[Main] \in {<<"main", "queueParse">>, <<"main", "startParse">>} /\ frame > 0
    /\ \A w \in Workers : pc[w] \in Waiting("parse") \cup {<<"motion", "spin">>}
    /\ mutex = None /\ FlagsDown(Stages)

\* The frame from the start of parsing to the next one.
InWorking ==
    /\ pc[Main] \in MainPlaces \cup LatePlaces /\ frame > 0
    /\ \A w \in Workers : pc[w] \in LatePlaces \cup Waiting("motion") \cup {<<"motion", "spin">>}
    /\ arrived["lr"] = Cardinality({t \in Threads : Rest(t)})
    /\ (pc[Main] = <<"main", "begin">> \/ \E w \in Workers : pc[w] \in Waiting("motion")) => AllRest
    /\ MutexIsLast /\ (mutex # None => AllRest) /\ (AllRest /\ mutex = None => FlagsDown(Stages))
    /\ ~start["motion"] /\ \A s \in Filters : start[s] => HasStarted(s)
    /\ \A w \in Workers : \A s \in Filters : Into(w, s) => HasStarted(s)

\* Until the decoder is closed the threads go through the phases of every frame.
Phases == ~ended => First \/ InOpening \/ InProjecting \/ InTurning \/ InWorking

-----------------------------------------------------------------------------
(* Every step of the program is one of a phase, or leads to the next.      *)

LEMMA CountFacts ==
    /\ IsFiniteSet(Threads) /\ Cardinality(Threads) \in Nat
    /\ Main \in Threads /\ Workers \subseteq Threads /\ Main \notin Workers /\ None \notin Threads
    /\ \A S \in SUBSET Threads : /\ Cardinality(S) \in Nat
                                 /\ Cardinality(S) = Cardinality(Threads) => S = Threads
    /\ \A S \in SUBSET Threads : \A t \in Threads \ S : Cardinality(S \cup {t}) = Cardinality(S) + 1
    /\ Cardinality({}) = 0
<1>1. IsFiniteSet(Threads)
  BY DecoderAssumption, FS_AddElement DEF Threads
<1>2. \A S \in SUBSET Threads : IsFiniteSet(S) /\ (Cardinality(S) = Cardinality(Threads) => S = Threads)
  BY <1>1, FS_Subset
<1>3. \A S \in SUBSET Threads : Cardinality(S) \in Nat
  BY <1>2, FS_CardinalityType
<1>4. \A S \in SUBSET Threads : \A t \in Threads \ S : Cardinality(S \cup {t}) = Cardinality(S) + 1
  BY <1>2, FS_AddElement
<1> QED BY <1>1, <1>2, <1>3, <1>4, FS_CardinalityType, FS_EmptySet, DecoderAssumption DEF Threads

\* The steps that are taken where a thread waits, and where the others are.
LEMMA StepPlace ==
    ASSUME NEW t \in Threads, ThreadStep(t)
    PROVE  \/ CheckStart(t) /\ pc[t][2] = "start"
           \/ Block(t) /\ pc[t][2] = "block"
           \/ \E s \in Barriers : SpinEnds(t, s) /\ At(t, s, "spin")
           \/ ClearFlags(t) /\ At(t, "lr", "clear")
           \/ Exit(t) /\ At(t, "lr", "exit")
           \/ pc[t][2] \in {"claim", "claimRow", "flag", "run", "post", "count"}
<1>1. CASE CheckStart(t) \/ Block(t)
  BY <1>1 DEF CheckStart, Block
<1>2. CASE \E s \in Barriers : SpinEnds(t, s)
  BY <1>2 DEF SpinEnds
<1>3. CASE ClearFlags(t) \/ Exit(t)
  BY <1>3 DEF ClearFlags, Exit
<1>4. CASE \/ ClaimMotionRow(t) \/ ProjectRow(t)
           \/ ClaimTile(t) \/ StartRecon(t) \/ ParseRow(t) \/ TileParsed(t)
           \/ PickTile(t) \/ ClaimTileRow(t)
  BY <1>4, AtPlace DEF ClaimMotionRow, ProjectRow, ClaimTile, StartRecon, ParseRow, TileParsed, PickTile, ClaimTileRow
<1>5. CASE \E s \in Filters : ClaimFilterRow(t, s)
  BY <1>5, AtPlace DEF ClaimFilterRow
<1>6. CASE \E s \in RowStages : DoSuperblock(t, s) \/ FinishRow(t, s)
  BY <1>6, AtPlace DEF DoSuperblock, FinishRow
<1>7. CASE \E s \in Barriers : Arrive(t, s)
  BY <1>7, AtPlace DEF Arrive
<1> QED BY <1>1, <1>2, <1>3, <1>4, <1>5, <1>6, <1>7 DEF ThreadStep

\* The steps of every stage.
LEMMA StepStage ==
    ASSUME NEW t \in Threads, ThreadStep(t)
    PROVE  \/ CheckStart(t) \/ Block(t)
           \/ /\ pc[t][1] = "motion"
              /\ ClaimMotionRow(t) \/ ProjectRow(t) \/ Arrive(t, "motion") \/ SpinEnds(t, "motion")
           \/ /\ pc[t][1] = "parse"
              /\ ClaimTile(t) \/ StartRecon(t) \/ ParseRow(t) \/ TileParsed(t)
           \/ /\ pc[t][1] = "recon"
              /\ PickTile(t) \/ ClaimTileRow(t) \/ DoSuperblock(t, "recon") \/ FinishRow(t, "recon")
           \/ \E s \in Filters :
                 /\ pc[t][1] = s
                 /\ \/ ClaimFilterRow(t, s) \/ DoSuperblock(t, s) \/ FinishRow(t, s)
                    \/ s \in Barriers /\ (Arrive(t, s) \/ SpinEnds(t, s))
                    \/ s = "lr" /\ (ClearFlags(t) \/ Exit(t))
<1>1. CASE ClaimMotionRow(t) \/ ProjectRow(t)
  BY <1>1, AtPlace DEF ClaimMotionRow, ProjectRow
<1>2. CASE ClaimTile(t) \/ StartRecon(t) \/ ParseRow(t) \/ TileParsed(t)
  BY <1>2, AtPlace DEF ClaimTile, StartRecon, ParseRow, TileParsed
<1>3. CASE PickTile(t) \/ ClaimTileRow(t)
  BY <1>3, AtPlace DEF PickTile, ClaimTileRow
<1>4. CASE \E s \in Filters : ClaimFilterRow(t, s)
  BY <1>4, AtPlace DEF ClaimFilterRow
<1>5. ASSUME NEW s \in RowStages, DoSuperblock(t, s) \/ FinishRow(t, s)
      PROVE  pc[t][1] = s
  BY <1>5, AtPlace DEF DoSuperblock, FinishRow
<1>6. ASSUME NEW s \in Barriers, Arrive(t, s) \/ SpinEnds(t, s)
      PROVE  pc[t][1] = s
  BY <1>6, AtPlace DEF Arrive, SpinEnds
<1>7. CASE ClearFlags(t) \/ Exit(t)
  BY <1>7, AtPlace DEF ClearFlags, Exit, Filters
<1>8. RowStages = {"recon"} \cup Filters /\ Barriers = {"motion"} \cup (Filters \cap Barriers)
  BY DEF RowStages, Filters, Barriers
<1>9. CASE \E s \in RowStages : DoSuperblock(t, s) \/ FinishRow(t, s)
  BY <1>5, <1>8, <1>9
<1>10. CASE \E s \in Barriers : Arrive(t, s) \/ SpinEnds(t, s)
  BY <1>6, <1>8, <1>10
<1> QED BY <1>1, <1>2, <1>3, <1>4, <1>7, <1>9, <1>10 DEF ThreadStep

LEMMA EndedStays == Next => (ended => ended')
<1> SUFFICES ASSUME Next PROVE ended => ended'
  OBVIOUS
<1>1. CASE MainStep
  <2>1. CASE Close
    BY <2>1 DEF Close
  <2>2. CASE AllExited \/ (\E s \in Stages : OpenStage(s)) \/ Begin
    BY <2>2 DEF AllExited, OpenStage, Begin, syncVars
  <2>3. CASE StartMotion \/ StartParse \/ StartFilters \/ Queue
    BY <2>3 DEF StartMotion, StartParse, StartFilters, SetStart, Queue, syncVars
  <2> QED BY <1>1, <2>1, <2>2, <2>3 DEF MainStep
<1>2. ASSUME NEW t \in Threads, ThreadStep(t) PROVE ended' = ended
  <2>1. CASE CheckStart(t) \/ Block(t) \/ ClearFlags(t) \/ Exit(t)
    BY <2>1 DEF CheckStart, Block, ClearFlags, Exit, syncVars
  <2>2. CASE \/ ClaimMotionRow(t) \/ ProjectRow(t)
             \/ ClaimTile(t) \/ StartRecon(t) \/ ParseRow(t) \/ TileParsed(t)
             \/ PickTile(t) \/ ClaimTileRow(t)
    BY <2>2 DEF ClaimMotionRow, ProjectRow, ClaimTile, StartRecon, ParseRow, TileParsed, PickTile, ClaimTileRow,
       syncVars
  <2>3. CASE \E s \in Filters : ClaimFilterRow(t, s)
    BY <2>3 DEF ClaimFilterRow, syncVars
  <2>4. CASE \E s \in RowStages : DoSuperblock(t, s) \/ FinishRow(t, s)
    BY <2>4 DEF DoSuperblock, FinishRow, syncVars
  <2>5. CASE \E s \in Barriers : Arrive(t, s) \/ SpinEnds(t, s)
    BY <2>5 DEF Arrive, SpinEnds, syncVars
  <2> QED BY <1>2, <2>1, <2>2, <2>3, <2>4, <2>5 DEF ThreadStep
<1> QED BY <1>1, <1>2 DEF Next

\* Until the decoder is closed Main is where its next step is.
LEMMA MainPlace ==
    ASSUME MainStep, ~ended'
    PROVE  \/ pc[Main][1] = "close"
           \/ Begin /\ At(Main, "main", "begin")
           \/ StartMotion /\ At(Main, "main", "startMotion")
           \/ StartParse /\ At(Main, "main", "startParse")
           \/ StartFilters /\ \/ At(Main, "main", "startLf") \/ At(Main, "main", "startCdef")
                              \/ At(Main, "main", "startLr")
           \/ Queue /\ \/ At(Main, "main", "queueParse") \/ At(Main, "main", "queueFilters")
                       \/ At(Main, "main", "queueLr")
<1>1. ~Close
  BY DEF Close
<1>2. CASE AllExited
  BY <1>2, AtPlace DEF AllExited
<1>3. CASE \E s \in Stages : OpenStage(s)
  BY <1>3, AtPlace DEF OpenStage
<1>4. CASE Begin \/ StartMotion \/ StartParse \/ StartFilters
  BY <1>4 DEF Begin, StartMotion, StartParse, StartFilters, SetStart
<1>5. CASE Queue
  BY <1>5 DEF Queue
<1> QED BY <1>1, <1>2, <1>3, <1>4, <1>5 DEF MainStep

\* Before the first frame.
LEMMA FirstStep ==
    ASSUME BaseInvariant, First, ~ended', Next
    PROVE  First' \/ InOpening'
<1>1. /\ At(Main, "main", "begin") /\ \A w \in Workers : pc[w] \in Waiting("motion")
      /\ FlagsDown(Stages) /\ mutex = None /\ Types /\ frame = 0
  BY DEF BaseInvariant, BeforeFirst, First
<1>2. CASE Begin
  <2>1. /\ pc'[Main] = <<"main", "startMotion">> /\ \A u \in Threads : u # Main => pc'[u] = pc[u]
    BY <1>1, <1>2, MoveFacts, CountFacts DEF Begin, Places, MainSteps
  <2>2. arrived'["motion"] = 0
    BY <1>1, <1>2 DEF Begin, Types, Barriers
  <2>3. \A w \in Workers : pc'[w] = pc[w] /\ pc[w] \in Waiting("motion")
    BY <1>1, <2>1, CountFacts
  <2>4. \A t \in Threads : ~At(t, "lr", "clear")'
    BY <2>1, <2>3 DEF At, Threads, Waiting
  <2>5. frame' = 1 /\ UNCHANGED <<start, mutex>>
    BY <1>1, <1>2 DEF Begin
  <2>6. FlagsDown(Stages)' /\ ~start'["motion"]
    BY <1>1, <2>5, StageFacts DEF FlagsDown
  <2> QED BY <1>1, <2>1, <2>2, <2>3, <2>4, <2>5, <2>6 DEF InOpening, MutexIsLast
<1>3. CASE ~Begin
  <2>1. ~MainStep
    BY <1>1, <1>3, MainPlace DEF At
  <2>2. PICK t \in Threads : ThreadStep(t)
    BY <2>1 DEF Next
  <2>3. t # Main /\ t \in Workers
    BY <1>1, <2>2, StepPlace DEF At, Threads
  <2>4. pc[t][2] \in {"start", "block"} /\ ~(\E s \in Barriers : At(t, s, "spin"))
        /\ ~At(t, "lr", "clear") /\ ~At(t, "lr", "exit")
    BY <1>1, <2>3 DEF Waiting, At
  <2>5. CheckStart(t) \/ Block(t)
    BY <2>2, <2>4, StepPlace
  <2> QED BY <1>1, <2>5 DEF CheckStart, Block, First
<1> QED BY <1>2, <1>3

\* Between two frames.
LEMMA OpeningMove ==
    ASSUME Types, InOpening, NEW w \in Workers, NEW place \in Ends \cup Waiting("motion"), GoTo(w, place),
           UNCHANGED <<frame, arrived>>, place # <<"lr", "clear">>,
           \/ UNCHANGED <<start, mutex>> /\ ~At(w, "lr", "clear")
           \/ mutex' = None /\ At(w, "lr", "clear") /\ FlagsDown(Stages)'
    PROVE  InOpening'
<1>1. place \in Places /\ w \in Threads /\ w # Main /\ Main \in Threads
  BY CountFacts DEF Ends, Waiting, Places, Stages, Steps, RowStages, Filters
<1>2. pc'[w] = place /\ \A u \in Threads : u # w => pc'[u] = pc[u]
  BY <1>1, MoveFacts
<1>3. ~start'["motion"] /\ (mutex' = None => FlagsDown(Stages)')
  <2>1. CASE UNCHANGED <<start, mutex>>
    BY <2>1 DEF InOpening, FlagsDown
  <2>2. CASE FlagsDown(Stages)'
    BY <2>2, StageFacts DEF FlagsDown
  <2> QED BY <2>1, <2>2
<1>4. MutexIsLast'
  <2>1. MutexIsLast /\ ~At(w, "lr", "clear")' /\ None \notin Threads
    BY <1>2, CountFacts DEF InOpening, At
  <2>2. CASE UNCHANGED <<start, mutex>> /\ ~At(w, "lr", "clear")
    <3>1. \A u \in Threads : At(u, "lr", "clear")' <=> At(u, "lr", "clear")
      BY <1>2, <2>1, <2>2 DEF At
    <3> QED BY <2>1, <2>2, <3>1 DEF MutexIsLast
  <2>3. CASE mutex' = None /\ At(w, "lr", "clear")
    <3>1. \A u \in Threads : At(u, "lr", "clear") => u = w
      BY <1>1, <2>1, <2>3 DEF MutexIsLast
    <3>2. \A u \in Threads : ~At(u, "lr", "clear")'
      BY <1>2, <2>1, <3>1 DEF At
    <3> QED BY <2>3, <3>2 DEF MutexIsLast
  <2> QED BY <2>2, <2>3
<1> QED BY <1>1, <1>2, <1>3, <1>4, CountFacts DEF InOpening

LEMMA OpeningStep ==
    ASSUME BaseInvariant, InOpening, ~ended', Next
    PROVE  InOpening' \/ InProjecting'
<1>1. Types /\ ~ended
  BY EndedStays DEF BaseInvariant
<1>2. /\ pc[Main] = <<"main", "startMotion">> /\ frame > 0 /\ arrived["motion"] = 0
      /\ \A w \in Workers : pc[w] \in Ends \cup Waiting("motion")
      /\ ~start["motion"] /\ MutexIsLast /\ (mutex = None => FlagsDown(Stages))
  BY DEF InOpening
<1>3. CASE MainStep
  <2>1. StartMotion
    BY <1>2, <1>3, MainPlace DEF At
  <2>2. /\ mutex = None /\ start' = [start EXCEPT !["motion"] = TRUE] /\ GoTo(Main, <<"motion", "start">>)
        /\ UNCHANGED <<frame, arrived, mutex>>
    BY <2>1 DEF StartMotion, SetStart
  <2>3. pc'[Main] = <<"motion", "start">> /\ \A u \in Threads : u # Main => pc'[u] = pc[u]
    BY <1>1, <2>2, MoveFacts, CountFacts DEF Places, Stages, Steps
  <2>4. \A w \in Workers : pc'[w] \in Waiting("motion") \cup {<<"lr", "spin">>}
    <3>1. \A w \in Workers : ~At(w, "lr", "clear")
      BY <1>2, <2>2, CountFacts DEF MutexIsLast
    <3> QED BY <1>2, <2>3, <3>1, CountFacts DEF At, Ends
  <2>5. \A t \in Threads : ~Projected(t)' /\ pc'[t][1] # "parse"
    BY <2>3, <2>4 DEF Projected, Waiting, Threads
  <2>6. {t \in Threads : Projected(t)'} = {}
    BY <2>5
  <2>7. arrived'["motion"] = Cardinality({t \in Threads : Projected(t)'})
    BY <1>2, <2>2, <2>6, CountFacts
  <2>8. FlagsDown(Stages \ {"motion"})'
    BY <1>1, <1>2, <2>2 DEF FlagsDown, Types
  <2>9. \A w \in Workers : pc'[w] \in ({"motion"} \X StepsNow) \cup Waiting("parse") \cup {<<"lr", "spin">>}
    BY <2>4 DEF Waiting, StepsNow, Steps
  <2>10. pc'[Main] \in {"motion"} \X StepsNow
    BY <2>3 DEF StepsNow, Steps
  <2> QED BY <1>2, <2>2, <2>5, <2>7, <2>8, <2>9, <2>10, CountFacts DEF InProjecting
<1>4. ASSUME NEW t \in Threads, ThreadStep(t)
      PROVE  InOpening'
  <2>1. t \in Workers /\ pc[t] \in Ends \cup Waiting("motion")
    <3>1. t # Main
      BY <1>2, <1>4, StepPlace DEF At
    <3> QED BY <1>2, <3>1 DEF Threads
  <2>2. \/ CheckStart(t) /\ pc[t] = <<"motion", "start">>
        \/ Block(t) /\ pc[t] = <<"motion", "block">>
        \/ SpinEnds(t, "lr") \/ ClearFlags(t)
    BY <1>4, <2>1, StepPlace DEF Ends, Waiting, At
  <2>3. CASE CheckStart(t) /\ pc[t] = <<"motion", "start">>
    <3>1. GoTo(t, <<"motion", "block">>) /\ UNCHANGED <<frame, start, arrived, mutex>> /\ ~At(t, "lr", "clear")
      BY <1>2, <2>3 DEF CheckStart, syncVars, At
    <3> QED BY <1>1, <2>1, <3>1, OpeningMove DEF Waiting
  <2>4. CASE Block(t) /\ pc[t] = <<"motion", "block">>
    <3>1. GoTo(t, <<"motion", "start">>) /\ UNCHANGED <<frame, start, arrived, mutex>> /\ ~At(t, "lr", "clear")
      BY <2>4 DEF Block, At
    <3> QED BY <1>1, <2>1, <3>1, OpeningMove DEF Waiting
  <2>5. CASE SpinEnds(t, "lr")
    <3>1. GoTo(t, <<"motion", "start">>) /\ UNCHANGED <<frame, start, arrived, mutex>> /\ ~At(t, "lr", "clear")
      BY <1>1, <2>1, <2>5, CountFacts DEF SpinEnds, AfterStage, syncVars, At
    <3> QED BY <1>1, <2>1, <3>1, OpeningMove DEF Waiting
  <2>6. CASE ClearFlags(t)
    <3>1. GoTo(t, <<"lr", "spin">>) /\ UNCHANGED <<frame, arrived>> /\ mutex' = None /\ At(t, "lr", "clear")
      BY <2>6 DEF ClearFlags
    <3>2. FlagsDown(Stages)'
      BY <2>6 DEF ClearFlags, FlagsDown
    <3> QED BY <1>1, <2>1, <3>1, <3>2, OpeningMove DEF Ends
  <2> QED BY <2>2, <2>3, <2>4, <2>5, <2>6
<1> QED BY <1>3, <1>4 DEF Next

\* While the motion field is projected.
LEMMA ProjectingMove ==
    ASSUME Types, InProjecting, NEW t \in Threads, NEW place \in Places, GoTo(t, place),
           UNCHANGED <<frame, start, mutex, arrived>>,
           t = Main => place \in {"motion"} \X StepsNow,
           t \in Workers => place \in ({"motion"} \X StepsNow) \cup Waiting("parse") \cup {<<"lr", "spin">>},
           Projected(t) <=> place = <<"motion", "spin">> \/ place[1] = "parse",
           place[1] = "parse" => \A u \in Threads : Projected(u)
    PROVE  InProjecting'
<1>1. pc'[t] = place /\ \A u \in Threads : u # t => pc'[u] = pc[u]
  BY MoveFacts
<1>2. \A u \in Threads : Projected(u)' <=> Projected(u)
  BY <1>1 DEF Projected
<1>3. {u \in Threads : Projected(u)'} = {u \in Threads : Projected(u)}
  BY <1>2
<1>4. arrived'["motion"] = Cardinality({u \in Threads : Projected(u)'})
  BY <1>3 DEF InProjecting
<1>5. (\E u \in Threads : pc'[u][1] = "parse") => \A u \in Threads : Projected(u)'
  BY <1>1, <1>2 DEF InProjecting
<1>6. (\A u \in Threads : Projected(u)') => ~start'["motion"]
  BY <1>2 DEF InProjecting
<1>7. pc'[Main] \in {"motion"} \X StepsNow
  BY <1>1, CountFacts DEF InProjecting
<1>8. \A w \in Workers : pc'[w] \in ({"motion"} \X StepsNow) \cup Waiting("parse") \cup {<<"lr", "spin">>}
  BY <1>1, CountFacts DEF InProjecting
<1>9. mutex' = None /\ FlagsDown(Stages \ {"motion"})' /\ frame' > 0
  BY DEF InProjecting, FlagsDown
<1> QED BY <1>4, <1>5, <1>6, <1>7, <1>8, <1>9 DEF InProjecting

LEMMA ProjectingStep ==
    ASSUME Hinted, BaseInvariant, InProjecting, ~ended', Next
    PROVE  InProjecting' \/ InTurning'
<1>1. Types /\ ~ended
  BY EndedStays DEF BaseInvariant
<1> DEFINE P == {u \in Threads : Projected(u)}
<1>2. /\ pc[Main] \in {"motion"} \X StepsNow /\ frame > 0
      /\ \A w \in Workers : pc[w] \in ({"motion"} \X StepsNow) \cup Waiting("parse") \cup {<<"lr", "spin">>}
      /\ arrived["motion"] = Cardinality(P)
      /\ (\E t \in Threads : pc[t][1] = "parse") => \A t \in Threads : Projected(t)
      /\ (\A t \in Threads : Projected(t)) => ~start["motion"]
      /\ mutex = None /\ FlagsDown(Stages \ {"motion"})
  BY DEF InProjecting
<1>3. ~MainStep
  BY <1>1, <1>2, MainPlace DEF At
<1>4. PICK t \in Threads : ThreadStep(t)
  BY <1>3 DEF Next
<1>5. P \in SUBSET Threads /\ (arrived["motion"] = Cardinality(Threads) => \A u \in Threads : Projected(u))
  BY <1>2, CountFacts
<1>6. Header.hint
  BY <1>1, <1>2, FrameFacts, FirstFrameFacts DEF Types, Hinted, Header
<1> HIDE DEF P
<1>7. pc[t] \in ({"motion"} \X StepsNow) \cup Waiting("parse") \cup {<<"lr", "spin">>}
      /\ (t = Main => pc[t] \in {"motion"} \X StepsNow)
  BY <1>2 DEF Threads
<1>8. \A p \in StepsNow : <<"motion", p>> \in Places
  BY DEF Places, Stages, StepsNow
<1>9. CASE pc[t] \in Waiting("parse")
  <2>1. t \in Workers /\ pc[t][1] = "parse" /\ ~Projected(Main) => FALSE
    BY <1>2, CountFacts
  <2>2. t \in Workers
    BY <1>7, <1>9 DEF Threads, Waiting
  <2>3. \/ GoTo(t, <<"parse", "block">>) /\ CheckStart(t)
        \/ GoTo(t, <<"parse", "start">>) /\ Block(t)
    <3>1. \/ CheckStart(t) /\ pc[t] = <<"parse", "start">>
          \/ Block(t) /\ pc[t] = <<"parse", "block">>
      BY <1>4, <1>9, StepPlace DEF Waiting, At
    <3>2. ~start["parse"]
      BY <1>2, StageFacts DEF FlagsDown
    <3> QED BY <3>1, <3>2 DEF CheckStart, Block
  <2>4. PICK place \in Waiting("parse") : GoTo(t, place)
    BY <2>3 DEF Waiting
  <2>5. UNCHANGED <<frame, start, mutex, arrived>>
    BY <2>3 DEF CheckStart, Block, syncVars
  <2>6. place \in Places /\ place[1] = "parse" /\ t # Main
    BY <2>2, CountFacts DEF Waiting, Places, Stages, Steps
  <2>7. pc[t][1] = "parse" /\ Projected(t)
    BY <1>9 DEF Waiting, Projected
  <2> QED BY <1>1, <1>2, <2>2, <2>4, <2>5, <2>6, <2>7, ProjectingMove
<1>10. CASE pc[t] = <<"lr", "spin">>
  <2>1. t \in Workers /\ t # Main /\ <<"motion", "start">> \in Places
    BY <1>7, <1>10, <1>8 DEF Threads, StepsNow, Steps
  <2>2. SpinEnds(t, "lr")
    BY <1>4, <1>10, StepPlace DEF At
  <2>3. GoTo(t, <<"motion", "start">>) /\ UNCHANGED <<frame, start, mutex, arrived>>
    BY <1>1, <2>1, <2>2 DEF SpinEnds, AfterStage, syncVars
  <2>4. ~Projected(t)
    BY <1>10 DEF Projected
  <2>5. <<"motion", "start">> \in {"motion"} \X StepsNow
    BY DEF StepsNow, Steps
  <2> QED BY <1>1, <2>1, <2>3, <2>4, <2>5, ProjectingMove
<1>11. CASE pc[t] \in {"motion"} \X StepsNow
  <2>1. ASSUME NEW p \in StepsNow \ {"spin"}, GoTo(t, <<"motion", p>>), UNCHANGED <<frame, start, mutex, arrived>>,
               ~At(t, "motion", "spin")
        PROVE  InProjecting'
    <3>1. ~Projected(t)
      BY <1>11, <2>1 DEF Projected, At
    <3> QED BY <1>1, <1>8, <2>1, <3>1, ProjectingMove
  <2>2. CASE CheckStart(t) \/ Block(t)
    <3>1. pc[t][1] = "motion" /\ ~At(t, "motion", "spin")
      BY <1>11, <2>2, AtPlace DEF CheckStart, Block
    <3>2. \E p \in {"claim", "block", "start"} : GoTo(t, <<"motion", p>>)
      BY <2>2, <3>1 DEF CheckStart, Block
    <3>3. {"claim", "block", "start"} \subseteq StepsNow \ {"spin"} /\ UNCHANGED <<frame, start, mutex, arrived>>
      BY <2>2 DEF StepsNow, Steps, CheckStart, Block, syncVars
    <3> QED BY <2>1, <3>1, <3>2, <3>3
  <2>3. CASE ClaimMotionRow(t) \/ ProjectRow(t)
    <3>1. \E p \in {"run", "count", "claim"} : GoTo(t, <<"motion", p>>)
      BY <1>6, <2>3 DEF ClaimMotionRow, ProjectRow
    <3>2. {"run", "count", "claim"} \subseteq StepsNow \ {"spin"} /\ UNCHANGED <<frame, start, mutex, arrived>>
      BY <2>3 DEF StepsNow, Steps, ClaimMotionRow, ProjectRow, syncVars
    <3>3. ~At(t, "motion", "spin")
      BY <2>3 DEF At, ClaimMotionRow, ProjectRow
    <3> QED BY <2>1, <3>1, <3>2, <3>3
  <2>4. CASE Arrive(t, "motion")
    <3>1. ~Projected(t) /\ t \notin P /\ \A u \in Threads : pc[u][1] # "parse"
      BY <1>2, <2>4 DEF Arrive, At, Projected, P
    <3>2. /\ arrived' = [arrived EXCEPT !["motion"] = @ + 1] /\ frame' = frame
          /\ mutex' = None
          /\ start' = IF arrived'["motion"] = Cardinality(Threads) THEN [start EXCEPT !["motion"] = FALSE] ELSE start
          /\ GoTo(t, <<"motion", "spin">>)
      BY <2>4 DEF Arrive, Waits
    <3>3. pc'[t] = <<"motion", "spin">> /\ \A u \in Threads : u # t => pc'[u] = pc[u]
      BY <1>1, <1>8, <3>2, MoveFacts DEF StepsNow, Steps
    <3>4. {u \in Threads : Projected(u)'} = P \cup {t}
      BY <3>3 DEF P, Projected
    <3>5. arrived'["motion"] = Cardinality({u \in Threads : Projected(u)'})
      <4>1. Cardinality(P \cup {t}) = Cardinality(P) + 1
        BY <1>5, <3>1, CountFacts
      <4>2. arrived'["motion"] = arrived["motion"] + 1
        BY <1>1, <3>2 DEF Types, Barriers
      <4> QED BY <1>2, <3>4, <4>1, <4>2
    <3>6. (\A u \in Threads : Projected(u)') => ~start'["motion"]
      <4> SUFFICES ASSUME \A u \in Threads : Projected(u)' PROVE ~start'["motion"]
        OBVIOUS
      <4>1. {u \in Threads : Projected(u)'} = Threads
        OBVIOUS
      <4> QED BY <1>1, <3>2, <3>5, <4>1, StageFacts DEF Types
    <3>7. \A u \in Threads : pc'[u][1] # "parse"
      BY <3>1, <3>3
    <3>8. FlagsDown(Stages \ {"motion"})'
      BY <1>1, <1>2, <3>2 DEF FlagsDown, Types
    <3>9. /\ pc'[Main] \in {"motion"} \X StepsNow
          /\ \A w \in Workers : pc'[w] \in ({"motion"} \X StepsNow) \cup Waiting("parse") \cup {<<"lr", "spin">>}
      BY <1>2, <3>3, CountFacts DEF StepsNow, Steps
    <3> QED BY <1>2, <3>2, <3>5, <3>6, <3>7, <3>8, <3>9 DEF InProjecting
  <2>5. CASE SpinEnds(t, "motion")
    <3>1. /\ \A u \in Threads : Projected(u)
          /\ GoTo(t, AfterStage(t, "motion")) /\ UNCHANGED <<frame, start, mutex, arrived>>
      BY <1>1, <1>5, <2>5 DEF SpinEnds, syncVars
    <3>2. CASE t = Main
      <4>1. GoTo(Main, <<"main", "queueParse">>)
        BY <3>1, <3>2 DEF AfterStage
      <4>2. pc'[Main] = <<"main", "queueParse">> /\ \A u \in Threads : u # Main => pc'[u] = pc[u]
        BY <1>1, <4>1, MoveFacts, CountFacts DEF Places, MainSteps
      <4>3. \A w \in Workers : pc'[w] \in Waiting("parse") \cup {<<"motion", "spin">>}
        BY <1>2, <3>1, <4>2, CountFacts DEF Projected, Waiting
      <4>4. FlagsDown(Stages)'
        BY <1>2, <3>1 DEF FlagsDown
      <4> QED BY <1>2, <3>1, <4>2, <4>3, <4>4 DEF InTurning
    <3>3. CASE t \in Workers
      <4>1. GoTo(t, <<"parse", "start">>) /\ <<"parse", "start">> \in Places /\ t # Main
        BY <3>1, <3>3, CountFacts DEF AfterStage, Places, Stages, Steps
      <4> QED BY <1>1, <3>1, <3>3, <4>1, ProjectingMove DEF Waiting
    <3> QED BY <3>2, <3>3 DEF Threads
  <2>6. pc[t][1] = "motion"
    BY <1>11
  <2> QED BY <1>4, <2>2, <2>3, <2>4, <2>5, <2>6, StepStage DEF Filters
<1> QED BY <1>7, <1>9, <1>10, <1>11

\* While Main queues the tiles.
LEMMA TurningStep ==
    ASSUME BaseInvariant, InTurning, ~ended', Next
    PROVE  InTurning' \/ InWorking'
<1>1. Types /\ ~ended
  BY EndedStays DEF BaseInvariant
<1>2. /\ pc[Main] \in {<<"main", "queueParse">>, <<"main", "startParse">>} /\ frame > 0
      /\ \A w \in Workers : pc[w] \in Waiting("parse") \cup {<<"motion", "spin">>}
      /\ mutex = None /\ FlagsDown(Stages)
  BY DEF InTurning
<1>3. ASSUME NEW t \in Threads, ThreadStep(t)
      PROVE  InTurning'
  <2>1. t \in Workers /\ pc[t] \in Waiting("parse") \cup {<<"motion", "spin">>}
    <3>1. t # Main
      BY <1>2, <1>3, StepPlace DEF At
    <3> QED BY <1>2, <3>1 DEF Threads
  <2>2. \/ CheckStart(t) /\ pc[t] = <<"parse", "start">>
        \/ Block(t) /\ pc[t] = <<"parse", "block">>
        \/ SpinEnds(t, "motion")
    BY <1>3, <2>1, StepPlace DEF Waiting, At
  <2>3. ~start["parse"]
    BY <1>2, StageFacts DEF FlagsDown
  <2>4. \E place \in Waiting("parse") : GoTo(t, place)
    BY <2>1, <2>2, <2>3, CountFacts DEF CheckStart, Block, SpinEnds, AfterStage, Waiting
  <2>5. PICK place \in Waiting("parse") : GoTo(t, place)
    BY <2>4
  <2>6. UNCHANGED <<frame, start, mutex>>
    BY <2>2 DEF CheckStart, Block, SpinEnds, syncVars
  <2>7. pc'[t] = place /\ \A u \in Threads : u # t => pc'[u] = pc[u]
    BY <1>1, <2>5, MoveFacts DEF Waiting, Places, Stages, Steps
  <2>8. FlagsDown(Stages)'
    BY <1>2, <2>6 DEF FlagsDown
  <2>9. pc'[Main] = pc[Main] /\ \A w \in Workers : pc'[w] \in Waiting("parse") \cup {<<"motion", "spin">>}
    BY <1>2, <2>1, <2>7, CountFacts
  <2> QED BY <1>2, <2>6, <2>8, <2>9 DEF InTurning
<1>4. CASE MainStep
  <2>1. \/ Queue /\ pc[Main] = <<"main", "queueParse">>
        \/ StartParse /\ pc[Main] = <<"main", "startParse">>
    BY <1>2, <1>4, MainPlace DEF At
  <2>2. CASE Queue /\ pc[Main] = <<"main", "queueParse">>
    <3>1. GoTo(Main, <<"main", "startParse">>) /\ UNCHANGED <<frame, start, mutex>>
      BY <2>2 DEF Queue, At, syncVars
    <3>2. pc'[Main] = <<"main", "startParse">> /\ \A u \in Threads : u # Main => pc'[u] = pc[u]
      BY <1>1, <3>1, MoveFacts, CountFacts DEF Places, MainSteps
    <3>3. FlagsDown(Stages)' /\ \A w \in Workers : pc'[w] \in Waiting("parse") \cup {<<"motion", "spin">>}
      BY <1>2, <3>1, <3>2, CountFacts DEF FlagsDown
    <3> QED BY <1>2, <3>1, <3>2, <3>3 DEF InTurning
  <2>3. CASE StartParse /\ pc[Main] = <<"main", "startParse">>
    <3>1. /\ GoTo(Main, <<"main", "queueFilters">>) /\ UNCHANGED <<frame, mutex>>
          /\ start' = [start EXCEPT !["parse"] = TRUE] /\ arrived' = [arrived EXCEPT !["cdef"] = 0, !["lr"] = 0]
      BY <2>3 DEF StartParse, SetStart, CountersReset
    <3>2. pc'[Main] = <<"main", "queueFilters">> /\ \A u \in Threads : u # Main => pc'[u] = pc[u]
      BY <1>1, <3>1, MoveFacts, CountFacts DEF Places, MainSteps
    <3>3. \A w \in Workers : pc'[w] \in Waiting("parse") \cup {<<"motion", "spin">>}
      BY <1>2, <3>2, CountFacts
    <3>4. \A t \in Threads : ~Rest(t)' /\ ~At(t, "lr", "clear")'
      BY <3>2, <3>3 DEF Rest, Resting, Ends, Waiting, At, Threads
    <3>5. arrived'["lr"] = 0
      BY <1>1, <3>1 DEF Types, Barriers
    <3>6. {t \in Threads : Rest(t)'} = {}
      BY <3>4
    <3>7. arrived'["lr"] = Cardinality({t \in Threads : Rest(t)'})
      BY <3>5, <3>6, CountFacts
    <3>8. ~start'["motion"] /\ \A s \in Filters : ~start'[s]
      BY <1>1, <1>2, <3>1 DEF Types, FlagsDown, Stages, RowStages, Filters
    <3>9. \A w \in Workers : pc'[w] \in LatePlaces \cup {<<"motion", "spin">>} /\ pc'[w] \notin Waiting("motion")
      BY <3>3 DEF Waiting, LatePlaces, LateStages, StepsNow, Steps
    <3>10. \A w \in Workers : \A s \in Filters : ~Into(w, s)'
      BY <3>3, <3>4, CountFacts DEF Into, Later, LateStages, Waiting, Filters
    <3>11. ~AllRest'
      BY <3>4, CountFacts DEF AllRest
    <3>12. MutexIsLast' /\ mutex' = None
      BY <1>2, <3>1, <3>4 DEF MutexIsLast
    <3> QED BY <1>2, <3>1, <3>2, <3>7, <3>8, <3>9, <3>10, <3>11, <3>12 DEF InWorking, MainPlaces
  <2> QED BY <2>1, <2>2, <2>3
<1> QED BY <1>3, <1>4 DEF Next

\* From the start of parsing to the end of the frame.
LEMMA WorkingMove ==
    ASSUME Types, InWorking, NEW t \in Threads, NEW place \in Places, GoTo(t, place),
           UNCHANGED <<frame, mutex>>, arrived'["lr"] = arrived["lr"], pc[t] \notin Resting, place \notin Resting,
           ~start'["motion"], \A s \in Filters : start'[s] => HasStarted(s)',
           t = Main => /\ place \in MainPlaces \cup LatePlaces
                       /\ \A s \in Filters : HasStarted(s) => HasStarted(s)',
           t \in Workers => /\ place \in LatePlaces
                            /\ \A s \in Filters : Into(t, s)' => HasStarted(s)
    PROVE  InWorking'
<1>1. pc'[t] = place /\ \A u \in Threads : u # t => pc'[u] = pc[u]
  BY MoveFacts
<1>2. \A u \in Threads : Rest(u)' <=> Rest(u)
  BY <1>1 DEF Rest
<1>3. {u \in Threads : Rest(u)'} = {u \in Threads : Rest(u)}
  BY <1>2
<1>4. arrived'["lr"] = Cardinality({u \in Threads : Rest(u)'})
  BY <1>3 DEF InWorking
<1>5. ~AllRest /\ ~AllRest'
  BY <1>2 DEF AllRest, Rest
<1>6. mutex = None /\ mutex' = None /\ MutexIsLast
  BY <1>5 DEF InWorking
<1>7. \A u \in Threads : ~At(u, "lr", "clear")'
  <2>1. \A u \in Threads : ~At(u, "lr", "clear")
    BY <1>6, CountFacts DEF MutexIsLast
  <2>2. place # <<"lr", "clear">>
    BY DEF Resting, Ends
  <2> QED BY <1>1, <2>1, <2>2 DEF At
<1>8. \A s \in Filters : HasStarted(s) => HasStarted(s)'
  <2>1. CASE t = Main
    BY <2>1
  <2>2. CASE t # Main
    <3>1. pc'[Main] = pc[Main]
      BY <1>1, <2>2, CountFacts
    <3> QED BY <3>1 DEF HasStarted
  <2> QED BY <2>1, <2>2
<1>9. ASSUME NEW w \in Workers, NEW s \in Filters, Into(w, s)' PROVE HasStarted(s)'
  <2>1. CASE w = t
    BY <1>8, <1>9, <2>1
  <2>2. CASE w # t
    <3>1. Into(w, s)
      BY <1>1, <1>9, <2>2, CountFacts DEF Into, Rest
    <3> QED BY <1>8, <3>1 DEF InWorking
  <2> QED BY <2>1, <2>2
<1>10. pc'[Main] # <<"main", "begin">> /\ \A w \in Workers : pc'[w] \notin Waiting("motion")
  <2>1. place # <<"main", "begin">> /\ place \notin Waiting("motion")
    BY DEF Resting
  <2>2. pc[Main] # <<"main", "begin">> /\ \A w \in Workers : pc[w] \notin Waiting("motion")
    BY <1>5 DEF InWorking
  <2> QED BY <1>1, <2>1, <2>2, CountFacts
<1>11. pc'[Main] \in MainPlaces \cup LatePlaces
  BY <1>1, CountFacts DEF InWorking
<1>12. \A w \in Workers : pc'[w] \in LatePlaces \cup Waiting("motion") \cup {<<"motion", "spin">>}
  BY <1>1, CountFacts DEF InWorking
<1>13. MutexIsLast' /\ frame' > 0
  BY <1>6, <1>7 DEF MutexIsLast, InWorking
<1> QED BY <1>4, <1>5, <1>6, <1>8, <1>9, <1>10, <1>11, <1>12, <1>13 DEF InWorking

\* A thread takes a step in a stage of the frame, or goes on to the next one.
LEMMA LateMove ==
    ASSUME Types, InWorking, NEW t \in Threads, NEW s \in LateStages, pc[t][1] = s, NEW place, GoTo(t, place),
           UNCHANGED <<frame, mutex>>, arrived'["lr"] = arrived["lr"], pc[t] \notin Resting,
           start' = start \/ start' = [start EXCEPT !["recon"] = TRUE],
           \/ \E p \in StepsNow : /\ place = <<s, p>> /\ place \notin Resting
                                  /\ place \in Waiting(s) \/ pc[t] \notin Waiting(s) \/ start[s]
           \/ pc[t] \notin Waiting(s) /\ place = AfterStage(t, s) /\ s # "lr"
    PROVE  InWorking'
<1>1. /\ place \in Places /\ place \notin Resting
      /\ place \in LatePlaces \/ (t = Main /\ place \in {<<"main", "queueLr">>, <<"main", "startLr">>})
      /\ place[1] = s \/ (pc[t] \notin Waiting(s) /\ place = AfterStage(t, s))
  <2>1. LatePlaces \subseteq Places
    BY DEF LatePlaces, LateStages, StepsNow, Places, Stages, RowStages, Filters
  <2>2. CASE \E p \in StepsNow : place = <<s, p>> /\ place \notin Resting
    BY <2>1, <2>2 DEF LatePlaces
  <2>3. CASE pc[t] \notin Waiting(s) /\ place = AfterStage(t, s) /\ s # "lr"
    <3>1. place \in {<<"recon", "start">>, <<"lf", "start">>, <<"cdef", "start">>, <<"lr", "start">>}
          \/ (t = Main /\ place \in {<<"main", "queueLr">>, <<"main", "startLr">>})
      BY <2>3 DEF AfterStage, LateStages
    <3>2. {<<"recon", "start">>, <<"lf", "start">>, <<"cdef", "start">>, <<"lr", "start">>} \subseteq LatePlaces
      BY DEF LatePlaces, LateStages, StepsNow, Steps
    <3>3. place \in Places /\ place \notin Resting
      BY <2>1, <3>1, <3>2 DEF Resting, Ends, Waiting, Places, MainSteps
    <3> QED BY <2>3, <3>1, <3>2, <3>3
  <2> QED BY <2>2, <2>3
<1>2. ~start'["motion"] /\ \A f \in Filters : start'[f] = start[f]
  <2>1. ~start["motion"] /\ start \in [Stages -> BOOLEAN]
    BY DEF InWorking, Types
  <2>2. \A x \in Stages : x # "recon" => start'[x] = start[x]
    BY <2>1
  <2>3. "motion" \in Stages /\ Filters \subseteq Stages /\ "recon" \notin Filters
    BY DEF Stages, RowStages, Filters
  <2> QED BY <2>1, <2>2, <2>3
<1>3. ASSUME t = Main
      PROVE  place \in MainPlaces \cup LatePlaces /\ \A f \in Filters : HasStarted(f) => HasStarted(f)'
  <2>1. place \in MainPlaces \cup LatePlaces
    BY <1>1 DEF MainPlaces
  <2>2. pc'[Main] = place
    BY <1>1, <1>3, MoveFacts
  <2>3. place \notin {<<"main", "queueFilters">>, <<"main", "startLf">>, <<"main", "startCdef">>}
    BY <1>1 DEF LatePlaces, LateStages
  <2>4. HasStarted("lf")' /\ HasStarted("cdef")'
    BY <2>2, <2>3 DEF HasStarted
  <2>5. HasStarted("lr") => HasStarted("lr")'
    <3>1. pc[Main] # <<"main", "begin">>
      BY <1>3 DEF Resting
    <3>2. s = "lr" => place[1] = "lr"
      BY <1>1
    <3> QED BY <1>3, <2>2, <3>1, <3>2 DEF HasStarted
  <2> QED BY <2>1, <2>4, <2>5 DEF Filters
<1>4. \A f \in Filters : start'[f] => HasStarted(f)'
  <2>1. \A f \in Filters : start[f] => HasStarted(f)
    BY DEF InWorking
  <2>2. CASE t = Main
    BY <1>2, <1>3, <2>1, <2>2
  <2>3. CASE t # Main
    <3>1. pc'[Main] = pc[Main]
      BY <1>1, <2>3, MoveFacts, CountFacts
    <3> QED BY <1>2, <2>1, <3>1 DEF HasStarted
  <2> QED BY <2>2, <2>3
<1>5. ASSUME t \in Workers
      PROVE  place \in LatePlaces /\ \A f \in Filters : Into(t, f)' => HasStarted(f)
  <2>1. place \in LatePlaces
    BY <1>1, <1>5, CountFacts
  <2>2. pc'[t] = place
    BY <1>1, MoveFacts
  <2>3. ASSUME NEW f \in Filters, Into(t, f)' PROVE HasStarted(f)
    <3>1. place[1] \in Later(f) \/ (place[1] = f /\ place \notin Waiting(f))
      BY <1>1, <2>2, <2>3 DEF Into, Rest
    <3>2. \A x \in Filters : Into(t, x) => HasStarted(x)
      BY <1>5 DEF InWorking
    <3>3. CASE place[1] = s
      <4>1. CASE s \in Later(f)
        BY <3>2, <4>1 DEF Into
      <4>2. CASE s = f /\ place \notin Waiting(s)
        <5>1. CASE pc[t] \notin Waiting(s)
          BY <3>2, <4>2, <5>1 DEF Into
        <5>2. CASE pc[t] \in Waiting(s)
          <6>1. start[s]
            BY <4>2, <5>2
          <6> QED BY <4>2, <6>1 DEF InWorking
        <5> QED BY <5>1, <5>2
      <4> QED BY <3>1, <3>3, <4>1, <4>2
    <3>4. CASE pc[t] \notin Waiting(s) /\ place = AfterStage(t, s) /\ place[1] # s
      <4>1. t # Main
        BY <1>5, CountFacts
      <4>2. s # "lr"
        BY <3>4
      <4>3. Into(t, f)
        <5>1. s \in {"parse", "recon", "lf", "cdef"} /\ f \in {"lf", "cdef", "lr"}
          BY <4>2 DEF LateStages, Filters
        <5>2. /\ s = "parse" => place = <<"recon", "start">>
              /\ s = "recon" => place = <<"lf", "start">>
              /\ s = "lf" => place = <<"cdef", "start">>
              /\ s = "cdef" => place = <<"lr", "start">>
          BY <3>4, <4>1, <5>1 DEF AfterStage
        <5>3. s = f \/ s \in Later(f)
          BY <3>1, <5>1, <5>2 DEF Later, Waiting
        <5> QED BY <3>4, <5>3 DEF Into
      <4> QED BY <3>2, <4>3
    <3> QED BY <1>1, <3>3, <3>4
  <2> QED BY <2>1, <2>3
<1> QED BY <1>1, <1>2, <1>3, <1>4, <1>5, WorkingMove

\* A thread that has been counted at the end of the frame.
LEMMA RestMove ==
    ASSUME Types, InWorking, NEW t \in Threads, pc[t] \in Resting, NEW place, GoTo(t, place),
           UNCHANGED <<frame, arrived>>,
           \/ UNCHANGED <<start, mutex>> /\ ~At(t, "lr", "clear")
           \/ mutex' = None /\ At(t, "lr", "clear") /\ FlagsDown(Stages)',
           place = <<"lr", "spin">> \/ (place \in Waiting("motion") /\ t # Main) \/ (t = Main /\ place = <<"main", "begin">>),
           place # <<"lr", "spin">> => AllRest
    PROVE  InWorking'
<1>1. place \in Places /\ place \in Resting /\ place # <<"lr", "clear">>
  BY DEF Places, Stages, Steps, RowStages, Filters, Waiting, Resting, Ends, MainSteps
<1>2. pc'[t] = place /\ \A u \in Threads : u # t => pc'[u] = pc[u]
  BY <1>1, MoveFacts
<1>3. \A u \in Threads : Rest(u)' <=> Rest(u)
  BY <1>1, <1>2 DEF Rest
<1>4. {u \in Threads : Rest(u)'} = {u \in Threads : Rest(u)} /\ (AllRest' <=> AllRest)
  BY <1>3 DEF AllRest
<1>5. arrived'["lr"] = Cardinality({u \in Threads : Rest(u)'})
  BY <1>4 DEF InWorking
<1>6. /\ ~start'["motion"] /\ \A s \in Filters : start'[s] => start[s]
      /\ AllRest' /\ mutex' = None => FlagsDown(Stages)'
  <2>1. CASE UNCHANGED <<start, mutex>>
    BY <1>4, <2>1 DEF InWorking, FlagsDown
  <2>2. CASE FlagsDown(Stages)'
    BY <2>2, StageFacts DEF FlagsDown
  <2> QED BY <2>1, <2>2
<1>7. MutexIsLast' /\ (mutex' # None => AllRest')
  <2>1. MutexIsLast /\ ~At(t, "lr", "clear")' /\ (mutex # None => AllRest)
    BY <1>1, <1>2 DEF InWorking, At
  <2>2. CASE UNCHANGED <<start, mutex>> /\ ~At(t, "lr", "clear")
    <3>1. \A u \in Threads : At(u, "lr", "clear")' <=> At(u, "lr", "clear")
      BY <1>2, <2>1, <2>2 DEF At
    <3> QED BY <1>4, <2>1, <2>2, <3>1 DEF MutexIsLast
  <2>3. CASE mutex' = None /\ At(t, "lr", "clear")
    <3>1. \A u \in Threads : At(u, "lr", "clear") => u = t
      BY <2>1, <2>3 DEF MutexIsLast
    <3>2. \A u \in Threads : ~At(u, "lr", "clear")'
      BY <1>2, <2>1, <3>1 DEF At
    <3> QED BY <2>3, <3>2 DEF MutexIsLast
  <2> QED BY <2>2, <2>3
<1>8. \A s \in Filters : HasStarted(s) => HasStarted(s)'
  <2>1. CASE t = Main
    <3>1. pc'[Main] = <<"lr", "spin">> \/ pc'[Main] = <<"main", "begin">>
      BY <1>2, <2>1
    <3>2. HasStarted("lf")' /\ HasStarted("cdef")' /\ HasStarted("lr")'
      BY <3>1 DEF HasStarted
    <3> QED BY <3>2 DEF Filters
  <2>2. CASE t # Main
    <3>1. pc'[Main] = pc[Main]
      BY <1>2, <2>2, CountFacts
    <3> QED BY <3>1 DEF HasStarted
  <2> QED BY <2>1, <2>2
<1>9. ASSUME NEW w \in Workers, NEW s \in Filters, Into(w, s)' PROVE HasStarted(s)'
  <2>1. Into(w, s)
    BY <1>2, <1>3, <1>9, CountFacts DEF Into, Rest
  <2> QED BY <1>8, <2>1 DEF InWorking
<1>10. pc'[Main] = <<"main", "begin">> \/ (\E w \in Workers : pc'[w] \in Waiting("motion")) => AllRest'
  <2>1. CASE AllRest
    BY <1>4, <2>1
  <2>2. CASE ~AllRest
    <3>1. place = <<"lr", "spin">> /\ pc[Main] # <<"main", "begin">> /\ \A w \in Workers : pc[w] \notin Waiting("motion")
      BY <2>2 DEF InWorking
    <3>2. place \notin Waiting("motion")
      BY <3>1 DEF Waiting
    <3> QED BY <1>2, <3>1, <3>2, CountFacts
  <2> QED BY <2>1, <2>2
<1>11. <<"lr", "spin">> \in LatePlaces /\ <<"main", "begin">> \in MainPlaces
  BY DEF LatePlaces, LateStages, StepsNow, Steps, MainPlaces
<1>12. pc'[Main] \in MainPlaces \cup LatePlaces
  BY <1>2, <1>11, CountFacts DEF InWorking
<1>13. \A w \in Workers : pc'[w] \in LatePlaces \cup Waiting("motion") \cup {<<"motion", "spin">>}
  BY <1>2, <1>11, CountFacts DEF InWorking
<1>14. frame' > 0 /\ \A s \in Filters : start'[s] => HasStarted(s)'
  BY <1>6, <1>8 DEF InWorking
<1> QED BY <1>5, <1>6, <1>7, <1>9, <1>10, <1>12, <1>13, <1>14 DEF InWorking

LEMMA ArriveKeepsWorking ==
    ASSUME Types, InWorking, NEW t \in Threads, Arrive(t, "lr")
    PROVE  InWorking'
<1> DEFINE R == {u \in Threads : Rest(u)}
<1>1. /\ pc[t] = <<"lr", "count">> /\ mutex = None /\ arrived' = [arrived EXCEPT !["lr"] = @ + 1]
      /\ start' = start /\ frame' = frame
      /\ mutex' = IF arrived'["lr"] = Cardinality(Threads) THEN t ELSE None
      /\ GoTo(t, IF arrived'["lr"] = Cardinality(Threads) THEN <<"lr", "clear">> ELSE <<"lr", "spin">>)
  BY DEF Arrive, At, Waits
<1>2. PICK place \in Ends : /\ GoTo(t, place)
                            /\ place = IF arrived'["lr"] = Cardinality(Threads) THEN <<"lr", "clear">> ELSE <<"lr", "spin">>
  BY <1>1 DEF Ends
<1>3. place \in Places /\ Ends \subseteq LatePlaces /\ Ends \subseteq Resting
  BY DEF Ends, Places, Stages, RowStages, Filters, Steps, LatePlaces, LateStages, StepsNow, Resting
<1>4. pc'[t] = place /\ \A u \in Threads : u # t => pc'[u] = pc[u]
  BY <1>2, <1>3, MoveFacts
<1>5. ~Rest(t) /\ Rest(t)'
  BY <1>1, <1>3, <1>4 DEF Rest, Resting, Ends, Waiting
<1>6. \A u \in Threads : u # t => (Rest(u)' <=> Rest(u))
  BY <1>4 DEF Rest
<1>7. {u \in Threads : Rest(u)'} = R \cup {t} /\ t \notin R /\ R \in SUBSET Threads
  BY <1>5, <1>6
<1>8. arrived["lr"] = Cardinality(R)
  BY DEF InWorking
<1> HIDE DEF R
<1>9. arrived'["lr"] = Cardinality({u \in Threads : Rest(u)'})
  <2>1. Cardinality(R \cup {t}) = Cardinality(R) + 1
    BY <1>7, CountFacts
  <2>2. arrived'["lr"] = arrived["lr"] + 1
    BY <1>1 DEF Types, Barriers
  <2> QED BY <1>7, <1>8, <2>1, <2>2
<1>10. AllRest' <=> arrived'["lr"] = Cardinality(Threads)
  <2>1. {u \in Threads : Rest(u)'} \in SUBSET Threads
    OBVIOUS
  <2>2. arrived'["lr"] = Cardinality(Threads) => {u \in Threads : Rest(u)'} = Threads
    BY <1>9, <2>1, CountFacts
  <2>3. AllRest' => {u \in Threads : Rest(u)'} = Threads
    BY DEF AllRest
  <2>4. {u \in Threads : Rest(u)'} = Threads => AllRest'
    BY DEF AllRest
  <2> QED BY <1>9, <2>2, <2>3, <2>4
<1>11. ~AllRest /\ \A u \in Threads : ~At(u, "lr", "clear")
  BY <1>1, <1>5, CountFacts DEF AllRest, InWorking, MutexIsLast
<1>12. MutexIsLast' /\ (mutex' # None => AllRest') /\ (AllRest' => mutex' # None)
  <2>1. \A u \in Threads : At(u, "lr", "clear")' => u = t /\ arrived'["lr"] = Cardinality(Threads)
    BY <1>2, <1>4, <1>11 DEF At
  <2>2. AllRest' => At(t, "lr", "clear")' /\ mutex' = t
    BY <1>1, <1>2, <1>4, <1>10 DEF At
  <2>3. ~AllRest' => mutex' = None
    BY <1>1, <1>10
  <2> QED BY <1>1, <1>10, <2>1, <2>2, <2>3, CountFacts DEF MutexIsLast
<1>13. \A s \in Filters : HasStarted(s) => HasStarted(s)'
  <2>1. CASE t = Main
    <3>1. pc'[Main] = <<"lr", "clear">> \/ pc'[Main] = <<"lr", "spin">>
      BY <1>4, <2>1 DEF Ends
    <3>2. HasStarted("lf")' /\ HasStarted("cdef")' /\ HasStarted("lr")'
      BY <3>1 DEF HasStarted
    <3> QED BY <3>2 DEF Filters
  <2>2. CASE t # Main
    <3>1. pc'[Main] = pc[Main]
      BY <1>4, <2>2, CountFacts
    <3> QED BY <3>1 DEF HasStarted
  <2> QED BY <2>1, <2>2
<1>14. ASSUME NEW w \in Workers, NEW s \in Filters, Into(w, s)' PROVE HasStarted(s)'
  <2>1. Into(w, s)
    <3>1. CASE w = t
      <4>1. pc[w] = <<"lr", "count">> /\ "lr" \in Later("lf") /\ "lr" \in Later("cdef")
        BY <1>1, <3>1 DEF Later
      <4> QED BY <4>1 DEF Into, Filters, Waiting
    <3>2. CASE w # t
      BY <1>4, <1>14, <3>2, CountFacts DEF Into, Rest
    <3> QED BY <3>1, <3>2
  <2> QED BY <1>13, <2>1 DEF InWorking
<1>15. pc'[Main] # <<"main", "begin">> /\ \A w \in Workers : pc'[w] \notin Waiting("motion")
  <2>1. pc[Main] # <<"main", "begin">> /\ \A w \in Workers : pc[w] \notin Waiting("motion")
    BY <1>11 DEF InWorking
  <2> QED BY <1>4, <2>1, CountFacts DEF Ends, Waiting
<1>16. pc'[Main] \in MainPlaces \cup LatePlaces
  BY <1>3, <1>4, CountFacts DEF InWorking
<1>17. \A w \in Workers : pc'[w] \in LatePlaces \cup Waiting("motion") \cup {<<"motion", "spin">>}
  BY <1>3, <1>4, CountFacts DEF InWorking
<1>18. frame' > 0 /\ ~start'["motion"] /\ \A s \in Filters : start'[s] => HasStarted(s)'
  BY <1>1, <1>13 DEF InWorking
<1> QED BY <1>9, <1>12, <1>14, <1>15, <1>16, <1>17, <1>18 DEF InWorking

LEMMA MainKeepsWorking ==
    ASSUME BaseInvariant, InWorking, ~ended', MainStep
    PROVE  InWorking' \/ InOpening'
<1>1. Types
  BY DEF BaseInvariant
<1>2. pc[Main] \in MainPlaces \cup LatePlaces /\ frame > 0
  BY DEF InWorking
<1>3. ASSUME Begin, At(Main, "main", "begin")
      PROVE  InOpening'
  <2>1. /\ AllRest /\ ~start["motion"] /\ MutexIsLast /\ (mutex = None => FlagsDown(Stages))
    BY <1>3 DEF InWorking, At
  <2>2. /\ pc'[Main] = <<"main", "startMotion">> /\ \A u \in Threads : u # Main => pc'[u] = pc[u]
    BY <1>1, <1>3, MoveFacts, CountFacts DEF Begin, Places, MainSteps
  <2>3. arrived'["motion"] = 0
    BY <1>1, <1>3 DEF Begin, Types, Barriers
  <2>4. \A w \in Workers : pc'[w] \in Ends \cup Waiting("motion")
    <3>1. \A w \in Workers : pc[w] \in Resting /\ pc[w] # <<"main", "begin">>
      BY <2>1, CountFacts DEF AllRest, Rest, InWorking, LatePlaces, LateStages, Waiting
    <3> QED BY <2>2, <3>1, CountFacts DEF Resting
  <2>5. frame' > 0 /\ UNCHANGED <<start, mutex>>
    BY <1>1, <1>2, <1>3, FirstFrameFacts DEF Begin, Types
  <2>6. ~start'["motion"] /\ (mutex' = None => FlagsDown(Stages)')
    BY <2>1, <2>5 DEF FlagsDown
  <2>7. MutexIsLast'
    <3>1. \A u \in Threads : At(u, "lr", "clear")' <=> At(u, "lr", "clear")
      BY <1>3, <2>2 DEF At
    <3> QED BY <2>1, <2>5, <3>1 DEF MutexIsLast
  <2> QED BY <2>2, <2>3, <2>4, <2>5, <2>6, <2>7 DEF InOpening
<1>4. ASSUME NEW place \in {<<"main", "startLf">>, <<"main", "startLr">>, <<"parse", "start">>,
                            <<"main", "startCdef">>, <<"main", "queueLr">>, <<"lr", "start">>},
             GoTo(Main, place), pc[Main] \in {"main"} \X MainSteps, pc[Main] # <<"main", "begin">>,
             UNCHANGED <<frame, mutex, arrived>>,
             HasStarted("lf") => HasStarted("lf")', HasStarted("cdef") => HasStarted("cdef")',
             HasStarted("lr") => HasStarted("lr")',
             \/ start' = start
             \/ \E s \in Filters : start' = [start EXCEPT ![s] = TRUE] /\ HasStarted(s)'
      PROVE  InWorking'
  <2>1. place \in Places /\ place \in MainPlaces \cup LatePlaces /\ place \notin Resting
    BY DEF Places, Stages, RowStages, Filters, Steps, MainSteps, MainPlaces, LatePlaces, LateStages, StepsNow,
           Resting, Ends, Waiting
  <2>2. pc[Main] \notin Resting
    BY <1>4 DEF Resting, Ends, Waiting
  <2>3. \A s \in Filters : HasStarted(s) => HasStarted(s)'
    BY <1>4 DEF Filters
  <2>4. ~start'["motion"] /\ \A s \in Filters : start'[s] => HasStarted(s)'
    <3>1. ~start["motion"] /\ (\A s \in Filters : start[s] => HasStarted(s)) /\ start \in [Stages -> BOOLEAN]
      BY <1>1 DEF InWorking, Types
    <3>2. "motion" \in Stages /\ "motion" \notin Filters /\ Filters \subseteq Stages
      BY DEF Stages, RowStages, Filters
    <3>3. CASE start' = start
      BY <2>3, <3>1, <3>3
    <3>4. ASSUME NEW s \in Filters, start' = [start EXCEPT ![s] = TRUE], HasStarted(s)'
          PROVE  <2>4
      <4>1. start'["motion"] = start["motion"] /\ \A x \in Filters : x # s => start'[x] = start[x]
        BY <3>1, <3>2, <3>4
      <4> QED BY <2>3, <3>1, <3>4, <4>1
    <3> QED BY <1>4, <3>3, <3>4
  <2> QED BY <1>1, <1>4, <2>1, <2>2, <2>3, <2>4, WorkingMove, CountFacts
<1>5. ASSUME NEW p \in MainSteps, At(Main, "main", p), p # "begin"
      PROVE  pc[Main] \in {"main"} \X MainSteps /\ pc[Main] # <<"main", "begin">> /\ pc[Main][1] # "lr"
  BY <1>5 DEF At
<1>6. ASSUME NEW place \in Places, GoTo(Main, place) PROVE pc'[Main] = place
  BY <1>1, <1>6, MoveFacts, CountFacts
<1>7. ASSUME StartFilters, At(Main, "main", "startLf")
      PROVE  InWorking'
  <2>1. /\ start' = [start EXCEPT !["lf"] = TRUE] /\ GoTo(Main, <<"main", "startCdef">>)
        /\ UNCHANGED <<frame, mutex, arrived>>
    BY <1>7 DEF StartFilters, SetStart, At
  <2>2. pc'[Main] = <<"main", "startCdef">> /\ pc[Main] = <<"main", "startLf">>
    BY <1>6, <1>7, <2>1 DEF Places, MainSteps, At
  <2>3. HasStarted("lf")' /\ ~HasStarted("cdef") /\ ~HasStarted("lr")
    BY <2>2 DEF HasStarted
  <2> QED BY <1>4, <1>5, <1>7, <2>1, <2>3 DEF MainSteps, Filters
<1>8. ASSUME StartFilters, At(Main, "main", "startCdef")
      PROVE  InWorking'
  <2>1. PICK place \in {<<"parse", "start">>, <<"main", "queueLr">>} :
           /\ start' = [start EXCEPT !["cdef"] = TRUE] /\ GoTo(Main, place)
           /\ UNCHANGED <<frame, mutex, arrived>>
    BY <1>8 DEF StartFilters, SetStart, AfterStart, At
  <2>2. pc'[Main] = place /\ pc[Main] = <<"main", "startCdef">>
    BY <1>6, <1>8, <2>1 DEF Places, Stages, Steps, MainSteps, At
  <2>3. HasStarted("lf")' /\ HasStarted("cdef")' /\ ~HasStarted("lr")
    BY <2>2 DEF HasStarted
  <2> QED BY <1>4, <1>5, <1>8, <2>1, <2>3 DEF MainSteps, Filters
<1>9. ASSUME StartFilters, At(Main, "main", "startLr")
      PROVE  InWorking'
  <2>1. /\ start' = [start EXCEPT !["lr"] = TRUE] /\ GoTo(Main, <<"lr", "start">>)
        /\ UNCHANGED <<frame, mutex, arrived>>
    BY <1>9 DEF StartFilters, SetStart, AfterStart, At
  <2>2. pc'[Main] = <<"lr", "start">>
    BY <1>6, <2>1 DEF Places, Stages, Steps, RowStages, Filters
  <2>3. HasStarted("lf")' /\ HasStarted("cdef")' /\ HasStarted("lr")'
    BY <2>2 DEF HasStarted
  <2> QED BY <1>4, <1>5, <1>9, <2>1, <2>3 DEF MainSteps, Filters
<1>10. ASSUME Queue, At(Main, "main", "queueFilters")
       PROVE  InWorking'
  <2>1. GoTo(Main, <<"main", "startLf">>) /\ UNCHANGED <<frame, mutex, arrived, start>>
    BY <1>10 DEF Queue, At, syncVars
  <2>2. ~HasStarted("lf") /\ ~HasStarted("cdef") /\ ~HasStarted("lr")
    BY <1>10 DEF HasStarted, At
  <2> QED BY <1>4, <1>5, <1>10, <2>1, <2>2 DEF MainSteps
<1>11. ASSUME Queue, At(Main, "main", "queueLr")
       PROVE  InWorking'
  <2>1. PICK place \in {<<"main", "startLr">>, <<"parse", "start">>} :
           GoTo(Main, place) /\ UNCHANGED <<frame, mutex, arrived, start>>
    BY <1>11 DEF Queue, At, syncVars
  <2>2. pc'[Main] = place
    BY <1>6, <2>1 DEF Places, Stages, Steps, MainSteps
  <2>3. HasStarted("lf")' /\ HasStarted("cdef")' /\ ~HasStarted("lr")
    BY <1>11, <2>2 DEF HasStarted, At
  <2> QED BY <1>4, <1>5, <1>11, <2>1, <2>3 DEF MainSteps
<1> QED
  <2>1. /\ pc[Main][1] # "close" /\ ~At(Main, "main", "startMotion") /\ ~At(Main, "main", "startParse")
        /\ ~At(Main, "main", "queueParse")
    BY <1>2 DEF MainPlaces, LatePlaces, LateStages, At
  <2> QED BY <1>3, <1>7, <1>8, <1>9, <1>10, <1>11, <2>1, MainPlace

LEMMA WaitKeepsWorking ==
    ASSUME Types, InWorking, NEW t \in Threads, CheckStart(t) \/ Block(t)
    PROVE  InWorking'
<1> DEFINE s == pc[t][1]
<1>1. /\ pc[t] \in LatePlaces \/ (t # Main /\ pc[t] \in Waiting("motion"))
      /\ pc[t][2] \in {"start", "block"}
  <2>1. pc[t][2] \in {"start", "block"}
    BY DEF CheckStart, Block
  <2>2. CASE t = Main
    BY <2>1, <2>2 DEF InWorking, MainPlaces
  <2>3. CASE t \in Workers
    BY <2>1, <2>3, CountFacts DEF InWorking
  <2> QED BY <2>1, <2>2, <2>3 DEF Threads
<1>2. pc[t] \in Waiting(s)
  BY <1>1 DEF LatePlaces, Waiting
<1>3. UNCHANGED <<frame, start, mutex, arrived>>
  BY DEF CheckStart, Block, syncVars
<1>4. \E p \in {"claim", "block", "start"} : /\ GoTo(t, <<s, p>>)
                                             /\ p = "claim" => start[s]
  BY <1>1 DEF CheckStart, Block
<1>5. PICK p \in {"claim", "block", "start"} : GoTo(t, <<s, p>>) /\ (p = "claim" => start[s])
  BY <1>4
<1>6. CASE pc[t] \in LatePlaces
  <2>1. s \in LateStages /\ s # "motion" /\ s # "main"
    BY <1>6 DEF LatePlaces, LateStages
  <2>2. pc[t] \notin Resting /\ <<s, p>> \notin Resting
    BY <1>2, <2>1 DEF Resting, Ends, Waiting
  <2>3. p \in StepsNow
    BY DEF StepsNow, Steps
  <2>4. <<s, p>> \in Waiting(s) \/ start[s]
    BY <1>5 DEF Waiting
  <2> HIDE DEF s
  <2> QED BY <1>3, <1>5, <2>1, <2>2, <2>3, <2>4, LateMove DEF s
<1>7. CASE t # Main /\ pc[t] \in Waiting("motion")
  <2>1. s = "motion" /\ ~At(t, "lr", "clear") /\ t \in Workers /\ pc[t] \in Resting
    BY <1>7 DEF Waiting, At, Threads, Resting
  <2>2. ~start["motion"] /\ AllRest
    BY <1>7, <2>1 DEF InWorking
  <2>3. <<s, p>> \in Waiting("motion")
    BY <1>5, <2>1, <2>2 DEF Waiting
  <2> QED BY <1>3, <1>5, <1>7, <2>1, <2>2, <2>3, RestMove
<1> QED BY <1>1, <1>6, <1>7

\* The rest of what a thread does in the stages of the frame.
LEMMA ThreadKeepsWorking ==
    ASSUME Types, InWorking, ~ended, NEW t \in Threads, ThreadStep(t), ~(CheckStart(t) \/ Block(t))
    PROVE  InWorking'
<1> DEFINE s == pc[t][1]
<1>1. pc[t] \in LatePlaces \/ (t # Main /\ pc[t] = <<"motion", "spin">>)
  <2>1. pc[t][1] \in {"motion", "parse", "recon", "lf", "cdef", "lr"} /\ pc[t][2] \notin {"start", "block"}
    BY StepStage, StepPlace DEF Filters, CheckStart, Block, At
  <2>2. CASE t = Main
    BY <2>1, <2>2 DEF InWorking, MainPlaces
  <2>3. CASE t \in Workers
    BY <2>1, <2>3, CountFacts DEF InWorking, Waiting
  <2> QED BY <2>2, <2>3 DEF Threads
<1>2. /\ s \in LateStages => pc[t] \notin Waiting(s)
      /\ pc[t][2] \in StepsNow
  <2>1. pc[t][2] \notin {"start", "block"}
    BY StepPlace DEF At, CheckStart, Block
  <2> QED BY <1>1, <2>1 DEF LatePlaces, LateStages, StepsNow, Steps, Waiting
<1>3. CASE t # Main /\ pc[t] = <<"motion", "spin">>
  <2>1. SpinEnds(t, "motion")
    BY <1>3, StepPlace DEF At
  <2>2. GoTo(t, <<"parse", "start">>) /\ UNCHANGED <<frame, start, mutex, arrived>> /\ t \in Workers
    BY <1>3, <2>1 DEF SpinEnds, AfterStage, syncVars, Threads
  <2>3. /\ <<"parse", "start">> \in Places /\ <<"parse", "start">> \in LatePlaces
        /\ <<"parse", "start">> \notin Resting /\ pc[t] \notin Resting
    BY <1>3 DEF Places, Stages, Steps, LatePlaces, LateStages, StepsNow, Resting, Ends, Waiting
  <2>4. pc'[t] = <<"parse", "start">> /\ \A u \in Threads : u # t => pc'[u] = pc[u]
    BY <2>2, <2>3, MoveFacts
  <2>5. \A f \in Filters : ~Into(t, f)'
    BY <2>4 DEF Into, Rest, Resting, Ends, Waiting, Later, LateStages, Filters
  <2>6. pc'[Main] = pc[Main]
    BY <1>3, <2>4, CountFacts
  <2>7. ~start'["motion"] /\ \A f \in Filters : start'[f] => HasStarted(f)'
    BY <2>2, <2>6 DEF InWorking, HasStarted
  <2> QED BY <1>3, <2>2, <2>3, <2>5, <2>7, WorkingMove
<1>4. ASSUME s \in LateStages, NEW place, GoTo(t, place), UNCHANGED <<frame, mutex>>,
             arrived'["lr"] = arrived["lr"], pc[t][2] \notin {"clear", "spin"} \/ s # "lr",
             start' = start \/ start' = [start EXCEPT !["recon"] = TRUE],
             \/ \E p \in StepsNow \ {"clear"} : place = <<s, p>> /\ (s = "lr" => p # "spin")
             \/ place = AfterStage(t, s) /\ s # "lr"
      PROVE  InWorking'
  <2>1. pc[t] \notin Resting
    BY <1>4 DEF Resting, Ends, Waiting, LateStages
  <2>2. \A p \in StepsNow \ {"clear"} : (s = "lr" => p # "spin") => <<s, p>> \notin Resting
    BY <1>4 DEF Resting, Ends, Waiting, LateStages
  <2> QED BY <1>2, <1>4, <2>1, <2>2, LateMove
<1>5. CASE pc[t] \in LatePlaces
  <2>1. s \in LateStages /\ s # "motion"
    BY <1>5 DEF LatePlaces, LateStages
  <2>2. {"claim", "claimRow", "flag", "run", "post", "count", "spin", "start"} \subseteq StepsNow
    BY DEF StepsNow, Steps
  <2>3. CASE s = "parse" /\ (ClaimTile(t) \/ StartRecon(t) \/ ParseRow(t) \/ TileParsed(t))
    <3>1. CASE ClaimTile(t)
      BY <1>4, <2>1, <2>2, <2>3, <3>1 DEF ClaimTile, syncVars
    <3>2. CASE StartRecon(t)
      BY <1>4, <2>1, <2>2, <2>3, <3>2 DEF StartRecon
    <3>3. CASE ParseRow(t)
      BY <1>4, <2>1, <2>2, <2>3, <3>3 DEF ParseRow, syncVars
    <3>4. CASE TileParsed(t)
      BY <1>4, <2>1, <2>2, <2>3, <3>4 DEF TileParsed
    <3> QED BY <2>3, <3>1, <3>2, <3>3, <3>4
  <2>4. ASSUME DoSuperblock(t, s) PROVE InWorking'
    <3>1. UNCHANGED <<frame, pc, start, arrived, mutex>>
      BY <2>4 DEF DoSuperblock, syncVars
    <3> QED BY <3>1 DEF InWorking, Rest, AllRest, MutexIsLast, Into, HasStarted, At, FlagsDown
  <2>5. CASE s = "recon" /\ (PickTile(t) \/ ClaimTileRow(t) \/ FinishRow(t, "recon"))
    <3>1. CASE PickTile(t)
      BY <1>4, <2>1, <2>2, <2>5, <3>1 DEF PickTile, syncVars
    <3>2. CASE ClaimTileRow(t)
      BY <1>4, <2>1, <2>2, <2>5, <3>2 DEF ClaimTileRow, syncVars
    <3>3. CASE FinishRow(t, "recon")
      BY <1>4, <2>1, <2>2, <2>5, <3>3 DEF FinishRow, syncVars
    <3> QED BY <2>5, <3>1, <3>2, <3>3
  <2>6. CASE s \in Filters /\ (ClaimFilterRow(t, s) \/ FinishRow(t, s))
    <3>1. CASE ClaimFilterRow(t, s)
      <4>1. PICK place \in {<<s, "run">>, <<s, "count">>, AfterStage(t, s)} :
               GoTo(t, place) /\ (place = AfterStage(t, s) => s \notin Barriers \/ place \in {<<s, "run">>, <<s, "count">>})
        BY <3>1 DEF ClaimFilterRow
      <4>2. UNCHANGED <<frame, mutex, arrived, start>> /\ pc[t][2] = "claim"
        BY <3>1, AtPlace DEF ClaimFilterRow, syncVars
      <4>3. "lr" \in Barriers
        BY DEF Barriers
      <4> QED BY <1>4, <2>1, <2>2, <4>1, <4>2, <4>3
    <3>2. CASE FinishRow(t, s)
      <4>1. GoTo(t, <<s, "claim">>) /\ UNCHANGED <<frame, mutex, arrived, start>> /\ pc[t][2] = "run"
        BY <2>6, <3>2, AtPlace DEF FinishRow, syncVars, Filters
      <4> QED BY <1>4, <2>1, <2>2, <4>1
    <3> QED BY <2>6, <3>1, <3>2
  <2>7. CASE s = "cdef" /\ (Arrive(t, s) \/ SpinEnds(t, s))
    <3>1. CASE Arrive(t, "cdef")
      <4>1. PICK place \in {<<"cdef", "spin">>, AfterStage(t, "cdef")} : GoTo(t, place)
        BY <3>1 DEF Arrive
      <4>2. /\ UNCHANGED <<frame, mutex, start>> /\ arrived'["lr"] = arrived["lr"]
        BY <3>1 DEF Arrive, Types, Barriers
      <4> QED BY <1>4, <2>1, <2>2, <2>7, <4>1, <4>2
    <3>2. CASE SpinEnds(t, "cdef")
      <4>1. GoTo(t, AfterStage(t, "cdef")) /\ UNCHANGED <<frame, mutex, start, arrived>>
        BY <3>2 DEF SpinEnds, syncVars
      <4> QED BY <1>4, <2>1, <2>7, <4>1
    <3> QED BY <2>7, <3>1, <3>2
  <2>8. CASE s = "lr" /\ (Arrive(t, s) \/ SpinEnds(t, s) \/ ClearFlags(t) \/ Exit(t))
    <3>1. CASE Arrive(t, "lr")
      BY <3>1, ArriveKeepsWorking
    <3>2. CASE SpinEnds(t, "lr")
      <4>1. /\ pc[t] = <<"lr", "spin">> /\ arrived["lr"] = Cardinality(Threads)
            /\ UNCHANGED <<frame, mutex, start, arrived>>
            /\ GoTo(t, IF t = Main THEN <<"main", "begin">> ELSE <<"motion", "start">>)
        BY <3>2 DEF SpinEnds, AfterStage, At, syncVars
      <4>2. AllRest
        <5>1. {u \in Threads : Rest(u)} = Threads
          BY <4>1, CountFacts DEF InWorking
        <5> QED BY <5>1 DEF AllRest
      <4>3. pc[t] \in Resting /\ ~At(t, "lr", "clear")
        BY <4>1 DEF Resting, Ends, At
      <4>4. <<"motion", "start">> \in Waiting("motion")
        BY DEF Waiting
      <4>5. CASE t = Main
        BY <4>1, <4>2, <4>3, <4>5, RestMove
      <4>6. CASE t # Main
        BY <4>1, <4>2, <4>3, <4>4, <4>6, RestMove
      <4> QED BY <4>5, <4>6
    <3>3. CASE ClearFlags(t)
      <4>1. /\ At(t, "lr", "clear") /\ UNCHANGED <<frame, arrived>> /\ mutex' = None /\ GoTo(t, <<"lr", "spin">>)
            /\ FlagsDown(Stages)'
        BY <3>3 DEF ClearFlags, FlagsDown
      <4>2. pc[t] \in Resting
        BY <4>1 DEF At, Resting, Ends
      <4> QED BY <4>1, <4>2, RestMove
    <3>4. CASE Exit(t)
      BY <1>5, <3>4 DEF Exit, At, LatePlaces, StepsNow
    <3> QED BY <2>8, <3>1, <3>2, <3>3, <3>4
  <2> QED BY <2>1, <2>3, <2>4, <2>5, <2>6, <2>7, <2>8, StepStage DEF Barriers
<1> QED BY <1>1, <1>3, <1>5

LEMMA WorkingStep ==
    ASSUME BaseInvariant, InWorking, ~ended', Next
    PROVE  InWorking' \/ InOpening'
<1>1. Types /\ ~ended
  BY EndedStays DEF BaseInvariant
<1>2. ASSUME NEW t \in Threads, ThreadStep(t) PROVE InWorking'
  BY <1>1, <1>2, WaitKeepsWorking, ThreadKeepsWorking
<1> QED BY <1>2, MainKeepsWorking DEF Next

LEMMA NextKeepsPhases ==
    Hinted => (BaseInvariant /\ Phases /\ [Next]_vars => Phases')
<1> SUFFICES ASSUME Hinted, BaseInvariant, Phases, [Next]_vars, ~ended'
             PROVE  First' \/ InOpening' \/ InProjecting' \/ InTurning' \/ InWorking'
  BY DEF Phases
<1>1. CASE Next
  BY <1>1, EndedStays, FirstStep, OpeningStep, ProjectingStep, TurningStep, WorkingStep DEF Phases
<1>2. CASE UNCHANGED vars
  <2>1. First \/ InOpening \/ InProjecting \/ InTurning \/ InWorking
    BY <1>2 DEF vars, syncVars, Phases
  <2>2. UNCHANGED <<frame, pc, arrived, mutex, start>>
    BY <1>2 DEF vars, syncVars
  <2> QED BY <2>1, <2>2 DEF First, InOpening, InProjecting, InTurning, InWorking, Rest, AllRest, MutexIsLast, Into, HasStarted,
            At, FlagsDown, Projected
<1> QED BY <1>1, <1>2

LEMMA PhasesHold == Hinted => (Spec => []Phases)
<1>1. Init => Phases
  BY DEF Init, Phases, First
<1>2. Hinted => (BaseInvariant /\ Phases /\ [Next]_vars => Phases')
  BY NextKeepsPhases
<1> SUFFICES ASSUME Hinted PROVE Spec => []Phases
  OBVIOUS
<1> QED BY <1>1, <1>2, BaseHolds, PTL DEF Spec

-----------------------------------------------------------------------------
(* What has been done.                                                     *)

\* The rows of stage s have been queued in this frame.
Queued(s) ==
    CASE s = "motion" -> frame > 0
      [] s = "recon" -> InWorking \/ pc[Main] = <<"main", "startParse">>
      [] s \in {"lf", "cdef"} -> InWorking /\ pc[Main] # <<"main", "queueFilters">>
      [] s = "lr" -> InWorking /\ \/ pc[Main][1] = "lr" \/ pc[Main] \in {<<"main", "startLr">>, <<"main", "begin">>}
                                  \/ ~Header.upscale /\ pc[Main][1] \in LateStages

Claimed(s) ==
    {j \in Jobs(s) : j[2] < IF s = "recon" THEN nextRow[j[1]] ELSE next[s]}
IsFinished(s, j) ==
    /\ Reported(s, j) \subseteq rowMap[s]
    /\ s \in RowStages /\ Enabled(s) => progress[s][j] = Width(s, j)
Covered(s) ==
    /\ rowMap[s] \subseteq Jobs(s)
    /\ \A j \in Claimed(s) : (\E t \in Threads : At(t, s, "run") /\ job[t] = j) \/ IsFinished(s, j)

\* t is through with s in this frame, or about to.
Beyond(t, s) ==
    \/ Rest(t) \/ pc[t][1] \in Later(s) \/ pc[t] \in {<<s, "count">>, <<s, "spin">>}
    \/ /\ t = Main /\ s # "lr"
       /\ pc[t] = <<"main", "startLr">> \/ (pc[t] = <<"main", "queueLr">> /\ Header.upscale)

\* There is nothing left to take in stage s.
Exhausted(s) ==
    CASE s = "motion" -> Header.motion => next[s] >= Rows
      [] s = "parse" -> next[s] >= Len(Tiles)
      [] s = "recon" -> next[s] = Len(Tiles) /\ Unfinished = {}
      [] s \in Filters -> next[s] >= Rows

Work ==
    ~ended =>
      /\ \A s \in Stages \ {"parse"} : Queued(s) => Covered(s)
      /\ InOpening \/ InProjecting \/ InTurning => \A k \in DOMAIN nextRow : nextRow[k] = 0
      /\ InProjecting => \A t \in Threads : Projected(t) \/ At(t, "motion", "count") => Exhausted("motion")
      /\ InTurning \/ InWorking => Exhausted("motion")
      /\ InWorking => \A t \in Threads : \A s \in LateStages : Beyond(t, s) => Exhausted(s)

\* When the decoder is closed there is nothing left to take.
Closed ==
    ended => /\ frame > 0 /\ pc[Main] \in ({"close"} \X (Stages \cup {"wait"})) \cup {<<"main", "exited">>}
             /\ \A s \in LateStages : Exhausted(s)
             /\ \A t \in Threads : pc[t][2] \notin {"claimRow", "flag", "run", "post"}

LEMMA ThreadStepOnly ==
    ASSUME Types, NEW t \in Threads, ThreadStep(t)
    PROVE  /\ UNCHANGED <<stream, frame, ended>>
           /\ \A u \in Threads : u # t => pc'[u] = pc[u] /\ job'[u] = job[u]
<1>1. /\ UNCHANGED <<stream, frame, ended>>
      /\ pc' = pc \/ \E place : GoTo(t, place)
      /\ job' = job \/ \E j : job' = [job EXCEPT ![t] = j]
  <2>1. CASE CheckStart(t) \/ Block(t) \/ StartRecon(t) \/ TileParsed(t) \/ ClearFlags(t) \/ Exit(t)
    BY <2>1 DEF CheckStart, Block, StartRecon, TileParsed, ClearFlags, Exit, syncVars
  <2>2. CASE ClaimMotionRow(t) \/ ProjectRow(t) \/ ClaimTile(t) \/ ParseRow(t) \/ ClaimTileRow(t)
    BY <2>2 DEF ClaimMotionRow, ProjectRow, ClaimTile, ParseRow, ClaimTileRow, syncVars
  <2>3. CASE PickTile(t)
    BY <2>3 DEF PickTile, syncVars
  <2>4. CASE \E s \in Filters : ClaimFilterRow(t, s)
    BY <2>4 DEF ClaimFilterRow, syncVars
  <2>5. CASE \E s \in RowStages : DoSuperblock(t, s) \/ FinishRow(t, s)
    BY <2>5 DEF DoSuperblock, FinishRow, syncVars
  <2>6. CASE \E s \in Barriers : Arrive(t, s) \/ SpinEnds(t, s)
    BY <2>6 DEF Arrive, SpinEnds, syncVars
  <2> QED BY <2>1, <2>2, <2>3, <2>4, <2>5, <2>6 DEF ThreadStep
<1>2. \A u \in Threads : u # t => pc'[u] = pc[u]
  BY <1>1 DEF GoTo, Types
<1>3. \A u \in Threads : u # t => job'[u] = job[u]
  BY <1>1 DEF Types
<1> QED BY <1>1, <1>2, <1>3

\* The steps that leave the rows alone.
IdleStep(t) ==
    \/ CheckStart(t) \/ Block(t) \/ StartRecon(t) \/ TileParsed(t) \/ ClearFlags(t) \/ Exit(t)
    \/ \E s \in Barriers : Arrive(t, s) \/ SpinEnds(t, s)

LEMMA IdleStepOnly ==
    ASSUME NEW t \in Threads, IdleStep(t)
    PROVE  UNCHANGED <<job, next, nextRow, parsed, progress, rowMap>> /\ pc[t][2] # "run"
<1>1. CASE CheckStart(t) \/ Block(t) \/ StartRecon(t) \/ TileParsed(t) \/ ClearFlags(t) \/ Exit(t)
  BY <1>1, AtPlace DEF CheckStart, Block, StartRecon, TileParsed, ClearFlags, Exit, rowVars
<1>2. CASE \E s \in Barriers : Arrive(t, s) \/ SpinEnds(t, s)
  BY <1>2, AtPlace DEF Arrive, SpinEnds, rowVars
<1> QED BY <1>1, <1>2 DEF IdleStep

\* What has been taken stays taken.
LEMMA ExhaustedStays ==
    ASSUME UNCHANGED <<stream, frame>>, NEW s \in Stages, next'[s] = next[s], s = "recon" => nextRow' = nextRow
    PROVE  Exhausted(s) <=> Exhausted(s)'
<1>1. Header' = Header /\ Rows' = Rows /\ Tiles' = Tiles
  BY DEF Header, Rows, Tiles
<1>2. CASE s = "recon"
  BY <1>1, <1>2 DEF Exhausted, Unfinished
<1>3. CASE s = "motion"
  BY <1>1, <1>3 DEF Exhausted
<1>4. CASE s = "parse"
  BY <1>1, <1>4 DEF Exhausted
<1>5. CASE s \in Filters
  BY <1>1, <1>5 DEF Exhausted, Filters
<1> QED BY <1>2, <1>3, <1>4, <1>5 DEF Stages, RowStages

LEMMA ThreadKeepsExhausted ==
    ASSUME Types, frame > 0, NEW t \in Threads, ThreadStep(t), NEW s \in Stages, Exhausted(s)
    PROVE  Exhausted(s)'
<1>1. UNCHANGED <<stream, frame>>
  BY ThreadStepOnly
<1>2. CASE UNCHANGED <<next, nextRow>>
  BY <1>1, <1>2, ExhaustedStays
<1>3. ASSUME NEW x \in Stages, next' = [next EXCEPT ![x] = @ + 1], UNCHANGED nextRow, ~Exhausted(x)
      PROVE  Exhausted(s)'
  <2>1. s # x
    BY <1>3
  <2>2. next'[s] = next[s]
    BY <1>3, <2>1 DEF Types
  <2> QED BY <1>1, <1>3, <2>2, ExhaustedStays
<1>4. CASE IdleStep(t)
  BY <1>2, <1>4, IdleStepOnly
<1>5. CASE ProjectRow(t) \/ ParseRow(t) \/ \E x \in RowStages : DoSuperblock(t, x) \/ FinishRow(t, x)
  BY <1>2, <1>5 DEF ProjectRow, ParseRow, DoSuperblock, FinishRow
<1>6. Len(Tiles) \in Nat /\ Rows \in Nat /\ \A x \in Stages : next[x] \in Nat
  BY FrameFacts DEF Types
<1>7. CASE ClaimMotionRow(t)
  <2>1. CASE Header.motion /\ ~ended /\ next["motion"] < Rows
    <3>1. ~Exhausted("motion") /\ "motion" \in Stages
      BY <1>6, <2>1, StageFacts DEF Exhausted, Filters
    <3> QED BY <1>3, <1>7, <2>1, <3>1 DEF ClaimMotionRow
  <2>2. CASE ~(Header.motion /\ ~ended /\ next["motion"] < Rows)
    BY <1>2, <1>7, <2>2 DEF ClaimMotionRow
  <2> QED BY <2>1, <2>2
<1>8. CASE ClaimTile(t)
  <2>1. CASE next["parse"] < Len(Tiles)
    <3>1. ~Exhausted("parse") /\ "parse" \in Stages
      BY <1>6, <2>1, StageFacts DEF Exhausted, Filters
    <3> QED BY <1>3, <1>8, <2>1, <3>1 DEF ClaimTile
  <2>2. CASE ~(next["parse"] < Len(Tiles))
    BY <1>2, <1>8, <2>2 DEF ClaimTile
  <2> QED BY <2>1, <2>2
<1>9. CASE PickTile(t)
  <2>1. CASE next["recon"] < Len(Tiles)
    <3>1. ~Exhausted("recon") /\ "recon" \in Stages
      BY <1>6, <2>1, StageFacts DEF Exhausted, Filters
    <3>2. next' = [next EXCEPT !["recon"] = @ + 1] /\ UNCHANGED nextRow
      BY <1>6, <1>9, <2>1, StageFacts DEF PickTile
    <3> QED BY <1>3, <3>1, <3>2
  <2>2. CASE ~(next["recon"] < Len(Tiles))
    BY <1>2, <1>9, <2>2 DEF PickTile
  <2> QED BY <2>1, <2>2
<1>10. CASE ClaimTileRow(t)
  <2>1. CASE s = "recon"
    <3>1. Unfinished = {}
      BY <2>1 DEF Exhausted, Filters
    <3>2. CASE job[t][1] \in DOMAIN Tiles
      <4>1. ~(nextRow[job[t][1]] < Tiles[job[t][1]].rows)
        BY <3>1, <3>2 DEF Unfinished
      <4> QED BY <1>2, <1>10, <4>1 DEF ClaimTileRow
    <3>3. CASE job[t][1] \notin DOMAIN Tiles
      <4>1. DOMAIN nextRow = DOMAIN Tiles
        BY FrameFacts DEF Types
      <4>2. UNCHANGED <<next, nextRow>>
        BY <1>10, <3>3, <4>1 DEF ClaimTileRow, Types
      <4> QED BY <1>2, <4>2
    <3> QED BY <3>2, <3>3
  <2>2. CASE s # "recon"
    BY <1>1, <1>10, <2>2, ExhaustedStays DEF ClaimTileRow
  <2> QED BY <2>1, <2>2
<1>11. ASSUME NEW x \in Filters, ClaimFilterRow(t, x) PROVE Exhausted(s)'
  <2>1. CASE next[x] < Rows
    <3>1. ~Exhausted(x) /\ x \in Stages
      <4>1. x \in Stages /\ x \notin {"motion", "parse", "recon"}
        BY DEF Filters, Stages, RowStages
      <4>2. ~(next[x] >= Rows)
        BY <1>6, <2>1, <4>1
      <4> QED BY <4>1, <4>2 DEF Exhausted
    <3> QED BY <1>3, <1>11, <2>1, <3>1 DEF ClaimFilterRow
  <2>2. CASE ~(next[x] < Rows)
    BY <1>2, <1>11, <2>2 DEF ClaimFilterRow
  <2> QED BY <2>1, <2>2
<1> QED BY <1>4, <1>5, <1>7, <1>8, <1>9, <1>10, <1>11 DEF ThreadStep, IdleStep

LEMMA FinishedStays ==
    ASSUME UNCHANGED <<stream, frame>>, NEW s \in Stages, NEW j, IsFinished(s, j), rowMap[s] \subseteq rowMap'[s],
           s \in RowStages => progress'[s] = progress[s]
    PROVE  IsFinished(s, j)'
<1>1. Header' = Header /\ Rows' = Rows /\ Tiles' = Tiles /\ Cols' = Cols
  BY DEF Header, Rows, Tiles, Cols
<1>2. Reported(s, j)' = Reported(s, j) /\ Enabled(s)' = Enabled(s) /\ Width(s, j)' = Width(s, j)
  BY <1>1 DEF Reported, Enabled, Width
<1> QED BY <1>2 DEF IsFinished

\* Rows that were taken are still at work, or finished.
LEMMA CoveredStays ==
    ASSUME UNCHANGED <<stream, frame>>, NEW s \in Stages, Covered(s),
           rowMap[s] \subseteq rowMap'[s], rowMap'[s] \subseteq Jobs(s),
           s \in RowStages => progress'[s] = progress[s],
           \A j \in Claimed(s)' : j \in Claimed(s) \/ \E u \in Threads : At(u, s, "run")' /\ job'[u] = j,
           \A u \in Threads : At(u, s, "run") =>
              job'[u] = job[u] /\ (At(u, s, "run")' \/ IsFinished(s, job[u])')
    PROVE  Covered(s)'
<1>1. Jobs(s)' = Jobs(s)
  BY DEF Jobs
<1>2. ASSUME NEW j \in Claimed(s)'
      PROVE  (\E u \in Threads : At(u, s, "run")' /\ job'[u] = j) \/ IsFinished(s, j)'
  <2>1. CASE j \in Claimed(s)
    <3>1. CASE IsFinished(s, j)
      BY <3>1, FinishedStays
    <3>2. ASSUME NEW u \in Threads, At(u, s, "run"), job[u] = j
          PROVE  (At(u, s, "run")' /\ job'[u] = j) \/ IsFinished(s, j)'
      <4>1. job'[u] = j /\ (At(u, s, "run")' \/ IsFinished(s, job[u])')
        BY <3>2
      <4>2. IsFinished(s, job[u])' => IsFinished(s, j)'
        BY <4>1 DEF IsFinished, Reported, Width, Enabled
      <4> QED BY <4>1, <4>2
    <3> QED BY <2>1, <3>1, <3>2 DEF Covered
  <2> QED BY <2>1
<1> QED BY <1>1, <1>2 DEF Covered

LEMMA ThreadKeepsCovered ==
    ASSUME BaseInvariant, NEW t \in Threads, ThreadStep(t), NEW s \in Stages \ {"parse"}, Covered(s), frame > 0
    PROVE  Covered(s)'
<1>1. Types /\ UNCHANGED <<stream, frame>> /\ \A u \in Threads : u # t => pc'[u] = pc[u] /\ job'[u] = job[u]
  BY ThreadStepOnly DEF BaseInvariant
<1>2. /\ Rows = stream[1].rows /\ Tiles = stream[1].tiles /\ Tiles \in Seq(Tile)
      /\ Rows \in Nat /\ Jobs(s)' = Jobs(s)
  BY <1>1, FrameFacts DEF Types, Rows, Jobs
<1>3. \A u \in Threads : u # t /\ At(u, s, "run") => At(u, s, "run")' /\ job'[u] = job[u]
  BY <1>1 DEF At
<1>4. rowMap[s] \subseteq Jobs(s)
  BY DEF Covered
<1>5. ASSUME UNCHANGED <<nextRow, progress, rowMap>>, next'[s] = next[s] \/ s = "recon", ~At(t, s, "run")
      PROVE  Covered(s)'
  <2>1. Claimed(s)' = Claimed(s)
    BY <1>2, <1>5 DEF Claimed
  <2> QED BY <1>1, <1>3, <1>4, <1>5, <2>1, CoveredStays
<1>6. CASE IdleStep(t)
  BY <1>5, <1>6, IdleStepOnly, AtPlace
<1>7. CASE ParseRow(t)
  BY <1>5, <1>7 DEF ParseRow, At
<1>8. CASE ClaimTile(t)
  <2>1. next'[s] = next[s]
    BY <1>1, <1>8 DEF ClaimTile, Types
  <2> QED BY <1>5, <1>8, <2>1 DEF ClaimTile, At
<1>9. CASE PickTile(t)
  <2>1. next'[s] = next[s] \/ s = "recon"
    BY <1>1, <1>9 DEF PickTile, Types
  <2> QED BY <1>5, <1>9, <2>1 DEF PickTile, At
<1>10. ASSUME NEW x \in Stages \ {"parse", "recon"}, At(t, x, "claim"),
              UNCHANGED <<nextRow, progress, rowMap>>,
              \/ /\ next' = [next EXCEPT ![x] = @ + 1] /\ job' = [job EXCEPT ![t] = <<0, next[x]>>]
                 /\ GoTo(t, <<x, "run">>)
              \/ UNCHANGED next
       PROVE  Covered(s)'
  <2>1. ~At(t, s, "run")
    BY <1>10 DEF At
  <2>2. CASE UNCHANGED next
    BY <1>5, <1>10, <2>1, <2>2
  <2>3. CASE /\ next' = [next EXCEPT ![x] = @ + 1] /\ job' = [job EXCEPT ![t] = <<0, next[x]>>]
             /\ GoTo(t, <<x, "run">>)
    <3>1. CASE x # s
      <4>1. next'[s] = next[s]
        BY <1>1, <2>3, <3>1 DEF Types
      <4> QED BY <1>5, <1>10, <2>1, <4>1
    <3>2. CASE x = s
      <4>1. next'[s] = next[s] + 1 /\ next[s] \in Nat /\ job'[t] = <<0, next[s]>> /\ s # "recon"
        BY <1>1, <1>10, <2>3, <3>2 DEF Types
      <4>2. At(t, s, "run")'
        <5>1. <<x, "run">> \in Places
          BY <1>10 DEF Places, Steps
        <5> QED BY <1>1, <2>3, <3>2, <5>1, MoveFacts DEF At
      <4>3. \A j \in Claimed(s)' : j \in Claimed(s) \/ j = <<0, next[s]>>
        <5>1. \A j \in Jobs(s) : \E r \in Nat : j = <<0, r>>
          BY <1>1, <1>2, <4>1, JobsFacts DEF Types
        <5>2. ASSUME NEW j \in Jobs(s), j[2] < next'[s] PROVE j[2] < next[s] \/ j = <<0, next[s]>>
          <6>1. PICK r \in Nat : j = <<0, r>>
            BY <5>1
          <6> QED BY <4>1, <5>2, <6>1
        <5> QED BY <1>2, <4>1, <5>2 DEF Claimed
      <4> QED BY <1>1, <1>3, <1>4, <1>10, <2>1, <4>1, <4>2, <4>3, CoveredStays
    <3> QED BY <3>1, <3>2
  <2> QED BY <1>10, <2>2, <2>3
<1>11. CASE ClaimMotionRow(t)
  BY <1>10, <1>11, StageFacts DEF ClaimMotionRow
<1>12. ASSUME NEW x \in Filters, ClaimFilterRow(t, x) PROVE Covered(s)'
  <2>1. x \in Stages \ {"parse", "recon"}
    BY DEF Filters, Stages, RowStages
  <2> QED BY <1>10, <1>12, <2>1 DEF ClaimFilterRow
<1>13. CASE ClaimTileRow(t)
  <2> DEFINE k == job[t][1]
  <2>1. /\ At(t, "recon", "claimRow") /\ UNCHANGED <<next, progress, rowMap>> /\ ~At(t, s, "run")
    BY <1>13 DEF ClaimTileRow, At
  <2>2. CASE ~(nextRow[k] < Tiles[k].rows)
    BY <1>5, <1>13, <2>1, <2>2 DEF ClaimTileRow
  <2>3. CASE s # "recon"
    <3>1. Claimed(s)' = Claimed(s)
      BY <1>2, <2>1, <2>3 DEF Claimed
    <3> QED BY <1>1, <1>3, <1>4, <2>1, <3>1, CoveredStays
  <2>4. CASE nextRow[k] < Tiles[k].rows /\ s = "recon"
    <3>1. /\ nextRow' = [nextRow EXCEPT ![k] = @ + 1] /\ job' = [job EXCEPT ![t] = <<k, nextRow[k]>>]
          /\ GoTo(t, <<"recon", "run">>)
      BY <1>13, <2>4 DEF ClaimTileRow
    <3>2. k \in DOMAIN nextRow /\ nextRow[k] \in Nat
      BY <1>1, <2>1 DEF BaseInvariant, InRange, AtRow, Types
    <3>3. At(t, s, "run")' /\ job'[t] = <<k, nextRow[k]>>
      <4>1. <<"recon", "run">> \in Places
        BY DEF Places, Stages, RowStages, Steps
      <4> QED BY <1>1, <2>4, <3>1, <4>1, MoveFacts DEF At, Types
    <3>4. \A j \in Claimed(s)' : j \in Claimed(s) \/ j = <<k, nextRow[k]>>
      <4>1. \A j \in Jobs(s) : j = <<j[1], j[2]>> /\ j[2] \in Nat /\ j[1] \in DOMAIN nextRow
        BY <1>1, <1>2, <2>4, JobsFacts DEF Types
      <4>2. ASSUME NEW j \in Jobs(s), j[2] < nextRow'[j[1]]
            PROVE  j[2] < nextRow[j[1]] \/ j = <<k, nextRow[k]>>
        <5>1. CASE j[1] = k
          BY <3>1, <3>2, <4>1, <4>2, <5>1 DEF Types
        <5>2. CASE j[1] # k
          <6>1. nextRow'[j[1]] = nextRow[j[1]]
            BY <1>1, <3>1, <4>1, <5>2 DEF Types
          <6> QED BY <4>2, <6>1
        <5> QED BY <5>1, <5>2
      <4> QED BY <1>2, <2>4, <4>2 DEF Claimed
    <3> QED BY <1>1, <1>3, <1>4, <2>1, <3>3, <3>4, CoveredStays
  <2> QED BY <2>2, <2>3, <2>4
<1>14. CASE ProjectRow(t)
  <2>1. /\ At(t, "motion", "run") /\ UNCHANGED <<next, nextRow, progress, job>>
        /\ rowMap' = [rowMap EXCEPT !["motion"] = @ \cup {job[t]}]
    BY <1>14 DEF ProjectRow
  <2>2. CASE s = "motion"
    <3>1. rowMap'[s] = rowMap[s] \cup {job[t]} /\ job[t] \in Jobs(s)
      BY <1>1, <2>1, <2>2, StageFacts DEF Types, BaseInvariant, InRange, AtRow
    <3>2. IsFinished(s, job[t])'
      BY <2>1, <2>2, <3>1, StageFacts DEF IsFinished, Reported
    <3>3. Claimed(s)' = Claimed(s)
      BY <1>2, <2>1 DEF Claimed
    <3> QED BY <1>1, <1>3, <1>4, <2>1, <3>1, <3>2, <3>3, CoveredStays
  <2>3. CASE s # "motion"
    <3>1. rowMap'[s] = rowMap[s] /\ ~At(t, s, "run")
      BY <1>1, <2>1, <2>3 DEF Types, At
    <3>2. Claimed(s)' = Claimed(s)
      BY <1>2, <2>1 DEF Claimed
    <3> QED BY <1>1, <1>3, <1>4, <2>1, <3>1, <3>2, CoveredStays
  <2> QED BY <2>2, <2>3
<1>15. ASSUME NEW x \in RowStages, FinishRow(t, x) PROVE Covered(s)'
  <2> DEFINE j == job[t]
  <2>1. /\ At(t, x, "run") /\ UNCHANGED <<next, nextRow, progress, job>> /\ x \in Stages \ {"parse"}
        /\ rowMap' = [rowMap EXCEPT ![x] = @ \cup Reported(x, j)]
        /\ Enabled(x) => progress[x][j] = Width(x, j)
    BY <1>15, StageFacts DEF FinishRow
  <2>2. Claimed(s)' = Claimed(s)
    BY <1>2, <2>1 DEF Claimed
  <2>3. CASE s = x
    <3>1. j \in Jobs(s) /\ rowMap'[s] = rowMap[s] \cup Reported(s, j)
      BY <1>1, <2>1, <2>3 DEF Types, BaseInvariant, InRange, AtRow
    <3>2. Reported(s, j) \subseteq Jobs(s)
      <4>1. CASE s = "lf"
        <5>1. PICK r \in 0 .. Rows - 1 : j = <<0, r>>
          <6>1. s \in Stages \ {"recon"} /\ stream \in Streams
            BY <1>1, <4>1 DEF Types
          <6>2. Jobs(s) = {<<0, r>> : r \in 0 .. stream[1].rows - 1}
            BY <6>1, JobsFacts
          <6>3. j \in {<<0, r>> : r \in 0 .. Rows - 1}
            BY <1>2, <3>1, <6>2
          <6> QED BY <6>3
        <5>2. \A y \in {j[2] - 1} \cap Nat : y < stream[1].rows
          BY <1>2, <5>1
        <5>3. \A y \in {j[2] - 1} \cap Nat : <<0, y>> \in Jobs(s)
          BY <1>1, <4>1, <5>2, JobsFacts DEF Types
        <5> QED BY <3>1, <4>1, <5>3 DEF Reported
      <4>2. CASE s # "lf"
        BY <3>1, <4>2 DEF Reported
      <4> QED BY <4>1, <4>2
    <3>3. IsFinished(s, j)'
      <4>1. Header' = Header /\ Rows' = Rows /\ Tiles' = Tiles /\ Cols' = Cols
        BY <1>1 DEF Header, Rows, Tiles, Cols
      <4>2. Reported(s, j)' = Reported(s, j) /\ Enabled(s)' = Enabled(s) /\ Width(s, j)' = Width(s, j)
        BY <2>1, <4>1 DEF Reported, Enabled, Width
      <4> QED BY <2>1, <2>3, <3>1, <4>2 DEF IsFinished
    <3> QED BY <1>1, <1>3, <1>4, <2>1, <2>2, <3>1, <3>2, <3>3, CoveredStays
  <2>4. CASE s # x
    <3>1. rowMap'[s] = rowMap[s] /\ ~At(t, s, "run")
      BY <1>1, <2>1, <2>4 DEF Types, At
    <3> QED BY <1>1, <1>3, <1>4, <2>1, <2>2, <3>1, CoveredStays
  <2> QED BY <2>3, <2>4
<1>16. ASSUME NEW x \in RowStages, DoSuperblock(t, x) PROVE Covered(s)'
  <2> DEFINE j == job[t]
  <2>1. /\ At(t, x, "run") /\ UNCHANGED <<next, nextRow, rowMap, job, pc>> /\ x \in Stages \ {"parse"}
        /\ Enabled(x) /\ progress[x][j] < Width(x, j)
        /\ progress' = [progress EXCEPT ![x][j] = progress[x][j] + 1]
    BY <1>16, StageFacts DEF DoSuperblock
  <2>2. Claimed(s)' = Claimed(s)
    BY <1>2, <2>1 DEF Claimed
  <2>3. \A u \in Threads : At(u, s, "run")' <=> At(u, s, "run")
    BY <2>1 DEF At
  <2>4. CASE s # x
    <3>1. s \in RowStages => progress'[s] = progress[s]
      BY <1>1, <2>1, <2>4 DEF Types
    <3> QED BY <1>1, <1>4, <2>1, <2>2, <2>3, <3>1, CoveredStays
  <2>5. CASE s = x
    <3>1. progress[s] \in [Jobs(s) -> Nat] /\ j \in Jobs(s)
      BY <1>1, <2>1, <2>5 DEF Types, BaseInvariant, InRange, AtRow
    <3>2. progress'[s] = [progress[s] EXCEPT ![j] = progress[s][j] + 1]
      BY <1>1, <2>1, <2>5 DEF Types
    <3>3. Header' = Header /\ Rows' = Rows /\ Tiles' = Tiles /\ Cols' = Cols
      BY <1>1 DEF Header, Rows, Tiles, Cols
    <3>4. ASSUME NEW i \in Claimed(s)
          PROVE  (\E u \in Threads : At(u, s, "run")' /\ job'[u] = i) \/ IsFinished(s, i)'
      <4>1. CASE i = j
        BY <2>1, <2>3, <2>5, <4>1
      <4>2. CASE i # j /\ IsFinished(s, i)
        <5>1. i \in Jobs(s)
          BY <3>4 DEF Claimed
        <5>2. progress'[s][i] = progress[s][i]
          BY <3>1, <3>2, <4>2, <5>1
        <5>3. Reported(s, i)' = Reported(s, i) /\ Enabled(s)' = Enabled(s) /\ Width(s, i)' = Width(s, i)
          BY <3>3 DEF Reported, Enabled, Width
        <5> QED BY <2>1, <4>2, <5>2, <5>3 DEF IsFinished
      <4>3. CASE \E u \in Threads : At(u, s, "run") /\ job[u] = i
        BY <2>1, <2>3, <4>3
      <4> QED BY <3>4, <4>1, <4>2, <4>3 DEF Covered
    <3> QED BY <1>2, <1>4, <2>1, <2>2, <3>4 DEF Covered
  <2> QED BY <2>4, <2>5
<1> QED BY <1>6, <1>7, <1>8, <1>9, <1>11, <1>12, <1>13, <1>14, <1>15, <1>16 DEF ThreadStep, IdleStep

-----------------------------------------------------------------------------
(* Which phase a step was taken in.                                        *)

LEMMA PhasesApart ==
    /\ InOpening => ~InProjecting /\ ~InTurning /\ ~InWorking
    /\ InProjecting => ~InTurning /\ ~InWorking
    /\ InTurning => ~InWorking
    /\ First => frame = 0
    /\ InOpening \/ InProjecting \/ InTurning \/ InWorking => frame > 0
BY DEF InOpening, InProjecting, InTurning, InWorking, MainPlaces, LatePlaces, LateStages, First

\* No thread begins a phase, but Main, which ends the motion stage with everyone.
LEMMA ThreadStaysInPhase ==
    ASSUME Hinted, BaseInvariant, Phases, ~ended, NEW t \in Threads, ThreadStep(t)
    PROVE  /\ ~ended' /\ UNCHANGED <<stream, frame>>
           /\ First => First'
           /\ InOpening => InOpening'
           /\ InTurning => InTurning' /\ t # Main
           /\ InWorking => InWorking'
           /\ InProjecting => \/ InProjecting'
                              \/ /\ InTurning' /\ t = Main /\ \A u \in Threads : Projected(u)
                                 /\ pc'[Main] = <<"main", "queueParse">>
<1>1. /\ Types /\ UNCHANGED <<stream, frame, ended>> /\ ~ended' /\ Next
      /\ \A u \in Threads : u # t => pc'[u] = pc[u] /\ job'[u] = job[u]
  BY ThreadStepOnly DEF BaseInvariant, Next
<1>2. First => First'
  BY <1>1 DEF First
<1>3. ASSUME InOpening PROVE InOpening'
  <2>1. InOpening' \/ (InProjecting' /\ pc[Main] = <<"main", "startMotion">>)
    BY <1>1, <1>3, OpeningStep DEF InOpening
  <2>2. t # Main
    BY <1>3, StepPlace DEF InOpening, At
  <2>3. pc'[Main] = pc[Main]
    BY <1>1, <2>2, CountFacts
  <2> QED BY <2>1, <2>3 DEF InProjecting
<1>4. ASSUME InTurning PROVE InTurning' /\ t # Main
  <2>1. InTurning' \/ InWorking'
    BY <1>1, <1>4, TurningStep
  <2>2. t # Main
    BY <1>4, StepPlace DEF InTurning, At
  <2>3. pc'[Main] = pc[Main]
    BY <1>1, <2>2, CountFacts
  <2> QED BY <1>4, <2>1, <2>2, <2>3 DEF InTurning, InWorking, MainPlaces, LatePlaces, LateStages
<1>5. ASSUME InWorking PROVE InWorking'
  BY <1>1, <1>5, WaitKeepsWorking, ThreadKeepsWorking
<1>6. ASSUME InProjecting
      PROVE  \/ InProjecting'
             \/ /\ InTurning' /\ t = Main /\ \A u \in Threads : Projected(u)
                /\ pc'[Main] = <<"main", "queueParse">>
  <2>1. InProjecting' \/ InTurning'
    BY <1>1, <1>6, ProjectingStep
  <2>2. CASE InTurning'
    <3>1. pc[Main][1] = "motion" /\ pc'[Main] \in {<<"main", "queueParse">>, <<"main", "startParse">>}
      BY <1>6, <2>2 DEF InProjecting, InTurning
    <3>2. t = Main
      BY <1>1, <3>1, CountFacts
    <3>3. Header.hint
      BY <1>1, <1>6, FrameFacts, FirstFrameFacts DEF Types, Hinted, Header, InProjecting
    <3>4. \A p \in {"claim", "block", "start", "run", "count", "spin"} : <<"motion", p>> \in Places
      BY DEF Places, Stages, Steps
    <3>5. \A p \in {"claim", "block", "start", "run", "count", "spin"} : ~GoTo(t, <<"motion", p>>)
      BY <1>1, <3>1, <3>2, <3>4, MoveFacts
    <3>6. ~(CheckStart(t) \/ Block(t))
      BY <3>1, <3>2, <3>5 DEF CheckStart, Block
    <3>7. ~(ClaimMotionRow(t) \/ ProjectRow(t))
      BY <3>3, <3>5 DEF ClaimMotionRow, ProjectRow
    <3>8. ~Arrive(t, "motion")
      BY <3>5 DEF Arrive, Waits
    <3>9. SpinEnds(t, "motion")
      BY <3>1, <3>2, <3>6, <3>7, <3>8, StepStage DEF Filters
    <3>10. {u \in Threads : Projected(u)} = Threads
      BY <1>1, <1>6, <3>9, CountFacts DEF SpinEnds, InProjecting
    <3>11. pc'[Main] = <<"main", "queueParse">>
      <4>1. GoTo(Main, <<"main", "queueParse">>)
        BY <3>2, <3>9 DEF SpinEnds, AfterStage
      <4>2. <<"main", "queueParse">> \in Places
        BY DEF Places, MainSteps
      <4> QED BY <1>1, <4>1, <4>2, MoveFacts, CountFacts
    <3> QED BY <2>2, <3>2, <3>10, <3>11
  <2> QED BY <2>1, <2>2
<1> QED BY <1>1, <1>2, <1>3, <1>4, <1>5, <1>6

\* Where Main goes in the frame, other than from stage to stage.
LEMMA MainLateMove ==
    ASSUME BaseInvariant, InWorking, ~ended, ThreadStep(Main)
    PROVE  \/ pc'[Main][1] = pc[Main][1] /\ pc[Main][1] \in LateStages
           \/ /\ pc[Main][1] \in {"parse", "recon", "lf"} /\ pc'[Main][1] \in {"recon", "lf", "cdef"}
              /\ pc[Main][2] \notin {"start", "block"} /\ pc'[Main][2] = "start"
           \/ /\ pc[Main][1] = "cdef" /\ pc[Main][2] \notin {"start", "block"}
              /\ pc'[Main] = <<"main", IF Header.upscale THEN "queueLr" ELSE "startLr">>
           \/ pc[Main] = <<"lr", "spin">> /\ pc'[Main] = <<"main", "begin">>
<1>1. Types /\ Main \in Threads
  BY CountFacts DEF BaseInvariant
<1> DEFINE s == pc[Main][1]
<1>2. s \in LateStages
  <2>1. s \in {"motion", "parse", "recon", "lf", "cdef", "lr"}
    <3>1. CASE CheckStart(Main) \/ Block(Main)
      <4>1. pc[Main][2] \in {"start", "block"}
        BY <3>1 DEF CheckStart, Block
      <4> QED BY <4>1 DEF InWorking, MainPlaces, LatePlaces, LateStages
    <3>2. CASE ~(CheckStart(Main) \/ Block(Main))
      BY <1>1, <3>2, StepStage DEF Filters
    <3> QED BY <3>1, <3>2
  <2> QED BY <2>1 DEF InWorking, MainPlaces, LatePlaces, LateStages
<1>3. \A p \in Steps : <<s, p>> \in Places
  BY <1>2 DEF LateStages, Places, Stages, RowStages, Filters
<1>4. ASSUME NEW p \in Steps, GoTo(Main, <<s, p>>) PROVE pc'[Main][1] = s
  BY <1>1, <1>3, <1>4, MoveFacts
<1>5. {"claim", "block", "start", "claimRow", "flag", "run", "post", "count", "spin", "clear"} \subseteq Steps
  BY DEF Steps
<1>6. ASSUME GoTo(Main, AfterStage(Main, s)), pc[Main][2] \notin {"start", "block"}, s # "lr"
      PROVE  \/ /\ s \in {"parse", "recon", "lf"} /\ pc'[Main][1] \in {"recon", "lf", "cdef"} /\ pc'[Main][2] = "start"
             \/ s = "cdef" /\ pc'[Main] = <<"main", IF Header.upscale THEN "queueLr" ELSE "startLr">>
  <2>1. AfterStage(Main, s) \in Places
    BY <1>1, <1>2, AfterStageFacts DEF LateStages, Stages, RowStages, Filters
  <2>2. pc'[Main] = AfterStage(Main, s)
    BY <1>1, <1>6, <2>1, MoveFacts
  <2> QED BY <1>2, <1>6, <2>2 DEF AfterStage, LateStages
<1>7. CASE CheckStart(Main) \/ Block(Main)
  BY <1>2, <1>4, <1>5, <1>7 DEF CheckStart, Block
<1>8. CASE s = "parse" /\ (ClaimTile(Main) \/ StartRecon(Main) \/ ParseRow(Main) \/ TileParsed(Main))
  <2>1. pc[Main][2] \notin {"start", "block"}
    BY <1>8, AtPlace DEF ClaimTile, StartRecon, ParseRow, TileParsed
  <2>2. GoTo(Main, AfterStage(Main, s)) \/ \E p \in {"flag", "run", "post", "claim"} : GoTo(Main, <<s, p>>)
    BY <1>8 DEF ClaimTile, StartRecon, ParseRow, TileParsed
  <2> QED BY <1>2, <1>4, <1>5, <1>6, <1>8, <2>1, <2>2
<1>9. CASE s = "recon" /\ (PickTile(Main) \/ ClaimTileRow(Main) \/ FinishRow(Main, "recon"))
  <2>1. pc[Main][2] \notin {"start", "block"}
    BY <1>9, AtPlace DEF PickTile, ClaimTileRow, FinishRow
  <2>2. GoTo(Main, AfterStage(Main, s)) \/ \E p \in {"claimRow", "run", "claim"} : GoTo(Main, <<s, p>>)
    BY <1>9 DEF PickTile, ClaimTileRow, FinishRow
  <2> QED BY <1>2, <1>4, <1>5, <1>6, <1>9, <2>1, <2>2
<1>10. CASE DoSuperblock(Main, s)
  BY <1>2, <1>10 DEF DoSuperblock
<1>11. CASE s \in Filters /\ (ClaimFilterRow(Main, s) \/ FinishRow(Main, s))
  <2>1. pc[Main][2] \notin {"start", "block"}
    BY <1>11, AtPlace DEF ClaimFilterRow, FinishRow
  <2>2. \/ GoTo(Main, AfterStage(Main, s)) /\ s # "lr"
        \/ \E p \in {"run", "claim", "count"} : GoTo(Main, <<s, p>>)
    BY <1>11 DEF ClaimFilterRow, FinishRow, Filters, Barriers
  <2> QED BY <1>2, <1>4, <1>5, <1>6, <1>11, <2>1, <2>2
<1>12. CASE s \in Barriers /\ Arrive(Main, s)
  <2>1. pc[Main][2] \notin {"start", "block"}
    BY <1>12, AtPlace DEF Arrive
  <2>2. \/ GoTo(Main, AfterStage(Main, s)) /\ s # "lr"
        \/ \E p \in {"spin", "clear"} : GoTo(Main, <<s, p>>)
    BY <1>12 DEF Arrive, Waits
  <2> QED BY <1>2, <1>4, <1>5, <1>6, <1>12, <2>1, <2>2
<1>13. CASE s \in Barriers /\ SpinEnds(Main, s)
  <2>1. pc[Main] = <<s, "spin">> /\ GoTo(Main, AfterStage(Main, s))
    BY <1>13 DEF SpinEnds, At
  <2>2. CASE s # "lr"
    BY <1>2, <1>6, <2>1, <2>2
  <2>3. CASE s = "lr"
    <3>1. GoTo(Main, <<"main", "begin">>) /\ <<"main", "begin">> \in Places
      BY <2>1, <2>3 DEF AfterStage, Places, MainSteps
    <3> QED BY <1>1, <2>1, <2>3, <3>1, MoveFacts
  <2> QED BY <2>2, <2>3
<1>14. CASE s = "lr" /\ (ClearFlags(Main) \/ Exit(Main))
  <2>1. ~Exit(Main)
    BY <1>1 DEF Exit, At, InWorking, MainPlaces, LatePlaces, StepsNow
  <2>2. GoTo(Main, <<s, "spin">>)
    BY <1>14, <2>1 DEF ClearFlags
  <2> QED BY <1>2, <1>4, <1>5, <2>2
<1> QED
  <2>1. s # "motion" /\ s \in {"parse", "recon", "lf", "cdef", "lr"}
    BY <1>2 DEF LateStages
  <2> QED BY <1>1, <1>7, <1>8, <1>9, <1>10, <1>11, <1>12, <1>13, <1>14, <2>1, StepStage

\* A thread queues nothing, and what it adds to the rows of parse and recon.
LEMMA QueuedBack ==
    ASSUME Hinted, BaseInvariant, Phases, ~ended, NEW t \in Threads, ThreadStep(t), NEW s \in Stages \ {"parse"}
    PROVE  Queued(s)' => Queued(s)
<1> SUFFICES ASSUME Queued(s)' PROVE Queued(s)
  OBVIOUS
<1>1. /\ UNCHANGED <<stream, frame>> /\ \A u \in Threads : u # t => pc'[u] = pc[u]
      /\ Main \in Threads /\ Header' = Header
  BY ThreadStepOnly, CountFacts DEF BaseInvariant, Header
<1>2. InWorking' => InWorking
  <2>1. First \/ InOpening \/ InProjecting \/ InTurning \/ InWorking
    BY DEF Phases
  <2>2. InWorking' => ~First' /\ ~InOpening' /\ ~InProjecting' /\ ~InTurning'
    BY PhasesApart DEF First, InOpening, InProjecting, InTurning, InWorking, MainPlaces, LatePlaces, LateStages
  <2> QED BY <2>1, <2>2, ThreadStaysInPhase
<1>3. CASE s = "motion"
  BY <1>1, <1>3 DEF Queued
<1>4. CASE s = "recon"
  <2>1. CASE InWorking'
    BY <1>2, <1>4, <2>1 DEF Queued
  <2>2. CASE ~InWorking' /\ pc'[Main] = <<"main", "startParse">>
    <3>1. ~First' /\ ~InOpening' /\ ~InProjecting'
      <4>1. BaseInvariant'
        BY NextIsBase DEF Next
      <4> QED BY <2>2, <4>1 DEF BaseInvariant, BeforeFirst, First, At, InOpening, InProjecting
    <3>2. InTurning \/ (InProjecting /\ pc'[Main] = <<"main", "queueParse">>)
      BY <2>2, <3>1, ThreadStaysInPhase DEF Phases
    <3>3. InTurning
      BY <2>2, <3>2
    <3>4. t # Main
      BY <3>3, ThreadStaysInPhase
    <3> QED BY <1>1, <1>4, <2>2, <3>4 DEF Queued
  <2> QED BY <1>4, <2>1, <2>2 DEF Queued
<1>5. CASE s \in {"lf", "cdef"}
  <2>1. InWorking' /\ pc'[Main] # <<"main", "queueFilters">>
    BY <1>5 DEF Queued
  <2>2. InWorking
    BY <1>2, <2>1
  <2>3. pc[Main] # <<"main", "queueFilters">>
    <3>1. CASE t # Main
      BY <1>1, <2>1, <3>1
    <3>2. CASE t = Main
      BY <2>2, <3>2, MainLateMove DEF LateStages
    <3> QED BY <3>1, <3>2
  <2> QED BY <1>5, <2>2, <2>3 DEF Queued
<1>6. CASE s = "lr"
  <2>1. /\ InWorking'
        /\ \/ pc'[Main][1] = "lr" \/ pc'[Main] \in {<<"main", "startLr">>, <<"main", "begin">>}
           \/ ~Header.upscale /\ pc'[Main][1] \in LateStages
    BY <1>1, <1>6 DEF Queued
  <2>2. InWorking
    BY <1>2, <2>1
  <2>3. \/ pc[Main][1] = "lr" \/ pc[Main] \in {<<"main", "startLr">>, <<"main", "begin">>}
        \/ ~Header.upscale /\ pc[Main][1] \in LateStages
    <3>1. CASE t # Main
      BY <1>1, <2>1, <3>1
    <3>2. CASE t = Main
      <4>1. CASE pc'[Main][1] = pc[Main][1] /\ pc[Main][1] \in LateStages
        BY <2>1, <4>1 DEF LateStages
      <4>2. CASE /\ pc[Main][1] \in {"parse", "recon", "lf"} /\ pc'[Main][1] \in {"recon", "lf", "cdef"}
        BY <2>1, <4>2 DEF LateStages
      <4>3. CASE /\ pc[Main][1] = "cdef"
                 /\ pc'[Main] = <<"main", IF Header.upscale THEN "queueLr" ELSE "startLr">>
        BY <2>1, <4>3 DEF LateStages
      <4>4. CASE pc[Main] = <<"lr", "spin">>
        BY <4>4
      <4> QED BY <2>2, <3>2, <4>1, <4>2, <4>3, <4>4, MainLateMove
    <3> QED BY <3>1, <3>2
  <2> QED BY <1>6, <2>2, <2>3 DEF Queued
<1> QED BY <1>3, <1>4, <1>5, <1>6 DEF Stages, RowStages, Filters

LEMMA NextRowOnly ==
    ASSUME NEW t \in Threads, ThreadStep(t), pc[t] # <<"recon", "claimRow">>
    PROVE  nextRow' = nextRow
<1>1. CASE IdleStep(t)
  BY <1>1, IdleStepOnly
<1>2. CASE ClaimMotionRow(t) \/ ProjectRow(t) \/ ClaimTile(t) \/ ParseRow(t) \/ PickTile(t)
  BY <1>2 DEF ClaimMotionRow, ProjectRow, ClaimTile, ParseRow, PickTile
<1>3. CASE ClaimTileRow(t)
  BY <1>3 DEF ClaimTileRow, At
<1>4. CASE \E s \in Filters : ClaimFilterRow(t, s)
  BY <1>4 DEF ClaimFilterRow
<1>5. CASE \E s \in RowStages : DoSuperblock(t, s) \/ FinishRow(t, s)
  BY <1>5 DEF DoSuperblock, FinishRow
<1> QED BY <1>1, <1>2, <1>3, <1>4, <1>5 DEF ThreadStep, IdleStep

\* A thread is through with a stage when it finds nothing left to take.
LEMMA BeyondBack ==
    ASSUME BaseInvariant, InWorking, InWorking', ~ended, NEW t \in Threads, ThreadStep(t),
           NEW s \in LateStages, Beyond(t, s)'
    PROVE  Beyond(t, s) \/ Exhausted(s)
<1>1. /\ Types /\ UNCHANGED <<stream, frame>> /\ Header' = Header /\ Main \in Threads
      /\ s \in Stages /\ s \notin {"motion"}
  BY ThreadStepOnly, CountFacts DEF BaseInvariant, Header, LateStages, Stages, RowStages, Filters
<1> DEFINE x == pc[t][1]
<1> HIDE DEF x
<1>2. pc[t] \in LatePlaces \cup Waiting("motion") \cup {<<"motion", "spin">>} \cup MainPlaces
  BY CountFacts DEF InWorking, Threads
<1>3. ASSUME NEW p \in {"start", "block", "claim", "claimRow", "flag", "run", "post"}, x \in LateStages, GoTo(t, <<x, p>>)
      PROVE  Beyond(t, s)
  <2>1. pc'[t] = <<x, p>>
    <3>1. <<x, p>> \in Places
      BY <1>3 DEF LateStages, Places, Stages, RowStages, Filters, Steps
    <3> QED BY <1>1, <1>3, <3>1, MoveFacts
  <2>2. x \in Later(s)
    BY <1>3, <2>1 DEF Beyond, Rest, Resting, Ends, Waiting, LateStages
  <2> QED BY <2>2 DEF Beyond, x
<1>4. ASSUME NEW y \in LateStages, x \in LateStages, GoTo(t, <<y, "start">>), Later(x) = {y} \cup Later(y), Exhausted(x)
      PROVE  Beyond(t, s) \/ Exhausted(s)
  <2>1. pc'[t] = <<y, "start">>
    <3>1. <<y, "start">> \in Places
      BY <1>4 DEF LateStages, Places, Stages, RowStages, Filters, Steps
    <3> QED BY <1>1, <1>4, <3>1, MoveFacts
  <2>2. y \in Later(s)
    BY <1>4, <2>1 DEF Beyond, Rest, Resting, Ends, Waiting, LateStages
  <2>3. s = x \/ x \in Later(s)
    BY <1>4, <2>2 DEF Later, LateStages
  <2> QED BY <1>4, <2>3 DEF Beyond, x
<1>5. CASE CheckStart(t) \/ Block(t)
  <2>1. pc[t][2] \in {"start", "block"}
    BY <1>5 DEF CheckStart, Block
  <2>2. pc[t] \in Waiting("motion") \/ x \in LateStages
    BY <1>2, <2>1 DEF LatePlaces, MainPlaces, x
  <2>3. CASE pc[t] \in Waiting("motion")
    BY <2>3 DEF Beyond, Rest, Resting
  <2>4. CASE x \in LateStages
    BY <1>3, <1>5, <2>4 DEF CheckStart, Block, x
  <2> QED BY <2>2, <2>3, <2>4
<1>6. CASE /\ x = "motion"
           /\ ClaimMotionRow(t) \/ ProjectRow(t) \/ Arrive(t, "motion") \/ SpinEnds(t, "motion")
  <2>1. pc[t] = <<"motion", "spin">> /\ t # Main
    <3>1. pc[t][2] \notin {"start", "block"}
      BY <1>6, AtPlace DEF ClaimMotionRow, ProjectRow, Arrive, SpinEnds
    <3> QED BY <1>2, <1>6, <3>1 DEF LatePlaces, MainPlaces, LateStages, Waiting, x, InWorking
  <2>2. SpinEnds(t, "motion")
    BY <1>6, <2>1 DEF ClaimMotionRow, ProjectRow, Arrive, At
  <2>3. GoTo(t, <<"parse", "start">>) /\ <<"parse", "start">> \in Places
    BY <2>1, <2>2 DEF SpinEnds, AfterStage, Places, Steps, Stages
  <2>4. pc'[t] = <<"parse", "start">>
    BY <1>1, <2>3, MoveFacts
  <2> QED BY <2>4 DEF Beyond, Rest, Resting, Ends, Waiting, Later, LateStages
<1>7. CASE x = "parse" /\ (ClaimTile(t) \/ StartRecon(t) \/ ParseRow(t) \/ TileParsed(t))
  <2>1. CASE \E p \in {"flag", "run", "post", "claim"} : GoTo(t, <<"parse", p>>)
    BY <1>3, <1>7, <2>1 DEF LateStages
  <2>2. CASE ClaimTile(t) /\ ~(next["parse"] < Len(Tiles))
    <3>1. GoTo(t, <<"recon", "start">>)
      BY <2>2 DEF ClaimTile, AfterStage
    <3>2. Exhausted("parse")
      <4>1. next["parse"] \in Nat /\ Len(Tiles) \in Nat
        BY <1>1, FrameFacts, StageFacts DEF Types, InWorking
      <4> QED BY <2>2, <4>1 DEF Exhausted, Filters
    <3> QED BY <1>4, <1>7, <3>1, <3>2 DEF LateStages, Later
  <2> QED BY <1>7, <2>1, <2>2 DEF ClaimTile, StartRecon, ParseRow, TileParsed
<1>8. CASE x = "recon" /\ (PickTile(t) \/ ClaimTileRow(t) \/ DoSuperblock(t, "recon") \/ FinishRow(t, "recon"))
  <2>1. CASE \E p \in {"claimRow", "run", "claim"} : GoTo(t, <<"recon", p>>)
    BY <1>3, <1>8, <2>1 DEF LateStages
  <2>2. CASE GoTo(t, AfterStage(t, "recon")) /\ next["recon"] = Len(Tiles) /\ Unfinished = {}
    <3>1. GoTo(t, <<"lf", "start">>)
      BY <2>2 DEF AfterStage
    <3>2. Exhausted("recon")
      BY <2>2 DEF Exhausted, Filters
    <3> QED BY <1>4, <1>8, <3>1, <3>2 DEF LateStages, Later
  <2>3. CASE DoSuperblock(t, "recon")
    BY <1>1, <2>3 DEF DoSuperblock, Beyond, Rest
  <2> QED BY <1>8, <2>1, <2>2, <2>3 DEF PickTile, ClaimTileRow, FinishRow
<1>9. CASE x \in Filters /\ (ClaimFilterRow(t, x) \/ DoSuperblock(t, x) \/ FinishRow(t, x))
  <2>0. x \in LateStages
    BY <1>9 DEF LateStages, Filters
  <2>1. CASE \E p \in {"run", "claim"} : GoTo(t, <<x, p>>)
    BY <1>3, <2>0, <2>1
  <2>2. CASE ClaimFilterRow(t, x) /\ ~(next[x] < Rows)
    <3>1. Exhausted(x)
      <4>1. next[x] \in Nat /\ Rows \in Nat
        BY <1>1, <2>0, FrameFacts DEF Types, InWorking, LateStages, Stages, RowStages, Filters
      <4>2. x \notin {"motion", "parse", "recon"}
        BY <1>9 DEF Filters
      <4>3. next[x] >= Rows
        BY <2>2, <4>1
      <4> QED BY <1>9, <4>2, <4>3 DEF Exhausted
    <3>2. CASE x = "lf"
      <4>1. GoTo(t, <<"cdef", "start">>)
        BY <2>2, <3>2 DEF ClaimFilterRow, AfterStage, Barriers
      <4> QED BY <1>4, <2>0, <3>1, <3>2, <4>1 DEF LateStages, Later
    <3>3. CASE x \in {"cdef", "lr"}
      <4>1. GoTo(t, <<x, "count">>) /\ <<x, "count">> \in Places
        BY <2>2, <3>3 DEF ClaimFilterRow, Barriers, Places, Stages, RowStages, Filters, Steps
      <4>2. pc'[t] = <<x, "count">>
        BY <1>1, <4>1, MoveFacts
      <4>3. x \in Later(s) \/ x = s
        BY <3>3, <4>2 DEF Beyond, Rest, Resting, Ends, Waiting
      <4> QED BY <3>1, <4>3 DEF Beyond, x
    <3> QED BY <1>9, <3>2, <3>3 DEF Filters
  <2>3. CASE DoSuperblock(t, x)
    BY <1>1, <2>3 DEF DoSuperblock, Beyond, Rest
  <2>4. x # "recon"
    BY <1>9 DEF Filters
  <2> QED BY <1>9, <2>1, <2>2, <2>3, <2>4 DEF ClaimFilterRow, FinishRow
<1>10. CASE Arrive(t, "cdef") \/ SpinEnds(t, "cdef")
  <2>1. pc[t] \in {<<"cdef", "count">>, <<"cdef", "spin">>}
    BY <1>10 DEF Arrive, SpinEnds, At
  <2>2. CASE s # "lr"
    BY <2>1, <2>2 DEF Beyond, Later, LateStages
  <2>3. CASE s = "lr"
    <3>1. GoTo(t, <<"cdef", "spin">>) \/ GoTo(t, AfterStage(t, "cdef"))
      BY <1>10 DEF Arrive, SpinEnds
    <3>2. AfterStage(t, "cdef") \in {<<"lr", "start">>, <<"main", "queueLr">>, <<"main", "startLr">>}
      BY DEF AfterStage
    <3>3. {<<"cdef", "spin">>, <<"lr", "start">>, <<"main", "queueLr">>, <<"main", "startLr">>} \subseteq Places
      BY DEF Places, Stages, RowStages, Filters, Steps, MainSteps
    <3>4. pc'[t] \in {<<"cdef", "spin">>, <<"lr", "start">>, <<"main", "queueLr">>, <<"main", "startLr">>}
      BY <1>1, <3>1, <3>2, <3>3, MoveFacts
    <3> QED BY <2>3, <3>4 DEF Beyond, Rest, Resting, Ends, Waiting, Later
  <2> QED BY <2>2, <2>3
<1>11. CASE Arrive(t, "lr") \/ SpinEnds(t, "lr") \/ ClearFlags(t)
  <2>1. pc[t] \in {<<"lr", "count">>, <<"lr", "spin">>, <<"lr", "clear">>}
    BY <1>11 DEF Arrive, SpinEnds, ClearFlags, At
  <2> QED BY <2>1 DEF Beyond, Later, LateStages, Rest, Resting, Ends
<1>12. ~Exit(t)
  BY <1>2 DEF Exit, At, LatePlaces, StepsNow, MainPlaces, Waiting
<1> QED
  <2>1. \/ CheckStart(t) \/ Block(t)
        \/ /\ x = "motion"
           /\ ClaimMotionRow(t) \/ ProjectRow(t) \/ Arrive(t, "motion") \/ SpinEnds(t, "motion")
        \/ x = "parse" /\ (ClaimTile(t) \/ StartRecon(t) \/ ParseRow(t) \/ TileParsed(t))
        \/ x = "recon" /\ (PickTile(t) \/ ClaimTileRow(t) \/ DoSuperblock(t, "recon") \/ FinishRow(t, "recon"))
        \/ x \in Filters /\ \/ ClaimFilterRow(t, x) \/ DoSuperblock(t, x) \/ FinishRow(t, x)
                            \/ x \in Barriers /\ (Arrive(t, x) \/ SpinEnds(t, x))
                            \/ x = "lr" /\ (ClearFlags(t) \/ Exit(t))
    BY StepStage DEF x
  <2> QED BY <1>5, <1>6, <1>7, <1>8, <1>9, <1>10, <1>11, <1>12, <2>1 DEF Filters, Barriers

LEMMA QueuedBegun ==
    ASSUME BaseInvariant, NEW s \in Stages \ {"parse"}, Queued(s)
    PROVE  frame > 0
<1>1. stream \in Streams /\ frame \in 0 .. Len(stream) /\ stream \in Seq(Frames)
  BY DecoderAssumption DEF BaseInvariant, Types
<1>2. frame \in Nat
  BY <1>1
<1>3. frame = 0 => pc[Main] = <<"main", "begin">>
  BY DEF BaseInvariant, BeforeFirst, First, At
<1>4. InWorking \/ pc[Main] = <<"main", "startParse">> \/ frame > 0
  BY DEF Queued, Stages, RowStages, Filters
<1> QED BY <1>2, <1>3, <1>4 DEF InWorking

\* While the motion field is projected a thread stops when all rows are taken.
LEMMA ProjectedBack ==
    ASSUME BaseInvariant, InProjecting, ~ended, NEW t \in Threads, ThreadStep(t),
           Projected(t)' \/ At(t, "motion", "count")'
    PROVE  Projected(t) \/ At(t, "motion", "count") \/ Exhausted("motion")
<1>1. Types /\ t \in Threads
  BY DEF BaseInvariant
<1>2. pc[t] \in ({"motion"} \X StepsNow) \cup Waiting("parse") \cup {<<"lr", "spin">>}
  BY CountFacts DEF InProjecting, Threads
<1>3. ASSUME NEW p \in {"start", "block", "claim", "run"}, GoTo(t, <<"motion", p>>) PROVE FALSE
  <2>1. <<"motion", p>> \in Places
    BY DEF Places, Stages, Steps
  <2>2. pc'[t] = <<"motion", p>>
    BY <1>1, <1>3, <2>1, MoveFacts
  <2> QED BY <2>2 DEF Projected, At
<1>4. CASE pc[t] \in Waiting("parse") \/ pc[t] \in {<<"motion", "spin">>, <<"motion", "count">>}
  BY <1>4 DEF Projected, At, Waiting
<1>5. CASE pc[t] = <<"lr", "spin">>
  <2>1. SpinEnds(t, "lr") /\ t # Main
    BY <1>5, StepPlace DEF SpinEnds, At, Barriers, InProjecting
  <2>2. GoTo(t, <<"motion", "start">>)
    BY <1>1, <2>1 DEF SpinEnds, AfterStage
  <2> QED BY <1>3, <2>2
<1>6. CASE pc[t] \in {"motion"} \X (StepsNow \ {"spin", "count"})
  <2>1. pc[t][1] = "motion" /\ pc[t][2] \notin {"spin", "count"}
    BY <1>6
  <2>2. ~(CheckStart(t) \/ Block(t))
    BY <1>3, <2>1 DEF CheckStart, Block
  <2>3. ClaimMotionRow(t) \/ ProjectRow(t)
    BY <2>1, <2>2, StepStage DEF Filters, Arrive, SpinEnds, At
  <2>4. ~ProjectRow(t) /\ ~(Header.motion /\ ~ended /\ next["motion"] < Rows)
    BY <1>3, <2>3 DEF ProjectRow, ClaimMotionRow
  <2>5. next["motion"] \in Nat /\ Rows \in Nat
    BY <1>1, FrameFacts, StageFacts DEF Types, InProjecting
  <2> QED BY <2>4, <2>5 DEF Exhausted, Filters
<1> QED BY <1>2, <1>4, <1>5, <1>6 DEF StepsNow

LEMMA ThreadKeepsWork ==
    ASSUME Hinted, BaseInvariant, Phases, Work, ~ended, NEW t \in Threads, ThreadStep(t)
    PROVE  Work'
<1>1. /\ Types /\ UNCHANGED <<stream, frame, ended>> /\ \A u \in Threads : u # t => pc'[u] = pc[u]
      /\ BaseInvariant' /\ Phases' /\ Next
  BY ThreadStepOnly, NextIsBase, NextKeepsPhases DEF BaseInvariant, Next
<1>2. /\ InOpening' => InOpening
      /\ InProjecting' => InProjecting
      /\ InTurning' => InTurning \/ (InProjecting /\ \A u \in Threads : Projected(u))
      /\ InWorking' => InWorking
      /\ InWorking => t # Main \/ InWorking'
      /\ InTurning => t # Main
  <2>1. First \/ InOpening \/ InProjecting \/ InTurning \/ InWorking
    BY DEF Phases
  <2>2. /\ InOpening' => ~First' /\ ~InProjecting' /\ ~InTurning' /\ ~InWorking'
        /\ InProjecting' => ~First' /\ ~InOpening' /\ ~InTurning' /\ ~InWorking'
        /\ InTurning' => ~First' /\ ~InOpening' /\ ~InProjecting' /\ ~InWorking'
        /\ InWorking' => ~First' /\ ~InOpening' /\ ~InProjecting' /\ ~InTurning'
    BY DEF First, InOpening, InProjecting, InTurning, InWorking, MainPlaces, LatePlaces, LateStages
  <2> QED BY <2>1, <2>2, ThreadStaysInPhase
<1>3. ASSUME frame > 0, NEW s \in Stages, Exhausted(s) PROVE Exhausted(s)'
  BY <1>1, <1>3, ThreadKeepsExhausted
<1>4. ASSUME NEW s \in Stages \ {"parse"}, Queued(s)' PROVE Covered(s)'
  <2>1. Queued(s)
    BY <1>4, QueuedBack
  <2>2. frame > 0
    BY <2>1, QueuedBegun
  <2>3. Covered(s)
    BY <2>1 DEF Work
  <2> QED BY <2>2, <2>3, ThreadKeepsCovered
<1>5. ASSUME InOpening' \/ InProjecting' \/ InTurning' PROVE \A k \in DOMAIN nextRow' : nextRow'[k] = 0
  <2>1. InOpening \/ InProjecting \/ InTurning
    BY <1>2, <1>5
  <2>2. pc[t] # <<"recon", "claimRow">>
    BY <2>1, CountFacts DEF InOpening, InProjecting, InTurning, Threads, Ends, Waiting
  <2>3. nextRow' = nextRow
    BY <2>2, NextRowOnly
  <2> QED BY <2>1, <2>3 DEF Work
<1>6. ASSUME InProjecting', NEW u \in Threads, (Projected(u) \/ At(u, "motion", "count"))' PROVE Exhausted("motion")'
  <2>1. InProjecting
    BY <1>2, <1>6
  <2>2. CASE u = t
    <3>1. Projected(t) \/ At(t, "motion", "count") \/ Exhausted("motion")
      BY <1>6, <2>1, <2>2, ProjectedBack
    <3>2. Exhausted("motion")
      BY <2>1, <3>1 DEF Work
    <3> QED BY <1>3, <2>1, <3>2, StageFacts DEF InProjecting
  <2>3. CASE u # t
    <3>1. Projected(u) \/ At(u, "motion", "count")
      BY <1>1, <1>6, <2>3 DEF Projected, At
    <3>2. Exhausted("motion")
      BY <2>1, <3>1 DEF Work
    <3> QED BY <1>3, <2>1, <3>2, StageFacts DEF InProjecting
  <2> QED BY <2>2, <2>3
<1>7. ASSUME InTurning' \/ InWorking' PROVE Exhausted("motion")'
  <2>1. frame > 0
    BY <1>2, <1>7 DEF InProjecting, InTurning, InWorking
  <2>2. Exhausted("motion")
    BY <1>2, <1>7, CountFacts DEF Work
  <2> QED BY <1>3, <2>1, <2>2, StageFacts
<1>8. ASSUME InWorking', NEW u \in Threads, NEW s \in LateStages, Beyond(u, s)' PROVE Exhausted(s)'
  <2>1. InWorking /\ frame > 0 /\ s \in Stages
    BY <1>2, <1>8 DEF InWorking, LateStages, Stages, RowStages, Filters
  <2>2. Beyond(u, s) \/ Exhausted(s)
    <3>1. CASE u = t
      BY <1>8, <2>1, <3>1, BeyondBack
    <3>2. CASE u # t
      <4>1. pc'[u] = pc[u] /\ Header' = Header
        BY <1>1, <3>2 DEF Header
      <4> QED BY <1>8, <4>1 DEF Beyond, Rest
    <3> QED BY <3>1, <3>2
  <2>3. Exhausted(s)
    BY <2>1, <2>2 DEF Work
  <2> QED BY <1>3, <2>1, <2>3
<1> QED BY <1>4, <1>5, <1>6, <1>7, <1>8 DEF Work

LEMMA QueuedFacts ==
    /\ Stages \ {"parse"} = {"motion", "recon", "lf", "cdef", "lr"}
    /\ (Queued("motion") <=> frame > 0) /\ (Queued("motion")' <=> frame' > 0)
    /\ Queued("recon") <=> InWorking \/ pc[Main] = <<"main", "startParse">>
    /\ Queued("recon")' <=> InWorking' \/ pc'[Main] = <<"main", "startParse">>
    /\ Queued("lf") <=> InWorking /\ pc[Main] # <<"main", "queueFilters">>
    /\ Queued("lf")' <=> InWorking' /\ pc'[Main] # <<"main", "queueFilters">>
    /\ Queued("cdef") <=> InWorking /\ pc[Main] # <<"main", "queueFilters">>
    /\ Queued("cdef")' <=> InWorking' /\ pc'[Main] # <<"main", "queueFilters">>
    /\ Queued("lr") <=> /\ InWorking
                        /\ \/ pc[Main][1] = "lr" \/ pc[Main] \in {<<"main", "startLr">>, <<"main", "begin">>}
                           \/ ~Header.upscale /\ pc[Main][1] \in LateStages
    /\ Queued("lr")' <=> /\ InWorking'
                         /\ \/ pc'[Main][1] = "lr" \/ pc'[Main] \in {<<"main", "startLr">>, <<"main", "begin">>}
                            \/ ~Header'.upscale /\ pc'[Main][1] \in LateStages
<1>1. Stages \ {"parse"} = {"motion", "recon", "lf", "cdef", "lr"}
  BY DEF Stages, RowStages, Filters
<1>2. (Queued("motion") <=> frame > 0) /\ (Queued("motion")' <=> frame' > 0)
  BY DEF Queued
<1>3. Queued("recon") <=> InWorking \/ pc[Main] = <<"main", "startParse">>
  BY DEF Queued
<1>4. Queued("recon")' <=> InWorking' \/ pc'[Main] = <<"main", "startParse">>
  BY DEF Queued
<1>5. /\ Queued("lf") <=> InWorking /\ pc[Main] # <<"main", "queueFilters">>
      /\ Queued("lf")' <=> InWorking' /\ pc'[Main] # <<"main", "queueFilters">>
      /\ Queued("cdef") <=> InWorking /\ pc[Main] # <<"main", "queueFilters">>
      /\ Queued("cdef")' <=> InWorking' /\ pc'[Main] # <<"main", "queueFilters">>
  BY DEF Queued
<1>6. Queued("lr") <=> /\ InWorking
                      /\ \/ pc[Main][1] = "lr" \/ pc[Main] \in {<<"main", "startLr">>, <<"main", "begin">>}
                         \/ ~Header.upscale /\ pc[Main][1] \in LateStages
  BY DEF Queued
<1>7. Queued("lr")' <=> /\ InWorking'
                       /\ \/ pc'[Main][1] = "lr" \/ pc'[Main] \in {<<"main", "startLr">>, <<"main", "begin">>}
                          \/ ~Header'.upscale /\ pc'[Main][1] \in LateStages
  BY DEF Queued
<1> QED BY <1>1, <1>2, <1>3, <1>4, <1>5, <1>6, <1>7

\* A stage is queued with nothing taken.
LEMMA NothingClaimed ==
    ASSUME NEW s \in Stages, rowMap'[s] = {}, Claimed(s)' = {}
    PROVE  Covered(s)'
BY DEF Covered

LEMMA CoveredKept ==
    ASSUME UNCHANGED <<stream, frame, job, nextRow>>, NEW s \in Stages, Covered(s),
           next'[s] = next[s], rowMap'[s] = rowMap[s], s \in RowStages => progress'[s] = progress[s],
           \A u \in Threads : At(u, s, "run") => At(u, s, "run")'
    PROVE  Covered(s)'
<1>1. Claimed(s)' = Claimed(s)
  BY DEF Claimed, Jobs
<1>2. rowMap'[s] \subseteq Jobs(s)
  BY DEF Covered
<1> QED BY <1>1, <1>2, CoveredStays

\* Between the stages Main alone has something to do, and leaves the rows alone
\* other than those it queues.
LEMMA MainKeepsWork ==
    ASSUME Hinted, BaseInvariant, Phases, Work, MainStep, ~ended'
    PROVE  Work'
<1>1. /\ Types /\ Next /\ BaseInvariant' /\ Phases' /\ ~ended /\ Main \in Threads /\ Main \notin Workers
  BY NextIsBase, NextKeepsPhases, EndedStays, CountFacts DEF BaseInvariant, Next
<1>2. pc[Main][1] # "close"
  BY <1>1 DEF Phases, First, BaseInvariant, BeforeFirst, At, InOpening, InProjecting, InTurning, InWorking,
     MainPlaces, LatePlaces, LateStages
<1>3. /\ First \/ InOpening \/ InProjecting \/ InTurning \/ InWorking
      /\ First' \/ InOpening' \/ InProjecting' \/ InTurning' \/ InWorking'
  BY <1>1 DEF Phases
<1>4. ASSUME NEW place \in Places, GoTo(Main, place)
      PROVE  pc'[Main] = place /\ \A u \in Threads : u # Main => pc'[u] = pc[u]
  BY <1>1, <1>4, MoveFacts
<1>5. \A p \in MainSteps : <<"main", p>> \in Places
  BY DEF Places
<1>6. {<<"motion", "start">>, <<"parse", "start">>, <<"lr", "start">>} \subseteq Places
  BY DEF Places, Stages, RowStages, Filters, Steps
<1>7. \A w \in Workers : w # Main /\ w \in Threads
  BY CountFacts
<1>8. CASE Begin
  <2>1. /\ pc'[Main] = <<"main", "startMotion">> /\ frame' > 0
        /\ rowMap'["motion"] = {} /\ next'["motion"] = 0 /\ \A k \in DOMAIN nextRow' : nextRow'[k] = 0
    <3>1. frame \in Nat
      BY <1>1, FirstFrameFacts DEF Types
    <3> QED BY <1>1, <1>4, <1>5, <1>8, <3>1, StageFacts DEF Begin, Types, MainSteps
  <2>2. ~InProjecting' /\ ~InTurning' /\ ~InWorking'
    BY <2>1 DEF InProjecting, InTurning, InWorking, MainPlaces, LatePlaces, LateStages
  <2>3. ASSUME NEW s \in Stages \ {"parse"}, Queued(s)' PROVE Covered(s)'
    <3>1. s = "motion"
      BY <2>1, <2>2, <2>3, QueuedFacts
    <3>2. Claimed(s)' = {}
      <4>1. \A j \in Jobs(s)' : j[2] \in Nat
        <5>1. Jobs(s)' = Jobs(s) /\ stream \in Streams
          BY <1>1, <1>8 DEF Begin, Types, Jobs
        <5> QED BY <3>1, <5>1, JobsFacts, StageFacts
      <4>2. \A j \in Jobs(s)' : ~(j[2] < 0)
        BY <4>1
      <4> QED BY <2>1, <3>1, <4>2 DEF Claimed
    <3> QED BY <2>1, <3>1, <3>2, NothingClaimed
  <2> QED BY <2>1, <2>2, <2>3 DEF Work
<1>9. ASSUME UNCHANGED rowVars, UNCHANGED <<stream, frame, job>>, \A u \in Threads : u # Main => pc'[u] = pc[u],
             pc[Main][2] # "run", NEW s \in Stages, Queued(s) \/ s = "parse"
      PROVE  /\ s # "parse" => Covered(s)'
             /\ Exhausted(s) => Exhausted(s)'
  <2>1. UNCHANGED <<next, nextRow, progress, rowMap>>
    BY <1>9 DEF rowVars
  <2>2. \A u \in Threads : At(u, s, "run") => At(u, s, "run")'
    BY <1>9 DEF At
  <2>3. s # "parse" => Covered(s)
    BY <1>1, <1>9 DEF Work
  <2> QED BY <1>9, <2>1, <2>2, <2>3, CoveredKept, ExhaustedStays
<1>10. CASE StartMotion
  <2>1. /\ UNCHANGED rowVars /\ UNCHANGED <<stream, frame, job>> /\ UNCHANGED nextRow
        /\ pc[Main] = <<"main", "startMotion">> /\ pc'[Main] = <<"motion", "start">>
        /\ \A u \in Threads : u # Main => pc'[u] = pc[u]
    BY <1>4, <1>6, <1>10 DEF StartMotion, SetStart, At, rowVars
  <2>2. InOpening
    BY <1>1, <1>3, <2>1 DEF BaseInvariant, BeforeFirst, First, At, InProjecting, InTurning, InWorking, MainPlaces, LatePlaces, LateStages
  <2>3. ~InTurning' /\ ~InWorking'
    BY <2>1 DEF InTurning, InWorking, MainPlaces, LatePlaces, LateStages
  <2>4. ASSUME NEW s \in Stages \ {"parse"}, Queued(s)' PROVE Covered(s)'
    <3>1. s = "motion"
      BY <2>1, <2>3, <2>4, QueuedFacts
    <3>2. Queued(s) /\ pc[Main][2] # "run"
      BY <2>1, <2>2, <3>1, QueuedFacts DEF InOpening
    <3> QED BY <1>9, <2>1, <3>2
  <2>5. \A u \in Threads : ~Projected(u)' /\ ~At(u, "motion", "count")'
    BY <2>1, <2>2, <1>7 DEF InOpening, Projected, At, Ends, Waiting, Threads
  <2> QED BY <1>1, <2>1, <2>2, <2>3, <2>4, <2>5 DEF Work
<1>11. CASE Queue /\ At(Main, "main", "queueParse")
  <2>1. /\ QueueParse /\ pc'[Main] = <<"main", "startParse">> /\ pc[Main] = <<"main", "queueParse">>
        /\ UNCHANGED <<stream, frame, job, nextRow, progress>>
        /\ \A u \in Threads : u # Main => pc'[u] = pc[u]
    BY <1>4, <1>5, <1>11, AtPlace DEF Queue, At, MainSteps
  <2>2. InTurning
    BY <1>1, <1>3, <2>1 DEF BaseInvariant, BeforeFirst, First, At, InOpening, InProjecting, InWorking, MainPlaces, LatePlaces, LateStages
  <2>3. ~InOpening' /\ ~InProjecting' /\ ~InWorking'
    BY <2>1 DEF InOpening, InProjecting, InWorking, MainPlaces, LatePlaces, LateStages
  <2>4. rowMap'["recon"] = {} /\ rowMap'["motion"] = rowMap["motion"] /\ next'["motion"] = next["motion"]
    BY <1>1, <2>1, StageFacts DEF QueueParse, Types
  <2>5. \A k \in DOMAIN nextRow : nextRow[k] = 0
    BY <1>1, <2>2 DEF Work
  <2>6. ASSUME NEW s \in Stages \ {"parse"}, Queued(s)' PROVE Covered(s)'
    <3>1. CASE s = "motion"
      <4>1. Covered(s)
        BY <1>1, <2>2, <3>1, QueuedFacts DEF Work, InTurning
      <4>2. \A u \in Threads : At(u, s, "run") => At(u, s, "run")'
        BY <2>1 DEF At
      <4> QED BY <2>1, <2>4, <3>1, <4>1, <4>2, CoveredKept, StageFacts
    <3>2. CASE s = "recon"
      <4>1. \A j \in Jobs(s)' : j[1] \in DOMAIN nextRow /\ j[2] \in Nat
        BY <1>1, <2>1, <3>2, JobsFacts DEF Types, Jobs
      <4>2. \A j \in Jobs(s)' : ~(j[2] < nextRow'[j[1]])
        BY <2>1, <2>5, <4>1
      <4>3. Claimed(s)' = {}
        BY <3>2, <4>2 DEF Claimed
      <4> QED BY <2>4, <3>2, <4>3, NothingClaimed
    <3>3. s = "motion" \/ s = "recon"
      BY <2>3, <2>6, QueuedFacts
    <3> QED BY <3>1, <3>2, <3>3
  <2>7. Exhausted("motion")'
    BY <1>1, <2>1, <2>2, <2>4, ExhaustedStays, StageFacts DEF Work
  <2> QED BY <2>1, <2>3, <2>5, <2>6, <2>7 DEF Work
<1>12. CASE StartParse
  <2>1. /\ UNCHANGED rowVars /\ UNCHANGED <<stream, frame, job>>
        /\ pc[Main] = <<"main", "startParse">> /\ pc'[Main] = <<"main", "queueFilters">>
        /\ \A u \in Threads : u # Main => pc'[u] = pc[u]
    BY <1>4, <1>5, <1>12 DEF StartParse, SetStart, At, MainSteps
  <2>2. InTurning
    BY <1>1, <1>3, <2>1 DEF BaseInvariant, BeforeFirst, First, At, InOpening, InProjecting, InWorking, MainPlaces, LatePlaces, LateStages
  <2>3. ~InOpening' /\ ~InProjecting' /\ ~InTurning'
    BY <2>1 DEF InOpening, InProjecting, InTurning
  <2>4. ASSUME NEW s \in Stages \ {"parse"}, Queued(s)' PROVE Covered(s)'
    <3>1. Queued(s)
      BY <2>1, <2>2, <2>4, QueuedFacts DEF InTurning, LateStages
    <3>2. pc[Main][2] # "run"
      BY <2>1
    <3> QED BY <1>9, <2>1, <3>1, <3>2
  <2>5. Exhausted("motion")'
    <3>1. Exhausted("motion") /\ UNCHANGED <<next, nextRow>>
      BY <1>1, <2>1, <2>2 DEF Work, rowVars
    <3> QED BY <2>1, <3>1, StageFacts, ExhaustedStays
  <2>6. ASSUME NEW u \in Threads, NEW s \in LateStages PROVE ~Beyond(u, s)'
    <3>1. pc'[u] \in Waiting("parse") \cup {<<"motion", "spin">>, <<"main", "queueFilters">>}
      BY <1>7, <2>1, <2>2 DEF Threads, InTurning
    <3> QED BY <3>1 DEF Beyond, Rest, Resting, Ends, Waiting, Later, LateStages
  <2> QED BY <2>3, <2>4, <2>5, <2>6 DEF Work
<1>13. ASSUME InWorking, UNCHANGED <<stream, frame>>, NEW s \in LateStages, NEW w \in Workers, pc'[w] = pc[w], Beyond(w, s)'
       PROVE  /\ Exhausted(s)
              /\ s \in Filters => HasStarted(s)
  <2>1. Beyond(w, s) /\ w # Main /\ w \in Threads
    BY <1>7, <1>13 DEF Beyond, Rest, Header
  <2>2. s \in Filters => Into(w, s)
    BY <2>1 DEF Beyond, Into, Waiting
  <2> QED BY <1>1, <1>13, <2>1, <2>2 DEF Work, InWorking
<1>14. CASE StartFilters
  <2>1. /\ UNCHANGED rowVars /\ UNCHANGED <<stream, frame, job>>
        /\ \A u \in Threads : u # Main => pc'[u] = pc[u]
        /\ \/ pc[Main] = <<"main", "startLf">> /\ pc'[Main] = <<"main", "startCdef">>
           \/ /\ pc[Main] = <<"main", "startCdef">>
              /\ pc'[Main] = IF Header.upscale THEN <<"parse", "start">> ELSE <<"main", "queueLr">>
           \/ pc[Main] = <<"main", "startLr">> /\ pc'[Main] = <<"lr", "start">>
    BY <1>4, <1>5, <1>6, <1>14 DEF StartFilters, SetStart, AfterStart, At, MainSteps
  <2>2. InWorking /\ InWorking'
    BY <1>1, <1>3, <2>1 DEF BaseInvariant, BeforeFirst, First, At, InOpening, InProjecting, InTurning
  <2>3. ~InOpening' /\ ~InProjecting' /\ ~InTurning' /\ Header' = Header
    BY <2>1, <2>2 DEF InOpening, InProjecting, InTurning, InWorking, MainPlaces, LatePlaces, LateStages, Header
  <2>4. ASSUME NEW s \in Stages \ {"parse"}, Queued(s)' PROVE Covered(s)'
    <3>1. Queued(s)
      BY <2>1, <2>2, <2>3, <2>4, QueuedFacts DEF LateStages
    <3>2. pc[Main][2] # "run"
      BY <2>1
    <3> QED BY <1>9, <2>1, <3>1, <3>2
  <2>5. UNCHANGED <<next, nextRow>>
    BY <2>1 DEF rowVars
  <2>6. Exhausted("motion")'
    BY <1>1, <2>1, <2>2, <2>5, StageFacts, ExhaustedStays DEF Work
  <2>7. ASSUME NEW u \in Threads, NEW s \in LateStages, Beyond(u, s)' PROVE Exhausted(s)'
    <3>1. Exhausted(s)
      <4>1. CASE u = Main
        <5>1. Beyond(Main, s)
          BY <2>1, <2>3, <2>7, <4>1 DEF Beyond, Rest, Resting, Ends, Waiting, Later, LateStages
        <5> QED BY <1>1, <2>2, <5>1 DEF Work
      <4>2. CASE u # Main
        BY <1>13, <2>1, <2>2, <2>7, <4>2 DEF Threads
      <4> QED BY <4>1, <4>2
    <3>2. s \in Stages
      BY DEF LateStages, Stages, RowStages, Filters
    <3> QED BY <2>1, <2>5, <3>1, <3>2, ExhaustedStays
  <2> QED BY <2>3, <2>4, <2>6, <2>7 DEF Work
<1>15. ASSUME NEW S \in SUBSET Filters, QueueFilters(S), UNCHANGED <<stream, frame, job, nextRow>>, InWorking, InWorking',
              \A u \in Threads : u # Main => pc'[u] = pc[u], pc[Main][2] # "run",
              \A s \in S : ~HasStarted(s), \A s \in LateStages : Beyond(Main, s)' => Beyond(Main, s) /\ s \notin S,
              \A s \in Stages \ {"parse"} : Queued(s)' => Queued(s) \/ s \in S
       PROVE  Work'
  <2>1. ~InOpening' /\ ~InProjecting' /\ ~InTurning'
    BY <1>15 DEF InOpening, InProjecting, InTurning, InWorking, MainPlaces, LatePlaces, LateStages
  <2>2. \A s \in Stages : /\ s \in S => next'[s] = 0 /\ rowMap'[s] = {}
                          /\ s \notin S => /\ next'[s] = next[s]
                                           /\ s # "parse" => rowMap'[s] = rowMap[s]
                                           /\ s \in RowStages => progress'[s] = progress[s]
    <3>1. Filters \subseteq Stages \ {"parse", "recon", "motion"} /\ DOMAIN rowMap = Stages \ {"parse"}
      BY <1>1 DEF Filters, Stages, RowStages, Types
    <3> QED BY <1>15, <3>1 DEF QueueFilters
  <2>3. ASSUME NEW s \in Stages \ {"parse"}, Queued(s)' PROVE Covered(s)'
    <3>1. CASE s \in S
      <4>1. \A j \in Jobs(s)' : j[2] \in Nat
        BY <1>1, <1>15, <3>1, JobsFacts DEF Types, Jobs
      <4>2. \A j \in Jobs(s)' : ~(j[2] < 0)
        BY <4>1
      <4>3. Claimed(s)' = {}
        BY <1>15, <2>2, <3>1, <4>2 DEF Claimed, Filters
      <4> QED BY <2>2, <3>1, <4>3, NothingClaimed
    <3>2. CASE s \notin S
      <4>1. Covered(s)
        BY <1>1, <1>15, <2>3, <3>2 DEF Work
      <4>2. \A u \in Threads : At(u, s, "run") => At(u, s, "run")'
        BY <1>15 DEF At
      <4> QED BY <1>15, <2>2, <3>2, <4>1, <4>2, CoveredKept
    <3> QED BY <3>1, <3>2
  <2>4. Exhausted("motion")'
    <3>1. "motion" \notin S /\ "motion" \in Stages /\ Exhausted("motion")
      BY <1>1, <1>15, StageFacts DEF Filters, Work
    <3> QED BY <1>15, <2>2, <3>1, ExhaustedStays
  <2>5. ASSUME NEW u \in Threads, NEW s \in LateStages, Beyond(u, s)' PROVE Exhausted(s)'
    <3>1. Exhausted(s) /\ s \notin S
      <4>1. CASE u = Main
        BY <1>1, <1>15, <2>5, <4>1 DEF Work
      <4>2. CASE u # Main
        <5>1. u \in Workers /\ pc'[u] = pc[u]
          BY <1>15, <4>2 DEF Threads
        <5> QED BY <1>13, <1>15, <2>5, <5>1
      <4> QED BY <4>1, <4>2
    <3>2. s \in Stages
      BY DEF LateStages, Stages, RowStages, Filters
    <3> QED BY <1>15, <2>2, <3>1, <3>2, ExhaustedStays
  <2> QED BY <2>1, <2>3, <2>4, <2>5 DEF Work
<1>16. CASE Queue /\ At(Main, "main", "queueFilters")
  <2>1. /\ QueueFilters({"lf", "cdef"}) /\ pc'[Main] = <<"main", "startLf">> /\ pc[Main] = <<"main", "queueFilters">>
        /\ UNCHANGED <<stream, frame, job, nextRow>>
        /\ \A u \in Threads : u # Main => pc'[u] = pc[u]
    BY <1>4, <1>5, <1>16, AtPlace DEF Queue, At, MainSteps
  <2>2. InWorking /\ InWorking'
    BY <1>1, <1>3, <2>1 DEF BaseInvariant, BeforeFirst, First, At, InOpening, InProjecting, InTurning
  <2>3. \A s \in {"lf", "cdef"} : ~HasStarted(s)
    BY <2>1 DEF HasStarted
  <2>4. \A s \in LateStages : ~Beyond(Main, s)'
    BY <2>1 DEF Beyond, Rest, Resting, Ends, Waiting, Later, LateStages
  <2>5. \A s \in Stages \ {"parse"} : Queued(s)' => Queued(s) \/ s \in {"lf", "cdef"}
    BY <2>1, <2>2, QueuedFacts DEF InWorking, LateStages
  <2> QED BY <1>15, <2>1, <2>2, <2>3, <2>4, <2>5 DEF Filters
<1>17. CASE Queue /\ At(Main, "main", "queueLr")
  <2>1. /\ QueueFilters({"lr"}) /\ pc[Main] = <<"main", "queueLr">>
        /\ pc'[Main] = IF Header.upscale THEN <<"main", "startLr">> ELSE <<"parse", "start">>
        /\ UNCHANGED <<stream, frame, job, nextRow>> /\ Header' = Header
        /\ \A u \in Threads : u # Main => pc'[u] = pc[u]
    BY <1>4, <1>5, <1>6, <1>17, AtPlace DEF Queue, At, MainSteps, Header
  <2>2. InWorking /\ InWorking'
    BY <1>1, <1>3, <2>1 DEF BaseInvariant, BeforeFirst, First, At, InOpening, InProjecting, InTurning
  <2>3. ~HasStarted("lr")
    BY <2>1 DEF HasStarted
  <2>4. \A s \in LateStages : Beyond(Main, s)' => Beyond(Main, s) /\ s # "lr"
    BY <2>1 DEF Beyond, Rest, Resting, Ends, Waiting, Later, LateStages
  <2>5. \A s \in Stages \ {"parse"} : Queued(s)' => Queued(s) \/ s = "lr"
    BY <2>1, <2>2, QueuedFacts DEF InWorking, LateStages
  <2> QED BY <1>15, <2>1, <2>2, <2>3, <2>4, <2>5 DEF Filters
<1> QED BY <1>1, <1>2, <1>8, <1>10, <1>11, <1>12, <1>14, <1>16, <1>17, MainPlace

-----------------------------------------------------------------------------
(* The decoder is closed when all has been done.                           *)

\* At the end of a frame all are through with all stages.
LEMMA AtTheEnd ==
    ASSUME BaseInvariant, Phases, Work, ~ended, At(Main, "main", "begin"), frame > 0
    PROVE  /\ InWorking /\ AllRest /\ \A s \in LateStages : Exhausted(s)
           /\ \A s \in RowStages : Queued(s) /\ Covered(s)
<1>1. pc[Main] = <<"main", "begin">> /\ Main \in Threads
  BY CountFacts DEF At
<1>2. InWorking
  BY <1>1 DEF Phases, First, InOpening, InProjecting, InTurning
<1>3. AllRest
  BY <1>1, <1>2 DEF InWorking
<1>4. \A s \in LateStages : Exhausted(s)
  BY <1>1, <1>2, <1>3 DEF Work, AllRest, Beyond
<1>5. Queued("recon") /\ Queued("lf") /\ Queued("cdef") /\ Queued("lr")
  BY <1>1, <1>2, QueuedFacts
<1>6. \A s \in RowStages : Queued(s) /\ s \in Stages \ {"parse"}
  BY <1>5 DEF RowStages, Stages, Filters
<1> QED BY <1>2, <1>3, <1>4, <1>6 DEF Work

LEMMA CloseEnds ==
    ASSUME BaseInvariant, Phases, Work, ~ended, Close
    PROVE  Closed'
<1>1. /\ At(Main, "main", "begin") /\ frame > 0 /\ UNCHANGED <<stream, frame, next, nextRow>>
      /\ GoTo(Main, <<"close", "motion">>) /\ ended'
  BY DEF Close, rowVars
<1>2. /\ InWorking /\ AllRest /\ \A s \in LateStages : Exhausted(s)
  BY <1>1, AtTheEnd
<1>3. /\ pc'[Main] = <<"close", "motion">> /\ \A u \in Threads : u # Main => pc'[u] = pc[u]
  <2>1. <<"close", "motion">> \in Places
    BY DEF Places, Stages
  <2> QED BY <1>1, <2>1, MoveFacts, CountFacts DEF BaseInvariant
<1>4. \A s \in LateStages : Exhausted(s)'
  BY <1>1, <1>2, ExhaustedStays DEF LateStages, Stages, RowStages, Filters
<1>5. \A u \in Threads : pc'[u][2] \notin {"claimRow", "flag", "run", "post"}
  BY <1>2, <1>3 DEF AllRest, Rest, Resting, Ends, Waiting
<1> QED BY <1>1, <1>3, <1>4, <1>5, StageFacts DEF Closed

LEMMA NextKeepsClosed ==
    ASSUME BaseInvariant, Closed, ended, Next
    PROVE  Closed'
<1>1. /\ Types /\ ended' /\ frame > 0 /\ Main \in Threads /\ Main \notin Workers
      /\ pc[Main] \in ({"close"} \X (Stages \cup {"wait"})) \cup {<<"main", "exited">>}
      /\ \A s \in LateStages : Exhausted(s)
      /\ \A t \in Threads : pc[t][2] \notin {"claimRow", "flag", "run", "post"}
  BY EndedStays, CountFacts DEF BaseInvariant, Closed
<1>2. /\ Stages \cap {"start", "block", "claim", "claimRow", "flag", "run", "post", "count", "clear", "spin", "exit"} = {}
      /\ LateStages \subseteq Stages
  BY DEF Stages, RowStages, Filters, LateStages
<1>3. ASSUME UNCHANGED <<stream, frame, next, nextRow>> PROVE \A s \in LateStages : Exhausted(s)'
  BY <1>1, <1>2, <1>3, ExhaustedStays
<1>4. CASE MainStep
  <2>1. AllExited \/ \E s \in Stages : OpenStage(s)
    <3>1. ~(Close \/ Begin \/ StartMotion \/ StartParse \/ StartFilters \/ Queue)
      BY <1>1 DEF Close, Begin, StartMotion, StartParse, StartFilters, SetStart, Queue, At
    <3> QED BY <1>4, <3>1 DEF MainStep
  <2>2. UNCHANGED <<stream, frame, next, nextRow>>
    BY <2>1 DEF AllExited, OpenStage, rowVars
  <2>3. PICK place \in ({"close"} \X (Stages \cup {"wait"})) \cup {<<"main", "exited">>} : GoTo(Main, place)
    <3>1. \A s \in Stages : AfterOpening(s) \in Stages \cup {"wait"}
      BY DEF AfterOpening, Stages, RowStages, Filters
    <3> QED BY <2>1, <3>1 DEF AllExited, OpenStage
  <2>4. pc'[Main] = place /\ \A u \in Threads : u # Main => pc'[u] = pc[u]
    <3>1. place \in Places
      BY DEF Places, MainSteps
    <3> QED BY <1>1, <2>3, <3>1, MoveFacts
  <2>5. pc'[Main][2] \notin {"claimRow", "flag", "run", "post"}
    BY <1>2, <2>4
  <2>6. \A u \in Threads : pc'[u][2] \notin {"claimRow", "flag", "run", "post"}
    BY <1>1, <2>4, <2>5
  <2> QED BY <1>1, <1>3, <2>2, <2>4, <2>6 DEF Closed
<1>5. ASSUME NEW t \in Threads, ThreadStep(t) PROVE Closed'
  <2>1. /\ UNCHANGED <<stream, frame>> /\ \A u \in Threads : u # t => pc'[u] = pc[u]
    BY <1>1, <1>5, ThreadStepOnly
  <2>2. t # Main
    BY <1>1, <1>2, <1>5, StepPlace DEF At
  <2>3. \A s \in LateStages : Exhausted(s)'
    BY <1>1, <1>2, <1>5, ThreadKeepsExhausted
  <2>4. ASSUME NEW place \in Places, GoTo(t, place), place[2] \notin {"claimRow", "flag", "run", "post"}
        PROVE  Closed'
    <3>1. pc'[t] = place
      BY <1>1, <2>4, MoveFacts
    <3>2. \A u \in Threads : pc'[u][2] \notin {"claimRow", "flag", "run", "post"}
      BY <1>1, <2>1, <2>4, <3>1
    <3> QED BY <1>1, <2>1, <2>2, <2>3, <3>2 DEF Closed
  <2>5. ASSUME NEW s \in Stages, GoTo(t, AfterStage(t, s)) PROVE Closed'
    <3>1. AfterStage(t, s)[2] \in {"start", "exit"}
      BY <1>1, <2>2 DEF AfterStage, Stages, RowStages, Filters
    <3> QED BY <2>4, <2>5, <3>1, AfterStageFacts
  <2>6. ASSUME NEW s \in Stages, NEW p \in {"start", "block", "claim", "count", "spin", "clear"}, GoTo(t, <<s, p>>)
        PROVE  Closed'
    <3>1. <<s, p>> \in Places
      BY DEF Places, Steps
    <3> QED BY <2>4, <2>6, <3>1
  <2>7. Len(Tiles) \in Nat /\ Rows \in Nat /\ \A s \in Stages : next[s] \in Nat
    BY <1>1, FrameFacts DEF Types
  <2>8. Exhausted("parse") /\ Exhausted("recon")
    BY <1>1 DEF LateStages
  <2>9. CASE CheckStart(t) \/ Block(t)
    <3>1. pc[t] \in Places /\ pc[t][2] \in {"start", "block"}
      BY <1>1, <2>9 DEF Types, CheckStart, Block
    <3>2. PICK p \in {"start", "block", "claim"} : GoTo(t, <<pc[t][1], p>>)
      BY <2>9 DEF CheckStart, Block
    <3>3. <<pc[t][1], p>> \in Places
      BY <3>1 DEF Places, Steps
    <3> QED BY <2>4, <3>2, <3>3
  <2>10. CASE ClaimMotionRow(t)
    BY <1>1, <2>5, <2>6, <2>10, StageFacts DEF ClaimMotionRow
  <2>11. CASE ClaimTile(t)
    <3>1. ~(next["parse"] < Len(Tiles))
      BY <2>7, <2>8, StageFacts DEF Exhausted, Filters
    <3> QED BY <2>5, <2>11, <3>1, StageFacts DEF ClaimTile
  <2>12. CASE PickTile(t)
    <3>1. next["recon"] = Len(Tiles) /\ Unfinished = {}
      BY <2>8 DEF Exhausted, Filters
    <3>2. GoTo(t, AfterStage(t, "recon"))
      BY <2>7, <2>12, <3>1 DEF PickTile
    <3> QED BY <2>5, <3>2, StageFacts
  <2>13. ASSUME NEW s \in Filters, ClaimFilterRow(t, s) PROVE Closed'
    <3>1. s \in LateStages /\ s \in Stages /\ s \notin {"motion", "parse", "recon"}
      BY DEF Filters, LateStages, Stages, RowStages
    <3>2. next[s] >= Rows
      BY <1>1, <3>1 DEF Exhausted
    <3>3. ~(next[s] < Rows)
      BY <2>7, <3>1, <3>2
    <3> QED BY <2>5, <2>6, <2>13, <3>1, <3>3 DEF ClaimFilterRow
  <2>14. ~(ProjectRow(t) \/ StartRecon(t) \/ ParseRow(t) \/ TileParsed(t) \/ ClaimTileRow(t))
    BY <1>1, AtPlace DEF ProjectRow, StartRecon, ParseRow, TileParsed, ClaimTileRow
  <2>15. ~(\E s \in RowStages : DoSuperblock(t, s) \/ FinishRow(t, s))
    BY <1>1, AtPlace DEF DoSuperblock, FinishRow
  <2>16. ASSUME NEW s \in Barriers, Arrive(t, s) \/ SpinEnds(t, s) PROVE Closed'
    <3>1. s \in Stages /\ "lr" \in Stages
      BY StageFacts DEF Stages, RowStages, Filters
    <3>2. GoTo(t, <<"lr", "clear">>) \/ GoTo(t, <<s, "spin">>) \/ GoTo(t, AfterStage(t, s))
      BY <2>16 DEF Arrive, SpinEnds
    <3> QED BY <2>5, <2>6, <3>1, <3>2
  <2>17. CASE ClearFlags(t)
    BY <2>6, <2>17 DEF ClearFlags, Stages, RowStages, Filters
  <2>18. CASE Exit(t)
    BY <2>4, <2>18 DEF Exit, Places, MainSteps
  <2> QED BY <1>5, <2>9, <2>10, <2>11, <2>12, <2>13, <2>14, <2>15, <2>16, <2>17, <2>18 DEF ThreadStep
<1> QED BY <1>4, <1>5 DEF Next

\* What is known of the frame: where the threads are, what they have done.
FrameInvariant == BaseInvariant /\ Phases /\ Work /\ Closed

LEMMA NextKeepsFrame == Hinted => (FrameInvariant /\ [Next]_vars => FrameInvariant')
<1> SUFFICES ASSUME Hinted, FrameInvariant, [Next]_vars PROVE FrameInvariant'
  OBVIOUS
<1>1. BaseInvariant' /\ Phases'
  BY NextIsBase, NextKeepsPhases DEF FrameInvariant
<1>2. CASE Next
  <2>1. Work'
    <3>1. CASE ended'
      BY <3>1 DEF Work
    <3>2. CASE ~ended'
      BY <1>2, <3>2, EndedStays, MainKeepsWork, ThreadKeepsWork DEF Next, FrameInvariant
    <3> QED BY <3>1, <3>2
  <2>2. Closed'
    <3>1. CASE ended
      BY <1>2, <3>1, NextKeepsClosed DEF FrameInvariant
    <3>2. CASE ~ended /\ ended'
      <4>1. \A t \in Threads : ~ThreadStep(t)
        BY <3>2, ThreadStepOnly DEF FrameInvariant, BaseInvariant
      <4>2. ~(AllExited \/ (\E s \in Stages : OpenStage(s)) \/ Begin \/ StartMotion \/ StartParse \/ StartFilters \/ Queue)
        BY <3>2 DEF AllExited, OpenStage, Begin, StartMotion, StartParse, StartFilters, SetStart, Queue, syncVars
      <4>3. Close
        BY <1>2, <4>1, <4>2 DEF Next, MainStep
      <4> QED BY <3>2, <4>3, CloseEnds DEF FrameInvariant
    <3>3. CASE ~ended'
      BY <3>3 DEF Closed
    <3> QED BY <3>1, <3>2, <3>3
  <2> QED BY <1>1, <2>1, <2>2 DEF FrameInvariant
<1>3. CASE UNCHANGED vars
  <2>1. UNCHANGED <<stream, frame, ended, start, arrived, mutex, pc, job, next, nextRow, parsed, progress, rowMap>>
    BY <1>3 DEF vars, syncVars, rowVars
  <2>2. (InOpening' <=> InOpening) /\ (InProjecting' <=> InProjecting) /\ (InTurning' <=> InTurning) /\ (InWorking' <=> InWorking)
    BY <2>1 DEF InOpening, InProjecting, InTurning, InWorking, Rest, AllRest, MutexIsLast, Into, HasStarted, At, FlagsDown,
       Projected
  <2>3. \A s \in Stages : Exhausted(s)' <=> Exhausted(s)
    BY <2>1, ExhaustedStays
  <2>4. \A s \in Stages \ {"parse"} : Queued(s)' <=> Queued(s)
    <3>1. Header' = Header
      BY <2>1 DEF Header
    <3> QED BY <2>1, <2>2, <3>1, QueuedFacts
  <2>5. \A s \in Stages : Covered(s) => Covered(s)'
    <3>1. \A u \in Threads, s \in Stages : At(u, s, "run") => At(u, s, "run")'
      BY <2>1 DEF At
    <3> QED BY <2>1, <3>1, CoveredKept
  <2>6. \A t \in Threads : /\ Projected(t)' <=> Projected(t)
                           /\ At(t, "motion", "count")' <=> At(t, "motion", "count")
                           /\ \A s \in LateStages : Beyond(t, s)' <=> Beyond(t, s)
    BY <2>1 DEF Projected, At, Beyond, Rest, Header
  <2>7. LateStages \subseteq Stages /\ "motion" \in Stages
    BY DEF LateStages, Stages, RowStages, Filters
  <2>8. Work'
    <3>1. CASE ended
      BY <2>1, <3>1 DEF Work
    <3>2. CASE ~ended
      <4>1. ASSUME NEW s \in Stages \ {"parse"}, Queued(s)' PROVE Covered(s)'
        <5>1. Queued(s)
          BY <2>4, <4>1
        <5> QED BY <2>5, <3>2, <5>1 DEF Work, FrameInvariant
      <4>2. ASSUME InOpening' \/ InProjecting' \/ InTurning' PROVE \A k \in DOMAIN nextRow' : nextRow'[k] = 0
        BY <2>1, <2>2, <3>2, <4>2 DEF Work, FrameInvariant
      <4>3. ASSUME InProjecting', NEW t \in Threads, (Projected(t) \/ At(t, "motion", "count"))' PROVE Exhausted("motion")'
        <5>1. Projected(t) \/ At(t, "motion", "count")
          BY <2>6, <4>3
        <5>2. Exhausted("motion")
          BY <2>2, <3>2, <4>3, <5>1 DEF Work, FrameInvariant
        <5> QED BY <2>3, <2>7, <5>2
      <4>4. ASSUME InTurning' \/ InWorking' PROVE Exhausted("motion")'
        <5>1. Exhausted("motion")
          BY <2>2, <3>2, <4>4 DEF Work, FrameInvariant
        <5> QED BY <2>3, <2>7, <5>1
      <4>5. ASSUME InWorking', NEW t \in Threads, NEW s \in LateStages, Beyond(t, s)' PROVE Exhausted(s)'
        <5>1. Beyond(t, s)
          BY <2>6, <4>5
        <5>2. Exhausted(s)
          BY <2>2, <3>2, <4>5, <5>1 DEF Work, FrameInvariant
        <5> QED BY <2>3, <2>7, <5>2
      <4> QED BY <4>1, <4>2, <4>3, <4>4, <4>5 DEF Work
    <3> QED BY <3>1, <3>2
  <2>9. Closed'
    BY <2>1, <2>3, <2>7 DEF Closed, FrameInvariant
  <2> QED BY <1>1, <2>8, <2>9 DEF FrameInvariant
<1> QED BY <1>2, <1>3

LEMMA FrameInvariantHolds == Hinted => (Spec => []FrameInvariant)
<1>1. Init => FrameInvariant
  <2> SUFFICES ASSUME Init PROVE FrameInvariant
    OBVIOUS
  <2>1. BaseInvariant /\ frame = 0 /\ ~ended /\ pc[Main] = <<"main", "begin">>
    BY InitIsBase, CountFacts DEF Init
  <2>2. ~InOpening /\ ~InProjecting /\ ~InTurning /\ ~InWorking
    BY <2>1 DEF InOpening, InProjecting, InTurning, InWorking
  <2>3. \A s \in Stages \ {"parse"} : ~Queued(s)
    BY <2>1, <2>2, QueuedFacts
  <2> QED BY <2>1, <2>2, <2>3 DEF FrameInvariant, Phases, First, Work, Closed
<1>2. Hinted => (FrameInvariant /\ [Next]_vars => FrameInvariant')
  BY NextKeepsFrame
<1> SUFFICES ASSUME Hinted PROVE Spec => []FrameInvariant
  OBVIOUS
<1> QED BY <1>1, <1>2, PTL DEF Spec

-----------------------------------------------------------------------------
(* What this means for the caller and for the stages.                      *)

LEMMA RowsOfHeader ==
    ASSUME Types, frame > 0
    PROVE  /\ \A s \in Stages : JobsOf(Header, s) = Jobs(s)
           /\ FrameRows(Header) = Jobs("motion")
<1>1. Header.rows = stream[1].rows /\ Header.tiles = stream[1].tiles
  BY FrameFacts DEF Types
<1>2. FrameRows(Header) = FrameRows(stream[1]) /\ TileRows(Header) = TileRows(stream[1])
  BY <1>1 DEF FrameRows, TileRows
<1> QED BY <1>2, StageFacts DEF JobsOf, Jobs

\* A stage is done when all is taken and nobody is at it.
LEMMA AllFinished ==
    ASSUME Types, frame > 0, NEW s \in Stages \ {"parse"}, Covered(s), Exhausted(s), s = "motion" => Header.motion,
           \A t \in Threads : ~At(t, s, "run")
    PROVE  /\ \A j \in Jobs(s) : IsFinished(s, j)
           /\ rowMap[s] = Jobs(s)
<1>1. /\ Rows = stream[1].rows /\ Tiles = stream[1].tiles /\ Rows \in Nat /\ stream \in Streams
      /\ \A x \in Stages : next[x] \in Nat
      /\ \A k \in DOMAIN Tiles : Tiles[k].rows \in Nat /\ nextRow[k] \in Nat
  <2>1. Tiles \in Seq(Tile) /\ Rows = stream[1].rows /\ Tiles = stream[1].tiles /\ Rows \in Nat
    BY FrameFacts DEF Types, Rows
  <2>2. \A k \in DOMAIN Tiles : Tiles[k] \in Tile
    BY <2>1
  <2> QED BY <2>1, <2>2 DEF Types, Tile
<1>2. ASSUME NEW j \in Jobs(s) PROVE j \in Claimed(s)
  <2>1. CASE s = "recon"
    <3>1. j[1] \in DOMAIN Tiles /\ j[2] \in Nat /\ j[2] < Tiles[j[1]].rows
      BY <1>1, <1>2, <2>1, JobsFacts
    <3>2. ~(nextRow[j[1]] < Tiles[j[1]].rows)
      BY <2>1, <3>1 DEF Exhausted, Unfinished, Filters
    <3> QED BY <1>1, <1>2, <2>1, <3>1, <3>2 DEF Claimed
  <2>2. CASE s # "recon"
    <3>1. next[s] >= Rows
      <4>1. CASE s = "motion"
        BY <4>1 DEF Exhausted, Filters
      <4>2. CASE s \in Filters
        <5>1. s \notin {"motion", "parse", "recon"}
          BY <4>2 DEF Filters
        <5> QED BY <4>2, <5>1 DEF Exhausted
      <4> QED BY <2>2, <4>1, <4>2 DEF Stages, RowStages
    <3>2. PICK r \in 0 .. Rows - 1 : j = <<0, r>>
      <4>1. Jobs(s) = {<<0, r>> : r \in 0 .. Rows - 1}
        BY <1>1, <2>2, JobsFacts
      <4> QED BY <1>2, <4>1
    <3> QED BY <1>1, <1>2, <2>2, <3>1, <3>2 DEF Claimed
  <2> QED BY <2>1, <2>2
<1>3. \A j \in Jobs(s) : IsFinished(s, j)
  BY <1>2 DEF Covered
<1>4. ASSUME NEW j \in Jobs(s) PROVE j \in rowMap[s]
  <2>1. CASE s # "lf"
    BY <1>3, <1>4, <2>1 DEF IsFinished, Reported
  <2>2. CASE s = "lf"
    <3>1. /\ Jobs(s) = {<<0, r>> : r \in 0 .. Rows - 1}
          /\ \A r \in Nat : r < Rows => <<0, r>> \in Jobs(s)
      BY <1>1, <2>2, JobsFacts
    <3>2. PICK r \in 0 .. Rows - 1 : j = <<0, r>>
      BY <1>4, <3>1
    <3>3. CASE r = Rows - 1
      BY <1>3, <1>4, <2>2, <3>2, <3>3 DEF IsFinished, Reported
    <3>4. CASE r < Rows - 1
      <4>1. r + 1 \in Nat /\ r + 1 < Rows /\ r \in Nat /\ (r + 1) - 1 = r
        BY <1>1, <3>2, <3>4
      <4>2. <<0, r + 1>> \in Jobs(s)
        BY <3>1, <4>1
      <4>3. Reported(s, <<0, r + 1>>) \subseteq rowMap[s]
        BY <1>3, <4>2 DEF IsFinished
      <4>4. r \in {(<<0, r + 1>>)[2] - 1} \cap Nat
        BY <4>1
      <4>5. <<0, r>> \in Reported(s, <<0, r + 1>>)
        BY <2>2, <4>4 DEF Reported
      <4> QED BY <3>2, <4>3, <4>5
    <3> QED BY <1>1, <3>2, <3>3, <3>4
  <2> QED BY <2>1, <2>2
<1> QED BY <1>3, <1>4 DEF Covered

LEMMA FrameIsComplete == FrameInvariant => FrameComplete
<1> SUFFICES ASSUME FrameInvariant, At(Main, "main", "begin"), frame > 0
             PROVE  /\ \A s \in RowStages :
                          /\ rowMap[s] = JobsOf(Header, s)
                          /\ Enabled(s) => \A j \in JobsOf(Header, s) : progress[s][j] = Width(s, j)
                    /\ \A t \in Threads, s \in Stages : ~AtWork(t, s)
  BY DEF FrameComplete
<1>1. BaseInvariant /\ Types /\ ~ended
  BY DEF FrameInvariant, BaseInvariant, Closed, At
<1>2. /\ AllRest /\ \A s \in LateStages : Exhausted(s)
      /\ \A s \in RowStages : Covered(s)
  BY <1>1, AtTheEnd DEF FrameInvariant
<1>3. \A t \in Threads : pc[t][2] \notin {"flag", "run", "post"}
  BY <1>2 DEF AllRest, Rest, Resting, Ends, Waiting
<1>4. \A t \in Threads, s \in Stages : ~AtWork(t, s)
  BY <1>3, AtPlace DEF AtWork
<1>5. ASSUME NEW s \in RowStages
      PROVE  /\ rowMap[s] = JobsOf(Header, s)
             /\ Enabled(s) => \A j \in JobsOf(Header, s) : progress[s][j] = Width(s, j)
  <2>1. s \in Stages \ {"parse"} /\ s # "motion" /\ s \in LateStages
    BY DEF Stages, RowStages, Filters, LateStages
  <2>2. (\A j \in Jobs(s) : IsFinished(s, j)) /\ rowMap[s] = Jobs(s)
    <3>1. \A t \in Threads : ~At(t, s, "run")
      BY <1>4, <2>1 DEF AtWork
    <3> QED BY <1>1, <1>2, <2>1, <3>1, AllFinished
  <2>3. JobsOf(Header, s) = Jobs(s)
    BY <1>1, <2>1, RowsOfHeader
  <2> QED BY <2>2, <2>3 DEF IsFinished
<1> QED BY <1>4, <1>5

\* For any number of threads and every stream with order hints: when the caller gets
\* a frame back all its rows have been parsed, reconstructed and filtered, and
\* no thread is still at one.
THEOREM FrameCompleteHolds ==
    ASSUME Hinted
    PROVE  Spec => []FrameComplete
<1>1. Spec => []FrameInvariant
  BY FrameInvariantHolds
<1> QED BY <1>1, FrameIsComplete, PTL

LEMMA MotionFieldIsReady == FrameInvariant => MotionFieldReady
<1> SUFFICES ASSUME FrameInvariant, NEW t \in Threads, AtWork(t, "parse") \/ AtWork(t, "recon"), Header.motion
             PROVE  rowMap["motion"] = FrameRows(Header)
  BY DEF MotionFieldReady
<1>1. BaseInvariant /\ Types
  BY DEF FrameInvariant, BaseInvariant
<1>2. pc[t][2] \in {"flag", "run", "post"} /\ pc[t][1] \in {"parse", "recon"}
  BY AtPlace DEF AtWork
<1>3. ~ended
  BY <1>2 DEF FrameInvariant, Closed
<1>4. InWorking
  <2>1. t \in Workers \cup {Main}
    BY DEF Threads
  <2>2. ~First
    BY <1>1, <1>2, <2>1 DEF BaseInvariant, BeforeFirst, At, Waiting
  <2>3. ~InOpening
    BY <1>2, <2>1 DEF InOpening, Ends, Waiting
  <2>4. ~InProjecting
    BY <1>2, <2>1 DEF InProjecting, Waiting
  <2>5. ~InTurning
    BY <1>2, <2>1 DEF InTurning, Waiting
  <2> QED BY <1>3, <2>2, <2>3, <2>4, <2>5 DEF FrameInvariant, Phases
<1>5. frame > 0 /\ Exhausted("motion") /\ Covered("motion")
  BY <1>3, <1>4, QueuedFacts DEF FrameInvariant, Work, InWorking
<1>6. \A u \in Threads : ~At(u, "motion", "run")
  <2>1. \A u \in Threads : pc[u] # <<"motion", "run">>
    BY <1>4, CountFacts DEF InWorking, Threads, MainPlaces, LatePlaces, LateStages, Waiting
  <2> QED BY <2>1 DEF At
<1>7. rowMap["motion"] = Jobs("motion")
  BY <1>1, <1>5, <1>6, AllFinished, StageFacts
<1> QED BY <1>1, <1>5, <1>7, RowsOfHeader

\* For any number of threads and every stream with order hints: no thread parses or
\* reconstructs before the motion field of the frame is projected.
THEOREM MotionFieldIsReadyInTime ==
    ASSUME Hinted
    PROVE  Spec => []MotionFieldReady
<1>1. Spec => []FrameInvariant
  BY FrameInvariantHolds
<1> QED BY <1>1, MotionFieldIsReady, PTL

\* Rows are only queued by Main, at the beginning of the frame, of the stages after
\* the motion field, or of a filter that nobody has found started.
LEMMA ResetStep ==
    ASSUME FrameInvariant, Next
    PROVE  \/ /\ \A t \in Threads, s \in Stages : ~AtWork(t, s)
           \/ \E S \in SUBSET Filters :
                 /\ \A s \in Stages \ S : next'[s] = next[s]
                 /\ \A s \in RowStages \ S : progress'[s] = progress[s]
                 /\ \A t \in Threads, s \in S : ~AtWork(t, s)
           \/ /\ \A s \in Stages : next'[s] >= next[s]
              /\ \A s \in RowStages : progress'[s] = progress[s] \/ \E j \in DOMAIN progress'[s] : progress'[s][j] # 0
<1>1. /\ BaseInvariant /\ Types /\ Main \in Threads /\ Main \notin Workers
      /\ \A s \in Stages : next[s] \in Nat
  BY CountFacts DEF FrameInvariant, BaseInvariant, Types
<1>2. ASSUME \A t \in Threads : pc[t][2] \notin {"flag", "run", "post"}
      PROVE  \A t \in Threads, s \in Stages : ~AtWork(t, s)
  BY <1>2, AtPlace DEF AtWork
<1>3. CASE UNCHANGED <<next, progress>>
  BY <1>1, <1>3
<1>4. CASE Begin
  <2>1. At(Main, "main", "begin") /\ ~ended
    BY <1>4 DEF Begin, FrameInvariant, Closed, At
  <2>2. CASE frame = 0
    <3>1. \A t \in Threads : pc[t][2] \notin {"flag", "run", "post"}
      BY <1>1, <2>2 DEF BaseInvariant, BeforeFirst, First, At, Threads, Waiting
    <3> QED BY <1>2, <3>1
  <2>3. CASE frame > 0
    <3>1. AllRest
      BY <2>1, <2>3, AtTheEnd DEF FrameInvariant
    <3>2. \A t \in Threads : pc[t][2] \notin {"flag", "run", "post"}
      BY <3>1 DEF AllRest, Rest, Resting, Ends, Waiting
    <3> QED BY <1>2, <3>2
  <2>4. frame \in Nat
    BY <1>1, FirstFrameFacts DEF Types
  <2> QED BY <2>2, <2>3, <2>4
<1>5. CASE Queue /\ At(Main, "main", "queueParse")
  <2>1. InTurning
    BY <1>1, <1>5 DEF FrameInvariant, Phases, Closed, At, BaseInvariant, BeforeFirst, First, InOpening, InProjecting, InWorking,
       MainPlaces, LatePlaces, LateStages
  <2>2. \A t \in Threads : pc[t][2] \notin {"flag", "run", "post"}
    BY <2>1 DEF InTurning, Threads, Waiting
  <2> QED BY <1>2, <2>2
<1>6. ASSUME NEW S \in SUBSET Filters, QueueFilters(S), InWorking, \A s \in S : ~HasStarted(s), pc[Main][1] = "main"
      PROVE  /\ \A s \in Stages \ S : next'[s] = next[s]
             /\ \A s \in RowStages \ S : progress'[s] = progress[s]
             /\ \A t \in Threads, s \in S : ~AtWork(t, s)
  <2>1. /\ \A s \in Stages \ S : next'[s] = next[s]
        /\ \A s \in RowStages \ S : progress'[s] = progress[s]
    BY <1>6 DEF QueueFilters
  <2>2. ASSUME NEW t \in Threads, NEW s \in S, AtWork(t, s) PROVE FALSE
    <3>1. pc[t][1] = s /\ pc[t][2] \in {"flag", "run", "post"} /\ s \in Filters
      BY <2>2, <1>6, AtPlace DEF AtWork
    <3>2. t \in Workers
      BY <1>6, <3>1 DEF Threads, Filters
    <3>3. Into(t, s)
      BY <3>1 DEF Into, Waiting
    <3> QED BY <1>6, <3>1, <3>2, <3>3 DEF InWorking
  <2> QED BY <2>1, <2>2
<1>7. ASSUME Queue, NEW p \in {"queueFilters", "queueLr"}, At(Main, "main", p) PROVE InWorking
  BY <1>1, <1>7 DEF FrameInvariant, Phases, Closed, At, BaseInvariant, BeforeFirst, First, InOpening, InProjecting, InTurning
<1>8. CASE Queue /\ At(Main, "main", "queueFilters")
  <2>1. QueueFilters({"lf", "cdef"}) /\ pc[Main] = <<"main", "queueFilters">>
    BY <1>8 DEF Queue, At
  <2>2. \A s \in {"lf", "cdef"} : ~HasStarted(s)
    BY <2>1 DEF HasStarted
  <2>3. {"lf", "cdef"} \in SUBSET Filters
    BY DEF Filters
  <2> QED BY <1>6, <1>7, <1>8, <2>1, <2>2, <2>3
<1>9. CASE Queue /\ At(Main, "main", "queueLr")
  <2>1. QueueFilters({"lr"}) /\ pc[Main] = <<"main", "queueLr">>
    BY <1>9 DEF Queue, At
  <2>2. \A s \in {"lr"} : ~HasStarted(s)
    BY <2>1 DEF HasStarted
  <2>3. {"lr"} \in SUBSET Filters
    BY DEF Filters
  <2> QED BY <1>6, <1>7, <1>9, <2>1, <2>2, <2>3
<1>10. CASE MainStep /\ ~Begin /\ ~Queue
  <2>1. UNCHANGED rowVars
    BY <1>10 DEF MainStep, Close, AllExited, OpenStage, StartMotion, StartParse, StartFilters, SetStart
  <2> QED BY <1>3, <2>1 DEF rowVars
<1>11. ASSUME NEW t \in Threads, ThreadStep(t)
       PROVE  /\ \A s \in Stages : next'[s] >= next[s]
              /\ \A s \in RowStages : progress'[s] = progress[s] \/ \E j \in DOMAIN progress'[s] : progress'[s][j] # 0
  <2>1. CASE IdleStep(t) \/ ProjectRow(t) \/ ParseRow(t) \/ ClaimTileRow(t) \/ \E s \in RowStages : FinishRow(t, s)
    <3>1. UNCHANGED <<next, progress>>
      BY <2>1, IdleStepOnly DEF ProjectRow, ParseRow, ClaimTileRow, FinishRow
    <3> QED BY <1>1, <3>1
  <2>2. ASSUME UNCHANGED progress, UNCHANGED next \/ \E x \in Stages : next' = [next EXCEPT ![x] = @ + 1]
        PROVE  /\ \A s \in Stages : next'[s] >= next[s]
               /\ \A s \in RowStages : progress'[s] = progress[s]
    <3>1. next \in [Stages -> Nat]
      BY <1>1 DEF Types
    <3>2. CASE UNCHANGED next
      BY <1>1, <2>2, <3>2
    <3>3. ASSUME NEW x \in Stages, next' = [next EXCEPT ![x] = @ + 1]
          PROVE  \A s \in Stages : next'[s] >= next[s]
      <4>1. \A s \in Stages : next'[s] = next[s] \/ next'[s] = next[s] + 1
        BY <3>1, <3>3
      <4> QED BY <1>1, <4>1
    <3> QED BY <2>2, <3>2, <3>3
  <2>3. CASE ClaimMotionRow(t) \/ ClaimTile(t) \/ PickTile(t)
    BY <2>2, <2>3, StageFacts DEF ClaimMotionRow, ClaimTile, PickTile
  <2>4. ASSUME NEW x \in Filters, ClaimFilterRow(t, x) PROVE UNCHANGED progress /\ (UNCHANGED next \/ \E y \in Stages : next' = [next EXCEPT ![y] = @ + 1])
    BY <2>4, StageFacts DEF ClaimFilterRow
  <2>5. ASSUME NEW x \in RowStages, DoSuperblock(t, x)
        PROVE  /\ UNCHANGED next
               /\ \A s \in RowStages : progress'[s] = progress[s] \/ \E j \in DOMAIN progress'[s] : progress'[s][j] # 0
    <3>1. /\ UNCHANGED next /\ At(t, x, "run") /\ progress' = [progress EXCEPT ![x][job[t]] = progress[x][job[t]] + 1]
      BY <2>5 DEF DoSuperblock
    <3>2. job[t] \in Jobs(x) /\ progress[x] \in [Jobs(x) -> Nat]
      BY <1>1, <3>1, StageFacts DEF BaseInvariant, InRange, AtRow, Types
    <3>3. \A s \in RowStages : s # x => progress'[s] = progress[s]
      BY <1>1, <3>1 DEF Types
    <3>4. progress'[x] = [progress[x] EXCEPT ![job[t]] = progress[x][job[t]] + 1]
      BY <1>1, <3>1 DEF Types
    <3>5. job[t] \in DOMAIN progress'[x] /\ progress'[x][job[t]] # 0
      BY <3>2, <3>4
    <3> QED BY <3>1, <3>3, <3>5
  <2> QED BY <1>1, <1>11, <2>1, <2>2, <2>3, <2>4, <2>5 DEF ThreadStep, IdleStep
<1>12. Queue => \/ At(Main, "main", "queueParse") \/ At(Main, "main", "queueFilters") \/ At(Main, "main", "queueLr")
  BY DEF Queue
<1> QED BY <1>4, <1>5, <1>8, <1>9, <1>10, <1>11, <1>12 DEF Next

\* For any number of threads and every stream with order hints: the rows of a stage
\* are queued anew only while no thread is at one of them.
THEOREM NothingIsResetUnderWork ==
    ASSUME Hinted
    PROVE  Spec => NoResetUnderWork
<1> DEFINE Undisturbed ==
      /\ \A s \in Stages : next'[s] < next[s] => \A t \in Threads : ~AtWork(t, s)
      /\ \A s \in RowStages : progress[s] # progress'[s] /\ (\A j \in DOMAIN progress'[s] : progress'[s][j] = 0)
              => \A t \in Threads : ~AtWork(t, s)
<1>1. Spec => []FrameInvariant
  BY FrameInvariantHolds
<1>2. FrameInvariant /\ [Next]_vars => [Undisturbed]_vars
  <2> SUFFICES ASSUME FrameInvariant, Next PROVE Undisturbed
    OBVIOUS
  <2>1. \A s \in Stages : next[s] \in Nat
    BY DEF FrameInvariant, BaseInvariant, Types
  <2>2. CASE \A t \in Threads, s \in Stages : ~AtWork(t, s)
    BY <2>2, StageFacts
  <2>3. ASSUME NEW S \in SUBSET Filters,
               \A s \in Stages \ S : next'[s] = next[s], \A s \in RowStages \ S : progress'[s] = progress[s],
               \A t \in Threads, s \in S : ~AtWork(t, s)
        PROVE  Undisturbed
    BY <2>1, <2>3
  <2>4. CASE /\ \A s \in Stages : next'[s] >= next[s]
             /\ \A s \in RowStages : progress'[s] = progress[s] \/ \E j \in DOMAIN progress'[s] : progress'[s][j] # 0
    <3>1. \A s \in Stages : ~(next'[s] < next[s])
      <4>1. \A s \in Stages : next'[s] \in Nat
        BY NextIsBase DEF FrameInvariant, BaseInvariant, Types
      <4> QED BY <2>1, <2>4, <4>1
    <3> QED BY <2>4, <3>1
  <2> QED BY <2>2, <2>3, <2>4, ResetStep
<1> QED BY <1>1, <1>2, PTL DEF Spec, NoResetUnderWork

-----------------------------------------------------------------------------
(* The order of the filters.                                               *)

PixelsTo(r) == \A x \in RowsTo(r) : Pixels(x)
DeblockedTo(r) == \A x \in RowsTo(r) : Deblocked(x)
DirectedTo(r) == \A x \in RowsTo(r) : Directed(x)

\* No row has more superblocks than it is wide.
Bounded == \A s \in RowStages : \A j \in Jobs(s) : progress[s][j] <= WidthOf(s, j)

\* What a row of a stage stands for: with superblocks done in it, and finished.
ReconOrdered == \A j \in rowMap["recon"] : progress["recon"][j] = Width("recon", j)
LfOrdered ==
    \A r \in 0 .. Rows - 1 :
        /\ progress["lf"][<<0, r>>] > 0 => PixelsTo(r + 1)
        /\ <<0, r>> \in rowMap["lf"] => PixelsTo(r) /\ DeblockedTo(r)
CdefOrdered ==
    \A r \in 0 .. Rows - 1 :
        /\ progress["cdef"][<<0, r>>] > 0 => PixelsTo(r + 1) /\ DeblockedTo(r + 1)
        /\ <<0, r>> \in rowMap["cdef"] => PixelsTo(r) /\ DeblockedTo(r) /\ Directed(r)
LrOrdered ==
    \A r \in 0 .. Rows - 1 :
        progress["lr"][<<0, r>>] > 0 => PixelsTo(r) /\ DeblockedTo(r) /\ DirectedTo(r)
Ordered ==
    ~ended =>
        /\ Queued("recon") => ReconOrdered
        /\ Queued("lf") /\ OrderIsKept => LfOrdered /\ CdefOrdered
        /\ Queued("lr") /\ OrderIsKept => LrOrdered

LEMMA RowFacts ==
    ASSUME Types, frame > 0
    PROVE  /\ Rows \in Nat \ {0} /\ Cols \in Nat \ {0} /\ Rows = stream[1].rows
           /\ \A r \in Nat : RowsTo(r) = {x \in 0 .. Rows - 1 : x <= r}
           /\ \A s \in Filters : \A r \in 0 .. Rows - 1 :
                 /\ <<0, r>> \in Jobs(s) /\ Width(s, <<0, r>>) = Cols
                 /\ progress[s][<<0, r>>] \in Nat
           /\ \A s \in Filters : \A j \in Jobs(s) : \E r \in 0 .. Rows - 1 : j = <<0, r>>
<1>1. Rows \in Nat \ {0} /\ Cols \in Nat \ {0} /\ Rows = stream[1].rows /\ stream \in Streams
  BY FrameFacts DEF Types, Rows
<1>2. ASSUME NEW r \in Nat PROVE RowsTo(r) = {x \in 0 .. Rows - 1 : x <= r}
  <2>1. Min({r, Rows - 1}) = IF r <= Rows - 1 THEN r ELSE Rows - 1
    <3>1. r \in Int /\ Rows - 1 \in Int
      BY <1>1
    <3> QED BY <3>1, MinOfTwo
  <2> QED BY <1>1, <2>1 DEF RowsTo
<1>3. \A s \in Filters : s \in Stages \ {"recon"} /\ s \in RowStages /\ s # "recon"
  BY DEF Filters, Stages, RowStages
<1>4. \A s \in Filters : Jobs(s) = {<<0, r>> : r \in 0 .. Rows - 1}
  BY <1>1, <1>3, JobsFacts
<1>5. \A s \in Filters : \A r \in 0 .. Rows - 1 : <<0, r>> \in Jobs(s) /\ Width(s, <<0, r>>) = Cols
  BY <1>3, <1>4 DEF Width
<1>6. \A s \in Filters : \A r \in 0 .. Rows - 1 : progress[s][<<0, r>>] \in Nat
  BY <1>3, <1>5 DEF Types
<1>7. \A s \in Filters : \A j \in Jobs(s) : \E r \in 0 .. Rows - 1 : j = <<0, r>>
  BY <1>4
<1> QED BY <1>1, <1>2, <1>5, <1>6, <1>7

\* Rows to r, and to the next one.
LEMMA RowsToFacts ==
    ASSUME Types, frame > 0, NEW r \in Nat
    PROVE  /\ \A y \in Nat : y <= r => RowsTo(y) \subseteq RowsTo(r)
           /\ RowsTo(r + 1) \subseteq RowsTo(r) \cup ({r + 1} \cap (0 .. Rows - 1))
           /\ RowsTo(r) \subseteq RowsTo(r + 1)
           /\ RowsTo(Min({r, Rows - 1})) = RowsTo(r)
<1>1. Rows \in Nat \ {0} /\ \A y \in Nat : RowsTo(y) = {x \in 0 .. Rows - 1 : x <= y}
  BY RowFacts
<1>2. Min({r, Rows - 1}) = IF r <= Rows - 1 THEN r ELSE Rows - 1
  <2>1. r \in Int /\ Rows - 1 \in Int
    BY <1>1
  <2> QED BY <2>1, MinOfTwo
<1>3. r + 1 \in Nat /\ Rows - 1 \in Nat
  BY <1>1
<1>4. \A y \in Nat : y <= r => RowsTo(y) \subseteq RowsTo(r)
  BY <1>1
<1>5. /\ RowsTo(r + 1) \subseteq RowsTo(r) \cup ({r + 1} \cap (0 .. Rows - 1))
      /\ RowsTo(r) \subseteq RowsTo(r + 1)
  BY <1>1, <1>3
<1>6. RowsTo(Min({r, Rows - 1})) = RowsTo(r)
  <2>1. CASE r <= Rows - 1
    BY <1>2, <2>1
  <2>2. CASE ~(r <= Rows - 1)
    <3>1. Min({r, Rows - 1}) = Rows - 1
      BY <1>2, <2>2
    <3>2. RowsTo(Rows - 1) = {x \in 0 .. Rows - 1 : x <= Rows - 1}
      BY <1>1, <1>3
    <3>3. {x \in 0 .. Rows - 1 : x <= Rows - 1} = {x \in 0 .. Rows - 1 : x <= r}
      BY <1>1, <2>2
    <3> QED BY <1>1, <3>1, <3>2, <3>3
  <2> QED BY <2>1, <2>2
<1> QED BY <1>4, <1>5, <1>6

\* The rows above a finished one are finished.
LEMMA FinishedAbove ==
    ASSUME Types, frame > 0, Bounded, NEW s \in RowStages, Staircase(s), NEW j \in Jobs(s),
           progress[s][j] = Width(s, j), NEW x \in 0 .. j[2]
    PROVE  progress[s][<<j[1], x>>] = Width(s, <<j[1], x>>)
<1>1. /\ j = <<j[1], j[2]>> /\ j[2] \in Nat /\ <<j[1], x>> \in Jobs(s)
  BY JobsFacts, StageFacts DEF Types
<1>2. CASE x = j[2]
  BY <1>1, <1>2
<1>3. CASE x # j[2]
  <2> DEFINE w == WidthOf(s, j)
  <2>1. x \in 0 .. j[2] - 1
    BY <1>1, <1>3
  <2>2. /\ w \in Nat \ {0} /\ Width(s, j) = w /\ WidthOf(s, <<j[1], x>>) = w /\ Width(s, <<j[1], x>>) = w
    BY <1>1, WidthFacts DEF WidthOf
  <2>3. IsAhead(progress[s][<<j[1], x>>], w, w)
    BY <2>1, <2>2 DEF Staircase
  <2>4. progress[s][<<j[1], x>>] \in Nat /\ progress[s][<<j[1], x>>] <= w
    BY <1>1, <2>2 DEF Bounded, Types
  <2> QED BY <2>2, <2>3, <2>4 DEF IsAhead
<1> QED BY <1>2, <1>3

\* Without tiles below each other all tiles are as high as the frame.
LEMMA TilesOfFrame ==
    ASSUME Types, frame > 0, \A k \in DOMAIN Tiles : Tiles[k].top = 0
    PROVE  \A k \in DOMAIN Tiles : Tiles[k].rows = Rows
<1>1. frame \in DOMAIN stream /\ stream \in Streams /\ Rows \in Nat /\ Tiles \in Seq(Tile)
  BY FrameFacts, FirstFrameFacts DEF Types
<1>2. TAKE k \in DOMAIN Tiles
<1>3. Tiles[k].top = 0 /\ Tiles[k].rows \in Nat \ {0}
  <2>1. Tiles[k] \in Tile
    BY <1>1
  <2> QED BY <2>1 DEF Tile
<1>4. LET below == Tiles[k].top + Tiles[k].rows IN
         below = Rows \/ \E i \in DOMAIN Tiles : Tiles[i].top = below
  BY <1>1, DecoderAssumption DEF Header, Tiles, Rows
<1> QED BY <1>3, <1>4

\* A thread in a row that is not the first has had to wait for the one above.
LEMMA AboveStarted ==
    ASSUME Types, frame > 0, NEW t \in Threads, NEW s \in {"lf", "lr"}, DoSuperblock(t, s),
           NEW r \in 1 .. Rows - 1, job[t] = <<0, r>>
    PROVE  progress[s][<<0, r - 1>>] > 0
<1>1. /\ Rows \in Nat \ {0} /\ Cols \in Nat \ {0} /\ s \in Filters /\ s \in RowStages
      /\ r \in 0 .. Rows - 1 /\ r - 1 \in 0 .. Rows - 1
  BY RowFacts DEF Filters, RowStages
<1>2. /\ progress[s][<<0, r - 1>>] \in Nat /\ progress[s][<<0, r>>] \in Nat /\ Width(s, <<0, r>>) = Cols
  BY <1>1, RowFacts
<1>3. /\ AboveFinished(s, progress[s][<<0, r - 1>>], progress[s][<<0, r>>], Cols)
      /\ progress[s][<<0, r>>] < Cols
  BY <1>1, <1>2 DEF DoSuperblock
<1> QED BY <1>1, <1>2, <1>3, AboveIsAhead

LEMMA ReconstructedPixels ==
    ASSUME ReconOrdered, NEW x, Reconstructed(x)
    PROVE  Pixels(x)
BY DEF ReconOrdered, Reconstructed, Pixels

\* Deblocking a row needs the rows around it reconstructed, and all those above.
LEMMA LfSuperblock ==
    ASSUME Types, frame > 0, ReconOrdered, LfOrdered, NEW t \in Threads, DoSuperblock(t, "lf"),
           NEW r \in 0 .. Rows - 1, job[t] = <<0, r>>
    PROVE  PixelsTo(r + 1)
<1>1. Rows \in Nat \ {0} /\ r \in Nat /\ progress["lf"][<<0, r>>] \in Nat
  BY RowFacts DEF Filters
<1>2. CASE progress["lf"][<<0, r>>] # 0
  BY <1>1, <1>2 DEF LfOrdered
<1>3. CASE progress["lf"][<<0, r>>] = 0
  <2>1. \A x \in {r - 1, r, r + 1} \cap (0 .. Rows - 1) : Pixels(x)
    <3>1. RowReady("lf", <<0, r>>)
      BY <1>3 DEF DoSuperblock
    <3>2. \A x \in {r - 1, r, r + 1} \cap (0 .. Rows - 1) : Reconstructed(x)
      BY <3>1 DEF RowReady
    <3> QED BY <3>2, ReconstructedPixels
  <2>2. PixelsTo(r)
    <3>1. CASE r = 0
      <4>1. \A x \in RowsTo(r) : x = r /\ x \in 0 .. Rows - 1
        BY <1>1, <3>1, RowFacts
      <4> QED BY <2>1, <4>1 DEF PixelsTo
    <3>2. CASE r # 0
      <4>1. r \in 1 .. Rows - 1 /\ r - 1 \in 0 .. Rows - 1 /\ (r - 1) + 1 = r
        BY <1>1, <3>2
      <4>2. progress["lf"][<<0, r - 1>>] > 0
        BY <4>1, AboveStarted
      <4> QED BY <4>1, <4>2 DEF LfOrdered
    <3> QED BY <3>1, <3>2
  <2>3. RowsTo(r + 1) \subseteq RowsTo(r) \cup ({r + 1} \cap (0 .. Rows - 1))
    BY <1>1, RowsToFacts
  <2> QED BY <2>1, <2>2, <2>3 DEF PixelsTo
<1> QED BY <1>2, <1>3

LEMMA LfRow ==
    ASSUME Types, frame > 0, Bounded, Staircase("recon"), Staircase("lf"), ReconOrdered, LfOrdered, OrderIsKept,
           NEW t \in Threads, FinishRow(t, "lf"), NEW r \in 0 .. Rows - 1, job[t] = <<0, r>>
    PROVE  PixelsTo(r) /\ DeblockedTo(r)
<1>1. /\ Rows \in Nat \ {0} /\ Cols \in Nat \ {0} /\ r \in Nat /\ progress["lf"][<<0, r>>] \in Nat
      /\ RowsTo(r) = {x \in 0 .. Rows - 1 : x <= r}
  BY RowFacts DEF Filters
<1>2. CASE Enabled("lf")
  <2>1. progress["lf"][<<0, r>>] = Width("lf", <<0, r>>) /\ Width("lf", <<0, r>>) = Cols /\ <<0, r>> \in Jobs("lf")
    BY <1>2, RowFacts DEF FinishRow, Filters
  <2>2. PixelsTo(r + 1)
    BY <1>1, <2>1 DEF LfOrdered
  <2>3. PixelsTo(r)
    BY <1>1, <2>2, RowsToFacts DEF PixelsTo
  <2>4. \A x \in 0 .. r : progress["lf"][<<0, x>>] = Width("lf", <<0, x>>)
    BY <2>1, FinishedAbove DEF RowStages, Filters
  <2>5. \A x \in RowsTo(r) : x \in 0 .. r /\ x \in 0 .. Rows - 1
    BY <1>1
  <2>6. \A x \in 0 .. Rows - 1 : Width("lf", <<0, x>>) = Cols
    BY RowFacts DEF Filters
  <2> QED BY <2>3, <2>4, <2>5, <2>6 DEF DeblockedTo, Deblocked
<1>3. CASE ~Enabled("lf")
  <2>1. "lf" \notin Header.filters
    BY <1>3 DEF Enabled
  <2>2. \A k \in DOMAIN Tiles : Tiles[k].top = 0 /\ Tiles[k].rows = Rows
    BY <2>1, TilesOfFrame DEF OrderIsKept
  <2>3. RowReady("lf", <<0, r>>)
    BY <1>3 DEF FinishRow
  <2>4. Reconstructed(r)
    <3>1. r \in {r - 1, r, r + 1} \cap (0 .. Rows - 1)
      BY <1>1
    <3> QED BY <2>3, <3>1 DEF RowReady
  <2>5. TileRows(Header) = Jobs("recon") /\ Tiles = stream[1].tiles /\ stream \in Streams
    <3>1. JobsOf(Header, "recon") = TileRows(Header)
      BY DEF JobsOf
    <3> QED BY <3>1, RowsOfHeader, StageFacts, FrameFacts DEF Types
  <2>6. ASSUME NEW x \in RowsTo(r), NEW j \in TileRows(Header), Tiles[j[1]].top + j[2] = x
        PROVE  progress["recon"][j] = Width("recon", j)
    <3>1. x \in 0 .. Rows - 1 /\ x <= r
      BY <1>1
    <3>2. j = <<j[1], j[2]>> /\ j[1] \in DOMAIN Tiles /\ j[2] \in Nat
      BY <2>5, JobsFacts
    <3>3. j[2] = x
      BY <2>2, <2>6, <3>2
    <3> DEFINE i == <<j[1], r>>
    <3>4. i \in Jobs("recon")
      BY <1>1, <2>2, <2>5, <3>2, JobsFacts
    <3>5. Tiles[i[1]].top + i[2] = r
      BY <1>1, <2>2, <3>2
    <3>6. progress["recon"][i] = Width("recon", i)
      BY <2>4, <2>5, <3>4, <3>5 DEF Reconstructed, ReconOrdered
    <3>7. x \in 0 .. i[2] /\ "recon" \in RowStages
      BY <1>1, <3>1 DEF RowStages
    <3>8. progress["recon"][<<i[1], x>>] = Width("recon", <<i[1], x>>)
      BY <3>4, <3>6, <3>7, FinishedAbove
    <3> QED BY <3>2, <3>3, <3>8
  <2>7. PixelsTo(r)
    BY <2>6 DEF PixelsTo, Pixels
  <2> QED BY <2>1, <2>7 DEF DeblockedTo, Deblocked
<1> QED BY <1>2, <1>3

LEMMA CdefReady ==
    ASSUME Types, frame > 0, LfOrdered, NEW r \in 0 .. Rows - 1, RowReady("cdef", <<0, r>>)
    PROVE  PixelsTo(r + 1) /\ DeblockedTo(r + 1)
<1>1. Rows \in Nat \ {0} /\ r + 1 \in Nat /\ r \in Nat
  BY RowFacts
<1> DEFINE y == Min({r + 1, Rows - 1})
<1>2. <<0, y>> \in rowMap["lf"]
  BY DEF RowReady
<1>3. y \in 0 .. Rows - 1
  <2>1. y = IF r + 1 <= Rows - 1 THEN r + 1 ELSE Rows - 1
    <3>1. r + 1 \in Int /\ Rows - 1 \in Int
      BY <1>1
    <3> QED BY <3>1, MinOfTwo
  <2> QED BY <1>1, <2>1
<1>4. PixelsTo(y) /\ DeblockedTo(y)
  BY <1>2, <1>3 DEF LfOrdered
<1>5. RowsTo(y) = RowsTo(r + 1)
  BY <1>1, RowsToFacts
<1> QED BY <1>4, <1>5 DEF PixelsTo, DeblockedTo

LEMMA CdefSuperblock ==
    ASSUME Types, frame > 0, LfOrdered, CdefOrdered, NEW t \in Threads, DoSuperblock(t, "cdef"),
           NEW r \in 0 .. Rows - 1, job[t] = <<0, r>>
    PROVE  PixelsTo(r + 1) /\ DeblockedTo(r + 1)
<1>1. progress["cdef"][<<0, r>>] \in Nat
  BY RowFacts DEF Filters
<1>2. CASE progress["cdef"][<<0, r>>] # 0
  BY <1>1, <1>2 DEF CdefOrdered
<1>3. CASE progress["cdef"][<<0, r>>] = 0
  <2>1. RowReady("cdef", <<0, r>>)
    BY <1>3 DEF DoSuperblock
  <2> QED BY <2>1, CdefReady
<1> QED BY <1>2, <1>3

LEMMA CdefRow ==
    ASSUME Types, frame > 0, LfOrdered, CdefOrdered, NEW t \in Threads, FinishRow(t, "cdef"),
           NEW r \in 0 .. Rows - 1, job[t] = <<0, r>>
    PROVE  PixelsTo(r) /\ DeblockedTo(r) /\ Directed(r)
<1>1. /\ Rows \in Nat \ {0} /\ Cols \in Nat \ {0} /\ r \in Nat /\ progress["cdef"][<<0, r>>] \in Nat
      /\ Width("cdef", <<0, r>>) = Cols
  BY RowFacts DEF Filters
<1>2. PixelsTo(r + 1) /\ DeblockedTo(r + 1)
  <2>1. CASE Enabled("cdef")
    <3>1. progress["cdef"][<<0, r>>] > 0
      BY <1>1, <2>1 DEF FinishRow
    <3> QED BY <3>1 DEF CdefOrdered
  <2>2. CASE ~Enabled("cdef")
    <3>1. RowReady("cdef", <<0, r>>)
      BY <2>2 DEF FinishRow
    <3> QED BY <3>1, CdefReady
  <2> QED BY <2>1, <2>2
<1>3. Directed(r)
  BY <1>1 DEF FinishRow, Enabled, Directed
<1> QED BY <1>1, <1>2, <1>3, RowsToFacts DEF PixelsTo, DeblockedTo

LEMMA LrSuperblock ==
    ASSUME Types, frame > 0, CdefOrdered, LrOrdered, NEW t \in Threads, DoSuperblock(t, "lr"),
           NEW r \in 0 .. Rows - 1, job[t] = <<0, r>>
    PROVE  PixelsTo(r) /\ DeblockedTo(r) /\ DirectedTo(r)
<1>1. Rows \in Nat \ {0} /\ r \in Nat /\ progress["lr"][<<0, r>>] \in Nat
  BY RowFacts DEF Filters
<1>2. CASE progress["lr"][<<0, r>>] # 0
  BY <1>1, <1>2 DEF LrOrdered
<1>3. CASE progress["lr"][<<0, r>>] = 0
  <2>1. <<0, r>> \in rowMap["cdef"]
    BY <1>3 DEF DoSuperblock, RowReady
  <2>2. PixelsTo(r) /\ DeblockedTo(r) /\ Directed(r)
    BY <2>1 DEF CdefOrdered
  <2>3. CASE r = 0
    <3>1. \A x \in RowsTo(r) : x = r
      BY <1>1, <2>3, RowFacts
    <3> QED BY <2>2, <3>1 DEF DirectedTo
  <2>4. CASE r # 0
    <3>1. r \in 1 .. Rows - 1 /\ r - 1 \in 0 .. Rows - 1 /\ (r - 1) + 1 = r /\ r - 1 \in Nat
      BY <1>1, <2>4
    <3>2. progress["lr"][<<0, r - 1>>] > 0
      BY <3>1, AboveStarted
    <3>3. DirectedTo(r - 1)
      BY <3>1, <3>2 DEF LrOrdered
    <3>4. RowsTo((r - 1) + 1) \subseteq RowsTo(r - 1) \cup ({(r - 1) + 1} \cap (0 .. Rows - 1))
      BY <3>1, RowsToFacts
    <3>5. \A x \in RowsTo(r) : x \in RowsTo(r - 1) \/ x = r
      BY <3>1, <3>4
    <3> QED BY <2>2, <3>3, <3>5 DEF DirectedTo
  <2> QED BY <2>3, <2>4
<1> QED BY <1>2, <1>3

LEMMA SuperblockOnly ==
    ASSUME BaseInvariant, NEW t \in Threads, NEW s \in RowStages, DoSuperblock(t, s)
    PROVE  /\ frame > 0 /\ job[t] \in Jobs(s) /\ UNCHANGED <<stream, frame, rowMap>>
           /\ \A x \in RowStages : x # s => progress'[x] = progress[x]
           /\ \A j \in Jobs(s) : j # job[t] => progress'[s][j] = progress[s][j]
           /\ progress'[s][job[t]] = progress[s][job[t]] + 1
           /\ progress[s][job[t]] \in Nat /\ progress[s][job[t]] < WidthOf(s, job[t])
<1>1. /\ Types /\ At(t, s, "run") /\ UNCHANGED <<stream, frame, rowMap>> /\ s \in Stages \ {"parse"}
      /\ progress' = [progress EXCEPT ![s][job[t]] = progress[s][job[t]] + 1]
      /\ progress[s][job[t]] < Width(s, job[t])
  BY StageFacts DEF DoSuperblock, BaseInvariant
<1>2. frame > 0
  BY <1>1, AtPlace, FrameHasBegun
<1>3. job[t] \in Jobs(s) /\ progress[s] \in [Jobs(s) -> Nat]
  BY <1>1 DEF BaseInvariant, InRange, AtRow, Types
<1>4. /\ \A x \in RowStages : x # s => progress'[x] = progress[x]
      /\ progress'[s] = [progress[s] EXCEPT ![job[t]] = progress[s][job[t]] + 1]
  BY <1>1 DEF Types
<1>5. Width(s, job[t]) = WidthOf(s, job[t])
  BY <1>1, <1>2, <1>3, WidthFacts
<1> QED BY <1>1, <1>2, <1>3, <1>4, <1>5

LEMMA NextKeepsBounded == BaseInvariant /\ Bounded /\ [Next]_vars => Bounded'
<1> SUFFICES ASSUME BaseInvariant, Bounded, [Next]_vars, NEW s \in RowStages
             PROVE  \A j \in Jobs(s)' : progress'[s][j] <= WidthOf(s, j)'
  BY DEF Bounded
<1>1. Types /\ stream \in Streams /\ s \in Stages
  BY StageFacts DEF BaseInvariant, Types
<1>2. \A j \in Jobs(s) : WidthOf(s, j) \in Nat
  <2>1. stream[1].cols \in Nat /\ stream[1].tiles \in Seq(Tile)
    BY <1>1, FirstFrameFacts DEF Frames
  <2>2. CASE s = "recon"
    <3>1. \A k \in DOMAIN stream[1].tiles : stream[1].tiles[k] \in Tile
      BY <2>1
    <3>2. \A j \in Jobs(s) : j[1] \in DOMAIN stream[1].tiles
      BY <1>1, <2>2, JobsFacts
    <3> QED BY <2>2, <3>1, <3>2 DEF WidthOf, Tile
  <2>3. CASE s # "recon"
    BY <2>1, <2>3 DEF WidthOf
  <2> QED BY <2>2, <2>3
<1>3. CASE \E t \in Threads, x \in RowStages : DoSuperblock(t, x)
  <2>1. PICK t \in Threads, x \in RowStages : DoSuperblock(t, x)
    BY <1>3
  <2>2. stream' = stream /\ \A j \in Jobs(s) : progress[s][j] <= WidthOf(s, j)
    BY <2>1, SuperblockOnly DEF Bounded
  <2>3. Jobs(s)' = Jobs(s) /\ \A j \in Jobs(s) : WidthOf(s, j)' = WidthOf(s, j)
    BY <2>2 DEF Jobs, WidthOf
  <2>4. CASE x # s
    BY <2>1, <2>2, <2>3, <2>4, SuperblockOnly
  <2>5. CASE x = s
    <3>1. \A j \in Jobs(s) : j # job[t] => progress'[s][j] = progress[s][j]
      BY <2>1, <2>5, SuperblockOnly
    <3>2. progress'[s][job[t]] <= WidthOf(s, job[t])
      <4>1. /\ job[t] \in Jobs(s) /\ progress'[s][job[t]] = progress[s][job[t]] + 1
            /\ progress[s][job[t]] \in Nat /\ progress[s][job[t]] < WidthOf(s, job[t])
        BY <2>1, <2>5, SuperblockOnly
      <4> QED BY <1>2, <4>1
    <3> QED BY <2>2, <2>3, <3>1, <3>2
  <2> QED BY <2>4, <2>5
<1>4. CASE /\ stream' = stream
           /\ \A x \in RowStages : progress'[x] = progress[x] \/ \A j \in Jobs(x) : progress'[x][j] = 0
  <2>1. Jobs(s)' = Jobs(s) /\ \A j \in Jobs(s) : WidthOf(s, j)' = WidthOf(s, j)
    BY <1>4 DEF Jobs, WidthOf
  <2> QED BY <1>2, <1>4, <2>1 DEF Bounded
<1> QED BY <1>3, <1>4, ProgressOnly

\* What is final stays so within the frame.
FinalStays ==
    /\ UNCHANGED <<stream, frame>>
    /\ \A s \in RowStages : \A j \in Jobs(s) :
          progress[s][j] = Width(s, j) => progress'[s][j] = progress[s][j]

LEMMA HeaderStays ==
    ASSUME UNCHANGED <<stream, frame>>
    PROVE  /\ Header' = Header /\ Rows' = Rows /\ Cols' = Cols /\ Tiles' = Tiles
           /\ (OrderIsKept' <=> OrderIsKept)
           /\ \A s \in RowStages : Jobs(s)' = Jobs(s) /\ \A j \in Jobs(s) : Width(s, j)' = Width(s, j)
BY DEF Header, Rows, Cols, Tiles, OrderIsKept, Jobs, Width

LEMMA PixelsStay ==
    ASSUME Types, frame > 0, FinalStays, NEW r \in Nat
    PROVE  /\ PixelsTo(r) => PixelsTo(r)'
           /\ DeblockedTo(r) => DeblockedTo(r)'
           /\ DirectedTo(r) => DirectedTo(r)'
           /\ r < Rows /\ Directed(r) => Directed(r)'
<1>1. /\ Header' = Header /\ Rows' = Rows /\ Cols' = Cols /\ Tiles' = Tiles /\ Rows \in Nat \ {0}
      /\ RowsTo(r) = {x \in 0 .. Rows - 1 : x <= r}
  BY HeaderStays, RowFacts DEF FinalStays
<1>2. RowsTo(r)' = RowsTo(r)
  BY <1>1 DEF RowsTo
<1>3. ASSUME NEW x \in 0 .. Rows - 1, Pixels(x) PROVE Pixels(x)'
  <2>1. TileRows(Header) = Jobs("recon")
    <3>1. JobsOf(Header, "recon") = TileRows(Header)
      BY DEF JobsOf
    <3> QED BY <3>1, RowsOfHeader, StageFacts
  <2>2. \A j \in Jobs("recon") : progress["recon"][j] = Width("recon", j) => progress'["recon"][j] = Width("recon", j)
    BY DEF FinalStays, RowStages
  <2>3. \A j \in Jobs("recon") : Width("recon", j)' = Width("recon", j)
    BY <1>1 DEF Width
  <2> QED BY <1>1, <1>3, <2>1, <2>2, <2>3 DEF Pixels
<1>4. ASSUME NEW s \in Filters, NEW x \in 0 .. Rows - 1, progress[s][<<0, x>>] = Cols PROVE progress'[s][<<0, x>>] = Cols
  <2>1. <<0, x>> \in Jobs(s) /\ Width(s, <<0, x>>) = Cols
    BY RowFacts
  <2> QED BY <1>4, <2>1, StageFacts DEF FinalStays
<1>5. ASSUME NEW x \in 0 .. Rows - 1, Deblocked(x) PROVE Deblocked(x)'
  BY <1>1, <1>4, <1>5 DEF Deblocked, Filters
<1>6. ASSUME NEW x \in 0 .. Rows - 1, Directed(x) PROVE Directed(x)'
  BY <1>1, <1>4, <1>6 DEF Directed, Filters
<1>7. \A x \in RowsTo(r) : x \in 0 .. Rows - 1
  BY <1>1
<1>8. PixelsTo(r) => PixelsTo(r)'
  BY <1>2, <1>3, <1>7 DEF PixelsTo
<1>9. DeblockedTo(r) => DeblockedTo(r)'
  BY <1>2, <1>5, <1>7 DEF DeblockedTo
<1>10. DirectedTo(r) => DirectedTo(r)'
  BY <1>2, <1>6, <1>7 DEF DirectedTo
<1>11. r < Rows /\ Directed(r) => Directed(r)'
  <2>1. r < Rows => r \in 0 .. Rows - 1
    BY <1>1
  <2> QED BY <1>6, <2>1
<1> QED BY <1>8, <1>9, <1>10, <1>11

LEMMA LfOrderedStays ==
    ASSUME Types, frame > 0, FinalStays, LfOrdered,
           \A r \in 0 .. Rows - 1 :
              /\ progress'["lf"][<<0, r>>] > 0 => progress["lf"][<<0, r>>] > 0 \/ PixelsTo(r + 1)
              /\ <<0, r>> \in rowMap'["lf"] => <<0, r>> \in rowMap["lf"] \/ (PixelsTo(r) /\ DeblockedTo(r))
    PROVE  LfOrdered'
<1>1. Rows' = Rows /\ Rows \in Nat
  BY HeaderStays, RowFacts DEF FinalStays
<1>2. ASSUME NEW r \in 0 .. Rows - 1
      PROVE  /\ progress'["lf"][<<0, r>>] > 0 => PixelsTo(r + 1)'
             /\ <<0, r>> \in rowMap'["lf"] => PixelsTo(r)' /\ DeblockedTo(r)'
  <2>1. r \in Nat /\ r + 1 \in Nat
    BY <1>1
  <2>2. /\ progress'["lf"][<<0, r>>] > 0 => PixelsTo(r + 1)
        /\ <<0, r>> \in rowMap'["lf"] => PixelsTo(r) /\ DeblockedTo(r)
    BY <1>2 DEF LfOrdered
  <2>3. PixelsTo(r + 1) => PixelsTo(r + 1)'
    BY <2>1, PixelsStay
  <2> QED BY <2>1, <2>2, <2>3, PixelsStay
<1> QED BY <1>1, <1>2 DEF LfOrdered

LEMMA CdefOrderedStays ==
    ASSUME Types, frame > 0, FinalStays, CdefOrdered,
           \A r \in 0 .. Rows - 1 :
              /\ progress'["cdef"][<<0, r>>] > 0
                    => progress["cdef"][<<0, r>>] > 0 \/ (PixelsTo(r + 1) /\ DeblockedTo(r + 1))
              /\ <<0, r>> \in rowMap'["cdef"]
                    => <<0, r>> \in rowMap["cdef"] \/ (PixelsTo(r) /\ DeblockedTo(r) /\ Directed(r))
    PROVE  CdefOrdered'
<1>1. Rows' = Rows /\ Rows \in Nat
  BY HeaderStays, RowFacts DEF FinalStays
<1>2. ASSUME NEW r \in 0 .. Rows - 1
      PROVE  /\ progress'["cdef"][<<0, r>>] > 0 => PixelsTo(r + 1)' /\ DeblockedTo(r + 1)'
             /\ <<0, r>> \in rowMap'["cdef"] => PixelsTo(r)' /\ DeblockedTo(r)' /\ Directed(r)'
  <2>1. r \in Nat /\ r + 1 \in Nat /\ r < Rows
    BY <1>1
  <2>2. /\ progress'["cdef"][<<0, r>>] > 0 => PixelsTo(r + 1) /\ DeblockedTo(r + 1)
        /\ <<0, r>> \in rowMap'["cdef"] => PixelsTo(r) /\ DeblockedTo(r) /\ Directed(r)
    BY <1>2 DEF CdefOrdered
  <2>3. (PixelsTo(r + 1) => PixelsTo(r + 1)') /\ (DeblockedTo(r + 1) => DeblockedTo(r + 1)')
    BY <2>1, PixelsStay
  <2> QED BY <2>1, <2>2, <2>3, PixelsStay
<1> QED BY <1>1, <1>2 DEF CdefOrdered

LEMMA LrOrderedStays ==
    ASSUME Types, frame > 0, FinalStays, LrOrdered,
           \A r \in 0 .. Rows - 1 :
              progress'["lr"][<<0, r>>] > 0
                    => progress["lr"][<<0, r>>] > 0 \/ (PixelsTo(r) /\ DeblockedTo(r) /\ DirectedTo(r))
    PROVE  LrOrdered'
<1>1. Rows' = Rows /\ Rows \in Nat
  BY HeaderStays, RowFacts DEF FinalStays
<1>2. ASSUME NEW r \in 0 .. Rows - 1, progress'["lr"][<<0, r>>] > 0
      PROVE  PixelsTo(r)' /\ DeblockedTo(r)' /\ DirectedTo(r)'
  <2>1. r \in Nat
    BY <1>1
  <2>2. PixelsTo(r) /\ DeblockedTo(r) /\ DirectedTo(r)
    BY <1>2 DEF LrOrdered
  <2> QED BY <2>1, <2>2, PixelsStay
<1> QED BY <1>1, <1>2 DEF LrOrdered

LEMMA ReconOrderedStays ==
    ASSUME FinalStays, \A j \in rowMap'["recon"] : j \in Jobs("recon") /\ progress["recon"][j] = Width("recon", j)
    PROVE  ReconOrdered'
<1>1. \A j \in Jobs("recon") : Width("recon", j)' = Width("recon", j)
  BY HeaderStays DEF FinalStays, RowStages
<1> QED BY <1>1 DEF ReconOrdered, FinalStays, RowStages

LEMMA FinishOnly ==
    ASSUME BaseInvariant, NEW t \in Threads, NEW s \in RowStages, FinishRow(t, s)
    PROVE  /\ UNCHANGED <<stream, frame, progress>> /\ job[t] \in Jobs(s)
           /\ rowMap'[s] = rowMap[s] \cup Reported(s, job[t])
           /\ \A x \in RowStages : x # s => rowMap'[x] = rowMap[x]
<1>1. /\ Types /\ At(t, s, "run") /\ UNCHANGED <<stream, frame, progress>> /\ s \in Stages \ {"parse"}
      /\ rowMap' = [rowMap EXCEPT ![s] = @ \cup Reported(s, job[t])]
      /\ RowStages \subseteq Stages \ {"parse"}
  BY StageFacts DEF FinishRow, BaseInvariant
<1>2. job[t] \in Jobs(s)
  BY <1>1 DEF BaseInvariant, InRange, AtRow
<1>3. \A x \in RowStages : x # s => rowMap'[x] = rowMap[x]
  BY <1>1 DEF Types
<1>4. rowMap'[s] = rowMap[s] \cup Reported(s, job[t])
  BY <1>1 DEF Types
<1> QED BY <1>1, <1>2, <1>3, <1>4

\* What a thread's step may do to the rows of a stage.
LEMMA StepEffect ==
    ASSUME BaseInvariant, NEW t \in Threads, ThreadStep(t)
    PROVE  /\ UNCHANGED <<stream, frame>>
           /\ \A s \in RowStages : /\ progress'[s] = progress[s] \/ DoSuperblock(t, s)
                                   /\ rowMap'[s] = rowMap[s] \/ FinishRow(t, s)
<1>1. UNCHANGED <<stream, frame>>
  BY ThreadStepOnly DEF BaseInvariant
<1>2. CASE IdleStep(t) \/ ClaimMotionRow(t) \/ ClaimTile(t) \/ ParseRow(t) \/ PickTile(t) \/ ClaimTileRow(t)
           \/ (\E s \in Filters : ClaimFilterRow(t, s))
  <2>1. UNCHANGED <<progress, rowMap>>
    BY <1>2, IdleStepOnly DEF ClaimMotionRow, ClaimTile, ParseRow, PickTile, ClaimTileRow, ClaimFilterRow
  <2> QED BY <1>1, <2>1
<1>3. CASE ProjectRow(t)
  <2>1. UNCHANGED progress /\ \A s \in RowStages : rowMap'[s] = rowMap[s]
    BY <1>3, StageFacts DEF ProjectRow, BaseInvariant, Types
  <2> QED BY <1>1, <2>1
<1>4. ASSUME NEW x \in RowStages, DoSuperblock(t, x)
      PROVE  \A s \in RowStages : /\ progress'[s] = progress[s] \/ DoSuperblock(t, s)
                                  /\ rowMap'[s] = rowMap[s]
  BY <1>4, SuperblockOnly
<1>5. ASSUME NEW x \in RowStages, FinishRow(t, x)
      PROVE  \A s \in RowStages : /\ progress'[s] = progress[s]
                                  /\ rowMap'[s] = rowMap[s] \/ FinishRow(t, s)
  BY <1>5, FinishOnly
<1> QED BY <1>1, <1>2, <1>3, <1>4, <1>5 DEF ThreadStep, IdleStep

LEMMA ThreadKeepsFinal ==
    ASSUME BaseInvariant, frame > 0, NEW t \in Threads, ThreadStep(t)
    PROVE  FinalStays
<1>1. UNCHANGED <<stream, frame>>
  BY StepEffect
<1>2. ASSUME NEW s \in RowStages, NEW j \in Jobs(s), progress[s][j] = Width(s, j) PROVE progress'[s][j] = progress[s][j]
  <2>1. CASE progress'[s] = progress[s]
    BY <2>1
  <2>2. CASE DoSuperblock(t, s)
    <3>1. Width(s, j) = WidthOf(s, j)
      BY WidthFacts DEF BaseInvariant
    <3>2. j # job[t]
      BY <1>2, <2>2, <3>1, SuperblockOnly
    <3> QED BY <2>2, <3>2, SuperblockOnly
  <2> QED BY <2>1, <2>2, StepEffect
<1> QED BY <1>1, <1>2 DEF FinalStays

LEMMA ThreadKeepsOrdered ==
    ASSUME Hinted, FrameInvariant, WavefrontInvariant, Bounded, Ordered, ~ended, NEW t \in Threads, ThreadStep(t)
    PROVE  Ordered'
<1>1. BaseInvariant /\ Types /\ Phases /\ UNCHANGED <<stream, frame>> /\ {"lf", "cdef", "lr"} \subseteq RowStages
  BY StepEffect DEF FrameInvariant, BaseInvariant, RowStages, Filters
<1>2. (OrderIsKept' <=> OrderIsKept)
  BY <1>1, HeaderStays
<1>3. ASSUME NEW s \in {"lf", "cdef", "lr"} PROVE Queued(s) => InWorking /\ Queued("recon") /\ frame > 0
  BY <1>1, QueuedFacts DEF InWorking
<1>4. (Queued("lr") => Queued("lf")) /\ (Queued("recon") => frame > 0)
  <2>1. Queued("lr") => Queued("lf")
    BY QueuedFacts DEF LateStages
  <2>2. Queued("recon") => frame > 0
    BY <1>1, QueuedBegun, StageFacts
  <2> QED BY <2>1, <2>2
<1>5. Staircase("recon") /\ Staircase("lf")
  BY DEF WavefrontInvariant, KeepsOrder, RowStages, Filters
<1>6. (Queued("recon") => ReconOrdered) /\ (Queued("recon")' => Queued("recon"))
      /\ (Queued("lf")' => Queued("lf")) /\ (Queued("lr")' => Queued("lr"))
  <2>1. Queued("recon") => ReconOrdered
    BY DEF Ordered
  <2>2. {"recon", "lf", "lr"} \subseteq Stages \ {"parse"}
    BY DEF Stages, RowStages, Filters
  <2>3. Queued("recon")' => Queued("recon")
    BY <1>1, <2>2, QueuedBack
  <2>4. Queued("lf")' => Queued("lf")
    BY <1>1, <2>2, QueuedBack
  <2>5. Queued("lr")' => Queued("lr")
    BY <1>1, <2>2, QueuedBack
  <2> QED BY <2>1, <2>3, <2>4, <2>5
<1>7. ASSUME NEW s \in Filters, frame > 0, DoSuperblock(t, s) \/ FinishRow(t, s)
      PROVE  \E q \in 0 .. Rows - 1 : job[t] = <<0, q>>
  <2>1. job[t] \in Jobs(s)
    BY <1>1, <1>7, SuperblockOnly, FinishOnly, StageFacts
  <2> QED BY <1>1, <1>7, <2>1, RowFacts
<1>8. ASSUME NEW s \in Filters, frame > 0, NEW r \in 0 .. Rows - 1, progress'[s][<<0, r>>] > 0, ~(progress[s][<<0, r>>] > 0)
      PROVE  DoSuperblock(t, s) /\ job[t] = <<0, r>>
  <2>1. DoSuperblock(t, s)
    BY <1>1, <1>8, StepEffect, StageFacts
  <2>2. <<0, r>> \in Jobs(s)
    BY <1>1, <1>8, RowFacts
  <2> QED BY <1>1, <1>8, <2>1, <2>2, SuperblockOnly, StageFacts
<1>9. ASSUME Queued("recon")' PROVE ReconOrdered'
  <2>1. Queued("recon") /\ ReconOrdered /\ frame > 0 /\ FinalStays
    BY <1>1, <1>4, <1>6, <1>9, ThreadKeepsFinal
  <2>2. rowMap["recon"] \subseteq Jobs("recon")
    BY <2>1, StageFacts DEF FrameInvariant, Work, Covered
  <2>3. CASE rowMap'["recon"] = rowMap["recon"]
    BY <2>1, <2>2, <2>3, ReconOrderedStays DEF ReconOrdered
  <2>4. CASE FinishRow(t, "recon")
    <3>1. /\ rowMap'["recon"] = rowMap["recon"] \cup {job[t]} /\ job[t] \in Jobs("recon")
      BY <1>1, <2>4, FinishOnly DEF Reported, RowStages
    <3>2. progress["recon"][job[t]] = Width("recon", job[t])
      BY <2>4 DEF FinishRow, Enabled
    <3> QED BY <2>1, <2>2, <3>1, <3>2, ReconOrderedStays DEF ReconOrdered
  <2> QED BY <1>1, <2>3, <2>4, StepEffect DEF RowStages
<1>10. ASSUME Queued("lf")', OrderIsKept' PROVE LfOrdered' /\ CdefOrdered'
  <2>1. /\ Queued("lf") /\ Queued("recon") /\ OrderIsKept /\ ReconOrdered /\ LfOrdered /\ CdefOrdered
        /\ frame > 0 /\ FinalStays /\ Rows \in Nat
    BY <1>1, <1>2, <1>3, <1>6, <1>10, ThreadKeepsFinal, RowFacts DEF Ordered
  <2>2. ASSUME NEW r \in 0 .. Rows - 1
        PROVE  /\ progress'["lf"][<<0, r>>] > 0 => progress["lf"][<<0, r>>] > 0 \/ PixelsTo(r + 1)
               /\ <<0, r>> \in rowMap'["lf"] => <<0, r>> \in rowMap["lf"] \/ (PixelsTo(r) /\ DeblockedTo(r))
    <3>1. ASSUME progress'["lf"][<<0, r>>] > 0, ~(progress["lf"][<<0, r>>] > 0) PROVE PixelsTo(r + 1)
      <4>1. DoSuperblock(t, "lf") /\ job[t] = <<0, r>>
        BY <1>8, <2>1, <3>1 DEF Filters
      <4> QED BY <1>1, <2>1, <4>1, LfSuperblock
    <3>2. ASSUME <<0, r>> \in rowMap'["lf"], <<0, r>> \notin rowMap["lf"] PROVE PixelsTo(r) /\ DeblockedTo(r)
      <4>1. FinishRow(t, "lf")
        BY <1>1, <3>2, StepEffect
      <4>2. PICK q \in 0 .. Rows - 1 : job[t] = <<0, q>>
        BY <1>7, <2>1, <4>1 DEF Filters
      <4>3. PixelsTo(q) /\ DeblockedTo(q)
        BY <1>1, <1>5, <2>1, <4>1, <4>2, LfRow
      <4>4. <<0, r>> \in Reported("lf", <<0, q>>)
        BY <1>1, <3>2, <4>1, <4>2, FinishOnly
      <4>5. r <= q /\ r \in Nat /\ q \in Nat
        BY <2>1, <4>4 DEF Reported
      <4>6. RowsTo(r) \subseteq RowsTo(q)
        BY <1>1, <2>1, <4>5, RowsToFacts
      <4> QED BY <4>3, <4>6 DEF PixelsTo, DeblockedTo
    <3> QED BY <3>1, <3>2
  <2>3. ASSUME NEW r \in 0 .. Rows - 1
        PROVE  /\ progress'["cdef"][<<0, r>>] > 0
                     => progress["cdef"][<<0, r>>] > 0 \/ (PixelsTo(r + 1) /\ DeblockedTo(r + 1))
               /\ <<0, r>> \in rowMap'["cdef"]
                     => <<0, r>> \in rowMap["cdef"] \/ (PixelsTo(r) /\ DeblockedTo(r) /\ Directed(r))
    <3>1. ASSUME progress'["cdef"][<<0, r>>] > 0, ~(progress["cdef"][<<0, r>>] > 0)
          PROVE  PixelsTo(r + 1) /\ DeblockedTo(r + 1)
      <4>1. DoSuperblock(t, "cdef") /\ job[t] = <<0, r>>
        BY <1>8, <2>1, <3>1 DEF Filters
      <4> QED BY <1>1, <2>1, <4>1, CdefSuperblock
    <3>2. ASSUME <<0, r>> \in rowMap'["cdef"], <<0, r>> \notin rowMap["cdef"]
          PROVE  PixelsTo(r) /\ DeblockedTo(r) /\ Directed(r)
      <4>1. FinishRow(t, "cdef")
        BY <1>1, <3>2, StepEffect
      <4>2. PICK q \in 0 .. Rows - 1 : job[t] = <<0, q>>
        BY <1>7, <2>1, <4>1 DEF Filters
      <4>3. <<0, r>> \in Reported("cdef", <<0, q>>)
        BY <1>1, <3>2, <4>1, <4>2, FinishOnly
      <4>4. r = q
        BY <4>3 DEF Reported
      <4> QED BY <1>1, <2>1, <4>1, <4>2, <4>4, CdefRow
    <3> QED BY <3>1, <3>2
  <2> QED BY <1>1, <2>1, <2>2, <2>3, LfOrderedStays, CdefOrderedStays
<1>11. ASSUME Queued("lr")', OrderIsKept' PROVE LrOrdered'
  <2>1. /\ Queued("lr") /\ Queued("lf") /\ OrderIsKept /\ CdefOrdered /\ LrOrdered
        /\ frame > 0 /\ FinalStays /\ Rows \in Nat
    BY <1>1, <1>2, <1>3, <1>4, <1>6, <1>11, ThreadKeepsFinal, RowFacts DEF Ordered
  <2>2. ASSUME NEW r \in 0 .. Rows - 1, progress'["lr"][<<0, r>>] > 0, ~(progress["lr"][<<0, r>>] > 0)
        PROVE  PixelsTo(r) /\ DeblockedTo(r) /\ DirectedTo(r)
    <3>1. DoSuperblock(t, "lr") /\ job[t] = <<0, r>>
      BY <1>8, <2>1, <2>2 DEF Filters
    <3> QED BY <1>1, <2>1, <3>1, LrSuperblock
  <2> QED BY <1>1, <2>1, <2>2, LrOrderedStays
<1> QED BY <1>9, <1>10, <1>11 DEF Ordered

LEMMA PixelsKept ==
    ASSUME UNCHANGED <<stream, frame>>, progress'["recon"] = progress["recon"], NEW r
    PROVE  /\ (PixelsTo(r)' <=> PixelsTo(r))
           /\ progress'["lf"] = progress["lf"] => (DeblockedTo(r)' <=> DeblockedTo(r))
           /\ progress'["cdef"] = progress["cdef"]
                 => (DirectedTo(r)' <=> DirectedTo(r)) /\ (Directed(r)' <=> Directed(r))
<1>1. Rows' = Rows /\ Header' = Header /\ Cols' = Cols /\ Tiles' = Tiles
  BY HeaderStays
<1>2. (PixelsTo(r)' <=> PixelsTo(r))
  <2>1. \A j \in TileRows(Header) : Width("recon", j)' = Width("recon", j)
    BY <1>1 DEF Width
  <2> QED BY <1>1, <2>1 DEF PixelsTo, Pixels, RowsTo
<1>3. ASSUME progress'["lf"] = progress["lf"] PROVE (DeblockedTo(r)' <=> DeblockedTo(r))
  BY <1>1, <1>3 DEF DeblockedTo, Deblocked, RowsTo
<1>4. ASSUME progress'["cdef"] = progress["cdef"]
      PROVE  (DirectedTo(r)' <=> DirectedTo(r)) /\ (Directed(r)' <=> Directed(r))
  BY <1>1, <1>4 DEF DirectedTo, Directed, RowsTo
<1> QED BY <1>2, <1>3, <1>4

LEMMA ReconOrderedKept ==
    ASSUME Work, ~ended, Queued("recon"), ReconOrdered, UNCHANGED <<stream, frame>>,
           progress'["recon"] = progress["recon"], rowMap'["recon"] = rowMap["recon"]
    PROVE  ReconOrdered'
<1>1. \A j \in rowMap["recon"] : j \in Jobs("recon")
  BY StageFacts DEF Work, Covered
<1>2. \A j \in Jobs("recon") : Width("recon", j)' = Width("recon", j)
  BY HeaderStays DEF RowStages
<1> QED BY <1>1, <1>2 DEF ReconOrdered

LEMMA FiltersKept ==
    ASSUME UNCHANGED <<stream, frame>>, LfOrdered, CdefOrdered, progress'["recon"] = progress["recon"],
           \A s \in {"lf", "cdef"} : progress'[s] = progress[s] /\ rowMap'[s] = rowMap[s]
    PROVE  LfOrdered' /\ CdefOrdered'
<1>1. Rows' = Rows
  BY HeaderStays
<1>2. ASSUME NEW r \in 0 .. Rows - 1
      PROVE  /\ progress'["lf"][<<0, r>>] > 0 => PixelsTo(r + 1)'
             /\ <<0, r>> \in rowMap'["lf"] => PixelsTo(r)' /\ DeblockedTo(r)'
             /\ progress'["cdef"][<<0, r>>] > 0 => PixelsTo(r + 1)' /\ DeblockedTo(r + 1)'
             /\ <<0, r>> \in rowMap'["cdef"] => PixelsTo(r)' /\ DeblockedTo(r)' /\ Directed(r)'
  <2>1. /\ (PixelsTo(r + 1)' <=> PixelsTo(r + 1)) /\ (DeblockedTo(r + 1)' <=> DeblockedTo(r + 1))
    BY PixelsKept
  <2>2. /\ (PixelsTo(r)' <=> PixelsTo(r)) /\ (DeblockedTo(r)' <=> DeblockedTo(r)) /\ (Directed(r)' <=> Directed(r))
    BY PixelsKept
  <2> QED BY <2>1, <2>2 DEF LfOrdered, CdefOrdered
<1>3. LfOrdered'
  BY <1>1, <1>2 DEF LfOrdered
<1>4. CdefOrdered'
  BY <1>1, <1>2 DEF CdefOrdered
<1> QED BY <1>3, <1>4

LEMMA LrOrderedKept ==
    ASSUME UNCHANGED <<stream, frame>>, LrOrdered,
           \A s \in RowStages : progress'[s] = progress[s]
    PROVE  LrOrdered'
<1>1. Rows' = Rows /\ {"recon", "lf", "cdef", "lr"} \subseteq RowStages
  BY HeaderStays DEF RowStages, Filters
<1>2. ASSUME NEW r \in 0 .. Rows - 1, progress'["lr"][<<0, r>>] > 0
      PROVE  PixelsTo(r)' /\ DeblockedTo(r)' /\ DirectedTo(r)'
  <2>1. (PixelsTo(r)' <=> PixelsTo(r)) /\ (DeblockedTo(r)' <=> DeblockedTo(r)) /\ (DirectedTo(r)' <=> DirectedTo(r))
    BY <1>1, PixelsKept
  <2> QED BY <1>1, <1>2, <2>1 DEF LrOrdered
<1> QED BY <1>1, <1>2 DEF LrOrdered

\* With the rows left alone.
LEMMA OrderedKept ==
    ASSUME Work, Ordered, ~ended, UNCHANGED <<stream, frame, progress, rowMap>>,
           Queued("recon")' => Queued("recon"),
           Queued("lf")' => Queued("lf"), Queued("lr")' => Queued("lr")
    PROVE  Ordered'
<1>1. (OrderIsKept' <=> OrderIsKept)
  BY HeaderStays
<1>2. Queued("recon")' => ReconOrdered'
  BY ReconOrderedKept DEF Ordered
<1>3. Queued("lf")' /\ OrderIsKept' => LfOrdered' /\ CdefOrdered'
  BY <1>1, FiltersKept DEF Ordered
<1>4. Queued("lr")' /\ OrderIsKept' => LrOrdered'
  BY <1>1, LrOrderedKept DEF Ordered
<1> QED BY <1>2, <1>3, <1>4 DEF Ordered

LEMMA MainKeepsOrdered ==
    ASSUME Hinted, FrameInvariant, Ordered, MainStep, ~ended'
    PROVE  Ordered'
<1>1. /\ BaseInvariant /\ Types /\ Phases /\ Work /\ Next /\ Phases' /\ ~ended /\ Main \in Threads
  BY NextKeepsPhases, EndedStays, CountFacts DEF FrameInvariant, BaseInvariant, Next
<1>2. pc[Main][1] # "close"
  BY <1>1 DEF Phases, First, BaseInvariant, BeforeFirst, At, InOpening, InProjecting, InTurning, InWorking,
     MainPlaces, LatePlaces, LateStages
<1>3. ASSUME NEW place \in Places, GoTo(Main, place) PROVE pc'[Main] = place
  BY <1>1, <1>3, MoveFacts
<1>4. \A p \in MainSteps : <<"main", p>> \in Places
  BY DEF Places
<1>5. {<<"motion", "start">>, <<"parse", "start">>, <<"lr", "start">>} \subseteq Places
  BY DEF Places, Stages, RowStages, Filters, Steps
<1>6. CASE ~InWorking' /\ pc'[Main] # <<"main", "startParse">>
  BY <1>6, QueuedFacts DEF Ordered
<1>7. CASE Begin
  <2>1. pc'[Main] = <<"main", "startMotion">>
    BY <1>3, <1>4, <1>7 DEF Begin, MainSteps
  <2> QED BY <1>6, <2>1 DEF InWorking, MainPlaces, LatePlaces, LateStages
<1>8. CASE StartMotion
  <2>1. pc'[Main] = <<"motion", "start">>
    BY <1>3, <1>5, <1>8 DEF StartMotion, SetStart
  <2> QED BY <1>6, <2>1 DEF InWorking, MainPlaces, LatePlaces, LateStages
<1>9. CASE Queue /\ At(Main, "main", "queueParse")
  <2>1. /\ pc'[Main] = <<"main", "startParse">> /\ QueueParse /\ UNCHANGED <<stream, frame, progress>>
    BY <1>3, <1>4, <1>9, AtPlace DEF Queue, At, MainSteps
  <2>2. ~InWorking' /\ rowMap'["recon"] = {}
    BY <1>1, <2>1, StageFacts DEF InWorking, MainPlaces, LatePlaces, LateStages, QueueParse, Types
  <2> QED BY <2>2, QueuedFacts DEF Ordered, ReconOrdered
<1>10. CASE StartParse \/ StartFilters
  <2>1. /\ UNCHANGED <<stream, frame, progress, rowMap>> /\ Header' = Header
        /\ \/ pc[Main] = <<"main", "startParse">> /\ pc'[Main] = <<"main", "queueFilters">>
           \/ pc[Main] = <<"main", "startLf">> /\ pc'[Main] = <<"main", "startCdef">>
           \/ /\ pc[Main] = <<"main", "startCdef">>
              /\ pc'[Main] = IF Header.upscale THEN <<"parse", "start">> ELSE <<"main", "queueLr">>
           \/ pc[Main] = <<"main", "startLr">> /\ pc'[Main] = <<"lr", "start">>
    BY <1>3, <1>4, <1>5, <1>10 DEF StartParse, StartFilters, SetStart, AfterStart, At, MainSteps, rowVars, Header
  <2>2. InWorking \/ pc[Main] = <<"main", "startParse">>
    BY <1>1, <2>1 DEF Phases, BaseInvariant, BeforeFirst, First, At, InOpening, InProjecting, InTurning
  <2>3. Queued("recon") /\ (Queued("lf")' => Queued("lf")) /\ (Queued("lr")' => Queued("lr"))
    BY <2>1, <2>2, QueuedFacts DEF LateStages
  <2> QED BY <1>1, <2>1, <2>3, OrderedKept DEF FrameInvariant
<1>11. ASSUME Queue, NEW p \in {"queueFilters", "queueLr"}, At(Main, "main", p) PROVE InWorking
  BY <1>1, <1>11 DEF Phases, At, BaseInvariant, BeforeFirst, First, InOpening, InProjecting, InTurning
<1>12. ASSUME NEW S \in SUBSET Filters, QueueFilters(S), UNCHANGED <<stream, frame>>, frame > 0
       PROVE  \A s \in RowStages : /\ s \notin S => progress'[s] = progress[s] /\ rowMap'[s] = rowMap[s]
                                   /\ s \in S => rowMap'[s] = {} /\ \A r \in 0 .. Rows - 1 : progress'[s][<<0, r>>] = 0
  <2>1. ASSUME NEW s \in RowStages
        PROVE  /\ rowMap'[s] = IF s \in S THEN {} ELSE rowMap[s]
               /\ progress'[s] = IF s \in S THEN NothingDone(Header, s) ELSE progress[s]
    <3>1. s \in DOMAIN rowMap
      BY <1>1, StageFacts DEF Types
    <3> QED BY <1>12, <3>1 DEF QueueFilters
  <2>2. ASSUME NEW s \in S PROVE \A r \in 0 .. Rows - 1 : progress'[s][<<0, r>>] = 0
    <3>1. s \in RowStages /\ s \in Stages /\ s \in Filters
      BY StageFacts
    <3>2. JobsOf(Header, s) = Jobs(s) /\ \A r \in 0 .. Rows - 1 : <<0, r>> \in Jobs(s)
      BY <1>1, <1>12, <3>1, RowsOfHeader, RowFacts
    <3> QED BY <2>1, <2>2, <3>1, <3>2 DEF NothingDone
  <2> QED BY <2>1, <2>2
<1>13. CASE Queue /\ At(Main, "main", "queueFilters")
  <2>1. /\ QueueFilters({"lf", "cdef"}) /\ pc'[Main] = <<"main", "startLf">> /\ pc[Main] = <<"main", "queueFilters">>
        /\ UNCHANGED <<stream, frame>> /\ InWorking /\ frame > 0
    BY <1>3, <1>4, <1>11, <1>13, AtPlace DEF Queue, At, MainSteps, InWorking
  <2>2. /\ progress'["recon"] = progress["recon"] /\ rowMap'["recon"] = rowMap["recon"]
        /\ \A s \in {"lf", "cdef"} : rowMap'[s] = {} /\ \A r \in 0 .. Rows - 1 : progress'[s][<<0, r>>] = 0
    BY <1>12, <2>1 DEF RowStages, Filters
  <2>3. ~Queued("lr")' /\ Queued("recon")
    BY <2>1, QueuedFacts DEF LateStages
  <2>4. LfOrdered' /\ CdefOrdered'
    <3>1. Rows' = Rows
      BY <2>1, HeaderStays
    <3> QED BY <2>2, <3>1 DEF LfOrdered, CdefOrdered
  <2>5. ReconOrdered'
    BY <1>1, <2>1, <2>2, <2>3, ReconOrderedKept DEF Ordered
  <2> QED BY <2>3, <2>4, <2>5 DEF Ordered
<1>14. CASE Queue /\ At(Main, "main", "queueLr")
  <2>1. /\ QueueFilters({"lr"}) /\ pc[Main] = <<"main", "queueLr">>
        /\ UNCHANGED <<stream, frame>> /\ InWorking /\ frame > 0
    BY <1>11, <1>14, AtPlace DEF Queue, At, InWorking
  <2>2. /\ \A s \in {"recon", "lf", "cdef"} : progress'[s] = progress[s] /\ rowMap'[s] = rowMap[s]
        /\ \A r \in 0 .. Rows - 1 : progress'["lr"][<<0, r>>] = 0
    BY <1>12, <2>1 DEF RowStages, Filters
  <2>3. Queued("recon") /\ Queued("lf")
    BY <2>1, QueuedFacts
  <2>4. LrOrdered'
    <3>1. Rows' = Rows
      BY <2>1, HeaderStays
    <3> QED BY <2>2, <3>1 DEF LrOrdered
  <2>5. ReconOrdered'
    BY <1>1, <2>1, <2>2, <2>3, ReconOrderedKept DEF Ordered
  <2>6. OrderIsKept' => LfOrdered' /\ CdefOrdered'
    BY <1>1, <2>1, <2>2, <2>3, HeaderStays, FiltersKept DEF Ordered
  <2> QED BY <2>4, <2>5, <2>6 DEF Ordered
<1> QED BY <1>1, <1>2, <1>7, <1>8, <1>9, <1>10, <1>13, <1>14, MainPlace

LEMMA NextKeepsOrdered ==
    Hinted => (FrameInvariant /\ WavefrontInvariant /\ Bounded /\ Ordered /\ [Next]_vars => Ordered')
<1> SUFFICES ASSUME Hinted, FrameInvariant, WavefrontInvariant, Bounded, Ordered, [Next]_vars, ~ended'
             PROVE  Ordered'
  BY DEF Ordered
<1>1. CASE Next
  <2>1. ~ended
    BY <1>1, EndedStays
  <2> QED BY <1>1, <2>1, ThreadKeepsOrdered, MainKeepsOrdered DEF Next
<1>2. CASE UNCHANGED vars
  <2>1. UNCHANGED <<stream, frame, ended, start, arrived, mutex, pc, progress, rowMap>>
    BY <1>2 DEF vars, syncVars, rowVars
  <2>2. (InWorking' <=> InWorking) /\ Header' = Header
    BY <2>1 DEF InWorking, Rest, AllRest, MutexIsLast, Into, HasStarted, At, FlagsDown, Header
  <2>3. (Queued("recon")' => Queued("recon")) /\ (Queued("lf")' => Queued("lf")) /\ (Queued("lr")' => Queued("lr"))
    BY <2>1, <2>2, QueuedFacts
  <2> QED BY <2>1, <2>3, OrderedKept DEF FrameInvariant
<1> QED BY <1>1, <1>2

OrderInvariant == FrameInvariant /\ WavefrontInvariant /\ Bounded /\ Ordered

LEMMA OrderInvariantHolds == Hinted => (Spec => []OrderInvariant)
<1>1. Init => Bounded /\ Ordered
  <2> SUFFICES ASSUME Init PROVE Bounded /\ Ordered
    OBVIOUS
  <2>1. Types /\ frame = 0 /\ pc[Main] = <<"main", "begin">>
    BY InitIsBase, CountFacts DEF Init, BaseInvariant
  <2>2. \A s \in RowStages : \A j \in Jobs(s) : progress[s][j] = 0
    BY DEF Init, NothingDone, Jobs
  <2>3. ASSUME NEW s \in RowStages, NEW j \in Jobs(s) PROVE WidthOf(s, j) \in Nat \ {0}
    <3>1. stream \in Streams /\ stream[1] \in Frames
      BY <2>1, FirstFrameFacts DEF Types
    <3>2. stream[1].cols \in Nat \ {0} /\ stream[1].tiles \in Seq(Tile)
      BY <3>1 DEF Frames
    <3>3. s = "recon" => stream[1].tiles[j[1]] \in Tile
      BY <3>1, <3>2, JobsFacts
    <3> QED BY <3>2, <3>3 DEF WidthOf, Tile
  <2>4. ~Queued("recon") /\ ~Queued("lf") /\ ~Queued("lr")
    BY <2>1, QueuedFacts DEF InWorking
  <2> QED BY <2>2, <2>3, <2>4 DEF Bounded, Ordered
<1>2. Hinted => (FrameInvariant /\ WavefrontInvariant /\ Bounded /\ Ordered /\ [Next]_vars => Ordered')
  BY NextKeepsOrdered
<1>3. FrameInvariant /\ Bounded /\ [Next]_vars => Bounded'
  BY NextKeepsBounded DEF FrameInvariant
<1> SUFFICES ASSUME Hinted PROVE Spec => []OrderInvariant
  OBVIOUS
<1>4. Spec => []FrameInvariant
  BY FrameInvariantHolds
<1>5. Spec => []WavefrontInvariant
  BY WavefrontInvariantHolds
<1> QED BY <1>1, <1>2, <1>3, <1>4, <1>5, PTL DEF Spec, OrderInvariant

\* A thread at a row of a filter has found it queued.
LEMMA FilterIsQueued ==
    ASSUME FrameInvariant, NEW t \in Threads, NEW s \in Filters, At(t, s, "run"), frame > 0
    PROVE  /\ ~ended /\ Queued(s)
           /\ \E r \in 0 .. Rows - 1 : job[t] = <<0, r>>
<1>1. /\ BaseInvariant /\ Types /\ pc[t] = <<s, "run">> /\ pc[t][1] = s /\ pc[t][2] = "run"
      /\ s \in {"lf", "cdef", "lr"} /\ t \in Workers \cup {Main}
  <2>1. pc[t] = <<s, "run">> /\ pc[t][1] = s /\ pc[t][2] = "run"
    BY AtPlace DEF At
  <2> QED BY <2>1 DEF FrameInvariant, BaseInvariant, Filters, Threads
<1>2. ~ended
  BY <1>1 DEF FrameInvariant, Closed
<1>3. InWorking
  <2>1. ~First
    BY DEF First
  <2>2. ~InOpening
    BY <1>1 DEF InOpening, Ends, Waiting
  <2>3. ~InProjecting
    BY <1>1 DEF InProjecting, Waiting
  <2>4. ~InTurning
    BY <1>1 DEF InTurning, Waiting
  <2> QED BY <1>2, <2>1, <2>2, <2>3, <2>4 DEF FrameInvariant, Phases
<1>4. Queued(s)
  <2>1. CASE t = Main
    BY <1>1, <1>3, <2>1, QueuedFacts DEF LateStages
  <2>2. CASE t \in Workers
    <3>1. Into(t, s)
      BY <1>1 DEF Into, Waiting
    <3>2. HasStarted(s)
      BY <1>3, <2>2, <3>1 DEF InWorking
    <3> QED BY <1>1, <1>3, <3>2, QueuedFacts DEF HasStarted
  <2> QED BY <1>1, <2>1, <2>2
<1>5. job[t] \in Jobs(s)
  BY <1>1, StageFacts DEF BaseInvariant, InRange, AtRow
<1> QED BY <1>1, <1>2, <1>4, <1>5, RowFacts

LEMMA OrderIsOfFilters == OrderInvariant => FilteredInOrder
<1> SUFFICES ASSUME OrderInvariant, frame > 0, OrderIsKept, NEW t \in Threads
             PROVE  LET r == job[t][2] IN
                    /\ HasFiltered(t, "lf") => PixelsTo(r + 1)
                    /\ HasFiltered(t, "cdef") => PixelsTo(r + 1) /\ DeblockedTo(r + 1)
                    /\ HasFiltered(t, "lr") => PixelsTo(r) /\ DeblockedTo(r) /\ DirectedTo(r)
  <2> QED BY DEF FilteredInOrder, PixelsTo, DeblockedTo, DirectedTo
<1> DEFINE r == job[t][2]
<1>1. ASSUME NEW s \in Filters, HasFiltered(t, s)
      PROVE  /\ ~ended /\ Queued(s) /\ r \in 0 .. Rows - 1 /\ progress[s][<<0, r>>] > 0
  BY <1>1, FilterIsQueued DEF OrderInvariant, HasFiltered
<1>2. "lf" \in Filters /\ "cdef" \in Filters /\ "lr" \in Filters /\ (Queued("cdef") <=> Queued("lf"))
  <2>1. (Queued("cdef") <=> Queued("lf"))
    BY QueuedFacts
  <2> QED BY <2>1 DEF Filters
<1>3. ASSUME HasFiltered(t, "lf") PROVE PixelsTo(r + 1)
  <2>1. LfOrdered /\ r \in 0 .. Rows - 1 /\ progress["lf"][<<0, r>>] > 0
    BY <1>1, <1>2, <1>3 DEF OrderInvariant, Ordered
  <2> QED BY <2>1 DEF LfOrdered
<1>4. ASSUME HasFiltered(t, "cdef") PROVE PixelsTo(r + 1) /\ DeblockedTo(r + 1)
  <2>1. CdefOrdered /\ r \in 0 .. Rows - 1 /\ progress["cdef"][<<0, r>>] > 0
    BY <1>1, <1>2, <1>4 DEF OrderInvariant, Ordered
  <2> QED BY <2>1 DEF CdefOrdered
<1>5. ASSUME HasFiltered(t, "lr") PROVE PixelsTo(r) /\ DeblockedTo(r) /\ DirectedTo(r)
  <2>1. LrOrdered /\ r \in 0 .. Rows - 1 /\ progress["lr"][<<0, r>>] > 0
    BY <1>1, <1>2, <1>5 DEF OrderInvariant, Ordered
  <2> QED BY <2>1 DEF LrOrdered
<1> QED BY <1>3, <1>4, <1>5

\* For any number of threads, frames and tiles, with order hints: no thread deblocks
\* a row before the rows around it are reconstructed, applies CDEF before the rows
\* to the next one are deblocked, or restores one before the rows to it are through
\* CDEF, as long as lf is on or no tile is below another.
THEOREM FiltersAreInOrder ==
    ASSUME Hinted
    PROVE  Spec => []FilteredInOrder
<1>1. Spec => []OrderInvariant
  BY OrderInvariantHolds
<1> QED BY <1>1, OrderIsOfFilters, PTL

=============================================================================
