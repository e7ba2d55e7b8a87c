------------------------------- MODULE EncDec -------------------------------
(***************************************************************************)
(* The EncDec stage on one picture: worker threads (mode_decision_kernel)  *)
(* share the superblocks of the picture's tile groups by means of the      *)
(* segments of EncDecSegments.  A worker that finishes a segment clears    *)
(* the dependencies of its neighbours, goes on with one that became free,  *)
(* and posts a feedback task if two did.  The worker that codes the last   *)
(* superblock has the picture recoded, or hands it on to the loop filters. *)
(*                                                                         *)
(* Tasks travel through a SystemResource: any idle worker takes any posted *)
(* task, and a worker that needs an empty task waits until one is free.    *)
(***************************************************************************)
EXTENDS EncDecSegments, Sequences, Functions

CONSTANTS
    Threads,        \* the mode decision processes
    Layouts,        \* pictures to code: sequences of tile group geometries
    PoolSize,       \* objects of the enc_dec tasks resource
    MaxRecodes      \* bound on recode_loop_decision_maker asking for another pass

ASSUME EncDecAssumption ==
    /\ IsFiniteSet(Threads) /\ Layouts \subseteq Seq(Shapes)
    /\ PoolSize \in Nat /\ MaxRecodes \in Nat

None == -1
Mdc == "MDC"    \* the Mode Decision Configuration process, which posts the picture
ASSUME MdcAssumption == Mdc \notin Threads

VARIABLES
    layout,         \* the picture's tile groups
    current,        \* current_seg_index, per tile group and segment row
    dependency,     \* dependency_map, per tile group and segment
    tasks,          \* tasks posted and not yet taken
    freeTasks,      \* number of empty task objects
    posting,        \* tasks a process has yet to post before it goes on
    pc, task,       \* where each worker is, and the task it holds
    segment,        \* segment_index: the segment it codes, or has just finished
    todo,           \* superblocks of the segment it has still to code
    next,           \* the segment it goes on with, or None
    feedback,       \* feedback_row_index, or None
    coded,          \* coded_sb_count, local to the worker
    codedCount,     \* enc_dec_coded_sb_count of the picture
    recodes,        \* passes asked for so far
    results,        \* EncDecResults posted
    done            \* history: superblocks coded in this pass

segmentVars == <<current, dependency>>
queueVars == <<tasks, freeTasks, posting>>
localVars == <<task, segment, todo, next, feedback, coded>>
pictureVars == <<codedCount, recodes, results>>
vars == <<layout, segmentVars, queueVars, pc, localVars, pictureVars, done>>

\* Tables of what EncDecSegments computes, per geometry.
Geometries == UNION {{l[t] : t \in DOMAIN l} : l \in Layouts}
DependencyTable == [g \in Geometries |-> Dependencies(g)]
WalkTable == [g \in Geometries |->
                 [s \in {x \in Indices(g) : SbsOf(g, x) # {}} |-> Walk(g, s)]]

TileGroups == DOMAIN layout
AllSuperblocks == UNION {{t} \X Superblocks(layout[t]) : t \in TileGroups}

Task(type, t, row) == [type |-> type, group |-> t, row |-> row]
MdcTasks(l) == {Task("MDC_INPUT", t, 0) : t \in DOMAIN l}
NoTask == Task("none", 0, 0)

\* init_enc_dec_segement: the state enc_dec_segments_init leaves.
FirstSegments(l) == [t \in DOMAIN l |-> [r \in Rows(l[t]) |-> StartOf(l[t], r)]]
AllDependencies(l) == [t \in DOMAIN l |-> DependencyTable[l[t]]]

Init ==
    /\ layout \in Layouts
    /\ current = FirstSegments(layout)
    /\ dependency = AllDependencies(layout)
    /\ tasks = {} /\ freeTasks = PoolSize
    /\ posting = [p \in Threads \cup {Mdc} |-> IF p = Mdc THEN MdcTasks(layout) ELSE {}]
    /\ pc = [w \in Threads |-> "idle"]
    /\ task = [w \in Threads |-> NoTask]
    /\ segment = [w \in Threads |-> 0]
    /\ todo = [w \in Threads |-> {}]
    /\ next = [w \in Threads |-> None]
    /\ feedback = [w \in Threads |-> None]
    /\ coded = [w \in Threads |-> 0]
    /\ codedCount = 0 /\ recodes = 0 /\ results = 0
    /\ done = {}

Geometry(w) == layout[task[w].group]
Row(w) == SegmentRow(Geometry(w), segment[w])

\* One task is put in an empty object and posted.
PostTask(k) ==
    /\ freeTasks > 0
    /\ freeTasks' = freeTasks - 1
    /\ tasks' = tasks \cup {k}

-----------------------------------------------------------------------------
\* The MDC process posts the tile groups of the picture; a worker that recodes
\* does the same.  The tile groups go in order of their index.
PostNext(p) ==
    \E k \in posting[p] :
        /\ \A other \in posting[p] : k.group \leq other.group
        /\ PostTask(k)
        /\ posting' = [posting EXCEPT ![p] = @ \ {k}]
        /\ UNCHANGED <<layout, segmentVars, pc, localVars, pictureVars, done>>

\* Bug: what the worker coded for its previous task is still counted.
CountBefore(w) == coded[w]
\* coded_sb_count starts at zero for every task.
StartCount(w) == 0

Take(w) ==
    /\ pc[w] = "idle"
    /\ \E k \in tasks :
          /\ tasks' = tasks \ {k}
          /\ task' = [task EXCEPT ![w] = k]
          /\ pc' = [pc EXCEPT ![w] = IF k.type = "MDC_INPUT" THEN "startPicture" ELSE "startRow"]
    /\ coded' = [coded EXCEPT ![w] = StartCount(w)]
    /\ UNCHANGED <<layout, segmentVars, freeTasks, posting, segment, todo, next, feedback,
                   pictureVars, done>>

\* assign_enc_dec_segments, ENCDEC_TASKS_MDC_INPUT: all rows are reset, the
\* worker takes segment 0.  No mutex is held, here and in StartRow, so that
\* reading current_seg_index and incrementing it are two steps.
StartPicture(w) ==
    /\ pc[w] = "startPicture"
    /\ current' = [current EXCEPT ![task[w].group] =
                      [r \in DOMAIN @ |-> StartOf(Geometry(w), r)]]
    /\ segment' = [segment EXCEPT ![w] = StartOf(Geometry(w), 0)]
    /\ pc' = [pc EXCEPT ![w] = "advance"]
    /\ UNCHANGED <<layout, dependency, queueVars, task, todo, next, feedback, coded,
                   pictureVars, done>>

\* assign_enc_dec_segments, ENCDEC_TASKS_ENCDEC_INPUT.
StartRow(w) ==
    /\ pc[w] = "startRow"
    /\ segment' = [segment EXCEPT ![w] = current[task[w].group][task[w].row]]
    /\ pc' = [pc EXCEPT ![w] = "advance"]
    /\ UNCHANGED <<layout, segmentVars, queueVars, task, todo, next, feedback, coded,
                   pictureVars, done>>

Advance(w) ==
    /\ pc[w] = "advance"
    /\ current' = [current EXCEPT ![task[w].group][task[w].row] = @ + 1]
    /\ todo' = [todo EXCEPT ![w] = WalkTable[Geometry(w)][segment[w]]]
    /\ pc' = [pc EXCEPT ![w] = "code"]
    /\ UNCHANGED <<layout, dependency, queueVars, task, segment, next, feedback, coded,
                   pictureVars, done>>

CodeSuperblock(w) ==
    /\ pc[w] = "code"
    /\ LET b == First(todo[w])
       IN  /\ done' = done \cup {<<task[w].group, b>>}
           /\ todo' = [todo EXCEPT ![w] = @ \ {b}]
           /\ pc' = [pc EXCEPT ![w] = IF todo[w] = {b} THEN "right" ELSE "code"]
    /\ coded' = [coded EXCEPT ![w] = @ + 1]
    /\ UNCHANGED <<layout, segmentVars, queueVars, task, segment, next, feedback, pictureVars>>

\* Bug: a neighbour is started without looking at its other dependency.
IsFreeAlways(count) == TRUE
\* A segment all of whose dependencies are cleared.  The counts are uint8_t.
IsFree(count) == count = 0
Cleared(count) == (count + 255) % 256

\* The worker takes the current segment of a row as its next one.
Assign(w, row) ==
    /\ next' = [next EXCEPT ![w] = current[task[w].group][row]]
    /\ current' = [current EXCEPT ![task[w].group][row] = @ + 1]

\* assign_enc_dec_segments, ENCDEC_TASKS_CONTINUE, in three steps.  First the
\* right neighbour, under the mutex of the row.
Right(w) ==
    LET right == segment[w] + 1
        count == Cleared(dependency[task[w].group][right])
    IN  /\ pc[w] = "right"
        /\ IF HasRight(Geometry(w), segment[w])
           THEN /\ dependency' = [dependency EXCEPT ![task[w].group][right] = count]
                /\ IF IsFree(count) THEN Assign(w, Row(w)) ELSE UNCHANGED <<next, current>>
           ELSE UNCHANGED <<dependency, next, current>>
        /\ pc' = [pc EXCEPT ![w] = "below"]
        /\ UNCHANGED <<layout, queueVars, task, segment, todo, feedback, coded, pictureVars, done>>

\* Bug: a worker that has a segment already drops it for the one below.
MustFeedBackNever(w) == FALSE
\* A worker that was assigned the right neighbour leaves the row below to others.
MustFeedBack(w) == next[w] # None

\* Then the neighbour below to the left, under the mutex of the row below.
Below(w) ==
    LET below == segment[w] + BandCount(Geometry(w))
        count == Cleared(dependency[task[w].group][below])
    IN  /\ pc[w] = "below"
        /\ IF HasBelow(Geometry(w), segment[w])
           THEN /\ dependency' = [dependency EXCEPT ![task[w].group][below] = count]
                /\ \/ /\ IsFree(count) /\ ~MustFeedBack(w)
                      /\ Assign(w, Row(w) + 1)
                      /\ UNCHANGED feedback
                   \/ /\ IsFree(count) /\ MustFeedBack(w)
                      /\ feedback' = [feedback EXCEPT ![w] = Row(w) + 1]
                      /\ UNCHANGED <<next, current>>
                   \/ ~IsFree(count) /\ UNCHANGED <<next, current, feedback>>
           ELSE UNCHANGED <<dependency, next, current, feedback>>
        /\ pc' = [pc EXCEPT ![w] = "feedback"]
        /\ UNCHANGED <<layout, queueVars, task, segment, todo, coded, pictureVars, done>>

\* Then the feedback task, for which the worker may have to wait.
Feedback(w) ==
    /\ pc[w] = "feedback" /\ feedback[w] # None
    /\ PostTask(Task("ENCDEC_INPUT", task[w].group, feedback[w]))
    /\ feedback' = [feedback EXCEPT ![w] = None]
    /\ UNCHANGED <<layout, segmentVars, posting, pc, task, segment, todo, next, coded,
                   pictureVars, done>>

Continue(w) ==
    /\ pc[w] = "feedback" /\ feedback[w] = None /\ next[w] # None
    /\ segment' = [segment EXCEPT ![w] = next[w]]
    /\ todo' = [todo EXCEPT ![w] = WalkTable[Geometry(w)][next[w]]]
    /\ next' = [next EXCEPT ![w] = None]
    /\ pc' = [pc EXCEPT ![w] = "code"]
    /\ UNCHANGED <<layout, segmentVars, queueVars, task, feedback, coded, pictureVars, done>>

-----------------------------------------------------------------------------
\* mode_decision_kernel once there is nothing to go on with.

\* Bug: a worker takes the superblocks for complete one too early.
IsLastEarly(count) == count + 1 \geq Cardinality(AllSuperblocks)
\* last_sb_flag
IsLast(count) == count = Cardinality(AllSuperblocks)

\* The worker's superblocks are counted under intra_mutex.
Count(w) ==
    LET count == codedCount + coded[w]
    IN  /\ pc[w] = "feedback" /\ feedback[w] = None /\ next[w] = None
        /\ codedCount' = count
        /\ pc' = [pc EXCEPT ![w] = IF IsLast(count) THEN "last" ELSE "release"]
        /\ UNCHANGED <<layout, segmentVars, queueVars, localVars,
                       recodes, results, done>>

\* do_recode: the segments are initialised again and every tile group posted.
Recode(w) ==
    /\ pc[w] = "last" /\ recodes < MaxRecodes
    /\ recodes' = recodes + 1
    /\ codedCount' = 0 /\ done' = {}
    /\ current' = FirstSegments(layout)
    /\ dependency' = AllDependencies(layout)
    /\ posting' = [posting EXCEPT ![w] = MdcTasks(layout)]
    /\ pc' = [pc EXCEPT ![w] = "release"]
    /\ UNCHANGED <<layout, tasks, freeTasks, localVars, results>>

HandOn(w) ==
    /\ pc[w] = "last"
    /\ results' = results + 1
    /\ pc' = [pc EXCEPT ![w] = "release"]
    /\ UNCHANGED <<layout, segmentVars, queueVars, localVars, codedCount, recodes, done>>

\* The task goes back to the pool, after the tasks of a recoding are posted.
Release(w) ==
    /\ pc[w] = "release" /\ posting[w] = {}
    /\ freeTasks' = freeTasks + 1
    /\ task' = [task EXCEPT ![w] = NoTask]
    /\ pc' = [pc EXCEPT ![w] = "idle"]
    /\ UNCHANGED <<layout, segmentVars, tasks, posting, segment, todo, next, feedback, coded,
                   pictureVars, done>>

-----------------------------------------------------------------------------
Worker(w) ==
    \/ PostNext(w) \/ Take(w) \/ StartPicture(w) \/ StartRow(w) \/ Advance(w)
    \/ CodeSuperblock(w) \/ Right(w) \/ Below(w) \/ Feedback(w) \/ Continue(w)
    \/ Count(w) \/ Recode(w) \/ HandOn(w) \/ Release(w)

Next == PostNext(Mdc) \/ \E w \in Threads : Worker(w)

\* The operating system lets every thread run.
Fairness == WF_vars(PostNext(Mdc)) /\ \A w \in Threads : WF_vars(Worker(w))

Spec == Init /\ [][Next]_vars /\ Fairness
-----------------------------------------------------------------------------
Coding(w) == pc[w] \in {"advance", "code"}
Finishing(w) == pc[w] \in {"right", "below", "feedback"}

\* The types of the variables: every index is one of the layout's.
TypeOK ==
    /\ layout \in Layouts
    /\ \A t \in TileGroups :
          /\ \A r \in Rows(layout[t]) :
                current[t][r] \in StartOf(layout[t], r)..EndOf(layout[t], r) + 1
          /\ \A s \in Indices(layout[t]) : dependency[t][s] \in 0..2
    /\ \A w \in Threads :
          /\ pc[w] \in {"idle", "startPicture", "startRow", "advance", "code", "right",
                        "below", "feedback", "last", "release"}
          /\ task[w] = NoTask <=> pc[w] = "idle"
          /\ pc[w] = "code" => todo[w] # {}
    /\ tasks \subseteq [type : {"MDC_INPUT", "ENCDEC_INPUT"}, group : TileGroups, row : Nat]
    /\ freeTasks \in 0..PoolSize /\ results \in 0..1 /\ recodes \in 0..MaxRecodes
    /\ done \subseteq AllSuperblocks

\* Every superblock of a pass is coded once and counted once: what the picture's
\* counter and the workers' own counters hold is the number of different
\* superblocks coded so far.  A superblock coded twice would end the picture
\* early, one counted twice or lost would never end it.
CountsAreExact ==
    LET uncounted == {w \in Threads : pc[w] \notin {"idle", "last", "release"}}
    IN  codedCount + FoldFunctionOnSet(+, 0, coded, uncounted) = Cardinality(done)

\* A segment is coded by one worker, which was told of it by the last of its
\* dependencies: current_seg_index, read when a count reaches zero, is the index
\* of that very segment.
SegmentsAreExclusive ==
    /\ \A w \in Threads : Coding(w) => dependency[task[w].group][segment[w]] = 0
    /\ \A v, w \in Threads :
          v # w /\ Coding(v) /\ Coding(w) /\ task[v].group = task[w].group
              => segment[v] # segment[w]

\* A superblock is coded after the neighbours whose mode info, contexts and
\* reconstruction it reads.
NeighboursFirst ==
    [][\A x \in done' \ done :
          \A b \in Neighbours(layout[x[1]], x[2]) : <<x[1], b>> \in done]_vars

\* The picture is handed on when all of it is coded and no worker is in its
\* segments any more, so that the loop filters have it for themselves.
HandedOnComplete ==
    results > 0 =>
        /\ done = AllSuperblocks /\ tasks = {}
        /\ \A w \in Threads : pc[w] \in {"idle", "release"} /\ posting[w] = {}

Owns(w, t, r) ==
    /\ task[w].group = t
    /\ \/ pc[w] \in {"startPicture", "startRow"} /\ task[w].row = r
       \/ Coding(w) /\ Row(w) = r
       \/ next[w] # None /\ SegmentRow(layout[t], next[w]) = r
       \/ feedback[w] = r
Posted == tasks \cup UNION {posting[p] : p \in DOMAIN posting}

\* A row of segments has one owner at most: the worker that codes in it, or the
\* task that was posted to have it coded, which finds at current_seg_index a
\* segment whose dependencies are cleared.  This is why that index may be read
\* and incremented without the row's mutex when a task starts.
RowsHaveOneOwner ==
    \A t \in TileGroups : \A r \in Rows(layout[t]) :
        LET owners == {w \in Threads : Owns(w, t, r)}
            posted == {k \in Posted : k.group = t /\ k.row = r}
        IN  /\ Cardinality(owners) + Cardinality(posted) \leq 1
            /\ posted # {} =>
                  current[t][r] \leq EndOf(layout[t], r) /\ dependency[t][current[t][r]] = 0

\* Every picture is handed on in the end, also with no more task objects than
\* one for every worker and one to post.
PictureIsCoded == <>(results = 1)
=============================================================================
