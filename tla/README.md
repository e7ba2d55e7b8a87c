# SVT-AV1: a verification project

TLA+ models of the control of the SVT-AV1 encoder and decoder (`src/Source/Lib`), checked
with TLC on small instances and, for the safety of most of them, proved with TLAPS
for every instance. Paths below are relative to the repository; `Eb...c`
files without a directory are in `Source/Lib/Encoder/Codec`, `EbDec...c` files in
`Source/Lib/Decoder/Codec`.

The code is read with the switches of `Source/API/EbDebugMacros.h` as they are
(`FIX_DDL`, `CLN_STRUCT`, `FTR_LAD_MG`, `INC_TD`, `FIX_FE_CDF_UPDATE_CRASH_NBASE`
and `FTR_VBR_MT_REMOVE_DEC_ORDER` on, `RC_NO_R2R` and `SRM_REPORT` off).

## 1. The system

The encoder is a pipeline of *kernels* (threads that loop for ever), connected by
*system resources*. Every channel and every buffer pool is such a resource: a
fixed set of objects that a producer takes empty, fills and posts, and a consumer
takes full and releases. There is no other blocking in the encoder than waiting
for an object, and short mutexes. The decoder (`Source/Lib/Decoder`) is built
differently: all its threads, the caller's among them, go together through the
stages of a frame over shared memory, and wait at flags, counters and barriers.

```
application
   | input buffers                                            ^ packets
   v                                                          |
Resource Coordination -> Picture Analysis* -> Picture Decision |
   -> Motion Estimation* -> Initial Rate Control -> Source Based Operations*
   -> Picture Manager -> Rate Control -> Mode Decision Configuration*
   -> EncDec* -> DLF* -> CDEF* -> Restoration* -> Entropy Coding* -> Packetization
            ^        (* several threads)     |                          |
            |                                |                          |
            +-- Picture Manager <- reference +---- feedback ------------+
                Rate Control    <- row and picture feedback (EC, Packetization)
```

A picture is carried by a *parent* PictureControlSet from Resource Coordination
to Rate Control's last message, and by a *child* PictureControlSet and an
EncDecSet from the Picture Manager to Packetization. Pictures are reordered
twice: Picture Decision turns display order into decode order, and between the
Picture Manager and Packetization every picture goes as fast as its references
allow.

### Inventory

| Component (source) | State | Operations | Interacts through | What is hard | What makes it correct | Status |
|---|---|---|---|---|---|---|
| **System resource manager** (`Common/Codec/EbSystemResourceManager.c`) | two muxing queues (objects, waiting processes), a FIFO and a semaphore per process, `live_count`, `release_enable`, quit flags | get empty, post, get full, poll, release, add references, pin, shut down | every other component | queueing and waiting are separate steps; release and reuse race; polling queues twice; shutdown at any moment | objects neither lost nor reused early, no lost wakeup, order of results kept, waiting producers served, consumers stop | modelled, proved |
| **EncDec** (`EbEncDecSegments.c`, `EbEncDecProcess.c`) | dependency map, current segment per row, task pool, coded superblock count | take a task, start a picture or row, code a superblock, free right and below, feedback, recode, hand on | tasks resource, EncDecResults | wavefront by several threads; the last one found by a counter; integer geometry | every superblock once, after its neighbours; handed on once, complete and always | modelled; superblock coding abstract, first pass left out |
| **Picture Manager** (`EbPictureManagerProcess.c`) | input queue, reference queue with `dependent_count`, correction queue, order counters | receive input, reference or feedback; walk and start; retire references | PictureDemux in, Rate Control tasks out; reference pools, child pools | counts promised, corrected and counted down in three places; messages in any order; blocks in the middle of its walk | references outlive their readers, counts exact, order settings kept, every picture started | modelled |
| **Packetization** (`EbPacketizationProcess.c`) | reorder queue, undisplayed queue, metadata, output buffers | put in order, find temporal units, emit, show existing | EntropyCodingResults in, output stream out, feedback, release of the child | pictures come out of order and hidden; a packet shows a picture coded long before | decode order, display order, time stamps and metadata match, one end mark, nothing stuck | modelled |
| **Handle/API** (`Encoder/Globals/EbEncHandle.c`) | pools and threads | send, get packet, release, get recon, deinit | all resources | pool sizes; teardown with work under way | pools suffice; teardown ends | application's end and two pool sizes modelled |
| **Resource Coordination** (`EbResourceCoordinationProcess.c`) | active SequenceControlSet, parent pools | configure, take a parent, count references | input, PA | unlocked read of `live_count` when the configuration is replaced; every picture takes two parents with overlays | no set freed twice, none leaked | SequenceControlSet and parents modelled |
| **Picture Decision** (`EbPictureDecisionProcess.c`, `EbPredictionStructure.c`) | reorder queue, pre-assignment buffer, pre-analysis reference queue, DPB | mini-GOPs, orders, references, corrections, overlays | PA results in, ME tasks out | mini-GOP changes, key pictures, end of stream | every header names the slots that hold the pictures predicted from; frames are shown in order | windows, structures, headers, decode order, delayed intra pictures and mini-GOP numbers modelled; reorder queue, the pre-analysis reference queue and user-defined structures not |
| **Entropy Coding** (`EbEntropyCodingProcess.c`) | rows and tiles done | code a row, finish a tile, finish a picture | Restoration results, RC row feedback | the last tile found by flags; the picture may be recycled once posted | passed on once and complete; references released once | modelled in `FilterPipeline`, coding of a row abstract |
| **DLF, CDEF, Restoration** (`EbDlfProcess.c`, `EbCdefProcess.c`, `EbRestProcess.c`) | segments searched | filter a segment; last one filters the picture | three resources | last one waits for objects under a mutex | passed on once; no deadlock whatever the pools | segments, mutexes and pools modelled in `FilterPipeline`; filters abstract |
| **Rate Control** (`EbRateControlProcess.c`, `pass2_strategy.c`) | numeric | set QP, take feedback, release a picture | tasks in, results out | feedback in any order | releases each object once | release modelled |
| **Initial Rate Control** (`EbInitialRateControlProcess.c`) | look-ahead queue | count ME segments, release mini-GOPs | ME results in | holds parents back; counts mini-GOPs from what arrives | pools larger than what it holds; whole mini-GOPs for TPL | look-ahead queue modelled in `LookAhead` |
| **Source Based Operations** (`EbSourceBasedOperationsProcess.c`) | none shared | TPL over the group of a base picture, release of pre-analysis references | IRC results in | a picture is in several groups | references released exactly once | release modelled in `LookAhead` |
| **Mode Decision Configuration** | none shared | post one task per tile group | EncDec tasks | - | all groups posted | modelled in EncDec |
| **Picture Analysis, ME** | per picture | data | resources | segment counters as above | each picture passed on once | not modelled |
| **Threads** (`Common/Codec/EbThreads.c`) | OS objects | semaphore, mutex, condition | all | - | - | as used by the models |
| **Decoder scheduling** (`EbDecProcess.c`, `EbDecProcessFrame.c`, `EbDecParseObu.c`) | start flags, semaphores, three frame barriers, jobs taken, maps of finished rows, counts of finished superblocks | begin a frame, take a tile or row, do a superblock, finish a row, arrive at a barrier, terminate | shared memory, semaphores | flags and counters reset while threads may still wait; spinning on rows | every stage reads final rows; nobody waits for ever; a returned frame is complete | frames and closing modelled, safety proved; a change of the frame size is not |
| **Decoder picture buffers** (`EbDecPicMgr.c`) | picture reference counts, reference maps | take, reference, release a buffer | called per frame | a frame that fails half way; a frame shown again | counts exact, buffers come back, slots hold the stream's frames | modelled, proved |
| **Decoder parsing, block coding, transforms, filters; mode decision** | sequential | - | - | numeric; waits for neighbours in the decoder's filters | equal to reference code | waits of the decoder modelled in `DecoderThreads`; the rest is sequential numeric code covered by unit tests |
| **Applications, plugin, third party, tests** | - | - | API | - | - | not modelled |


## 2. Plan

Modules are written in the order of what would hurt most: first the resource
every thread stands on, then the stages whose control is more than "take, work,
post", then the compositions.

| Order | Module | Composes | State |
|---|---|---|---|
| 1 | `MuxingQueue`, `SystemResource`, abstract `ObjectPool` | `SystemResource` implements `ObjectPool` | done, proved |
| 2 | `EncDecSegments`, `EncDec` | geometry under the kernel's scheduling | done, safety proved |
| 3 | `PictureManager` | kernel with the stages that send it messages | done, safety proved |
| 4 | `Packetization`, `PictureSets` | kernel with coding before and application after it; Picture Manager with Packetization | done, safety of `Packetization` proved |
| 5 | `DecoderThreads`: frame barriers, start flags, row maps, the wavefront of every stage | the caller's thread with N workers | done, safety proved |
| 6 | `ReferenceSlots`, `DecoderPictures`: reference counts of the picture buffers through failed frames and frames shown again | `DecoderPictures` implements `ReferenceSlots` | done, proved |
| 7 | `FilterPipeline`: DLF, CDEF, Restoration and Entropy Coding of several pictures over small pools, with the mutex held while waiting | four kernels over bounded pools | done, safety proved |
| 8 | `PredictionStructures`, `PictureDecision`: windows, mini-GOPs, positions and headers, followed to the decoder's slots | tables under the kernel | done |
| 9 | `LookAhead`: Picture Decision between Resource Coordination, Initial Rate Control and Source Based Operations, with the pools of parent sets and motion estimation objects | the steps of `PictureDecision` between its neighbours | done, the accounts of both pools proved |
| 10 | `ReferencePools`: reference and pre-analysis reference pools under Picture Manager and Picture Decision; a changed SequenceControlSet in the stream | `PictureManager` and `LookAhead` | planned |
| 11 | `PipelineShutdown`: `svt_av1_enc_deinit` over a chain of resources | several `SystemResource`s reduced by `ObjectPool` | planned |

*Abstract specifications.* `ObjectPool` is what every user of a resource relies
on, and what the modules above the resource use in its place (tasks as a set,
pools as counters). `ReferenceSlots` is what a decoder promises about its
reference frames. Planned: "a picture is coded as a partial order of
superblocks" for `EncDec`, "a line of pictures in decode order" for
`Packetization`, and "one stage after the other, frame by frame" for
`DecoderThreads`, each as a refinement.

*Runs.* One per question, see section 4. A question about shutdown or about a
different stream is asked by the run of the same module where the instance allows
it, so that every run is about a component or a disagreement of its own.

*Theorems*, in order: the inductive invariant of the resource (done); exact counts
of the decoder's picture buffers and their refinement (done); the three safety
properties of `FilterPipeline` for every line of pictures (done); all of the
safety of `EncDec` for every layout, with the geometry it rests on (done); that
`SystemResource` implements `ObjectPool` (done, with where objects are and what their
counts say made inductive); both safety properties of `PictureManager` for every stream (done);
all of the safety of `DecoderThreads` but for absence of deadlock, for every stream and any
number of threads (done); all four safety properties of `Packetization` for every stream
and every order of coding (done). Left for a refinement of its own: that `PictureDecision`
only decides on streams as `Packetization` assumes them, and what the headers of
`PictureDecision` say, whose tables would have to become assumptions first. Of `LookAhead`, that no
object of its pools is lost is proved (done).
None of these modules declares a RECURSIVE operator, so all can be proved about.

## 3. Modules and code

### MuxingQueue, SystemResource (`EbSystemResourceManager.c`)

`MuxingQueue` is one `EbMuxingQueue` as a value: the object buffer and the
process buffer as sequences whose first element is the one at `head_index`.
`PushFront` keeps the buffer's capacity (a push on a full one overwrites the
last element), and the assignment loop is given by its result: how often it runs
(`Matches`), what it leaves (`Unmatched`), what it hands out.

`SystemResource` is one `EbSystemResource` with all its processes. A step is
what happens under one mutex:

| Action | Code |
|---|---|
| `RequestEmpty`, `TakeEmpty` | `svt_get_empty_object` up to, and from, the semaphore |
| `Post` | `svt_post_full_object` |
| `RequestFull`, `WakeFull`, `TakeFull`, `Leave` | `svt_get_full_object` in three parts; the quit flag is read between the last two |
| `Poll`, `Peek`, then `RequestFull` | `svt_get_full_object_non_blocking`, which queues the process twice |
| `AddReferences`, `Release`, `ReleaseShared` | `svt_object_inc_live_count`, `svt_release_object` by the holder and by third parties |
| `Pin`, `Unpin`, `CheckIdle`, `Retire` | replacing the active SequenceControlSet: release disabled and enabled, and `live_count` read without the mutex; the reader may see either of a releaser's two stores |
| `ShutDown` | `svt_shutdown_process` for one FIFO |

`liveCount` is a counter modulo `CountModulus` with the released value at its
top, as `~0u` is for `uint32_t`. `posted` is the only history variable. A producer may
still hold objects when it asks for the next one, as Resource Coordination does with the
last parent set (`EbResourceCoordinationProcess.c:1283-1526`); `MaxHeld` bounds how many.

### EncDecSegments, EncDec (`EbEncDecSegments.c`, `EbEncDecProcess.c`)

`EncDecSegments` is the arithmetic of `enc_dec_segments_init`: bands, rows, the
valid superblocks of a segment, dependency counts and the walk of the superblock
loops. The walk is given as the set of superblocks it visits (`Walk`: the lines of the
band from the segment's first superblock on, as many as the segment's count); since the
loops go in raster order, a worker codes the first of those it has left (`First`).
`EncDec` is `mode_decision_kernel` and `assign_enc_dec_segments`: `Take`,
`StartPicture`, `StartRow`, `Advance` (reading and incrementing
`current_seg_index` are two steps because no mutex is held), `CodeSuperblock`,
`Right` and `Below` (each under its row's mutex), `Feedback` (may wait for a
task object), `Continue`, `Count`, `Recode`, `HandOn`, `Release`.

### PictureManager (`EbPictureManagerProcess.c`)

`ReceiveInput`, `ReceiveReference` and `ReceiveFeedback` are the three cases of
the message switch with the corrections that precede them
(`clean_pictures_in_ref_queue`); `Start` and `Pass` are one step each of the walk
over the input queue, because the kernel may block in `Start`; `Retire` is the
walk over the reference queue and the advance of its head. The stages around it
are `Arrive`, `Reconstruct`, `CodeEntropy`, `Packetize` and `Finish`, each
reduced to its messages and its counts. The circular search of
`search_ref_in_ref_queue`, which goes once around an empty queue, is kept
(`Searched`): entries behind the head are found, and changed, when the queue is
empty.

### Packetization (`EbPacketizationProcess.c`)

`Packetize` is the kernel from taking a result to the reorder queue entry; `Emit`
is one turn of the loop over complete temporal units with `encode_tu`,
`push_undisplayed_frame`, `sort_undisplayed_frame`, `release_frames` and the
show-existing packet; `Wait` ends the loop. `DecodeSlot` and `OwnSlot` both index
the same circular array, one by decode order, the other by picture number, and
`Depth` is small enough for both to wrap. Sorting is given by its result:
`ByDescendingPts` is the falling rearrangement that `qsort` returns, which is only one
since the pictures of the queue have different numbers, and `Descending` are the places
that the backward loop of `encode_tu` visits.

The input is what Picture Decision decided, and `StreamAssumption` says what that has to
be. Every part of it is evaluated by TLC on the streams of the run, and comes from the code:

* `DisplayedInTurn`: shown pictures are decoded in display order without a gap, when one
  that has `has_show_existing` counts for two. `print_detailed_frame_info` (379-403) checks the
  same and ends the program otherwise; `DisplayOrderIsKept` is it for `PictureDecision`.
* `HiddenAreDisplayed`: `set_frame_display_params` and the branches of
  `av1_generate_rps_info` after it (`EbPictureDecisionProcess.c:1987-2000` and four like them)
  hide a picture or let it show the next; a picture is hidden if a later one in decode order
  and right before it in display order shows it, or if it is an alt-ref picture with an
  overlay, for which the picture before loses its `has_show_existing` (6939). The picture that
  shows the next also refers to it: its first reference in list 1 is one picture ahead in every
  prediction structure.
* `QueuesSuffice`: `PACKETIZATION_REORDER_QUEUE_MAX_DEPTH` (2048) exceeds the pictures that can
  be in work by more than a mini-GOP, `UNDISP_QUEUE_SIZE` (`REF_FRAMES * 10`) the
  hidden pictures of one, and two hidden pictures whose metadata is kept at a time are less than
  the queue apart in display order. `MaxLag` is how far a picture can be ahead in decode order
  of one that is not packetized.

### PictureSets (`EbPictureManagerProcess.c` 905-1006, `EbPacketizationProcess.c` 892-899)

The two pools that the Picture Manager takes from when it starts a picture and
that Packetization gives back to, in the order of the code: set, child; child,
set. Pools are used at the front, as `ReleaseObject` shows they are.

### DecoderThreads (`EbDecProcess.c`, `EbDecProcessFrame.c`, `EbDecParseObu.c`)

One module for the caller's thread (`Main`) and the workers, which run the same
code in every stage. `MainStep` is what only `Main` does, in the order of
`read_tile_group_obu`: `Begin` (2302-2333), the start flags with their posts, and
the queueing of jobs between them. Where the order is unusual it is kept: `lr` is
queued after the start of `cdef`, and before or after its own start depending on
upscaling.

| Action | Code |
|---|---|
| `CheckStart`, `Block` | the loop `while (*start_... != EB_TRUE) svt_block_on_semaphore(...)` at the top of every stage |
| `ClaimMotionRow`, `ProjectRow` | `svt_setup_motion_field`; returns before the barrier without order hints |
| `ClaimTile`, `StartRecon`, `ParseRow`, `TileParsed` | `parse_frame_tiles`, `start_parse_tile`, `parse_tile` |
| `PickTile`, `ClaimTileRow` | `decode_frame_tiles`, `decode_tile`; which unfinished tile is taken is left open |
| `ClaimFilterRow` | `get_sb_row_to_process` in `dec_av1_loop_filter_frame_mt`, `svt_cdef_frame_mt`, `dec_av1_loop_restoration_filter_frame_mt` |
| `DoSuperblock`, `FinishRow` | `decode_tile_row`, `dec_loop_filter_row`, `svt_cdef_sb_row_mt`, `dec_av1_loop_restoration_filter_row`, with the waits before the row (`RowReady`) and before every superblock (`AboveFinished`) |
| `Arrive`, `ClearFlags`, `SpinEnds` | the ends of the motion, cdef and lr stages |
| `Close`, `OpenStage`, `AllExited`, `Exit` | `dec_sync_all_threads`: `end_flag`, the stages started once more, the wait for the workers; the end of `dec_all_stage_kernel` |

`rowMap` holds the rows with `sb_recon_row_map`, `lf_row_map`,
`cdef_completed_for_row_map` and `lr_row_map` set; `progress` counts finished
superblocks, and `AboveFinished` translates it to what the code keeps, an index
that starts at -1, or at 0 for cdef. A spinning loop is an action that is not
enabled yet. A frame is a record of its size, tiles and of the header's fields
that the control depends on: `hint` (enable_order_hint), `motion`
(use_ref_frame_mvs), `upscale`, the `filters` that are on, and the tiles that
`init_svt_reader` refuses (`corrupt`). The decoder can be closed after any frame,
while workers are still at its end (`ended` is `end_flag`). The model takes the steps of
closing as the code does, those that make it hang included (section 6); `NeverStuck` is
about the frames.

### ReferenceSlots, DecoderPictures (`EbDecPicMgr.c`, `EbDecHandle.c`, `EbDecParseObu.c`)

`DecoderPictures` is `svt_av1_dec_frame` with its rounds of `decode_multiple_obu`, and
what the picture manager does at a header and at the end of a round. A round can fail
anywhere: before a header, in a frame, or with a frame shown again; and it can find no
frame, as when only padding or metadata is left. `dec_pic_mgr_update_ref_pic` runs after
each of them, and the model takes all of them.

| Action | Code |
|---|---|
| `Call` | `svt_av1_dec_frame` is given a temporal unit |
| `NewFrame`, `ShowExisting`, `HeaderPassedOver` | `read_uncompressed_header` with `dec_pic_mgr_get_cur_pic` and `generate_next_ref_frame_map`; `show_existing_frame`; a frame whose id does not follow |
| `LastTiles`, `EndOfData`, `Fails` | the ends of a round: the last tile group, the end of the data (with or without a frame), an error |
| `Update`, `UpdateFailed` | the two branches of `dec_pic_mgr_update_ref_pic`, by the status of the round |

`count` and `free` are `ref_count` and `is_free`; `holds` and `lost` are history:
the frame whose samples a buffer has, and the references counted for a map that a
failed frame left behind. `strayed` is history too: there was a round that failed outside
a new frame, or that was about no frame. From then on the code's counts are too low
(section 6), and only `BuffersSuffice` and the upper bound in `CountsAreExact` say
something. `ReferenceSlots` says what the stream asks for: a frame names slots, and after
it these hold it, until the stream is `damaged`. It is implemented with `Held`, which reads
the slots through the reference map and the buffers.

### PredictionStructures, PictureDecision (`EbPictureDecisionProcess.c`, `EbPredictionStructure.c`)

`PredictionStructures` has the tables: the lists of every picture of a mini-GOP, the
rows of slots that `av1_generate_rps_info` writes for it and the arithmetic of the
slots' toggles. `PictureDecision` puts them together.

| Action or operator | Code |
|---|---|
| `Arrive` | the picture type, the pre-assignment buffer and its window; `Split` is `generate_picture_window_split` with `handle_incomplete_picture_window_map` |
| `Decide` | the first loop over a mini-GOP: `NextPosition` is the position in the structure, `References`, `RefreshMask`, `Display`, `Toggled` are `av1_generate_rps_info` with `prune_refs`, `set_frame_display_params` and `set_ref_list_counts`; `Overlay` is the overlay picture |
| `Send` | the second loop: the mini-GOP sorted by decode order, with its number and size (`Numbered`: `ext_mg_id`, `ext_mg_size`) |
| `Code` | the decoder's side of the header, as `print_detailed_frame_info` of Packetization follows it |

`dpb` holds, for every slot, the number of the picture a decoder would have there.
A header is right when `dpb` at the slot it names is the picture its own numbers say
and the one the encoder predicts from. Windows are decided one at a time; pictures
that have been sent are coded while the next ones arrive.

### LookAhead (`EbResourceCoordinationProcess.c`, `EbPictureDecisionProcess.c`, `EbInitialRateControlProcess.c`, `EbSourceBasedOperationsProcess.c`, `EbEncHandle.c`)

`LookAhead` extends `PictureDecision`, whose actions are conjuncts of its own, with the
kernels before and after it and the two pools they live on.

| Action or operator | Code |
|---|---|
| `TakeSet`, `TakeEnd` | Resource Coordination: a parent set per picture, one more per potential overlay, one for the end of the stream; a set is posted when the next has been taken |
| `PictureArrives` | `Arrive`, once the pictures of `scd_delay` are there or the stream has ended |
| `DecidePicture` | `Decide`, and the release of the set of an overlay that will not be |
| `SendMiniGop` | `Send`, with the motion estimation objects that `store_tpl_pictures` and `send_picture_out` take and the delayed intra picture that is held (`prev_delayed_intra`) |
| `MeasurePicture` | the last segment of a picture at Initial Rate Control: `push_to_lad_queue`, `process_lad_queue` (`LastMg`, `FirstHeld`), `store_extended_group` (`ExtGroup`, `TplGroup`) |
| `AnalysePicture` | the end of `tpl_mc_flow`: `DoneBy` are the pictures whose pre-analysis references it releases |
| `CodePicture` | `Code`, with the release of both objects by EncDec and Rate Control |
| `ParentCount`, `MeCount` | `load_default_buffer_configuration_settings` |

`released` is a history variable. What a kernel needs to run is `Ready`; `Runs` says
which of those that can run does: any of them in the streams with `free`, the last in
the pipeline in the others. Motion estimation may let a picture overtake another in
the former. The motion estimation object comes back in EncDec and the parent set later
in Rate Control; no kernel in between takes from either pool, so both come back in
one step.

### FilterPipeline (`EbDlfProcess.c`, `EbCdefProcess.c`, `EbRestProcess.c`, `EbEntropyCodingProcess.c`)

Four kernels with the pools and queues between them, from `Start` (Picture Manager
and EncDec) to `Packetize`.

| Action | Code |
|---|---|
| `Take`, `GiveBack` | get a full object; release it at the end of the loop |
| `Deblock` | `dlf_kernel` up to its results; resets `tot_seg_searched_cdef` |
| `CountSegment`, `FilterPicture` | search of a segment, count under the picture's mutex; the last one keeps the mutex and filters |
| `PostPart`, `EndPosting` | one result of the loop that gets and posts them, which can wait with the mutex held; the mutex is released |
| `NextRow` | `update_entropy_coding_rows` |
| `BeginRow`, `CodeRow`, `FinishRow` | the reset of the coders, the row, and the end of a tile, each under the mutex the code takes for it |

`tile` is `entropy_coding_info`; a slot is a child PictureControlSet. With several tiles
a slot can come back with another picture while a worker still asks for its next row;
`overtaken` is history and says that this has happened. No property claims anything of the
pictures from there on (section 6). The
pictures of a stream are records of `Pictures`: the segments of each stage and the rows
of each tile.

## 4. Runs

All bounds are constants of the cfg files. Times are for two TLC workers.

| Run | Instance | What it shows |
|---|---|---|
| `srm_kernels` | 2 objects, 2 producers, 2 consumers, shutdown at any moment, fairness | semaphores exact, no lost wakeup, no reuse while referenced, no leak; every consumer leaves its loop after shutdown |
| `srm_application` | 3 objects, 1 pinning producer that may hold one more, 1 polling consumer, fairness | a poll finds the object it was told of and misses none; the resource implements `ObjectPool`, so the unlocked read never frees twice; posted objects arrive, waiting producers are served |
| `encdec` | 3 workers, 8 layouts, 4 task objects, 1 recode, fairness | counts exact, one worker per segment, neighbours first, handed on complete, and always |
| `encdec_narrow` | 2 workers, 1x2 superblocks in two rows | *violation*: never handed on |
| `picture_manager` | 5 scenarios of 3 streams, 2 children, 6 messages, fairness | dependent counts exact, references held while read, everything coded and given back |
| `packetization` | 7 streams, 3 pictures in work, queue of 7, 6 buffers, fairness | decode order, display order, end mark, metadata, delivery |
| `picture_sets` | 4 pictures, 3 children, 3 sets | *violation*: two pictures share an EncDecSet |
| `decoder_threads` | 3 threads, 5 streams of 1 or 2 frames, up to 4 superblocks, closed after any frame | every stage reads final rows, wavefronts hold, a returned frame is complete, no reset under a thread at work, and nobody waits for ever in or between the frames |
| `decoder_pictures` | 3 slots, 5 buffers, 5 frames, 1 round that fails anywhere, 1 round without a frame | counts exact, a free buffer always found, slots hold the stream's frames |
| `filter_pipeline` | 2 child sets, 1 DLF, 2 CDEF, 2 Restoration, 2 Entropy Coding workers, pools of 1 or 2; three pictures of one tile or two of two tiles | search before filter, with one tile rows of a worker's own picture only, passed on once and complete, never stuck |
| `picture_decision` | 37 configurations of one to six levels, 6 to 98 pictures, at most one forced key or intra picture, 1, 2 or 4 cores | headers name what is predicted from, frames shown in order; the two pools suffice and are full at the end, base pictures go to TPL with whole mini-GOPs, pre-analysis references are released exactly once |
| `picture_decision_period` | six levels, an intra picture after 24 of a window | *violation*: a header names a slot with another picture |

Why the bounds are enough to be interesting:

* *Resource.* Two processes on each side compete for an assignment, and two
  objects allow one of them in a queue while the other is in a FIFO or in use; the
  instance with the application has three, for one in each queue and one pinned. `MaxShared = 1`
  gives an object a holder and a third party, which is what every race between
  releases needs; `CountModulus` lets the released value be one below zero.
* *EncDec.* The layouts include ones where rows and columns do not divide the
  picture, where bands are wider than a superblock, where both counts are
  clamped, with more rows than task objects and with several tile groups. A third
  worker is needed for a feedback task to be taken while both neighbours are
  being coded. One recode shows the reset; a second would repeat it.
* *Picture Manager.* Two child objects for five pictures make the kernel block in
  its walk; the streams have a correction of each kind (known at once, sent with a
  later picture, raising and lowering), a picture that refers to one reference
  twice, promised dependents the end of the stream cuts off, an overlay. More
  scenarios multiply the state space without a new kind of step.
* *Packetization.* The reorder queue of 7 wraps for decode order and for picture
  number in the stream of nine pictures; six output buffers can run out. The
  mini-GOP of eight has three hidden pictures before the first complete unit.

* *Decoder picture buffers.* Three slots tell "the slots a frame refreshes" from the
  others and from all; five frames fill every slot and take each of them again; five
  buffers are the slots, the frame and one more, as `MAX_PIC_BUFS` has it. One failing
  round and one without a frame are enough to reach every state after which something is
  no longer claimed, and the frames after it.
* *Filters.* Two child sets are what a worker that is late with one picture needs to
  meet another. Pools of one object make every stage wait under its mutex; two
  workers on each side race for the last segment, row and tile. Workers and slots
  of a kind are interchangeable, and only safety is checked, so symmetry is sound.
* *Picture Decision.* The streams are long enough for every base slot toggle to come
  round after a window that was cut short, at any place of the window where the
  configuration lets it be cut. The number of forced pictures is one: a second one
  is the first of another stream, as a key picture clears everything but the
  position. Configurations that are known not to be coherent are left out:
  overlays of four levels with the references of `mrp` 1, overlays of six levels and
  six levels with `mrp` 1, two levels with more than one reference in a list or with
  an intra picture inside a mini-GOP, and five levels of `mrp` 3 with the tables
  overwritten by another encoder of the process.
* *Look-ahead.* Each of the two pools has one kernel that takes from it and each queue
  one that reads it, so that a step one kernel can take is not taken away by another:
  whether all come to a halt does not depend on their order, and one order is enough to
  find it. The small streams are run in every order nevertheless, which also lets
  pictures overtake each other in motion estimation; a mini-GOP of four pictures, its
  successor and a delayed intra picture are what the longest wait of the look-ahead
  needs. One and two cores have pools of the least size; the streams with overlays have
  four cores, because with fewer the parent sets do not suffice (section 6).
* *Decoder threads.* Three threads are needed for two workers to be at different points
  of a stage that `Main` has left. The streams have a frame of two rows and
  columns with all filters, one without deblocking but with a motion field and
  upscaling, tiles below each other, tiles beside each other over two frames of
  which one is upscaled, and a tile that is left unparsed. Two frames are what the
  resets between frames need; no frame has more than two rows because a wait
  reaches one row up or down. Workers are interchangeable and treated as
  symmetric, which is sound as only safety is checked. The setting of a start flag
  and its posts are one step; a superblock is 64x64. Three instances are left out
  because they are known not to hold (section 6).

Deadlock is checked in `srm_application`. It is off where the system may stop:
after shutdown, or when all of a finite stream is coded.

Every property of a passing run is known to fail for a plausible error in the
code it is about (a semaphore not posted, a reference counted once instead of
twice, a row started without looking at the other dependency, ...). The operators
with the comment "Bug" beside the definition they would replace are those errors;
no specification uses them.

## 5. Fairness

All fairness is weak. Threads are scheduled by the operating system, so a step that stays
possible is taken: `WF` for every kernel, per thread where threads compete. Nothing is assumed
of who wins a race. In `SystemResource` a holder releases or posts what it has, and third
parties drop their references: kernels are endless loops that release at their end, and the
pipeline's later stages give back what they were given. No fairness is assumed of asking for
objects, of sharing them, of pinning or of shutdown. `WaitingProducerIsServed` therefore holds
with one producer; with two, the waiting producers form a stack (`svt_release_process` pushes
to the front) and one can be overtaken for ever, although `Docs/svt-av1-encoder-design.md:390`
calls it a FIFO. In `PictureManager` and `Packetization` the application keeps sending,
receiving and releasing; in `EncDec` every worker and the process that posts the picture run.
`DecoderThreads` has no fairness: every behaviour is finite, as each step takes a job, does a
superblock or goes on, except for the loop of `CheckStart` and `Block`, which uses a post up.
That every frame ends is therefore a safety property, `NeverStuck`: until the decoder is
closed some step is possible. The same holds of `FilterPipeline`, where every step brings a
picture further. `LookAhead` has none either: its streams end, and `EveryPictureLeaves` says
of every state in which no kernel can go on that all is done. `PictureDecision` and
`DecoderPictures` are sequential; nothing is claimed of when they run.

## 6. Findings

1. **A tile group one superblock wide in several segment rows is never finished**
   (`EbEncDecSegments.c:154`, `EbEncDecProcess.c:384`). The last segment of a row
   has a band index below that of the first segment of the next, so it clears no
   dependency there and the next row is never started. A source width of 64 is
   documented as legal.
2. **An EncDecSet is released through a child that was already released**
   (`EbPacketizationProcess.c:897`). If the Picture Manager takes the child in
   between, another picture's set is given back while it is in use.
3. **The base slots are not put in order when six levels follow five or four**
   (`EbPictureDecisionProcess.c:1862`). After a window that an intra picture cuts
   short the header of the next picture with six levels can name a slot that
   holds another picture than the one the encoder predicted from; the encoder's own
   report exits with "L0 MISMATCH".

Each is shown by a run that checks the one sentence of a document, comment or
interface description that the code disagrees with.

More behaviours were met while modelling, which have no run of their own. The models
that pass have them as they are.

* With overlays on one or two cores the encoder stops after the first mini-GOPs. The
  first picture is a delayed intra picture, whose look-ahead is three mini-GOPs, and
  every picture of them has taken two parent sets; `min_parent` with overlays
  (`EbEncHandle.c:594`) is computed from one mini-GOP ("min to get a mini-gop in PD -
  release all and keep one"), with `needed_lad_pictures`, which is 0 unless the old
  `look_ahead_distance` is given, and not with `lad_mg`. `OverlayStreams` of
  `MCPictureDecision` shows it: `EveryPictureLeaves` fails with three to five levels,
  for one core and for two.
* A reference to the SequenceControlSet is left over for every picture
  (`EbResourceCoordinationProcess.c:1187`). Harmless while the set is never
  replaced; a replaced one never returns to its pool, although the comment above the line
  (1185-1186) accounts for every release. `PictureManager` counts these references as the
  code does (`scsCount`); no property is about them.
* The output buffer of an alt-ref picture is lost (`EbPacketizationProcess.c:546`,
  `595`), one of the 5000 buffers per overlay. `EverythingIsDelivered` states which
  buffers come back.
* Without order hints the decoder's threads can hang between frames
  (`EbDecParseBlock.c:1017`): the function returns before its barrier, so that the
  main thread resets `num_threads_lred` under a worker that has not yet seen it reach
  the number of threads. The streams of `decoder_threads` have order hints;
  `UnhintedStreams` of `MCDecoderThreads` shows it.
* With several tiles, a worker of Entropy Coding that is done with its tile asks for
  its next row without knowing whether another worker has passed the picture on. If
  the PictureControlSet has come back for another picture by then, it takes a row
  of that picture, with its own message still unreleased
  (`EbEntropyCodingProcess.c:377`; the comment at 511-512 sees to it only for the worker
  that passes the picture on). The time in between is that of a few instructions against a
  picture's way from Packetization to EncDec and DLF, but nothing in the code forbids it,
  and the model takes the step. `OwnPictureOnly` is therefore claimed of pictures with one
  tile, and the other properties of `FilterPipeline` until a worker is `overtaken`.
* In a frame one superblock wide, CDEF of a row in the decoder does not wait for the
  row above: `cdef_completed_in_row` starts at 0, which is also its value after the
  first superblock. `Wavefront` is checked with two columns, and proved for two or more.
* With deblocking off and tiles below each other, `lf_row_map` of a row can be set
  before the row above it is reconstructed, and CDEF can start too early
  (`EbDecProcess.c:1004`). `FilteredInOrder` leaves this combination out
  (`OrderIsKept`).
* `parse_tile_job` drops the error of `start_parse_tile` (`EbDecProcess.c:472`), and
  threads wait for ever for the rows of a tile that was refused. `NeverStuck`
  leaves such streams out.
* Closing the decoder right after a frame can hang. The last thread at the end of a
  frame is counted before it clears the start flags (`EbDecProcess.c:1297`), and the
  flags that `dec_sync_all_threads` sets for the last round can be cleared behind it.
  After an upscaled frame, a worker that sees `end_flag` at the end of the frame ends
  without being counted at the cdef barrier of the last round, where the others wait
  for it without looking at `end_flag` (`EbDecProcess.c:1063`). `NeverStuck` says nothing
  of a decoder that is being closed; without its condition `~ended` TLC finds it violated.
* After an error that came before the header of a frame, or with a frame shown again, the
  decoder's `cur_pic_buf[0]` is still the buffer of the frame before and loses a reference
  once more (`EbDecPicMgr.c:241`): the buffer of a slot can become free and be decoded
  into. A round of `decode_multiple_obu` that finds no frame, as with padding or metadata
  behind the last frame of a unit, also ends with `dec_pic_mgr_update_ref_pic`
  (`EbDecHandle.c:598`), which then puts an empty map in force: every slot loses its frame.
  The model takes both; `CountsAreExact` and `ImplementsReferenceSlots` claim the exact
  counts and the slots until then.

## 7. Proofs

`SystemResourceProofs` proves, for every set of objects, producers and consumers that
satisfies `SystemResourceAssumption`:

| Theorem | States |
|---|---|
| `QueueInvariantHolds` | `Spec => []QueueInvariant` |
| `TypesHold` | `Spec => []TypeOK` |
| `NothingIdles` | `Spec => []NoIdleMatch` |
| `SemaphoresCount` | `Spec => []SemaphoreCountsObjects` |
| `NoWakeupIsLost` | `Spec => []NoLostWakeup` |
| `PollsAreExact` | `Spec => []PollIsExact`: a poll finds the object it was told of |
| `CustodyHolds` | `Spec => []Custody`: where objects are, who refers to them and what `live_count` says of it |
| `NoObjectIsReused` | `Spec => []NoReuseWhileReferenced` |
| `NoObjectLeaks` | `Spec => []NoLeak` |
| `LineHolds` | `Spec => []LineInvariant`: the posted objects are those in flight, in order |
| `PoolIsImplemented` | `Spec => Pool!Spec`: the resource is an `ObjectPool` |

`PictureManagerProofs` proves, for every stream that satisfies `StreamAssumption` and
`CountAssumption`, every setting and every size of the two pools:

| Theorem | States |
|---|---|
| `CountsAreExact` | `Spec => []DependentsAreExact` |
| `ReferencesHeld` | `Spec => []ReferencesAreHeld`: no reference buffer is given back too early |

`DecoderPicturesProofs` proves, for every finite set of buffers and slots and any
number of frames, of rounds that fail anywhere and of rounds without a frame:

| Theorem | States |
|---|---|
| `CountsAlwaysExact` | `Spec => []CountsAreExact`: never too high, exact until `strayed` |
| `BuffersAlwaysSuffice` | `Spec => []BuffersSuffice`, if there are more buffers than slots |
| `RefinesReferenceSlots` | `Spec => ImplementsReferenceSlots`: the slots hold the frames the stream put there, until `strayed` |

`LookAheadProofs` proves, for every set of streams that satisfies the assumptions of
`PictureDecision` and `LookAhead` (up to six levels, delays up to 6, any number of cores), and so
for every size of the pools:

| Theorem | States |
|---|---|
| `ObjectsAreAccountedFor` | `AheadSpec => []PoolInvariant`: which pictures have the objects that are not free |
| `NothingIsLost` | `AheadSpec => [](Over => AllReturned)`: at the end of the stream both pools are full |

`FilterPipelineProofs` proves, for any finite sets of workers of each kernel, any
slots, any number of objects in each pool and any pictures:

| Theorem | States |
|---|---|
| `PipelineIsConsistent` | `Spec => []PipelineInvariant`: every part of every picture is at one place, until `overtaken`, which pictures of one tile never are |
| `SearchIsBeforeFilter` | `Spec => []SearchBeforeFilter` |
| `OwnPictureIsCoded` | `Spec => []OwnPictureOnly`, for pictures of one tile |
| `PassedOnIsComplete` | `Spec => []PassedOnComplete` |

`EncDecProofs` proves, for any layouts of tile groups of any size and segment counts, any
finite set of workers, any number of task objects and any number of recoding passes:

| Theorem | States |
|---|---|
| `EncDecIsScheduled` | `Spec => []ScheduleInvariant`: who holds each row of segments, and how far it is |
| `SegmentsAreCodedByOne` | `Spec => []SegmentsAreExclusive` |
| `CountsAreAlwaysExact` | `Spec => []CountsAreExact` |
| `HandedOnIsComplete` | `Spec => []HandedOnComplete` |
| `NeighboursAreFirst` | `Spec => NeighboursFirst` |
| `RowsAreOwnedOnce` | `Spec => []RowsHaveOneOwner` |
| `EncDecTypes` | `Spec => []TypeOK` |
| `WalkVisitsSegment` | the superblock loops visit exactly the superblocks of the segment |

`DecoderThreadsProofs` proves, for any finite set of workers and every set of streams that
satisfies `DecoderAssumption` (frames of any size, tiles, filters and number):

| Theorem | States |
|---|---|
| `BaseHolds` | `Spec => []BaseInvariant`: types, and every thread is at a row that exists |
| `WavefrontHolds` | `Spec => []Wavefront`, if `Wide` |
| `FrameCompleteHolds` | `Spec => []FrameComplete`, if `Hinted` |
| `MotionFieldIsReadyInTime` | `Spec => []MotionFieldReady`, if `Hinted` |
| `NothingIsResetUnderWork` | `Spec => NoResetUnderWork`, if `Hinted` |
| `FiltersAreInOrder` | `Spec => []FilteredInOrder`, if `Hinted` |

`PacketizationProofs` proves, for any sizes of the queues and pools and every set of streams
that satisfies `StreamAssumption` (section 3), whatever order the pictures are coded in:

| Theorem | States |
|---|---|
| `QueueIsInOrder` | `Spec => []QueueInvariant`: the reorder queue is a window on decode order |
| `PacketInvariantHolds` | `Spec => []PacketInvariant`: what is undisplayed and what was sent |
| `DisplayOrderHolds` | `Spec => []OutputInDisplayOrder` |
| `DecodeOrderHolds` | `Spec => []OutputInDecodeOrder` |
| `EndIsMarkedHolds` | `Spec => []EndIsMarkedLast` |
| `MetadataHolds` | `Spec => []MetadataStaysWithPicture` |

`EncDecProofs` and `PictureManagerProofs` begin with lemmas on sums: what a sum over a
finite set is when an element or a part is taken away.

*The resource: assumptions.* The sets are finite; no process is both producer and consumer of
one resource; a polling consumer is the only consumer (the application on the
output and recon resources); a pinning producer is the only producer (Resource
Coordination). Counts are natural numbers and the modulus exceeds the references
an object can have.

*The resource: queues.* None of the properties of the queues is inductive alone.
`NoLostWakeup` needs that the assignment loop leaves no match behind (`NoIdleMatch`) and that
a queued process is not lost when the buffer is full (`ProcessBufferSuffices`: one slot per
process is enough because a process that may be queued is not queued yet; a polling process
that is queued twice loses the older place only). That in turn needs that a waiting process
has nothing coming (`OneAnswer`) and that processes are at steps they can be at
(`CallsWellFormed`). `SemaphoreCountsObjects` needs the same to know that the loop hands out
at most one object to a process at a time. The conjunction is `QueueInvariant`.

*The resource: references.* `Custody`, inductive beside `QueueInvariant`, says where objects
are. The empty queue's buffer and its FIFOs hold no object twice, and neither do the full
queue's (`Strung`); an object that is in the pool, in flight or in somebody's hands is in
one of these states only and in one pair of hands (`OneCarrier`). Of an object out of the pool
`CountsAreRight` says that `live_count` is the number of releases to come, or 0 while the
carrier's own is the only one, and that the carrier of a pinned object has let go of it.
Without that a release could find a count that frees the object under somebody else, or one
that never frees it. `PinningIsSafe` says where Resource Coordination is in replacing the
pinned object; its last clause is what makes the unguarded read of `live_count` harmless: if
the object it is about to release has been freed by another thread meanwhile, it is marked
`Released` or nothing was left to release. `NoReuseWhileReferenced` and `NoLeak`
follow without another induction (`CustodyForbidsReuse`, `CustodyForbidsLeaks`). Before
they were proved, TLC checked `Custody` and `LineInvariant` on the instances of both runs.

*The resource: refinement.* `Refs(o)` counts the references by cases: one of the carrier or of
Resource Coordination, and those of third parties; `ReferencesByCases` shows that it is the
number the refinement mapping counts. Each lemma about an action says, beside that the action
keeps `Custody`, what it does to `Refs`: nothing (`SameRefs`), or to one object `Acquires`,
`Shares` or `Drops`; unpinning drops a reference unless it is the last one, which goes with
`Retire`. The line is harder: `ObjectPool` lets at most as many objects overtake as there are
receivers, so `LineInvariant` says that what is not assigned is the end of the line, in order,
and that a consumer that does not poll has one object assigned at most, even after it was
shut down. What `svt_get_full_object` takes is then one of the first `Cardinality(Consumers)`
in line, and for the polling application the first (`ReceiversSuffice`).

*The resource: structure.* First come the facts about `MuxingQueue`: what `PushFront`
does to elements and distinctness, and that after one push on a queue without a
match the loop runs at most once (`AssignOnce`), which reduces every assignment to
one of two cases. The rest splits the invariant into what a queue
step can disturb (`QueueParts`) and the rest, proves once that assigning either
queue keeps the first (`AssignEmptyKeeps`, `AssignFullKeeps`), and has one lemma
per action that reduces to these. The same two assignments, seen as moving one object
within one of the two families of lines (`AssignEmptyMoves`, `AssignFullMoves`), carry `Custody`;
an object a step does not touch keeps its part of it (`UntouchedKeeps`).

*The Picture Manager: assumptions.* `StreamAssumption` is about what Picture Decision sends:
picture numbers are unique but for an overlay, which has that of its alt-ref picture and is
never referred to (`EbPictureDecisionProcess.c:7025`); a picture refers to earlier
pictures in decode order that are used as references, and corrects the counts of earlier ones.
`CountAssumption` is the contract of the counts, which is why they can be relied on: whatever
pictures have come, as long as they are the first ones in decode order, what was promised
and corrected for a picture is at least what they refer to it, and more if another one is
still to do so. Picture Decision makes it so by sending a correction with the first picture
in decode order of those that make the difference (`EbPictureDecisionProcess.c:587`, 651, 712);
a correction that came later would release a buffer too early. TLC evaluates both for the
streams of the run, with the sets of pictures that can have come enumerated. That the
final sum is right (`Surplus` not negative) follows.

*The Picture Manager: counts.* `DependentsAreExact` is not inductive: an entry that the
correction or the start of a picture does not find would be wrong from then on, and entries
behind the head are found only while the queue is empty. `CountInvariant` adds that entries are
those of the received pictures, one each (`EntriesMatch`), that a correction waits as long as
there is no entry for it (`LinksWait`), and that a picture that was started has found its
references (`StartedKnow`). A correction is either applied to an entry and leaves
`Pending`, or it stays in it (`PendingLeft`); a started picture finds all entries it counts
down because it was `Ready` (`ReadyFinds`), so nothing it refers to is left out; and a new entry
is owed what all the pictures to come refer to it, because none of those that have come could
have (`ReceiveInputKeepsCounts`).

*The Picture Manager: buffers.* `HoldInvariant`, inductive beside the counts, says

* that pictures are received in decode order (`OrderKept`, with the messages still queued in
  `InputsQueued`), so that those received are a set `CountAssumption` speaks of;
* that a waiting correction is for an entry that has left the queue (`LinksAreLate`), so that
  nothing is pending for one that can still be released;
* what the flags of an entry say of its picture (`EntriesFollow`), that its completion is
  said once (`CompleteOnce`), and that a picture was only started after its references were
  complete (`StartedAfter`);
* that `live_count` is the nominal reference, until it is released, and one for every place in
  the lists of the pictures in work (`LiveIsHeld`).

The step that matters is `Retire` (`NothingLeft`, `NobodyRefers`): if `dependent_count` of an
entry that is still searched is 0, what has been counted for its picture is what the started
pictures refer to it; by `CountAssumption` then no picture that was received refers to it and
is not started, and none that is still to come. `ReferencesAreHeld` follows without another
induction (`HeldFollows`). TLC checked all parts of both invariants on the instance of the run
`picture_manager` before they were proved.

*The Picture Manager: structure.* One lemma per action and invariant (`PipelineKeepsCounts` to
`StartKeepsCounts`, `ArriveKeepsHolds` to `RetireKeepsHolds`), on top of what each action does
to the queues (`ReceiveInputFacts`, `StartFacts`, `RetireFacts`) and of what a part of the
invariant does not see (`CountStays`, `OrderStays` to `LiveStays`).

*The picture buffers.* The invariant is `TypeOK`, `CountsAreExact` and four parts. `TakenInv`:
a buffer that is not free has a count above 0, also after a miscount. `ControlInv`: where in a
call a frame is being decoded, and that a round that ends in its `update` step was about a frame,
unless `strayed`. `FrameInv`: during a frame the map being built is that of its header and its
buffer holds its samples. `FailureInv`: only a round that failed leaves a map or a count behind.
`CountsAreExact` is not inductive without `FrameInv`: dropping the old
map's references lowers a count by what the new map has just raised it by, and a
buffer may only become free if the new map does not refer to it. Its upper bound holds through
every round, because a round that drops a reference too many only lowers a count. That a free
buffer is always found is a pigeonhole argument from this bound and `TakenInv`: without failures
every buffer that is not free is in a slot, whatever rounds without a frame came before. The
refinement reads every slot through a buffer, so it needs that a buffer in a slot is not
free, which is again `CountsAreExact`; once `strayed`, `ReferenceSlots` allows any slots
(`damaged`), because the code does.

*The look-ahead.* Parent sets are taken two at a time for a picture that could have an overlay,
and one is given back when there is none; motion estimation objects are taken for a
mini-GOP at once, and for a delayed picture with the next one, unless the mini-GOP has a base
picture of its own. `Accounts` states both pools as numbers: what is free is the size less the
sets of the pictures taken and not decided, less one each for what is decided and not coded. A
step changes four of these numbers in different ways, and that they add up needs where a
picture is: `WindowKept` (the mini-GOPs of a window lie one after the other in it, and its
pictures are the last that arrived), `DelayedIsLast` (only the last picture of a window can be
delayed, so that a mini-GOP sent has at most one; this is where the splits of windows into
mini-GOPs enter, `SplitFollows`), and `StreamKept` (the stream is ended by a set taken after
the last picture's). `NothingIsLost` follows without another induction. That the end is reached at
all is `EveryPictureLeaves`, which stays with TLC. TLC checked the invariant on the streams
of `picture_decision` before it was proved.

*The pipeline: assumptions.* The sets of workers are disjoint (a thread runs one kernel),
and all pictures of a stream have the same number of tiles. Nothing is assumed about
time: with several tiles a slot may come back under a worker that lingers at it
(section 6), and the step is part of the specification. `SearchBeforeFilter` and
`PassedOnComplete` say what they say until then. With one tile it never happens
(`PipelineInvariant` has `Tiling = 1 => ~overtaken`), so that they hold throughout: the worker
that codes the last row is the one that passes the picture on, and remembers it
(`job[w].last`) when it leaves the loop. One tile is what the encoder uses by default.

*The pipeline: argument.* None of the three properties is inductive: each is about counters
(`searched`, `busy`, `done`) that two workers touch one after the other, and rests on where
all other messages and workers of the picture are. The stage a picture is at is nowhere in the
code's state, so the invariant says that there is one: `~overtaken => \E ph \in [Slots ->
Phases] : Consistent(ph)` in `PipelineInvariant`. Of a slot whose stage is given, `Consistent`
says where its messages and workers can be (`OneStage`, `PartsInRange`), that every part of
the picture is at one place only (`PartsOnce`, `UnpostedNowhere`, `ActorsOnce`), that the
segments not counted yet are exactly those still to be posted, queued or with a worker
(`CountsAgree`), and what tiles look like before, during and after coding (`TilesByStage`,
`TilesWaiting`, `TilesCoded`) and to the worker that is at them (`TileWithWorker`). Every step
keeps the assignment or moves one slot to the next stage. The step that needs most is the
count of the last segment: the number of outstanding segments is one, the counting worker has
it, so no other worker or message of the picture is left (`AloneWithLast`).

*The pipeline: structure.* One lemma per action (`TakeKeeps` to `StartKeeps`), on top of
four that several actions share: `MovesOn` for who is alone with a picture and takes it to
the next stage, `RowStepKeeps` and `TileStepKeeps` for steps at a tile, and `TurnKeeps` for
the end of a picture and the beginning of the next one in the same slot.

*EncDec: assumptions.* A geometry has at least one superblock each way and at least one
segment row and column. Nothing is assumed of `PoolSize`: with too few task objects the
stage may stop, and does nothing wrong. A picture one superblock wide, which is never
finished (section 6), satisfies all of these theorems: they are about what is coded, not
that everything is.

*EncDec: argument.* A worker that starts a task reads `current_seg_index` and increments
it in two steps without a mutex; one that clears the last dependency of a segment takes
that index and not the segment's own. That both find the segment meant for them is not
inductive: it rests on who else could be in the row. So the invariant gives every row of
segments an owner, or none: the posted task that names it, the worker that starts it, the
worker that codes in it, or the worker about to post a feedback task for it. It also
keeps two sets of segments, those that have cleared the dependency on their right
(`right`) and below them (`below`). None of the three is a variable of the program, hence
`ScheduleInvariant == Types /\ \E own, right, below : Scheduled(own, right, below)`.
`Scheduled` says that

* every task and every worker holds the row its state says it does (`TasksInPlace`,
  `WorkerInPlace`), so that no two are in one row;
* a dependency count is the number of neighbours to the left and above that are not in
  `right` and `below`; issued segments have count zero, later ones nothing coded
  (`Depends`);
* if a row is held by somebody who is still to take a segment, that is the current one
  and its count is zero; if a worker codes in the row, its segment is the one before the
  current one and has not cleared its right neighbour (`Owned`). Hence a count that
  becomes zero is that of the current segment, and the row has no owner then;
* the counters are exact, one worker at most sees the last count, and the workers that
  look below look below different segments (`CountsInOrder`).

When the picture's count is the number of superblocks, sums of what the workers have not
counted yet are zero, everything is done, and nobody can be anywhere but at rest
(`AllCounted`): this is what makes recoding and handing on safe. That neighbours are
coded first follows from the counts and one fact of geometry: a neighbour of a
superblock is in its segment, the one to the left, the one above or the one above to the
left (`SegmentsOfNeighbours`). The last one is not a dependency; it is done because it is
the left neighbour of the one above, or, where the row above ends before, because it is
above the one to the left.

*EncDec: structure.* One lemma per action (`StartRowStep` to `RecodeStep`), on top of
what a step leaves alone (`WorkerStays`, `TaskStays`, `RowStays`, `OwnersMove`, `OthersStay`)
and of what is counted (`CountsStay`). Before it was proved, TLC checked the invariant on the
instance of the run `encdec`, with the owners computed from the state and `right` and
`below` from the counters.

*The decoder: assumptions.* `DecoderAssumption` says what the frames of a stream have in
common and that its tiles cover the frame, as `svt_tile_init` lays them out: below every
tile there is another one or the end of the frame. `Hinted` is that every frame has order
hints, for without them the motion stage has no barrier and the counters of the end of the
frame are reset too early (section 6). `Wide` is that CDEF is only used on frames of two columns
or more, for which the wait of its rows is long enough (section 6). Nothing is assumed of closing:
the decoder may be closed at any moment between two frames, even when that makes it hang.
A stream whose tiles cannot be parsed is not left out either: the threads wait, and nothing is
done too early.

*The decoder: wavefront.* `Staircase` is inductive beside types and ranges: a row of a stage is
ahead of the one below by a superblock or finished. What the code compares is a different number
in every stage; that each of these waits means the same is `AboveIsAhead`. A row is reset
only with all others of its stage, so that no order among the threads is needed.

*The decoder: frames.* The other properties depend on when rows and counters are reset, and
nothing in the state says which frame a worker is at. `Phases` says that the threads go
together through four phases of a frame, by where `Main` and the workers are, what the
barriers' counts, the start flags and the mutex say: everyone counted at the end of the last
frame (`InOpening`), the motion field (`InProjecting`), everyone counted there (`InTurning`), and
the rest of the frame (`InWorking`). What makes it inductive is that a barrier's count is the
number of threads that have been counted in this frame (`arrived["lr"]` in `InWorking` is the
number of those at rest, `arrived["motion"]` that of those projected), that the last thread
holds the mutex until the flags are cleared (`MutexIsLast`), so that `Main` cannot set a new flag
before, and that a worker is past the start of a filter only when `Main` is (`HasStarted`).
`Work` adds what has been done: a row that was taken is finished or a thread is at it
(`Covered`), and a thread is past a stage only when there is nothing left to take in it
(`Exhausted`). When the last barrier lets `Main` through nobody is at a row, so all rows are
finished (`AtTheEnd`, `FrameIsComplete`). `Closed` carries this over to the last round, in which
nothing is taken although all start flags are set. `FrameInvariant` is the conjunction.

*The decoder: filters.* What one filter may rely on is a chain through the maps of the stages
before: a row in `lf_row_map` means that this one and all above it are deblocked and all
rows to it reconstructed (`LfOrdered`, by the staircase, since a finished row's neighbours above are
finished), one in the map of cdef the same through CDEF (`CdefOrdered`), and what is final
stays final within the frame (`FinalStays`). A row in the map of reconstruction has all its
superblocks (`ReconOrdered`); the step from there to the rows of a frame needs all tiles.
Without deblocking the staircase of `lf` is no help, and rows are in order only if no tile is
below another: `OrderIsKept`, the hypothesis of the property itself.

*The decoder: structure.* One lemma per phase and kind of step (`FirstStep`, `OpeningStep`,
`ProjectingStep`, `TurningStep`, `WorkingStep`), which turns the many places a thread can be
at into a few moves (`WorkingMove`, `LateMove`, `RestMove`). For `Work` and `Ordered`, steps
of threads and of `Main` are apart (`ThreadKeepsWork`, `MainKeepsWork`, `ThreadKeepsOrdered`,
`MainKeepsOrdered`): within a phase, nothing a thread does makes a stage newly queued
(`QueuedBack`). TLC checked `BaseInvariant`, `Phases`, `Work`, `Closed` and `Ordered` on the
streams of the run `decoder_threads` before they were proved.

*Packetization: queue.* None of the properties says anything of the reorder queue, and none is
inductive without it. `QueueInOrder` makes it a window on decode order: what is in it is packed
and not sent, at the place of its order, and within `Depth` of the head. A picture that is
packed next has a free place (`NextHasPlace`) only because of what the kernel saw before it
went to sleep: if the picture were a whole queue ahead, the lag would have everything
up to `MaxLag` before it packed, `QueuesSuffice` would have a shown one among them, and the
unit at the head would have been complete. So `pc = "idle" => FramesInTu = 0` is part of the
invariant, and `Packetize` is never enabled in the middle of the loop.

*Packetization: packets.* The undisplayed queue holds exactly the hidden pictures before the
head that one after it shows (`Pending`), the first to be displayed last. A unit adds its
hidden pictures (`PendingInUnit`, `JoinFacts`) and takes one if its shown picture shows another, and
that one is the last of the sorted queue: everything else that is hidden is displayed
later (`KeptFacts`, `EmitFacts`). `SentInOrder` counts: as many packets were posted as
pictures are displayed up to the last one sent, so that the number of the picture that ends a unit
is the number of packets before it (`NumberIsCount`). This gives display order and time
stamps. Decode order is a fact about a flattened sequence of sequences, which is not
computed but characterised: `Flattens` says when a function gives the partial results of
`FlattenSeq`, and `FlatGrows` what a further packet does.

*Packetization: end and metadata.* The kernel compares `decode_order` with a number in display
order; the two agree because the picture decoded last is also displayed last or shows the last
one (`LastDecoded`, `EndIsLast`), and the packets are as many as there are numbers
(`NumbersCovered`). Metadata is kept from the packing of a hidden picture to that of the
picture that shows it, and then in the header until it is sent (`MetadataIsKept`); nothing
else is put in its entry, since two hidden pictures kept at a time differ by less than the queue
(`EntriesDiffer`). That the hidden picture is packed first is what waiting for feedback gives, and
hence the hypothesis of the property. TLC checked the invariants on the streams of the run
`packetization` before they were proved.

*Sums.* What a fold over a set computes needs induction over the set, and the library's
induction theorems take an operator as a parameter. The lemmas on sums go another way: a
smallest set for which a claim fails exists because the strict subset order of finite
sets is well-founded (`WFMin`), and the claim is shown of it from the set without one
element. `SumIsFold` is where the definition of the fold is met.

*Only model-checked.* All of `PictureSets` and `PictureDecision`, of `LookAhead` all but where
the objects of its pools are, the upper bounds
in `TypeOK` of `DecoderThreads` and the count of buffers in that of `Packetization`. All
liveness stays with TLC, and so does `NeverStuck`: the prover handles neither fairness nor
ENABLED. For `EncDec` this means that a picture is handed on at all (`PictureIsCoded`)
is checked for the layouts of the run only.

## 8. Not modelled

* Samples, syntax elements, rate-distortion decisions, rate control's numbers:
  sequential numeric code without state shared between threads.
* Rate Control's feedback per row and `quantized_coeff_num_bits`, which the workers of
  several tiles add to without a mutex (`EbEntropyCodingProcess.c:432`): an input of
  numeric control only.
* Super-resolution, where every worker of Restoration scales the same reconstruction
  in place (`EbRestProcess.c:560`).
* Of Picture Decision: the reorder queue, the queue of the pre-analysis references, the
  pictures of temporal filtering, user-defined prediction structures, and the
  configurations named in section 4.
* Of the pools: those of input pictures, references, pre-analysis references and
  children, whose sizes are computed beside those of `LookAhead`. A set is only a number
  there: that the end of the stream is marked in an alt-ref picture when it may already
  be decided (`EbResourceCoordinationProcess.c:1508`), and that an overlay's set is
  released when it may still be in Picture Analysis (`EbPictureDecisionProcess.c:6947`),
  is not in the model. TPL switched off and the first of two passes are not either.
* Between the filters: the pools of other resources that Restoration and Entropy Coding wait
  for (PictureDemux for the announcement of a reference, Rate Control tasks for the feedback
  of a row, the reconstructed pictures given to the application). That the Picture Manager can
  block, with these messages unread, is in `PictureManager`.
* Memory: allocation failure ends initialisation before a thread exists.
* The first pass of two-pass encoding inside EncDec, which has no segments, and
  the stages listed as planned in section 2.
* `svt_circular_buffer`'s array and indices: abstracted to sequences; capacity is
  kept for the buffers that could overflow.
* Priorities and affinity of threads; the condition variable, used by the TPL
  dispenser only.
* A SequenceControlSet that changes in the middle of a stream in the Picture
  Manager; its replacement is modelled in `SystemResource`.
* In the decoder: a change of the frame size in the stream
  (`dec_system_resource_init` sets the counters up anew). Superblocks of
  128x128, where one row of CDEF is two of 64x64 with waits of its own. The
  single-threaded decoder. A sequence header that changes the sequence, which sets up the
  picture buffers anew (`dec_mem_init`). Of its picture buffers: the output queue and the several
  frames in work that the code prepares for and does not use.
