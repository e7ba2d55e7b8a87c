-------------------------- MODULE DecoderPictures ---------------------------
(***************************************************************************)
(* The decoder's picture buffers (EbDecPicMgr) around the frames that      *)
(* svt_av1_dec_frame decodes from one temporal unit after the other.       *)
(*                                                                         *)
(* The header of a frame takes a buffer and computes next_ref_frame_map,   *)
(* in which every entry counts as a reference of its own; the end of the   *)
(* frame replaces ref_frame_map by it.  After an error the current buffer  *)
(* only loses a reference, whatever the error came of.                     *)
(*                                                                         *)
(* A call decodes a unit round by round (decode_multiple_obu), one frame   *)
(* at a time (num_frms_prll is 1); its delimiter comes first.  Inside a    *)
(* round, tile groups before the last of a frame, sequence headers that    *)
(* change nothing and other OBUs leave this state alone.  A round that     *)
(* fails is followed by another one where the failed one stopped, or by    *)
(* none, as the data has it.  With its asserts compiled in the program     *)
(* stops at the error instead.                                             *)
(***************************************************************************)
EXTENDS Integers, FiniteSets

CONSTANTS
    Buffers,        \* as_dec_pic, by index
    RefSlots,       \* the entries of ref_frame_map
    None,
    MaxFrames,      \* bound: frames of the stream
    MaxFailures,    \* bound: rounds that end with an error
    MaxEmptyRounds  \* bound: rounds that end without one, and without a frame begun

ASSUME DecoderPicturesAssumption ==
    /\ Buffers \subseteq Nat /\ None \notin Buffers
    /\ IsFiniteSet(Buffers) /\ IsFiniteSet(RefSlots)
    /\ MaxFrames \in Nat /\ MaxFailures \in Nat /\ MaxEmptyRounds \in Nat

VARIABLES
    at, more, ok,   \* place in svt_av1_dec_frame, data left in the unit, the round's status
    seen,           \* seen_frame_header
    refs, next,     \* ref_frame_map, next_ref_frame_map
    count, free,    \* ref_count (a wrong one may be below 0: uint8_t), is_free
    cur,            \* cur_pic_buf[0]
    header,         \* of the current frame: its number, refresh_frame_flags, show_existing_frame
    decoding,       \* between the header of a frame and the end of its round
    holds,          \* ghost: the frame whose samples a buffer has, 0 for none; not kept once strayed
    lost,           \* ghost: references counted for a map that was never put in force
    strayed,        \* history: a round was about no frame, or failed outside a new frame
    begun, failures, emptyRounds

callVars == <<at, more, ok, seen>>
picVars == <<refs, next, count, free, cur, holds, lost>>
vars == <<callVars, picVars, header, decoding, strayed, begun, failures, emptyRounds>>

NoRefs == [s \in RefSlots |-> None]

\* How often a map refers to a buffer.
References(map, b) == Cardinality({s \in RefSlots : map[s] = b})

\* A new frame is being decoded; it counts one reference for its own buffer, which
\* a frame shown again does not.
Fresh == decoding /\ ~header.existing
Own(b) == IF Fresh /\ cur = b THEN 1 ELSE 0

Init ==
    /\ at = "idle" /\ more = FALSE /\ ok = TRUE /\ seen = FALSE
    /\ refs = NoRefs /\ next = NoRefs
    /\ count = [b \in Buffers |-> 0] /\ free = Buffers
    /\ cur = None /\ decoding = FALSE
    /\ header = [frame |-> 0, refresh |-> {}, existing |-> FALSE]
    /\ holds = [b \in Buffers |-> 0] /\ lost = [b \in Buffers |-> 0]
    /\ strayed = FALSE
    /\ begun = 0 /\ failures = 0 /\ emptyRounds = 0

\* svt_av1_dec_frame is given a temporal unit.
Call ==
    /\ at = "idle"
    /\ at' = "obu" /\ more' = TRUE /\ seen' = FALSE
    /\ UNCHANGED <<ok, picVars, header, decoding, strayed, begun, failures, emptyRounds>>

\* Bug: only the references that change are entered into the new map and counted.
NextMapOfRefreshed(b, m) == [s \in RefSlots |-> IF s \in m THEN b ELSE None]
NextMap(b, m) == [s \in RefSlots |-> IF s \in m THEN b ELSE refs[s]]

\* generate_next_ref_frame_map.  The references of a map that is still there, from
\* a frame that failed, stay counted.
GenerateNext(b, m, base) ==
    /\ next' = NextMap(b, m)
    /\ count' = [x \in Buffers |-> base[x] + References(next', x)]
    /\ lost' = [x \in Buffers |-> lost[x] + References(next, x)]

\* A header is read when none has been seen, and marked as seen whatever it says.
ReadsHeader ==
    /\ at = "obu" /\ ~seen /\ seen' = TRUE
    /\ UNCHANGED <<at, more, ok, refs, strayed, failures, emptyRounds>>

\* The header of a new frame takes the first free buffer.  When there is none the
\* frame has no buffer and the program cannot go on.
NewFrame ==
    /\ ReadsHeader /\ begun < MaxFrames
    /\ begun' = begun + 1
    /\ \E b \in free, m \in SUBSET RefSlots :
          /\ \A c \in free : b <= c
          /\ cur' = b
          /\ free' = free \ {b}
          /\ holds' = [holds EXCEPT ![b] = begun']
          /\ header' = [frame |-> begun', refresh |-> m, existing |-> FALSE]
          /\ GenerateNext(b, m, [count EXCEPT ![b] = 1])
    /\ decoding' = TRUE

\* show_existing_frame, of a slot that holds a frame: the program cannot go on with
\* an empty one.  Whether the frame is a key frame is left open; if it is, it
\* refreshes every slot.  The early return for a frame id that does not fit is never
\* taken: it asks for ref_valid, which the decoder only clears.
ShowExisting ==
    /\ ReadsHeader
    /\ \E s \in RefSlots, m \in {{}, RefSlots} :
          /\ refs[s] # None
          /\ cur' = refs[s]
          /\ header' = [frame |-> holds[refs[s]], refresh |-> m, existing |-> TRUE]
          /\ GenerateNext(refs[s], m, count)
    /\ decoding' = TRUE
    /\ UNCHANGED <<free, holds, begun>>

\* read_uncompressed_header leaves a frame alone whose id does not follow the one
\* before: it takes no buffer and computes no map, and reports no error.
HeaderPassedOver ==
    /\ ReadsHeader
    /\ header' = [header EXCEPT !.existing = FALSE]
    /\ UNCHANGED <<picVars, decoding, begun>>

\* The round is over, and the next one, if any, finds what is left of the data.
RoundEnds(status, astray) ==
    /\ at = "obu" /\ at' = "update" /\ ok' = status
    /\ strayed' = (strayed \/ astray)
    /\ IF status /\ ~decoding
       THEN emptyRounds < MaxEmptyRounds /\ emptyRounds' = emptyRounds + 1
       ELSE UNCHANGED emptyRounds
    /\ UNCHANGED <<picVars, header, decoding, begun>>

\* The last tile group of the frame whose header was seen last.
LastTiles ==
    /\ seen /\ seen' = FALSE /\ cur # None
    /\ more' \in BOOLEAN
    /\ RoundEnds(TRUE, ~Fresh)
    /\ UNCHANGED failures

\* The data ends: after a frame shown again, after a frame whose tile groups do not
\* all come, or without a frame, as after padding or metadata.
EndOfData ==
    /\ more' = FALSE
    /\ RoundEnds(TRUE, ~decoding)
    /\ UNCHANGED <<seen, failures>>

\* An OBU cannot be read, comes without the header it needs, or a tile cannot be
\* decoded.
Fails ==
    /\ failures < MaxFailures /\ failures' = failures + 1
    /\ more' \in BOOLEAN
    /\ RoundEnds(FALSE, ~Fresh)
    /\ UNCHANGED seen

\* dec_ref_count_and_rel, drops[b] times for every buffer.
Drop(drops) ==
    /\ count' = [b \in Buffers |-> count[b] - drops[b]]
    /\ free' = free \cup {b \in Buffers : count[b] \in 1..drops[b]}

\* Bug: a frame shown again gives up a reference like a decoded one.
DroppedShownToo(b) == References(refs, b) + IF cur = b THEN 1 ELSE 0
\* Bug: the references of the old map are not given up.
DroppedOnlyOwn(b) == IF ~header.existing /\ cur = b THEN 1 ELSE 0
Dropped(b) == References(refs, b) + IF ~header.existing /\ cur = b THEN 1 ELSE 0

\* What both branches of dec_pic_mgr_update_ref_pic lead to.
Updates ==
    /\ at = "update"
    /\ at' = IF more THEN "obu" ELSE "idle"
    /\ decoding' = FALSE
    /\ UNCHANGED <<more, ok, seen, cur, header, holds, lost, strayed, begun, failures, emptyRounds>>

\* dec_pic_mgr_update_ref_pic
Update ==
    /\ ok /\ Updates
    /\ Drop([b \in Buffers |-> Dropped(b)])
    /\ refs' = next /\ next' = NoRefs

\* The same after an error.
UpdateFailed ==
    /\ ~ok /\ Updates
    /\ Drop([b \in Buffers |-> IF cur = b THEN 1 ELSE 0])
    /\ UNCHANGED <<refs, next>>

Next ==
    \/ Call \/ NewFrame \/ ShowExisting \/ HeaderPassedOver
    \/ LastTiles \/ EndOfData \/ Fails
    \/ Update \/ UpdateFailed

Spec == Init /\ [][Next]_vars

-----------------------------------------------------------------------------
(* Properties.                                                             *)

TypeOK ==
    /\ at \in {"idle", "obu", "update"} /\ more \in BOOLEAN /\ ok \in BOOLEAN /\ seen \in BOOLEAN
    /\ refs \in [RefSlots -> Buffers \cup {None}]
    /\ next \in [RefSlots -> Buffers \cup {None}]
    /\ count \in [Buffers -> Int] /\ free \subseteq Buffers
    /\ cur \in Buffers \cup {None} /\ decoding \in BOOLEAN
    /\ header \in [frame : Nat, refresh : SUBSET RefSlots, existing : BOOLEAN]
    /\ holds \in [Buffers -> Nat] /\ lost \in [Buffers -> Nat]
    /\ strayed \in BOOLEAN
    /\ begun \in Nat /\ failures \in Nat /\ emptyRounds \in Nat

\* The references to a buffer: from both maps and from the frame being decoded, and
\* those a failed frame has left behind.
Counted(b) == References(refs, b) + References(next, b) + Own(b) + lost[b]

\* A buffer's count is the number of references to it, and it is free exactly when
\* there is none: until a round fails outside a new frame or is about no frame.  Such
\* a round drops a reference of cur_pic_buf[0] that is not counted (EbDecPicMgr.c:238,
\* 241).  Whatever happens the count is never too high: no round leaves a buffer
\* taken that only a miscount keeps.
CountsAreExact ==
    \A b \in Buffers :
        /\ count[b] <= Counted(b)
        /\ ~strayed => count[b] = Counted(b) /\ (b \in free <=> count[b] = 0)

\* Without errors a frame header always finds a free buffer, as there is one more of
\* them than slots (MAX_PIC_BUFS): none is kept that no slot needs.  Rounds about no
\* frame do not change that.
BuffersSuffice ==
    failures = 0 /\ ~decoding => free # {}

\* The frame each slot holds, and the last header.
Held == [s \in RefSlots |-> IF refs[s] = None THEN 0 ELSE holds[refs[s]]]
Pending == [frame |-> header.frame, refresh |-> header.refresh]

Slots == INSTANCE ReferenceSlots
    WITH slot <- Held, busy <- decoding, pending <- Pending, damaged <- strayed

\* The samples found in each reference slot are those of the frame the stream put
\* there: no buffer is reused too early, no slot is lost or kept too long, and a new
\* frame that fails changes no slot.  Nothing is said from the first round on that
\* fails outside a new frame, which may free the buffer of a slot, or is about no
\* frame, which empties all slots (EbDecHandle.c:598).
ImplementsReferenceSlots == Slots!Spec
=============================================================================
