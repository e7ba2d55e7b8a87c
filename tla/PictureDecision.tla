-------------------------- MODULE PictureDecision ---------------------------
(***************************************************************************)
(* The picture decision kernel: pictures arrive in display order, are held *)
(* in the pre-assignment buffer until a window is complete, the window is  *)
(* split into mini-GOPs, every picture gets a place in a prediction        *)
(* structure and the header fields that follow from it, and the mini-GOP   *)
(* goes on in decode order.                                                *)
(*                                                                         *)
(* The last action is the decoder's side of the header, as the frame       *)
(* report of Packetization follows it: dpb holds, for each of the eight    *)
(* slots, the number of the picture stored there.                          *)
(*                                                                         *)
(* The prediction structure is random access, the only one the encoder     *)
(* configures; user-defined prediction structures are left out, as are     *)
(* overlays below hierarchical level 2 and at level 5.                     *)
(***************************************************************************)
EXTENDS PredictionStructures

\* The streams: one record per configuration, with the fields
\*   levels     hierarchical_levels, 0 .. 5
\*   mrp        mrp_init_level, 1, 3 or 4
\*   tuned      the shared tables hold the lists of mrp_init_level 1
\*   period     intra_period_length, -1 for none
\*   refresh    what a period begins with: "key" or "intra"
\*   overlays   enable_overlays
\*   forced     bound: pictures the application makes key or intra-only
\*   length     bound: pictures of the stream
CONSTANTS Streams, None

ASSUME PictureDecisionAssumption ==
    /\ \A s \in Streams :
         /\ s.levels \in 0 .. 5 /\ s.mrp \in {1, 3, 4} /\ (s.mrp = 1 => s.tuned)
         /\ s.period >= -1 /\ s.refresh \in {"key", "intra"}
         /\ s.overlays => s.levels \in 2 .. 4
         /\ s.forced \in Nat /\ s.length \in Nat \ {0}
    /\ None \notin Int

VARIABLES
    stream,     \* the configuration
    arrived,    \* pictures taken so far: picture_number of the next one
    intraPos,   \* intra_period_position
    forced,     \* pictures the application has forced
    ended,      \* the last picture of the stream has arrived
    buffer,     \* pre_assignment_buffer
    gops,       \* mini-GOPs of the window still to be decided
    idx,        \* index of the next picture in the first of them
    predPosition, \* pred_struct_position
    afterIntra, \* elapsed_non_cra_count is 0
    prevLevel,  \* previous_mini_gop_hierarchical_levels
    toggle,     \* lay0_toggle, lay1_toggle, lay2_toggle
    keyPoc,     \* key_poc
    decided,    \* mg_pictures_array
    base,       \* decode_base_number
    progress,   \* mg_progress_id
    sent,       \* pictures sent on, in decode order
    dpb,        \* what the decoder has in each slot
    coded,      \* pictures coded: the decode order that is next
    shown       \* frames shown: the picture number that is next

arrivalVars  == <<arrived, intraPos, forced, ended, buffer>>
decisionVars == <<gops, idx, predPosition, afterIntra, prevLevel, toggle, keyPoc, decided, base,
                  progress>>
decoderVars  == <<dpb, coded, shown>>
vars == <<stream, arrivalVars, decisionVars, sent, decoderVars>>

Init ==
    /\ stream \in Streams
    /\ arrived = 0 /\ intraPos = 0 /\ forced = 0 /\ ended = FALSE
    /\ buffer = <<>> /\ gops = <<>> /\ idx = 0
    /\ predPosition = 0 /\ afterIntra = TRUE /\ prevLevel = stream.levels
    /\ toggle = <<0, 0, 0>> /\ keyPoc = 0
    /\ decided = <<>> /\ base = 0 /\ progress = 0 /\ sent = <<>>
    /\ dpb = [slot \in 0 .. 7 |-> None] /\ coded = 0 /\ shown = 0

-----------------------------------------------------------------------------
(* The pre-assignment buffer and its windows.                              *)

IsKey(p) == p.type = "key"

\* The type of the next picture, "wish" being what the application asks for.
ArrivingType(wish) ==
    LET due == stream.period = 0 \/ intraPos = stream.period
    IN  IF arrived = 0 \/ wish = "key" THEN "key"
        ELSE IF due /\ stream.period # 0 THEN stream.refresh
        ELSE IF due \/ wish = "intra" THEN "intra"
        ELSE "inter"

NextIntraPos == IF stream.period <= 0 \/ intraPos = stream.period THEN 0 ELSE intraPos + 1

Gop(first, len, lev) == [first |-> first, len |-> len, level |-> lev]

\* Blocks of eight pictures from "first" on, as far as they are complete.
Eights(first, count) ==
    [n \in 1 .. (count - first) \div 8 |-> Gop(first + 8 * (n - 1), 8, 3)]

\* generate_picture_window_split: large blocks first.  A block of 32 or 16 is not
\* taken when a key picture would be the last of it.
Blocks(count, keyLast) ==
    LET fits(n) == count >= n /\ ~(count = n /\ keyLast)
    IN  CASE fits(32) -> <<Gop(0, 32, 5)>>
          [] fits(16) -> <<Gop(0, 16, 4)>> \o Eights(16, count)
          [] OTHER    -> Eights(0, count)

\* generate_picture_window_split and handle_incomplete_picture_window_map: what is
\* left of the window goes by at most four levels.
Split(levels, count, keyLast) ==
    LET blocks == Blocks(count, keyLast)
        covered == IF blocks = <<>> THEN 0
                   ELSE LET g == blocks[Len(blocks)] IN g.first + g.len
        rest == IF levels <= 3 THEN levels ELSE 3
    IN  IF levels <= 1 \/ count = 1 THEN <<Gop(0, count, levels)>>
        ELSE IF covered < count
             THEN blocks \o <<Gop(covered, count - covered, rest)>>
             ELSE blocks

\* A window ends with an intra picture, with the stream or when it has the length
\* of a mini-GOP.
WindowComplete(window, last) ==
    \/ window[Len(window)].type # "inter"
    \/ Len(window) = Period(stream.levels)
    \/ last

\* A picture arrives.
Arrive(wish, last) ==
    /\ ~ended /\ gops = <<>> /\ decided = <<>>
    /\ arrived + 1 = stream.length => last
    /\ wish # "none" => forced < stream.forced
    /\ LET window == Append(buffer, [pic |-> arrived, type |-> ArrivingType(wish)])
       IN  IF WindowComplete(window, last)
           THEN /\ buffer' = window
                /\ gops' = Split(stream.levels, Len(window), IsKey(window[Len(window)]))
           ELSE buffer' = window /\ gops' = <<>>
    /\ arrived' = arrived + 1
    /\ intraPos' = IF arrived = 0 THEN 0 ELSE NextIntraPos
    /\ forced' = IF wish = "none" THEN forced ELSE forced + 1
    /\ ended' = last
    /\ UNCHANGED <<stream, idx, predPosition, afterIntra, prevLevel, toggle, keyPoc, decided,
                   base, progress, sent, decoderVars>>

-----------------------------------------------------------------------------
(* The place of a picture in its prediction structure.                     *)

EntryOf(lev, ra, p) == StructureEntry(lev, stream.mrp, stream.tuned, ra, p)

\* The first mini-GOP of the window is being decided, "i" is the index in it.
Picture(g, i) == buffer[g.first + i + 1]

\* mini_gop_idr_count: only the last mini-GOP of a window can have a key picture.
Closed(g) == g.first + g.len = Len(buffer) /\ IsKey(buffer[Len(buffer)])

\* is_pic_cutting_short_ra_mg
CutsShort(g, p) == p.type = "inter" /\ (g.len < Period(g.level) \/ Closed(g))

\* Pictures that are cut off go by the low delay structure.  With two levels they
\* are given its steady entries, whatever came before.  The code asks for fewer than
\* MAX_REF_IDX references as well, of a ref_count_used that stays 0 when there are as
\* many (EbPredictionStructure.c:2318), so that the condition always holds.
Trailing(g, p) == stream.levels = 1 /\ CutsShort(g, p)

\* The position of picture i, before it cycles.
MovedPosition(g, i, p) ==
    LET ra == ~CutsShort(g, p)
        init == InitIndex(g.level, ra)
        corrected == IF i = 0 /\ ~ra THEN predPosition - InitIndex(g.level, TRUE) ELSE predPosition
    IN  CASE IsKey(p)                                         -> init
          [] p.type = "intra" /\ g.len < Period(g.level)      -> init
          [] afterIntra                                       -> init + 1
          [] i = 0 /\ prevLevel # g.level                     -> init + 1
          [] OTHER                                            -> corrected + 1

\* Bug: the position of the random access structure is not corrected.
NextPositionUncorrected(g, i, p) ==
    LET ra == ~CutsShort(g, p)
        count == EntryCount(g.level, stream.mrp, stream.tuned, ra)
        moved == IF ~ra /\ ~afterIntra THEN predPosition + 1 ELSE MovedPosition(g, i, p)
    IN  IF moved = count THEN moved - Period(g.level) ELSE moved
NextPosition(g, i, p) ==
    LET ra == ~CutsShort(g, p)
        count == EntryCount(g.level, stream.mrp, stream.tuned, ra)
        moved == MovedPosition(g, i, p)
    IN  IF Trailing(g, p)
        THEN SteadyIndex(g.level, stream.mrp, stream.tuned, FALSE) + i
        ELSE IF moved = count THEN moved - Period(g.level) ELSE moved

-----------------------------------------------------------------------------
(* av1_generate_rps_info: the header of a picture.                         *)

\* A window after one of six levels has a third base slot again.
ThirdBase(t) == CASE t = 0 -> 2 [] t = 1 -> 1 [] OTHER -> 0
EnteringToggle(g, i) ==
    IF i = 0 /\ <<prevLevel, g.level>> \in {<<5, 3>>, <<5, 4>>}
    THEN [toggle EXCEPT ![1] = ThirdBase(@)] ELSE toggle

\* The first reference of the same list with the same slot: its distance is used.
SameSlot(row, k) == Min({j \in (IF k <= 4 THEN 1 ELSE 5) .. k : row[j] = row[k]})

\* prune_refs, and set_frame_display_params for the low delay structure: the
\* reference of the row that stands in for reference k.
StandIn(entry, ra, k) ==
    LET own == CASE k \in 2 .. 4 /\ k > Len(entry.list0)     -> 1
                 [] k \in 6 .. 7 /\ k - 4 > Len(entry.list1) -> 5
                 [] OTHER                                    -> k
    IN  IF k >= 5 /\ ~ra THEN 1 ELSE own

FullLists(lev, g) ==
    LET c == ConfigArray[lev + 1][g + 1]
    IN  [list0 |-> IF stream.tuned /\ <<lev, g>> \in DOMAIN TunedList0
                   THEN TunedList0[lev, g] ELSE c.list0,
         list1 |-> IF stream.tuned /\ <<lev, g>> \in DOMAIN TunedList1
                   THEN TunedList1[lev, g] ELSE c.list1]

\* ref_poc_array of reference k of a row.  The third reference of the first picture
\* of six levels is given the distance of the second.
PocIndex(lev, g, row, k) == IF lev = 5 /\ g = 1 /\ k = 3 THEN 2 ELSE SameSlot(row, k)
RefPoc(lev, g, row, k, pic) ==
    LET j == PocIndex(lev, g, row, k)
        lists == FullLists(lev, g)
        delta == IF j <= 4 THEN lists.list0[j] ELSE lists.list1[j - 4]
    IN  Max({keyPoc, pic - delta})

NoReferences == [dpbIndex |-> <<>>, poc |-> <<>>]

References(g, i, entry, ra, pic, t) ==
    LET row == SlotRow(g.level, entry.layer, i)
        slot == SlotOf(g.level, t[1], t[2], i)
        from(k) == StandIn(entry, ra, k)
    IN  [dpbIndex |-> [k \in 1 .. 7 |-> slot[row[from(k)]]],
         poc |-> [k \in 1 .. 7 |->
                    RefPoc(g.level, GopIndex(g.level, entry.layer, i), row, from(k), pic)]]

\* An overlay predicts from the picture it lies over, now the newest of the base.
OverlayReferences(g, pic, t) ==
    [dpbIndex |-> [k \in 1 .. 7 |-> SlotOf(g.level, t[1], t[2], g.len - 1).base1],
     poc |-> [k \in 1 .. 7 |-> pic]]

\* refresh_frame_mask, the slots a picture of a layer is stored in.
RefreshMask(lev, layer, i, t) ==
    CASE layer = 0              -> {t[1]}
      [] layer = 1              -> {(IF lev = 1 THEN 5 ELSE Lay1Off) + t[2]}
      [] lev = 2                -> IF i = 0 THEN {Lay2Off} ELSE {}
      [] lev = 3 /\ layer = 2   -> {Lay2Off + t[3]}
      [] lev = 3                -> IF stream.mrp = 1 \/ i = 0 THEN {7} ELSE {}
      [] layer = 2              -> {Lay2Off}
      [] layer = 3              -> {Lay3Off}
      [] lev = 4                -> IF IF stream.mrp = 1 THEN i % 2 = 0 ELSE i \in {0, 8}
                                   THEN {Lay4Off} ELSE {}
      [] layer = 4              -> {Lay4Off}
      [] OTHER                  -> {Lay5Off}

\* Pictures of a complete mini-GOP that are shown although others predict from them.
ShownAtOnce(lev, i) ==
    CASE lev <= 2                     -> i = 0
      [] lev = 3 /\ stream.mrp = 1    -> i \in {0, 2, 4, 6}
      [] lev = 3                      -> i = 0
      [] lev = 4 /\ stream.mrp # 1    -> i \in {0, 8}
      [] OTHER                        -> i % 2 = 0

\* show_existing_frame: a picture shown brings the hidden one after it with it.
ShowExisting(lev, i) ==
    CASE lev = 1                                     -> "base_off0"
      [] i = Period(lev) - 2                         -> "base2"
      [] lev >= 3 /\ i = (Period(lev) \div 2) - 2    -> "lay1_1"
      [] lev = 2                                     -> "lay1_1"
      [] lev = 3                                     -> "lay2_1"
      [] lev = 4                                     -> IF i % 4 = 0 THEN "lay3" ELSE "lay2_1"
      [] OTHER                                       -> IF i % 4 = 0 THEN "lay4"
                                                        ELSE IF i % 8 = 2 THEN "lay3" ELSE "lay2"

\* show_frame and show_existing_frame.
Display(g, i, p, referenced, ra, t) ==
    LET only(b) == [show |-> b, existing |-> None]
    IN  CASE IsKey(p) \/ g.level = 0 \/ ~ra             -> only(TRUE)
          [] p.type = "intra"                           -> only(g.len < Period(g.level))
          [] referenced /\ ~ShownAtOnce(g.level, i)     -> only(FALSE)
          [] OTHER -> [show |-> TRUE,
                       existing |-> SlotOf(g.level, t[1], t[2], i)[ShowExisting(g.level, i)]]

\* The toggles after a picture.  The index is compared with the last one of the
\* mini-GOP in the window, for four levels with its last one in blocks of eight.
LastIndex(g) ==
    LET end == g.first + g.len - 1 IN IF g.level = 3 THEN end % 8 ELSE end

ToggledBase(lev, t) ==
    CASE lev = 0 -> (t + 1) % 8
      [] lev = 1 -> (t + 1) % 5
      [] lev = 5 -> (1 - t) % 256
      [] OTHER   -> (t + 1) % 3

Toggled(g, i, entry, ra, t) ==
    LET last == g.level = 0 \/ i = LastIndex(g)
        second == \/ g.level = 4 /\ entry.layer = 2
                  \/ g.level = 3 /\ entry.layer = 2 /\ (ra \/ g.len >= 7)
    IN  <<IF last THEN ToggledBase(g.level, t[1]) ELSE t[1],
          IF ~last \/ g.level = 0 THEN t[2]
          ELSE IF g.level = 1 THEN (t[2] + 1) % 3 ELSE 1 - t[2],
          IF second THEN 1 - t[3] ELSE t[3]>>

-----------------------------------------------------------------------------
(* Deciding, sending and coding.                                           *)

\* The references the encoder itself predicts from: the lists of the entry.
Used(entry, p) ==
    [k \in {n \in 1 .. 4 : n <= Len(entry.list0)} \cup {n \in 5 .. 7 : n - 4 <= Len(entry.list1)} |->
       p.pic - (IF k <= 4 THEN entry.list0[k] ELSE entry.list1[k - 4])]

\* Pictures of a complete mini-GOP go in the order of the structure.
DecodeOrder(g, i, entry) ==
    base + (IF g.len = Period(g.level) /\ ~Closed(g) THEN entry.order ELSE i)

\* The last picture before the end of the stream has end_of_sequence_flag.
EndsStream(pic) == ended /\ pic = arrived - 1

\* is_delayed_intra: an intra picture waits for the mini-GOP after it.
IsDelayed(g, p) ==
    /\ p.type # "inter" /\ stream.period # 0 /\ ~EndsStream(p.pic)
    /\ IsKey(p) \/ g.len < Period(g.level)

Slice(g, p) == CASE p.type # "inter" -> "I" [] CutsShort(g, p) -> "P" [] OTHER -> "B"

\* A decided picture, with its references and how it is displayed.
Decision(g, i, p, entry, refs, display, t) ==
    [pic |-> p.pic, type |-> p.type, order |-> DecodeOrder(g, i, entry),
     dpbIndex |-> refs.dpbIndex, poc |-> refs.poc,
     used |-> IF p.type = "inter" THEN Used(entry, p) ELSE <<>>,
     layer |-> entry.layer, slice |-> Slice(g, p), delayed |-> IsDelayed(g, p),
     mask |-> IF IsKey(p) THEN 0 .. 7 ELSE RefreshMask(g.level, entry.layer, i, t),
     show |-> display.show, existing |-> display.existing, mg |-> 0, mgSize |-> 0]

\* The overlay of a base picture, coded after its mini-GOP.
Overlay(g, pic, t) ==
    LET refs == OverlayReferences(g, pic, t)
    IN  [pic |-> pic, type |-> "inter", order |-> base + g.len,
         dpbIndex |-> refs.dpbIndex, poc |-> refs.poc, used |-> [k \in {1} |-> pic],
         layer |-> g.level, slice |-> "P", delayed |-> FALSE,
         mask |-> RefreshMask(g.level, g.level, g.len - 1, t),
         show |-> TRUE, existing |-> None, mg |-> 0, mgSize |-> 0]

\* A base picture that has an overlay is not shown, nor is it by the one before it.
\* Bug: the one before it still shows it.
HideAltRefOnly(pictures) ==
    [pictures EXCEPT ![Len(pictures)] = [@ EXCEPT !.show = FALSE]]
HideAltRef(pictures) ==
    LET n == Len(pictures)
    IN  [j \in 1 .. n |-> CASE j = n     -> [pictures[j] EXCEPT !.show = FALSE]
                            [] j = n - 1 -> [pictures[j] EXCEPT !.existing = None]
                            [] OTHER     -> pictures[j]]

\* The base picture of a mini-GOP has an overlay, when there are overlays.
WithOverlay(pictures, g, p, entry, after) ==
    IF stream.overlays /\ entry.layer = 0 /\ p.type = "inter"
    THEN Append(HideAltRef(pictures), Overlay(g, p.pic, after))
    ELSE pictures

\* The first loop over the mini-GOP, for one picture: its position in a structure,
\* the entry there, and what follows from it.
Decide ==
    /\ gops # <<>> /\ idx < Head(gops).len
    /\ \E g \in {Head(gops)}, t \in {EnteringToggle(Head(gops), idx)} :
       \E p \in {Picture(g, idx)}, pos \in {NextPosition(g, idx, Picture(g, idx))} :
       \E ra \in {~CutsShort(g, p)} :
       \E entry \in {EntryOf(g.level, ra, pos)} :
       \E refs \in {IF p.type = "inter" THEN References(g, idx, entry, ra, p.pic, t) ELSE NoReferences},
          display \in {Display(g, idx, p, IsReferenced(g.level, stream.mrp, stream.tuned, ra, pos), ra, t)},
          after \in {IF IsKey(p) THEN <<0, 0, 0>> ELSE Toggled(g, idx, entry, ra, t)} :
          /\ decided' = WithOverlay(Append(decided, Decision(g, idx, p, entry, refs, display, t)),
                                    g, p, entry, after)
          /\ predPosition' = pos
          /\ toggle' = after
          /\ prevLevel' = g.level
          /\ afterIntra' = (p.type # "inter")
          /\ keyPoc' = IF IsKey(p) THEN p.pic ELSE keyPoc
    /\ idx' = idx + 1
    /\ UNCHANGED <<stream, arrivalVars, gops, base, progress, sent, decoderVars>>

\* An intra picture after pictures of the low delay structure is a mini-GOP of its
\* own for the look-ahead, when it is delayed or ends the stream.
\* Bug: it is not, when it ends the stream.
LastApartDelayedOnly(pictures) ==
    pictures[1].slice = "P" /\ pictures[Len(pictures)].delayed
LastApart(pictures) ==
    LET last == pictures[Len(pictures)]
    IN  /\ pictures[1].slice = "P"
        /\ last.delayed \/ (last.slice = "I" /\ EndsStream(last.pic))

\* ext_mg_id and ext_mg_size.
Numbered(pictures) ==
    LET n == Len(pictures)
        number(k, id, size) == [pictures[k] EXCEPT !.mg = id, !.mgSize = size]
    IN  [k \in 1 .. n |->
           CASE ~LastApart(pictures) -> number(k, progress, n)
             [] k = n                -> number(k, progress + 1, 1)
             [] OTHER                -> number(k, progress, n - 1)]

\* The pictures of a mini-GOP in decode order.
Sorted(pictures) ==
    LET places == DOMAIN pictures
        before == [k \in places |->
                     {j \in places : \/ pictures[j].order < pictures[k].order
                                     \/ pictures[j].order = pictures[k].order /\ j < k}]
    IN  [n \in places |-> pictures[CHOOSE k \in places : Cardinality(before[k]) = n - 1]]

\* The second loop: the mini-GOP is sorted and goes on.  A delayed picture goes at
\* the next mini-GOP, still before its pictures.
Send ==
    /\ gops # <<>> /\ idx = Head(gops).len
    /\ \E pictures \in {Sorted(decided)} :
         /\ sent' = sent \o Numbered(pictures)
         /\ progress' = progress + (IF LastApart(pictures) THEN 2 ELSE 1)
    /\ base' = base + Len(decided)
    /\ decided' = <<>> /\ idx' = 0
    /\ gops' = Tail(gops)
    /\ buffer' = IF Len(gops) = 1 THEN <<>> ELSE buffer
    /\ UNCHANGED <<stream, arrived, intraPos, forced, ended, predPosition, afterIntra, prevLevel,
                   toggle, keyPoc, decoderVars>>

Shows(p) == (IF p.show THEN 1 ELSE 0) + (IF p.existing # None THEN 1 ELSE 0)

\* A picture is coded and its header is followed by the decoder.
Code ==
    /\ sent # <<>>
    /\ LET p == Head(sent)
       IN  /\ shown' = shown + Shows(p)
           /\ dpb' = [slot \in DOMAIN dpb |-> IF slot \in p.mask THEN p.pic ELSE dpb[slot]]
    /\ coded' = coded + 1
    /\ sent' = Tail(sent)
    /\ UNCHANGED <<stream, arrivalVars, decisionVars>>

Next ==
    \/ \E wish \in {"none", "key", "intra"}, last \in BOOLEAN : Arrive(wish, last)
    \/ Decide
    \/ Send
    \/ Code

Spec == Init /\ [][Next]_vars

-----------------------------------------------------------------------------

\* A picture predicts from the pictures it says it does.  Whatever slot the header
\* names for a reference, the decoder has there the picture whose number goes with
\* it, and the one the encoder predicted from.
ReferencesMatch ==
    sent # <<>> /\ Head(sent).type = "inter" =>
      LET p == Head(sent)
      IN  /\ \A k \in 1 .. 7 : dpb[p.dpbIndex[k]] = p.poc[k]
          /\ \A k \in DOMAIN p.used : dpb[p.dpbIndex[k]] = p.used[k]

\* The frames come out complete and in display order: pictures are coded in decode
\* order without a gap, each frame shown, from the picture itself or from the slot
\* of show_existing_frame, is the next in display order, and all have been shown
\* when the stream is over.
DisplayOrderIsKept ==
    IF sent # <<>>
    THEN LET p == Head(sent)
             next == IF p.show THEN shown + 1 ELSE shown
         IN  /\ p.order = coded
             /\ p.show => p.pic = shown
             /\ p.existing # None => dpb[p.existing] = next
    ELSE ended /\ gops = <<>> => shown = arrived

=============================================================================
