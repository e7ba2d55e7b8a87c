---------------------------- MODULE Packetization ----------------------------
(***************************************************************************)
(* Packetization: pictures come out of Entropy Coding in any order their   *)
(* references allow and leave in decode order, as temporal units that hold *)
(* one displayed picture each and the hidden ones coded before it.  The    *)
(* packet of a hidden picture is kept until it is displayed, when a frame  *)
(* header that shows an existing picture is sent in it.                    *)
(*                                                                         *)
(* The kernel is one thread.  Before it is the coding of the pictures (two *)
(* actions), after it the application, which gets the packets in the order *)
(* they were posted and gives the buffers back.                            *)
(***************************************************************************)
EXTENDS Integers, Sequences, FiniteSets, SequencesExt

CONSTANTS
    Streams,     \* functions from pictures to what Picture Decision decided
    ChildPool,   \* child PictureControlSets: pictures in work at a time
    MaxLag,      \* a bound: no picture is coded so many pictures after another
                 \* in decode order that is not packetized
    Depth,       \* PACKETIZATION_REORDER_QUEUE_MAX_DEPTH
    UndisplayedMax, \* UNDISP_QUEUE_SIZE
    OutputPool,  \* objects of the output stream resource
    None

\* A decision is a record of
\*   number   the picture number (an overlay has that of its alt-ref picture),
\*   order    decode_order,
\*   refs     the pictures it refers to,
\*   cdf      frame_end_cdf_update_mode: it waits for its references' feedback,
\*   shown    show_frame,
\*   existing has_show_existing: it is followed by the next picture in display
\*            order, which is hidden and shown by it,
\*   altRef   is_alt_ref: a hidden picture that its overlay is displayed for,
\*   overlay  is_overlay.

Decisions(pictures) ==
    [number : Nat, order : Nat, refs : SUBSET pictures, cdf : BOOLEAN, shown : BOOLEAN,
     existing : BOOLEAN, altRef : BOOLEAN, overlay : BOOLEAN]

\* p is followed by the hidden picture h, which it refers to.
ShowsNext(s, p, h) ==
    /\ s[p].existing /\ ~s[h].shown /\ ~s[h].altRef
    /\ s[h].number = s[p].number + 1 /\ s[h].order < s[p].order /\ h \in s[p].refs

\* How many pictures are displayed when a picture has been decoded that is shown.
Displays(d) == IF d.existing THEN 2 ELSE 1

\* Shown pictures are decoded in display order, without a gap.
DisplayedInTurn(s) ==
    LET shown == {p \in DOMAIN s : s[p].shown}
    IN  /\ \A p, q \in shown :
              s[p].order < s[q].order => s[p].number + Displays(s[p]) \leq s[q].number
        /\ \A q \in shown :
              \/ s[q].number = 0
              \/ \E p \in shown : /\ s[p].order < s[q].order
                                  /\ s[q].number = s[p].number + Displays(s[p])

\* A hidden picture is shown by the one before it in display order, or it is an
\* alt-ref picture, which has the number of its overlay.
HiddenAreDisplayed(s) ==
    /\ \A p \in DOMAIN s :
          /\ s[p].existing => s[p].shown /\ \E h \in DOMAIN s : ShowsNext(s, p, h)
          /\ s[p].overlay => s[p].shown
          /\ s[p].altRef => /\ ~s[p].shown
                            /\ \E q \in DOMAIN s : s[q].overlay /\ s[q].number = s[p].number
          /\ s[p].shown \/ s[p].altRef \/ \E q \in DOMAIN s : ShowsNext(s, q, p)
    /\ \A p, q \in DOMAIN s :
          s[p].number = s[q].number =>
              p = q \/ (s[p].altRef /\ s[q].overlay) \/ (s[p].overlay /\ s[q].altRef)

\* The orders up to which the metadata of h is kept, its own and that of the picture
\* that shows it.
KeptUntil(s, h) == {s[h].order} \cup {s[p].order : p \in {q \in DOMAIN s : ShowsNext(s, q, h)}}

\* The reorder queue has room for the lag and the hidden pictures of a temporal unit,
\* the undisplayed queue for the hidden pictures before any shown one, and the
\* reorder queue for the metadata of the hidden pictures kept at a time.
QueuesSuffice(s) ==
    LET hidden == {p \in DOMAIN s : ~s[p].shown}
    IN  /\ \A p \in DOMAIN s : \E q \in DOMAIN s :
              s[q].order \in s[p].order..s[p].order + Depth - MaxLag /\ s[q].shown
        /\ \A p \in DOMAIN s \ hidden :
              Cardinality({h \in hidden : /\ ~s[h].altRef /\ s[h].order < s[p].order
                                          /\ s[h].number > s[p].number}) \leq UndisplayedMax
        /\ \A g, h \in hidden : \A i \in KeptUntil(s, g), j \in KeptUntil(s, h) :
              s[g].order < j + MaxLag /\ s[h].order < i + MaxLag =>
                  s[g].number - s[h].number \in 1 - Depth..Depth - 1

ASSUME BoundAssumption ==
    /\ Depth \in Nat \ {0} /\ ChildPool \in Nat \ {0} /\ UndisplayedMax \in Nat /\ OutputPool \in Nat
    /\ MaxLag \in 1..Depth

\* What Picture Decision decides.
ASSUME StreamAssumption ==
    \A s \in Streams :
        /\ IsFiniteSet(DOMAIN s) /\ None \notin DOMAIN s /\ s \in [DOMAIN s -> Decisions(DOMAIN s)]
        /\ {s[p].order : p \in DOMAIN s} = 0..Cardinality(DOMAIN s) - 1
        /\ DisplayedInTurn(s) /\ HiddenAreDisplayed(s) /\ QueuesSuffice(s)

VARIABLES
    stream,
    stage,       \* how far each picture is
    results,     \* the EntropyCodingResults
    pc,          \* the kernel: "idle", or at the "head" of its queue
    queue,       \* packetization_reorder_queue: the picture of each entry
    head,        \* packetization_reorder_queue_head_index, counted on
    metadata,    \* the picture whose metadata an entry keeps
    existing,    \* the metadata in the show-existing header of an entry
    eos,         \* the pictures whose buffers have EB_BUFFERFLAG_EOS
    undisplayed, \* picture_decision_undisplayed_queue
    freeBuffers, \* output stream buffers in the pool
    output,      \* the packets posted
    taken,       \* how many of them the application has taken
    released     \* and given back

kernelVars == <<queue, head, metadata, existing, eos, undisplayed>>
vars == <<stream, stage, results, pc, kernelVars, freeBuffers, output, taken, released>>

Pictures == DOMAIN stream
Slots == 0..Depth - 1

Init ==
    /\ stream \in Streams
    /\ stage = [p \in Pictures |-> "waiting"]
    /\ results = <<>> /\ pc = "idle"
    /\ queue = [i \in Slots |-> None] /\ head = 0
    /\ metadata = [i \in Slots |-> None] /\ existing = [i \in Slots |-> None]
    /\ eos = {} /\ undisplayed = <<>>
    /\ freeBuffers = OutputPool
    /\ output = <<>> /\ taken = 0 /\ released = 0

-----------------------------------------------------------------------------
InWork == {p \in Pictures : stage[p] \in {"reconstructed", "coded"}}

\* A picture is started, coded and reconstructed after its references.
Reconstruct(p) ==
    /\ stage[p] = "waiting" /\ Cardinality(InWork) < ChildPool
    /\ \A r \in stream[p].refs :
          stage[r] \in (IF stream[p].cdf THEN {"packed"} ELSE {"reconstructed", "coded", "packed"})
    /\ \A q \in Pictures : stream[q].order + MaxLag \leq stream[p].order => stage[q] = "packed"
    /\ stage' = [stage EXCEPT ![p] = "reconstructed"]
    /\ UNCHANGED <<stream, results, pc, kernelVars, freeBuffers, output, taken, released>>

\* Its last row leaves Entropy Coding.
Code(p) ==
    /\ stage[p] = "reconstructed"
    /\ stage' = [stage EXCEPT ![p] = "coded"]
    /\ results' = Append(results, p)
    /\ UNCHANGED <<stream, pc, kernelVars, freeBuffers, output, taken, released>>

-----------------------------------------------------------------------------
\* The kernel.

Slot(n) == n % Depth

\* picture_number_alt counts the pictures in display order, an overlay after its
\* alt-ref picture; terminating_picture_number is that of the last one.
Before(p, q) ==
    \/ stream[p].number < stream[q].number
    \/ stream[p].number = stream[q].number /\ ~stream[p].overlay /\ stream[q].overlay
AltNumber(p) == Cardinality({q \in Pictures : Before(q, p)})
IsLast(p) == \A q \in Pictures \ {p} : Before(q, p)

\* Bug: the place in the queue goes by display order.
DisplaySlot(p) == Slot(stream[p].number)
DecodeSlot(p) == Slot(stream[p].order)

EndsStream(p) == \E q \in Pictures : IsLast(q) /\ stream[p].order = AltNumber(q)

\* Bug: the metadata that is kept under the picture's own number.
OwnSlot(p) == Slot(stream[p].number)
\* Where the metadata is that the show-existing header of p carries.
ExistingSlot(p) == Slot(stream[p].number + 1)

\* A picture is put in its place in the queue, in a buffer of the output stream,
\* for which the kernel waits.  The metadata of a hidden picture stays in the
\* entry of its picture number until the picture is shown.
Packetize ==
    /\ pc = "idle" /\ results # <<>> /\ freeBuffers > 0
    /\ LET p == Head(results)
           at == DecodeSlot(p)
           kept == IF stream[p].shown THEN metadata
                   ELSE [metadata EXCEPT ![Slot(stream[p].number)] = p]
       IN  /\ queue' = [queue EXCEPT ![at] = p]
           /\ eos' = IF EndsStream(p) THEN eos \cup {p} ELSE eos
           /\ IF stream[p].existing
              THEN /\ existing' = [existing EXCEPT ![at] = kept[ExistingSlot(p)]]
                   /\ metadata' = [kept EXCEPT ![ExistingSlot(p)] = None]
              ELSE metadata' = kept /\ UNCHANGED existing
           /\ stage' = [stage EXCEPT ![p] = "packed"]
    /\ results' = Tail(results)
    /\ freeBuffers' = freeBuffers - 1
    /\ pc' = "head"
    /\ UNCHANGED <<stream, head, undisplayed, output, taken, released>>

\* The entry n places after the head.
Entry(n) == queue[Slot(head + n)]

\* count_frames_in_next_tu: the entries up to the first one that is displayed, or
\* none if one of them is still missing.
FramesInTu ==
    LET ends == {n \in 0..Depth - 1 : /\ \A i \in 0..n : Entry(i) # None
                                      /\ stream[Entry(n)].shown
                                      /\ \A i \in 0..n - 1 : ~stream[Entry(i)].shown}
    IN  IF ends = {} THEN 0 ELSE (CHOOSE n \in ends : TRUE) + 1

\* Bug: the buffers are kept in the order they were pushed.
InPushOrder(s) == s
\* sort_undisplayed_frame: the last is the first to be displayed.
ByDescendingPts(s) ==
    CHOOSE t \in [DOMAIN s -> Range(s)] :
        \A i, j \in DOMAIN t : i < j => stream[t[i]].number > stream[t[j]].number

\* A set of numbers from the greatest to the least.
Descending(S) ==
    CHOOSE s \in [1..Cardinality(S) -> S] : \A i, j \in DOMAIN s : i < j => s[i] > s[j]

\* Whether encode_tu keeps the buffer of a hidden picture.
KeepsBuffer(p) == ~stream[p].altRef

\* push_undisplayed_frame, from the last hidden frame of the unit to the first.
Pushed(n) ==
    LET places == Descending({i \in 0..n - 2 : KeepsBuffer(Entry(i))})
        all == undisplayed \o [k \in DOMAIN places |-> Entry(places[k])]
    IN  SubSeq(all, 1, Min({Len(all), UndisplayedMax}))

\* Bug: the mark stays on the packet before.
EosStays(p) == TRUE
\* The mark for the end of the stream stays on the unit of its picture.
KeepsEos(p) == ~stream[p].existing

Packet(frames, shows, pts, end, md) ==
    [frames |-> frames, shows |-> shows, pts |-> pts, eos |-> end, metadata |-> md]

\* release_frames
Reset(n) == [i \in Slots |-> IF \E k \in 0..n - 1 : i = Slot(head + k) THEN None ELSE queue[i]]

\* Bug: the queue moves by one entry.
NextEntry(n) == head + 1
NextHead(n) == head + n

\* The head of the queue is a temporal unit, which is posted; so is the hidden
\* picture that it shows, in the buffer of the first undisplayed picture.
Emit ==
    LET n == FramesInTu
        last == Entry(n - 1)
        unit == Packet([i \in 1..n |-> Entry(i - 1)], stream[last].number, stream[last].number,
                       last \in eos /\ KeepsEos(last), stream[last].number)
        kept == IF n > 1 THEN ByDescendingPts(Pushed(n)) ELSE undisplayed
        header == existing[Slot(head + n - 1)]
        shown == Packet(<<>>, stream[last].number + 1, stream[kept[Len(kept)]].number, last \in eos,
                        IF header = None THEN None ELSE stream[header].number)
    IN  /\ pc = "head" /\ n > 0
        /\ IF stream[last].existing /\ kept # <<>>
           THEN output' = output \o <<unit, shown>> /\ undisplayed' = Front(kept)
           ELSE output' = Append(output, unit) /\ undisplayed' = kept
        /\ queue' = Reset(n)
        /\ head' = NextHead(n)
        /\ UNCHANGED <<stream, stage, results, pc, metadata, existing, eos, freeBuffers, taken, released>>

\* No unit is complete: the kernel waits for the next picture.
Wait ==
    /\ pc = "head" /\ FramesInTu = 0 /\ pc' = "idle"
    /\ UNCHANGED <<stream, stage, results, kernelVars, freeBuffers, output, taken, released>>

-----------------------------------------------------------------------------
\* The application.

\* svt_av1_enc_get_packet
GetPacket ==
    /\ taken < Len(output) /\ taken' = taken + 1
    /\ UNCHANGED <<stream, stage, results, pc, kernelVars, freeBuffers, output, released>>

\* svt_av1_enc_release_out_buffer
ReleaseBuffer ==
    /\ released < taken /\ released' = released + 1
    /\ freeBuffers' = freeBuffers + 1
    /\ UNCHANGED <<stream, stage, results, pc, kernelVars, output, taken>>

-----------------------------------------------------------------------------
Kernel == Packetize \/ Emit \/ Wait
Coding(p) == Reconstruct(p) \/ Code(p)

Next == Kernel \/ GetPacket \/ ReleaseBuffer \/ \E p \in Pictures : Coding(p)

\* Every thread runs, and the application asks for packets and releases them.
Fairness ==
    /\ WF_vars(Kernel) /\ WF_vars(GetPacket) /\ WF_vars(ReleaseBuffer)
    /\ \A s \in Streams : \A p \in DOMAIN s : WF_vars(p \in Pictures /\ Coding(p))

Spec == Init /\ [][Next]_vars /\ Fairness

-----------------------------------------------------------------------------
Displayed == {stream[p].number : p \in Pictures}

\* The types of the variables; every buffer is in one place at most.
TypeOK ==
    /\ stage \in [Pictures -> {"waiting", "reconstructed", "coded", "packed"}]
    /\ \A i \in DOMAIN results : stage[results[i]] = "coded"
    /\ pc \in {"idle", "head"}
    /\ queue \in [Slots -> Pictures \cup {None}] /\ head \in 0..Cardinality(Pictures)
    /\ metadata \in [Slots -> Pictures \cup {None}] /\ existing \in [Slots -> Pictures \cup {None}]
    /\ released \leq taken /\ taken \leq Len(output)
    /\ freeBuffers + Cardinality({i \in Slots : queue[i] # None}) + Len(undisplayed)
         + Len(output) - released \in 0..OutputPool

\* Packets come in display order, one for every picture number, and the time
\* stamp of a packet is that of the picture it shows.
OutputInDisplayOrder ==
    \A i \in DOMAIN output : output[i].shows = i - 1 /\ output[i].pts = i - 1

\* The packets hold the pictures once each and in decode order, whatever order
\* they were coded in, and a picture is shown after it was sent.
OutputInDecodeOrder ==
    LET sent == FlattenSeq([i \in DOMAIN output |-> output[i].frames])
    IN  /\ \A i \in DOMAIN sent : stream[sent[i]].order = i - 1
        /\ \A i \in DOMAIN output :
              \E j \in 1..i : \E p \in Range(output[j].frames) : stream[p].number = output[i].shows

\* The end of the stream is marked on the last packet and on no other.
EndIsMarkedLast ==
    \A i \in DOMAIN output : output[i].eos <=> i = Cardinality(Displayed)

\* The packet that shows a picture carries the metadata of that picture, hidden
\* or not, if the picture that sends it waited for its references' feedback.
MetadataStaysWithPicture ==
    \A i \in DOMAIN output :
        (\A p \in Pictures : stream[p].existing => stream[p].cdf) => output[i].metadata = output[i].shows

\* Every picture is delivered, as long as there are buffers for the alt-ref
\* pictures, which keep theirs; every other buffer comes back to the pool.
EverythingIsDelivered ==
    <>(/\ released = Cardinality(Displayed)
       /\ freeBuffers = OutputPool - Cardinality({p \in Pictures : stream[p].altRef}))
=============================================================================
