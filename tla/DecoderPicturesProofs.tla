----------------------- MODULE DecoderPicturesProofs ------------------------
(***************************************************************************)
(* The reference counts of the decoder's picture buffers, for any number   *)
(* of buffers, slots, frames, errors and rounds without a frame, and that  *)
(* the slots hold the frames the stream puts into them.                    *)
(***************************************************************************)
EXTENDS DecoderPictures, FiniteSetTheorems, TLAPS

-----------------------------------------------------------------------------
(* Counting the references of a map.                                       *)

\* A map refers to a buffer a natural number of times, 0 when no entry is the buffer.
LEMMA ReferencesCount ==
    ASSUME NEW map, NEW b
    PROVE  /\ References(map, b) \in Nat
           /\ References(map, b) = 0 <=> \A s \in RefSlots : map[s] # b
<1> DEFINE S == {s \in RefSlots : map[s] = b}
<1>1. IsFiniteSet(S) /\ Cardinality(S) \in Nat
  BY DecoderPicturesAssumption, FS_Subset, FS_CardinalityType
<1>2. Cardinality(S) = 0 <=> S = {}
  BY <1>1, FS_EmptySet
<1> QED BY <1>1, <1>2 DEF References

\* A map without entries refers to no buffer.
LEMMA NoRefsCount ==
    ASSUME NEW b \in Buffers
    PROVE  References(NoRefs, b) = 0
BY ReferencesCount, DecoderPicturesAssumption DEF NoRefs

\* The map of a frame refers to the frame's buffer and to what the old one refers to.
LEMMA NextMapCount ==
    ASSUME NEW b, NEW m, NEW x, x # b, References(refs, x) = 0
    PROVE  References(NextMap(b, m), x) = 0
BY ReferencesCount DEF NextMap

-----------------------------------------------------------------------------
(* The inductive invariant.                                                *)

\* A buffer that is not free has a count above 0: it is freed when its count gets
\* there, also after a miscount.
TakenInv == \A b \in Buffers : b \notin free => count[b] > 0

\* A frame is decoded from its header to the end of its round.
ControlInv ==
    /\ decoding => at # "idle" /\ (at = "obu" => seen)
    /\ at = "update" /\ ~strayed => decoding /\ (~ok => ~header.existing)

\* During a frame the new map is that of its header, and its buffer has its samples.
FrameInv ==
    ~strayed =>
        /\ decoding =>
              /\ cur \in Buffers /\ header.frame > 0 /\ holds[cur] = header.frame
              /\ next = NextMap(cur, header.refresh)
        /\ \A s \in RefSlots : refs[s] # None => holds[refs[s]] > 0

\* Only an error leaves a map, and counts for one, behind.
FailureInv ==
    failures = 0 =>
        /\ \A b \in Buffers : lost[b] = 0
        /\ ~decoding => next = NoRefs
        /\ at = "update" => ok

IInv == TypeOK /\ CountsAreExact /\ TakenInv /\ ControlInv /\ FrameInv /\ FailureInv

\* Counts that add up to nothing.
LEMMA SumIsZero ==
    ASSUME NEW i \in Nat, NEW j \in Nat, NEW k \in Nat, NEW l \in Nat, i + j + k + l = 0
    PROVE  i = 0 /\ j = 0 /\ k = 0 /\ l = 0
OBVIOUS

\* The terms of a buffer's references are natural numbers.
LEMMA CountedType ==
    ASSUME TypeOK, NEW b \in Buffers
    PROVE  /\ References(refs, b) \in Nat /\ References(next, b) \in Nat
           /\ Own(b) \in {0, 1} /\ lost[b] \in Nat /\ Counted(b) \in Nat
<1>1. References(refs, b) \in Nat /\ References(next, b) \in Nat
  BY ReferencesCount
<1>2. Own(b) \in {0, 1} /\ lost[b] \in Nat
  BY DEF Own, TypeOK
<1> QED BY <1>1, <1>2 DEF Counted

\* A free buffer is referred to by nobody.
LEMMA FreeIsUnreferenced ==
    ASSUME TypeOK, CountsAreExact, ~strayed, NEW b \in free
    PROVE  /\ References(refs, b) = 0 /\ References(next, b) = 0
           /\ Own(b) = 0 /\ lost[b] = 0 /\ count[b] = 0
           /\ \A s \in RefSlots : refs[s] # b
<1>1. b \in Buffers /\ count[b] = 0
  BY DEF TypeOK, CountsAreExact
<1>2. Counted(b) = 0
  BY <1>1 DEF CountsAreExact
<1>3. References(refs, b) = 0 /\ References(next, b) = 0 /\ Own(b) = 0 /\ lost[b] = 0
  <2>1. References(refs, b) + References(next, b) + Own(b) + lost[b] = 0
    BY <1>2 DEF Counted
  <2>2. References(refs, b) \in Nat /\ References(next, b) \in Nat /\ Own(b) \in Nat /\ lost[b] \in Nat
    BY <1>1, CountedType
  <2> QED BY <2>1, <2>2, SumIsZero
<1> QED BY <1>1, <1>3, ReferencesCount

\* The initial states satisfy the invariant.
LEMMA InitIInv == Init => IInv
<1> SUFFICES ASSUME Init PROVE IInv
  OBVIOUS
<1>1. TypeOK
  <2>1. header \in [frame : Nat, refresh : SUBSET RefSlots, existing : BOOLEAN]
    BY DEF Init
  <2>2. refs \in [RefSlots -> Buffers \cup {None}] /\ next \in [RefSlots -> Buffers \cup {None}]
    BY DEF Init, NoRefs
  <2>3. at = "idle" /\ more = FALSE /\ ok = TRUE /\ seen = FALSE /\ decoding = FALSE /\ strayed = FALSE
    BY DEF Init
  <2>4. count \in [Buffers -> Int] /\ holds \in [Buffers -> Nat] /\ lost \in [Buffers -> Nat]
    BY DEF Init
  <2>5. free \subseteq Buffers /\ cur \in Buffers \cup {None} /\ begun \in Nat /\ failures \in Nat
        /\ emptyRounds \in Nat
    BY DEF Init
  <2> QED BY <2>1, <2>2, <2>3, <2>4, <2>5 DEF TypeOK
<1>2. CountsAreExact
  <2> SUFFICES ASSUME NEW b \in Buffers
      PROVE count[b] = 0 /\ b \in free /\ Counted(b) = 0
    BY DEF CountsAreExact
  <2>1. References(refs, b) = 0 /\ References(next, b) = 0
    BY NoRefsCount DEF Init
  <2>2. Own(b) = 0 /\ lost[b] = 0
    BY DEF Init, Own, Fresh
  <2> QED BY <2>1, <2>2 DEF Init, Counted
<1>3. TakenInv /\ ControlInv /\ FrameInv /\ FailureInv
  BY DEF Init, TakenInv, ControlInv, FrameInv, FailureInv, NoRefs
<1> QED BY <1>1, <1>2, <1>3 DEF IInv

-----------------------------------------------------------------------------
(* The headers.                                                            *)

\* The header of a frame, new or shown again, computes the next map: its type, and
\* what is counted then.
LEMMA GenerateNextCounts ==
    ASSUME TypeOK, ~decoding, refs' = refs,
           NEW b \in Buffers, NEW m \in SUBSET RefSlots, NEW base \in [Buffers -> Int],
           GenerateNext(b, m, base)
    PROVE  /\ next' \in [RefSlots -> Buffers \cup {None}]
           /\ count' \in [Buffers -> Int] /\ lost' \in [Buffers -> Nat]
           /\ \A x \in Buffers :
                 /\ References(next', x) \in Nat
                 /\ count'[x] = base[x] + References(next', x)
                 /\ Counted(x)' = Counted(x) + References(next', x) + Own(x)'
<1>1. next' \in [RefSlots -> Buffers \cup {None}]
  BY DEF GenerateNext, NextMap, TypeOK
<1>2. \A x \in Buffers : References(next, x) \in Nat /\ References(next', x) \in Nat
                          /\ References(refs, x) \in Nat
  BY ReferencesCount
<1>3. count' \in [Buffers -> Int] /\ lost' \in [Buffers -> Nat]
  BY <1>2 DEF GenerateNext, TypeOK
<1>4. ASSUME NEW x \in Buffers
      PROVE  /\ count'[x] = base[x] + References(next', x)
             /\ Counted(x)' = Counted(x) + References(next', x) + Own(x)'
  <2>1. Own(x) = 0 /\ Own(x)' \in {0, 1}
    BY DEF Own, Fresh
  <2>2. count'[x] = base[x] + References(next', x) /\ lost'[x] = lost[x] + References(next, x)
    BY DEF GenerateNext
  <2>3. Counted(x)' = References(refs, x) + References(next', x) + Own(x)' + lost'[x]
    BY DEF Counted
  <2>4. Counted(x) = References(refs, x) + References(next, x) + lost[x] /\ lost[x] \in Nat
    BY <1>2, <2>1 DEF Counted, TypeOK
  <2> QED BY <1>2, <2>1, <2>2, <2>3, <2>4
<1> QED BY <1>1, <1>2, <1>3, <1>4

\* The buffers that are not taken for the frame: as many references are counted as
\* the next map has, and a free one gets none.
LEMMA GenerateNextOthers ==
    ASSUME IInv, ~decoding, refs' = refs, strayed' = strayed,
           NEW b \in Buffers, NEW m \in SUBSET RefSlots, NEW base \in [Buffers -> Int],
           GenerateNext(b, m, base),
           NEW x \in Buffers, base[x] = count[x], Own(x)' = 0, x \in free' <=> x \in free,
           x = b /\ ~strayed => x \notin free
    PROVE  /\ count'[x] <= Counted(x)'
           /\ ~strayed' => count'[x] = Counted(x)' /\ (x \in free' <=> count'[x] = 0)
           /\ x \notin free' => count'[x] > 0
<1> USE DEF IInv
<1>1. /\ References(next', x) \in Nat
      /\ count'[x] = count[x] + References(next', x)
      /\ Counted(x)' = Counted(x) + References(next', x)
      /\ Counted(x) \in Nat /\ count[x] \in Int
  <2>1. Counted(x) \in Nat /\ count[x] \in Int
    BY CountedType DEF TypeOK
  <2>2. /\ References(next', x) \in Nat
        /\ count'[x] = base[x] + References(next', x)
        /\ Counted(x)' = Counted(x) + References(next', x) + Own(x)'
    BY GenerateNextCounts
  <2> QED BY <2>1, <2>2
<1>2. count[x] <= Counted(x) /\ (~strayed => count[x] = Counted(x)) /\ (x \notin free => count[x] > 0)
  BY DEF CountsAreExact, TakenInv
<1>3. ASSUME ~strayed, x \in free PROVE count'[x] = 0
  <2>1. References(refs, x) = 0 /\ count[x] = 0
    BY <1>3, FreeIsUnreferenced
  <2>2. References(next', x) = 0
    BY <1>3, <2>1, NextMapCount DEF GenerateNext
  <2> QED BY <1>1, <2>1, <2>2
<1> QED BY <1>1, <1>2, <1>3

\* A new frame takes a buffer nobody refers to.
LEMMA NewFrameIInv == IInv /\ NewFrame => IInv'
<1> SUFFICES ASSUME IInv, NewFrame PROVE IInv'
  OBVIOUS
<1> USE DEF IInv
<1>1. PICK b \in free, m \in SUBSET RefSlots :
          /\ cur' = b
          /\ free' = free \ {b}
          /\ holds' = [holds EXCEPT ![b] = begun']
          /\ header' = [frame |-> begun', refresh |-> m, existing |-> FALSE]
          /\ GenerateNext(b, m, [count EXCEPT ![b] = 1])
  BY DEF NewFrame
<1>2. /\ b \in Buffers /\ ~decoding /\ decoding' /\ begun' = begun + 1 /\ begun' \in Nat /\ begun' > 0
      /\ at = "obu" /\ at' = at /\ more' = more /\ ok' = ok /\ seen' = TRUE
      /\ refs' = refs /\ strayed' = strayed /\ failures' = failures /\ emptyRounds' = emptyRounds
  BY <1>1 DEF NewFrame, ReadsHeader, TypeOK, ControlInv
<1> DEFINE base == [count EXCEPT ![b] = 1]
<1>3. base \in [Buffers -> Int] /\ base[b] = 1 /\ \A x \in Buffers : x # b => base[x] = count[x]
  BY <1>2 DEF TypeOK
<1>4. GenerateNext(b, m, base)
  BY <1>1
<1> HIDE DEF base
<1>5. /\ next' \in [RefSlots -> Buffers \cup {None}]
      /\ count' \in [Buffers -> Int] /\ lost' \in [Buffers -> Nat]
      /\ \A x \in Buffers :
            /\ References(next', x) \in Nat
            /\ count'[x] = base[x] + References(next', x)
            /\ Counted(x)' = Counted(x) + References(next', x) + Own(x)'
  BY <1>2, <1>3, <1>4, GenerateNextCounts
<1>6. TypeOK'
  <2>1. header' \in [frame : Nat, refresh : SUBSET RefSlots, existing : BOOLEAN]
    BY <1>1, <1>2
  <2> QED BY <1>1, <1>2, <1>5, <2>1 DEF TypeOK
<1>7. \A x \in Buffers : Own(x)' = (IF x = b THEN 1 ELSE 0)
  BY <1>1, <1>2 DEF Own, Fresh
<1>8. ASSUME NEW x \in Buffers
      PROVE  /\ count'[x] <= Counted(x)'
             /\ ~strayed' => count'[x] = Counted(x)' /\ (x \in free' <=> count'[x] = 0)
             /\ x \notin free' => count'[x] > 0
  <2>1. CASE x = b
    <3>1. count'[b] = 1 + References(next', b) /\ References(next', b) \in Nat
      BY <1>2, <1>3, <1>5
    <3>2. Counted(b)' = Counted(b) + References(next', b) + 1 /\ Counted(b) \in Nat
      BY <1>2, <1>5, <1>7, CountedType
    <3>3. ~strayed => Counted(b) = 0
      BY <1>1, <1>2, FreeIsUnreferenced DEF CountsAreExact
    <3>4. b \notin free'
      BY <1>1
    <3> QED BY <1>2, <2>1, <3>1, <3>2, <3>3, <3>4
  <2>2. CASE x # b
    <3>1. base[x] = count[x] /\ Own(x)' = 0 /\ (x \in free' <=> x \in free)
      BY <1>1, <1>3, <1>7, <2>2
    <3> QED BY <1>2, <1>3, <1>4, <2>2, <3>1, GenerateNextOthers
  <2> QED BY <2>1, <2>2
<1>9. CountsAreExact' /\ TakenInv'
  BY <1>8 DEF CountsAreExact, TakenInv
<1>10. FrameInv'
  <2> SUFFICES ASSUME ~strayed
      PROVE  /\ cur' \in Buffers /\ header'.frame > 0 /\ holds'[cur'] = header'.frame
             /\ next' = NextMap(cur, header.refresh)'
             /\ \A s \in RefSlots : refs'[s] # None => holds'[refs'[s]] > 0
    BY <1>2 DEF FrameInv
  <2>1. holds'[b] = begun' /\ next' = NextMap(b, m)
    BY <1>1, <1>2 DEF GenerateNext, TypeOK
  <2>2. NextMap(cur, header.refresh)' = NextMap(b, m)
    BY <1>1, <1>2 DEF NextMap
  <2>3. \A s \in RefSlots : refs[s] # None => refs[s] # b /\ holds'[refs[s]] = holds[refs[s]]
    BY <1>1, <1>2, FreeIsUnreferenced DEF TypeOK
  <2> QED BY <1>1, <1>2, <2>1, <2>2, <2>3 DEF FrameInv
<1>11. ControlInv'
  BY <1>2 DEF ControlInv
<1>12. FailureInv'
  <2>1. ASSUME failures = 0, NEW x \in Buffers PROVE lost'[x] = 0
    <3>1. lost[x] = 0 /\ next = NoRefs
      BY <1>2, <2>1 DEF FailureInv
    <3>2. References(next, x) = 0
      BY <3>1, NoRefsCount
    <3> QED BY <1>4, <3>1, <3>2 DEF GenerateNext
  <2> QED BY <1>2, <2>1 DEF FailureInv
<1> QED BY <1>6, <1>9, <1>10, <1>11, <1>12

\* A frame shown again takes no reference of its own.
LEMMA ShowExistingIInv == IInv /\ ShowExisting => IInv'
<1> SUFFICES ASSUME IInv, ShowExisting PROVE IInv'
  OBVIOUS
<1> USE DEF IInv
<1>1. PICK s \in RefSlots, m \in {{}, RefSlots} :
          /\ refs[s] # None
          /\ cur' = refs[s]
          /\ header' = [frame |-> holds[refs[s]], refresh |-> m, existing |-> TRUE]
          /\ GenerateNext(refs[s], m, count)
  BY DEF ShowExisting
<1> DEFINE b == refs[s]
<1>2. /\ b \in Buffers /\ m \in SUBSET RefSlots /\ holds[b] \in Nat /\ (~strayed => holds[b] > 0)
      /\ ~strayed => b \notin free
  BY <1>1, FreeIsUnreferenced DEF TypeOK, FrameInv
<1>3. /\ ~decoding /\ decoding' /\ at = "obu" /\ at' = at /\ more' = more /\ ok' = ok /\ seen' = TRUE
      /\ refs' = refs /\ free' = free /\ holds' = holds /\ begun' = begun
      /\ strayed' = strayed /\ failures' = failures /\ emptyRounds' = emptyRounds
  BY DEF ShowExisting, ReadsHeader, ControlInv
<1>4. GenerateNext(b, m, count) /\ cur' = b
      /\ header' = [frame |-> holds[b], refresh |-> m, existing |-> TRUE]
  BY <1>1
<1> HIDE DEF b
<1>5. count \in [Buffers -> Int]
  BY DEF TypeOK
<1>6. /\ next' \in [RefSlots -> Buffers \cup {None}]
      /\ count' \in [Buffers -> Int] /\ lost' \in [Buffers -> Nat]
  BY <1>2, <1>3, <1>4, <1>5, GenerateNextCounts
<1>7. TypeOK'
  <2>1. header' \in [frame : Nat, refresh : SUBSET RefSlots, existing : BOOLEAN]
    BY <1>2, <1>4
  <2> QED BY <1>2, <1>3, <1>4, <1>6, <2>1 DEF TypeOK
<1>8. CountsAreExact' /\ TakenInv'
  <2>1. ASSUME NEW x \in Buffers
        PROVE  /\ count'[x] <= Counted(x)'
               /\ ~strayed' => count'[x] = Counted(x)' /\ (x \in free' <=> count'[x] = 0)
               /\ x \notin free' => count'[x] > 0
    <3>1. Own(x)' = 0
      BY <1>3, <1>4 DEF Own, Fresh
    <3> QED BY <1>2, <1>3, <1>4, <1>5, <3>1, GenerateNextOthers
  <2> QED BY <2>1 DEF CountsAreExact, TakenInv
<1>9. FrameInv'
  <2>1. NextMap(cur, header.refresh)' = NextMap(b, m)
    BY <1>3, <1>4 DEF NextMap
  <2> QED BY <1>2, <1>3, <1>4, <2>1 DEF FrameInv, GenerateNext
<1>10. ControlInv'
  BY <1>3 DEF ControlInv
<1>11. FailureInv'
  <2>1. ASSUME failures = 0, NEW x \in Buffers PROVE lost'[x] = 0
    <3>1. lost[x] = 0 /\ next = NoRefs
      BY <1>3, <2>1 DEF FailureInv
    <3>2. References(next, x) = 0
      BY <3>1, NoRefsCount
    <3> QED BY <1>4, <3>1, <3>2 DEF GenerateNext
  <2> QED BY <1>3, <2>1 DEF FailureInv
<1> QED BY <1>7, <1>8, <1>9, <1>10, <1>11

-----------------------------------------------------------------------------
(* The end of a round.                                                     *)

\* Where no more is given up than there are references, a buffer's count falls by as
\* much, and the buffer is free from then on when nothing is left.
LEMMA DropFrees ==
    ASSUME TypeOK, CountsAreExact, TakenInv, NEW drops \in [Buffers -> Nat], Drop(drops), NEW x \in Buffers
    PROVE  /\ count'[x] = count[x] - drops[x]
           /\ x \notin free' => count'[x] > 0
           /\ ~strayed /\ drops[x] =< count[x] => (x \in free' <=> count'[x] = 0)
<1>1. /\ count'[x] = count[x] - drops[x]
      /\ x \in free' <=> x \in free \/ count[x] \in 1..drops[x]
  BY DEF Drop
<1>2. /\ count[x] \in Int /\ drops[x] \in Nat
      /\ ~strayed => (x \in free <=> count[x] = 0)
      /\ x \notin free => count[x] > 0
  BY DEF TypeOK, CountsAreExact, TakenInv
<1> QED BY <1>1, <1>2

\* The end of a frame puts the next map in force.
LEMMA UpdateIInv == IInv /\ Update => IInv'
<1> SUFFICES ASSUME IInv, Update PROVE IInv'
  OBVIOUS
<1> USE DEF IInv
<1> DEFINE drops == [b \in Buffers |-> Dropped(b)]
<1>1. /\ Drop(drops) /\ refs' = next /\ next' = NoRefs /\ decoding' = FALSE /\ at = "update" /\ ok
      /\ more' = more /\ ok' = ok /\ seen' = seen /\ cur' = cur /\ header' = header /\ holds' = holds
      /\ lost' = lost /\ strayed' = strayed /\ begun' = begun /\ failures' = failures
      /\ emptyRounds' = emptyRounds /\ at' \in {"obu", "idle"}
  BY DEF Update, Updates
<1>2. \A x \in Buffers : /\ drops[x] \in Nat
                         /\ drops[x] >= References(refs, x) + Own(x)
                         /\ decoding => drops[x] = References(refs, x) + Own(x)
  BY ReferencesCount DEF Own, Fresh, Dropped
<1>3. drops \in [Buffers -> Nat]
  BY <1>2
<1> HIDE DEF drops
<1>4. ~strayed => decoding
  BY <1>1 DEF ControlInv
<1>5. ASSUME NEW x \in Buffers
      PROVE  /\ count'[x] <= Counted(x)'
             /\ ~strayed' => count'[x] = Counted(x)' /\ (x \in free' <=> count'[x] = 0)
             /\ x \notin free' => count'[x] > 0
  <2>1. /\ References(refs, x) \in Nat /\ References(next, x) \in Nat
        /\ Own(x) \in {0, 1} /\ lost[x] \in Nat /\ count[x] \in Int
    BY CountedType DEF TypeOK
  <2>2. Counted(x) = References(refs, x) + References(next, x) + Own(x) + lost[x]
    BY DEF Counted
  <2>3. Counted(x)' = References(next, x) + lost[x]
    <3>1. Own(x)' = 0 /\ References(next', x) = 0
      BY <1>1, NoRefsCount DEF Own, Fresh
    <3> QED BY <1>1, <2>1, <3>1 DEF Counted
  <2>4. count[x] <= Counted(x) /\ (~strayed => count[x] = Counted(x))
    BY DEF CountsAreExact
  <2>5. /\ count'[x] = count[x] - drops[x]
        /\ x \notin free' => count'[x] > 0
        /\ ~strayed /\ drops[x] =< count[x] => (x \in free' <=> count'[x] = 0)
    BY <1>1, <1>3, DropFrees
  <2>6. drops[x] \in Nat /\ drops[x] >= References(refs, x) + Own(x)
        /\ (~strayed => drops[x] = References(refs, x) + Own(x))
    BY <1>2, <1>4
  <2>7. count'[x] <= Counted(x)'
    BY <2>1, <2>2, <2>3, <2>4, <2>5, <2>6
  <2>8. ~strayed => drops[x] =< count[x] /\ count'[x] = Counted(x)'
    BY <2>1, <2>2, <2>3, <2>4, <2>5, <2>6
  <2> QED BY <1>1, <2>5, <2>7, <2>8
<1>6. CountsAreExact' /\ TakenInv'
  BY <1>5 DEF CountsAreExact, TakenInv
<1>7. TypeOK'
  <2>1. count' \in [Buffers -> Int] /\ free' \subseteq Buffers
    BY <1>1, <1>3 DEF Drop, TypeOK
  <2>2. next' \in [RefSlots -> Buffers \cup {None}]
    BY <1>1 DEF NoRefs
  <2> QED BY <1>1, <2>1, <2>2 DEF TypeOK
<1>8. FrameInv'
  <2> SUFFICES ASSUME ~strayed, NEW s \in RefSlots, next[s] # None
      PROVE  holds[next[s]] > 0
    BY <1>1 DEF FrameInv
  <2>1. cur \in Buffers /\ header.frame > 0 /\ holds[cur] = header.frame /\ next = NextMap(cur, header.refresh)
    BY <1>4 DEF FrameInv
  <2> QED BY <2>1 DEF NextMap, FrameInv
<1>9. ControlInv' /\ FailureInv'
  BY <1>1 DEF ControlInv, FailureInv
<1> QED BY <1>6, <1>7, <1>8, <1>9

\* After an error the current buffer loses one reference: a new frame's own.
LEMMA UpdateFailedIInv == IInv /\ UpdateFailed => IInv'
<1> SUFFICES ASSUME IInv, UpdateFailed PROVE IInv'
  OBVIOUS
<1> USE DEF IInv
<1> DEFINE drops == [b \in Buffers |-> IF cur = b THEN 1 ELSE 0]
<1>1. /\ Drop(drops) /\ refs' = refs /\ next' = next /\ decoding' = FALSE /\ at = "update" /\ ~ok
      /\ more' = more /\ ok' = ok /\ seen' = seen /\ cur' = cur /\ header' = header /\ holds' = holds
      /\ lost' = lost /\ strayed' = strayed /\ begun' = begun /\ failures' = failures
      /\ emptyRounds' = emptyRounds /\ at' \in {"obu", "idle"}
  BY DEF UpdateFailed, Updates
<1>2. ~strayed => Fresh
  BY <1>1 DEF ControlInv, Fresh
<1>3. drops \in [Buffers -> Nat]
      /\ \A x \in Buffers : drops[x] \in Nat /\ drops[x] >= Own(x) /\ (~strayed => drops[x] = Own(x))
  BY <1>2 DEF Own
<1> HIDE DEF drops
<1>4. ASSUME NEW x \in Buffers
      PROVE  /\ count'[x] <= Counted(x)'
             /\ ~strayed' => count'[x] = Counted(x)' /\ (x \in free' <=> count'[x] = 0)
             /\ x \notin free' => count'[x] > 0
  <2>1. /\ References(refs, x) \in Nat /\ References(next, x) \in Nat
        /\ Own(x) \in {0, 1} /\ lost[x] \in Nat /\ count[x] \in Int
    BY CountedType DEF TypeOK
  <2>2. Counted(x) = References(refs, x) + References(next, x) + Own(x) + lost[x]
    BY DEF Counted
  <2>3. Counted(x)' = References(refs, x) + References(next, x) + lost[x]
    <3>1. Own(x)' = 0
      BY <1>1 DEF Own, Fresh
    <3> QED BY <1>1, <2>1, <3>1 DEF Counted
  <2>4. count[x] <= Counted(x) /\ (~strayed => count[x] = Counted(x))
    BY DEF CountsAreExact
  <2>5. /\ count'[x] = count[x] - drops[x]
        /\ x \notin free' => count'[x] > 0
        /\ ~strayed /\ drops[x] =< count[x] => (x \in free' <=> count'[x] = 0)
    BY <1>1, <1>3, DropFrees
  <2>6. drops[x] \in Nat /\ drops[x] >= Own(x) /\ (~strayed => drops[x] = Own(x))
    BY <1>3
  <2>7. count'[x] <= Counted(x)'
    BY <2>1, <2>2, <2>3, <2>4, <2>5, <2>6
  <2>8. ~strayed => drops[x] =< count[x] /\ count'[x] = Counted(x)'
    BY <2>1, <2>2, <2>3, <2>4, <2>5, <2>6
  <2> QED BY <1>1, <2>5, <2>7, <2>8
<1>5. CountsAreExact' /\ TakenInv'
  BY <1>4 DEF CountsAreExact, TakenInv
<1>6. TypeOK'
  <2>1. count' \in [Buffers -> Int] /\ free' \subseteq Buffers
    BY <1>1, <1>3 DEF Drop, TypeOK
  <2> QED BY <1>1, <2>1 DEF TypeOK
<1>7. ControlInv' /\ FrameInv' /\ FailureInv'
  BY <1>1 DEF ControlInv, FrameInv, FailureInv
<1> QED BY <1>5, <1>6, <1>7

-----------------------------------------------------------------------------
(* The other steps.                                                        *)

\* Where neither the buffers nor what is being decoded changes, what is counted does
\* not either; a round that goes astray ends what is claimed.
LEMMA ControlKeepsCounts ==
    ASSUME IInv, UNCHANGED <<picVars, decoding>>, Fresh' <=> Fresh, strayed => strayed'
    PROVE  CountsAreExact' /\ TakenInv'
<1> USE DEF IInv
<1>1. /\ refs' = refs /\ next' = next /\ count' = count /\ free' = free /\ cur' = cur /\ lost' = lost
  BY DEF picVars
<1>2. \A x \in Buffers : Counted(x)' = Counted(x)
  <2>1. \A x \in Buffers : Own(x)' = Own(x)
    BY <1>1 DEF Own
  <2> QED BY <1>1, <2>1 DEF Counted
<1> QED BY <1>1, <1>2 DEF CountsAreExact, TakenInv

\* A unit begins, and a header is passed over.
LEMMA CallIInv == IInv /\ (Call \/ HeaderPassedOver) => IInv'
<1> SUFFICES ASSUME IInv, Call \/ HeaderPassedOver PROVE IInv'
  OBVIOUS
<1> USE DEF IInv
<1>1. /\ UNCHANGED <<picVars, decoding, begun, strayed, failures, emptyRounds>> /\ ~decoding
      /\ at' = "obu" /\ more' \in BOOLEAN /\ ok' = ok /\ seen' \in BOOLEAN
  BY DEF Call, HeaderPassedOver, ReadsHeader, ControlInv, TypeOK
<1>2. header' \in [frame : Nat, refresh : SUBSET RefSlots, existing : BOOLEAN]
  BY DEF Call, HeaderPassedOver, TypeOK
<1>3. CountsAreExact' /\ TakenInv'
  <2>1. ~Fresh /\ ~Fresh'
    BY <1>1 DEF Fresh
  <2> QED BY <1>1, <2>1, ControlKeepsCounts
<1>4. TypeOK'
  BY <1>1, <1>2 DEF TypeOK, picVars
<1>5. ControlInv' /\ FrameInv' /\ FailureInv'
  BY <1>1 DEF ControlInv, FrameInv, FailureInv, picVars
<1> QED BY <1>3, <1>4, <1>5

\* What all ends of a round have in common.
LEMMA RoundEndsKeeps ==
    ASSUME TypeOK, NEW status \in BOOLEAN, NEW astray \in BOOLEAN, RoundEnds(status, astray)
    PROVE  /\ UNCHANGED <<picVars, header, decoding, begun>>
           /\ at' = "update" /\ ok' = status /\ emptyRounds' \in Nat
           /\ strayed' \in BOOLEAN /\ (strayed => strayed') /\ (~strayed' => ~astray)
<1>1. UNCHANGED <<picVars, header, decoding, begun>> /\ at' = "update" /\ ok' = status
  BY DEF RoundEnds
<1>2. emptyRounds' \in Nat
  BY DEF RoundEnds, TypeOK
<1>3. strayed' = (strayed \/ astray)
  BY DEF RoundEnds
<1> QED BY <1>1, <1>2, <1>3, Zenon

\* A round ends, with a frame or astray.
LEMMA RoundEndsIInv == IInv /\ (LastTiles \/ EndOfData \/ Fails) => IInv'
<1> SUFFICES ASSUME IInv, LastTiles \/ EndOfData \/ Fails PROVE IInv'
  OBVIOUS
<1> USE DEF IInv
<1>1. /\ UNCHANGED <<picVars, header, decoding, begun>>
      /\ at' = "update" /\ more' \in BOOLEAN /\ ok' \in BOOLEAN /\ seen' \in BOOLEAN
      /\ strayed' \in BOOLEAN /\ (strayed => strayed')
      /\ ~strayed' => decoding /\ (~ok' => ~header.existing)
      /\ failures' \in Nat /\ emptyRounds' \in Nat
      /\ failures' = 0 => failures = 0 /\ ok'
  <2>1. CASE LastTiles
    <3>1. RoundEnds(TRUE, ~Fresh) /\ more' \in BOOLEAN /\ seen' \in BOOLEAN /\ failures' = failures
      BY <2>1 DEF LastTiles
    <3>2. (~Fresh) \in BOOLEAN
      OBVIOUS
    <3> QED BY <3>1, <3>2, RoundEndsKeeps DEF TypeOK, Fresh
  <2>2. CASE EndOfData
    <3>1. RoundEnds(TRUE, ~decoding) /\ more' \in BOOLEAN /\ seen' = seen /\ failures' = failures
      BY <2>2 DEF EndOfData
    <3>2. (~decoding) \in BOOLEAN
      OBVIOUS
    <3> QED BY <3>1, <3>2, RoundEndsKeeps DEF TypeOK
  <2>3. CASE Fails
    <3>1. RoundEnds(FALSE, ~Fresh) /\ more' \in BOOLEAN /\ seen' = seen
      BY <2>3 DEF Fails
    <3>2. failures' \in Nat /\ failures' # 0
      BY <2>3 DEF Fails, TypeOK
    <3>3. (~Fresh) \in BOOLEAN
      OBVIOUS
    <3> QED BY <3>1, <3>2, <3>3, RoundEndsKeeps DEF TypeOK, Fresh
  <2> QED BY <2>1, <2>2, <2>3
<1>2. CountsAreExact' /\ TakenInv'
  <2>1. Fresh' <=> Fresh
    BY <1>1 DEF Fresh
  <2> QED BY <1>1, <2>1, ControlKeepsCounts
<1>3. TypeOK'
  BY <1>1 DEF TypeOK, picVars
<1>4. ControlInv' /\ FailureInv'
  BY <1>1 DEF ControlInv, FailureInv, picVars
<1>5. FrameInv'
  <2>1. NextMap(cur, header.refresh)' = NextMap(cur, header.refresh)
    BY <1>1 DEF NextMap, picVars
  <2> QED BY <1>1, <2>1 DEF FrameInv, picVars
<1> QED BY <1>2, <1>3, <1>4, <1>5

\* Every reachable state satisfies the invariant.
LEMMA InductiveInvariant == Spec => []IInv
<1>1. IInv /\ [Next]_vars => IInv'
  <2> SUFFICES ASSUME IInv, [Next]_vars PROVE IInv'
    OBVIOUS
  <2>1. CASE NewFrame
    BY <2>1, NewFrameIInv
  <2>2. CASE ShowExisting
    BY <2>2, ShowExistingIInv
  <2>3. CASE Update
    BY <2>3, UpdateIInv
  <2>4. CASE UpdateFailed
    BY <2>4, UpdateFailedIInv
  <2>5. CASE Call \/ HeaderPassedOver
    BY <2>5, CallIInv
  <2>6. CASE LastTiles \/ EndOfData \/ Fails
    BY <2>6, RoundEndsIInv
  <2>7. CASE UNCHANGED vars
    <3>1. UNCHANGED <<picVars, decoding>> /\ (Fresh' <=> Fresh) /\ (strayed => strayed')
      BY <2>7 DEF vars, Fresh
    <3>2. CountsAreExact' /\ TakenInv'
      BY <3>1, ControlKeepsCounts
    <3>3. NextMap(cur, header.refresh)' = NextMap(cur, header.refresh)
      BY <2>7 DEF NextMap, vars, picVars
    <3> QED BY <2>7, <3>2, <3>3 DEF vars, callVars, picVars, IInv, TypeOK, ControlInv, FrameInv, FailureInv
  <2> QED BY <2>1, <2>2, <2>3, <2>4, <2>5, <2>6, <2>7 DEF Next
<1> QED BY <1>1, InitIInv, PTL DEF Spec

-----------------------------------------------------------------------------
(* The theorems.                                                           *)

\* The reference counts are exact in every reachable state up to the first round that
\* fails outside a new frame or is about no frame, and never too high at all.
THEOREM CountsAlwaysExact == Spec => []CountsAreExact
<1>1. IInv => CountsAreExact
  BY DEF IInv
<1> QED BY <1>1, InductiveInvariant, PTL

\* One buffer more than there are slots is enough for a stream without errors:
\* otherwise every buffer would be in a slot of its own.
THEOREM BuffersAlwaysSuffice ==
    ASSUME Cardinality(Buffers) > Cardinality(RefSlots)
    PROVE  Spec => []BuffersSuffice
<1>1. ASSUME IInv, failures = 0, ~decoding, free = {}
      PROVE  FALSE
  <2>1. ASSUME NEW b \in Buffers PROVE \E s \in RefSlots : refs[s] = b
    <3>1. count[b] > 0 /\ count[b] \in Int /\ count[b] <= Counted(b)
      BY <1>1 DEF IInv, CountsAreExact, TakenInv, TypeOK
    <3>2. References(next, b) = 0 /\ Own(b) = 0 /\ lost[b] = 0
      BY <1>1, NoRefsCount DEF IInv, FailureInv, Own, Fresh
    <3>3. References(refs, b) # 0
      BY <3>1, <3>2, ReferencesCount DEF Counted
    <3> QED BY <3>3, ReferencesCount
  <2> DEFINE f == [b \in Buffers |-> CHOOSE s \in RefSlots : refs[s] = b]
  <2>2. f \in [Buffers -> RefSlots] /\ \A b \in Buffers : refs[f[b]] = b
    BY <2>1
  <2> HIDE DEF f
  <2>3. Cardinality(RefSlots) < Cardinality(Buffers)
    BY DecoderPicturesAssumption, FS_CardinalityType
  <2>4. \E x, y \in Buffers : x # y /\ f[x] = f[y]
    <3>1. IsFiniteSet(Buffers) /\ IsFiniteSet(RefSlots)
      BY DecoderPicturesAssumption
    <3>2. f \in [Buffers -> RefSlots]
      BY <2>2
    <3> QED BY <2>3, <3>1, <3>2, FS_PigeonHole, Zenon
  <2> QED BY <2>2, <2>4
<1>2. IInv => BuffersSuffice
  BY <1>1 DEF BuffersSuffice
<1> QED BY <1>2, InductiveInvariant, PTL

\* Every slot holds the frame the stream put there: each step is one of the
\* reference slots seen alone, or leaves them as they are, until a round goes astray.
THEOREM RefinesReferenceSlots == Spec => ImplementsReferenceSlots
<1>1. Init => Slots!Init
  BY DEF Init, NoRefs, Held, Pending, Slots!Init
<1>2. ASSUME IInv, [Next]_vars PROVE [Slots!Next]_Slots!vars
  <2> USE DEF IInv
  <2>1. CASE strayed'
    BY <2>1 DEF Slots!Next, Slots!Damage, TypeOK
  <2>2. CASE ~strayed' /\ NewFrame
    <3>1. PICK b \in free, m \in SUBSET RefSlots :
              /\ holds' = [holds EXCEPT ![b] = begun']
              /\ header' = [frame |-> begun', refresh |-> m, existing |-> FALSE]
      BY <2>2 DEF NewFrame
    <3>2. refs' = refs /\ begun' = begun + 1 /\ ~decoding /\ decoding' = TRUE /\ strayed' = strayed /\ ~strayed
      BY <1>2, <2>2 DEF NewFrame, ReadsHeader, ControlInv
    <3>3. \A s \in RefSlots : refs[s] # None => refs[s] # b /\ holds'[refs[s]] = holds[refs[s]]
      BY <1>2, <3>1, <3>2, FreeIsUnreferenced DEF TypeOK
    <3>4. Held' = Held
      BY <3>2, <3>3 DEF Held
    <3>5. Pending' = [frame |-> begun', refresh |-> m]
      BY <3>1 DEF Pending
    <3> QED BY <3>2, <3>4, <3>5 DEF Slots!Next, Slots!Begin
  <2>3. CASE ~strayed' /\ ShowExisting
    <3>1. PICK s \in RefSlots, m \in {{}, RefSlots} :
              /\ refs[s] # None
              /\ header' = [frame |-> holds[refs[s]], refresh |-> m, existing |-> TRUE]
      BY <2>3 DEF ShowExisting
    <3>2. /\ refs' = refs /\ holds' = holds /\ begun' = begun /\ ~decoding /\ decoding' = TRUE
          /\ strayed' = strayed /\ ~strayed
      BY <1>2, <2>3 DEF ShowExisting, ReadsHeader, ControlInv
    <3>3. Held' = Held
      BY <3>2 DEF Held
    <3>4. Held[s] = holds[refs[s]] /\ Held[s] # 0
      BY <1>2, <3>1, <3>2 DEF Held, FrameInv, TypeOK
    <3>5. Pending' = [frame |-> Held[s], refresh |-> m]
      BY <3>1, <3>4 DEF Pending
    <3> QED BY <3>1, <3>2, <3>3, <3>4, <3>5 DEF Slots!Next, Slots!ShowAgain
  <2>4. CASE ~strayed' /\ Update
    <3>1. /\ refs' = next /\ holds' = holds /\ begun' = begun /\ header' = header
          /\ strayed' = strayed /\ ~strayed /\ decoding /\ decoding' = FALSE
      BY <1>2, <2>4 DEF Update, Updates, ControlInv
    <3>2. /\ cur \in Buffers /\ holds[cur] = header.frame
          /\ next = [s \in RefSlots |-> IF s \in header.refresh THEN cur ELSE refs[s]]
      BY <1>2, <3>1 DEF FrameInv, NextMap
    <3>3. cur # None
      BY <3>2, DecoderPicturesAssumption
    <3>4. Held' = [s \in RefSlots |-> IF s \in Pending.refresh THEN Pending.frame ELSE Held[s]]
      BY <3>1, <3>2, <3>3 DEF Held, Pending
    <3>5. Pending' = Pending
      BY <3>1 DEF Pending
    <3> QED BY <3>1, <3>4, <3>5 DEF Slots!Next, Slots!Finish
  <2>5. CASE ~strayed' /\ UpdateFailed
    <3>1. /\ Held' = Held /\ Pending' = Pending /\ begun' = begun /\ strayed' = strayed
          /\ decoding /\ decoding' = FALSE
      BY <1>2, <2>5 DEF UpdateFailed, Updates, ControlInv, Held, Pending
    <3> QED BY <3>1 DEF Slots!Next, Slots!Fail
  <2>6. CASE ~strayed' /\ (Call \/ HeaderPassedOver \/ LastTiles \/ EndOfData \/ Fails \/ UNCHANGED vars)
    <3>1. /\ UNCHANGED <<picVars, decoding, begun>> /\ strayed' = strayed
          /\ header'.frame = header.frame /\ header'.refresh = header.refresh
      BY <1>2, <2>6 DEF Call, HeaderPassedOver, ReadsHeader, LastTiles, EndOfData, Fails, RoundEnds, vars, TypeOK
    <3>2. Held' = Held /\ Pending' = Pending
      BY <3>1 DEF Held, Pending, picVars
    <3> QED BY <3>1, <3>2 DEF Slots!vars
  <2> QED BY <1>2, <2>1, <2>2, <2>3, <2>4, <2>5, <2>6 DEF Next
<1> QED BY <1>1, <1>2, InductiveInvariant, PTL DEF Spec, ImplementsReferenceSlots, Slots!Spec
=============================================================================
