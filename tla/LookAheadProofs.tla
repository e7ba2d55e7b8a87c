--------------------------- MODULE LookAheadProofs --------------------------
(***************************************************************************)
(* Theorems about the pools around picture decision, for every stream and  *)
(* every size of the pools: no object is lost, and none is made.           *)
(*                                                                         *)
(* Parent sets are taken two at a time for a picture that could have an    *)
(* overlay, and the second one is given back when there is none; motion    *)
(* estimation objects are taken for a whole mini-GOP at once, and for a    *)
(* delayed picture with the next one.  That these decisions, made at three *)
(* places of the code, add up needs what a window is: the pictures of the  *)
(* mini-GOPs lie one after the other in it, and only its last picture can  *)
(* be an intra picture, so that a mini-GOP has at most one to delay.       *)
(***************************************************************************)
EXTENDS LookAhead, TLAPS, FiniteSetTheorems, SequenceTheorems

Arrival == [pic : Nat, type : {"key", "intra", "inter"}]
MiniGop == [first : Nat, len : Nat \ {0}, level : Int]

\* The mini-GOPs of a window lie one after the other up to its end.
Contiguous(gs, count) ==
    /\ gs \in Seq(MiniGop) /\ gs # <<>>
    /\ \A n \in DOMAIN gs :
          /\ gs[n].first + gs[n].len <= count
          /\ IF n = Len(gs) THEN gs[n].first + gs[n].len = count
             ELSE gs[n].first + gs[n].len = gs[n + 1].first

WindowKept ==
    /\ stream \in Streams /\ arrived \in Nat /\ idx \in Nat
    /\ buffer \in Seq(Arrival) /\ Len(buffer) <= arrived
    /\ \A i \in DOMAIN buffer :
          /\ buffer[i].pic = arrived - Len(buffer) + i - 1
          /\ buffer[i].pic = 0 => buffer[i].type = "key"
          /\ i < Len(buffer) \/ gops = <<>> => buffer[i].type = "inter"
    /\ gops = <<>> => decided = <<>> /\ idx = 0 /\ (ended => buffer = <<>>)
    /\ gops # <<>> => Contiguous(gops, Len(buffer)) /\ idx <= Head(gops).len

\* The pictures of the window that have been decided.
Place == IF gops = <<>> THEN 0 ELSE Head(gops).first + idx

\* The pictures of the stream that have been.
Decided == arrived - Len(buffer) + Place

\* A sequence, of whatever.
Sequence(s) == \E S : s \in Seq(S)

\* Only the last picture of a window can be one to delay.
DelayedIsLast ==
    /\ Sequence(decided)
    /\ Sequence(sent)
    /\ \A k \in DOMAIN decided :
          /\ "delayed" \in DOMAIN decided[k]
          /\ decided[k].delayed => k = Len(decided) /\ Place = Len(buffer)

\* The end of the stream comes with the last picture.
StreamKept ==
    /\ taken \in Nat /\ closed \in BOOLEAN /\ coded \in Nat
    /\ closed => AtPicture
    /\ ended => closed /\ arrived = PicturesTaken

HeldWithoutMe == IF held # <<>> /\ ~held[1].hasMe THEN 1 ELSE 0

\* Where the objects of both pools are.
Accounts ==
    /\ parents \in Int /\ meObjects \in Int
    /\ parents = ParentCount - taken - (IF closed THEN 1 ELSE 0)
                 + SetsBefore(Decided) - Len(sent) - Len(decided)
    /\ meObjects = MeCount - Len(sent) + HeldWithoutMe

PoolInvariant == WindowKept /\ DelayedIsLast /\ StreamKept /\ Accounts

-----------------------------------------------------------------------------
(* The constants, and how a window is split.                               *)

LEMMA MaxIsInteger ==
    ASSUME NEW a \in Int, NEW b \in Int
    PROVE  Max({a, b}) \in Int
<1>1. \E x \in {a, b} : \A y \in {a, b} : x >= y
  OBVIOUS
<1> QED BY <1>1 DEF Max

LEMMA PoolsAreIntegers ==
    ASSUME PictureDecisionAssumption, LookAheadAssumption, stream \in Streams
    PROVE  ParentCount \in Int /\ MeCount \in Int
<1>1. stream.levels \in 0 .. 5 /\ stream.delay \in Int
  BY DEF PictureDecisionAssumption, LookAheadAssumption
<1>2. MgSize \in Int
  BY <1>1 DEF MgSize, Period
<1>3. MinParent \in Int /\ MinMe \in Int
  BY <1>1, <1>2 DEF MinParent, MinMe, LadMg
<1>4. Max({MinParent, 64}) \in Int /\ Max({MinMe, MinParent}) \in Int /\ Max({MinMe, 55}) \in Int
  BY <1>3, MaxIsInteger
<1> QED BY <1>3, <1>4 DEF ParentCount, MeCount

\* The blocks of eight pictures follow each other.
EightsCount(first, count) == (count - first) \div 8

LEMMA EightsFollow ==
    ASSUME NEW first \in Nat, NEW count \in Nat, first <= count
    PROVE  /\ EightsCount(first, count) \in Nat
           /\ first + 8 * EightsCount(first, count) <= count
           /\ Eights(first, count) \in Seq(MiniGop)
           /\ Len(Eights(first, count)) = EightsCount(first, count)
           /\ \A i \in 1 .. EightsCount(first, count) :
                 /\ Eights(first, count)[i].first = first + 8 * (i - 1)
                 /\ Eights(first, count)[i].len = 8
<1>1. EightsCount(first, count) \in Nat /\ first + 8 * EightsCount(first, count) <= count
  BY DEF EightsCount
<1>2. PICK n \in Nat : n = EightsCount(first, count)
  BY <1>1
<1>3. Eights(first, count) = [i \in 1 .. n |-> Gop(first + 8 * (i - 1), 8, 3)]
  BY <1>2 DEF Eights, EightsCount
<1>4. \A i \in 1 .. n : Gop(first + 8 * (i - 1), 8, 3) \in MiniGop
  BY DEF Gop, MiniGop
<1>5. [i \in 1 .. n |-> Gop(first + 8 * (i - 1), 8, 3)] \in Seq(MiniGop)
  BY <1>4
<1>6. \A i \in 1 .. n : /\ Eights(first, count)[i].first = first + 8 * (i - 1)
                        /\ Eights(first, count)[i].len = 8
  BY <1>3 DEF Gop
<1> QED BY <1>1, <1>2, <1>3, <1>5, <1>6

\* A sequence of mini-GOPs that starts at 0, all of eight pictures but the first.
LEMMA EightsContiguous ==
    ASSUME NEW b \in Seq(MiniGop), b # <<>>, NEW large \in Nat \ {0},
           \A i \in DOMAIN b : /\ b[i].first = IF i = 1 THEN 0 ELSE large + 8 * (i - 2)
                              /\ b[i].len = IF i = 1 THEN large ELSE 8
    PROVE  b[1].first = 0 /\ Contiguous(b, large + 8 * (Len(b) - 1))
<1>1. Len(b) \in Nat \ {0} /\ DOMAIN b = 1 .. Len(b)
  OBVIOUS
<1>2. ASSUME NEW i \in DOMAIN b PROVE b[i].first + b[i].len = large + 8 * (i - 1)
  BY <1>1, <1>2
<1>3. ASSUME NEW i \in DOMAIN b, i # Len(b) PROVE b[i].first + b[i].len = b[i + 1].first
  <2>1. i + 1 \in DOMAIN b /\ i + 1 # 1
    BY <1>1, <1>3
  <2>2. b[i + 1].first = large + 8 * ((i + 1) - 2)
    BY <2>1
  <2> QED BY <1>1, <1>2, <1>3, <2>2
<1>4. b[1].first = 0
  BY <1>1
<1>5. \A i \in DOMAIN b : b[i].first + b[i].len <= large + 8 * (Len(b) - 1)
  BY <1>1, <1>2
<1> QED BY <1>1, <1>2, <1>3, <1>4, <1>5 DEF Contiguous

LEMMA OneIsContiguous ==
    ASSUME NEW len \in Nat \ {0}, NEW lev \in Int
    PROVE  /\ <<Gop(0, len, lev)>> \in Seq(MiniGop)
           /\ Contiguous(<<Gop(0, len, lev)>>, len)
           /\ <<Gop(0, len, lev)>>[1].first = 0
<1>1. PICK g : g = Gop(0, len, lev)
  OBVIOUS
<1>2. g \in MiniGop /\ g.first = 0 /\ g.len = len
  BY <1>1 DEF Gop, MiniGop
<1>3. Len(<<g>>) = 1 /\ <<g>>[1] = g /\ DOMAIN <<g>> = 1 .. 1
  OBVIOUS
<1>4. <<g>> \in Seq(MiniGop)
  BY <1>2, <1>3
<1> QED BY <1>1, <1>2, <1>3, <1>4 DEF Contiguous

\* What is taken from a window in large blocks.
LEMMA BlocksFollow ==
    ASSUME NEW count \in Nat, NEW keyLast
    PROVE  /\ Blocks(count, keyLast) \in Seq(MiniGop)
           /\ Blocks(count, keyLast) # <<>> =>
                 /\ Blocks(count, keyLast)[1].first = 0
                 /\ \E end \in Nat : end <= count /\ Contiguous(Blocks(count, keyLast), end)
<1>a. PICK b : b = Blocks(count, keyLast)
  OBVIOUS
<1>b. SUFFICES /\ b \in Seq(MiniGop)
               /\ b # <<>> => b[1].first = 0 /\ \E end \in Nat : end <= count /\ Contiguous(b, end)
  BY <1>a
<1>1. CASE b = <<Gop(0, 32, 5)>> /\ count >= 32
  BY <1>1, OneIsContiguous
<1>2. CASE b = <<Gop(0, 16, 4)>> \o Eights(16, count) /\ count >= 16
  <2>1. PICK n, e, g : n = EightsCount(16, count) /\ e = Eights(16, count) /\ g = Gop(0, 16, 4)
    OBVIOUS
  <2>2. 16 \in Nat /\ 16 <= count
    BY <1>2
  <2>3. n \in Nat /\ 16 + 8 * n <= count /\ e \in Seq(MiniGop) /\ Len(e) = n
    BY <2>1, <2>2, EightsFollow
  <2>4. ASSUME NEW i \in 1 .. n PROVE e[i].first = 16 + 8 * (i - 1) /\ e[i].len = 8
    BY <2>1, <2>2, EightsFollow, Zenon
  <2>5. g \in MiniGop /\ <<g>> \in Seq(MiniGop) /\ Len(<<g>>) = 1 /\ g.first = 0 /\ g.len = 16
    BY <2>1 DEF Gop, MiniGop
  <2>6. b = <<g>> \o e
    BY <1>2, <2>1
  <2>7. b \in Seq(MiniGop) /\ Len(b) = n + 1 /\ DOMAIN b = 1 .. n + 1
    BY <2>3, <2>5, <2>6, ConcatProperties
  <2>8. \A i \in 1 .. n + 1 : b[i] = IF i = 1 THEN g ELSE e[i - 1]
    BY <2>3, <2>5, <2>6, ConcatProperties
  <2>9. ASSUME NEW i \in 1 .. n + 1
        PROVE  /\ b[i].first = IF i = 1 THEN 0 ELSE 16 + 8 * (i - 2)
               /\ b[i].len = IF i = 1 THEN 16 ELSE 8
    <3>1. CASE i = 1
      BY <2>5, <2>8, <3>1
    <3>2. CASE i # 1
      <4>1. b[i] = e[i - 1] /\ i - 1 \in 1 .. n
        BY <2>3, <2>8, <3>2
      <4>2. e[i - 1].first = 16 + 8 * ((i - 1) - 1) /\ e[i - 1].len = 8
        BY <2>4, <4>1
      <4>3. (i - 1) - 1 = i - 2
        BY <2>3
      <4> QED BY <3>2, <4>1, <4>2, <4>3
    <3> QED BY <3>1, <3>2
  <2>10. b # <<>>
    BY <2>3, <2>7
  <2>11. b[1].first = 0 /\ Contiguous(b, 16 + 8 * (Len(b) - 1))
    <3>1. 16 \in Nat \ {0}
      OBVIOUS
    <3> QED BY <2>7, <2>9, <2>10, <3>1, EightsContiguous, Zenon
  <2>12. 16 + 8 * (Len(b) - 1) \in Nat /\ 16 + 8 * (Len(b) - 1) <= count
    BY <2>3, <2>7
  <2> QED BY <2>7, <2>11, <2>12
<1>3. CASE b = Eights(0, count)
  <2>1. PICK n : n = EightsCount(0, count)
    OBVIOUS
  <2>2. 0 \in Nat /\ 0 <= count
    OBVIOUS
  <2>3. n \in Nat /\ 8 * n <= count /\ b \in Seq(MiniGop) /\ Len(b) = n
    BY <1>3, <2>1, <2>2, EightsFollow
  <2>4. ASSUME NEW i \in 1 .. n PROVE b[i].first = 0 + 8 * (i - 1) /\ b[i].len = 8
    BY <1>3, <2>1, <2>2, EightsFollow, Zenon
  <2>5. CASE b # <<>>
    <3>1. ASSUME NEW i \in DOMAIN b
          PROVE  /\ b[i].first = IF i = 1 THEN 0 ELSE 8 + 8 * (i - 2)
                 /\ b[i].len = IF i = 1 THEN 8 ELSE 8
      BY <2>3, <2>4
    <3>2. b[1].first = 0 /\ Contiguous(b, 8 + 8 * (Len(b) - 1))
      <4>1. 8 \in Nat \ {0}
        OBVIOUS
      <4> QED BY <2>3, <2>5, <3>1, <4>1, EightsContiguous, Zenon
    <3>3. 8 + 8 * (Len(b) - 1) \in Nat /\ 8 + 8 * (Len(b) - 1) <= count
      BY <2>3, <2>5
    <3> QED BY <2>3, <3>2, <3>3
  <2> QED BY <2>3, <2>5
<1> QED BY <1>1, <1>2, <1>3, <1>a DEF Blocks

\* The mini-GOPs of a window cover it.
LEMMA SplitFollows ==
    ASSUME NEW levels \in 0 .. 5, NEW count \in Nat \ {0}, NEW keyLast
    PROVE  /\ Contiguous(Split(levels, count, keyLast), count)
           /\ Head(Split(levels, count, keyLast)).first = 0
<1>1. PICK b, gs, rest : /\ b = Blocks(count, keyLast) /\ gs = Split(levels, count, keyLast)
                        /\ rest = IF levels <= 3 THEN levels ELSE 3
  OBVIOUS
<1>2. b \in Seq(MiniGop) /\ rest \in Int
  BY <1>1, BlocksFollow
<1>3. PICK covered \in Nat : /\ covered = IF b = <<>> THEN 0 ELSE b[Len(b)].first + b[Len(b)].len
                             /\ b # <<>> => Contiguous(b, covered) /\ b[1].first = 0 /\ covered <= count
  <2>1. CASE b = <<>>
    BY <2>1
  <2>2. CASE b # <<>>
    <3>1. b[1].first = 0 /\ \E end \in Nat : end <= count /\ Contiguous(b, end)
      BY <1>1, <2>2, BlocksFollow
    <3> QED BY <1>2, <2>2, <3>1 DEF Contiguous
  <2> QED BY <2>1, <2>2
<1>4. gs = IF levels <= 1 \/ count = 1 THEN <<Gop(0, count, levels)>>
           ELSE IF covered < count THEN b \o <<Gop(covered, count - covered, rest)>> ELSE b
  <2>1. covered = IF b = <<>> THEN 0 ELSE LET g == b[Len(b)] IN g.first + g.len
    BY <1>3
  <2> QED BY <1>1, <2>1, Zenon DEF Split
<1>5. SUFFICES Contiguous(gs, count) /\ gs[1].first = 0
  BY <1>1 DEF Contiguous
<1>6. CASE levels <= 1 \/ count = 1
  <2>1. gs = <<Gop(0, count, levels)>> /\ levels \in Int
    BY <1>4, <1>6
  <2> QED BY <2>1, OneIsContiguous
<1>7. CASE ~(levels <= 1 \/ count = 1) /\ covered < count
  <2>1. PICK last : last = Gop(covered, count - covered, rest)
    OBVIOUS
  <2>2. gs = b \o <<last>>
    BY <1>4, <1>7, <2>1
  <2>3. last \in MiniGop /\ last.first = covered /\ last.len = count - covered
    BY <1>2, <1>7, <2>1 DEF Gop, MiniGop
  <2>4. <<last>> \in Seq(MiniGop) /\ Len(<<last>>) = 1 /\ Len(b) \in Nat
    BY <1>2, <2>3
  <2>5. gs \in Seq(MiniGop) /\ Len(gs) = Len(b) + 1
    BY <1>2, <2>2, <2>4, ConcatProperties
  <2>6. \A i \in 1 .. Len(b) + 1 : gs[i] = IF i <= Len(b) THEN b[i] ELSE last
    BY <1>2, <2>2, <2>4, ConcatProperties
  <2>7. gs[Len(b) + 1] = last /\ gs[Len(b) + 1].first + gs[Len(b) + 1].len = count
    BY <1>3, <2>3, <2>4, <2>6
  <2>8. ASSUME NEW i \in 1 .. Len(b) PROVE gs[i].first + gs[i].len = gs[i + 1].first
    <3>1. b # <<>> /\ gs[i] = b[i]
      BY <1>2, <2>4, <2>6
    <3>2. CASE i = Len(b)
      BY <1>3, <2>3, <2>7, <3>1, <3>2
    <3>3. CASE i # Len(b)
      <4>1. gs[i + 1] = b[i + 1]
        BY <2>4, <2>6, <3>3
      <4>2. b[i].first + b[i].len = b[i + 1].first
        BY <1>2, <1>3, <3>1, <3>3 DEF Contiguous
      <4> QED BY <3>1, <4>1, <4>2
    <3> QED BY <3>2, <3>3
  <2>9. gs[1].first = 0
    <3>1. CASE b = <<>>
      BY <1>3, <2>3, <2>4, <2>7, <3>1
    <3>2. CASE b # <<>>
      BY <1>2, <1>3, <2>4, <2>6, <3>2
    <3> QED BY <3>1, <3>2
  <2>10. gs # <<>> /\ DOMAIN gs = 1 .. Len(b) + 1
    BY <2>4, <2>5
  <2>11. ASSUME NEW i \in 1 .. Len(b) PROVE gs[i].first + gs[i].len <= count
    <3>1. b # <<>> /\ gs[i] = b[i] /\ i \in DOMAIN b
      BY <1>2, <2>4, <2>6
    <3>2. b[i] \in MiniGop /\ b[i].first + b[i].len <= covered
      BY <1>2, <1>3, <3>1 DEF Contiguous
    <3> QED BY <1>7, <3>1, <3>2 DEF MiniGop
  <2> QED BY <2>4, <2>5, <2>7, <2>8, <2>9, <2>10, <2>11 DEF Contiguous
<1>8. CASE ~(levels <= 1 \/ count = 1) /\ ~(covered < count)
  <2>1. gs = b /\ b # <<>> /\ covered = count
    BY <1>3, <1>4, <1>8
  <2> QED BY <1>3, <2>1
<1> QED BY <1>6, <1>7, <1>8

-----------------------------------------------------------------------------
(* The steps.                                                              *)

\* A function of 1 .. n is a sequence.
LEMMA FunctionIsSequence ==
    ASSUME NEW n \in Nat, NEW f, f = [k \in 1 .. n |-> f[k]]
    PROVE  Sequence(f) /\ Len(f) = n /\ DOMAIN f = 1 .. n
<1>1. f \in [1 .. n -> {f[k] : k \in 1 .. n}]
  OBVIOUS
<1>2. f \in Seq({f[k] : k \in 1 .. n}) /\ Len(f) = n
  BY <1>1
<1> QED BY <1>1, <1>2 DEF Sequence

LEMMA AppendIsSequence ==
    ASSUME NEW s, NEW e, Sequence(s)
    PROVE  /\ Sequence(Append(s, e))
           /\ Len(s) \in Nat /\ Len(Append(s, e)) = Len(s) + 1
           /\ DOMAIN s = 1 .. Len(s) /\ DOMAIN Append(s, e) = 1 .. Len(s) + 1
           /\ \A k \in 1 .. Len(s) : Append(s, e)[k] = s[k]
           /\ Append(s, e)[Len(s) + 1] = e
<1>1. PICK S : s \in Seq(S)
  BY DEF Sequence
<1>2. s \in Seq(S \cup {e}) /\ e \in S \cup {e}
  BY <1>1
<1>3. Append(s, e) \in Seq(S \cup {e}) /\ Len(Append(s, e)) = Len(s) + 1 /\ Len(s) \in Nat
  BY <1>2, AppendProperties
<1>4. /\ \A k \in 1 .. Len(s) : Append(s, e)[k] = s[k]
      /\ Append(s, e)[Len(s) + 1] = e
  BY <1>2, AppendProperties
<1> QED BY <1>2, <1>3, <1>4 DEF Sequence

LEMMA ConcatenationIsSequence ==
    ASSUME NEW s, NEW t, Sequence(s), Sequence(t)
    PROVE  /\ Sequence(s \o t)
           /\ Len(s) \in Nat /\ Len(t) \in Nat /\ Len(s \o t) = Len(s) + Len(t)
<1>1. PICK S : s \in Seq(S)
  BY DEF Sequence
<1>2. PICK T : t \in Seq(T)
  BY DEF Sequence
<1>3. s \in Seq(S \cup T) /\ t \in Seq(S \cup T)
  BY <1>1, <1>2
<1>4. s \o t \in Seq(S \cup T) /\ Len(s \o t) = Len(s) + Len(t)
  BY <1>3, ConcatProperties
<1> QED BY <1>3, <1>4 DEF Sequence

LEMMA NoSetAfterTheEnd ==
    Runs(1) => ~closed
<1>1. Runs(1) => Ready[1]
  BY DEF Runs
<1>2. Ready[1] = (~closed /\ parents > 0)
  BY DEF Ready
<1> QED BY <1>1, <1>2

LEMMA InitHolds ==
    ASSUME PictureDecisionAssumption, LookAheadAssumption, AheadInit
    PROVE  PoolInvariant
<1>1. stream \in Streams /\ ParentCount \in Int /\ MeCount \in Int
  BY PoolsAreIntegers DEF AheadInit, Init
<1>2. <<>> \in Seq(Arrival) /\ Len(<<>>) = 0
  OBVIOUS
<1>3. WindowKept
  BY <1>1, <1>2 DEF AheadInit, Init, WindowKept
<1>4. DelayedIsLast
  BY <1>2 DEF AheadInit, Init, DelayedIsLast, Sequence
<1>5. StreamKept
  BY DEF AheadInit, Init, StreamKept
<1>6. Accounts
  <2>1. Decided = 0
    <3>1. arrived = 0
      BY DEF AheadInit, Init
    <3>2. buffer = <<>> /\ gops = <<>>
      BY DEF AheadInit, Init
    <3>3. Len(buffer) = 0 /\ Place = 0
      BY <1>2, <3>2 DEF Place
    <3> QED BY <3>1, <3>3, SMT DEF Decided
  <2>2. SetsBefore(0) = 0
    BY DEF SetsBefore
  <2>3. SetsBefore(Decided) = 0
    BY <2>1, <2>2
  <2> QED BY <1>1, <1>2, <2>3 DEF AheadInit, Init, Accounts, HeldWithoutMe
<1> QED BY <1>3, <1>4, <1>5, <1>6 DEF PoolInvariant

\* The pools are as large as the configuration says.
LEMMA PoolsStay ==
    ASSUME stream' = stream
    PROVE  /\ ParentCount' = ParentCount /\ MeCount' = MeCount
           /\ \A n : SetsBefore(n)' = SetsBefore(n)
<1>1. MgSize' = MgSize
  BY DEF MgSize
<1>2. MinParent' = MinParent /\ MinMe' = MinMe
  BY <1>1 DEF MinParent, MinMe
<1> QED BY <1>2 DEF ParentCount, MeCount, SetsBefore

\* What does not touch picture decision leaves the window as it is.
LEMMA WindowUntouched ==
    ASSUME PoolInvariant, UNCHANGED vars
    PROVE  /\ WindowKept' /\ DelayedIsLast' /\ Place' = Place
           /\ UNCHANGED <<stream, arrived, ended, buffer, decided, sent, coded>>
<1>1. UNCHANGED <<stream, arrived, ended, idx, buffer, gops, decided, sent, coded>>
  BY DEF vars, arrivalVars, decisionVars, decoderVars
<1>2. WindowKept'
  BY <1>1 DEF PoolInvariant, WindowKept, Contiguous
<1>3. Place' = Place
  BY <1>1 DEF Place
<1>4. DelayedIsLast'
  BY <1>1, <1>3 DEF PoolInvariant, DelayedIsLast
<1> QED BY <1>1, <1>2, <1>3, <1>4

LEMMA TermsAreNumbers ==
    ASSUME PictureDecisionAssumption, LookAheadAssumption, PoolInvariant
    PROVE  /\ ParentCount \in Int /\ MeCount \in Int
           /\ Len(sent) \in Nat /\ Len(decided) \in Nat /\ Len(buffer) \in Nat
           /\ Place \in Nat /\ Decided \in Nat /\ SetsBefore(Decided) \in Int
<1>1. ParentCount \in Int /\ MeCount \in Int
  BY PoolsAreIntegers DEF PoolInvariant, WindowKept
<1>2. Len(sent) \in Nat /\ Len(decided) \in Nat /\ Len(buffer) \in Nat
  BY DEF PoolInvariant, WindowKept, DelayedIsLast, Sequence
<1>3. Place \in Nat
  <2>1. CASE gops = <<>>
    BY <2>1 DEF Place
  <2>2. CASE gops # <<>>
    <3>1. gops \in Seq(MiniGop) /\ idx \in Nat
      BY <2>2 DEF PoolInvariant, WindowKept, Contiguous
    <3>2. Head(gops) \in MiniGop
      BY <2>2, <3>1
    <3> QED BY <2>2, <3>1, <3>2 DEF MiniGop, Place
  <2> QED BY <2>1, <2>2
<1>4. Decided \in Nat
  BY <1>2, <1>3 DEF PoolInvariant, WindowKept, Decided
<1> QED BY <1>1, <1>2, <1>3, <1>4 DEF SetsBefore

\* A step that leaves picture decision alone changes the accounts by what it takes.
LEMMA AccountsUntouched ==
    ASSUME PictureDecisionAssumption, LookAheadAssumption, PoolInvariant,
           UNCHANGED <<stream, arrived, buffer, decided, sent>>, Place' = Place,
           UNCHANGED <<meObjects, held>>, taken' \in Nat, parents' \in Int,
           parents' + taken' + (IF closed' THEN 1 ELSE 0)
               = parents + taken + (IF closed THEN 1 ELSE 0)
    PROVE  Accounts'
<1>1. ParentCount' = ParentCount /\ MeCount' = MeCount
  BY PoolsStay
<1>2. Decided' = Decided
  BY DEF Decided
<1>3. SetsBefore(Decided)' = SetsBefore(Decided)
  BY <1>2 DEF SetsBefore
<1>4. HeldWithoutMe' = HeldWithoutMe
  BY DEF HeldWithoutMe
<1>5. /\ ParentCount \in Int /\ Len(sent) \in Nat /\ Len(decided) \in Nat
      /\ SetsBefore(Decided) \in Int /\ taken \in Nat /\ parents \in Int
  BY TermsAreNumbers DEF PoolInvariant, StreamKept, Accounts
<1>6. parents = ParentCount - taken - (IF closed THEN 1 ELSE 0)
                + SetsBefore(Decided) - Len(sent) - Len(decided)
  BY DEF PoolInvariant, Accounts
<1>7. parents' = ParentCount - taken' - (IF closed' THEN 1 ELSE 0)
                 + SetsBefore(Decided) - Len(sent) - Len(decided)
  <2>1. PICK c \in Int, d \in Int : c = (IF closed THEN 1 ELSE 0) /\ d = (IF closed' THEN 1 ELSE 0)
    OBVIOUS
  <2>2. parents' + taken' + d = parents + taken + c
    BY <2>1
  <2>3. parents = ParentCount - taken - c + SetsBefore(Decided) - Len(sent) - Len(decided)
    BY <1>6, <2>1
  <2>4. parents' = ParentCount - taken' - d + SetsBefore(Decided) - Len(sent) - Len(decided)
    <3>1. /\ parents \in Int /\ taken \in Int /\ parents' \in Int /\ taken' \in Int
          /\ ParentCount \in Int /\ SetsBefore(Decided) \in Int
          /\ Len(sent) \in Int /\ Len(decided) \in Int
      BY <1>5
    <3>2. PICK p, t, q, u, size, sets, m, n :
            /\ p = parents /\ t = taken /\ q = parents' /\ u = taken' /\ size = ParentCount
            /\ sets = SetsBefore(Decided) /\ m = Len(sent) /\ n = Len(decided)
      OBVIOUS
    <3>3. /\ p \in Int /\ t \in Int /\ q \in Int /\ u \in Int /\ size \in Int
          /\ sets \in Int /\ m \in Int /\ n \in Int
      BY <3>1, <3>2
    <3>4. q + u + d = p + t + c /\ p = size - t - c + sets - m - n
      BY <2>2, <2>3, <3>2
    <3>5. q = size - u - d + sets - m - n
      BY <3>3, <3>4
    <3> QED BY <3>2, <3>5
  <2> QED BY <2>1, <2>4
<1>8. meObjects' \in Int /\ meObjects' = MeCount' - Len(sent') + HeldWithoutMe'
  BY <1>1, <1>4 DEF PoolInvariant, Accounts
<1> QED BY <1>1, <1>3, <1>7, <1>8 DEF Accounts

LEMMA TakeSetKept ==
    ASSUME PictureDecisionAssumption, LookAheadAssumption, PoolInvariant, TakeSet
    PROVE  PoolInvariant'
<1>1. UNCHANGED vars /\ ~closed /\ UNCHANGED <<closed, meObjects, held>>
  BY NoSetAfterTheEnd DEF TakeSet
<1>2. taken' = taken + 1 /\ parents' = parents - 1
  BY DEF TakeSet
<1>3. /\ WindowKept' /\ DelayedIsLast' /\ Place' = Place
      /\ UNCHANGED <<stream, arrived, ended, buffer, decided, sent, coded>>
  BY <1>1, WindowUntouched
<1>4. StreamKept'
  BY <1>1, <1>2, <1>3 DEF PoolInvariant, StreamKept
<1>5. Accounts'
  <2>1. parents \in Int /\ taken \in Nat
    BY DEF PoolInvariant, Accounts, StreamKept
  <2>2. taken' \in Nat /\ parents' \in Int
    BY <1>2, <2>1
  <2>3. parents' + taken' + (IF closed' THEN 1 ELSE 0) = parents + taken + (IF closed THEN 1 ELSE 0)
    BY <1>1, <1>2, <2>1
  <2> QED BY <1>1, <1>3, <2>2, <2>3, AccountsUntouched
<1> QED BY <1>3, <1>4, <1>5 DEF PoolInvariant

LEMMA TakeEndKept ==
    ASSUME PictureDecisionAssumption, LookAheadAssumption, PoolInvariant, TakeEnd
    PROVE  PoolInvariant'
<1>1. UNCHANGED vars /\ ~closed /\ UNCHANGED <<taken, meObjects, held>>
  BY NoSetAfterTheEnd DEF TakeEnd
<1>2. AtPicture /\ closed' = TRUE /\ parents' = parents - 1
  BY DEF TakeEnd
<1>3. /\ WindowKept' /\ DelayedIsLast' /\ Place' = Place
      /\ UNCHANGED <<stream, arrived, ended, buffer, decided, sent, coded>>
  BY <1>1, WindowUntouched
<1>4. StreamKept'
  <2>1. AtPicture'
    BY <1>1, <1>2, <1>3 DEF AtPicture, PicturesTaken, SetsBefore
  <2> QED BY <1>1, <1>2, <1>3, <2>1 DEF PoolInvariant, StreamKept
<1>5. Accounts'
  <2>1. parents \in Int /\ taken \in Nat
    BY DEF PoolInvariant, Accounts, StreamKept
  <2>2. taken' \in Nat /\ parents' \in Int
    BY <1>1, <1>2, <2>1
  <2>3. parents' + taken' + (IF closed' THEN 1 ELSE 0) = parents + taken + (IF closed THEN 1 ELSE 0)
    BY <1>1, <1>2, <2>1
  <2> QED BY <1>1, <1>3, <2>2, <2>3, AccountsUntouched
<1> QED BY <1>3, <1>4, <1>5 DEF PoolInvariant

\* The look-ahead and Source Based Operations take and give back none of the objects.
LEMMA LookAheadKept ==
    ASSUME PictureDecisionAssumption, LookAheadAssumption, PoolInvariant,
           UNCHANGED <<vars, coordinationVars, parents, meObjects, held>>
    PROVE  PoolInvariant'
<1>1. UNCHANGED vars /\ UNCHANGED <<taken, closed, parents, meObjects, held>>
  BY DEF coordinationVars
<1>2. /\ WindowKept' /\ DelayedIsLast' /\ Place' = Place
      /\ UNCHANGED <<stream, arrived, ended, buffer, decided, sent, coded>>
  BY <1>1, WindowUntouched
<1>3. StreamKept'
  BY <1>1, <1>2 DEF PoolInvariant, StreamKept, AtPicture, PicturesTaken, SetsBefore
<1>4. taken \in Nat /\ parents \in Int
  BY DEF PoolInvariant, StreamKept, Accounts
<1>5. Accounts'
  BY <1>1, <1>2, <1>4, AccountsUntouched
<1> QED BY <1>2, <1>3, <1>5 DEF PoolInvariant

\* A picture joins the window, which is complete when it is not an inter picture.
LEMMA PictureArrivesKept ==
    ASSUME PictureDecisionAssumption, LookAheadAssumption, PoolInvariant,
           NEW wish \in {"none", "key", "intra"}, PictureArrives(wish)
    PROVE  PoolInvariant'
<1> DEFINE last == closed /\ arrived + 1 = PicturesTaken
           window == Append(buffer, [pic |-> arrived, type |-> ArrivingType(wish)])
<1>1. Arrive(wish, last) /\ UNCHANGED <<taken, closed, parents, meObjects, held>>
  BY DEF PictureArrives, aheadVars, coordinationVars
<1>2. /\ ~ended /\ gops = <<>> /\ decided = <<>> /\ decided' = <<>> /\ idx' = idx
      /\ arrived' = arrived + 1 /\ ended' = last /\ buffer' = window
      /\ UNCHANGED <<stream, sent, coded>>
  BY <1>1 DEF Arrive, decoderVars
<1>3. gops' = IF WindowComplete(window, last)
              THEN Split(stream.levels, Len(window), IsKey(window[Len(window)])) ELSE <<>>
  BY <1>1, Zenon DEF Arrive
<1>4. /\ stream \in Streams /\ arrived \in Nat /\ buffer \in Seq(Arrival) /\ Len(buffer) \in Nat
      /\ Len(buffer) <= arrived /\ idx = 0
  BY <1>2 DEF PoolInvariant, WindowKept
<1>5. ArrivingType(wish) \in {"key", "intra", "inter"} /\ (arrived = 0 => ArrivingType(wish) = "key")
  <2>1. stream.refresh \in {"key", "intra"}
    BY <1>4 DEF PictureDecisionAssumption
  <2> QED BY <2>1 DEF ArrivingType
<1>6. PICK e : e = [pic |-> arrived, type |-> ArrivingType(wish)]
  OBVIOUS
<1>7. e \in Arrival /\ e.pic = arrived /\ (e.pic = 0 => e.type = "key")
  BY <1>4, <1>5, <1>6 DEF Arrival
<1>8. /\ buffer' \in Seq(Arrival) /\ Len(buffer') = Len(buffer) + 1
      /\ \A i \in 1 .. Len(buffer) : buffer'[i] = buffer[i]
      /\ buffer'[Len(buffer) + 1] = e
  BY <1>2, <1>4, <1>6, <1>7, AppendProperties
<1>9. DOMAIN buffer' = 1 .. Len(buffer) + 1 /\ DOMAIN buffer = 1 .. Len(buffer)
  BY <1>4, <1>8
<1>10. gops' = <<>> => e.type = "inter" /\ ~last
  <2>1. CASE WindowComplete(window, last)
    <3>1. gops' # <<>>
      <4>1. stream.levels \in 0 .. 5 /\ Len(window) \in Nat \ {0}
        BY <1>2, <1>4, <1>8 DEF PictureDecisionAssumption
      <4> QED BY <1>3, <2>1, <4>1, SplitFollows DEF Contiguous
    <3> QED BY <3>1
  <2>2. CASE ~WindowComplete(window, last)
    <3>1. window[Len(window)] = e
      BY <1>2, <1>4, <1>8
    <3> QED BY <2>2, <3>1 DEF WindowComplete
  <2> QED BY <2>1, <2>2
<1>11. gops' # <<>> => Contiguous(gops', Len(buffer')) /\ Head(gops').first = 0
  <2>1. stream.levels \in 0 .. 5 /\ Len(window) \in Nat \ {0}
    BY <1>2, <1>4, <1>8 DEF PictureDecisionAssumption
  <2> QED BY <1>2, <1>3, <2>1, SplitFollows
<1>12. Place' = 0 /\ Place = 0
  BY <1>2, <1>4, <1>11 DEF Place
<1>13. WindowKept'
  <2>1. ASSUME NEW i \in DOMAIN buffer'
        PROVE  /\ buffer'[i].pic = arrived' - Len(buffer') + i - 1
               /\ buffer'[i].pic = 0 => buffer'[i].type = "key"
               /\ i < Len(buffer') \/ gops' = <<>> => buffer'[i].type = "inter"
    <3>1. CASE i \in DOMAIN buffer
      <4>1. /\ buffer[i].pic = arrived - Len(buffer) + i - 1
            /\ buffer[i].pic = 0 => buffer[i].type = "key"
            /\ buffer[i].type = "inter"
        BY <1>2, <3>1 DEF PoolInvariant, WindowKept
      <4>2. arrived' - Len(buffer') = arrived - Len(buffer)
        BY <1>2, <1>4, <1>8
      <4> QED BY <1>8, <1>9, <3>1, <4>1, <4>2
    <3>2. CASE i = Len(buffer) + 1
      <4>1. buffer'[i] = e
        BY <1>8, <3>2
      <4>2. arrived' - Len(buffer') + i - 1 = arrived
        BY <1>2, <1>4, <1>8, <3>2
      <4>3. ~(i < Len(buffer'))
        BY <1>4, <1>8, <3>2
      <4> QED BY <1>7, <1>10, <4>1, <4>2, <4>3
    <3> QED BY <1>4, <1>9, <3>1, <3>2
  <2>2. stream' \in Streams /\ arrived' \in Nat /\ idx' \in Nat /\ Len(buffer') <= arrived'
    BY <1>2, <1>4, <1>8
  <2>3. gops' = <<>> => decided' = <<>> /\ idx' = 0 /\ (ended' => buffer' = <<>>)
    BY <1>2, <1>4, <1>10
  <2>4. gops' # <<>> => Contiguous(gops', Len(buffer')) /\ idx' <= Head(gops').len
    <3>1. ASSUME gops' # <<>> PROVE Head(gops').len \in Nat
      <4>1. gops' \in Seq(MiniGop)
        BY <1>11, <3>1 DEF Contiguous
      <4>2. Head(gops') \in MiniGop
        BY <3>1, <4>1
      <4> QED BY <4>2 DEF MiniGop
    <3> QED BY <1>2, <1>4, <1>11, <3>1
  <2> QED BY <1>8, <2>1, <2>2, <2>3, <2>4 DEF WindowKept, Contiguous
<1>14. DelayedIsLast'
  BY <1>2 DEF PoolInvariant, DelayedIsLast
<1>15. StreamKept'
  BY <1>1, <1>2 DEF PoolInvariant, StreamKept, AtPicture, PicturesTaken, SetsBefore
<1>16. Accounts'
  <2>1. Decided' = Decided
    BY <1>2, <1>4, <1>8, <1>12 DEF Decided
  <2>2. SetsBefore(Decided)' = SetsBefore(Decided)
    BY <1>2, <2>1 DEF SetsBefore
  <2>3. ParentCount' = ParentCount /\ MeCount' = MeCount
    BY <1>2, PoolsStay
  <2> QED BY <1>1, <1>2, <2>2, <2>3 DEF PoolInvariant, Accounts, HeldWithoutMe
<1> QED BY <1>13, <1>14, <1>15, <1>16 DEF PoolInvariant

\* A picture is coded, its objects are free.
LEMMA CodePictureKept ==
    ASSUME PictureDecisionAssumption, LookAheadAssumption, PoolInvariant, CodePicture
    PROVE  PoolInvariant'
<1>1. /\ sent # <<>> /\ sent' = Tail(sent) /\ coded' = coded + 1
      /\ UNCHANGED <<stream, arrived, ended, idx, buffer, gops, decided>>
      /\ parents' = parents + 1 /\ meObjects' = meObjects + 1 /\ UNCHANGED <<taken, closed, held>>
  BY DEF CodePicture, Code, coordinationVars, arrivalVars, decisionVars
<1>2. WindowKept'
  BY <1>1 DEF PoolInvariant, WindowKept, Contiguous
<1>3. Place' = Place
  BY <1>1 DEF Place
<1>4. Sequence(sent') /\ Len(sent') = Len(sent) - 1
  <2>1. PICK S : sent \in Seq(S)
    BY DEF PoolInvariant, DelayedIsLast, Sequence
  <2> QED BY <1>1, <2>1 DEF Sequence
<1>5. DelayedIsLast'
  BY <1>1, <1>3, <1>4 DEF PoolInvariant, DelayedIsLast
<1>6. StreamKept'
  BY <1>1 DEF PoolInvariant, StreamKept, AtPicture, PicturesTaken, SetsBefore
<1>7. Accounts'
  <2>1. Decided' = Decided
    BY <1>1, <1>3 DEF Decided
  <2>2. SetsBefore(Decided)' = SetsBefore(Decided)
    BY <1>1, <2>1 DEF SetsBefore
  <2>3. ParentCount' = ParentCount /\ MeCount' = MeCount
    BY <1>1, PoolsStay
  <2>4. HeldWithoutMe' = HeldWithoutMe /\ HeldWithoutMe \in Nat
    BY <1>1 DEF HeldWithoutMe
  <2>5. PICK c \in Int : c = (IF closed THEN 1 ELSE 0)
    OBVIOUS
  <2>6. /\ parents \in Int /\ meObjects \in Int
        /\ parents = ParentCount - taken - c + SetsBefore(Decided) - Len(sent) - Len(decided)
        /\ meObjects = MeCount - Len(sent) + HeldWithoutMe
    BY <2>5 DEF PoolInvariant, Accounts
  <2>7. /\ ParentCount \in Int /\ MeCount \in Int /\ Len(sent) \in Nat /\ Len(decided) \in Nat
        /\ SetsBefore(Decided) \in Int /\ taken \in Nat
    BY TermsAreNumbers DEF PoolInvariant, StreamKept
  <2>8. parents' = ParentCount - taken - c + SetsBefore(Decided) - Len(sent') - Len(decided)
    <3>1. PICK p, t, size, sets, m, n : /\ p = parents /\ t = taken /\ size = ParentCount
                                         /\ sets = SetsBefore(Decided) /\ m = Len(sent) /\ n = Len(decided)
      OBVIOUS
    <3>2. p \in Int /\ t \in Int /\ size \in Int /\ sets \in Int /\ m \in Int /\ n \in Int
      BY <2>6, <2>7, <3>1
    <3>3. p = size - t - c + sets - m - n
      BY <2>6, <3>1
    <3>4. p + 1 = size - t - c + sets - (m - 1) - n
      BY <3>2, <3>3
    <3>5. parents' = p + 1 /\ Len(sent') = m - 1
      BY <1>1, <1>4, <3>1
    <3> QED BY <3>1, <3>4, <3>5
  <2>9. meObjects' = MeCount - Len(sent') + HeldWithoutMe
    BY <1>1, <1>4, <2>4, <2>6, <2>7
  <2>10. parents' \in Int /\ meObjects' \in Int
    BY <1>1, <2>6
  <2> QED BY <1>1, <2>2, <2>3, <2>4, <2>5, <2>8, <2>9, <2>10 DEF Accounts
<1> QED BY <1>2, <1>5, <1>6, <1>7 DEF PoolInvariant

\* The next picture to decide is one of the window, the last only if it is the window's.
LEMMA NextOfWindow ==
    ASSUME PoolInvariant, gops # <<>>, idx < Head(gops).len
    PROVE  /\ Head(gops) \in MiniGop /\ Place = Head(gops).first + idx /\ Place \in Nat
           /\ Place < Len(buffer) /\ Len(buffer) \in Nat
           /\ Picture(Head(gops), idx) = buffer[Place + 1] /\ Place + 1 \in DOMAIN buffer
           /\ buffer[Place + 1].pic = Decided
           /\ Decided = 0 => buffer[Place + 1].type # "inter"
           /\ buffer[Place + 1].type # "inter" => Place + 1 = Len(buffer)
<1>1. /\ buffer \in Seq(Arrival) /\ Len(buffer) \in Nat /\ idx \in Nat
      /\ Contiguous(gops, Len(buffer)) /\ DOMAIN buffer = 1 .. Len(buffer)
  BY DEF PoolInvariant, WindowKept
<1>2. gops \in Seq(MiniGop) /\ 1 \in DOMAIN gops /\ Head(gops) = gops[1]
  BY <1>1 DEF Contiguous
<1>3. Head(gops) \in MiniGop /\ Head(gops).first + Head(gops).len <= Len(buffer)
  BY <1>1, <1>2 DEF Contiguous
<1>4. Place = Head(gops).first + idx /\ Place \in Nat /\ Place < Len(buffer)
  BY <1>1, <1>3 DEF Place, MiniGop
<1>5. Picture(Head(gops), idx) = buffer[Place + 1] /\ Place + 1 \in DOMAIN buffer
  BY <1>1, <1>4 DEF Picture
<1>6. /\ buffer[Place + 1].pic = arrived - Len(buffer) + (Place + 1) - 1
      /\ buffer[Place + 1].pic = 0 => buffer[Place + 1].type = "key"
      /\ Place + 1 < Len(buffer) => buffer[Place + 1].type = "inter"
  BY <1>5 DEF PoolInvariant, WindowKept
<1>7. buffer[Place + 1].pic = Decided
  BY <1>1, <1>4, <1>6 DEF Decided, PoolInvariant, WindowKept
<1> QED BY <1>1, <1>3, <1>4, <1>5, <1>6, <1>7

\* One picture is decided, or two when the first has an overlay; only an intra picture is
\* to be delayed.
LEMMA DecideAppends ==
    ASSUME PoolInvariant, Decide, NEW p, p = Picture(Head(gops), idx)
    PROVE  /\ Sequence(decided')
           /\ \/ Len(decided') = Len(decided) + 1
              \/ stream.overlays /\ p.type = "inter" /\ Len(decided') = Len(decided) + 2
           /\ \A k \in DOMAIN decided' :
                 /\ "delayed" \in DOMAIN decided'[k]
                 /\ decided'[k].delayed =>
                       \/ k <= Len(decided) /\ decided[k].delayed
                       \/ k = Len(decided) + 1 /\ p.type # "inter" /\ Len(decided') = Len(decided) + 1
<1>1. PICK d, o, overlaid :
        /\ overlaid \in BOOLEAN
        /\ "delayed" \in DOMAIN d /\ (d.delayed => p.type # "inter")
        /\ "delayed" \in DOMAIN o /\ ~o.delayed
        /\ overlaid => stream.overlays /\ p.type = "inter"
        /\ decided' = IF overlaid THEN Append(HideAltRef(Append(decided, d)), o) ELSE Append(decided, d)
  <2>a. \E g \in {Head(gops)} : \E q \in {Picture(g, idx)} : \E t, entry, refs, display, after :
          decided' = WithOverlay(Append(decided, Decision(g, idx, q, entry, refs, display, t)),
                                 g, q, entry, after)
    BY SMT DEF Decide
  <2>1. PICK g, t, entry, refs, display, after :
          decided' = WithOverlay(Append(decided, Decision(g, idx, p, entry, refs, display, t)),
                                 g, p, entry, after)
    BY <2>a
  <2>2. PICK d, o : d = Decision(g, idx, p, entry, refs, display, t) /\ o = Overlay(g, p.pic, after)
    OBVIOUS
  <2>3. "delayed" \in DOMAIN d /\ d.delayed = IsDelayed(g, p)
    BY <2>2 DEF Decision
  <2>4. IsDelayed(g, p) => p.type # "inter"
    BY DEF IsDelayed
  <2>5. "delayed" \in DOMAIN o /\ o.delayed = FALSE
    BY <2>2 DEF Overlay
  <2>6. PICK overlaid \in BOOLEAN : overlaid = (stream.overlays /\ entry.layer = 0 /\ p.type = "inter")
    BY Zenon
  <2>7. decided' = IF overlaid THEN Append(HideAltRef(Append(decided, d)), o) ELSE Append(decided, d)
    BY <2>1, <2>2, <2>6, Zenon DEF WithOverlay
  <2> QED BY <2>3, <2>4, <2>5, <2>6, <2>7
<1>2. /\ Sequence(decided)
      /\ \A k \in DOMAIN decided : "delayed" \in DOMAIN decided[k]
  BY DEF PoolInvariant, DelayedIsLast
<1>3. PICK pictures : pictures = Append(decided, d)
  OBVIOUS
<1>4. /\ Sequence(pictures)
      /\ Len(decided) \in Nat /\ Len(pictures) = Len(decided) + 1 /\ DOMAIN pictures = 1 .. Len(decided) + 1
      /\ DOMAIN decided = 1 .. Len(decided)
      /\ \A k \in 1 .. Len(decided) : pictures[k] = decided[k]
      /\ pictures[Len(decided) + 1] = d
  BY <1>2, <1>3, AppendIsSequence
<1>5. ASSUME NEW k \in DOMAIN pictures
      PROVE  /\ "delayed" \in DOMAIN pictures[k]
             /\ pictures[k].delayed =>
                   \/ k <= Len(decided) /\ decided[k].delayed
                   \/ k = Len(decided) + 1 /\ p.type # "inter"
  <2>1. CASE k \in 1 .. Len(decided)
    BY <1>2, <1>4, <2>1
  <2>2. CASE k = Len(decided) + 1
    BY <1>1, <1>4, <2>2
  <2> QED BY <1>4, <2>1, <2>2
<1>6. CASE ~overlaid
  BY <1>1, <1>3, <1>4, <1>5, <1>6
<1>7. CASE overlaid
  <2>1. PICK hidden : hidden = HideAltRef(pictures)
    OBVIOUS
  <2>2. hidden = [k \in 1 .. Len(decided) + 1 |-> hidden[k]]
    BY <1>4, <2>1 DEF HideAltRef
  <2>3. ASSUME NEW k \in 1 .. Len(decided) + 1
        PROVE  "delayed" \in DOMAIN hidden[k] /\ hidden[k].delayed = pictures[k].delayed
    <3>1. \/ hidden[k] = [pictures[k] EXCEPT !.show = FALSE]
          \/ hidden[k] = [pictures[k] EXCEPT !.existing = None]
          \/ hidden[k] = pictures[k]
      BY <1>4, <2>1 DEF HideAltRef
    <3>2. "delayed" \in DOMAIN pictures[k]
      BY <1>4, <1>5
    <3> QED BY <3>1, <3>2
  <2>4. Sequence(hidden) /\ Len(hidden) = Len(decided) + 1
    BY <1>4, <2>2, FunctionIsSequence
  <2>5. decided' = Append(hidden, o)
    BY <1>1, <1>3, <1>7, <2>1
  <2>6. /\ Sequence(decided')
        /\ Len(decided') = Len(decided) + 2 /\ DOMAIN decided' = 1 .. Len(decided) + 2
        /\ \A k \in 1 .. Len(decided) + 1 : decided'[k] = hidden[k]
        /\ decided'[Len(decided) + 2] = o
    <3>1. /\ Sequence(Append(hidden, o))
          /\ Len(Append(hidden, o)) = Len(hidden) + 1
          /\ DOMAIN Append(hidden, o) = 1 .. Len(hidden) + 1
          /\ \A k \in 1 .. Len(hidden) : Append(hidden, o)[k] = hidden[k]
          /\ Append(hidden, o)[Len(hidden) + 1] = o
      BY <2>4, AppendIsSequence
    <3>2. Len(hidden) + 1 = Len(decided) + 2
      BY <1>4, <2>4
    <3> QED BY <2>4, <2>5, <3>1, <3>2
  <2>7. ASSUME NEW k \in DOMAIN decided'
        PROVE  /\ "delayed" \in DOMAIN decided'[k]
               /\ decided'[k].delayed => k <= Len(decided) /\ decided[k].delayed
    <3>1. CASE k \in 1 .. Len(decided) + 1
      <4>1. k \in DOMAIN pictures /\ p.type = "inter"
        BY <1>1, <1>4, <1>7, <3>1
      <4> QED BY <1>5, <2>3, <2>6, <3>1, <4>1
    <3>2. CASE k = Len(decided) + 2
      BY <1>1, <2>6, <3>2
    <3> QED BY <1>4, <2>6, <3>1, <3>2
  <2> QED BY <1>1, <1>7, <2>6, <2>7
<1> QED BY <1>6, <1>7

\* A picture takes the sets that have been taken for it, and gives back that of an overlay
\* that will not be.
LEMMA DecidePictureKept ==
    ASSUME PictureDecisionAssumption, LookAheadAssumption, PoolInvariant, DecidePicture
    PROVE  PoolInvariant'
<1>1. /\ Decide /\ gops # <<>> /\ idx < Head(gops).len /\ idx' = idx + 1
      /\ UNCHANGED <<stream, arrived, ended, buffer, gops, sent, coded>>
      /\ UNCHANGED <<taken, closed, meObjects, held>>
  BY DEF DecidePicture, Decide, coordinationVars, arrivalVars, decoderVars
<1>2. PICK p : p = Picture(Head(gops), idx)
  OBVIOUS
<1>3. /\ Sequence(decided')
      /\ \/ Len(decided') = Len(decided) + 1
         \/ stream.overlays /\ p.type = "inter" /\ Len(decided') = Len(decided) + 2
      /\ \A k \in DOMAIN decided' :
            /\ "delayed" \in DOMAIN decided'[k]
            /\ decided'[k].delayed =>
                  \/ k <= Len(decided) /\ decided[k].delayed
                  \/ k = Len(decided) + 1 /\ p.type # "inter" /\ Len(decided') = Len(decided) + 1
  BY <1>1, <1>2, DecideAppends
<1>4. /\ Head(gops) \in MiniGop /\ Place = Head(gops).first + idx /\ Place \in Nat
      /\ Place < Len(buffer) /\ Len(buffer) \in Nat
      /\ p = buffer[Place + 1] /\ p.pic = Decided
      /\ Decided = 0 => p.type # "inter"
      /\ p.type # "inter" => Place + 1 = Len(buffer)
  BY <1>1, <1>2, NextOfWindow
<1>5. /\ ParentCount \in Int /\ MeCount \in Int /\ Len(sent) \in Nat /\ Len(decided) \in Nat
      /\ SetsBefore(Decided) \in Int /\ taken \in Nat /\ Decided \in Nat /\ arrived \in Nat
      /\ idx \in Nat /\ parents \in Int
  BY TermsAreNumbers DEF PoolInvariant, StreamKept, WindowKept, Accounts
<1>6. Place' = Place + 1
  <2>1. Place' = Head(gops).first + (idx + 1) /\ Head(gops).first \in Nat
    BY <1>1, <1>4 DEF Place, MiniGop
  <2> QED BY <1>4, <1>5, <2>1
<1>7. Decided' = Decided + 1
  BY <1>1, <1>4, <1>5, <1>6 DEF Decided
<1>8. WindowKept'
  <2>1. idx' \in Nat /\ idx' <= Head(gops').len
    BY <1>1, <1>4, <1>5 DEF MiniGop
  <2> QED BY <1>1, <2>1 DEF PoolInvariant, WindowKept, Contiguous
<1>9. DelayedIsLast'
  <2>1. DOMAIN decided = 1 .. Len(decided)
    BY DEF PoolInvariant, DelayedIsLast, Sequence
  <2>2. DOMAIN decided' = 1 .. Len(decided') /\ Len(decided') \in Nat
    BY <1>3 DEF Sequence
  <2>3. ASSUME NEW k \in DOMAIN decided', decided'[k].delayed
        PROVE  k = Len(decided') /\ Place' = Len(buffer')
    <3>1. ~(k <= Len(decided) /\ decided[k].delayed)
      <4>1. k <= Len(decided) => k \in DOMAIN decided
        BY <1>5, <2>1, <2>2
      <4>2. k \in DOMAIN decided /\ decided[k].delayed => Place = Len(buffer)
        BY DEF PoolInvariant, DelayedIsLast
      <4> QED BY <1>4, <4>1, <4>2
    <3>2. k = Len(decided) + 1 /\ p.type # "inter" /\ Len(decided') = Len(decided) + 1
      BY <1>3, <2>3, <3>1
    <3> QED BY <1>1, <1>4, <1>6, <3>2
  <2>4. Sequence(sent')
    BY <1>1 DEF PoolInvariant, DelayedIsLast
  <2> QED BY <1>3, <2>3, <2>4 DEF DelayedIsLast
<1>10. StreamKept'
  BY <1>1 DEF PoolInvariant, StreamKept, AtPicture, PicturesTaken, SetsBefore
<1>11. Accounts'
  <2>1. parents' = IF stream.overlays /\ p.pic > 0 /\ ~(Len(decided') = Len(decided) + 2)
                   THEN parents + 1 ELSE parents
    BY <1>2 DEF DecidePicture, HasOverlay
  <2>2. PICK q, now, then : q = parents' /\ now = SetsBefore(Decided) /\ then = SetsBefore(Decided + 1)
    OBVIOUS
  <2>3. PICK m, n : m = Len(decided) /\ n = Len(decided')
    OBVIOUS
  <2>4. q \in Int /\ now \in Int /\ then \in Int /\ m \in Int /\ n \in Int
    <3>1. then \in Int
      BY <1>5, <2>2 DEF SetsBefore
    <3>2. m \in Int /\ n \in Int
      BY <1>3, <1>5, <2>3
    <3> QED BY <1>5, <2>1, <2>2, <3>1, <3>2
  <2>5. q - parents = then - now - (n - m)
    <3>1. CASE ~stream.overlays
      <4>1. then = now + 1
        BY <1>5, <2>2, <3>1 DEF SetsBefore
      <4>2. n = m + 1 /\ q = parents
        BY <1>3, <2>1, <2>2, <2>3, <3>1
      <4> QED BY <1>5, <2>4, <4>1, <4>2
    <3>2. CASE stream.overlays /\ Decided = 0
      <4>1. then = now + 1
        BY <2>2, <3>2 DEF SetsBefore
      <4>2. n = m + 1 /\ q = parents
        BY <1>3, <1>4, <2>1, <2>2, <2>3, <3>2
      <4> QED BY <1>5, <2>4, <4>1, <4>2
    <3>3. CASE stream.overlays /\ Decided > 0
      <4>1. then = now + 2
        BY <1>5, <2>2, <3>3 DEF SetsBefore
      <4>2. CASE n = m + 1
        <5>1. q = parents + 1
          BY <1>4, <1>5, <2>1, <2>2, <2>3, <3>3, <4>2
        <5> QED BY <1>5, <2>4, <4>1, <4>2, <5>1
      <4>3. CASE n = m + 2
        <5>1. q = parents
          BY <2>1, <2>2, <2>3, <4>3
        <5> QED BY <1>5, <2>4, <4>1, <4>3, <5>1
      <4> QED BY <1>3, <2>3, <4>2, <4>3
    <3> QED BY <1>5, <3>1, <3>2, <3>3
  <2>6. PICK c \in Int, s \in Int, size \in Int, old \in Int, t \in Int :
            /\ c = (IF closed THEN 1 ELSE 0) /\ s = Len(sent) /\ size = ParentCount
            /\ old = parents /\ t = taken
    BY <1>5
  <2>7. old = size - t - c + now - s - m
    BY <2>2, <2>3, <2>6 DEF PoolInvariant, Accounts
  <2>8. q = size - t - c + then - s - n
    BY <2>4, <2>5, <2>6, <2>7
  <2>9. SetsBefore(Decided)' = then
    BY <1>1, <1>7, <2>2 DEF SetsBefore
  <2>10. ParentCount' = ParentCount /\ MeCount' = MeCount
    BY <1>1, PoolsStay
  <2>11. parents' = ParentCount' - taken' - (IF closed' THEN 1 ELSE 0) + SetsBefore(Decided)'
                    - Len(sent') - Len(decided')
    BY <1>1, <2>2, <2>3, <2>6, <2>8, <2>9, <2>10
  <2>12. meObjects' \in Int /\ meObjects' = MeCount' - Len(sent') + HeldWithoutMe'
    BY <1>1, <2>10 DEF PoolInvariant, Accounts, HeldWithoutMe
  <2> QED BY <2>2, <2>4, <2>11, <2>12 DEF Accounts
<1> QED BY <1>8, <1>9, <1>10, <1>11 DEF PoolInvariant

\* How many motion estimation objects a mini-GOP takes.
LEMMA ObjectsNeeded ==
    ASSUME PoolInvariant, gops # <<>>, NEW waits, waits = {k \in DOMAIN decided : decided[k].delayed}
    PROVE  /\ Len(decided) \in Nat
           /\ waits = {} \/ waits = {Len(decided)}
           /\ Cardinality({k \in DOMAIN decided : ~decided[k].delayed})
                 = Len(decided) - (IF waits = {} THEN 0 ELSE 1)
<1>1. DOMAIN decided = 1 .. Len(decided) /\ Len(decided) \in Nat
  BY DEF PoolInvariant, DelayedIsLast, Sequence
<1>2. \A k \in waits : k \in DOMAIN decided /\ k = Len(decided)
  BY DEF PoolInvariant, DelayedIsLast
<1>3. waits = {} \/ waits = {Len(decided)}
  BY <1>2
<1>4. IsFiniteSet(1 .. Len(decided)) /\ Cardinality(1 .. Len(decided)) = Len(decided)
  BY <1>1, FS_Interval
<1>5. CASE waits = {}
  <2>1. {k \in DOMAIN decided : ~decided[k].delayed} = 1 .. Len(decided)
    BY <1>1, <1>5
  <2>2. Cardinality({k \in DOMAIN decided : ~decided[k].delayed}) = Len(decided)
    BY <1>4, <2>1
  <2> QED BY <1>1, <1>5, <2>2
<1>6. CASE waits = {Len(decided)}
  <2>1. {k \in DOMAIN decided : ~decided[k].delayed} = (1 .. Len(decided)) \ {Len(decided)}
    BY <1>1, <1>6
  <2>2. Len(decided) \in 1 .. Len(decided)
    BY <1>1, <1>2, <1>6
  <2>3. Cardinality((1 .. Len(decided)) \ {Len(decided)}) = Len(decided) - 1
    BY <1>4, <2>2, FS_RemoveElement
  <2> QED BY <1>1, <1>3, <1>6, <2>1, <2>3
<1> QED BY <1>3, <1>5, <1>6

\* Sorting and numbering keep the number of the pictures.
LEMMA SortedIsFunction ==
    ASSUME NEW pictures
    PROVE  Sorted(pictures) = [k \in DOMAIN pictures |-> Sorted(pictures)[k]]
<1> DEFINE places == DOMAIN pictures
           before == [k \in places |->
                        {j \in places : \/ pictures[j].order < pictures[k].order
                                        \/ pictures[j].order = pictures[k].order /\ j < k}]
           at(k) == pictures[CHOOSE j \in places : Cardinality(before[j]) = k - 1]
<1>1. Sorted(pictures) = [k \in places |-> at(k)]
  BY Zenon DEF Sorted
<1> HIDE DEF before, at
<1> QED BY <1>1

LEMMA NumberedIsFunction ==
    ASSUME NEW pictures
    PROVE  Numbered(pictures) = [k \in 1 .. Len(pictures) |-> Numbered(pictures)[k]]
<1> DEFINE number(k, id, size) == [pictures[k] EXCEPT !.mg = id, !.mgSize = size]
           at(k) == CASE ~LastApart(pictures)  -> number(k, progress, Len(pictures))
                      [] k = Len(pictures)     -> number(k, progress + 1, 1)
                      [] OTHER                 -> number(k, progress, Len(pictures) - 1)
<1>1. Numbered(pictures) = [k \in 1 .. Len(pictures) |-> at(k)]
  BY Zenon DEF Numbered
<1> HIDE DEF number, at
<1> QED BY <1>1

\* A mini-GOP goes on with its motion estimation objects; a delayed picture gets its own
\* with the next one.
LEMMA SendMiniGopKept ==
    ASSUME PictureDecisionAssumption, LookAheadAssumption, PoolInvariant, SendMiniGop
    PROVE  PoolInvariant'
<1>1. /\ Send /\ gops # <<>> /\ idx = Head(gops).len /\ gops' = Tail(gops) /\ idx' = 0
      /\ decided' = <<>> /\ buffer' = IF Len(gops) = 1 THEN <<>> ELSE buffer
      /\ UNCHANGED <<stream, arrived, ended, coded>> /\ UNCHANGED <<taken, closed, parents>>
  BY DEF SendMiniGop, Send, coordinationVars, decoderVars
<1>2. meObjects' = meObjects - MeNeeded
  BY DEF SendMiniGop
<1>3. PICK waits : waits = {k \in DOMAIN decided : decided[k].delayed}
  OBVIOUS
<1>4. held' = IF waits = {} THEN <<>> ELSE <<[order |-> decided[Max(waits)].order, hasMe |-> TplStored]>>
  BY <1>3 DEF SendMiniGop
<1>5. /\ Len(decided) \in Nat
      /\ waits = {} \/ waits = {Len(decided)}
      /\ Cardinality({k \in DOMAIN decided : ~decided[k].delayed})
            = Len(decided) - (IF waits = {} THEN 0 ELSE 1)
  BY <1>1, <1>3, ObjectsNeeded
<1>6. /\ ParentCount \in Int /\ MeCount \in Int /\ Len(sent) \in Nat /\ Len(buffer) \in Nat
      /\ SetsBefore(Decided) \in Int /\ taken \in Nat /\ Decided \in Nat /\ arrived \in Nat
      /\ parents \in Int /\ meObjects \in Int
  BY TermsAreNumbers DEF PoolInvariant, StreamKept, WindowKept, Accounts
<1>7. Sequence(sent') /\ Len(sent') = Len(sent) + Len(decided)
  <2>1. PICK sorted : sorted = Sorted(decided) /\ sent' = sent \o Numbered(sorted)
    BY <1>1 DEF Send
  <2>2. DOMAIN decided = 1 .. Len(decided)
    BY DEF PoolInvariant, DelayedIsLast, Sequence
  <2>3. sorted = [k \in 1 .. Len(decided) |-> sorted[k]]
    BY <1>5, <2>1, <2>2, SortedIsFunction
  <2>4. Len(sorted) = Len(decided)
    BY <1>5, <2>3, FunctionIsSequence
  <2>5. PICK numbered : numbered = Numbered(sorted)
    OBVIOUS
  <2>6. numbered = [k \in 1 .. Len(decided) |-> numbered[k]]
    BY <2>4, <2>5, NumberedIsFunction
  <2>7. Sequence(numbered) /\ Len(numbered) = Len(decided)
    BY <1>5, <2>6, FunctionIsSequence
  <2>8. Sequence(sent)
    BY DEF PoolInvariant, DelayedIsLast
  <2>9. Sequence(sent \o numbered) /\ Len(sent \o numbered) = Len(sent) + Len(numbered)
    BY <2>7, <2>8, ConcatenationIsSequence
  <2> QED BY <2>1, <2>5, <2>7, <2>9
<1>8. /\ gops \in Seq(MiniGop) /\ DOMAIN gops = 1 .. Len(gops) /\ Len(gops) \in Nat \ {0}
      /\ Head(gops) = gops[1] /\ gops[1] \in MiniGop
      /\ \A n \in DOMAIN gops :
            /\ gops[n].first + gops[n].len <= Len(buffer)
            /\ IF n = Len(gops) THEN gops[n].first + gops[n].len = Len(buffer)
               ELSE gops[n].first + gops[n].len = gops[n + 1].first
  <2>1. Contiguous(gops, Len(buffer))
    BY <1>1 DEF PoolInvariant, WindowKept
  <2> QED BY <2>1 DEF Contiguous
<1>9. Place = Head(gops).first + Head(gops).len
  BY <1>1 DEF Place
<1>10. /\ gops' \in Seq(MiniGop) /\ Len(gops') = Len(gops) - 1 /\ DOMAIN gops' = 1 .. Len(gops) - 1
       /\ \A n \in 1 .. Len(gops) - 1 : gops'[n] = gops[n + 1]
  BY <1>1, <1>8, HeadTailProperties
<1>11. ASSUME Len(gops) = 1
       PROVE  WindowKept' /\ Decided' = Decided
  <2>1. gops' = <<>> /\ buffer' = <<>> /\ Len(buffer') = 0
    BY <1>1, <1>8, <1>10, <1>11
  <2>2. Place = Len(buffer) /\ Place' = 0
    BY <1>8, <1>9, <1>11, <2>1 DEF Place
  <2>3. Decided' = Decided
    BY <1>1, <1>6, <2>1, <2>2 DEF Decided
  <2>4. WindowKept'
    <3>1. buffer' \in Seq(Arrival) /\ DOMAIN buffer' = {}
      BY <2>1
    <3>2. stream' \in Streams /\ arrived' \in Nat /\ idx' \in Nat /\ Len(buffer') <= arrived'
      BY <1>1, <1>6, <2>1 DEF PoolInvariant, WindowKept
    <3> QED BY <1>1, <2>1, <3>1, <3>2 DEF WindowKept
  <2> QED BY <2>3, <2>4
<1>12. ASSUME Len(gops) # 1
       PROVE  WindowKept' /\ Decided' = Decided
  <2>1. gops' # <<>> /\ buffer' = buffer /\ Head(gops') = gops[2] /\ gops[2] \in MiniGop
    BY <1>1, <1>8, <1>10, <1>12
  <2>2. Place = gops[2].first
    BY <1>8, <1>9, <1>12
  <2>3. Place' = gops[2].first + 0
    BY <1>1, <2>1 DEF Place
  <2>4. gops[2].first \in Nat /\ gops[2].len \in Nat
    BY <2>1 DEF MiniGop
  <2>5. Decided' = Decided
    BY <1>1, <2>1, <2>2, <2>3, <2>4 DEF Decided
  <2>6. Contiguous(gops', Len(buffer'))
    <3>1. ASSUME NEW n \in DOMAIN gops'
          PROVE  /\ gops'[n].first + gops'[n].len <= Len(buffer')
                 /\ IF n = Len(gops') THEN gops'[n].first + gops'[n].len = Len(buffer')
                    ELSE gops'[n].first + gops'[n].len = gops'[n + 1].first
      <4>1. gops'[n] = gops[n + 1] /\ n + 1 \in DOMAIN gops /\ (n = Len(gops') <=> n + 1 = Len(gops))
        BY <1>8, <1>10
      <4>2. n # Len(gops') => gops'[n + 1] = gops[(n + 1) + 1]
        BY <1>8, <1>10
      <4> QED BY <1>8, <2>1, <4>1, <4>2
    <3> QED BY <1>10, <2>1, <3>1 DEF Contiguous
  <2>7. WindowKept'
    <3>1. stream' \in Streams /\ arrived' \in Nat /\ idx' \in Nat /\ Len(buffer') <= arrived'
      BY <1>1, <2>1 DEF PoolInvariant, WindowKept
    <3>2. idx' <= Head(gops').len
      BY <1>1, <2>1, <2>4
    <3>3. /\ buffer' \in Seq(Arrival)
          /\ \A i \in DOMAIN buffer' :
                /\ buffer'[i].pic = arrived' - Len(buffer') + i - 1
                /\ buffer'[i].pic = 0 => buffer'[i].type = "key"
                /\ i < Len(buffer') \/ gops' = <<>> => buffer'[i].type = "inter"
      BY <1>1, <2>1 DEF PoolInvariant, WindowKept
    <3> QED BY <2>1, <2>6, <3>1, <3>2, <3>3 DEF WindowKept, Contiguous
  <2> QED BY <2>5, <2>7
<1>13. WindowKept' /\ Decided' = Decided
  BY <1>11, <1>12
<1>14. DelayedIsLast'
  <2>1. Sequence(<<>>) /\ DOMAIN <<>> = {}
    <3>1. <<>> \in Seq({})
      OBVIOUS
    <3> QED BY <3>1 DEF Sequence
  <2> QED BY <1>1, <1>7, <2>1 DEF DelayedIsLast
<1>15. StreamKept'
  BY <1>1 DEF PoolInvariant, StreamKept, AtPicture, PicturesTaken, SetsBefore
<1>16. HeldWithoutMe' = IF waits # {} /\ ~TplStored THEN 1 ELSE 0
  <2>1. CASE waits = {}
    BY <1>4, <2>1 DEF HeldWithoutMe
  <2>2. CASE waits # {}
    <3>1. held' = <<[order |-> decided[Max(waits)].order, hasMe |-> TplStored]>>
      BY <1>4, <2>2
    <3>2. held' # <<>> /\ held'[1].hasMe = TplStored
      BY <3>1
    <3> QED BY <2>2, <3>2 DEF HeldWithoutMe
  <2> QED BY <2>1, <2>2
<1>17. MeNeeded = Len(decided) + HeldWithoutMe - (IF waits # {} /\ ~TplStored THEN 1 ELSE 0)
  <2>1. HeldWithoutMe \in {0, 1} /\ (~TplStored => HeldWithoutMe = 0)
    BY DEF HeldWithoutMe, TplStored
  <2>2. MeNeeded = HeldWithoutMe + (IF TplStored THEN Len(decided)
                                    ELSE Len(decided) - (IF waits = {} THEN 0 ELSE 1))
    BY <1>5 DEF MeNeeded, HeldWithoutMe
  <2>3. CASE TplStored
    BY <1>5, <2>1, <2>2, <2>3
  <2>4. ASSUME ~TplStored
        PROVE  MeNeeded = Len(decided) + HeldWithoutMe - (IF waits # {} /\ ~TplStored THEN 1 ELSE 0)
    <3>1. HeldWithoutMe = 0
      BY <2>1, <2>4
    <3>2. CASE waits = {}
      BY <1>5, <2>2, <2>4, <3>1, <3>2
    <3>3. CASE waits # {}
      BY <1>5, <2>2, <2>4, <3>1, <3>3
    <3> QED BY <3>2, <3>3
  <2> QED BY <2>3, <2>4
<1>18. Accounts'
  <2>1. SetsBefore(Decided)' = SetsBefore(Decided)
    BY <1>1, <1>13 DEF SetsBefore
  <2>2. ParentCount' = ParentCount /\ MeCount' = MeCount
    BY <1>1, PoolsStay
  <2>3. PICK m, n, h, i, w, size :
            /\ m = Len(sent) /\ n = Len(decided) /\ h = HeldWithoutMe /\ i = meObjects /\ size = MeCount
            /\ w = IF waits # {} /\ ~TplStored THEN 1 ELSE 0
    OBVIOUS
  <2>4. m \in Int /\ n \in Int /\ h \in Int /\ i \in Int /\ w \in Int /\ size \in Int
    BY <1>5, <1>6, <2>3 DEF HeldWithoutMe
  <2>5. i = size - m + h
    BY <2>3 DEF PoolInvariant, Accounts
  <2>6. meObjects' = i - (n + h - w) /\ Len(sent') = m + n /\ HeldWithoutMe' = w
    BY <1>2, <1>7, <1>16, <1>17, <2>3
  <2>7. i - (n + h - w) = size - (m + n) + w
    BY <2>4, <2>5
  <2>8. meObjects' = MeCount' - Len(sent') + HeldWithoutMe' /\ meObjects' \in Int
    BY <2>2, <2>3, <2>4, <2>6, <2>7
  <2>9. PICK c, t, sets, p, all : /\ c = (IF closed THEN 1 ELSE 0) /\ t = taken /\ all = ParentCount
                                 /\ sets = SetsBefore(Decided) /\ p = parents
    OBVIOUS
  <2>10. c \in Int /\ t \in Int /\ sets \in Int /\ p \in Int /\ all \in Int
    BY <1>6, <2>9
  <2>11. p = all - t - c + sets - m - n
    BY <2>3, <2>9 DEF PoolInvariant, Accounts
  <2>12. p = all - t - c + sets - (m + n) - 0
    BY <2>4, <2>10, <2>11
  <2>13. Len(decided') = 0
    BY <1>1
  <2>14. parents' = ParentCount' - taken' - (IF closed' THEN 1 ELSE 0) + SetsBefore(Decided)'
                    - Len(sent') - Len(decided')
    BY <1>1, <2>1, <2>2, <2>6, <2>9, <2>12, <2>13
  <2>15. parents' \in Int
    BY <1>1, <1>6
  <2> QED BY <2>8, <2>14, <2>15 DEF Accounts
<1> QED BY <1>13, <1>14, <1>15, <1>18 DEF PoolInvariant

-----------------------------------------------------------------------------

LEMMA PoolInvariantKept ==
    ASSUME PictureDecisionAssumption, LookAheadAssumption, PoolInvariant, [AheadNext]_<<vars, aheadVars>>
    PROVE  PoolInvariant'
<1>1. CASE TakeSet
  BY <1>1, TakeSetKept
<1>2. CASE TakeEnd
  BY <1>2, TakeEndKept
<1>3. CASE \E wish \in {"none", "key", "intra"} : PictureArrives(wish)
  BY <1>3, PictureArrivesKept
<1>4. CASE DecidePicture
  BY <1>4, DecidePictureKept
<1>5. CASE SendMiniGop
  BY <1>5, SendMiniGopKept
<1>6. CASE MeasurePicture
  <2>1. UNCHANGED <<vars, coordinationVars, parents, meObjects, held>>
    BY <1>6 DEF MeasurePicture, Measured
  <2> QED BY <2>1, LookAheadKept
<1>7. CASE AnalysePicture
  <2>1. UNCHANGED <<vars, coordinationVars, parents, meObjects, held>>
    BY <1>7 DEF AnalysePicture
  <2> QED BY <2>1, LookAheadKept
<1>8. CASE CodePicture
  BY <1>8, CodePictureKept
<1>9. CASE UNCHANGED <<vars, aheadVars>>
  <2>1. UNCHANGED <<vars, coordinationVars, parents, meObjects, held>>
    BY <1>9 DEF aheadVars
  <2> QED BY <2>1, LookAheadKept
<1> QED BY <1>1, <1>2, <1>3, <1>4, <1>5, <1>6, <1>7, <1>8, <1>9 DEF AheadNext

\* Where the objects of the two pools are, in every state: the parent sets that are not
\* free are with the sets that have been taken and not decided, and with the pictures that
\* have been decided and not coded; the motion estimation objects are with the pictures
\* sent on and not coded, but for a delayed one that has none yet.
THEOREM ObjectsAreAccountedFor ==
    ASSUME PictureDecisionAssumption, LookAheadAssumption
    PROVE  AheadSpec => []PoolInvariant
<1>1. AheadInit => PoolInvariant
  BY InitHolds
<1>2. PoolInvariant /\ [AheadNext]_<<vars, aheadVars>> => PoolInvariant'
  BY PoolInvariantKept
<1> QED BY <1>1, <1>2, PTL DEF AheadSpec

\* No object is lost, and none is returned twice: when the stream is over and the last
\* picture has been coded, both pools are full again, but for the parent set of the end of
\* the stream.
THEOREM NothingIsLost ==
    ASSUME PictureDecisionAssumption, LookAheadAssumption
    PROVE  AheadSpec => [](Over => AllReturned)
<1>1. PoolInvariant => (Over => AllReturned)
  <2> SUFFICES ASSUME PoolInvariant, Over PROVE AllReturned
    OBVIOUS
  <2>1. closed /\ ended /\ gops = <<>> /\ sent = <<>> /\ held = <<>>
    BY DEF Over
  <2>2. decided = <<>> /\ buffer = <<>> /\ Place = 0 /\ arrived \in Nat
    BY <2>1 DEF PoolInvariant, WindowKept, Place
  <2>3. Len(sent) = 0 /\ Len(decided) = 0 /\ Len(buffer) = 0
    BY <2>1, <2>2
  <2>4. Decided = arrived
    BY <2>2, <2>3 DEF Decided
  <2>5. taken = SetsBefore(Decided) /\ taken \in Nat
    BY <2>1, <2>4 DEF PoolInvariant, StreamKept, AtPicture
  <2>6. HeldWithoutMe = 0
    BY <2>1 DEF HeldWithoutMe
  <2>7. ParentCount \in Int /\ MeCount \in Int
    BY TermsAreNumbers
  <2>8. parents = ParentCount - taken - 1 + taken - 0 - 0 /\ meObjects = MeCount - 0 + 0
    BY <2>1, <2>3, <2>5, <2>6 DEF PoolInvariant, Accounts
  <2> QED BY <2>5, <2>7, <2>8 DEF AllReturned
<1> QED BY <1>1, ObjectsAreAccountedFor, PTL

=============================================================================
