------------------------ MODULE PredictionStructures ------------------------
(***************************************************************************)
(* The prediction structures of the encoder and the decoded picture        *)
(* buffer slots that go with them.                                         *)
(*                                                                         *)
(* A picture is described three times in the code, and the three must      *)
(* agree:                                                                  *)
(*   - its lists in EbPredictionStructure.c give the distances to the      *)
(*     pictures it predicts from (the *Lists tables);                      *)
(*   - av1_generate_rps_info names, for the same picture, the slots of the *)
(*     decoder's buffer that its header points to (the *Slots tables);     *)
(*   - the refresh mask and the toggles say which slot each picture is     *)
(*     stored in.                                                          *)
(* PictureDecision puts the three together.  Lists and slots are indexed   *)
(* by the GOP index g of the tables: g = 0 is the last picture of a        *)
(* mini-GOP, g = i + 1 the picture of index i in it.                       *)
(***************************************************************************)
EXTENDS Integers, Sequences, FiniteSetsExt, TLC

Entry(layer, order, list0, list1) ==
  [layer |-> layer, order |-> order, list0 |-> list0, list1 |-> list1]

FlatLists == <<
  Entry(0, 0, <<1, 3, 5, 8>>, <<2, 4, 6>>)>>

TwoLevelLists == <<
  Entry(0, 0, <<2, 6, 10>>, <<4, 8>>),
  Entry(1, 1, <<1, 2, 3, 5>>, <<-1>>)>>

ThreeLevelLists == <<
  Entry(0, 0, <<4, 12>>, <<4, 8>>),
  Entry(2, 2, <<1, 3, 5>>, <<-1, -3>>),
  Entry(1, 1, <<2, 4, 6>>, <<-2>>),
  Entry(2, 3, <<1, 3, 2>>, <<-1>>)>>

FourLevelLists == <<
  Entry(0, 0, <<8, 16>>, <<8>>),
  Entry(3, 3, <<1, 3, 5, 8>>, <<-1, -3, -7>>),
  Entry(2, 2, <<2, 4, 6, 10>>, <<-2, -6>>),
  Entry(3, 4, <<1, 3, 2, 5>>, <<-1, -5>>),
  Entry(1, 1, <<4, 8, 12>>, <<-4>>),
  Entry(3, 6, <<1, 3, 5, 4>>, <<-1, -3>>),
  Entry(2, 5, <<2, 4, 6, 10>>, <<-2>>),
  Entry(3, 7, <<1, 3, 5, 6>>, <<-1>>)>>

FiveLevelLists == <<
  Entry(0, 0, <<16, 48>>, <<16, 32>>),
  Entry(4, 4, <<1, 9, 8, 17>>, <<-1, -3, -7>>),
  Entry(3, 3, <<2, 4, 10, 18>>, <<-2, -6, -14>>),
  Entry(4, 5, <<1, 3, 2, 11>>, <<-1, -5, -13>>),
  Entry(2, 2, <<4, 8, 12, 20>>, <<-4, -12>>),
  Entry(4, 7, <<1, 5, 4, 13>>, <<-1, -3, -11>>),
  Entry(3, 6, <<2, 4, 6, 14>>, <<-2, -10>>),
  Entry(4, 8, <<1, 3, 6, 7>>, <<-1, -9>>),
  Entry(1, 1, <<8, 16, 24>>, <<-8, 12, 10>>),
  Entry(4, 11, <<1, 9, 8, 17>>, <<-1, -3, -7>>),
  Entry(3, 10, <<2, 4, 10, 18>>, <<-2, -6>>),
  Entry(4, 12, <<1, 3, 2, 11>>, <<-1, -5>>),
  Entry(2, 9, <<4, 8, 12, 6>>, <<-4, 11>>),
  Entry(4, 14, <<1, 5, 4, 13>>, <<-1, -3>>),
  Entry(3, 13, <<2, 4, 6, 14>>, <<-2, 5>>),
  Entry(4, 15, <<1, 3, 6, 7>>, <<-1, 15>>)>>

SixLevelLists == <<
  Entry(0, 0, <<32, 64, 48>>, <<32>>),
  Entry(5, 5, <<1, 17, 2>>, <<-1, -3, -7>>),
  Entry(4, 4, <<2, 4, 18>>, <<-2, -6, -14>>),
  Entry(5, 6, <<1, 3, 2, 19>>, <<-1, -5, -13>>),
  Entry(3, 3, <<4, 8, 20>>, <<-4, -12, -28>>),
  Entry(5, 8, <<1, 5, 2, 21>>, <<-1, -3, -11>>),
  Entry(4, 7, <<2, 4, 6, 22>>, <<-2, -10, -26>>),
  Entry(5, 9, <<1, 3, 2, 7>>, <<-1, -9, -25>>),
  Entry(2, 2, <<8, 16, 24>>, <<-8, -24, 12>>),
  Entry(5, 12, <<1, 9, 2, 25>>, <<-1, -3, -7>>),
  Entry(4, 11, <<2, 4, 10, 26>>, <<-2, -6, -22>>),
  Entry(5, 13, <<1, 3, 2, 11>>, <<-1, -5, -21>>),
  Entry(3, 10, <<4, 8, 12, 28>>, <<-4, -20, 5>>),
  Entry(5, 15, <<1, 5, 2, 13>>, <<-1, -3, -19>>),
  Entry(4, 14, <<2, 4, 6, 14>>, <<-2, -18, 3>>),
  Entry(5, 16, <<1, 3, 2, 7>>, <<-1, -17, 15>>),
  Entry(1, 1, <<16, 32>>, <<-16, 24, 20>>),
  Entry(5, 20, <<1, 17, 2, 33>>, <<-1, -3, -7>>),
  Entry(4, 19, <<2, 4, 18, 34>>, <<-2, -6, -14>>),
  Entry(5, 21, <<1, 3, 2, 19>>, <<-1, -5, -13>>),
  Entry(3, 18, <<4, 8, 20>>, <<-4, -12>>),
  Entry(5, 23, <<1, 5, 2, 21>>, <<-1, -3, -11>>),
  Entry(4, 22, <<2, 4, 6, 22>>, <<-2, -10>>),
  Entry(5, 24, <<1, 3, 2, 7>>, <<-1, -9>>),
  Entry(2, 17, <<8, 16, 24>>, <<-8, 10, 9>>),
  Entry(5, 27, <<1, 9, 2, 25>>, <<-1, -3, -7>>),
  Entry(4, 26, <<2, 4, 10, 26>>, <<-2, -6>>),
  Entry(5, 28, <<1, 3, 2, 11>>, <<-1, -5>>),
  Entry(3, 25, <<4, 8, 12, 28>>, <<-4, 5>>),
  Entry(5, 30, <<1, 5, 2, 13>>, <<-1, -3>>),
  Entry(4, 29, <<2, 4, 6, 14>>, <<-2, 3>>),
  Entry(5, 31, <<1, 3, 2, 7>>, <<-1, 15>>)>>

ConfigArray == <<FlatLists, TwoLevelLists, ThreeLevelLists,
                 FourLevelLists, FiveLevelLists, SixLevelLists>>

Period(level) == <<1, 2, 4, 8, 16, 32>>[level + 1]

(* The lists of the tables that mrp_init_level 1 overwrites, as            *)
(* <<level, g>>.                                                           *)
TunedList0 ==
  [at \in {<<3, 1>>, <<3, 5>>, <<3, 7>>} |-> <<1, 3, 5, 2>>]
  @@ [at \in {<<4, 1>>, <<4, 9>>} |-> <<1, 9, 2, 17>>]
  @@ [at \in {<<4, 5>>, <<4, 13>>} |-> <<1, 5, 2, 13>>]
  @@ [at \in {<<4, 7>>, <<4, 15>>} |-> <<1, 3, 2, 7>>]

TunedList1 == (<<4, 12>> :> <<-4, 5>>) @@ (<<4, 14>> :> <<-2, 3>>)

(* set_mrp_init_ctrls, for the levels the presets choose: how many         *)
(* references of each list are kept.                                       *)
MaxRefs == 4
RefCount(mrp) == CASE mrp = 1 -> MaxRefs [] mrp = 3 -> 2 [] mrp = 4 -> 1

FirstOf(list, n) == SubSeq(list, 1, Min({n, Len(list)}))

(* The configuration entry of one encoder: "tuned" says that the tables,   *)
(* which all encoders of the process share, have been overwritten.         *)
Config(level, mrp, tuned, g) ==
  LET e == ConfigArray[level + 1][g + 1]
      kept == IF level >= 3 /\ g = 0 THEN MaxRefs ELSE RefCount(mrp)
      list0 == IF tuned /\ <<level, g>> \in DOMAIN TunedList0
               THEN TunedList0[level, g] ELSE e.list0
      list1 == IF tuned /\ <<level, g>> \in DOMAIN TunedList1
               THEN TunedList1[level, g] ELSE e.list1
  IN [e EXCEPT !.list0 = FirstOf(list0, kept), !.list1 = FirstOf(list1, kept)]

-----------------------------------------------------------------------------
(* prediction_structure_ctor: a structure is a sequence of entries, first  *)
(* the leading pictures (random access only), then the pictures after an   *)
(* intra picture, whose lists stop at the first reference beyond it, then  *)
(* one period of complete lists, over which the position cycles.           *)

Elements(list) == {list[k] : k \in DOMAIN list}

(* The four parameters of a structure.                                     *)
Kinds == (0 .. 5) \X {1, 3, 4} \X BOOLEAN \X BOOLEAN

(* The farthest any picture of a period reaches back, in whole periods.    *)
MaximumExtents ==
  [kind \in Kinds |->
     LET level == kind[1]
         N == Period(level)
         distances(g) ==
           LET c == Config(level, kind[2], kind[3], g)
           IN {(IF g = 0 THEN 0 ELSE N - g) + d :
                 d \in Elements(c.list0) \cup (IF kind[4] THEN Elements(c.list1) ELSE {})}
     IN ((Max(UNION {distances(g) : g \in 0 .. N - 1}) + N - 1) \div N) * N]

MaximumExtent(level, mrp, tuned, ra) == MaximumExtents[level, mrp, tuned, ra]

LeadingCount(level, ra) == IF ra THEN Period(level) - 1 ELSE 0

InitIndex(level, ra) == LeadingCount(level, ra)

SteadyIndex(level, mrp, tuned, ra) ==
  InitIndex(level, ra) + MaximumExtent(level, mrp, tuned, ra) - Period(level) + 1

EntryCount(level, mrp, tuned, ra) ==
  SteadyIndex(level, mrp, tuned, ra) + Period(level)

(* The prefix of a list that does not reach back past the intra picture    *)
(* "since" pictures ago.                                                   *)
Reachable(list, since) ==
  FirstOf(list, Max({n \in 0 .. Len(list) : \A k \in 1 .. n : list[k] <= since}))

StructureEntry(level, mrp, tuned, ra, position) ==
  LET since == position - InitIndex(level, ra)
      steady == position >= SteadyIndex(level, mrp, tuned, ra)
      c == Config(level, mrp, tuned, (since + Period(level)) % Period(level))
      inReach(list) == IF steady THEN list ELSE Reachable(list, since)
  IN IF since < 0
     THEN [c EXCEPT !.list0 = c.list1, !.list1 = <<>>]
     ELSE IF ra
          THEN [c EXCEPT !.list0 = inReach(c.list0), !.list1 = inReach(c.list1)]
          ELSE [c EXCEPT !.list0 = FirstOf(inReach(c.list0), 3), !.list1 = <<>>]

(* is_referenced: some picture up to two maximum extents after the steady  *)
(* state began predicts from the entry.                                    *)
ReferencedBy(level, mrp, tuned, ra) ==
  LET count == EntryCount(level, mrp, tuned, ra)
      steady == SteadyIndex(level, mrp, tuned, ra)
      entry(p) == StructureEntry(level, mrp, tuned, ra,
                    IF p < count THEN p ELSE steady + ((p - steady) % Period(level)))
      distances(p) == Elements(entry(p).list0) \cup Elements(entry(p).list1)
  IN UNION {{p - d : d \in distances(p)} :
              p \in 0 .. steady + 2 * MaximumExtent(level, mrp, tuned, ra)}

ReferencedEntries ==
  UNION {{<<kind, p>> : p \in ReferencedBy(kind[1], kind[2], kind[3], kind[4])} : kind \in Kinds}

IsReferenced(level, mrp, tuned, ra, position) ==
  <<<<level, mrp, tuned, ra>>, position>> \in ReferencedEntries

-----------------------------------------------------------------------------
(* The slots of the headers.  Each table has one sequence per temporal     *)
(* layer, with one row per picture of that layer in display order; a row   *)
(* names the slots of LAST, LAST2, LAST3, GOLD, BWD, ALT2 and ALT.  A name *)
(* that stands a second time in list 0 (1..4) or list 1 (5..7) is one the  *)
(* code copies from the first.                                             *)

FlatSlots == <<
  <<<<"base0", "base2", "base4", "base7", "base1", "base3", "base5">>>>>>

TwoLevelSlots == <<
  <<<<"base_off2", "base_off6", "base_off0", "base_off2", "base_off4", "base_off8", "base_off2">>>>,
  <<<<"base_off2", "lay1_off2", "base_off4", "base_off6", "base_off0", "base_off0", "base_off0">>>>>>

ThreeLevelSlots == <<
  <<<<"base1", "base2", "base1", "base1", "base1", "base0", "base1">>>>,
  <<<<"base1", "lay1_0", "base0", "base1", "base2", "base2", "base2">>>>,
  <<<<"base1", "lay1_0", "base0", "base1", "lay1_1", "base2", "lay1_1">>,
     <<"lay1_1", "base1", "lay2", "lay1_1", "base2", "base2", "base2">>>>>>

FourLevelSlots == <<
  <<<<"base1", "base0", "base1", "base1", "base1", "base1", "base1">>>>,
  <<<<"base1", "lay1_0", "base0", "base1", "base2", "base2", "base2">>>>,
  <<<<"base1", "lay2_0", "lay1_0", "base0", "lay1_1", "base2", "lay1_1">>,
     <<"lay1_1", "lay2_0", "base1", "lay1_0", "base2", "base2", "base2">>>>,
  <<<<"base1", "lay2_0", "lay1_0", "lay3", "lay2_1", "lay1_1", "base2">>,
     <<"lay2_1", "base1", "lay3", "lay2_0", "lay1_1", "base2", "lay1_1">>,
     <<"lay1_1", "lay2_0", "base1", "lay3", "lay2_1", "base2", "lay2_1">>,
     <<"lay2_1", "lay1_1", "lay2_0", "lay3", "base2", "base2", "base2">>>>>>

FiveLevelSlots == <<
  <<<<"base1", "base2", "base1", "base1", "base1", "base0", "base1">>>>,
  <<<<"base1", "lay1_0", "base0", "base1", "base2", "lay2_1", "lay3">>>>,
  <<<<"base1", "lay2_1", "lay1_0", "base0", "lay1_1", "base2", "lay1_1">>,
     <<"lay1_1", "lay2_1", "base1", "lay3", "base2", "lay4", "base2">>>>,
  <<<<"base1", "lay3", "lay1_0", "base0", "lay2_1", "lay1_1", "base2">>,
     <<"lay2_1", "lay3", "base1", "lay1_0", "lay1_1", "base2", "lay1_1">>,
     <<"lay1_1", "lay3", "base1", "lay1_0", "lay2_1", "base2", "lay2_1">>,
     <<"lay2_1", "lay3", "lay1_1", "base1", "base2", "lay4", "base2">>>>,
  <<<<"base1", "lay1_0", "lay4", "base0", "lay3", "lay2_1", "lay1_1">>,
     <<"lay3", "base1", "lay4", "lay1_0", "lay2_1", "lay1_1", "base2">>,
     <<"lay2_1", "base1", "lay4", "lay1_0", "lay3", "lay1_1", "base2">>,
     <<"lay3", "lay2_1", "lay4", "base1", "lay1_1", "base2", "lay1_1">>,
     <<"lay1_1", "base1", "lay4", "lay1_0", "lay3", "lay2_1", "base2">>,
     <<"lay3", "lay1_1", "lay4", "base1", "lay2_1", "base2", "lay2_1">>,
     <<"lay2_1", "lay1_1", "lay4", "base1", "lay3", "base2", "lay3">>,
     <<"lay3", "lay2_1", "lay4", "lay1_1", "base2", "base1", "base2">>>>>>

SixLevelSlots == <<
  <<<<"base1", "base2", "lay1_0", "base1", "base1", "base1", "base1">>>>,
  <<<<"base1", "lay1_0", "base1", "base1", "base2", "lay2", "lay3">>>>,
  <<<<"base1", "lay2", "lay1_0", "base1", "lay1_1", "base2", "lay3">>,
     <<"lay1_1", "lay2", "base1", "lay1_1", "base2", "lay4", "lay5">>>>,
  <<<<"base1", "lay3", "lay1_0", "base1", "lay2", "lay1_1", "base2">>,
     <<"lay2", "lay3", "base1", "lay1_0", "lay1_1", "base2", "lay5">>,
     <<"lay1_1", "lay3", "base1", "lay1_1", "lay2", "base2", "lay2">>,
     <<"lay2", "lay3", "lay1_1", "base1", "base2", "lay5", "base2">>>>,
  <<<<"base1", "lay4", "lay1_0", "base1", "lay3", "lay2", "lay1_1">>,
     <<"lay3", "lay4", "base1", "lay1_0", "lay2", "lay1_1", "base2">>,
     <<"lay2", "lay4", "base1", "lay1_0", "lay3", "lay1_1", "base2">>,
     <<"lay3", "lay4", "lay2", "base1", "lay1_1", "base2", "lay5">>,
     <<"lay1_1", "lay4", "base1", "lay1_0", "lay3", "lay2", "base2">>,
     <<"lay3", "lay4", "lay1_1", "base1", "lay2", "base2", "lay2">>,
     <<"lay2", "lay4", "lay1_1", "base1", "lay3", "base2", "lay3">>,
     <<"lay3", "lay4", "lay2", "lay1_1", "base2", "lay5", "base2">>>>,
  <<<<"base1", "lay1_0", "lay5", "base1", "lay4", "lay3", "lay2">>,
     <<"lay4", "base1", "lay5", "lay1_0", "lay3", "lay2", "lay1_1">>,
     <<"lay3", "base1", "lay5", "lay1_0", "lay4", "lay2", "lay1_1">>,
     <<"lay4", "lay3", "lay5", "base1", "lay2", "lay1_1", "base2">>,
     <<"lay2", "base1", "lay5", "lay1_0", "lay4", "lay3", "lay1_1">>,
     <<"lay4", "lay2", "lay5", "base1", "lay3", "lay1_1", "base2">>,
     <<"lay3", "lay2", "lay5", "base1", "lay4", "lay1_1", "base2">>,
     <<"lay4", "lay3", "lay5", "lay2", "lay1_1", "base2", "base1">>,
     <<"lay1_1", "base1", "lay5", "lay1_0", "lay4", "lay3", "lay2">>,
     <<"lay4", "lay1_1", "lay5", "base1", "lay3", "lay2", "base2">>,
     <<"lay3", "lay1_1", "lay5", "base1", "lay4", "lay2", "base2">>,
     <<"lay4", "lay3", "lay5", "lay1_1", "lay2", "base2", "lay2">>,
     <<"lay2", "lay1_1", "lay5", "base1", "lay4", "lay3", "base2">>,
     <<"lay4", "lay2", "lay5", "lay1_1", "lay3", "base2", "lay3">>,
     <<"lay3", "lay2", "lay5", "lay1_1", "lay4", "base2", "lay4">>,
     <<"lay4", "lay3", "lay5", "lay2", "base2", "lay1_1", "base2">>>>>>

SlotTables == <<FlatSlots, TwoLevelSlots, ThreeLevelSlots,
                FourLevelSlots, FiveLevelSlots, SixLevelSlots>>

(* The row for a picture of a temporal layer at index i of its mini-GOP.   *)
(* In layers 0 and 1 the code looks at the layer only.                     *)
SlotRow(level, layer, i) ==
  LET rows == SlotTables[level + 1][layer + 1]
  IN IF layer <= 1 THEN rows[1]
     ELSE rows[(i + 1) \div (2 ^ (level - layer + 1)) + 1]

(* The same row's GOP index, the gop_i of the code.                        *)
GopIndex(level, layer, i) ==
  CASE layer = 0 -> 0
    [] layer = 1 -> Period(level) \div 2
    [] OTHER     -> i + 1

Lay1Off == 3
Lay2Off == 5
Lay3Off == 6
Lay4Off == 7
Lay5Off == 2

(* The slot a name stands for: t is the toggle of layer 0, t1 that of      *)
(* layer 1, i the index in the mini-GOP.                                   *)
FlatSlot(t) ==
  [base0 |-> (t + 7) % 8, base1 |-> (t + 6) % 8, base2 |-> (t + 5) % 8,
   base3 |-> (t + 4) % 8, base4 |-> (t + 3) % 8, base5 |-> (t + 2) % 8,
   base7 |-> t % 8]

TwoLevelSlot(t, t1) ==
  [base_off0 |-> t % 5, base_off2 |-> (t + 4) % 5, base_off4 |-> (t + 3) % 5,
   base_off6 |-> (t + 2) % 5, base_off8 |-> (t + 1) % 5,
   lay1_off2 |-> ((t1 + 2) % 3) + 5]

CircularBase(t) ==
  CASE t = 0 -> [base0 |-> 1, base1 |-> 2, base2 |-> 0]
    [] t = 1 -> [base0 |-> 2, base1 |-> 0, base2 |-> 1]
    [] OTHER -> [base0 |-> 0, base1 |-> 1, base2 |-> 2]

Layer1Slot(t1) ==
  IF t1 = 0 THEN [lay1_0 |-> Lay1Off + 1, lay1_1 |-> Lay1Off]
            ELSE [lay1_0 |-> Lay1Off, lay1_1 |-> Lay1Off + 1]

ThreeLevelSlot(t, t1) ==
  CircularBase(t) @@ Layer1Slot(t1) @@ [lay2 |-> Lay2Off]

FourLevelSlot(t, t1, i) ==
  CircularBase(t) @@ Layer1Slot(t1)
  @@ [lay2_0 |-> IF i < 4 THEN Lay2Off + 1 ELSE Lay2Off,
      lay2_1 |-> IF i < 4 THEN Lay2Off ELSE Lay2Off + 1,
      lay3 |-> 7]

FiveLevelSlot(t, t1) ==
  CircularBase(t) @@ Layer1Slot(t1)
  @@ [lay2_1 |-> Lay2Off, lay3 |-> Lay3Off, lay4 |-> Lay4Off]

SixLevelSlot(t, t1) ==
  Layer1Slot(t1)
  @@ [base1 |-> IF t = 0 THEN 1 ELSE 0, base2 |-> IF t = 0 THEN 0 ELSE 1,
      lay2 |-> Lay2Off, lay3 |-> Lay3Off, lay4 |-> Lay4Off, lay5 |-> Lay5Off]

SlotOf(level, t, t1, i) ==
  CASE level = 0 -> FlatSlot(t)
    [] level = 1 -> TwoLevelSlot(t, t1)
    [] level = 2 -> ThreeLevelSlot(t, t1)
    [] level = 3 -> FourLevelSlot(t, t1, i)
    [] level = 4 -> FiveLevelSlot(t, t1)
    [] level = 5 -> SixLevelSlot(t, t1)

=============================================================================
