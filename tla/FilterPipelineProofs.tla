------------------------ MODULE FilterPipelineProofs ------------------------
(***************************************************************************)
(* FilterPipeline keeps what it promises for any number of workers, slots  *)
(* and objects, and for any pictures.                                      *)
(*                                                                         *)
(* Every slot is at one stage at a time.  The stage is not a variable of   *)
(* the code: it shows in where the messages and the workers of the slot    *)
(* are, and PipelineInvariant says that there is an assignment of stages   *)
(* to slots that all of them agree with.                                   *)
(***************************************************************************)
EXTENDS FilterPipeline, FiniteSetTheorems, TLAPS

\* In a stream with one tile there is nobody to linger.
Tiling == Len(stream[1].rows)

Filtering(s) == IF s = "cdef" THEN "filtering cdef" ELSE "filtering rest"
BeforeEntropy == {"dlf", "cdef", "filtering cdef", "rest", "filtering rest"}
Phases == BeforeEntropy \cup {"ec", "packet", "pool"}

Message == [slot : Slots, part : Nat]
Job == [slot : Slots \cup {None}, part : Nat, pic : Nat, row : Nat, first : BOOLEAN, last : BOOLEAN]
Tile == [rows : Nat \ {0}, row : Nat, ready : Nat, busy : BOOLEAN, done : BOOLEAN, coded : Nat]

\* The messages a picture is split into on its way to a stage.
Amount(r, c) ==
    CASE r = "cdef" -> Pic(c).cdef [] r = "rest" -> Pic(c).rest [] r = "ec" -> Len(Pic(c).rows)
      [] r \in {"dlf", "packet"} -> 1

\* A worker is at a part of the picture, or has parts of its results still to post.
Has(w) == at[w] \in {"work", "rows", "row", "code", "finish"}
Posts(w) == at[w] = "post" /\ left[w] > 0
Passes(w) == at[w] = "rows" /\ job[w].last
TileOf(w) == tile[job[w].slot][job[w].part]
Untouched(t) == t.row = 0 /\ t.ready = 0 /\ ~t.busy /\ ~t.done /\ t.coded = 0

Types ==
    /\ stream \in Streams /\ started \in 0 .. Len(stream)
    /\ picture \in [Slots -> Nat]
    /\ free \in [Resources -> Nat] /\ queue \in [Resources -> Seq(Message)]
    /\ at \in [Workers -> Places] /\ job \in [Workers -> Job] /\ left \in [Workers -> Nat]
    /\ searched \in [Searching -> [Slots -> Nat]]
    /\ holder \in [Searching -> [Slots -> Workers \cup {None}]]
    /\ fresh \in [Slots -> BOOLEAN] /\ tile \in [Slots -> Seq(Tile)]
    /\ packets \in Seq(Nat)

\* A worker is at the places of its own stage.
WorkersInPlace ==
    \A w \in Workers :
        /\ at[w] = "idle" <=> job[w].slot = None
        /\ at[w] = "work" => w \notin Ec
        /\ at[w] = "filter" => w \in Cdef \cup Rest
        /\ at[w] \in {"rows", "row", "code", "finish"} => w \in Ec

PicturesDiffer ==
    /\ \A c \in Slots : picture[c] <= started
    /\ \A c, d \in Slots : c # d /\ picture[c] # 0 => picture[c] # picture[d]
    /\ \A i \in DOMAIN packets :
          /\ packets[i] \in 1 .. started
          /\ \A c \in Slots : packets[i] # picture[c]
          /\ \A j \in DOMAIN packets : i # j => packets[i] # packets[j]

\* The messages in a queue; no message is there twice.
Contents(q) == {q[i] : i \in DOMAIN q}
Mail(r) == Contents(queue[r])
NoRepeats(q) == \A i, j \in DOMAIN q : q[i] = q[j] => i = j
PartOf(w) == [slot |-> job[w].slot, part |-> job[w].part]

\* All that happens to a slot belongs to its one stage.
OneStage(ph) ==
    /\ \A c \in Slots : picture[c] = 0 <=> ph[c] = "pool"
    /\ \A r \in Resources : \A m \in Mail(r) : ph[m.slot] = r
    /\ \A w \in Workers :
          /\ at[w] = "work" => ph[job[w].slot] = Stage(w)
          /\ at[w] = "filter" => ph[job[w].slot] = Filtering(Stage(w))
          /\ Posts(w) => ph[job[w].slot] = Output(Stage(w))
          /\ Coding(w) => ph[job[w].slot] = "ec"
          /\ at[w] = "rows" /\ ~TileOf(w).done => ph[job[w].slot] = "ec"
          /\ Passes(w) => ph[job[w].slot] = "packet"

PartsInRange ==
    /\ \A m \in Mail("dlf") : m.part = 0
    /\ \A r \in Resources \ {"dlf"} : \A m \in Mail(r) : m.part \in 1 .. Amount(r, m.slot)
    /\ \A w \in Workers :
          /\ at[w] = "work" /\ w \in Dlf => job[w].part = 0
          /\ at[w] = "work" /\ w \notin Dlf => job[w].part \in 1 .. Amount(Stage(w), job[w].slot)
          /\ w \in Ec /\ Has(w) => job[w].part \in DOMAIN tile[job[w].slot]
          /\ Posts(w) => left[w] <= Amount(Output(Stage(w)), job[w].slot)

\* A part of a picture is in one message, or with one worker, or still to be posted.
PartsOnce ==
    /\ \A r \in Resources : NoRepeats(queue[r])
    /\ \A v, w \in Workers : v # w /\ Has(v) /\ Has(w) /\ Stage(v) = Stage(w) =>
          job[v].slot # job[w].slot \/ job[v].part # job[w].part
    /\ \A w \in Workers : Has(w) => PartOf(w) \notin Mail(Stage(w))

Posted(w) == Amount(Output(Stage(w)), job[w].slot) - left[w]

UnpostedNowhere ==
    \A w \in Workers : Posts(w) =>
        /\ \A m \in Mail(Output(Stage(w))) : m.slot = job[w].slot => m.part <= Posted(w)
        /\ \A v \in Workers : Has(v) /\ Stage(v) = Output(Stage(w)) /\ job[v].slot = job[w].slot =>
              job[v].part <= Posted(w)

\* One worker filters the picture, and one posts the results of a stage.
ActorsOnce ==
    \A v, w \in Workers : v # w /\ Stage(v) = Stage(w) /\ job[v].slot = job[w].slot =>
        /\ ~(at[v] = "filter" /\ at[w] = "filter")
        /\ ~(Posts(v) /\ Posts(w))
        /\ ~(Passes(v) /\ (Passes(w) \/ Posts(w)))

PassedOnce ==
    \A w \in Workers : Passes(w) => \A m \in Mail("packet") : m.slot # job[w].slot

\* Segments that are not counted yet.
Uncounted(s, c, p) ==
    \/ [slot |-> c, part |-> p] \in Mail(s)
    \/ \E w \in Workers : Stage(w) = s /\ at[w] = "work" /\ job[w].slot = c /\ job[w].part = p
    \/ \E w \in Workers : Output(Stage(w)) = s /\ Posts(w) /\ job[w].slot = c /\ p > Posted(w)
Outstanding(s, c) == {p \in 1 .. Amount(s, c) : Uncounted(s, c, p)}

CountsAgree(ph) ==
    /\ \A s \in Searching, c \in Slots : ph[c] = s =>
          searched[s][c] + Cardinality(Outstanding(s, c)) = Amount(s, c)
    /\ \A w \in Workers : at[w] = "filter" =>
          searched[Stage(w)][job[w].slot] = Amount(Stage(w), job[w].slot)

\* The tiles of a slot are those of its picture.
TilesMade(ph) ==
    \A c \in Slots :
        /\ tile[c] # <<>> => Len(tile[c]) = Len(stream[1].rows)
        /\ ph[c] # "pool" =>
              /\ DOMAIN tile[c] = Tiles(c)
              /\ \A k \in DOMAIN tile[c] : tile[c][k].rows = Pic(c).rows[k]

\* Nothing is coded before Entropy Coding, and all is done after it.
TilesByStage(ph) ==
    \A c \in Slots : \A k \in DOMAIN tile[c] :
        /\ ph[c] \in BeforeEntropy => Untouched(tile[c][k])
        /\ ph[c] = "packet" => tile[c][k].done

TilesCoded ==
    \A c \in Slots : \A k \in DOMAIN tile[c] :
        /\ tile[c][k].row <= tile[c][k].rows
        /\ tile[c][k].done => tile[c][k].coded = tile[c][k].rows
        /\ fresh[c] => tile[c][k].coded = 0

\* Tiles whose message nobody has taken, or that are still to be posted.
TilesWaiting ==
    /\ \A m \in Mail("ec") : Untouched(tile[m.slot][m.part])
    /\ \A w \in Rest : Posts(w) => \A k \in DOMAIN tile[job[w].slot] :
          k > Posted(w) => Untouched(tile[job[w].slot][k])

\* How a tile stands with the worker that is at it.
Agrees(w) ==
    LET t == TileOf(w)
        j == job[w]
    IN /\ at[w] = "rows" /\ j.first => Untouched(t) /\ ~j.last
       /\ at[w] = "rows" /\ ~j.first =>
             t.row = t.coded /\ t.ready = t.rows /\ (t.done <=> t.row = t.rows)
       /\ Coding(w) => t.row = j.row + 1 /\ t.ready = t.rows /\ ~t.done /\ ~j.last /\ ~j.first
       /\ at[w] \in {"row", "code"} => t.coded = j.row
       /\ at[w] = "finish" => t.coded = t.row
       /\ at[w] \in {"code", "finish"} => ~fresh[j.slot]
       /\ Coding(w) \/ ~t.done \/ j.last => picture[j.slot] = j.pic
       /\ at[w] = "rows" /\ t.done /\ Len(tile[j.slot]) = 1 => j.last

TileWithWorker == \A w \in Ec : Has(w) => Agrees(w)

Consistent(ph) ==
    /\ Types /\ WorkersInPlace /\ PicturesDiffer
    /\ OneStage(ph) /\ PartsInRange /\ PartsOnce /\ UnpostedNowhere
    /\ ActorsOnce /\ PassedOnce
    /\ CountsAgree(ph) /\ TilesMade(ph) /\ TilesByStage(ph) /\ TilesCoded /\ TilesWaiting
    /\ TileWithWorker

\* It holds until a slot comes back while a worker of its last picture lingers at a
\* tile, which with one tile per picture does not happen.
PipelineInvariant ==
    /\ Tiling = 1 => ~overtaken
    /\ ~overtaken => \E ph \in [Slots -> Phases] : Consistent(ph)

-----------------------------------------------------------------------------
(* The queues, the stages and the pictures.                                *)

\* A message at the end of a queue adds itself to the contents.
LEMMA AppendContents ==
    ASSUME NEW S, NEW q \in Seq(S), NEW m \in S
    PROVE  /\ Append(q, m) \in Seq(S)
           /\ Contents(Append(q, m)) = Contents(q) \cup {m}
           /\ NoRepeats(q) /\ m \notin Contents(q) => NoRepeats(Append(q, m))
<1>1. /\ Append(q, m) \in Seq(S)
      /\ DOMAIN Append(q, m) = 1 .. Len(q) + 1 /\ DOMAIN q = 1 .. Len(q) /\ Len(q) \in Nat
      /\ \A i \in 1 .. Len(q) : Append(q, m)[i] = q[i]
      /\ Append(q, m)[Len(q) + 1] = m
  OBVIOUS
<1>2. Contents(Append(q, m)) = Contents(q) \cup {m}
  <2>1. ASSUME NEW x \in Contents(Append(q, m)) PROVE x \in Contents(q) \cup {m}
    BY <1>1 DEF Contents
  <2>2. ASSUME NEW x \in Contents(q) \cup {m} PROVE x \in Contents(Append(q, m))
    <3>1. CASE x = m
      BY <1>1, <3>1 DEF Contents
    <3>2. CASE x \in Contents(q)
      BY <1>1, <3>2 DEF Contents
    <3> QED BY <2>2, <3>1, <3>2
  <2> QED BY <2>1, <2>2
<1>3. ASSUME NoRepeats(q), m \notin Contents(q) PROVE NoRepeats(Append(q, m))
  BY <1>1, <1>3 DEF NoRepeats, Contents
<1> QED BY <1>1, <1>2, <1>3

\* What is taken from a queue without repetitions is not in it any more.
LEMMA TailContents ==
    ASSUME NEW S, NEW q \in Seq(S), q # <<>>, NoRepeats(q)
    PROVE  /\ Head(q) \in S /\ Head(q) \in Contents(q) /\ Tail(q) \in Seq(S)
           /\ Contents(Tail(q)) = Contents(q) \ {Head(q)}
           /\ NoRepeats(Tail(q))
<1>1. /\ Len(q) \in Nat \ {0} /\ DOMAIN q = 1 .. Len(q)
      /\ Head(q) = q[1] /\ Tail(q) \in Seq(S) /\ DOMAIN Tail(q) = 1 .. Len(q) - 1
      /\ \A i \in 1 .. Len(q) - 1 : Tail(q)[i] = q[i + 1]
  OBVIOUS
<1>2. Head(q) \in S /\ Head(q) \in Contents(q)
  BY <1>1 DEF Contents
<1>3. ASSUME NEW x \in Contents(Tail(q)) PROVE x \in Contents(q) \ {Head(q)}
  <2>1. PICK i \in 1 .. Len(q) - 1 : x = q[i + 1]
    BY <1>1, <1>3 DEF Contents
  <2>2. i + 1 \in DOMAIN q /\ 1 \in DOMAIN q /\ i + 1 # 1
    BY <1>1
  <2> QED BY <1>1, <2>1, <2>2 DEF Contents, NoRepeats
<1>4. ASSUME NEW x \in Contents(q) \ {Head(q)} PROVE x \in Contents(Tail(q))
  <2>1. PICK i \in 1 .. Len(q) : x = q[i]
    BY <1>1, <1>4 DEF Contents
  <2>2. i # 1 /\ i - 1 \in 1 .. Len(q) - 1 /\ q[i] = Tail(q)[i - 1]
    BY <1>1, <1>4, <2>1
  <2> QED BY <1>1, <2>1, <2>2 DEF Contents
<1>5. NoRepeats(Tail(q))
  <2>1. SUFFICES ASSUME NEW i \in 1 .. Len(q) - 1, NEW j \in 1 .. Len(q) - 1,
                        Tail(q)[i] = Tail(q)[j]
                 PROVE  i = j
    BY <1>1 DEF NoRepeats
  <2>2. i + 1 \in DOMAIN q /\ j + 1 \in DOMAIN q /\ q[i + 1] = q[j + 1]
    BY <1>1, <2>1
  <2> QED BY <2>2 DEF NoRepeats
<1> QED BY <1>1, <1>2, <1>3, <1>4, <1>5

\* Every worker is of one stage, and leads to the next.
LEMMA StageOfWorker ==
    ASSUME FilterPipelineAssumption, NEW w \in Workers
    PROVE  /\ Stage(w) \in Stages /\ Stages \subseteq Resources
           /\ w \in Dlf <=> Stage(w) = "dlf"
           /\ w \in Cdef <=> Stage(w) = "cdef"
           /\ w \in Rest <=> Stage(w) = "rest"
           /\ w \in Ec <=> Stage(w) = "ec"
           /\ Stage(w) \in Searching <=> w \in Cdef \cup Rest
           /\ Output(Stage(w)) \in Resources
           /\ Output("dlf") = "cdef" /\ Output("cdef") = "rest"
           /\ Output("rest") = "ec" /\ Output("ec") = "packet"
BY DEF FilterPipelineAssumption, Workers, Stage, Output, Stages, Searching, Resources

\* The picture of a slot is in the stream, and every stage has parts of it.
LEMMA PictureOfSlot ==
    ASSUME FilterPipelineAssumption, Types, PicturesDiffer, NEW c \in Slots, picture[c] # 0
    PROVE  /\ Pic(c) \in Pictures /\ Pic(c).rows = stream[1].rows
           /\ picture[c] \in DOMAIN stream
           /\ \A r \in Resources : Amount(r, c) \in Nat \ {0}
           /\ \A s \in Stages : Parts(s, c) = Amount(Output(s), c)
           /\ \A s \in Searching : Total(s, c) = Amount(s, c)
           /\ Amount("packet", c) = 1 /\ Amount("ec", c) = Len(Pic(c).rows)
           /\ Tiles(c) = 1 .. Amount("ec", c)
<1>1. stream \in Seq(Pictures) /\ picture[c] \in DOMAIN stream
  BY DEF FilterPipelineAssumption, Types, PicturesDiffer
<1>2. Pic(c) \in Pictures /\ Pic(c).rows = stream[1].rows
  BY <1>1 DEF FilterPipelineAssumption, Types, Pic
<1>3. /\ Pic(c).cdef \in Nat \ {0} /\ Pic(c).rest \in Nat \ {0}
      /\ Pic(c).rows \in Seq(Nat \ {0}) /\ Pic(c).rows # <<>>
  BY <1>2 DEF Pictures
<1>4. Len(Pic(c).rows) \in Nat \ {0} /\ DOMAIN Pic(c).rows = 1 .. Len(Pic(c).rows)
  BY <1>3
<1>5. /\ Amount("dlf", c) = 1 /\ Amount("packet", c) = 1 /\ Amount("cdef", c) = Pic(c).cdef
      /\ Amount("rest", c) = Pic(c).rest /\ Amount("ec", c) = Len(Pic(c).rows)
  BY DEF Amount
<1>6. /\ Parts("dlf", c) = Pic(c).cdef /\ Parts("cdef", c) = Pic(c).rest
      /\ Parts("rest", c) = Len(Pic(c).rows) /\ Parts("ec", c) = 1
      /\ Total("cdef", c) = Pic(c).cdef /\ Total("rest", c) = Pic(c).rest
  BY DEF Parts, Total
<1>7. /\ Output("dlf") = "cdef" /\ Output("cdef") = "rest"
      /\ Output("rest") = "ec" /\ Output("ec") = "packet"
  BY DEF Output
<1>8. \A r \in Resources : Amount(r, c) \in Nat \ {0}
  BY <1>3, <1>4, <1>5 DEF Resources, Stages, Searching
<1>9. \A s \in Stages : Parts(s, c) = Amount(Output(s), c)
  BY <1>5, <1>6, <1>7 DEF Stages, Searching
<1>10. \A s \in Searching : Total(s, c) = Amount(s, c)
  BY <1>5, <1>6 DEF Searching
<1>11. Tiles(c) = 1 .. Amount("ec", c)
  BY <1>4, <1>5 DEF Tiles
<1> QED BY <1>1, <1>2, <1>5, <1>8, <1>9, <1>10, <1>11

\* What is said of a worker, and of the size of a picture, does not change unless
\* their variables do.
LEMMA SameWorker ==
    ASSUME NEW v, at'[v] = at[v], job'[v] = job[v], left'[v] = left[v],
           UNCHANGED <<stream, picture>>
    PROVE  /\ Has(v)' <=> Has(v)
           /\ Posts(v)' <=> Posts(v)
           /\ Passes(v)' <=> Passes(v)
           /\ Coding(v)' <=> Coding(v)
           /\ PartOf(v)' = PartOf(v)
           /\ Posted(v)' = Posted(v)
BY DEF Has, Posts, Passes, Coding, PartOf, Posted, Amount, Pic

\* The pictures of the slots and the parts of every picture stay what they are.
LEMMA SamePictures ==
    ASSUME UNCHANGED <<stream, picture>>
    PROVE  /\ \A r, c : Amount(r, c)' = Amount(r, c)
           /\ \A c : Pic(c)' = Pic(c) /\ Tiles(c)' = Tiles(c)
BY DEF Amount, Pic, Tiles

\* What a message or a worker says about the stage of its slot.
LEMMA SlotInUse ==
    ASSUME FilterPipelineAssumption, NEW ph \in [Slots -> Phases], Types, WorkersInPlace, OneStage(ph)
    PROVE  /\ \A r \in Resources : \A m \in Mail(r) :
                 m \in Message /\ ph[m.slot] = r /\ picture[m.slot] # 0
           /\ \A w \in Workers : at[w] # "idle" => job[w].slot \in Slots
           /\ \A w \in Workers : at[w] \in {"work", "filter"} \/ Posts(w) \/ Coding(w) \/ Passes(w)
                 => picture[job[w].slot] # 0
<1>1. ASSUME NEW r \in Resources, NEW m \in Mail(r)
      PROVE  m \in Message /\ ph[m.slot] = r /\ picture[m.slot] # 0
  <2>1. queue[r] \in Seq(Message) /\ m \in Contents(queue[r])
    BY <1>1 DEF Types, Mail
  <2>2. m \in Message
    BY <2>1 DEF Contents
  <2>3. m \in Message /\ m.slot \in Slots
    BY <2>2 DEF Message
  <2> QED BY <1>1, <2>3 DEF OneStage, Resources, Stages, Searching
<1>2. ASSUME NEW w \in Workers, at[w] # "idle"
      PROVE  job[w].slot \in Slots
  BY <1>2 DEF Types, WorkersInPlace, Job
<1>3. ASSUME NEW w \in Workers, at[w] \in {"work", "filter"} \/ Posts(w) \/ Coding(w) \/ Passes(w)
      PROVE  picture[job[w].slot] # 0
  <2>1. job[w].slot \in Slots
    BY <1>2, <1>3 DEF Posts, Coding, Passes
  <2>2. ph[job[w].slot] # "pool"
    <3>1. Stage(w) \in Resources /\ Output(Stage(w)) \in Resources /\ "pool" \notin Resources
      BY StageOfWorker DEF Resources, Stages, Searching
    <3>2. /\ at[w] = "work" => ph[job[w].slot] = Stage(w)
          /\ at[w] = "filter" => ph[job[w].slot] = Filtering(Stage(w))
          /\ Posts(w) => ph[job[w].slot] = Output(Stage(w))
          /\ Coding(w) => ph[job[w].slot] = "ec"
          /\ Passes(w) => ph[job[w].slot] = "packet"
      BY DEF OneStage
    <3>3. Filtering(Stage(w)) # "pool"
      BY DEF Filtering
    <3> QED BY <1>3, <3>1, <3>2, <3>3
  <2> QED BY <2>1, <2>2 DEF OneStage
<1> QED BY <1>1, <1>2, <1>3

-----------------------------------------------------------------------------
(* Each step keeps the invariant.                                          *)

\* A worker takes a message: the part goes from the queue to the worker.
LEMMA TakeKeeps ==
    ASSUME FilterPipelineAssumption, NEW ph \in [Slots -> Phases], Consistent(ph),
           NEW w \in Workers, Take(w)
    PROVE  Consistent(ph)'
<1> DEFINE s == Stage(w)
           m == Head(queue[s])
           c == m.slot
<1> USE DEF Consistent
<1>1. /\ s \in Resources /\ s \in Stages /\ (s = "ec" <=> w \in Ec) /\ (s = "dlf" <=> w \in Dlf)
  BY StageOfWorker
<1>2. /\ queue[s] \in Seq(Message) /\ queue[s] # <<>> /\ NoRepeats(queue[s])
      /\ m \in Mail(s) /\ Tail(queue[s]) \in Seq(Message) /\ NoRepeats(Tail(queue[s]))
      /\ Contents(Tail(queue[s])) = Mail(s) \ {m}
  BY <1>1, TailContents DEF Take, Types, PartsOnce, Mail
<1>3. /\ m \in Message /\ c \in Slots /\ ph[c] = s /\ picture[c] # 0 /\ m = [slot |-> c, part |-> m.part]
  BY <1>1, <1>2, SlotInUse DEF Message
<1>4. /\ queue' = [queue EXCEPT ![s] = Tail(@)]
      /\ stream' = stream /\ started' = started /\ picture' = picture /\ searched' = searched
      /\ holder' = holder /\ fresh' = fresh /\ tile' = tile /\ free' = free /\ left' = left
      /\ packets' = packets
      /\ job' = [job EXCEPT ![w] = [slot |-> c, part |-> m.part, pic |-> picture[c], row |-> 0,
                                    first |-> TRUE, last |-> FALSE]]
      /\ at' = [at EXCEPT ![w] = IF s = "ec" THEN "rows" ELSE "work"]
      /\ at[w] = "idle"
  BY DEF Take, GoTo, slotVars
<1>5. /\ Mail(s)' = Mail(s) \ {m} /\ NoRepeats(queue'[s])
      /\ \A r \in Resources : r # s => Mail(r)' = Mail(r)
      /\ \A r \in Resources : NoRepeats(queue'[r]) /\ Mail(r)' \subseteq Mail(r)
  BY <1>1, <1>2, <1>4 DEF Types, Mail, PartsOnce
<1>6. /\ at'[w] = (IF s = "ec" THEN "rows" ELSE "work") /\ left'[w] = left[w]
      /\ job'[w] = [slot |-> c, part |-> m.part, pic |-> picture[c], row |-> 0,
                    first |-> TRUE, last |-> FALSE]
      /\ Has(w)' /\ ~Posts(w)' /\ ~Passes(w)' /\ ~Coding(w)' /\ PartOf(w)' = m
      /\ ~Has(w) /\ ~Posts(w) /\ ~Passes(w) /\ ~Coding(w)
  BY <1>3, <1>4 DEF Types, Has, Posts, Passes, Coding, PartOf
<1>7. \A v \in Workers : v # w =>
          /\ at'[v] = at[v] /\ job'[v] = job[v] /\ left'[v] = left[v]
          /\ (Has(v)' <=> Has(v)) /\ (Posts(v)' <=> Posts(v)) /\ (Passes(v)' <=> Passes(v))
          /\ (Coding(v)' <=> Coding(v)) /\ PartOf(v)' = PartOf(v) /\ Posted(v)' = Posted(v)
          /\ TileOf(v)' = TileOf(v)
  BY <1>4, SameWorker DEF Types, TileOf
<1>8. \A r, d : Amount(r, d)' = Amount(r, d)
  BY <1>4, SamePictures
<1>9. Types'
  <2>1. queue' \in [Resources -> Seq(Message)]
    BY <1>1, <1>2, <1>4 DEF Types
  <2>2. job' \in [Workers -> Job]
    BY <1>3, <1>4 DEF Types, Job, Message
  <2>3. at' \in [Workers -> Places]
    BY <1>4 DEF Types, Places
  <2> QED BY <1>4, <2>1, <2>2, <2>3 DEF Types
<1>10. WorkersInPlace'
  <2>1. job'[w].slot # None /\ at'[w] # "idle" /\ at'[w] # "filter"
    BY <1>3, <1>6 DEF FilterPipelineAssumption
  <2>2. ASSUME NEW v \in Workers
        PROVE  /\ at'[v] = "idle" <=> job'[v].slot = None
               /\ at'[v] = "work" => v \notin Ec
               /\ at'[v] = "filter" => v \in Cdef \cup Rest
               /\ at'[v] \in {"rows", "row", "code", "finish"} => v \in Ec
    <3>1. CASE v = w
      BY <1>1, <1>6, <2>1, <3>1
    <3>2. CASE v # w
      BY <1>7, <3>2 DEF WorkersInPlace
    <3> QED BY <3>1, <3>2
  <2> QED BY <2>2 DEF WorkersInPlace
<1>11. PicturesDiffer'
  BY <1>4 DEF PicturesDiffer
<1>12. OneStage(ph)'
  <2>1. \A d \in Slots : picture'[d] = 0 <=> ph[d] = "pool"
    BY <1>4 DEF OneStage
  <2>2. \A r \in Resources : \A n \in Mail(r)' : ph[n.slot] = r
    BY <1>5 DEF OneStage
  <2>3. ASSUME NEW v \in Workers
        PROVE  /\ at'[v] = "work" => ph[job'[v].slot] = Stage(v)
               /\ at'[v] = "filter" => ph[job'[v].slot] = Filtering(Stage(v))
               /\ Posts(v)' => ph[job'[v].slot] = Output(Stage(v))
               /\ Coding(v)' => ph[job'[v].slot] = "ec"
               /\ at'[v] = "rows" /\ ~TileOf(v)'.done => ph[job'[v].slot] = "ec"
               /\ Passes(v)' => ph[job'[v].slot] = "packet"
    <3>1. CASE v = w
      BY <1>3, <1>6, <3>1
    <3>2. CASE v # w
      BY <1>7, <3>2 DEF OneStage
    <3> QED BY <3>1, <3>2
  <2> QED BY <2>1, <2>2, <2>3 DEF OneStage
<1>13. PartsInRange'
  <2>1. /\ at'[w] = "work" /\ w \in Dlf => job'[w].part = 0
        /\ at'[w] = "work" /\ w \notin Dlf => job'[w].part \in 1 .. Amount(s, c)
    BY <1>1, <1>2, <1>6 DEF PartsInRange
  <2>2. w \in Ec => job'[w].part \in DOMAIN tile'[c]
    <3>1. Tiles(c) = 1 .. Amount("ec", c)
      BY <1>3, PictureOfSlot
    <3>2. s = "ec" => m.part \in 1 .. Amount("ec", c) /\ ph[c] # "pool"
      BY <1>2, <1>3 DEF PartsInRange, Resources, Stages
    <3>3. ph[c] # "pool" => DOMAIN tile[c] = Tiles(c)
      BY <1>3 DEF TilesMade
    <3>4. tile'[c] = tile[c] /\ job'[w].part = m.part
      BY <1>4, <1>6
    <3> QED BY <1>1, <3>1, <3>2, <3>3, <3>4
  <2>3. ASSUME NEW v \in Workers
        PROVE  /\ at'[v] = "work" /\ v \in Dlf => job'[v].part = 0
               /\ at'[v] = "work" /\ v \notin Dlf => job'[v].part \in 1 .. Amount(Stage(v), job'[v].slot)
               /\ v \in Ec /\ Has(v)' => job'[v].part \in DOMAIN tile'[job'[v].slot]
               /\ Posts(v)' => left'[v] <= Amount(Output(Stage(v)), job'[v].slot)
    BY <1>4, <1>6, <1>7, <2>1, <2>2 DEF PartsInRange
  <2> QED BY <1>5, <1>8, <2>3 DEF PartsInRange, Resources, Stages
<1>14. PartsOnce'
  <2>1. \A r \in Resources : NoRepeats(queue'[r])
    BY <1>5
  <2>2. \A u, v \in Workers : u # v /\ Has(u)' /\ Has(v)' /\ Stage(u) = Stage(v) =>
            job'[u].slot # job'[v].slot \/ job'[u].part # job'[v].part
    <3>1. ASSUME NEW v \in Workers, v # w, Has(v), Stage(v) = s
          PROVE  job[v].slot # c \/ job[v].part # m.part
      BY <1>1, <1>2, <1>3, <3>1 DEF PartsOnce, PartOf
    <3> QED BY <1>6, <1>7, <3>1 DEF PartsOnce
  <2>3. \A v \in Workers : Has(v)' => PartOf(v)' \notin Mail(Stage(v))'
    BY <1>1, <1>5, <1>6, <1>7, StageOfWorker DEF PartsOnce
  <2> QED BY <2>1, <2>2, <2>3 DEF PartsOnce
<1>15. UnpostedNowhere'
  <2>1. SUFFICES ASSUME NEW v \in Workers, Posts(v)'
                 PROVE  /\ \A n \in Mail(Output(Stage(v)))' :
                              n.slot = job'[v].slot => n.part <= Posted(v)'
                        /\ \A u \in Workers : Has(u)' /\ Stage(u) = Output(Stage(v))
                                                /\ job'[u].slot = job'[v].slot =>
                              job'[u].part <= Posted(v)'
    BY DEF UnpostedNowhere
  <2>2. v # w /\ Posts(v) /\ Posted(v)' = Posted(v) /\ job'[v] = job[v]
    BY <1>6, <1>7, <2>1
  <2>3. Output(Stage(v)) \in Resources
    BY StageOfWorker
  <2>4. \A n \in Mail(Output(Stage(v))) : n.slot = job[v].slot => n.part <= Posted(v)
    BY <2>2 DEF UnpostedNowhere
  <2>5. Stage(w) = Output(Stage(v)) /\ job'[w].slot = job[v].slot => job'[w].part <= Posted(v)
    BY <1>2, <1>6, <2>4
  <2>6. \A u \in Workers : u # w /\ Has(u)' /\ Stage(u) = Output(Stage(v))
                             /\ job'[u].slot = job[v].slot => job'[u].part <= Posted(v)
    BY <1>7, <2>2 DEF UnpostedNowhere
  <2> QED BY <1>5, <2>2, <2>3, <2>4, <2>5, <2>6
<1>16. ActorsOnce'
  BY <1>6, <1>7 DEF ActorsOnce
<1>17. PassedOnce'
  BY <1>5, <1>6, <1>7 DEF PassedOnce, Resources
<1>18. CountsAgree(ph)'
  <2>1. ASSUME NEW t \in Searching, NEW d \in Slots
        PROVE  Outstanding(t, d)' = Outstanding(t, d)
    <3>1. ASSUME NEW p \in 1 .. Amount(t, d) PROVE Uncounted(t, d, p)' <=> Uncounted(t, d, p)
      <4>1. [slot |-> d, part |-> p] \in Mail(t)'
               <=> [slot |-> d, part |-> p] \in Mail(t) /\ (t = s => m # [slot |-> d, part |-> p])
        BY <1>5 DEF Resources, Stages
      <4>2. (\E v \in Workers : Stage(v) = t /\ at'[v] = "work" /\ job'[v].slot = d /\ job'[v].part = p)
               <=> \/ \E v \in Workers : Stage(v) = t /\ at[v] = "work" /\ job[v].slot = d /\ job[v].part = p
                   \/ t = s /\ m = [slot |-> d, part |-> p]
        BY <1>3, <1>4, <1>6, <1>7 DEF Searching
      <4>3. (\E v \in Workers : Output(Stage(v)) = t /\ Posts(v)' /\ job'[v].slot = d /\ p > Posted(v)')
               <=> (\E v \in Workers : Output(Stage(v)) = t /\ Posts(v) /\ job[v].slot = d /\ p > Posted(v))
        BY <1>6, <1>7
      <4> QED BY <1>2, <4>1, <4>2, <4>3 DEF Uncounted
    <3> QED BY <1>8, <3>1 DEF Outstanding
  <2> QED BY <1>4, <1>6, <1>7, <1>8, <2>1 DEF CountsAgree
<1>19. TilesMade(ph)' /\ TilesByStage(ph)' /\ TilesCoded'
  BY <1>4, SamePictures DEF TilesMade, TilesByStage, TilesCoded
<1>20. TilesWaiting'
  <2>1. Mail("ec")' \subseteq Mail("ec")
    BY <1>5 DEF Resources, Stages
  <2>2. \A v \in Rest : Posts(v)' => Posts(v) /\ Posted(v)' = Posted(v) /\ job'[v] = job[v]
    BY <1>6, <1>7 DEF Workers
  <2> QED BY <1>4, <2>1, <2>2 DEF TilesWaiting
<1>21. TileWithWorker'
  <2>1. w \in Ec => Untouched(TileOf(w)')
    <3>1. w \in Ec => Untouched(tile[m.slot][m.part])
      BY <1>1, <1>2 DEF TilesWaiting
    <3>2. TileOf(w)' = tile[m.slot][m.part]
      BY <1>4, <1>6 DEF TileOf
    <3> QED BY <3>1, <3>2
  <2>2. at'[w] # "finish" /\ at'[w] \notin {"row", "code"} /\ at'[w] \notin {"code", "finish"}
        /\ ~job'[w].last /\ job'[w].first /\ job'[w].slot = c /\ picture'[c] = job'[w].pic
    BY <1>4, <1>6
  <2>3. w \in Ec => ~TileOf(w)'.done
    BY <2>1 DEF Untouched
  <2> QED BY <1>4, <1>6, <1>7, <2>1, <2>2, <2>3 DEF TileWithWorker, Agrees, Workers
<1> QED BY <1>9, <1>10, <1>11, <1>12, <1>13, <1>14, <1>15, <1>16, <1>17, <1>18, <1>19, <1>20, <1>21

\* A worker that has posted its results lets go of the mutex and of its input.
LEMMA EndKeeps ==
    ASSUME FilterPipelineAssumption, NEW ph \in [Slots -> Phases], Consistent(ph),
           NEW w \in Workers, EndPosting(w) \/ GiveBack(w)
    PROVE  Consistent(ph)'
<1> USE DEF Consistent
<1>1. /\ stream' = stream /\ started' = started /\ picture' = picture /\ searched' = searched
      /\ fresh' = fresh /\ tile' = tile /\ queue' = queue /\ left' = left /\ packets' = packets
  BY DEF EndPosting, GiveBack, slotVars
<1>2. \/ /\ at[w] = "post" /\ left[w] = 0 /\ at' = [at EXCEPT ![w] = "release"] /\ job' = job
      \/ /\ at[w] = "release" /\ at' = [at EXCEPT ![w] = "idle"]
         /\ job' = [job EXCEPT ![w] = NoJob]
  BY DEF EndPosting, GiveBack, GoTo
<1>3. /\ ~Has(w) /\ ~Posts(w) /\ ~Passes(w) /\ ~Coding(w)
      /\ ~Has(w)' /\ ~Posts(w)' /\ ~Passes(w)' /\ ~Coding(w)'
      /\ at'[w] \in {"release", "idle"}
  BY <1>1, <1>2 DEF Types, Has, Posts, Passes, Coding
<1>4. \A v \in Workers : v # w =>
          /\ at'[v] = at[v] /\ job'[v] = job[v] /\ left'[v] = left[v]
          /\ (Has(v)' <=> Has(v)) /\ (Posts(v)' <=> Posts(v)) /\ (Passes(v)' <=> Passes(v))
          /\ (Coding(v)' <=> Coding(v)) /\ PartOf(v)' = PartOf(v) /\ Posted(v)' = Posted(v)
          /\ TileOf(v)' = TileOf(v)
  BY <1>1, <1>2, SameWorker DEF Types, TileOf
<1>5. \A r, d : Amount(r, d)' = Amount(r, d)
  BY <1>1, SamePictures
<1>6. \A r : Mail(r)' = Mail(r)
  BY <1>1 DEF Mail
<1>7. Types'
  <2>1. free' \in [Resources -> Nat]
    <3>1. Stage(w) \in Resources /\ free \in [Resources -> Nat]
      BY StageOfWorker DEF Types
    <3>2. free' = free \/ free' = [free EXCEPT ![Stage(w)] = @ + 1]
      BY DEF EndPosting, GiveBack, Release
    <3> QED BY <3>1, <3>2
  <2>2. job' \in [Workers -> Job]
    <3>1. NoJob \in Job
      BY DEF Job, NoJob
    <3> QED BY <1>2, <3>1 DEF Types
  <2>3. at' \in [Workers -> Places]
    BY <1>2 DEF Types, Places
  <2>4. holder' \in [Searching -> [Slots -> Workers \cup {None}]]
    <3>1. \/ holder' = holder
          \/ /\ Stage(w) \in Searching
             /\ holder' = [holder EXCEPT ![Stage(w)][job[w].slot] = None]
      BY DEF EndPosting, GiveBack, slotVars
    <3> DEFINE Of == [Slots -> Workers \cup {None}]
    <3>2. holder \in [Searching -> Of]
      BY DEF Types
    <3>3. Stage(w) \in Searching => [holder[Stage(w)] EXCEPT ![job[w].slot] = None] \in Of
      BY <3>2
    <3> QED BY <3>1, <3>2, <3>3
  <2> QED BY <1>1, <2>1, <2>2, <2>3, <2>4 DEF Types
<1>8. WorkersInPlace'
  BY <1>2, <1>3, <1>4 DEF WorkersInPlace, NoJob, Types
<1>9. PicturesDiffer'
  BY <1>1 DEF PicturesDiffer
<1>10. OneStage(ph)'
  BY <1>1, <1>3, <1>4, <1>6 DEF OneStage
<1>11. PartsInRange'
  <2>1. ASSUME NEW v \in Workers
        PROVE  /\ at'[v] = "work" /\ v \in Dlf => job'[v].part = 0
               /\ at'[v] = "work" /\ v \notin Dlf => job'[v].part \in 1 .. Amount(Stage(v), job'[v].slot)
               /\ v \in Ec /\ Has(v)' => job'[v].part \in DOMAIN tile'[job'[v].slot]
               /\ Posts(v)' => left'[v] <= Amount(Output(Stage(v)), job'[v].slot)
    BY <1>1, <1>3, <1>4 DEF PartsInRange
  <2> QED BY <1>5, <1>6, <2>1 DEF PartsInRange
<1>12. PartsOnce'
  <2>1. \A r \in Resources : NoRepeats(queue'[r])
    BY <1>1 DEF PartsOnce
  <2>2. \A u, v \in Workers : u # v /\ Has(u)' /\ Has(v)' /\ Stage(u) = Stage(v) =>
            job'[u].slot # job'[v].slot \/ job'[u].part # job'[v].part
    BY <1>3, <1>4 DEF PartsOnce
  <2>3. \A v \in Workers : Has(v)' => PartOf(v)' \notin Mail(Stage(v))'
    BY <1>3, <1>4, <1>6 DEF PartsOnce
  <2> QED BY <2>1, <2>2, <2>3 DEF PartsOnce
<1>13. UnpostedNowhere'
  <2>1. SUFFICES ASSUME NEW v \in Workers, Posts(v)'
                 PROVE  /\ \A m \in Mail(Output(Stage(v)))' :
                              m.slot = job'[v].slot => m.part <= Posted(v)'
                        /\ \A u \in Workers : Has(u)' /\ Stage(u) = Output(Stage(v))
                                                /\ job'[u].slot = job'[v].slot =>
                              job'[u].part <= Posted(v)'
    BY DEF UnpostedNowhere
  <2>2. v # w /\ Posts(v) /\ Posted(v)' = Posted(v) /\ job'[v] = job[v]
    BY <1>3, <1>4, <2>1
  <2> QED BY <1>3, <1>4, <1>6, <2>2 DEF UnpostedNowhere
<1>14. ActorsOnce'
  BY <1>3, <1>4 DEF ActorsOnce
<1>15. PassedOnce'
  BY <1>3, <1>4, <1>6 DEF PassedOnce
<1>16. CountsAgree(ph)'
  <2>1. ASSUME NEW t \in Searching, NEW d \in Slots
        PROVE  Outstanding(t, d)' = Outstanding(t, d)
    <3>1. ASSUME NEW p \in 1 .. Amount(t, d) PROVE Uncounted(t, d, p)' <=> Uncounted(t, d, p)
      <4>1. at[w] # "work" /\ at'[w] # "work"
        BY <1>3 DEF Has
      <4> QED BY <1>3, <1>4, <1>6, <4>1, SMTT(30) DEF Uncounted
    <3> QED BY <1>5, <3>1 DEF Outstanding
  <2> QED BY <1>1, <1>3, <1>4, <1>5, <2>1 DEF CountsAgree
<1>17. TilesMade(ph)' /\ TilesByStage(ph)' /\ TilesCoded'
  BY <1>1, SamePictures DEF TilesMade, TilesByStage, TilesCoded
<1>18. TilesWaiting'
  <2>1. \A v \in Rest : Posts(v)' => Posts(v) /\ Posted(v)' = Posted(v) /\ job'[v] = job[v]
    BY <1>3, <1>4 DEF Workers
  <2> QED BY <1>1, <1>6, <2>1 DEF TilesWaiting
<1>19. TileWithWorker'
  BY <1>1, <1>3, <1>4 DEF TileWithWorker, Agrees, Workers
<1> QED BY <1>7, <1>8, <1>9, <1>10, <1>11, <1>12, <1>13, <1>14, <1>15, <1>16, <1>17, <1>18, <1>19

\* A worker posts a part of its results: the part is in the queue now.
LEMMA PostKeeps ==
    ASSUME FilterPipelineAssumption, NEW ph \in [Slots -> Phases], Consistent(ph),
           NEW w \in Workers, PostPart(w)
    PROVE  Consistent(ph)'
<1> DEFINE r == Output(Stage(w))
           c == job[w].slot
           m == [slot |-> c, part |-> Posted(w) + 1]
<1> USE DEF Consistent
<1>1. /\ Stage(w) \in Stages /\ r \in Resources /\ (r = "packet" <=> w \in Ec)
      /\ (r = "ec" <=> w \in Rest) /\ r # "dlf"
  BY StageOfWorker DEF Stages, Searching
<1>2. Posts(w) /\ at[w] = "post" /\ left[w] \in Nat \ {0}
  BY DEF PostPart, Posts, Types
<1>3. /\ c \in Slots /\ ph[c] = r /\ picture[c] # 0
      /\ Amount(r, c) \in Nat \ {0} /\ Parts(Stage(w), c) = Amount(r, c)
  <2>1. c \in Slots /\ picture[c] # 0
    BY <1>2, SlotInUse
  <2> QED BY <1>1, <1>2, <2>1, PictureOfSlot DEF OneStage
<1>4. left[w] <= Amount(r, c) /\ Posted(w) \in Nat /\ Posted(w) + 1 \in 1 .. Amount(r, c)
  BY <1>2, <1>3 DEF PartsInRange, Posted
<1>5. /\ queue' = [queue EXCEPT ![r] = Append(@, m)]
      /\ left' = [left EXCEPT ![w] = @ - 1] /\ free' = [free EXCEPT ![r] = @ - 1] /\ free[r] > 0
      /\ stream' = stream /\ started' = started /\ picture' = picture /\ searched' = searched
      /\ holder' = holder /\ fresh' = fresh /\ tile' = tile /\ packets' = packets
      /\ at' = at /\ job' = job
  BY <1>3 DEF PostPart, slotVars, Posted
<1>6. m \in Message /\ m.slot = c /\ m.part = Posted(w) + 1
  BY <1>3, <1>4 DEF Message
<1>7. m \notin Mail(r)
  BY <1>2, <1>4, <1>6 DEF UnpostedNowhere
<1>8. /\ Mail(r)' = Mail(r) \cup {m} /\ \A q \in Resources : q # r => Mail(q)' = Mail(q)
      /\ \A q \in Resources : NoRepeats(queue'[q])
  <2>1. queue[r] \in Seq(Message) /\ NoRepeats(queue[r])
    BY <1>1 DEF Types, PartsOnce
  <2>2. Contents(Append(queue[r], m)) = Mail(r) \cup {m} /\ NoRepeats(Append(queue[r], m))
    BY <1>6, <1>7, <2>1, AppendContents DEF Mail
  <2> QED BY <1>1, <1>5, <2>2 DEF Types, Mail, PartsOnce
<1>9. /\ left'[w] = left[w] - 1 /\ Posted(w)' = Posted(w) + 1
      /\ (Posts(w)' <=> left[w] > 1) /\ (r = "packet" => ~Posts(w)')
      /\ ~Has(w) /\ ~Passes(w) /\ ~Coding(w) /\ ~Has(w)' /\ ~Passes(w)' /\ ~Coding(w)'
  <2>1. left'[w] = left[w] - 1
    BY <1>5 DEF Types
  <2>2. Amount(r, c)' = Amount(r, c)
    BY <1>5, SamePictures
  <2>3. Posted(w)' = Posted(w) + 1
    BY <1>2, <1>3, <1>5, <2>1, <2>2 DEF Posted
  <2>4. r = "packet" => left[w] = 1
    BY <1>2, <1>3, <1>4, PictureOfSlot
  <2> QED BY <1>2, <1>5, <2>1, <2>3, <2>4 DEF Posts, Has, Passes, Coding
<1>10. \A v \in Workers : v # w =>
          /\ at'[v] = at[v] /\ job'[v] = job[v] /\ left'[v] = left[v]
          /\ (Has(v)' <=> Has(v)) /\ (Posts(v)' <=> Posts(v)) /\ (Passes(v)' <=> Passes(v))
          /\ (Coding(v)' <=> Coding(v)) /\ PartOf(v)' = PartOf(v) /\ Posted(v)' = Posted(v)
          /\ TileOf(v)' = TileOf(v)
  BY <1>5, SameWorker DEF Types, TileOf
<1>11. \A q, d : Amount(q, d)' = Amount(q, d)
  BY <1>5, SamePictures
<1>12. Types'
  <2>1. queue' \in [Resources -> Seq(Message)] /\ free' \in [Resources -> Nat]
    BY <1>1, <1>5, <1>6 DEF Types
  <2>2. left' \in [Workers -> Nat]
    BY <1>2, <1>5 DEF Types
  <2> QED BY <1>5, <2>1, <2>2 DEF Types
<1>13. WorkersInPlace' /\ PicturesDiffer'
  BY <1>5 DEF WorkersInPlace, PicturesDiffer
<1>14. OneStage(ph)'
  <2>1. \A q \in Resources : \A n \in Mail(q)' : ph[n.slot] = q
    BY <1>3, <1>6, <1>8 DEF OneStage
  <2> QED BY <1>2, <1>3, <1>5, <1>9, <1>10, <2>1 DEF OneStage
<1>15. PartsInRange'
  <2>1. ASSUME NEW v \in Workers
        PROVE  /\ at'[v] = "work" /\ v \in Dlf => job'[v].part = 0
               /\ at'[v] = "work" /\ v \notin Dlf => job'[v].part \in 1 .. Amount(Stage(v), job'[v].slot)
               /\ v \in Ec /\ Has(v)' => job'[v].part \in DOMAIN tile'[job'[v].slot]
               /\ Posts(v)' => left'[v] <= Amount(Output(Stage(v)), job'[v].slot)
    BY <1>2, <1>3, <1>4, <1>5, <1>9, <1>10 DEF PartsInRange
  <2>2. \A q \in Resources \ {"dlf"} : \A n \in Mail(q)' : n.part \in 1 .. Amount(q, n.slot)
    BY <1>4, <1>6, <1>8 DEF PartsInRange
  <2> QED BY <1>1, <1>8, <1>11, <2>1, <2>2 DEF PartsInRange, Resources, Stages
<1>16. PartsOnce'
  <2>1. \A u, v \in Workers : u # v /\ Has(u)' /\ Has(v)' /\ Stage(u) = Stage(v) =>
            job'[u].slot # job'[v].slot \/ job'[u].part # job'[v].part
    BY <1>9, <1>10 DEF PartsOnce
  <2>2. ASSUME NEW v \in Workers, Has(v)' PROVE PartOf(v)' \notin Mail(Stage(v))'
    <3>1. v # w /\ Has(v) /\ PartOf(v)' = PartOf(v) /\ Stage(v) \in Resources
      BY <1>9, <1>10, <2>2, StageOfWorker
    <3>2. PartOf(v) \notin Mail(Stage(v))
      BY <3>1 DEF PartsOnce
    <3>3. Stage(v) = r => PartOf(v) # m
      BY <1>2, <1>4, <1>6, <3>1 DEF UnpostedNowhere, PartOf
    <3> QED BY <1>8, <3>1, <3>2, <3>3
  <2> QED BY <1>8, <2>1, <2>2 DEF PartsOnce
<1>17. UnpostedNowhere'
  <2>1. SUFFICES ASSUME NEW v \in Workers, Posts(v)'
                 PROVE  /\ \A n \in Mail(Output(Stage(v)))' :
                              n.slot = job'[v].slot => n.part <= Posted(v)'
                        /\ \A u \in Workers : Has(u)' /\ Stage(u) = Output(Stage(v))
                                                /\ job'[u].slot = job'[v].slot =>
                              job'[u].part <= Posted(v)'
    BY DEF UnpostedNowhere
  <2>2. Output(Stage(v)) \in Resources /\ Posts(v) /\ job'[v] = job[v]
    BY <1>2, <1>5, <1>10, <2>1, StageOfWorker
  <2>3. /\ \A n \in Mail(Output(Stage(v))) : n.slot = job[v].slot => n.part <= Posted(v)
        /\ \A u \in Workers : Has(u) /\ Stage(u) = Output(Stage(v)) /\ job[u].slot = job[v].slot =>
              job[u].part <= Posted(v)
    BY <2>2 DEF UnpostedNowhere
  <2>4. CASE v = w
    <3>1. \A n \in Mail(r)' : n.slot = c => n.part <= Posted(w) + 1
      <4>1. ASSUME NEW n \in Mail(r), n.slot = c PROVE n.part <= Posted(w) + 1
        <5>1. n.part \in Nat /\ n.part <= Posted(w)
          BY <1>1, <2>3, <2>4, <4>1, SlotInUse DEF Message
        <5> QED BY <1>4, <5>1
      <4> QED BY <1>4, <1>6, <1>8, <4>1
    <3>2. ASSUME NEW u \in Workers, Has(u)', Stage(u) = r, job'[u].slot = c
          PROVE  job'[u].part <= Posted(w) + 1
      <4>1. u # w /\ Has(u) /\ job[u].part \in Nat
        BY <1>9, <1>10, <3>2 DEF Types, Job
      <4>2. job[u].part <= Posted(w)
        BY <1>5, <2>3, <2>4, <3>2, <4>1
      <4> QED BY <1>4, <1>5, <4>1, <4>2
    <3> QED BY <1>5, <1>9, <2>4, <3>1, <3>2
  <2>5. CASE v # w
    <3>1. Output(Stage(v)) = r => job[v].slot # c
      <4>1. Output(Stage(v)) = Output(Stage(w)) => Stage(v) = Stage(w)
        BY StageOfWorker DEF Stages, Searching
      <4> QED BY <1>2, <2>2, <2>5, <4>1 DEF ActorsOnce
    <3>2. Posted(v)' = Posted(v)
      BY <1>10, <2>5
    <3> QED BY <1>5, <1>6, <1>8, <1>9, <1>10, <2>2, <2>3, <3>1, <3>2
  <2> QED BY <2>4, <2>5
<1>18. ActorsOnce'
  BY <1>2, <1>5, <1>9, <1>10 DEF ActorsOnce
<1>19. PassedOnce'
  <2>1. ASSUME NEW v \in Workers, Passes(v)', NEW n \in Mail("packet")'
        PROVE  n.slot # job'[v].slot
    <3>1. v # w /\ Passes(v) /\ job'[v] = job[v] /\ v \in Ec
      BY <1>9, <1>10, <2>1 DEF WorkersInPlace, Passes
    <3>2. r = "packet" => job[v].slot # c
      BY <1>1, <1>2, <3>1, StageOfWorker DEF ActorsOnce
    <3> QED BY <1>6, <1>8, <2>1, <3>1, <3>2 DEF PassedOnce, Resources
  <2> QED BY <2>1 DEF PassedOnce
<1>20. CountsAgree(ph)'
  <2>1. ASSUME NEW t \in Searching, NEW d \in Slots
        PROVE  Outstanding(t, d)' = Outstanding(t, d)
    <3>1. ASSUME NEW p \in 1 .. Amount(t, d) PROVE Uncounted(t, d, p)' <=> Uncounted(t, d, p)
      <4>1. [slot |-> d, part |-> p] \in Mail(t)'
               <=> [slot |-> d, part |-> p] \in Mail(t) \/ (t = r /\ d = c /\ p = Posted(w) + 1)
        <5>1. Mail(t)' = IF t = r THEN Mail(t) \cup {m} ELSE Mail(t)
          BY <1>8 DEF Resources, Stages
        <5>2. [slot |-> d, part |-> p] = m <=> d = c /\ p = Posted(w) + 1
          OBVIOUS
        <5> QED BY <5>1, <5>2
      <4>2. r = t /\ Posts(w) /\ c = d /\ p > Posted(w)
               <=> \/ r = t /\ Posts(w)' /\ c = d /\ p > Posted(w)'
                   \/ t = r /\ d = c /\ p = Posted(w) + 1
        <5>1. left[w] > 1 \/ left[w] = 1
          BY <1>2
        <5>2. r = t /\ c = d /\ left[w] = 1 => (p > Posted(w) <=> p = Posted(w) + 1)
          BY <1>2, <1>3, <1>4, <3>1 DEF Posted
        <5> QED BY <1>2, <1>4, <1>9, <3>1, <5>1, <5>2
      <4> QED BY <1>5, <1>10, <4>1, <4>2 DEF Uncounted
    <3> QED BY <1>11, <3>1 DEF Outstanding
  <2> QED BY <1>5, <1>11, <2>1 DEF CountsAgree
<1>21. TilesMade(ph)' /\ TilesByStage(ph)' /\ TilesCoded'
  BY <1>5, SamePictures DEF TilesMade, TilesByStage, TilesCoded
<1>22. TilesWaiting'
  <2>1. r = "ec" => Untouched(tile[c][m.part])
    <3>1. SUFFICES ASSUME r = "ec" PROVE Untouched(tile[c][m.part])
      OBVIOUS
    <3>2. w \in Rest /\ DOMAIN tile[c] = Tiles(c) /\ Tiles(c) = 1 .. Amount("ec", c)
      BY <1>1, <1>3, <3>1, PictureOfSlot DEF TilesMade
    <3>3. m.part \in DOMAIN tile[c] /\ m.part > Posted(w)
      BY <1>4, <1>6, <3>1, <3>2
    <3> QED BY <1>2, <3>2, <3>3 DEF TilesWaiting
  <2>2. \A n \in Mail("ec")' : Untouched(tile[n.slot][n.part])
    BY <1>6, <1>8, <2>1 DEF TilesWaiting, Resources, Stages
  <2>3. ASSUME NEW v \in Rest, Posts(v)', NEW k \in DOMAIN tile[job[v].slot], k > Posted(v)'
        PROVE  Untouched(tile[job[v].slot][k])
    <3>1. Posts(v)
      BY <1>2, <1>10, <2>3 DEF Workers
    <3>2. v = w => k > Posted(v)
      <4>1. SUFFICES ASSUME v = w PROVE k > Posted(w)
        OBVIOUS
      <4>2. k \in Nat
        <5>1. tile[c] \in Seq(Tile)
          BY <1>3 DEF Types
        <5> QED BY <2>3, <4>1, <5>1
      <4> QED BY <1>4, <1>9, <2>3, <4>1, <4>2
    <3> QED BY <1>10, <2>3, <3>1, <3>2 DEF TilesWaiting, Workers
  <2> QED BY <1>5, <2>2, <2>3 DEF TilesWaiting
<1>23. TileWithWorker'
  BY <1>5, <1>9, <1>10 DEF TileWithWorker, Agrees, Workers
<1> QED BY <1>12, <1>13, <1>14, <1>15, <1>16, <1>17, <1>18, <1>19, <1>20, <1>21, <1>22, <1>23

\* Nobody but w is about the slot it is at.
Alone(w) ==
    /\ \A r \in Resources : \A m \in Mail(r) : m.slot # job[w].slot
    /\ \A v \in Workers : v # w /\ job[v].slot = job[w].slot =>
          ~Has(v) /\ at[v] # "filter" /\ ~Posts(v) /\ ~Passes(v) /\ ~Coding(v)

\* Who works at a slot that is before Entropy Coding is of the stage of the slot.
LEMMA SameStage ==
    ASSUME FilterPipelineAssumption, NEW ph \in [Slots -> Phases], Consistent(ph),
           NEW v \in Workers, ph[job[v].slot] \in BeforeEntropy, job[v].slot \in Slots
    PROVE  /\ ~Coding(v) /\ ~Passes(v) /\ at[v] # "rows"
           /\ Has(v) => at[v] = "work" /\ ph[job[v].slot] = Stage(v)
<1> USE DEF Consistent
<1>1. ~Coding(v) /\ ~Passes(v)
  BY DEF OneStage, BeforeEntropy
<1>2. at[v] # "rows"
  <2>1. SUFFICES ASSUME at[v] = "rows" PROVE FALSE
    OBVIOUS
  <2>2. v \in Ec /\ job[v].part \in DOMAIN tile[job[v].slot]
    BY <2>1 DEF WorkersInPlace, PartsInRange, Has
  <2>3. ~TileOf(v).done
    BY <2>2 DEF TilesByStage, TileOf, Untouched
  <2> QED BY <2>1, <2>3 DEF OneStage, BeforeEntropy
<1> QED BY <1>1, <1>2 DEF Has, Coding, OneStage

\* A worker that deblocks or filters a picture is alone with it.
LEMMA AloneWithPicture ==
    ASSUME FilterPipelineAssumption, NEW ph \in [Slots -> Phases], Consistent(ph),
           NEW w \in Workers, (w \in Dlf /\ at[w] = "work") \/ at[w] = "filter"
    PROVE  Alone(w) /\ job[w].slot \in Slots /\ ph[job[w].slot] \in BeforeEntropy
<1> DEFINE c == job[w].slot
<1> USE DEF Consistent
<1>1. c \in Slots
  BY SlotInUse
<1>2. /\ at[w] = "work" => ph[c] = "dlf"
      /\ at[w] = "filter" => ph[c] \in {"filtering cdef", "filtering rest"}
      /\ ph[c] \in BeforeEntropy
  BY StageOfWorker DEF OneStage, Filtering, BeforeEntropy
<1>3. ASSUME NEW r \in Resources, NEW m \in Mail(r), m.slot = c PROVE FALSE
  <2>1. ph[c] = r
    BY <1>3 DEF OneStage
  <2>2. CASE at[w] = "filter"
    BY <1>2, <2>1, <2>2 DEF Resources, Stages, Searching
  <2>3. CASE w \in Dlf /\ at[w] = "work"
    <3>1. m \in Mail("dlf") /\ Stage(w) = "dlf" /\ Has(w)
      BY <1>2, <1>3, <2>1, <2>3, StageOfWorker DEF Has
    <3>2. m.part = 0 /\ job[w].part = 0
      BY <2>3, <3>1 DEF PartsInRange
    <3>3. m = PartOf(w)
      BY <1>3, <3>2, SlotInUse DEF PartOf, Message
    <3> QED BY <3>1, <3>3 DEF PartsOnce
  <2> QED BY <2>2, <2>3
<1>4. ASSUME NEW v \in Workers, v # w, job[v].slot = c
      PROVE  ~Has(v) /\ at[v] # "filter" /\ ~Posts(v) /\ ~Passes(v) /\ ~Coding(v)
  <2>1. /\ ~Coding(v) /\ ~Passes(v) /\ at[v] # "rows"
        /\ Has(v) => at[v] = "work" /\ ph[c] = Stage(v)
    BY <1>1, <1>2, <1>4, SameStage, ZenonT(40)
  <2>2. Stage(v) \in Stages /\ Output(Stage(v)) \in {"cdef", "rest", "ec", "packet"}
    BY StageOfWorker DEF Stages, Searching
  <2>3. ~Posts(v)
    BY <1>2, <1>4, <2>2 DEF OneStage
  <2>4. at[v] # "filter"
    <3>1. SUFFICES ASSUME at[v] = "filter" PROVE FALSE
      OBVIOUS
    <3>2. ph[c] = Filtering(Stage(v)) /\ v \in Cdef \cup Rest
      BY <1>4, <3>1 DEF OneStage, WorkersInPlace
    <3>3. at[w] = "filter" /\ ph[c] = Filtering(Stage(w)) /\ w \in Cdef \cup Rest
      BY <1>2, <3>2 DEF OneStage, WorkersInPlace, Filtering
    <3>4. Stage(v) = Stage(w)
      BY <3>2, <3>3, StageOfWorker DEF Filtering
    <3> QED BY <1>4, <3>1, <3>3, <3>4 DEF ActorsOnce
  <2>5. ~Has(v)
    <3>1. SUFFICES ASSUME Has(v) PROVE FALSE
      OBVIOUS
    <3>2. w \in Dlf /\ at[w] = "work" /\ Stage(v) = "dlf" /\ Stage(w) = "dlf" /\ v \in Dlf
      BY <1>2, <2>1, <2>2, <3>1, StageOfWorker DEF Stages, Searching
    <3>3. job[v].part = 0 /\ job[w].part = 0 /\ Has(w)
      BY <2>1, <3>1, <3>2 DEF PartsInRange, Has
    <3> QED BY <1>4, <3>1, <3>2, <3>3 DEF PartsOnce
  <2> QED BY <2>1, <2>3, <2>4, <2>5
<1> QED BY <1>1, <1>2, <1>3, <1>4 DEF Alone

\* A worker that is alone with a picture takes it to stage q: it filters the picture,
\* or has all the parts of its results to post.
LEMMA MovesOn ==
    ASSUME FilterPipelineAssumption, NEW ph \in [Slots -> Phases], Consistent(ph),
           NEW w \in Workers, Alone(w), NEW q \in Phases,
           job[w].slot \in Slots, ph[job[w].slot] \in BeforeEntropy,
           UNCHANGED <<stream, started, picture, fresh, tile, queue, packets>>,
           \A v \in Workers : v # w => at'[v] = at[v] /\ job'[v] = job[v] /\ left'[v] = left[v],
           job'[w].slot = job[w].slot,
           \/ /\ at'[w] = "filter" /\ q = Filtering(Stage(w)) /\ Stage(w) \in Searching
              /\ searched'[Stage(w)][job[w].slot] = Amount(Stage(w), job[w].slot)
           \/ /\ at'[w] = "post" /\ q = Output(Stage(w)) /\ Stage(w) \in {"dlf", "cdef", "rest"}
              /\ left'[w] = Amount(q, job[w].slot)
              /\ q \in Searching => searched'[q][job[w].slot] = 0,
           \A s \in Searching, d \in Slots : d # job[w].slot => searched'[s][d] = searched[s][d],
           Types', WorkersInPlace'
    PROVE  Consistent([ph EXCEPT ![job[w].slot] = q])'
<1> DEFINE c == job[w].slot
           to == [ph EXCEPT ![c] = q]
<1> USE DEF Consistent
<1>1. /\ to[c] = q /\ \A d \in Slots : d # c => to[d] = ph[d]
      /\ q # "pool" /\ q # "packet" /\ q \in BeforeEntropy \cup {"ec"} /\ ph[c] # "pool" /\ picture[c] # 0
      /\ Stage(w) \in Stages /\ (Stage(w) = "rest" <=> w \in Rest)
      /\ (q = "ec" => w \in Rest)
  <2>1. /\ Stage(w) \in Stages /\ (Stage(w) = "rest" <=> w \in Rest)
        /\ Output("dlf") = "cdef" /\ Output("cdef") = "rest" /\ Output("rest") = "ec"
    BY StageOfWorker
  <2>2. q \in {"filtering cdef", "filtering rest", "cdef", "rest", "ec"} /\ (q = "ec" => w \in Rest)
    BY <2>1 DEF Filtering, Searching
  <2>3. ph[c] # "pool" /\ picture[c] # 0
    BY DEF OneStage, BeforeEntropy
  <2> QED BY <2>1, <2>2, <2>3 DEF BeforeEntropy
<1>2. /\ stream' = stream /\ started' = started /\ picture' = picture /\ packets' = packets
      /\ fresh' = fresh /\ tile' = tile /\ queue' = queue
  OBVIOUS
<1>3. \A v \in Workers : v # w =>
          /\ at'[v] = at[v] /\ job'[v] = job[v] /\ left'[v] = left[v]
          /\ (Has(v)' <=> Has(v)) /\ (Posts(v)' <=> Posts(v)) /\ (Passes(v)' <=> Passes(v))
          /\ (Coding(v)' <=> Coding(v)) /\ PartOf(v)' = PartOf(v) /\ Posted(v)' = Posted(v)
          /\ TileOf(v)' = TileOf(v)
  BY SameWorker DEF TileOf
<1>4. \A r, d : Amount(r, d)' = Amount(r, d)
  BY SamePictures
<1>5. \A r : Mail(r)' = Mail(r)
  BY DEF Mail
<1>6. \A r \in Resources : Amount(r, c) \in Nat \ {0}
  BY <1>1, PictureOfSlot
<1>7. /\ ~Has(w)' /\ ~Passes(w)' /\ ~Coding(w)' /\ w \notin Ec
      /\ at'[w] \in {"filter", "post"}
      /\ Posts(w)' => q = Output(Stage(w)) /\ q \in Resources /\ q \notin {"dlf", "packet"}
                      /\ left'[w] = Amount(q, c) /\ Posted(w)' = 0
      /\ at'[w] = "filter" => q = Filtering(Stage(w)) /\ ~Posts(w)'
  <2>1. w \notin Ec /\ Stage(w) # "ec"
    BY StageOfWorker DEF Searching
  <2>2. at'[w] = "post" => left'[w] = Amount(q, c) /\ Posted(w)' = 0 /\ q \in {"cdef", "rest", "ec"}
    <3>1. at'[w] = "post" => q \in {"cdef", "rest", "ec"} /\ q = Output(Stage(w)) /\ left'[w] = Amount(q, c)
      BY StageOfWorker
    <3>2. q \in {"cdef", "rest", "ec"} => Amount(q, c) \in Nat
      BY <1>6 DEF Resources, Stages, Searching
    <3> QED BY <1>4, <3>1, <3>2 DEF Posted
  <2> QED BY <2>1, <2>2 DEF Has, Passes, Coding, Posts, Resources, Stages, Searching
<1>8. \A v \in Workers : v # w /\ job[v].slot = c =>
          ~Has(v) /\ at[v] # "filter" /\ ~Posts(v) /\ ~Passes(v) /\ ~Coding(v)
                  /\ at[v] \notin {"work", "rows"}
  BY DEF Alone, Has
<1>9. \A r \in Resources : \A m \in Mail(r) : m.slot \in Slots /\ m.slot # c /\ m.part \in Nat
  BY SlotInUse DEF Alone, Message
<1>10. \A v \in Workers : at[v] # "idle" => job[v].slot \in Slots
  BY SlotInUse
<1>11. OneStage(to)'
  <2>1. \A d \in Slots : picture'[d] = 0 <=> to[d] = "pool"
    BY <1>1, <1>2 DEF OneStage
  <2>2. \A r \in Resources : \A m \in Mail(r)' : to[m.slot] = r
    BY <1>1, <1>5, <1>9 DEF OneStage
  <2>3. ASSUME NEW v \in Workers
        PROVE  /\ at'[v] = "work" => to[job'[v].slot] = Stage(v)
               /\ at'[v] = "filter" => to[job'[v].slot] = Filtering(Stage(v))
               /\ Posts(v)' => to[job'[v].slot] = Output(Stage(v))
               /\ Coding(v)' => to[job'[v].slot] = "ec"
               /\ at'[v] = "rows" /\ ~TileOf(v)'.done => to[job'[v].slot] = "ec"
               /\ Passes(v)' => to[job'[v].slot] = "packet"
    <3>1. CASE v = w
      BY <1>1, <1>7, <3>1
    <3>2. CASE v # w /\ job[v].slot = c
      BY <1>3, <1>8, <3>2
    <3>3. CASE v # w /\ job[v].slot # c
      <4>1. CASE at[v] = "idle"
        BY <1>3, <3>3, <4>1 DEF Posts, Coding, Passes
      <4>2. CASE at[v] # "idle"
        BY <1>1, <1>3, <1>10, <3>3, <4>2 DEF OneStage
      <4> QED BY <4>1, <4>2
    <3> QED BY <3>1, <3>2, <3>3
  <2> QED BY <2>1, <2>2, <2>3 DEF OneStage
<1>12. PartsInRange'
  <2>1. ASSUME NEW v \in Workers
        PROVE  /\ at'[v] = "work" /\ v \in Dlf => job'[v].part = 0
               /\ at'[v] = "work" /\ v \notin Dlf => job'[v].part \in 1 .. Amount(Stage(v), job'[v].slot)
               /\ v \in Ec /\ Has(v)' => job'[v].part \in DOMAIN tile'[job'[v].slot]
               /\ Posts(v)' => left'[v] <= Amount(Output(Stage(v)), job'[v].slot)
    BY <1>2, <1>3, <1>6, <1>7 DEF PartsInRange
  <2> QED BY <1>4, <1>5, <2>1 DEF PartsInRange
<1>13. PartsOnce'
  <2>1. \A r \in Resources : NoRepeats(queue'[r])
    BY <1>2 DEF PartsOnce
  <2>2. \A u, v \in Workers : u # v /\ Has(u)' /\ Has(v)' /\ Stage(u) = Stage(v) =>
            job'[u].slot # job'[v].slot \/ job'[u].part # job'[v].part
    BY <1>3, <1>7 DEF PartsOnce
  <2>3. \A v \in Workers : Has(v)' => PartOf(v)' \notin Mail(Stage(v))'
    BY <1>3, <1>5, <1>7 DEF PartsOnce
  <2> QED BY <2>1, <2>2, <2>3 DEF PartsOnce
<1>14. UnpostedNowhere'
  <2>1. SUFFICES ASSUME NEW v \in Workers, Posts(v)'
                 PROVE  /\ \A m \in Mail(Output(Stage(v)))' :
                              m.slot = job'[v].slot => m.part <= Posted(v)'
                        /\ \A u \in Workers : Has(u)' /\ Stage(u) = Output(Stage(v))
                                                /\ job'[u].slot = job'[v].slot =>
                              job'[u].part <= Posted(v)'
    BY DEF UnpostedNowhere
  <2>2. Output(Stage(v)) \in Resources
    BY StageOfWorker
  <2>3. CASE v = w
    BY <1>3, <1>5, <1>7, <1>8, <1>9, <2>2, <2>3
  <2>4. CASE v # w
    BY <1>3, <1>5, <1>7, <2>1, <2>4 DEF UnpostedNowhere
  <2> QED BY <2>3, <2>4
<1>15. ActorsOnce'
  BY <1>3, <1>7, <1>8 DEF ActorsOnce
<1>16. PassedOnce'
  BY <1>3, <1>5, <1>7 DEF PassedOnce
<1>17. CountsAgree(to)'
  <2>1. ASSUME NEW t \in Searching, NEW d \in Slots, to[d] = t
        PROVE  searched'[t][d] + Cardinality(Outstanding(t, d)') = Amount(t, d)
    <3>1. CASE d = c
      <4>1. q = t /\ at'[w] = "post" /\ left'[w] = Amount(t, c) /\ searched'[t][c] = 0
        BY <1>1, <2>1, <3>1 DEF Filtering, Searching
      <4>2. Posts(w)' /\ Posted(w)' = 0 /\ Output(Stage(w)) = t /\ Amount(t, c) \in Nat
        <5>1. Amount(t, c) \in Nat \ {0}
          BY <1>6 DEF Resources, Stages
        <5>2. Posts(w)'
          BY <4>1, <5>1 DEF Posts
        <5> QED BY <1>7, <4>1, <5>1, <5>2
      <4>3. \A p \in 1 .. Amount(t, c) : Uncounted(t, c, p)'
        BY <4>2 DEF Uncounted
      <4>4. Outstanding(t, c)' = 1 .. Amount(t, c)
        BY <1>4, <4>3 DEF Outstanding
      <4>5. Cardinality(1 .. Amount(t, c)) = Amount(t, c)
        BY <4>2, FS_Interval
      <4> QED BY <3>1, <4>1, <4>2, <4>4, <4>5
    <3>2. CASE d # c
      <4>1. ASSUME NEW p \in 1 .. Amount(t, d) PROVE Uncounted(t, d, p)' <=> Uncounted(t, d, p)
        <5>1. (\E v \in Workers : Stage(v) = t /\ at'[v] = "work" /\ job'[v].slot = d /\ job'[v].part = p)
                 <=> (\E v \in Workers : Stage(v) = t /\ at[v] = "work" /\ job[v].slot = d /\ job[v].part = p)
          BY <1>3, <3>2
        <5>2. (\E v \in Workers : Output(Stage(v)) = t /\ Posts(v)' /\ job'[v].slot = d /\ p > Posted(v)')
                 <=> (\E v \in Workers : Output(Stage(v)) = t /\ Posts(v) /\ job[v].slot = d /\ p > Posted(v))
          <6>1. ASSUME NEW v \in Workers
                PROVE  (Output(Stage(v)) = t /\ Posts(v)' /\ job'[v].slot = d /\ p > Posted(v)')
                          <=> (Output(Stage(v)) = t /\ Posts(v) /\ job[v].slot = d /\ p > Posted(v))
            <7>1. CASE v = w
              <8>1. job'[v].slot # d /\ job[v].slot # d
                BY <3>2, <7>1
              <8> QED BY <8>1, Zenon
            <7>2. CASE v # w
              <8>1. job'[v] = job[v] /\ (Posts(v)' <=> Posts(v)) /\ Posted(v)' = Posted(v)
                BY <1>3, <7>2, Zenon
              <8> QED BY <8>1, Zenon
            <7> QED BY <7>1, <7>2, Zenon
          <6> QED BY <6>1, Zenon
        <5> QED BY <1>5, <5>1, <5>2, Zenon DEF Uncounted
      <4>2. Outstanding(t, d)' = Outstanding(t, d)
        BY <1>4, <4>1 DEF Outstanding
      <4> QED BY <1>1, <2>1, <3>2, <4>2 DEF CountsAgree
    <3> QED BY <3>1, <3>2
  <2>2. ASSUME NEW v \in Workers, at'[v] = "filter"
        PROVE  searched'[Stage(v)][job'[v].slot] = Amount(Stage(v), job'[v].slot)
    <3>1. CASE v = w
      BY <2>2, <3>1
    <3>2. CASE v # w
      <4>1. at[v] = "filter" /\ job'[v] = job[v] /\ job[v].slot # c /\ job[v].slot \in Slots
        BY <1>3, <1>8, <1>10, <2>2, <3>2
      <4>2. Stage(v) \in Searching
        BY <4>1, StageOfWorker DEF WorkersInPlace
      <4> QED BY <4>1, <4>2 DEF CountsAgree
    <3> QED BY <3>1, <3>2
  <2> QED BY <1>4, <2>1, <2>2 DEF CountsAgree
<1>18. TilesMade(to)' /\ TilesByStage(to)' /\ TilesCoded'
  <2>1. \A d : Pic(d)' = Pic(d) /\ Tiles(d)' = Tiles(d)
    BY SamePictures
  <2>2. \A d \in Slots : /\ to[d] # "pool" => ph[d] # "pool"
                         /\ to[d] \in BeforeEntropy => ph[d] \in BeforeEntropy
                         /\ to[d] = "packet" => ph[d] = "packet"
    BY <1>1
  <2> QED BY <1>2, <2>1, <2>2 DEF TilesMade, TilesByStage, TilesCoded
<1>19. TilesWaiting'
  <2>1. \A v \in Rest : v # w /\ Posts(v)' => Posts(v) /\ Posted(v)' = Posted(v) /\ job'[v] = job[v]
    BY <1>3 DEF Workers
  <2>2. \A k \in DOMAIN tile[c] : Untouched(tile[c][k])
    BY DEF TilesByStage
  <2> QED BY <1>2, <1>5, <2>1, <2>2, ZenonT(40) DEF TilesWaiting
<1>20. TileWithWorker'
  BY <1>2, <1>3, <1>7 DEF TileWithWorker, Agrees, Workers
<1>21. PicturesDiffer'
  BY <1>2 DEF PicturesDiffer
<1> QED BY <1>11, <1>12, <1>13, <1>14, <1>15, <1>16, <1>17, <1>18, <1>19, <1>20, <1>21

\* The whole picture is deblocked, and all segments of CDEF are still to be posted.
LEMMA DeblockKeeps ==
    ASSUME FilterPipelineAssumption, NEW ph \in [Slots -> Phases], Consistent(ph),
           NEW w \in Workers, Deblock(w)
    PROVE  \E to \in [Slots -> Phases] : Consistent(to)'
<1> DEFINE c == job[w].slot
<1> USE DEF Consistent
<1>1. /\ w \in Dlf /\ at[w] = "work" /\ Stage(w) = "dlf" /\ Output(Stage(w)) = "cdef"
      /\ at' = [at EXCEPT ![w] = "post"] /\ job' = job
      /\ left' = [left EXCEPT ![w] = Parts("dlf", c)]
      /\ searched' = [searched EXCEPT !["cdef"][c] = 0]
      /\ UNCHANGED <<stream, started, picture, fresh, tile, queue, packets, holder, free>>
  BY StageOfWorker DEF Deblock, GoTo
<1>2. Alone(w) /\ c \in Slots /\ ph[c] \in BeforeEntropy
  BY <1>1, AloneWithPicture
<1>3. picture[c] # 0 /\ Parts("dlf", c) = Amount("cdef", c) /\ Amount("cdef", c) \in Nat \ {0}
  <2>1. picture[c] # 0
    BY <1>1, SlotInUse
  <2> QED BY <1>2, <2>1, PictureOfSlot, StageOfWorker DEF Stages, Resources, Searching
<1>4. /\ at'[w] = "post" /\ job'[w].slot = c /\ left'[w] = Amount("cdef", c)
      /\ searched'["cdef"][c] = 0
      /\ \A s \in Searching, d \in Slots : d # c => searched'[s][d] = searched[s][d]
      /\ \A v \in Workers : v # w => at'[v] = at[v] /\ job'[v] = job[v] /\ left'[v] = left[v]
  BY <1>1, <1>2, <1>3 DEF Types, Searching
<1>5. Types'
  <2>1. searched' \in [Searching -> [Slots -> Nat]]
    BY <1>1, <1>2 DEF Types, Searching
  <2>2. left' \in [Workers -> Nat] /\ at' \in [Workers -> Places]
    BY <1>1, <1>3 DEF Types, Places
  <2> QED BY <1>1, <2>1, <2>2 DEF Types
<1>6. WorkersInPlace'
  BY <1>1, <1>2, <1>4 DEF WorkersInPlace
<1>7. "cdef" \in Phases /\ "cdef" \in Searching
  BY DEF Phases, BeforeEntropy, Searching
<1>8. Consistent([ph EXCEPT ![c] = "cdef"])'
  BY <1>1, <1>2, <1>4, <1>5, <1>6, <1>7, MovesOn, ZenonT(40)
<1> QED BY <1>7, <1>8

\* The whole picture is filtered, and its parts for the next stage are to be posted.
LEMMA FilterKeeps ==
    ASSUME FilterPipelineAssumption, NEW ph \in [Slots -> Phases], Consistent(ph),
           NEW w \in Workers, FilterPicture(w)
    PROVE  \E to \in [Slots -> Phases] : Consistent(to)'
<1> DEFINE c == job[w].slot
           q == Output(Stage(w))
<1> USE DEF Consistent
<1>1. /\ at[w] = "filter" /\ Stage(w) \in Searching
      /\ at' = [at EXCEPT ![w] = "post"] /\ job' = job
      /\ left' = [left EXCEPT ![w] = Parts(Stage(w), c)]
      /\ searched' = IF Stage(w) = "cdef" THEN [searched EXCEPT !["rest"][c] = 0] ELSE searched
      /\ UNCHANGED <<stream, started, picture, fresh, tile, queue, packets, holder, free>>
  BY DEF FilterPicture, GoTo
<1>2. Alone(w) /\ c \in Slots /\ ph[c] \in BeforeEntropy
  BY <1>1, AloneWithPicture
<1>3. /\ (q = "rest" /\ Stage(w) = "cdef") \/ (q = "ec" /\ Stage(w) = "rest")
      /\ q \in Phases /\ Stage(w) \in Stages /\ q \in Resources
  <2>1. (q = "rest" /\ Stage(w) = "cdef") \/ (q = "ec" /\ Stage(w) = "rest")
    BY <1>1, StageOfWorker DEF Searching
  <2>2. Stage(w) \in Stages /\ q \in Resources
    BY StageOfWorker
  <2> QED BY <2>1, <2>2 DEF Phases, BeforeEntropy
<1>4. picture[c] # 0 /\ Parts(Stage(w), c) = Amount(q, c) /\ Amount(q, c) \in Nat \ {0}
  <2>1. picture[c] # 0
    BY <1>1, SlotInUse
  <2> QED BY <1>2, <1>3, <2>1, PictureOfSlot
<1>5. /\ at'[w] = "post" /\ job'[w].slot = c /\ left'[w] = Amount(q, c)
      /\ q \in Searching => searched'[q][c] = 0
      /\ \A s \in Searching, d \in Slots : d # c => searched'[s][d] = searched[s][d]
      /\ \A v \in Workers : v # w => at'[v] = at[v] /\ job'[v] = job[v] /\ left'[v] = left[v]
  BY <1>1, <1>2, <1>3, <1>4 DEF Types, Searching
<1>6. Types'
  <2>1. searched' \in [Searching -> [Slots -> Nat]]
    BY <1>1, <1>2 DEF Types, Searching
  <2>2. left' \in [Workers -> Nat] /\ at' \in [Workers -> Places]
    BY <1>1, <1>4 DEF Types, Places
  <2> QED BY <1>1, <2>1, <2>2 DEF Types
<1>7. WorkersInPlace'
  BY <1>1, <1>2, <1>5 DEF WorkersInPlace
<1>8. Consistent([ph EXCEPT ![c] = q])'
  <2>1. Stage(w) \in {"dlf", "cdef", "rest"}
    BY <1>3
  <2> HIDE DEF Consistent
  <2> QED BY <1>1, <1>2, <1>3, <1>5, <1>6, <1>7, <2>1, MovesOn
<1> QED BY <1>3, <1>8

\* The segment a worker has is one of those not counted, and nobody else has it.
LEMMA SegmentUncounted ==
    ASSUME FilterPipelineAssumption, NEW ph \in [Slots -> Phases], Consistent(ph),
           NEW w \in Workers, at[w] = "work", Stage(w) \in Searching
    PROVE  LET s == Stage(w)
               c == job[w].slot
           IN /\ c \in Slots /\ ph[c] = s /\ picture[c] # 0
              /\ job[w].part \in Outstanding(s, c)
              /\ IsFiniteSet(Outstanding(s, c)) /\ Cardinality(Outstanding(s, c)) \in Nat
              /\ searched[s][c] \in Nat
              /\ searched[s][c] + Cardinality(Outstanding(s, c)) = Total(s, c)
              /\ Completes(s, c) => Outstanding(s, c) = {job[w].part}
<1> DEFINE s == Stage(w)
           c == job[w].slot
           p == job[w].part
<1> USE DEF Consistent
<1>1. c \in Slots /\ ph[c] = s /\ picture[c] # 0
  BY SlotInUse DEF OneStage
<1>2. Amount(s, c) \in Nat /\ Total(s, c) = Amount(s, c)
  BY <1>1, PictureOfSlot DEF Resources, Stages
<1>3. p \in Outstanding(s, c)
  <2>1. w \notin Dlf
    BY StageOfWorker DEF Searching
  <2>2. p \in 1 .. Amount(s, c)
    BY <2>1 DEF PartsInRange
  <2> QED BY <2>2 DEF Outstanding, Uncounted
<1>4. IsFiniteSet(Outstanding(s, c)) /\ Cardinality(Outstanding(s, c)) \in Nat
  <2>1. IsFiniteSet(1 .. Amount(s, c))
    BY <1>2, FS_Interval
  <2>2. Outstanding(s, c) \subseteq 1 .. Amount(s, c)
    BY DEF Outstanding
  <2>3. IsFiniteSet(Outstanding(s, c))
    BY <2>1, <2>2, FS_Subset
  <2> QED BY <2>3, FS_CardinalityType
<1>5. searched[s][c] \in Nat /\ searched[s][c] + Cardinality(Outstanding(s, c)) = Amount(s, c)
  BY <1>1 DEF CountsAgree, Types
<1>6. ASSUME Completes(s, c) PROVE Outstanding(s, c) = {p}
  <2>1. Cardinality(Outstanding(s, c)) = 1
    BY <1>2, <1>4, <1>5, <1>6 DEF Completes
  <2>2. PICK x : Outstanding(s, c) = {x}
    BY <1>4, <2>1, FS_Singleton
  <2> QED BY <1>3, <2>2
<1> QED BY <1>1, <1>2, <1>3, <1>4, <1>5, <1>6

\* Who counts the last segment is alone with the picture.
LEMMA AloneWithLast ==
    ASSUME FilterPipelineAssumption, NEW ph \in [Slots -> Phases], Consistent(ph),
           NEW w \in Workers, at[w] = "work", Stage(w) \in Searching,
           Completes(Stage(w), job[w].slot)
    PROVE  Alone(w)
<1> DEFINE s == Stage(w)
           c == job[w].slot
           p == job[w].part
<1> USE DEF Consistent
<1>1. /\ c \in Slots /\ ph[c] = s /\ picture[c] # 0 /\ Outstanding(s, c) = {p}
      /\ ph[c] \in BeforeEntropy /\ s \in Resources
  BY SegmentUncounted DEF Searching, BeforeEntropy, Resources, Stages
<1>2. \A n \in 1 .. Amount(s, c) : Uncounted(s, c, n) => n = p
  BY <1>1 DEF Outstanding
<1>3. ASSUME NEW r \in Resources, NEW m \in Mail(r), m.slot = c PROVE FALSE
  <2>1. r = s /\ r # "dlf" /\ m \in Message
    BY <1>1, <1>3, SlotInUse DEF Searching
  <2>2. m = [slot |-> c, part |-> m.part] /\ m.part \in 1 .. Amount(s, c)
    BY <1>3, <2>1 DEF Message, PartsInRange
  <2>3. m.part = p
    BY <1>2, <2>1, <2>2 DEF Uncounted
  <2> QED BY <2>1, <2>2, <2>3 DEF PartsOnce, PartOf, Has
<1>4. ASSUME NEW v \in Workers, v # w, job[v].slot = c
      PROVE  ~Has(v) /\ at[v] # "filter" /\ ~Posts(v) /\ ~Passes(v) /\ ~Coding(v)
  <2>1. /\ ~Coding(v) /\ ~Passes(v) /\ at[v] # "rows"
        /\ Has(v) => at[v] = "work" /\ Stage(v) = s
    BY <1>1, <1>4, SameStage
  <2>2. at[v] # "filter"
    BY <1>1, <1>4, ZenonT(40) DEF OneStage, Filtering, Searching
  <2>3. ~Has(v)
    <3>1. SUFFICES ASSUME Has(v) PROVE FALSE
      OBVIOUS
    <3>2. v \notin Dlf /\ at[v] = "work" /\ Stage(v) = s
      BY <2>1, <3>1, StageOfWorker DEF Searching
    <3>3. job[v].part \in 1 .. Amount(s, c)
      BY <1>4, <3>2 DEF PartsInRange
    <3>4. job[v].part = p
      BY <1>2, <1>4, <3>2, <3>3 DEF Uncounted
    <3> QED BY <1>4, <3>1, <3>2, <3>4 DEF PartsOnce, Has
  <2>4. ~Posts(v)
    <3>1. SUFFICES ASSUME Posts(v) PROVE FALSE
      OBVIOUS
    <3>2. Output(Stage(v)) = s
      BY <1>1, <1>4, <3>1 DEF OneStage
    <3>3. Amount(s, c) \in Nat \ {0} /\ left[v] \in Nat \ {0} /\ left[v] <= Amount(s, c)
      BY <1>1, <1>4, <3>1, <3>2, PictureOfSlot, SMTT(30) DEF Posts, Types, PartsInRange
    <3>4. Amount(s, c) > Posted(v) /\ Posted(v) \in Nat
      BY <1>4, <3>2, <3>3 DEF Posted
    <3>5. Amount(s, c) = p
      <4>1. Uncounted(s, c, Amount(s, c))
        BY <1>4, <3>1, <3>2, <3>4 DEF Uncounted
      <4>2. Amount(s, c) \in 1 .. Amount(s, c)
        BY <3>3
      <4> QED BY <1>2, <4>1, <4>2
    <3>6. p <= Posted(v)
      BY <1>4, <3>1, <3>2 DEF UnpostedNowhere, Has
    <3> QED BY <3>3, <3>4, <3>5, <3>6
  <2> QED BY <2>1, <2>2, <2>3, <2>4
<1> QED BY <1>3, <1>4 DEF Alone

\* One member less.
LEMMA RemoveOne ==
    ASSUME NEW S, IsFiniteSet(S), NEW x \in S
    PROVE  Cardinality(S \ {x}) = Cardinality(S) - 1
BY FS_RemoveElement

\* What becomes of a worker's task when last is set.
LEMMA JobFields ==
    ASSUME NEW j \in Job, NEW b \in BOOLEAN
    PROVE  /\ [j EXCEPT !.last = b] \in Job
           /\ [j EXCEPT !.last = b].slot = j.slot /\ [j EXCEPT !.last = b].part = j.part
           /\ [j EXCEPT !.last = b].pic = j.pic /\ [j EXCEPT !.last = b].row = j.row
           /\ [j EXCEPT !.last = b].first = j.first /\ [j EXCEPT !.last = b].last = b
BY DEF Job

\* A segment is counted: it is not outstanding any more.
LEMMA CountKeeps ==
    ASSUME FilterPipelineAssumption, NEW ph \in [Slots -> Phases], Consistent(ph),
           NEW w \in Workers, CountSegment(w)
    PROVE  \E to \in [Slots -> Phases] : Consistent(to)'
<1> DEFINE s == Stage(w)
           c == job[w].slot
           p == job[w].part
<1> USE DEF Consistent
<1>1. /\ at[w] = "work" /\ s \in Searching /\ s \in Resources
      /\ at' = [at EXCEPT ![w] = IF Completes(s, c) THEN "filter" ELSE "release"]
      /\ job' = [job EXCEPT ![w].last = Completes(s, c)] /\ left' = left
      /\ searched' = [searched EXCEPT ![s][c] = @ + 1]
      /\ holder' = IF Completes(s, c) THEN [holder EXCEPT ![s][c] = w] ELSE holder
      /\ stream' = stream /\ started' = started /\ picture' = picture /\ packets' = packets
      /\ fresh' = fresh /\ tile' = tile /\ queue' = queue /\ free' = free
  BY DEF CountSegment, GoTo, Resources, Stages
<1>2. /\ c \in Slots /\ ph[c] = s /\ picture[c] # 0 /\ p \in Outstanding(s, c)
      /\ IsFiniteSet(Outstanding(s, c)) /\ Cardinality(Outstanding(s, c)) \in Nat
      /\ searched[s][c] \in Nat
      /\ searched[s][c] + Cardinality(Outstanding(s, c)) = Amount(s, c)
      /\ Total(s, c) = Amount(s, c) /\ ph[c] \in BeforeEntropy /\ Amount(s, c) \in Nat
  <2>1. Total(s, c) = Amount(s, c) /\ Amount(s, c) \in Nat
    BY <1>1, SegmentUncounted, PictureOfSlot
  <2> QED BY <1>1, <2>1, SegmentUncounted DEF Searching, BeforeEntropy
<1>3. /\ \A v \in Workers : v # w => at'[v] = at[v] /\ job'[v] = job[v] /\ left'[v] = left[v]
      /\ searched'[s][c] = searched[s][c] + 1
      /\ \A t \in Searching, d \in Slots : d # c \/ t # s => searched'[t][d] = searched[t][d]
      /\ at'[w] = (IF Completes(s, c) THEN "filter" ELSE "release") /\ job'[w].slot = c
  BY <1>1, <1>2 DEF Types, Job
<1>4. Types'
  <2>1. searched' \in [Searching -> [Slots -> Nat]]
    <3> DEFINE Of == [Slots -> Nat]
    <3>1. searched \in [Searching -> Of]
      BY DEF Types
    <3>2. [searched[s] EXCEPT ![c] = @ + 1] \in Of
      BY <1>1, <1>2, <3>1
    <3> QED BY <1>1, <3>1, <3>2
  <2>2. job' \in [Workers -> Job]
    <3>1. Completes(s, c) \in BOOLEAN
      BY DEF Completes
    <3>2. job \in [Workers -> Job] /\ [job[w] EXCEPT !.last = Completes(s, c)] \in Job
      BY <3>1, JobFields DEF Types
    <3> QED BY <1>1, <3>2
  <2>3. at' \in [Workers -> Places]
    BY <1>1 DEF Types, Places
  <2>4. holder' \in [Searching -> [Slots -> Workers \cup {None}]]
    BY <1>1 DEF Types
  <2> QED BY <1>1, <2>1, <2>2, <2>3, <2>4 DEF Types
<1>5. WorkersInPlace'
  <2>1. w \in Cdef \cup Rest /\ c # None
    BY <1>1, <1>2, StageOfWorker DEF FilterPipelineAssumption
  <2> QED BY <1>1, <1>3, <2>1 DEF WorkersInPlace
<1>6. CASE Completes(s, c)
  <2>1. Alone(w) /\ searched'[s][c] = Amount(s, c)
    BY <1>1, <1>2, <1>3, <1>6, AloneWithLast DEF Completes
  <2>2. Filtering(s) \in Phases
    BY DEF Filtering, Phases, BeforeEntropy
  <2>3. /\ UNCHANGED <<stream, started, picture, fresh, tile, queue, packets>>
        /\ at'[w] = "filter" /\ searched'[s][c] = Amount(s, c)
        /\ \A t \in Searching, d \in Slots : d # c => searched'[t][d] = searched[t][d]
    BY <1>1, <1>3, <1>6, <2>1
  <2>4. Consistent([ph EXCEPT ![c] = Filtering(s)])'
    <3> HIDE DEF Consistent
    <3> QED BY <1>1, <1>2, <1>3, <1>4, <1>5, <2>1, <2>2, <2>3, MovesOn
  <2> QED BY <2>2, <2>4
<1>7. CASE ~Completes(s, c)
  <2>1. at'[w] = "release" /\ Has(w) /\ ~Has(w)' /\ ~Posts(w) /\ ~Passes(w) /\ ~Coding(w)
        /\ ~Posts(w)' /\ ~Passes(w)' /\ ~Coding(w)'
    BY <1>1, <1>3, <1>7 DEF Has, Posts, Passes, Coding
  <2>2. \A v \in Workers : v # w =>
            /\ (Has(v)' <=> Has(v)) /\ (Posts(v)' <=> Posts(v)) /\ (Passes(v)' <=> Passes(v))
            /\ (Coding(v)' <=> Coding(v)) /\ PartOf(v)' = PartOf(v) /\ Posted(v)' = Posted(v)
            /\ TileOf(v)' = TileOf(v)
    BY <1>1, <1>3, SameWorker DEF TileOf
  <2>3. (\A r, d : Amount(r, d)' = Amount(r, d)) /\ (\A r : Mail(r)' = Mail(r))
    BY <1>1, SamePictures DEF Mail
  <2>4. OneStage(ph)'
    BY <1>1, <1>3, <2>1, <2>2, <2>3 DEF OneStage
  <2>5. PartsInRange'
    <3>1. ASSUME NEW v \in Workers
          PROVE  /\ at'[v] = "work" /\ v \in Dlf => job'[v].part = 0
                 /\ at'[v] = "work" /\ v \notin Dlf => job'[v].part \in 1 .. Amount(Stage(v), job'[v].slot)
                 /\ v \in Ec /\ Has(v)' => job'[v].part \in DOMAIN tile'[job'[v].slot]
                 /\ Posts(v)' => left'[v] <= Amount(Output(Stage(v)), job'[v].slot)
      BY <1>1, <1>3, <2>1, <2>2 DEF PartsInRange
    <3> QED BY <2>3, <3>1 DEF PartsInRange
  <2>6. PartsOnce'
    <3>1. \A r \in Resources : NoRepeats(queue'[r])
      BY <1>1 DEF PartsOnce
    <3>2. \A u, v \in Workers : u # v /\ Has(u)' /\ Has(v)' /\ Stage(u) = Stage(v) =>
              job'[u].slot # job'[v].slot \/ job'[u].part # job'[v].part
      BY <1>3, <2>1, <2>2 DEF PartsOnce
    <3>3. \A v \in Workers : Has(v)' => PartOf(v)' \notin Mail(Stage(v))'
      BY <2>1, <2>2, <2>3 DEF PartsOnce
    <3> QED BY <3>1, <3>2, <3>3 DEF PartsOnce
  <2>7. UnpostedNowhere'
    <3>1. SUFFICES ASSUME NEW v \in Workers, Posts(v)'
                   PROVE  /\ \A m \in Mail(Output(Stage(v)))' :
                                m.slot = job'[v].slot => m.part <= Posted(v)'
                          /\ \A u \in Workers : Has(u)' /\ Stage(u) = Output(Stage(v))
                                                  /\ job'[u].slot = job'[v].slot =>
                                job'[u].part <= Posted(v)'
      BY DEF UnpostedNowhere
    <3>2. v # w /\ Posts(v) /\ Posted(v)' = Posted(v) /\ job'[v] = job[v]
      BY <1>3, <2>1, <2>2, <3>1
    <3> QED BY <1>3, <2>1, <2>2, <2>3, <3>2 DEF UnpostedNowhere
  <2>8. ActorsOnce' /\ PassedOnce'
    BY <1>3, <2>1, <2>2, <2>3 DEF ActorsOnce, PassedOnce
  <2>9. CountsAgree(ph)'
    <3>1. ASSUME NEW t \in Searching, NEW d \in Slots, NEW n \in 1 .. Amount(t, d)
          PROVE  Uncounted(t, d, n)' <=> Uncounted(t, d, n) /\ ~(t = s /\ d = c /\ n = p)
      <4>1. (\E v \in Workers : Stage(v) = t /\ at'[v] = "work" /\ job'[v].slot = d /\ job'[v].part = n)
               <=> (\E v \in Workers : v # w /\ Stage(v) = t /\ at[v] = "work" /\ job[v].slot = d
                                         /\ job[v].part = n)
        BY <1>3, <2>1
      <4>2. (\E v \in Workers : Output(Stage(v)) = t /\ Posts(v)' /\ job'[v].slot = d /\ n > Posted(v)')
               <=> (\E v \in Workers : Output(Stage(v)) = t /\ Posts(v) /\ job[v].slot = d /\ n > Posted(v))
        BY <1>3, <2>1, <2>2
      <4>3. [slot |-> c, part |-> p] \notin Mail(s)
        BY <2>1 DEF PartsOnce, PartOf
      <4>4. ~ \E v \in Workers : v # w /\ Stage(v) = s /\ at[v] = "work" /\ job[v].slot = c
                                   /\ job[v].part = p
        BY <2>1 DEF PartsOnce, Has
      <4>5. ~ \E v \in Workers : Output(Stage(v)) = s /\ Posts(v) /\ job[v].slot = c /\ p > Posted(v)
        <5>1. SUFFICES ASSUME NEW v \in Workers, Output(Stage(v)) = s, Posts(v), job[v].slot = c
                       PROVE  ~(p > Posted(v))
          OBVIOUS
        <5>2. p <= Posted(v)
          BY <2>1, <5>1 DEF UnpostedNowhere
        <5>3. Posted(v) \in Int /\ p \in Int
          BY <1>2, <5>1, SMTT(30) DEF Posted, Types, Job
        <5> QED BY <5>2, <5>3
      <4> QED BY <1>1, <2>3, <4>1, <4>2, <4>3, <4>4, <4>5 DEF Uncounted
    <3>2. ASSUME NEW t \in Searching, NEW d \in Slots, t # s \/ d # c
          PROVE  Outstanding(t, d)' = Outstanding(t, d)
      BY <2>3, <3>1, <3>2 DEF Outstanding
    <3>3. \A d \in Slots : d = c => Outstanding(s, d)' = Outstanding(s, c) \ {p}
      BY <1>1, <1>2, <2>3, <3>1 DEF Outstanding
    <3>4. Cardinality(Outstanding(s, c) \ {p}) = Cardinality(Outstanding(s, c)) - 1
      BY <1>2, RemoveOne
    <3>5. ASSUME NEW t \in Searching, NEW d \in Slots, ph[d] = t
          PROVE  searched'[t][d] + Cardinality(Outstanding(t, d)') = Amount(t, d)
      <4>1. CASE t = s /\ d = c
        <5>1. \A i, n \in Nat : i + n = Amount(s, c) => (i + 1) + (n - 1) = Amount(s, c)
          BY <1>2
        <5>2. Cardinality(Outstanding(t, d)') = Cardinality(Outstanding(s, c)) - 1
          BY <3>3, <3>4, <4>1
        <5>3. searched'[t][d] = searched[s][c] + 1
          BY <1>3, <4>1
        <5> QED BY <1>2, <4>1, <5>1, <5>2, <5>3, ZenonT(40)
      <4>2. CASE t # s \/ d # c
        BY <1>3, <3>2, <3>5, <4>2 DEF CountsAgree
      <4> QED BY <4>1, <4>2
    <3>6. ASSUME NEW v \in Workers, at'[v] = "filter"
          PROVE  searched'[Stage(v)][job'[v].slot] = Amount(Stage(v), job'[v].slot)
      <4>1. v # w /\ at[v] = "filter" /\ job'[v] = job[v] /\ job[v].slot \in Slots
        BY <1>3, <2>1, <3>6, SlotInUse
      <4>2. Stage(v) \in Searching /\ ph[job[v].slot] = Filtering(Stage(v))
        BY <4>1, StageOfWorker DEF WorkersInPlace, OneStage
      <4>3. job[v].slot # c
        BY <1>1, <1>2, <4>2 DEF Filtering, Searching
      <4>4. searched'[Stage(v)][job[v].slot] = searched[Stage(v)][job[v].slot]
        BY <1>3, <4>1, <4>2, <4>3
      <4> QED BY <4>1, <4>4 DEF CountsAgree
    <3>7. \A t \in Searching, d \in Slots : ph[d] = t =>
             searched'[t][d] + Cardinality(Outstanding(t, d)') = Amount(t, d)'
      BY <2>3, <3>5
    <3> QED BY <2>3, <3>6, <3>7 DEF CountsAgree
  <2>10. TilesMade(ph)' /\ TilesByStage(ph)' /\ TilesCoded'
    BY <1>1, SamePictures DEF TilesMade, TilesByStage, TilesCoded
  <2>11. TilesWaiting'
    <3>1. \A v \in Rest : Posts(v)' => Posts(v) /\ Posted(v)' = Posted(v) /\ job'[v] = job[v]
      BY <1>3, <2>1, <2>2 DEF Workers
    <3> QED BY <1>1, <2>3, <3>1 DEF TilesWaiting
  <2>12. TileWithWorker' /\ PicturesDiffer'
    BY <1>1, <1>3, <2>1, <2>2 DEF TileWithWorker, Agrees, PicturesDiffer, Workers
  <2> QED BY <1>4, <1>5, <2>4, <2>5, <2>6, <2>7, <2>8, <2>9, <2>10, <2>11, <2>12
<1> QED BY <1>6, <1>7

\* A worker of Entropy Coding makes u of the tile it is at.  The stages of the slots
\* become to: when that was the last tile of the picture, it is to be passed on.
TileBecomes(w, u) ==
    /\ tile' = [tile EXCEPT ![job[w].slot] = [@ EXCEPT ![job[w].part] = u]]
    /\ u.rows = TileOf(w).rows /\ u.row <= u.rows /\ (TileOf(w).done => u.done)
    /\ u.done => u.coded = u.rows
    /\ fresh'[job[w].slot] => u.coded = 0
    /\ \A d \in Slots : fresh'[d] => fresh[d]
    /\ Has(w)' => Agrees(w)'

OnlyWorker(w) ==
    /\ \A v \in Workers : v # w => at'[v] = at[v] /\ job'[v] = job[v] /\ left'[v] = left[v]
    /\ job'[w].slot = job[w].slot /\ job'[w].part = job[w].part
    /\ at'[w] \in {"rows", "row", "code", "finish", "post", "release"}
    /\ stream' = stream /\ started' = started /\ picture' = picture /\ searched' = searched
    /\ holder' = holder /\ free' = free /\ queue' = queue /\ packets' = packets

StagesBecome(w, u, ph, to) ==
    /\ Posts(w)' => left'[w] = 1 /\ Passes(w) /\ to = ph
    /\ Passes(w)' => to # ph
    /\ \/ to = ph
       \/ /\ ph[job[w].slot] = "ec" /\ to = [ph EXCEPT ![job[w].slot] = "packet"]
          /\ \A k \in DOMAIN tile[job[w].slot] : tile'[job[w].slot][k].done
          /\ at'[w] = "rows"
    /\ Coding(w)' \/ (at'[w] = "rows" /\ ~u.done) => to[job[w].slot] = "ec"

\* A step of a worker at its tile keeps the invariant when it does no more than this.
LEMMA TileStepKeeps ==
    ASSUME FilterPipelineAssumption, NEW ph \in [Slots -> Phases], Consistent(ph),
           NEW w \in Ec, Has(w), NEW u \in Tile, NEW to \in [Slots -> Phases],
           TileBecomes(w, u), OnlyWorker(w), StagesBecome(w, u, ph, to), Types', WorkersInPlace'
    PROVE  Consistent(to)'
<1> DEFINE c == job[w].slot
           k == job[w].part
<1> USE DEF Consistent
<1>1. /\ w \in Workers /\ Stage(w) = "ec" /\ w \notin Rest /\ w \notin Dlf
      /\ Output("ec") = "packet" /\ at[w] \in {"rows", "row", "code", "finish"}
  BY StageOfWorker DEF Workers, WorkersInPlace, Has
<1>2. c \in Slots /\ k \in DOMAIN tile[c]
  <2>1. at[w] # "idle"
    BY <1>1
  <2> QED BY <1>1, <2>1, SlotInUse DEF PartsInRange
<1>3. /\ stream' = stream /\ started' = started /\ picture' = picture /\ packets' = packets
      /\ queue' = queue /\ searched' = searched
      /\ job'[w].slot = c /\ job'[w].part = k
      /\ at'[w] \in {"rows", "row", "code", "finish", "post", "release"}
  BY DEF OnlyWorker
<1>4. /\ Posts(w)' => left'[w] = 1 /\ Passes(w) /\ to = ph
      /\ Passes(w)' => to # ph
      /\ Coding(w)' \/ (at'[w] = "rows" /\ ~u.done) => to[c] = "ec"
      /\ to # ph => /\ ph[c] = "ec" /\ to = [ph EXCEPT ![c] = "packet"] /\ at'[w] = "rows"
                    /\ \A n \in DOMAIN tile[c] : tile'[c][n].done
  BY DEF StagesBecome
<1>5. /\ u.rows = tile[c][k].rows /\ u.row <= u.rows /\ (tile[c][k].done => u.done)
      /\ (u.done => u.coded = u.rows) /\ (fresh'[c] => u.coded = 0)
      /\ (\A d \in Slots : fresh'[d] => fresh[d]) /\ (Has(w)' => Agrees(w)')
  BY DEF TileBecomes, TileOf
<1>6. /\ \A v \in Workers : v # w =>
            /\ at'[v] = at[v] /\ job'[v] = job[v] /\ left'[v] = left[v]
            /\ (Has(v)' <=> Has(v)) /\ (Posts(v)' <=> Posts(v)) /\ (Passes(v)' <=> Passes(v))
            /\ (Coding(v)' <=> Coding(v)) /\ PartOf(v)' = PartOf(v) /\ Posted(v)' = Posted(v)
      /\ (\A r, d : Amount(r, d)' = Amount(r, d)) /\ (\A r : Mail(r)' = Mail(r))
      /\ PartOf(w)' = PartOf(w)
  BY SameWorker, SamePictures DEF OnlyWorker, Mail, PartOf
<1>7. /\ tile[c] \in Seq(Tile) /\ tile'[c] = [tile[c] EXCEPT ![k] = u] /\ TileOf(w)' = u
      /\ DOMAIN tile'[c] = DOMAIN tile[c] /\ Len(tile'[c]) = Len(tile[c]) /\ tile'[c][k] = u
      /\ \A n \in DOMAIN tile[c] : n # k => tile'[c][n] = tile[c][n]
      /\ \A d \in Slots : d # c => tile'[d] = tile[d]
  <2>1. tile[c] \in Seq(Tile) /\ tile'[c] = [tile[c] EXCEPT ![k] = u]
    <3>1. tile \in [Slots -> Seq(Tile)]
      BY DEF Types
    <3>2. tile' = [tile EXCEPT ![c] = [@ EXCEPT ![k] = u]]
      BY DEF TileBecomes
    <3> QED BY <1>2, <3>1, <3>2
  <2>2. \A d \in Slots : d # c => tile'[d] = tile[d]
    BY DEF Types, TileBecomes
  <2>3. Len(tile'[c]) = Len(tile[c]) /\ DOMAIN tile'[c] = DOMAIN tile[c]
    BY <1>2, <2>1
  <2>4. TileOf(w)' = tile'[c][k]
    BY <1>3 DEF TileOf
  <2>5. tile'[c][k] = u /\ \A n \in DOMAIN tile[c] : n # k => tile'[c][n] = tile[c][n]
    BY <1>2, <2>1
  <2> QED BY <2>1, <2>2, <2>3, <2>4, <2>5
<1>8. \A d \in Slots : DOMAIN tile'[d] = DOMAIN tile[d] /\ Len(tile'[d]) = Len(tile[d])
                       /\ (tile'[d] = <<>> <=> tile[d] = <<>>)
  <2> TAKE d \in Slots
  <2>1. CASE d = c
    <3>1. tile'[c] # <<>> /\ tile[c] # <<>>
      BY <1>2, <1>7
    <3> QED BY <1>7, <2>1, <3>1
  <2>2. CASE d # c
    BY <1>7, <2>2
  <2> QED BY <2>1, <2>2
<1>9. /\ \A v \in Workers : job'[v].slot = job[v].slot /\ job'[v].part = job[v].part
      /\ \A v \in Workers : Has(v)' => Has(v)
  <2>1. Has(w)
    BY <1>1 DEF Has
  <2> QED BY <1>3, <1>6, <2>1, Zenon
<1>10. \A v \in Ec : v # w /\ Has(v) => TileOf(v)' = TileOf(v)
  <2>1. SUFFICES ASSUME NEW v \in Ec, v # w, Has(v) PROVE TileOf(v)' = TileOf(v)
    OBVIOUS
  <2>2. v \in Workers /\ Stage(v) = "ec" /\ job'[v] = job[v] /\ job[v].part \in DOMAIN tile[job[v].slot]
    BY <1>6, <2>1, StageOfWorker DEF Workers, PartsInRange
  <2>3. job[v].slot \in Slots
    BY <2>1, <2>2, SlotInUse DEF Has
  <2>4. job[v].slot # c \/ job[v].part # k
    BY <1>1, <2>1, <2>2 DEF PartsOnce
  <2>5. tile'[job[v].slot][job[v].part] = tile[job[v].slot][job[v].part]
    <3>1. CASE job[v].slot = c
      <4>1. job[v].part \in DOMAIN tile[c] /\ job[v].part # k
        BY <2>2, <2>4, <3>1
      <4>2. tile'[c][job[v].part] = tile[c][job[v].part]
        BY <1>7, <4>1
      <4> QED BY <3>1, <4>2
    <3>2. CASE job[v].slot # c
      <4>1. tile'[job[v].slot] = tile[job[v].slot]
        BY <1>7, <2>3, <3>2, Zenon
      <4> QED BY <4>1, Zenon
    <3> QED BY <3>1, <3>2, Zenon
  <2> QED BY <2>2, <2>5, Zenon DEF TileOf
<1>11. ph[c] \notin BeforeEntropy
  BY <1>1, <1>2, SameStage
<1>12. ASSUME to # ph
      PROVE  /\ \A r \in Resources : \A m \in Mail(r) : m.slot # c
             /\ \A v \in Workers : v # w /\ job[v].slot = c =>
                   /\ at[v] # "work" /\ at[v] # "filter" /\ ~Posts(v) /\ ~Coding(v) /\ ~Passes(v)
                   /\ at[v] = "rows" => TileOf(v)'.done
  <2>1. /\ ph[c] = "ec" /\ picture[c] # 0 /\ \A n \in DOMAIN tile[c] : tile'[c][n].done
        /\ DOMAIN tile[c] = 1 .. Amount("ec", c) /\ Amount("ec", c) \in Nat \ {0}
    <3>1. ph[c] = "ec" /\ \A n \in DOMAIN tile[c] : tile'[c][n].done
      BY <1>4, <1>12
    <3>2. picture[c] # 0
      BY <1>2, <3>1 DEF OneStage
    <3> QED BY <1>2, <3>1, <3>2, PictureOfSlot DEF TilesMade, Resources, Stages
  <2>2. ASSUME NEW n \in DOMAIN tile[c], n # k PROVE ~Untouched(tile[c][n])
    BY <1>7, <2>1, <2>2 DEF Untouched
  <2>3. ASSUME NEW r \in Resources, NEW m \in Mail(r), m.slot = c PROVE FALSE
    <3>1. r = "ec" /\ m \in Message
      BY <2>1, <2>3, SlotInUse
    <3>2. m.part \in DOMAIN tile[c] /\ m = [slot |-> c, part |-> m.part]
      <4>1. m.part \in 1 .. Amount("ec", m.slot)
        BY <2>3, <3>1 DEF PartsInRange
      <4> QED BY <2>1, <2>3, <3>1, <4>1 DEF Message
    <3>3. m.part # k
      BY <1>1, <2>3, <3>1, <3>2 DEF PartsOnce, PartOf
    <3> QED BY <2>2, <2>3, <3>1, <3>2, <3>3 DEF TilesWaiting
  <2>4. ASSUME NEW v \in Workers, v # w, job[v].slot = c
        PROVE  /\ at[v] # "work" /\ at[v] # "filter" /\ ~Posts(v) /\ ~Coding(v) /\ ~Passes(v)
               /\ at[v] = "rows" => TileOf(v)'.done
    <3>1. at[v] # "work" /\ at[v] # "filter" /\ ~Passes(v)
      <4>1. Filtering(Stage(v)) # "ec" /\ (at[v] = "work" => Stage(v) # "ec")
        BY StageOfWorker DEF Filtering, WorkersInPlace
      <4> QED BY <2>1, <2>4, <4>1 DEF OneStage
    <3>2. ~Posts(v)
      <4>1. SUFFICES ASSUME Posts(v) PROVE FALSE
        OBVIOUS
      <4>2. Output(Stage(v)) = "ec"
        BY <2>1, <2>4, <4>1 DEF OneStage
      <4>3. v \in Rest
        BY <4>2, StageOfWorker DEF Stages, Searching
      <4>4. left[v] \in Nat \ {0} /\ left[v] <= Amount("ec", c)
        BY <2>4, <4>1, <4>2 DEF Posts, Types, PartsInRange
      <4>5. Amount("ec", c) \in DOMAIN tile[c] /\ Amount("ec", c) > Posted(v) /\ Posted(v) \in Nat
        BY <2>1, <2>4, <4>2, <4>4 DEF Posted
      <4>6. k <= Posted(v) /\ k \in Nat
        BY <1>1, <1>2, <2>1, <2>4, <4>1, <4>2 DEF UnpostedNowhere
      <4>7. Amount("ec", c) # k
        BY <4>5, <4>6
      <4> QED BY <2>2, <2>4, <4>1, <4>3, <4>5, <4>7 DEF TilesWaiting
    <3>3. at[v] \in {"rows", "row", "code", "finish"} => TileOf(v)'.done /\ TileOf(v)' = TileOf(v) /\ v \in Ec
      <4>1. SUFFICES ASSUME at[v] \in {"rows", "row", "code", "finish"}
                     PROVE  TileOf(v)'.done /\ TileOf(v)' = TileOf(v) /\ v \in Ec
        OBVIOUS
      <4>2. v \in Ec /\ Has(v) /\ job[v].part \in DOMAIN tile[c] /\ job'[v] = job[v]
        BY <1>6, <2>4, <4>1 DEF WorkersInPlace, Has, PartsInRange
      <4>3. TileOf(v)' = tile'[c][job[v].part]
        BY <2>4, <4>2 DEF TileOf
      <4> QED BY <1>10, <2>1, <2>4, <4>2, <4>3
    <3>4. ~Coding(v)
      BY <3>3 DEF Coding, Has, TileWithWorker, Agrees
    <3> QED BY <3>1, <3>2, <3>3, <3>4
  <2> QED BY <2>3, <2>4
<1>13. /\ \A d \in Slots : d # c => to[d] = ph[d]
       /\ to # ph => to[c] = "packet" /\ ph[c] = "ec"
       /\ \A d \in Slots : to[d] = "pool" <=> ph[d] = "pool"
       /\ \A d \in Slots : to[d] \in BeforeEntropy <=> ph[d] \in BeforeEntropy
  BY <1>2, <1>4 DEF BeforeEntropy
<1>14. \A v \in Workers : at[v] # "idle" => job[v].slot \in Slots
  BY SlotInUse
<1>15. OneStage(to)'
  <2>1. \A d \in Slots : picture'[d] = 0 <=> to[d] = "pool"
    BY <1>3, <1>13 DEF OneStage
  <2>2. \A r \in Resources : \A m \in Mail(r)' : to[m.slot] = r
    BY <1>6, <1>12, <1>13, SlotInUse DEF Message
  <2>3. ASSUME NEW v \in Workers
        PROVE  /\ at'[v] = "work" => to[job'[v].slot] = Stage(v)
               /\ at'[v] = "filter" => to[job'[v].slot] = Filtering(Stage(v))
               /\ Posts(v)' => to[job'[v].slot] = Output(Stage(v))
               /\ Coding(v)' => to[job'[v].slot] = "ec"
               /\ at'[v] = "rows" /\ ~TileOf(v)'.done => to[job'[v].slot] = "ec"
               /\ Passes(v)' => to[job'[v].slot] = "packet"
    <3>1. CASE v = w
      <4>1. at'[w] # "work" /\ at'[w] # "filter"
        BY <1>3
      <4>2. Posts(w)' => to[c] = "packet"
        BY <1>1, <1>4 DEF OneStage
      <4>3. Passes(w)' => to[c] = "packet"
        BY <1>4, <1>13
      <4> QED BY <1>1, <1>3, <1>4, <1>7, <3>1, <4>1, <4>2, <4>3
    <3>2. CASE v # w /\ (to = ph \/ job[v].slot # c)
      <4>1. at[v] # "idle" => to[job[v].slot] = ph[job[v].slot]
        BY <1>13, <1>14, <3>2
      <4>2. at[v] = "rows" => TileOf(v)' = TileOf(v)
        BY <1>10, <3>2 DEF WorkersInPlace, Has
      <4> QED BY <1>6, <3>2, <4>1, <4>2 DEF OneStage, Posts, Coding, Passes
    <3>3. CASE v # w /\ to # ph /\ job[v].slot = c
      BY <1>6, <1>12, <3>3
    <3> QED BY <3>1, <3>2, <3>3
  <2> QED BY <2>1, <2>2, <2>3 DEF OneStage
<1>16. PartsInRange'
  <2>1. ASSUME NEW v \in Workers
        PROVE  /\ at'[v] = "work" /\ v \in Dlf => job'[v].part = 0
               /\ at'[v] = "work" /\ v \notin Dlf => job'[v].part \in 1 .. Amount(Stage(v), job'[v].slot)
               /\ v \in Ec /\ Has(v)' => job'[v].part \in DOMAIN tile'[job'[v].slot]
               /\ Posts(v)' => left'[v] <= Amount(Output(Stage(v)), job'[v].slot)
    <3>1. CASE v = w
      <4>1. Amount("packet", c) = 1
        BY DEF Amount
      <4> QED BY <1>1, <1>2, <1>3, <1>4, <1>8, <3>1, <4>1
    <3>2. CASE v # w
      <4>1. v \in Ec /\ Has(v) => job[v].slot \in Slots
        BY <1>14 DEF Has
      <4>2. at'[v] = at[v] /\ job'[v] = job[v] /\ left'[v] = left[v] /\ (Has(v)' <=> Has(v))
            /\ (Posts(v)' <=> Posts(v))
        BY <1>6, <3>2
      <4>3. v \in Ec /\ Has(v)' => job'[v].part \in DOMAIN tile'[job'[v].slot]
        BY <1>8, <4>1, <4>2 DEF PartsInRange
      <4>4. /\ at'[v] = "work" /\ v \in Dlf => job'[v].part = 0
            /\ at'[v] = "work" /\ v \notin Dlf => job'[v].part \in 1 .. Amount(Stage(v), job'[v].slot)
            /\ Posts(v)' => left'[v] <= Amount(Output(Stage(v)), job'[v].slot)
        BY <4>2 DEF PartsInRange
      <4> QED BY <4>3, <4>4
    <3> QED BY <3>1, <3>2
  <2> QED BY <1>6, <2>1 DEF PartsInRange
<1>17. PartsOnce'
  <2>1. \A r \in Resources : NoRepeats(queue'[r])
    BY <1>3 DEF PartsOnce
  <2>2. \A x, v \in Workers : x # v /\ Has(x)' /\ Has(v)' /\ Stage(x) = Stage(v) =>
            job'[x].slot # job'[v].slot \/ job'[x].part # job'[v].part
    BY <1>9 DEF PartsOnce
  <2>3. \A v \in Workers : Has(v)' => PartOf(v)' \notin Mail(Stage(v))'
    BY <1>6 DEF PartsOnce
  <2> QED BY <2>1, <2>2, <2>3 DEF PartsOnce
<1>18. UnpostedNowhere'
  <2>1. SUFFICES ASSUME NEW v \in Workers, Posts(v)'
                 PROVE  /\ \A m \in Mail(Output(Stage(v)))' :
                              m.slot = job'[v].slot => m.part <= Posted(v)'
                        /\ \A x \in Workers : Has(x)' /\ Stage(x) = Output(Stage(v))
                                                /\ job'[x].slot = job'[v].slot =>
                              job'[x].part <= Posted(v)'
    BY DEF UnpostedNowhere
  <2>2. CASE v = w
    <3>1. Passes(w) /\ Output(Stage(w)) = "packet"
      BY <1>1, <1>4, <2>1, <2>2
    <3>2. \A m \in Mail("packet") : m.slot # c
      BY <1>1, <3>1 DEF PassedOnce
    <3>3. \A x \in Workers : Stage(x) # "packet"
      BY StageOfWorker DEF Stages, Searching
    <3> QED BY <1>3, <1>6, <2>2, <3>1, <3>2, <3>3
  <2>3. CASE v # w
    <3>1. Posts(v) /\ Posted(v)' = Posted(v) /\ job'[v] = job[v]
      BY <1>6, <2>1, <2>3
    <3>2. /\ \A m \in Mail(Output(Stage(v))) : m.slot = job[v].slot => m.part <= Posted(v)
          /\ \A x \in Workers : Has(x) /\ Stage(x) = Output(Stage(v)) /\ job[x].slot = job[v].slot =>
                job[x].part <= Posted(v)
      BY <3>1 DEF UnpostedNowhere
    <3> QED BY <1>6, <1>9, <3>1, <3>2
  <2> QED BY <2>2, <2>3
<1>19. ActorsOnce'
  <2>1. SUFFICES ASSUME NEW x \in Workers, NEW v \in Workers, x # v, Stage(x) = Stage(v),
                        job'[x].slot = job'[v].slot
                 PROVE  /\ ~(at'[x] = "filter" /\ at'[v] = "filter")
                        /\ ~(Posts(x)' /\ Posts(v)')
                        /\ ~(Passes(x)' /\ (Passes(v)' \/ Posts(v)'))
    BY DEF ActorsOnce
  <2>2. CASE x # w /\ v # w
    <3>1. /\ at'[x] = at[x] /\ job'[x] = job[x] /\ (Posts(x)' <=> Posts(x)) /\ (Passes(x)' <=> Passes(x))
          /\ at'[v] = at[v] /\ job'[v] = job[v] /\ (Posts(v)' <=> Posts(v)) /\ (Passes(v)' <=> Passes(v))
      BY <1>6, <2>2
    <3>2. job[x].slot = job[v].slot
      BY <2>1, <3>1
    <3> QED BY <2>1, <3>1, <3>2 DEF ActorsOnce
  <2>3. ASSUME NEW y \in Workers, y # w, Stage(y) = "ec", job[y].slot = c, Passes(y)' \/ Posts(y)'
        PROVE  ~Passes(w)' /\ ~Posts(w)'
    <3>1. Passes(y) \/ Posts(y)
      BY <1>6, <2>3
    <3>2. to = ph
      BY <1>12, <2>3, <3>1
    <3>3. ~Passes(w)
      BY <1>1, <2>3, <3>1 DEF ActorsOnce
    <3> QED BY <1>4, <3>2, <3>3
  <2>4. at'[w] # "filter"
    BY <1>3
  <2>5. CASE x = w
    <3>1. v # w /\ Stage(v) = "ec" /\ job[v].slot = c
      BY <1>1, <1>3, <1>6, <2>1, <2>5
    <3> QED BY <2>3, <2>4, <2>5, <3>1
  <2>6. CASE v = w
    <3>1. x # w /\ Stage(x) = "ec" /\ job[x].slot = c
      BY <1>1, <1>3, <1>6, <2>1, <2>6
    <3> QED BY <2>3, <2>4, <2>6, <3>1
  <2> QED BY <2>2, <2>5, <2>6
<1>20. PassedOnce'
  <2>1. Passes(w)' => \A m \in Mail("packet") : m.slot # c
    BY <1>4, <1>12 DEF Resources
  <2>2. ASSUME NEW v \in Workers, Passes(v)' PROVE \A m \in Mail("packet") : m.slot # job'[v].slot
    <3>1. CASE v = w
      BY <1>3, <2>1, <2>2, <3>1
    <3>2. CASE v # w
      <4>1. Passes(v) /\ job'[v] = job[v]
        BY <1>6, <2>2, <3>2
      <4> QED BY <4>1 DEF PassedOnce
    <3> QED BY <3>1, <3>2
  <2>3. Mail("packet")' = Mail("packet")
    BY <1>6
  <2> QED BY <2>2, <2>3 DEF PassedOnce
<1>21. CountsAgree(to)'
  <2>1. \A t \in Searching, d \in Slots : to[d] = t => ph[d] = t
    BY <1>13 DEF Searching
  <2>2. ASSUME NEW t \in Searching, NEW d \in Slots
        PROVE  Outstanding(t, d)' = Outstanding(t, d)
    <3>1. at[w] # "work" /\ at'[w] # "work" /\ Output(Stage(w)) # t
      BY <1>1, <1>3 DEF Searching
    <3>2. ASSUME NEW p \in 1 .. Amount(t, d) PROVE Uncounted(t, d, p)' <=> Uncounted(t, d, p)
      <4>1. (\E v \in Workers : Stage(v) = t /\ at'[v] = "work" /\ job'[v].slot = d /\ job'[v].part = p)
               <=> (\E v \in Workers : Stage(v) = t /\ at[v] = "work" /\ job[v].slot = d /\ job[v].part = p)
        <5>1. \A v \in Workers : v # w => at'[v] = at[v] /\ job'[v] = job[v]
          BY <1>6
        <5> QED BY <3>1, <5>1, Zenon
      <4>2. (\E v \in Workers : Output(Stage(v)) = t /\ Posts(v)' /\ job'[v].slot = d /\ p > Posted(v)')
               <=> (\E v \in Workers : Output(Stage(v)) = t /\ Posts(v) /\ job[v].slot = d /\ p > Posted(v))
        <5>1. \A v \in Workers : v # w =>
                  job'[v] = job[v] /\ (Posts(v)' <=> Posts(v)) /\ Posted(v)' = Posted(v)
          BY <1>6
        <5>2. \A v \in Workers : Output(Stage(v)) = t => v # w
          BY <3>1
        <5>3. \A v \in Workers :
                  Output(Stage(v)) = t /\ Posts(v)' /\ job'[v].slot = d /\ p > Posted(v)'
                     <=> Output(Stage(v)) = t /\ Posts(v) /\ job[v].slot = d /\ p > Posted(v)
          BY <5>1, <5>2
        <5> QED BY <5>3, Zenon
      <4>3. Mail(t)' = Mail(t)
        BY <1>6
      <4>4. ([slot |-> d, part |-> p] \in Mail(t))' <=> [slot |-> d, part |-> p] \in Mail(t)
        BY <4>3
      <4> QED BY <4>1, <4>2, <4>4 DEF Uncounted
    <3> QED BY <1>6, <3>2 DEF Outstanding
  <2>3. at[w] # "filter" /\ at'[w] # "filter"
    BY <1>1, <1>3
  <2>4. ASSUME NEW v \in Workers, at'[v] = "filter" PROVE at[v] = "filter" /\ job'[v] = job[v]
    BY <1>6, <2>3, <2>4
  <2>5. ASSUME NEW t \in Searching, NEW d \in Slots, to[d] = t
        PROVE  searched'[t][d] + Cardinality(Outstanding(t, d)') = Amount(t, d)'
    BY <1>3, <1>6, <2>1, <2>2, <2>5 DEF CountsAgree
  <2>6. ASSUME NEW v \in Workers, at'[v] = "filter"
        PROVE  searched'[Stage(v)][job'[v].slot] = Amount(Stage(v), job'[v].slot)
    BY <1>3, <2>4, <2>6 DEF CountsAgree
  <2> QED BY <1>6, <2>5, <2>6 DEF CountsAgree
<1>22. TilesMade(to)'
  <2>1. \A d : Pic(d)' = Pic(d) /\ Tiles(d)' = Tiles(d)
    BY <1>3, SamePictures
  <2>2. \A d \in Slots : \A n \in DOMAIN tile[d] : tile'[d][n].rows = tile[d][n].rows
    <3>1. \A n \in DOMAIN tile[c] : tile'[c][n].rows = tile[c][n].rows
      <4>1. tile'[c][k].rows = tile[c][k].rows
        BY <1>5, <1>7, Zenon
      <4> QED BY <1>7, <4>1, Zenon
    <3>2. \A d \in Slots : d # c => tile'[d] = tile[d]
      BY <1>7
    <3> QED BY <3>1, <3>2, Zenon
  <2>3. \A d \in Slots : to[d] # "pool" <=> ph[d] # "pool"
    BY <1>13
  <2>4. \A d \in Slots : tile'[d] # <<>> => Len(tile'[d]) = Len(stream'[1].rows)
    BY <1>3, <1>8, Zenon DEF TilesMade
  <2>5. ASSUME NEW d \in Slots, to[d] # "pool"
        PROVE  /\ DOMAIN tile'[d] = Tiles(d)'
               /\ \A n \in DOMAIN tile'[d] : tile'[d][n].rows = Pic(d)'.rows[n]
    <3>1. /\ DOMAIN tile[d] = Tiles(d)
          /\ \A n \in DOMAIN tile[d] : tile[d][n].rows = Pic(d).rows[n]
      BY <2>3, <2>5, Zenon DEF TilesMade
    <3> QED BY <1>8, <2>1, <2>2, <3>1, Zenon
  <2> QED BY <2>4, <2>5, Zenon DEF TilesMade
<1>23. TilesByStage(to)' /\ TilesCoded'
  <2>1. SUFFICES ASSUME NEW d \in Slots, NEW n \in DOMAIN tile'[d]
        PROVE  /\ to[d] \in BeforeEntropy => Untouched(tile'[d][n])
               /\ to[d] = "packet" => tile'[d][n].done
               /\ tile'[d][n].row <= tile'[d][n].rows
               /\ tile'[d][n].done => tile'[d][n].coded = tile'[d][n].rows
               /\ fresh'[d] => tile'[d][n].coded = 0
    BY DEF TilesByStage, TilesCoded
  <2>2. n \in DOMAIN tile[d]
    BY <1>8
  <2>3. CASE d = c /\ n = k
    <3>1. ph[c] = "packet" => tile[c][k].done
      BY <1>2 DEF TilesByStage
    <3>2. to[c] = "packet" => u.done
      <4>1. to # ph => tile'[c][k].done
        BY <1>2, <1>4
      <4> QED BY <1>5, <1>7, <3>1, <4>1, Zenon
    <3>3. tile'[d][n] = u
      BY <1>7, <2>3
    <3>4. to[c] \notin BeforeEntropy
      BY <1>2, <1>11, <1>13
    <3> QED BY <1>5, <2>3, <3>2, <3>3, <3>4
  <2>4. CASE d # c \/ n # k
    <3>1. tile'[d][n] = tile[d][n]
      BY <1>7, <2>4
    <3>2. to[d] = "packet" => tile'[d][n].done
      <4>1. n \in DOMAIN tile[d] /\ (ph[d] = "packet" => tile[d][n].done)
        BY <2>2 DEF TilesByStage
      <4>2. to # ph => \A i \in DOMAIN tile[c] : tile'[c][i].done
        BY <1>4
      <4>3. to[d] = ph[d] \/ (to # ph /\ d = c)
        BY <1>13
      <4> QED BY <3>1, <4>1, <4>2, <4>3, Zenon
    <3> QED BY <1>5, <1>13, <2>2, <3>1, <3>2 DEF TilesByStage, TilesCoded
  <2> QED BY <2>3, <2>4
<1>24. TilesWaiting'
  <2>1. ASSUME NEW m \in Mail("ec") PROVE Untouched(tile'[m.slot][m.part])
    <3>1. m \in Message /\ m.slot \in Slots /\ picture[m.slot] # 0 /\ ph[m.slot] = "ec"
      BY SlotInUse DEF Message, Resources, Stages
    <3>2. m # PartOf(w) /\ m.part \in 1 .. Amount("ec", m.slot)
      <4>1. m # PartOf(w)
        BY <1>1 DEF PartsOnce
      <4>2. "ec" \in Resources \ {"dlf"}
        BY DEF Resources, Stages
      <4> QED BY <4>1, <4>2 DEF PartsInRange
    <3>3. m.slot # c \/ m.part # k
      BY <3>1, <3>2 DEF PartOf, Message
    <3>4. m.part \in DOMAIN tile[m.slot]
      BY <3>1, <3>2, PictureOfSlot DEF TilesMade
    <3> QED BY <1>7, <3>1, <3>3, <3>4 DEF TilesWaiting
  <2>2. ASSUME NEW v \in Rest, Posts(v)', NEW n \in DOMAIN tile'[job'[v].slot], n > Posted(v)'
        PROVE  Untouched(tile'[job'[v].slot][n])
    <3>1. v # w /\ v \in Workers /\ Posts(v) /\ job'[v] = job[v] /\ Posted(v)' = Posted(v)
          /\ Output(Stage(v)) = "ec"
      BY <1>1, <1>6, <2>2, StageOfWorker DEF Workers
    <3>2. job[v].slot \in Slots
      BY <1>14, <3>1 DEF Posts
    <3>3. n \in DOMAIN tile[job[v].slot] /\ n > Posted(v)
      BY <1>8, <2>2, <3>1, <3>2
    <3>4. job[v].slot = c => n # k
      <4>1. SUFFICES ASSUME job[v].slot = c, n = k PROVE FALSE
        OBVIOUS
      <4>2. k <= Posted(v) /\ Posted(v) \in Int /\ k \in Nat
        <5>1. k <= Posted(v)
          BY <1>1, <3>1, <4>1 DEF UnpostedNowhere
        <5>2. Amount("ec", c) \in Nat
          BY <1>1, <1>2, <3>1, <4>1, SlotInUse, PictureOfSlot DEF Resources, Stages
        <5>3. k \in Nat
          BY <1>2, <1>7
        <5>4. left[v] \in Nat
          BY <3>1 DEF Types
        <5>5. Posted(v) = Amount("ec", c) - left[v]
          BY <3>1, <4>1 DEF Posted
        <5> QED BY <5>1, <5>2, <5>3, <5>4, <5>5
      <4> QED BY <3>3, <4>1, <4>2
    <3> QED BY <1>7, <2>2, <3>1, <3>2, <3>3, <3>4 DEF TilesWaiting
  <2> QED BY <1>6, <2>1, <2>2 DEF TilesWaiting
<1>25. TileWithWorker'
  <2>1. ASSUME NEW v \in Ec, Has(v)' PROVE Agrees(v)'
    <3>1. CASE v = w
      BY <1>5, <2>1, <3>1
    <3>2. CASE v # w
      <4>1. v \in Workers /\ Has(v) /\ at'[v] = at[v] /\ job'[v] = job[v] /\ (Coding(v)' <=> Coding(v))
            /\ TileOf(v)' = TileOf(v) /\ Agrees(v)
        BY <1>6, <1>10, <2>1, <3>2 DEF Workers, TileWithWorker
      <4>2. job[v].slot \in Slots
        BY <1>14, <4>1 DEF Has
      <4>3. Len(tile'[job[v].slot]) = Len(tile[job[v].slot]) /\ (fresh'[job[v].slot] => fresh[job[v].slot])
        BY <1>5, <1>8, <4>2
      <4> QED BY <1>3, <4>1, <4>3 DEF Agrees
    <3> QED BY <3>1, <3>2
  <2> QED BY <2>1 DEF TileWithWorker
<1>26. PicturesDiffer'
  BY <1>3 DEF PicturesDiffer
<1> QED BY <1>15, <1>16, <1>17, <1>18, <1>19, <1>20, <1>21, <1>22, <1>23, <1>24, <1>25, <1>26

\* The tile of a worker of Entropy Coding, and what is known when it is at a row.
LEMMA TileOfWorker ==
    ASSUME FilterPipelineAssumption, NEW ph \in [Slots -> Phases], Consistent(ph),
           NEW w \in Ec, Has(w)
    PROVE  /\ w \in Workers /\ Stage(w) = "ec" /\ job[w].slot \in Slots /\ job[w] \in Job
           /\ job[w].part \in DOMAIN tile[job[w].slot] /\ TileOf(w) \in Tile /\ Agrees(w)
           /\ tile[job[w].slot] \in Seq(Tile) /\ tile \in [Slots -> Seq(Tile)]
           /\ TileOf(w) = tile[job[w].slot][job[w].part]
           /\ TileOf(w).row <= TileOf(w).rows
           /\ TileOf(w).done => TileOf(w).coded = TileOf(w).rows
           /\ fresh[job[w].slot] => TileOf(w).coded = 0
           /\ Passes(w) => TileOf(w).done
           /\ Coding(w) \/ (at[w] = "rows" /\ ~TileOf(w).done) => ph[job[w].slot] = "ec"
<1> DEFINE c == job[w].slot
           k == job[w].part
<1> USE DEF Consistent
<1>1. w \in Workers /\ Stage(w) = "ec" /\ job[w] \in Job
  BY StageOfWorker DEF Workers, Types
<1>2. c \in Slots /\ k \in DOMAIN tile[c]
  BY <1>1, SlotInUse DEF PartsInRange, Has
<1>3. tile[c] \in Seq(Tile) /\ TileOf(w) = tile[c][k] /\ tile[c][k] \in Tile
  BY <1>2 DEF Types, TileOf
<1>4. /\ TileOf(w).row <= TileOf(w).rows
      /\ TileOf(w).done => TileOf(w).coded = TileOf(w).rows
      /\ fresh[c] => TileOf(w).coded = 0
  BY <1>2, <1>3 DEF TilesCoded
<1>5. Passes(w) => TileOf(w).done
  <2>1. Passes(w) => ph[c] = "packet"
    BY <1>1 DEF OneStage
  <2> QED BY <1>2, <1>3, <2>1 DEF TilesByStage
<1>6. Coding(w) \/ (at[w] = "rows" /\ ~TileOf(w).done) => ph[c] = "ec"
  BY <1>1 DEF OneStage
<1>7. Agrees(w)
  BY DEF TileWithWorker
<1> QED BY <1>1, <1>2, <1>3, <1>4, <1>5, <1>6, <1>7 DEF Types

\* The next row of the tile is taken, or there is none left.
LEMMA NextRowKeeps ==
    ASSUME FilterPipelineAssumption, NEW ph \in [Slots -> Phases], Consistent(ph),
           NEW w \in Workers, NextRow(w)
    PROVE  Consistent(ph)'
<1> DEFINE c == job[w].slot
           k == job[w].part
           j == job[w]
           T == tile[c][k]
           t == [T EXCEPT !.ready = IF j.first THEN T.rows ELSE @, !.busy = j.first /\ @]
           go == t.row < t.rows /\ t.row < t.ready /\ ~t.busy
           u == IF go THEN [t EXCEPT !.busy = TRUE, !.row = @ + 1] ELSE t
<1>1. w \in Ec /\ at[w] = "rows" /\ Has(w) /\ ~Coding(w)
  BY DEF NextRow, Has, Coding
<1>2. /\ c \in Slots /\ j \in Job /\ k \in DOMAIN tile[c] /\ T \in Tile /\ Agrees(w) /\ TileOf(w) = T
      /\ tile[c] \in Seq(Tile) /\ tile \in [Slots -> Seq(Tile)]
      /\ T.row <= T.rows /\ (T.done => T.coded = T.rows) /\ (fresh[c] => T.coded = 0)
      /\ (j.last => T.done) /\ (~T.done => ph[c] = "ec")
  BY <1>1, TileOfWorker DEF Passes
<1>3. /\ tile' = [tile EXCEPT ![c] = [@ EXCEPT ![k] = u]]
      /\ job' = [job EXCEPT ![w].first = FALSE, ![w].row = IF go THEN t.row ELSE @]
      /\ left' = [left EXCEPT ![w] = IF ~go /\ j.last THEN 1 ELSE 0]
      /\ at' = [at EXCEPT ![w] = IF go THEN "row" ELSE IF j.last THEN "post" ELSE "release"]
      /\ UNCHANGED <<stream, started, picture, searched, holder, fresh, free, queue, packets>>
  BY DEF NextRow, GoTo
<1>4. /\ T.rows \in Nat \ {0} /\ T.row \in Nat /\ T.ready \in Nat /\ T.busy \in BOOLEAN
      /\ T.done \in BOOLEAN /\ T.coded \in Nat
  BY <1>2 DEF Tile
<1>5. /\ at[w] = "rows" /\ j.first => Untouched(T) /\ ~j.last
      /\ ~j.first => T.row = T.coded /\ T.ready = T.rows /\ (T.done <=> T.row = T.rows)
      /\ ~T.done => picture[c] = j.pic
  BY <1>1, <1>2 DEF Agrees
<1>6. /\ t \in Tile /\ t.rows = T.rows /\ t.row = T.row /\ t.done = T.done /\ t.coded = T.coded
      /\ t.ready = T.rows /\ t.busy = FALSE
  <2>1. j.first \in BOOLEAN
    BY <1>2 DEF Job
  <2> QED BY <1>1, <1>2, <1>4, <1>5, <2>1 DEF Tile, Untouched
<1>7. (go <=> T.row < T.rows) /\ (go => T.row # T.rows)
  <2>1. go <=> T.row < T.rows
    BY <1>4, <1>6
  <2>2. \A x, y \in Nat : x < y => x # y
    OBVIOUS
  <2> QED BY <1>4, <2>1, <2>2, Zenon
<1>8. go => ~T.done /\ ~j.last /\ T.coded = T.row /\ ph[c] = "ec" /\ picture[c] = j.pic
  <2>1. SUFFICES ASSUME go PROVE ~T.done /\ ~j.last /\ T.coded = T.row
    BY <1>2, <1>5
  <2>2. T.row # T.rows
    BY <1>7, <2>1
  <2>3. CASE j.first
    BY <1>1, <1>5, <2>3 DEF Untouched
  <2>4. CASE ~j.first
    BY <1>2, <1>5, <2>2, <2>4
  <2> QED BY <2>3, <2>4
<1> HIDE DEF t, go
<1>9. /\ u \in Tile /\ u.rows = T.rows /\ u.row <= u.rows /\ u.done = T.done /\ u.coded = T.coded
      /\ u.ready = T.rows /\ (go => u.row = T.row + 1)
  <2>1. CASE go
    <3>1. u = [t EXCEPT !.busy = TRUE, !.row = @ + 1] /\ t.row + 1 \in Nat
      BY <1>4, <1>6, <2>1
    <3>2. t.row + 1 <= T.rows
      BY <1>4, <1>6, <1>7, <2>1
    <3> HIDE DEF u, T
    <3>3. u \in Tile /\ u.rows = t.rows /\ u.row = t.row + 1 /\ u.done = t.done /\ u.coded = t.coded
          /\ u.ready = t.ready
      BY <1>6, <3>1 DEF Tile
    <3> QED BY <1>6, <3>2, <3>3
  <2>2. CASE ~go
    BY <1>2, <1>4, <1>6, <2>2
  <2> QED BY <2>1, <2>2
<1>10. /\ t.row = T.row /\ t.row \in Nat
  BY <1>4, <1>6
<1> HIDE DEF u
<1>11. /\ job'[w] = [j EXCEPT !.first = FALSE, !.row = IF go THEN t.row ELSE @]
       /\ job'[w] \in Job /\ job'[w].slot = c /\ job'[w].part = k /\ job'[w].last = j.last
       /\ job'[w].pic = j.pic /\ job'[w].first = FALSE /\ (go => job'[w].row = T.row)
  <2>1. job'[w] = [j EXCEPT !.first = FALSE, !.row = IF go THEN t.row ELSE @]
    <3>1. w \in DOMAIN job
      BY DEF Consistent, Types
    <3> QED BY <1>3, <3>1
  <2>2. j \in Job
    BY <1>2
  <2> HIDE DEF j
  <2>3. job'[w] \in Job /\ job'[w].slot = j.slot /\ job'[w].part = j.part /\ job'[w].last = j.last
       /\ job'[w].pic = j.pic /\ job'[w].first = FALSE /\ (go => job'[w].row = T.row)
    BY <1>10, <2>1, <2>2 DEF Job
  <2> QED BY <2>1, <2>3 DEF j
<1>12. /\ \A v \in Workers : v # w => at'[v] = at[v] /\ job'[v] = job[v] /\ left'[v] = left[v]
       /\ at'[w] = (IF go THEN "row" ELSE IF j.last THEN "post" ELSE "release")
       /\ left'[w] = (IF ~go /\ j.last THEN 1 ELSE 0)
  BY <1>3 DEF Consistent, Types
<1>13. Types'
  <2>1. tile' \in [Slots -> Seq(Tile)]
    <3>1. [tile[c] EXCEPT ![k] = u] \in Seq(Tile)
      BY <1>2, <1>9
    <3> QED BY <1>2, <1>3, <3>1
  <2>2. at' \in [Workers -> Places]
    BY <1>3 DEF Consistent, Types, Places
  <2>3. job' \in [Workers -> Job]
    BY <1>3, <1>11 DEF Consistent, Types
  <2>4. left' \in [Workers -> Nat]
    BY <1>3 DEF Consistent, Types
  <2> QED BY <1>3, <2>1, <2>2, <2>3, <2>4 DEF Consistent, Types
<1>14. WorkersInPlace'
  <2>1. c # None
    BY <1>2 DEF FilterPipelineAssumption
  <2>2. at'[w] \in {"row", "post", "release"}
    BY <1>12
  <2>3. WorkersInPlace
    BY DEF Consistent
  <2>4. ASSUME NEW v \in Workers
        PROVE  /\ at'[v] = "idle" <=> job'[v].slot = None
               /\ at'[v] = "work" => v \notin Ec
               /\ at'[v] = "filter" => v \in Cdef \cup Rest
               /\ at'[v] \in {"rows", "row", "code", "finish"} => v \in Ec
    <3>1. CASE v = w
      BY <1>1, <1>11, <2>1, <2>2, <3>1
    <3>2. CASE v # w
      BY <1>12, <2>3, <3>2 DEF WorkersInPlace
    <3> QED BY <3>1, <3>2
  <2> QED BY <2>4 DEF WorkersInPlace
<1>15. /\ Posts(w)' => left'[w] = 1 /\ Passes(w)
       /\ ~Passes(w)' /\ (Coding(w)' => go)
       /\ at'[w] \in {"rows", "row", "code", "finish", "post", "release"}
       /\ at'[w] # "rows" /\ (Has(w)' => go)
  BY <1>1, <1>12 DEF Posts, Passes, Coding, Has
<1>16. TileOf(w)' = u
  BY <1>2, <1>3, <1>11 DEF TileOf
<1>17. Has(w)' => Agrees(w)'
  <2>1. SUFFICES ASSUME go PROVE Agrees(w)'
    BY <1>15
  <2>2. at'[w] = "row" /\ picture'[c] = picture[c]
    BY <1>3, <1>12, <2>1
  <2>3. /\ u.row = T.row + 1 /\ u.ready = u.rows /\ ~u.done /\ ~job'[w].last /\ ~job'[w].first
        /\ u.coded = T.row /\ job'[w].row = T.row /\ job'[w].slot = c /\ picture'[c] = job'[w].pic
    BY <1>8, <1>9, <1>11, <2>1, <2>2
  <2> QED BY <1>16, <2>2, <2>3 DEF Agrees, Coding
<1>18. TileBecomes(w, u)
  BY <1>2, <1>3, <1>9, <1>17 DEF TileBecomes
<1>19. OnlyWorker(w)
  BY <1>3, <1>11, <1>12, <1>15 DEF OnlyWorker
<1>20. StagesBecome(w, u, ph, ph)
  BY <1>8, <1>15 DEF StagesBecome
<1> QED BY <1>1, <1>9, <1>13, <1>14, <1>18, <1>19, <1>20, TileStepKeeps

\* What the steps within a row have in common: the worker goes on to the next
\* place, and only its tile, its task's last and the slot's fresh change.
LEMMA RowStepKeeps ==
    ASSUME FilterPipelineAssumption, NEW ph \in [Slots -> Phases], Consistent(ph),
           NEW w \in Ec, Coding(w), NEW u \in Tile, NEW to \in [Slots -> Phases],
           NEW place \in {"code", "finish", "rows"}, NEW passes \in BOOLEAN,
           GoTo(w, place), job' = [job EXCEPT ![w].last = passes],
           stream' = stream, started' = started, picture' = picture, searched' = searched,
           holder' = holder, free' = free, queue' = queue, packets' = packets, left' = left,
           fresh' \in [Slots -> BOOLEAN],
           TileBecomes(w, u), StagesBecome(w, u, ph, to)
    PROVE  Consistent(to)'
<1> DEFINE c == job[w].slot
           k == job[w].part
<1>1. /\ w \in Workers /\ c \in Slots /\ k \in DOMAIN tile[c] /\ tile[c] \in Seq(Tile) /\ job[w] \in Job
      /\ tile \in [Slots -> Seq(Tile)]
  BY TileOfWorker DEF Coding, Has
<1>2. Types /\ WorkersInPlace
  BY DEF Consistent
<1>3. /\ job'[w] \in Job /\ job'[w].slot = c /\ job'[w].part = k
      /\ at'[w] = place /\ \A v \in Workers : v # w => at'[v] = at[v] /\ job'[v] = job[v]
  <2>1. job \in [Workers -> Job] /\ at \in [Workers -> Places]
    BY <1>2 DEF Types
  <2>2. job'[w] = [job[w] EXCEPT !.last = passes]
    BY <1>1, <2>1
  <2>3. job'[w] \in Job /\ job'[w].slot = c /\ job'[w].part = k
    BY <1>1, <2>2, JobFields
  <2> QED BY <1>1, <2>1, <2>3 DEF GoTo
<1>4. OnlyWorker(w)
  BY <1>3 DEF OnlyWorker
<1>5. Types'
  <2>1. tile' \in [Slots -> Seq(Tile)]
    <3>1. [tile[c] EXCEPT ![k] = u] \in Seq(Tile)
      BY <1>1
    <3>2. tile' = [tile EXCEPT ![c] = [tile[c] EXCEPT ![k] = u]]
      BY DEF TileBecomes
    <3> QED BY <1>1, <3>1, <3>2
  <2>2. at' \in [Workers -> Places]
    BY <1>2 DEF Types, Places, GoTo
  <2>3. job' \in [Workers -> Job]
    <3>1. job \in [Workers -> Job] /\ [job[w] EXCEPT !.last = passes] \in Job
      BY <1>1, <1>2 DEF Types, Job
    <3> QED BY <3>1
  <2> QED BY <1>2, <2>1, <2>2, <2>3 DEF Types
<1>6. WorkersInPlace'
  <2>1. c # None
    BY <1>1 DEF FilterPipelineAssumption
  <2>2. ASSUME NEW v \in Workers
        PROVE  /\ at'[v] = "idle" <=> job'[v].slot = None
               /\ at'[v] = "work" => v \notin Ec
               /\ at'[v] = "filter" => v \in Cdef \cup Rest
               /\ at'[v] \in {"rows", "row", "code", "finish"} => v \in Ec
    <3>1. CASE v = w
      BY <1>3, <2>1, <3>1
    <3>2. CASE v # w
      BY <1>2, <1>3, <3>2 DEF WorkersInPlace
    <3> QED BY <3>1, <3>2
  <2> QED BY <2>2 DEF WorkersInPlace
<1>7. Has(w)
  BY DEF Coding, Has
<1> QED BY <1>4, <1>5, <1>6, <1>7, TileStepKeeps

\* The coders are reset at the first row of a picture: no row of any tile is coded yet.
LEMMA BeginRowKeeps ==
    ASSUME FilterPipelineAssumption, NEW ph \in [Slots -> Phases], Consistent(ph),
           NEW w \in Workers, BeginRow(w)
    PROVE  Consistent(ph)'
<1> DEFINE c == job[w].slot
           k == job[w].part
           T == tile[c][k]
           reset == job[w].row = 0 /\ NeedsReset(c)
<1>1. w \in Ec /\ at[w] = "row" /\ Has(w) /\ Coding(w)
  BY DEF BeginRow, Has, Coding
<1>2. /\ c \in Slots /\ job[w] \in Job /\ k \in DOMAIN tile[c] /\ T \in Tile /\ Agrees(w) /\ TileOf(w) = T
      /\ tile[c] \in Seq(Tile) /\ tile \in [Slots -> Seq(Tile)]
      /\ T.row <= T.rows /\ (T.done => T.coded = T.rows) /\ (fresh[c] => T.coded = 0) /\ ph[c] = "ec"
  BY <1>1, TileOfWorker
<1>3. /\ at' = [at EXCEPT ![w] = "code"] /\ GoTo(w, "code")
      /\ fresh' = (IF reset THEN [fresh EXCEPT ![c] = FALSE] ELSE fresh)
      /\ tile' = IF reset THEN [tile EXCEPT ![c] = [n \in DOMAIN @ |-> [@[n] EXCEPT !.coded = 0]]] ELSE tile
      /\ stream' = stream /\ started' = started /\ picture' = picture /\ searched' = searched
      /\ holder' = holder /\ free' = free /\ queue' = queue /\ packets' = packets /\ left' = left
      /\ job' = job
  BY DEF BeginRow, GoTo
<1>4. /\ T.row = job[w].row + 1 /\ T.ready = T.rows /\ ~T.done /\ ~job[w].last /\ ~job[w].first
      /\ T.coded = job[w].row /\ picture[c] = job[w].pic
  BY <1>1, <1>2 DEF Agrees
<1>5. tile' = tile
  <2>1. CASE reset
    <3>1. fresh[c]
      BY <2>1 DEF NeedsReset
    <3>2. \A n \in DOMAIN tile[c] : tile[c][n].coded = 0 /\ tile[c][n] \in Tile
      BY <1>2, <3>1 DEF Consistent, TilesCoded
    <3>3. \A n \in DOMAIN tile[c] : [tile[c][n] EXCEPT !.coded = 0] = tile[c][n]
      BY <3>2 DEF Tile
    <3>4. [n \in DOMAIN tile[c] |-> [tile[c][n] EXCEPT !.coded = 0]] = tile[c]
      <4>1. tile[c] = [n \in DOMAIN tile[c] |-> tile[c][n]]
        BY <1>2
      <4> QED BY <3>3, <4>1
    <3>5. tile' = [tile EXCEPT ![c] = [n \in DOMAIN tile[c] |-> [tile[c][n] EXCEPT !.coded = 0]]]
      BY <1>3, <2>1
    <3>6. tile' = [tile EXCEPT ![c] = tile[c]]
      BY <3>4, <3>5
    <3> QED BY <1>2, <3>6
  <2>2. CASE ~reset
    BY <1>3, <2>2
  <2> QED BY <2>1, <2>2
<1>6. fresh' \in [Slots -> BOOLEAN] /\ ~fresh'[c] /\ \A d \in Slots : fresh'[d] => fresh[d]
  <2>1. fresh \in [Slots -> BOOLEAN] /\ job[w].row \in Nat
    BY <1>2 DEF Consistent, Types, Job
  <2>2. fresh[c] => reset
    BY <1>2, <1>4 DEF NeedsReset
  <2> HIDE DEF reset
  <2> QED BY <1>2, <1>3, <2>1, <2>2
<1>7. tile' = [tile EXCEPT ![c] = [@ EXCEPT ![k] = T]]
  <2>1. [tile[c] EXCEPT ![k] = T] = tile[c]
    <3>1. tile[c] = [n \in DOMAIN tile[c] |-> tile[c][n]]
      BY <1>2
    <3>2. [tile[c] EXCEPT ![k] = T] = [n \in DOMAIN tile[c] |-> IF n = k THEN T ELSE tile[c][n]]
      OBVIOUS
    <3>3. \A n \in DOMAIN tile[c] : (IF n = k THEN T ELSE tile[c][n]) = tile[c][n]
      OBVIOUS
    <3> QED BY <3>1, <3>2, <3>3
  <2> QED BY <1>2, <1>5, <2>1
<1>8. job' = [job EXCEPT ![w].last = job[w].last] /\ job[w].last \in BOOLEAN
  <2>1. [job[w] EXCEPT !.last = job[w].last] = job[w] /\ job[w].last \in BOOLEAN
    BY <1>2 DEF Job
  <2>2. job \in [Workers -> Job]
    BY DEF Consistent, Types
  <2>3. job = [job EXCEPT ![w] = job[w]]
    BY <2>2
  <2> QED BY <1>3, <2>1, <2>3
<1>9. at'[w] = "code"
  BY <1>3 DEF Consistent, Types
<1>10. TileOf(w)' = T
  BY <1>2, <1>3, <1>5 DEF TileOf
<1>11. Agrees(w)'
  BY <1>3, <1>4, <1>6, <1>9, <1>10 DEF Agrees, Coding
<1>12. TileBecomes(w, T)
  BY <1>2, <1>4, <1>6, <1>7, <1>11 DEF TileBecomes
<1>13. StagesBecome(w, T, ph, ph)
  BY <1>2, <1>9 DEF StagesBecome, Posts, Passes, Coding
<1> QED BY <1>1, <1>2, <1>3, <1>6, <1>8, <1>12, <1>13, RowStepKeeps

\* What becomes of a tile when a row of it is coded.
LEMMA TileFields ==
    ASSUME NEW t \in Tile, NEW n \in Nat
    PROVE  /\ [t EXCEPT !.coded = n, !.done = FALSE] \in Tile
           /\ [t EXCEPT !.coded = n, !.done = FALSE].rows = t.rows
           /\ [t EXCEPT !.coded = n, !.done = FALSE].row = t.row
           /\ [t EXCEPT !.coded = n, !.done = FALSE].ready = t.ready
           /\ [t EXCEPT !.coded = n, !.done = FALSE].done = FALSE
           /\ [t EXCEPT !.coded = n, !.done = FALSE].coded = n
BY DEF Tile

\* A row of superblocks is coded.
LEMMA CodeRowKeeps ==
    ASSUME FilterPipelineAssumption, NEW ph \in [Slots -> Phases], Consistent(ph),
           NEW w \in Workers, CodeRow(w)
    PROVE  Consistent(ph)'
<1> DEFINE c == job[w].slot
           k == job[w].part
           T == tile[c][k]
           u == [T EXCEPT !.coded = @ + 1, !.done = @ /\ job[w].row # 0]
<1>1. w \in Ec /\ at[w] = "code" /\ Has(w) /\ Coding(w)
  BY DEF CodeRow, Has, Coding
<1>2. /\ c \in Slots /\ job[w] \in Job /\ k \in DOMAIN tile[c] /\ T \in Tile /\ Agrees(w) /\ TileOf(w) = T
      /\ tile[c] \in Seq(Tile) /\ tile \in [Slots -> Seq(Tile)] /\ T.row <= T.rows /\ ph[c] = "ec"
  BY <1>1, TileOfWorker
<1>3. /\ at' = [at EXCEPT ![w] = "finish"] /\ GoTo(w, "finish")
      /\ tile' = [tile EXCEPT ![c][k].coded = @ + 1, ![c][k].done = @ /\ job[w].row # 0]
      /\ fresh' = fresh
      /\ stream' = stream /\ started' = started /\ picture' = picture /\ searched' = searched
      /\ holder' = holder /\ free' = free /\ queue' = queue /\ packets' = packets /\ left' = left
      /\ job' = job
  BY DEF CodeRow, GoTo
<1>4. /\ T.row = job[w].row + 1 /\ T.ready = T.rows /\ ~T.done /\ ~job[w].last /\ ~job[w].first
      /\ T.coded = job[w].row /\ picture[c] = job[w].pic /\ ~fresh[c]
  BY <1>1, <1>2 DEF Agrees
<1>5. /\ T.rows \in Nat \ {0} /\ T.row \in Nat /\ T.coded \in Nat /\ T.done \in BOOLEAN
  BY <1>2 DEF Tile
<1>6. /\ u \in Tile /\ u.rows = T.rows /\ u.row = T.row /\ u.ready = T.ready
      /\ u.done = FALSE /\ u.coded = T.coded + 1 /\ u.coded = u.row
  <2>1. u = [T EXCEPT !.coded = T.coded + 1, !.done = FALSE]
    BY <1>2, <1>4, <1>5
  <2> HIDE DEF u
  <2>2. u \in Tile /\ u.rows = T.rows /\ u.row = T.row /\ u.ready = T.ready
        /\ u.done = FALSE /\ u.coded = T.coded + 1
    <3>1. T \in Tile /\ T.coded + 1 \in Nat
      BY <1>2, <1>5
    <3> HIDE DEF T
    <3> QED BY <2>1, <3>1, TileFields
  <2> QED BY <1>4, <2>2
<1>7. tile' = [tile EXCEPT ![c] = [@ EXCEPT ![k] = u]]
  BY <1>2, <1>3
<1> HIDE DEF u
<1>8. job' = [job EXCEPT ![w].last = FALSE]
  <2>1. [job[w] EXCEPT !.last = FALSE] = job[w]
    BY <1>2, <1>4 DEF Job
  <2>2. job \in [Workers -> Job]
    BY DEF Consistent, Types
  <2>3. job = [job EXCEPT ![w] = job[w]]
    BY <2>2
  <2> QED BY <1>3, <2>1, <2>3
<1>9. at'[w] = "finish" /\ fresh \in [Slots -> BOOLEAN]
  BY <1>3 DEF Consistent, Types
<1>10. TileOf(w)' = u
  <2>1. tile'[c] = [tile[c] EXCEPT ![k] = u]
    BY <1>2, <1>7
  <2>2. tile'[c][k] = u
    BY <1>2, <2>1
  <2> QED BY <1>3, <2>2 DEF TileOf
<1>11. Agrees(w)'
  BY <1>3, <1>4, <1>6, <1>9, <1>10 DEF Agrees, Coding
<1>12. TileBecomes(w, u)
  BY <1>2, <1>3, <1>4, <1>6, <1>7, <1>11 DEF TileBecomes
<1>13. StagesBecome(w, u, ph, ph)
  BY <1>2, <1>9 DEF StagesBecome, Posts, Passes, Coding
<1> QED BY <1>1, <1>3, <1>6, <1>8, <1>9, <1>12, <1>13, RowStepKeeps

\* The end of a row.  When it was the last of the last tile, the slot is to be
\* passed on by this worker.
LEMMA FinishRowKeeps ==
    ASSUME FilterPipelineAssumption, NEW ph \in [Slots -> Phases], Consistent(ph),
           NEW w \in Workers, FinishRow(w)
    PROVE  \E to \in [Slots -> Phases] : Consistent(to)'
<1> DEFINE c == job[w].slot
           k == job[w].part
           T == tile[c][k]
           complete == TileComplete(T)
           passes == complete /\ PictureReady(c, k)
           u == IF complete THEN [T EXCEPT !.done = TRUE] ELSE T
           to == IF passes THEN [ph EXCEPT ![c] = "packet"] ELSE ph
<1>1. w \in Ec /\ at[w] = "finish" /\ Has(w) /\ Coding(w)
  BY DEF FinishRow, Has, Coding
<1>2. /\ c \in Slots /\ job[w] \in Job /\ k \in DOMAIN tile[c] /\ T \in Tile /\ Agrees(w) /\ TileOf(w) = T
      /\ tile[c] \in Seq(Tile) /\ tile \in [Slots -> Seq(Tile)] /\ T.row <= T.rows /\ ph[c] = "ec"
  BY <1>1, TileOfWorker
<1>3. /\ at' = [at EXCEPT ![w] = "rows"] /\ GoTo(w, "rows")
      /\ tile' = (IF complete THEN [tile EXCEPT ![c][k].done = TRUE] ELSE tile)
      /\ job' = [job EXCEPT ![w].last = @ \/ (complete /\ PictureReady(c, k))]
      /\ fresh' = fresh
      /\ stream' = stream /\ started' = started /\ picture' = picture /\ searched' = searched
      /\ holder' = holder /\ free' = free /\ queue' = queue /\ packets' = packets /\ left' = left
  BY DEF FinishRow, GoTo
<1>4. /\ T.row = job[w].row + 1 /\ T.ready = T.rows /\ ~T.done /\ ~job[w].last /\ ~job[w].first
      /\ T.coded = T.row /\ picture[c] = job[w].pic /\ ~fresh[c]
  BY <1>1, <1>2 DEF Agrees
<1>5. complete <=> T.row = T.rows
  BY <1>4 DEF TileComplete
<1>6. /\ u \in Tile /\ u.rows = T.rows /\ u.row = T.row /\ u.ready = T.ready /\ u.coded = T.coded
      /\ (u.done <=> complete)
  <2>1. CASE complete
    <3>1. u = [T EXCEPT !.done = TRUE]
      BY <2>1
    <3> HIDE DEF u
    <3>2. u \in Tile /\ u.rows = T.rows /\ u.row = T.row /\ u.ready = T.ready /\ u.coded = T.coded /\ u.done
      BY <1>2, <3>1 DEF Tile
    <3> QED BY <2>1, <3>2
  <2>2. CASE ~complete
    <3>1. u = T
      BY <2>2
    <3> HIDE DEF u
    <3> QED BY <1>2, <1>4, <2>2, <3>1
  <2> QED BY <2>1, <2>2
<1>7. tile' = [tile EXCEPT ![c] = [@ EXCEPT ![k] = u]]
  <2>1. CASE complete
    BY <1>2, <1>3, <2>1
  <2>2. CASE ~complete
    <3>1. u = tile[c][k] /\ tile' = tile
      BY <1>3, <2>2
    <3>2. tile[c] = [tile[c] EXCEPT ![k] = u]
      <4>1. tile[c] = [n \in DOMAIN tile[c] |-> tile[c][n]]
        BY <1>2
      <4>2. [tile[c] EXCEPT ![k] = u] = [n \in DOMAIN tile[c] |-> IF n = k THEN u ELSE tile[c][n]]
        OBVIOUS
      <4>3. \A n \in DOMAIN tile[c] : (IF n = k THEN u ELSE tile[c][n]) = tile[c][n]
        BY <3>1
      <4> QED BY <4>1, <4>2, <4>3
    <3>3. tile = [tile EXCEPT ![c] = tile[c]]
      BY <1>2
    <3> QED BY <3>1, <3>2, <3>3
  <2> QED BY <2>1, <2>2
<1>8. job' = [job EXCEPT ![w].last = passes] /\ passes \in BOOLEAN
  BY <1>3, <1>4
<1>9. at'[w] = "rows" /\ fresh \in [Slots -> BOOLEAN] /\ job'[w] = [job[w] EXCEPT !.last = passes]
  BY <1>3, <1>8 DEF Consistent, Types
<1>10. TilesMade(ph) /\ DOMAIN tile[c] = Tiles(c)
  BY <1>2 DEF Consistent, TilesMade
<1>11. passes => complete /\ \A i \in Tiles(c) \ {k} : tile[c][i].done
  BY <1>10 DEF PictureReady
<1>12. complete /\ Len(tile[c]) = 1 => passes
  <2>1. SUFFICES ASSUME Len(tile[c]) = 1 PROVE PictureReady(c, k)
    OBVIOUS
  <2>2. Tiles(c) \ {k} = {}
    BY <1>2, <1>10, <2>1
  <2> QED BY <1>10, <2>2 DEF PictureReady
<1>13. /\ to \in [Slots -> Phases]
       /\ passes => to = [ph EXCEPT ![c] = "packet"] /\ to[c] = "packet" /\ to # ph
       /\ ~passes => to = ph
  BY <1>2 DEF Phases
<1> HIDE DEF u, complete, passes, to
<1>14. /\ job'[w].slot = c /\ job'[w].part = k /\ job'[w].pic = job[w].pic /\ job'[w].row = job[w].row
       /\ job'[w].first = job[w].first /\ job'[w].last = passes
  <2>1. job[w] \in Job /\ passes \in BOOLEAN /\ job'[w] = [job[w] EXCEPT !.last = passes]
    BY <1>2, <1>8, <1>9
  <2> QED BY <2>1, JobFields
<1>15. /\ TileOf(w)' = u /\ tile'[c] = [tile[c] EXCEPT ![k] = u] /\ Len(tile'[c]) = Len(tile[c])
       /\ \A n \in DOMAIN tile[c] : n # k => tile'[c][n] = tile[c][n]
       /\ tile'[c][k] = u
  <2>1. tile'[c] = [tile[c] EXCEPT ![k] = u]
    BY <1>2, <1>7
  <2>2. tile'[c][k] = u /\ Len(tile'[c]) = Len(tile[c])
        /\ \A n \in DOMAIN tile[c] : n # k => tile'[c][n] = tile[c][n]
    BY <1>2, <2>1
  <2>3. TileOf(w)' = tile'[c][k]
    BY <1>14 DEF TileOf
  <2> QED BY <2>1, <2>2, <2>3
<1>16. Agrees(w)'
  <2>1. u.row = u.coded /\ u.ready = u.rows /\ (u.done <=> u.row = u.rows)
    BY <1>4, <1>5, <1>6
  <2>2. picture'[c] = job'[w].pic
    BY <1>3, <1>4, <1>14
  <2>3. u.done /\ Len(tile'[c]) = 1 => job'[w].last
    BY <1>6, <1>12, <1>14, <1>15
  <2> QED BY <1>4, <1>9, <1>14, <1>15, <2>1, <2>2, <2>3 DEF Agrees, Coding
<1>17. TileBecomes(w, u)
  <2>1. u.done => u.coded = u.rows
    BY <1>4, <1>5, <1>6
  <2> QED BY <1>2, <1>3, <1>4, <1>6, <1>7, <1>16, <2>1 DEF TileBecomes
<1>18. StagesBecome(w, u, ph, to)
  <2>1. passes => \A n \in DOMAIN tile[c] : tile'[c][n].done
    BY <1>6, <1>10, <1>11, <1>15
  <2>2. ~Posts(w)' /\ ~Coding(w)' /\ (Passes(w)' => passes)
    BY <1>9, <1>14 DEF Posts, Coding, Passes
  <2>3. passes => u.done
    BY <1>6, <1>11
  <2> QED BY <1>2, <1>9, <1>13, <2>1, <2>2, <2>3 DEF StagesBecome
<1>19. ASSUME NEW next \in [Slots -> Phases], next = to PROVE Consistent(next)'
  <2>1. fresh' \in [Slots -> BOOLEAN]
    BY <1>3, <1>9
  <2>2. u \in Tile /\ passes \in BOOLEAN /\ StagesBecome(w, u, ph, next)
    BY <1>6, <1>8, <1>18, <1>19
  <2> QED BY <1>1, <1>3, <1>8, <1>17, <2>1, <2>2, RowStepKeeps
<1> QED BY <1>13, <1>19

\* Nobody works at the picture of a slot; a worker may linger at one of its tiles.
Unused(c) ==
    \A v \in Workers : job[v].slot = c =>
        /\ at[v] # "work" /\ at[v] # "filter" /\ ~Posts(v) /\ ~Coding(v) /\ ~Passes(v)
        /\ at[v] = "rows" => TileOf(v).done

\* The slot c turns: its picture is done with, or another one begins.
SlotTurns(c, stage) ==
    /\ stream' = stream /\ at' = at /\ job' = job /\ left' = left /\ searched' = searched
    /\ \A d \in Slots : d # c => picture'[d] = picture[d] /\ tile'[d] = tile[d] /\ fresh'[d] = fresh[d]
    /\ picture'[c] = 0 <=> stage = "pool"
    /\ Lingers(c) => tile'[c] = tile[c]

\* The only message of the slot afterwards is the one to DLF.
MailTurns(c, stage) ==
    /\ \A r \in Resources : NoRepeats(queue'[r])
    /\ \A r \in Resources : \A m \in Mail(r)' :
          \/ m \in Mail(r) /\ m.slot # c
          \/ r = "dlf" /\ stage = "dlf" /\ m = [slot |-> c, part |-> 0]
    /\ \A r \in Resources : \A m \in Mail(r) : m.slot # c => m \in Mail(r)'

TilesTurn(c, stage) ==
    /\ tile'[c] # <<>> => Len(tile'[c]) = Len(stream[1].rows)
    /\ stage = "dlf" => DOMAIN tile'[c] = DOMAIN stream[picture'[c]].rows
    /\ \A k \in DOMAIN tile'[c] :
          /\ stage = "dlf" => tile'[c][k].rows = stream[picture'[c]].rows[k] /\ Untouched(tile'[c][k])
          /\ tile'[c][k].row <= tile'[c][k].rows
          /\ tile'[c][k].done => tile'[c][k].coded = tile'[c][k].rows
          /\ fresh'[c] => tile'[c][k].coded = 0

\* The picture of an unused slot can end, or begin, without harm to the others.
LEMMA TurnKeeps ==
    ASSUME FilterPipelineAssumption, NEW ph \in [Slots -> Phases], Consistent(ph),
           NEW c \in Slots, NEW stage \in {"dlf", "pool"}, NEW to \in [Slots -> Phases],
           to = [ph EXCEPT ![c] = stage],
           Unused(c), SlotTurns(c, stage), MailTurns(c, stage), TilesTurn(c, stage),
           Types', PicturesDiffer'
    PROVE  Consistent(to)'
<1> USE DEF Consistent
<1>1. /\ stream' = stream /\ at' = at /\ job' = job /\ left' = left /\ searched' = searched
      /\ \A d \in Slots : d # c => picture'[d] = picture[d] /\ tile'[d] = tile[d] /\ fresh'[d] = fresh[d]
      /\ to[c] = stage /\ \A d \in Slots : d # c => to[d] = ph[d]
  BY DEF SlotTurns
<1>2. \A d \in Slots : d # c =>
          /\ \A r : Amount(r, d)' = Amount(r, d)
          /\ Pic(d)' = Pic(d) /\ Tiles(d)' = Tiles(d)
  BY <1>1 DEF Amount, Pic, Tiles
<1>3. \A v \in Workers :
          /\ (Has(v)' <=> Has(v)) /\ (Posts(v)' <=> Posts(v)) /\ (Passes(v)' <=> Passes(v))
          /\ (Coding(v)' <=> Coding(v)) /\ PartOf(v)' = PartOf(v)
          /\ at'[v] = at[v] /\ job'[v] = job[v] /\ left'[v] = left[v]
  BY <1>1 DEF Has, Posts, Passes, Coding, PartOf
<1>4. /\ \A v \in Workers : at[v] # "idle" => job[v].slot \in Slots
      /\ \A r \in Resources : \A m \in Mail(r) : m \in Message /\ m.slot \in Slots
  BY SlotInUse DEF Message
<1>5. \A v \in Workers : job[v].slot \in Slots /\ job[v].slot # c =>
          TileOf(v)' = TileOf(v) /\ Posted(v)' = Posted(v)
  BY <1>1, <1>2 DEF TileOf, Posted
<1>6. \A v \in Workers :
          /\ at[v] \in {"work", "filter"} \/ Posts(v) \/ Coding(v) \/ Passes(v) =>
                job[v].slot \in Slots /\ job[v].slot # c
          /\ at[v] = "rows" /\ job[v].slot = c => TileOf(v).done
  BY <1>4 DEF Unused, Posts, Coding, Passes
<1>7. \A v \in Workers : Has(v) /\ job[v].slot = c =>
          /\ v \in Ec /\ at[v] = "rows" /\ Lingers(c) /\ tile'[c] = tile[c] /\ TileOf(v)' = TileOf(v)
          /\ TileOf(v).done /\ ~job[v].last
  <2>1. SUFFICES ASSUME NEW v \in Workers, Has(v), job[v].slot = c
                 PROVE  /\ v \in Ec /\ at[v] = "rows" /\ Lingers(c) /\ tile'[c] = tile[c]
                        /\ TileOf(v)' = TileOf(v) /\ TileOf(v).done /\ ~job[v].last
    OBVIOUS
  <2>2. at[v] = "rows"
    BY <1>6, <2>1 DEF Has, Coding
  <2>3. v \in Ec /\ TileOf(v).done /\ ~job[v].last
    BY <1>6, <2>1, <2>2 DEF WorkersInPlace, Passes
  <2>4. Lingers(c) /\ tile'[c] = tile[c]
    BY <2>1, <2>2, <2>3 DEF Lingers, SlotTurns
  <2> QED BY <1>1, <2>1, <2>2, <2>3, <2>4 DEF TileOf
<1>8. \A r \in Resources : \A m \in Mail(r)' :
          \/ m \in Mail(r) /\ m.slot # c /\ m.slot \in Slots
          \/ r = "dlf" /\ stage = "dlf" /\ m = [slot |-> c, part |-> 0]
  BY <1>4 DEF MailTurns
<1>9. OneStage(to)'
  <2>1. \A d \in Slots : picture'[d] = 0 <=> to[d] = "pool"
    BY <1>1 DEF OneStage, SlotTurns
  <2>2. \A r \in Resources : \A m \in Mail(r)' : to[m.slot] = r
    BY <1>1, <1>8 DEF OneStage
  <2>3. ASSUME NEW v \in Workers
        PROVE  /\ at'[v] = "work" => to[job'[v].slot] = Stage(v)
               /\ at'[v] = "filter" => to[job'[v].slot] = Filtering(Stage(v))
               /\ Posts(v)' => to[job'[v].slot] = Output(Stage(v))
               /\ Coding(v)' => to[job'[v].slot] = "ec"
               /\ at'[v] = "rows" /\ ~TileOf(v)'.done => to[job'[v].slot] = "ec"
               /\ Passes(v)' => to[job'[v].slot] = "packet"
    <3>1. CASE job[v].slot = c
      <4>1. ~(at'[v] = "rows" /\ ~TileOf(v)'.done)
        BY <1>3, <1>7, <3>1 DEF Has
      <4> QED BY <1>3, <1>6, <3>1, <4>1
    <3>2. CASE job[v].slot # c
      <4>1. at[v] # "idle" => to[job[v].slot] = ph[job[v].slot] /\ TileOf(v)' = TileOf(v)
        BY <1>1, <1>4, <1>5, <3>2
      <4>2. Posts(v) \/ Coding(v) \/ Passes(v) => at[v] # "idle"
        BY DEF Posts, Coding, Passes
      <4> QED BY <1>3, <4>1, <4>2 DEF OneStage
    <3> QED BY <3>1, <3>2
  <2> QED BY <2>1, <2>2, <2>3 DEF OneStage
<1>10. PartsInRange'
  <2>1. ASSUME NEW v \in Workers
        PROVE  /\ at'[v] = "work" /\ v \in Dlf => job'[v].part = 0
               /\ at'[v] = "work" /\ v \notin Dlf => job'[v].part \in 1 .. Amount(Stage(v), job[v].slot)'
               /\ v \in Ec /\ Has(v)' => job'[v].part \in DOMAIN tile'[job'[v].slot]
               /\ Posts(v)' => left'[v] <= Amount(Output(Stage(v)), job[v].slot)'
    <3>1. v \in Ec /\ Has(v)' => job'[v].part \in DOMAIN tile'[job'[v].slot]
      <4>1. SUFFICES ASSUME v \in Ec, Has(v) PROVE job[v].part \in DOMAIN tile'[job[v].slot]
        BY <1>3
      <4>2. job[v].part \in DOMAIN tile[job[v].slot] /\ job[v].slot \in Slots
        BY <1>4, <4>1 DEF PartsInRange, Has
      <4> QED BY <1>1, <1>7, <4>1, <4>2
    <3>2. at'[v] = "work" => \A r : Amount(r, job[v].slot)' = Amount(r, job[v].slot)
      BY <1>1, <1>3, <1>6 DEF Amount, Pic
    <3>3. Posts(v)' => \A r : Amount(r, job[v].slot)' = Amount(r, job[v].slot)
      BY <1>1, <1>3, <1>6 DEF Amount, Pic
    <3>4. at'[v] = "work" /\ v \notin Dlf => job'[v].part \in 1 .. Amount(Stage(v), job[v].slot)'
      BY <1>3, <3>2 DEF PartsInRange
    <3>5. Posts(v)' => left'[v] <= Amount(Output(Stage(v)), job[v].slot)'
      BY <1>3, <3>3 DEF PartsInRange
    <3> QED BY <1>3, <3>1, <3>4, <3>5 DEF PartsInRange
  <2>2. ASSUME NEW r \in Resources \ {"dlf"}, NEW m \in Mail(r)' PROVE m.part \in 1 .. Amount(r, m.slot)'
    <3>1. m \in Mail(r) /\ m.slot # c /\ m.slot \in Slots
      BY <1>8, <2>2
    <3> QED BY <1>2, <3>1 DEF PartsInRange
  <2>3. \A m \in Mail("dlf")' : m.part = 0
    BY <1>8 DEF PartsInRange, Resources, Stages
  <2> QED BY <2>1, <2>2, <2>3 DEF PartsInRange
<1>11. PartsOnce'
  <2>1. \A u, v \in Workers : u # v /\ Has(u)' /\ Has(v)' /\ Stage(u) = Stage(v) =>
            job'[u].slot # job'[v].slot \/ job'[u].part # job'[v].part
    BY <1>3 DEF PartsOnce
  <2>2. ASSUME NEW v \in Workers, Has(v)' PROVE PartOf(v)' \notin Mail(Stage(v))'
    <3>1. Has(v) /\ PartOf(v)' = PartOf(v) /\ PartOf(v) \notin Mail(Stage(v)) /\ Stage(v) \in Resources
      BY <1>3, <2>2, StageOfWorker DEF PartsOnce
    <3>2. job[v].slot = c => Stage(v) # "dlf"
      BY <1>7, <3>1, StageOfWorker
    <3>3. PartOf(v).slot = job[v].slot /\ [slot |-> c, part |-> 0].slot = c
      BY DEF PartOf
    <3> QED BY <1>8, <3>1, <3>2, <3>3
  <2> QED BY <2>1, <2>2 DEF PartsOnce, MailTurns
<1>12. UnpostedNowhere'
  <2>1. SUFFICES ASSUME NEW v \in Workers, Posts(v)'
                 PROVE  /\ \A m \in Mail(Output(Stage(v)))' :
                              m.slot = job'[v].slot => m.part <= Posted(v)'
                        /\ \A u \in Workers : Has(u)' /\ Stage(u) = Output(Stage(v))
                                                /\ job'[u].slot = job'[v].slot =>
                              job'[u].part <= Posted(v)'
    BY DEF UnpostedNowhere
  <2>2. /\ Posts(v) /\ Posted(v)' = Posted(v) /\ job'[v] = job[v] /\ job[v].slot # c
        /\ Output(Stage(v)) \in Resources
    BY <1>3, <1>5, <1>6, <2>1, StageOfWorker
  <2>3. /\ \A m \in Mail(Output(Stage(v))) : m.slot = job[v].slot => m.part <= Posted(v)
        /\ \A u \in Workers : Has(u) /\ Stage(u) = Output(Stage(v)) /\ job[u].slot = job[v].slot =>
              job[u].part <= Posted(v)
    BY <2>2 DEF UnpostedNowhere
  <2>4. \A m \in Mail(Output(Stage(v)))' : m.slot = job[v].slot => m \in Mail(Output(Stage(v)))
    BY <1>8, <2>2
  <2> QED BY <1>3, <2>2, <2>3, <2>4
<1>13. ActorsOnce'
  <2>1. \A v, u \in Workers : v # u /\ Stage(v) = Stage(u) /\ job'[v].slot = job'[u].slot =>
            /\ ~(at'[v] = "filter" /\ at'[u] = "filter")
            /\ ~(Posts(v)' /\ Posts(u)')
            /\ ~(Passes(v)' /\ (Passes(u)' \/ Posts(u)'))
    <3> TAKE v, u \in Workers
    <3>1. /\ at'[v] = at[v] /\ job'[v] = job[v] /\ (Posts(v)' <=> Posts(v)) /\ (Passes(v)' <=> Passes(v))
          /\ at'[u] = at[u] /\ job'[u] = job[u] /\ (Posts(u)' <=> Posts(u)) /\ (Passes(u)' <=> Passes(u))
      BY <1>3
    <3> QED BY <3>1 DEF ActorsOnce
  <2> QED BY <2>1 DEF ActorsOnce
<1>14. PassedOnce'
  <2>1. ASSUME NEW v \in Workers, Passes(v)', NEW m \in Mail("packet")' PROVE m.slot # job'[v].slot
    <3>1. Passes(v) /\ job'[v] = job[v] /\ m \in Mail("packet")
      BY <1>3, <1>8, <2>1 DEF Resources
    <3> QED BY <3>1 DEF PassedOnce
  <2> QED BY <2>1 DEF PassedOnce
<1>15. CountsAgree(to)'
  <2>1. ASSUME NEW t \in Searching, NEW d \in Slots, to[d] = t
        PROVE  searched'[t][d] + Cardinality(Outstanding(t, d)') = Amount(t, d)'
    <3>1. d # c /\ ph[d] = t
      BY <1>1, <2>1 DEF Searching
    <3>2. ASSUME NEW p \in 1 .. Amount(t, d) PROVE Uncounted(t, d, p)' <=> Uncounted(t, d, p)
      <4>1. ([slot |-> d, part |-> p] \in Mail(t))' <=> [slot |-> d, part |-> p] \in Mail(t)
        <5>1. [slot |-> d, part |-> p].slot = d /\ [slot |-> c, part |-> 0].slot = c /\ t \in Resources
          BY DEF Resources, Stages
        <5> QED BY <1>8, <3>1, <5>1 DEF MailTurns
      <4>2. (\E v \in Workers : Stage(v) = t /\ at'[v] = "work" /\ job'[v].slot = d /\ job'[v].part = p)
               <=> (\E v \in Workers : Stage(v) = t /\ at[v] = "work" /\ job[v].slot = d /\ job[v].part = p)
        BY <1>1
      <4>3. \A v \in Workers :
                Output(Stage(v)) = t /\ Posts(v)' /\ job'[v].slot = d /\ p > Posted(v)'
                   <=> Output(Stage(v)) = t /\ Posts(v) /\ job[v].slot = d /\ p > Posted(v)
        BY <1>3, <1>5, <3>1
      <4>4. (\E v \in Workers : Output(Stage(v)) = t /\ Posts(v)' /\ job'[v].slot = d /\ p > Posted(v)')
               <=> (\E v \in Workers : Output(Stage(v)) = t /\ Posts(v) /\ job[v].slot = d /\ p > Posted(v))
        BY <4>3, Zenon
      <4> QED BY <4>1, <4>2, <4>4 DEF Uncounted
    <3>3. Outstanding(t, d)' = Outstanding(t, d) /\ Amount(t, d)' = Amount(t, d)
      BY <1>2, <3>1, <3>2 DEF Outstanding
    <3> QED BY <1>1, <3>1, <3>3 DEF CountsAgree
  <2>2. ASSUME NEW v \in Workers, at'[v] = "filter"
        PROVE  searched'[Stage(v)][job'[v].slot] = Amount(Stage(v), job[v].slot)'
    <3>1. at[v] = "filter" /\ job'[v] = job[v] /\ job[v].slot \in Slots /\ job[v].slot # c
      BY <1>3, <1>6, <2>2
    <3>2. Amount(Stage(v), job[v].slot)' = Amount(Stage(v), job[v].slot)
      BY <1>1, <3>1 DEF Amount, Pic
    <3> QED BY <1>1, <3>1, <3>2 DEF CountsAgree
  <2> QED BY <2>1, <2>2 DEF CountsAgree
<1>16. TilesMade(to)'
  <2>1. ASSUME NEW d \in Slots
        PROVE  /\ tile'[d] # <<>> => Len(tile'[d]) = Len(stream'[1].rows)
               /\ to[d] # "pool" =>
                     /\ DOMAIN tile'[d] = Tiles(d)'
                     /\ \A k \in DOMAIN tile'[d] : tile'[d][k].rows = Pic(d)'.rows[k]
    <3>1. CASE d = c
      BY <1>1, <3>1 DEF TilesTurn, Tiles, Pic
    <3>2. CASE d # c
      BY <1>1, <1>2, <3>2 DEF TilesMade
    <3> QED BY <3>1, <3>2
  <2> QED BY <2>1 DEF TilesMade
<1>17. TilesByStage(to)' /\ TilesCoded'
  <2>1. ASSUME NEW d \in Slots, NEW k \in DOMAIN tile'[d]
        PROVE  /\ to[d] \in BeforeEntropy => Untouched(tile'[d][k])
               /\ to[d] = "packet" => tile'[d][k].done
               /\ tile'[d][k].row <= tile'[d][k].rows
               /\ tile'[d][k].done => tile'[d][k].coded = tile'[d][k].rows
               /\ fresh'[d] => tile'[d][k].coded = 0
    <3>1. CASE d = c
      BY <1>1, <2>1, <3>1 DEF TilesTurn, BeforeEntropy
    <3>2. CASE d # c
      BY <1>1, <2>1, <3>2 DEF TilesByStage, TilesCoded
    <3> QED BY <3>1, <3>2
  <2> QED BY <2>1 DEF TilesByStage, TilesCoded
<1>18. TilesWaiting'
  <2>1. ASSUME NEW m \in Mail("ec")' PROVE Untouched(tile'[m.slot][m.part])
    <3>1. m \in Mail("ec") /\ m.slot # c /\ m.slot \in Slots
      BY <1>8 DEF Resources, Stages
    <3> QED BY <1>1, <3>1 DEF TilesWaiting
  <2>2. ASSUME NEW v \in Rest, Posts(v)', NEW k \in DOMAIN tile'[job'[v].slot], k > Posted(v)'
        PROVE  Untouched(tile'[job'[v].slot][k])
    <3>1. v \in Workers /\ Posts(v) /\ job'[v] = job[v] /\ job[v].slot # c /\ job[v].slot \in Slots
      BY <1>3, <1>6, <2>2 DEF Workers
    <3>2. tile'[job[v].slot] = tile[job[v].slot] /\ Posted(v)' = Posted(v)
      BY <1>1, <1>5, <3>1
    <3> QED BY <2>2, <3>1, <3>2 DEF TilesWaiting
  <2> QED BY <2>1, <2>2 DEF TilesWaiting
<1>19. TileWithWorker'
  <2>1. ASSUME NEW v \in Ec, Has(v)' PROVE Agrees(v)'
    <3>1. v \in Workers /\ Has(v) /\ Agrees(v) /\ job[v].slot \in Slots
      BY <1>3, <1>4, <2>1 DEF Workers, TileWithWorker, Has
    <3>2. CASE job[v].slot # c
      <4>1. /\ TileOf(v)' = TileOf(v) /\ tile'[job[v].slot] = tile[job[v].slot]
            /\ fresh'[job[v].slot] = fresh[job[v].slot] /\ picture'[job[v].slot] = picture[job[v].slot]
        BY <1>1, <1>5, <3>1, <3>2
      <4> QED BY <1>3, <3>1, <4>1 DEF Agrees
    <3>3. CASE job[v].slot = c
      <4>1. /\ at[v] = "rows" /\ tile'[c] = tile[c] /\ TileOf(v)' = TileOf(v)
            /\ TileOf(v).done /\ ~job[v].last /\ at'[v] = at[v] /\ job'[v] = job[v] /\ ~Coding(v)'
        BY <1>3, <1>6, <1>7, <3>1, <3>3
      <4> QED BY <3>1, <3>3, <4>1 DEF Agrees
    <3> QED BY <3>2, <3>3
  <2> QED BY <2>1 DEF TileWithWorker
<1>20. WorkersInPlace'
  BY <1>1 DEF WorkersInPlace
<1> QED BY <1>9, <1>10, <1>11, <1>12, <1>13, <1>14, <1>15, <1>16, <1>17, <1>18, <1>19, <1>20

\* Packetization is done with a picture: nobody works at it, and there is no other
\* message of it.
LEMMA PacketizeKeeps ==
    ASSUME FilterPipelineAssumption, NEW ph \in [Slots -> Phases], Consistent(ph), Packetize
    PROVE  \E to \in [Slots -> Phases] : Consistent(to)'
<1> DEFINE m == Head(queue["packet"])
           slot == m.slot
<1> USE DEF Consistent
<1>1. /\ queue["packet"] \in Seq(Message) /\ queue["packet"] # <<>> /\ NoRepeats(queue["packet"])
      /\ m \in Mail("packet") /\ Tail(queue["packet"]) \in Seq(Message)
      /\ NoRepeats(Tail(queue["packet"])) /\ Contents(Tail(queue["packet"])) = Mail("packet") \ {m}
      /\ "packet" \in Resources
  BY TailContents DEF Packetize, Types, PartsOnce, Mail, Resources
<1>2. m \in Message /\ slot \in Slots /\ ph[slot] = "packet" /\ picture[slot] # 0
  BY <1>1, SlotInUse DEF Message
<1>3. PICK c \in Slots : c = slot
  BY <1>2
<1> HIDE DEF m, slot
<1>4. /\ picture' = [picture EXCEPT ![c] = 0] /\ packets' = Append(packets, picture[c])
      /\ queue' = [queue EXCEPT !["packet"] = Tail(@)]
      /\ free' = [free EXCEPT !["packet"] = @ + 1]
      /\ stream' = stream /\ started' = started /\ searched' = searched /\ holder' = holder
      /\ fresh' = fresh /\ tile' = tile /\ at' = at /\ job' = job /\ left' = left
  BY <1>3 DEF Packetize, m, slot
<1>5. /\ Mail("packet")' = Mail("packet") \ {m}
      /\ \A r \in Resources : r # "packet" => Mail(r)' = Mail(r)
      /\ \A r \in Resources : NoRepeats(queue'[r])
  BY <1>1, <1>4 DEF Types, Mail, PartsOnce
<1>6. \A n \in Mail("packet") : n.slot = c => n = m
  <2>1. SUFFICES ASSUME NEW n \in Mail("packet"), n.slot = c PROVE n = m
    OBVIOUS
  <2>2. "packet" \in Resources \ {"dlf"}
    BY <1>1
  <2>3. m.part \in 1 .. Amount("packet", m.slot) /\ n.part \in 1 .. Amount("packet", n.slot)
    BY <1>1, <2>1, <2>2 DEF PartsInRange
  <2>4. Amount("packet", c) = 1 /\ m.slot = c
    BY <1>3 DEF Amount, slot
  <2>5. n \in Message /\ n.part = m.part
    BY <1>1, <2>1, <2>3, <2>4, SlotInUse
  <2> QED BY <1>2, <2>1, <2>4, <2>5 DEF Message
<1>7. /\ \A r \in Resources : \A n \in Mail(r)' : n \in Mail(r) /\ n.slot # c
      /\ \A r \in Resources : \A n \in Mail(r) : n.slot # c => n \in Mail(r)'
  <2>1. \A r \in Resources : r # "packet" => \A n \in Mail(r) : n.slot # c
    BY <1>2, <1>3 DEF OneStage
  <2>2. m.slot = c
    BY <1>3 DEF slot
  <2> QED BY <1>5, <1>6, <2>1, <2>2
<1>8. Unused(c)
  <2>1. SUFFICES ASSUME NEW v \in Workers, job[v].slot = c
                 PROVE  /\ at[v] # "work" /\ at[v] # "filter" /\ ~Posts(v) /\ ~Coding(v) /\ ~Passes(v)
                        /\ at[v] = "rows" => TileOf(v).done
    BY DEF Unused
  <2>2. Stage(v) \in Stages /\ Stage(v) # "packet" /\ Filtering(Stage(v)) # "packet"
    BY StageOfWorker DEF Stages, Searching, Filtering
  <2>3. at[v] # "work" /\ at[v] # "filter" /\ ~Coding(v) /\ (at[v] = "rows" => TileOf(v).done)
    BY <1>2, <1>3, <2>1, <2>2 DEF OneStage
  <2>4. ~Passes(v)
    <3>1. m.slot = job[v].slot
      BY <1>3, <2>1 DEF slot
    <3> QED BY <1>1, <3>1 DEF PassedOnce
  <2>5. ~Posts(v)
    <3>1. SUFFICES ASSUME Posts(v) PROVE FALSE
      OBVIOUS
    <3>2. Output(Stage(v)) = "packet"
      BY <1>2, <1>3, <2>1, <3>1 DEF OneStage
    <3>3. m.slot = job[v].slot /\ m.part \in Nat /\ left[v] \in Nat \ {0}
      BY <1>2, <1>3, <2>1, <3>1 DEF slot, Message, Posts, Types
    <3>4. m.part <= Posted(v)
      BY <1>1, <3>1, <3>2, <3>3 DEF UnpostedNowhere
    <3>5. m.part \in 1 .. Amount("packet", m.slot)
      BY <1>1 DEF PartsInRange, Resources
    <3>6. Posted(v) = 1 - left[v] /\ Amount("packet", m.slot) = 1
      BY <2>1, <3>2 DEF Posted, Amount
    <3> QED BY <3>3, <3>4, <3>5, <3>6
  <2> QED BY <2>3, <2>4, <2>5
<1>9. PICK to \in [Slots -> Phases] : to = [ph EXCEPT ![c] = "pool"]
  BY DEF Phases
<1>10. SlotTurns(c, "pool")
  BY <1>4 DEF SlotTurns, Types
<1>11. MailTurns(c, "pool")
  BY <1>5, <1>7 DEF MailTurns
<1>12. TilesTurn(c, "pool")
  <2>1. tile'[c] # <<>> => Len(tile'[c]) = Len(stream[1].rows)
    BY <1>4 DEF TilesMade
  <2> QED BY <1>4, <2>1 DEF TilesTurn, TilesCoded
<1>13. packets \in Seq(Nat) /\ picture[c] \in 1 .. started /\ picture \in [Slots -> Nat] /\ started \in Nat
  <2>1. packets \in Seq(Nat) /\ picture \in [Slots -> Nat] /\ started \in Nat
    BY DEF Types
  <2>2. picture[c] <= started
    BY DEF PicturesDiffer
  <2> QED BY <1>2, <1>3, <2>1, <2>2
<1>14. Types'
  <2>1. queue' \in [Resources -> Seq(Message)]
    BY <1>1, <1>4 DEF Types
  <2>2. free' \in [Resources -> Nat]
    BY <1>1, <1>4 DEF Types
  <2>3. picture' \in [Slots -> Nat] /\ packets' \in Seq(Nat)
    BY <1>4, <1>13
  <2> QED BY <1>4, <2>1, <2>2, <2>3 DEF Types
<1>15. PicturesDiffer'
  <2>1. /\ picture'[c] = 0 /\ \A d \in Slots : d # c => picture'[d] = picture[d]
    BY <1>4, <1>13
  <2>2. /\ \A d \in Slots : picture'[d] <= started'
        /\ \A d, e \in Slots : d # e /\ picture'[d] # 0 => picture'[d] # picture'[e]
    BY <1>4, <1>13, <2>1 DEF PicturesDiffer
  <2>3. /\ DOMAIN packets = 1 .. Len(packets) /\ Len(packets) \in Nat
        /\ DOMAIN packets' = 1 .. Len(packets) + 1
        /\ packets'[Len(packets) + 1] = picture[c]
        /\ \A i \in 1 .. Len(packets) : packets'[i] = packets[i]
    BY <1>4, <1>13
  <2>4. \A i \in DOMAIN packets :
            /\ packets[i] \in 1 .. started /\ \A d \in Slots : packets[i] # picture[d]
            /\ \A j \in DOMAIN packets : i # j => packets[i] # packets[j]
    BY DEF PicturesDiffer
  <2>5. ASSUME NEW i \in DOMAIN packets'
        PROVE  /\ packets'[i] \in 1 .. started
               /\ \A d \in Slots : packets'[i] # picture'[d]
               /\ \A j \in DOMAIN packets' : i # j => packets'[i] # packets'[j]
    <3>1. CASE i = Len(packets) + 1
      <4>1. packets'[i] \in 1 .. started
        BY <1>13, <2>3, <3>1
      <4>2. \A d \in Slots : packets'[i] # picture'[d]
        <5>1. \A d \in Slots : d # c => picture[c] # picture[d]
          BY <1>13 DEF PicturesDiffer
        <5>2. packets'[i] = picture[c] /\ picture[c] # 0
          BY <1>13, <2>3, <3>1
        <5> QED BY <2>1, <5>1, <5>2
      <4>3. \A j \in DOMAIN packets' : i # j => packets'[i] # packets'[j]
        BY <2>3, <2>4, <3>1
      <4> QED BY <4>1, <4>2, <4>3
    <3>2. CASE i # Len(packets) + 1
      <4>1. i \in DOMAIN packets /\ packets'[i] = packets[i]
        BY <2>3, <2>5, <3>2
      <4>2. \A d \in Slots : packets'[i] # picture'[d]
        BY <2>1, <2>4, <4>1
      <4>3. \A j \in DOMAIN packets' : i # j => packets'[i] # packets'[j]
        BY <2>3, <2>4, <4>1
      <4> QED BY <2>4, <4>1, <4>2, <4>3
    <3> QED BY <3>1, <3>2
  <2> QED BY <1>4, <2>2, <2>5 DEF PicturesDiffer
<1>16. Consistent(to)'
  <2> HIDE DEF Consistent
  <2> QED BY <1>8, <1>9, <1>10, <1>11, <1>12, <1>14, <1>15, TurnKeeps
<1> QED BY <1>16

\* In the pool a slot has no worker that could go on.
LEMMA PoolIsUnused ==
    ASSUME FilterPipelineAssumption, NEW ph \in [Slots -> Phases], Consistent(ph),
           NEW c \in Slots, picture[c] = 0
    PROVE  ph[c] = "pool" /\ Unused(c)
<1>1. ph[c] = "pool" /\ OneStage(ph)
  BY DEF Consistent, OneStage
<1>2. SUFFICES ASSUME NEW v \in Workers, job[v].slot = c
               PROVE  /\ at[v] # "work" /\ at[v] # "filter" /\ ~Posts(v) /\ ~Coding(v) /\ ~Passes(v)
                      /\ at[v] = "rows" => TileOf(v).done
  BY <1>1 DEF Unused
<1>3. Stage(v) # "pool" /\ Output(Stage(v)) # "pool" /\ Filtering(Stage(v)) # "pool"
  BY StageOfWorker DEF Stages, Searching, Filtering, Resources
<1> QED BY <1>1, <1>2, <1>3 DEF OneStage

\* With one tile nobody lingers at a slot in the pool: the worker who is done with
\* the tile is the one who passes the picture on.
LEMMA NobodyLingers ==
    ASSUME FilterPipelineAssumption, NEW ph \in [Slots -> Phases], Consistent(ph),
           NEW c \in Slots, picture[c] = 0, Tiling = 1
    PROVE  ~Lingers(c)
<1>1. SUFFICES ASSUME NEW v \in Ec, at[v] = "rows", job[v].slot = c PROVE FALSE
  BY DEF Lingers
<1>2. v \in Workers /\ Has(v) /\ Agrees(v)
  BY <1>1 DEF Workers, Has, TileWithWorker, Consistent
<1>3. job[v].part \in DOMAIN tile[c] /\ tile[c] \in Seq(Tile)
  BY <1>1, <1>2 DEF PartsInRange, Types, Consistent
<1>4. Len(tile[c]) = 1
  BY <1>3 DEF TilesMade, Tiling, Consistent
<1>5. TileOf(v).done /\ ~Passes(v)
  BY <1>1, <1>2, PoolIsUnused DEF Unused
<1> QED BY <1>1, <1>2, <1>4, <1>5 DEF Agrees, Passes

\* A slot is set up for another picture.  A worker that lingered at a tile of the
\* last one would find new rows there.
LEMMA StartKeeps ==
    ASSUME FilterPipelineAssumption, NEW ph \in [Slots -> Phases], Consistent(ph),
           NEW c \in Slots, Start(c), ~Lingers(c)
    PROVE  \E to \in [Slots -> Phases] : Consistent(to)'
<1> DEFINE m == [slot |-> c, part |-> 0]
           rows == stream[started + 1].rows
           made == [k \in DOMAIN rows |-> NewTile(rows[k])]
<1> USE DEF Consistent
<1>1. /\ picture[c] = 0 /\ started < Len(stream) /\ started' = started + 1
      /\ picture' = [picture EXCEPT ![c] = started + 1]
      /\ tile' = [tile EXCEPT ![c] = made]
      /\ fresh' = [fresh EXCEPT ![c] = TRUE]
      /\ free' = [free EXCEPT !["dlf"] = @ - 1] /\ free["dlf"] > 0
      /\ queue' = [queue EXCEPT !["dlf"] = Append(@, m)]
      /\ stream' = stream /\ searched' = searched /\ holder' = holder /\ at' = at /\ job' = job
      /\ left' = left /\ packets' = packets
  BY DEF Start
<1>2. /\ stream \in Streams /\ stream \in Seq(Pictures) /\ started \in Nat
      /\ started + 1 \in DOMAIN stream /\ 1 \in DOMAIN stream
      /\ stream[started + 1] \in Pictures /\ rows = stream[1].rows
  <2>1. stream \in Streams /\ started \in Nat /\ stream \in Seq(Pictures)
    BY DEF Types, FilterPipelineAssumption
  <2>2. started + 1 \in DOMAIN stream /\ 1 \in DOMAIN stream
    BY <1>1, <2>1
  <2> QED BY <2>1, <2>2 DEF FilterPipelineAssumption
<1>3. /\ rows \in Seq(Nat \ {0}) /\ rows # <<>> /\ Len(rows) \in Nat \ {0} /\ DOMAIN rows = 1 .. Len(rows)
  <2>1. \A p \in Pictures : p.rows \in Seq(Nat \ {0}) /\ p.rows # <<>>
    BY DEF Pictures
  <2>2. rows \in Seq(Nat \ {0}) /\ rows # <<>>
    BY <1>2, <2>1
  <2> HIDE DEF rows
  <2> QED BY <2>2
<1>4. /\ made \in Seq(Tile) /\ DOMAIN made = DOMAIN rows /\ Len(made) = Len(rows)
      /\ \A k \in DOMAIN rows : made[k].rows = rows[k] /\ Untouched(made[k]) /\ made[k].row <= made[k].rows
  <2>1. \A n \in Nat \ {0} : NewTile(n) \in Tile /\ NewTile(n).rows = n /\ Untouched(NewTile(n))
                             /\ NewTile(n).row <= n
    BY DEF NewTile, Tile, Untouched
  <2>2. \A k \in DOMAIN rows : rows[k] \in Nat \ {0}
    BY <1>3
  <2>3. DOMAIN made = 1 .. Len(rows) /\ \A k \in DOMAIN rows : made[k] = NewTile(rows[k])
    BY <1>3
  <2>4. made \in Seq(Tile) /\ Len(made) = Len(rows)
    BY <1>3, <2>1, <2>2, <2>3
  <2> QED BY <1>3, <2>1, <2>2, <2>3, <2>4
<1> HIDE DEF made
<1>5. ph[c] = "pool" /\ \A r \in Resources : \A n \in Mail(r) : n.slot # c
  <2>1. ph[c] = "pool"
    BY <1>1 DEF OneStage
  <2> QED BY <2>1 DEF OneStage, Resources, Stages, Searching
<1>6. Unused(c)
  BY <1>1, PoolIsUnused
<1>7. ~Lingers(c)
  OBVIOUS
<1>8. PICK to \in [Slots -> Phases] : to = [ph EXCEPT ![c] = "dlf"]
  BY DEF Phases, BeforeEntropy
<1>9. /\ picture \in [Slots -> Nat] /\ tile \in [Slots -> Seq(Tile)] /\ fresh \in [Slots -> BOOLEAN]
      /\ queue \in [Resources -> Seq(Message)] /\ free \in [Resources -> Nat]
      /\ "dlf" \in Resources /\ m \in Message
  BY DEF Types, Resources, Stages, Message
<1>10. /\ picture'[c] = started + 1 /\ tile'[c] = made
       /\ \A d \in Slots : d # c => picture'[d] = picture[d] /\ tile'[d] = tile[d] /\ fresh'[d] = fresh[d]
  BY <1>1, <1>9
<1>11. SlotTurns(c, "dlf")
  BY <1>1, <1>2, <1>7, <1>10 DEF SlotTurns
<1>12. MailTurns(c, "dlf")
  <2>1. queue["dlf"] \in Seq(Message) /\ NoRepeats(queue["dlf"]) /\ m \notin Contents(queue["dlf"])
    BY <1>5, <1>9 DEF PartsOnce, Mail
  <2>2. /\ Contents(Append(queue["dlf"], m)) = Mail("dlf") \cup {m}
        /\ NoRepeats(Append(queue["dlf"], m))
    BY <1>9, <2>1, AppendContents DEF Mail
  <2>3. /\ Mail("dlf")' = Mail("dlf") \cup {m} /\ \A r \in Resources : r # "dlf" => Mail(r)' = Mail(r)
        /\ \A r \in Resources : NoRepeats(queue'[r])
    BY <1>1, <1>9, <2>2 DEF Mail, PartsOnce
  <2> QED BY <1>5, <2>3 DEF MailTurns
<1>13. TilesTurn(c, "dlf")
  <2>1. stream[picture'[c]].rows = rows
    BY <1>10
  <2>2. \A k \in DOMAIN rows : ~made[k].done /\ made[k].coded = 0
    BY <1>4 DEF Untouched
  <2>3. Len(made) = Len(stream[1].rows)
    BY <1>2, <1>4
  <2> HIDE DEF rows
  <2> QED BY <1>4, <1>10, <2>1, <2>2, <2>3 DEF TilesTurn
<1>14. Types'
  <2>1. queue' \in [Resources -> Seq(Message)]
    BY <1>1, <1>9
  <2>2. free' \in [Resources -> Nat]
    BY <1>1, <1>9
  <2>3. picture' \in [Slots -> Nat] /\ tile' \in [Slots -> Seq(Tile)] /\ fresh' \in [Slots -> BOOLEAN]
    BY <1>1, <1>2, <1>4, <1>9
  <2>4. started' \in 0 .. Len(stream')
    BY <1>1, <1>2
  <2> QED BY <1>1, <2>1, <2>2, <2>3, <2>4 DEF Types
<1>15. PicturesDiffer'
  <2>1. \A d \in Slots : picture[d] \in Nat /\ picture[d] <= started
    BY <1>9 DEF PicturesDiffer
  <2>2. \A i \in DOMAIN packets : packets[i] \in 1 .. started
    BY DEF PicturesDiffer
  <2>3. /\ \A d \in Slots : picture'[d] <= started'
        /\ \A d, e \in Slots : d # e /\ picture'[d] # 0 => picture'[d] # picture'[e]
    BY <1>1, <1>2, <1>10, <2>1 DEF PicturesDiffer
  <2>4. ASSUME NEW i \in DOMAIN packets
        PROVE  /\ packets[i] \in 1 .. started'
               /\ \A d \in Slots : packets[i] # picture'[d]
               /\ \A j \in DOMAIN packets : i # j => packets[i] # packets[j]
    <3>1. packets[i] \in 1 .. started' /\ packets[i] # started + 1
      BY <1>1, <1>2, <2>2
    <3>2. \A d \in Slots : packets[i] # picture[d]
      BY DEF PicturesDiffer
    <3>3. \A j \in DOMAIN packets : i # j => packets[i] # packets[j]
      BY DEF PicturesDiffer
    <3> QED BY <1>10, <3>1, <3>2, <3>3
  <2> QED BY <1>1, <2>3, <2>4 DEF PicturesDiffer
<1>16. Consistent(to)'
  <2> HIDE DEF Consistent
  <2> QED BY <1>6, <1>8, <1>11, <1>12, <1>13, <1>14, <1>15, TurnKeeps
<1> QED BY <1>16

-----------------------------------------------------------------------------
(* The invariant, and the properties that follow from it.                  *)

\* In the beginning every slot is in the pool.
LEMMA InitHolds ==
    ASSUME FilterPipelineAssumption, Init
    PROVE  PipelineInvariant
<1>1. PICK ph \in [Slots -> Phases] : \A c \in Slots : ph[c] = "pool"
  <2>1. [c \in Slots |-> "pool"] \in [Slots -> Phases]
    BY DEF Phases
  <2> QED BY <2>1
<1>2. /\ picture = [c \in Slots |-> 0] /\ queue = [r \in Resources |-> <<>>] /\ packets = <<>>
      /\ at = [w \in Workers |-> "idle"] /\ job = [w \in Workers |-> NoJob]
      /\ tile = [c \in Slots |-> <<>>] /\ started = 0 /\ stream \in Streams
  BY DEF Init
<1>3. Types
  <2>1. stream \in Seq(Pictures) /\ started \in 0 .. Len(stream)
    BY <1>2 DEF FilterPipelineAssumption
  <2>2. free \in [Resources -> Nat]
    BY DEF Init, FilterPipelineAssumption
  <2>3. NoJob \in Job /\ "idle" \in Places /\ <<>> \in Seq(Tile) /\ <<>> \in Seq(Message)
    BY DEF NoJob, Job, Places
  <2> QED BY <1>2, <2>1, <2>2, <2>3 DEF Types, Init
<1>4. /\ \A w \in Workers : at[w] = "idle" /\ job[w] = NoJob /\ ~Has(w) /\ ~Posts(w) /\ ~Passes(w) /\ ~Coding(w)
      /\ \A r \in Resources : Mail(r) = {}
  BY <1>2 DEF Has, Posts, Passes, Coding, Mail, Contents
<1>5. WorkersInPlace /\ PicturesDiffer
  BY <1>2, <1>4 DEF WorkersInPlace, PicturesDiffer, NoJob
<1>6. OneStage(ph)
  BY <1>1, <1>2, <1>4 DEF OneStage
<1>7. PartsInRange
  BY <1>4 DEF PartsInRange, Resources, Stages
<1>8. PartsOnce
  <2>1. \A r \in Resources : NoRepeats(queue[r])
    BY <1>2 DEF NoRepeats
  <2> QED BY <1>4, <2>1 DEF PartsOnce
<1>9. UnpostedNowhere /\ ActorsOnce /\ PassedOnce
  BY <1>4 DEF UnpostedNowhere, ActorsOnce, PassedOnce
<1>10. CountsAgree(ph)
  BY <1>1, <1>4 DEF CountsAgree, Searching
<1>11. TilesMade(ph) /\ TilesByStage(ph) /\ TilesCoded
  BY <1>1, <1>2 DEF TilesMade, TilesByStage, TilesCoded
<1>12. TilesWaiting /\ TileWithWorker
  BY <1>4 DEF TilesWaiting, TileWithWorker, Resources, Stages, Workers
<1>13. Consistent(ph)
  BY <1>3, <1>5, <1>6, <1>7, <1>8, <1>9, <1>10, <1>11, <1>12 DEF Consistent
<1>14. ~overtaken
  BY DEF Init
<1> QED BY <1>13, <1>14 DEF PipelineInvariant

\* A step that changes nothing.
LEMMA StutterKeeps ==
    ASSUME NEW ph \in [Slots -> Phases], Consistent(ph), UNCHANGED vars
    PROVE  Consistent(ph)'
<1>1. /\ stream' = stream /\ started' = started /\ picture' = picture /\ searched' = searched
      /\ holder' = holder /\ fresh' = fresh /\ tile' = tile /\ free' = free /\ queue' = queue
      /\ at' = at /\ job' = job /\ left' = left /\ packets' = packets
  BY DEF vars, slotVars
<1>2. /\ Types' /\ WorkersInPlace' /\ PicturesDiffer'
  BY <1>1 DEF Consistent, Types, WorkersInPlace, PicturesDiffer
<1>3. /\ \A w : (Has(w)' <=> Has(w)) /\ (Posts(w)' <=> Posts(w)) /\ (Passes(w)' <=> Passes(w))
             /\ (Coding(w)' <=> Coding(w)) /\ PartOf(w)' = PartOf(w) /\ Posted(w)' = Posted(w)
             /\ TileOf(w)' = TileOf(w)
      /\ \A r : Mail(r)' = Mail(r)
      /\ \A r, c : Amount(r, c)' = Amount(r, c)
      /\ \A c : Pic(c)' = Pic(c) /\ Tiles(c)' = Tiles(c)
  BY <1>1 DEF Has, Posts, Passes, Coding, PartOf, Posted, TileOf, Mail, Amount, Pic, Tiles
<1>4. OneStage(ph)' /\ PartsInRange'
  BY <1>1, <1>3 DEF Consistent, OneStage, PartsInRange
<1>5. PartsOnce' /\ UnpostedNowhere' /\ ActorsOnce' /\ PassedOnce'
  BY <1>1, <1>3 DEF Consistent, PartsOnce, UnpostedNowhere, ActorsOnce, PassedOnce
<1>6. CountsAgree(ph)'
  <2>1. \A s, c : Outstanding(s, c)' = Outstanding(s, c)
    BY <1>1, <1>3 DEF Outstanding, Uncounted
  <2> QED BY <1>1, <1>3, <2>1 DEF Consistent, CountsAgree
<1>7. TilesMade(ph)' /\ TilesByStage(ph)' /\ TilesCoded' /\ TilesWaiting'
  BY <1>1, <1>3 DEF Consistent, TilesMade, TilesByStage, TilesCoded, TilesWaiting
<1>8. TileWithWorker'
  BY <1>1, <1>3 DEF Consistent, TileWithWorker, Agrees
<1> QED BY <1>2, <1>4, <1>5, <1>6, <1>7, <1>8 DEF Consistent

\* Every step that overtakes nobody keeps the slots consistent.
LEMMA StepKeeps ==
    ASSUME FilterPipelineAssumption, NEW ph \in [Slots -> Phases], Consistent(ph), [Next]_vars, ~overtaken'
    PROVE  \E to \in [Slots -> Phases] : Consistent(to)'
<1>1. Consistent(ph)
  OBVIOUS
<1>3. ASSUME NEW w \in Workers, Take(w) PROVE Consistent(ph)'
  BY <1>1, <1>3, TakeKeeps
<1>4. ASSUME NEW w \in Workers, PostPart(w) PROVE Consistent(ph)'
  BY <1>1, <1>4, PostKeeps
<1>5. ASSUME NEW w \in Workers, EndPosting(w) \/ GiveBack(w) PROVE Consistent(ph)'
  BY <1>1, <1>5, EndKeeps
<1>6. ASSUME NEW w \in Workers, Deblock(w) PROVE \E to \in [Slots -> Phases] : Consistent(to)'
  BY <1>1, <1>6, DeblockKeeps
<1>7. ASSUME NEW w \in Workers, CountSegment(w) PROVE \E to \in [Slots -> Phases] : Consistent(to)'
  BY <1>1, <1>7, CountKeeps
<1>8. ASSUME NEW w \in Workers, FilterPicture(w) PROVE \E to \in [Slots -> Phases] : Consistent(to)'
  BY <1>1, <1>8, FilterKeeps
<1>9. ASSUME NEW w \in Workers, NextRow(w) PROVE Consistent(ph)'
  BY <1>1, <1>9, NextRowKeeps
<1>10. ASSUME NEW w \in Workers, BeginRow(w) PROVE Consistent(ph)'
  BY <1>1, <1>10, BeginRowKeeps
<1>11. ASSUME NEW w \in Workers, CodeRow(w) PROVE Consistent(ph)'
  BY <1>1, <1>11, CodeRowKeeps
<1>12. ASSUME NEW w \in Workers, FinishRow(w) PROVE \E to \in [Slots -> Phases] : Consistent(to)'
  BY <1>1, <1>12, FinishRowKeeps
<1>13. ASSUME NEW c \in Slots, Start(c) PROVE \E to \in [Slots -> Phases] : Consistent(to)'
  <2>1. ~Lingers(c)
    BY <1>13, Zenon DEF Start
  <2> QED BY <1>1, <1>13, <2>1, StartKeeps
<1>14. ASSUME Packetize PROVE \E to \in [Slots -> Phases] : Consistent(to)'
  BY <1>1, <1>14, PacketizeKeeps
<1>15. ASSUME UNCHANGED vars PROVE Consistent(ph)'
  BY <1>1, <1>15, StutterKeeps
<1> QED BY <1>3, <1>4, <1>5, <1>6, <1>7, <1>8, <1>9, <1>10, <1>11, <1>12, <1>13, <1>14, <1>15
        DEF Next, WorkerStep

\* Only a slot that comes back can overtake somebody, and nothing undoes it.
LEMMA WhoOvertakes ==
    ASSUME [Next]_vars
    PROVE  /\ stream' = stream
           /\ \/ overtaken' = overtaken
              \/ \E c \in Slots : picture[c] = 0 /\ overtaken' = (overtaken \/ Lingers(c))
<1>1. ASSUME NEW c \in Slots, Start(c)
      PROVE  stream' = stream /\ picture[c] = 0 /\ overtaken' = (overtaken \/ Lingers(c))
  BY <1>1, Zenon DEF Start
<1>2. ASSUME NEW w \in Workers, WorkerStep(w) PROVE stream' = stream /\ overtaken' = overtaken
  BY <1>2 DEF WorkerStep, Take, PostPart, EndPosting, GiveBack, Deblock, CountSegment, FilterPicture,
              NextRow, BeginRow, CodeRow, FinishRow
<1>3. ASSUME Packetize PROVE stream' = stream /\ overtaken' = overtaken
  BY <1>3 DEF Packetize
<1>4. ASSUME UNCHANGED vars PROVE stream' = stream /\ overtaken' = overtaken
  BY <1>4 DEF vars
<1> QED BY <1>1, <1>2, <1>3, <1>4, Zenon DEF Next

\* Every step keeps the invariant.
LEMMA InvariantKept ==
    ASSUME FilterPipelineAssumption, PipelineInvariant, [Next]_vars
    PROVE  PipelineInvariant'
<1>1. /\ stream' = stream
      /\ \/ overtaken' = overtaken
         \/ \E c \in Slots : picture[c] = 0 /\ overtaken' = (overtaken \/ Lingers(c))
  BY WhoOvertakes
<1>2. ~overtaken' => ~overtaken
  BY <1>1, Zenon
<1>3. ASSUME ~overtaken' PROVE \E to \in [Slots -> Phases] : Consistent(to)'
  <2>1. PICK ph \in [Slots -> Phases] : Consistent(ph)
    BY <1>2, <1>3 DEF PipelineInvariant
  <2> QED BY <1>3, <2>1, StepKeeps
<1>4. ASSUME Tiling = 1 PROVE ~overtaken'
  <2>1. ~overtaken
    BY <1>4 DEF PipelineInvariant
  <2>2. PICK ph \in [Slots -> Phases] : Consistent(ph)
    BY <2>1 DEF PipelineInvariant
  <2>3. \A c \in Slots : picture[c] = 0 => ~Lingers(c)
    BY <1>4, <2>2, NobodyLingers
  <2> QED BY <1>1, <2>1, <2>3, Zenon
<1>5. Tiling' = Tiling
  BY <1>1 DEF Tiling
<1> QED BY <1>3, <1>4, <1>5 DEF PipelineInvariant

\* Through all of the pipeline every slot is at one stage, and every part of its
\* picture is at one place: with one tile always, with several until a slot comes
\* back while a worker lingers.
THEOREM PipelineIsConsistent ==
    ASSUME FilterPipelineAssumption
    PROVE  Spec => []PipelineInvariant
<1>1. Init => PipelineInvariant
  BY InitHolds
<1>2. PipelineInvariant /\ [Next]_vars => PipelineInvariant'
  BY InvariantKept
<1> QED BY <1>1, <1>2, PTL DEF Spec

\* What is searched is not filtered: the last segment counted is the last there is.
LEMMA InvariantSearch ==
    ASSUME FilterPipelineAssumption, PipelineInvariant
    PROVE  SearchBeforeFilter
<1> SUFFICES ASSUME ~overtaken PROVE SearchBeforeFilter
  BY DEF SearchBeforeFilter
<1>1. PICK ph \in [Slots -> Phases] : Consistent(ph)
  BY DEF PipelineInvariant
<1>2. SUFFICES ASSUME NEW w \in Workers, at[w] = "filter"
               PROVE  /\ \A v \in Workers : at[v] = "work" => job[v].slot # job[w].slot
                      /\ \A i \in DOMAIN queue[Stage(w)] : queue[Stage(w)][i].slot # job[w].slot
                      /\ searched[Stage(w)][job[w].slot] = Total(Stage(w), job[w].slot)
  BY DEF SearchBeforeFilter
<1>3. Alone(w) /\ job[w].slot \in Slots /\ Stage(w) \in Resources /\ Stage(w) \in Searching
  BY <1>1, <1>2, AloneWithPicture, StageOfWorker DEF Consistent, WorkersInPlace
<1>4. \A v \in Workers : at[v] = "work" => job[v].slot # job[w].slot
  BY <1>2, <1>3 DEF Alone, Has
<1>5. \A i \in DOMAIN queue[Stage(w)] : queue[Stage(w)][i].slot # job[w].slot
  BY <1>3 DEF Alone, Mail, Contents
<1>6. searched[Stage(w)][job[w].slot] = Total(Stage(w), job[w].slot)
  <2>1. searched[Stage(w)][job[w].slot] = Amount(Stage(w), job[w].slot)
    BY <1>1, <1>2 DEF Consistent, CountsAgree
  <2>2. picture[job[w].slot] # 0
    BY <1>1, <1>2, SlotInUse DEF Consistent
  <2> QED BY <1>1, <1>3, <2>1, <2>2, PictureOfSlot DEF Consistent
<1> QED BY <1>4, <1>5, <1>6

\* The one tile of a picture has one worker, whose picture it is.
LEMMA InvariantOwn ==
    ASSUME FilterPipelineAssumption, PipelineInvariant
    PROVE  OwnPictureOnly
<1>1. SUFFICES ASSUME Tiling = 1, NEW w \in Ec, AtTile(w)
               PROVE  /\ picture[job[w].slot] = job[w].pic
                      /\ \A v \in Ec \ {w} : AtTile(v) => job[v].slot # job[w].slot
  BY DEF OwnPictureOnly, Tiling
<1>2. PICK ph \in [Slots -> Phases] : Consistent(ph)
  BY <1>1 DEF PipelineInvariant
<1>3. ASSUME NEW v \in Ec, AtTile(v)
      PROVE  /\ v \in Workers /\ Stage(v) = "ec" /\ Has(v) /\ Agrees(v)
             /\ Len(tile[job[v].slot]) = 1 /\ job[v].part = 1
  <2>1. v \in Workers /\ Stage(v) = "ec" /\ Has(v) /\ job[v].slot \in Slots
    <3>1. v \in Workers /\ Stage(v) = "ec"
      BY <1>3, StageOfWorker DEF Workers
    <3>2. Has(v) /\ at[v] # "idle"
      BY <1>3 DEF AtTile, Coding, Has
    <3>3. job[v].slot # None /\ Types
      BY <1>2, <3>1, <3>2 DEF Consistent, WorkersInPlace
    <3>4. job[v] \in Job
      BY <3>1, <3>3 DEF Types
    <3> QED BY <3>1, <3>2, <3>3, <3>4 DEF Job
  <2>2. Agrees(v)
    BY <1>2, <1>3, <2>1 DEF Consistent, TileWithWorker
  <2>3. job[v].part \in DOMAIN tile[job[v].slot] /\ tile[job[v].slot] \in Seq(Tile)
    BY <1>2, <1>3, <2>1 DEF Consistent, PartsInRange, Types
  <2>4. Len(tile[job[v].slot]) = 1
    BY <1>1, <1>2, <2>1, <2>3 DEF Consistent, TilesMade, Tiling
  <2> QED BY <2>1, <2>2, <2>3, <2>4
<1>4. picture[job[w].slot] = job[w].pic
  BY <1>1, <1>3 DEF Agrees, AtTile
<1>5. ASSUME NEW v \in Ec \ {w}, AtTile(v) PROVE job[v].slot # job[w].slot
  BY <1>1, <1>2, <1>3, <1>5 DEF Consistent, PartsOnce
<1> QED BY <1>4, <1>5

\* What waits for Packetization is a whole picture.
LEMMA InvariantPassed ==
    ASSUME FilterPipelineAssumption, PipelineInvariant
    PROVE  PassedOnComplete
<1> SUFFICES ASSUME ~overtaken PROVE PassedOnComplete
  BY DEF PassedOnComplete
<1>1. PICK ph \in [Slots -> Phases] : Consistent(ph)
  BY DEF PipelineInvariant
<1>2. \A i, j \in DOMAIN packets : packets[i] \in 1 .. started /\ (packets[i] = packets[j] => i = j)
  BY <1>1 DEF Consistent, PicturesDiffer
<1>3. ASSUME NEW i \in DOMAIN queue["packet"]
      PROVE  LET c == queue["packet"][i].slot IN
             /\ picture[c] # 0
             /\ \A k \in Tiles(c) : tile[c][k].coded = Pic(c).rows[k] /\ tile[c][k].done
             /\ \A w \in Ec : Coding(w) => job[w].slot # c
  <2> DEFINE c == queue["packet"][i].slot
  <2>1. queue["packet"][i] \in Mail("packet") /\ "packet" \in Resources
    BY <1>3 DEF Mail, Contents, Resources
  <2>2. c \in Slots /\ ph[c] = "packet" /\ picture[c] # 0
    BY <1>1, <2>1, SlotInUse DEF Consistent, Message
  <2>3. DOMAIN tile[c] = Tiles(c) /\ \A k \in Tiles(c) : tile[c][k].rows = Pic(c).rows[k]
    BY <1>1, <2>2 DEF Consistent, TilesMade
  <2>4. \A k \in Tiles(c) : tile[c][k].done /\ tile[c][k].coded = tile[c][k].rows
    BY <1>1, <2>2, <2>3 DEF Consistent, TilesByStage, TilesCoded
  <2>5. \A w \in Ec : Coding(w) => job[w].slot # c
    BY <1>1, <2>2 DEF Consistent, OneStage, Workers
  <2> QED BY <2>2, <2>3, <2>4, <2>5
<1> QED BY <1>2, <1>3 DEF PassedOnComplete

\* The reconstruction of a picture is not filtered while a segment of it is searched,
\* or is still to be: whatever the workers, the slots and the objects of the queues,
\* until a slot comes back under a lingering worker.
THEOREM SearchIsBeforeFilter ==
    ASSUME FilterPipelineAssumption
    PROVE  Spec => []SearchBeforeFilter
<1>1. PipelineInvariant => SearchBeforeFilter
  BY InvariantSearch
<1> QED BY <1>1, PipelineIsConsistent, PTL

\* A picture of one tile has one worker, who only touches the PictureControlSet while
\* it is still that of the picture he took.
THEOREM OwnPictureIsCoded ==
    ASSUME FilterPipelineAssumption
    PROVE  Spec => []OwnPictureOnly
<1>1. PipelineInvariant => OwnPictureOnly
  BY InvariantOwn
<1> QED BY <1>1, PipelineIsConsistent, PTL

\* A picture is passed on once, with all rows of all its tiles in the bitstream, until
\* a slot comes back under a lingering worker.
THEOREM PassedOnIsComplete ==
    ASSUME FilterPipelineAssumption
    PROVE  Spec => []PassedOnComplete
<1>1. PipelineInvariant => PassedOnComplete
  BY InvariantPassed
<1> QED BY <1>1, PipelineIsConsistent, PTL
=============================================================================
