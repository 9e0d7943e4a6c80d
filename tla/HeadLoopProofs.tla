--------------------------- MODULE HeadLoopProofs ---------------------------
(***************************************************************************)
(* The loop of a head, for any numbers of heads and chains, any target     *)
(* length and whatever results are late.                                   *)
(*                                                                         *)
(* With the rescheduling switched off, as it is at this commit, no         *)
(* assertion fails and a head leaves its loop only when all its chains are *)
(* finished (HLInv).  With it on or off the work queue and the objects     *)
(* agree, no chain is run or finished twice, none comes late, a head       *)
(* waits for just the chains that come, and chains are only moved when     *)
(* that makes the loads more even (RInv).                                  *)
(***************************************************************************)
EXTENDS HeadLoop, MultiwayPartitioningProofs

(* Empty sequences behind one another are an empty sequence.                *)
LEMMA FlattenEmpty ==
  ASSUME NEW n \in Nat, NEW seqs \in [1 .. n -> {<<>>}]
  PROVE  FlattenSeq(seqs) = <<>>
<1>1. Len(seqs) = n /\ \A i \in 1 .. n : seqs[i] = <<>>
  OBVIOUS
<1>2. CASE n = 0
  BY <1>1, <1>2 DEF FlattenSeq
<1>3. CASE n # 0
  <2> DEFINE Flattens(f) ==
               f = [i \in 1 .. Len(seqs) |->
                      IF i = 1 THEN seqs[i] ELSE f[i - 1] \o seqs[i]]
             all == CHOOSE f : Flattens(f)
  <2>1. Flattens([i \in 1 .. n |-> <<>>])
    <3> DEFINE e == [i \in 1 .. n |-> <<>>]
    <3>1. ASSUME NEW i \in 1 .. n
          PROVE  e[i] = IF i = 1 THEN seqs[i] ELSE e[i - 1] \o seqs[i]
      <4>1. CASE i # 1
        <5>1. i - 1 \in 1 .. n
          BY <4>1
        <5>2. e[i - 1] = <<>> /\ seqs[i] = <<>> /\ e[i] = <<>>
          BY <1>1, <5>1
        <5>3. <<>> \o <<>> = <<>>
          OBVIOUS
        <5> HIDE DEF e
        <5> QED
          BY <4>1, <5>2, <5>3
      <4> QED
        BY <1>1, <4>1
    <3> QED
      BY <1>1, <3>1
  <2>2. Flattens(all)
    BY <2>1
  <2> HIDE DEF all
  <2>3. \A i \in 1 .. n : all[i] = IF i = 1 THEN seqs[i] ELSE all[i - 1] \o seqs[i]
    BY <1>1, <2>2
  <2> DEFINE Rest == {i \in 1 .. n : all[i] # <<>>}
  <2>4. Rest = {}
    <3> SUFFICES ASSUME Rest # {}
                 PROVE  FALSE
      OBVIOUS
    <3>1. PICK m \in Rest : \A k \in Rest : m <= k
      <4>1. Rest \subseteq Nat /\ Rest # {}
        OBVIOUS
      <4> HIDE DEF Rest
      <4> QED
        BY <4>1, LeastOf
    <3>2. m \in 1 .. n /\ all[m] # <<>> /\ m # 1
      BY <1>1, <2>3
    <3>3. m - 1 \in 1 .. n /\ m - 1 \notin Rest
      BY <3>1, <3>2
    <3>4. all[m - 1] = <<>>
      BY <3>3
    <3>5. all[m] = <<>> \o <<>>
      BY <1>1, <2>3, <3>2, <3>4
    <3> QED
      BY <3>2, <3>5
  <2>5. n \in 1 .. n
    BY <1>3
  <2>6. all[n] = <<>>
    BY <2>4, <2>5
  <2>7. FlattenSeq(seqs) = all[Len(seqs)]
    BY <1>1, <1>3 DEF FlattenSeq, all
  <2> QED
    BY <1>1, <2>6, <2>7
<1> QED
  BY <1>2, <1>3

-----------------------------------------------------------------------------
(* The invariant                                                           *)

Stages == {"idle", "started", "waiting", "answered", "ended"}

(* The algorithm objects of chains that are not done.                       *)
Records == [iteration : 0 .. TargetLength - 1, stage : Stages, fresh : BOOLEAN]

EntryOf(m, id) == <<Priority(m[id].iteration), id>>
EntriesOf(m) == {EntryOf(m, id) : id \in DOMAIN m}

(* The chains of head h: those to add, those it runs and those it has       *)
(* finished are its share, and the queue has an entry for each that runs.   *)
ChainsOK(h) ==
  /\ mh[h] \in [DOMAIN mh[h] -> Records]
  /\ \A id \in DOMAIN mcChainsToAdd[h] : mcChainsToAdd[h][id] = 0
  /\ DOMAIN mh[h] \union DOMAIN mcChainsToAdd[h] \union finished[h] = Share(h)
  /\ DOMAIN mh[h] \intersect DOMAIN mcChainsToAdd[h] = {}
  /\ finished[h] \intersect (DOMAIN mh[h] \union DOMAIN mcChainsToAdd[h]) = {}
  /\ workQueue[h] = EntriesOf(mh[h])

(* Where head h is in its loop; it leaves it when it has no chain.          *)
PlaceOK(h) ==
  /\ pc[h] \in {"begin", "work", "last work", "drain", "left"}
  /\ iteration[h] \in 0 .. TargetLength
  /\ running[h] \in BOOLEAN
  /\ pc[h] \in {"drain", "left"} => ~running[h]
  /\ ~running[h] => DOMAIN mh[h] = {} /\ DOMAIN mcChainsToAdd[h] = {}

(* Nothing is moved and no call is made.                                    *)
Silent ==
  /\ toMove = [h \in Heads |-> <<>>]
  /\ moving = [h \in Heads |-> NoId]
  /\ toGet = [h \in Heads |-> 0]
  /\ inProgress = [h \in Heads |-> FALSE]
  /\ sendProgress = [h \in Heads |-> FALSE]
  /\ passedOver = FALSE
  /\ manager = [required |-> FALSE, requested |-> FALSE, dataset |-> <<>>]
  /\ tasks = [h \in Heads |-> <<>>]
  /\ channel = [h \in Heads |-> [j \in Heads |-> <<>>]]

FunctionsOK ==
  /\ DOMAIN pc = Heads /\ DOMAIN mcChainsToAdd = Heads /\ DOMAIN mh = Heads
  /\ DOMAIN workQueue = Heads /\ DOMAIN finished = Heads
  /\ DOMAIN iteration = Heads /\ DOMAIN running = Heads

Undisturbed ==
  /\ aborted = FALSE /\ FunctionsOK /\ Silent
  /\ \A h \in Heads : ChainsOK(h) /\ PlaceOK(h)

HLInv == disabled \in Switch /\ (disabled => Undisturbed)

-----------------------------------------------------------------------------
(* The shares                                                              *)

LEMMA Numbers ==
  /\ NumHeads \in Nat \ {0} /\ NumChains \in Nat \ {0} /\ TargetLength \in Nat \ {0}
  /\ PerHead \in Nat /\ Larger \in Nat /\ Larger < NumHeads
  /\ NumChains = (NumHeads * PerHead) + Larger
<1>1. NumHeads \in Nat \ {0} /\ NumChains \in Nat \ {0} /\ TargetLength \in Nat \ {0}
  BY HeadLoopAssumption
<1> QED
  BY <1>1 DEF PerHead, Larger

(* Where the share of g ends, in numbers: q chains for each, and one more   *)
(* for each of the first r.                                                 *)
LEMMA ShareEnd ==
  ASSUME NEW q \in Nat, NEW r \in Nat, NEW g \in Nat
  PROVE  /\ (IF g > r THEN g - r ELSE 0) * q + (IF g <= r THEN g ELSE r) * (q + 1)
              = (g * q) + (IF g <= r THEN g ELSE r)
         /\ g * q \in Nat
<1>1. CASE g <= r
  BY <1>1
<1>2. CASE g > r
  <2>1. (g - r) * q = (g * q) - (r * q) /\ r * (q + 1) = (r * q) + r
    OBVIOUS
  <2>2. g * q \in Nat /\ r * q \in Nat
    OBVIOUS
  <2> QED
    BY <1>2, <2>1, <2>2
<1> QED
  BY <1>1, <1>2

(* Products grow by at least the factor.                                    *)
LEMMA ProductStep ==
  ASSUME NEW q \in Nat, NEW g \in Nat, NEW h \in Nat, g < h
  PROVE  g * q + q <= h * q /\ g * q \in Nat /\ h * q \in Nat
<1>1. h - g \in Nat /\ h - g >= 1
  OBVIOUS
<1> DEFINE d == h - g
<1>2. d \in Nat /\ d >= 1 /\ h = g + d
  BY <1>1
<1> HIDE DEF d
<1>3. h * q = g * q + d * q
  BY <1>2
<1>4. d * q >= q /\ d * q \in Nat /\ g * q \in Nat
  BY <1>2
<1> QED
  BY <1>3, <1>4

LEMMA ShareFacts ==
  ASSUME NEW g \in Heads
  PROVE  /\ ShareStart(g) \in Nat /\ ShareSize(g) \in Nat
         /\ ShareStart(g) = g * PerHead + (IF g <= Larger THEN g ELSE Larger)
         /\ Share(g) \subseteq Ids /\ IsFiniteSet(Share(g))
<1>1. g \in Nat /\ g < NumHeads
  BY Numbers DEF Heads
<1>2. ShareStart(g) = g * PerHead + (IF g <= Larger THEN g ELSE Larger) /\ g * PerHead \in Nat
  BY <1>1, Numbers, ShareEnd DEF ShareStart
<1>3. ShareStart(g) \in Nat /\ ShareSize(g) \in Nat
  BY <1>1, <1>2, Numbers DEF ShareSize
<1>4. ShareStart(g) + ShareSize(g) <= NumChains
  <2> DEFINE a == g * PerHead
             b == NumHeads * PerHead
  <2>1. a + PerHead <= b /\ a \in Nat /\ b \in Nat
    BY <1>1, Numbers, ProductStep
  <2>2. ShareStart(g) = a + (IF g <= Larger THEN g ELSE Larger) /\ NumChains = b + Larger
    BY <1>2, Numbers
  <2> HIDE DEF a, b
  <2> QED
    BY <1>1, <2>1, <2>2, Numbers DEF ShareSize
<1>5. Share(g) \subseteq Ids
  BY <1>3, <1>4, Numbers DEF Share, Ids
<1>6. IsFiniteSet(Share(g))
  BY <1>3, FS_Interval DEF Share
<1> QED
  BY <1>2, <1>3, <1>5, <1>6

(* No chain is in the shares of two heads.                                  *)
LEMMA SharesApart ==
  ASSUME NEW g \in Heads, NEW h \in Heads, g # h
  PROVE  Share(g) \intersect Share(h) = {}
<1>1. ASSUME NEW i \in Heads, NEW j \in Heads, i < j
      PROVE  Share(i) \intersect Share(j) = {}
  <2> DEFINE a == i * PerHead
             b == j * PerHead
  <2>1. i \in Nat /\ j \in Nat
    BY Numbers DEF Heads
  <2>2. a + PerHead <= b /\ a \in Nat /\ b \in Nat
    BY <1>1, <2>1, Numbers, ProductStep
  <2>3. /\ ShareStart(i) = a + (IF i <= Larger THEN i ELSE Larger)
        /\ ShareStart(j) = b + (IF j <= Larger THEN j ELSE Larger)
    BY ShareFacts
  <2> HIDE DEF a, b
  <2>4. ShareStart(i) + ShareSize(i) <= ShareStart(j)
    BY <1>1, <2>1, <2>2, <2>3, Numbers DEF ShareSize
  <2>5. /\ ShareStart(i) \in Nat /\ ShareSize(i) \in Nat
        /\ ShareStart(j) \in Nat /\ ShareSize(j) \in Nat
    BY ShareFacts
  <2> QED
    BY <2>4, <2>5 DEF Share
<1>2. g \in Int /\ h \in Int
  BY Numbers DEF Heads
<1> QED
  BY <1>1, <1>2

-----------------------------------------------------------------------------
(* The queue                                                               *)

(* A queue yields all its entries, each at one place.                       *)
LEMMA OrderIsWhole ==
  ASSUME NEW S, IsFiniteSet(S), NEW s \in PopOrders(S)
  PROVE  /\ Len(s) \in Nat /\ s \in Seq(S) /\ DOMAIN s = 1 .. Len(s)
         /\ ToSet(s) = S /\ (s = <<>> <=> S = {})
         /\ \A i, j \in DOMAIN s : i # j => s[i] # s[j]
<1> DEFINE n == Cardinality(S)
<1>1. n \in Nat
  BY FS_CardinalityType
<1>2. s \in [1 .. n -> S] /\ \A i, j \in 1 .. n : i # j => s[i] # s[j]
  BY DEF PopOrders, SetToSeqs
<1>3. IsFiniteSet(1 .. n) /\ Cardinality(1 .. n) = n
  BY <1>1, FS_Interval
<1>4. s \in Injection(1 .. n, S)
  BY <1>2 DEF Injection, IsInjective
<1>5. s \in Surjection(1 .. n, S)
  BY <1>3, <1>4, FS_Injection
<1> HIDE DEF n
<1>6. \A x \in S : \E i \in 1 .. n : s[i] = x
  BY <1>5 DEF Surjection
<1>7. s \in Seq(S) /\ Len(s) = n /\ DOMAIN s = 1 .. n
  BY <1>1, <1>2
<1>8. ToSet(s) = S
  BY <1>2, <1>6, <1>7 DEF ToSet
<1>9. s = <<>> <=> S = {}
  <2>1. CASE n = 0
    BY <1>6, <1>7, <2>1
  <2>2. CASE n # 0
    <3>1. 1 \in 1 .. n
      BY <1>1, <2>2
    <3> QED
      BY <1>2, <1>7, <3>1
  <2> QED
    BY <2>1, <2>2
<1> QED
  BY <1>1, <1>2, <1>7, <1>8, <1>9

(* The entries of finitely many objects are finitely many.                  *)
LEMMA EntriesFinite ==
  ASSUME NEW m, IsFiniteSet(DOMAIN m)
  PROVE  IsFiniteSet(EntriesOf(m))
<1> DEFINE f == [id \in DOMAIN m |-> EntryOf(m, id)]
<1>1. f \in Surjection(DOMAIN m, EntriesOf(m))
  BY DEF Surjection, EntriesOf
<1> HIDE DEF f
<1> QED
  BY <1>1, FS_Surjection

(* The objects of head h after it has added the chains that are to add.     *)
LEMMA ObjectsAre ==
  ASSUME NEW h \in Heads, ChainsOK(h)
  PROVE  /\ DOMAIN Objects(h) = DOMAIN mh[h] \union DOMAIN mcChainsToAdd[h]
         /\ Objects(h) \in [DOMAIN Objects(h) -> Records]
         /\ Entries(h) = EntriesOf(Objects(h))
         /\ IsFiniteSet(DOMAIN Objects(h))
<1>1. Added(h) = DOMAIN mcChainsToAdd[h]
  BY Numbers DEF ChainsOK, Added
<1>2. /\ DOMAIN Objects(h) = DOMAIN mh[h] \union DOMAIN mcChainsToAdd[h]
      /\ \A x \in DOMAIN mh[h] : Objects(h)[x] = mh[h][x]
      /\ \A x \in Added(h) : Objects(h)[x] = Object(mcChainsToAdd[h][x])
  BY <1>1 DEF ChainsOK, Objects
<1>3. ASSUME NEW x \in Added(h)
      PROVE  /\ Objects(h)[x] \in Records /\ Objects(h)[x].iteration = 0
             /\ mcChainsToAdd[h][x] = 0
  <2>1. mcChainsToAdd[h][x] = 0
    BY <1>1 DEF ChainsOK
  <2>2. Object(0) \in Records /\ Object(0).iteration = 0
    BY Numbers DEF Object, Records, Stages
  <2>3. Objects(h)[x] = Object(mcChainsToAdd[h][x])
    BY <1>2
  <2> QED
    BY <2>1, <2>2, <2>3
<1>7. Objects(h) \in [DOMAIN Objects(h) -> Records]
  <2>1. ASSUME NEW x \in DOMAIN Objects(h)
        PROVE  Objects(h)[x] \in Records
    <3>1. CASE x \in DOMAIN mh[h]
      BY <1>2, <3>1 DEF ChainsOK
    <3>2. CASE x \in Added(h)
      BY <1>3, <3>2
    <3> QED
      BY <1>1, <1>2, <3>1, <3>2
  <2> QED
    BY <2>1 DEF Objects
<1>8. Entries(h) = EntriesOf(Objects(h))
  <2>1. \A x \in DOMAIN mh[h] : EntryOf(Objects(h), x) = EntryOf(mh[h], x)
    BY <1>2 DEF EntryOf
  <2>2. \A x \in Added(h) : EntryOf(Objects(h), x) = <<Priority(mcChainsToAdd[h][x]), x>>
    BY <1>3 DEF EntryOf
  <2>3. workQueue[h] = {EntryOf(mh[h], x) : x \in DOMAIN mh[h]}
    BY DEF ChainsOK, EntriesOf
  <2> QED
    BY <1>1, <1>2, <2>1, <2>2, <2>3 DEF Entries, EntriesOf
<1>9. IsFiniteSet(DOMAIN Objects(h))
  <2>1. DOMAIN Objects(h) \subseteq Share(h)
    BY <1>2 DEF ChainsOK
  <2> QED
    BY <2>1, ShareFacts, FS_Subset
<1> QED
  BY <1>2, <1>7, <1>8, <1>9

(* While every entry is of an object of the head, none is dropped.          *)
LEMMA PresentIs ==
  ASSUME NEW h \in Heads, ChainsOK(h), NEW queue \in Present(h)
  PROVE  queue \in PopOrders(Entries(h))
<1>1. /\ Entries(h) = EntriesOf(Objects(h)) /\ IsFiniteSet(Entries(h))
  BY ObjectsAre, EntriesFinite
<1> DEFINE First(order) ==
             SelectInSeq(order, LAMBDA e : e[2] \in DOMAIN Objects(h))
<1>2. PICK order \in PopOrders(Entries(h)) :
        queue = IF First(order) = 0 THEN <<>>
                ELSE SubSeq(order, First(order), Len(order))
  BY DEF Present
<1>3. /\ Len(order) \in Nat /\ order \in Seq(Entries(h))
      /\ \A i \in 1 .. Len(order) : order[i] \in Entries(h)
      /\ order = <<>> <=> Entries(h) = {}
  BY <1>1, OrderIsWhole
<1>4. \A i \in 1 .. Len(order) : order[i][2] \in DOMAIN Objects(h)
  BY <1>1, <1>3 DEF EntriesOf, EntryOf
<1> DEFINE I == {i \in 1 .. Len(order) : order[i][2] \in DOMAIN Objects(h)}
<1>5. First(order) = IF I # {} THEN Min(I) ELSE 0
  BY DEF SelectInSeq
<1>6. I = 1 .. Len(order)
  BY <1>4
<1> HIDE DEF First, I
<1>7. CASE Len(order) = 0
  <2>1. First(order) = 0
    BY <1>5, <1>6, <1>7
  <2>2. order = <<>>
    BY <1>3, <1>7
  <2> QED
    BY <1>2, <2>1, <2>2
<1>8. CASE Len(order) # 0
  <2>1. 1 \in I /\ I # {} /\ \A y \in I : 1 <= y
    BY <1>3, <1>6, <1>8
  <2>2. Min(I) \in I /\ \A y \in I : Min(I) <= y
    BY <2>1 DEF Min
  <2>3. Min(I) = 1
    BY <1>3, <1>6, <2>1, <2>2
  <2>4. queue = SubSeq(order, 1, Len(order))
    BY <1>2, <1>5, <2>1, <2>3
  <2>5. queue = order
    BY <1>3, <2>4, SubSeqFull
  <2> QED
    BY <2>5
<1> QED
  BY <1>7, <1>8

(* One entry of a queue is chosen.                                          *)
LEMMA ChosenIs ==
  ASSUME NEW h \in Heads, NEW S, NEW queue \in Seq(S), queue # <<>>,
         \A k \in DOMAIN queue : queue[k][2] \in DOMAIN Objects(h)
  PROVE  Chosen(h, queue) \in DOMAIN queue
<1>1. Len(queue) \in Nat \ {0} /\ DOMAIN queue = 1 .. Len(queue)
  BY EmptySeq
<1> DEFINE Free == {k \in 1 .. Len(queue) :
                     Objects(h)[queue[k][2]].stage # "waiting"}
           Good(k) ==
             /\ \A i \in 1 .. k - 1 :
                  /\ queue[i][2] \in DOMAIN Objects(h)
                  /\ Objects(h)[queue[i][2]].stage = "waiting"
             /\ \/ k = Len(queue)
                \/ queue[k][2] \notin DOMAIN Objects(h)
                \/ Objects(h)[queue[k][2]].stage # "waiting"
<1>2. \E k \in DOMAIN queue : Good(k)
  <2>1. CASE Free = {}
    <3>1. \A i \in 1 .. Len(queue) : Objects(h)[queue[i][2]].stage = "waiting"
      BY <2>1
    <3>2. \A i \in 1 .. Len(queue) - 1 : i \in 1 .. Len(queue)
      BY <1>1
    <3>3. Len(queue) \in DOMAIN queue
      BY <1>1
    <3>4. Good(Len(queue))
      BY <1>1, <3>1, <3>2
    <3> QED
      BY <3>3, <3>4
  <2>2. CASE Free # {}
    <3>1. Free \subseteq Nat
      OBVIOUS
    <3>2. PICK m \in Free : \A k \in Free : m <= k
      <4> HIDE DEF Free
      <4> QED
        BY <2>2, <3>1, LeastOf
    <3>3. m \in 1 .. Len(queue) /\ Objects(h)[queue[m][2]].stage # "waiting"
      BY <3>2
    <3>4. ASSUME NEW i \in 1 .. m - 1
          PROVE  i \in 1 .. Len(queue) /\ Objects(h)[queue[i][2]].stage = "waiting"
      <4>1. i \in 1 .. Len(queue) /\ ~(m <= i)
        BY <1>1, <3>3
      <4>2. i \notin Free
        BY <3>2, <4>1
      <4> QED
        BY <4>1, <4>2
    <3> QED
      BY <1>1, <3>3, <3>4
  <2> QED
    BY <2>1, <2>2
<1> HIDE DEF Good
<1>3. Chosen(h, queue) = CHOOSE k \in DOMAIN queue : Good(k)
  BY DEF Chosen, Good
<1> QED
  BY <1>2, <1>3

-----------------------------------------------------------------------------
(* The objects                                                             *)

(* A call takes an object one stage on; at the end of an iteration it has   *)
(* one iteration more.                                                      *)
LEMMA CalledIs ==
  ASSUME NEW m \in Records, NEW last \in BOOLEAN
  PROVE  /\ Called(m, last).iteration \in 0 .. TargetLength
         /\ Called(m, last).iteration # TargetLength => Called(m, last) \in Records
<1>1. /\ m.iteration \in 0 .. TargetLength - 1 /\ m.stage \in Stages
      /\ m.fresh \in BOOLEAN
  BY DEF Records
<1>2. CASE m.stage = "idle"
  <2> DEFINE st == IF m.fresh THEN "started" ELSE "waiting"
             n == [m EXCEPT !.stage = st]
  <2>1. st \in Stages
    BY DEF Stages
  <2> HIDE DEF st
  <2>2. n \in Records /\ n.iteration = m.iteration
    BY <2>1 DEF Records
  <2>3. Called(m, last) = n
    BY <1>2 DEF Called, st
  <2> HIDE DEF n
  <2> QED
    BY <1>1, <2>2, <2>3, Numbers
<1>3. CASE m.stage = "waiting"
  BY <1>1, <1>3, Numbers DEF Called
<1>4. CASE m.stage \notin {"idle", "waiting"}
  <2> DEFINE it == m.iteration + 1
             st == IF last THEN "ended" ELSE "idle"
             n == [iteration |-> it, stage |-> st, fresh |-> FALSE]
  <2>1. Called(m, last) = n
    BY <1>4 DEF Called, Finish
  <2>2. it \in 0 .. TargetLength /\ (it # TargetLength => it \in 0 .. TargetLength - 1)
    BY <1>1, Numbers
  <2>3. st \in Stages
    BY DEF Stages
  <2> HIDE DEF it, st
  <2>4. n.iteration = it /\ (it # TargetLength => n \in Records)
    BY <2>2, <2>3 DEF Records
  <2> HIDE DEF n
  <2> QED
    BY <2>1, <2>2, <2>4
<1> QED
  BY <1>2, <1>3, <1>4

(* Answers that arrive change stages and nothing else.                      *)
LEMMA AnswersKeep ==
  ASSUME NEW D, NEW m \in [D -> Records], NEW o \in AfterAnswers(m)
  PROVE  /\ o \in [D -> Records]
         /\ EntriesOf(o) = EntriesOf(m)
<1> DEFINE waiting == {id \in DOMAIN m : m[id].stage = "waiting"}
<1>1. PICK late \in SUBSET (waiting \cap SlowChains) :
        o = [id \in DOMAIN m |->
               IF id \in waiting \ late THEN [m[id] EXCEPT !.stage = "answered"]
               ELSE m[id]]
  BY DEF AfterAnswers
<1> HIDE DEF waiting
<1>2. DOMAIN o = D /\ DOMAIN m = D
  BY <1>1
<1>3. ASSUME NEW id \in D
      PROVE  o[id] \in Records /\ o[id].iteration = m[id].iteration
  <2>1. m[id] \in Records
    OBVIOUS
  <2> DEFINE r == m[id]
             n == [r EXCEPT !.stage = "answered"]
  <2>2. n \in Records /\ n.iteration = r.iteration
    <3>1. r \in Records
      BY <2>1
    <3> HIDE DEF r
    <3> QED
      BY <3>1 DEF Records, Stages
  <2>3. o[id] = n \/ o[id] = r
    BY <1>1, <1>2
  <2> HIDE DEF n
  <2> QED
    BY <2>1, <2>2, <2>3
<1>4. o \in [D -> Records]
  BY <1>1, <1>2, <1>3
<1>5. \A id \in D : EntryOf(o, id) = EntryOf(m, id)
  BY <1>3 DEF EntryOf
<1> QED
  BY <1>2, <1>4, <1>5 DEF EntriesOf

(* Nothing arrives where nobody calls.                                      *)
LEMMA NothingArrives ==
  ASSUME Silent, NEW h \in Heads
  PROVE  /\ \A s \in Arrived(h) : s = <<>>
         /\ ~IsWorkOutstanding(h)
<1>1. tasks[h] = <<>> /\ \A i, j \in Heads : channel[i][j] = <<>> /\ tasks[j] = <<>>
  BY DEF Silent
<1>2. ASSUME NEW s \in Arrived(h)
      PROVE  s = <<>>
  <2>1. PICK order \in SetToSeqs(Heads \ {h}) :
          s = tasks[h] \o FlattenSeq([k \in DOMAIN order |-> channel[order[k]][h]])
    BY DEF Arrived
  <2> DEFINE n == Cardinality(Heads \ {h})
             got == [k \in DOMAIN order |-> channel[order[k]][h]]
  <2>2. n \in Nat
    <3>1. IsFiniteSet(Heads)
      BY Numbers, FS_Interval DEF Heads
    <3>2. IsFiniteSet(Heads \ {h})
      BY <3>1, FS_Subset
    <3> QED
      BY <3>2, FS_CardinalityType
  <2>3. order \in [1 .. n -> Heads \ {h}]
    BY <2>1 DEF SetToSeqs
  <2> HIDE DEF n
  <2>4. got \in [1 .. n -> {<<>>}]
    BY <1>1, <2>3
  <2> HIDE DEF got
  <2>5. FlattenSeq(got) = <<>>
    BY <2>2, <2>4, FlattenEmpty
  <2>6. s = <<>> \o <<>>
    BY <1>1, <2>1, <2>5 DEF got
  <2> QED
    BY <2>6
<1>3. \A j \in Heads : ~ \E t \in ToSet(tasks[j]) : t[1] = h
  BY <1>1 DEF ToSet
<1> QED
  BY <1>1, <1>2, <1>3 DEF IsWorkOutstanding

(* called has r for x and is like o elsewhere.                              *)
DiffersAt(called, D, o, x, r) ==
  x \in D /\ o \in [D -> Records] /\ called = [o EXCEPT ![x] = r]

EntriesAgree(called, D, o, x, r) ==
  /\ EntriesOf(Restrict(called, DOMAIN called \ {x})) = EntriesOf(o) \ {EntryOf(o, x)}
  /\ Restrict(called, DOMAIN called \ {x}) \in [D \ {x} -> Records]
  /\ EntriesOf(called) = (EntriesOf(o) \ {EntryOf(o, x)})
                           \union {<<Priority(r.iteration), x>>}
  /\ r \in Records => called \in [D -> Records]

(* The entries of all objects but one, and with one more object.            *)
LEMMA EntriesWithout ==
  ASSUME NEW called, NEW D, NEW o, NEW x, NEW r, DiffersAt(called, D, o, x, r)
  PROVE  EntriesAgree(called, D, o, x, r)
<1> USE DEF DiffersAt
<1> DEFINE rest == Restrict(called, DOMAIN called \ {x})
<1>1. /\ DOMAIN called = D /\ DOMAIN rest = D \ {x} /\ called[x] = r
      /\ \A y \in D \ {x} : called[y] = o[y] /\ rest[y] = o[y]
  BY DEF Restrict
<1>2. rest \in [D \ {x} -> Records]
  <2>1. \A y \in D \ {x} : o[y] \in Records
    OBVIOUS
  <2> QED
    BY <2>1 DEF Restrict
<1> HIDE DEF rest
<1>3. \A y \in D \ {x} : EntryOf(called, y) = EntryOf(o, y) /\ EntryOf(rest, y) = EntryOf(o, y)
  BY <1>1 DEF EntryOf
<1>4. EntryOf(called, x) = <<Priority(r.iteration), x>>
  BY <1>1 DEF EntryOf
<1>5. \A y \in D : EntryOf(o, y)[2] = y
  BY DEF EntryOf
<1>6. EntriesOf(o) \ {EntryOf(o, x)} = {EntryOf(o, y) : y \in D \ {x}}
  <2>1. \A y \in D \ {x} : EntryOf(o, y) # EntryOf(o, x)
    BY <1>5
  <2> QED
    BY <2>1 DEF EntriesOf
<1>7. EntriesOf(rest) = {EntryOf(o, y) : y \in D \ {x}}
  BY <1>1, <1>3 DEF EntriesOf
<1>8. EntriesOf(called) = {EntryOf(o, y) : y \in D \ {x}} \union {EntryOf(called, x)}
  BY <1>1, <1>3 DEF EntriesOf
<1>9. r \in Records => called \in [D -> Records]
  OBVIOUS
<1> QED
  BY <1>2, <1>4, <1>6, <1>7, <1>8, <1>9 DEF rest, EntriesAgree

-----------------------------------------------------------------------------
(* The steps without rescheduling                                          *)

(* What a step of head h leaves alone.                                      *)
OthersKeep(h) ==
  /\ FunctionsOK'
  /\ UNCHANGED <<disabled, aborted, moves, manager, comm>>
  /\ \A j \in Heads \ {h} :
       /\ pc'[j] = pc[j] /\ mcChainsToAdd'[j] = mcChainsToAdd[j] /\ mh'[j] = mh[j]
       /\ workQueue'[j] = workQueue[j] /\ finished'[j] = finished[j]
       /\ iteration'[j] = iteration[j] /\ running'[j] = running[j]

(* The invariant is kept when it is kept for the head that takes the step.  *)
LEMMA OneHead ==
  ASSUME Undisturbed, NEW h \in Heads, OthersKeep(h), ChainsOK(h)', PlaceOK(h)'
  PROVE  Undisturbed'
<1>1. aborted' = FALSE /\ FunctionsOK' /\ Silent'
  BY DEF Undisturbed, OthersKeep, Silent, moves, comm
<1>2. ASSUME NEW j \in Heads, j # h
      PROVE  ChainsOK(j)' /\ PlaceOK(j)'
  <2>1. ChainsOK(j) /\ PlaceOK(j) /\ j \in Heads \ {h}
    BY <1>2 DEF Undisturbed
  <2>2. ChainsOK(j)'
    BY <2>1 DEF OthersKeep, ChainsOK, EntriesOf, EntryOf
  <2>3. PlaceOK(j)'
    BY <2>1 DEF OthersKeep, PlaceOK
  <2> QED
    BY <2>2, <2>3
<1> QED
  BY <1>1, <1>2 DEF Undisturbed

LEMMA NothingToRunKeeps ==
  ASSUME disabled, Undisturbed, NEW h \in Heads, NothingToRun(h)
  PROVE  Undisturbed'
<1>1. ChainsOK(h) /\ PlaceOK(h) /\ FunctionsOK
  BY DEF Undisturbed
<1>2. Entries(h) = EntriesOf(Objects(h)) /\ IsFiniteSet(Entries(h))
  BY <1>1, ObjectsAre, EntriesFinite
<1>3. Entries(h) = {}
  <2>1. <<>> \in PopOrders(Entries(h))
    BY <1>1, PresentIs DEF NothingToRun
  <2> QED
    BY <1>2, <2>1, OrderIsWhole
<1>4. DOMAIN Objects(h) = {} /\ DOMAIN mh[h] = {} /\ DOMAIN mcChainsToAdd[h] = {}
  <2>1. DOMAIN Objects(h) = {}
    BY <1>2, <1>3 DEF EntriesOf
  <2> QED
    BY <1>1, <2>1, ObjectsAre
<1>5. /\ mh'[h] = Objects(h) /\ mcChainsToAdd'[h] = <<>> /\ workQueue'[h] = {}
      /\ finished'[h] = finished[h] /\ iteration'[h] = 0 /\ pc'[h] = "work"
      /\ running'[h] \in BOOLEAN
  BY <1>1 DEF NothingToRun, Goto, FunctionsOK
<1>6. OthersKeep(h)
  BY <1>1 DEF NothingToRun, Goto, FunctionsOK, OthersKeep
<1>7. ChainsOK(h)'
  <2>1. DOMAIN mcChainsToAdd'[h] = {}
    BY <1>5
  <2>2. EntriesOf(Objects(h)) = {}
    BY <1>2, <1>3
  <2>3. mh'[h] \in [DOMAIN mh'[h] -> Records] /\ DOMAIN mh'[h] = {}
    BY <1>1, <1>4, <1>5, ObjectsAre
  <2>4. finished'[h] = Share(h)
    BY <1>1, <1>4, <1>5 DEF ChainsOK
  <2>5. EntriesOf(mh[h])' = {}
    BY <2>3 DEF EntriesOf
  <2> QED
    BY <1>5, <2>1, <2>3, <2>4, <2>5 DEF ChainsOK
<1>8. PlaceOK(h)'
  <2>1. DOMAIN mh'[h] = {} /\ DOMAIN mcChainsToAdd'[h] = {}
    BY <1>4, <1>5
  <2> QED
    BY <1>5, <2>1, Numbers DEF PlaceOK
<1> QED
  BY <1>6, <1>7, <1>8, OneHead

(* The entries of a queue are those of the objects, and one is chosen.      *)
LEMMA ChosenEntry ==
  ASSUME NEW h \in Heads, ChainsOK(h), NEW queue \in Present(h) \ {<<>>}
  PROVE  /\ queue[Chosen(h, queue)][2] \in DOMAIN Objects(h)
         /\ queue[Chosen(h, queue)] = EntryOf(Objects(h), queue[Chosen(h, queue)][2])
         /\ ToSet(queue) = EntriesOf(Objects(h))
<1>1. Entries(h) = EntriesOf(Objects(h)) /\ IsFiniteSet(Entries(h))
  BY ObjectsAre, EntriesFinite
<1>2. queue \in PopOrders(Entries(h))
  BY PresentIs
<1>3. queue \in Seq(Entries(h)) /\ queue # <<>> /\ ToSet(queue) = Entries(h)
  BY <1>1, <1>2, OrderIsWhole
<1>4. \A k \in DOMAIN queue : queue[k] \in EntriesOf(Objects(h))
  BY <1>1, <1>3
<1>5. \A e \in EntriesOf(Objects(h)) :
        e[2] \in DOMAIN Objects(h) /\ e = EntryOf(Objects(h), e[2])
  BY DEF EntriesOf, EntryOf
<1>6. Chosen(h, queue) \in DOMAIN queue
  BY <1>3, <1>4, <1>5, ChosenIs
<1> QED
  BY <1>1, <1>3, <1>4, <1>5, <1>6

LEMMA RunChainKeeps ==
  ASSUME disabled, Undisturbed, NEW h \in Heads, RunChain(h)
  PROVE  Undisturbed'
<1>1. ChainsOK(h) /\ PlaceOK(h) /\ FunctionsOK
  BY DEF Undisturbed
<1> DEFINE O == Objects(h)
           D == DOMAIN O
<1>2. /\ O \in [D -> Records] /\ IsFiniteSet(D)
      /\ D = DOMAIN mh[h] \union DOMAIN mcChainsToAdd[h]
  BY <1>1, ObjectsAre
<1>3. PICK queue \in Present(h) \ {<<>>} :
        LET chosen == queue[Chosen(h, queue)]
            id == chosen[2]
            m == Called(O[id], chosen[1] = 1)
            called == [O EXCEPT ![id] = m]
            left == IF IsDone(m) THEN Restrict(called, DOMAIN called \ {id}) ELSE called
        IN  /\ \E objects \in AfterAnswers(left) : mh' = [mh EXCEPT ![h] = objects]
            /\ iteration' = [iteration EXCEPT ![h] = m.iteration]
            /\ workQueue' = [workQueue EXCEPT
                 ![h] = PutBack(h, queue) \union
                          (IF IsDone(m) THEN {} ELSE {<<Priority(m.iteration), id>>})]
            /\ finished' = [finished EXCEPT
                 ![h] = @ \union (IF IsDone(m) THEN {id} ELSE {})]
  BY Zenon DEF RunChain
<1> DEFINE chosen == queue[Chosen(h, queue)]
           id == chosen[2]
           last == chosen[1] = 1
           m == Called(O[id], last)
           called == [O EXCEPT ![id] = m]
           left == IF IsDone(m) THEN Restrict(called, DOMAIN called \ {id}) ELSE called
           rest == EntriesOf(O) \ {EntryOf(O, id)}
<1>4. id \in D /\ chosen = EntryOf(O, id) /\ PutBack(h, queue) = rest
  BY <1>1, ChosenEntry DEF PutBack
<1>5. PICK objects \in AfterAnswers(left) : mh' = [mh EXCEPT ![h] = objects]
  BY <1>3, Zenon
<1>6. /\ iteration' = [iteration EXCEPT ![h] = m.iteration]
      /\ workQueue' = [workQueue EXCEPT
           ![h] = rest \union (IF IsDone(m) THEN {} ELSE {<<Priority(m.iteration), id>>})]
      /\ finished' = [finished EXCEPT ![h] = @ \union (IF IsDone(m) THEN {id} ELSE {})]
  BY <1>3, <1>4
<1>7. /\ pc[h] = "begin" /\ pc' = [pc EXCEPT ![h] = "work"]
      /\ mcChainsToAdd' = [mcChainsToAdd EXCEPT ![h] = <<>>]
      /\ running' = running
      /\ UNCHANGED <<disabled, aborted, moves, manager, comm>>
  BY DEF RunChain, Goto
<1>8. /\ m.iteration \in 0 .. TargetLength
      /\ IsDone(m) <=> m.iteration = TargetLength
      /\ ~IsDone(m) => m \in Records
  <2>1. O[id] \in Records /\ last \in BOOLEAN
    BY <1>2, <1>4
  <2> HIDE DEF O, D, chosen, last
  <2>2. m.iteration \in 0 .. TargetLength /\ (m.iteration # TargetLength => m \in Records)
    BY <2>1, CalledIs
  <2> HIDE DEF m
  <2> QED
    BY <2>2, Numbers DEF IsDone, Priority
<1> HIDE DEF O, D, chosen, last, m
<1>9. /\ EntriesOf(left) = rest \union (IF IsDone(m) THEN {} ELSE {<<Priority(m.iteration), id>>})
      /\ left \in [(IF IsDone(m) THEN D \ {id} ELSE D) -> Records]
  <2>1. DiffersAt(called, D, O, id, m)
    BY <1>2, <1>4 DEF DiffersAt
  <2>2. /\ EntriesOf(Restrict(called, DOMAIN called \ {id})) = rest
        /\ Restrict(called, DOMAIN called \ {id}) \in [D \ {id} -> Records]
        /\ EntriesOf(called) = rest \union {<<Priority(m.iteration), id>>}
        /\ m \in Records => called \in [D -> Records]
    <3> HIDE DEF called, id
    <3>1. EntriesAgree(called, D, O, id, m)
      BY <2>1, EntriesWithout
    <3> QED
      BY <3>1 DEF EntriesAgree
  <2> HIDE DEF rest
  <2> QED
    BY <1>8, <2>2
<1> DEFINE E == IF IsDone(m) THEN D \ {id} ELSE D
<1>10. objects \in [E -> Records] /\ EntriesOf(objects) = EntriesOf(left)
  <2> HIDE DEF left, E
  <2> QED
    BY <1>5, <1>9, AnswersKeep DEF E
<1>11. /\ mh'[h] = objects /\ mcChainsToAdd'[h] = <<>> /\ pc'[h] = "work"
       /\ iteration'[h] = m.iteration /\ running'[h] = running[h]
       /\ workQueue'[h] = EntriesOf(objects)
       /\ finished'[h] = finished[h] \union (IF IsDone(m) THEN {id} ELSE {})
  <2> HIDE DEF left, rest
  <2> QED
    BY <1>1, <1>5, <1>6, <1>7, <1>9, <1>10 DEF FunctionsOK
<1>12. OthersKeep(h)
  <2> HIDE DEF left, rest
  <2> QED
    BY <1>1, <1>5, <1>6, <1>7 DEF FunctionsOK, OthersKeep
<1> HIDE DEF left, rest, called
<1>13. ChainsOK(h)'
  <2>1. DOMAIN mcChainsToAdd'[h] = {} /\ DOMAIN mh'[h] = E
    BY <1>10, <1>11
  <2>2. EntriesOf(mh[h])' = EntriesOf(objects)
    BY <1>11 DEF EntriesOf, EntryOf
  <2>3. mh'[h] \in [E -> Records] /\ workQueue'[h] = EntriesOf(mh[h])'
    BY <1>10, <1>11, <2>2
  <2>4. E \union finished'[h] = Share(h) /\ finished'[h] \intersect E = {}
    <3>1. /\ D \union finished[h] = Share(h) /\ finished[h] \intersect D = {}
      BY <1>1, <1>2 DEF ChainsOK
    <3> QED
      BY <1>4, <1>11, <3>1
  <2> HIDE DEF E
  <2> QED
    BY <2>1, <2>3, <2>4 DEF ChainsOK
<1>14. PlaceOK(h)'
  <2>1. running[h] \in BOOLEAN /\ running[h]
    BY <1>1, <1>2, <1>4 DEF PlaceOK
  <2> QED
    BY <1>8, <1>11, <2>1 DEF PlaceOK
<1> QED
  BY <1>12, <1>13, <1>14, OneHead

LEMMA NoTaskKeeps ==
  ASSUME disabled, Undisturbed, NEW h \in Heads, NoTask(h)
  PROVE  Undisturbed'
<1>1. ChainsOK(h) /\ PlaceOK(h) /\ FunctionsOK /\ Silent
  BY DEF Undisturbed
<1>2. UNCHANGED <<disabled, aborted, chains, running, moves, manager, comm>>
  BY DEF NoTask
<1>3. Silent' /\ disabled'
  BY <1>1, <1>2 DEF Silent, moves, comm
<1>4. AfterMoves(h)' = "last work" /\ DOMAIN toMove'[h] = {}
  BY <1>3 DEF Silent, AfterMoves, AfterProgress, RequestDue, InformationComplete
<1>5. /\ pc[h] \in {"work", "last work", "drain"}
      /\ pc[h] # "drain"
  <2>1. ~IsWorkOutstanding(h)
    BY <1>1, NothingArrives
  <2> QED
    BY <1>1, <2>1 DEF NoTask, InDoWork, PlaceOK
<1>6. /\ iteration' = [iteration EXCEPT ![h] = IF pc[h] = "last work" THEN 0 ELSE @]
      /\ \E next \in {"begin", "last work", "drain"} :
           /\ pc' = [pc EXCEPT ![h] = next]
           /\ next = "drain" => ~running[h]
  <2>1. AfterWork(h)
    BY DEF NoTask
  <2>2. CASE pc[h] = "work"
    BY <1>4, <2>1, <2>2 DEF AfterWork, Goto
  <2>3. CASE pc[h] = "last work"
    BY <2>1, <2>3 DEF AfterWork, Goto
  <2> QED
    BY <1>5, <2>2, <2>3
<1>7. OthersKeep(h)
  BY <1>1, <1>2, <1>6 DEF FunctionsOK, OthersKeep, chains
<1>8. ChainsOK(h)'
  BY <1>1, <1>2 DEF ChainsOK, chains, EntriesOf, EntryOf
<1>9. PlaceOK(h)'
  <2>1. iteration'[h] \in 0 .. TargetLength
    <3>1. iteration[h] \in 0 .. TargetLength
      BY <1>1 DEF PlaceOK
    <3>2. 0 \in 0 .. TargetLength
      BY Numbers
    <3>3. iteration'[h] = 0 \/ iteration'[h] = iteration[h]
      BY <1>1, <1>6 DEF FunctionsOK
    <3> QED
      BY <3>1, <3>2, <3>3
  <2>2. pc'[h] \in {"begin", "last work", "drain"} /\ (pc'[h] = "drain" => ~running[h])
    BY <1>1, <1>6 DEF FunctionsOK
  <2> QED
    BY <1>1, <1>2, <2>1, <2>2 DEF PlaceOK, chains
<1> QED
  BY <1>7, <1>8, <1>9, OneHead

LEMMA LeaveKeeps ==
  ASSUME disabled, Undisturbed, NEW h \in Heads, Leave(h)
  PROVE  Undisturbed'
<1>1. ChainsOK(h) /\ PlaceOK(h) /\ FunctionsOK
  BY DEF Undisturbed
<1>2. OthersKeep(h) /\ pc'[h] = "left" /\ pc[h] = "drain"
  BY <1>1 DEF Leave, Goto, FunctionsOK, OthersKeep, chains
<1>3. ChainsOK(h)'
  BY <1>1 DEF ChainsOK, Leave, chains, EntriesOf, EntryOf
<1>4. PlaceOK(h)'
  BY <1>1, <1>2 DEF PlaceOK, Leave, chains
<1> QED
  BY <1>2, <1>3, <1>4, OneHead

(* The other steps are of heads that reschedule, and no assertion fails.    *)
LEMMA NothingElse ==
  ASSUME disabled, Undisturbed, NEW h \in Heads, LoopStep(h)
  PROVE  NothingToRun(h) \/ RunChain(h) \/ NoTask(h) \/ Leave(h)
<1>1. ChainsOK(h) /\ PlaceOK(h) /\ Silent
  BY DEF Undisturbed
<1>2. /\ pc[h] \in {"begin", "work", "last work", "drain", "left"}
      /\ \A s \in Arrived(h) : s = <<>>
  BY <1>1, NothingArrives DEF PlaceOK
<1>3. ~Execute(h) /\ ~CallFails(h)
  BY <1>2 DEF Execute, CallFails
<1>4. /\ ~NextMove(h) /\ ~SendDummy(h) /\ ~SendChain(h) /\ ~AdvanceChain(h)
      /\ ~SendProgress(h) /\ ~MoveFails(h)
  BY <1>2 DEF NextMove, SendDummy, SendChain, AdvanceChain, MustAdvance, SendProgress,
    MoveFails
<1>5. h = 0 => ~RequestRescheduling /\ ~Reschedule
  BY <1>2 DEF RequestRescheduling, Reschedule
<1>6. ~MeetsMovedChain(h)
  BY <1>1, ChosenEntry DEF MeetsMovedChain
<1> QED
  BY <1>3, <1>4, <1>5, <1>6 DEF LoopStep, AssertFails

-----------------------------------------------------------------------------
(* The theorems                                                            *)

LEMMA HLInvInit ==
  ASSUME Init
  PROVE  HLInv
<1>1. FunctionsOK /\ Silent /\ aborted = FALSE /\ disabled \in Switch
  BY DEF Init, FunctionsOK, Silent
<1>2. ASSUME NEW h \in Heads
      PROVE  ChainsOK(h) /\ PlaceOK(h)
  <2>1. /\ mcChainsToAdd[h] = [id \in Share(h) |-> 0] /\ mh[h] = <<>>
        /\ workQueue[h] = {} /\ finished[h] = {} /\ pc[h] = "begin"
        /\ iteration[h] = 0 /\ running[h] = TRUE
    BY DEF Init
  <2>2. DOMAIN mh[h] = {} /\ EntriesOf(mh[h]) = {} /\ mh[h] \in [{} -> Records]
    BY <2>1 DEF EntriesOf
  <2>3. ChainsOK(h)
    BY <2>1, <2>2 DEF ChainsOK
  <2>4. 0 \in 0 .. TargetLength
    BY Numbers
  <2>5. PlaceOK(h)
    BY <2>1, <2>4 DEF PlaceOK
  <2> QED
    BY <2>3, <2>5
<1> QED
  BY <1>1, <1>2 DEF HLInv, Undisturbed

LEMMA HLInvKept ==
  ASSUME HLInv, [Next]_vars
  PROVE  HLInv'
<1>1. disabled' = disabled
  <2>1. ASSUME NEW h \in Heads, LoopStep(h)
        PROVE  disabled' = disabled
    <3>1. NothingToRun(h) \/ RunChain(h) \/ NoTask(h) \/ Execute(h) => disabled' = disabled
      BY DEF NothingToRun, RunChain, NoTask, Execute
    <3>2. NextMove(h) \/ SendDummy(h) \/ SendChain(h) \/ AdvanceChain(h) => disabled' = disabled
      BY DEF NextMove, SendDummy, SendChain, AdvanceChain
    <3>3. SendProgress(h) \/ RequestRescheduling \/ Reschedule => disabled' = disabled
      BY DEF SendProgress, RequestRescheduling, Reschedule
    <3>4. Leave(h) \/ AssertFails(h) => disabled' = disabled
      BY DEF Leave, AssertFails
    <3> QED
      BY <2>1, <3>1, <3>2, <3>3, <3>4 DEF LoopStep
  <2>2. Ended \/ UNCHANGED vars => disabled' = disabled
    BY DEF Ended, vars
  <2> QED
    BY <2>1, <2>2 DEF Next, HeadStep
<1>2. CASE UNCHANGED vars
  <2>1. FunctionsOK' = FunctionsOK /\ Silent' = Silent /\ aborted' = aborted
    BY <1>2 DEF FunctionsOK, Silent, vars, chains, moves, comm
  <2>2. ASSUME NEW h \in Heads, ChainsOK(h), PlaceOK(h)
        PROVE  ChainsOK(h)' /\ PlaceOK(h)'
    <3>1. PlaceOK(h)'
      BY <1>2, <2>2 DEF PlaceOK, vars, chains
    <3>2. ChainsOK(h)'
      BY <1>2, <2>2 DEF ChainsOK, EntriesOf, EntryOf, vars, chains
    <3> QED
      BY <3>1, <3>2
  <2>3. Undisturbed => Undisturbed'
    BY <2>1, <2>2 DEF Undisturbed
  <2> QED
    BY <1>1, <2>3 DEF HLInv
<1>3. CASE Next /\ ~UNCHANGED vars
  <2> SUFFICES ASSUME disabled
               PROVE  Undisturbed'
    BY <1>1 DEF HLInv
  <2>1. Undisturbed
    BY DEF HLInv
  <2>2. PICK h \in Heads : LoopStep(h)
    BY <1>3 DEF Next, HeadStep, Ended
  <2> QED
    BY <2>1, <2>2, NothingElse, NothingToRunKeeps, RunChainKeeps, NoTaskKeeps, LeaveKeeps
<1> QED
  BY <1>2, <1>3

LEMMA HLInvAlways == Spec => []HLInv
<1>1. Init => HLInv
  BY HLInvInit
<1>2. HLInv /\ [Next]_vars => HLInv'
  BY HLInvKept
<1> QED
  BY <1>1, <1>2, PTL DEF Spec

(* Without rescheduling a head leaves its loop only when every chain of its *)
(* share has been finished, however late results come (main.cpp, the queue  *)
(* of the loop and markov_chains_finished).                                 *)
THEOREM EveryChainFinished == Spec => []LeavesFinished
<1>1. HLInv => LeavesFinished
  <2> SUFFICES ASSUME HLInv, disabled, NEW h \in Heads, pc[h] \in {"drain", "left"}
               PROVE  finished[h] = Share(h)
    BY DEF LeavesFinished
  <2> QED
    BY DEF HLInv, Undisturbed, PlaceOK, ChainsOK
<1> QED
  BY <1>1, HLInvAlways, PTL

(* The loop of a head as it is at this commit, with disable_rescheduling    *)
(* set: no assertion fails (main.cpp, those of the loop).                   *)
NothingFails == disabled => ~aborted

THEOREM NothingFailsWithoutRescheduling == Spec => []NothingFails
<1>1. HLInv => NothingFails
  BY DEF HLInv, Undisturbed, NothingFails
<1> QED
  BY <1>1, HLInvAlways, PTL

-----------------------------------------------------------------------------
(* The invariant with rescheduling                                         *)

(* What head h has still to execute, by the head whose channel it is in;    *)
(* what has been taken is at h itself.                                      *)
Inbox(h) == [j \in Heads |-> IF j = h THEN tasks[h] ELSE channel[j][h]]

CallsIn(inbox) ==
  UNION {{inbox[j][k][2] : k \in DOMAIN inbox[j]} : j \in Heads}
EachOnce(inbox) ==
  \A i, j \in Heads : \A k \in DOMAIN inbox[i], l \in DOMAIN inbox[j] :
    inbox[i][k][2] = inbox[j][l][2] => i = j /\ k = l

Content(h) == CallsIn(Inbox(h))

IsMove(c) == c.fn = "move_markov_chain"
Chains(h) == {c \in Content(h) : c.fn = "recieve_markov_chain"}
Announcements(h) == {c \in Content(h) : IsMove(c) /\ c.to = h}
OrdersAt(h) == {c \in Content(h) : IsMove(c) /\ c.to # h}

(* The chains that head j is still to send, as far as it knows.             *)
Left(j, id) == id > moving[j] \/ (id = moving[j] /\ pc[j] # "next move")
LeftAt(j) == {id \in DOMAIN toMove[j] : Left(j, id)}

(* The chains on their way to another head, with that head and with how far *)
(* they are: sent, ordered from the head that has them, or left to send.    *)
TripsAt(h) ==
  {<<c.id, h, <<"sent", c.iteration>>>> : c \in Chains(h)}
    \union {<<c.n, c.to, <<"ordered", h>>>> : c \in OrdersAt(h)}
    \union {<<id, toMove[h][id], <<"left", h>>>> : id \in LeftAt(h)}
Trips == UNION {TripsAt(h) : h \in Heads}
OneTrip(trips) == \A t, u \in trips : t[1] = u[1] => t = u
To(trips, h) == {t[1] : t \in {u \in trips : u[2] = h}}
Coming(h) == To(Trips, h)

QueuedAt(h) == {e[2] : e \in workQueue[h]}
KnownTo(h) == DOMAIN mh[h] \union DOMAIN mcChainsToAdd[h] \union finished[h] \union QueuedAt(h)
Keeps(h) == DOMAIN mh[h] \union Added(h) \union finished[h]
Live(h) == {c.id : c \in {d \in Chains(h) : d.iteration < TargetLength}}

Objs == [iteration : 0 .. TargetLength, stage : Stages, fresh : BOOLEAN]
MovePcs == {"next move", "move", "work while moving"}
Pcs == {"begin", "work", "progress", "manager", "last work", "drain", "left"} \union MovePcs

(* Where head h is in its loop.                                             *)
PlaceIs(h) ==
  /\ pc[h] \in Pcs /\ iteration[h] \in 0 .. TargetLength /\ toGet[h] \in Int
  /\ running[h] \in BOOLEAN /\ inProgress[h] \in BOOLEAN /\ sendProgress[h] \in BOOLEAN
  /\ moving[h] \in Ids \union {NoId}
  /\ moving[h] # NoId => pc[h] \in MovePcs
  /\ pc[h] = "next move" => moving[h] \notin DOMAIN mh[h]
  /\ pc[h] \in {"move", "work while moving"} => moving[h] \in DOMAIN toMove[h]
  /\ pc[h] \in {"drain", "left"} => ~running[h]
  /\ ~running[h] => /\ pc[h] # "begin" /\ DOMAIN mh[h] = {}
                    /\ DOMAIN mcChainsToAdd[h] = {} /\ DOMAIN toMove[h] = {}
  /\ pc[h] = "progress" => sendProgress[h]
  /\ pc[h] = "manager" => h = 0 /\ (RequestDue \/ InformationComplete)

(* The chains of head h and its queue.  The entry of a chain that is to be  *)
(* moved may be out of date.                                                *)
ExactFor(h, id) ==
  {e \in workQueue[h] : e[2] = id} = {<<Priority(mh[h][id].iteration), id>>}
ChainsAre(h) ==
  /\ mh[h] \in [DOMAIN mh[h] -> Objs]
  /\ \A id \in DOMAIN mh[h] : mh[h][id].iteration = TargetLength =>
        /\ id = moving[h] /\ pc[h] \in {"move", "work while moving"}
        /\ mh[h][id].stage \in {"idle", "ended"}
  /\ mcChainsToAdd[h] \in [DOMAIN mcChainsToAdd[h] -> 0 .. SizeModulus - 1]
  /\ toMove[h] \in [DOMAIN toMove[h] -> Heads \ {h}] /\ DOMAIN toMove[h] \subseteq Ids
  /\ workQueue[h] \subseteq (1 .. TargetLength) \X Ids
  /\ KnownTo(h) \subseteq Ids
  /\ \A id \in DOMAIN mh[h] \ {moving[h]} : ExactFor(h, id)
  /\ DOMAIN mcChainsToAdd[h] \intersect (DOMAIN mh[h] \union finished[h] \union QueuedAt(h)) = {}
  /\ DOMAIN mh[h] \intersect finished[h] = {}

CallsAre ==
  /\ tasks \in [Heads -> Seq(Heads \X CallSet)]
  /\ channel \in [Heads -> [Heads -> Seq(Heads \X CallSet)]]
  /\ \A h, j \in Heads : \A k \in DOMAIN channel[h][j] : channel[h][j][k][1] = h
  /\ \A h \in Heads : EachOnce(Inbox(h))

KeptOnce ==
  /\ \A g, h \in Heads : g # h => Keeps(g) \intersect Keeps(h) = {}
  /\ \A g, h \in Heads : Live(g) \intersect Keeps(h) = {}

Report == [id : Ids, score : 0 .. TargetLength, wg : Heads]
ReportsAt(h) == {c \in Content(h) : c.fn = "pass_progress_info"}
ReportedBy(h) ==
  \/ \E c \in ReportsAt(0) : c.wg = h
  \/ \E k \in DOMAIN manager.dataset : manager.dataset[k].wg = h

(* Nothing is moved: head h knows of no chains but its own.                 *)
Still(h) ==
  /\ toGet[h] = 0 /\ DOMAIN toMove[h] = {} /\ moving[h] = NoId
  /\ KnownTo(h) \subseteq Share(h)

(* Before the progress of the chains is requested.                          *)
Quiet ==
  /\ manager.dataset = <<>> /\ ~manager.required
  /\ ~passedOver
  /\ \A h \in Heads : Still(h) /\ Content(h) = {} /\ ~inProgress[h] /\ ~sendProgress[h]

(* While it is requested and passed.                                        *)
AskedIs(h) ==
  /\ Still(h)
  /\ \A c \in Content(h) : c = RequestProgress \/ (h = 0 /\ c.fn = "pass_progress_info")
  /\ RequestProgress \in Content(h) => ~sendProgress[h] /\ ~ReportedBy(h)
  /\ sendProgress[h] => inProgress[h] /\ ~ReportedBy(h)
  /\ ReportedBy(h) => running[h] /\ inProgress[h]
Asking ==
  /\ manager.dataset \in Seq(Report)
  /\ ~passedOver
  /\ \A h \in Heads : AskedIs(h)
  /\ \A k \in DOMAIN manager.dataset : manager.dataset[k].id \in Share(manager.dataset[k].wg)
  /\ \A k, l \in DOMAIN manager.dataset : manager.dataset[k].id = manager.dataset[l].id => k = l
  /\ \A c \in ReportsAt(0) :
       /\ c.id \in Share(c.wg)
       /\ \A k \in DOMAIN manager.dataset : c.id # manager.dataset[k].id
       /\ \A d \in ReportsAt(0) : c.id = d.id => c = d

(* While chains are moved: of head h, with what it gets announced, the      *)
(* number it has got and the number that comes.                             *)
Counted(h) ==
  /\ \A c, d \in Announcements(h) : c = d
  /\ \A c \in Announcements(h) :
       /\ inProgress[h] /\ toGet[h] <= 0
       /\ toGet[h] + c.n >= Cardinality(Coming(h))
       /\ ~passedOver => toGet[h] + c.n = Cardinality(Coming(h))
  /\ Announcements(h) = {} =>
       /\ toGet[h] >= Cardinality(Coming(h))
       /\ ~passedOver => toGet[h] = Cardinality(Coming(h))
       /\ inProgress[h] <=> toGet[h] # 0
MovedIs(h) ==
  /\ ~sendProgress[h]
  /\ \A c \in Content(h) : IsMove(c) \/ c.fn = "recieve_markov_chain"
  /\ Counted(h)
  /\ Coming(h) \subseteq Ids /\ Coming(h) \intersect KnownTo(h) = {}
  /\ \A c \in OrdersAt(h) : c.n \in Ids \ DOMAIN toMove[h]
  /\ (\E j \in Heads \ {h} : \E k \in DOMAIN channel[j][h] : IsMove(channel[j][h][k][2]))
       => Announcements(h) # {}
  /\ ~running[h] => toGet[h] = 0 /\ \A c \in Content(h) : ~IsMove(c)
Moved ==
  /\ manager.dataset = <<>>
  /\ OneTrip(Trips)
  /\ \A h \in Heads : MovedIs(h)

FunctionsAre ==
  /\ DOMAIN pc = Heads /\ DOMAIN mcChainsToAdd = Heads /\ DOMAIN mh = Heads
  /\ DOMAIN workQueue = Heads /\ DOMAIN finished = Heads
  /\ DOMAIN iteration = Heads /\ DOMAIN running = Heads
  /\ DOMAIN toMove = Heads /\ DOMAIN moving = Heads /\ DOMAIN toGet = Heads
  /\ DOMAIN inProgress = Heads /\ DOMAIN sendProgress = Heads
  /\ manager = [required |-> manager.required, requested |-> manager.requested,
                dataset |-> manager.dataset]

RInv ==
  /\ disabled \in Switch /\ aborted \in BOOLEAN /\ passedOver \in BOOLEAN
  /\ FunctionsAre
  /\ manager.required \in BOOLEAN /\ manager.requested \in BOOLEAN
  /\ manager.required => manager.requested
  /\ disabled => ~manager.requested
  /\ \A h \in Heads : PlaceIs(h) /\ ChainsAre(h)
  /\ CallsAre
  /\ KeptOnce
  /\ ~manager.requested => Quiet
  /\ manager.required => Asking
  /\ manager.requested /\ ~manager.required => Moved

-----------------------------------------------------------------------------
(* Calls that are sent and taken                                           *)

Pairs == Heads \X CallSet
Inboxes == [Heads -> Seq(Pairs)]

(* A call of an inbox is at some place, and each place has one of its calls. *)
LEMMA CallOf ==
  ASSUME NEW inbox, NEW c \in CallsIn(inbox)
  PROVE  \E j \in Heads : \E k \in DOMAIN inbox[j] : inbox[j][k][2] = c
BY DEF CallsIn

LEMMA CallAt ==
  ASSUME NEW inbox, NEW j \in Heads, NEW k \in DOMAIN inbox[j]
  PROVE  inbox[j][k][2] \in CallsIn(inbox)
BY DEF CallsIn

LEMMA OnePlace ==
  ASSUME NEW inbox, EachOnce(inbox), NEW i \in Heads, NEW j \in Heads,
         NEW k \in DOMAIN inbox[i], NEW l \in DOMAIN inbox[j],
         inbox[i][k][2] = inbox[j][l][2]
  PROVE  i = j /\ k = l
BY DEF EachOnce

(* Where a head finds its calls when it has taken all that arrived.         *)
Taken(arrived, b, inbox) ==
  /\ b \in Bijection(DOMAIN arrived, PlacesIn(inbox, Heads))
  /\ \A p \in DOMAIN arrived : arrived[p] = inbox[b[p][1]][b[p][2]]

(* All calls but the first are left, at other places.                       *)
LEMMA TakesOne ==
  ASSUME NEW h \in Heads, NEW inbox \in Inboxes, EachOnce(inbox),
         NEW arrived \in Seq(Pairs), arrived # <<>>, NEW b, Taken(arrived, b, inbox),
         NEW next, next = [j \in Heads |-> IF j = h THEN Tail(arrived) ELSE <<>>]
  PROVE  /\ Head(arrived)[2] \in CallsIn(inbox)
         /\ CallsIn(next) = CallsIn(inbox) \ {Head(arrived)[2]}
         /\ EachOnce(next)
<1> DEFINE n == Len(arrived)
<1>1. /\ n \in Nat \ {0} /\ DOMAIN arrived = 1 .. n
      /\ Head(arrived) = arrived[1]
  BY EmptySeq
<1>2. /\ Tail(arrived) \in Seq(Pairs) /\ Len(Tail(arrived)) = n - 1
      /\ DOMAIN Tail(arrived) = 1 .. n - 1
      /\ \A k \in 1 .. n - 1 : Tail(arrived)[k] = arrived[k + 1]
  BY <1>1, HeadTailProperties
<1>3. /\ \A p \in 1 .. n : /\ b[p][1] \in Heads /\ b[p][2] \in DOMAIN inbox[b[p][1]]
                           /\ b[p] = <<b[p][1], b[p][2]>>
                           /\ arrived[p] = inbox[b[p][1]][b[p][2]]
      /\ \A p, q \in 1 .. n : b[p] = b[q] => p = q
      /\ \A j \in Heads : \A k \in DOMAIN inbox[j] : \E p \in 1 .. n : b[p] = <<j, k>>
  <2>1. /\ b \in [1 .. n -> PlacesIn(inbox, Heads)]
        /\ \A p, q \in 1 .. n : b[p] = b[q] => p = q
        /\ \A x \in PlacesIn(inbox, Heads) : \E p \in 1 .. n : b[p] = x
    BY <1>1, Fun_BijectionProperties DEF Taken
  <2>2. \A x \in PlacesIn(inbox, Heads) :
          x[1] \in Heads /\ x[2] \in DOMAIN inbox[x[1]] /\ x = <<x[1], x[2]>>
    BY DEF PlacesIn
  <2>3. \A j \in Heads : \A k \in DOMAIN inbox[j] : <<j, k>> \in PlacesIn(inbox, Heads)
    BY DEF PlacesIn
  <2>4. \A p \in 1 .. n : arrived[p] = inbox[b[p][1]][b[p][2]]
    BY <1>1 DEF Taken
  <2>5. \A p \in 1 .. n : b[p] \in PlacesIn(inbox, Heads)
    BY <2>1
  <2> QED
    BY <2>1, <2>2, <2>3, <2>4, <2>5
<1> HIDE DEF n
<1>4. \A c : c \in CallsIn(inbox) <=> \E p \in 1 .. n : arrived[p][2] = c
  <2>1. ASSUME NEW p \in 1 .. n
        PROVE  arrived[p][2] \in CallsIn(inbox)
    <3>1. b[p][1] \in Heads /\ b[p][2] \in DOMAIN inbox[b[p][1]]
          /\ arrived[p] = inbox[b[p][1]][b[p][2]]
      BY <1>3
    <3>2. inbox[b[p][1]][b[p][2]][2] \in CallsIn(inbox)
      BY <3>1, CallAt
    <3> QED
      BY <3>1, <3>2
  <2>2. ASSUME NEW c \in CallsIn(inbox)
        PROVE  \E p \in 1 .. n : arrived[p][2] = c
    <3>1. PICK j \in Heads : \E k \in DOMAIN inbox[j] : inbox[j][k][2] = c
      BY CallOf
    <3>2. PICK k \in DOMAIN inbox[j] : inbox[j][k][2] = c
      BY <3>1
    <3>3. PICK p \in 1 .. n : b[p] = <<j, k>>
      BY <1>3
    <3>4. arrived[p] = inbox[j][k]
      BY <1>3, <3>3
    <3> QED
      BY <3>2, <3>4
  <2> QED
    BY <2>1, <2>2
<1>5. \A p, q \in 1 .. n : arrived[p][2] = arrived[q][2] => p = q
  <2> SUFFICES ASSUME NEW p \in 1 .. n, NEW q \in 1 .. n, arrived[p][2] = arrived[q][2]
               PROVE  p = q
    OBVIOUS
  <2>1. /\ b[p][1] \in Heads /\ b[p][2] \in DOMAIN inbox[b[p][1]]
        /\ b[q][1] \in Heads /\ b[q][2] \in DOMAIN inbox[b[q][1]]
        /\ arrived[p] = inbox[b[p][1]][b[p][2]] /\ arrived[q] = inbox[b[q][1]][b[q][2]]
        /\ b[p] = <<b[p][1], b[p][2]>> /\ b[q] = <<b[q][1], b[q][2]>>
    BY <1>3
  <2>2. b[p][1] = b[q][1] /\ b[p][2] = b[q][2]
    <3>1. inbox[b[p][1]][b[p][2]][2] = inbox[b[q][1]][b[q][2]][2]
      BY <2>1
    <3> QED
      BY <2>1, <3>1, OnePlace
  <2>3. b[p] = b[q]
    BY <2>1, <2>2
  <2> QED
    BY <1>3, <2>3
<1>6. \A j \in Heads : DOMAIN next[j] = IF j = h THEN 1 .. n - 1 ELSE {}
  BY <1>2
<1>7. \A k \in 1 .. n - 1 : next[h][k] = arrived[k + 1]
  BY <1>2
<1>8. \A c : c \in CallsIn(next) <=> \E k \in 1 .. n - 1 : arrived[k + 1][2] = c
  <2>1. ASSUME NEW c \in CallsIn(next)
        PROVE  \E k \in 1 .. n - 1 : arrived[k + 1][2] = c
    <3>1. PICK j \in Heads : \E k \in DOMAIN next[j] : next[j][k][2] = c
      BY CallOf
    <3>2. j = h /\ DOMAIN next[j] = 1 .. n - 1
      BY <1>6, <3>1
    <3> QED
      BY <1>7, <3>1, <3>2
  <2>2. ASSUME NEW k \in 1 .. n - 1
        PROVE  arrived[k + 1][2] \in CallsIn(next)
    <3>1. next[h][k][2] \in CallsIn(next)
      BY <1>6, CallAt
    <3> QED
      BY <1>7, <3>1
  <2> QED
    BY <2>1, <2>2
<1>9. CallsIn(next) = CallsIn(inbox) \ {Head(arrived)[2]}
  <2>1. ASSUME NEW c \in CallsIn(next)
        PROVE  c \in CallsIn(inbox) /\ c # arrived[1][2]
    <3>1. PICK k \in 1 .. n - 1 : arrived[k + 1][2] = c
      BY <1>8
    <3>2. k + 1 \in 1 .. n /\ 1 \in 1 .. n /\ k + 1 # 1
      BY <1>1
    <3> QED
      BY <1>4, <1>5, <3>1, <3>2
  <2>2. ASSUME NEW c \in CallsIn(inbox), c # arrived[1][2]
        PROVE  c \in CallsIn(next)
    <3>1. PICK p \in 1 .. n : arrived[p][2] = c
      BY <1>4
    <3>2. p # 1
      BY <2>2, <3>1
    <3>3. p - 1 \in 1 .. n - 1 /\ (p - 1) + 1 = p
      BY <1>1, <3>2
    <3> QED
      BY <1>8, <3>1, <3>3
  <2> QED
    BY <1>1, <2>1, <2>2
<1>10. EachOnce(next)
  <2> SUFFICES ASSUME NEW i \in Heads, NEW j \in Heads, NEW k \in DOMAIN next[i],
                      NEW l \in DOMAIN next[j], next[i][k][2] = next[j][l][2]
               PROVE  i = j /\ k = l
    BY Zenon DEF EachOnce
  <2>1. i = h /\ j = h /\ k \in 1 .. n - 1 /\ l \in 1 .. n - 1
    BY <1>6
  <2>2. arrived[k + 1][2] = arrived[l + 1][2]
    BY <1>7, <2>1
  <2>3. k + 1 \in 1 .. n /\ l + 1 \in 1 .. n
    BY <1>1, <2>1
  <2>4. k + 1 = l + 1
    BY <1>5, <2>2, <2>3
  <2> QED
    BY <2>1, <2>4
<1>11. Head(arrived)[2] \in CallsIn(inbox)
  <2>1. 1 \in 1 .. n
    BY <1>1
  <2> QED
    BY <1>1, <1>4, <2>1
<1> QED
  BY <1>9, <1>10, <1>11

Extends(next, inbox, g, more) == next = [inbox EXCEPT ![g] = @ \o more]

(* What is added at the end of one of the channels.                         *)
LEMMA AddsSome ==
  ASSUME NEW g \in Heads, NEW inbox \in Inboxes, EachOnce(inbox),
         NEW more \in Seq(Pairs),
         \A k, l \in DOMAIN more : more[k][2] = more[l][2] => k = l,
         \A k \in DOMAIN more : more[k][2] \notin CallsIn(inbox),
         NEW next, Extends(next, inbox, g, more)
  PROVE  /\ CallsIn(next) = CallsIn(inbox) \union {more[k][2] : k \in DOMAIN more}
         /\ EachOnce(next)
<1> DEFINE s == inbox[g]
           n == Len(s)
           m == Len(more)
<1>1. /\ s \in Seq(Pairs) /\ n \in Nat /\ m \in Nat
      /\ DOMAIN s = 1 .. n /\ DOMAIN more = 1 .. m
  BY DEF Inboxes
<1>2. /\ Len(s \o more) = n + m /\ s \o more \in Seq(Pairs)
      /\ \A k \in 1 .. n + m : (s \o more)[k] = IF k <= n THEN s[k] ELSE more[k - n]
  BY <1>1, ConcatProperties
<1>3. /\ DOMAIN next = Heads /\ next[g] = s \o more
      /\ \A j \in Heads \ {g} : next[j] = inbox[j]
  BY DEF Inboxes, Extends
<1>4. DOMAIN next[g] = 1 .. n + m
  BY <1>2, <1>3
<1> HIDE DEF s, n, m
<1>5. CallsIn(next) = CallsIn(inbox) \union {more[k][2] : k \in DOMAIN more}
  <2>1. ASSUME NEW c \in CallsIn(next)
        PROVE  c \in CallsIn(inbox) \/ \E k \in DOMAIN more : c = more[k][2]
    <3>1. PICK j \in Heads : \E k \in DOMAIN next[j] : next[j][k][2] = c
      BY CallOf
    <3>2. PICK k \in DOMAIN next[j] : next[j][k][2] = c
      BY <3>1
    <3>3. CASE j # g
      BY <1>3, <3>2, <3>3, CallAt
    <3>4. CASE j = g /\ k <= n
      <4>1. k \in DOMAIN s /\ c = s[k][2]
        BY <1>1, <1>2, <1>3, <1>4, <3>2, <3>4
      <4> QED
        BY <4>1, CallAt DEF s
    <3>5. CASE j = g /\ ~(k <= n)
      <4>1. k \in 1 .. n + m
        BY <1>4, <3>2, <3>5
      <4>2. k - n \in DOMAIN more /\ c = more[k - n][2]
        BY <1>1, <1>2, <1>3, <3>2, <3>5, <4>1
      <4> QED
        BY <4>2
    <3> QED
      BY <3>3, <3>4, <3>5
  <2>2. ASSUME NEW c \in CallsIn(inbox)
        PROVE  c \in CallsIn(next)
    <3>1. PICK j \in Heads : \E k \in DOMAIN inbox[j] : inbox[j][k][2] = c
      BY CallOf
    <3>2. PICK k \in DOMAIN inbox[j] : inbox[j][k][2] = c
      BY <3>1
    <3>3. k \in DOMAIN next[j] /\ next[j][k] = inbox[j][k]
      <4>1. CASE j = g
        <5>1. k \in 1 .. n /\ k \in 1 .. n + m /\ k <= n
          BY <1>1, <3>2, <4>1 DEF s
        <5> QED
          BY <1>2, <1>3, <1>4, <4>1, <5>1 DEF s
      <4>2. CASE j # g
        BY <1>3, <4>2
      <4> QED
        BY <4>1, <4>2
    <3> QED
      BY <3>2, <3>3, CallAt
  <2>3. ASSUME NEW k \in DOMAIN more
        PROVE  more[k][2] \in CallsIn(next)
    <3>1. n + k \in 1 .. n + m /\ ~(n + k <= n) /\ (n + k) - n = k
      BY <1>1
    <3>2. next[g][n + k] = more[k]
      BY <1>2, <1>3, <3>1
    <3>3. next[g][n + k][2] \in CallsIn(next)
      BY <1>4, <3>1, CallAt
    <3> QED
      BY <3>2, <3>3
  <2> QED
    BY <2>1, <2>2, <2>3
<1>6. EachOnce(next)
  <2> SUFFICES ASSUME NEW i \in Heads, NEW j \in Heads, NEW k \in DOMAIN next[i],
                      NEW l \in DOMAIN next[j], next[i][k][2] = next[j][l][2]
               PROVE  i = j /\ k = l
    BY Zenon DEF EachOnce
  <2> DEFINE Old(x, y) == y \in DOMAIN inbox[x] /\ next[x][y] = inbox[x][y]
             New(x, y) == x = g /\ y - n \in DOMAIN more /\ next[x][y] = more[y - n] /\ y \in Int
  <2>1. ASSUME NEW x \in Heads, NEW y \in DOMAIN next[x]
        PROVE  Old(x, y) \/ New(x, y)
    <3>1. CASE x # g
      BY <1>3, <3>1
    <3>2. CASE x = g /\ y <= n
      <4>1. y \in 1 .. n + m /\ y \in 1 .. n
        BY <1>1, <1>4, <2>1, <3>2
      <4>2. next[g][y] = s[y] /\ y \in DOMAIN s
        BY <1>1, <1>2, <1>3, <3>2, <4>1
      <4> QED
        BY <3>2, <4>2 DEF s
    <3>3. CASE x = g /\ ~(y <= n)
      <4>1. y \in 1 .. n + m
        BY <1>4, <2>1, <3>3
      <4>2. y - n \in DOMAIN more /\ y \in Int
        BY <1>1, <3>3, <4>1
      <4>3. next[g][y] = more[y - n]
        BY <1>2, <1>3, <3>3, <4>1
      <4> QED
        BY <3>3, <4>2, <4>3
    <3> QED
      BY <3>1, <3>2, <3>3
  <2>2. CASE Old(i, k) /\ Old(j, l)
    BY <2>2 DEF EachOnce
  <2>3. CASE New(i, k) /\ New(j, l)
    <3>1. k - n = l - n
      BY <2>3
    <3> QED
      BY <1>1, <2>3, <3>1
  <2>4. CASE Old(i, k) /\ New(j, l)
    BY <2>4, CallAt
  <2>5. CASE New(i, k) /\ Old(j, l)
    BY <2>5, CallAt
  <2> HIDE DEF Old, New
  <2> QED
    BY <2>1, <2>2, <2>3, <2>4, <2>5
<1> QED
  BY <1>5, <1>6

(* The calls of sequences behind one another stand at their places.         *)
LEMMA FlattenedAt ==
  ASSUME NEW A, NEW n \in Nat, NEW seqs \in [1 .. n -> Seq(A)]
  PROVE  /\ FlattenSeq(seqs) \in Seq(A)
         /\ \E b : /\ b \in Bijection(DOMAIN FlattenSeq(seqs), PlacesOf(seqs))
                   /\ \A p \in DOMAIN FlattenSeq(seqs) :
                        FlattenSeq(seqs)[p] = seqs[b[p][1]][b[p][2]]
<1>1. FlattenSeq(seqs) \in Seq(A) /\ \E b : ComesFrom(FlattenSeq(seqs), b, seqs, PlacesOf(seqs))
  BY FlattenIs
<1> QED
  BY <1>1, Zenon DEF ComesFrom

LEMMA PlaceIn ==
  ASSUME NEW seqs, NEW some, NEW x \in PlacesIn(seqs, some)
  PROVE  x[1] \in some /\ x[2] \in DOMAIN seqs[x[1]] /\ x = <<x[1], x[2]>>
BY DEF PlacesIn

LEMMA PlaceOf ==
  ASSUME NEW seqs, NEW some, NEW i \in some, NEW k \in DOMAIN seqs[i]
  PROVE  <<i, k>> \in PlacesIn(seqs, some)
BY DEF PlacesIn

(* What a head takes: all that is in its inbox, each call once.             *)
LEMMA ArrivedIs ==
  ASSUME CallsAre, NEW h \in Heads, NEW arrived \in Arrived(h)
  PROVE  /\ Inbox(h) \in Inboxes
         /\ arrived \in Seq(Pairs)
         /\ \E b : Taken(arrived, b, Inbox(h))
<1> DEFINE inbox == Inbox(h)
           t == tasks[h]
<1>1. t \in Seq(Pairs) /\ Len(t) \in Nat /\ DOMAIN t = 1 .. Len(t)
  BY DEF CallsAre, Pairs
<1>2. \A j \in Heads : channel[j][h] \in Seq(Pairs)
  BY DEF CallsAre, Pairs
<1>3. /\ inbox \in Inboxes /\ inbox[h] = t
      /\ \A j \in Heads \ {h} : inbox[j] = channel[j][h]
  <2>1. \A j \in Heads : (IF j = h THEN tasks[h] ELSE channel[j][h]) \in Seq(Pairs)
    BY <1>1, <1>2
  <2> QED
    BY <2>1 DEF Inbox, Inboxes
<1> HIDE DEF inbox, t
<1>4. PICK order \in SetToSeqs(Heads \ {h}) :
        arrived = t \o FlattenSeq([k \in DOMAIN order |-> channel[order[k]][h]])
  BY DEF Arrived, t
<1> DEFINE n == Cardinality(Heads \ {h})
           seqs == [k \in DOMAIN order |-> channel[order[k]][h]]
           rest == FlattenSeq(seqs)
<1>5. n \in Nat /\ IsFiniteSet(Heads \ {h})
  <2>1. IsFiniteSet(Heads)
    BY Numbers, FS_Interval DEF Heads
  <2>2. IsFiniteSet(Heads \ {h})
    BY <2>1, FS_Subset
  <2> QED
    BY <2>2, FS_CardinalityType
<1>6. /\ order \in [1 .. n -> Heads \ {h}]
      /\ \A k, l \in 1 .. n : order[k] = order[l] => k = l
  BY DEF SetToSeqs
<1>7. \A j \in Heads \ {h} : \E k \in 1 .. n : order[k] = j
  <2>1. order \in Injection(1 .. n, Heads \ {h})
    BY <1>6, Fun_IsInj
  <2>2. IsFiniteSet(1 .. n) /\ Cardinality(1 .. n) = n
    BY <1>5, FS_Interval
  <2>3. order \in Surjection(1 .. n, Heads \ {h})
    BY <1>5, <2>1, <2>2, FS_Injection
  <2> QED
    BY <2>3 DEF Surjection
<1> HIDE DEF n
<1>8. seqs \in [1 .. n -> Seq(Pairs)] /\ \A k \in 1 .. n : seqs[k] = inbox[order[k]]
  BY <1>2, <1>3, <1>6
<1> HIDE DEF seqs
<1>9. /\ rest \in Seq(Pairs)
      /\ \E b : /\ b \in Bijection(DOMAIN rest, PlacesOf(seqs))
                /\ \A p \in DOMAIN rest : rest[p] = seqs[b[p][1]][b[p][2]]
  BY <1>5, <1>8, FlattenedAt
<1> HIDE DEF rest
<1>10. PICK c : /\ c \in Bijection(DOMAIN rest, PlacesOf(seqs))
                /\ \A p \in DOMAIN rest : rest[p] = seqs[c[p][1]][c[p][2]]
  BY <1>9
<1>11. Len(rest) \in Nat /\ DOMAIN rest = 1 .. Len(rest)
  BY <1>9
<1>12. /\ \A p \in 1 .. Len(rest) : /\ c[p][1] \in 1 .. n /\ c[p][2] \in DOMAIN seqs[c[p][1]]
                                    /\ c[p] = <<c[p][1], c[p][2]>>
       /\ \A p, q \in 1 .. Len(rest) : c[p] = c[q] => p = q
       /\ \A k \in 1 .. n : \A l \in DOMAIN seqs[k] :
            \E p \in 1 .. Len(rest) : c[p] = <<k, l>>
  <2>1. /\ c \in [1 .. Len(rest) -> PlacesOf(seqs)]
        /\ \A p, q \in 1 .. Len(rest) : c[p] = c[q] => p = q
        /\ \A x \in PlacesOf(seqs) : \E p \in 1 .. Len(rest) : c[p] = x
    BY <1>10, <1>11, Fun_BijectionProperties
  <2>2. DOMAIN seqs = 1 .. n
    BY <1>8
  <2>3. \A x \in PlacesOf(seqs) :
          x[1] \in 1 .. n /\ x[2] \in DOMAIN seqs[x[1]] /\ x = <<x[1], x[2]>>
    BY <2>2 DEF PlacesOf, PlacesIn
  <2>4. \A k \in 1 .. n : \A l \in DOMAIN seqs[k] : <<k, l>> \in PlacesOf(seqs)
    BY <2>2 DEF PlacesOf, PlacesIn
  <2>5. \A p \in 1 .. Len(rest) : c[p] \in PlacesOf(seqs)
    BY <2>1
  <2> QED
    BY <2>1, <2>3, <2>4, <2>5
<1>13. /\ arrived = t \o rest /\ arrived \in Seq(Pairs) /\ Len(arrived) = Len(t) + Len(rest)
       /\ DOMAIN arrived = 1 .. Len(t) + Len(rest)
       /\ \A p \in 1 .. Len(t) + Len(rest) :
            arrived[p] = IF p <= Len(t) THEN t[p] ELSE rest[p - Len(t)]
  <2>1. arrived = t \o rest
    BY <1>4 DEF rest, seqs
  <2> QED
    BY <1>1, <1>9, <1>11, <2>1, ConcatProperties
<1> DEFINE N == Len(t) + Len(rest)
           b == [p \in 1 .. N |-> IF p <= Len(t) THEN <<h, p>>
                                  ELSE <<order[c[p - Len(t)][1]], c[p - Len(t)][2]>>]
<1>14. ASSUME NEW p \in 1 .. N
       PROVE  /\ p <= Len(t) => p \in DOMAIN t /\ b[p] = <<h, p>>
              /\ ~(p <= Len(t)) =>
                   /\ p - Len(t) \in 1 .. Len(rest)
                   /\ b[p] = <<order[c[p - Len(t)][1]], c[p - Len(t)][2]>>
                   /\ order[c[p - Len(t)][1]] \in Heads \ {h}
                   /\ c[p - Len(t)][1] \in 1 .. n
  <2>1. p <= Len(t) => p \in DOMAIN t
    BY <1>1, <1>11
  <2>2. ~(p <= Len(t)) => p - Len(t) \in 1 .. Len(rest)
    BY <1>1, <1>11
  <2>3. ~(p <= Len(t)) => c[p - Len(t)][1] \in 1 .. n
    BY <1>12, <2>2
  <2> QED
    BY <1>6, <2>1, <2>2, <2>3
<1>15. ASSUME NEW p \in 1 .. N
       PROVE  /\ b[p][1] \in Heads /\ b[p][2] \in DOMAIN inbox[b[p][1]]
              /\ arrived[p] = inbox[b[p][1]][b[p][2]]
              /\ b[p] = <<b[p][1], b[p][2]>>
  <2> HIDE DEF b
  <2>1. CASE p <= Len(t)
    <3>1. p \in DOMAIN t /\ b[p] = <<h, p>>
      BY <1>14, <2>1
    <3> QED
      BY <1>3, <1>13, <2>1, <3>1
  <2>2. CASE ~(p <= Len(t))
    <3> DEFINE q == p - Len(t)
    <3>1. /\ q \in 1 .. Len(rest) /\ b[p] = <<order[c[q][1]], c[q][2]>>
          /\ order[c[q][1]] \in Heads \ {h} /\ c[q][1] \in 1 .. n
      BY <1>14, <2>2
    <3>2. arrived[p] = rest[q]
      BY <1>13, <2>2
    <3> HIDE DEF q
    <3>3. /\ rest[q] = seqs[c[q][1]][c[q][2]] /\ c[q][2] \in DOMAIN seqs[c[q][1]]
          /\ seqs[c[q][1]] = inbox[order[c[q][1]]]
      BY <1>8, <1>10, <1>11, <1>12, <3>1
    <3> QED
      BY <3>1, <3>2, <3>3
  <2> QED
    BY <2>1, <2>2
<1>16. ASSUME NEW p \in 1 .. N, NEW q \in 1 .. N, b[p] = b[q]
       PROVE  p = q
  <2> HIDE DEF b
  <2>1. CASE p <= Len(t) /\ q <= Len(t)
    BY <1>14, <1>16, <2>1
  <2>2. CASE p <= Len(t) /\ ~(q <= Len(t))
    BY <1>14, <1>16, <2>2
  <2>3. CASE ~(p <= Len(t)) /\ q <= Len(t)
    BY <1>14, <1>16, <2>3
  <2>4. CASE ~(p <= Len(t)) /\ ~(q <= Len(t))
    <3> DEFINE x == p - Len(t)
               y == q - Len(t)
    <3>1. /\ x \in 1 .. Len(rest) /\ b[p] = <<order[c[x][1]], c[x][2]>> /\ c[x][1] \in 1 .. n
          /\ y \in 1 .. Len(rest) /\ b[q] = <<order[c[y][1]], c[y][2]>> /\ c[y][1] \in 1 .. n
      BY <1>14, <2>4
    <3>2. x = y => p = q
      BY <1>1
    <3> HIDE DEF x, y
    <3>3. <<order[c[x][1]], c[x][2]>> = <<order[c[y][1]], c[y][2]>>
      BY <1>16, <3>1
    <3>4. order[c[x][1]] = order[c[y][1]] /\ c[x][2] = c[y][2]
      BY <3>3
    <3>5. c[x][1] = c[y][1]
      BY <1>6, <3>1, <3>4
    <3>6. c[x] = <<c[x][1], c[x][2]>> /\ c[y] = <<c[y][1], c[y][2]>>
      BY <1>12, <3>1
    <3>7. c[x] = c[y]
      BY <3>4, <3>5, <3>6
    <3> QED
      BY <1>12, <3>1, <3>2, <3>7
  <2> QED
    BY <2>1, <2>2, <2>3, <2>4
<1>17. ASSUME NEW j \in Heads, NEW k \in DOMAIN inbox[j]
       PROVE  \E p \in 1 .. N : b[p] = <<j, k>>
  <2>1. CASE j = h
    <3>1. k \in 1 .. N /\ k <= Len(t)
      BY <1>1, <1>3, <1>11, <1>17, <2>1
    <3> QED
      BY <2>1, <3>1
  <2>2. CASE j # h
    <3>1. PICK i \in 1 .. n : order[i] = j
      BY <1>7, <2>2
    <3>2. seqs[i] = inbox[j]
      BY <1>8, <3>1
    <3>3. PICK q \in 1 .. Len(rest) : c[q] = <<i, k>>
      BY <1>12, <1>17, <3>2
    <3>4. q + Len(t) \in 1 .. N /\ ~(q + Len(t) <= Len(t)) /\ (q + Len(t)) - Len(t) = q
      BY <1>1, <1>11
    <3>5. b[q + Len(t)] = <<order[c[q][1]], c[q][2]>>
      BY <3>4
    <3> HIDE DEF b
    <3> QED
      BY <3>1, <3>3, <3>4, <3>5
  <2> QED
    BY <2>1, <2>2
<1>18. b \in [1 .. N -> PlacesIn(inbox, Heads)]
  <2>1. \A p \in 1 .. N : b[p] \in PlacesIn(inbox, Heads)
    <3> HIDE DEF b
    <3> SUFFICES ASSUME NEW p \in 1 .. N
                 PROVE  b[p] \in PlacesIn(inbox, Heads)
      OBVIOUS
    <3>1. <<b[p][1], b[p][2]>> \in PlacesIn(inbox, Heads)
      BY <1>15, PlaceOf
    <3> QED
      BY <1>15, <3>1
  <2> QED
    BY <2>1
<1>19. \A x \in PlacesIn(inbox, Heads) : \E p \in 1 .. N : b[p] = x
  <2> HIDE DEF b, N
  <2> SUFFICES ASSUME NEW x \in PlacesIn(inbox, Heads)
               PROVE  \E p \in 1 .. N : b[p] = x
    OBVIOUS
  <2>1. x[1] \in Heads /\ x[2] \in DOMAIN inbox[x[1]] /\ x = <<x[1], x[2]>>
    BY PlaceIn
  <2>2. \E p \in 1 .. N : b[p] = <<x[1], x[2]>>
    BY <1>17, <2>1
  <2> QED
    BY <2>1, <2>2
<1>20. b \in Bijection(1 .. N, PlacesIn(inbox, Heads))
  <2> HIDE DEF b, N
  <2> QED
    BY <1>16, <1>18, <1>19, Fun_IsBij
<1>21. Taken(arrived, b, inbox)
  <2> HIDE DEF b
  <2> QED
    BY <1>13, <1>15, <1>20 DEF Taken
<1> HIDE DEF b
<1> QED
  BY <1>3, <1>13, <1>21 DEF inbox

(* One call is taken from the inbox of head h, the other inboxes keep theirs. *)
TakenBy(h, arrived) ==
  /\ tasks' = [tasks EXCEPT ![h] = Tail(arrived)]
  /\ channel' = [j \in Heads |-> [channel[j] EXCEPT ![h] = <<>>]]

(* When all that has arrived is taken and one call executed, that call is   *)
(* gone from what the head has to do and nothing else changes.              *)
LEMMA Takes ==
  ASSUME CallsAre, NEW h \in Heads, NEW arrived \in Arrived(h), arrived # <<>>,
         TakenBy(h, arrived)
  PROVE  /\ CallsAre'
         /\ Head(arrived) \in Pairs
         /\ Head(arrived)[2] \in Content(h)
         /\ Content(h)' = Content(h) \ {Head(arrived)[2]}
         /\ \A j \in Heads \ {h} : Content(j)' = Content(j)
         /\ \A i, j \in Heads : channel'[i][j] = IF j = h THEN <<>> ELSE channel[i][j]
<1>1. Inbox(h) \in Inboxes /\ arrived \in Seq(Pairs)
  BY ArrivedIs
<1>2. PICK b : Taken(arrived, b, Inbox(h))
  BY ArrivedIs
<1>3. Tail(arrived) \in Seq(Pairs) /\ Head(arrived) \in Pairs
  BY <1>1, HeadTailProperties
<1>4. /\ tasks \in [Heads -> Seq(Pairs)] /\ channel \in [Heads -> [Heads -> Seq(Pairs)]]
      /\ \A i, j \in Heads : \A k \in DOMAIN channel[i][j] : channel[i][j][k][1] = i
      /\ \A j \in Heads : EachOnce(Inbox(j))
  BY DEF CallsAre, Pairs
<1>5. \A i, j \in Heads : channel'[i][j] = IF j = h THEN <<>> ELSE channel[i][j]
  BY <1>4 DEF TakenBy
<1>6. <<>> \in Seq(Pairs) /\ DOMAIN <<>> = {}
  OBVIOUS
<1>7. tasks' \in [Heads -> Seq(Pairs)]
  BY <1>3, <1>4 DEF TakenBy
<1>8. channel' \in [Heads -> [Heads -> Seq(Pairs)]]
  BY <1>4, <1>6 DEF TakenBy
<1>9. \A i, j \in Heads : \A k \in DOMAIN channel'[i][j] : channel'[i][j][k][1] = i
  BY <1>4, <1>5, <1>6
<1>10. Inbox(h)' = [j \in Heads |-> IF j = h THEN Tail(arrived) ELSE <<>>]
  <2>1. tasks'[h] = Tail(arrived)
    BY <1>4 DEF TakenBy
  <2> QED
    BY <1>5, <2>1 DEF Inbox
<1>11. \A j \in Heads \ {h} : Inbox(j)' = Inbox(j)
  <2>1. \A j \in Heads \ {h} : tasks'[j] = tasks[j]
    BY <1>4 DEF TakenBy
  <2> QED
    BY <1>5, <2>1 DEF Inbox
<1>12. /\ Head(arrived)[2] \in CallsIn(Inbox(h))
       /\ CallsIn(Inbox(h)') = CallsIn(Inbox(h)) \ {Head(arrived)[2]}
       /\ EachOnce(Inbox(h)')
  <2> DEFINE next == [j \in Heads |-> IF j = h THEN Tail(arrived) ELSE <<>>]
             inbox == Inbox(h)
  <2>1. /\ inbox \in Inboxes /\ EachOnce(inbox) /\ Taken(arrived, b, inbox)
        /\ arrived \in Seq(Pairs) /\ arrived # <<>>
    BY <1>1, <1>2, <1>4
  <2> HIDE DEF inbox
  <2>2. /\ Head(arrived)[2] \in CallsIn(inbox)
        /\ CallsIn(next) = CallsIn(inbox) \ {Head(arrived)[2]}
        /\ EachOnce(next)
    BY <2>1, TakesOne
  <2>3. Inbox(h)' = next
    BY <1>10
  <2> HIDE DEF next
  <2> QED
    BY <2>2, <2>3 DEF inbox
<1>13. \A j \in Heads : EachOnce(Inbox(j)')
  BY <1>4, <1>11, <1>12
<1>14. CallsAre'
  BY <1>7, <1>8, <1>9, <1>13 DEF CallsAre, Pairs
<1>15. Content(h)' = Content(h) \ {Head(arrived)[2]}
  BY <1>12 DEF Content
<1>16. \A j \in Heads \ {h} : Content(j)' = Content(j)
  BY <1>11 DEF Content
<1> QED
  BY <1>3, <1>5, <1>12, <1>14, <1>15, <1>16 DEF Content

(* A sequence of one element or of none.                                    *)
LEMMA OneOrNone ==
  ASSUME NEW A, NEW x \in A
  PROVE  /\ <<x>> \in Seq(A) /\ DOMAIN <<x>> = {1} /\ <<x>>[1] = x
         /\ <<>> \in Seq(A) /\ DOMAIN <<>> = {}
OBVIOUS

(* The calls for head j out of those head h schedules.                      *)
SentTo(h, calls, j) ==
  FlattenSeq([k \in DOMAIN calls |->
                IF calls[k][1] = j THEN <<<<h, calls[k][2]>>>> ELSE <<>>])

(* What is sent to j: the calls for j, each once.                           *)
LEMMA SentAre ==
  ASSUME NEW h \in Heads, NEW j \in Heads, NEW calls \in Seq(Pairs), IsInjective(calls)
  PROVE  /\ SentTo(h, calls, j) \in Seq(Pairs)
         /\ \A k \in DOMAIN SentTo(h, calls, j) : SentTo(h, calls, j)[k][1] = h
         /\ \A c : (\E k \in DOMAIN SentTo(h, calls, j) : SentTo(h, calls, j)[k][2] = c)
                     <=> \E k \in DOMAIN calls : calls[k] = <<j, c>>
         /\ \A k, l \in DOMAIN SentTo(h, calls, j) :
              SentTo(h, calls, j)[k][2] = SentTo(h, calls, j)[l][2] => k = l
<1> DEFINE n == Len(calls)
           seqs == [k \in DOMAIN calls |->
                      IF calls[k][1] = j THEN <<<<h, calls[k][2]>>>> ELSE <<>>]
           s == SentTo(h, calls, j)
<1>1. /\ n \in Nat /\ DOMAIN calls = 1 .. n
      /\ \A k \in 1 .. n : calls[k][1] \in Heads /\ calls[k][2] \in CallSet
                           /\ calls[k] = <<calls[k][1], calls[k][2]>>
  BY DEF Pairs
<1> HIDE DEF n
<1>2. \A k \in 1 .. n : /\ seqs[k] \in Seq(Pairs)
                        /\ DOMAIN seqs[k] = IF calls[k][1] = j THEN {1} ELSE {}
                        /\ calls[k][1] = j => seqs[k][1] = <<h, calls[k][2]>>
  <2> SUFFICES ASSUME NEW k \in 1 .. n
               PROVE  /\ seqs[k] \in Seq(Pairs)
                      /\ DOMAIN seqs[k] = IF calls[k][1] = j THEN {1} ELSE {}
                      /\ calls[k][1] = j => seqs[k][1] = <<h, calls[k][2]>>
    OBVIOUS
  <2>1. <<h, calls[k][2]>> \in Pairs
    BY <1>1 DEF Pairs
  <2>2. CASE calls[k][1] = j
    <3> DEFINE x == <<h, calls[k][2]>>
    <3>1. seqs[k] = <<x>>
      BY <1>1, <2>2
    <3>2. x \in Pairs
      BY <2>1
    <3> HIDE DEF x, seqs
    <3>3. /\ seqs[k] \in Seq(Pairs) /\ DOMAIN seqs[k] = {1} /\ seqs[k][1] = x
      BY <3>1, <3>2, OneOrNone
    <3> QED
      BY <2>2, <3>3 DEF x
  <2>3. CASE calls[k][1] # j
    <3>1. seqs[k] = <<>>
      BY <1>1, <2>3
    <3> HIDE DEF seqs
    <3>2. seqs[k] \in Seq(Pairs) /\ DOMAIN seqs[k] = {}
      BY <2>1, <3>1, OneOrNone
    <3> QED
      BY <2>3, <3>2
  <2> QED
    BY <2>2, <2>3
<1>3. seqs \in [1 .. n -> Seq(Pairs)]
  BY <1>1, <1>2
<1>4. s = FlattenSeq(seqs)
  BY DEF SentTo
<1> HIDE DEF seqs
<1>5. /\ s \in Seq(Pairs)
      /\ \E b : /\ b \in Bijection(DOMAIN s, PlacesOf(seqs))
                /\ \A p \in DOMAIN s : s[p] = seqs[b[p][1]][b[p][2]]
  BY <1>1, <1>3, <1>4, FlattenedAt
<1> HIDE DEF s
<1>6. PICK b : /\ b \in Bijection(DOMAIN s, PlacesOf(seqs))
               /\ \A p \in DOMAIN s : s[p] = seqs[b[p][1]][b[p][2]]
  BY <1>5
<1>7. /\ b \in [DOMAIN s -> PlacesOf(seqs)]
      /\ \A p, q \in DOMAIN s : b[p] = b[q] => p = q
      /\ \A x \in PlacesOf(seqs) : \E p \in DOMAIN s : b[p] = x
  BY <1>6, Fun_BijectionProperties
<1>8. DOMAIN seqs = 1 .. n
  BY <1>3
<1>9. ASSUME NEW p \in DOMAIN s
      PROVE  /\ b[p][1] \in 1 .. n /\ calls[b[p][1]][1] = j /\ b[p] = <<b[p][1], 1>>
             /\ s[p] = <<h, calls[b[p][1]][2]>>
  <2>1. b[p] \in PlacesIn(seqs, 1 .. n)
    BY <1>7, <1>8 DEF PlacesOf
  <2>2. b[p][1] \in 1 .. n /\ b[p][2] \in DOMAIN seqs[b[p][1]] /\ b[p] = <<b[p][1], b[p][2]>>
    BY <2>1, PlaceIn
  <2>3. calls[b[p][1]][1] = j /\ b[p][2] = 1
    BY <1>2, <2>2
  <2>4. s[p] = seqs[b[p][1]][1]
    BY <1>6, <2>3
  <2> QED
    BY <1>2, <2>2, <2>3, <2>4
<1>10. ASSUME NEW k \in 1 .. n, calls[k][1] = j
       PROVE  \E p \in DOMAIN s : s[p] = <<h, calls[k][2]>>
  <2>1. 1 \in DOMAIN seqs[k]
    BY <1>2, <1>10
  <2>2. <<k, 1>> \in PlacesOf(seqs)
    BY <1>8, <2>1, PlaceOf DEF PlacesOf
  <2>3. PICK p \in DOMAIN s : b[p] = <<k, 1>>
    BY <1>7, <2>2
  <2> QED
    BY <1>9, <2>3
<1>11. \A k \in DOMAIN s : s[k][1] = h
  BY <1>9
<1>12. ASSUME NEW c
       PROVE  (\E k \in DOMAIN s : s[k][2] = c) <=> \E k \in DOMAIN calls : calls[k] = <<j, c>>
  <2>1. ASSUME NEW p \in DOMAIN s, s[p][2] = c
        PROVE  \E k \in DOMAIN calls : calls[k] = <<j, c>>
    <3>1. b[p][1] \in 1 .. n /\ calls[b[p][1]][1] = j /\ calls[b[p][1]][2] = c
      BY <1>9, <2>1
    <3>2. calls[b[p][1]] = <<j, c>>
      BY <1>1, <3>1
    <3> QED
      BY <1>1, <3>1, <3>2
  <2>2. ASSUME NEW k \in DOMAIN calls, calls[k] = <<j, c>>
        PROVE  \E p \in DOMAIN s : s[p][2] = c
    <3>1. k \in 1 .. n /\ calls[k][1] = j /\ calls[k][2] = c
      BY <1>1, <2>2
    <3>2. PICK p \in DOMAIN s : s[p] = <<h, calls[k][2]>>
      BY <1>10, <3>1
    <3> QED
      BY <3>1, <3>2
  <2> QED
    BY <2>1, <2>2
<1>13. ASSUME NEW p \in DOMAIN s, NEW q \in DOMAIN s, s[p][2] = s[q][2]
       PROVE  p = q
  <2> DEFINE k == b[p][1]
             l == b[q][1]
  <2>1. /\ k \in 1 .. n /\ calls[k][1] = j /\ b[p] = <<k, 1>> /\ s[p] = <<h, calls[k][2]>>
        /\ l \in 1 .. n /\ calls[l][1] = j /\ b[q] = <<l, 1>> /\ s[q] = <<h, calls[l][2]>>
    BY <1>9
  <2> HIDE DEF k, l
  <2>2. calls[k][2] = calls[l][2]
    BY <1>13, <2>1
  <2>3. calls[k] = calls[l]
    BY <1>1, <2>1, <2>2
  <2>4. k = l
    BY <1>1, <2>1, <2>3 DEF IsInjective
  <2> QED
    BY <1>7, <2>1, <2>4
<1> QED
  BY <1>5, <1>11, <1>12, <1>13 DEF s

(* The calls that are new to head j.                                        *)
NewFor(calls, j) == {c \in CallSet : \E k \in DOMAIN calls : calls[k] = <<j, c>>}

(* When calls that differ are sent, each head has those for it to execute   *)
(* as well, still each call once.                                           *)
LEMMA Sends ==
  ASSUME CallsAre, NEW h \in Heads, NEW calls \in Seq(Pairs), Schedule(h, calls),
         IsInjective(calls), \A j \in Heads : NewFor(calls, j) \cap Content(j) = {}
  PROVE  /\ CallsAre'
         /\ \A j \in Heads : Content(j)' = Content(j) \union NewFor(calls, j)
         /\ \A i, j \in Heads : \A k \in DOMAIN channel'[i][j] :
              \/ \E l \in DOMAIN channel[i][j] : channel'[i][j][k][2] = channel[i][j][l][2]
              \/ channel'[i][j][k][2] \in NewFor(calls, j)
<1> DEFINE S(j) == SentTo(h, calls, j)
<1>1. /\ tasks \in [Heads -> Seq(Pairs)] /\ channel \in [Heads -> [Heads -> Seq(Pairs)]]
      /\ \A i, j \in Heads : \A k \in DOMAIN channel[i][j] : channel[i][j][k][1] = i
      /\ \A j \in Heads : EachOnce(Inbox(j))
  BY DEF CallsAre, Pairs
<1>2. /\ tasks' = [tasks EXCEPT ![h] = @ \o S(h)]
      /\ channel' = [channel EXCEPT
           ![h] = [j \in Heads |-> IF j = h THEN @[h] ELSE @[j] \o S(j)]]
  BY Zenon DEF Schedule, SentTo
<1>3. \A j \in Heads : /\ S(j) \in Seq(Pairs)
                       /\ \A k \in DOMAIN S(j) : S(j)[k][1] = h
                       /\ \A k \in DOMAIN S(j) : S(j)[k][2] \in NewFor(calls, j)
                       /\ \A c \in NewFor(calls, j) : \E k \in DOMAIN S(j) : S(j)[k][2] = c
                       /\ \A k, l \in DOMAIN S(j) : S(j)[k][2] = S(j)[l][2] => k = l
  <2> SUFFICES ASSUME NEW j \in Heads
               PROVE  /\ S(j) \in Seq(Pairs)
                      /\ \A k \in DOMAIN S(j) : S(j)[k][1] = h
                      /\ \A k \in DOMAIN S(j) : S(j)[k][2] \in NewFor(calls, j)
                      /\ \A c \in NewFor(calls, j) : \E k \in DOMAIN S(j) : S(j)[k][2] = c
                      /\ \A k, l \in DOMAIN S(j) : S(j)[k][2] = S(j)[l][2] => k = l
    OBVIOUS
  <2>1. /\ S(j) \in Seq(Pairs)
        /\ \A k \in DOMAIN S(j) : S(j)[k][1] = h
        /\ \A c : (\E k \in DOMAIN S(j) : S(j)[k][2] = c)
                    <=> \E k \in DOMAIN calls : calls[k] = <<j, c>>
        /\ \A k, l \in DOMAIN S(j) : S(j)[k][2] = S(j)[l][2] => k = l
    BY SentAre
  <2> HIDE DEF S
  <2>2. \A k \in DOMAIN S(j) : S(j)[k][2] \in CallSet
    BY <2>1 DEF Pairs
  <2> QED
    BY <2>1, <2>2 DEF NewFor
<1> HIDE DEF S
<1>4. /\ tasks'[h] = tasks[h] \o S(h) /\ \A j \in Heads \ {h} : tasks'[j] = tasks[j]
      /\ channel'[h][h] = channel[h][h]
      /\ \A j \in Heads \ {h} : channel'[h][j] = channel[h][j] \o S(j)
      /\ \A i \in Heads \ {h} : channel'[i] = channel[i]
  BY <1>1, <1>2
<1>5. tasks[h] \o S(h) \in Seq(Pairs) /\ \A j \in Heads : channel[h][j] \o S(j) \in Seq(Pairs)
  BY <1>1, <1>3, ConcatProperties
<1>6. tasks' \in [Heads -> Seq(Pairs)]
  BY <1>1, <1>2, <1>5
<1>7. channel' \in [Heads -> [Heads -> Seq(Pairs)]]
  <2>1. [j \in Heads |-> IF j = h THEN channel[h][h] ELSE channel[h][j] \o S(j)]
          \in [Heads -> Seq(Pairs)]
    BY <1>1, <1>5
  <2> QED
    BY <1>1, <1>2, <2>1
<1>8. ASSUME NEW j \in Heads \ {h}, NEW k \in DOMAIN channel'[h][j]
      PROVE  \/ \E l \in DOMAIN channel[h][j] : channel'[h][j][k] = channel[h][j][l]
             \/ \E l \in DOMAIN S(j) : channel'[h][j][k] = S(j)[l]
  <2> DEFINE s == channel[h][j]
             t == S(j)
  <2>1. /\ s \in Seq(Pairs) /\ t \in Seq(Pairs) /\ channel'[h][j] = s \o t
    BY <1>1, <1>3, <1>4
  <2>2. k \in DOMAIN (s \o t)
    BY <1>8, <2>1
  <2> HIDE DEF s, t
  <2>3. /\ Len(s) \in Nat /\ Len(t) \in Nat /\ DOMAIN s = 1 .. Len(s) /\ DOMAIN t = 1 .. Len(t)
        /\ k \in 1 .. Len(s) + Len(t)
        /\ (s \o t)[k] = IF k <= Len(s) THEN s[k] ELSE t[k - Len(s)]
    BY <2>1, <2>2, ConcatProperties
  <2>4. k <= Len(s) => k \in DOMAIN s
    BY <2>3
  <2>5. ~(k <= Len(s)) => k - Len(s) \in DOMAIN t
    BY <2>3
  <2>6. channel'[h][j][k] = (s \o t)[k]
    BY <2>1
  <2>7. \/ \E l \in DOMAIN s : channel'[h][j][k] = s[l]
        \/ \E l \in DOMAIN t : channel'[h][j][k] = t[l]
    <3>1. CASE k <= Len(s)
      BY <2>3, <2>4, <2>6, <3>1
    <3>2. CASE ~(k <= Len(s))
      BY <2>3, <2>5, <2>6, <3>2
    <3> QED
      BY <3>1, <3>2
  <2> QED
    BY <2>7, Zenon DEF s, t
<1>9. \A i, j \in Heads : \A k \in DOMAIN channel'[i][j] : channel'[i][j][k][1] = i
  <2> SUFFICES ASSUME NEW i \in Heads, NEW j \in Heads, NEW k \in DOMAIN channel'[i][j]
               PROVE  channel'[i][j][k][1] = i
    OBVIOUS
  <2>1. CASE i # h \/ j = h
    BY <1>1, <1>4, <2>1
  <2>2. CASE i = h /\ j # h
    <3>1. CASE \E l \in DOMAIN channel[h][j] : channel'[h][j][k] = channel[h][j][l]
      BY <1>1, <2>2, <3>1
    <3>2. CASE \E l \in DOMAIN S(j) : channel'[h][j][k] = S(j)[l]
      BY <1>3, <2>2, <3>2
    <3>3. j \in Heads \ {h} /\ k \in DOMAIN channel'[h][j]
      BY <2>2
    <3> QED
      BY <1>8, <3>1, <3>2, <3>3
  <2> QED
    BY <2>1, <2>2
<1>10. \A i, j \in Heads : \A k \in DOMAIN channel'[i][j] :
         \/ \E l \in DOMAIN channel[i][j] : channel'[i][j][k][2] = channel[i][j][l][2]
         \/ channel'[i][j][k][2] \in NewFor(calls, j)
  <2> SUFFICES ASSUME NEW i \in Heads, NEW j \in Heads, NEW k \in DOMAIN channel'[i][j]
               PROVE  \/ \E l \in DOMAIN channel[i][j] : channel'[i][j][k][2] = channel[i][j][l][2]
                      \/ channel'[i][j][k][2] \in NewFor(calls, j)
    OBVIOUS
  <2>1. CASE i # h \/ j = h
    BY <1>4, <2>1
  <2>2. CASE i = h /\ j # h
    <3>1. CASE \E l \in DOMAIN channel[h][j] : channel'[h][j][k] = channel[h][j][l]
      BY <2>2, <3>1
    <3>2. CASE \E l \in DOMAIN S(j) : channel'[h][j][k] = S(j)[l]
      BY <1>3, <2>2, <3>2
    <3>3. j \in Heads \ {h} /\ k \in DOMAIN channel'[h][j]
      BY <2>2
    <3> QED
      BY <1>8, <3>1, <3>2, <3>3
  <2> QED
    BY <2>1, <2>2
<1>11. ASSUME NEW j \in Heads
       PROVE  /\ CallsIn(Inbox(j)') = CallsIn(Inbox(j)) \union NewFor(calls, j)
              /\ EachOnce(Inbox(j)')
  <2> DEFINE inbox == Inbox(j)
             next == Inbox(j)'
  <2>1. /\ inbox \in Inboxes /\ EachOnce(inbox)
    <3>1. \A i \in Heads : (IF i = j THEN tasks[j] ELSE channel[i][j]) \in Seq(Pairs)
      BY <1>1
    <3> QED
      BY <1>1, <3>1 DEF Inbox, Inboxes
  <2>2. Extends(next, inbox, h, S(j))
    <3>1. next = [i \in Heads |-> IF i = j THEN tasks'[j] ELSE channel'[i][j]]
      BY DEF Inbox
    <3>2. [inbox EXCEPT ![h] = @ \o S(j)]
            = [i \in Heads |-> IF i = h THEN inbox[h] \o S(j) ELSE inbox[i]]
      BY DEF Inbox
    <3>3. ASSUME NEW i \in Heads
          PROVE  (IF i = j THEN tasks'[j] ELSE channel'[i][j])
                   = IF i = h THEN inbox[h] \o S(j) ELSE inbox[i]
      <4>1. inbox[i] = IF i = j THEN tasks[j] ELSE channel[i][j]
        BY DEF Inbox
      <4>2. CASE i = h /\ j = h
        BY <1>4, <4>1, <4>2
      <4>3. CASE i = h /\ j # h
        BY <1>4, <4>1, <4>3
      <4>4. CASE i # h
        BY <1>4, <4>1, <4>4
      <4> QED
        BY <4>2, <4>3, <4>4
    <3> HIDE DEF inbox, next
    <3>4. next = [i \in Heads |-> IF i = h THEN inbox[h] \o S(j) ELSE inbox[i]]
      BY <3>1, <3>3
    <3> QED
      BY <3>2, <3>4 DEF Extends
  <2>3. \A k \in DOMAIN S(j) : S(j)[k][2] \notin CallsIn(inbox)
    BY <1>3 DEF Content
  <2> HIDE DEF inbox, next
  <2>4. /\ CallsIn(next) = CallsIn(inbox) \union {S(j)[k][2] : k \in DOMAIN S(j)}
        /\ EachOnce(next)
    BY <1>3, <2>1, <2>2, <2>3, AddsSome
  <2>5. {S(j)[k][2] : k \in DOMAIN S(j)} = NewFor(calls, j)
    BY <1>3
  <2> QED
    BY <2>4, <2>5 DEF inbox, next
<1>12. CallsAre'
  BY <1>6, <1>7, <1>9, <1>11 DEF CallsAre, Pairs
<1> QED
  BY <1>10, <1>11, <1>12 DEF Content

Distinct(seqs) ==
  \A i, j \in DOMAIN seqs : \A k \in DOMAIN seqs[i], l \in DOMAIN seqs[j] :
    seqs[i][k] = seqs[j][l] => i = j /\ k = l

LEMMA DistinctAt ==
  ASSUME NEW seqs, Distinct(seqs), NEW i \in DOMAIN seqs, NEW j \in DOMAIN seqs,
         NEW k \in DOMAIN seqs[i], NEW l \in DOMAIN seqs[j], seqs[i][k] = seqs[j][l]
  PROVE  i = j /\ k = l
BY DEF Distinct

Stands(x, s) == \E p \in DOMAIN s : s[p] = x

(* All that stands in sequences behind one another stands in one of them.   *)
LEMMA FlattenedHas ==
  ASSUME NEW A, NEW n \in Nat, NEW seqs \in [1 .. n -> Seq(A)]
  PROVE  /\ FlattenSeq(seqs) \in Seq(A)
         /\ \A x : Stands(x, FlattenSeq(seqs)) <=> \E i \in 1 .. n : Stands(x, seqs[i])
         /\ Distinct(seqs) => IsInjective(FlattenSeq(seqs))
<1> DEFINE s == FlattenSeq(seqs)
<1>1. /\ s \in Seq(A)
      /\ \E b : /\ b \in Bijection(DOMAIN s, PlacesOf(seqs))
                /\ \A p \in DOMAIN s : s[p] = seqs[b[p][1]][b[p][2]]
  BY FlattenedAt
<1> HIDE DEF s
<1>2. PICK b : /\ b \in Bijection(DOMAIN s, PlacesOf(seqs))
               /\ \A p \in DOMAIN s : s[p] = seqs[b[p][1]][b[p][2]]
  BY <1>1
<1>3. /\ b \in [DOMAIN s -> PlacesOf(seqs)]
      /\ \A p, q \in DOMAIN s : b[p] = b[q] => p = q
      /\ \A x \in PlacesOf(seqs) : \E p \in DOMAIN s : b[p] = x
  BY <1>2, Fun_BijectionProperties
<1>4. DOMAIN seqs = 1 .. n
  OBVIOUS
<1>5. ASSUME NEW p \in DOMAIN s
      PROVE  /\ b[p][1] \in 1 .. n /\ b[p][2] \in DOMAIN seqs[b[p][1]]
             /\ b[p] = <<b[p][1], b[p][2]>> /\ s[p] = seqs[b[p][1]][b[p][2]]
  <2>1. b[p] \in PlacesIn(seqs, 1 .. n)
    BY <1>3, <1>4 DEF PlacesOf
  <2> QED
    BY <1>2, <2>1, PlaceIn
<1>6. ASSUME NEW i \in 1 .. n, NEW k \in DOMAIN seqs[i]
      PROVE  \E p \in DOMAIN s : s[p] = seqs[i][k]
  <2>1. <<i, k>> \in PlacesOf(seqs)
    BY <1>4, PlaceOf DEF PlacesOf
  <2>2. PICK p \in DOMAIN s : b[p] = <<i, k>>
    BY <1>3, <2>1
  <2> QED
    BY <1>2, <2>2
<1>7. ASSUME Distinct(seqs)
      PROVE  IsInjective(s)
  <2> SUFFICES ASSUME NEW p \in DOMAIN s, NEW q \in DOMAIN s, s[p] = s[q]
               PROVE  p = q
    BY DEF IsInjective
  <2> DEFINE i == b[p][1]
             k == b[p][2]
             j == b[q][1]
             l == b[q][2]
  <2>1. /\ i \in 1 .. n /\ k \in DOMAIN seqs[i] /\ b[p] = <<i, k>> /\ s[p] = seqs[i][k]
        /\ j \in 1 .. n /\ l \in DOMAIN seqs[j] /\ b[q] = <<j, l>> /\ s[q] = seqs[j][l]
    BY <1>5
  <2> HIDE DEF i, j, k, l
  <2>3. seqs[i][k] = seqs[j][l]
    BY <2>1
  <2>2. i = j /\ k = l
    BY <1>4, <1>7, <2>1, <2>3, DistinctAt
  <2> QED
    BY <1>3, <2>1, <2>2
<1>8. \A x : Stands(x, s) <=> \E i \in 1 .. n : Stands(x, seqs[i])
  BY <1>5, <1>6 DEF Stands
<1> QED
  BY <1>1, <1>7, <1>8, Zenon DEF s

-----------------------------------------------------------------------------
(* Chains on their way                                                     *)

Without(U, T, t) == U = T \ {t}
(* Without one of its trips a chain on its way is so no longer.             *)
LEMMA TripsShrink ==
  ASSUME NEW T, OneTrip(T), NEW t \in T, NEW U, Without(U, T, t)
  PROVE  /\ OneTrip(U)
         /\ t[1] \in To(T, t[2])
         /\ To(U, t[2]) = To(T, t[2]) \ {t[1]}
         /\ \A h : h # t[2] => To(U, h) = To(T, h)
<1>0. U = T \ {t}
  BY DEF Without
<1>1. OneTrip(U)
  BY <1>0 DEF OneTrip
<1>2. t[1] \in To(T, t[2])
  BY DEF To
<1>3. \A v \in T : v[1] = t[1] => v = t
  BY DEF OneTrip
<1>4. To(U, t[2]) = To(T, t[2]) \ {t[1]}
  BY <1>0, <1>3 DEF To
<1>5. ASSUME NEW h, h # t[2]
      PROVE  To(U, h) = To(T, h)
  BY <1>0, <1>5 DEF To
<1> QED
  BY <1>1, <1>2, <1>4, <1>5

(* When a trip goes on to a next stage, the same chains come to the same    *)
(* heads.                                                                   *)
LEMMA TripsGoOn ==
  ASSUME NEW T, OneTrip(T), NEW t \in T, NEW u, u[1] = t[1], u[2] = t[2],
         NEW U, U = (T \ {t}) \union {u}
  PROVE  /\ OneTrip(U)
         /\ \A h : To(U, h) = To(T, h)
<1>1. \A v \in T : v[1] = t[1] => v = t
  BY DEF OneTrip
<1>2. OneTrip(U)
  BY <1>1 DEF OneTrip
<1>3. ASSUME NEW h
      PROVE  To(U, h) = To(T, h)
  <2>1. ASSUME NEW x \in To(U, h)
        PROVE  x \in To(T, h)
    BY <2>1 DEF To
  <2>2. ASSUME NEW x \in To(T, h)
        PROVE  x \in To(U, h)
    <3>1. PICK v \in T : v[2] = h /\ v[1] = x
      BY <2>2 DEF To
    <3>2. CASE v = t
      BY <3>1, <3>2 DEF To
    <3>3. CASE v # t
      BY <3>1, <3>3 DEF To
    <3> QED
      BY <3>2, <3>3
  <2> QED
    BY <2>1, <2>2
<1> QED
  BY <1>2, <1>3

LEMMA TripOf ==
  ASSUME NEW t \in Trips
  PROVE  \E h \in Heads : t \in TripsAt(h)
BY DEF Trips

LEMMA TripIs ==
  ASSUME NEW h, NEW t \in TripsAt(h)
  PROVE  \/ \E c \in Chains(h) : t = <<c.id, h, <<"sent", c.iteration>>>>
         \/ \E c \in OrdersAt(h) : t = <<c.n, c.to, <<"ordered", h>>>>
         \/ \E id \in LeftAt(h) : t = <<id, toMove[h][id], <<"left", h>>>>
BY DEF TripsAt

LEMMA ComingOf ==
  ASSUME NEW h, NEW id \in Coming(h)
  PROVE  \E t \in Trips : t[1] = id /\ t[2] = h
BY DEF Coming, To

(* The trips of which head j knows are the same.                            *)
SameTrips(j) ==
  /\ Chains(j)' = Chains(j) /\ OrdersAt(j)' = OrdersAt(j) /\ LeftAt(j)' = LeftAt(j)
  /\ \A id \in LeftAt(j) : toMove'[j][id] = toMove[j][id]

LEMMA SameTripsAt ==
  ASSUME NEW j \in Heads, SameTrips(j)
  PROVE  TripsAt(j)' = TripsAt(j)
<1>1. {<<id, toMove'[j][id], <<"left", j>>>> : id \in LeftAt(j)}
        = {<<id, toMove[j][id], <<"left", j>>>> : id \in LeftAt(j)}
  BY DEF SameTrips
<1> QED
  BY <1>1 DEF SameTrips, TripsAt

LEMMA AllTrips ==
  ASSUME \A j \in Heads : TripsAt(j)' = TripsAt(j)
  PROVE  Trips' = Trips
BY DEF Trips

-----------------------------------------------------------------------------
(* What a step leaves alone                                                *)

Same(j) ==
  /\ pc'[j] = pc[j] /\ mcChainsToAdd'[j] = mcChainsToAdd[j] /\ mh'[j] = mh[j]
  /\ workQueue'[j] = workQueue[j] /\ finished'[j] = finished[j]
  /\ iteration'[j] = iteration[j] /\ running'[j] = running[j]
  /\ toMove'[j] = toMove[j] /\ moving'[j] = moving[j] /\ toGet'[j] = toGet[j]
  /\ inProgress'[j] = inProgress[j] /\ sendProgress'[j] = sendProgress[j]

OthersSame(h) ==
  /\ FunctionsAre' /\ disabled' = disabled /\ aborted' \in BOOLEAN
  /\ \A j \in Heads \ {h} : Same(j)

(* What is said of a head stays so while the head is left alone.            *)
LEMMA SameKeeps ==
  ASSUME NEW j \in Heads, Same(j), PlaceIs(j), ChainsAre(j), disabled' = disabled,
         j = 0 => manager' = manager
  PROVE  /\ PlaceIs(j)' /\ ChainsAre(j)'
         /\ KnownTo(j)' = KnownTo(j) /\ Keeps(j)' = Keeps(j) /\ LeftAt(j)' = LeftAt(j)
         /\ Still(j)' = Still(j)
<1>1. KnownTo(j)' = KnownTo(j)
  BY DEF Same, KnownTo, QueuedAt
<1>2. Added(j)' = Added(j)
  BY DEF Same, Added
<1>3. Keeps(j)' = Keeps(j)
  BY <1>2 DEF Same, Keeps
<1>4. LeftAt(j)' = LeftAt(j)
  BY DEF Same, LeftAt, Left
<1>5. Still(j)' = Still(j)
  BY <1>1 DEF Same, Still, Share, ShareStart, ShareSize, PerHead, Larger
<1>6. ChainsAre(j)'
  <2>1. \A id \in DOMAIN mh[j] : ExactFor(j, id) => ExactFor(j, id)'
    BY DEF Same, ExactFor, Priority
  <2>2. QueuedAt(j)' = QueuedAt(j)
    BY DEF Same, QueuedAt
  <2> QED
    BY <1>1, <2>1, <2>2 DEF Same, ChainsAre
<1>7. PlaceIs(j)'
  <2>1. pc[j] = "manager" => j = 0 /\ (RequestDue' \/ InformationComplete')
    BY DEF PlaceIs, Same, RequestDue, InformationComplete
  <2> QED
    BY <2>1 DEF Same, PlaceIs
<1> QED
  BY <1>1, <1>3, <1>4, <1>5, <1>6, <1>7

(* What follows from the calls a head has to execute.                       *)
SameCalls(j) ==
  /\ Content(j)' = Content(j) /\ Chains(j)' = Chains(j)
  /\ Announcements(j)' = Announcements(j) /\ OrdersAt(j)' = OrdersAt(j)
  /\ ReportsAt(j)' = ReportsAt(j) /\ Live(j)' = Live(j)

LEMMA SameContent ==
  ASSUME NEW j, Content(j)' = Content(j)
  PROVE  SameCalls(j)
<1>1. /\ Chains(j)' = Chains(j) /\ Announcements(j)' = Announcements(j)
      /\ OrdersAt(j)' = OrdersAt(j) /\ ReportsAt(j)' = ReportsAt(j)
  BY DEF Chains, Announcements, OrdersAt, ReportsAt
<1> QED
  BY <1>1 DEF SameCalls, Live

LEMMA SameComm ==
  ASSUME UNCHANGED comm
  PROVE  /\ \A j \in Heads : SameCalls(j)
         /\ CallsAre => CallsAre'
<1>1. \A j \in Heads : Inbox(j)' = Inbox(j)
  BY DEF comm, Inbox
<1>2. \A j \in Heads : Content(j)' = Content(j)
  BY <1>1 DEF Content
<1>3. CallsAre => CallsAre'
  <2>1. \A j \in Heads : EachOnce(Inbox(j)') = EachOnce(Inbox(j))
    BY <1>1
  <2> QED
    BY <2>1 DEF comm, CallsAre
<1> QED
  BY <1>2, <1>3, SameContent

(* A step of head h alone: it calls nobody and executes no call.            *)
Alone(h) ==
  /\ OthersSame(h)
  /\ UNCHANGED <<toGet, inProgress, sendProgress, passedOver, manager, comm>>

(* It gets no more chains, and knows of the same chains to send.            *)
NoMore(h) ==
  /\ KnownTo(h)' \subseteq KnownTo(h) /\ Keeps(h)' \subseteq Keeps(h)
  /\ DOMAIN toMove'[h] \subseteq DOMAIN toMove[h]
  /\ LeftAt(h)' = LeftAt(h) /\ \A id \in LeftAt(h) : toMove'[h][id] = toMove[h][id]
  /\ moving'[h] # NoId => DOMAIN toMove[h] # {} \/ moving[h] # NoId
  /\ running'[h] = running[h] \/ MayStop(h)

(* A head that may stop has no moves to execute or to wait for.             *)
LEMMA StopsIdle ==
  ASSUME RInv, manager.requested, ~manager.required, NEW h \in Heads, MayStop(h)
  PROVE  toGet[h] = 0 /\ \A c \in Content(h) : ~IsMove(c)
<1>1. MovedIs(h) /\ ~inProgress[h] /\ ~IsWorkOutstanding(h)
  BY DEF RInv, Moved, MayStop
<1>2. Announcements(h) = {}
  BY <1>1 DEF MovedIs, Counted
<1>3. toGet[h] = 0
  BY <1>1, <1>2 DEF MovedIs, Counted
<1>4. ASSUME NEW c \in Content(h), IsMove(c)
      PROVE  FALSE
  <2>1. PICK j \in Heads : \E k \in DOMAIN Inbox(h)[j] : Inbox(h)[j][k][2] = c
    BY CallOf DEF Content
  <2>2. CASE j = h
    <3>1. tasks[h] # <<>>
      BY <2>1, <2>2 DEF Inbox
    <3> QED
      BY <1>1, <3>1 DEF IsWorkOutstanding
  <2>3. CASE j # h
    <3>1. \E k \in DOMAIN channel[j][h] : IsMove(channel[j][h][k][2])
      BY <1>4, <2>1, <2>3 DEF Inbox
    <3> QED
      BY <1>1, <1>2, <2>3, <3>1 DEF MovedIs
  <2> QED
    BY <2>2, <2>3
<1> QED
  BY <1>3, <1>4

(* A step of one head that calls nobody and keeps its own part keeps the    *)
(* invariant.                                                               *)
LEMMA AloneKeeps ==
  ASSUME RInv, NEW h \in Heads, Alone(h), NoMore(h), PlaceIs(h)', ChainsAre(h)'
  PROVE  RInv'
<1>1. /\ \A j \in Heads : SameCalls(j)
      /\ CallsAre'
  BY SameComm DEF RInv, Alone
<1>2. /\ FunctionsAre' /\ disabled' \in Switch /\ disabled' = disabled /\ aborted' \in BOOLEAN
      /\ passedOver' \in BOOLEAN /\ manager' = manager
  BY DEF RInv, Alone, OthersSame
<1>3. \A j \in Heads \ {h} : Same(j)
  BY DEF Alone, OthersSame
<1>4. ASSUME NEW j \in Heads
      PROVE  /\ PlaceIs(j)' /\ ChainsAre(j)'
             /\ KnownTo(j)' \subseteq KnownTo(j) /\ Keeps(j)' \subseteq Keeps(j)
             /\ Still(j) => Still(j)'
             /\ DOMAIN toMove'[j] \subseteq DOMAIN toMove[j]
             /\ running'[j] = running[j] \/ MayStop(j)
             /\ SameTrips(j)
  <2>1. CASE j = h
    <3>1. Still(h) => Still(h)'
      BY DEF Alone, NoMore, Still, Share, ShareStart, ShareSize, PerHead, Larger
    <3> QED
      BY <1>1, <2>1, <3>1 DEF NoMore, SameTrips, SameCalls
  <2>2. CASE j # h
    <3>1. Same(j) /\ PlaceIs(j) /\ ChainsAre(j)
      BY <1>3, <2>2 DEF RInv
    <3> QED
      BY <1>1, <1>2, <3>1, SameKeeps DEF Same, SameTrips, SameCalls
  <2> QED
    BY <2>1, <2>2
<1>5. KeptOnce'
  <2>1. \A i, j \in Heads : i # j => Keeps(i)' \intersect Keeps(j)' = {}
    BY <1>4 DEF RInv, KeptOnce
  <2>2. \A i, j \in Heads : Live(i)' \intersect Keeps(j)' = {}
    BY <1>1, <1>4 DEF RInv, KeptOnce, SameCalls
  <2> QED
    BY <2>1, <2>2 DEF KeptOnce
<1>6. ~manager'.requested => Quiet'
  <2>1. ASSUME ~manager.requested
        PROVE  Quiet'
    <3>1. Quiet
      BY <2>1 DEF RInv
    <3>2. ASSUME NEW j \in Heads
          PROVE  Still(j)' /\ Content(j)' = {} /\ ~inProgress'[j] /\ ~sendProgress'[j]
      BY <1>1, <1>4, <3>1 DEF Quiet, Alone, SameCalls
    <3> QED
      BY <1>2, <3>1, <3>2 DEF Quiet, Alone
  <2> QED
    BY <1>2, <2>1
<1>7. manager'.required => Asking'
  <2>1. ASSUME manager.required
        PROVE  Asking'
    <3>1. Asking
      BY <2>1 DEF RInv
    <3>2. ReportsAt(0)' = ReportsAt(0) /\ 0 \in Heads
      BY <1>1, Numbers DEF SameCalls, Heads
    <3>3. ASSUME NEW j \in Heads
          PROVE  AskedIs(j)'
      <4>1. AskedIs(j)
        BY <3>1 DEF Asking
      <4>2. ReportedBy(j)' = ReportedBy(j)
        BY <1>2, <3>2 DEF ReportedBy
      <4>3. /\ sendProgress'[j] = sendProgress[j] /\ inProgress'[j] = inProgress[j]
            /\ Content(j)' = Content(j)
        BY <1>1 DEF Alone, SameCalls
      <4>4. ReportedBy(j) => running'[j]
        BY <1>4, <4>1 DEF AskedIs, MayStop
      <4> QED
        BY <1>4, <4>1, <4>2, <4>3, <4>4 DEF AskedIs
    <3>4. passedOver' = passedOver
      BY DEF Alone
    <3> QED
      BY <1>2, <3>1, <3>2, <3>3, <3>4 DEF Asking, Report, Share, ShareStart, ShareSize,
        PerHead, Larger
  <2> QED
    BY <1>2, <2>1
<1>8. manager'.requested /\ ~manager'.required => Moved'
  <2>1. ASSUME manager.requested, ~manager.required
        PROVE  Moved'
    <3>1. Moved
      BY <2>1 DEF RInv
    <3>2. Trips' = Trips
      BY <1>4, SameTripsAt, AllTrips
    <3>3. ASSUME NEW j \in Heads
          PROVE  MovedIs(j)'
      <4>1. MovedIs(j) /\ SameCalls(j)
        BY <1>1, <3>1 DEF Moved
      <4>2. Coming(j)' = Coming(j)
        BY <3>2 DEF Coming
      <4>3. /\ sendProgress'[j] = sendProgress[j] /\ inProgress'[j] = inProgress[j]
            /\ toGet'[j] = toGet[j] /\ passedOver' = passedOver
        BY DEF Alone
      <4>4. Counted(j)'
        BY <4>1, <4>2, <4>3 DEF Counted, MovedIs, SameCalls
      <4>5. (\E i \in Heads \ {j} : \E k \in DOMAIN channel'[i][j] : IsMove(channel'[i][j][k][2]))
              => Announcements(j)' # {}
        BY <4>1 DEF Alone, comm, MovedIs, SameCalls, IsMove
      <4>6. ~running'[j] => toGet'[j] = 0 /\ \A c \in Content(j)' : ~IsMove(c)
        <5>1. CASE running'[j] = running[j]
          BY <4>1, <4>3, <5>1 DEF MovedIs, SameCalls
        <5>2. CASE MayStop(j)
          BY <2>1, <4>1, <4>3, <5>2, StopsIdle DEF SameCalls
        <5> QED
          BY <1>4, <5>1, <5>2
      <4>7. /\ ~sendProgress'[j]
            /\ \A c \in Content(j)' : IsMove(c) \/ c.fn = "recieve_markov_chain"
            /\ Coming(j)' \subseteq Ids /\ Coming(j)' \intersect KnownTo(j)' = {}
            /\ \A c \in OrdersAt(j)' : c.n \in Ids \ DOMAIN toMove'[j]
        BY <1>4, <4>1, <4>2, <4>3 DEF MovedIs, SameCalls
      <4> QED
        BY <4>4, <4>5, <4>6, <4>7 DEF MovedIs, IsMove
    <3> QED
      BY <1>2, <3>1, <3>2, <3>3 DEF Moved, OneTrip
  <2> QED
    BY <1>2, <2>1
<1>9. \A j \in Heads : PlaceIs(j)' /\ ChainsAre(j)'
  BY <1>4
<1>10. /\ manager'.required \in BOOLEAN /\ manager'.requested \in BOOLEAN
       /\ (manager'.required => manager'.requested) /\ (disabled' => ~manager'.requested)
  BY <1>2 DEF RInv
<1> QED
  BY <1>1, <1>2, <1>5, <1>6, <1>7, <1>8, <1>9, <1>10 DEF RInv

-----------------------------------------------------------------------------
(* The chains of a head that moves may have come to and gone from          *)

(* Between two passes no object is at its target length, and of each there  *)
(* is one entry; there may be others, of chains that were moved away.       *)
OnlyEntry(h, id) ==
  {e \in Entries(h) : e[2] = id} = {EntryOf(Objects(h), id)}

LEMMA ObjectsAt ==
  ASSUME NEW h \in Heads, PlaceIs(h), ChainsAre(h), pc[h] = "begin"
  PROVE  /\ DOMAIN Objects(h) = DOMAIN mh[h] \union Added(h)
         /\ Objects(h) \in [DOMAIN Objects(h) -> Records]
         /\ \A id \in DOMAIN Objects(h) : OnlyEntry(h, id)
         /\ Entries(h) \subseteq (1 .. TargetLength) \X Ids /\ IsFiniteSet(Entries(h))
         /\ DOMAIN Objects(h) \subseteq Ids /\ moving[h] = NoId /\ running[h]
<1>1. moving[h] = NoId /\ moving[h] \notin Ids /\ running[h]
  BY DEF PlaceIs, MovePcs, NoId, Ids
<1>2. Added(h) \subseteq DOMAIN mcChainsToAdd[h] /\ Added(h) \subseteq Ids
  BY DEF Added, ChainsAre, KnownTo
<1>3. /\ DOMAIN Objects(h) = DOMAIN mh[h] \union Added(h)
      /\ \A x \in DOMAIN mh[h] : Objects(h)[x] = mh[h][x]
      /\ \A x \in Added(h) : x \notin DOMAIN mh[h] /\ Objects(h)[x] = Object(mcChainsToAdd[h][x])
  BY <1>2 DEF ChainsAre, Objects
<1>4. DOMAIN mh[h] \subseteq Ids
  BY DEF ChainsAre, KnownTo
<1>5. ASSUME NEW x \in DOMAIN mh[h]
      PROVE  mh[h][x] \in Records
  <2>1. mh[h][x] \in Objs /\ mh[h][x].iteration # TargetLength
    BY <1>1, <1>4 DEF ChainsAre
  <2> QED
    BY <2>1, Numbers DEF Objs, Records
<1>6. ASSUME NEW x \in Added(h)
      PROVE  /\ Objects(h)[x] \in Records
             /\ Objects(h)[x].iteration = mcChainsToAdd[h][x]
             /\ mcChainsToAdd[h][x] \in 0 .. TargetLength - 1
  <2> DEFINE it == mcChainsToAdd[h][x]
  <2>1. it \in 0 .. SizeModulus - 1 /\ it < TargetLength
    BY <1>2 DEF ChainsAre, Added
  <2>2. it \in 0 .. TargetLength - 1
    BY <2>1, Numbers, HeadLoopAssumption
  <2>3. Objects(h)[x] = Object(it)
    BY <1>3
  <2> HIDE DEF it
  <2>4. Object(it) \in Records /\ Object(it).iteration = it
    BY <2>2 DEF Object, Records, Stages
  <2> QED
    BY <2>2, <2>3, <2>4 DEF it
<1>7. Objects(h) \in [DOMAIN Objects(h) -> Records]
  <2>1. ASSUME NEW x \in DOMAIN Objects(h)
        PROVE  Objects(h)[x] \in Records
    BY <1>3, <1>5, <1>6
  <2> QED
    BY <2>1 DEF Objects
<1>8. ASSUME NEW x \in DOMAIN Objects(h)
      PROVE  OnlyEntry(h, x)
  <2>1. CASE x \in DOMAIN mh[h]
    <3>1. {e \in workQueue[h] : e[2] = x} = {EntryOf(Objects(h), x)}
      BY <1>1, <1>3, <1>4, <2>1 DEF ChainsAre, ExactFor, EntryOf
    <3>2. x \notin Added(h)
      BY <1>3, <2>1
    <3>3. {e \in Entries(h) : e[2] = x} = {e \in workQueue[h] : e[2] = x}
      BY <3>2 DEF Entries
    <3> QED
      BY <3>1, <3>3 DEF OnlyEntry
  <2>2. CASE x \in Added(h)
    <3>1. x \notin QueuedAt(h)
      BY <1>2, <2>2 DEF ChainsAre
    <3>2. {e \in workQueue[h] : e[2] = x} = {}
      BY <3>1 DEF QueuedAt
    <3>3. {e \in Entries(h) : e[2] = x} = {<<Priority(mcChainsToAdd[h][x]), x>>}
      BY <2>2, <3>2 DEF Entries
    <3> QED
      BY <1>6, <2>2, <3>3 DEF OnlyEntry, EntryOf
  <2> QED
    BY <1>3, <2>1, <2>2
<1>9. Entries(h) \subseteq (1 .. TargetLength) \X Ids
  <2>1. \A x \in Added(h) : <<Priority(mcChainsToAdd[h][x]), x>> \in (1 .. TargetLength) \X Ids
    BY <1>2, <1>6, Numbers DEF Priority
  <2> QED
    BY <2>1 DEF Entries, ChainsAre
<1>10. IsFiniteSet(Entries(h))
  <2>1. IsFiniteSet(1 .. TargetLength) /\ IsFiniteSet(Ids)
    BY Numbers, FS_Interval DEF Ids
  <2>2. IsFiniteSet((1 .. TargetLength) \X Ids)
    BY <2>1, FS_Product
  <2> QED
    BY <1>9, <2>2, FS_Subset
<1> QED
  BY <1>1, <1>2, <1>3, <1>4, <1>7, <1>8, <1>9, <1>10

(* Only entries of chains that are not here are dropped.                    *)
LEMMA PresentAt ==
  ASSUME NEW h \in Heads, PlaceIs(h), ChainsAre(h), pc[h] = "begin", NEW queue \in Present(h)
  PROVE  /\ queue \in Seq(Entries(h)) /\ ToSet(queue) \subseteq Entries(h)
         /\ \A id \in DOMAIN Objects(h) : EntryOf(Objects(h), id) \in ToSet(queue)
         /\ queue = <<>> => DOMAIN Objects(h) = {}
<1> DEFINE First(order) ==
             SelectInSeq(order, LAMBDA e : e[2] \in DOMAIN Objects(h))
           E == Entries(h)
           D == DOMAIN Objects(h)
<1>1. IsFiniteSet(E) /\ \A id \in D : OnlyEntry(h, id)
  BY ObjectsAt
<1>2. PICK order \in PopOrders(E) :
        queue = IF First(order) = 0 THEN <<>>
                ELSE SubSeq(order, First(order), Len(order))
  BY DEF Present
<1>3. /\ Len(order) \in Nat /\ order \in Seq(E) /\ DOMAIN order = 1 .. Len(order)
      /\ \A i \in 1 .. Len(order) : order[i] \in E
      /\ ToSet(order) = E
  BY <1>1, OrderIsWhole
<1> DEFINE n == Len(order)
           I == {i \in 1 .. n : order[i][2] \in D}
<1>4. First(order) = IF I # {} THEN Min(I) ELSE 0
  BY DEF SelectInSeq
<1>5. ASSUME NEW id \in D
      PROVE  EntryOf(Objects(h), id) \in E /\ \E i \in I : order[i] = EntryOf(Objects(h), id)
  <2>1. EntryOf(Objects(h), id) \in E /\ EntryOf(Objects(h), id)[2] = id
    BY <1>1 DEF OnlyEntry, EntryOf
  <2>2. PICK i \in 1 .. n : order[i] = EntryOf(Objects(h), id)
    BY <1>3, <2>1 DEF ToSet
  <2> QED
    BY <2>1, <2>2
<1> HIDE DEF First, E, D, I
<1>6. CASE I = {}
  <2>1. queue = <<>> /\ D = {}
    BY <1>2, <1>4, <1>5, <1>6
  <2>2. <<>> \in Seq(E) /\ ToSet(<<>>) = {}
    BY DEF ToSet
  <2> QED
    BY <2>1, <2>2 DEF E, D
<1>7. CASE I # {}
  <2> DEFINE f == Min(I)
             q == SubSeq(order, f, n)
  <2>1. f \in I /\ \A y \in I : f <= y
    <3>1. I \subseteq Nat /\ I # {}
      BY <1>7 DEF I
    <3>2. \E x \in I : \A y \in I : x <= y
      BY <3>1, LeastOf
    <3> QED
      BY <3>2 DEF Min
  <2>2. f \in 1 .. n /\ f # 0
    BY <2>1 DEF I
  <2>3. queue = q
    BY <1>2, <1>4, <1>7, <2>2
  <2> HIDE DEF f
  <2>4. /\ q \in Seq(E) /\ Len(q) = n - f + 1
        /\ \A i \in 1 .. n - f + 1 : q[i] = order[f + i - 1]
    BY <1>3, <2>2, SubSeqProperties
  <2>5. DOMAIN q = 1 .. n - f + 1 /\ n - f + 1 \in Nat /\ n - f + 1 > 0
    BY <1>3, <2>2, <2>4
  <2> HIDE DEF q
  <2>6. ASSUME NEW i \in I
        PROVE  order[i] \in ToSet(q)
    <3>1. i \in 1 .. n /\ f <= i
      BY <2>1 DEF I
    <3>2. i - f + 1 \in 1 .. n - f + 1 /\ f + (i - f + 1) - 1 = i
      BY <1>3, <2>2, <3>1
    <3>3. q[i - f + 1] = order[i]
      BY <2>4, <3>2
    <3> QED
      BY <2>5, <3>2, <3>3 DEF ToSet
  <2>7. ToSet(q) \subseteq E
    BY <2>4, <2>5 DEF ToSet
  <2>8. q # <<>>
    BY <2>4, <2>5
  <2> QED
    BY <1>5, <2>3, <2>4, <2>6, <2>7, <2>8, Zenon DEF E, D
<1> QED
  BY <1>6, <1>7

(* The entry that is chosen is one of the queue.                            *)
LEMMA ChosenAny ==
  ASSUME NEW h \in Heads, NEW S, NEW queue \in Seq(S), queue # <<>>
  PROVE  Chosen(h, queue) \in DOMAIN queue
<1>1. Len(queue) \in Nat \ {0} /\ DOMAIN queue = 1 .. Len(queue)
  BY EmptySeq
<1> DEFINE Waits(k) == /\ queue[k][2] \in DOMAIN Objects(h)
                       /\ Objects(h)[queue[k][2]].stage = "waiting"
           Free == {k \in 1 .. Len(queue) : ~Waits(k)}
           Good(k) ==
             /\ \A i \in 1 .. k - 1 :
                  /\ queue[i][2] \in DOMAIN Objects(h)
                  /\ Objects(h)[queue[i][2]].stage = "waiting"
             /\ \/ k = Len(queue)
                \/ queue[k][2] \notin DOMAIN Objects(h)
                \/ Objects(h)[queue[k][2]].stage # "waiting"
<1>2. \E k \in DOMAIN queue : Good(k)
  <2>1. CASE Free = {}
    <3>1. \A i \in 1 .. Len(queue) : Waits(i)
      BY <2>1
    <3>2. \A i \in 1 .. Len(queue) - 1 : i \in 1 .. Len(queue)
      BY <1>1
    <3>3. Len(queue) \in DOMAIN queue
      BY <1>1
    <3>4. Good(Len(queue))
      BY <1>1, <3>1, <3>2
    <3> QED
      BY <3>3, <3>4
  <2>2. CASE Free # {}
    <3>1. Free \subseteq Nat
      OBVIOUS
    <3>2. PICK m \in Free : \A k \in Free : m <= k
      <4> HIDE DEF Free
      <4> QED
        BY <2>2, <3>1, LeastOf
    <3>3. m \in 1 .. Len(queue) /\ ~Waits(m)
      BY <3>2
    <3>4. ASSUME NEW i \in 1 .. m - 1
          PROVE  Waits(i)
      <4>1. i \in 1 .. Len(queue) /\ ~(m <= i)
        BY <1>1, <3>3
      <4>2. i \notin Free
        BY <3>2, <4>1
      <4> QED
        BY <4>1, <4>2
    <3> QED
      BY <1>1, <3>3, <3>4
  <2> QED
    BY <2>1, <2>2
<1> HIDE DEF Good
<1>3. Chosen(h, queue) = CHOOSE k \in DOMAIN queue : Good(k)
  BY DEF Chosen, Good
<1> QED
  BY <1>2, <1>3

(* A call takes an object one stage on.                                     *)
LEMMA CalledAt ==
  ASSUME NEW m \in Records, NEW last \in BOOLEAN
  PROVE  /\ Called(m, last) \in Objs
         /\ Called(m, last).iteration = TargetLength =>
              Called(m, last).stage \in {"idle", "ended"}
<1>1. /\ m.iteration \in 0 .. TargetLength - 1 /\ m.stage \in Stages
      /\ m.fresh \in BOOLEAN /\ m \in Objs
  BY Numbers DEF Records, Objs
<1>2. CASE m.stage = "idle"
  <2> DEFINE st == IF m.fresh THEN "started" ELSE "waiting"
             n == [m EXCEPT !.stage = st]
  <2>1. st \in Stages
    BY DEF Stages
  <2> HIDE DEF st
  <2>2. n \in Objs /\ n.iteration = m.iteration
    BY <1>1, <2>1 DEF Objs
  <2>3. Called(m, last) = n
    BY <1>2 DEF Called, st
  <2> HIDE DEF n
  <2> QED
    BY <1>1, <2>2, <2>3, Numbers
<1>3. CASE m.stage = "waiting"
  BY <1>1, <1>3, Numbers DEF Called
<1>4. CASE m.stage \notin {"idle", "waiting"}
  <2> DEFINE it == m.iteration + 1
             st == IF last THEN "ended" ELSE "idle"
             n == [iteration |-> it, stage |-> st, fresh |-> FALSE]
  <2>1. Called(m, last) = n
    BY <1>4 DEF Called, Finish
  <2>2. it \in 0 .. TargetLength
    BY <1>1, Numbers
  <2>3. st \in Stages /\ st \in {"idle", "ended"}
    BY DEF Stages
  <2> HIDE DEF it, st
  <2>4. n \in Objs /\ n.stage \in {"idle", "ended"}
    BY <2>2, <2>3 DEF Objs
  <2> HIDE DEF n
  <2> QED
    BY <2>1, <2>4
<1> QED
  BY <1>2, <1>3, <1>4

(* Results that arrive change only what the objects wait for.               *)
LEMMA AnswersAt ==
  ASSUME NEW D, NEW m \in [D -> Objs], NEW o \in AfterAnswers(m)
  PROVE  /\ o \in [D -> Objs]
         /\ \A id \in D : /\ o[id].iteration = m[id].iteration
                          /\ o[id].stage = m[id].stage \/ m[id].stage = "waiting"
<1> DEFINE waiting == {id \in DOMAIN m : m[id].stage = "waiting"}
<1>1. PICK late \in SUBSET (waiting \cap SlowChains) :
        o = [id \in DOMAIN m |->
               IF id \in waiting \ late THEN [m[id] EXCEPT !.stage = "answered"]
               ELSE m[id]]
  BY DEF AfterAnswers
<1>2. DOMAIN o = D /\ DOMAIN m = D
  BY <1>1
<1>3. ASSUME NEW id \in D
      PROVE  /\ o[id] \in Objs /\ o[id].iteration = m[id].iteration
             /\ o[id].stage = m[id].stage \/ m[id].stage = "waiting"
  <2>1. m[id] \in Objs
    OBVIOUS
  <2> DEFINE r == m[id]
             n == [r EXCEPT !.stage = "answered"]
  <2>2. n \in Objs /\ n.iteration = r.iteration
    <3>1. r \in Objs
      BY <2>1
    <3> HIDE DEF r
    <3> QED
      BY <3>1 DEF Objs, Stages
  <2>3. o[id] = r \/ (o[id] = n /\ r.stage = "waiting")
    BY <1>1, <1>2
  <2> HIDE DEF n
  <2> QED
    BY <2>1, <2>2, <2>3
<1>4. o \in [D -> Objs]
  BY <1>1, <1>2, <1>3
<1> QED
  BY <1>3, <1>4

-----------------------------------------------------------------------------
(* The steps of a head that calls nobody                                   *)

(* The parts of the invariant.                                              *)
LEMMA InvParts ==
  ASSUME RInv, NEW h \in Heads
  PROVE  /\ PlaceIs(h) /\ ChainsAre(h) /\ FunctionsAre /\ CallsAre
         /\ aborted \in BOOLEAN /\ disabled \in Switch
BY DEF RInv

(* A head without a chain to run takes up those that were added, and may    *)
(* stop.                                                                    *)
LEMMA NothingToRunMoves ==
  ASSUME RInv, NEW h \in Heads, NothingToRun(h)
  PROVE  RInv'
<1>1. /\ PlaceIs(h) /\ ChainsAre(h) /\ FunctionsAre /\ aborted \in BOOLEAN
      /\ pc[h] = "begin" /\ <<>> \in Present(h)
  BY InvParts DEF NothingToRun
<1>2. /\ DOMAIN Objects(h) = {} /\ moving[h] = NoId /\ running[h]
      /\ DOMAIN mh[h] = {} /\ Added(h) = {}
      /\ Objects(h) \in [DOMAIN Objects(h) -> Records]
  BY <1>1, PresentAt, ObjectsAt
<1>3. /\ pc'[h] = "work" /\ mcChainsToAdd'[h] = <<>> /\ mh'[h] = Objects(h)
      /\ workQueue'[h] = {} /\ finished'[h] = finished[h] /\ iteration'[h] = 0
      /\ running'[h] = ~MayStop(h)
      /\ toMove' = toMove /\ moving' = moving /\ toGet' = toGet
      /\ inProgress' = inProgress /\ sendProgress' = sendProgress
  BY <1>1 DEF NothingToRun, Goto, FunctionsAre, moves
<1>4. Alone(h)
  BY <1>1 DEF NothingToRun, Goto, FunctionsAre, Alone, OthersSame, Same, moves
<1>5. DOMAIN mcChainsToAdd'[h] = {} /\ DOMAIN mh'[h] = {}
  BY <1>2, <1>3
<1>6. KnownTo(h)' \subseteq KnownTo(h) /\ Keeps(h)' \subseteq Keeps(h)
  <2>1. QueuedAt(h)' = {} /\ Added(h)' = {}
    BY <1>3, <1>5 DEF QueuedAt, Added
  <2> QED
    BY <1>3, <1>5, <2>1 DEF KnownTo, Keeps
<1>7. NoMore(h)
  <2>1. LeftAt(h)' = LeftAt(h)
    BY <1>1, <1>3 DEF LeftAt, Left
  <2> QED
    BY <1>2, <1>3, <1>6, <2>1 DEF NoMore, MayStop
<1>8. PlaceIs(h)'
  <2>1. ~running'[h] => DOMAIN toMove'[h] = {}
    BY <1>3 DEF MayStop
  <2>2. 0 \in 0 .. TargetLength /\ running'[h] \in BOOLEAN
    BY <1>3, Numbers
  <2>3. /\ toGet[h] \in Int /\ inProgress[h] \in BOOLEAN /\ sendProgress[h] \in BOOLEAN
    BY <1>1 DEF PlaceIs
  <2> QED
    BY <1>2, <1>3, <1>5, <2>1, <2>2, <2>3 DEF PlaceIs, Pcs, MovePcs
<1>9. ChainsAre(h)'
  <2>1. mh'[h] \in [DOMAIN mh'[h] -> Objs]
    BY <1>2, <1>3, <1>5
  <2>2. mcChainsToAdd'[h] \in [DOMAIN mcChainsToAdd'[h] -> 0 .. SizeModulus - 1]
    BY <1>3
  <2>3. KnownTo(h)' \subseteq Ids
    BY <1>1, <1>6 DEF ChainsAre
  <2>4. toMove[h] \in [DOMAIN toMove[h] -> Heads \ {h}] /\ DOMAIN toMove[h] \subseteq Ids
    BY <1>1 DEF ChainsAre
  <2> QED
    BY <1>3, <1>5, <2>1, <2>2, <2>3, <2>4 DEF ChainsAre
<1> QED
  BY <1>4, <1>7, <1>8, <1>9, AloneKeeps

(* What is left of the objects when one was called, and the queue then.     *)
IsCalled(called, O, id, m) == called = [O EXCEPT ![id] = m]
IsLeft(left, called, id, m) ==
  left = IF IsDone(m) THEN Restrict(called, DOMAIN called \ {id}) ELSE called

CallsOne(D, O, id, m, called, left, o) ==
  /\ O \in [D -> Records] /\ id \in D /\ m \in Objs
  /\ IsCalled(called, O, id, m) /\ IsLeft(left, called, id, m)
  /\ o \in AfterAnswers(left)
OneCalled(D, O, id, m, o) ==
  /\ o \in [DOMAIN o -> Objs]
  /\ DOMAIN o = IF IsDone(m) THEN D \ {id} ELSE D
  /\ \A x \in DOMAIN o : /\ o[x].iteration # TargetLength
                         /\ o[x].iteration = IF x = id THEN m.iteration
                                             ELSE O[x].iteration
  /\ IsDone(m) <=> m.iteration = TargetLength

LEMMA CalledOne ==
  ASSUME NEW D, NEW O, NEW id, NEW m, NEW called, NEW left, NEW o,
         CallsOne(D, O, id, m, called, left, o)
  PROVE  OneCalled(D, O, id, m, o)
<1> USE DEF CallsOne, OneCalled
<1>1. \A x \in D : O[x] \in Objs /\ O[x].iteration # TargetLength
  <2>1. \A r \in Records : r \in Objs /\ r.iteration # TargetLength
    BY Numbers DEF Records, Objs
  <2> QED
    BY <2>1
<1>2. IsDone(m) <=> m.iteration = TargetLength
  BY Numbers DEF IsDone, Priority, Objs
<1> DEFINE E == IF IsDone(m) THEN D \ {id} ELSE D
<1>3. DOMAIN called = D /\ called[id] = m /\ \A x \in D \ {id} : called[x] = O[x]
  BY DEF IsCalled
<1>4. /\ left \in [E -> Objs]
      /\ \A x \in E : left[x] = called[x]
  <2>1. CASE IsDone(m)
    <3>1. left = [x \in E |-> called[x]]
      BY <1>3, <2>1 DEF Restrict, IsLeft
    <3>2. \A x \in E : called[x] \in Objs
      BY <1>1, <1>3, <2>1
    <3> HIDE DEF E
    <3> QED
      BY <3>1, <3>2
  <2>2. CASE ~IsDone(m)
    <3>1. \A x \in D : called[x] \in Objs
      BY <1>1, <1>3
    <3>2. called = [x \in D |-> called[x]]
      BY DEF IsCalled
    <3>3. called \in [D -> Objs]
      BY <3>1, <3>2
    <3> QED
      BY <2>2, <3>3 DEF IsLeft
  <2> QED
    BY <2>1, <2>2
<1> HIDE DEF E
<1>5. o \in [E -> Objs] /\ \A x \in E : o[x].iteration = left[x].iteration
  BY <1>4, AnswersAt
<1>6. DOMAIN o = E
  BY <1>5
<1>7. ASSUME NEW x \in E
      PROVE  /\ o[x].iteration # TargetLength
             /\ o[x].iteration = IF x = id THEN m.iteration ELSE O[x].iteration
  <2>1. x \in D /\ (x = id => ~IsDone(m))
    BY DEF E
  <2> QED
    BY <1>1, <1>2, <1>3, <1>4, <1>5, <2>1
<1> QED
  BY <1>2, <1>5, <1>6, <1>7 DEF E

(* A chain runs for one call and is queued again unless it is done.         *)
LEMMA RunChainMoves ==
  ASSUME RInv, NEW h \in Heads, RunChain(h)
  PROVE  RInv'
<1>1. /\ PlaceIs(h) /\ ChainsAre(h) /\ FunctionsAre /\ aborted \in BOOLEAN
      /\ pc[h] = "begin"
  BY InvParts DEF RunChain
<1> DEFINE O == Objects(h)
           D == DOMAIN O
<1>2. /\ O \in [D -> Records] /\ D = DOMAIN mh[h] \union Added(h)
      /\ \A x \in D : OnlyEntry(h, x)
      /\ Entries(h) \subseteq (1 .. TargetLength) \X Ids
      /\ D \subseteq Ids /\ moving[h] = NoId /\ running[h]
  BY <1>1, ObjectsAt
<1>3. PICK queue \in Present(h) \ {<<>>} :
        LET chosen == queue[Chosen(h, queue)]
            id == chosen[2]
            m == Called(O[id], chosen[1] = 1)
            called == [O EXCEPT ![id] = m]
            left == IF IsDone(m) THEN Restrict(called, DOMAIN called \ {id}) ELSE called
        IN  /\ id \in D
            /\ \E objects \in AfterAnswers(left) : mh' = [mh EXCEPT ![h] = objects]
            /\ iteration' = [iteration EXCEPT ![h] = m.iteration]
            /\ workQueue' = [workQueue EXCEPT
                 ![h] = PutBack(h, queue) \union
                          (IF IsDone(m) THEN {} ELSE {<<Priority(m.iteration), id>>})]
            /\ finished' = [finished EXCEPT
                 ![h] = @ \union (IF IsDone(m) THEN {id} ELSE {})]
  BY Zenon DEF RunChain
<1> DEFINE chosen == queue[Chosen(h, queue)]
           id == chosen[2]
           m == Called(O[id], chosen[1] = 1)
           called == [O EXCEPT ![id] = m]
           left == IF IsDone(m) THEN Restrict(called, DOMAIN called \ {id}) ELSE called
           back == PutBack(h, queue) \union
                     (IF IsDone(m) THEN {} ELSE {<<Priority(m.iteration), id>>})
<1>4. /\ queue \in Seq(Entries(h)) /\ ToSet(queue) \subseteq Entries(h) /\ queue # <<>>
      /\ \A x \in D : EntryOf(O, x) \in ToSet(queue)
  BY <1>1, PresentAt
<1>5. chosen \in ToSet(queue)
  BY <1>4, ChosenAny DEF ToSet
<1>6. id \in D
  BY <1>3
<1>7. PICK objects \in AfterAnswers(left) : mh' = [mh EXCEPT ![h] = objects]
  BY <1>3, Zenon
<1>8. /\ iteration' = [iteration EXCEPT ![h] = m.iteration]
      /\ workQueue' = [workQueue EXCEPT ![h] = back]
      /\ finished' = [finished EXCEPT ![h] = @ \union (IF IsDone(m) THEN {id} ELSE {})]
  BY <1>3, Zenon
<1>9. /\ mcChainsToAdd' = [mcChainsToAdd EXCEPT ![h] = <<>>]
      /\ pc' = [pc EXCEPT ![h] = "work"]
      /\ UNCHANGED <<disabled, aborted, running, moves, manager, comm>>
  BY DEF RunChain, Goto
<1>10. back = (ToSet(queue) \ {chosen}) \union
                (IF IsDone(m) THEN {} ELSE {<<Priority(m.iteration), id>>})
  BY DEF PutBack
<1> HIDE DEF O, chosen, id, back
<1>11. m \in Objs
  <2>1. O[id] \in Records /\ (chosen[1] = 1) \in BOOLEAN
    BY <1>2, <1>6
  <2> HIDE DEF D
  <2> QED
    BY <2>1, CalledAt
<1> HIDE DEF m
<1> DEFINE done == IsDone(m)
<1>12. /\ objects \in [DOMAIN objects -> Objs]
       /\ DOMAIN objects = IF done THEN D \ {id} ELSE D
       /\ \A x \in DOMAIN objects : /\ objects[x].iteration # TargetLength
                                    /\ objects[x].iteration = IF x = id THEN m.iteration
                                                              ELSE O[x].iteration
       /\ done <=> m.iteration = TargetLength
  <2>1. IsCalled(called, O, id, m) /\ IsLeft(left, called, id, m)
    BY Zenon DEF IsCalled, IsLeft
  <2> HIDE DEF D, called, left
  <2>2. O \in [D -> Records] /\ id \in D /\ objects \in AfterAnswers(left)
    BY <1>2, <1>6, <1>7
  <2>3. CallsOne(D, O, id, m, called, left, objects)
    BY <1>11, <2>1, <2>2, Zenon DEF CallsOne
  <2>4. OneCalled(D, O, id, m, objects)
    BY <2>3, CalledOne, Zenon
  <2> QED
    BY <2>4, Zenon DEF OneCalled
<1> HIDE DEF left, called, done
<1> DEFINE F == DOMAIN objects
<1>13. /\ mh'[h] = objects /\ iteration'[h] = m.iteration /\ workQueue'[h] = back
       /\ finished'[h] = finished[h] \union (IF done THEN {id} ELSE {})
       /\ mcChainsToAdd'[h] = <<>> /\ pc'[h] = "work"
       /\ toMove' = toMove /\ moving' = moving /\ toGet' = toGet /\ running' = running
       /\ inProgress' = inProgress /\ sendProgress' = sendProgress
  BY <1>1, <1>7, <1>8, <1>9 DEF FunctionsAre, moves, done
<1>14. Alone(h)
  BY <1>1, <1>7, <1>8, <1>9 DEF FunctionsAre, Alone, OthersSame, Same, moves
<1> HIDE DEF D, F
<1>15. /\ back = (ToSet(queue) \ {chosen}) \union
                   (IF done THEN {} ELSE {<<Priority(m.iteration), id>>})
       /\ F \subseteq D /\ id \in D /\ (done => id \notin F) /\ (~done => F = D)
       /\ F = (IF done THEN D \ {id} ELSE D)
  BY <1>6, <1>10, <1>12 DEF done, F
<1>16. chosen = EntryOf(O, id) /\ \A e \in Entries(h) : e[2] = id => e = chosen
  <2>1. chosen \in Entries(h) /\ chosen[2] = id
    BY <1>4, <1>5 DEF id
  <2> QED
    BY <1>2, <1>6, <2>1 DEF OnlyEntry, O
<1>17. {e[2] : e \in back} \subseteq QueuedAt(h) \union Added(h) \union {id}
  <2>1. \A e \in Entries(h) : e[2] \in QueuedAt(h) \union Added(h)
    BY DEF Entries, QueuedAt
  <2> QED
    BY <1>4, <1>15, <2>1
<1>18. D \subseteq KnownTo(h) /\ D \subseteq Keeps(h) /\ Added(h) \subseteq KnownTo(h)
  BY <1>2 DEF KnownTo, Keeps, Added
<1>19. DOMAIN mcChainsToAdd'[h] = {} /\ DOMAIN mh'[h] = F /\ Added(h)' = {}
  BY <1>13 DEF F, Added
<1>20. KnownTo(h)' \subseteq KnownTo(h) /\ Keeps(h)' \subseteq Keeps(h)
  <2>1. QueuedAt(h)' = {e[2] : e \in back}
    BY <1>13 DEF QueuedAt
  <2>2. QueuedAt(h) \subseteq KnownTo(h) /\ finished[h] \subseteq KnownTo(h)
        /\ finished[h] \subseteq Keeps(h)
    BY DEF KnownTo, Keeps
  <2>3. KnownTo(h)' = F \union finished'[h] \union QueuedAt(h)'
    BY <1>19 DEF KnownTo
  <2>4. Keeps(h)' = F \union finished'[h]
    BY <1>19 DEF Keeps
  <2> QED
    BY <1>13, <1>15, <1>17, <1>18, <2>1, <2>2, <2>3, <2>4
<1>21. NoMore(h)
  <2>1. LeftAt(h)' = LeftAt(h)
    BY <1>1, <1>13 DEF LeftAt, Left
  <2> QED
    BY <1>2, <1>13, <1>20, <2>1 DEF NoMore
<1>22. PlaceIs(h)'
  <2>1. m.iteration \in 0 .. TargetLength
    BY <1>11 DEF Objs
  <2> QED
    BY <1>1, <1>2, <1>13, <2>1 DEF PlaceIs, Pcs, MovePcs
<1>23. ChainsAre(h)'
  <2>1. mh'[h] \in [DOMAIN mh'[h] -> Objs]
    BY <1>12, <1>13
  <2>2. \A x \in DOMAIN mh'[h] : mh'[h][x].iteration # TargetLength
    BY <1>12, <1>13
  <2>3. workQueue'[h] \subseteq (1 .. TargetLength) \X Ids
    <3>1. ToSet(queue) \subseteq (1 .. TargetLength) \X Ids
      BY <1>2, <1>4
    <3>2. ~done => <<Priority(m.iteration), id>> \in (1 .. TargetLength) \X Ids
      <4>1. m.iteration \in 0 .. TargetLength /\ (~done => m.iteration # TargetLength)
        BY <1>11, <1>12 DEF Objs
      <4>2. ~done => Priority(m.iteration) \in 1 .. TargetLength
        BY <4>1, Numbers DEF Priority
      <4> QED
        BY <1>2, <1>6, <4>2
    <3> QED
      BY <1>13, <1>15, <3>1, <3>2
  <2>4. KnownTo(h)' \subseteq Ids
    BY <1>1, <1>20 DEF ChainsAre
  <2>5. ASSUME NEW x \in F
        PROVE  {e \in back : e[2] = x} = {<<Priority(objects[x].iteration), x>>}
    <3>1. CASE x = id
      <4>1. ~done /\ objects[x].iteration = m.iteration
        BY <1>12, <1>15, <2>5, <3>1 DEF F
      <4>2. {e \in ToSet(queue) \ {chosen} : e[2] = x} = {}
        BY <1>4, <1>16, <3>1
      <4> QED
        BY <1>15, <3>1, <4>1, <4>2
    <3>2. CASE x # id
      <4>1. objects[x].iteration = O[x].iteration /\ x \in D
        BY <1>12, <1>15, <2>5, <3>2 DEF F
      <4>2. {e \in Entries(h) : e[2] = x} = {EntryOf(O, x)}
        BY <1>2, <4>1 DEF OnlyEntry, O
      <4>3. EntryOf(O, x) \in ToSet(queue) /\ EntryOf(O, x)[2] = x
        BY <1>4, <4>1 DEF EntryOf
      <4>4. EntryOf(O, x) # chosen
        BY <1>16, <3>2, <4>3 DEF EntryOf
      <4>5. {e \in back : e[2] = x} = {EntryOf(O, x)}
        BY <1>4, <1>15, <3>2, <4>2, <4>3, <4>4
      <4> QED
        BY <4>1, <4>5 DEF EntryOf
    <3> QED
      BY <3>1, <3>2
  <2>6. \A x \in DOMAIN mh'[h] : ExactFor(h, x)'
    BY <1>13, <1>19, <2>5 DEF ExactFor, Priority
  <2>7. F \intersect finished'[h] = {}
    <3>1. D \intersect finished[h] = {}
      BY <1>1, <1>2 DEF ChainsAre, Added
    <3> QED
      BY <1>13, <1>15, <3>1
  <2>8. toMove'[h] \in [DOMAIN toMove'[h] -> Heads \ {h}] /\ DOMAIN toMove'[h] \subseteq Ids
    BY <1>1, <1>13 DEF ChainsAre
  <2>9. mcChainsToAdd'[h] \in [DOMAIN mcChainsToAdd'[h] -> 0 .. SizeModulus - 1]
    BY <1>13
  <2> QED
    BY <1>19, <2>1, <2>2, <2>3, <2>4, <2>6, <2>7, <2>8, <2>9 DEF ChainsAre
<1> QED
  BY <1>14, <1>21, <1>22, <1>23, AloneKeeps

(* What do_work of the group of heads has to keep of the head.              *)
WorkKeeps(h) ==
  /\ moving' = moving /\ running' = running /\ mh' = mh
  /\ ~running[h] => DOMAIN mcChainsToAdd'[h] = {} /\ DOMAIN toMove'[h] = {}
  /\ DOMAIN toMove[h] \subseteq DOMAIN toMove'[h]
  /\ toGet'[h] \in Int /\ inProgress'[h] \in BOOLEAN /\ sendProgress'[h] \in BOOLEAN

(* What the end of do_work leaves of the place of a head.                   *)
LEMMA Worked ==
  ASSUME NEW h \in Heads, PlaceIs(h), ChainsAre(h), FunctionsAre, InDoWork(h), AfterWork(h), WorkKeeps(h)
  PROVE  /\ PlaceIs(h)'
         /\ \A id \in Ids : Left(h, id)' = Left(h, id)
         /\ pc[h] = "work while moving" => pc'[h] = "move"
         /\ DOMAIN pc' = Heads /\ DOMAIN iteration' = Heads
         /\ \A j \in Heads \ {h} : pc'[j] = pc[j] /\ iteration'[j] = iteration[j]
<1>1. /\ DOMAIN pc' = Heads /\ DOMAIN iteration' = Heads
      /\ \A j \in Heads \ {h} : pc'[j] = pc[j] /\ iteration'[j] = iteration[j]
      /\ iteration'[h] = IF pc[h] = "last work" THEN 0 ELSE iteration[h]
  BY DEF AfterWork, Goto, FunctionsAre
<1>2. pc'[h] = CASE pc[h] = "work" ->
                      IF DOMAIN toMove'[h] = {} THEN AfterMoves(h)' ELSE "next move"
                 [] pc[h] = "work while moving" -> "move"
                 [] pc[h] = "last work" -> IF running[h] THEN "begin" ELSE "drain"
                 [] OTHER -> pc[h]
  BY DEF AfterWork, Goto, FunctionsAre
<1>3. pc[h] \in {"work", "work while moving", "last work", "drain"}
  BY DEF InDoWork
<1>4. /\ pc[h] = "work" => \/ pc'[h] = "next move"
                           \/ pc'[h] = "progress" /\ sendProgress'[h]
                           \/ pc'[h] = "manager" /\ h = 0 /\ (RequestDue' \/ InformationComplete')
                           \/ pc'[h] = "last work"
      /\ pc[h] = "work while moving" => pc'[h] = "move"
      /\ pc[h] = "last work" => \/ pc'[h] = "begin" /\ running[h]
                                \/ pc'[h] = "drain" /\ ~running[h]
      /\ pc[h] = "drain" => pc'[h] = "drain"
  <2>1. CASE pc[h] = "work"
    <3>1. \/ AfterMoves(h)' = "progress" /\ sendProgress'[h]
          \/ AfterMoves(h)' = AfterProgress(h)'
      BY DEF AfterMoves
    <3>2. \/ AfterProgress(h)' = "manager" /\ h = 0 /\ (RequestDue' \/ InformationComplete')
          \/ AfterProgress(h)' = "last work"
      BY DEF AfterProgress
    <3>3. pc'[h] = AfterMoves(h)' \/ pc'[h] = "next move"
      BY <1>2, <2>1
    <3> QED
      BY <2>1, <3>1, <3>2, <3>3
  <2>2. CASE pc[h] = "work while moving"
    <3>1. pc'[h] = "move"
      BY <1>2, <2>2
    <3> QED
      BY <2>2, <3>1
  <2>3. CASE pc[h] = "last work"
    <3>1. pc'[h] = IF running[h] THEN "begin" ELSE "drain"
      BY <1>2, <2>3
    <3> QED
      BY <2>3, <3>1
  <2>4. CASE pc[h] = "drain"
    BY <1>2, <2>4
  <2> QED
    BY <1>3, <2>1, <2>2, <2>3, <2>4
<1>5. /\ pc[h] # "work while moving" => moving[h] = NoId
      /\ moving[h] \in Ids \union {NoId} /\ running[h] \in BOOLEAN
      /\ pc[h] = "drain" => ~running[h]
      /\ ~running[h] => DOMAIN mh[h] = {}
      /\ pc[h] = "work while moving" => moving[h] \in DOMAIN toMove[h]
      /\ NoId \notin Ids /\ DOMAIN mh[h] \subseteq Ids
  <2>1. NoId \notin Ids
    BY DEF NoId, Ids
  <2>2. DOMAIN mh[h] \subseteq Ids
    BY DEF ChainsAre, KnownTo
  <2> QED
    BY <1>3, <2>1, <2>2 DEF PlaceIs, MovePcs
<1>6. iteration'[h] \in 0 .. TargetLength
  <2>1. iteration[h] \in 0 .. TargetLength
    BY DEF PlaceIs
  <2>2. 0 \in 0 .. TargetLength
    BY Numbers
  <2> QED
    BY <1>1, <2>1, <2>2
<1>7. \A id \in Ids : Left(h, id)' = Left(h, id)
  <2>1. CASE pc[h] = "work while moving"
    BY <1>4, <2>1 DEF WorkKeeps, Left
  <2>2. CASE pc[h] # "work while moving"
    <3>1. \A id \in Ids : id > NoId
      BY Numbers DEF Ids, NoId
    <3> QED
      BY <1>5, <2>2, <3>1 DEF WorkKeeps, Left
  <2> QED
    BY <2>1, <2>2
<1>8. PlaceIs(h)'
  <2>1. CASE pc[h] = "work while moving"
    BY <1>3, <1>4, <1>5, <1>6, <2>1 DEF PlaceIs, WorkKeeps, Pcs, MovePcs
  <2>2. CASE pc[h] # "work while moving"
    <3>1. moving'[h] = NoId /\ moving'[h] \notin DOMAIN mh'[h]
      BY <1>5, <2>2 DEF WorkKeeps
    <3>2. pc'[h] \in {"next move", "progress", "manager", "last work", "begin", "drain"}
      BY <1>3, <1>4, <2>2
    <3>3. ~running'[h] => /\ DOMAIN mh'[h] = {} /\ DOMAIN mcChainsToAdd'[h] = {}
                          /\ DOMAIN toMove'[h] = {}
      BY <1>5 DEF WorkKeeps
    <3>4. pc'[h] \in {"drain", "left"} => ~running'[h]
      BY <1>3, <1>4, <1>5, <2>2 DEF WorkKeeps
    <3>5. pc'[h] = "begin" => running'[h]
      BY <1>3, <1>4, <1>5, <2>2 DEF WorkKeeps
    <3>6. pc'[h] = "progress" => sendProgress'[h]
      BY <1>3, <1>4, <2>2
    <3>7. pc'[h] = "manager" => h = 0 /\ (RequestDue' \/ InformationComplete')
      BY <1>3, <1>4, <2>2
    <3>8. running'[h] \in BOOLEAN
      BY <1>5 DEF WorkKeeps
    <3> QED
      BY <1>6, <3>1, <3>2, <3>3, <3>4, <3>5, <3>6, <3>7, <3>8
        DEF PlaceIs, WorkKeeps, Pcs, MovePcs
  <2> QED
    BY <2>1, <2>2
<1> QED
  BY <1>1, <1>4, <1>7, <1>8

(* A head that finds nothing to execute goes on.                            *)
LEMMA NoTaskMoves ==
  ASSUME RInv, NEW h \in Heads, NoTask(h)
  PROVE  RInv'
<1>1. /\ PlaceIs(h) /\ ChainsAre(h) /\ FunctionsAre /\ aborted \in BOOLEAN
      /\ InDoWork(h) /\ AfterWork(h)
  BY InvParts DEF NoTask
<1>2. UNCHANGED <<disabled, aborted, chains, running, moves, manager, comm>>
  BY DEF NoTask
<1>3. WorkKeeps(h)
  BY <1>1, <1>2 DEF WorkKeeps, chains, moves, PlaceIs
<1>4. /\ PlaceIs(h)'
      /\ \A id \in Ids : Left(h, id)' = Left(h, id)
      /\ pc[h] = "work while moving" => pc'[h] = "move"
      /\ DOMAIN pc' = Heads /\ DOMAIN iteration' = Heads
      /\ \A j \in Heads \ {h} : pc'[j] = pc[j] /\ iteration'[j] = iteration[j]
  BY <1>1, <1>3, Worked
<1>5. Alone(h)
  BY <1>1, <1>2, <1>4 DEF Alone, OthersSame, Same, FunctionsAre, chains, moves
<1>6. KnownTo(h)' = KnownTo(h) /\ Keeps(h)' = Keeps(h)
  BY <1>2 DEF KnownTo, Keeps, QueuedAt, Added, chains
<1>7. NoMore(h)
  <2>1. LeftAt(h)' = LeftAt(h)
    BY <1>1, <1>2, <1>4 DEF LeftAt, moves, ChainsAre
  <2> QED
    BY <1>2, <1>6, <2>1 DEF NoMore, moves
<1>8. ChainsAre(h)'
  <2>1. \A id \in DOMAIN mh[h] : mh[h][id].iteration = TargetLength =>
          id = moving[h] /\ pc'[h] \in {"move", "work while moving"}
            /\ mh[h][id].stage \in {"idle", "ended"}
    BY <1>1, <1>4 DEF ChainsAre, InDoWork
  <2>2. \A id \in DOMAIN mh[h] : ExactFor(h, id)' = ExactFor(h, id)
    BY <1>2 DEF ExactFor, Priority, chains
  <2>3. QueuedAt(h)' = QueuedAt(h)
    BY <1>2 DEF QueuedAt, chains
  <2> QED
    BY <1>1, <1>2, <1>6, <2>1, <2>2, <2>3 DEF ChainsAre, chains, moves
<1> QED
  BY <1>5, <1>7, <1>8, <1>4, AloneKeeps

(* A head that has stopped leaves.                                          *)
LEMMA LeaveMoves ==
  ASSUME RInv, NEW h \in Heads, Leave(h)
  PROVE  RInv'
<1>1. /\ PlaceIs(h) /\ ChainsAre(h) /\ FunctionsAre /\ aborted \in BOOLEAN
      /\ pc[h] = "drain" /\ pc'[h] = "left"
  BY InvParts DEF Leave, Goto, FunctionsAre
<1>2. UNCHANGED <<disabled, aborted, chains, iteration, running, moves, manager, comm>>
  BY DEF Leave
<1>3. Alone(h)
  BY <1>1, <1>2 DEF Leave, Goto, Alone, OthersSame, Same, FunctionsAre, chains, moves
<1>4. KnownTo(h)' = KnownTo(h) /\ Keeps(h)' = Keeps(h)
  BY <1>2 DEF KnownTo, Keeps, QueuedAt, Added, chains
<1>5. NoMore(h)
  <2>1. LeftAt(h)' = LeftAt(h)
    BY <1>1, <1>2 DEF LeftAt, Left, moves
  <2> QED
    BY <1>2, <1>4, <2>1 DEF NoMore, moves
<1>6. PlaceIs(h)'
  BY <1>1, <1>2 DEF PlaceIs, Pcs, MovePcs, chains, moves
<1>7. ChainsAre(h)'
  <2>1. \A id \in DOMAIN mh[h] : ExactFor(h, id)' = ExactFor(h, id)
    BY <1>2 DEF ExactFor, Priority, chains
  <2>2. QueuedAt(h)' = QueuedAt(h)
    BY <1>2 DEF QueuedAt, chains
  <2> QED
    BY <1>1, <1>2, <1>4, <2>1, <2>2 DEF ChainsAre, chains, moves
<1> QED
  BY <1>3, <1>5, <1>6, <1>7, AloneKeeps

(* Nothing changes, or only that an assertion has failed.                   *)
LEMMA NothingMoves ==
  ASSUME RInv, aborted' \in BOOLEAN,
         UNCHANGED <<disabled, pc, chains, iteration, running, moves, manager, comm>>
  PROVE  RInv'
<1>1. 0 \in Heads
  BY Numbers DEF Heads
<1>2. \A j \in Heads : Same(j)
  BY DEF Same, chains, moves
<1>3. Alone(0)
  BY <1>2 DEF RInv, Alone, OthersSame, FunctionsAre, chains, moves
<1>4. PlaceIs(0) /\ ChainsAre(0)
  BY <1>1, InvParts
<1>5. /\ PlaceIs(0)' /\ ChainsAre(0)' /\ KnownTo(0)' = KnownTo(0) /\ Keeps(0)' = Keeps(0)
      /\ LeftAt(0)' = LeftAt(0)
  BY <1>1, <1>2, <1>4, SameKeeps
<1>6. NoMore(0)
  BY <1>5 DEF NoMore, moves
<1> QED
  BY <1>1, <1>3, <1>5, <1>6, AloneKeeps

(* The next chain to move, or the end of moving.                            *)
LEMMA NextMoveMoves ==
  ASSUME RInv, NEW h \in Heads, NextMove(h)
  PROVE  RInv'
<1> DEFINE left == {id \in DOMAIN toMove[h] : id > moving[h]}
<1>1. /\ PlaceIs(h) /\ ChainsAre(h) /\ FunctionsAre /\ aborted \in BOOLEAN
      /\ pc[h] = "next move"
  BY InvParts DEF NextMove
<1>2. /\ UNCHANGED <<disabled, aborted, chains, iteration, running, toGet,
                     inProgress, sendProgress, passedOver, manager, comm>>
      /\ \/ /\ left = {} /\ toMove' = [toMove EXCEPT ![h] = <<>>]
            /\ moving' = [moving EXCEPT ![h] = NoId] /\ pc' = [pc EXCEPT ![h] = AfterMoves(h)]
         \/ /\ left # {} /\ moving' = [moving EXCEPT ![h] = Min(left)]
            /\ pc' = [pc EXCEPT ![h] = "move"] /\ toMove' = toMove
  BY DEF NextMove, Goto
<1>3. /\ toMove[h] \in [DOMAIN toMove[h] -> Heads \ {h}] /\ DOMAIN toMove[h] \subseteq Ids
      /\ moving[h] \notin DOMAIN mh[h] /\ DOMAIN mh[h] \subseteq Ids
      /\ moving[h] \in Ids \union {NoId} /\ moving[h] \in Int
  <2>1. Ids \subseteq Int /\ NoId \in Int
    BY DEF Ids, NoId
  <2> QED
    BY <1>1, <2>1 DEF PlaceIs, ChainsAre, KnownTo
<1>4. LeftAt(h) = left
  BY <1>1 DEF LeftAt, Left
<1>5. Alone(h)
  BY <1>1, <1>2 DEF Alone, OthersSame, Same, FunctionsAre, chains
<1>6. KnownTo(h)' = KnownTo(h) /\ Keeps(h)' = Keeps(h)
  BY <1>2 DEF KnownTo, Keeps, QueuedAt, Added, chains
<1>7. /\ moving'[h] \in Ids \union {NoId}
      /\ DOMAIN toMove'[h] \subseteq DOMAIN toMove[h]
      /\ toMove'[h] \in [DOMAIN toMove'[h] -> Heads \ {h}]
      /\ LeftAt(h)' = LeftAt(h) /\ \A id \in LeftAt(h) : toMove'[h][id] = toMove[h][id]
      /\ moving'[h] # NoId => DOMAIN toMove[h] # {} /\ moving'[h] \in DOMAIN toMove'[h]
                              /\ pc'[h] = "move"
      /\ moving'[h] = NoId => pc'[h] = AfterMoves(h)
  <2>1. CASE left = {}
    <3>1. moving'[h] = NoId /\ toMove'[h] = <<>> /\ pc'[h] = AfterMoves(h)
      BY <1>1, <1>2, <2>1 DEF FunctionsAre
    <3>2. DOMAIN toMove'[h] = {} /\ toMove'[h] \in [{} -> Heads \ {h}]
      BY <3>1
    <3>3. LeftAt(h)' = {}
      BY <3>2 DEF LeftAt
    <3> QED
      BY <1>4, <2>1, <3>1, <3>2, <3>3
  <2>2. CASE left # {}
    <3>1. moving'[h] = Min(left) /\ toMove' = toMove /\ pc'[h] = "move"
      BY <1>1, <1>2, <2>2 DEF FunctionsAre
    <3>2. left \subseteq DOMAIN toMove[h] /\ left \subseteq Ids /\ Ids \subseteq Nat
      BY <1>3, Numbers DEF Ids
    <3>3. Min(left) \in left /\ \A y \in left : Min(left) <= y
      <4> HIDE DEF left
      <4>1. \E x \in left : \A y \in left : x <= y
        BY <2>2, <3>2, LeastOf
      <4> QED
        BY <4>1 DEF Min
    <3> DEFINE m == Min(left)
    <3>4. m \in left /\ m \in Nat /\ m > moving[h] /\ \A y \in left : m <= y
      BY <3>2, <3>3
    <3> HIDE DEF m
    <3>5. moving'[h] = m
      BY <3>1 DEF m
    <3>6. LeftAt(h)' = {id \in DOMAIN toMove[h] : id > m \/ id = m}
      BY <3>1, <3>5 DEF LeftAt, Left
    <3>7. ASSUME NEW id \in DOMAIN toMove[h]
          PROVE  (id > m \/ id = m) <=> id > moving[h]
      <4>1. id \in Nat
        BY <1>3, <3>2
      <4>2. id > moving[h] => m <= id
        BY <3>4
      <4> QED
        BY <1>3, <3>4, <4>1, <4>2
    <3>8. LeftAt(h)' = LeftAt(h)
      BY <1>4, <3>6, <3>7
    <3>9. m # NoId /\ m \in Ids /\ m \in DOMAIN toMove[h] /\ DOMAIN toMove[h] # {}
      BY <3>2, <3>4 DEF NoId
    <3> QED
      BY <1>3, <3>1, <3>5, <3>8, <3>9
  <2> QED
    BY <2>1, <2>2
<1> HIDE DEF left
<1>8. NoMore(h)
  BY <1>2, <1>6, <1>7 DEF NoMore
<1>9. PlaceIs(h)'
  <2>1. /\ ~running[h] => /\ DOMAIN mh[h] = {} /\ DOMAIN mcChainsToAdd[h] = {}
                          /\ DOMAIN toMove[h] = {}
        /\ iteration[h] \in 0 .. TargetLength /\ toGet[h] \in Int
        /\ running[h] \in BOOLEAN /\ inProgress[h] \in BOOLEAN /\ sendProgress[h] \in BOOLEAN
    BY <1>1 DEF PlaceIs
  <2>2. /\ iteration' = iteration /\ toGet' = toGet /\ running' = running /\ mh' = mh
        /\ inProgress' = inProgress /\ sendProgress' = sendProgress
        /\ mcChainsToAdd' = mcChainsToAdd
    BY <1>2 DEF chains
  <2>3. ~running'[h] => /\ DOMAIN mh'[h] = {} /\ DOMAIN mcChainsToAdd'[h] = {}
                        /\ DOMAIN toMove'[h] = {}
    BY <1>7, <2>1, <2>2
  <2>4. CASE moving'[h] # NoId
    BY <1>7, <2>1, <2>2, <2>3, <2>4 DEF PlaceIs, Pcs, MovePcs
  <2>5. CASE moving'[h] = NoId
    <3>1. \/ pc'[h] = "progress" /\ sendProgress'[h]
          \/ pc'[h] = "manager" /\ h = 0 /\ (RequestDue \/ InformationComplete)
          \/ pc'[h] = "last work"
      BY <1>7, <2>2, <2>5 DEF AfterMoves, AfterProgress
    <3>2. RequestDue \/ InformationComplete => RequestDue' \/ InformationComplete'
      BY <1>2 DEF RequestDue, InformationComplete
    <3> QED
      BY <2>1, <2>2, <2>3, <2>5, <3>1, <3>2 DEF PlaceIs, Pcs, MovePcs
  <2> QED
    BY <2>4, <2>5
<1>10. ChainsAre(h)'
  <2>1. \A id \in DOMAIN mh[h] : mh[h][id].iteration # TargetLength /\ ExactFor(h, id)
    BY <1>1, <1>3 DEF ChainsAre
  <2>2. \A id \in DOMAIN mh[h] : ExactFor(h, id)' = ExactFor(h, id)
    BY <1>2 DEF ExactFor, Priority, chains
  <2>3. QueuedAt(h)' = QueuedAt(h)
    BY <1>2 DEF QueuedAt, chains
  <2> QED
    BY <1>1, <1>2, <1>3, <1>6, <1>7, <2>1, <2>2, <2>3 DEF ChainsAre, chains
<1> QED
  BY <1>5, <1>8, <1>9, <1>10, AloneKeeps

(* A chain that is moved finishes its iteration.                            *)
LEMMA AdvanceChainMoves ==
  ASSUME RInv, NEW h \in Heads, AdvanceChain(h)
  PROVE  RInv'
<1> DEFINE id == moving[h]
           m == Called(mh[h][id], iteration[h] = TargetLength)
           called == [mh[h] EXCEPT ![id] = m]
           D == DOMAIN mh[h]
<1>1. /\ PlaceIs(h) /\ ChainsAre(h) /\ FunctionsAre /\ aborted \in BOOLEAN
      /\ pc[h] = "move" /\ id \in D \ finished[h] /\ mh[h][id].stage \notin {"idle", "ended"}
  BY InvParts DEF AdvanceChain, MustAdvance
<1>2. PICK objects \in AfterAnswers(called) : mh' = [mh EXCEPT ![h] = objects]
  BY Zenon DEF AdvanceChain
<1>3. /\ iteration' = [iteration EXCEPT ![h] = m.iteration]
      /\ pc' = [pc EXCEPT ![h] = "work while moving"]
      /\ UNCHANGED <<disabled, aborted, mcChainsToAdd, workQueue, finished,
                     running, moves, manager, comm>>
  BY DEF AdvanceChain, Goto
<1>4. /\ mh[h] \in [D -> Objs]
      /\ \A x \in D : mh[h][x].iteration = TargetLength =>
           x = id /\ mh[h][x].stage \in {"idle", "ended"}
  BY <1>1 DEF ChainsAre
<1>5. mh[h][id] \in Records
  <2> DEFINE r == mh[h][id]
  <2>1. r \in Objs /\ r.iteration # TargetLength
    BY <1>1, <1>4
  <2> HIDE DEF r
  <2>2. r \in Records
    BY <2>1, Numbers DEF Objs, Records
  <2> QED
    BY <2>2 DEF r
<1>6. m \in Objs /\ (m.iteration = TargetLength => m.stage \in {"idle", "ended"})
  BY <1>5, CalledAt
<1>7. id \in Ids /\ id \in D
  BY <1>1 DEF ChainsAre, KnownTo
<1> HIDE DEF m, id
<1>8. called \in [D -> Objs] /\ called[id] = m /\ \A x \in D \ {id} : called[x] = mh[h][x]
  BY <1>4, <1>6, <1>7
<1> HIDE DEF called
<1>9. /\ objects \in [D -> Objs]
      /\ \A x \in D : /\ objects[x].iteration = called[x].iteration
                      /\ objects[x].stage = called[x].stage \/ called[x].stage = "waiting"
  <2> HIDE DEF D
  <2> QED
    BY <1>2, <1>8, AnswersAt
<1>10. /\ mh'[h] = objects /\ iteration'[h] = m.iteration /\ pc'[h] = "work while moving"
       /\ DOMAIN objects = D
       /\ mcChainsToAdd' = mcChainsToAdd /\ workQueue' = workQueue /\ finished' = finished
       /\ toMove' = toMove /\ moving' = moving /\ toGet' = toGet /\ running' = running
       /\ inProgress' = inProgress /\ sendProgress' = sendProgress
  BY <1>1, <1>2, <1>3, <1>9 DEF FunctionsAre, moves
<1>11. Alone(h)
  BY <1>1, <1>2, <1>3 DEF FunctionsAre, Alone, OthersSame, Same, moves
<1>12. KnownTo(h)' = KnownTo(h) /\ Keeps(h)' = Keeps(h) /\ LeftAt(h)' = LeftAt(h)
  BY <1>1, <1>10 DEF KnownTo, Keeps, QueuedAt, Added, LeftAt, Left
<1>13. NoMore(h)
  BY <1>10, <1>12 DEF NoMore
<1>14. PlaceIs(h)'
  <2>1. m.iteration \in 0 .. TargetLength
    BY <1>6 DEF Objs
  <2>2. DOMAIN mh'[h] = DOMAIN mh[h]
    BY <1>10
  <2> QED
    BY <1>1, <1>10, <2>1, <2>2 DEF PlaceIs, Pcs, MovePcs
<1>15. ChainsAre(h)'
  <2>1. mh'[h] \in [DOMAIN mh'[h] -> Objs]
    BY <1>9, <1>10
  <2>2. ASSUME NEW x \in D, objects[x].iteration = TargetLength
        PROVE  x = id /\ objects[x].stage \in {"idle", "ended"}
    <3>1. x = id
      <4>1. CASE x # id
        <5>1. mh[h][x].iteration = TargetLength
          BY <1>8, <1>9, <2>2, <4>1
        <5> QED
          BY <1>4, <4>1, <5>1
      <4> QED
        BY <4>1
    <3>2. called[id] = m /\ m.iteration = TargetLength
      BY <1>8, <1>9, <2>2, <3>1
    <3> QED
      BY <1>6, <1>9, <2>2, <3>1, <3>2
  <2>3. \A x \in D \ {id} : objects[x].iteration = mh[h][x].iteration
    BY <1>8, <1>9
  <2>4. \A x \in D \ {id} : ExactFor(h, x)
    BY <1>1 DEF ChainsAre, id
  <2>5. \A x \in D \ {id} : ExactFor(h, x)'
    BY <1>10, <2>3, <2>4 DEF ExactFor, Priority
  <2>6. QueuedAt(h)' = QueuedAt(h)
    BY <1>10 DEF QueuedAt
  <2>7. DOMAIN mh'[h] = DOMAIN mh[h] /\ moving'[h] = id
    BY <1>10 DEF id
  <2> QED
    BY <1>1, <1>10, <1>12, <2>1, <2>2, <2>5, <2>6, <2>7 DEF ChainsAre
<1> QED
  BY <1>11, <1>13, <1>14, <1>15, AloneKeeps

-----------------------------------------------------------------------------
(* The execution of calls                                                  *)

(* The calls there are.                                                     *)
LEMMA CallKinds ==
  ASSUME NEW c \in CallSet
  PROVE  /\ c.fn \in {"request_progress_info", "pass_progress_info", "move_markov_chain",
                      "recieve_markov_chain"}
         /\ c.fn = "request_progress_info" => c = RequestProgress
         /\ c.fn = "pass_progress_info" =>
              /\ c = PassProgress(c.id, c.score, c.wg)
              /\ c.id \in Ids /\ c.score \in 0 .. TargetLength /\ c.wg \in Heads
         /\ c.fn = "move_markov_chain" =>
              c = MoveChain(c.n, c.to) /\ c.n \in 0 .. NumChains /\ c.to \in Heads
         /\ c.fn = "recieve_markov_chain" =>
              /\ c = RecieveChain(c.id, c.iteration)
              /\ c.id \in Ids /\ c.iteration \in 0 .. SizeModulus - 1
<1>1. \/ c = RequestProgress
      \/ \E id \in Ids, p \in 0 .. TargetLength, wg \in Heads : c = PassProgress(id, p, wg)
      \/ \E n \in 0 .. NumChains, to \in Heads : c = MoveChain(n, to)
      \/ \E id \in Ids, it \in 0 .. SizeModulus - 1 : c = RecieveChain(id, it)
  BY DEF CallSet
<1> QED
  BY <1>1 DEF RequestProgress, PassProgress, MoveChain, RecieveChain

(* What a head has to execute are calls.                                    *)
LEMMA ContentIs ==
  ASSUME CallsAre, NEW h \in Heads
  PROVE  Content(h) \subseteq CallSet
<1> SUFFICES ASSUME NEW c \in Content(h)
             PROVE  c \in CallSet
  OBVIOUS
<1>1. PICK j \in Heads : \E k \in DOMAIN Inbox(h)[j] : Inbox(h)[j][k][2] = c
  BY CallOf DEF Content
<1>2. Inbox(h)[j] = IF j = h THEN tasks[h] ELSE channel[j][h]
  BY DEF Inbox
<1>3. tasks[h] \in Seq(Pairs) /\ channel[j][h] \in Seq(Pairs)
  BY DEF CallsAre, Pairs
<1>4. Inbox(h)[j] \in Seq(Pairs)
  BY <1>2, <1>3
<1>5. \A k \in DOMAIN Inbox(h)[j] : Inbox(h)[j][k] \in Pairs
  BY <1>4
<1> QED
  BY <1>1, <1>5 DEF Pairs

(* Head h executes one call of those it has.                                *)
Executes(h, call) ==
  /\ call \in Content(h) /\ Asserted(h, call) /\ InDoWork(h)
  /\ \/ RequestProgressInfo(h, call)
     \/ PassProgressInfo(h, call)
     \/ MoveMarkovChain(h, call)
     \/ RecieveMarkovChain(h, call)
  /\ passedOver' = (passedOver \/ ComesTooLate(h, call))
  /\ UNCHANGED <<disabled, aborted, mh, workQueue, finished, running, moving>>
  /\ AfterWork(h)
  /\ CallsAre'
  /\ Content(h)' = Content(h) \ {call}
  /\ \A j \in Heads \ {h} : Content(j)' = Content(j)
  /\ \A i, j \in Heads : channel'[i][j] = IF j = h THEN <<>> ELSE channel[i][j]

LEMMA ExecutesOne ==
  ASSUME RInv, NEW h \in Heads, Execute(h)
  PROVE  \E call \in CallSet : Executes(h, call)
<1>1. PICK arrived \in Arrived(h) \ {<<>>} :
        /\ Asserted(h, Head(arrived)[2])
        /\ \/ RequestProgressInfo(h, Head(arrived)[2])
           \/ PassProgressInfo(h, Head(arrived)[2])
           \/ MoveMarkovChain(h, Head(arrived)[2])
           \/ RecieveMarkovChain(h, Head(arrived)[2])
        /\ passedOver' = (passedOver \/ ComesTooLate(h, Head(arrived)[2]))
        /\ tasks' = [tasks EXCEPT ![h] = Tail(arrived)]
  BY Zenon DEF Execute
<1> DEFINE call == Head(arrived)[2]
<1>2. CallsAre /\ TakenBy(h, arrived)
  BY <1>1 DEF RInv, Execute, TakenBy
<1>3. /\ CallsAre' /\ call \in Content(h) /\ Content(h)' = Content(h) \ {call}
      /\ \A j \in Heads \ {h} : Content(j)' = Content(j)
      /\ \A i, j \in Heads : channel'[i][j] = IF j = h THEN <<>> ELSE channel[i][j]
  BY <1>2, Takes
<1>4. call \in CallSet
  BY <1>2, <1>3, ContentIs
<1>5. /\ InDoWork(h) /\ AfterWork(h)
      /\ UNCHANGED <<disabled, aborted, mh, workQueue, finished, running, moving>>
  BY DEF Execute
<1> HIDE DEF call
<1>6. Executes(h, call)
  BY <1>1, <1>3, <1>5, Zenon DEF Executes, call
<1> QED
  BY <1>4, <1>6

(* The invariant put together after a step of head h.                       *)
LEMMA Assembled ==
  ASSUME RInv, NEW h \in Heads, OthersSame(h), PlaceIs(h)', ChainsAre(h)', CallsAre',
         KeptOnce', passedOver' \in BOOLEAN, h # 0 => manager' = manager,
         manager'.required \in BOOLEAN, manager'.requested \in BOOLEAN,
         manager'.required => manager'.requested, disabled => ~manager'.requested,
         ~manager'.requested => Quiet', manager'.required => Asking',
         manager'.requested /\ ~manager'.required => Moved'
  PROVE  RInv'
<1>1. disabled' = disabled /\ disabled \in Switch /\ aborted' \in BOOLEAN /\ FunctionsAre'
  BY DEF RInv, OthersSame
<1>2. \A j \in Heads : PlaceIs(j)' /\ ChainsAre(j)'
  <2> SUFFICES ASSUME NEW j \in Heads, j # h
               PROVE  PlaceIs(j)' /\ ChainsAre(j)'
    OBVIOUS
  <2>1. Same(j) /\ PlaceIs(j) /\ ChainsAre(j)
    BY DEF RInv, OthersSame
  <2>2. CASE j # 0
    BY <1>1, <2>1, <2>2, SameKeeps
  <2>3. CASE j = 0
    BY <1>1, <2>1, <2>3, SameKeeps
  <2> QED
    BY <2>2, <2>3
<1> QED
  BY <1>1, <1>2 DEF RInv

(* What the other heads know of chains stays the same.                      *)
LEMMA OthersKnow ==
  ASSUME RInv, NEW h \in Heads, OthersSame(h), NEW j \in Heads, j # h
  PROVE  /\ KnownTo(j)' = KnownTo(j) /\ Keeps(j)' = Keeps(j) /\ LeftAt(j)' = LeftAt(j)
         /\ Still(j)' = Still(j)
<1>1. Same(j)
  BY DEF OthersSame
<1>2. KnownTo(j)' = KnownTo(j)
  BY <1>1 DEF Same, KnownTo, QueuedAt
<1>3. Keeps(j)' = Keeps(j)
  BY <1>1 DEF Same, Keeps, Added
<1>4. LeftAt(j)' = LeftAt(j)
  BY <1>1 DEF Same, LeftAt, Left
<1>5. Still(j)' = Still(j)
  BY <1>1, <1>2 DEF Same, Still, Share, ShareStart, ShareSize, PerHead, Larger
<1> QED
  BY <1>2, <1>3, <1>4, <1>5

(* Chains are kept once while no head gets any.                             *)
LEMMA KeptOnceStays ==
  ASSUME KeptOnce, \A j \in Heads : Keeps(j)' \subseteq Keeps(j) /\ Live(j)' \subseteq Live(j)
  PROVE  KeptOnce'
BY DEF KeptOnce

(* What the execution of a call leaves of the chains of the head, when it   *)
(* brings none.                                                             *)
LEMMA ExecutedChains ==
  ASSUME RInv, NEW h \in Heads, NEW call \in CallSet, Executes(h, call),
         mcChainsToAdd' = mcChainsToAdd, WorkKeeps(h),
         toMove'[h] \in [DOMAIN toMove'[h] -> Heads \ {h}], DOMAIN toMove'[h] \subseteq Ids
  PROVE  /\ PlaceIs(h)' /\ ChainsAre(h)'
         /\ KnownTo(h)' = KnownTo(h) /\ Keeps(h)' = Keeps(h)
         /\ \A id \in Ids : Left(h, id)' = Left(h, id)
         /\ DOMAIN pc' = Heads /\ DOMAIN iteration' = Heads
         /\ \A j \in Heads \ {h} : pc'[j] = pc[j] /\ iteration'[j] = iteration[j]
<1>1. /\ PlaceIs(h) /\ ChainsAre(h) /\ FunctionsAre /\ InDoWork(h) /\ AfterWork(h)
      /\ UNCHANGED <<disabled, aborted, mh, workQueue, finished, running, moving>>
  BY InvParts DEF Executes
<1>2. /\ PlaceIs(h)'
      /\ \A id \in Ids : Left(h, id)' = Left(h, id)
      /\ pc[h] = "work while moving" => pc'[h] = "move"
      /\ DOMAIN pc' = Heads /\ DOMAIN iteration' = Heads
      /\ \A j \in Heads \ {h} : pc'[j] = pc[j] /\ iteration'[j] = iteration[j]
  BY <1>1, Worked
<1>3. KnownTo(h)' = KnownTo(h) /\ Keeps(h)' = Keeps(h)
  BY <1>1 DEF KnownTo, Keeps, QueuedAt, Added
<1>4. ChainsAre(h)'
  <2>1. \A id \in DOMAIN mh[h] : mh[h][id].iteration = TargetLength =>
          id = moving[h] /\ pc'[h] \in {"move", "work while moving"}
            /\ mh[h][id].stage \in {"idle", "ended"}
    BY <1>1, <1>2 DEF ChainsAre, InDoWork
  <2>2. \A id \in DOMAIN mh[h] : ExactFor(h, id)' = ExactFor(h, id)
    BY <1>1 DEF ExactFor, Priority
  <2>3. QueuedAt(h)' = QueuedAt(h)
    BY <1>1 DEF QueuedAt
  <2> QED
    BY <1>1, <1>3, <2>1, <2>2, <2>3 DEF ChainsAre
<1> QED
  BY <1>2, <1>3, <1>4

(* Which calls there are at what time.                                      *)
LEMMA AskingCalls ==
  ASSUME RInv, NEW h \in Heads, NEW call \in Content(h),
         call.fn \in {"request_progress_info", "pass_progress_info"}
  PROVE  manager.required /\ manager.requested /\ Asking
<1>1. manager.requested
  <2>1. ~manager.requested => Content(h) = {}
    BY DEF RInv, Quiet
  <2> QED
    BY <2>1 DEF RInv
<1>2. manager.required
  <2>1. manager.requested /\ ~manager.required => MovedIs(h)
    BY DEF RInv, Moved
  <2>2. ~MovedIs(h)
    BY DEF MovedIs, IsMove
  <2> QED
    BY <1>1, <2>1, <2>2 DEF RInv
<1> QED
  BY <1>1, <1>2 DEF RInv

(* While chains are moved all calls are moves or bring chains.              *)
LEMMA MovedCalls ==
  ASSUME RInv, NEW h \in Heads, NEW call \in Content(h),
         call.fn \in {"move_markov_chain", "recieve_markov_chain"}
  PROVE  ~manager.required /\ manager.requested /\ Moved
<1>1. manager.requested
  <2>1. ~manager.requested => Content(h) = {}
    BY DEF RInv, Quiet
  <2> QED
    BY <2>1 DEF RInv
<1>2. ~manager.required
  <2>1. manager.required => AskedIs(h)
    BY DEF RInv, Asking
  <2>2. ~AskedIs(h)
    BY DEF AskedIs, RequestProgress
  <2> QED
    BY <2>1, <2>2 DEF RInv
<1> QED
  BY <1>1, <1>2 DEF RInv

(* A head that is asked for the progress of its chains.                     *)
LEMMA RequestExecuted ==
  ASSUME RInv, NEW h \in Heads, NEW call \in CallSet, Executes(h, call),
         RequestProgressInfo(h, call)
  PROVE  RInv'
<1>1. /\ call \in Content(h) /\ call = RequestProgress
      /\ manager.required /\ manager.requested /\ Asking
  <2>1. call \in Content(h) /\ call.fn = "request_progress_info"
    BY DEF Executes, RequestProgressInfo
  <2> QED
    BY <2>1, AskingCalls, CallKinds
<1>2. /\ PlaceIs(h) /\ ChainsAre(h) /\ FunctionsAre /\ aborted \in BOOLEAN /\ AskedIs(h)
      /\ ~passedOver
  BY <1>1, InvParts DEF Asking
<1>3. /\ sendProgress' = [sendProgress EXCEPT ![h] = TRUE]
      /\ inProgress' = [inProgress EXCEPT ![h] = TRUE]
      /\ UNCHANGED <<mcChainsToAdd, toGet, toMove, manager>>
      /\ UNCHANGED <<disabled, aborted, mh, workQueue, finished, running, moving>>
  BY DEF Executes, RequestProgressInfo
<1>4. sendProgress'[h] = TRUE /\ inProgress'[h] = TRUE
  BY <1>2, <1>3 DEF FunctionsAre
<1>5. passedOver' \in BOOLEAN /\ ~passedOver'
  BY <1>1, <1>2 DEF Executes, ComesTooLate, RequestProgress
<1>6. WorkKeeps(h)
  BY <1>2, <1>3, <1>4 DEF WorkKeeps, PlaceIs
<1>7. /\ PlaceIs(h)' /\ ChainsAre(h)'
      /\ KnownTo(h)' = KnownTo(h) /\ Keeps(h)' = Keeps(h)
      /\ DOMAIN pc' = Heads /\ DOMAIN iteration' = Heads
      /\ \A j \in Heads \ {h} : pc'[j] = pc[j] /\ iteration'[j] = iteration[j]
  <2>1. toMove'[h] \in [DOMAIN toMove'[h] -> Heads \ {h}] /\ DOMAIN toMove'[h] \subseteq Ids
    BY <1>2, <1>3 DEF ChainsAre
  <2> QED
    BY <1>3, <1>6, <2>1, ExecutedChains
<1>8. OthersSame(h)
  BY <1>2, <1>3, <1>7 DEF OthersSame, Same, FunctionsAre
<1>9. /\ CallsAre' /\ Content(h)' = Content(h) \ {RequestProgress}
      /\ \A j \in Heads \ {h} : Content(j)' = Content(j)
  BY <1>1 DEF Executes
<1>10. 0 \in Heads /\ ReportsAt(0)' = ReportsAt(0)
  <2>1. 0 \in Heads
    BY Numbers DEF Heads
  <2>2. Content(0)' = Content(0) \/ Content(0)' = Content(0) \ {RequestProgress}
    BY <1>9, <2>1
  <2> QED
    BY <2>1, <2>2 DEF ReportsAt, RequestProgress
<1>11. \A j \in Heads : ReportedBy(j)' = ReportedBy(j)
  BY <1>3, <1>10 DEF ReportedBy
<1>12. Still(h)'
  BY <1>2, <1>3, <1>7 DEF AskedIs, Still, Share, ShareStart, ShareSize, PerHead, Larger
<1>13. ASSUME NEW j \in Heads
       PROVE  AskedIs(j)'
  <2>1. CASE j = h
    <3>1. ~ReportedBy(h)
      BY <1>1, <1>2 DEF AskedIs
    <3>2. \A c \in Content(h)' : c = RequestProgress \/ (h = 0 /\ c.fn = "pass_progress_info")
      BY <1>2, <1>9 DEF AskedIs
    <3> QED
      BY <1>4, <1>9, <1>11, <1>12, <2>1, <3>1, <3>2 DEF AskedIs, RequestProgress
  <2>2. CASE j # h
    <3>1. AskedIs(j) /\ Same(j)
      BY <1>1, <1>8, <2>2 DEF Asking, OthersSame
    <3>2. Still(j)' = Still(j)
      BY <1>8, <2>2, OthersKnow
    <3> QED
      BY <1>9, <1>11, <2>2, <3>1, <3>2 DEF AskedIs, Same, RequestProgress
  <2> QED
    BY <2>1, <2>2
<1>14. Asking'
  BY <1>1, <1>3, <1>5, <1>10, <1>13 DEF Asking, Report, Share, ShareStart, ShareSize,
    PerHead, Larger
<1>15. KeptOnce'
  <2>1. ASSUME NEW j \in Heads
        PROVE  Keeps(j)' \subseteq Keeps(j) /\ Live(j)' = {}
    <3>1. Keeps(j)' = Keeps(j)
      BY <1>7, <1>8, OthersKnow
    <3>2. \A c \in Content(j)' : c.fn # "recieve_markov_chain"
      BY <1>13 DEF AskedIs, RequestProgress
    <3>3. Chains(j)' = {}
      BY <3>2 DEF Chains
    <3> QED
      BY <3>1, <3>3 DEF Live
  <2> QED
    BY <2>1, KeptOnceStays DEF RInv
<1>16. manager' = manager /\ (disabled => ~manager.requested)
  BY <1>3 DEF RInv
<1> QED
  BY <1>1, <1>5, <1>7, <1>8, <1>9, <1>14, <1>15, <1>16, Assembled DEF RInv

(* A report is put into the dataset of head 0.                              *)
LEMMA PassExecuted ==
  ASSUME RInv, NEW h \in Heads, NEW call \in CallSet, Executes(h, call),
         PassProgressInfo(h, call)
  PROVE  RInv'
<1>1. /\ call \in Content(h) /\ call.fn = "pass_progress_info"
      /\ manager.required /\ manager.requested /\ Asking
      /\ call.id \in Ids /\ call.score \in 0 .. TargetLength /\ call.wg \in Heads
  <2>1. call \in Content(h) /\ call.fn = "pass_progress_info"
    BY DEF Executes, PassProgressInfo
  <2> QED
    BY <2>1, AskingCalls, CallKinds
<1>2. /\ PlaceIs(h) /\ ChainsAre(h) /\ FunctionsAre /\ aborted \in BOOLEAN /\ AskedIs(h)
      /\ ~passedOver /\ h = 0
  BY <1>1, InvParts DEF Asking, AskedIs, RequestProgress
<1> DEFINE report == [id |-> call.id, score |-> call.score, wg |-> call.wg]
           data == manager.dataset
<1>3. /\ manager' = [manager EXCEPT !.dataset = Append(@, report)]
      /\ UNCHANGED <<mcChainsToAdd, toGet, toMove, inProgress, sendProgress>>
      /\ UNCHANGED <<disabled, aborted, mh, workQueue, finished, running, moving>>
  BY DEF Executes, PassProgressInfo
<1>4. /\ manager'.required = manager.required /\ manager'.requested = manager.requested
      /\ manager'.dataset = Append(data, report)
      /\ manager' = [required |-> manager'.required, requested |-> manager'.requested,
                     dataset |-> manager'.dataset]
  <2>1. manager = [required |-> manager.required, requested |-> manager.requested,
                   dataset |-> manager.dataset]
    BY <1>2 DEF FunctionsAre
  <2> QED
    BY <1>3, <2>1
<1>5. passedOver' \in BOOLEAN /\ ~passedOver'
  BY <1>1, <1>2 DEF Executes, ComesTooLate
<1>6. WorkKeeps(h)
  BY <1>2, <1>3 DEF WorkKeeps, PlaceIs
<1>7. /\ PlaceIs(h)' /\ ChainsAre(h)'
      /\ KnownTo(h)' = KnownTo(h) /\ Keeps(h)' = Keeps(h)
      /\ DOMAIN pc' = Heads /\ DOMAIN iteration' = Heads
      /\ \A j \in Heads \ {h} : pc'[j] = pc[j] /\ iteration'[j] = iteration[j]
  <2>1. toMove'[h] \in [DOMAIN toMove'[h] -> Heads \ {h}] /\ DOMAIN toMove'[h] \subseteq Ids
    BY <1>2, <1>3 DEF ChainsAre
  <2> QED
    BY <1>3, <1>6, <2>1, ExecutedChains
<1>8. OthersSame(h)
  BY <1>2, <1>3, <1>4, <1>7 DEF OthersSame, Same, FunctionsAre
<1>9. /\ CallsAre' /\ Content(0)' = Content(0) \ {call}
      /\ \A j \in Heads \ {h} : Content(j)' = Content(j)
      /\ \A j \in Heads : Content(j)' \subseteq Content(j)
      /\ \A j \in Heads : RequestProgress \in Content(j)' => RequestProgress \in Content(j)
  BY <1>2 DEF Executes
<1>10. call \in ReportsAt(0) /\ ReportsAt(0)' = ReportsAt(0) \ {call}
  BY <1>1, <1>2, <1>9 DEF ReportsAt
<1>11. /\ data \in Seq(Report) /\ report \in Report
       /\ \A k \in DOMAIN data : data[k].id \in Share(data[k].wg)
       /\ \A k, l \in DOMAIN data : data[k].id = data[l].id => k = l
       /\ \A c \in ReportsAt(0) :
            /\ c.id \in Share(c.wg)
            /\ \A k \in DOMAIN data : c.id # data[k].id
            /\ \A d \in ReportsAt(0) : c.id = d.id => c = d
  BY <1>1 DEF Asking, Report
<1>12. /\ report.id = call.id /\ report.wg = call.wg
  OBVIOUS
<1> DEFINE n == Len(data)
           more == Append(data, report)
<1>13. /\ n \in Nat /\ DOMAIN data = 1 .. n /\ DOMAIN more = 1 .. n + 1 /\ more \in Seq(Report)
       /\ more[n + 1] = report /\ \A k \in 1 .. n : more[k] = data[k]
       /\ n + 1 \notin 1 .. n /\ 1 .. n + 1 = 1 .. n \union {n + 1}
  <2> HIDE DEF report, data
  <2> QED
    BY <1>11
<1> HIDE DEF report, data, n, more
<1>14. /\ \A k \in DOMAIN more : \/ k \in DOMAIN data /\ more[k] = data[k]
                                 \/ k = n + 1 /\ more[k] = report
       /\ \A k \in DOMAIN data : k \in DOMAIN more /\ more[k] = data[k]
       /\ n + 1 \in DOMAIN more /\ more[n + 1] = report
  BY <1>13
<1>15. manager'.dataset = more
  BY <1>4 DEF more
<1>16. ASSUME NEW j \in Heads
       PROVE  ReportedBy(j)' <=> ReportedBy(j)
  <2>1. ReportedBy(j)' <=> \/ \E c \in ReportsAt(0) \ {call} : c.wg = j
                           \/ \E k \in DOMAIN more : more[k].wg = j
    BY <1>10, <1>15 DEF ReportedBy
  <2>2. ReportedBy(j) <=> \/ \E c \in ReportsAt(0) : c.wg = j
                          \/ \E k \in DOMAIN data : data[k].wg = j
    BY DEF ReportedBy, data
  <2>3. (\E k \in DOMAIN more : more[k].wg = j)
          <=> (call.wg = j \/ \E k \in DOMAIN data : data[k].wg = j)
    BY <1>12, <1>14
  <2> QED
    BY <1>10, <2>1, <2>2, <2>3
<1>17. Still(h)'
  BY <1>2, <1>3, <1>7 DEF AskedIs, Still, Share, ShareStart, ShareSize, PerHead, Larger
<1>18. ASSUME NEW j \in Heads
       PROVE  AskedIs(j)'
  <2>1. AskedIs(j)
    BY <1>1 DEF Asking
  <2>2. Still(j)'
    <3>1. CASE j = h
      BY <1>17, <3>1
    <3>2. CASE j # h
      BY <1>8, <2>1, <3>2, OthersKnow DEF AskedIs
    <3> QED
      BY <3>1, <3>2
  <2>3. running'[j] = running[j] /\ inProgress'[j] = inProgress[j] /\ sendProgress'[j] = sendProgress[j]
    BY <1>3
  <2> QED
    BY <1>9, <1>16, <2>1, <2>2, <2>3 DEF AskedIs, RequestProgress
<1>19. Asking'
  <2>1. \A k \in DOMAIN more : more[k].id \in Share(more[k].wg)
    BY <1>10, <1>11, <1>12, <1>14
  <2>2. \A k, l \in DOMAIN more : more[k].id = more[l].id => k = l
    BY <1>10, <1>11, <1>12, <1>14
  <2>3. ASSUME NEW c \in ReportsAt(0)'
        PROVE  /\ c.id \in Share(c.wg)
               /\ \A k \in DOMAIN more : c.id # more[k].id
               /\ \A d \in ReportsAt(0)' : c.id = d.id => c = d
    <3>1. c \in ReportsAt(0) /\ c # call /\ ReportsAt(0)' \subseteq ReportsAt(0)
      BY <1>10
    <3>2. c.id # call.id
      BY <1>10, <1>11, <3>1
    <3> QED
      BY <1>11, <1>12, <1>14, <3>1, <3>2
  <2>4. \A g : Share(g)' = Share(g)
    BY DEF Share, ShareStart, ShareSize, PerHead, Larger
  <2> QED
    BY <1>5, <1>13, <1>15, <1>18, <2>1, <2>2, <2>3, <2>4 DEF Asking, Report
<1>20. KeptOnce'
  <2>1. ASSUME NEW j \in Heads
        PROVE  Keeps(j)' \subseteq Keeps(j) /\ Live(j)' = {}
    <3>1. Keeps(j)' = Keeps(j)
      BY <1>7, <1>8, OthersKnow
    <3>2. \A c \in Content(j)' : c.fn # "recieve_markov_chain"
      BY <1>18 DEF AskedIs, RequestProgress
    <3>3. Chains(j)' = {}
      BY <3>2 DEF Chains
    <3> QED
      BY <3>1, <3>3 DEF Live
  <2> QED
    BY <2>1, KeptOnceStays DEF RInv
<1>21. disabled => ~manager.requested
  BY DEF RInv
<1> QED
  BY <1>1, <1>2, <1>4, <1>5, <1>7, <1>8, <1>9, <1>19, <1>20, <1>21, Assembled DEF RInv

-----------------------------------------------------------------------------
(* The execution of moves                                                  *)

(* Sets of chains are finite.                                               *)
LEMMA IdsCount ==
  ASSUME NEW S, S \subseteq Ids
  PROVE  /\ IsFiniteSet(S) /\ Cardinality(S) \in Nat
         /\ \A T : T \subseteq S => Cardinality(T) <= Cardinality(S)
         /\ \A x \in S : Cardinality(S \ {x}) = Cardinality(S) - 1
<1>1. IsFiniteSet(Ids)
  BY Numbers, FS_Interval DEF Ids
<1>2. IsFiniteSet(S)
  BY <1>1, FS_Subset
<1>3. Cardinality(S) \in Nat
  BY <1>2, FS_CardinalityType
<1>4. \A T : T \subseteq S => Cardinality(T) <= Cardinality(S)
  BY <1>2, FS_Subset
<1>5. \A x \in S : Cardinality(S \ {x}) = Cardinality(S) - 1
  BY <1>2, FS_RemoveElement
<1> QED
  BY <1>2, <1>3, <1>4, <1>5

(* A trip is known to one head.                                             *)
LEMMA TripsApart ==
  ASSUME NEW h \in Heads, NEW j \in Heads, NEW t, t \in TripsAt(h), t \in TripsAt(j)
  PROVE  h = j
<1>1. ASSUME NEW g, t \in TripsAt(g)
      PROVE  \/ t[2] = g /\ t[3][1] = "sent"
             \/ t[3][2] = g /\ t[3][1] = "ordered"
             \/ t[3][2] = g /\ t[3][1] = "left"
  <2>1. CASE \E c \in Chains(g) : t = <<c.id, g, <<"sent", c.iteration>>>>
    BY <2>1
  <2>2. CASE \E c \in OrdersAt(g) : t = <<c.n, c.to, <<"ordered", g>>>>
    BY <2>2
  <2>3. CASE \E id \in LeftAt(g) : t = <<id, toMove[g][id], <<"left", g>>>>
    BY <2>3
  <2> QED
    BY <1>1, <2>1, <2>2, <2>3, TripIs, Zenon
<1> QED
  BY <1>1

(* The trips when one that head h knows of goes on, or ends.                *)
LEMMA TripChanges ==
  ASSUME NEW h \in Heads, NEW t \in TripsAt(h), NEW X,
         TripsAt(h)' = (TripsAt(h) \ {t}) \union X,
         \A j \in Heads \ {h} : TripsAt(j)' = TripsAt(j)
  PROVE  t \in Trips /\ Trips' = (Trips \ {t}) \union X
<1>1. \A j \in Heads : t \in TripsAt(j) => j = h
  BY TripsApart
<1>2. ASSUME NEW x \in Trips'
      PROVE  x \in (Trips \ {t}) \union X
  <2>1. PICK j \in Heads : x \in TripsAt(j)'
    BY <1>2 DEF Trips
  <2>2. CASE j = h
    BY <2>1, <2>2 DEF Trips
  <2>3. CASE j # h
    BY <1>1, <2>1, <2>3 DEF Trips
  <2> QED
    BY <2>2, <2>3
<1>3. ASSUME NEW x \in (Trips \ {t}) \union X
      PROVE  x \in Trips'
  <2>1. CASE x \in X
    BY <2>1 DEF Trips
  <2>2. CASE x \in Trips /\ x # t
    <3>1. PICK j \in Heads : x \in TripsAt(j)
      BY <2>2 DEF Trips
    <3>2. x \in TripsAt(j)'
      BY <2>2, <3>1
    <3> QED
      BY <3>2 DEF Trips
  <2> QED
    BY <1>3, <2>1, <2>2
<1>4. t \in Trips
  BY DEF Trips
<1> QED
  BY <1>2, <1>3, <1>4

(* When the way of a chain ends, it comes no more.                          *)
LEMMA TripEnds ==
  ASSUME OneTrip(Trips), NEW t \in Trips, Trips' = Trips \ {t}
  PROVE  /\ OneTrip(Trips') /\ t[1] \in Coming(t[2])
         /\ To(Trips', t[2]) = Coming(t[2]) \ {t[1]}
         /\ \A j : j # t[2] => Coming(j)' = Coming(j)
<1> DEFINE T == Trips
           U == Trips'
<1>1. OneTrip(T) /\ t \in T /\ Without(U, T, t)
  BY Zenon DEF Without
<1> HIDE DEF T, U
<1>2. /\ OneTrip(U) /\ t[1] \in To(T, t[2]) /\ To(U, t[2]) = To(T, t[2]) \ {t[1]}
      /\ \A j : j # t[2] => To(U, j) = To(T, j)
  BY <1>1, TripsShrink
<1> QED
  BY <1>2, Zenon DEF T, U, Coming

(* The numbers that are announced.                                          *)
LEMMA AnnouncedNumbers ==
  ASSUME RInv, NEW j \in Heads
  PROVE  toGet[j] \in Int /\ \A c \in Announcements(j) : c.n \in 0 .. NumChains
<1>1. CallsAre /\ toGet[j] \in Int
  BY DEF RInv, PlaceIs
<1>2. Content(j) \subseteq CallSet
  BY <1>1, ContentIs
<1>3. \A c \in Announcements(j) : c \in CallSet /\ c.fn = "move_markov_chain"
  BY <1>2 DEF Announcements, IsMove
<1> QED
  BY <1>1, <1>3, CallKinds

(* A head whose calls stay the same while chains on their way to it may be  *)
(* forgotten.                                                               *)
LEMMA OtherMoved ==
  ASSUME RInv, NEW j \in Heads, MovedIs(j), Same(j), Content(j)' = Content(j),
         KnownTo(j)' = KnownTo(j), \A i \in Heads : channel'[i][j] = channel[i][j],
         Coming(j)' \subseteq Coming(j), Coming(j)' # Coming(j) => passedOver',
         passedOver => passedOver'
  PROVE  MovedIs(j)'
<1>1. SameCalls(j)
  BY SameContent
<1>2. Coming(j) \subseteq Ids
  BY DEF MovedIs
<1>3. /\ Cardinality(Coming(j)') <= Cardinality(Coming(j))
      /\ Cardinality(Coming(j)) \in Nat /\ Cardinality(Coming(j)') \in Nat
      /\ ~passedOver' => Cardinality(Coming(j)') = Cardinality(Coming(j)) /\ ~passedOver
  BY <1>2, IdsCount
<1>4. /\ toGet'[j] = toGet[j] /\ inProgress'[j] = inProgress[j]
      /\ Announcements(j)' = Announcements(j) /\ OrdersAt(j)' = OrdersAt(j)
      /\ sendProgress'[j] = sendProgress[j] /\ toMove'[j] = toMove[j] /\ running'[j] = running[j]
  BY <1>1 DEF Same, SameCalls
<1>6. toGet[j] \in Int /\ \A c \in Announcements(j) : c.n \in Int
  BY AnnouncedNumbers
<1>5. Counted(j)'
  <2>1. \A c, d \in Announcements(j) : c = d
    BY DEF MovedIs, Counted
  <2>2. ASSUME NEW c \in Announcements(j)
        PROVE  /\ inProgress[j] /\ toGet[j] <= 0
               /\ toGet[j] + c.n >= Cardinality(Coming(j)')
               /\ ~passedOver' => toGet[j] + c.n = Cardinality(Coming(j)')
    BY <1>3, <1>6 DEF MovedIs, Counted
  <2>3. Announcements(j) = {} =>
          /\ toGet[j] >= Cardinality(Coming(j)')
          /\ ~passedOver' => toGet[j] = Cardinality(Coming(j)')
          /\ inProgress[j] <=> toGet[j] # 0
    BY <1>3, <1>6 DEF MovedIs, Counted
  <2> QED
    BY <1>4, <2>1, <2>2, <2>3 DEF Counted
<1> QED
  BY <1>2, <1>4, <1>5 DEF MovedIs, IsMove

(* What is known when head h executes a call to move a chain, or one that   *)
(* brings it.                                                               *)
LEMMA MoveExecuted ==
  ASSUME RInv, NEW h \in Heads, NEW call \in CallSet, Executes(h, call),
         call.fn \in {"move_markov_chain", "recieve_markov_chain"}
  PROVE  /\ call \in Content(h) /\ ~manager.required /\ manager.requested
         /\ manager.dataset = <<>> /\ OneTrip(Trips) /\ \A j \in Heads : MovedIs(j)
         /\ PlaceIs(h) /\ ChainsAre(h) /\ FunctionsAre /\ passedOver \in BOOLEAN
         /\ InDoWork(h) /\ AfterWork(h) /\ Asserted(h, call)
         /\ UNCHANGED <<disabled, aborted, mh, workQueue, finished, running, moving>>
         /\ CallsAre' /\ Content(h)' = Content(h) \ {call}
         /\ \A j \in Heads \ {h} : SameCalls(j)
         /\ Chains(h)' = Chains(h) \ {call} /\ OrdersAt(h)' = OrdersAt(h) \ {call}
         /\ Announcements(h)' = Announcements(h) \ {call}
         /\ \A i, j \in Heads : channel'[i][j] = IF j = h THEN <<>> ELSE channel[i][j]
<1>1. call \in Content(h) /\ ~manager.required /\ manager.requested /\ Moved
  BY MovedCalls DEF Executes
<1>2. PlaceIs(h) /\ ChainsAre(h) /\ FunctionsAre /\ passedOver \in BOOLEAN
  BY DEF RInv
<1>3. Content(h)' = Content(h) \ {call}
  BY DEF Executes
<1>4. /\ Chains(h)' = Chains(h) \ {call} /\ OrdersAt(h)' = OrdersAt(h) \ {call}
      /\ Announcements(h)' = Announcements(h) \ {call}
  BY <1>3 DEF Chains, OrdersAt, Announcements
<1>5. \A j \in Heads \ {h} : SameCalls(j)
  BY SameContent DEF Executes
<1>6. /\ InDoWork(h) /\ AfterWork(h) /\ Asserted(h, call)
      /\ UNCHANGED <<disabled, aborted, mh, workQueue, finished, running, moving>>
      /\ CallsAre'
      /\ \A i, j \in Heads : channel'[i][j] = IF j = h THEN <<>> ELSE channel[i][j]
  BY DEF Executes
<1> QED
  BY <1>1, <1>2, <1>3, <1>4, <1>5, <1>6 DEF Moved

(* The other heads after head h has executed such a call.                   *)
LEMMA OthersMoved ==
  ASSUME RInv, NEW h \in Heads, NEW call \in CallSet, Executes(h, call),
         call.fn \in {"move_markov_chain", "recieve_markov_chain"}, OthersSame(h),
         NEW j \in Heads, j # h, Coming(j)' \subseteq Coming(j),
         Coming(j)' # Coming(j) => passedOver'
  PROVE  MovedIs(j)'
<1>1. /\ MovedIs(j) /\ SameCalls(j)
      /\ \A i \in Heads : channel'[i][j] = channel[i][j]
  BY MoveExecuted
<1>2. KnownTo(j)' = KnownTo(j) /\ Same(j)
  BY OthersKnow DEF OthersSame
<1>3. passedOver => passedOver'
  BY DEF Executes
<1> QED
  BY <1>1, <1>2, <1>3, OtherMoved DEF SameCalls

(* An announcement is added to the number a head waits for.                 *)
LEMMA AnnouncementExecuted ==
  ASSUME RInv, NEW h \in Heads, NEW call \in CallSet, Executes(h, call),
         MoveMarkovChain(h, call), call.to = h
  PROVE  RInv'
<1> DEFINE n == call.n
<1>1. call.fn = "move_markov_chain"
  BY DEF MoveMarkovChain
<1>2. /\ call \in Content(h) /\ ~manager.required /\ manager.requested
      /\ manager.dataset = <<>> /\ OneTrip(Trips) /\ \A j \in Heads : MovedIs(j)
      /\ PlaceIs(h) /\ ChainsAre(h) /\ FunctionsAre /\ passedOver \in BOOLEAN
      /\ UNCHANGED <<disabled, aborted, mh, workQueue, finished, running, moving>>
      /\ CallsAre' /\ Content(h)' = Content(h) \ {call}
      /\ \A j \in Heads \ {h} : SameCalls(j)
      /\ Chains(h)' = Chains(h) \ {call} /\ OrdersAt(h)' = OrdersAt(h) \ {call}
      /\ Announcements(h)' = Announcements(h) \ {call}
      /\ \A i, j \in Heads : channel'[i][j] = IF j = h THEN <<>> ELSE channel[i][j]
  BY <1>1, MoveExecuted
<1>3. /\ toGet' = [toGet EXCEPT ![h] = @ + n]
      /\ inProgress' = [inProgress EXCEPT ![h] = @ /\ toGet[h] + n # 0]
      /\ UNCHANGED <<toMove, mcChainsToAdd, sendProgress, manager>>
  BY DEF MoveMarkovChain, GotMarkovChain
<1>4. /\ call \in Announcements(h) /\ call \notin Chains(h) /\ call \notin OrdersAt(h)
      /\ running[h]
  BY <1>1, <1>2 DEF Announcements, Chains, OrdersAt, IsMove, MovedIs
<1>5. /\ toGet[h] \in Int /\ n \in Int
      /\ \A c \in Announcements(h) : c = call
      /\ inProgress[h] /\ toGet[h] + n >= Cardinality(Coming(h))
      /\ ~passedOver => toGet[h] + n = Cardinality(Coming(h))
  <2>1. MovedIs(h)
    BY <1>2
  <2>2. n \in 0 .. NumChains /\ toGet[h] \in Int
    BY <1>4, AnnouncedNumbers
  <2> QED
    BY <1>4, <2>1, <2>2, Numbers DEF MovedIs, Counted
<1>6. toGet'[h] = toGet[h] + n /\ (inProgress'[h] <=> toGet[h] + n # 0) /\ inProgress'[h] \in BOOLEAN
  BY <1>2, <1>3, <1>5 DEF FunctionsAre
<1> HIDE DEF n
<1>7. passedOver' = passedOver
  BY <1>1, <1>2 DEF Executes, ComesTooLate
<1>8. WorkKeeps(h)
  <2>1. toGet'[h] \in Int
    BY <1>5, <1>6
  <2>2. sendProgress'[h] \in BOOLEAN
    BY <1>2, <1>3 DEF PlaceIs
  <2> QED
    BY <1>2, <1>3, <1>4, <1>6, <2>1, <2>2 DEF WorkKeeps
<1>9. /\ PlaceIs(h)' /\ ChainsAre(h)'
      /\ KnownTo(h)' = KnownTo(h) /\ Keeps(h)' = Keeps(h)
      /\ \A id \in Ids : Left(h, id)' = Left(h, id)
      /\ DOMAIN pc' = Heads /\ DOMAIN iteration' = Heads
      /\ \A j \in Heads \ {h} : pc'[j] = pc[j] /\ iteration'[j] = iteration[j]
  <2>1. toMove'[h] \in [DOMAIN toMove'[h] -> Heads \ {h}] /\ DOMAIN toMove'[h] \subseteq Ids
    BY <1>2, <1>3 DEF ChainsAre
  <2> QED
    BY <1>3, <1>8, <2>1, ExecutedChains
<1>10. OthersSame(h)
  <2>1. aborted \in BOOLEAN
    BY DEF RInv
  <2> QED
    BY <1>2, <1>3, <1>9, <2>1 DEF OthersSame, Same, FunctionsAre
<1>11. LeftAt(h)' = LeftAt(h) /\ DOMAIN toMove[h] \subseteq Ids
  <2>1. DOMAIN toMove[h] \subseteq Ids /\ DOMAIN toMove'[h] = DOMAIN toMove[h]
    BY <1>2, <1>3 DEF ChainsAre
  <2> QED
    BY <1>9, <2>1 DEF LeftAt
<1>12. ASSUME NEW j \in Heads
       PROVE  TripsAt(j)' = TripsAt(j)
  <2>1. SameTrips(j)
    <3>1. CASE j = h
      <4>1. Chains(h)' = Chains(h) /\ OrdersAt(h)' = OrdersAt(h)
        BY <1>2, <1>4
      <4> QED
        BY <1>3, <1>11, <3>1, <4>1, Zenon DEF SameTrips
    <3>2. CASE j # h
      <4>1. LeftAt(j)' = LeftAt(j)
        BY <1>10, <3>2, OthersKnow
      <4> QED
        BY <1>2, <1>3, <3>2, <4>1 DEF SameTrips, SameCalls
    <3> QED
      BY <3>1, <3>2
  <2> QED
    BY <2>1, SameTripsAt
<1>13. Trips' = Trips /\ \A j \in Heads : Coming(j)' = Coming(j)
  <2>1. Trips' = Trips
    BY <1>12, AllTrips
  <2> QED
    BY <2>1 DEF Coming
<1>14. MovedIs(h)'
  <2>1. MovedIs(h) /\ Announcements(h)' = {}
    BY <1>2, <1>5
  <2>2. Counted(h)'
    BY <1>5, <1>6, <1>7, <1>13, <2>1 DEF Counted
  <2>3. \A j \in Heads : DOMAIN channel'[j][h] = {}
    BY <1>2
  <2> QED
    BY <1>2, <1>3, <1>4, <1>9, <1>13, <2>1, <2>2, <2>3 DEF MovedIs, IsMove
<1>15. Moved'
  <2>1. \A j \in Heads \ {h} : MovedIs(j)'
    BY <1>1, <1>10, <1>13, OthersMoved
  <2> QED
    BY <1>2, <1>3, <1>13, <1>14, <2>1 DEF Moved, OneTrip
<1>16. KeptOnce'
  <2>1. ASSUME NEW j \in Heads
        PROVE  Keeps(j)' \subseteq Keeps(j) /\ Live(j)' \subseteq Live(j)
    <3>1. CASE j = h
      <4>1. Chains(h)' = Chains(h)
        BY <1>2, <1>4
      <4> QED
        BY <1>9, <3>1, <4>1 DEF Live
    <3>2. CASE j # h
      BY <1>2, <1>10, <3>2, OthersKnow DEF SameCalls
    <3> QED
      BY <3>1, <3>2
  <2> QED
    BY <2>1, KeptOnceStays DEF RInv
<1>17. disabled => ~manager.requested
  BY DEF RInv
<1> QED
  <2>1. /\ manager' = manager /\ manager.required = FALSE /\ manager.requested = TRUE
        /\ passedOver' \in BOOLEAN /\ CallsAre'
    BY <1>2, <1>3, <1>7, <1>17 DEF RInv
  <2> QED
    BY <1>9, <1>10, <1>15, <1>16, <1>17, <2>1, Assembled

(* An order to move a chain away, which may be passed over.                 *)
LEMMA OrderExecuted ==
  ASSUME RInv, NEW h \in Heads, NEW call \in CallSet, Executes(h, call),
         MoveMarkovChain(h, call), call.to # h
  PROVE  RInv'
<1> DEFINE n == call.n
           to == call.to
           t == <<n, to, <<"ordered", h>>>>
           u == <<n, to, <<"left", h>>>>
           X == IF Left(h, n) THEN {u} ELSE {}
<1>1. /\ call.fn = "move_markov_chain" /\ call = MoveChain(n, to) /\ to \in Heads
  BY CallKinds DEF MoveMarkovChain
<1>2. /\ call \in Content(h) /\ ~manager.required /\ manager.requested
      /\ manager.dataset = <<>> /\ OneTrip(Trips) /\ \A j \in Heads : MovedIs(j)
      /\ PlaceIs(h) /\ ChainsAre(h) /\ FunctionsAre /\ passedOver \in BOOLEAN
      /\ UNCHANGED <<disabled, aborted, mh, workQueue, finished, running, moving>>
      /\ CallsAre' /\ Content(h)' = Content(h) \ {call}
      /\ \A j \in Heads \ {h} : SameCalls(j)
      /\ Chains(h)' = Chains(h) \ {call} /\ OrdersAt(h)' = OrdersAt(h) \ {call}
      /\ Announcements(h)' = Announcements(h) \ {call}
      /\ \A i, j \in Heads : channel'[i][j] = IF j = h THEN <<>> ELSE channel[i][j]
      /\ InDoWork(h)
  BY <1>1, MoveExecuted
<1>3. /\ toMove' = [toMove EXCEPT ![h] = Assigned(@, n, to)]
      /\ UNCHANGED <<toGet, inProgress, mcChainsToAdd, sendProgress, manager>>
  BY DEF MoveMarkovChain
<1>4. /\ call \in OrdersAt(h) /\ call \notin Chains(h) /\ call \notin Announcements(h)
      /\ running[h] /\ n \in Ids \ DOMAIN toMove[h]
  BY <1>1, <1>2 DEF Announcements, Chains, OrdersAt, IsMove, MovedIs
<1>5. /\ Chains(h)' = Chains(h) /\ Announcements(h)' = Announcements(h)
      /\ OrdersAt(h)' = OrdersAt(h) \ {call}
  BY <1>2, <1>4
<1>6. passedOver' = (passedOver \/ n < moving[h])
  BY <1>1 DEF Executes, ComesTooLate
<1>7. /\ DOMAIN toMove'[h] = DOMAIN toMove[h] \union {n}
      /\ toMove'[h][n] = to /\ \A id \in DOMAIN toMove[h] : toMove'[h][id] = toMove[h][id]
      /\ \A j \in Heads \ {h} : toMove'[j] = toMove[j]
      /\ DOMAIN toMove' = Heads /\ DOMAIN toMove[h] \subseteq Ids
      /\ toMove'[h] \in [DOMAIN toMove'[h] -> Heads \ {h}]
  <2>1. toMove[h] \in [DOMAIN toMove[h] -> Heads \ {h}] /\ DOMAIN toMove[h] \subseteq Ids
    BY <1>2 DEF ChainsAre
  <2>2. toMove'[h] = Assigned(toMove[h], n, to)
    BY <1>2, <1>3 DEF FunctionsAre
  <2> HIDE DEF n, to
  <2>3. /\ DOMAIN toMove'[h] = DOMAIN toMove[h] \union {n}
        /\ toMove'[h][n] = to /\ \A id \in DOMAIN toMove[h] : toMove'[h][id] = toMove[h][id]
        /\ toMove'[h] = [x \in DOMAIN toMove'[h] |-> toMove'[h][x]]
    BY <1>4, <2>2 DEF Assigned
  <2>4. to \in Heads \ {h}
    BY <1>1 DEF to
  <2>5. \A x \in DOMAIN toMove'[h] : toMove'[h][x] \in Heads \ {h}
    BY <2>1, <2>3, <2>4
  <2>6. DOMAIN toMove' = Heads /\ \A j \in Heads \ {h} : toMove'[j] = toMove[j]
    BY <1>2, <1>3 DEF FunctionsAre
  <2> QED
    BY <2>1, <2>3, <2>5, <2>6
<1> HIDE DEF n, to
<1>8. WorkKeeps(h)
  <2>1. /\ toGet'[h] \in Int /\ inProgress'[h] \in BOOLEAN
        /\ sendProgress'[h] \in BOOLEAN
    BY <1>2, <1>3 DEF PlaceIs
  <2> QED
    BY <1>2, <1>4, <1>7, <2>1 DEF WorkKeeps
<1>9. /\ PlaceIs(h)' /\ ChainsAre(h)'
      /\ KnownTo(h)' = KnownTo(h) /\ Keeps(h)' = Keeps(h)
      /\ \A id \in Ids : Left(h, id)' = Left(h, id)
      /\ DOMAIN pc' = Heads /\ DOMAIN iteration' = Heads
      /\ \A j \in Heads \ {h} : pc'[j] = pc[j] /\ iteration'[j] = iteration[j]
  <2>1. DOMAIN toMove'[h] \subseteq Ids
    BY <1>4, <1>7
  <2> QED
    BY <1>3, <1>7, <1>8, <2>1, ExecutedChains
<1>10. OthersSame(h)
  <2>1. aborted \in BOOLEAN
    BY DEF RInv
  <2> QED
    BY <1>2, <1>3, <1>7, <1>9, <2>1 DEF OthersSame, Same, FunctionsAre
<1>11. LeftAt(h)' = LeftAt(h) \union (IF Left(h, n) THEN {n} ELSE {})
  <2>1. \A id \in Ids : Left(h, id)' = Left(h, id)
    BY <1>9
  <2>2. LeftAt(h)' = {id \in DOMAIN toMove[h] \union {n} : Left(h, id)'}
    BY <1>7 DEF LeftAt
  <2>3. DOMAIN toMove[h] \union {n} \subseteq Ids
    BY <1>4, <1>7
  <2>4. LeftAt(h)' = {id \in DOMAIN toMove[h] \union {n} : Left(h, id)}
    BY <2>1, <2>2, <2>3
  <2> QED
    BY <2>4 DEF LeftAt
<1>12. Left(h, n) <=> ~(n < moving[h])
  <2>1. /\ moving[h] \in Ids \union {NoId} /\ (moving[h] # NoId => pc[h] \in MovePcs)
        /\ pc[h] \in {"move", "work while moving"} => moving[h] \in DOMAIN toMove[h]
        /\ pc[h] \in {"work", "work while moving", "last work", "drain"}
    BY <1>2 DEF PlaceIs, InDoWork
  <2>2. NoId \notin Ids
    BY DEF NoId, Ids
  <2>6. Ids \subseteq Int /\ NoId \in Int
    BY DEF NoId, Ids
  <2>3. moving[h] # n
    <3>1. CASE moving[h] = NoId
      BY <1>4, <2>2, <3>1, Zenon
    <3>2. CASE moving[h] # NoId
      <4>1. pc[h] = "work while moving"
        BY <2>1, <3>2 DEF MovePcs
      <4> QED
        BY <1>4, <2>1, <4>1
    <3> QED
      BY <3>1, <3>2
  <2>4. moving[h] \in Int /\ n \in Int
    BY <1>4, <2>1, <2>6
  <2>5. Left(h, n) <=> n > moving[h]
    BY <2>3 DEF Left
  <2> QED
    BY <2>3, <2>4, <2>5
<1>13. TripsAt(h)' = (TripsAt(h) \ {t}) \union X /\ t \in TripsAt(h)
  <2> DEFINE sent == {<<c.id, h, <<"sent", c.iteration>>>> : c \in Chains(h)}
             left == {<<id, toMove[h][id], <<"left", h>>>> : id \in LeftAt(h)}
             orders == {<<c.n, c.to, <<"ordered", h>>>> : c \in OrdersAt(h)}
  <2>1. {<<c.id, h, <<"sent", c.iteration>>>> : c \in Chains(h)'} = sent
    BY <1>5
  <2>2. {<<id, toMove'[h][id], <<"left", h>>>> : id \in LeftAt(h)'} = left \union X
    <3>1. LeftAt(h) \subseteq DOMAIN toMove[h]
      BY DEF LeftAt
    <3>2. \A id \in LeftAt(h) : toMove'[h][id] = toMove[h][id]
      BY <1>7, <3>1
    <3>3. toMove'[h][n] = to
      BY <1>7
    <3> QED
      BY <1>11, <3>2, <3>3
  <2>3. {<<c.n, c.to, <<"ordered", h>>>> : c \in OrdersAt(h)'} = orders \ {t}
    <3>1. ASSUME NEW c \in OrdersAt(h), c # call
          PROVE  <<c.n, c.to, <<"ordered", h>>>> # t
      <4>1. c \in CallSet /\ c.fn = "move_markov_chain"
        <5>1. Content(h) \subseteq CallSet
          BY ContentIs DEF RInv
        <5> QED
          BY <3>1, <5>1 DEF OrdersAt, IsMove
      <4>2. c = MoveChain(c.n, c.to)
        BY <4>1, CallKinds
      <4>3. ~(c.n = n /\ c.to = to)
        BY <1>1, <3>1, <4>2
      <4> QED
        BY <4>3
    <3>2. <<call.n, call.to, <<"ordered", h>>>> = t
      BY DEF n, to
    <3> QED
      BY <1>5, <3>1, <3>2
  <2>4. t \in orders /\ t \notin sent /\ t \notin left
    <3>1. t \in orders
      BY <1>4 DEF n, to
    <3> QED
      BY <3>1
  <2>5. TripsAt(h) = sent \union orders \union left
    BY DEF TripsAt
  <2>6. TripsAt(h)' = {<<c.id, h, <<"sent", c.iteration>>>> : c \in Chains(h)'}
           \union {<<c.n, c.to, <<"ordered", h>>>> : c \in OrdersAt(h)'}
           \union {<<id, toMove'[h][id], <<"left", h>>>> : id \in LeftAt(h)'}
    BY DEF TripsAt
  <2> HIDE DEF t, sent, left, orders, X
  <2> QED
    BY <2>1, <2>2, <2>3, <2>4, <2>5, <2>6
<1>14. ASSUME NEW j \in Heads \ {h}
       PROVE  TripsAt(j)' = TripsAt(j)
  <2>1. LeftAt(j)' = LeftAt(j)
    BY <1>10, OthersKnow
  <2>2. SameTrips(j)
    BY <1>2, <1>7, <2>1 DEF SameTrips, SameCalls
  <2> QED
    BY <2>2, SameTripsAt
<1>15. t \in Trips /\ Trips' = (Trips \ {t}) \union X
  <2> HIDE DEF t, X
  <2> QED
    BY <1>13, <1>14, TripChanges
<1>16. /\ OneTrip(Trips')
       /\ \A j \in Heads : Coming(j)' \subseteq Coming(j)
       /\ \A j \in Heads : Coming(j)' # Coming(j) => passedOver' /\ j = to
  <2>1. CASE Left(h, n)
    <3>1. Trips' = (Trips \ {t}) \union {u} /\ t[1] = u[1] /\ t[2] = u[2]
      BY <1>15, <2>1
    <3> HIDE DEF t, u
    <3>2. OneTrip(Trips') /\ \A j : To(Trips', j) = To(Trips, j)
      BY <1>2, <1>15, <3>1, TripsGoOn
    <3> QED
      BY <3>2 DEF Coming
  <2>2. CASE ~Left(h, n)
    <3>1. Trips' = Trips \ {t} /\ t[2] = to
      BY <1>15, <2>2
    <3> HIDE DEF t
    <3>2. /\ OneTrip(Trips') /\ To(Trips', t[2]) = Coming(t[2]) \ {t[1]}
          /\ \A j : j # t[2] => Coming(j)' = Coming(j)
      BY <1>2, <1>15, <3>1, TripEnds
    <3>3. passedOver'
      BY <1>6, <1>12, <2>2, Zenon
    <3> QED
      BY <3>1, <3>2, <3>3 DEF Coming
  <2> QED
    BY <2>1, <2>2
<1>17. MovedIs(h)'
  <2>1. MovedIs(h) /\ to # h
    BY <1>2 DEF to
  <2>2. Coming(h)' = Coming(h)
    BY <1>16, <2>1
  <2>3. toGet'[h] = toGet[h] /\ inProgress'[h] = inProgress[h] /\ sendProgress'[h] = sendProgress[h]
        /\ (passedOver => passedOver')
    BY <1>3, <1>6
  <2>4. Counted(h)'
    BY <1>5, <2>1, <2>2, <2>3 DEF MovedIs, Counted
  <2>5. \A j \in Heads : DOMAIN channel'[j][h] = {}
    BY <1>2
  <2>6. ASSUME NEW c \in OrdersAt(h)'
        PROVE  c.n \in Ids \ DOMAIN toMove'[h]
    <3>1. c \in OrdersAt(h) /\ c # call
      BY <1>5
    <3>2. c.n \in Ids \ DOMAIN toMove[h]
      BY <2>1, <3>1 DEF MovedIs
    <3>3. c.n # n
      <4>1. ASSUME c.n = n
            PROVE  FALSE
        <5> DEFINE v == <<c.n, c.to, <<"ordered", h>>>>
        <5>1. v \in Trips
          BY <3>1 DEF Trips, TripsAt
        <5>2. v[1] = t[1]
          BY <4>1
        <5>3. v = t
          BY <1>2, <1>15, <5>1, <5>2 DEF OneTrip
        <5>4. c.to = to
          BY <5>3
        <5>5. c = MoveChain(c.n, c.to)
          <6>1. Content(h) \subseteq CallSet
            BY ContentIs DEF RInv
          <6> QED
            BY <3>1, <6>1, CallKinds DEF OrdersAt, IsMove
        <5> QED
          BY <1>1, <3>1, <4>1, <5>4, <5>5
      <4> QED
        BY <4>1
    <3> QED
      BY <1>7, <3>2, <3>3
  <2>7. \A c \in Content(h)' : IsMove(c) \/ c.fn = "recieve_markov_chain"
    BY <1>2, <2>1 DEF MovedIs
  <2>8. running'[h]
    BY <1>2, <1>4
  <2>9. Coming(h)' \subseteq Ids /\ Coming(h)' \intersect KnownTo(h)' = {}
    BY <1>9, <2>1, <2>2 DEF MovedIs
  <2>10. ~sendProgress'[h]
    BY <2>1, <2>3 DEF MovedIs
  <2> QED
    BY <2>4, <2>5, <2>6, <2>7, <2>8, <2>9, <2>10 DEF MovedIs, IsMove
<1>18. Moved'
  <2>1. ASSUME NEW j \in Heads, j # h
        PROVE  MovedIs(j)'
    <3>1. Coming(j)' \subseteq Coming(j) /\ (Coming(j)' # Coming(j) => passedOver')
      BY <1>16
    <3> QED
      BY <1>1, <1>10, <2>1, <3>1, OthersMoved
  <2>2. manager'.dataset = <<>>
    BY <1>2, <1>3
  <2>3. \A j \in Heads : MovedIs(j)'
    BY <1>17, <2>1
  <2> QED
    BY <1>16, <2>2, <2>3 DEF Moved, OneTrip
<1>19. KeptOnce'
  <2>1. ASSUME NEW j \in Heads
        PROVE  Keeps(j)' \subseteq Keeps(j) /\ Live(j)' \subseteq Live(j)
    <3>1. CASE j = h
      BY <1>5, <1>9, <3>1 DEF Live
    <3>2. CASE j # h
      BY <1>2, <1>10, <3>2, OthersKnow DEF SameCalls
    <3> QED
      BY <3>1, <3>2
  <2> QED
    BY <2>1, KeptOnceStays DEF RInv
<1> QED
  <2>1. disabled => ~manager.requested
    BY DEF RInv
  <2>2. /\ manager' = manager /\ manager.required = FALSE /\ manager.requested = TRUE
        /\ passedOver' \in BOOLEAN /\ CallsAre'
    BY <1>2, <1>3, <1>6, <2>1 DEF RInv
  <2> QED
    BY <1>9, <1>10, <1>18, <1>19, <2>1, <2>2, Assembled

(* A chain that arrives.                                                    *)
LEMMA RecieveExecuted ==
  ASSUME RInv, NEW h \in Heads, NEW call \in CallSet, Executes(h, call),
         RecieveMarkovChain(h, call)
  PROVE  RInv'
<1> DEFINE new == call.id
           it == call.iteration
           t == <<new, h, <<"sent", it>>>>
<1>1. /\ call.fn = "recieve_markov_chain" /\ call = RecieveChain(new, it)
      /\ new \in Ids /\ it \in 0 .. SizeModulus - 1
  BY CallKinds DEF RecieveMarkovChain
<1>2. /\ call \in Content(h) /\ ~manager.required /\ manager.requested
      /\ manager.dataset = <<>> /\ OneTrip(Trips) /\ \A j \in Heads : MovedIs(j)
      /\ PlaceIs(h) /\ ChainsAre(h) /\ FunctionsAre /\ passedOver \in BOOLEAN
      /\ UNCHANGED <<disabled, aborted, mh, workQueue, finished, running, moving>>
      /\ CallsAre' /\ Content(h)' = Content(h) \ {call}
      /\ \A j \in Heads \ {h} : SameCalls(j)
      /\ Chains(h)' = Chains(h) \ {call} /\ OrdersAt(h)' = OrdersAt(h) \ {call}
      /\ Announcements(h)' = Announcements(h) \ {call}
      /\ \A i, j \in Heads : channel'[i][j] = IF j = h THEN <<>> ELSE channel[i][j]
      /\ InDoWork(h) /\ AfterWork(h)
  BY <1>1, MoveExecuted
<1>3. /\ mcChainsToAdd' = [mcChainsToAdd EXCEPT ![h] = Emplaced(@, new, it)]
      /\ toGet' = [toGet EXCEPT ![h] = @ + -1]
      /\ inProgress' = [inProgress EXCEPT ![h] = @ /\ toGet[h] + -1 # 0]
      /\ UNCHANGED <<toMove, sendProgress, manager>>
  BY DEF RecieveMarkovChain, GotMarkovChain
<1>4. /\ call \in Chains(h) /\ call \notin OrdersAt(h) /\ call \notin Announcements(h)
      /\ OrdersAt(h)' = OrdersAt(h) /\ Announcements(h)' = Announcements(h)
      /\ Chains(h)' = Chains(h) \ {call}
  BY <1>1, <1>2 DEF Announcements, Chains, OrdersAt, IsMove
<1>5. passedOver' = passedOver
  BY <1>1, <1>2 DEF Executes, ComesTooLate
<1> HIDE DEF new, it
<1>6. t \in TripsAt(h) /\ t \in Trips /\ new \in Coming(h)
  <2>1. t \in TripsAt(h)
    BY <1>4 DEF TripsAt, new, it
  <2>2. t \in Trips
    BY <2>1 DEF Trips
  <2> QED
    BY <2>1, <2>2 DEF Coming, To
<1>7. /\ MovedIs(h) /\ Counted(h) /\ Coming(h) \subseteq Ids /\ new \notin KnownTo(h)
      /\ Cardinality(Coming(h)) \in Nat
      /\ Cardinality(Coming(h) \ {new}) = Cardinality(Coming(h)) - 1
      /\ Cardinality(Coming(h) \ {new}) \in Nat
  <2>1. /\ MovedIs(h) /\ Counted(h) /\ Coming(h) \subseteq Ids
        /\ Coming(h) \intersect KnownTo(h) = {}
    BY <1>2 DEF MovedIs
  <2>2. Coming(h) \ {new} \subseteq Ids
    BY <2>1
  <2> QED
    BY <1>6, <2>1, <2>2, IdsCount
<1>8. toGet[h] \in Int /\ \A c \in Announcements(h) : c.n \in Int
  BY AnnouncedNumbers
<1>9. running[h]
  <2>1. ASSUME ~running[h]
        PROVE  FALSE
    <3>1. toGet[h] = 0 /\ Announcements(h) = {}
      BY <1>7, <2>1 DEF MovedIs, Announcements
    <3>2. 0 >= Cardinality(Coming(h))
      BY <1>7, <3>1 DEF Counted
    <3> QED
      BY <1>7, <3>2
  <2> QED
    BY <2>1
<1>10. /\ toGet'[h] = toGet[h] - 1
       /\ inProgress'[h] = (inProgress[h] /\ toGet[h] - 1 # 0)
       /\ mcChainsToAdd'[h] = Emplaced(mcChainsToAdd[h], new, it)
       /\ \A j \in Heads \ {h} : /\ toGet'[j] = toGet[j] /\ inProgress'[j] = inProgress[j]
                                 /\ mcChainsToAdd'[j] = mcChainsToAdd[j]
       /\ DOMAIN toGet' = Heads /\ DOMAIN inProgress' = Heads /\ DOMAIN mcChainsToAdd' = Heads
  BY <1>2, <1>3, <1>8 DEF FunctionsAre
<1>11. WorkKeeps(h)
  <2>1. /\ toGet'[h] \in Int /\ inProgress'[h] \in BOOLEAN
        /\ sendProgress'[h] \in BOOLEAN
    <3>1. sendProgress[h] \in BOOLEAN /\ inProgress[h] \in BOOLEAN
      BY <1>2 DEF PlaceIs
    <3>2. toGet'[h] \in Int
      BY <1>8, <1>10
    <3>3. inProgress'[h] \in BOOLEAN
      BY <1>10, <3>1, Zenon
    <3>4. sendProgress' = sendProgress
      BY <1>3
    <3> QED
      BY <3>1, <3>2, <3>3, <3>4
  <2> QED
    BY <1>2, <1>3, <1>9, <2>1 DEF WorkKeeps
<1>12. /\ PlaceIs(h)'
       /\ \A id \in Ids : Left(h, id)' = Left(h, id)
       /\ pc[h] = "work while moving" => pc'[h] = "move"
       /\ DOMAIN pc' = Heads /\ DOMAIN iteration' = Heads
       /\ \A j \in Heads \ {h} : pc'[j] = pc[j] /\ iteration'[j] = iteration[j]
  BY <1>2, <1>11, Worked
<1>13. /\ DOMAIN mcChainsToAdd'[h] = DOMAIN mcChainsToAdd[h] \union {new}
       /\ mcChainsToAdd'[h][new] = it
       /\ \A id \in DOMAIN mcChainsToAdd[h] : mcChainsToAdd'[h][id] = mcChainsToAdd[h][id]
       /\ mcChainsToAdd'[h] \in [DOMAIN mcChainsToAdd'[h] -> 0 .. SizeModulus - 1]
  <2>1. new \notin DOMAIN mcChainsToAdd[h]
    BY <1>7 DEF KnownTo
  <2>2. mcChainsToAdd[h] \in [DOMAIN mcChainsToAdd[h] -> 0 .. SizeModulus - 1]
    BY <1>2 DEF ChainsAre
  <2>3. it \in 0 .. SizeModulus - 1
    BY <1>1
  <2> DEFINE Size == 0 .. SizeModulus - 1
  <2>4. it \in Size /\ mcChainsToAdd[h] \in [DOMAIN mcChainsToAdd[h] -> Size]
    BY <2>2, <2>3
  <2> HIDE DEF Size
  <2>5. /\ DOMAIN mcChainsToAdd'[h] = DOMAIN mcChainsToAdd[h] \union {new}
        /\ mcChainsToAdd'[h][new] = it
        /\ \A id \in DOMAIN mcChainsToAdd[h] : mcChainsToAdd'[h][id] = mcChainsToAdd[h][id]
        /\ mcChainsToAdd'[h] \in [DOMAIN mcChainsToAdd'[h] -> Size]
    BY <1>10, <2>1, <2>4 DEF Emplaced
  <2> QED
    BY <2>5 DEF Size
<1>14. /\ KnownTo(h)' = KnownTo(h) \union {new}
       /\ Keeps(h)' = IF it < TargetLength THEN Keeps(h) \union {new} ELSE Keeps(h)
       /\ QueuedAt(h)' = QueuedAt(h)
  <2>1. QueuedAt(h)' = QueuedAt(h)
    BY <1>2 DEF QueuedAt
  <2>2. Added(h)' = IF it < TargetLength THEN Added(h) \union {new} ELSE Added(h)
    <3>1. new \notin DOMAIN mcChainsToAdd[h]
      BY <1>7 DEF KnownTo
    <3>2. Added(h)' = {id \in DOMAIN mcChainsToAdd[h] \union {new} :
                         mcChainsToAdd'[h][id] < TargetLength}
      BY <1>13 DEF Added
    <3> QED
      BY <1>13, <3>1, <3>2 DEF Added
  <2> QED
    BY <1>2, <1>13, <2>1, <2>2 DEF KnownTo, Keeps
<1>15. ChainsAre(h)'
  <2>1. \A id \in DOMAIN mh[h] : mh[h][id].iteration = TargetLength =>
          id = moving[h] /\ pc'[h] \in {"move", "work while moving"}
            /\ mh[h][id].stage \in {"idle", "ended"}
    BY <1>2, <1>12 DEF ChainsAre, InDoWork
  <2>2. \A id \in DOMAIN mh[h] : ExactFor(h, id)' = ExactFor(h, id)
    BY <1>2 DEF ExactFor, Priority
  <2>3. DOMAIN mcChainsToAdd'[h]
          \intersect (DOMAIN mh[h] \union finished[h] \union QueuedAt(h)) = {}
    BY <1>2, <1>7, <1>13 DEF ChainsAre, KnownTo
  <2>4. KnownTo(h)' \subseteq Ids
    BY <1>1, <1>2, <1>14 DEF ChainsAre
  <2> QED
    BY <1>2, <1>3, <1>13, <1>14, <2>1, <2>2, <2>3, <2>4 DEF ChainsAre
<1>16. OthersSame(h)
  <2>1. aborted \in BOOLEAN
    BY DEF RInv
  <2> QED
    BY <1>2, <1>3, <1>10, <1>12, <2>1 DEF OthersSame, Same, FunctionsAre
<1>17. TripsAt(h)' = (TripsAt(h) \ {t}) \union {}
  <2> DEFINE sent == {<<c.id, h, <<"sent", c.iteration>>>> : c \in Chains(h)}
             left == {<<id, toMove[h][id], <<"left", h>>>> : id \in LeftAt(h)}
             orders == {<<c.n, c.to, <<"ordered", h>>>> : c \in OrdersAt(h)}
  <2>1. {<<c.id, h, <<"sent", c.iteration>>>> : c \in Chains(h)'} = sent \ {t}
    <3>1. ASSUME NEW c \in Chains(h), c # call
          PROVE  <<c.id, h, <<"sent", c.iteration>>>> # t
      <4>1. c = RecieveChain(c.id, c.iteration)
        <5>1. Content(h) \subseteq CallSet
          BY ContentIs DEF RInv
        <5> QED
          BY <3>1, <5>1, CallKinds DEF Chains
      <4>2. ~(c.id = new /\ c.iteration = it)
        BY <1>1, <3>1, <4>1
      <4> QED
        BY <4>2
    <3>2. <<call.id, h, <<"sent", call.iteration>>>> = t
      BY DEF new, it
    <3> QED
      BY <1>4, <3>1, <3>2
  <2>2. LeftAt(h)' = LeftAt(h)
    <3>1. DOMAIN toMove[h] \subseteq Ids /\ toMove' = toMove
      BY <1>2, <1>3 DEF ChainsAre
    <3> QED
      BY <1>12, <3>1 DEF LeftAt
  <2>3. {<<id, toMove'[h][id], <<"left", h>>>> : id \in LeftAt(h)'} = left
    BY <1>3, <2>2
  <2>4. {<<c.n, c.to, <<"ordered", h>>>> : c \in OrdersAt(h)'} = orders
    BY <1>4
  <2>5. t \in sent /\ t \notin orders /\ t \notin left
    <3>1. t \in sent
      BY <1>4 DEF new, it
    <3> QED
      BY <3>1
  <2>6. TripsAt(h) = sent \union orders \union left
    BY DEF TripsAt
  <2>7. TripsAt(h)' = {<<c.id, h, <<"sent", c.iteration>>>> : c \in Chains(h)'}
           \union {<<c.n, c.to, <<"ordered", h>>>> : c \in OrdersAt(h)'}
           \union {<<id, toMove'[h][id], <<"left", h>>>> : id \in LeftAt(h)'}
    BY DEF TripsAt
  <2> HIDE DEF t, sent, left, orders
  <2> QED
    BY <2>1, <2>3, <2>4, <2>5, <2>6, <2>7
<1>18. ASSUME NEW j \in Heads \ {h}
       PROVE  TripsAt(j)' = TripsAt(j)
  <2>1. LeftAt(j)' = LeftAt(j)
    BY <1>16, OthersKnow
  <2>2. SameTrips(j)
    BY <1>2, <1>3, <2>1 DEF SameTrips, SameCalls
  <2> QED
    BY <2>2, SameTripsAt
<1>19. Trips' = Trips \ {t}
  <2> HIDE DEF t
  <2>1. Trips' = (Trips \ {t}) \union {}
    BY <1>6, <1>17, <1>18, TripChanges
  <2> QED
    BY <2>1
<1>20. /\ OneTrip(Trips') /\ Coming(h)' = Coming(h) \ {new}
       /\ \A j \in Heads : j # h => Coming(j)' = Coming(j)
  <2>1. t[1] = new /\ t[2] = h
    OBVIOUS
  <2> HIDE DEF t
  <2>2. /\ OneTrip(Trips') /\ To(Trips', t[2]) = Coming(t[2]) \ {t[1]}
        /\ \A j : j # t[2] => Coming(j)' = Coming(j)
    BY <1>2, <1>6, <1>19, TripEnds
  <2> QED
    BY <2>1, <2>2 DEF Coming
<1>21. Counted(h)'
  <2>1. \A c, d \in Announcements(h) : c = d
    BY <1>7 DEF Counted
  <2>2. ASSUME NEW c \in Announcements(h)
        PROVE  /\ inProgress'[h] /\ toGet'[h] <= 0
               /\ toGet'[h] + c.n >= Cardinality(Coming(h)')
               /\ ~passedOver' => toGet'[h] + c.n = Cardinality(Coming(h)')
    <3>1. /\ inProgress[h] /\ toGet[h] <= 0
          /\ toGet[h] + c.n >= Cardinality(Coming(h))
          /\ ~passedOver => toGet[h] + c.n = Cardinality(Coming(h))
      BY <1>7 DEF Counted
    <3>2. inProgress'[h]
      <4>1. toGet[h] - 1 # 0
        BY <1>8, <3>1
      <4> QED
        BY <1>10, <3>1, <4>1, Zenon
    <3>3. /\ toGet[h] \in Int /\ c.n \in Int /\ toGet'[h] = toGet[h] - 1
          /\ Cardinality(Coming(h)') = Cardinality(Coming(h)) - 1
          /\ Cardinality(Coming(h)) \in Nat
      BY <1>7, <1>8, <1>10, <1>20
    <3>4. toGet'[h] <= 0 /\ toGet'[h] + c.n >= Cardinality(Coming(h)')
      BY <3>1, <3>3
    <3>5. ~passedOver' => toGet'[h] + c.n = Cardinality(Coming(h)')
      BY <1>5, <3>1, <3>3
    <3> QED
      BY <3>2, <3>4, <3>5
  <2>3. ASSUME Announcements(h) = {}
        PROVE  /\ toGet'[h] >= Cardinality(Coming(h)')
               /\ ~passedOver' => toGet'[h] = Cardinality(Coming(h)')
               /\ inProgress'[h] <=> toGet'[h] # 0
    <3>1. /\ toGet[h] >= Cardinality(Coming(h))
          /\ ~passedOver => toGet[h] = Cardinality(Coming(h))
          /\ inProgress[h] <=> toGet[h] # 0
      BY <1>7, <2>3 DEF Counted
    <3>2. toGet[h] # 0 /\ toGet[h] \in Int /\ Cardinality(Coming(h)) - 1 \in Nat
      BY <1>7, <1>8, <3>1
    <3>3. inProgress[h]
      BY <3>1, <3>2
    <3>4. inProgress'[h] <=> toGet'[h] # 0
      BY <1>10, <3>3
    <3> QED
      BY <1>5, <1>7, <1>8, <1>10, <1>20, <3>1, <3>4
  <2> QED
    BY <1>4, <2>1, <2>2, <2>3 DEF Counted
<1>22. MovedIs(h)'
  <2>1. \A j \in Heads : DOMAIN channel'[j][h] = {}
    BY <1>2
  <2>2. \A c \in OrdersAt(h)' : c.n \in Ids \ DOMAIN toMove'[h]
    BY <1>3, <1>4, <1>7 DEF MovedIs
  <2>3. \A c \in Content(h)' : IsMove(c) \/ c.fn = "recieve_markov_chain"
    BY <1>2, <1>7 DEF MovedIs
  <2>4. running'[h]
    BY <1>2, <1>9
  <2>5. Coming(h)' \subseteq Ids /\ Coming(h)' \intersect KnownTo(h)' = {}
    <3>1. Coming(h) \intersect KnownTo(h) = {}
      BY <1>7 DEF MovedIs
    <3> QED
      BY <1>7, <1>14, <1>20, <3>1
  <2>6. ~sendProgress'[h]
    BY <1>3, <1>7 DEF MovedIs
  <2> QED
    BY <1>21, <2>1, <2>2, <2>3, <2>4, <2>5, <2>6 DEF MovedIs, IsMove
<1>23. Moved'
  <2>1. ASSUME NEW j \in Heads, j # h
        PROVE  MovedIs(j)'
    <3>1. Coming(j)' = Coming(j)
      BY <1>20, <2>1
    <3> QED
      BY <1>1, <1>16, <2>1, <3>1, OthersMoved
  <2>2. manager'.dataset = <<>>
    BY <1>2, <1>3
  <2>3. \A j \in Heads : MovedIs(j)'
    BY <1>22, <2>1
  <2> QED
    BY <1>20, <2>2, <2>3 DEF Moved, OneTrip
<1>24. KeptOnce'
  <2>1. /\ \A g, k \in Heads : g # k => Keeps(g) \intersect Keeps(k) = {}
        /\ \A g, k \in Heads : Live(g) \intersect Keeps(k) = {}
    BY DEF RInv, KeptOnce
  <2>2. \A j \in Heads : j # h => Keeps(j)' = Keeps(j) /\ Live(j)' = Live(j)
    BY <1>2, <1>16, OthersKnow DEF SameCalls
  <2>3. it < TargetLength => new \in Live(h)
    BY <1>4 DEF Live, new, it
  <2>4. ASSUME NEW j \in Heads, it < TargetLength
        PROVE  new \notin Live(j)'
    <3>1. SUFFICES ASSUME NEW c \in Chains(j)', c.id = new
                   PROVE  FALSE
      BY DEF Live
    <3>2. c \in Chains(j) /\ (j = h => c # call)
      <4>1. CASE j = h
        BY <1>4, <4>1
      <4>2. CASE j # h
        BY <1>2, <4>2 DEF SameCalls
      <4> QED
        BY <4>1, <4>2
    <3> DEFINE v == <<c.id, j, <<"sent", c.iteration>>>>
    <3>3. v \in Trips /\ v[1] = t[1]
      BY <3>1, <3>2 DEF Trips, TripsAt
    <3>4. v = t
      BY <1>2, <1>6, <3>3 DEF OneTrip
    <3>5. j = h /\ c.iteration = it
      BY <3>4
    <3>6. c = RecieveChain(c.id, c.iteration)
      <4>1. Content(j) \subseteq CallSet
        BY ContentIs DEF RInv
      <4> QED
        BY <3>2, <4>1, CallKinds DEF Chains
    <3> QED
      BY <1>1, <3>1, <3>2, <3>5, <3>6
  <2>5. Live(h)' \subseteq Live(h)
    BY <1>4 DEF Live
  <2>6. ASSUME NEW g \in Heads, NEW k \in Heads, g # k
        PROVE  Keeps(g)' \intersect Keeps(k)' = {}
    BY <1>14, <2>1, <2>2, <2>3, <2>6
  <2>7. ASSUME NEW g \in Heads, NEW k \in Heads
        PROVE  Live(g)' \intersect Keeps(k)' = {}
    <3>1. Live(g)' \subseteq Live(g)
      BY <2>2, <2>5
    <3>2. CASE k = h
      BY <1>14, <2>1, <2>4, <3>1, <3>2
    <3>3. CASE k # h
      BY <2>1, <2>2, <3>1, <3>3
    <3> QED
      BY <3>2, <3>3
  <2> QED
    BY <2>6, <2>7 DEF KeptOnce
<1> QED
  <2>1. disabled => ~manager.requested
    BY DEF RInv
  <2>2. /\ manager' = manager /\ manager.required = FALSE /\ manager.requested = TRUE
        /\ passedOver' \in BOOLEAN /\ CallsAre'
    BY <1>2, <1>3, <1>5, <2>1 DEF RInv
  <2> QED
    BY <1>12, <1>15, <1>16, <1>23, <1>24, <2>1, <2>2, Assembled

(* Whatever call a head executes, the invariant holds after it.             *)
LEMMA ExecuteMoves ==
  ASSUME RInv, NEW h \in Heads, Execute(h)
  PROVE  RInv'
<1>1. PICK call \in CallSet : Executes(h, call)
  BY ExecutesOne
<1>2. \/ RequestProgressInfo(h, call) \/ PassProgressInfo(h, call)
      \/ MoveMarkovChain(h, call) \/ RecieveMarkovChain(h, call)
  BY <1>1 DEF Executes
<1> QED
  BY <1>1, <1>2, RequestExecuted, PassExecuted, AnnouncementExecuted, OrderExecuted,
    RecieveExecuted

-----------------------------------------------------------------------------
(* Sending a chain                                                         *)

(* One call to another head.                                                *)
LEMMA SendsOneCall ==
  ASSUME CallsAre, NEW h \in Heads, NEW to \in Heads, NEW call \in CallSet,
         call \notin Content(to), Schedule(h, <<<<to, call>>>>)
  PROVE  /\ CallsAre'
         /\ Content(to)' = Content(to) \union {call}
         /\ \A j \in Heads : j # to => Content(j)' = Content(j)
         /\ \A i, j \in Heads : \A k \in DOMAIN channel'[i][j] :
              \/ \E l \in DOMAIN channel[i][j] : channel'[i][j][k][2] = channel[i][j][l][2]
              \/ channel'[i][j][k][2] = call
<1> DEFINE calls == <<<<to, call>>>>
<1>1. calls \in Seq(Pairs) /\ DOMAIN calls = {1} /\ calls[1] = <<to, call>>
  BY OneOrNone DEF Pairs
<1>2. Schedule(h, calls)
  OBVIOUS
<1> HIDE DEF calls
<1>3. IsInjective(calls)
  BY <1>1 DEF IsInjective
<1>4. \A j \in Heads : NewFor(calls, j) = IF j = to THEN {call} ELSE {}
  <2> TAKE j \in Heads
  <2>1. \A c : (\E k \in DOMAIN calls : calls[k] = <<j, c>>) <=> j = to /\ c = call
    BY <1>1
  <2> QED
    BY <2>1 DEF NewFor
<1>5. \A j \in Heads : NewFor(calls, j) \cap Content(j) = {}
  BY <1>4
<1>6. /\ CallsAre'
      /\ \A j \in Heads : Content(j)' = Content(j) \union NewFor(calls, j)
      /\ \A i, j \in Heads : \A k \in DOMAIN channel'[i][j] :
           \/ \E l \in DOMAIN channel[i][j] : channel'[i][j][k][2] = channel[i][j][l][2]
           \/ channel'[i][j][k][2] \in NewFor(calls, j)
  BY <1>1, <1>2, <1>3, <1>5, Sends
<1>7. \A j \in Heads : j # to => Content(j)' = Content(j)
  BY <1>4, <1>6
<1>8. Content(to)' = Content(to) \union {call}
  BY <1>4, <1>6
<1>9. \A j \in Heads : \A c \in NewFor(calls, j) : c = call
  BY <1>4
<1> QED
  BY <1>6, <1>7, <1>8, <1>9

(* Head h knows of chains to move only while chains are moved.              *)
LEMMA InMoved ==
  ASSUME RInv, NEW h \in Heads, DOMAIN toMove[h] # {}
  PROVE  ~manager.required /\ manager.requested /\ Moved /\ running[h]
<1>1. ~Still(h)
  BY DEF Still
<1>2. manager.requested /\ ~manager.required
  BY <1>1 DEF RInv, Quiet, Asking, AskedIs
<1>3. running[h]
  BY DEF RInv, PlaceIs
<1> QED
  BY <1>2, <1>3 DEF RInv

(* A chain that is sent goes on from the trip that was left.                *)
LEMMA TripSent ==
  ASSUME NEW h \in Heads, NEW g \in Heads, g # h, NEW t \in TripsAt(h), NEW u,
         TripsAt(h)' = TripsAt(h) \ {t}, TripsAt(g)' = TripsAt(g) \union {u},
         \A j \in Heads : j # h /\ j # g => TripsAt(j)' = TripsAt(j)
  PROVE  t \in Trips /\ Trips' = (Trips \ {t}) \union {u}
<1>1. \A j \in Heads : t \in TripsAt(j) => j = h
  BY TripsApart
<1>2. ASSUME NEW x \in Trips'
      PROVE  x \in (Trips \ {t}) \union {u}
  <2>1. PICK j \in Heads : x \in TripsAt(j)'
    BY <1>2 DEF Trips
  <2>2. CASE j = h
    BY <2>1, <2>2 DEF Trips
  <2>3. CASE j = g
    BY <1>1, <2>1, <2>3 DEF Trips
  <2>4. CASE j # h /\ j # g
    BY <1>1, <2>1, <2>4 DEF Trips
  <2> QED
    BY <2>2, <2>3, <2>4
<1>3. ASSUME NEW x \in (Trips \ {t}) \union {u}
      PROVE  x \in Trips'
  <2>1. CASE x = u
    BY <2>1 DEF Trips
  <2>2. CASE x \in Trips /\ x # t
    <3>1. PICK j \in Heads : x \in TripsAt(j)
      BY <2>2 DEF Trips
    <3>2. x \in TripsAt(j)'
      BY <2>2, <3>1
    <3> QED
      BY <3>2 DEF Trips
  <2> QED
    BY <1>3, <2>1, <2>2
<1>4. t \in Trips
  BY DEF Trips
<1> QED
  BY <1>2, <1>3, <1>4

(* A head that at most gets chains sent, and still waits for the same ones. *)
LEMMA StaysMoved ==
  ASSUME NEW j \in Heads, MovedIs(j), Coming(j)' = Coming(j), KnownTo(j)' \subseteq KnownTo(j),
         Announcements(j)' = Announcements(j), OrdersAt(j)' = OrdersAt(j),
         \A c \in Content(j)' : c \in Content(j) \/ c.fn = "recieve_markov_chain",
         \A i \in Heads : \A k \in DOMAIN channel'[i][j] :
           \/ \E l \in DOMAIN channel[i][j] : channel'[i][j][k][2] = channel[i][j][l][2]
           \/ ~IsMove(channel'[i][j][k][2]),
         UNCHANGED <<running, moves>>
  PROVE  MovedIs(j)'
<1>1. UNCHANGED <<running, toMove, toGet, inProgress, sendProgress, passedOver>>
  BY DEF moves
<1>2. Counted(j)'
  BY <1>1 DEF MovedIs, Counted
<1>3. ASSUME NEW i \in Heads \ {j}, NEW k \in DOMAIN channel'[i][j], IsMove(channel'[i][j][k][2])
      PROVE  Announcements(j)' # {}
  <2>1. \E l \in DOMAIN channel[i][j] : IsMove(channel[i][j][l][2])
    BY <1>3
  <2> QED
    BY <2>1 DEF MovedIs
<1>4. \A c \in Content(j)' : IsMove(c) \/ c.fn = "recieve_markov_chain"
  BY DEF MovedIs, IsMove
<1>5. ~running'[j] => toGet'[j] = 0 /\ \A c \in Content(j)' : ~IsMove(c)
  BY <1>1 DEF MovedIs, IsMove
<1>6. \A c \in OrdersAt(j)' : c.n \in Ids \ DOMAIN toMove'[j]
  BY <1>1 DEF MovedIs
<1>7. /\ ~sendProgress'[j] /\ Coming(j)' \subseteq Ids /\ Coming(j)' \intersect KnownTo(j)' = {}
  BY <1>1 DEF MovedIs
<1> QED
  BY <1>2, <1>3, <1>4, <1>5, <1>6, <1>7 DEF MovedIs, IsMove

(* Head h sends the chain it has reached, and has it no more.               *)
Away(h, it) ==
  /\ pc[h] = "move" /\ it \in 0 .. SizeModulus - 1
  /\ Schedule(h, <<<<toMove[h][moving[h]], RecieveChain(moving[h], it)>>>>)
  /\ Goto(h, "next move")
  /\ UNCHANGED <<disabled, aborted, mcChainsToAdd, workQueue, finished, iteration,
                 running, moves, manager>>
  /\ DOMAIN mh' = Heads /\ \A j \in Heads \ {h} : mh'[j] = mh[j]
  /\ mh'[h] \in [DOMAIN mh'[h] -> Objs]
  /\ DOMAIN mh'[h] = DOMAIN mh[h] \ {moving[h]}
  /\ \A id \in DOMAIN mh'[h] : mh'[h][id] = mh[h][id]
  /\ it < TargetLength => moving[h] \in Keeps(h) /\ moving[h] \notin Keeps(h)'

(* What a head keeps and what is on its way when it sends a chain away.     *)
LEMMA AwayFrom ==
  ASSUME RInv, NEW h \in Heads, NEW it, Away(h, it), NEW id, NEW to,
         id = moving[h], to = toMove[h][id]
  PROVE  RInv'
<1> DEFINE call == RecieveChain(id, it)
           t == <<id, to, <<"left", h>>>>
           u == <<id, to, <<"sent", it>>>>
<1>1. /\ PlaceIs(h) /\ ChainsAre(h) /\ FunctionsAre /\ CallsAre /\ aborted \in BOOLEAN
      /\ pc[h] = "move" /\ it \in 0 .. SizeModulus - 1
  BY InvParts DEF Away
<1>2. /\ id \in DOMAIN toMove[h] /\ id \in Ids /\ to \in Heads /\ to # h
      /\ DOMAIN toMove[h] \subseteq Ids
  BY <1>1 DEF PlaceIs, ChainsAre
<1>3. /\ ~manager.required /\ manager.requested /\ manager.dataset = <<>>
      /\ OneTrip(Trips) /\ running[h] /\ \A j \in Heads : MovedIs(j)
  BY <1>2, InMoved DEF Moved
<1>4. id \in LeftAt(h)
  BY <1>1, <1>2 DEF LeftAt, Left
<1>5. t \in TripsAt(h) /\ t \in Trips
  <2>1. t \in TripsAt(h)
    BY <1>4 DEF TripsAt
  <2> QED
    BY <2>1 DEF Trips
<1>6. call \in CallSet /\ call.fn = "recieve_markov_chain" /\ call.id = id /\ call.iteration = it
  BY <1>1, <1>2 DEF CallSet, RecieveChain
<1>7. call \notin Content(to)
  <2>1. ASSUME call \in Content(to)
        PROVE  FALSE
    <3>1. u \in TripsAt(to)
      BY <1>6, <2>1 DEF TripsAt, Chains
    <3>2. u \in Trips /\ u[1] = t[1]
      BY <1>2, <3>1 DEF Trips
    <3>3. u = t
      BY <1>3, <1>5, <3>2 DEF OneTrip
    <3> QED
      BY <3>3
  <2> QED
    BY <2>1
<1>8. Schedule(h, <<<<to, call>>>>)
  BY DEF Away
<1>9. /\ pc' = [pc EXCEPT ![h] = "next move"]
      /\ UNCHANGED <<disabled, aborted, mcChainsToAdd, workQueue, finished, iteration, running,
                     toMove, moving, toGet, inProgress, sendProgress, passedOver, manager>>
      /\ UNCHANGED moves
  BY DEF Away, Goto, moves
<1>10. /\ DOMAIN mh' = Heads /\ \A j \in Heads \ {h} : mh'[j] = mh[j]
       /\ mh'[h] \in [DOMAIN mh'[h] -> Objs]
       /\ DOMAIN mh'[h] = DOMAIN mh[h] \ {id}
       /\ \A x \in DOMAIN mh'[h] : mh'[h][x] = mh[h][x]
       /\ it < TargetLength => id \in Keeps(h) /\ id \notin Keeps(h)'
  BY DEF Away
<1> HIDE DEF call
<1>11. /\ CallsAre'
       /\ Content(to)' = Content(to) \union {call}
       /\ \A j \in Heads : j # to => Content(j)' = Content(j)
       /\ \A i, j \in Heads : \A k \in DOMAIN channel'[i][j] :
            \/ \E l \in DOMAIN channel[i][j] : channel'[i][j][k][2] = channel[i][j][l][2]
            \/ channel'[i][j][k][2] = call
  BY <1>1, <1>2, <1>6, <1>7, <1>8, SendsOneCall
<1>12. /\ \A j \in Heads : j # to => SameCalls(j)
       /\ Chains(to)' = Chains(to) \union {call}
       /\ \A j \in Heads : Announcements(j)' = Announcements(j) /\ OrdersAt(j)' = OrdersAt(j)
  <2>1. \A j \in Heads : j # to => SameCalls(j)
    BY <1>11, SameContent
  <2>2. Chains(to)' = Chains(to) \union {call}
    BY <1>6, <1>11 DEF Chains
  <2>3. Announcements(to)' = Announcements(to) /\ OrdersAt(to)' = OrdersAt(to)
    BY <1>6, <1>11 DEF Announcements, OrdersAt, IsMove
  <2> QED
    BY <2>1, <2>2, <2>3 DEF SameCalls
<1>13. pc'[h] = "next move" /\ DOMAIN pc' = Heads /\ \A j \in Heads \ {h} : pc'[j] = pc[j]
  BY <1>1, <1>9 DEF FunctionsAre
<1>14. OthersSame(h)
  BY <1>1, <1>9, <1>10, <1>13 DEF OthersSame, Same, FunctionsAre
<1>15. LeftAt(h)' = LeftAt(h) \ {id}
  <2>1. Ids \subseteq Int
    BY DEF Ids
  <2>2. moving[h] = id /\ moving' = moving /\ toMove' = toMove
    BY <1>9
  <2>3. LeftAt(h)' = {x \in DOMAIN toMove[h] : x > id}
    BY <1>13, <2>2 DEF LeftAt, Left
  <2>4. LeftAt(h) = {x \in DOMAIN toMove[h] : x > id \/ x = id}
    BY <1>1, <2>2 DEF LeftAt, Left
  <2>5. ~(id > id)
    BY <1>2, <2>1
  <2> QED
    BY <2>3, <2>4, <2>5
<1>16. TripsAt(h)' = TripsAt(h) \ {t}
  <2> DEFINE sent == {<<c.id, h, <<"sent", c.iteration>>>> : c \in Chains(h)}
             left == {<<x, toMove[h][x], <<"left", h>>>> : x \in LeftAt(h)}
             orders == {<<c.n, c.to, <<"ordered", h>>>> : c \in OrdersAt(h)}
  <2>1. Chains(h)' = Chains(h) /\ OrdersAt(h)' = OrdersAt(h)
    BY <1>2, <1>12 DEF SameCalls
  <2>2. {<<x, toMove'[h][x], <<"left", h>>>> : x \in LeftAt(h)'} = left \ {t}
    <3>1. \A x \in LeftAt(h) : x # id => <<x, toMove[h][x], <<"left", h>>>> # t
      OBVIOUS
    <3>2. <<id, toMove[h][id], <<"left", h>>>> = t
      OBVIOUS
    <3> HIDE DEF t
    <3> QED
      BY <1>9, <1>15, <3>1, <3>2
  <2>3. t \notin sent /\ t \notin orders
    OBVIOUS
  <2>4. TripsAt(h) = sent \union orders \union left
    BY DEF TripsAt
  <2>5. TripsAt(h)' = {<<c.id, h, <<"sent", c.iteration>>>> : c \in Chains(h)'}
           \union {<<c.n, c.to, <<"ordered", h>>>> : c \in OrdersAt(h)'}
           \union {<<x, toMove'[h][x], <<"left", h>>>> : x \in LeftAt(h)'}
    BY DEF TripsAt
  <2>6. /\ {<<c.id, h, <<"sent", c.iteration>>>> : c \in Chains(h)'} = sent
        /\ {<<c.n, c.to, <<"ordered", h>>>> : c \in OrdersAt(h)'} = orders
    BY <2>1
  <2> HIDE DEF t, sent, left, orders
  <2> QED
    BY <2>2, <2>3, <2>4, <2>5, <2>6
<1>17. TripsAt(to)' = TripsAt(to) \union {u}
  <2> DEFINE sent == {<<c.id, to, <<"sent", c.iteration>>>> : c \in Chains(to)}
             left == {<<x, toMove[to][x], <<"left", to>>>> : x \in LeftAt(to)}
             orders == {<<c.n, c.to, <<"ordered", to>>>> : c \in OrdersAt(to)}
  <2>1. {<<c.id, to, <<"sent", c.iteration>>>> : c \in Chains(to)'} = sent \union {u}
    BY <1>6, <1>12
  <2>2. LeftAt(to)' = LeftAt(to)
    BY <1>2, <1>14, OthersKnow
  <2>3. {<<x, toMove'[to][x], <<"left", to>>>> : x \in LeftAt(to)'} = left
    BY <1>9, <2>2
  <2>4. {<<c.n, c.to, <<"ordered", to>>>> : c \in OrdersAt(to)'} = orders
    BY <1>2, <1>12
  <2>5. TripsAt(to) = sent \union orders \union left
    BY DEF TripsAt
  <2>6. TripsAt(to)' = {<<c.id, to, <<"sent", c.iteration>>>> : c \in Chains(to)'}
           \union {<<c.n, c.to, <<"ordered", to>>>> : c \in OrdersAt(to)'}
           \union {<<x, toMove'[to][x], <<"left", to>>>> : x \in LeftAt(to)'}
    BY DEF TripsAt
  <2> HIDE DEF u, sent, left, orders
  <2> QED
    BY <2>1, <2>3, <2>4, <2>5, <2>6
<1>18. ASSUME NEW j \in Heads, j # h, j # to
       PROVE  TripsAt(j)' = TripsAt(j)
  <2>1. LeftAt(j)' = LeftAt(j)
    BY <1>14, <1>18, OthersKnow
  <2>2. SameTrips(j)
    BY <1>9, <1>12, <1>18, <2>1 DEF SameTrips, SameCalls
  <2> QED
    BY <2>2, SameTripsAt
<1>19. OneTrip(Trips') /\ \A j : Coming(j)' = Coming(j)
  <2>1. t[1] = u[1] /\ t[2] = u[2]
    OBVIOUS
  <2> HIDE DEF t, u
  <2>2. t \in Trips /\ Trips' = (Trips \ {t}) \union {u}
    BY <1>2, <1>5, <1>16, <1>17, <1>18, TripSent
  <2>3. OneTrip(Trips') /\ \A j : To(Trips', j) = To(Trips, j)
    BY <1>3, <2>1, <2>2, TripsGoOn
  <2> QED
    BY <2>3 DEF Coming
<1>20. KnownTo(h)' \subseteq KnownTo(h) /\ Keeps(h)' \subseteq Keeps(h) /\ QueuedAt(h)' = QueuedAt(h)
  <2>1. QueuedAt(h)' = QueuedAt(h) /\ Added(h)' = Added(h)
    BY <1>9 DEF QueuedAt, Added
  <2> QED
    BY <1>9, <1>10, <2>1 DEF KnownTo, Keeps
<1>21. \A j \in Heads : j # h => KnownTo(j)' = KnownTo(j) /\ Keeps(j)' = Keeps(j)
  BY <1>14, OthersKnow
<1>22. Moved'
  <2>1. ASSUME NEW j \in Heads
        PROVE  MovedIs(j)'
    <3>1. KnownTo(j)' \subseteq KnownTo(j)
      BY <1>20, <1>21
    <3>2. \A c \in Content(j)' : c \in Content(j) \/ c.fn = "recieve_markov_chain"
      BY <1>6, <1>11
    <3>3. \A i \in Heads : \A k \in DOMAIN channel'[i][j] :
            \/ \E l \in DOMAIN channel[i][j] : channel'[i][j][k][2] = channel[i][j][l][2]
            \/ ~IsMove(channel'[i][j][k][2])
      BY <1>6, <1>11 DEF IsMove
    <3>4. UNCHANGED <<running, moves>>
      BY <1>9
    <3> QED
      BY <1>3, <1>12, <1>19, <3>1, <3>2, <3>3, <3>4, StaysMoved
  <2>2. manager'.dataset = <<>>
    BY <1>3, <1>9
  <2> QED
    BY <1>19, <2>1, <2>2 DEF Moved, OneTrip
<1>23. KeptOnce'
  <2>1. /\ \A g, k \in Heads : g # k => Keeps(g) \intersect Keeps(k) = {}
        /\ \A g, k \in Heads : Live(g) \intersect Keeps(k) = {}
    BY DEF RInv, KeptOnce
  <2>2. \A j \in Heads : Keeps(j)' \subseteq Keeps(j)
    BY <1>20, <1>21
  <2>3. Live(to)' = IF it < TargetLength THEN Live(to) \union {id} ELSE Live(to)
    BY <1>6, <1>12 DEF Live
  <2>4. \A j \in Heads : j # to => Live(j)' = Live(j)
    BY <1>12 DEF SameCalls
  <2>5. ASSUME NEW k \in Heads, it < TargetLength
        PROVE  id \notin Keeps(k)'
    <3>1. CASE k = h
      BY <1>10, <2>5, <3>1
    <3>2. CASE k # h
      BY <1>10, <2>1, <2>2, <2>5, <3>2
    <3> QED
      BY <3>1, <3>2
  <2>6. ASSUME NEW g \in Heads, NEW k \in Heads
        PROVE  Live(g)' \intersect Keeps(k)' = {}
    <3>1. Live(g) \intersect Keeps(k)' = {}
      BY <2>1, <2>2
    <3>2. CASE g = to
      BY <2>3, <2>5, <3>1, <3>2
    <3>3. CASE g # to
      BY <2>4, <3>1, <3>3
    <3> QED
      BY <3>2, <3>3
  <2>7. \A g, k \in Heads : g # k => Keeps(g)' \intersect Keeps(k)' = {}
    BY <2>1, <2>2
  <2> QED
    BY <2>6, <2>7 DEF KeptOnce
<1>24. PlaceIs(h)'
  <2>1. moving'[h] = id /\ id \in Ids /\ id \notin DOMAIN mh'[h]
    BY <1>2, <1>9, <1>10
  <2>2. running'[h]
    BY <1>3, <1>9
  <2> QED
    BY <1>1, <1>9, <1>13, <2>1, <2>2 DEF PlaceIs, Pcs, MovePcs
<1>25. ChainsAre(h)'
  <2>1. \A x \in DOMAIN mh'[h] : mh'[h][x].iteration # TargetLength
    BY <1>1, <1>10 DEF ChainsAre
  <2>2. \A x \in DOMAIN mh'[h] : ExactFor(h, x)
    BY <1>1, <1>10 DEF ChainsAre
  <2>3. \A x \in DOMAIN mh'[h] : ExactFor(h, x)' = ExactFor(h, x)
    BY <1>9, <1>10 DEF ExactFor, Priority
  <2>4. /\ mcChainsToAdd[h] \in [DOMAIN mcChainsToAdd[h] -> 0 .. SizeModulus - 1]
        /\ toMove[h] \in [DOMAIN toMove[h] -> Heads \ {h}]
        /\ workQueue[h] \subseteq (1 .. TargetLength) \X Ids
        /\ DOMAIN mcChainsToAdd[h] \intersect (DOMAIN mh'[h] \union finished[h] \union QueuedAt(h)) = {}
        /\ DOMAIN mh'[h] \intersect finished[h] = {}
    BY <1>1, <1>10 DEF ChainsAre
  <2>5. KnownTo(h)' \subseteq Ids
    BY <1>1, <1>20 DEF ChainsAre
  <2> QED
    BY <1>2, <1>9, <1>10, <1>20, <2>1, <2>2, <2>3, <2>4, <2>5 DEF ChainsAre
<1> QED
  <2>1. /\ manager' = manager /\ manager.required = FALSE /\ manager.requested = TRUE
        /\ passedOver' \in BOOLEAN /\ CallsAre' /\ (disabled => ~manager.requested)
    BY <1>3, <1>9, <1>11 DEF RInv
  <2> QED
    BY <1>14, <1>22, <1>23, <1>24, <1>25, <2>1, Assembled

(* A chain sent away, or a state that stands for a finished one, keeps the  *)
(* invariant.                                                               *)
LEMMA AwayMoves ==
  ASSUME RInv, NEW h \in Heads, NEW it, Away(h, it)
  PROVE  RInv'
<1>1. \E id, to : id = moving[h] /\ to = toMove[h][id]
  OBVIOUS
<1> QED
  BY <1>1, AwayFrom

(* A state that stands for a finished chain.                                *)
LEMMA SendDummyMoves ==
  ASSUME RInv, NEW h \in Heads, SendDummy(h)
  PROVE  RInv'
<1>1. /\ PlaceIs(h) /\ ChainsAre(h) /\ FunctionsAre /\ pc[h] = "move" /\ moving[h] \in finished[h]
      /\ UNCHANGED <<disabled, aborted, mcChainsToAdd, mh, workQueue, finished, iteration,
                     running, moves, manager>>
      /\ Goto(h, "next move")
      /\ Schedule(h, <<<<toMove[h][moving[h]], RecieveChain(moving[h], SizeModulus - 1)>>>>)
  BY InvParts DEF SendDummy, chains
<1>2. SizeModulus - 1 \in 0 .. SizeModulus - 1 /\ ~(SizeModulus - 1 < TargetLength)
  BY HeadLoopAssumption
<1>3. mh[h] \in [DOMAIN mh[h] -> Objs] /\ moving[h] \notin DOMAIN mh[h] /\ DOMAIN mh = Heads
  BY <1>1 DEF ChainsAre, FunctionsAre
<1>4. Away(h, SizeModulus - 1)
  BY <1>1, <1>2, <1>3 DEF Away
<1> QED
  BY <1>4, AwayMoves

(* A chain with its last state.                                             *)
LEMMA SendChainMoves ==
  ASSUME RInv, NEW h \in Heads, SendChain(h)
  PROVE  RInv'
<1> DEFINE id == moving[h]
           sent == (mh[h][id].iteration - 1) % SizeModulus
<1>1. /\ PlaceIs(h) /\ ChainsAre(h) /\ FunctionsAre /\ pc[h] = "move"
      /\ id \in DOMAIN mh[h] \ finished[h] /\ Erase(h, id)
      /\ UNCHANGED <<disabled, aborted, mcChainsToAdd, workQueue, finished, iteration,
                     running, moves, manager>>
      /\ Goto(h, "next move")
      /\ Schedule(h, <<<<toMove[h][id], RecieveChain(id, sent)>>>>)
  BY InvParts DEF SendChain
<1>2. sent \in 0 .. SizeModulus - 1
  <2>1. mh[h][id].iteration \in 0 .. TargetLength
    BY <1>1 DEF ChainsAre, Objs
  <2> QED
    BY <2>1, HeadLoopAssumption
<1>3. /\ DOMAIN mh' = Heads /\ \A j \in Heads \ {h} : mh'[j] = mh[j]
      /\ mh'[h] = Restrict(mh[h], DOMAIN mh[h] \ {id})
  BY <1>1 DEF Erase, FunctionsAre
<1>4. mh[h] \in [DOMAIN mh[h] -> Objs] /\ DOMAIN mh[h] \intersect finished[h] = {}
  BY <1>1 DEF ChainsAre
<1>5. /\ mh'[h] \in [DOMAIN mh'[h] -> Objs]
      /\ DOMAIN mh'[h] = DOMAIN mh[h] \ {id}
      /\ \A x \in DOMAIN mh'[h] : mh'[h][x] = mh[h][x]
  BY <1>3, <1>4 DEF Restrict
<1>6. id \in Keeps(h) /\ id \notin Keeps(h)'
  <2>1. id \in Keeps(h)
    BY <1>1 DEF Keeps
  <2>2. Added(h)' = Added(h) /\ Added(h) \subseteq DOMAIN mcChainsToAdd[h]
    BY <1>1 DEF Added
  <2>3. id \notin DOMAIN mcChainsToAdd[h]
    BY <1>1 DEF ChainsAre
  <2> QED
    BY <1>1, <1>5, <2>1, <2>2, <2>3 DEF Keeps
<1> HIDE DEF sent
<1>7. Away(h, sent)
  BY <1>1, <1>2, <1>3, <1>5, <1>6 DEF Away
<1>8. PICK it : it = sent
  OBVIOUS
<1>9. Away(h, it)
  BY <1>7, <1>8
<1> QED
  BY <1>9, AwayMoves

-----------------------------------------------------------------------------
(* Asking for the progress, and passing it                                 *)

(* A finite set as a sequence.                                              *)
LEMMA SomeSequence ==
  ASSUME NEW S, IsFiniteSet(S)
  PROVE  SetToSeq(S) \in Seq(S) /\ IsInjective(SetToSeq(S))
<1> DEFINE n == Cardinality(S)
<1>1. n \in Nat /\ ExistsBijection(1 .. n, S)
  BY FS_CardinalityType
<1>2. \E f \in [1 .. n -> S] : IsInjective(f)
  <2>1. PICK f : f \in Bijection(1 .. n, S)
    BY <1>1 DEF ExistsBijection
  <2>2. f \in [1 .. n -> S] /\ \A x, y \in 1 .. n : f[x] = f[y] => x = y
    <3> HIDE DEF n
    <3> QED
      BY <2>1, Fun_BijectionProperties
  <2>3. IsInjective(f)
    BY <2>2 DEF IsInjective
  <2> QED
    BY <2>2, <2>3
<1>3. SetToSeq(S) \in [1 .. n -> S] /\ IsInjective(SetToSeq(S))
  BY <1>2, Zenon DEF SetToSeq
<1> HIDE DEF n
<1> QED
  BY <1>1, <1>3

(* One report for each chain of the head.                                   *)
LEMMA ProgressCallsAre ==
  ASSUME NEW h \in Heads, PlaceIs(h), ChainsAre(h)
  PROVE  /\ ProgressCalls(h) \in Seq(Pairs)
         /\ IsInjective(ProgressCalls(h))
         /\ \A k \in DOMAIN ProgressCalls(h) :
              \E id \in DOMAIN mh[h] :
                ProgressCalls(h)[k] = <<0, PassProgress(id, mh[h][id].iteration, h)>>
         /\ \A k, l \in DOMAIN ProgressCalls(h) :
              ProgressCalls(h)[k][2].id = ProgressCalls(h)[l][2].id => k = l
<1> DEFINE S == DOMAIN mh[h]
           s == SetToSeq(S)
           ids == StableSort(<, s)
           calls == ProgressCalls(h)
<1>1. S \subseteq Ids /\ IsFiniteSet(S) /\ S \subseteq Int
  <2>1. S \subseteq Ids
    BY DEF ChainsAre, KnownTo
  <2>2. Ids \subseteq Int
    BY DEF Ids
  <2> HIDE DEF S
  <2> QED
    BY <2>1, <2>2, IdsCount
<1>2. s \in Seq(S) /\ IsInjective(s)
  <2> HIDE DEF S
  <2> QED
    BY <1>1, SomeSequence
<1>3. ids \in Seq(S) /\ IsInjective(ids)
  <2> HIDE DEF S, s
  <2>1. ids \in Seq(S) /\ Rearranges(ids, s)
    BY <1>1, <1>2, SortsNumbers
  <2> HIDE DEF ids
  <2> QED
    BY <1>2, <2>1, RearrangedSet
<1>4. calls = [k \in DOMAIN ids |-> <<0, PassProgress(ids[k], mh[h][ids[k]].iteration, h)>>]
  BY DEF ProgressCalls
<1> HIDE DEF ids, calls
<1>5. DOMAIN ids = 1 .. Len(ids) /\ Len(ids) \in Nat /\ \A k \in DOMAIN ids : ids[k] \in S
  BY <1>3
<1>6. \A id \in S : mh[h][id].iteration \in 0 .. TargetLength
  BY DEF ChainsAre, Objs
<1>7. 0 \in Heads
  BY Numbers DEF Heads
<1>8. \A k \in DOMAIN ids : <<0, PassProgress(ids[k], mh[h][ids[k]].iteration, h)>> \in Pairs
  <2> TAKE k \in DOMAIN ids
  <2>1. ids[k] \in S /\ ids[k] \in Ids /\ mh[h][ids[k]].iteration \in 0 .. TargetLength
    BY <1>1, <1>5, <1>6
  <2>2. PassProgress(ids[k], mh[h][ids[k]].iteration, h) \in CallSet
    BY <2>1 DEF CallSet
  <2> QED
    BY <1>7, <2>2 DEF Pairs
<1>9. calls \in Seq(Pairs) /\ DOMAIN calls = DOMAIN ids
  <2>1. calls \in [1 .. Len(ids) -> Pairs]
    BY <1>4, <1>5, <1>8
  <2> QED
    BY <1>4, <1>5, <2>1
<1>10. \A k \in DOMAIN calls : calls[k][2].id = ids[k]
  BY <1>4 DEF PassProgress
<1>11. \A k, l \in DOMAIN calls : calls[k][2].id = calls[l][2].id => k = l
  BY <1>3, <1>9, <1>10 DEF IsInjective
<1>12. IsInjective(calls)
  BY <1>11 DEF IsInjective
<1>13. \A k \in DOMAIN calls : \E id \in S :
         calls[k] = <<0, PassProgress(id, mh[h][id].iteration, h)>>
  BY <1>4, <1>5
<1> QED
  BY <1>9, <1>11, <1>12, <1>13 DEF calls

LEMMA ShareStays ==
  \A g : Share(g)' = Share(g)
BY DEF Share, ShareStart, ShareSize, PerHead, Larger

(* A head that passes the progress of its chains keeps the invariant.       *)
LEMMA SendProgressMoves ==
  ASSUME RInv, NEW h \in Heads, SendProgress(h)
  PROVE  RInv'
<1> DEFINE calls == ProgressCalls(h)
           N == NewFor(calls, 0)
<1>1. /\ PlaceIs(h) /\ ChainsAre(h) /\ FunctionsAre /\ CallsAre /\ aborted \in BOOLEAN
      /\ pc[h] = "progress" /\ sendProgress[h] /\ passedOver \in BOOLEAN
  BY InvParts DEF SendProgress, PlaceIs, RInv
<1>2. /\ Schedule(h, calls)
      /\ sendProgress' = [sendProgress EXCEPT ![h] = FALSE]
      /\ pc' = [pc EXCEPT ![h] = AfterProgress(h)]
      /\ UNCHANGED <<disabled, aborted, chains, iteration, running, toMove, moving,
                     toGet, inProgress, passedOver, manager>>
  BY DEF SendProgress, Goto
<1>3. manager.required /\ manager.requested /\ Asking /\ AskedIs(h)
  <2>1. manager.requested
    BY <1>1 DEF RInv, Quiet
  <2>2. manager.required
    BY <1>1, <2>1 DEF RInv, Moved, MovedIs
  <2> QED
    BY <2>1, <2>2 DEF RInv, Asking
<1>4. /\ Still(h) /\ RequestProgress \notin Content(h) /\ inProgress[h] /\ ~ReportedBy(h)
      /\ DOMAIN mh[h] \subseteq Share(h)
  BY <1>1, <1>3 DEF AskedIs, Still, KnownTo
<1>5. /\ calls \in Seq(Pairs) /\ IsInjective(calls)
      /\ \A k \in DOMAIN calls : \E id \in DOMAIN mh[h] :
           calls[k] = <<0, PassProgress(id, mh[h][id].iteration, h)>>
      /\ \A k, l \in DOMAIN calls : calls[k][2].id = calls[l][2].id => k = l
  BY <1>1, ProgressCallsAre
<1> HIDE DEF calls
<1>6. 0 \in Heads
  BY Numbers DEF Heads
<1>7. ASSUME NEW c \in N
      PROVE  /\ c.fn = "pass_progress_info" /\ c.wg = h /\ c.id \in DOMAIN mh[h] /\ c \in CallSet
             /\ \A d \in N : d.id = c.id => d = c
  <2>1. c \in CallSet /\ \E k \in DOMAIN calls : calls[k] = <<0, c>>
    BY DEF NewFor
  <2>2. PICK k \in DOMAIN calls : calls[k] = <<0, c>>
    BY <2>1
  <2>3. c.fn = "pass_progress_info" /\ c.wg = h /\ c.id \in DOMAIN mh[h]
    BY <1>5, <2>2 DEF PassProgress
  <2>4. ASSUME NEW d \in N, d.id = c.id
        PROVE  d = c
    <3>1. PICK l \in DOMAIN calls : calls[l] = <<0, d>>
      BY DEF NewFor
    <3>2. calls[k][2].id = calls[l][2].id
      BY <2>2, <2>4, <3>1
    <3>3. k = l
      BY <1>5, <3>2
    <3> QED
      BY <2>2, <3>1, <3>3
  <2> QED
    BY <2>1, <2>3, <2>4
<1>8. \A j \in Heads : j # 0 => NewFor(calls, j) = {}
  <2> SUFFICES ASSUME NEW j \in Heads, j # 0, NEW c, NEW k \in DOMAIN calls, calls[k] = <<j, c>>
               PROVE  FALSE
    BY DEF NewFor
  <2> QED
    BY <1>5
<1>9. N \intersect Content(0) = {}
  <2> SUFFICES ASSUME NEW c \in N, c \in Content(0)
               PROVE  FALSE
    OBVIOUS
  <2>1. c \in ReportsAt(0) /\ c.wg = h
    BY <1>7 DEF ReportsAt
  <2> QED
    BY <1>4, <2>1 DEF ReportedBy
<1>10. /\ CallsAre'
       /\ Content(0)' = Content(0) \union N
       /\ \A j \in Heads : j # 0 => Content(j)' = Content(j)
  <2>1. \A j \in Heads : NewFor(calls, j) \cap Content(j) = {}
    BY <1>8, <1>9
  <2>2. /\ CallsAre'
        /\ \A j \in Heads : Content(j)' = Content(j) \union NewFor(calls, j)
    BY <1>1, <1>2, <1>5, <2>1, Sends
  <2> QED
    BY <1>6, <1>8, <2>2
<1>11. ReportsAt(0)' = ReportsAt(0) \union N
  BY <1>7, <1>10 DEF ReportsAt
<1> HIDE DEF N
<1>12. pc'[h] = AfterProgress(h) /\ DOMAIN pc' = Heads /\ \A j \in Heads \ {h} : pc'[j] = pc[j]
  BY <1>1, <1>2 DEF FunctionsAre
<1>13. /\ sendProgress'[h] = FALSE /\ DOMAIN sendProgress' = Heads
       /\ \A j \in Heads \ {h} : sendProgress'[j] = sendProgress[j]
  BY <1>1, <1>2 DEF FunctionsAre
<1>14. OthersSame(h)
  BY <1>1, <1>2, <1>12, <1>13 DEF OthersSame, Same, FunctionsAre, chains
<1>15. KnownTo(h)' = KnownTo(h) /\ Keeps(h)' = Keeps(h) /\ QueuedAt(h)' = QueuedAt(h)
  BY <1>2 DEF KnownTo, Keeps, QueuedAt, Added, chains
<1>16. PlaceIs(h)'
  <2>1. moving[h] = NoId
    BY <1>4 DEF Still
  <2>2. \/ pc'[h] = "manager" /\ h = 0 /\ (RequestDue' \/ InformationComplete')
        \/ pc'[h] = "last work"
    BY <1>2, <1>12 DEF AfterProgress, RequestDue, InformationComplete
  <2> QED
    BY <1>1, <1>2, <1>13, <2>1, <2>2 DEF PlaceIs, Pcs, MovePcs, chains
<1>17. ChainsAre(h)'
  <2>1. \A id \in DOMAIN mh[h] : mh[h][id].iteration # TargetLength
    BY <1>1 DEF ChainsAre
  <2>2. \A id \in DOMAIN mh[h] : ExactFor(h, id)' = ExactFor(h, id)
    BY <1>2 DEF ExactFor, Priority, chains
  <2> QED
    BY <1>1, <1>2, <1>15, <2>1, <2>2 DEF ChainsAre, chains
<1>18. Still(h)'
  BY <1>2, <1>4, <1>15, ShareStays DEF Still
<1>19. \A j \in Heads : ReportedBy(j)' <=> ReportedBy(j) \/ (j = h /\ N # {})
  <2> TAKE j \in Heads
  <2>1. ReportedBy(j)' <=> \/ \E c \in ReportsAt(0) \union N : c.wg = j
                           \/ \E k \in DOMAIN manager.dataset : manager.dataset[k].wg = j
    BY <1>2, <1>11 DEF ReportedBy
  <2> QED
    BY <1>7, <2>1 DEF ReportedBy
<1>20. N # {} => running[h]
  <2>1. N # {} => DOMAIN mh[h] # {}
    BY <1>7
  <2> QED
    BY <1>1, <2>1 DEF PlaceIs
<1>21. ASSUME NEW j \in Heads
       PROVE  AskedIs(j)'
  <2>1. /\ AskedIs(j)
        /\ RequestProgress \in Content(j)' => RequestProgress \in Content(j)
        /\ \A c \in Content(j)' : c \in Content(j) \/ (j = 0 /\ c.fn = "pass_progress_info")
    BY <1>3, <1>7, <1>10 DEF Asking, RequestProgress
  <2>2. running' = running /\ inProgress' = inProgress
    BY <1>2
  <2>3. CASE j = h
    BY <1>3, <1>4, <1>13, <1>18, <1>19, <1>20, <2>1, <2>2, <2>3 DEF AskedIs, RequestProgress
  <2>4. CASE j # h
    <3>1. Still(j)'
      BY <1>14, <2>1, <2>4, OthersKnow DEF AskedIs
    <3>2. ReportedBy(j)' <=> ReportedBy(j)
      BY <1>19, <2>4
    <3> QED
      BY <1>13, <2>1, <2>2, <2>4, <3>1, <3>2 DEF AskedIs, RequestProgress
  <2> QED
    BY <2>3, <2>4
<1>22. Asking'
  <2> DEFINE data == manager.dataset
  <2>1. /\ data \in Seq(Report) /\ ~passedOver
        /\ \A k \in DOMAIN data : data[k].id \in Share(data[k].wg)
        /\ \A k, l \in DOMAIN data : data[k].id = data[l].id => k = l
        /\ \A c \in ReportsAt(0) :
             /\ c.id \in Share(c.wg)
             /\ \A k \in DOMAIN data : c.id # data[k].id
             /\ \A d \in ReportsAt(0) : c.id = d.id => c = d
    BY <1>3 DEF Asking
  <2>2. \A k \in DOMAIN data : data[k].wg \in Heads /\ data[k].wg # h
    <3>1. \A k \in DOMAIN data : data[k].wg # h
      BY <1>4 DEF ReportedBy
    <3> HIDE DEF data
    <3>2. \A k \in DOMAIN data : data[k] \in Report
      BY <2>1
    <3> QED
      BY <3>1, <3>2 DEF Report
  <2>3. \A c \in ReportsAt(0) : c.wg \in Heads /\ c.wg # h
    <3>1. ReportsAt(0) \subseteq CallSet
      BY <1>1, <1>6, ContentIs DEF ReportsAt
    <3> QED
      BY <1>4, <3>1, CallKinds DEF ReportedBy, ReportsAt
  <2>4. \A g \in Heads : g # h => Share(g) \intersect Share(h) = {}
    BY SharesApart
  <2>5. \A c \in N : c.id \in Share(h) /\ c.wg = h /\ \A d \in N : d.id = c.id => d = c
    BY <1>4, <1>7
  <2> HIDE DEF data
  <2>6. \A c \in N : \A k \in DOMAIN data : c.id # data[k].id
    BY <2>1, <2>2, <2>4, <2>5
  <2>7. \A c \in N : \A d \in ReportsAt(0) : c.id # d.id
    BY <2>1, <2>3, <2>4, <2>5
  <2>8. ASSUME NEW c \in ReportsAt(0)'
        PROVE  /\ c.id \in Share(c.wg)
               /\ \A k \in DOMAIN data : c.id # data[k].id
               /\ \A d \in ReportsAt(0)' : c.id = d.id => c = d
    BY <1>11, <2>1, <2>5, <2>6, <2>7
  <2>9. manager' = manager /\ passedOver' = passedOver /\ Report' = Report
    BY <1>2 DEF Report
  <2> QED
    BY <1>21, <2>1, <2>8, <2>9, ShareStays DEF Asking, data
<1>23. KeptOnce'
  <2>1. ASSUME NEW j \in Heads
        PROVE  Keeps(j)' \subseteq Keeps(j) /\ Live(j)' = {}
    <3>1. Keeps(j)' = Keeps(j)
      BY <1>14, <1>15, OthersKnow
    <3>2. \A c \in Content(j)' : c.fn # "recieve_markov_chain"
      BY <1>21 DEF AskedIs, RequestProgress
    <3>3. Chains(j)' = {}
      BY <3>2 DEF Chains
    <3> QED
      BY <3>1, <3>3 DEF Live
  <2> QED
    BY <2>1, KeptOnceStays DEF RInv
<1> QED
  <2>1. /\ manager' = manager /\ manager.required = TRUE /\ manager.requested = TRUE
        /\ passedOver' \in BOOLEAN /\ CallsAre' /\ (disabled => ~manager.requested)
    BY <1>1, <1>2, <1>3, <1>10 DEF RInv
  <2> QED
    BY <1>14, <1>16, <1>17, <1>22, <1>23, <2>1, Assembled

(* So does head 0 when it asks for it.                                      *)
LEMMA RequestReschedulingMoves ==
  ASSUME RInv, RequestRescheduling
  PROVE  RInv'
<1> DEFINE calls == [k \in 1 .. NumHeads |-> <<k - 1, RequestProgress>>]
<1>1. /\ 0 \in Heads /\ \A j \in Heads : j + 1 \in 1 .. NumHeads /\ (j + 1) - 1 = j
      /\ \A k \in 1 .. NumHeads : k - 1 \in Heads
  BY Numbers DEF Heads
<1>2. /\ PlaceIs(0) /\ ChainsAre(0) /\ FunctionsAre /\ CallsAre /\ aborted \in BOOLEAN
      /\ pc[0] = "manager" /\ ~manager.requested /\ ~disabled /\ Quiet
  <2>1. pc[0] = "manager" /\ ~manager.requested /\ ~disabled
    BY DEF RequestRescheduling, RequestDue
  <2>2. /\ PlaceIs(0) /\ ChainsAre(0) /\ FunctionsAre /\ CallsAre /\ aborted \in BOOLEAN
    BY <1>1, InvParts
  <2>3. Quiet
    BY <2>1 DEF RInv
  <2> QED
    BY <2>1, <2>2, <2>3
<1>3. /\ manager' = [required |-> TRUE, requested |-> TRUE, dataset |-> <<>>]
      /\ Schedule(0, calls)
      /\ pc' = [pc EXCEPT ![0] = "last work"]
      /\ UNCHANGED <<disabled, aborted, chains, iteration, running, moves>>
  BY DEF RequestRescheduling, Goto
<1>4. /\ manager'.required = TRUE /\ manager'.requested = TRUE /\ manager'.dataset = <<>>
      /\ manager' = [required |-> manager'.required, requested |-> manager'.requested,
                     dataset |-> manager'.dataset]
  BY <1>3
<1>5. RequestProgress \in CallSet
  BY DEF CallSet
<1>6. /\ calls \in Seq(Pairs) /\ DOMAIN calls = 1 .. NumHeads
      /\ \A k \in 1 .. NumHeads : calls[k] = <<k - 1, RequestProgress>>
  <2>1. calls \in [1 .. NumHeads -> Pairs]
    BY <1>1, <1>5 DEF Pairs
  <2>2. NumHeads \in Nat
    BY Numbers
  <2> QED
    BY <2>1, <2>2
<1> HIDE DEF calls
<1>7. IsInjective(calls)
  <2>1. ASSUME NEW k \in 1 .. NumHeads, NEW l \in 1 .. NumHeads, calls[k] = calls[l]
        PROVE  k = l
    <3>1. k - 1 = l - 1
      BY <1>6, <2>1
    <3> QED
      BY <3>1
  <2> QED
    BY <1>6, <2>1 DEF IsInjective
<1>8. \A j \in Heads : NewFor(calls, j) = {RequestProgress}
  <2> TAKE j \in Heads
  <2>1. calls[j + 1] = <<j, RequestProgress>> /\ j + 1 \in DOMAIN calls
    BY <1>1, <1>6
  <2>2. \A k \in DOMAIN calls : \A c : calls[k] = <<j, c>> => c = RequestProgress
    BY <1>6
  <2> QED
    BY <1>5, <2>1, <2>2 DEF NewFor
<1>9. CallsAre' /\ \A j \in Heads : Content(j)' = {RequestProgress}
  <2>1. \A j \in Heads : Content(j) = {}
    BY <1>2 DEF Quiet
  <2>2. \A j \in Heads : NewFor(calls, j) \cap Content(j) = {}
    BY <2>1
  <2>3. CallsAre' /\ \A j \in Heads : Content(j)' = Content(j) \union NewFor(calls, j)
    BY <1>1, <1>2, <1>3, <1>6, <1>7, <2>2, Sends
  <2> QED
    BY <1>8, <2>1, <2>3
<1>10. ReportsAt(0)' = {}
  BY <1>1, <1>9 DEF ReportsAt, RequestProgress
<1>11. pc'[0] = "last work" /\ DOMAIN pc' = Heads /\ \A j \in Heads \ {0} : pc'[j] = pc[j]
  BY <1>1, <1>2, <1>3 DEF FunctionsAre
<1>12. OthersSame(0)
  BY <1>2, <1>3, <1>4, <1>11 DEF OthersSame, Same, FunctionsAre, chains, moves
<1>13. KnownTo(0)' = KnownTo(0) /\ Keeps(0)' = Keeps(0) /\ QueuedAt(0)' = QueuedAt(0)
  BY <1>3 DEF KnownTo, Keeps, QueuedAt, Added, chains
<1>14. Still(0)'
  <2>1. Still(0)
    BY <1>1, <1>2 DEF Quiet
  <2> QED
    BY <1>3, <1>13, <2>1, ShareStays DEF Still, moves
<1>15. PlaceIs(0)'
  <2>1. moving[0] = NoId
    BY <1>1, <1>2 DEF Quiet, Still
  <2> QED
    BY <1>2, <1>3, <1>11, <2>1 DEF PlaceIs, Pcs, MovePcs, chains, moves
<1>16. ChainsAre(0)'
  <2>1. \A id \in DOMAIN mh[0] : mh[0][id].iteration # TargetLength
    BY <1>2 DEF ChainsAre
  <2>2. \A id \in DOMAIN mh[0] : ExactFor(0, id)' = ExactFor(0, id)
    BY <1>3 DEF ExactFor, Priority, chains
  <2> QED
    BY <1>2, <1>3, <1>13, <2>1, <2>2 DEF ChainsAre, chains, moves
<1>17. \A j \in Heads : ~ReportedBy(j)'
  BY <1>4, <1>10 DEF ReportedBy
<1>18. ASSUME NEW j \in Heads
       PROVE  AskedIs(j)'
  <2>1. Still(j) /\ ~sendProgress[j]
    BY <1>2 DEF Quiet
  <2>2. Still(j)'
    <3>1. CASE j = 0
      BY <1>14, <3>1
    <3>2. CASE j # 0
      BY <1>1, <1>12, <2>1, <3>2, OthersKnow
    <3> QED
      BY <3>1, <3>2
  <2>3. ~sendProgress'[j]
    BY <1>3, <2>1 DEF moves
  <2> QED
    BY <1>9, <1>17, <2>2, <2>3 DEF AskedIs, RequestProgress
<1>19. Asking'
  <2>1. ~passedOver'
    BY <1>2, <1>3 DEF Quiet, moves
  <2>2. manager'.dataset \in Seq(Report') /\ DOMAIN manager'.dataset = {}
    BY <1>4
  <2> QED
    BY <1>10, <1>18, <2>1, <2>2 DEF Asking
<1>20. KeptOnce'
  <2>1. ASSUME NEW j \in Heads
        PROVE  Keeps(j)' \subseteq Keeps(j) /\ Live(j)' = {}
    <3>1. Keeps(j)' = Keeps(j)
      <4>1. CASE j = 0
        BY <1>13, <4>1
      <4>2. CASE j # 0
        BY <1>1, <1>12, <4>2, OthersKnow
      <4> QED
        BY <4>1, <4>2
    <3>2. Chains(j)' = {}
      BY <1>9 DEF Chains, RequestProgress
    <3> QED
      BY <3>1, <3>2 DEF Live
  <2> QED
    BY <2>1, KeptOnceStays DEF RInv
<1> QED
  <2>1. passedOver' \in BOOLEAN
    BY <1>3 DEF RInv, moves
  <2> QED
    BY <1>1, <1>2, <1>4, <1>9, <1>12, <1>15, <1>16, <1>19, <1>20, <2>1, Assembled

-----------------------------------------------------------------------------
(* The calls of a new division                                             *)

(* A sequence with one element more.                                        *)
LEMMA JoinOne ==
  ASSUME NEW A, NEW s \in Seq(A), NEW x \in A
  PROVE  /\ s \o <<x>> \in Seq(A)
         /\ \A y : Stands(y, s \o <<x>>) <=> y = x \/ Stands(y, s)
         /\ IsInjective(s) /\ ~Stands(x, s) => IsInjective(s \o <<x>>)
<1> DEFINE t == s \o <<x>>
           n == Len(s)
<1>1. /\ n \in Nat /\ DOMAIN s = 1 .. n /\ t \in Seq(A) /\ DOMAIN t = 1 .. n + 1
      /\ \A p \in 1 .. n : t[p] = s[p]
      /\ t[n + 1] = x
  OBVIOUS
<1> HIDE DEF t, n
<1>2. \A p \in DOMAIN t : p \in 1 .. n \/ p = n + 1
  BY <1>1
<1>3. 1 .. n \subseteq DOMAIN t /\ n + 1 \in DOMAIN t
  BY <1>1
<1>4. \A y : Stands(y, t) <=> y = x \/ Stands(y, s)
  BY <1>1, <1>2, <1>3 DEF Stands
<1>5. ASSUME IsInjective(s), ~Stands(x, s)
      PROVE  IsInjective(t)
  BY <1>1, <1>2, <1>5 DEF IsInjective, Stands
<1> QED
  BY <1>1, <1>4, <1>5 DEF t

(* What the entries of head `to` say that has to be moved there.            *)
OrderFor(e, to) == <<e.wg, MoveChain(e.id, to)>>

EachIdOnce(es) == \A i, l \in DOMAIN es : es[i].id = es[l].id => i = l

(* One order for each chain that comes from another head.                   *)
LEMMA ComersCallsAre ==
  ASSUME NEW to \in Heads, NEW es \in Seq(Report), EachIdOnce(es)
  PROVE  /\ ComersCalls(es, to) \in Seq(Pairs)
         /\ IsInjective(ComersCalls(es, to))
         /\ \A x : Stands(x, ComersCalls(es, to))
                     <=> \E i \in Comers(es, to) : x = OrderFor(es[i], to)
<1> DEFINE seqs == [i \in DOMAIN es |->
                      IF i \in Comers(es, to)
                      THEN <<<<es[i].wg, MoveChain(es[i].id, to)>>>> ELSE <<>>]
           n == Len(es)
<1>1. n \in Nat /\ DOMAIN es = 1 .. n /\ \A i \in 1 .. n : es[i] \in Report
  OBVIOUS
<1>2. ComersCalls(es, to) = FlattenSeq(seqs)
  BY DEF ComersCalls
<1>3. \A i \in 1 .. n : OrderFor(es[i], to) \in Pairs
  <2> TAKE i \in 1 .. n
  <2>1. es[i].wg \in Heads /\ es[i].id \in Ids
    BY <1>1 DEF Report
  <2>2. Ids \subseteq 0 .. NumChains
    BY Numbers DEF Ids
  <2>3. MoveChain(es[i].id, to) \in CallSet
    BY <2>1, <2>2 DEF CallSet
  <2> QED
    BY <2>1, <2>3 DEF Pairs, OrderFor
<1>4. \A i \in 1 .. n : seqs[i] = IF i \in Comers(es, to) THEN <<OrderFor(es[i], to)>> ELSE <<>>
  BY <1>1 DEF OrderFor
<1>5. DOMAIN seqs = 1 .. n /\ seqs = [i \in 1 .. n |-> seqs[i]]
  BY <1>1
<1>6. \A i \in Comers(es, to) : i \in 1 .. n
  BY <1>1 DEF Comers
<1> HIDE DEF seqs, n
<1>7. ASSUME NEW i \in 1 .. n
      PROVE  /\ seqs[i] \in Seq(Pairs)
             /\ i \in Comers(es, to) => DOMAIN seqs[i] = {1} /\ seqs[i][1] = OrderFor(es[i], to)
             /\ i \notin Comers(es, to) => DOMAIN seqs[i] = {}
  BY <1>3, <1>4, OneOrNone
<1>8. seqs \in [1 .. n -> Seq(Pairs)]
  BY <1>5, <1>7
<1>9. Distinct(seqs)
  <2> SUFFICES ASSUME NEW i \in 1 .. n, NEW j \in 1 .. n, NEW k \in DOMAIN seqs[i],
                      NEW l \in DOMAIN seqs[j], seqs[i][k] = seqs[j][l]
               PROVE  i = j /\ k = l
    BY <1>5 DEF Distinct
  <2>1. k = 1 /\ l = 1 /\ OrderFor(es[i], to) = OrderFor(es[j], to)
    BY <1>7
  <2>2. es[i].id = es[j].id
    BY <2>1 DEF OrderFor, MoveChain
  <2> QED
    BY <1>1, <2>1, <2>2 DEF EachIdOnce
<1>10. \A x : (\E i \in 1 .. n : Stands(x, seqs[i]))
                <=> \E i \in Comers(es, to) : x = OrderFor(es[i], to)
  <2> TAKE x
  <2>1. ASSUME NEW i \in 1 .. n, Stands(x, seqs[i])
        PROVE  \E l \in Comers(es, to) : x = OrderFor(es[l], to)
    <3>1. i \in Comers(es, to)
      BY <1>7, <2>1 DEF Stands
    <3> QED
      BY <1>7, <2>1, <3>1 DEF Stands
  <2>2. ASSUME NEW l \in Comers(es, to), x = OrderFor(es[l], to)
        PROVE  \E i \in 1 .. n : Stands(x, seqs[i])
    <3>1. l \in 1 .. n
      BY <1>6
    <3>2. Stands(x, seqs[l])
      BY <1>7, <2>2, <3>1 DEF Stands
    <3> QED
      BY <3>1, <3>2
  <2> QED
    BY <2>1, <2>2
<1>11. /\ FlattenSeq(seqs) \in Seq(Pairs)
       /\ \A x : Stands(x, FlattenSeq(seqs)) <=> \E i \in 1 .. n : Stands(x, seqs[i])
       /\ IsInjective(FlattenSeq(seqs))
  BY <1>1, <1>8, <1>9, FlattenedHas
<1> QED
  BY <1>2, <1>10, <1>11

(* For every head the reports of the chains it is to have.                  *)
PlanIs(P) ==
  /\ P \in [Heads -> Seq(Report)]
  /\ \A g, h \in Heads : \A i \in DOMAIN P[g], l \in DOMAIN P[h] :
       P[g][i].id = P[h][l].id => g = h /\ i = l
  /\ \A g \in Heads : \A i \in DOMAIN P[g] : P[g][i].id \in Share(P[g][i].wg)

Announces(P, j) == MoveChain(Cardinality(Comers(P[j], j)), j)
OrdersFor(P, j) ==
  UNION {{MoveChain(P[to][i].id, to) : i \in {l \in DOMAIN P[to] : P[to][l].wg = j}} :
           to \in Heads \ {j}}
CallsFor(P, j) == {Announces(P, j)} \union OrdersFor(P, j)

PartOf(P, to) == ComersCalls(P[to], to) \o <<<<to, Announces(P, to)>>>>

(* The number that is announced is the number of chains that come.          *)
LEMMA ComersCount ==
  ASSUME NEW P, PlanIs(P), NEW to \in Heads
  PROVE  /\ Cardinality(Comers(P[to], to)) \in 0 .. NumChains
         /\ Cardinality({P[to][i].id : i \in Comers(P[to], to)}) = Cardinality(Comers(P[to], to))
         /\ {P[to][i].id : i \in Comers(P[to], to)} \subseteq Ids
         /\ Announces(P, to) \in CallSet
<1> DEFINE S == Comers(P[to], to)
           T == {P[to][i].id : i \in S}
           f == [i \in S |-> P[to][i].id]
<1>1. P[to] \in Seq(Report) /\ S \subseteq DOMAIN P[to]
  BY DEF PlanIs, Comers
<1>2. \A i \in S : P[to][i].id \in Ids
  <2>1. \A i \in DOMAIN P[to] : P[to][i] \in Report
    BY <1>1
  <2> QED
    BY <1>1, <2>1 DEF Report
<1>3. \A i, l \in S : P[to][i].id = P[to][l].id => i = l
  BY <1>1 DEF PlanIs
<1> HIDE DEF S
<1>4. f \in Bijection(S, T)
  BY <1>3 DEF Bijection, Injection, Surjection, IsInjective
<1>5. T \subseteq Ids
  BY <1>2
<1>6. IsFiniteSet(S)
  <2>1. IsFiniteSet(DOMAIN P[to])
    <3>1. Len(P[to]) \in Nat /\ DOMAIN P[to] = 1 .. Len(P[to])
      BY <1>1
    <3>2. IsFiniteSet(1 .. Len(P[to]))
      BY <3>1, FS_Interval
    <3> QED
      BY <3>1, <3>2
  <2> QED
    BY <1>1, <2>1, FS_Subset
<1> HIDE DEF T, f
<1>7. Cardinality(T) = Cardinality(S)
  BY <1>4, <1>6, FS_Bijection DEF ExistsBijection
<1>8. Cardinality(Ids) = NumChains
  <2>1. NumChains \in Nat
    BY Numbers
  <2>2. Cardinality(0 .. NumChains - 1) = NumChains
    BY <2>1, FS_Interval
  <2> QED
    BY <2>2 DEF Ids
<1>9. Cardinality(S) \in 0 .. NumChains
  <2>1. Cardinality(T) \in Nat /\ Cardinality(T) <= Cardinality(Ids) /\ NumChains \in Nat
    BY <1>5, IdsCount, Numbers
  <2> QED
    BY <1>7, <1>8, <2>1
<1>10. Announces(P, to) \in CallSet
  BY <1>9 DEF Announces, CallSet, S
<1> QED
  BY <1>5, <1>7, <1>9, <1>10 DEF S, T

(* What head `to` is to get, and its announcement behind it.                *)
LEMMA PartIs ==
  ASSUME NEW P, PlanIs(P), NEW to \in Heads
  PROVE  /\ PartOf(P, to) \in Seq(Pairs) /\ IsInjective(PartOf(P, to))
         /\ \A x : Stands(x, PartOf(P, to))
                     <=> \/ x = <<to, Announces(P, to)>>
                         \/ \E i \in Comers(P[to], to) : x = OrderFor(P[to][i], to)
<1> DEFINE s == ComersCalls(P[to], to)
           last == <<to, Announces(P, to)>>
<1>1. P[to] \in Seq(Report) /\ EachIdOnce(P[to])
  BY DEF PlanIs, EachIdOnce
<1>2. /\ s \in Seq(Pairs) /\ IsInjective(s)
      /\ \A x : Stands(x, s) <=> \E i \in Comers(P[to], to) : x = OrderFor(P[to][i], to)
  BY <1>1, ComersCallsAre
<1>3. last \in Pairs
  BY ComersCount DEF Pairs
<1>4. ~Stands(last, s)
  <2> SUFFICES ASSUME NEW i \in Comers(P[to], to), last = OrderFor(P[to][i], to)
               PROVE  FALSE
    BY <1>2
  <2>1. P[to][i].wg = to
    BY DEF OrderFor
  <2> QED
    BY <2>1 DEF Comers
<1>5. PartOf(P, to) = s \o <<last>>
  BY DEF PartOf
<1> HIDE DEF s, last
<1>6. /\ s \o <<last>> \in Seq(Pairs)
      /\ \A y : Stands(y, s \o <<last>>) <=> y = last \/ Stands(y, s)
      /\ IsInjective(s \o <<last>>)
  BY <1>2, <1>3, <1>4, JoinOne
<1>7. \A x : Stands(x, PartOf(P, to))
               <=> \/ x = last
                   \/ \E i \in Comers(P[to], to) : x = OrderFor(P[to][i], to)
  BY <1>2, <1>5, <1>6
<1> QED
  BY <1>5, <1>6, <1>7 DEF last

(* The calls that carry out P.                                              *)
Carries(calls, P) ==
  /\ calls \in Seq(Pairs) /\ IsInjective(calls)
  /\ \A j \in Heads : NewFor(calls, j) = CallsFor(P, j)

PlanCalls(P) == FlattenSeq([k \in 1 .. NumHeads |-> PartOf(P, k - 1)])

(* The calls for head j in the parts of all heads.                          *)
LEMMA CallIsFor ==
  ASSUME NEW P, PlanIs(P), NEW j \in Heads, NEW c
  PROVE  c \in CallsFor(P, j) <=> \E to \in Heads : Stands(<<j, c>>, PartOf(P, to))
<1>1. ASSUME c \in CallsFor(P, j)
      PROVE  \E to \in Heads : Stands(<<j, c>>, PartOf(P, to))
  <2>1. CASE c = Announces(P, j)
    BY <2>1, PartIs
  <2>2. CASE c \in OrdersFor(P, j)
    <3>1. PICK to \in Heads \ {j} :
            c \in {MoveChain(P[to][i].id, to) : i \in {l \in DOMAIN P[to] : P[to][l].wg = j}}
      BY <2>2 DEF OrdersFor
    <3>2. PICK i \in DOMAIN P[to] : P[to][i].wg = j /\ c = MoveChain(P[to][i].id, to)
      BY <3>1
    <3>3. i \in Comers(P[to], to) /\ <<j, c>> = OrderFor(P[to][i], to)
      BY <3>1, <3>2 DEF Comers, OrderFor
    <3> QED
      BY <3>1, <3>3, PartIs
  <2> QED
    BY <1>1, <2>1, <2>2 DEF CallsFor
<1>2. ASSUME NEW to \in Heads, Stands(<<j, c>>, PartOf(P, to))
      PROVE  c \in CallsFor(P, j)
  <2>1. \/ <<j, c>> = <<to, Announces(P, to)>>
        \/ \E i \in Comers(P[to], to) : <<j, c>> = OrderFor(P[to][i], to)
    BY <1>2, PartIs
  <2>2. CASE <<j, c>> = <<to, Announces(P, to)>>
    <3>1. j = to /\ c = Announces(P, to)
      BY <2>2
    <3> QED
      BY <3>1 DEF CallsFor
  <2>3. CASE \E i \in Comers(P[to], to) : <<j, c>> = OrderFor(P[to][i], to)
    <3>1. PICK i \in Comers(P[to], to) : <<j, c>> = OrderFor(P[to][i], to)
      BY <2>3
    <3>2. /\ i \in DOMAIN P[to] /\ P[to][i].wg = j /\ j # to
          /\ c = MoveChain(P[to][i].id, to)
      BY <3>1 DEF Comers, OrderFor
    <3>3. c \in OrdersFor(P, j)
      BY <3>2 DEF OrdersFor
    <3> QED
      BY <3>3 DEF CallsFor
  <2> QED
    BY <2>1, <2>2, <2>3
<1> QED
  BY <1>1, <1>2

(* The parts of all heads behind one another carry out the plan.            *)
LEMMA PlanCallsCarry ==
  ASSUME NEW P, PlanIs(P)
  PROVE  Carries(PlanCalls(P), P)
<1> DEFINE seqs == [k \in 1 .. NumHeads |-> PartOf(P, k - 1)]
<1>1. /\ NumHeads \in Nat
      /\ \A k \in 1 .. NumHeads : k - 1 \in Heads
      /\ \A j \in Heads : j + 1 \in 1 .. NumHeads /\ (j + 1) - 1 = j
  BY Numbers DEF Heads
<1>2. \A k \in 1 .. NumHeads : seqs[k] = PartOf(P, k - 1)
  OBVIOUS
<1>3. \A k \in 1 .. NumHeads : seqs[k] \in Seq(Pairs) /\ IsInjective(seqs[k])
  BY <1>1, PartIs
<1>4. seqs \in [1 .. NumHeads -> Seq(Pairs)] /\ DOMAIN seqs = 1 .. NumHeads
  BY <1>3
<1>5. PlanCalls(P) = FlattenSeq(seqs)
  BY DEF PlanCalls
<1> HIDE DEF seqs
<1>6. ASSUME NEW k \in 1 .. NumHeads, NEW x, Stands(x, seqs[k])
      PROVE  x[2].to = k - 1
  <2>1. k - 1 \in Heads /\ Stands(x, PartOf(P, k - 1))
    BY <1>1, <1>2, <1>6
  <2>2. \/ x = <<k - 1, Announces(P, k - 1)>>
        \/ \E i \in Comers(P[k - 1], k - 1) : x = OrderFor(P[k - 1][i], k - 1)
    BY <2>1, PartIs
  <2> QED
    BY <2>2 DEF OrderFor, Announces, MoveChain
<1>7. Distinct(seqs)
  <2> SUFFICES ASSUME NEW i \in 1 .. NumHeads, NEW j \in 1 .. NumHeads,
                      NEW k \in DOMAIN seqs[i], NEW l \in DOMAIN seqs[j],
                      seqs[i][k] = seqs[j][l]
               PROVE  i = j /\ k = l
    BY <1>4 DEF Distinct
  <2>1. Stands(seqs[i][k], seqs[i]) /\ Stands(seqs[j][l], seqs[j])
    BY DEF Stands
  <2>2. i - 1 = j - 1
    BY <1>6, <2>1
  <2>3. i = j
    BY <2>2
  <2> QED
    BY <1>3, <2>3 DEF IsInjective
<1>8. /\ PlanCalls(P) \in Seq(Pairs) /\ IsInjective(PlanCalls(P))
      /\ \A x : Stands(x, PlanCalls(P)) <=> \E k \in 1 .. NumHeads : Stands(x, seqs[k])
  BY <1>1, <1>4, <1>5, <1>7, FlattenedHas
<1>9. \A x : Stands(x, PlanCalls(P)) <=> \E to \in Heads : Stands(x, PartOf(P, to))
  <2> TAKE x
  <2>1. ASSUME NEW k \in 1 .. NumHeads, Stands(x, seqs[k])
        PROVE  \E to \in Heads : Stands(x, PartOf(P, to))
    BY <1>1, <1>2, <2>1
  <2>2. ASSUME NEW to \in Heads, Stands(x, PartOf(P, to))
        PROVE  \E k \in 1 .. NumHeads : Stands(x, seqs[k])
    <3>1. to + 1 \in 1 .. NumHeads /\ seqs[to + 1] = PartOf(P, to)
      BY <1>1, <1>2
    <3> QED
      BY <2>2, <3>1
  <2> QED
    BY <1>8, <2>1, <2>2
<1>10. ASSUME NEW j \in Heads
       PROVE  NewFor(PlanCalls(P), j) = CallsFor(P, j)
  <2>1. \A c : c \in CallsFor(P, j) <=> Stands(<<j, c>>, PlanCalls(P))
    BY <1>9, CallIsFor
  <2>2. ASSUME NEW c, Stands(<<j, c>>, PlanCalls(P))
        PROVE  c \in CallSet
    <3>1. <<j, c>> \in Pairs
      BY <1>8, <2>2 DEF Stands
    <3> QED
      BY <3>1 DEF Pairs
  <2>3. \A c : c \in NewFor(PlanCalls(P), j) <=> c \in CallSet /\ Stands(<<j, c>>, PlanCalls(P))
    BY DEF NewFor, Stands
  <2> QED
    BY <2>1, <2>2, <2>3
<1> QED
  BY <1>8, <1>10 DEF Carries

(* When nothing is moved every head gets no chain.                          *)
NoPlan == [g \in Heads |-> <<>>]

LEMMA CancelCarries ==
  PlanIs(NoPlan) /\ Carries(Cancel, NoPlan)
<1>1. /\ NumHeads \in Nat
      /\ \A k \in 1 .. NumHeads : k - 1 \in Heads
      /\ \A j \in Heads : j + 1 \in 1 .. NumHeads /\ (j + 1) - 1 = j
  BY Numbers DEF Heads
<1>2. \A g \in Heads : NoPlan[g] = <<>> /\ DOMAIN NoPlan[g] = {}
  BY DEF NoPlan
<1>3. PlanIs(NoPlan)
  <2>1. NoPlan \in [Heads -> Seq(Report)]
    BY DEF NoPlan
  <2> QED
    BY <1>2, <2>1 DEF PlanIs
<1>4. \A j \in Heads : Comers(NoPlan[j], j) = {}
  BY <1>2 DEF Comers
<1>5. \A j \in Heads : Announces(NoPlan, j) = MoveChain(0, j)
  BY <1>4, FS_EmptySet DEF Announces
<1>6. \A j \in Heads : OrdersFor(NoPlan, j) = {}
  BY <1>2 DEF OrdersFor
<1>7. \A j \in Heads : CallsFor(NoPlan, j) = {MoveChain(0, j)}
  BY <1>5, <1>6 DEF CallsFor
<1>8. \A j \in Heads : MoveChain(0, j) \in CallSet
  <2>1. 0 \in 0 .. NumChains
    BY Numbers
  <2> QED
    BY <2>1 DEF CallSet
<1>9. /\ DOMAIN Cancel = 1 .. NumHeads /\ Cancel \in Seq(Pairs)
      /\ \A k \in 1 .. NumHeads : Cancel[k] = <<k - 1, MoveChain(0, k - 1)>>
  <2>1. Cancel \in [1 .. NumHeads -> Pairs]
    BY <1>1, <1>8 DEF Pairs, Cancel
  <2>2. \A k \in 1 .. NumHeads : Cancel[k] = <<k - 1, MoveChain(0, k - 1)>>
    BY DEF Cancel
  <2> QED
    BY <1>1, <2>1, <2>2
<1>10. IsInjective(Cancel)
  <2>1. ASSUME NEW k \in 1 .. NumHeads, NEW l \in 1 .. NumHeads, Cancel[k] = Cancel[l]
        PROVE  k = l
    <3>1. k - 1 = l - 1
      BY <1>9, <2>1
    <3> QED
      BY <3>1
  <2> QED
    BY <1>9, <2>1 DEF IsInjective
<1>11. \A j \in Heads : NewFor(Cancel, j) = {MoveChain(0, j)}
  <2> TAKE j \in Heads
  <2>1. Cancel[j + 1] = <<j, MoveChain(0, j)>> /\ j + 1 \in DOMAIN Cancel
    BY <1>1, <1>9
  <2>2. \A k \in DOMAIN Cancel : \A c : Cancel[k] = <<j, c>> => c = MoveChain(0, j)
    BY <1>9
  <2> QED
    BY <1>8, <2>1, <2>2 DEF NewFor
<1> QED
  BY <1>3, <1>7, <1>9, <1>10, <1>11 DEF Carries

(* When all chains have been reported.                                      *)
AllReported ==
  /\ ~disabled /\ ~passedOver /\ manager.requested
  /\ \A h \in Heads : Still(h) /\ Content(h) = {} /\ running[h] /\ inProgress[h] /\ ~sendProgress[h]

(* One report for each chain, when there are as many as chains.             *)
LEMMA AllIdsIn ==
  ASSUME NEW data \in Seq(Report), Len(data) >= NumChains, EachIdOnce(data)
  PROVE  \A id \in Ids : \E k \in DOMAIN data : data[k].id = id
<1> DEFINE n == Len(data)
           f == [k \in 1 .. n |-> data[k].id]
           T == {data[k].id : k \in 1 .. n}
<1>1. n \in Nat /\ DOMAIN data = 1 .. n /\ \A k \in 1 .. n : data[k] \in Report
  OBVIOUS
<1>2. \A k \in 1 .. n : data[k].id \in Ids
  BY <1>1 DEF Report
<1>3. \A k, l \in 1 .. n : data[k].id = data[l].id => k = l
  BY <1>1 DEF EachIdOnce
<1>4. f \in Bijection(1 .. n, T)
  BY <1>3 DEF Bijection, Injection, Surjection, IsInjective
<1>5. T \subseteq Ids
  BY <1>2
<1>6. IsFiniteSet(1 .. n) /\ Cardinality(1 .. n) = n
  <2> HIDE DEF n
  <2>1. Cardinality(1 .. n) = n
    BY <1>1, FS_Interval
  <2>2. IsFiniteSet(1 .. n)
    BY <1>1, FS_Interval
  <2> QED
    BY <2>1, <2>2
<1>7. IsFiniteSet(Ids) /\ Cardinality(Ids) = NumChains
  <2>1. NumChains \in Nat
    BY Numbers
  <2>2. Cardinality(0 .. NumChains - 1) = NumChains
    BY <2>1, FS_Interval
  <2> QED
    BY <2>2, IdsCount DEF Ids
<1>8. n >= NumChains
  OBVIOUS
<1>9. \A id \in T : \E k \in DOMAIN data : data[k].id = id
  BY <1>1
<1> HIDE DEF n, f, T
<1>10. Cardinality(T) = n
  <2>1. ExistsBijection(1 .. n, T)
    BY <1>4 DEF ExistsBijection
  <2>2. Cardinality(T) = Cardinality(1 .. n)
    BY <1>6, <2>1, FS_Bijection, Zenon
  <2> QED
    BY <1>6, <2>2
<1>11. Cardinality(T) <= Cardinality(Ids) /\ (Cardinality(Ids) = Cardinality(T) => Ids = T)
  BY <1>5, <1>7, FS_Subset
<1>12. Ids = T
  BY <1>1, <1>7, <1>8, <1>10, <1>11, Numbers
<1> QED
  BY <1>9, <1>12

(* No share is empty.                                                       *)
LEMMA ShareHasOne ==
  ASSUME NEW h \in Heads
  PROVE  \E id \in Ids : id \in Share(h)
<1>1. PerHead >= 1
  <2>1. NumHeads <= NumChains /\ NumHeads \in Nat \ {0} /\ NumChains \in Nat
    BY Numbers, HeadLoopAssumption
  <2> QED
    BY <2>1 DEF PerHead
<1>2. ShareStart(h) \in Nat /\ ShareSize(h) >= 1 /\ ShareSize(h) \in Nat
  BY <1>1, ShareFacts, Numbers DEF ShareSize
<1>3. ShareStart(h) \in Share(h)
  BY <1>2 DEF Share
<1> QED
  BY <1>3, ShareFacts

(* When the information is complete every head has passed its reports, all  *)
(* of them are executed, and no head knows of chains but its own.           *)
LEMMA InformationIsComplete ==
  ASSUME RInv, pc[0] = "manager", ~RequestDue
  PROVE  /\ AllReported
         /\ manager.dataset \in Seq(Report) /\ EachIdOnce(manager.dataset)
         /\ Len(manager.dataset) >= NumChains
         /\ \A k \in DOMAIN manager.dataset :
              manager.dataset[k].id \in Share(manager.dataset[k].wg)
<1> DEFINE data == manager.dataset
<1>1. 0 \in Heads
  BY Numbers DEF Heads
<1>2. InformationComplete
  <2>1. PlaceIs(0)
    BY <1>1, InvParts
  <2> QED
    BY <2>1 DEF PlaceIs
<1>3. manager.required /\ Len(data) >= NumChains
  BY <1>2 DEF InformationComplete
<1>4. Asking /\ manager.requested /\ ~disabled
  BY <1>3 DEF RInv
<1>5. /\ data \in Seq(Report) /\ EachIdOnce(data)
      /\ \A k \in DOMAIN data : data[k].id \in Share(data[k].wg)
  BY <1>4 DEF Asking, EachIdOnce
<1>6. \A id \in Ids : \E k \in DOMAIN data : data[k].id = id
  BY <1>3, <1>5, AllIdsIn
<1>7. ASSUME NEW h \in Heads
      PROVE  ReportedBy(h)
  <2>1. PICK id \in Ids : id \in Share(h)
    BY ShareHasOne
  <2>2. PICK k \in DOMAIN data : data[k].id = id
    BY <1>6
  <2>3. data[k].wg \in Heads /\ id \in Share(data[k].wg)
    <3>1. data[k] \in Report
      BY <1>5
    <3> QED
      BY <1>5, <2>2, <3>1 DEF Report
  <2>4. data[k].wg = h
    BY <2>1, <2>3, SharesApart
  <2> QED
    BY <2>4 DEF ReportedBy
<1>8. ReportsAt(0) = {}
  <2> SUFFICES ASSUME NEW c \in ReportsAt(0)
               PROVE  FALSE
    OBVIOUS
  <2>1. c \in CallSet /\ c.fn = "pass_progress_info"
    BY <1>1, InvParts, ContentIs DEF ReportsAt
  <2>2. c.id \in Ids
    BY <2>1, CallKinds
  <2>3. \A k \in DOMAIN data : c.id # data[k].id
    BY <1>4 DEF Asking
  <2> QED
    BY <1>6, <2>2, <2>3
<1>9. ASSUME NEW h \in Heads
      PROVE  /\ Still(h) /\ Content(h) = {} /\ running[h] /\ inProgress[h] /\ ~sendProgress[h]
  <2>1. AskedIs(h)
    BY <1>4 DEF Asking
  <2>2. RequestProgress \notin Content(h)
    BY <1>7, <2>1 DEF AskedIs
  <2>3. \A c \in Content(h) : h = 0 /\ c \in ReportsAt(0)
    BY <2>1, <2>2 DEF AskedIs, ReportsAt
  <2>4. Content(h) = {}
    BY <1>8, <2>3
  <2> QED
    BY <1>7, <2>1, <2>4 DEF AskedIs
<1>10. AllReported
  BY <1>4, <1>9 DEF AllReported, Asking
<1> QED
  BY <1>3, <1>5, <1>10

(* What head 0 does when it sends the calls of a plan.                      *)
Plans(calls) ==
  /\ pc[0] = "manager" /\ AllReported
  /\ Schedule(0, calls)
  /\ manager' = [manager EXCEPT !.required = FALSE, !.dataset = <<>>]
  /\ pc' = [pc EXCEPT ![0] = "last work"]
  /\ UNCHANGED <<disabled, aborted, chains, iteration, running, moves>>

(* The trips of a plan: those from head j begin with an order there.        *)
PlannedFrom(P, j) ==
  {<<c.n, c.to, <<"ordered", j>>>> : c \in OrdersFor(P, j)}

(* A trip of the plan is one of a chain that comes.                         *)
LEMMA PlannedTrip ==
  ASSUME NEW P, PlanIs(P), NEW j \in Heads, NEW t \in PlannedFrom(P, j)
  PROVE  \E to \in Heads : \E i \in Comers(P[to], to) :
           /\ P[to][i].wg = j /\ i \in DOMAIN P[to] /\ to # j
           /\ t = <<P[to][i].id, to, <<"ordered", j>>>>
<1>1. PICK c \in OrdersFor(P, j) : t = <<c.n, c.to, <<"ordered", j>>>>
  BY DEF PlannedFrom
<1>2. PICK to \in Heads \ {j} :
        c \in {MoveChain(P[to][i].id, to) : i \in {l \in DOMAIN P[to] : P[to][l].wg = j}}
  BY <1>1 DEF OrdersFor
<1>3. PICK i \in DOMAIN P[to] : P[to][i].wg = j /\ c = MoveChain(P[to][i].id, to)
  BY <1>2
<1>4. c.n = P[to][i].id /\ c.to = to
  BY <1>3 DEF MoveChain
<1>5. t = <<P[to][i].id, to, <<"ordered", j>>>>
  BY <1>1, <1>4
<1>6. i \in Comers(P[to], to)
  BY <1>2, <1>3 DEF Comers
<1> QED
  BY <1>2, <1>3, <1>5, <1>6

LEMMA TripPlanned ==
  ASSUME NEW P, PlanIs(P), NEW to \in Heads, NEW i \in Comers(P[to], to)
  PROVE  /\ P[to][i].wg \in Heads \ {to}
         /\ <<P[to][i].id, to, <<"ordered", P[to][i].wg>>>> \in PlannedFrom(P, P[to][i].wg)
<1>1. i \in DOMAIN P[to] /\ P[to][i].wg # to
  BY DEF Comers
<1>2. P[to][i].wg \in Heads
  <2>1. P[to] \in Seq(Report)
    BY DEF PlanIs
  <2>2. P[to][i] \in Report
    BY <1>1, <2>1
  <2> QED
    BY <2>2 DEF Report
<1>3. PICK j \in Heads : j = P[to][i].wg
  BY <1>2
<1>4. MoveChain(P[to][i].id, to) \in OrdersFor(P, j)
  BY <1>1, <1>3 DEF OrdersFor
<1>5. PICK c \in OrdersFor(P, j) : c = MoveChain(P[to][i].id, to)
  BY <1>4
<1>6. c.n = P[to][i].id /\ c.to = to
  BY <1>5 DEF MoveChain
<1>7. <<c.n, c.to, <<"ordered", j>>>> \in PlannedFrom(P, j)
  BY <1>5 DEF PlannedFrom
<1>8. <<P[to][i].id, to, <<"ordered", j>>>> \in PlannedFrom(P, j)
  BY <1>6, <1>7
<1> QED
  BY <1>1, <1>3, <1>8

(* A chain of a plan is moved once, and to each head come as many as are    *)
(* announced.                                                               *)
AllPlanned(P) == UNION {PlannedFrom(P, j) : j \in Heads}

LEMMA PlannedTrips ==
  ASSUME NEW P, PlanIs(P)
  PROVE  /\ OneTrip(AllPlanned(P))
         /\ \A h \in Heads :
              To(AllPlanned(P), h) = {P[h][i].id : i \in Comers(P[h], h)}
<1>1. OneTrip(AllPlanned(P))
  <2> SUFFICES ASSUME NEW t \in AllPlanned(P), NEW u \in AllPlanned(P), t[1] = u[1]
               PROVE  t = u
    BY DEF OneTrip
  <2>1. PICK j \in Heads : t \in PlannedFrom(P, j)
    BY DEF AllPlanned
  <2>2. PICK k \in Heads : u \in PlannedFrom(P, k)
    BY DEF AllPlanned
  <2>3. PICK to \in Heads : \E i \in Comers(P[to], to) :
           /\ P[to][i].wg = j /\ i \in DOMAIN P[to]
           /\ t = <<P[to][i].id, to, <<"ordered", j>>>>
    BY <2>1, PlannedTrip
  <2>4. PICK i \in Comers(P[to], to) :
           /\ P[to][i].wg = j /\ i \in DOMAIN P[to]
           /\ t = <<P[to][i].id, to, <<"ordered", j>>>>
    BY <2>3
  <2>5. PICK g \in Heads : \E l \in Comers(P[g], g) :
           /\ P[g][l].wg = k /\ l \in DOMAIN P[g]
           /\ u = <<P[g][l].id, g, <<"ordered", k>>>>
    BY <2>2, PlannedTrip
  <2>6. PICK l \in Comers(P[g], g) :
           /\ P[g][l].wg = k /\ l \in DOMAIN P[g]
           /\ u = <<P[g][l].id, g, <<"ordered", k>>>>
    BY <2>5
  <2>7. P[to][i].id = P[g][l].id
    BY <2>4, <2>6
  <2>8. to = g /\ i = l
    BY <2>4, <2>6, <2>7 DEF PlanIs
  <2>9. j = k
    BY <2>4, <2>6, <2>8
  <2> QED
    BY <2>4, <2>6, <2>8, <2>9
<1>2. ASSUME NEW h \in Heads
      PROVE  To(AllPlanned(P), h) = {P[h][i].id : i \in Comers(P[h], h)}
  <2>1. ASSUME NEW t \in AllPlanned(P), t[2] = h
        PROVE  \E i \in Comers(P[h], h) : t[1] = P[h][i].id
    <3>1. PICK j \in Heads : t \in PlannedFrom(P, j)
      BY DEF AllPlanned
    <3>2. PICK to \in Heads : \E i \in Comers(P[to], to) :
             t = <<P[to][i].id, to, <<"ordered", j>>>>
      BY <3>1, PlannedTrip
    <3>3. to = h
      BY <2>1, <3>2
    <3> QED
      BY <3>2, <3>3
  <2>2. ASSUME NEW i \in Comers(P[h], h)
        PROVE  \E t \in AllPlanned(P) : t[2] = h /\ t[1] = P[h][i].id
    <3>1. PICK t : t = <<P[h][i].id, h, <<"ordered", P[h][i].wg>>>>
      OBVIOUS
    <3>2. t \in AllPlanned(P)
      BY <3>1, TripPlanned DEF AllPlanned
    <3>3. t[2] = h /\ t[1] = P[h][i].id
      BY <3>1
    <3> QED
      BY <3>2, <3>3
  <2> QED
    BY <2>1, <2>2 DEF To
<1> QED
  BY <1>1, <1>2

(* All that a plan sends are moves.                                         *)
LEMMA CallsForAre ==
  ASSUME NEW P, PlanIs(P), NEW j \in Heads
  PROVE  /\ \A c \in OrdersFor(P, j) : IsMove(c) /\ c.to # j /\ c.n \in Ids
         /\ IsMove(Announces(P, j)) /\ Announces(P, j).to = j
         /\ Announces(P, j).n = Cardinality(Comers(P[j], j))
<1>1. ASSUME NEW c \in OrdersFor(P, j)
      PROVE  IsMove(c) /\ c.to # j /\ c.n \in Ids
  <2>1. PICK to \in Heads \ {j} :
          c \in {MoveChain(P[to][i].id, to) : i \in {l \in DOMAIN P[to] : P[to][l].wg = j}}
    BY DEF OrdersFor
  <2>2. PICK i \in DOMAIN P[to] : c = MoveChain(P[to][i].id, to)
    BY <2>1
  <2>3. P[to] \in Seq(Report)
    BY DEF PlanIs
  <2>4. P[to][i] \in Report
    BY <2>2, <2>3
  <2>5. P[to][i].id \in Ids
    BY <2>4 DEF Report
  <2> QED
    BY <2>1, <2>2, <2>5 DEF MoveChain, IsMove
<1> QED
  BY <1>1 DEF Announces, MoveChain, IsMove

(* What each head has to do when the calls of a plan are sent.              *)
LEMMA PlanContent ==
  ASSUME RInv, NEW P, PlanIs(P), NEW calls, Carries(calls, P), Plans(calls)
  PROVE  /\ CallsAre'
         /\ \A j \in Heads :
              /\ Content(j)' = CallsFor(P, j) /\ Chains(j)' = {}
              /\ Announcements(j)' = {Announces(P, j)} /\ OrdersAt(j)' = OrdersFor(P, j)
<1>1. 0 \in Heads
  BY Numbers DEF Heads
<1>2. \A j \in Heads : Content(j) = {}
  BY DEF Plans, AllReported
<1>3. calls \in Seq(Pairs) /\ IsInjective(calls) /\ Schedule(0, calls) /\ CallsAre
  BY <1>1, InvParts DEF Carries, Plans
<1>4. \A j \in Heads : NewFor(calls, j) \cap Content(j) = {}
  BY <1>2
<1>5. CallsAre' /\ \A j \in Heads : Content(j)' = Content(j) \union NewFor(calls, j)
  BY <1>1, <1>3, <1>4, Sends
<1>6. ASSUME NEW j \in Heads
      PROVE  Content(j)' = CallsFor(P, j)
  BY <1>2, <1>5 DEF Carries
<1>7. ASSUME NEW j \in Heads
      PROVE  /\ Chains(j)' = {} /\ Announcements(j)' = {Announces(P, j)}
             /\ OrdersAt(j)' = OrdersFor(P, j)
  <2>1. \A c : c \in Content(j)' <=> c = Announces(P, j) \/ c \in OrdersFor(P, j)
    BY <1>6 DEF CallsFor
  <2>2. /\ \A c \in OrdersFor(P, j) : IsMove(c) /\ c.to # j
        /\ IsMove(Announces(P, j)) /\ Announces(P, j).to = j
    BY CallsForAre
  <2>3. Chains(j)' = {}
    BY <2>1, <2>2 DEF Chains, IsMove
  <2>4. Announcements(j)' = {Announces(P, j)}
    BY <2>1, <2>2 DEF Announcements, IsMove
  <2>5. OrdersAt(j)' = OrdersFor(P, j)
    BY <2>1, <2>2 DEF OrdersAt, IsMove
  <2> QED
    BY <2>3, <2>4, <2>5
<1> QED
  BY <1>5, <1>6, <1>7

(* What the calls of a plan leave alone.                                    *)
LEMMA PlanKeeps ==
  ASSUME RInv, NEW P, PlanIs(P), NEW calls, Carries(calls, P), Plans(calls)
  PROVE  /\ OthersSame(0) /\ PlaceIs(0)' /\ ChainsAre(0)'
         /\ \A j \in Heads : Still(j)' /\ KnownTo(j)' = KnownTo(j) /\ Keeps(j)' = Keeps(j)
         /\ manager'.required = FALSE /\ manager'.requested = TRUE /\ manager'.dataset = <<>>
<1>1. 0 \in Heads
  BY Numbers DEF Heads
<1>2. /\ PlaceIs(0) /\ ChainsAre(0) /\ FunctionsAre /\ aborted \in BOOLEAN
      /\ AllReported /\ pc[0] = "manager"
  BY <1>1, InvParts DEF Plans
<1>3. /\ manager' = [manager EXCEPT !.required = FALSE, !.dataset = <<>>]
      /\ pc' = [pc EXCEPT ![0] = "last work"]
      /\ UNCHANGED <<disabled, aborted, chains, iteration, running, moves>>
  BY DEF Plans
<1>4. /\ manager'.required = FALSE /\ manager'.requested = TRUE /\ manager'.dataset = <<>>
      /\ manager' = [required |-> manager'.required, requested |-> manager'.requested,
                     dataset |-> manager'.dataset]
  <2>1. manager = [required |-> manager.required, requested |-> manager.requested,
                   dataset |-> manager.dataset] /\ manager.requested \in BOOLEAN
        /\ manager.requested
    BY <1>2 DEF FunctionsAre, RInv, AllReported
  <2>2. manager' = [required |-> FALSE, requested |-> manager.requested, dataset |-> <<>>]
    BY <1>3, <2>1
  <2>3. manager.requested = TRUE
    BY <2>1, Zenon
  <2> QED
    BY <2>2, <2>3
<1>5. pc'[0] = "last work" /\ DOMAIN pc' = Heads /\ \A j \in Heads \ {0} : pc'[j] = pc[j]
  BY <1>1, <1>2, <1>3 DEF FunctionsAre
<1>6. OthersSame(0)
  BY <1>2, <1>3, <1>4, <1>5 DEF OthersSame, Same, FunctionsAre, chains, moves
<1>7. KnownTo(0)' = KnownTo(0) /\ Keeps(0)' = Keeps(0) /\ QueuedAt(0)' = QueuedAt(0)
  BY <1>3 DEF KnownTo, Keeps, QueuedAt, Added, chains
<1>8. ASSUME NEW j \in Heads
      PROVE  Still(j)' /\ KnownTo(j)' = KnownTo(j) /\ Keeps(j)' = Keeps(j)
  <2>1. Still(j)
    BY <1>2 DEF AllReported
  <2>2. CASE j = 0
    BY <1>3, <1>7, <2>1, <2>2, ShareStays DEF Still, moves
  <2>3. CASE j # 0
    BY <1>1, <1>6, <2>1, <2>3, OthersKnow
  <2> QED
    BY <2>2, <2>3
<1>9. PlaceIs(0)'
  <2>1. moving[0] = NoId
    BY <1>1, <1>2 DEF AllReported, Still
  <2> QED
    BY <1>2, <1>3, <1>5, <2>1 DEF PlaceIs, Pcs, MovePcs, chains, moves
<1>10. ChainsAre(0)'
  <2>1. \A id \in DOMAIN mh[0] : mh[0][id].iteration # TargetLength
    BY <1>2 DEF ChainsAre
  <2>2. \A id \in DOMAIN mh[0] : ExactFor(0, id)' = ExactFor(0, id)
    BY <1>3 DEF ExactFor, Priority, chains
  <2> QED
    BY <1>2, <1>3, <1>7, <2>1, <2>2 DEF ChainsAre, chains, moves
<1> QED
  BY <1>4, <1>6, <1>8, <1>9, <1>10

(* Head 0 sends the calls of a plan: each chain that is to be moved gets    *)
(* one trip, and each head is told how many come.                           *)
LEMMA PlanMoves ==
  ASSUME RInv, NEW P, PlanIs(P), NEW calls, Carries(calls, P), Plans(calls)
  PROVE  RInv'
<1>1. /\ CallsAre'
      /\ \A j \in Heads :
           /\ Content(j)' = CallsFor(P, j) /\ Chains(j)' = {}
           /\ Announcements(j)' = {Announces(P, j)} /\ OrdersAt(j)' = OrdersFor(P, j)
  BY PlanContent
<1>2. /\ OthersSame(0) /\ PlaceIs(0)' /\ ChainsAre(0)'
      /\ \A j \in Heads : Still(j)' /\ KnownTo(j)' = KnownTo(j) /\ Keeps(j)' = Keeps(j)
      /\ manager'.required = FALSE /\ manager'.requested = TRUE /\ manager'.dataset = <<>>
  BY PlanKeeps
<1>3. UNCHANGED <<disabled, running, moves>> /\ AllReported
  BY DEF Plans
<1>4. \A j \in Heads : toGet'[j] = 0 /\ DOMAIN toMove'[j] = {}
  BY <1>2 DEF Still
<1>5. ASSUME NEW j \in Heads
      PROVE  TripsAt(j)' = PlannedFrom(P, j)
  <2>1. LeftAt(j)' = {}
    BY <1>4 DEF LeftAt
  <2>2. TripsAt(j)' = {<<c.n, c.to, <<"ordered", j>>>> : c \in OrdersAt(j)'}
    BY <1>1, <2>1 DEF TripsAt
  <2> QED
    BY <1>1, <2>2 DEF PlannedFrom
<1>6. Trips' = AllPlanned(P)
  BY <1>5 DEF Trips, AllPlanned
<1>7. OneTrip(Trips)' /\ \A j \in Heads : Coming(j)' = {P[j][i].id : i \in Comers(P[j], j)}
  <2>1. OneTrip(Trips')
    BY <1>6, PlannedTrips
  <2>2. \A j \in Heads : Coming(j)' = To(AllPlanned(P), j)
    BY <1>6 DEF Coming, To
  <2>3. \A j \in Heads : Coming(j)' = {P[j][i].id : i \in Comers(P[j], j)}
    BY <2>2, PlannedTrips
  <2> QED
    BY <2>1, <2>3 DEF OneTrip
<1>8. ASSUME NEW j \in Heads
      PROVE  MovedIs(j)'
  <2>1. Coming(j)' \subseteq Ids /\ Cardinality(Coming(j)') = Cardinality(Comers(P[j], j))
        /\ Cardinality(Comers(P[j], j)) \in Nat
    <3> DEFINE came == {P[j][i].id : i \in Comers(P[j], j)}
               n == Cardinality(Comers(P[j], j))
    <3>1. came \subseteq Ids /\ Cardinality(came) = n /\ n \in 0 .. NumChains
      BY ComersCount
    <3>2. Coming(j)' = came
      BY <1>7
    <3> HIDE DEF came, n
    <3>3. n \in Nat
      BY <3>1, Numbers
    <3> QED
      BY <3>1, <3>2, <3>3 DEF n
  <2>2. Coming(j)' \intersect KnownTo(j)' = {}
    <3>1. ASSUME NEW i \in Comers(P[j], j)
          PROVE  P[j][i].id \notin KnownTo(j)
      <4>1. i \in DOMAIN P[j] /\ P[j][i].wg \in Heads \ {j}
        BY TripPlanned DEF Comers
      <4>2. P[j][i].id \in Share(P[j][i].wg)
        BY <4>1 DEF PlanIs
      <4>3. KnownTo(j) \subseteq Share(j)
        BY <1>3 DEF AllReported, Still
      <4> QED
        BY <4>1, <4>2, <4>3, SharesApart
    <3> QED
      BY <1>2, <1>7, <3>1
  <2>3. Announcements(j)' = {Announces(P, j)} /\ Announces(P, j).n = Cardinality(Comers(P[j], j))
    BY <1>1, CallsForAre
  <2>4. toGet'[j] = 0 /\ inProgress'[j] /\ ~sendProgress'[j] /\ running'[j]
    BY <1>3, <1>4 DEF AllReported, moves
  <2>5. Counted(j)'
    <3>1. toGet'[j] + Announces(P, j).n = Cardinality(Coming(j)')
      BY <2>1, <2>3, <2>4
    <3>2. toGet'[j] + Announces(P, j).n >= Cardinality(Coming(j)')
      BY <2>1, <2>3, <2>4
    <3> QED
      BY <2>3, <2>4, <3>1, <3>2 DEF Counted
  <2>6. \A c \in Content(j)' : IsMove(c)
    BY <1>1, CallsForAre DEF CallsFor
  <2>7. \A c \in OrdersAt(j)' : c.n \in Ids \ DOMAIN toMove'[j]
    BY <1>1, <1>4, CallsForAre
  <2> QED
    BY <2>1, <2>2, <2>3, <2>4, <2>5, <2>6, <2>7 DEF MovedIs, IsMove
<1>9. Moved'
  BY <1>2, <1>7, <1>8 DEF Moved
<1>10. KeptOnce'
  <2>1. ASSUME NEW j \in Heads
        PROVE  Keeps(j)' \subseteq Keeps(j) /\ Live(j)' = {}
    BY <1>1, <1>2 DEF Live
  <2> QED
    BY <2>1, KeptOnceStays DEF RInv
<1> QED
  <2>1. 0 \in Heads /\ passedOver' \in BOOLEAN /\ ~disabled
    BY <1>3, Numbers DEF RInv, moves, Heads, AllReported
  <2> QED
    BY <1>1, <1>2, <1>9, <1>10, <2>1, Assembled

(* The reports of a dataset are divided.                                    *)
LEMMA DivisionIs ==
  ASSUME NEW data \in Seq(Report), EachIdOnce(data), Len(data) >= NumChains
  PROVE  /\ ToSet(data) \subseteq Report /\ data \in Seq(ToSet(data)) /\ IsInjective(data)
         /\ \A e \in ToSet(data) : e.score \in Int /\ \E k \in DOMAIN data : data[k] = e
         /\ Partitioned(NumHeads, data) \in Seq(SubsetsOf(ToSet(data)))
         /\ Len(Partitioned(NumHeads, data)) = NumHeads
         /\ Apart(Partitioned(NumHeads, data))
         /\ Holds(Partitioned(NumHeads, data)) = ToSet(data)
<1> DEFINE E == ToSet(data)
<1>1. NumHeads \in Nat \ {0} /\ NumHeads <= Len(data)
  <2>1. NumHeads <= NumChains /\ NumHeads \in Nat \ {0} /\ NumChains \in Nat /\ Len(data) \in Nat
    BY Numbers, HeadLoopAssumption
  <2> QED
    BY <2>1
<1>2. E \subseteq Report /\ data \in Seq(E) /\ \A e \in E : \E k \in DOMAIN data : data[k] = e
  <2>1. DOMAIN data = 1 .. Len(data) /\ Len(data) \in Nat /\ \A k \in DOMAIN data : data[k] \in Report
    OBVIOUS
  <2>2. E = {data[k] : k \in DOMAIN data}
    BY <2>1 DEF ToSet
  <2>3. data \in [1 .. Len(data) -> E]
    BY <2>1, <2>2
  <2>4. data \in Seq(E)
    BY <2>1, <2>3
  <2> QED
    BY <2>1, <2>2, <2>4
<1>3. IsInjective(data)
  BY DEF IsInjective, EachIdOnce
<1>4. \A e \in E : e.score \in Int
  BY <1>2, Numbers DEF Report
<1>5. ToSet(data) = E
  OBVIOUS
<1> HIDE DEF E
<1>6. /\ Partitioned(NumHeads, data) \in Seq(SubsetsOf(E))
      /\ Len(Partitioned(NumHeads, data)) = NumHeads
      /\ Apart(Partitioned(NumHeads, data)) /\ Holds(Partitioned(NumHeads, data)) = E
  BY <1>1, <1>2, <1>3, <1>4, <1>5, PartitionedDivides
<1> QED
  BY <1>2, <1>3, <1>4, <1>5, <1>6

(* The reports of the chains that each head is to have.                     *)
PlanOf(data) == [g \in Heads |-> Partitioned(NumHeads, data)[g + 1].entries]

(* A division of the dataset is a plan, and MoveCalls carries it out.       *)
LEMMA MoveCallsCarry ==
  ASSUME NEW data \in Seq(Report), EachIdOnce(data), Len(data) >= NumChains,
         \A k \in DOMAIN data : data[k].id \in Share(data[k].wg)
  PROVE  PlanIs(PlanOf(data)) /\ Carries(MoveCalls(Partitioned(NumHeads, data)), PlanOf(data))
<1> DEFINE E == ToSet(data)
           partition == Partitioned(NumHeads, data)
           P == PlanOf(data)
<1>1. /\ \A g \in Heads : g + 1 \in 1 .. NumHeads /\ (g + 1) - 1 = g /\ g \in Int
      /\ \A k \in 1 .. NumHeads : k - 1 \in Heads /\ (k - 1) + 1 = k
      /\ NumHeads \in Nat
  BY Numbers DEF Heads
<1>2. \A e \in E : e \in Report /\ e.id \in Share(e.wg) /\ \E k \in DOMAIN data : data[k] = e
  BY DivisionIs
<1>3. \A e, f \in E : e.id = f.id => e = f
  BY <1>2 DEF EachIdOnce
<1>4. partition \in Seq(SubsetsOf(E)) /\ Len(partition) = NumHeads /\ Apart(partition)
  BY DivisionIs
<1>5. \A g \in Heads : P[g] = partition[g + 1].entries
  BY DEF PlanOf
<1>6. P = [g \in Heads |-> P[g]]
  BY DEF PlanOf
<1> HIDE DEF E, partition
<1>7. DOMAIN partition = 1 .. NumHeads /\ \A k \in 1 .. NumHeads : partition[k].entries \in Seq(E)
  <2>1. DOMAIN partition = 1 .. NumHeads
    BY <1>1, <1>4
  <2>2. ASSUME NEW k \in 1 .. NumHeads
        PROVE  partition[k].entries \in Seq(E)
    <3>1. partition[k] \in SubsetsOf(E)
      BY <1>4, <2>1
    <3> QED
      BY <3>1 DEF SubsetsOf
  <2> QED
    BY <2>1, <2>2
<1>8. \A g \in Heads : P[g] = partition[g + 1].entries /\ g + 1 \in DOMAIN partition
  BY <1>1, <1>5, <1>7
<1> HIDE DEF P
<1>9. P \in [Heads -> Seq(E)]
  <2>1. \A g \in Heads : P[g] \in Seq(E)
    BY <1>1, <1>7, <1>8
  <2> QED
    BY <1>6, <2>1
<1>10. ASSUME NEW g \in Heads, NEW i \in DOMAIN P[g]
       PROVE  P[g][i] \in E
  BY <1>9
<1>11. P \in [Heads -> Seq(Report)]
  <2>1. E \subseteq Report
    BY <1>2
  <2>2. Seq(E) \subseteq Seq(Report)
    BY <2>1
  <2> QED
    BY <1>9, <2>2
<1>12. ASSUME NEW g \in Heads, NEW h \in Heads, NEW i \in DOMAIN P[g], NEW l \in DOMAIN P[h],
              P[g][i].id = P[h][l].id
       PROVE  g = h /\ i = l
  <2>1. P[g][i] = P[h][l]
    BY <1>3, <1>10, <1>12
  <2>2. P[g][i] \in ToSet(P[g]) /\ P[h][l] \in ToSet(P[h])
    <3>1. P[g] \in Seq(E) /\ P[h] \in Seq(E)
      BY <1>9
    <3> QED
      BY <3>1 DEF ToSet
  <2>3. g + 1 = h + 1
    BY <1>4, <1>8, <2>1, <2>2 DEF Apart
  <2>4. g = h
    BY <1>1, <2>3
  <2>5. IsInjective(P[g])
    BY <1>4, <1>8 DEF Apart
  <2> QED
    BY <2>1, <2>4, <2>5 DEF IsInjective
<1>13. ASSUME NEW g \in Heads, NEW i \in DOMAIN P[g]
       PROVE  P[g][i].id \in Share(P[g][i].wg)
  BY <1>2, <1>10
<1>14. PlanIs(P)
  BY <1>11, <1>12, <1>13 DEF PlanIs
<1>15. \A k \in 1 .. NumHeads : P[k - 1] = partition[k].entries
  BY <1>1, <1>8
<1>16. MoveCalls(partition) = PlanCalls(P)
  <2>1. [k \in 1 .. NumHeads |->
           ComersCalls(partition[k].entries, k - 1)
             \o <<<<k - 1, MoveChain(Cardinality(Comers(partition[k].entries, k - 1)), k - 1)>>>>]
          = [k \in 1 .. NumHeads |-> PartOf(P, k - 1)]
    BY <1>15 DEF PartOf, Announces
  <2> QED
    BY <2>1 DEF MoveCalls, PlanCalls
<1>17. Carries(MoveCalls(partition), P)
  BY <1>14, <1>16, PlanCallsCarry
<1> QED
  BY <1>14, <1>17 DEF partition, P

(* Whatever division is found, head 0 sends the calls of a plan.            *)
LEMMA DivisionCarries ==
  ASSUME RInv, pc[0] = "manager", ~RequestDue
  PROVE  \E P : PlanIs(P) /\ Carries(Division, P)
<1>1. PICK data : data = manager.dataset
  OBVIOUS
<1>2. /\ data \in Seq(Report) /\ EachIdOnce(data) /\ Len(data) >= NumChains
      /\ \A k \in DOMAIN data : data[k].id \in Share(data[k].wg)
  BY <1>1, InformationIsComplete
<1>3. \E P : PlanIs(P) /\ Carries(MoveCalls(Partitioned(NumHeads, data)), P)
  BY <1>2, MoveCallsCarry
<1>4. \E P : PlanIs(P) /\ Carries(Cancel, P)
  BY CancelCarries
<1>5. Division = Cancel \/ Division = MoveCalls(Partitioned(NumHeads, data))
  BY <1>1, Zenon DEF Division
<1> QED
  BY <1>3, <1>4, <1>5

(* Head 0 keeps the invariant when it reschedules.                          *)
LEMMA RescheduleMoves ==
  ASSUME RInv, Reschedule
  PROVE  RInv'
<1>1. pc[0] = "manager" /\ ~RequestDue
  BY DEF Reschedule
<1>2. AllReported
  BY <1>1, InformationIsComplete
<1>3. PICK calls : calls = Division
  OBVIOUS
<1>4. Plans(calls)
  BY <1>2, <1>3 DEF Reschedule, Plans, Goto
<1>5. \E P : PlanIs(P) /\ Carries(calls, P)
  BY <1>1, <1>3, DivisionCarries
<1> QED
  BY <1>4, <1>5, PlanMoves

-----------------------------------------------------------------------------
(* The invariant holds                                                     *)

(* The invariant holds at the beginning.                                    *)
LEMMA RInvInit ==
  ASSUME Init
  PROVE  RInv
<1>1. 0 \in Heads /\ 0 \in 0 .. TargetLength /\ 0 \in 0 .. SizeModulus - 1
  BY Numbers, HeadLoopAssumption DEF Heads
<1>2. /\ disabled \in Switch /\ aborted \in BOOLEAN /\ passedOver = FALSE
      /\ manager.required = FALSE /\ manager.requested = FALSE /\ manager.dataset = <<>>
      /\ FunctionsAre
  BY DEF Init, FunctionsAre
<1>3. ASSUME NEW h \in Heads
      PROVE  /\ pc[h] = "begin" /\ iteration[h] = 0 /\ toGet[h] = 0 /\ running[h] = TRUE
             /\ inProgress[h] = FALSE /\ sendProgress[h] = FALSE /\ moving[h] = NoId
             /\ mcChainsToAdd[h] = [id \in Share(h) |-> 0] /\ mh[h] = <<>>
             /\ workQueue[h] = {} /\ finished[h] = {} /\ toMove[h] = <<>>
             /\ tasks[h] = <<>> /\ \A j \in Heads : channel[j][h] = <<>>
  BY DEF Init
<1>4. ASSUME NEW h \in Heads
      PROVE  /\ DOMAIN mh[h] = {} /\ DOMAIN toMove[h] = {} /\ DOMAIN mcChainsToAdd[h] = Share(h)
             /\ QueuedAt(h) = {} /\ KnownTo(h) = Share(h) /\ Keeps(h) \subseteq Share(h)
             /\ mh[h] \in [DOMAIN mh[h] -> Objs]
             /\ toMove[h] \in [DOMAIN toMove[h] -> Heads \ {h}]
             /\ mcChainsToAdd[h] \in [Share(h) -> 0 .. SizeModulus - 1]
  <2>0. mh[h] = <<>> /\ toMove[h] = <<>> /\ mcChainsToAdd[h] = [id \in Share(h) |-> 0]
    BY <1>3
  <2>1. DOMAIN mh[h] = {} /\ DOMAIN toMove[h] = {} /\ DOMAIN mcChainsToAdd[h] = Share(h)
    BY <2>0
  <2>2. QueuedAt(h) = {}
    BY <1>3 DEF QueuedAt
  <2>3. KnownTo(h) = Share(h) /\ Keeps(h) \subseteq Share(h)
    BY <1>3, <2>1, <2>2 DEF KnownTo, Keeps, Added
  <2>4. mh[h] \in [{} -> Objs]
    BY <2>0, <2>1
  <2>5. toMove[h] \in [{} -> Heads \ {h}]
    BY <2>0, <2>1
  <2>6. mcChainsToAdd[h] \in [Share(h) -> 0 .. SizeModulus - 1]
    BY <1>1, <1>3
  <2> QED
    BY <2>1, <2>2, <2>3, <2>4, <2>5, <2>6
<1>5. ASSUME NEW h \in Heads
      PROVE  PlaceIs(h)
  <2>1. /\ pc[h] = "begin" /\ iteration[h] = 0 /\ toGet[h] = 0 /\ running[h] = TRUE
        /\ inProgress[h] = FALSE /\ sendProgress[h] = FALSE /\ moving[h] = NoId
    BY <1>3
  <2>2. running[h] /\ running[h] \in BOOLEAN /\ inProgress[h] \in BOOLEAN /\ sendProgress[h] \in BOOLEAN
    BY <2>1, Zenon
  <2>3. iteration[h] \in 0 .. TargetLength /\ toGet[h] \in Int /\ moving[h] \in Ids \union {NoId}
    BY <1>1, <2>1
  <2> QED
    BY <2>1, <2>2, <2>3 DEF PlaceIs, Pcs, MovePcs
<1>6. ASSUME NEW h \in Heads
      PROVE  ChainsAre(h)
  BY <1>3, <1>4, ShareFacts DEF ChainsAre
<1>7. ASSUME NEW h \in Heads
      PROVE  Content(h) = {} /\ EachOnce(Inbox(h))
  <2>1. \A j \in Heads : Inbox(h)[j] = <<>>
    BY <1>3 DEF Inbox
  <2>2. \A j \in Heads : DOMAIN Inbox(h)[j] = {}
    <3> TAKE j \in Heads
    <3>1. Inbox(h)[j] = <<>>
      BY <2>1
    <3> QED
      BY <3>1
  <2> QED
    BY <2>2, CallOf DEF Content, EachOnce
<1>8. CallsAre
  <2>1. tasks \in [Heads -> Seq(Heads \X CallSet)]
    BY DEF Init
  <2>2. channel \in [Heads -> [Heads -> Seq(Heads \X CallSet)]]
    BY DEF Init
  <2>3. ASSUME NEW h \in Heads, NEW j \in Heads
        PROVE  DOMAIN channel[h][j] = {}
    <3>1. channel[h][j] = <<>>
      BY <1>3
    <3> QED
      BY <3>1
  <2> QED
    BY <1>7, <2>1, <2>2, <2>3 DEF CallsAre
<1>9. KeptOnce
  <2>1. \A h \in Heads : Live(h) = {}
    BY <1>7 DEF Live, Chains
  <2>2. \A g, h \in Heads : g # h => Keeps(g) \intersect Keeps(h) = {}
    BY <1>4, SharesApart
  <2> QED
    BY <2>1, <2>2 DEF KeptOnce
<1>10. Quiet
  <2>1. \A h \in Heads : Still(h)
    BY <1>3, <1>4 DEF Still
  <2> QED
    BY <1>2, <1>3, <1>7, <2>1 DEF Quiet
<1> QED
  BY <1>2, <1>5, <1>6, <1>8, <1>9, <1>10 DEF RInv

(* Every step of every head keeps it.                                       *)
LEMMA RInvKept ==
  ASSUME RInv, [Next]_vars
  PROVE  RInv'
<1>1. ASSUME NEW h \in Heads, LoopStep(h)
      PROVE  RInv'
  <2>1. CASE NothingToRun(h)
    BY <2>1, NothingToRunMoves
  <2>2. CASE RunChain(h)
    BY <2>2, RunChainMoves
  <2>3. CASE NoTask(h)
    BY <2>3, NoTaskMoves
  <2>4. CASE Execute(h)
    BY <2>4, ExecuteMoves
  <2>5. CASE NextMove(h)
    BY <2>5, NextMoveMoves
  <2>6. CASE SendDummy(h)
    BY <2>6, SendDummyMoves
  <2>7. CASE SendChain(h)
    BY <2>7, SendChainMoves
  <2>8. CASE AdvanceChain(h)
    BY <2>8, AdvanceChainMoves
  <2>9. CASE SendProgress(h)
    BY <2>9, SendProgressMoves
  <2>10. CASE RequestRescheduling
    BY <2>10, RequestReschedulingMoves
  <2>11. CASE Reschedule
    BY <2>11, RescheduleMoves
  <2>12. CASE Leave(h)
    BY <2>12, LeaveMoves
  <2>13. CASE AssertFails(h)
    BY <2>13, NothingMoves DEF AssertFails
  <2> QED
    BY <1>1, <2>1, <2>2, <2>3, <2>4, <2>5, <2>6, <2>7, <2>8, <2>9, <2>10, <2>11, <2>12,
       <2>13 DEF LoopStep
<1>2. CASE UNCHANGED vars
  <2>1. aborted' \in BOOLEAN
    BY <1>2 DEF RInv, vars
  <2> QED
    BY <1>2, <2>1, NothingMoves DEF vars
<1>3. CASE \E h \in Heads : HeadStep(h)
  BY <1>1, <1>3 DEF HeadStep
<1>4. CASE Ended
  BY <1>2, <1>4 DEF Ended
<1> QED
  BY <1>2, <1>3, <1>4 DEF Next

LEMMA RInvAlways == Spec => []RInv
<1>1. Init => RInv
  BY RInvInit
<1>2. RInv /\ [Next]_vars => RInv'
  BY RInvKept
<1> QED
  BY <1>1, <1>2, PTL DEF Spec

-----------------------------------------------------------------------------
(* What the invariant says                                                 *)

(* It says that every variable has its type.                                *)
LEMMA TypeIsOK ==
  ASSUME RInv
  PROVE  HLTypeOK
<1> SUFFICES ASSUME NEW h \in Heads
             PROVE  /\ pc[h] \in {"begin", "work", "next move", "move", "work while moving",
                                    "progress", "manager", "last work", "drain", "left"}
                    /\ DOMAIN mcChainsToAdd[h] \union DOMAIN mh[h] \union DOMAIN toMove[h]
                         \union finished[h] \subseteq Ids
                    /\ \A id \in DOMAIN mh[h] : mh[h][id].iteration \in 0 .. TargetLength
                    /\ workQueue[h] \subseteq (1 .. TargetLength) \X Ids
                    /\ iteration[h] \in 0 .. TargetLength
                    /\ toGet[h] \in Int
                    /\ {running[h], inProgress[h], sendProgress[h]} \subseteq BOOLEAN
                    /\ moving[h] \in Ids \union {NoId}
                    /\ passedOver \in BOOLEAN
                    /\ ToSet(tasks[h]) \subseteq Heads \X CallSet
                    /\ \A j \in Heads : ToSet(channel[h][j]) \subseteq {h} \X CallSet
  BY DEF HLTypeOK, RInv
<1>1. PlaceIs(h) /\ ChainsAre(h) /\ CallsAre /\ passedOver \in BOOLEAN
  BY DEF RInv
<1>2. pc[h] \in {"begin", "work", "next move", "move", "work while moving",
                 "progress", "manager", "last work", "drain", "left"}
  BY <1>1 DEF PlaceIs, Pcs, MovePcs
<1>3. /\ iteration[h] \in 0 .. TargetLength /\ toGet[h] \in Int
      /\ moving[h] \in Ids \union {NoId}
  BY <1>1 DEF PlaceIs
<1>4. {running[h], inProgress[h], sendProgress[h]} \subseteq BOOLEAN
  BY <1>1, Zenon DEF PlaceIs
<1>5. /\ DOMAIN mcChainsToAdd[h] \union DOMAIN mh[h] \union DOMAIN toMove[h]
           \union finished[h] \subseteq Ids
      /\ workQueue[h] \subseteq (1 .. TargetLength) \X Ids
  BY <1>1 DEF ChainsAre, KnownTo
<1>6. \A id \in DOMAIN mh[h] : mh[h][id].iteration \in 0 .. TargetLength
  BY <1>1 DEF ChainsAre, Objs
<1>7. ToSet(tasks[h]) \subseteq Heads \X CallSet
  <2>1. tasks[h] \in Seq(Heads \X CallSet)
    BY <1>1 DEF CallsAre
  <2> QED
    BY <2>1 DEF ToSet
<1>8. ASSUME NEW j \in Heads
      PROVE  ToSet(channel[h][j]) \subseteq {h} \X CallSet
  <2>1. channel[h][j] \in Seq(Heads \X CallSet)
    BY <1>1 DEF CallsAre
  <2>2. \A k \in DOMAIN channel[h][j] :
          channel[h][j][k] \in Heads \X CallSet /\ channel[h][j][k][1] = h
    BY <1>1, <2>1 DEF CallsAre
  <2>3. \A k \in DOMAIN channel[h][j] : channel[h][j][k] \in {h} \X CallSet
    BY <2>2
  <2> QED
    BY <2>1, <2>3 DEF ToSet
<1> QED
  BY <1>1, <1>2, <1>3, <1>4, <1>5, <1>6, <1>7, <1>8, Zenon

LEMMA QueueIs ==
  ASSUME RInv
  PROVE  QueueIsExact
<1>1. \A h \in Heads : \A id \in DOMAIN mh[h] \ {moving[h]} : ExactFor(h, id)
  BY DEF RInv, ChainsAre
<1> QED
  BY <1>1, TypeIsOK DEF QueueIsExact, ExactFor

(* The calls to a head with their places, and what it has to execute.       *)
LEMMA CallsToAre ==
  ASSUME NEW h \in Heads, NEW c
  PROVE  c \in CallsTo(h)
           <=> \E j \in Heads : \E k \in DOMAIN Inbox(h)[j] : c = <<j, k, Inbox(h)[j][k][2]>>
<1>1. \A j \in Heads : Inbox(h)[j] = IF j = h THEN tasks[h] ELSE channel[j][h]
  BY DEF Inbox
<1>2. ASSUME c \in CallsTo(h)
      PROVE  \E j \in Heads : \E k \in DOMAIN Inbox(h)[j] : c = <<j, k, Inbox(h)[j][k][2]>>
  <2>1. CASE c \in {<<h, k, tasks[h][k][2]>> : k \in DOMAIN tasks[h]}
    BY <1>1, <2>1
  <2>2. CASE c \in UNION {{<<j, k, channel[j][h][k][2]>> : k \in DOMAIN channel[j][h]} :
                            j \in Heads \ {h}}
    <3>1. PICK j \in Heads \ {h} : c \in {<<j, k, channel[j][h][k][2]>> : k \in DOMAIN channel[j][h]}
      BY <2>2
    <3> QED
      BY <1>1, <3>1
  <2> QED
    BY <1>2, <2>1, <2>2 DEF CallsTo
<1>3. ASSUME NEW j \in Heads, NEW k \in DOMAIN Inbox(h)[j], c = <<j, k, Inbox(h)[j][k][2]>>
      PROVE  c \in CallsTo(h)
  <2>1. CASE j = h
    BY <1>1, <1>3, <2>1 DEF CallsTo
  <2>2. CASE j # h
    BY <1>1, <1>3, <2>2 DEF CallsTo
  <2> QED
    BY <2>1, <2>2
<1> QED
  BY <1>2, <1>3

(* The calls to a head are what it has to execute, each at one place.       *)
LEMMA CallsToFacts ==
  ASSUME CallsAre, NEW h \in Heads
  PROVE  /\ \A c \in CallsTo(h) : c[3] \in Content(h) /\ c[3] \in CallSet
         /\ \A c, d \in CallsTo(h) : c[3] = d[3] => c = d
         /\ \A x \in Content(h) : \E c \in CallsTo(h) : c[3] = x
<1>1. ASSUME NEW c \in CallsTo(h)
      PROVE  c[3] \in Content(h)
  <2>1. PICK j \in Heads : \E k \in DOMAIN Inbox(h)[j] : c = <<j, k, Inbox(h)[j][k][2]>>
    BY CallsToAre
  <2> QED
    BY <2>1, CallAt DEF Content
<1>2. ASSUME NEW c \in CallsTo(h), NEW d \in CallsTo(h), c[3] = d[3]
      PROVE  c = d
  <2>1. PICK j \in Heads : \E k \in DOMAIN Inbox(h)[j] : c = <<j, k, Inbox(h)[j][k][2]>>
    BY CallsToAre
  <2>2. PICK k \in DOMAIN Inbox(h)[j] : c = <<j, k, Inbox(h)[j][k][2]>>
    BY <2>1
  <2>3. PICK i \in Heads : \E l \in DOMAIN Inbox(h)[i] : d = <<i, l, Inbox(h)[i][l][2]>>
    BY CallsToAre
  <2>4. PICK l \in DOMAIN Inbox(h)[i] : d = <<i, l, Inbox(h)[i][l][2]>>
    BY <2>3
  <2>5. Inbox(h)[j][k][2] = Inbox(h)[i][l][2]
    BY <1>2, <2>2, <2>4
  <2>6. EachOnce(Inbox(h))
    BY DEF CallsAre
  <2>7. j = i /\ k = l
    BY <2>5, <2>6, OnePlace
  <2> QED
    BY <2>2, <2>4, <2>7
<1>3. ASSUME NEW x \in Content(h)
      PROVE  \E c \in CallsTo(h) : c[3] = x
  <2>1. PICK j \in Heads : \E k \in DOMAIN Inbox(h)[j] : Inbox(h)[j][k][2] = x
    BY CallOf DEF Content
  <2>2. PICK k \in DOMAIN Inbox(h)[j] : Inbox(h)[j][k][2] = x
    BY <2>1
  <2>3. PICK c : c = <<j, k, Inbox(h)[j][k][2]>>
    OBVIOUS
  <2>4. c \in CallsTo(h) /\ c[3] = x
    BY <2>2, <2>3, CallsToAre
  <2> QED
    BY <2>4
<1>4. Content(h) \subseteq CallSet
  BY ContentIs
<1> QED
  BY <1>1, <1>2, <1>3, <1>4

(* Chains are sent only while they are moved.                               *)
LEMMA SentMeansMoved ==
  ASSUME RInv, NEW h \in Heads, NEW c \in Content(h),
         c.fn \in {"move_markov_chain", "recieve_markov_chain"}
  PROVE  Moved
<1>1. CASE ~manager.requested
  BY <1>1 DEF RInv, Quiet
<1>2. CASE manager.required
  <2>1. AskedIs(h)
    BY <1>2 DEF RInv, Asking
  <2> QED
    BY <2>1 DEF AskedIs, RequestProgress
<1>3. CASE manager.requested /\ ~manager.required
  BY <1>3 DEF RInv
<1> QED
  BY <1>1, <1>2, <1>3

(* A chain that is sent is on a trip.                                       *)
LEMMA ChainSent ==
  ASSUME RInv, NEW h \in Heads, NEW c \in ChainsSent(h)
  PROVE  /\ Moved /\ c[3] \in Chains(h) /\ c[3] = RecieveChain(c[3].id, c[3].iteration)
         /\ <<c[3].id, h, <<"sent", c[3].iteration>>>> \in Trips
<1>1. CallsAre
  BY InvParts
<1>2. c \in CallsTo(h) /\ c[3].fn = "recieve_markov_chain"
  BY DEF ChainsSent
<1>3. c[3] \in Content(h) /\ c[3] \in CallSet
  BY <1>1, <1>2, CallsToFacts
<1>4. c[3] = RecieveChain(c[3].id, c[3].iteration)
  BY <1>2, <1>3, CallKinds
<1>5. c[3] \in Chains(h)
  BY <1>2, <1>3 DEF Chains
<1>6. Moved
  BY <1>2, <1>3, SentMeansMoved
<1> QED
  BY <1>4, <1>5, <1>6 DEF Trips, TripsAt

(* A head that has stopped waits for no chain, so none is on a trip to it.  *)
LEMMA NoneLate ==
  ASSUME RInv
  PROVE  NoChainComesLate
<1> SUFFICES ASSUME NEW h \in Heads, pc[h] \in {"drain", "left"}
             PROVE  /\ DOMAIN mh[h] = {} /\ DOMAIN toMove[h] = {} /\ Added(h) = {}
                    /\ ChainsSent(h) = {}
  BY DEF NoChainComesLate
<1>1. PlaceIs(h) /\ ~running[h]
  BY InvParts DEF PlaceIs
<1>2. DOMAIN mh[h] = {} /\ DOMAIN toMove[h] = {} /\ DOMAIN mcChainsToAdd[h] = {}
  BY <1>1 DEF PlaceIs
<1>3. Added(h) = {}
  BY <1>2 DEF Added
<1>4. ASSUME NEW c \in ChainsSent(h)
      PROVE  FALSE
  <2>1. Moved /\ <<c[3].id, h, <<"sent", c[3].iteration>>>> \in Trips
    BY ChainSent
  <2>2. MovedIs(h)
    BY <2>1 DEF Moved
  <2>3. toGet[h] = 0 /\ Announcements(h) = {}
    BY <1>1, <2>2 DEF MovedIs, Announcements
  <2>4. 0 >= Cardinality(Coming(h)) /\ Coming(h) \subseteq Ids
    BY <2>2, <2>3 DEF MovedIs, Counted
  <2>5. IsFiniteSet(Coming(h)) /\ Cardinality(Coming(h)) \in Nat
    BY <2>4, IdsCount
  <2>6. Cardinality(Coming(h)) = 0
    BY <2>4, <2>5
  <2>7. Coming(h) = {}
    BY <2>5, <2>6, FS_EmptySet
  <2>8. c[3].id \in Coming(h)
    <3>1. PICK t \in Trips : t = <<c[3].id, h, <<"sent", c[3].iteration>>>>
      BY <2>1
    <3>2. t[1] = c[3].id /\ t[2] = h
      BY <3>1
    <3> QED
      BY <3>2 DEF Coming, To
  <2> QED
    BY <2>7, <2>8
<1> QED
  BY <1>2, <1>3, <1>4

(* What a head keeps no other keeps, and what is on a trip none keeps.      *)
LEMMA OnePlaceEach ==
  ASSUME RInv
  PROVE  RunsOnce
<1> SUFFICES ASSUME NEW id \in Ids
             PROVE  Cardinality(
                {<<"runs", h>> : h \in {g \in Heads : id \in DOMAIN mh[g]}}
                  \union {<<"will run", h>> : h \in {g \in Heads : id \in Added(g)}}
                  \union {<<"finished", h>> : h \in {g \in Heads : id \in finished[g]}}
                  \union {c \in UNION {ChainsSent(h) : h \in Heads} :
                            c[3].id = id /\ c[3].iteration < TargetLength}) <= 1
  BY DEF RunsOnce
<1> DEFINE Runs(g) == id \in DOMAIN mh[g]
           WillRun(g) == id \in Added(g)
           Finished(g) == id \in finished[g]
           places == {<<"runs", h>> : h \in {g \in Heads : Runs(g)}}
                       \union {<<"will run", h>> : h \in {g \in Heads : WillRun(g)}}
                       \union {<<"finished", h>> : h \in {g \in Heads : Finished(g)}}
           onTheirWay == {c \in UNION {ChainsSent(h) : h \in Heads} :
                            c[3].id = id /\ c[3].iteration < TargetLength}
<1>1. KeptOnce /\ CallsAre
  BY DEF RInv
<1>2. ASSUME NEW g \in Heads
      PROVE  /\ Runs(g) \/ WillRun(g) \/ Finished(g) => id \in Keeps(g)
             /\ Runs(g) => ~WillRun(g) /\ ~Finished(g)
             /\ WillRun(g) => ~Finished(g)
  <2>1. ChainsAre(g)
    BY InvParts
  <2>2. Added(g) \subseteq DOMAIN mcChainsToAdd[g]
    BY DEF Added
  <2> QED
    BY <2>1, <2>2 DEF ChainsAre, Keeps
<1>3. \A g, h \in Heads : g # h => ~(id \in Keeps(g) /\ id \in Keeps(h))
  BY <1>1 DEF KeptOnce
<1>4. ASSUME NEW c \in onTheirWay
      PROVE  \E h \in Heads : /\ c \in ChainsSent(h) /\ id \in Live(h)
                              /\ \A g \in Heads : id \notin Keeps(g)
  <2>1. PICK h \in Heads : c \in ChainsSent(h) /\ c[3].id = id /\ c[3].iteration < TargetLength
    OBVIOUS
  <2>2. c[3] \in Chains(h)
    BY <2>1, ChainSent
  <2>3. id \in Live(h)
    BY <2>1, <2>2 DEF Live
  <2> QED
    BY <1>1, <2>1, <2>3 DEF KeptOnce
<1>5. ASSUME NEW c \in onTheirWay, NEW d \in onTheirWay
      PROVE  c = d
  <2>1. c[3].id = id /\ d[3].id = id
    OBVIOUS
  <2>2. PICK h \in Heads : c \in ChainsSent(h)
    BY <1>4
  <2>3. PICK g \in Heads : d \in ChainsSent(g)
    BY <1>4
  <2>4. /\ Moved /\ c[3] = RecieveChain(c[3].id, c[3].iteration)
        /\ <<c[3].id, h, <<"sent", c[3].iteration>>>> \in Trips
    BY <2>2, ChainSent
  <2>5. /\ d[3] = RecieveChain(d[3].id, d[3].iteration)
        /\ <<d[3].id, g, <<"sent", d[3].iteration>>>> \in Trips
    BY <2>3, ChainSent
  <2>6. <<id, h, <<"sent", c[3].iteration>>>> = <<id, g, <<"sent", d[3].iteration>>>>
    BY <2>1, <2>4, <2>5 DEF Moved, OneTrip
  <2>7. h = g /\ c[3].iteration = d[3].iteration
    BY <2>6
  <2>8. c[3] = d[3]
    BY <2>1, <2>4, <2>5, <2>7
  <2> QED
    BY <1>1, <2>2, <2>3, <2>7, <2>8, CallsToFacts DEF ChainsSent
<1> HIDE DEF Runs, WillRun, Finished, onTheirWay
<1>6. \A p, q \in places : p = q
  BY <1>2, <1>3
<1>7. onTheirWay # {} => places = {}
  BY <1>2, <1>4
<1> HIDE DEF places
<1>8. \A p, q \in places \union onTheirWay : p = q
  BY <1>5, <1>6, <1>7
<1>9. Cardinality(places \union onTheirWay) <= 1
  <2> DEFINE S == places \union onTheirWay
  <2> HIDE DEF S
  <2>1. CASE S = {}
    BY <2>1, FS_EmptySet DEF S
  <2>2. CASE S # {}
    <3>1. PICK p : S = {p}
      BY <1>8, <2>2 DEF S
    <3>2. Cardinality({p}) = 1
      BY FS_Singleton, Zenon
    <3> QED
      BY <3>1, <3>2 DEF S
  <2> QED
    BY <2>1, <2>2
<1> QED
  BY <1>9 DEF Runs, WillRun, Finished, places, onTheirWay

(* The sum of what the calls announce, one after another.                   *)
SumFor(c, rest) == c[3].n + rest
NextSum(iter, s) ==
  IF s = {} THEN 0
  ELSE LET x == CHOOSE x \in s : TRUE IN SumFor(x, iter[s \ {x}])
SumOf(S) ==
  LET iter[s \in SUBSET S] == NextSum(iter, s)
  IN  iter[S]

LEMMA AnnouncedSum ==
  ASSUME NEW h
  PROVE  Announced(h) = SumOf(MovesTo(h, h))
BY Zenon DEF Announced, MapThenSumSet, MapThenFoldSet, SumOf, NextSum, SumFor

LEMMA SumAt ==
  ASSUME NEW S, NEW f, f = [s \in SUBSET S |-> NextSum(f, s)]
  PROVE  \E iter : iter = [s \in SUBSET S |-> NextSum(iter, s)] /\ SumOf(S) = iter[S]
<1> DEFINE iter == CHOOSE iter : iter = [s \in SUBSET S |-> NextSum(iter, s)]
<1>1. iter = [s \in SUBSET S |-> NextSum(iter, s)]
  <2>1. \E g : g = [s \in SUBSET S |-> NextSum(g, s)]
    OBVIOUS
  <2> QED
    BY <2>1, Zenon
<1>2. SumOf(S) = iter[S]
  BY Zenon DEF SumOf
<1> HIDE DEF iter
<1> QED
  BY <1>1, <1>2

LEMMA SumOfNone ==
  SumOf({}) = 0
<1> DEFINE f == [s \in SUBSET {} |-> 0]
<1>1. \A g, s : s \in SUBSET {} => NextSum(g, s) = 0
  BY DEF NextSum
<1>2. f = [s \in SUBSET {} |-> NextSum(f, s)]
  BY <1>1
<1> HIDE DEF f
<1>3. PICK iter : /\ iter = [s \in SUBSET {} |-> NextSum(iter, s)]
                  /\ SumOf({}) = iter[{}]
  BY <1>2, SumAt
<1> QED
  BY <1>1, <1>3

(* The sum over one call, and over none.                                    *)
LEMMA SumOfOne ==
  ASSUME NEW c, c[3].n \in Int
  PROVE  SumOf({c}) = c[3].n
<1> DEFINE f == [s \in SUBSET {c} |-> IF s = {} THEN 0 ELSE c[3].n]
<1>1. \A s : s \in SUBSET {c} <=> s = {} \/ s = {c}
  OBVIOUS
<1>2. \A g : NextSum(g, {}) = 0 /\ NextSum(g, {c}) = c[3].n + g[{}]
  <2> TAKE g
  <2>1. NextSum(g, {}) = 0
    BY DEF NextSum
  <2>2. (CHOOSE x \in {c} : TRUE) = c /\ {c} \ {c} = {} /\ {c} # {}
    <3>1. \E x \in {c} : TRUE
      OBVIOUS
    <3>2. (CHOOSE x \in {c} : TRUE) \in {c}
      BY <3>1, Zenon
    <3> QED
      BY <3>2
  <2>3. NextSum(g, {c}) = SumFor(c, g[{}])
    BY <2>2, Zenon DEF NextSum
  <2> QED
    BY <2>1, <2>3 DEF SumFor
<1>3. f[{}] = 0 /\ f[{c}] = c[3].n
  OBVIOUS
<1>4. f = [s \in SUBSET {c} |-> NextSum(f, s)]
  <2>1. \A s \in SUBSET {c} : f[s] = NextSum(f, s)
    <3> HIDE DEF f
    <3>1. NextSum(f, {}) = 0 /\ NextSum(f, {c}) = c[3].n + f[{}]
      BY <1>2
    <3>2. NextSum(f, {c}) = c[3].n
      BY <1>3, <3>1
    <3>3. f[{}] = NextSum(f, {}) /\ f[{c}] = NextSum(f, {c})
      BY <1>3, <3>1, <3>2
    <3> QED
      BY <1>1, <3>3
  <2> QED
    BY <2>1
<1> HIDE DEF f
<1>5. PICK iter : /\ iter = [s \in SUBSET {c} |-> NextSum(iter, s)]
                  /\ SumOf({c}) = iter[{c}]
  BY <1>4, SumAt
<1>6. iter[{c}] = NextSum(iter, {c}) /\ iter[{}] = NextSum(iter, {})
  BY <1>1, <1>5
<1>7. iter[{}] = 0
  BY <1>2, <1>6
<1> QED
  <2>1. NextSum(iter, {c}) = c[3].n + iter[{}]
    BY <1>2
  <2> QED
    BY <1>5, <1>6, <1>7, <2>1

(* As many elements, by a map from one set onto the other that is one to    *)
(* one.                                                                     *)
LEMMA SameCount ==
  ASSUME NEW S, NEW T, IsFiniteSet(T), NEW f \in [S -> T],
         \A x, y \in S : f[x] = f[y] => x = y, \A t \in T : \E x \in S : f[x] = t
  PROVE  Cardinality(S) = Cardinality(T)
<1>1. f \in Injection(S, T) /\ f \in Surjection(S, T)
  BY DEF Injection, Surjection, IsInjective
<1> QED
  BY <1>1, FS_Injection

LEMMA ThreeParts ==
  ASSUME NEW A, NEW B, NEW C, IsFiniteSet(A), IsFiniteSet(B), IsFiniteSet(C),
         A \cap B = {}, A \cap C = {}, B \cap C = {}
  PROVE  Cardinality(A \union B \union C) = Cardinality(A) + Cardinality(B) + Cardinality(C)
<1>1. /\ Cardinality(A \union B) = Cardinality(A) + Cardinality(B) - Cardinality(A \cap B)
      /\ IsFiniteSet(A \union B)
  BY FS_Union
<1>2. (A \union B) \cap C = {}
  OBVIOUS
<1>3. Cardinality((A \union B) \union C)
        = Cardinality(A \union B) + Cardinality(C) - Cardinality((A \union B) \cap C)
  BY <1>1, FS_Union
<1>4. Cardinality({}) = 0
  BY FS_EmptySet
<1>5. Cardinality(A) \in Nat /\ Cardinality(B) \in Nat /\ Cardinality(C) \in Nat
  BY FS_CardinalityType
<1>6. Cardinality(A \cap B) = 0 /\ Cardinality((A \union B) \cap C) = 0
  BY <1>2, <1>4
<1> QED
  BY <1>1, <1>3, <1>5, <1>6

(* The chains on their way to head h: sent, ordered and left to send.       *)
OrdersTo(h) == UNION {MovesTo(h, j) : j \in Heads \ {h}}
LeftTo(h) == UNION {{<<j, id>> : id \in MovesLeft(j, h)} : j \in Heads}
SentIds(h) == {c[3].id : c \in ChainsSent(h)}
OrderedIds(h) == {c[3].n : c \in OrdersTo(h)}
LeftIds(h) == {x[2] : x \in LeftTo(h)}

LEMMA OrderTrip ==
  ASSUME RInv, NEW h \in Heads, NEW c \in OrdersTo(h)
  PROVE  \E j \in Heads \ {h} :
           /\ c \in CallsTo(j) /\ c[3] = MoveChain(c[3].n, h)
           /\ <<c[3].n, h, <<"ordered", j>>>> \in Trips
<1>1. PICK j \in Heads \ {h} : c \in MovesTo(h, j)
  BY DEF OrdersTo
<1>2. c \in CallsTo(j) /\ c[3].fn = "move_markov_chain" /\ c[3].to = h
  BY <1>1 DEF MovesTo
<1>3. CallsAre
  BY InvParts
<1>4. c[3] \in Content(j) /\ c[3] \in CallSet
  BY <1>2, <1>3, CallsToFacts
<1>5. c[3] = MoveChain(c[3].n, h)
  BY <1>2, <1>4, CallKinds
<1>6. c[3] \in OrdersAt(j)
  BY <1>2, <1>4 DEF OrdersAt, IsMove
<1>7. <<c[3].n, c[3].to, <<"ordered", j>>>> \in Trips
  BY <1>6 DEF Trips, TripsAt
<1> QED
  BY <1>2, <1>5, <1>7

LEMMA LeftTrip ==
  ASSUME NEW h \in Heads, NEW x \in LeftTo(h)
  PROVE  /\ x = <<x[1], x[2]>> /\ x[1] \in Heads
         /\ <<x[2], h, <<"left", x[1]>>>> \in Trips
<1>1. PICK j \in Heads : x \in {<<j, id>> : id \in MovesLeft(j, h)}
  BY DEF LeftTo
<1>2. PICK id \in MovesLeft(j, h) : x = <<j, id>>
  BY <1>1
<1>3. id \in LeftAt(j) /\ toMove[j][id] = h
  BY <1>2 DEF MovesLeft, LeftAt, Left
<1>4. <<id, toMove[j][id], <<"left", j>>>> \in Trips
  BY <1>3 DEF Trips, TripsAt
<1>5. x[1] = j /\ x[2] = id
  BY <1>2
<1> QED
  BY <1>2, <1>3, <1>4, <1>5

(* A chain has one trip.                                                    *)
LEMMA OneWay ==
  ASSUME Moved, NEW i, NEW h, NEW a, NEW b, <<i, h, a>> \in Trips, <<i, h, b>> \in Trips
  PROVE  a = b
<1>1. <<i, h, a>> = <<i, h, b>>
  BY DEF Moved, OneTrip
<1> QED
  BY <1>1

(* A chain comes when it has been sent, ordered or is left to send.         *)
LEMMA ComingAre ==
  ASSUME RInv, Moved, NEW h \in Heads
  PROVE  Coming(h) = SentIds(h) \union OrderedIds(h) \union LeftIds(h)
<1>1. CallsAre
  BY InvParts
<1>2. ASSUME NEW id \in Coming(h)
      PROVE  id \in SentIds(h) \union OrderedIds(h) \union LeftIds(h)
  <2>1. PICK t \in Trips : t[1] = id /\ t[2] = h
    BY ComingOf
  <2>2. PICK j \in Heads : t \in TripsAt(j)
    BY TripOf
  <2>3. CASE \E c \in Chains(j) : t = <<c.id, j, <<"sent", c.iteration>>>>
    <3>1. PICK c \in Chains(j) : t = <<c.id, j, <<"sent", c.iteration>>>>
      BY <2>3
    <3>2. j = h /\ c.id = id
      BY <2>1, <3>1
    <3>3. PICK p \in CallsTo(h) : p[3] = c
      BY <1>1, <3>1, <3>2, CallsToFacts DEF Chains
    <3>4. p \in ChainsSent(h)
      BY <3>1, <3>3 DEF ChainsSent, Chains
    <3> QED
      BY <3>2, <3>3, <3>4 DEF SentIds
  <2>4. CASE \E c \in OrdersAt(j) : t = <<c.n, c.to, <<"ordered", j>>>>
    <3>1. PICK c \in OrdersAt(j) : t = <<c.n, c.to, <<"ordered", j>>>>
      BY <2>4
    <3>2. c.to = h /\ c.n = id /\ c.fn = "move_markov_chain" /\ c \in Content(j) /\ j # h
      BY <2>1, <3>1 DEF OrdersAt, IsMove
    <3>3. PICK p \in CallsTo(j) : p[3] = c
      BY <1>1, <3>2, CallsToFacts
    <3>4. p \in OrdersTo(h)
      BY <3>2, <3>3 DEF OrdersTo, MovesTo
    <3> QED
      BY <3>2, <3>3, <3>4 DEF OrderedIds
  <2>5. CASE \E i \in LeftAt(j) : t = <<i, toMove[j][i], <<"left", j>>>>
    <3>1. PICK i \in LeftAt(j) : t = <<i, toMove[j][i], <<"left", j>>>>
      BY <2>5
    <3>2. toMove[j][i] = h /\ i = id
      BY <2>1, <3>1
    <3>3. id \in MovesLeft(j, h)
      BY <3>1, <3>2 DEF MovesLeft, LeftAt, Left
    <3>4. PICK x : x = <<j, id>>
      OBVIOUS
    <3>5. x \in LeftTo(h) /\ x[2] = id
      BY <3>3, <3>4 DEF LeftTo
    <3> QED
      BY <3>5 DEF LeftIds
  <2> QED
    BY <2>2, <2>3, <2>4, <2>5, TripIs
<1>3. ASSUME NEW t \in Trips, t[2] = h
      PROVE  t[1] \in Coming(h)
  BY <1>3 DEF Coming, To
<1>4. ASSUME NEW id \in SentIds(h)
      PROVE  id \in Coming(h)
  <2>1. PICK c \in ChainsSent(h) : id = c[3].id
    BY DEF SentIds
  <2>2. PICK t \in Trips : t = <<c[3].id, h, <<"sent", c[3].iteration>>>>
    BY ChainSent
  <2> QED
    BY <1>3, <2>1, <2>2
<1>5. ASSUME NEW id \in OrderedIds(h)
      PROVE  id \in Coming(h)
  <2>1. PICK c \in OrdersTo(h) : id = c[3].n
    BY DEF OrderedIds
  <2>2. PICK j \in Heads : <<c[3].n, h, <<"ordered", j>>>> \in Trips
    BY OrderTrip
  <2>3. PICK t \in Trips : t = <<c[3].n, h, <<"ordered", j>>>>
    BY <2>2
  <2> QED
    BY <1>3, <2>1, <2>3
<1>6. ASSUME NEW id \in LeftIds(h)
      PROVE  id \in Coming(h)
  <2>1. PICK x \in LeftTo(h) : id = x[2]
    BY DEF LeftIds
  <2>2. PICK t \in Trips : t = <<x[2], h, <<"left", x[1]>>>>
    BY LeftTrip
  <2> QED
    BY <1>3, <2>1, <2>2
<1> QED
  BY <1>2, <1>4, <1>5, <1>6

(* These are disjoint, and one call or entry stands for each chain.         *)
LEMMA ToComeIs ==
  ASSUME RInv, Moved, NEW h \in Heads
  PROVE  ToCome(h) = Cardinality(Coming(h))
<1>1. CallsAre
  BY InvParts
<1>2. /\ Coming(h) = SentIds(h) \union OrderedIds(h) \union LeftIds(h)
      /\ Coming(h) \subseteq Ids
  BY ComingAre DEF Moved, MovedIs
<1>3. /\ IsFiniteSet(SentIds(h)) /\ IsFiniteSet(OrderedIds(h)) /\ IsFiniteSet(LeftIds(h))
  <2>1. SentIds(h) \subseteq Ids /\ OrderedIds(h) \subseteq Ids /\ LeftIds(h) \subseteq Ids
    BY <1>2
  <2> QED
    BY <2>1, IdsCount
<1>4. SentIds(h) \cap OrderedIds(h) = {}
  <2> SUFFICES ASSUME NEW c \in ChainsSent(h), NEW d \in OrdersTo(h), c[3].id = d[3].n
               PROVE  FALSE
    BY DEF SentIds, OrderedIds
  <2>1. <<c[3].id, h, <<"sent", c[3].iteration>>>> \in Trips
    BY ChainSent
  <2>2. PICK j \in Heads : <<d[3].n, h, <<"ordered", j>>>> \in Trips
    BY OrderTrip
  <2>3. <<"sent", c[3].iteration>> = <<"ordered", j>>
    BY <2>1, <2>2, OneWay
  <2> QED
    BY <2>3
<1>5. SentIds(h) \cap LeftIds(h) = {}
  <2> SUFFICES ASSUME NEW c \in ChainsSent(h), NEW x \in LeftTo(h), c[3].id = x[2]
               PROVE  FALSE
    BY DEF SentIds, LeftIds
  <2>1. <<c[3].id, h, <<"sent", c[3].iteration>>>> \in Trips
    BY ChainSent
  <2>2. <<x[2], h, <<"left", x[1]>>>> \in Trips
    BY LeftTrip
  <2>3. <<"sent", c[3].iteration>> = <<"left", x[1]>>
    BY <2>1, <2>2, OneWay
  <2> QED
    BY <2>3
<1>6. OrderedIds(h) \cap LeftIds(h) = {}
  <2> SUFFICES ASSUME NEW d \in OrdersTo(h), NEW x \in LeftTo(h), d[3].n = x[2]
               PROVE  FALSE
    BY DEF OrderedIds, LeftIds
  <2>1. PICK j \in Heads : <<d[3].n, h, <<"ordered", j>>>> \in Trips
    BY OrderTrip
  <2>2. <<x[2], h, <<"left", x[1]>>>> \in Trips
    BY LeftTrip
  <2>3. <<"ordered", j>> = <<"left", x[1]>>
    BY <2>1, <2>2, OneWay
  <2> QED
    BY <2>3
<1>7. Cardinality(ChainsSent(h)) = Cardinality(SentIds(h))
  <2> DEFINE f == [c \in ChainsSent(h) |-> c[3].id]
  <2>1. ASSUME NEW c \in ChainsSent(h), NEW d \in ChainsSent(h), c[3].id = d[3].id
        PROVE  c = d
    <3>1. /\ <<c[3].id, h, <<"sent", c[3].iteration>>>> \in Trips
          /\ c[3] = RecieveChain(c[3].id, c[3].iteration)
      BY ChainSent
    <3>2. /\ <<d[3].id, h, <<"sent", d[3].iteration>>>> \in Trips
          /\ d[3] = RecieveChain(d[3].id, d[3].iteration)
      BY ChainSent
    <3>3. <<"sent", c[3].iteration>> = <<"sent", d[3].iteration>>
      BY <2>1, <3>1, <3>2, OneWay
    <3>4. c[3].iteration = d[3].iteration
      BY <3>3
    <3>5. c[3] = d[3]
      BY <2>1, <3>1, <3>2, <3>4
    <3> QED
      BY <1>1, <3>5, CallsToFacts DEF ChainsSent
  <2>2. /\ f \in [ChainsSent(h) -> SentIds(h)]
        /\ \A c \in ChainsSent(h) : f[c] = c[3].id
    BY DEF SentIds
  <2>3. \A i \in SentIds(h) : \E c \in ChainsSent(h) : f[c] = i
    BY <2>2 DEF SentIds
  <2> HIDE DEF f
  <2>4. \A c, d \in ChainsSent(h) : f[c] = f[d] => c = d
    BY <2>1, <2>2
  <2> QED
    BY <1>3, <2>2, <2>3, <2>4, SameCount
<1>8. Cardinality(OrdersTo(h)) = Cardinality(OrderedIds(h))
  <2> DEFINE f == [c \in OrdersTo(h) |-> c[3].n]
  <2>1. ASSUME NEW c \in OrdersTo(h), NEW d \in OrdersTo(h), c[3].n = d[3].n
        PROVE  c = d
    <3>1. PICK j \in Heads : /\ c \in CallsTo(j) /\ c[3] = MoveChain(c[3].n, h)
                             /\ <<c[3].n, h, <<"ordered", j>>>> \in Trips
      BY OrderTrip
    <3>2. PICK k \in Heads : /\ d \in CallsTo(k) /\ d[3] = MoveChain(d[3].n, h)
                             /\ <<d[3].n, h, <<"ordered", k>>>> \in Trips
      BY OrderTrip
    <3>3. <<"ordered", j>> = <<"ordered", k>>
      BY <2>1, <3>1, <3>2, OneWay
    <3>4. j = k /\ c[3] = d[3]
      BY <2>1, <3>1, <3>2, <3>3
    <3> QED
      BY <1>1, <3>1, <3>2, <3>4, CallsToFacts
  <2>2. /\ f \in [OrdersTo(h) -> OrderedIds(h)]
        /\ \A c \in OrdersTo(h) : f[c] = c[3].n
    BY DEF OrderedIds
  <2>3. \A i \in OrderedIds(h) : \E c \in OrdersTo(h) : f[c] = i
    BY <2>2 DEF OrderedIds
  <2> HIDE DEF f
  <2>4. \A c, d \in OrdersTo(h) : f[c] = f[d] => c = d
    BY <2>1, <2>2
  <2> QED
    BY <1>3, <2>2, <2>3, <2>4, SameCount
<1>9. Cardinality(LeftTo(h)) = Cardinality(LeftIds(h))
  <2> DEFINE f == [x \in LeftTo(h) |-> x[2]]
  <2>1. ASSUME NEW x \in LeftTo(h), NEW y \in LeftTo(h), x[2] = y[2]
        PROVE  x = y
    <3>1. x = <<x[1], x[2]>> /\ <<x[2], h, <<"left", x[1]>>>> \in Trips
      BY LeftTrip
    <3>2. y = <<y[1], y[2]>> /\ <<y[2], h, <<"left", y[1]>>>> \in Trips
      BY LeftTrip
    <3>3. <<"left", x[1]>> = <<"left", y[1]>>
      BY <2>1, <3>1, <3>2, OneWay
    <3>4. x[1] = y[1]
      BY <3>3
    <3> QED
      BY <2>1, <3>1, <3>2, <3>4
  <2>2. /\ f \in [LeftTo(h) -> LeftIds(h)]
        /\ \A x \in LeftTo(h) : f[x] = x[2]
    BY DEF LeftIds
  <2>3. \A i \in LeftIds(h) : \E x \in LeftTo(h) : f[x] = i
    BY <2>2 DEF LeftIds
  <2> HIDE DEF f
  <2>4. \A x, y \in LeftTo(h) : f[x] = f[y] => x = y
    BY <2>1, <2>2
  <2> QED
    BY <1>3, <2>2, <2>3, <2>4, SameCount
<1>10. Cardinality(Coming(h))
         = Cardinality(SentIds(h)) + Cardinality(OrderedIds(h)) + Cardinality(LeftIds(h))
  BY <1>2, <1>3, <1>4, <1>5, <1>6, ThreeParts
<1>11. ToCome(h) = Cardinality(ChainsSent(h)) + Cardinality(OrdersTo(h)) + Cardinality(LeftTo(h))
  BY DEF ToCome, OrdersTo, LeftTo
<1> QED
  BY <1>7, <1>8, <1>9, <1>10, <1>11

LEMMA AnnouncementOf ==
  ASSUME CallsAre, NEW h \in Heads
  PROVE  /\ \A c \in MovesTo(h, h) : c[3] \in Announcements(h)
         /\ \A c, d \in MovesTo(h, h) : c[3] = d[3] => c = d
         /\ \A x \in Announcements(h) : \E c \in MovesTo(h, h) : c[3] = x
BY CallsToFacts DEF MovesTo, Announcements, IsMove

(* What is still announced and what has been counted is what comes.         *)
LEMMA AnnouncedIs ==
  ASSUME RInv, Moved, NEW h \in Heads, ~passedOver
  PROVE  toGet[h] + Announced(h) = Cardinality(Coming(h))
<1>1. CallsAre /\ MovedIs(h) /\ toGet[h] \in Int
  BY InvParts DEF Moved, PlaceIs
<1>2. Counted(h)
  BY <1>1 DEF MovedIs
<1>3. Announced(h) = SumOf(MovesTo(h, h))
  BY AnnouncedSum
<1>4. CASE Announcements(h) = {}
  <2>1. MovesTo(h, h) = {}
    BY <1>1, <1>4, AnnouncementOf
  <2>2. Announced(h) = 0
    BY <1>3, <2>1, SumOfNone
  <2>3. toGet[h] = Cardinality(Coming(h))
    BY <1>2, <1>4 DEF Counted
  <2> QED
    BY <1>1, <2>2, <2>3
<1>5. CASE Announcements(h) # {}
  <2>1. PICK x \in Announcements(h) : TRUE
    BY <1>5
  <2>2. PICK c \in MovesTo(h, h) : c[3] = x
    BY <1>1, <2>1, AnnouncementOf
  <2>3. \A d \in MovesTo(h, h) : d = c
    BY <1>1, <1>2, <2>2, AnnouncementOf DEF Counted
  <2>4. MovesTo(h, h) = {c}
    BY <2>2, <2>3
  <2>5. c[3].n \in Int
    <3>1. x.n \in 0 .. NumChains
      BY <2>1, AnnouncedNumbers
    <3> QED
      BY <2>2, <3>1, Numbers
  <2>6. Announced(h) = c[3].n
    BY <1>3, <2>4, <2>5, SumOfOne
  <2>7. toGet[h] + x.n = Cardinality(Coming(h))
    BY <1>2, <2>1 DEF Counted
  <2> QED
    BY <2>2, <2>6, <2>7
<1> QED
  BY <1>4, <1>5

(* While nothing is moved nothing is announced and nothing comes.           *)
LEMMA NothingToCome ==
  ASSUME RInv, ~Moved, NEW h \in Heads
  PROVE  toGet[h] + Announced(h) = ToCome(h)
<1>1. CallsAre
  BY InvParts
<1>2. \A j \in Heads : \A c \in CallsTo(j) :
        c[3].fn \notin {"move_markov_chain", "recieve_markov_chain"}
  BY <1>1, CallsToFacts, SentMeansMoved
<1>3. \A j \in Heads : MovesTo(h, j) = {} /\ ChainsSent(h) = {}
  BY <1>2 DEF MovesTo, ChainsSent
<1>4. \A j \in Heads : Still(j)
  <2>1. ~manager.requested \/ manager.required
    BY DEF RInv
  <2> QED
    BY <2>1 DEF RInv, Quiet, Asking, AskedIs
<1>5. \A j \in Heads : MovesLeft(j, h) = {}
  BY <1>4 DEF MovesLeft, Still
<1>6. Announced(h) = 0
  BY <1>3, AnnouncedSum, SumOfNone
<1>7. UNION {MovesTo(h, j) : j \in Heads \ {h}} = {}
  BY <1>3
<1>8. UNION {{<<j, id>> : id \in MovesLeft(j, h)} : j \in Heads} = {}
  <2>1. \A j \in Heads : {<<j, id>> : id \in MovesLeft(j, h)} = {}
    BY <1>5
  <2> QED
    BY <2>1
<1>9. ToCome(h) = Cardinality({}) + Cardinality({}) + Cardinality({})
  BY <1>3, <1>7, <1>8 DEF ToCome
<1>10. Cardinality({}) = 0
  BY FS_EmptySet
<1>11. toGet[h] = 0
  BY <1>4 DEF Still
<1> QED
  BY <1>6, <1>9, <1>10, <1>11

LEMMA AnnouncedExactly ==
  ASSUME RInv
  PROVE  AnnouncedIsExact
<1> SUFFICES ASSUME ~passedOver, NEW h \in Heads
             PROVE  toGet[h] + Announced(h) = ToCome(h)
  BY DEF AnnouncedIsExact
<1>1. CASE Moved
  BY <1>1, AnnouncedIs, ToComeIs
<1>2. CASE ~Moved
  BY <1>2, NothingToCome
<1> QED
  BY <1>1, <1>2

-----------------------------------------------------------------------------
(* Moves make the loads more even                                           *)

(* The loads are numbers.                                                   *)
NextLoad(data, wg, iter, s) ==
  IF s = {} THEN 0
  ELSE LET x == Max(s) IN iter[s \ {x}] + (IF data[x].wg = wg THEN data[x].score ELSE 0)

LoadOf(data, wg) ==
  FoldLeft(LAMBDA sum, e : sum + (IF e.wg = wg THEN e.score ELSE 0), 0, data)

LEMMA LoadIsInt ==
  ASSUME NEW data \in Seq(Report), NEW wg
  PROVE  LoadOf(data, wg) \in Int
<1> DEFINE S == DOMAIN data
           w == [x \in S |-> IF data[x].wg = wg THEN data[x].score ELSE 0]
           ch == [s \in SUBSET S |-> Max(s)]
           step == [p \in S \X Int |-> p[2] + w[p[1]]]
           iter == CHOOSE iter : iter = [s \in SUBSET S |-> NextLoad(data, wg, iter, s)]
<1>1. IsFiniteSet(S) /\ S \subseteq Int
  <2>1. Len(data) \in Nat /\ DOMAIN data = 1 .. Len(data)
    OBVIOUS
  <2>2. IsFiniteSet(1 .. Len(data))
    BY <2>1, FS_Interval
  <2> QED
    BY <2>1, <2>2
<1>2. \A x \in S : w[x] \in Int /\ w[x] = IF data[x].wg = wg THEN data[x].score ELSE 0
  <2> TAKE x \in S
  <2>1. data[x] \in Report
    OBVIOUS
  <2>2. data[x].score \in Int
    BY <2>1, Numbers DEF Report
  <2> QED
    BY <2>2
<1>3. \A s \in SUBSET S : s # {} => Max(s) \in s
  <2> TAKE s \in SUBSET S
  <2> HAVE s # {}
  <2>1. IsFiniteSet(s) /\ s \subseteq Int
    BY <1>1, FS_Subset
  <2> QED
    BY <2>1, GreatestIn
<1> HIDE DEF S
<1>4. /\ \A s \in SUBSET S : s # {} => ch[s] \in s /\ ch[s] = Max(s)
      /\ step \in [S \X Int -> Int] /\ \A x \in S, v \in Int : step[<<x, v>>] = v + w[x]
  <2> HIDE DEF w
  <2> QED
    BY <1>2, <1>3
<1> HIDE DEF ch, step, w
<1>5. PICK G \in [SUBSET S -> Int] : Folds(G, SUBSET S, 0, ch, step)
  <2> DEFINE V == Int
             zero == 0
  <2>1. zero \in V
    OBVIOUS
  <2> HIDE DEF V, zero
  <2>2. \E G \in [SUBSET S -> V] : Folds(G, SUBSET S, zero, ch, step)
    <3>1. step \in [S \X V -> V] /\ \A s \in SUBSET S : s # {} => ch[s] \in s
      BY <1>4 DEF V
    <3> QED
      BY <1>1, <2>1, <3>1, FoldOver
  <2> QED
    BY <2>2 DEF V, zero
<1>6. \A g, s : NextLoad(data, wg, g, s)
                  = IF s = {} THEN 0
                    ELSE g[s \ {Max(s)}] + (IF data[Max(s)].wg = wg THEN data[Max(s)].score ELSE 0)
  BY Zenon DEF NextLoad
<1>7. \A g : \A s \in SUBSET S :
         NextLoad(data, wg, g, s) = IF s = {} THEN 0 ELSE g[s \ {ch[s]}] + w[ch[s]]
  <2> TAKE g
  <2> TAKE s \in SUBSET S
  <2>1. CASE s = {}
    BY <1>6, <2>1
  <2>2. CASE s # {}
    <3>1. ch[s] \in S /\ ch[s] = Max(s)
      BY <1>4, <2>2
    <3>2. NextLoad(data, wg, g, s)
            = g[s \ {Max(s)}] + (IF data[Max(s)].wg = wg THEN data[Max(s)].score ELSE 0)
      BY <1>6, <2>2, Zenon
    <3>3. w[ch[s]] = IF data[ch[s]].wg = wg THEN data[ch[s]].score ELSE 0
      BY <1>2, <3>1
    <3> QED
      BY <2>2, <3>1, <3>2, <3>3
  <2> QED
    BY <2>1, <2>2
<1>8. ASSUME NEW s \in SUBSET S
      PROVE  G[s] = IF s = {} THEN 0 ELSE G[s \ {ch[s]}] + w[ch[s]]
  <2>1. CASE s = {}
    BY <1>5, <2>1 DEF Folds
  <2>2. CASE s # {}
    <3>1. ch[s] \in S /\ G[s \ {ch[s]}] \in Int
      BY <1>4, <2>2
    <3>2. G[s] = step[<<ch[s], G[s \ {ch[s]}]>>]
      BY <1>5, <2>2 DEF Folds
    <3> QED
      BY <1>4, <2>2, <3>1, <3>2
  <2> QED
    BY <2>1, <2>2
<1>9. G = [s \in SUBSET S |-> NextLoad(data, wg, G, s)]
  <2>1. \A s \in SUBSET S : G[s] = NextLoad(data, wg, G, s)
    BY <1>7, <1>8
  <2> QED
    BY <2>1
<1>10. iter = [s \in SUBSET S |-> NextLoad(data, wg, iter, s)]
  BY <1>9, Zenon
<1>11. LoadOf(data, wg) = iter[S]
  BY Zenon DEF LoadOf, FoldLeft, MapThenFoldSet, NextLoad, S
<1> HIDE DEF iter
<1>12. \A s \in SUBSET S : iter[s] = IF s = {} THEN 0 ELSE iter[s \ {ch[s]}] + w[ch[s]]
  BY <1>7, <1>10
<1> DEFINE Bad == {s \in SUBSET S : iter[s] # G[s]}
<1>13. Bad = {}
  <2> SUFFICES ASSUME Bad # {}
               PROVE  FALSE
    OBVIOUS
  <2>1. \A s \in Bad : IsFiniteSet(s)
    BY <1>1, FS_Subset
  <2>2. PICK s \in Bad : \A t \in Bad : Cardinality(s) <= Cardinality(t)
    <3> HIDE DEF Bad
    <3> QED
      BY <2>1, FewestOf
  <2>3. s \in SUBSET S /\ iter[s] # G[s] /\ IsFiniteSet(s)
    BY <2>1
  <2>4. s # {}
    BY <1>8, <1>12, <2>3
  <2>5. ch[s] \in s
    BY <1>4, <2>3, <2>4
  <2> DEFINE t == s \ {ch[s]}
  <2>6. Cardinality(t) = Cardinality(s) - 1 /\ Cardinality(s) \in Nat
    <3> HIDE DEF Bad
    <3> QED
      BY <2>3, <2>5, FS_RemoveElement, FS_CardinalityType
  <2>7. t \notin Bad
    <3> HIDE DEF Bad, t
    <3>1. ~(Cardinality(s) <= Cardinality(t))
      BY <2>6
    <3> QED
      BY <2>2, <3>1
  <2>8. iter[t] = G[t]
    BY <2>3, <2>7
  <2> HIDE DEF Bad
  <2> QED
    BY <1>8, <1>12, <2>3, <2>4, <2>8
<1>14. iter[S] = G[S] /\ G[S] \in Int
  BY <1>5, <1>13
<1> QED
  BY <1>11, <1>14

(* The scores of the reports at the places of K are summed up.               *)
NextScore(data, iter, s) ==
  IF s = {} THEN 0 ELSE LET x == CHOOSE x \in s : TRUE IN data[x].score + iter[s \ {x}]

LEMMA ScoresAreTotal ==
  ASSUME NEW data, NEW K, IsFiniteSet(K), \A k \in K : data[k].score \in Int
  PROVE  MapThenSumSet(LAMBDA k : data[k].score, K) = Total([k \in K |-> data[k].score], K)
<1> DEFINE f == [k \in K |-> data[k].score]
           iter == CHOOSE iter : iter = [s \in SUBSET K |-> NextScore(data, iter, s)]
<1>1. \A k \in K : f[k] \in Int /\ f[k] = data[k].score
  OBVIOUS
<1> HIDE DEF f
<1>2. PICK G \in [SUBSET K -> Int] : Adds(f, G, SUBSET K) /\ Total(f, K) = G[K]
  BY <1>1, TotalIs
<1>3. \A g, s : NextScore(data, g, s)
                  = IF s = {} THEN 0 ELSE data[OneOf(s)].score + g[s \ {OneOf(s)}]
  BY Zenon DEF NextScore, OneOf
<1>4. \A g : \A s \in SUBSET K :
         NextScore(data, g, s) = IF s = {} THEN 0 ELSE f[OneOf(s)] + g[s \ {OneOf(s)}]
  <2> TAKE g
  <2> TAKE s \in SUBSET K
  <2>1. CASE s = {}
    BY <1>3, <2>1
  <2>2. CASE s # {}
    <3>1. OneOf(s) \in K
      BY <2>2, AnyIn
    <3> QED
      BY <1>1, <1>3, <2>2, <3>1
  <2> QED
    BY <2>1, <2>2
<1>5. G = [s \in SUBSET K |-> NextScore(data, G, s)]
  <2>1. \A s \in SUBSET K : G[s] = NextScore(data, G, s)
    BY <1>2, <1>4 DEF Adds
  <2> QED
    BY <2>1
<1>6. iter = [s \in SUBSET K |-> NextScore(data, iter, s)]
  BY <1>5, Zenon
<1>7. MapThenSumSet(LAMBDA k : data[k].score, K) = iter[K]
  BY Zenon DEF MapThenSumSet, MapThenFoldSet, NextScore
<1> HIDE DEF iter
<1>8. Adds(f, iter, SUBSET K)
  <2>1. \A s \in SUBSET K : iter[s] = NextScore(data, iter, s)
    BY <1>6
  <2> QED
    BY <1>4, <2>1 DEF Adds
<1>9. iter[K] = G[K]
  <2>1. K \in SUBSET K
    OBVIOUS
  <2>2. Agree(iter, G, K)
    BY <1>2, <1>8, <2>1, AddsAgree
  <2> QED
    BY <2>2 DEF Agree
<1> QED
  BY <1>2, <1>7, <1>9 DEF f

(* The greatest and the smallest load are numbers.                          *)
LEMMA SpreadIsInt ==
  ASSUME NEW load, \A wg \in Heads : load[wg] \in Int
  PROVE  /\ Max({load[wg] : wg \in Heads}) \in Int
         /\ Min({load[wg] : wg \in Heads}) \in Int
<1> DEFINE L == {load[wg] : wg \in Heads}
           f == [wg \in Heads |-> load[wg]]
<1>1. IsFiniteSet(Heads) /\ 0 \in Heads
  <2>1. NumHeads \in Nat \ {0}
    BY Numbers
  <2>2. IsFiniteSet(0 .. NumHeads - 1)
    BY <2>1, FS_Interval
  <2> QED
    BY <2>1, <2>2 DEF Heads
<1>2. L # {} /\ L \subseteq Int /\ f \in Surjection(Heads, L)
  BY <1>1 DEF Surjection
<1> HIDE DEF L, f
<1>3. IsFiniteSet(L)
  BY <1>1, <1>2, FS_Surjection
<1>4. Max(L) \in L /\ Min(L) \in L
  BY <1>2, <1>3, GreatestIn, SmallestIn
<1>5. Max(L) \in Int /\ Min(L) \in Int
  BY <1>2, <1>4
<1> QED
  BY <1>5 DEF L

(* The moves that are ordered are the orders that some head has to execute. *)
OrdersAreThose ==
  /\ \A o \in MovesOrdered : \E g, h \in Heads : \E c \in OrdersAt(g) :
       c.to = h /\ o = <<g, h, c.n>>
  /\ \A g, h \in Heads : \A c \in OrdersAt(g) : c.to = h => <<g, h, c.n>> \in MovesOrdered

LEMMA OrdersOfCalls == CallsAre => OrdersAreThose
<1> SUFFICES ASSUME CallsAre
             PROVE  OrdersAreThose
  OBVIOUS
<1>1. ASSUME NEW o \in MovesOrdered
      PROVE  \E g, h \in Heads : \E c \in OrdersAt(g) : c.to = h /\ o = <<g, h, c.n>>
  <2>1. PICK g \in Heads, h \in Heads : o \in {<<g, h, c[3].n>> : c \in MovesTo(h, g)}
    BY DEF MovesOrdered, Orders
  <2>2. PICK c \in MovesTo(h, g) : o = <<g, h, c[3].n>>
    BY <2>1
  <2>3. g # h
    BY <2>2 DEF MovesOrdered
  <2>4. c \in CallsTo(g) /\ c[3].fn = "move_markov_chain" /\ c[3].to = h
    BY DEF MovesTo
  <2>5. c[3] \in Content(g)
    BY <2>4, CallsToFacts
  <2>6. c[3] \in OrdersAt(g)
    BY <2>3, <2>4, <2>5 DEF OrdersAt, IsMove
  <2> QED
    BY <2>2, <2>4, <2>6
<1>2. ASSUME NEW g \in Heads, NEW h \in Heads, NEW c \in OrdersAt(g), c.to = h
      PROVE  <<g, h, c.n>> \in MovesOrdered
  <2>1. c \in Content(g) /\ c.fn = "move_markov_chain" /\ g # h
    BY <1>2 DEF OrdersAt, IsMove
  <2>2. PICK d \in CallsTo(g) : d[3] = c
    BY <2>1, CallsToFacts
  <2>3. d \in MovesTo(h, g)
    BY <1>2, <2>1, <2>2 DEF MovesTo
  <2>4. <<g, h, d[3].n>> \in Orders
    <3> DEFINE to(i, j) == {<<i, j, m[3].n>> : m \in MovesTo(j, i)}
               all == {{<<i, j, m[3].n>> : m \in MovesTo(j, i)} : i, j \in Heads}
    <3>1. <<g, h, d[3].n>> \in to(g, h)
      BY <2>3
    <3>2. all = {to(i, j) : i, j \in Heads} /\ Orders = UNION all
      BY DEF Orders
    <3> HIDE DEF to, all
    <3>3. to(g, h) \in {to(i, j) : i, j \in Heads}
      OBVIOUS
    <3> QED
      BY <3>1, <3>2, <3>3
  <2> QED
    BY <2>1, <2>2, <2>4 DEF MovesOrdered
<1> QED
  BY <1>1, <1>2 DEF OrdersAreThose

(* The moves of a plan.                                                     *)
MovesOf(P, orders) ==
  /\ \A g, h \in Heads : \A i \in Comers(P[h], h) :
       P[h][i].wg = g => <<g, h, P[h][i].id>> \in orders
  /\ \A o \in orders : \E h \in Heads : \E i \in Comers(P[h], h) :
       o = <<P[h][i].wg, h, P[h][i].id>>

LEMMA MovesOfPlan ==
  ASSUME RInv, NEW P, PlanIs(P), NEW calls, Carries(calls, P), Plans(calls)
  PROVE  MovesOf(P, MovesOrdered')
<1>1. CallsAre' /\ \A j \in Heads : OrdersAt(j)' = OrdersFor(P, j)
  BY PlanContent
<1>2. OrdersAreThose'
  BY <1>1, OrdersOfCalls, PTL
<1>3. /\ \A o \in MovesOrdered' : \E g, h \in Heads : \E c \in OrdersFor(P, g) :
           c.to = h /\ o = <<g, h, c.n>>
      /\ \A g, h \in Heads : \A c \in OrdersFor(P, g) : c.to = h => <<g, h, c.n>> \in MovesOrdered'
  BY <1>1, <1>2 DEF OrdersAreThose
<1>4. ASSUME NEW g \in Heads, NEW h \in Heads, NEW i \in Comers(P[h], h), P[h][i].wg = g
      PROVE  <<g, h, P[h][i].id>> \in MovesOrdered'
  <2>1. i \in DOMAIN P[h] /\ h # g
    BY <1>4 DEF Comers
  <2>2. MoveChain(P[h][i].id, h) \in OrdersFor(P, g)
    BY <1>4, <2>1 DEF OrdersFor
  <2>3. PICK c \in OrdersFor(P, g) : c.to = h /\ c.n = P[h][i].id
    BY <2>2 DEF MoveChain
  <2> QED
    BY <1>3, <2>3
<1>5. ASSUME NEW o \in MovesOrdered'
      PROVE  \E h \in Heads : \E i \in Comers(P[h], h) : o = <<P[h][i].wg, h, P[h][i].id>>
  <2>1. PICK g \in Heads, h \in Heads : \E c \in OrdersFor(P, g) : c.to = h /\ o = <<g, h, c.n>>
    BY <1>3
  <2>2. PICK c \in OrdersFor(P, g) : c.to = h /\ o = <<g, h, c.n>>
    BY <2>1
  <2>3. PICK to \in Heads \ {g} :
          c \in {MoveChain(P[to][i].id, to) : i \in {l \in DOMAIN P[to] : P[to][l].wg = g}}
    BY DEF OrdersFor
  <2>4. PICK i \in DOMAIN P[to] : P[to][i].wg = g /\ c = MoveChain(P[to][i].id, to)
    BY <2>3
  <2>5. c.to = to /\ c.n = P[to][i].id
    BY <2>4 DEF MoveChain
  <2>6. i \in Comers(P[to], to)
    BY <2>3, <2>4 DEF Comers
  <2> QED
    BY <2>2, <2>4, <2>5, <2>6
<1> QED
  BY <1>4, <1>5 DEF MovesOf

(* The places of the reports that are planned for head wg.                  *)
Planned(data, orders, wg) ==
  {k \in DOMAIN data :
     LET to == {h \in Heads : <<data[k].wg, h, data[k].id>> \in orders}
     IN  wg \in (IF to = {} THEN {data[k].wg} ELSE to)}

(* These are the reports of its part.                                       *)
LEMMA PlannedAre ==
  ASSUME NEW data \in Seq(Report), EachIdOnce(data), Len(data) >= NumChains,
         \A k \in DOMAIN data : data[k].id \in Share(data[k].wg),
         NEW orders, MovesOf(PlanOf(data), orders), NEW wg \in Heads
  PROVE  {data[k] : k \in Planned(data, orders, wg)} = ToSet(PlanOf(data)[wg])
<1> DEFINE P == PlanOf(data)
           to(k) == {h \in Heads : <<data[k].wg, h, data[k].id>> \in orders}
<1>1. PlanIs(P)
  BY MoveCallsCarry
<1>2. \A g \in Heads : P[g] = Partitioned(NumHeads, data)[g + 1].entries
  BY DEF PlanOf
<1>3. \A k \in DOMAIN data : \E g \in Heads : \E i \in DOMAIN P[g] : P[g][i] = data[k]
  <2> TAKE k \in DOMAIN data
  <2> DEFINE partition == Partitioned(NumHeads, data)
  <2>1. data[k] \in ToSet(data) /\ Holds(partition) = ToSet(data) /\ Len(partition) = NumHeads
        /\ partition \in Seq(SubsetsOf(ToSet(data)))
    BY DivisionIs DEF ToSet
  <2> HIDE DEF partition
  <2>2. PICK l \in DOMAIN partition : data[k] \in ToSet(partition[l].entries)
    BY <2>1 DEF Holds
  <2>3. l \in 1 .. NumHeads /\ NumHeads \in Nat
    BY <2>1, Numbers
  <2>4. PICK g \in Heads : g + 1 = l
    <3>1. l - 1 \in Heads /\ (l - 1) + 1 = l
      BY <2>3 DEF Heads
    <3> QED
      BY <3>1
  <2>5. P[g] = partition[l].entries
    BY <1>2, <2>4 DEF partition
  <2>6. data[k] \in ToSet(P[g])
    BY <2>2, <2>5
  <2> QED
    BY <2>6 DEF ToSet
<1>4. \A g \in Heads : \A i \in DOMAIN P[g] : P[g][i] \in ToSet(data)
  <2> TAKE g \in Heads
  <2> DEFINE partition == Partitioned(NumHeads, data)
             E == ToSet(data)
  <2>1. partition \in Seq(SubsetsOf(E)) /\ Len(partition) = NumHeads
    BY DivisionIs
  <2>2. g + 1 \in 1 .. NumHeads
    BY Numbers DEF Heads
  <2>3. P[g] = partition[g + 1].entries
    BY <1>2
  <2> HIDE DEF partition, E, P
  <2>4. partition[g + 1] \in SubsetsOf(E)
    BY <2>1, <2>2
  <2>5. P[g] \in Seq(E)
    BY <2>3, <2>4 DEF SubsetsOf
  <2> QED
    BY <2>5 DEF E
<1> HIDE DEF P
<1>5. \A k \in DOMAIN data : data[k] \in Report /\ data[k].wg \in Heads
  <2> TAKE k \in DOMAIN data
  <2>1. data[k] \in Report
    OBVIOUS
  <2> QED
    BY <2>1 DEF Report
<1>6. /\ \A g, h \in Heads : \A i \in Comers(P[h], h) :
           P[h][i].wg = g => <<g, h, P[h][i].id>> \in orders
      /\ \A o \in orders : \E h \in Heads : \E i \in Comers(P[h], h) :
           o = <<P[h][i].wg, h, P[h][i].id>>
  BY DEF MovesOf, P
<1>7. ASSUME NEW k \in DOMAIN data, NEW g \in Heads, NEW i \in DOMAIN P[g], P[g][i] = data[k]
      PROVE  IF g = data[k].wg THEN to(k) = {} ELSE to(k) = {g}
  <2>1. ASSUME NEW h \in to(k)
        PROVE  h = g /\ g # data[k].wg
    <3>1. <<data[k].wg, h, data[k].id>> \in orders
      OBVIOUS
    <3>2. PICK m \in Heads : \E l \in Comers(P[m], m) :
            <<data[k].wg, h, data[k].id>> = <<P[m][l].wg, m, P[m][l].id>>
      BY <1>6, <3>1
    <3>3. PICK l \in Comers(P[m], m) :
            <<data[k].wg, h, data[k].id>> = <<P[m][l].wg, m, P[m][l].id>>
      BY <3>2
    <3>4. m = h /\ P[m][l].id = P[g][i].id /\ P[m][l].wg = data[k].wg
      BY <1>7, <3>3
    <3>5. l \in DOMAIN P[m] /\ P[m][l].wg # m
      BY DEF Comers
    <3>6. m = g
      BY <1>1, <3>4, <3>5 DEF PlanIs
    <3> QED
      BY <3>4, <3>5, <3>6
  <2>2. ASSUME g # data[k].wg
        PROVE  g \in to(k)
    <3>1. i \in Comers(P[g], g)
      BY <1>7, <2>2 DEF Comers
    <3>2. <<data[k].wg, g, data[k].id>> \in orders
      BY <1>5, <1>6, <1>7, <3>1
    <3> QED
      BY <3>2
  <2> HIDE DEF to
  <2> QED
    BY <2>1, <2>2
<1>8. \A k : k \in Planned(data, orders, wg)
               <=> k \in DOMAIN data /\ wg \in (IF to(k) = {} THEN {data[k].wg} ELSE to(k))
  BY DEF Planned
<1> HIDE DEF to
<1>9. ASSUME NEW k \in Planned(data, orders, wg)
      PROVE  data[k] \in ToSet(P[wg])
  <2>1. k \in DOMAIN data /\ wg \in (IF to(k) = {} THEN {data[k].wg} ELSE to(k))
    BY <1>8
  <2>2. PICK g \in Heads : \E i \in DOMAIN P[g] : P[g][i] = data[k]
    BY <1>3, <2>1
  <2>3. PICK i \in DOMAIN P[g] : P[g][i] = data[k]
    BY <2>2
  <2>4. wg = g
    <3>1. CASE g = data[k].wg
      <4>1. to(k) = {}
        BY <1>7, <2>1, <2>3, <3>1
      <4> QED
        BY <2>1, <3>1, <4>1
    <3>2. CASE g # data[k].wg
      <4>1. to(k) = {g}
        BY <1>7, <2>1, <2>3, <3>2
      <4> QED
        BY <2>1, <4>1
    <3> QED
      BY <3>1, <3>2
  <2> QED
    BY <2>3, <2>4 DEF ToSet
<1>10. ASSUME NEW x \in ToSet(P[wg])
       PROVE  \E k \in Planned(data, orders, wg) : x = data[k]
  <2>1. PICK i \in DOMAIN P[wg] : x = P[wg][i]
    BY DEF ToSet
  <2>2. PICK k \in DOMAIN data : data[k] = P[wg][i]
    BY <1>4 DEF ToSet
  <2>3. IF wg = data[k].wg THEN to(k) = {} ELSE to(k) = {wg}
    BY <1>7, <2>2
  <2> QED
    BY <1>8, <2>1, <2>2, <2>3
<1> QED
  BY <1>9, <1>10 DEF P

(* The planned load of a head is the sum of its part.                       *)
LEMMA PlannedLoads ==
  ASSUME NEW data \in Seq(Report), EachIdOnce(data), Len(data) >= NumChains,
         \A k \in DOMAIN data : data[k].id \in Share(data[k].wg),
         NEW orders, MovesOf(PlanOf(data), orders), NEW wg \in Heads
  PROVE  /\ PlannedLoad(data, orders, wg) = Partitioned(NumHeads, data)[wg + 1].sum
         /\ Partitioned(NumHeads, data)[wg + 1].sum \in Int
<1> DEFINE K == Planned(data, orders, wg)
           E == ToSet(data)
           f == [k \in K |-> data[k].score]
           g == ScoresOf(E)
           part == Partitioned(NumHeads, data)[wg + 1]
<1>1. IsFiniteSet(K) /\ K \subseteq DOMAIN data
  <2>1. Len(data) \in Nat /\ DOMAIN data = 1 .. Len(data) /\ K \subseteq DOMAIN data
    BY DEF Planned
  <2>2. IsFiniteSet(1 .. Len(data))
    BY <2>1, FS_Interval
  <2> HIDE DEF K
  <2> QED
    BY <2>1, <2>2, FS_Subset
<1>2. PlannedLoad(data, orders, wg) = MapThenSumSet(LAMBDA k : data[k].score, K)
  BY Zenon DEF PlannedLoad, Planned
<1>3. \A k \in K : data[k] \in E /\ data[k].score \in Int
  <2> HIDE DEF K
  <2> QED
    BY <1>1, DivisionIs DEF ToSet
<1>4. \A k, l \in K : data[k] = data[l] => k = l
  <2> HIDE DEF K
  <2> QED
    BY <1>1, DivisionIs DEF IsInjective
<1>5. {data[k] : k \in K} = ToSet(part.entries)
  BY PlannedAre DEF PlanOf
<1>6. part.sum = Total(g, ToSet(part.entries)) /\ part.sum \in Int
  <2> DEFINE partition == Partitioned(NumHeads, data)
  <2>1. partition \in Seq(SubsetsOf(E)) /\ Len(partition) = NumHeads
    BY DivisionIs
  <2>2. wg + 1 \in 1 .. NumHeads
    BY Numbers DEF Heads
  <2>3. part = partition[wg + 1]
    OBVIOUS
  <2> HIDE DEF partition, E, part
  <2>4. part \in SubsetsOf(E)
    BY <2>1, <2>2, <2>3
  <2> QED
    BY <2>4 DEF SubsetsOf
<1> HIDE DEF K, part
<1>7. MapThenSumSet(LAMBDA k : data[k].score, K) = Total(f, K)
  BY <1>1, <1>3, ScoresAreTotal
<1>8. \A k \in K : f[k] \in Int /\ f[k] = g[data[k]]
  BY <1>3 DEF ScoresOf
<1> HIDE DEF f, g, E
<1>9. Total(f, K) = Total(g, {data[k] : k \in K})
  BY <1>1, <1>4, <1>8, TotalAcross
<1> QED
  BY <1>2, <1>5, <1>6, <1>7, <1>9 DEF part

(* The spread of a planned division is the difference that was compared.    *)
LEMMA SpreadPlanned ==
  ASSUME NEW data \in Seq(Report), EachIdOnce(data), Len(data) >= NumChains,
         \A k \in DOMAIN data : data[k].id \in Share(data[k].wg),
         NEW orders, MovesOf(PlanOf(data), orders)
  PROVE  /\ SpreadOfPlan(data, orders) = Difference(NumHeads, Partitioned(NumHeads, data))
         /\ SpreadOfPlan(data, orders) \in Int
<1> DEFINE partition == Partitioned(NumHeads, data)
           load == [wg \in Heads |-> PlannedLoad(data, orders, wg)]
           L == {load[wg] : wg \in Heads}
<1>1. \A wg \in Heads : load[wg] = partition[wg + 1].sum /\ load[wg] \in Int
  BY PlannedLoads
<1>2. partition \in Seq(SubsetsOf(ToSet(data))) /\ Len(partition) = NumHeads
  BY DivisionIs
<1> HIDE DEF partition
<1>3. DOMAIN partition = 1 .. NumHeads /\ NumHeads \in Nat
  BY <1>2, Numbers
<1>4. SpreadOfPlan(data, orders) = Max(L) - Min(L)
  BY DEF SpreadOfPlan, Spread
<1> HIDE DEF load
<1>5. Sums(partition) = L
  <2>1. \A k \in 1 .. NumHeads : k - 1 \in Heads /\ (k - 1) + 1 = k
    BY <1>3 DEF Heads
  <2>2. \A g \in Heads : g + 1 \in 1 .. NumHeads
    BY Numbers DEF Heads
  <2>3. ASSUME NEW x \in Sums(partition)
        PROVE  x \in L
    <3>1. PICK k \in DOMAIN partition : x = partition[k].sum
      BY DEF Sums, ToSet
    <3>2. x = load[k - 1] /\ k - 1 \in Heads
      BY <1>1, <1>3, <2>1, <3>1
    <3> QED
      BY <3>2
  <2>4. ASSUME NEW wg \in Heads
        PROVE  load[wg] \in Sums(partition)
    <3>1. load[wg] = partition[wg + 1].sum /\ wg + 1 \in DOMAIN partition
      BY <1>1, <1>3, <2>2
    <3> QED
      BY <3>1 DEF Sums, ToSet
  <2> QED
    BY <2>3, <2>4
<1>6. Difference(NumHeads, partition) = Max(L) - Min(L)
  <2>1. ~(Len(partition) < NumHeads)
    BY <1>2, <1>3
  <2> HIDE DEF L
  <2> QED
    BY <1>5, <2>1 DEF Difference
<1>7. Max(L) \in Int /\ Min(L) \in Int
  BY <1>1, SpreadIsInt
<1> QED
  BY <1>4, <1>6, <1>7 DEF partition

(* What is moved makes the loads more even.                                 *)
LEMMA RescheduleEvens ==
  ASSUME RInv, Reschedule, MovesOrdered' # {}
  PROVE  SpreadOfPlan(manager.dataset, MovesOrdered') < Spread(Workload)
<1>1. PICK data : data = manager.dataset
  OBVIOUS
<1>2. /\ data \in Seq(Report) /\ EachIdOnce(data) /\ Len(data) >= NumChains
      /\ \A k \in DOMAIN data : data[k].id \in Share(data[k].wg)
      /\ AllReported
  <2>1. pc[0] = "manager" /\ ~RequestDue
    BY DEF Reschedule
  <2> QED
    BY <1>1, <2>1, InformationIsComplete
<1>3. PICK calls : calls = Division
  OBVIOUS
<1>4. Plans(calls)
  BY <1>2, <1>3 DEF Reschedule, Plans, Goto
<1>5. PICK partition : partition = Partitioned(NumHeads, data)
  OBVIOUS
<1>6. calls = IF Difference(NumHeads, partition) >= Spread(Workload) THEN Cancel
              ELSE MoveCalls(partition)
  BY <1>1, <1>3, <1>5, Zenon DEF Division
<1>7. ~(Difference(NumHeads, partition) >= Spread(Workload))
  <2> SUFFICES ASSUME Difference(NumHeads, partition) >= Spread(Workload)
               PROVE  FALSE
    OBVIOUS
  <2>1. calls = Cancel
    BY <1>6
  <2>2. MovesOf(NoPlan, MovesOrdered')
    BY <1>4, <2>1, CancelCarries, MovesOfPlan
  <2>3. \A h \in Heads : Comers(NoPlan[h], h) = {}
    BY DEF NoPlan, Comers
  <2> QED
    BY <2>2, <2>3 DEF MovesOf
<1>8. calls = MoveCalls(Partitioned(NumHeads, data))
  BY <1>5, <1>6, <1>7
<1>9. PICK orders : orders = MovesOrdered'
  OBVIOUS
<1>10. MovesOf(PlanOf(data), orders)
  BY <1>2, <1>4, <1>8, <1>9, MoveCallsCarry, MovesOfPlan
<1>11. /\ SpreadOfPlan(data, orders) = Difference(NumHeads, partition)
       /\ SpreadOfPlan(data, orders) \in Int
  BY <1>2, <1>5, <1>10, SpreadPlanned
<1>12. Spread(Workload) \in Int
  <2>1. \A wg \in Heads : Workload[wg] \in Int
    <3> TAKE wg \in Heads
    <3>1. Workload[wg] = LoadOf(manager.dataset, wg)
      BY Zenon DEF Workload, LoadOf
    <3> QED
      BY <1>1, <1>2, <3>1, LoadIsInt
  <2>2. PICK load : load = Workload
    OBVIOUS
  <2>3. /\ Max({load[wg] : wg \in Heads}) \in Int
        /\ Min({load[wg] : wg \in Heads}) \in Int
    BY <2>1, <2>2, SpreadIsInt
  <2>4. Spread(load) \in Int
    BY <2>3 DEF Spread
  <2> QED
    BY <2>2, <2>4
<1>13. SpreadOfPlan(data, orders) < Spread(Workload)
  BY <1>7, <1>11, <1>12
<1> QED
  BY <1>1, <1>9, <1>13

(* Only head 0 ends the collecting, and when it divides the chains anew.    *)
LEMMA OnlyReschedule ==
  ASSUME RInv, NEW h \in Heads, LoopStep(h), manager.required, ~manager'.required
  PROVE  Reschedule
<1>1. FunctionsAre
  BY DEF RInv
<1>2. CASE Execute(h)
  <2>1. manager' = manager \/ \E r : manager' = [manager EXCEPT !.dataset = Append(@, r)]
    BY <1>2 DEF Execute, RequestProgressInfo, PassProgressInfo, MoveMarkovChain, RecieveMarkovChain
  <2>2. manager = [required |-> manager.required, requested |-> manager.requested,
                   dataset |-> manager.dataset]
    BY <1>1 DEF FunctionsAre
  <2>3. manager'.required = manager.required
    BY <2>1, <2>2
  <2> QED
    BY <2>3
<1>3. CASE RequestRescheduling
  BY <1>3 DEF RequestRescheduling
<1>4. ASSUME manager' = manager
      PROVE  Reschedule
  BY <1>4
<1>5. \/ Execute(h) \/ RequestRescheduling \/ Reschedule \/ manager' = manager
  BY Zenon DEF LoopStep, NothingToRun, RunChain, NoTask, NextMove, SendDummy, SendChain,
     AdvanceChain, SendProgress, Leave, AssertFails
<1> QED
  BY <1>2, <1>3, <1>4, <1>5

-----------------------------------------------------------------------------
(* The theorems with rescheduling                                          *)

(* Whether chains are moved between the heads or not: between two passes    *)
(* every chain of a head stands in its queue exactly once, with the work    *)
(* that is left (main.cpp, the work queue of the loop).                     *)
THEOREM QueueOfEachHead == Spec => []QueueIsExact
BY RInvAlways, QueueIs, PTL

(* No chain is run, or finished, at two places, while chains are sent,      *)
(* received and taken up (main.cpp, the maps of the loop and the functions  *)
(* of rescheduling.hpp).                                                    *)
THEOREM EachChainOnce == Spec => []RunsOnce
BY RInvAlways, OnePlaceEach, PTL

(* No chain comes to a head that has stopped: it stops only when            *)
(* rescheduling is over for it, and then none is on its way (main.cpp, the  *)
(* condition that ends the loop).                                           *)
THEOREM NoneComesLate == Spec => []NoChainComesLate
BY RInvAlways, NoneLate, PTL

(* A head waits for just as many chains as will come, in whatever order     *)
(* announcements, orders and chains are executed, unless an order was       *)
(* passed over (main.cpp, markov_chains_to_get).                            *)
THEOREM WaitsForThoseThatCome == Spec => []AnnouncedIsExact
BY RInvAlways, AnnouncedExactly, PTL

(* Chains are only moved when that brings the least and the most loaded     *)
(* head closer together: whatever division multiway_partitioning.hpp finds, *)
(* the moves that are sent carry out just that division, and it is compared *)
(* with the loads as they are (rescheduling_manager::reschedule).           *)
THEOREM MovesAreWorthIt == Spec => MovesEvenTheLoad
<1>1. RInv /\ [Next]_vars =>
        [manager.required /\ ~manager'.required /\ MovesOrdered' # {}
           => SpreadOfPlan(manager.dataset, MovesOrdered') < Spread(Workload)]_vars
  <2> SUFFICES ASSUME RInv, Next, ~UNCHANGED vars,
                      manager.required, ~manager'.required, MovesOrdered' # {}
               PROVE  SpreadOfPlan(manager.dataset, MovesOrdered') < Spread(Workload)
    OBVIOUS
  <2>1. PICK h \in Heads : HeadStep(h)
    BY DEF Next, Ended
  <2>2. Reschedule
    BY <2>1, OnlyReschedule DEF HeadStep
  <2> QED
    BY <2>2, RescheduleEvens
<1> QED
  BY <1>1, RInvAlways, PTL DEF Spec, MovesEvenTheLoad

=============================================================================
