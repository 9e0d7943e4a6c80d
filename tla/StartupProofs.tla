--------------------------- MODULE StartupProofs ----------------------------
(***************************************************************************)
(* For every placement of any number of processes, after any number of     *)
(* runs that died anywhere: the workgroups are the machines, nothing but   *)
(* the remains of an earlier run ends a run, all runs use one global seed, *)
(* and every chain has one head and the seed of its id.                    *)
(*                                                                         *)
(* First the distribution of the chains alone, for every number of chains, *)
(* of workgroups and every offset: the arithmetic of the ranges, and the   *)
(* inductive invariant, that what a head has added is its range of ids up  *)
(* to nextId, each with the seed of its id.                                *)
(*                                                                         *)
(* Then the set-up of the workgroups alone: how far the processes may be   *)
(* from one another, what is in the directories meanwhile, and that the    *)
(* workgroups are the machines.  At last both are composed with what is    *)
(* known about the file with the seed.                                     *)
(***************************************************************************)
EXTENDS Startup, FiniteSetTheorems, WellFoundedInduction, TLAPS

-----------------------------------------------------------------------------
(* The ranges                                                              *)

(* IdOffset and InThisWorkgroup for q chains per workgroup and r workgroups *)
(* with one chain more.                                                     *)
Start(g, q, r) ==
  ((IF g > r THEN g - r ELSE 0) * q) + ((IF g <= r THEN g ELSE r) * (q + 1))
Share(g, q, r) == q + (IF g < r THEN 1 ELSE 0)

(* Division with remainder, as the offset computation uses it.              *)
LEMMA DivisionFact ==
  ASSUME NEW n \in Nat, NEW d \in Nat \ {0}
  PROVE  /\ n \div d \in Nat
         /\ n % d \in Nat
         /\ n = (d * (n \div d)) + (n % d)
         /\ n % d < d
  OBVIOUS

(* Products of natural numbers grow with their factors. *)
LEMMA ProductGrows ==
  ASSUME NEW a \in Nat, NEW b \in Nat, NEW c \in Nat, a <= b
  PROVE  /\ a * c \in Nat
         /\ b * c \in Nat
         /\ a * c <= b * c
  OBVIOUS

(* Multiplication distributes over addition. *)
LEMMA Distribute ==
  ASSUME NEW a \in Int, NEW b \in Int, NEW c \in Int
  PROVE  (a + b) * c = (a * c) + (b * c)
  OBVIOUS

(* The ranges start at natural numbers. *)
LEMMA StartIsNatural ==
  ASSUME NEW g \in Nat, NEW q \in Nat, NEW r \in Nat
  PROVE  /\ Start(g, q, r) \in Nat
         /\ Share(g, q, r) \in Nat
         /\ g <= r => Start(g, q, r) = g * (q + 1)
         /\ g >= r => Start(g, q, r) = ((g - r) * q) + (r * (q + 1))
<1>1. CASE g <= r
  <2>1. g * (q + 1) \in Nat
    BY ProductGrows
  <2>2. Start(g, q, r) = (0 * q) + (g * (q + 1))
    BY <1>1 DEF Start
  <2>3. g = r => (g - r) * q = 0
    OBVIOUS
  <2> QED BY <1>1, <2>1, <2>2, <2>3 DEF Share
<1>2. CASE g > r
  <2>1. (g - r) * q \in Nat /\ r * (q + 1) \in Nat
    BY <1>2, ProductGrows
  <2>2. Start(g, q, r) = ((g - r) * q) + (r * (q + 1))
    BY <1>2 DEF Start
  <2> QED BY <1>2, <2>1, <2>2 DEF Share
<1> QED BY <1>1, <1>2

(* A later range starts behind the end of an earlier one. *)
LEMMA RangesInOrder ==
  ASSUME NEW g \in Nat, NEW h \in Nat, NEW q \in Nat, NEW r \in Nat, g < h
  PROVE  Start(g, q, r) + Share(g, q, r) <= Start(h, q, r)
<1>1. CASE g < r
  <2>1. Start(g, q, r) + Share(g, q, r) = (g + 1) * (q + 1)
    <3>1. Start(g, q, r) = g * (q + 1) /\ Share(g, q, r) = q + 1
      BY <1>1, StartIsNatural DEF Share
    <3>2. (g + 1) * (q + 1) = (g * (q + 1)) + (1 * (q + 1))
      BY Distribute, q + 1 \in Int
    <3> QED BY <3>1, <3>2
  <2>2. CASE h <= r
    <3>1. Start(h, q, r) = h * (q + 1)
      BY <2>2, StartIsNatural
    <3>2. (g + 1) * (q + 1) <= h * (q + 1)
      BY ProductGrows, g + 1 \in Nat, q + 1 \in Nat, g + 1 <= h
    <3> QED BY <2>1, <3>1, <3>2
  <2>3. CASE h > r
    <3>1. (g + 1) * (q + 1) <= r * (q + 1) /\ r * (q + 1) \in Nat
      BY <1>1, ProductGrows
    <3>2. (h - r) * q \in Nat
      BY <2>3, ProductGrows
    <3>3. (g + 1) * (q + 1) \in Nat
      BY ProductGrows
    <3>4. Start(h, q, r) = ((h - r) * q) + (r * (q + 1))
      BY <2>3, StartIsNatural
    <3> QED BY <2>1, <3>1, <3>2, <3>3, <3>4
  <2> QED BY <2>2, <2>3
<1>2. CASE g >= r
  <2>1. /\ Start(g, q, r) = ((g - r) * q) + (r * (q + 1))
        /\ Start(h, q, r) = ((h - r) * q) + (r * (q + 1))
        /\ Share(g, q, r) = q
    BY <1>2, StartIsNatural DEF Share
  <2>2. ((g - r) + 1) * q = ((g - r) * q) + q
    BY <1>2, Distribute
  <2>3. ((g - r) + 1) * q <= (h - r) * q
    BY <1>2, ProductGrows, (g - r) + 1 \in Nat, h - r \in Nat,
       (g - r) + 1 <= h - r
  <2>4. /\ (g - r) * q \in Nat
        /\ (h - r) * q \in Nat
        /\ r * (q + 1) \in Nat
    BY <1>2, ProductGrows
  <2> QED BY <2>1, <2>2, <2>3, <2>4
<1> QED BY <1>1, <1>2

(* The first number behind the last range is the number of all chains. *)
LEMMA RangesEnd ==
  ASSUME NEW d \in Nat, NEW q \in Nat, NEW r \in Nat, r < d
  PROVE  Start(d, q, r) = (d * q) + r
<1>1. Start(d, q, r) = ((d - r) * q) + (r * (q + 1))
  BY StartIsNatural
<1>2. ((d - r) * q) + (r * q) = d * q
  BY Distribute, d - r \in Int, (d - r) + r = d
<1>3. r * (q + 1) = (r * q) + r
  OBVIOUS
<1>4. (d - r) * q \in Int /\ r * q \in Int /\ d * q \in Int
  OBVIOUS
<1> QED BY <1>1, <1>2, <1>3, <1>4

(* No number below it lies between the ranges. *)
LEMMA RangesCover ==
  ASSUME NEW d \in Nat, NEW q \in Nat, NEW r \in Nat, r < d,
         NEW k \in Nat, k < (d * q) + r
  PROVE  \E g \in 0 .. d - 1 :
            Start(g, q, r) <= k /\ k < Start(g, q, r) + Share(g, q, r)
<1>1. CASE k < r * (q + 1)
  <2> DEFINE g == k \div (q + 1)
  <2>1. g \in Nat /\ (q + 1) * g <= k /\ k < ((q + 1) * g) + (q + 1)
    <3>1. /\ k \div (q + 1) \in Nat
          /\ k % (q + 1) \in Nat
          /\ k = ((q + 1) * (k \div (q + 1))) + (k % (q + 1))
          /\ k % (q + 1) < q + 1
      BY DivisionFact, q + 1 \in Nat \ {0}
    <3>2. (q + 1) * (k \div (q + 1)) \in Nat
      BY <3>1
    <3> QED BY <3>1, <3>2
  <2> HIDE DEF g
  <2>2. g < r
    <3>1. SUFFICES ASSUME g >= r PROVE FALSE
      BY <2>1
    <3>2. r * (q + 1) <= g * (q + 1)
      BY <2>1, <3>1, ProductGrows
    <3>3. g * (q + 1) = (q + 1) * g
      BY <2>1
    <3> QED BY <1>1, <2>1, <3>2, <3>3
  <2>3. Start(g, q, r) = (q + 1) * g /\ Share(g, q, r) = q + 1
    BY <2>1, <2>2, StartIsNatural DEF Share
  <2> QED BY <2>1, <2>2, <2>3
<1>2. CASE k >= r * (q + 1)
  <2> DEFINE e == k - (r * (q + 1))
             g == e \div q
  <2>1. r * (q + 1) \in Nat /\ e \in Nat
    BY <1>2
  <2>2. e < (d - r) * q
    BY <2>1, RangesEnd, StartIsNatural
  <2> HIDE DEF e
  <2>3. q # 0
    BY <2>1, <2>2
  <2>4. g \in Nat /\ q * g <= e /\ e < (q * g) + q
    BY <2>1, <2>3, DivisionFact, q \in Nat \ {0}
  <2> HIDE DEF g
  <2>5. g < d - r
    <3>1. SUFFICES ASSUME g >= d - r PROVE FALSE
      BY <2>4
    <3>2. (d - r) * q <= g * q
      BY <2>4, <3>1, ProductGrows, d - r \in Nat
    <3>3. g * q = q * g
      BY <2>4
    <3> QED BY <2>1, <2>2, <2>4, <3>2, <3>3
  <2>6. /\ Start(r + g, q, r) = (g * q) + (r * (q + 1))
        /\ Share(r + g, q, r) = q
    <3>1. r + g \in Nat /\ r + g >= r /\ (r + g) - r = g
      BY <2>4
    <3>2. Start(r + g, q, r) = (((r + g) - r) * q) + (r * (q + 1))
      BY <3>1, StartIsNatural
    <3> QED BY <3>1, <3>2 DEF Share
  <2>7. k = e + (r * (q + 1))
    BY <2>1 DEF e
  <2>8. g * q = q * g /\ g * q \in Nat
    BY <2>4
  <2>9. Start(r + g, q, r) <= k /\ k < Start(r + g, q, r) + Share(r + g, q, r)
    BY <2>1, <2>4, <2>6, <2>7, <2>8
  <2> QED BY <2>4, <2>5, <2>9
<1> QED BY <1>1, <1>2

-----------------------------------------------------------------------------
(* The heads                                                               *)

(* The range of workgroup w, in the terms of the first part. *)
LEMMA RangeOfWorkgroup ==
  ASSUME CDTypeOK, NEW w \in Workgroups
  PROVE  /\ w \in Nat /\ PerWorkgroup \in Nat /\ Larger \in Nat
         /\ numWorkgroups \in Nat \ {0} /\ Larger < numWorkgroups
         /\ numMarkovChains = (numWorkgroups * PerWorkgroup) + Larger
         /\ FirstId(w) = markovChainOffset + Start(w, PerWorkgroup, Larger)
         /\ InThisWorkgroup(w) = Share(w, PerWorkgroup, Larger)
         /\ FirstId(w) \in Nat /\ InThisWorkgroup(w) \in Nat
         /\ LocalOffset(w) = FirstId(w)
<1>1. /\ numMarkovChains \in Nat /\ numWorkgroups \in Nat \ {0}
      /\ markovChainOffset \in Nat
  BY ChainDistributionAssumption DEF CDTypeOK
<1>2. w \in Nat
  BY <1>1 DEF Workgroups
<1>3. /\ PerWorkgroup \in Nat /\ Larger \in Nat /\ Larger < numWorkgroups
      /\ numMarkovChains = (numWorkgroups * PerWorkgroup) + Larger
  BY <1>1, DivisionFact DEF PerWorkgroup, Larger
<1>4. /\ IdOffset(w) = Start(w, PerWorkgroup, Larger)
      /\ InThisWorkgroup(w) = Share(w, PerWorkgroup, Larger)
  BY DEF IdOffset, InThisWorkgroup, Start, Share
<1>5. /\ Start(w, PerWorkgroup, Larger) \in Nat
      /\ Share(w, PerWorkgroup, Larger) \in Nat
  BY <1>2, <1>3, StartIsNatural
<1> QED BY <1>1, <1>2, <1>3, <1>4, <1>5 DEF FirstId, LocalOffset

(* What the head of workgroup w has done: it has skipped first and added    *)
(* then; it has drawn one seed for each chain skipped or added; and it has  *)
(* added the chains of its range below nextId, with the seeds of their ids. *)
Progress(w) ==
  /\ skipped[w] <= LocalOffset(w)
  /\ nextId[w] >= FirstId(w)
  /\ nextId[w] <= FirstId(w) + InThisWorkgroup(w)
  /\ seedsDrawn[w] = skipped[w] + (nextId[w] - FirstId(w))
  /\ skipped[w] < LocalOffset(w) => nextId[w] = FirstId(w)
  /\ \A chain \in mcChainsToAdd[w] :
       chain.seed = chain.id /\ FirstId(w) <= chain.id /\ chain.id < nextId[w]
  /\ \A k \in Nat : FirstId(w) <= k /\ k < nextId[w] =>
       [id |-> k, seed |-> k] \in mcChainsToAdd[w]

IInv == CDTypeOK /\ \A w \in Workgroups : Progress(w)

(* The heads begin with nothing skipped, nothing drawn and no chain added. *)
LEMMA InitIInv == Init => IInv
<1> SUFFICES ASSUME Init PROVE IInv
  OBVIOUS
<1>1. \A w \in Workgroups : FirstId(w) \in Nat /\ InThisWorkgroup(w) \in Nat
                            /\ LocalOffset(w) = FirstId(w)
  <2> DEFINE Conf == /\ numMarkovChains \in ChainCounts
                     /\ numWorkgroups \in WorkgroupCounts
                     /\ markovChainOffset \in Offsets
  <2>1. Conf
    BY DEF Init
  <2>2. /\ numMarkovChains \in Nat /\ numWorkgroups \in Nat \ {0}
        /\ markovChainOffset \in Nat
    BY <2>1, ChainDistributionAssumption
  <2>3. TAKE w \in Workgroups
  <2>4. w \in Nat /\ PerWorkgroup \in Nat /\ Larger \in Nat
    BY <2>2, <2>3, DivisionFact DEF Workgroups, PerWorkgroup, Larger
  <2>5. /\ IdOffset(w) = Start(w, PerWorkgroup, Larger)
        /\ InThisWorkgroup(w) = Share(w, PerWorkgroup, Larger)
    BY DEF IdOffset, InThisWorkgroup, Start, Share
  <2>6. /\ Start(w, PerWorkgroup, Larger) \in Nat
        /\ Share(w, PerWorkgroup, Larger) \in Nat
    BY <2>4, StartIsNatural
  <2> QED BY <2>2, <2>5, <2>6 DEF FirstId, LocalOffset
<1>2. CDTypeOK
  BY <1>1 DEF Init, CDTypeOK
<1>3. ASSUME NEW w \in Workgroups PROVE Progress(w)
  <2>1. /\ skipped[w] = 0 /\ nextId[w] = FirstId(w) /\ seedsDrawn[w] = 0
        /\ mcChainsToAdd[w] = {}
    BY <1>3 DEF Init
  <2>2. /\ FirstId(w) \in Nat /\ InThisWorkgroup(w) \in Nat
        /\ LocalOffset(w) = FirstId(w)
    BY <1>1, <1>3
  <2> QED BY <2>1, <2>2 DEF Progress
<1> QED BY <1>2, <1>3 DEF IInv

(* The configuration is fixed, and the ranges with it. *)
LEMMA RangesStay ==
  ASSUME UNCHANGED config
  PROVE  /\ Workgroups' = Workgroups
         /\ \A w : /\ FirstId(w)' = FirstId(w)
                   /\ LocalOffset(w)' = LocalOffset(w)
                   /\ InThisWorkgroup(w)' = InThisWorkgroup(w)
BY DEF config, Workgroups, FirstId, LocalOffset, IdOffset, InThisWorkgroup,
       PerWorkgroup, Larger

(* A head of which nothing changes has done what it had done. *)
LEMMA ProgressStays ==
  ASSUME UNCHANGED config, NEW w, Progress(w),
         skipped'[w] = skipped[w], nextId'[w] = nextId[w],
         seedsDrawn'[w] = seedsDrawn[w],
         mcChainsToAdd'[w] = mcChainsToAdd[w]
  PROVE  Progress(w)'
BY RangesStay DEF Progress

(* The loop that skips seeds draws one seed for each chain it skips.       *)
LEMMA SkipKeepsIInv ==
  ASSUME IInv, NEW v \in Workgroups, SkipSeed(v)
  PROVE  IInv'
<1>1. UNCHANGED config
  BY DEF SkipSeed
<1>2. CDTypeOK
  BY DEF IInv
<1>3. /\ skipped' = [skipped EXCEPT ![v] = @ + 1]
      /\ seedsDrawn' = [seedsDrawn EXCEPT ![v] = @ + 1]
      /\ nextId' = nextId /\ mcChainsToAdd' = mcChainsToAdd
      /\ skipped[v] < LocalOffset(v)
  BY DEF SkipSeed
<1>4. /\ skipped \in [Workgroups -> Nat]
      /\ seedsDrawn \in [Workgroups -> Nat]
      /\ nextId \in [Workgroups -> Nat]
  BY <1>2 DEF CDTypeOK
<1>5. CDTypeOK'
  <2>1. /\ skipped' \in [Workgroups -> Nat]
        /\ seedsDrawn' \in [Workgroups -> Nat]
    BY <1>3, <1>4
  <2>2. Workgroups' = Workgroups
    BY <1>1, RangesStay
  <2> QED BY <1>1, <1>2, <1>3, <2>1, <2>2 DEF CDTypeOK, config
<1>6. ASSUME NEW w \in Workgroups PROVE Progress(w)'
  <2>1. Progress(w)
    BY <1>6 DEF IInv
  <2>2. CASE w # v
    BY <1>1, <1>3, <1>4, <2>1, <2>2, ProgressStays
  <2>3. CASE w = v
    <3>1. /\ FirstId(v) \in Nat /\ InThisWorkgroup(v) \in Nat
          /\ LocalOffset(v) = FirstId(v)
      BY <1>2, RangeOfWorkgroup
    <3>2. /\ skipped'[v] = skipped[v] + 1
          /\ seedsDrawn'[v] = seedsDrawn[v] + 1
          /\ skipped[v] \in Nat /\ seedsDrawn[v] \in Nat /\ nextId[v] \in Nat
      BY <1>3, <1>4
    <3> QED BY <1>1, <1>3, <2>1, <2>3, <3>1, <3>2, RangesStay DEF Progress
  <2> QED BY <2>2, <2>3
<1> QED BY <1>1, <1>5, <1>6, RangesStay DEF IInv

(* add_new_mc_chain uses the next id together with the next seed.          *)
LEMMA AddKeepsIInv ==
  ASSUME IInv, NEW v \in Workgroups, AddNewMcChain(v)
  PROVE  IInv'
<1> DEFINE new == [id |-> nextId[v], seed |-> seedsDrawn[v]]
<1>1. UNCHANGED config
  BY DEF AddNewMcChain
<1>2. CDTypeOK
  BY DEF IInv
<1>3. /\ nextId' = [nextId EXCEPT ![v] = @ + 1]
      /\ seedsDrawn' = [seedsDrawn EXCEPT ![v] = @ + 1]
      /\ mcChainsToAdd' = [mcChainsToAdd EXCEPT ![v] = @ \union {new}]
      /\ skipped' = skipped
      /\ skipped[v] = LocalOffset(v)
      /\ nextId[v] < FirstId(v) + InThisWorkgroup(v)
  BY DEF AddNewMcChain
<1>4. /\ skipped \in [Workgroups -> Nat]
      /\ seedsDrawn \in [Workgroups -> Nat]
      /\ nextId \in [Workgroups -> Nat]
      /\ mcChainsToAdd \in [Workgroups -> SUBSET [id : Nat, seed : Nat]]
  BY <1>2 DEF CDTypeOK
<1>5. new \in [id : Nat, seed : Nat]
  BY <1>4
<1>6. CDTypeOK'
  <2>1. mcChainsToAdd' \in [Workgroups -> SUBSET [id : Nat, seed : Nat]]
    BY <1>3, <1>4, <1>5
  <2> QED BY <1>1, <1>2, <1>3, <2>1, RangesStay DEF CDTypeOK, config
<1>7. ASSUME NEW w \in Workgroups PROVE Progress(w)'
  <2>1. Progress(w)
    BY <1>7 DEF IInv
  <2>2. CASE w # v
    BY <1>1, <1>3, <1>4, <2>1, <2>2, ProgressStays
  <2>3. CASE w = v
    <3>1. /\ FirstId(v) \in Nat /\ InThisWorkgroup(v) \in Nat
          /\ LocalOffset(v) = FirstId(v)
      BY <1>2, RangeOfWorkgroup
    <3>2. /\ nextId'[v] = nextId[v] + 1
          /\ seedsDrawn'[v] = seedsDrawn[v] + 1
          /\ mcChainsToAdd'[v] = mcChainsToAdd[v] \union {new}
          /\ skipped[v] \in Nat /\ seedsDrawn[v] \in Nat /\ nextId[v] \in Nat
      BY <1>3, <1>4
    <3>3. seedsDrawn[v] = nextId[v]
      BY <1>3, <2>1, <2>3, <3>1, <3>2 DEF Progress
    <3>4. new.id = nextId[v] /\ new.seed = nextId[v]
      BY <3>3
    <3>5. new = [id |-> nextId[v], seed |-> nextId[v]]
      BY <3>3
    <3> HIDE DEF new
    <3>6. \A chain \in mcChainsToAdd'[v] :
            /\ chain.seed = chain.id
            /\ FirstId(v) <= chain.id /\ chain.id < nextId'[v]
      <4>1. TAKE chain \in mcChainsToAdd'[v]
      <4>2. CASE chain = new
        BY <2>1, <2>3, <3>1, <3>2, <3>4, <4>2 DEF Progress
      <4>3. CASE chain \in mcChainsToAdd[v]
        <5>1. /\ chain.seed = chain.id /\ chain.id \in Nat
              /\ FirstId(v) <= chain.id /\ chain.id < nextId[v]
          BY <1>4, <2>1, <2>3, <4>3 DEF Progress
        <5> QED BY <3>1, <3>2, <5>1
      <4> QED BY <3>2, <4>1, <4>2, <4>3
    <3>7. \A k \in Nat : FirstId(v) <= k /\ k < nextId'[v] =>
            [id |-> k, seed |-> k] \in mcChainsToAdd'[v]
      <4>1. TAKE k \in Nat
      <4>2. CASE k = nextId[v]
        BY <3>2, <3>5, <4>2
      <4>3. CASE k # nextId[v]
        BY <2>1, <2>3, <3>1, <3>2, <4>3 DEF Progress
      <4> QED BY <4>2, <4>3
    <3> QED BY <1>1, <1>3, <2>1, <2>3, <3>1, <3>2, <3>6, <3>7, RangesStay
            DEF Progress
  <2> QED BY <2>2, <2>3
<1> QED BY <1>1, <1>6, <1>7, RangesStay DEF IInv

(* No step of any head breaks the invariant.                               *)
LEMMA NextKeepsIInv == IInv /\ [Next]_vars => IInv'
<1> SUFFICES ASSUME IInv, [Next]_vars PROVE IInv'
  OBVIOUS
<1>1. CASE UNCHANGED vars
  <2>1. UNCHANGED config
    BY <1>1 DEF vars
  <2>2. CDTypeOK'
    BY <1>1, RangesStay, <2>1 DEF IInv, CDTypeOK, vars, config
  <2>3. ASSUME NEW w \in Workgroups PROVE Progress(w)'
    BY <1>1, <2>1, <2>3, ProgressStays DEF IInv, vars
  <2> QED BY <2>1, <2>2, <2>3, RangesStay DEF IInv
<1>2. ASSUME NEW w \in Workgroups, SkipSeed(w) PROVE IInv'
  BY <1>2, SkipKeepsIInv
<1>3. ASSUME NEW w \in Workgroups, AddNewMcChain(w) PROVE IInv'
  BY <1>3, AddKeepsIInv
<1> QED BY <1>1, <1>2, <1>3 DEF Next, Begun

(* What the inductive invariant says about a chain id of workgroup w. *)
LEMMA IdsOfWorkgroup ==
  ASSUME IInv, NEW w \in Workgroups, NEW i \in Ids(w)
  PROVE  /\ i \in Nat
         /\ FirstId(w) <= i /\ i < FirstId(w) + InThisWorkgroup(w)
<1>1. PICK chain \in mcChainsToAdd[w] : i = chain.id
  BY DEF Ids
<1>2. chain.id \in Nat /\ nextId[w] \in Nat
  BY DEF IInv, CDTypeOK
<1>3. /\ FirstId(w) <= chain.id /\ chain.id < nextId[w]
      /\ nextId[w] <= FirstId(w) + InThisWorkgroup(w)
  BY DEF IInv, Progress
<1>4. FirstId(w) \in Nat /\ InThisWorkgroup(w) \in Nat
  BY RangeOfWorkgroup DEF IInv
<1> QED BY <1>1, <1>2, <1>3, <1>4

(* A chain's seed is the one at the place of its id.                       *)
LEMMA IInvSeedOfChain == IInv => SeedOfChain
BY DEF IInv, Progress, SeedOfChain

(* The chains of a head lie in its range, and the ranges are disjoint.     *)
LEMMA IInvNoChainTwice == IInv => NoChainTwice
<1> SUFFICES ASSUME IInv, NEW v \in Workgroups, NEW w \in Workgroups, v # w,
                    NEW i \in Ids(v) \intersect Ids(w)
             PROVE  FALSE
  BY DEF NoChainTwice
<1>1. ASSUME NEW a \in Workgroups, NEW b \in Workgroups, a < b,
             i \in Ids(a), i \in Ids(b)
      PROVE  FALSE
  <2>1. i \in Nat /\ i < FirstId(a) + InThisWorkgroup(a) /\ FirstId(b) <= i
    BY <1>1, IdsOfWorkgroup
  <2>2. Start(a, PerWorkgroup, Larger) + Share(a, PerWorkgroup, Larger)
          <= Start(b, PerWorkgroup, Larger)
    BY <1>1, RangeOfWorkgroup, RangesInOrder DEF IInv
  <2>3. /\ Start(a, PerWorkgroup, Larger) \in Nat
        /\ Share(a, PerWorkgroup, Larger) \in Nat
        /\ Start(b, PerWorkgroup, Larger) \in Nat
    BY <1>1, RangeOfWorkgroup, StartIsNatural DEF IInv
  <2>4. markovChainOffset \in Nat
    BY ChainDistributionAssumption DEF IInv, CDTypeOK
  <2>5. /\ FirstId(a) = markovChainOffset + Start(a, PerWorkgroup, Larger)
        /\ FirstId(b) = markovChainOffset + Start(b, PerWorkgroup, Larger)
        /\ InThisWorkgroup(a) = Share(a, PerWorkgroup, Larger)
    BY <1>1, RangeOfWorkgroup DEF IInv
  <2> QED BY <2>1, <2>2, <2>3, <2>4, <2>5
<1>2. v \in Nat /\ w \in Nat
  BY RangeOfWorkgroup DEF IInv
<1> QED BY <1>1, <1>2, v < w \/ w < v

(* A head that is ready has its whole range, and the ranges cover the run. *)
LEMMA IInvNoChainMissing == IInv => NoChainMissing
<1> SUFFICES ASSUME IInv, \A w \in Workgroups : Ready(w)
             PROVE  UNION {Ids(w) : w \in Workgroups} =
                      markovChainOffset ..
                        markovChainOffset + numMarkovChains - 1
  BY DEF NoChainMissing
<1>1. /\ markovChainOffset \in Nat /\ numMarkovChains \in Nat
      /\ numWorkgroups \in Nat \ {0}
  BY ChainDistributionAssumption DEF IInv, CDTypeOK
<1>2. /\ PerWorkgroup \in Nat /\ Larger \in Nat /\ Larger < numWorkgroups
      /\ numMarkovChains = (numWorkgroups * PerWorkgroup) + Larger
  BY <1>1, DivisionFact DEF PerWorkgroup, Larger
<1>3. ASSUME NEW w \in Workgroups, NEW i \in Ids(w)
      PROVE  i \in markovChainOffset .. markovChainOffset + numMarkovChains - 1
  <2>1. i \in Nat /\ FirstId(w) <= i /\ i < FirstId(w) + InThisWorkgroup(w)
    BY <1>3, IdsOfWorkgroup
  <2>2. /\ FirstId(w) = markovChainOffset + Start(w, PerWorkgroup, Larger)
        /\ InThisWorkgroup(w) = Share(w, PerWorkgroup, Larger)
        /\ w \in Nat
    BY <1>3, RangeOfWorkgroup DEF IInv
  <2>3. w < numWorkgroups
    BY <1>1, <1>3 DEF Workgroups
  <2>4. Start(w, PerWorkgroup, Larger) + Share(w, PerWorkgroup, Larger)
          <= Start(numWorkgroups, PerWorkgroup, Larger)
    BY <1>1, <1>2, <2>2, <2>3, RangesInOrder
  <2>5. Start(numWorkgroups, PerWorkgroup, Larger) = numMarkovChains
    BY <1>1, <1>2, RangesEnd
  <2>6. /\ Start(w, PerWorkgroup, Larger) \in Nat
        /\ Share(w, PerWorkgroup, Larger) \in Nat
    BY <1>2, <2>2, StartIsNatural
  <2> QED BY <1>1, <2>1, <2>2, <2>4, <2>5, <2>6
<1>4. ASSUME NEW i \in markovChainOffset ..
                         markovChainOffset + numMarkovChains - 1
      PROVE  \E w \in Workgroups : i \in Ids(w)
  <2> DEFINE k == i - markovChainOffset
  <2>1. i \in Nat /\ k \in Nat /\ k < numMarkovChains
    BY <1>1
  <2>2. i = markovChainOffset + k
    BY <1>1, <2>1
  <2> HIDE DEF k
  <2>3. PICK w \in 0 .. numWorkgroups - 1 :
          /\ Start(w, PerWorkgroup, Larger) <= k
          /\ k < Start(w, PerWorkgroup, Larger)
                   + Share(w, PerWorkgroup, Larger)
    BY <1>1, <1>2, <2>1, RangesCover
  <2>4. w \in Workgroups
    BY DEF Workgroups
  <2>5. /\ FirstId(w) = markovChainOffset + Start(w, PerWorkgroup, Larger)
        /\ InThisWorkgroup(w) = Share(w, PerWorkgroup, Larger)
        /\ w \in Nat
    BY <2>4, RangeOfWorkgroup DEF IInv
  <2>6. /\ Start(w, PerWorkgroup, Larger) \in Nat
        /\ Share(w, PerWorkgroup, Larger) \in Nat
    BY <1>2, <2>5, StartIsNatural
  <2>7. FirstId(w) <= i /\ i < FirstId(w) + InThisWorkgroup(w)
    BY <1>1, <2>1, <2>2, <2>3, <2>5, <2>6
  <2>8. nextId[w] = FirstId(w) + InThisWorkgroup(w)
    BY <2>4 DEF Ready
  <2>9. [id |-> i, seed |-> i] \in mcChainsToAdd[w]
    BY <2>1, <2>4, <2>7, <2>8 DEF IInv, Progress
  <2>10. i \in Ids(w)
    BY <2>9, [id |-> i, seed |-> i].id = i DEF Ids
  <2> QED BY <2>4, <2>10
<1> QED BY <1>3, <1>4

(* Whatever the configuration, a chain gets the seed that belongs to its    *)
(* id, no two heads get the same chain, and none is missing when the main   *)
(* loops begin.                                                             *)
THEOREM ChainsAreDistributed ==
  Spec => [](CDTypeOK /\ SeedOfChain /\ OneHeadPerChain)
<1>1. IInv => CDTypeOK /\ SeedOfChain /\ OneHeadPerChain
  BY IInvSeedOfChain, IInvNoChainTwice, IInvNoChainMissing
  DEF IInv, OneHeadPerChain
<1> QED BY InitIInv, NextKeepsIInv, <1>1, PTL DEF Spec


-----------------------------------------------------------------------------
(* The set-up of the workgroups                                            *)

StageNames == {Stages[i] : i \in 1 .. 15}

(* How far p is. *)
P(p) == Place(stage[p])

(* The processes on the machine of p, and the smallest of them. *)
Local(p) == {q \in Processes : machineOf[q] = machineOf[p]}
Chief(p) == Min(Local(p))

WGTypeOK ==
  /\ machineOf \in Placements
  /\ stage \in [Processes -> StageNames]
  /\ number \in [Processes -> Nat]
  /\ tmp \in [DOMAIN tmp -> SUBSET Nat]
  /\ head \in [Processes -> Processes \union {-1}]
  /\ count \in [Processes -> Nat]
  /\ id \in [Processes -> Nat \union {-1}]
  /\ failed \in BOOLEAN

(* The stages that a process leaves only when all have reached them. *)
Meetings == {1, 5, 7, 9, 11, 12, 13}

Together ==
  \A p, q \in Processes : \A b \in Meetings : P(p) > b => P(q) >= b

(* All use the number of process 0. *)
Numbered == \A p \in Processes : P(p) > 2 => P(0) > 2 /\ number[p] = number[0]

(* The directory of p is there until the smallest process on its machine   *)
(* has removed it, and from the time at which p found it empty on it has   *)
(* the entries that have been created, and no others.                      *)
DirectoryOf(p) ==
  IF P(Chief(p)) > 10
    THEN Directory(p) \notin DOMAIN tmp
    ELSE /\ P(p) > 3 => Directory(p) \in DOMAIN tmp
         /\ P(p) > 4 => tmp[Directory(p)] = {q \in Local(p) : P(q) > 6}

HeadsKnown == \A p \in Processes : P(p) > 8 => head[p] = Chief(p)

Told ==
  \A p \in Processes :
    P(p) > 14 => /\ count[p] = Cardinality(Leaders)
                 /\ id[p] = Cardinality({q \in Leaders : q < head[p]})

Several == Numbered /\ \A p \in Processes : DirectoryOf(p)

WGInv ==
  /\ WGTypeOK /\ Together /\ HeadsKnown /\ Told
  /\ Processes # {0} => Several
  /\ Processes = {0} => P(0) \in {1, 2, 15}

-----------------------------------------------------------------------------
(* Processes, stages and machines                                          *)

(* The processes are the numbers from 0 on, and there are finitely many.    *)
LEMMA ProcessFacts ==
  ASSUME machineOf \in Placements
  PROVE  /\ IsFiniteSet(Processes) /\ 0 \in Processes
         /\ Processes \subseteq Nat
<1>1. /\ IsFiniteSet(Processes) /\ 0 \in Processes
      /\ Processes = 0 .. Cardinality(Processes) - 1
  BY SharedTmpWorkgroupAssumption DEF Processes
<1>2. Cardinality(Processes) \in Nat
  BY <1>1, FS_CardinalityType
<1> QED BY <1>1, <1>2

(* The places of the stages.                                                *)
LEMMA PlaceValues ==
  /\ Place("configured") = 1 /\ Place("number") = 2 /\ Place("directory") = 3
  /\ Place("empty") = 4 /\ Place("allEmpty") = 5 /\ Place("entry") = 6
  /\ Place("allEntered") = 7 /\ Place("head") = 8 /\ Place("allKnow") = 9
  /\ Place("remove") = 10 /\ Place("group") = 11 /\ Place("leaders") = 12
  /\ Place("allSplit") = 13 /\ Place("share") = 14 /\ Place("seed") = 15
BY DEF Place, Stages

(* Each stage is at its place.                                              *)
LEMMA PlaceOfStage ==
  ASSUME NEW s \in StageNames
  PROVE  Place(s) \in 1 .. 15 /\ Stages[Place(s)] = s
<1>1. PICK i \in 1 .. 15 : s = Stages[i]
  BY DEF StageNames
<1>2. DOMAIN Stages = 1 .. 15
  BY DEF Stages
<1>3. Place(s) \in DOMAIN Stages /\ Stages[Place(s)] = s
  BY <1>1, <1>2 DEF Place
<1> QED BY <1>2, <1>3

(* A set of numbers that is not empty has a least element.                  *)
LEMMA LeastOf ==
  ASSUME NEW S, S \subseteq Nat, S # {}
  PROVE  Min(S) \in S /\ \A k \in S : Min(S) <= k
<1>1. PICK m \in S : \A k \in S : <<k, m>> \notin OpToRel(<, Nat)
  BY WFMin, NatLessThanWellFounded, Zenon
<1>2. \A k \in S : ~(k < m)
  BY <1>1, Zenon DEF OpToRel
<1>3. \A k \in S : m <= k
  BY <1>2
<1> QED
  BY <1>3 DEF Min

(* The smallest process of a machine is one process for all on it.          *)
LEMMA ChiefFacts ==
  ASSUME machineOf \in Placements, NEW p \in Processes
  PROVE  /\ p \in Local(p)
         /\ Chief(p) \in Processes /\ machineOf[Chief(p)] = machineOf[p]
         /\ Chief(p) <= p
         /\ \A q \in Processes : machineOf[q] = machineOf[p] =>
              Local(q) = Local(p) /\ Chief(q) = Chief(p)
         /\ Chief(0) = 0
<1>1. p \in Local(p) /\ Local(p) \subseteq Nat
  BY ProcessFacts DEF Local
<1>2. Chief(p) \in Local(p) /\ \A k \in Local(p) : Chief(p) <= k
  BY <1>1, LeastOf DEF Chief
<1>3. \A q \in Processes : machineOf[q] = machineOf[p] =>
        Local(q) = Local(p) /\ Chief(q) = Chief(p)
  BY DEF Local, Chief
<1>4. 0 \in Local(0) /\ Local(0) \subseteq Nat
  BY ProcessFacts DEF Local
<1>5. Chief(0) \in Local(0) /\ Chief(0) <= 0
  BY <1>4, LeastOf DEF Chief
<1> QED BY <1>1, <1>2, <1>3, <1>4, <1>5 DEF Local

(* A process that goes on is one stage further, the others stay.            *)
LEMMA GoMoves ==
  ASSUME WGTypeOK, NEW p \in Processes, Go(p), stage[p] # "seed",
         machineOf' = machineOf
  PROVE  /\ stage' \in [Processes -> StageNames]
         /\ Place(stage'[p]) = Place(stage[p]) + 1
         /\ \A q \in Processes \ {p} : stage'[q] = stage[q]
         /\ \A q \in Processes : /\ Place(stage[q]) \in 1 .. 15
                                 /\ Place(stage'[q]) \in 1 .. 15
<1>1. stage[p] \in StageNames /\ stage[p] # "seed"
  BY DEF WGTypeOK
<1>2. Place(stage[p]) \in 1 .. 15 /\ Stages[Place(stage[p])] = stage[p]
  BY <1>1, PlaceOfStage
<1>3. Stages[15] = "seed"
  BY DEF Stages
<1>4. Place(stage[p]) + 1 \in 1 .. 15
  BY <1>1, <1>2, <1>3
<1> DEFINE next == Stages[Place(stage[p]) + 1]
<1>5. next \in StageNames
  BY <1>4 DEF StageNames
<1>6. Place(next) = Place(stage[p]) + 1
  BY <1>4, PlaceValues DEF Stages
<1>7. stage' = [stage EXCEPT ![p] = next]
  BY DEF Go
<1> HIDE DEF next
<1>8. stage' \in [Processes -> StageNames]
  BY <1>5, <1>7 DEF WGTypeOK
<1>9. stage'[p] = next /\ \A q \in Processes \ {p} : stage'[q] = stage[q]
  BY <1>7 DEF WGTypeOK
<1>10. \A q \in Processes : stage[q] \in StageNames /\ stage'[q] \in StageNames
  BY <1>8 DEF WGTypeOK
<1> QED BY <1>6, <1>8, <1>9, <1>10, PlaceOfStage

(* Who is on which machine does not change within a run.                    *)
LEMMA SameMachines ==
  ASSUME machineOf' = machineOf
  PROVE  /\ Processes' = Processes
         /\ \A q : Local(q)' = Local(q) /\ Chief(q)' = Chief(q)
BY DEF Processes, Local, Chief

-----------------------------------------------------------------------------
(* Going on keeps what does not depend on the stage that is left           *)

(* Who leaves a stage at which all meet has seen all others there.          *)
LEMMA GoKeepsTogether ==
  ASSUME WGTypeOK, Together, NEW p \in Processes, Go(p), stage[p] # "seed",
         machineOf' = machineOf,
         P(p) \in Meetings => \A q \in Processes : P(q) >= P(p)
  PROVE  Together'
<1>1. /\ Place(stage'[p]) = Place(stage[p]) + 1
      /\ \A q \in Processes \ {p} : stage'[q] = stage[q]
      /\ \A q \in Processes : Place(stage[q]) \in 1 .. 15
  BY GoMoves
<1> SUFFICES ASSUME NEW q \in Processes, NEW r \in Processes,
                    NEW b \in Meetings, Place(stage'[q]) > b
             PROVE  Place(stage'[r]) >= b
  BY SameMachines DEF Together, P
<1>2. Place(stage'[r]) >= Place(stage[r]) /\ b \in Int
  BY <1>1 DEF Meetings
<1>3. CASE Place(stage[q]) > b
  BY <1>1, <1>2, <1>3 DEF Together, P
<1>4. CASE ~(Place(stage[q]) > b)
  <2>1. q = p /\ Place(stage[p]) = b
    BY <1>1, <1>2, <1>4
  <2> QED BY <1>1, <1>2, <2>1 DEF P
<1> QED BY <1>3, <1>4

(* The others know their heads as before.                                   *)
LEMMA GoKeepsHeads ==
  ASSUME WGTypeOK, HeadsKnown, NEW p \in Processes, Go(p), stage[p] # "seed",
         stage[p] # "head", machineOf' = machineOf, head' = head
  PROVE  HeadsKnown'
<1>1. /\ Place(stage'[p]) = Place(stage[p]) + 1
      /\ \A q \in Processes \ {p} : stage'[q] = stage[q]
      /\ \A q \in Processes : Place(stage[q]) \in 1 .. 15
  BY GoMoves
<1>2. Place(stage[p]) # 8
  BY PlaceOfStage DEF WGTypeOK, Stages
<1> SUFFICES ASSUME NEW q \in Processes, Place(stage'[q]) > 8
             PROVE  head[q] = Chief(q)
  BY SameMachines DEF HeadsKnown, P
<1>3. Place(stage[q]) > 8
  BY <1>1, <1>2
<1> QED BY <1>3 DEF HeadsKnown, P

(* What the processes were told stays true while the heads are the same.    *)
LEMMA GoKeepsTold ==
  ASSUME WGTypeOK, Told, NEW p \in Processes, Go(p), stage[p] # "seed",
         stage[p] # "share", UNCHANGED <<machineOf, head, count, id>>
  PROVE  Told'
<1>1. /\ Place(stage'[p]) = Place(stage[p]) + 1
      /\ \A q \in Processes \ {p} : stage'[q] = stage[q]
      /\ \A q \in Processes : Place(stage[q]) \in 1 .. 15
  BY GoMoves
<1>2. Place(stage[p]) # 14
  BY PlaceOfStage DEF WGTypeOK, Stages
<1>3. Processes' = Processes /\ Leaders' = Leaders
  BY SameMachines DEF Leaders, IsWorkgroupHead
<1> SUFFICES ASSUME NEW q \in Processes, Place(stage'[q]) > 14
             PROVE  /\ count[q] = Cardinality(Leaders)
                    /\ id[q] = Cardinality({r \in Leaders : r < head[q]})
  BY <1>3 DEF Told, P
<1>4. Place(stage[q]) > 14
  BY <1>1, <1>2
<1> QED BY <1>4 DEF Told, P

(* The directories are what they were.                                      *)
LEMMA GoKeepsSeveral ==
  ASSUME WGTypeOK, Several, NEW p \in Processes, Go(p), stage[p] # "seed",
         P(p) \notin {2, 3, 4, 6, 10}, UNCHANGED <<machineOf, number, tmp>>
  PROVE  Several'
<1>1. /\ Place(stage'[p]) = Place(stage[p]) + 1
      /\ \A q \in Processes \ {p} : stage'[q] = stage[q]
      /\ \A q \in Processes : Place(stage[q]) \in 1 .. 15
  BY GoMoves
<1>2. \A q \in Processes : \A k \in {2, 3, 4, 6, 10} :
        (Place(stage'[q]) > k) <=> (Place(stage[q]) > k)
  BY <1>1 DEF P
<1>3. 0 \in Processes /\ \A q \in Processes : Chief(q) \in Processes
  BY ProcessFacts, ChiefFacts DEF WGTypeOK
<1>4. Numbered'
  BY <1>2, <1>3, SameMachines DEF Several, Numbered, P
<1>5. ASSUME NEW q \in Processes PROVE DirectoryOf(q)'
  <2>1. {r \in Local(q) : Place(stage'[r]) > 6}
          = {r \in Local(q) : Place(stage[r]) > 6}
    BY <1>2 DEF Local
  <2>2. Directory(q)' = Directory(q) /\ Chief(q)' = Chief(q)
        /\ Local(q)' = Local(q)
    BY SameMachines DEF Directory
  <2>3. DirectoryOf(q)
    BY DEF Several
  <2> QED BY <1>2, <1>3, <2>1, <2>2, <2>3 DEF DirectoryOf, P
<1> QED BY <1>4, <1>5, SameMachines DEF Several
-----------------------------------------------------------------------------
(* The steps                                                               *)

(* A process between the first barriers and the end is not alone.           *)
LEMMA NotAlone ==
  ASSUME WGInv, NEW p \in Processes, P(p) \notin {1, 2, 15}
  PROVE  Processes # {0} /\ Several
BY DEF WGInv

(* At a barrier and in a split nobody learns or changes anything.           *)
LEMMA MeetingKeeps ==
  ASSUME WGInv, NEW p \in Processes, Barrier(p) \/ Split(p)
  PROVE  WGInv'
<1>1. /\ stage[p] \in {"configured", "allEmpty", "allEntered", "allKnow",
                       "allSplit", "group", "leaders"}
      /\ Reached(stage[p]) /\ Go(p)
      /\ UNCHANGED <<machineOf, number, tmp, head, count, id, failed>>
  BY DEF Barrier, Split
<1>2. /\ stage[p] # "seed" /\ stage[p] # "head" /\ stage[p] # "share"
      /\ P(p) \in {1, 5, 7, 9, 11, 12, 13}
  BY <1>1, PlaceValues DEF P
<1>3. \A q \in Processes : P(q) >= P(p)
  BY <1>1 DEF Reached, P
<1>4. WGTypeOK /\ Together /\ HeadsKnown /\ Told
  BY DEF WGInv
<1>5. /\ stage' \in [Processes -> StageNames]
      /\ Place(stage'[p]) = Place(stage[p]) + 1
      /\ \A q \in Processes \ {p} : stage'[q] = stage[q]
  BY <1>1, <1>2, <1>4, GoMoves
<1>6. WGTypeOK'
  BY <1>1, <1>4, <1>5 DEF WGTypeOK, Processes
<1>7. Together' /\ HeadsKnown' /\ Told'
  BY <1>1, <1>2, <1>3, <1>4, GoKeepsTogether, GoKeepsHeads, GoKeepsTold
<1>8. ASSUME Processes # {0} PROVE Several'
  BY <1>1, <1>2, <1>4, <1>8, GoKeepsSeveral DEF WGInv
<1>9. ASSUME Processes = {0} PROVE Place(stage'[0]) = 2
  <2>1. p = 0 /\ P(0) \in {1, 2, 15}
    BY <1>9 DEF WGInv
  <2> QED BY <1>2, <1>5, <2>1 DEF P
<1>10. Processes' = Processes
  BY <1>1, SameMachines
<1> QED BY <1>6, <1>7, <1>8, <1>9, <1>10 DEF WGInv, P

(* A process that is alone is the head of the only workgroup.               *)
LEMMA BeAloneKeeps ==
  ASSUME WGInv, NEW p \in Processes, BeAlone(p)
  PROVE  WGInv'
<1>1. p = 0 /\ Processes = {0} /\ machineOf' = machineOf /\ WGTypeOK
  BY DEF BeAlone, WGInv
<1>2. Processes' = {0}
  BY <1>1, SameMachines
<1>3. /\ stage' = [stage EXCEPT ![0] = "seed"] /\ stage'[0] = "seed"
      /\ head'[0] = 0 /\ count'[0] = 1 /\ id'[0] = 0
  BY <1>1 DEF BeAlone, WGTypeOK
<1>4. Place(stage'[0]) = 15
  BY <1>3, PlaceValues
<1>5. "seed" \in StageNames
  <2>1. Stages[15] = "seed"
    BY DEF Stages
  <2> QED BY <2>1 DEF StageNames
<1>6. WGTypeOK'
  BY <1>1, <1>2, <1>3, <1>5 DEF WGTypeOK, BeAlone
<1>7. Together'
  BY <1>2, <1>4 DEF Together, P, Meetings
<1>8. HeadsKnown'
  BY <1>1, <1>2, <1>3, ChiefFacts, SameMachines DEF HeadsKnown, WGTypeOK
<1>9. Told'
  <2>1. Leaders' = {0}
    BY <1>2, <1>3 DEF Leaders, IsWorkgroupHead
  <2>2. {q \in {0} : q < 0} = {}
    OBVIOUS
  <2>3. Cardinality({0}) = 1 /\ Cardinality({}) = 0
    BY FS_Singleton, FS_EmptySet
  <2>4. Cardinality({q \in {0} : q < 0}) = 0
    BY <2>2, <2>3
  <2> QED BY <1>2, <1>3, <2>1, <2>3, <2>4 DEF Told
<1> QED BY <1>2, <1>4, <1>6, <1>7, <1>8, <1>9 DEF WGInv, P

(* While a process has not got past the last barrier before it, nobody      *)
(* removes a directory, and nobody creates an entry before all directories  *)
(* have been found empty.                                                   *)
LEMMA NobodyRemoves ==
  ASSUME WGTypeOK, Together, NEW p \in Processes, NEW q \in Processes
  PROVE  /\ Chief(q) \in Processes
         /\ P(p) < 9 => ~(P(Chief(q)) > 10)
         /\ P(p) < 5 => ~(P(q) > 6)
         /\ P(p) > 5 => P(q) > 4
         /\ P(p) > 7 => P(q) > 6
         /\ P(p) > 9 => P(q) > 8
<1>1. Chief(q) \in Processes
  BY ChiefFacts DEF WGTypeOK
<1>2. \A r \in Processes : Place(stage[r]) \in 1 .. 15
  BY PlaceOfStage DEF WGTypeOK
<1>3. \A r \in Processes : P(r) \in 1 .. 15
  BY <1>2 DEF P
<1>4. {5, 7, 9} \subseteq Meetings
  BY DEF Meetings
<1>5. P(Chief(q)) > 9 => P(p) >= 9
  BY <1>1, <1>4 DEF Together
<1>6. P(q) > 5 => P(p) >= 5
  BY <1>4 DEF Together
<1>7. /\ P(p) > 5 => P(q) >= 5
      /\ P(p) > 7 => P(q) >= 7
      /\ P(p) > 9 => P(q) >= 9
  BY <1>4 DEF Together
<1> QED BY <1>1, <1>3, <1>5, <1>6, <1>7

(* All use one number.                                                      *)
LEMMA BuildTmpDirPathKeeps ==
  ASSUME WGInv, NEW p \in Processes, BuildTmpDirPath(p)
  PROVE  WGInv'
<1>1. /\ stage[p] = "number" /\ Processes # {0} /\ Go(p)
      /\ UNCHANGED <<machineOf, tmp, head, count, id, failed>>
  BY DEF BuildTmpDirPath
<1>2. WGTypeOK /\ Together /\ HeadsKnown /\ Told /\ Several
  BY <1>1 DEF WGInv
<1>3. P(p) = 2 /\ 2 \notin Meetings
  BY <1>1, PlaceValues DEF P, Meetings
<1>4. /\ stage' \in [Processes -> StageNames]
      /\ Place(stage'[p]) = 3
      /\ \A q \in Processes \ {p} : stage'[q] = stage[q]
      /\ \A q \in Processes : Place(stage[q]) \in 1 .. 15
  BY <1>1, <1>2, <1>3, GoMoves DEF P
<1>5. 0 \in Processes /\ Processes' = Processes
  BY <1>1, <1>2, ProcessFacts, SameMachines DEF WGTypeOK
<1>6. /\ number' \in [Processes -> Nat]
      /\ \A q \in Processes \ {p} : number'[q] = number[q]
      /\ p # 0 => number'[p] = number[0] /\ Place(stage[0]) > 2
  BY <1>1, <1>2, <1>5, PlaceValues, SharedTmpWorkgroupAssumption
  DEF BuildTmpDirPath, WGTypeOK, Passed
<1>7. WGTypeOK'
  BY <1>1, <1>2, <1>4, <1>5, <1>6 DEF WGTypeOK
<1>8. Together' /\ HeadsKnown' /\ Told'
  BY <1>1, <1>2, <1>3, GoKeepsTogether, GoKeepsHeads, GoKeepsTold
<1>9. Numbered'
  <2>1. CASE p = 0
    <3>1. \A q \in Processes : ~(Place(stage[q]) > 2)
      BY <1>2, <1>3, <2>1 DEF Several, Numbered, P
    <3>2. \A q \in Processes : Place(stage'[q]) > 2 => q = 0
      BY <1>4, <3>1, <2>1
    <3> QED BY <1>4, <1>5, <3>2, <2>1 DEF Numbered, P
  <2>2. CASE p # 0
    BY <1>2, <1>4, <1>5, <1>6, <2>2 DEF Numbered, P, Several
  <2> QED BY <2>1, <2>2
<1>10. ASSUME NEW q \in Processes PROVE DirectoryOf(q)'
  <2>1. Chief(q)' = Chief(q) /\ Local(q)' = Local(q)
    BY <1>1, SameMachines
  <2>2. ~(Place(stage[Chief(q)]) > 10) /\ Chief(q) \in Processes
    BY <1>2, <1>3, NobodyRemoves DEF P
  <2>3. ~(Place(stage'[Chief(q)]) > 10)
    BY <1>4, <2>2
  <2>4. CASE q = p
    BY <1>4, <2>1, <2>3, <2>4 DEF DirectoryOf, P
  <2>5. CASE q # p
    <3>1. Directory(q)' = Directory(q)
      BY <1>1, <1>6, <2>5 DEF Directory
    <3>2. {r \in Local(q) : Place(stage'[r]) > 6}
            = {r \in Local(q) : Place(stage[r]) > 6}
      BY <1>3, <1>4 DEF Local, P
    <3>3. DirectoryOf(q)
      BY <1>2 DEF Several
    <3>4. stage'[q] = stage[q]
      BY <1>4, <2>5
    <3> QED BY <1>1, <2>1, <2>2, <2>3, <3>1, <3>2, <3>3, <3>4
        DEF DirectoryOf, P
  <2> QED BY <2>4, <2>5
<1> QED BY <1>1, <1>5, <1>7, <1>8, <1>9, <1>10 DEF WGInv, Several
(* Nothing but the end of the run, or nothing at all.                       *)
LEMMA StayingKeeps ==
  ASSUME WGInv, failed' \in BOOLEAN,
         UNCHANGED <<machineOf, stage, number, tmp, head, count, id>>
  PROVE  WGInv'
<1>1. Processes' = Processes /\ \A q : Local(q)' = Local(q) /\ Chief(q)' = Chief(q)
  BY SameMachines
<1>2. Leaders' = Leaders /\ \A q : Directory(q)' = Directory(q)
  BY <1>1 DEF Leaders, IsWorkgroupHead, Directory
<1>3. \A q : P(q)' = P(q)
  BY DEF P
<1>4. WGTypeOK'
  BY <1>1 DEF WGInv, WGTypeOK
<1>5. Together' /\ HeadsKnown' /\ Told'
  BY <1>1, <1>2, <1>3 DEF WGInv, Together, HeadsKnown, Told
<1>6. ASSUME NEW q \in Processes, DirectoryOf(q) PROVE DirectoryOf(q)'
  BY <1>1, <1>2, <1>3, <1>6 DEF DirectoryOf
<1>7. Several => Several'
  BY <1>1, <1>3, <1>6 DEF Several, Numbered
<1> QED BY <1>1, <1>3, <1>4, <1>5, <1>7 DEF WGInv

(* What all steps have in common in which one process goes on alone.        *)
LEMMA GoKeepsOthers ==
  ASSUME WGInv, NEW p \in Processes, Go(p), P(p) \in {3, 4, 6, 10},
         stage[p] \notin {"seed", "head", "share"},
         UNCHANGED <<machineOf, number, head, count, id>>
  PROVE  /\ Processes' = Processes /\ Processes # {0} /\ Several
         /\ stage' \in [Processes -> StageNames]
         /\ Place(stage'[p]) = Place(stage[p]) + 1
         /\ \A q \in Processes \ {p} : stage'[q] = stage[q]
         /\ \A q \in Processes : Place(stage[q]) \in 1 .. 15
         /\ \A q : /\ Chief(q)' = Chief(q) /\ Local(q)' = Local(q)
                   /\ Directory(q)' = Directory(q)
         /\ Together' /\ HeadsKnown' /\ Told' /\ Numbered'
<1>1. WGTypeOK /\ Together /\ HeadsKnown /\ Told
  BY DEF WGInv
<1>2. Processes # {0} /\ Several
  BY NotAlone
<1>3. /\ stage' \in [Processes -> StageNames]
      /\ Place(stage'[p]) = Place(stage[p]) + 1
      /\ \A q \in Processes \ {p} : stage'[q] = stage[q]
      /\ \A q \in Processes : Place(stage[q]) \in 1 .. 15
  BY <1>1, GoMoves
<1>4. Together' /\ HeadsKnown' /\ Told'
  BY <1>1, GoKeepsTogether, GoKeepsHeads, GoKeepsTold DEF Meetings
<1>5. /\ Processes' = Processes
      /\ \A q : /\ Chief(q)' = Chief(q) /\ Local(q)' = Local(q)
                /\ Directory(q)' = Directory(q)
  BY SameMachines DEF Directory
<1>6. \A q \in Processes : (Place(stage'[q]) > 2) <=> (Place(stage[q]) > 2)
  BY <1>3 DEF P
<1>7. Numbered'
  BY <1>1, <1>2, <1>5, <1>6, ProcessFacts DEF Several, Numbered, P, WGTypeOK
<1> QED BY <1>2, <1>3, <1>4, <1>5, <1>7

(* The directory of all on the machine is there from now on.                *)
LEMMA CreateDirectoriesKeeps ==
  ASSUME WGInv, NEW p \in Processes, CreateDirectories(p)
  PROVE  WGInv'
<1>1. /\ stage[p] = "directory" /\ Go(p)
      /\ UNCHANGED <<machineOf, number, head, count, id, failed>>
  BY DEF CreateDirectories
<1>2. P(p) = 3 /\ WGTypeOK /\ Together
  BY <1>1, PlaceValues DEF P, WGInv
<1>3. /\ Processes' = Processes /\ Processes # {0} /\ Several
      /\ stage' \in [Processes -> StageNames]
      /\ Place(stage'[p]) = Place(stage[p]) + 1
      /\ \A q \in Processes \ {p} : stage'[q] = stage[q]
      /\ \A q \in Processes : Place(stage[q]) \in 1 .. 15
      /\ \A q : /\ Chief(q)' = Chief(q) /\ Local(q)' = Local(q)
                /\ Directory(q)' = Directory(q)
      /\ Together' /\ HeadsKnown' /\ Told' /\ Numbered'
  BY <1>1, <1>2, GoKeepsOthers
<1>4. /\ DOMAIN tmp' = DOMAIN tmp \union {Directory(p)}
      /\ \A d \in DOMAIN tmp : tmp'[d] = tmp[d]
      /\ tmp' \in [DOMAIN tmp' -> SUBSET Nat]
  BY <1>2 DEF CreateDirectories, WGTypeOK
<1>5. WGTypeOK'
  BY <1>1, <1>2, <1>3, <1>4 DEF WGTypeOK
<1>6. ASSUME NEW q \in Processes PROVE DirectoryOf(q)'
  <2>1. Chief(q) \in Processes /\ ~(Place(stage[Chief(q)]) > 10)
    BY <1>2, NobodyRemoves DEF P
  <2>2. ~(Place(stage'[Chief(q)]) > 10)
    BY <1>2, <1>3, <2>1 DEF P
  <2>3. {r \in Local(q) : Place(stage'[r]) > 6}
          = {r \in Local(q) : Place(stage[r]) > 6}
    BY <1>2, <1>3 DEF Local, P
  <2>4. DirectoryOf(q)
    BY <1>3 DEF Several
  <2>5. Place(stage[q]) > 3 => Directory(q) \in DOMAIN tmp
    BY <2>1, <2>4 DEF DirectoryOf, P
  <2>6. Place(stage'[q]) > 3 => Directory(q) \in DOMAIN tmp'
    BY <1>3, <1>4, <2>5
  <2>7. Place(stage'[q]) > 4 => Place(stage[q]) > 4
    BY <1>2, <1>3 DEF P
  <2>8. Place(stage'[q]) > 4 =>
          tmp'[Directory(q)] = {r \in Local(q) : Place(stage'[r]) > 6}
    BY <1>3, <1>4, <2>1, <2>3, <2>4, <2>5, <2>7 DEF DirectoryOf, P
  <2> QED BY <1>3, <2>2, <2>6, <2>8 DEF DirectoryOf, P
<1> QED BY <1>3, <1>5, <1>6 DEF WGInv, Several

(* A process that goes on has found the directory empty, and nobody has     *)
(* created an entry.                                                        *)
LEMMA EnsureEmptyKeeps ==
  ASSUME WGInv, NEW p \in Processes, EnsureEmpty(p)
  PROVE  WGInv'
<1>1. CASE Fails
  BY <1>1, StayingKeeps DEF Fails
<1>2. CASE /\ tmp[Directory(p)] = {} /\ Go(p)
           /\ UNCHANGED <<machineOf, number, tmp, head, count, id, failed>>
  <2>1. stage[p] = "empty" /\ P(p) = 4 /\ WGTypeOK /\ Together
    BY PlaceValues DEF EnsureEmpty, P, WGInv
  <2>2. /\ Processes' = Processes /\ Processes # {0} /\ Several
        /\ stage' \in [Processes -> StageNames]
        /\ Place(stage'[p]) = Place(stage[p]) + 1
        /\ \A q \in Processes \ {p} : stage'[q] = stage[q]
        /\ \A q \in Processes : Place(stage[q]) \in 1 .. 15
        /\ \A q : /\ Chief(q)' = Chief(q) /\ Local(q)' = Local(q)
                  /\ Directory(q)' = Directory(q)
        /\ Together' /\ HeadsKnown' /\ Told' /\ Numbered'
    BY <1>2, <2>1, GoKeepsOthers
  <2>3. WGTypeOK'
    BY <1>2, <2>1, <2>2 DEF WGTypeOK
  <2>4. \A r \in Processes : ~(Place(stage[r]) > 6)
    BY <2>1, NobodyRemoves DEF P
  <2>5. ASSUME NEW q \in Processes PROVE DirectoryOf(q)'
    <3>1. Chief(q) \in Processes /\ ~(Place(stage[Chief(q)]) > 10)
      BY <2>1, NobodyRemoves DEF P
    <3>2. ~(Place(stage'[Chief(q)]) > 10)
      BY <2>1, <2>2, <3>1 DEF P
    <3>3. {r \in Local(q) : Place(stage'[r]) > 6} = {}
      BY <2>1, <2>2, <2>4 DEF Local, P
    <3>4. {r \in Local(q) : Place(stage[r]) > 6} = {}
      BY <2>4 DEF Local
    <3>5. /\ Place(stage[q]) > 3 => Directory(q) \in DOMAIN tmp
          /\ Place(stage[q]) > 4 => tmp[Directory(q)] = {}
      BY <2>2, <3>1, <3>4 DEF DirectoryOf, P, Several
    <3>6. /\ Place(stage'[q]) > 3 => Directory(q) \in DOMAIN tmp
          /\ Place(stage'[q]) > 4 => tmp[Directory(q)] = {}
      BY <1>2, <2>1, <2>2, <3>5 DEF P
    <3> QED BY <1>2, <2>2, <3>2, <3>3, <3>6 DEF DirectoryOf, P
  <2> QED BY <2>2, <2>3, <2>5 DEF WGInv, Several
<1> QED BY <1>1, <1>2 DEF EnsureEmpty

(* The entry is new, the directory is there, and now has one entry more.    *)
LEMMA CreateEntryKeeps ==
  ASSUME WGInv, NEW p \in Processes, CreateEntry(p)
  PROVE  WGInv' /\ failed' = failed
<1>1. stage[p] = "entry" /\ P(p) = 6 /\ WGTypeOK /\ Together
  BY PlaceValues DEF CreateEntry, P, WGInv
<1>2. Processes # {0} /\ Several
  BY <1>1, NotAlone
<1>3. \A q \in Processes : /\ ~(P(Chief(q)) > 10) /\ P(q) > 4
                            /\ Chief(q) \in Processes
  BY <1>1, NobodyRemoves
<1>4. \A q \in Processes :
        /\ P(q) > 2 /\ P(q) > 3 /\ Directory(q) \in DOMAIN tmp
        /\ tmp[Directory(q)] = {r \in Local(q) : P(r) > 6}
  <2>1. \A q \in Processes : P(q) \in Int
    BY <1>1, PlaceOfStage DEF P, WGTypeOK
  <2> QED BY <1>2, <1>3, <2>1 DEF Several, DirectoryOf
<1>5. /\ tmp' = [tmp EXCEPT ![Directory(p)] = @ \union {p}] /\ Go(p)
      /\ UNCHANGED <<machineOf, number, head, count, id, failed>>
  BY <1>1, <1>4 DEF CreateEntry
<1>6. /\ Processes' = Processes
      /\ stage' \in [Processes -> StageNames]
      /\ Place(stage'[p]) = Place(stage[p]) + 1
      /\ \A q \in Processes \ {p} : stage'[q] = stage[q]
      /\ \A q \in Processes : Place(stage[q]) \in 1 .. 15
      /\ \A q : /\ Chief(q)' = Chief(q) /\ Local(q)' = Local(q)
                /\ Directory(q)' = Directory(q)
      /\ Together' /\ HeadsKnown' /\ Told' /\ Numbered'
  BY <1>1, <1>5, GoKeepsOthers
<1>7. /\ DOMAIN tmp' = DOMAIN tmp
      /\ tmp'[Directory(p)] = tmp[Directory(p)] \union {p}
      /\ \A d \in DOMAIN tmp \ {Directory(p)} : tmp'[d] = tmp[d]
      /\ tmp' \in [DOMAIN tmp' -> SUBSET Nat]
  <2>1. p \in Nat
    BY <1>1, ProcessFacts DEF WGTypeOK
  <2> QED BY <1>1, <1>4, <1>5, <2>1 DEF WGTypeOK
<1>8. WGTypeOK'
  BY <1>1, <1>5, <1>6, <1>7 DEF WGTypeOK
<1>9. ASSUME NEW q \in Processes PROVE DirectoryOf(q)'
  <2>1. ~(Place(stage'[Chief(q)]) > 10)
    BY <1>1, <1>3, <1>6 DEF P
  <2>2. CASE machineOf[q] = machineOf[p]
    <3>1. Local(q) = Local(p) /\ p \in Local(p)
      BY <1>1, <2>2, ChiefFacts DEF WGTypeOK
    <3>2. number[q] = number[p]
      BY <1>2, <1>4, <1>1 DEF Several, Numbered
    <3>3. Directory(q) = Directory(p)
      BY <2>2, <3>2 DEF Directory
    <3>4. {r \in Local(p) : Place(stage'[r]) > 6}
            = {r \in Local(p) : Place(stage[r]) > 6} \union {p}
      BY <1>1, <1>6, <3>1 DEF Local, P
    <3>5. tmp'[Directory(q)] = {r \in Local(q) : Place(stage'[r]) > 6}
      BY <1>4, <1>7, <3>1, <3>3, <3>4 DEF P
    <3> QED BY <1>4, <1>6, <1>7, <2>1, <3>5 DEF DirectoryOf, P
  <2>3. CASE machineOf[q] # machineOf[p]
    <3>1. Directory(q) # Directory(p)
      BY <2>3 DEF Directory
    <3>2. {r \in Local(q) : Place(stage'[r]) > 6}
            = {r \in Local(q) : Place(stage[r]) > 6}
      BY <1>6, <2>3 DEF Local
    <3>3. tmp'[Directory(q)] = {r \in Local(q) : Place(stage'[r]) > 6}
      BY <1>4, <1>7, <3>1, <3>2 DEF P
    <3> QED BY <1>4, <1>6, <1>7, <2>1, <3>3 DEF DirectoryOf, P
  <2> QED BY <2>2, <2>3
<1> QED BY <1>2, <1>5, <1>6, <1>8, <1>9 DEF WGInv, Several
(* All entries of the machine are there, and the head is the smallest.      *)
LEMMA FindHeadKeeps ==
  ASSUME WGInv, NEW p \in Processes, FindHead(p)
  PROVE  WGInv' /\ failed' = failed
<1>1. stage[p] = "head" /\ P(p) = 8 /\ WGTypeOK /\ Together
  BY PlaceValues DEF FindHead, P, WGInv
<1>2. Processes # {0} /\ Several
  BY <1>1, NotAlone
<1>3. \A q \in Processes : P(q) \in 1 .. 15
  BY <1>1, PlaceOfStage DEF P, WGTypeOK
<1>4. \A q \in Processes : P(q) > 6 /\ ~(P(Chief(q)) > 10)
  BY <1>1, NobodyRemoves
<1>5. Directory(p) \in DOMAIN tmp /\ tmp[Directory(p)] = Local(p)
  <2>1. {q \in Local(p) : P(q) > 6} = Local(p)
    BY <1>4 DEF Local
  <2> QED BY <1>1, <1>2, <1>4, <2>1 DEF Several, DirectoryOf
<1>6. p \in Local(p) /\ Min(Local(p)) = Chief(p) /\ Chief(p) \in Processes
  BY <1>1, ChiefFacts DEF WGTypeOK, Chief
<1>7. /\ head' = [head EXCEPT ![p] = Chief(p)] /\ Go(p)
      /\ UNCHANGED <<machineOf, number, tmp, count, id, failed>>
  <2>1. tmp[Directory(p)] # {} /\ Min(tmp[Directory(p)]) = Chief(p)
    BY <1>5, <1>6
  <2> QED BY <1>5, <1>6, <2>1 DEF FindHead
<1>8. Processes' = Processes /\ \A q : Chief(q)' = Chief(q)
  BY <1>7, SameMachines
<1>9. /\ stage' \in [Processes -> StageNames]
      /\ Place(stage'[p]) = Place(stage[p]) + 1
      /\ \A q \in Processes \ {p} : stage'[q] = stage[q]
  BY <1>1, <1>7, GoMoves
<1>10. /\ head'[p] = Chief(p)
       /\ \A q \in Processes \ {p} : head'[q] = head[q]
  BY <1>1, <1>7 DEF WGTypeOK
<1>11. WGTypeOK'
  BY <1>1, <1>6, <1>7, <1>8, <1>9 DEF WGTypeOK
<1>12. Together'
  BY <1>1, <1>7, GoKeepsTogether DEF Meetings
<1>13. HeadsKnown'
  BY <1>8, <1>9, <1>10 DEF HeadsKnown, P, WGInv
<1>14. Told'
  <2>1. \A q \in Processes : ~(P(q) > 13)
    BY <1>1, <1>3 DEF Together, Meetings
  <2>2. \A q \in Processes : ~(Place(stage'[q]) > 14)
    BY <1>1, <1>3, <1>9, <2>1 DEF P
  <2> QED BY <1>8, <2>2 DEF Told, P
<1>15. Several'
  BY <1>1, <1>2, <1>7, GoKeepsSeveral
<1> QED BY <1>2, <1>7, <1>8, <1>11, <1>12, <1>13, <1>14, <1>15 DEF WGInv

(* The head, and nobody else, removes the directory of its machine, when    *)
(* all on it have seen what is in it.                                       *)
LEMMA RemoveAllKeeps ==
  ASSUME WGInv, NEW p \in Processes, RemoveAll(p)
  PROVE  WGInv'
<1>1. /\ stage[p] = "remove" /\ Go(p)
      /\ UNCHANGED <<machineOf, number, head, count, id, failed>>
  BY DEF RemoveAll
<1>2. P(p) = 10 /\ WGTypeOK /\ Together /\ HeadsKnown
  BY <1>1, PlaceValues DEF P, WGInv
<1>3. /\ Processes' = Processes /\ Processes # {0} /\ Several
      /\ stage' \in [Processes -> StageNames]
      /\ Place(stage'[p]) = Place(stage[p]) + 1
      /\ \A q \in Processes \ {p} : stage'[q] = stage[q]
      /\ \A q \in Processes : Place(stage[q]) \in 1 .. 15
      /\ \A q : /\ Chief(q)' = Chief(q) /\ Local(q)' = Local(q)
                /\ Directory(q)' = Directory(q)
      /\ Together' /\ HeadsKnown' /\ Told' /\ Numbered'
  BY <1>1, <1>2, GoKeepsOthers
<1>4. \A q \in Processes : P(q) > 8 /\ P(q) > 2
  BY <1>2, <1>3, NobodyRemoves DEF P
<1>5. head[p] = Chief(p)
  BY <1>4, <1>2 DEF HeadsKnown
<1>6. /\ DOMAIN tmp' = IF Chief(p) = p THEN DOMAIN tmp \ {Directory(p)}
                                       ELSE DOMAIN tmp
      /\ \A d \in DOMAIN tmp' : tmp'[d] = tmp[d]
      /\ tmp' \in [DOMAIN tmp' -> SUBSET Nat]
  BY <1>2, <1>5 DEF RemoveAll, IsWorkgroupHead, WGTypeOK
<1>7. WGTypeOK'
  BY <1>1, <1>2, <1>3, <1>6 DEF WGTypeOK
<1>8. ASSUME NEW q \in Processes PROVE DirectoryOf(q)'
  <2>1. /\ Chief(q) \in Processes /\ machineOf[Chief(q)] = machineOf[q]
        /\ Chief(Chief(q)) = Chief(q)
    BY <1>2, ChiefFacts DEF WGTypeOK
  <2>2. {r \in Local(q) : Place(stage'[r]) > 6}
          = {r \in Local(q) : Place(stage[r]) > 6}
    BY <1>2, <1>3 DEF Local, P
  <2>3. DirectoryOf(q)
    BY <1>3 DEF Several
  <2>4. CASE Chief(q) = p
    <3>1. Chief(p) = p /\ machineOf[q] = machineOf[p]
      BY <2>1, <2>4
    <3>2. number[q] = number[p]
      BY <1>3, <1>4 DEF Several, Numbered
    <3>3. Directory(q) = Directory(p)
      BY <3>1, <3>2 DEF Directory
    <3>4. Place(stage'[Chief(q)]) > 10
      BY <1>2, <1>3, <2>4 DEF P
    <3> QED BY <1>3, <1>6, <3>1, <3>3, <3>4 DEF DirectoryOf, P
  <2>5. CASE Chief(q) # p
    <3>1. Chief(p) = p => machineOf[q] # machineOf[p]
      BY <1>2, <2>1, <2>5, ChiefFacts DEF WGTypeOK
    <3>2. Chief(p) = p => Directory(q) # Directory(p)
      BY <3>1 DEF Directory
    <3>3. (Directory(q) \in DOMAIN tmp') <=> (Directory(q) \in DOMAIN tmp)
      BY <1>6, <3>2
    <3>4. Directory(q) \in DOMAIN tmp => tmp'[Directory(q)] = tmp[Directory(q)]
      BY <1>6, <3>3
    <3>5. stage'[Chief(q)] = stage[Chief(q)]
      BY <1>3, <2>1, <2>5
    <3>6. P(q) > 3 /\ P(q) > 4
      BY <1>3, <1>4 DEF P
    <3> QED BY <1>3, <2>2, <2>3, <3>3, <3>4, <3>5, <3>6 DEF DirectoryOf, P
  <2> QED BY <2>4, <2>5
<1> QED BY <1>3, <1>7, <1>8 DEF WGInv, Several

(* The communicators                                                        *)

(* When all know their heads, a workgroup is a machine.                     *)
LEMMA WorkgroupFacts ==
  ASSUME WGTypeOK, HeadsKnown, \A q \in Processes : P(q) > 8,
         NEW p \in Processes
  PROVE  /\ \A q \in Processes : head[q] = Chief(q)
         /\ Workgroup(p) = Local(p)
         /\ Min(Workgroup(p)) = head[p] /\ head[p] \in Processes
         /\ head[head[p]] = head[p] /\ head[p] \in Leaders
         /\ head[0] = 0
         /\ IsFiniteSet(Leaders) /\ Cardinality(Leaders) \in Nat
         /\ \A h : Cardinality({q \in Leaders : q < h}) \in Nat
<1>1. \A q \in Processes : head[q] = Chief(q)
  BY DEF HeadsKnown
<1>2. \A q \in Processes :
        /\ Chief(q) \in Processes /\ machineOf[Chief(q)] = machineOf[q]
        /\ Chief(Chief(q)) = Chief(q) /\ Chief(0) = 0
  BY ChiefFacts DEF WGTypeOK
<1>3. Workgroup(p) = Local(p)
  <2>1. \A q \in Processes : Chief(q) = Chief(p) <=> machineOf[q] = machineOf[p]
    BY <1>2, ChiefFacts DEF WGTypeOK
  <2> QED BY <1>1, <2>1 DEF Workgroup, Local
<1>4. Min(Workgroup(p)) = head[p]
  BY <1>1, <1>3 DEF Chief
<1>5. 0 \in Processes
  BY ProcessFacts DEF WGTypeOK
<1>6. head[p] \in Leaders
  BY <1>1, <1>2 DEF Leaders, IsWorkgroupHead
<1>7. IsFiniteSet(Leaders) /\ Cardinality(Leaders) \in Nat
  BY ProcessFacts, FS_Subset, FS_CardinalityType DEF WGTypeOK, Leaders
<1>8. \A h : Cardinality({q \in Leaders : q < h}) \in Nat
  BY <1>7, FS_Subset, FS_CardinalityType
<1> QED BY <1>1, <1>2, <1>3, <1>4, <1>5, <1>6, <1>7, <1>8

(* A head tells what it knows from the communicator of the heads, the       *)
(* others hear it from their head.                                          *)
LEMMA ShareKeeps ==
  ASSUME WGInv, NEW p \in Processes, ShareWorkgroupId(p)
  PROVE  WGInv' /\ failed' = FALSE
<1>1. stage[p] = "share" /\ P(p) = 14 /\ WGTypeOK /\ Together /\ HeadsKnown
  BY PlaceValues DEF ShareWorkgroupId, P, WGInv
<1>2. Go(p) /\ UNCHANGED <<machineOf, number, tmp, head>>
  BY DEF ShareWorkgroupId
<1>3. Processes # {0} /\ Several
  BY <1>1, NotAlone
<1>4. \A q \in Processes : P(q) \in 1 .. 15
  BY <1>1, PlaceOfStage DEF P, WGTypeOK
<1>5. \A q \in Processes : P(q) > 8
  BY <1>1, <1>4 DEF Together, Meetings
<1>6. /\ Min(Workgroup(p)) = head[p] /\ head[p] \in Processes
      /\ head[head[p]] = head[p]
      /\ head[0] = 0
      /\ Cardinality(Leaders) \in Nat
      /\ \A h : Cardinality({q \in Leaders : q < h}) \in Nat
  BY <1>1, <1>5, WorkgroupFacts
<1>7. failed' = FALSE
  BY <1>6 DEF ShareWorkgroupId, IsWorkgroupHead
<1>8. /\ count' = [count EXCEPT ![p] = Cardinality(Leaders)]
      /\ id' = [id EXCEPT ![p] = Cardinality({q \in Leaders : q < head[p]})]
  <2>1. CASE p = head[p]
    BY <1>6, <2>1 DEF ShareWorkgroupId, WorkgroupId
  <2>2. CASE p # head[p]
    <3>1. /\ count' = [count EXCEPT ![p] = count[head[p]]]
          /\ id' = [id EXCEPT ![p] = id[head[p]]]
          /\ P(head[p]) > 14
      BY <1>6, <2>2, PlaceValues DEF ShareWorkgroupId, Passed, P
    <3>2. /\ count[head[p]] = Cardinality(Leaders)
          /\ id[head[p]] = Cardinality({q \in Leaders : q < head[p]})
      BY <1>6, <3>1 DEF WGInv, Told
    <3> QED BY <3>1, <3>2
  <2> QED BY <2>1, <2>2
<1>9. Processes' = Processes /\ Leaders' = Leaders
  BY <1>2, SameMachines DEF Leaders, IsWorkgroupHead
<1>10. /\ stage' \in [Processes -> StageNames]
       /\ \A q \in Processes \ {p} : stage'[q] = stage[q]
  BY <1>1, <1>2, GoMoves
<1>11. WGTypeOK'
  BY <1>1, <1>2, <1>6, <1>7, <1>8, <1>9, <1>10 DEF WGTypeOK
<1>12. Together'
  BY <1>1, <1>2, GoKeepsTogether DEF Meetings
<1>13. HeadsKnown'
  BY <1>1, <1>2, GoKeepsHeads
<1>14. Told'
  <2>1. ASSUME NEW q \in Processes, Place(stage'[q]) > 14
        PROVE  /\ count'[q] = Cardinality(Leaders)
               /\ id'[q] = Cardinality({r \in Leaders : r < head[q]})
    <3>1. CASE q = p
      BY <1>1, <1>8, <3>1 DEF WGTypeOK
    <3>2. CASE q # p
      BY <1>1, <1>8, <1>10, <2>1, <3>2 DEF WGTypeOK, WGInv, Told, P
    <3> QED BY <3>1, <3>2
  <2> QED BY <1>2, <1>9, <2>1 DEF Told, P
<1>15. Several'
  BY <1>1, <1>2, <1>3, GoKeepsSeveral
<1> QED BY <1>3, <1>7, <1>9, <1>11, <1>12, <1>13, <1>14, <1>15 DEF WGInv

(* Every step keeps the invariant.                                          *)
LEMMA WGNextKeeps ==
  ASSUME WGInv, NEW p \in Processes, WGNext(p)
  PROVE  WGInv'
BY MeetingKeeps, BeAloneKeeps, BuildTmpDirPathKeeps, CreateDirectoriesKeeps,
   EnsureEmptyKeeps, CreateEntryKeeps, FindHeadKeeps, RemoveAllKeeps, ShareKeeps
   DEF WGNext
-----------------------------------------------------------------------------
(* Runs                                                                    *)

(* A run that has just begun; only the directories may be there already.    *)
RunStarts ==
  /\ machineOf \in Placements
  /\ stage = [p \in Processes |-> "configured"]
  /\ number = [p \in Processes |-> 0]
  /\ head = [p \in Processes |-> -1]
  /\ count = [p \in Processes |-> 0]
  /\ id = [p \in Processes |-> -1]
  /\ failed = FALSE
  /\ tmp \in [DOMAIN tmp -> SUBSET Nat]

(* The invariant does not depend on what earlier runs have left.            *)
LEMMA RunStartsInv == RunStarts => WGInv
<1> SUFFICES ASSUME RunStarts PROVE WGInv
  OBVIOUS
<1>1. "configured" \in StageNames
  <2>1. Stages[1] = "configured"
    BY DEF Stages
  <2> QED BY <2>1 DEF StageNames
<1>2. WGTypeOK
  BY <1>1 DEF WGTypeOK, RunStarts
<1>3. \A q \in Processes : P(q) = 1
  BY PlaceValues DEF P, RunStarts
<1>4. 0 \in Processes /\ \A q \in Processes : Chief(q) \in Processes
  BY <1>2, ProcessFacts, ChiefFacts DEF WGTypeOK
<1>5. Together
  BY <1>3 DEF Together, Meetings
<1>6. HeadsKnown /\ Told
  BY <1>3 DEF HeadsKnown, Told
<1>7. Several
  BY <1>3, <1>4 DEF Several, Numbered, DirectoryOf
<1> QED BY <1>2, <1>3, <1>4, <1>5, <1>6, <1>7 DEF WGInv

(* The entries are those of this run.                                       *)
Clean == \A d \in DOMAIN tmp : \A q \in tmp[d] : q \in Processes /\ P(q) > 6

(* No assert fails among entries of the run itself.                         *)
LEMMA CleanKeeps ==
  ASSUME WGInv, Clean, ~failed, NEW p \in Processes, WGNext(p)
  PROVE  Clean' /\ ~failed'
<1>1. WGTypeOK /\ Together /\ \A q \in Processes : Place(stage[q]) \in 1 .. 15
  BY PlaceOfStage DEF WGInv, WGTypeOK
<1>2. ASSUME NEW q \in Processes, machineOf' = machineOf, Go(p),
             stage[p] # "seed", P(q) > 6
      PROVE  Place(stage'[q]) > 6
  BY <1>1, <1>2, GoMoves DEF P
<1>3. ASSUME machineOf' = machineOf, Go(p), stage[p] # "seed",
             DOMAIN tmp' \subseteq DOMAIN tmp,
             \A d \in DOMAIN tmp' : tmp'[d] = tmp[d]
      PROVE  Clean'
  BY <1>2, <1>3, SameMachines DEF Clean, P
<1>4. CASE Barrier(p) \/ Split(p) \/ BuildTmpDirPath(p)
  BY <1>3, <1>4 DEF Barrier, Split, BuildTmpDirPath
<1>5. CASE BeAlone(p)
  <2>1. Processes' = Processes /\ stage' = [stage EXCEPT ![p] = "seed"]
    BY <1>5, SameMachines DEF BeAlone
  <2>2. \A q \in Processes : P(q) > 6 => Place(stage'[q]) > 6
    BY <1>1, <2>1, PlaceValues DEF P, WGTypeOK
  <2> QED BY <1>5, <2>1, <2>2 DEF BeAlone, Clean, P
<1>6. CASE CreateDirectories(p)
  <2>1. /\ Processes' = Processes /\ Go(p) /\ stage[p] # "seed"
        /\ machineOf' = machineOf /\ failed' = failed
    BY <1>6, SameMachines DEF CreateDirectories
  <2>2. \A d \in DOMAIN tmp' : tmp'[d] = {} \/ (d \in DOMAIN tmp /\ tmp'[d] = tmp[d])
    BY <1>6 DEF CreateDirectories
  <2>3. Clean'
    BY <1>2, <2>1, <2>2 DEF Clean, P
  <2> QED BY <2>1, <2>3
<1>7. CASE EnsureEmpty(p)
  <2>1. P(p) = 4 /\ stage[p] = "empty"
    BY <1>7, PlaceValues DEF EnsureEmpty, P
  <2>2. Several
    BY <2>1, NotAlone
  <2>3. ~(P(Chief(p)) > 10) /\ \A q \in Processes : ~(P(q) > 6)
    BY <1>1, <2>1, NobodyRemoves
  <2>4. Directory(p) \in DOMAIN tmp
    BY <2>1, <2>2, <2>3 DEF Several, DirectoryOf
  <2>5. tmp[Directory(p)] = {}
    BY <2>3, <2>4 DEF Clean
  <2>6. Go(p) /\ UNCHANGED <<machineOf, number, tmp, head, count, id, failed>>
    BY <1>7, <2>5 DEF EnsureEmpty
  <2> QED BY <1>3, <2>1, <2>6
<1>8. CASE CreateEntry(p)
  <2>1. failed' = failed /\ stage[p] = "entry" /\ P(p) = 6
    BY <1>8, CreateEntryKeeps, PlaceValues DEF CreateEntry, P
  <2>2. /\ tmp' = [tmp EXCEPT ![Directory(p)] = @ \union {p}] /\ Go(p)
        /\ machineOf' = machineOf
    BY <1>8, <2>1 DEF CreateEntry, Fails
  <2>3. Place(stage'[p]) > 6 /\ Processes' = Processes
    BY <1>1, <2>1, <2>2, GoMoves, SameMachines DEF P
  <2>4. \A d \in DOMAIN tmp' : d \in DOMAIN tmp /\ tmp'[d] \subseteq tmp[d] \union {p}
    BY <1>1, <2>2 DEF WGTypeOK
  <2>5. \A d \in DOMAIN tmp' : \A q \in tmp'[d] : q \in Processes /\ Place(stage'[q]) > 6
    BY <1>2, <2>1, <2>2, <2>3, <2>4 DEF Clean
  <2> QED BY <2>1, <2>3, <2>5 DEF Clean, P
<1>9. CASE FindHead(p)
  <2>1. failed' = failed
    BY <1>9, FindHeadKeeps
  <2>2. Go(p) /\ stage[p] = "head" /\ UNCHANGED <<machineOf, tmp>>
    BY <1>9, <2>1 DEF FindHead, Fails
  <2> QED BY <1>3, <2>1, <2>2
<1>10. CASE RemoveAll(p)
  <2>1. /\ DOMAIN tmp' \subseteq DOMAIN tmp
        /\ \A d \in DOMAIN tmp' : tmp'[d] = tmp[d]
    BY <1>10 DEF RemoveAll
  <2> QED BY <1>3, <1>10, <2>1 DEF RemoveAll
<1>11. CASE ShareWorkgroupId(p)
  <2>1. failed' = FALSE
    BY <1>11, ShareKeeps
  <2>2. Go(p) /\ stage[p] = "share" /\ UNCHANGED <<machineOf, tmp>>
    BY <1>11 DEF ShareWorkgroupId
  <2> QED BY <1>3, <2>1, <2>2
<1> QED BY <1>4, <1>5, <1>6, <1>7, <1>8, <1>9, <1>10, <1>11 DEF WGNext

-----------------------------------------------------------------------------
(* The workgroups                                                          *)

(* The rank among the heads grows with the head and is below their number.  *)
LEMMA RankGrows ==
  ASSUME IsFiniteSet(Leaders), Leaders \subseteq Nat,
         NEW h \in Leaders
  PROVE  /\ Cardinality({q \in Leaders : q < h}) \in 0 .. Cardinality(Leaders) - 1
         /\ \A k \in Leaders :
              h < k => Cardinality({q \in Leaders : q < h})
                         < Cardinality({q \in Leaders : q < k})
<1> DEFINE Below(k) == {q \in Leaders : q < k}
<1>1. \A k : Below(k) \subseteq Leaders /\ IsFiniteSet(Below(k))
  BY FS_Subset
<1>2. \A k : Cardinality(Below(k)) \in Nat
  BY <1>1, FS_CardinalityType
<1>3. Cardinality(Leaders) \in Nat
  BY FS_CardinalityType
<1>4. h \notin Below(h)
  OBVIOUS
<1>5. ASSUME NEW k \in Leaders, h < k
      PROVE  Below(h) \in SUBSET Below(k) /\ h \in Below(k)
  <2>1. \A q \in Leaders : q < h => q < k
    BY <1>5
  <2> QED BY <1>5, <2>1
<1> HIDE DEF Below
<1>6. Cardinality(Below(h)) < Cardinality(Leaders)
  <2>1. Below(h) \in SUBSET Leaders /\ Below(h) # Leaders
    BY <1>1, <1>4
  <2>2. /\ Cardinality(Below(h)) <= Cardinality(Leaders)
        /\ Cardinality(Below(h)) # Cardinality(Leaders)
    BY <2>1, FS_Subset
  <2> QED BY <1>2, <1>3, <2>2
<1>7. ASSUME NEW k \in Leaders, h < k
      PROVE  Cardinality(Below(h)) < Cardinality(Below(k))
  <2>1. Below(h) \in SUBSET Below(k) /\ Below(h) # Below(k)
    BY <1>4, <1>5, <1>7
  <2>2. /\ Cardinality(Below(h)) <= Cardinality(Below(k))
        /\ Cardinality(Below(h)) # Cardinality(Below(k))
    BY <1>1, <2>1, FS_Subset
  <2> QED BY <1>2, <2>2
<1>8. Cardinality(Below(h)) \in 0 .. Cardinality(Leaders) - 1
  BY <1>2, <1>3, <1>6
<1> USE DEF Below
<1> QED BY <1>7, <1>8

(* There are as many heads as machines.                                     *)
LEMMA HeadsAndMachines ==
  ASSUME WGTypeOK, HeadsKnown, \A q \in Processes : P(q) > 8
  PROVE  Cardinality(Leaders) = Cardinality({machineOf[q] : q \in Processes})
<1> DEFINE M == {machineOf[q] : q \in Processes}
           f == [h \in Leaders |-> machineOf[h]]
<1>1. \A q \in Processes : /\ head[q] = Chief(q) /\ head[q] \in Leaders
                            /\ machineOf[Chief(q)] = machineOf[q]
  BY WorkgroupFacts, ChiefFacts DEF WGTypeOK
<1>2. 0 \in Processes
  BY ProcessFacts DEF WGTypeOK
<1>3. IsFiniteSet(Leaders)
  BY <1>2, WorkgroupFacts
<1>4. Leaders \subseteq Processes /\ \A h \in Leaders : Chief(h) = h
  BY <1>1 DEF Leaders, IsWorkgroupHead
<1>5. f \in [Leaders -> M]
  BY <1>4
<1>6. \A h, k \in Leaders : machineOf[h] = machineOf[k] => h = k
  BY <1>4, ChiefFacts DEF WGTypeOK
<1>7. \A m \in M : \E h \in Leaders : machineOf[h] = m
  BY <1>1
<1>8. f \in Bijection(Leaders, M)
  BY <1>5, <1>6, <1>7 DEF Bijection, Injection, Surjection, IsInjective
<1>9. ExistsBijection(Leaders, M)
  BY <1>8 DEF ExistsBijection
<1> QED BY <1>3, <1>9, FS_Bijection

(* Whoever is constructed is in the workgroup of its machine.               *)
LEMMA InvFormsWorkgroups == WGInv => FormsWorkgroups
<1> SUFFICES ASSUME WGInv PROVE FormsWorkgroups
  OBVIOUS
<1>1. WGTypeOK /\ HeadsKnown /\ \A q \in Processes : P(q) \in 1 .. 15
  BY PlaceOfStage DEF WGInv, WGTypeOK, P
<1>2. \A q \in Processes : Constructed(q) => P(q) = 15
  BY PlaceValues DEF Constructed, P
<1>3. ASSUME NEW p \in Processes, Constructed(p)
      PROVE  /\ \A q \in Processes : P(q) >= 13 /\ P(q) > 8 /\ P(q) > 10
             /\ count[p] = Cardinality(Leaders)
             /\ id[p] = Cardinality({q \in Leaders : q < head[p]})
             /\ head[p] \in Leaders /\ head[p] = Chief(p)
             /\ Workgroup(p) = Local(p) /\ Min(Workgroup(p)) = head[p]
             /\ IsFiniteSet(Leaders) /\ Leaders \subseteq Nat
             /\ Cardinality(Leaders) = Cardinality({machineOf[q] : q \in Processes})
  <2>1. \A q \in Processes : P(q) >= 13 /\ P(q) > 8 /\ P(q) > 10
    BY <1>1, <1>2, <1>3 DEF WGInv, Together, Meetings
  <2>2. /\ count[p] = Cardinality(Leaders)
        /\ id[p] = Cardinality({q \in Leaders : q < head[p]})
    BY <1>2, <1>3 DEF WGInv, Told
  <2>3. Leaders \subseteq Nat
    BY <1>1, ProcessFacts DEF Leaders, WGTypeOK
  <2> QED BY <1>1, <2>1, <2>2, <2>3, WorkgroupFacts, HeadsAndMachines
<1>4. ASSUME NEW p \in Processes, NEW q \in Processes,
             Constructed(p), Constructed(q)
      PROVE  /\ (q \in Workgroup(p)) <=> (machineOf[p] = machineOf[q])
             /\ (id[p] = id[q]) <=> (machineOf[p] = machineOf[q])
             /\ id[p] < id[q] => head[p] < head[q]
  <2>1. /\ head[p] \in Leaders /\ head[q] \in Leaders /\ Leaders \subseteq Nat
        /\ IsFiniteSet(Leaders)
    BY <1>3, <1>4
  <2>2. /\ (q \in Workgroup(p)) <=> (machineOf[p] = machineOf[q])
        /\ (head[p] = head[q]) <=> (machineOf[p] = machineOf[q])
    <3>1. machineOf[head[p]] = machineOf[p] /\ machineOf[head[q]] = machineOf[q]
      BY <1>1, <1>3, <1>4, ChiefFacts DEF WGTypeOK
    <3>2. machineOf[p] = machineOf[q] => head[p] = head[q]
      BY <1>1, <1>3, <1>4, ChiefFacts DEF WGTypeOK
    <3>3. (q \in Workgroup(p)) <=> (machineOf[p] = machineOf[q])
      BY <1>3, <1>4 DEF Local
    <3> QED BY <3>1, <3>2, <3>3
  <2>3. /\ head[p] < head[q] => id[p] < id[q]
        /\ head[q] < head[p] => id[q] < id[p]
        /\ id[p] \in Int /\ id[q] \in Int
    <3>1. /\ head[p] < head[q] => Cardinality({r \in Leaders : r < head[p]})
                                   < Cardinality({r \in Leaders : r < head[q]})
          /\ Cardinality({r \in Leaders : r < head[p]})
               \in 0 .. Cardinality(Leaders) - 1
      BY <2>1, RankGrows
    <3>2. /\ head[q] < head[p] => Cardinality({r \in Leaders : r < head[q]})
                                   < Cardinality({r \in Leaders : r < head[p]})
          /\ Cardinality({r \in Leaders : r < head[q]})
               \in 0 .. Cardinality(Leaders) - 1
      BY <2>1, RankGrows
    <3>3. /\ id[p] = Cardinality({r \in Leaders : r < head[p]})
          /\ id[q] = Cardinality({r \in Leaders : r < head[q]})
      BY <1>3, <1>4
    <3> QED BY <3>1, <3>2, <3>3
  <2>4. head[p] \in Nat /\ head[q] \in Nat
    BY <2>1
  <2>5. head[p] = head[q] => id[p] = id[q]
    BY <1>3, <1>4
  <2> QED BY <2>2, <2>3, <2>4, <2>5
<1>5. ASSUME NEW p \in Processes, Constructed(p)
      PROVE  /\ head[p] = Min(Workgroup(p))
             /\ count[p] = Cardinality({machineOf[q] : q \in Processes})
             /\ id[p] \in 0 .. count[p] - 1
             /\ Processes # {0} => Directory(p) \notin DOMAIN tmp
  <2>1. id[p] \in 0 .. count[p] - 1
    BY <1>3, <1>5, RankGrows
  <2>2. Chief(p) \in Processes
    BY <1>1, ChiefFacts DEF WGTypeOK
  <2>3. Processes # {0} => Directory(p) \notin DOMAIN tmp
    BY <1>3, <1>5, <2>2 DEF WGInv, Several, DirectoryOf
  <2> QED BY <1>3, <1>5, <2>1, <2>3
<1> QED BY <1>4, <1>5 DEF FormsWorkgroups

-----------------------------------------------------------------------------
(* The runs                                                                *)

(* A process that has a seed has the one of the file, and but for process 0 *)
(* while it writes nobody has one before all of it is there.                *)
SeedKnown ==
  \A p \in Processes :
    globalSeed[p] # 0 =>
      /\ Constructed(p)
      /\ globalSeed[p] = seedFile.seed
      /\ Whole \/ (writing /\ p = 0)

SeedInv ==
  /\ seedFile \in [seed : Seeds \union {0}, parts : 0 .. FileParts]
  /\ globalSeed \in [Processes -> Seeds \union {0}]
  /\ SeedKnown
  /\ writing \in BOOLEAN
  /\ writing => globalSeed[0] # 0 /\ ~Whole
  /\ seedsUsed # {} => Whole /\ seedsUsed = {seedFile.seed}
  /\ runs = 1 /\ seedFile.parts # 0 => globalSeed[0] # 0

StartupInv ==
  /\ WGInv /\ IInv /\ SeedInv
  /\ numWorkgroups = Cardinality(Machines(machineOf))
  /\ runs \in Nat \ {0}
  /\ runs = 1 => Clean /\ ~failed

-----------------------------------------------------------------------------
(* Steps of one part leave the others alone                                *)

(* The set-up of the workgroups depends on its own variables only.          *)
LEMMA WGInvStays ==
  ASSUME WGInv, UNCHANGED wgVars
  PROVE  WGInv' /\ Processes' = Processes /\ (Clean => Clean')
         /\ \A p \in Processes : Constructed(p) => Constructed(p)'
<1>1. UNCHANGED <<machineOf, stage, number, tmp, head, count, id>> /\ failed' \in BOOLEAN
  BY DEF wgVars, WGInv, WGTypeOK
<1>2. WGInv'
  BY <1>1, StayingKeeps
<1>3. Processes' = Processes
  BY <1>1 DEF Processes
<1> QED BY <1>1, <1>2, <1>3 DEF Clean, P, Constructed

(* An assert that fails changes nothing else.                               *)
LEMMA FailsKeeps ==
  ASSUME WGInv, Fails
  PROVE  WGInv' /\ Processes' = Processes
         /\ \A p \in Processes : Constructed(p) => Constructed(p)'
BY StayingKeeps, SameMachines DEF Fails, Constructed

(* A process that is constructed stays so while the others go on.           *)
LEMMA ConstructedStays ==
  ASSUME WGInv, NEW p \in Processes, WGNext(p)
  PROVE  /\ machineOf' = machineOf /\ Processes' = Processes
         /\ \A q \in Processes : Constructed(q) => Constructed(q)'
<1>1. /\ machineOf' = machineOf /\ stage[p] # "seed"
      /\ \/ stage' = stage
         \/ Go(p)
         \/ stage' = [stage EXCEPT ![p] = "seed"]
  BY DEF WGNext, Barrier, BeAlone, BuildTmpDirPath, CreateDirectories,
         EnsureEmpty, CreateEntry, FindHead, RemoveAll, Split,
         ShareWorkgroupId, Fails
<1>2. stage \in [Processes -> StageNames]
  BY DEF WGInv, WGTypeOK
<1>3. \A q \in Processes \ {p} : stage'[q] = stage[q]
  BY <1>1, <1>2 DEF Go
<1> QED BY <1>1, <1>3, SameMachines DEF Constructed

(* A head that distributes its chains knows its place among the heads.      *)
LEMMA DistributesForItself ==
  ASSUME StartupInv, NEW p \in Processes, Distributes(p)
  PROVE  id[p] \in Workgroups
<1>1. Constructed(p)
  BY DEF StartupInv, SeedInv, SeedKnown, Distributes
<1>2. FormsWorkgroups
  BY InvFormsWorkgroups DEF StartupInv
<1>3. /\ id[p] \in 0 .. count[p] - 1
      /\ count[p] = Cardinality({machineOf[q] : q \in Processes})
  BY <1>1, <1>2 DEF FormsWorkgroups
<1>4. numWorkgroups = count[p]
  BY <1>3 DEF StartupInv, Machines, Processes
<1> QED BY <1>3, <1>4 DEF Workgroups

(* What is known about the seed outlasts a step of the set-up.              *)
LEMMA SeedInvStays ==
  ASSUME SeedInv, UNCHANGED seedVars, Processes' = Processes,
         \A p \in Processes : Constructed(p) => Constructed(p)'
  PROVE  SeedInv'
BY DEF SeedInv, SeedKnown, seedVars, Whole

(* No seed is 0, and a file without any part of a seed is not whole.        *)
LEMMA SeedFacts ==
  ASSUME SeedInv, 0 \in Processes
  PROVE  /\ 0 \notin Seeds /\ FileParts \in Nat \ {0}
         /\ seedFile.parts \in 0 .. FileParts
         /\ seedFile = [seed |-> seedFile.seed, parts |-> seedFile.parts]
         /\ seedFile.seed \in Seeds \union {0}
         /\ seedFile.parts = 0 => ~Whole
         /\ globalSeed[0] \in Seeds \union {0}
  BY StartupAssumption DEF SeedInv, Whole

-----------------------------------------------------------------------------
(* The steps that are about the seed                                       *)

(* Nobody has a seed when process 0 makes one.                              *)
LEMMA MakeSeedKeeps ==
  ASSUME SeedInv, 0 \in Processes, Processes' = Processes, MakeSeed,
         \A p \in Processes : Constructed(p) => Constructed(p)'
  PROVE  SeedInv'
<1>1. PICK s \in Seeds : /\ globalSeed' = [globalSeed EXCEPT ![0] = s]
                        /\ seedFile' = [seed |-> s, parts |-> 0]
  BY DEF MakeSeed
<1>2. /\ writing' = TRUE /\ seedFile.parts = 0 /\ globalSeed[0] = 0
      /\ seedsUsed' = seedsUsed /\ runs' = runs /\ Constructed(0)
  BY DEF MakeSeed
<1>3. ~Whole /\ seedsUsed = {} /\ \A p \in Processes : globalSeed[p] = 0
  BY <1>2, SeedFacts DEF SeedInv, SeedKnown
<1>4. /\ globalSeed' \in [Processes -> Seeds \union {0}]
      /\ globalSeed'[0] = s /\ \A p \in Processes \ {0} : globalSeed'[p] = 0
  BY <1>1, <1>3 DEF SeedInv
<1>5. /\ seedFile'.seed = s /\ seedFile'.parts = 0 /\ s # 0
      /\ seedFile' \in [seed : Seeds \union {0}, parts : 0 .. FileParts]
  BY <1>1, SeedFacts
<1>6. ~Whole'
  BY <1>5, SeedFacts DEF Whole
<1>7. SeedKnown'
  BY <1>2, <1>4, <1>5 DEF SeedKnown
<1> QED BY <1>2, <1>3, <1>4, <1>5, <1>6, <1>7 DEF SeedInv

(* While the file is written process 0 alone has a seed.                    *)
LEMMA WriteSeedKeeps ==
  ASSUME SeedInv, 0 \in Processes, Processes' = Processes, WriteSeed,
         \A p \in Processes : Constructed(p) => Constructed(p)'
  PROVE  SeedInv'
<1>1. /\ writing /\ seedFile' = [seedFile EXCEPT !.parts = @ + 1]
      /\ writing' = ~Whole' /\ globalSeed' = globalSeed
      /\ seedsUsed' = seedsUsed /\ runs' = runs
  BY DEF WriteSeed
<1>2. ~Whole /\ globalSeed[0] # 0 /\ seedsUsed = {}
  BY <1>1 DEF SeedInv
<1>3. /\ seedFile'.seed = seedFile.seed
      /\ seedFile'.parts = seedFile.parts + 1
      /\ seedFile' \in [seed : Seeds \union {0}, parts : 0 .. FileParts]
  BY <1>1, <1>2, SeedFacts DEF Whole
<1>4. SeedKnown'
  BY <1>1, <1>2, <1>3 DEF SeedInv, SeedKnown
<1> QED BY <1>1, <1>2, <1>3, <1>4 DEF SeedInv, Whole

(* A seed that is read is the one of the file, and the file is whole.       *)
LEMMA ReadSeedKeeps ==
  ASSUME SeedInv, 0 \in Processes, Processes' = Processes, ReadSeed,
         \A p \in Processes : Constructed(p) => Constructed(p)'
  PROVE  SeedInv' /\ runs # 1
<1>1. /\ Constructed(0) /\ globalSeed[0] = 0 /\ seedFile.parts # 0
      /\ UNCHANGED <<runs, seedFile, writing, seedsUsed>>
  BY DEF ReadSeed
<1>2. ~writing /\ runs # 1
  BY <1>1 DEF SeedInv
<1>3. CASE Whole
  <2>1. globalSeed' = [globalSeed EXCEPT ![0] = seedFile.seed]
    BY <1>3 DEF ReadSeed
  <2>2. globalSeed' \in [Processes -> Seeds \union {0}]
    BY <2>1, SeedFacts DEF SeedInv
  <2>3. SeedKnown'
    BY <1>1, <1>2, <1>3, <2>1 DEF SeedInv, SeedKnown, Whole
  <2> QED BY <1>1, <1>2, <1>3, <2>2, <2>3 DEF SeedInv, Whole
<1>4. CASE ~Whole
  <2>1. UNCHANGED seedVars
    BY <1>1, <1>4 DEF ReadSeed, seedVars
  <2> QED BY <1>2, <2>1, SeedInvStays
<1> QED BY <1>3, <1>4

(* The others have the seed of process 0, when it is in the file.           *)
LEMMA GetSeedKeeps ==
  ASSUME SeedInv, 0 \in Processes, Processes' = Processes,
         NEW p \in Processes, GetSeed(p),
         \A q \in Processes : Constructed(q) => Constructed(q)'
  PROVE  SeedInv'
<1>1. /\ globalSeed' = [globalSeed EXCEPT ![p] = globalSeed[0]]
      /\ UNCHANGED <<runs, seedFile, writing, seedsUsed>>
      /\ Constructed(p) /\ p # 0 /\ globalSeed[0] # 0 /\ ~writing
  BY DEF GetSeed
<1>2. Whole /\ globalSeed[0] = seedFile.seed
  BY <1>1 DEF SeedInv, SeedKnown
<1>3. globalSeed' \in [Processes -> Seeds \union {0}]
  BY <1>1, SeedFacts DEF SeedInv
<1>4. SeedKnown'
  BY <1>1, <1>2 DEF SeedInv, SeedKnown, Whole
<1> QED BY <1>1, <1>2, <1>3, <1>4 DEF SeedInv, Whole

(* Chains are started with the seed that is in the file.                    *)
LEMMA AddChainsKeeps ==
  ASSUME SeedInv, 0 \in Processes, Processes' = Processes,
         NEW p \in Processes, AddChains(p),
         \A q \in Processes : Constructed(q) => Constructed(q)'
  PROVE  SeedInv'
<1>1. /\ seedsUsed' = seedsUsed \union {globalSeed[p]}
      /\ UNCHANGED <<runs, seedFile, writing, globalSeed>>
      /\ globalSeed[p] # 0 /\ ~(p = 0 /\ writing)
  BY DEF AddChains, Distributes
<1>2. Whole /\ globalSeed[p] = seedFile.seed
  BY <1>1 DEF SeedInv, SeedKnown
<1>3. seedsUsed' = {seedFile.seed}
  BY <1>1, <1>2 DEF SeedInv
<1> QED BY <1>1, <1>2, <1>3 DEF SeedInv, SeedKnown, Whole

-----------------------------------------------------------------------------
(* The composition                                                         *)

(* A step that leaves the distribution alone keeps its invariant.           *)
LEMMA IInvStays == IInv /\ UNCHANGED vars => IInv'
BY NextKeepsIInv

(* What WGInit sets is what a run starts with.                              *)
LEMMA InitStarts ==
  ASSUME NEW placement \in Placements, WGInit(placement)
  PROVE  RunStarts
BY DEF WGInit, RunStarts, Processes

(* The first run finds nothing but an empty file.                           *)
LEMMA InitStartupInv == StartupInit => StartupInv
<1> SUFFICES ASSUME StartupInit PROVE StartupInv
  OBVIOUS
<1>1. WGInv
  BY InitStarts, RunStartsInv DEF StartupInit
<1>2. IInv
  BY InitIInv DEF StartupInit
<1>3. SeedInv
  <2>1. /\ seedFile = [seed |-> 0, parts |-> 0] /\ seedFile.parts = 0
        /\ globalSeed = [p \in Processes |-> 0]
        /\ writing = FALSE /\ seedsUsed = {}
    BY DEF StartupInit
  <2>2. seedFile \in [seed : Seeds \union {0}, parts : 0 .. FileParts]
    BY <2>1, StartupAssumption
  <2>3. SeedKnown
    BY <2>1 DEF SeedKnown
  <2> QED BY <2>1, <2>2, <2>3 DEF SeedInv
<1>4. Clean /\ ~failed
  BY DEF StartupInit, WGInit, Clean
<1> QED BY <1>1, <1>2, <1>3, <1>4 DEF StartupInit, StartupInv

(* The job is started again with whatever directories and file there are.   *)
LEMMA RestartKeeps ==
  ASSUME StartupInv, Restart
  PROVE  StartupInv'
<1>1. PICK placement \in Placements :
        /\ WGRestart(placement)
        /\ numWorkgroups' = Cardinality(Machines(placement))
        /\ globalSeed' = [p \in DOMAIN placement |-> 0]
  BY DEF Restart
<1>2. machineOf' = placement /\ Processes' = DOMAIN placement
  BY <1>1 DEF WGRestart, Processes
<1>3. tmp' = tmp /\ tmp \in [DOMAIN tmp -> SUBSET Nat]
  BY <1>1 DEF WGRestart, StartupInv, WGInv, WGTypeOK
<1>4. RunStarts'
  BY <1>1, <1>2, <1>3 DEF WGRestart, RunStarts
<1>5. WGInv'
  BY <1>4, RunStartsInv, PTL
<1>6. Cardinality(Machines(placement)) \in WorkgroupCounts
  BY StartupAssumption
<1>7. Init'
  BY <1>1, <1>6 DEF Restart, Init
<1>8. IInv'
  BY <1>7, InitIInv, PTL
<1>9. /\ runs' = runs + 1 /\ runs \in Nat \ {0} /\ writing' = FALSE
      /\ UNCHANGED <<seedFile, seedsUsed>>
  BY DEF Restart, StartupInv
<1>10. SeedInv'
  <2>1. SeedKnown'
    BY <1>1, <1>2 DEF SeedKnown
  <2>2. globalSeed' \in [Processes' -> Seeds \union {0}]
    BY <1>1, <1>2
  <2>3. runs' # 1 /\ writing' = FALSE
    BY <1>9
  <2>4. /\ seedFile' \in [seed : Seeds \union {0}, parts : 0 .. FileParts]
        /\ seedsUsed' # {} => Whole' /\ seedsUsed' = {seedFile'.seed}
    BY <1>9 DEF StartupInv, SeedInv, Whole
  <2> QED BY <2>1, <2>2, <2>3, <2>4 DEF SeedInv
<1> QED BY <1>1, <1>2, <1>5, <1>8, <1>9, <1>10 DEF StartupInv, Machines

(* A process goes on with the set-up, the seed or its chains.               *)
LEMMA ProceedKeeps ==
  ASSUME StartupInv, ~failed, NEW p \in Processes, Proceed(p)
  PROVE  StartupInv'
<1>1. 0 \in Processes
  BY ProcessFacts DEF StartupInv, WGInv, WGTypeOK
<1>2. ASSUME UNCHANGED wgVars
      PROVE  /\ WGInv' /\ Processes' = Processes /\ machineOf' = machineOf
             /\ Clean => Clean' /\ failed' = failed
             /\ \A q \in Processes : Constructed(q) => Constructed(q)'
  BY <1>2, WGInvStays DEF StartupInv, wgVars
<1>3. CASE WGNext(p) /\ UNCHANGED <<vars, seedVars>>
  <2>1. /\ machineOf' = machineOf /\ Processes' = Processes
        /\ \A q \in Processes : Constructed(q) => Constructed(q)'
    BY <1>3, ConstructedStays DEF StartupInv
  <2>2. WGInv'
    BY <1>3, WGNextKeeps DEF StartupInv
  <2>3. Clean => Clean' /\ ~failed'
    BY <1>3, CleanKeeps DEF StartupInv
  <2>4. SeedInv'
    BY <1>3, <2>1, SeedInvStays DEF StartupInv
  <2>5. IInv'
    BY <1>3, IInvStays DEF StartupInv
  <2>6. runs' = runs /\ numWorkgroups' = numWorkgroups
    BY <1>3 DEF seedVars, vars, config
  <2> QED BY <2>1, <2>2, <2>3, <2>4, <2>5, <2>6 DEF StartupInv
<1>4. CASE GetSeed(p)
  <2>1. UNCHANGED vars /\ UNCHANGED wgVars /\ runs' = runs
    BY <1>4 DEF GetSeed
  <2>2. SeedInv'
    BY <1>1, <1>2, <1>4, <2>1, GetSeedKeeps DEF StartupInv
  <2>3. IInv' /\ numWorkgroups' = numWorkgroups
    BY <2>1, IInvStays DEF StartupInv, vars, config
  <2> QED BY <1>2, <2>1, <2>2, <2>3 DEF StartupInv
<1>5. CASE SkipSeeds(p)
  <2>1. UNCHANGED wgVars /\ UNCHANGED seedVars /\ runs' = runs
    BY <1>5 DEF SkipSeeds, seedVars
  <2>2. id[p] \in Workgroups /\ SkipSeed(id[p])
    BY <1>5, DistributesForItself DEF SkipSeeds
  <2>3. IInv' /\ numWorkgroups' = numWorkgroups
    BY <2>2, SkipKeepsIInv DEF StartupInv, SkipSeed, config
  <2>4. SeedInv'
    BY <1>2, <2>1, SeedInvStays DEF StartupInv
  <2> QED BY <1>2, <2>1, <2>3, <2>4 DEF StartupInv
<1>6. CASE AddChains(p)
  <2>1. UNCHANGED wgVars /\ runs' = runs
    BY <1>6 DEF AddChains
  <2>2. id[p] \in Workgroups /\ AddNewMcChain(id[p])
    BY <1>6, DistributesForItself DEF AddChains
  <2>3. IInv' /\ numWorkgroups' = numWorkgroups
    BY <2>2, AddKeepsIInv DEF StartupInv, AddNewMcChain, config
  <2>4. SeedInv'
    BY <1>1, <1>2, <1>6, <2>1, AddChainsKeeps DEF StartupInv
  <2> QED BY <1>2, <2>1, <2>3, <2>4 DEF StartupInv
<1> QED BY <1>3, <1>4, <1>5, <1>6 DEF Proceed

(* Process 0 makes, writes or reads the seed.                               *)
LEMMA SeedStepKeeps ==
  ASSUME StartupInv, MakeSeed \/ WriteSeed \/ ReadSeed
  PROVE  StartupInv'
<1>1. 0 \in Processes
  BY ProcessFacts DEF StartupInv, WGInv, WGTypeOK
<1>2. UNCHANGED vars /\ runs' = runs
  BY DEF MakeSeed, WriteSeed, ReadSeed
<1>3. IInv' /\ numWorkgroups' = numWorkgroups
  BY <1>2, IInvStays DEF StartupInv, vars, config
<1>4. CASE UNCHANGED wgVars
  <2>1. /\ WGInv' /\ Processes' = Processes /\ machineOf' = machineOf
        /\ Clean => Clean' /\ failed' = failed
        /\ \A q \in Processes : Constructed(q) => Constructed(q)'
    BY <1>4, WGInvStays DEF StartupInv, wgVars
  <2>2. SeedInv'
    BY <1>1, <2>1, MakeSeedKeeps, WriteSeedKeeps, ReadSeedKeeps DEF StartupInv
  <2> QED BY <1>2, <1>3, <2>1, <2>2 DEF StartupInv
<1>5. CASE ReadSeed /\ Fails
  <2>1. /\ WGInv' /\ Processes' = Processes /\ machineOf' = machineOf
        /\ \A q \in Processes : Constructed(q) => Constructed(q)'
    BY <1>5, FailsKeeps DEF StartupInv, Fails
  <2>2. SeedInv' /\ runs # 1
    BY <1>1, <1>5, <2>1, ReadSeedKeeps DEF StartupInv
  <2> QED BY <1>2, <1>3, <2>1, <2>2 DEF StartupInv
<1> QED BY <1>4, <1>5 DEF MakeSeed, WriteSeed, ReadSeed

(* Every step keeps the invariant.                                          *)
LEMMA NextKeepsStartupInv == StartupInv /\ [StartupNext]_allVars => StartupInv'
<1> SUFFICES ASSUME StartupInv, [StartupNext]_allVars PROVE StartupInv'
  OBVIOUS
<1>1. CASE UNCHANGED allVars
  <2>1. UNCHANGED vars /\ UNCHANGED wgVars /\ UNCHANGED seedVars
    BY <1>1 DEF allVars
  <2>2. /\ WGInv' /\ Processes' = Processes /\ (Clean => Clean')
        /\ \A q \in Processes : Constructed(q) => Constructed(q)'
    BY <2>1, WGInvStays DEF StartupInv
  <2>3. SeedInv' /\ IInv'
    BY <2>1, <2>2, SeedInvStays, IInvStays DEF StartupInv
  <2> QED BY <2>1, <2>2, <2>3 DEF StartupInv, vars, config, wgVars, seedVars
<1>2. CASE MakeSeed \/ WriteSeed \/ ReadSeed
  BY <1>2, SeedStepKeeps
<1>3. ASSUME ~failed, NEW p \in Processes, Proceed(p) PROVE StartupInv'
  BY <1>3, ProceedKeeps
<1>4. CASE Restart
  BY <1>4, RestartKeeps
<1> QED BY <1>1, <1>2, <1>3, <1>4 DEF StartupNext, Started

(* The specification keeps the invariant.                                   *)
LEMMA StartupInvariant == StartupSpec => []StartupInv
BY InitStartupInv, NextKeepsStartupInv, PTL DEF StartupSpec

-----------------------------------------------------------------------------

(* However the processes interleave and whatever earlier runs have left,    *)
(* the processes that get through the constructor are in the workgroup of   *)
(* their machine, with its number and the number of all.                    *)
THEOREM WorkgroupsAreMachines == StartupSpec => []FormsWorkgroups
<1>1. StartupInv => FormsWorkgroups
  BY InvFormsWorkgroups DEF StartupInv
<1> QED BY <1>1, StartupInvariant, PTL

(* In a job that has not died before no assert of the start fails.          *)
THEOREM FirstRunDoesNotFail == StartupSpec => []FailsOnlyOnRemains
<1>1. StartupInv => FailsOnlyOnRemains
  BY DEF StartupInv, FailsOnlyOnRemains
<1> QED BY <1>1, StartupInvariant, PTL

(* All chains of all runs are drawn from one global seed, each with the     *)
(* seed of its id, and in each run each chain has one head.                 *)
THEOREM RunsAreRepeatable ==
  StartupSpec => [](SeedsAreRepeatable /\ OneHeadPerChain)
<1>1. ASSUME StartupInv PROVE SeedsAreRepeatable /\ OneHeadPerChain
  <2>1. SeedOfChain /\ OneHeadPerChain
    BY <1>1, IInvSeedOfChain, IInvNoChainTwice, IInvNoChainMissing
    DEF StartupInv, OneHeadPerChain
  <2>2. seedsUsed = {} \/ seedsUsed = {seedFile.seed}
    BY <1>1 DEF StartupInv, SeedInv
  <2>3. Cardinality(seedsUsed) <= 1
    BY <2>2, FS_EmptySet, FS_Singleton
  <2> QED BY <2>1, <2>3 DEF SeedsAreRepeatable
<1> QED BY <1>1, StartupInvariant, PTL
=============================================================================
