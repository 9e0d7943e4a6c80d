---------------------- MODULE MetropolisHastingsProofs ----------------------
(***************************************************************************)
(* For any number of chains, any target length, any numbers of values and  *)
(* iterations and any number of moves: the temporary files are those of    *)
(* the states in use, what the acceptance test counts was computed for the *)
(* two states it compares, no result is missed, and the chains go through  *)
(* the states of a sequential Metropolis-Hastings loop.                    *)
(***************************************************************************)
EXTENDS MetropolisHastings, FiniteSetTheorems, SequenceTheorems, TLAPS

-----------------------------------------------------------------------------
(* The invariant                                                           *)

(* The number of values asked for after that many requests. *)
Asked(iterations) == iterations * ValuesPerIteration

Value == [of : {<<>>} \union ((SUBSET (Chains \X Nat)) \X (Nat \X Nat)),
          finite : BOOLEAN]

SlotTyped(s) ==
  /\ DOMAIN s = {"file", "derived", "draws", "values", "iteration", "n",
                 "counted"}
  /\ s.file \in Nat /\ s.derived \in Nat /\ s.draws \in Nat
  /\ s.values \in Seq(Value) /\ s.iteration \in Nat
  /\ s.n \in Nat /\ s.counted \in Nat

ObjectTyped(m) ==
  /\ DOMAIN m = {"iteration", "cfg", "next", "prn", "lastPrn", "processing",
                 "slot", "z", "nextz", "newIndex", "first", "remaining"}
  /\ m.iteration \in 0 .. TargetLength
  /\ m.cfg \in Nat /\ m.next \in Nat /\ m.prn \in Nat /\ m.lastPrn \in Nat
  /\ m.z \in Nat /\ m.nextz \in Nat /\ m.remaining \in Nat
  /\ m.processing \in BOOLEAN /\ m.first \in BOOLEAN
  /\ m.newIndex \in Slots
  /\ DOMAIN m.slot = Slots
  /\ \A s \in Slots : SlotTyped(m.slot[s])

Computation == [chain : Chains, index : Slots, i : Nat, file : Nat,
                seed : Nat \X Nat]

Typed ==
  /\ DOMAIN mh = Chains
  /\ \A c \in Chains : ObjectTyped(mh[c])
  /\ underWay \subseteq Computation
  /\ moves \in Nat /\ notFinite \in Nat

(* Slot s of object m stands for a state in use, and for which one. *)
Trying(m) == m.processing /\ m.iteration < TargetLength
Used(m, s) ==
  /\ m.iteration < TargetLength
  /\ IF s = m.newIndex THEN m.processing ELSE ~m.first
StateOf(c, m, s) == <<c, IF s = m.newIndex THEN m.next ELSE m.cfg>>

(* What the values of a slot are counted from is there. *)
SlotOK(m, s) ==
  /\ m.slot[s].n <= m.slot[s].counted
  /\ m.slot[s].counted <= Len(m.slot[s].values)
  /\ Asked(m.slot[s].iteration) <= Len(m.slot[s].values)
  /\ Used(m, s) => m.slot[s].draws = 1 + Asked(m.slot[s].iteration)
  /\ Trying(m) => m.slot[s].counted <= Asked(New(m).iteration)

(* How far the chain is in its iteration, and what it has drawn. *)
StageOK(m) ==
  /\ m.first => m.next = m.cfg
  /\ ~m.first => m.iteration > 0
  /\ m.iteration = TargetLength => m.processing
  /\ m.first \/ ~Trying(m) => m.remaining = 0
  /\ Trying(m) => m.nextz = m.lastPrn /\ m.prn = m.lastPrn + 1
  /\ Trying(m) /\ ~m.first => New(m).iteration <= Old(m).iteration
  /\ ~m.processing /\ ~m.first =>
       m.nextz = m.lastPrn /\ m.next = m.lastPrn + 1 /\ m.prn = m.lastPrn + 2

ObjectOK(m) == StageOK(m) /\ \A s \in Slots : SlotOK(m, s)

(* The computations of a chain are about its two states, for values that    *)
(* were asked for.                                                          *)
CallOK(m, t) ==
  /\ Trying(m) /\ ~m.first
  /\ t.i \in 1 .. Asked(m.slot[t.index].iteration)
  /\ t.file = m.slot[t.index].file
  /\ t.seed = <<m.slot[t.index].derived, t.i + 1>>
CallsOf(c, W) == {t \in W : t.chain = c}
CallsOK(c, m, W) ==
  /\ IsFiniteSet(CallsOf(c, W))
  /\ m.remaining = Cardinality(CallsOf(c, W))
  /\ \A t \in CallsOf(c, W) : CallOK(m, t)

(* A value asked for is the one of the state, or still being computed. *)
ValueOK(c, m, s, i) ==
  m.slot[s].values[i].of =
    <<{StateOf(c, m, s)}, <<m.slot[s].derived, i + 1>>>>
Pending(c, s, i, W) == \E t \in CallsOf(c, W) : t.index = s /\ t.i = i
EvidenceOK(c, m, W) ==
  \A s \in Slots : Used(m, s) =>
    \A i \in 1 .. Asked(m.slot[s].iteration) :
      ValueOK(c, m, s, i) \/ Pending(c, s, i, W)

(* F are the files of the states in use of the chains M. *)
FileOK(c, m, s, F) ==
  IF Used(m, s)
  THEN m.slot[s].file \in DOMAIN F /\ F[m.slot[s].file] = StateOf(c, m, s)
  ELSE m.slot[s].file = NoFile
FilesOK(M, F) ==
  /\ \A c \in Chains, s \in Slots : FileOK(c, M[c], s, F)
  /\ \A c, d \in Chains : \A s, r \in Slots :
       /\ Used(M[c], s) /\ Used(M[d], r)
       /\ M[c].slot[s].file = M[d].slot[r].file
       => c = d /\ s = r
  /\ \A f \in DOMAIN F : \E c \in Chains, s \in Slots :
       Used(M[c], s) /\ M[c].slot[s].file = f

(* D are the ids in use, u the number handed out, q those given back.       *)
IdsOK(D, u, q) ==
  /\ u \in Nat /\ q \in Seq(Nat)
  /\ IsFiniteSet(D) /\ D \subseteq 1 .. u
  /\ \A f \in (1 .. u) \ D : \E i \in DOMAIN q : q[i] = f - 1
  /\ \A i \in DOMAIN q : q[i] + 1 \in (1 .. u) \ D
  /\ \A i, j \in DOMAIN q : q[i] = q[j] => i = j
  /\ Len(q) + Cardinality(D) = u

IInv ==
  /\ Typed
  /\ IdsOK(DOMAIN files, newUuid, unused)
  /\ FilesOK(mh, files)
  /\ \A c \in Chains : /\ ObjectOK(mh[c])
                       /\ CallsOK(c, mh[c], underWay)
                       /\ EvidenceOK(c, mh[c], underWay)

-----------------------------------------------------------------------------
(* Sizes                                                                   *)

LEMMA SlotsAre == Slots = {0, 1}
BY DEF Slots

LEMMA Bounds ==
  /\ TargetLength \in Nat \ {0} /\ ValuesPerIteration \in Nat \ {0}
  /\ MaxMoves \in Nat /\ MaxNotFinite \in Nat
BY MHAssumption

(* What is asked for grows by one portion with every request.               *)
LEMMA AskedFacts ==
  ASSUME NEW a \in Nat
  PROVE  /\ Asked(a) \in Nat
         /\ Asked(a + 1) = Asked(a) + ValuesPerIteration
         /\ Asked(a) = 0 <=> a = 0
<1>1. ValuesPerIteration \in Nat \ {0}
  BY Bounds
<1>2. (a + 1) * ValuesPerIteration = a * ValuesPerIteration + ValuesPerIteration
  BY <1>1
<1>3. a * ValuesPerIteration \in Nat
  BY <1>1
<1>4. a * ValuesPerIteration = 0 <=> a = 0
  BY <1>1
<1> QED BY <1>2, <1>3, <1>4 DEF Asked

LEMMA AskedGrows ==
  ASSUME NEW a \in Nat, NEW b \in Nat, a <= b
  PROVE  Asked(a) <= Asked(b)
<1>1. PICK k \in Nat : b = a + k
  <2>1. b - a \in Nat /\ b = a + (b - a)
    OBVIOUS
  <2> QED BY <2>1
<1>2. ValuesPerIteration \in Nat
  BY Bounds
<1>3. (a + k) * ValuesPerIteration = a * ValuesPerIteration + k * ValuesPerIteration
  BY <1>2
<1>4. k * ValuesPerIteration \in Nat /\ a * ValuesPerIteration \in Nat
  BY <1>2
<1> QED BY <1>1, <1>3, <1>4 DEF Asked

(* Slots are counted from 0 and 1 is the number of their pair.              *)
LEMMA SlotFacts ==
  ASSUME NEW m, ObjectTyped(m)
  PROVE  /\ m.newIndex \in Slots /\ 1 - m.newIndex \in Slots
         /\ m.newIndex # 1 - m.newIndex
         /\ \A s \in Slots : s = m.newIndex \/ s = 1 - m.newIndex
         /\ New(m) = m.slot[m.newIndex] /\ Old(m) = m.slot[1 - m.newIndex]
         /\ New(m).iteration \in Nat /\ Old(m).iteration \in Nat
         /\ SlotTyped(New(m)) /\ SlotTyped(Old(m))
<1>1. m.newIndex \in {0, 1} /\ \A s \in {0, 1} : SlotTyped(m.slot[s])
  BY SlotsAre DEF ObjectTyped
<1>2. /\ m.newIndex \in Slots /\ 1 - m.newIndex \in Slots
      /\ m.newIndex # 1 - m.newIndex
      /\ \A s \in Slots : s = m.newIndex \/ s = 1 - m.newIndex
  BY <1>1, SlotsAre
<1>3. SlotTyped(m.slot[m.newIndex]) /\ SlotTyped(m.slot[1 - m.newIndex])
  BY <1>1
<1>4. \A s \in Slots : m.slot[s].iteration \in Nat
  BY <1>1, SlotsAre DEF SlotTyped
<1> QED BY <1>2, <1>3, <1>4 DEF New, Old

-----------------------------------------------------------------------------
(* Ids of files                                                            *)

(* The id that is taken next is not in use.                                 *)
LEMMA TakesId ==
  ASSUME NEW D, NEW u, NEW q, IdsOK(D, u, q),
         NEW f, f = 1 + (IF q = <<>> THEN u ELSE Last(q))
  PROVE  /\ f \in Nat /\ f # NoFile /\ f \notin D
         /\ IdsOK(D \union {f}, IF q = <<>> THEN u + 1 ELSE u,
                  IF q = <<>> THEN q ELSE Front(q))
<1>1. /\ u \in Nat /\ q \in Seq(Nat) /\ IsFiniteSet(D) /\ D \subseteq 1 .. u
      /\ Cardinality(D) \in Nat /\ Len(q) + Cardinality(D) = u
  BY FS_CardinalityType DEF IdsOK
<1>2. CASE q = <<>>
  <2>1. f = u + 1 /\ f \in Nat /\ f # NoFile /\ f \notin D
    BY <1>1, <1>2 DEF NoFile
  <2>2. /\ IsFiniteSet(D \union {f})
        /\ Cardinality(D \union {f}) = Cardinality(D) + 1
    BY <1>1, <2>1, FS_AddElement
  <2>3. Len(q) = 0 /\ DOMAIN q = {}
    BY <1>2
  <2>4. D = 1 .. u
    BY <1>1, <2>3 DEF IdsOK
  <2>5. D \union {f} = 1 .. u + 1
    BY <1>1, <2>1, <2>4
  <2>6. IdsOK(D \union {f}, u + 1, q)
    BY <1>1, <2>2, <2>3, <2>5 DEF IdsOK
  <2> QED BY <1>2, <2>1, <2>6
<1>3. CASE q # <<>>
  <2>1. /\ Len(q) \in Nat \ {0} /\ DOMAIN q = 1 .. Len(q)
        /\ Last(q) = q[Len(q)] /\ q[Len(q)] \in Nat
    BY <1>1, <1>3, EmptySeq, LenProperties DEF Last
  <2> DEFINE r == Front(q)
  <2>2. /\ r \in Seq(Nat) /\ Len(r) = Len(q) - 1 /\ DOMAIN r = 1 .. Len(q) - 1
        /\ \A i \in DOMAIN r : r[i] = q[i] /\ i \in DOMAIN q /\ i # Len(q)
    <3>1. r = SubSeq(q, 1, Len(q) - 1)
      BY DEF Front
    <3> HIDE DEF r
    <3>2. \A i \in 1 .. Len(q) - 1 : i \in 1 .. Len(q) /\ q[i] \in Nat
      BY <1>1, <2>1, ElementOfSeq
    <3>3. /\ r \in Seq(Nat) /\ Len(r) = Len(q) - 1
          /\ \A i \in 1 .. Len(q) - 1 : r[i] = q[i]
      BY <1>1, <2>1, <3>1, <3>2, SubSeqProperties
    <3> QED BY <2>1, <3>3, LenProperties
  <2> HIDE DEF r
  <2>3. f = q[Len(q)] + 1 /\ f \in 1 .. u /\ f \notin D
    <3>1. f = 1 + q[Len(q)]
      BY <1>3, <2>1
    <3>2. Len(q) \in DOMAIN q
      BY <2>1
    <3>3. q[Len(q)] + 1 \in (1 .. u) \ D
      BY <3>2 DEF IdsOK
    <3>4. f = q[Len(q)] + 1
      BY <2>1, <3>1
    <3> QED BY <3>3, <3>4
  <2>4. /\ IsFiniteSet(D \union {f})
        /\ Cardinality(D \union {f}) = Cardinality(D) + 1
    BY <1>1, <2>3, FS_AddElement
  <2>5. \A g \in (1 .. u) \ (D \union {f}) : \E i \in DOMAIN r : r[i] = g - 1
    <3> TAKE g \in (1 .. u) \ (D \union {f})
    <3>1. PICK i \in DOMAIN q : q[i] = g - 1
      BY DEF IdsOK
    <3>2. i # Len(q)
      BY <1>1, <2>3, <3>1
    <3>3. i \in DOMAIN r
      BY <2>1, <2>2, <3>2
    <3> QED BY <2>2, <3>1, <3>3
  <2>6. \A i \in DOMAIN r : r[i] + 1 \in (1 .. u) \ (D \union {f})
    <3> TAKE i \in DOMAIN r
    <3>1. r[i] = q[i] /\ i \in DOMAIN q /\ i # Len(q) /\ Len(q) \in DOMAIN q
      BY <2>1, <2>2
    <3>2. q[i] + 1 \in (1 .. u) \ D /\ q[i] # q[Len(q)]
      BY <3>1 DEF IdsOK
    <3>3. q[i] \in Nat
      BY <1>1, <2>1, <3>1, ElementOfSeq
    <3> QED BY <2>1, <2>3, <3>1, <3>2, <3>3
  <2>7. \A i, j \in DOMAIN r : r[i] = r[j] => i = j
    BY <2>2 DEF IdsOK
  <2>8. IdsOK(D \union {f}, u, r)
    <3>1. Len(r) + Cardinality(D \union {f}) = u
      BY <1>1, <2>1, <2>2, <2>4
    <3>2. D \union {f} \subseteq 1 .. u
      BY <1>1, <2>3
    <3> QED
      BY <1>1, <2>2, <2>4, <2>5, <2>6, <2>7, <3>1, <3>2 DEF IdsOK
  <2>9. f \in Nat /\ f # NoFile
    BY <1>1, <2>3 DEF NoFile
  <2> QED BY <1>3, <2>3, <2>8, <2>9 DEF r
<1> QED BY <1>2, <1>3

(* The id of a file that is removed is given back.                          *)
LEMMA GivesIdBack ==
  ASSUME NEW D, NEW u, NEW q, IdsOK(D, u, q), NEW f \in D \union {NoFile}
  PROVE  IdsOK(D \ {f}, u, q \o GivenBack(f))
<1>1. /\ u \in Nat /\ q \in Seq(Nat) /\ IsFiniteSet(D) /\ D \subseteq 1 .. u
      /\ Cardinality(D) \in Nat /\ Len(q) + Cardinality(D) = u
      /\ Len(q) \in Nat /\ DOMAIN q = 1 .. Len(q)
  BY FS_CardinalityType, LenProperties DEF IdsOK
<1>2. CASE f = NoFile
  <2>1. D \ {f} = D
    BY <1>1, <1>2 DEF NoFile
  <2>2. q \o GivenBack(f) = q
    BY <1>1, <1>2, ConcatEmptySeq DEF GivenBack
  <2> QED BY <2>1, <2>2
<1>3. CASE f # NoFile
  <2> DEFINE r == q \o GivenBack(f)
  <2>1. f \in D /\ f \in 1 .. u /\ f - 1 \in Nat
    BY <1>1, <1>3
  <2>2. GivenBack(f) = <<f - 1>>
    BY <1>3 DEF GivenBack
  <2>3. /\ r \in Seq(Nat) /\ Len(r) = Len(q) + 1 /\ DOMAIN r = 1 .. Len(q) + 1
        /\ \A i \in DOMAIN q : r[i] = q[i] /\ i \in DOMAIN r /\ i # Len(q) + 1
        /\ r[Len(q) + 1] = f - 1
    <3>1. r = Append(q, f - 1)
      BY <1>1, <2>1, <2>2, AppendIsConcat
    <3> HIDE DEF r
    <3> QED BY <1>1, <2>1, <3>1, AppendProperties, LenProperties
  <2> HIDE DEF r
  <2>4. /\ IsFiniteSet(D \ {f}) /\ Cardinality(D \ {f}) = Cardinality(D) - 1
    BY <1>1, <2>1, FS_RemoveElement
  <2>5. \A g \in (1 .. u) \ (D \ {f}) : \E i \in DOMAIN r : r[i] = g - 1
    <3> TAKE g \in (1 .. u) \ (D \ {f})
    <3>1. CASE g = f
      BY <1>1, <2>3, <3>1
    <3>2. CASE g # f
      <4>1. PICK i \in DOMAIN q : q[i] = g - 1
        BY <3>2 DEF IdsOK
      <4> QED BY <2>3, <4>1
    <3> QED BY <3>1, <3>2
  <2>6. ASSUME NEW i \in DOMAIN r
        PROVE  \/ i = Len(q) + 1 /\ r[i] = f - 1
               \/ i \in DOMAIN q /\ r[i] = q[i] /\ q[i] + 1 \in (1 .. u) \ D /\ q[i] # f - 1
    <3>1. CASE i = Len(q) + 1
      BY <2>3, <3>1
    <3>2. CASE i # Len(q) + 1
      <4>1. i \in DOMAIN q
        BY <1>1, <2>3, <3>2
      <4>2. q[i] + 1 \in (1 .. u) \ D /\ q[i] \in Nat
        BY <1>1, <4>1, ElementOfSeq DEF IdsOK
      <4>3. q[i] # f - 1
        BY <2>1, <4>2
      <4> QED BY <2>3, <4>1, <4>2, <4>3
    <3> QED BY <3>1, <3>2
  <2>7. \A i \in DOMAIN r : r[i] + 1 \in (1 .. u) \ (D \ {f})
    <3> TAKE i \in DOMAIN r
    <3>1. CASE i = Len(q) + 1 /\ r[i] = f - 1
      BY <2>1, <3>1
    <3>2. CASE r[i] = q[i] /\ q[i] + 1 \in (1 .. u) \ D
      BY <3>2
    <3> QED BY <2>6, <3>1, <3>2
  <2>8. \A i, j \in DOMAIN r : r[i] = r[j] => i = j
    <3> TAKE i, j \in DOMAIN r
    <3>1. \A a, b \in DOMAIN q : q[a] = q[b] => a = b
      BY DEF IdsOK
    <3> QED BY <2>6, <3>1
  <2>9. IdsOK(D \ {f}, u, r)
    <3>1. Len(r) + Cardinality(D \ {f}) = u
      BY <1>1, <2>3, <2>4
    <3>2. D \ {f} \subseteq 1 .. u
      BY <1>1
    <3> QED
      BY <1>1, <2>3, <2>4, <2>5, <2>7, <2>8, <3>1, <3>2 DEF IdsOK
  <2> QED BY <2>9 DEF r
<1> QED BY <1>2, <1>3
-----------------------------------------------------------------------------
(* Steps of one chain                                                      *)

(* Only the object of chain c changes.                                      *)
Steps(c, N) == mh' = [mh EXCEPT ![c] = N]

LEMMA StepOf ==
  ASSUME Typed, NEW c \in Chains, NEW N, Steps(c, N)
  PROVE  /\ DOMAIN mh' = Chains /\ mh'[c] = N
         /\ \A d \in Chains : d # c => mh'[d] = mh[d]
BY DEF Typed, Steps

(* The state of slot s of chain c comes into use with file f, other files   *)
(* are as they were.                                                        *)
Creates(M, N, F, G, c, s, f) ==
  /\ \A d \in Chains : d # c => N[d] = M[d]
  /\ f \notin DOMAIN F /\ DOMAIN G = DOMAIN F \union {f}
  /\ \A g \in DOMAIN F : G[g] = F[g]
  /\ G[f] = StateOf(c, N[c], s)
  /\ ~Used(M[c], s) /\ Used(N[c], s) /\ N[c].slot[s].file = f
  /\ \A r \in Slots : r # s =>
       /\ Used(N[c], r) <=> Used(M[c], r)
       /\ N[c].slot[r].file = M[c].slot[r].file
       /\ StateOf(c, N[c], r) = StateOf(c, M[c], r)

LEMMA FileCreated ==
  ASSUME NEW M, NEW N, NEW F, NEW G, NEW c \in Chains, NEW s \in Slots, NEW f,
         FilesOK(M, F), Creates(M, N, F, G, c, s, f)
  PROVE  FilesOK(N, G)
<1> USE DEF Creates
<1>1. ASSUME NEW d \in Chains, NEW r \in Slots, ~(d = c /\ r = s)
      PROVE  /\ Used(N[d], r) <=> Used(M[d], r)
             /\ N[d].slot[r].file = M[d].slot[r].file
             /\ StateOf(d, N[d], r) = StateOf(d, M[d], r)
  <2>1. CASE d = c
    BY <1>1, <2>1
  <2>2. CASE d # c
    BY <2>2
  <2> QED BY <2>1, <2>2
<1>2. ASSUME NEW d \in Chains, NEW r \in Slots, ~(d = c /\ r = s)
      PROVE  /\ FileOK(d, N[d], r, G)
             /\ Used(N[d], r) => N[d].slot[r].file # f
  <2>1. FileOK(d, M[d], r, F)
    BY DEF FilesOK
  <2>2. CASE Used(M[d], r)
    <3>1. /\ M[d].slot[r].file \in DOMAIN F
          /\ F[M[d].slot[r].file] = StateOf(d, M[d], r)
      BY <2>1, <2>2 DEF FileOK
    <3>2. /\ N[d].slot[r].file \in DOMAIN F
          /\ G[N[d].slot[r].file] = StateOf(d, N[d], r)
      BY <1>1, <1>2, <3>1
    <3> QED BY <1>1, <1>2, <2>2, <3>2 DEF FileOK
  <2>3. CASE ~Used(M[d], r)
    BY <1>1, <1>2, <2>1, <2>3 DEF FileOK
  <2> QED BY <2>2, <2>3
<1>3. FileOK(c, N[c], s, G)
  BY DEF FileOK
<1>4. \A d \in Chains, r \in Slots : FileOK(d, N[d], r, G)
  BY <1>2, <1>3
<1>5. ASSUME NEW d \in Chains, NEW e \in Chains, NEW r \in Slots, NEW q \in Slots,
             Used(N[d], r), Used(N[e], q), N[d].slot[r].file = N[e].slot[q].file
      PROVE  d = e /\ r = q
  <2>1. CASE d = c /\ r = s
    BY <1>2, <1>5, <2>1
  <2>2. CASE e = c /\ q = s
    BY <1>2, <1>5, <2>2
  <2>3. CASE ~(d = c /\ r = s) /\ ~(e = c /\ q = s)
    <3>1. /\ Used(M[d], r) /\ Used(M[e], q)
          /\ M[d].slot[r].file = M[e].slot[q].file
      BY <1>1, <1>5, <2>3
    <3> QED BY <3>1 DEF FilesOK
  <2> QED BY <2>1, <2>2, <2>3
<1>6. ASSUME NEW g \in DOMAIN G
      PROVE  \E d \in Chains, r \in Slots : Used(N[d], r) /\ N[d].slot[r].file = g
  <2>1. CASE g = f
    BY <2>1
  <2>2. CASE g # f
    <3>1. PICK d \in Chains, r \in Slots : Used(M[d], r) /\ M[d].slot[r].file = g
      BY <2>2 DEF FilesOK
    <3>2. ~(d = c /\ r = s)
      BY <3>1
    <3> QED BY <1>1, <3>1, <3>2
  <2> QED BY <2>1, <2>2
<1> QED BY <1>4, <1>5, <1>6 DEF FilesOK

(* States of chain c are not in use any more, and their files R are removed. *)
Drops(M, N, F, G, c, R) ==
  /\ \A d \in Chains : d # c => N[d] = M[d]
  /\ DOMAIN G = DOMAIN F \ R /\ \A g \in DOMAIN G : G[g] = F[g]
  /\ \A s \in Slots : Used(N[c], s) =>
       /\ Used(M[c], s) /\ N[c].slot[s].file = M[c].slot[s].file
       /\ StateOf(c, N[c], s) = StateOf(c, M[c], s)
  /\ \A s \in Slots : ~Used(N[c], s) => N[c].slot[s].file = NoFile
  /\ \A s \in Slots : Used(M[c], s) =>
       (M[c].slot[s].file \in R <=> ~Used(N[c], s))
  /\ \A f \in R : f # NoFile =>
       \E s \in Slots : Used(M[c], s) /\ M[c].slot[s].file = f

LEMMA FilesGone ==
  ASSUME NEW M, NEW N, NEW F, NEW G, NEW c \in Chains, NEW R,
         FilesOK(M, F), NoFile \notin DOMAIN F, Drops(M, N, F, G, c, R)
  PROVE  FilesOK(N, G)
<1> USE DEF Drops
<1>1. \A d, e \in Chains : \A s, r \in Slots :
        /\ Used(M[d], s) /\ Used(M[e], r)
        /\ M[d].slot[s].file = M[e].slot[r].file
        => d = e /\ s = r
  BY DEF FilesOK
<1>2. ASSUME NEW d \in Chains, NEW s \in Slots, Used(N[d], s)
      PROVE  /\ Used(M[d], s) /\ N[d].slot[s].file = M[d].slot[s].file
             /\ StateOf(d, N[d], s) = StateOf(d, M[d], s)
             /\ M[d].slot[s].file \in DOMAIN F \ R
             /\ F[M[d].slot[s].file] = StateOf(d, M[d], s)
  <2>1. CASE d = c
    <3>1. /\ Used(M[c], s) /\ N[c].slot[s].file = M[c].slot[s].file
          /\ StateOf(c, N[c], s) = StateOf(c, M[c], s)
          /\ M[c].slot[s].file \notin R
      BY <1>2, <2>1
    <3>2. FileOK(c, M[c], s, F)
      BY DEF FilesOK
    <3> QED BY <2>1, <3>1, <3>2 DEF FileOK
  <2>2. CASE d # c
    <3>1. N[d] = M[d]
      BY <2>2
    <3>2. FileOK(d, M[d], s, F)
      BY DEF FilesOK
    <3>3. /\ M[d].slot[s].file \in DOMAIN F
          /\ F[M[d].slot[s].file] = StateOf(d, M[d], s)
      BY <1>2, <3>1, <3>2 DEF FileOK
    <3>4. M[d].slot[s].file \notin R
      <4>1. SUFFICES ASSUME M[d].slot[s].file \in R PROVE FALSE
        OBVIOUS
      <4>2. PICK r \in Slots : Used(M[c], r) /\ M[c].slot[r].file = M[d].slot[s].file
        BY <3>3, <4>1
      <4> QED BY <1>1, <1>2, <2>2, <3>1, <4>2
    <3> QED BY <1>2, <3>1, <3>3, <3>4
  <2> QED BY <2>1, <2>2
<1>3. ASSUME NEW d \in Chains, NEW s \in Slots
      PROVE  FileOK(d, N[d], s, G)
  <2>1. CASE Used(N[d], s)
    <3>1. N[d].slot[s].file \in DOMAIN G /\ G[N[d].slot[s].file] = StateOf(d, N[d], s)
      BY <1>2, <2>1
    <3> QED BY <2>1, <3>1 DEF FileOK
  <2>2. CASE ~Used(N[d], s) /\ d = c
    BY <2>2 DEF FileOK
  <2>3. CASE ~Used(N[d], s) /\ d # c
    <3>1. FileOK(d, M[d], s, F) /\ N[d] = M[d]
      BY <2>3 DEF FilesOK
    <3> QED BY <2>3, <3>1 DEF FileOK
  <2> QED BY <2>1, <2>2, <2>3
<1>4. ASSUME NEW d \in Chains, NEW e \in Chains, NEW r \in Slots, NEW q \in Slots,
             Used(N[d], r), Used(N[e], q), N[d].slot[r].file = N[e].slot[q].file
      PROVE  d = e /\ r = q
  BY <1>1, <1>2, <1>4
<1>5. ASSUME NEW g \in DOMAIN G
      PROVE  \E d \in Chains, r \in Slots : Used(N[d], r) /\ N[d].slot[r].file = g
  <2>1. PICK d \in Chains, r \in Slots : Used(M[d], r) /\ M[d].slot[r].file = g
    BY DEF FilesOK
  <2>2. Used(N[d], r)
    BY <2>1
  <2> QED BY <1>2, <2>1, <2>2
<1> QED BY <1>3, <1>4, <1>5 DEF FilesOK

(* Two files are removed, or less.                                          *)
LEMMA RemovedFiles ==
  ASSUME NEW pair, RemoveFiles(pair), IdsOK(DOMAIN files, newUuid, unused),
         pair[1] \in DOMAIN files \union {NoFile},
         pair[2] \in DOMAIN files \union {NoFile},
         pair[1] = pair[2] => pair[1] = NoFile
  PROVE  /\ IdsOK(DOMAIN files', newUuid', unused')
         /\ DOMAIN files' = DOMAIN files \ {pair[1], pair[2]}
         /\ \A f \in DOMAIN files' : files'[f] = files[f]
<1>1. /\ DOMAIN files' = DOMAIN files \ {pair[1], pair[2]}
      /\ \A f \in DOMAIN files' : files'[f] = files[f]
      /\ unused' = unused \o GivenBack(pair[1]) \o GivenBack(pair[2])
      /\ newUuid' = newUuid
  BY DEF RemoveFiles
<1> DEFINE D == DOMAIN files \ {pair[1]}
           q == unused \o GivenBack(pair[1])
<1>2. IdsOK(D, newUuid, q)
  BY GivesIdBack
<1>3. pair[2] \in D \union {NoFile}
  OBVIOUS
<1>4. /\ D \ {pair[2]} = DOMAIN files \ {pair[1], pair[2]}
      /\ unused' = q \o GivenBack(pair[2])
  BY <1>1
<1> HIDE DEF D, q
<1>5. IdsOK(D \ {pair[2]}, newUuid, q \o GivenBack(pair[2]))
  BY <1>2, <1>3, GivesIdBack
<1> QED BY <1>1, <1>4, <1>5
(* What a step of one chain has to keep.                                    *)
LEMMA StepKeeps ==
  ASSUME IInv, NEW c \in Chains, NEW N, Steps(c, N),
         ObjectTyped(N), ObjectOK(N),
         CallsOK(c, N, underWay'), EvidenceOK(c, N, underWay'),
         underWay' \subseteq Computation,
         \A d \in Chains : d # c => CallsOf(d, underWay') = CallsOf(d, underWay),
         moves' \in Nat, notFinite' \in Nat,
         IdsOK(DOMAIN files', newUuid', unused'), FilesOK(mh', files')
  PROVE  IInv'
<1>1. /\ DOMAIN mh' = Chains /\ mh'[c] = N
      /\ \A d \in Chains : d # c => mh'[d] = mh[d]
  BY StepOf DEF IInv
<1>2. Typed'
  BY <1>1 DEF IInv, Typed
<1>3. ASSUME NEW d \in Chains
      PROVE  /\ ObjectOK(mh'[d]) /\ CallsOK(d, mh'[d], underWay')
             /\ EvidenceOK(d, mh'[d], underWay')
  <2>1. CASE d = c
    BY <1>1, <2>1
  <2>2. CASE d # c
    <3>1. mh'[d] = mh[d] /\ CallsOf(d, underWay') = CallsOf(d, underWay)
      BY <1>1, <2>2
    <3>2. ObjectOK(mh[d]) /\ CallsOK(d, mh[d], underWay) /\ EvidenceOK(d, mh[d], underWay)
      BY DEF IInv
    <3>3. CallsOK(d, mh[d], underWay')
      BY <3>1, <3>2 DEF CallsOK
    <3>4. EvidenceOK(d, mh[d], underWay')
      BY <3>1, <3>2 DEF EvidenceOK, Pending
    <3> QED BY <3>1, <3>2, <3>3, <3>4
  <2> QED BY <2>1, <2>2
<1> QED BY <1>2, <1>3 DEF IInv

(* What is known of one chain.                                              *)
LEMMA ChainFacts ==
  ASSUME IInv, NEW c \in Chains
  PROVE  /\ ObjectTyped(mh[c]) /\ StageOK(mh[c])
         /\ \A s \in Slots : SlotTyped(mh[c].slot[s]) /\ SlotOK(mh[c], s)
         /\ \A s \in Slots : FileOK(c, mh[c], s, files)
         /\ CallsOK(c, mh[c], underWay) /\ EvidenceOK(c, mh[c], underWay)
         /\ NoFile \notin DOMAIN files
         /\ moves \in Nat /\ notFinite \in Nat /\ underWay \subseteq Computation
<1>1. NoFile \notin DOMAIN files
  BY DEF IInv, IdsOK, NoFile
<1>2. ObjectTyped(mh[c]) /\ \A s \in Slots : SlotTyped(mh[c].slot[s])
  BY DEF IInv, Typed, ObjectTyped
<1> QED BY <1>1, <1>2 DEF IInv, Typed, ObjectOK, FilesOK

(* A chain that waits for no result has no computation under way.           *)
LEMMA NothingUnderWay ==
  ASSUME NEW c, NEW m, NEW W, CallsOK(c, m, W), m.remaining = 0
  PROVE  CallsOf(c, W) = {}
BY FS_EmptySet DEF CallsOK

LEMMA NoCallsOK ==
  ASSUME NEW c, NEW m, NEW W, CallsOf(c, W) = {}, m.remaining = 0
  PROVE  CallsOK(c, m, W)
BY FS_EmptySet DEF CallsOK

-----------------------------------------------------------------------------
(* The beginning                                                           *)

(* A new object for a chain that has come to iteration it.                  *)
Begins(N, it, cfg, prn) ==
  /\ ObjectTyped(N) /\ ObjectOK(N)
  /\ N.iteration = it /\ N.cfg = cfg /\ N.next = cfg /\ N.prn = prn
  /\ N.processing = FALSE /\ N.first = TRUE /\ N.remaining = 0
  /\ \A s \in Slots : N.slot[s].file = NoFile /\ ~Used(N, s)

LEMMA AlgorithmBegins ==
  ASSUME NEW it \in 0 .. TargetLength - 1, NEW cfg \in Nat, NEW prn \in Nat
  PROVE  Begins(Algorithm(it, cfg, prn), it, cfg, prn)
<1> DEFINE N == Algorithm(it, cfg, prn)
<1>0. N = Algorithm(it, cfg, prn)
  OBVIOUS
<1> HIDE DEF N
<1>1. /\ N.iteration = it /\ N.cfg = cfg /\ N.next = cfg /\ N.prn = prn
      /\ N.processing = FALSE /\ N.first = TRUE /\ N.remaining = 0
      /\ N.newIndex = 0 /\ N.lastPrn = prn /\ N.z = 0 /\ N.nextz = 0
      /\ N.slot = [s \in {0, 1} |-> EmptySlot]
      /\ DOMAIN N = {"iteration", "cfg", "next", "prn", "lastPrn", "processing",
                 "slot", "z", "nextz", "newIndex", "first", "remaining"}
  BY <1>0 DEF Algorithm
<1>2. DOMAIN N.slot = Slots /\ \A s \in Slots : N.slot[s] = EmptySlot
  BY <1>1, SlotsAre
<1>3. /\ EmptySlot.file = NoFile /\ EmptySlot.n = 0 /\ EmptySlot.counted = 0
      /\ EmptySlot.iteration = 0 /\ EmptySlot.values = <<>>
      /\ SlotTyped(EmptySlot)
  BY DEF EmptySlot, NoFile, SlotTyped
<1>4. \A s \in Slots : ~Used(N, s)
  BY <1>1 DEF Used
<1>5. ~Trying(N) /\ it < TargetLength /\ it \in 0 .. TargetLength
  BY <1>1, Bounds DEF Trying
<1>6. Len(<<>>) = 0 /\ Asked(0) = 0
  BY AskedFacts
<1>7. \A s \in Slots : SlotOK(N, s)
  BY <1>2, <1>3, <1>4, <1>5, <1>6 DEF SlotOK
<1>8. StageOK(N)
  BY <1>1, <1>5 DEF StageOK
<1>9. ObjectTyped(N)
  <2>1. /\ N.iteration \in 0 .. TargetLength
        /\ N.cfg \in Nat /\ N.next \in Nat /\ N.prn \in Nat /\ N.lastPrn \in Nat
        /\ N.z \in Nat /\ N.nextz \in Nat /\ N.remaining \in Nat
    BY <1>1, <1>5
  <2>2. N.processing \in BOOLEAN /\ N.first \in BOOLEAN /\ N.newIndex \in Slots
    BY <1>1, SlotsAre
  <2>3. \A s \in Slots : SlotTyped(N.slot[s])
    BY <1>2, <1>3
  <2> QED BY <1>1, <1>2, <2>1, <2>2, <2>3 DEF ObjectTyped
<1>10. Begins(N, it, cfg, prn)
  BY <1>1, <1>2, <1>3, <1>4, <1>7, <1>8, <1>9 DEF Begins, ObjectOK
<1> QED BY <1>10 DEF N

LEMMA NoIds == IdsOK({}, 0, <<>>)
<1>1. IsFiniteSet({}) /\ Cardinality({}) = 0
  BY FS_EmptySet
<1> QED BY <1>1 DEF IdsOK

LEMMA InvInit == Init => IInv
<1> SUFFICES ASSUME Init PROVE IInv
  OBVIOUS
<1>1. /\ mh = [c \in Chains |-> Algorithm(0, 0, 1)]
      /\ underWay = {} /\ files = <<>> /\ newUuid = 0 /\ unused = <<>>
      /\ moves = 0 /\ notFinite = 0
  BY DEF Init
<1>2. 0 \in 0 .. TargetLength - 1
  BY Bounds
<1>3. ASSUME NEW c \in Chains
      PROVE  /\ ObjectTyped(mh[c]) /\ ObjectOK(mh[c])
             /\ \A s \in Slots : ~Used(mh[c], s) /\ mh[c].slot[s].file = NoFile
             /\ mh[c].remaining = 0
  <2>1. mh[c] = Algorithm(0, 0, 1)
    BY <1>1
  <2>2. Begins(mh[c], 0, 0, 1)
    BY <1>2, <2>1, AlgorithmBegins
  <2> QED BY <2>2 DEF Begins
<1>4. DOMAIN files = {}
  BY <1>1
<1>5. Typed
  BY <1>1, <1>3 DEF Typed
<1>6. IdsOK(DOMAIN files, newUuid, unused)
  BY <1>1, <1>4, NoIds
<1>7. FilesOK(mh, files)
  BY <1>3, <1>4 DEF FilesOK, FileOK
<1>8. ASSUME NEW c \in Chains
      PROVE  CallsOK(c, mh[c], underWay) /\ EvidenceOK(c, mh[c], underWay)
  <2>1. CallsOf(c, underWay) = {}
    BY <1>1 DEF CallsOf
  <2>2. CallsOK(c, mh[c], underWay)
    BY <1>3, <2>1, NoCallsOK
  <2>3. EvidenceOK(c, mh[c], underWay)
    BY <1>3 DEF EvidenceOK
  <2> QED BY <2>2, <2>3
<1> QED BY <1>3, <1>5, <1>6, <1>7, <1>8 DEF IInv
-----------------------------------------------------------------------------
(* An iteration is prepared                                                *)

(* N is object m with an iteration prepared, whose new state has file f.    *)
Prepared(m, N, f) ==
  /\ DOMAIN N = DOMAIN m /\ DOMAIN N.slot = Slots
  /\ N.iteration = m.iteration /\ N.cfg = m.cfg
  /\ N.next = m.next /\ N.prn = m.prn + 1
  /\ N.lastPrn = m.prn /\ N.processing = TRUE
  /\ N.z = m.nextz /\ N.nextz = m.prn
  /\ N.newIndex = m.newIndex /\ N.first = m.first
  /\ N.remaining = m.remaining
  /\ N.slot[m.newIndex].file = f
  /\ N.slot[m.newIndex].derived = m.prn
  /\ N.slot[m.newIndex].draws = 1
  /\ N.slot[m.newIndex].iteration = 0
  /\ N.slot[1 - m.newIndex].file = Old(m).file
  /\ N.slot[1 - m.newIndex].derived = Old(m).derived
  /\ N.slot[1 - m.newIndex].draws = Old(m).draws
  /\ N.slot[1 - m.newIndex].iteration = Old(m).iteration
  /\ \A s \in Slots : /\ DOMAIN N.slot[s] = DOMAIN m.slot[s]
                      /\ N.slot[s].n = 0 /\ N.slot[s].counted = 0
                      /\ N.slot[s].values = m.slot[s].values

LEMMA PrepareFields ==
  ASSUME Typed, NEW c \in Chains, NEW f \in Nat, f = FreshId, Prepare(c)
  PROVE  \E N : Steps(c, N) /\ Prepared(mh[c], N, f)
<1> DEFINE m == mh[c]
      started == [New(m) EXCEPT !.file = FreshId, !.derived = m.prn,
                                !.draws = 1, !.iteration = 0,
                                !.n = 0, !.counted = 0]
      reset == [Old(m) EXCEPT !.n = 0, !.counted = 0]
      slots == [s \in {0, 1} |-> IF s = m.newIndex THEN started ELSE reset]
      N == [m EXCEPT
              !.processing = TRUE,
              !.lastPrn = m.prn,
              !.prn = m.prn + 1,
              !.z = m.nextz,
              !.nextz = m.prn,
              !.slot = slots]
<1>1. ObjectTyped(m) /\ DOMAIN mh = Chains
  BY DEF Typed
<1>2. /\ m.newIndex \in {0, 1} /\ 1 - m.newIndex \in {0, 1}
      /\ m.newIndex # 1 - m.newIndex /\ SlotTyped(New(m)) /\ SlotTyped(Old(m))
      /\ New(m) = m.slot[m.newIndex] /\ Old(m) = m.slot[1 - m.newIndex]
  BY <1>1, SlotFacts, SlotsAre
<1>3. /\ DOMAIN started = DOMAIN New(m)
      /\ started.file = f /\ started.derived = m.prn
      /\ started.draws = 1 /\ started.iteration = 0
      /\ started.n = 0 /\ started.counted = 0
      /\ started.values = New(m).values
  BY <1>2 DEF SlotTyped
<1>4. /\ DOMAIN reset = DOMAIN Old(m)
      /\ reset.file = Old(m).file /\ reset.derived = Old(m).derived
      /\ reset.draws = Old(m).draws /\ reset.iteration = Old(m).iteration
      /\ reset.n = 0 /\ reset.counted = 0
      /\ reset.values = Old(m).values
  BY <1>2 DEF SlotTyped
<1>5. /\ DOMAIN slots = {0, 1}
      /\ slots[m.newIndex] = started /\ slots[1 - m.newIndex] = reset
      /\ \A s \in {0, 1} : s = m.newIndex \/ s = 1 - m.newIndex
  BY <1>2
<1>6. mh' = [mh EXCEPT
               ![c].processing = TRUE,
               ![c].lastPrn = m.prn,
               ![c].prn = m.prn + 1,
               ![c].z = m.nextz,
               ![c].nextz = m.prn,
               ![c].slot = slots]
  BY DEF Prepare
<1> HIDE DEF slots, started, reset
<1>7. mh' = [mh EXCEPT ![c] = N]
  BY <1>6
<1>8. /\ DOMAIN N = DOMAIN m
      /\ N.iteration = m.iteration /\ N.cfg = m.cfg /\ N.next = m.next
      /\ N.newIndex = m.newIndex /\ N.first = m.first
      /\ N.remaining = m.remaining
  BY <1>1 DEF ObjectTyped
<1>9. /\ N.processing = TRUE /\ N.lastPrn = m.prn /\ N.prn = m.prn + 1
      /\ N.z = m.nextz /\ N.nextz = m.prn
  BY <1>1 DEF ObjectTyped
<1>10. N.slot = slots
  BY <1>1 DEF ObjectTyped
<1> HIDE DEF N
<1>11. \A s \in Slots : /\ DOMAIN N.slot[s] = DOMAIN m.slot[s]
                        /\ N.slot[s].n = 0 /\ N.slot[s].counted = 0
                        /\ N.slot[s].values = m.slot[s].values
  BY <1>2, <1>3, <1>4, <1>5, <1>10, SlotsAre
<1>12. Prepared(m, N, f)
  BY <1>2, <1>3, <1>4, <1>5, <1>8, <1>9, <1>10, <1>11, SlotsAre DEF Prepared
<1>13. Steps(c, N)
  BY <1>7 DEF Steps
<1> QED BY <1>12, <1>13

(* A new file takes a fresh id.                                             *)
LEMMA FileReplaced ==
  ASSUME NEW v, IdsOK(DOMAIN files, newUuid, unused),
         ReplaceFile(v, NoFile)
  PROVE  /\ FreshId \in Nat /\ FreshId # NoFile /\ FreshId \notin DOMAIN files
         /\ IdsOK(DOMAIN files', newUuid', unused')
         /\ DOMAIN files' = DOMAIN files \union {FreshId}
         /\ files'[FreshId] = v
         /\ \A g \in DOMAIN files : files'[g] = files[g]
<1> DEFINE f == FreshId
           q == IF unused = <<>> THEN unused ELSE Front(unused)
           u == IF unused = <<>> THEN newUuid + 1 ELSE newUuid
<1>1. f = 1 + (IF unused = <<>> THEN newUuid ELSE Last(unused))
  BY DEF FreshId
<1>2. /\ files' = [g \in (DOMAIN files \union {f}) \ {NoFile} |->
                     IF g = f THEN v ELSE files[g]]
      /\ newUuid' = u /\ unused' = q \o GivenBack(NoFile)
  BY DEF ReplaceFile
<1> HIDE DEF f
<1>3. /\ f \in Nat /\ f # NoFile /\ f \notin DOMAIN files
      /\ IdsOK(DOMAIN files \union {f}, u, q)
  BY <1>1, TakesId
<1> HIDE DEF q, u
<1>4. NoFile \notin DOMAIN files
  BY DEF IdsOK, NoFile
<1>5. (DOMAIN files \union {f}) \ {NoFile} = DOMAIN files \union {f}
  BY <1>3, <1>4
<1>6. DOMAIN files' = DOMAIN files \union {f}
  BY <1>2, <1>5
<1>7. q \in Seq(Nat)
  BY <1>3 DEF IdsOK
<1>8. q \o GivenBack(NoFile) = q
  BY <1>7, ConcatEmptySeq DEF GivenBack
<1>9. IdsOK(DOMAIN files', newUuid', unused')
  BY <1>2, <1>3, <1>6, <1>8
<1>10. files'[f] = v /\ \A g \in DOMAIN files : files'[g] = files[g]
  BY <1>2, <1>3, <1>4
<1> QED BY <1>3, <1>6, <1>9, <1>10 DEF f

(* The object after an iteration was prepared.                              *)
LEMMA PreparedObject ==
  ASSUME NEW m, NEW N, NEW f \in Nat, Prepared(m, N, f), ObjectTyped(m),
         ObjectOK(m), ~m.processing
  PROVE  /\ ObjectTyped(N) /\ ObjectOK(N)
         /\ m.iteration < TargetLength /\ m.remaining = 0
         /\ Trying(N) /\ Used(N, m.newIndex)
         /\ Used(N, 1 - m.newIndex) <=> Used(m, 1 - m.newIndex)
         /\ ~Used(m, m.newIndex)
<1> DEFINE new == m.newIndex
           old == 1 - m.newIndex
<1>1. /\ new \in Slots /\ old \in Slots /\ new # old
      /\ \A s \in Slots : s = new \/ s = old
      /\ Old(m) = m.slot[old] /\ SlotTyped(m.slot[old]) /\ SlotTyped(m.slot[new])
      /\ New(N) = N.slot[new] /\ Old(N) = N.slot[old]
  BY SlotFacts DEF Prepared, New, Old
<1> HIDE DEF new, old
<1>2. /\ m.iteration \in 0 .. TargetLength /\ m.iteration # TargetLength
      /\ m.remaining = 0 /\ m.prn \in Nat /\ m.nextz \in Nat
  BY Bounds DEF ObjectTyped, ObjectOK, StageOK, Trying
<1>3. m.iteration < TargetLength
  BY <1>2, Bounds
<1>4. /\ DOMAIN N = DOMAIN m /\ DOMAIN N.slot = Slots
      /\ N.iteration = m.iteration /\ N.cfg = m.cfg
      /\ N.next = m.next /\ N.prn = m.prn + 1
      /\ N.lastPrn = m.prn /\ N.processing = TRUE
      /\ N.z = m.nextz /\ N.nextz = m.prn
      /\ N.newIndex = new /\ N.first = m.first
      /\ N.remaining = m.remaining
      /\ N.slot[new].file = f
      /\ N.slot[new].derived = m.prn
      /\ N.slot[new].draws = 1
      /\ N.slot[new].iteration = 0
      /\ N.slot[old].file = m.slot[old].file
      /\ N.slot[old].derived = m.slot[old].derived
      /\ N.slot[old].draws = m.slot[old].draws
      /\ N.slot[old].iteration = m.slot[old].iteration
  BY <1>1 DEF Prepared, new, old
<1>5. \A s \in Slots : /\ DOMAIN N.slot[s] = DOMAIN m.slot[s]
                       /\ N.slot[s].n = 0 /\ N.slot[s].counted = 0
                       /\ N.slot[s].values = m.slot[s].values
  BY DEF Prepared
<1>6. SlotTyped(N.slot[new]) /\ SlotTyped(N.slot[old])
  <2>1. \A s \in Slots :
          /\ DOMAIN N.slot[s] = {"file", "derived", "draws", "values",
                                 "iteration", "n", "counted"}
          /\ N.slot[s].values \in Seq(Value)
          /\ N.slot[s].n \in Nat /\ N.slot[s].counted \in Nat
    <3>1. \A s \in Slots : SlotTyped(m.slot[s])
      BY <1>1
    <3>2. \A s \in Slots : /\ m.slot[s].values \in Seq(Value)
                           /\ DOMAIN m.slot[s] = {"file", "derived", "draws",
                                 "values", "iteration", "n", "counted"}
      BY <3>1 DEF SlotTyped
    <3>3. \A s \in Slots : N.slot[s].n \in Nat /\ N.slot[s].counted \in Nat
      BY <1>5
    <3> QED BY <1>5, <3>2, <3>3
  <2>2. /\ N.slot[new].file \in Nat /\ N.slot[new].derived \in Nat
        /\ N.slot[new].draws \in Nat /\ N.slot[new].iteration \in Nat
    BY <1>2, <1>4
  <2>3. /\ N.slot[old].file \in Nat /\ N.slot[old].derived \in Nat
        /\ N.slot[old].draws \in Nat /\ N.slot[old].iteration \in Nat
    BY <1>1, <1>4 DEF SlotTyped
  <2> QED BY <1>1, <2>1, <2>2, <2>3 DEF SlotTyped
<1>7. ObjectTyped(N)
  <2>1. \A s \in Slots : SlotTyped(N.slot[s])
    BY <1>1, <1>6
  <2>2. N.prn \in Nat /\ N.lastPrn \in Nat /\ N.z \in Nat /\ N.nextz \in Nat
    BY <1>2, <1>4
  <2>3. /\ N.iteration \in 0 .. TargetLength /\ N.cfg \in Nat /\ N.next \in Nat
        /\ N.remaining \in Nat /\ N.processing \in BOOLEAN
        /\ N.first \in BOOLEAN /\ N.newIndex \in Slots
    BY <1>1, <1>4 DEF ObjectTyped, new
  <2>4. DOMAIN N = {"iteration", "cfg", "next", "prn", "lastPrn", "processing",
                 "slot", "z", "nextz", "newIndex", "first", "remaining"}
    BY <1>4 DEF ObjectTyped
  <2> QED BY <1>4, <2>1, <2>2, <2>3, <2>4 DEF ObjectTyped
<1>8. Trying(N) /\ Used(N, new) /\ ~Used(m, new)
      /\ (Used(N, old) <=> Used(m, old)) /\ (Used(m, old) <=> ~m.first)
  BY <1>1, <1>3, <1>4 DEF Trying, Used, new
<1>9. Asked(0) = 0
  BY AskedFacts
<1>10. \A s \in Slots : /\ N.slot[s].values = m.slot[s].values
                        /\ Len(N.slot[s].values) \in Nat
  BY <1>1, <1>5, LenProperties DEF SlotTyped
<1>11. SlotOK(N, new)
  <2>1. N.slot[new].n = 0 /\ N.slot[new].counted = 0
    BY <1>1, <1>5
  <2>2. Len(N.slot[new].values) \in Nat
    BY <1>1, <1>10
  <2> QED BY <1>1, <1>4, <1>9, <2>1, <2>2 DEF SlotOK
<1>12. SlotOK(N, old)
  <2>1. N.slot[old].n = 0 /\ N.slot[old].counted = 0
    BY <1>1, <1>5
  <2>2. Len(N.slot[old].values) \in Nat /\ N.slot[old].values = m.slot[old].values
    BY <1>1, <1>10
  <2>3. SlotOK(m, old)
    BY <1>1 DEF ObjectOK
  <2>4. New(N).iteration = 0
    BY <1>1, <1>4
  <2> QED BY <1>4, <1>8, <1>9, <2>1, <2>2, <2>3, <2>4 DEF SlotOK
<1>13. StageOK(N)
  <2>1. New(N).iteration = 0 /\ Old(N).iteration \in Nat
    BY <1>1, <1>4 DEF SlotTyped
  <2>2. StageOK(m)
    BY DEF ObjectOK
  <2> QED BY <1>2, <1>4, <1>8, <2>1, <2>2 DEF StageOK
<1> QED BY <1>1, <1>2, <1>3, <1>7, <1>8, <1>11, <1>12, <1>13 DEF ObjectOK, new, old

LEMMA PrepareKeeps ==
  ASSUME IInv, NEW c \in Chains, Prepare(c)
  PROVE  IInv'
<1> DEFINE m == mh[c]
           f == FreshId
<1>1. /\ ObjectTyped(m) /\ ObjectOK(m) /\ CallsOK(c, m, underWay)
      /\ EvidenceOK(c, m, underWay) /\ \A s \in Slots : FileOK(c, m, s, files)
      /\ underWay \subseteq Computation /\ moves \in Nat /\ notFinite \in Nat
      /\ Typed /\ IdsOK(DOMAIN files, newUuid, unused) /\ FilesOK(mh, files)
  BY ChainFacts DEF IInv
<1>2. ~m.processing /\ UNCHANGED <<underWay, moves, notFinite>>
      /\ ReplaceFile(<<c, m.next>>, New(m).file)
  BY DEF Prepare
<1>3. /\ m.newIndex \in Slots /\ 1 - m.newIndex \in Slots
      /\ m.newIndex # 1 - m.newIndex
      /\ \A s \in Slots : s = m.newIndex \/ s = 1 - m.newIndex
      /\ New(m) = m.slot[m.newIndex] /\ Old(m) = m.slot[1 - m.newIndex]
  BY <1>1, SlotFacts
<1>4. New(m).file = NoFile
  BY <1>1, <1>2, <1>3 DEF FileOK, Used
<1>5. /\ f \in Nat /\ f # NoFile /\ f \notin DOMAIN files
      /\ IdsOK(DOMAIN files', newUuid', unused')
      /\ DOMAIN files' = DOMAIN files \union {f}
      /\ files'[f] = <<c, m.next>>
      /\ \A g \in DOMAIN files : files'[g] = files[g]
  <2>1. ReplaceFile(<<c, m.next>>, NoFile)
    BY <1>2, <1>4
  <2> QED BY <1>1, <2>1, FileReplaced
<1>6. f = FreshId
  OBVIOUS
<1> HIDE DEF f
<1>7. PICK N : Steps(c, N) /\ Prepared(m, N, f)
  BY <1>1, <1>5, <1>6, PrepareFields
<1>8. /\ ObjectTyped(N) /\ ObjectOK(N) /\ m.remaining = 0
      /\ Trying(N) /\ Used(N, m.newIndex)
      /\ Used(N, 1 - m.newIndex) <=> Used(m, 1 - m.newIndex)
      /\ ~Used(m, m.newIndex)
  BY <1>1, <1>2, <1>5, <1>7, PreparedObject
<1>9. /\ N.newIndex = m.newIndex /\ N.cfg = m.cfg /\ N.next = m.next
      /\ N.slot[m.newIndex].file = f /\ N.slot[m.newIndex].iteration = 0
      /\ N.slot[1 - m.newIndex].file = Old(m).file
      /\ N.slot[1 - m.newIndex].derived = Old(m).derived
      /\ N.slot[1 - m.newIndex].iteration = Old(m).iteration
      /\ \A s \in Slots : N.slot[s].values = m.slot[s].values
      /\ N.remaining = m.remaining
  BY <1>7 DEF Prepared
<1>10. /\ DOMAIN mh' = Chains /\ mh'[c] = N
       /\ \A d \in Chains : d # c => mh'[d] = mh[d]
  BY <1>1, <1>7, StepOf
<1>11. \A s \in Slots : StateOf(c, N, s) = StateOf(c, m, s)
  BY <1>9 DEF StateOf
<1>12. StateOf(c, N, m.newIndex) = <<c, m.next>>
  BY <1>9 DEF StateOf
<1>13. FilesOK(mh', files')
  <2> DEFINE s == m.newIndex
  <2>1. \A r \in Slots : r # s =>
          /\ Used(N, r) <=> Used(m, r)
          /\ N.slot[r].file = m.slot[r].file
          /\ StateOf(c, N, r) = StateOf(c, m, r)
    BY <1>3, <1>8, <1>9, <1>11
  <2>2. s \in Slots /\ files'[f] = StateOf(c, N, s) /\ ~Used(m, s) /\ Used(N, s)
        /\ N.slot[s].file = f
    BY <1>3, <1>5, <1>8, <1>9, <1>12
  <2>3. Creates(mh, mh', files, files', c, s, f)
    BY <1>5, <1>10, <2>1, <2>2 DEF Creates
  <2> HIDE DEF s
  <2> QED BY <1>1, <2>2, <2>3, FileCreated
<1>14. CallsOf(c, underWay) = {}
  BY <1>1, <1>8, NothingUnderWay
<1>15. CallsOK(c, N, underWay')
  BY <1>2, <1>8, <1>9, <1>14, NoCallsOK
<1>16. EvidenceOK(c, N, underWay')
  <2> SUFFICES ASSUME NEW s \in Slots, Used(N, s),
                      NEW i \in 1 .. Asked(N.slot[s].iteration)
               PROVE  ValueOK(c, N, s, i)
    BY DEF EvidenceOK
  <2>1. CASE s = m.newIndex
    BY <1>9, <2>1, AskedFacts
  <2>2. CASE s = 1 - m.newIndex
    <3>1. Used(m, s) /\ i \in 1 .. Asked(m.slot[s].iteration)
      BY <1>3, <1>8, <1>9, <2>2
    <3>2. ValueOK(c, m, s, i)
      BY <1>1, <1>14, <3>1 DEF EvidenceOK, Pending
    <3> QED BY <1>3, <1>9, <1>11, <2>2, <3>2 DEF ValueOK
  <2> QED BY <1>3, <2>1, <2>2
<1>17. /\ underWay' \subseteq Computation /\ moves' \in Nat /\ notFinite' \in Nat
       /\ \A d \in Chains : CallsOf(d, underWay') = CallsOf(d, underWay)
  BY <1>1, <1>2
<1> QED
  BY <1>5, <1>7, <1>8, <1>13, <1>15, <1>16, <1>17, StepKeeps

-----------------------------------------------------------------------------
(* Values are counted and more of them requested                           *)

(* Slot r is slot s with the values counted.                                *)
SlotCounted(m, s, r) ==
  /\ SlotTyped(r) /\ r.file = s.file /\ r.derived = s.derived
  /\ r.draws = s.draws /\ r.iteration = s.iteration /\ r.values = s.values
  /\ r.n <= r.counted /\ r.counted = NumValues(m)

LEMMA FiniteAmongFirst ==
  ASSUME NEW values \in Seq(Value), NEW k \in Nat, k <= Len(values)
  PROVE  FiniteAmong(SubSeq(values, 1, k)) \in 0 .. k
<1> DEFINE t == SubSeq(values, 1, k)
           S == {i \in DOMAIN t : t[i].finite}
<1>1. \A i \in 1 .. k : values[i] \in Value
  BY LenProperties, ElementOfSeq
<1>2. Len(t) = k /\ t \in Seq(Value)
  BY <1>1, SubSeqProperties
<1> HIDE DEF t
<1>3. DOMAIN t = 1 .. k
  BY <1>2, LenProperties
<1>4. IsFiniteSet(1 .. k) /\ Cardinality(1 .. k) = k
  <2>1. 1 \in Int /\ k \in Int
    OBVIOUS
  <2>2. /\ IsFiniteSet(1 .. k)
        /\ Cardinality(1 .. k) = IF 1 > k THEN 0 ELSE k - 1 + 1
    BY <2>1, FS_Interval
  <2> QED BY <2>2
<1>5. S \subseteq 1 .. k
  BY <1>3
<1> HIDE DEF S
<1>6. IsFiniteSet(S) /\ Cardinality(S) <= k /\ Cardinality(S) \in Nat
  BY <1>4, <1>5, FS_Subset, FS_CardinalityType
<1>7. FiniteAmong(t) = Cardinality(S)
  BY DEF FiniteAmong, S
<1> QED BY <1>6, <1>7 DEF t

LEMMA CountedSlots ==
  ASSUME NEW m, ObjectTyped(m), ObjectOK(m), Trying(m), ~m.first
  PROVE  /\ NumValues(m) = Asked(New(m).iteration) /\ NumValues(m) \in Nat
         /\ DOMAIN Counted(m) = Slots
         /\ \A s \in Slots : SlotCounted(m, m.slot[s], Counted(m)[s])
<1>1. /\ NumValues(m) = Asked(New(m).iteration)
      /\ NumValues(m) \in Nat /\ New(m).iteration \in Nat /\ Old(m).iteration \in Nat
      /\ New(m).iteration <= Old(m).iteration
  BY SlotFacts, AskedFacts DEF NumValues, Asked, ObjectOK, StageOK
<1>2. DOMAIN Counted(m) = Slots
  BY SlotsAre DEF Counted
<1>3. ASSUME NEW s \in Slots
      PROVE  SlotCounted(m, m.slot[s], Counted(m)[s])
  <2> DEFINE t == m.slot[s]
             k == NumValues(m)
             n == FiniteAmong(SubSeq(t.values, 1, k))
  <2>1. SlotTyped(t) /\ SlotOK(m, s)
    BY DEF ObjectTyped, ObjectOK
  <2>2. Counted(m)[s] = IF k = 0 THEN t ELSE [t EXCEPT !.counted = k, !.n = n]
    BY SlotsAre DEF Counted
  <2>3. t.values \in Seq(Value) /\ Len(t.values) \in Nat /\ t.iteration \in Nat
    BY <2>1, LenProperties DEF SlotTyped
  <2>4. k <= Asked(t.iteration)
    <3>1. s = m.newIndex \/ s = 1 - m.newIndex
      BY SlotFacts
    <3>2. t = New(m) \/ t = Old(m)
      BY <3>1 DEF New, Old
    <3> QED BY <1>1, <2>3, <3>2, AskedGrows
  <2>5. k \in Nat /\ k <= Len(t.values)
    <3>1. Asked(t.iteration) <= Len(t.values) /\ Asked(t.iteration) \in Nat
      BY <2>1, <2>3, AskedFacts DEF SlotOK
    <3> QED BY <1>1, <2>3, <2>4, <3>1
  <2> HIDE DEF t, k
  <2>6. n \in 0 .. k
    BY <2>3, <2>5, FiniteAmongFirst
  <2> HIDE DEF n
  <2>7. CASE k = 0
    <3>1. t.counted \in Nat /\ t.counted <= 0 /\ t.n <= t.counted
      BY <1>1, <2>1, <2>7 DEF SlotOK, SlotTyped, t, k
    <3> QED BY <2>1, <2>2, <2>7, <3>1 DEF SlotCounted, t, k
  <2>8. CASE k # 0
    <3> DEFINE r == [t EXCEPT !.counted = k, !.n = n]
    <3>1. /\ DOMAIN r = DOMAIN t /\ r.counted = k /\ r.n = n
          /\ r.file = t.file /\ r.derived = t.derived /\ r.draws = t.draws
          /\ r.iteration = t.iteration /\ r.values = t.values
      BY <2>1 DEF SlotTyped
    <3>2. Counted(m)[s] = r
      BY <2>2, <2>8
    <3> HIDE DEF r
    <3>3. SlotTyped(r)
      BY <2>1, <2>5, <2>6, <3>1 DEF SlotTyped
    <3> QED BY <2>5, <2>6, <3>1, <3>2, <3>3 DEF SlotCounted, t, k
  <2> QED BY <2>7, <2>8
<1> QED BY <1>1, <1>2, <1>3

(* Slot r is slot s with one more portion of values asked for.              *)
SlotAsked(s, r) ==
  /\ SlotTyped(r) /\ r.file = s.file /\ r.derived = s.derived
  /\ r.draws = s.draws + ValuesPerIteration
  /\ r.iteration = s.iteration + 1
  /\ r.n = s.n /\ r.counted = s.counted
  /\ Len(s.values) <= Len(r.values) /\ Asked(r.iteration) <= Len(r.values)
  /\ \A i \in DOMAIN s.values : r.values[i] = s.values[i]

LEMMA RequestedSlot ==
  ASSUME NEW s, SlotTyped(s)
  PROVE  SlotAsked(s, RequestFrom(s))
<1> DEFINE size == (s.iteration + 1) * ValuesPerIteration
           add == IF size > Len(s.values) THEN size - Len(s.values) ELSE 0
           pad == [i \in 1 .. add |-> DefaultValue]
           r == RequestFrom(s)
<1>1. /\ s.values \in Seq(Value) /\ Len(s.values) \in Nat
      /\ DOMAIN s.values = 1 .. Len(s.values) /\ s.iteration \in Nat
      /\ s.draws \in Nat /\ ValuesPerIteration \in Nat
  BY Bounds, LenProperties DEF SlotTyped
<1>2. s.iteration + 1 \in Nat /\ size = Asked(s.iteration + 1) /\ size \in Nat
  BY <1>1, AskedFacts DEF Asked
<1> HIDE DEF size
<1>3. add \in Nat /\ size <= Len(s.values) + add
  BY <1>1, <1>2
<1> HIDE DEF add
<1>4. DefaultValue \in Value
  BY DEF DefaultValue, Value
<1>5. pad \in Seq(Value) /\ Len(pad) = add
  <2>1. pad \in [1 .. add -> Value]
    BY <1>4
  <2> HIDE DEF pad
  <2>2. pad \in Seq(Value)
    BY <1>3, <2>1, SeqDef
  <2>3. DOMAIN pad = 1 .. add /\ DOMAIN pad = 1 .. Len(pad) /\ Len(pad) \in Nat
    BY <2>1, <2>2, LenProperties
  <2> QED BY <1>3, <2>2, <2>3
<1> HIDE DEF pad
<1>6. r = [s EXCEPT !.iteration = @ + 1, !.draws = @ + ValuesPerIteration,
                    !.values = @ \o pad]
  BY DEF RequestFrom, pad, add, size
<1>7. /\ DOMAIN r = DOMAIN s /\ r.iteration = s.iteration + 1
      /\ r.draws = s.draws + ValuesPerIteration /\ r.values = s.values \o pad
      /\ r.file = s.file /\ r.derived = s.derived
      /\ r.n = s.n /\ r.counted = s.counted
  BY <1>6 DEF SlotTyped
<1> HIDE DEF r
<1>8. /\ r.values \in Seq(Value) /\ Len(r.values) = Len(s.values) + add
      /\ \A i \in DOMAIN s.values : r.values[i] = s.values[i]
  <2> DEFINE v == s.values
  <2>1. v \in Seq(Value) /\ Len(v) \in Nat /\ DOMAIN v = 1 .. Len(v)
    BY <1>1
  <2> HIDE DEF v
  <2>2. /\ v \o pad \in Seq(Value) /\ Len(v \o pad) = Len(v) + Len(pad)
        /\ \A i \in 1 .. Len(v) + Len(pad) : (v \o pad)[i] =
             IF i <= Len(v) THEN v[i] ELSE pad[i - Len(v)]
    BY <1>5, <2>1, ConcatProperties
  <2>3. \A i \in DOMAIN v : (v \o pad)[i] = v[i]
    BY <1>3, <1>5, <2>1, <2>2
  <2> QED BY <1>5, <1>7, <2>1, <2>2, <2>3 DEF v
<1>9. SlotTyped(r)
  BY <1>1, <1>2, <1>7, <1>8 DEF SlotTyped
<1>10. SlotAsked(s, r)
  BY <1>1, <1>2, <1>3, <1>7, <1>8, <1>9 DEF SlotAsked
<1> QED BY <1>10 DEF r

(* Slot r is slot s of object m with its values counted, and asked for one  *)
(* more portion of them or not.                                             *)
SlotGrown(m, s, r) ==
  /\ SlotTyped(r) /\ r.file = s.file /\ r.derived = s.derived
  /\ r.n <= r.counted /\ r.counted = NumValues(m)
  /\ Len(s.values) <= Len(r.values) /\ Asked(r.iteration) <= Len(r.values)
  /\ \A i \in DOMAIN s.values : r.values[i] = s.values[i]
SlotAfter(m, s) ==
  IF s \in Requested(m) THEN RequestFrom(Counted(m)[s]) ELSE Counted(m)[s]

LEMMA GrownSlots ==
  ASSUME NEW m, ObjectTyped(m), ObjectOK(m), Trying(m), ~m.first,
         NEW s \in Slots
  PROVE  /\ SlotGrown(m, m.slot[s], SlotAfter(m, s))
         /\ s \in Requested(m) =>
              /\ SlotAfter(m, s).iteration = m.slot[s].iteration + 1
              /\ SlotAfter(m, s).draws = m.slot[s].draws + ValuesPerIteration
         /\ s \notin Requested(m) =>
              /\ SlotAfter(m, s).iteration = m.slot[s].iteration
              /\ SlotAfter(m, s).draws = m.slot[s].draws
<1> DEFINE t == m.slot[s]
           u == Counted(m)[s]
           r == SlotAfter(m, s)
<1>1. SlotTyped(t) /\ SlotOK(m, s) /\ SlotCounted(m, t, u)
  BY CountedSlots DEF ObjectTyped, ObjectOK
<1>2. IF s \in Requested(m) THEN r = RequestFrom(u) ELSE r = u
  BY DEF SlotAfter
<1> HIDE DEF r, u
<1>3. /\ SlotTyped(u) /\ u.file = t.file /\ u.derived = t.derived
      /\ u.draws = t.draws /\ u.iteration = t.iteration /\ u.values = t.values
      /\ u.n <= u.counted /\ u.counted = NumValues(m)
      /\ Asked(t.iteration) <= Len(t.values)
  BY <1>1 DEF SlotCounted, SlotOK
<1>4. Len(t.values) \in Nat
  BY <1>1, LenProperties DEF SlotTyped
<1> HIDE DEF t
<1>5. CASE s \in Requested(m)
  <2>1. SlotAsked(u, r)
    BY <1>2, <1>3, <1>5, RequestedSlot
  <2>2. /\ SlotTyped(r) /\ r.file = u.file /\ r.derived = u.derived
        /\ r.draws = u.draws + ValuesPerIteration
        /\ r.iteration = u.iteration + 1
        /\ r.n = u.n /\ r.counted = u.counted
        /\ Len(u.values) <= Len(r.values) /\ Asked(r.iteration) <= Len(r.values)
        /\ \A i \in DOMAIN u.values : r.values[i] = u.values[i]
    BY <2>1 DEF SlotAsked
  <2>3. SlotGrown(m, t, r)
    BY <1>3, <2>2 DEF SlotGrown
  <2> QED BY <1>3, <1>5, <2>2, <2>3 DEF r, t
<1>6. CASE s \notin Requested(m)
  <2>1. r = u
    BY <1>2, <1>6
  <2>2. Len(t.values) <= Len(t.values)
    BY <1>4
  <2>3. SlotGrown(m, t, r)
    BY <1>3, <2>1, <2>2 DEF SlotGrown
  <2> QED BY <1>3, <1>6, <2>1, <2>3 DEF r, t
<1> QED BY <1>5, <1>6

(* N is object m with more values asked for.                                *)
Asks(m, N) ==
  /\ DOMAIN N = DOMAIN m /\ DOMAIN N.slot = Slots
  /\ N.iteration = m.iteration /\ N.cfg = m.cfg
  /\ N.next = m.next /\ N.prn = m.prn
  /\ N.lastPrn = m.lastPrn /\ N.processing = m.processing
  /\ N.z = m.z /\ N.nextz = m.nextz
  /\ N.newIndex = m.newIndex /\ N.first = m.first
  /\ N.remaining = m.remaining + Cardinality(Requested(m)) * ValuesPerIteration
  /\ \A s \in Slots : N.slot[s] = SlotAfter(m, s)

LEMMA RequestFields ==
  ASSUME Typed, NEW c \in Chains, Request(c)
  PROVE  \E N : Steps(c, N) /\ Asks(mh[c], N)
<1> DEFINE m == mh[c]
      slots == [s \in {0, 1} |->
                  IF s \in Requested(m) THEN RequestFrom(Counted(m)[s])
                  ELSE Counted(m)[s]]
      more == Cardinality(Requested(m)) * ValuesPerIteration
      N == [m EXCEPT !.slot = slots, !.remaining = @ + more]
<1>1. ObjectTyped(m) /\ DOMAIN mh = Chains
  BY DEF Typed
<1>2. DOMAIN slots = Slots /\ \A s \in Slots : slots[s] = SlotAfter(m, s)
  BY SlotsAre DEF SlotAfter
<1>3. mh' = [mh EXCEPT ![c].slot = slots, ![c].remaining = @ + more]
  BY DEF Request
<1> HIDE DEF slots, more
<1>4. mh' = [mh EXCEPT ![c] = N]
  BY <1>3
<1>5. /\ DOMAIN N = DOMAIN m /\ N.iteration = m.iteration /\ N.cfg = m.cfg
      /\ N.next = m.next /\ N.prn = m.prn
      /\ N.lastPrn = m.lastPrn /\ N.processing = m.processing
      /\ N.z = m.z /\ N.nextz = m.nextz
      /\ N.newIndex = m.newIndex /\ N.first = m.first
      /\ N.remaining = m.remaining + more /\ N.slot = slots
  BY <1>1 DEF ObjectTyped
<1> HIDE DEF N
<1>6. Asks(m, N) /\ Steps(c, N)
  BY <1>2, <1>4, <1>5 DEF Asks, Steps, more
<1> QED BY <1>6

LEMMA SlotsCount == IsFiniteSet(Slots) /\ Cardinality(Slots) = 2
<1>1. IsFiniteSet({0}) /\ Cardinality({0}) = 1 /\ 1 \notin {0}
  BY FS_Singleton
<1>2. IsFiniteSet({0} \union {1}) /\ Cardinality({0} \union {1}) = 1 + 1
  BY <1>1, FS_AddElement
<1>3. {0} \union {1} = Slots
  BY SlotsAre
<1> QED BY <1>2, <1>3

(* More values are asked for of the state that has fewer, or of both.       *)
LEMMA RequestedSlots ==
  ASSUME NEW m, ObjectTyped(m), ObjectOK(m), Trying(m), ~m.first
  PROVE  \/ /\ Requested(m) = Slots
            /\ New(m).iteration = Old(m).iteration
         \/ /\ Requested(m) = {m.newIndex}
            /\ New(m).iteration < Old(m).iteration
<1>1. /\ New(m).iteration \in Nat /\ Old(m).iteration \in Nat
      /\ New(m).iteration <= Old(m).iteration
  BY SlotFacts DEF ObjectOK, StageOK
<1>2. CASE New(m).iteration = Old(m).iteration
  BY <1>1, <1>2, SlotsAre DEF Requested
<1>3. CASE New(m).iteration < Old(m).iteration
  BY <1>1, <1>3 DEF Requested
<1> QED BY <1>1, <1>2, <1>3

(* The object after more values were asked for.                             *)
LEMMA AskingObject ==
  ASSUME NEW m, NEW N, Asks(m, N), ObjectTyped(m), ObjectOK(m), Trying(m),
         ~m.first, m.remaining = 0
  PROVE  /\ ObjectTyped(N) /\ ObjectOK(N)
         /\ Trying(N) /\ ~N.first
         /\ \A s \in Slots : Used(N, s) /\ Used(m, s)
<1> DEFINE new == m.newIndex
           old == 1 - m.newIndex
<1>1. /\ new \in Slots /\ old \in Slots /\ new # old
      /\ \A s \in Slots : s = new \/ s = old
      /\ New(m) = m.slot[new] /\ Old(m) = m.slot[old]
      /\ New(N) = N.slot[new] /\ Old(N) = N.slot[old]
      /\ New(m).iteration \in Nat /\ Old(m).iteration \in Nat
  BY SlotFacts DEF Asks, New, Old
<1> HIDE DEF new, old
<1>2. /\ DOMAIN N = DOMAIN m /\ DOMAIN N.slot = Slots
      /\ N.iteration = m.iteration /\ N.cfg = m.cfg
      /\ N.next = m.next /\ N.prn = m.prn
      /\ N.lastPrn = m.lastPrn /\ N.processing = m.processing
      /\ N.z = m.z /\ N.nextz = m.nextz
      /\ N.newIndex = m.newIndex /\ N.first = m.first
      /\ N.remaining = m.remaining + Cardinality(Requested(m)) * ValuesPerIteration
      /\ \A s \in Slots : N.slot[s] = SlotAfter(m, s)
  BY DEF Asks
<1>3. ASSUME NEW s \in Slots
      PROVE  /\ SlotGrown(m, m.slot[s], N.slot[s])
             /\ s \in Requested(m) =>
                  /\ N.slot[s].iteration = m.slot[s].iteration + 1
                  /\ N.slot[s].draws = m.slot[s].draws + ValuesPerIteration
             /\ s \notin Requested(m) =>
                  /\ N.slot[s].iteration = m.slot[s].iteration
                  /\ N.slot[s].draws = m.slot[s].draws
  BY <1>2, GrownSlots
<1>4. \A s \in Slots : SlotTyped(N.slot[s]) /\ SlotTyped(m.slot[s])
  BY <1>3 DEF SlotGrown, ObjectTyped
<1>5. Cardinality(Requested(m)) \in Nat
  <2>1. IsFiniteSet(Requested(m))
    <3>1. Requested(m) = Slots \/ Requested(m) = {m.newIndex}
      BY RequestedSlots
    <3>2. IsFiniteSet({m.newIndex})
      BY FS_Singleton
    <3> QED BY <3>1, <3>2, SlotsCount
  <2> QED BY <2>1, FS_CardinalityType
<1>6. ObjectTyped(N)
  <2>1. Cardinality(Requested(m)) * ValuesPerIteration \in Nat
    BY <1>5, Bounds
  <2>2. N.remaining \in Nat
    BY <1>2, <2>1 DEF ObjectTyped
  <2> QED BY <1>2, <1>4, <2>2 DEF ObjectTyped
<1>7. /\ Trying(N) /\ ~N.first
      /\ \A s \in Slots : Used(N, s) /\ Used(m, s)
  BY <1>2 DEF Trying, Used
<1>8. /\ N.slot[new].iteration \in Nat /\ N.slot[old].iteration \in Nat
      /\ New(m).iteration <= N.slot[new].iteration
      /\ N.slot[new].iteration <= N.slot[old].iteration
  <2>1. CASE Requested(m) = Slots /\ New(m).iteration = Old(m).iteration
    BY <1>1, <1>3, <2>1
  <2>2. CASE Requested(m) = {m.newIndex} /\ New(m).iteration < Old(m).iteration
    <3>1. new \in Requested(m) /\ old \notin Requested(m)
      BY <1>1, <2>2 DEF new
    <3>2. /\ N.slot[new].iteration = New(m).iteration + 1
          /\ N.slot[old].iteration = Old(m).iteration
      BY <1>1, <1>3, <3>1
    <3> QED BY <1>1, <2>2, <3>2
  <2> QED BY <2>1, <2>2, RequestedSlots
<1>9. StageOK(N)
  BY <1>1, <1>2, <1>7, <1>8 DEF StageOK, ObjectOK
<1>10. ASSUME NEW s \in Slots
       PROVE  SlotOK(N, s)
  <2>1. /\ N.slot[s].n <= N.slot[s].counted
        /\ N.slot[s].counted = NumValues(m)
        /\ Asked(N.slot[s].iteration) <= Len(N.slot[s].values)
        /\ N.slot[s].iteration \in Nat
        /\ Len(N.slot[s].values) \in Nat
    BY <1>3, <1>4, LenProperties DEF SlotGrown, SlotTyped
  <2>2. NumValues(m) = Asked(New(m).iteration) /\ NumValues(m) \in Nat
    BY CountedSlots
  <2>3. New(m).iteration <= N.slot[s].iteration
    <3>1. s = new \/ s = old
      BY <1>1
    <3> QED BY <1>1, <1>8, <3>1
  <2> DEFINE a == New(m).iteration
             b == N.slot[s].iteration
             d == N.slot[new].iteration
  <2>7. a \in Nat /\ b \in Nat /\ d \in Nat /\ a <= b /\ a <= d
    BY <1>1, <1>8, <2>1, <2>3
  <2>8. New(N).iteration = d /\ NumValues(m) = Asked(a)
    BY <1>1, <2>2
  <2>4. /\ NumValues(m) <= Asked(N.slot[s].iteration)
        /\ NumValues(m) <= Asked(New(N).iteration)
        /\ Asked(N.slot[s].iteration) \in Nat
    <3> HIDE DEF a, b, d
    <3>1. Asked(a) <= Asked(b) /\ Asked(a) <= Asked(d) /\ Asked(b) \in Nat
      BY <2>7, AskedGrows, AskedFacts
    <3> QED BY <2>8, <3>1 DEF b
  <2>5. N.slot[s].counted <= Len(N.slot[s].values)
    BY <2>1, <2>2, <2>4
  <2>6. N.slot[s].draws = 1 + Asked(N.slot[s].iteration)
    <3>1. m.slot[s].draws = 1 + Asked(m.slot[s].iteration)
      BY <1>7 DEF ObjectOK, SlotOK
    <3>2. m.slot[s].iteration \in Nat /\ ValuesPerIteration \in Nat
      BY <1>4, Bounds DEF SlotTyped
    <3>3. /\ Asked(m.slot[s].iteration) \in Nat
          /\ Asked(m.slot[s].iteration + 1) = Asked(m.slot[s].iteration) + ValuesPerIteration
      BY <3>2, AskedFacts
    <3> QED BY <1>3, <3>1, <3>2, <3>3
  <2> QED BY <2>1, <2>4, <2>5, <2>6 DEF SlotOK
<1> QED BY <1>6, <1>7, <1>9, <1>10 DEF ObjectOK

(* The computations of one portion of values of slot s, whose state is t.   *)
Portion(c, s, t, W) ==
  /\ IsFiniteSet(W) /\ Cardinality(W) = ValuesPerIteration
  /\ W \subseteq Computation
  /\ \A u \in W :
       /\ u.chain = c /\ u.index = s /\ u.file = t.file
       /\ u.i \in Asked(t.iteration) + 1 .. Asked(t.iteration + 1)
       /\ u.seed = <<t.derived, u.i + 1>>
  /\ \A i \in Asked(t.iteration) + 1 .. Asked(t.iteration + 1) :
       \E u \in W : u.i = i

LEMMA ComputationsPortion ==
  ASSUME NEW c \in Chains, NEW s \in Slots, NEW t, SlotTyped(t),
         t.draws = 1 + Asked(t.iteration)
  PROVE  Portion(c, s, t, Computations(c, s, t))
<1> DEFINE V == ValuesPerIteration
           a == Asked(t.iteration)
           call(k) == [chain |-> c, index |-> s, i |-> a + k,
                       file |-> t.file, seed |-> <<t.derived, t.draws + k>>]
           f == [k \in 1 .. V |-> call(k)]
           W == Computations(c, s, t)
<1>1. /\ V \in Nat \ {0} /\ a \in Nat /\ Asked(t.iteration + 1) = a + V
      /\ t.file \in Nat /\ t.derived \in Nat /\ t.draws = 1 + a
  BY Bounds, AskedFacts DEF SlotTyped
<1>2. W = {call(k) : k \in 1 .. V}
  BY DEF Computations, Asked
<1> HIDE DEF V, a, W
<1>3. \A k \in 1 .. V :
        /\ call(k) \in Computation
        /\ call(k).chain = c /\ call(k).index = s /\ call(k).file = t.file
        /\ call(k).i = a + k
        /\ call(k).seed = <<t.derived, a + k + 1>>
  BY <1>1 DEF Computation
<1> HIDE DEF call
<1>4. f \in Bijection(1 .. V, W)
  <2>1. f \in [1 .. V -> W]
    BY <1>2
  <2>2. \A k, l \in 1 .. V : f[k] = f[l] => k = l
    <3> TAKE k, l \in 1 .. V
    <3>1. f[k] = call(k) /\ f[l] = call(l)
      OBVIOUS
    <3>2. call(k).i = a + k /\ call(l).i = a + l
      BY <1>3
    <3> HIDE DEF f
    <3>3. a + k = a + l => k = l
      BY <1>1
    <3> QED BY <3>1, <3>2, <3>3
  <2>3. \A w \in W : \E k \in 1 .. V : f[k] = w
    BY <1>2
  <2> HIDE DEF f
  <2> QED BY <2>1, <2>2, <2>3 DEF Bijection, Injection, Surjection, IsInjective
<1>5. IsFiniteSet(1 .. V) /\ Cardinality(1 .. V) = V
  <2>1. 1 \in Int /\ V \in Int
    BY <1>1
  <2>2. /\ IsFiniteSet(1 .. V)
        /\ Cardinality(1 .. V) = IF 1 > V THEN 0 ELSE V - 1 + 1
    BY <2>1, FS_Interval
  <2> QED BY <1>1, <2>2
<1>6. IsFiniteSet(W) /\ Cardinality(W) = V
  <2>1. ExistsBijection(1 .. V, W)
    BY <1>4 DEF ExistsBijection
  <2> QED BY <1>5, <2>1, FS_Bijection
<1>7. ASSUME NEW u \in W
      PROVE  /\ u \in Computation
             /\ u.chain = c /\ u.index = s /\ u.file = t.file
             /\ u.i \in a + 1 .. a + V
             /\ u.seed = <<t.derived, u.i + 1>>
  <2>1. PICK k \in 1 .. V : u = call(k)
    BY <1>2
  <2>2. /\ u \in Computation /\ u.chain = c /\ u.index = s /\ u.file = t.file
        /\ u.i = a + k /\ u.seed = <<t.derived, a + k + 1>>
    BY <1>3, <2>1
  <2>3. a + k \in a + 1 .. a + V
    BY <1>1
  <2> QED BY <2>2, <2>3
<1>8. ASSUME NEW i \in a + 1 .. a + V
      PROVE  \E u \in W : u.i = i
  <2>1. i - a \in 1 .. V /\ a + (i - a) = i
    BY <1>1
  <2>2. call(i - a) \in W /\ call(i - a).i = a + (i - a)
    BY <1>2, <1>3, <2>1
  <2> QED BY <2>1, <2>2
<1>9. Portion(c, s, t, W)
  BY <1>1, <1>6, <1>7, <1>8 DEF Portion, V, a
<1> QED BY <1>9 DEF W

(* What a request sends to the workers.                                     *)
Sent(c, m) == UNION {Computations(c, s, m.slot[s]) : s \in Requested(m)}

LEMMA SentComputations ==
  ASSUME NEW c \in Chains, NEW m, ObjectTyped(m), ObjectOK(m), Trying(m),
         ~m.first
  PROVE  /\ IsFiniteSet(Sent(c, m)) /\ Sent(c, m) \subseteq Computation
         /\ Cardinality(Sent(c, m)) = Cardinality(Requested(m)) * ValuesPerIteration
         /\ \A u \in Sent(c, m) :
              /\ u.chain = c /\ u.index \in Requested(m)
              /\ u.file = m.slot[u.index].file
              /\ u.i \in 1 .. Asked(m.slot[u.index].iteration + 1)
              /\ u.seed = <<m.slot[u.index].derived, u.i + 1>>
         /\ \A s \in Requested(m) :
              \A i \in Asked(m.slot[s].iteration) + 1
                         .. Asked(m.slot[s].iteration + 1) :
                \E u \in Sent(c, m) : u.index = s /\ u.i = i
<1> DEFINE P(s) == Computations(c, s, m.slot[s])
           V == ValuesPerIteration
<1>0. Requested(m) \subseteq Slots /\ V \in Nat
  BY RequestedSlots, SlotFacts, Bounds
<1>1. ASSUME NEW s \in Slots
      PROVE  Portion(c, s, m.slot[s], P(s))
  <2>1. SlotTyped(m.slot[s]) /\ Used(m, s)
    BY DEF ObjectTyped, Used, Trying
  <2>2. m.slot[s].draws = 1 + Asked(m.slot[s].iteration)
    BY <2>1 DEF ObjectOK, SlotOK
  <2> QED BY <2>1, <2>2, ComputationsPortion
<1>2. ASSUME NEW s \in Slots
      PROVE  /\ IsFiniteSet(P(s)) /\ Cardinality(P(s)) = V
             /\ P(s) \subseteq Computation
             /\ \A u \in P(s) :
                  /\ u.chain = c /\ u.index = s /\ u.file = m.slot[s].file
                  /\ u.i \in 1 .. Asked(m.slot[s].iteration + 1)
                  /\ u.seed = <<m.slot[s].derived, u.i + 1>>
             /\ \A i \in Asked(m.slot[s].iteration) + 1
                           .. Asked(m.slot[s].iteration + 1) :
                  \E u \in P(s) : u.index = s /\ u.i = i
  <2> DEFINE t == m.slot[s]
             W == P(s)
  <2>1. Portion(c, s, t, W)
    BY <1>1
  <2>2. t.iteration \in Nat
    BY DEF ObjectTyped, SlotTyped
  <2>3. Asked(t.iteration) \in Nat /\ Asked(t.iteration + 1) \in Nat
    BY <2>2, AskedFacts
  <2> HIDE DEF t, W
  <2>4. \A i \in Asked(t.iteration) + 1 .. Asked(t.iteration + 1) :
          i \in 1 .. Asked(t.iteration + 1)
    BY <2>3
  <2>5. /\ IsFiniteSet(W) /\ Cardinality(W) = V
        /\ W \subseteq Computation
        /\ \A u \in W :
             /\ u.chain = c /\ u.index = s /\ u.file = t.file
             /\ u.i \in 1 .. Asked(t.iteration + 1)
             /\ u.seed = <<t.derived, u.i + 1>>
        /\ \A i \in Asked(t.iteration) + 1 .. Asked(t.iteration + 1) :
             \E u \in W : u.index = s /\ u.i = i
    BY <2>1, <2>4 DEF Portion
  <2> QED BY <2>5 DEF t, W
<1>3. Sent(c, m) = UNION {P(s) : s \in Requested(m)}
  BY DEF Sent
<1> HIDE DEF P, V
<1>4. /\ IsFiniteSet(Sent(c, m))
      /\ Cardinality(Sent(c, m)) = Cardinality(Requested(m)) * V
  <2>1. CASE Requested(m) = Slots
    <3>1. Sent(c, m) = P(0) \union P(1) /\ 0 \in Slots /\ 1 \in Slots
      BY <1>3, <2>1, SlotsAre
    <3>2. P(0) \intersect P(1) = {}
      BY <1>2, <3>1
    <3>3. Cardinality({}) = 0
      BY FS_EmptySet
    <3>4. /\ IsFiniteSet(P(0) \union P(1))
          /\ Cardinality(P(0) \union P(1)) = V + V - 0
      BY <1>2, <3>1, <3>2, <3>3, FS_Union
    <3>5. V + V - 0 = 2 * V
      BY <1>0
    <3> QED BY <2>1, <3>1, <3>4, <3>5, SlotsCount
  <2>2. CASE Requested(m) = {m.newIndex}
    <3>1. Sent(c, m) = P(m.newIndex) /\ m.newIndex \in Slots
      BY <1>3, <2>2, SlotFacts
    <3>2. Cardinality(Requested(m)) = 1
      BY <2>2, FS_Singleton
    <3>3. 1 * V = V
      BY <1>0
    <3> QED BY <1>2, <3>1, <3>2, <3>3
  <2> QED BY <2>1, <2>2, RequestedSlots
<1>5. Sent(c, m) \subseteq Computation
  BY <1>0, <1>2, <1>3
<1>6. ASSUME NEW u \in Sent(c, m)
      PROVE  /\ u.chain = c /\ u.index \in Requested(m)
             /\ u.file = m.slot[u.index].file
             /\ u.i \in 1 .. Asked(m.slot[u.index].iteration + 1)
             /\ u.seed = <<m.slot[u.index].derived, u.i + 1>>
  <2>1. PICK s \in Requested(m) : u \in P(s)
    BY <1>3
  <2> QED BY <1>0, <1>2, <2>1
<1>7. ASSUME NEW s \in Requested(m),
             NEW i \in Asked(m.slot[s].iteration) + 1
                         .. Asked(m.slot[s].iteration + 1)
      PROVE  \E u \in Sent(c, m) : u.index = s /\ u.i = i
  BY <1>0, <1>2, <1>3
<1> QED BY <1>4, <1>5, <1>6, <1>7 DEF V

(* A step that touches no file: the states of chain c stay as they are.     *)
LEMMA SameStates ==
  ASSUME IInv, NEW c \in Chains, NEW N, Steps(c, N), UNCHANGED fileVars,
         \A s \in Slots : /\ Used(N, s) <=> Used(mh[c], s)
                          /\ N.slot[s].file = mh[c].slot[s].file
                          /\ StateOf(c, N, s) = StateOf(c, mh[c], s)
  PROVE  /\ IdsOK(DOMAIN files', newUuid', unused')
         /\ FilesOK(mh', files')
<1>1. files' = files /\ newUuid' = newUuid /\ unused' = unused
  BY DEF fileVars
<1>2. /\ Typed /\ FilesOK(mh, files) /\ IdsOK(DOMAIN files, newUuid, unused)
      /\ NoFile \notin DOMAIN files /\ \A s \in Slots : FileOK(c, mh[c], s, files)
  BY ChainFacts DEF IInv
<1>3. mh'[c] = N /\ \A d \in Chains : d # c => mh'[d] = mh[d]
  BY <1>2, StepOf
<1>4. \A s \in Slots : ~Used(N, s) => N.slot[s].file = NoFile
  BY <1>2 DEF FileOK
<1>5. Drops(mh, mh', files, files', c, {})
  BY <1>1, <1>3, <1>4 DEF Drops
<1>6. FilesOK(mh', files')
  BY <1>2, <1>5, FilesGone
<1> QED BY <1>1, <1>2, <1>6

LEMMA RequestKeeps ==
  ASSUME IInv, NEW c \in Chains, Request(c)
  PROVE  IInv'
<1> DEFINE m == mh[c]
           S == Sent(c, m)
<1>1. /\ ObjectTyped(m) /\ ObjectOK(m) /\ CallsOK(c, m, underWay)
      /\ EvidenceOK(c, m, underWay)
      /\ underWay \subseteq Computation /\ moves \in Nat /\ notFinite \in Nat
      /\ Typed
  BY ChainFacts DEF IInv
<1>2. /\ m.processing /\ m.iteration < TargetLength /\ ~m.first
      /\ m.remaining = 0 /\ underWay' = underWay \union S
      /\ UNCHANGED <<fileVars, moves, notFinite>>
  BY DEF Request, Sent
<1>3. Trying(m)
  BY <1>2 DEF Trying
<1>4. PICK N : Steps(c, N) /\ Asks(m, N)
  BY <1>1, RequestFields
<1> HIDE DEF S
<1>5. /\ IsFiniteSet(S) /\ S \subseteq Computation
      /\ Cardinality(S) = Cardinality(Requested(m)) * ValuesPerIteration
      /\ \A u \in S :
           /\ u.chain = c /\ u.index \in Requested(m)
           /\ u.file = m.slot[u.index].file
           /\ u.i \in 1 .. Asked(m.slot[u.index].iteration + 1)
           /\ u.seed = <<m.slot[u.index].derived, u.i + 1>>
      /\ \A s \in Requested(m) :
           \A i \in Asked(m.slot[s].iteration) + 1
                      .. Asked(m.slot[s].iteration + 1) :
             \E u \in S : u.index = s /\ u.i = i
  BY <1>1, <1>2, <1>3, SentComputations DEF S
<1>6. /\ ObjectTyped(N) /\ ObjectOK(N) /\ Trying(N) /\ ~N.first
      /\ \A s \in Slots : Used(N, s) /\ Used(m, s)
  BY <1>1, <1>2, <1>3, <1>4, AskingObject
<1>7. Requested(m) \subseteq Slots
  BY <1>1, <1>2, <1>3, RequestedSlots, SlotFacts
<1>8. ASSUME NEW s \in Slots
      PROVE  /\ SlotGrown(m, m.slot[s], N.slot[s])
             /\ s \in Requested(m) => N.slot[s].iteration = m.slot[s].iteration + 1
             /\ s \notin Requested(m) => N.slot[s].iteration = m.slot[s].iteration
  <2>1. N.slot[s] = SlotAfter(m, s)
    BY <1>4 DEF Asks
  <2> QED BY <1>1, <1>2, <1>3, <2>1, GrownSlots
<1>9. \A s \in Slots : /\ N.slot[s].file = m.slot[s].file
                       /\ N.slot[s].derived = m.slot[s].derived
                       /\ \A i \in DOMAIN m.slot[s].values :
                            N.slot[s].values[i] = m.slot[s].values[i]
  BY <1>8 DEF SlotGrown
<1>10. /\ N.newIndex = m.newIndex /\ N.cfg = m.cfg /\ N.next = m.next
       /\ N.remaining = m.remaining + Cardinality(Requested(m)) * ValuesPerIteration
  BY <1>4 DEF Asks
<1>11. \A s \in Slots : StateOf(c, N, s) = StateOf(c, m, s)
  BY <1>10 DEF StateOf
<1>12. IdsOK(DOMAIN files', newUuid', unused') /\ FilesOK(mh', files')
  BY <1>2, <1>4, <1>6, <1>9, <1>11, SameStates
<1>13. CallsOf(c, underWay) = {}
  BY <1>1, <1>2, NothingUnderWay
<1>14. /\ CallsOf(c, underWay') = S
       /\ \A d \in Chains : d # c => CallsOf(d, underWay') = CallsOf(d, underWay)
  BY <1>2, <1>5, <1>13 DEF CallsOf
<1>15. CallsOK(c, N, underWay')
  <2>1. Cardinality(S) = N.remaining
    <3>1. Cardinality(S) \in Nat
      BY <1>5, FS_CardinalityType
    <3> QED BY <1>2, <1>5, <1>10, <3>1
  <2>2. ASSUME NEW u \in S
        PROVE  CallOK(N, u)
    <3>1. u.index \in Requested(m) /\ u.index \in Slots
      BY <1>5, <1>7
    <3>2. u.i \in 1 .. Asked(N.slot[u.index].iteration)
      BY <1>5, <1>8, <3>1
    <3>3. /\ u.file = N.slot[u.index].file
          /\ u.seed = <<N.slot[u.index].derived, u.i + 1>>
      BY <1>5, <1>9, <3>1
    <3> QED BY <1>6, <3>2, <3>3 DEF CallOK
  <2> QED BY <1>5, <1>14, <2>1, <2>2 DEF CallsOK
<1>16. EvidenceOK(c, N, underWay')
  <2> SUFFICES ASSUME NEW s \in Slots,
                      NEW i \in 1 .. Asked(N.slot[s].iteration)
               PROVE  ValueOK(c, N, s, i) \/ Pending(c, s, i, underWay')
    BY DEF EvidenceOK
  <2>1. /\ m.slot[s].iteration \in Nat
        /\ Asked(m.slot[s].iteration) \in Nat
        /\ Asked(m.slot[s].iteration + 1) \in Nat
        /\ Asked(m.slot[s].iteration) <= Len(m.slot[s].values)
        /\ Len(m.slot[s].values) \in Nat
        /\ DOMAIN m.slot[s].values = 1 .. Len(m.slot[s].values)
    <3>1. SlotTyped(m.slot[s]) /\ SlotOK(m, s)
      BY <1>1 DEF ObjectTyped, ObjectOK
    <3>2. m.slot[s].iteration \in Nat /\ m.slot[s].values \in Seq(Value)
      BY <3>1 DEF SlotTyped
    <3>3. /\ Asked(m.slot[s].iteration) \in Nat
          /\ Asked(m.slot[s].iteration + 1) \in Nat
      <4> DEFINE a == m.slot[s].iteration
      <4>1. a \in Nat /\ a + 1 \in Nat
        BY <3>2
      <4> HIDE DEF a
      <4>2. Asked(a) \in Nat /\ Asked(a + 1) \in Nat
        BY <4>1, AskedFacts
      <4> QED BY <4>2 DEF a
    <3> QED BY <3>1, <3>2, <3>3, LenProperties DEF SlotOK
  <2>2. CASE i <= Asked(m.slot[s].iteration)
    <3>1. i \in 1 .. Asked(m.slot[s].iteration) /\ i \in DOMAIN m.slot[s].values
      BY <2>1, <2>2
    <3>2. ValueOK(c, m, s, i)
      BY <1>1, <1>6, <1>13, <3>1 DEF EvidenceOK, Pending
    <3>3. ValueOK(c, N, s, i)
      BY <1>9, <1>11, <3>1, <3>2 DEF ValueOK
    <3> QED BY <3>3
  <2>3. CASE ~(i <= Asked(m.slot[s].iteration))
    <3>1. s \in Requested(m)
      BY <1>8, <2>1, <2>3
    <3>2. i \in Asked(m.slot[s].iteration) + 1 .. Asked(m.slot[s].iteration + 1)
      BY <1>8, <2>1, <2>3, <3>1
    <3>3. \E u \in S : u.index = s /\ u.i = i
      BY <1>5, <3>1, <3>2
    <3>4. Pending(c, s, i, underWay')
      BY <1>14, <3>3 DEF Pending
    <3> QED BY <3>4
  <2> QED BY <2>2, <2>3
<1>17. /\ underWay' \subseteq Computation /\ moves' \in Nat /\ notFinite' \in Nat
  BY <1>1, <1>2, <1>5
<1> QED
  BY <1>4, <1>6, <1>12, <1>14, <1>15, <1>16, <1>17, StepKeeps

-----------------------------------------------------------------------------
(* A result arrives                                                        *)

(* N is object m with value x at place i of slot s.                         *)
Receives(m, N, s, i, x) ==
  /\ DOMAIN N = DOMAIN m /\ DOMAIN N.slot = Slots
  /\ N.iteration = m.iteration /\ N.cfg = m.cfg
  /\ N.next = m.next /\ N.prn = m.prn
  /\ N.lastPrn = m.lastPrn /\ N.processing = m.processing
  /\ N.z = m.z /\ N.nextz = m.nextz
  /\ N.newIndex = m.newIndex /\ N.first = m.first
  /\ N.remaining = m.remaining - 1
  /\ \A r \in Slots : r # s => N.slot[r] = m.slot[r]
  /\ N.slot[s] = [m.slot[s] EXCEPT !.values = [@ EXCEPT ![i] = x]]

LEMMA ResultFields ==
  ASSUME Typed, NEW t \in underWay, NEW x,
         mh' = [mh EXCEPT ![t.chain].remaining = @ - 1,
                          ![t.chain].slot[t.index].values[t.i] = x]
  PROVE  \E N : Steps(t.chain, N) /\ Receives(mh[t.chain], N, t.index, t.i, x)
<1> DEFINE c == t.chain
           s == t.index
           i == t.i
           m == mh[c]
           slot == [m.slot[s] EXCEPT !.values = [@ EXCEPT ![i] = x]]
           slots == [m.slot EXCEPT ![s] = slot]
           N == [m EXCEPT !.remaining = @ - 1, !.slot = slots]
<1>1. c \in Chains /\ s \in Slots /\ ObjectTyped(m) /\ DOMAIN mh = Chains
  BY DEF Typed, Computation
<1> HIDE DEF c, s, i
<1>2. mh' = [mh EXCEPT ![c].remaining = @ - 1, ![c].slot[s].values[i] = x]
  BY DEF c, s, i
<1>3. mh' = [mh EXCEPT ![c] = N]
  <2> DEFINE M == [m EXCEPT !.remaining = @ - 1]
             g == [mh EXCEPT ![c] = M]
  <2>1. M.slot = m.slot /\ N = [M EXCEPT !.slot = slots]
    BY <1>1 DEF ObjectTyped
  <2>2. g[c] = M /\ g = [mh EXCEPT ![c].remaining = @ - 1]
    BY <1>1
  <2>3. mh' = [g EXCEPT ![c].slot[s].values[i] = x]
    BY <1>2
  <2>4. mh' = [g EXCEPT ![c] = [M EXCEPT !.slot = [M.slot EXCEPT ![s] =
                  [M.slot[s] EXCEPT !.values = [@ EXCEPT ![i] = x]]]]]
    <3> HIDE DEF M, g
    <3> QED BY <2>2, <2>3
  <2>5. mh' = [g EXCEPT ![c] = N]
    <3> HIDE DEF N, M, g
    <3> QED BY <2>1, <2>4
  <2> HIDE DEF N, M
  <2> QED BY <2>5
<1>4. /\ DOMAIN N = DOMAIN m /\ N.iteration = m.iteration /\ N.cfg = m.cfg
      /\ N.next = m.next /\ N.prn = m.prn
      /\ N.lastPrn = m.lastPrn /\ N.processing = m.processing
      /\ N.z = m.z /\ N.nextz = m.nextz
      /\ N.newIndex = m.newIndex /\ N.first = m.first
      /\ N.remaining = m.remaining - 1 /\ N.slot = slots
  BY <1>1 DEF ObjectTyped
<1>5. /\ DOMAIN slots = Slots /\ slots[s] = slot
      /\ \A r \in Slots : r # s => slots[r] = m.slot[r]
  BY <1>1 DEF ObjectTyped
<1> HIDE DEF N, slots
<1>6. Receives(m, N, s, i, x) /\ Steps(c, N)
  BY <1>3, <1>4, <1>5 DEF Receives, Steps
<1> QED BY <1>6 DEF c, s, i

(* N is m with value x at place i of slot s, as far as what is kept of its  *)
(* values and what they are about.                                          *)
Received(m, N, s, i, x) ==
  /\ ObjectTyped(N) /\ ObjectOK(N) /\ Trying(N) /\ ~N.first
  /\ N.newIndex = m.newIndex /\ N.cfg = m.cfg /\ N.next = m.next
  /\ N.iteration = m.iteration /\ N.first = m.first
  /\ N.processing = m.processing
  /\ N.remaining = m.remaining - 1
  /\ \A r \in Slots :
       /\ N.slot[r].file = m.slot[r].file
       /\ N.slot[r].derived = m.slot[r].derived
       /\ N.slot[r].iteration = m.slot[r].iteration
  /\ N.slot[s].values[i] = x
  /\ \A r \in Slots : \A j \in DOMAIN m.slot[r].values :
       ~(r = s /\ j = i) => N.slot[r].values[j] = m.slot[r].values[j]

(* The object after a result has arrived.                                   *)
LEMMA ReceivingObject ==
  ASSUME NEW m, NEW N, NEW t, NEW x \in Value,
         Receives(m, N, t.index, t.i, x), t.index \in Slots,
         CallOK(m, t), ObjectTyped(m), ObjectOK(m), m.remaining > 0
  PROVE  Received(m, N, t.index, t.i, x)
<1> DEFINE s == t.index
           u == m.slot[s]
           v == u.values
           i == t.i
<1>1. /\ Trying(m) /\ ~m.first /\ i \in 1 .. Asked(u.iteration)
  BY DEF CallOK
<1>2. SlotTyped(u) /\ SlotOK(m, s)
  BY DEF ObjectTyped, ObjectOK
<1>3. /\ v \in Seq(Value) /\ Len(v) \in Nat /\ DOMAIN v = 1 .. Len(v)
      /\ Asked(u.iteration) \in Nat /\ Asked(u.iteration) <= Len(v)
  BY <1>2, AskedFacts, LenProperties DEF SlotTyped, SlotOK
<1>4. /\ DOMAIN N = DOMAIN m /\ DOMAIN N.slot = Slots
      /\ N.iteration = m.iteration /\ N.cfg = m.cfg
      /\ N.next = m.next /\ N.prn = m.prn
      /\ N.lastPrn = m.lastPrn /\ N.processing = m.processing
      /\ N.z = m.z /\ N.nextz = m.nextz
      /\ N.newIndex = m.newIndex /\ N.first = m.first
      /\ N.remaining = m.remaining - 1
      /\ \A r \in Slots : r # s => N.slot[r] = m.slot[r]
      /\ N.slot[s] = [u EXCEPT !.values = [@ EXCEPT ![i] = x]]
  BY DEF Receives
<1> HIDE DEF s, i, u
<1>5. i \in DOMAIN v
  BY <1>1, <1>3
<1> DEFINE w == [v EXCEPT ![i] = x]
<1> HIDE DEF v
<1>6. /\ w \in Seq(Value) /\ Len(w) = Len(v) /\ w[i] = x
      /\ \A j \in DOMAIN v : j # i => w[j] = v[j]
  BY <1>3, <1>5, ExceptSeq
<1>7. N.slot[s] = [u EXCEPT !.values = w]
  BY <1>4 DEF v
<1> HIDE DEF w
<1>8. /\ DOMAIN N.slot[s] = DOMAIN u /\ N.slot[s].values = w
      /\ N.slot[s].file = u.file /\ N.slot[s].derived = u.derived
      /\ N.slot[s].draws = u.draws /\ N.slot[s].iteration = u.iteration
      /\ N.slot[s].n = u.n /\ N.slot[s].counted = u.counted
  BY <1>2, <1>7 DEF SlotTyped
<1>9. SlotTyped(N.slot[s])
  BY <1>2, <1>6, <1>8 DEF SlotTyped
<1>10. \A r \in Slots : /\ N.slot[r].file = m.slot[r].file
                        /\ N.slot[r].derived = m.slot[r].derived
                        /\ N.slot[r].draws = m.slot[r].draws
                        /\ N.slot[r].iteration = m.slot[r].iteration
                        /\ N.slot[r].n = m.slot[r].n
                        /\ N.slot[r].counted = m.slot[r].counted
                        /\ Len(N.slot[r].values) = Len(m.slot[r].values)
                        /\ SlotTyped(N.slot[r])
  <2> TAKE r \in Slots
  <2>1. CASE r = s
    BY <1>6, <1>8, <1>9, <2>1 DEF u, v
  <2>2. CASE r # s
    BY <1>4, <2>2 DEF ObjectTyped
  <2> QED BY <2>1, <2>2
<1>11. ObjectTyped(N)
  <2>1. N.remaining \in Nat
    BY <1>4 DEF ObjectTyped
  <2> QED BY <1>4, <1>10, <2>1 DEF ObjectTyped
<1>12. Trying(N) /\ ~N.first /\ \A r \in Slots : Used(N, r) <=> Used(m, r)
  BY <1>1, <1>4 DEF Trying, Used
<1>13. New(N).iteration = New(m).iteration /\ Old(N).iteration = Old(m).iteration
  BY <1>4, <1>10, SlotFacts DEF New, Old
<1>14. StageOK(N)
  BY <1>1, <1>4, <1>12, <1>13 DEF ObjectOK, StageOK
<1>15. \A r \in Slots : SlotOK(N, r)
  <2> TAKE r \in Slots
  <2>1. SlotOK(m, r)
    BY DEF ObjectOK
  <2> QED BY <1>1, <1>10, <1>12, <1>13, <2>1 DEF SlotOK
<1>16. N.slot[s].values[i] = x
  BY <1>6, <1>8
<1>17. \A r \in Slots : \A j \in DOMAIN m.slot[r].values :
         ~(r = s /\ j = i) => N.slot[r].values[j] = m.slot[r].values[j]
  <2> TAKE r \in Slots
  <2>1. CASE r = s
    BY <1>6, <1>8, <2>1 DEF u, v
  <2>2. CASE r # s
    BY <1>4, <2>2
  <2> QED BY <2>1, <2>2
<1>18. Received(m, N, s, i, x)
  BY <1>4, <1>10, <1>11, <1>12, <1>14, <1>15, <1>16, <1>17 DEF Received, ObjectOK
<1> QED BY <1>18 DEF s, i

LEMMA ResultKeeps ==
  ASSUME IInv, NEW t \in underWay, Result(t)
  PROVE  IInv'
<1> DEFINE c == t.chain
           m == mh[c]
           s == t.index
<1>0. c = t.chain /\ m = mh[c] /\ s = t.index
  OBVIOUS
<1> HIDE DEF c, m, s
<1>1. c \in Chains /\ s \in Slots /\ t.file \in Nat /\ t.seed \in Nat \X Nat
  BY <1>0 DEF IInv, Typed, Computation
<1>2. /\ ObjectTyped(m) /\ ObjectOK(m) /\ CallsOK(c, m, underWay)
      /\ EvidenceOK(c, m, underWay) /\ FileOK(c, m, s, files)
      /\ underWay \subseteq Computation /\ moves \in Nat /\ notFinite \in Nat
      /\ Typed
  BY <1>0, <1>1, ChainFacts DEF IInv
<1>3. PICK finite \in BOOLEAN :
        /\ underWay' = underWay \ {t}
        /\ notFinite' = IF finite THEN notFinite ELSE notFinite + 1
        /\ mh' = [mh EXCEPT
                ![t.chain].remaining = @ - 1,
                ![t.chain].slot[t.index].values[t.i] =
                   [of |-> <<ContentOf(t.file), t.seed>>, finite |-> finite]]
        /\ UNCHANGED <<fileVars, moves>>
  BY DEF Result
<1> DEFINE x == [of |-> <<ContentOf(t.file), t.seed>>, finite |-> finite]
<1>4. PICK N : Steps(c, N) /\ Receives(m, N, t.index, t.i, x)
  <2>1. mh' = [mh EXCEPT ![t.chain].remaining = @ - 1,
                         ![t.chain].slot[t.index].values[t.i] = x]
    BY <1>3
  <2> HIDE DEF x
  <2>2. \E N : Steps(t.chain, N) /\ Receives(mh[t.chain], N, t.index, t.i, x)
    BY <1>2, <2>1, ResultFields
  <2> QED BY <1>0, <2>2
<1>5. t \in CallsOf(c, underWay) /\ CallOK(m, t) /\ IsFiniteSet(CallsOf(c, underWay))
      /\ m.remaining = Cardinality(CallsOf(c, underWay))
  BY <1>0, <1>2 DEF CallsOf, CallsOK
<1>6. /\ CallsOf(c, underWay') = CallsOf(c, underWay) \ {t}
      /\ \A d \in Chains : d # c => CallsOf(d, underWay') = CallsOf(d, underWay)
  BY <1>0, <1>3 DEF CallsOf
<1>7. /\ IsFiniteSet(CallsOf(c, underWay'))
      /\ Cardinality(CallsOf(c, underWay')) = m.remaining - 1
      /\ m.remaining > 0
  <2>1. /\ IsFiniteSet(CallsOf(c, underWay) \ {t})
        /\ Cardinality(CallsOf(c, underWay) \ {t}) = m.remaining - 1
    BY <1>5, FS_RemoveElement
  <2>2. Cardinality(CallsOf(c, underWay) \ {t}) \in Nat /\ m.remaining \in Nat
    BY <1>2, <2>1, FS_CardinalityType DEF ObjectTyped
  <2> QED BY <1>6, <2>1, <2>2
<1>8. /\ Used(m, s) /\ ContentOf(t.file) = {StateOf(c, m, s)}
      /\ t.seed = <<m.slot[s].derived, t.i + 1>>
      /\ StateOf(c, m, s) \in Chains \X Nat
  <2>1. Trying(m) /\ ~m.first /\ t.file = m.slot[s].file
        /\ t.seed = <<m.slot[s].derived, t.i + 1>>
    BY <1>0, <1>5 DEF CallOK
  <2>2. Used(m, s)
    BY <2>1 DEF Used, Trying
  <2>3. t.file \in DOMAIN files /\ files[t.file] = StateOf(c, m, s)
    BY <1>2, <2>1, <2>2 DEF FileOK
  <2>4. ContentOf(t.file) = {StateOf(c, m, s)}
    BY <2>3 DEF ContentOf
  <2>5. StateOf(c, m, s) \in Chains \X Nat
    BY <1>1, <1>2 DEF StateOf, ObjectTyped
  <2> QED BY <2>1, <2>2, <2>4, <2>5
<1>9. x \in Value /\ x.of = <<{StateOf(c, m, s)}, <<m.slot[s].derived, t.i + 1>>>>
  <2>1. ContentOf(t.file) \in SUBSET (Chains \X Nat)
    BY <1>8
  <2>2. x.of \in (SUBSET (Chains \X Nat)) \X (Nat \X Nat) /\ x.finite \in BOOLEAN
    BY <1>1, <2>1
  <2>3. x \in Value
    BY <2>2 DEF Value
  <2> QED BY <1>8, <2>3
<1> HIDE DEF x
<1>10. /\ ObjectTyped(N) /\ ObjectOK(N) /\ Trying(N) /\ ~N.first
       /\ \A r \in Slots :
            /\ N.slot[r].file = m.slot[r].file
            /\ N.slot[r].derived = m.slot[r].derived
            /\ N.slot[r].iteration = m.slot[r].iteration
       /\ N.slot[s].values[t.i] = x
       /\ \A r \in Slots : \A i \in DOMAIN m.slot[r].values :
            ~(r = s /\ i = t.i) =>
              N.slot[r].values[i] = m.slot[r].values[i]
  <2>1. Received(m, N, t.index, t.i, x)
    BY <1>0, <1>1, <1>2, <1>4, <1>5, <1>7, <1>9, ReceivingObject
  <2> QED BY <1>0, <2>1 DEF Received
<1>11. /\ N.newIndex = m.newIndex /\ N.cfg = m.cfg /\ N.next = m.next
       /\ N.iteration = m.iteration /\ N.first = m.first
       /\ N.processing = m.processing
       /\ N.remaining = m.remaining - 1
  BY <1>4 DEF Receives
<1>12. \A r \in Slots : /\ StateOf(c, N, r) = StateOf(c, m, r)
                        /\ Used(N, r) <=> Used(m, r)
  BY <1>11 DEF StateOf, Used
<1>13. IdsOK(DOMAIN files', newUuid', unused') /\ FilesOK(mh', files')
  <2>1. \A r \in Slots : /\ Used(N, r) <=> Used(mh[c], r)
                         /\ N.slot[r].file = mh[c].slot[r].file
                         /\ StateOf(c, N, r) = StateOf(c, mh[c], r)
    BY <1>0, <1>10, <1>12
  <2>2. UNCHANGED fileVars
    BY <1>3
  <2> QED BY <1>1, <1>4, <2>1, <2>2, SameStates
<1>14. CallsOK(c, N, underWay')
  <2>1. ASSUME NEW u \in CallsOf(c, underWay')
        PROVE  CallOK(N, u)
    <3>1. CallOK(m, u) /\ u.index \in Slots
      BY <1>2, <1>6 DEF CallsOK, CallsOf, Computation
    <3> QED BY <1>10, <3>1 DEF CallOK
  <2> QED BY <1>7, <1>11, <2>1 DEF CallsOK
<1>15. EvidenceOK(c, N, underWay')
  <2> SUFFICES ASSUME NEW r \in Slots, Used(N, r),
                      NEW i \in 1 .. Asked(N.slot[r].iteration)
               PROVE  ValueOK(c, N, r, i) \/ Pending(c, r, i, underWay')
    BY DEF EvidenceOK
  <2>1. CASE r = s /\ i = t.i
    BY <1>9, <1>10, <1>12, <2>1 DEF ValueOK
  <2>2. CASE ~(r = s /\ i = t.i)
    <3>1. Used(m, r) /\ i \in 1 .. Asked(m.slot[r].iteration)
      BY <1>10, <1>12
    <3>2. ValueOK(c, m, r, i) \/ Pending(c, r, i, underWay)
      BY <1>2, <3>1 DEF EvidenceOK
    <3>3. CASE Pending(c, r, i, underWay)
      BY <1>0, <1>6, <2>2, <3>3 DEF Pending
    <3>4. CASE ValueOK(c, m, r, i)
      <4>1. SlotTyped(m.slot[r]) /\ SlotOK(m, r)
        BY <1>2 DEF ObjectTyped, ObjectOK
      <4>2. m.slot[r].iteration \in Nat /\ m.slot[r].values \in Seq(Value)
        BY <4>1 DEF SlotTyped
      <4>3. /\ Asked(m.slot[r].iteration) \in Nat
            /\ Asked(m.slot[r].iteration) <= Len(m.slot[r].values)
        BY <4>1, <4>2, AskedFacts DEF SlotOK
      <4>4. i \in DOMAIN m.slot[r].values
        BY <3>1, <4>2, <4>3, LenProperties
      <4> QED BY <1>10, <1>12, <2>2, <3>4, <4>4 DEF ValueOK
    <3> QED BY <3>2, <3>3, <3>4
  <2> QED BY <2>1, <2>2
<1>16. /\ underWay' \subseteq Computation /\ moves' \in Nat /\ notFinite' \in Nat
  BY <1>2, <1>3
<1> QED
  BY <1>1, <1>4, <1>6, <1>10, <1>13, <1>14, <1>15, <1>16, StepKeeps

-----------------------------------------------------------------------------
(* Files are removed                                                       *)

(* The files of the states `gone` of chain c are removed, one after the     *)
(* other, with the states that are not used any more.                       *)
LEMMA StatesGone ==
  ASSUME IInv, NEW c \in Chains, NEW N, Steps(c, N),
         NEW pair, RemoveFiles(pair),
         NEW a \in Slots, NEW b \in Slots, a # b, NEW gone,
         pair[1] = (IF a \in gone THEN mh[c].slot[a].file ELSE NoFile),
         pair[2] = (IF b \in gone THEN mh[c].slot[b].file ELSE NoFile),
         \A s \in Slots : Used(N, s) =>
           /\ s \notin gone /\ Used(mh[c], s)
           /\ N.slot[s].file = mh[c].slot[s].file
           /\ StateOf(c, N, s) = StateOf(c, mh[c], s),
         \A s \in Slots : ~Used(N, s) => N.slot[s].file = NoFile,
         \A s \in Slots : Used(mh[c], s) /\ ~Used(N, s) => s \in gone
  PROVE  /\ IdsOK(DOMAIN files', newUuid', unused')
         /\ FilesOK(mh', files')
<1> DEFINE m == mh[c]
           R == {pair[1], pair[2]}
<1>1. /\ Typed /\ FilesOK(mh, files) /\ IdsOK(DOMAIN files, newUuid, unused)
      /\ NoFile \notin DOMAIN files /\ \A s \in Slots : FileOK(c, m, s, files)
  BY ChainFacts DEF IInv
<1>2. mh'[c] = N /\ \A d \in Chains : d # c => mh'[d] = mh[d]
  BY <1>1, StepOf
<1>3. \A s \in Slots : /\ m.slot[s].file \in DOMAIN files \union {NoFile}
                       /\ Used(m, s) <=> m.slot[s].file # NoFile
  BY <1>1 DEF FileOK
<1>4. \A s, r \in Slots :
        m.slot[s].file = m.slot[r].file /\ m.slot[s].file # NoFile => s = r
  BY <1>1, <1>3 DEF FilesOK
<1>5. \A s \in Slots : s = a \/ s = b
  BY SlotsAre
<1> HIDE DEF m
<1>6. /\ pair[1] \in DOMAIN files \union {NoFile}
      /\ pair[2] \in DOMAIN files \union {NoFile}
      /\ pair[1] = pair[2] => pair[1] = NoFile
  BY <1>3, <1>4 DEF m
<1>7. /\ IdsOK(DOMAIN files', newUuid', unused')
      /\ DOMAIN files' = DOMAIN files \ R
      /\ \A f \in DOMAIN files' : files'[f] = files[f]
  BY <1>1, <1>6, RemovedFiles
<1>8. \A f \in R : f # NoFile =>
        \E s \in Slots : s \in gone /\ Used(m, s) /\ m.slot[s].file = f
  <2>1. ASSUME pair[1] # NoFile
        PROVE  a \in gone /\ Used(m, a) /\ m.slot[a].file = pair[1]
    BY <1>3, <2>1 DEF m
  <2>2. ASSUME pair[2] # NoFile
        PROVE  b \in gone /\ Used(m, b) /\ m.slot[b].file = pair[2]
    BY <1>3, <2>2 DEF m
  <2> QED BY <2>1, <2>2
<1>9. ASSUME NEW s \in Slots, Used(m, s)
      PROVE  m.slot[s].file \in R <=> ~Used(N, s)
  <2>1. ASSUME m.slot[s].file \in R
        PROVE  ~Used(N, s)
    <3>1. m.slot[s].file # NoFile
      BY <1>3, <1>9
    <3>2. PICK r \in Slots : r \in gone /\ m.slot[r].file = m.slot[s].file
      BY <1>8, <2>1, <3>1
    <3>3. r = s
      BY <1>4, <3>1, <3>2
    <3> QED BY <3>2, <3>3
  <2>2. ASSUME ~Used(N, s)
        PROVE  m.slot[s].file \in R
    <3>1. s \in gone
      BY <1>9, <2>2 DEF m
    <3>2. CASE s = a
      BY <3>1, <3>2 DEF m
    <3>3. CASE s = b
      BY <3>1, <3>3 DEF m
    <3> QED BY <1>5, <3>2, <3>3
  <2> QED BY <2>1, <2>2
<1> HIDE DEF R
<1>10. Drops(mh, mh', files, files', c, R)
  <2>1. \A s \in Slots : Used(N, s) =>
           /\ Used(m, s) /\ N.slot[s].file = m.slot[s].file
           /\ StateOf(c, N, s) = StateOf(c, m, s)
    BY DEF m
  <2> QED BY <1>2, <1>7, <1>8, <1>9, <2>1 DEF Drops, m
<1>11. FilesOK(mh', files')
  BY <1>1, <1>10, FilesGone
<1> QED BY <1>7, <1>11

(* An object is given up: both its files are removed, and what is left of   *)
(* it stands for no state.                                                  *)
LEMMA ObjectGivenUp ==
  ASSUME IInv, NEW c \in Chains, NEW N, Steps(c, N),
         RemoveFiles(FilesLeft(mh[c])), UNCHANGED underWay,
         moves' \in Nat, notFinite' \in Nat,
         ObjectTyped(N), ObjectOK(N), N.remaining = 0, mh[c].remaining = 0,
         \A s \in Slots : ~Used(N, s) /\ N.slot[s].file = NoFile
  PROVE  IInv'
<1> DEFINE m == mh[c]
           pair == FilesLeft(m)
           a == 1 - m.newIndex
           b == m.newIndex
<1>1. /\ ObjectTyped(m) /\ CallsOK(c, m, underWay)
      /\ underWay \subseteq Computation
  BY ChainFacts
<1>2. /\ a \in Slots /\ b \in Slots /\ a # b
      /\ New(m) = m.slot[b] /\ Old(m) = m.slot[a]
  BY <1>1, SlotFacts
<1>3. pair[1] = m.slot[a].file /\ pair[2] = m.slot[b].file
  BY <1>2 DEF FilesLeft
<1> HIDE DEF a, b
<1>4. IdsOK(DOMAIN files', newUuid', unused') /\ FilesOK(mh', files')
  <2> DEFINE gone == Slots
  <2>1. /\ RemoveFiles(pair)
        /\ pair[1] = (IF a \in gone THEN mh[c].slot[a].file ELSE NoFile)
        /\ pair[2] = (IF b \in gone THEN mh[c].slot[b].file ELSE NoFile)
        /\ \A s \in Slots : ~Used(N, s)
        /\ \A s \in Slots : ~Used(N, s) => N.slot[s].file = NoFile
        /\ \A s \in Slots : Used(mh[c], s) /\ ~Used(N, s) => s \in gone
    BY <1>2, <1>3
  <2> HIDE DEF pair, gone
  <2> QED BY <1>2, <2>1, StatesGone
<1>5. CallsOf(c, underWay) = {}
  BY <1>1, NothingUnderWay
<1>6. CallsOK(c, N, underWay')
  BY <1>5, NoCallsOK
<1>7. EvidenceOK(c, N, underWay')
  BY DEF EvidenceOK
<1>8. /\ underWay' \subseteq Computation
      /\ \A d \in Chains : CallsOf(d, underWay') = CallsOf(d, underWay)
  BY <1>1
<1> QED BY <1>4, <1>6, <1>7, <1>8, StepKeeps

LEMMA MoveKeeps ==
  ASSUME IInv, NEW c \in Chains, Move(c)
  PROVE  IInv'
<1> DEFINE m == mh[c]
           N == Algorithm(m.iteration - 1, m.cfg, m.lastPrn)
<1>1. /\ ObjectTyped(m) /\ StageOK(m) /\ moves \in Nat /\ notFinite \in Nat
  BY ChainFacts
<1>2. /\ ~m.processing /\ ~m.first /\ moves' = moves + 1
      /\ RemoveFiles(FilesLeft(m)) /\ UNCHANGED <<underWay, notFinite>>
      /\ Steps(c, N)
  BY DEF Move, Steps
<1>3. /\ m.remaining = 0 /\ m.iteration - 1 \in 0 .. TargetLength - 1
      /\ m.cfg \in Nat /\ m.lastPrn \in Nat
  BY <1>1, <1>2, Bounds DEF StageOK, Trying, ObjectTyped
<1>4. Begins(N, m.iteration - 1, m.cfg, m.lastPrn)
  BY <1>3, AlgorithmBegins
<1> HIDE DEF N
<1>5. /\ ObjectTyped(N) /\ ObjectOK(N) /\ N.remaining = 0
      /\ \A s \in Slots : ~Used(N, s) /\ N.slot[s].file = NoFile
  BY <1>4 DEF Begins
<1>6. moves' \in Nat /\ notFinite' \in Nat
  BY <1>1, <1>2
<1> QED BY <1>2, <1>3, <1>5, <1>6, ObjectGivenUp

LEMMA EraseKeeps ==
  ASSUME IInv, NEW c \in Chains, Erase(c)
  PROVE  IInv'
<1> DEFINE m == mh[c]
           N == Erased(m)
<1>1. /\ ObjectTyped(m) /\ StageOK(m) /\ moves \in Nat /\ notFinite \in Nat
  BY ChainFacts
<1>2. /\ m.iteration = TargetLength /\ RemoveFiles(FilesLeft(m))
      /\ UNCHANGED <<underWay, moves, notFinite>> /\ Steps(c, N)
  BY DEF Erase, Steps
<1>3. ~Trying(m) /\ m.remaining = 0
  BY <1>1, <1>2, Bounds DEF Trying, StageOK
<1>4. /\ DOMAIN N = DOMAIN m
      /\ N.iteration = m.iteration /\ N.cfg = m.cfg
      /\ N.next = m.next /\ N.prn = m.prn
      /\ N.lastPrn = m.lastPrn /\ N.processing = m.processing
      /\ N.z = m.z /\ N.nextz = m.nextz
      /\ N.newIndex = m.newIndex /\ N.first = m.first
      /\ N.remaining = m.remaining
      /\ N.slot = [s \in {0, 1} |-> EmptySlot]
  BY <1>1 DEF Erased, ObjectTyped
<1> HIDE DEF N
<1>5. DOMAIN N.slot = Slots /\ \A s \in Slots : N.slot[s] = EmptySlot
  BY <1>4, SlotsAre
<1>6. /\ EmptySlot.file = NoFile /\ EmptySlot.n = 0 /\ EmptySlot.counted = 0
      /\ EmptySlot.iteration = 0 /\ EmptySlot.values = <<>>
      /\ SlotTyped(EmptySlot)
  BY DEF EmptySlot, NoFile, SlotTyped
<1>7. ~Trying(N) /\ \A s \in Slots : ~Used(N, s)
  BY <1>2, <1>3, <1>4, Bounds DEF Trying, Used
<1>8. Len(<<>>) = 0 /\ Asked(0) = 0
  BY AskedFacts
<1>9. \A s \in Slots : SlotOK(N, s)
  BY <1>5, <1>6, <1>7, <1>8 DEF SlotOK
<1>10. StageOK(N)
  BY <1>1, <1>2, <1>3, <1>4, <1>7, Bounds DEF StageOK
<1>11. ObjectTyped(N)
  <2>1. \A s \in Slots : SlotTyped(N.slot[s])
    BY <1>5, <1>6
  <2> QED BY <1>1, <1>4, <1>5, <2>1 DEF ObjectTyped
<1>12. /\ ObjectOK(N) /\ N.remaining = 0
       /\ \A s \in Slots : ~Used(N, s) /\ N.slot[s].file = NoFile
  BY <1>3, <1>4, <1>5, <1>6, <1>7, <1>9, <1>10 DEF ObjectOK
<1>13. moves' \in Nat /\ notFinite' \in Nat /\ UNCHANGED underWay
  BY <1>1, <1>2
<1> QED BY <1>2, <1>3, <1>11, <1>12, <1>13, ObjectGivenUp

-----------------------------------------------------------------------------
(* An iteration is finished                                                *)

(* Which slot the next state is tried in, and whose files are removed.      *)
IndexAfter(m, accept) == IF accept THEN 1 - m.newIndex ELSE m.newIndex
LastOne(m) == m.iteration + 1 = TargetLength
Dropped(m, accept) ==
  (IF m.first THEN {} ELSE {IndexAfter(m, accept)})
    \union (IF LastOne(m) THEN {1 - IndexAfter(m, accept)} ELSE {})
Judged(m, s) == (IF m.first THEN m.slot ELSE Counted(m))[s]

(* N is object m after the iteration.                                       *)
Finishes(m, N, accept) ==
  /\ DOMAIN N = DOMAIN m /\ DOMAIN N.slot = Slots
  /\ N.iteration = m.iteration + 1
  /\ N.cfg = (IF accept THEN m.next ELSE m.cfg)
  /\ N.next = (IF LastOne(m) THEN m.next ELSE m.prn)
  /\ N.prn = (IF LastOne(m) THEN m.prn ELSE m.prn + 1)
  /\ N.lastPrn = m.lastPrn /\ N.processing = LastOne(m)
  /\ N.z = m.z /\ N.nextz = m.nextz
  /\ N.newIndex = IndexAfter(m, accept) /\ N.first = FALSE
  /\ N.remaining = m.remaining
  /\ \A s \in Slots : N.slot[s] =
       [Judged(m, s) EXCEPT !.file = IF s \in Dropped(m, accept) THEN NoFile
                                    ELSE @]

LEMMA FinishFields ==
  ASSUME Typed, NEW c \in Chains, NEW accept \in BOOLEAN, Finish(c, accept)
  PROVE  \E N : Steps(c, N) /\ Finishes(mh[c], N, accept)
<1> DEFINE m == mh[c]
      last == LastOne(m)
      index == IndexAfter(m, accept)
      dropped == Dropped(m, accept)
      slots == [s \in {0, 1} |->
                  [Judged(m, s) EXCEPT !.file = IF s \in dropped THEN NoFile ELSE @]]
      cfg == IF accept THEN m.next ELSE m.cfg
      next == IF last THEN m.next ELSE m.prn
      prn == IF last THEN m.prn ELSE m.prn + 1
      N == [m EXCEPT
              !.processing = last,
              !.first = FALSE,
              !.newIndex = index,
              !.cfg = cfg,
              !.next = next,
              !.prn = prn,
              !.iteration = @ + 1,
              !.slot = slots]
<1>1. ObjectTyped(m) /\ DOMAIN mh = Chains
  BY DEF Typed
<1>2. /\ DOMAIN slots = Slots
      /\ \A s \in Slots : slots[s] =
           [Judged(m, s) EXCEPT !.file = IF s \in dropped THEN NoFile ELSE @]
  BY SlotsAre
<1>3. mh' = [mh EXCEPT
               ![c].processing = last,
               ![c].first = FALSE,
               ![c].newIndex = index,
               ![c].cfg = IF accept THEN m.next ELSE @,
               ![c].next = IF last THEN @ ELSE m.prn,
               ![c].prn = IF last THEN @ ELSE @ + 1,
               ![c].iteration = @ + 1,
               ![c].slot = slots]
  BY DEF Finish, LastOne, IndexAfter, Dropped, Judged
<1> HIDE DEF slots, last, index, dropped
<1>4. mh' = [mh EXCEPT ![c] = N]
  BY <1>1, <1>3 DEF ObjectTyped
<1>5. /\ DOMAIN N = DOMAIN m
      /\ N.iteration = m.iteration + 1 /\ N.cfg = cfg
      /\ N.next = next /\ N.prn = prn
      /\ N.lastPrn = m.lastPrn /\ N.processing = last
      /\ N.z = m.z /\ N.nextz = m.nextz
      /\ N.newIndex = index /\ N.first = FALSE
      /\ N.remaining = m.remaining /\ N.slot = slots
  BY <1>1 DEF ObjectTyped
<1> HIDE DEF N
<1>6. Finishes(m, N, accept) /\ Steps(c, N)
  BY <1>2, <1>4, <1>5 DEF Finishes, Steps, last, index, dropped
<1> QED BY <1>6

(* Which states are used after the iteration, and what they stand for.      *)
LEMMA FinishedStates ==
  ASSUME NEW c, NEW m, NEW N, NEW accept \in BOOLEAN, Finishes(m, N, accept),
         ObjectTyped(m), Trying(m), m.first => accept
  PROVE  /\ \A s \in Slots : Used(N, s) =>
              /\ s \notin Dropped(m, accept) /\ Used(m, s)
              /\ StateOf(c, N, s) = StateOf(c, m, s)
         /\ \A s \in Slots : ~Used(N, s) /\ Used(m, s) => s \in Dropped(m, accept)
         /\ ~Trying(N) /\ N.iteration \in 1 .. TargetLength
         /\ N.iteration = TargetLength <=> LastOne(m)
<1> DEFINE index == IndexAfter(m, accept)
<1>1. /\ m.newIndex \in Slots /\ 1 - m.newIndex \in Slots
      /\ m.newIndex # 1 - m.newIndex
      /\ \A s \in Slots : s = m.newIndex \/ s = 1 - m.newIndex
  BY SlotFacts
<1>2. /\ index \in Slots /\ 1 - index \in Slots /\ index # 1 - index
      /\ \A s \in Slots : s = index \/ s = 1 - index
      /\ accept => index = 1 - m.newIndex /\ 1 - index = m.newIndex
      /\ ~accept => index = m.newIndex /\ 1 - index = 1 - m.newIndex
  BY <1>1, SlotsAre DEF IndexAfter
<1> HIDE DEF index
<1>3. /\ m.processing /\ m.iteration < TargetLength /\ m.iteration \in 0 .. TargetLength
      /\ TargetLength \in Nat
  BY Bounds DEF Trying, ObjectTyped
<1>4. /\ N.iteration = m.iteration + 1 /\ N.processing = LastOne(m)
      /\ N.cfg = (IF accept THEN m.next ELSE m.cfg)
      /\ N.newIndex = index /\ N.first = FALSE
  BY DEF Finishes, index
<1>5. /\ N.iteration \in 1 .. TargetLength
      /\ N.iteration = TargetLength <=> LastOne(m)
      /\ N.iteration < TargetLength <=> ~LastOne(m)
      /\ ~Trying(N)
  <2>1. /\ N.iteration \in 1 .. TargetLength
        /\ N.iteration = TargetLength <=> LastOne(m)
        /\ N.iteration < TargetLength <=> ~LastOne(m)
    BY <1>3, <1>4 DEF LastOne
  <2>2. N.processing <=> LastOne(m)
    BY <1>4
  <2>3. ~Trying(N)
    BY <2>1, <2>2 DEF Trying
  <2> QED BY <2>1, <2>3
<1>6. \A s \in Slots : Used(N, s) <=> ~LastOne(m) /\ s = 1 - index
  BY <1>2, <1>4, <1>5 DEF Used
<1>7. \A s \in Slots :
        s \in Dropped(m, accept) <=> \/ ~m.first /\ s = index
                                     \/ LastOne(m) /\ s = 1 - index
  BY <1>2 DEF Dropped, index
<1>8. \A s \in Slots : Used(m, s) <=> s = m.newIndex \/ ~m.first
  BY <1>3 DEF Used
<1>9. ASSUME NEW s \in Slots, Used(N, s)
      PROVE  /\ s \notin Dropped(m, accept) /\ Used(m, s)
             /\ StateOf(c, N, s) = StateOf(c, m, s)
  <2>1. ~LastOne(m) /\ s = 1 - index /\ s # index
    BY <1>2, <1>6, <1>9
  <2>2. CASE accept
    BY <1>1, <1>2, <1>4, <1>7, <1>8, <2>1, <2>2 DEF StateOf
  <2>3. CASE ~accept
    BY <1>1, <1>2, <1>4, <1>7, <1>8, <2>1, <2>3 DEF StateOf
  <2> QED BY <2>2, <2>3
<1>10. \A s \in Slots : ~Used(N, s) /\ Used(m, s) => s \in Dropped(m, accept)
  <2> SUFFICES ASSUME NEW s \in Slots, ~Used(N, s), Used(m, s)
               PROVE  s \in Dropped(m, accept)
    OBVIOUS
  <2>1. CASE m.first
    <3>1. accept /\ s = m.newIndex /\ s = 1 - index
      BY <1>2, <1>8, <2>1
    <3> QED BY <1>6, <1>7, <3>1
  <2>2. CASE ~m.first
    BY <1>2, <1>6, <1>7, <2>2
  <2> QED BY <2>1, <2>2
<1> QED BY <1>5, <1>9, <1>10

(* What a slot has when the iteration is over: its values are kept.         *)
SlotLeft(m, s, r) ==
  /\ SlotTyped(r) /\ r.derived = s.derived /\ r.draws = s.draws
  /\ r.iteration = s.iteration /\ r.values = s.values
  /\ r.n <= r.counted /\ r.counted <= Len(r.values)
  /\ Asked(r.iteration) <= Len(r.values)

LEMMA FinishedSlot ==
  ASSUME NEW m, NEW N, NEW accept \in BOOLEAN, Finishes(m, N, accept),
         ObjectTyped(m), ObjectOK(m), Trying(m), NEW s \in Slots
  PROVE  /\ SlotLeft(m, m.slot[s], N.slot[s])
         /\ N.slot[s].file = IF s \in Dropped(m, accept) THEN NoFile
                             ELSE m.slot[s].file
<1> DEFINE t == m.slot[s]
           b == Judged(m, s)
           file == IF s \in Dropped(m, accept) THEN NoFile ELSE t.file
<1>1. SlotTyped(t) /\ SlotOK(m, s)
  BY DEF ObjectTyped, ObjectOK
<1>2. /\ t.values \in Seq(Value) /\ Len(t.values) \in Nat
      /\ t.iteration \in Nat /\ t.file \in Nat
  BY <1>1, LenProperties DEF SlotTyped
<1>3. Asked(t.iteration) \in Nat /\ Asked(t.iteration) <= Len(t.values)
  BY <1>1, <1>2, AskedFacts DEF SlotOK
<1>4. /\ SlotTyped(b) /\ b.file = t.file /\ b.derived = t.derived
      /\ b.draws = t.draws /\ b.iteration = t.iteration /\ b.values = t.values
      /\ b.n <= b.counted /\ b.counted <= Len(b.values)
  <2>1. CASE m.first
    BY <1>1, <2>1 DEF Judged, SlotOK
  <2>2. CASE ~m.first
    <3>1. SlotCounted(m, t, b)
      BY <2>2, CountedSlots DEF Judged
    <3>2. NumValues(m) = Asked(New(m).iteration)
      BY <2>2, CountedSlots
    <3> DEFINE a == New(m).iteration
               d == t.iteration
    <3>3. a \in Nat /\ d \in Nat /\ a <= d
      <4>1. s = m.newIndex \/ s = 1 - m.newIndex
        BY SlotFacts
      <4>2. t = New(m) \/ t = Old(m)
        BY <4>1 DEF New, Old
      <4>3. /\ New(m).iteration \in Nat /\ Old(m).iteration \in Nat
            /\ New(m).iteration <= Old(m).iteration
        BY <2>2, SlotFacts DEF ObjectOK, StageOK
      <4> HIDE DEF t
      <4> QED BY <4>2, <4>3
    <3>4. Asked(a) <= Asked(d) /\ Asked(a) \in Nat /\ Asked(d) \in Nat
      <4> HIDE DEF a, d
      <4> QED BY <3>3, AskedGrows, AskedFacts
    <3>5. NumValues(m) \in Nat /\ NumValues(m) <= Len(t.values)
      BY <1>2, <1>3, <3>2, <3>4
    <3> HIDE DEF b, t
    <3> QED BY <3>1, <3>5 DEF SlotCounted
  <2> QED BY <2>1, <2>2
<1>5. N.slot[s] = [b EXCEPT !.file = IF s \in Dropped(m, accept) THEN NoFile ELSE @]
  BY DEF Finishes
<1> HIDE DEF b, t
<1>6. N.slot[s] = [b EXCEPT !.file = file]
  BY <1>4, <1>5
<1>7. file \in Nat
  BY <1>2 DEF NoFile
<1> HIDE DEF file
<1>8. /\ DOMAIN N.slot[s] = DOMAIN b /\ N.slot[s].file = file
      /\ N.slot[s].derived = b.derived /\ N.slot[s].draws = b.draws
      /\ N.slot[s].iteration = b.iteration /\ N.slot[s].values = b.values
      /\ N.slot[s].n = b.n /\ N.slot[s].counted = b.counted
  BY <1>4, <1>6 DEF SlotTyped
<1>9. SlotTyped(N.slot[s])
  BY <1>4, <1>7, <1>8 DEF SlotTyped
<1>10. SlotLeft(m, t, N.slot[s])
  BY <1>3, <1>4, <1>8, <1>9 DEF SlotLeft
<1> QED BY <1>8, <1>10 DEF file, t

LEMMA FinishedObject ==
  ASSUME NEW m, NEW N, NEW accept \in BOOLEAN, Finishes(m, N, accept),
         ObjectTyped(m), ObjectOK(m), Trying(m), m.first => accept,
         m.remaining = 0
  PROVE  ObjectTyped(N) /\ ObjectOK(N) /\ N.remaining = 0
<1>1. /\ DOMAIN N = DOMAIN m /\ DOMAIN N.slot = Slots
      /\ N.iteration = m.iteration + 1
      /\ N.cfg = (IF accept THEN m.next ELSE m.cfg)
      /\ N.next = (IF LastOne(m) THEN m.next ELSE m.prn)
      /\ N.prn = (IF LastOne(m) THEN m.prn ELSE m.prn + 1)
      /\ N.lastPrn = m.lastPrn /\ N.processing = LastOne(m)
      /\ N.z = m.z /\ N.nextz = m.nextz
      /\ N.newIndex = IndexAfter(m, accept) /\ N.first = FALSE
      /\ N.remaining = m.remaining
  BY DEF Finishes
<1>2. /\ \A s \in Slots : Used(N, s) => Used(m, s)
      /\ ~Trying(N) /\ N.iteration \in 1 .. TargetLength
      /\ N.iteration = TargetLength <=> LastOne(m)
  <2> DEFINE c == 0
  <2> HIDE DEF c
  <2>1. /\ \A s \in Slots : Used(N, s) =>
             /\ s \notin Dropped(m, accept) /\ Used(m, s)
             /\ StateOf(c, N, s) = StateOf(c, m, s)
        /\ \A s \in Slots : ~Used(N, s) /\ Used(m, s) => s \in Dropped(m, accept)
        /\ ~Trying(N) /\ N.iteration \in 1 .. TargetLength
        /\ N.iteration = TargetLength <=> LastOne(m)
    BY FinishedStates
  <2> QED BY <2>1
<1>3. /\ m.cfg \in Nat /\ m.next \in Nat /\ m.prn \in Nat /\ m.lastPrn \in Nat
      /\ m.z \in Nat /\ m.nextz \in Nat /\ m.remaining \in Nat
      /\ m.newIndex \in Slots /\ 1 - m.newIndex \in Slots
      /\ DOMAIN m = {"iteration", "cfg", "next", "prn", "lastPrn", "processing",
                     "slot", "z", "nextz", "newIndex", "first", "remaining"}
  BY SlotFacts DEF ObjectTyped
<1>4. \A s \in Slots : SlotLeft(m, m.slot[s], N.slot[s])
  BY FinishedSlot
<1>5. LastOne(m) \in BOOLEAN
  BY DEF LastOne
<1>6. ObjectTyped(N)
  <2>1. \A s \in Slots : SlotTyped(N.slot[s])
    BY <1>4 DEF SlotLeft
  <2>2. N.processing \in BOOLEAN /\ N.first \in BOOLEAN
    BY <1>1, <1>5
  <2>3. N.newIndex \in Slots
    BY <1>1, <1>3 DEF IndexAfter
  <2>4. N.cfg \in Nat /\ N.next \in Nat /\ N.prn \in Nat
    BY <1>1, <1>3
  <2>5. N.iteration \in 0 .. TargetLength
    BY <1>2, Bounds
  <2> QED BY <1>1, <1>3, <2>1, <2>2, <2>3, <2>4, <2>5 DEF ObjectTyped
<1>7. \A s \in Slots : SlotOK(N, s)
  <2> TAKE s \in Slots
  <2>1. SlotLeft(m, m.slot[s], N.slot[s])
    BY <1>4
  <2>2. Used(N, s) => m.slot[s].draws = 1 + Asked(m.slot[s].iteration)
    BY <1>2 DEF ObjectOK, SlotOK
  <2> QED BY <1>2, <2>1, <2>2 DEF SlotOK, SlotLeft
<1>8. StageOK(N)
  <2>1. m.nextz = m.lastPrn /\ m.prn = m.lastPrn + 1
    BY DEF ObjectOK, StageOK
  <2>2. N.processing <=> LastOne(m)
    BY <1>1
  <2>3. N.iteration > 0 /\ N.remaining = 0 /\ ~N.first
    BY <1>1, <1>2
  <2>4. ~N.processing => /\ N.nextz = N.lastPrn
                         /\ N.next = N.lastPrn + 1
                         /\ N.prn = N.lastPrn + 2
    BY <1>1, <1>3, <2>1, <2>2
  <2>5. N.iteration = TargetLength => N.processing
    BY <1>2, <2>2
  <2> QED BY <1>2, <2>3, <2>4, <2>5 DEF StageOK
<1> QED BY <1>1, <1>6, <1>7, <1>8 DEF ObjectOK

LEMMA FinishKeeps ==
  ASSUME IInv, NEW c \in Chains, NEW accept \in BOOLEAN, Finish(c, accept),
         Trying(mh[c]), mh[c].first => accept, mh[c].remaining = 0
  PROVE  IInv'
<1> DEFINE m == mh[c]
      index == IndexAfter(m, accept)
      dropped == Dropped(m, accept)
      order == IF index = 0 THEN <<0, 1>> ELSE <<1, 0>>
      pair == [i \in 1 .. 2 |->
                 IF order[i] \in dropped THEN m.slot[order[i]].file ELSE NoFile]
<1>1. /\ ObjectTyped(m) /\ ObjectOK(m) /\ CallsOK(c, m, underWay)
      /\ EvidenceOK(c, m, underWay)
      /\ underWay \subseteq Computation /\ moves \in Nat /\ notFinite \in Nat
      /\ Typed /\ \A s \in Slots : FileOK(c, m, s, files)
  BY ChainFacts DEF IInv
<1>2. RemoveFiles(pair) /\ UNCHANGED <<underWay, moves, notFinite>>
  BY DEF Finish, IndexAfter, Dropped, LastOne
<1> DEFINE a == IF index = 0 THEN 0 ELSE 1
           b == 1 - a
<1>3. /\ a \in Slots /\ b \in Slots /\ a # b
      /\ pair[1] = (IF a \in dropped THEN m.slot[a].file ELSE NoFile)
      /\ pair[2] = (IF b \in dropped THEN m.slot[b].file ELSE NoFile)
  <2> HIDE DEF index, dropped, m
  <2>1. CASE index = 0
    BY <2>1, SlotsAre
  <2>2. CASE index # 0
    BY <2>2, SlotsAre
  <2> QED BY <2>1, <2>2
<1> HIDE DEF pair, a, b, order, index, dropped
<1>4. PICK N : Steps(c, N) /\ Finishes(m, N, accept)
  BY <1>1, FinishFields
<1>5. /\ \A s \in Slots : Used(N, s) =>
           /\ s \notin dropped /\ Used(m, s)
           /\ StateOf(c, N, s) = StateOf(c, m, s)
      /\ \A s \in Slots : ~Used(N, s) /\ Used(m, s) => s \in dropped
  BY <1>1, <1>4, FinishedStates DEF dropped
<1>6. ASSUME NEW s \in Slots
      PROVE  /\ SlotLeft(m, m.slot[s], N.slot[s])
             /\ N.slot[s].file = IF s \in dropped THEN NoFile
                                 ELSE m.slot[s].file
  BY <1>1, <1>4, FinishedSlot DEF dropped
<1>7. ObjectTyped(N) /\ ObjectOK(N) /\ N.remaining = 0
  BY <1>1, <1>4, FinishedObject
<1>8. \A s \in Slots : ~Used(N, s) => N.slot[s].file = NoFile
  BY <1>1, <1>5, <1>6 DEF FileOK
<1>9. IdsOK(DOMAIN files', newUuid', unused') /\ FilesOK(mh', files')
  <2>1. \A s \in Slots : Used(N, s) =>
           /\ s \notin dropped /\ Used(mh[c], s)
           /\ N.slot[s].file = mh[c].slot[s].file
           /\ StateOf(c, N, s) = StateOf(c, mh[c], s)
    BY <1>5, <1>6
  <2>2. \A s \in Slots : Used(mh[c], s) /\ ~Used(N, s) => s \in dropped
    BY <1>5
  <2> QED BY <1>2, <1>3, <1>4, <1>8, <2>1, <2>2, StatesGone
<1>10. CallsOf(c, underWay) = {}
  BY <1>1, NothingUnderWay
<1>11. CallsOK(c, N, underWay')
  BY <1>2, <1>7, <1>10, NoCallsOK
<1>12. EvidenceOK(c, N, underWay')
  <2> SUFFICES ASSUME NEW s \in Slots, Used(N, s),
                      NEW i \in 1 .. Asked(N.slot[s].iteration)
               PROVE  ValueOK(c, N, s, i)
    BY DEF EvidenceOK
  <2>1. /\ N.slot[s].iteration = m.slot[s].iteration
        /\ N.slot[s].values = m.slot[s].values
        /\ N.slot[s].derived = m.slot[s].derived
    BY <1>6 DEF SlotLeft
  <2>2. Used(m, s) /\ StateOf(c, N, s) = StateOf(c, m, s)
    BY <1>5
  <2>3. ValueOK(c, m, s, i)
    BY <1>1, <1>10, <2>1, <2>2 DEF EvidenceOK, Pending
  <2> QED BY <2>1, <2>2, <2>3 DEF ValueOK
<1>13. /\ underWay' \subseteq Computation /\ moves' \in Nat /\ notFinite' \in Nat
       /\ \A d \in Chains : CallsOf(d, underWay') = CallsOf(d, underWay)
  BY <1>1, <1>2
<1> QED
  BY <1>4, <1>7, <1>9, <1>11, <1>12, <1>13, StepKeeps

LEMMA ContinueKeeps ==
  ASSUME IInv, NEW c \in Chains, Continue(c)
  PROVE  IInv'
<1>1. StageOK(mh[c]) /\ ObjectTyped(mh[c])
  BY ChainFacts
<1>2. Trying(mh[c])
  BY DEF Continue, Trying
<1>3. \/ Finish(c, TRUE)
      \/ ~mh[c].first /\ Finish(c, FALSE)
  BY DEF Continue
<1>4. mh[c].remaining = 0
  BY <1>1 DEF Continue, StageOK
<1>5. CASE Finish(c, TRUE)
  BY <1>2, <1>4, <1>5, FinishKeeps
<1>6. CASE ~mh[c].first /\ Finish(c, FALSE)
  BY <1>2, <1>4, <1>6, FinishKeeps
<1> QED BY <1>3, <1>5, <1>6

-----------------------------------------------------------------------------
(* The invariant holds                                                     *)

LEMMA InvNext == IInv /\ [Next]_vars => IInv'
<1> SUFFICES ASSUME IInv, [Next]_vars
             PROVE  IInv'
  OBVIOUS
<1>1. CASE UNCHANGED vars
  <2>1. /\ mh' = mh /\ underWay' = underWay /\ files' = files
        /\ newUuid' = newUuid /\ unused' = unused
        /\ moves' = moves /\ notFinite' = notFinite
    BY <1>1 DEF vars, fileVars
  <2>2. Typed'
    BY <2>1 DEF IInv, Typed
  <2>3. IdsOK(DOMAIN files, newUuid, unused)'
    BY <2>1 DEF IInv
  <2>4. FilesOK(mh, files)'
    BY <2>1 DEF IInv
  <2>5. ASSUME NEW c \in Chains
        PROVE  /\ ObjectOK(mh[c])'
               /\ CallsOK(c, mh[c], underWay)'
               /\ EvidenceOK(c, mh[c], underWay)'
    BY <2>1 DEF IInv
  <2> QED BY <2>2, <2>3, <2>4, <2>5 DEF IInv
<1>2. ASSUME NEW c \in Chains, HeadStep(c)
      PROVE  IInv'
  BY <1>2, PrepareKeeps, RequestKeeps, ContinueKeeps, EraseKeeps DEF HeadStep
<1>3. ASSUME NEW c \in Chains, Move(c)
      PROVE  IInv'
  BY <1>3, MoveKeeps
<1>4. ASSUME NEW t \in underWay, Result(t)
      PROVE  IInv'
  BY <1>4, ResultKeeps
<1> QED BY <1>1, <1>2, <1>3, <1>4 DEF Next, Finished

LEMMA InvHolds == Spec => []IInv
BY InvInit, InvNext, PTL DEF Spec

-----------------------------------------------------------------------------
(* What the invariant says of the program                                  *)

LEMMA RunningChains ==
  ASSUME NEW c \in Running
  PROVE  c \in Chains /\ mh[c].iteration < TargetLength
BY DEF Running

(* The configuration that slot s of a running chain stands for.             *)
LEMMA WhatSlotHolds ==
  ASSUME NEW c \in Running, NEW s
  PROVE  Holds(c, s) = IF Used(mh[c], s) THEN {StateOf(c, mh[c], s)} ELSE {}
BY RunningChains DEF Holds, Used, StateOf

LEMMA InvOldStateIsAhead == IInv => OldStateIsAhead
BY ChainFacts, RunningChains DEF OldStateIsAhead, StageOK, Trying

LEMMA InvNothingStray == IInv => NothingStray
<1> SUFFICES ASSUME IInv, NEW c \in Chains
             PROVE  LET own == {t \in underWay : t.chain = c}
                    IN  /\ mh[c].remaining = Cardinality(own)
                        /\ \A t, u \in own : t.index = u.index /\ t.i = u.i => t = u
                        /\ own # {} => mh[c].processing /\ c \in Running
  BY DEF NothingStray
<1> DEFINE own == {t \in underWay : t.chain = c}
<1>1. own = CallsOf(c, underWay) /\ own \subseteq Computation
  BY ChainFacts DEF CallsOf
<1>2. mh[c].remaining = Cardinality(own) /\ \A t \in own : CallOK(mh[c], t)
  BY <1>1, ChainFacts DEF CallsOK
<1>3. ASSUME NEW t \in own, NEW u \in own, t.index = u.index, t.i = u.i
      PROVE  t = u
  <2>1. t.chain = c /\ u.chain = c /\ t \in Computation /\ u \in Computation
    BY <1>1
  <2>2. t.file = u.file /\ t.seed = u.seed
    BY <1>2, <1>3 DEF CallOK
  <2> HIDE DEF own
  <2> QED BY <1>3, <2>1, <2>2 DEF Computation
<1>4. own # {} => mh[c].processing /\ c \in Running
  BY <1>2 DEF CallOK, Trying, Running
<1> QED BY <1>2, <1>3, <1>4

LEMMA InvEvidenceIsOwn == IInv => EvidenceIsOwn
<1> SUFFICES ASSUME IInv, NEW c \in Running,
                    mh[c].processing, ~mh[c].first, mh[c].remaining = 0,
                    NEW s \in Slots,
                    NEW i \in 1 .. Counted(mh[c])[s].counted
             PROVE  Counted(mh[c])[s].values[i].of =
                      <<Holds(c, s), <<Counted(mh[c])[s].derived, i + 1>>>>
  BY DEF EvidenceIsOwn
<1> DEFINE m == mh[c]
           r == Counted(m)[s]
<1>1. /\ ObjectTyped(m) /\ ObjectOK(m) /\ CallsOK(c, m, underWay)
      /\ EvidenceOK(c, m, underWay) /\ c \in Chains
  BY ChainFacts, RunningChains DEF IInv
<1>2. Trying(m) /\ Used(m, s)
  BY RunningChains DEF Trying, Used
<1>3. /\ SlotCounted(m, m.slot[s], r)
      /\ NumValues(m) = Asked(New(m).iteration) /\ NumValues(m) \in Nat
  BY <1>1, <1>2, CountedSlots
<1>4. /\ New(m).iteration \in Nat /\ m.slot[s].iteration \in Nat
      /\ New(m).iteration <= m.slot[s].iteration
  <2>1. /\ s = m.newIndex \/ s = 1 - m.newIndex
        /\ New(m) = m.slot[m.newIndex] /\ Old(m) = m.slot[1 - m.newIndex]
        /\ New(m).iteration \in Nat /\ Old(m).iteration \in Nat
    BY <1>1, SlotFacts
  <2>2. New(m).iteration <= Old(m).iteration
    BY <1>1, <1>2 DEF ObjectOK, StageOK
  <2> QED BY <2>1, <2>2
<1> DEFINE a == New(m).iteration
           b == m.slot[s].iteration
<1>5. a \in Nat /\ b \in Nat /\ a <= b
  BY <1>4
<1>6. Asked(a) <= Asked(b) /\ Asked(b) \in Nat
  <2> HIDE DEF a, b
  <2> QED BY <1>5, AskedGrows, AskedFacts
<1>7. i \in 1 .. Asked(m.slot[s].iteration)
  <2>1. r.counted = NumValues(m)
    BY <1>3 DEF SlotCounted
  <2>2. i \in 1 .. NumValues(m)
    BY <2>1
  <2> QED BY <1>3, <1>6, <2>2
<1>8. CallsOf(c, underWay) = {}
  BY <1>1, NothingUnderWay
<1>9. ValueOK(c, m, s, i)
  BY <1>1, <1>2, <1>7, <1>8 DEF EvidenceOK, Pending
<1>10. r.values = m.slot[s].values /\ r.derived = m.slot[s].derived
  BY <1>3 DEF SlotCounted
<1>11. Holds(c, s) = {StateOf(c, m, s)}
  BY <1>2, WhatSlotHolds
<1> QED BY <1>9, <1>10, <1>11 DEF ValueOK

LEMMA InvTypeOK == IInv => MHTypeOK
<1> SUFFICES ASSUME IInv PROVE MHTypeOK
  OBVIOUS
<1>1. ASSUME NEW c \in Chains
      PROVE  /\ mh[c].iteration \in 0 .. TargetLength
             /\ {mh[c].processing, mh[c].first} \subseteq BOOLEAN
             /\ mh[c].newIndex \in Slots
             /\ {mh[c].cfg, mh[c].next, mh[c].prn, mh[c].lastPrn, mh[c].z,
                 mh[c].nextz, mh[c].remaining} \subseteq Nat
  BY ChainFacts DEF ObjectTyped
<1>2. ASSUME NEW c \in Chains, NEW s \in Slots
      PROVE  /\ mh[c].slot[s].file \in DOMAIN files \union {NoFile}
             /\ mh[c].slot[s].n <= mh[c].slot[s].counted
             /\ mh[c].slot[s].counted <= Len(mh[c].slot[s].values)
  BY ChainFacts DEF FileOK, SlotOK
<1>3. DOMAIN files \subseteq 1 .. newUuid
  BY DEF IInv, IdsOK
<1>4. unused \in Seq(0 .. newUuid)
  <2>1. /\ unused \in Seq(Nat) /\ newUuid \in Nat
        /\ \A i \in DOMAIN unused : unused[i] + 1 \in 1 .. newUuid
    BY DEF IInv, IdsOK
  <2>2. Len(unused) \in Nat /\ DOMAIN unused = 1 .. Len(unused)
    BY <2>1, LenProperties
  <2>3. \A i \in 1 .. Len(unused) : unused[i] \in 0 .. newUuid
    BY <2>1, <2>2, ElementOfSeq
  <2>4. unused = [i \in 1 .. Len(unused) |-> unused[i]]
    BY <2>1, <2>2, SeqDef
  <2>5. unused \in [1 .. Len(unused) -> 0 .. newUuid]
    BY <2>3, <2>4
  <2> QED BY <2>2, <2>5, SeqDef
<1> QED BY <1>1, <1>2, <1>3, <1>4 DEF MHTypeOK

LEMMA InvFilesMatchStates == IInv => FilesMatchStates
<1> SUFFICES ASSUME IInv PROVE FilesMatchStates
  OBVIOUS
<1>1. /\ FilesOK(mh, files) /\ IdsOK(DOMAIN files, newUuid, unused)
  BY DEF IInv
<1>2. ASSUME NEW p \in Running \X Slots
      PROVE  /\ p[1] \in Chains /\ p[2] \in Slots /\ p[1] \in Running
             /\ p = <<p[1], p[2]>>
             /\ p \in InUse <=> Used(mh[p[1]], p[2])
             /\ FileOK(p[1], mh[p[1]], p[2], files)
             /\ p \in InUse => Holds(p[1], p[2]) = {StateOf(p[1], mh[p[1]], p[2])}
  <2>1. p[1] \in Running /\ p[2] \in Slots /\ p = <<p[1], p[2]>>
    OBVIOUS
  <2>2. p[1] \in Chains
    BY <2>1, RunningChains
  <2>3. FileOK(p[1], mh[p[1]], p[2], files)
    BY <1>1, <2>1, <2>2 DEF FilesOK
  <2>4. Holds(p[1], p[2]) =
          IF Used(mh[p[1]], p[2]) THEN {StateOf(p[1], mh[p[1]], p[2])} ELSE {}
    BY <2>1, WhatSlotHolds
  <2> QED BY <2>1, <2>2, <2>3, <2>4 DEF InUse
<1>3. \A p \in InUse : p \in Running \X Slots
  BY DEF InUse
<1>4. ASSUME NEW p \in InUse
      PROVE  ContentOf(FileOf(p)) = Holds(p[1], p[2])
  <2>1. FileOf(p) \in DOMAIN files /\ files[FileOf(p)] = StateOf(p[1], mh[p[1]], p[2])
    BY <1>2, <1>3 DEF FileOK, FileOf
  <2>2. ContentOf(FileOf(p)) = {files[FileOf(p)]}
    BY <2>1 DEF ContentOf
  <2> QED BY <1>2, <1>3, <2>1, <2>2
<1>5. ASSUME NEW p \in InUse, NEW q \in InUse, FileOf(p) = FileOf(q)
      PROVE  p = q
  <2>1. p[1] = q[1] /\ p[2] = q[2]
    BY <1>1, <1>2, <1>3, <1>5 DEF FilesOK, FileOf
  <2> QED BY <1>2, <1>3, <2>1
<1>6. \A p \in (Running \X Slots) \ InUse : FileOf(p) = NoFile
  BY <1>2 DEF FileOK, FileOf
<1>7. ASSUME NEW f \in DOMAIN files
      PROVE  \E p \in InUse : FileOf(p) = f
  <2>1. PICK c \in Chains, s \in Slots : Used(mh[c], s) /\ mh[c].slot[s].file = f
    BY <1>1 DEF FilesOK
  <2>2. c \in Running
    BY <2>1 DEF Used, Running
  <2>3. <<c, s>> \in Running \X Slots
    BY <2>2
  <2>4. <<c, s>> \in InUse
    BY <1>2, <2>1, <2>3
  <2>5. FileOf(<<c, s>>) = f
    BY <2>1 DEF FileOf
  <2> QED BY <2>4, <2>5
<1>8. {u + 1 : u \in ToSet(unused)} = (1 .. newUuid) \ DOMAIN files
  <2>1. ToSet(unused) = {unused[i] : i \in DOMAIN unused}
    BY DEF ToSet
  <2>2. ASSUME NEW g \in (1 .. newUuid) \ DOMAIN files
        PROVE  g \in {u + 1 : u \in ToSet(unused)}
    <3>1. PICK i \in DOMAIN unused : unused[i] = g - 1
      BY <1>1 DEF IdsOK
    <3>2. g = unused[i] + 1
      BY <1>1, <3>1 DEF IdsOK
    <3> QED BY <2>1, <3>2
  <2>3. ASSUME NEW u \in ToSet(unused)
        PROVE  u + 1 \in (1 .. newUuid) \ DOMAIN files
    BY <1>1, <2>1 DEF IdsOK
  <2> QED BY <2>2, <2>3
<1>9. IdsComeBack
  BY <1>1, <1>8 DEF IdsOK, IdsComeBack
<1>10. StatesHaveFiles
  BY <1>4, <1>5, <1>6 DEF StatesHaveFiles
<1>11. NothingLeftBehind
  BY <1>7 DEF NothingLeftBehind
<1> QED BY <1>9, <1>10, <1>11, InvTypeOK DEF FilesMatchStates

(* The temporary files are those of the states in use, each with the        *)
(* configuration of its state; every other id can be used again, once.      *)
THEOREM FilesAreTheirs == Spec => []FilesMatchStates
BY InvHolds, InvFilesMatchStates, PTL

(* A chain waits exactly for the results it asked for, and each is about a  *)
(* value of its own.                                                        *)
THEOREM ResultsAreAwaited == Spec => []NothingStray
BY InvHolds, InvNothingStray, PTL

(* What is counted for the acceptance test was computed for the two states  *)
(* that the test compares.                                                  *)
THEOREM EvidenceIsAboutStates == Spec => []EvidenceIsOwn
BY InvHolds, InvEvidenceIsOwn, PTL

(* The old state is never behind the new one in values asked for.           *)
THEOREM OldHasValues == Spec => []OldStateIsAhead
BY InvHolds, InvOldStateIsAhead, PTL

-----------------------------------------------------------------------------
(* The chains implement MarkovChains                                       *)

(* What an object says of its chain.                                        *)
StepIn(m) == m.iteration + (IF m.first /\ ~Ended(m) THEN 1 ELSE 0)
ProposalIn(m) ==
  IF Ended(m) \/ (m.first /\ m.iteration + 1 = TargetLength) THEN 0
  ELSE IF m.first THEN Base(m) + 1
  ELSE m.next
CutoffIn(m) ==
  IF Ended(m) THEN m.nextz
  ELSE IF m.first THEN Base(m)
  ELSE IF m.processing THEN m.z ELSE m.nextz
PositionIn(m) ==
  IF Ended(m) THEN m.prn
  ELSE IF ~m.first THEN Base(m)
  ELSE IF m.iteration + 1 = TargetLength THEN Base(m) + 1
  ELSE Base(m) + 2

SameIn(m, N) ==
  /\ StepIn(N) = StepIn(m) /\ N.cfg = m.cfg
  /\ ProposalIn(N) = ProposalIn(m) /\ CutoffIn(N) = CutoffIn(m)
  /\ PositionIn(N) = PositionIn(m)

DecidedIn(m, N, accept) ==
  /\ StepIn(m) < TargetLength /\ StepIn(N) = StepIn(m) + 1
  /\ N.cfg = (IF accept THEN ProposalIn(m) ELSE m.cfg)
  /\ CutoffIn(N) = PositionIn(m)
  /\ IF StepIn(N) < TargetLength
     THEN /\ ProposalIn(N) = PositionIn(m) + 1
          /\ PositionIn(N) = PositionIn(m) + 2
     ELSE /\ ProposalIn(N) = 0
          /\ PositionIn(N) = PositionIn(m) + 1

Lengths == [c \in Chains |-> StepIn(mh[c])]
CurrentStates == [c \in Chains |-> mh[c].cfg]
Proposals == [c \in Chains |-> ProposalIn(mh[c])]
Cutoffs == [c \in Chains |-> CutoffIn(mh[c])]
Positions == [c \in Chains |-> PositionIn(mh[c])]

LEMMA SequentialStutters ==
  ASSUME Typed, NEW c \in Chains, NEW N, Steps(c, N), SameIn(mh[c], N)
  PROVE  UNCHANGED Sequential!chainVars
<1>1. mh'[c] = N /\ \A d \in Chains : d # c => mh'[d] = mh[d]
  BY StepOf
<1>2. ASSUME NEW d \in Chains
      PROVE  /\ StepIn(mh'[d]) = StepIn(mh[d]) /\ mh'[d].cfg = mh[d].cfg
             /\ ProposalIn(mh'[d]) = ProposalIn(mh[d])
             /\ CutoffIn(mh'[d]) = CutoffIn(mh[d])
             /\ PositionIn(mh'[d]) = PositionIn(mh[d])
  <2>1. CASE d = c
    BY <1>1, <2>1 DEF SameIn
  <2>2. CASE d # c
    BY <1>1, <2>2
  <2> QED BY <2>1, <2>2
<1>3. /\ Lengths' = Lengths /\ CurrentStates' = CurrentStates /\ Proposals' = Proposals
      /\ Cutoffs' = Cutoffs /\ Positions' = Positions
  BY <1>2 DEF Lengths, CurrentStates, Proposals, Cutoffs, Positions
<1> QED
  BY <1>3 DEF Sequential!chainVars, Lengths, CurrentStates, Proposals, Cutoffs,
              Positions, StepIn, ProposalIn, CutoffIn, PositionIn

LEMMA SequentialDecides ==
  ASSUME Typed, NEW c \in Chains, NEW N, Steps(c, N), NEW accept \in BOOLEAN,
         DecidedIn(mh[c], N, accept)
  PROVE  Sequential!Decide(c, accept)
<1>1. mh'[c] = N /\ \A d \in Chains : d # c => mh'[d] = mh[d]
  BY StepOf
<1> DEFINE step == Lengths
           state == CurrentStates
           proposal == Proposals
           cutoff == Cutoffs
           position == Positions
<1>2. /\ step[c] = StepIn(mh[c]) /\ step'[c] = StepIn(N)
      /\ proposal[c] = ProposalIn(mh[c]) /\ state[c] = mh[c].cfg
      /\ position[c] = PositionIn(mh[c])
  BY <1>1 DEF Lengths, CurrentStates, Proposals, Cutoffs, Positions
<1>3. /\ step[c] < TargetLength
      /\ step' = [step EXCEPT ![c] = @ + 1]
      /\ state' = [state EXCEPT ![c] = IF accept THEN proposal[c] ELSE @]
      /\ cutoff' = [cutoff EXCEPT ![c] = position[c]]
      /\ IF step'[c] < TargetLength
         THEN /\ proposal' = [proposal EXCEPT ![c] = position[c] + 1]
              /\ position' = [position EXCEPT ![c] = @ + 2]
         ELSE /\ proposal' = [proposal EXCEPT ![c] = 0]
              /\ position' = [position EXCEPT ![c] = @ + 1]
  <2>1. step' = [step EXCEPT ![c] = @ + 1]
    BY <1>1, <1>2 DEF Lengths, DecidedIn
  <2>2. state' = [state EXCEPT ![c] = IF accept THEN proposal[c] ELSE @]
    BY <1>1, <1>2 DEF CurrentStates, DecidedIn
  <2>3. cutoff' = [cutoff EXCEPT ![c] = position[c]]
    BY <1>1, <1>2 DEF Cutoffs, DecidedIn
  <2>4. CASE step'[c] < TargetLength
    <3>1. proposal' = [proposal EXCEPT ![c] = position[c] + 1]
      BY <1>1, <1>2, <2>4 DEF Proposals, DecidedIn
    <3>2. position' = [position EXCEPT ![c] = @ + 2]
      BY <1>1, <1>2, <2>4 DEF Positions, DecidedIn
    <3> QED BY <1>2, <2>1, <2>2, <2>3, <2>4, <3>1, <3>2 DEF DecidedIn
  <2>5. CASE ~(step'[c] < TargetLength)
    <3>1. proposal' = [proposal EXCEPT ![c] = 0]
      BY <1>1, <1>2, <2>5 DEF Proposals, DecidedIn
    <3>2. position' = [position EXCEPT ![c] = @ + 1]
      BY <1>1, <1>2, <2>5 DEF Positions, DecidedIn
    <3> QED BY <1>2, <2>1, <2>2, <2>3, <2>5, <3>1, <3>2 DEF DecidedIn
  <2> QED BY <2>4, <2>5
<1> QED
  BY <1>3 DEF Sequential!Decide, Sequential!None, Lengths, CurrentStates, Proposals,
              Cutoffs, Positions, StepIn, ProposalIn, CutoffIn, PositionIn

LEMMA PrepareSequential ==
  ASSUME IInv, NEW c \in Chains, Prepare(c)
  PROVE  UNCHANGED Sequential!chainVars
<1> DEFINE m == mh[c]
<1>1. Typed /\ ObjectTyped(m) /\ StageOK(m) /\ IdsOK(DOMAIN files, newUuid, unused)
  BY ChainFacts DEF IInv
<1>2. FreshId \in Nat
  <2> DEFINE f == FreshId
  <2>1. f = 1 + (IF unused = <<>> THEN newUuid ELSE Last(unused))
    BY DEF FreshId
  <2> HIDE DEF f
  <2>2. f \in Nat
    BY <1>1, <2>1, TakesId
  <2> QED BY <2>2 DEF f
<1>3. PICK N : Steps(c, N) /\ Prepared(m, N, FreshId)
  BY <1>1, <1>2, PrepareFields
<1>4. /\ N.iteration = m.iteration /\ N.cfg = m.cfg
      /\ N.next = m.next /\ N.lastPrn = m.prn /\ N.processing = TRUE
      /\ N.z = m.nextz /\ N.first = m.first
  BY <1>3 DEF Prepared
<1>5. ~m.processing /\ m.iteration # TargetLength
  BY <1>1 DEF Prepare, StageOK
<1>6. Base(N) = Base(m) /\ ~Ended(m) /\ ~Ended(N)
  BY <1>4, <1>5 DEF Base, Ended
<1>7. SameIn(m, N)
  BY <1>4, <1>5, <1>6 DEF SameIn, StepIn, ProposalIn, CutoffIn, PositionIn
<1> QED BY <1>1, <1>3, <1>7, SequentialStutters

(* An object that keeps its fields but for its slots and the results it     *)
(* waits for.                                                               *)
Keeps(m, N) ==
  /\ N.iteration = m.iteration /\ N.cfg = m.cfg
  /\ N.next = m.next /\ N.prn = m.prn
  /\ N.lastPrn = m.lastPrn /\ N.processing = m.processing
  /\ N.z = m.z /\ N.nextz = m.nextz /\ N.first = m.first

LEMMA KeepsSame ==
  ASSUME NEW m, NEW N, Keeps(m, N)
  PROVE  SameIn(m, N)
<1>1. Base(N) = Base(m) /\ (Ended(N) <=> Ended(m))
  BY DEF Keeps, Base, Ended
<1> QED
  BY <1>1 DEF Keeps, SameIn, StepIn, ProposalIn, CutoffIn, PositionIn

LEMMA RequestSequential ==
  ASSUME IInv, NEW c \in Chains, Request(c)
  PROVE  UNCHANGED Sequential!chainVars
<1>1. Typed
  BY DEF IInv
<1>2. PICK N : Steps(c, N) /\ Asks(mh[c], N)
  BY <1>1, RequestFields
<1>3. Keeps(mh[c], N)
  BY <1>2 DEF Asks, Keeps
<1> QED BY <1>1, <1>2, <1>3, KeepsSame, SequentialStutters

LEMMA ResultSequential ==
  ASSUME IInv, NEW t \in underWay, Result(t)
  PROVE  UNCHANGED Sequential!chainVars
<1>1. Typed /\ t.chain \in Chains
  BY DEF IInv, Typed, Computation
<1>2. PICK finite \in BOOLEAN :
        mh' = [mh EXCEPT
                ![t.chain].remaining = @ - 1,
                ![t.chain].slot[t.index].values[t.i] =
                   [of |-> <<ContentOf(t.file), t.seed>>, finite |-> finite]]
  BY DEF Result
<1> DEFINE x == [of |-> <<ContentOf(t.file), t.seed>>, finite |-> finite]
<1>3. mh' = [mh EXCEPT ![t.chain].remaining = @ - 1,
                       ![t.chain].slot[t.index].values[t.i] = x]
  BY <1>2
<1> HIDE DEF x
<1>4. PICK N : Steps(t.chain, N) /\ Receives(mh[t.chain], N, t.index, t.i, x)
  BY <1>1, <1>3, ResultFields
<1>5. Keeps(mh[t.chain], N)
  BY <1>4 DEF Receives, Keeps
<1>6. SameIn(mh[t.chain], N)
  BY <1>5, KeepsSame
<1> QED BY <1>1, <1>4, <1>6, SequentialStutters

LEMMA EraseSequential ==
  ASSUME IInv, NEW c \in Chains, Erase(c)
  PROVE  UNCHANGED Sequential!chainVars
<1> DEFINE m == mh[c]
           N == Erased(m)
<1>1. Typed /\ ObjectTyped(m)
  BY ChainFacts DEF IInv
<1>2. Steps(c, N)
  BY DEF Erase, Steps
<1>3. Keeps(m, N)
  BY <1>1 DEF Erased, ObjectTyped, Keeps
<1> HIDE DEF N
<1> QED BY <1>1, <1>2, <1>3, KeepsSame, SequentialStutters

(* A moved chain is where the object it left behind was.                    *)
LEMMA MoveSequential ==
  ASSUME IInv, NEW c \in Chains, Move(c)
  PROVE  UNCHANGED Sequential!chainVars
<1> DEFINE m == mh[c]
           N == Algorithm(m.iteration - 1, m.cfg, m.lastPrn)
<1>1. Typed /\ ObjectTyped(m) /\ StageOK(m)
  BY ChainFacts DEF IInv
<1>2. ~m.processing /\ ~m.first /\ Steps(c, N)
  BY DEF Move, Steps
<1>3. /\ m.iteration - 1 \in 0 .. TargetLength - 1 /\ m.iteration < TargetLength
      /\ m.iteration \in Nat /\ m.cfg \in Nat /\ m.lastPrn \in Nat
  BY <1>1, <1>2, Bounds DEF StageOK, ObjectTyped
<1>4. Begins(N, m.iteration - 1, m.cfg, m.lastPrn)
  BY <1>3, AlgorithmBegins
<1> HIDE DEF N
<1>5. /\ N.iteration = m.iteration - 1 /\ N.cfg = m.cfg
      /\ N.prn = m.lastPrn /\ N.processing = FALSE /\ N.first = TRUE
  BY <1>4 DEF Begins
<1>6. m.nextz = m.lastPrn /\ m.next = m.lastPrn + 1 /\ m.prn = m.lastPrn + 2
  BY <1>1, <1>2 DEF StageOK
<1>7. /\ Base(N) = m.lastPrn /\ Base(m) = m.lastPrn + 2
      /\ ~Ended(m) /\ ~Ended(N) /\ N.iteration + 1 = m.iteration
      /\ N.iteration + 1 # TargetLength
  BY <1>2, <1>3, <1>5, <1>6, Bounds DEF Base, Ended
<1>8. SameIn(m, N)
  BY <1>2, <1>3, <1>5, <1>6, <1>7
     DEF SameIn, StepIn, ProposalIn, CutoffIn, PositionIn
<1> QED BY <1>1, <1>2, <1>8, SequentialStutters

(* Finishing an iteration decides about the proposal; the first iteration   *)
(* of an object only brings its state back.                                 *)
LEMMA FinishSequential ==
  ASSUME IInv, NEW c \in Chains, NEW accept \in BOOLEAN, Finish(c, accept),
         Trying(mh[c]), mh[c].first => accept
  PROVE  [Sequential!Next]_(Sequential!chainVars)
<1> DEFINE m == mh[c]
<1>1. Typed /\ ObjectTyped(m) /\ StageOK(m)
  BY ChainFacts DEF IInv
<1>2. PICK N : Steps(c, N) /\ Finishes(m, N, accept)
  BY <1>1, FinishFields
<1>3. /\ N.iteration = m.iteration + 1
      /\ N.cfg = (IF accept THEN m.next ELSE m.cfg)
      /\ N.next = (IF LastOne(m) THEN m.next ELSE m.prn)
      /\ N.prn = (IF LastOne(m) THEN m.prn ELSE m.prn + 1)
      /\ N.processing = LastOne(m) /\ N.nextz = m.nextz
      /\ N.first = FALSE
  BY <1>2 DEF Finishes
<1>4. /\ m.processing /\ m.iteration < TargetLength /\ m.iteration \in Nat
      /\ m.nextz = m.lastPrn /\ m.prn = m.lastPrn + 1 /\ m.lastPrn \in Nat
      /\ m.first => m.next = m.cfg
  BY <1>1 DEF Trying, StageOK, ObjectTyped
<1>5. /\ ~Ended(m) /\ Base(m) = m.lastPrn
      /\ Ended(N) <=> LastOne(m)
      /\ LastOne(m) <=> m.iteration + 1 = TargetLength
      /\ N.processing <=> LastOne(m)
  <2>1. ~Ended(m) /\ Base(m) = m.lastPrn
    BY <1>4, Bounds DEF Ended, Base
  <2>2. N.processing <=> LastOne(m)
    BY <1>3
  <2>3. Ended(N) <=> LastOne(m)
    BY <1>3 DEF Ended, LastOne
  <2> QED BY <2>1, <2>2, <2>3 DEF LastOne
<1>6. CASE m.first
  <2>1. SameIn(m, N)
    <3>1. N.cfg = m.cfg
      BY <1>3, <1>4, <1>6
    <3>2. CASE LastOne(m)
      BY <1>3, <1>4, <1>5, <1>6, <3>1, <3>2
         DEF SameIn, StepIn, ProposalIn, CutoffIn, PositionIn
    <3>3. CASE ~LastOne(m)
      <4>1. Base(N) = N.prn
        BY <1>5, <3>3 DEF Base
      <4> QED
        BY <1>3, <1>4, <1>5, <1>6, <3>1, <3>3, <4>1
           DEF SameIn, StepIn, ProposalIn, CutoffIn, PositionIn
    <3> QED BY <3>2, <3>3
  <2> QED BY <1>1, <1>2, <2>1, SequentialStutters
<1>7. CASE ~m.first
  <2>1. DecidedIn(m, N, accept)
    <3>1. /\ StepIn(m) = m.iteration /\ StepIn(N) = m.iteration + 1
          /\ ProposalIn(m) = m.next /\ PositionIn(m) = m.lastPrn
      BY <1>3, <1>4, <1>5, <1>7 DEF StepIn, ProposalIn, PositionIn
    <3>2. CutoffIn(N) = m.lastPrn
      <4>1. CASE LastOne(m)
        BY <1>3, <1>4, <1>5, <4>1 DEF CutoffIn
      <4>2. CASE ~LastOne(m)
        BY <1>3, <1>4, <1>5, <4>2 DEF CutoffIn
      <4> QED BY <4>1, <4>2
    <3>3. CASE LastOne(m)
      <4>1. ~(StepIn(N) < TargetLength)
        BY <1>4, <1>5, <3>1, <3>3, Bounds
      <4>2. ProposalIn(N) = 0 /\ PositionIn(N) = m.lastPrn + 1
        BY <1>3, <1>4, <1>5, <3>3 DEF ProposalIn, PositionIn
      <4> QED BY <1>3, <1>4, <3>1, <3>2, <4>1, <4>2 DEF DecidedIn
    <3>4. CASE ~LastOne(m)
      <4>1. StepIn(N) < TargetLength
        BY <1>4, <1>5, <3>1, <3>4, Bounds
      <4>2. Base(N) = N.prn
        BY <1>5, <3>4 DEF Base
      <4>3. /\ ProposalIn(N) = m.lastPrn + 1
            /\ PositionIn(N) = m.lastPrn + 2
        BY <1>3, <1>4, <1>5, <3>4, <4>2 DEF ProposalIn, PositionIn
      <4> QED BY <1>3, <1>4, <3>1, <3>2, <4>1, <4>3 DEF DecidedIn
    <3> QED BY <3>3, <3>4
  <2>2. Sequential!Decide(c, accept)
    BY <1>1, <1>2, <2>1, SequentialDecides
  <2> QED BY <2>2 DEF Sequential!Next
<1> QED BY <1>6, <1>7

LEMMA ContinueSequential ==
  ASSUME IInv, NEW c \in Chains, Continue(c)
  PROVE  [Sequential!Next]_(Sequential!chainVars)
<1>1. Trying(mh[c])
  BY DEF Continue, Trying
<1>2. \/ Finish(c, TRUE)
      \/ ~mh[c].first /\ Finish(c, FALSE)
  BY DEF Continue
<1>3. CASE Finish(c, TRUE)
  BY <1>1, <1>3, FinishSequential
<1>4. CASE ~mh[c].first /\ Finish(c, FALSE)
  BY <1>1, <1>4, FinishSequential
<1> QED BY <1>2, <1>3, <1>4

LEMMA NextSequential ==
  IInv /\ [Next]_vars => [Sequential!Next]_(Sequential!chainVars)
<1> SUFFICES ASSUME IInv, [Next]_vars
             PROVE  [Sequential!Next]_(Sequential!chainVars)
  OBVIOUS
<1>1. CASE UNCHANGED vars
  <2>1. mh' = mh
    BY <1>1 DEF vars
  <2> QED BY <2>1 DEF Sequential!chainVars
<1>2. ASSUME NEW c \in Chains, HeadStep(c)
      PROVE  [Sequential!Next]_(Sequential!chainVars)
  BY <1>2, PrepareSequential, RequestSequential, ContinueSequential,
     EraseSequential DEF HeadStep
<1>3. ASSUME NEW c \in Chains, Move(c)
      PROVE  [Sequential!Next]_(Sequential!chainVars)
  BY <1>3, MoveSequential
<1>4. ASSUME NEW t \in underWay, Result(t)
      PROVE  [Sequential!Next]_(Sequential!chainVars)
  BY <1>4, ResultSequential
<1> QED BY <1>1, <1>2, <1>3, <1>4 DEF Next, Finished

LEMMA InitSequential == Init => Sequential!Init
<1> SUFFICES ASSUME Init PROVE Sequential!Init
  OBVIOUS
<1>1. mh = [c \in Chains |-> Algorithm(0, 0, 1)]
  BY DEF Init
<1>2. 0 \in 0 .. TargetLength - 1 /\ TargetLength # 0
  BY Bounds
<1>3. ASSUME NEW c \in Chains
      PROVE  /\ StepIn(mh[c]) = 1 /\ mh[c].cfg = 0 /\ CutoffIn(mh[c]) = 1
             /\ ProposalIn(mh[c]) = (IF TargetLength = 1 THEN 0 ELSE 2)
             /\ PositionIn(mh[c]) = (IF TargetLength = 1 THEN 2 ELSE 3)
  <2> DEFINE m == mh[c]
  <2>1. m = Algorithm(0, 0, 1)
    BY <1>1
  <2>2. Begins(m, 0, 0, 1)
    BY <1>2, <2>1, AlgorithmBegins
  <2>3. /\ m.iteration = 0 /\ m.cfg = 0 /\ m.prn = 1
        /\ m.processing = FALSE /\ m.first = TRUE
    BY <2>2 DEF Begins
  <2> HIDE DEF m
  <2>4. Base(m) = 1 /\ ~Ended(m)
    BY <1>2, <2>3 DEF Base, Ended
  <2>5. /\ StepIn(m) = 1 /\ m.cfg = 0 /\ CutoffIn(m) = 1
        /\ ProposalIn(m) = (IF TargetLength = 1 THEN 0 ELSE 2)
        /\ PositionIn(m) = (IF TargetLength = 1 THEN 2 ELSE 3)
    BY <2>3, <2>4, Bounds DEF StepIn, CutoffIn, ProposalIn, PositionIn
  <2> QED BY <2>5 DEF m
<1>4. /\ Lengths = [c \in Chains |-> 1]
      /\ CurrentStates = [c \in Chains |-> 0]
      /\ Cutoffs = [c \in Chains |-> 1]
      /\ Proposals = [c \in Chains |-> IF TargetLength = 1 THEN 0 ELSE 2]
      /\ Positions = [c \in Chains |-> IF TargetLength = 1 THEN 2 ELSE 3]
  BY <1>3 DEF Lengths, CurrentStates, Cutoffs, Proposals, Positions
<1> QED
  BY <1>4 DEF Sequential!Init, Sequential!None, Lengths, CurrentStates,
              Proposals, Cutoffs, Positions, StepIn, ProposalIn, CutoffIn,
              PositionIn

(* The chains go through the states of a sequential Metropolis-Hastings     *)
(* loop, however results, chains and moves interleave: all of MarkovChains  *)
(* but its liveness.                                                        *)
THEOREM ChainsAreSequential ==
  Spec => Sequential!Init /\ [][Sequential!Next]_(Sequential!chainVars)
BY InvInit, InvNext, InitSequential, NextSequential, PTL DEF Spec

=============================================================================
