------------------------- MODULE ChainDistribution --------------------------
(***************************************************************************)
(* The start of the program: who runs which Markov chain, with which seed  *)
(* (main.cpp, "distributed generation of markov chain seeds").             *)
(*                                                                         *)
(* All workgroup heads have the same global seed and nothing else in       *)
(* common: each one works out its own range of chain ids, draws the seeds  *)
(* of all chains before it from its own engine to skip them, and then      *)
(* draws the seeds of its own chains.  They do not communicate; what they  *)
(* end up with has to fit together nevertheless.                           *)
(*                                                                         *)
(* A seed is modelled by its place in the sequence the engine yields: it   *)
(* is the same sequence on every head.                                     *)
(***************************************************************************)
EXTENDS Integers

CONSTANTS ChainCounts,      \* values of num_markov_chains
          WorkgroupCounts,  \* values of workgroup_count
          Offsets           \* values of markov_chain_offset

ASSUME ChainDistributionAssumption ==
  /\ ChainCounts \subseteq Nat
  /\ WorkgroupCounts \subseteq Nat \ {0}
  /\ Offsets \subseteq Nat

VARIABLES
  numMarkovChains, numWorkgroups, markovChainOffset,  \* the configuration
  skipped,       \* seeds each head has skipped
  nextId,        \* id of the chain each head adds next
  seedsDrawn,    \* seeds each head has drawn from its engine
  mcChainsToAdd  \* the chains each head has added, with their seeds

config == <<numMarkovChains, numWorkgroups, markovChainOffset>>
vars == <<config, skipped, nextId, seedsDrawn, mcChainsToAdd>>

Workgroups == 0 .. numWorkgroups - 1

PerWorkgroup == numMarkovChains \div numWorkgroups
Larger == numMarkovChains % numWorkgroups   \* workgroups with one chain more

CDTypeOK ==
  /\ numMarkovChains \in ChainCounts
  /\ numWorkgroups \in WorkgroupCounts
  /\ markovChainOffset \in Offsets
  /\ skipped \in [Workgroups -> Nat]
  /\ nextId \in [Workgroups -> Nat]
  /\ seedsDrawn \in [Workgroups -> Nat]
  /\ mcChainsToAdd \in [Workgroups -> SUBSET [id : Nat, seed : Nat]]

(* Fault: the last of the larger workgroups does not get its extra chain. *)
InThisWorkgroupFault(w) == PerWorkgroup + (IF w + 1 < Larger THEN 1 ELSE 0)

(* num_markov_chains_in_this_work_group *)
InThisWorkgroup(w) == PerWorkgroup + (IF w < Larger THEN 1 ELSE 0)

(* Fault: the larger workgroups before w are counted like the others. *)
IdOffsetFault(w) ==
  (IF w > Larger THEN w - Larger ELSE 0) * PerWorkgroup
  + (IF w <= Larger THEN w ELSE Larger) * PerWorkgroup

(* markov_chains_id_offset *)
IdOffset(w) ==
  (IF w > Larger THEN w - Larger ELSE 0) * PerWorkgroup
  + (IF w <= Larger THEN w ELSE Larger) * (PerWorkgroup + 1)

(* local_markov_chain_offset *)
LocalOffset(w) == markovChainOffset + IdOffset(w)

(* Fault: the ids of the run start at 0 whatever the offset is. *)
FirstIdFault(w) == IdOffset(w)

(* mv_id_start *)
FirstId(w) == LocalOffset(w)

Init ==
  /\ numMarkovChains \in ChainCounts
  /\ numWorkgroups \in WorkgroupCounts
  /\ markovChainOffset \in Offsets
  /\ skipped = [w \in Workgroups |-> 0]
  /\ nextId = [w \in Workgroups |-> FirstId(w)]
  /\ seedsDrawn = [w \in Workgroups |-> 0]
  /\ mcChainsToAdd = [w \in Workgroups |-> {}]

(* The head of workgroup w skips the seed of a chain that is not its own. *)
SkipSeed(w) ==
  /\ skipped[w] < LocalOffset(w)
  /\ skipped' = [skipped EXCEPT ![w] = @ + 1]
  /\ seedsDrawn' = [seedsDrawn EXCEPT ![w] = @ + 1]
  /\ UNCHANGED <<config, nextId, mcChainsToAdd>>

(* It adds its next chain with the next seed.  The ids ascend, so emplace   *)
(* always finds a new one.                                                  *)
AddNewMcChain(w) ==
  /\ skipped[w] = LocalOffset(w)
  /\ nextId[w] < FirstId(w) + InThisWorkgroup(w)
  /\ nextId' = [nextId EXCEPT ![w] = @ + 1]
  /\ seedsDrawn' = [seedsDrawn EXCEPT ![w] = @ + 1]
  /\ mcChainsToAdd' =
       [mcChainsToAdd EXCEPT
          ![w] = @ \union {[id |-> nextId[w], seed |-> seedsDrawn[w]]}]
  /\ UNCHANGED <<config, skipped>>

Ready(w) ==
  /\ skipped[w] = LocalOffset(w)
  /\ nextId[w] = FirstId(w) + InThisWorkgroup(w)

(* All heads are at work; this is where the main loops begin. *)
Begun == (\A w \in Workgroups : Ready(w)) /\ UNCHANGED vars

Next == (\E w \in Workgroups : SkipSeed(w) \/ AddNewMcChain(w)) \/ Begun

Spec == Init /\ [][Next]_vars

-----------------------------------------------------------------------------

Ids(w) == {chain.id : chain \in mcChainsToAdd[w]}

(* The seed of a chain depends on its id alone: neither on the number of    *)
(* workgroups and chains of this run nor on the workgroup it lands on.  So  *)
(* a run can be repeated or continued on another number of nodes.           *)
SeedOfChain ==
  CDTypeOK /\ \A w \in Workgroups : \A chain \in mcChainsToAdd[w] : chain.seed = chain.id

(* No two heads run the same chain: both would write its evaluations. *)
NoChainTwice ==
  \A v, w \in Workgroups : v # w => Ids(v) \intersect Ids(w) = {}

(* When all heads are ready every chain of the run has a head. *)
NoChainMissing ==
  (\A w \in Workgroups : Ready(w)) =>
    UNION {Ids(w) : w \in Workgroups} =
      markovChainOffset .. markovChainOffset + numMarkovChains - 1

(* Every chain of the run has one head, and no head has another chain. *)
OneHeadPerChain == NoChainTwice /\ NoChainMissing
=============================================================================
