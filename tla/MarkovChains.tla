---------------------------- MODULE MarkovChains ----------------------------
(***************************************************************************)
(* What the simulation computes: for every chain the sequence of states a  *)
(* sequential Metropolis-Hastings loop would go through, drawing from the  *)
(* chain's own random number generator.  The generator is a position in    *)
(* its stream; a state is named by the position it was proposed at, a      *)
(* cutoff by the position its generator was derived at.  Whether a         *)
(* proposal is accepted is left open.                                      *)
(*                                                                         *)
(* MetropolisHastings implements this specification.                       *)
(***************************************************************************)
EXTENDS Naturals

CONSTANTS Chains,
          TargetLength   \* length at which a chain ends

VARIABLES step,       \* length of each chain
          state,      \* its last state
          proposal,   \* the state to be accepted or declined next
          cutoff,     \* the cutoff that decides about it
          position    \* where its generator stands

chainVars == <<step, state, proposal, cutoff, position>>

None == 0

(* A chain's first state is drawn at position 0; it is accepted as it is, a *)
(* generator is derived at position 1, the first proposal drawn at 2.       *)
Init ==
  /\ step = [c \in Chains |-> 1]
  /\ state = [c \in Chains |-> 0]
  /\ cutoff = [c \in Chains |-> 1]
  /\ proposal = [c \in Chains |-> IF TargetLength = 1 THEN None ELSE 2]
  /\ position = [c \in Chains |-> IF TargetLength = 1 THEN 2 ELSE 3]

Decide(c, accept) ==
  /\ step[c] < TargetLength
  /\ step' = [step EXCEPT ![c] = @ + 1]
  /\ state' = [state EXCEPT ![c] = IF accept THEN proposal[c] ELSE @]
  /\ cutoff' = [cutoff EXCEPT ![c] = position[c]]
  /\ IF step'[c] < TargetLength
     THEN /\ proposal' = [proposal EXCEPT ![c] = position[c] + 1]
          /\ position' = [position EXCEPT ![c] = @ + 2]
     ELSE /\ proposal' = [proposal EXCEPT ![c] = None]
          /\ position' = [position EXCEPT ![c] = @ + 1]

Next == \E c \in Chains, accept \in BOOLEAN : Decide(c, accept)

(* Every chain reaches its target length. *)
Fairness ==
  \A c \in Chains : WF_chainVars(\E accept \in BOOLEAN : Decide(c, accept))

Spec == Init /\ [][Next]_chainVars /\ Fairness
=============================================================================
