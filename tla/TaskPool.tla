------------------------------ MODULE TaskPool ------------------------------
(***************************************************************************)
(* What a workgroup promises to the Markov chains that use it: a task      *)
(* handed in is executed exactly once, somewhere, and afterwards its       *)
(* on_result function is called exactly once, with the result of this very *)
(* task.  The workgroup stops only when nothing is left to do.             *)
(*                                                                         *)
(* OnDemandScheduler implements this specification.                        *)
(***************************************************************************)
EXTENDS Naturals, Sequences

CONSTANTS Tasks,   \* everything the chains may hand in
          Silent   \* the tasks among them that have no on_result function

VARIABLES submitted,   \* tasks handed in so far
          executions,  \* how often each task was executed
          results,     \* what the on_result function of each task was given
          stopped      \* whether the workers have been told to stop

poolVars == <<submitted, executions, results, stopped>>

TypeOK ==
  /\ submitted \subseteq Tasks
  /\ executions \in [Tasks -> Nat]
  /\ results \in [Tasks -> Seq(Tasks)]
  /\ stopped \in BOOLEAN

Init ==
  /\ submitted = {}
  /\ executions = [t \in Tasks |-> 0]
  /\ results = [t \in Tasks |-> <<>>]
  /\ stopped = FALSE

Submit(t) ==
  /\ ~stopped
  /\ t \notin submitted
  /\ submitted' = submitted \union {t}
  /\ UNCHANGED <<executions, results, stopped>>

Execute(t) ==
  /\ t \in submitted
  /\ executions[t] = 0
  /\ executions' = [executions EXCEPT ![t] = 1]
  /\ UNCHANGED <<submitted, results, stopped>>

Deliver(t) ==
  /\ t \notin Silent
  /\ executions[t] = 1
  /\ results[t] = <<>>
  /\ results' = [results EXCEPT ![t] = <<t>>]
  /\ UNCHANGED <<submitted, executions, stopped>>

Settled(t) ==
  /\ executions[t] = 1
  /\ t \in Silent \/ results[t] # <<>>

Stop ==
  /\ \A t \in submitted : Settled(t)
  /\ stopped' = TRUE
  /\ UNCHANGED <<submitted, executions, results>>

Next ==
  \/ \E t \in Tasks : Submit(t) \/ Execute(t) \/ Deliver(t)
  \/ Stop

(* A task handed in does not stay behind for ever. *)
Fairness == \A t \in Tasks : WF_poolVars(Execute(t)) /\ WF_poolVars(Deliver(t))

Spec == Init /\ [][Next]_poolVars /\ Fairness
=============================================================================
