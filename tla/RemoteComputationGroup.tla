----------------------- MODULE RemoteComputationGroup -----------------------
(***************************************************************************)
(* The heads of the workgroups among themselves: each may call functions   *)
(* on every other one and on itself                                        *)
(* (distributed_computation/remote_computation_group.hpp).                 *)
(*                                                                         *)
(* A head works in a loop of its own and calls do_work again and again     *)
(* (main.cpp calls it only with wait_for_work = false).  One do_work takes *)
(* all messages that have arrived and executes at most one call.           *)
(*                                                                         *)
(* A call without an answer, the only kind main.cpp makes here, is         *)
(* acknowledged by a ping, an empty message, once it is executed.  For a   *)
(* call with an on_result function (remote_execution_context) the result   *)
(* is sent back; it arrives as one more task.  MPI keeps the order of the  *)
(* messages between two ranks: a channel is a queue.                       *)
(***************************************************************************)
EXTENDS Integers, SequencesExt

CONSTANTS Nodes,          \* the heads of the workgroups
          CallsToOther,   \* calls without an answer to each other head
          AnsweredCalls,  \* or else, calls with an on_result function to each
          CallsToSelf,    \* calls each head makes to itself
          LocalAnswers,   \* TRUE: calls to itself have an on_result function
          EagerSends,     \* TRUE: every send is complete at once
          SizeModulus     \* std::size_t counts modulo this, 2^64 in reality

ASSUME RCGAssumption ==
  /\ IsFiniteSet(Nodes)
  /\ {CallsToOther, AnsweredCalls, CallsToSelf} \subseteq Nat
  /\ {LocalAnswers, EagerSends} \subseteq BOOLEAN
  /\ SizeModulus \in Nat
  /\ SizeModulus > Cardinality(Nodes) * (CallsToOther + AnsweredCalls)

(* <<i, j, k, a>> is the k-th call of head i to head j; a tells whether it  *)
(* has an on_result function, that is, requires an answer.                  *)
LocalCalls == {<<i, i, k, LocalAnswers>> : i \in Nodes, k \in 1 .. CallsToSelf}
PingedCalls ==
  {c \in Nodes \X Nodes \X (1 .. CallsToOther) \X {FALSE} : c[1] # c[2]}
AnswerCalls ==
  {c \in Nodes \X Nodes \X (1 .. AnsweredCalls) \X {TRUE} : c[1] # c[2]}
Calls == LocalCalls \union PingedCalls \union AnswerCalls
AnswerRequired(c) == c[4]

Call(c) == [call |-> c, answer |-> FALSE]
Result(c) == [call |-> c, answer |-> TRUE]
Ping == [call |-> <<>>, answer |-> FALSE]
Message == [call : Calls, answer : BOOLEAN]

VARIABLES
  remoteAnswers,       \* whether calls to others have an on_result function
  pc,                  \* where each head is
  scheduled,           \* calls made so far
  tasks,               \* of each head: calls and results to execute, with origin
  numWaitingForReply,  \* of each head: calls sent and not acknowledged
  outstanding,         \* of each head: sends not seen to be complete
  channel,             \* channel[i][j]: messages under way from i to j
  executions,          \* history: how often each call was executed
  results              \* history: what each on_result function was given

history == <<executions, results>>
vars == <<remoteAnswers, pc, scheduled, tasks, numWaitingForReply, outstanding, channel,
          history>>

RCGTypeOK ==
  /\ remoteAnswers \in BOOLEAN
  /\ pc \in [Nodes -> {"app", "receive", "execute", "deliver"}]
  /\ scheduled \subseteq Calls
  /\ tasks \in [Nodes -> Seq(Nodes \X Message)]
  /\ numWaitingForReply \in [Nodes -> 0 .. SizeModulus - 1]
  /\ outstanding \in [Nodes -> SUBSET (Nodes \X Message)]
  /\ channel \in [Nodes -> [Nodes -> Seq(Message \union {Ping})]]
  /\ \A i \in Nodes : channel[i][i] = <<>>
  /\ executions \in [Calls -> Nat]
  /\ results \in [Calls -> Seq(Calls)]

Init ==
  /\ remoteAnswers \in BOOLEAN
  /\ pc = [i \in Nodes |-> "app"]
  /\ scheduled = {}
  /\ tasks = [i \in Nodes |-> <<>>]
  /\ numWaitingForReply = [i \in Nodes |-> 0]
  /\ outstanding = [i \in Nodes |-> {}]
  /\ channel = [i \in Nodes |-> [j \in Nodes |-> <<>>]]
  /\ executions = [c \in Calls |-> 0]
  /\ results = [c \in Calls |-> <<>>]

-----------------------------------------------------------------------------

Goto(i, next) == pc' = [pc EXCEPT ![i] = next]

(* async_comm_out::send_message: what is not complete at once is kept. *)
SendMessage(i, j, m) ==
  /\ channel' = [channel EXCEPT ![i][j] = Append(@, m)]
  /\ \/ UNCHANGED outstanding
     \/ /\ ~EagerSends
        /\ outstanding' = [outstanding EXCEPT ![i] = @ \union {<<j, m>>}]

(* Fault: a call to itself is counted as waiting for a reply, too. *)
ScheduleFault(i, c) ==
  /\ pc[i] = "app"
  /\ c[1] = i /\ c \notin scheduled
  /\ c[1] # c[2] => c[4] = remoteAnswers
  /\ \A k \in 1 .. c[3] - 1 : <<i, c[2], k, c[4]>> \in scheduled
  /\ scheduled' = scheduled \union {c}
  /\ numWaitingForReply' = [numWaitingForReply EXCEPT ![i] = @ + 1]
  /\ IF c[2] = i
     THEN /\ tasks' = [tasks EXCEPT ![i] = Append(@, <<i, Call(c)>>)]
          /\ UNCHANGED <<outstanding, channel>>
     ELSE SendMessage(i, c[2], Call(c)) /\ UNCHANGED tasks
  /\ UNCHANGED <<pc, history>>

(* schedule: into the head's own queue, or to the other head. *)
Schedule(i, c) ==
  /\ pc[i] = "app"
  /\ c[1] = i /\ c \notin scheduled
  /\ c[1] # c[2] => c[4] = remoteAnswers
  /\ \A k \in 1 .. c[3] - 1 : <<i, c[2], k, c[4]>> \in scheduled
  /\ scheduled' = scheduled \union {c}
  /\ IF c[2] = i
     THEN /\ tasks' = [tasks EXCEPT ![i] = Append(@, <<i, Call(c)>>)]
          /\ UNCHANGED <<numWaitingForReply, outstanding, channel>>
     ELSE /\ SendMessage(i, c[2], Call(c))
          /\ numWaitingForReply' =
               [numWaitingForReply EXCEPT ![i] = (@ + 1) % SizeModulus]
          /\ UNCHANGED tasks
  /\ UNCHANGED <<pc, history>>

DoWork(i) ==
  /\ pc[i] = "app"
  /\ Goto(i, "receive")
  /\ UNCHANGED <<scheduled, tasks, numWaitingForReply, outstanding, channel,
                 history>>

(* Fault: a call that arrives is pushed in front of the others. *)
ReceiveFault(i, j) ==
  /\ pc[i] = "receive"
  /\ channel[j][i] # <<>>
  /\ channel' = [channel EXCEPT ![j][i] = Tail(@)]
  /\ LET m == Head(channel[j][i])
     IN  IF m = Ping
         THEN /\ numWaitingForReply' =
                   [numWaitingForReply EXCEPT ![i] = (@ - 1) % SizeModulus]
              /\ UNCHANGED tasks
         ELSE /\ tasks' = [tasks EXCEPT ![i] = <<(<<j, m>>)>> \o @]
              /\ UNCHANGED numWaitingForReply
  /\ UNCHANGED <<pc, scheduled, outstanding, history>>

(* do_work, first loop: a ping acknowledges a call, anything else is a task. *)
Receive(i, j) ==
  /\ pc[i] = "receive"
  /\ channel[j][i] # <<>>
  /\ channel' = [channel EXCEPT ![j][i] = Tail(@)]
  /\ LET m == Head(channel[j][i])
     IN  IF m = Ping
         THEN /\ numWaitingForReply' =
                   [numWaitingForReply EXCEPT ![i] = (@ - 1) % SizeModulus]
              /\ UNCHANGED tasks
         ELSE /\ tasks' = [tasks EXCEPT ![i] = Append(@, <<j, m>>)]
              /\ UNCHANGED numWaitingForReply
  /\ UNCHANGED <<pc, scheduled, outstanding, history>>

(* Fault: the sends that are complete are the ones kept. *)
TestForMessagesFault(i) ==
  /\ pc[i] = "receive"
  /\ \A j \in Nodes : channel[j][i] = <<>>
  /\ outstanding' =
       [outstanding EXCEPT
          ![i] = {s \in @ : s[2] \notin ToSet(channel[i][s[1]])}]
  /\ Goto(i, "execute")
  /\ UNCHANGED <<scheduled, tasks, numWaitingForReply, channel, history>>

(* No message is left: background_comm.test_for_messages(). *)
TestForMessages(i) ==
  /\ pc[i] = "receive"
  /\ \A j \in Nodes : channel[j][i] = <<>>
  /\ outstanding' =
       [outstanding EXCEPT
          ![i] = {s \in @ : s[2] \in ToSet(channel[i][s[1]])}]
  /\ Goto(i, "execute")
  /\ UNCHANGED <<scheduled, tasks, numWaitingForReply, channel, history>>

NoTask(i) ==
  /\ pc[i] = "execute"
  /\ tasks[i] = <<>>
  /\ Goto(i, "app")
  /\ UNCHANGED <<scheduled, tasks, numWaitingForReply, outstanding, channel,
                 history>>

PopFront(i) == tasks' = [tasks EXCEPT ![i] = Tail(@)]

SendPing(i, j) ==
  /\ channel' = [channel EXCEPT ![i][j] = Append(@, Ping)]
  /\ UNCHANGED outstanding

(* execute of a call: it runs, and is answered or acknowledged; a call of   *)
(* the head to itself needs no message.                                     *)
ExecuteCall(i) ==
  /\ pc[i] = "execute"
  /\ tasks[i] # <<>>
  /\ LET origin == Head(tasks[i])[1]
         m == Head(tasks[i])[2]
     IN  /\ ~m.answer
         /\ executions' = [executions EXCEPT ![m.call] = @ + 1]
         /\ IF origin = i
            THEN /\ IF AnswerRequired(m.call)
                    THEN Goto(i, "deliver") /\ UNCHANGED tasks
                    ELSE Goto(i, "app") /\ PopFront(i)
                 /\ UNCHANGED <<channel, outstanding>>
            ELSE /\ IF AnswerRequired(m.call)
                    THEN SendMessage(i, origin, Result(m.call))
                    ELSE SendPing(i, origin)
                 /\ PopFront(i)
                 /\ Goto(i, "app")
  /\ UNCHANGED <<scheduled, numWaitingForReply, results>>

(* The result of a call to itself: its on_result function runs. *)
DeliverOwn(i) ==
  /\ pc[i] = "deliver"
  /\ LET c == Head(tasks[i])[2].call
     IN  results' = [results EXCEPT ![c] = Append(@, c)]
  /\ PopFront(i)
  /\ Goto(i, "app")
  /\ UNCHANGED <<scheduled, numWaitingForReply, outstanding, channel,
                 executions>>

(* Fault: the result is executed and stays in the queue. *)
ExecuteResultFault(i) ==
  /\ pc[i] = "execute"
  /\ tasks[i] # <<>>
  /\ LET origin == Head(tasks[i])[1]
         m == Head(tasks[i])[2]
     IN  /\ m.answer
         /\ results' = [results EXCEPT ![m.call] = Append(@, m.call)]
         /\ SendPing(i, origin)
  /\ Goto(i, "app")
  /\ UNCHANGED <<scheduled, tasks, numWaitingForReply, executions>>

(* execute of a result: its on_result function runs.  The result itself     *)
(* requires no answer, so the head that sent it is pinged.                  *)
ExecuteResult(i) ==
  /\ pc[i] = "execute"
  /\ tasks[i] # <<>>
  /\ LET origin == Head(tasks[i])[1]
         m == Head(tasks[i])[2]
     IN  /\ m.answer
         /\ results' = [results EXCEPT ![m.call] = Append(@, m.call)]
         /\ SendPing(i, origin)
  /\ PopFront(i)
  /\ Goto(i, "app")
  /\ UNCHANGED <<scheduled, numWaitingForReply, executions>>

NodeStep(i) ==
  \/ \E c \in Calls : Schedule(i, c)
  \/ DoWork(i)
  \/ \E j \in Nodes : Receive(i, j)
  \/ TestForMessages(i)
  \/ NoTask(i) \/ ExecuteCall(i) \/ DeliverOwn(i) \/ ExecuteResult(i)

Next == (\E i \in Nodes : NodeStep(i)) /\ UNCHANGED remoteAnswers

(* The heads are operating system processes, and their main loops call      *)
(* do_work in every iteration.                                              *)
Fairness == \A i \in Nodes : WF_vars(NodeStep(i) /\ UNCHANGED remoteAnswers)

Spec == Init /\ [][Next]_vars /\ Fairness

-----------------------------------------------------------------------------
(* Properties                                                              *)

(* Fault: calls sent and not acknowledged do not count. *)
IsWorkOutstandingFault(i) == tasks[i] # <<>> \/ outstanding[i] # {}

IsWorkOutstanding(i) ==
  \/ numWaitingForReply[i] > 0
  \/ tasks[i] # <<>>
  \/ outstanding[i] # {}

RemoteCalls(i) == {c \in scheduled : c[1] = i /\ c[2] # i}
Unexecuted(i) == {c \in RemoteCalls(i) : executions[c] = 0}

(* The pings on the way to head i, by origin and place in the channel. *)
Pings(i) ==
  {p \in UNION {{j} \X DOMAIN channel[j][i] : j \in Nodes} :
     channel[p[1]][i][p[2]] = Ping}

(* num_tasks_pending is the "number of pending tasks on remote nodes": the  *)
(* calls that are on the way to another head, or wait there, or whose ping  *)
(* is on the way back.  A head whose count is wrong stops while it is still *)
(* needed, or never stops.  It holds for calls without an answer: a result  *)
(* is executed like a call and pinged like one, so that the head that sent  *)
(* it counts down for a call it has not made, and the caller never does.    *)
PendingIsExact ==
  /\ RCGTypeOK
  /\ ~remoteAnswers =>
       \A i \in Nodes :
         numWaitingForReply[i] =
           Cardinality(Unexecuted(i)) + Cardinality(Pings(i))

(* A head that sees no work outstanding may rely on it: every call it made, *)
(* to itself or to others, has been executed.                               *)
QuietMeansDone ==
  \A i \in Nodes : ~remoteAnswers /\ ~IsWorkOutstanding(i) =>
     \A c \in scheduled : c[1] = i => executions[c] = 1

(* Two calls of one head to another are executed in the order they were     *)
(* made, though they wait in two queues and other calls go in between.      *)
CallsInOrder ==
  \A c \in Calls : executions[c] > 0 =>
     \A k \in 1 .. c[3] - 1 : executions[<<c[1], c[2], k, c[4]>>] > 0

(* The heads come to rest: from some time on nobody sees work outstanding.  *)
ComesToRest == ~remoteAnswers => <>[](\A i \in Nodes : ~IsWorkOutstanding(i))

(* Every call is executed once, every on_result function is called once,    *)
(* after its call, with its result.  When to stop is not for this class to  *)
(* decide.                                                                  *)
Pool == INSTANCE TaskPool WITH
          Tasks <- Calls,
          Silent <- {c \in Calls : ~AnswerRequired(c)},
          submitted <- scheduled,
          stopped <- FALSE

ImplementsTaskPool == Pool!Spec
=============================================================================
