------------------------- MODULE OnDemandScheduler --------------------------
(***************************************************************************)
(* A workgroup at work: the head runs the Markov chains and distributes    *)
(* their probSAT computations, the workers execute them.                   *)
(*                                                                         *)
(* Modelled are on_demand_scheduler (both sides of do_work), its use by    *)
(* the main loops of head and worker, the remote procedure calls with      *)
(* their on_result functions (remote_execution_context, uuid), and the     *)
(* bookkeeping of sends that have not completed (async_comm_out).  The     *)
(* load accounting is module LazyRoundRobin.                               *)
(*                                                                         *)
(* A chain is reduced to what the scheduler sees of it: it schedules a     *)
(* batch of computations, waits until all their results have arrived       *)
(* (remaining_computations = 0), and starts over, Rounds times.            *)
(*                                                                         *)
(* MPI keeps the order of the messages between two ranks, so the messages  *)
(* from the head to a worker, and back, are one queue each.  MPI_Iprobe    *)
(* sees exactly what is in the queues: a message that takes long is a      *)
(* message sent later.  An MPI_Isend is either complete at once (eager) or *)
(* completes when it is received.                                          *)
(***************************************************************************)
EXTENDS Integers, LazyRoundRobin

CONSTANTS Chains,      \* Markov chains of the workgroup
          Rounds,      \* batches each chain computes
          BatchSize,   \* computations of a batch (values_per_iteration)
          Notices,     \* calls without an answer the head makes at start-up
          EagerSends,  \* TRUE: every send is complete at once
          Alone        \* TRUE in it: the workgroup may consist of the head only

ASSUME ODSAssumption ==
  /\ Rounds \in Nat
  /\ BatchSize \in Nat
  /\ Notices \in Nat
  /\ EagerSends \in BOOLEAN
  /\ Alone \subseteq BOOLEAN

Workers == 1 .. Size

ChainTasks == Chains \X (1 .. Rounds) \X (1 .. BatchSize)
NoticeTasks == {"notice"} \X (1 .. Notices)
Tasks == ChainTasks \union NoticeTasks

StopCall == <<"stop_running">>
Ping == [id |-> 0, answer_required |-> FALSE, task |-> <<"ping">>]

(* A call, or with answer_required = FALSE and id # 0 a result. *)
Message == [id : Nat, answer_required : BOOLEAN,
            task : Tasks \union {StopCall}]

VARIABLES
  headPc,             \* where the head's single thread is
  draining,           \* the chains are done, the head empties the scheduler
  round,              \* rounds each chain has begun
  remaining,          \* remaining_computations of each chain
  batch,              \* calls of the running batch not yet scheduled
  tasks,              \* head: calls waiting for a worker
  numWaitingForReply, \* head: calls sent and not answered
  outstanding,        \* head: sends not seen to be complete
  functionMap,        \* head: id |-> task whose on_result function it is
  newUuid, unused,    \* head: ids handed out so far, ids given back
  toWorker, toHead,   \* messages under way, in order
  stopsSent,          \* workers told to stop
  workerPc,           \* where each worker is
  workerTasks,        \* calls a worker has received and not executed
  workerOutstanding,  \* sends of a worker not seen to be complete
  executions,         \* history: how often each task was executed
  results             \* history: what each on_result function was given

loopVars == <<draining, stopsSent>>
chainVars == <<round, remaining, batch>>
rpcVars == <<functionMap, newUuid, unused>>
workerVars == <<workerPc, workerTasks, workerOutstanding>>
history == <<executions, results>>
headVars == <<headPc, loopVars, chainVars, tasks, numWaitingForReply,
              outstanding, rpcVars, lrrVars>>
vars == <<headVars, toWorker, toHead, workerVars, history>>

(* A workgroup of one process has no workers. *)
NumWorkers == Cardinality(DOMAIN numTasksScheduled)

HeadPcs == {"app", "submit", "feed", "poll", "fill", "fillpoll", "reap",
            "own", "deliver", "drain", "stop", "left"}

ODSTypeOK ==
  /\ NumWorkers > 0 => TypeOK
  /\ headPc \in HeadPcs
  /\ draining \in BOOLEAN
  /\ round \in [Chains -> 0 .. Rounds]
  /\ remaining \in [Chains -> 0 .. BatchSize]
  /\ batch \in Seq(Tasks)
  /\ tasks \in Seq(Message)
  /\ numWaitingForReply \in Nat
  /\ outstanding \subseteq Workers \X Message
  /\ DOMAIN functionMap \subseteq 1 .. newUuid
  /\ \A id \in DOMAIN functionMap : functionMap[id] \in Tasks
  /\ newUuid \in Nat
  /\ unused \in Seq(Nat)
  /\ toWorker \in [Workers -> Seq(Message)]
  /\ toHead \in [Workers -> Seq(Message \union {Ping})]
  /\ stopsSent \in 0 .. Size
  /\ workerPc \in [Workers -> {"recv", "test", "wait", "exec", "left"}]
  /\ workerTasks \in [Workers -> Seq(Message)]
  /\ workerOutstanding \in [Workers -> SUBSET Message]
  /\ executions \in [Tasks -> Nat]
  /\ results \in [Tasks -> Seq(Tasks)]

(* The load account of a head whose workgroup has no other process. *)
LRRInitAlone ==
  /\ numTasksScheduled = <<>>
  /\ idsForScheduled = [l \in Loads |-> <<>>]

Init ==
  /\ \/ FALSE \in Alone /\ LRRInit
     \/ TRUE \in Alone /\ LRRInitAlone
  /\ headPc = "submit"
  /\ draining = FALSE
  /\ round = [c \in Chains |-> 0]
  /\ remaining = [c \in Chains |-> 0]
  /\ batch = [i \in 1 .. Notices |-> <<"notice", i>>]
  /\ tasks = <<>>
  /\ numWaitingForReply = 0
  /\ outstanding = {}
  /\ functionMap = <<>>
  /\ newUuid = 0
  /\ unused = <<>>
  /\ toWorker = [w \in Workers |-> <<>>]
  /\ toHead = [w \in Workers |-> <<>>]
  /\ stopsSent = 0
  /\ workerPc = [w \in Workers |-> IF NumWorkers > 0 THEN "recv" ELSE "left"]
  /\ workerTasks = [w \in Workers |-> <<>>]
  /\ workerOutstanding = [w \in Workers |-> {}]
  /\ executions = [t \in Tasks |-> 0]
  /\ results = [t \in Tasks |-> <<>>]

-----------------------------------------------------------------------------
(* Remote procedure calls (remote_execution_context.hpp, uuid.hpp)         *)

(* uuid::get: the id given back last is used first. *)
FreshId == 1 + (IF unused = <<>> THEN newUuid ELSE Last(unused))

(* on_result: registers the result function of task t under a fresh id; the *)
(* program aborts when a function of that name exists.                      *)
OnResult(t) ==
  /\ FreshId \notin DOMAIN functionMap
  /\ functionMap' = [id \in DOMAIN functionMap \union {FreshId} |->
                       IF id = FreshId THEN t ELSE functionMap[id]]
  /\ IF unused = <<>>
     THEN newUuid' = newUuid + 1 /\ UNCHANGED unused
     ELSE unused' = Front(unused) /\ UNCHANGED newUuid

(* Fault: the id is given back without undoing the increment of uuid::get. *)
ExecuteResultFault(m) ==
  /\ m.id \in DOMAIN functionMap
  /\ LET t == functionMap[m.id]
     IN  /\ results' = [results EXCEPT ![t] = Append(@, m.task)]
         /\ remaining' = [remaining EXCEPT ![t[1]] = @ - 1]
  /\ functionMap' = [id \in DOMAIN functionMap \ {m.id} |-> functionMap[id]]
  /\ unused' = Append(unused, m.id)
  /\ UNCHANGED newUuid

(* execute_rpc of a result: the function registered under the id is called, *)
(* erased, and the id given back.  It is the result_fct of                  *)
(* statistical_acceptance_computation, which counts the answer.             *)
ExecuteResult(m) ==
  /\ m.id \in DOMAIN functionMap
  /\ LET t == functionMap[m.id]
     IN  /\ results' = [results EXCEPT ![t] = Append(@, m.task)]
         /\ remaining' = [remaining EXCEPT ![t[1]] = @ - 1]
  /\ functionMap' = [id \in DOMAIN functionMap \ {m.id} |-> functionMap[id]]
  /\ unused' = Append(unused, m.id - 1)
  /\ UNCHANGED newUuid

(* execute_rpc of a call: its function runs here; the answer carries the id. *)
ExecuteCall(m) == executions' = [executions EXCEPT ![m.task] = @ + 1]

Answer(m) == [id |-> m.id, answer_required |-> FALSE, task |-> m.task]

-----------------------------------------------------------------------------
(* Asynchronous sends (async_comm_out)                                     *)

(* send_message: MPI_Isend, then MPI_Test; what is not complete is kept. *)
SendCall(w, m) ==
  /\ toWorker' = [toWorker EXCEPT ![w] = Append(@, m)]
  /\ \/ outstanding' = outstanding
     \/ ~EagerSends /\ outstanding' = outstanding \union {<<w, m>>}

SendAnswer(w, m) ==
  /\ toHead' = [toHead EXCEPT ![w] = Append(@, m)]
  /\ \/ workerOutstanding' = workerOutstanding
     \/ /\ ~EagerSends
        /\ workerOutstanding' = [workerOutstanding EXCEPT ![w] = @ \union {m}]

(* test_for_messages of the head: forgets the sends that were received. *)
TestForMessages ==
  outstanding' = {s \in outstanding : s[2] \in ToSet(toWorker[s[1]])}

(* test_for_messages of worker w. *)
WorkerTestForMessages(w) ==
  workerOutstanding' =
    [workerOutstanding EXCEPT ![w] = {m \in @ : m \in ToSet(toHead[w])}]

-----------------------------------------------------------------------------
(* The head                                                                *)

(* schedule with target 0: to the least loaded worker, or into the queue. *)
Schedule(m, queue) ==
  \/ /\ WorkerAvailable
     /\ GetIdToScheduleTaskOn
     /\ SendCall(NextId + 1, m)
     /\ numWaitingForReply' = numWaitingForReply + 1
     /\ tasks' = queue
  \/ /\ ~WorkerAvailable
     /\ tasks' = Append(queue, m)
     /\ UNCHANGED <<lrrVars, toWorker, outstanding, numWaitingForReply>>

(* The main loop lets a chain that is not waiting start its next batch. *)
StartRound(c) ==
  /\ headPc = "app"
  /\ remaining[c] = 0
  /\ round[c] < Rounds
  /\ round' = [round EXCEPT ![c] = @ + 1]
  /\ batch' = [i \in 1 .. BatchSize |-> <<c, round[c] + 1, i>>]
  /\ headPc' = "submit"
  /\ UNCHANGED <<loopVars, remaining, tasks, numWaitingForReply, outstanding,
                 rpcVars, lrrVars, toWorker, toHead, workerVars, history>>

DoWorkPc == IF NumWorkers > 0 THEN "feed" ELSE "own"

(* Every chain is waiting for results: the last chain taken from the queue  *)
(* does nothing, and do_work is called.  When all chains are through, the   *)
(* head leaves the main loop for the one that empties the scheduler.        *)
Wait ==
  /\ headPc = "app"
  /\ \A c \in Chains : remaining[c] > 0 \/ round[c] = Rounds
  /\ IF \A c \in Chains : remaining[c] = 0
     THEN draining' = TRUE /\ headPc' = "drain"
     ELSE headPc' = DoWorkPc /\ UNCHANGED draining
  /\ UNCHANGED <<stopsSent, chainVars, tasks, numWaitingForReply, outstanding,
                 rpcVars, lrrVars, toWorker, toHead, workerVars, history>>

(* Schedules the next call of the batch. *)
Submit ==
  /\ headPc = "submit"
  /\ batch # <<>>
  /\ batch' = Tail(batch)
  /\ LET t == Head(batch)
     IN  IF t \in NoticeTasks
         THEN /\ Schedule([id |-> 0, answer_required |-> FALSE, task |-> t],
                          tasks)
              /\ UNCHANGED <<remaining, rpcVars>>
         ELSE /\ OnResult(t)
              /\ remaining' = [remaining EXCEPT ![t[1]] = @ + 1]
              /\ Schedule([id |-> FreshId, answer_required |-> TRUE,
                           task |-> t], tasks)
  /\ UNCHANGED <<headPc, loopVars, round, toHead, workerVars, history>>

(* The batch is scheduled: the main loop calls do_work. *)
Submitted ==
  /\ headPc = "submit"
  /\ batch = <<>>
  /\ headPc' = DoWorkPc
  /\ UNCHANGED <<loopVars, chainVars, tasks, numWaitingForReply, outstanding,
                 rpcVars, lrrVars, toWorker, toHead, workerVars, history>>

(* Fault: the scheduled call stays in the queue. *)
FeedHungryWorkersFault ==
  /\ headPc = "feed"
  /\ IF IsProcessWithoutWork /\ tasks # <<>>
     THEN Schedule(Head(tasks), tasks) /\ UNCHANGED headPc
     ELSE /\ headPc' = "poll"
          /\ UNCHANGED <<lrrVars, toWorker, outstanding, numWaitingForReply,
                         tasks>>
  /\ UNCHANGED <<loopVars, chainVars, rpcVars, toHead, workerVars, history>>

(* feed_hungry_workers: queued calls go to workers that have none. *)
FeedHungryWorkers ==
  /\ headPc = "feed"
  /\ IF IsProcessWithoutWork /\ tasks # <<>>
     THEN Schedule(Head(tasks), Tail(tasks)) /\ UNCHANGED headPc
     ELSE /\ headPc' = "poll"
          /\ UNCHANGED <<lrrVars, toWorker, outstanding, numWaitingForReply,
                         tasks>>
  /\ UNCHANGED <<loopVars, chainVars, rpcVars, toHead, workerVars, history>>

(* Fault: the worker of a ping keeps its load. *)
ProcessMsgLoadFault(w) ==
  /\ toHead[w] # <<>>
  /\ toHead' = [toHead EXCEPT ![w] = Tail(@)]
  /\ IF Head(toHead[w]) = Ping
     THEN UNCHANGED <<remaining, rpcVars, results, lrrVars>>
     ELSE ExecuteResult(Head(toHead[w])) /\ TaskFinished(w - 1)
  /\ numWaitingForReply' = numWaitingForReply - 1
  /\ UNCHANGED <<loopVars, round, batch, tasks, outstanding, toWorker,
                 workerVars, executions>>

(* Fault: a ping is not counted as a reply. *)
ProcessMsgReplyFault(w) ==
  /\ toHead[w] # <<>>
  /\ toHead' = [toHead EXCEPT ![w] = Tail(@)]
  /\ IF Head(toHead[w]) = Ping
     THEN UNCHANGED <<remaining, rpcVars, results, numWaitingForReply>>
     ELSE /\ ExecuteResult(Head(toHead[w]))
          /\ numWaitingForReply' = numWaitingForReply - 1
  /\ TaskFinished(w - 1)
  /\ UNCHANGED <<loopVars, round, batch, tasks, outstanding, toWorker,
                 workerVars, executions>>

(* process_msg: an answer, or the ping for a call without one. *)
ProcessMsg(w) ==
  /\ toHead[w] # <<>>
  /\ toHead' = [toHead EXCEPT ![w] = Tail(@)]
  /\ IF Head(toHead[w]) = Ping
     THEN UNCHANGED <<remaining, rpcVars, results>>
     ELSE ExecuteResult(Head(toHead[w]))
  /\ TaskFinished(w - 1)
  /\ numWaitingForReply' = numWaitingForReply - 1
  /\ UNCHANGED <<loopVars, round, batch, tasks, outstanding, toWorker,
                 workerVars, executions>>

NoMessage == \A w \in Workers : toHead[w] = <<>>

Stay == UNCHANGED <<loopVars, chainVars, tasks, numWaitingForReply,
                    outstanding, rpcVars, lrrVars, toWorker, toHead,
                    workerVars, history>>

(* The loop of do_work that takes all messages, feeding after each one. *)
Poll ==
  /\ headPc = "poll"
  /\ \/ (\E w \in Workers : ProcessMsg(w)) /\ headPc' = "feed"
     \/ NoMessage /\ headPc' = "fill" /\ Stay

Return == IF draining THEN "drain" ELSE "app"

(* The loop of do_work that loads the workers up to their capacity; without *)
(* a call to schedule do_work returns at once.                              *)
Fill ==
  /\ headPc = "fill"
  /\ IF WorkerAvailable /\ tasks # <<>>
     THEN Schedule(Head(tasks), Tail(tasks)) /\ headPc' = "fillpoll"
     ELSE /\ headPc' = IF WorkerAvailable THEN Return ELSE "reap"
          /\ UNCHANGED <<lrrVars, toWorker, outstanding, numWaitingForReply,
                         tasks>>
  /\ UNCHANGED <<loopVars, chainVars, rpcVars, toHead, workerVars, history>>

(* Fault: do_work returns when the loop has taken a message. *)
FillPollFault ==
  /\ headPc = "fillpoll"
  /\ headPc' = Return
  /\ (\E w \in Workers : ProcessMsg(w)) \/ (NoMessage /\ Stay)

(* After each call scheduled by that loop at most one message is taken. *)
FillPoll ==
  /\ headPc = "fillpoll"
  /\ headPc' = "fill"
  /\ (\E w \in Workers : ProcessMsg(w)) \/ (NoMessage /\ Stay)

(* All workers are loaded: look for completed sends, and return. *)
Reap ==
  /\ headPc = "reap"
  /\ TestForMessages
  /\ headPc' = Return
  /\ UNCHANGED <<loopVars, chainVars, tasks, numWaitingForReply, rpcVars,
                 lrrVars, toWorker, toHead, workerVars, history>>

(* A head without workers executes one call itself ... *)
ExecuteOwn ==
  /\ headPc = "own"
  /\ IF tasks = <<>>
     THEN headPc' = Return /\ UNCHANGED <<tasks, executions>>
     ELSE /\ ExecuteCall(Head(tasks))
          /\ IF Head(tasks).answer_required
             THEN headPc' = "deliver" /\ UNCHANGED tasks
             ELSE headPc' = Return /\ tasks' = Tail(tasks)
  /\ UNCHANGED <<loopVars, chainVars, numWaitingForReply, outstanding,
                 rpcVars, lrrVars, toWorker, toHead, workerVars, results>>

(* ... calls its on_result function, and removes it from the queue. *)
DeliverOwn ==
  /\ headPc = "deliver"
  /\ ExecuteResult(Answer(Head(tasks)))
  /\ tasks' = Tail(tasks)
  /\ headPc' = Return
  /\ UNCHANGED <<loopVars, round, batch, numWaitingForReply, outstanding,
                 lrrVars, toWorker, toHead, workerVars, executions>>

(* Fault: calls that are sent and not answered do not count. *)
IsWorkOutstandingFault == tasks # <<>> \/ outstanding # {}

IsWorkOutstanding ==
  \/ numWaitingForReply > 0
  \/ tasks # <<>>
  \/ outstanding # {}

(* The loop after the main loop: work until nothing is outstanding. *)
Drain ==
  /\ headPc = "drain"
  /\ headPc' = IF IsWorkOutstanding THEN DoWorkPc ELSE "stop"
  /\ Stay

(* The head schedules stop_running on every worker, past the load count,    *)
(* and leaves.                                                              *)
StopNextWorker ==
  /\ headPc = "stop"
  /\ IF stopsSent < NumWorkers
     THEN /\ stopsSent' = stopsSent + 1
          /\ SendCall(stopsSent + 1, [id |-> 0, answer_required |-> FALSE,
                                      task |-> StopCall])
          /\ numWaitingForReply' = numWaitingForReply + 1
          /\ UNCHANGED headPc
     ELSE /\ headPc' = "left"
          /\ UNCHANGED <<stopsSent, toWorker, outstanding, numWaitingForReply>>
  /\ UNCHANGED <<draining, chainVars, tasks, rpcVars, lrrVars, toHead,
                 workerVars, history>>

HeadStep ==
  \/ \E c \in Chains : StartRound(c)
  \/ Wait \/ Submit \/ Submitted
  \/ FeedHungryWorkers \/ Poll \/ Fill \/ FillPoll \/ Reap
  \/ ExecuteOwn \/ DeliverOwn
  \/ Drain \/ StopNextWorker

-----------------------------------------------------------------------------
(* A worker: do_work(true) until stop_running was executed                 *)

TakeMessage(w) ==
  /\ toWorker[w] # <<>>
  /\ workerTasks' = [workerTasks EXCEPT ![w] = Append(@, Head(toWorker[w]))]
  /\ toWorker' = [toWorker EXCEPT ![w] = Tail(@)]

(* All messages that are there are taken. *)
WorkerReceive(w) ==
  /\ workerPc[w] = "recv"
  /\ \/ TakeMessage(w) /\ UNCHANGED workerPc
     \/ /\ toWorker[w] = <<>>
        /\ workerPc' = [workerPc EXCEPT ![w] = "test"]
        /\ UNCHANGED <<workerTasks, toWorker>>
  /\ UNCHANGED <<headVars, toHead, workerOutstanding, history>>

WorkerTest(w) ==
  /\ workerPc[w] = "test"
  /\ WorkerTestForMessages(w)
  /\ workerPc' = [workerPc EXCEPT ![w] = "wait"]
  /\ UNCHANGED <<headVars, toWorker, toHead, workerTasks, history>>

(* Without a call to execute the worker waits for one; as long as sends are *)
(* incomplete it polls, and looks after one of them in between.             *)
WorkerWait(w) ==
  /\ workerPc[w] = "wait"
  /\ \/ /\ workerTasks[w] # <<>>
        /\ workerPc' = [workerPc EXCEPT ![w] = "exec"]
        /\ UNCHANGED <<workerTasks, toWorker, workerOutstanding>>
     \/ /\ workerTasks[w] = <<>>
        /\ TakeMessage(w)
        /\ workerPc' = [workerPc EXCEPT ![w] = "exec"]
        /\ UNCHANGED workerOutstanding
     \/ /\ workerTasks[w] = <<>> /\ toWorker[w] = <<>>
        /\ \E m \in workerOutstanding[w] :
             /\ m \notin ToSet(toHead[w])
             /\ workerOutstanding' = [workerOutstanding EXCEPT ![w] = @ \ {m}]
        /\ UNCHANGED <<workerPc, workerTasks, toWorker>>
  /\ UNCHANGED <<headVars, toHead, history>>

(* Fault: the executed call is removed only when it wants no answer. *)
WorkerExecuteFault(w) ==
  /\ workerPc[w] = "exec"
  /\ LET m == Head(workerTasks[w])
     IN  /\ IF m.task = StopCall
            THEN /\ workerPc' = [workerPc EXCEPT ![w] = "left"]
                 /\ UNCHANGED executions
            ELSE /\ ExecuteCall(m)
                 /\ workerPc' = [workerPc EXCEPT ![w] = "recv"]
         /\ IF m.answer_required
            THEN SendAnswer(w, Answer(m)) /\ UNCHANGED workerTasks
            ELSE /\ toHead' = [toHead EXCEPT ![w] = Append(@, Ping)]
                 /\ workerTasks' = [workerTasks EXCEPT ![w] = Tail(@)]
                 /\ UNCHANGED workerOutstanding
  /\ UNCHANGED <<headVars, toWorker, results>>

(* One call is executed and answered, with a ping if it wants no answer. *)
WorkerExecute(w) ==
  /\ workerPc[w] = "exec"
  /\ LET m == Head(workerTasks[w])
     IN  /\ IF m.task = StopCall
            THEN /\ workerPc' = [workerPc EXCEPT ![w] = "left"]
                 /\ UNCHANGED executions
            ELSE /\ ExecuteCall(m)
                 /\ workerPc' = [workerPc EXCEPT ![w] = "recv"]
         /\ IF m.answer_required
            THEN SendAnswer(w, Answer(m))
            ELSE /\ toHead' = [toHead EXCEPT ![w] = Append(@, Ping)]
                 /\ UNCHANGED workerOutstanding
  /\ workerTasks' = [workerTasks EXCEPT ![w] = Tail(@)]
  /\ UNCHANGED <<headVars, toWorker, results>>

WorkerStep(w) ==
  WorkerReceive(w) \/ WorkerTest(w) \/ WorkerWait(w) \/ WorkerExecute(w)

-----------------------------------------------------------------------------

AllLeft == headPc = "left" /\ \A w \in Workers : workerPc[w] = "left"

(* Everybody is past the barrier at the end of main. *)
Finished == AllLeft /\ UNCHANGED vars

Next == HeadStep \/ (\E w \in Workers : WorkerStep(w)) \/ Finished

(* Head and workers are operating system processes; neither stops running.  *)
Fairness == WF_vars(HeadStep) /\ \A w \in Workers : WF_vars(WorkerStep(w))

Spec == Init /\ [][Next]_vars /\ Fairness

-----------------------------------------------------------------------------
(* Properties                                                              *)

(* Calls and answers worker w and the channels to and from it hold, the     *)
(* oldest first: executed ones, waiting ones, and those on the way.         *)
UnderWay(w) == toHead[w] \o workerTasks[w] \o toWorker[w]

(* Every worker with each of the tasks the head has accounted to it. *)
Accounted == {p \in (1 .. NumWorkers) \X (1 .. WorkloadCapacity) :
                p[2] <= numTasksScheduled[p[1] - 1]}

(* The head's account of a worker, which it keeps from what it sends and    *)
(* receives, is what the worker really has to do or has under way, but for  *)
(* stop_running, which is not accounted; and num_waiting_for_reply is the   *)
(* sum.  A wrong account starves a worker or gives it more than the two     *)
(* tasks meant for it.                                                      *)
LoadIsExact ==
  /\ ODSTypeOK
  /\ \A w \in 1 .. NumWorkers :
       Len(UnderWay(w)) =
         numTasksScheduled[w - 1] + (IF w <= stopsSent THEN 1 ELSE 0)
  /\ numWaitingForReply = stopsSent + Cardinality(Accounted)

(* The head (0) holds the calls of its queue, a worker what is under way. *)
Holders == {0} \union Workers
CallsOf(h) == IF h = 0 THEN tasks ELSE UnderWay(h)
Places == UNION {{h} \X DOMAIN CallsOf(h) : h \in Holders}
CallAt(p) == CallsOf(p[1])[p[2]]

(* Every call with an on_result function carries an id that is registered,  *)
(* for this call and no other, and every function registered has its call;  *)
(* every id the uuid class has handed out is either registered or waiting   *)
(* to be used again, once.  So an answer meets its own function however     *)
(* late it comes and however often ids are reused.                          *)
IdsMatchCalls ==
  /\ \A p \in Places : CallAt(p).id # 0 =>
       /\ CallAt(p).id \in DOMAIN functionMap
       /\ functionMap[CallAt(p).id] = CallAt(p).task
       /\ \A q \in Places : CallAt(q).id = CallAt(p).id => q = p
  /\ DOMAIN functionMap \subseteq {CallAt(p).id : p \in Places}
  /\ {u + 1 : u \in ToSet(unused)} = (1 .. newUuid) \ DOMAIN functionMap
  /\ \A i, j \in DOMAIN unused : unused[i] = unused[j] => i = j

(* do_work does not return to the main loop while a call waits in the queue *)
(* and some worker has room for it, whatever arrived in the meantime.       *)
NoIdleWorker ==
  headPc \in {"app", "drain"} /\ NumWorkers > 0 =>
    tasks = <<>> \/ ~WorkerAvailable

(* A worker that left owes nothing: stop_running was the last call sent to  *)
(* it, all it had to execute is executed, and the head has all its answers. *)
LeaveClean ==
  \A w \in 1 .. NumWorkers : workerPc[w] = "left" =>
     /\ workerTasks[w] = <<>>
     /\ toWorker[w] = <<>>
     /\ toHead[w] = <<Ping>>
     /\ \A id \in DOMAIN functionMap : FALSE

(* The workgroup keeps the promise of TaskPool. *)
SubmittedTasks ==
  {t \in Tasks : /\ t \notin ToSet(batch)
                 /\ t \in NoticeTasks \/ round[t[1]] >= t[2]}

Pool == INSTANCE TaskPool WITH
          Silent <- NoticeTasks,
          submitted <- SubmittedTasks,
          stopped <- headPc \in {"stop", "left"}

ImplementsTaskPool == Pool!Spec

(* Head and workers get to the end of the program, provided that the head   *)
(* is not for ever left with a send whose completion it does not see.       *)
Termination == []<>(outstanding = {}) => <>AllLeft

(* Once all calls are answered and all sends are complete, is_work_         *)
(* outstanding eventually says so; its comment reads "check if any work is  *)
(* left or everything completed".                                           *)
EverythingCompleted ==
  /\ headPc = "drain"
  /\ tasks = <<>> /\ numWaitingForReply = 0
  /\ \A s \in outstanding : s[2] \notin ToSet(toWorker[s[1]])
CompletionIsSeen == EverythingCompleted ~> ~IsWorkOutstanding
=============================================================================
