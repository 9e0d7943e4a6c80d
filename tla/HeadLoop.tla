------------------------------ MODULE HeadLoop ------------------------------
(***************************************************************************)
(* The main loops of the workgroup heads (main.cpp): which chain a head    *)
(* runs next, when it stops, and the rescheduling of chains between the    *)
(* heads (distributed_computation/rescheduling.hpp).                       *)
(*                                                                         *)
(* disable_rescheduling is a constant in the code, true at this commit;    *)
(* here it has one of the values of Switch for a whole behaviour.          *)
(*                                                                         *)
(* A chain is reduced to its iteration and the stage it is in (see         *)
(* MetropolisHastings); one round of requests stands for all rounds of an  *)
(* iteration.  The calls between heads travel as in RemoteComputationGroup *)
(* with sends that are complete at once.  A limit on the length of the     *)
(* chains is set.  An assertion that fails (the release build keeps them)  *)
(* ends the program: aborted.                                              *)
(***************************************************************************)
EXTENDS Integers, SequencesExt, TLC, MultiwayPartitioning

CONSTANTS NumHeads,
          NumChains,     \* num_markov_chains
          TargetLength,  \* markov_chain_target_length
          Switch,        \* values of disable_rescheduling
          SlowChains,    \* bound: chains whose results may come late
          SizeModulus    \* std::size_t counts modulo this, 2^64 in reality

ASSUME HeadLoopAssumption ==
  /\ {NumHeads, NumChains, TargetLength} \subseteq Nat \ {0}
  /\ NumHeads <= NumChains
  /\ Switch \subseteq BOOLEAN
  /\ SlowChains \subseteq 0 .. NumChains - 1
  /\ SizeModulus \in Nat /\ SizeModulus > TargetLength + 1

Heads == 0 .. NumHeads - 1
Ids == 0 .. NumChains - 1
NoId == -1

VARIABLES
  disabled,      \* disable_rescheduling
  aborted,       \* an assertion failed
  pc,            \* where each head is in its loop
  mcChainsToAdd, \* of each head: id |-> iteration
  mh,            \* of each head: id |-> algorithm object
  workQueue,     \* of each head: pairs of priority and id
  finished,      \* of each head: marcov_chains_finished
  iteration,     \* of each head: the local variable of this pass
  running,       \* of each head
  toMove,        \* of each head: marcov_chains_to_move, id |-> new head
  moving,        \* of each head: the id it has reached in toMove
  toGet,         \* of each head: markov_chains_to_get
  inProgress,    \* of each head: rescheduling_in_progress
  sendProgress,  \* of each head: send_progress_info
  passedOver,    \* history: an order to move came too late to be seen
  manager,       \* reschedule_manager of head 0, with move_requested
  tasks,         \* of each head: calls to execute, with their origin
  channel        \* channel[i][j]: calls under way from i to j

chains == <<mcChainsToAdd, mh, workQueue, finished>>
moves == <<toMove, moving, toGet, inProgress, sendProgress, passedOver>>
comm == <<tasks, channel>>
vars == <<disabled, aborted, pc, chains, iteration, running, moves, manager,
          comm>>

-----------------------------------------------------------------------------
(* Calls between the heads                                                 *)

RequestProgress == [fn |-> "request_progress_info"]
PassProgress(id, progress, wg) ==
  [fn |-> "pass_progress_info", id |-> id, score |-> progress, wg |-> wg]
MoveChain(n, to) == [fn |-> "move_markov_chain", n |-> n, to |-> to]
RecieveChain(id, it) == [fn |-> "recieve_markov_chain", id |-> id, iteration |-> it]

CallSet ==
  {RequestProgress}
    \union {PassProgress(id, p, wg) : id \in Ids, p \in 0 .. TargetLength, wg \in Heads}
    \union {MoveChain(n, to) : n \in 0 .. NumChains, to \in Heads}
    \union {RecieveChain(id, it) : id \in Ids, it \in 0 .. SizeModulus - 1}

(* schedule, for a sequence of pairs <<target, call>>: calls to itself go   *)
(* into the head's own queue, the others are sent.                          *)
Schedule(h, calls) ==
  LET To(j) == FlattenSeq([k \in DOMAIN calls |->
                 IF calls[k][1] = j THEN <<<<h, calls[k][2]>>>> ELSE <<>>])
  IN  /\ tasks' = [tasks EXCEPT ![h] = @ \o To(h)]
      /\ channel' = [channel EXCEPT
           ![h] = [j \in Heads |-> IF j = h THEN @[h] ELSE @[j] \o To(j)]]

(* Calls to itself that are left, and calls to others that are not executed *)
(* (num_waiting_for_reply).                                                 *)
IsWorkOutstanding(h) ==
  \/ tasks[h] # <<>>
  \/ \E j \in Heads : channel[h][j] # <<>> \/ \E t \in ToSet(tasks[j]) : t[1] = h

(* What a head has to execute when it has taken all that has arrived; the   *)
(* order is open between the calls of different heads.                      *)
Arrived(h) ==
  {tasks[h] \o FlattenSeq([k \in DOMAIN order |-> channel[order[k]][h]]) :
     order \in SetToSeqs(Heads \ {h})}

-----------------------------------------------------------------------------
(* The chains of a head                                                    *)

(* A new object; it needs no values in its first iteration. *)
Object(it) == [iteration |-> it, stage |-> "idle", fresh |-> TRUE]

Finish(m, last) ==
  [iteration |-> m.iteration + 1, stage |-> IF last THEN "ended" ELSE "idle",
   fresh |-> FALSE]

(* operator() of the algorithm.  Preparing an iteration and requesting its  *)
(* values, two calls, are one here; the first iteration of an object        *)
(* requests nothing.                                                        *)
Called(m, last) ==
  CASE m.stage = "idle" -> [m EXCEPT !.stage = IF m.fresh THEN "started" ELSE "waiting"]
    [] m.stage = "waiting" -> m
    [] OTHER -> Finish(m, last)

(* do_work of the workgroup's scheduler: the last result that is missing    *)
(* arrives for the chains that are not slow, and for any of the slow ones.  *)
AfterAnswers(objects) ==
  LET waiting == {id \in DOMAIN objects : objects[id].stage = "waiting"}
  IN  {[id \in DOMAIN objects |->
          IF id \in waiting \ late THEN [objects[id] EXCEPT !.stage = "answered"]
          ELSE objects[id]] : late \in SUBSET (waiting \cap SlowChains)}

Priority(it) == TargetLength - it

(* A chain beyond its target length is dropped, the others are added. *)
Added(h) == {id \in DOMAIN mcChainsToAdd[h] : mcChainsToAdd[h][id] < TargetLength}
Objects(h) ==
  [id \in DOMAIN mh[h] \union Added(h) |->
     IF id \in DOMAIN mh[h] THEN mh[h][id] ELSE Object(mcChainsToAdd[h][id])]

(* Fault: an added chain is queued as if it were new. *)
EntriesFault(h) ==
  workQueue[h] \union {<<TargetLength, id>> : id \in Added(h)}

Entries(h) ==
  workQueue[h] \union {<<Priority(mcChainsToAdd[h][id]), id>> : id \in Added(h)}

(* The orders in which a queue may yield its entries: most work first. *)
PopOrders(queue) ==
  {s \in SetToSeqs(queue) : \A i, j \in DOMAIN s : i < j => s[i][1] >= s[j][1]}

(* What is left of the queue once it does not begin with a chain that was   *)
(* moved away.                                                              *)
Present(h) ==
  {LET i == SelectInSeq(order, LAMBDA e : e[2] \in DOMAIN Objects(h))
   IN  IF i = 0 THEN <<>> ELSE SubSeq(order, i, Len(order)) :
     order \in PopOrders(Entries(h))}

(* Chains that wait for results are passed over, except the last one. *)
Chosen(h, queue) ==
  CHOOSE k \in DOMAIN queue :
    /\ \A i \in 1 .. k - 1 :
         /\ queue[i][2] \in DOMAIN Objects(h)
         /\ Objects(h)[queue[i][2]].stage = "waiting"
    /\ \/ k = Len(queue)
       \/ queue[k][2] \notin DOMAIN Objects(h)
       \/ Objects(h)[queue[k][2]].stage # "waiting"

(* The chains a head is given at the start (see ChainDistribution). *)
PerHead == NumChains \div NumHeads
Larger == NumChains % NumHeads
ShareStart(h) ==
  (IF h > Larger THEN h - Larger ELSE 0) * PerHead
    + (IF h <= Larger THEN h ELSE Larger) * (PerHead + 1)
ShareSize(h) == PerHead + (IF h < Larger THEN 1 ELSE 0)
Share(h) == ShareStart(h) .. ShareStart(h) + ShareSize(h) - 1

Init ==
  /\ disabled \in Switch
  /\ aborted = FALSE
  /\ pc = [h \in Heads |-> "begin"]
  /\ mcChainsToAdd = [h \in Heads |-> [id \in Share(h) |-> 0]]
  /\ mh = [h \in Heads |-> <<>>]
  /\ workQueue = [h \in Heads |-> {}]
  /\ finished = [h \in Heads |-> {}]
  /\ iteration = [h \in Heads |-> 0]
  /\ running = [h \in Heads |-> TRUE]
  /\ toMove = [h \in Heads |-> <<>>]
  /\ moving = [h \in Heads |-> NoId]
  /\ toGet = [h \in Heads |-> 0]
  /\ inProgress = [h \in Heads |-> FALSE]
  /\ sendProgress = [h \in Heads |-> FALSE]
  /\ passedOver = FALSE
  /\ manager = [required |-> FALSE, requested |-> FALSE, dataset |-> <<>>]
  /\ tasks = [h \in Heads |-> <<>>]
  /\ channel = [h \in Heads |-> [j \in Heads |-> <<>>]]

-----------------------------------------------------------------------------
(* A pass of the loop                                                      *)

Goto(h, next) == pc' = [pc EXCEPT ![h] = next]

(* Fault: a head without work stops even if chains may still be moved to it *)
MayStopFault(h) == ~IsWorkOutstanding(h) /\ DOMAIN toMove[h] = {}

MayStop(h) == ~inProgress[h] /\ ~IsWorkOutstanding(h) /\ DOMAIN toMove[h] = {}

NothingToRun(h) ==
  /\ pc[h] = "begin"
  /\ <<>> \in Present(h)
  /\ mcChainsToAdd' = [mcChainsToAdd EXCEPT ![h] = <<>>]
  /\ mh' = [mh EXCEPT ![h] = Objects(h)]
  /\ workQueue' = [workQueue EXCEPT ![h] = {}]
  /\ iteration' = [iteration EXCEPT ![h] = 0]
  /\ running' = [running EXCEPT ![h] = ~MayStop(h)]
  /\ Goto(h, "work")
  /\ UNCHANGED <<disabled, aborted, finished, moves, manager, comm>>

IsDone(m) == Priority(m.iteration) = 0

(* Fault: the entries passed over are not put back. *)
PutBackFault(h, queue) == ToSet(SubSeq(queue, Chosen(h, queue) + 1, Len(queue)))

(* What stays in the queue when one chain is chosen: those passed over are  *)
(* put back.                                                                *)
PutBack(h, queue) == ToSet(queue) \ {queue[Chosen(h, queue)]}

(* Chains that arrived are added, one is chosen and runs for one call; it   *)
(* goes back into the queue unless it is done.                              *)
RunChain(h) ==
  /\ pc[h] = "begin"
  /\ \E queue \in Present(h) \ {<<>>} :
       LET chosen == queue[Chosen(h, queue)]
           id == chosen[2]
           m == Called(Objects(h)[id], chosen[1] = 1)
           called == [Objects(h) EXCEPT ![id] = m]
           left == IF IsDone(m) THEN Restrict(called, DOMAIN called \ {id}) ELSE called
       IN  /\ id \in DOMAIN Objects(h)
           /\ \E objects \in AfterAnswers(left) : mh' = [mh EXCEPT ![h] = objects]
           /\ iteration' = [iteration EXCEPT ![h] = m.iteration]
           /\ workQueue' = [workQueue EXCEPT
                ![h] = PutBack(h, queue) \union
                         (IF IsDone(m) THEN {} ELSE {<<Priority(m.iteration), id>>})]
           /\ finished' = [finished EXCEPT
                ![h] = @ \union (IF IsDone(m) THEN {id} ELSE {})]
  /\ mcChainsToAdd' = [mcChainsToAdd EXCEPT ![h] = <<>>]
  /\ Goto(h, "work")
  /\ UNCHANGED <<disabled, aborted, running, moves, manager, comm>>

(* assert(mh_algorithms.contains(id)): the entry met, or the last one left, *)
(* is of a chain that was moved away.                                       *)
MeetsMovedChain(h) ==
  /\ pc[h] = "begin"
  /\ \E queue \in Present(h) \ {<<>>} :
       queue[Chosen(h, queue)][2] \notin DOMAIN Objects(h)

-----------------------------------------------------------------------------
(* do_work of the group of heads                                           *)

InDoWork(h) ==
  \/ pc[h] \in {"work", "work while moving", "last work"}
  \/ pc[h] = "drain" /\ IsWorkOutstanding(h)

(* request_rescheduling is due, once, when a chain has come to iteration 2. *)
RequestDue == ~manager.requested /\ iteration[0] = 2 /\ ~disabled

InformationComplete == manager.required /\ Len(manager.dataset) >= NumChains

(* Stretches of the pass that have nothing to do are passed over. *)
AfterProgress(h) ==
  IF h = 0 /\ NumHeads > 1 /\ (RequestDue \/ InformationComplete)
  THEN "manager" ELSE "last work"
AfterMoves(h) == IF sendProgress[h] THEN "progress" ELSE AfterProgress(h)

AfterWork(h) ==
  /\ iteration' = [iteration EXCEPT ![h] = IF pc[h] = "last work" THEN 0 ELSE @]
  /\ Goto(h, CASE pc[h] = "work" ->
                    IF DOMAIN toMove'[h] = {} THEN AfterMoves(h)' ELSE "next move"
               [] pc[h] = "work while moving" -> "move"
               [] pc[h] = "last work" -> IF running[h] THEN "begin" ELSE "drain"
               [] OTHER -> pc[h])

NoTask(h) ==
  /\ InDoWork(h)
  /\ <<>> \in Arrived(h)
  /\ UNCHANGED <<disabled, aborted, chains, running, moves, manager, comm>>
  /\ AfterWork(h)

GotMarkovChain(h, n) ==
  /\ toGet' = [toGet EXCEPT ![h] = @ + n]
  /\ inProgress' = [inProgress EXCEPT ![h] = @ /\ toGet[h] + n # 0]

RequestProgressInfo(h, call) ==
  /\ call.fn = "request_progress_info"
  /\ sendProgress' = [sendProgress EXCEPT ![h] = TRUE]
  /\ inProgress' = [inProgress EXCEPT ![h] = TRUE]
  /\ UNCHANGED <<mcChainsToAdd, toGet, toMove, manager>>

PassProgressInfo(h, call) ==
  /\ call.fn = "pass_progress_info"
  /\ manager' = [manager EXCEPT
       !.dataset = Append(@, [id |-> call.id, score |-> call.score, wg |-> call.wg])]
  /\ UNCHANGED <<mcChainsToAdd, toGet, toMove, inProgress, sendProgress>>

(* Entries of the maps: [] replaces the one that is there, emplace keeps it. *)
Assigned(map, x, y) == [z \in DOMAIN map \union {x} |-> IF z = x THEN y ELSE map[z]]
Emplaced(map, x, y) ==
  [z \in DOMAIN map \union {x} |-> IF z \in DOMAIN map THEN map[z] ELSE y]

(* For the head itself n is the number of chains it will get, for another   *)
(* one the id of the chain to move there.                                   *)
MoveMarkovChain(h, call) ==
  /\ call.fn = "move_markov_chain"
  /\ IF call.to = h
     THEN GotMarkovChain(h, call.n) /\ UNCHANGED toMove
     ELSE /\ toMove' = [toMove EXCEPT ![h] = Assigned(@, call.n, call.to)]
          /\ UNCHANGED <<toGet, inProgress>>
  /\ UNCHANGED <<mcChainsToAdd, sendProgress, manager>>

RecieveMarkovChain(h, call) ==
  /\ call.fn = "recieve_markov_chain"
  /\ mcChainsToAdd' = [mcChainsToAdd EXCEPT ![h] = Emplaced(@, call.id, call.iteration)]
  /\ GotMarkovChain(h, -1)
  /\ UNCHANGED <<toMove, sendProgress, manager>>

(* What the called functions assert. *)
Asserted(h, call) ==
  CASE call.fn = "request_progress_info" -> toGet[h] = 0
    [] call.fn = "pass_progress_info" -> manager.required
    [] call.fn = "move_markov_chain" ->
         call.to = h => toGet[h] = 0 /\ (call.n = 0 => inProgress[h])
    [] OTHER -> toGet[h] = 1 => inProgress[h]

(* The loop over the chains to move has gone past this one (see NextMove). *)
ComesTooLate(h, call) ==
  call.fn = "move_markov_chain" /\ call.to # h /\ call.n < moving[h]

(* All that has arrived is taken, and one call is executed. *)
Execute(h) ==
  /\ InDoWork(h)
  /\ \E arrived \in Arrived(h) \ {<<>>} :
       LET call == Head(arrived)[2]
       IN  /\ Asserted(h, call)
           /\ \/ RequestProgressInfo(h, call)
              \/ PassProgressInfo(h, call)
              \/ MoveMarkovChain(h, call)
              \/ RecieveMarkovChain(h, call)
           /\ passedOver' = (passedOver \/ ComesTooLate(h, call))
           /\ tasks' = [tasks EXCEPT ![h] = Tail(arrived)]
  /\ channel' = [j \in Heads |-> [channel[j] EXCEPT ![h] = <<>>]]
  /\ UNCHANGED <<disabled, aborted, mh, workQueue, finished, running, moving>>
  /\ AfterWork(h)

CallFails(h) ==
  /\ InDoWork(h)
  /\ \E arrived \in Arrived(h) \ {<<>>} : ~Asserted(h, Head(arrived)[2])

-----------------------------------------------------------------------------
(* Moving chains away                                                      *)

(* The loop over marcov_chains_to_move, which is a map: it goes on with the *)
(* next greater id, and entries that came in below it are cleared with the  *)
(* others.                                                                  *)
NextMove(h) ==
  LET left == {id \in DOMAIN toMove[h] : id > moving[h]}
  IN  /\ pc[h] = "next move"
      /\ IF left = {}
         THEN /\ toMove' = [toMove EXCEPT ![h] = <<>>]
              /\ moving' = [moving EXCEPT ![h] = NoId]
              /\ Goto(h, AfterMoves(h))
         ELSE /\ moving' = [moving EXCEPT ![h] = Min(left)]
              /\ Goto(h, "move")
              /\ UNCHANGED toMove
      /\ UNCHANGED <<disabled, aborted, chains, iteration, running, toGet,
                     inProgress, sendProgress, passedOver, manager, comm>>

Erase(h, id) ==
  mh' = [mh EXCEPT ![h] = Restrict(@, DOMAIN @ \ {id})]

(* A finished chain: a state with the greatest iteration stands for it. *)
SendDummy(h) ==
  LET id == moving[h]
  IN  /\ pc[h] = "move"
      /\ id \in finished[h]
      /\ Schedule(h, <<<<toMove[h][id], RecieveChain(id, SizeModulus - 1)>>>>)
      /\ Goto(h, "next move")
      /\ UNCHANGED <<disabled, aborted, chains, iteration, running, moves, manager>>

(* Fault: the object is sent and not erased. *)
SendChainFault(h) ==
  LET id == moving[h]
  IN  /\ pc[h] = "move"
      /\ id \in DOMAIN mh[h] \ finished[h]
      /\ mh[h][id].stage = "idle"
      /\ Schedule(h, <<<<toMove[h][id],
           RecieveChain(id, (mh[h][id].iteration - 1) % SizeModulus)>>>>)
      /\ Goto(h, "next move")
      /\ UNCHANGED <<disabled, aborted, chains, iteration, running, moves, manager>>

(* A chain between two iterations: its last state is sent, get_last_state   *)
(* counts one iteration less.                                               *)
SendChain(h) ==
  LET id == moving[h]
  IN  /\ pc[h] = "move"
      /\ id \in DOMAIN mh[h] \ finished[h]
      /\ mh[h][id].stage = "idle"
      /\ Schedule(h, <<<<toMove[h][id],
           RecieveChain(id, (mh[h][id].iteration - 1) % SizeModulus)>>>>)
      /\ Erase(h, id)
      /\ Goto(h, "next move")
      /\ UNCHANGED <<disabled, aborted, mcChainsToAdd, workQueue, finished,
                     iteration, running, moves, manager>>

(* The chain to move is within an iteration. *)
MustAdvance(h) ==
  /\ pc[h] = "move"
  /\ moving[h] \in DOMAIN mh[h] \ finished[h]
  /\ mh[h][moving[h]].stage \notin {"idle", "ended"}

(* It goes on until that is finished. *)
AdvanceChain(h) ==
  LET id == moving[h]
      m == Called(mh[h][id], iteration[h] = TargetLength)
      called == [mh[h] EXCEPT ![id] = m]
  IN  /\ MustAdvance(h)
      /\ \E objects \in AfterAnswers(called) : mh' = [mh EXCEPT ![h] = objects]
      /\ iteration' = [iteration EXCEPT ![h] = m.iteration]
      /\ Goto(h, "work while moving")
      /\ UNCHANGED <<disabled, aborted, mcChainsToAdd, workQueue, finished,
                     running, moves, manager, comm>>

(* The chain to move is not here, or its last iteration is over already.   *)
MoveFails(h) ==
  /\ pc[h] = "move"
  /\ moving[h] \notin finished[h]
  /\ moving[h] \in DOMAIN mh[h] => mh[h][moving[h]].stage = "ended"

-----------------------------------------------------------------------------
(* Progress of the chains, and the new division among the heads            *)

ProgressCalls(h) ==
  LET ids == StableSort(<, SetToSeq(DOMAIN mh[h]))
  IN  [k \in DOMAIN ids |-> <<0, PassProgress(ids[k], mh[h][ids[k]].iteration, h)>>]

SendProgress(h) ==
  /\ pc[h] = "progress"
  /\ Schedule(h, ProgressCalls(h))
  /\ sendProgress' = [sendProgress EXCEPT ![h] = FALSE]
  /\ Goto(h, AfterProgress(h))
  /\ UNCHANGED <<disabled, aborted, chains, iteration, running, toMove, moving,
                 toGet, inProgress, passedOver, manager>>

RequestRescheduling ==
  /\ pc[0] = "manager"
  /\ RequestDue
  /\ manager' = [required |-> TRUE, requested |-> TRUE, dataset |-> <<>>]
  /\ Schedule(0, [k \in 1 .. NumHeads |-> <<k - 1, RequestProgress>>])
  /\ Goto(0, "last work")
  /\ UNCHANGED <<disabled, aborted, chains, iteration, running, moves>>

Workload ==
  [wg \in Heads |->
     FoldLeft(LAMBDA sum, e : sum + (IF e.wg = wg THEN e.score ELSE 0), 0, manager.dataset)]

Spread(load) == Max({load[wg] : wg \in Heads}) - Min({load[wg] : wg \in Heads})

(* cancel_rescheduling: every head will get no chain. *)
Cancel == [k \in 1 .. NumHeads |-> <<k - 1, MoveChain(0, k - 1)>>]

(* The entries of the subset for head `to` whose chains are elsewhere, and  *)
(* the orders to the heads that have these chains.                          *)
Comers(entries, to) == {i \in DOMAIN entries : entries[i].wg # to}
ComersCalls(entries, to) ==
  FlattenSeq([i \in DOMAIN entries |->
    IF i \in Comers(entries, to)
    THEN <<<<entries[i].wg, MoveChain(entries[i].id, to)>>>> ELSE <<>>])

(* Fault: the chains that stay are announced as well. *)
MoveCallsFault(partition) ==
  FlattenSeq([k \in 1 .. NumHeads |->
    ComersCalls(partition[k].entries, k - 1)
      \o <<<<k - 1, MoveChain(Len(partition[k].entries), k - 1)>>>>])

(* For every head in turn the chains it gets from others, then their number *)
MoveCalls(partition) ==
  FlattenSeq([k \in 1 .. NumHeads |->
    ComersCalls(partition[k].entries, k - 1)
      \o <<<<k - 1, MoveChain(Cardinality(Comers(partition[k].entries, k - 1)), k - 1)>>>>])

(* Fault: a division that is no better is carried out. *)
DivisionFault ==
  LET partition == Partitioned(NumHeads, manager.dataset)
  IN  IF Difference(NumHeads, partition) > Spread(Workload) THEN Cancel
      ELSE MoveCalls(partition)

(* reschedule: nothing is moved unless that makes the loads more even.  The *)
(* dataset is cleared here; the code clears it before it is used again.     *)
Division ==
  LET partition == Partitioned(NumHeads, manager.dataset)
  IN  IF Difference(NumHeads, partition) >= Spread(Workload) THEN Cancel
      ELSE MoveCalls(partition)

Reschedule ==
  /\ pc[0] = "manager"
  /\ ~RequestDue
  /\ Schedule(0, Division)
  /\ manager' = [manager EXCEPT !.required = FALSE, !.dataset = <<>>]
  /\ Goto(0, "last work")
  /\ UNCHANGED <<disabled, aborted, chains, iteration, running, moves>>

-----------------------------------------------------------------------------
(* The end                                                                 *)

Leave(h) ==
  /\ pc[h] = "drain"
  /\ ~IsWorkOutstanding(h)
  /\ Goto(h, "left")
  /\ UNCHANGED <<disabled, aborted, chains, iteration, running, moves, manager, comm>>

AssertFails(h) ==
  /\ MeetsMovedChain(h) \/ CallFails(h) \/ MoveFails(h)
  /\ aborted' = TRUE
  /\ UNCHANGED <<disabled, pc, chains, iteration, running, moves, manager, comm>>

LoopStep(h) ==
  \/ NothingToRun(h) \/ RunChain(h)
  \/ NoTask(h) \/ Execute(h)
  \/ NextMove(h) \/ SendDummy(h) \/ SendChain(h) \/ AdvanceChain(h)
  \/ SendProgress(h)
  \/ h = 0 /\ (RequestRescheduling \/ Reschedule)
  \/ Leave(h)
  \/ AssertFails(h)

HeadStep(h) == ~aborted /\ LoopStep(h)

Over == aborted \/ \A h \in Heads : pc[h] = "left"
Ended == Over /\ UNCHANGED vars

(* The steps at the beginning of a pass, between two moves and of a chain   *)
(* to move touch nothing another head sees: they are not interleaved with   *)
(* those of other heads.                                                    *)
Local(h) == pc[h] \in {"begin", "next move"} \/ MustAdvance(h)

Next ==
  \/ \E h \in Heads :
       /\ Local(h) \/ \A j \in Heads : ~Local(j)
       /\ HeadStep(h)
  \/ Ended

Spec == Init /\ [][Next]_vars

-----------------------------------------------------------------------------
(* Properties                                                              *)

(* Every variable has its type; a chain is never beyond its target length. *)
HLTypeOK ==
  /\ disabled \in Switch /\ aborted \in BOOLEAN
  /\ \A h \in Heads :
       /\ pc[h] \in {"begin", "work", "next move", "move", "work while moving",
                     "progress", "manager", "last work", "drain", "left"}
       /\ DOMAIN mcChainsToAdd[h] \union DOMAIN mh[h] \union DOMAIN toMove[h]
            \union finished[h] \subseteq Ids
       /\ \A id \in DOMAIN mh[h] : mh[h][id].iteration \in 0 .. TargetLength
       /\ workQueue[h] \subseteq (1 .. TargetLength) \X Ids
       /\ iteration[h] \in 0 .. TargetLength
       /\ toGet[h] \in Int
       /\ {running[h], inProgress[h], sendProgress[h]} \subseteq BOOLEAN
       /\ moving[h] \in Ids \union {NoId}
       /\ passedOver \in BOOLEAN
       /\ ToSet(tasks[h]) \subseteq Heads \X CallSet
       /\ \A j \in Heads : ToSet(channel[h][j]) \subseteq {h} \X CallSet

(* Between two passes every chain of a head stands in its queue exactly     *)
(* once, and with the work that is left: none is forgotten while others     *)
(* wait for results and the queue is taken apart, and whether an iteration  *)
(* is the last one, which is read off the priority, is right.               *)
QueueIsExact ==
  HLTypeOK /\ \A h \in Heads : \A id \in DOMAIN mh[h] \ {moving[h]} :
    {e \in workQueue[h] : e[2] = id} = {<<Priority(mh[h][id].iteration), id>>}

(* The calls a head has still to execute, with the place each one is at.    *)
CallsTo(h) ==
  {<<h, k, tasks[h][k][2]>> : k \in DOMAIN tasks[h]}
    \union UNION {{<<j, k, channel[j][h][k][2]>> : k \in DOMAIN channel[j][h]} :
                    j \in Heads \ {h}}

ChainsSent(h) == {c \in CallsTo(h) : c[3].fn = "recieve_markov_chain"}
MovesTo(h, j) ==
  {c \in CallsTo(j) : c[3].fn = "move_markov_chain" /\ c[3].to = h}

(* A chain has at most one place: a head that runs or will run it, a        *)
(* message that brings it, or a head that finished it.  Two heads that ran  *)
(* one chain would both report its states.                                  *)
RunsOnce ==
  \A id \in Ids :
    Cardinality(
      {<<"runs", h>> : h \in {g \in Heads : id \in DOMAIN mh[g]}}
        \union {<<"will run", h>> : h \in {g \in Heads : id \in Added(g)}}
        \union {<<"finished", h>> : h \in {g \in Heads : id \in finished[g]}}
        \union {c \in UNION {ChainsSent(h) : h \in Heads} :
                  c[3].id = id /\ c[3].iteration < TargetLength}) <= 1

(* A head that has left its loop has no chain any more, none to send, and   *)
(* none is on its way to it: what came to it now would not be run.          *)
NoChainComesLate ==
  \A h \in Heads : pc[h] \in {"drain", "left"} =>
    /\ DOMAIN mh[h] = {} /\ DOMAIN toMove[h] = {} /\ Added(h) = {}
    /\ ChainsSent(h) = {}

Announced(h) == MapThenSumSet(LAMBDA c : c[3].n, MovesTo(h, h))

(* Chains that the loop over the chains to move of head j will send to h.   *)
MovesLeft(j, h) ==
  {id \in DOMAIN toMove[j] :
     /\ toMove[j][id] = h
     /\ id > moving[j] \/ (id = moving[j] /\ pc[j] # "next move")}

(* Chains that others are told to move to h and that have not arrived. *)
ToCome(h) ==
  Cardinality(ChainsSent(h))
    + Cardinality(UNION {MovesTo(h, j) : j \in Heads \ {h}})
    + Cardinality(UNION {{<<j, id>> : id \in MovesLeft(j, h)} : j \in Heads})

(* With what is still to be announced to a head, markov_chains_to_get is    *)
(* the number of chains that will still arrive there, whatever the order of *)
(* announcements, moves and arrivals; when it is zero the rescheduling ends *)
(* for the head.  This needs that no order was passed over: an order for a  *)
(* smaller id that comes in while the loop over the chains to move finishes *)
(* an iteration is cleared, and its chain is waited for in vain.            *)
AnnouncedIsExact ==
  ~passedOver => \A h \in Heads : toGet[h] + Announced(h) = ToCome(h)

(* The orders <<from, to, id>> under way.  *)
Orders ==
  UNION {{<<g, h, c[3].n>> : c \in MovesTo(h, g)} : g, h \in Heads}
MovesOrdered == {o \in Orders : o[1] # o[2]}

(* The load of a head if all chains of the dataset are moved as ordered. *)
PlannedLoad(dataset, orders, wg) ==
  MapThenSumSet(LAMBDA k : dataset[k].score,
    {k \in DOMAIN dataset :
       LET to == {h \in Heads : <<dataset[k].wg, h, dataset[k].id>> \in orders}
       IN  wg \in (IF to = {} THEN {dataset[k].wg} ELSE to)})

SpreadOfPlan(dataset, orders) ==
  Spread([wg \in Heads |-> PlannedLoad(dataset, orders, wg)])

(* Chains are only moved when that brings the least and the most loaded     *)
(* head closer together, whatever the partitioning algorithm returns.       *)
MovesEvenTheLoad ==
  [][manager.required /\ ~manager'.required /\ MovesOrdered' # {}
       => SpreadOfPlan(manager.dataset, MovesOrdered') < Spread(Workload)]_vars

(* Without rescheduling a head only leaves its loop when every chain it was *)
(* given has been finished: none got lost while chains that wait for        *)
(* results were passed over.                                                *)
LeavesFinished ==
  disabled => \A h \in Heads : pc[h] \in {"drain", "left"} => finished[h] = Share(h)

=============================================================================
