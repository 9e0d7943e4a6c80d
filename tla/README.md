# Verification of the distributed Metropolis-Hastings simulation

TLA+ models, TLC configurations and TLAPS proofs for the C++ program under
`src/implementation/src` (paths below are relative to it), and for the scripts
of its HTML documentation under `src/implementation/documentation/html` (named
by their files, `search.js` and `dynsections.js`). The program runs
Markov chains over subsets of resolvents of a SAT formula: a state is valued by
running probSAT many times on the formula with these resolvents, and the next
state is accepted or declined by a statistical test on the values. The chains
and the probSAT runs are distributed over MPI processes.

## 1. The system

Processes that share a temporary directory form a *workgroup*; its smallest
rank is the *head*, the others are *workers*. Each head runs some of the chains
in one thread and hands the probSAT runs to its workers; the heads can call
each other (this is what the rescheduling of chains uses, which a constant,
`disable_rescheduling` in `main.cpp:74`, switches off).

| part | state | operations | partners |
|---|---|---|---|
| load account, `distributed_computation/lazy_round_robin_scheduler.hpp` | load per worker; multimap load to worker | get a worker for a task, task finished | scheduler |
| scheduler, `distributed_computation/on_demand_scheduler.hpp` | queue of calls, calls not answered, sends not complete | `schedule`, `do_work` (head and worker side) | load account, sends, result functions, main loops |
| calls, `rpc.hpp`, `remote_execution_context.hpp`, `util/uuid.hpp` | function registry, ids handed out and given back | `prepare_call`, `on_result`, `execute_rpc` | scheduler, group of heads |
| sends, `util/mpi/mpi_async_communication.cpp` | outstanding requests and their buffers | `send_message`, `test_for_messages` | MPI |
| group of heads, `distributed_computation/remote_computation_group.hpp` | calls and results to execute, calls not acknowledged | `schedule`, `do_work` | other heads |
| chain, `metropolis_hastings/algorithm.hpp` | iteration, current and proposed configuration, generator | `operator()`, `get_last_state`, `cleanup` | acceptance test, main loop |
| acceptance test, `statistical_acceptance_computation.hpp` | two state slots with values, cutoffs, results missing | start, continue, finish | temporary files, scheduler |
| temporary files, `util/shared_tmpfile.cpp`, `probsat-with-resolvents.hpp` | file per state, ids | create, remove | workers read them |
| probSAT run, `value_computation/utility/probsat-execution.cpp` | pipe, rest of a line, time | `execute_probsat` | child process |
| workgroups, `util/mpi/mpi_shared_tmp_workgroup.cpp` | directories in the temporary directory, communicators | constructor | file system, all processes |
| start, `main.cpp:380-574`, `util/seed.hpp` | configuration, file with the global seed | global seed, distribution of chains and seeds | workgroups, all heads |
| rescheduling, `distributed_computation/rescheduling.hpp`, `multiway_partitioning.hpp`, `main.cpp:202-315` | progress of the chains, chains to move and to get | request and pass progress, divide anew, move, receive | group of heads, main loop |
| main loop, `main.cpp:678-927` | work queue, chains | choose a chain, run it, `do_work`, finish, stop | everything above |
| search panel, `search/search.js` (`SearchBox`) | field, popup of filters, window of results, two timers, focus | handlers of keys, mouse, focus and timers | reader, page of results |
| page of results, `search/search.js` (`SearchResults`) | items displayed, lists that are open, key repeated | `Search`, `Toggle`, `Nav*` | search panel, by a message and by calls to the parent |
| tables that fold, `dynsections.js` | which rows are displayed, icons, stripes | choose a level, click on a folder | reader |

What is hard: answers and pings of several workers interleave with scheduling
in a single-threaded head; ids and file names are reused while messages that
carry them are under way; an asynchronous send may complete at any later time
and somebody must look; results arrive in any order and are written into slots
that are reused from iteration to iteration; a chain may be moved between two
iterations and must not notice; the output of a child process is cut anywhere;
all heads must arrive at one consistent division of the chains without talking;
a head must not end while a chain is on its way to it, and the work queue and
the chains must agree although both change while chains are run and moved;
the workers must be stopped after the last call and never before; processes
that know nothing of each other find their workgroup in a directory, between
barriers; a job that died is started again and must go on with the same seed.
In the documentation the focus moves inside handlers, which then run others,
timers fire between any two of them, and a page loads later than it is asked for.
`PROJECT.json` lists these hazards with the line where each one bites and the
properties that cover it.

## 2. Modules

    TaskPool  <=  OnDemandScheduler  extends  LazyRoundRobin  <-  MCLazyRoundRobin
       ^              ^
       |              '--  OnDemandSchedulerProofs  (the load account too)
       '------  RemoteComputationGroup  <-  RemoteComputationGroupProofs
    MarkovChains  <=  MetropolisHastings  <-  MetropolisHastingsProofs
    HeadLoop  extends  MultiwayPartitioning
    HeadLoopProofs  extends  HeadLoop, MultiwayPartitioningProofs
    ProbsatExecution  <-  MCProbsatExecution, ProbsatExecutionProofs
    Startup  extends  ChainDistribution, SharedTmpWorkgroup  <-  MCStartup
       ^
       '---- StartupProofs  (ChainDistribution too)
    SearchPanel  extends  SearchResults
    MCDocumentation, DocumentationProofs  extend  SearchPanel, DirectoryTree

(`<=`: the right one implements the left one under a refinement mapping;
`<-`: the right one proves or instantiates the left one.)

* **LazyRoundRobin**: `numTasksScheduled` is the vector, `idsForScheduled` the
  multimap, one sequence of workers per load (std::multimap keeps equal keys in
  order of insertion). `GetIdToScheduleTaskOn` and `TaskFinished` are the two
  operations, the asserts of the code are guards that must hold, which
  `LookupConsistent` shows. MCLazyRoundRobin adds a history of preferences.
* **OnDemandScheduler**: head and workers with program counters that follow
  `do_work`. Head: `FeedHungryWorkers`, `Poll`, `Fill`/`FillPoll`, `Reap` are
  the four stretches of `do_work` between two looks at the network;
  `ExecuteOwn`/`DeliverOwn` the head without workers; `StartRound`, `Submit`,
  `Wait`, `Drain`, `StopNextWorker` what main does with it. Workers:
  `WorkerReceive`, `WorkerTest`, `WorkerWait`, `WorkerExecute`. The channels
  are FIFO queues (MPI's non-overtaking rule), `outstanding` the sends that the
  sender has not seen to be complete. A chain is reduced to batches of calls.
* **TaskPool**: what both schedulers promise: each call is executed once, then
  its result function is called once with the result of this call, and the
  workers are stopped only when all is settled.
* **RemoteComputationGroup**: heads that call each other and themselves;
  counters of type `std::size_t` count modulo `SizeModulus`.
* **MetropolisHastings**: the algorithm objects of one head. A generator is a
  position in its stream, a configuration is named by the position at which it
  was drawn, a value by the file content and seed it was computed from. So
  "right evidence" and "same chain" are statements about names. `Prepare`,
  `Request`, `Continue`/`Finish`, `Result` are the handlers; `Move` and `Erase`
  what main does with an object.
* **MarkovChains**: sequential Metropolis-Hastings with the same draws.
* **ProbsatExecution**: child, pipe, clock and the loop of `execute_probsat_`.
  Output is a sequence of pieces; a read takes up to `BufferSize` of them.
* **ChainDistribution**: every head computes its range of ids, skips seeds and
  adds chains; the heads interleave and never communicate.
* **SharedTmpWorkgroup**: the constructor of the workgroups, call by call
  (`Stages`): `BuildTmpDirPath`, `CreateDirectories`, `EnsureEmpty`,
  `CreateEntry`, `FindHead`, `RemoveAll`, two `Split`s, `ShareWorkgroupId`, with `Barrier`
  in between. A machine is a temporary directory; `tmp` outlives a run.
* **Startup**: these two and the global seed in between (`MakeSeed`,
  `WriteSeed`, `ReadSeed`, `GetSeed`): the file reaches the disk in parts. A run
  may die between any two steps and be started again (`Restart`), elsewhere and
  with other arguments; asserts that fail end it (`Fails`).
* **HeadLoop**: the loops of all heads, with the stretches of a pass between two
  calls of `do_work` as steps: `NothingToRun`/`RunChain` (take in added chains,
  drop stale entries, choose, run, put back), `NoTask`/`Execute` (do_work of the
  group of heads, which executes at most one call), `NextMove`, `SendDummy`,
  `SendChain`, `AdvanceChain` (the loop over the chains to move), `SendProgress`,
  `RequestRescheduling`/`Reschedule` (head 0), `Leave`. The functions the heads
  call (`RequestProgressInfo`, `PassProgressInfo`, `MoveMarkovChain`,
  `RecieveMarkovChain`) change the variables named after those in main.cpp. An
  assert that fails ends the program (`AssertFails`, `aborted`).
  `disable_rescheduling` is one of the values of `Switch` for a behaviour.
* **MultiwayPartitioning**: the differencing method as operators on sequences.
* **SearchResults**: the page of results as pure operators: which items a text
  finds (`MatchingItems`, by comparing ids that `ConvertToId` makes of names),
  and where arrow up and down lead from a link (`Up`, `Down`), with hidden
  items and open lists in between.
* **SearchPanel**: the panel with a reader. A handler is a function from a state
  of the panel to the next one, since handlers call each other and, by moving
  the focus, the handlers of focus and blur. `KeyDown`, `KeyPress`, `KeyUp` and
  the mouse are the reader, `KeyTimer`, `HideTimer`, `FrameLoads` and
  `TakeFocus` the browser. A character is its code.
* **DirectoryTree**: a table as a set of rows, a row named by its path;
  `ToggleLevel` and `ToggleFolder` (`Show`, `Hide`) with `UpdateStripes`.

Operators named `...Fault` (always directly before the definition they vary)
are not part of the model. Each is a plausible mistake in the code: exchanging
it for the definition behind it must make a property fail, which shows that the
property depends on the code. The pairs are listed under `mutants`.

## 3. Runs

| run | bounds | shows |
|---|---|---|
| lazy_round_robin | 4 workers, capacity 2 | LookupConsistent, LeastLoadedFirst, RoundRobinAmongEquals |
| ods_safety | 2 workers or none, capacity 2, 2 chains with batches of 2, 3 notices (7 calls for 4 places), eager sends | LoadIsExact, IdsMatchCalls, NoIdleWorker, LeaveClean |
| ods_live | 2 workers or none, capacity 1, 3 calls for 2 places, sends may complete late | ImplementsTaskPool, Termination |
| ods_drain | 2 workers, 1 batch of 3, late sends | CompletionIsSeen **fails** |
| metropolis_hastings | 2 chains, target length 3, 1 value per request, at most 2 requests, 1 move | FilesMatchStates, EvidenceIsOwn, NothingStray, OldStateIsAhead, ImplementsMarkovChains |
| probsat_execution | 6 outputs of up to 8 pieces, reads of 2, limit at tick 2 of 3 | FoundWhenRead, TimeoutIsLast, WorkerReturns |
| probsat_limit | outputs without the answer | TimeIsLimited **fails** |
| startup | 1 process, 4 on two machines, 3 on three; 0, 1, 4, 5 chains, offsets 0 and 2; a file of 2 parts; 2 runs, 2 random numbers | FormsWorkgroups, FailsOnlyOnRemains, SeedsAreRepeatable, OneHeadPerChain |
| remote_computation_group | 2 heads, 2 calls for each ordered pair, late sends, with and without result functions | PendingIsExact, QuietMeansDone, CallsInOrder, ComesToRest, ImplementsTaskPool |
| head_loop | 2 heads, 4 chains, target length 3, results of one chain may be late, rescheduling on and off | QueueIsExact, RunsOnce, NoChainComesLate, AnnouncedIsExact, MovesEvenTheLoad, LeavesFinished |
| documentation | a filter, 3 items one of which is a list, texts "" and " A", one forgotten timer; ten rows on four levels | QuietPanelIsReset, PopupStaysUnderPointer, FocusIsDisplayed, UpUndoesDown, EnteredIsSearched, IconsTellTheTruth, StripesAlternate, SearchFindsNames |
| search_reopens | the same | OpensOnlyWhenActive **fails** |

A module's type invariant is a conjunct of the first invariant of its run, or
is proved (LazyRoundRobin).

Why the bounds suffice: more calls than the workers can hold bring the queue
into play, capacity 2 the difference between idle, busy and full, capacity 1 the
shortest way to a full group with late sends. Two chains and two batches reuse
ids while others are pending. In MetropolisHastings length 3 contains the first
state, an accepted or declined one and a last one; two requests make the two
slots differ in the number of their values; one move is enough to meet every
stage. The outputs have the answer at the end, in the middle, after a decoy, or
not at all, and reads of 2 pieces cut every line. In startup the ranks of
neither the workgroups nor the heads follow one another; 5 or 1 chains on 2 and
3 workgroups give remainders and empty workgroups; the second run may find the
directory of the first one (the same number), a whole seed, a part or none. In
the documentation one item is hidden between two others for some texts, the
list has a child, so that every way up and down occurs, and a forgotten timer
may fire at any later time; that one filter stands for any number of them is
proved for all properties of the panel but EnteredIsSearched. In head_loop the request for progress
comes at iteration 2 of 3, so that chains have different progress and some
finish before, during and after the rescheduling; a slow chain makes
the queue be taken apart, on the first head or where it was moved. Six chains on two and on three heads, all slow,
were simulated for these invariants and MovesEvenTheLoad without a violation
(not a run: the state space is too large to exhaust).

Deadlock is checked in all runs of the program: the only state in which nothing
else can happen is its end, which has a step of its own (`Finished`, `Started`,
`Ended`). It is not checked for the documentation, where a reader may rest.

### Findings

* `ods_drain`: while some worker has room and the queue is empty, `do_work`
  returns (`on_demand_scheduler.hpp:275`) before it tests for completed sends
  (`:287`). A send that was not complete at once is then never removed, and the
  last loop of the head (`main.cpp:912`) runs for ever. `Termination` is
  therefore stated, and holds, for behaviours in which the list of outstanding
  sends is empty again and again; with small messages, which MPI completes at
  once, it always is.
* `probsat_limit`: a probSAT process that ends without a line of flips keeps its
  worker in the inner read loop, which takes the end of file for a read of
  nothing and does not look at the time.

* `search_reopens`: a search that is due half a second after the last key is made
  although the reader has left the panel before (`search.js:389` leaves the
  timer pending): the window of results opens over the page, for the label of
  the field.

Not a run, but visible in SearchPanel and SearchResults: Shift+Down in the field
stops the timer of the search and starts none (`search.js:164`), so what was
entered is not searched until another key comes; Down in the popup reaches an
index behind the last filter (`:278`), where Search raises an exception; ids are
compared instead of names, so a text that ends with another character than a
letter or digit may find an item by its number ("change!" the item `change` if
its number begins with 21, the code of `!`; `:498`). The properties name these
exceptions.

Not a run, but visible in Startup: when a run dies while it writes the seed, all
later runs end at the assert of `util/seed.hpp:172`, until the
file is removed by hand (`FailsOnlyOnRemains` names this case). They do not go
on with another seed, which is what matters for the chains.

Not a run, but visible in RemoteComputationGroup: if a call between heads has a
result function, the result is acknowledged like a call and both counters go
wrong (`PendingIsExact` is checked for calls without one). `main.cpp` makes only
calls without answers between heads.

Not a run, but visible in MetropolisHastings: NaN results are not counted as
available and the limit of iterations is tested only when enough values are
available (`statistical_acceptance_computation.hpp:386, 411`), so with them the
limit can be exceeded. The run has no NaN results (`MaxNotFinite = 0`); its
properties were also checked with one, which takes over five minutes.

Not a run, because `disable_rescheduling` is true, but visible in HeadLoop with
the rescheduling switched on:

* the work queue meets the entry of a chain that was moved away below its top,
  and the assert of `main.cpp:752` or `:780` fails;
* while the loop over the chains to move finishes an iteration, an order for a
  smaller id comes in and is cleared with the others (`:857`; needs two orders
  to one head, so more than two chains per head). `passedOver` records it;
* a chain that was not started yet is sent with iteration 0 - 1 and dropped;
* the last iteration is recognised by the variable of another chain (`:836`);
* a chain that finished before it was asked for its progress never reports, and
  the rescheduling never completes (`rescheduling.hpp:109`): no head ends.

These limit the properties: AnnouncedIsExact assumes that no order was passed
over, LeavesFinished that the rescheduling is off, and none is about how a
behaviour with failing asserts goes on.

### Fairness

OnDemandScheduler and RemoteComputationGroup: weak fairness of each process,
which is an operating system process in a loop that never blocks except in
`wait_for_msg`. MetropolisHastings: weak fairness per chain, because the main
loop takes a chain that is not waiting before one that is and the entries come
up in turn, and of each chain's results, which is what TaskPool promises.
ProbsatExecution: the worker, the clock and the child go on; the child has a
limit on flips, so it ends. SearchPanel: a timer that is pending fires or a page
that was asked for loads, in the end (`WF` of both together); nothing is assumed
of the reader. Startup and HeadLoop have no liveness
property: that a chain makes progress is in MetropolisHastings.

## 4. Proofs

The load account alone (first part of OnDemandSchedulerProofs), for every `Size` in Nat and every positive capacity:

* `AccountsAgree`: LRRSpec => [](TypeOK /\ LookupConsistent). The two together
  are inductive: to move one entry of the multimap one must know that the
  worker is in the queue of its load, once, and nowhere else. Lemmas state what
  removing a position and appending do to a sequence without repetitions.
* `LeastLoadedIsPreferred`: LRRSpec => LeastLoadedFirst. From the invariant: the
  first entry of the multimap is of the least load because every worker has an
  entry at its load.
* `EqualsTakeTurns`: MCSpec => RoundRobinAmongEquals, for the module with the
  history. Who was preferred stands behind the one he was preferred to, in every
  queue that has both (`PreferredBehind`): he comes to the end of each queue he
  is moved to, and a move keeps the order of the others (`MoveKeepsOrder`).

The distribution of the chains alone (first part of StartupProofs), for all sets of numbers of chains, of workgroups
(positive) and of offsets:

* `ChainsAreDistributed`: Spec => [](CDTypeOK /\ SeedOfChain /\ OneHeadPerChain)
  of ChainDistribution. The arithmetic is separate: with `q` chains per group and
  `r` larger groups, group `g` starts at `Start(g, q, r)` and has `Share`
  chains; `Distribute`, `RangesInOrder`, `RangesEnd` and `RangesCover` show
  that the ranges follow one another, end at the number of chains and leave no
  gap. The invariant `IInv` says how far each head is (`Progress`): seeds drawn
  are seeds skipped plus chains added, and the chains added are those from the
  first id to the next, each with its own seed; without the first conjunct the
  seed of the next chain would be unknown, without the last one nothing could
  be said of a head that is ready.

**OnDemandSchedulerProofs**, for every number of workers (none included), every
positive capacity, any chains, rounds, calls in a batch and notices, and sends
that complete late or at once:

* `AccountIsExact`: Spec => []LoadIsExact, `AnswersMeetTheirFunctions`: Spec =>
  []IdsMatchCalls, `NobodyIdles`: Spec => []NoIdleWorker, `WorkersLeaveClean`:
  Spec => []LeaveClean, and `WorkgroupIsTaskPool`: Spec => Pool!Init /\
  [][Pool!Next]_(Pool!poolVars), the safety part of ImplementsTaskPool. All of
  them follow from `AccountOfCalls`: Spec => []IInv.
* The invariant regards the calls as lines, one for the queue of the head and
  one for each worker: what the worker has answered (`toHead`), what it has to
  execute, what is on its way to it. `CallsOK` says what stands in the lines
  (`ItemsOK`: in front what is executed and waits for its function, behind it
  what is to be executed, or `stop_running` and the ping that answers it), that
  no task stands at two places (`TaskOnce`), that no id and no call is without a
  place before it is settled (`IdsHeld`, `NothingLost`), and that what was not
  submitted is `Untouched`. The order within a line is needed: the answer that
  comes is that of the first in line, so removing it leaves the others what they
  are. Every step does one of few things to the lines (append a new call, move
  the first of the queue to the end of another line, call the next one executed,
  drop the first), and a lemma for each says that `HoldersOK` is kept (`NewCall`,
  `MoveCall`, `ExecuteAway`, `DeliverCall`, ...), so that the lemmas for the actions only show which of them a step is.
* `UuidOK` says that an id is registered or waits, once, to be used again; else
  a new call could take the id of one under way. `RemainingOK`: a chain misses as
  many results as it has functions registered, so the batch before is done when a
  new one is made (`BatchOK`), and its calls are new. `LoadOK` is LoadIsExact with
  the invariant of LazyRoundRobin, in the two cases with and without workers.
  `HeadOK` and `WorkersOK` say where the processes are: that the head stops workers
  only when its account is empty and the account is exact is why nothing is left
  (`LeaveClean`).

**RemoteComputationGroupProofs**, for every finite set of heads, all numbers of
calls to itself and to others with and without result functions, late and eager
sends, and every `SizeModulus` that is larger than the number of calls a head can
make to others:

* `CallsStayInOrder`: Spec => []CallsInOrder, `PendingCountsExactly`: Spec =>
  []PendingIsExact, `QuietIsDone`: Spec => []QuietMeansDone, and
  `HeadsAreATaskPool`: Spec => Pool!Init /\ [][Pool!Next]_(Pool!poolVars), the
  safety part of ImplementsTaskPool.
* The invariant `IInv` says what is under way: a message in a channel or a queue
  is at its place and is about a call that was made and not yet executed, or a
  result not yet given (`ChannelsOK`, `TasksOK`, `DeliveringOK`); on the way from
  one head to another, queue before channel, the calls have ascending numbers,
  and so have the results (`OrderOK`); a call that was not executed is somewhere
  (`NothingLost`). These need each other: the call at the front of a queue is
  the next of its caller because all earlier ones that were not executed would
  have to wait behind it, against the order (`FirstCallIsNext`), and no other
  message is about this call because of the order again (`FirstTaskIsAlone`), so
  that it cannot be executed twice. `CountOK` adds that the counter is the number
  of calls not executed plus that of pings on the way back, and that this is
  never more than the calls made, so that it does not wrap. That pings keep their
  number when a channel moves up is a bijection (`PingsOfReceive`).

**MetropolisHastingsProofs**, for any chains, every positive target length and
number of values per request, all limits and any number of moves and of results
that are not finite:

* `FilesAreTheirs`: Spec => []FilesMatchStates, `ResultsAreAwaited`: Spec =>
  []NothingStray, `EvidenceIsAboutStates`: Spec => []EvidenceIsOwn,
  `OldHasValues`: Spec => []OldStateIsAhead, and `ChainsAreSequential`: Spec =>
  Sequential!Init /\ [][Sequential!Next]_(Sequential!chainVars), the safety part
  of ImplementsMarkovChains. All of them follow from one invariant.
* `Used` says which of its two slots an object needs at its stage. `FilesOK`: the
  files are exactly those of the slots used, each with the configuration of its
  slot (`FileCreated` and `FilesGone` keep it when a slot comes into use or goes
  out of it); `IdsOK`: each id handed out is that of a file or waits, once, to be
  used again, so the next one is new (`TakesId`, `GivesIdBack`).
* EvidenceIsOwn is not inductive: results arrive one by one, and the values of a
  slot are those of its earlier state before. `EvidenceOK` therefore speaks of
  every value a slot has asked for: it was computed from the slot's own state, or
  its computation is under way. `CallsOK` adds that the computations under way
  are as many as the chain misses, that none exists outside of an iteration, and
  that each carries the file and the seed of its slot, so that what comes back is
  the state's own (`ResultKeeps`); the file is still there by FilesOK. `SlotOK`
  bounds what is counted by what was asked for, for which the old slot must not
  be behind the new one (`StageOK`). When the test looks nothing is under way, so
  every value it counts is there: that is EvidenceIsOwn.
* For the refinement `StageOK` says where the generator stands at each stage of
  an iteration. Only the end of an iteration that is not an object's first is a
  step of MarkovChains (`SequentialDecides`); a moved chain draws again what the
  object it left behind had drawn (`MoveSequential`).

**StartupProofs**, for any number of processes on
any machines (they are the numbers from 0 on), all random numbers and seeds
(none is 0), every length of the file and any number of runs that die anywhere:

* `WorkgroupsAreMachines`: StartupSpec => []FormsWorkgroups. The invariant of a run,
  `WGInv`, says how far the processes can be apart (`Together`: who is past a
  barrier or a split has seen all others there), what is in a directory
  meanwhile (`DirectoryOf`: it is there until the smallest process on the
  machine has removed it, and from the time at which one has found it empty on
  it has the entries created so far and no others, whatever had been in it
  before), what a process has found (`HeadsKnown`) and been told (`Told`). Each
  conjunct needs the ones before it: that no entry is missing when the smallest
  is looked for is a matter of the barriers, that nobody looks into a directory
  that is gone too. At the end the heads and the machines correspond one to one
  (`HeadsAndMachines`), and the place among the heads grows with the head
  (`RankGrows`).
* `FirstRunDoesNotFail`: StartupSpec => []FailsOnlyOnRemains. In the first run
  every entry is of a process that has got there (`Clean`), and process 0 finds
  no seed but its own.
* `RunsAreRepeatable`: StartupSpec => [](SeedsAreRepeatable /\ OneHeadPerChain).
  `StartupInv` is the conjunction of `WGInv`, the invariant of ChainDistribution
  and `SeedInv`: who has a seed has the one of the file, and but for process 0
  while it writes nobody has one before the file is whole. The set-up yields
  that a head distributes the chains of its own workgroup number
  (`DistributesForItself`); a run that starts satisfies both invariants again
  whatever is left of earlier ones (`RunStartsInv`, `RestartKeeps`).

**DocumentationProofs**, the tables, for every finite table of rows in which
each row but those of the first level has the row above it, and a folder its
first child:

* `IconsTell`: TreeSpec => []IconsTellTheTruth, which is inductive as it stands.
  `BelowByParent` turns "below" into "the row above is it, or is below it".
* `StripesDo`: TreeSpec => []StripesAlternate. The order in which the rows stand
  compares two paths at the level where they part; it is shown to be a total
  order (`BeforeTransitive`, `BeforeTotal`), so that of two rows displayed with
  none in between the lower one has one more row above it (`OneMoreAbove`).

**ProbsatExecutionProofs**, for every set of outputs, every size of the buffer
and every limit on the time. NumbersAssumption, which the code asserts, is that
behind the marker of a line there is a number:

* `NumberIsFound`: Spec => []FoundWhenRead and `TimeoutOverlooksNothing`: Spec =>
  TimeoutIsLast. Looking for the marker in what was left of the last line, with
  what is read next behind it, finds what looking through all that was read would
  find. So `PEInv` says that what was read and what is in the pipe make what was
  written, and that the worker, as long as it has not found the number, keeps the
  last line of what was read, and nothing above that line has the marker. A
  timeout is decided when the pipe was seen to be empty, so all was read.

**MultiwayPartitioningProofs**, for every set of different entries with whole
scores and every number of subsets from 1 to the number of entries:

* `PartitionedDivides`: the differencing method returns just that many subsets,
  every entry is in exactly one of them, once, and the sum kept with a subset
  is that of the scores of its entries (`SubsetsOf`). That holds for the single
  subsets it begins with (`DatasetIs`) and is kept by sorting (`StableSort` is a
  rearrangement, `Sorted`), by joining two partitionings subset by subset
  (`MergedParts`) and by taking two out and inserting their join
  (`IterateDivides`). The method stops with one partitioning because each round
  has one fewer. Nothing is proved of how even the subsets are; the code uses
  them only if they are better than what there is (`MovesAreWorthIt`, below).
* Sums over a finite set are folds of the community modules. `TotalSteps` and
  `TotalWithout` say that any element may be taken out first, `TotalOfBoth` adds
  two sets, `TotalAcross` takes the numbers from elsewhere. They are shown
  without induction, from the smallest set at which the claim would fail
  (`FewestOf`); that the fold is defined at all is `FoldOver`.

**HeadLoopProofs**, for any numbers of heads and chains (not fewer chains than
heads), any target length and any set of chains whose results are late. With
the rescheduling switched off, as it is at this commit:

* `EveryChainFinished`: Spec => []LeavesFinished, and
  `NothingFailsWithoutRescheduling`, that no assertion of the loop fails.
* LeavesFinished is not inductive: that a head has stopped running says nothing
  of its chains. `HLInv` says where they are: the ones to add, the ones that run
  and the finished ones make its share, without overlap, and the entries of the
  queue are exactly those of the objects, with the work that is left
  (`ChainsOK`); a head that stops has no chain to add or to run (`PlaceOK`), and
  nothing is under way between heads (`Silent`). That an entry is chosen at all
  when the first ones wait (`ChosenIs`), and that no entry is dropped
  (`PresentIs`), need the least element of a set of numbers (`LeastOf`), as does
  that nothing arrives from the concatenation of empty channels
  (`FlattenEmpty`). `SharesApart`: the shares of two heads are disjoint.

With the rescheduling on or off:

* `QueueOfEachHead`: Spec => []QueueIsExact, `EachChainOnce`: Spec =>
  []RunsOnce, `NoneComesLate`: Spec => []NoChainComesLate, and
  `WaitsForThoseThatCome`: Spec => []AnnouncedIsExact. All of them follow from
  `RInv`, which `RInvAlways` shows for every behaviour.
* `RInv` has a part for each head and one for what is between them. `PlaceIs`
  and `ChainsAre`: the place in the loop, the objects with their entries (that
  of the chain that is being moved may be out of date), the chains to add.
  `CallsAre`: a head has no call to execute twice. `KeptOnce`: no chain is kept by
  two heads, or by one while a message brings it.
* What is under way depends on how far the rescheduling is. Before it there is
  nothing (`Quiet`). While the heads are asked and answer (`Asking`) they keep their
  own chains, a chain is reported once, and a head that has reported waits, so
  that none of them has left when the information is complete
  (`InformationIsComplete`: then every head has reported, because every chain
  has). Afterwards (`Moved`) orders, announcements and chains are under way.
* While chains are moved each of them makes a *trip* (`Trips`): it is ordered
  from the head that has it, stands in `toMove` there, is sent. `OneTrip` says
  that a chain has one trip at most, and each step of a head lets one trip go on
  or end (`TripsGoOn`, `TripsShrink`). `Counted` sets the number that a head
  waits for beside the trips that lead to it (`Coming`): while it has not
  executed its announcement it owes the chains that came before, afterwards it
  waits for just those that are left. With an order passed over it may wait for
  more than will come, never for fewer, and this is why none comes late in any
  behaviour. As long as an order or an announcement to a head is in
  a channel, the head has its announcement still to execute.
* The trips begin when head 0 divides the chains (`Division`). That its calls
  make a plan (`PlanIs`, `Carries`: each chain is ordered to one head at most, by
  the head that has it, and each head is announced just the number of those) is
  `DivisionCarries`, from `PartitionedDivides` and from what the reports say; that
  such a plan starts the phase is `PlanKeeps`.
* Steps that take from a channel or send into several of them are reduced to
  sets of calls: `Takes` (all that has arrived is taken and one call of it
  executed) and `Sends` (what a sequence of calls adds to each head), from
  `FlattenSeq` by places. `Announced` is a fold over a set that has at most one
  element in any reachable state, so `SumOfOne` is enough for it.
* `MovesAreWorthIt`: Spec => MovesEvenTheLoad. Only `Reschedule` ends the
  collecting (`OnlyReschedule`). If it cancels there are no orders; otherwise
  they are the moves of the division's plan and no others (`MovesOfPlan`), so
  that the reports planned for a head are those of its subset (`PlannedAre`),
  its planned load is the sum kept with the subset (`PlannedLoads`), and the
  difference of the partitioning, which the code compares, is the spread of
  these loads (`SpreadPlanned`).

**DocumentationProofs**, the search panel, for every number of filters, items and children, every
set of texts and tables of names and pages:

* `PanelIsReset`: Spec => []QuietPanelIsReset, `PopupStays`: Spec =>
  []PopupStaysUnderPointer, `FocusIsSeen`: Spec => []FocusIsDisplayed. `Settled` holds within a handler and `Good` between two
  steps (the focus is then in a window that is open); `IInv` adds that the page
  in the frame is one of those there are, with the items it displays. Each
  handler has a lemma that says it leads from good states to good ones, so that
  the steps of the reader and the browser only cite those of their handlers.
* `UpTakesBackDown`: Spec => []UpUndoesDown, from lemmas about the next and the
  previous item displayed.

  They assume `NamesAreSorted`: the items of one page whose names begin with a
  text follow one another. The ids of the generated pages were compared: the 657
  of them are sorted so.

Assumptions used are the named ASSUMEs of the modules, evaluated in every run.

Only model-checked: SearchFindsNames (it depends on the characters of the texts),
and the liveness properties (Termination, WorkerReturns, ComesToRest,
EnteredIsSearched and the fair parts of the refinements). Liveness stays with
TLC in any case: the prover has no rules for fairness and ENABLED that are of
use here.

## 5. Not modelled

* In HeadLoop: the variant without a target length; sends that complete late
  (RemoteComputationGroup has them: a call is acknowledged here when it is
  executed, and is there to be taken as soon as it was sent); several rounds of
  requests in an iteration; results that are late for chains not in
  `SlowChains`. Steps of a pass that no other head can observe are
  not interleaved (`Local`). The sorts of the partitioning are
  stable, as std::sort is for the sizes that occur.
* In Startup: the destructor of the workgroups, which does nothing in this
  program because MPI is finalized before it; a read of a directory is one step,
  which the barriers around it justify.
* In SearchPanel: positions and sizes, and `lastResultsPage`, which is written and
  never read. Of `dynsections.js` the two functions that show and hide one
  section. `menu.js` builds the page once (and makes the search field anew when
  the window changes its width); what else can go wrong in it is in animations
  of jQuery. `svgpan.js` and `jquery.js` are third-party code, `menudata.js` and
  the pages in `search/` generated data.
* The functions that wait for messages (`wait_for_msg` of the group of heads,
  which is never called), the vectors behind the outstanding sends.
* Numbers: the acceptance probability, confidence intervals, random engines.
* Data: bit vectors, generators, CNF text, serialization, checksums, registries
  of functions, output, configuration, the unused simple acceptance
  computation, the toy models, the earlier prototype, cluster scripts.
* The work queue's priorities in MetropolisHastings, which takes the chains in
  any order; that includes the order of the queue, which HeadLoop has.

## 6. What could follow

* MultiwayPartitioning: numbers of elements that differ by at most one, as its
  test asserts. HeadLoop without rescheduling under fairness: every head leaves.
* AsyncComm: the two parallel vectors implement the set used here.
* Theorems: that ids are found by names, for texts of letters and digits, with no induction
  principle but the least place at which two ids part (as in `FlattenEmpty`).
