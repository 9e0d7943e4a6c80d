--------------------------- MODULE LazyRoundRobin ---------------------------
(***************************************************************************)
(* The load accounting of a workgroup head                                 *)
(* (distributed_computation/lazy_round_robin_scheduler.hpp).               *)
(*                                                                         *)
(* The head gives every worker at most WorkloadCapacity tasks at a time.   *)
(* It keeps the load of each worker twice: a vector from worker to load,   *)
(* and a multimap from load to workers, whose first entry is the worker    *)
(* to use next.  std::multimap inserts an entry behind the entries of an   *)
(* equal key, so the entries of one load form a queue; the multimap is     *)
(* modelled as one sequence of workers for each load.                      *)
(***************************************************************************)
EXTENDS Naturals, SequencesExt

CONSTANTS Size,              \* number of workers of the workgroup
          WorkloadCapacity   \* tasks a worker may hold at once

ASSUME SizeAssumption == Size \in Nat
ASSUME CapacityAssumption == WorkloadCapacity \in Nat \ {0}

VARIABLES numTasksScheduled,  \* load of each worker
          idsForScheduled     \* workers of each load, in order of insertion

lrrVars == <<numTasksScheduled, idsForScheduled>>

Ids == 0 .. Size - 1
Loads == 0 .. WorkloadCapacity

TypeOK ==
  /\ numTasksScheduled \in [Ids -> Loads]
  /\ idsForScheduled \in [Loads -> Seq(Ids)]

-----------------------------------------------------------------------------

(* The multimap's begin() is an entry of load l: the least some worker has. *)
FirstEntry(l) ==
  /\ idsForScheduled[l] # <<>>
  /\ \A k \in Loads : k < l => idsForScheduled[k] = <<>>

(* Fault: rbegin() instead of begin(). *)
FirstLoadFault ==
  CHOOSE l \in 0 .. WorkloadCapacity - 1 :
    /\ idsForScheduled[l] # <<>>
    /\ \A k \in l + 1 .. WorkloadCapacity - 1 : idsForScheduled[k] = <<>>

FirstLoad == CHOOSE l \in Loads : FirstEntry(l)

IsProcessWithoutWork == Size > 0 /\ FirstEntry(0)

WorkerAvailable == Size > 0 /\ \E l \in 0 .. WorkloadCapacity - 1 : FirstEntry(l)

(* The worker get_id_to_schedule_task_on returns, when one is available. *)
NextId == Head(idsForScheduled[FirstLoad])

(* Fault: the entry erased is the first of its load, not the one found. *)
EraseFault(i, from, to) ==
  idsForScheduled' =
    [idsForScheduled EXCEPT
       ![from] = Tail(@),
       ![to] = Append(@, idsForScheduled[from][i])]

(* Fault: an entry is emplaced before the ones of the same load. *)
EmplaceFault(i, from, to) ==
  idsForScheduled' =
    [idsForScheduled EXCEPT
       ![from] = RemoveAt(@, i),
       ![to] = <<idsForScheduled[from][i]>> \o @]

(* Rewrites one entry of the multimap: the worker at position i of load     *)
(* `from` is erased and emplaced at load `to`, behind the workers there.    *)
EraseAndEmplace(i, from, to) ==
  idsForScheduled' =
    [idsForScheduled EXCEPT
       ![from] = RemoveAt(@, i),
       ![to] = Append(@, idsForScheduled[from][i])]

(* One task is accounted to the least loaded worker. *)
GetIdToScheduleTaskOn ==
  /\ WorkerAvailable
  /\ numTasksScheduled' = [numTasksScheduled EXCEPT ![NextId] = @ + 1]
  /\ EraseAndEmplace(1, FirstLoad, FirstLoad + 1)

(* One task of worker id is done; the scan for the multimap entry stops at  *)
(* the first match and the program aborts when there is none.               *)
TaskFinished(id) ==
  LET load == numTasksScheduled[id]
  IN  /\ load > 0
      /\ numTasksScheduled' = [numTasksScheduled EXCEPT ![id] = @ - 1]
      /\ \E i \in 1 .. Len(idsForScheduled[load]) :
           /\ idsForScheduled[load][i] = id
           /\ \A j \in 1 .. i - 1 : idsForScheduled[load][j] # id
           /\ EraseAndEmplace(i, load, load - 1)

LRRInit ==
  /\ numTasksScheduled = [id \in Ids |-> 0]
  /\ idsForScheduled =
       [l \in Loads |-> IF l = 0 THEN [i \in 1 .. Size |-> i - 1] ELSE <<>>]

LRRNext == GetIdToScheduleTaskOn \/ \E id \in Ids : TaskFinished(id)

LRRSpec == LRRInit /\ [][LRRNext]_lrrVars

-----------------------------------------------------------------------------

(* The vector and the multimap agree: worker id stands in the queue of its  *)
(* load, there exactly once, and in no other queue.  The program asserts    *)
(* both directions of it when it schedules and when it searches an entry.   *)
LookupConsistent ==
  /\ \A id \in Ids :
       \E i \in 1 .. Len(idsForScheduled[numTasksScheduled[id]]) :
          idsForScheduled[numTasksScheduled[id]][i] = id
  /\ \A l \in Loads : \A i \in 1 .. Len(idsForScheduled[l]) :
       /\ numTasksScheduled[idsForScheduled[l][i]] = l
       /\ \A j \in 1 .. Len(idsForScheduled[l]) :
            idsForScheduled[l][i] = idsForScheduled[l][j] => i = j

(* A task goes to a worker than which no other has fewer tasks: nobody is   *)
(* given a second task while somebody idles.                                *)
LeastLoadedFirst ==
  [][\A id \in Ids : numTasksScheduled'[id] > numTasksScheduled[id] =>
        \A w \in Ids : numTasksScheduled[id] <= numTasksScheduled[w]]_lrrVars
=============================================================================
