------------------------- MODULE SharedTmpWorkgroup -------------------------
(***************************************************************************)
(* Which processes form a workgroup: those that share a temporary          *)
(* directory (util/mpi/mpi_shared_tmp_workgroup.cpp, after the barrier of  *)
(* main.cpp that waits for the configuration).                             *)
(*                                                                         *)
(* The processes agree on a random number, each one creates a directory of *)
(* this number in its temporary directory and an entry with its rank in    *)
(* it, and the smallest entry each one finds is the head of its workgroup. *)
(* Processes on one machine see one directory, those on others do not, and *)
(* only barriers keep the steps apart.  From the head the communicators of *)
(* the workgroup and of all heads follow by two splits.                    *)
(*                                                                         *)
(* A machine stands for a temporary directory.  What is in it outlives a   *)
(* run of the program that dies.                                           *)
(***************************************************************************)
EXTENDS Integers, FiniteSets, SequencesExt

CONSTANTS Placements,  \* the machines of the processes 0, 1, ... in a run
          Numbers      \* what std::random_device may yield

ASSUME SharedTmpWorkgroupAssumption ==
  /\ Numbers \subseteq Nat
  /\ \A placement \in Placements :
       /\ IsFiniteSet(DOMAIN placement) /\ 0 \in DOMAIN placement
       /\ DOMAIN placement = 0 .. Cardinality(DOMAIN placement) - 1

VARIABLES
  machineOf,   \* the machine of each process in this run
  stage,       \* how far each process is
  number,      \* random: the number in tmp_path of each process
  tmp,         \* entries of the directories that exist, by machine and number
  head,        \* parent_comm_workgroup_head_id
  count,       \* workgroup_count
  id,          \* workgroup_id
  failed       \* an assert failed, or a directory was not there: the run ends

wgVars == <<machineOf, stage, number, tmp, head, count, id, failed>>

Processes == DOMAIN machineOf

(* The calls of main and of the constructor in their order; a process is at *)
(* the one it executes next.                                                *)
Stages ==
  <<"configured", "number", "directory", "empty", "allEmpty", "entry",
    "allEntered", "head", "allKnow", "remove", "group", "leaders", "allSplit",
    "share", "seed">>

Place(s) == CHOOSE i \in DOMAIN Stages : Stages[i] = s

Go(p) == stage' = [stage EXCEPT ![p] = Stages[Place(@) + 1]]

Reached(s) == \A p \in Processes : Place(stage[p]) >= Place(s)
Passed(p, s) == Place(stage[p]) > Place(s)

Directory(p) == <<machineOf[p], number[p]>>

WGInit(placement) ==
  /\ machineOf = placement
  /\ stage = [p \in Processes |-> "configured"]
  /\ number = [p \in Processes |-> 0]
  /\ tmp = <<>>
  /\ head = [p \in Processes |-> -1]
  /\ count = [p \in Processes |-> 0]
  /\ id = [p \in Processes |-> -1]
  /\ failed = FALSE

(* The next run of a job whose processes are gone. *)
WGRestart(placement) ==
  /\ machineOf' = placement
  /\ stage' = [p \in DOMAIN placement |-> "configured"]
  /\ number' = [p \in DOMAIN placement |-> 0]
  /\ head' = [p \in DOMAIN placement |-> -1]
  /\ count' = [p \in DOMAIN placement |-> 0]
  /\ id' = [p \in DOMAIN placement |-> -1]
  /\ failed' = FALSE
  /\ UNCHANGED tmp

-----------------------------------------------------------------------------

(* Fault: nobody waits until all have found their directory empty. *)
BarrierFault(p) ==
  /\ stage[p] \in {"configured", "allEmpty", "allEntered", "allKnow", "allSplit"}
  /\ stage[p] = "allEmpty" \/ Reached(stage[p])
  /\ Go(p)
  /\ UNCHANGED <<machineOf, number, tmp, head, count, id, failed>>

(* MPI_Barrier on the communicator of all processes.  The first is called   *)
(* from two places in main: process 0 calls it after it has written the     *)
(* configuration, the others wait for that.                                 *)
Barrier(p) ==
  /\ stage[p] \in {"configured", "allEmpty", "allEntered", "allKnow", "allSplit"}
  /\ Reached(stage[p])
  /\ Go(p)
  /\ UNCHANGED <<machineOf, number, tmp, head, count, id, failed>>

(* A single process takes the shortcut of the constructor. *)
BeAlone(p) ==
  /\ stage[p] = "number"
  /\ Processes = {0}
  /\ stage' = [stage EXCEPT ![p] = "seed"]
  /\ head' = [head EXCEPT ![p] = 0]
  /\ count' = [count EXCEPT ![p] = 1]
  /\ id' = [id EXCEPT ![p] = 0]
  /\ UNCHANGED <<machineOf, number, tmp, failed>>

(* build_tmp_dir_path: process 0 draws the number and broadcasts it. *)
BuildTmpDirPath(p) ==
  /\ stage[p] = "number"
  /\ Processes # {0}
  /\ \/ p = 0 /\ \E n \in Numbers : number' = [number EXCEPT ![p] = n]
     \/ p # 0 /\ Passed(0, "number") /\ number' = [number EXCEPT ![p] = number[0]]
  /\ Go(p)
  /\ UNCHANGED <<machineOf, tmp, head, count, id, failed>>

(* create_directories does not mind a directory that is there already. *)
CreateDirectories(p) ==
  /\ stage[p] = "directory"
  /\ tmp' = [d \in DOMAIN tmp \union {Directory(p)} |->
               IF d \in DOMAIN tmp THEN tmp[d] ELSE {}]
  /\ Go(p)
  /\ UNCHANGED <<machineOf, number, head, count, id, failed>>

Fails ==
  /\ failed' = TRUE
  /\ UNCHANGED <<machineOf, stage, number, tmp, head, count, id>>

(* assert(fs::is_empty(tmp_path)) *)
EnsureEmpty(p) ==
  /\ stage[p] = "empty"
  /\ IF tmp[Directory(p)] = {}
       THEN Go(p) /\ UNCHANGED <<machineOf, number, tmp, head, count, id, failed>>
       ELSE Fails

(* create_directory of the entry: it must not be there yet, and the         *)
(* directory must be.                                                       *)
CreateEntry(p) ==
  /\ stage[p] = "entry"
  /\ IF Directory(p) \in DOMAIN tmp /\ p \notin tmp[Directory(p)]
       THEN /\ tmp' = [tmp EXCEPT ![Directory(p)] = @ \union {p}]
            /\ Go(p)
            /\ UNCHANGED <<machineOf, number, head, count, id, failed>>
       ELSE Fails

(* Find the smallest rank; an empty directory leaves the largest integer,   *)
(* which an assert rejects.                                                 *)
FindHead(p) ==
  /\ stage[p] = "head"
  /\ IF Directory(p) \in DOMAIN tmp /\ tmp[Directory(p)] # {}
                                    /\ Min(tmp[Directory(p)]) \in Processes
       THEN /\ head' = [head EXCEPT ![p] = Min(tmp[Directory(p)])]
            /\ Go(p)
            /\ UNCHANGED <<machineOf, number, tmp, count, id, failed>>
       ELSE Fails

IsWorkgroupHead(p) == head[p] = p

(* The head removes the directory and all its entries. *)
RemoveAll(p) ==
  /\ stage[p] = "remove"
  /\ tmp' = IF IsWorkgroupHead(p)
              THEN [d \in DOMAIN tmp \ {Directory(p)} |-> tmp[d]]
              ELSE tmp
  /\ Go(p)
  /\ UNCHANGED <<machineOf, number, head, count, id, failed>>

(* MPI_Comm_split returns when all processes have called it: once by head,  *)
(* once by whether one is a head.  Ranks keep their order.                  *)
Split(p) ==
  /\ stage[p] \in {"group", "leaders"}
  /\ Reached(stage[p])
  /\ Go(p)
  /\ UNCHANGED <<machineOf, number, tmp, head, count, id, failed>>

(* workgroup_comm and mpi_comm_leaders *)
Workgroup(p) == {q \in Processes : head[q] = head[p]}
Leaders == {q \in Processes : IsWorkgroupHead(q)}

(* Fault: the id of a workgroup is the rank of its head among all processes *)
WorkgroupIdFault(p) == p

(* mpi_get_comm_rank(mpi_comm_leaders) *)
WorkgroupId(p) == Cardinality({q \in Leaders : q < p})

(* The first process of the workgroup, its head, tells the others how many  *)
(* workgroups there are, and its place among the heads.  A last assert:     *)
(* process 0 is a head.                                                     *)
ShareWorkgroupId(p) ==
  LET root == Min(Workgroup(p))
  IN  /\ stage[p] = "share"
      /\ \/ /\ p = root
            /\ count' = [count EXCEPT ![p] = Cardinality(Leaders)]
            /\ id' = [id EXCEPT ![p] = WorkgroupId(p)]
         \/ /\ p # root /\ Passed(root, "share")
            /\ count' = [count EXCEPT ![p] = count[root]]
            /\ id' = [id EXCEPT ![p] = id[root]]
      /\ failed' = (p = 0 /\ ~IsWorkgroupHead(p))
      /\ Go(p)
      /\ UNCHANGED <<machineOf, number, tmp, head>>

WGNext(p) ==
  \/ Barrier(p) \/ BeAlone(p) \/ BuildTmpDirPath(p) \/ CreateDirectories(p)
  \/ EnsureEmpty(p) \/ CreateEntry(p) \/ FindHead(p) \/ RemoveAll(p)
  \/ Split(p) \/ ShareWorkgroupId(p)

-----------------------------------------------------------------------------

Constructed(p) == stage[p] = "seed"

(* The workgroups are the machines: whoever is constructed is in one        *)
(* communicator with the processes of its machine and no other, under the   *)
(* smallest of them, and all know the number of workgroups and an id that   *)
(* is theirs, from 0 and in the order of the heads.  The directory they met *)
(* in is gone.                                                              *)
FormsWorkgroups ==
  /\ \A p, q \in Processes :
       Constructed(p) /\ Constructed(q) =>
         /\ (q \in Workgroup(p)) <=> (machineOf[p] = machineOf[q])
         /\ (id[p] = id[q]) <=> (machineOf[p] = machineOf[q])
         /\ id[p] < id[q] => head[p] < head[q]
  /\ \A p \in Processes :
       Constructed(p) =>
         /\ head[p] = Min(Workgroup(p))
         /\ count[p] = Cardinality({machineOf[q] : q \in Processes})
         /\ id[p] \in 0 .. count[p] - 1
         /\ Processes # {0} => Directory(p) \notin DOMAIN tmp
=============================================================================
