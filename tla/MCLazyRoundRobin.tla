-------------------------- MODULE MCLazyRoundRobin --------------------------
(***************************************************************************)
(* LazyRoundRobin on a few workers, with a history variable that records   *)
(* which worker was preferred to which at the same load.                   *)
(***************************************************************************)
EXTENDS LazyRoundRobin

VARIABLE preferred  \* pairs <<v, w>>: v got a task when w had the same load,
                    \* and the load of w has not changed since

Given(id) == numTasksScheduled'[id] > numTasksScheduled[id]
Changed(id) == numTasksScheduled'[id] # numTasksScheduled[id]

RecordPreference ==
  preferred' =
    {p \in preferred : ~Changed(p[2])} \union
    {p \in Ids \X Ids : /\ Given(p[1])
                        /\ p[1] # p[2]
                        /\ numTasksScheduled[p[1]] = numTasksScheduled[p[2]]}

MCInit == LRRInit /\ preferred = {}
MCNext == LRRNext /\ RecordPreference
MCSpec == MCInit /\ [][MCNext]_<<lrrVars, preferred>>

(* Round robin: a worker once preferred to an equally loaded one does not   *)
(* get another task before it while the two still have the same load.       *)
RoundRobinAmongEquals ==
  [][\A p \in preferred :
       Given(p[1]) => numTasksScheduled[p[1]] # numTasksScheduled[p[2]]
    ]_<<lrrVars, preferred>>
=============================================================================
