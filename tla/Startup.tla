------------------------------ MODULE Startup -------------------------------
(***************************************************************************)
(* The start of the program up to the main loops (main.cpp): the processes *)
(* form workgroups, process 0 reads the global seed from a file or makes   *)
(* one and keeps it there (get_persistent_global_seed), all get it from    *)
(* process 0, and each head adds its chains with seeds drawn from it.      *)
(*                                                                         *)
(* A run may die at any time.  The job is then started again, possibly on  *)
(* other machines and with other arguments, and finds what was left: the   *)
(* directories and the file.                                               *)
(***************************************************************************)
EXTENDS ChainDistribution, SharedTmpWorkgroup

CONSTANTS Seeds,      \* what a global seed may be; none is 0
          FileParts,  \* a file of so many parts is whole
          MaxRuns     \* bound: runs of the job

Machines(placement) == {placement[p] : p \in DOMAIN placement}

ASSUME StartupAssumption ==
  /\ 0 \notin Seeds
  /\ FileParts \in Nat \ {0}
  /\ MaxRuns \in Nat
  /\ \A placement \in Placements :
       Cardinality(Machines(placement)) \in WorkgroupCounts

VARIABLES
  runs,        \* runs of the job that were started
  seedFile,    \* the seed in the file and how many of its parts are there
  writing,     \* process 0 is writing the file
  globalSeed,  \* global_seed of each process, 0: not set yet
  seedsUsed    \* history: the global seeds that chains were started with

seedVars == <<runs, seedFile, writing, globalSeed, seedsUsed>>
allVars == <<vars, wgVars, seedVars>>

(* The number of workgroups each head works with is the one it was told;    *)
(* FormsWorkgroups says that it is this one.                                *)
StartupInit ==
  /\ \E placement \in Placements : WGInit(placement)
  /\ Init
  /\ numWorkgroups = Cardinality(Machines(machineOf))
  /\ runs = 1
  /\ seedFile = [seed |-> 0, parts |-> 0]
  /\ writing = FALSE
  /\ globalSeed = [p \in Processes |-> 0]
  /\ seedsUsed = {}

(* All processes of the run are gone, and the job is started again. *)
Restart ==
  /\ runs < MaxRuns
  /\ \E placement \in Placements :
       /\ WGRestart(placement)
       /\ numWorkgroups' = Cardinality(Machines(placement))
       /\ globalSeed' = [p \in DOMAIN placement |-> 0]
  /\ numMarkovChains' \in ChainCounts
  /\ markovChainOffset' \in Offsets
  /\ skipped' = [w \in Workgroups' |-> 0]
  /\ nextId' = [w \in Workgroups' |-> FirstId(w)']
  /\ seedsDrawn' = [w \in Workgroups' |-> 0]
  /\ mcChainsToAdd' = [w \in Workgroups' |-> {}]
  /\ runs' = runs + 1
  /\ writing' = FALSE
  /\ UNCHANGED <<seedFile, seedsUsed>>

-----------------------------------------------------------------------------
(* The global seed *)

Whole == seedFile.parts = FileParts

(* Process 0 finds no file, or an empty one: it makes a seed. *)
MakeSeed ==
  /\ Constructed(0) /\ globalSeed[0] = 0
  /\ seedFile.parts = 0
  /\ \E s \in Seeds : /\ globalSeed' = [globalSeed EXCEPT ![0] = s]
                      /\ seedFile' = [seed |-> s, parts |-> 0]
  /\ writing' = TRUE
  /\ UNCHANGED <<vars, wgVars, runs, seedsUsed>>

(* The flush of the seed; a part of it may reach the file alone. *)
WriteSeed ==
  /\ writing
  /\ seedFile' = [seedFile EXCEPT !.parts = @ + 1]
  /\ writing' = ~Whole'
  /\ UNCHANGED <<vars, wgVars, runs, globalSeed, seedsUsed>>

(* Fault: the seed that was made in case the file is empty is kept. *)
ReadSeedFault ==
  /\ Constructed(0) /\ globalSeed[0] = 0
  /\ seedFile.parts # 0
  /\ IF Whole
       THEN /\ \E s \in Seeds : globalSeed' = [globalSeed EXCEPT ![0] = s]
            /\ UNCHANGED wgVars
       ELSE Fails /\ UNCHANGED globalSeed
  /\ UNCHANGED <<vars, runs, seedFile, writing, seedsUsed>>

(* Process 0 finds a seed.  When the file ends before the blank behind the  *)
(* last number, reading meets its end and tellg fails, and with it the      *)
(* assert.                                                                  *)
ReadSeed ==
  /\ Constructed(0) /\ globalSeed[0] = 0
  /\ seedFile.parts # 0
  /\ IF Whole
       THEN /\ globalSeed' = [globalSeed EXCEPT ![0] = seedFile.seed]
            /\ UNCHANGED wgVars
       ELSE Fails /\ UNCHANGED globalSeed
  /\ UNCHANGED <<vars, runs, seedFile, writing, seedsUsed>>

(* Process 0 broadcasts it. *)
GetSeed(p) ==
  /\ p # 0
  /\ Constructed(p) /\ globalSeed[p] = 0
  /\ globalSeed[0] # 0 /\ ~writing
  /\ globalSeed' = [globalSeed EXCEPT ![p] = globalSeed[0]]
  /\ UNCHANGED <<vars, wgVars, runs, seedFile, writing, seedsUsed>>

-----------------------------------------------------------------------------
(* The chains *)

(* p is a head that may distribute its chains. *)
Distributes(p) ==
  IsWorkgroupHead(p) /\ globalSeed[p] # 0 /\ ~(p = 0 /\ writing)

SkipSeeds(p) ==
  /\ Distributes(p)
  /\ SkipSeed(id[p])
  /\ UNCHANGED <<wgVars, seedVars>>

AddChains(p) ==
  /\ Distributes(p)
  /\ AddNewMcChain(id[p])
  /\ seedsUsed' = seedsUsed \union {globalSeed[p]}
  /\ UNCHANGED <<wgVars, runs, seedFile, writing, globalSeed>>

Proceed(p) ==
  \/ WGNext(p) /\ UNCHANGED <<vars, seedVars>>
  \/ GetSeed(p)
  \/ SkipSeeds(p)
  \/ AddChains(p)

(* The main loops begin, or an assert has ended the last run. *)
Started ==
  /\ failed \/ ((\A p \in Processes : globalSeed[p] # 0) /\ Begun)
  /\ UNCHANGED allVars

StartupNext ==
  \/ ~failed /\ (MakeSeed \/ WriteSeed \/ ReadSeed
                          \/ \E p \in Processes : Proceed(p))
  \/ Restart
  \/ Started

StartupSpec == StartupInit /\ [][StartupNext]_allVars

-----------------------------------------------------------------------------

(* Only the remains of a run that died, a directory with the same number or *)
(* a part of a seed, end a run: however the processes interleave, they do   *)
(* not get into each other's way.                                           *)
FailsOnlyOnRemains == failed => runs > 1

(* All runs of a job draw from one global seed, and the seed of a chain is  *)
(* the one of its id, on whatever machines and after whatever crash it is   *)
(* computed.  So a run can be continued or repeated elsewhere.              *)
SeedsAreRepeatable == SeedOfChain /\ Cardinality(seedsUsed) <= 1
=============================================================================
