------------------------ MODULE MetropolisHastings --------------------------
(***************************************************************************)
(* The Markov chains of one workgroup head: the iterations of              *)
(* metropolis_hastings_algorithm, the acceptance test of                   *)
(* statistical_acceptance_computation, and the temporary files that carry  *)
(* a state to the probSAT processes (shared_tmpfile).                      *)
(*                                                                         *)
(* A chain's generator is the position in its stream; a configuration is   *)
(* named by the position it was generated at.  A generator derived for a   *)
(* state is the position it was derived at and the number of draws since.  *)
(* A computed value is what it was computed from, and whether it is        *)
(* finite.  The comparison of the cutoff with the acceptance probability's *)
(* range can have any result the code's branches allow.                    *)
(*                                                                         *)
(* computation_scheduled_state only serves asserts: it is TRUE from        *)
(* prepare_iteration to finish_iteration, and left out.                    *)
(***************************************************************************)
EXTENDS Naturals, SequencesExt

CONSTANTS Chains,
          TargetLength,        \* markov_chain_target_length
          ValuesPerIteration,
          MaxIterations,
          ValuesRequired,
          MaxMoves,            \* bound: how often chains are moved
          MaxNotFinite         \* bound: how many results are NaN

ASSUME MHAssumption ==
  /\ {TargetLength, ValuesPerIteration} \subseteq Nat \ {0}
  /\ {MaxIterations, ValuesRequired, MaxMoves, MaxNotFinite} \subseteq Nat

VARIABLES
  mh,        \* the algorithm object of each chain
  underWay,  \* computations scheduled and not answered
  files,     \* temporary files: id |-> configuration
  newUuid, unused,   \* file ids handed out so far, ids given back
  moves, notFinite   \* counted for the bounds

fileVars == <<files, newUuid, unused>>
vars == <<mh, underWay, fileVars, moves, notFinite>>

-----------------------------------------------------------------------------
(* Temporary files (shared_tmpfile.cpp, uuid.hpp)                          *)

NoFile == 0

FreshId == 1 + (IF unused = <<>> THEN newUuid ELSE Last(unused))

(* The id of a file that is removed is given back; there may be none.       *)
GivenBack(file) == IF file = NoFile THEN <<>> ELSE <<file - 1>>

(* Creates a file for configuration v, then removes the file `gone`, if     *)
(* there is one; opening fails when the file exists.                        *)
ReplaceFile(v, gone) ==
  /\ FreshId \notin DOMAIN files
  /\ files' = [f \in (DOMAIN files \union {FreshId}) \ {gone} |->
                 IF f = FreshId THEN v ELSE files[f]]
  /\ newUuid' = IF unused = <<>> THEN newUuid + 1 ELSE newUuid
  /\ unused' = (IF unused = <<>> THEN unused ELSE Front(unused))
                 \o GivenBack(gone)

(* Removes two files in order; one already removed has id 0.                *)
RemoveFiles(pair) ==
  /\ files' = [f \in DOMAIN files \ {pair[1], pair[2]} |-> files[f]]
  /\ unused' = unused \o GivenBack(pair[1]) \o GivenBack(pair[2])
  /\ UNCHANGED newUuid

-----------------------------------------------------------------------------
(* The state of a chain                                                    *)

EmptySlot == [file |-> NoFile, derived |-> 0, draws |-> 0, values |-> <<>>,
              iteration |-> 0, n |-> 0, counted |-> 0]

(* A new algorithm object for a chain in the given state. *)
Algorithm(iteration, cfg, prn) ==
  [iteration |-> iteration, cfg |-> cfg, next |-> cfg,
   prn |-> prn, lastPrn |-> prn, processing |-> FALSE,
   slot |-> [s \in {0, 1} |-> EmptySlot],
   z |-> 0, nextz |-> 0, newIndex |-> 0, first |-> TRUE,
   remaining |-> 0]

(* What is left of an erased object: where the chain stood. *)
Erased(m) == [m EXCEPT !.slot = [s \in {0, 1} |-> EmptySlot]]

Init ==
  /\ mh = [c \in Chains |-> Algorithm(0, 0, 1)]
  /\ underWay = {}
  /\ files = <<>>
  /\ newUuid = 0
  /\ unused = <<>>
  /\ moves = 0
  /\ notFinite = 0

New(m) == m.slot[m.newIndex]
Old(m) == m.slot[1 - m.newIndex]

-----------------------------------------------------------------------------
(* An iteration                                                            *)

(* Fault: the iteration of the reused state is not reset. *)
PrepareFault(c) ==
  LET m == mh[c]
      started == [New(m) EXCEPT !.file = FreshId, !.derived = m.prn,
                                !.draws = 1, !.n = 0, !.counted = 0]
      reset == [Old(m) EXCEPT !.n = 0, !.counted = 0]
  IN  /\ ~m.processing
      /\ mh' = [mh EXCEPT
                  ![c].processing = TRUE,
                  ![c].lastPrn = m.prn,
                  ![c].prn = m.prn + 1,
                  ![c].z = m.nextz,
                  ![c].nextz = m.prn,
                  ![c].slot = [s \in {0, 1} |->
                                 IF s = m.newIndex THEN started ELSE reset]]
      /\ ReplaceFile(<<c, m.next>>, New(m).file)
      /\ UNCHANGED <<underWay, moves, notFinite>>

(* prepare_iteration and start_computation.  The cutoff of this iteration   *)
(* is the one drawn from the generator of the state started before.  The    *)
(* counts of both states are reset, their values are kept.                  *)
Prepare(c) ==
  LET m == mh[c]
      started == [New(m) EXCEPT !.file = FreshId, !.derived = m.prn,
                                !.draws = 1, !.iteration = 0,
                                !.n = 0, !.counted = 0]
      reset == [Old(m) EXCEPT !.n = 0, !.counted = 0]
  IN  /\ ~m.processing
      /\ mh' = [mh EXCEPT
                  ![c].processing = TRUE,
                  ![c].lastPrn = m.prn,
                  ![c].prn = m.prn + 1,
                  ![c].z = m.nextz,
                  ![c].nextz = m.prn,
                  ![c].slot = [s \in {0, 1} |->
                                 IF s = m.newIndex THEN started ELSE reset]]
      /\ ReplaceFile(<<c, m.next>>, New(m).file)
      /\ UNCHANGED <<underWay, moves, notFinite>>

(* The first state needs no values and is accepted; otherwise nothing is    *)
(* done while results are missing.                                          *)
NumValues(m) == New(m).iteration * ValuesPerIteration
FiniteAmong(values) == Cardinality({i \in DOMAIN values : values[i].finite})

(* Counts the values of both states up to the number the new state has.     *)
Counted(m) ==
  [s \in {0, 1} |->
     IF NumValues(m) = 0 THEN m.slot[s]
     ELSE [m.slot[s] EXCEPT
             !.counted = NumValues(m),
             !.n = FiniteAmong(SubSeq(m.slot[s].values, 1, NumValues(m)))]]

(* What the acceptance test may find: TRUE and FALSE for accept and decline *)
Decisions(m) ==
  LET available == {Counted(m)[s].n : s \in {0, 1}}
      enough == NumValues(m) > 0 /\ \A n \in available : n >= ValuesRequired
  IN  IF ~enough THEN {"undecided"}
      ELSE IF MaxIterations <= New(m).iteration THEN {"accept", "decline"}
      ELSE {"accept", "decline", "undecided"}

(* Fault: > instead of >= in new_values_for_old_index_are_required. *)
RequestedFault(m) ==
  IF New(m).iteration > Old(m).iteration THEN {0, 1} ELSE {m.newIndex}

(* More values are requested for the new state, and for the old one when it *)
(* has no more than the new one.                                            *)
Requested(m) ==
  IF New(m).iteration >= Old(m).iteration THEN {0, 1} ELSE {m.newIndex}

DefaultValue == [of |-> <<>>, finite |-> TRUE]

(* schedule_computation, for all values of the iteration. *)
RequestFrom(s) ==
  LET size == (s.iteration + 1) * ValuesPerIteration
      add == IF size > Len(s.values) THEN size - Len(s.values) ELSE 0
  IN  [s EXCEPT !.iteration = @ + 1,
                !.draws = @ + ValuesPerIteration,
                !.values = @ \o [i \in 1 .. add |-> DefaultValue]]

Computations(c, index, s) ==
  {[chain |-> c, index |-> index, i |-> s.iteration * ValuesPerIteration + k,
    file |-> s.file, seed |-> <<s.derived, s.draws + k>>] :
      k \in 1 .. ValuesPerIteration}

Request(c) ==
  LET m == mh[c]
  IN  /\ m.processing /\ m.iteration < TargetLength
      /\ ~m.first
      /\ m.remaining = 0
      /\ "undecided" \in Decisions(m)
      /\ New(m).iteration <= Old(m).iteration
      /\ mh' = [mh EXCEPT
                  ![c].slot = [s \in {0, 1} |->
                     IF s \in Requested(m) THEN RequestFrom(Counted(m)[s])
                     ELSE Counted(m)[s]],
                  ![c].remaining =
                     @ + Cardinality(Requested(m)) * ValuesPerIteration]
      /\ underWay' = underWay \union
           UNION {Computations(c, s, m.slot[s]) : s \in Requested(m)}
      /\ UNCHANGED <<fileVars, moves, notFinite>>

ContentOf(file) == {files[f] : f \in {file} \intersect DOMAIN files}

(* A result arrives: the value of what is in the file by then, under the    *)
(* seed of the call.  The function that receives it is the one registered   *)
(* for index and i.                                                         *)
Result(t) ==
  \E finite \in BOOLEAN :
    /\ t \in underWay
    /\ finite \/ notFinite < MaxNotFinite
    /\ underWay' = underWay \ {t}
    /\ notFinite' = IF finite THEN notFinite ELSE notFinite + 1
    /\ mh' = [mh EXCEPT
                ![t.chain].remaining = @ - 1,
                ![t.chain].slot[t.index].values[t.i] =
                   [of |-> <<ContentOf(t.file), t.seed>>, finite |-> finite]]
    /\ UNCHANGED <<fileVars, moves>>

(* finish_computation and finish_iteration: the state that is not needed    *)
(* any more loses its file; after the last iteration the other one does,    *)
(* and otherwise the next configuration is generated.                       *)
Finish(c, accept) ==
  LET m == mh[c]
      last == m.iteration + 1 = TargetLength
      index == IF accept THEN 1 - m.newIndex ELSE m.newIndex
      dropped == (IF m.first THEN {} ELSE {index})
                   \union (IF last THEN {1 - index} ELSE {})
      order == IF index = 0 THEN <<0, 1>> ELSE <<1, 0>>
  IN  /\ RemoveFiles([i \in 1 .. 2 |->
                        IF order[i] \in dropped THEN m.slot[order[i]].file
                        ELSE NoFile])
      /\ mh' = [mh EXCEPT
                  ![c].processing = last,
                  ![c].first = FALSE,
                  ![c].newIndex = index,
                  ![c].cfg = IF accept THEN m.next ELSE @,
                  ![c].next = IF last THEN @ ELSE m.prn,
                  ![c].prn = IF last THEN @ ELSE @ + 1,
                  ![c].iteration = @ + 1,
                  ![c].slot = [s \in {0, 1} |->
                     [(IF m.first THEN m.slot ELSE Counted(m))[s] EXCEPT
                        !.file = IF s \in dropped THEN NoFile ELSE @]]]
      /\ UNCHANGED <<underWay, moves, notFinite>>

(* Fault: the test of remaining_computations is missing. *)
ContinueFault(c) ==
  LET m == mh[c]
  IN  /\ m.processing /\ m.iteration < TargetLength
      /\ \/ m.first /\ Finish(c, TRUE)
         \/ /\ ~m.first
            /\ \/ "accept" \in Decisions(m) /\ Finish(c, TRUE)
               \/ "decline" \in Decisions(m) /\ Finish(c, FALSE)

Continue(c) ==
  LET m == mh[c]
  IN  /\ m.processing /\ m.iteration < TargetLength
      /\ \/ m.first /\ Finish(c, TRUE)
         \/ /\ ~m.first /\ m.remaining = 0
            /\ \/ "accept" \in Decisions(m) /\ Finish(c, TRUE)
               \/ "decline" \in Decisions(m) /\ Finish(c, FALSE)

-----------------------------------------------------------------------------
(* The main loop's handling of an object                                   *)

(* Fault: cleanup takes the new state for the old one. *)
FilesLeftFault(m) == <<NoFile, New(m).file>>

(* cleanup, and the destructor: every file left is removed. *)
FilesLeft(m) == <<Old(m).file, New(m).file>>

(* A chain that reached its target length is cleaned up, again, and erased. *)
Erase(c) ==
  /\ mh[c].iteration = TargetLength
  /\ mh[c] # Erased(mh[c])
  /\ RemoveFiles(FilesLeft(mh[c]))
  /\ mh' = [mh EXCEPT ![c] = Erased(@)]
  /\ UNCHANGED <<underWay, moves, notFinite>>

(* Fault: the generator is sent as it is after the last iteration. *)
MoveFault(c) ==
  LET m == mh[c]
  IN  /\ moves < MaxMoves
      /\ ~m.processing /\ ~m.first
      /\ moves' = moves + 1
      /\ RemoveFiles(FilesLeft(m))
      /\ mh' = [mh EXCEPT ![c] = Algorithm(m.iteration - 1, m.cfg, m.prn)]
      /\ UNCHANGED <<underWay, notFinite>>

(* A chain between two iterations is moved: its last state goes into a      *)
(* message, the object is cleaned up and erased, and the receiving head     *)
(* makes a new one.  Objects that have not finished an iteration are not    *)
(* moved here.                                                              *)
Move(c) ==
  LET m == mh[c]
  IN  /\ moves < MaxMoves
      /\ ~m.processing /\ ~m.first
      /\ moves' = moves + 1
      /\ RemoveFiles(FilesLeft(m))
      /\ mh' = [mh EXCEPT ![c] = Algorithm(m.iteration - 1, m.cfg, m.lastPrn)]
      /\ UNCHANGED <<underWay, notFinite>>

HeadStep(c) == Prepare(c) \/ Request(c) \/ Continue(c) \/ Erase(c)

AllErased ==
  \A c \in Chains :
    mh[c].iteration = TargetLength /\ mh[c] = Erased(mh[c])

Finished == AllErased /\ UNCHANGED vars

Next ==
  \/ \E c \in Chains : HeadStep(c) \/ Move(c)
  \/ \E t \in underWay : Result(t)
  \/ Finished

(* The main loop calls a chain that is not waiting before one that is, and  *)
(* the scheduler answers every call.                                        *)
Fairness ==
  /\ \A c \in Chains : WF_vars(HeadStep(c))
  /\ \A c \in Chains : WF_vars(\E t \in underWay : t.chain = c /\ Result(t))

Spec == Init /\ [][Next]_vars /\ Fairness

-----------------------------------------------------------------------------
(* Properties                                                              *)

Slots == {0, 1}
Running == {c \in Chains : mh[c].iteration < TargetLength}

MHTypeOK ==
  /\ \A c \in Chains :
       /\ mh[c].iteration \in 0 .. TargetLength
       /\ {mh[c].processing, mh[c].first} \subseteq BOOLEAN
       /\ mh[c].newIndex \in Slots
       /\ {mh[c].cfg, mh[c].next, mh[c].prn, mh[c].lastPrn, mh[c].z,
           mh[c].nextz, mh[c].remaining} \subseteq Nat
       /\ \A s \in Slots :
            /\ mh[c].slot[s].file \in DOMAIN files \union {NoFile}
            /\ mh[c].slot[s].n <= mh[c].slot[s].counted
            /\ mh[c].slot[s].counted <= Len(mh[c].slot[s].values)
  /\ DOMAIN files \subseteq 1 .. newUuid
  /\ unused \in Seq(0 .. newUuid)

(* The configuration a slot of a running chain stands for: the new slot is  *)
(* the proposal as long as it is tried, the old one is the current state    *)
(* once there is one.                                                       *)
Holds(c, s) ==
  LET m == mh[c]
  IN  IF s = m.newIndex THEN IF m.processing THEN {<<c, m.next>>} ELSE {}
      ELSE IF m.first THEN {} ELSE {<<c, m.cfg>>}

(* The temporary files are those of the states in use: each holds the       *)
(* configuration of its state, no two states share one, and none is left    *)
(* behind; the ids of all others can be used again, each once.              *)
FileOf(p) == mh[p[1]].slot[p[2]].file
InUse == {p \in Running \X Slots : Holds(p[1], p[2]) # {}}

StatesHaveFiles ==
  /\ \A p \in InUse : ContentOf(FileOf(p)) = Holds(p[1], p[2])
  /\ \A p, q \in InUse : FileOf(p) = FileOf(q) => p = q
  /\ \A p \in (Running \X Slots) \ InUse : FileOf(p) = NoFile
NothingLeftBehind ==
  \A f \in DOMAIN files :
    \/ \E p \in InUse : FileOf(p) = f
    \/ \E c \in Chains \ Running, s \in Slots : mh[c].slot[s].file = f
IdsComeBack ==
  /\ {u + 1 : u \in ToSet(unused)} = (1 .. newUuid) \ DOMAIN files
  /\ Len(unused) + Cardinality(DOMAIN files) = newUuid
FilesMatchStates ==
  MHTypeOK /\ StatesHaveFiles /\ NothingLeftBehind /\ IdsComeBack

(* What the acceptance test counts is evidence about the two states it      *)
(* compares, in whatever order the results came: every value counted was    *)
(* computed from the state's own configuration, under the seed that its own *)
(* generator gave for that value, and none is left over from the state that *)
(* had the slot before.                                                     *)
EvidenceIsOwn ==
  \A c \in Running :
    mh[c].processing /\ ~mh[c].first /\ mh[c].remaining = 0 =>
      \A s \in Slots :
        LET slot == Counted(mh[c])[s]
        IN  \A i \in 1 .. slot.counted :
              slot.values[i].of = <<Holds(c, s), <<slot.derived, i + 1>>>>

(* Each value is asked for once at a time, and the chain goes on exactly    *)
(* when the last of its results is there; a chain that is not in an         *)
(* iteration, was moved or has ended waits for none.                        *)
NothingStray ==
  \A c \in Chains :
    LET own == {t \in underWay : t.chain = c}
    IN  /\ mh[c].remaining = Cardinality(own)
        /\ \A t, u \in own : t.index = u.index /\ t.i = u.i => t = u
        /\ own # {} => mh[c].processing /\ c \in Running

(* The old state is never behind the new one in values asked for, so that   *)
(* the values counted for it exist: the assert of continue_computation.     *)
OldStateIsAhead ==
  \A c \in Running :
    mh[c].processing /\ ~mh[c].first =>
      New(mh[c]).iteration <= Old(mh[c]).iteration

(* The chains go through the states of a sequential Metropolis-Hastings     *)
(* loop with the draws of their own generators, however results, chains and *)
(* moves interleave: an iteration that a moved chain repeats to get its     *)
(* state back changes nothing.                                              *)
Ended(m) == m.iteration = TargetLength
Base(m) == IF m.processing THEN m.lastPrn ELSE m.prn

Sequential == INSTANCE MarkovChains WITH
  step <- [c \in Chains |->
    mh[c].iteration + (IF mh[c].first /\ ~Ended(mh[c]) THEN 1 ELSE 0)],
  state <- [c \in Chains |-> mh[c].cfg],
  proposal <- [c \in Chains |->
    LET m == mh[c]
    IN  IF Ended(m) \/ (m.first /\ m.iteration + 1 = TargetLength) THEN 0
        ELSE IF m.first THEN Base(m) + 1
        ELSE m.next],
  cutoff <- [c \in Chains |->
    LET m == mh[c]
    IN  IF Ended(m) THEN m.nextz
        ELSE IF m.first THEN Base(m)
        ELSE IF m.processing THEN m.z ELSE m.nextz],
  position <- [c \in Chains |->
    LET m == mh[c]
    IN  IF Ended(m) THEN m.prn
        ELSE IF ~m.first THEN Base(m)
        ELSE IF m.iteration + 1 = TargetLength THEN Base(m) + 1
        ELSE Base(m) + 2]

ImplementsMarkovChains == Sequential!Spec

=============================================================================
