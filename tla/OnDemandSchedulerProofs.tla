---------------------- MODULE OnDemandSchedulerProofs -----------------------
(***************************************************************************)
(* For any number of workers, chains, rounds and calls, with sends that    *)
(* complete late or at once, and for a head alone: no call is lost or      *)
(* executed twice, every answer meets its own function, the account of the *)
(* head is exact, and who leaves owes nothing.                             *)
(***************************************************************************)
EXTENDS OnDemandScheduler, MCLazyRoundRobin, SequenceTheorems, FiniteSetTheorems,
        FunctionTheorems, TLAPS

-----------------------------------------------------------------------------
(* The load account alone (LazyRoundRobin) is consistent for every number  *)
(* of workers and every capacity: the asserts of the code never fail, and  *)
(* the least loaded worker is the one that gets a task.                    *)

(* Removing one position of a sequence keeps all the others, in order. *)
LEMMA RemoveAtProperties ==
  ASSUME NEW S, NEW s \in Seq(S), NEW i \in 1 .. Len(s)
  PROVE  /\ RemoveAt(s, i) \in Seq(S)
         /\ Len(RemoveAt(s, i)) = Len(s) - 1
         /\ \A j \in 1 .. Len(s) - 1 :
              RemoveAt(s, i)[j] = IF j < i THEN s[j] ELSE s[j + 1]
<1>1. Len(s) \in Nat /\ i \in Int /\ 1 <= i /\ i <= Len(s)
  OBVIOUS
<1>2. PICK l \in Seq(S) : /\ l = SubSeq(s, 1, i - 1)
                          /\ Len(l) = i - 1
                          /\ \A k \in 1 .. i - 1 : l[k] = s[k]
  <2>1. /\ SubSeq(s, 1, i - 1) \in Seq(S)
        /\ Len(SubSeq(s, 1, i - 1)) = i - 1
        /\ \A k \in 1 .. i - 1 : SubSeq(s, 1, i - 1)[k] = s[k]
    BY <1>1
  <2>2. QED
    BY <2>1, Zenon
<1>3. PICK r \in Seq(S) : /\ r = SubSeq(s, i + 1, Len(s))
                          /\ Len(r) = Len(s) - i
                          /\ \A k \in 1 .. Len(s) - i : r[k] = s[i + k]
  <2>1. /\ SubSeq(s, i + 1, Len(s)) \in Seq(S)
        /\ Len(SubSeq(s, i + 1, Len(s))) = Len(s) - i
        /\ \A k \in 1 .. Len(s) - i : SubSeq(s, i + 1, Len(s))[k] = s[i + k]
    BY <1>1
  <2>2. QED
    BY <2>1, Zenon
<1>4. /\ l \o r \in Seq(S)
      /\ Len(l \o r) = Len(l) + Len(r)
      /\ \A j \in 1 .. Len(l) + Len(r) :
             (l \o r)[j] = IF j <= Len(l) THEN l[j] ELSE r[j - Len(l)]
  BY ConcatProperties
<1>5. RemoveAt(s, i) = l \o r
  BY <1>2, <1>3, Zenon DEF RemoveAt
<1>6. Len(l) = i - 1 /\ Len(r) = Len(s) - i
  BY <1>2, <1>3
<1>7. Len(l) + Len(r) = Len(s) - 1
  BY <1>1, <1>6
<1>8. ASSUME NEW j \in 1 .. Len(s) - 1
      PROVE  (l \o r)[j] = IF j < i THEN s[j] ELSE s[j + 1]
  <2>1. CASE j < i
    BY <1>1, <1>2, <1>4, <1>7, <2>1
  <2>2. CASE ~(j < i)
    <3>1. (l \o r)[j] = r[j - (i - 1)]
      BY <1>1, <1>6, <1>4, <1>7, <2>2
    <3>2. j - (i - 1) \in 1 .. Len(s) - i
      BY <1>1, <2>2
    <3>3. r[j - (i - 1)] = s[i + (j - (i - 1))]
      BY <1>3, <3>2, Zenon
    <3>4. i + (j - (i - 1)) = j + 1
      BY <1>1
    <3>5. QED
      BY <3>1, <3>3, <3>4, <2>2
  <2>3. QED
    BY <2>1, <2>2
<1>9. QED
  BY <1>4, <1>5, <1>7, <1>8

(* LookupConsistent, of any vector of loads and any queues. *)
Agree(num, ids) ==
  /\ \A w \in Ids : \E p \in 1 .. Len(ids[num[w]]) : ids[num[w]][p] = w
  /\ \A l \in Loads : \A p \in 1 .. Len(ids[l]) :
       /\ num[ids[l][p]] = l
       /\ \A q \in 1 .. Len(ids[l]) : ids[l][p] = ids[l][q] => p = q

(* The worker id stands at position i of the queue b of load from, and c is  *)
(* the queue of load to.                                                     *)
Entry(num, ids, from, to, b, c, i, id) ==
  /\ num \in [Ids -> Loads] /\ ids \in [Loads -> Seq(Ids)]
  /\ from \in Loads /\ to \in Loads /\ from # to
  /\ b \in Seq(Ids) /\ b = ids[from]
  /\ c \in Seq(Ids) /\ c = ids[to]
  /\ i \in 1 .. Len(b)
  /\ id \in Ids /\ id = b[i]

(* What erasing that entry and emplacing it behind c does.                   *)
Moved(num, ids, num2, ids2, from, to, b, c, i, id) ==
  /\ num2[id] = to
  /\ \A w \in Ids : w # id => num2[w] = num[w]
  /\ Len(ids2[from]) = Len(b) - 1
  /\ \A j \in 1 .. Len(b) - 1 :
        ids2[from][j] = IF j < i THEN b[j] ELSE b[j + 1]
  /\ Len(ids2[to]) = Len(c) + 1
  /\ \A j \in 1 .. Len(c) : ids2[to][j] = c[j]
  /\ ids2[to][Len(c) + 1] = id
  /\ \A l \in Loads : l # from /\ l # to => ids2[l] = ids[l]

(* Moving a worker from one load's queue to the end of another load's queue, *)
(* and its recorded load with it, keeps the two in agreement.                *)
LEMMA MoveKeepsAgreement ==
  ASSUME NEW num, NEW ids, NEW num2, NEW ids2, NEW from, NEW to,
         NEW b, NEW c, NEW i, NEW id,
         Entry(num, ids, from, to, b, c, i, id),
         Agree(num, ids),
         Moved(num, ids, num2, ids2, from, to, b, c, i, id)
  PROVE  Agree(num2, ids2)
<1>1. Len(b) \in Nat /\ Len(c) \in Nat /\ i \in Int /\ 1 <= i /\ i <= Len(b)
  BY DEF Entry
<1>2. \A w \in Ids : \E p \in 1 .. Len(ids[num[w]]) : ids[num[w]][p] = w
  BY Zenon DEF Agree
<1>3. \A l \in Loads : \A p \in 1 .. Len(ids[l]) :
        /\ num[ids[l][p]] = l
        /\ \A q \in 1 .. Len(ids[l]) : ids[l][p] = ids[l][q] => p = q
  BY Zenon DEF Agree
<1>4. \A l \in Loads : \A p \in 1 .. Len(ids[l]) : ids[l][p] \in Ids
  BY DEF Entry
<1>a. /\ from \in Loads /\ to \in Loads /\ from # to
      /\ ids[from] = b /\ ids[to] = c
      /\ i \in 1 .. Len(b) /\ id \in Ids /\ id = b[i]
  BY Zenon DEF Entry
<1>b. \A w \in Ids : num[w] \in Loads
  BY DEF Entry
<1>c. /\ num2[id] = to
      /\ \A w \in Ids : w # id => num2[w] = num[w]
  BY Zenon DEF Moved
<1>d. /\ Len(ids2[from]) = Len(b) - 1
      /\ \A j \in 1 .. Len(b) - 1 :
            ids2[from][j] = IF j < i THEN b[j] ELSE b[j + 1]
  BY Zenon DEF Moved
<1>e. /\ Len(ids2[to]) = Len(c) + 1
      /\ \A j \in 1 .. Len(c) : ids2[to][j] = c[j]
      /\ ids2[to][Len(c) + 1] = id
  BY Zenon DEF Moved
<1>f. \A l \in Loads : l # from /\ l # to => ids2[l] = ids[l]
  BY Zenon DEF Moved
<1>5. \A p \in 1 .. Len(b) : b[p] \in Ids /\ num[b[p]] = from
  BY <1>3, <1>4, <1>a
<1>6. \A p \in 1 .. Len(c) : c[p] \in Ids /\ num[c[p]] = to
  BY <1>3, <1>4, <1>a
<1>7. num[id] = from
  BY <1>5, <1>a
<1>8. \A p, q \in 1 .. Len(b) : b[p] = b[q] => p = q
  BY <1>3, <1>a
<1>9. \A p, q \in 1 .. Len(c) : c[p] = c[q] => p = q
  BY <1>3, <1>a
<1>10. \A p \in 1 .. Len(c) : c[p] # id
  BY <1>6, <1>7, <1>a
<1>11. ASSUME NEW w \in Ids
       PROVE  \E p \in 1 .. Len(ids2[num2[w]]) : ids2[num2[w]][p] = w
  <2>1. CASE w = id
    <3>1. Len(c) + 1 \in 1 .. Len(ids2[to])
      BY <1>1, <1>e
    <3>2. QED
      BY <2>1, <3>1, <1>c, <1>e
  <2>2. CASE w # id
    <3>1. PICK p \in 1 .. Len(ids[num[w]]) : ids[num[w]][p] = w
      BY <1>2
    <3>2. num2[w] = num[w] /\ num[w] \in Loads
      BY <2>2, <1>b, <1>c
    <3>3. CASE num[w] = from
      <4>1. p \in 1 .. Len(b) /\ b[p] = w
        BY <1>a, <3>1, <3>3
      <4>2. p # i
        BY <2>2, <4>1, <1>a
      <4>3. \E k \in 1 .. Len(b) - 1 : ids2[from][k] = w
        <5>1. CASE p < i
          BY <1>1, <1>d, <4>1, <5>1
        <5>2. CASE ~(p < i)
          <6>1. PICK k \in 1 .. Len(b) - 1 : ~(k < i) /\ k + 1 = p
            <7>1. /\ p - 1 \in 1 .. Len(b) - 1
                  /\ ~(p - 1 < i)
                  /\ (p - 1) + 1 = p
              BY <1>1, <4>1, <4>2, <5>2
            <7>2. QED
              BY <7>1
          <6>2. QED
            BY <1>d, <4>1, <6>1
        <5>3. QED
          BY <5>1, <5>2
      <4>4. QED
        BY <1>d, <3>2, <3>3, <4>3
    <3>4. CASE num[w] = to
      <4>1. p \in 1 .. Len(c) /\ c[p] = w
        BY <1>a, <3>1, <3>4
      <4>2. p \in 1 .. Len(ids2[to]) /\ ids2[to][p] = w
        BY <1>1, <1>e, <4>1
      <4>3. QED
        BY <3>2, <3>4, <4>2
    <3>5. CASE num[w] # from /\ num[w] # to
      BY <1>f, <3>1, <3>2, <3>5
    <3>6. QED
      BY <3>3, <3>4, <3>5
  <2>3. QED
    BY <2>1, <2>2
<1>12. ASSUME NEW l \in Loads, NEW p \in 1 .. Len(ids2[l]),
              NEW q \in 1 .. Len(ids2[l])
       PROVE  /\ num2[ids2[l][p]] = l
              /\ ids2[l][p] = ids2[l][q] => p = q
  <2>1. CASE l = from
    <3>1. p \in 1 .. Len(b) - 1 /\ q \in 1 .. Len(b) - 1
      BY <2>1, <1>d
    <3>2. PICK m \in 1 .. Len(b) : /\ ids2[from][p] = b[m]
                                   /\ m # i
                                   /\ m = IF p < i THEN p ELSE p + 1
      BY <1>1, <1>d, <3>1
    <3>3. PICK n \in 1 .. Len(b) : /\ ids2[from][q] = b[n]
                                   /\ n # i
                                   /\ n = IF q < i THEN q ELSE q + 1
      BY <1>1, <1>d, <3>1
    <3>4. b[m] # id
      BY <1>8, <1>a, <3>2
    <3>5. num2[ids2[l][p]] = l
      BY <1>5, <1>c, <2>1, <3>2, <3>4
    <3>6. b[m] = b[n] => m = n
      BY <1>8
    <3>7. m = n => p = q
      BY <1>1, <3>1, <3>2, <3>3
    <3>8. QED
      BY <2>1, <3>2, <3>3, <3>5, <3>6, <3>7
  <2>2. CASE l = to
    <3>1. ASSUME NEW n \in 1 .. Len(ids2[l]), n # Len(c) + 1
          PROVE  n \in 1 .. Len(c)
      BY <1>1, <1>e, <2>2, <3>1
    <3>2. \A n \in 1 .. Len(c) : /\ ids2[l][n] = c[n]
                                 /\ c[n] # id
                                 /\ num2[c[n]] = l
      BY <1>6, <1>10, <1>c, <1>e, <2>2
    <3>3. ids2[l][Len(c) + 1] = id /\ num2[id] = l
      BY <1>c, <1>e, <2>2
    <3>4. num2[ids2[l][p]] = l
      BY <3>1, <3>2, <3>3
    <3>5. ids2[l][p] = ids2[l][q] => p = q
      BY <1>9, <3>1, <3>2, <3>3
    <3>6. QED
      BY <3>4, <3>5
  <2>3. CASE l # from /\ l # to
    <3>1. ids2[l] = ids[l]
      BY <1>f, <2>3
    <3>2. p \in 1 .. Len(ids[l]) /\ q \in 1 .. Len(ids[l])
      BY <3>1
    <3>3. ids[l][p] \in Ids /\ num[ids[l][p]] = l
      BY <1>3, <1>4, <3>2
    <3>4. num2[ids[l][p]] = num[ids[l][p]]
      BY <1>7, <1>c, <2>3, <3>3
    <3>5. ids[l][p] = ids[l][q] => p = q
      BY <1>3, <3>2
    <3>6. QED
      BY <3>1, <3>3, <3>4, <3>5
  <2>4. QED
    BY <2>1, <2>2, <2>3
<1>13. \A l \in Loads : \A p \in 1 .. Len(ids2[l]) :
         /\ num2[ids2[l][p]] = l
         /\ \A q \in 1 .. Len(ids2[l]) : ids2[l][p] = ids2[l][q] => p = q
  BY <1>12
<1>14. QED
  BY <1>11, <1>13, Zenon DEF Agree

-----------------------------------------------------------------------------

Inv == TypeOK /\ LookupConsistent

(* The entry at position i of load from is moved to load to.               *)
Moves(from, to, i) ==
  /\ from \in Loads /\ to \in Loads /\ from # to
  /\ i \in 1 .. Len(idsForScheduled[from])
  /\ numTasksScheduled' =
       [numTasksScheduled EXCEPT ![idsForScheduled[from][i]] = to]
  /\ EraseAndEmplace(i, from, to)

(* What such a move does to the vector and to the queues.                  *)
LEMMA MoveIs ==
  ASSUME Inv, NEW from, NEW to, NEW i, Moves(from, to, i)
  PROVE  \E b, c \in Seq(Ids) : \E id \in Ids :
           /\ id = idsForScheduled[from][i]
           /\ Entry(numTasksScheduled, idsForScheduled, from, to, b, c, i, id)
           /\ Moved(numTasksScheduled, idsForScheduled, numTasksScheduled',
                    idsForScheduled', from, to, b, c, i, id)
           /\ TypeOK'
<1>1. /\ idsForScheduled \in [Loads -> Seq(Ids)]
      /\ numTasksScheduled \in [Ids -> Loads]
      /\ from \in Loads /\ to \in Loads /\ from # to
      /\ i \in 1 .. Len(idsForScheduled[from])
      /\ numTasksScheduled' = [numTasksScheduled EXCEPT ![idsForScheduled[from][i]] = to]
  BY DEF Inv, TypeOK, Moves
<1>2. PICK b \in Seq(Ids), c \in Seq(Ids) :
        b = idsForScheduled[from] /\ c = idsForScheduled[to]
  BY <1>1
<1>3. i \in 1 .. Len(b)
  BY <1>1, <1>2
<1>4. PICK id \in Ids : id = b[i]
  BY <1>3
<1>5. /\ RemoveAt(b, i) \in Seq(Ids)
      /\ Len(RemoveAt(b, i)) = Len(b) - 1
      /\ \A j \in 1 .. Len(b) - 1 :
           RemoveAt(b, i)[j] = IF j < i THEN b[j] ELSE b[j + 1]
  BY <1>3, RemoveAtProperties
<1>6. /\ Append(c, id) \in Seq(Ids)
      /\ Len(Append(c, id)) = Len(c) + 1
      /\ \A j \in 1 .. Len(c) : Append(c, id)[j] = c[j]
      /\ Append(c, id)[Len(c) + 1] = id
  OBVIOUS
<1>7. /\ idsForScheduled' \in [Loads -> Seq(Ids)]
      /\ idsForScheduled'[from] = RemoveAt(b, i)
      /\ idsForScheduled'[to] = Append(c, id)
      /\ \A l \in Loads : l # from /\ l # to =>
           idsForScheduled'[l] = idsForScheduled[l]
  BY <1>1, <1>2, <1>4, <1>5, <1>6 DEF EraseAndEmplace, Moves
<1>8. /\ numTasksScheduled' \in [Ids -> Loads]
      /\ numTasksScheduled'[id] = to
      /\ \A w \in Ids : w # id => numTasksScheduled'[w] = numTasksScheduled[w]
  BY <1>1, <1>2, <1>4
<1>9. Entry(numTasksScheduled, idsForScheduled, from, to, b, c, i, id)
  BY <1>1, <1>2, <1>3, <1>4 DEF Entry
<1>10. Moved(numTasksScheduled, idsForScheduled, numTasksScheduled',
             idsForScheduled', from, to, b, c, i, id)
  BY <1>5, <1>6, <1>7, <1>8 DEF Moved
<1>11. TypeOK' /\ id = idsForScheduled[from][i]
  BY <1>2, <1>4, <1>7, <1>8 DEF TypeOK
<1>12. QED
  BY <1>9, <1>10, <1>11

(* It keeps the two in agreement. *)
LEMMA MoveKeepsInv ==
  ASSUME Inv, NEW from, NEW to, NEW i, Moves(from, to, i)
  PROVE  Inv'
<1>1. PICK b, c \in Seq(Ids), id \in Ids :
        /\ Entry(numTasksScheduled, idsForScheduled, from, to, b, c, i, id)
        /\ Moved(numTasksScheduled, idsForScheduled, numTasksScheduled',
                 idsForScheduled', from, to, b, c, i, id)
        /\ TypeOK'
  BY MoveIs
<1>2. Agree(numTasksScheduled, idsForScheduled)
  BY Zenon DEF Inv, LookupConsistent, Agree
<1>3. Agree(numTasksScheduled', idsForScheduled')
  BY <1>1, <1>2, MoveKeepsAgreement
<1>4. QED
  BY <1>1, <1>3, Zenon DEF Inv, LookupConsistent, Agree

(* When a worker is available there is a least load, below the capacity, and *)
(* NextId is the worker at the head of its queue.                            *)
LEMMA FirstLoadFact ==
  ASSUME Inv, WorkerAvailable
  PROVE  /\ FirstLoad \in 0 .. WorkloadCapacity - 1
         /\ FirstEntry(FirstLoad)
         /\ 1 \in 1 .. Len(idsForScheduled[FirstLoad])
         /\ NextId = idsForScheduled[FirstLoad][1]
         /\ NextId \in Ids
         /\ numTasksScheduled[NextId] = FirstLoad
<1>1. PICK l \in 0 .. WorkloadCapacity - 1 : FirstEntry(l)
  BY DEF WorkerAvailable
<1>2. l \in Loads
  BY <1>1, CapacityAssumption DEF Loads
<1>3. FirstLoad \in Loads /\ FirstEntry(FirstLoad)
  BY <1>1, <1>2, Zenon DEF FirstLoad
<1>4. FirstLoad = l
  <2>1. ~(FirstLoad < l) /\ ~(l < FirstLoad)
    BY <1>1, <1>2, <1>3, Zenon DEF FirstEntry
  <2>2. QED
    BY <1>1, <1>3, <2>1, CapacityAssumption DEF Loads
<1>5. /\ idsForScheduled[l] \in Seq(Ids)
      /\ idsForScheduled[l] # <<>>
  BY <1>1, <1>2 DEF Inv, TypeOK, FirstEntry
<1>6. /\ 1 \in 1 .. Len(idsForScheduled[l])
      /\ Head(idsForScheduled[l]) = idsForScheduled[l][1]
      /\ idsForScheduled[l][1] \in Ids
  BY <1>5
<1>7. numTasksScheduled[idsForScheduled[l][1]] = l
  BY <1>2, <1>6, Zenon DEF Inv, LookupConsistent
<1>8. QED
  BY <1>1, <1>3, <1>4, <1>6, <1>7 DEF NextId

(* get_id_to_schedule_task_on moves the first entry one load up.           *)
LEMMA ScheduleMoves ==
  ASSUME Inv, GetIdToScheduleTaskOn
  PROVE  Moves(FirstLoad, FirstLoad + 1, 1)
<1>1. PICK l \in 0 .. WorkloadCapacity - 1 :
        /\ l = FirstLoad
        /\ 1 \in 1 .. Len(idsForScheduled[l])
        /\ NextId = idsForScheduled[l][1]
        /\ NextId \in Ids
        /\ numTasksScheduled[NextId] = l
  BY FirstLoadFact DEF GetIdToScheduleTaskOn
<1>2. l \in Loads /\ l + 1 \in Loads /\ l # l + 1
  BY <1>1, CapacityAssumption DEF Loads
<1>3. numTasksScheduled' =
        [numTasksScheduled EXCEPT ![idsForScheduled[l][1]] = l + 1]
  BY <1>1 DEF GetIdToScheduleTaskOn, Inv, TypeOK
<1>4. EraseAndEmplace(1, l, l + 1)
  BY <1>1 DEF GetIdToScheduleTaskOn
<1>5. QED
  BY <1>1, <1>2, <1>3, <1>4 DEF Moves

(* task_finished moves the entry of its worker one load down.              *)
LEMMA FinishMoves ==
  ASSUME Inv, NEW id \in Ids, TaskFinished(id)
  PROVE  /\ numTasksScheduled[id] \in Loads \ {0}
         /\ \E i : Moves(numTasksScheduled[id], numTasksScheduled[id] - 1, i)
<1>1. PICK load : load = numTasksScheduled[id]
  OBVIOUS
<1>2. load \in Loads /\ load > 0
  BY <1>1 DEF Inv, TypeOK, TaskFinished
<1>3. load - 1 \in Loads /\ load # load - 1
  BY <1>2, CapacityAssumption DEF Loads
<1>4. PICK i \in 1 .. Len(idsForScheduled[load]) :
        /\ idsForScheduled[load][i] = id
        /\ EraseAndEmplace(i, load, load - 1)
  BY <1>1 DEF TaskFinished
<1>5. numTasksScheduled' =
        [numTasksScheduled EXCEPT ![idsForScheduled[load][i]] = load - 1]
  BY <1>1, <1>4 DEF TaskFinished
<1>6. Moves(load, load - 1, i)
  BY <1>2, <1>3, <1>4, <1>5 DEF Moves
<1>7. QED
  BY <1>1, <1>2, <1>6

(* Both operations keep the two copies of the account equal.               *)
LEMMA ScheduleKeepsInv ==
  ASSUME Inv, GetIdToScheduleTaskOn
  PROVE  Inv'
BY ScheduleMoves, MoveKeepsInv

LEMMA FinishKeepsInv ==
  ASSUME Inv, NEW id \in Ids, TaskFinished(id)
  PROVE  Inv'
BY FinishMoves, MoveKeepsInv

(* The constructor makes two copies that agree.                            *)
LEMMA LRRInitInv ==
  ASSUME LRRInit
  PROVE  Inv
<1>1. PICK q : q = [i \in 1 .. Size |-> i - 1]
  OBVIOUS
<1>2. /\ q \in Seq(Ids) /\ Len(q) = Size
      /\ \A i \in 1 .. Size : q[i] = i - 1
  BY <1>1, SizeAssumption DEF Ids
<1>3. /\ idsForScheduled \in [Loads -> Seq(Ids)]
      /\ idsForScheduled[0] = q
      /\ \A l \in Loads : l # 0 => idsForScheduled[l] = <<>>
  <2>1. idsForScheduled = [l \in Loads |-> IF l = 0 THEN q ELSE <<>>]
    BY <1>1 DEF LRRInit
  <2>2. <<>> \in Seq(Ids)
    OBVIOUS
  <2>3. 0 \in Loads
    BY CapacityAssumption DEF Loads
  <2>4. QED
    BY <1>2, <2>1, <2>2, <2>3
<1>4. /\ numTasksScheduled \in [Ids -> Loads]
      /\ \A w \in Ids : numTasksScheduled[w] = 0
  BY CapacityAssumption DEF LRRInit, Loads
<1>5. \A w \in Ids : \E p \in 1 .. Len(q) : q[p] = w
  <2>1. ASSUME NEW w \in Ids
        PROVE  w + 1 \in 1 .. Len(q) /\ q[w + 1] = w
    BY <1>2, SizeAssumption DEF Ids
  <2>2. QED
    BY <2>1
<1>6. \A l \in Loads : \A p \in 1 .. Len(idsForScheduled[l]) :
        l = 0 /\ p \in 1 .. Size /\ idsForScheduled[l][p] = p - 1
  BY <1>2, <1>3
<1>7. \A l \in Loads : \A p \in 1 .. Len(idsForScheduled[l]) :
        /\ numTasksScheduled[idsForScheduled[l][p]] = l
        /\ \A r \in 1 .. Len(idsForScheduled[l]) :
             idsForScheduled[l][p] = idsForScheduled[l][r] => p = r
  <2>1. ASSUME NEW l \in Loads, NEW p \in 1 .. Len(idsForScheduled[l]),
               NEW r \in 1 .. Len(idsForScheduled[l])
        PROVE  /\ numTasksScheduled[idsForScheduled[l][p]] = l
               /\ idsForScheduled[l][p] = idsForScheduled[l][r] => p = r
    <3>1. /\ l = 0 /\ p \in 1 .. Size /\ r \in 1 .. Size
          /\ idsForScheduled[l][p] = p - 1 /\ idsForScheduled[l][r] = r - 1
      BY <1>6
    <3>2. p - 1 \in Ids
      BY <3>1, SizeAssumption DEF Ids
    <3>3. numTasksScheduled[p - 1] = 0
      BY <1>4, <3>2
    <3>4. p - 1 = r - 1 => p = r
      BY <3>1, SizeAssumption
    <3>5. QED
      BY <3>1, <3>3, <3>4
  <2>2. QED
    BY <2>1
<1>8. \A w \in Ids : \E p \in 1 .. Len(idsForScheduled[numTasksScheduled[w]]) :
        idsForScheduled[numTasksScheduled[w]][p] = w
  BY <1>3, <1>4, <1>5
<1>9. QED
  BY <1>3, <1>4, <1>7, <1>8, Zenon DEF Inv, TypeOK, LookupConsistent

(* The load vector and the multimap have their types and agree, for every    *)
(* number of workers and every capacity; the asserts of both operations of   *)
(* the scheduler never fail.                                                 *)
THEOREM AccountsAgree == LRRSpec => [](TypeOK /\ LookupConsistent)
<1>1. LRRInit => Inv
  BY LRRInitInv
<1>2. Inv /\ [LRRNext]_lrrVars => Inv'
  <2> SUFFICES ASSUME Inv, [LRRNext]_lrrVars
               PROVE  Inv'
    OBVIOUS
  <2>1. CASE GetIdToScheduleTaskOn
    BY <2>1, ScheduleKeepsInv
  <2>2. ASSUME NEW id \in Ids, TaskFinished(id)
        PROVE  Inv'
    BY <2>2, FinishKeepsInv
  <2>3. CASE UNCHANGED lrrVars
    BY <2>3 DEF lrrVars, Inv, TypeOK, LookupConsistent
  <2>4. QED
    BY <2>1, <2>2, <2>3 DEF LRRNext
<1>3. Inv => TypeOK /\ LookupConsistent
  BY DEF Inv
<1>4. QED
  BY <1>1, <1>2, <1>3, PTL DEF LRRSpec

(* No worker is given a task while another one has fewer.                    *)
LEMMA StepIsFair ==
  ASSUME Inv, [LRRNext]_lrrVars,
         NEW id \in Ids, numTasksScheduled'[id] > numTasksScheduled[id],
         NEW w \in Ids
  PROVE  numTasksScheduled[id] <= numTasksScheduled[w]
<1>1. /\ numTasksScheduled \in [Ids -> Loads]
      /\ \A v \in Ids : numTasksScheduled[v] \in Nat
  BY DEF Inv, TypeOK, Loads
<1>2. CASE GetIdToScheduleTaskOn
  <2>1. PICK l \in Nat : /\ l \in Loads
                         /\ FirstEntry(l)
                         /\ NextId \in Ids
                         /\ numTasksScheduled[NextId] = l
    <3>1. WorkerAvailable
      BY <1>2 DEF GetIdToScheduleTaskOn
    <3>2. FirstLoad \in Nat /\ FirstLoad \in Loads
      BY <3>1, FirstLoadFact, CapacityAssumption DEF Loads
    <3>3. QED
      BY <3>1, <3>2, FirstLoadFact
  <2>2. id = NextId
    <3>1. numTasksScheduled' = [numTasksScheduled EXCEPT ![NextId] = @ + 1]
      BY <1>2 DEF GetIdToScheduleTaskOn
    <3>2. id # NextId => numTasksScheduled'[id] = numTasksScheduled[id]
      BY <1>1, <3>1
    <3>3. QED
      BY <1>1, <3>2
  <2>3. PICK k \in Loads : k = numTasksScheduled[w]
    BY <1>1
  <2>4. idsForScheduled[k] # <<>>
    <3>1. PICK p \in 1 .. Len(idsForScheduled[k]) : TRUE
      BY <2>3 DEF Inv, LookupConsistent
    <3>2. idsForScheduled[k] \in Seq(Ids)
      BY DEF Inv, TypeOK
    <3>3. QED
      BY <3>1, <3>2
  <2>5. ~(k < l)
    BY <2>1, <2>4 DEF FirstEntry
  <2>6. QED
    BY <1>1, <2>1, <2>2, <2>3, <2>5
<1>3. ASSUME NEW v \in Ids, TaskFinished(v)
      PROVE  FALSE
  <2>1. /\ numTasksScheduled' = [numTasksScheduled EXCEPT ![v] = @ - 1]
        /\ numTasksScheduled[v] \in Nat
        /\ numTasksScheduled[id] \in Nat
    BY <1>1, <1>3 DEF TaskFinished
  <2>2. \/ numTasksScheduled'[id] = numTasksScheduled[id]
        \/ numTasksScheduled'[id] = numTasksScheduled[id] - 1
    BY <1>1, <2>1
  <2>3. QED
    BY <2>1, <2>2
<1>4. CASE UNCHANGED lrrVars
  BY <1>1, <1>4 DEF lrrVars
<1>5. QED
  BY <1>2, <1>3, <1>4 DEF LRRNext

(* A task always goes to a least loaded worker.                              *)
THEOREM LeastLoadedIsPreferred == LRRSpec => LeastLoadedFirst
<1>1. LRRSpec => []Inv
  BY AccountsAgree, PTL DEF Inv
<1>2. Inv /\ [LRRNext]_lrrVars =>
        [\A id \in Ids : numTasksScheduled'[id] > numTasksScheduled[id] =>
           \A w \in Ids : numTasksScheduled[id] <= numTasksScheduled[w]]_lrrVars
  BY StepIsFair
<1>3. QED
  BY <1>1, <1>2, PTL DEF LRRSpec, LeastLoadedFirst

(* Wherever v and w stand in one queue, w stands before v.                 *)
Before(ids, w, v) ==
  \A l \in Loads : \A i, j \in 1 .. Len(ids[l]) :
     ids[l][i] = w /\ ids[l][j] = v => i < j

(* A worker that is moved comes behind all of its new load, and the others *)
(* keep their order.                                                       *)
LEMMA MoveKeepsOrder ==
  ASSUME NEW num, NEW ids, NEW num2, NEW ids2, NEW from, NEW to,
         NEW b, NEW c, NEW i, NEW id, NEW v \in Ids, NEW w \in Ids,
         Entry(num, ids, from, to, b, c, i, id), Agree(num, ids),
         Moved(num, ids, num2, ids2, from, to, b, c, i, id),
         w # id, v # w, Before(ids, w, v)
  PROVE  Before(ids2, w, v)
<1>1. /\ Len(b) \in Nat /\ Len(c) \in Nat /\ i \in 1 .. Len(b)
      /\ from \in Loads /\ to \in Loads /\ b = ids[from] /\ c = ids[to]
      /\ id = b[i]
  BY DEF Entry
<1>2. /\ Len(ids2[from]) = Len(b) - 1
      /\ \A k \in 1 .. Len(b) - 1 :
            ids2[from][k] = IF k < i THEN b[k] ELSE b[k + 1]
  BY Zenon DEF Moved
<1>3. /\ Len(ids2[to]) = Len(c) + 1
      /\ \A k \in 1 .. Len(c) : ids2[to][k] = c[k]
      /\ ids2[to][Len(c) + 1] = id
  BY Zenon DEF Moved
<1>4. \A l \in Loads : l # from /\ l # to => ids2[l] = ids[l]
  BY Zenon DEF Moved
<1>5. \A l \in Loads : \A k, n \in 1 .. Len(ids[l]) :
        ids[l][k] = w /\ ids[l][n] = v => k < n
  BY Zenon DEF Before
<1> SUFFICES ASSUME NEW l \in Loads, NEW k \in 1 .. Len(ids2[l]),
                    NEW n \in 1 .. Len(ids2[l]), ids2[l][k] = w, ids2[l][n] = v
             PROVE  k < n
  BY DEF Before
<1>6. CASE l = from
  <2> DEFINE At(m) == IF m < i THEN m ELSE m + 1
  <2>a. ASSUME NEW m \in 1 .. Len(b) - 1
        PROVE  At(m) \in 1 .. Len(b) /\ ids2[from][m] = b[At(m)]
    <3>1. m \in Nat /\ 1 <= m /\ m <= Len(b) - 1
      BY <1>1
    <3>2. m \in 1 .. Len(b) /\ m + 1 \in 1 .. Len(b)
      BY <1>1, <3>1
    <3>3. ids2[from][m] = IF m < i THEN b[m] ELSE b[m + 1]
      BY <1>2
    <3>4. QED
      BY <3>2, <3>3
  <2>b. k \in 1 .. Len(b) - 1 /\ n \in 1 .. Len(b) - 1
    BY <1>2, <1>6
  <2>1. PICK k1 \in 1 .. Len(b) : b[k1] = w /\ k1 = IF k < i THEN k ELSE k + 1
    BY <1>6, <2>a, <2>b
  <2>2. PICK n1 \in 1 .. Len(b) : b[n1] = v /\ n1 = IF n < i THEN n ELSE n + 1
    BY <1>6, <2>a, <2>b
  <2> HIDE DEF At
  <2>3. k1 < n1
    BY <1>1, <1>5, <2>1, <2>2
  <2>4. QED
    BY <1>1, <1>2, <1>6, <2>1, <2>2, <2>3
<1>7. CASE l = to
  <2>1. k # Len(c) + 1
    BY <1>3, <1>7
  <2>2. k \in 1 .. Len(c) /\ c[k] = w
    BY <1>1, <1>3, <1>7, <2>1
  <2>3. CASE n = Len(c) + 1
    BY <1>1, <2>2, <2>3
  <2>4. CASE n # Len(c) + 1
    <3>1. n \in 1 .. Len(c) /\ c[n] = v
      BY <1>1, <1>3, <1>7, <2>4
    <3>2. QED
      BY <1>1, <1>5, <2>2, <3>1
  <2>5. QED
    BY <2>3, <2>4
<1>8. CASE l # from /\ l # to
  BY <1>4, <1>5, <1>8
<1>9. QED
  BY <1>6, <1>7, <1>8

(* Who was preferred stands behind the one he was preferred to.            *)
PreferredBehind ==
  /\ preferred \in SUBSET (Ids \X Ids)
  /\ \A p \in preferred : p[1] # p[2] /\ Before(idsForScheduled, p[2], p[1])

(* What a move does to the preferences; it is up when a task is given.     *)
LEMMA MoveKeepsPreferred ==
  ASSUME Inv, PreferredBehind, RecordPreference,
         NEW from, NEW to, NEW i, Moves(from, to, i)
  PROVE  PreferredBehind'
<1>1. PICK b, c \in Seq(Ids), id \in Ids :
        /\ id = idsForScheduled[from][i]
        /\ Entry(numTasksScheduled, idsForScheduled, from, to, b, c, i, id)
        /\ Moved(numTasksScheduled, idsForScheduled, numTasksScheduled',
                 idsForScheduled', from, to, b, c, i, id)
  BY MoveIs
<1>2. Agree(numTasksScheduled, idsForScheduled)
  BY Zenon DEF Inv, LookupConsistent, Agree
<1>3. Agree(numTasksScheduled', idsForScheduled')
  BY <1>1, <1>2, MoveKeepsAgreement
<1>4. /\ numTasksScheduled[id] = from /\ numTasksScheduled'[id] = to /\ from # to
      /\ \A w \in Ids : w # id => numTasksScheduled'[w] = numTasksScheduled[w]
  <2>1. id = b[i] /\ b = idsForScheduled[from] /\ from \in Loads /\ from # to
    BY <1>1 DEF Entry
  <2>2. i \in 1 .. Len(idsForScheduled[from])
    BY DEF Moves
  <2>3. numTasksScheduled[id] = from
    BY <1>1, <1>2, <2>1, <2>2 DEF Agree
  <2>4. numTasksScheduled'[id] = to /\ \A w \in Ids : w # id => numTasksScheduled'[w] = numTasksScheduled[w]
    BY <1>1, Zenon DEF Moved
  <2>5. QED
    BY <2>1, <2>3, <2>4
<1>5. ASSUME NEW p \in preferred, ~Changed(p[2])
      PROVE  p \in Ids \X Ids /\ p[1] # p[2] /\ Before(idsForScheduled', p[2], p[1])
  <2>1. p \in Ids \X Ids /\ p[1] # p[2] /\ Before(idsForScheduled, p[2], p[1])
    BY DEF PreferredBehind
  <2>2. p[1] \in Ids /\ p[2] \in Ids
    BY <2>1
  <2>3. p[2] # id
    BY <1>4, <1>5 DEF Changed
  <2>4. Before(idsForScheduled', p[2], p[1])
    BY <1>1, <1>2, <2>1, <2>2, <2>3, MoveKeepsOrder
  <2>5. QED
    BY <2>1, <2>4
<1>6. ASSUME NEW p \in Ids \X Ids, Given(p[1]), p[1] # p[2],
             numTasksScheduled[p[1]] = numTasksScheduled[p[2]]
      PROVE  Before(idsForScheduled', p[2], p[1])
  <2>1. p[1] \in Ids /\ p[2] \in Ids
    OBVIOUS
  <2>2. p[1] = id
    <3>1. ASSUME p[1] # id
          PROVE  FALSE
      <4>1. numTasksScheduled'[p[1]] = numTasksScheduled[p[1]]
        BY <1>4, <2>1, <3>1
      <4>2. numTasksScheduled[p[1]] \in Nat
        BY <2>1 DEF Inv, TypeOK, Loads
      <4>3. QED
        BY <1>6, <4>1, <4>2 DEF Given
    <3>2. QED
      BY <3>1
  <2>3. numTasksScheduled'[p[1]] # numTasksScheduled'[p[2]]
    BY <1>4, <1>6, <2>1, <2>2
  <2>4. QED
    BY <1>3, <2>3 DEF Agree, Before
<1>7. preferred' = {p \in preferred : ~Changed(p[2])} \union
                    {p \in Ids \X Ids :
                       /\ Given(p[1]) /\ p[1] # p[2]
                       /\ numTasksScheduled[p[1]] = numTasksScheduled[p[2]]}
  BY DEF RecordPreference
<1>8. QED
  BY <1>5, <1>6, <1>7 DEF PreferredBehind

(* Who is given a task stands first, so nobody of his load stands before.  *)
LEMMA FirstIsGiven ==
  ASSUME Inv, PreferredBehind, LRRNext, NEW p \in preferred, Given(p[1])
  PROVE  numTasksScheduled[p[1]] # numTasksScheduled[p[2]]
<1>1. /\ p[1] \in Ids /\ p[2] \in Ids /\ p[1] # p[2]
      /\ Before(idsForScheduled, p[2], p[1])
  BY DEF PreferredBehind
<1>2. /\ numTasksScheduled \in [Ids -> Loads]
      /\ \A v \in Ids : numTasksScheduled[v] \in Nat
  BY DEF Inv, TypeOK, Loads
<1>3. GetIdToScheduleTaskOn
  <2>1. ASSUME NEW v \in Ids, TaskFinished(v)
        PROVE  FALSE
    <3>1. numTasksScheduled' = [numTasksScheduled EXCEPT ![v] = @ - 1]
      BY <2>1 DEF TaskFinished
    <3>2. \/ numTasksScheduled'[p[1]] = numTasksScheduled[p[1]]
          \/ numTasksScheduled'[p[1]] = numTasksScheduled[p[1]] - 1
      BY <1>1, <1>2, <3>1
    <3>3. numTasksScheduled[p[1]] \in Nat
      BY <1>1, <1>2
    <3>4. QED
      BY <3>2, <3>3 DEF Given
  <2>2. QED
    BY <2>1 DEF LRRNext
<1>4. PICK l \in Loads : /\ 1 \in 1 .. Len(idsForScheduled[l])
                         /\ NextId = idsForScheduled[l][1] /\ NextId \in Ids
                         /\ numTasksScheduled[NextId] = l
  <2>1. WorkerAvailable
    BY <1>3 DEF GetIdToScheduleTaskOn
  <2>2. FirstLoad \in Loads
    BY <2>1, FirstLoadFact, CapacityAssumption DEF Loads
  <2>3. QED
    BY <2>1, <2>2, FirstLoadFact
<1>5. p[1] = NextId
  <2>1. numTasksScheduled' = [numTasksScheduled EXCEPT ![NextId] = @ + 1]
    BY <1>3 DEF GetIdToScheduleTaskOn
  <2>2. p[1] # NextId => numTasksScheduled'[p[1]] = numTasksScheduled[p[1]]
    BY <1>1, <1>2, <2>1
  <2>3. numTasksScheduled[p[1]] \in Nat
    BY <1>1, <1>2
  <2>4. QED
    BY <2>2, <2>3 DEF Given
<1>6. SUFFICES ASSUME numTasksScheduled[p[2]] = l
               PROVE  FALSE
  BY <1>4, <1>5
<1>7. PICK k \in 1 .. Len(idsForScheduled[l]) : idsForScheduled[l][k] = p[2]
  BY <1>1, <1>6 DEF Inv, LookupConsistent
<1>8. k < 1
  BY <1>1, <1>4, <1>5, <1>7 DEF Before
<1>9. Len(idsForScheduled[l]) \in Nat
  BY DEF Inv, TypeOK
<1>10. QED
  BY <1>7, <1>8, <1>9

(* Of workers with the same load each gets a task before one of them gets  *)
(* a second one: the "round robin" of lazy_round_robin_scheduler.hpp:9,    *)
(* which rests on the order of equal keys in a multimap.                   *)
THEOREM EqualsTakeTurns == MCSpec => RoundRobinAmongEquals
<1> DEFINE RInv == Inv /\ PreferredBehind
<1>1. MCInit => RInv
  <2> SUFFICES ASSUME MCInit
               PROVE  RInv
    OBVIOUS
  <2>1. Inv
    BY LRRInitInv DEF MCInit
  <2>2. preferred = {}
    BY DEF MCInit
  <2>3. QED
    BY <2>1, <2>2 DEF PreferredBehind
<1>2. RInv /\ [MCNext]_<<lrrVars, preferred>> => RInv'
  <2> SUFFICES ASSUME RInv, [MCNext]_<<lrrVars, preferred>>
               PROVE  RInv'
    OBVIOUS
  <2>1. ASSUME NEW from, NEW to, NEW i, Moves(from, to, i), RecordPreference
        PROVE  RInv'
    BY <2>1, MoveKeepsInv, MoveKeepsPreferred
  <2>2. CASE GetIdToScheduleTaskOn /\ RecordPreference
    BY <2>1, <2>2, ScheduleMoves
  <2>3. ASSUME NEW id \in Ids, TaskFinished(id), RecordPreference
        PROVE  RInv'
    BY <2>1, <2>3, FinishMoves
  <2>4. CASE UNCHANGED <<lrrVars, preferred>>
    <3>1. /\ numTasksScheduled' = numTasksScheduled /\ preferred' = preferred
          /\ idsForScheduled' = idsForScheduled
      BY <2>4 DEF lrrVars
    <3>2. Inv'
      BY <3>1 DEF Inv, TypeOK, LookupConsistent
    <3>3. PreferredBehind'
      BY <3>1 DEF PreferredBehind, Before
    <3>4. QED
      BY <3>2, <3>3
  <2>5. QED
    BY <2>2, <2>3, <2>4 DEF MCNext, LRRNext
<1>3. RInv /\ [MCNext]_<<lrrVars, preferred>> =>
        [\A p \in preferred :
           Given(p[1]) => numTasksScheduled[p[1]] # numTasksScheduled[p[2]]
         ]_<<lrrVars, preferred>>
  BY FirstIsGiven DEF MCNext
<1>4. QED
  BY <1>1, <1>2, <1>3, PTL DEF MCSpec, RoundRobinAmongEquals

-----------------------------------------------------------------------------
(* The invariant                                                           *)

StopMessage == [id |-> 0, answer_required |-> FALSE, task |-> StopCall]
Packet == Message \union {Ping}

(* What the holders hold, and how much of it is executed. *)
Lines == [h \in Holders |-> CallsOf(h)]
DoneOf(h) == IF h = 0 THEN (IF headPc = "deliver" THEN 1 ELSE 0)
                      ELSE Len(toHead[h])
Dones == [h \in Holders |-> DoneOf(h)]

(* m is a call that holder h has to execute, or has executed (done) without *)
(* its function being called, when F are the functions registered, E and R  *)
(* the history, and S the tasks submitted. *)
CallOK(h, m, done, F, E, R, S) ==
  /\ m.task \in S
  /\ R[m.task] = <<>>
  /\ E[m.task] = IF done THEN 1 ELSE 0
  /\ m.id = 0 => m.task \in NoticeTasks /\ ~done /\ ~m.answer_required
  /\ m.id # 0 => /\ m.task \in ChainTasks
                 /\ m.id \in DOMAIN F /\ F[m.id] = m.task
                 /\ m.answer_required = (~done \/ h = 0)

(* K are the workers told to stop. *)
ItemOK(h, m, done, F, E, R, S, K) ==
  \/ m = Ping /\ done /\ h # 0
  \/ m = StopMessage /\ ~done /\ h \in K
  \/ CallOK(h, m, done, F, E, R, S)

LinesTyped(L, D) ==
  /\ L \in [Holders -> Seq(Packet)]
  /\ D \in [Holders -> Nat]
  /\ \A h \in Holders : D[h] <= Len(L[h])
ItemsOK(L, D, F, E, R, S, K) ==
  \A h \in Holders : \A i \in DOMAIN L[h] :
     ItemOK(h, L[h][i], i <= D[h], F, E, R, S, K)

(* No task is at two places. *)
TaskOnce(L) ==
  \A h, k \in Holders : \A i \in DOMAIN L[h], j \in DOMAIN L[k] :
     L[h][i].task \in Tasks /\ L[k][j].task = L[h][i].task => h = k /\ i = j

(* No call is lost: every id is held, and what nobody holds is settled. *)
IdsHeld(L, F) ==
  \A id \in DOMAIN F : \E h \in Holders : \E i \in DOMAIN L[h] : L[h][i].id = id
Held(L, t) == \E h \in Holders : \E i \in DOMAIN L[h] : L[h][i].task = t
Settled(t, E, R) == E[t] = 1 /\ R[t] = IF t \in NoticeTasks THEN <<>> ELSE <<t>>
NothingLost(L, E, R, S) == \A t \in S : Held(L, t) \/ Settled(t, E, R)
Untouched(E, R, S) ==
  /\ S \subseteq Tasks
  /\ \A t \in Tasks \ S : E[t] = 0 /\ R[t] = <<>>

HoldersOK(L, D, F, E, R, S, K) ==
  /\ LinesTyped(L, D) /\ ItemsOK(L, D, F, E, R, S, K) /\ TaskOnce(L)
  /\ IdsHeld(L, F) /\ NothingLost(L, E, R, S) /\ Untouched(E, R, S)

CallsOK == HoldersOK(Lines, Dones, functionMap, executions, results,
                     SubmittedTasks, 1 .. stopsSent)

(* The ids. *)
UuidOK ==
  /\ \A id \in 1 .. newUuid :
       id \notin DOMAIN functionMap => \E i \in DOMAIN unused : unused[i] = id - 1
  /\ \A i \in DOMAIN unused :
       unused[i] + 1 \in (1 .. newUuid) \ DOMAIN functionMap
  /\ \A i, j \in DOMAIN unused : unused[i] = unused[j] => i = j

(* The batch is a part of the current round, in order. *)
BatchOK ==
  /\ headPc # "submit" => batch = <<>>
  /\ \A i \in DOMAIN batch :
       batch[i] \in ChainTasks => batch[i][2] = round[batch[i][1]]
  /\ \A i, j \in DOMAIN batch : batch[i] = batch[j] => i = j

(* A chain waits for as many results as it has functions registered.        *)
AwaitedOf(F, c) == {id \in DOMAIN F : F[id][1] = c}
RemainingOK ==
  /\ \A id \in DOMAIN functionMap :
       /\ functionMap[id] \in ChainTasks
       /\ functionMap[id][2] = round[functionMap[id][1]]
  /\ \A c \in Chains : remaining[c] = Cardinality(AwaitedOf(functionMap, c))

(* The load account, when there are workers, and when there are none.       *)
Units(num) ==
  {p \in (1 .. Size) \X (1 .. WorkloadCapacity) : p[2] <= num[p[1] - 1]}
Exact(L, num, k, n) ==
  /\ \A w \in Workers : Len(L[w]) = num[w - 1] + (IF w <= k THEN 1 ELSE 0)
  /\ n = k + Cardinality(Units(num))
LoadOK ==
  \/ /\ NumWorkers = Size /\ TypeOK /\ LookupConsistent
     /\ Exact(Lines, numTasksScheduled, stopsSent, numWaitingForReply)
  \/ /\ NumWorkers = 0 /\ numTasksScheduled = <<>> /\ ~WorkerAvailable
     /\ stopsSent = 0 /\ numWaitingForReply = 0
     /\ \A w \in Workers : Lines[w] = <<>>

(* Where the head may be. *)
HeadOK ==
  /\ headPc \in {"feed", "poll", "fill", "fillpoll", "reap"} => NumWorkers > 0
  /\ headPc \in {"own", "deliver"} => NumWorkers = 0
  /\ headPc = "deliver" => tasks # <<>> /\ Head(tasks).answer_required
  /\ draining => headPc \notin {"app", "submit"}
  /\ ~draining => headPc \notin {"drain", "stop", "left"}
  /\ headPc = "reap" => NumWorkers > 0 /\ ~WorkerAvailable
  /\ stopsSent <= NumWorkers
  /\ stopsSent > 0 => headPc \in {"stop", "left"}
  /\ headPc \in {"stop", "left"} =>
       /\ tasks = <<>> /\ DOMAIN functionMap = {}
       /\ \A id \in DOMAIN numTasksScheduled : numTasksScheduled[id] = 0

WorkersOK ==
  /\ \A w \in Workers : workerPc[w] = "exec" => workerTasks[w] # <<>>
  /\ \A w \in Workers : w > NumWorkers => workerPc[w] = "left"
  /\ \A w \in 1 .. NumWorkers : workerPc[w] = "left" =>
       w <= stopsSent /\ toHead[w] = <<Ping>>

IInv ==
  /\ ODSTypeOK /\ CallsOK /\ UuidOK /\ BatchOK /\ RemainingOK /\ LoadOK
  /\ HeadOK /\ WorkersOK /\ NoIdleWorker

-----------------------------------------------------------------------------
(* Tasks and messages                                                      *)

(* The kinds of tasks are told apart by their length.                       *)
LEMMA TaskFacts ==
  /\ \A t \in ChainTasks : /\ t = <<t[1], t[2], t[3]>> /\ t[1] \in Chains
                           /\ t[2] \in 1 .. Rounds /\ t[3] \in 1 .. BatchSize
                           /\ t \notin NoticeTasks /\ t # StopCall
  /\ \A t \in NoticeTasks : t \notin ChainTasks /\ t # StopCall
  /\ StopCall \notin Tasks /\ Ping.task \notin Tasks /\ Ping.task # StopCall
  /\ \A t \in Tasks : t \in ChainTasks \/ t \in NoticeTasks
<1>1. \A t \in ChainTasks : /\ t = <<t[1], t[2], t[3]>> /\ t[1] \in Chains
                            /\ t[2] \in 1 .. Rounds /\ t[3] \in 1 .. BatchSize
  BY DEF ChainTasks
<1>2. \A t \in ChainTasks : Len(t) = 3
  BY <1>1
<1>3. \A t \in NoticeTasks : Len(t) = 2
  BY DEF NoticeTasks
<1>4. Len(StopCall) = 1 /\ Ping.task = <<"ping">> /\ Len(<<"ping">>) = 1
  BY DEF StopCall, Ping
<1>5. Ping.task # StopCall
  BY DEF StopCall, Ping
<1> QED BY <1>1, <1>2, <1>3, <1>4, <1>5 DEF Tasks

(* A message has the parts of one; neither ping nor stop_running is a call. *)
LEMMA MessageFacts ==
  /\ \A m \in Message : /\ m.id \in Nat /\ m.answer_required \in BOOLEAN
                        /\ m.task \in Tasks \union {StopCall}
  /\ \A id \in Nat, b \in BOOLEAN, t \in Tasks \union {StopCall} :
       [id |-> id, answer_required |-> b, task |-> t] \in Message
  /\ StopMessage \in Message /\ StopMessage \in Packet /\ StopMessage # Ping
  /\ StopMessage.id = 0 /\ StopMessage.task = StopCall
  /\ ~StopMessage.answer_required
  /\ Ping.id = 0 /\ Ping \notin Message /\ ~Ping.answer_required
  /\ \A m \in Message : m \in Packet /\ m # Ping
<1>1. \A m \in Message : /\ m.id \in Nat /\ m.answer_required \in BOOLEAN
                         /\ m.task \in Tasks \union {StopCall}
  BY DEF Message
<1>2. \A id \in Nat, b \in BOOLEAN, t \in Tasks \union {StopCall} :
        [id |-> id, answer_required |-> b, task |-> t] \in Message
  BY DEF Message
<1>3. StopMessage \in Message
  BY <1>2 DEF StopMessage
<1>4. /\ StopMessage.id = 0 /\ StopMessage.task = StopCall
      /\ ~StopMessage.answer_required /\ Ping.id = 0 /\ ~Ping.answer_required
  BY DEF StopMessage, Ping
<1>5. Ping \notin Message
  BY <1>1, TaskFacts
<1> QED BY <1>1, <1>2, <1>3, <1>4, <1>5 DEF Packet

-----------------------------------------------------------------------------
(* Sequences                                                               *)

(* What stands where after an element was appended.                         *)
LEMMA AppendAt ==
  ASSUME NEW S, NEW s \in Seq(S), NEW e \in S
  PROVE  /\ Append(s, e) \in Seq(S)
         /\ Len(s) \in Nat /\ DOMAIN s = 1 .. Len(s)
         /\ Len(Append(s, e)) = Len(s) + 1
         /\ DOMAIN Append(s, e) = 1 .. Len(s) + 1
         /\ \A n \in DOMAIN s : Append(s, e)[n] = s[n]
         /\ Append(s, e)[Len(s) + 1] = e
BY AppendProperties, LenProperties

(* What stands where after the first element was taken.                     *)
LEMMA TailAt ==
  ASSUME NEW S, NEW s \in Seq(S), s # <<>>
  PROVE  /\ Tail(s) \in Seq(S) /\ Head(s) = s[1] /\ s[1] \in S
         /\ Len(s) \in Nat \ {0} /\ DOMAIN s = 1 .. Len(s)
         /\ Len(Tail(s)) = Len(s) - 1
         /\ DOMAIN Tail(s) = 1 .. Len(s) - 1
         /\ \A n \in DOMAIN Tail(s) : n + 1 \in DOMAIN s /\ Tail(s)[n] = s[n + 1]
<1>1. Len(s) \in Nat /\ DOMAIN s = 1 .. Len(s)
  BY LenProperties
<1>2. Len(s) # 0
  BY <1>1, EmptySeq
<1>3. /\ Tail(s) \in Seq(S) /\ Head(s) = s[1]
      /\ Len(Tail(s)) = Len(s) - 1
      /\ \A n \in 1 .. Len(Tail(s)) : Tail(s)[n] = s[n + 1]
  BY HeadTailProperties
<1>4. s[1] \in S
  BY <1>1, <1>2, ElementOfSeq
<1>5. DOMAIN Tail(s) = 1 .. Len(s) - 1
  BY <1>3, LenProperties
<1> QED BY <1>1, <1>2, <1>3, <1>4, <1>5

(* Two sequences one after the other, ...                                   *)
LEMMA PairAt ==
  ASSUME NEW S, NEW s \in Seq(S), NEW t \in Seq(S), NEW c, c = s \o t
  PROVE  /\ c \in Seq(S) /\ Len(s) \in Nat /\ Len(t) \in Nat
         /\ Len(c) = Len(s) + Len(t)
         /\ \A n \in 1 .. Len(s) : c[n] = s[n]
         /\ \A n \in 1 .. Len(t) : c[Len(s) + n] = t[n]
<1>1. Len(s) \in Nat /\ Len(t) \in Nat
  BY LenProperties
<1>2. /\ c \in Seq(S) /\ Len(c) = Len(s) + Len(t)
      /\ \A i \in 1 .. Len(s) + Len(t) :
           c[i] = IF i <= Len(s) THEN s[i] ELSE t[i - Len(s)]
  BY ConcatProperties
<1>3. ASSUME NEW n \in 1 .. Len(t)
      PROVE  c[Len(s) + n] = t[n]
  <2>1. /\ Len(s) + n \in 1 .. Len(s) + Len(t)
        /\ ~(Len(s) + n <= Len(s)) /\ Len(s) + n - Len(s) = n
    BY <1>1
  <2> QED BY <1>2, <2>1
<1>4. ASSUME NEW n \in 1 .. Len(s)
      PROVE  c[n] = s[n]
  <2>1. n \in 1 .. Len(s) + Len(t) /\ n <= Len(s)
    BY <1>1
  <2> QED BY <1>2, <2>1
<1> QED BY <1>1, <1>2, <1>3, <1>4

(* ... and three.                                                           *)
LEMMA CatAt ==
  ASSUME NEW S, NEW s \in Seq(S), NEW t \in Seq(S), NEW u \in Seq(S),
         NEW c, c = s \o t \o u
  PROVE  /\ c \in Seq(S) /\ Len(s) \in Nat /\ Len(t) \in Nat
         /\ Len(u) \in Nat /\ Len(c) = Len(s) + Len(t) + Len(u)
         /\ DOMAIN c = 1 .. Len(s) + Len(t) + Len(u)
         /\ \A n \in 1 .. Len(s) : c[n] = s[n]
         /\ \A n \in 1 .. Len(t) : c[Len(s) + n] = t[n]
         /\ \A n \in 1 .. Len(u) : c[Len(s) + Len(t) + n] = u[n]
<1>1. Len(s) \in Nat /\ Len(t) \in Nat /\ Len(u) \in Nat
  BY LenProperties
<1>2. PICK b \in Seq(S) : b = s \o t
  BY ConcatProperties
<1>3. /\ Len(b) = Len(s) + Len(t)
      /\ \A n \in 1 .. Len(s) : b[n] = s[n]
      /\ \A n \in 1 .. Len(t) : b[Len(s) + n] = t[n]
  BY <1>2, PairAt
<1>4. c \in Seq(S) /\ c = b \o u
  BY <1>2, ConcatProperties
<1>5. /\ Len(c) = Len(b) + Len(u)
      /\ \A n \in 1 .. Len(b) : c[n] = b[n]
      /\ \A n \in 1 .. Len(u) : c[Len(b) + n] = u[n]
  BY <1>4, PairAt
<1>6. DOMAIN c = 1 .. Len(c)
  BY <1>4, LenProperties
<1>7. /\ \A n \in 1 .. Len(s) : c[n] = s[n]
      /\ \A n \in 1 .. Len(t) : c[Len(s) + n] = t[n]
      /\ \A n \in 1 .. Len(u) : c[Len(s) + Len(t) + n] = u[n]
  <2>1. \A n \in 1 .. Len(s) : n \in 1 .. Len(b)
    BY <1>1, <1>3
  <2>2. \A n \in 1 .. Len(t) : Len(s) + n \in 1 .. Len(b)
    BY <1>1, <1>3
  <2>3. \A n \in 1 .. Len(t) : c[Len(s) + n] = b[Len(s) + n]
    BY <1>5, <2>2
  <2> QED BY <1>3, <1>5, <2>1, <2>3
<1> QED BY <1>1, <1>3, <1>5, <1>6, <1>4, <1>7

(* A message that is sent is the last one under way.                        *)
LEMMA CatAppend ==
  ASSUME NEW S, NEW s \in Seq(S), NEW t \in Seq(S), NEW u \in Seq(S), NEW e \in S
  PROVE  s \o t \o Append(u, e) = Append(s \o t \o u, e)
<1>1. s \o t \in Seq(S) /\ <<e>> \in Seq(S)
  BY ConcatProperties
<1>2. Append(u, e) = u \o <<e>>
  BY AppendIsConcat
<1>3. s \o t \o u \in Seq(S)
  BY <1>1, ConcatProperties
<1>4. Append(s \o t \o u, e) = (s \o t \o u) \o <<e>>
  BY <1>3, AppendIsConcat
<1> QED BY <1>1, <1>2, <1>4, ConcatAssociative

(* A message that is received stays where it is among those under way.      *)
LEMMA CatMove ==
  ASSUME NEW S, NEW s \in Seq(S), NEW t \in Seq(S), NEW u \in Seq(S), u # <<>>
  PROVE  s \o Append(t, Head(u)) \o Tail(u) = s \o t \o u
<1>1. /\ Tail(u) \in Seq(S) /\ Head(u) = u[1] /\ u[1] \in S
      /\ Len(u) \in Nat \ {0} /\ Len(Tail(u)) = Len(u) - 1
      /\ \A n \in 1 .. Len(u) - 1 : Tail(u)[n] = u[n + 1]
  BY TailAt
<1>2. PICK a \in Seq(S) : a = Append(t, Head(u))
  BY <1>1, AppendAt
<1>3. /\ Len(a) = Len(t) + 1
      /\ \A n \in 1 .. Len(t) : a[n] = t[n]
      /\ a[Len(t) + 1] = u[1]
  BY <1>1, <1>2, AppendAt
<1>4. PICK b \in Seq(S) : b = Tail(u)
  BY <1>1
<1>5. PICK c, d : c = s \o t \o u /\ d = s \o a \o b
  OBVIOUS
<1>6. /\ c \in Seq(S) /\ Len(s) \in Nat /\ Len(t) \in Nat
      /\ Len(c) = Len(s) + Len(t) + Len(u)
      /\ \A n \in 1 .. Len(s) : c[n] = s[n]
      /\ \A n \in 1 .. Len(t) : c[Len(s) + n] = t[n]
      /\ \A n \in 1 .. Len(u) : c[Len(s) + Len(t) + n] = u[n]
  BY <1>5, CatAt
<1>7. /\ d \in Seq(S) /\ Len(d) = Len(s) + Len(a) + Len(b)
      /\ \A n \in 1 .. Len(s) : d[n] = s[n]
      /\ \A n \in 1 .. Len(a) : d[Len(s) + n] = a[n]
      /\ \A n \in 1 .. Len(b) : d[Len(s) + Len(a) + n] = b[n]
  BY <1>5, CatAt
<1>8. Len(c) = Len(d)
  BY <1>1, <1>3, <1>4, <1>6, <1>7
<1>9. ASSUME NEW i \in 1 .. Len(c) PROVE c[i] = d[i]
  <2>1. CASE i <= Len(s)
    BY <1>6, <1>7, <2>1
  <2>2. CASE Len(s) < i /\ i <= Len(s) + Len(t)
    <3>1. PICK n \in 1 .. Len(t) : i = Len(s) + n
      <4>1. i - Len(s) \in 1 .. Len(t) /\ i = Len(s) + (i - Len(s))
        BY <1>6, <2>2
      <4> QED BY <4>1
    <3>2. n \in 1 .. Len(a)
      BY <1>3, <1>6
    <3> QED BY <1>3, <1>6, <1>7, <3>1, <3>2
  <2>3. CASE i = Len(s) + Len(t) + 1
    <3>1. c[i] = u[1]
      BY <1>1, <1>6, <2>3
    <3>2. Len(t) + 1 \in 1 .. Len(a) /\ i = Len(s) + (Len(t) + 1)
      BY <1>3, <1>6, <2>3
    <3>3. d[i] = a[Len(t) + 1]
      BY <1>7, <3>2
    <3> QED BY <1>3, <3>1, <3>3
  <2>4. CASE Len(s) + Len(t) + 1 < i
    <3> DEFINE n == i - Len(s) - Len(t) - 1
    <3>1. n \in 1 .. Len(u) - 1 /\ n + 1 \in 1 .. Len(u)
          /\ i = Len(s) + Len(t) + (n + 1)
      BY <1>1, <1>6, <2>4
    <3>2. n \in 1 .. Len(b) /\ i = Len(s) + Len(a) + n
      BY <1>1, <1>3, <1>4, <1>6, <2>4, <3>1
    <3>3. c[i] = u[n + 1]
      BY <1>6, <3>1
    <3>4. d[i] = b[n]
      BY <1>7, <3>2
    <3>5. b[n] = u[n + 1]
      BY <1>1, <1>4, <3>1
    <3> QED BY <3>3, <3>4, <3>5
  <2>5. \/ i <= Len(s)
        \/ Len(s) < i /\ i <= Len(s) + Len(t)
        \/ i = Len(s) + Len(t) + 1
        \/ Len(s) + Len(t) + 1 < i
    <3>1. i \in Int /\ Len(s) \in Int /\ Len(t) \in Int
      BY <1>1, <1>6
    <3>2. \A x, y, z \in Int : \/ x <= y
                               \/ y < x /\ x <= y + z
                               \/ x = y + z + 1
                               \/ y + z + 1 < x
      OBVIOUS
    <3> QED BY <3>1, <3>2
  <2> QED BY <2>1, <2>2, <2>3, <2>4, <2>5
<1>10. c = d
  BY <1>6, <1>7, <1>8, <1>9, SeqEqual
<1> QED BY <1>2, <1>4, <1>5, <1>10
(* The answer that is received is the first one under way.                  *)
LEMMA CatTail ==
  ASSUME NEW S, NEW s \in Seq(S), NEW t \in Seq(S), NEW u \in Seq(S), s # <<>>
  PROVE  Tail(s) \o t \o u = Tail(s \o t \o u)
<1>1. /\ Len(s) \in Nat \ {0} /\ Tail(s) \in Seq(S)
      /\ Len(Tail(s)) = Len(s) - 1
      /\ \A n \in 1 .. Len(s) - 1 : Tail(s)[n] = s[n + 1]
  BY TailAt
<1>2. PICK a \in Seq(S) : a = Tail(s)
  BY <1>1
<1>3. PICK c, d : c = s \o t \o u /\ d = a \o t \o u
  OBVIOUS
<1>4. /\ c \in Seq(S) /\ Len(t) \in Nat /\ Len(u) \in Nat
      /\ Len(c) = Len(s) + Len(t) + Len(u)
      /\ \A n \in 1 .. Len(s) : c[n] = s[n]
      /\ \A n \in 1 .. Len(t) : c[Len(s) + n] = t[n]
      /\ \A n \in 1 .. Len(u) : c[Len(s) + Len(t) + n] = u[n]
  BY <1>3, CatAt
<1>5. /\ d \in Seq(S) /\ Len(d) = Len(a) + Len(t) + Len(u)
      /\ \A n \in 1 .. Len(a) : d[n] = a[n]
      /\ \A n \in 1 .. Len(t) : d[Len(a) + n] = t[n]
      /\ \A n \in 1 .. Len(u) : d[Len(a) + Len(t) + n] = u[n]
  BY <1>3, CatAt
<1>6. Len(a) = Len(s) - 1 /\ Len(a) \in Nat
  BY <1>1, <1>2
<1>7. c # <<>>
  BY <1>1, <1>4, EmptySeq
<1>8. PICK e \in Seq(S) : e = Tail(c)
  BY <1>4, <1>7, TailAt
<1>9. /\ Len(e) = Len(c) - 1
      /\ \A n \in 1 .. Len(c) - 1 : e[n] = c[n + 1]
  BY <1>4, <1>7, <1>8, TailAt
<1>10. Len(d) = Len(e) /\ Len(d) \in Nat
  BY <1>1, <1>4, <1>5, <1>6, <1>9
<1>11. ASSUME NEW i \in 1 .. Len(d) PROVE d[i] = e[i]
  <2>1. i \in Int /\ Len(a) \in Int /\ Len(t) \in Int /\ Len(u) \in Int
    BY <1>4, <1>6
  <2>2. e[i] = c[i + 1]
    <3>1. i \in 1 .. Len(c) - 1
      BY <1>9, <1>10
    <3> QED BY <1>9, <3>1
  <2>3. CASE i <= Len(a)
    <3>1. i \in 1 .. Len(a) /\ i \in 1 .. Len(s) - 1 /\ i + 1 \in 1 .. Len(s)
      BY <1>6, <2>1, <2>3
    <3>2. c[i + 1] = s[i + 1]
      BY <1>4, <3>1
    <3> QED BY <1>1, <1>2, <1>5, <2>2, <3>1, <3>2
  <2>4. CASE Len(a) < i /\ i <= Len(a) + Len(t)
    <3>1. PICK n \in 1 .. Len(t) : i = Len(a) + n /\ i + 1 = Len(s) + n
      <4>1. i - Len(a) \in 1 .. Len(t) /\ i = Len(a) + (i - Len(a))
            /\ i + 1 = Len(s) + (i - Len(a))
        BY <1>6, <2>1, <2>4
      <4> QED BY <4>1
    <3> QED BY <1>4, <1>5, <2>2, <3>1
  <2>5. CASE Len(a) + Len(t) < i
    <3>1. PICK n \in 1 .. Len(u) : /\ i = Len(a) + Len(t) + n
                                   /\ i + 1 = Len(s) + Len(t) + n
      <4> DEFINE n == i - Len(a) - Len(t)
      <4>1. n \in 1 .. Len(u) /\ i = Len(a) + Len(t) + n
            /\ i + 1 = Len(s) + Len(t) + n
        BY <1>5, <1>6, <2>1, <2>5
      <4> QED BY <4>1
    <3> QED BY <1>4, <1>5, <2>2, <3>1
  <2> QED BY <2>1, <2>3, <2>4, <2>5
<1>12. d = e
  BY <1>5, <1>8, <1>10, <1>11, SeqEqual
<1> QED BY <1>2, <1>3, <1>8, <1>12

(* A call that is executed becomes its answer, at its place.                *)
LEMMA CatExecute ==
  ASSUME NEW S, NEW s \in Seq(S), NEW t \in Seq(S), NEW u \in Seq(S),
         NEW x \in S, t # <<>>
  PROVE  LET c == s \o t \o u
         IN  /\ Append(s, x) \o Tail(t) \o u = [c EXCEPT ![Len(s) + 1] = x]
             /\ Len(s) + 1 \in 1 .. Len(c) /\ c[Len(s) + 1] = Head(t)
<1>1. /\ Len(t) \in Nat \ {0} /\ Tail(t) \in Seq(S)
      /\ Len(Tail(t)) = Len(t) - 1 /\ Head(t) = t[1]
      /\ \A n \in 1 .. Len(t) - 1 : Tail(t)[n] = t[n + 1]
  BY TailAt
<1>2. PICK a \in Seq(S), b \in Seq(S) : a = Append(s, x) /\ b = Tail(t)
  BY <1>1, AppendAt
<1>3. /\ Len(a) = Len(s) + 1
      /\ \A n \in 1 .. Len(s) : a[n] = s[n]
      /\ a[Len(s) + 1] = x
  BY <1>2, AppendAt
<1>4. PICK c, d : c = s \o t \o u /\ d = a \o b \o u
  OBVIOUS
<1>5. /\ c \in Seq(S) /\ Len(s) \in Nat /\ Len(u) \in Nat
      /\ Len(c) = Len(s) + Len(t) + Len(u)
      /\ DOMAIN c = 1 .. Len(s) + Len(t) + Len(u)
      /\ \A n \in 1 .. Len(s) : c[n] = s[n]
      /\ \A n \in 1 .. Len(t) : c[Len(s) + n] = t[n]
      /\ \A n \in 1 .. Len(u) : c[Len(s) + Len(t) + n] = u[n]
  BY <1>4, CatAt
<1>6. /\ d \in Seq(S) /\ Len(d) = Len(a) + Len(b) + Len(u)
      /\ \A n \in 1 .. Len(a) : d[n] = a[n]
      /\ \A n \in 1 .. Len(b) : d[Len(a) + n] = b[n]
      /\ \A n \in 1 .. Len(u) : d[Len(a) + Len(b) + n] = u[n]
  BY <1>4, CatAt
<1>7. Len(b) = Len(t) - 1 /\ Len(b) \in Nat /\ Len(a) \in Nat
  BY <1>1, <1>2, <1>3, <1>5
<1>8. Len(s) + 1 \in 1 .. Len(c) /\ c[Len(s) + 1] = Head(t)
  BY <1>1, <1>5
<1>9. PICK e \in Seq(S) : e = [c EXCEPT ![Len(s) + 1] = x]
  BY <1>5, <1>8, ExceptSeq
<1>10. /\ Len(e) = Len(c) /\ e[Len(s) + 1] = x
       /\ \A n \in 1 .. Len(c) : n # Len(s) + 1 => e[n] = c[n]
  BY <1>5, <1>8, <1>9, ExceptSeq
<1>11. Len(d) = Len(e) /\ Len(d) = Len(c) /\ Len(d) \in Nat
  BY <1>1, <1>3, <1>5, <1>6, <1>7, <1>10
<1>12. ASSUME NEW i \in 1 .. Len(d) PROVE d[i] = e[i]
  <2>1. i \in Int /\ Len(s) \in Int /\ Len(t) \in Int /\ Len(u) \in Int
    BY <1>1, <1>5
  <2>2. i # Len(s) + 1 => e[i] = c[i]
    BY <1>10, <1>11
  <2>3. CASE i <= Len(s)
    <3>1. i \in 1 .. Len(s) /\ i \in 1 .. Len(a) /\ i # Len(s) + 1
      BY <1>3, <2>1, <2>3
    <3> QED BY <1>3, <1>5, <1>6, <2>2, <3>1
  <2>4. CASE i = Len(s) + 1
    <3>1. i \in 1 .. Len(a)
      BY <1>3, <1>5, <2>4
    <3> QED BY <1>3, <1>6, <1>10, <2>4, <3>1
  <2>5. CASE Len(s) + 1 < i /\ i <= Len(s) + Len(t)
    <3>1. PICK n \in 1 .. Len(t) - 1 : /\ i = Len(a) + n
                                       /\ i = Len(s) + (n + 1)
      <4> DEFINE n == i - Len(s) - 1
      <4>1. n \in 1 .. Len(t) - 1 /\ i = Len(a) + n /\ i = Len(s) + (n + 1)
        BY <1>3, <2>1, <2>5
      <4> QED BY <4>1
    <3>2. n \in 1 .. Len(b) /\ n + 1 \in 1 .. Len(t) /\ i # Len(s) + 1
      BY <1>7, <2>1, <2>5, <3>1
    <3>3. c[i] = t[n + 1]
      BY <1>5, <3>1, <3>2
    <3>4. d[i] = b[n]
      BY <1>6, <3>1, <3>2
    <3> QED BY <1>1, <1>2, <2>2, <3>1, <3>2, <3>3, <3>4
  <2>6. CASE Len(s) + Len(t) < i
    <3>1. PICK n \in 1 .. Len(u) : /\ i = Len(s) + Len(t) + n
                                   /\ i = Len(a) + Len(b) + n
      <4> DEFINE n == i - Len(s) - Len(t)
      <4>1. n \in 1 .. Len(u) /\ i = Len(s) + Len(t) + n
            /\ i = Len(a) + Len(b) + n
        BY <1>3, <1>5, <1>7, <1>11, <2>1, <2>6
      <4> QED BY <4>1
    <3>2. i # Len(s) + 1
      BY <1>1, <2>1, <2>6
    <3> QED BY <1>5, <1>6, <2>2, <3>1, <3>2
  <2> QED BY <2>1, <2>3, <2>4, <2>5, <2>6
<1>13. d = e
  BY <1>6, <1>9, <1>11, <1>12, SeqEqual
<1> QED BY <1>2, <1>4, <1>8, <1>9, <1>13

-----------------------------------------------------------------------------
(* Calls that come, move and go                                            *)

(* A call is appended to what h holds.                                      *)
LEMMA AppendPlaces ==
  ASSUME NEW L \in [Holders -> Seq(Packet)], NEW h \in Holders, NEW m \in Packet
  PROVE  LET M == [L EXCEPT ![h] = Append(@, m)]
         IN  /\ M \in [Holders -> Seq(Packet)]
             /\ Len(M[h]) = Len(L[h]) + 1
             /\ \A k \in Holders : k # h => M[k] = L[k]
             /\ \A k \in Holders : \A i \in DOMAIN L[k] :
                  i \in DOMAIN M[k] /\ M[k][i] = L[k][i]
             /\ \A k \in Holders : \A i \in DOMAIN M[k] :
                  \/ i \in DOMAIN L[k] /\ M[k][i] = L[k][i]
                  \/ k = h /\ i = Len(L[h]) + 1 /\ M[k][i] = m
             /\ Len(L[h]) + 1 \in DOMAIN M[h] /\ M[h][Len(L[h]) + 1] = m
             /\ Len(L[h]) \in Nat
<1> DEFINE M == [L EXCEPT ![h] = Append(@, m)]
<1>1. PICK s \in Seq(Packet) : s = L[h]
  OBVIOUS
<1>2. PICK a : a = Append(s, m)
  OBVIOUS
<1>3. /\ a \in Seq(Packet) /\ Len(s) \in Nat /\ DOMAIN s = 1 .. Len(s)
      /\ Len(a) = Len(s) + 1 /\ DOMAIN a = 1 .. Len(s) + 1
      /\ \A n \in DOMAIN s : a[n] = s[n]
      /\ a[Len(s) + 1] = m
  BY <1>2, AppendAt
<1>4. /\ M \in [Holders -> Seq(Packet)] /\ M[h] = a
      /\ \A k \in Holders : k # h => M[k] = L[k]
  BY <1>1, <1>2, <1>3
<1>5. /\ \A i \in DOMAIN s : i \in DOMAIN a /\ a[i] = s[i]
      /\ \A i \in DOMAIN a : \/ i \in DOMAIN s /\ a[i] = s[i]
                             \/ i = Len(s) + 1 /\ a[i] = m
      /\ Len(s) + 1 \in DOMAIN a
  BY <1>3
<1> HIDE DEF M
<1>6. \A k \in Holders : \A i \in DOMAIN L[k] :
        i \in DOMAIN M[k] /\ M[k][i] = L[k][i]
  BY <1>1, <1>4, <1>5
<1>7. \A k \in Holders : \A i \in DOMAIN M[k] :
        \/ i \in DOMAIN L[k] /\ M[k][i] = L[k][i]
        \/ k = h /\ i = Len(L[h]) + 1 /\ M[k][i] = m
  BY <1>1, <1>4, <1>5
<1>8. /\ Len(M[h]) = Len(L[h]) + 1 /\ Len(L[h]) \in Nat
      /\ Len(L[h]) + 1 \in DOMAIN M[h] /\ M[h][Len(L[h]) + 1] = m
  BY <1>1, <1>3, <1>4, <1>5
<1> QED BY <1>4, <1>6, <1>7, <1>8 DEF M

(* The first of what h holds is removed.                                    *)
LEMMA TailPlaces ==
  ASSUME NEW L \in [Holders -> Seq(Packet)], NEW h \in Holders, L[h] # <<>>
  PROVE  LET M == [L EXCEPT ![h] = Tail(@)]
             P(k, i) == IF k = h THEN i + 1 ELSE i
         IN  /\ M \in [Holders -> Seq(Packet)]
             /\ Len(L[h]) \in Nat \ {0} /\ Len(M[h]) = Len(L[h]) - 1
             /\ 1 \in DOMAIN L[h] /\ Head(L[h]) = L[h][1] /\ L[h][1] \in Packet
             /\ \A k \in Holders : k # h => M[k] = L[k]
             /\ \A k \in Holders : \A i \in DOMAIN M[k] :
                  /\ i \in Nat \ {0} /\ P(k, i) \in DOMAIN L[k]
                  /\ M[k][i] = L[k][P(k, i)]
             /\ \A k \in Holders : \A j \in DOMAIN L[k] :
                  \/ k = h /\ j = 1
                  \/ \E i \in DOMAIN M[k] : j = P(k, i) /\ M[k][i] = L[k][j]
<1> DEFINE M == [L EXCEPT ![h] = Tail(@)]
           P(k, i) == IF k = h THEN i + 1 ELSE i
<1>1. PICK s \in Seq(Packet) : s = L[h]
  OBVIOUS
<1>2. PICK a : a = Tail(s)
  OBVIOUS
<1>3. /\ a \in Seq(Packet) /\ Head(s) = s[1] /\ s[1] \in Packet
      /\ Len(s) \in Nat \ {0} /\ DOMAIN s = 1 .. Len(s)
      /\ Len(a) = Len(s) - 1 /\ DOMAIN a = 1 .. Len(s) - 1
      /\ \A n \in DOMAIN a : n + 1 \in DOMAIN s /\ a[n] = s[n + 1]
  BY <1>1, <1>2, TailAt
<1>4. /\ M \in [Holders -> Seq(Packet)] /\ M[h] = a
      /\ \A k \in Holders : k # h => M[k] = L[k]
  BY <1>1, <1>2, <1>3
<1>5. \A j \in DOMAIN s : j = 1 \/ (j - 1 \in DOMAIN a /\ j = (j - 1) + 1
                                    /\ a[j - 1] = s[j])
  <2>1. ASSUME NEW j \in DOMAIN s, j # 1
        PROVE  j - 1 \in DOMAIN a /\ j = (j - 1) + 1
    BY <1>3, <2>1
  <2> QED BY <1>3, <2>1
<1>6. 1 \in DOMAIN s /\ \A i \in DOMAIN a : i \in Nat \ {0}
  BY <1>3
<1>7. \A k \in Holders : \A i \in DOMAIN L[k] : i \in Nat \ {0}
  BY LenProperties
<1> HIDE DEF M
<1>8. ASSUME NEW k \in Holders, NEW i \in DOMAIN M[k]
      PROVE  /\ i \in Nat \ {0} /\ P(k, i) \in DOMAIN L[k]
             /\ M[k][i] = L[k][P(k, i)]
  BY <1>1, <1>3, <1>4, <1>6, <1>7
<1>9. ASSUME NEW k \in Holders, NEW j \in DOMAIN L[k], ~(k = h /\ j = 1)
      PROVE  \E i \in DOMAIN M[k] : j = P(k, i) /\ M[k][i] = L[k][j]
  <2>1. CASE k = h
    <3>1. j - 1 \in DOMAIN M[k] /\ j = P(k, j - 1) /\ M[k][j - 1] = L[k][j]
      BY <1>1, <1>4, <1>5, <1>9, <2>1
    <3> QED BY <3>1
  <2>2. CASE k # h
    BY <1>4, <2>2
  <2> QED BY <2>1, <2>2
<1>10. /\ Len(L[h]) \in Nat \ {0} /\ Len(M[h]) = Len(L[h]) - 1
       /\ 1 \in DOMAIN L[h] /\ Head(L[h]) = L[h][1] /\ L[h][1] \in Packet
  BY <1>1, <1>3, <1>4, <1>6
<1> QED BY <1>4, <1>8, <1>9, <1>10 DEF M

(* A new call: to h, for task m.task, with its function if it has an id.    *)
LEMMA NewCall ==
  ASSUME NEW L, NEW D, NEW F, NEW E, NEW R, NEW S, NEW K, NEW F2,
         HoldersOK(L, D, F, E, R, S, K),
         NEW h \in Holders, NEW m \in Message, D[h] = 0 \/ h # 0,
         m.task \in Tasks \ S,
         \/ /\ m.id = 0 /\ m.task \in NoticeTasks /\ ~m.answer_required
            /\ F2 = F
         \/ /\ m.id # 0 /\ m.task \in ChainTasks /\ m.answer_required
            /\ m.id \notin DOMAIN F /\ DOMAIN F2 = DOMAIN F \union {m.id}
            /\ F2[m.id] = m.task /\ \A id \in DOMAIN F : F2[id] = F[id]
  PROVE  HoldersOK([L EXCEPT ![h] = Append(@, m)], D, F2, E, R,
                   S \union {m.task}, K)
<1> DEFINE M == [L EXCEPT ![h] = Append(@, m)]
           T == S \union {m.task}
<1>1. /\ LinesTyped(L, D) /\ ItemsOK(L, D, F, E, R, S, K) /\ TaskOnce(L)
      /\ IdsHeld(L, F) /\ NothingLost(L, E, R, S) /\ Untouched(E, R, S)
  BY DEF HoldersOK
<1>2. m \in Packet
  BY MessageFacts
<1>3. /\ M \in [Holders -> Seq(Packet)]
      /\ Len(M[h]) = Len(L[h]) + 1 /\ Len(L[h]) \in Nat
      /\ \A k \in Holders : k # h => M[k] = L[k]
      /\ \A k \in Holders : \A i \in DOMAIN L[k] :
           i \in DOMAIN M[k] /\ M[k][i] = L[k][i]
      /\ \A k \in Holders : \A i \in DOMAIN M[k] :
           \/ i \in DOMAIN L[k] /\ M[k][i] = L[k][i]
           \/ k = h /\ i = Len(L[h]) + 1 /\ M[k][i] = m
      /\ Len(L[h]) + 1 \in DOMAIN M[h] /\ M[h][Len(L[h]) + 1] = m
  BY <1>1, <1>2, AppendPlaces DEF LinesTyped
<1> HIDE DEF M
<1>4. LinesTyped(M, D)
  <2>1. \A k \in Holders : D[k] <= Len(M[k])
    <3>1. D \in [Holders -> Nat] /\ \A k \in Holders : D[k] <= Len(L[k])
      BY <1>1 DEF LinesTyped
    <3>2. D[h] \in Nat /\ D[h] <= Len(L[h]) + 1
      BY <1>3, <3>1
    <3> QED BY <1>3, <3>1, <3>2
  <2> QED BY <1>1, <1>3, <2>1 DEF LinesTyped
<1>5. \A k \in Holders : \A i \in DOMAIN L[k] :
        L[k][i].task \in Tasks => L[k][i].task \in S
  BY <1>1, TaskFacts, MessageFacts DEF ItemsOK, ItemOK, CallOK
<1>6. ItemsOK(M, D, F2, E, R, T, K)
  <2> SUFFICES ASSUME NEW k \in Holders, NEW i \in DOMAIN M[k]
               PROVE  ItemOK(k, M[k][i], i <= D[k], F2, E, R, T, K)
    BY DEF ItemsOK
  <2>1. CASE i \in DOMAIN L[k] /\ M[k][i] = L[k][i]
    <3>1. ItemOK(k, L[k][i], i <= D[k], F, E, R, S, K)
      BY <1>1, <2>1 DEF ItemsOK
    <3>2. CASE CallOK(k, L[k][i], i <= D[k], F, E, R, S)
      <4>1. CallOK(k, L[k][i], i <= D[k], F2, E, R, T)
        BY <3>2 DEF CallOK
      <4> QED BY <2>1, <4>1 DEF ItemOK
    <3> QED BY <2>1, <3>1, <3>2 DEF ItemOK
  <2>2. CASE k = h /\ i = Len(L[h]) + 1 /\ M[k][i] = m
    <3>1. ~(i <= D[k])
      BY <1>1, <1>3, <2>2 DEF LinesTyped
    <3>2. E[m.task] = 0 /\ R[m.task] = <<>>
      BY <1>1 DEF Untouched
    <3>3. CallOK(k, m, i <= D[k], F2, E, R, T)
      BY <3>1, <3>2 DEF CallOK
    <3> QED BY <2>2, <3>3 DEF ItemOK
  <2> QED BY <1>3, <2>1, <2>2
<1>7. TaskOnce(M)
  <2> SUFFICES ASSUME NEW k \in Holders, NEW l \in Holders,
                      NEW i \in DOMAIN M[k], NEW j \in DOMAIN M[l],
                      M[k][i].task \in Tasks, M[l][j].task = M[k][i].task
               PROVE  k = l /\ i = j
    BY DEF TaskOnce
  <2>1. CASE i \in DOMAIN L[k] /\ j \in DOMAIN L[l]
    BY <1>1, <1>3, <2>1 DEF TaskOnce
  <2>2. CASE i \notin DOMAIN L[k] \/ j \notin DOMAIN L[l]
    BY <1>3, <1>5, <2>2
  <2> QED BY <2>1, <2>2
<1>8. IdsHeld(M, F2)
  <2> SUFFICES ASSUME NEW id \in DOMAIN F2
               PROVE  \E k \in Holders : \E i \in DOMAIN M[k] : M[k][i].id = id
    BY DEF IdsHeld
  <2>1. CASE id \in DOMAIN F
    <3>1. PICK k \in Holders : \E i \in DOMAIN L[k] : L[k][i].id = id
      BY <1>1, <2>1 DEF IdsHeld
    <3> QED BY <1>3, <3>1
  <2>2. CASE id = m.id
    BY <1>3, <2>2
  <2> QED BY <2>1, <2>2
<1>9. NothingLost(M, E, R, T)
  <2>1. \A t \in S : Held(L, t) => Held(M, t)
    BY <1>3 DEF Held
  <2>2. Held(M, m.task)
    BY <1>3 DEF Held
  <2> QED BY <1>1, <2>1, <2>2 DEF NothingLost
<1>10. Untouched(E, R, T)
  BY <1>1 DEF Untouched
<1> QED BY <1>4, <1>6, <1>7, <1>8, <1>9, <1>10 DEF HoldersOK, M

(* stop_running is sent to worker h.                                        *)
LEMMA NewStop ==
  ASSUME NEW L, NEW D, NEW F, NEW E, NEW R, NEW S, NEW K, NEW K2,
         HoldersOK(L, D, F, E, R, S, K),
         NEW h \in Holders, h \in K2, K \subseteq K2
  PROVE  HoldersOK([L EXCEPT ![h] = Append(@, StopMessage)], D, F, E, R, S, K2)
<1> DEFINE M == [L EXCEPT ![h] = Append(@, StopMessage)]
<1>1. /\ LinesTyped(L, D) /\ ItemsOK(L, D, F, E, R, S, K) /\ TaskOnce(L)
      /\ IdsHeld(L, F) /\ NothingLost(L, E, R, S) /\ Untouched(E, R, S)
  BY DEF HoldersOK
<1>2. StopMessage \in Packet /\ StopMessage.task \notin Tasks
  BY MessageFacts, TaskFacts
<1>3. /\ M \in [Holders -> Seq(Packet)]
      /\ Len(M[h]) = Len(L[h]) + 1 /\ Len(L[h]) \in Nat
      /\ \A k \in Holders : k # h => M[k] = L[k]
      /\ \A k \in Holders : \A i \in DOMAIN L[k] :
           i \in DOMAIN M[k] /\ M[k][i] = L[k][i]
      /\ \A k \in Holders : \A i \in DOMAIN M[k] :
           \/ i \in DOMAIN L[k] /\ M[k][i] = L[k][i]
           \/ k = h /\ i = Len(L[h]) + 1 /\ M[k][i] = StopMessage
  BY <1>1, <1>2, AppendPlaces DEF LinesTyped
<1> HIDE DEF M
<1>4. D \in [Holders -> Nat] /\ \A k \in Holders : D[k] <= Len(L[k])
  BY <1>1 DEF LinesTyped
<1>5. D[h] \in Nat /\ D[h] <= Len(L[h]) + 1 /\ ~(Len(L[h]) + 1 <= D[h])
  BY <1>3, <1>4
<1>6. LinesTyped(M, D)
  <2>1. \A k \in Holders : D[k] <= Len(M[k])
    BY <1>3, <1>4, <1>5
  <2> QED BY <1>3, <1>4, <2>1 DEF LinesTyped
<1>7. ItemsOK(M, D, F, E, R, S, K2)
  <2> SUFFICES ASSUME NEW k \in Holders, NEW i \in DOMAIN M[k]
               PROVE  ItemOK(k, M[k][i], i <= D[k], F, E, R, S, K2)
    BY DEF ItemsOK
  <2>1. CASE i \in DOMAIN L[k] /\ M[k][i] = L[k][i]
    <3>1. ItemOK(k, L[k][i], i <= D[k], F, E, R, S, K)
      BY <1>1, <2>1 DEF ItemsOK
    <3> QED BY <2>1, <3>1 DEF ItemOK
  <2>2. CASE k = h /\ i = Len(L[h]) + 1 /\ M[k][i] = StopMessage
    BY <1>5, <2>2 DEF ItemOK
  <2> QED BY <1>3, <2>1, <2>2
<1>8. TaskOnce(M)
  BY <1>1, <1>2, <1>3 DEF TaskOnce
<1>9. IdsHeld(M, F)
  BY <1>1, <1>3 DEF IdsHeld
<1>10. NothingLost(M, E, R, S)
  BY <1>1, <1>3 DEF NothingLost, Held
<1> QED BY <1>1, <1>6, <1>7, <1>8, <1>9, <1>10 DEF HoldersOK, M

(* The first call of the queue goes to worker h.                            *)
LEMMA MoveCall ==
  ASSUME NEW L, NEW D, NEW F, NEW E, NEW R, NEW S, NEW K,
         HoldersOK(L, D, F, E, R, S, K),
         NEW h \in Holders, h # 0, 0 \notin K, D[0] = 0, L[0] # <<>>
  PROVE  HoldersOK([[L EXCEPT ![0] = Tail(@)]
                     EXCEPT ![h] = Append(@, Head(L[0]))], D, F, E, R, S, K)
<1> DEFINE N == [L EXCEPT ![0] = Tail(@)]
           m == L[0][1]
           M == [N EXCEPT ![h] = Append(@, m)]
           P(k, i) == IF k = 0 THEN i + 1 ELSE i
<1>1. /\ LinesTyped(L, D) /\ ItemsOK(L, D, F, E, R, S, K) /\ TaskOnce(L)
      /\ IdsHeld(L, F) /\ NothingLost(L, E, R, S) /\ Untouched(E, R, S)
  BY DEF HoldersOK
<1>2. 0 \in Holders
  BY DEF Holders
<1>3. /\ N \in [Holders -> Seq(Packet)] /\ Head(L[0]) = m /\ m \in Packet
      /\ 1 \in DOMAIN L[0]
      /\ \A k \in Holders : k # 0 => N[k] = L[k]
      /\ \A k \in Holders : \A i \in DOMAIN N[k] :
           /\ i \in Nat \ {0} /\ P(k, i) \in DOMAIN L[k]
           /\ N[k][i] = L[k][P(k, i)]
      /\ \A k \in Holders : \A j \in DOMAIN L[k] :
           \/ k = 0 /\ j = 1
           \/ \E i \in DOMAIN N[k] : j = P(k, i) /\ N[k][i] = L[k][j]
  BY <1>1, <1>2, TailPlaces, SMTT(40) DEF LinesTyped
<1> HIDE DEF N, m
<1>4. /\ M \in [Holders -> Seq(Packet)]
      /\ Len(M[h]) = Len(N[h]) + 1 /\ Len(N[h]) \in Nat
      /\ \A k \in Holders : k # h => M[k] = N[k]
      /\ \A k \in Holders : \A i \in DOMAIN N[k] :
           i \in DOMAIN M[k] /\ M[k][i] = N[k][i]
      /\ \A k \in Holders : \A i \in DOMAIN M[k] :
           \/ i \in DOMAIN N[k] /\ M[k][i] = N[k][i]
           \/ k = h /\ i = Len(N[h]) + 1 /\ M[k][i] = m
      /\ Len(N[h]) + 1 \in DOMAIN M[h] /\ M[h][Len(N[h]) + 1] = m
  BY <1>3, AppendPlaces
<1> HIDE DEF M
<1>5. \A k \in Holders : \A i \in DOMAIN M[k] :
        \/ /\ i \in Nat \ {0} /\ P(k, i) \in DOMAIN L[k]
           /\ M[k][i] = L[k][P(k, i)]
        \/ k = h /\ i = Len(L[h]) + 1 /\ M[k][i] = m
  BY <1>3, <1>4
<1>6. \A k \in Holders : \A j \in DOMAIN L[k] :
        \E l \in Holders : \E i \in DOMAIN M[l] : M[l][i] = L[k][j]
  <2> SUFFICES ASSUME NEW k \in Holders, NEW j \in DOMAIN L[k]
               PROVE  \E l \in Holders : \E i \in DOMAIN M[l] : M[l][i] = L[k][j]
    OBVIOUS
  <2>1. CASE k = 0 /\ j = 1
    <3>1. L[k][j] = m
      BY <2>1 DEF m
    <3> QED BY <1>4, <3>1
  <2>2. CASE ~(k = 0 /\ j = 1)
    <3>1. PICK i \in DOMAIN N[k] : N[k][i] = L[k][j]
      BY <1>3, <2>2
    <3> QED BY <1>4, <3>1
  <2> QED BY <2>1, <2>2
<1>7. D \in [Holders -> Nat] /\ \A k \in Holders : D[k] <= Len(L[k])
  BY <1>1 DEF LinesTyped
<1>8. LinesTyped(M, D)
  <2>1. D[h] \in Nat /\ D[h] <= Len(N[h]) + 1
    BY <1>3, <1>4, <1>7
  <2>2. ASSUME NEW k \in Holders PROVE D[k] <= Len(M[k])
    <3>1. CASE k = 0
      <4>1. Len(M[k]) \in Nat
        BY <1>4, LenProperties
      <4> QED BY <3>1, <4>1
    <3>2. CASE k = h
      BY <1>4, <2>1, <3>2
    <3> QED BY <1>3, <1>4, <1>7, <3>1, <3>2
  <2> QED BY <1>4, <1>7, <2>2 DEF LinesTyped
<1>9. CallOK(0, m, FALSE, F, E, R, S)
  <2>1. ItemOK(0, m, 1 <= D[0], F, E, R, S, K)
    BY <1>1, <1>2, <1>3 DEF ItemsOK, m
  <2>2. (1 <= D[0]) = FALSE
    OBVIOUS
  <2> QED BY <2>1, <2>2 DEF ItemOK
<1>10. ItemsOK(M, D, F, E, R, S, K)
  <2> SUFFICES ASSUME NEW k \in Holders, NEW i \in DOMAIN M[k]
               PROVE  ItemOK(k, M[k][i], i <= D[k], F, E, R, S, K)
    BY DEF ItemsOK
  <2>1. CASE /\ i \in Nat \ {0} /\ P(k, i) \in DOMAIN L[k]
             /\ M[k][i] = L[k][P(k, i)]
    <3>1. ItemOK(k, M[k][i], P(k, i) <= D[k], F, E, R, S, K)
      BY <1>1, <2>1 DEF ItemsOK
    <3>2. (P(k, i) <= D[k]) = (i <= D[k])
      BY <2>1
    <3> QED BY <3>1, <3>2
  <2>2. CASE k = h /\ i = Len(L[h]) + 1 /\ M[k][i] = m
    <3>1. (i <= D[k]) = FALSE
      BY <1>3, <1>4, <1>7, <2>2
    <3>2. CallOK(k, m, FALSE, F, E, R, S)
      BY <1>9 DEF CallOK
    <3> QED BY <2>2, <3>1, <3>2 DEF ItemOK
  <2> QED BY <1>5, <2>1, <2>2
<1>11. TaskOnce(M)
  <2> SUFFICES ASSUME NEW k \in Holders, NEW l \in Holders,
                      NEW i \in DOMAIN M[k], NEW j \in DOMAIN M[l],
                      M[k][i].task \in Tasks, M[l][j].task = M[k][i].task
               PROVE  k = l /\ i = j
    BY DEF TaskOnce
  <2>1. m = L[0][1]
    BY DEF m
  <2>2. CASE /\ i \in Nat \ {0} /\ P(k, i) \in DOMAIN L[k]
             /\ M[k][i] = L[k][P(k, i)]
             /\ j \in Nat \ {0} /\ P(l, j) \in DOMAIN L[l]
             /\ M[l][j] = L[l][P(l, j)]
    <3>1. k = l /\ P(k, i) = P(l, j)
      BY <1>1, <2>2 DEF TaskOnce
    <3> QED BY <2>2, <3>1
  <2>3. CASE /\ i \in Nat \ {0} /\ P(k, i) \in DOMAIN L[k]
             /\ M[k][i] = L[k][P(k, i)] /\ M[l][j] = m
    <3>1. k = 0 /\ P(k, i) = 1
      BY <1>1, <1>2, <1>3, <2>1, <2>3 DEF TaskOnce
    <3> QED BY <2>3, <3>1
  <2>4. CASE /\ j \in Nat \ {0} /\ P(l, j) \in DOMAIN L[l]
             /\ M[l][j] = L[l][P(l, j)] /\ M[k][i] = m
    <3>1. l = 0 /\ P(l, j) = 1
      BY <1>1, <1>2, <1>3, <2>1, <2>4, SMTT(40) DEF TaskOnce
    <3> QED BY <2>4, <3>1
  <2> QED BY <1>5, <2>2, <2>3, <2>4
<1>12. IdsHeld(M, F)
  BY <1>1, <1>6 DEF IdsHeld
<1>13. NothingLost(M, E, R, S)
  BY <1>1, <1>6 DEF NothingLost, Held
<1>14. HoldersOK(M, D, F, E, R, S, K)
  BY <1>1, <1>8, <1>10, <1>11, <1>12, <1>13 DEF HoldersOK
<1> QED BY <1>3, <1>14 DEF M, N

(* The call that is executed next, at holder h, and what becomes of it.     *)
Executed(E, m) == IF m.task = StopCall THEN E ELSE [E EXCEPT ![m.task] = @ + 1]
Replied(m) == IF m.answer_required THEN Answer(m) ELSE Ping

ExecutionCounts(h, m, F, E, R, S) ==
  /\ \/ m = StopMessage /\ h # 0 /\ Executed(E, m) = E
     \/ /\ CallOK(h, m, FALSE, F, E, R, S)
        /\ m.task \in S /\ m.task \in Tasks /\ m.task # StopCall
        /\ Executed(E, m)[m.task] = 1
  /\ Executed(E, m) \in [Tasks -> Nat]
  /\ \A t \in Tasks : t # m.task => Executed(E, m)[t] = E[t]

LEMMA ExecutedCounts ==
  ASSUME NEW L, NEW D, NEW F, NEW E, NEW R, NEW S, NEW K,
         HoldersOK(L, D, F, E, R, S, K), E \in [Tasks -> Nat],
         NEW h \in Holders, D[h] + 1 \in DOMAIN L[h], 0 \notin K,
         NEW m, m = L[h][D[h] + 1]
  PROVE  ExecutionCounts(h, m, F, E, R, S)
<1>1. ItemOK(h, m, D[h] + 1 <= D[h], F, E, R, S, K) /\ D[h] \in Nat
  BY DEF HoldersOK, ItemsOK, LinesTyped
<1>2. (D[h] + 1 <= D[h]) = FALSE
  BY <1>1
<1>3. \/ m = StopMessage /\ h \in K
      \/ CallOK(h, m, FALSE, F, E, R, S)
  BY <1>1, <1>2 DEF ItemOK
<1>4. CASE m = StopMessage /\ h \in K
  <2>1. m.task = StopCall
    BY <1>4, MessageFacts
  <2> QED BY <1>4, <2>1 DEF Executed, ExecutionCounts
<1>5. CASE CallOK(h, m, FALSE, F, E, R, S)
  <2>1. m.task \in S /\ E[m.task] = 0
    BY <1>5 DEF CallOK
  <2>2. m.task \in Tasks /\ m.task # StopCall
    BY <2>1, TaskFacts DEF HoldersOK, Untouched
  <2>3. Executed(E, m) = [E EXCEPT ![m.task] = 1]
    BY <2>1, <2>2 DEF Executed
  <2>4. /\ Executed(E, m)[m.task] = 1 /\ Executed(E, m) \in [Tasks -> Nat]
        /\ \A t \in Tasks : t # m.task => Executed(E, m)[t] = E[t]
    BY <2>2, <2>3
  <2> QED BY <1>5, <2>1, <2>2, <2>3, <2>4 DEF ExecutionCounts
<1> QED BY <1>3, <1>4, <1>5

(* A worker executes: the call becomes the answer, or the ping.             *)
LEMMA ExecuteAway ==
  ASSUME NEW L, NEW D, NEW F, NEW E, NEW R, NEW S, NEW K,
         HoldersOK(L, D, F, E, R, S, K), E \in [Tasks -> Nat],
         NEW h \in Holders, h # 0, 0 \notin K, D[h] + 1 \in DOMAIN L[h],
         L[h][D[h] + 1] \in Message
  PROVE  LET m == L[h][D[h] + 1]
         IN  HoldersOK([L EXCEPT ![h] = [@ EXCEPT ![D[h] + 1] = Replied(m)]],
                       [D EXCEPT ![h] = @ + 1], F, Executed(E, m), R, S, K)
<1> DEFINE m == L[h][D[h] + 1]
           x == Replied(m)
           G == Executed(E, m)
           M == [L EXCEPT ![h] = [@ EXCEPT ![D[h] + 1] = x]]
           C == [D EXCEPT ![h] = @ + 1]
<1>1. /\ LinesTyped(L, D) /\ ItemsOK(L, D, F, E, R, S, K) /\ TaskOnce(L)
      /\ IdsHeld(L, F) /\ NothingLost(L, E, R, S) /\ Untouched(E, R, S)
  BY DEF HoldersOK
<1>2. L \in [Holders -> Seq(Packet)] /\ D \in [Holders -> Nat]
      /\ \A k \in Holders : D[k] <= Len(L[k])
  BY <1>1 DEF LinesTyped
<1> HIDE DEF m
<1>0. ExecutionCounts(h, m, F, E, R, S)
  <2>1. m = L[h][D[h] + 1]
    BY DEF m
  <2> QED BY <2>1, ExecutedCounts
<1>3. /\ \/ m = StopMessage /\ h # 0 /\ G = E
         \/ /\ CallOK(h, m, FALSE, F, E, R, S)
            /\ m.task \in S /\ m.task \in Tasks /\ m.task # StopCall
            /\ G[m.task] = 1
      /\ G \in [Tasks -> Nat]
      /\ \A t \in Tasks : t # m.task => G[t] = E[t]
  BY <1>0 DEF ExecutionCounts
<1>4. /\ m.id \in Nat /\ m.answer_required \in BOOLEAN
      /\ m.task \in Tasks \union {StopCall}
  <2>1. m \in Message
    BY DEF m
  <2> QED BY <2>1, MessageFacts
<1>5. /\ x \in Packet
      /\ m.answer_required => x.id = m.id /\ x.task = m.task
                              /\ x.answer_required = FALSE /\ x # Ping
      /\ ~m.answer_required => x = Ping
  <2>1. CASE m.answer_required
    <3>1. /\ Answer(m).id = m.id /\ Answer(m).task = m.task
          /\ Answer(m).answer_required = FALSE /\ Answer(m) \in Message
      BY <1>4, MessageFacts DEF Answer
    <3> QED BY <2>1, <3>1, MessageFacts DEF Replied, Packet
  <2>2. CASE ~m.answer_required
    BY <2>2 DEF Replied, Packet
  <2> QED BY <2>1, <2>2
<1>6. PICK s \in Seq(Packet) : s = L[h]
  BY <1>2
<1>7. PICK n \in 1 .. Len(s) : n = D[h] + 1 /\ s[n] = m
  <2>1. D[h] + 1 \in 1 .. Len(s)
    BY <1>6, LenProperties
  <2>2. s[D[h] + 1] = m
    BY <1>6 DEF m
  <2> QED BY <2>1, <2>2
<1>8. PICK a \in Seq(Packet) : a = [s EXCEPT ![n] = x]
  BY <1>5, ExceptSeq
<1>9. /\ Len(a) = Len(s) /\ DOMAIN a = DOMAIN s /\ a[n] = x /\ n \in DOMAIN s
      /\ \A i \in DOMAIN s : i # n => a[i] = s[i]
  <2>1. /\ Len(a) = Len(s) /\ a[n] = x
        /\ \A i \in 1 .. Len(s) : i # n => a[i] = s[i]
    BY <1>5, <1>8, ExceptSeq
  <2>2. DOMAIN s = 1 .. Len(s) /\ DOMAIN a = 1 .. Len(a)
    BY LenProperties
  <2> QED BY <2>1, <2>2
<1>10. /\ M \in [Holders -> Seq(Packet)] /\ M[h] = a
       /\ \A k \in Holders : k # h => M[k] = L[k]
  BY <1>2, <1>6, <1>7, <1>8
<1>11. /\ C \in [Holders -> Nat] /\ C[h] = n
       /\ \A k \in Holders : k # h => C[k] = D[k]
  BY <1>2, <1>7
<1> HIDE DEF M, C, x, G, m
<1>12. /\ \A k \in Holders : DOMAIN M[k] = DOMAIN L[k]
       /\ \A k \in Holders : \A i \in DOMAIN L[k] :
            k # h \/ i # n => /\ M[k][i] = L[k][i]
                              /\ (i <= C[k]) = (i <= D[k])
       /\ n \in DOMAIN L[h] /\ M[h][n] = x /\ L[h][n] = m /\ n <= C[h]
  <2>1. n \in Int /\ D[h] \in Nat
    BY <1>2
  <2>2. ASSUME NEW i \in DOMAIN L[h], i # n PROVE (i <= n) = (i <= D[h])
    <3>1. i \in Int
      BY <1>6, LenProperties
    <3> QED BY <1>7, <2>1, <2>2, <3>1
  <2>3. \A k \in Holders : DOMAIN M[k] = DOMAIN L[k]
    BY <1>6, <1>9, <1>10
  <2>4. ASSUME NEW k \in Holders, NEW i \in DOMAIN L[k], k # h \/ i # n
        PROVE  M[k][i] = L[k][i] /\ (i <= C[k]) = (i <= D[k])
    <3>1. CASE k = h
      BY <1>6, <1>9, <1>10, <1>11, <2>2, <2>4, <3>1
    <3>2. CASE k # h
      BY <1>10, <1>11, <3>2
    <3> QED BY <3>1, <3>2
  <2>5. n \in DOMAIN L[h] /\ M[h][n] = x /\ L[h][n] = m /\ n <= C[h]
    BY <1>6, <1>7, <1>9, <1>10, <1>11, <2>1
  <2> QED BY <2>3, <2>4, <2>5
<1>13. LinesTyped(M, C)
  <2>1. \A k \in Holders : C[k] <= Len(M[k])
    <3>1. C[h] <= Len(M[h])
      BY <1>6, <1>7, <1>9, <1>10, <1>11
    <3> QED BY <1>2, <1>10, <1>11, <3>1
  <2> QED BY <1>10, <1>11, <2>1 DEF LinesTyped
<1>14. ItemsOK(M, C, F, G, R, S, K)
  <2> SUFFICES ASSUME NEW k \in Holders, NEW i \in DOMAIN M[k]
               PROVE  ItemOK(k, M[k][i], i <= C[k], F, G, R, S, K)
    BY DEF ItemsOK
  <2>1. i \in DOMAIN L[k]
    BY <1>12
  <2>2. CASE k # h \/ i # n
    <3>1. M[k][i] = L[k][i] /\ (i <= C[k]) = (i <= D[k])
      BY <1>12, <2>1, <2>2
    <3>2. ItemOK(k, L[k][i], i <= D[k], F, E, R, S, K)
      BY <1>1, <2>1 DEF ItemsOK
    <3>3. CASE CallOK(k, L[k][i], i <= D[k], F, E, R, S)
      <4>1. L[k][i].task \in S /\ L[k][i].task \in Tasks
        BY <1>1, <3>3 DEF CallOK, Untouched
      <4>2. L[k][i].task # m.task
        BY <1>1, <1>12, <2>1, <2>2, <4>1 DEF TaskOnce
      <4>3. G[L[k][i].task] = E[L[k][i].task]
        BY <1>3, <4>1, <4>2
      <4>4. CallOK(k, L[k][i], i <= D[k], F, G, R, S)
        BY <3>3, <4>3 DEF CallOK
      <4> QED BY <3>1, <4>4 DEF ItemOK
    <3> QED BY <3>1, <3>2, <3>3 DEF ItemOK
  <2>3. CASE k = h /\ i = n
    <3>1. M[k][i] = x /\ (i <= C[k]) = TRUE
      BY <1>12, <2>3
    <3>2. CASE ~m.answer_required
      BY <1>5, <2>3, <3>1, <3>2 DEF ItemOK
    <3>3. CASE m.answer_required
      <4>1. CallOK(h, m, FALSE, F, E, R, S) /\ G[m.task] = 1
        BY <1>3, <3>3, MessageFacts
      <4>2. CallOK(h, x, TRUE, F, G, R, S)
        BY <1>5, <3>3, <4>1 DEF CallOK
      <4> QED BY <2>3, <3>1, <4>2 DEF ItemOK
    <3> QED BY <1>4, <3>2, <3>3
  <2> QED BY <2>2, <2>3
<1>15. \A k \in Holders : \A i \in DOMAIN M[k] :
         M[k][i].task \in Tasks => M[k][i].task = L[k][i].task
  BY <1>4, <1>5, <1>12, TaskFacts, ZenonT(40)
<1>16. TaskOnce(M)
  BY <1>1, <1>12, <1>15, SMTT(40) DEF TaskOnce
<1>17. IdsHeld(M, F)
  <2> SUFFICES ASSUME NEW id \in DOMAIN F
               PROVE  \E k \in Holders : \E i \in DOMAIN M[k] : M[k][i].id = id
    BY DEF IdsHeld
  <2>1. PICK k \in Holders : \E i \in DOMAIN L[k] : L[k][i].id = id
    BY <1>1 DEF IdsHeld
  <2>2. PICK i \in DOMAIN L[k] : L[k][i].id = id
    BY <2>1
  <2>3. M[k][i].id = id
    <3>1. CASE k # h \/ i # n
      BY <1>12, <2>2, <3>1
    <3>2. CASE k = h /\ i = n
      <4>1. L[k][i] = m /\ M[k][i] = x
        BY <1>12, <3>2
      <4>2. CASE m.answer_required
        BY <1>5, <2>2, <4>1, <4>2
      <4>3. CASE ~m.answer_required
        <5>1. m.id = 0 /\ x.id = 0
          BY <1>3, <1>5, <4>3, MessageFacts DEF CallOK
        <5> QED BY <2>2, <4>1, <5>1
      <4> QED BY <1>4, <4>2, <4>3
    <3> QED BY <3>1, <3>2
  <2> QED BY <1>12, <2>3
<1>18. NothingLost(M, G, R, S)
  <2> SUFFICES ASSUME NEW t \in S
               PROVE  Held(M, t) \/ Settled(t, G, R)
    BY DEF NothingLost
  <2>0. t \in Tasks
    BY <1>1 DEF Untouched
  <2>1. CASE t = m.task
    <3>1. CallOK(h, m, FALSE, F, E, R, S) /\ G[m.task] = 1
      BY <1>3, <2>0, <2>1, MessageFacts, TaskFacts
    <3>2. CASE m.answer_required
      BY <1>5, <1>12, <2>1, <3>2 DEF Held
    <3>3. CASE ~m.answer_required
      <4>1. m.task \in NoticeTasks /\ R[m.task] = <<>>
        BY <3>1, <3>3 DEF CallOK
      <4> QED BY <2>1, <3>1, <4>1 DEF Settled
    <3> QED BY <1>4, <3>2, <3>3
  <2>2. CASE t # m.task
    <3>1. G[t] = E[t]
      BY <1>3, <2>0, <2>2
    <3>2. CASE Held(L, t)
      <4>1. PICK k \in Holders : \E i \in DOMAIN L[k] : L[k][i].task = t
        BY <3>2 DEF Held
      <4>2. PICK i \in DOMAIN L[k] : L[k][i].task = t
        BY <4>1
      <4>3. k # h \/ i # n
        BY <1>12, <2>2, <4>2
      <4> QED BY <1>12, <4>2, <4>3 DEF Held
    <3>3. CASE Settled(t, E, R)
      BY <3>1, <3>3 DEF Settled
    <3> QED BY <1>1, <3>2, <3>3 DEF NothingLost
  <2> QED BY <2>1, <2>2
<1>19. Untouched(G, R, S)
  BY <1>1, <1>3, TaskFacts, MessageFacts DEF Untouched
<1>20. HoldersOK(M, C, F, G, R, S, K)
  BY <1>13, <1>14, <1>16, <1>17, <1>18, <1>19 DEF HoldersOK
<1> QED BY <1>20 DEF M, C, G, x, m

(* The first of what h holds is settled and goes: an answer whose function  *)
(* was called, a ping, or a call without answer that was executed.          *)
Removed(m, E, R, E2, R2) ==
  \/ m = Ping /\ E2 = E /\ R2 = R
  \/ /\ m # Ping /\ Settled(m.task, E2, R2)
     /\ \A t \in Tasks : t # m.task => E2[t] = E[t] /\ R2[t] = R[t]

LEMMA FirstGoes ==
  ASSUME NEW L, NEW D, NEW F, NEW E, NEW R, NEW S, NEW K,
         NEW C, NEW F2, NEW E2, NEW R2,
         HoldersOK(L, D, F, E, R, S, K),
         NEW h \in Holders, L[h] # <<>>, NEW m, m = L[h][1],
         m # StopMessage,
         C = [D EXCEPT ![h] = IF D[h] = 0 THEN 0 ELSE D[h] - 1],
         DOMAIN F2 = DOMAIN F \ {m.id},
         \A id \in DOMAIN F2 : F2[id] = F[id],
         Removed(m, E, R, E2, R2)
  PROVE  HoldersOK([L EXCEPT ![h] = Tail(@)], C, F2, E2, R2, S, K)
<1> DEFINE M == [L EXCEPT ![h] = Tail(@)]
           P(k, i) == IF k = h THEN i + 1 ELSE i
<1>1. /\ LinesTyped(L, D) /\ ItemsOK(L, D, F, E, R, S, K) /\ TaskOnce(L)
      /\ IdsHeld(L, F) /\ NothingLost(L, E, R, S) /\ Untouched(E, R, S)
  BY DEF HoldersOK
<1>2. /\ L \in [Holders -> Seq(Packet)] /\ D \in [Holders -> Nat]
      /\ \A k \in Holders : D[k] <= Len(L[k])
  BY <1>1 DEF LinesTyped
<1>3. /\ M \in [Holders -> Seq(Packet)]
      /\ Len(L[h]) \in Nat \ {0} /\ Len(M[h]) = Len(L[h]) - 1
      /\ 1 \in DOMAIN L[h]
      /\ \A k \in Holders : k # h => M[k] = L[k]
      /\ \A k \in Holders : \A i \in DOMAIN M[k] :
           /\ i \in Nat \ {0} /\ P(k, i) \in DOMAIN L[k]
           /\ M[k][i] = L[k][P(k, i)]
      /\ \A k \in Holders : \A j \in DOMAIN L[k] :
           \/ k = h /\ j = 1
           \/ \E i \in DOMAIN M[k] : j = P(k, i) /\ M[k][i] = L[k][j]
  <2>1. L \in [Holders -> Seq(Packet)]
    BY <1>2
  <2> QED BY <2>1, TailPlaces
<1> HIDE DEF M
<1>4. /\ C \in [Holders -> Nat] /\ C[h] = (IF D[h] = 0 THEN 0 ELSE D[h] - 1)
      /\ \A k \in Holders : k # h => C[k] = D[k]
  BY <1>2
<1>5. LinesTyped(M, C)
  <2>1. C[h] <= Len(M[h])
    <3>1. D[h] \in Nat /\ D[h] <= Len(L[h])
      BY <1>2
    <3> QED BY <1>3, <1>4, <3>1
  <2>2. \A k \in Holders : C[k] <= Len(M[k])
    BY <1>2, <1>3, <1>4, <2>1
  <2> QED BY <1>3, <1>4, <2>2 DEF LinesTyped
<1>6. \/ m = Ping
      \/ /\ m # Ping /\ CallOK(h, m, 1 <= D[h], F, E, R, S)
         /\ m.task \in S /\ m.task \in Tasks
  <2>1. ItemOK(h, m, 1 <= D[h], F, E, R, S, K)
    BY <1>1, <1>3 DEF ItemsOK
  <2>2. CASE CallOK(h, m, 1 <= D[h], F, E, R, S)
    BY <1>1, <2>2 DEF CallOK, Untouched
  <2> QED BY <2>1, <2>2 DEF ItemOK
<1>7. ASSUME NEW k \in Holders, NEW i \in DOMAIN M[k], m # Ping,
             M[k][i].task \in Tasks
      PROVE  M[k][i].task # m.task
  <2>1. /\ i \in Nat \ {0} /\ P(k, i) \in DOMAIN L[k]
        /\ M[k][i] = L[k][P(k, i)]
    BY <1>3
  <2>2. ~(k = h /\ P(k, i) = 1)
    BY <2>1
  <2> QED BY <1>1, <1>3, <1>7, <2>1, <2>2 DEF TaskOnce
<1>8. \A t \in Tasks : m = Ping \/ t # m.task => E2[t] = E[t] /\ R2[t] = R[t]
  BY DEF Removed
<1>9. ItemsOK(M, C, F2, E2, R2, S, K)
  <2> SUFFICES ASSUME NEW k \in Holders, NEW i \in DOMAIN M[k]
               PROVE  ItemOK(k, M[k][i], i <= C[k], F2, E2, R2, S, K)
    BY DEF ItemsOK
  <2>1. /\ i \in Nat \ {0} /\ P(k, i) \in DOMAIN L[k]
        /\ M[k][i] = L[k][P(k, i)]
    BY <1>3
  <2>2. (P(k, i) <= D[k]) = (i <= C[k])
    <3>1. D[h] \in Nat /\ C[h] \in Nat
      BY <1>2, <1>4
    <3>2. CASE k = h
      BY <1>4, <2>1, <3>1, <3>2
    <3>3. CASE k # h
      BY <1>4, <3>3
    <3> QED BY <3>2, <3>3
  <2>3. ItemOK(k, M[k][i], i <= C[k], F, E, R, S, K)
    BY <1>1, <2>1, <2>2 DEF ItemsOK
  <2>4. CASE CallOK(k, M[k][i], i <= C[k], F, E, R, S)
    <3> DEFINE q == M[k][i]
    <3> HIDE DEF q
    <3>1. /\ q.task \in S /\ R[q.task] = <<>>
          /\ E[q.task] = IF i <= C[k] THEN 1 ELSE 0
          /\ q.id = 0 => /\ q.task \in NoticeTasks /\ ~(i <= C[k])
                         /\ ~q.answer_required
          /\ q.id # 0 => /\ q.task \in ChainTasks
                         /\ q.id \in DOMAIN F /\ F[q.id] = q.task
                         /\ q.answer_required = (~(i <= C[k]) \/ k = 0)
      BY <2>4 DEF CallOK, q
    <3>2. q.task \in Tasks
      BY <1>1, <3>1 DEF Untouched
    <3>3. m # Ping => q.task # m.task
      BY <1>7, <3>2 DEF q
    <3>4. E2[q.task] = E[q.task] /\ R2[q.task] = R[q.task]
      BY <1>8, <3>2, <3>3
    <3>5. q.id # 0 => q.id \in DOMAIN F2 /\ F2[q.id] = F[q.id]
      <4>1. CASE m = Ping
        BY <3>1, <4>1, MessageFacts
      <4>2. CASE m # Ping
        <5>1. m.id # 0 => F[m.id] = m.task
          BY <1>6, <4>2 DEF CallOK
        <5> QED BY <3>1, <3>3, <4>2, <5>1
      <4> QED BY <4>1, <4>2
    <3>6. CallOK(k, q, i <= C[k], F2, E2, R2, S)
      BY <3>1, <3>4, <3>5 DEF CallOK
    <3> QED BY <3>6 DEF ItemOK, q
  <2> QED BY <2>3, <2>4 DEF ItemOK
<1>10. TaskOnce(M)
  <2> SUFFICES ASSUME NEW k \in Holders, NEW l \in Holders,
                      NEW i \in DOMAIN M[k], NEW j \in DOMAIN M[l],
                      M[k][i].task \in Tasks, M[l][j].task = M[k][i].task
               PROVE  k = l /\ i = j
    BY DEF TaskOnce
  <2>1. /\ i \in Nat \ {0} /\ P(k, i) \in DOMAIN L[k]
        /\ M[k][i] = L[k][P(k, i)]
        /\ j \in Nat \ {0} /\ P(l, j) \in DOMAIN L[l]
        /\ M[l][j] = L[l][P(l, j)]
    BY <1>3
  <2>2. k = l /\ P(k, i) = P(l, j)
    BY <1>1, <2>1 DEF TaskOnce
  <2> QED BY <2>1, <2>2
<1>11. IdsHeld(M, F2)
  <2> SUFFICES ASSUME NEW id \in DOMAIN F2
               PROVE  \E k \in Holders : \E i \in DOMAIN M[k] : M[k][i].id = id
    BY DEF IdsHeld
  <2>1. PICK k \in Holders : \E j \in DOMAIN L[k] : L[k][j].id = id
    BY <1>1 DEF IdsHeld
  <2>2. PICK j \in DOMAIN L[k] : L[k][j].id = id
    BY <2>1
  <2>3. ~(k = h /\ j = 1)
    BY <2>2
  <2> QED BY <1>3, <2>2, <2>3
<1>12. NothingLost(M, E2, R2, S)
  <2> SUFFICES ASSUME NEW t \in S PROVE Held(M, t) \/ Settled(t, E2, R2)
    BY DEF NothingLost
  <2>0. t \in Tasks
    BY <1>1 DEF Untouched
  <2>1. CASE m # Ping /\ t = m.task
    BY <2>1 DEF Removed
  <2>2. CASE m = Ping \/ t # m.task
    <3>1. CASE Held(L, t)
      <4>1. PICK k \in Holders : \E j \in DOMAIN L[k] : L[k][j].task = t
        BY <3>1 DEF Held
      <4>2. PICK j \in DOMAIN L[k] : L[k][j].task = t
        BY <4>1
      <4>3. ~(k = h /\ j = 1)
        BY <2>0, <2>2, <4>2, TaskFacts
      <4>4. \E i \in DOMAIN M[k] : M[k][i] = L[k][j]
        BY <1>3, <4>3
      <4> QED BY <4>2, <4>4 DEF Held
    <3>2. CASE Settled(t, E, R)
      BY <1>8, <2>0, <2>2, <3>2 DEF Settled
    <3> QED BY <1>1, <3>1, <3>2 DEF NothingLost
  <2> QED BY <2>1, <2>2
<1>13. Untouched(E2, R2, S)
  <2>1. \A t \in Tasks \ S : m = Ping \/ t # m.task
    BY <1>6
  <2> QED BY <1>1, <1>8, <2>1 DEF Untouched
<1>14. HoldersOK(M, C, F2, E2, R2, S, K)
  BY <1>5, <1>9, <1>10, <1>11, <1>12, <1>13 DEF HoldersOK
<1> QED BY <1>14 DEF M

(* A head alone executes a call that wants no answer: it is gone.           *)
LEMMA ExecuteNotice ==
  ASSUME NEW L, NEW D, NEW F, NEW E, NEW R, NEW S, NEW K,
         HoldersOK(L, D, F, E, R, S, K), E \in [Tasks -> Nat], 0 \notin K,
         0 \notin DOMAIN F, L[0] # <<>>, D[0] = 0,
         NEW m, m = L[0][1], ~m.answer_required
  PROVE  HoldersOK([L EXCEPT ![0] = Tail(@)], D, F, Executed(E, m), R, S, K)
<1>1. /\ 0 \in Holders /\ 1 \in DOMAIN L[0] /\ D[0] + 1 = 1
      /\ D \in [Holders -> Nat]
  BY TailPlaces DEF HoldersOK, LinesTyped, Holders
<1>2. ExecutionCounts(0, m, F, E, R, S)
  BY <1>1, ExecutedCounts
<1>3. /\ CallOK(0, m, FALSE, F, E, R, S) /\ m.task \in Tasks
      /\ m.task # StopCall /\ Executed(E, m)[m.task] = 1
      /\ \A t \in Tasks : t # m.task => Executed(E, m)[t] = E[t]
  BY <1>2 DEF ExecutionCounts
<1>4. m.id = 0 /\ m.task \in NoticeTasks /\ R[m.task] = <<>>
  BY <1>3 DEF CallOK
<1>5. m # StopMessage /\ m # Ping
  BY <1>3, MessageFacts, TaskFacts
<1>6. Removed(m, E, R, Executed(E, m), R)
  BY <1>3, <1>4, <1>5 DEF Removed, Settled
<1>7. D = [D EXCEPT ![0] = IF D[0] = 0 THEN 0 ELSE D[0] - 1]
  BY <1>1
<1>8. DOMAIN F = DOMAIN F \ {m.id}
  BY <1>4
<1> QED BY <1>1, <1>5, <1>6, <1>7, <1>8, FirstGoes

(* What the first of h is when it is executed, and what its function gets.  *)
Delivered(m, F, R) == [R EXCEPT ![F[m.id]] = Append(@, m.task)]
Unregistered(m, F) == [id \in DOMAIN F \ {m.id} |-> F[id]]

DeliveryCounts(m, F, E, R, S) ==
  \/ m = Ping
  \/ /\ m # Ping /\ m # StopMessage /\ m.id \in DOMAIN F /\ F[m.id] = m.task
     /\ m.task \in ChainTasks /\ m.task \in S /\ m.task \in Tasks
     /\ E[m.task] = 1 /\ R[m.task] = <<>>
     /\ Delivered(m, F, R) = [R EXCEPT ![m.task] = <<m.task>>]

LEMMA DeliveredCounts ==
  ASSUME NEW L, NEW D, NEW F, NEW E, NEW R, NEW S, NEW K,
         HoldersOK(L, D, F, E, R, S, K), R \in [Tasks -> Seq(Tasks)],
         NEW h \in Holders, D[h] # 0, NEW m, m = L[h][1]
  PROVE  DeliveryCounts(m, F, E, R, S)
<1>1. /\ L \in [Holders -> Seq(Packet)] /\ D[h] \in Nat /\ D[h] <= Len(L[h])
  BY DEF HoldersOK, LinesTyped
<1>2. 1 \in DOMAIN L[h] /\ (1 <= D[h]) = TRUE
  <2>1. L[h] \in Seq(Packet)
    BY <1>1
  <2>2. Len(L[h]) \in Nat /\ DOMAIN L[h] = 1 .. Len(L[h])
    BY <2>1, LenProperties
  <2> QED BY <1>1, <2>2
<1>3. ItemOK(h, m, TRUE, F, E, R, S, K)
  <2>1. ItemOK(h, L[h][1], 1 <= D[h], F, E, R, S, K)
    BY <1>2 DEF HoldersOK, ItemsOK
  <2> QED BY <1>2, <2>1
<1>4. CASE CallOK(h, m, TRUE, F, E, R, S)
  <2>1. /\ m.id \in DOMAIN F /\ F[m.id] = m.task /\ m.id # 0
        /\ m.task \in ChainTasks /\ m.task \in S
        /\ E[m.task] = 1 /\ R[m.task] = <<>>
    BY <1>4 DEF CallOK
  <2>2. m.task \in Tasks
    BY <2>1 DEF HoldersOK, Untouched
  <2>3. m # Ping /\ m # StopMessage
    BY <2>1, MessageFacts
  <2>4. Delivered(m, F, R) = [R EXCEPT ![m.task] = <<m.task>>]
    BY <2>1, <2>2 DEF Delivered
  <2> QED BY <2>1, <2>2, <2>3, <2>4 DEF DeliveryCounts
<1> QED BY <1>3, <1>4 DEF ItemOK, DeliveryCounts

(* The head takes an answer, or a head alone calls the function itself.     *)
LEMMA DeliverCall ==
  ASSUME NEW L, NEW D, NEW F, NEW E, NEW R, NEW S, NEW K,
         HoldersOK(L, D, F, E, R, S, K), R \in [Tasks -> Seq(Tasks)],
         NEW h \in Holders, D[h] # 0, NEW m, m = L[h][1], m # Ping
  PROVE  HoldersOK([L EXCEPT ![h] = Tail(@)], [D EXCEPT ![h] = @ - 1],
                   Unregistered(m, F), E, Delivered(m, F, R), S, K)
<1>1. DeliveryCounts(m, F, E, R, S)
  BY DeliveredCounts
<1>2. /\ m # StopMessage /\ m.task \in Tasks /\ m.task \in ChainTasks
      /\ E[m.task] = 1
      /\ Delivered(m, F, R) = [R EXCEPT ![m.task] = <<m.task>>]
  BY <1>1 DEF DeliveryCounts
<1>3. Removed(m, E, R, E, Delivered(m, F, R))
  BY <1>2, TaskFacts DEF Removed, Settled
<1>4. /\ DOMAIN Unregistered(m, F) = DOMAIN F \ {m.id}
      /\ \A id \in DOMAIN Unregistered(m, F) : Unregistered(m, F)[id] = F[id]
  BY DEF Unregistered
<1>5. [D EXCEPT ![h] = @ - 1] =
        [D EXCEPT ![h] = IF D[h] = 0 THEN 0 ELSE D[h] - 1]
  OBVIOUS
<1>6. L[h] # <<>>
  <2>1. L[h] \in Seq(Packet) /\ D[h] \in Nat /\ D[h] <= Len(L[h])
    BY DEF HoldersOK, LinesTyped
  <2> QED BY <2>1
<1>7. PICK G, Q : G = Unregistered(m, F) /\ Q = Delivered(m, F, R)
  OBVIOUS
<1>8. /\ DOMAIN G = DOMAIN F \ {m.id} /\ \A id \in DOMAIN G : G[id] = F[id]
      /\ Removed(m, E, R, E, Q)
  BY <1>3, <1>4, <1>7
<1>9. PICK C : C = [D EXCEPT ![h] = @ - 1]
  OBVIOUS
<1>10. HoldersOK([L EXCEPT ![h] = Tail(@)], C, G, E, Q, S, K)
  <2>1. C = [D EXCEPT ![h] = IF D[h] = 0 THEN 0 ELSE D[h] - 1]
    BY <1>5, <1>9
  <2>2. m # StopMessage
    BY <1>2
  <2> HIDE <1>7, <1>9, <1>2, <1>5
  <2> QED BY <1>6, <1>8, <2>1, <2>2, FirstGoes, ZenonT(40)
<1> QED BY <1>7, <1>9, <1>10

(* The head takes a ping.                                                   *)
LEMMA DeliverPing ==
  ASSUME NEW L, NEW D, NEW F, NEW E, NEW R, NEW S, NEW K,
         HoldersOK(L, D, F, E, R, S, K), 0 \notin DOMAIN F,
         NEW h \in Holders, D[h] # 0, L[h][1] = Ping
  PROVE  HoldersOK([L EXCEPT ![h] = Tail(@)], [D EXCEPT ![h] = @ - 1],
                   F, E, R, S, K)
<1>1. Removed(Ping, E, R, E, R)
  BY DEF Removed
<1>2. [D EXCEPT ![h] = @ - 1] =
        [D EXCEPT ![h] = IF D[h] = 0 THEN 0 ELSE D[h] - 1]
  OBVIOUS
<1>3. L[h] # <<>>
  <2>1. L[h] \in Seq(Packet) /\ D[h] \in Nat /\ D[h] <= Len(L[h])
    BY DEF HoldersOK, LinesTyped
  <2> QED BY <2>1
<1>4. DOMAIN F = DOMAIN F \ {Ping.id} /\ Ping # StopMessage
  BY MessageFacts
<1> QED BY <1>1, <1>2, <1>3, <1>4, FirstGoes

(* A head alone has executed a call that wants an answer, and still has it. *)
LEMMA ExecuteHere ==
  ASSUME NEW L, NEW D, NEW F, NEW E, NEW R, NEW S, NEW K,
         HoldersOK(L, D, F, E, R, S, K), E \in [Tasks -> Nat], 0 \notin K,
         L[0] # <<>>, D[0] = 0, NEW m, m = L[0][1], m.answer_required = TRUE
  PROVE  HoldersOK(L, [D EXCEPT ![0] = 1], F, Executed(E, m), R, S, K)
<1> DEFINE C == [D EXCEPT ![0] = 1]
           G == Executed(E, m)
<1>1. /\ LinesTyped(L, D) /\ ItemsOK(L, D, F, E, R, S, K) /\ TaskOnce(L)
      /\ IdsHeld(L, F) /\ NothingLost(L, E, R, S) /\ Untouched(E, R, S)
  BY DEF HoldersOK
<1>2. /\ L \in [Holders -> Seq(Packet)] /\ D \in [Holders -> Nat]
      /\ \A k \in Holders : D[k] <= Len(L[k])
  BY <1>1 DEF LinesTyped
<1>3. 0 \in Holders /\ 1 \in DOMAIN L[0] /\ Len(L[0]) \in Nat \ {0}
  BY <1>2, TailPlaces DEF Holders
<1>4. /\ C \in [Holders -> Nat] /\ C[0] = 1
      /\ \A k \in Holders : k # 0 => C[k] = D[k]
  BY <1>2, <1>3
<1>5. ExecutionCounts(0, m, F, E, R, S)
  <2>1. D[0] + 1 = 1
    OBVIOUS
  <2> QED BY <1>3, <2>1, ExecutedCounts
<1>6. /\ CallOK(0, m, FALSE, F, E, R, S) /\ m.task \in S /\ m.task \in Tasks
      /\ G[m.task] = 1
      /\ \A t \in Tasks : t # m.task => G[t] = E[t]
  BY <1>5 DEF ExecutionCounts
<1> HIDE DEF C, G
<1>7. LinesTyped(L, C)
  <2>1. \A k \in Holders : C[k] <= Len(L[k])
    BY <1>2, <1>3, <1>4
  <2> QED BY <1>2, <1>4, <2>1 DEF LinesTyped
<1>8. ItemsOK(L, C, F, G, R, S, K)
  <2> SUFFICES ASSUME NEW k \in Holders, NEW i \in DOMAIN L[k]
               PROVE  ItemOK(k, L[k][i], i <= C[k], F, G, R, S, K)
    BY DEF ItemsOK
  <2>1. CASE k = 0 /\ i = 1
    <3>1. L[k][i] = m /\ (i <= C[k]) = TRUE
      BY <1>4, <2>1
    <3>2. CallOK(0, m, TRUE, F, G, R, S)
      BY <1>6 DEF CallOK
    <3> QED BY <2>1, <3>1, <3>2 DEF ItemOK
  <2>2. CASE ~(k = 0 /\ i = 1)
    <3>1. i \in Nat \ {0}
      BY <1>2, LenProperties
    <3>2. (i <= C[k]) = (i <= D[k])
      BY <1>4, <2>2, <3>1
    <3>3. ItemOK(k, L[k][i], i <= D[k], F, E, R, S, K)
      BY <1>1 DEF ItemsOK
    <3>4. CASE CallOK(k, L[k][i], i <= D[k], F, E, R, S)
      <4>1. L[k][i].task \in S /\ L[k][i].task \in Tasks
        BY <1>1, <3>4 DEF CallOK, Untouched
      <4>2. L[k][i].task # m.task
        BY <1>1, <1>3, <2>2, <4>1 DEF TaskOnce
      <4>3. G[L[k][i].task] = E[L[k][i].task]
        BY <1>6, <4>1, <4>2
      <4>4. CallOK(k, L[k][i], i <= D[k], F, G, R, S)
        BY <3>4, <4>3 DEF CallOK
      <4> QED BY <3>2, <4>4 DEF ItemOK
    <3> QED BY <3>2, <3>3, <3>4 DEF ItemOK
  <2> QED BY <2>1, <2>2
<1>9. NothingLost(L, G, R, S)
  <2> SUFFICES ASSUME NEW t \in S PROVE Held(L, t) \/ Settled(t, G, R)
    BY DEF NothingLost
  <2>1. CASE t = m.task
    BY <1>3, <2>1 DEF Held
  <2>2. CASE t # m.task
    BY <1>1, <1>6, <2>2 DEF NothingLost, Settled, Untouched
  <2> QED BY <2>1, <2>2
<1>10. Untouched(G, R, S)
  BY <1>1, <1>6 DEF Untouched
<1>11. HoldersOK(L, C, F, G, R, S, K)
  BY <1>1, <1>7, <1>8, <1>9, <1>10 DEF HoldersOK
<1> QED BY <1>11 DEF C, G

-----------------------------------------------------------------------------
(* The account                                                             *)

LEMMA UnitsFinite ==
  ASSUME NEW num
  PROVE  IsFiniteSet(Units(num)) /\ Cardinality(Units(num)) \in Nat
<1>1. IsFiniteSet(1 .. Size) /\ IsFiniteSet(1 .. WorkloadCapacity)
  BY SizeAssumption, CapacityAssumption, FS_Interval
<1>2. IsFiniteSet((1 .. Size) \X (1 .. WorkloadCapacity))
  BY <1>1, FS_Product
<1>3. Units(num) \in SUBSET ((1 .. Size) \X (1 .. WorkloadCapacity))
  BY DEF Units
<1> QED BY <1>2, <1>3, FS_Subset, FS_CardinalityType

(* One task more for one worker is one task more in all.                    *)
LEMMA UnitsUp ==
  ASSUME NEW num \in [Ids -> Loads], NEW id \in Ids, num[id] < WorkloadCapacity
  PROVE  Cardinality(Units([num EXCEPT ![id] = @ + 1]))
           = Cardinality(Units(num)) + 1
<1> DEFINE new == [num EXCEPT ![id] = @ + 1]
           p == <<id + 1, num[id] + 1>>
<1>1. id \in Int /\ num[id] \in Nat /\ Size \in Nat /\ WorkloadCapacity \in Nat
  BY SizeAssumption, CapacityAssumption DEF Ids, Loads
<1>2. p \in (1 .. Size) \X (1 .. WorkloadCapacity)
  BY <1>1 DEF Ids
<1>3. \A w \in 1 .. Size : w - 1 \in Ids
  BY <1>1 DEF Ids
<1>4. new[id] = num[id] + 1 /\ \A j \in Ids : j # id => new[j] = num[j]
  OBVIOUS
<1> HIDE DEF new
<1>5. ASSUME NEW w \in 1 .. Size, NEW u \in 1 .. WorkloadCapacity
      PROVE  (u <= new[w - 1]) = (u <= num[w - 1] \/ <<w, u>> = p)
  <2>1. w - 1 \in Ids /\ w \in Int /\ u \in Int
    BY <1>3
  <2>2. num[w - 1] \in Int
    BY <2>1 DEF Loads
  <2>3. CASE w - 1 = id
    <3>1. new[w - 1] = num[w - 1] + 1
      BY <1>4, <2>3
    <3>2. (<<w, u>> = p) = (u = num[w - 1] + 1)
      <4>1. w = id + 1
        BY <1>1, <2>1, <2>3
      <4> QED BY <2>3, <4>1
    <3>3. (u <= num[w - 1] + 1) = (u <= num[w - 1] \/ u = num[w - 1] + 1)
      BY <2>1, <2>2
    <3> QED BY <3>1, <3>2, <3>3
  <2>4. CASE w - 1 # id
    <3>1. new[w - 1] = num[w - 1]
      BY <1>4, <2>1, <2>4
    <3>2. w # id + 1
      BY <1>1, <2>1, <2>4
    <3>3. (<<w, u>> = p) = FALSE
      BY <3>2
    <3> QED BY <3>1, <3>3
  <2> QED BY <2>3, <2>4
<1>6. Units(new) = Units(num) \union {p}
  <2>1. ASSUME NEW q \in (1 .. Size) \X (1 .. WorkloadCapacity)
        PROVE  (q[2] <= new[q[1] - 1]) = (q[2] <= num[q[1] - 1] \/ q = p)
    <3>1. /\ q[1] \in 1 .. Size /\ q[2] \in 1 .. WorkloadCapacity
          /\ q = <<q[1], q[2]>>
      OBVIOUS
    <3> HIDE DEF p
    <3> QED BY <1>5, <3>1
  <2> HIDE DEF p
  <2> QED BY <1>2, <2>1 DEF Units
<1>7. p \notin Units(num)
  <2>1. ~(num[id] + 1 <= num[id]) /\ (id + 1) - 1 = id
    BY <1>1
  <2> QED BY <2>1 DEF Units
<1> HIDE DEF p
<1>8. Cardinality(Units(num) \union {p}) = Cardinality(Units(num)) + 1
  BY <1>7, UnitsFinite, FS_AddElement
<1> QED BY <1>6, <1>8 DEF new

(* One task less for one worker is one task less in all.                    *)
LEMMA UnitsDown ==
  ASSUME NEW num \in [Ids -> Loads], NEW id \in Ids, num[id] > 0
  PROVE  Cardinality(Units([num EXCEPT ![id] = @ - 1]))
           = Cardinality(Units(num)) - 1
<1>1. PICK new : new = [num EXCEPT ![id] = @ - 1]
  OBVIOUS
<1>2. num[id] \in Loads /\ WorkloadCapacity \in Nat
  BY CapacityAssumption
<1>3. new \in [Ids -> Loads] /\ new[id] = num[id] - 1
  <2>1. num[id] - 1 \in Loads
    BY <1>2 DEF Loads
  <2> QED BY <1>1, <2>1
<1>4. new[id] < WorkloadCapacity /\ new[id] + 1 = num[id]
  BY <1>2, <1>3 DEF Loads
<1>5. num = [new EXCEPT ![id] = @ + 1]
  BY <1>1, <1>3, <1>4
<1>6. Cardinality(Units(num)) = Cardinality(Units(new)) + 1
  BY <1>3, <1>4, <1>5, UnitsUp
<1>7. Cardinality(Units(new)) \in Nat
  BY UnitsFinite
<1> QED BY <1>1, <1>6, <1>7

LEMMA UnitsNone ==
  ASSUME NEW num \in [Ids -> Loads], Cardinality(Units(num)) = 0
  PROVE  \A id \in Ids : num[id] = 0
<1>1. Units(num) = {}
  BY UnitsFinite, FS_EmptySet
<1> SUFFICES ASSUME NEW id \in Ids PROVE num[id] = 0
  OBVIOUS
<1>2. id + 1 \in 1 .. Size /\ (id + 1) - 1 = id
  BY SizeAssumption DEF Ids
<1>3. 1 \in 1 .. WorkloadCapacity /\ num[id] \in Nat
  BY CapacityAssumption DEF Loads
<1>4. 1 <= num[id] => <<id + 1, 1>> \in Units(num)
  BY <1>2, <1>3 DEF Units
<1> QED BY <1>1, <1>3, <1>4

(* Nothing is accounted in the beginning.                                   *)
LEMMA UnitsZero ==
  ASSUME NEW num, \A id \in Ids : num[id] = 0
  PROVE  Cardinality(Units(num)) = 0
<1>1. ASSUME NEW p \in Units(num) PROVE FALSE
  <2>1. /\ p[1] \in 1 .. Size /\ p[2] \in 1 .. WorkloadCapacity
        /\ p[2] <= num[p[1] - 1]
    BY DEF Units
  <2>2. p[1] - 1 \in Ids
    BY <2>1, SizeAssumption DEF Ids
  <2>3. p[2] <= 0 /\ p[2] \in 1 .. WorkloadCapacity
    BY <2>1, <2>2
  <2> QED BY <2>3, CapacityAssumption
<1>2. Units(num) = {}
  BY <1>1
<1> QED BY <1>2, FS_EmptySet

(* The account stays exact: nothing comes or goes ...                       *)
LEMMA ExactSame ==
  ASSUME NEW L, NEW M, NEW num, NEW k, NEW n, Exact(L, num, k, n),
         \A w \in Workers : Len(M[w]) = Len(L[w])
  PROVE  Exact(M, num, k, n)
BY DEF Exact

(* ... worker id + 1 is given a call, ...                                   *)
LEMMA ExactUp ==
  ASSUME NEW L, NEW M, NEW num \in [Ids -> Loads], NEW k \in Nat, NEW n,
         Exact(L, num, k, n), NEW id \in Ids, num[id] < WorkloadCapacity,
         Len(M[id + 1]) = Len(L[id + 1]) + 1,
         \A w \in Workers : w # id + 1 => Len(M[w]) = Len(L[w])
  PROVE  Exact(M, [num EXCEPT ![id] = @ + 1], k, n + 1)
<1> DEFINE new == [num EXCEPT ![id] = @ + 1]
<1>1. /\ \A w \in Workers : Len(L[w]) = num[w - 1] + (IF w <= k THEN 1 ELSE 0)
      /\ n = k + Cardinality(Units(num))
  BY DEF Exact
<1>2. n + 1 = k + Cardinality(Units(new))
  <2>1. Cardinality(Units(new)) = Cardinality(Units(num)) + 1
    BY UnitsUp
  <2> HIDE DEF new
  <2> QED BY <1>1, <2>1, UnitsFinite
<1>3. new[id] = num[id] + 1 /\ \A j \in Ids : j # id => new[j] = num[j]
  OBVIOUS
<1> HIDE DEF new
<1>4. ASSUME NEW w \in Workers
      PROVE  Len(M[w]) = new[w - 1] + (IF w <= k THEN 1 ELSE 0)
  <2>1. w - 1 \in Ids /\ w \in Int /\ id \in Int
    BY SizeAssumption DEF Workers, Ids
  <2>2. num[w - 1] \in Nat
    BY <2>1 DEF Loads
  <2>3. CASE w = id + 1
    <3>1. w - 1 = id
      BY <2>1, <2>3
    <3>2. Len(M[w]) = Len(L[w]) + 1
      BY <2>3
    <3> QED BY <1>1, <1>3, <2>2, <3>1, <3>2
  <2>4. CASE w # id + 1
    <3>1. w - 1 # id
      BY <2>1, <2>4
    <3> QED BY <1>1, <1>3, <2>1, <2>4, <3>1
  <2> QED BY <2>3, <2>4
<1>5. Exact(M, new, k, n + 1)
  BY <1>2, <1>4 DEF Exact
<1> QED BY <1>5 DEF new

(* ... or has answered one, ...                                             *)
LEMMA ExactDown ==
  ASSUME NEW L, NEW M, NEW num \in [Ids -> Loads], NEW k \in Nat, NEW n,
         Exact(L, num, k, n), NEW id \in Ids, num[id] > 0,
         Len(M[id + 1]) = Len(L[id + 1]) - 1,
         \A w \in Workers : w # id + 1 => Len(M[w]) = Len(L[w])
  PROVE  Exact(M, [num EXCEPT ![id] = @ - 1], k, n - 1)
<1> DEFINE new == [num EXCEPT ![id] = @ - 1]
<1>1. /\ \A w \in Workers : Len(L[w]) = num[w - 1] + (IF w <= k THEN 1 ELSE 0)
      /\ n = k + Cardinality(Units(num))
  BY DEF Exact
<1>2. n - 1 = k + Cardinality(Units(new))
  <2>1. Cardinality(Units(new)) = Cardinality(Units(num)) - 1
    BY UnitsDown
  <2> HIDE DEF new
  <2> QED BY <1>1, <2>1, UnitsFinite
<1>3. new[id] = num[id] - 1 /\ \A j \in Ids : j # id => new[j] = num[j]
  OBVIOUS
<1> HIDE DEF new
<1>4. ASSUME NEW w \in Workers
      PROVE  Len(M[w]) = new[w - 1] + (IF w <= k THEN 1 ELSE 0)
  <2>1. w - 1 \in Ids /\ w \in Int /\ id \in Int
    BY SizeAssumption DEF Workers, Ids
  <2>2. num[w - 1] \in Nat
    BY <2>1 DEF Loads
  <2>3. CASE w = id + 1
    <3>1. w - 1 = id
      BY <2>1, <2>3
    <3>2. Len(M[w]) = Len(L[w]) - 1
      BY <2>3
    <3> QED BY <1>1, <1>3, <2>2, <3>1, <3>2
  <2>4. CASE w # id + 1
    <3>1. w - 1 # id
      BY <2>1, <2>4
    <3> QED BY <1>1, <1>3, <2>1, <2>4, <3>1
  <2> QED BY <2>3, <2>4
<1>5. Exact(M, new, k, n - 1)
  BY <1>2, <1>4 DEF Exact
<1> QED BY <1>5 DEF new

(* ... or is told to stop.                                                  *)
LEMMA ExactStop ==
  ASSUME NEW L, NEW M, NEW num \in [Ids -> Loads], NEW k \in Nat, NEW n,
         Exact(L, num, k, n), k < Size,
         Len(M[k + 1]) = Len(L[k + 1]) + 1,
         \A w \in Workers : w # k + 1 => Len(M[w]) = Len(L[w])
  PROVE  Exact(M, num, k + 1, n + 1)
<1>1. /\ \A w \in Workers : Len(L[w]) = num[w - 1] + (IF w <= k THEN 1 ELSE 0)
      /\ n = k + Cardinality(Units(num))
  BY DEF Exact
<1>2. n + 1 = (k + 1) + Cardinality(Units(num))
  BY <1>1, UnitsFinite
<1>3. ASSUME NEW w \in Workers
      PROVE  Len(M[w]) = num[w - 1] + (IF w <= k + 1 THEN 1 ELSE 0)
  <2>1. w - 1 \in Ids /\ w \in Int
    BY SizeAssumption DEF Workers, Ids
  <2>2. num[w - 1] \in Nat
    BY <2>1 DEF Loads
  <2>3. CASE w = k + 1
    <3>1. Len(M[w]) = Len(L[w]) + 1 /\ ~(w <= k) /\ w <= k + 1
      BY <2>3
    <3> QED BY <1>1, <2>2, <3>1
  <2>4. CASE w # k + 1
    <3>1. (w <= k) = (w <= k + 1)
      BY <2>1, <2>4
    <3> QED BY <1>1, <2>4, <3>1
  <2> QED BY <2>3, <2>4
<1> QED BY <1>2, <1>3 DEF Exact

-----------------------------------------------------------------------------
(* The functions a chain waits for                                         *)

(* The call of a function, and so the function, is known by its place.      *)
LEMMA OneIdPerTask ==
  ASSUME NEW L, NEW D, NEW F, NEW E, NEW R, NEW S, NEW K,
         HoldersOK(L, D, F, E, R, S, K), 0 \notin DOMAIN F,
         NEW a \in DOMAIN F, NEW b \in DOMAIN F, F[a] = F[b]
  PROVE  a = b
<1>1. \A id \in DOMAIN F : \E h \in Holders : \E i \in DOMAIN L[h] :
        L[h][i].id = id /\ L[h][i].task = F[id] /\ F[id] \in Tasks
  <2> SUFFICES ASSUME NEW id \in DOMAIN F
               PROVE  \E h \in Holders : \E i \in DOMAIN L[h] :
                        /\ L[h][i].id = id /\ L[h][i].task = F[id]
                        /\ F[id] \in Tasks
    OBVIOUS
  <2>1. PICK h \in Holders : \E i \in DOMAIN L[h] : L[h][i].id = id
    BY DEF HoldersOK, IdsHeld
  <2>2. PICK i \in DOMAIN L[h] : L[h][i].id = id
    BY <2>1
  <2>3. ItemOK(h, L[h][i], i <= D[h], F, E, R, S, K)
    BY DEF HoldersOK, ItemsOK
  <2>4. id # 0
    OBVIOUS
  <2>5. CallOK(h, L[h][i], i <= D[h], F, E, R, S)
    BY <2>2, <2>3, <2>4, MessageFacts DEF ItemOK
  <2>6. F[id] = L[h][i].task /\ L[h][i].task \in S
    BY <2>2, <2>4, <2>5 DEF CallOK
  <2>7. L[h][i].task \in Tasks
    BY <2>6 DEF HoldersOK, Untouched
  <2> QED BY <2>2, <2>6, <2>7
<1>2. PICK h \in Holders : \E i \in DOMAIN L[h] :
        L[h][i].id = a /\ L[h][i].task = F[a] /\ F[a] \in Tasks
  BY <1>1
<1>3. PICK i \in DOMAIN L[h] :
        L[h][i].id = a /\ L[h][i].task = F[a] /\ F[a] \in Tasks
  BY <1>2
<1>4. PICK k \in Holders : \E j \in DOMAIN L[k] :
        L[k][j].id = b /\ L[k][j].task = F[b]
  BY <1>1
<1>5. PICK j \in DOMAIN L[k] : L[k][j].id = b /\ L[k][j].task = F[b]
  BY <1>4
<1>6. h = k /\ i = j
  BY <1>3, <1>5 DEF HoldersOK, TaskOnce
<1> QED BY <1>3, <1>5, <1>6

(* They are the calls of one batch.                                         *)
LEMMA AwaitedBound ==
  ASSUME NEW L, NEW D, NEW F, NEW E, NEW R, NEW S, NEW K,
         HoldersOK(L, D, F, E, R, S, K), NEW n \in Nat, DOMAIN F \subseteq 1 .. n,
         \A id \in DOMAIN F : F[id] \in ChainTasks,
         NEW rd, \A id \in DOMAIN F : F[id][2] = rd[F[id][1]],
         NEW c
  PROVE  /\ IsFiniteSet(AwaitedOf(F, c))
         /\ Cardinality(AwaitedOf(F, c)) \in 0 .. BatchSize
<1> DEFINE A == AwaitedOf(F, c)
<1>1. IsFiniteSet(A) /\ Cardinality(A) \in Nat
  <2>1. A \in SUBSET (1 .. n)
    BY DEF AwaitedOf
  <2>2. IsFiniteSet(1 .. n)
    <3>1. 1 \in Int /\ n \in Int
      OBVIOUS
    <3> QED BY ONLY <3>1, FS_Interval
  <2> QED BY <2>1, <2>2, FS_Subset, FS_CardinalityType
<1> DEFINE f == [id \in A |-> F[id][3]]
<1>2. f \in Injection(A, 1 .. BatchSize)
  <2>1. f \in [A -> 1 .. BatchSize]
    BY TaskFacts DEF AwaitedOf
  <2>2. ASSUME NEW a \in A, NEW b \in A, f[a] = f[b] PROVE a = b
    <3>1. /\ a \in DOMAIN F /\ b \in DOMAIN F /\ F[a][1] = c /\ F[b][1] = c
          /\ F[a] \in ChainTasks /\ F[b] \in ChainTasks
      BY DEF AwaitedOf
    <3>2. F[a][2] = F[b][2] /\ F[a][3] = F[b][3]
      BY <2>2, <3>1
    <3>3. F[a] = F[b]
      BY <3>1, <3>2, TaskFacts
    <3>4. 0 \notin DOMAIN F
      OBVIOUS
    <3> QED BY <3>1, <3>3, <3>4, OneIdPerTask
  <2> HIDE DEF f
  <2> QED BY <2>1, <2>2 DEF Injection, IsInjective
<1>3. IsFiniteSet(1 .. BatchSize) /\ Cardinality(1 .. BatchSize) = BatchSize
  BY ODSAssumption, FS_Interval
<1>4. Cardinality(A) <= BatchSize
  <2> HIDE DEF f, A
  <2> QED BY <1>2, <1>3, FS_Injection
<1> QED BY <1>1, <1>4, ODSAssumption

-----------------------------------------------------------------------------
(* What the steps do to the lines                                          *)

LEMMA SeqWider ==
  ASSUME NEW S, NEW T, S \subseteq T, NEW s \in Seq(S)
  PROVE  s \in Seq(T)
<1>1. /\ Len(s) \in Nat /\ s = [i \in 1 .. Len(s) |-> s[i]]
      /\ \A i \in 1 .. Len(s) : s[i] \in S
  OBVIOUS
<1>2. s \in [1 .. Len(s) -> T]
  BY <1>1
<1> QED BY <1>1, <1>2

LEMMA HolderFacts ==
  /\ 0 \in Holders /\ \A w \in Workers : w \in Holders /\ w # 0 /\ w \in Int
  /\ \A h \in Holders : h # 0 => h \in Workers
BY SizeAssumption DEF Holders, Workers

LEMMA LinesFact ==
  ASSUME ODSTypeOK
  PROVE  /\ Lines \in [Holders -> Seq(Packet)] /\ Dones \in [Holders -> Nat]
         /\ Lines[0] = tasks /\ tasks \in Seq(Packet)
         /\ \A w \in Workers :
              /\ Lines[w] = UnderWay(w) /\ Dones[w] = Len(toHead[w])
              /\ toHead[w] \in Seq(Packet) /\ workerTasks[w] \in Seq(Packet)
              /\ toWorker[w] \in Seq(Packet)
         /\ Dones[0] = IF headPc = "deliver" THEN 1 ELSE 0
<1>1. Message \subseteq Packet
  BY DEF Packet
<1>2. tasks \in Seq(Packet)
  <2>1. tasks \in Seq(Message)
    BY DEF ODSTypeOK
  <2> QED BY <1>1, <2>1, SeqWider
<1>3. ASSUME NEW w \in Workers
      PROVE  /\ toHead[w] \in Seq(Packet) /\ workerTasks[w] \in Seq(Packet)
             /\ toWorker[w] \in Seq(Packet)
  <2>1. /\ toHead[w] \in Seq(Message \union {Ping})
        /\ workerTasks[w] \in Seq(Message) /\ toWorker[w] \in Seq(Message)
    BY DEF ODSTypeOK
  <2>2. workerTasks[w] \in Seq(Packet) /\ toWorker[w] \in Seq(Packet)
    BY <1>1, <2>1, SeqWider
  <2> QED BY <2>1, <2>2 DEF Packet
<1>4. ASSUME NEW w \in Workers
      PROVE  UnderWay(w) \in Seq(Packet) /\ Len(toHead[w]) \in Nat
  <2>1. toHead[w] \o workerTasks[w] \o toWorker[w] \in Seq(Packet)
    BY <1>3, CatAt
  <2>2. Len(toHead[w]) \in Nat
    BY <1>3, LenProperties
  <2> QED BY <2>1, <2>2 DEF UnderWay
<1>5. ASSUME NEW h \in Holders
      PROVE  CallsOf(h) \in Seq(Packet) /\ DoneOf(h) \in Nat
  <2>1. CASE h = 0
    BY <1>2, <2>1 DEF CallsOf, DoneOf
  <2>2. CASE h # 0
    <3>1. h \in Workers
      BY <2>2, HolderFacts
    <3> QED BY <1>4, <2>2, <3>1 DEF CallsOf, DoneOf
  <2> QED BY <2>1, <2>2
<1>6. Lines[0] = tasks /\ Dones[0] = IF headPc = "deliver" THEN 1 ELSE 0
  BY HolderFacts DEF Lines, Dones, CallsOf, DoneOf
<1>7. \A w \in Workers : Lines[w] = UnderWay(w) /\ Dones[w] = Len(toHead[w])
  BY HolderFacts DEF Lines, Dones, CallsOf, DoneOf
<1>8. Lines \in [Holders -> Seq(Packet)] /\ Dones \in [Holders -> Nat]
  BY <1>5 DEF Lines, Dones
<1> QED BY <1>2, <1>3, <1>6, <1>7, <1>8

(* The lines of the next state, from those of this one.                     *)
LEMMA LinesAre ==
  ASSUME NEW M \in [Holders -> Seq(Packet)], tasks' = M[0],
         \A w \in Workers : UnderWay(w)' = M[w]
  PROVE  Lines' = M
<1>1. \A h \in Holders : CallsOf(h)' = M[h]
  BY HolderFacts DEF CallsOf
<1>2. Lines' = [h \in Holders |-> M[h]]
  BY <1>1 DEF Lines
<1> QED BY <1>2

LEMMA LinesStay ==
  ASSUME UNCHANGED <<tasks, toHead, workerTasks, toWorker>>
  PROVE  Lines' = Lines
BY DEF Lines, CallsOf, UnderWay

LEMMA DonesStay ==
  ASSUME UNCHANGED toHead, (headPc' = "deliver") = (headPc = "deliver")
  PROVE  Dones' = Dones
BY DEF Dones, DoneOf

(* Message m is sent to worker w, and the queue becomes q.                  *)
LEMMA LinesSend ==
  ASSUME ODSTypeOK, NEW w \in Workers, NEW m \in Packet, NEW q \in Seq(Packet),
         tasks' = q, toWorker' = [toWorker EXCEPT ![w] = Append(@, m)],
         UNCHANGED <<toHead, workerTasks>>
  PROVE  Lines' = [[Lines EXCEPT ![0] = q] EXCEPT ![w] = Append(@, m)]
<1>1. /\ Lines \in [Holders -> Seq(Packet)]
      /\ \A v \in Workers :
           /\ Lines[v] = UnderWay(v)
           /\ toHead[v] \in Seq(Packet) /\ workerTasks[v] \in Seq(Packet)
           /\ toWorker[v] \in Seq(Packet)
  BY LinesFact
<1>2. PICK M : M = [[Lines EXCEPT ![0] = q] EXCEPT ![w] = Append(@, m)]
  OBVIOUS
<1>3. /\ M \in [Holders -> Seq(Packet)] /\ M[0] = q
      /\ M[w] = Append(Lines[w], m)
      /\ \A v \in Workers : v # w => M[v] = Lines[v]
  <2>1. Append(Lines[w], m) \in Seq(Packet)
    BY <1>1, AppendAt, HolderFacts
  <2> QED BY <1>1, <1>2, <2>1, HolderFacts
<1>4. toWorker \in [Workers -> Seq(Message)]
  BY DEF ODSTypeOK
<1>5. ASSUME NEW v \in Workers PROVE UnderWay(v)' = M[v]
  <2>1. CASE v = w
    <3>1. UnderWay(v)' = toHead[v] \o workerTasks[v] \o Append(toWorker[v], m)
      BY <1>4, <2>1 DEF UnderWay
    <3>2. PICK s \in Seq(Packet), t \in Seq(Packet), u \in Seq(Packet) :
            s = toHead[v] /\ t = workerTasks[v] /\ u = toWorker[v]
      BY <1>1
    <3>4. s \o t \o Append(u, m) = Append(s \o t \o u, m)
      BY CatAppend
    <3>5. toHead[v] \o workerTasks[v] \o Append(toWorker[v], m) =
            Append(UnderWay(v), m)
      BY <3>2, <3>4 DEF UnderWay
    <3> QED BY <1>1, <1>3, <2>1, <3>1, <3>5
  <2>2. CASE v # w
    <3>1. UnderWay(v)' = UnderWay(v)
      BY <1>4, <2>2 DEF UnderWay
    <3> QED BY <1>1, <1>3, <2>2, <3>1
  <2> QED BY <2>1, <2>2
<1>6. Lines' = M
  BY <1>3, <1>5, LinesAre
<1> QED BY <1>2, <1>6

(* The queue becomes q.                                                     *)
LEMMA LinesQueue ==
  ASSUME ODSTypeOK, NEW q \in Seq(Packet), tasks' = q,
         UNCHANGED <<toHead, workerTasks, toWorker>>
  PROVE  Lines' = [Lines EXCEPT ![0] = q]
<1>1. /\ Lines \in [Holders -> Seq(Packet)]
      /\ \A v \in Workers : Lines[v] = UnderWay(v)
  BY LinesFact
<1>2. PICK M : M = [Lines EXCEPT ![0] = q]
  OBVIOUS
<1>3. /\ M \in [Holders -> Seq(Packet)] /\ M[0] = q
      /\ \A v \in Workers : M[v] = Lines[v]
  BY <1>1, <1>2, HolderFacts
<1>4. \A v \in Workers : UnderWay(v)' = M[v]
  BY <1>1, <1>3 DEF UnderWay
<1>5. Lines' = M
  BY <1>3, <1>4, LinesAre
<1> QED BY <1>2, <1>5

(* The head takes the first answer of worker w.                             *)
LEMMA LinesAnswer ==
  ASSUME ODSTypeOK, NEW w \in Workers, toHead[w] # <<>>,
         toHead' = [toHead EXCEPT ![w] = Tail(@)], headPc' # "deliver",
         headPc # "deliver", UNCHANGED <<tasks, workerTasks, toWorker>>
  PROVE  /\ Lines' = [Lines EXCEPT ![w] = Tail(@)]
         /\ Dones' = [Dones EXCEPT ![w] = @ - 1]
         /\ Dones[w] # 0 /\ Lines[w] # <<>>
         /\ Lines[w][1] = Head(toHead[w])
<1>1. /\ Lines \in [Holders -> Seq(Packet)] /\ Lines[0] = tasks
      /\ \A v \in Workers :
           /\ Lines[v] = UnderWay(v) /\ Dones[v] = Len(toHead[v])
           /\ toHead[v] \in Seq(Packet) /\ workerTasks[v] \in Seq(Packet)
           /\ toWorker[v] \in Seq(Packet)
      /\ Dones \in [Holders -> Nat]
  BY LinesFact
<1>2. PICK s \in Seq(Packet), t \in Seq(Packet), u \in Seq(Packet) :
        s = toHead[w] /\ t = workerTasks[w] /\ u = toWorker[w]
  BY <1>1
<1>3. /\ Tail(s) \o t \o u = Tail(s \o t \o u) /\ Lines[w] = s \o t \o u
      /\ s # <<>>
  <2>1. s # <<>>
    BY <1>2
  <2>2. Lines[w] = s \o t \o u
    BY <1>1, <1>2 DEF UnderWay
  <2>3. Tail(s) \o t \o u = Tail(s \o t \o u)
    BY <2>1, CatTail, SMTT(40)
  <2> QED BY <2>1, <2>2, <2>3
<1>4. /\ Len(s) \in Nat \ {0} /\ Len(Tail(s)) = Len(s) - 1 /\ Head(s) = s[1]
      /\ Tail(s) \in Seq(Packet)
  BY <1>3, TailAt
<1>5. /\ s \o t \o u \in Seq(Packet) /\ (s \o t \o u)[1] = s[1]
      /\ s \o t \o u # <<>>
  <2>1. PICK c : c = s \o t \o u
    OBVIOUS
  <2>2. /\ c \in Seq(Packet) /\ Len(t) \in Nat /\ Len(u) \in Nat
        /\ Len(c) = Len(s) + Len(t) + Len(u)
        /\ \A n \in 1 .. Len(s) : c[n] = s[n]
    BY <2>1, CatAt
  <2>3. 1 \in 1 .. Len(s) /\ Len(c) # 0
    BY <1>4, <2>2
  <2>4. c # <<>>
    BY <2>3, EmptySeq
  <2> QED BY <2>1, <2>2, <2>3, <2>4
<1>6. PICK M : M = [Lines EXCEPT ![w] = Tail(@)]
  OBVIOUS
<1>7. /\ M \in [Holders -> Seq(Packet)] /\ M[0] = tasks
      /\ M[w] = Tail(s \o t \o u)
      /\ \A v \in Workers : v # w => M[v] = Lines[v]
  <2>1. Tail(s \o t \o u) \in Seq(Packet)
    BY <1>5, TailAt
  <2> QED BY <1>1, <1>3, <1>6, <2>1, HolderFacts
<1>8. toHead \in [Workers -> Seq(Message \union {Ping})]
  BY DEF ODSTypeOK
<1>9. toHead'[w] = Tail(s) /\ \A v \in Workers : v # w => toHead'[v] = toHead[v]
  BY <1>2, <1>8
<1>10. ASSUME NEW v \in Workers PROVE UnderWay(v)' = M[v]
  <2>1. CASE v = w
    <3>1. UnderWay(v)' = Tail(s) \o t \o u
      BY <1>2, <1>9, <2>1 DEF UnderWay
    <3> QED BY <1>3, <1>7, <2>1, <3>1
  <2>2. CASE v # w
    BY <1>1, <1>7, <1>9, <2>2 DEF UnderWay
  <2> QED BY <2>1, <2>2
<1>11. Lines' = M
  BY <1>7, <1>10, LinesAre
<1>12. Dones' = [Dones EXCEPT ![w] = @ - 1]
  <2>1. ASSUME NEW h \in Holders
        PROVE  DoneOf(h)' = [Dones EXCEPT ![w] = @ - 1][h]
    <3>1. CASE h = 0
      BY <3>1, HolderFacts DEF Dones, DoneOf
    <3>2. CASE h = w
      <4>a. h # 0
        BY <3>2, HolderFacts
      <4>1. DoneOf(h)' = Len(s) - 1
        BY <1>4, <1>9, <3>2, <4>a DEF DoneOf
      <4> QED BY <1>1, <1>2, <3>2, <4>1, HolderFacts, SMTT(40)
    <3>3. CASE h # 0 /\ h # w
      <4>1. h \in Workers
        BY <3>3, HolderFacts
      <4>2. DoneOf(h)' = Len(toHead[h])
        BY <1>9, <3>3, <4>1 DEF DoneOf
      <4> QED BY <1>1, <3>3, <4>1, <4>2
    <3> QED BY <3>1, <3>2, <3>3
  <2>2. Dones' = [h \in Holders |-> [Dones EXCEPT ![w] = @ - 1][h]]
    BY <2>1 DEF Dones
  <2> QED BY <1>1, <2>2
<1>13. Dones[w] # 0 /\ Lines[w] # <<>> /\ Lines[w][1] = Head(toHead[w])
  BY <1>1, <1>2, <1>3, <1>4, <1>5
<1> QED BY <1>6, <1>11, <1>12, <1>13

(* Worker w receives the next call.                                         *)
LEMMA LinesReceive ==
  ASSUME ODSTypeOK, NEW w \in Workers, TakeMessage(w),
         UNCHANGED <<tasks, toHead>>
  PROVE  Lines' = Lines
<1>1. /\ Lines \in [Holders -> Seq(Packet)] /\ Lines[0] = tasks
      /\ \A v \in Workers :
           /\ Lines[v] = UnderWay(v)
           /\ toHead[v] \in Seq(Packet) /\ workerTasks[v] \in Seq(Packet)
           /\ toWorker[v] \in Seq(Packet)
  BY LinesFact
<1>2. /\ toWorker \in [Workers -> Seq(Message)]
      /\ workerTasks \in [Workers -> Seq(Message)]
  BY DEF ODSTypeOK
<1>3. ASSUME NEW v \in Workers PROVE UnderWay(v)' = Lines[v]
  <2>1. CASE v = w
    <3>1. UnderWay(v)' = toHead[v] \o Append(workerTasks[v], Head(toWorker[v]))
                                   \o Tail(toWorker[v])
      BY <1>2, <2>1 DEF TakeMessage, UnderWay
    <3>2. PICK s \in Seq(Packet), t \in Seq(Packet), u \in Seq(Packet) :
            s = toHead[v] /\ t = workerTasks[v] /\ u = toWorker[v]
      BY <1>1
    <3>4. u # <<>>
      BY <2>1, <3>2 DEF TakeMessage
    <3>5. s \o Append(t, Head(u)) \o Tail(u) = s \o t \o u
      BY <3>4, CatMove, SMTT(40)
    <3>3. toHead[v] \o Append(workerTasks[v], Head(toWorker[v]))
            \o Tail(toWorker[v]) = UnderWay(v)
      BY <3>2, <3>5 DEF UnderWay
    <3> QED BY <1>1, <3>1, <3>3
  <2>2. CASE v # w
    BY <1>1, <1>2, <2>2 DEF TakeMessage, UnderWay
  <2> QED BY <2>1, <2>2
<1> QED BY <1>1, <1>3, LinesAre

(* Worker w executes its first call, and answers x.                         *)
LEMMA LinesExecute ==
  ASSUME ODSTypeOK, NEW w \in Workers, NEW x \in Packet, workerTasks[w] # <<>>,
         workerTasks' = [workerTasks EXCEPT ![w] = Tail(@)],
         toHead' = [toHead EXCEPT ![w] = Append(@, x)],
         UNCHANGED <<tasks, toWorker, headPc>>
  PROVE  /\ Lines' = [Lines EXCEPT ![w] = [@ EXCEPT ![Dones[w] + 1] = x]]
         /\ Dones' = [Dones EXCEPT ![w] = @ + 1]
         /\ Dones[w] + 1 \in DOMAIN Lines[w]
         /\ Lines[w][Dones[w] + 1] = Head(workerTasks[w])
         /\ Head(workerTasks[w]) \in Message
         /\ Len(Lines'[w]) = Len(Lines[w])
<1>1. /\ Lines \in [Holders -> Seq(Packet)] /\ Lines[0] = tasks
      /\ \A v \in Workers :
           /\ Lines[v] = UnderWay(v) /\ Dones[v] = Len(toHead[v])
           /\ toHead[v] \in Seq(Packet) /\ workerTasks[v] \in Seq(Packet)
           /\ toWorker[v] \in Seq(Packet)
      /\ Dones \in [Holders -> Nat]
  BY LinesFact
<1>2. PICK s \in Seq(Packet), t \in Seq(Packet), u \in Seq(Packet) :
        s = toHead[w] /\ t = workerTasks[w] /\ u = toWorker[w]
  BY <1>1
<1>3. PICK c : c = s \o t \o u
  OBVIOUS
<1>4. /\ Append(s, x) \o Tail(t) \o u = [c EXCEPT ![Len(s) + 1] = x]
      /\ Len(s) + 1 \in 1 .. Len(c) /\ c[Len(s) + 1] = Head(t)
      /\ c \in Seq(Packet) /\ Lines[w] = c
  <2>1. t # <<>>
    BY <1>2
  <2>2. c \in Seq(Packet)
    BY <1>3, CatAt
  <2>3. Lines[w] = c
    BY <1>1, <1>2, <1>3 DEF UnderWay
  <2> QED BY <1>3, <2>1, <2>2, <2>3, CatExecute
<1>5. PICK e : e = [c EXCEPT ![Len(s) + 1] = x]
  OBVIOUS
<1>6. e \in Seq(Packet) /\ Len(e) = Len(c)
  <2>1. PICK n \in 1 .. Len(c) : n = Len(s) + 1
    BY <1>4
  <2>2. c \in Seq(Packet)
    BY <1>4
  <2>3. [c EXCEPT ![n] = x] \in Seq(Packet) /\ Len([c EXCEPT ![n] = x]) = Len(c)
    BY <2>2, ExceptSeq
  <2> QED BY <1>5, <2>1, <2>3
<1>7. PICK M : M = [Lines EXCEPT ![w] = e]
  OBVIOUS
<1>8. /\ M \in [Holders -> Seq(Packet)] /\ M[0] = tasks /\ M[w] = e
      /\ \A v \in Workers : v # w => M[v] = Lines[v]
  BY <1>1, <1>6, <1>7, HolderFacts
<1>9. /\ toHead \in [Workers -> Seq(Message \union {Ping})]
      /\ workerTasks \in [Workers -> Seq(Message)]
  BY DEF ODSTypeOK
<1>10. /\ toHead'[w] = Append(s, x) /\ workerTasks'[w] = Tail(t)
       /\ \A v \in Workers : v # w => /\ toHead'[v] = toHead[v]
                                      /\ workerTasks'[v] = workerTasks[v]
  BY <1>2, <1>9
<1>11. ASSUME NEW v \in Workers PROVE UnderWay(v)' = M[v]
  <2>1. CASE v = w
    <3>1. UnderWay(v)' = Append(s, x) \o Tail(t) \o u
      BY <1>2, <1>10, <2>1 DEF UnderWay
    <3> QED BY <1>4, <1>5, <1>8, <2>1, <3>1
  <2>2. CASE v # w
    BY <1>1, <1>8, <1>10, <2>2 DEF UnderWay
  <2> QED BY <2>1, <2>2
<1>12. Lines' = M
  BY <1>8, <1>11, LinesAre
<1>13. Len(Append(s, x)) = Len(s) + 1 /\ Len(s) \in Nat
  BY AppendAt
<1>14. Dones' = [Dones EXCEPT ![w] = @ + 1]
  <2>1. ASSUME NEW h \in Holders
        PROVE  DoneOf(h)' = [Dones EXCEPT ![w] = @ + 1][h]
    <3>1. CASE h = 0
      BY <3>1, HolderFacts DEF Dones, DoneOf
    <3>2. CASE h = w
      <4>1. DoneOf(h)' = Len(s) + 1
        BY <1>10, <1>13, <3>2, HolderFacts DEF DoneOf
      <4> QED BY <1>1, <1>2, <3>2, <4>1, HolderFacts
    <3>3. CASE h # 0 /\ h # w
      <4>1. h \in Workers
        BY <3>3, HolderFacts
      <4>2. DoneOf(h)' = Len(toHead[h])
        BY <1>10, <3>3, <4>1 DEF DoneOf
      <4> QED BY <1>1, <3>3, <4>1, <4>2
    <3> QED BY <3>1, <3>2, <3>3
  <2>2. Dones' = [h \in Holders |-> [Dones EXCEPT ![w] = @ + 1][h]]
    BY <2>1 DEF Dones
  <2> QED BY <1>1, <2>2
<1>15. /\ Dones[w] + 1 \in DOMAIN Lines[w] /\ Dones[w] = Len(s)
       /\ Lines[w][Dones[w] + 1] = Head(workerTasks[w])
  <2>1. DOMAIN c = 1 .. Len(c)
    BY <1>4, LenProperties
  <2> QED BY <1>1, <1>2, <1>4, <2>1
<1>16. Head(workerTasks[w]) \in Message
  <2>1. workerTasks[w] \in Seq(Message)
    BY <1>9
  <2> QED BY <2>1, TailAt
<1>17. Lines' = [Lines EXCEPT ![w] = [@ EXCEPT ![Dones[w] + 1] = x]]
  BY <1>4, <1>5, <1>7, <1>12, <1>15
<1>18. Len(Lines'[w]) = Len(Lines[w])
  BY <1>4, <1>6, <1>8, <1>12
<1> QED BY <1>14, <1>15, <1>16, <1>17, <1>18

-----------------------------------------------------------------------------
(* Every step keeps the invariant                                          *)

LEMMA NumWorkersFact ==
  /\ TypeOK => NumWorkers = Size
  /\ numTasksScheduled = <<>> => NumWorkers = 0
<1>1. ASSUME TypeOK PROVE NumWorkers = Size
  <2>1. DOMAIN numTasksScheduled = 0 .. Size - 1
    BY <1>1 DEF TypeOK, Ids
  <2>2. Size \in Nat /\ Size - 1 \in Int /\ 0 \in Int
    BY SizeAssumption
  <2>3. Cardinality(0 .. Size - 1) = Size
    BY <2>2, FS_Interval
  <2> QED BY <2>1, <2>3 DEF NumWorkers
<1>2. ASSUME numTasksScheduled = <<>> PROVE NumWorkers = 0
  <2>1. DOMAIN numTasksScheduled = {}
    BY <1>2
  <2> QED BY <2>1, FS_EmptySet DEF NumWorkers
<1> QED BY <1>1, <1>2

LEMMA NumWorkersAre ==
  ASSUME LoadOK
  PROVE  /\ NumWorkers = 0 \/ NumWorkers = Size
         /\ NumWorkers \in Nat /\ NumWorkers <= Size
         /\ NumWorkers > 0 => /\ NumWorkers = Size /\ TypeOK /\ LookupConsistent
                              /\ Exact(Lines, numTasksScheduled, stopsSent,
                                       numWaitingForReply)
BY SizeAssumption DEF LoadOK

(* What stays with its variables.                                           *)
LEMMA CallsStay ==
  ASSUME CallsOK, Lines' = Lines, Dones' = Dones, SubmittedTasks' = SubmittedTasks,
         UNCHANGED <<functionMap, executions, results, stopsSent>>
  PROVE  CallsOK'
BY DEF CallsOK

LEMMA SubmittedStay ==
  ASSUME UNCHANGED <<batch, round>>
  PROVE  SubmittedTasks' = SubmittedTasks
BY DEF SubmittedTasks

LEMMA UuidStay ==
  ASSUME UuidOK, UNCHANGED rpcVars
  PROVE  UuidOK'
BY DEF UuidOK, rpcVars

LEMMA RemainingStay ==
  ASSUME RemainingOK, UNCHANGED <<round, remaining, functionMap>>
  PROVE  RemainingOK'
BY DEF RemainingOK

LEMMA LoadStay ==
  ASSUME LoadOK, Lines' = Lines,
         UNCHANGED <<lrrVars, stopsSent, numWaitingForReply>>
  PROVE  LoadOK'
BY DEF LoadOK, NumWorkers, lrrVars, TypeOK, LookupConsistent, WorkerAvailable,
       FirstEntry

(* A step of the head that changes nothing but where it is, and what it     *)
(* knows of its sends.                                                      *)
LEMMA Quiet ==
  ASSUME IInv,
         UNCHANGED <<stopsSent, chainVars, tasks, numWaitingForReply, rpcVars,
                     lrrVars, toWorker, toHead, workerVars, history>>,
         headPc' \in HeadPcs, draining' \in BOOLEAN,
         outstanding' \subseteq Workers \X Message,
         headPc \notin {"deliver"}, headPc' \notin {"deliver", "submit"},
         headPc = "submit" => batch = <<>>, HeadOK', NoIdleWorker'
  PROVE  IInv'
<1> USE DEF chainVars, workerVars, history
<1>1. ODSTypeOK'
  BY DEF IInv, ODSTypeOK, TypeOK, NumWorkers, lrrVars, rpcVars
<1>2. Lines' = Lines /\ Dones' = Dones /\ SubmittedTasks' = SubmittedTasks
  BY LinesStay, DonesStay, SubmittedStay
<1>3. CallsOK'
  BY <1>2, CallsStay DEF IInv, rpcVars
<1>4. UuidOK' /\ RemainingOK' /\ LoadOK'
  BY <1>2, UuidStay, RemainingStay, LoadStay DEF IInv, rpcVars
<1>5. BatchOK'
  BY DEF IInv, BatchOK
<1>6. WorkersOK'
  BY DEF IInv, WorkersOK, NumWorkers, lrrVars
<1> QED BY <1>1, <1>3, <1>4, <1>5, <1>6 DEF IInv

(* do_work returns to the main loop, or to the one that empties the         *)
(* scheduler.                                                               *)
LEMMA ReturnKeeps ==
  ASSUME IInv, headPc \in {"fill", "reap", "own"}, headPc' = Return,
         NumWorkers > 0 => tasks = <<>> \/ ~WorkerAvailable,
         UNCHANGED <<loopVars, chainVars, tasks, numWaitingForReply, rpcVars,
                     lrrVars, toWorker, toHead, workerVars, history>>,
         outstanding' \subseteq Workers \X Message
  PROVE  IInv'
<1>1. headPc' \in {"app", "drain"} /\ headPc' \in HeadPcs
      /\ (draining => headPc' = "drain") /\ (~draining => headPc' = "app")
  BY DEF Return, HeadPcs
<1>2. /\ NumWorkers' = NumWorkers /\ (WorkerAvailable)' = WorkerAvailable
      /\ UNCHANGED <<draining, stopsSent, numTasksScheduled, functionMap>>
  BY DEF NumWorkers, WorkerAvailable, FirstEntry, lrrVars, loopVars, rpcVars
<1>3. HeadOK'
  BY <1>1, <1>2 DEF IInv, HeadOK
<1>4. NoIdleWorker'
  BY <1>2 DEF NoIdleWorker
<1>5. draining' \in BOOLEAN
  BY <1>2 DEF IInv, ODSTypeOK
<1> QED BY <1>1, <1>2, <1>3, <1>4, <1>5, Quiet

(* From one loop of do_work to the next, or into it.                        *)
LEMMA LoopKeeps ==
  ASSUME IInv, headPc \in {"app", "submit", "feed", "poll", "fill", "fillpoll", "drain"},
         headPc' \in {"feed", "poll", "fill", "fillpoll", "reap", "own"},
         headPc' = "own" => NumWorkers = 0, headPc' # "own" => NumWorkers > 0,
         headPc' = "reap" => ~WorkerAvailable,
         headPc = "submit" => batch = <<>>,
         UNCHANGED <<loopVars, chainVars, tasks, numWaitingForReply, outstanding,
                     rpcVars, lrrVars, toWorker, toHead, workerVars, history>>
  PROVE  IInv'
<1>1. headPc' \in HeadPcs
  BY DEF HeadPcs
<1>2. /\ NumWorkers' = NumWorkers /\ (WorkerAvailable)' = WorkerAvailable
      /\ UNCHANGED <<draining, stopsSent, numTasksScheduled, functionMap>>
  BY DEF NumWorkers, WorkerAvailable, FirstEntry, lrrVars, loopVars, rpcVars
<1>3. HeadOK'
  BY <1>2 DEF IInv, HeadOK
<1>4. NoIdleWorker'
  BY DEF NoIdleWorker
<1>5. draining' \in BOOLEAN /\ outstanding' \subseteq Workers \X Message
  BY <1>2 DEF IInv, ODSTypeOK
<1> QED BY <1>1, <1>2, <1>3, <1>4, <1>5, Quiet

LEMMA SubmittedKeeps ==
  ASSUME IInv, Submitted
  PROVE  IInv'
<1>1. headPc' \in {"feed", "own"} /\ (headPc' = "own" => NumWorkers = 0)
      /\ (headPc' # "own" => NumWorkers > 0)
  BY NumWorkersAre DEF IInv, Submitted, DoWorkPc
<1> QED BY <1>1, LoopKeeps DEF Submitted

LEMMA WaitKeeps ==
  ASSUME IInv, Wait
  PROVE  IInv'
<1>1. CASE \A c \in Chains : remaining[c] = 0
  <2>1. /\ headPc = "app" /\ headPc' = "drain" /\ draining' = TRUE
        /\ UNCHANGED <<stopsSent, chainVars, tasks, numWaitingForReply,
                       outstanding, rpcVars, lrrVars, toWorker, toHead,
                       workerVars, history>>
    BY <1>1 DEF Wait
  <2>2. /\ NumWorkers' = NumWorkers /\ (WorkerAvailable)' = WorkerAvailable
        /\ UNCHANGED <<stopsSent, numTasksScheduled, functionMap>>
    BY <2>1 DEF NumWorkers, WorkerAvailable, FirstEntry, lrrVars, rpcVars
  <2>3. HeadOK'
    BY <2>1, <2>2 DEF IInv, HeadOK
  <2>4. NoIdleWorker'
    BY <2>1, <2>2 DEF IInv, NoIdleWorker
  <2>5. headPc' \in HeadPcs /\ outstanding' \subseteq Workers \X Message
    BY <2>1 DEF IInv, ODSTypeOK, HeadPcs
  <2> QED BY <2>1, <2>3, <2>4, <2>5, Quiet
<1>2. CASE ~ \A c \in Chains : remaining[c] = 0
  <2>1. /\ headPc = "app" /\ headPc' = DoWorkPc
        /\ UNCHANGED <<loopVars, chainVars, tasks, numWaitingForReply,
                       outstanding, rpcVars, lrrVars, toWorker, toHead,
                       workerVars, history>>
    BY <1>2 DEF Wait, loopVars
  <2>2. headPc' \in {"feed", "own"} /\ (headPc' = "own" => NumWorkers = 0)
        /\ (headPc' # "own" => NumWorkers > 0)
    BY <2>1, NumWorkersAre DEF IInv, DoWorkPc
  <2> QED BY <2>1, <2>2, LoopKeeps
<1> QED BY <1>1, <1>2

LEMMA ReapKeeps ==
  ASSUME IInv, Reap
  PROVE  IInv'
<1>1. headPc = "reap" /\ headPc' = Return /\ ~WorkerAvailable
  BY DEF Reap, IInv, HeadOK
<1>2. outstanding' \subseteq Workers \X Message
  BY DEF Reap, TestForMessages, IInv, ODSTypeOK
<1> QED BY <1>1, <1>2, ReturnKeeps DEF Reap

(* When nothing is outstanding nobody holds a call.                         *)
LEMMA NothingLeft ==
  ASSUME IInv, headPc = "drain", ~IsWorkOutstanding
  PROVE  /\ tasks = <<>> /\ stopsSent = 0 /\ numWaitingForReply = 0
         /\ \A id \in DOMAIN numTasksScheduled : numTasksScheduled[id] = 0
         /\ \A w \in Workers : Lines[w] = <<>>
<1>1. tasks = <<>> /\ ~(numWaitingForReply > 0)
  BY DEF IsWorkOutstanding
<1>2. stopsSent = 0 /\ numWaitingForReply = 0
  BY <1>1 DEF IInv, HeadOK, ODSTypeOK
<1>3. /\ \A id \in DOMAIN numTasksScheduled : numTasksScheduled[id] = 0
      /\ \A w \in Workers : Lines[w] = <<>>
  <2>1. CASE /\ NumWorkers = Size /\ TypeOK
             /\ Exact(Lines, numTasksScheduled, stopsSent, numWaitingForReply)
    <3>1. numTasksScheduled \in [Ids -> Loads]
      BY <2>1 DEF TypeOK
    <3>2. Cardinality(Units(numTasksScheduled)) = 0
      BY <1>2, <2>1, UnitsFinite DEF Exact
    <3>3. \A id \in Ids : numTasksScheduled[id] = 0
      BY <3>1, <3>2, UnitsNone
    <3>4. ASSUME NEW w \in Workers PROVE Lines[w] = <<>>
      <4>1. w - 1 \in Ids /\ ~(w <= 0)
        BY SizeAssumption DEF Workers, Ids
      <4>2. Len(Lines[w]) = 0
        BY <1>2, <2>1, <3>3, <4>1 DEF Exact
      <4>3. Lines[w] \in Seq(Packet)
        BY LinesFact, HolderFacts DEF IInv
      <4> QED BY <4>2, <4>3, EmptySeq
    <3> QED BY <3>1, <3>3, <3>4
  <2>2. CASE numTasksScheduled = <<>> /\ \A w \in Workers : Lines[w] = <<>>
    BY <2>2
  <2> QED BY <2>1, <2>2 DEF IInv, LoadOK
<1> QED BY <1>1, <1>2, <1>3

LEMMA DrainKeeps ==
  ASSUME IInv, Drain
  PROVE  IInv'
<1>1. /\ headPc = "drain"
      /\ UNCHANGED <<loopVars, chainVars, tasks, numWaitingForReply, outstanding,
                     rpcVars, lrrVars, toWorker, toHead, workerVars, history>>
  BY DEF Drain, Stay
<1>2. CASE IsWorkOutstanding
  <2>1. headPc' = DoWorkPc
    BY <1>2 DEF Drain
  <2>2. headPc' \in {"feed", "own"} /\ (headPc' = "own" => NumWorkers = 0)
        /\ (headPc' # "own" => NumWorkers > 0)
    BY <2>1, NumWorkersAre DEF IInv, DoWorkPc
  <2> QED BY <1>1, <2>2, LoopKeeps
<1>3. CASE ~IsWorkOutstanding
  <2>1. headPc' = "stop" /\ tasks = <<>> /\ ~(numWaitingForReply > 0)
    BY <1>3 DEF Drain, IsWorkOutstanding
  <2>2. /\ NumWorkers' = NumWorkers /\ (WorkerAvailable)' = WorkerAvailable
        /\ UNCHANGED <<draining, stopsSent, numTasksScheduled, functionMap>>
    BY <1>1 DEF NumWorkers, WorkerAvailable, FirstEntry, lrrVars, loopVars,
                rpcVars
  <2>3. /\ stopsSent = 0 /\ numWaitingForReply = 0
        /\ \A id \in DOMAIN numTasksScheduled : numTasksScheduled[id] = 0
        /\ \A w \in Workers : Lines[w] = <<>>
    BY <1>1, <1>3, NothingLeft
  <2>4. DOMAIN functionMap = {}
    <3>1. \A h \in Holders : DOMAIN Lines[h] = {}
      BY <2>1, <2>3, HolderFacts, LinesFact DEF IInv
    <3>2. IdsHeld(Lines, functionMap)
      BY DEF IInv, CallsOK, HoldersOK
    <3> QED BY <3>1, <3>2 DEF IdsHeld
  <2>5. HeadOK'
    BY <1>1, <2>1, <2>2, <2>3, <2>4 DEF IInv, HeadOK
  <2>6. NoIdleWorker'
    BY <2>1 DEF NoIdleWorker
  <2>7. /\ headPc' \in HeadPcs /\ outstanding' \subseteq Workers \X Message
        /\ draining' \in BOOLEAN
    BY <1>1, <2>1, <2>2 DEF IInv, ODSTypeOK, HeadPcs
  <2> QED BY <1>1, <2>1, <2>2, <2>5, <2>6, <2>7, Quiet
<1> QED BY <1>2, <1>3

LEMMA SentTypes ==
  ASSUME ODSTypeOK, NEW w \in Workers, NEW m \in Message, SendCall(w, m)
  PROVE  /\ toWorker' = [toWorker EXCEPT ![w] = Append(@, m)]
         /\ toWorker' \in [Workers -> Seq(Message)]
         /\ outstanding' \subseteq Workers \X Message
<1>1. toWorker \in [Workers -> Seq(Message)] /\ outstanding \subseteq Workers \X Message
  BY DEF ODSTypeOK
<1>2. toWorker' = [toWorker EXCEPT ![w] = Append(@, m)]
  BY DEF SendCall
<1>3. Append(toWorker[w], m) \in Seq(Message)
  BY <1>1, AppendAt
<1>4. outstanding' \subseteq Workers \X Message
  BY <1>1 DEF SendCall
<1> QED BY <1>1, <1>2, <1>3, <1>4

(* A call goes to the least loaded worker, or to the end of the queue.      *)
Sent(m, q, w) ==
  Lines' = [[Lines EXCEPT ![0] = q] EXCEPT ![w] = Append(@, m)]

LEMMA Scheduled ==
  ASSUME IInv, NEW m \in Message, NEW q \in Seq(Message), Schedule(m, q),
         UNCHANGED <<toHead, workerTasks, stopsSent>>
  PROVE  /\ toWorker' \in [Workers -> Seq(Message)]
         /\ outstanding' \subseteq Workers \X Message
         /\ tasks' \in Seq(Message) /\ numWaitingForReply' \in Nat
         /\ NumWorkers' = NumWorkers /\ (NumWorkers' > 0 => TypeOK')
         /\ LoadOK'
         /\ \/ /\ WorkerAvailable /\ tasks' = q
               /\ \E w \in Workers : Sent(m, q, w)
            \/ ~WorkerAvailable /\ tasks' = Append(q, m)
               /\ Lines' = [Lines EXCEPT ![0] = Append(q, m)]
<1>1. /\ ODSTypeOK /\ LoadOK /\ m \in Packet /\ q \in Seq(Packet)
      /\ numWaitingForReply \in Nat /\ stopsSent \in Nat
      /\ Lines \in [Holders -> Seq(Packet)]
  <2>1. Message \subseteq Packet
    BY DEF Packet
  <2>2. q \in Seq(Packet)
    BY <2>1, SeqWider
  <2>3. numWaitingForReply \in Nat /\ stopsSent \in Nat
    BY SizeAssumption DEF IInv, ODSTypeOK
  <2> QED BY <2>1, <2>2, <2>3, LinesFact DEF IInv
<1>2. CASE WorkerAvailable
  <2>1. /\ GetIdToScheduleTaskOn /\ SendCall(NextId + 1, m)
        /\ numWaitingForReply' = numWaitingForReply + 1 /\ tasks' = q
    BY <1>2 DEF Schedule
  <2>2. /\ NumWorkers = Size /\ TypeOK /\ Inv
        /\ Exact(Lines, numTasksScheduled, stopsSent, numWaitingForReply)
    BY <1>1, <1>2 DEF LoadOK, Inv
  <2>3. /\ FirstLoad \in 0 .. WorkloadCapacity - 1 /\ NextId \in Ids
        /\ numTasksScheduled[NextId] = FirstLoad
    BY <1>2, <2>2, FirstLoadFact
  <2>4. NextId + 1 \in Workers
    BY <2>3, SizeAssumption DEF Ids, Workers
  <2>5. Inv'
    BY <2>1, <2>2, ScheduleKeepsInv
  <2>6. NumWorkers' = Size /\ TypeOK' /\ LookupConsistent'
    <3>1. TypeOK' /\ LookupConsistent'
      BY <2>5 DEF Inv
    <3>2. DOMAIN numTasksScheduled' = DOMAIN numTasksScheduled
      BY <2>2, <3>1 DEF TypeOK
    <3> QED BY <2>2, <3>1, <3>2 DEF NumWorkers
  <2>7. /\ toWorker' = [toWorker EXCEPT ![NextId + 1] = Append(@, m)]
        /\ toWorker' \in [Workers -> Seq(Message)]
        /\ outstanding' \subseteq Workers \X Message
    BY <1>1, <2>1, <2>4, SentTypes
  <2>8. Sent(m, q, NextId + 1)
    BY <1>1, <2>1, <2>4, <2>7, LinesSend DEF Sent
  <2>9. \E L : \E id \in Ids : L = [Lines EXCEPT ![0] = q] /\ id = NextId
    BY <2>3
  <2> PICK L : \E id \in Ids : L = [Lines EXCEPT ![0] = q] /\ id = NextId
    BY <2>9
  <2>19. PICK id \in Ids : L = [Lines EXCEPT ![0] = q] /\ id = NextId
    OBVIOUS
  <2>10. /\ L \in [Holders -> Seq(Packet)]
         /\ \A w \in Workers : L[w] = Lines[w]
    BY <1>1, <2>19, HolderFacts
  <2>11. Exact(L, numTasksScheduled, stopsSent, numWaitingForReply)
    BY <2>2, <2>10, ExactSame
  <2>12. Lines' = [L EXCEPT ![id + 1] = Append(@, m)] /\ id + 1 \in Workers
         /\ id + 1 \in Holders
    BY <2>4, <2>8, <2>19, HolderFacts DEF Sent
  <2>13. /\ Len(Lines'[id + 1]) = Len(L[id + 1]) + 1
         /\ \A w \in Workers : w # id + 1 => Len(Lines'[w]) = Len(L[w])
    BY <1>1, <2>10, <2>12, AppendPlaces, HolderFacts
  <2>14. /\ numTasksScheduled \in [Ids -> Loads]
         /\ numTasksScheduled[id] < WorkloadCapacity
    BY <2>2, <2>3, <2>19, CapacityAssumption DEF TypeOK
  <2>15. Exact(Lines', [numTasksScheduled EXCEPT ![id] = @ + 1], stopsSent,
               numWaitingForReply + 1)
    BY <1>1, <2>11, <2>13, <2>14, ExactUp
  <2>16. numTasksScheduled' = [numTasksScheduled EXCEPT ![id] = @ + 1]
    BY <2>1, <2>19 DEF GetIdToScheduleTaskOn
  <2>17. Exact(Lines', numTasksScheduled', stopsSent', numWaitingForReply')
    BY <2>1, <2>15, <2>16
  <2>18. LoadOK'
    BY <2>6, <2>17 DEF LoadOK, Exact, Units
  <2> QED BY <1>1, <1>2, <2>1, <2>2, <2>4, <2>6, <2>7, <2>8, <2>18
<1>3. CASE ~WorkerAvailable
  <2>1. /\ tasks' = Append(q, m)
        /\ UNCHANGED <<lrrVars, toWorker, outstanding, numWaitingForReply>>
    BY <1>3 DEF Schedule
  <2>2. Append(q, m) \in Seq(Packet) /\ Append(q, m) \in Seq(Message)
    BY <1>1, AppendAt
  <2>3. Lines' = [Lines EXCEPT ![0] = Append(q, m)]
    BY <1>1, <2>1, <2>2, LinesQueue
  <2>4. \A w \in Workers : Lines'[w] = Lines[w]
    BY <1>1, <2>3, HolderFacts
  <2>5. /\ NumWorkers' = NumWorkers /\ (TypeOK)' = TypeOK
        /\ (LookupConsistent)' = LookupConsistent
        /\ (WorkerAvailable)' = WorkerAvailable
        /\ numTasksScheduled' = numTasksScheduled
    BY <2>1 DEF NumWorkers, TypeOK, LookupConsistent, lrrVars, WorkerAvailable,
                FirstEntry
  <2>6. ASSUME Exact(Lines, numTasksScheduled, stopsSent, numWaitingForReply)
        PROVE  Exact(Lines, numTasksScheduled, stopsSent, numWaitingForReply)'
    <3>1. Exact(Lines', numTasksScheduled, stopsSent, numWaitingForReply)
      BY <2>4, <2>6, ExactSame
    <3> QED BY <2>1, <2>5, <3>1 DEF Exact, Units
  <2>7. LoadOK'
    BY <1>1, <2>1, <2>4, <2>5, <2>6 DEF LoadOK
  <2>8. NumWorkers' > 0 => TypeOK'
    BY <1>1, <2>5 DEF ODSTypeOK
  <2> QED BY <1>1, <1>3, <2>1, <2>2, <2>3, <2>5, <2>7, <2>8 DEF ODSTypeOK
<1> QED BY <1>2, <1>3

(* What holds for the chains bounds what they wait for.                     *)
LEMMA RemainingTyped ==
  ASSUME CallsOK', RemainingOK', newUuid' \in Nat,
         DOMAIN functionMap' \subseteq 1 .. newUuid',
         remaining' = [c \in Chains |-> remaining'[c]]
  PROVE  remaining' \in [Chains -> 0 .. BatchSize]
<1>1. PICK F, L, D, E, R, S, K, r :
        /\ F = functionMap' /\ L = Lines' /\ D = Dones' /\ E = executions'
        /\ R = results' /\ S = SubmittedTasks' /\ K = 1 .. stopsSent'
        /\ r = round'
  OBVIOUS
<1>5. PICK n \in Nat : n = newUuid'
  OBVIOUS
<1>2. HoldersOK(L, D, F, E, R, S, K)
  BY <1>1 DEF CallsOK
<1>3. /\ DOMAIN F \subseteq 1 .. n
      /\ \A id \in DOMAIN F : F[id] \in ChainTasks
      /\ \A id \in DOMAIN F : F[id][2] = r[F[id][1]]
      /\ \A c \in Chains : remaining'[c] = Cardinality(AwaitedOf(F, c))
  BY <1>1, <1>5 DEF RemainingOK
<1>4. \A c \in Chains : Cardinality(AwaitedOf(F, c)) \in 0 .. BatchSize
  BY <1>2, <1>3, AwaitedBound
<1> QED BY <1>3, <1>4

(* A batch that begins is not yet submitted.                                *)
LEMMA StartRoundSubmitted ==
  ASSUME IInv, NEW c \in Chains, StartRound(c)
  PROVE  SubmittedTasks' = SubmittedTasks
<1>1. /\ headPc = "app" /\ round[c] < Rounds
      /\ round' = [round EXCEPT ![c] = @ + 1]
      /\ batch' = [i \in 1 .. BatchSize |-> <<c, round[c] + 1, i>>]
  BY DEF StartRound
<1>2. /\ round \in [Chains -> 0 .. Rounds] /\ Rounds \in Nat /\ BatchSize \in Nat
      /\ batch = <<>>
  BY <1>1, ODSAssumption DEF IInv, ODSTypeOK, BatchOK
<1>3. /\ round[c] + 1 \in 1 .. Rounds /\ round'[c] = round[c] + 1
      /\ \A d \in Chains : d # c => round'[d] = round[d]
  BY <1>1, <1>2
<1>4. \A i \in 1 .. BatchSize : /\ batch'[i] = <<c, round[c] + 1, i>>
                                /\ batch'[i] \in ChainTasks
                                /\ batch'[i] \in Tasks
  BY <1>1, <1>3 DEF ChainTasks, Tasks
<1>5. DOMAIN batch' = 1 .. BatchSize
  BY <1>1
<1>6. SubmittedTasks' = SubmittedTasks
  <2>1. ASSUME NEW t \in Tasks
        PROVE  (t \in SubmittedTasks') <=> (t \in SubmittedTasks)
    <3>1. t \notin ToSet(batch)
      BY <1>2 DEF ToSet
    <3>2. t \in ToSet(batch') <=> \E i \in 1 .. BatchSize : t = <<c, round[c] + 1, i>>
      BY <1>4, <1>5 DEF ToSet
    <3>3. CASE t \in NoticeTasks
      <4>1. t \notin ToSet(batch')
        BY <1>4, <3>2, <3>3, TaskFacts
      <4> QED BY <3>1, <3>3, <4>1 DEF SubmittedTasks
    <3>4. CASE t \in ChainTasks
      <4>1. /\ t = <<t[1], t[2], t[3]>> /\ t[1] \in Chains /\ t[2] \in 1 .. Rounds
            /\ t[3] \in 1 .. BatchSize /\ t \notin NoticeTasks
        BY <3>4, TaskFacts
      <4>2. t \in ToSet(batch') <=> t[1] = c /\ t[2] = round[c] + 1
        BY <3>2, <4>1
      <4>3. (t \notin ToSet(batch') /\ round'[t[1]] >= t[2]) <=>
              round[t[1]] >= t[2]
        <5>1. round[c] \in Int /\ t[2] \in Int
          BY <1>2, <4>1
        <5>2. CASE t[1] = c
          BY <1>3, <4>2, <5>1, <5>2
        <5>3. CASE t[1] # c
          BY <1>3, <4>1, <4>2, <5>3
        <5> QED BY <5>2, <5>3
      <4> QED BY <3>1, <4>1, <4>3 DEF SubmittedTasks
    <3> QED BY <3>3, <3>4 DEF Tasks
  <2>2. SubmittedTasks' \subseteq Tasks /\ SubmittedTasks \subseteq Tasks
    BY DEF SubmittedTasks, Tasks, ChainTasks, NoticeTasks
  <2> QED BY <2>1, <2>2
<1> QED BY <1>6

LEMMA StartRoundKeeps ==
  ASSUME IInv, NEW c \in Chains, StartRound(c)
  PROVE  IInv'
<1>1. /\ headPc = "app" /\ headPc' = "submit" /\ remaining[c] = 0
      /\ round[c] < Rounds /\ round' = [round EXCEPT ![c] = @ + 1]
      /\ batch' = [i \in 1 .. BatchSize |-> <<c, round[c] + 1, i>>]
      /\ UNCHANGED <<draining, stopsSent, remaining, tasks, numWaitingForReply,
                     outstanding, functionMap, newUuid, unused,
                     numTasksScheduled, idsForScheduled, toWorker, toHead,
                     workerPc, workerTasks, workerOutstanding, executions,
                     results>>
  BY DEF StartRound, loopVars, rpcVars, lrrVars, workerVars, history
<1>2. /\ round \in [Chains -> 0 .. Rounds] /\ Rounds \in Nat /\ BatchSize \in Nat
      /\ batch = <<>>
  BY <1>1, ODSAssumption DEF IInv, ODSTypeOK, BatchOK
<1>3. /\ round[c] + 1 \in 1 .. Rounds
      /\ round' \in [Chains -> 0 .. Rounds] /\ round'[c] = round[c] + 1
      /\ \A d \in Chains : d # c => round'[d] = round[d]
  BY <1>1, <1>2
<1>4. \A i \in 1 .. BatchSize : /\ batch'[i] = <<c, round[c] + 1, i>>
                                /\ batch'[i] \in ChainTasks
                                /\ batch'[i] \in Tasks
  BY <1>1, <1>3 DEF ChainTasks, Tasks
<1>5. /\ batch' \in Seq(Tasks) /\ DOMAIN batch' = 1 .. BatchSize
  <2>1. batch' \in [1 .. BatchSize -> Tasks]
    BY <1>1, <1>4
  <2> QED BY <1>2, <2>1
<1>6. ODSTypeOK'
  BY <1>1, <1>3, <1>5 DEF IInv, ODSTypeOK, TypeOK, NumWorkers, HeadPcs
<1>7. SubmittedTasks' = SubmittedTasks
  BY StartRoundSubmitted
<1>8. Lines' = Lines /\ Dones' = Dones
  BY <1>1, LinesStay, DonesStay
<1>9. CallsOK'
  BY <1>1, <1>7, <1>8, CallsStay DEF IInv
<1>10. UuidOK' /\ LoadOK'
  BY <1>1, <1>8, UuidStay, LoadStay DEF IInv, rpcVars, lrrVars
<1>11. BatchOK'
  <2>1. \A i \in DOMAIN batch' : batch'[i][1] = c /\ batch'[i][2] = round[c] + 1
                                 /\ batch'[i][3] = i
    BY <1>4, <1>5
  <2> QED BY <1>1, <1>3, <2>1 DEF BatchOK
<1>12. RemainingOK'
  <2>1. AwaitedOf(functionMap, c) = {}
    <3>1. PICK F, L, D, E, R, S, K, r :
            /\ F = functionMap /\ L = Lines /\ D = Dones /\ E = executions
            /\ R = results /\ S = SubmittedTasks /\ K = 1 .. stopsSent
            /\ r = round
      OBVIOUS
    <3>2. PICK n \in Nat : n = newUuid
      BY DEF IInv, ODSTypeOK
    <3>3. HoldersOK(L, D, F, E, R, S, K)
      BY <3>1 DEF IInv, CallsOK
    <3>4. /\ DOMAIN F \subseteq 1 .. n
          /\ \A id \in DOMAIN F : F[id] \in ChainTasks
          /\ \A id \in DOMAIN F : F[id][2] = r[F[id][1]]
          /\ Cardinality(AwaitedOf(F, c)) = 0
      BY <1>1, <3>1, <3>2 DEF IInv, RemainingOK, ODSTypeOK
    <3>5. IsFiniteSet(AwaitedOf(F, c))
      BY <3>3, <3>4, AwaitedBound
    <3> QED BY <3>1, <3>4, <3>5, FS_EmptySet
  <2>2. \A id \in DOMAIN functionMap : functionMap[id][1] # c
    BY <2>1 DEF AwaitedOf
  <2>3. \A id \in DOMAIN functionMap :
          functionMap[id] \in ChainTasks /\ functionMap[id][1] \in Chains
    BY TaskFacts DEF IInv, RemainingOK
  <2> QED BY <1>1, <1>3, <2>2, <2>3 DEF IInv, RemainingOK
<1>13. NumWorkers' = NumWorkers /\ (WorkerAvailable)' = WorkerAvailable
  BY <1>1 DEF NumWorkers, WorkerAvailable, FirstEntry
<1>14. HeadOK'
  BY <1>1, <1>13 DEF IInv, HeadOK
<1>15. WorkersOK' /\ NoIdleWorker'
  BY <1>1, <1>13 DEF IInv, WorkersOK, NoIdleWorker
<1> QED BY <1>6, <1>9, <1>10, <1>11, <1>12, <1>14, <1>15 DEF IInv

(* The next call of the batch: it was not submitted before.                 *)
LEMMA NextOfBatch ==
  ASSUME IInv, batch # <<>>, batch' = Tail(batch), round' = round
  PROVE  /\ Head(batch) \in Tasks \ SubmittedTasks
         /\ SubmittedTasks' = SubmittedTasks \union {Head(batch)}
         /\ Head(batch) \in ChainTasks =>
              Head(batch)[2] = round[Head(batch)[1]]
         /\ Tail(batch) \in Seq(Tasks)
         /\ \A i \in DOMAIN Tail(batch) : Tail(batch)[i] \in ChainTasks =>
              Tail(batch)[i][2] = round[Tail(batch)[i][1]]
         /\ \A i, j \in DOMAIN Tail(batch) : Tail(batch)[i] = Tail(batch)[j] => i = j
<1>1. /\ batch \in Seq(Tasks) /\ round \in [Chains -> 0 .. Rounds]
      /\ \A i \in DOMAIN batch :
           batch[i] \in ChainTasks => batch[i][2] = round[batch[i][1]]
      /\ \A i, j \in DOMAIN batch : batch[i] = batch[j] => i = j
  BY DEF IInv, ODSTypeOK, BatchOK
<1>2. PICK s \in Seq(Tasks), t \in Seq(Tasks) : s = batch /\ t = Tail(batch)
  <2>1. Tail(batch) \in Seq(Tasks)
    BY <1>1, TailAt
  <2> QED BY <1>1, <2>1
<1>3. /\ Head(s) = s[1] /\ s[1] \in Tasks /\ Len(s) \in Nat \ {0}
      /\ DOMAIN s = 1 .. Len(s) /\ DOMAIN t = 1 .. Len(s) - 1
      /\ \A n \in DOMAIN t : n + 1 \in DOMAIN s /\ t[n] = s[n + 1]
  BY <1>2, TailAt
<1>4. 1 \in DOMAIN s /\ \A n \in DOMAIN t : n + 1 # 1 /\ n \in Int
  BY <1>3
<1>5. \A x : x \in ToSet(s) <=> x = s[1] \/ x \in ToSet(t)
  <2>1. ASSUME NEW i \in DOMAIN s, i # 1
        PROVE  i - 1 \in DOMAIN t /\ t[i - 1] = s[i]
    <3>1. i - 1 \in DOMAIN t /\ (i - 1) + 1 = i
      BY <1>3, <2>1
    <3> QED BY <1>3, <3>1
  <2>2. ASSUME NEW x \in ToSet(s) PROVE x = s[1] \/ x \in ToSet(t)
    <3>1. PICK i \in DOMAIN s : x = s[i]
      BY DEF ToSet
    <3> QED BY <2>1, <3>1 DEF ToSet
  <2>3. s[1] \in ToSet(s)
    BY <1>4 DEF ToSet
  <2>4. ASSUME NEW x \in ToSet(t) PROVE x \in ToSet(s)
    <3>1. PICK i \in DOMAIN t : x = t[i]
      BY DEF ToSet
    <3> QED BY <1>3, <3>1 DEF ToSet
  <2> QED BY <2>2, <2>3, <2>4
<1>6. s[1] \notin ToSet(t)
  BY <1>1, <1>2, <1>3, <1>4 DEF ToSet
<1>7. s[1] \in NoticeTasks \/ round[s[1][1]] >= s[1][2]
  <2>1. CASE s[1] \in ChainTasks
    <3>1. s[1][2] = round[s[1][1]] /\ s[1][2] \in Int
      BY <1>1, <1>2, <1>4, <2>1, TaskFacts
    <3> QED BY <3>1
  <2> QED BY <1>3, <2>1 DEF Tasks
<1>8. Head(batch) \in Tasks \ SubmittedTasks
  BY <1>2, <1>3, <1>5 DEF SubmittedTasks
<1>9. SubmittedTasks' = SubmittedTasks \union {Head(batch)}
  <2>1. NoticeTasks' = NoticeTasks /\ Tasks' = Tasks
    BY DEF NoticeTasks, Tasks, ChainTasks
  <2>2. ASSUME NEW x \in Tasks
        PROVE  x \in SubmittedTasks' <=> x \in SubmittedTasks \/ x = s[1]
    <3>1. CASE x = s[1]
      BY <1>2, <1>6, <1>7, <2>1, <3>1 DEF SubmittedTasks
    <3>2. CASE x # s[1]
      BY <1>2, <1>5, <2>1, <3>2 DEF SubmittedTasks
    <3> QED BY <3>1, <3>2
  <2>3. SubmittedTasks' \subseteq Tasks /\ SubmittedTasks \subseteq Tasks
    BY <2>1 DEF SubmittedTasks
  <2> QED BY <1>2, <1>3, <2>2, <2>3
<1>10. s[1] \in ChainTasks => s[1][2] = round[s[1][1]]
  BY <1>1, <1>2, <1>4
<1>11. /\ \A i \in DOMAIN t : t[i] \in ChainTasks => t[i][2] = round[t[i][1]]
       /\ \A i, j \in DOMAIN t : t[i] = t[j] => i = j
  <2>1. ASSUME NEW i \in DOMAIN t, NEW j \in DOMAIN t, t[i] = t[j] PROVE i = j
    <3>1. i + 1 = j + 1
      BY <1>1, <1>2, <1>3, <2>1
    <3> QED BY <1>4, <3>1
  <2> QED BY <1>1, <1>2, <1>3, <2>1
<1> QED BY <1>2, <1>3, <1>8, <1>9, <1>10, <1>11

(* The id that is handed out is new, and stays accounted for.               *)
LEMMA FrontAt ==
  ASSUME NEW S, NEW s \in Seq(S), s # <<>>
  PROVE  /\ Front(s) \in Seq(S) /\ Last(s) = s[Len(s)] /\ Last(s) \in S
         /\ Len(s) \in Nat \ {0} /\ DOMAIN s = 1 .. Len(s)
         /\ DOMAIN Front(s) = 1 .. Len(s) - 1
         /\ \A n \in 1 .. Len(s) - 1 : Front(s)[n] = s[n]
<1>1. Len(s) \in Nat \ {0} /\ DOMAIN s = 1 .. Len(s)
  BY TailAt
<1>2. /\ Len(s) - 1 \in 0 .. Len(s) /\ 1 \in 1 .. Len(s) + 1
      /\ Len(s) \in 1 .. Len(s)
  BY <1>1
<1>3. /\ SubSeq(s, 1, Len(s) - 1) \in Seq(S)
      /\ Len(SubSeq(s, 1, Len(s) - 1)) = Len(s) - 1
      /\ \A n \in 1 .. Len(s) - 1 : SubSeq(s, 1, Len(s) - 1)[n] = s[n]
  BY <1>1, <1>2, SubSeqProperties
<1>4. Front(s) = SubSeq(s, 1, Len(s) - 1) /\ Last(s) = s[Len(s)]
  BY DEF Front, Last
<1>5. DOMAIN Front(s) = 1 .. Len(s) - 1
  BY <1>3, <1>4, LenProperties
<1>6. s[Len(s)] \in S
  BY <1>2, ElementOfSeq
<1> QED BY <1>1, <1>3, <1>4, <1>5, <1>6

LEMMA OnResultKeeps ==
  ASSUME ODSTypeOK, UuidOK, NEW t \in Tasks, OnResult(t)
  PROVE  /\ FreshId \in Nat \ {0} /\ FreshId \notin DOMAIN functionMap
         /\ DOMAIN functionMap' = DOMAIN functionMap \union {FreshId}
         /\ functionMap'[FreshId] = t
         /\ \A id \in DOMAIN functionMap : functionMap'[id] = functionMap[id]
         /\ newUuid' \in Nat /\ unused' \in Seq(Nat)
         /\ DOMAIN functionMap' \subseteq 1 .. newUuid'
         /\ \A id \in DOMAIN functionMap' : functionMap'[id] \in Tasks
         /\ UuidOK'
<1>1. /\ newUuid \in Nat /\ unused \in Seq(Nat)
      /\ DOMAIN functionMap \subseteq 1 .. newUuid
      /\ \A id \in DOMAIN functionMap : functionMap[id] \in Tasks
  BY DEF ODSTypeOK
<1>2. /\ \A id \in 1 .. newUuid : id \notin DOMAIN functionMap =>
           \E i \in DOMAIN unused : unused[i] = id - 1
      /\ \A i \in DOMAIN unused :
           unused[i] + 1 \in (1 .. newUuid) \ DOMAIN functionMap
      /\ \A i, j \in DOMAIN unused : unused[i] = unused[j] => i = j
  BY DEF UuidOK
<1>3. /\ FreshId \notin DOMAIN functionMap
      /\ functionMap' = [id \in DOMAIN functionMap \union {FreshId} |->
                           IF id = FreshId THEN t ELSE functionMap[id]]
  BY DEF OnResult
<1>4. /\ DOMAIN functionMap' = DOMAIN functionMap \union {FreshId}
      /\ functionMap'[FreshId] = t
      /\ \A id \in DOMAIN functionMap : functionMap'[id] = functionMap[id]
      /\ \A id \in DOMAIN functionMap' : functionMap'[id] \in Tasks
  BY <1>1, <1>3
<1>5. CASE unused = <<>>
  <2>1. FreshId = newUuid + 1 /\ newUuid' = newUuid + 1 /\ unused' = unused
    <3>1. FreshId = 1 + newUuid
      BY <1>5 DEF FreshId
    <3>2. newUuid' = newUuid + 1 /\ unused' = unused
      BY <1>5 DEF OnResult
    <3> QED BY <1>1, <3>1, <3>2
  <2>2. DOMAIN unused = {}
    BY <1>5
  <2>3. \A id \in 1 .. newUuid' : id \in DOMAIN functionMap'
    BY <1>1, <1>2, <1>4, <2>1, <2>2
  <2>4. UuidOK'
    BY <2>1, <2>2, <2>3 DEF UuidOK
  <2>5. DOMAIN functionMap' \subseteq 1 .. newUuid'
    BY <1>1, <1>4, <2>1
  <2> QED BY <1>1, <1>3, <1>4, <2>1, <2>4, <2>5
<1>6. CASE unused # <<>>
  <2>1. PICK s \in Seq(Nat), f \in Seq(Nat) : s = unused /\ f = Front(unused)
    BY <1>1, <1>6, FrontAt
  <2>2. /\ s[Len(s)] \in Nat /\ Len(s) \in Nat \ {0} /\ DOMAIN s = 1 .. Len(s)
        /\ DOMAIN f = 1 .. Len(s) - 1
        /\ \A n \in 1 .. Len(s) - 1 : f[n] = s[n]
        /\ Last(unused) = s[Len(s)]
    <3>1. s # <<>> /\ f = Front(s) /\ Last(s) = Last(unused)
      BY <1>6, <2>1
    <3> QED BY <3>1, FrontAt, SMTT(40)
  <2>3. /\ FreshId = s[Len(s)] + 1 /\ newUuid' = newUuid /\ unused' = f
    <3>1. FreshId = 1 + s[Len(s)]
      BY <1>6, <2>2 DEF FreshId
    <3>2. newUuid' = newUuid /\ unused' = f
      BY <1>6, <2>1 DEF OnResult
    <3> QED BY <2>2, <3>1, <3>2
  <2>4. /\ Len(s) \in DOMAIN s /\ FreshId \in 1 .. newUuid
        /\ \A n \in DOMAIN f : n \in DOMAIN s /\ n # Len(s) /\ f[n] = s[n]
        /\ \A n \in DOMAIN s : n = Len(s) \/ n \in DOMAIN f
    <3>1. Len(s) \in DOMAIN s
      BY <2>2
    <3>2. FreshId \in 1 .. newUuid
      BY <1>2, <2>1, <2>3, <3>1
    <3> QED BY <2>2, <3>1, <3>2
  <2>5. \A id \in 1 .. newUuid' : id \notin DOMAIN functionMap' =>
          \E i \in DOMAIN unused' : unused'[i] = id - 1
    <3> SUFFICES ASSUME NEW id \in 1 .. newUuid, id \notin DOMAIN functionMap'
                 PROVE  \E i \in DOMAIN f : f[i] = id - 1
      BY <2>3
    <3>1. PICK i \in DOMAIN s : s[i] = id - 1
      BY <1>2, <1>4, <2>1
    <3>2. id # s[Len(s)] + 1
      BY <1>4, <2>3
    <3>3. i # Len(s)
      BY <2>2, <3>1, <3>2
    <3> QED BY <2>4, <3>1, <3>3
  <2>6. \A i \in DOMAIN unused' :
          unused'[i] + 1 \in (1 .. newUuid') \ DOMAIN functionMap'
    <3> SUFFICES ASSUME NEW i \in DOMAIN f
                 PROVE  f[i] + 1 \in (1 .. newUuid) \ DOMAIN functionMap'
      BY <2>3
    <3>1. i \in DOMAIN s /\ f[i] = s[i] /\ s[i] # s[Len(s)]
      BY <1>2, <2>1, <2>4
    <3>2. s[i] \in Nat
      BY <2>1, <3>1, ElementOfSeq, LenProperties
    <3>3. s[i] + 1 # FreshId
      BY <2>2, <2>3, <3>1, <3>2
    <3> QED BY <1>2, <1>4, <2>1, <3>1, <3>3
  <2>7. \A i, j \in DOMAIN unused' : unused'[i] = unused'[j] => i = j
    BY <1>2, <2>1, <2>3, <2>4
  <2>8. UuidOK'
    BY <2>5, <2>6, <2>7 DEF UuidOK
  <2>9. DOMAIN functionMap' \subseteq 1 .. newUuid'
    BY <1>1, <1>4, <2>3, <2>4
  <2>10. FreshId \in Nat \ {0}
    BY <1>1, <2>4
  <2> QED BY <1>1, <1>3, <1>4, <2>1, <2>3, <2>8, <2>9, <2>10
<1> QED BY <1>5, <1>6

(* What the next call of the batch needs to be sent.                        *)
LEMMA SubmitKeepsOthers ==
  ASSUME IInv, Submit, LoadOK', CallsOK', UuidOK', RemainingOK',
         NEW m \in Message, Schedule(m, tasks),
         newUuid' \in Nat, unused' \in Seq(Nat),
         DOMAIN functionMap' \subseteq 1 .. newUuid',
         \A id \in DOMAIN functionMap' : functionMap'[id] \in Tasks,
         remaining' = [c \in Chains |-> remaining'[c]]
  PROVE  IInv'
<1>1. /\ headPc = "submit" /\ headPc' = "submit" /\ batch # <<>>
      /\ batch' = Tail(batch) /\ round' = round
      /\ UNCHANGED <<draining, stopsSent, toHead, workerPc, workerTasks,
                     workerOutstanding, results, executions>>
  BY DEF Submit, IInv, loopVars, workerVars, history
<1>2. tasks \in Seq(Message) /\ batch \in Seq(Tasks)
  BY DEF IInv, ODSTypeOK
<1>3. /\ toWorker' \in [Workers -> Seq(Message)]
      /\ outstanding' \subseteq Workers \X Message
      /\ tasks' \in Seq(Message) /\ numWaitingForReply' \in Nat
      /\ NumWorkers' = NumWorkers /\ (NumWorkers' > 0 => TypeOK')
  BY <1>1, <1>2, Scheduled
<1>4. /\ batch' \in Seq(Tasks)
      /\ \A i \in DOMAIN batch' : batch'[i] \in ChainTasks =>
           batch'[i][2] = round[batch'[i][1]]
      /\ \A i, j \in DOMAIN batch' : batch'[i] = batch'[j] => i = j
  BY <1>1, NextOfBatch
<1>5. remaining' \in [Chains -> 0 .. BatchSize]
  BY RemainingTyped
<1>6. ODSTypeOK'
  BY <1>1, <1>3, <1>4, <1>5 DEF IInv, ODSTypeOK
<1>7. BatchOK'
  BY <1>1, <1>4 DEF BatchOK
<1>8. HeadOK'
  BY <1>1, <1>3 DEF IInv, HeadOK
<1>9. WorkersOK' /\ NoIdleWorker'
  BY <1>1, <1>3 DEF IInv, WorkersOK, NoIdleWorker
<1> QED BY <1>6, <1>7, <1>8, <1>9 DEF IInv

(* The new call, wherever it goes.                                          *)
LEMMA SubmitCalls ==
  ASSUME IInv, NEW m \in Message, m.task \in Tasks \ SubmittedTasks,
         Schedule(m, tasks), UNCHANGED <<toHead, workerTasks, stopsSent, headPc,
                                         executions, results>>,
         headPc = "submit", SubmittedTasks' = SubmittedTasks \union {m.task},
         \/ /\ m.id = 0 /\ m.task \in NoticeTasks /\ ~m.answer_required
            /\ functionMap' = functionMap
         \/ /\ m.id # 0 /\ m.task \in ChainTasks /\ m.answer_required
            /\ m.id \notin DOMAIN functionMap
            /\ DOMAIN functionMap' = DOMAIN functionMap \union {m.id}
            /\ functionMap'[m.id] = m.task
            /\ \A id \in DOMAIN functionMap : functionMap'[id] = functionMap[id]
  PROVE  CallsOK'
<1>1. tasks \in Seq(Message) /\ Lines \in [Holders -> Seq(Packet)]
      /\ Lines[0] = tasks
  BY LinesFact DEF IInv, ODSTypeOK
<1>2. \/ \E w \in Workers : Sent(m, tasks, w)
      \/ Lines' = [Lines EXCEPT ![0] = Append(tasks, m)]
  BY <1>1, Scheduled
<1>3. \E h \in Holders : Lines' = [Lines EXCEPT ![h] = Append(@, m)]
  <2>1. ASSUME NEW w \in Workers, Sent(m, tasks, w)
        PROVE  w \in Holders /\ Lines' = [Lines EXCEPT ![w] = Append(@, m)]
    <3>1. [Lines EXCEPT ![0] = tasks] = Lines
      BY <1>1, HolderFacts
    <3> QED BY <2>1, <3>1, HolderFacts DEF Sent
  <2>2. ASSUME Lines' = [Lines EXCEPT ![0] = Append(tasks, m)]
        PROVE  0 \in Holders /\ Lines' = [Lines EXCEPT ![0] = Append(@, m)]
    BY <1>1, <2>2, HolderFacts
  <2> QED BY <1>2, <2>1, <2>2
<1>4. PICK h \in Holders : Lines' = [Lines EXCEPT ![h] = Append(@, m)]
  BY <1>3
<1>5. Dones' = Dones /\ Dones[0] = 0
  BY DonesStay, LinesFact DEF IInv
<1>6. PICK F, L, D, E, R, S, K, F2 :
        /\ F = functionMap /\ L = Lines /\ D = Dones /\ E = executions
        /\ R = results /\ S = SubmittedTasks /\ K = 1 .. stopsSent
        /\ F2 = functionMap'
  OBVIOUS
<1>7. /\ HoldersOK(L, D, F, E, R, S, K)
      /\ D[h] = 0 \/ h # 0
      /\ m.task \in Tasks \ S
  BY <1>5, <1>6 DEF IInv, CallsOK
<1>8. \/ /\ m.id = 0 /\ m.task \in NoticeTasks /\ ~m.answer_required
         /\ F2 = F
      \/ /\ m.id # 0 /\ m.task \in ChainTasks /\ m.answer_required
         /\ m.id \notin DOMAIN F /\ DOMAIN F2 = DOMAIN F \union {m.id}
         /\ F2[m.id] = m.task /\ \A id \in DOMAIN F : F2[id] = F[id]
  BY <1>6
<1>9. HoldersOK([L EXCEPT ![h] = Append(@, m)], D, F2, E, R,
                S \union {m.task}, K)
  BY <1>7, <1>8, NewCall, ZenonT(40)
<1> QED BY <1>4, <1>5, <1>6, <1>9 DEF CallsOK

LEMMA SubmitKeeps ==
  ASSUME IInv, Submit
  PROVE  IInv'
<1>1. PICK t : t = Head(batch)
  OBVIOUS
<1>2. /\ headPc = "submit" /\ headPc' = headPc /\ batch # <<>>
      /\ batch' = Tail(batch) /\ round' = round
      /\ UNCHANGED <<toHead, workerTasks, stopsSent, executions, results>>
  BY DEF Submit, loopVars, workerVars, history
<1>3. /\ t \in Tasks \ SubmittedTasks
      /\ SubmittedTasks' = SubmittedTasks \union {t}
      /\ t \in ChainTasks => t[2] = round[t[1]]
  BY <1>1, <1>2, NextOfBatch
<1>4. /\ remaining \in [Chains -> 0 .. BatchSize] /\ tasks \in Seq(Message)
      /\ ODSTypeOK /\ UuidOK /\ RemainingOK
  BY DEF IInv, ODSTypeOK
<1>5. CASE t \in NoticeTasks
  <2>1. PICK m : m = [id |-> 0, answer_required |-> FALSE, task |-> t]
    OBVIOUS
  <2>2. /\ m \in Message /\ m.id = 0 /\ m.task = t /\ ~m.answer_required
    BY <1>3, <2>1, MessageFacts
  <2>3. Schedule(m, tasks) /\ UNCHANGED <<remaining, functionMap, newUuid, unused>>
    BY <1>1, <1>5, <2>1 DEF Submit, rpcVars
  <2>4. CallsOK'
    BY <1>2, <1>3, <1>5, <2>2, <2>3, SubmitCalls
  <2>5. LoadOK'
    BY <1>2, <1>4, <2>2, <2>3, Scheduled
  <2>6. UuidOK' /\ RemainingOK'
    BY <1>2, <1>4, <2>3, UuidStay, RemainingStay DEF rpcVars
  <2>7. /\ newUuid' \in Nat /\ unused' \in Seq(Nat)
        /\ DOMAIN functionMap' \subseteq 1 .. newUuid'
        /\ \A id \in DOMAIN functionMap' : functionMap'[id] \in Tasks
    BY <1>4, <2>3 DEF ODSTypeOK
  <2>8. remaining' = [c \in Chains |-> remaining'[c]]
    BY <1>4, <2>3
  <2> QED BY <2>2, <2>3, <2>4, <2>5, <2>6, <2>7, <2>8, SubmitKeepsOthers
<1>6. CASE t \in ChainTasks
  <2>1. PICK m : m = [id |-> FreshId, answer_required |-> TRUE, task |-> t]
    OBVIOUS
  <2>2. t \notin NoticeTasks
    BY <1>6, TaskFacts
  <2>3. /\ OnResult(t) /\ remaining' = [remaining EXCEPT ![t[1]] = @ + 1]
        /\ Schedule(m, tasks)
    BY <1>1, <2>1, <2>2 DEF Submit
  <2>4. /\ FreshId \in Nat \ {0} /\ FreshId \notin DOMAIN functionMap
        /\ DOMAIN functionMap' = DOMAIN functionMap \union {FreshId}
        /\ functionMap'[FreshId] = t
        /\ \A id \in DOMAIN functionMap : functionMap'[id] = functionMap[id]
        /\ newUuid' \in Nat /\ unused' \in Seq(Nat)
        /\ DOMAIN functionMap' \subseteq 1 .. newUuid'
        /\ \A id \in DOMAIN functionMap' : functionMap'[id] \in Tasks
        /\ UuidOK'
    BY <1>3, <1>4, <2>3, OnResultKeeps
  <2>5. /\ m \in Message /\ m.id = FreshId /\ m.task = t /\ m.answer_required
    <3>1. FreshId \in Nat /\ t \in Tasks \union {StopCall}
      BY <1>3, <2>4
    <3> QED BY <2>1, <3>1, MessageFacts
  <2>6. CallsOK'
    BY <1>2, <1>3, <1>6, <2>3, <2>4, <2>5, SubmitCalls
  <2>7. LoadOK'
    BY <1>2, <1>4, <2>3, <2>5, Scheduled
  <2>8. t[1] \in Chains
    BY <1>6, TaskFacts
  <2>9. remaining' = [c \in Chains |-> remaining'[c]]
    BY <1>4, <2>3
  <2>10. RemainingOK'
    <3>1. \A id \in DOMAIN functionMap' :
            /\ functionMap'[id] \in ChainTasks
            /\ functionMap'[id][2] = round'[functionMap'[id][1]]
      BY <1>2, <1>3, <1>4, <1>6, <2>4 DEF RemainingOK
    <3>2. ASSUME NEW c \in Chains
          PROVE  remaining'[c] = Cardinality(AwaitedOf(functionMap', c))
      <4>1. /\ remaining[c] = Cardinality(AwaitedOf(functionMap, c))
            /\ IsFiniteSet(AwaitedOf(functionMap, c))
        <5>1. remaining[c] = Cardinality(AwaitedOf(functionMap, c))
          BY <1>4 DEF RemainingOK
        <5>2. newUuid \in Nat /\ DOMAIN functionMap \subseteq 1 .. newUuid
          BY <1>4 DEF ODSTypeOK
        <5>3. IsFiniteSet(1 .. newUuid)
          <6>1. 1 \in Int /\ newUuid \in Int
            BY <5>2
          <6> QED BY ONLY <6>1, FS_Interval
        <5>4. AwaitedOf(functionMap, c) \in SUBSET (1 .. newUuid)
          BY <5>2 DEF AwaitedOf
        <5> QED BY <5>1, <5>3, <5>4, FS_Subset
      <4>2. CASE c = t[1]
        <5>1. AwaitedOf(functionMap', c) =
                AwaitedOf(functionMap, c) \union {FreshId}
          BY <2>4, <4>2 DEF AwaitedOf
        <5>2. FreshId \notin AwaitedOf(functionMap, c)
          BY <2>4 DEF AwaitedOf
        <5>3. remaining'[c] = remaining[c] + 1
          BY <1>4, <2>3, <4>2
        <5> QED BY <4>1, <5>1, <5>2, <5>3, FS_AddElement
      <4>3. CASE c # t[1]
        <5>1. AwaitedOf(functionMap', c) = AwaitedOf(functionMap, c)
          BY <2>4, <4>3 DEF AwaitedOf
        <5>2. remaining'[c] = remaining[c]
          BY <1>4, <2>3, <4>3
        <5> QED BY <4>1, <5>1, <5>2
      <4> QED BY <4>2, <4>3
    <3> QED BY <3>1, <3>2 DEF RemainingOK
  <2> QED BY <2>3, <2>4, <2>5, <2>6, <2>7, <2>9, <2>10, SubmitKeepsOthers
<1> QED BY <1>3, <1>5, <1>6 DEF Tasks

(* feed_hungry_workers and the filling loop: the first call of the queue    *)
(* goes to a worker.                                                        *)
LEMMA QueueKeeps ==
  ASSUME IInv, tasks # <<>>, WorkerAvailable, Schedule(Head(tasks), Tail(tasks)),
         headPc \in {"feed", "fill"}, headPc' \in {"feed", "fillpoll"},
         UNCHANGED <<loopVars, chainVars, rpcVars, toHead, workerVars, history>>
  PROVE  IInv'
<1> USE DEF loopVars, chainVars, rpcVars, workerVars, history
<1>1. /\ tasks \in Seq(Message) /\ ODSTypeOK /\ LoadOK /\ HeadOK
      /\ Lines \in [Holders -> Seq(Packet)] /\ Lines[0] = tasks
      /\ Dones[0] = 0
  BY LinesFact DEF IInv, ODSTypeOK
<1>2. Head(tasks) \in Message /\ Tail(tasks) \in Seq(Message)
  BY <1>1, TailAt
<1>3. /\ toWorker' \in [Workers -> Seq(Message)]
      /\ outstanding' \subseteq Workers \X Message
      /\ tasks' \in Seq(Message) /\ numWaitingForReply' \in Nat
      /\ NumWorkers' = NumWorkers /\ (NumWorkers' > 0 => TypeOK')
      /\ LoadOK'
      /\ \E w \in Workers : Sent(Head(tasks), Tail(tasks), w)
  BY <1>2, Scheduled
<1>4. PICK w \in Workers : Sent(Head(tasks), Tail(tasks), w)
  BY <1>3
<1>5. Lines' = [[Lines EXCEPT ![0] = Tail(@)]
                  EXCEPT ![w] = Append(@, Head(Lines[0]))]
  BY <1>1, <1>4, HolderFacts DEF Sent
<1>6. Dones' = Dones /\ SubmittedTasks' = SubmittedTasks
  BY DonesStay, SubmittedStay
<1>7. CallsOK'
  <2>1. PICK F, L, D, E, R, S, K :
          /\ F = functionMap /\ L = Lines /\ D = Dones /\ E = executions
          /\ R = results /\ S = SubmittedTasks /\ K = 1 .. stopsSent
    OBVIOUS
  <2>2. /\ HoldersOK(L, D, F, E, R, S, K) /\ 0 \notin K /\ D[0] = 0
        /\ L[0] # <<>> /\ w \in Holders /\ w # 0
    BY <1>1, <2>1, HolderFacts DEF IInv, CallsOK
  <2>3. HoldersOK([[L EXCEPT ![0] = Tail(@)]
                     EXCEPT ![w] = Append(@, Head(L[0]))], D, F, E, R, S, K)
    BY <2>2, MoveCall
  <2> QED BY <1>5, <1>6, <2>1, <2>3 DEF CallsOK
<1>8. UuidOK' /\ RemainingOK'
  BY UuidStay, RemainingStay DEF IInv
<1>9. ODSTypeOK'
  BY <1>1, <1>3 DEF ODSTypeOK, HeadPcs
<1>10. BatchOK'
  BY DEF IInv, BatchOK
<1>11. HeadOK'
  <2>1. NumWorkers > 0
    BY <1>1, SizeAssumption DEF LoadOK, WorkerAvailable
  <2> QED BY <1>1, <1>3, <2>1 DEF HeadOK
<1>12. WorkersOK' /\ NoIdleWorker'
  BY <1>3 DEF IInv, WorkersOK, NoIdleWorker
<1> QED BY <1>3, <1>7, <1>8, <1>9, <1>10, <1>11, <1>12 DEF IInv

LEMMA FeedKeeps ==
  ASSUME IInv, FeedHungryWorkers
  PROVE  IInv'
<1>1. headPc = "feed"
  BY DEF FeedHungryWorkers
<1>2. CASE IsProcessWithoutWork /\ tasks # <<>>
  <2>1. WorkerAvailable
    BY <1>2, CapacityAssumption DEF IsProcessWithoutWork, WorkerAvailable
  <2> QED BY <1>1, <1>2, <2>1, QueueKeeps DEF FeedHungryWorkers
<1>3. CASE ~(IsProcessWithoutWork /\ tasks # <<>>)
  <2>1. NumWorkers > 0
    BY <1>1 DEF IInv, HeadOK
  <2> QED BY <1>1, <1>3, <2>1, LoopKeeps DEF FeedHungryWorkers
<1> QED BY <1>2, <1>3

LEMMA FillKeeps ==
  ASSUME IInv, Fill
  PROVE  IInv'
<1>1. headPc = "fill" /\ NumWorkers > 0
  BY DEF Fill, IInv, HeadOK
<1>2. CASE WorkerAvailable /\ tasks # <<>>
  BY <1>1, <1>2, QueueKeeps DEF Fill
<1>3. CASE ~(WorkerAvailable /\ tasks # <<>>)
  <2>1. /\ headPc' = IF WorkerAvailable THEN Return ELSE "reap"
        /\ UNCHANGED <<lrrVars, toWorker, outstanding, numWaitingForReply,
                       tasks, loopVars, chainVars, rpcVars, toHead,
                       workerVars, history>>
    BY <1>3 DEF Fill
  <2>2. CASE WorkerAvailable
    <3>1. outstanding' \subseteq Workers \X Message
      BY <2>1 DEF IInv, ODSTypeOK
    <3> QED BY <1>1, <1>3, <2>1, <2>2, <3>1, ReturnKeeps
  <2>3. CASE ~WorkerAvailable
    BY <1>1, <2>1, <2>3, LoopKeeps
  <2> QED BY <2>2, <2>3
<1> QED BY <1>2, <1>3

(* The function of a result is called: its id is free again.                *)
LEMMA ExecuteResultKeeps ==
  ASSUME IInv, NEW m, m.id \in DOMAIN functionMap, ExecuteResult(m),
         functionMap[m.id] = m.task, m.task \in Tasks, round' = round
  PROVE  /\ UuidOK' /\ RemainingOK'
         /\ newUuid' \in Nat /\ unused' \in Seq(Nat)
         /\ DOMAIN functionMap' \subseteq 1 .. newUuid'
         /\ \A id \in DOMAIN functionMap' : functionMap'[id] \in Tasks
         /\ remaining' = [c \in Chains |-> remaining'[c]]
         /\ results' \in [Tasks -> Seq(Tasks)]
         /\ functionMap' = Unregistered(m, functionMap)
         /\ results' = Delivered(m, functionMap, results)
<1>1. /\ newUuid \in Nat /\ unused \in Seq(Nat)
      /\ DOMAIN functionMap \subseteq 1 .. newUuid
      /\ \A id \in DOMAIN functionMap : functionMap[id] \in Tasks
      /\ remaining \in [Chains -> 0 .. BatchSize]
      /\ results \in [Tasks -> Seq(Tasks)]
  BY DEF IInv, ODSTypeOK
<1>2. PICK t : t = functionMap[m.id]
  OBVIOUS
<1>3. /\ results' = [results EXCEPT ![t] = Append(@, m.task)]
      /\ remaining' = [remaining EXCEPT ![t[1]] = @ - 1]
      /\ functionMap' = [id \in DOMAIN functionMap \ {m.id} |-> functionMap[id]]
      /\ unused' = Append(unused, m.id - 1) /\ newUuid' = newUuid
  BY <1>2 DEF ExecuteResult
<1>4. /\ functionMap' = Unregistered(m, functionMap)
      /\ results' = Delivered(m, functionMap, results)
  BY <1>2, <1>3 DEF Unregistered, Delivered
<1>5. m.id \in 1 .. newUuid /\ m.id - 1 \in Nat /\ m.id - 1 + 1 = m.id
  BY <1>1
<1>6. results' \in [Tasks -> Seq(Tasks)]
  <2>1. t \in Tasks /\ results[t] \in Seq(Tasks)
    BY <1>1, <1>2
  <2>2. Append(results[t], m.task) \in Seq(Tasks)
    BY <2>1, AppendAt
  <2> QED BY <1>1, <1>3, <2>2
<1>7. /\ unused' \in Seq(Nat)
      /\ DOMAIN unused = 1 .. Len(unused) /\ Len(unused) \in Nat
      /\ DOMAIN unused' = 1 .. Len(unused) + 1
      /\ \A i \in DOMAIN unused : unused'[i] = unused[i]
      /\ unused'[Len(unused) + 1] = m.id - 1
  BY <1>1, <1>3, <1>5, AppendAt, SMTT(40)
<1>8. /\ DOMAIN functionMap' = DOMAIN functionMap \ {m.id}
      /\ \A id \in DOMAIN functionMap' : functionMap'[id] = functionMap[id]
  BY <1>3
<1>9. UuidOK'
  <2>1. /\ \A id \in 1 .. newUuid : id \notin DOMAIN functionMap =>
             \E i \in DOMAIN unused : unused[i] = id - 1
        /\ \A i \in DOMAIN unused :
             unused[i] + 1 \in (1 .. newUuid) \ DOMAIN functionMap
        /\ \A i, j \in DOMAIN unused : unused[i] = unused[j] => i = j
    BY DEF IInv, UuidOK
  <2>2. /\ \A i \in DOMAIN unused : i \in DOMAIN unused'
        /\ \A i \in DOMAIN unused' : i \in DOMAIN unused \/ i = Len(unused) + 1
        /\ Len(unused) + 1 \in DOMAIN unused'
    BY <1>7
  <2>3. \A id \in 1 .. newUuid' : id \notin DOMAIN functionMap' =>
          \E i \in DOMAIN unused' : unused'[i] = id - 1
    <3> SUFFICES ASSUME NEW id \in 1 .. newUuid, id \notin DOMAIN functionMap'
                 PROVE  \E i \in DOMAIN unused' : unused'[i] = id - 1
      BY <1>3
    <3>1. CASE id = m.id
      BY <1>7, <2>2, <3>1
    <3>2. CASE id # m.id
      <4>1. PICK i \in DOMAIN unused : unused[i] = id - 1
        BY <1>8, <2>1, <3>2
      <4> QED BY <1>7, <2>2, <4>1
    <3> QED BY <3>1, <3>2
  <2>4. \A i \in DOMAIN unused' :
          unused'[i] + 1 \in (1 .. newUuid') \ DOMAIN functionMap'
    BY <1>3, <1>5, <1>7, <1>8, <2>1, <2>2
  <2>5. \A i \in DOMAIN unused : unused[i] # m.id - 1
    BY <1>5, <2>1
  <2>6. \A i, j \in DOMAIN unused' : unused'[i] = unused'[j] => i = j
    BY <1>7, <2>1, <2>2, <2>5
  <2> QED BY <2>3, <2>4, <2>6 DEF UuidOK
<1>10. RemainingOK'
  <2>1. /\ \A id \in DOMAIN functionMap :
             /\ functionMap[id] \in ChainTasks
             /\ functionMap[id][2] = round[functionMap[id][1]]
        /\ \A c \in Chains : remaining[c] = Cardinality(AwaitedOf(functionMap, c))
    BY DEF IInv, RemainingOK
  <2>2. t[1] \in Chains
    BY <1>2, <2>1, TaskFacts
  <2>3. ASSUME NEW c \in Chains
        PROVE  remaining'[c] = Cardinality(AwaitedOf(functionMap', c))
    <3>1. IsFiniteSet(AwaitedOf(functionMap, c))
      <4>1. IsFiniteSet(1 .. newUuid)
        <5>1. 1 \in Int /\ newUuid \in Int
          BY <1>1
        <5> QED BY ONLY <5>1, FS_Interval
      <4>2. AwaitedOf(functionMap, c) \in SUBSET (1 .. newUuid)
        BY <1>1 DEF AwaitedOf
      <4> QED BY <4>1, <4>2, FS_Subset
    <3>2. CASE c = t[1]
      <4>1. AwaitedOf(functionMap', c) = AwaitedOf(functionMap, c) \ {m.id}
        BY <1>8 DEF AwaitedOf
      <4>2. m.id \in AwaitedOf(functionMap, c)
        BY <1>2, <3>2 DEF AwaitedOf
      <4>3. remaining'[c] = remaining[c] - 1
        BY <1>1, <1>3, <3>2
      <4> QED BY <2>1, <3>1, <4>1, <4>2, <4>3, FS_RemoveElement
    <3>3. CASE c # t[1]
      <4>1. AwaitedOf(functionMap', c) = AwaitedOf(functionMap, c)
        BY <1>2, <1>8, <3>3 DEF AwaitedOf
      <4>2. remaining'[c] = remaining[c]
        BY <1>1, <1>3, <3>3
      <4> QED BY <2>1, <4>1, <4>2
    <3> QED BY <3>2, <3>3
  <2> QED BY <1>8, <2>1, <2>3 DEF RemainingOK
<1>11. remaining' = [c \in Chains |-> remaining'[c]]
  BY <1>1, <1>3
<1> QED BY <1>1, <1>3, <1>4, <1>6, <1>7, <1>8, <1>9, <1>10, <1>11

(* The head takes an answer or a ping.                                      *)
LEMMA ProcessCalls ==
  ASSUME IInv, NEW w \in Workers, ProcessMsg(w), headPc # "deliver",
         headPc' # "deliver"
  PROVE  /\ CallsOK' /\ UuidOK' /\ RemainingOK'
         /\ newUuid' \in Nat /\ unused' \in Seq(Nat)
         /\ DOMAIN functionMap' \subseteq 1 .. newUuid'
         /\ \A id \in DOMAIN functionMap' : functionMap'[id] \in Tasks
         /\ remaining' = [c \in Chains |-> remaining'[c]]
         /\ results' \in [Tasks -> Seq(Tasks)]
<1>1. /\ toHead[w] # <<>> /\ toHead' = [toHead EXCEPT ![w] = Tail(@)]
      /\ UNCHANGED <<round, batch, tasks, toWorker, workerTasks, stopsSent,
                     executions>>
  BY DEF ProcessMsg, loopVars, workerVars
<1>2. /\ Lines' = [Lines EXCEPT ![w] = Tail(@)]
      /\ Dones' = [Dones EXCEPT ![w] = @ - 1]
      /\ Dones[w] # 0 /\ Lines[w][1] = Head(toHead[w]) /\ w \in Holders
  BY <1>1, LinesAnswer, HolderFacts DEF IInv
<1>3. PICK F, L, D, E, R, S, K, m :
        /\ F = functionMap /\ L = Lines /\ D = Dones /\ E = executions
        /\ R = results /\ S = SubmittedTasks /\ K = 1 .. stopsSent
        /\ m = Head(toHead[w])
  OBVIOUS
<1>4. /\ HoldersOK(L, D, F, E, R, S, K) /\ R \in [Tasks -> Seq(Tasks)]
      /\ D[w] # 0 /\ m = L[w][1] /\ 0 \notin DOMAIN F
  BY <1>2, <1>3 DEF IInv, CallsOK, ODSTypeOK
<1>5. SubmittedTasks' = SubmittedTasks
  BY <1>1, SubmittedStay
<1>6. CASE m = Ping
  <2>1. UNCHANGED <<remaining, functionMap, newUuid, unused, results>>
    BY <1>3, <1>6 DEF ProcessMsg, rpcVars
  <2>2. HoldersOK([L EXCEPT ![w] = Tail(@)], [D EXCEPT ![w] = @ - 1],
                  F, E, R, S, K)
    BY <1>2, <1>4, <1>6, DeliverPing
  <2>3. CallsOK'
    BY <1>1, <1>2, <1>3, <1>5, <2>1, <2>2 DEF CallsOK
  <2>4. UuidOK' /\ RemainingOK'
    BY <1>1, <2>1, UuidStay, RemainingStay DEF IInv, rpcVars
  <2>5. remaining \in [Chains -> 0 .. BatchSize]
    BY DEF IInv, ODSTypeOK
  <2> QED BY <2>1, <2>3, <2>4, <2>5 DEF IInv, ODSTypeOK
<1>7. CASE m # Ping
  <2>1. ExecuteResult(m)
    BY <1>3, <1>7 DEF ProcessMsg
  <2>2. DeliveryCounts(m, F, E, R, S)
    BY <1>2, <1>4, DeliveredCounts
  <2>3. m.id \in DOMAIN functionMap /\ functionMap[m.id] = m.task /\ m.task \in Tasks
    BY <1>3, <1>7, <2>2 DEF DeliveryCounts
  <2>4. /\ UuidOK' /\ RemainingOK'
        /\ newUuid' \in Nat /\ unused' \in Seq(Nat)
        /\ DOMAIN functionMap' \subseteq 1 .. newUuid'
        /\ \A id \in DOMAIN functionMap' : functionMap'[id] \in Tasks
        /\ remaining' = [c \in Chains |-> remaining'[c]]
        /\ results' \in [Tasks -> Seq(Tasks)]
        /\ functionMap' = Unregistered(m, functionMap)
        /\ results' = Delivered(m, functionMap, results)
    BY <1>1, <2>1, <2>3, ExecuteResultKeeps
  <2>5. HoldersOK([L EXCEPT ![w] = Tail(@)], [D EXCEPT ![w] = @ - 1],
                  Unregistered(m, F), E, Delivered(m, F, R), S, K)
    BY <1>2, <1>4, <1>7, DeliverCall
  <2>6. CallsOK'
    BY <1>1, <1>2, <1>3, <1>5, <2>4, <2>5 DEF CallsOK
  <2> QED BY <2>4, <2>6
<1> QED BY <1>6, <1>7

LEMMA ProcessLoad ==
  ASSUME IInv, NEW w \in Workers, ProcessMsg(w), NumWorkers > 0,
         headPc # "deliver", headPc' # "deliver"
  PROVE  /\ LoadOK' /\ NumWorkers' = NumWorkers /\ TypeOK'
         /\ numWaitingForReply' \in Nat
<1>1. /\ toHead[w] # <<>> /\ toHead' = [toHead EXCEPT ![w] = Tail(@)]
      /\ UNCHANGED <<tasks, toWorker, workerTasks, stopsSent>>
      /\ TaskFinished(w - 1) /\ numWaitingForReply' = numWaitingForReply - 1
  BY DEF ProcessMsg, loopVars, workerVars
<1>2. /\ Lines' = [Lines EXCEPT ![w] = Tail(@)] /\ Lines[w] # <<>>
      /\ w \in Holders /\ Lines \in [Holders -> Seq(Packet)]
  BY <1>1, LinesAnswer, LinesFact, HolderFacts DEF IInv
<1>3. /\ NumWorkers = Size /\ TypeOK /\ Inv
      /\ Exact(Lines, numTasksScheduled, stopsSent, numWaitingForReply)
      /\ stopsSent \in Nat /\ numWaitingForReply \in Nat
  <2>1. stopsSent \in Nat /\ numWaitingForReply \in Nat
    BY SizeAssumption DEF IInv, ODSTypeOK
  <2> QED BY <2>1, NumWorkersAre DEF IInv, Inv
<1>4. PICK id \in Ids : id = w - 1 /\ id + 1 = w
  BY SizeAssumption DEF Ids, Workers
<1>5. /\ numTasksScheduled \in [Ids -> Loads] /\ numTasksScheduled[id] > 0
      /\ numTasksScheduled' = [numTasksScheduled EXCEPT ![id] = @ - 1]
  BY <1>1, <1>3, <1>4 DEF TaskFinished, TypeOK
<1>6. Inv'
  BY <1>1, <1>3, <1>4, FinishKeepsInv
<1>7. TypeOK' /\ LookupConsistent' /\ NumWorkers' = Size
  <2>1. TypeOK' /\ LookupConsistent'
    BY <1>6 DEF Inv
  <2>2. DOMAIN numTasksScheduled' = DOMAIN numTasksScheduled
    BY <1>3, <2>1 DEF TypeOK
  <2> QED BY <1>3, <2>1, <2>2 DEF NumWorkers
<1>8. /\ Len(Lines'[id + 1]) = Len(Lines[id + 1]) - 1
      /\ \A v \in Workers : v # id + 1 => Len(Lines'[v]) = Len(Lines[v])
  <2>1. Len(Tail(Lines[w])) = Len(Lines[w]) - 1
    BY <1>2, TailAt
  <2> QED BY <1>2, <1>4, <2>1, HolderFacts
<1>9. Exact(Lines', [numTasksScheduled EXCEPT ![id] = @ - 1], stopsSent,
            numWaitingForReply - 1)
  BY <1>3, <1>5, <1>8, ExactDown
<1>10. Exact(Lines', numTasksScheduled', stopsSent', numWaitingForReply')
  BY <1>1, <1>5, <1>9
<1>11. LoadOK'
  BY <1>7, <1>10 DEF LoadOK, Exact, Units
<1>12. numWaitingForReply' \in Nat
  BY <1>1, <1>3, <1>10, UnitsFinite DEF Exact
<1> QED BY <1>3, <1>7, <1>11, <1>12

LEMMA ProcessKeeps ==
  ASSUME IInv, NEW w \in Workers, ProcessMsg(w), headPc \in {"poll", "fillpoll"},
         headPc' \in {"feed", "fill"}
  PROVE  IInv'
<1>1. /\ toHead' = [toHead EXCEPT ![w] = Tail(@)] /\ toHead[w] # <<>>
      /\ UNCHANGED <<draining, stopsSent, round, batch, tasks, outstanding,
                     toWorker, workerPc, workerTasks, workerOutstanding,
                     executions>>
  BY DEF ProcessMsg, loopVars, workerVars
<1>2. NumWorkers > 0
  BY DEF IInv, HeadOK
<1>3. /\ CallsOK' /\ UuidOK' /\ RemainingOK'
      /\ newUuid' \in Nat /\ unused' \in Seq(Nat)
      /\ DOMAIN functionMap' \subseteq 1 .. newUuid'
      /\ \A id \in DOMAIN functionMap' : functionMap'[id] \in Tasks
      /\ remaining' = [c \in Chains |-> remaining'[c]]
      /\ results' \in [Tasks -> Seq(Tasks)]
  BY ProcessCalls
<1>4. /\ LoadOK' /\ NumWorkers' = NumWorkers /\ TypeOK'
      /\ numWaitingForReply' \in Nat
  BY <1>2, ProcessLoad
<1>5. remaining' \in [Chains -> 0 .. BatchSize]
  BY <1>3, RemainingTyped
<1>6. toHead' \in [Workers -> Seq(Message \union {Ping})]
  <2>1. toHead \in [Workers -> Seq(Message \union {Ping})]
    BY DEF IInv, ODSTypeOK
  <2>2. Tail(toHead[w]) \in Seq(Message \union {Ping})
    BY <1>1, <2>1, TailAt
  <2> QED BY <1>1, <2>1, <2>2
<1>7. ODSTypeOK'
  BY <1>1, <1>3, <1>4, <1>5, <1>6 DEF IInv, ODSTypeOK, HeadPcs
<1>8. BatchOK'
  BY <1>1 DEF IInv, BatchOK
<1>9. HeadOK'
  BY <1>1, <1>2, <1>4 DEF IInv, HeadOK
<1>10. WorkersOK'
  <2>1. stopsSent = 0
    BY SizeAssumption DEF IInv, HeadOK, ODSTypeOK
  <2>2. \A v \in 1 .. NumWorkers : workerPc[v] # "left"
    BY <2>1 DEF IInv, WorkersOK
  <2> QED BY <1>1, <1>4, <2>2 DEF IInv, WorkersOK
<1>11. NoIdleWorker'
  BY DEF NoIdleWorker
<1> QED BY <1>3, <1>4, <1>7, <1>8, <1>9, <1>10, <1>11 DEF IInv

LEMMA PollKeeps ==
  ASSUME IInv, Poll
  PROVE  IInv'
<1>1. headPc = "poll" /\ NumWorkers > 0
  BY DEF Poll, IInv, HeadOK
<1>2. CASE (\E w \in Workers : ProcessMsg(w)) /\ headPc' = "feed"
  BY <1>1, <1>2, ProcessKeeps
<1>3. CASE headPc' = "fill" /\ Stay
  BY <1>1, <1>3, LoopKeeps DEF Stay
<1> QED BY <1>2, <1>3 DEF Poll

LEMMA FillPollKeeps ==
  ASSUME IInv, FillPoll
  PROVE  IInv'
<1>1. headPc = "fillpoll" /\ NumWorkers > 0 /\ headPc' = "fill"
  BY DEF FillPoll, IInv, HeadOK
<1>2. CASE \E w \in Workers : ProcessMsg(w)
  BY <1>1, <1>2, ProcessKeeps
<1>3. CASE Stay
  BY <1>1, <1>3, LoopKeeps DEF Stay
<1> QED BY <1>2, <1>3 DEF FillPoll

(* A head alone.                                                            *)
LEMMA LoadSame ==
  ASSUME LoadOK, \A w \in Workers : Lines'[w] = Lines[w],
         UNCHANGED <<lrrVars, stopsSent, numWaitingForReply>>
  PROVE  LoadOK'
<1>1. /\ NumWorkers' = NumWorkers /\ (TypeOK)' = TypeOK
      /\ (LookupConsistent)' = LookupConsistent
      /\ (WorkerAvailable)' = WorkerAvailable
      /\ numTasksScheduled' = numTasksScheduled
  BY DEF NumWorkers, TypeOK, LookupConsistent, lrrVars, WorkerAvailable, FirstEntry
<1>2. ASSUME Exact(Lines, numTasksScheduled, stopsSent, numWaitingForReply)
      PROVE  Exact(Lines, numTasksScheduled, stopsSent, numWaitingForReply)'
  <2>1. Exact(Lines', numTasksScheduled, stopsSent, numWaitingForReply)
    BY <1>2, ExactSame
  <2> QED BY <1>1, <2>1 DEF Exact, Units
<1> QED BY <1>1, <1>2 DEF LoadOK

LEMMA DonesOwn ==
  ASSUME ODSTypeOK, UNCHANGED toHead
  PROVE  Dones' = [Dones EXCEPT ![0] = IF headPc' = "deliver" THEN 1 ELSE 0]
<1>1. Dones \in [Holders -> Nat]
  BY LinesFact
<1>2. \A h \in Holders : DoneOf(h)' =
        [Dones EXCEPT ![0] = IF headPc' = "deliver" THEN 1 ELSE 0][h]
  BY <1>1 DEF Dones, DoneOf
<1> QED BY <1>1, <1>2 DEF Dones

(* What a step of a head alone leaves as it is.                             *)
LEMMA OwnKeeps ==
  ASSUME IInv, NumWorkers = 0, headPc \in {"own", "deliver"},
         headPc' = Return \/ (headPc' = "deliver" /\ tasks' # <<>>
                              /\ Head(tasks').answer_required),
         UNCHANGED <<loopVars, round, batch, numWaitingForReply, outstanding,
                     lrrVars, toWorker, toHead, workerVars>>,
         tasks' \in Seq(Message), \A w \in Workers : Lines'[w] = Lines[w],
         CallsOK', UuidOK', RemainingOK',
         newUuid' \in Nat, unused' \in Seq(Nat),
         DOMAIN functionMap' \subseteq 1 .. newUuid',
         \A id \in DOMAIN functionMap' : functionMap'[id] \in Tasks,
         remaining' = [c \in Chains |-> remaining'[c]],
         executions' \in [Tasks -> Nat], results' \in [Tasks -> Seq(Tasks)]
  PROVE  IInv'
<1>1. headPc' \in {"app", "drain", "deliver"} /\ headPc' \in HeadPcs
      /\ (draining => headPc' # "app") /\ (~draining => headPc' # "drain")
  BY DEF Return, HeadPcs
<1>2. UNCHANGED <<draining, stopsSent, workerPc, workerTasks, workerOutstanding>>
  BY DEF loopVars, workerVars
<1>3. /\ NumWorkers' = NumWorkers /\ (WorkerAvailable)' = WorkerAvailable
      /\ (TypeOK)' = TypeOK /\ UNCHANGED numTasksScheduled
  BY DEF NumWorkers, WorkerAvailable, FirstEntry, lrrVars, TypeOK
<1>4. remaining' \in [Chains -> 0 .. BatchSize]
  BY RemainingTyped
<1>5. ODSTypeOK'
  BY <1>1, <1>2, <1>3, <1>4 DEF IInv, ODSTypeOK
<1>6. LoadOK'
  BY <1>2, LoadSame DEF IInv
<1>7. BatchOK'
  BY <1>1 DEF IInv, BatchOK
<1>8. HeadOK'
  <2>1. HeadOK /\ stopsSent = 0
    BY SizeAssumption DEF IInv, HeadOK, ODSTypeOK
  <2>2. headPc' = "deliver" => tasks' # <<>> /\ Head(tasks').answer_required
    BY DEF Return
  <2>3. draining' = draining /\ stopsSent' = 0 /\ NumWorkers' = 0
    BY <1>2, <1>3, <2>1
  <2> QED BY <1>1, <2>2, <2>3 DEF HeadOK
<1>9. WorkersOK' /\ NoIdleWorker'
  BY <1>2, <1>3 DEF IInv, WorkersOK, NoIdleWorker
<1> QED BY <1>5, <1>6, <1>7, <1>8, <1>9 DEF IInv

LEMMA ExecuteOwnKeeps ==
  ASSUME IInv, ExecuteOwn
  PROVE  IInv'
<1>1. /\ headPc = "own" /\ NumWorkers = 0
      /\ UNCHANGED <<loopVars, chainVars, numWaitingForReply, outstanding,
                     rpcVars, lrrVars, toWorker, toHead, workerVars, results>>
  BY DEF ExecuteOwn, IInv, HeadOK
<1>2. /\ ODSTypeOK /\ tasks \in Seq(Message) /\ executions \in [Tasks -> Nat]
      /\ remaining \in [Chains -> 0 .. BatchSize]
      /\ Lines \in [Holders -> Seq(Packet)] /\ Lines[0] = tasks
      /\ Dones \in [Holders -> Nat] /\ Dones[0] = 0
  BY <1>1, LinesFact DEF IInv, ODSTypeOK
<1>3. CASE tasks = <<>>
  <2>1. headPc' = Return /\ UNCHANGED <<tasks, executions>>
    BY <1>3 DEF ExecuteOwn
  <2>2. outstanding' \subseteq Workers \X Message
    BY <1>1, <1>2 DEF ODSTypeOK
  <2> QED BY <1>1, <2>1, <2>2, ReturnKeeps DEF history
<1>4. CASE tasks # <<>>
  <2>1. PICK F, L, D, E, R, S, K, m :
          /\ F = functionMap /\ L = Lines /\ D = Dones /\ E = executions
          /\ R = results /\ S = SubmittedTasks /\ K = 1 .. stopsSent
          /\ m = Head(tasks)
    OBVIOUS
  <2>2. /\ Head(tasks) = tasks[1] /\ m \in Message /\ Tail(tasks) \in Seq(Message)
        /\ 1 \in DOMAIN tasks
    BY <1>2, <1>4, <2>1, TailAt
  <2>3. /\ HoldersOK(L, D, F, E, R, S, K) /\ E \in [Tasks -> Nat] /\ 0 \notin K
        /\ 0 \notin DOMAIN F /\ L[0] # <<>> /\ D[0] = 0 /\ m = L[0][1]
        /\ 0 \in Holders
    BY <1>2, <1>4, <2>1, <2>2, HolderFacts DEF IInv, CallsOK, ODSTypeOK
  <2>4. ExecutionCounts(0, m, F, E, R, S)
    <3>1. D[0] + 1 \in DOMAIN L[0] /\ m = L[0][D[0] + 1]
      BY <1>2, <2>1, <2>2, <2>3
    <3> QED BY <2>3, <3>1, ExecutedCounts
  <2>5. Executed(E, m) \in [Tasks -> Nat] /\ m.task # StopCall
    BY <2>4 DEF ExecutionCounts
  <2>6. executions' = Executed(E, m)
    BY <1>4, <2>1, <2>5 DEF ExecuteOwn, ExecuteCall, Executed
  <2>7. SubmittedTasks' = SubmittedTasks /\ UuidOK' /\ RemainingOK'
    BY <1>1, SubmittedStay, UuidStay, RemainingStay DEF IInv, chainVars, rpcVars
  <2>8. /\ newUuid' \in Nat /\ unused' \in Seq(Nat)
        /\ DOMAIN functionMap' \subseteq 1 .. newUuid'
        /\ \A id \in DOMAIN functionMap' : functionMap'[id] \in Tasks
        /\ remaining' = [c \in Chains |-> remaining'[c]]
        /\ executions' \in [Tasks -> Nat] /\ results' \in [Tasks -> Seq(Tasks)]
        /\ UNCHANGED <<stopsSent, workerTasks, round, batch, functionMap>>
    BY <1>1, <1>2, <2>5, <2>6
       DEF ODSTypeOK, chainVars, rpcVars, loopVars, workerVars
  <2>9. CASE m.answer_required
    <3>1. headPc' = "deliver" /\ tasks' = tasks
      BY <1>4, <2>1, <2>9 DEF ExecuteOwn
    <3>2. Lines' = Lines
      BY <1>1, <2>8, <3>1, LinesStay
    <3>3. Dones' = [Dones EXCEPT ![0] = 1]
      BY <1>1, <1>2, <3>1, DonesOwn
    <3>4. m.answer_required = TRUE
      BY <2>2, <2>9, MessageFacts
    <3>5. HoldersOK(L, [D EXCEPT ![0] = 1], F, Executed(E, m), R, S, K)
      BY <2>3, <3>4, ExecuteHere
    <3>6. CallsOK'
      BY <1>1, <2>1, <2>6, <2>7, <2>8, <3>2, <3>3, <3>5 DEF CallsOK
    <3>7. /\ headPc' = "deliver" /\ tasks' # <<>> /\ Head(tasks').answer_required
      BY <1>4, <2>1, <2>9, <3>1
    <3> QED BY <1>1, <1>2, <2>7, <2>8, <3>1, <3>2, <3>6, <3>7, OwnKeeps
  <2>10. CASE ~m.answer_required
    <3>1. headPc' = Return /\ tasks' = Tail(tasks)
      BY <1>4, <2>1, <2>10 DEF ExecuteOwn
    <3>2. Tail(tasks) \in Seq(Packet) /\ headPc' # "deliver"
      <4>1. Message \subseteq Packet
        BY DEF Packet
      <4> QED BY <2>2, <3>1, <4>1, SeqWider DEF Return
    <3>3. Lines' = [Lines EXCEPT ![0] = Tail(tasks)]
      BY <1>1, <1>2, <2>8, <3>1, <3>2, LinesQueue
    <3>4. Dones' = Dones
      BY <1>1, <3>2, DonesStay
    <3>5. HoldersOK([L EXCEPT ![0] = Tail(@)], D, F, Executed(E, m), R, S, K)
      BY <2>3, <2>10, ExecuteNotice
    <3>6. CallsOK'
      BY <1>1, <1>2, <2>1, <2>6, <2>7, <2>8, <3>3, <3>4, <3>5 DEF CallsOK
    <3>7. \A w \in Workers : Lines'[w] = Lines[w]
      BY <1>2, <3>3, HolderFacts
    <3>8. tasks' \in Seq(Message)
      BY <2>2, <3>1
    <3> QED BY <1>1, <2>7, <2>8, <3>1, <3>6, <3>7, <3>8, OwnKeeps
  <2> QED BY <2>9, <2>10
<1> QED BY <1>3, <1>4

LEMMA DeliverOwnKeeps ==
  ASSUME IInv, DeliverOwn
  PROVE  IInv'
<1>1. /\ headPc = "deliver" /\ NumWorkers = 0 /\ tasks # <<>>
      /\ Head(tasks).answer_required /\ ExecuteResult(Answer(Head(tasks)))
      /\ tasks' = Tail(tasks) /\ headPc' = Return
      /\ UNCHANGED <<loopVars, round, batch, numWaitingForReply, outstanding,
                     lrrVars, toWorker, toHead, workerVars, executions>>
  BY DEF DeliverOwn, IInv, HeadOK
<1>2. /\ ODSTypeOK /\ tasks \in Seq(Message) /\ executions \in [Tasks -> Nat]
      /\ results \in [Tasks -> Seq(Tasks)]
      /\ Lines \in [Holders -> Seq(Packet)] /\ Lines[0] = tasks
      /\ Dones \in [Holders -> Nat] /\ Dones[0] = 1
  BY <1>1, LinesFact DEF IInv, ODSTypeOK
<1>3. PICK F, L, D, E, R, S, K, m :
        /\ F = functionMap /\ L = Lines /\ D = Dones /\ E = executions
        /\ R = results /\ S = SubmittedTasks /\ K = 1 .. stopsSent
        /\ m = Head(tasks)
  OBVIOUS
<1>4. /\ Head(tasks) = tasks[1] /\ m \in Message /\ Tail(tasks) \in Seq(Message)
  BY <1>1, <1>2, <1>3, TailAt
<1>5. m # Ping
  BY <1>4, MessageFacts
<1>6. /\ HoldersOK(L, D, F, E, R, S, K) /\ R \in [Tasks -> Seq(Tasks)]
      /\ D[0] # 0 /\ m = L[0][1] /\ 0 \in Holders
  BY <1>2, <1>3, <1>4, HolderFacts DEF IInv, CallsOK
<1>7. DeliveryCounts(m, F, E, R, S)
  BY <1>6, DeliveredCounts
<1>8. m.id \in DOMAIN functionMap /\ functionMap[m.id] = m.task /\ m.task \in Tasks
  BY <1>3, <1>5, <1>7 DEF DeliveryCounts
<1>9. PICK a : a = Answer(m)
  OBVIOUS
<1>10. a.id = m.id /\ a.task = m.task
  BY <1>9 DEF Answer
<1>11. ExecuteResult(a)
  BY <1>1, <1>3, <1>9
<1>12. /\ a.id \in DOMAIN functionMap /\ functionMap[a.id] = a.task
       /\ a.task \in Tasks /\ round' = round
  BY <1>1, <1>8, <1>10
<1>13. /\ UuidOK' /\ RemainingOK'
       /\ newUuid' \in Nat /\ unused' \in Seq(Nat)
       /\ DOMAIN functionMap' \subseteq 1 .. newUuid'
       /\ \A id \in DOMAIN functionMap' : functionMap'[id] \in Tasks
       /\ remaining' = [c \in Chains |-> remaining'[c]]
       /\ results' \in [Tasks -> Seq(Tasks)]
       /\ functionMap' = Unregistered(a, functionMap)
       /\ results' = Delivered(a, functionMap, results)
  BY <1>11, <1>12, ExecuteResultKeeps
<1>14. /\ functionMap' = Unregistered(m, F) /\ results' = Delivered(m, F, R)
  BY <1>3, <1>10, <1>13 DEF Unregistered, Delivered
<1>15. HoldersOK([L EXCEPT ![0] = Tail(@)], [D EXCEPT ![0] = @ - 1],
                 Unregistered(m, F), E, Delivered(m, F, R), S, K)
  BY <1>5, <1>6, DeliverCall
<1>16. Lines' = [Lines EXCEPT ![0] = Tail(tasks)]
  <2>1. Message \subseteq Packet
    BY DEF Packet
  <2>2. Tail(tasks) \in Seq(Packet)
    BY <1>4, <2>1, SeqWider
  <2> QED BY <1>1, <1>2, <2>2, LinesQueue DEF workerVars
<1>17. Dones' = [Dones EXCEPT ![0] = @ - 1]
  <2>1. headPc' # "deliver"
    BY <1>1 DEF Return
  <2>2. Dones' = [Dones EXCEPT ![0] = 0]
    BY <1>1, <1>2, <2>1, DonesOwn
  <2> QED BY <1>2, <2>2
<1>18. SubmittedTasks' = SubmittedTasks
  BY <1>1, SubmittedStay
<1>19. CallsOK'
  BY <1>1, <1>2, <1>3, <1>14, <1>15, <1>16, <1>17, <1>18 DEF CallsOK, loopVars
<1>20. \A w \in Workers : Lines'[w] = Lines[w]
  BY <1>2, <1>16, HolderFacts
<1>21. tasks' \in Seq(Message) /\ executions' \in [Tasks -> Nat]
  BY <1>1, <1>2, <1>4
<1> QED BY <1>1, <1>13, <1>19, <1>20, <1>21, OwnKeeps


(* The end: stop_running goes to every worker.                              *)
LEMMA StopSends ==
  ASSUME IInv, StopNextWorker, stopsSent < NumWorkers
  PROVE  IInv'
<1> DEFINE w == stopsSent + 1
<1>1. /\ headPc = "stop" /\ headPc' = "stop" /\ stopsSent' = w
      /\ SendCall(w, StopMessage)
      /\ numWaitingForReply' = numWaitingForReply + 1
      /\ UNCHANGED <<draining, chainVars, tasks, rpcVars, lrrVars, toHead,
                     workerVars, history>>
  BY DEF StopNextWorker, StopMessage
<1>2. /\ ODSTypeOK /\ stopsSent \in Nat /\ NumWorkers = Size /\ w \in Workers
      /\ TypeOK /\ LookupConsistent /\ w \in 0 .. Size /\ NumWorkers > 0
      /\ Exact(Lines, numTasksScheduled, stopsSent, numWaitingForReply)
      /\ numTasksScheduled \in [Ids -> Loads] /\ numWaitingForReply \in Nat
  <2>1. ODSTypeOK /\ LoadOK /\ stopsSent \in Nat /\ stopsSent >= 0
        /\ stopsSent <= Size /\ numWaitingForReply \in Nat
    BY SizeAssumption DEF IInv, ODSTypeOK
  <2>2. NumWorkers > 0
    BY <2>1, NumWorkersAre
  <2> QED BY <2>1, <2>2, NumWorkersAre, SizeAssumption DEF Workers, TypeOK
<1>3. /\ toWorker' = [toWorker EXCEPT ![w] = Append(@, StopMessage)]
      /\ toWorker' \in [Workers -> Seq(Message)]
      /\ outstanding' \subseteq Workers \X Message
  BY <1>1, <1>2, SentTypes, MessageFacts
<1>4. Lines' = [Lines EXCEPT ![w] = Append(@, StopMessage)]
  <2>1. Lines' = [[Lines EXCEPT ![0] = tasks] EXCEPT ![w] = Append(@, StopMessage)]
    <3>1. /\ tasks \in Seq(Packet) /\ StopMessage \in Packet /\ tasks' = tasks
          /\ UNCHANGED <<toHead, workerTasks>>
      BY <1>1, <1>2, LinesFact, MessageFacts DEF workerVars
    <3> QED BY <1>2, <1>3, <3>1, LinesSend
  <2>2. Lines[0] = tasks /\ Lines \in [Holders -> Seq(Packet)]
    BY <1>2, LinesFact
  <2>3. [Lines EXCEPT ![0] = tasks] = Lines
    BY <2>2
  <2> QED BY <2>1, <2>3
<1>5. CallsOK'
  <2>1. PICK F, L, D, E, R, S, K, K2 :
          /\ F = functionMap /\ L = Lines /\ D = Dones /\ E = executions
          /\ R = results /\ S = SubmittedTasks /\ K = 1 .. stopsSent /\ K2 = 1 .. w
    OBVIOUS
  <2>2. HoldersOK(L, D, F, E, R, S, K) /\ w \in Holders /\ w \in K2 /\ K \subseteq K2
    BY <1>2, <2>1, HolderFacts DEF IInv, CallsOK
  <2>3. HoldersOK([L EXCEPT ![w] = Append(@, StopMessage)], D, F, E, R, S, K2)
    BY <2>2, NewStop
  <2>4. Dones' = Dones /\ SubmittedTasks' = SubmittedTasks
    BY <1>1, DonesStay, SubmittedStay DEF chainVars
  <2> QED BY <1>1, <1>4, <2>1, <2>3, <2>4 DEF CallsOK, rpcVars, history
<1>6. /\ NumWorkers' = NumWorkers /\ (TypeOK)' = TypeOK
      /\ (LookupConsistent)' = LookupConsistent
      /\ (WorkerAvailable)' = WorkerAvailable
      /\ numTasksScheduled' = numTasksScheduled
  BY <1>1 DEF NumWorkers, TypeOK, LookupConsistent, lrrVars, WorkerAvailable, FirstEntry
<1>7. Exact(Lines', numTasksScheduled, w, numWaitingForReply + 1)
  <2>1. PICK L, M, num, n : L = Lines /\ M = Lines' /\ num = numTasksScheduled
                            /\ n = numWaitingForReply
    OBVIOUS
  <2>2. L \in [Holders -> Seq(Packet)] /\ w \in Holders /\ StopMessage \in Packet
    BY <1>2, <2>1, LinesFact, HolderFacts, MessageFacts
  <2>3. /\ Len(M[stopsSent + 1]) = Len(L[stopsSent + 1]) + 1
        /\ \A v \in Workers : v # stopsSent + 1 => Len(M[v]) = Len(L[v])
    BY <1>4, <2>1, <2>2, AppendPlaces, HolderFacts
  <2>4. num \in [Ids -> Loads] /\ Exact(L, num, stopsSent, n) /\ stopsSent < Size
    BY <1>2, <2>1
  <2>5. Exact(M, num, stopsSent + 1, n + 1)
    BY <1>2, <2>3, <2>4, ExactStop
  <2> QED BY <2>1, <2>5
<1>8. LoadOK'
  <2>1. Exact(Lines', numTasksScheduled', stopsSent', numWaitingForReply')
    BY <1>1, <1>6, <1>7
  <2>2. Exact(Lines, numTasksScheduled, stopsSent, numWaitingForReply)'
    BY <2>1 DEF Exact, Units
  <2> QED BY <1>2, <1>6, <2>2 DEF LoadOK
<1>9. ODSTypeOK'
  <2>1. numWaitingForReply' \in Nat /\ stopsSent' \in 0 .. Size
    BY <1>1, <1>2
  <2> QED BY <1>1, <1>2, <1>3, <1>6, <2>1
          DEF ODSTypeOK, chainVars, rpcVars, workerVars, history
<1>10. UuidOK' /\ BatchOK' /\ RemainingOK'
  BY <1>1, UuidStay, RemainingStay DEF IInv, BatchOK, chainVars, rpcVars
<1>11. HeadOK'
  <2>1. HeadOK /\ stopsSent' <= NumWorkers
    BY <1>1, <1>2 DEF IInv
  <2> QED BY <1>1, <1>6, <2>1 DEF HeadOK, rpcVars
<1>12. WorkersOK'
  <2>1. \A v \in 1 .. NumWorkers : v <= stopsSent => v <= stopsSent'
    BY <1>1, <1>2
  <2> QED BY <1>1, <1>6, <2>1 DEF IInv, WorkersOK, workerVars
<1>13. NoIdleWorker'
  BY <1>1 DEF NoIdleWorker
<1> QED BY <1>5, <1>8, <1>9, <1>10, <1>11, <1>12, <1>13 DEF IInv

LEMMA StopKeeps ==
  ASSUME IInv, StopNextWorker
  PROVE  IInv'
<1>1. CASE stopsSent < NumWorkers
  BY <1>1, StopSends
<1>2. CASE ~(stopsSent < NumWorkers)
  <2>1. /\ headPc = "stop" /\ headPc' = "left"
        /\ UNCHANGED <<stopsSent, toWorker, outstanding, numWaitingForReply>>
        /\ UNCHANGED <<draining, chainVars, tasks, rpcVars, lrrVars, toHead,
                       workerVars, history>>
    BY <1>2 DEF StopNextWorker
  <2>2. NumWorkers' = NumWorkers
    BY <2>1 DEF NumWorkers, lrrVars
  <2>3. HeadOK'
    BY <2>1, <2>2 DEF IInv, HeadOK, rpcVars, lrrVars
  <2>4. NoIdleWorker' /\ headPc' \in HeadPcs /\ draining' \in BOOLEAN
        /\ outstanding' \subseteq Workers \X Message
    BY <2>1 DEF NoIdleWorker, HeadPcs, IInv, ODSTypeOK
  <2> QED BY <2>1, <2>3, <2>4, Quiet
<1> QED BY <1>1, <1>2

-----------------------------------------------------------------------------
(* The workers                                                             *)

(* What a step of worker w leaves as it is.                                 *)
LEMMA WorkerKeeps ==
  ASSUME IInv, NEW w \in Workers, UNCHANGED headVars,
         CallsOK', \A v \in Workers : Len(Lines'[v]) = Len(Lines[v]),
         NumWorkers = 0 => \A v \in Workers : Lines'[v] = Lines[v],
         toWorker' \in [Workers -> Seq(Message)],
         toHead' \in [Workers -> Seq(Message \union {Ping})],
         workerPc' \in [Workers -> {"recv", "test", "wait", "exec", "left"}],
         workerTasks' \in [Workers -> Seq(Message)],
         workerOutstanding' \in [Workers -> SUBSET Message],
         executions' \in [Tasks -> Nat], results' \in [Tasks -> Seq(Tasks)],
         WorkersOK'
  PROVE  IInv'
<1>1. /\ UNCHANGED <<headPc, draining, stopsSent, round, remaining, batch, tasks,
                     numWaitingForReply, outstanding, functionMap, newUuid, unused,
                     numTasksScheduled, idsForScheduled, rpcVars, lrrVars>>
  BY DEF headVars, loopVars, chainVars, rpcVars, lrrVars
<1>2. /\ NumWorkers' = NumWorkers /\ (TypeOK)' = TypeOK
      /\ (LookupConsistent)' = LookupConsistent
      /\ (WorkerAvailable)' = WorkerAvailable
  BY <1>1 DEF NumWorkers, TypeOK, LookupConsistent, WorkerAvailable, FirstEntry
<1>3. ODSTypeOK'
  BY <1>1, <1>2 DEF IInv, ODSTypeOK
<1>4. UuidOK' /\ RemainingOK' /\ BatchOK'
  BY <1>1, UuidStay, RemainingStay DEF IInv, BatchOK
<1>5. HeadOK' /\ NoIdleWorker'
  BY <1>1, <1>2 DEF IInv, HeadOK, NoIdleWorker
<1>6. LoadOK'
  <2>1. ASSUME Exact(Lines, numTasksScheduled, stopsSent, numWaitingForReply)
        PROVE  Exact(Lines, numTasksScheduled, stopsSent, numWaitingForReply)'
    <3>1. Exact(Lines', numTasksScheduled, stopsSent, numWaitingForReply)
      BY <2>1, ExactSame
    <3> QED BY <1>1, <3>1 DEF Exact, Units
  <2> QED BY <1>1, <1>2, <2>1 DEF IInv, LoadOK
<1> QED BY <1>3, <1>4, <1>5, <1>6 DEF IInv

(* Where the calls are does not change when a worker takes one.             *)
LEMMA WorkerQuiet ==
  ASSUME IInv, NEW w \in Workers, UNCHANGED <<headVars, history, toHead>>,
         Lines' = Lines, workerPc[w] # "left",
         toWorker' \in [Workers -> Seq(Message)],
         workerTasks' \in [Workers -> Seq(Message)],
         workerOutstanding' \in [Workers -> SUBSET Message],
         NEW pc \in {"recv", "test", "wait", "exec"},
         workerPc' = [workerPc EXCEPT ![w] = pc],
         pc = "exec" => workerTasks'[w] # <<>>,
         \A v \in Workers : v # w => workerTasks'[v] = workerTasks[v]
  PROVE  IInv'
<1>1. UNCHANGED <<headPc, functionMap, executions, results, stopsSent, batch, round,
                  lrrVars>>
  BY DEF headVars, loopVars, chainVars, rpcVars, history
<1>2. CallsOK'
  BY <1>1, CallsStay, DonesStay, SubmittedStay DEF IInv
<1>3. NumWorkers' = NumWorkers
  BY <1>1 DEF NumWorkers, lrrVars
<1>4. workerPc \in [Workers -> {"recv", "test", "wait", "exec", "left"}]
      /\ toHead' \in [Workers -> Seq(Message \union {Ping})]
      /\ executions' \in [Tasks -> Nat] /\ results' \in [Tasks -> Seq(Tasks)]
  BY <1>1 DEF IInv, ODSTypeOK
<1>5. workerPc' \in [Workers -> {"recv", "test", "wait", "exec", "left"}]
  BY <1>4
<1>6. WorkersOK'
  <2>1. WorkersOK /\ \A v \in Workers :
          workerPc'[v] = IF v = w THEN pc ELSE workerPc[v]
    BY <1>4 DEF IInv
  <2>2. \A v \in Workers : workerPc'[v] = "exec" => workerTasks'[v] # <<>>
    BY <2>1 DEF WorkersOK
  <2>3. \A v \in Workers : v > NumWorkers => workerPc'[v] = "left"
    BY <2>1 DEF WorkersOK
  <2>4. 1 .. NumWorkers \subseteq Workers
    BY NumWorkersAre, SizeAssumption DEF IInv, Workers
  <2>5. \A v \in 1 .. NumWorkers : workerPc'[v] = "left" =>
          v <= stopsSent /\ toHead[v] = <<Ping>>
    BY <2>1, <2>4 DEF WorkersOK
  <2> QED BY <1>1, <1>3, <2>2, <2>3, <2>5 DEF WorkersOK
<1> QED BY <1>2, <1>4, <1>5, <1>6, WorkerKeeps

LEMMA TakeTypes ==
  ASSUME ODSTypeOK, NEW w \in Workers, TakeMessage(w)
  PROVE  /\ toWorker' \in [Workers -> Seq(Message)]
         /\ workerTasks' \in [Workers -> Seq(Message)]
         /\ workerTasks'[w] # <<>>
         /\ \A v \in Workers : v # w => workerTasks'[v] = workerTasks[v]
<1>1. PICK s, u : s = workerTasks[w] /\ u = toWorker[w]
  OBVIOUS
<1>2. s \in Seq(Message) /\ u \in Seq(Message) /\ u # <<>>
      /\ workerTasks \in [Workers -> Seq(Message)]
      /\ toWorker \in [Workers -> Seq(Message)]
  BY <1>1 DEF ODSTypeOK, TakeMessage
<1>3. Tail(u) \in Seq(Message) /\ Head(u) \in Message
  BY <1>2, TailAt
<1>4. Append(s, Head(u)) \in Seq(Message) /\ Append(s, Head(u)) # <<>>
  <2>1. PICK e : e = Head(u)
    OBVIOUS
  <2>2. Append(s, e) \in Seq(Message) /\ Len(Append(s, e)) = Len(s) + 1 /\ Len(s) \in Nat
    BY <1>2, <1>3, <2>1, AppendAt
  <2> QED BY <2>1, <2>2
<1>5. /\ workerTasks' = [workerTasks EXCEPT ![w] = Append(s, Head(u))]
      /\ toWorker' = [toWorker EXCEPT ![w] = Tail(u)]
  BY <1>1, <1>2 DEF TakeMessage
<1> QED BY <1>2, <1>3, <1>4, <1>5

LEMMA WorkerReceiveKeeps ==
  ASSUME IInv, NEW w \in Workers, WorkerReceive(w)
  PROVE  IInv'
<1>1. /\ workerPc[w] = "recv" /\ ODSTypeOK
      /\ UNCHANGED <<headVars, toHead, workerOutstanding, history>>
      /\ workerPc \in [Workers -> {"recv", "test", "wait", "exec", "left"}]
      /\ toWorker \in [Workers -> Seq(Message)]
      /\ workerTasks \in [Workers -> Seq(Message)]
      /\ workerOutstanding' \in [Workers -> SUBSET Message]
  BY DEF WorkerReceive, IInv, ODSTypeOK
<1>2. UNCHANGED tasks
  BY <1>1 DEF headVars
<1>3. CASE TakeMessage(w) /\ UNCHANGED workerPc
  <2>1. Lines' = Lines
    BY <1>1, <1>2, <1>3, LinesReceive
  <2>2. workerPc' = [workerPc EXCEPT ![w] = "recv"]
    BY <1>1, <1>3
  <2> QED BY <1>1, <1>3, <2>1, <2>2, TakeTypes, WorkerQuiet
<1>4. CASE /\ workerPc' = [workerPc EXCEPT ![w] = "test"]
           /\ UNCHANGED <<workerTasks, toWorker>>
  <2>1. Lines' = Lines
    BY <1>1, <1>2, <1>4, LinesStay
  <2> QED BY <1>1, <1>4, <2>1, WorkerQuiet
<1> QED BY <1>3, <1>4 DEF WorkerReceive

LEMMA WorkerTestKeeps ==
  ASSUME IInv, NEW w \in Workers, WorkerTest(w)
  PROVE  IInv'
<1>1. /\ workerPc[w] = "test" /\ ODSTypeOK
      /\ UNCHANGED <<headVars, toWorker, toHead, workerTasks, history>>
      /\ workerPc' = [workerPc EXCEPT ![w] = "wait"]
      /\ toWorker' \in [Workers -> Seq(Message)]
      /\ workerTasks' \in [Workers -> Seq(Message)]
  BY DEF WorkerTest, IInv, ODSTypeOK
<1>2. workerOutstanding' \in [Workers -> SUBSET Message]
  BY DEF WorkerTest, WorkerTestForMessages, IInv, ODSTypeOK
<1>3. Lines' = Lines
  BY <1>1, LinesStay DEF headVars
<1> QED BY <1>1, <1>2, <1>3, WorkerQuiet

LEMMA WorkerWaitKeeps ==
  ASSUME IInv, NEW w \in Workers, WorkerWait(w)
  PROVE  IInv'
<1>1. /\ workerPc[w] = "wait" /\ ODSTypeOK /\ UNCHANGED <<headVars, toHead, history>>
      /\ workerPc \in [Workers -> {"recv", "test", "wait", "exec", "left"}]
      /\ toWorker \in [Workers -> Seq(Message)]
      /\ workerTasks \in [Workers -> Seq(Message)]
      /\ workerOutstanding \in [Workers -> SUBSET Message]
  BY DEF WorkerWait, IInv, ODSTypeOK
<1>2. UNCHANGED tasks
  BY <1>1 DEF headVars
<1>3. CASE /\ workerTasks[w] # <<>>
           /\ workerPc' = [workerPc EXCEPT ![w] = "exec"]
           /\ UNCHANGED <<workerTasks, toWorker, workerOutstanding>>
  <2>1. Lines' = Lines
    BY <1>1, <1>2, <1>3, LinesStay
  <2> QED BY <1>1, <1>3, <2>1, WorkerQuiet
<1>4. CASE /\ TakeMessage(w)
           /\ workerPc' = [workerPc EXCEPT ![w] = "exec"]
           /\ UNCHANGED workerOutstanding
  <2>1. Lines' = Lines
    BY <1>1, <1>2, <1>4, LinesReceive
  <2>2. workerOutstanding' \in [Workers -> SUBSET Message]
    BY <1>1, <1>4
  <2> QED BY <1>1, <1>4, <2>1, <2>2, TakeTypes, WorkerQuiet
<1>5. CASE /\ \E m \in workerOutstanding[w] :
                workerOutstanding' = [workerOutstanding EXCEPT ![w] = @ \ {m}]
           /\ UNCHANGED <<workerPc, workerTasks, toWorker>>
  <2>1. Lines' = Lines
    BY <1>1, <1>2, <1>5, LinesStay
  <2>2. workerPc' = [workerPc EXCEPT ![w] = "wait"]
    BY <1>1, <1>5
  <2>3. workerOutstanding' \in [Workers -> SUBSET Message]
    BY <1>1, <1>5
  <2> QED BY <1>1, <1>5, <2>1, <2>2, <2>3, WorkerQuiet
<1> QED BY <1>3, <1>4, <1>5 DEF WorkerWait

(* The step in which worker w executes m.                                   *)
LEMMA ExecuteTypes ==
  ASSUME IInv, NEW w \in Workers, WorkerExecute(w),
         NEW m, m = Head(workerTasks[w])
  PROVE  /\ workerPc[w] = "exec" /\ workerTasks[w] # <<>>
         /\ m \in Message /\ Replied(m) \in Message \union {Ping}
         /\ workerTasks' = [workerTasks EXCEPT ![w] = Tail(@)]
         /\ toHead' = [toHead EXCEPT ![w] = Append(@, Replied(m))]
         /\ workerPc' = [workerPc EXCEPT ![w] = IF m.task = StopCall THEN "left"
                                                                   ELSE "recv"]
         /\ executions' = Executed(executions, m)
         /\ UNCHANGED <<headVars, toWorker, results>>
         /\ workerOutstanding' \in [Workers -> SUBSET Message]
         /\ workerTasks' \in [Workers -> Seq(Message)]
         /\ toHead' \in [Workers -> Seq(Message \union {Ping})]
<1>1. /\ workerPc[w] = "exec" /\ workerTasks[w] # <<>>
      /\ workerTasks' = [workerTasks EXCEPT ![w] = Tail(@)]
      /\ UNCHANGED <<headVars, toWorker, results>>
      /\ workerTasks \in [Workers -> Seq(Message)]
      /\ toHead \in [Workers -> Seq(Message \union {Ping})]
      /\ workerOutstanding \in [Workers -> SUBSET Message]
  BY DEF WorkerExecute, IInv, WorkersOK, ODSTypeOK
<1>2. PICK s, u : s = workerTasks[w] /\ u = toHead[w]
  OBVIOUS
<1>3. /\ s \in Seq(Message) /\ s # <<>> /\ u \in Seq(Message \union {Ping})
      /\ m = Head(s)
  BY <1>1, <1>2
<1>4. m \in Message /\ Tail(s) \in Seq(Message)
  BY <1>3, TailAt
<1>5. Answer(m) \in Message
  BY <1>4, MessageFacts DEF Answer
<1>6. Replied(m) \in Message \union {Ping}
  BY <1>5 DEF Replied
<1>7. /\ workerPc' = [workerPc EXCEPT ![w] = IF m.task = StopCall THEN "left"
                                                                ELSE "recv"]
      /\ executions' = Executed(executions, m)
  BY DEF WorkerExecute, ExecuteCall, Executed
<1>8. /\ toHead' = [toHead EXCEPT ![w] = Append(@, Replied(m))]
      /\ workerOutstanding' \in [Workers -> SUBSET Message]
  <2>1. CASE m.answer_required
    <3>1. SendAnswer(w, Answer(m))
      BY <2>1 DEF WorkerExecute
    <3> QED BY <1>1, <1>5, <2>1, <3>1, ZenonT(40) DEF SendAnswer, Replied
  <2>2. CASE ~m.answer_required
    <3>1. toHead' = [toHead EXCEPT ![w] = Append(@, Ping)] /\ UNCHANGED workerOutstanding
      BY <2>2 DEF WorkerExecute
    <3> QED BY <1>1, <2>2, <3>1 DEF Replied
  <2> QED BY <2>1, <2>2
<1>9. Append(u, Replied(m)) \in Seq(Message \union {Ping})
  <2>1. PICK e : e = Replied(m)
    OBVIOUS
  <2>2. PICK S : S = Message \union {Ping}
    OBVIOUS
  <2>3. Append(u, e) \in Seq(S)
    BY <1>3, <1>6, <2>1, <2>2, AppendAt
  <2> QED BY <2>1, <2>2, <2>3
<1>10. workerTasks' \in [Workers -> Seq(Message)]
       /\ toHead' \in [Workers -> Seq(Message \union {Ping})]
  <2>1. workerTasks' = [workerTasks EXCEPT ![w] = Tail(s)]
        /\ toHead' = [toHead EXCEPT ![w] = Append(u, Replied(m))]
    BY <1>1, <1>2, <1>8
  <2> QED BY <1>1, <1>4, <1>9, <2>1
<1> QED BY <1>1, <1>4, <1>6, <1>7, <1>8, <1>10

(* A worker told to stop has executed everything else, and been answered.   *)
LEMMA StopIsLast ==
  ASSUME IInv, NEW w \in Workers, NumWorkers > 0, NEW i \in DOMAIN Lines[w],
         i > Dones[w], Lines[w][i] = StopMessage
  PROVE  w <= stopsSent /\ Len(Lines[w]) = 1 /\ toHead[w] = <<>>
<1>1. /\ ODSTypeOK /\ w \in Holders /\ Lines[w] \in Seq(Packet)
      /\ Dones[w] = Len(toHead[w]) /\ toHead[w] \in Seq(Packet)
      /\ Dones[w] \in Nat /\ i \in Nat /\ i <= Len(Lines[w])
  <2>1. /\ ODSTypeOK /\ w \in Holders /\ Lines \in [Holders -> Seq(Packet)]
        /\ Dones[w] = Len(toHead[w]) /\ toHead[w] \in Seq(Packet)
        /\ Dones \in [Holders -> Nat]
    BY LinesFact, HolderFacts DEF IInv
  <2> QED BY <2>1
<1>2. ItemOK(w, StopMessage, i <= Dones[w], functionMap, executions, results,
             SubmittedTasks, 1 .. stopsSent)
  BY <1>1 DEF IInv, CallsOK, HoldersOK, ItemsOK
<1>3. w \in 1 .. stopsSent
  <2>1. StopMessage.task \notin SubmittedTasks
    BY MessageFacts, TaskFacts DEF SubmittedTasks
  <2> QED BY <1>2, <2>1, MessageFacts DEF ItemOK, CallOK
<1>4. stopsSent \in Nat /\ w \in Nat /\ w <= stopsSent /\ stopsSent > 0
  BY <1>1, <1>3, SizeAssumption DEF ODSTypeOK, Workers
<1>5. \A id \in DOMAIN numTasksScheduled : numTasksScheduled[id] = 0
  BY <1>4 DEF IInv, HeadOK
<1>6. /\ Exact(Lines, numTasksScheduled, stopsSent, numWaitingForReply)
      /\ numTasksScheduled \in [Ids -> Loads] /\ w - 1 \in Ids
  BY NumWorkersAre, SizeAssumption DEF IInv, TypeOK, Ids, Workers
<1>7. Len(Lines[w]) = 1
  <2>1. DOMAIN numTasksScheduled = Ids
    BY <1>6
  <2>2. numTasksScheduled[w - 1] = 0
    BY <1>5, <1>6, <2>1
  <2>3. Len(Lines[w]) = numTasksScheduled[w - 1] + (IF w <= stopsSent THEN 1 ELSE 0)
    BY <1>6 DEF Exact
  <2> QED BY <1>4, <2>2, <2>3
<1>8. Len(toHead[w]) = 0
  BY <1>1, <1>7
<1> QED BY <1>1, <1>4, <1>7, <1>8

LEMMA WorkerExecuteKeeps ==
  ASSUME IInv, NEW w \in Workers, WorkerExecute(w)
  PROVE  IInv'
<1>1. PICK m : m = Head(workerTasks[w])
  OBVIOUS
<1>2. /\ workerPc[w] = "exec" /\ workerTasks[w] # <<>>
      /\ m \in Message /\ Replied(m) \in Message \union {Ping}
      /\ workerTasks' = [workerTasks EXCEPT ![w] = Tail(@)]
      /\ toHead' = [toHead EXCEPT ![w] = Append(@, Replied(m))]
      /\ workerPc' = [workerPc EXCEPT ![w] = IF m.task = StopCall THEN "left"
                                                                ELSE "recv"]
      /\ executions' = Executed(executions, m)
      /\ UNCHANGED <<headVars, toWorker, results>>
      /\ workerOutstanding' \in [Workers -> SUBSET Message]
      /\ workerTasks' \in [Workers -> Seq(Message)]
      /\ toHead' \in [Workers -> Seq(Message \union {Ping})]
  BY <1>1, ExecuteTypes
<1>3. /\ UNCHANGED <<headPc, tasks, functionMap, stopsSent, batch, round, lrrVars>>
      /\ ODSTypeOK
      /\ workerPc \in [Workers -> {"recv", "test", "wait", "exec", "left"}]
      /\ toHead \in [Workers -> Seq(Message \union {Ping})]
      /\ workerTasks \in [Workers -> Seq(Message)]
      /\ executions \in [Tasks -> Nat] /\ results \in [Tasks -> Seq(Tasks)]
      /\ toWorker' \in [Workers -> Seq(Message)] /\ results' = results
  BY <1>2 DEF headVars, loopVars, chainVars, rpcVars, IInv, ODSTypeOK
<1>4. NumWorkers = Size /\ NumWorkers > 0 /\ NumWorkers' = NumWorkers
  <2>1. ~(w > NumWorkers)
    BY <1>2 DEF IInv, WorkersOK
  <2> QED BY <1>3, <2>1, NumWorkersAre, SizeAssumption
          DEF IInv, Workers, NumWorkers, lrrVars
<1>5. PICK x : x = Replied(m)
  OBVIOUS
<1>6. /\ Lines' = [Lines EXCEPT ![w] = [@ EXCEPT ![Dones[w] + 1] = x]]
      /\ Dones' = [Dones EXCEPT ![w] = @ + 1]
      /\ Dones[w] + 1 \in DOMAIN Lines[w]
      /\ Lines[w][Dones[w] + 1] = m
      /\ Len(Lines'[w]) = Len(Lines[w])
  <2>1. x \in Packet
    BY <1>2, <1>5 DEF Packet
  <2>2. toHead' = [toHead EXCEPT ![w] = Append(@, x)]
    BY <1>2, <1>5
  <2> QED BY <1>1, <1>2, <1>3, <2>1, <2>2, LinesExecute
<1>7. PICK F, L, D, E, R, S, K :
        /\ F = functionMap /\ L = Lines /\ D = Dones /\ E = executions
        /\ R = results /\ S = SubmittedTasks /\ K = 1 .. stopsSent
  OBVIOUS
<1>8. /\ HoldersOK(L, D, F, E, R, S, K) /\ E \in [Tasks -> Nat]
      /\ w \in Holders /\ w # 0 /\ 0 \notin K /\ D[w] + 1 \in DOMAIN L[w]
      /\ L[w][D[w] + 1] \in Message /\ L[w][D[w] + 1] = m
      /\ L \in [Holders -> Seq(Packet)] /\ D \in [Holders -> Nat]
  BY <1>2, <1>3, <1>6, <1>7, HolderFacts, LinesFact DEF IInv, CallsOK
<1>9. HoldersOK([L EXCEPT ![w] = [@ EXCEPT ![D[w] + 1] = x]],
                [D EXCEPT ![w] = @ + 1], F, Executed(E, m), R, S, K)
  <2>1. LET y == L[w][D[w] + 1]
        IN  HoldersOK([L EXCEPT ![w] = [@ EXCEPT ![D[w] + 1] = Replied(y)]],
                      [D EXCEPT ![w] = @ + 1], F, Executed(E, y), R, S, K)
    BY <1>8, ExecuteAway
  <2> QED BY <1>5, <1>8, <2>1
<1>10. CallsOK'
  <2>1. SubmittedTasks' = SubmittedTasks
    BY <1>3, SubmittedStay
  <2> QED BY <1>2, <1>3, <1>6, <1>7, <1>9, <2>1 DEF CallsOK
<1>11. /\ ExecutionCounts(w, m, F, E, R, S)
  BY <1>8, ExecutedCounts
<1>12. executions' \in [Tasks -> Nat]
  BY <1>2, <1>7, <1>11 DEF ExecutionCounts
<1>13. \A v \in Workers : Len(Lines'[v]) = Len(Lines[v])
  BY <1>6, <1>7, <1>8, HolderFacts
<1>14. m.task = StopCall => w <= stopsSent /\ toHead[w] = <<>> /\ Replied(m) = Ping
  <2>1. SUFFICES ASSUME m.task = StopCall
                 PROVE  w <= stopsSent /\ toHead[w] = <<>> /\ Replied(m) = Ping
    OBVIOUS
  <2>2. m = StopMessage
    BY <1>11, <2>1 DEF ExecutionCounts
  <2>3. Dones[w] + 1 > Dones[w]
    BY <1>7, <1>8
  <2> QED BY <1>4, <1>6, <2>2, <2>3, StopIsLast, MessageFacts DEF Replied
<1>15. WorkersOK'
  <2>1. WorkersOK /\ 1 .. NumWorkers \subseteq Workers
    BY <1>4 DEF IInv, Workers
  <2>2. \A v \in Workers : v # w =>
          /\ workerPc'[v] = workerPc[v] /\ workerTasks'[v] = workerTasks[v]
          /\ toHead'[v] = toHead[v]
    BY <1>2, <1>3
  <2>3. /\ workerPc'[w] # "exec"
        /\ workerPc'[w] = "left" => m.task = StopCall
        /\ toHead'[w] = Append(toHead[w], Replied(m))
        /\ ~(w > NumWorkers)
    BY <1>2, <1>3, <2>1 DEF WorkersOK
  <2>4. workerPc'[w] = "left" => w <= stopsSent /\ toHead'[w] = <<Ping>>
    <3>1. Append(<<>>, Ping) = <<Ping>>
      OBVIOUS
    <3>2. m.task = StopCall => toHead'[w] = Append(<<>>, Ping) /\ w <= stopsSent
      BY <1>14, <2>3
    <3> QED BY <2>3, <3>1, <3>2
  <2> QED BY <1>3, <1>4, <2>1, <2>2, <2>3, <2>4 DEF WorkersOK
<1>16. workerPc' \in [Workers -> {"recv", "test", "wait", "exec", "left"}]
  BY <1>2, <1>3
<1>17. /\ NumWorkers = 0 => \A v \in Workers : Lines'[v] = Lines[v]
       /\ results' \in [Tasks -> Seq(Tasks)]
  BY <1>3, <1>4
<1> QED BY <1>2, <1>3, <1>17, <1>10, <1>12, <1>13, <1>15, <1>16, WorkerKeeps

-----------------------------------------------------------------------------
(* The invariant holds                                                     *)

LEMMA InitSubmitted ==
  ASSUME Init
  PROVE  SubmittedTasks = {}
<1>1. /\ batch = [i \in 1 .. Notices |-> <<"notice", i>>]
      /\ round = [c \in Chains |-> 0]
  BY DEF Init
<1>2. SubmittedTasks = {}
  <2>1. SUFFICES ASSUME NEW t \in SubmittedTasks
                 PROVE  FALSE
    OBVIOUS
  <2>2. CASE t \in NoticeTasks
    <3>1. PICK i \in 1 .. Notices : t = <<"notice", i>>
      BY <2>2 DEF NoticeTasks
    <3>2. t = batch[i] /\ i \in DOMAIN batch /\ DOMAIN batch = 1 .. Notices
      BY <1>1, <3>1
    <3>3. Len(batch) = Notices
      BY <1>1, ODSAssumption
    <3>4. t \in ToSet(batch)
      BY <3>2, <3>3 DEF ToSet
    <3> QED BY <2>1, <3>4 DEF SubmittedTasks
  <2>3. CASE t \notin NoticeTasks
    <3>1. /\ t \in ChainTasks /\ round[t[1]] >= t[2]
          /\ t[1] \in Chains /\ t[2] \in 1 .. Rounds
      BY <2>1, <2>3, TaskFacts DEF SubmittedTasks
    <3> QED BY <1>1, <3>1
  <2> QED BY <2>2, <2>3
<1> QED BY <1>2

LEMMA InitCalls ==
  ASSUME Init
  PROVE  CallsOK /\ \A h \in Holders : Lines[h] = <<>>
<1>1. /\ tasks = <<>> /\ headPc = "submit" /\ functionMap = <<>>
      /\ executions = [t \in Tasks |-> 0] /\ results = [t \in Tasks |-> <<>>]
      /\ \A w \in Workers : toHead[w] = <<>> /\ workerTasks[w] = <<>>
                            /\ toWorker[w] = <<>>
      /\ batch = [i \in 1 .. Notices |-> <<"notice", i>>]
      /\ round = [c \in Chains |-> 0]
  BY DEF Init
<1>2. \A w \in Workers : UnderWay(w) = <<>>
  BY <1>1 DEF UnderWay
<1>3. \A h \in Holders : CallsOf(h) = <<>> /\ DoneOf(h) = 0
  BY <1>1, <1>2, HolderFacts DEF CallsOf, DoneOf
<1>4. \A h \in Holders : Lines[h] = <<>> /\ Dones[h] = 0
  BY <1>3 DEF Lines, Dones
<1>5. SubmittedTasks = {}
  BY InitSubmitted
<1>6. LinesTyped(Lines, Dones)
  <2>1. <<>> \in Seq(Packet) /\ Len(<<>>) = 0
    OBVIOUS
  <2>2. Lines \in [Holders -> Seq(Packet)] /\ Dones \in [Holders -> Nat]
    <3>1. /\ Lines = [h \in Holders |-> <<>>] /\ Dones = [h \in Holders |-> 0]
      BY <1>3 DEF Lines, Dones
    <3> QED BY <2>1, <3>1
  <2> QED BY <1>4, <2>1, <2>2 DEF LinesTyped
<1>7. \A h \in Holders : DOMAIN Lines[h] = {}
  BY <1>4
<1>8. /\ ItemsOK(Lines, Dones, functionMap, executions, results, SubmittedTasks,
                 1 .. stopsSent)
      /\ TaskOnce(Lines)
  BY <1>7 DEF ItemsOK, TaskOnce
<1>9. /\ IdsHeld(Lines, functionMap)
      /\ NothingLost(Lines, executions, results, SubmittedTasks)
      /\ Untouched(executions, results, SubmittedTasks)
  BY <1>1, <1>5 DEF IdsHeld, NothingLost, Untouched
<1> QED BY <1>4, <1>6, <1>8, <1>9 DEF CallsOK, HoldersOK

LEMMA InitLoad ==
  ASSUME Init
  PROVE  /\ LoadOK /\ NumWorkers \in Nat /\ (NumWorkers > 0 => TypeOK)
         /\ NumWorkers <= Size /\ (NumWorkers > 0 => NumWorkers = Size)
<1>1. stopsSent = 0 /\ numWaitingForReply = 0
  BY DEF Init
<1>2. \A w \in Workers : Lines[w] = <<>>
  BY InitCalls, HolderFacts
<1>3. CASE LRRInit
  <2>1. TypeOK /\ LookupConsistent /\ NumWorkers = Size
    BY <1>3, LRRInitInv, NumWorkersFact DEF Inv
  <2>2. \A id \in Ids : numTasksScheduled[id] = 0
    BY <1>3 DEF LRRInit
  <2>3. Cardinality(Units(numTasksScheduled)) = 0
    BY <2>2, UnitsZero
  <2>4. \A w \in Workers : w - 1 \in Ids /\ w > 0 /\ Len(Lines[w]) = 0
    BY <1>2, SizeAssumption DEF Workers, Ids
  <2>5. Exact(Lines, numTasksScheduled, stopsSent, numWaitingForReply)
    <3>1. \A w \in Workers : Len(Lines[w]) =
            numTasksScheduled[w - 1] + (IF w <= stopsSent THEN 1 ELSE 0)
      <4>1. TAKE w \in Workers
      <4>2. numTasksScheduled[w - 1] = 0 /\ Len(Lines[w]) = 0 /\ w > 0 /\ w \in Int
        BY <2>2, <2>4, HolderFacts
      <4> QED BY <1>1, <4>2
    <3>2. numWaitingForReply = stopsSent + Cardinality(Units(numTasksScheduled))
      BY <1>1, <2>3
    <3> QED BY <3>1, <3>2 DEF Exact
  <2> QED BY <2>1, <2>5, SizeAssumption DEF LoadOK
<1>4. CASE LRRInitAlone
  <2>1. numTasksScheduled = <<>> /\ idsForScheduled = [l \in Loads |-> <<>>]
    BY <1>4 DEF LRRInitAlone
  <2>2. NumWorkers = 0
    BY <2>1, NumWorkersFact
  <2>3. ~WorkerAvailable
    <3>1. \A l \in 0 .. WorkloadCapacity - 1 : l \in Loads
      BY CapacityAssumption DEF Loads
    <3> QED BY <2>1, <3>1 DEF WorkerAvailable, FirstEntry
  <2> QED BY <1>1, <1>2, <2>1, <2>2, <2>3, SizeAssumption DEF LoadOK
<1> QED BY <1>3, <1>4 DEF Init

LEMMA InitInv ==
  ASSUME Init
  PROVE  IInv
<1>1. /\ headPc = "submit" /\ draining = FALSE /\ stopsSent = 0
      /\ functionMap = <<>> /\ newUuid = 0 /\ unused = <<>> /\ outstanding = {}
      /\ batch = [i \in 1 .. Notices |-> <<"notice", i>>] /\ tasks = <<>>
      /\ remaining = [c \in Chains |-> 0] /\ round = [c \in Chains |-> 0]
      /\ workerPc = [w \in Workers |-> IF NumWorkers > 0 THEN "recv" ELSE "left"]
      /\ DOMAIN functionMap = {} /\ numWaitingForReply = 0
  BY DEF Init
<1>2. CallsOK /\ LoadOK /\ NumWorkers \in Nat /\ (NumWorkers > 0 => TypeOK)
      /\ NumWorkers <= Size /\ (NumWorkers > 0 => NumWorkers = Size)
  BY InitCalls, InitLoad
<1>3. batch \in Seq(Tasks) /\ DOMAIN batch = 1 .. Notices
  BY <1>1, ODSAssumption DEF Tasks, NoticeTasks
<1>4. ODSTypeOK
  <2>1. /\ headPc \in HeadPcs /\ stopsSent \in 0 .. Size
        /\ round \in [Chains -> 0 .. Rounds]
        /\ remaining \in [Chains -> 0 .. BatchSize]
        /\ outstanding \subseteq Workers \X Message
    BY <1>1, ODSAssumption, SizeAssumption DEF HeadPcs
  <2>2. workerPc \in [Workers -> {"recv", "test", "wait", "exec", "left"}]
    BY <1>1
  <2>3. /\ toWorker \in [Workers -> Seq(Message)]
        /\ toHead \in [Workers -> Seq(Message \union {Ping})]
        /\ workerTasks \in [Workers -> Seq(Message)]
        /\ workerOutstanding \in [Workers -> SUBSET Message]
        /\ executions \in [Tasks -> Nat] /\ results \in [Tasks -> Seq(Tasks)]
    BY DEF Init
  <2>4. /\ tasks \in Seq(Message) /\ unused \in Seq(Nat) /\ newUuid \in Nat
        /\ DOMAIN functionMap \subseteq 1 .. newUuid /\ draining \in BOOLEAN
        /\ numWaitingForReply \in Nat
        /\ \A id \in DOMAIN functionMap : functionMap[id] \in Tasks
    <3>1. tasks \in Seq(Message) /\ unused \in Seq(Nat)
      BY <1>1
    <3>2. newUuid \in Nat /\ draining \in BOOLEAN /\ numWaitingForReply \in Nat
      BY <1>1
    <3> QED BY <1>1, <3>1, <3>2
  <2> QED BY <1>2, <1>3, <2>1, <2>2, <2>3, <2>4 DEF ODSTypeOK
<1>5. UuidOK
  BY <1>1 DEF UuidOK
<1>6. BatchOK
  <2>1. \A i \in DOMAIN batch : batch[i] = <<"notice", i>> /\ batch[i] \in NoticeTasks
    BY <1>1 DEF NoticeTasks
  <2>2. \A i \in DOMAIN batch : batch[i] \notin ChainTasks
    BY <2>1, TaskFacts
  <2> QED BY <1>1, <2>1, <2>2 DEF BatchOK
<1>7. RemainingOK
  <2>1. \A c \in Chains : AwaitedOf(functionMap, c) = {}
    BY <1>1 DEF AwaitedOf
  <2> QED BY <1>1, <2>1, FS_EmptySet DEF RemainingOK
<1>8. HeadOK /\ NoIdleWorker
  BY <1>1, <1>2 DEF HeadOK, NoIdleWorker
<1>9. WorkersOK
  BY <1>1, <1>2, SizeAssumption DEF WorkersOK, Workers
<1> QED BY <1>2, <1>4, <1>5, <1>6, <1>7, <1>8, <1>9 DEF IInv

LEMMA StepKeeps ==
  ASSUME IInv, [Next]_vars
  PROVE  IInv'
<1>1. CASE HeadStep
  BY <1>1, StartRoundKeeps, WaitKeeps, SubmitKeeps, SubmittedKeeps, FeedKeeps,
     PollKeeps, FillKeeps, FillPollKeeps, ReapKeeps, ExecuteOwnKeeps,
     DeliverOwnKeeps, DrainKeeps, StopKeeps DEF HeadStep
<1>2. CASE \E w \in Workers : WorkerStep(w)
  BY <1>2, WorkerReceiveKeeps, WorkerTestKeeps, WorkerWaitKeeps,
     WorkerExecuteKeeps DEF WorkerStep
<1>3. CASE UNCHANGED vars
  <2>1. UNCHANGED <<headVars, toWorker, toHead, workerVars, history, headPc, batch,
                    round, functionMap, stopsSent>>
    BY <1>3 DEF vars, headVars, chainVars, rpcVars, loopVars
  <2>2. UNCHANGED <<tasks, workerTasks, executions, results, workerPc,
                    workerOutstanding, lrrVars>>
    BY <2>1 DEF headVars, workerVars, history
  <2>3. Lines' = Lines
    BY <2>1, <2>2, LinesStay
  <2>4. Dones' = Dones /\ SubmittedTasks' = SubmittedTasks
    BY <2>1, <2>2, DonesStay, SubmittedStay
  <2>5. CallsOK'
    BY <2>1, <2>2, <2>3, <2>4, CallsStay DEF IInv
  <2>6. NumWorkers' = NumWorkers
    BY <2>2 DEF NumWorkers, lrrVars
  <2>7. WorkersOK'
    BY <2>1, <2>2, <2>6 DEF IInv, WorkersOK
  <2>8. LoadOK' /\ UuidOK' /\ RemainingOK' /\ BatchOK'
    BY <2>1, <2>2, <2>3, LoadStay, UuidStay, RemainingStay
       DEF IInv, BatchOK, headVars, chainVars, rpcVars
  <2>9. HeadOK' /\ NoIdleWorker'
    BY <2>1, <2>2, <2>6 DEF IInv, HeadOK, NoIdleWorker, WorkerAvailable,
       FirstEntry, headVars, loopVars, lrrVars
  <2>10. (TypeOK)' = TypeOK
    BY <2>2 DEF TypeOK, lrrVars
  <2>11. ODSTypeOK'
    BY <2>1, <2>2, <2>6, <2>10
       DEF IInv, ODSTypeOK, headVars, loopVars, chainVars, rpcVars
  <2> QED BY <2>5, <2>7, <2>8, <2>9, <2>11 DEF IInv
<1> QED BY <1>1, <1>2, <1>3 DEF Next, Finished

(* What the other theorems rest on: the conjuncts of IInv, always.          *)
THEOREM AccountOfCalls == Spec => []IInv
<1>1. Init => IInv
  BY InitInv
<1>2. IInv /\ [Next]_vars => IInv'
  BY StepKeeps
<1> QED BY <1>1, <1>2, PTL DEF Spec

(* For any number of workers: the head's account of a worker is what this   *)
(* worker has to do, has answered or has under way, and                     *)
(* num_waiting_for_reply is the sum of the accounts.                        *)
THEOREM AccountIsExact == Spec => []LoadIsExact
<1>1. IInv => LoadIsExact
  <2> SUFFICES ASSUME IInv
               PROVE  LoadIsExact
    OBVIOUS
  <2>1. ODSTypeOK /\ LoadOK
    BY DEF IInv
  <2>2. CASE /\ NumWorkers = Size /\ TypeOK /\ LookupConsistent
             /\ Exact(Lines, numTasksScheduled, stopsSent, numWaitingForReply)
    <3>1. Accounted = Units(numTasksScheduled)
      BY <2>2 DEF Accounted, Units
    <3>2. \A w \in Workers : Lines[w] = UnderWay(w)
      BY <2>1, LinesFact
    <3>3. 1 .. NumWorkers = Workers
      BY <2>2 DEF Workers
    <3> QED BY <2>1, <2>2, <3>1, <3>2, <3>3 DEF Exact, LoadIsExact
  <2>3. CASE NumWorkers = 0 /\ stopsSent = 0 /\ numWaitingForReply = 0
    <3>1. Accounted = {} /\ \A w \in 1 .. NumWorkers : FALSE
      BY <2>3 DEF Accounted
    <3> QED BY <2>1, <2>3, <3>1, FS_EmptySet DEF LoadIsExact
  <2> QED BY <2>1, <2>2, <2>3 DEF LoadOK
<1> QED BY <1>1, AccountOfCalls, PTL

(* Every call that waits for its result carries the id under which its own  *)
(* function is registered, and no id is handed out while it is in use.      *)
THEOREM AnswersMeetTheirFunctions == Spec => []IdsMatchCalls
<1>1. IInv => IdsMatchCalls
  <2> SUFFICES ASSUME IInv
               PROVE  IdsMatchCalls
    OBVIOUS
  <2>1. /\ ODSTypeOK /\ UuidOK
        /\ HoldersOK(Lines, Dones, functionMap, executions, results,
                     SubmittedTasks, 1 .. stopsSent)
    BY DEF IInv, CallsOK
  <2>2. \A p \in Places : /\ p[1] \in Holders /\ p[2] \in DOMAIN Lines[p[1]]
                          /\ CallAt(p) = Lines[p[1]][p[2]] /\ p = <<p[1], p[2]>>
    BY DEF Places, CallAt, Lines
  <2>3. \A h \in Holders : \A i \in DOMAIN Lines[h] :
          <<h, i>> \in Places /\ CallAt(<<h, i>>) = Lines[h][i]
    BY DEF Places, CallAt, Lines
  <2>4. ASSUME NEW p \in Places, CallAt(p).id # 0
        PROVE  /\ CallAt(p).id \in DOMAIN functionMap
               /\ functionMap[CallAt(p).id] = CallAt(p).task
               /\ CallAt(p).task \in Tasks
    <3>1. ItemOK(p[1], CallAt(p), p[2] <= Dones[p[1]], functionMap, executions,
                 results, SubmittedTasks, 1 .. stopsSent)
      BY <2>1, <2>2 DEF HoldersOK, ItemsOK
    <3>2. CallOK(p[1], CallAt(p), p[2] <= Dones[p[1]], functionMap, executions,
                 results, SubmittedTasks)
      BY <2>4, <3>1, MessageFacts DEF ItemOK
    <3> QED BY <2>4, <3>2 DEF CallOK, Tasks
  <2>5. ASSUME NEW p \in Places, NEW q \in Places, CallAt(p).id # 0,
               CallAt(q).id = CallAt(p).id
        PROVE  q = p
    <3>1. CallAt(q).task = CallAt(p).task /\ CallAt(p).task \in Tasks
      BY <2>4, <2>5
    <3>2. q[1] = p[1] /\ q[2] = p[2]
      BY <2>1, <2>2, <3>1 DEF HoldersOK, TaskOnce
    <3> QED BY <2>2, <3>2
  <2>6. DOMAIN functionMap \subseteq {CallAt(p).id : p \in Places}
    <3>1. SUFFICES ASSUME NEW id \in DOMAIN functionMap
                   PROVE  \E p \in Places : id = CallAt(p).id
      OBVIOUS
    <3>2. PICK h \in Holders : \E i \in DOMAIN Lines[h] : Lines[h][i].id = id
      BY <2>1 DEF HoldersOK, IdsHeld
    <3>3. PICK i \in DOMAIN Lines[h] : Lines[h][i].id = id
      BY <3>2
    <3> QED BY <2>3, <3>3
  <2>7. {u + 1 : u \in ToSet(unused)} = (1 .. newUuid) \ DOMAIN functionMap
    <3>1. /\ unused \in Seq(Nat) /\ newUuid \in Nat
          /\ \A i \in DOMAIN unused : unused[i] \in Nat
      BY <2>1 DEF ODSTypeOK
    <3>2. ToSet(unused) = {unused[i] : i \in DOMAIN unused}
      BY <3>1 DEF ToSet
    <3>3. ASSUME NEW u \in ToSet(unused)
          PROVE  u + 1 \in (1 .. newUuid) \ DOMAIN functionMap
      BY <2>1, <3>2 DEF UuidOK
    <3>4. ASSUME NEW id \in (1 .. newUuid) \ DOMAIN functionMap
          PROVE  \E u \in ToSet(unused) : id = u + 1
      <4>1. PICK i \in DOMAIN unused : unused[i] = id - 1
        BY <2>1 DEF UuidOK
      <4>2. unused[i] \in ToSet(unused) /\ id = unused[i] + 1
        BY <3>1, <3>2, <4>1
      <4> QED BY <4>2
    <3> QED BY <3>3, <3>4
  <2> QED BY <2>1, <2>4, <2>5, <2>6, <2>7 DEF IdsMatchCalls, UuidOK
<1> QED BY <1>1, AccountOfCalls, PTL

(* do_work does not return while a call waits and a worker has room for it. *)
THEOREM NobodyIdles == Spec => []NoIdleWorker
BY AccountOfCalls, PTL DEF IInv

(* A worker that left owes no answer, and none is on the way to or from it  *)
(* but the ping for stop_running.                                           *)
THEOREM WorkersLeaveClean == Spec => []LeaveClean
<1>1. IInv => LeaveClean
  <2> SUFFICES ASSUME IInv, NEW w \in 1 .. NumWorkers, workerPc[w] = "left"
               PROVE  /\ workerTasks[w] = <<>> /\ toWorker[w] = <<>>
                      /\ toHead[w] = <<Ping>>
                      /\ \A id \in DOMAIN functionMap : FALSE
    BY DEF LeaveClean
  <2>1. /\ NumWorkers > 0 /\ NumWorkers = Size /\ TypeOK /\ ODSTypeOK
        /\ Exact(Lines, numTasksScheduled, stopsSent, numWaitingForReply)
        /\ w \in Workers /\ w \in Nat /\ w > 0
    <3>1. NumWorkers > 0
      BY NumWorkersAre DEF IInv
    <3> QED BY <3>1, NumWorkersAre, SizeAssumption DEF IInv, Workers
  <2>2. w <= stopsSent /\ toHead[w] = <<Ping>> /\ stopsSent \in Nat
    BY <2>1, SizeAssumption DEF IInv, WorkersOK, ODSTypeOK
  <2>3. /\ DOMAIN functionMap = {}
        /\ \A id \in DOMAIN numTasksScheduled : numTasksScheduled[id] = 0
    BY <2>1, <2>2 DEF IInv, HeadOK
  <2>4. Len(Lines[w]) = 1
    <3>1. w - 1 \in DOMAIN numTasksScheduled
      BY <2>1, SizeAssumption DEF TypeOK, Ids, Workers
    <3>2. numTasksScheduled[w - 1] = 0
      BY <2>3, <3>1
    <3>3. Len(Lines[w]) = numTasksScheduled[w - 1] + (IF w <= stopsSent THEN 1 ELSE 0)
      BY <2>1 DEF Exact
    <3> QED BY <2>2, <3>2, <3>3
  <2>5. PICK s, t, u : s = toHead[w] /\ t = workerTasks[w] /\ u = toWorker[w]
    OBVIOUS
  <2>6. /\ s \in Seq(Packet) /\ t \in Seq(Packet) /\ u \in Seq(Packet)
        /\ Lines[w] = s \o t \o u /\ Len(s) = 1
    BY <2>1, <2>2, <2>5, LinesFact DEF UnderWay
  <2>7. /\ Len(t) \in Nat /\ Len(u) \in Nat
        /\ Len(s \o t \o u) = Len(s) + Len(t) + Len(u)
    <3>1. PICK c : c = s \o t \o u
      OBVIOUS
    <3>2. s \in Seq(Packet) /\ t \in Seq(Packet) /\ u \in Seq(Packet)
      BY <2>6
    <3>3. /\ Len(t) \in Nat /\ Len(u) \in Nat /\ Len(s) \in Nat
          /\ Len(c) = Len(s) + Len(t) + Len(u)
      BY <3>1, <3>2, CatAt
    <3> QED BY <3>1, <3>3
  <2>8. Len(t) = 0 /\ Len(u) = 0
    BY <2>4, <2>6, <2>7
  <2> QED BY <2>2, <2>3, <2>5, <2>6, <2>8
<1> QED BY <1>1, AccountOfCalls, PTL

-----------------------------------------------------------------------------
(* The workgroup implements TaskPool                                       *)

Stopped == headPc \in {"stop", "left"}

LEMMA PoolStutters ==
  ASSUME UNCHANGED <<executions, results>>, SubmittedTasks' = SubmittedTasks,
         Stopped' = Stopped
  PROVE  UNCHANGED Pool!poolVars
BY DEF Pool!poolVars, Stopped

LEMMA SubmitsTask ==
  ASSUME IInv, Submit
  PROVE  Pool!Next
<1>1. /\ headPc = "submit" /\ headPc' = "submit" /\ batch # <<>>
      /\ batch' = Tail(batch) /\ UNCHANGED <<round, executions, results>>
  BY DEF Submit, history
<1>2. PICK t : t = Head(batch)
  OBVIOUS
<1>3. /\ t \in Tasks /\ t \notin SubmittedTasks
      /\ SubmittedTasks' = SubmittedTasks \union {t}
  BY <1>1, <1>2, NextOfBatch
<1>4. Pool!Submit(t)
  BY <1>1, <1>3 DEF Pool!Submit
<1> QED BY <1>3, <1>4 DEF Pool!Next

(* A call is executed, at holder h.                                         *)
LEMMA ExecutesTask ==
  ASSUME NEW h, NEW m,
         ExecutionCounts(h, m, functionMap, executions, results, SubmittedTasks),
         executions \in [Tasks -> Nat],
         executions' = Executed(executions, m), UNCHANGED results,
         SubmittedTasks' = SubmittedTasks, Stopped' = Stopped
  PROVE  [Pool!Next]_(Pool!poolVars)
<1>1. CASE m = StopMessage /\ Executed(executions, m) = executions
  BY <1>1, PoolStutters
<1>2. CASE /\ CallOK(h, m, FALSE, functionMap, executions, results, SubmittedTasks)
           /\ m.task \in SubmittedTasks /\ m.task \in Tasks /\ m.task # StopCall
           /\ Executed(executions, m)[m.task] = 1
  <2>1. PICK t : t = m.task
    OBVIOUS
  <2>2. executions[t] = 0 /\ t \in Tasks /\ t \in SubmittedTasks
    BY <1>2, <2>1 DEF CallOK
  <2>3. executions' = [executions EXCEPT ![t] = 1]
    BY <1>2, <2>1, <2>2 DEF Executed
  <2>4. Pool!Execute(t)
    BY <2>2, <2>3 DEF Pool!Execute, Stopped
  <2> QED BY <2>2, <2>4 DEF Pool!Next
<1> QED BY <1>1, <1>2 DEF ExecutionCounts

(* A result is given to its function.                                       *)
LEMMA DeliversTask ==
  ASSUME NEW m, m # Ping,
         DeliveryCounts(m, functionMap, executions, results, SubmittedTasks),
         results' = Delivered(m, functionMap, results), UNCHANGED executions,
         SubmittedTasks' = SubmittedTasks, Stopped' = Stopped
  PROVE  Pool!Next
<1>1. PICK t : t = m.task
  OBVIOUS
<1>2. /\ t \in ChainTasks /\ t \in Tasks /\ executions[t] = 1 /\ results[t] = <<>>
      /\ results' = [results EXCEPT ![t] = <<t>>]
  BY <1>1 DEF DeliveryCounts
<1>3. t \notin NoticeTasks
  BY <1>2, TaskFacts
<1>4. Pool!Deliver(t)
  BY <1>2, <1>3 DEF Pool!Deliver, Stopped
<1> QED BY <1>2, <1>4 DEF Pool!Next

LEMMA ProcessDelivers ==
  ASSUME IInv, NEW w \in Workers, ProcessMsg(w), headPc \in {"poll", "fillpoll"},
         headPc' \in {"feed", "fill"}
  PROVE  [Pool!Next]_(Pool!poolVars)
<1>1. /\ toHead[w] # <<>> /\ toHead' = [toHead EXCEPT ![w] = Tail(@)]
      /\ UNCHANGED <<round, batch, tasks, toWorker, workerTasks, executions>>
  BY DEF ProcessMsg, workerVars
<1>2. /\ Dones[w] # 0 /\ Lines[w][1] = Head(toHead[w]) /\ w \in Holders
      /\ results \in [Tasks -> Seq(Tasks)]
  BY <1>1, LinesAnswer, HolderFacts DEF IInv, ODSTypeOK
<1>3. SubmittedTasks' = SubmittedTasks /\ Stopped' = Stopped
  BY <1>1, SubmittedStay DEF Stopped
<1>4. PICK F, L, D, E, R, S, K, m :
        /\ F = functionMap /\ L = Lines /\ D = Dones /\ E = executions
        /\ R = results /\ S = SubmittedTasks /\ K = 1 .. stopsSent
        /\ m = Head(toHead[w])
  OBVIOUS
<1>5. HoldersOK(L, D, F, E, R, S, K) /\ R \in [Tasks -> Seq(Tasks)]
      /\ D[w] # 0 /\ m = L[w][1]
  BY <1>2, <1>4 DEF IInv, CallsOK
<1>6. DeliveryCounts(m, F, E, R, S)
  BY <1>2, <1>5, DeliveredCounts
<1>7. CASE m = Ping
  <2>1. UNCHANGED results
    BY <1>4, <1>7 DEF ProcessMsg
  <2> QED BY <1>1, <1>3, <2>1, PoolStutters
<1>8. CASE m # Ping
  <2>1. ExecuteResult(m)
    BY <1>4, <1>8 DEF ProcessMsg
  <2>2. results' = Delivered(m, functionMap, results)
    BY <2>1 DEF ExecuteResult, Delivered
  <2> QED BY <1>1, <1>3, <1>4, <1>6, <1>8, <2>2, DeliversTask
<1> QED BY <1>7, <1>8

LEMMA OwnExecutes ==
  ASSUME IInv, ExecuteOwn
  PROVE  [Pool!Next]_(Pool!poolVars)
<1>1. /\ headPc = "own" /\ UNCHANGED <<batch, round, results>>
      /\ headPc' \in {"deliver", "app", "drain"}
  BY DEF ExecuteOwn, chainVars, Return
<1>2. SubmittedTasks' = SubmittedTasks /\ Stopped' = Stopped
  BY <1>1, SubmittedStay DEF Stopped
<1>3. CASE tasks = <<>>
  BY <1>1, <1>2, <1>3, PoolStutters DEF ExecuteOwn
<1>4. CASE tasks # <<>>
  <2>1. PICK F, L, D, E, R, S, K, m :
          /\ F = functionMap /\ L = Lines /\ D = Dones /\ E = executions
          /\ R = results /\ S = SubmittedTasks /\ K = 1 .. stopsSent
          /\ m = Head(tasks)
    OBVIOUS
  <2>2. /\ Lines[0] = tasks /\ Dones[0] = 0 /\ tasks \in Seq(Message)
        /\ executions \in [Tasks -> Nat]
    BY <1>1, LinesFact DEF IInv, ODSTypeOK
  <2>3. m = tasks[1] /\ m \in Message /\ 1 \in DOMAIN tasks
    BY <1>4, <2>1, <2>2, TailAt
  <2>4. /\ HoldersOK(L, D, F, E, R, S, K) /\ E \in [Tasks -> Nat] /\ 0 \notin K
        /\ 0 \in Holders /\ D[0] + 1 \in DOMAIN L[0] /\ m = L[0][D[0] + 1]
    BY <2>1, <2>2, <2>3, HolderFacts DEF IInv, CallsOK
  <2>5. ExecutionCounts(0, m, F, E, R, S)
    BY <2>4, ExecutedCounts
  <2>6. m # StopMessage
    BY <2>5, <2>4, MessageFacts, TaskFacts DEF ExecutionCounts
  <2>7. m.task # StopCall
    BY <2>5, <2>6 DEF ExecutionCounts
  <2>8. executions' = Executed(executions, m)
    BY <1>4, <2>1, <2>7 DEF ExecuteOwn, ExecuteCall, Executed
  <2> QED BY <1>1, <1>2, <2>1, <2>2, <2>5, <2>8, ExecutesTask
<1> QED BY <1>3, <1>4

LEMMA OwnDelivers ==
  ASSUME IInv, DeliverOwn
  PROVE  [Pool!Next]_(Pool!poolVars)
<1>1. /\ headPc = "deliver" /\ UNCHANGED <<batch, round, executions>>
      /\ headPc' \in {"app", "drain"} /\ ExecuteResult(Answer(Head(tasks)))
      /\ tasks # <<>>
  BY DEF DeliverOwn, Return, IInv, HeadOK
<1>2. SubmittedTasks' = SubmittedTasks /\ Stopped' = Stopped
  BY <1>1, SubmittedStay DEF Stopped
<1>3. PICK F, L, D, E, R, S, K, m :
        /\ F = functionMap /\ L = Lines /\ D = Dones /\ E = executions
        /\ R = results /\ S = SubmittedTasks /\ K = 1 .. stopsSent
        /\ m = Head(tasks)
  OBVIOUS
<1>4. /\ Lines[0] = tasks /\ Dones[0] = 1 /\ tasks \in Seq(Message)
      /\ results \in [Tasks -> Seq(Tasks)]
  BY <1>1, LinesFact DEF IInv, ODSTypeOK
<1>5. m = tasks[1] /\ m \in Message
  BY <1>1, <1>3, <1>4, TailAt
<1>6. /\ HoldersOK(L, D, F, E, R, S, K) /\ R \in [Tasks -> Seq(Tasks)]
      /\ 0 \in Holders /\ D[0] # 0 /\ m = L[0][1] /\ m # Ping
  BY <1>3, <1>4, <1>5, HolderFacts, MessageFacts DEF IInv, CallsOK
<1>7. DeliveryCounts(m, F, E, R, S)
  BY <1>6, DeliveredCounts
<1>8. results' = Delivered(m, functionMap, results)
  <2>1. PICK a : a = Answer(m)
    OBVIOUS
  <2>2. a.id = m.id /\ a.task = m.task /\ ExecuteResult(a)
    BY <1>1, <1>3, <2>1 DEF Answer
  <2> QED BY <2>2 DEF ExecuteResult, Delivered
<1> QED BY <1>1, <1>2, <1>3, <1>6, <1>7, <1>8, DeliversTask

(* The head stops when nothing is outstanding: everything is settled.       *)
LEMMA DrainStops ==
  ASSUME IInv, Drain
  PROVE  [Pool!Next]_(Pool!poolVars)
<1>1. headPc = "drain" /\ UNCHANGED <<batch, round, executions, results>>
  BY DEF Drain, Stay, chainVars, history
<1>2. SubmittedTasks' = SubmittedTasks
  BY <1>1, SubmittedStay
<1>3. CASE IsWorkOutstanding
  <2>1. headPc' \in {"feed", "own"}
    BY <1>3 DEF Drain, DoWorkPc
  <2> QED BY <1>1, <1>2, <2>1, PoolStutters DEF Stopped
<1>4. CASE ~IsWorkOutstanding
  <2>1. headPc' = "stop"
    BY <1>4 DEF Drain
  <2>2. tasks = <<>> /\ \A w \in Workers : Lines[w] = <<>>
    BY <1>1, <1>4, NothingLeft
  <2>3. \A h \in Holders : DOMAIN Lines[h] = {}
    BY <2>2, HolderFacts, LinesFact DEF IInv
  <2>4. NothingLost(Lines, executions, results, SubmittedTasks)
    BY DEF IInv, CallsOK, HoldersOK
  <2>5. \A t \in SubmittedTasks : Settled(t, executions, results)
    BY <2>3, <2>4 DEF NothingLost, Held
  <2>6. \A t \in SubmittedTasks : Pool!Settled(t)
    <3>1. TAKE t \in SubmittedTasks
    <3>2. PICK s : s = results[t]
      OBVIOUS
    <3>3. executions[t] = 1 /\ (t \in NoticeTasks \/ s = <<t>>)
      BY <2>5, <3>2 DEF Settled
    <3>4. <<t>> # <<>>
      OBVIOUS
    <3> QED BY <3>2, <3>3, <3>4 DEF Pool!Settled
  <2>7. Pool!Stop
    BY <1>1, <1>2, <2>1, <2>6 DEF Pool!Stop
  <2> QED BY <2>7 DEF Pool!Next
<1> QED BY <1>3, <1>4

LEMMA WorkerExecutes ==
  ASSUME IInv, NEW w \in Workers, WorkerExecute(w)
  PROVE  [Pool!Next]_(Pool!poolVars)
<1>1. PICK m : m = Head(workerTasks[w])
  OBVIOUS
<1>2. /\ workerPc[w] = "exec" /\ workerTasks[w] # <<>>
      /\ m \in Message /\ Replied(m) \in Message \union {Ping}
      /\ workerTasks' = [workerTasks EXCEPT ![w] = Tail(@)]
      /\ toHead' = [toHead EXCEPT ![w] = Append(@, Replied(m))]
      /\ executions' = Executed(executions, m)
      /\ UNCHANGED <<headVars, toWorker, results>>
  BY <1>1, ExecuteTypes
<1>3. /\ UNCHANGED <<headPc, tasks, batch, round>> /\ ODSTypeOK
      /\ executions \in [Tasks -> Nat]
  BY <1>2 DEF headVars, chainVars, IInv, ODSTypeOK
<1>4. SubmittedTasks' = SubmittedTasks /\ Stopped' = Stopped
  BY <1>3, SubmittedStay DEF Stopped
<1>5. PICK F, L, D, E, R, S, K, x :
        /\ F = functionMap /\ L = Lines /\ D = Dones /\ E = executions
        /\ R = results /\ S = SubmittedTasks /\ K = 1 .. stopsSent
        /\ x = Replied(m)
  OBVIOUS
<1>6. Dones[w] + 1 \in DOMAIN Lines[w] /\ Lines[w][Dones[w] + 1] = m
  <2>1. x \in Packet /\ toHead' = [toHead EXCEPT ![w] = Append(@, x)]
    BY <1>2, <1>5 DEF Packet
  <2> QED BY <1>1, <1>2, <1>3, <2>1, LinesExecute
<1>7. /\ HoldersOK(L, D, F, E, R, S, K) /\ E \in [Tasks -> Nat]
      /\ w \in Holders /\ 0 \notin K /\ D[w] + 1 \in DOMAIN L[w]
      /\ m = L[w][D[w] + 1]
  BY <1>3, <1>5, <1>6, HolderFacts DEF IInv, CallsOK
<1>8. ExecutionCounts(w, m, F, E, R, S)
  BY <1>7, ExecutedCounts
<1> QED BY <1>2, <1>3, <1>4, <1>5, <1>8, ExecutesTask

(* Every step of the workgroup is a step of the pool, or none.              *)
LEMMA StepIsOfPool ==
  ASSUME IInv, [Next]_vars
  PROVE  [Pool!Next]_(Pool!poolVars)
<1>1. ASSUME NEW c \in Chains, StartRound(c)
      PROVE  [Pool!Next]_(Pool!poolVars)
  <2>1. UNCHANGED <<executions, results>> /\ Stopped' = Stopped
    BY <1>1 DEF StartRound, history, Stopped
  <2> QED BY <1>1, <2>1, StartRoundSubmitted, PoolStutters
<1>2. CASE Wait \/ Submitted \/ FeedHungryWorkers \/ Fill \/ Reap \/ StopNextWorker
  <2>1. /\ UNCHANGED <<batch, round, executions, results>>
        /\ Stopped' = Stopped
    <3>1. CASE Wait
      BY <3>1 DEF Wait, Stopped, DoWorkPc, chainVars, history
    <3>2. CASE Submitted
      BY <3>2 DEF Submitted, Stopped, DoWorkPc, chainVars, history
    <3>3. CASE FeedHungryWorkers
      BY <3>3 DEF FeedHungryWorkers, Stopped, chainVars, history
    <3>4. CASE Fill
      BY <3>4 DEF Fill, Stopped, Return, chainVars, history
    <3>5. CASE Reap
      BY <3>5 DEF Reap, Stopped, Return, chainVars, history
    <3>6. CASE StopNextWorker
      BY <3>6 DEF StopNextWorker, Stopped, chainVars, history
    <3> QED BY <1>2, <3>1, <3>2, <3>3, <3>4, <3>5, <3>6
  <2> QED BY <2>1, SubmittedStay, PoolStutters
<1>3. CASE Poll \/ FillPoll
  <2>1. ASSUME NEW w \in Workers, ProcessMsg(w)
        PROVE  [Pool!Next]_(Pool!poolVars)
    BY <1>3, <2>1, ProcessDelivers DEF Poll, FillPoll, NoMessage, ProcessMsg
  <2>2. ASSUME Stay
        PROVE  [Pool!Next]_(Pool!poolVars)
    <3>1. UNCHANGED <<batch, round, executions, results>> /\ Stopped' = Stopped
      BY <1>3, <2>2 DEF Poll, FillPoll, Stay, chainVars, history, Stopped
    <3> QED BY <3>1, SubmittedStay, PoolStutters
  <2> QED BY <1>3, <2>1, <2>2 DEF Poll, FillPoll
<1>4. ASSUME NEW w \in Workers, WorkerReceive(w) \/ WorkerTest(w) \/ WorkerWait(w)
      PROVE  [Pool!Next]_(Pool!poolVars)
  <2>1. UNCHANGED <<headVars, history>>
    BY <1>4 DEF WorkerReceive, WorkerTest, WorkerWait
  <2>2. UNCHANGED <<batch, round, executions, results>> /\ Stopped' = Stopped
    BY <2>1 DEF headVars, chainVars, history, Stopped
  <2> QED BY <2>2, SubmittedStay, PoolStutters
<1>5. CASE UNCHANGED vars
  <2>1. UNCHANGED <<batch, round, executions, results>> /\ Stopped' = Stopped
    BY <1>5 DEF vars, headVars, chainVars, history, Stopped
  <2> QED BY <2>1, SubmittedStay, PoolStutters
<1> QED BY <1>1, <1>2, <1>3, <1>4, <1>5, SubmitsTask, OwnExecutes, OwnDelivers,
           DrainStops, WorkerExecutes
        DEF Next, HeadStep, WorkerStep, Finished

LEMMA InitIsOfPool ==
  ASSUME Init
  PROVE  Pool!Init
<1>1. /\ headPc = "submit" /\ executions = [t \in Tasks |-> 0]
      /\ results = [t \in Tasks |-> <<>>]
  BY DEF Init
<1>2. SubmittedTasks = {}
  BY InitSubmitted
<1> QED BY <1>1, <1>2 DEF Pool!Init

(* The workgroup keeps the promise of TaskPool, but for its liveness: each  *)
(* task handed in is executed exactly once and delivered exactly once, to   *)
(* its own function, and nobody is stopped before all are settled.          *)
THEOREM WorkgroupIsTaskPool == Spec => Pool!Init /\ [][Pool!Next]_(Pool!poolVars)
<1>1. Init => Pool!Init
  BY InitIsOfPool
<1>2. IInv /\ [Next]_vars => [Pool!Next]_(Pool!poolVars)
  BY StepIsOfPool
<1> QED BY <1>1, <1>2, AccountOfCalls, PTL DEF Spec
=============================================================================
