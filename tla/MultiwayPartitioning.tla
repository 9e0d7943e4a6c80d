----------------------- MODULE MultiwayPartitioning -------------------------
(***************************************************************************)
(* How the chains would be divided anew among the workgroups:              *)
(* distributed_computation/multiway_partitioning.hpp, a differencing       *)
(* method with subsets of balanced size.                                   *)
(*                                                                         *)
(* num_partitions is asserted to be more than one.                         *)
(* An entry is a record with the field score.  A subset carries its sum    *)
(* and its entries, a partitioning is a sequence of subsets, the dataset a *)
(* sequence of partitionings.  The sort function is std::less, as          *)
(* rescheduling_manager passes it: the two partitionings with the smallest *)
(* differences are merged first.  std::sort is stable for the sizes that   *)
(* occur (insertion sort up to 16 elements), std::list sorts and merges    *)
(* are always stable.                                                      *)
(***************************************************************************)
EXTENDS Integers, SequencesExt

-----------------------------------------------------------------------------
(* Stable sorting                                                          *)

Insert(Less(_, _), s, x) ==
  LET i == SelectInSeq(s, LAMBDA y : Less(x, y))
  IN  IF i = 0 THEN Append(s, x) ELSE InsertAt(s, i, x)

(* What is less stands before, what is equal as it stood.  (Concatenation   *)
(* makes TLC work out the elements once.)                                   *)
StableSort(Less(_, _), s) ==
  LET Before(i, j) == \/ Less(s[i], s[j])
                      \/ ~Less(s[j], s[i]) /\ i < j
      Place(j) == Cardinality({i \in DOMAIN s : i = j \/ Before(i, j)})
  IN  <<>> \o [k \in DOMAIN s |-> s[CHOOSE j \in DOMAIN s : Place(j) = k]]

-----------------------------------------------------------------------------
(* Partitionings                                                           *)

LessScore(e, f) == e.score < f.score

(* subset_cmp_f: more entries first, then the smaller sum. *)
MoreEntriesFirst(s, t) ==
  \/ Len(s.entries) > Len(t.entries)
  \/ Len(s.entries) = Len(t.entries) /\ s.sum < t.sum

(* final_sort: fewer entries first, then the smaller sum. *)
FewerEntriesFirst(s, t) ==
  \/ Len(s.entries) < Len(t.entries)
  \/ Len(s.entries) = Len(t.entries) /\ s.sum < t.sum

Sums(partitioning) == {s.sum : s \in ToSet(partitioning)}

(* max_sum - min_sum; a partitioning with too few subsets counts as having  *)
(* empty ones.                                                              *)
Difference(num_partitions, partitioning) ==
  Max(Sums(partitioning))
    - (IF Len(partitioning) < num_partitions THEN 0 ELSE Min(Sums(partitioning)))

MergeSubsets(s, t) ==
  [sum |-> s.sum + t.sum, entries |-> StableSort(LessScore, s.entries \o t.entries)]

(* merge_parts: what does not fit beside the own subsets is merged with     *)
(* them, the smallest of the one with the largest of the other.             *)
MergeParts(num_partitions, p, q) ==
  LET own == StableSort(MoreEntriesFirst, p)
      other == StableSort(MoreEntriesFirst, q)
      end == Min({num_partitions, Len(own) + Len(other)})
      start == end - Len(other)
  IN  [i \in 1 .. end |->
         IF i <= start THEN own[i]
         ELSE IF i <= Len(own) THEN MergeSubsets(own[i], other[end - i + 1])
         ELSE other[end - i + 1]]

-----------------------------------------------------------------------------
(* The dataset                                                             *)

(* add, for all entries in turn. *)
Dataset(entries) ==
  [i \in DOMAIN entries |-> <<[sum |-> entries[i].score, entries |-> <<entries[i]>>]>>]

(* sort: the partitioning with the smallest difference first. *)
SortDataset(num_partitions, dataset) ==
  StableSort(LAMBDA p, q : Difference(num_partitions, p) < Difference(num_partitions, q),
             dataset)

(* iterate: the first two partitionings are merged into one. *)
Iterate(num_partitions, dataset) ==
  IF Len(dataset) <= 1 THEN dataset
  ELSE Insert(LAMBDA p, q : Difference(num_partitions, p) < Difference(num_partitions, q),
              Tail(Tail(dataset)),
              MergeParts(num_partitions, dataset[1], dataset[2]))

(* partitionate, result and final_sort, for a dataset that is not     *)
(* empty: every iteration leaves one partitioning less.                     *)
Partitioned(num_partitions, entries) ==
  LET sorted == SortDataset(num_partitions, Dataset(entries))
      iterated[k \in 0 .. Len(entries) - 1] ==
        IF k = 0 THEN sorted ELSE Iterate(num_partitions, iterated[k - 1])
  IN  StableSort(FewerEntriesFirst, iterated[Len(entries) - 1][1])

=============================================================================
