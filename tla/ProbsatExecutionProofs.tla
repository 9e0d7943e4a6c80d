----------------------- MODULE ProbsatExecutionProofs -----------------------
(***************************************************************************)
(* Proofs about one run of probSAT, for all outputs, any size of the       *)
(* buffer and any limit on the time: the number of flips is found as soon  *)
(* as its line was read, and a timeout overlooks no answer.                *)
(*                                                                         *)
(* The first part is about texts: looking for the marker in the rest of    *)
(* the last line, with what is read next behind it, finds what looking     *)
(* through the whole text would find.  The second is about the invariant:  *)
(* what is read and what is in the pipe make what is written, and as long  *)
(* as nothing is found the worker keeps the last line of what is read.     *)
(***************************************************************************)
EXTENDS ProbsatExecution, SequenceTheorems, WellFoundedInduction, TLAPS

-----------------------------------------------------------------------------
(* Texts                                                                   *)

(* A set of numbers that is not empty has a least element.                  *)
LEMMA HasLeast ==
  ASSUME NEW S, S \subseteq Nat, S # {}
  PROVE  \E m \in S : \A k \in S : m <= k
<1>1. PICK m \in S : \A k \in S : <<k, m>> \notin OpToRel(<, Nat)
  BY WFMin, NatLessThanWellFounded, Zenon
<1>2. \A k \in S : ~(k < m)
  BY <1>1, Zenon DEF OpToRel
<1>3. \A k \in S : m <= k
  BY <1>2
<1> QED
  BY <1>3

(* One set of bounded numbers that is not empty has a greatest element.     *)
LEMMA HasGreatest ==
  ASSUME NEW n \in Nat, NEW S, S \subseteq 0 .. n, S # {}
  PROVE  \E m \in S : \A k \in S : k <= m
<1> DEFINE T == {n - k : k \in S}
<1>1. T \subseteq Nat /\ T # {}
  <2>1. ASSUME NEW k \in S
        PROVE  n - k \in Nat
    OBVIOUS
  <2> QED
    BY <2>1
<1> HIDE DEF T
<1>2. PICK t \in T : \A k \in T : t <= k
  BY <1>1, HasLeast
<1>3. PICK m \in S : t = n - m
  BY <1>2 DEF T
<1>4. ASSUME NEW k \in S
      PROVE  k <= m
  <2>1. n - k \in T
    BY DEF T
  <2>2. n - m <= n - k
    BY <1>2, <1>3, <2>1
  <2>3. n - m \in Int /\ n - k \in Int /\ m \in Int /\ k \in Int
    OBVIOUS
  <2> QED
    BY <2>2, <2>3
<1> QED
  BY <1>4

(* The last line of text t begins behind position p.                        *)
LastLineFrom(t, p) ==
  /\ p \in 0 .. Len(t)
  /\ p = 0 \/ t[p] = "newline"
  /\ \A i \in p + 1 .. Len(t) : t[i] # "newline"

(* Every text has a last line, and this is it.                              *)
LEMMA LastLineExists ==
  ASSUME NEW t \in Seq(Pieces)
  PROVE  \E p \in 0 .. Len(t) : LastLineFrom(t, p)
<1> DEFINE ends == {0} \union Newlines(t)
<1>1. Len(t) \in Nat /\ ends \subseteq 0 .. Len(t) /\ ends # {}
  BY DEF Newlines
<1>2. PICK p \in ends : \A j \in ends : j <= p
  BY <1>1, HasGreatest, Zenon
<1>3. ASSUME NEW i \in p + 1 .. Len(t)
      PROVE  t[i] # "newline"
  <2>1. p \in 0 .. Len(t) /\ i \in DOMAIN t /\ ~(i <= p)
    BY <1>1
  <2> QED
    BY <1>2, <2>1 DEF Newlines
<1> QED
  BY <1>1, <1>3 DEF LastLineFrom, Newlines

LEMMA LastLineIs ==
  ASSUME NEW t \in Seq(Pieces), NEW p, LastLineFrom(t, p)
  PROVE  LastLine(t) = SubSeq(t, 1 + p, Len(t))
<1> DEFINE ends == {0} \union Newlines(t)
           e == CHOOSE i \in ends : \A j \in ends : j <= i
<1>1. Len(t) \in Nat /\ ends \subseteq Nat /\ p \in ends
  BY DEF LastLineFrom, Newlines
<1>2. \A j \in ends : j <= p
  BY DEF LastLineFrom, Newlines
<1>3. e \in ends /\ \A j \in ends : j <= e
  BY <1>1, <1>2
<1>4. e = p
  BY <1>1, <1>2, <1>3
<1> QED
  BY <1>4 DEF LastLine

(* Text `all' is text t behind p pieces that end with a line.               *)
Behind(all, p, t) ==
  /\ p \in 0 .. Len(all)
  /\ Len(all) = p + Len(t)
  /\ \A i \in 1 .. Len(t) : all[p + i] = t[i]
  /\ p = 0 \/ all[p] = "newline"

(* No line with the number ends in the first p pieces of a text.            *)
NoneBefore(all, p) ==
  ~ \E i \in MarkerLines(all) : \E j \in i .. p : all[j] = "newline"

(* The lines with the number are then those of t.                           *)
LEMMA MarkersBehind ==
  ASSUME NEW all \in Seq(Pieces), NEW t \in Seq(Pieces), NEW p,
         Behind(all, p, t), NoneBefore(all, p)
  PROVE  \A i : i \in MarkerLines(all) <=> i - p \in MarkerLines(t) /\ i \in Nat
<1>1. /\ Len(all) \in Nat /\ Len(t) \in Nat /\ p \in Nat
      /\ DOMAIN all = 1 .. Len(all) /\ DOMAIN t = 1 .. Len(t)
      /\ Len(all) = p + Len(t)
  BY DEF Behind
<1>2. \A i \in 1 .. Len(t) : all[p + i] = t[i]
  BY DEF Behind
<1>3. ASSUME NEW i \in MarkerLines(all)
      PROVE  i \in Nat /\ i - p \in MarkerLines(t)
  <2>1. /\ i \in 1 .. Len(all) /\ i \in LineStarts(all) /\ all[i] = "numFlips"
        /\ \E j \in Newlines(all) : j > i
    BY <1>1 DEF MarkerLines
  <2>2. p = 0 \/ all[p] = "newline"
    BY DEF Behind
  <2>3. i > p
    <3>1. CASE p = 0
      BY <2>1, <3>1
    <3>2. CASE p # 0 /\ i <= p
      BY <1>1, <2>1, <2>2, <3>2 DEF NoneBefore
    <3> QED
      BY <1>1, <2>1, <3>1, <3>2
  <2>4. i - p \in 1 .. Len(t) /\ t[i - p] = "numFlips"
    <3>1. i - p \in 1 .. Len(t) /\ p + (i - p) = i
      BY <1>1, <2>1, <2>3
    <3> QED
      BY <1>2, <2>1, <3>1
  <2>5. i - p \in LineStarts(t)
    <3>1. CASE i - p = 1
      BY <3>1 DEF LineStarts
    <3>2. CASE i - p # 1
      <4>1. PICK k \in Newlines(all) : i = k + 1
        BY <1>1, <2>1, <2>3, <3>2 DEF LineStarts
      <4>2. k \in 1 .. Len(all) /\ all[k] = "newline"
        BY <1>1 DEF Newlines
      <4>3. k - p \in 1 .. Len(t) /\ p + (k - p) = k
        BY <1>1, <2>1, <2>3, <3>2, <4>1, <4>2
      <4>4. k - p \in Newlines(t)
        BY <1>1, <1>2, <4>2, <4>3 DEF Newlines
      <4>5. i - p = (k - p) + 1
        BY <1>1, <4>1, <4>2
      <4> QED
        BY <4>4, <4>5 DEF LineStarts
    <3> QED
      BY <3>1, <3>2
  <2>6. \E j \in Newlines(t) : j > i - p
    <3>1. PICK j \in Newlines(all) : j > i
      BY <2>1
    <3>2. j \in 1 .. Len(all) /\ all[j] = "newline"
      BY <1>1 DEF Newlines
    <3>3. j - p \in 1 .. Len(t) /\ p + (j - p) = j /\ j - p > i - p
      BY <1>1, <2>1, <2>3, <3>1, <3>2
    <3>4. j - p \in Newlines(t)
      BY <1>1, <1>2, <3>2, <3>3 DEF Newlines
    <3> QED
      BY <3>3, <3>4
  <2> QED
    BY <1>1, <2>1, <2>4, <2>5, <2>6 DEF MarkerLines
<1>4. ASSUME NEW i \in Nat, i - p \in MarkerLines(t)
      PROVE  i \in MarkerLines(all)
  <2>1. /\ i - p \in 1 .. Len(t) /\ i - p \in LineStarts(t)
        /\ t[i - p] = "numFlips" /\ \E j \in Newlines(t) : j > i - p
    BY <1>1, <1>4 DEF MarkerLines
  <2>2. i \in 1 .. Len(all) /\ p + (i - p) = i
    BY <1>1, <2>1
  <2>3. all[i] = "numFlips"
    BY <1>2, <2>1, <2>2
  <2>4. i \in LineStarts(all)
    <3>1. CASE i - p = 1
      <4>1. CASE p = 0
        BY <3>1, <4>1 DEF LineStarts
      <4>2. CASE p # 0
        <5>1. p \in Newlines(all)
          BY <1>1, <4>2 DEF Newlines, Behind
        <5>2. i = p + 1
          BY <1>1, <3>1
        <5> QED
          BY <5>1, <5>2 DEF LineStarts
      <4> QED
        BY <4>1, <4>2
    <3>2. CASE i - p # 1
      <4>1. PICK k \in Newlines(t) : i - p = k + 1
        BY <2>1, <3>2 DEF LineStarts
      <4>2. k \in 1 .. Len(t) /\ t[k] = "newline"
        BY <1>1 DEF Newlines
      <4>3. p + k \in 1 .. Len(all) /\ all[p + k] = "newline" /\ i = (p + k) + 1
        BY <1>1, <1>2, <4>1, <4>2
      <4>4. p + k \in Newlines(all)
        BY <1>1, <4>3 DEF Newlines
      <4> QED
        BY <4>3, <4>4 DEF LineStarts
    <3> QED
      BY <3>1, <3>2
  <2>5. \E j \in Newlines(all) : j > i
    <3>1. PICK j \in Newlines(t) : j > i - p
      BY <2>1
    <3>2. j \in 1 .. Len(t) /\ t[j] = "newline"
      BY <1>1 DEF Newlines
    <3>3. p + j \in 1 .. Len(all) /\ all[p + j] = "newline" /\ p + j > i
      BY <1>1, <1>2, <3>1, <3>2
    <3>4. p + j \in Newlines(all)
      BY <1>1, <3>3 DEF Newlines
    <3> QED
      BY <3>3, <3>4
  <2> QED
    BY <1>1, <2>2, <2>3, <2>4, <2>5 DEF MarkerLines
<1> QED
  BY <1>3, <1>4

(* The last line is that of t, too.                                         *)
LEMMA LastLineBehind ==
  ASSUME NEW all \in Seq(Pieces), NEW t \in Seq(Pieces), NEW p, Behind(all, p, t)
  PROVE  LastLine(all) = LastLine(t)
<1>1. /\ Len(all) \in Nat /\ Len(t) \in Nat /\ p \in Nat
      /\ Len(all) = p + Len(t)
      /\ \A i \in 1 .. Len(t) : all[p + i] = t[i]
      /\ p = 0 \/ all[p] = "newline"
  BY DEF Behind
<1>2. PICK q \in 0 .. Len(t) : LastLineFrom(t, q)
  BY LastLineExists
<1>3. LastLineFrom(all, p + q)
  <2>1. p + q \in 0 .. Len(all)
    BY <1>1, <1>2
  <2>2. p + q = 0 \/ all[p + q] = "newline"
    BY <1>1, <1>2 DEF LastLineFrom
  <2>3. ASSUME NEW i \in p + q + 1 .. Len(all)
        PROVE  all[i] # "newline"
    <3>1. i - p \in q + 1 .. Len(t) /\ i - p \in 1 .. Len(t) /\ p + (i - p) = i
      BY <1>1, <1>2
    <3> QED
      BY <1>1, <1>2, <3>1 DEF LastLineFrom
  <2> QED
    BY <2>1, <2>2, <2>3 DEF LastLineFrom
<1>4. /\ LastLine(t) = SubSeq(t, 1 + q, Len(t))
      /\ LastLine(all) = SubSeq(all, 1 + (p + q), Len(all))
  BY <1>2, <1>3, LastLineIs
<1> DEFINE a == SubSeq(all, 1 + (p + q), Len(all))
           b == SubSeq(t, 1 + q, Len(t))
<1>5. /\ a \in Seq(Pieces) /\ Len(a) = Len(all) - (p + q)
      /\ \A k \in 1 .. Len(all) - (p + q) : a[k] = all[(p + q) + k]
  BY <1>1, <1>2
<1>6. /\ b \in Seq(Pieces) /\ Len(b) = Len(t) - q
      /\ \A k \in 1 .. Len(t) - q : b[k] = t[q + k]
  BY <1>1, <1>2
<1> HIDE DEF a, b
<1>7. Len(a) = Len(b)
  BY <1>1, <1>2, <1>5, <1>6
<1>8. ASSUME NEW k \in 1 .. Len(a)
      PROVE  a[k] = b[k]
  <2>1. q + k \in 1 .. Len(t) /\ p + (q + k) = (p + q) + k
    BY <1>1, <1>2, <1>5
  <2>2. a[k] = all[p + (q + k)] /\ b[k] = t[q + k]
    BY <1>5, <1>6, <1>7, <2>1
  <2> QED
    BY <1>1, <2>1, <2>2
<1>9. a = b
  BY <1>5, <1>6, <1>7, <1>8, SeqEqual
<1> QED
  BY <1>4, <1>9 DEF a, b

(* A text with a line with the number has a first one.                      *)
LEMMA FirstExists ==
  ASSUME NEW t \in Seq(Pieces)
  PROVE  FirstMarkerLine(t) = {} <=> MarkerLines(t) = {}
<1>1. MarkerLines(t) \subseteq Nat
  BY DEF MarkerLines
<1>2. MarkerLines(t) # {} => \E m \in MarkerLines(t) : \A k \in MarkerLines(t) : m <= k
  BY <1>1, HasLeast
<1> QED
  BY <1>2 DEF FirstMarkerLine

(* Lines with the number in the beginning of a text are lines of the text,  *)
(* with the same number.                                                    *)
LEMMA MarkersOfPrefix ==
  ASSUME NEW o \in Seq(Pieces), NEW n \in 0 .. Len(o)
  PROVE  \A k \in MarkerLines(SubSeq(o, 1, n)) :
           k \in MarkerLines(o) /\ SubSeq(o, 1, n)[k + 1] = o[k + 1]
<1> DEFINE t == SubSeq(o, 1, n)
<1>1. /\ Len(o) \in Nat /\ t \in Seq(Pieces) /\ Len(t) = n
      /\ DOMAIN t = 1 .. n /\ DOMAIN o = 1 .. Len(o)
      /\ \A i \in 1 .. n : t[i] = o[i] /\ i \in 1 .. Len(o)
  OBVIOUS
<1> HIDE DEF t
<1>2. Newlines(t) \subseteq Newlines(o)
  BY <1>1 DEF Newlines
<1>3. LineStarts(t) \subseteq LineStarts(o)
  BY <1>2 DEF LineStarts
<1>4. MarkerLines(t) \subseteq MarkerLines(o)
  BY <1>1, <1>2, <1>3 DEF MarkerLines
<1>5. ASSUME NEW k \in MarkerLines(t)
      PROVE  t[k + 1] = o[k + 1]
  <2>1. k \in 1 .. n /\ \E j \in 1 .. n : j > k
    BY <1>1 DEF MarkerLines, Newlines
  <2>2. k + 1 \in 1 .. n
    BY <1>1, <2>1
  <2> QED
    BY <1>1, <2>2
<1> QED
  BY <1>4, <1>5 DEF t

-----------------------------------------------------------------------------
(* The invariant                                                           *)

(* Where the worker is in what the child wrote.                             *)
ReadTo == written - Len(pipe)

(* What is written and not read is in the pipe.                             *)
PipeIsRest ==
  /\ Len(pipe) \in 0 .. written
  /\ \A k \in 1 .. Len(pipe) : pipe[k] = output[ReadTo + k]

(* The worker searches until it has a reason to end.                        *)
EndsWithReason == reason = 0 <=> pc \in {"select", "read"}

(* As long as the number is not found there is no line with it, and the     *)
(* worker has kept the last line.                                           *)
NothingFound == MarkerLines(ReadPart) = {} /\ bstr = LastLine(ReadPart)

Found ==
  /\ MarkerLines(ReadPart) # {}
  /\ \E i \in FirstMarkerLine(ReadPart) : numFlips = ReadPart[i + 1]

SearchIsExact ==
  /\ reason = 255 => Found
  /\ reason # 255 => NothingFound

PEInv == PETypeOK /\ PipeIsRest /\ EndsWithReason /\ SearchIsExact

(* Of output o, of which w pieces are written, what is read when as many    *)
(* pieces are not read as pipe q holds.                                     *)
ReadOf(o, w, q) == SubSeq(SubSeq(o, 1, w), 1, Len(SubSeq(o, 1, w)) - Len(q))

(* It is the output up to there.                                            *)
LEMMA ReadOfIs ==
  ASSUME NEW o \in Seq(Pieces), NEW w \in 0 .. Len(o), NEW q, Len(q) \in 0 .. w
  PROVE  ReadOf(o, w, q) = SubSeq(o, 1, w - Len(q))
<1>1. Len(o) \in Nat /\ w \in Nat
  OBVIOUS
<1> DEFINE n == w - Len(q)
           t == SubSeq(o, 1, w)
           r == SubSeq(t, 1, n)
           u == SubSeq(o, 1, n)
<1>2. n \in 0 .. w
  BY <1>1
<1>3. ReadOf(o, w, q) = SubSeq(t, 1, Len(t) - Len(q))
  BY DEF ReadOf
<1> HIDE DEF n
<1>4. t \in Seq(Pieces) /\ Len(t) = w /\ \A i \in 1 .. w : t[i] = o[i]
  BY <1>1
<1>5. u \in Seq(Pieces) /\ Len(u) = n /\ \A i \in 1 .. n : u[i] = o[i]
  BY <1>1, <1>2
<1> HIDE DEF t
<1>6. r \in Seq(Pieces) /\ Len(r) = n /\ \A i \in 1 .. n : r[i] = t[i]
  BY <1>1, <1>2, <1>4
<1> HIDE DEF r, u
<1>7. \A i \in 1 .. Len(r) : r[i] = u[i]
  BY <1>1, <1>2, <1>4, <1>5, <1>6
<1>8. r = u
  BY <1>5, <1>6, <1>7, SeqEqual
<1> QED
  BY <1>3, <1>4, <1>8 DEF n, r, u

(* What has been read, and how many pieces that are.                        *)
LEMMA ReadPartIs ==
  ASSUME PETypeOK, PipeIsRest
  PROVE  /\ output \in Seq(Pieces) /\ Len(output) \in Nat /\ written \in 0 .. Len(output)
         /\ ReadTo \in 0 .. Len(output)
         /\ ReadPart = SubSeq(output, 1, ReadTo)
         /\ ReadPart \in Seq(Pieces) /\ Len(ReadPart) = ReadTo
<1>1. output \in Seq(Pieces) /\ Len(output) \in Nat /\ written \in 0 .. Len(output)
  BY PEAssumption DEF PETypeOK
<1>2. Len(pipe) \in 0 .. written /\ ReadTo \in 0 .. Len(output)
  BY <1>1 DEF PipeIsRest, ReadTo
<1>3. ReadPart = ReadOf(output, written, pipe)
  BY DEF ReadPart, WrittenPart, ReadOf
<1>4. ReadPart = SubSeq(output, 1, ReadTo)
  BY <1>1, <1>2, <1>3, ReadOfIs DEF ReadTo
<1> QED
  BY <1>1, <1>2, <1>4

(* The same after a step.                                                   *)
LEMMA ReadPartAfter ==
  ASSUME PETypeOK', PipeIsRest'
  PROVE  ReadPart' = SubSeq(output', 1, ReadTo')
<1>1. output' \in Seq(Pieces) /\ written' \in 0 .. Len(output')
  BY PEAssumption DEF PETypeOK
<1>2. Len(pipe') \in 0 .. written'
  BY DEF PipeIsRest
<1>3. ReadPart' = ReadOf(output', written', pipe')
  BY DEF ReadPart, WrittenPart, ReadOf
<1> QED
  BY <1>1, <1>2, <1>3, ReadOfIs DEF ReadTo

(* The pieces of two texts one behind the other.                            *)
LEMMA Joined ==
  ASSUME NEW s \in Seq(Pieces), NEW t \in Seq(Pieces)
  PROVE  /\ s \o t \in Seq(Pieces)
         /\ Len(s \o t) = Len(s) + Len(t)
         /\ \A i \in 1 .. Len(s) : (s \o t)[i] = s[i]
         /\ \A i \in 1 .. Len(t) : (s \o t)[Len(s) + i] = t[i]
  OBVIOUS

(* The text the worker looks through after a read is what it has read from  *)
(* the last line on.                                                        *)
LEMMA TextIsRest ==
  ASSUME NEW old \in Seq(Pieces), NEW new \in Seq(Pieces), NEW c \in Seq(Pieces),
         new = old \o c, MarkerLines(old) = {}
  PROVE  \E p \in Nat :
           /\ Behind(new, p, LastLine(old) \o c)
           /\ NoneBefore(new, p)
<1>1. PICK p \in 0 .. Len(old) : LastLineFrom(old, p)
  BY LastLineExists
<1>2. Len(old) \in Nat /\ Len(c) \in Nat /\ p \in Nat /\ p <= Len(old)
  BY <1>1
<1> DEFINE last == SubSeq(old, 1 + p, Len(old))
           text == last \o c
<1>3. LastLine(old) = last
  BY <1>1, LastLineIs
<1>4. /\ last \in Seq(Pieces) /\ Len(last) = Len(old) - p
      /\ \A k \in 1 .. Len(old) - p : last[k] = old[p + k]
  BY <1>2
<1>5. /\ Len(new) = Len(old) + Len(c)
      /\ \A i \in 1 .. Len(old) : new[i] = old[i]
      /\ \A i \in 1 .. Len(c) : new[Len(old) + i] = c[i]
  BY <1>2
<1> HIDE DEF last
<1>6. /\ Len(text) = (Len(old) - p) + Len(c)
      /\ \A i \in 1 .. Len(old) - p : text[i] = last[i]
      /\ \A i \in 1 .. Len(c) : text[(Len(old) - p) + i] = c[i]
  <2>1. /\ Len(text) = Len(last) + Len(c)
        /\ \A i \in 1 .. Len(last) : text[i] = last[i]
        /\ \A i \in 1 .. Len(c) : text[Len(last) + i] = c[i]
    BY <1>4, Joined, Zenon
  <2> QED
    BY <1>4, <2>1
<1> HIDE DEF text
<1>7. Behind(new, p, text)
  <2>1. p \in 0 .. Len(new) /\ Len(new) = p + Len(text)
    BY <1>2, <1>5, <1>6
  <2>2. ASSUME NEW i \in 1 .. Len(text)
        PROVE  new[p + i] = text[i]
    <3>1. CASE i <= Len(old) - p
      <4>1. i \in 1 .. Len(old) - p /\ p + i \in 1 .. Len(old)
        BY <1>2, <1>6, <3>1
      <4> QED
        BY <1>4, <1>5, <1>6, <4>1
    <3>2. CASE i > Len(old) - p
      <4> DEFINE j == i - (Len(old) - p)
      <4>1. /\ j \in 1 .. Len(c)
            /\ i = (Len(old) - p) + j /\ p + i = Len(old) + j
        BY <1>2, <1>6, <3>2
      <4> HIDE DEF j
      <4> QED
        BY <1>5, <1>6, <4>1
    <3> QED
      BY <1>2, <1>6, <3>1, <3>2
  <2>3. p = 0 \/ new[p] = "newline"
    BY <1>1, <1>2, <1>5 DEF LastLineFrom
  <2> QED
    BY <2>1, <2>2, <2>3 DEF Behind
<1>8. NoneBefore(new, p)
  <2> SUFFICES ASSUME NEW i \in MarkerLines(new), NEW j \in i .. p,
                      new[j] = "newline"
               PROVE  FALSE
    BY DEF NoneBefore
  <2>1. /\ i \in 1 .. Len(new) /\ i \in LineStarts(new) /\ new[i] = "numFlips"
    BY DEF MarkerLines
  <2>2. i < j /\ j \in 1 .. Len(old) /\ i \in 1 .. Len(old)
    BY <1>2, <2>1
  <2>3. j \in Newlines(old) /\ old[i] = "numFlips"
    BY <1>5, <2>1, <2>2 DEF Newlines
  <2>4. i \in LineStarts(old)
    <3>1. CASE i = 1
      BY <3>1 DEF LineStarts
    <3>2. CASE i # 1
      <4>1. PICK k \in Newlines(new) : i = k + 1
        BY <2>1, <3>2 DEF LineStarts
      <4>2. k \in 1 .. Len(new) /\ new[k] = "newline"
        BY DEF Newlines
      <4>3. k \in 1 .. Len(old)
        BY <1>2, <2>2, <4>1, <4>2
      <4>4. k \in Newlines(old)
        BY <1>5, <4>2, <4>3 DEF Newlines
      <4> QED
        BY <4>1, <4>4 DEF LineStarts
    <3> QED
      BY <3>1, <3>2
  <2>5. i \in MarkerLines(old)
    BY <2>2, <2>3, <2>4 DEF MarkerLines
  <2> QED
    BY <2>5
<1> QED
  BY <1>2, <1>3, <1>7, <1>8 DEF text

(* Pieces c are read behind an old text without the number, and looked      *)
(* through behind its last line.                                            *)
Continues(old, new, c, text) ==
  /\ {old, new, c, text} \subseteq Seq(Pieces)
  /\ new = old \o c /\ MarkerLines(old) = {}
  /\ text = LastLine(old) \o c

(* In text t is found what is there to find in all that was read, and the   *)
(* last line is the same.                                                   *)
FindsNone(t, all) ==
  FirstMarkerLine(t) = {} => MarkerLines(all) = {} /\ LastLine(all) = LastLine(t)
FindsFirst(t, all) ==
  \A i \in FirstMarkerLine(t) : \E k \in FirstMarkerLine(all) : all[k + 1] = t[i + 1]

(* So looking through the rest of the last line is enough.                  *)
LEMMA SearchInRest ==
  ASSUME NEW old, NEW new, NEW c, NEW text, Continues(old, new, c, text)
  PROVE  FindsNone(text, new) /\ FindsFirst(text, new)
<1>0. /\ old \in Seq(Pieces) /\ new \in Seq(Pieces) /\ c \in Seq(Pieces)
      /\ text \in Seq(Pieces) /\ text = LastLine(old) \o c
      /\ new = old \o c /\ MarkerLines(old) = {}
  BY DEF Continues
<1>1. PICK p \in Nat : Behind(new, p, text) /\ NoneBefore(new, p)
  BY <1>0, TextIsRest
<1>2. \A i : i \in MarkerLines(new) <=> i - p \in MarkerLines(text) /\ i \in Nat
  BY <1>0, <1>1, MarkersBehind
<1>3. ASSUME FirstMarkerLine(text) = {}
      PROVE  MarkerLines(new) = {} /\ LastLine(new) = LastLine(text)
  <2>1. MarkerLines(text) = {}
    BY <1>0, <1>3, FirstExists
  <2>2. MarkerLines(new) = {}
    BY <1>2, <2>1
  <2> QED
    BY <1>0, <1>1, <2>2, LastLineBehind
<1>4. ASSUME NEW i \in FirstMarkerLine(text)
      PROVE  \E k \in FirstMarkerLine(new) : new[k + 1] = text[i + 1]
  <2>1. i \in MarkerLines(text) /\ \A j \in MarkerLines(text) : i <= j
    BY DEF FirstMarkerLine
  <2>2. i \in 1 .. Len(text) /\ Len(text) \in Nat /\ \E j \in 1 .. Len(text) : j > i
    BY <1>0, <2>1 DEF MarkerLines, Newlines
  <2>3. p + i \in Nat /\ (p + i) - p = i /\ i + 1 \in 1 .. Len(text)
    BY <2>2
  <2>4. p + i \in MarkerLines(new)
    BY <1>2, <2>1, <2>3
  <2>5. ASSUME NEW k \in MarkerLines(new)
        PROVE  p + i <= k
    <3>1. k \in Nat /\ k - p \in MarkerLines(text)
      BY <1>2
    <3>2. i <= k - p
      BY <2>1, <3>1
    <3> QED
      BY <2>2, <3>1, <3>2
  <2>6. new[(p + i) + 1] = text[i + 1]
    <3>1. new[p + (i + 1)] = text[i + 1]
      BY <1>1, <2>3 DEF Behind
    <3>2. p + (i + 1) = (p + i) + 1
      BY <2>2
    <3> QED
      BY <3>1, <3>2
  <2> QED
    BY <2>4, <2>5, <2>6 DEF FirstMarkerLine
<1> QED
  BY <1>3, <1>4 DEF FindsNone, FindsFirst

-----------------------------------------------------------------------------
(* The steps                                                               *)

LEMMA InitPE == Init => PEInv
<1> SUFFICES ASSUME Init
             PROVE  PEInv
  OBVIOUS
<1>1. output \in Outputs /\ output \in Seq(Pieces) /\ Len(output) \in Nat
  BY PEAssumption DEF Init
<1>2. PETypeOK
  <2>1. 0 \in 0 .. LastTick /\ 0 \in 0 .. Len(output) /\ <<>> \in Seq(Pieces)
    BY <1>1, PEAssumption
  <2> QED
    BY <1>1, <2>1 DEF Init, PETypeOK
<1>3. PipeIsRest
  BY DEF Init, PipeIsRest, ReadTo
<1>4. EndsWithReason
  BY DEF Init, EndsWithReason
<1>5. Len(ReadPart) = 0 /\ ReadPart \in Seq(Pieces)
  BY <1>2, <1>3, ReadPartIs DEF Init, ReadTo
<1>6. ReadPart = <<>>
  BY <1>5
<1>7. MarkerLines(<<>>) = {}
  BY DEF MarkerLines
<1>8. LastLine(<<>>) = <<>>
  <2>1. <<>> \in Seq(Pieces) /\ Len(<<>>) = 0
    OBVIOUS
  <2>2. LastLineFrom(<<>>, 0)
    BY <2>1 DEF LastLineFrom
  <2>3. LastLine(<<>>) = SubSeq(<<>>, 1 + 0, Len(<<>>))
    BY <2>1, <2>2, LastLineIs
  <2> QED
    BY <2>1, <2>3
<1>9. SearchIsExact
  BY <1>6, <1>7, <1>8 DEF SearchIsExact, NothingFound, Init
<1> QED
  BY <1>2, <1>3, <1>4, <1>9 DEF PEInv

(* Steps that read nothing and find nothing leave the search as it is.      *)
LEMMA SearchStays ==
  ASSUME PETypeOK, PipeIsRest, SearchIsExact, PETypeOK', PipeIsRest',
         output' = output, ReadTo' = ReadTo,
         UNCHANGED <<bstr, numFlips>>, (reason = 255) = (reason' = 255)
  PROVE  SearchIsExact'
<1>1. ReadPart = SubSeq(output, 1, ReadTo)
  BY ReadPartIs
<1>2. ReadPart' = SubSeq(output', 1, ReadTo')
  BY ReadPartAfter
<1>3. ReadPart' = ReadPart
  BY <1>1, <1>2
<1> QED
  BY <1>3 DEF SearchIsExact, NothingFound, Found

(* The child writes behind what is in the pipe.                             *)
LEMMA WritePE == PEInv /\ Write => PEInv'
<1> SUFFICES ASSUME PEInv, Write
             PROVE  PEInv'
  OBVIOUS
<1>1. /\ output \in Seq(Pieces) /\ Len(output) \in Nat /\ written \in 0 .. Len(output)
      /\ pipe \in Seq(Pieces) /\ Len(pipe) \in Nat
  BY ReadPartIs DEF PEInv, PETypeOK
<1>2. written' = written + 1 /\ written < Len(output) /\ output' = output
  BY DEF Write
<1> DEFINE piece == output[written + 1]
<1>3. pipe' = Append(pipe, piece)
  BY DEF Write
<1>4. piece \in Pieces /\ written + 1 \in 0 .. Len(output)
  BY <1>1, <1>2
<1> HIDE DEF piece
<1>5. /\ pipe' \in Seq(Pieces) /\ Len(pipe') = Len(pipe) + 1
      /\ \A k \in 1 .. Len(pipe) : pipe'[k] = pipe[k]
      /\ pipe'[Len(pipe) + 1] = piece
  BY <1>1, <1>3, <1>4
<1>6. PETypeOK'
  BY <1>1, <1>2, <1>4, <1>5 DEF PEInv, PETypeOK, Write
<1>7. ReadTo' = ReadTo /\ ReadTo + (Len(pipe) + 1) = written + 1
  BY <1>1, <1>2, <1>5 DEF ReadTo
<1>8. PipeIsRest'
  <2>1. Len(pipe') \in 0 .. written'
    BY <1>1, <1>2, <1>5 DEF PEInv, PipeIsRest
  <2>2. ASSUME NEW k \in 1 .. Len(pipe')
        PROVE  pipe'[k] = output'[ReadTo' + k]
    <3>1. CASE k = Len(pipe) + 1
      BY <1>2, <1>5, <1>7, <3>1 DEF piece
    <3>2. CASE k # Len(pipe) + 1
      <4>1. k \in 1 .. Len(pipe)
        BY <1>1, <1>5, <3>2
      <4> QED
        BY <1>2, <1>5, <1>7, <4>1 DEF PEInv, PipeIsRest
    <3> QED
      BY <3>1, <3>2
  <2> QED
    BY <2>1, <2>2 DEF PipeIsRest
<1>9. EndsWithReason'
  BY DEF PEInv, EndsWithReason, Write
<1>10. SearchIsExact'
  BY <1>6, <1>7, <1>8, SearchStays DEF PEInv, Write
<1> QED
  BY <1>6, <1>8, <1>9, <1>10 DEF PEInv

(* Steps that leave the pipe and what is written.                           *)
LEMMA PipeStays ==
  ASSUME PipeIsRest, UNCHANGED <<output, written, pipe>>
  PROVE  PipeIsRest' /\ ReadTo' = ReadTo
BY DEF PipeIsRest, ReadTo

LEMMA ExitPE == PEInv /\ Exit => PEInv'
<1> SUFFICES ASSUME PEInv, Exit
             PROVE  PEInv'
  OBVIOUS
<1>1. PETypeOK'
  BY DEF PEInv, PETypeOK, Exit
<1>2. PipeIsRest' /\ ReadTo' = ReadTo
  BY PipeStays DEF PEInv, Exit
<1>3. SearchIsExact'
  BY <1>1, <1>2, SearchStays DEF PEInv, Exit
<1> QED
  BY <1>1, <1>2, <1>3 DEF PEInv, EndsWithReason, Exit

LEMMA TickPE == PEInv /\ Tick => PEInv'
<1> SUFFICES ASSUME PEInv, Tick
             PROVE  PEInv'
  OBVIOUS
<1>1. now' \in 0 .. LastTick
  BY PEAssumption DEF PEInv, PETypeOK, Tick
<1>2. PETypeOK'
  BY <1>1 DEF PEInv, PETypeOK, Tick, childVars
<1>3. PipeIsRest' /\ ReadTo' = ReadTo
  BY PipeStays DEF PEInv, Tick, childVars
<1>4. SearchIsExact'
  BY <1>2, <1>3, SearchStays DEF PEInv, Tick, childVars
<1> QED
  BY <1>2, <1>3, <1>4 DEF PEInv, EndsWithReason, Tick

LEMMA SelectPE == PEInv /\ Select => PEInv'
<1> SUFFICES ASSUME PEInv, Select
             PROVE  PEInv'
  OBVIOUS
<1>1. reason = 0 /\ reason' \in {0, 1}
  BY DEF PEInv, EndsWithReason, Select
<1>2. PETypeOK'
  BY <1>1 DEF PEInv, PETypeOK, Select, childVars
<1>3. PipeIsRest' /\ ReadTo' = ReadTo
  BY PipeStays DEF PEInv, Select, childVars
<1>4. (reason = 255) = (reason' = 255)
  BY <1>1
<1>5. SearchIsExact'
  BY <1>2, <1>3, <1>4, SearchStays DEF PEInv, Select, childVars
<1> QED
  BY <1>1, <1>2, <1>3, <1>5 DEF PEInv, EndsWithReason, Select

LEMMA PclosePE == PEInv /\ Pclose => PEInv'
<1> SUFFICES ASSUME PEInv, Pclose
             PROVE  PEInv'
  OBVIOUS
<1>1. reason \in {1, 255}
  BY DEF PEInv, PETypeOK, EndsWithReason, Pclose
<1>2. result' \in {"TIMEOUT", "MAX_FLIPS", "SUCCESS"}
  BY <1>1 DEF Pclose
<1>3. PETypeOK'
  BY <1>2 DEF PEInv, PETypeOK, Pclose, childVars
<1>4. PipeIsRest' /\ ReadTo' = ReadTo
  BY PipeStays DEF PEInv, Pclose, childVars
<1>5. SearchIsExact'
  BY <1>3, <1>4, SearchStays DEF PEInv, Pclose, childVars
<1> QED
  BY <1>1, <1>3, <1>4, <1>5 DEF PEInv, EndsWithReason, Pclose

(* The pieces one read takes, and the text that is then looked through.     *)
Size == IF Len(pipe) < BufferSize THEN Len(pipe) ELSE BufferSize
Chunk == SubSeq(pipe, 1, Size)
Text == bstr \o Chunk

(* A read that takes pieces from the pipe.                                  *)
TakesPieces ==
  /\ pc = "read" /\ pipe # <<>>
  /\ pipe' = SubSeq(pipe, Size + 1, Len(pipe))
  /\ UNCHANGED <<output, written, exited, now, result>>

NothingInText ==
  /\ FirstMarkerLine(Text) = {}
  /\ bstr' = LastLine(Text)
  /\ UNCHANGED <<pc, reason, numFlips>>

NumberInText ==
  /\ \E i \in FirstMarkerLine(Text) : numFlips' = Text[i + 1]
  /\ reason' = 255 /\ pc' = "pclose" /\ bstr' = bstr

(* Besides reads that take pieces, only those of an empty pipe.             *)
LEMMA ReadCases ==
  ASSUME Read
  PROVE  \/ TakesPieces /\ (NothingInText \/ NumberInText)
         \/ /\ pc = "read" /\ pc' \in {"read", "select"}
            /\ UNCHANGED <<childVars, pipe, now, bstr, reason, numFlips, result>>
<1>1. CASE pipe = <<>>
  BY <1>1 DEF Read
<1>2. CASE pipe # <<>>
  <2>1. TakesPieces
    BY <1>2 DEF Read, TakesPieces, Size, childVars
  <2>2. IF FirstMarkerLine(Text) = {}
        THEN /\ bstr' = LastLine(Text)
             /\ UNCHANGED <<pc, reason, numFlips>>
        ELSE /\ \E i \in FirstMarkerLine(Text) : numFlips' = Text[i + 1]
             /\ reason' = 255
             /\ pc' = "pclose"
             /\ UNCHANGED bstr
    BY <1>2, Zenon DEF Read, Text, Chunk, Size
  <2>3. NothingInText \/ NumberInText
    BY <2>2 DEF NothingInText, NumberInText
  <2> QED
    BY <2>1, <2>3
<1> QED
  BY <1>1, <1>2

(* What a read takes is the next part of what is written.                   *)
LEMMA TakenIsNext ==
  ASSUME PETypeOK, PipeIsRest, TakesPieces
  PROVE  /\ Chunk \in Seq(Pieces) /\ pipe' \in Seq(Pieces)
         /\ PipeIsRest' /\ ReadTo' \in 0 .. Len(output)
         /\ ReadPart' = SubSeq(output, 1, ReadTo')
         /\ ReadPart' = ReadPart \o Chunk
<1>1. /\ output \in Seq(Pieces) /\ Len(output) \in Nat /\ written \in 0 .. Len(output)
      /\ ReadTo \in 0 .. Len(output)
      /\ ReadPart = SubSeq(output, 1, ReadTo)
  BY ReadPartIs
<1>2. /\ pipe \in Seq(Pieces) /\ Len(pipe) \in 0 .. written
      /\ \A k \in 1 .. Len(pipe) : pipe[k] = output[ReadTo + k]
      /\ ReadTo = written - Len(pipe)
  BY DEF PETypeOK, PipeIsRest, ReadTo
<1>3. Size \in 0 .. Len(pipe)
  BY <1>1, <1>2, PEAssumption DEF Size
<1>4. /\ Chunk \in Seq(Pieces) /\ Len(Chunk) = Size
      /\ \A k \in 1 .. Size : Chunk[k] = pipe[k]
  BY <1>1, <1>2, <1>3 DEF Chunk
<1> DEFINE rest == SubSeq(pipe, Size + 1, Len(pipe))
<1>5. /\ rest \in Seq(Pieces) /\ Len(rest) = Len(pipe) - Size
      /\ \A k \in 1 .. Len(pipe) - Size : rest[k] = pipe[Size + k]
  BY <1>1, <1>2, <1>3
<1> HIDE DEF rest
<1>6. pipe' = rest /\ output' = output /\ written' = written
  BY DEF TakesPieces, rest
<1>7. Len(pipe') \in 0 .. written /\ ReadTo' = ReadTo + Size /\ ReadTo' \in 0 .. Len(output)
  <2>1. ReadTo' = written - (Len(pipe) - Size)
    BY <1>5, <1>6 DEF ReadTo
  <2>2. Len(pipe') = Len(pipe) - Size
    BY <1>5, <1>6
  <2> QED
    BY <1>1, <1>2, <1>3, <2>1, <2>2
<1>8. PipeIsRest'
  <2>1. ASSUME NEW k \in 1 .. Len(pipe')
        PROVE  pipe'[k] = output'[ReadTo' + k]
    <3>1. /\ k \in 1 .. Len(pipe) - Size /\ Size + k \in 1 .. Len(pipe)
          /\ ReadTo' + k = ReadTo + (Size + k)
      BY <1>1, <1>2, <1>3, <1>5, <1>6, <1>7
    <3> QED
      BY <1>2, <1>5, <1>6, <3>1
  <2> QED
    BY <1>6, <1>7, <2>1 DEF PipeIsRest
<1>9. ReadPart' = SubSeq(output, 1, ReadTo')
  <2>1. ReadPart' = ReadOf(output', written', pipe')
    BY DEF ReadPart, WrittenPart, ReadOf
  <2>2. ReadTo' = written' - Len(pipe')
    BY DEF ReadTo
  <2> QED
    BY <1>1, <1>6, <1>7, <2>1, <2>2, ReadOfIs
<1> DEFINE old == SubSeq(output, 1, ReadTo)
           new == SubSeq(output, 1, ReadTo')
           joined == old \o Chunk
<1>10. old \in Seq(Pieces) /\ Len(old) = ReadTo /\ \A i \in 1 .. ReadTo : old[i] = output[i]
  BY <1>1
<1>11. new \in Seq(Pieces) /\ Len(new) = ReadTo' /\ \A i \in 1 .. ReadTo' : new[i] = output[i]
  BY <1>1, <1>7
<1> HIDE DEF old, new
<1>12. /\ joined \in Seq(Pieces) /\ Len(joined) = Len(old) + Len(Chunk)
       /\ \A i \in 1 .. Len(old) : joined[i] = old[i]
       /\ \A i \in 1 .. Len(Chunk) : joined[Len(old) + i] = Chunk[i]
  BY <1>4, <1>10, Joined, Zenon
<1> HIDE DEF joined
<1>13. Len(new) = Len(joined)
  BY <1>4, <1>7, <1>10, <1>11, <1>12
<1>14. ASSUME NEW i \in 1 .. Len(new)
       PROVE  new[i] = joined[i]
  <2>1. CASE i <= ReadTo
    <3>1. i \in 1 .. Len(old)
      BY <1>1, <1>7, <1>10, <1>11, <2>1
    <3> QED
      BY <1>10, <1>11, <1>12, <3>1
  <2>2. CASE i > ReadTo
    <3> DEFINE j == i - ReadTo
    <3>1. j \in 1 .. Size /\ i = ReadTo + j
      BY <1>1, <1>3, <1>7, <1>11, <2>2
    <3> HIDE DEF j
    <3>2. joined[i] = pipe[j] /\ j \in 1 .. Len(pipe)
      BY <1>3, <1>4, <1>10, <1>12, <3>1
    <3> QED
      BY <1>2, <1>11, <3>1, <3>2
  <2> QED
    BY <1>1, <1>7, <1>11, <2>1, <2>2
<1>15. new = joined
  BY <1>11, <1>12, <1>13, <1>14, SeqEqual
<1> QED
  BY <1>1, <1>4, <1>5, <1>6, <1>7, <1>8, <1>9, <1>15 DEF old, new, joined

LEMMA ReadPE == PEInv /\ Read => PEInv'
<1> SUFFICES ASSUME PEInv, Read
             PROVE  PEInv'
  OBVIOUS
<1>1. ASSUME pc = "read", pc' \in {"read", "select"},
             UNCHANGED <<childVars, pipe, now, bstr, reason, numFlips, result>>
      PROVE  PEInv'
  <2>1. PETypeOK'
    BY <1>1 DEF PEInv, PETypeOK, childVars
  <2>2. PipeIsRest' /\ ReadTo' = ReadTo
    BY <1>1, PipeStays DEF PEInv, childVars
  <2>3. SearchIsExact'
    BY <1>1, <2>1, <2>2, SearchStays DEF PEInv, childVars
  <2> QED
    BY <1>1, <2>1, <2>2, <2>3 DEF PEInv, EndsWithReason
<1>2. ASSUME TakesPieces
      PROVE  /\ reason = 0 /\ NothingFound
             /\ ReadPart \in Seq(Pieces) /\ ReadPart' \in Seq(Pieces)
             /\ Chunk \in Seq(Pieces) /\ Text \in Seq(Pieces)
             /\ ReadPart' = ReadPart \o Chunk
             /\ Text = LastLine(ReadPart) \o Chunk
             /\ PipeIsRest' /\ pipe' \in Seq(Pieces)
             /\ FindsNone(Text, ReadPart') /\ FindsFirst(Text, ReadPart')
  <2>1. reason = 0 /\ NothingFound
    BY <1>2 DEF PEInv, EndsWithReason, SearchIsExact, TakesPieces
  <2>2. /\ Chunk \in Seq(Pieces) /\ pipe' \in Seq(Pieces) /\ PipeIsRest'
        /\ ReadPart' = ReadPart \o Chunk
    BY <1>2, TakenIsNext DEF PEInv
  <2>3. ReadPart \in Seq(Pieces)
    BY ReadPartIs DEF PEInv
  <2>4. ReadPart \o Chunk \in Seq(Pieces)
    BY <2>2, <2>3, Joined
  <2>5. Text \in Seq(Pieces)
    BY <2>2, Joined DEF Text, PEInv, PETypeOK
  <2>6. Text = LastLine(ReadPart) \o Chunk
    BY <2>1 DEF NothingFound, Text
  <2>7. MarkerLines(ReadPart) = {} /\ ReadPart' \in Seq(Pieces)
    BY <2>1, <2>2, <2>4 DEF NothingFound
  <2>8. Continues(ReadPart, ReadPart', Chunk, Text)
    BY <2>2, <2>3, <2>5, <2>6, <2>7 DEF Continues
  <2>9. FindsNone(Text, ReadPart') /\ FindsFirst(Text, ReadPart')
    BY <2>8, SearchInRest
  <2> QED
    BY <2>1, <2>2, <2>3, <2>5, <2>6, <2>7, <2>9
<1>3. ASSUME TakesPieces, NothingInText
      PROVE  PEInv'
  <2>1. MarkerLines(ReadPart') = {} /\ LastLine(ReadPart') = LastLine(Text)
    BY <1>2, <1>3 DEF FindsNone, NothingInText
  <2>2. LastLine(Text) \in Seq(Pieces)
    <3>1. PICK p \in 0 .. Len(Text) : LastLineFrom(Text, p)
      BY <1>2, <1>3, LastLineExists
    <3>2. LastLine(Text) = SubSeq(Text, 1 + p, Len(Text))
      BY <1>2, <1>3, <3>1, LastLineIs
    <3>3. Text \in Seq(Pieces) /\ p \in 0 .. Len(Text)
      BY <1>2, <1>3
    <3> HIDE DEF Text
    <3> QED
      BY <3>2, <3>3
  <2>3. PETypeOK'
    BY <1>2, <1>3, <2>2 DEF PEInv, PETypeOK, TakesPieces, NothingInText
  <2>4. SearchIsExact'
    BY <1>2, <1>3, <2>1 DEF SearchIsExact, NothingFound, NothingInText
  <2>5. EndsWithReason'
    BY <1>3 DEF PEInv, EndsWithReason, NothingInText
  <2> QED
    BY <1>2, <1>3, <2>3, <2>4, <2>5 DEF PEInv
<1>4. ASSUME TakesPieces, NumberInText
      PROVE  PEInv'
  <2>1. PICK i \in FirstMarkerLine(Text) : numFlips' = Text[i + 1]
    BY <1>4 DEF NumberInText
  <2>2. PICK k \in FirstMarkerLine(ReadPart') : ReadPart'[k + 1] = Text[i + 1]
    BY <1>2, <1>4 DEF FindsFirst
  <2>3. k \in MarkerLines(ReadPart')
    BY <2>2 DEF FirstMarkerLine
  <2>4. numFlips' \in {"few", "max"}
    <3>1. /\ output \in Seq(Pieces) /\ output \in Outputs /\ Len(output) \in Nat
          /\ ReadTo' \in 0 .. Len(output) /\ ReadPart' = SubSeq(output, 1, ReadTo')
      BY <1>4, TakenIsNext, ReadPartIs DEF PEInv, PETypeOK
    <3>2. k \in MarkerLines(output) /\ ReadPart'[k + 1] = output[k + 1]
      BY <2>3, <3>1, MarkersOfPrefix
    <3>3. output[k + 1] \in {"few", "max"}
      BY <3>1, <3>2, NumbersAssumption
    <3> QED
      BY <2>1, <2>2, <3>2, <3>3
  <2>5. PETypeOK'
    BY <1>2, <1>4, <2>4 DEF PEInv, PETypeOK, TakesPieces, NumberInText
  <2>6. SearchIsExact'
    BY <1>4, <2>1, <2>2, <2>3 DEF SearchIsExact, Found, NumberInText
  <2>7. EndsWithReason'
    BY <1>4 DEF EndsWithReason, NumberInText
  <2> QED
    BY <1>2, <1>4, <2>5, <2>6, <2>7 DEF PEInv
<1> QED
  BY <1>1, <1>3, <1>4, ReadCases

(* Every step keeps the invariant.                                          *)
LEMMA InductivePE == PEInv /\ [Next]_vars => PEInv'
<1> SUFFICES ASSUME PEInv, [Next]_vars
             PROVE  PEInv'
  OBVIOUS
<1>1. ASSUME UNCHANGED vars
      PROVE  PEInv'
  <2>1. PETypeOK'
    BY <1>1 DEF PEInv, PETypeOK, vars, childVars
  <2>2. PipeIsRest' /\ ReadTo' = ReadTo
    BY <1>1, PipeStays DEF PEInv, vars, childVars
  <2>3. SearchIsExact'
    BY <1>1, <2>1, <2>2, SearchStays DEF PEInv, vars, childVars
  <2> QED
    BY <1>1, <2>1, <2>2, <2>3 DEF PEInv, EndsWithReason, vars
<1> QED
  BY <1>1, WritePE, ExitPE, TickPE, SelectPE, ReadPE, PclosePE
  DEF Next, Worker, Finished

LEMMA AlwaysPE == Spec => []PEInv
<1> QED
  BY InitPE, InductivePE, PTL DEF Spec

-----------------------------------------------------------------------------
(* The theorems                                                            *)

(* However the output is cut into writes and reads, the number of flips is  *)
(* found when, and not before, its line was read, and it is the one of the  *)
(* first such line: what the worker keeps between two reads is enough.      *)
THEOREM NumberIsFound == Spec => []FoundWhenRead
<1>1. PEInv => FoundWhenRead
  BY DEF PEInv, FoundWhenRead, SearchIsExact, Found, NothingFound
<1> QED
  BY <1>1, AlwaysPE, PTL

(* A timeout is reported only when the time was over and the child still    *)
(* ran, and nothing it had written gave the number: an answer that was in   *)
(* the pipe in time is never dropped for a timeout.                         *)
THEOREM TimeoutOverlooksNothing == Spec => TimeoutIsLast
<1>1. PEInv /\ [Next]_vars =>
        [reason' = 1 /\ reason = 0 =>
           now >= MaxExecTime /\ ~exited /\ MarkerLines(WrittenPart) = {}]_vars
  <2> SUFFICES ASSUME PEInv, Next, reason' = 1, reason = 0
               PROVE  now >= MaxExecTime /\ ~exited /\ MarkerLines(WrittenPart) = {}
    OBVIOUS
  <2>1. Select /\ pipe = <<>> /\ ~exited /\ MaxExecTime <= now
    BY DEF Next, Write, Exit, Tick, Worker, Select, Read, Pclose, Finished, vars
  <2>2. now >= MaxExecTime
    BY <2>1, PEAssumption DEF PEInv, PETypeOK
  <2>3. ReadPart = WrittenPart
    <3>1. output \in Seq(Pieces) /\ Len(output) \in Nat /\ written \in 0 .. Len(output)
      BY ReadPartIs DEF PEInv
    <3>2. ReadTo = written
      BY <2>1, <3>1 DEF ReadTo
    <3> QED
      BY <3>2, ReadPartIs DEF PEInv, WrittenPart
  <2>4. MarkerLines(ReadPart) = {}
    BY DEF PEInv, SearchIsExact, NothingFound
  <2> QED
    BY <2>1, <2>2, <2>3, <2>4
<1> QED
  BY <1>1, AlwaysPE, PTL DEF Spec, TimeoutIsLast
=============================================================================
