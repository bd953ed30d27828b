------------------------------ MODULE MixerProofs ------------------------------
(***************************************************************************)
(* Of Mixer, for every set of controls and every number of changes, sets   *)
(* and loads, what the runs check on two elements of three controls.       *)
(*                                                                         *)
(* MixerInv is inductive.  To the types (KernelOK, PhaseOK) it adds that   *)
(* no number of the card is given twice (NumbersOnce), without which a     *)
(* control that comes while an event of an older one of the same name is   *)
(* pending could be taken for it; and Good, of what the handlers work on:  *)
(* both arrays strictly sorted, for the binary searches to find in them    *)
(* what is there (Well), a control's bag and an element's list each naming *)
(* the other (Linked), and an element's controls in the places of their    *)
(* types, with its values told to the application (Sound).  Each handler   *)
(* is shown to keep Good, or all of it but one element's part              *)
(* (GoodBut, Kept) while that element is made or taken apart.              *)
(*                                                                         *)
(* History is inductive next to it, and is about the events: their order   *)
(* in the queue (QueueOnce, Ordered), and that the cache and the events    *)
(* pending account for each control of the card (Follows: what is cached   *)
(* and gone has its removal pending, what is there and not cached its      *)
(* addition (Cares), and no event adds what is cached or removes what is   *)
(* not (Reaches)).  From it follows what the cache holds once the events   *)
(* are handled, and which assertions an event can meet.                    *)
(*                                                                         *)
(* What a fold makes of a sequence is proved by instances of FoldInduction.*)
(***************************************************************************)
EXTENDS Mixer, SequenceTheorems, FiniteSetTheorems, WellFoundedInduction, TLAPS

------------------------------------------------------------------------------
(* The sorted cache.                                                       *)

(* An element put at a place, and one taken from it.                       *)
PutAt(seq, idx, e) == SubSeq(seq, 1, idx) \o <<e>> \o SubSeq(seq, idx + 1, Len(seq))

(* The first idx elements.                                                 *)
LEMMA FrontOf ==
  ASSUME NEW S, NEW seq \in Seq(S), NEW idx \in 0 .. Len(seq)
  PROVE  LET t == SubSeq(seq, 1, idx)
         IN  t \in Seq(S) /\ Len(t) = idx /\ \A i \in 1 .. idx : t[i] = seq[i]
  <1>1. Len(seq) \in Nat /\ \A i \in 1 .. Len(seq) : seq[i] \in S BY LenProperties, ElementOfSeq
  <1> QED BY <1>1, SubSeqProperties

(* The others.                                                             *)
LEMMA BackOf ==
  ASSUME NEW S, NEW seq \in Seq(S), NEW idx \in 0 .. Len(seq)
  PROVE  LET t == SubSeq(seq, idx + 1, Len(seq))
         IN  /\ t \in Seq(S) /\ Len(t) = Len(seq) - idx
             /\ \A i \in 1 .. Len(seq) - idx : t[i] = seq[idx + i]
  <1>1. Len(seq) \in Nat /\ \A i \in 1 .. Len(seq) : seq[i] \in S BY LenProperties, ElementOfSeq
  <1> DEFINE m == idx + 1
             t == SubSeq(seq, m, Len(seq))
  <1>2. m \in Int /\ Len(seq) \in Int /\ \A i \in m .. Len(seq) : seq[i] \in S BY <1>1
  <1>3. /\ t \in Seq(S)
        /\ Len(t) = IF m <= Len(seq) THEN Len(seq) - m + 1 ELSE 0
        /\ \A i \in 1 .. Len(seq) - m + 1 : t[i] = seq[m + i - 1]
    BY <1>2, SubSeqProperties
  <1> HIDE DEF t
  <1>4. Len(t) = Len(seq) - idx BY <1>1, <1>3
  <1>5. ASSUME NEW i \in 1 .. Len(seq) - idx PROVE t[i] = seq[idx + i]
    <2>1. i \in 1 .. Len(seq) - m + 1 /\ m + i - 1 = idx + i BY <1>1
    <2> QED BY <1>3, <2>1
  <1> QED BY <1>3, <1>4, <1>5 DEF t

(* Putting an element at a place shifts those behind it.                   *)
LEMMA PutAtIs ==
  ASSUME NEW S, NEW seq \in Seq(S), NEW idx \in 0 .. Len(seq), NEW e \in S
  PROVE  /\ PutAt(seq, idx, e) \in Seq(S)
         /\ Len(PutAt(seq, idx, e)) = Len(seq) + 1
         /\ \A i \in 1 .. Len(seq) + 1 :
              PutAt(seq, idx, e)[i] =
                IF i <= idx THEN seq[i] ELSE IF i = idx + 1 THEN e ELSE seq[i - 1]
  <1>0. Len(seq) \in Nat BY LenProperties
  <1> DEFINE a == SubSeq(seq, 1, idx)
             b == <<e>>
             c == SubSeq(seq, idx + 1, Len(seq))
             ab == a \o b
             all == ab \o c
  <1>1. a \in Seq(S) /\ Len(a) = idx /\ \A i \in 1 .. idx : a[i] = seq[i] BY FrontOf
  <1>2. b \in Seq(S) /\ Len(b) = 1 /\ b[1] = e OBVIOUS
  <1>3. c \in Seq(S) /\ Len(c) = Len(seq) - idx /\ \A i \in 1 .. Len(seq) - idx : c[i] = seq[idx + i]
    BY BackOf
  <1> HIDE DEF a, b, c
  <1>4. ab \in Seq(S) /\ Len(ab) = idx + 1
        /\ \A i \in 1 .. idx + 1 : ab[i] = IF i <= idx THEN a[i] ELSE b[i - idx]
    BY <1>1, <1>2, ConcatProperties
  <1> HIDE DEF ab
  <1>5. all \in Seq(S) /\ Len(all) = Len(ab) + Len(c)
        /\ \A i \in 1 .. Len(ab) + Len(c) : all[i] = IF i <= Len(ab) THEN ab[i] ELSE c[i - Len(ab)]
    BY <1>3, <1>4, ConcatProperties
  <1>6. all = PutAt(seq, idx, e) BY DEF PutAt, all, ab, a, b, c
  <1> HIDE DEF all
  <1>7. Len(all) = Len(seq) + 1 BY <1>0, <1>3, <1>4, <1>5
  <1>8. ASSUME NEW i \in 1 .. Len(seq) + 1
        PROVE  all[i] = IF i <= idx THEN seq[i] ELSE IF i = idx + 1 THEN e ELSE seq[i - 1]
    <2>1. CASE i <= idx
      <3>1. i \in 1 .. Len(ab) + Len(c) /\ i \in 1 .. idx + 1 /\ i <= Len(ab) /\ i \in 1 .. idx
        BY <2>1, <1>0, <1>3, <1>4
      <3> QED BY <3>1, <2>1, <1>1, <1>4, <1>5
    <2>2. CASE i = idx + 1
      <3>1. i \in 1 .. Len(ab) + Len(c) /\ i \in 1 .. idx + 1 /\ i <= Len(ab) /\ i - idx = 1 /\ ~(i <= idx)
        BY <2>2, <1>0, <1>3, <1>4
      <3> QED BY <3>1, <2>2, <1>2, <1>4, <1>5
    <2>3. CASE i > idx + 1
      <3>1. /\ i \in 1 .. Len(ab) + Len(c) /\ ~(i <= Len(ab)) /\ i - Len(ab) \in 1 .. Len(seq) - idx
            /\ idx + (i - Len(ab)) = i - 1 /\ ~(i <= idx) /\ i # idx + 1
        BY <2>3, <1>0, <1>3, <1>4
      <3> QED BY <3>1, <1>3, <1>5
    <2> QED BY <2>1, <2>2, <2>3, <1>0
  <1> QED BY <1>5, <1>6, <1>7, <1>8

(* The same of one place.                                                  *)
LEMMA PutAtEach ==
  ASSUME NEW S, NEW seq \in Seq(S), NEW idx \in 0 .. Len(seq), NEW e \in S, NEW i \in 1 .. Len(seq) + 1
  PROVE  PutAt(seq, idx, e)[i] = IF i <= idx THEN seq[i] ELSE IF i = idx + 1 THEN e ELSE seq[i - 1]
  <1>1. /\ PutAt(seq, idx, e) \in Seq(S)
        /\ Len(PutAt(seq, idx, e)) = Len(seq) + 1
        /\ \A j \in 1 .. Len(seq) + 1 :
             PutAt(seq, idx, e)[j] = IF j <= idx THEN seq[j] ELSE IF j = idx + 1 THEN e ELSE seq[j - 1]
    BY PutAtIs
  <1> QED BY <1>1

(* Taking one shifts them back.                                            *)
LEMMA DeleteIs ==
  ASSUME NEW S, NEW seq \in Seq(S), NEW idx \in 0 .. Len(seq) - 1
  PROVE  /\ Delete(seq, idx) \in Seq(S)
         /\ Len(Delete(seq, idx)) = Len(seq) - 1
         /\ \A i \in 1 .. Len(seq) - 1 :
              Delete(seq, idx)[i] = IF i <= idx THEN seq[i] ELSE seq[i + 1]
  <1>0. Len(seq) \in Nat BY LenProperties
  <1> DEFINE a == SubSeq(seq, 1, idx)
             c == SubSeq(seq, (idx + 1) + 1, Len(seq))
             all == a \o c
  <1>1. a \in Seq(S) /\ Len(a) = idx /\ \A i \in 1 .. idx : a[i] = seq[i]
    <2>1. idx \in 0 .. Len(seq) BY <1>0
    <2> QED BY <2>1, FrontOf
  <1>3. c \in Seq(S) /\ Len(c) = Len(seq) - (idx + 1)
        /\ \A i \in 1 .. Len(seq) - (idx + 1) : c[i] = seq[(idx + 1) + i]
    <2>1. idx + 1 \in 0 .. Len(seq) BY <1>0
    <2> QED BY <2>1, BackOf
  <1>6. all = Delete(seq, idx)
    <2>1. (idx + 1) + 1 = idx + 2 BY <1>0
    <2> QED BY <2>1 DEF Delete
  <1> HIDE DEF a, c
  <1>5. all \in Seq(S) /\ Len(all) = Len(a) + Len(c)
        /\ \A i \in 1 .. Len(a) + Len(c) : all[i] = IF i <= Len(a) THEN a[i] ELSE c[i - Len(a)]
    BY <1>1, <1>3, ConcatProperties
  <1> HIDE DEF all
  <1>7. Len(all) = Len(seq) - 1 BY <1>0, <1>1, <1>3, <1>5
  <1>8. ASSUME NEW i \in 1 .. Len(seq) - 1
        PROVE  all[i] = IF i <= idx THEN seq[i] ELSE seq[i + 1]
    <2>1. CASE i <= idx
      <3>1. i \in 1 .. Len(a) + Len(c) /\ i <= Len(a) /\ i \in 1 .. idx BY <2>1, <1>0, <1>1, <1>3
      <3> QED BY <3>1, <2>1, <1>1, <1>5
    <2>3. CASE i > idx
      <3>1. /\ i \in 1 .. Len(a) + Len(c) /\ ~(i <= Len(a)) /\ i - Len(a) \in 1 .. Len(seq) - (idx + 1)
            /\ (idx + 1) + (i - Len(a)) = i + 1 /\ ~(i <= idx)
        BY <2>3, <1>0, <1>1, <1>3
      <3> QED BY <3>1, <1>3, <1>5
    <2> QED BY <2>1, <2>3, <1>0
  <1> QED BY <1>5, <1>6, <1>7, <1>8

(* Of a sorted sequence not only neighbours are in order.                  *)
Same(p, z, e) == z
Ascends(keys, i, n) == n > 0 => keys[i] < keys[i + n]
Asc == INSTANCE FoldInduction WITH Op <- Same, Inv <- Ascends

(* Strictly sorted keys grow between any two places.                       *)
LEMMA SortedApart ==
  ASSUME NEW keys \in Seq(Int), StrictlySorted(keys)
  PROVE  \A i, j \in 1 .. Len(keys) : i < j => keys[i] < keys[j]
  <1>0. Len(keys) \in Nat /\ \A i \in 1 .. Len(keys) : keys[i] \in Int BY LenProperties, ElementOfSeq
  <1>1. ASSUME NEW i \in 1 .. Len(keys), NEW j \in 1 .. Len(keys), i < j PROVE keys[i] < keys[j]
    <2> DEFINE n == j - i
    <2>1. Ascends(keys, i, 0) BY DEF Ascends
    <2>2. ASSUME NEW m \in 1 .. n, Ascends(keys, i, m - 1) PROVE Ascends(keys, i, m)
      <3>1. i + m \in 1 .. Len(keys) /\ i + m - 1 \in 1 .. Len(keys) - 1
            /\ i + (m - 1) = i + m - 1 /\ (i + m - 1) + 1 = i + m
        BY <1>0, <1>1
      <3>2. keys[i + m - 1] < keys[i + m] BY <3>1 DEF StrictlySorted
      <3>3. keys[i] \in Int /\ keys[i + m] \in Int /\ keys[i + m - 1] \in Int BY <1>0, <3>1
      <3>4. CASE m - 1 > 0 BY <3>1, <3>2, <3>3, <3>4, <2>2 DEF Ascends
      <3>5. CASE m = 1 BY <3>1, <3>2, <3>5 DEF Ascends
      <3> QED BY <3>4, <3>5
    <2>3. n \in Nat /\ n > 0 /\ i + n = j BY <1>1
    <2>4. Ascends(keys, i, n)
      <3> HIDE DEF n
      <3> QED BY <2>1, <2>2, <2>3, Asc!Upward
    <2> QED BY <2>3, <2>4 DEF Ascends
  <1> QED BY <1>1

(* The search.                                                             *)
Probe(g, keys, key, at) ==
  LET l == at[1]
      u == at[2]
      idx == (l + u) \div 2
      c == key - keys[idx + 1]
  IN  IF c < 0 /\ l < idx THEN g[<<l, idx>>]
      ELSE IF c > 0 /\ idx + 1 < u THEN g[<<idx + 1, u>>]
      ELSE [idx |-> idx, dir |-> c]

Spans(keys) == (0 .. Len(keys)) \X (0 .. Len(keys))

(* The binary search is the recursion on spans of the array.               *)
LEMMA FindIs ==
  ASSUME NEW keys, NEW key, keys # <<>>
  PROVE  Find(keys, key) =
           (CHOOSE g : g = [at \in Spans(keys) |-> Probe(g, keys, key, at)])[<<0, Len(keys)>>]
  BY Zenon DEF Find, Probe, Spans

(* It halves the span, so there is a function that searches them all.      *)
Width(at) == IF at[1] < at[2] THEN at[2] - at[1] ELSE 0

(* A probe looks only at narrower spans.                                   *)
LEMMA ProbeLocal ==
  ASSUME NEW keys \in Seq(Int), NEW key \in Int, NEW at \in Spans(keys), NEW g, NEW h,
         \A b \in Spans(keys) : Width(b) < Width(at) => g[b] = h[b]
  PROVE  Probe(g, keys, key, at) = Probe(h, keys, key, at)
  <1>0. Len(keys) \in Nat BY LenProperties
  <1> DEFINE l == at[1]
             u == at[2]
             idx == (l + u) \div 2
             below == <<l, idx>>
             above == <<idx + 1, u>>
  <1>1. l \in 0 .. Len(keys) /\ u \in 0 .. Len(keys) /\ at = <<l, u>> BY DEF Spans
  <1>2. idx \in 0 .. Len(keys) /\ (l < u => l <= idx /\ idx < u) /\ (u <= l => idx <= l /\ u <= idx)
    BY <1>0, <1>1
  <1>3. ASSUME l < idx PROVE g[below] = h[below]
    <2>1. below \in Spans(keys) BY <1>1, <1>2 DEF Spans
    <2>2. below[1] = l /\ below[2] = idx OBVIOUS
    <2>3. Width(below) < Width(at) BY <1>1, <1>2, <1>3, <2>2 DEF Width
    <2> QED BY <2>1, <2>3
  <1>4. ASSUME idx + 1 < u PROVE g[above] = h[above]
    <2>1. above \in Spans(keys) BY <1>0, <1>1, <1>2, <1>4 DEF Spans
    <2>2. above[1] = idx + 1 /\ above[2] = u OBVIOUS
    <2>3. Width(above) < Width(at) BY <1>1, <1>2, <1>4, <2>2 DEF Width
    <2> QED BY <2>1, <2>3
  <1> QED BY <1>3, <1>4, Zenon DEF Probe

(* So the recursion is defined.                                            *)
LEMMA ProbeExists ==
  ASSUME NEW keys \in Seq(Int), NEW key \in Int
  PROVE  \E g : g = [at \in Spans(keys) |-> Probe(g, keys, key, at)]
  <1> DEFINE N == Len(keys) + 1
             Upto(g, d) == \A at \in Spans(keys) : Width(at) < d => g[at] = Probe(g, keys, key, at)
             T == {d \in 0 .. N : ~\E g : Upto(g, d)}
  <1>0. N \in Nat BY LenProperties
  <1>1. \A at \in Spans(keys) : Width(at) \in Nat /\ Width(at) < N
    <2>1. Len(keys) \in Nat BY LenProperties
    <2> QED BY <2>1 DEF Spans, Width
  <1>2. ASSUME NEW d \in Nat, NEW g, Upto(g, d) PROVE \E h : Upto(h, d + 1)
    <2> DEFINE h == [at \in Spans(keys) |-> Probe(g, keys, key, at)]
    <2>1. ASSUME NEW at \in Spans(keys), Width(at) < d + 1 PROVE h[at] = Probe(h, keys, key, at)
      <3>1. \A b \in Spans(keys) : Width(b) < Width(at) => g[b] = h[b]
        <4> SUFFICES ASSUME NEW b \in Spans(keys), Width(b) < Width(at) PROVE g[b] = h[b] OBVIOUS
        <4>1. Width(b) < d BY <1>1, <2>1
        <4> QED BY <4>1, <1>2, Zenon
      <3>2. Probe(g, keys, key, at) = Probe(h, keys, key, at)
        <4> HIDE DEF h
        <4> QED BY <3>1, ProbeLocal, Zenon
      <3>3. h[at] = Probe(g, keys, key, at) BY Zenon
      <3> QED BY <3>2, <3>3, Zenon
    <2> HIDE DEF h
    <2> QED BY <2>1, Zenon
  <1>3. T = {}
    <2> SUFFICES ASSUME T # {} PROVE FALSE OBVIOUS
    <2>1. T \subseteq Nat BY <1>0
    <2>2. PICK d \in T : \A y \in T : d <= y
      <3> HIDE DEF T
      <3> QED BY <2>1, Asc!Least, Zenon
    <2>3. d # 0
      <3>1. \A at \in Spans(keys) : ~(Width(at) < 0) BY <1>1
      <3>2. Upto(<<>>, 0) BY <3>1, Zenon
      <3> QED BY <3>2, Zenon
    <2>4. d \in 1 .. N /\ d - 1 \in 0 .. N /\ d - 1 \in Nat /\ (d - 1) + 1 = d
      <3> HIDE DEF N
      <3> QED BY <2>3, <1>0
    <2>5. ~(d - 1 \in T)
      <3> SUFFICES ASSUME d - 1 \in T PROVE FALSE OBVIOUS
      <3>1. d <= d - 1
        <4> HIDE DEF T
        <4> QED BY <2>2, Zenon
      <3> QED BY <2>4, <3>1
    <2>6. PICK g : Upto(g, d - 1) BY <2>4, <2>5, Zenon
    <2>7. \E h : Upto(h, (d - 1) + 1)
      <3> HIDE DEF Upto
      <3> QED BY <2>4, <2>6, <1>2, Zenon
    <2> QED BY <2>2, <2>4, <2>7, Zenon
  <1>4. PICK g : Upto(g, N)
    <2>1. N \in 0 .. N BY <1>0
    <2> QED BY <1>3, <2>1, Zenon
  <1> DEFINE h == [at \in Spans(keys) |-> Probe(g, keys, key, at)]
  <1>5. \A at \in Spans(keys) : h[at] = g[at] BY <1>1, <1>4, Zenon
  <1>6. \A at \in Spans(keys) : Probe(h, keys, key, at) = Probe(g, keys, key, at)
    <2> HIDE DEF h
    <2> QED BY <1>5, ProbeLocal, Zenon
  <1>7. h = [at \in Spans(keys) |-> Probe(h, keys, key, at)]
    <2>1. h = [at \in Spans(keys) |-> h[at]] BY Zenon
    <2>2. \A at \in Spans(keys) : h[at] = Probe(h, keys, key, at) BY <1>6, Zenon
    <2> HIDE DEF h
    <2> QED BY <2>1, <2>2, Zenon
  <1> QED BY <1>7, Zenon

(* Where the search ends: beside the key, or at it.                        *)
Beside(keys, key, f) ==
  /\ f.idx \in 0 .. Len(keys) - 1 /\ f.dir = key - keys[f.idx + 1]
  /\ f.dir < 0 /\ f.idx > 0 => keys[f.idx] < key
  /\ f.dir > 0 /\ f.idx + 1 < Len(keys) => key < keys[f.idx + 2]

Between(keys, key, at) ==
  /\ at[1] < at[2]
  /\ at[1] > 0 => keys[at[1]] < key
  /\ at[2] < Len(keys) => key < keys[at[2] + 1]

(* A probe that keeps the key between its ends ends beside it.             *)
LEMMA ProbeBeside ==
  ASSUME NEW keys \in Seq(Int), NEW key \in Int, NEW at \in Spans(keys), NEW g,
         Between(keys, key, at),
         \A b \in Spans(keys) : Width(b) < Width(at) /\ Between(keys, key, b) => Beside(keys, key, g[b])
  PROVE  Beside(keys, key, Probe(g, keys, key, at))
  <1>0. Len(keys) \in Nat /\ \A i \in 1 .. Len(keys) : keys[i] \in Int BY LenProperties, ElementOfSeq
  <1> DEFINE l == at[1]
             u == at[2]
             idx == (l + u) \div 2
             c == key - keys[idx + 1]
             below == <<l, idx>>
             above == <<idx + 1, u>>
             here == [idx |-> idx, dir |-> c]
  <1>1. l \in 0 .. Len(keys) /\ u \in 0 .. Len(keys) /\ l < u BY DEF Spans, Between
  <1>2. idx \in 0 .. Len(keys) - 1 /\ l <= idx /\ idx < u BY <1>0, <1>1
  <1>3. keys[idx + 1] \in Int /\ c \in Int BY <1>0, <1>2
  <1>4. CASE c < 0 /\ l < idx
    <2>1. below \in Spans(keys) BY <1>1, <1>2 DEF Spans
    <2>2. below[1] = l /\ below[2] = idx OBVIOUS
    <2>3. Width(below) < Width(at) BY <1>1, <1>2, <1>4, <2>2 DEF Width
    <2>4. Between(keys, key, below) BY <1>2, <1>3, <1>4, <2>2 DEF Between
    <2>5. Beside(keys, key, g[below]) BY <2>1, <2>3, <2>4
    <2>6. Probe(g, keys, key, at) = g[below] BY <1>4, Zenon DEF Probe
    <2> QED BY <2>5, <2>6
  <1>5. CASE ~(c < 0 /\ l < idx) /\ c > 0 /\ idx + 1 < u
    <2>1. above \in Spans(keys) BY <1>0, <1>1, <1>2 DEF Spans
    <2>2. above[1] = idx + 1 /\ above[2] = u OBVIOUS
    <2>3. Width(above) < Width(at)
      <3> HIDE DEF idx, c, above
      <3> QED BY <1>1, <1>2, <1>5, <2>2 DEF Width
    <2>4. Between(keys, key, above) BY <1>2, <1>3, <1>5, <2>2 DEF Between
    <2>5. Beside(keys, key, g[above]) BY <2>1, <2>3, <2>4
    <2>6. Probe(g, keys, key, at) = g[above] BY <1>5, Zenon DEF Probe
    <2> QED BY <2>5, <2>6
  <1>6. CASE ~(c < 0 /\ l < idx) /\ ~(c > 0 /\ idx + 1 < u)
    <2>1. Probe(g, keys, key, at) = here BY <1>6, Zenon DEF Probe
    <2>2. here.idx = idx /\ here.dir = c OBVIOUS
    <2>3. c < 0 /\ idx > 0 => keys[idx] < key
      <3> HIDE DEF idx, c
      <3> QED BY <1>1, <1>2, <1>6 DEF Between
    <2>4. c > 0 /\ idx + 1 < Len(keys) => key < keys[idx + 2]
      <3> SUFFICES ASSUME c > 0, idx + 1 < Len(keys) PROVE key < keys[idx + 2] OBVIOUS
      <3>1. u = idx + 1 /\ u + 1 = idx + 2 /\ u < Len(keys) BY <1>1, <1>2, <1>6
      <3>2. key < keys[u + 1] BY <3>1 DEF Between
      <3> QED BY <3>1, <3>2
    <2> QED BY <1>2, <2>1, <2>2, <2>3, <2>4 DEF Beside
  <1> QED BY <1>4, <1>5, <1>6

(* The search ends at the key or beside the place where it belongs.        *)
LEMMA FindBeside ==
  ASSUME NEW keys \in Seq(Int), NEW key \in Int, keys # <<>>
  PROVE  Beside(keys, key, Find(keys, key))
  <1> DEFINE g == CHOOSE g : g = [at \in Spans(keys) |-> Probe(g, keys, key, at)]
             N == Len(keys) + 1
             All(d) == \A at \in Spans(keys) : Width(at) < d /\ Between(keys, key, at) => Beside(keys, key, g[at])
             T == {d \in 0 .. N : ~All(d)}
  <1>0. Len(keys) \in Nat /\ N \in Nat /\ Len(keys) > 0 BY LenProperties, EmptySeq
  <1>1. g = [at \in Spans(keys) |-> Probe(g, keys, key, at)] BY ProbeExists, Zenon
  <1>2. Find(keys, key) = g[<<0, Len(keys)>>] BY FindIs, Zenon
  <1> HIDE DEF g
  <1>3. \A at \in Spans(keys) : Width(at) \in Nat /\ Width(at) < N BY <1>0 DEF Spans, Width
  <1>4. \A at \in Spans(keys) : g[at] = Probe(g, keys, key, at) BY <1>1, Zenon
  <1>5. ASSUME NEW d \in Nat, All(d) PROVE All(d + 1)
    <2> SUFFICES ASSUME NEW at \in Spans(keys), Width(at) < d + 1, Between(keys, key, at)
                 PROVE  Beside(keys, key, g[at])
      BY Zenon
    <2>1. \A b \in Spans(keys) : Width(b) < Width(at) => Width(b) < d BY <1>3
    <2>2. \A b \in Spans(keys) : Width(b) < Width(at) /\ Between(keys, key, b) => Beside(keys, key, g[b])
      BY <1>5, <2>1, Zenon
    <2>3. Beside(keys, key, Probe(g, keys, key, at)) BY <2>2, ProbeBeside, Zenon
    <2> QED BY <1>4, <2>3, Zenon
  <1>6. T = {}
    <2> SUFFICES ASSUME T # {} PROVE FALSE OBVIOUS
    <2>1. T \subseteq Nat BY <1>0
    <2>2. PICK d \in T : \A y \in T : d <= y
      <3> HIDE DEF T
      <3> QED BY <2>1, Asc!Least, Zenon
    <2>3. d # 0
      <3>1. \A at \in Spans(keys) : ~(Width(at) < 0) BY <1>3
      <3>2. All(0) BY <3>1, Zenon
      <3> QED BY <3>2, Zenon
    <2>4. d \in 1 .. N /\ d - 1 \in 0 .. N /\ d - 1 \in Nat /\ (d - 1) + 1 = d
      <3> HIDE DEF N, All
      <3> QED BY <2>3, <1>0
    <2>5. ~(d - 1 \in T)
      <3> SUFFICES ASSUME d - 1 \in T PROVE FALSE OBVIOUS
      <3>1. d <= d - 1
        <4> HIDE DEF T
        <4> QED BY <2>2, Zenon
      <3> QED BY <2>4, <3>1
    <2>6. All(d - 1) BY <2>4, <2>5, Zenon
    <2>7. All((d - 1) + 1)
      <3> HIDE DEF All
      <3> QED BY <2>4, <2>6, <1>5, Zenon
    <2> QED BY <2>2, <2>4, <2>7, Zenon
  <1>7. All(N)
    <2>1. N \in 0 .. N BY <1>0
    <2> QED BY <1>6, <2>1, Zenon
  <1> DEFINE whole == <<0, Len(keys)>>
  <1>8. whole \in Spans(keys) /\ whole[1] = 0 /\ whole[2] = Len(keys) BY <1>0 DEF Spans
  <1>9. Between(keys, key, whole) BY <1>0, <1>8 DEF Between
  <1> QED BY <1>2, <1>3, <1>7, <1>8, <1>9, Zenon

(* So a key that is there is found, and one that is not has its place.     *)
LEMMA FoundIs ==
  ASSUME NEW keys \in Seq(Int), NEW key \in Int, StrictlySorted(keys)
  PROVE  LET f == Find(keys, key)
         IN  /\ Found(f) => f.idx \in 0 .. Len(keys) - 1 /\ keys[f.idx + 1] = key
             /\ ~Found(f) => \A i \in 1 .. Len(keys) : keys[i] # key
  <1> DEFINE f == Find(keys, key)
  <1>0. Len(keys) \in Nat /\ \A i \in 1 .. Len(keys) : keys[i] \in Int BY LenProperties, ElementOfSeq
  <1>1. CASE keys = <<>>
    <2>1. f = [idx |-> -1, dir |-> 0] BY <1>1, Zenon DEF Find
    <2>2. ~Found(f) BY <2>1 DEF Found
    <2>3. Len(keys) = 0 BY <1>1, EmptySeq
    <2> QED BY <2>2, <2>3
  <1>2. CASE keys # <<>>
    <2> HIDE DEF f
    <2>1. Beside(keys, key, f) BY <1>2, FindBeside DEF f
    <2>2. keys[f.idx + 1] \in Int /\ f.idx \in 0 .. Len(keys) - 1 BY <1>0, <2>1 DEF Beside
    <2>3. Found(f) => keys[f.idx + 1] = key BY <2>1, <2>2 DEF Found, Beside
    <2>4. ASSUME ~Found(f), NEW i \in 1 .. Len(keys) PROVE keys[i] # key
      <3>1. f.dir # 0 /\ f.dir \in Int BY <2>1, <2>2, <2>4 DEF Found, Beside
      <3>2. \A j \in 1 .. Len(keys) : /\ i < j => keys[i] < keys[j]
                                      /\ j < i => keys[j] < keys[i]
        BY SortedApart
      <3>3. keys[i] \in Int BY <1>0
      <3> DEFINE at == f.idx + 1
      <3>6. at \in 1 .. Len(keys) /\ f.idx = at - 1 /\ f.idx + 2 = at + 1
        <4> DEFINE n == f.idx
        <4>1. n \in Int /\ n \in 0 .. Len(keys) - 1 BY <1>0, <2>2
        <4> HIDE DEF n
        <4>2. n + 1 \in 1 .. Len(keys) /\ n = (n + 1) - 1 /\ n + 2 = (n + 1) + 1 BY <1>0, <4>1
        <4> QED BY <4>2, Zenon DEF n
      <3>7. keys[at] \in Int BY <1>0, <3>6
      <3>8. /\ f.dir < 0 => key < keys[at] /\ (at > 1 => keys[at - 1] < key)
            /\ f.dir > 0 => keys[at] < key /\ (at < Len(keys) => key < keys[at + 1])
        <4>1. f.dir < 0 => key < keys[at] BY <2>1, <3>7 DEF Beside
        <4>2. f.dir > 0 => keys[at] < key BY <2>1, <3>7 DEF Beside
        <4>3. f.dir < 0 /\ at > 1 => keys[at - 1] < key
          <5>1. f.dir < 0 /\ f.idx > 0 => keys[f.idx] < key BY <2>1 DEF Beside
          <5>2. at > 1 => f.idx > 0 BY <2>2
          <5> HIDE DEF at
          <5> QED BY <5>1, <5>2, <3>6
        <4>4. f.dir > 0 /\ at < Len(keys) => key < keys[at + 1] BY <2>1, <3>6 DEF Beside
        <4> QED BY <4>1, <4>2, <4>3, <4>4
      <3> HIDE DEF at
      <3>9. /\ at < i => keys[at] < keys[i]
            /\ i < at => keys[i] < keys[at]
            /\ at > 1 /\ i < at - 1 => keys[i] < keys[at - 1]
            /\ at < Len(keys) /\ at + 1 < i => keys[at + 1] < keys[i]
        BY <3>2, <3>6, <1>0
      <3>10. /\ at > 1 => keys[at - 1] \in Int
             /\ at < Len(keys) => keys[at + 1] \in Int
        BY <1>0, <3>6
      <3>4. CASE f.dir < 0
        <4>1. CASE i >= at BY <4>1, <3>3, <3>4, <3>6, <3>7, <3>8, <3>9
        <4>2. CASE i = at - 1 BY <4>2, <3>3, <3>4, <3>6, <3>8
        <4>3. CASE i < at - 1 BY <4>3, <3>3, <3>4, <3>6, <3>8, <3>9, <3>10
        <4> QED BY <4>1, <4>2, <4>3, <3>6
      <3>5. CASE f.dir > 0
        <4>1. CASE i <= at BY <4>1, <3>3, <3>5, <3>6, <3>7, <3>8, <3>9
        <4>2. CASE i = at + 1 BY <4>2, <3>3, <3>5, <3>6, <3>8
        <4>3. CASE i > at + 1 BY <4>3, <3>3, <3>5, <3>6, <3>8, <3>9, <3>10
        <4> QED BY <4>1, <4>2, <4>3, <3>6
      <3> QED BY <3>1, <3>4, <3>5
    <2> QED BY <2>2, <2>3, <2>4 DEF f
  <1> QED BY <1>1, <1>2

(* An insertion of a key not found goes between the smaller and the        *)
(* larger.                                                                 *)
LEMMA InsertIs ==
  ASSUME NEW S, NEW seq \in Seq(S), NEW e, NEW keys \in Seq(Int), NEW key \in Int,
         Len(keys) = Len(seq), StrictlySorted(keys), ~Found(Find(keys, key))
  PROVE  \E at \in 0 .. Len(seq) :
           /\ Insert(seq, Find(keys, key), e) = PutAt(seq, at, e)
           /\ at > 0 => keys[at] < key
           /\ at < Len(seq) => key < keys[at + 1]
  <1> DEFINE f == Find(keys, key)
  <1>0. Len(seq) \in Nat /\ \A i \in 1 .. Len(keys) : keys[i] \in Int BY LenProperties, ElementOfSeq
  <1>1. CASE seq = <<>>
    <2>1. Insert(seq, f, e) = PutAt(seq, 0, e) BY <1>1, Zenon DEF Insert, PutAt
    <2>2. Len(seq) = 0 BY <1>1, EmptySeq
    <2> QED BY <2>1, <2>2
  <1>2. CASE seq # <<>>
    <2>1. keys # <<>> BY <1>0, <1>2, EmptySeq
    <2>2. Beside(keys, key, f) BY <2>1, FindBeside
    <2> HIDE DEF f
    <2> DEFINE n == f.idx
    <2>3. n \in 0 .. Len(seq) - 1 /\ keys[n + 1] \in Int /\ f.dir = key - keys[n + 1]
      BY <1>0, <2>2 DEF Beside
    <2>4. f.dir # 0 BY <2>3 DEF Found, f
    <2>5. CASE f.dir > 0
      <3>1. Insert(seq, f, e) = PutAt(seq, n + 1, e) BY <1>2, <2>5, Zenon DEF Insert, PutAt
      <3>2. keys[n + 1] < key BY <2>3, <2>5
      <3>3. n + 1 < Len(seq) => key < keys[n + 2] BY <2>2, <2>5 DEF Beside
      <3> HIDE DEF n
      <3>4. n + 1 \in 0 .. Len(seq) /\ (n + 1) + 1 = n + 2 BY <2>3, <1>0
      <3> QED BY <3>1, <3>2, <3>3, <3>4 DEF f
    <2>6. CASE f.dir < 0
      <3>1. ~(f.dir > 0) BY <2>3, <2>6
      <3>2. Insert(seq, f, e) = PutAt(seq, n, e) BY <1>2, <3>1, Zenon DEF Insert, PutAt
      <3>3. key < keys[n + 1] BY <2>3, <2>6
      <3>4. n > 0 => keys[n] < key BY <2>2, <2>6 DEF Beside
      <3> HIDE DEF n
      <3>5. n \in 0 .. Len(seq) BY <2>3, <1>0
      <3> QED BY <3>2, <3>3, <3>4, <3>5 DEF f
    <2>7. f.dir \in Int BY <2>3
    <2> QED BY <2>4, <2>5, <2>6, <2>7
  <1> QED BY <1>1, <1>2

(* Keys of a sequence in which one was put, or from which one was taken.   *)
LEMMA PutSorted ==
  ASSUME NEW keys \in Seq(Int), NEW key \in Int, StrictlySorted(keys), NEW at \in 0 .. Len(keys),
         at > 0 => keys[at] < key, at < Len(keys) => key < keys[at + 1],
         NEW new \in Seq(Int), Len(new) = Len(keys) + 1,
         \A i \in 1 .. Len(new) :
           new[i] = IF i <= at THEN keys[i] ELSE IF i = at + 1 THEN key ELSE keys[i - 1]
  PROVE  StrictlySorted(new)
  <1>0. Len(keys) \in Nat BY LenProperties
  <1> SUFFICES ASSUME NEW i \in 1 .. Len(new) - 1 PROVE new[i] < new[i + 1] BY DEF StrictlySorted
  <1>1. i \in 1 .. Len(new) /\ i + 1 \in 1 .. Len(new) /\ i \in 1 .. Len(keys) /\ (i + 1) - 1 = i BY <1>0
  <1>6. new[i] = IF i <= at THEN keys[i] ELSE IF i = at + 1 THEN key ELSE keys[i - 1] BY <1>1
  <1>7. new[i + 1] = IF i + 1 <= at THEN keys[i + 1] ELSE IF i + 1 = at + 1 THEN key ELSE keys[(i + 1) - 1]
    BY <1>1
  <1>2. CASE i < at
    <2>0. i <= at /\ i + 1 <= at BY <1>1, <1>2
    <2>1. new[i] = keys[i] /\ new[i + 1] = keys[i + 1] BY <1>6, <1>7, <2>0
    <2>2. i \in 1 .. Len(keys) - 1 BY <1>0, <1>2
    <2> QED BY <2>1, <2>2 DEF StrictlySorted
  <1>3. CASE i = at
    <2>1. new[i] = keys[i] /\ new[i + 1] = key BY <1>1, <1>3
    <2> QED BY <2>1, <1>1, <1>3
  <1>4. CASE i = at + 1
    <2>1. ~(i <= at) /\ ~(i + 1 <= at) /\ i + 1 # at + 1 /\ at < Len(keys) BY <1>1, <1>4
    <2>2. new[i] = key /\ new[i + 1] = keys[i] BY <1>1, <1>4, <2>1
    <2> QED BY <2>1, <2>2, <1>4
  <1>5. CASE i > at + 1
    <2>1. ~(i <= at) /\ ~(i + 1 <= at) /\ i # at + 1 /\ i + 1 # at + 1 BY <1>1, <1>5
    <2>2. new[i] = keys[i - 1] /\ new[i + 1] = keys[i] BY <1>1, <1>6, <1>7, <2>1
    <2>3. i - 1 \in 1 .. Len(keys) - 1 /\ (i - 1) + 1 = i BY <1>0, <1>5, <1>1
    <2> QED BY <2>2, <2>3 DEF StrictlySorted
  <1> QED BY <1>1, <1>2, <1>3, <1>4, <1>5

(* A deletion keeps the order.                                             *)
LEMMA DeleteSorted ==
  ASSUME NEW keys \in Seq(Int), StrictlySorted(keys), NEW idx \in 0 .. Len(keys) - 1,
         NEW new \in Seq(Int), Len(new) = Len(keys) - 1,
         \A i \in 1 .. Len(new) : new[i] = IF i <= idx THEN keys[i] ELSE keys[i + 1]
  PROVE  StrictlySorted(new)
  <1>0. Len(keys) \in Nat /\ \A i \in 1 .. Len(keys) : keys[i] \in Int BY LenProperties, ElementOfSeq
  <1> SUFFICES ASSUME NEW i \in 1 .. Len(new) - 1 PROVE new[i] < new[i + 1] BY DEF StrictlySorted
  <1>1. /\ i \in 1 .. Len(new) /\ i + 1 \in 1 .. Len(new)
        /\ i \in 1 .. Len(keys) /\ i + 1 \in 1 .. Len(keys) /\ (i + 1) + 1 \in 1 .. Len(keys)
        /\ i < i + 1 /\ i < (i + 1) + 1 /\ i + 1 < (i + 1) + 1
    BY <1>0
  <1>2. keys[i] < keys[i + 1] /\ keys[i] < keys[(i + 1) + 1] /\ keys[i + 1] < keys[(i + 1) + 1]
    BY <1>1, SortedApart
  <1>3. new[i] = IF i <= idx THEN keys[i] ELSE keys[i + 1] BY <1>1
  <1>4. new[i + 1] = IF i + 1 <= idx THEN keys[i + 1] ELSE keys[(i + 1) + 1] BY <1>1
  <1>5. i + 1 <= idx => i <= idx BY <1>1
  <1> QED BY <1>2, <1>3, <1>4, <1>5

------------------------------------------------------------------------------
(* Bags: lists without duplicates.                                         *)
LEMMA BagAddIs ==
  ASSUME NEW S, NEW bag \in Seq(S), IsInjective(bag), NEW e \in S, e \notin Range(bag)
  PROVE  /\ Append(bag, e) \in Seq(S) /\ IsInjective(Append(bag, e))
         /\ Range(Append(bag, e)) = Range(bag) \union {e}
  <1>0. Len(bag) \in Nat /\ DOMAIN bag = 1 .. Len(bag) BY LenProperties
  <1> DEFINE new == Append(bag, e)
  <1>1. /\ new \in Seq(S) /\ Len(new) = Len(bag) + 1 /\ new[Len(bag) + 1] = e
        /\ \A i \in 1 .. Len(bag) : new[i] = bag[i]
    BY AppendProperties
  <1>2. DOMAIN new = 1 .. Len(bag) + 1 BY <1>1, LenProperties
  <1> HIDE DEF new
  <1>3. \A i \in 1 .. Len(bag) : bag[i] # e BY <1>0 DEF Range
  <1>4. IsInjective(new)
    <2> SUFFICES ASSUME NEW i \in DOMAIN new, NEW j \in DOMAIN new, new[i] = new[j] PROVE i = j
      BY DEF IsInjective
    <2>1. i \in 1 .. Len(bag) \/ i = Len(bag) + 1 BY <1>0, <1>2
    <2>2. j \in 1 .. Len(bag) \/ j = Len(bag) + 1 BY <1>0, <1>2
    <2>3. CASE i \in 1 .. Len(bag) /\ j \in 1 .. Len(bag) BY <2>3, <1>0, <1>1 DEF IsInjective
    <2>4. CASE i = Len(bag) + 1 /\ j \in 1 .. Len(bag) BY <2>4, <1>1, <1>3
    <2>5. CASE i \in 1 .. Len(bag) /\ j = Len(bag) + 1 BY <2>5, <1>1, <1>3
    <2> QED BY <2>1, <2>2, <2>3, <2>4, <2>5
  <1>5. Range(new) = Range(bag) \union {e}
    <2>1. ASSUME NEW x \in Range(new) PROVE x \in Range(bag) \union {e}
      <3>1. PICK i \in DOMAIN new : x = new[i] BY DEF Range
      <3>2. CASE i \in 1 .. Len(bag) BY <3>1, <3>2, <1>0, <1>1 DEF Range
      <3>3. CASE i = Len(bag) + 1 BY <3>1, <3>3, <1>1
      <3> QED BY <3>2, <3>3, <1>0, <1>2
    <2>2. e \in Range(new) BY <1>0, <1>1, <1>2 DEF Range
    <2>3. ASSUME NEW x \in Range(bag) PROVE x \in Range(new)
      <3>1. PICK i \in DOMAIN bag : x = bag[i] BY DEF Range
      <3>2. i \in DOMAIN new /\ new[i] = x BY <3>1, <1>0, <1>1, <1>2
      <3> QED BY <3>2 DEF Range
    <2> QED BY <2>1, <2>2, <2>3
  <1> QED BY <1>1, <1>4, <1>5 DEF new

(* Removing a pointer from a bag that has it at most once.                 *)
LEMMA BagDelIs ==
  ASSUME NEW S, NEW bag \in Seq(S), IsInjective(bag), NEW e
  PROVE  /\ RemoveFirst(bag, e) \in Seq(S) /\ IsInjective(RemoveFirst(bag, e))
         /\ Range(RemoveFirst(bag, e)) = Range(bag) \ {e}
  <1>0. Len(bag) \in Nat /\ DOMAIN bag = 1 .. Len(bag) BY LenProperties
  <1>1. CASE ~\E i \in 1 .. Len(bag) : bag[i] = e
    <2>1. RemoveFirst(bag, e) = bag BY <1>1, Zenon DEF RemoveFirst
    <2>2. e \notin Range(bag) BY <1>0, <1>1 DEF Range
    <2> QED BY <2>1, <2>2
  <1>2. CASE \E i \in 1 .. Len(bag) : bag[i] = e
    <2> DEFINE I == {i \in 1 .. Len(bag) : bag[i] = e}
               k == CHOOSE x \in I : \A y \in I : x =< y
    <2>1. SelectInSeq(bag, LAMBDA v : v = e) = IF I # {} THEN k ELSE 0 BY Zenon DEF SelectInSeq, Min
    <2>2. RemoveFirst(bag, e) = RemoveAt(bag, SelectInSeq(bag, LAMBDA v : v = e))
      BY <1>2, Zenon DEF RemoveFirst
    <2>3. I # {} BY <1>2
    <2>4. PICK i \in 1 .. Len(bag) : bag[i] = e BY <1>2
    <2>5. I = {i} BY <2>4, <1>0 DEF IsInjective
    <2>6. k = i
      <3> HIDE DEF I
      <3>1. \E x \in I : \A y \in I : x =< y BY <2>5
      <3>2. k \in I BY <3>1
      <3> QED BY <2>5, <3>2
    <2> HIDE DEF I, k
    <2> DEFINE idx == i - 1
               new == Delete(bag, idx)
    <2>7. RemoveFirst(bag, e) = new
      <3>1. RemoveFirst(bag, e) = RemoveAt(bag, i) BY <2>1, <2>2, <2>3, <2>6
      <3>2. (i - 1) + 2 = i + 1 BY <1>0
      <3> QED BY <3>1, <3>2, Zenon DEF RemoveAt, Delete
    <2>8. idx \in 0 .. Len(bag) - 1 BY <1>0
    <2>9. /\ new \in Seq(S) /\ Len(new) = Len(bag) - 1
          /\ \A j \in 1 .. Len(bag) - 1 : new[j] = IF j <= idx THEN bag[j] ELSE bag[j + 1]
      <3> HIDE DEF idx
      <3> QED BY <2>8, DeleteIs
    <2>10. DOMAIN new = 1 .. Len(bag) - 1 BY <2>9, LenProperties
    <2> HIDE DEF new
    <2> DEFINE from(j) == IF j <= idx THEN j ELSE j + 1
    <2>11. \A j \in 1 .. Len(bag) - 1 : from(j) \in 1 .. Len(bag) /\ from(j) # i /\ new[j] = bag[from(j)]
      BY <2>9, <1>0
    <2>12. IsInjective(new)
      <3> SUFFICES ASSUME NEW a \in DOMAIN new, NEW b \in DOMAIN new, new[a] = new[b] PROVE a = b
        BY DEF IsInjective
      <3>1. from(a) = from(b)
        <4> HIDE DEF from
        <4> QED BY <2>10, <2>11, <1>0 DEF IsInjective
      <3> QED BY <3>1, <1>0, <2>10
    <2>13. Range(new) = Range(bag) \ {e}
      <3>1. ASSUME NEW x \in Range(new) PROVE x \in Range(bag) \ {e}
        <4>1. PICK j \in DOMAIN new : x = new[j] BY DEF Range
        <4>2. from(j) \in 1 .. Len(bag) /\ from(j) # i /\ x = bag[from(j)] BY <4>1, <2>10, <2>11
        <4> HIDE DEF from
        <4>3. bag[from(j)] # e BY <4>2, <2>4, <1>0 DEF IsInjective
        <4> QED BY <4>2, <4>3, <1>0 DEF Range
      <3>2. ASSUME NEW x \in Range(bag), x # e PROVE x \in Range(new)
        <4>1. PICK j \in DOMAIN bag : x = bag[j] BY DEF Range
        <4>2. j # i /\ j \in 1 .. Len(bag) BY <4>1, <3>2, <2>4, <1>0
        <4> DEFINE m == IF j < i THEN j ELSE j - 1
        <4>3. m \in 1 .. Len(bag) - 1 /\ from(m) = j BY <4>2, <1>0
        <4>4. new[m] = x
          <5> HIDE DEF m, from
          <5> QED BY <4>1, <4>3, <2>11
        <4> HIDE DEF m
        <4> QED BY <4>3, <4>4, <2>10 DEF Range
      <3> QED BY <3>1, <3>2
    <2> QED BY <2>7, <2>9, <2>12, <2>13
  <1> QED BY <1>1, <1>2

------------------------------------------------------------------------------
(* Simple elements.                                                        *)
RealHandles == Controls \X (1 .. Cardinality(Controls) + MaxChanges)

Selems ==
  [ctls : [Types -> Handles], item : Values, helems : Seq(RealHandles),
   vol : [Dirs -> Values], sw : [Dirs -> BOOLEAN]]

StepSet ==
  [what : {"none", "volume", "switch", "enum", "on", "source"}, dir : Dirs, type : Types]

(* A card as the kernel keeps it.                                          *)
Cards == [Controls -> [numid : Nat, value : Values]]

(* A step for each type.                                                   *)
StepOp(p, z, t) == IF t \in p.there THEN Append(z, [what |-> p.what, dir |-> p.dir, type |-> t]) ELSE z
StepInv(p, z, i) == z \in Seq(StepSet)
StepFold == INSTANCE FoldInduction WITH Op <- StepOp, Inv <- StepInv

(* The reads of one kind in one direction are steps.                       *)
LEMMA StepsIs ==
  ASSUME NEW what \in {"none", "volume", "switch", "enum", "on", "source"}, NEW dir \in Dirs,
         NEW types \in Seq(Types), NEW there
  PROVE  Steps(what, dir, types, there) \in Seq(StepSet)
  <1> DEFINE p == [what |-> what, dir |-> dir, there |-> there]
  <1>1. Steps(what, dir, types, there) = StepFold!Left(p, <<>>, types)
    <2>1. p.what = what /\ p.dir = dir /\ p.there = there OBVIOUS
    <2> HIDE DEF p
    <2>2. Steps(p.what, p.dir, types, p.there) = StepFold!Left(p, <<>>, types)
      BY Zenon DEF Steps, StepOp, FoldLeft, MapThenFoldSet, StepFold!Left, StepFold!Last, Max
    <2> QED BY <2>1, <2>2
  <1>2. StepInv(p, <<>>, 0) BY EmptySeq DEF StepInv
  <1>3. ASSUME NEW i \in 1 .. Len(types), NEW z, StepInv(p, z, i - 1)
        PROVE  StepInv(p, StepOp(p, z, types[i]), i)
    <2>1. types[i] \in Types BY ElementOfSeq
    <2>2. [what |-> what, dir |-> dir, type |-> types[i]] \in StepSet BY <2>1 DEF StepSet
    <2> QED BY <1>3, <2>2, AppendProperties DEF StepInv, StepOp
  <1>4. StepInv(p, StepFold!Left(p, <<>>, types), Len(types))
    <2> HIDE DEF p
    <2> QED BY <1>2, <1>3, StepFold!LeftHolds
  <1> QED BY <1>1, <1>4 DEF StepInv

(* The control that an enumeration is read from has a type.                *)
LEMMA EnumTypeIs == ASSUME NEW s PROVE EnumType(s) \in Types
  BY DEF EnumType, Types

(* selem_read is a sequence of steps.                                      *)
LEMMA ReadStepsIs == ASSUME NEW s PROVE ReadSteps(s) \in Seq(StepSet)
  <1>1. ASSUME NEW dir \in Dirs, NEW own \in Types PROVE VolumeSteps(s, dir, own) \in Seq(StepSet)
    <2> DEFINE types == <<own, "GLOBAL_VOLUME", "SINGLE">>
               of == Steps("volume", dir, types, Usable(s, "INTEGER"))
    <2>1. types \in Seq(Types) BY DEF Types
    <2>2. of \in Seq(StepSet)
      <3> HIDE DEF types
      <3> QED BY <2>1, StepsIs
    <2>3. VolumeSteps(s, dir, own) = IF of = <<>> THEN <<>> ELSE <<Head(of)>> BY Zenon DEF VolumeSteps
    <2> HIDE DEF of
    <2>4. CASE of = <<>> BY <2>3, <2>4, EmptySeq
    <2>5. CASE of # <<>>
      <3>1. Head(of) \in StepSet BY <2>2, <2>5, HeadTailProperties
      <3>2. <<Head(of)>> \in Seq(StepSet) BY <3>1
      <3> QED BY <2>3, <2>5, <3>2
    <2> QED BY <2>4, <2>5
  <1>2. ASSUME NEW dir \in Dirs, NEW own \in Seq(Types) PROVE SwitchSteps(s, dir, own) \in Seq(StepSet)
    <2>1. Steps("switch", dir, own, Usable(s, "BOOLEAN")) \in Seq(StepSet) BY StepsIs
    <2>2. [what |-> "none", dir |-> dir, type |-> "SINGLE"] \in StepSet BY DEF StepSet, Types
    <2>3. <<[what |-> "none", dir |-> dir, type |-> "SINGLE"]>> \in Seq(StepSet) BY <2>2
    <2> QED BY <2>1, <2>3 DEF SwitchSteps
  <1> DEFINE pt == <<"PLAYBACK_SWITCH", "GLOBAL_SWITCH", "SINGLE", "PLAYBACK_ROUTE", "GLOBAL_ROUTE">>
             ct == <<"CAPTURE_SWITCH", "GLOBAL_SWITCH", "SINGLE",
                     "CAPTURE_ROUTE", "GLOBAL_ROUTE", "CAPTURE_SOURCE">>
  <1>3. "PLAYBACK" \in Dirs /\ "CAPTURE" \in Dirs /\ "PLAYBACK_VOLUME" \in Types /\ "CAPTURE_VOLUME" \in Types
        /\ pt \in Seq(Types) /\ ct \in Seq(Types)
    BY DEF Dirs, Types
  <1> DEFINE pv == VolumeSteps(s, "PLAYBACK", "PLAYBACK_VOLUME")
             ps == SwitchSteps(s, "PLAYBACK", pt)
             cv == VolumeSteps(s, "CAPTURE", "CAPTURE_VOLUME")
             cs == SwitchSteps(s, "CAPTURE", ct)
             en == Steps("enum", "PLAYBACK", <<EnumType(s)>>, Types)
  <1>4. ReadSteps(s) = IF IsEnum(s) THEN en ELSE pv \o ps \o cv \o cs BY Zenon DEF ReadSteps
  <1>5. en \in Seq(StepSet)
    <2> DEFINE types == <<EnumType(s)>>
    <2>1. types \in Seq(Types) BY EnumTypeIs
    <2> HIDE DEF types
    <2>2. Steps("enum", "PLAYBACK", types, Types) \in Seq(StepSet) BY <1>3, <2>1, StepsIs
    <2> QED BY <2>2 DEF types
  <1>6. pv \in Seq(StepSet) /\ ps \in Seq(StepSet) /\ cv \in Seq(StepSet) /\ cs \in Seq(StepSet)
    <2> HIDE DEF pt, ct
    <2> QED BY <1>1, <1>2, <1>3
  <1> HIDE DEF pv, ps, cv, cs, en
  <1>7. pv \o ps \in Seq(StepSet) BY <1>6, ConcatProperties
  <1>8. pv \o ps \o cv \in Seq(StepSet) BY <1>6, <1>7, ConcatProperties
  <1>9. pv \o ps \o cv \o cs \in Seq(StepSet) BY <1>6, <1>8, ConcatProperties
  <1> QED BY <1>4, <1>5, <1>9

(* What is read depends on the controls alone.                             *)
LEMMA SameReads ==
  ASSUME NEW s, NEW r, s.ctls = r.ctls
  PROVE  ReadSteps(s) = ReadSteps(r)
  <1>1. \A t : Has(s, t) = Has(r, t) BY Zenon DEF Has
  <1>2. \A c : Single(s, c) = Single(r, c) BY <1>1, Zenon DEF Single
  <1>3. Held(s) = Held(r) BY <1>1, Zenon DEF Held
  <1>4. \A c : Usable(s, c) = Usable(r, c) BY <1>2, <1>3, Zenon DEF Usable
  <1>5. CaptureSwitch(s) = CaptureSwitch(r) BY <1>1, Zenon DEF CaptureSwitch
  <1>6. PlaybackSwitch(s) = PlaybackSwitch(r) BY <1>1, <1>2, <1>5, Zenon DEF PlaybackSwitch
  <1>7. \A d : HasSwitch(s, d) = HasSwitch(r, d) BY <1>5, <1>6, Zenon DEF HasSwitch
  <1>8. IsEnum(s) = IsEnum(r) BY <1>1, Zenon DEF IsEnum
  <1>9. EnumType(s) = EnumType(r) BY <1>1 DEF EnumType
  <1>10. ASSUME NEW d, NEW o PROVE VolumeSteps(s, d, o) = VolumeSteps(r, d, o)
    <2> DEFINE of(k) == Steps("volume", d, <<o, "GLOBAL_VOLUME", "SINGLE">>, Usable(k, "INTEGER"))
    <2>1. of(s) = of(r) BY <1>4, Zenon
    <2>2. VolumeSteps(s, d, o) = IF of(s) = <<>> THEN <<>> ELSE <<Head(of(s))>> BY Zenon DEF VolumeSteps
    <2>3. VolumeSteps(r, d, o) = IF of(r) = <<>> THEN <<>> ELSE <<Head(of(r))>> BY Zenon DEF VolumeSteps
    <2> HIDE DEF of
    <2> QED BY <2>1, <2>2, <2>3
  <1>11. \A d, o : SwitchSteps(s, d, o) = SwitchSteps(r, d, o) BY <1>4, <1>7, Zenon DEF SwitchSteps
  <1> QED BY <1>8, <1>9, <1>10, <1>11, Zenon DEF ReadSteps

(* A handle that is not gone is a control's.                               *)
LEMMA ThereIs ==
  ASSUME NEW k \in Cards, NEW h \in Handles, ~Gone(k, h)
  PROVE  h \in RealHandles /\ h[1] \in Controls /\ k[h[1]].numid = h[2] /\ k[h[1]].value \in Values
  <1>1. h # NoControl /\ k[h[1]].numid = h[2] BY DEF Gone
  <1>2. h \in RealHandles BY <1>1 DEF Handles, RealHandles
  <1>3. h[1] \in Controls BY <1>2 DEF RealHandles
  <1> QED BY <1>1, <1>2, <1>3 DEF Cards

ReadRecs == [s : Selems, err : BOOLEAN]
Errs(k, s, step) == step.what # "none" /\ Gone(k, s.ctls[step.type])
SameControls(s, r) == r.ctls = s.ctls /\ r.item = s.item /\ r.helems = s.helems

(* A volume read touches no control of the element.                        *)
LEMMA SelemVol ==
  ASSUME NEW s \in Selems, NEW d \in Dirs, NEW v \in Values
  PROVE  [s EXCEPT !.vol[d] = v] \in Selems /\ SameControls(s, [s EXCEPT !.vol[d] = v])
  BY DEF Selems, SameControls

(* Nor does a switch.                                                      *)
LEMMA SelemSw ==
  ASSUME NEW s \in Selems, NEW d \in Dirs, NEW b \in BOOLEAN
  PROVE  [s EXCEPT !.sw[d] = b] \in Selems /\ SameControls(s, [s EXCEPT !.sw[d] = b])
  BY DEF Selems, SameControls

(* A step of a read keeps the controls, and fails when its control is      *)
(* gone.                                                                   *)
LEMMA ReadStepIs ==
  ASSUME NEW k \in Cards, NEW r \in ReadRecs, NEW step \in StepSet
  PROVE  /\ ReadStep(k, r, step) \in ReadRecs
         /\ SameControls(r.s, ReadStep(k, r, step).s)
         /\ ReadStep(k, r, step).err = (r.err \/ Errs(k, r.s, step))
  <1> DEFINE h == r.s.ctls[step.type]
             value == k[h[1]].value
             n == ReadStep(k, r, step)
  <1>0. r.s \in Selems /\ r.err \in BOOLEAN /\ r = [s |-> r.s, err |-> r.err] BY DEF ReadRecs
  <1>1. step.type \in Types /\ step.dir \in Dirs BY DEF StepSet
  <1>2. h \in Handles BY <1>0, <1>1 DEF Selems
  <1>3. CASE r.err
    <2>1. n = r BY <1>3 DEF ReadStep
    <2> QED BY <2>1, <1>0, <1>3 DEF SameControls
  <1>4. CASE ~r.err /\ step.what = "none"
    <2>1. n = [r EXCEPT !.s.sw[step.dir] = FALSE] BY <1>4 DEF ReadStep
    <2>2. n = [s |-> [r.s EXCEPT !.sw[step.dir] = FALSE], err |-> r.err] BY <2>1, <1>0
    <2> DEFINE q == [r.s EXCEPT !.sw[step.dir] = FALSE]
    <2>3. q \in Selems /\ SameControls(r.s, q)
      <3>1. FALSE \in BOOLEAN OBVIOUS
      <3> QED BY <3>1, <1>0, <1>1, SelemSw
    <2> HIDE DEF q, h, value
    <2>4. r.err = FALSE BY <1>0, <1>4
    <2>5. ~Errs(k, r.s, step) BY <1>4 DEF Errs
    <2>6. n.s = q /\ n.err = FALSE /\ n = [s |-> q, err |-> FALSE]
      <3>1. n = [s |-> q, err |-> r.err] BY <2>2, Zenon DEF q
      <3> HIDE DEF n
      <3>2. n.s = q /\ n.err = r.err BY <3>1
      <3> QED BY <3>1, <3>2, <2>4, Zenon
    <2>7. n \in ReadRecs BY <2>3, <2>6 DEF ReadRecs
    <2> HIDE DEF n
    <2>8. n.err = (r.err \/ Errs(k, r.s, step)) BY <2>4, <2>5, <2>6
    <2> QED BY <2>3, <2>6, <2>7, <2>8 DEF n
  <1>5. CASE ~r.err /\ step.what # "none" /\ Gone(k, h)
    <2>1. n = [r EXCEPT !.err = TRUE] BY <1>5, Zenon DEF ReadStep
    <2>2. n = [s |-> r.s, err |-> TRUE] BY <2>1, <1>0
    <2>3. Errs(k, r.s, step) BY <1>5, Zenon DEF Errs
    <2>4. SameControls(r.s, r.s) BY DEF SameControls
    <2>5. n \in ReadRecs /\ n.s = r.s /\ n.err = TRUE BY <2>2, <1>0 DEF ReadRecs
    <2> HIDE DEF h, value, n
    <2>6. n.err = (r.err \/ Errs(k, r.s, step)) BY <2>3, <2>5
    <2> QED BY <2>4, <2>5, <2>6 DEF n
  <1>6. CASE ~r.err /\ step.what \in {"volume", "enum"} /\ ~Gone(k, h)
    <2>0. step.what # "none" BY <1>6
    <2>1. n = [r EXCEPT !.s.vol[step.dir] = value] BY <1>6, <2>0 DEF ReadStep
    <2>2. n = [s |-> [r.s EXCEPT !.vol[step.dir] = value], err |-> r.err] BY <2>1, <1>0
    <2>3. value \in Values BY <1>2, <1>6, ThereIs
    <2> HIDE DEF value, h
    <2>4. n.s \in Selems /\ SameControls(r.s, n.s) BY <2>2, <2>3, <1>0, <1>1, SelemVol
    <2>5. n.err = FALSE BY <2>2, <1>6
    <2> QED BY <2>2, <2>4, <2>5, <1>6, <1>0 DEF ReadRecs, Errs, h
  <1>7. CASE ~r.err /\ step.what \notin {"none", "volume", "enum"} /\ ~Gone(k, h)
    <2> DEFINE b == r.s.sw[step.dir] /\ IF step.type = "CAPTURE_SOURCE" THEN value = r.s.item ELSE value # 0
    <2>1. n = [r EXCEPT !.s.sw[step.dir] = b] BY <1>7 DEF ReadStep
    <2>2. n = [s |-> [r.s EXCEPT !.sw[step.dir] = b], err |-> r.err]
      <3> HIDE DEF b
      <3> QED BY <2>1, <1>0
    <2>3. b \in BOOLEAN OBVIOUS
    <2> HIDE DEF b, h
    <2>4. n.s \in Selems /\ SameControls(r.s, n.s) BY <2>2, <2>3, <1>0, <1>1, SelemSw
    <2>5. n.err = FALSE BY <2>2, <1>7
    <2> QED BY <2>2, <2>4, <2>5, <1>7, <1>0 DEF ReadRecs, Errs, h
  <1> QED BY <1>3, <1>4, <1>5, <1>6, <1>7

ReadOp(p, r, step) == ReadStep(p.k, r, step)
ReadInv(p, r, i) ==
  /\ r \in ReadRecs /\ SameControls(p.s, r.s)
  /\ r.err = \E j \in 1 .. i : Errs(p.k, p.s, ReadSteps(p.s)[j])
ReadFold == INSTANCE FoldInduction WITH Op <- ReadOp, Inv <- ReadInv

(* Reading an element fails when one of the controls it asks is gone.      *)
Fails(s, k) == \E j \in 1 .. Len(ReadSteps(s)) : Errs(k, s, ReadSteps(s)[j])

(* A read keeps the controls, fails when a control it reads is gone, and   *)
(* reports a change of what is seen.                                       *)
LEMMA SelemReadIs ==
  ASSUME NEW s \in Selems, NEW k \in Cards, {0} \subseteq Values
  PROVE  LET r == SelemRead(s, k)
         IN  /\ r.s \in Selems /\ SameControls(s, r.s) /\ r.err = Fails(s, k)
             /\ r.err \in BOOLEAN /\ r.changed \in BOOLEAN
             /\ r.abort = NullEnum(s)
             /\ ~r.err /\ ~r.changed => View(r.s) = View(s)
  <1> DEFINE blank == [s EXCEPT !.vol = [d \in Dirs |-> 0], !.sw = [d \in Dirs |-> TRUE]]
             p == [s |-> s, k |-> k]
             x == [s |-> blank, err |-> FALSE]
             r == ReadFold!Left(p, x, ReadSteps(s))
  <1>1. SelemRead(s, k) =
          [s |-> r.s, err |-> r.err, abort |-> NullEnum(s),
           changed |-> ~r.err /\ (r.s.vol # s.vol \/ r.s.sw # s.sw)]
    <2>1. p.k = k OBVIOUS
    <2> HIDE DEF p
    <2>2. SelemRead(s, p.k) =
            [s |-> r.s, err |-> r.err, abort |-> NullEnum(s),
             changed |-> ~r.err /\ (r.s.vol # s.vol \/ r.s.sw # s.sw)]
      BY Zenon DEF SelemRead, ReadOp, FoldLeft, MapThenFoldSet, ReadFold!Left, ReadFold!Last, Max
    <2> HIDE DEF r
    <2> QED BY <2>1, <2>2, Zenon
  <1>2. ReadSteps(s) \in Seq(StepSet) BY ReadStepsIs
  <1>3. ReadInv(p, x, 0)
    <2>1. blank \in Selems /\ SameControls(s, blank) BY DEF Selems, SameControls
    <2> HIDE DEF blank
    <2> QED BY <2>1 DEF ReadInv, ReadRecs
  <1>4. ASSUME NEW i \in 1 .. Len(ReadSteps(s)), NEW z, ReadInv(p, z, i - 1)
        PROVE  ReadInv(p, ReadOp(p, z, ReadSteps(s)[i]), i)
    <2> DEFINE step == ReadSteps(s)[i]
               n == ReadStep(k, z, step)
    <2>1. step \in StepSet BY <1>2, ElementOfSeq
    <2>2. z \in ReadRecs /\ SameControls(s, z.s)
          /\ z.err = \E j \in 1 .. i - 1 : Errs(k, s, ReadSteps(s)[j])
      BY <1>4 DEF ReadInv
    <2> HIDE DEF step
    <2>3. n \in ReadRecs /\ SameControls(z.s, n.s) /\ n.err = (z.err \/ Errs(k, z.s, step))
      BY <2>1, <2>2, ReadStepIs
    <2>4. Errs(k, z.s, step) = Errs(k, s, step) BY <2>2 DEF Errs, SameControls
    <2>5. SameControls(s, n.s) BY <2>2, <2>3 DEF SameControls
    <2>6. n.err = \E j \in 1 .. i : Errs(k, s, ReadSteps(s)[j])
      <3>1. Len(ReadSteps(s)) \in Nat BY <1>2, LenProperties
      <3>2. \A j : j \in 1 .. i <=> j \in 1 .. i - 1 \/ j = i BY <3>1
      <3> HIDE DEF n
      <3> QED BY <2>2, <2>3, <2>4, <3>2, Zenon DEF step
    <2>7. ReadOp(p, z, ReadSteps(s)[i]) = n BY DEF ReadOp, step
    <2>8. p.s = s /\ p.k = k OBVIOUS
    <2> HIDE DEF n, p
    <2> QED BY <2>3, <2>5, <2>6, <2>7, <2>8, Zenon DEF ReadInv
  <1>5. ReadInv(p, r, Len(ReadSteps(s)))
    <2> HIDE DEF p, x
    <2> QED BY <1>2, <1>3, <1>4, ReadFold!LeftHolds
  <1> HIDE DEF r
  <1>6. r \in ReadRecs /\ SameControls(s, r.s) /\ r.err = Fails(s, k) BY <1>5 DEF ReadInv, Fails
  <1>7. r.s \in Selems /\ r.err \in BOOLEAN BY <1>6 DEF ReadRecs
  <1> DEFINE n == SelemRead(s, k)
  <1>8. /\ n.s = r.s /\ n.err = r.err /\ n.changed = (~r.err /\ (r.s.vol # s.vol \/ r.s.sw # s.sw))
        /\ n.abort = NullEnum(s)
    BY <1>1
  <1> HIDE DEF n
  <1>9. ~n.err /\ ~n.changed => View(n.s) = View(s) BY <1>7, <1>8 DEF View
  <1>10. n.err \in BOOLEAN /\ n.changed \in BOOLEAN BY <1>7, <1>8
  <1> QED BY <1>6, <1>7, <1>8, <1>9, <1>10 DEF n

------------------------------------------------------------------------------
(* What the handlers work on, well formed: typed, and both arrays sorted.  *)
Slots == [h : RealHandles, bag : Seq(Names)]
Melems == [name : Names, s : Selems]

Shapes ==
  [elems : Seq(Slots), mixer : Seq(Melems), told : [Names -> Views], torn : SUBSET Names,
   err : BOOLEAN, abort : BOOLEAN]

Well(x) ==
  /\ compare \in {"default", "fast"} /\ card \in Cards /\ x \in Shapes
  /\ StrictlySorted(Keys(x.elems)) /\ StrictlySorted(MixerNames(x))

Cached(x, h) == \E e \in Range(x.elems) : e.h = h

(* A control's bag and the element's name one another, each once.          *)
Linked(x) ==
  /\ \A h : Cached(x, h) => IsInjective(BagOf(x, h))
  /\ \A n : Exists(x, n) => /\ IsInjective(Elem(x, n).helems)
                           /\ \A h \in Range(Elem(x, n).helems) : Cached(x, h)
  /\ \A h, n : Cached(x, h) =>
       (n \in Range(BagOf(x, h)) <=> Exists(x, n) /\ h \in Range(Elem(x, n).helems))

(* The controls an element is made of are those it lists, each in the      *)
(* place of its type.                                                      *)
Fit(s) ==
  /\ \A t \in Types : s.ctls[t] # NoControl =>
       s.ctls[t] \in Range(s.helems) /\ Control[s.ctls[t][1]].type = t
  /\ \A h \in Range(s.helems) : s.ctls[Control[h[1]].type] = h

(* The application knows what the element holds, but for what a set read   *)
(* and did not say, and for one that could not be read and cannot be until *)
(* a control of it is removed.                                             *)
Heard(x, n) ==
  \/ x.told[n] = View(Elem(x, n))
  \/ x.told[n].unsaid
  \/ n \in x.torn /\ Fails(Elem(x, n), card)

Sound(x, n) == Elem(x, n).helems # <<>> /\ Fit(Elem(x, n)) /\ Heard(x, n)

(* All of it, except perhaps that one element is being made or taken apart.*)
GoodBut(x, m) == Well(x) /\ Linked(x) /\ \A n : Exists(x, n) /\ n # m => Sound(x, n)
Good(x) == Well(x) /\ Linked(x) /\ \A n : Exists(x, n) => Sound(x, n)

------------------------------------------------------------------------------
(* The inductive invariant.  Numbers are given once: the handles there are *)
(* anywhere are as old as the card's next number, and no two of them have  *)
(* the same number.                                                        *)
KnownOf(es, q, hd, k) ==
  {e.h : e \in Range(es)} \union {ev.h : ev \in Range(q)} \union ({hd.h} \ {NoControl})
  \union {<<c, k[c].numid>> : c \in {d \in Controls : k[d].numid # 0}}

Known == KnownOf(elems, queue, hand, card)

NumbersOnce ==
  /\ Known \subseteq RealHandles
  /\ \A h \in Known : h[2] < fresh
  /\ \A h, g \in Known : h[2] = g[2] => h = g

KernelOK ==
  /\ card \in Cards /\ changes \in 0 .. MaxChanges
  /\ fresh \in Nat /\ fresh <= Cardinality(Controls) + 1 + changes
  /\ \A c \in Controls : card[c].numid < fresh
  /\ queue \in Seq([h : RealHandles, mask : SUBSET REMOVE])
  /\ hand \in [h : Handles, mask : SUBSET REMOVE] /\ (phase = "popped" => hand.h # NoControl)

PhaseOK ==
  /\ compare \in {"default", "fast"} /\ registered \in BOOLEAN /\ subscribed \in BOOLEAN
  /\ phase \in {"new", "listed", "filled", "idle", "popped", "failed", "dead", "closed"}
  /\ missed \subseteq Controls
  /\ phase = "new" => elems = <<>> /\ mixer = <<>>

MixerInv == KernelOK /\ NumbersOnce /\ PhaseOK /\ Good(Now)

(* A function on 1 .. n is a sequence.                                     *)
LEMMA FunSeq ==
  ASSUME NEW S, NEW n \in Nat, NEW f \in [1 .. n -> S]
  PROVE  f \in Seq(S) /\ Len(f) = n /\ DOMAIN f = 1 .. n
  OBVIOUS

(* Names are numbers, and a control has names and a type.                  *)
LEMMA NamesInt ==
  /\ Names \subseteq Int
  /\ \A c \in Controls : /\ Control[c].elems \in Seq(Names) /\ Control[c].type \in Types
                         /\ \A i \in 1 .. Len(Control[c].elems) : Control[c].elems[i] \in Names
  <1>1. ASSUME NEW c \in Controls
        PROVE  /\ Control[c].elems \in Seq(Int) /\ Control[c].type \in Types
               /\ Range(Control[c].elems) \subseteq Int /\ Range(Control[c].elems) \subseteq Names
    <2>1. Control[c].elems \in Seq(Int) /\ Control[c].type \in Types BY ControlAssumption
    <2>2. \A i \in DOMAIN Control[c].elems : Control[c].elems[i] \in Int BY <2>1, ElementOfSeq
    <2> QED BY <2>1, <2>2 DEF Range, Names
  <1>2. Names \subseteq Int BY <1>1 DEF Names
  <1>3. ASSUME NEW c \in Controls PROVE Control[c].elems \in Seq(Names)
    <2> DEFINE to == Control[c].elems
    <2>1. to \in Seq(Int) /\ Range(to) \subseteq Names BY <1>1
    <2> HIDE DEF to
    <2>2. Len(to) \in Nat /\ to \in [1 .. Len(to) -> Int] BY <2>1
    <2>3. to \in [1 .. Len(to) -> Names] BY <2>1, <2>2 DEF Range
    <2> QED BY <2>2, <2>3 DEF to
  <1> QED BY <1>1, <1>2, <1>3, ElementOfSeq

(* There are finitely many controls.                                       *)
LEMMA CountNat == Cardinality(Controls) \in Nat /\ Controls \subseteq Nat \ {0} /\ IsFiniteSet(Controls)
  BY ControlAssumption, FS_CardinalityType

(* A handle is a control with a number of its own, and its key is a        *)
(* number.                                                                 *)
LEMMA HandlesInt ==
  ASSUME NEW h \in RealHandles
  PROVE  /\ h[1] \in Controls /\ h[1] \in Int /\ h[2] \in Nat \ {0} /\ h = <<h[1], h[2]>> /\ h # NoControl
         /\ h \in Handles /\ (compare \in {"default", "fast"} => Key(h) \in Int)
  <1>1. h[1] \in Controls /\ h[2] \in 1 .. Cardinality(Controls) + MaxChanges /\ h = <<h[1], h[2]>>
    BY DEF RealHandles
  <1>2. h[2] \in Nat \ {0} BY <1>1, CountNat, MixerAssumption
  <1>3. h[1] \in Nat \ {0} BY <1>1, CountNat
  <1>4. h # NoControl BY <1>1, <1>3 DEF NoControl
  <1>5. h \in Handles BY <1>1 DEF Handles
  <1>6. Key(h) \in Int BY <1>2, <1>3 DEF Key, Place
  <1> QED BY <1>1, <1>2, <1>3, <1>4, <1>5, <1>6

(* There is one handle more, that of no control.                           *)
LEMMA HandlesAre == Handles = {NoControl} \union RealHandles
  BY DEF Handles, RealHandles

(* The keys of the cache.                                                  *)
LEMMA KeysAre ==
  ASSUME NEW es \in Seq(Slots), compare \in {"default", "fast"}
  PROVE  /\ Keys(es) \in Seq(Int) /\ Len(Keys(es)) = Len(es)
         /\ \A i \in 1 .. Len(es) : Keys(es)[i] = Key(es[i].h) /\ es[i] \in Slots /\ es[i].h \in RealHandles
  <1>1. Len(es) \in Nat /\ DOMAIN es = 1 .. Len(es) BY LenProperties
  <1>2. \A i \in 1 .. Len(es) : es[i] \in Slots /\ es[i].h \in RealHandles
    <2> SUFFICES ASSUME NEW i \in 1 .. Len(es) PROVE es[i] \in Slots /\ es[i].h \in RealHandles OBVIOUS
    <2>1. es[i] \in Slots BY ElementOfSeq
    <2> QED BY <2>1 DEF Slots
  <1>3. \A i \in 1 .. Len(es) : Key(es[i].h) \in Int BY <1>2, HandlesInt
  <1>4. Keys(es) \in [1 .. Len(es) -> Int] BY <1>1, <1>3 DEF Keys
  <1>5. \A i \in 1 .. Len(es) : Keys(es)[i] = Key(es[i].h) BY <1>1 DEF Keys
  <1> QED BY <1>1, <1>2, <1>4, <1>5, FunSeq

(* The names of the elements.                                              *)
LEMMA NamesAre ==
  ASSUME NEW x \in Shapes
  PROVE  /\ MixerNames(x) \in Seq(Int) /\ Len(MixerNames(x)) = Len(x.mixer)
         /\ \A i \in 1 .. Len(x.mixer) :
              /\ MixerNames(x)[i] = x.mixer[i].name /\ x.mixer[i] \in Melems
              /\ x.mixer[i].name \in Names /\ x.mixer[i].s \in Selems
  <1>0. x.mixer \in Seq(Melems) BY DEF Shapes
  <1>1. Len(x.mixer) \in Nat /\ DOMAIN x.mixer = 1 .. Len(x.mixer) BY <1>0, LenProperties
  <1>2. \A i \in 1 .. Len(x.mixer) : x.mixer[i] \in Melems /\ x.mixer[i].name \in Names /\ x.mixer[i].s \in Selems
    <2> SUFFICES ASSUME NEW i \in 1 .. Len(x.mixer)
                 PROVE  x.mixer[i] \in Melems /\ x.mixer[i].name \in Names /\ x.mixer[i].s \in Selems
      OBVIOUS
    <2>1. x.mixer[i] \in Melems BY <1>0, ElementOfSeq
    <2> QED BY <2>1 DEF Melems
  <1>4. MixerNames(x) \in [1 .. Len(x.mixer) -> Int] BY <1>1, <1>2, NamesInt DEF MixerNames
  <1>5. \A i \in 1 .. Len(x.mixer) : MixerNames(x)[i] = x.mixer[i].name BY <1>1 DEF MixerNames
  <1> QED BY <1>1, <1>2, <1>4, <1>5, FunSeq

(* An element is where its name is, and a control's bag where its handle.  *)
LEMMA ElemAt ==
  ASSUME NEW x, Well(x), NEW i \in 1 .. Len(x.mixer)
  PROVE  LET n == x.mixer[i].name
         IN Exists(x, n) /\ IndexOf(x, n) = i /\ Elem(x, n) = x.mixer[i].s
  <1> DEFINE n == x.mixer[i].name
  <1>0. x \in Shapes /\ StrictlySorted(MixerNames(x)) BY DEF Well
  <1>1. Len(x.mixer) \in Nat /\ DOMAIN x.mixer = 1 .. Len(x.mixer)
    <2>1. x.mixer \in Seq(Melems) BY <1>0 DEF Shapes
    <2> QED BY <2>1, LenProperties
  <1>2. \A j \in 1 .. Len(x.mixer) : x.mixer[j].name = n => j = i
    <2> SUFFICES ASSUME NEW j \in 1 .. Len(x.mixer), x.mixer[j].name = n PROVE j = i OBVIOUS
    <2>1. MixerNames(x) \in Seq(Int) /\ MixerNames(x)[i] = n /\ MixerNames(x)[j] = n
          /\ Len(MixerNames(x)) = Len(x.mixer) /\ MixerNames(x)[i] \in Int
      BY <1>0, NamesAre, ElementOfSeq
    <2>2. ~(i < j) /\ ~(j < i) BY <1>0, <2>1, SortedApart
    <2> QED BY <2>2, <1>1
  <1> HIDE DEF n
  <1>3. Exists(x, n) BY <1>1 DEF Exists, n
  <1>4. IndexOf(x, n) = i
    <2>1. \A j \in DOMAIN x.mixer : x.mixer[j].name = n <=> j = i BY <1>1, <1>2 DEF n
    <2> QED BY <2>1, <1>1 DEF IndexOf
  <1>5. Elem(x, n) = x.mixer[i].s BY <1>4 DEF Elem
  <1> QED BY <1>3, <1>4, <1>5 DEF n

(* An element that exists is at the place of its name.                     *)
LEMMA ElemOf ==
  ASSUME NEW x, Well(x), NEW n, Exists(x, n)
  PROVE  /\ IndexOf(x, n) \in 1 .. Len(x.mixer) /\ x.mixer[IndexOf(x, n)].name = n
         /\ n \in Names /\ Elem(x, n) \in Selems
  <1>0. x \in Shapes BY DEF Well
  <1>1. DOMAIN x.mixer = 1 .. Len(x.mixer)
    <2>1. x.mixer \in Seq(Melems) BY <1>0 DEF Shapes
    <2> QED BY <2>1, LenProperties
  <1>2. PICK i \in 1 .. Len(x.mixer) : x.mixer[i].name = n BY <1>1 DEF Exists
  <1>3. IndexOf(x, n) = i /\ Elem(x, n) = x.mixer[i].s BY <1>2, ElemAt
  <1> QED BY <1>0, <1>2, <1>3, NamesAre

(* A slot of the cache is the only one of its handle.                      *)
LEMMA SlotAt ==
  ASSUME NEW x, Well(x), NEW i \in 1 .. Len(x.elems)
  PROVE  LET h == x.elems[i].h
         IN /\ Cached(x, h) /\ BagOf(x, h) = x.elems[i].bag
            /\ \A j \in 1 .. Len(x.elems) : x.elems[j].h = h => j = i
  <1> DEFINE h == x.elems[i].h
  <1>0. x.elems \in Seq(Slots) /\ StrictlySorted(Keys(x.elems)) /\ compare \in {"default", "fast"}
    BY DEF Well, Shapes
  <1>1. Len(x.elems) \in Nat /\ DOMAIN x.elems = 1 .. Len(x.elems) BY <1>0, LenProperties
  <1>2. \A j \in 1 .. Len(x.elems) : x.elems[j].h = h => j = i
    <2> SUFFICES ASSUME NEW j \in 1 .. Len(x.elems), x.elems[j].h = h PROVE j = i OBVIOUS
    <2>1. Keys(x.elems) \in Seq(Int) /\ Keys(x.elems)[i] = Key(h) /\ Keys(x.elems)[j] = Key(h)
          /\ Len(Keys(x.elems)) = Len(x.elems) /\ Keys(x.elems)[i] \in Int
      BY <1>0, KeysAre, ElementOfSeq
    <2>2. ~(i < j) /\ ~(j < i)
      <3> DEFINE ks == Keys(x.elems)
      <3>1. ks \in Seq(Int) /\ StrictlySorted(ks) /\ i \in 1 .. Len(ks) /\ j \in 1 .. Len(ks)
            /\ ks[i] = ks[j] /\ ks[i] \in Int
        BY <1>0, <2>1
      <3> HIDE DEF ks
      <3> QED BY <3>1, SortedApart
    <2> QED BY <2>2, <1>1
  <1> HIDE DEF h
  <1>3. Cached(x, h) BY <1>1 DEF Cached, Range, h
  <1>4. \A e \in Range(x.elems) : e.h = h <=> e = x.elems[i]
    BY <1>1, <1>2 DEF Range, h
  <1>5. x.elems[i] \in Range(x.elems) BY <1>1 DEF Range
  <1>6. BagOf(x, h) = x.elems[i].bag BY <1>4, <1>5 DEF BagOf
  <1> QED BY <1>2, <1>3, <1>6 DEF h

(* A cached handle has a slot.                                             *)
LEMMA SlotOf ==
  ASSUME NEW x, Well(x), NEW h, Cached(x, h)
  PROVE  \E i \in 1 .. Len(x.elems) : /\ x.elems[i].h = h /\ BagOf(x, h) = x.elems[i].bag
                                      /\ h \in RealHandles /\ BagOf(x, h) \in Seq(Names)
  <1>0. x.elems \in Seq(Slots) BY DEF Well, Shapes
  <1>1. DOMAIN x.elems = 1 .. Len(x.elems) BY <1>0, LenProperties
  <1>2. PICK i \in 1 .. Len(x.elems) : x.elems[i].h = h BY <1>1 DEF Cached, Range
  <1>3. BagOf(x, h) = x.elems[i].bag BY <1>2, SlotAt
  <1>4. x.elems[i] \in Slots BY <1>0, ElementOfSeq
  <1>5. x.elems[i].h \in RealHandles /\ x.elems[i].bag \in Seq(Names) BY <1>4 DEF Slots
  <1> QED BY <1>2, <1>3, <1>5

Rest(x, y) == y.err = x.err /\ y.abort = x.abort /\ y.told = x.told /\ y.torn = x.torn

(* The first of the updates: what an element is.                           *)
LEMMA WithElemIs ==
  ASSUME NEW x, Well(x), NEW n, Exists(x, n), NEW s \in Selems
  PROVE  LET y == WithElem(x, n, s)
         IN  /\ Well(y) /\ Rest(x, y) /\ y.elems = x.elems
             /\ \A m : Exists(y, m) <=> Exists(x, m)
             /\ \A m : Exists(x, m) => Elem(y, m) = IF m = n THEN s ELSE Elem(x, m)
  <1> DEFINE y == WithElem(x, n, s)
             i == IndexOf(x, n)
             e == [x.mixer[i] EXCEPT !.s = s]
             new == [x.mixer EXCEPT ![i] = e]
  <1>0. x \in Shapes /\ x.mixer \in Seq(Melems) BY DEF Well, Shapes
  <1>1. i \in 1 .. Len(x.mixer) /\ x.mixer[i].name = n BY ElemOf
  <1>2. y = [x EXCEPT !.mixer = new] BY DEF WithElem
  <1>3. e \in Melems /\ e.name = n /\ e.s = s
    <2>1. x.mixer[i] \in Melems BY <1>0, <1>1, NamesAre
    <2> HIDE DEF i
    <2> QED BY <2>1, <1>1 DEF Melems
  <1> HIDE DEF y, e
  <1>4. new \in Seq(Melems) /\ Len(new) = Len(x.mixer)
        /\ \A j \in 1 .. Len(x.mixer) : new[j] = IF j = i THEN e ELSE x.mixer[j]
    <2> HIDE DEF i
    <2> QED BY <1>0, <1>1, <1>3, ExceptSeq
  <1> HIDE DEF new, i
  <1>5. y \in Shapes /\ y.mixer = new /\ y.elems = x.elems /\ Rest(x, y)
    BY <1>0, <1>2, <1>4 DEF Shapes, Rest
  <1>6. Len(new) \in Nat /\ DOMAIN new = 1 .. Len(new) /\ DOMAIN x.mixer = 1 .. Len(x.mixer)
    BY <1>0, <1>4, LenProperties
  <1>7. \A j \in 1 .. Len(x.mixer) : new[j].name = x.mixer[j].name BY <1>1, <1>3, <1>4
  <1>8. MixerNames(y) = MixerNames(x) BY <1>4, <1>5, <1>6, <1>7 DEF MixerNames
  <1>9. Well(y) BY <1>5, <1>8 DEF Well
  <1>10. \A m : Exists(y, m) <=> Exists(x, m) BY <1>4, <1>5, <1>6, <1>7 DEF Exists
  <1>11. ASSUME NEW m, Exists(x, m) PROVE Elem(y, m) = IF m = n THEN s ELSE Elem(x, m)
    <2> DEFINE j == IndexOf(x, m)
    <2>1. j \in 1 .. Len(x.mixer) /\ x.mixer[j].name = m BY <1>11, ElemOf
    <2>2. Elem(x, m) = x.mixer[j].s BY DEF Elem
    <2> HIDE DEF j
    <2>3. Elem(y, m) = new[j].s BY <2>1, <1>4, <1>5, <1>7, <1>9, ElemAt
    <2>4. j = i <=> m = n
      <3>1. IndexOf(x, x.mixer[j].name) = j BY <2>1, ElemAt
      <3> QED BY <1>1, <2>1, <3>1 DEF i
    <2> QED BY <2>1, <2>2, <2>3, <2>4, <1>3, <1>4
  <1> QED BY <1>5, <1>9, <1>10, <1>11 DEF y

(* Setting the bag of one control leaves the others alone.                 *)
LEMMA WithBagIs ==
  ASSUME NEW x, Well(x), NEW h, Cached(x, h), NEW bag \in Seq(Names)
  PROVE  LET y == WithBag(x, h, bag)
         IN  /\ Well(y) /\ Rest(x, y) /\ y.mixer = x.mixer
             /\ \A g : Cached(y, g) <=> Cached(x, g)
             /\ \A g : Cached(x, g) => BagOf(y, g) = IF g = h THEN bag ELSE BagOf(x, g)
  <1> DEFINE y == WithBag(x, h, bag)
             with(e) == IF e.h = h THEN [e EXCEPT !.bag = bag] ELSE e
             new == [i \in DOMAIN x.elems |-> with(x.elems[i])]
  <1>0. x \in Shapes /\ x.elems \in Seq(Slots) /\ compare \in {"default", "fast"} BY DEF Well, Shapes
  <1>1. Len(x.elems) \in Nat /\ DOMAIN x.elems = 1 .. Len(x.elems) BY <1>0, LenProperties
  <1>2. y = [x EXCEPT !.elems = new] BY Zenon DEF WithBag
  <1>3. \A e \in Slots : with(e) \in Slots /\ with(e).h = e.h
                         /\ with(e).bag = IF e.h = h THEN bag ELSE e.bag
    BY DEF Slots
  <1>4. \A i \in 1 .. Len(x.elems) : x.elems[i] \in Slots /\ new[i] = with(x.elems[i])
    <2> HIDE DEF with
    <2> QED BY <1>0, <1>1, ElementOfSeq
  <1> HIDE DEF with
  <1>5. new \in [1 .. Len(x.elems) -> Slots] BY <1>1, <1>3, <1>4
  <1>6. new \in Seq(Slots) /\ Len(new) = Len(x.elems) /\ DOMAIN new = 1 .. Len(x.elems)
    <2> HIDE DEF new
    <2> QED BY <1>1, <1>5, FunSeq
  <1> HIDE DEF new, y
  <1>7. y \in Shapes /\ y.elems = new /\ y.mixer = x.mixer /\ Rest(x, y)
    BY <1>0, <1>2, <1>6 DEF Shapes, Rest
  <1>8. \A i \in 1 .. Len(x.elems) : new[i].h = x.elems[i].h
                                     /\ new[i].bag = IF x.elems[i].h = h THEN bag ELSE x.elems[i].bag
    BY <1>3, <1>4
  <1>9. Keys(y.elems) = Keys(x.elems) BY <1>1, <1>6, <1>7, <1>8 DEF Keys
  <1>10. MixerNames(y) = MixerNames(x) BY <1>7 DEF MixerNames
  <1>11. Well(y) BY <1>7, <1>9, <1>10 DEF Well
  <1>12. \A g : Cached(y, g) <=> Cached(x, g) BY <1>1, <1>6, <1>7, <1>8 DEF Cached, Range
  <1>13. ASSUME NEW g, Cached(x, g) PROVE BagOf(y, g) = IF g = h THEN bag ELSE BagOf(x, g)
    <2>1. PICK i \in 1 .. Len(x.elems) : x.elems[i].h = g /\ BagOf(x, g) = x.elems[i].bag
      BY <1>13, SlotOf
    <2>2. BagOf(y, g) = new[i].bag BY <2>1, <1>6, <1>7, <1>8, <1>11, SlotAt
    <2> QED BY <2>1, <2>2, <1>8
  <1> QED BY <1>7, <1>11, <1>12, <1>13 DEF y

(* A callback tells of one element and changes no other.                   *)
LEMMA TellIs ==
  ASSUME NEW x, Well(x), NEW n, Exists(x, n)
  PROVE  LET y == Tell(x, n)
         IN  /\ Well(y) /\ y.elems = x.elems /\ y.mixer = x.mixer
             /\ y.err = x.err /\ y.abort = x.abort /\ y.torn = x.torn
             /\ \A m \in Names : y.told[m] = IF m = n THEN View(Elem(x, n)) ELSE x.told[m]
  <1> DEFINE y == Tell(x, n)
             v == View(Elem(x, n))
             new == [x.told EXCEPT ![n] = v]
  <1>0. x \in Shapes BY DEF Well
  <1>1. n \in Names /\ v \in Views
    <2>1. n \in Names /\ Elem(x, n) \in Selems BY ElemOf
    <2> QED BY <2>1 DEF Selems, View, Views
  <1>2. y = [x EXCEPT !.told = new] BY DEF Tell, View
  <1> HIDE DEF v
  <1>3. new \in [Names -> Views] /\ \A m \in Names : new[m] = IF m = n THEN v ELSE x.told[m]
    BY <1>0, <1>1 DEF Shapes
  <1> HIDE DEF new, y
  <1>4. y \in Shapes /\ y.elems = x.elems /\ y.mixer = x.mixer /\ y.told = new
        /\ y.err = x.err /\ y.abort = x.abort /\ y.torn = x.torn
    BY <1>0, <1>2, <1>3 DEF Shapes
  <1>5. Well(y) BY <1>4 DEF Well, MixerNames
  <1> QED BY <1>3, <1>4, <1>5 DEF y, v

(* What the lookups give depends on the two arrays alone.                  *)
LEMMA SameMixer ==
  ASSUME NEW x, NEW y, y.mixer = x.mixer
  PROVE  (\A n : Exists(y, n) <=> Exists(x, n)) /\ (\A n : Elem(y, n) = Elem(x, n)) /\ MixerNames(y) = MixerNames(x)
  BY DEF Exists, Elem, IndexOf, MixerNames

(* What is cached depends on the cache alone.                              *)
LEMMA SameElems ==
  ASSUME NEW x, NEW y, y.elems = x.elems
  PROVE  (\A h : Cached(y, h) <=> Cached(x, h)) /\ (\A h : BagOf(y, h) = BagOf(x, h))
  BY DEF Cached, BagOf

(* What the arrays are and how they are linked depends on them alone.      *)
LEMMA SameArrays ==
  ASSUME NEW x, NEW y, Well(x), y \in Shapes, y.elems = x.elems, y.mixer = x.mixer
  PROVE  Well(y) /\ (Linked(x) => Linked(y))
  <1>1. Well(y) BY SameMixer DEF Well
  <1>2. (\A n : Exists(y, n) <=> Exists(x, n)) /\ (\A n : Elem(y, n) = Elem(x, n)) BY SameMixer
  <1>3. (\A h : Cached(y, h) <=> Cached(x, h)) /\ (\A h : BagOf(y, h) = BagOf(x, h)) BY SameElems
  <1>4. Linked(x) => Linked(y) BY <1>2, <1>3 DEF Linked
  <1> QED BY <1>1, <1>4

(* A control and an element, tied and untied: all else stays.              *)
Tied(x, y, h, n, s, bag) ==
  /\ Well(y) /\ Rest(x, y)
  /\ \A m : Exists(y, m) <=> Exists(x, m)
  /\ \A g : Cached(y, g) <=> Cached(x, g)
  /\ \A m : Exists(x, m) => Elem(y, m) = IF m = n THEN s ELSE Elem(x, m)
  /\ \A g : Cached(x, g) => BagOf(y, g) = IF g = h THEN bag ELSE BagOf(x, g)

(* Setting a bag and an element touches these two.                         *)
LEMMA TiedIs ==
  ASSUME NEW x, Well(x), NEW h, Cached(x, h), NEW n, Exists(x, n), NEW s \in Selems, NEW bag \in Seq(Names)
  PROVE  Tied(x, WithBag(WithElem(x, n, s), h, bag), h, n, s, bag)
  <1> DEFINE z == WithElem(x, n, s)
             y == WithBag(z, h, bag)
  <1>1. /\ Well(z) /\ Rest(x, z) /\ z.elems = x.elems
        /\ \A m : Exists(z, m) <=> Exists(x, m)
        /\ \A m : Exists(x, m) => Elem(z, m) = IF m = n THEN s ELSE Elem(x, m)
    BY WithElemIs
  <1> HIDE DEF z
  <1>2. (\A g : Cached(z, g) <=> Cached(x, g)) /\ (\A g : BagOf(z, g) = BagOf(x, g)) BY <1>1, SameElems
  <1>3. /\ Well(y) /\ Rest(z, y) /\ y.mixer = z.mixer
        /\ \A g : Cached(y, g) <=> Cached(z, g)
        /\ \A g : Cached(z, g) => BagOf(y, g) = IF g = h THEN bag ELSE BagOf(z, g)
    BY <1>1, <1>2, WithBagIs
  <1> HIDE DEF y
  <1>4. (\A m : Exists(y, m) <=> Exists(z, m)) /\ (\A m : Elem(y, m) = Elem(z, m)) BY <1>3, SameMixer
  <1>5. Rest(x, y) BY <1>1, <1>3 DEF Rest
  <1>6. Tied(x, y, h, n, s, bag) BY <1>1, <1>2, <1>3, <1>4, <1>5 DEF Tied
  <1> QED BY <1>6 DEF y, z

(* Setting the list of an element leaves its values and types alone.       *)
LEMMA HelemsIs ==
  ASSUME NEW s \in Selems, NEW hs \in Seq(RealHandles)
  PROVE  LET r == [s EXCEPT !.helems = hs]
         IN  /\ r \in Selems /\ r.helems = hs /\ r.ctls = s.ctls /\ r.item = s.item
             /\ r.vol = s.vol /\ r.sw = s.sw
  BY DEF Selems

With(x, h, n) == [Elem(x, n) EXCEPT !.helems = Append(@, h)]
Without(x, h, n) == [Elem(x, n) EXCEPT !.helems = RemoveFirst(@, h)]

(* Attaching links control and element both ways.                          *)
LEMMA AttachIs ==
  ASSUME NEW x, Well(x), NEW h, Cached(x, h), NEW n, Exists(x, n), Linked(x),
         h \notin Range(Elem(x, n).helems)
  PROVE  /\ Tied(x, Attach(x, h, n), h, n, With(x, h, n), Append(BagOf(x, h), n))
         /\ With(x, h, n) \in Selems /\ Range(With(x, h, n).helems) = Range(Elem(x, n).helems) \union {h}
         /\ Linked(Attach(x, h, n))
  <1> DEFINE s0 == Elem(x, n)
             hs == Append(s0.helems, h)
             s == [s0 EXCEPT !.helems = hs]
             bag == Append(BagOf(x, h), n)
             y == Attach(x, h, n)
  <1>1. s0 \in Selems /\ n \in Names BY ElemOf
  <1>2. h \in RealHandles /\ BagOf(x, h) \in Seq(Names) BY SlotOf
  <1>3. IsInjective(BagOf(x, h)) /\ IsInjective(s0.helems) /\ n \notin Range(BagOf(x, h))
        /\ h \notin Range(s0.helems)
    BY DEF Linked
  <1>4. bag \in Seq(Names) /\ IsInjective(bag) /\ Range(bag) = Range(BagOf(x, h)) \union {n}
    BY <1>1, <1>2, <1>3, BagAddIs
  <1>5. hs \in Seq(RealHandles) /\ IsInjective(hs) /\ Range(hs) = Range(s0.helems) \union {h}
    <2>1. s0.helems \in Seq(RealHandles) BY <1>1 DEF Selems
    <2> HIDE DEF s0
    <2> QED BY <1>2, <1>3, <2>1, BagAddIs
  <1>6. s \in Selems /\ s.helems = hs
    <2> HIDE DEF s0, hs
    <2> QED BY <1>1, <1>5, HelemsIs
  <1>7. y = WithBag(WithElem(x, n, s), h, bag) BY Zenon DEF Attach
  <1> HIDE DEF s, bag, y, hs
  <1>8. Tied(x, y, h, n, s, bag) BY <1>4, <1>6, <1>7, TiedIs
  <1>9. Linked(y)
    <2>1. \A m : Exists(y, m) => IsInjective(Elem(y, m).helems)
      BY <1>5, <1>6, <1>8 DEF Tied, Linked
    <2>2. \A m : Exists(y, m) => \A g \in Range(Elem(y, m).helems) : Cached(y, g)
      BY <1>5, <1>6, <1>8 DEF Tied, Linked
    <2>3. \A g : Cached(y, g) => IsInjective(BagOf(y, g))
      BY <1>4, <1>8 DEF Tied, Linked
    <2>4. ASSUME NEW g, NEW m, Cached(y, g)
          PROVE  m \in Range(BagOf(y, g)) <=> Exists(y, m) /\ g \in Range(Elem(y, m).helems)
      <3>1. Cached(x, g) /\ (Exists(y, m) <=> Exists(x, m)) BY <2>4, <1>8 DEF Tied
      <3>2. m \in Range(BagOf(x, g)) <=> Exists(x, m) /\ g \in Range(Elem(x, m).helems)
        BY <3>1 DEF Linked
      <3>3. m \in Range(BagOf(y, g)) <=> m \in Range(BagOf(x, g)) \/ (g = h /\ m = n)
        BY <3>1, <1>4, <1>8 DEF Tied
      <3>4. Exists(x, m) => (g \in Range(Elem(y, m).helems)
                               <=> g \in Range(Elem(x, m).helems) \/ (g = h /\ m = n))
        BY <1>5, <1>6, <1>8 DEF Tied
      <3> QED BY <3>1, <3>2, <3>3, <3>4
    <2> QED BY <2>1, <2>2, <2>3, <2>4 DEF Linked
  <1>10. s = With(x, h, n) BY Zenon DEF s, hs, With
  <1> QED BY <1>5, <1>6, <1>8, <1>9, <1>10 DEF bag, y

(* Detaching unlinks them both ways.                                       *)
LEMMA DetachIs ==
  ASSUME NEW x, Well(x), NEW h, Cached(x, h), NEW n, Exists(x, n), Linked(x)
  PROVE  /\ Tied(x, Detach(x, h, n), h, n, Without(x, h, n), RemoveFirst(BagOf(x, h), n))
         /\ Without(x, h, n) \in Selems
         /\ Range(Without(x, h, n).helems) = Range(Elem(x, n).helems) \ {h}
         /\ Linked(Detach(x, h, n))
  <1> DEFINE s0 == Elem(x, n)
             hs == RemoveFirst(s0.helems, h)
             s == [s0 EXCEPT !.helems = hs]
             bag == RemoveFirst(BagOf(x, h), n)
             y == Detach(x, h, n)
  <1>1. s0 \in Selems /\ n \in Names BY ElemOf
  <1>2. h \in RealHandles /\ BagOf(x, h) \in Seq(Names) BY SlotOf
  <1>3. IsInjective(BagOf(x, h)) /\ IsInjective(s0.helems)
    BY DEF Linked
  <1>4. bag \in Seq(Names) /\ IsInjective(bag) /\ Range(bag) = Range(BagOf(x, h)) \ {n}
    BY <1>1, <1>2, <1>3, BagDelIs
  <1>5. hs \in Seq(RealHandles) /\ IsInjective(hs) /\ Range(hs) = Range(s0.helems) \ {h}
    <2>1. s0.helems \in Seq(RealHandles) BY <1>1 DEF Selems
    <2> HIDE DEF s0
    <2> QED BY <1>2, <1>3, <2>1, BagDelIs
  <1>6. s \in Selems /\ s.helems = hs
    <2> HIDE DEF s0, hs
    <2> QED BY <1>1, <1>5, HelemsIs
  <1>7. y = WithBag(WithElem(x, n, s), h, bag) BY Zenon DEF Detach
  <1> HIDE DEF s, bag, y, hs
  <1>8. Tied(x, y, h, n, s, bag) BY <1>4, <1>6, <1>7, TiedIs
  <1>9. Linked(y)
    <2>1. \A m : Exists(y, m) => IsInjective(Elem(y, m).helems)
      BY <1>5, <1>6, <1>8 DEF Tied, Linked
    <2>2. \A m : Exists(y, m) => \A g \in Range(Elem(y, m).helems) : Cached(y, g)
      BY <1>5, <1>6, <1>8 DEF Tied, Linked
    <2>3. \A g : Cached(y, g) => IsInjective(BagOf(y, g))
      BY <1>4, <1>8 DEF Tied, Linked
    <2>4. ASSUME NEW g, NEW m, Cached(y, g)
          PROVE  m \in Range(BagOf(y, g)) <=> Exists(y, m) /\ g \in Range(Elem(y, m).helems)
      <3>1. Cached(x, g) /\ (Exists(y, m) <=> Exists(x, m)) BY <2>4, <1>8 DEF Tied
      <3>2. m \in Range(BagOf(x, g)) <=> Exists(x, m) /\ g \in Range(Elem(x, m).helems)
        BY <3>1 DEF Linked
      <3>3. m \in Range(BagOf(y, g)) <=> m \in Range(BagOf(x, g)) /\ ~(g = h /\ m = n)
        BY <3>1, <1>4, <1>8 DEF Tied
      <3>4. Exists(x, m) => (g \in Range(Elem(y, m).helems)
                               <=> g \in Range(Elem(x, m).helems) /\ ~(g = h /\ m = n))
        BY <1>5, <1>6, <1>8 DEF Tied
      <3> QED BY <3>1, <3>2, <3>3, <3>4
    <2> QED BY <2>1, <2>2, <2>3, <2>4 DEF Linked
  <1>10. s = Without(x, h, n) BY Zenon DEF s, hs, Without
  <1> QED BY <1>5, <1>6, <1>8, <1>9, <1>10 DEF bag, y

(* A new element has no control.                                           *)
LEMMA NewElemIs ==
  NewElem \in Selems /\ Fit(NewElem) /\ NewElem.helems = <<>> /\ \A t \in Types : ~Has(NewElem, t)
  <1>1. NewElem.ctls = [t \in Types |-> NoControl] /\ NewElem.helems = <<>> /\ NewElem.item = 0
        /\ NewElem.vol = [d \in Dirs |-> 0] /\ NewElem.sw = [d \in Dirs |-> FALSE]
    BY DEF NewElem
  <1>2. NewElem \in Selems
    <2>1. 0 \in Values /\ NoControl \in Handles BY MixerAssumption DEF Handles
    <2>2. <<>> \in Seq(RealHandles) BY EmptySeq
    <2> QED BY <2>1, <2>2 DEF NewElem, Selems
  <1>3. Range(NewElem.helems) = {} BY <1>1 DEF Range
  <1>4. \A t \in Types : NewElem.ctls[t] = NoControl BY <1>1
  <1> QED BY <1>1, <1>2, <1>3, <1>4 DEF Fit, Has

(* A new element has its place among the others.                           *)
LEMMA ElemAddIs ==
  ASSUME NEW x, Well(x), NEW n \in Names, ~Exists(x, n)
  PROVE  LET y == ElemAdd(x, n)
         IN  /\ Well(y) /\ Rest(x, y) /\ y.elems = x.elems
             /\ \A m : Exists(y, m) <=> Exists(x, m) \/ m = n
             /\ Elem(y, n) = NewElem
             /\ \A m : Exists(x, m) => Elem(y, m) = Elem(x, m)
  <1> DEFINE y == ElemAdd(x, n)
             e == [name |-> n, s |-> NewElem]
             ks == MixerNames(x)
             new == Insert(x.mixer, Find(ks, n), e)
  <1>0. x \in Shapes /\ x.mixer \in Seq(Melems) BY DEF Well, Shapes
  <1>1. ks \in Seq(Int) /\ Len(ks) = Len(x.mixer) /\ StrictlySorted(ks) /\ n \in Int
        /\ \A i \in 1 .. Len(x.mixer) : ks[i] = x.mixer[i].name
    BY <1>0, NamesAre, NamesInt DEF Well
  <1>2. Len(x.mixer) \in Nat /\ DOMAIN x.mixer = 1 .. Len(x.mixer) BY <1>0, LenProperties
  <1>3. e \in Melems /\ e.name = n /\ e.s = NewElem BY NewElemIs DEF Melems
  <1>4. y = [x EXCEPT !.mixer = new] BY Zenon DEF ElemAdd
  <1> HIDE DEF ks, e, new, y
  <1>5. ~Found(Find(ks, n))
    <2> SUFFICES ASSUME Found(Find(ks, n)) PROVE FALSE OBVIOUS
    <2>1. Find(ks, n).idx \in 0 .. Len(ks) - 1 /\ ks[Find(ks, n).idx + 1] = n BY <1>1, FoundIs
    <2>2. Find(ks, n).idx + 1 \in 1 .. Len(x.mixer) BY <1>1, <1>2, <2>1
    <2> QED BY <1>1, <1>2, <2>1, <2>2 DEF Exists
  <1>6. PICK at \in 0 .. Len(x.mixer) : /\ new = PutAt(x.mixer, at, e)
                                        /\ at > 0 => ks[at] < n
                                        /\ at < Len(x.mixer) => n < ks[at + 1]
    BY <1>0, <1>1, <1>5, InsertIs DEF new
  <1>7. new \in Seq(Melems) /\ Len(new) = Len(x.mixer) + 1
        /\ \A i \in 1 .. Len(x.mixer) + 1 :
             new[i] = IF i <= at THEN x.mixer[i] ELSE IF i = at + 1 THEN e ELSE x.mixer[i - 1]
    <2> DEFINE put == PutAt(x.mixer, at, e)
    <2>1. put \in Seq(Melems) /\ Len(put) = Len(x.mixer) + 1
          /\ \A i \in 1 .. Len(x.mixer) + 1 :
               put[i] = IF i <= at THEN x.mixer[i] ELSE IF i = at + 1 THEN e ELSE x.mixer[i - 1]
      <3>1. e \in Melems BY <1>3
      <3>2. put \in Seq(Melems) BY <1>0, <3>1, PutAtIs
      <3>3. Len(put) = Len(x.mixer) + 1 BY <1>0, <3>1, PutAtIs
      <3>4. ASSUME NEW i \in 1 .. Len(x.mixer) + 1
            PROVE  put[i] = IF i <= at THEN x.mixer[i] ELSE IF i = at + 1 THEN e ELSE x.mixer[i - 1]
        <4> DEFINE m == x.mixer
        <4>1. m \in Seq(Melems) /\ at \in 0 .. Len(m) /\ i \in 1 .. Len(m) + 1 /\ Len(m) \in Nat /\ at \in Int /\ i \in Int
          BY <1>0, <1>2
        <4> HIDE DEF m
        <4>3. PutAt(m, at, e)[i] = IF i <= at THEN m[i] ELSE IF i = at + 1 THEN e ELSE m[i - 1]
          BY <3>1, <4>1, PutAtEach
        <4> QED BY <4>3 DEF m
      <3> QED BY <3>2, <3>3, <3>4
    <2>2. new = put BY <1>6
    <2> HIDE DEF put
    <2> QED BY <2>1, <2>2
  <1>8. y \in Shapes /\ y.mixer = new /\ y.elems = x.elems /\ Rest(x, y)
    BY <1>0, <1>4, <1>7 DEF Shapes, Rest
  <1>9. MixerNames(y) \in Seq(Int) /\ Len(MixerNames(y)) = Len(ks) + 1
        /\ \A i \in 1 .. Len(ks) + 1 : MixerNames(y)[i] = new[i].name
    BY <1>1, <1>7, <1>8, NamesAre
  <1>10. StrictlySorted(MixerNames(y))
    <2>1. \A i \in 1 .. Len(MixerNames(y)) :
            MixerNames(y)[i] = IF i <= at THEN ks[i] ELSE IF i = at + 1 THEN n ELSE ks[i - 1]
      <3> SUFFICES ASSUME NEW i \in 1 .. Len(ks) + 1
                   PROVE  new[i].name = IF i <= at THEN ks[i] ELSE IF i = at + 1 THEN n ELSE ks[i - 1]
        BY <1>9
      <3>1. i <= at => i \in 1 .. Len(x.mixer) BY <1>1, <1>2
      <3>2. ~(i <= at) /\ i # at + 1 => i - 1 \in 1 .. Len(x.mixer) BY <1>1, <1>2
      <3>3. i \in 1 .. Len(x.mixer) + 1 BY <1>1
      <3>4. new[i] = IF i <= at THEN x.mixer[i] ELSE IF i = at + 1 THEN e ELSE x.mixer[i - 1]
        BY <1>7, <3>3
      <3>5. CASE i <= at BY <1>1, <3>1, <3>4, <3>5
      <3>6. CASE ~(i <= at) /\ i = at + 1 BY <1>3, <3>4, <3>6
      <3>7. CASE ~(i <= at) /\ i # at + 1 BY <1>1, <3>2, <3>4, <3>7
      <3> QED BY <3>5, <3>6, <3>7
    <2> QED BY <1>1, <1>6, <1>9, <2>1, PutSorted
  <1>11. Well(y) BY <1>8, <1>10 DEF Well
  <1>12. at + 1 \in 1 .. Len(new) /\ new[at + 1] = e BY <1>2, <1>7
  <1>13. Exists(y, n) /\ Elem(y, n) = NewElem BY <1>3, <1>8, <1>11, <1>12, ElemAt
  <1>14. ASSUME NEW m, Exists(x, m) PROVE Exists(y, m) /\ Elem(y, m) = Elem(x, m)
    <2>1. PICK i \in 1 .. Len(x.mixer) : x.mixer[i].name = m BY <1>2, <1>14 DEF Exists
    <2>2. Elem(x, m) = x.mixer[i].s BY <2>1, ElemAt
    <2> DEFINE j == IF i <= at THEN i ELSE i + 1
    <2>3. j \in 1 .. Len(new) /\ new[j] = x.mixer[i] BY <1>2, <1>7
    <2> HIDE DEF j
    <2> QED BY <1>8, <1>11, <2>1, <2>2, <2>3, ElemAt
  <1>15. ASSUME NEW m, Exists(y, m), m # n PROVE Exists(x, m)
    <2>1. PICK j \in 1 .. Len(new) : new[j].name = m
      <3>1. DOMAIN new = 1 .. Len(new) BY <1>7, LenProperties
      <3> QED BY <1>8, <1>15, <3>1 DEF Exists
    <2>2. j # at + 1 BY <1>3, <1>12, <1>15, <2>1
    <2> DEFINE i == IF j <= at THEN j ELSE j - 1
    <2>3. i \in 1 .. Len(x.mixer) /\ new[j] = x.mixer[i] BY <1>2, <1>7, <2>2
    <2> HIDE DEF i
    <2> QED BY <1>2, <2>1, <2>3 DEF Exists
  <1> QED BY <1>8, <1>11, <1>13, <1>14, <1>15 DEF y

(* And one that goes leaves no trace.                                      *)
Emptied(y, name) ==
  [y EXCEPT !.mixer = Delete(@, Find(MixerNames(y), name).idx), !.told[name] = Unseen, !.torn = @ \ {name}]

(* An element that goes leaves the others.                                 *)
LEMMA EmptiedIs ==
  ASSUME NEW x, Well(x), NEW n, Exists(x, n)
  PROVE  LET y == Emptied(x, n)
         IN  /\ Well(y) /\ y.elems = x.elems /\ y.err = x.err /\ y.abort = x.abort
             /\ \A m : Exists(y, m) <=> Exists(x, m) /\ m # n
             /\ \A m : Exists(y, m) => Elem(y, m) = Elem(x, m) /\ y.told[m] = x.told[m]
             /\ \A m : m # n => (m \in y.torn <=> m \in x.torn)
  <1> DEFINE y == Emptied(x, n)
             ks == MixerNames(x)
             at == Find(ks, n).idx
             new == Delete(x.mixer, at)
             told1 == [x.told EXCEPT ![n] = Unseen]
             torn1 == x.torn \ {n}
  <1>0. x \in Shapes /\ x.mixer \in Seq(Melems) BY DEF Well, Shapes
  <1>00. n \in Names BY ElemOf
  <1>1. ks \in Seq(Int) /\ Len(ks) = Len(x.mixer) /\ StrictlySorted(ks) /\ n \in Int
        /\ \A i \in 1 .. Len(x.mixer) : ks[i] = x.mixer[i].name
    BY <1>0, <1>00, NamesAre, NamesInt DEF Well
  <1>2. Len(x.mixer) \in Nat /\ DOMAIN x.mixer = 1 .. Len(x.mixer) BY <1>0, LenProperties
  <1>3. y = [x EXCEPT !.mixer = new, !.told = told1, !.torn = torn1] BY DEF Emptied
  <1>4. told1 \in [Names -> Views] /\ (\A m \in Names : m # n => told1[m] = x.told[m]) /\ torn1 \in SUBSET Names
    <2>1. 0 \in Values BY MixerAssumption
    <2>2. Unseen \in Views BY <2>1 DEF Unseen, View, NewElem, Views
    <2> QED BY <1>0, <1>00, <2>2 DEF Shapes
  <1>5. at \in 0 .. Len(x.mixer) - 1 /\ ks[at + 1] = n
    <2>1. PICK i \in 1 .. Len(x.mixer) : x.mixer[i].name = n BY <1>2 DEF Exists
    <2>2. i \in 1 .. Len(ks) /\ ks[i] = n BY <1>1, <2>1
    <2> HIDE DEF ks
    <2>3. Found(Find(ks, n)) BY <1>1, <2>2, FoundIs
    <2> QED BY <1>1, <2>3, FoundIs
  <1> HIDE DEF ks, y, at, told1, torn1
  <1>6. new \in Seq(Melems) /\ Len(new) = Len(x.mixer) - 1
        /\ \A i \in 1 .. Len(x.mixer) - 1 : new[i] = IF i <= at THEN x.mixer[i] ELSE x.mixer[i + 1]
    BY <1>0, <1>5, DeleteIs
  <1> HIDE DEF new
  <1>7. y \in Shapes /\ y.mixer = new /\ y.elems = x.elems /\ y.told = told1 /\ y.torn = torn1
        /\ y.err = x.err /\ y.abort = x.abort
    BY <1>0, <1>3, <1>4, <1>6 DEF Shapes
  <1>8. MixerNames(y) \in Seq(Int) /\ Len(MixerNames(y)) = Len(ks) - 1
        /\ \A i \in 1 .. Len(ks) - 1 : MixerNames(y)[i] = new[i].name
    BY <1>1, <1>6, <1>7, NamesAre
  <1>9. StrictlySorted(MixerNames(y))
    <2>1. \A i \in 1 .. Len(MixerNames(y)) :
            MixerNames(y)[i] = IF i <= at THEN ks[i] ELSE ks[i + 1]
      <3> SUFFICES ASSUME NEW i \in 1 .. Len(ks) - 1
                   PROVE  new[i].name = IF i <= at THEN ks[i] ELSE ks[i + 1]
        BY <1>8
      <3>1. i \in 1 .. Len(x.mixer) /\ i + 1 \in 1 .. Len(x.mixer) BY <1>1, <1>2
      <3> QED BY <1>1, <1>6, <3>1
    <2> QED BY <1>1, <1>5, <1>8, <2>1, DeleteSorted
  <1>10. Well(y) BY <1>7, <1>9 DEF Well
  <1>11. \A i \in 1 .. Len(x.mixer) : x.mixer[i].name = n => i = at + 1
    <2>1. at + 1 \in 1 .. Len(x.mixer) /\ x.mixer[at + 1].name = n BY <1>1, <1>2, <1>5
    <2> SUFFICES ASSUME NEW i \in 1 .. Len(x.mixer), x.mixer[i].name = n PROVE i = at + 1 OBVIOUS
    <2>2. IndexOf(x, n) = i /\ IndexOf(x, n) = at + 1 BY <2>1, ElemAt
    <2> QED BY <2>2
  <1>12. ASSUME NEW m, Exists(x, m), m # n PROVE Exists(y, m) /\ Elem(y, m) = Elem(x, m)
    <2>1. PICK i \in 1 .. Len(x.mixer) : x.mixer[i].name = m BY <1>2, <1>12 DEF Exists
    <2>2. Elem(x, m) = x.mixer[i].s BY <2>1, ElemAt
    <2>3. i # at + 1 BY <1>1, <1>2, <1>5, <1>12, <2>1
    <2> DEFINE j == IF i <= at THEN i ELSE i - 1
    <2>4. j \in 1 .. Len(new) /\ new[j] = x.mixer[i] BY <1>2, <1>5, <1>6, <2>3
    <2> HIDE DEF j
    <2> QED BY <1>7, <1>10, <2>1, <2>2, <2>4, ElemAt
  <1>13. ASSUME NEW m, Exists(y, m) PROVE Exists(x, m) /\ m # n
    <2>1. PICK j \in 1 .. Len(new) : new[j].name = m
      <3>1. DOMAIN new = 1 .. Len(new) BY <1>6, LenProperties
      <3> QED BY <1>7, <1>13, <3>1 DEF Exists
    <2> DEFINE i == IF j <= at THEN j ELSE j + 1
    <2>2. i \in 1 .. Len(x.mixer) /\ new[j] = x.mixer[i] /\ i # at + 1 BY <1>2, <1>5, <1>6
    <2> HIDE DEF i
    <2> QED BY <1>2, <1>11, <2>1, <2>2 DEF Exists
  <1>14. \A m : Exists(y, m) => y.told[m] = x.told[m]
    <2> SUFFICES ASSUME NEW m, Exists(y, m) PROVE y.told[m] = x.told[m] OBVIOUS
    <2>1. m # n /\ m \in Names BY <1>13, ElemOf
    <2> QED BY <2>1, <1>4, <1>7
  <1>15. \A m : m # n => (m \in y.torn <=> m \in x.torn) BY <1>7 DEF torn1
  <1> QED BY <1>7, <1>10, <1>12, <1>13, <1>14, <1>15 DEF y

------------------------------------------------------------------------------
(* The handlers, by what they leave: all is as it was, except perhaps one  *)
(* element.                                                                *)
Kept(x, y, n) ==
  /\ Well(y) /\ Linked(y) /\ y.abort = x.abort
  /\ \A g : Cached(y, g) <=> Cached(x, g)
  /\ \A m : m # n => (Exists(y, m) <=> Exists(x, m))
  /\ \A m : m # n /\ Exists(x, m) => /\ Elem(y, m) = Elem(x, m) /\ y.told[m] = x.told[m]
                                     /\ (m \in y.torn <=> m \in x.torn)

(* Leaving all but n alone, twice.                                         *)
LEMMA KeptOn ==
  ASSUME NEW x, NEW y, NEW z, NEW n, Kept(x, y, n), Kept(y, z, n)
  PROVE  Kept(x, z, n)
  BY DEF Kept

(* What leaves all but n alone keeps all but what is said of n.            *)
LEMMA KeptGood ==
  ASSUME NEW x, NEW y, NEW n, GoodBut(x, n), Kept(x, y, n)
  PROVE  GoodBut(y, n) /\ ((Exists(y, n) => Sound(y, n)) => Good(y))
  <1>1. ASSUME NEW m, m # n, Exists(y, m) PROVE Sound(y, m)
    <2>1. Exists(x, m) /\ Sound(x, m) BY <1>1 DEF Kept, GoodBut
    <2>2. Elem(y, m) = Elem(x, m) /\ y.told[m] = x.told[m] /\ (m \in y.torn <=> m \in x.torn)
      BY <1>1, <2>1 DEF Kept
    <2> QED BY <2>1, <2>2 DEF Sound, Heard
  <1> QED BY <1>1 DEF Kept, GoodBut, Good

(* What holds of all holds of all but one.                                 *)
LEMMA GoodIsBut == ASSUME NEW x, NEW n, Good(x) PROVE GoodBut(x, n) BY DEF Good, GoodBut

(* Attaching and detaching leave all other elements alone.                 *)
LEMMA TiedKept ==
  ASSUME NEW x, NEW y, NEW h, NEW n, NEW s, NEW bag, Tied(x, y, h, n, s, bag), Linked(y)
  PROVE  Kept(x, y, n)
  BY DEF Tied, Kept, Rest

(* The element itself, where the controls it lists do not change.          *)
LEMMA WithElemKept ==
  ASSUME NEW x, Well(x), Linked(x), NEW n, Exists(x, n), NEW s \in Selems, s.helems = Elem(x, n).helems
  PROVE  LET y == WithElem(x, n, s)
         IN  Kept(x, y, n) /\ Exists(y, n) /\ Elem(y, n) = s /\ Rest(x, y)
  <1> DEFINE y == WithElem(x, n, s)
  <1>1. /\ Well(y) /\ Rest(x, y) /\ y.elems = x.elems
        /\ \A m : Exists(y, m) <=> Exists(x, m)
        /\ \A m : Exists(x, m) => Elem(y, m) = IF m = n THEN s ELSE Elem(x, m)
    BY WithElemIs
  <1> HIDE DEF y
  <1>2. (\A g : Cached(y, g) <=> Cached(x, g)) /\ (\A g : BagOf(y, g) = BagOf(x, g)) BY <1>1, SameElems
  <1>3. \A m : Exists(x, m) => Elem(y, m).helems = Elem(x, m).helems BY <1>1
  <1>4. Linked(y) BY <1>1, <1>2, <1>3 DEF Linked
  <1> QED BY <1>1, <1>2, <1>4 DEF Kept, Rest, y

(* A callback leaves all other elements alone, and the element is told.    *)
LEMMA TellKept ==
  ASSUME NEW x, Well(x), Linked(x), NEW n, Exists(x, n)
  PROVE  LET y == Tell(x, n)
         IN  /\ Kept(x, y, n) /\ Exists(y, n) /\ Elem(y, n) = Elem(x, n) /\ y.told[n] = View(Elem(x, n))
             /\ y.err = x.err /\ y.torn = x.torn
  <1> DEFINE y == Tell(x, n)
  <1>1. /\ Well(y) /\ y.elems = x.elems /\ y.mixer = x.mixer
        /\ y.err = x.err /\ y.abort = x.abort /\ y.torn = x.torn
        /\ \A m \in Names : y.told[m] = IF m = n THEN View(Elem(x, n)) ELSE x.told[m]
    BY TellIs
  <1> HIDE DEF y
  <1>2. (\A m : Exists(y, m) <=> Exists(x, m)) /\ (\A m : Elem(y, m) = Elem(x, m)) BY <1>1, SameMixer
  <1>3. (\A g : Cached(y, g) <=> Cached(x, g)) BY <1>1, SameElems
  <1>4. Linked(y)
    <2>1. y \in Shapes BY <1>1 DEF Well
    <2> QED BY <1>1, <2>1, SameArrays
  <1>5. \A m : Exists(x, m) => m \in Names BY ElemOf
  <1> QED BY <1>1, <1>2, <1>3, <1>4, <1>5 DEF Kept, y

(* What is marked as failed or unread.                                     *)
Marked(x, y) ==
  y \in Shapes /\ y.elems = x.elems /\ y.mixer = x.mixer /\ y.told = x.told /\ y.abort = x.abort

(* So does noting that a read failed.                                      *)
LEMMA MarkKept ==
  ASSUME NEW x, Well(x), Linked(x), NEW n, NEW y, Marked(x, y), \A m : m # n => (m \in y.torn <=> m \in x.torn)
  PROVE  Kept(x, y, n) /\ (Exists(y, n) <=> Exists(x, n)) /\ Elem(y, n) = Elem(x, n)
  <1>1. /\ y \in Shapes /\ y.elems = x.elems /\ y.mixer = x.mixer /\ y.abort = x.abort /\ y.told = x.told
    BY DEF Marked
  <1>2. (\A m : Exists(y, m) <=> Exists(x, m)) /\ (\A m : Elem(y, m) = Elem(x, m)) BY <1>1, SameMixer
  <1>3. (\A g : Cached(y, g) <=> Cached(x, g)) BY <1>1, SameElems
  <1>4. Well(y) /\ Linked(y) BY <1>1, SameArrays
  <1> QED BY <1>1, <1>2, <1>3, <1>4 DEF Kept

------------------------------------------------------------------------------
(* An element's controls are untied before it goes.                        *)
DetachOp(p, z, h) == Detach(z, h, p.name)
DetachInv(p, z, i) ==
  /\ Kept(p.x, z, p.name) /\ Rest(p.x, z) /\ Exists(z, p.name)
  /\ \A j \in 1 .. i : p.hs[j] \notin Range(Elem(z, p.name).helems)
  /\ Range(Elem(z, p.name).helems) \subseteq Range(p.hs)
DetachFold == INSTANCE FoldInduction WITH Op <- DetachOp, Inv <- DetachInv

(* Removing an element unlinks all its controls and leaves the others.     *)
LEMMA ElemRemoveIs ==
  ASSUME NEW x, Well(x), Linked(x), NEW n, Exists(x, n)
  PROVE  LET y == ElemRemove(x, n)
         IN  Kept(x, y, n) /\ ~Exists(y, n) /\ y.err = x.err
  <1> DEFINE hs == Elem(x, n).helems
             p == [x |-> x, name |-> n, hs |-> hs]
             z == DetachFold!Left(p, x, hs)
             y == ElemRemove(x, n)
  <1>0. hs \in Seq(RealHandles) /\ Len(hs) \in Nat /\ DOMAIN hs = 1 .. Len(hs)
    <2>1. Elem(x, n) \in Selems BY ElemOf
    <2>2. hs \in Seq(RealHandles)
      <3> DEFINE s == Elem(x, n)
      <3>1. s \in Selems BY <2>1
      <3> HIDE DEF s
      <3>2. s.helems \in Seq(RealHandles) BY <3>1 DEF Selems
      <3> QED BY <3>2 DEF s
    <2> QED BY <2>2, LenProperties
  <1>1. p.x = x /\ p.name = n /\ p.hs = hs OBVIOUS
  <1>2. y = Emptied(z, n)
    <2> HIDE DEF p
    <2>1. ElemRemove(x, p.name) = Emptied(DetachFold!Left(p, x, Elem(x, p.name).helems), p.name)
      BY Zenon DEF ElemRemove, Emptied, DetachOp, FoldLeft, MapThenFoldSet,
                   DetachFold!Left, DetachFold!Last, Max
    <2> QED BY <1>1, <2>1, Zenon
  <1> HIDE DEF p, hs, z, y
  <1>3. DetachInv(p, x, 0)
    <2>1. Kept(x, x, n) BY DEF Kept
    <2>2. Rest(x, x) BY DEF Rest
    <2> QED BY <1>1, <2>1, <2>2 DEF DetachInv, hs
  <1>4. ASSUME NEW i \in 1 .. Len(hs), NEW w, DetachInv(p, w, i - 1)
        PROVE  DetachInv(p, DetachOp(p, w, hs[i]), i)
    <2> DEFINE v == Detach(w, hs[i], n)
               s == Without(w, hs[i], n)
    <2>1. Kept(x, w, n) /\ Rest(x, w) /\ Exists(w, n)
          /\ (\A j \in 1 .. i - 1 : hs[j] \notin Range(Elem(w, n).helems))
          /\ Range(Elem(w, n).helems) \subseteq Range(hs)
      BY <1>1, <1>4 DEF DetachInv
    <2>2. Well(w) /\ Linked(w) /\ Cached(w, hs[i])
      <3>1. hs[i] \in Range(Elem(x, n).helems) BY <1>0 DEF Range, hs
      <3>2. Cached(x, hs[i]) BY <3>1 DEF Linked
      <3> QED BY <2>1, <3>2 DEF Kept
    <2>3. /\ Tied(w, v, hs[i], n, s, RemoveFirst(BagOf(w, hs[i]), n)) /\ Linked(v)
          /\ Range(s.helems) = Range(Elem(w, n).helems) \ {hs[i]}
      <3> DEFINE h == hs[i]
      <3>1. Well(w) /\ Cached(w, h) /\ Exists(w, n) /\ Linked(w) BY <2>1, <2>2
      <3> HIDE DEF h
      <3>2. /\ Tied(w, Detach(w, h, n), h, n, Without(w, h, n), RemoveFirst(BagOf(w, h), n))
            /\ Linked(Detach(w, h, n))
            /\ Range(Without(w, h, n).helems) = Range(Elem(w, n).helems) \ {h}
        BY <3>1, DetachIs, Zenon
      <3> QED BY <3>2, Zenon DEF h
    <2>4. DetachOp(p, w, hs[i]) = v BY <1>1 DEF DetachOp
    <2> HIDE DEF v, s
    <2>5. Kept(w, v, n) BY <2>3, TiedKept
    <2>6. Kept(x, v, n) BY <2>1, <2>5, KeptOn
    <2>7. Exists(v, n) /\ Elem(v, n) = s /\ Rest(w, v) BY <2>1, <2>3 DEF Tied
    <2>8. Rest(x, v) BY <2>1, <2>7 DEF Rest
    <2>9. \A j \in 1 .. i : hs[j] \notin Range(s.helems)
      <3>1. \A j \in 1 .. i : j \in 1 .. i - 1 \/ j = i BY <1>0
      <3> QED BY <2>1, <2>3, <3>1
    <2>10. Range(s.helems) \subseteq Range(hs) BY <2>1, <2>3
    <2> QED BY <1>1, <2>4, <2>6, <2>7, <2>8, <2>9, <2>10 DEF DetachInv
  <1>5. DetachInv(p, z, Len(hs)) BY <1>0, <1>3, <1>4, DetachFold!LeftHolds DEF z
  <1>6. Kept(x, z, n) /\ Rest(x, z) /\ Exists(z, n) /\ Range(Elem(z, n).helems) = {}
    <2>1. \A g \in Range(hs) : \E j \in 1 .. Len(hs) : g = hs[j] BY <1>0 DEF Range
    <2> QED BY <1>1, <1>5, <2>1 DEF DetachInv
  <1>7. Well(z) /\ Linked(z) BY <1>6 DEF Kept
  <1>8. /\ Well(y) /\ y.elems = z.elems /\ y.err = z.err /\ y.abort = z.abort
        /\ \A m : Exists(y, m) <=> Exists(z, m) /\ m # n
        /\ \A m : Exists(y, m) => Elem(y, m) = Elem(z, m) /\ y.told[m] = z.told[m]
        /\ \A m : m # n => (m \in y.torn <=> m \in z.torn)
    BY <1>2, <1>6, <1>7, EmptiedIs
  <1>9. (\A g : Cached(y, g) <=> Cached(z, g)) /\ (\A g : BagOf(y, g) = BagOf(z, g)) BY <1>8, SameElems
  <1>10. Linked(y)
    <2>1. \A g : Cached(y, g) => IsInjective(BagOf(y, g)) BY <1>7, <1>9 DEF Linked
    <2>2. \A m : Exists(y, m) => /\ IsInjective(Elem(y, m).helems)
                                 /\ \A g \in Range(Elem(y, m).helems) : Cached(y, g)
      BY <1>7, <1>8, <1>9 DEF Linked
    <2>3. ASSUME NEW g, NEW m, Cached(y, g)
          PROVE  m \in Range(BagOf(y, g)) <=> Exists(y, m) /\ g \in Range(Elem(y, m).helems)
      <3>1. m \in Range(BagOf(z, g)) <=> Exists(z, m) /\ g \in Range(Elem(z, m).helems)
        BY <1>7, <1>9, <2>3 DEF Linked
      <3>2. g \in Range(Elem(z, m).helems) => m # n BY <1>6
      <3> QED BY <3>1, <3>2, <1>8, <1>9
    <2> QED BY <2>1, <2>2, <2>3 DEF Linked
  <1>11. Kept(z, y, n) BY <1>8, <1>9, <1>10 DEF Kept
  <1>12. Kept(x, y, n) BY <1>6, <1>11, KeptOn
  <1>13. y.err = x.err BY <1>6, <1>8 DEF Rest
  <1> QED BY <1>8, <1>12, <1>13 DEF y

------------------------------------------------------------------------------
(* Nothing but a control that is removed takes anything from an element,   *)
(* and nothing but a capture source that is gone, or an element that is    *)
(* read as an enumeration it has not, ends the program.                    *)
SourceGone(x) == \E g : Cached(x, g) /\ Control[g[1]].type = "CAPTURE_SOURCE" /\ Gone(card, g)
Mute(x) == \E m \in Range(x.mixer) : NullEnum(m.s)

Ends(x, y) == (x.abort => y.mixer = x.mixer) /\ (y.abort => x.abort \/ SourceGone(x) \/ Mute(y))

Grown(x, y) ==
  /\ \A g : Cached(y, g) <=> Cached(x, g)
  /\ \A n : Exists(x, n) => Exists(y, n) /\ Range(Elem(x, n).helems) \subseteq Range(Elem(y, n).helems)
  /\ (x.err => y.err) /\ (x.abort => y.abort) /\ Ends(x, y)

(* One that is read so is among those of the mixer.                        *)
LEMMA MuteOf == ASSUME NEW x, Well(x), NEW n, Exists(x, n), NullEnum(Elem(x, n)) PROVE Mute(x)
  <1> DEFINE i == IndexOf(x, n)
  <1>1. i \in 1 .. Len(x.mixer) /\ Elem(x, n) = x.mixer[i].s BY ElemOf DEF Elem
  <1>2. x.mixer \in Seq(Melems) BY DEF Well, Shapes
  <1>3. DOMAIN x.mixer = 1 .. Len(x.mixer) BY <1>2, LenProperties
  <1> HIDE DEF i
  <1>4. x.mixer[i] \in Range(x.mixer) BY <1>1, <1>3 DEF Range
  <1> QED BY <1>1, <1>4 DEF Mute

(* It is one by its controls alone.                                        *)
LEMMA SameNull ==
  ASSUME NEW s, NEW r, SameControls(s, r)
  PROVE  NullEnum(r) <=> NullEnum(s)
  <1>1. \A t : Has(s, t) <=> Has(r, t) BY DEF Has, SameControls
  <1>2. EnumType(s) = EnumType(r) BY <1>1 DEF EnumType
  <1>3. IsEnum(s) <=> IsEnum(r) BY <1>1 DEF IsEnum
  <1> QED BY <1>1, <1>2, <1>3 DEF NullEnum

(* Twice no other end is no other end.                                     *)
LEMMA EndsOn ==
  ASSUME NEW x, NEW y, NEW z, \A g : Cached(y, g) <=> Cached(x, g), x.abort => y.abort, Ends(x, y), Ends(y, z)
  PROVE  Ends(x, z)
  <1>1. SourceGone(y) => SourceGone(x) BY DEF SourceGone
  <1>2. Mute(y) /\ y.abort => Mute(z) BY DEF Ends, Mute
  <1> QED BY <1>1, <1>2 DEF Ends

(* Adding twice is adding.                                                 *)
LEMMA GrownOn ==
  ASSUME NEW x, NEW y, NEW z, Grown(x, y), Grown(y, z)
  PROVE  Grown(x, z)
  <1>1. Ends(x, z) BY EndsOn DEF Grown
  <1> QED BY <1>1 DEF Grown

(* An error or an assertion changes no array.                              *)
LEMMA ErrGood ==
  ASSUME NEW x, Good(x)
  PROVE  LET y == [x EXCEPT !.err = TRUE]
             z == [x EXCEPT !.abort = TRUE]
         IN  /\ Good(y) /\ Grown(x, y) /\ y.err
             /\ Good(z) /\ (SourceGone(x) \/ Mute(x) => Grown(x, z)) /\ z.abort /\ z.elems = x.elems
             /\ z.mixer = x.mixer
  <1> DEFINE y == [x EXCEPT !.err = TRUE]
             z == [x EXCEPT !.abort = TRUE]
  <1>0. x \in Shapes /\ Well(x) /\ Linked(x) BY DEF Good, Well
  <1>1. ASSUME NEW w \in Shapes, w.elems = x.elems, w.mixer = x.mixer, w.told = x.told, w.torn = x.torn,
               (x.err => w.err), (x.abort => w.abort)
        PROVE  Good(w) /\ ((w.abort => x.abort \/ SourceGone(x) \/ Mute(x)) => Grown(x, w))
    <2>1. (\A m : Exists(w, m) <=> Exists(x, m)) /\ (\A m : Elem(w, m) = Elem(x, m)) BY <1>1, SameMixer
    <2>2. (\A g : Cached(w, g) <=> Cached(x, g)) BY <1>1, SameElems
    <2>3. Well(w) /\ Linked(w) BY <1>0, <1>1, SameArrays
    <2>4. ASSUME NEW m, Exists(w, m) PROVE Sound(w, m)
      <3>1. Sound(x, m) BY <2>1, <2>4 DEF Good
      <3> QED BY <3>1, <2>1, <1>1 DEF Sound, Heard
    <2>5. Mute(x) => Mute(w) BY <1>1 DEF Mute
    <2> QED BY <1>1, <2>1, <2>2, <2>3, <2>4, <2>5 DEF Good, Grown, Ends
  <1>2. /\ y \in Shapes /\ y.elems = x.elems /\ y.mixer = x.mixer /\ y.told = x.told /\ y.torn = x.torn
        /\ y.err = TRUE /\ y.abort = x.abort
        /\ z \in Shapes /\ z.elems = x.elems /\ z.mixer = x.mixer /\ z.told = x.told /\ z.torn = x.torn
        /\ z.err = x.err /\ z.abort = TRUE
    BY <1>0 DEF Shapes
  <1> HIDE DEF y, z
  <1>3. Good(y) /\ Grown(x, y) BY <1>1, <1>2
  <1>4. Good(z) /\ (SourceGone(x) \/ Mute(x) => Grown(x, z)) BY <1>1, <1>2
  <1> QED BY <1>2, <1>3, <1>4 DEF y, z

(* What adds to one element and leaves the others alone only adds.         *)
LEMMA KeptGrown ==
  ASSUME NEW x, NEW y, NEW n, Kept(x, y, n), (x.err => y.err), ~x.abort,
         Exists(x, n) => Exists(y, n) /\ Range(Elem(x, n).helems) \subseteq Range(Elem(y, n).helems)
  PROVE  Grown(x, y)
  BY DEF Kept, Grown, Ends

------------------------------------------------------------------------------
(* Reading an element.                                                     *)
AfterRead(x, r, y, n) ==
  CASE r.abort -> [x EXCEPT !.abort = TRUE]
    [] ~r.abort /\ r.err -> [y EXCEPT !.err = TRUE, !.torn = @ \union {n}]
    [] ~r.abort /\ ~r.err /\ r.changed -> Tell([y EXCEPT !.torn = @ \ {n}], n)
    [] OTHER -> [y EXCEPT !.torn = @ \ {n}]

(* The application knows it, or it cannot be read.                         *)
LEMMA RereadIs ==
  ASSUME NEW x, Well(x), Linked(x), NEW n, Exists(x, n), Heard(x, n), ~NullEnum(Elem(x, n))
  PROVE  LET y == Reread(x, n)
         IN  /\ Kept(x, y, n) /\ Exists(y, n) /\ SameControls(Elem(x, n), Elem(y, n)) /\ Heard(y, n)
             /\ (x.err => y.err)
  <1> DEFINE s == Elem(x, n)
             r == SelemRead(s, card)
             w == WithElem(x, n, r.s)
             y == Reread(x, n)
             more == w.torn \union {n}
             less == w.torn \ {n}
  <1>0. x \in Shapes /\ n \in Names /\ s \in Selems /\ card \in Cards BY ElemOf DEF Well
  <1>1. y = AfterRead(x, r, w, n) BY Zenon DEF Reread, AfterRead
  <1>2. /\ r.s \in Selems /\ SameControls(s, r.s) /\ r.err = Fails(s, card)
        /\ r.err \in BOOLEAN /\ r.changed \in BOOLEAN /\ ~r.abort
        /\ (~r.err /\ ~r.changed => View(r.s) = View(s))
    <2>1. {0} \subseteq Values BY MixerAssumption
    <2>2. ~NullEnum(s) OBVIOUS
    <2> HIDE DEF s
    <2> QED BY <1>0, <2>1, <2>2, SelemReadIs
  <1> HIDE DEF r, y
  <1>3. Kept(x, w, n) /\ Exists(w, n) /\ Elem(w, n) = r.s /\ Rest(x, w)
    <2>1. r.s \in Selems /\ r.s.helems = Elem(x, n).helems BY <1>2 DEF SameControls
    <2> QED BY <2>1, WithElemKept
  <1> HIDE DEF w
  <1>4. Well(w) /\ Linked(w) /\ w \in Shapes /\ w.torn \in SUBSET Names /\ w.err \in BOOLEAN
    BY <1>3 DEF Kept, Well, Shapes
  <1>5. more \in SUBSET Names /\ less \in SUBSET Names BY <1>0, <1>4
  <1>6. /\ \A m : m # n => (m \in more <=> m \in w.torn)
        /\ \A m : m # n => (m \in less <=> m \in w.torn)
        /\ n \in more
    OBVIOUS
  <1> HIDE DEF more, less
  <1> DEFINE failed == [w EXCEPT !.err = TRUE, !.torn = more]
             read == [w EXCEPT !.torn = less]
  <1>8. CASE r.err
    <2>1. y = failed BY <1>1, <1>2, <1>8, Zenon DEF AfterRead, more
    <2>2. Marked(w, failed) /\ failed.err = TRUE /\ failed.torn = more BY <1>4, <1>5 DEF Shapes, Marked
    <2>3. /\ Kept(w, failed, n) /\ (Exists(failed, n) <=> Exists(w, n)) /\ Elem(failed, n) = Elem(w, n)
          /\ failed.told = w.told
      <3> HIDE DEF failed
      <3> QED BY <1>4, <1>6, <2>2, MarkKept DEF Marked
    <2> HIDE DEF failed
    <2>4. Kept(x, y, n) BY <1>3, <2>1, <2>3, KeptOn
    <2>5. Fails(r.s, card)
      <3>1. Fails(s, card) BY <1>2, <1>8
      <3>2. r.s.ctls = s.ctls BY <1>2 DEF SameControls
      <3>3. ReadSteps(r.s) = ReadSteps(s) BY <3>2, SameReads
      <3> HIDE DEF s
      <3> QED BY <3>1, <3>2, <3>3 DEF Fails, Errs
    <2>6. Heard(y, n) BY <1>3, <1>6, <2>1, <2>2, <2>3, <2>5 DEF Heard
    <2> QED BY <1>2, <1>3, <2>1, <2>2, <2>3, <2>4, <2>6 DEF y
  <1>9. CASE ~r.err
    <2>0. Marked(w, read) /\ read.err = w.err /\ read.torn = less BY <1>4, <1>5 DEF Shapes, Marked
    <2>1. /\ Kept(w, read, n) /\ (Exists(read, n) <=> Exists(w, n)) /\ Elem(read, n) = Elem(w, n)
          /\ read.told = w.told /\ read.err = w.err
      <3> HIDE DEF read
      <3> QED BY <1>4, <1>6, <2>0, MarkKept DEF Marked
    <2>2. Well(read) /\ Linked(read) BY <2>1 DEF Kept
    <2> HIDE DEF read
    <2>3. Kept(x, read, n) BY <1>3, <2>1, KeptOn
    <2>4. CASE r.changed
      <3>1. y = Tell(read, n) BY <1>1, <1>2, <1>9, <2>4, Zenon DEF AfterRead, read, less
      <3>2. /\ Kept(read, y, n) /\ Exists(y, n) /\ Elem(y, n) = Elem(read, n)
            /\ y.told[n] = View(Elem(read, n)) /\ y.err = read.err
        BY <1>3, <2>1, <2>2, <3>1, TellKept
      <3>3. Kept(x, y, n) BY <2>3, <3>2, KeptOn
      <3> QED BY <1>2, <1>3, <2>1, <3>2, <3>3 DEF Heard, Rest, y
    <2>5. CASE ~r.changed
      <3>1. y = read BY <1>1, <1>2, <1>9, <2>5, Zenon DEF AfterRead, read, less
      <3>2. View(r.s) = View(s) /\ ~Fails(s, card) BY <1>2, <1>9, <2>5
      <3>3. x.told[n] = View(s) \/ x.told[n].unsaid BY <3>2 DEF Heard
      <3>4. y.told[n] = View(Elem(y, n)) \/ y.told[n].unsaid BY <1>3, <2>1, <3>1, <3>2, <3>3 DEF Rest
      <3> QED BY <1>2, <1>3, <2>1, <2>3, <3>1, <3>4 DEF Heard, Rest, y
    <2> QED BY <1>2, <2>4, <2>5
  <1> QED BY <1>2, <1>8, <1>9

(* It only adds, or ends the program on an enumeration there is not.       *)
LEMMA RereadGood ==
  ASSUME NEW x, Good(x), NEW n, Exists(x, n), ~x.abort
  PROVE  Good(Reread(x, n)) /\ Grown(x, Reread(x, n))
  <1> DEFINE s == Elem(x, n)
             y == Reread(x, n)
  <1>1. Well(x) /\ Linked(x) /\ Sound(x, n) /\ s \in Selems /\ card \in Cards /\ {0} \subseteq Values
    BY ElemOf, MixerAssumption DEF Good, Well
  <1>2. CASE NullEnum(s)
    <2> DEFINE r == SelemRead(s, card)
               w == WithElem(x, n, r.s)
               z == [x EXCEPT !.abort = TRUE]
    <2>1. r.abort
      <3> HIDE DEF s
      <3> QED BY <1>1, <1>2, SelemReadIs
    <2>2. y = AfterRead(x, r, w, n) BY Zenon DEF Reread, AfterRead
    <2> HIDE DEF r, w, y
    <2>3. y = z BY <2>1, <2>2, Zenon DEF AfterRead
    <2>4. Mute(x)
      <3> QED BY <1>1, <1>2, MuteOf
    <2> HIDE DEF z
    <2>5. Good(z) /\ Grown(x, z) BY <2>4, ErrGood DEF z
    <2> QED BY <2>3, <2>5 DEF y
  <1>3. CASE ~NullEnum(s)
    <2>1. Heard(x, n) BY <1>1 DEF Sound
    <2>2. /\ Kept(x, y, n) /\ Exists(y, n) /\ SameControls(s, Elem(y, n)) /\ Heard(y, n)
          /\ (x.err => y.err)
      BY <1>1, <1>3, <2>1, RereadIs
    <2> HIDE DEF y
    <2>3. Sound(y, n) BY <1>1, <2>2 DEF Sound, Fit, SameControls
    <2>4. GoodBut(x, n) BY GoodIsBut
    <2>5. Good(y) BY <2>2, <2>3, <2>4, KeptGood
    <2>6. Grown(x, y) BY <2>2, KeptGrown DEF SameControls
    <2> QED BY <2>5, <2>6 DEF y
  <1> QED BY <1>2, <1>3

------------------------------------------------------------------------------
(* A control that leaves an element, and the element with its last one.    *)
RemoveFrom(s, h) == [s EXCEPT !.ctls = [t \in Types |-> IF @[t] = h THEN NoControl ELSE @[t]]]
RestOf(y, same, n) ==
  IF Elem(y, n).helems = <<>> THEN ElemRemove(y, n)
  ELSE Tell([y EXCEPT !.torn = IF same THEN @ ELSE @ \union {n}], n)

(* A control leaves the place of its type, and no other.                   *)
LEMMA RemoveFromIs ==
  ASSUME NEW s \in Selems, NEW h
  PROVE  LET r == RemoveFrom(s, h)
         IN  /\ r \in Selems /\ r.helems = s.helems
             /\ \A t \in Types : r.ctls[t] = IF s.ctls[t] = h THEN NoControl ELSE s.ctls[t]
  <1> DEFINE c == [t \in Types |-> IF s.ctls[t] = h THEN NoControl ELSE s.ctls[t]]
             r == RemoveFrom(s, h)
  <1>1. r = [s EXCEPT !.ctls = c] BY DEF RemoveFrom
  <1>2. NoControl \in Handles BY DEF Handles
  <1>3. c \in [Types -> Handles] BY <1>2 DEF Selems
  <1>4. \A t \in Types : c[t] = IF s.ctls[t] = h THEN NoControl ELSE s.ctls[t] OBVIOUS
  <1> HIDE DEF c, r
  <1>5. r \in Selems /\ r.helems = s.helems /\ r.ctls = c BY <1>1, <1>3 DEF Selems
  <1> QED BY <1>4, <1>5 DEF r

(* A removal takes the control from the element, which goes with its last, *)
(* and is told of otherwise.                                               *)
LEMMA SimpleEventRemoveIs ==
  ASSUME NEW x, Good(x), NEW n, Exists(x, n), NEW h, h \in Range(Elem(x, n).helems)
  PROVE  LET y == SimpleEventRemove(x, h, n)
         IN  /\ Good(y) /\ Kept(x, y, n) /\ y.err = x.err
             /\ Exists(y, n) => Range(Elem(y, n).helems) = Range(Elem(x, n).helems) \ {h}
  <1> DEFINE s == Elem(x, n)
             s1 == RemoveFrom(s, h)
             same == SameSources(s, s1)
             w == WithElem(x, n, s1)
             d == Detach(w, h, n)
             y == SimpleEventRemove(x, h, n)
  <1>0. n \in Names /\ s \in Selems /\ Well(x) /\ Linked(x) /\ GoodBut(x, n) /\ Fit(s) /\ Cached(x, h)
    BY ElemOf, GoodIsBut DEF Good, Sound, Linked
  <1>1. y = RestOf(d, same, n) BY Zenon DEF SimpleEventRemove, RestOf, RemoveFrom
  <1>2. /\ s1 \in Selems /\ s1.helems = s.helems
        /\ \A t \in Types : s1.ctls[t] = IF s.ctls[t] = h THEN NoControl ELSE s.ctls[t]
    <2> HIDE DEF s
    <2> QED BY <1>0, RemoveFromIs
  <1> HIDE DEF s1, y, same
  <1>3. Kept(x, w, n) /\ Exists(w, n) /\ Elem(w, n) = s1 /\ Rest(x, w) BY <1>0, <1>2, WithElemKept
  <1> HIDE DEF w
  <1>4. Well(w) /\ Linked(w) /\ Cached(w, h) BY <1>0, <1>3 DEF Kept
  <1>5. /\ Tied(w, d, h, n, Without(w, h, n), RemoveFirst(BagOf(w, h), n))
        /\ Without(w, h, n) \in Selems
        /\ Range(Without(w, h, n).helems) = Range(Elem(w, n).helems) \ {h}
        /\ Linked(d)
    BY <1>3, <1>4, DetachIs
  <1> HIDE DEF d
  <1>6. Kept(w, d, n) /\ Exists(d, n) /\ Elem(d, n) = Without(w, h, n) /\ Rest(w, d)
    BY <1>3, <1>5, TiedKept DEF Tied
  <1>7. Kept(x, d, n) /\ d.err = x.err /\ d.torn = x.torn BY <1>3, <1>6, KeptOn DEF Rest
  <1>8. Well(d) /\ Linked(d) /\ d \in Shapes /\ d.torn \in SUBSET Names /\ d.err \in BOOLEAN
    BY <1>7 DEF Kept, Well, Shapes
  <1>9. Range(Elem(d, n).helems) = Range(s.helems) \ {h} BY <1>2, <1>3, <1>5, <1>6
  <1>10. Elem(d, n).ctls = s1.ctls
    <2>1. Elem(w, n) \in Selems BY <1>3, <1>4, ElemOf
    <2>2. Without(w, h, n).ctls = Elem(w, n).ctls
      <3> DEFINE u == Elem(w, n)
      <3> HIDE DEF u
      <3>1. u \in Selems BY <2>1 DEF u
      <3>2. Without(w, h, n) = [u EXCEPT !.helems = RemoveFirst(@, h)] BY DEF Without, u
      <3>3. Without(w, h, n).ctls = u.ctls BY <3>1, <3>2 DEF Selems
      <3> QED BY <3>3 DEF u
    <2> QED BY <1>3, <1>6, <2>2
  <1>11. Fit(Elem(d, n))
    <2> DEFINE e == Elem(d, n)
    <2>1. e.ctls = s1.ctls /\ Range(e.helems) = Range(s.helems) \ {h} BY <1>9, <1>10
    <2>2. /\ \A t \in Types : s.ctls[t] # NoControl =>
               s.ctls[t] \in Range(s.helems) /\ Control[s.ctls[t][1]].type = t
          /\ \A g \in Range(s.helems) : s.ctls[Control[g[1]].type] = g
      BY <1>0 DEF Fit
    <2> HIDE DEF e, s
    <2>3. ASSUME NEW t \in Types, e.ctls[t] # NoControl
          PROVE  e.ctls[t] \in Range(e.helems) /\ Control[e.ctls[t][1]].type = t
      <3>1. s.ctls[t] # h /\ e.ctls[t] = s.ctls[t] BY <1>2, <2>1, <2>3
      <3> QED BY <2>1, <2>2, <2>3, <3>1
    <2>4. ASSUME NEW g \in Range(e.helems) PROVE e.ctls[Control[g[1]].type] = g
      <3>1. g \in Range(s.helems) /\ g # h BY <2>1
      <3>2. g \in RealHandles
        <4>1. s.helems \in Seq(RealHandles) BY <1>0 DEF Selems
        <4>2. DOMAIN s.helems = 1 .. Len(s.helems) BY <4>1, LenProperties
        <4> QED BY <3>1, <4>1, <4>2, ElementOfSeq DEF Range
      <3>3. Control[g[1]].type \in Types BY <3>2, HandlesInt, NamesInt
      <3> QED BY <1>2, <2>1, <2>2, <3>1, <3>3
    <2>5. Fit(e) BY <2>3, <2>4 DEF Fit
    <2> QED BY <2>5 DEF e
  <1>12. CASE Elem(d, n).helems = <<>>
    <2>1. y = ElemRemove(d, n) BY <1>1, <1>12, Zenon DEF RestOf
    <2>2. Kept(d, y, n) /\ ~Exists(y, n) /\ y.err = d.err BY <1>6, <1>8, <2>1, ElemRemoveIs
    <2>3. Kept(x, y, n) BY <1>7, <2>2, KeptOn
    <2>4. Good(y) BY <1>0, <2>2, <2>3, KeptGood
    <2> QED BY <1>7, <2>2, <2>3, <2>4 DEF y
  <1>13. CASE Elem(d, n).helems # <<>>
    <2> DEFINE torn1 == IF same THEN d.torn ELSE d.torn \union {n}
               z == [d EXCEPT !.torn = torn1]
    <2>1. y = Tell(z, n) BY <1>1, <1>13, Zenon DEF RestOf
    <2>2. torn1 \in SUBSET Names /\ \A m : m # n => (m \in torn1 <=> m \in d.torn) BY <1>0, <1>8
    <2> HIDE DEF torn1
    <2>3. Marked(d, z) /\ z.err = d.err /\ z.torn = torn1 BY <1>8, <2>2 DEF Shapes, Marked
    <2>4. /\ Kept(d, z, n) /\ (Exists(z, n) <=> Exists(d, n)) /\ Elem(z, n) = Elem(d, n)
          /\ z.err = d.err
      <3> HIDE DEF z
      <3> QED BY <1>8, <2>2, <2>3, MarkKept
    <2> HIDE DEF z
    <2>5. Well(z) /\ Linked(z) /\ Exists(z, n) BY <1>6, <2>4 DEF Kept
    <2>6. /\ Kept(z, y, n) /\ Exists(y, n) /\ Elem(y, n) = Elem(z, n)
          /\ y.told[n] = View(Elem(z, n)) /\ y.err = z.err
      BY <2>1, <2>5, TellKept
    <2>7. Kept(x, y, n) BY <1>7, <2>4, <2>6, KeptOn
    <2>8. Elem(y, n) = Elem(d, n) BY <2>4, <2>6
    <2>9. Sound(y, n) BY <1>11, <1>13, <2>4, <2>6, <2>8 DEF Sound, Heard
    <2>10. Good(y) BY <1>0, <2>7, <2>9, KeptGood
    <2> QED BY <1>7, <1>9, <2>4, <2>6, <2>7, <2>8, <2>10 DEF y
  <1> QED BY <1>12, <1>13

------------------------------------------------------------------------------
(* A control that joins an element.                                        *)
Join(s, h, item) ==
  [s EXCEPT !.ctls[Control[h[1]].type] = h,
            !.item = IF Control[h[1]].type = "CAPTURE_SOURCE" THEN item ELSE @]

(* A control takes the place of its type.                                  *)
LEMMA JoinIs ==
  ASSUME NEW s \in Selems, NEW h \in RealHandles, NEW item,
         Control[h[1]].type = "CAPTURE_SOURCE" => item \in Values
  PROVE  /\ Join(s, h, item) \in Selems /\ Join(s, h, item).helems = s.helems
         /\ \A t \in Types : Join(s, h, item).ctls[t] = IF t = Control[h[1]].type THEN h ELSE s.ctls[t]
  <1> DEFINE type == Control[h[1]].type
             c == [s.ctls EXCEPT ![type] = h]
             v == IF type = "CAPTURE_SOURCE" THEN item ELSE s.item
             r == Join(s, h, item)
  <1>0. h \in Handles /\ type \in Types BY HandlesInt, NamesInt
  <1>1. r = [s EXCEPT !.ctls = c, !.item = v] BY DEF Join
  <1>2. v \in Values BY DEF Selems
  <1> HIDE DEF type
  <1>3. c \in [Types -> Handles] /\ \A t \in Types : c[t] = IF t = type THEN h ELSE s.ctls[t]
    BY <1>0 DEF Selems
  <1> HIDE DEF c, r, v
  <1>4. r \in Selems /\ r.helems = s.helems /\ r.ctls = c BY <1>1, <1>2, <1>3 DEF Selems
  <1> QED BY <1>3, <1>4 DEF r, type

(* A control that joins an element makes it fit, linked and told.          *)
LEMMA JoinedIs ==
  ASSUME NEW x, NEW n, GoodBut(x, n), Exists(x, n), Fit(Elem(x, n)), NEW h, Cached(x, h), NEW item,
         ~Has(Elem(x, n), Control[h[1]].type), Control[h[1]].type = "CAPTURE_SOURCE" => item \in Values,
         ~x.abort
  PROVE  Good(Joined(x, h, n, item)) /\ Grown(x, Joined(x, h, n, item))
  <1> DEFINE s == Elem(x, n)
             s1 == Join(s, h, item)
             type == Control[h[1]].type
             w == WithElem(x, n, s1)
             a == Attach(w, h, n)
             b == Tell(a, n)
             y == Joined(x, h, n, item)
  <1>0. Well(x) /\ Linked(x) /\ s \in Selems /\ h \in RealHandles /\ type \in Types /\ h # NoControl
    <2>1. Well(x) /\ Linked(x) BY DEF GoodBut
    <2>2. h \in RealHandles BY <2>1, SlotOf
    <2> QED BY <2>1, <2>2, ElemOf, HandlesInt, NamesInt
  <1>1. y = Reread(b, n) BY Zenon DEF Joined, Join
  <1>2. /\ s1 \in Selems /\ s1.helems = s.helems
        /\ \A t \in Types : s1.ctls[t] = IF t = type THEN h ELSE s.ctls[t]
    <2> HIDE DEF s
    <2> QED BY <1>0, JoinIs
  <1>3. h \notin Range(s.helems) BY <1>0 DEF Fit, Has
  <1> HIDE DEF s1, y
  <1>4. Kept(x, w, n) /\ Exists(w, n) /\ Elem(w, n) = s1 /\ Rest(x, w) BY <1>0, <1>2, WithElemKept
  <1> HIDE DEF w
  <1>5. Well(w) /\ Linked(w) /\ Cached(w, h) BY <1>0, <1>4 DEF Kept
  <1>6. /\ Tied(w, a, h, n, With(w, h, n), Append(BagOf(w, h), n))
        /\ With(w, h, n) \in Selems /\ Range(With(w, h, n).helems) = Range(Elem(w, n).helems) \union {h}
        /\ Linked(a)
    <2>1. h \notin Range(Elem(w, n).helems) BY <1>2, <1>3, <1>4
    <2> QED BY <1>4, <1>5, <2>1, AttachIs
  <1> HIDE DEF a
  <1>7. Kept(w, a, n) /\ Exists(a, n) /\ Elem(a, n) = With(w, h, n) /\ Rest(w, a)
    BY <1>4, <1>6, TiedKept DEF Tied
  <1>8. Well(a) /\ Linked(a) BY <1>7 DEF Kept
  <1>9. Kept(a, b, n) /\ Exists(b, n) /\ Elem(b, n) = Elem(a, n) /\ b.told[n] = View(Elem(a, n))
        /\ b.err = a.err
    BY <1>7, <1>8, TellKept
  <1> HIDE DEF b
  <1>10. Well(b) /\ Linked(b) /\ Heard(b, n) BY <1>9 DEF Kept, Heard
  <1>12. Kept(x, b, n) BY <1>4, <1>7, <1>9, KeptOn
  <1>13. Elem(a, n).ctls = s1.ctls
    <2> DEFINE u == Elem(w, n)
    <2>1. u \in Selems BY <1>4, <1>5, ElemOf
    <2> HIDE DEF u
    <2>2. With(w, h, n) = [u EXCEPT !.helems = Append(@, h)] BY DEF With, u
    <2>3. With(w, h, n).ctls = u.ctls BY <2>1, <2>2 DEF Selems
    <2> QED BY <1>4, <1>7, <2>3 DEF u
  <1> DEFINE e == Elem(b, n)
  <1>14. e.ctls = s1.ctls /\ e.helems = With(w, h, n).helems BY <1>7, <1>9, <1>13
  <1>15. Range(e.helems) = Range(s.helems) \union {h} BY <1>2, <1>4, <1>6, <1>14
  <1>16. e \in Selems
    <2> QED BY <1>9, <1>10, ElemOf
  <1> HIDE DEF e
  <1>17. Fit(e)
    <2>1. /\ \A t \in Types : s.ctls[t] # NoControl =>
               s.ctls[t] \in Range(s.helems) /\ Control[s.ctls[t][1]].type = t
          /\ \A g \in Range(s.helems) : s.ctls[Control[g[1]].type] = g
      BY DEF Fit
    <2>2. s.ctls[type] = NoControl BY DEF Has
    <2> HIDE DEF s
    <2>3. ASSUME NEW t \in Types, e.ctls[t] # NoControl
          PROVE  e.ctls[t] \in Range(e.helems) /\ Control[e.ctls[t][1]].type = t
      <3>1. CASE t = type
        <4>1. e.ctls[t] = h BY <1>2, <1>14, <3>1
        <4> QED BY <1>15, <3>1, <4>1
      <3>2. CASE t # type BY <1>2, <1>14, <1>15, <2>1, <2>3, <3>2
      <3> QED BY <3>1, <3>2
    <2>4. ASSUME NEW g \in Range(e.helems) PROVE e.ctls[Control[g[1]].type] = g
      <3>1. g \in RealHandles
        <4>1. e.helems \in Seq(RealHandles) BY <1>16 DEF Selems
        <4>2. DOMAIN e.helems = 1 .. Len(e.helems) BY <4>1, LenProperties
        <4> QED BY <4>1, <4>2, ElementOfSeq DEF Range
      <3>2. Control[g[1]].type \in Types /\ g # NoControl BY <3>1, HandlesInt, NamesInt
      <3>3. CASE g = h BY <1>2, <1>14, <3>2, <3>3
      <3>4. CASE g # h
        <4>1. g \in Range(s.helems) BY <1>15, <3>4
        <4>2. s.ctls[Control[g[1]].type] = g BY <2>1, <4>1
        <4>3. Control[g[1]].type # type BY <2>2, <3>2, <4>2
        <4> QED BY <1>2, <1>14, <3>2, <4>2, <4>3
      <3> QED BY <3>3, <3>4
    <2> QED BY <2>3, <2>4 DEF Fit
  <1>18. e.helems # <<>>
    <2>1. Range(<<>>) = {} BY DEF Range
    <2> QED BY <1>15, <2>1
  <1>19. Sound(b, n) BY <1>10, <1>17, <1>18 DEF Sound, e
  <1>20. Good(b) BY <1>12, <1>19, KeptGood
  <1>21. (x.err => b.err) /\ ~b.abort BY <1>4, <1>7, <1>9, <1>12 DEF Rest, Kept
  <1>22. Grown(x, b) BY <1>9, <1>12, <1>15, <1>21, KeptGrown DEF e
  <1>23. Good(y) /\ Grown(b, y) BY <1>1, <1>9, <1>20, <1>21, RereadGood
  <1> QED BY <1>22, <1>23, GrownOn DEF y

(* simple_add1 keeps the arrays and only adds.                             *)
LEMMA SimpleAdd1Is ==
  ASSUME NEW x, Good(x), NEW h, Cached(x, h), NEW n \in Names, NEW item,
         Control[h[1]].type = "CAPTURE_SOURCE" => item \in Values
  PROVE  Good(SimpleAdd1(x, h, n, item)) /\ Grown(x, SimpleAdd1(x, h, n, item))
  <1> DEFINE y == SimpleAdd1(x, h, n, item)
             type == Control[h[1]].type
             there == Exists(x, n) /\ Has(Elem(x, n), type)
             e == [x EXCEPT !.err = TRUE]
             w == IF Exists(x, n) THEN x ELSE ElemAdd(x, n)
  <1>0. Well(x) /\ Linked(x) BY DEF Good
  <1>1. CASE x.err \/ x.abort
    <2>1. y = x BY <1>1, Zenon DEF SimpleAdd1
    <2>2. Grown(x, x) BY DEF Grown, Ends
    <2> QED BY <2>1, <2>2
  <1>2. CASE ~(x.err \/ x.abort) /\ (Gone(card, h) \/ there)
    <2>1. y = e BY <1>2, Zenon DEF SimpleAdd1
    <2>2. Good(e) /\ Grown(x, e) BY ErrGood
    <2> HIDE DEF e, y
    <2> QED BY <2>1, <2>2 DEF y
  <1>3. CASE ~(x.err \/ x.abort) /\ ~(Gone(card, h) \/ there)
    <2>1. y = Joined(w, h, n, item) BY <1>3, Zenon DEF SimpleAdd1
    <2>2. CASE Exists(x, n)
      <3>1. w = x /\ ~Has(Elem(x, n), type) BY <1>3, <2>2
      <3>2. GoodBut(x, n) /\ Fit(Elem(x, n)) BY <2>2, GoodIsBut DEF Good, Sound
      <3>3. y = Joined(x, h, n, item) BY <2>1, <3>1, Zenon
      <3> HIDE DEF y
      <3>4. Good(y) /\ Grown(x, y) BY <1>3, <2>2, <3>1, <3>2, <3>3, JoinedIs
      <3> QED BY <3>4 DEF y
    <2>3. CASE ~Exists(x, n)
      <3> DEFINE v == ElemAdd(x, n)
      <3>1. y = Joined(v, h, n, item) BY <2>1, <2>3, Zenon
      <3>2. /\ Well(v) /\ Rest(x, v) /\ v.elems = x.elems
            /\ \A m : Exists(v, m) <=> Exists(x, m) \/ m = n
            /\ Elem(v, n) = NewElem
            /\ \A m : Exists(x, m) => Elem(v, m) = Elem(x, m)
        BY <1>0, <2>3, ElemAddIs
      <3> HIDE DEF v, y
      <3>3. (\A g : Cached(v, g) <=> Cached(x, g)) /\ (\A g : BagOf(v, g) = BagOf(x, g)) BY <3>2, SameElems
      <3>4. Linked(v)
        <4>0. Range(NewElem.helems) = {} /\ IsInjective(NewElem.helems)
          <5>1. NewElem.helems = <<>> BY NewElemIs
          <5> QED BY <5>1 DEF Range, IsInjective
        <4>1. \A g : Cached(v, g) => IsInjective(BagOf(v, g)) BY <1>0, <3>3 DEF Linked
        <4>2. \A m : Exists(v, m) => /\ IsInjective(Elem(v, m).helems)
                                     /\ \A g \in Range(Elem(v, m).helems) : Cached(v, g)
          BY <1>0, <3>2, <3>3, <4>0 DEF Linked
        <4>3. ASSUME NEW g, NEW m, Cached(v, g)
              PROVE  m \in Range(BagOf(v, g)) <=> Exists(v, m) /\ g \in Range(Elem(v, m).helems)
          <5>1. m \in Range(BagOf(x, g)) <=> Exists(x, m) /\ g \in Range(Elem(x, m).helems)
            BY <1>0, <3>3, <4>3 DEF Linked
          <5>2. CASE m = n BY <2>3, <3>2, <3>3, <4>0, <5>1, <5>2
          <5>3. CASE m # n BY <3>2, <3>3, <5>1, <5>3
          <5> QED BY <5>2, <5>3
        <4> QED BY <4>1, <4>2, <4>3 DEF Linked
      <3>5. Kept(x, v, n) BY <3>2, <3>3, <3>4 DEF Kept, Rest
      <3>6. GoodBut(v, n) BY <3>5, GoodIsBut, KeptGood
      <3>7. Exists(v, n) /\ Fit(Elem(v, n)) /\ ~Has(Elem(v, n), type) /\ Cached(v, h)
        <4>1. type \in Types
          <5>1. h \in RealHandles BY <1>0, SlotOf
          <5> QED BY <5>1, HandlesInt, NamesInt
        <4> QED BY <3>2, <3>3, <4>1, NewElemIs
      <3>8. ~v.abort /\ (x.err => v.err) BY <1>3, <3>2 DEF Rest
      <3>9. Good(y) /\ Grown(v, y) BY <3>1, <3>6, <3>7, <3>8, JoinedIs
      <3>10. Grown(x, v) BY <1>3, <2>3, <3>5, <3>8, KeptGrown
      <3> QED BY <3>9, <3>10, GrownOn DEF y
    <2> QED BY <2>2, <2>3
  <1> QED BY <1>1, <1>2, <1>3

AddOp(p, z, i) == SimpleAdd1(z, p.h, Control[p.h[1]].elems[i], i - 1)
AddInv(p, z, i) == Good(z) /\ Grown(p.x, z)
AddFold == INSTANCE FoldInduction WITH Op <- AddOp, Inv <- AddInv

(* simple_event_add, which calls it for each name, too.                    *)
LEMMA SimpleEventAddIs ==
  ASSUME NEW x, Good(x), NEW h, Cached(x, h)
  PROVE  Good(SimpleEventAdd(x, h)) /\ Grown(x, SimpleEventAdd(x, h))
  <1> DEFINE to == Control[h[1]].elems
             q == [i \in DOMAIN to |-> i]
             p == [x |-> x, h |-> h]
             lost == Control[h[1]].type = "CAPTURE_SOURCE" /\ Gone(card, h)
             y == SimpleEventAdd(x, h)
  <1>0. Well(x) /\ h \in RealHandles
    <2>1. Well(x) BY DEF Good
    <2> QED BY <2>1, SlotOf
  <1>1. /\ h[1] \in Controls /\ to \in Seq(Names) /\ Len(to) \in Nat /\ DOMAIN to = 1 .. Len(to)
        /\ \A i \in 1 .. Len(to) : to[i] \in Names
    <2>1. h[1] \in Controls /\ to \in Seq(Names) /\ \A i \in 1 .. Len(to) : to[i] \in Names
      BY <1>0, HandlesInt, NamesInt
    <2> HIDE DEF to
    <2> QED BY <2>1, LenProperties
  <1>2. q \in Seq(Nat) /\ Len(q) = Len(to) /\ \A i \in 1 .. Len(to) : q[i] = i
    <2> HIDE DEF to
    <2>1. q \in [1 .. Len(to) -> Nat] /\ \A i \in 1 .. Len(to) : q[i] = i BY <1>1
    <2> HIDE DEF q
    <2> QED BY <1>1, <2>1, FunSeq
  <1>3. CASE lost
    <2> DEFINE z == [x EXCEPT !.abort = TRUE]
    <2>1. y = z BY <1>3, Zenon DEF SimpleEventAdd
    <2>2. Good(z) /\ Grown(x, z)
      <3>1. SourceGone(x) BY <1>3 DEF SourceGone
      <3> HIDE DEF z
      <3> QED BY <3>1, ErrGood DEF z
    <2> HIDE DEF z, y
    <2> QED BY <2>1, <2>2 DEF y
  <1>4. CASE ~lost
    <2> DEFINE f == AddFold!Left(p, x, q)
    <2>1. p.x = x /\ p.h = h OBVIOUS
    <2>2. y = f
      <3> HIDE DEF p
      <3>1. ~(Control[p.h[1]].type = "CAPTURE_SOURCE" /\ Gone(card, p.h))
        BY <1>4, <2>1
      <3>2. SimpleEventAdd(x, p.h) = AddFold!Left(p, x, [i \in DOMAIN Control[p.h[1]].elems |-> i])
        BY <3>1, Zenon DEF SimpleEventAdd, AddOp, FoldLeft, MapThenFoldSet, AddFold!Left, AddFold!Last, Max
      <3> QED BY <2>1, <3>2, Zenon
    <2> HIDE DEF p, q, f, y, to
    <2>3. AddInv(p, x, 0) BY <2>1 DEF AddInv, Grown, Ends
    <2>4. ASSUME NEW i \in 1 .. Len(q), NEW z, AddInv(p, z, i - 1) PROVE AddInv(p, AddOp(p, z, q[i]), i)
      <3>1. Good(z) /\ Grown(x, z) /\ Cached(z, h) BY <2>1, <2>4 DEF AddInv, Grown
      <3>2. i \in 1 .. Len(to) /\ q[i] = i /\ to[i] \in Names BY <1>1, <1>2
      <3>3. Control[h[1]].type = "CAPTURE_SOURCE" => i - 1 \in Values
        <4>1. i \in DOMAIN Control[h[1]].elems BY <1>1, <3>2 DEF to
        <4> QED BY <1>1, <4>1, MixerAssumption
      <3> DEFINE item == i - 1
                 w == SimpleAdd1(z, h, to[i], item)
      <3>4. Control[h[1]].type = "CAPTURE_SOURCE" => item \in Values BY <3>3
      <3> HIDE DEF item
      <3>5. Good(w) /\ Grown(z, w) BY <3>1, <3>2, <3>4, SimpleAdd1Is
      <3>6. Grown(x, w) BY <3>1, <3>5, GrownOn
      <3>7. AddOp(p, z, q[i]) = w BY <2>1, <3>2 DEF AddOp, item, to
      <3> QED BY <2>1, <3>5, <3>6, <3>7 DEF AddInv
    <2>5. AddInv(p, f, Len(q)) BY <1>2, <2>3, <2>4, AddFold!LeftHolds DEF f
    <2> QED BY <2>1, <2>2, <2>5 DEF AddInv, y
  <1> QED BY <1>3, <1>4

------------------------------------------------------------------------------
(* A change of a control.                                                  *)
Uses(x, n, h) == Exists(x, n) /\ h \in Range(Elem(x, n).helems)

(* An event of one control and one element keeps the arrays, the cache and *)
(* what the other elements use.                                            *)
LEMMA SimpleEventIs ==
  ASSUME NEW x, Good(x), NEW h, NEW n, Uses(x, n, h), NEW mask
  PROVE  LET y == SimpleEvent(x, h, n, mask)
         IN  /\ Good(y) /\ \A g : Cached(y, g) <=> Cached(x, g)
             /\ \A m : m # n /\ Uses(x, m, h) => Uses(y, m, h)
             /\ (x.abort => y.abort) /\ Ends(x, y)
  <1> DEFINE y == SimpleEvent(x, h, n, mask)
             w == SimpleEventRemove(x, h, n)
             r == Reread(x, n)
  <1>0. Exists(x, n) /\ h \in Range(Elem(x, n).helems) /\ Well(x) /\ Linked(x) /\ Heard(x, n) /\ Cached(x, h)
    BY DEF Uses, Good, Sound, Linked
  <1>1. CASE x.err \/ x.abort
    <2>1. y = x BY <1>1, Zenon DEF SimpleEvent
    <2> QED BY <2>1 DEF Ends
  <1>2. CASE ~(x.err \/ x.abort) /\ "INFO" \in mask
    <2>1. y = SimpleEventAdd(w, h) BY <1>2, Zenon DEF SimpleEvent
    <2>2. Good(w) /\ Kept(x, w, n) BY <1>0, SimpleEventRemoveIs
    <2> HIDE DEF w, y
    <2>3. Cached(w, h) BY <1>0, <2>2 DEF Kept
    <2>4. Good(y) /\ Grown(w, y) BY <2>1, <2>2, <2>3, SimpleEventAddIs
    <2>5. Ends(x, y) BY <1>2, <2>2, <2>4 DEF Kept, Grown, SourceGone, Ends
    <2> QED BY <1>2, <2>2, <2>4, <2>5 DEF Kept, Grown, Uses, y
  <1>3. CASE ~(x.err \/ x.abort) /\ "INFO" \notin mask
    <2>1. y = r BY <1>3, Zenon DEF SimpleEvent
    <2>2. Good(r) /\ Grown(x, r) BY <1>0, <1>3, RereadGood
    <2> HIDE DEF r, y
    <2> QED BY <1>3, <2>1, <2>2 DEF Grown, Uses, y
  <1> QED BY <1>1, <1>2, <1>3

EventOp(p, z, n) == SimpleEvent(z, p.h, n, p.mask)
EventInv(p, z, i) ==
  /\ Good(z) /\ (\A g : Cached(z, g) <=> Cached(p.x, g)) /\ (p.x.abort => z.abort) /\ Ends(p.x, z)
  /\ \A j \in 1 .. Len(p.bag) : j > i => Uses(z, p.bag[j], p.h)
EventFold == INSTANCE FoldInduction WITH Op <- EventOp, Inv <- EventInv

Unheard(y, bag) ==
  IF y.err THEN [y EXCEPT !.torn = @ \union (Range(bag) \cap Range(MixerNames(y)))] ELSE y

(* The bag of a cached control names the elements that use it, each once.  *)
LEMMA BagIs ==
  ASSUME NEW x, Good(x), NEW h, Cached(x, h)
  PROVE  LET bag == BagOf(x, h)
         IN  /\ bag \in Seq(Names) /\ Len(bag) \in Nat /\ DOMAIN bag = 1 .. Len(bag) /\ IsInjective(bag)
             /\ \A j \in 1 .. Len(bag) : Uses(x, bag[j], h)
             /\ \A n : Uses(x, n, h) => \E j \in 1 .. Len(bag) : bag[j] = n
  <1> DEFINE bag == BagOf(x, h)
  <1>1. bag \in Seq(Names)
    <2>1. Well(x) BY DEF Good
    <2> QED BY <2>1, SlotOf
  <1>2. IsInjective(bag) /\ \A n : n \in Range(bag) <=> Uses(x, n, h) BY DEF Good, Linked, Uses
  <1> HIDE DEF bag
  <1>3. Len(bag) \in Nat /\ DOMAIN bag = 1 .. Len(bag) BY <1>1, LenProperties
  <1>4. \A j \in 1 .. Len(bag) : bag[j] \in Range(bag) BY <1>3 DEF Range
  <1>5. \A n \in Range(bag) : \E j \in 1 .. Len(bag) : bag[j] = n BY <1>3 DEF Range
  <1> QED BY <1>1, <1>2, <1>3, <1>4, <1>5 DEF bag

(* The event of a control, which goes through a copy of its bag.           *)
LEMMA ElemEventIs ==
  ASSUME NEW x, Good(x), NEW h, Cached(x, h), NEW mask
  PROVE  LET y == ElemEvent(x, h, mask)
         IN  Good(y) /\ (\A g : Cached(y, g) <=> Cached(x, g)) /\ (x.abort => y.abort) /\ Ends(x, y)
  <1> DEFINE bag == BagOf(x, h)
             p == [x |-> x, h |-> h, mask |-> mask, bag |-> bag]
             f == EventFold!Left(p, x, bag)
             y == ElemEvent(x, h, mask)
  <1>0. /\ bag \in Seq(Names) /\ Len(bag) \in Nat /\ DOMAIN bag = 1 .. Len(bag) /\ IsInjective(bag)
        /\ \A j \in 1 .. Len(bag) : Uses(x, bag[j], h)
    BY BagIs
  <1>1. p.x = x /\ p.h = h /\ p.mask = mask /\ p.bag = bag OBVIOUS
  <1>2. y = Unheard(f, bag)
    <2> HIDE DEF p
    <2>1. ElemEvent(x, p.h, p.mask) = Unheard(EventFold!Left(p, x, BagOf(x, p.h)), BagOf(x, p.h))
      BY Zenon DEF ElemEvent, Unheard, EventOp, FoldLeft, MapThenFoldSet, EventFold!Left, EventFold!Last, Max
    <2> QED BY <1>1, <2>1, Zenon
  <1> HIDE DEF p, f, y, bag
  <1>3. EventInv(p, x, 0) BY <1>0, <1>1 DEF EventInv, Ends
  <1>4. ASSUME NEW i \in 1 .. Len(bag), NEW z, EventInv(p, z, i - 1) PROVE EventInv(p, EventOp(p, z, bag[i]), i)
    <2> DEFINE w == SimpleEvent(z, h, bag[i], mask)
    <2>1. /\ Good(z) /\ (\A g : Cached(z, g) <=> Cached(x, g)) /\ Uses(z, bag[i], h)
          /\ (x.abort => z.abort) /\ Ends(x, z)
          /\ \A j \in 1 .. Len(bag) : j > i - 1 => Uses(z, bag[j], h)
      <3>1. /\ Good(z) /\ (\A g : Cached(z, g) <=> Cached(x, g)) /\ (x.abort => z.abort) /\ Ends(x, z)
            /\ \A j \in 1 .. Len(bag) : j > i - 1 => Uses(z, bag[j], h)
        BY <1>1, <1>4 DEF EventInv
      <3>2. i > i - 1 BY <1>0
      <3> QED BY <3>1, <3>2
    <2>2. /\ Good(w) /\ (\A g : Cached(w, g) <=> Cached(z, g)) /\ (z.abort => w.abort) /\ Ends(z, w)
          /\ \A m : m # bag[i] /\ Uses(z, m, h) => Uses(w, m, h)
      BY <2>1, SimpleEventIs
    <2> HIDE DEF w
    <2>3. ASSUME NEW j \in 1 .. Len(bag), j > i PROVE Uses(w, bag[j], h)
      <3>1. j > i - 1 /\ bag[j] # bag[i] BY <1>0, <2>3 DEF IsInjective
      <3> QED BY <2>1, <2>2, <3>1
    <2>4. EventOp(p, z, bag[i]) = w BY <1>1 DEF EventOp, w
    <2>5. Ends(x, w) BY <2>1, <2>2, EndsOn
    <2> QED BY <1>1, <2>1, <2>2, <2>3, <2>4, <2>5 DEF EventInv
  <1>5. EventInv(p, f, Len(bag)) BY <1>0, <1>3, <1>4, EventFold!LeftHolds DEF f
  <1>6. Good(f) /\ (\A g : Cached(f, g) <=> Cached(x, g)) /\ (x.abort => f.abort) /\ Ends(x, f)
    BY <1>1, <1>5 DEF EventInv
  <1>7. CASE ~f.err BY <1>2, <1>6, <1>7 DEF Unheard, y
  <1>8. CASE f.err
    <2> DEFINE torn1 == f.torn \union (Range(bag) \cap Range(MixerNames(f)))
               z == [f EXCEPT !.torn = torn1]
    <2>1. y = z BY <1>2, <1>8, Zenon DEF Unheard
    <2>2. Well(f) /\ Linked(f) /\ f \in Shapes BY <1>6 DEF Good, Well
    <2>3. torn1 \in SUBSET Names
      <3>1. Range(bag) \subseteq Names BY <1>0, ElementOfSeq DEF Range
      <3> QED BY <2>2, <3>1 DEF Shapes
    <2>4. \A m : m \in f.torn => m \in torn1 OBVIOUS
    <2> HIDE DEF torn1
    <2>5. Marked(f, z) /\ z.err = f.err /\ z.torn = torn1 BY <2>2, <2>3 DEF Shapes, Marked
    <2> HIDE DEF z
    <2>6. (\A m : Exists(z, m) <=> Exists(f, m)) /\ (\A m : Elem(z, m) = Elem(f, m)) BY <2>5, SameMixer DEF Marked
    <2>7. (\A g : Cached(z, g) <=> Cached(f, g)) BY <2>5, SameElems DEF Marked
    <2>8. Well(z) /\ Linked(z) BY <2>2, <2>5, SameArrays DEF Marked
    <2>9. ASSUME NEW m, Exists(z, m) PROVE Sound(z, m)
      <3>1. Sound(f, m) BY <1>6, <2>6, <2>9 DEF Good
      <3> QED BY <3>1, <2>4, <2>5, <2>6 DEF Sound, Heard, Marked
    <2>10. Good(z) BY <2>8, <2>9 DEF Good
    <2>11. Mute(f) => Mute(z) BY <2>5 DEF Mute, Marked
    <2> QED BY <1>6, <2>1, <2>5, <2>7, <2>10, <2>11 DEF Marked, Ends, y
  <1> QED BY <1>7, <1>8

------------------------------------------------------------------------------
(* A control that goes.                                                    *)
At(y, h) == CHOOSE i \in DOMAIN y.elems : y.elems[i].h = h
Deleted(y, h) == [y EXCEPT !.elems = Delete(@, At(y, h) - 1)]

(* Taking a slot out of the cache.                                         *)
LEMMA DeletedIs ==
  ASSUME NEW x, Well(x), NEW h, Cached(x, h)
  PROVE  LET y == Deleted(x, h)
         IN  /\ Well(y) /\ Rest(x, y) /\ y.mixer = x.mixer
             /\ \A g : Cached(y, g) <=> Cached(x, g) /\ g # h
             /\ \A g : Cached(y, g) => BagOf(y, g) = BagOf(x, g)
  <1> DEFINE y == Deleted(x, h)
             at == At(x, h)
             old == x.elems
             new == Delete(old, at - 1)
             ks == Keys(old)
  <1>0. x \in Shapes /\ old \in Seq(Slots) /\ compare \in {"default", "fast"} BY DEF Well, Shapes
  <1>1. Len(old) \in Nat /\ DOMAIN old = 1 .. Len(old) BY <1>0, LenProperties
  <1>2. PICK k \in 1 .. Len(old) : old[k].h = h BY <1>1 DEF Cached, Range
  <1>3. \A j \in 1 .. Len(old) : old[j].h = h => j = k BY <1>2, SlotAt
  <1>4. at = k
    <2>1. \A j \in DOMAIN old : old[j].h = h <=> j = k BY <1>1, <1>2, <1>3
    <2> QED BY <1>1, <2>1 DEF At
  <1>5. y = [x EXCEPT !.elems = new] BY DEF Deleted
  <1> HIDE DEF y, at
  <1> DEFINE d == k - 1
  <1>6. d \in 0 .. Len(old) - 1 /\ d + 1 = k /\ at - 1 = d BY <1>1, <1>2, <1>4
  <1> HIDE DEF d
  <1>7. new \in Seq(Slots) /\ Len(new) = Len(old) - 1
        /\ \A i \in 1 .. Len(old) - 1 : new[i] = IF i <= d THEN old[i] ELSE old[i + 1]
    <2> HIDE DEF old
    <2>1. new = Delete(old, d) BY <1>6
    <2> HIDE DEF new
    <2> QED BY <1>0, <1>6, <2>1, DeleteIs
  <1> HIDE DEF new
  <1>8. y \in Shapes /\ y.elems = new /\ y.mixer = x.mixer /\ Rest(x, y)
    BY <1>0, <1>5, <1>7 DEF Shapes, Rest
  <1>9. ks \in Seq(Int) /\ Len(ks) = Len(old) /\ StrictlySorted(ks)
        /\ \A i \in 1 .. Len(old) : ks[i] = Key(old[i].h)
    BY <1>0, KeysAre DEF Well
  <1>10. Keys(new) \in Seq(Int) /\ Len(Keys(new)) = Len(new)
         /\ \A i \in 1 .. Len(new) : Keys(new)[i] = Key(new[i].h)
    BY <1>0, <1>7, KeysAre
  <1> HIDE DEF ks, old
  <1>11. StrictlySorted(Keys(new))
    <2>1. \A i \in 1 .. Len(Keys(new)) : Keys(new)[i] = IF i <= d THEN ks[i] ELSE ks[i + 1]
      <3> SUFFICES ASSUME NEW i \in 1 .. Len(old) - 1
                   PROVE  Key(new[i].h) = IF i <= d THEN ks[i] ELSE ks[i + 1]
        BY <1>7, <1>10
      <3>1. i \in 1 .. Len(old) /\ i + 1 \in 1 .. Len(old) BY <1>1
      <3>2. CASE i <= d BY <1>7, <1>9, <3>1, <3>2
      <3>3. CASE ~(i <= d) BY <1>7, <1>9, <3>1, <3>3
      <3> QED BY <3>2, <3>3
    <2>2. d \in 0 .. Len(ks) - 1 /\ Len(Keys(new)) = Len(ks) - 1 BY <1>6, <1>7, <1>9, <1>10
    <2> QED BY <1>9, <1>10, <2>1, <2>2, DeleteSorted
  <1>12. Well(y)
    <2>1. MixerNames(y) = MixerNames(x) BY <1>8, SameMixer
    <2> QED BY <1>8, <1>11, <2>1 DEF Well
  <1>13. ASSUME NEW g, Cached(x, g), g # h PROVE Cached(y, g) /\ BagOf(y, g) = BagOf(x, g)
    <2>1. PICK i \in 1 .. Len(old) : old[i].h = g /\ BagOf(x, g) = old[i].bag BY <1>13, SlotOf DEF old
    <2>2. i # k BY <1>2, <1>13, <2>1
    <2> DEFINE j == IF i <= d THEN i ELSE i - 1
    <2>3. j \in 1 .. Len(new) /\ new[j] = old[i]
      <3>1. CASE i <= d BY <1>1, <1>6, <1>7, <2>2, <3>1
      <3>2. CASE ~(i <= d) BY <1>1, <1>6, <1>7, <2>2, <3>2
      <3> QED BY <3>1, <3>2
    <2> HIDE DEF j
    <2> QED BY <1>8, <1>12, <2>1, <2>3, SlotAt
  <1>14. ASSUME NEW g, Cached(y, g) PROVE Cached(x, g) /\ g # h
    <2>1. PICK j \in 1 .. Len(new) : new[j].h = g BY <1>8, <1>12, <1>14, SlotOf
    <2> DEFINE i == IF j <= d THEN j ELSE j + 1
    <2>2. i \in 1 .. Len(old) /\ new[j] = old[i] /\ i # k
      <3>1. CASE j <= d BY <1>1, <1>6, <1>7, <3>1
      <3>2. CASE ~(j <= d) BY <1>1, <1>6, <1>7, <3>2
      <3> QED BY <3>1, <3>2
    <2> HIDE DEF i
    <2>3. Cached(x, old[i].h) BY <2>2, SlotAt DEF old
    <2> QED BY <1>3, <2>1, <2>2, <2>3
  <1> QED BY <1>8, <1>12, <1>13, <1>14 DEF y

GoneOp(p, z, n) == SimpleEventRemove(z, p.h, n)
GoneInv(p, z, i) ==
  /\ Good(z) /\ (\A g : Cached(z, g) <=> Cached(p.x, g)) /\ z.err = p.x.err /\ z.abort = p.x.abort
  /\ \A j \in 1 .. Len(p.bag) : j > i => Uses(z, p.bag[j], p.h)
  /\ \A n : Uses(z, n, p.h) => \E j \in 1 .. Len(p.bag) : j > i /\ p.bag[j] = n
GoneFold == INSTANCE FoldInduction WITH Op <- GoneOp, Inv <- GoneInv

AfterGone(y, h) == IF BagOf(y, h) # <<>> THEN [y EXCEPT !.abort = TRUE] ELSE Deleted(y, h)

(* Its bag empties, so that it is never refused.                           *)
LEMMA ElemGoneIs ==
  ASSUME NEW x, Good(x), NEW h, Cached(x, h)
  PROVE  LET y == ElemGone(x, h)
         IN  /\ Good(y) /\ (\A g : Cached(y, g) <=> Cached(x, g) /\ g # h)
             /\ y.err = x.err /\ y.abort = x.abort
  <1> DEFINE bag == BagOf(x, h)
             p == [x |-> x, h |-> h, bag |-> bag]
             f == GoneFold!Left(p, x, bag)
             y == ElemGone(x, h)
  <1>0. /\ bag \in Seq(Names) /\ Len(bag) \in Nat /\ DOMAIN bag = 1 .. Len(bag) /\ IsInjective(bag)
        /\ \A j \in 1 .. Len(bag) : Uses(x, bag[j], h)
        /\ \A n : Uses(x, n, h) => \E j \in 1 .. Len(bag) : bag[j] = n
    BY BagIs
  <1>1. p.x = x /\ p.h = h /\ p.bag = bag OBVIOUS
  <1>2. y = AfterGone(f, h)
    <2> HIDE DEF p
    <2>1. ElemGone(x, p.h) = AfterGone(GoneFold!Left(p, x, BagOf(x, p.h)), p.h)
      BY Zenon DEF ElemGone, AfterGone, Deleted, At, GoneOp, FoldLeft, MapThenFoldSet,
                   GoneFold!Left, GoneFold!Last, Max
    <2> QED BY <1>1, <2>1, Zenon
  <1> HIDE DEF p, f, y, bag
  <1>3. GoneInv(p, x, 0) BY <1>0, <1>1 DEF GoneInv
  <1>4. ASSUME NEW i \in 1 .. Len(bag), NEW z, GoneInv(p, z, i - 1) PROVE GoneInv(p, GoneOp(p, z, bag[i]), i)
    <2> DEFINE n == bag[i]
               w == SimpleEventRemove(z, h, n)
    <2>1. /\ Good(z) /\ (\A g : Cached(z, g) <=> Cached(x, g)) /\ z.err = x.err /\ z.abort = x.abort
          /\ \A j \in 1 .. Len(bag) : j > i - 1 => Uses(z, bag[j], h)
          /\ \A m : Uses(z, m, h) => \E j \in 1 .. Len(bag) : j > i - 1 /\ bag[j] = m
      BY <1>1, <1>4 DEF GoneInv
    <2>2. Uses(z, n, h)
      <3>1. i > i - 1 BY <1>0
      <3> QED BY <2>1, <3>1
    <2> HIDE DEF n
    <2>3. /\ Good(w) /\ Kept(z, w, n) /\ w.err = z.err
          /\ Exists(w, n) => Range(Elem(w, n).helems) = Range(Elem(z, n).helems) \ {h}
      <3>1. Exists(z, n) /\ h \in Range(Elem(z, n).helems) BY <2>2 DEF Uses
      <3>2. Good(w) /\ Kept(z, w, n) BY <2>1, <3>1, SimpleEventRemoveIs
      <3>3. w.err = z.err BY <2>1, <3>1, SimpleEventRemoveIs
      <3>4. Exists(w, n) => Range(Elem(w, n).helems) = Range(Elem(z, n).helems) \ {h}
        BY <2>1, <3>1, SimpleEventRemoveIs
      <3> QED BY <3>2, <3>3, <3>4
    <2> HIDE DEF w
    <2>4. \A g : Cached(w, g) <=> Cached(z, g) BY <2>3 DEF Kept
    <2>5. w.abort = z.abort BY <2>3 DEF Kept
    <2>6. ~Uses(w, n, h) BY <2>3 DEF Uses
    <2>7. \A m : m # n => (Uses(w, m, h) <=> Uses(z, m, h)) BY <2>3 DEF Kept, Uses
    <2>8. ASSUME NEW j \in 1 .. Len(bag), j > i PROVE Uses(w, bag[j], h)
      <3>1. j > i - 1 /\ bag[j] # n BY <1>0, <2>8 DEF IsInjective, n
      <3> QED BY <2>1, <2>7, <3>1
    <2>9. ASSUME NEW m, Uses(w, m, h) PROVE \E j \in 1 .. Len(bag) : j > i /\ bag[j] = m
      <3>1. m # n /\ Uses(z, m, h) BY <2>6, <2>7, <2>9
      <3>2. PICK j \in 1 .. Len(bag) : j > i - 1 /\ bag[j] = m BY <2>1, <3>1
      <3>3. j # i BY <3>1, <3>2 DEF n
      <3> QED BY <1>0, <3>2, <3>3
    <2>10. GoneOp(p, z, bag[i]) = w BY <1>1 DEF GoneOp, w, n
    <2> QED BY <1>1, <2>1, <2>3, <2>4, <2>5, <2>8, <2>9, <2>10 DEF GoneInv
  <1>5. GoneInv(p, f, Len(bag)) BY <1>0, <1>3, <1>4, GoneFold!LeftHolds DEF f
  <1>6. /\ Good(f) /\ (\A g : Cached(f, g) <=> Cached(x, g)) /\ f.err = x.err /\ f.abort = x.abort
        /\ \A n : ~Uses(f, n, h)
    <2>1. \A j \in 1 .. Len(bag) : ~(j > Len(bag)) BY <1>0
    <2> QED BY <1>1, <1>5, <2>1 DEF GoneInv
  <1>7. BagOf(f, h) = <<>>
    <2>1. Cached(f, h) BY <1>6
    <2>2. /\ BagOf(f, h) \in Seq(Names) /\ Len(BagOf(f, h)) \in Nat
          /\ \A j \in 1 .. Len(BagOf(f, h)) : Uses(f, BagOf(f, h)[j], h)
      BY <1>6, <2>1, BagIs
    <2>3. Len(BagOf(f, h)) = 0 BY <1>6, <2>2
    <2> QED BY <2>2, <2>3, EmptySeq
  <1>8. y = Deleted(f, h) BY <1>2, <1>7, Zenon DEF AfterGone
  <1>9. Well(f) /\ Linked(f) /\ Cached(f, h) BY <1>6 DEF Good
  <1>10. /\ Well(y) /\ Rest(f, y) /\ y.mixer = f.mixer
         /\ \A g : Cached(y, g) <=> Cached(f, g) /\ g # h
         /\ \A g : Cached(y, g) => BagOf(y, g) = BagOf(f, g)
    BY <1>8, <1>9, DeletedIs
  <1>11. (\A m : Exists(y, m) <=> Exists(f, m)) /\ (\A m : Elem(y, m) = Elem(f, m)) BY <1>10, SameMixer
  <1>12. Linked(y)
    <2>1. \A g : Cached(y, g) => IsInjective(BagOf(y, g)) BY <1>9, <1>10 DEF Linked
    <2>2. \A m : Exists(y, m) => /\ IsInjective(Elem(y, m).helems)
                                 /\ \A g \in Range(Elem(y, m).helems) : Cached(y, g)
      BY <1>6, <1>9, <1>10, <1>11 DEF Linked, Uses
    <2>3. \A g, m : Cached(y, g) =>
            (m \in Range(BagOf(y, g)) <=> Exists(y, m) /\ g \in Range(Elem(y, m).helems))
      BY <1>9, <1>10, <1>11 DEF Linked
    <2> QED BY <2>1, <2>2, <2>3 DEF Linked
  <1>13. ASSUME NEW m, Exists(y, m) PROVE Sound(y, m)
    <2>1. Sound(f, m) BY <1>6, <1>11, <1>13 DEF Good
    <2> QED BY <2>1, <1>10, <1>11 DEF Sound, Heard, Rest
  <1>14. Good(y) BY <1>10, <1>12, <1>13 DEF Good
  <1> QED BY <1>6, <1>10, <1>14 DEF Rest, y

------------------------------------------------------------------------------
(* A control that comes has its place among the others, and no bag.        *)
Slotted(x, f, h) == [x EXCEPT !.elems = Insert(@, f, [h |-> h, bag |-> <<>>])]
SameKey(x, h) == \E g : Cached(x, g) /\ Key(g) = Key(h)

(* A lookup finds the control of that key, if there is one.                *)
LEMMA LookupIs ==
  ASSUME NEW x, Well(x), NEW h \in RealHandles
  PROVE  LET f == Find(Keys(x.elems), Key(h))
         IN  /\ Found(f) <=> SameKey(x, h)
             /\ Found(f) => LET g == x.elems[f.idx + 1].h
                            IN  Cached(x, g) /\ Key(g) = Key(h)
                                /\ \A i : Cached(x, i) /\ Key(i) = Key(h) => i = g
  <1> DEFINE old == x.elems
             ks == Keys(old)
             k == Key(h)
             f == Find(ks, k)
  <1>0. x \in Shapes /\ old \in Seq(Slots) /\ compare \in {"default", "fast"} BY DEF Well, Shapes
  <1>1. Len(old) \in Nat /\ DOMAIN old = 1 .. Len(old) BY <1>0, LenProperties
  <1>2. k \in Int BY <1>0, HandlesInt
  <1>3. ks \in Seq(Int) /\ Len(ks) = Len(old) /\ StrictlySorted(ks)
        /\ \A i \in 1 .. Len(old) : ks[i] = Key(old[i].h)
    BY <1>0, KeysAre DEF Well
  <1> HIDE DEF k, ks
  <1>4. /\ Found(f) => f.idx \in 0 .. Len(ks) - 1 /\ ks[f.idx + 1] = k
        /\ ~Found(f) => \A i \in 1 .. Len(ks) : ks[i] # k
    BY <1>2, <1>3, FoundIs
  <1>5. \A i, j \in 1 .. Len(old) : ks[i] = ks[j] => i = j
    <2>1. \A i, j \in 1 .. Len(ks) : i < j => ks[i] < ks[j] BY <1>3, SortedApart
    <2>2. \A i \in 1 .. Len(ks) : ks[i] \in Int BY <1>3, ElementOfSeq
    <2>3. SUFFICES ASSUME NEW i \in 1 .. Len(old), NEW j \in 1 .. Len(old), ks[i] = ks[j], i # j PROVE FALSE
      OBVIOUS
    <2>4. CASE i < j BY <1>1, <1>3, <2>1, <2>2, <2>3, <2>4
    <2>5. CASE j < i BY <1>1, <1>3, <2>1, <2>2, <2>3, <2>5
    <2> QED BY <1>1, <2>3, <2>4, <2>5
  <1> HIDE DEF f, old
  <1>6. ASSUME Found(f)
        PROVE  LET g == old[f.idx + 1].h
               IN  Cached(x, g) /\ Key(g) = k /\ \A i : Cached(x, i) /\ Key(i) = k => i = g
    <2> DEFINE at == f.idx + 1
    <2>1. at \in 1 .. Len(old) /\ ks[at] = k BY <1>1, <1>3, <1>4, <1>6
    <2> HIDE DEF at
    <2>2. Cached(x, old[at].h) BY <2>1, SlotAt DEF old
    <2>3. Key(old[at].h) = k BY <1>3, <2>1
    <2>4. ASSUME NEW i, Cached(x, i), Key(i) = k PROVE i = old[at].h
      <3>1. PICK j \in 1 .. Len(old) : old[j].h = i BY <2>4, SlotOf DEF old
      <3>2. ks[j] = ks[at] BY <1>3, <2>1, <2>4, <3>1
      <3>3. j = at BY <1>5, <2>1, <3>2
      <3> QED BY <3>1, <3>3
    <2> QED BY <2>2, <2>3, <2>4 DEF at
  <1>7. ASSUME ~Found(f) PROVE ~SameKey(x, h)
    <2>1. SUFFICES ASSUME NEW g, Cached(x, g), Key(g) = k PROVE FALSE BY DEF SameKey, k
    <2>2. PICK j \in 1 .. Len(old) : old[j].h = g BY <2>1, SlotOf DEF old
    <2> QED BY <1>3, <1>4, <1>7, <2>1, <2>2
  <1>8. Found(f) => SameKey(x, h) BY <1>6 DEF SameKey, k
  <1> QED BY <1>6, <1>7, <1>8 DEF old, f, ks, k

(* Putting one in.                                                         *)
LEMMA SlottedIs ==
  ASSUME NEW x, Good(x), NEW h \in RealHandles, ~Found(Find(Keys(x.elems), Key(h)))
  PROVE  LET y == Slotted(x, Find(Keys(x.elems), Key(h)), h)
         IN  /\ Good(y) /\ Rest(x, y)
             /\ \A g : Cached(y, g) <=> Cached(x, g) \/ g = h
  <1> DEFINE old == x.elems
             ks == Keys(old)
             k == Key(h)
             f == Find(ks, k)
             e == [h |-> h, bag |-> <<>>]
             new == Insert(old, f, e)
             y == Slotted(x, f, h)
  <1>g. Well(x) /\ Linked(x) BY DEF Good
  <1>0. x \in Shapes /\ old \in Seq(Slots) /\ compare \in {"default", "fast"} BY <1>g DEF Well, Shapes
  <1>1. Len(old) \in Nat /\ DOMAIN old = 1 .. Len(old) BY <1>0, LenProperties
  <1>2. k \in Int BY <1>0, HandlesInt
  <1>e. e \in Slots
    <2>1. <<>> \in Seq(Names) BY EmptySeq
    <2> QED BY <2>1 DEF Slots
  <1>3. ks \in Seq(Int) /\ Len(ks) = Len(old) /\ StrictlySorted(ks)
        /\ \A i \in 1 .. Len(old) : ks[i] = Key(old[i].h)
    BY <1>0, <1>g, KeysAre DEF Well
  <1>4. e.h = h /\ e.bag = <<>> OBVIOUS
  <1>n. ~SameKey(x, h) BY <1>g, LookupIs
  <1>m. ~Cached(x, h) BY <1>n DEF SameKey
  <1>k. \A i \in 1 .. Len(ks) : ks[i] # k
    <2> HIDE DEF ks, k
    <2>1. ~Found(Find(ks, k)) BY DEF ks, k
    <2> QED BY <1>2, <1>3, <2>1, FoundIs
  <1> HIDE DEF e
  <1>5. PICK at \in 0 .. Len(old) :
          /\ new = PutAt(old, at, e)
          /\ at > 0 => ks[at] < k
          /\ at < Len(old) => k < ks[at + 1]
    <2> HIDE DEF ks, k, old
    <2>1. ~Found(Find(ks, k)) BY DEF ks, k, old
    <2> QED BY <1>0, <1>2, <1>3, <1>e, <2>1, InsertIs
  <1>6. y = [x EXCEPT !.elems = new] BY DEF Slotted, e
  <1> HIDE DEF y, new, f
  <1>7. new \in Seq(Slots) /\ Len(new) = Len(old) + 1
        /\ \A i \in 1 .. Len(old) + 1 : new[i] = IF i <= at THEN old[i] ELSE IF i = at + 1 THEN e ELSE old[i - 1]
    <2> HIDE DEF old
    <2> QED BY <1>0, <1>5, <1>e, PutAtIs
  <1>8. y \in Shapes /\ y.elems = new /\ y.mixer = x.mixer /\ Rest(x, y)
    BY <1>0, <1>6, <1>7 DEF Shapes, Rest
  <1>10. Keys(new) \in Seq(Int) /\ Len(Keys(new)) = Len(new)
         /\ \A i \in 1 .. Len(new) : Keys(new)[i] = Key(new[i].h)
    BY <1>0, <1>7, KeysAre
  <1> HIDE DEF ks, old
  <1>11. StrictlySorted(Keys(new))
    <2>1. \A i \in 1 .. Len(Keys(new)) :
            Keys(new)[i] = IF i <= at THEN ks[i] ELSE IF i = at + 1 THEN k ELSE ks[i - 1]
      <3> SUFFICES ASSUME NEW i \in 1 .. Len(old) + 1
                   PROVE  Key(new[i].h) = IF i <= at THEN ks[i] ELSE IF i = at + 1 THEN k ELSE ks[i - 1]
        BY <1>7, <1>10
      <3>2. CASE i <= at
        <4>1. i \in 1 .. Len(old) BY <1>1, <3>2
        <4> QED BY <1>7, <1>3, <4>1, <3>2
      <3>3. CASE i = at + 1 BY <1>7, <1>4, <3>3
      <3>4. CASE i > at + 1
        <4>1. i - 1 \in 1 .. Len(old) BY <1>1, <3>4
        <4>2. ~(i <= at) /\ i # at + 1 /\ i \in 1 .. Len(old) + 1 BY <3>4
        <4>3. new[i] = old[i - 1] BY <1>7, <4>2
        <4>4. ks[i - 1] = Key(old[i - 1].h) BY <1>3, <4>1
        <4> QED BY <4>2, <4>3, <4>4
      <3> QED BY <1>1, <3>2, <3>3, <3>4
    <2>2. Len(Keys(new)) = Len(ks) + 1 BY <1>3, <1>7, <1>10
    <2> HIDE DEF k
    <2>3. at \in 0 .. Len(ks) /\ (at > 0 => ks[at] < k) /\ (at < Len(ks) => k < ks[at + 1]) BY <1>3, <1>5
    <2> QED BY <1>2, <1>3, <1>10, <2>1, <2>2, <2>3, PutSorted
  <1>12. Well(y)
    <2>1. MixerNames(y) = MixerNames(x) BY <1>8, SameMixer
    <2> QED BY <1>8, <1>11, <1>g, <2>1 DEF Well
  <1>13. ASSUME NEW g, Cached(x, g) PROVE Cached(y, g) /\ BagOf(y, g) = BagOf(x, g)
    <2>1. PICK i \in 1 .. Len(old) : old[i].h = g /\ BagOf(x, g) = old[i].bag BY <1>13, <1>g, SlotOf DEF old
    <2> DEFINE j == IF i <= at THEN i ELSE i + 1
    <2>3. j \in 1 .. Len(new) /\ new[j] = old[i] BY <1>1, <1>7
    <2> HIDE DEF j
    <2> QED BY <1>8, <1>12, <2>1, <2>3, SlotAt
  <1>14. Cached(y, h) /\ BagOf(y, h) = <<>>
    <2>1. at + 1 \in 1 .. Len(new) /\ new[at + 1] = e BY <1>1, <1>7
    <2> DEFINE j == at + 1
    <2> HIDE DEF j
    <2>2. j \in 1 .. Len(new) /\ new[j] = e BY <2>1 DEF j
    <2> QED BY <1>4, <1>8, <1>12, <2>2, SlotAt
  <1>15. ASSUME NEW g, Cached(y, g) PROVE Cached(x, g) \/ g = h
    <2>1. PICK j \in 1 .. Len(new) : new[j].h = g BY <1>8, <1>12, <1>15, SlotOf
    <2>2. CASE j = at + 1 BY <1>4, <1>7, <2>1, <2>2
    <2>3. CASE j # at + 1
      <3> DEFINE i == IF j <= at THEN j ELSE j - 1
      <3>1. i \in 1 .. Len(old) /\ new[j] = old[i] BY <1>1, <1>7, <2>3
      <3> HIDE DEF i
      <3>2. Cached(x, old[i].h) BY <1>g, <3>1, SlotAt DEF old
      <3> QED BY <2>1, <3>1, <3>2
    <2> QED BY <2>2, <2>3
  <1>16. (\A n : Exists(y, n) <=> Exists(x, n)) /\ \A n : Elem(y, n) = Elem(x, n) BY <1>8, SameMixer
  <1>17. Linked(y)
    <2>1. ASSUME NEW g, Cached(y, g) PROVE IsInjective(BagOf(y, g))
      <3>1. CASE g = h BY <1>14, <3>1 DEF IsInjective
      <3>2. CASE g # h
        <4>1. Cached(x, g) /\ BagOf(y, g) = BagOf(x, g) BY <1>13, <1>15, <2>1, <3>2
        <4> QED BY <1>g, <4>1 DEF Linked
      <3> QED BY <3>1, <3>2
    <2>2. ASSUME NEW n, Exists(y, n)
          PROVE  IsInjective(Elem(y, n).helems) /\ \A g \in Range(Elem(y, n).helems) : Cached(y, g)
      <3>1. IsInjective(Elem(x, n).helems) /\ \A g \in Range(Elem(x, n).helems) : Cached(x, g)
        BY <1>16, <1>g, <2>2 DEF Linked
      <3> QED BY <1>13, <1>16, <3>1
    <2>3. ASSUME NEW g, NEW n, Cached(y, g)
          PROVE  n \in Range(BagOf(y, g)) <=> Exists(y, n) /\ g \in Range(Elem(y, n).helems)
      <3>1. CASE Cached(x, g)
        <4>1. n \in Range(BagOf(x, g)) <=> Exists(x, n) /\ g \in Range(Elem(x, n).helems)
          BY <1>g, <3>1 DEF Linked
        <4>2. BagOf(y, g) = BagOf(x, g) BY <1>13, <3>1
        <4>3. (Exists(y, n) <=> Exists(x, n)) /\ Elem(y, n) = Elem(x, n) BY <1>16
        <4> QED BY <4>1, <4>2, <4>3
      <3>2. CASE ~Cached(x, g)
        <4>1. g = h BY <1>15, <2>3, <3>2
        <4>2. n \notin Range(BagOf(y, g)) BY <4>1, <1>14 DEF Range
        <4>3. ~(Exists(x, n) /\ g \in Range(Elem(x, n).helems)) BY <1>g, <3>2 DEF Linked
        <4> QED BY <1>16, <4>2, <4>3
      <3> QED BY <3>1, <3>2
    <2> QED BY <2>1, <2>2, <2>3 DEF Linked
  <1>18. ASSUME NEW n, Exists(y, n) PROVE Sound(y, n)
    <2>1. Sound(x, n) /\ Elem(y, n) = Elem(x, n) BY <1>16, <1>18 DEF Good
    <2> QED BY <1>8, <2>1 DEF Sound, Heard, Rest
  <1>19. Good(y) BY <1>12, <1>17, <1>18 DEF Good
  <1> QED BY <1>8, <1>13, <1>14, <1>15, <1>19 DEF y, f, ks, k, old

(* What an event does to the cache, by the control of its key.             *)
Handled(x, y, ev) ==
  /\ Good(y)
  /\ \A g : Cached(y, g) => Cached(x, g) \/ g = ev.h
  /\ ev.mask = REMOVE =>
       IF SameKey(x, ev.h)
       THEN y.abort = x.abort /\ \A g : Cached(y, g) <=> Cached(x, g) /\ Key(g) # Key(ev.h)
       ELSE y.abort
  /\ ev.mask # REMOVE /\ "ADD" \in ev.mask /\ ~x.err =>
       IF SameKey(x, ev.h) THEN y.abort
       ELSE /\ \A g : Cached(y, g) <=> Cached(x, g) \/ g = ev.h
            /\ (y.abort => x.abort \/ Mute(y) \/ \E g : /\ Cached(x, g) \/ g = ev.h
                                                       /\ Control[g[1]].type = "CAPTURE_SOURCE" /\ Gone(card, g))
  /\ ev.mask # REMOVE /\ "ADD" \notin ev.mask =>
       /\ \A g : Cached(y, g) <=> Cached(x, g)
       /\ (y.abort => x.abort \/ SourceGone(x) \/ Mute(y))

(* A new control is offered to the elements.                               *)
LEMMA ElemNewIs ==
  ASSUME NEW x, Good(x), NEW h, Cached(x, h)
  PROVE  LET y == ElemNew(x, h)
         IN  Good(y) /\ (\A g : Cached(y, g) <=> Cached(x, g)) /\ (x.abort => y.abort) /\ Ends(x, y)
  <1>1. Good(SimpleEventAdd(x, h)) /\ Grown(x, SimpleEventAdd(x, h)) BY SimpleEventAddIs
  <1>2. (\A g : Cached(SimpleEventAdd(x, h), g) <=> Cached(x, g))
        /\ (x.abort => SimpleEventAdd(x, h).abort) /\ Ends(x, SimpleEventAdd(x, h))
    BY <1>1 DEF Grown
  <1> QED BY <1>1, <1>2 DEF ElemNew, Ends

(* A removal takes what has the key of the control, and asserts that there *)
(* is one.                                                                 *)
LEMMA HandleRemoveIs ==
  ASSUME NEW x, Good(x), NEW ev, ev.h \in RealHandles
  PROVE  LET y == HandleRemove(x, ev)
         IN  /\ Good(y)
             /\ IF SameKey(x, ev.h)
                THEN y.abort = x.abort /\ \A g : Cached(y, g) <=> Cached(x, g) /\ Key(g) # Key(ev.h)
                ELSE y.abort /\ \A g : Cached(y, g) <=> Cached(x, g)
  <1> DEFINE f == Find(Keys(x.elems), Key(ev.h))
             g == x.elems[f.idx + 1].h
             y == HandleRemove(x, ev)
  <1>0. Well(x) BY DEF Good
  <1>1. /\ Found(f) <=> SameKey(x, ev.h)
        /\ Found(f) => Cached(x, g) /\ Key(g) = Key(ev.h)
                       /\ \A i : Cached(x, i) /\ Key(i) = Key(ev.h) => i = g
    BY <1>0, LookupIs
  <1>2. y = IF ~Found(f) THEN [x EXCEPT !.abort = TRUE] ELSE ElemGone(x, g) BY DEF HandleRemove
  <1> HIDE DEF f, g, y
  <1>3. CASE Found(f)
    <2>1. Good(y) /\ (\A i : Cached(y, i) <=> Cached(x, i) /\ i # g) /\ y.abort = x.abort
      BY <1>1, <1>2, <1>3, ElemGoneIs
    <2>2. \A i : Cached(x, i) => (i # g <=> Key(i) # Key(ev.h)) BY <1>1, <1>3
    <2> QED BY <1>1, <1>3, <2>1, <2>2 DEF y
  <1>4. CASE ~Found(f)
    <2>1. Good([x EXCEPT !.abort = TRUE]) BY ErrGood
    <2>2. [x EXCEPT !.abort = TRUE].abort BY <1>0 DEF Well, Shapes
    <2>3. [x EXCEPT !.abort = TRUE].elems = x.elems BY <1>0 DEF Well, Shapes
    <2>4. \A i : Cached([x EXCEPT !.abort = TRUE], i) <=> Cached(x, i) BY <2>3, SameElems
    <2> QED BY <1>1, <1>2, <1>4, <2>1, <2>2, <2>4 DEF y
  <1> QED BY <1>3, <1>4

(* An addition puts the control in, unless its key is there.               *)
LEMMA HandleAddIs ==
  ASSUME NEW x, Good(x), NEW ev, ev.h \in RealHandles, "ADD" \in ev.mask
  PROVE  LET y == HandleAdd(x, ev)
         IN  /\ Good(y)
             /\ IF SameKey(x, ev.h) THEN y.abort /\ \A g : Cached(y, g) <=> Cached(x, g)
                ELSE /\ \A g : Cached(y, g) <=> Cached(x, g) \/ g = ev.h
                     /\ (y.abort => x.abort \/ Mute(y) \/ \E g : /\ Cached(x, g) \/ g = ev.h
                                                                /\ Control[g[1]].type = "CAPTURE_SOURCE"
                                                                /\ Gone(card, g))
  <1> DEFINE f == Find(Keys(x.elems), Key(ev.h))
             w == Slotted(x, f, ev.h)
             y == HandleAdd(x, ev)
  <1>0. Well(x) BY DEF Good
  <1>1. Found(f) <=> SameKey(x, ev.h) BY <1>0, LookupIs
  <1>2. y = IF Found(f) THEN [x EXCEPT !.abort = TRUE] ELSE ElemNew(w, ev.h) BY DEF HandleAdd, Slotted
  <1>3. CASE Found(f)
    <2> HIDE DEF f, w
    <2>1. Good([x EXCEPT !.abort = TRUE]) BY ErrGood
    <2>2. [x EXCEPT !.abort = TRUE].abort BY <1>0 DEF Well, Shapes
    <2>3. [x EXCEPT !.abort = TRUE].elems = x.elems BY <1>0 DEF Well, Shapes
    <2>4. \A i : Cached([x EXCEPT !.abort = TRUE], i) <=> Cached(x, i) BY <2>3, SameElems
    <2> HIDE DEF y
    <2> QED BY <1>1, <1>2, <1>3, <2>1, <2>2, <2>4 DEF y
  <1>4. CASE ~Found(f)
    <2>1. Good(w) /\ Rest(x, w) /\ \A g : Cached(w, g) <=> Cached(x, g) \/ g = ev.h
      <3> HIDE DEF w
      <3> QED BY <1>4, SlottedIs DEF w, f
    <2> HIDE DEF f, w
    <2>2. Cached(w, ev.h) BY <2>1
    <2>3. y = ElemNew(w, ev.h) BY <1>2, <1>4
    <2> HIDE DEF y
    <2>4. Good(y) /\ (\A g : Cached(y, g) <=> Cached(w, g)) /\ (y.abort => w.abort \/ SourceGone(w) \/ Mute(y))
      BY <2>1, <2>2, <2>3, ElemNewIs DEF Ends
    <2>5. w.abort = x.abort BY <2>1 DEF Rest
    <2>6. SourceGone(w) => \E g : /\ Cached(x, g) \/ g = ev.h
                                  /\ Control[g[1]].type = "CAPTURE_SOURCE" /\ Gone(card, g)
      BY <2>1 DEF SourceGone
    <2>7. ~SameKey(x, ev.h) BY <1>1, <1>4
    <2> QED BY <2>1, <2>4, <2>5, <2>6, <2>7 DEF y
  <1> QED BY <1>3, <1>4

(* A change of values or info keeps the cache.                             *)
LEMMA HandleChangeIs ==
  ASSUME NEW x, Good(x), NEW ev, ev.h \in RealHandles
  PROVE  LET y == HandleChange(x, ev)
         IN  /\ Good(y) /\ (\A g : Cached(y, g) <=> Cached(x, g)) /\ Ends(x, y)
             /\ (x.abort => y.abort)
  <1> DEFINE f == Find(Keys(x.elems), Key(ev.h))
             g == x.elems[f.idx + 1].h
             y == HandleChange(x, ev)
  <1>0. Well(x) BY DEF Good
  <1>1. Found(f) => Cached(x, g) BY <1>0, LookupIs
  <1>2. y = IF x.err \/ x.abort \/ ev.mask \cap {"VALUE", "INFO"} = {} THEN x
            ELSE IF ~Found(f) THEN [x EXCEPT !.err = TRUE]
            ELSE ElemEvent(x, g, ev.mask)
    BY DEF HandleChange
  <1> HIDE DEF f, g, y
  <1>3. Good([x EXCEPT !.err = TRUE]) BY ErrGood
  <1>4. /\ [x EXCEPT !.err = TRUE].elems = x.elems /\ [x EXCEPT !.err = TRUE].abort = x.abort
        /\ [x EXCEPT !.err = TRUE].mixer = x.mixer
    BY <1>0 DEF Well, Shapes
  <1>5. \A i : Cached([x EXCEPT !.err = TRUE], i) <=> Cached(x, i) BY <1>4, SameElems
  <1>6. CASE y = x BY <1>6 DEF y, Ends
  <1>7. CASE y = [x EXCEPT !.err = TRUE] BY <1>3, <1>4, <1>5, <1>7 DEF y, Ends
  <1>8. CASE y = ElemEvent(x, g, ev.mask) /\ Found(f) /\ ~x.abort
    <2>1. Good(y) /\ (\A i : Cached(y, i) <=> Cached(x, i)) /\ Ends(x, y)
      BY <1>1, <1>8, ElemEventIs
    <2> QED BY <1>8, <2>1 DEF y
  <1> QED BY <1>2, <1>6, <1>7, <1>8

(* Every event keeps the arrays, and does to the cache what Handled says.  *)
LEMMA HandleEventIs ==
  ASSUME NEW x, Good(x), NEW ev, ev.h \in RealHandles
  PROVE  Handled(x, HandleEvent(x, ev), ev)
  <1> DEFINE w == HandleAdd(x, ev)
             y == HandleEvent(x, ev)
  <1>1. CASE ev.mask = REMOVE
    <2>1. y = HandleRemove(x, ev) BY <1>1 DEF HandleEvent
    <2> HIDE DEF y
    <2>2. /\ Good(y)
          /\ IF SameKey(x, ev.h)
             THEN y.abort = x.abort /\ \A g : Cached(y, g) <=> Cached(x, g) /\ Key(g) # Key(ev.h)
             ELSE y.abort /\ \A g : Cached(y, g) <=> Cached(x, g)
      BY <2>1, HandleRemoveIs
    <2>3. \A g : Cached(y, g) => Cached(x, g) BY <2>2
    <2> QED BY <1>1, <2>2, <2>3 DEF Handled, y
  <1>2. CASE ev.mask # REMOVE
    <2>1. y = HandleChange(w, ev) BY <1>2 DEF HandleEvent
    <2> HIDE DEF y
    <2>2. CASE "ADD" \in ev.mask
      <3>1. /\ Good(w)
            /\ IF SameKey(x, ev.h) THEN w.abort /\ \A g : Cached(w, g) <=> Cached(x, g)
               ELSE /\ \A g : Cached(w, g) <=> Cached(x, g) \/ g = ev.h
                    /\ (w.abort => x.abort \/ Mute(w) \/ \E g : /\ Cached(x, g) \/ g = ev.h
                                                               /\ Control[g[1]].type = "CAPTURE_SOURCE"
                                                               /\ Gone(card, g))
        BY <2>2, HandleAddIs
      <3> HIDE DEF w
      <3>2. Good(y) /\ (\A g : Cached(y, g) <=> Cached(w, g)) /\ Ends(w, y)
            /\ (w.abort => y.abort)
        BY <2>1, <3>1, HandleChangeIs
      <3>3. CASE SameKey(x, ev.h)
        <4>1. y.abort BY <3>1, <3>2, <3>3
        <4>2. \A g : Cached(y, g) <=> Cached(x, g) BY <3>1, <3>2, <3>3
        <4> QED BY <1>2, <2>2, <3>2, <3>3, <4>1, <4>2 DEF Handled, y
      <3>4. CASE ~SameKey(x, ev.h)
        <4>1. \A g : Cached(y, g) <=> Cached(x, g) \/ g = ev.h BY <3>1, <3>2, <3>4
        <4>2. y.abort => x.abort \/ Mute(y) \/ \E g : /\ Cached(x, g) \/ g = ev.h
                                                     /\ Control[g[1]].type = "CAPTURE_SOURCE" /\ Gone(card, g)
          BY <3>1, <3>2, <3>4 DEF SourceGone, Ends, Mute
        <4> QED BY <1>2, <2>2, <3>2, <3>4, <4>1, <4>2 DEF Handled, y
      <3> QED BY <3>3, <3>4
    <2>3. CASE "ADD" \notin ev.mask
      <3>1. w = x BY <2>3 DEF HandleAdd
      <3> HIDE DEF w
      <3>2. Good(y) /\ (\A g : Cached(y, g) <=> Cached(x, g)) /\ (y.abort => x.abort \/ SourceGone(x) \/ Mute(y))
        BY <2>1, <3>1, HandleChangeIs DEF Ends
      <3> QED BY <1>2, <2>3, <3>2 DEF Handled, y
    <2> QED BY <2>2, <2>3
  <1> QED BY <1>1, <1>2

------------------------------------------------------------------------------
(* Every control offered to the class: as it registers, and as the controls*)
(* are loaded.                                                             *)
RegOp(p, z, e) == IF z.err \/ z.abort THEN z ELSE SimpleEventAdd(z, e.h)
FillOp(p, z, e) == ElemNew(z, e.h)
Offer(x, z) ==
  Good(z) /\ (\A g : Cached(z, g) <=> Cached(x, g)) /\ (x.abort => z.abort) /\ Ends(x, z)
OfferInv(p, z, i) == Offer(p, z)
RegFold == INSTANCE FoldInduction WITH Op <- RegOp, Inv <- OfferInv
FillFold == INSTANCE FoldInduction WITH Op <- FillOp, Inv <- OfferInv

(* Offering twice is offering.                                             *)
LEMMA OfferOn ==
  ASSUME NEW x, NEW y, NEW z, Offer(x, y), Offer(y, z)
  PROVE  Offer(x, z)
  <1>1. Ends(x, z) BY EndsOn DEF Offer
  <1> QED BY <1>1 DEF Offer

(* Registering the class offers each control that is cached.               *)
LEMMA RegisteredIs ==
  ASSUME NEW x, Good(x), NEW es \in Seq(Slots), \A i \in 1 .. Len(es) : Cached(x, es[i].h)
  PROVE  Offer(x, FoldLeft(LAMBDA y, e : IF y.err \/ y.abort THEN y ELSE SimpleEventAdd(y, e.h), x, es))
  <1> DEFINE f == RegFold!Left(x, x, es)
  <1>1. FoldLeft(LAMBDA y, e : IF y.err \/ y.abort THEN y ELSE SimpleEventAdd(y, e.h), x, es) = f
    BY Zenon DEF RegOp, FoldLeft, MapThenFoldSet, RegFold!Left, RegFold!Last, Max
  <1>2. OfferInv(x, x, 0) BY DEF OfferInv, Offer, Ends
  <1>3. ASSUME NEW i \in 1 .. Len(es), NEW z, OfferInv(x, z, i - 1) PROVE OfferInv(x, RegOp(x, z, es[i]), i)
    <2>1. Offer(x, z) /\ Good(z) /\ Cached(z, es[i].h) BY <1>3 DEF OfferInv, Offer
    <2>2. Good(SimpleEventAdd(z, es[i].h)) /\ Grown(z, SimpleEventAdd(z, es[i].h)) BY <2>1, SimpleEventAddIs
    <2>3. Offer(z, SimpleEventAdd(z, es[i].h)) BY <2>2 DEF Offer, Grown
    <2>4. Offer(x, SimpleEventAdd(z, es[i].h)) BY <2>1, <2>3, OfferOn
    <2> QED BY <2>1, <2>4 DEF OfferInv, RegOp
  <1> HIDE DEF f
  <1>4. OfferInv(x, f, Len(es)) BY <1>2, <1>3, RegFold!LeftHolds, Zenon DEF f
  <1> QED BY <1>1, <1>4, Zenon DEF OfferInv

(* So does the load.                                                       *)
LEMMA FilledIs ==
  ASSUME NEW x, Good(x), NEW es \in Seq(Slots), \A i \in 1 .. Len(es) : Cached(x, es[i].h)
  PROVE  Offer(x, FoldLeft(LAMBDA y, e : ElemNew(y, e.h), x, es))
  <1> DEFINE f == FillFold!Left(x, x, es)
  <1>1. FoldLeft(LAMBDA y, e : ElemNew(y, e.h), x, es) = f
    BY Zenon DEF FillOp, FoldLeft, MapThenFoldSet, FillFold!Left, FillFold!Last, Max
  <1>2. OfferInv(x, x, 0) BY DEF OfferInv, Offer, Ends
  <1>3. ASSUME NEW i \in 1 .. Len(es), NEW z, OfferInv(x, z, i - 1) PROVE OfferInv(x, FillOp(x, z, es[i]), i)
    <2>1. Offer(x, z) /\ Good(z) /\ Cached(z, es[i].h) BY <1>3 DEF OfferInv, Offer
    <2>2. Offer(z, ElemNew(z, es[i].h)) BY <2>1, ElemNewIs DEF Offer
    <2>3. Offer(x, ElemNew(z, es[i].h)) BY <2>1, <2>2, OfferOn
    <2> QED BY <2>3 DEF OfferInv, FillOp
  <1> HIDE DEF f
  <1>4. OfferInv(x, f, Len(es)) BY <1>2, <1>3, FillFold!LeftHolds, Zenon DEF f
  <1> QED BY <1>1, <1>4, Zenon DEF OfferInv

(* Without a control there is no element.                                  *)
LEMMA EmptyIs ==
  ASSUME NEW y, Good(y), \A g : ~Cached(y, g)
  PROVE  y.elems = <<>> /\ y.mixer = <<>>
  <1>6. Well(y) /\ y.elems \in Seq(Slots) /\ y.mixer \in Seq(Melems) BY DEF Good, Well, Shapes
  <1>7. y.elems = <<>>
    <2>1. SUFFICES ASSUME y.elems # <<>> PROVE FALSE OBVIOUS
    <2>2. 1 \in 1 .. Len(y.elems) BY <1>6, <2>1, EmptySeq, LenProperties
    <2>3. Cached(y, y.elems[1].h) BY <1>6, <2>2, SlotAt
    <2> QED BY <2>3
  <1>8. y.mixer = <<>>
    <2>1. SUFFICES ASSUME y.mixer # <<>> PROVE FALSE OBVIOUS
    <2>2. 1 \in 1 .. Len(y.mixer) BY <1>6, <2>1, EmptySeq, LenProperties
    <2> DEFINE n == y.mixer[1].name
    <2>3. Exists(y, n) BY <1>6, <2>2, ElemAt
    <2> HIDE DEF n
    <2>4. Elem(y, n).helems # <<>> /\ \A h \in Range(Elem(y, n).helems) : Cached(y, h)
      BY <2>3 DEF Good, Sound, Linked
    <2>5. Elem(y, n).helems \in Seq(RealHandles) BY <1>6, <2>3, ElemOf DEF Selems
    <2>6. 1 \in DOMAIN Elem(y, n).helems BY <2>4, <2>5, EmptySeq, LenProperties
    <2>7. Elem(y, n).helems[1] \in Range(Elem(y, n).helems) BY <2>6 DEF Range
    <2> QED BY <2>4, <2>7
  <1> QED BY <1>7, <1>8

(* Every control gone: nothing is left, and nothing was refused.           *)
FreeOp(p, z, e) == ElemGone(z, e.h)
FreeInv(p, z, i) ==
  /\ Good(z) /\ z.abort = p.abort
  /\ \A g : Cached(z, g) <=> \E j \in 1 .. Len(p.elems) : j < i /\ p.elems[j].h = g
FreeFold == INSTANCE FoldInduction WITH Op <- FreeOp, Inv <- FreeInv

(* Freeing takes all controls and elements.                                *)
LEMMA FreedIs ==
  ASSUME NEW x, Good(x)
  PROVE  LET y == Freed(x)
         IN  Good(y) /\ y.abort = x.abort /\ y.elems = <<>> /\ y.mixer = <<>>
  <1> DEFINE es == x.elems
             f == FreeFold!Right(x, es, x)
             y == Freed(x)
  <1>0. Well(x) /\ es \in Seq(Slots) BY DEF Good, Well, Shapes
  <1>n. Len(es) \in Nat /\ DOMAIN es = 1 .. Len(es) BY <1>0, LenProperties
  <1>1. y = f
    BY Zenon DEF Freed, FreeOp, FoldRight, MapThenFoldSet, FreeFold!Right, FreeFold!First, Min
  <1>2. FreeInv(x, x, Len(es) + 1)
    <2>1. ASSUME NEW g PROVE Cached(x, g) <=> \E j \in 1 .. Len(es) : j < Len(es) + 1 /\ es[j].h = g
      <3>1. \A j \in 1 .. Len(es) : j < Len(es) + 1 BY <1>n
      <3> QED BY <1>n, <3>1 DEF Cached, Range
    <2> QED BY <2>1 DEF FreeInv
  <1> DEFINE Inv(z, i) ==
        /\ Good(z) /\ z.abort = x.abort
        /\ \A g : Cached(z, g) <=> \E j \in 1 .. Len(es) : j < i /\ es[j].h = g
  <1>i. \A z, i : FreeInv(x, z, i) <=> Inv(z, i) BY DEF FreeInv
  <1> HIDE DEF f, y
  <1>3. ASSUME NEW i \in 1 .. Len(es), NEW z, FreeInv(x, z, i + 1) PROVE FreeInv(x, FreeOp(x, z, es[i]), i)
    <2> DEFINE h == es[i].h
               w == ElemGone(z, h)
    <2>1. /\ Good(z) /\ z.abort = x.abort
          /\ \A g : Cached(z, g) <=> \E j \in 1 .. Len(es) : j < i + 1 /\ es[j].h = g
      BY <1>i, <1>3
    <2>a. i < i + 1 BY <1>n
    <2>2. Cached(z, h) BY <2>1, <2>a
    <2>b. \A j \in 1 .. Len(es) : es[j].h = h => j = i BY <1>0, SlotAt
    <2> HIDE DEF h, w
    <2>3. Good(w) /\ (\A g : Cached(w, g) <=> Cached(z, g) /\ g # h) /\ w.abort = z.abort
      BY <2>1, <2>2, ElemGoneIs DEF w
    <2> HIDE DEF es
    <2>4. ASSUME NEW g PROVE Cached(w, g) <=> \E j \in 1 .. Len(es) : j < i /\ es[j].h = g
      <3>1. \A j \in 1 .. Len(es) : (j < i + 1 /\ j # i) <=> j < i BY <1>n
      <3>2. ASSUME Cached(w, g) PROVE \E j \in 1 .. Len(es) : j < i /\ es[j].h = g
        <4>1. PICK j \in 1 .. Len(es) : j < i + 1 /\ es[j].h = g BY <2>1, <2>3, <3>2
        <4>2. g # h BY <2>3, <3>2
        <4>3. j # i BY <4>1, <4>2 DEF h
        <4> QED BY <3>1, <4>1, <4>3
      <3>3. ASSUME NEW j \in 1 .. Len(es), j < i, es[j].h = g PROVE Cached(w, g)
        <4>1. j < i + 1 /\ j # i BY <3>1, <3>3
        <4>2. g # h BY <2>b, <3>3, <4>1
        <4>3. Cached(z, g) BY <2>1, <3>3, <4>1
        <4> QED BY <2>3, <4>2, <4>3
      <3> QED BY <3>2, <3>3
    <2>5. Inv(w, i) BY <2>1, <2>3, <2>4
    <2> QED BY <1>i, <2>5 DEF FreeOp, w, h
  <1>4. FreeInv(x, f, 1)
    <2> HIDE DEF es, Inv
    <2> QED BY <1>0, <1>2, <1>3, FreeFold!RightHolds, Zenon DEF f
  <1>5. Good(y) /\ y.abort = x.abort /\ \A g : ~Cached(y, g)
    <2>1. Inv(f, 1) BY <1>4, <1>i
    <2>2. \A j \in 1 .. Len(es) : ~(j < 1) BY <1>n
    <2> QED BY <1>1, <2>1, <2>2
  <1>6. y.elems = <<>> /\ y.mixer = <<>> BY <1>5, EmptyIs
  <1> QED BY <1>5, <1>6 DEF y

(* The class takes its elements with it.                                   *)
CloseOp(p, z, m) == ElemRemove(z, m.name)
CloseInv(p, z, i) ==
  Good(z) /\ z.abort = p.abort /\ \A j \in 1 .. Len(p.mixer) : j < i => Exists(z, p.mixer[j].name)
CloseFold == INSTANCE FoldInduction WITH Op <- CloseOp, Inv <- CloseInv

(* So does closing the mixer.                                              *)
LEMMA ClosedIs ==
  ASSUME NEW x, Good(x)
  PROVE  LET y == FoldRight(LAMBDA e, z : ElemRemove(z, e.name), x.mixer, x)
         IN  Good(y) /\ y.abort = x.abort
  <1> DEFINE ms == x.mixer
             f == CloseFold!Right(x, ms, x)
  <1>0. Well(x) /\ ms \in Seq(Melems) BY DEF Good, Well, Shapes
  <1>n. Len(ms) \in Nat /\ DOMAIN ms = 1 .. Len(ms) BY <1>0, LenProperties
  <1>1. FoldRight(LAMBDA e, z : ElemRemove(z, e.name), ms, x) = f
    BY Zenon DEF CloseOp, FoldRight, MapThenFoldSet, CloseFold!Right, CloseFold!First, Min
  <1> HIDE DEF f
  <1>2. CloseInv(x, x, Len(ms) + 1)
    <2>1. \A j \in 1 .. Len(ms) : Exists(x, ms[j].name) BY <1>0, ElemAt
    <2> QED BY <2>1 DEF CloseInv
  <1>3. ASSUME NEW i \in 1 .. Len(ms), NEW z, CloseInv(x, z, i + 1) PROVE CloseInv(x, CloseOp(x, z, ms[i]), i)
    <2> DEFINE n == ms[i].name
               w == ElemRemove(z, n)
    <2>1. Good(z) /\ z.abort = x.abort /\ \A j \in 1 .. Len(ms) : j < i + 1 => Exists(z, ms[j].name)
      BY <1>3 DEF CloseInv
    <2>a. i < i + 1 BY <1>n
    <2>2. Exists(z, n) BY <2>1, <2>a
    <2>3. \A j \in 1 .. Len(ms) : ms[j].name = n => j = i
      <3>1. \A j \in 1 .. Len(ms) : IndexOf(x, ms[j].name) = j BY <1>0, ElemAt
      <3> QED BY <3>1
    <2> HIDE DEF n
    <2>4. Kept(z, w, n) /\ ~Exists(w, n) BY <2>1, <2>2, ElemRemoveIs DEF Good
    <2>5. GoodBut(z, n) BY <2>1, GoodIsBut
    <2> HIDE DEF w
    <2>6. Good(w) BY <2>4, <2>5, KeptGood
    <2> HIDE DEF ms
    <2>7. ASSUME NEW j \in 1 .. Len(ms), j < i PROVE Exists(w, ms[j].name)
      <3>1. j < i + 1 /\ j # i BY <1>n, <2>7
      <3>2. ms[j].name # n BY <2>3, <3>1
      <3>3. Exists(z, ms[j].name) BY <2>1, <3>1
      <3> QED BY <2>4, <3>2, <3>3 DEF Kept
    <2>8. w.abort = x.abort BY <2>1, <2>4 DEF Kept
    <2> QED BY <2>6, <2>7, <2>8 DEF CloseInv, CloseOp, w, n, ms
  <1>4. CloseInv(x, f, 1)
    <2> HIDE DEF ms
    <2> QED BY <1>0, <1>2, <1>3, CloseFold!RightHolds, Zenon DEF f
  <1> QED BY <1>1, <1>4, Zenon DEF CloseInv

------------------------------------------------------------------------------
(* The cache sorted: each at the place that is the number of those before. *)
LEMMA SortedIs ==
  ASSUME NEW es, IsFiniteSet(es), NEW order, \A e \in es : Place(order, e.h) \in Int,
         \A e, d \in es : Place(order, e.h) = Place(order, d.h) => e = d
  PROVE  LET s == Sorted(es, order)
         IN  /\ s \in Seq(es) /\ Range(s) = es /\ Len(s) = Cardinality(es)
             /\ \A i \in 1 .. Len(s) - 1 : Place(order, s[i].h) < Place(order, s[i + 1].h)
  <1> DEFINE n == Cardinality(es)
             k(e) == Place(order, e.h)
             r(e) == Cardinality(Before(es, order, e))
             s == Sorted(es, order)
             ranks == [e \in es |-> r(e)]
  <1>0. n \in Nat BY FS_CardinalityType
  <1>1. ASSUME NEW e \in es PROVE Before(es, order, e) = {d \in es : k(d) < k(e)} BY DEF Before
  <1>2. ASSUME NEW e \in es PROVE IsFiniteSet(Before(es, order, e)) /\ r(e) \in 0 .. n - 1
    <2> DEFINE B == Before(es, order, e)
    <2>1. B \subseteq es /\ e \notin B BY <1>1
    <2> HIDE DEF B
    <2>2. IsFiniteSet(B) /\ Cardinality(B) <= n BY <2>1, FS_Subset
    <2>3. Cardinality(B) # n BY <2>1, FS_Subset
    <2>4. Cardinality(B) \in Nat BY <2>2, FS_CardinalityType
    <2> QED BY <1>0, <2>2, <2>3, <2>4 DEF B
  <1>3. ASSUME NEW e \in es, NEW d \in es, k(e) < k(d) PROVE r(e) < r(d)
    <2> DEFINE B == Before(es, order, e)
               D == Before(es, order, d)
    <2>1. B \subseteq D /\ e \in D /\ e \notin B BY <1>1, <1>3
    <2>2. IsFiniteSet(D) /\ Cardinality(B) \in Nat /\ Cardinality(D) \in Nat BY <1>2, FS_CardinalityType
    <2> HIDE DEF B, D
    <2>3. Cardinality(B) <= Cardinality(D) /\ Cardinality(B) # Cardinality(D) BY <2>1, <2>2, FS_Subset
    <2> QED BY <2>2, <2>3 DEF B, D
  <1> HIDE DEF r, k
  <1>k. \A e \in es : k(e) \in Int BY DEF k
  <1>4. ASSUME NEW e \in es, NEW d \in es, r(e) = r(d) PROVE e = d
    <2>1. r(e) \in Int BY <1>0, <1>2
    <2>2. ~(k(e) < k(d)) /\ ~(k(d) < k(e)) BY <1>3, <1>4, <2>1
    <2>3. k(e) = k(d) BY <1>k, <2>2
    <2> QED BY <2>3 DEF k
  <1>5. ranks \in Injection(es, 0 .. n - 1)
    <2>1. ranks \in [es -> 0 .. n - 1] BY <1>2
    <2> QED BY <2>1, <1>4 DEF Injection, IsInjective
  <1>6. \A i \in 0 .. n - 1 : \E e \in es : r(e) = i
    <2> DEFINE R == 0 .. n - 1
    <2>1. IsFiniteSet(R) BY <1>0, FS_Interval
    <2>2. Cardinality(R) = n
      <3>1. Cardinality(R) = IF 0 > n - 1 THEN 0 ELSE n - 1 - 0 + 1 BY <1>0, FS_Interval
      <3> QED BY <1>0, <3>1
    <2> HIDE DEF R
    <2>3. ranks \in Injection(es, R) BY <1>5 DEF R
    <2>4. ranks \in Surjection(es, R)
      <3> HIDE DEF ranks
      <3> QED BY <2>1, <2>2, <2>3, FS_Injection
    <2> QED BY <2>4 DEF Surjection, R
  <1>7. s = [i \in 1 .. n |-> CHOOSE e \in es : r(e) = i - 1] BY DEF Sorted, r
  <1> HIDE DEF s, n
  <1>8. ASSUME NEW i \in 1 .. n PROVE s[i] \in es /\ r(s[i]) = i - 1
    <2>1. i - 1 \in 0 .. n - 1 BY <1>0
    <2>2. \E e \in es : r(e) = i - 1 BY <1>6, <2>1
    <2> QED BY <1>7, <2>2
  <1>9. s \in [1 .. n -> es] BY <1>7, <1>8
  <1>10. s \in Seq(es) /\ Len(s) = n /\ DOMAIN s = 1 .. n BY <1>0, <1>9, FunSeq
  <1>11. Range(s) = es
    <2>1. ASSUME NEW e \in es PROVE e \in Range(s)
      <3>1. r(e) \in 0 .. n - 1 BY <1>2
      <3>2. r(e) + 1 \in 1 .. n /\ (r(e) + 1) - 1 = r(e) BY <1>0, <3>1
      <3>3. s[r(e) + 1] \in es /\ r(s[r(e) + 1]) = r(e) BY <1>8, <3>2
      <3>4. s[r(e) + 1] = e BY <1>4, <3>3
      <3> QED BY <1>10, <3>2, <3>4 DEF Range
    <2> QED BY <1>8, <1>10, <2>1 DEF Range
  <1>12. ASSUME NEW i \in 1 .. n - 1 PROVE k(s[i]) < k(s[i + 1])
    <2>1. i \in 1 .. n /\ i + 1 \in 1 .. n BY <1>0
    <2>2. r(s[i]) = i - 1 /\ r(s[i + 1]) = (i + 1) - 1 /\ s[i] \in es /\ s[i + 1] \in es BY <1>8, <2>1
    <2>3. r(s[i]) < r(s[i + 1]) BY <2>1, <2>2
    <2>4. s[i] # s[i + 1] /\ ~(r(s[i + 1]) < r(s[i])) BY <2>2, <2>3
    <2>5. ~(k(s[i + 1]) < k(s[i])) BY <1>3, <2>2, <2>4
    <2>6. k(s[i]) # k(s[i + 1])
      <3>1. Place(order, s[i].h) = Place(order, s[i + 1].h) => s[i] = s[i + 1] BY <2>2
      <3> QED BY <2>4, <3>1 DEF k
    <2> QED BY <1>k, <2>2, <2>5, <2>6
  <1> QED BY <1>10, <1>11, <1>12 DEF k, s, n

------------------------------------------------------------------------------
(* From what a handler makes of the library's state to the next state: all *)
(* that was found of it stays true, of a card where no more can be read.   *)
Settled(x) == [elems |-> x.elems, mixer |-> x.mixer, told |-> x.told, torn |-> x.torn,
               err |-> FALSE, abort |-> FALSE]

(* Sorting anew keeps what is cached.                                      *)
LEMMA SettledIs ==
  ASSUME NEW x, Good(x)
  PROVE  Good(Settled(x)) /\ \A g : Cached(Settled(x), g) <=> Cached(x, g)
  <1> DEFINE y == Settled(x)
  <1>1. y \in Shapes /\ y.elems = x.elems /\ y.mixer = x.mixer /\ y.told = x.told /\ y.torn = x.torn
    BY DEF Good, Well, Shapes, Settled
  <1> HIDE DEF y
  <1>2. Well(y) /\ Linked(y) BY <1>1, SameArrays DEF Good
  <1>3. (\A n : Exists(y, n) <=> Exists(x, n)) /\ \A n : Elem(y, n) = Elem(x, n) BY <1>1, SameMixer
  <1>4. ASSUME NEW n, Exists(y, n) PROVE Sound(y, n)
    <2>1. Sound(x, n) BY <1>3, <1>4 DEF Good
    <2> QED BY <1>1, <1>3, <2>1 DEF Sound, Heard
  <1>5. \A g : Cached(y, g) <=> Cached(x, g) BY <1>1, SameElems
  <1> QED BY <1>2, <1>4, <1>5 DEF Good, y

(* A read that fails goes on failing while no control comes back.          *)
LEMMA FailsStill ==
  ASSUME NEW s \in Selems, NEW k, NEW m, \A t \in Types : Gone(k, s.ctls[t]) => Gone(m, s.ctls[t]), Fails(s, k)
  PROVE  Fails(s, m)
  <1>1. PICK j \in 1 .. Len(ReadSteps(s)) : Errs(k, s, ReadSteps(s)[j]) BY DEF Fails
  <1>2. ReadSteps(s) \in Seq(StepSet) BY ReadStepsIs
  <1>3. ReadSteps(s)[j] \in StepSet BY <1>1, <1>2, ElementOfSeq
  <1>4. ReadSteps(s)[j].type \in Types BY <1>3 DEF StepSet
  <1>5. Errs(m, s, ReadSteps(s)[j]) BY <1>1, <1>4 DEF Errs
  <1> QED BY <1>5 DEF Fails

(* What a call leaves behind holds after its step, on a card that has lost *)
(* more.                                                                   *)
LEMMA GoodNext ==
  ASSUME NEW x, Good(x), Becomes(x), compare' = compare, card' \in Cards,
         \A h : Cached(x, h) /\ Gone(card, h) => Gone(card', h)
  PROVE  Good(Now)'
  <1> DEFINE y == Settled(x)
  <1>1. Good(y) /\ \A h : Cached(y, h) <=> Cached(x, h) BY SettledIs
  <1>2. (Now)' = y BY DEF Now, Settled, Becomes
  <1> HIDE DEF y
  <1>3. Well(Now)'
    <2>1. Well(y) BY <1>1 DEF Good
    <2>2. Keys(y.elems) = [i \in DOMAIN y.elems |-> Place(compare, y.elems[i].h)] BY DEF Keys, Key
    <2>3. (Keys(Now.elems))' = [i \in DOMAIN y.elems |-> Place(compare', y.elems[i].h)]
      BY <1>2 DEF Keys, Key
    <2>4. (Keys(Now.elems))' = Keys(y.elems) BY <2>2, <2>3
    <2>5. MixerNames(Now)' = MixerNames(y) BY <1>2
    <2>6. (Now \in Shapes)' BY <1>2, <2>1 DEF Well
    <2>7. StrictlySorted(Keys(Now.elems))' BY <2>1, <2>4 DEF Well, StrictlySorted
    <2>8. StrictlySorted(MixerNames(Now))' BY <2>1, <2>5 DEF Well, StrictlySorted
    <2> QED BY <2>1, <2>6, <2>7, <2>8 DEF Well
  <1>4. Linked(Now)' BY <1>1, <1>2 DEF Good
  <1>5. ASSUME NEW n, Exists(y, n) PROVE Sound(Now, n)'
    <2>1. Sound(y, n) /\ Elem(y, n) \in Selems BY <1>1, <1>5, ElemOf DEF Good
    <2>2. Elem(Now, n)' = Elem(y, n) BY <1>2
    <2>3. Heard(Now, n)'
      <3>1. CASE y.told[n] = View(Elem(y, n))
        <4>1. (Now.told[n] = View(Elem(Now, n)))' BY <1>2, <3>1
        <4> QED BY <4>1 DEF Heard
      <3>2. CASE n \in y.torn /\ Fails(Elem(y, n), card)
        <4>0. ASSUME NEW t \in Types, Gone(card, Elem(y, n).ctls[t]) PROVE Gone(card', Elem(y, n).ctls[t])
          <5>1. CASE Elem(y, n).ctls[t] = NoControl BY <5>1 DEF Gone
          <5>2. CASE Elem(y, n).ctls[t] # NoControl
            <6>1. Elem(y, n).ctls[t] \in Range(Elem(y, n).helems) BY <2>1, <5>2 DEF Sound, Fit
            <6>2. Cached(x, Elem(y, n).ctls[t]) BY <1>1, <1>5, <6>1 DEF Good, Linked
            <6> QED BY <4>0, <6>2
          <5> QED BY <5>1, <5>2
        <4>1. Fails(Elem(y, n), card') BY <2>1, <3>2, <4>0, FailsStill
        <4>2. Fails(Elem(Now, n), card)' BY <1>2, <4>1
        <4>3. (n \in Now.torn)' BY <1>2, <3>2
        <4> QED BY <4>2, <4>3 DEF Heard
      <3>3. CASE y.told[n].unsaid
        <4>1. (Now.told[n].unsaid)' BY <1>2, <3>3
        <4> QED BY <4>1 DEF Heard
      <3> QED BY <2>1, <3>1, <3>2, <3>3 DEF Sound, Heard
    <2>4. (Elem(Now, n).helems # <<>> /\ Fit(Elem(Now, n)))' BY <2>1, <2>2 DEF Sound
    <2> QED BY <2>3, <2>4 DEF Sound
  <1>6. \A n : Exists(Now, n)' <=> Exists(y, n) BY <1>2
  <1> QED BY <1>3, <1>4, <1>5, <1>6 DEF Good

------------------------------------------------------------------------------
(* Writing an element: the card's numbers stay, and only what is there     *)
(* changes.                                                                *)
LEMMA WriteStepsIs == ASSUME NEW s PROVE WriteSteps(s) \in Seq(StepSet)
  <1> DEFINE T == {"none", "volume", "switch", "enum", "on", "source"}
             P(what, types) == Steps(what, "PLAYBACK", types, Held(s))
             C(what, types) == Steps(what, "CAPTURE", types, Held(s))
             one == IF Single(s, "INTEGER") THEN "volume" ELSE "switch"
             two == IF Has(s, "PLAYBACK_SWITCH") /\ Has(s, "CAPTURE_SWITCH") THEN "on" ELSE "switch"
             A == P(one, <<"SINGLE">>)
             B == P("volume", <<"GLOBAL_VOLUME">>)
             D == P(two, <<"GLOBAL_SWITCH">>)
             E == P("volume", <<"PLAYBACK_VOLUME">>)
             F == P("switch", <<"PLAYBACK_SWITCH", "PLAYBACK_ROUTE">>)
             G == C("volume", <<"CAPTURE_VOLUME">>)
             H == C("switch", <<"CAPTURE_SWITCH", "CAPTURE_ROUTE">>)
             I == C("source", <<"CAPTURE_SOURCE">>)
             enum == Steps("enum", "PLAYBACK", <<EnumType(s)>>, Types)
  <1>1. one \in T /\ two \in T /\ "PLAYBACK" \in Dirs /\ "CAPTURE" \in Dirs BY DEF Dirs
  <1>2. /\ <<"SINGLE">> \in Seq(Types) /\ <<"GLOBAL_VOLUME">> \in Seq(Types)
        /\ <<"GLOBAL_SWITCH">> \in Seq(Types) /\ <<"PLAYBACK_VOLUME">> \in Seq(Types)
        /\ <<"PLAYBACK_SWITCH", "PLAYBACK_ROUTE">> \in Seq(Types)
        /\ <<"CAPTURE_VOLUME">> \in Seq(Types) /\ <<"CAPTURE_SWITCH", "CAPTURE_ROUTE">> \in Seq(Types)
        /\ <<"CAPTURE_SOURCE">> \in Seq(Types)
    BY DEF Types
  <1>3. <<EnumType(s)>> \in Seq(Types)
    <2>1. EnumType(s) \in Types BY EnumTypeIs
    <2> QED BY <2>1
  <1>4. enum \in Seq(StepSet) BY <1>1, <1>3, StepsIs
  <1>5. A \in Seq(StepSet) /\ B \in Seq(StepSet) /\ D \in Seq(StepSet) /\ E \in Seq(StepSet)
    BY <1>1, <1>2, StepsIs
  <1>6. F \in Seq(StepSet) /\ G \in Seq(StepSet) /\ H \in Seq(StepSet) /\ I \in Seq(StepSet)
    BY <1>1, <1>2, StepsIs
  <1>7. WriteSteps(s) = IF IsEnum(s) THEN enum ELSE A \o B \o D \o E \o F \o G \o H \o I
    BY Zenon DEF WriteSteps
  <1> HIDE DEF A, B, D, E, F, G, H, I, enum
  <1>8. A \o B \o D \o E \o F \o G \o H \o I \in Seq(StepSet)
    <2>1. A \o B \in Seq(StepSet) BY <1>5, ConcatProperties
    <2>2. (A \o B) \o D \in Seq(StepSet) BY <1>5, <2>1, ConcatProperties
    <2>3. (A \o B \o D) \o E \in Seq(StepSet) BY <1>5, <2>2, ConcatProperties
    <2>4. (A \o B \o D \o E) \o F \in Seq(StepSet) BY <1>6, <2>3, ConcatProperties
    <2>5. (A \o B \o D \o E \o F) \o G \in Seq(StepSet) BY <1>6, <2>4, ConcatProperties
    <2>6. (A \o B \o D \o E \o F \o G) \o H \in Seq(StepSet) BY <1>6, <2>5, ConcatProperties
    <2> QED BY <1>6, <2>6, ConcatProperties
  <1> QED BY <1>4, <1>7, <1>8

WriteRecs == [s : Selems, card : Cards, err : BOOLEAN]
SameNumbers(k, m) ==
  \A c \in Controls : m[c].numid = k[c].numid /\ (m[c] # k[c] => k[c].numid # 0)

(* A write stores a value.                                                 *)
LEMMA WrittenIs ==
  ASSUME NEW s \in Selems, NEW step \in StepSet, NEW old \in Values, {0, 1} \subseteq Values
  PROVE  Written(s, step, old) \in Values
  <1>1. s.vol[step.dir] \in Values /\ s.item \in Values BY DEF Selems, StepSet
  <1>2. Truth(s.sw[step.dir]) \in Values BY DEF Truth
  <1> QED BY <1>1, <1>2 DEF Written

(* A step of a write changes neither controls nor numbers.                 *)
LEMMA WriteStepIs ==
  ASSUME NEW r \in WriteRecs, NEW step \in StepSet, {0, 1} \subseteq Values
  PROVE  LET w == WriteStep(r, step)
         IN  w \in WriteRecs /\ SameControls(r.s, w.s) /\ SameNumbers(r.card, w.card)
  <1> DEFINE w == WriteStep(r, step)
             h == r.s.ctls[step.type]
             v == Written(r.s, step, r.card[h[1]].value)
             k == [r.card EXCEPT ![h[1]].value = Written(r.s, step, @)]
             Result(read) == [s |-> read.s, card |-> k, err |-> read.err]
  <1>0. r.s \in Selems /\ r.card \in Cards /\ r.err \in BOOLEAN BY DEF WriteRecs
  <1>1. h \in Handles BY <1>0 DEF Selems, StepSet
  <1>2. \/ w = r
        \/ w = [r EXCEPT !.err = TRUE]
        \/ ~Gone(r.card, h) /\ w = Result(SelemRead(r.s, k))
        \/ ~Gone(r.card, h) /\ w = [r EXCEPT !.card = k]
    BY <1>0 DEF WriteStep
  <1>3. SameNumbers(r.card, r.card) /\ SameControls(r.s, r.s) BY DEF SameNumbers, SameControls
  <1>4. ASSUME ~Gone(r.card, h) PROVE k \in Cards /\ SameNumbers(r.card, k)
    <2> HIDE DEF h
    <2>1. h \in RealHandles /\ h[1] \in Controls /\ r.card[h[1]].numid = h[2] /\ r.card[h[1]].value \in Values
      BY <1>0, <1>1, <1>4, ThereIs
    <2>2. h[2] # 0 BY <2>1, HandlesInt
    <2>3. v \in Values BY <1>0, <2>1, WrittenIs
    <2>4. k = [r.card EXCEPT ![h[1]] = [@ EXCEPT !.value = v]] BY <1>0, <2>1 DEF Cards
    <2> HIDE DEF k, v
    <2>5. k \in Cards BY <1>0, <2>1, <2>3, <2>4 DEF Cards
    <2>6. \A c \in Controls : k[c].numid = r.card[c].numid /\ (k[c] # r.card[c] => c = h[1])
      BY <1>0, <2>1, <2>3, <2>4 DEF Cards
    <2> QED BY <2>1, <2>2, <2>5, <2>6 DEF SameNumbers
  <1> HIDE DEF h, k, w
  <1>5. CASE w = r BY <1>3, <1>5 DEF w
  <1>6. CASE w = [r EXCEPT !.err = TRUE]
    <2>1. w \in WriteRecs /\ w.s = r.s /\ w.card = r.card BY <1>6 DEF WriteRecs
    <2> QED BY <1>3, <2>1 DEF w
  <1>7. CASE ~Gone(r.card, h) /\ w = Result(SelemRead(r.s, k))
    <2>1. k \in Cards /\ SameNumbers(r.card, k) BY <1>4, <1>7
    <2> DEFINE q == SelemRead(r.s, k)
    <2>2. q.s \in Selems /\ SameControls(r.s, q.s) /\ q.err \in BOOLEAN BY <1>0, <2>1, SelemReadIs
    <2> HIDE DEF q
    <2>3. w = [s |-> q.s, card |-> k, err |-> q.err] BY <1>7 DEF q
    <2>4. w \in WriteRecs BY <2>1, <2>2, <2>3 DEF WriteRecs
    <2>5. w.s = q.s /\ w.card = k BY <2>3
    <2> QED BY <2>1, <2>2, <2>4, <2>5 DEF w
  <1>8. CASE ~Gone(r.card, h) /\ w = [r EXCEPT !.card = k]
    <2>1. k \in Cards /\ SameNumbers(r.card, k) BY <1>4, <1>8
    <2>2. w \in WriteRecs /\ w.s = r.s /\ w.card = k BY <1>8, <2>1 DEF WriteRecs
    <2> QED BY <1>3, <2>1, <2>2 DEF w
  <1> QED BY <1>2, <1>5, <1>6, <1>7, <1>8

WriteOp(p, r, step) == WriteStep(r, step)
WriteInv(p, r, i) == r \in WriteRecs /\ SameControls(p.s, r.s) /\ SameNumbers(p.k, r.card)
WriteFold == INSTANCE FoldInduction WITH Op <- WriteOp, Inv <- WriteInv

(* Nor does selem_write.                                                   *)
LEMMA SelemWriteIs ==
  ASSUME NEW s \in Selems, NEW k \in Cards, {0, 1} \subseteq Values
  PROVE  LET r == SelemWrite(s, k)
         IN  /\ r.s \in Selems /\ r.card \in Cards /\ r.err \in BOOLEAN /\ r.abort = NullEnum(s)
             /\ SameControls(s, r.s) /\ SameNumbers(k, r.card)
  <1> DEFINE p == [s |-> s, k |-> k]
             start == [s |-> s, card |-> k, err |-> FALSE]
             f == WriteFold!Left(p, start, WriteSteps(s))
             Result(r) == [s |-> IF r.err THEN SelemRead(r.s, r.card).s ELSE r.s,
                           card |-> r.card, err |-> r.err, abort |-> NullEnum(s)]
             r == SelemWrite(s, k)
  <1>1. p.s = s /\ p.k = k OBVIOUS
  <1>2. r = Result(f)
    BY Zenon DEF SelemWrite, WriteOp, FoldLeft, MapThenFoldSet, WriteFold!Left, WriteFold!Last, Max
  <1>3. WriteSteps(s) \in Seq(StepSet) BY WriteStepsIs
  <1>4. WriteInv(p, start, 0) BY <1>1 DEF WriteInv, WriteRecs, SameControls, SameNumbers
  <1>5. ASSUME NEW i \in 1 .. Len(WriteSteps(s)), NEW z, WriteInv(p, z, i - 1)
        PROVE  WriteInv(p, WriteOp(p, z, WriteSteps(s)[i]), i)
    <2> DEFINE step == WriteSteps(s)[i]
               w == WriteStep(z, step)
    <2>1. step \in StepSet BY <1>3, ElementOfSeq
    <2> HIDE DEF step
    <2>2. z \in WriteRecs /\ SameControls(s, z.s) /\ SameNumbers(k, z.card) BY <1>1, <1>5 DEF WriteInv
    <2>3. w \in WriteRecs /\ SameControls(z.s, w.s) /\ SameNumbers(z.card, w.card) BY <2>1, <2>2, WriteStepIs
    <2> HIDE DEF w
    <2>4. SameControls(s, w.s) BY <2>2, <2>3 DEF SameControls
    <2>5. SameNumbers(k, w.card)
      <3>1. ASSUME NEW c \in Controls PROVE w.card[c].numid = k[c].numid /\ (w.card[c] # k[c] => k[c].numid # 0)
        <4>1. w.card[c].numid = z.card[c].numid /\ (w.card[c] # z.card[c] => z.card[c].numid # 0)
          BY <2>3 DEF SameNumbers
        <4>2. z.card[c].numid = k[c].numid /\ (z.card[c] # k[c] => k[c].numid # 0)
          BY <2>2 DEF SameNumbers
        <4> QED BY <4>1, <4>2
      <3> QED BY <3>1 DEF SameNumbers
    <2> QED BY <1>1, <2>3, <2>4, <2>5 DEF WriteInv, WriteOp, w, step
  <1> HIDE DEF p, start, f, r
  <1>6. WriteInv(p, f, Len(WriteSteps(s))) BY <1>3, <1>4, <1>5, WriteFold!LeftHolds, Zenon DEF f
  <1>7. f \in WriteRecs /\ SameControls(s, f.s) /\ SameNumbers(k, f.card) BY <1>1, <1>6 DEF WriteInv
  <1>8. f.s \in Selems /\ f.card \in Cards /\ f.err \in BOOLEAN BY <1>7 DEF WriteRecs
  <1> DEFINE q == SelemRead(f.s, f.card).s
             e == IF f.err THEN q ELSE f.s
  <1>9. q \in Selems /\ SameControls(f.s, q) BY <1>8, SelemReadIs
  <1>10. r = [s |-> e, card |-> f.card, err |-> f.err, abort |-> NullEnum(s)] BY <1>2
  <1> HIDE DEF q
  <1>11. e \in Selems /\ SameControls(s, e) BY <1>7, <1>8, <1>9 DEF SameControls
  <1> HIDE DEF e
  <1>12. r.s = e /\ r.card = f.card /\ r.err = f.err /\ r.abort = NullEnum(s) BY <1>10
  <1> QED BY <1>7, <1>8, <1>11, <1>12 DEF r

(* What the application sets is of the same controls.                      *)
LEMMA SetIs ==
  ASSUME NEW s \in Selems, NEW dir \in Dirs
  PROVE  /\ \A v \in Values : SetVolume(s, dir, v) \in Selems /\ SameControls(s, SetVolume(s, dir, v))
         /\ \A on \in BOOLEAN : SetSwitch(s, dir, on) \in Selems /\ SameControls(s, SetSwitch(s, dir, on))
  <1>1. ASSUME NEW v \in Values PROVE SetVolume(s, dir, v) \in Selems /\ SameControls(s, SetVolume(s, dir, v))
    <2> DEFINE d == VolumeDir(s, dir)
    <2>1. d \in Dirs BY DEF Dirs, VolumeDir
    <2> HIDE DEF d
    <2>2. SetVolume(s, dir, v) = [s EXCEPT !.vol[d] = v] BY DEF SetVolume, d
    <2> QED BY <2>1, <2>2, SelemVol
  <1>2. ASSUME NEW on \in BOOLEAN PROVE SetSwitch(s, dir, on) \in Selems /\ SameControls(s, SetSwitch(s, dir, on))
    BY SelemSw DEF SetSwitch
  <1> QED BY <1>1, <1>2

------------------------------------------------------------------------------
(* The queue.                                                              *)
Events == [h : RealHandles, mask : SUBSET REMOVE]
Once(q) == \A i, j \in 1 .. Len(q) : q[i].h = q[j].h => i = j
In(q, h) == \E i \in 1 .. Len(q) : q[i].h = h

(* An event more, of a control that has one there, or has none.            *)
NotedAs(q, h, mask, r) ==
  /\ r \in Seq(Events)
  /\ ~subscribed => r = q
  /\ subscribed /\ In(q, h) => Len(r) = Len(q)
  /\ subscribed /\ ~In(q, h) => Len(r) = Len(q) + 1 /\ r[Len(q) + 1] = [h |-> h, mask |-> mask]
  /\ subscribed => \A i \in 1 .. Len(q) :
       /\ r[i].h = q[i].h
       /\ r[i].mask = IF q[i].h = h THEN q[i].mask \union mask ELSE q[i].mask

(* The kernel notes an event in the one of the control that is pending, or *)
(* at the end.                                                             *)
LEMMA NotedIs ==
  ASSUME NEW q \in Seq(Events), NEW h \in RealHandles, NEW mask \in SUBSET REMOVE
  PROVE  NotedAs(q, h, mask, Noted(q, h, mask))
  <1> DEFINE r == Noted(q, h, mask)
             more == [i \in DOMAIN q |-> IF q[i].h = h THEN [q[i] EXCEPT !.mask = @ \union mask] ELSE q[i]]
  <1>0. Len(q) \in Nat /\ DOMAIN q = 1 .. Len(q) /\ \A i \in 1 .. Len(q) : q[i] \in Events
    BY LenProperties, ElementOfSeq
  <1>1. CASE ~subscribed BY <1>1 DEF Noted, NotedAs
  <1>2. CASE subscribed /\ In(q, h)
    <2>1. r = more BY <1>0, <1>2 DEF Noted, In
    <2>2. \A i \in 1 .. Len(q) : /\ more[i] \in Events /\ more[i].h = q[i].h
                                 /\ more[i].mask = IF q[i].h = h THEN q[i].mask \union mask ELSE q[i].mask
      BY <1>0 DEF Events
    <2>3. more \in [1 .. Len(q) -> Events] BY <1>0, <2>2
    <2> HIDE DEF more
    <2>4. more \in Seq(Events) /\ Len(more) = Len(q) BY <1>0, <2>3, FunSeq
    <2> HIDE DEF r
    <2> QED BY <1>2, <2>1, <2>2, <2>4 DEF r, NotedAs
  <1>3. CASE subscribed /\ ~In(q, h)
    <2> DEFINE e == [h |-> h, mask |-> mask]
    <2>1. r = Append(q, e) BY <1>0, <1>3 DEF Noted, In
    <2>2. e \in Events BY DEF Events
    <2> HIDE DEF e
    <2>3. Append(q, e) \in Seq(Events) /\ Len(Append(q, e)) = Len(q) + 1 /\ Append(q, e)[Len(q) + 1] = e
          /\ \A i \in 1 .. Len(q) : Append(q, e)[i] = q[i]
      BY <2>2, AppendProperties
    <2>4. \A i \in 1 .. Len(q) : q[i].h # h BY <1>3 DEF In
    <2> HIDE DEF r
    <2> QED BY <1>3, <2>1, <2>3, <2>4 DEF r, e, NotedAs
  <1> QED BY <1>1, <1>2, <1>3

(* Values and descriptions that change leave the events as they are, but   *)
(* for the masks, and those that are new are of controls that are there.   *)
Quiet == {"VALUE", "INFO"}
Extends(q, r) ==
  /\ r \in Seq(Events) /\ Len(q) <= Len(r)
  /\ \A i \in 1 .. Len(q) : r[i].h = q[i].h /\ q[i].mask \subseteq r[i].mask /\ r[i].mask \subseteq q[i].mask \union Quiet
  /\ \A i \in 1 .. Len(r) : i > Len(q) => r[i].mask \subseteq Quiet /\ \E c \in Controls : Present(c) /\ r[i].h = Handle(c)
  /\ Once(q) => Once(r)
  /\ ~subscribed => r = q

(* A note of values or info only extends the queue.                        *)
LEMMA QuietIs ==
  ASSUME NEW q \in Seq(Events), NEW c \in Controls, Present(c), Handle(c) \in RealHandles, NEW mask \in SUBSET Quiet
  PROVE  Extends(q, Noted(q, Handle(c), mask))
  <1> DEFINE h == Handle(c)
             r == Noted(q, h, mask)
  <1>0. Len(q) \in Nat BY LenProperties
  <1>1. mask \in SUBSET REMOVE BY DEF REMOVE, Quiet
  <1> HIDE DEF h
  <1>h. h \in RealHandles BY DEF h
  <1>2. /\ r \in Seq(Events)
        /\ ~subscribed => r = q
        /\ subscribed /\ In(q, h) => Len(r) = Len(q)
        /\ subscribed /\ ~In(q, h) => Len(r) = Len(q) + 1 /\ r[Len(q) + 1] = [h |-> h, mask |-> mask]
        /\ subscribed => \A i \in 1 .. Len(q) :
             /\ r[i].h = q[i].h
             /\ r[i].mask = IF q[i].h = h THEN q[i].mask \union mask ELSE q[i].mask
    <2>1. NotedAs(q, h, mask, r) BY <1>1, <1>h, NotedIs
    <2> HIDE DEF r
    <2> QED BY <2>1 DEF NotedAs
  <1> HIDE DEF r
  <1>3. CASE ~subscribed
    <2>1. r = q BY <1>2, <1>3
    <2>2. \A i \in 1 .. Len(q) : ~(i > Len(q)) BY <1>0
    <2> QED BY <1>0, <2>1, <2>2 DEF Extends, r, h
  <1>4. CASE subscribed
    <2>1. Len(q) <= Len(r) /\ Len(r) \in Nat BY <1>0, <1>2, <1>4
    <2>2. \A i \in 1 .. Len(q) : r[i].h = q[i].h /\ q[i].mask \subseteq r[i].mask /\ r[i].mask \subseteq q[i].mask \union Quiet
      BY <1>2, <1>4
    <2>3. ASSUME NEW i \in 1 .. Len(r), i > Len(q) PROVE ~In(q, h) /\ i = Len(q) + 1 /\ r[i].mask = mask /\ r[i].h = h
      BY <1>0, <1>2, <1>4, <2>3
    <2>4. ASSUME Once(q) PROVE Once(r)
      <3> SUFFICES ASSUME NEW i \in 1 .. Len(r), NEW j \in 1 .. Len(r), r[i].h = r[j].h PROVE i = j
        BY DEF Once
      <3>1. CASE i <= Len(q) /\ j <= Len(q)
        <4>1. i \in 1 .. Len(q) /\ j \in 1 .. Len(q) BY <1>0, <3>1
        <4> QED BY <2>2, <2>4, <4>1 DEF Once
      <3>2. CASE i <= Len(q) /\ j > Len(q)
        <4>1. i \in 1 .. Len(q) BY <1>0, <3>2
        <4>2. q[i].h = h /\ ~In(q, h) BY <2>2, <2>3, <3>2, <4>1
        <4> QED BY <4>1, <4>2 DEF In
      <3>3. CASE i > Len(q) /\ j <= Len(q)
        <4>1. j \in 1 .. Len(q) BY <1>0, <3>3
        <4>2. q[j].h = h /\ ~In(q, h) BY <2>2, <2>3, <3>3, <4>1
        <4> QED BY <4>1, <4>2 DEF In
      <3>4. CASE i > Len(q) /\ j > Len(q) BY <2>3, <3>4
      <3> QED BY <1>0, <2>1, <3>1, <3>2, <3>3, <3>4
    <2> QED BY <1>2, <1>4, <2>1, <2>2, <2>3, <2>4 DEF Extends, r, h
  <1> QED BY <1>3, <1>4

(* Extending twice is extending.                                           *)
LEMMA ExtendsOn ==
  ASSUME NEW q \in Seq(Events), NEW r, NEW t, Extends(q, r), Extends(r, t)
  PROVE  Extends(q, t)
  <1>0. Len(q) \in Nat /\ Len(r) \in Nat /\ Len(t) \in Nat BY LenProperties DEF Extends
  <1>1. t \in Seq(Events) /\ Len(q) <= Len(t) BY <1>0 DEF Extends
  <1>2. ASSUME NEW i \in 1 .. Len(q)
        PROVE  t[i].h = q[i].h /\ q[i].mask \subseteq t[i].mask /\ t[i].mask \subseteq q[i].mask \union Quiet
    <2>1. i \in 1 .. Len(r) BY <1>0 DEF Extends
    <2>2. r[i].h = q[i].h /\ q[i].mask \subseteq r[i].mask /\ r[i].mask \subseteq q[i].mask \union Quiet BY DEF Extends
    <2>3. t[i].h = r[i].h /\ r[i].mask \subseteq t[i].mask /\ t[i].mask \subseteq r[i].mask \union Quiet BY <2>1 DEF Extends
    <2> QED BY <2>2, <2>3
  <1>3. ASSUME NEW i \in 1 .. Len(t), i > Len(q)
        PROVE  t[i].mask \subseteq Quiet /\ \E c \in Controls : Present(c) /\ t[i].h = Handle(c)
    <2>1. CASE i > Len(r) BY <2>1 DEF Extends
    <2>2. CASE ~(i > Len(r))
      <3>1. i \in 1 .. Len(r) BY <1>0, <2>2
      <3>2. r[i].mask \subseteq Quiet /\ \E c \in Controls : Present(c) /\ r[i].h = Handle(c) BY <1>3, <3>1 DEF Extends
      <3>3. t[i].h = r[i].h /\ t[i].mask \subseteq r[i].mask \union Quiet BY <3>1 DEF Extends
      <3> QED BY <3>2, <3>3
    <2> QED BY <2>1, <2>2
  <1>4. (Once(q) => Once(t)) /\ (~subscribed => t = q) BY DEF Extends
  <1> QED BY <1>1, <1>2, <1>3, <1>4 DEF Extends

(* No change is an extension.                                              *)
LEMMA ExtendsSelf == ASSUME NEW q \in Seq(Events) PROVE Extends(q, q)
  <1>1. Len(q) \in Nat BY LenProperties
  <1>2. \A i \in 1 .. Len(q) : ~(i > Len(q)) BY <1>1
  <1> QED BY <1>1, <1>2 DEF Extends

(* Every control that a set changes has its event.                         *)
SetOp(p, q, c) == IF p.new[c] = p.old[c] THEN q ELSE Noted(q, Handle(c), {"VALUE"})
SetInv(p, q, i) == Extends(p.queue, q)
SetFold == INSTANCE FoldInduction WITH Op <- SetOp, Inv <- SetInv

SetNotes(k, old, queued) ==
  FoldLeft(LAMBDA q, c : IF k[c] = old[c] THEN q ELSE Noted(q, Handle(c), {"VALUE"}), queued, SetToSeq(Controls))

(* The controls one after the other.                                       *)
LEMMA ControlsSeq == SetToSeq(Controls) \in Seq(Controls)
  <1> DEFINE N == Cardinality(Controls)
             id == [i \in 1 .. N |-> i]
  <1>1. N \in Nat /\ Controls = 1 .. N BY CountNat, ControlAssumption
  <1>2. id \in [1 .. N -> Controls] BY <1>1
  <1>3. IsInjective(id) BY DEF IsInjective
  <1>4. \E f \in [1 .. N -> Controls] : IsInjective(f) BY <1>2, <1>3
  <1> HIDE DEF N
  <1>5. SetToSeq(Controls) \in [1 .. N -> Controls] BY <1>4 DEF SetToSeq, N
  <1> QED BY <1>1, <1>5, FunSeq

(* A set of an element only extends the queue.                             *)
LEMMA SetQueueIs ==
  ASSUME NEW k, SameNumbers(card, k), queue \in Seq(Events),
         \A c \in Controls : Present(c) => Handle(c) \in RealHandles
  PROVE  Extends(queue, SetNotes(k, card, queue))
  <1> DEFINE p == [new |-> k, old |-> card, queue |-> queue]
             f == SetFold!Left(p, queue, SetToSeq(Controls))
  <1>1. p.new = k /\ p.old = card /\ p.queue = queue OBVIOUS
  <1>2. SetNotes(k, card, queue) = f
    <2> HIDE DEF p
    <2>1. SetNotes(p.new, p.old, queue) = f
      BY Zenon DEF SetNotes, SetOp, FoldLeft, MapThenFoldSet, SetFold!Left, SetFold!Last, Max
    <2> QED BY <1>1, <2>1, Zenon
  <1> HIDE DEF p, f
  <1>3. SetInv(p, queue, 0) BY <1>1, ExtendsSelf DEF SetInv
  <1>4. ASSUME NEW i \in 1 .. Len(SetToSeq(Controls)), NEW z, SetInv(p, z, i - 1)
        PROVE  SetInv(p, SetOp(p, z, SetToSeq(Controls)[i]), i)
    <2> DEFINE c == SetToSeq(Controls)[i]
    <2>1. c \in Controls BY ControlsSeq, ElementOfSeq
    <2> HIDE DEF c
    <2>2. Extends(queue, z) /\ z \in Seq(Events) BY <1>1, <1>4 DEF SetInv, Extends
    <2>3. CASE k[c] = card[c] BY <1>1, <2>2, <2>3 DEF SetInv, SetOp, c
    <2>4. CASE k[c] # card[c]
      <3>1. Present(c) BY <2>1, <2>4 DEF SameNumbers, Present
      <3>2. {"VALUE"} \in SUBSET Quiet BY DEF Quiet
      <3>3. Extends(z, Noted(z, Handle(c), {"VALUE"})) BY <2>1, <2>2, <3>1, <3>2, QuietIs
      <3>4. Extends(queue, Noted(z, Handle(c), {"VALUE"})) BY <2>2, <3>3, ExtendsOn
      <3> QED BY <1>1, <2>4, <3>4 DEF SetInv, SetOp, c
    <2> QED BY <2>3, <2>4
  <1>5. SetInv(p, f, Len(SetToSeq(Controls))) BY <1>3, <1>4, ControlsSeq, SetFold!LeftHolds, Zenon DEF f
  <1> QED BY <1>1, <1>2, <1>5, Zenon DEF SetInv

------------------------------------------------------------------------------
(* The steps.                                                              *)
LEMMA NowIs ==
  ASSUME MixerInv
  PROVE  /\ Good(Now) /\ Well(Now) /\ Linked(Now)
         /\ elems \in Seq(Slots) /\ Len(elems) \in Nat /\ mixer \in Seq(Melems)
         /\ Now.elems = elems /\ Now.mixer = mixer /\ Now.told = told /\ Now.torn = torn
         /\ ~Now.err /\ ~Now.abort /\ Now \in Shapes
         /\ queue \in Seq(Events) /\ card \in Cards /\ fresh \in Nat
  <1>1. Good(Now) BY DEF MixerInv
  <1>2. Well(Now) /\ Linked(Now) /\ Now \in Shapes BY <1>1 DEF Good, Well
  <1>3. Now.elems = elems /\ Now.mixer = mixer /\ Now.told = told /\ Now.torn = torn /\ ~Now.err /\ ~Now.abort
    BY DEF Now
  <1>4. elems \in Seq(Slots) /\ mixer \in Seq(Melems) BY <1>2, <1>3 DEF Shapes
  <1>5. queue \in Seq(Events) /\ card \in Cards /\ fresh \in Nat BY DEF MixerInv, KernelOK, Events
  <1> QED BY <1>1, <1>2, <1>3, <1>4, <1>5, LenProperties

(* The handles anybody knows: cached, pending, in hand, or on the card.    *)
LEMMA KnownHas ==
  ASSUME NEW es \in Seq(Slots), NEW q \in Seq(Events), NEW hd, NEW k, NEW h
  PROVE  h \in KnownOf(es, q, hd, k) <=>
           \/ \E i \in 1 .. Len(es) : es[i].h = h
           \/ In(q, h)
           \/ h = hd.h /\ h # NoControl
           \/ \E c \in Controls : k[c].numid # 0 /\ h = <<c, k[c].numid>>
  <1>1. Len(es) \in Nat /\ DOMAIN es = 1 .. Len(es) /\ Len(q) \in Nat /\ DOMAIN q = 1 .. Len(q)
    BY LenProperties
  <1>2. h \in {e.h : e \in Range(es)} <=> \E i \in 1 .. Len(es) : es[i].h = h BY <1>1 DEF Range
  <1>3. h \in {ev.h : ev \in Range(q)} <=> In(q, h) BY <1>1 DEF Range, In
  <1>4. h \in {hd.h} \ {NoControl} <=> h = hd.h /\ h # NoControl OBVIOUS
  <1>5. h \in {<<c, k[c].numid>> : c \in {d \in Controls : k[d].numid # 0}}
          <=> \E c \in Controls : k[c].numid # 0 /\ h = <<c, k[c].numid>>
    OBVIOUS
  <1> QED BY <1>2, <1>3, <1>4, <1>5 DEF KnownOf

(* What is cached is in a slot.                                            *)
LEMMA CachedIs ==
  ASSUME NEW x, x.elems \in Seq(Slots), NEW h
  PROVE  Cached(x, h) <=> \E i \in 1 .. Len(x.elems) : x.elems[i].h = h
  <1>1. DOMAIN x.elems = 1 .. Len(x.elems) BY LenProperties
  <1> QED BY <1>1 DEF Cached, Range

(* The same of the state.                                                  *)
LEMMA KnownCached ==
  ASSUME MixerInv, NEW h
  PROVE  h \in Known <=>
           \/ Cached(Now, h) \/ In(queue, h)
           \/ h = hand.h /\ h # NoControl
           \/ \E c \in Controls : Present(c) /\ h = Handle(c)
  <1>1. /\ elems \in Seq(Slots) /\ queue \in Seq(Events) /\ Now.elems = elems BY NowIs
  <1>2. Cached(Now, h) <=> \E i \in 1 .. Len(elems) : elems[i].h = h BY <1>1, CachedIs
  <1> QED BY <1>1, <1>2, KnownHas DEF Known, Present, Handle

(* A present control's handle is older than the next, and not nothing.     *)
LEMMA HandleIs ==
  ASSUME MixerInv, NEW c \in Controls, Present(c)
  PROVE  Handle(c) \in RealHandles /\ Handle(c) \in Known /\ ~Gone(card, Handle(c))
  <1>1. Handle(c) \in Known BY KnownCached
  <1>2. Handle(c) \in RealHandles BY <1>1 DEF MixerInv, NumbersOnce
  <1>3. Handle(c) # NoControl BY <1>2, HandlesInt
  <1> QED BY <1>1, <1>2, <1>3 DEF Gone, Handle

(* A step that brings no new handle gives no number twice.                 *)
LEMMA KnownNext ==
  ASSUME MixerInv, elems' \in Seq(Slots), queue' \in Seq(Events), fresh' = fresh,
         \A i \in 1 .. Len(elems') : elems'[i].h \in Known, \A h : In(queue', h) => h \in Known,
         hand'.h \in Known \union {NoControl},
         \A c \in Controls : card'[c].numid = card[c].numid
  PROVE  NumbersOnce'
  <1>1. ASSUME NEW h \in Known' PROVE h \in Known
    <2>1. h \in KnownOf(elems', queue', hand', card') BY <1>1 DEF Known
    <2>2. \/ \E i \in 1 .. Len(elems') : elems'[i].h = h
          \/ In(queue', h)
          \/ h = hand'.h /\ h # NoControl
          \/ \E c \in Controls : card'[c].numid # 0 /\ h = <<c, card'[c].numid>>
      BY <2>1, KnownHas
    <2>3. ASSUME NEW c \in Controls, card'[c].numid # 0, h = <<c, card'[c].numid>> PROVE h \in Known
      BY <2>3, KnownCached DEF Present, Handle
    <2> QED BY <2>2, <2>3
  <1> QED BY <1>1 DEF NumbersOnce, MixerInv

(* A call of the library that knows only what was known keeps the          *)
(* invariant.                                                              *)
LEMMA LibraryNext ==
  ASSUME MixerInv, NEW x, Good(x), Becomes(x), \A g : Cached(x, g) => g \in Known,
         UNCHANGED <<card, fresh, compare, changes>>,
         queue' \in Seq(Events), \A h : In(queue', h) => h \in Known,
         hand' \in [h : Handles, mask : SUBSET REMOVE], hand'.h \in Known \union {NoControl},
         phase' = "popped" => hand'.h # NoControl
  PROVE  KernelOK' /\ NumbersOnce' /\ Good(Now)'
  <1>1. KernelOK' BY DEF MixerInv, KernelOK, Events
  <1>2. Good(Now)'
    <2>1. card' \in Cards BY NowIs
    <2> QED BY <2>1, GoodNext
  <1>3. NumbersOnce'
    <2>1. elems' = x.elems /\ elems' \in Seq(Slots) BY DEF Becomes, Good, Well, Shapes
    <2>2. ASSUME NEW i \in 1 .. Len(elems') PROVE elems'[i].h \in Known BY <2>1, <2>2, CachedIs
    <2> QED BY <2>1, <2>2, KnownNext
  <1> QED BY <1>1, <1>2, <1>3

(* What is cached after a call.                                            *)
LEMMA BecomesCached == ASSUME NEW x, Becomes(x), NEW g PROVE Cached(Now, g)' <=> Cached(x, g)
  BY DEF Becomes, Now, Cached

(* Registering the class keeps the invariant.                              *)
LEMMA RegisterKeeps ==
  ASSUME MixerInv, Register
  PROVE  MixerInv' /\ (\A g : Cached(Now, g)' <=> Cached(Now, g)) /\ phase' \in {"dead", "failed", phase}
         /\ (phase' = "dead" => SourceGone(Now) \/ Mute(Now)')
  <1> DEFINE x == FoldLeft(LAMBDA y, e : IF y.err \/ y.abort THEN y ELSE SimpleEventAdd(y, e.h), Now, elems)
  <1>1. Offer(Now, x)
    <2>1. \A i \in 1 .. Len(elems) : Cached(Now, elems[i].h) BY NowIs, CachedIs
    <2> HIDE DEF x
    <2> QED BY <2>1, NowIs, RegisteredIs, Zenon DEF x
  <1>2. Becomes(x) /\ phase' = CASE x.abort -> "dead" [] ~x.abort /\ x.err -> "failed" [] OTHER -> phase
    BY Zenon DEF Register
  <1> HIDE DEF x
  <1>3. UNCHANGED <<kernel, compare, hand, missed, unseen, changes, sets, loads>> /\ registered' = TRUE
        /\ phase \in {"new", "idle"}
    BY DEF Register
  <1>4. Good(x) /\ \A g : Cached(x, g) <=> Cached(Now, g) BY <1>1 DEF Offer
  <1>5. phase' \in {"dead", "failed", phase} BY <1>2
  <1>6. KernelOK' /\ NumbersOnce' /\ Good(Now)'
    <2>1. \A g : Cached(x, g) => g \in Known BY <1>4, KnownCached
    <2>2. \A h : In(queue', h) => h \in Known BY <1>3, KnownCached DEF kernel
    <2>3. hand' \in [h : Handles, mask : SUBSET REMOVE] /\ hand'.h \in Known \union {NoControl}
      BY <1>3, KnownCached DEF MixerInv, KernelOK
    <2>4. phase' # "popped" BY <1>3, <1>5
    <2> QED BY <1>2, <1>3, <1>4, <2>1, <2>2, <2>3, <2>4, NowIs, LibraryNext DEF kernel
  <1>7. PhaseOK'
    <2>1. phase' = "new" => elems' = <<>> /\ mixer' = <<>>
      <3> SUFFICES ASSUME phase' = "new" PROVE x.elems = <<>> /\ x.mixer = <<>> BY <1>2 DEF Becomes
      <3>1. elems = <<>> BY <1>5 DEF MixerInv, PhaseOK
      <3>a. Now.elems = <<>> BY <3>1, NowIs
      <3>2. \A g : ~Cached(Now, g) BY <3>a DEF Cached, Range
      <3> QED BY <1>4, <3>2, EmptyIs
    <2> QED BY <1>3, <1>5, <2>1 DEF MixerInv, PhaseOK, kernel
  <1>8. \A g : Cached(Now, g)' <=> Cached(Now, g) BY <1>2, <1>4, BecomesCached
  <1>a. Mute(x) => Mute(Now)' BY <1>2 DEF Mute, Becomes, Now
  <1>9. phase' = "dead" => SourceGone(Now) \/ Mute(Now)' BY <1>1, <1>2, <1>3, <1>a, NowIs DEF Offer, Ends
  <1> QED BY <1>5, <1>6, <1>7, <1>8, <1>9 DEF MixerInv

(* The load that makes the elements.                                       *)
LEMMA LoadFillKeeps ==
  ASSUME MixerInv, LoadFill
  PROVE  MixerInv' /\ (\A g : Cached(Now, g)' <=> Cached(Now, g)) /\ phase' \in {"dead", "failed", "filled"}
         /\ (phase' = "dead" => SourceGone(Now) \/ Mute(Now)')
  <1> DEFINE x == FoldLeft(LAMBDA y, e : ElemNew(y, e.h), Now, elems)
  <1>1. Offer(Now, x)
    <2>1. \A i \in 1 .. Len(elems) : Cached(Now, elems[i].h) BY NowIs, CachedIs
    <2> HIDE DEF x
    <2> QED BY <2>1, NowIs, FilledIs, Zenon DEF x
  <1>2. Becomes(x) /\ phase' = CASE x.abort -> "dead" [] ~x.abort /\ x.err -> "failed" [] OTHER -> "filled"
    BY Zenon DEF LoadFill
  <1> HIDE DEF x
  <1>3. UNCHANGED <<kernel, compare, registered, hand, missed, unseen, changes, sets, loads>> BY DEF LoadFill
  <1>4. Good(x) /\ \A g : Cached(x, g) <=> Cached(Now, g) BY <1>1 DEF Offer
  <1>5. phase' \in {"dead", "failed", "filled"} BY <1>2
  <1>6. KernelOK' /\ NumbersOnce' /\ Good(Now)'
    <2>1. \A g : Cached(x, g) => g \in Known BY <1>4, KnownCached
    <2>2. \A h : In(queue', h) => h \in Known BY <1>3, KnownCached DEF kernel
    <2>3. hand' \in [h : Handles, mask : SUBSET REMOVE] /\ hand'.h \in Known \union {NoControl}
      BY <1>3, KnownCached DEF MixerInv, KernelOK
    <2> QED BY <1>2, <1>3, <1>4, <1>5, <2>1, <2>2, <2>3, NowIs, LibraryNext DEF kernel
  <1>7. PhaseOK' BY <1>3, <1>5 DEF MixerInv, PhaseOK, kernel
  <1>8. \A g : Cached(Now, g)' <=> Cached(Now, g) BY <1>2, <1>4, BecomesCached
  <1>a. Mute(x) => Mute(Now)' BY <1>2 DEF Mute, Becomes, Now
  <1>9. phase' = "dead" => SourceGone(Now) \/ Mute(Now)' BY <1>1, <1>2, <1>a, NowIs DEF Offer, Ends
  <1> QED BY <1>5, <1>6, <1>7, <1>8, <1>9 DEF MixerInv

(* The unload.                                                             *)
LEMMA UnloadKeeps == ASSUME MixerInv, Unload PROVE MixerInv' /\ phase' = "new"
  <1> DEFINE x == Freed(Now)
  <1>1. Good(x) /\ ~x.abort /\ x.elems = <<>> /\ x.mixer = <<>> BY NowIs, FreedIs
  <1>2. Becomes(x) /\ phase' = IF x.abort THEN "dead" ELSE "new" BY Zenon DEF Unload
  <1> HIDE DEF x
  <1>3. UNCHANGED <<kernel, compare, registered, hand, missed, unseen, changes, sets, loads>> BY DEF Unload
  <1>4. \A g : ~Cached(x, g) BY <1>1 DEF Cached, Range
  <1>6. KernelOK' /\ NumbersOnce' /\ Good(Now)'
    <2>2. \A h : In(queue', h) => h \in Known BY <1>3, KnownCached DEF kernel
    <2>3. hand' \in [h : Handles, mask : SUBSET REMOVE] /\ hand'.h \in Known \union {NoControl}
      BY <1>3, KnownCached DEF MixerInv, KernelOK
    <2> QED BY <1>1, <1>2, <1>3, <1>4, <2>2, <2>3, NowIs, LibraryNext DEF kernel
  <1>7. PhaseOK' BY <1>1, <1>2, <1>3 DEF MixerInv, PhaseOK, kernel, Becomes
  <1> QED BY <1>1, <1>2, <1>6, <1>7 DEF MixerInv

(* The close.                                                              *)
LEMMA CloseKeeps == ASSUME MixerInv, Close PROVE MixerInv' /\ phase' = "closed" /\ queue' = <<>>
  <1> DEFINE w == FoldRight(LAMBDA e, y : ElemRemove(y, e.name), mixer, Now)
             x == Freed(w)
  <1>1. Good(w) /\ ~w.abort
    <2>1. Good(FoldRight(LAMBDA e, z : ElemRemove(z, e.name), Now.mixer, Now))
          /\ FoldRight(LAMBDA e, z : ElemRemove(z, e.name), Now.mixer, Now).abort = Now.abort
      BY NowIs, ClosedIs, Zenon
    <2>2. Now.mixer = mixer /\ ~Now.abort BY NowIs
    <2> QED BY <2>1, <2>2, Zenon
  <1>2. Becomes(x) /\ phase' = IF x.abort THEN "dead" ELSE "closed" BY Zenon DEF Close
  <1> HIDE DEF w
  <1>3. Good(x) /\ ~x.abort /\ x.elems = <<>> /\ x.mixer = <<>> BY <1>1, FreedIs
  <1> HIDE DEF x
  <1>4. subscribed' = FALSE /\ queue' = <<>> /\ registered' = FALSE
        /\ UNCHANGED <<card, fresh, compare, hand, missed, unseen, changes, sets, loads>>
    BY DEF Close
  <1>5. \A g : ~Cached(x, g) BY <1>3 DEF Cached, Range
  <1>6. KernelOK' /\ NumbersOnce' /\ Good(Now)'
    <2>1. queue' \in Seq(Events) BY <1>4, EmptySeq
    <2>2. \A h : ~In(queue', h) BY <1>4 DEF In
    <2>3. hand' \in [h : Handles, mask : SUBSET REMOVE] /\ hand'.h \in Known \union {NoControl}
      BY <1>4, KnownCached DEF MixerInv, KernelOK
    <2> QED BY <1>2, <1>3, <1>4, <1>5, <2>1, <2>2, <2>3, LibraryNext
  <1>7. PhaseOK' BY <1>2, <1>3, <1>4 DEF MixerInv, PhaseOK
  <1> QED BY <1>2, <1>3, <1>4, <1>6, <1>7 DEF MixerInv

(* The subscription.                                                       *)
LEMMA SubscribeKeeps == ASSUME MixerInv, Subscribe PROVE MixerInv'
  <1>1. /\ subscribed' = TRUE /\ phase' = "idle"
        /\ UNCHANGED <<card, fresh, queue, library, compare, registered, hand, missed, unseen, changes, sets, loads>>
    BY DEF Subscribe
  <1>2. Becomes(Now) BY <1>1, NowIs DEF Becomes, library
  <1>3. KernelOK' /\ NumbersOnce' /\ Good(Now)'
    <2>1. \A g : Cached(Now, g) => g \in Known BY KnownCached
    <2>2. \A h : In(queue', h) => h \in Known BY <1>1, KnownCached
    <2>3. hand' \in [h : Handles, mask : SUBSET REMOVE] /\ hand'.h \in Known \union {NoControl}
      BY <1>1, KnownCached DEF MixerInv, KernelOK
    <2> QED BY <1>1, <1>2, <2>1, <2>2, <2>3, NowIs, LibraryNext
  <1>4. PhaseOK' BY <1>1 DEF MixerInv, PhaseOK
  <1> QED BY <1>3, <1>4 DEF MixerInv

(* The read of an event.                                                   *)
LEMMA PopKeeps == ASSUME MixerInv, Pop PROVE MixerInv'
  <1>1. /\ phase = "idle" /\ queue # <<>>
        /\ hand' = Head(queue) /\ queue' = Tail(queue) /\ phase' = "popped"
        /\ UNCHANGED <<card, fresh, subscribed, library, compare, registered, missed, unseen, changes, sets, loads>>
    BY DEF Pop
  <1>2. Becomes(Now) BY <1>1, NowIs DEF Becomes, library
  <1>q. queue \in Seq(Events) /\ Len(queue) \in Nat BY NowIs, LenProperties
  <1>t. queue' \in Seq(Events) /\ Len(queue') = Len(queue) - 1 /\ \A i \in 1 .. Len(queue') : queue'[i] = queue[i + 1]
    BY <1>1, <1>q, HeadTailProperties
  <1>h. Head(queue) = queue[1] /\ 1 \in 1 .. Len(queue) /\ Head(queue) \in Events
    BY <1>1, <1>q, HeadTailProperties, EmptySeq
  <1>3. KernelOK' /\ NumbersOnce' /\ Good(Now)'
    <2>1. \A g : Cached(Now, g) => g \in Known BY KnownCached
    <2>2. ASSUME NEW h, In(queue', h) PROVE h \in Known
      <3>1. PICK i \in 1 .. Len(queue') : queue'[i].h = h BY <2>2 DEF In
      <3>2. i + 1 \in 1 .. Len(queue) /\ queue[i + 1].h = h BY <1>q, <1>t, <3>1
      <3> QED BY <3>2, KnownCached DEF In
    <2>3. hand'.h \in RealHandles /\ hand' \in [h : Handles, mask : SUBSET REMOVE]
      BY <1>1, <1>h, HandlesAre DEF Events
    <2>4. hand'.h # NoControl BY <2>3, HandlesInt
    <2>5. In(queue, hand'.h) BY <1>1, <1>h DEF In
    <2>6. hand'.h \in Known BY <2>5, KnownCached
    <2> QED BY <1>1, <1>2, <1>t, <2>1, <2>2, <2>3, <2>4, <2>6, NowIs, LibraryNext
  <1>4. PhaseOK' BY <1>1 DEF MixerInv, PhaseOK
  <1> QED BY <1>3, <1>4 DEF MixerInv

(* The event in hand is one.                                               *)
LEMMA HandIs ==
  ASSUME MixerInv, phase = "popped"
  PROVE  hand.h \in RealHandles /\ hand.h \in Known /\ hand.mask \in SUBSET REMOVE
  <1>1. hand.h \in Handles /\ hand.h # NoControl /\ hand.mask \in SUBSET REMOVE BY DEF MixerInv, KernelOK
  <1> QED BY <1>1, HandlesAre, KnownCached

(* Its handling.                                                           *)
LEMMA HandlePoppedKeeps == ASSUME MixerInv, HandlePopped PROVE MixerInv' /\ Handled(Now, HandleEvent(Now, hand), hand)
  <1> DEFINE x == HandleEvent(Now, hand)
  <1>1. /\ phase = "popped" /\ Becomes(x) /\ phase' = IF x.abort THEN "dead" ELSE "idle"
        /\ hand' = NoEvent /\ UNCHANGED <<kernel, compare, registered, missed, unseen, changes, sets, loads>>
    BY DEF HandlePopped
  <1>2. Handled(Now, x, hand)
    <2> HIDE DEF x
    <2> QED BY <1>1, HandIs, NowIs, HandleEventIs DEF x
  <1> HIDE DEF x
  <1>3. Good(x) /\ \A g : Cached(x, g) => Cached(Now, g) \/ g = hand.h BY <1>2 DEF Handled
  <1>4. KernelOK' /\ NumbersOnce' /\ Good(Now)'
    <2>1. \A g : Cached(x, g) => g \in Known BY <1>1, <1>3, HandIs, KnownCached
    <2>2. \A h : In(queue', h) => h \in Known BY <1>1, KnownCached DEF kernel
    <2>3. hand' \in [h : Handles, mask : SUBSET REMOVE] /\ hand'.h = NoControl BY <1>1 DEF NoEvent, Handles
    <2>4. phase' # "popped" BY <1>1
    <2> QED BY <1>1, <1>3, <2>1, <2>2, <2>3, <2>4, NowIs, LibraryNext DEF kernel
  <1>5. PhaseOK' BY <1>1 DEF MixerInv, PhaseOK, kernel
  <1> QED BY <1>2, <1>4, <1>5 DEF MixerInv, x

------------------------------------------------------------------------------
(* The kernel's steps.                                                     *)
LEMMA KernelNext ==
  ASSUME MixerInv, UNCHANGED <<library, compare, registered, phase, hand, subscribed>>,
         changes' = changes + 1, changes < MaxChanges,
         card' \in Cards, \A c \in Controls : card'[c].numid < fresh',
         fresh' \in Nat, fresh' <= fresh + 1, queue' \in Seq(Events), missed' \subseteq Controls,
         \A h : Cached(Now, h) /\ Gone(card, h) => Gone(card', h)
  PROVE  KernelOK' /\ PhaseOK' /\ Good(Now)'
  <1>1. KernelOK'
    <2>1. changes' \in 0 .. MaxChanges /\ fresh' <= Cardinality(Controls) + 1 + changes'
      BY CountNat, MixerAssumption DEF MixerInv, KernelOK
    <2> QED BY <2>1 DEF MixerInv, KernelOK, Events
  <1>2. PhaseOK' BY DEF MixerInv, PhaseOK, library
  <1>3. Good(Now)'
    <2>1. Becomes(Now) BY NowIs DEF Becomes, library
    <2> QED BY <2>1, NowIs, GoodNext
  <1> QED BY <1>1, <1>2, <1>3

(* A change of the card that brings no control and takes none.             *)
LEMMA QuietKeeps ==
  ASSUME MixerInv, UNCHANGED <<library, compare, registered, phase, hand, subscribed, fresh>>,
         changes' = changes + 1, changes < MaxChanges, missed' \subseteq Controls,
         card' \in Cards, \A c \in Controls : card'[c].numid = card[c].numid, Extends(queue, queue')
  PROVE  MixerInv'
  <1>1. queue' \in Seq(Events) BY DEF Extends
  <1>2. \A h : Cached(Now, h) /\ Gone(card, h) => Gone(card', h)
    <2>1. SUFFICES ASSUME NEW h, Cached(Now, h), Gone(card, h) PROVE Gone(card', h) OBVIOUS
    <2>2. h \in RealHandles BY <2>1, KnownCached DEF MixerInv, NumbersOnce
    <2> QED BY <2>1, <2>2, HandlesInt DEF Gone
  <1>3. KernelOK' /\ PhaseOK' /\ Good(Now)'
    <2>1. \A c \in Controls : card'[c].numid < fresh' BY DEF MixerInv, KernelOK
    <2>2. fresh' \in Nat /\ fresh' <= fresh + 1 BY NowIs
    <2> QED BY <1>1, <1>2, <2>1, <2>2, KernelNext
  <1>4. NumbersOnce'
    <2>1. ASSUME NEW h, In(queue', h) PROVE h \in Known
      <3>1. PICK i \in 1 .. Len(queue') : queue'[i].h = h BY <2>1 DEF In
      <3>2. Len(queue) \in Nat /\ Len(queue') \in Nat BY <1>1, NowIs, LenProperties
      <3>3. CASE i > Len(queue)
        <4>1. PICK c \in Controls : Present(c) /\ queue'[i].h = Handle(c) BY <3>3 DEF Extends
        <4> QED BY <3>1, <4>1, KnownCached
      <3>4. CASE ~(i > Len(queue))
        <4>1. i \in 1 .. Len(queue) BY <3>2, <3>4
        <4>2. queue[i].h = h BY <3>1, <4>1 DEF Extends
        <4> QED BY <4>1, <4>2, KnownCached DEF In
      <3> QED BY <3>3, <3>4
    <2>2. elems' = elems /\ elems' \in Seq(Slots) BY NowIs DEF library
    <2>3. ASSUME NEW i \in 1 .. Len(elems') PROVE elems'[i].h \in Known
      BY <2>2, <2>3, NowIs, CachedIs, KnownCached
    <2>4. hand'.h \in Known \union {NoControl} BY KnownCached
    <2> QED BY <1>1, <2>1, <2>2, <2>3, <2>4, KnownNext
  <1> QED BY <1>3, <1>4 DEF MixerInv

(* Another program writes a value.                                         *)
LEMMA KWriteKeeps == ASSUME MixerInv, NEW c \in Controls, NEW v \in Values, KWrite(c, v)
                     PROVE  MixerInv' /\ Extends(queue, queue')
  <1>1. /\ changes < MaxChanges /\ Present(c) /\ card' = [card EXCEPT ![c].value = v]
        /\ queue' = Noted(queue, <<c, card'[c].numid>>, {"VALUE"})
        /\ missed' = IF ~subscribed /\ phase \in {"filled"} THEN missed \union {c} ELSE missed
        /\ changes' = changes + 1
        /\ UNCHANGED <<subscribed, library, compare, registered, phase, hand, sets, loads, fresh, unseen>>
    BY DEF KWrite, Changed, MayChange
  <1>2. card \in Cards /\ queue \in Seq(Events) BY NowIs
  <1>3. card' \in Cards /\ \A d \in Controls : card'[d].numid = card[d].numid BY <1>1, <1>2 DEF Cards
  <1>4. queue' = Noted(queue, Handle(c), {"VALUE"}) BY <1>1, <1>3 DEF Handle
  <1>5. {"VALUE"} \in SUBSET Quiet BY DEF Quiet
  <1>6. Extends(queue, queue') BY <1>1, <1>2, <1>4, <1>5, HandleIs, QuietIs
  <1>7. missed' \subseteq Controls BY <1>1 DEF MixerInv, PhaseOK
  <1> QED BY <1>1, <1>3, <1>6, <1>7, QuietKeeps

(* A control changes its info.                                             *)
LEMMA KInfoKeeps == ASSUME MixerInv, NEW c \in Controls, KInfo(c) PROVE MixerInv' /\ Extends(queue, queue')
  <1>1. /\ changes < MaxChanges /\ Present(c) /\ card' = card
        /\ queue' = Noted(queue, <<c, card'[c].numid>>, {"INFO"})
        /\ missed' = IF ~subscribed /\ phase \in {} THEN missed \union {c} ELSE missed
        /\ changes' = changes + 1
        /\ UNCHANGED <<subscribed, library, compare, registered, phase, hand, sets, loads, fresh, unseen>>
    BY DEF KInfo, Changed, MayChange
  <1>2. card \in Cards /\ queue \in Seq(Events) BY NowIs
  <1>4. queue' = Noted(queue, Handle(c), {"INFO"}) BY <1>1 DEF Handle
  <1>5. {"INFO"} \in SUBSET Quiet BY DEF Quiet
  <1>6. Extends(queue, queue') BY <1>1, <1>2, <1>4, <1>5, HandleIs, QuietIs
  <1>7. missed' \subseteq Controls BY <1>1 DEF MixerInv, PhaseOK
  <1> QED BY <1>1, <1>2, <1>6, <1>7, QuietKeeps

(* A control that comes has a number no handle has.                        *)
LEMMA FreshIs ==
  ASSUME MixerInv, NEW c \in Controls, changes < MaxChanges
  PROVE  /\ <<c, fresh>> \in RealHandles /\ fresh \in Nat \ {0}
         /\ \A h \in Known : h \in RealHandles /\ h[2] < fresh /\ h[2] \in Nat /\ h # <<c, fresh>>
  <1>1. fresh \in Nat /\ fresh <= Cardinality(Controls) + 1 + changes /\ card[c].numid < fresh
        /\ changes \in 0 .. MaxChanges /\ card[c].numid \in Nat
    BY DEF MixerInv, KernelOK, Cards
  <1>2. fresh \in 1 .. Cardinality(Controls) + MaxChanges BY <1>1, CountNat, MixerAssumption
  <1>3. \A h \in Known : h \in RealHandles /\ h[2] < fresh BY DEF MixerInv, NumbersOnce
  <1>4. \A h \in Known : h[2] \in Nat BY <1>3, HandlesInt
  <1>5. <<c, fresh>>[2] = fresh /\ ~(fresh < fresh) BY <1>1
  <1>6. \A h \in Known : h # <<c, fresh>> BY <1>3, <1>5
  <1> QED BY <1>1, <1>2, <1>3, <1>4, <1>6 DEF RealHandles

(* A control comes, with a number of its own.                              *)
LEMMA KAddKeeps == ASSUME MixerInv, NEW c \in Controls, NEW v \in Values, KAdd(c, v) PROVE MixerInv'
  <1> DEFINE new == <<c, fresh>>
  <1>1. /\ changes < MaxChanges /\ ~Present(c) /\ card' = [card EXCEPT ![c] = [numid |-> fresh, value |-> v]]
        /\ fresh' = fresh + 1
        /\ queue' = Noted(queue, <<c, card'[c].numid>>, {"ADD"})
        /\ missed' = IF ~subscribed /\ phase \in {"listed", "filled"} THEN missed \union {c} ELSE missed
        /\ changes' = changes + 1
        /\ UNCHANGED <<subscribed, library, compare, registered, phase, hand, sets, loads, unseen>>
    BY DEF KAdd, Changed, MayChange
  <1>2. card \in Cards /\ queue \in Seq(Events) /\ Len(queue) \in Nat BY NowIs, LenProperties
  <1>3. new \in RealHandles /\ fresh \in Nat \ {0}
        /\ \A h \in Known : h \in RealHandles /\ h[2] < fresh /\ h[2] \in Nat /\ h # new
    BY <1>1, FreshIs
  <1>4. card' \in Cards /\ card'[c].numid = fresh /\ \A d \in Controls : d # c => card'[d] = card[d]
    BY <1>1, <1>2, <1>3 DEF Cards
  <1>5. NotedAs(queue, new, {"ADD"}, queue')
    <2>1. {"ADD"} \in SUBSET REMOVE BY DEF REMOVE
    <2>2. queue' = Noted(queue, new, {"ADD"}) BY <1>1, <1>4
    <2> QED BY <1>2, <1>3, <2>1, <2>2, NotedIs
  <1>6. queue' \in Seq(Events) /\ Len(queue') \in Nat BY <1>5, LenProperties DEF NotedAs
  <1>7. missed' \subseteq Controls BY <1>1 DEF MixerInv, PhaseOK
  <1>8. ASSUME NEW h, Cached(Now, h), Gone(card, h) PROVE Gone(card', h)
    <2>1. h \in Known /\ h \in RealHandles /\ h[2] < fresh /\ h[2] \in Nat BY <1>3, <1>8, KnownCached
    <2>2. h[1] \in Controls /\ h # NoControl BY <2>1, HandlesInt
    <2>3. CASE h[1] = c BY <1>3, <1>4, <2>1, <2>3 DEF Gone
    <2>4. CASE h[1] # c BY <1>4, <1>8, <2>2, <2>4 DEF Gone
    <2> QED BY <2>3, <2>4
  <1>9. KernelOK' /\ PhaseOK' /\ Good(Now)'
    <2>1. ASSUME NEW d \in Controls PROVE card'[d].numid < fresh'
      <3>1. card[d].numid < fresh /\ card[d].numid \in Nat BY <1>2 DEF MixerInv, KernelOK, Cards
      <3> QED BY <1>1, <1>3, <1>4, <3>1
    <2>2. fresh' \in Nat /\ fresh' <= fresh + 1 BY <1>1, <1>3
    <2> HIDE DEF new
    <2> QED BY <1>1, <1>4, <1>6, <1>7, <1>8, <2>1, <2>2, KernelNext
  <1>10. NumbersOnce'
    <2>1. ASSUME NEW h \in Known' PROVE h \in Known \/ h = new
      <3>1. h \in KnownOf(elems', queue', hand', card') BY <2>1 DEF Known
      <3>2. elems' = elems /\ elems \in Seq(Slots) /\ Now.elems = elems BY <1>1, NowIs DEF library
      <3>3. \/ \E i \in 1 .. Len(elems') : elems'[i].h = h
            \/ In(queue', h)
            \/ h = hand'.h /\ h # NoControl
            \/ \E d \in Controls : card'[d].numid # 0 /\ h = <<d, card'[d].numid>>
        BY <1>6, <3>1, <3>2, KnownHas
      <3>4. CASE \E i \in 1 .. Len(elems') : elems'[i].h = h BY <3>2, <3>4, CachedIs, KnownCached
      <3>5. CASE In(queue', h)
        <4>1. PICK i \in 1 .. Len(queue') : queue'[i].h = h BY <3>5 DEF In
        <4>2. CASE i \in 1 .. Len(queue)
          <5>1. queue[i].h = h BY <4>1, <4>2, <1>5 DEF NotedAs
          <5> QED BY <4>2, <5>1, KnownCached DEF In
        <4>3. CASE i \notin 1 .. Len(queue)
          <5>1. subscribed /\ ~In(queue, new) /\ i = Len(queue) + 1 BY <1>2, <1>5, <1>6, <4>1, <4>3 DEF NotedAs
          <5> QED BY <1>5, <4>1, <5>1 DEF NotedAs
        <4> QED BY <4>2, <4>3
      <3>6. CASE h = hand'.h /\ h # NoControl BY <1>1, <3>6, KnownCached
      <3>7. ASSUME NEW d \in Controls, card'[d].numid # 0, h = <<d, card'[d].numid>> PROVE h \in Known \/ h = new
        <4>1. CASE d = c BY <1>4, <3>7, <4>1
        <4>2. CASE d # c BY <1>4, <3>7, <4>2, KnownCached DEF Present, Handle
        <4> QED BY <4>1, <4>2
      <3> QED BY <3>3, <3>4, <3>5, <3>6, <3>7
    <2>2. new[2] = fresh OBVIOUS
    <2> HIDE DEF new
    <2>3. \A h \in Known' : h \in RealHandles /\ h[2] < fresh' BY <1>1, <1>3, <2>1, <2>2
    <2>4. ASSUME NEW h \in Known', NEW g \in Known', h[2] = g[2] PROVE h = g
      <3>1. CASE h \in Known /\ g \in Known BY <2>4, <3>1 DEF MixerInv, NumbersOnce
      <3>2. CASE h = new /\ g = new BY <3>2
      <3>3. CASE h \in Known /\ g = new BY <1>3, <2>2, <2>4, <3>3
      <3>4. CASE h = new /\ g \in Known BY <1>3, <2>2, <2>4, <3>4
      <3> QED BY <2>1, <3>1, <3>2, <3>3, <3>4
    <2> QED BY <2>3, <2>4 DEF NumbersOnce
  <1> QED BY <1>9, <1>10 DEF MixerInv

(* A control goes.                                                         *)
LEMMA KRemoveKeeps == ASSUME MixerInv, NEW c \in Controls, KRemove(c) PROVE MixerInv'
  <1> DEFINE old == Handle(c)
  <1>1. /\ changes < MaxChanges /\ Present(c) /\ card' = [card EXCEPT ![c] = [numid |-> 0, value |-> 0]]
        /\ queue' = Noted(queue, old, REMOVE)
        /\ missed' = IF ~subscribed /\ Loading THEN missed \union {c} ELSE missed
        /\ changes' = changes + 1
        /\ UNCHANGED <<fresh, subscribed, library, compare, registered, phase, hand, sets, loads>>
    BY DEF KRemove, MayChange
  <1>2. card \in Cards /\ queue \in Seq(Events) /\ Len(queue) \in Nat BY NowIs, LenProperties
  <1>3. old \in RealHandles /\ old \in Known BY <1>1, HandleIs
  <1>4. card' \in Cards /\ card'[c].numid = 0 /\ \A d \in Controls : d # c => card'[d] = card[d]
    <2>1. 0 \in Values BY MixerAssumption
    <2> QED BY <1>1, <1>2, <2>1 DEF Cards
  <1> HIDE DEF old
  <1>5. NotedAs(queue, old, REMOVE, queue') BY <1>1, <1>2, <1>3, NotedIs
  <1>6. queue' \in Seq(Events) /\ Len(queue') \in Nat BY <1>5, LenProperties DEF NotedAs
  <1>7. missed' \subseteq Controls BY <1>1 DEF MixerInv, PhaseOK
  <1>8. ASSUME NEW h, Cached(Now, h), Gone(card, h) PROVE Gone(card', h)
    <2>1. h \in RealHandles BY <1>8, KnownCached DEF MixerInv, NumbersOnce
    <2>2. h[1] \in Controls /\ h # NoControl /\ h[2] # 0 BY <2>1, HandlesInt
    <2>3. CASE h[1] = c BY <1>4, <2>2, <2>3 DEF Gone
    <2>4. CASE h[1] # c BY <1>4, <1>8, <2>2, <2>4 DEF Gone
    <2> QED BY <2>3, <2>4
  <1>9. KernelOK' /\ PhaseOK' /\ Good(Now)'
    <2>1. ASSUME NEW d \in Controls PROVE card'[d].numid < fresh'
      <3>1. card[d].numid < fresh /\ card[d].numid \in Nat /\ fresh \in Nat BY <1>2 DEF MixerInv, KernelOK, Cards
      <3> QED BY <1>1, <1>4, <3>1
    <2>2. fresh' \in Nat /\ fresh' <= fresh + 1 BY <1>1, NowIs
    <2> QED BY <1>1, <1>4, <1>6, <1>7, <1>8, <2>1, <2>2, KernelNext
  <1>10. NumbersOnce'
    <2>1. ASSUME NEW h \in Known' PROVE h \in Known
      <3>1. h \in KnownOf(elems', queue', hand', card') BY <2>1 DEF Known
      <3>2. elems' = elems /\ elems \in Seq(Slots) /\ Now.elems = elems BY <1>1, NowIs DEF library
      <3>3. \/ \E i \in 1 .. Len(elems') : elems'[i].h = h
            \/ In(queue', h)
            \/ h = hand'.h /\ h # NoControl
            \/ \E d \in Controls : card'[d].numid # 0 /\ h = <<d, card'[d].numid>>
        BY <1>6, <3>1, <3>2, KnownHas
      <3>4. CASE \E i \in 1 .. Len(elems') : elems'[i].h = h BY <3>2, <3>4, CachedIs, KnownCached
      <3>5. CASE In(queue', h)
        <4>1. PICK i \in 1 .. Len(queue') : queue'[i].h = h BY <3>5 DEF In
        <4>2. CASE i \in 1 .. Len(queue)
          <5>1. queue[i].h = h BY <4>1, <4>2, <1>5 DEF NotedAs
          <5> QED BY <4>2, <5>1, KnownCached DEF In
        <4>3. CASE i \notin 1 .. Len(queue)
          <5>1. subscribed /\ ~In(queue, old) /\ i = Len(queue) + 1 BY <1>2, <1>5, <1>6, <4>1, <4>3 DEF NotedAs
          <5>2. h = old BY <1>5, <4>1, <5>1 DEF NotedAs
          <5> QED BY <1>3, <5>2
        <4> QED BY <4>2, <4>3
      <3>6. CASE h = hand'.h /\ h # NoControl BY <1>1, <3>6, KnownCached
      <3>7. ASSUME NEW d \in Controls, card'[d].numid # 0, h = <<d, card'[d].numid>> PROVE h \in Known
        <4>1. d # c BY <1>4, <3>7
        <4> QED BY <1>4, <3>7, <4>1, KnownCached DEF Present, Handle
      <3> QED BY <3>3, <3>4, <3>5, <3>6, <3>7
    <2> QED BY <1>1, <2>1 DEF NumbersOnce, MixerInv
  <1> QED BY <1>9, <1>10 DEF MixerInv

(* What a function on a finite set takes is finite.                        *)
LEMMA RangeFinite ==
  ASSUME NEW S, IsFiniteSet(S), NEW T, NEW f \in [S -> T], \A t \in T : \E s \in S : f[s] = t
  PROVE  IsFiniteSet(T)
  <1>1. f \in Surjection(S, T) BY DEF Surjection
  <1> QED BY <1>1, FS_Surjection

------------------------------------------------------------------------------
(* The application's steps.                                                *)
LEMMA SetGood ==
  ASSUME MixerInv, NEW n, Exists(Now, n), NEW s \in Selems, SameControls(Elem(Now, n), s), NEW v \in Views,
         NEW t \in SUBSET Names, \A m : m # n => (m \in t <=> m \in torn),
         v.unsaid \/ v = View(s) \/ (n \in t /\ Fails(s, card))
  PROVE  LET z == [WithElem(Now, n, s) EXCEPT !.told[n] = v, !.torn = t]
         IN  /\ Good(z) /\ \A g : Cached(z, g) <=> Cached(Now, g)
             /\ Exists(z, n) /\ Elem(z, n) = s
  <1> DEFINE x == WithElem(Now, n, s)
             new == [x.told EXCEPT ![n] = v]
             z == [x EXCEPT !.told[n] = v, !.torn = t]
  <1>0. Good(Now) /\ Well(Now) /\ Linked(Now) /\ n \in Names
    <2>1. Good(Now) /\ Well(Now) /\ Linked(Now) BY NowIs
    <2> QED BY <2>1, ElemOf
  <1>1. Kept(Now, x, n) /\ Exists(x, n) /\ Elem(x, n) = s /\ Rest(Now, x)
    <2>1. s.helems = Elem(Now, n).helems BY DEF SameControls
    <2> QED BY <1>0, <2>1, WithElemKept
  <1>2. z = [x EXCEPT !.told = new, !.torn = t] OBVIOUS
  <1> HIDE DEF x, z
  <1>3. Well(x) /\ Linked(x) /\ x \in Shapes BY <1>1 DEF Kept, Well
  <1>4. new \in [Names -> Views] /\ new[n] = v /\ \A m \in Names : m # n => new[m] = x.told[m]
    BY <1>0, <1>3 DEF Shapes
  <1> HIDE DEF new
  <1>5. /\ z \in Shapes /\ z.elems = x.elems /\ z.mixer = x.mixer /\ z.told = new /\ z.torn = t
        /\ z.abort = x.abort
    BY <1>2, <1>3, <1>4 DEF Shapes
  <1>6. (\A m : Exists(z, m) <=> Exists(x, m)) /\ (\A m : Elem(z, m) = Elem(x, m)) BY <1>5, SameMixer
  <1>7. (\A g : Cached(z, g) <=> Cached(x, g)) BY <1>5, SameElems
  <1>8. Well(z) /\ Linked(z) BY <1>3, <1>5, SameArrays
  <1>9. Kept(x, z, n)
    <2>1. x.torn = torn BY <1>1, NowIs DEF Rest
    <2>2. \A m : Exists(x, m) => m \in Names BY <1>3, ElemOf
    <2> QED BY <1>4, <1>5, <1>6, <1>7, <1>8, <2>1, <2>2 DEF Kept
  <1>10. Kept(Now, z, n) BY <1>1, <1>9, KeptOn
  <1>11. GoodBut(Now, n) BY <1>0, GoodIsBut
  <1>12. Sound(z, n)
    <2>1. Sound(Now, n) BY <1>0 DEF Good
    <2>2. s.helems # <<>> /\ Fit(s) BY <2>1 DEF Sound, Fit, SameControls
    <2> QED BY <1>1, <1>4, <1>5, <1>6, <2>2 DEF Sound, Heard
  <1>13. Good(z) BY <1>10, <1>11, <1>12, KeptGood
  <1> QED BY <1>1, <1>6, <1>10, <1>13 DEF Kept, z, x

(* What the application knows of an element it sets: what it knew, and     *)
(* what it sets.                                                           *)
Saw(n, s, saw) ==
  saw \in Views /\ (told[n] = View(Elem(Now, n)) => saw = View(s)) /\ (told[n].unsaid => saw.unsaid)

(* Then it knows what the set leaves, or that is unsaid.                   *)
LEMMA SawIs ==
  ASSUME MixerInv, NEW n, Exists(Now, n), NEW s \in Selems, SameControls(Elem(Now, n), s),
         NEW r \in Selems, SameControls(s, r), NEW saw, Saw(n, s, saw), NEW t, torn \subseteq t
  PROVE  LET v == [saw EXCEPT !.unsaid = @ \/ View(r) # View(s)]
         IN  v \in Views /\ (v.unsaid \/ v = View(r) \/ (n \in t /\ Fails(r, card)))
  <1> DEFINE b == saw.unsaid \/ View(r) # View(s)
             v == [saw EXCEPT !.unsaid = b]
  <1>1. saw \in Views /\ b \in BOOLEAN BY DEF Saw, Views
  <1> HIDE DEF b
  <1>2. v \in Views /\ v.unsaid = b /\ (b = saw.unsaid => v = saw) BY <1>1 DEF Views
  <1>3. Heard(Now, n) /\ Now.told = told /\ Now.torn = torn BY NowIs DEF Good, Sound
  <1>4. CASE told[n] = View(Elem(Now, n))
    <2>1. saw = View(s) /\ saw.unsaid = FALSE BY <1>4 DEF Saw, View
    <2>2. b <=> View(r) # View(s) BY <2>1 DEF b
    <2>3. b \/ v = View(r) BY <1>1, <1>2, <2>1, <2>2
    <2> QED BY <1>2, <2>3 DEF b
  <1>5. CASE told[n].unsaid
    <2>1. b BY <1>1, <1>5 DEF Saw, b
    <2> QED BY <1>2, <2>1 DEF b
  <1>6. CASE n \in torn /\ Fails(Elem(Now, n), card)
    <2> DEFINE e == Elem(Now, n)
    <2>1. r.ctls = e.ctls BY DEF SameControls
    <2>2. ReadSteps(r) = ReadSteps(e) BY <2>1, SameReads
    <2> HIDE DEF e
    <2>3. Fails(r, card) BY <1>6, <2>1, <2>2 DEF Fails, Errs, e
    <2> QED BY <1>2, <1>6, <2>3 DEF b
  <1> QED BY <1>3, <1>4, <1>5, <1>6 DEF Heard

(* The application sets an element.                                        *)
LEMMA SetKeeps ==
  ASSUME MixerInv, NEW n, Exists(Now, n), NEW s \in Selems, SameControls(Elem(Now, n), s), NEW saw,
         Saw(n, s, saw), Set(n, s, saw)
  PROVE  MixerInv' /\ Extends(queue, queue') /\ phase = "idle" /\ phase' \in {"idle", "dead"}
         /\ (\A c \in Controls : card'[c].numid = card[c].numid)
         /\ (\A g : Cached(Now, g)' <=> Cached(Now, g)) /\ (phase' = "dead" => Mute(Now)')
         /\ UNCHANGED <<fresh, subscribed, compare, registered, hand, missed, unseen, changes, loads>>
  <1> DEFINE r == SelemWrite(s, card)
             t == IF r.err THEN torn \union {n} ELSE torn
             x == WithElem(Now, n, r.s)
             v == [saw EXCEPT !.unsaid = @ \/ View(r.s) # View(s)]
             z == [x EXCEPT !.told[n] = v, !.torn = t]
  <1>0. n \in Names /\ torn \in SUBSET Names /\ card \in Cards /\ queue \in Seq(Events)
    <2>1. torn \in SUBSET Names BY NowIs DEF Shapes
    <2> QED BY <2>1, NowIs, ElemOf
  <1>1. /\ phase = "idle" /\ Becomes(z) /\ card' = r.card
        /\ queue' = SetNotes(r.card, card, queue) /\ phase' = IF r.abort THEN "dead" ELSE phase
        /\ UNCHANGED <<fresh, subscribed, compare, registered, hand, missed, unseen, changes, loads>>
    <2> DEFINE w(k) == [WithElem(Now, n, k.s) EXCEPT
                          !.told[n] = [saw EXCEPT !.unsaid = @ \/ View(k.s) # View(s)],
                          !.torn = IF k.err THEN @ \union {n} ELSE @]
    <2>1. phase = "idle" /\ UNCHANGED <<fresh, subscribed, compare, registered, hand, missed, unseen, changes, loads>>
      BY DEF Set
    <2>2. PICK k \in {SelemWrite(s, card)} :
            /\ Becomes(w(k)) /\ card' = k.card /\ queue' = SetNotes(k.card, card, queue)
            /\ phase' = IF k.abort THEN "dead" ELSE phase
      BY DEF Set, SetNotes
    <2>3. k = r OBVIOUS
    <2>4. x.torn = torn BY NowIs DEF WithElem
    <2>5. w(r) = z
      <3> HIDE DEF r
      <3> QED BY <2>4
    <2>6. Becomes(z) BY <2>2, <2>3, <2>5
    <2> QED BY <2>1, <2>2, <2>3, <2>6
  <1>2. /\ r.s \in Selems /\ r.card \in Cards /\ r.abort = NullEnum(s)
        /\ SameControls(s, r.s) /\ SameNumbers(card, r.card)
    <2>1. {0, 1} \subseteq Values BY MixerAssumption
    <2> HIDE DEF r
    <2> QED BY <1>0, <2>1, SelemWriteIs DEF r
  <1> HIDE DEF r
  <1>3. r.s \in Selems /\ r.card \in Cards /\ SameControls(Elem(Now, n), r.s)
    BY <1>2 DEF SameControls
  <1>4. t \in SUBSET Names /\ torn \subseteq t /\ \A m : m # n => (m \in t <=> m \in torn) BY <1>0
  <1> HIDE DEF t
  <1>a. v \in Views /\ (v.unsaid \/ v = View(r.s) \/ (n \in t /\ Fails(r.s, card)))
    BY <1>2, <1>4, SawIs
  <1> HIDE DEF v
  <1>5. Good(z) /\ (\A g : Cached(z, g) <=> Cached(Now, g)) /\ Exists(z, n) /\ Elem(z, n) = r.s
    BY <1>3, <1>4, <1>a, SetGood
  <1> HIDE DEF z
  <1>6. \A c \in Controls : card'[c].numid = card[c].numid BY <1>1, <1>2 DEF SameNumbers
  <1>7. Extends(queue, queue')
    <2>1. \A c \in Controls : Present(c) => Handle(c) \in RealHandles BY HandleIs
    <2> QED BY <1>0, <1>1, <1>2, <2>1, SetQueueIs
  <1>8. Good(Now)'
    <2>1. ASSUME NEW h, Cached(z, h), Gone(card, h) PROVE Gone(card', h)
      <3>1. h \in RealHandles BY <1>5, <2>1, KnownCached DEF MixerInv, NumbersOnce
      <3> QED BY <1>6, <2>1, <3>1, HandlesInt DEF Gone
    <2> QED BY <1>1, <1>3, <1>5, <2>1, GoodNext
  <1>9. KernelOK'
    <2>1. queue' \in Seq(Events) BY <1>7 DEF Extends
    <2>2. \A c \in Controls : card'[c].numid < fresh' BY <1>1, <1>6 DEF MixerInv, KernelOK
    <2> QED BY <1>1, <1>3, <2>1, <2>2 DEF MixerInv, KernelOK, Events
  <1>b. phase' \in {"idle", "dead"} BY <1>1
  <1>10. PhaseOK' BY <1>1, <1>b DEF MixerInv, PhaseOK
  <1>11. NumbersOnce'
    <2>1. ASSUME NEW h, In(queue', h) PROVE h \in Known
      <3>1. PICK i \in 1 .. Len(queue') : queue'[i].h = h BY <2>1 DEF In
      <3>2. Len(queue) \in Nat /\ Len(queue') \in Nat BY <1>0, <1>7, LenProperties DEF Extends
      <3>3. CASE i > Len(queue)
        <4>1. PICK c \in Controls : Present(c) /\ queue'[i].h = Handle(c) BY <1>7, <3>3 DEF Extends
        <4> QED BY <3>1, <4>1, KnownCached
      <3>4. CASE ~(i > Len(queue))
        <4>1. i \in 1 .. Len(queue) BY <3>2, <3>4
        <4>2. queue[i].h = h BY <1>7, <3>1, <4>1 DEF Extends
        <4> QED BY <4>1, <4>2, KnownCached DEF In
      <3> QED BY <3>3, <3>4
    <2>2. elems' = z.elems /\ elems' \in Seq(Slots) BY <1>1, <1>5 DEF Becomes, Good, Well, Shapes
    <2>3. ASSUME NEW i \in 1 .. Len(elems') PROVE elems'[i].h \in Known
      BY <1>5, <2>2, <2>3, CachedIs, KnownCached
    <2>4. hand'.h \in Known \union {NoControl} BY <1>1, KnownCached
    <2>5. queue' \in Seq(Events) BY <1>7 DEF Extends
    <2> QED BY <1>1, <1>6, <2>1, <2>2, <2>3, <2>4, <2>5, KnownNext
  <1>12. \A g : Cached(Now, g)' <=> Cached(Now, g)
    <2>1. (Now.elems)' = z.elems BY <1>1 DEF Now, Becomes
    <2>2. \A g : Cached(Now, g)' <=> Cached(z, g) BY <2>1 DEF Cached
    <2> QED BY <1>5, <2>2
  <1>13. phase' = "dead" => Mute(Now)'
    <2>1. SUFFICES ASSUME phase' = "dead" PROVE Mute(Now)' OBVIOUS
    <2>2. NullEnum(r.s) BY <1>1, <1>2, <2>1, SameNull
    <2>3. Mute(z) BY <1>5, <2>2, MuteOf DEF Good
    <2> QED BY <1>1, <2>3 DEF Mute, Now, Becomes
  <1> QED BY <1>1, <1>b, <1>6, <1>7, <1>8, <1>9, <1>10, <1>11, <1>12, <1>13 DEF MixerInv

(* What the application can set.                                           *)
SetAny(n) ==
  \E dir \in Dirs : \/ \E v \in Values : SetVolumeOps(n, dir, v)
                    \/ \E on \in BOOLEAN : SetSwitchOps(n, dir, on)

(* Each of its sets is one of these.                                       *)
LEMMA SetAnyIs ==
  ASSUME MixerInv, NEW n, SetAny(n)
  PROVE  Exists(Now, n) /\ \E s \in Selems : \E saw \in Views : SameControls(Elem(Now, n), s) /\ Saw(n, s, saw) /\ Set(n, s, saw)
  <1> DEFINE e == Elem(Now, n)
  <1> PICK dir \in Dirs : \/ \E v \in Values : SetVolumeOps(n, dir, v)
                          \/ \E on \in BOOLEAN : SetSwitchOps(n, dir, on)
    BY DEF SetAny
  <1>0. Exists(Now, n) BY DEF SetVolumeOps, SetSwitchOps
  <1>1. e \in Selems /\ n \in Names /\ told[n] \in Views
    <2>1. Well(Now) /\ Now.told = told BY NowIs
    <2> QED BY <1>0, <2>1, ElemOf DEF Well, Shapes
  <1>2. ASSUME NEW v \in Values, SetVolumeOps(n, dir, v)
        PROVE  \E s \in Selems : \E saw \in Views : SameControls(Elem(Now, n), s) /\ Saw(n, s, saw) /\ Set(n, s, saw)
    <2> DEFINE d == VolumeDir(e, dir)
               s == SetVolume(e, dir, v)
               saw == [told[n] EXCEPT !.vol[d] = v]
    <2>1. Set(n, s, saw) BY <1>2 DEF SetVolumeOps
    <2>2. s \in Selems /\ SameControls(e, s) BY <1>1, SetIs
    <2>3. s = [e EXCEPT !.vol[d] = v] BY DEF SetVolume
    <2>4. d \in Dirs BY DEF VolumeDir, Dirs
    <2> HIDE DEF d, e, s
    <2>5. Saw(n, s, saw)
      <3>1. saw \in Views /\ saw.unsaid = told[n].unsaid BY <1>1, <2>4 DEF Views
      <3>2. ASSUME told[n] = View(e) PROVE saw = View(s)
        <4>1. told[n].vol = e.vol /\ told[n].sw = e.sw /\ told[n].unsaid = FALSE BY <3>2 DEF View
        <4>2. saw.vol = [told[n].vol EXCEPT ![d] = v] /\ saw.sw = told[n].sw
          BY <1>1 DEF Views
        <4>3. s.vol = [e.vol EXCEPT ![d] = v] /\ s.sw = e.sw BY <1>1, <2>3 DEF Selems
        <4>4. saw = [vol |-> saw.vol, sw |-> saw.sw, unsaid |-> saw.unsaid] BY <3>1 DEF Views
        <4>5. saw.vol = s.vol /\ saw.sw = s.sw /\ saw.unsaid = FALSE BY <3>1, <4>1, <4>2, <4>3
        <4> QED BY <4>4, <4>5 DEF View
      <3> QED BY <3>1, <3>2 DEF Saw, e
    <2> HIDE DEF saw
    <2> QED BY <2>1, <2>2, <2>5 DEF Saw, e
  <1>3. ASSUME NEW on \in BOOLEAN, SetSwitchOps(n, dir, on)
        PROVE  \E s \in Selems : \E saw \in Views : SameControls(Elem(Now, n), s) /\ Saw(n, s, saw) /\ Set(n, s, saw)
    <2> DEFINE s == SetSwitch(e, dir, on)
               saw == [told[n] EXCEPT !.sw[dir] = on]
    <2>1. Set(n, s, saw) BY <1>3 DEF SetSwitchOps
    <2>2. s \in Selems /\ SameControls(e, s) BY <1>1, SetIs
    <2>3. s = [e EXCEPT !.sw[dir] = on] BY DEF SetSwitch
    <2> HIDE DEF e, s
    <2>5. Saw(n, s, saw)
      <3>1. saw \in Views /\ saw.unsaid = told[n].unsaid BY <1>1 DEF Views
      <3>2. ASSUME told[n] = View(e) PROVE saw = View(s)
        <4>1. told[n].vol = e.vol /\ told[n].sw = e.sw /\ told[n].unsaid = FALSE BY <3>2 DEF View
        <4>2. saw.vol = told[n].vol /\ saw.sw = [told[n].sw EXCEPT ![dir] = on]
          BY <1>1 DEF Views
        <4>3. s.vol = e.vol /\ s.sw = [e.sw EXCEPT ![dir] = on] BY <1>1, <2>3 DEF Selems
        <4>4. saw = [vol |-> saw.vol, sw |-> saw.sw, unsaid |-> saw.unsaid] BY <3>1 DEF Views
        <4>5. saw.vol = s.vol /\ saw.sw = s.sw /\ saw.unsaid = FALSE BY <3>1, <4>1, <4>2, <4>3
        <4> QED BY <4>4, <4>5 DEF View
      <3> QED BY <3>1, <3>2 DEF Saw, e
    <2> HIDE DEF saw
    <2> QED BY <2>1, <2>2, <2>5 DEF Saw, e
  <1> QED BY <1>0, <1>2, <1>3

(* The list of the card's controls.                                        *)
LEMMA LoadListKeeps ==
  ASSUME MixerInv, LoadList
  PROVE  MixerInv' /\ \A g : Cached(Now, g)' <=> \E c \in Controls : Present(c) /\ g = Handle(c)
  <1> DEFINE es == {[h |-> Handle(c), bag |-> <<>>] : c \in Offered}
             new == Sorted(es, compare)
             x == [Now EXCEPT !.elems = new]
  <1>1. /\ phase = "new" /\ elems' = new /\ phase' = "listed"
        /\ missed' = {queue[i].h[1] : i \in {j \in DOMAIN queue : "ADD" \in queue[j].mask}}
        /\ UNCHANGED <<kernel, mixer, told, torn, compare, registered, hand, unseen, changes, sets>>
    BY DEF LoadList
  <1>0. elems = <<>> /\ mixer = <<>> /\ compare \in {"default", "fast"} BY <1>1 DEF MixerInv, PhaseOK
  <1>2. \A c \in Offered : c \in Controls /\ Present(c) /\ Handle(c) \in RealHandles /\ Handle(c) \in Known
    BY HandleIs DEF Offered
  <1>3. IsFiniteSet(es)
    <2> DEFINE f == [c \in Offered |-> [h |-> Handle(c), bag |-> <<>>]]
    <2>1. IsFiniteSet(Offered)
      <3>1. IsFiniteSet(Controls) /\ Offered \in SUBSET Controls BY ControlAssumption DEF Offered
      <3> QED BY <3>1, FS_Subset
    <2>2. f \in [Offered -> es] /\ \A e \in es : \E c \in Offered : f[c] = e OBVIOUS
    <2> HIDE DEF f, es
    <2> QED BY <2>1, <2>2, RangeFinite
  <1>4. \A e \in es : \E c \in Offered : e.h = Handle(c) /\ e = [h |-> Handle(c), bag |-> <<>>] OBVIOUS
  <1>5. es \subseteq Slots
    <2>1. <<>> \in Seq(Names) BY EmptySeq
    <2>2. ASSUME NEW e \in es PROVE e \in Slots
      <3>1. PICK c \in Offered : e = [h |-> Handle(c), bag |-> <<>>] BY <1>4
      <3>2. Handle(c) \in RealHandles BY <1>2
      <3> HIDE DEF es
      <3> QED BY <2>1, <3>1, <3>2 DEF Slots
    <2> QED BY <2>2
  <1>h. \A c \in Offered : [h |-> Handle(c), bag |-> <<>>] \in es OBVIOUS
  <1>b. \A e \in es : e.bag = <<>> OBVIOUS
  <1> HIDE DEF es
  <1>6. \A e \in es : Place(compare, e.h) \in Int
    BY <1>0, <1>2, <1>4, HandlesInt DEF Key
  <1>7. \A e, d \in es : Place(compare, e.h) = Place(compare, d.h) => e = d
    <2>1. SUFFICES ASSUME NEW e \in es, NEW d \in es, Place(compare, e.h) = Place(compare, d.h) PROVE e = d OBVIOUS
    <2>2. PICK a \in Offered : e.h = Handle(a) /\ e = [h |-> Handle(a), bag |-> <<>>] BY <1>4
    <2>3. PICK b \in Offered : d.h = Handle(b) /\ d = [h |-> Handle(b), bag |-> <<>>] BY <1>4
    <2>4. CASE compare = "default"
      <3>1. Handle(a)[1] = a /\ Handle(b)[1] = b BY DEF Handle
      <3>2. a = b BY <2>1, <2>2, <2>3, <2>4, <3>1 DEF Place
      <3> QED BY <2>2, <2>3, <3>2
    <2>5. CASE compare = "fast"
      <3>1. Handle(a)[2] = Handle(b)[2] BY <2>1, <2>2, <2>3, <2>5 DEF Place
      <3>2. Handle(a) = Handle(b) BY <1>2, <3>1 DEF MixerInv, NumbersOnce
      <3> QED BY <2>2, <2>3, <3>2
    <2> QED BY <1>0, <2>4, <2>5
  <1>8. /\ new \in Seq(es) /\ Range(new) = es
        /\ \A i \in 1 .. Len(new) - 1 : Place(compare, new[i].h) < Place(compare, new[i + 1].h)
    BY <1>3, <1>6, <1>7, SortedIs
  <1> HIDE DEF new
  <1>9. new \in Seq(Slots) /\ Len(new) \in Nat /\ DOMAIN new = 1 .. Len(new)
        /\ \A i \in 1 .. Len(new) : new[i] \in es
    <2>1. Len(new) \in Nat /\ DOMAIN new = 1 .. Len(new) /\ \A i \in 1 .. Len(new) : new[i] \in es
      BY <1>8, LenProperties, ElementOfSeq
    <2>2. new \in [1 .. Len(new) -> Slots]
      <3>1. new = [i \in 1 .. Len(new) |-> new[i]] BY <1>8, <2>1
      <3> QED BY <1>5, <2>1, <3>1
    <2> QED BY <2>1, <2>2, FunSeq
  <1>10. x \in Shapes /\ x.elems = new /\ x.mixer = <<>> /\ x.told = told /\ x.torn = torn
    <2>1. Now \in Shapes /\ Now.mixer = mixer /\ Now.told = told /\ Now.torn = torn BY NowIs
    <2> QED BY <1>0, <1>9, <2>1 DEF Shapes
  <1> HIDE DEF x
  <1>11. \A g : Cached(x, g) <=> \E c \in Offered : g = Handle(c)
    <2>1. Range(x.elems) = es BY <1>8, <1>10
    <2>2. ASSUME NEW c \in Offered PROVE Cached(x, Handle(c))
      <3>1. [h |-> Handle(c), bag |-> <<>>] \in es BY <1>h
      <3> QED BY <2>1, <3>1 DEF Cached
    <2>3. ASSUME NEW g, Cached(x, g) PROVE \E c \in Offered : g = Handle(c) BY <1>4, <2>1, <2>3 DEF Cached
    <2> QED BY <2>2, <2>3
  <1>12. Well(x)
    <2>1. Keys(new) \in Seq(Int) /\ Len(Keys(new)) = Len(new)
          /\ \A i \in 1 .. Len(new) : Keys(new)[i] = Key(new[i].h)
      BY <1>0, <1>9, KeysAre
    <2>2. StrictlySorted(Keys(new))
      <3> SUFFICES ASSUME NEW i \in 1 .. Len(new) - 1 PROVE Keys(new)[i] < Keys(new)[i + 1]
        BY <2>1 DEF StrictlySorted
      <3>1. i \in 1 .. Len(new) /\ i + 1 \in 1 .. Len(new) BY <1>9
      <3> QED BY <1>8, <2>1, <3>1 DEF Key
    <2>3. StrictlySorted(MixerNames(x)) BY <1>10 DEF StrictlySorted, MixerNames
    <2>4. card \in Cards BY NowIs
    <2> QED BY <1>0, <1>10, <2>2, <2>3, <2>4 DEF Well
  <1>13. \A n : ~Exists(x, n) BY <1>10 DEF Exists
  <1>14. \A g : Cached(x, g) => BagOf(x, g) = <<>>
    <2>1. SUFFICES ASSUME NEW g, Cached(x, g) PROVE BagOf(x, g) = <<>> OBVIOUS
    <2>2. PICK i \in 1 .. Len(x.elems) : BagOf(x, g) = x.elems[i].bag BY <1>12, <2>1, SlotOf
    <2>3. x.elems[i] \in es BY <1>9, <1>10, <2>2
    <2> QED BY <1>b, <2>2, <2>3
  <1>15. Linked(x)
    <2>1. IsInjective(<<>>) BY DEF IsInjective
    <2>2. \A n : n \notin Range(<<>>) BY DEF Range
    <2> QED BY <1>13, <1>14, <2>1, <2>2 DEF Linked
  <1>16. Good(x) BY <1>12, <1>13, <1>15 DEF Good
  <1>17. Becomes(x) BY <1>0, <1>1, <1>10 DEF Becomes
  <1>18. KernelOK' /\ NumbersOnce' /\ Good(Now)'
    <2>1. \A g : Cached(x, g) => g \in Known BY <1>2, <1>11
    <2>2. \A h : In(queue', h) => h \in Known BY <1>1, KnownCached DEF kernel
    <2>3. hand' \in [h : Handles, mask : SUBSET REMOVE] /\ hand'.h \in Known \union {NoControl}
      BY <1>1, KnownCached DEF MixerInv, KernelOK
    <2> QED BY <1>1, <1>16, <1>17, <2>1, <2>2, <2>3, NowIs, LibraryNext DEF kernel
  <1>19. PhaseOK'
    <2>1. missed' \subseteq Controls
      <3>1. queue \in Seq(Events) /\ DOMAIN queue = 1 .. Len(queue) BY NowIs, LenProperties
      <3>2. \A i \in DOMAIN queue : queue[i].h[1] \in Controls 
        <4>1. ASSUME NEW i \in DOMAIN queue PROVE queue[i].h[1] \in Controls
          <5>1. queue[i] \in Events BY <3>1, ElementOfSeq
          <5>2. queue[i].h \in RealHandles BY <5>1 DEF Events
          <5> QED BY <5>2, HandlesInt
        <4> QED BY <4>1
      <3> QED BY <1>1, <3>2
    <2> QED BY <1>1, <2>1 DEF MixerInv, PhaseOK, kernel
  <1>20. \A g : Cached(Now, g)' <=> Cached(x, g)
    <2>1. (Now.elems)' = x.elems BY <1>1, <1>10 DEF Now
    <2> QED BY <2>1 DEF Cached
  <1> QED BY <1>11, <1>18, <1>19, <1>20 DEF MixerInv, Offered

(* The order by numbers: the same slots, in another order.                 *)
LEMMA SetCompareKeeps ==
  ASSUME MixerInv, SetCompare
  PROVE  MixerInv' /\ \A g : Cached(Now, g)' <=> Cached(Now, g)
  <1> DEFINE new == Sorted(Range(elems), "fast")
  <1>1. /\ phase = "idle" /\ compare = "default" /\ compare' = "fast" /\ elems' = new
        /\ UNCHANGED <<kernel, mixer, told, torn, registered, phase, hand, missed, unseen, changes, sets, loads>>
    BY DEF SetCompare
  <1>2. elems \in Seq(Slots) /\ Len(elems) \in Nat /\ DOMAIN elems = 1 .. Len(elems) /\ Well(Now) /\ Now.elems = elems
    BY NowIs, LenProperties
  <1>3. \A e \in Range(elems) : \E i \in 1 .. Len(elems) : e = elems[i] BY <1>2 DEF Range
  <1>4. IsFiniteSet(Range(elems))
    <2>1. IsFiniteSet(1 .. Len(elems)) BY <1>2, FS_Interval
    <2>2. elems \in [1 .. Len(elems) -> Range(elems)]
      <3>1. elems = [i \in 1 .. Len(elems) |-> elems[i]] BY <1>2
      <3>2. \A i \in 1 .. Len(elems) : elems[i] \in Range(elems) BY <1>2 DEF Range
      <3> QED BY <3>1, <3>2
    <2>3. \A e \in Range(elems) : \E i \in 1 .. Len(elems) : elems[i] = e BY <1>3
    <2> QED BY <2>1, <2>2, <2>3, RangeFinite
  <1>5. \A i \in 1 .. Len(elems) : elems[i] \in Slots /\ elems[i].h \in RealHandles /\ elems[i].h \in Known
    <2>1. SUFFICES ASSUME NEW i \in 1 .. Len(elems)
                   PROVE  elems[i] \in Slots /\ elems[i].h \in RealHandles /\ elems[i].h \in Known
      OBVIOUS
    <2>2. elems[i] \in Slots BY <1>2, ElementOfSeq
    <2>3. Cached(Now, elems[i].h) BY <1>2, CachedIs
    <2> QED BY <2>2, <2>3, KnownCached DEF Slots
  <1>6. \A e \in Range(elems) : Place("fast", e.h) \in Int
    <2>1. SUFFICES ASSUME NEW e \in Range(elems) PROVE Place("fast", e.h) \in Int OBVIOUS
    <2>2. e.h \in RealHandles BY <1>3, <1>5
    <2>3. e.h[2] \in Nat BY <2>2, HandlesInt
    <2> QED BY <2>3 DEF Place
  <1>7. \A e, d \in Range(elems) : Place("fast", e.h) = Place("fast", d.h) => e = d
    <2>1. SUFFICES ASSUME NEW e \in Range(elems), NEW d \in Range(elems), Place("fast", e.h) = Place("fast", d.h)
                   PROVE  e = d
      OBVIOUS
    <2>2. PICK i \in 1 .. Len(elems) : e = elems[i] BY <1>3
    <2>3. PICK j \in 1 .. Len(elems) : d = elems[j] BY <1>3
    <2>4. e.h[2] = d.h[2] BY <2>1 DEF Place
    <2>5. e.h = d.h BY <1>5, <2>2, <2>3, <2>4 DEF MixerInv, NumbersOnce
    <2>6. i = j BY <1>2, <2>2, <2>3, <2>5, SlotAt
    <2> QED BY <2>2, <2>3, <2>6
  <1>8. /\ new \in Seq(Range(elems)) /\ Range(new) = Range(elems)
        /\ \A i \in 1 .. Len(new) - 1 : Place("fast", new[i].h) < Place("fast", new[i + 1].h)
    BY <1>4, <1>6, <1>7, SortedIs
  <1> HIDE DEF new
  <1>9. elems' \in Seq(Slots) /\ Len(elems') \in Nat /\ DOMAIN elems' = 1 .. Len(elems') /\ Range(elems') = Range(elems)
        /\ \A i \in 1 .. Len(elems') : elems'[i].h \in Known
    <2>1. Len(new) \in Nat /\ DOMAIN new = 1 .. Len(new) /\ \A i \in 1 .. Len(new) : new[i] \in Range(elems)
      BY <1>8, LenProperties, ElementOfSeq
    <2>2. \A i \in 1 .. Len(new) : new[i] \in Slots /\ new[i].h \in Known BY <1>3, <1>5, <2>1
    <2>3. new \in [1 .. Len(new) -> Slots]
      <3>1. new = [i \in 1 .. Len(new) |-> new[i]] BY <1>8, <2>1
      <3> QED BY <2>2, <3>1
    <2> QED BY <1>1, <1>8, <2>1, <2>2, <2>3, FunSeq
  <1>10. \A g : /\ Cached(Now, g)' <=> Cached(Now, g)
                /\ BagOf(Now, g)' = BagOf(Now, g)
    <2>1. (Now.elems)' = elems' BY DEF Now
    <2> QED BY <1>2, <1>9, <2>1 DEF Cached, BagOf
  <1>11. /\ (Now.mixer)' = Now.mixer /\ (Now.told)' = Now.told /\ (Now.torn)' = Now.torn
         /\ \A n : (Exists(Now, n)' <=> Exists(Now, n)) /\ Elem(Now, n)' = Elem(Now, n)
    <2>1. (Now.mixer)' = Now.mixer /\ (Now.told)' = Now.told /\ (Now.torn)' = Now.torn BY <1>1 DEF Now
    <2> QED BY <2>1 DEF Exists, Elem, IndexOf
  <1>12. Well(Now)'
    <2>1. (Now \in Shapes)'
      <3>1. elems' \in Seq(Slots) /\ mixer' = mixer /\ told' = told /\ torn' = torn BY <1>1, <1>9
      <3>2. mixer \in Seq(Melems) /\ told \in [Names -> Views] /\ torn \in SUBSET Names BY NowIs DEF Shapes
      <3> QED BY <3>1, <3>2 DEF Now, Shapes
    <2>2. StrictlySorted(Keys(Now.elems))'
      <3>1. Keys(Now.elems)' = [i \in 1 .. Len(elems') |-> Place("fast", elems'[i].h)]
        BY <1>1, <1>9 DEF Keys, Key, Now
      <3> DEFINE ks == [i \in 1 .. Len(elems') |-> Place("fast", elems'[i].h)]
      <3>2. Len(ks) = Len(elems')
        <4>1. ks \in [1 .. Len(elems') -> {Place("fast", elems'[i].h) : i \in 1 .. Len(elems')}] OBVIOUS
        <4> QED BY <1>9, <4>1, FunSeq
      <3>3. ASSUME NEW i \in 1 .. Len(ks) - 1 PROVE ks[i] < ks[i + 1]
        <4>1. i \in 1 .. Len(elems') /\ i + 1 \in 1 .. Len(elems') /\ i \in 1 .. Len(new) - 1 BY <1>1, <1>9, <3>2
        <4> QED BY <1>1, <1>8, <4>1
      <3>4. \A i \in 1 .. Len(ks) - 1 : ks[i] < ks[i + 1] BY <3>3
      <3> HIDE DEF ks
      <3> QED BY <3>1, <3>4 DEF StrictlySorted, ks
    <2>3. StrictlySorted(MixerNames(Now))'
      <3>1. MixerNames(Now)' = MixerNames(Now) BY <1>11 DEF MixerNames
      <3> QED BY <1>2, <3>1 DEF Well, StrictlySorted
    <2>4. (card \in Cards)'
      <3>1. card' = card BY <1>1 DEF kernel
      <3> QED BY <3>1, NowIs DEF Cards
    <2> QED BY <1>1, <2>1, <2>2, <2>3, <2>4 DEF Well
  <1>13. Linked(Now)'
    <2>1. Linked(Now) BY NowIs
    <2> QED BY <1>10, <1>11, <2>1 DEF Linked
  <1>14. ASSUME NEW n, Exists(Now, n)' PROVE Sound(Now, n)'
    <2>1. Sound(Now, n) BY <1>11, <1>14, NowIs DEF Good
    <2>2. card' = card BY <1>1 DEF kernel
    <2>3. Elem(Now, n)' = Elem(Now, n) BY <1>11
    <2>4. (Elem(Now, n).helems # <<>>)' /\ Fit(Elem(Now, n))' BY <2>1, <2>3 DEF Sound, Fit
    <2>5. Fails(Elem(Now, n), card)' <=> Fails(Elem(Now, n), card) BY <2>2, <2>3 DEF Fails, Errs, Gone
    <2>6. Heard(Now, n)'
      <3>1. Heard(Now, n) BY <2>1 DEF Sound
      <3> QED BY <1>11, <2>3, <2>5, <3>1 DEF Heard, View
    <2> QED BY <2>4, <2>6 DEF Sound
  <1>15. Good(Now)' BY <1>12, <1>13, <1>14 DEF Good
  <1>16. UNCHANGED <<card, fresh, queue, subscribed>> BY <1>1 DEF kernel
  <1>17. KernelOK' BY <1>1, <1>16 DEF MixerInv, KernelOK, Events, Cards
  <1>18. PhaseOK' BY <1>1, <1>16 DEF MixerInv, PhaseOK
  <1>19. NumbersOnce'
    <2>1. \A h : In(queue', h) => h \in Known BY <1>16, KnownCached
    <2>2. hand'.h \in Known \union {NoControl} BY <1>1, KnownCached
    <2>3. queue' \in Seq(Events) BY <1>16, NowIs
    <2>4. \A c \in Controls : card'[c].numid = card[c].numid BY <1>16
    <2> QED BY <1>9, <1>16, <2>1, <2>2, <2>3, <2>4, KnownNext
  <1> QED BY <1>10, <1>15, <1>17, <1>18, <1>19 DEF MixerInv

------------------------------------------------------------------------------
(* The start.                                                              *)
LEMMA InitInv == ASSUME Init PROVE MixerInv
  <1>1. PICK there \in SUBSET Controls :
          card = [c \in Controls |-> [numid |-> IF c \in there THEN Cardinality(Controls) + 1 - c ELSE 0,
                                      value |-> 0]]
    BY DEF Init
  <1>2. /\ fresh = Cardinality(Controls) + 1 /\ queue = <<>> /\ subscribed = FALSE
        /\ elems = <<>> /\ mixer = <<>> /\ compare = "default" /\ registered = FALSE
        /\ phase = "new" /\ hand = NoEvent
        /\ told = [n \in Names |-> Unseen] /\ torn = {} /\ missed = {} /\ unseen = {}
        /\ changes = 0
    BY DEF Init
  <1>3. Cardinality(Controls) \in Nat /\ Controls = 1 .. Cardinality(Controls) /\ MaxChanges \in Nat /\ 0 \in Values
    BY CountNat, ControlAssumption, MixerAssumption
  <1>4. \A c \in Controls : /\ card[c].numid \in Nat /\ card[c].value = 0 /\ card[c].numid < fresh
                            /\ card[c].numid # 0 => card[c].numid = fresh - c
    BY <1>1, <1>2, <1>3
  <1>5. card \in Cards
    <2>1. card = [c \in Controls |-> [numid |-> card[c].numid, value |-> 0]] BY <1>1
    <2> QED BY <1>3, <1>4, <2>1 DEF Cards
  <1>6. queue \in Seq(Events) /\ elems \in Seq(Slots) /\ mixer \in Seq(Melems) BY <1>2, EmptySeq
  <1>7. Unseen \in Views BY <1>3 DEF Unseen, View, NewElem, Views
  <1>8. KernelOK
    <2>1. hand \in [h : Handles, mask : SUBSET REMOVE] BY <1>2 DEF NoEvent, Handles
    <2> QED BY <1>2, <1>3, <1>4, <1>5, <1>6, <2>1 DEF KernelOK, Events
  <1>9. PhaseOK BY <1>2 DEF PhaseOK
  <1>10. NumbersOnce
    <2>1. \A h \in Known : \E c \in Controls : card[c].numid # 0 /\ h = <<c, card[c].numid>>
      <3>1. Range(elems) = {} /\ Range(queue) = {} BY <1>2 DEF Range
      <3>2. hand.h = NoControl BY <1>2 DEF NoEvent
      <3> QED BY <3>1, <3>2 DEF Known, KnownOf
    <2>2. ASSUME NEW h \in Known
          PROVE  h \in RealHandles /\ h[2] < fresh /\ h = <<fresh - h[2], h[2]>>
      <3>1. PICK c \in Controls : card[c].numid # 0 /\ h = <<c, card[c].numid>> BY <2>1
      <3>2. c \in Int /\ card[c].numid \in 1 .. Cardinality(Controls) + MaxChanges /\ fresh \in Nat
        BY <1>2, <1>3, <1>4, <3>1
      <3>3. h[1] = c /\ h[2] = card[c].numid /\ h \in RealHandles BY <3>1, <3>2 DEF RealHandles
      <3>4. fresh - h[2] = c BY <1>4, <3>1, <3>2, <3>3
      <3> QED BY <1>4, <3>1, <3>3, <3>4
    <2> QED BY <2>2 DEF NumbersOnce
  <1>11. Good(Now)
    <2>1. /\ Now.elems = <<>> /\ Now.mixer = <<>> /\ Now \in Shapes
      BY <1>2, <1>6, <1>7 DEF Now, Shapes
    <2>2. Keys(Now.elems) = <<>> /\ MixerNames(Now) = <<>> BY <2>1 DEF Keys, MixerNames
    <2>3. StrictlySorted(<<>>) BY DEF StrictlySorted
    <2>4. Well(Now) BY <1>2, <1>5, <2>1, <2>2, <2>3 DEF Well
    <2>5. (\A n : ~Exists(Now, n)) /\ (\A h : ~Cached(Now, h)) BY <2>1 DEF Exists, Cached, Range
    <2> QED BY <2>4, <2>5 DEF Good, Linked
  <1> QED BY <1>8, <1>9, <1>10, <1>11 DEF MixerInv

(* And no step at all.                                                     *)
LEMMA StutterKeeps == ASSUME MixerInv, UNCHANGED vars PROVE MixerInv'
  <1>1. /\ UNCHANGED <<card, fresh, queue, subscribed, elems, mixer, told, torn, compare, registered, phase, hand>>
        /\ UNCHANGED <<missed, unseen, changes, sets, loads>>
    BY DEF vars, kernel, library
  <1>2. Becomes(Now) BY <1>1, NowIs DEF Becomes
  <1>3. \A g : Cached(Now, g) => g \in Known BY KnownCached
  <1>4. queue' \in Seq(Events) /\ \A h : In(queue', h) => h \in Known BY <1>1, NowIs, KnownCached
  <1>5. hand' \in [h : Handles, mask : SUBSET REMOVE] /\ hand'.h \in Known \union {NoControl}
        /\ (phase' = "popped" => hand'.h # NoControl)
    BY <1>1, KnownCached DEF MixerInv, KernelOK
  <1>6. KernelOK' /\ NumbersOnce' /\ Good(Now)' BY <1>1, <1>2, <1>3, <1>4, <1>5, NowIs, LibraryNext
  <1>7. PhaseOK' BY <1>1 DEF MixerInv, PhaseOK
  <1> QED BY <1>6, <1>7 DEF MixerInv

------------------------------------------------------------------------------
(* Every step keeps the invariant.                                         *)
SetSomething == \E n \in Names : SetAny(n)

(* The steps, one after the other.                                         *)
LEMMA NextIs ==
  ASSUME Next
  PROVE  \/ \E c \in Controls : KRemove(c) \/ KInfo(c) \/ \E v \in Values : KAdd(c, v) \/ KWrite(c, v)
         \/ Register \/ LoadList \/ LoadFill \/ Subscribe \/ Pop \/ HandlePopped
         \/ SetSomething \/ SetCompare \/ Unload \/ Close
  BY DEF Next, SetSomething, SetAny

(* So every step keeps the invariant.                                      *)
LEMMA NextInv == ASSUME MixerInv, [Next]_vars PROVE MixerInv'
  <1>1. ASSUME NEW c \in Controls, KRemove(c) PROVE MixerInv' BY <1>1, KRemoveKeeps
  <1>2. ASSUME NEW c \in Controls, KInfo(c) PROVE MixerInv' BY <1>2, KInfoKeeps
  <1>3. ASSUME NEW c \in Controls, NEW v \in Values, KAdd(c, v) PROVE MixerInv' BY <1>3, KAddKeeps
  <1>4. ASSUME NEW c \in Controls, NEW v \in Values, KWrite(c, v) PROVE MixerInv' BY <1>4, KWriteKeeps
  <1>5. ASSUME SetSomething PROVE MixerInv'
    <2>1. PICK n \in Names : SetAny(n) BY <1>5 DEF SetSomething
    <2>2. Exists(Now, n) /\ \E s \in Selems : \E saw \in Views : SameControls(Elem(Now, n), s) /\ Saw(n, s, saw) /\ Set(n, s, saw)
      BY <2>1, SetAnyIs
    <2>3. PICK s \in Selems, saw \in Views : SameControls(Elem(Now, n), s) /\ Saw(n, s, saw) /\ Set(n, s, saw) BY <2>2
    <2> QED BY <2>2, <2>3, SetKeeps
  <1>6. CASE Register BY <1>6, RegisterKeeps
  <1>7. CASE LoadList BY <1>7, LoadListKeeps
  <1>8. CASE LoadFill BY <1>8, LoadFillKeeps
  <1>9. CASE Subscribe BY <1>9, SubscribeKeeps
  <1>10. CASE Pop BY <1>10, PopKeeps
  <1>11. CASE HandlePopped BY <1>11, HandlePoppedKeeps
  <1>12. CASE SetCompare BY <1>12, SetCompareKeeps
  <1>13. CASE Unload BY <1>13, UnloadKeeps
  <1>14. CASE Close BY <1>14, CloseKeeps
  <1>15. CASE UNCHANGED vars BY <1>15, StutterKeeps
  <1> QED
    BY <1>1, <1>2, <1>3, <1>4, <1>5, <1>6, <1>7, <1>8, <1>9, <1>10, <1>11, <1>12, <1>13, <1>14, <1>15, NextIs

(* The inductive invariant holds: the caches stay typed, sorted and        *)
(* linked both ways, whatever controls come, go and change while the       *)
(* library loads, handles, sets and frees; and an element's values are     *)
(* known to the application, by its own set or an event, but for what a    *)
(* set read back and for an element that cannot be read.                   *)
THEOREM MixerInvariant == Spec => []MixerInv
  <1>1. Init => MixerInv BY InitInv
  <1>2. MixerInv /\ [Next]_vars => MixerInv' BY NextInv
  <1> QED BY <1>1, <1>2, PTL DEF Spec

------------------------------------------------------------------------------
(* What it says of the types.                                              *)
LEMMA InvType == ASSUME MixerInv PROVE TypeOK
  <1>1. \A c \in Controls : card[c].numid \in 0 .. fresh - 1 /\ card[c].value \in Values
    <2>1. \A c \in Controls : card[c].numid \in Nat /\ card[c].value \in Values BY NowIs DEF Cards
    <2> QED BY <2>1 DEF MixerInv, KernelOK
  <1>2. \A i \in DOMAIN queue : queue[i].h \in Handles /\ queue[i].mask \subseteq REMOVE
    <2>1. queue \in Seq(Events) /\ DOMAIN queue = 1 .. Len(queue) BY NowIs, LenProperties
    <2>2. \A i \in DOMAIN queue : queue[i] \in Events BY <2>1, ElementOfSeq
    <2> QED BY <2>2, HandlesAre DEF Events
  <1>3. \A e \in Range(elems) : e.h \in Handles /\ Range(e.bag) \subseteq Names
    <2>1. DOMAIN elems = 1 .. Len(elems) BY NowIs, LenProperties
    <2>2. SUFFICES ASSUME NEW i \in 1 .. Len(elems) PROVE elems[i].h \in Handles /\ Range(elems[i].bag) \subseteq Names
      BY <2>1 DEF Range
    <2>3. elems[i] \in Slots BY NowIs, ElementOfSeq
    <2>4. elems[i].bag \in Seq(Names) /\ elems[i].h \in Handles BY <2>3, HandlesAre DEF Slots
    <2>5. Range(elems[i].bag) \subseteq Names BY <2>4, ElementOfSeq, LenProperties DEF Range
    <2> QED BY <2>4, <2>5
  <1>4. \A m \in Range(mixer) : m.name \in Names /\ m.s.ctls \in [Types -> Handles]
    <2>1. DOMAIN mixer = 1 .. Len(mixer) BY NowIs, LenProperties
    <2>2. SUFFICES ASSUME NEW i \in 1 .. Len(mixer) PROVE mixer[i].name \in Names /\ mixer[i].s.ctls \in [Types -> Handles]
      BY <2>1 DEF Range
    <2>3. mixer[i] \in Melems BY NowIs, ElementOfSeq
    <2> QED BY <2>3 DEF Melems, Selems
  <1>5. told \in [Names -> Views] /\ torn \subseteq Names BY NowIs DEF Shapes
  <1> QED BY <1>1, <1>2, <1>3, <1>4, <1>5 DEF TypeOK, MixerInv, PhaseOK

(* Of the bags.                                                            *)
LEMMA InvBags == ASSUME MixerInv PROVE BagsAgree
  <1>0. /\ DOMAIN mixer = 1 .. Len(mixer) /\ DOMAIN elems = 1 .. Len(elems) /\ Well(Now) /\ Linked(Now) /\ Good(Now)
        /\ Now.elems = elems /\ Now.mixer = mixer
    BY NowIs, LenProperties
  <1>1. ASSUME NEW i \in 1 .. Len(mixer)
        PROVE  LET m == mixer[i]
               IN  /\ m.s.helems # <<>> /\ IsInjective(m.s.helems)
                   /\ {m.s.ctls[t] : t \in Types} \ {NoControl} = Range(m.s.helems)
                   /\ Range(m.s.helems) \subseteq {e.h : e \in Range(elems)}
    <2> DEFINE s == mixer[i].s
               n == mixer[i].name
    <2>1. Exists(Now, n) /\ Elem(Now, n) = s BY <1>0, ElemAt
    <2>2. Sound(Now, n) BY <1>0, <2>1 DEF Good
    <2>3. s \in Selems BY <1>0, <2>1, ElemOf
    <2> HIDE DEF s, n
    <2>4. s.helems # <<>> /\ Fit(s) BY <2>1, <2>2 DEF Sound
    <2>5. IsInjective(s.helems) /\ \A h \in Range(s.helems) : Cached(Now, h) BY <1>0, <2>1 DEF Linked
    <2>6. Range(s.helems) \subseteq {e.h : e \in Range(elems)} BY <1>0, <2>5 DEF Cached
    <2>7. ASSUME NEW h \in Range(s.helems) PROVE h # NoControl /\ \E t \in Types : s.ctls[t] = h
      <3>1. s.helems \in Seq(RealHandles) BY <2>3 DEF Selems
      <3>2. h \in RealHandles BY <2>7, <3>1, ElementOfSeq, LenProperties DEF Range
      <3>3. h[1] \in Controls /\ h # NoControl BY <3>2, HandlesInt
      <3>4. Control[h[1]].type \in Types BY <3>3, ControlAssumption
      <3> QED BY <2>4, <2>7, <3>3, <3>4 DEF Fit
    <2>8. \A t \in Types : s.ctls[t] # NoControl => s.ctls[t] \in Range(s.helems) BY <2>4 DEF Fit
    <2>9. {s.ctls[t] : t \in Types} \ {NoControl} = Range(s.helems) BY <2>7, <2>8
    <2> QED BY <2>4, <2>5, <2>6, <2>9 DEF s
  <1>2. ASSUME NEW i \in 1 .. Len(elems)
        PROVE  LET e == elems[i]
               IN  /\ IsInjective(e.bag)
                   /\ Range(e.bag) = {m.name : m \in {n \in Range(mixer) : e.h \in Range(n.s.helems)}}
    <2> DEFINE h == elems[i].h
               bag == elems[i].bag
    <2>1. Cached(Now, h) /\ BagOf(Now, h) = bag BY <1>0, SlotAt
    <2> HIDE DEF h, bag
    <2>2. IsInjective(bag) BY <1>0, <2>1 DEF Linked
    <2>3. \A n : n \in Range(bag) <=> Exists(Now, n) /\ h \in Range(Elem(Now, n).helems) BY <1>0, <2>1 DEF Linked
    <2>4. ASSUME NEW n
          PROVE  Exists(Now, n) /\ h \in Range(Elem(Now, n).helems)
                   <=> \E m \in Range(mixer) : h \in Range(m.s.helems) /\ n = m.name
      <3>1. ASSUME Exists(Now, n) /\ h \in Range(Elem(Now, n).helems)
            PROVE  \E m \in Range(mixer) : h \in Range(m.s.helems) /\ n = m.name
        <4>1. IndexOf(Now, n) \in 1 .. Len(mixer) /\ mixer[IndexOf(Now, n)].name = n BY <1>0, <3>1, ElemOf
        <4>2. Elem(Now, n) = mixer[IndexOf(Now, n)].s BY <1>0 DEF Elem
        <4> QED BY <1>0, <3>1, <4>1, <4>2 DEF Range
      <3>2. ASSUME NEW m \in Range(mixer), h \in Range(m.s.helems), n = m.name
            PROVE  Exists(Now, n) /\ h \in Range(Elem(Now, n).helems)
        <4>1. PICK j \in 1 .. Len(mixer) : m = mixer[j] BY <1>0 DEF Range
        <4>2. Exists(Now, mixer[j].name) /\ Elem(Now, mixer[j].name) = mixer[j].s BY <1>0, ElemAt
        <4> QED BY <3>2, <4>1, <4>2
      <3> QED BY <3>1, <3>2
    <2>5. Range(bag) = {m.name : m \in {n \in Range(mixer) : h \in Range(n.s.helems)}} BY <2>3, <2>4
    <2> QED BY <2>2, <2>5 DEF h, bag
  <1>3. \A m \in Range(mixer) : \E i \in 1 .. Len(mixer) : m = mixer[i] BY <1>0 DEF Range
  <1>4. \A e \in Range(elems) : \E i \in 1 .. Len(elems) : e = elems[i] BY <1>0 DEF Range
  <1>5. ASSUME NEW m \in Range(mixer)
        PROVE  /\ m.s.helems # <<>> /\ IsInjective(m.s.helems)
               /\ {m.s.ctls[t] : t \in Types} \ {NoControl} = Range(m.s.helems)
               /\ Range(m.s.helems) \subseteq {e.h : e \in Range(elems)}
    <2>1. PICK i \in 1 .. Len(mixer) : m = mixer[i] BY <1>3
    <2>2. /\ mixer[i].s.helems # <<>> /\ IsInjective(mixer[i].s.helems)
          /\ {mixer[i].s.ctls[t] : t \in Types} \ {NoControl} = Range(mixer[i].s.helems)
          /\ Range(mixer[i].s.helems) \subseteq {e.h : e \in Range(elems)}
      BY <1>1
    <2> QED BY <2>1, <2>2, Zenon
  <1>6. ASSUME NEW e \in Range(elems)
        PROVE  /\ IsInjective(e.bag)
               /\ Range(e.bag) = {m.name : m \in {n \in Range(mixer) : e.h \in Range(n.s.helems)}}
    BY <1>2, <1>4
  <1> QED BY <1>5, <1>6 DEF BagsAgree

(* Of what the application has been told.                                  *)
LEMMA InvTold == ASSUME MixerInv PROVE AppTold
  <1>0. DOMAIN mixer = 1 .. Len(mixer) /\ Well(Now) /\ Good(Now) /\ Now.mixer = mixer /\ Now.told = told /\ Now.torn = torn
    BY NowIs, LenProperties
  <1>1. SUFFICES ASSUME NEW i \in 1 .. Len(mixer), mixer[i].name \notin torn
                 PROVE  told[mixer[i].name].unsaid \/ told[mixer[i].name] = View(mixer[i].s)
    BY <1>0 DEF AppTold, Range
  <1>2. Exists(Now, mixer[i].name) /\ Elem(Now, mixer[i].name) = mixer[i].s BY <1>0, ElemAt
  <1>3. Heard(Now, mixer[i].name) BY <1>0, <1>2 DEF Good, Sound
  <1> QED BY <1>0, <1>1, <1>2, <1>3 DEF Heard

(* The state keeps its types.                                              *)
THEOREM TypesHold == Spec => []TypeOK
  <1>1. MixerInv => TypeOK BY InvType
  <1> QED BY <1>1, MixerInvariant, PTL

(* A control's bag and an element's list of controls never come apart      *)
(* (mixer.c:91, 110): neither holds a pointer to what was freed.           *)
THEOREM BagsHold == Spec => []BagsAgree
  <1>1. MixerInv => BagsAgree BY InvBags
  <1> QED BY <1>1, MixerInvariant, PTL

(* No handler reads a value that the application is not told of            *)
(* (simple_none.c:1589, 1694); a set that does is known to (640, 653).     *)
THEOREM ToldHolds == Spec => []AppTold
  <1>1. MixerInv => AppTold BY InvTold
  <1> QED BY <1>1, MixerInvariant, PTL

------------------------------------------------------------------------------
(* The history of a control is in the events that are still to be handled. *)
(* An event that tells of an addition, and one of a removal.               *)
Adds(ev) == ev.mask # REMOVE /\ "ADD" \in ev.mask
Removes(ev) == ev.mask = REMOVE

(* Before the n-th of the events p there is one that adds h, or removes it.*)
Added(p, h, n) == \E j \in 1 .. Len(p) : j < n /\ p[j].h = h /\ Adds(p[j])
Dropped(p, h, n) == \E j \in 1 .. Len(p) : j < n /\ p[j].h = h /\ Removes(p[j])

(* The order of the events p where the card is k: the events of what is    *)
(* gone end with its removal, those of one number begin with its addition, *)
(* and a number of a control gives way to the next by its removal.         *)
OrderedAt(p, k, n) ==
  /\ "REMOVE" \in p[n].mask => Removes(p[n])
  /\ Gone(k, p[n].h) => Dropped(p, p[n].h, Len(p) + 1)
  /\ Removes(p[n]) => Gone(k, p[n].h)
  /\ \A i \in 1 .. n - 1 :
       /\ Removes(p[i]) \/ Adds(p[n]) => p[i].h # p[n].h
       /\ p[i].h[1] = p[n].h[1] /\ p[i].h # p[n].h => Dropped(p, p[i].h, n)

Ordered(p, k) == \A n \in 1 .. Len(p) : OrderedAt(p, k, n)

(* Where the handles hs are cached, they and the events p account for the  *)
(* control c of the card k, but for what came and went unseen (un).        *)
Here(k, c) == <<c, k[c].numid>>

Cares(hs, p, k, c) ==
  /\ \A g \in hs : g[1] = c =>
       /\ Gone(k, g) => Dropped(p, g, Len(p) + 1)
       /\ \A n \in 1 .. Len(p) : p[n].h[1] = c /\ p[n].h # g => Dropped(p, g, n)
  /\ k[c].numid # 0 => Here(k, c) \in hs \/ Added(p, Here(k, c), Len(p) + 1)

Reaches(hs, p, un, c) ==
  \A n \in 1 .. Len(p) : p[n].h[1] = c =>
    /\ Adds(p[n]) => p[n].h \notin hs
    /\ Removes(p[n]) /\ p[n].h \notin un => p[n].h \in hs \/ Added(p, p[n].h, n)

Follows(hs, p, k, un, c) == Cares(hs, p, k, c) /\ Reaches(hs, p, un, c)

(* A control is gone when the card has another number in its place.        *)
LEMMA GoneIs ==
  ASSUME NEW k, NEW h \in RealHandles
  PROVE  Gone(k, h) <=> h # Here(k, h[1])
  <1>1. h = <<h[1], h[2]>> /\ h # NoControl BY HandlesInt
  <1> QED BY <1>1 DEF Gone, Here

(* Where r is the events p, and new ones of controls that are there, that  *)
(* neither add nor remove.                                                 *)
Grew(p, r, k) ==
  /\ p \in Seq(Events) /\ r \in Seq(Events) /\ Len(p) <= Len(r)
  /\ \A i \in 1 .. Len(p) : /\ r[i].h = p[i].h /\ (Adds(r[i]) <=> Adds(p[i])) /\ (Removes(r[i]) <=> Removes(p[i]))
                            /\ "REMOVE" \in r[i].mask => Removes(r[i])
  /\ \A i \in 1 .. Len(r) : i > Len(p) =>
       /\ ~Adds(r[i]) /\ "REMOVE" \notin r[i].mask /\ ~Removes(r[i])
       /\ \E c \in Controls : k[c].numid # 0 /\ r[i].h = Here(k, c)

(* An event pending is of a real control.                                  *)
LEMMA EventIs ==
  ASSUME NEW p \in Seq(Events), NEW i \in 1 .. Len(p)
  PROVE  p[i] \in Events /\ p[i].h \in RealHandles /\ p[i].h[1] \in Controls /\ p[i].mask \in SUBSET REMOVE
  <1>1. p[i] \in Events BY ElementOfSeq
  <1> QED BY <1>1, HandlesInt DEF Events

(* A queue that only grew has the removals it had.                         *)
LEMMA GrewDropped ==
  ASSUME NEW p, NEW r, NEW k, Grew(p, r, k), NEW h, NEW n \in Int, NEW m \in Int, n <= m, Dropped(p, h, n)
  PROVE  Dropped(r, h, m)
  <1>1. Len(p) \in Nat /\ Len(r) \in Nat BY LenProperties DEF Grew
  <1> QED BY <1>1 DEF Grew, Dropped

(* And the additions.                                                      *)
LEMMA GrewAdded ==
  ASSUME NEW p, NEW r, NEW k, Grew(p, r, k), NEW h, NEW n \in Int, NEW m \in Int, n <= m, Added(p, h, n)
  PROVE  Added(r, h, m)
  <1>1. Len(p) \in Nat /\ Len(r) \in Nat BY LenProperties DEF Grew
  <1> QED BY <1>1 DEF Grew, Added

(* And its order.                                                          *)
LEMMA GrewOrdered ==
  ASSUME NEW p, NEW r, NEW k, Grew(p, r, k), Ordered(p, k)
  PROVE  Ordered(r, k)
  <1>1. /\ Len(p) \in Nat /\ Len(r) \in Nat /\ Len(p) <= Len(r) /\ p \in Seq(Events) /\ r \in Seq(Events)
    BY LenProperties DEF Grew
  <1>2. SUFFICES ASSUME NEW n \in 1 .. Len(r) PROVE OrderedAt(r, k, n) BY DEF Ordered
  <1>3. ASSUME NEW i \in 1 .. Len(p) PROVE OrderedAt(p, k, i) BY <1>3 DEF Ordered
  <1>4. CASE n \in 1 .. Len(p)
    <2>1. OrderedAt(p, k, n) BY <1>3, <1>4
    <2>2. /\ r[n].h = p[n].h /\ (Adds(r[n]) <=> Adds(p[n])) /\ (Removes(r[n]) <=> Removes(p[n]))
          /\ "REMOVE" \in r[n].mask => Removes(r[n])
      BY <1>4 DEF Grew
    <2>3. Gone(k, r[n].h) => Dropped(r, r[n].h, Len(r) + 1)
      <3>0. Len(p) + 1 \in Int /\ Len(r) + 1 \in Int /\ Len(p) + 1 <= Len(r) + 1 BY <1>1
      <3>1. Dropped(p, p[n].h, Len(p) + 1) => Dropped(r, p[n].h, Len(r) + 1) BY <3>0, GrewDropped
      <3> QED BY <2>1, <2>2, <3>1 DEF OrderedAt
    <2>4. ASSUME NEW i \in 1 .. n - 1
          PROVE  /\ Removes(r[i]) \/ Adds(r[n]) => r[i].h # r[n].h
                 /\ r[i].h[1] = r[n].h[1] /\ r[i].h # r[n].h => Dropped(r, r[i].h, n)
      <3>1. i \in 1 .. Len(p) /\ n \in Int BY <1>1, <1>4
      <3>2. r[i].h = p[i].h /\ (Removes(r[i]) <=> Removes(p[i])) BY <3>1 DEF Grew
      <3>3. Dropped(p, p[i].h, n) => Dropped(r, p[i].h, n)
        <4>1. n <= n BY <3>1
        <4> QED BY <3>1, <4>1, GrewDropped
      <3> QED BY <2>1, <2>2, <3>2, <3>3 DEF OrderedAt
    <2> QED BY <2>1, <2>2, <2>3, <2>4 DEF OrderedAt
  <1>5. CASE n > Len(p)
    <2>1. ~Adds(r[n]) /\ "REMOVE" \notin r[n].mask /\ ~Removes(r[n]) BY <1>5 DEF Grew
    <2>2. PICK c \in Controls : k[c].numid # 0 /\ r[n].h = Here(k, c) BY <1>5 DEF Grew
    <2>3. r[n].h \in RealHandles /\ r[n].h[1] = c 
      <3>1. r[n].h \in RealHandles BY <1>1, EventIs
      <3>2. Here(k, c)[1] = c BY DEF Here
      <3> QED BY <2>2, <3>1, <3>2
    <2>4. ~Gone(k, r[n].h) BY <2>2, <2>3, GoneIs
    <2>5. ASSUME NEW i \in 1 .. n - 1
          PROVE  /\ Removes(r[i]) \/ Adds(r[n]) => r[i].h # r[n].h
                 /\ r[i].h[1] = r[n].h[1] /\ r[i].h # r[n].h => Dropped(r, r[i].h, n)
      <3>0. i \in 1 .. Len(r) /\ r[i].h \in RealHandles
        <4>1. i \in 1 .. Len(r) BY <1>1
        <4> QED BY <1>1, <4>1, EventIs
      <3>1. r[i].h[1] = r[n].h[1] /\ r[i].h # r[n].h => Gone(k, r[i].h) BY <2>2, <2>3, <3>0, GoneIs
      <3>2. CASE i \in 1 .. Len(p)
        <4>1. OrderedAt(p, k, i) BY <1>3, <3>2
        <4>2. r[i].h = p[i].h /\ (Removes(r[i]) <=> Removes(p[i])) BY <3>2 DEF Grew
        <4>3. Dropped(p, p[i].h, Len(p) + 1) => Dropped(r, p[i].h, n)
          <5>1. Len(p) + 1 <= n /\ n \in Int /\ Len(p) + 1 \in Int BY <1>1, <1>5
          <5> QED BY <5>1, GrewDropped
        <4>4. Removes(p[i]) => Gone(k, p[i].h) BY <4>1 DEF OrderedAt
        <4>5. Gone(k, p[i].h) => Dropped(p, p[i].h, Len(p) + 1) BY <4>1 DEF OrderedAt
        <4> QED BY <2>1, <2>4, <3>1, <4>2, <4>3, <4>4, <4>5
      <3>3. CASE i > Len(p)
        <4>1. ~Removes(r[i]) BY <3>0, <3>3 DEF Grew
        <4>2. PICK d \in Controls : k[d].numid # 0 /\ r[i].h = Here(k, d) BY <3>0, <3>3 DEF Grew
        <4>3. ~Gone(k, r[i].h) BY <3>0, <4>2, GoneIs DEF Here
        <4> QED BY <2>1, <3>1, <4>1, <4>3
      <3> QED BY <1>1, <3>0, <3>2, <3>3
    <2> QED BY <2>1, <2>4, <2>5 DEF OrderedAt
  <1> QED BY <1>1, <1>4, <1>5

(* And accounts for each control as before.                                *)
LEMMA GrewFollows ==
  ASSUME NEW p, NEW r, NEW k, Grew(p, r, k), NEW hs, hs \subseteq RealHandles, NEW un, NEW c, Follows(hs, p, k, un, c)
  PROVE  Follows(hs, r, k, un, c)
  <1>1. /\ Len(p) \in Nat /\ Len(r) \in Nat /\ Len(p) <= Len(r) /\ p \in Seq(Events) /\ r \in Seq(Events)
    BY LenProperties DEF Grew
  <1>0. Cares(hs, p, k, c) /\ Reaches(hs, p, un, c) BY DEF Follows
  <1>2. ASSUME NEW g \in hs, g[1] = c
        PROVE  /\ Gone(k, g) => Dropped(r, g, Len(r) + 1)
               /\ \A n \in 1 .. Len(r) : r[n].h[1] = c /\ r[n].h # g => Dropped(r, g, n)
    <2>1. Gone(k, g) => Dropped(p, g, Len(p) + 1) BY <1>0, <1>2 DEF Cares
    <2>0. Len(p) + 1 \in Int /\ Len(r) + 1 \in Int /\ Len(p) + 1 <= Len(r) + 1 BY <1>1
    <2>2. Dropped(p, g, Len(p) + 1) => Dropped(r, g, Len(r) + 1) BY <2>0, GrewDropped
    <2>3. ASSUME NEW n \in 1 .. Len(r), r[n].h[1] = c, r[n].h # g PROVE Dropped(r, g, n)
      <3>1. CASE n \in 1 .. Len(p)
        <4>1. r[n].h = p[n].h BY <3>1 DEF Grew
        <4>2. Dropped(p, g, n) BY <1>0, <1>2, <2>3, <3>1, <4>1 DEF Cares
        <4>3. n \in Int /\ n <= n BY <1>1
        <4> QED BY <4>2, <4>3, GrewDropped
      <3>2. CASE n > Len(p)
        <4>1. PICK d \in Controls : k[d].numid # 0 /\ r[n].h = Here(k, d) BY <3>2 DEF Grew
        <4>2. d = c BY <2>3, <4>1 DEF Here
        <4>3. Gone(k, g) BY <1>2, <2>3, <4>1, <4>2, GoneIs
        <4>4. Len(p) + 1 <= n /\ n \in Int /\ Len(p) + 1 \in Int BY <1>1, <3>2
        <4> QED BY <2>1, <4>3, <4>4, GrewDropped
      <3> QED BY <1>1, <3>1, <3>2
    <2> QED BY <2>1, <2>2, <2>3
  <1>3. k[c].numid # 0 => Here(k, c) \in hs \/ Added(r, Here(k, c), Len(r) + 1)
    <2>0. Len(p) + 1 \in Int /\ Len(r) + 1 \in Int /\ Len(p) + 1 <= Len(r) + 1 BY <1>1
    <2>1. Added(p, Here(k, c), Len(p) + 1) => Added(r, Here(k, c), Len(r) + 1) BY <2>0, GrewAdded
    <2> QED BY <1>0, <2>1 DEF Cares
  <1>4. Cares(hs, r, k, c) BY <1>2, <1>3 DEF Cares
  <1>5. ASSUME NEW n \in 1 .. Len(r), r[n].h[1] = c
        PROVE  /\ Adds(r[n]) => r[n].h \notin hs
               /\ Removes(r[n]) /\ r[n].h \notin un => r[n].h \in hs \/ Added(r, r[n].h, n)
    <2>1. CASE n \in 1 .. Len(p)
      <3>1. r[n].h = p[n].h /\ (Adds(r[n]) <=> Adds(p[n])) /\ (Removes(r[n]) <=> Removes(p[n])) BY <2>1 DEF Grew
      <3>0. n \in Int /\ n <= n BY <1>1
      <3>2. Added(p, p[n].h, n) => Added(r, p[n].h, n) BY <3>0, GrewAdded
      <3> QED BY <1>0, <1>5, <2>1, <3>1, <3>2 DEF Reaches
    <2>2. CASE n > Len(p)
      <3>1. ~Adds(r[n]) /\ ~Removes(r[n]) BY <2>2 DEF Grew
      <3> QED BY <3>1
    <2> QED BY <1>1, <2>1, <2>2
  <1>6. Reaches(hs, r, un, c) BY <1>5 DEF Reaches
  <1> QED BY <1>4, <1>6 DEF Follows

(* Where r is the events p and one more that adds a control.               *)
Joins(p, r, h) ==
  /\ p \in Seq(Events) /\ r \in Seq(Events) /\ Len(r) = Len(p) + 1
  /\ \A i \in 1 .. Len(p) : r[i] = p[i] /\ p[i].h # h
  /\ r[Len(p) + 1].h = h /\ Adds(r[Len(p) + 1]) /\ "REMOVE" \notin r[Len(p) + 1].mask

(* The card gains a control, or loses it.                                  *)
Gains(k, m, c) ==
  c \in Controls /\ k[c].numid = 0 /\ m[c].numid # 0 /\ \A d \in Controls : d # c => m[d].numid = k[d].numid

(* A control that comes brings no other back.                              *)
LEMMA GainsGone ==
  ASSUME NEW k, NEW m, NEW c, Gains(k, m, c), NEW g \in RealHandles, g # Here(m, c)
  PROVE  Gone(m, g) <=> Gone(k, g)
  <1>1. g[1] \in Controls /\ g[2] \in Nat \ {0} /\ g = <<g[1], g[2]>> BY HandlesInt
  <1>2. Gone(m, g) <=> g # Here(m, g[1]) BY GoneIs
  <1>3. Gone(k, g) <=> g # Here(k, g[1]) BY GoneIs
  <1>4. CASE g[1] = c
    <2>1. g # Here(k, c) BY <1>1 DEF Gains, Here
    <2> QED BY <1>2, <1>3, <1>4, <2>1
  <1>5. CASE g[1] # c
    <2>1. Here(m, g[1]) = Here(k, g[1]) BY <1>1, <1>5 DEF Gains, Here
    <2> QED BY <1>2, <1>3, <2>1
  <1> QED BY <1>4, <1>5

(* A control that comes takes no removal from the queue.                   *)
LEMMA JoinsDropped ==
  ASSUME NEW p, NEW r, NEW h, Joins(p, r, h), NEW g, NEW n \in Int, NEW m \in Int, n <= m, Dropped(p, g, n)
  PROVE  Dropped(r, g, m)
  <1>1. Len(p) \in Nat BY LenProperties DEF Joins
  <1> QED BY <1>1 DEF Joins, Dropped

(* Nor an addition.                                                        *)
LEMMA JoinsAdded ==
  ASSUME NEW p, NEW r, NEW h, Joins(p, r, h), NEW g, NEW n \in Int, NEW m \in Int, n <= m, Added(p, g, n)
  PROVE  Added(r, g, m)
  <1>1. Len(p) \in Nat BY LenProperties DEF Joins
  <1> QED BY <1>1 DEF Joins, Added

(* Its addition is in order.                                               *)
LEMMA JoinsOrdered ==
  ASSUME NEW k, NEW m, NEW c, Gains(k, m, c), NEW p, NEW r, Joins(p, r, Here(m, c)), Ordered(p, k)
  PROVE  Ordered(r, m)
  <1>1. Len(p) \in Nat /\ Len(r) = Len(p) + 1 /\ p \in Seq(Events) /\ r \in Seq(Events) BY LenProperties DEF Joins
  <1>2. SUFFICES ASSUME NEW n \in 1 .. Len(r) PROVE OrderedAt(r, m, n) BY DEF Ordered
  <1>3. ASSUME NEW i \in 1 .. Len(p)
        PROVE  /\ OrderedAt(p, k, i) /\ r[i] = p[i] /\ p[i].h \in RealHandles /\ p[i].h # Here(m, c)
               /\ (Gone(m, p[i].h) <=> Gone(k, p[i].h))
    <2>1. r[i] = p[i] /\ p[i].h # Here(m, c) BY <1>3 DEF Joins
    <2>2. p[i].h \in RealHandles BY <1>1, <1>3, EventIs
    <2> QED BY <1>3, <2>1, <2>2, GainsGone DEF Ordered
  <1>4. ASSUME NEW g, NEW j \in Int, j <= Len(r), Dropped(p, g, j) PROVE Dropped(r, g, j)
    <2>1. j <= j BY <1>4
    <2> QED BY <1>4, <2>1, JoinsDropped
  <1>5. ASSUME NEW g, NEW j \in Int, Len(p) + 1 <= j, Dropped(p, g, Len(p) + 1) PROVE Dropped(r, g, j)
    <2>1. Len(p) + 1 \in Int BY <1>1
    <2> QED BY <1>5, <2>1, JoinsDropped
  <1>6. CASE n \in 1 .. Len(p)
    <2>1. OrderedAt(p, k, n) /\ r[n] = p[n] /\ (Gone(m, p[n].h) <=> Gone(k, p[n].h)) BY <1>3, <1>6
    <2>2. Gone(m, r[n].h) => Dropped(r, r[n].h, Len(r) + 1)
      <3>1. Len(r) + 1 \in Int /\ Len(p) + 1 <= Len(r) + 1 BY <1>1
      <3>2. Dropped(p, p[n].h, Len(p) + 1) => Dropped(r, p[n].h, Len(r) + 1) BY <1>5, <3>1
      <3> QED BY <2>1, <3>2 DEF OrderedAt
    <2>3. ASSUME NEW i \in 1 .. n - 1
          PROVE  /\ Removes(r[i]) \/ Adds(r[n]) => r[i].h # r[n].h
                 /\ r[i].h[1] = r[n].h[1] /\ r[i].h # r[n].h => Dropped(r, r[i].h, n)
      <3>1. i \in 1 .. Len(p) /\ n \in Int /\ n <= Len(r) BY <1>1, <1>6
      <3>2. r[i] = p[i] BY <1>3, <3>1
      <3>3. Dropped(p, p[i].h, n) => Dropped(r, p[i].h, n) BY <1>4, <3>1
      <3> QED BY <2>1, <3>2, <3>3 DEF OrderedAt
    <2> QED BY <2>1, <2>2, <2>3 DEF OrderedAt
  <1>7. CASE n = Len(p) + 1
    <2>1. r[n].h = Here(m, c) /\ Adds(r[n]) /\ "REMOVE" \notin r[n].mask BY <1>7 DEF Joins
    <2>2. ~Removes(r[n]) BY <2>1 DEF Removes, REMOVE
    <2>3. r[n].h \in RealHandles /\ r[n].h[1] = c
      <3>1. r[n].h \in RealHandles BY <1>1, EventIs
      <3>2. Here(m, c)[1] = c BY DEF Here
      <3> QED BY <2>1, <3>1, <3>2
    <2>4. ~Gone(m, r[n].h) BY <2>1, <2>3, GoneIs
    <2>5. ASSUME NEW i \in 1 .. n - 1
          PROVE  /\ Removes(r[i]) \/ Adds(r[n]) => r[i].h # r[n].h
                 /\ r[i].h[1] = r[n].h[1] /\ r[i].h # r[n].h => Dropped(r, r[i].h, n)
      <3>1. i \in 1 .. Len(p) BY <1>1, <1>7
      <3>2. /\ OrderedAt(p, k, i) /\ r[i] = p[i] /\ p[i].h \in RealHandles /\ p[i].h # Here(m, c)
            /\ (Gone(m, p[i].h) <=> Gone(k, p[i].h))
        BY <1>3, <3>1
      <3>3. r[i].h[1] = c => Gone(k, p[i].h)
        <4>1. Gone(m, p[i].h) <=> p[i].h # Here(m, p[i].h[1]) BY <3>2, GoneIs
        <4> QED BY <3>2, <4>1
      <3>4. Dropped(p, p[i].h, Len(p) + 1) => Dropped(r, p[i].h, n)
        <4>1. Len(p) + 1 <= n /\ n \in Int BY <1>1, <1>7
        <4> QED BY <1>5, <4>1
      <3> QED BY <2>1, <2>3, <3>2, <3>3, <3>4 DEF OrderedAt
    <2> QED BY <2>1, <2>2, <2>4, <2>5 DEF OrderedAt
  <1> QED BY <1>1, <1>6, <1>7

(* And accounts for it.                                                    *)
LEMMA JoinsFollows ==
  ASSUME NEW k, NEW m, NEW c, Gains(k, m, c), NEW p, NEW r, Joins(p, r, Here(m, c)), NEW hs, hs \subseteq RealHandles,
         Here(m, c) \notin hs, NEW un, NEW d \in Controls, Follows(hs, p, k, un, d)
  PROVE  Follows(hs, r, m, un, d)
  <1>0. Cares(hs, p, k, d) /\ Reaches(hs, p, un, d) BY DEF Follows
  <1>1. Len(p) \in Nat /\ Len(r) = Len(p) + 1 /\ p \in Seq(Events) /\ r \in Seq(Events) BY LenProperties DEF Joins
  <1>2. \A i \in 1 .. Len(p) : r[i] = p[i] BY DEF Joins
  <1>3. LET n == Len(p) + 1 IN r[n].h = Here(m, c) /\ Adds(r[n]) /\ ~Removes(r[n]) /\ r[n].h[1] = c
    <2>1. Here(m, c)[1] = c BY DEF Here
    <2> QED BY <2>1 DEF Joins, Adds, Removes
  <1>4. Len(p) + 1 \in Int /\ Len(r) + 1 \in Int /\ Len(p) + 1 <= Len(r) + 1 BY <1>1
  <1>5. ASSUME NEW g \in hs, g[1] = d
        PROVE  /\ Gone(m, g) => Dropped(r, g, Len(r) + 1)
               /\ \A n \in 1 .. Len(r) : r[n].h[1] = d /\ r[n].h # g => Dropped(r, g, n)
    <2>1. Gone(k, g) => Dropped(p, g, Len(p) + 1) BY <1>0, <1>5 DEF Cares
    <2>2. g \in RealHandles /\ g # Here(m, c) /\ (Gone(m, g) <=> Gone(k, g)) BY <1>5, GainsGone
    <2>3. Dropped(p, g, Len(p) + 1) => Dropped(r, g, Len(r) + 1) BY <1>4, JoinsDropped
    <2>4. ASSUME NEW n \in 1 .. Len(r), r[n].h[1] = d, r[n].h # g PROVE Dropped(r, g, n)
      <3>1. CASE n \in 1 .. Len(p)
        <4>1. Dropped(p, g, n) BY <1>0, <1>2, <1>5, <2>4, <3>1 DEF Cares
        <4>2. n \in Int /\ n <= n BY <3>1
        <4> QED BY <4>1, <4>2, JoinsDropped
      <3>2. CASE n = Len(p) + 1
        <4>1. d = c BY <1>3, <2>4, <3>2
        <4>2. Gone(m, g) BY <1>5, <2>2, <4>1, GoneIs
        <4>3. Len(p) + 1 <= n /\ n \in Int BY <1>1, <3>2
        <4> QED BY <1>4, <2>1, <2>2, <4>2, <4>3, JoinsDropped
      <3> QED BY <1>1, <3>1, <3>2
    <2> QED BY <2>1, <2>2, <2>3, <2>4
  <1>6. m[d].numid # 0 => Here(m, d) \in hs \/ Added(r, Here(m, d), Len(r) + 1)
    <2>1. CASE d = c
      <3>1. Len(p) + 1 \in 1 .. Len(r) /\ Len(p) + 1 < Len(r) + 1 BY <1>1
      <3> QED BY <1>3, <2>1, <3>1 DEF Added
    <2>2. CASE d # c
      <3>1. m[d].numid = k[d].numid BY <2>2 DEF Gains
      <3>2. Here(m, d) = Here(k, d) BY <3>1 DEF Here
      <3>3. Added(p, Here(k, d), Len(p) + 1) => Added(r, Here(k, d), Len(r) + 1) BY <1>4, JoinsAdded
      <3> QED BY <1>0, <3>1, <3>2, <3>3 DEF Cares
    <2> QED BY <2>1, <2>2
  <1>7. Cares(hs, r, m, d) BY <1>5, <1>6 DEF Cares
  <1>8. ASSUME NEW n \in 1 .. Len(r), r[n].h[1] = d
        PROVE  /\ Adds(r[n]) => r[n].h \notin hs
               /\ Removes(r[n]) /\ r[n].h \notin un => r[n].h \in hs \/ Added(r, r[n].h, n)
    <2>1. CASE n \in 1 .. Len(p)
      <3>1. n \in Int /\ n <= n BY <2>1
      <3>2. Added(p, p[n].h, n) => Added(r, p[n].h, n) BY <3>1, JoinsAdded
      <3> QED BY <1>0, <1>2, <1>8, <2>1, <3>2 DEF Reaches
    <2>2. CASE n = Len(p) + 1 BY <1>3, <2>2
    <2> QED BY <1>1, <2>1, <2>2
  <1>9. Reaches(hs, r, un, d) BY <1>8 DEF Reaches
  <1> QED BY <1>7, <1>9 DEF Follows

------------------------------------------------------------------------------
(* Where r is the events p, with the removal of h at m.                    *)
Leaves(p, r, h, m) ==
  /\ p \in Seq(Events) /\ r \in Seq(Events) /\ Len(p) <= Len(r) /\ m \in 1 .. Len(r)
  /\ \A i \in 1 .. Len(p) : r[i].h = p[i].h /\ (i # m => r[i] = p[i])
  /\ \A i \in 1 .. Len(r) : i > Len(p) => i = m
  /\ r[m].h = h /\ Removes(r[m]) /\ \A i \in 1 .. Len(r) : i > m => r[i].h # h

Loses(k, m, c) ==
  c \in Controls /\ k[c].numid # 0 /\ m[c].numid = 0 /\ \A d \in Controls : d # c => m[d].numid = k[d].numid

(* A control that goes takes no other with it.                             *)
LEMMA LosesGone ==
  ASSUME NEW k, NEW m, NEW c, Loses(k, m, c), NEW g \in RealHandles
  PROVE  Gone(m, g) <=> Gone(k, g) \/ g = Here(k, c)
  <1>1. g[1] \in Controls /\ g[2] \in Nat \ {0} /\ g = <<g[1], g[2]>> BY HandlesInt
  <1>2. Gone(m, g) <=> g # Here(m, g[1]) BY GoneIs
  <1>3. Gone(k, g) <=> g # Here(k, g[1]) BY GoneIs
  <1>4. CASE g[1] = c
    <2>1. g # Here(m, c) BY <1>1 DEF Loses, Here
    <2> QED BY <1>2, <1>3, <1>4, <2>1
  <1>5. CASE g[1] # c
    <2>1. Here(m, g[1]) = Here(k, g[1]) /\ g # Here(k, c) BY <1>1, <1>5 DEF Loses, Here
    <2> QED BY <1>2, <1>3, <2>1
  <1> QED BY <1>4, <1>5

(* A control that goes takes no removal from the queue, though its own     *)
(* events become one.                                                      *)
LEMMA LeavesDropped ==
  ASSUME NEW k, NEW c, NEW p, NEW r, NEW m, Leaves(p, r, Here(k, c), m), Ordered(p, k),
         NEW g, NEW n \in Int, NEW l \in Int, n <= l, Dropped(p, g, n)
  PROVE  Dropped(r, g, l)
  <1>1. Len(p) \in Nat /\ Len(r) \in Nat /\ Len(p) <= Len(r) /\ p \in Seq(Events) BY LenProperties DEF Leaves
  <1>2. PICK j \in 1 .. Len(p) : j < n /\ p[j].h = g /\ Removes(p[j]) BY DEF Dropped
  <1>3. OrderedAt(p, k, j) BY DEF Ordered
  <1>4. Gone(k, p[j].h) BY <1>2, <1>3 DEF OrderedAt
  <1>5. p[j].h \in RealHandles BY <1>1, EventIs
  <1>6. p[j].h # Here(k, c)
    <2>1. Here(k, c)[1] = c BY DEF Here
    <2> QED BY <1>4, <1>5, <2>1, GoneIs
  <1>7. r[j] = p[j] BY <1>6 DEF Leaves
  <1>8. j \in 1 .. Len(r) /\ j < l BY <1>1, <1>2
  <1> QED BY <1>2, <1>7, <1>8 DEF Dropped

(* It takes no addition but its own.                                       *)
LEMMA LeavesAdded ==
  ASSUME NEW p, NEW r, NEW h, NEW m, Leaves(p, r, h, m), NEW g, g # h, NEW n \in Int, NEW l \in Int, n <= l, Added(p, g, n)
  PROVE  Added(r, g, l)
  <1>1. Len(p) \in Nat /\ Len(r) \in Nat /\ Len(p) <= Len(r) BY LenProperties DEF Leaves
  <1>2. PICK j \in 1 .. Len(p) : j < n /\ p[j].h = g /\ Adds(p[j]) BY DEF Added
  <1>3. r[j] = p[j] BY <1>2 DEF Leaves
  <1>4. j \in 1 .. Len(r) /\ j < l BY <1>1, <1>2
  <1> QED BY <1>2, <1>3, <1>4 DEF Added

(* Its removal is in order.                                                *)
LEMMA LeavesOrdered ==
  ASSUME NEW k, NEW kk, NEW c, Loses(k, kk, c), NEW p, NEW r, NEW m, Leaves(p, r, Here(k, c), m), Ordered(p, k)
  PROVE  Ordered(r, kk)
  <1>1. Len(p) \in Nat /\ Len(r) \in Nat /\ Len(p) <= Len(r) /\ p \in Seq(Events) /\ r \in Seq(Events) /\ m \in 1 .. Len(r)
    BY LenProperties DEF Leaves
  <1>2. SUFFICES ASSUME NEW n \in 1 .. Len(r) PROVE OrderedAt(r, kk, n) BY DEF Ordered
  <1>3. r[m].h = Here(k, c) /\ Removes(r[m]) /\ \A i \in 1 .. Len(r) : i > m => r[i].h # Here(k, c) BY DEF Leaves
  <1>4. ASSUME NEW i \in 1 .. Len(r) PROVE r[i].h \in RealHandles /\ (Gone(kk, r[i].h) <=> Gone(k, r[i].h) \/ r[i].h = Here(k, c))
    <2>1. r[i].h \in RealHandles BY <1>1, <1>4, EventIs
    <2> QED BY <2>1, LosesGone
  <1>5. ASSUME NEW i \in 1 .. Len(r), i # m
        PROVE  i \in 1 .. Len(p) /\ r[i] = p[i] /\ OrderedAt(p, k, i)
    <2>1. i \in 1 .. Len(p) BY <1>1, <1>5 DEF Leaves
    <2> QED BY <1>5, <2>1 DEF Leaves, Ordered
  <1>6. ASSUME NEW i \in 1 .. Len(r), Gone(k, r[i].h)
        PROVE  \A l \in Int : Len(p) + 1 <= l => Dropped(r, r[i].h, l)
    <2>1. i # m
      <3>1. Here(k, c)[1] = c BY DEF Here
      <3>2. Gone(k, r[i].h) <=> r[i].h # Here(k, r[i].h[1]) BY <1>4, GoneIs
      <3> QED BY <1>3, <1>6, <3>1, <3>2
    <2>2. Dropped(p, r[i].h, Len(p) + 1) BY <1>5, <1>6, <2>1 DEF OrderedAt
    <2>3. Len(p) + 1 \in Int BY <1>1
    <2> QED BY <2>2, <2>3, LeavesDropped
  <1>7. "REMOVE" \in r[n].mask => Removes(r[n]) BY <1>3, <1>5 DEF OrderedAt
  <1>8. Gone(kk, r[n].h) => Dropped(r, r[n].h, Len(r) + 1)
    <2>1. m < Len(r) + 1 /\ Len(r) + 1 \in Int /\ Len(p) + 1 <= Len(r) + 1 BY <1>1
    <2>2. CASE r[n].h = Here(k, c) BY <1>1, <1>3, <2>1, <2>2 DEF Dropped
    <2>3. CASE Gone(k, r[n].h) BY <1>6, <2>1, <2>3
    <2> QED BY <1>4, <2>2, <2>3
  <1>9. Removes(r[n]) => Gone(kk, r[n].h)
    <2>1. CASE n = m BY <1>3, <1>4, <2>1
    <2>2. CASE n # m BY <1>4, <1>5, <2>2 DEF OrderedAt
    <2> QED BY <2>1, <2>2
  <1>10. ASSUME NEW i \in 1 .. n - 1
         PROVE  /\ Removes(r[i]) \/ Adds(r[n]) => r[i].h # r[n].h
                /\ r[i].h[1] = r[n].h[1] /\ r[i].h # r[n].h => Dropped(r, r[i].h, n)
    <2>0. i \in 1 .. Len(r) /\ i < n BY <1>1
    <2>1. CASE n \in 1 .. Len(p)
      <3>0. i \in 1 .. Len(p) /\ n \in Int /\ n <= n BY <2>1
      <3>1. OrderedAt(p, k, n) BY <2>1 DEF Ordered
      <3>2. r[i].h = p[i].h /\ r[n].h = p[n].h /\ (i # m => r[i] = p[i]) /\ (n # m => r[n] = p[n])
        BY <2>1, <3>0 DEF Leaves
      <3>3. Dropped(p, p[i].h, n) => Dropped(r, p[i].h, n) BY <3>0, LeavesDropped
      <3>4. r[i].h[1] = r[n].h[1] /\ r[i].h # r[n].h => Dropped(r, r[i].h, n) BY <3>1, <3>2, <3>3 DEF OrderedAt
      <3>5. Removes(r[i]) => r[i].h # r[n].h
        <4>1. CASE i = m BY <1>3, <2>0, <4>1
        <4>2. CASE i # m BY <3>1, <3>2, <4>2 DEF OrderedAt
        <4> QED BY <4>1, <4>2
      <3>6. Adds(r[n]) => r[i].h # r[n].h
        <4>1. CASE n = m BY <1>3, <4>1 DEF Adds, Removes
        <4>2. CASE n # m BY <3>1, <3>2, <4>2 DEF OrderedAt
        <4> QED BY <4>1, <4>2
      <3> QED BY <3>4, <3>5, <3>6
    <2>2. CASE n > Len(p)
      <3>1. n = m BY <2>2 DEF Leaves
      <3>2. i # m /\ ~Adds(r[n]) BY <1>3, <2>0, <3>1 DEF Adds, Removes
      <3>3. OrderedAt(p, k, i) /\ r[i] = p[i] BY <1>5, <2>0, <3>2
      <3>4. Removes(r[i]) => Gone(k, r[i].h) BY <3>3 DEF OrderedAt
      <3>5. ~Gone(k, Here(k, c))
        <4>1. Here(k, c) \in RealHandles BY <1>1, <1>3, <1>4
        <4>2. Here(k, c)[1] = c BY DEF Here
        <4> QED BY <4>1, <4>2, GoneIs
      <3>6. Removes(r[i]) => r[i].h # r[n].h BY <1>3, <3>1, <3>4, <3>5
      <3>7. r[i].h[1] = r[n].h[1] /\ r[i].h # r[n].h => Gone(k, r[i].h)
        <4>1. Here(k, c)[1] = c BY DEF Here
        <4>2. Gone(k, r[i].h) <=> r[i].h # Here(k, r[i].h[1]) BY <1>4, <2>0, GoneIs
        <4> QED BY <1>3, <3>1, <4>1, <4>2
      <3>8. n \in Int /\ Len(p) + 1 <= n BY <1>1, <2>2
      <3> QED BY <1>6, <2>0, <3>2, <3>6, <3>7, <3>8
    <2> QED BY <1>1, <2>1, <2>2
  <1> QED BY <1>7, <1>8, <1>9, <1>10 DEF OrderedAt

(* And accounts for it: its addition is before it, or it was never seen.   *)
LEMMA LeavesFollows ==
  ASSUME NEW k, NEW kk, NEW c, Loses(k, kk, c), NEW p, NEW r, NEW m, Leaves(p, r, Here(k, c), m), Ordered(p, k),
         NEW hs, hs \subseteq RealHandles, NEW un, NEW uu, un \subseteq uu,
         Added(p, Here(k, c), Len(p) + 1) /\ Here(k, c) \notin uu => Added(r, Here(k, c), m),
         NEW d \in Controls, Follows(hs, p, k, un, d)
  PROVE  Follows(hs, r, kk, uu, d)
  <1>0. Cares(hs, p, k, d) /\ Reaches(hs, p, un, d) BY DEF Follows
  <1>1. Len(p) \in Nat /\ Len(r) \in Nat /\ Len(p) <= Len(r) /\ p \in Seq(Events) /\ r \in Seq(Events) /\ m \in 1 .. Len(r)
    BY LenProperties DEF Leaves
  <1>2. Len(p) + 1 \in Int /\ Len(r) + 1 \in Int /\ Len(p) + 1 <= Len(r) + 1 /\ m < Len(r) + 1 BY <1>1
  <1>3. r[m].h = Here(k, c) /\ Removes(r[m]) /\ Here(k, c)[1] = c /\ Here(k, c) \in RealHandles /\ ~Gone(k, Here(k, c))
    <2>1. r[m].h = Here(k, c) /\ Removes(r[m]) /\ Here(k, c)[1] = c BY DEF Leaves, Here
    <2>2. r[m].h \in RealHandles BY <1>1, EventIs
    <2> QED BY <2>1, <2>2, GoneIs
  <1>4. ASSUME NEW i \in 1 .. Len(r), i # m PROVE i \in 1 .. Len(p) /\ r[i] = p[i]
    <2>1. i \in 1 .. Len(p) BY <1>1, <1>4 DEF Leaves
    <2> QED BY <1>4, <2>1 DEF Leaves
  <1>5. ASSUME NEW g \in hs, g[1] = d
        PROVE  /\ Gone(kk, g) => Dropped(r, g, Len(r) + 1)
               /\ \A n \in 1 .. Len(r) : r[n].h[1] = d /\ r[n].h # g => Dropped(r, g, n)
    <2>1. Gone(k, g) => Dropped(p, g, Len(p) + 1) BY <1>0, <1>5 DEF Cares
    <2>2. g \in RealHandles /\ (Gone(kk, g) <=> Gone(k, g) \/ g = Here(k, c)) BY <1>5, LosesGone
    <2>3. Dropped(p, g, Len(p) + 1) => Dropped(r, g, Len(r) + 1) BY <1>2, LeavesDropped
    <2>4. g = Here(k, c) => Dropped(r, g, Len(r) + 1) BY <1>1, <1>2, <1>3 DEF Dropped
    <2>5. ASSUME NEW n \in 1 .. Len(r), r[n].h[1] = d, r[n].h # g PROVE Dropped(r, g, n)
      <3>1. CASE n \in 1 .. Len(p)
        <4>1. r[n].h = p[n].h BY <3>1 DEF Leaves
        <4>2. Dropped(p, g, n) BY <1>0, <1>5, <2>5, <3>1, <4>1 DEF Cares
        <4>3. n \in Int /\ n <= n BY <3>1
        <4> QED BY <4>2, <4>3, LeavesDropped
      <3>2. CASE n > Len(p)
        <4>1. n = m BY <3>2 DEF Leaves
        <4>2. g # Here(k, c) /\ d = c BY <1>3, <2>5, <4>1
        <4>3. Gone(k, g) BY <1>5, <2>2, <4>2, GoneIs
        <4>4. Len(p) + 1 <= n /\ n \in Int BY <1>1, <3>2
        <4> QED BY <1>2, <2>1, <4>3, <4>4, LeavesDropped
      <3> QED BY <1>1, <3>1, <3>2
    <2> QED BY <2>1, <2>2, <2>3, <2>4, <2>5
  <1>6. kk[d].numid # 0 => Here(kk, d) \in hs \/ Added(r, Here(kk, d), Len(r) + 1)
    <2>1. SUFFICES ASSUME kk[d].numid # 0 PROVE Here(kk, d) \in hs \/ Added(r, Here(kk, d), Len(r) + 1) OBVIOUS
    <2>2. d # c /\ kk[d].numid = k[d].numid BY <2>1 DEF Loses
    <2>3. Here(kk, d) = Here(k, d) /\ Here(k, d) # Here(k, c) BY <2>2 DEF Here
    <2>4. Added(p, Here(k, d), Len(p) + 1) => Added(r, Here(k, d), Len(r) + 1) BY <1>2, <2>3, LeavesAdded
    <2> QED BY <1>0, <2>1, <2>2, <2>3, <2>4 DEF Cares
  <1>7. Cares(hs, r, kk, d) BY <1>5, <1>6 DEF Cares
  <1>8. ASSUME NEW n \in 1 .. Len(r), r[n].h[1] = d
        PROVE  /\ Adds(r[n]) => r[n].h \notin hs
               /\ Removes(r[n]) /\ r[n].h \notin uu => r[n].h \in hs \/ Added(r, r[n].h, n)
    <2>1. CASE n = m
      <3>1. d = c /\ ~Adds(r[n]) BY <1>3, <1>8, <2>1 DEF Adds, Removes
      <3>2. k[c].numid # 0 BY DEF Loses
      <3>3. Here(k, c) \in hs \/ Added(p, Here(k, c), Len(p) + 1) BY <1>0, <3>1, <3>2 DEF Cares
      <3> QED BY <1>3, <2>1, <3>1, <3>3
    <2>2. CASE n # m
      <3>1. n \in 1 .. Len(p) /\ r[n] = p[n] BY <1>4, <2>2
      <3>2. /\ Adds(p[n]) => p[n].h \notin hs
            /\ Removes(p[n]) /\ p[n].h \notin un => p[n].h \in hs \/ Added(p, p[n].h, n)
        BY <1>0, <1>8, <3>1 DEF Reaches
      <3>3. Removes(p[n]) => p[n].h # Here(k, c)
        <4>1. OrderedAt(p, k, n) BY <3>1 DEF Ordered
        <4> QED BY <1>3, <4>1 DEF OrderedAt
      <3>4. n \in Int /\ n <= n BY <3>1
      <3>5. p[n].h # Here(k, c) /\ Added(p, p[n].h, n) => Added(r, p[n].h, n) BY <3>4, LeavesAdded
      <3> QED BY <3>1, <3>2, <3>3, <3>5
    <2> QED BY <2>1, <2>2
  <1>9. Reaches(hs, r, uu, d) BY <1>8 DEF Reaches
  <1> QED BY <1>7, <1>9 DEF Follows

------------------------------------------------------------------------------
(* Where the first of the events p is handled, and r are those after it.   *)
Shifts(p, r) ==
  /\ p \in Seq(Events) /\ r \in Seq(Events) /\ Len(p) = Len(r) + 1
  /\ \A i \in 1 .. Len(r) : r[i] = p[i + 1]

(* A queue whose first event is read has the other removals.               *)
LEMMA ShiftsDropped ==
  ASSUME NEW p, NEW r, Shifts(p, r), NEW g, ~(Removes(p[1]) /\ p[1].h = g), NEW n \in Int, NEW m \in Int, m = n + 1,
         Dropped(p, g, m)
  PROVE  Dropped(r, g, n)
  <1>1. Len(r) \in Nat /\ Len(p) = Len(r) + 1 BY LenProperties DEF Shifts
  <1>2. PICK j \in 1 .. Len(p) : j < m /\ p[j].h = g /\ Removes(p[j]) BY DEF Dropped
  <1>3. j # 1 BY <1>2
  <1>4. j - 1 \in 1 .. Len(r) /\ j - 1 < n /\ (j - 1) + 1 = j BY <1>1, <1>2, <1>3
  <1>5. r[j - 1] = p[j] BY <1>4 DEF Shifts
  <1> QED BY <1>2, <1>4, <1>5 DEF Dropped

(* And the other additions.                                                *)
LEMMA ShiftsAdded ==
  ASSUME NEW p, NEW r, Shifts(p, r), NEW g, ~(Adds(p[1]) /\ p[1].h = g), NEW n \in Int, NEW m \in Int, m = n + 1,
         Added(p, g, m)
  PROVE  Added(r, g, n)
  <1>1. Len(r) \in Nat /\ Len(p) = Len(r) + 1 BY LenProperties DEF Shifts
  <1>2. PICK j \in 1 .. Len(p) : j < m /\ p[j].h = g /\ Adds(p[j]) BY DEF Added
  <1>3. j # 1 BY <1>2
  <1>4. j - 1 \in 1 .. Len(r) /\ j - 1 < n /\ (j - 1) + 1 = j BY <1>1, <1>2, <1>3
  <1>5. r[j - 1] = p[j] BY <1>4 DEF Shifts
  <1> QED BY <1>2, <1>4, <1>5 DEF Added

(* And its order.                                                          *)
LEMMA ShiftsOrdered ==
  ASSUME NEW p, NEW r, Shifts(p, r), NEW k, Ordered(p, k)
  PROVE  Ordered(r, k)
  <1>1. Len(r) \in Nat /\ Len(p) = Len(r) + 1 BY LenProperties DEF Shifts
  <1>2. SUFFICES ASSUME NEW n \in 1 .. Len(r) PROVE OrderedAt(r, k, n) BY DEF Ordered
  <1>3. n + 1 \in 1 .. Len(p) /\ r[n] = p[n + 1] /\ 1 \in 1 .. (n + 1) - 1 BY <1>1 DEF Shifts
  <1>4. OrderedAt(p, k, n + 1) BY <1>3 DEF Ordered
  <1>5. Removes(p[1]) => p[1].h # r[n].h BY <1>3, <1>4 DEF OrderedAt
  <1>6. Gone(k, r[n].h) => Dropped(r, r[n].h, Len(r) + 1)
    <2>1. Gone(k, r[n].h) => Dropped(p, r[n].h, Len(p) + 1) BY <1>3, <1>4 DEF OrderedAt
    <2>2. Len(r) + 1 \in Int /\ Len(p) + 1 \in Int /\ Len(p) + 1 = (Len(r) + 1) + 1 BY <1>1
    <2> QED BY <1>5, <2>1, <2>2, ShiftsDropped
  <1>7. ASSUME NEW i \in 1 .. n - 1
        PROVE  /\ Removes(r[i]) \/ Adds(r[n]) => r[i].h # r[n].h
               /\ r[i].h[1] = r[n].h[1] /\ r[i].h # r[n].h => Dropped(r, r[i].h, n)
    <2>1. i + 1 \in 1 .. (n + 1) - 1 /\ i \in 1 .. Len(r) /\ i + 1 \in 1 .. Len(p) /\ 1 \in 1 .. (i + 1) - 1 BY <1>1
    <2>2. r[i] = p[i + 1] BY <2>1 DEF Shifts
    <2>3. /\ Removes(r[i]) \/ Adds(r[n]) => r[i].h # r[n].h
          /\ r[i].h[1] = r[n].h[1] /\ r[i].h # r[n].h => Dropped(p, r[i].h, n + 1)
      BY <1>3, <1>4, <2>1, <2>2 DEF OrderedAt
    <2>4. OrderedAt(p, k, i + 1) BY <2>1 DEF Ordered
    <2>5. Removes(p[1]) => p[1].h # r[i].h BY <2>1, <2>2, <2>4 DEF OrderedAt
    <2>6. n \in Int /\ n + 1 \in Int BY <1>1
    <2>7. Dropped(p, r[i].h, n + 1) => Dropped(r, r[i].h, n) BY <2>5, <2>6, ShiftsDropped
    <2> QED BY <2>3, <2>7
  <1> QED BY <1>3, <1>4, <1>6, <1>7 DEF OrderedAt

(* What is cached of the control once the first event is handled.          *)
Takes(hs, ev, gs, c) ==
  \A g : g[1] = c => (g \in gs <=> \/ g \in hs /\ ~(Removes(ev) /\ g = ev.h)
                                   \/ Adds(ev) /\ g = ev.h)

(* What the first event did to the cache is accounted for.                 *)
LEMMA ShiftsFollows ==
  ASSUME NEW p, NEW r, Shifts(p, r), NEW k, Ordered(p, k), NEW hs, hs \subseteq RealHandles, NEW gs, NEW un,
         NEW c \in Controls, Follows(hs, p, k, un, c), Takes(hs, p[1], gs, c)
  PROVE  Follows(gs, r, k, un, c)
  <1>0. Cares(hs, p, k, c) /\ Reaches(hs, p, un, c) BY DEF Follows
  <1>1. Len(r) \in Nat /\ Len(p) = Len(r) + 1 /\ p \in Seq(Events) BY LenProperties DEF Shifts
  <1>2. Len(r) + 1 \in Int /\ Len(p) + 1 \in Int /\ Len(p) + 1 = (Len(r) + 1) + 1 /\ 1 \in 1 .. Len(p) BY <1>1
  <1>3. ASSUME NEW n \in 1 .. Len(r)
        PROVE  /\ n + 1 \in 1 .. Len(p) /\ r[n] = p[n + 1] /\ OrderedAt(p, k, n + 1) /\ 1 \in 1 .. (n + 1) - 1
               /\ n \in Int /\ n + 1 \in Int
               /\ Removes(p[1]) \/ Adds(r[n]) => p[1].h # r[n].h
    <2>1. n + 1 \in 1 .. Len(p) /\ 1 \in 1 .. (n + 1) - 1 /\ n \in Int /\ n + 1 \in Int BY <1>1
    <2>2. r[n] = p[n + 1] BY DEF Shifts
    <2>3. OrderedAt(p, k, n + 1) BY <2>1 DEF Ordered
    <2> QED BY <2>1, <2>2, <2>3 DEF OrderedAt
  <1>4. OrderedAt(p, k, 1) /\ p[1].h \in RealHandles /\ ~(Removes(p[1]) /\ Adds(p[1]))
    <2>1. OrderedAt(p, k, 1) BY <1>2 DEF Ordered
    <2>2. p[1].h \in RealHandles BY <1>1, <1>2, EventIs
    <2> QED BY <2>1, <2>2 DEF Adds, Removes
  <1>5. ASSUME NEW g \in gs, g[1] = c
        PROVE  /\ Gone(k, g) => Dropped(r, g, Len(r) + 1)
               /\ \A n \in 1 .. Len(r) : r[n].h[1] = c /\ r[n].h # g => Dropped(r, g, n)
    <2>1. \/ g \in hs /\ ~(Removes(p[1]) /\ g = p[1].h)
          \/ Adds(p[1]) /\ g = p[1].h
      BY <1>5 DEF Takes
    <2>2. ~(Removes(p[1]) /\ p[1].h = g) BY <1>4, <2>1
    <2>3. Gone(k, g) => Dropped(p, g, Len(p) + 1)
      <3>1. g \in hs => (Gone(k, g) => Dropped(p, g, Len(p) + 1)) BY <1>0, <1>5 DEF Cares
      <3>2. g = p[1].h => (Gone(k, g) => Dropped(p, g, Len(p) + 1)) BY <1>4 DEF OrderedAt
      <3> QED BY <2>1, <3>1, <3>2
    <2>4. Gone(k, g) => Dropped(r, g, Len(r) + 1) BY <1>2, <2>2, <2>3, ShiftsDropped
    <2>5. ASSUME NEW n \in 1 .. Len(r), r[n].h[1] = c, r[n].h # g PROVE Dropped(r, g, n)
      <3>1. Dropped(p, g, n + 1)
        <4>1. CASE g \in hs BY <1>0, <1>3, <1>5, <2>5, <4>1 DEF Cares
        <4>2. CASE g = p[1].h BY <1>3, <1>5, <2>5, <4>2 DEF OrderedAt
        <4> QED BY <2>1, <4>1, <4>2
      <3> QED BY <1>3, <2>2, <3>1, ShiftsDropped
    <2> QED BY <2>4, <2>5
  <1>6. k[c].numid # 0 => Here(k, c) \in gs \/ Added(r, Here(k, c), Len(r) + 1)
    <2>1. SUFFICES ASSUME k[c].numid # 0, Here(k, c) \notin gs PROVE Added(r, Here(k, c), Len(r) + 1) OBVIOUS
    <2>2. Here(k, c)[1] = c BY DEF Here
    <2>3. ~(Adds(p[1]) /\ p[1].h = Here(k, c)) BY <2>1, <2>2 DEF Takes
    <2>4. Here(k, c) \in hs => Removes(p[1]) /\ p[1].h = Here(k, c) BY <2>1, <2>2 DEF Takes
    <2>5. ~(Removes(p[1]) /\ p[1].h = Here(k, c))
      <3>1. Removes(p[1]) => Gone(k, p[1].h) BY <1>4 DEF OrderedAt
      <3> QED BY <1>4, <2>2, <3>1, GoneIs
    <2>6. Added(p, Here(k, c), Len(p) + 1) BY <1>0, <2>1, <2>4, <2>5 DEF Cares
    <2> QED BY <1>2, <2>3, <2>6, ShiftsAdded
  <1>7. Cares(gs, r, k, c) BY <1>5, <1>6 DEF Cares
  <1>8. ASSUME NEW n \in 1 .. Len(r), r[n].h[1] = c
        PROVE  /\ Adds(r[n]) => r[n].h \notin gs
               /\ Removes(r[n]) /\ r[n].h \notin un => r[n].h \in gs \/ Added(r, r[n].h, n)
    <2>1. /\ Adds(r[n]) => r[n].h \notin hs
          /\ Removes(r[n]) /\ r[n].h \notin un => r[n].h \in hs \/ Added(p, r[n].h, n + 1)
      BY <1>0, <1>3, <1>8 DEF Reaches
    <2>2. r[n].h \in gs <=> \/ r[n].h \in hs /\ ~(Removes(p[1]) /\ r[n].h = p[1].h)
                            \/ Adds(p[1]) /\ r[n].h = p[1].h
      BY <1>8 DEF Takes
    <2>3. Removes(p[1]) \/ Adds(r[n]) => p[1].h # r[n].h BY <1>3
    <2>4. ~(Adds(p[1]) /\ p[1].h = r[n].h) /\ Added(p, r[n].h, n + 1) => Added(r, r[n].h, n) BY <1>3, ShiftsAdded
    <2> QED BY <2>1, <2>2, <2>3, <2>4
  <1>9. Reaches(gs, r, un, c) BY <1>8 DEF Reaches
  <1> QED BY <1>7, <1>9 DEF Follows

------------------------------------------------------------------------------
(* The events in hand and in the queue, one after the other.               *)
PendOf(ph, hd, q) == (IF ph = "popped" THEN <<hd>> ELSE <<>>) \o q
Off(ph) == IF ph = "popped" THEN 1 ELSE 0

Pends(p, ph, hd, q) ==
  /\ p \in Seq(Events) /\ Len(p) \in Nat /\ Len(q) \in Nat /\ Len(p) = Len(q) + Off(ph) /\ Off(ph) \in {0, 1}
  /\ \A i \in 1 .. Len(q) : i + Off(ph) \in 1 .. Len(p) /\ p[i + Off(ph)] = q[i]
  /\ \A j \in 1 .. Len(p) : j > Off(ph) => j - Off(ph) \in 1 .. Len(q) /\ p[j] = q[j - Off(ph)]
  /\ \A j \in 1 .. Len(p) : j <= Off(ph) => j = 1 /\ p[j] = hd /\ ph = "popped"
  /\ ph = "popped" => p[1] = hd

(* The event in hand is the first of those pending.                        *)
LEMMA PendIs ==
  ASSUME NEW q \in Seq(Events), NEW ph, NEW hd, ph = "popped" => hd \in Events
  PROVE  Pends(PendOf(ph, hd, q), ph, hd, q)
  <1>1. Len(q) \in Nat BY LenProperties
  <1>2. CASE ph = "popped"
    <2>1. hd \in Events BY <1>2
    <2>2. <<hd>> \in Seq(Events) /\ Len(<<hd>>) = 1 /\ <<hd>>[1] = hd BY <2>1
    <2>3. PendOf(ph, hd, q) = <<hd>> \o q BY <1>2 DEF PendOf
    <2>4. /\ <<hd>> \o q \in Seq(Events) /\ Len(<<hd>> \o q) = Len(q) + 1
          /\ \A i \in 1 .. Len(<<hd>>) + Len(q) : (<<hd>> \o q)[i] = IF i <= Len(<<hd>>) THEN <<hd>>[i] ELSE q[i - Len(<<hd>>)]
      BY <1>1, <2>2, ConcatProperties
    <2>5. Off(ph) = 1 BY <1>2 DEF Off
    <2> DEFINE p == <<hd>> \o q
    <2>6. \A i \in 1 .. Len(q) + 1 : p[i] = IF i <= 1 THEN hd ELSE q[i - 1] BY <2>2, <2>4
    <2>7. p \in Seq(Events) /\ Len(p) = Len(q) + 1 BY <2>4
    <2> HIDE DEF p
    <2>8. \A i \in 1 .. Len(q) : i + 1 \in 1 .. Len(p) /\ p[i + 1] = q[i]
      <3>1. SUFFICES ASSUME NEW i \in 1 .. Len(q) PROVE i + 1 \in 1 .. Len(p) /\ p[i + 1] = q[i] OBVIOUS
      <3>2. i + 1 \in 1 .. Len(q) + 1 /\ ~(i + 1 <= 1) /\ (i + 1) - 1 = i BY <1>1
      <3> QED BY <2>6, <2>7, <3>2
    <2>9. \A j \in 1 .. Len(p) : j > 1 => j - 1 \in 1 .. Len(q) /\ p[j] = q[j - 1] BY <1>1, <2>6, <2>7
    <2>10. \A j \in 1 .. Len(p) : j <= 1 => j = 1 /\ p[j] = hd BY <1>1, <2>6, <2>7
    <2>11. p[1] = hd BY <1>1, <2>6
    <2>12. PendOf(ph, hd, q) = p BY <2>3 DEF p
    <2> QED BY <1>1, <1>2, <2>5, <2>7, <2>8, <2>9, <2>10, <2>11, <2>12 DEF Pends
  <1>3. CASE ph # "popped"
    <2>1. PendOf(ph, hd, q) = q BY <1>3 DEF PendOf
    <2>2. Off(ph) = 0 BY <1>3 DEF Off
    <2> QED BY <1>1, <1>3, <2>1, <2>2 DEF Pends
  <1> QED BY <1>2, <1>3

(* Two events with the same handle and mask are one.                       *)
LEMMA EventEq == ASSUME NEW a \in Events, NEW b \in Events, a.h = b.h, a.mask = b.mask PROVE a = b
  BY DEF Events

(* Changes of what is there only merge with the events or follow them.     *)
LEMMA QuietKind ==
  ASSUME NEW a \in Events, NEW b \in Events, "REMOVE" \in a.mask => Removes(a),
         a.mask \subseteq b.mask, b.mask \subseteq a.mask \union Quiet
  PROVE  (Adds(a) <=> Adds(b)) /\ (Removes(a) <=> Removes(b)) /\ ("REMOVE" \in b.mask => Removes(b))
  <1>1. a.mask \subseteq REMOVE /\ b.mask \subseteq REMOVE BY DEF Events
  <1>2. "REMOVE" \in REMOVE /\ "REMOVE" \notin Quiet /\ "ADD" \notin Quiet BY DEF REMOVE, Quiet
  <1>3. Removes(a) <=> Removes(b)
    <2>1. ASSUME a.mask = REMOVE PROVE b.mask = REMOVE BY <1>1, <2>1
    <2>2. ASSUME b.mask = REMOVE PROVE a.mask = REMOVE
      <3>1. "REMOVE" \in a.mask BY <1>2, <2>2
      <3> QED BY <3>1 DEF Removes
    <2> QED BY <2>1, <2>2 DEF Removes
  <1>4. "ADD" \in a.mask <=> "ADD" \in b.mask BY <1>2
  <1>5. "REMOVE" \in b.mask => Removes(b) BY <1>2, <1>3
  <1> QED BY <1>3, <1>4, <1>5 DEF Adds, Removes

(* An extension of the queue is one of what is pending.                    *)
LEMMA GrewPends ==
  ASSUME NEW q \in Seq(Events), NEW r, Extends(q, r), NEW ph, NEW hd, ph = "popped" => hd \in Events,
         Ordered(PendOf(ph, hd, q), card)
  PROVE  Grew(PendOf(ph, hd, q), PendOf(ph, hd, r), card)
  <1> DEFINE p == PendOf(ph, hd, q)
             s == PendOf(ph, hd, r)
  <1>0. r \in Seq(Events) BY DEF Extends
  <1>1. Pends(p, ph, hd, q) /\ Pends(s, ph, hd, r) BY <1>0, PendIs
  <1>2. Ordered(p, card) OBVIOUS
  <1> HIDE DEF p, s
  <1> DEFINE o == Off(ph)
  <1>3. /\ o \in {0, 1} /\ Len(q) \in Nat /\ Len(r) \in Nat /\ Len(q) <= Len(r)
        /\ p \in Seq(Events) /\ Len(p) = Len(q) + o /\ s \in Seq(Events) /\ Len(s) = Len(r) + o
    BY <1>1 DEF Pends, Extends
  <1>4. ASSUME NEW i \in 1 .. Len(p)
        PROVE  /\ s[i].h = p[i].h /\ (Adds(s[i]) <=> Adds(p[i])) /\ (Removes(s[i]) <=> Removes(p[i]))
               /\ "REMOVE" \in s[i].mask => Removes(s[i])
    <2>0. i \in 1 .. Len(s) BY <1>3
    <2>1. p[i] \in Events /\ s[i] \in Events /\ ("REMOVE" \in p[i].mask => Removes(p[i]))
      BY <1>2, <1>3, <2>0, EventIs DEF Ordered, OrderedAt
    <2>2. CASE i <= o
      <3>1. p[i] = hd /\ s[i] = hd BY <1>1, <2>0, <2>2 DEF Pends
      <3> QED BY <2>1, <3>1
    <2>3. CASE i > o
      <3>1. i - o \in 1 .. Len(q) /\ p[i] = q[i - o] /\ s[i] = r[i - o] BY <1>1, <2>0, <2>3 DEF Pends
      <3>2. s[i].h = p[i].h /\ p[i].mask \subseteq s[i].mask /\ s[i].mask \subseteq p[i].mask \union Quiet
        BY <3>1 DEF Extends
      <3> QED BY <2>1, <3>2, QuietKind
    <2> QED BY <1>3, <2>2, <2>3
  <1>5. ASSUME NEW i \in 1 .. Len(s), i > Len(p)
        PROVE  /\ ~Adds(s[i]) /\ "REMOVE" \notin s[i].mask /\ ~Removes(s[i])
               /\ \E c \in Controls : card[c].numid # 0 /\ s[i].h = Here(card, c)
    <2>1. i > o /\ i - o > Len(q) BY <1>3, <1>5
    <2>2. i - o \in 1 .. Len(r) /\ s[i] = r[i - o] BY <1>1, <2>1 DEF Pends
    <2>3. s[i].mask \subseteq Quiet /\ \E c \in Controls : Present(c) /\ s[i].h = Handle(c)
      BY <2>1, <2>2 DEF Extends
    <2>4. "ADD" \notin s[i].mask /\ "REMOVE" \notin s[i].mask BY <2>3 DEF Quiet
    <2>5. s[i].mask # REMOVE BY <2>4 DEF REMOVE
    <2> QED BY <2>3, <2>4, <2>5 DEF Adds, Removes, Present, Handle, Here
  <1> QED BY <1>3, <1>4, <1>5 DEF Grew, p, s

(* A control that is new.                                                  *)
LEMMA JoinsPends ==
  ASSUME NEW q \in Seq(Events), NEW r, NEW h, subscribed, NotedAs(q, h, {"ADD"}, r), ~In(q, h), NEW ph, NEW hd,
         ph = "popped" => hd \in Events /\ hd.h # h
  PROVE  Joins(PendOf(ph, hd, q), PendOf(ph, hd, r), h)
  <1> DEFINE p == PendOf(ph, hd, q)
             s == PendOf(ph, hd, r)
             o == Off(ph)
  <1>0. r \in Seq(Events) BY DEF NotedAs
  <1>1. Pends(p, ph, hd, q) /\ Pends(s, ph, hd, r) BY <1>0, PendIs
  <1> HIDE DEF p, s
  <1>2. Len(r) = Len(q) + 1 /\ r[Len(q) + 1] = [h |-> h, mask |-> {"ADD"}] BY DEF NotedAs
  <1>3. /\ o \in {0, 1} /\ Len(q) \in Nat /\ p \in Seq(Events) /\ Len(p) = Len(q) + o /\ s \in Seq(Events)
        /\ Len(s) = Len(p) + 1
    BY <1>1, <1>2 DEF Pends
  <1>4. ASSUME NEW i \in 1 .. Len(p) PROVE s[i] = p[i] /\ p[i].h # h
    <2>0. i \in 1 .. Len(s) BY <1>3
    <2>1. CASE i <= o
      <3>1. p[i] = hd /\ s[i] = hd /\ ph = "popped" BY <1>1, <2>0, <2>1 DEF Pends
      <3> QED BY <3>1
    <2>2. CASE i > o
      <3> DEFINE j == i - o
      <3>1. j \in 1 .. Len(q) /\ p[i] = q[j] /\ s[i] = r[j] BY <1>1, <2>0, <2>2 DEF Pends
      <3>2. j \in 1 .. Len(r) BY <1>2, <1>3, <3>1
      <3>3. q[j].h # h BY <3>1 DEF In
      <3>4. r[j].h = q[j].h /\ r[j].mask = q[j].mask BY <3>1, <3>3 DEF NotedAs
      <3>5. r[j] \in Events /\ q[j] \in Events BY <1>0, <3>1, <3>2, ElementOfSeq
      <3> HIDE DEF j
      <3> QED BY <3>1, <3>3, <3>4, <3>5, EventEq
    <2> QED BY <1>3, <2>1, <2>2
  <1>5. s[Len(p) + 1] = [h |-> h, mask |-> {"ADD"}]
    <2>1. Len(q) + 1 \in 1 .. Len(r) /\ (Len(q) + 1) + o = Len(p) + 1 BY <1>2, <1>3
    <2> QED BY <1>1, <1>2, <2>1 DEF Pends
  <1>6. {"ADD"} # REMOVE /\ "REMOVE" \notin {"ADD"} /\ "ADD" \in {"ADD"} BY DEF REMOVE
  <1> QED BY <1>3, <1>4, <1>5, <1>6 DEF Joins, Adds, p, s

(* A control that goes.                                                    *)
LEMMA LeavesPends ==
  ASSUME NEW q \in Seq(Events), NEW r, NEW h, subscribed, NotedAs(q, h, REMOVE, r), Once(q), NEW ph, NEW hd,
         ph = "popped" => hd \in Events
  PROVE  \E m : /\ Leaves(PendOf(ph, hd, q), PendOf(ph, hd, r), h, m) /\ m > Off(ph)
                /\ \A j \in 1 .. Len(q) : q[j].h = h => j + Off(ph) = m
  <1> DEFINE p == PendOf(ph, hd, q)
             s == PendOf(ph, hd, r)
             o == Off(ph)
  <1>0. r \in Seq(Events) BY DEF NotedAs
  <1>1. Pends(p, ph, hd, q) /\ Pends(s, ph, hd, r) BY <1>0, PendIs
  <1> HIDE DEF p, s
  <1>2. /\ o \in {0, 1} /\ Len(q) \in Nat /\ p \in Seq(Events) /\ Len(p) = Len(q) + o /\ s \in Seq(Events)
        /\ Len(s) = Len(r) + o /\ Len(r) \in Nat
    BY <1>1 DEF Pends
  <1>3. PICK l \in 1 .. Len(r) :
          /\ r[l].h = h /\ r[l].mask = REMOVE /\ Len(q) <= Len(r)
          /\ \A j \in 1 .. Len(q) : q[j].h = h => j = l
          /\ \A j \in 1 .. Len(r) : j > Len(q) => j = l
          /\ \A j \in 1 .. Len(r) : j > l => r[j].h # h
    <2>1. CASE In(q, h)
      <3>1. PICK l \in 1 .. Len(q) : q[l].h = h BY <2>1 DEF In
      <3>2. Len(r) = Len(q) BY <2>1 DEF NotedAs
      <3>3. r[l].h = h /\ r[l].mask = q[l].mask \union REMOVE BY <3>1 DEF NotedAs
      <3>4. q[l].mask \subseteq REMOVE BY EventIs
      <3>5. \A j \in 1 .. Len(q) : q[j].h = h => j = l BY <3>1 DEF Once
      <3>6. ASSUME NEW j \in 1 .. Len(r), j > l PROVE r[j].h # h
        <4>1. r[j].h = q[j].h /\ j \in 1 .. Len(q) BY <3>2 DEF NotedAs
        <4> QED BY <3>5, <3>6, <4>1
      <3>7. r[l].mask = REMOVE BY <3>3, <3>4
      <3>8. l \in 1 .. Len(r) /\ Len(q) <= Len(r) /\ \A j \in 1 .. Len(r) : ~(j > Len(q)) BY <1>2, <3>2
      <3> QED BY <3>3, <3>5, <3>6, <3>7, <3>8
    <2>2. CASE ~In(q, h)
      <3>1. Len(r) = Len(q) + 1 /\ r[Len(q) + 1] = [h |-> h, mask |-> REMOVE] BY <2>2 DEF NotedAs
      <3>2. \A j \in 1 .. Len(q) : q[j].h # h BY <2>2 DEF In
      <3>3. Len(q) + 1 \in 1 .. Len(r) /\ Len(q) <= Len(r) /\ \A j \in 1 .. Len(r) : ~(j > Len(q) + 1) BY <1>2, <3>1
      <3>4. \A j \in 1 .. Len(r) : j > Len(q) => j = Len(q) + 1 BY <1>2, <3>1
      <3> QED BY <3>1, <3>2, <3>3, <3>4
    <2> QED BY <2>1, <2>2
  <1>4. l + o \in 1 .. Len(s) /\ l + o > o /\ Len(p) <= Len(s) /\ s[l + o] = r[l] BY <1>1, <1>2, <1>3 DEF Pends
  <1>5. ASSUME NEW i \in 1 .. Len(p) PROVE s[i].h = p[i].h /\ (i # l + o => s[i] = p[i])
    <2>0. i \in 1 .. Len(s) BY <1>2, <1>3
    <2>1. CASE i <= o BY <1>1, <2>0, <2>1 DEF Pends
    <2>2. CASE i > o
      <3> DEFINE j == i - o
      <3>1. j \in 1 .. Len(q) /\ p[i] = q[j] /\ s[i] = r[j] BY <1>1, <2>0, <2>2 DEF Pends
      <3>2. j \in 1 .. Len(r) /\ j + o = i BY <1>2, <1>3, <3>1
      <3>4. r[j].h = q[j].h /\ (q[j].h # h => r[j].mask = q[j].mask) BY <3>1 DEF NotedAs
      <3>5. r[j] \in Events /\ q[j] \in Events BY <1>0, <3>1, <3>2, ElementOfSeq
      <3>6. i # l + o => q[j].h # h BY <1>3, <3>1, <3>2
      <3> HIDE DEF j
      <3> QED BY <3>1, <3>4, <3>5, <3>6, EventEq
    <2> QED BY <1>2, <2>1, <2>2
  <1>6. ASSUME NEW i \in 1 .. Len(s), i > Len(p) PROVE i = l + o
    <2>1. i > o /\ i - o > Len(q) /\ i - o \in 1 .. Len(r) BY <1>2, <1>6
    <2>2. i - o = l BY <1>3, <2>1
    <2> QED BY <1>2, <2>2
  <1>7. ASSUME NEW i \in 1 .. Len(s), i > l + o PROVE s[i].h # h
    <2>1. i > o /\ i - o > l BY <1>2, <1>7
    <2>2. i - o \in 1 .. Len(r) /\ s[i] = r[i - o] BY <1>1, <2>1 DEF Pends
    <2> QED BY <1>3, <2>1, <2>2
  <1>8. Leaves(p, s, h, l + o) BY <1>2, <1>3, <1>4, <1>5, <1>6, <1>7 DEF Leaves, Removes
  <1>9. \A j \in 1 .. Len(q) : q[j].h = h => j + o = l + o BY <1>3
  <1> QED BY <1>4, <1>8, <1>9 DEF p, s

(* Handling the event in hand leaves the queue.                            *)
LEMMA ShiftsPends ==
  ASSUME NEW q \in Seq(Events), NEW hd \in Events
  PROVE  Shifts(PendOf("popped", hd, q), q) /\ PendOf("popped", hd, q)[1] = hd
  <1>1. Pends(PendOf("popped", hd, q), "popped", hd, q) BY PendIs
  <1>2. Off("popped") = 1 BY DEF Off
  <1> QED BY <1>1, <1>2 DEF Pends, Shifts

------------------------------------------------------------------------------
(* The history invariant.                                                  *)
Caches == {e.h : e \in Range(elems)}
Following == phase \in {"listed", "filled", "idle", "popped"}

QueueOnce ==
  /\ Once(queue)
  /\ ~subscribed => queue = <<>>
  /\ phase \in {"idle", "popped"} => subscribed

History ==
  /\ QueueOnce
  /\ Ordered(Pending, card)
  /\ Following => \A c \in Controls \ missed : Follows(Caches, Pending, card, unseen, c)

(* The cached handles, as a set.                                           *)
LEMMA CachesIs ==
  ASSUME MixerInv
  PROVE  Caches \subseteq RealHandles /\ Caches \subseteq Known /\ \A g : g \in Caches <=> Cached(Now, g)
  <1>1. \A g : g \in Caches <=> Cached(Now, g)
    <2>1. Now.elems = elems BY NowIs
    <2> QED BY <2>1 DEF Caches, Cached
  <1>2. Caches \subseteq Known BY <1>1, KnownCached
  <1> QED BY <1>1, <1>2 DEF MixerInv, NumbersOnce

(* The same after a step.                                                  *)
LEMMA CachesNext ==
  ASSUME MixerInv, NEW hs, \A g : Cached(Now, g)' <=> g \in hs
  PROVE  Caches' = hs
  <1>1. (Now.elems)' = elems' BY DEF Now
  <1>2. \A g : g \in Caches' <=> Cached(Now, g)' BY <1>1 DEF Caches, Cached
  <1> QED BY <1>2

(* The pending events, as a sequence.                                      *)
LEMMA PendingIs ==
  ASSUME MixerInv
  PROVE  /\ Pending = PendOf(phase, hand, queue) /\ queue \in Seq(Events)
         /\ phase = "popped" => hand \in Events
         /\ Pending \in Seq(Events) /\ Len(Pending) \in Nat
         /\ \A i \in 1 .. Len(Pending) : Pending[i].h \in Known
  <1>1. Pending = PendOf(phase, hand, queue) /\ queue \in Seq(Events) BY NowIs DEF Pending, PendOf
  <1>2. phase = "popped" => hand \in Events
    <2>1. phase = "popped" => hand.h \in RealHandles BY HandIs
    <2>2. hand \in [h : Handles, mask : SUBSET REMOVE] BY DEF MixerInv, KernelOK
    <2> QED BY <2>1, <2>2 DEF Events
  <1>3. Pends(Pending, phase, hand, queue) BY <1>1, <1>2, PendIs
  <1>4. ASSUME NEW i \in 1 .. Len(Pending) PROVE Pending[i].h \in Known
    <2>0. Len(Pending) \in Nat /\ Off(phase) \in {0, 1} BY <1>3 DEF Pends
    <2>1. CASE i <= Off(phase)
      <3>1. Pending[i] = hand /\ phase = "popped" BY <1>3, <2>1 DEF Pends
      <3> QED BY <3>1, HandIs
    <2>2. CASE i > Off(phase)
      <3>1. i - Off(phase) \in 1 .. Len(queue) /\ Pending[i] = queue[i - Off(phase)] BY <1>3, <2>2 DEF Pends
      <3> QED BY <3>1, KnownCached DEF In
    <2> QED BY <2>0, <2>1, <2>2
  <1> QED BY <1>1, <1>2, <1>3, <1>4 DEF Pends

(* The same after a step.                                                  *)
LEMMA PendingNext == Pending' = PendOf(phase', hand', queue')
  BY DEF Pending, PendOf

(* The handle of a control on the card.                                    *)
LEMMA HereIs == ASSUME NEW c PROVE Handle(c) = Here(card, c) /\ (Present(c) <=> card[c].numid # 0)
  BY DEF Handle, Here, Present

(* The same numbers, and more that is missed or unseen.                    *)
LEMMA SameGone ==
  ASSUME NEW k, NEW m, \A c \in Controls : m[c].numid = k[c].numid, NEW h \in RealHandles
  PROVE  Gone(m, h) <=> Gone(k, h)
  <1>1. h[1] \in Controls BY HandlesInt
  <1> QED BY <1>1 DEF Gone

(* Order is about the numbers on the card only.                            *)
LEMMA SameOrdered ==
  ASSUME NEW p \in Seq(Events), NEW k, NEW m, \A c \in Controls : m[c].numid = k[c].numid, Ordered(p, k)
  PROVE  Ordered(p, m)
  <1>1. SUFFICES ASSUME NEW n \in 1 .. Len(p) PROVE OrderedAt(p, m, n) BY DEF Ordered
  <1>2. OrderedAt(p, k, n) BY DEF Ordered
  <1>3. p[n].h \in RealHandles BY EventIs
  <1>4. Gone(m, p[n].h) <=> Gone(k, p[n].h) BY <1>3, SameGone
  <1> QED BY <1>2, <1>4 DEF OrderedAt

(* So is what accounts for a control.                                      *)
LEMMA SameFollows ==
  ASSUME NEW p, NEW k, NEW m, NEW c \in Controls, m[c].numid = k[c].numid, NEW un, NEW uu, un \subseteq uu,
         NEW hs, hs \subseteq RealHandles, Follows(hs, p, k, un, c)
  PROVE  Follows(hs, p, m, uu, c)
  <1>0. Cares(hs, p, k, c) /\ Reaches(hs, p, un, c) BY DEF Follows
  <1>1. Here(m, c) = Here(k, c) BY DEF Here
  <1>2. ASSUME NEW g \in hs, g[1] = c PROVE Gone(m, g) <=> Gone(k, g)
    <2>1. Gone(m, g) <=> g # Here(m, c) BY <1>2, GoneIs
    <2>2. Gone(k, g) <=> g # Here(k, c) BY <1>2, GoneIs
    <2> QED BY <1>1, <2>1, <2>2
  <1>3. Cares(hs, p, m, c) BY <1>0, <1>1, <1>2 DEF Cares
  <1>4. Reaches(hs, p, uu, c) BY <1>0 DEF Reaches
  <1> QED BY <1>3, <1>4 DEF Follows

(* A step that only changes what is there.                                 *)
LEMMA QuietHistory ==
  ASSUME MixerInv, History, UNCHANGED <<subscribed, hand, unseen>>, Caches' = Caches, missed \subseteq missed',
         phase' = phase \/ (phase = "idle" /\ phase' = "dead"),
         Extends(queue, queue'), \A c \in Controls : card'[c].numid = card[c].numid
  PROVE  History'
  <1> DEFINE p == Pending
             r == Pending'
  <1>1. p = PendOf(phase, hand, queue) /\ queue \in Seq(Events) /\ (phase = "popped" => hand \in Events)
    BY PendingIs
  <1>2. r = PendOf(phase, hand, queue') BY PendingNext DEF PendOf
  <1>3. Ordered(p, card) BY DEF History
  <1> HIDE DEF p, r
  <1>4. Grew(p, r, card) BY <1>1, <1>2, <1>3, GrewPends
  <1>5. Ordered(r, card) /\ r \in Seq(Events) BY <1>3, <1>4, GrewOrdered DEF Grew
  <1>6. Ordered(r, card') BY <1>5, SameOrdered
  <1>7. Caches \subseteq RealHandles BY CachesIs
  <1>8. ASSUME Following', NEW c \in Controls \ missed' PROVE Follows(Caches', r, card', unseen', c)
    <2>1. Follows(Caches, p, card, unseen, c) BY <1>8 DEF History, Following, p
    <2>2. Follows(Caches, r, card, unseen, c) BY <1>4, <1>7, <2>1, GrewFollows
    <2>3. card'[c].numid = card[c].numid /\ unseen \subseteq unseen OBVIOUS
    <2>4. Follows(Caches, r, card', unseen, c) BY <1>7, <2>2, <2>3, SameFollows
    <2> QED BY <2>4
  <1>9. QueueOnce' BY DEF History, QueueOnce, Extends
  <1> QED BY <1>6, <1>8, <1>9 DEF History, r

(* A step of the library that is not about events.                         *)
LEMMA LibraryHistory ==
  ASSUME MixerInv, History, UNCHANGED <<queue, card, unseen, missed>>, phase # "popped", phase' # "popped",
         subscribed => subscribed', phase' = "idle" => subscribed',
         Following' => Following /\ Caches' = Caches
  PROVE  History'
  <1>1. Pending' = Pending
    <2>1. Pending = queue /\ Pending' = queue'
      <3>1. queue \in Seq(Events) BY NowIs
      <3> QED BY <3>1 DEF Pending
    <2> QED BY <2>1
  <1>2. Ordered(Pending', card') BY <1>1 DEF History
  <1>3. QueueOnce' BY DEF History, QueueOnce
  <1>4. ASSUME Following', NEW c \in Controls \ missed' PROVE Follows(Caches', Pending', card', unseen', c)
    BY <1>1, <1>4 DEF History
  <1> QED BY <1>2, <1>3, <1>4 DEF History

------------------------------------------------------------------------------
(* Every step keeps the history.                                           *)
LEMMA InitHistory == ASSUME Init PROVE History
  <1>1. MixerInv BY InitInv
  <1>2. queue = <<>> /\ phase = "new" /\ subscribed = FALSE BY DEF Init
  <1>3. Pending = <<>>
    <2>1. queue \in Seq(Events) BY <1>1, NowIs
    <2> QED BY <1>2, <2>1 DEF Pending
  <1>4. Len(Pending) = 0 /\ Len(queue) = 0 BY <1>2, <1>3, EmptySeq
  <1>5. Ordered(Pending, card) BY <1>4 DEF Ordered
  <1>6. QueueOnce BY <1>2, <1>4 DEF QueueOnce, Once
  <1> QED BY <1>2, <1>5, <1>6 DEF History, Following

(* The handles cached are those in the slots.                              *)
LEMMA SameCaches == ASSUME elems' = elems PROVE Caches' = Caches
  BY DEF Caches

(* No step keeps the history.                                              *)
LEMMA StutterHistory == ASSUME MixerInv, History, UNCHANGED vars PROVE History'
  <1>1. UNCHANGED <<subscribed, phase, hand, unseen, elems, queue, card, missed>> BY DEF vars, kernel, library
  <1>2. Extends(queue, queue') BY <1>1, NowIs, ExtendsSelf
  <1> QED BY <1>1, <1>2, SameCaches, QuietHistory

(* Another program writes a value.                                         *)
LEMMA KWriteHistory == ASSUME MixerInv, History, NEW c \in Controls, NEW v \in Values, KWrite(c, v) PROVE History'
  <1>1. Extends(queue, queue') BY KWriteKeeps
  <1>2. /\ card' = [card EXCEPT ![c].value = v]
        /\ missed' = IF ~subscribed /\ phase \in {"filled"} THEN missed \union {c} ELSE missed
        /\ UNCHANGED <<subscribed, library, phase, hand, unseen>>
    BY DEF KWrite, Changed
  <1>3. \A d \in Controls : card'[d].numid = card[d].numid
    <2>1. card \in Cards BY NowIs
    <2> QED BY <1>2, <2>1 DEF Cards
  <1>4. Caches' = Caches /\ missed \subseteq missed' BY <1>2, SameCaches DEF library
  <1> QED BY <1>1, <1>2, <1>3, <1>4, QuietHistory

(* A control changes its info.                                             *)
LEMMA KInfoHistory == ASSUME MixerInv, History, NEW c \in Controls, KInfo(c) PROVE History'
  <1>1. Extends(queue, queue') BY KInfoKeeps
  <1>2. /\ card' = card
        /\ missed' = IF ~subscribed /\ phase \in {} THEN missed \union {c} ELSE missed
        /\ UNCHANGED <<subscribed, library, phase, hand, unseen>>
    BY DEF KInfo, Changed
  <1>4. Caches' = Caches /\ missed \subseteq missed' BY <1>2, SameCaches DEF library
  <1> QED BY <1>1, <1>2, <1>4, QuietHistory

(* The application sets an element.                                        *)
LEMMA SetHistory ==
  ASSUME MixerInv, History, NEW n, Exists(Now, n), NEW s \in Selems, SameControls(Elem(Now, n), s), NEW saw,
         Saw(n, s, saw), Set(n, s, saw)
  PROVE  History'
  <1>1. /\ Extends(queue, queue') /\ \A c \in Controls : card'[c].numid = card[c].numid
        /\ \A g : Cached(Now, g)' <=> Cached(Now, g)
        /\ phase = "idle" /\ phase' \in {"idle", "dead"}
        /\ UNCHANGED <<fresh, subscribed, compare, registered, hand, missed, unseen, changes, loads>>
    BY SetKeeps
  <1>2. Caches' = Caches BY <1>1, CachesIs, CachesNext
  <1> QED BY <1>1, <1>2, QuietHistory

(* The comparison changes.                                                 *)
LEMMA SetCompareHistory == ASSUME MixerInv, History, SetCompare PROVE History'
  <1>1. UNCHANGED <<kernel, mixer, told, torn, registered, phase, hand, missed, unseen, changes, sets, loads>>
    BY DEF SetCompare
  <1>2. Caches' = Caches BY SetCompareKeeps, CachesIs, CachesNext
  <1>3. Extends(queue, queue') BY <1>1, NowIs, ExtendsSelf DEF kernel
  <1> QED BY <1>1, <1>2, <1>3, QuietHistory DEF kernel

(* The class is registered.                                                *)
LEMMA RegisterHistory == ASSUME MixerInv, History, Register PROVE History'
  <1>1. /\ phase \in {"new", "idle"} /\ UNCHANGED <<kernel, compare, hand, missed, unseen, changes, sets, loads>>
    BY DEF Register
  <1>2. phase' \in {"dead", "failed", phase} /\ Caches' = Caches BY RegisterKeeps, CachesIs, CachesNext
  <1>3. phase = "idle" => subscribed BY DEF History, QueueOnce
  <1> QED BY <1>1, <1>2, <1>3, LibraryHistory DEF kernel, Following

(* The load makes the elements.                                            *)
LEMMA LoadFillHistory == ASSUME MixerInv, History, LoadFill PROVE History'
  <1>1. /\ phase = "listed" /\ UNCHANGED <<kernel, compare, registered, hand, missed, unseen, changes, sets, loads>>
    BY DEF LoadFill
  <1>2. phase' \in {"dead", "failed", "filled"} /\ Caches' = Caches BY LoadFillKeeps, CachesIs, CachesNext
  <1> QED BY <1>1, <1>2, LibraryHistory DEF kernel, Following

(* The subscription.                                                       *)
LEMMA SubscribeHistory == ASSUME MixerInv, History, Subscribe PROVE History'
  <1>1. /\ phase = "filled" /\ subscribed' = TRUE /\ phase' = "idle"
        /\ UNCHANGED <<card, fresh, queue, library, compare, registered, hand, missed, unseen, changes, sets, loads>>
    BY DEF Subscribe
  <1>2. Caches' = Caches BY <1>1, SameCaches DEF library
  <1> QED BY <1>1, <1>2, LibraryHistory DEF Following

(* The unload, which leaves the queue as it is.                            *)
LEMMA UnloadHistory == ASSUME MixerInv, History, Unload PROVE History'
  <1>1. /\ phase \in {"idle", "failed"}
        /\ UNCHANGED <<kernel, compare, registered, hand, missed, unseen, changes, sets, loads>>
    BY DEF Unload
  <1>2. phase' = "new" BY UnloadKeeps
  <1> QED BY <1>1, <1>2, LibraryHistory DEF kernel, Following

(* The close.                                                              *)
LEMMA CloseHistory == ASSUME MixerInv, History, Close PROVE History'
  <1>1. phase' = "closed" /\ queue' = <<>> /\ MixerInv' BY CloseKeeps
  <1>2. Pending' = <<>>
    <2>1. Pending' = <<>> \o queue' BY <1>1 DEF Pending
    <2> QED BY <1>1, <2>1, EmptySeq, ConcatEmptySeq
  <1>3. Len(Pending') = 0 /\ Len(queue') = 0 BY <1>1, <1>2, EmptySeq
  <1>4. Ordered(Pending', card') BY <1>3 DEF Ordered
  <1>5. QueueOnce' BY <1>1, <1>3 DEF QueueOnce, Once
  <1> QED BY <1>1, <1>4, <1>5 DEF History, Following

(* An event is taken.                                                      *)
LEMMA PopHistory == ASSUME MixerInv, History, Pop PROVE History'
  <1>1. /\ phase = "idle" /\ queue # <<>>
        /\ hand' = Head(queue) /\ queue' = Tail(queue) /\ phase' = "popped"
        /\ UNCHANGED <<card, subscribed, library, missed, unseen>>
    BY DEF Pop
  <1>2. queue \in Seq(Events) /\ Len(queue) \in Nat BY NowIs, LenProperties
  <1>3. queue' \in Seq(Events) /\ Len(queue') = Len(queue) - 1 /\ \A i \in 1 .. Len(queue') : queue'[i] = queue[i + 1]
    BY <1>1, <1>2, HeadTailProperties
  <1>4. hand' = queue[1] /\ hand' \in Events /\ Len(queue) >= 1
    BY <1>1, <1>2, HeadTailProperties, EmptySeq
  <1>5. Pending' = queue
    <2> DEFINE p == PendOf("popped", hand', queue')
    <2>1. Pending' = p BY <1>1, PendingNext
    <2>2. Pends(p, "popped", hand', queue') BY <1>3, <1>4, PendIs
    <2> HIDE DEF p
    <2>3. Off("popped") = 1 BY DEF Off
    <2>4. p \in Seq(Events) /\ Len(p) = Len(queue) BY <1>2, <1>3, <2>2, <2>3 DEF Pends
    <2>5. ASSUME NEW j \in 1 .. Len(p) PROVE p[j] = queue[j]
      <3>1. CASE j = 1 BY <1>4, <2>2, <3>1 DEF Pends
      <3>2. CASE j > 1
        <4>1. j - 1 \in 1 .. Len(queue') /\ p[j] = queue'[j - 1] BY <2>2, <2>3, <3>2 DEF Pends
        <4>2. queue'[j - 1] = queue[(j - 1) + 1] /\ (j - 1) + 1 = j BY <1>3, <4>1
        <4> QED BY <4>1, <4>2
      <3> QED BY <1>2, <2>4, <3>1, <3>2
    <2> QED BY <1>2, <2>1, <2>4, <2>5, SeqEqual
  <1>6. Pending = queue BY <1>1, <1>2 DEF Pending
  <1>7. Ordered(Pending', card') BY <1>1, <1>5, <1>6 DEF History
  <1>8. QueueOnce'
    <2>1. subscribed' BY <1>1 DEF History, QueueOnce
    <2>2. Once(queue) BY DEF History, QueueOnce
    <2>3. ASSUME NEW i \in 1 .. Len(queue'), NEW j \in 1 .. Len(queue'), queue'[i].h = queue'[j].h PROVE i = j
      <3>1. /\ i + 1 \in 1 .. Len(queue) /\ j + 1 \in 1 .. Len(queue)
            /\ queue[i + 1].h = queue'[i].h /\ queue[j + 1].h = queue'[j].h
        BY <1>2, <1>3
      <3>2. i + 1 = j + 1 BY <2>2, <2>3, <3>1 DEF Once
      <3> QED BY <1>2, <1>3, <3>2
    <2>4. Once(queue') BY <2>3 DEF Once
    <2> QED BY <2>1, <2>4 DEF QueueOnce
  <1>9. Caches' = Caches BY <1>1, SameCaches DEF library
  <1>10. ASSUME Following', NEW c \in Controls \ missed' PROVE Follows(Caches', Pending', card', unseen', c)
    BY <1>1, <1>5, <1>6, <1>9 DEF History, Following
  <1> QED BY <1>7, <1>8, <1>10 DEF History

(* The event in hand is handled.                                           *)
LEMMA HandTakes ==
  ASSUME MixerInv, History, phase = "popped", NEW x, Handled(Now, x, hand), ~x.abort, Becomes(x),
         NEW c \in Controls \ missed
  PROVE  Takes(Caches, hand, Caches', c)
  <1>1. /\ \A g : g \in Caches <=> Cached(Now, g)
        /\ \A g : g \in Caches' <=> Cached(x, g)
    <2>1. \A g : Cached(Now, g)' <=> Cached(x, g) BY BecomesCached
    <2>2. (Now.elems)' = elems' BY DEF Now
    <2>3. \A g : g \in Caches' <=> Cached(Now, g)' BY <2>2 DEF Caches, Cached
    <2> QED BY <2>1, <2>3, CachesIs
  <1>2. ~Now.err BY NowIs
  <1> SUFFICES ASSUME NEW g, g[1] = c
               PROVE  g \in Caches' <=> \/ g \in Caches /\ ~(Removes(hand) /\ g = hand.h)
                                        \/ Adds(hand) /\ g = hand.h
    BY DEF Takes
  <1>3. CASE Removes(hand)
    <2>1. \A i : Cached(x, i) <=> Cached(Now, i) /\ Key(i) # Key(hand.h) BY <1>3 DEF Handled, Removes
    <2>2. ASSUME g \in Caches, g # hand.h PROVE Key(g) # Key(hand.h)
      <3>1. g \in Known /\ hand.h \in Known /\ hand.h \in RealHandles /\ g \in RealHandles BY <2>2, CachesIs, HandIs
      <3>2. CASE compare = "default"
        <4>1. Follows(Caches, Pending, card, unseen, c) BY DEF History, Following
        <4>2. /\ Pending[1] = hand /\ 1 \in 1 .. Len(Pending)
          <5>1. Pends(Pending, phase, hand, queue) BY PendingIs, PendIs
          <5> QED BY <5>1 DEF Pends, Off
        <4>3. SUFFICES ASSUME hand.h[1] = c PROVE FALSE BY <3>2 DEF Key, Place
        <4>4. Dropped(Pending, g, 1) BY <2>2, <4>1, <4>2, <4>3 DEF Follows, Cares
        <4> QED BY <4>4 DEF Dropped
      <3>3. CASE compare = "fast"
        <4>1. g[2] # hand.h[2] BY <2>2, <3>1 DEF MixerInv, NumbersOnce
        <4> QED BY <3>3, <4>1 DEF Key, Place
      <3> QED BY <3>2, <3>3 DEF MixerInv, PhaseOK
    <2>3. ~Adds(hand) BY <1>3 DEF Adds, Removes
    <2> QED BY <1>1, <1>3, <2>1, <2>2, <2>3
  <1>4. CASE Adds(hand)
    <2>1. \A i : Cached(x, i) <=> Cached(Now, i) \/ i = hand.h BY <1>2, <1>4 DEF Handled, Adds
    <2>2. ~Removes(hand) BY <1>4 DEF Adds, Removes
    <2> QED BY <1>1, <1>4, <2>1, <2>2
  <1>5. CASE ~Removes(hand) /\ ~Adds(hand)
    <2>1. \A i : Cached(x, i) <=> Cached(Now, i) BY <1>5 DEF Handled, Adds, Removes
    <2> QED BY <1>1, <1>5, <2>1
  <1> QED BY <1>3, <1>4, <1>5

(* An event is handled, and the cache takes it in.                         *)
LEMMA HandlePoppedHistory == ASSUME MixerInv, History, HandlePopped PROVE History'
  <1> DEFINE x == HandleEvent(Now, hand)
             p == Pending
  <1>1. /\ phase = "popped" /\ Becomes(x) /\ phase' = IF x.abort THEN "dead" ELSE "idle"
        /\ UNCHANGED <<kernel, missed, unseen>>
    BY DEF HandlePopped
  <1>2. Handled(Now, x, hand) BY HandlePoppedKeeps
  <1> HIDE DEF x
  <1>3. queue \in Seq(Events) /\ hand \in Events /\ p = PendOf("popped", hand, queue) BY <1>1, PendingIs
  <1>4. Shifts(p, queue) /\ p[1] = hand BY <1>3, ShiftsPends
  <1>5. Pending' = queue
    <2>1. Pending' = <<>> \o queue' BY <1>1 DEF Pending
    <2> QED BY <1>1, <1>3, <2>1, ConcatEmptySeq DEF kernel
  <1>6. Ordered(p, card) BY DEF History
  <1>7. Ordered(queue, card) BY <1>4, <1>6, ShiftsOrdered
  <1>8. QueueOnce' BY <1>1 DEF History, QueueOnce, kernel
  <1>9. ASSUME Following', NEW c \in Controls \ missed PROVE Follows(Caches', queue, card, unseen, c)
    <2>1. ~x.abort BY <1>1, <1>9 DEF Following
    <2>2. Takes(Caches, p[1], Caches', c) BY <1>1, <1>2, <1>4, <2>1, HandTakes
    <2>3. Follows(Caches, p, card, unseen, c) BY <1>1 DEF History, Following
    <2>4. Caches \subseteq RealHandles BY CachesIs
    <2> HIDE DEF p
    <2> QED BY <1>4, <1>6, <2>2, <2>3, <2>4, ShiftsFollows
  <1>10. Ordered(Pending', card') BY <1>1, <1>5, <1>7 DEF kernel
  <1>11. ASSUME Following', NEW c \in Controls \ missed' PROVE Follows(Caches', Pending', card', unseen', c)
    BY <1>1, <1>5, <1>9, <1>11 DEF kernel
  <1> QED BY <1>8, <1>10, <1>11 DEF History

(* The controls are listed: what is queued has been missed.                *)
LEMMA LoadListHistory == ASSUME MixerInv, History, LoadList PROVE History'
  <1>1. /\ phase = "new" /\ phase' = "listed"
        /\ missed' = {queue[i].h[1] : i \in {j \in DOMAIN queue : "ADD" \in queue[j].mask}}
        /\ UNCHANGED <<card, queue, subscribed, unseen>>
    BY DEF LoadList, kernel
  <1>2. queue \in Seq(Events) /\ Len(queue) \in Nat /\ DOMAIN queue = 1 .. Len(queue) BY NowIs, LenProperties
  <1>3. Pending = queue /\ Pending' = queue BY <1>1, <1>2 DEF Pending
  <1>4. Ordered(queue, card) BY <1>3 DEF History
  <1>5. QueueOnce' BY <1>1 DEF History, QueueOnce
  <1>6. \A g : g \in Caches' <=> \E d \in Controls : Present(d) /\ g = Handle(d)
    <2>1. (Now.elems)' = elems' BY DEF Now
    <2>2. \A g : g \in Caches' <=> Cached(Now, g)' BY <2>1 DEF Caches, Cached
    <2> QED BY <2>2, LoadListKeeps
  <1>7. ASSUME NEW c \in Controls \ missed' PROVE Follows(Caches', queue, card, unseen, c)
    <2>1. ASSUME NEW i \in 1 .. Len(queue), queue[i].h[1] = c PROVE "ADD" \notin queue[i].mask
      BY <1>1, <1>2, <1>7, <2>1
    <2>2. ASSUME NEW i \in 1 .. Len(queue), queue[i].h[1] = c PROVE ~Adds(queue[i]) /\ ~Removes(queue[i])
      <3>1. "ADD" \in REMOVE BY DEF REMOVE
      <3> QED BY <2>1, <2>2, <3>1 DEF Adds, Removes
    <2>3. ASSUME NEW i \in 1 .. Len(queue), queue[i].h[1] = c PROVE queue[i].h = Here(card, c)
      <3>1. queue[i].h \in RealHandles BY <1>2, EventIs
      <3>2. SUFFICES ASSUME Gone(card, queue[i].h) PROVE FALSE BY <2>3, <3>1, GoneIs
      <3>3. Dropped(queue, queue[i].h, Len(queue) + 1) BY <1>4, <3>2 DEF Ordered, OrderedAt
      <3>4. PICK j \in 1 .. Len(queue) : queue[j].h = queue[i].h /\ Removes(queue[j]) BY <3>3 DEF Dropped
      <3> QED BY <2>2, <2>3, <3>4
    <2>4. ASSUME NEW g \in Caches', g[1] = c PROVE g = Here(card, c) /\ ~Gone(card, g)
      <3>1. PICK d \in Controls : Present(d) /\ g = Handle(d) BY <1>6
      <3>2. d = c BY <2>4, <3>1 DEF Handle
      <3> QED BY <3>1, <3>2, HereIs, HandleIs
    <2>5. card[c].numid # 0 => Here(card, c) \in Caches' BY <1>6, HereIs
    <2>6. Cares(Caches', queue, card, c) BY <2>3, <2>4, <2>5 DEF Cares
    <2>7. Reaches(Caches', queue, unseen, c) BY <2>2 DEF Reaches
    <2> QED BY <2>6, <2>7 DEF Follows
  <1> QED BY <1>1, <1>3, <1>4, <1>5, <1>7 DEF History

(* A note leaves each control once in the queue.                           *)
LEMMA NotedOnce ==
  ASSUME NEW q \in Seq(Events), NEW h, NEW mask, NEW r, NotedAs(q, h, mask, r), Once(q)
  PROVE  Once(r)
  <1>1. r \in Seq(Events) /\ Len(q) \in Nat /\ Len(r) \in Nat BY LenProperties DEF NotedAs
  <1>2. CASE ~subscribed BY <1>2 DEF NotedAs
  <1>3. CASE subscribed
    <2>1. CASE In(q, h)
      <3>1. Len(r) = Len(q) /\ \A i \in 1 .. Len(q) : r[i].h = q[i].h BY <1>3, <2>1 DEF NotedAs
      <3> QED BY <3>1 DEF Once
    <2>2. CASE ~In(q, h)
      <3>1. /\ Len(r) = Len(q) + 1 /\ r[Len(q) + 1].h = h
            /\ \A i \in 1 .. Len(q) : r[i].h = q[i].h /\ q[i].h # h
        <4>1. Len(r) = Len(q) + 1 /\ r[Len(q) + 1] = [h |-> h, mask |-> mask] BY <1>3, <2>2 DEF NotedAs
        <4>2. \A i \in 1 .. Len(q) : r[i].h = q[i].h BY <1>3 DEF NotedAs
        <4>3. r[Len(q) + 1].h = h BY <4>1
        <4> QED BY <2>2, <4>1, <4>2, <4>3 DEF In
      <3> QED BY <1>1, <3>1 DEF Once
    <2> QED BY <2>1, <2>2
  <1> QED BY <1>2, <1>3

(* A change of the card that nobody is told of.                            *)
LEMMA UntoldHistory ==
  ASSUME MixerInv, History, ~subscribed, NEW c \in Controls, UNCHANGED <<subscribed, phase, hand, elems, queue>>,
         missed' = IF Loading THEN missed \union {c} ELSE missed, unseen \subseteq unseen',
         \A d \in Controls : d # c => card'[d].numid = card[d].numid
  PROVE  History'
  <1>1. queue = <<>> /\ phase \notin {"idle", "popped"} BY DEF History, QueueOnce
  <1>2. Pending = <<>> /\ Pending' = <<>>
    <2>1. Pending = <<>> \o queue /\ Pending' = <<>> \o queue' BY <1>1 DEF Pending
    <2> QED BY <1>1, <2>1, EmptySeq, ConcatEmptySeq
  <1>3. Ordered(Pending', card') BY <1>2, EmptySeq DEF Ordered
  <1>4. ASSUME Following', NEW d \in Controls \ missed' PROVE Follows(Caches', Pending', card', unseen', d)
    <2>1. Following /\ d \notin missed /\ d # c BY <1>1, <1>4 DEF Following, Loading
    <2>2. Follows(Caches, Pending, card, unseen, d) BY <2>1 DEF History
    <2>3. card'[d].numid = card[d].numid BY <2>1
    <2>4. Caches \subseteq RealHandles BY CachesIs
    <2>5. Follows(Caches, Pending, card', unseen', d) BY <2>2, <2>3, <2>4, SameFollows
    <2> QED BY <1>2, <2>5, SameCaches
  <1>5. QueueOnce' BY DEF History, QueueOnce
  <1> QED BY <1>3, <1>4, <1>5 DEF History

(* A control comes.                                                        *)
LEMMA KAddHistory == ASSUME MixerInv, History, NEW c \in Controls, NEW v \in Values, KAdd(c, v) PROVE History'
  <1> DEFINE new == <<c, fresh>>
             p == Pending
             r == Pending'
  <1>1. /\ changes < MaxChanges /\ ~Present(c) /\ card' = [card EXCEPT ![c] = [numid |-> fresh, value |-> v]]
        /\ queue' = Noted(queue, <<c, card'[c].numid>>, {"ADD"})
        /\ missed' = IF ~subscribed /\ phase \in {"listed", "filled"} THEN missed \union {c} ELSE missed
        /\ UNCHANGED <<subscribed, library, phase, hand, unseen>>
    BY DEF KAdd, Changed, MayChange
  <1>2. card \in Cards /\ queue \in Seq(Events) BY NowIs
  <1>3. new \in RealHandles /\ fresh \in Nat \ {0} /\ \A h \in Known : h # new
    BY <1>1, FreshIs
  <1>4. card'[c].numid = fresh /\ \A d \in Controls : d # c => card'[d].numid = card[d].numid
    BY <1>1, <1>2, <1>3 DEF Cards
  <1>5. NotedAs(queue, new, {"ADD"}, queue')
    <2>1. {"ADD"} \in SUBSET REMOVE BY DEF REMOVE
    <2>2. queue' = Noted(queue, new, {"ADD"}) BY <1>1, <1>4
    <2> QED BY <1>2, <1>3, <2>1, <2>2, NotedIs
  <1>6. Gains(card, card', c) /\ Here(card', c) = new BY <1>1, <1>3, <1>4 DEF Gains, Present, Here
  <1> HIDE DEF new
  <1>7. CASE ~subscribed
    <2>1. queue' = queue BY <1>5, <1>7 DEF NotedAs
    <2>2. missed' = IF Loading THEN missed \union {c} ELSE missed BY <1>1, <1>7 DEF Loading
    <2> QED BY <1>1, <1>4, <1>7, <2>1, <2>2, UntoldHistory DEF library
  <1>8. CASE subscribed
    <2>1. ~In(queue, new) BY <1>3, KnownCached
    <2>2. phase = "popped" => hand \in Events /\ hand.h # new BY <1>3, PendingIs, HandIs
    <2>3. p = PendOf(phase, hand, queue) /\ r = PendOf(phase, hand, queue') BY <1>1, PendingIs, PendingNext
    <2>4. Joins(p, r, Here(card', c))
      <3> HIDE DEF p, r
      <3> QED BY <1>2, <1>5, <1>6, <1>8, <2>1, <2>2, <2>3, JoinsPends
    <2>5. Ordered(p, card) BY DEF History
    <2>6. Ordered(r, card')
      <3> HIDE DEF p, r
      <3> QED BY <1>6, <2>4, <2>5, JoinsOrdered
    <2>7. Caches \subseteq RealHandles /\ Here(card', c) \notin Caches BY <1>3, <1>6, CachesIs
    <2>8. ASSUME Following', NEW d \in Controls \ missed' PROVE Follows(Caches', r, card', unseen', d)
      <3>1. Follows(Caches, p, card, unseen, d) BY <1>1, <1>8, <2>8 DEF History, Following
      <3>2. Follows(Caches, r, card', unseen, d)
        <4> HIDE DEF p, r
        <4> QED BY <1>6, <2>4, <2>7, <3>1, JoinsFollows
      <3>3. Caches' = Caches BY <1>1, SameCaches DEF library
      <3> QED BY <1>1, <3>2, <3>3
    <2>9. QueueOnce'
      <3>1. Once(queue') BY <1>2, <1>5, NotedOnce DEF History, QueueOnce
      <3> QED BY <1>1, <1>8, <3>1 DEF QueueOnce
    <2> QED BY <2>6, <2>8, <2>9 DEF History
  <1> QED BY <1>7, <1>8

(* A control goes.                                                         *)
LEMMA KRemoveHistory == ASSUME MixerInv, History, NEW c \in Controls, KRemove(c) PROVE History'
  <1> DEFINE old == Handle(c)
             p == Pending
             r == Pending'
  <1>1. /\ Present(c) /\ card' = [card EXCEPT ![c] = [numid |-> 0, value |-> 0]]
        /\ queue' = Noted(queue, old, REMOVE)
        /\ missed' = IF ~subscribed /\ Loading THEN missed \union {c} ELSE missed
        /\ unseen' = IF \E i \in DOMAIN queue : queue[i].h = old /\ "ADD" \in queue[i].mask
                     THEN unseen \union {old} ELSE unseen
        /\ UNCHANGED <<subscribed, library, phase, hand>>
    BY DEF KRemove
  <1>2. card \in Cards /\ queue \in Seq(Events) /\ Len(queue) \in Nat /\ DOMAIN queue = 1 .. Len(queue)
    BY NowIs, LenProperties
  <1>3. old \in RealHandles BY <1>1, HandleIs
  <1>4. card'[c].numid = 0 /\ \A d \in Controls : d # c => card'[d].numid = card[d].numid BY <1>1, <1>2 DEF Cards
  <1>6. Loses(card, card', c) /\ Here(card, c) = old BY <1>1, <1>4, HereIs DEF Loses
  <1> HIDE DEF old
  <1>5. NotedAs(queue, old, REMOVE, queue') BY <1>1, <1>2, <1>3, NotedIs
  <1>7. CASE ~subscribed
    <2>1. queue' = queue BY <1>5, <1>7 DEF NotedAs
    <2>2. missed' = (IF Loading THEN missed \union {c} ELSE missed) /\ unseen \subseteq unseen' BY <1>1, <1>7
    <2> QED BY <1>1, <1>4, <1>7, <2>1, <2>2, UntoldHistory DEF library
  <1>8. CASE subscribed
    <2>2. phase = "popped" => hand \in Events BY PendingIs
    <2>3. p = PendOf(phase, hand, queue) /\ r = PendOf(phase, hand, queue') BY <1>1, PendingIs, PendingNext
    <2>q. Once(queue) BY DEF History, QueueOnce
    <2>o. Ordered(p, card) BY DEF History
    <2>f. ASSUME Following', NEW d \in Controls \ missed' PROVE Follows(Caches, p, card, unseen, d)
      BY <1>1, <1>8, <2>f DEF History, Following
    <2> HIDE DEF p, r
    <2>4. PICK m : /\ Leaves(p, r, Here(card, c), m) /\ m > Off(phase)
                   /\ \A j \in 1 .. Len(queue) : queue[j].h = old => j + Off(phase) = m
      BY <1>2, <1>5, <1>6, <1>8, <2>2, <2>3, <2>q, LeavesPends
    <2>6. Ordered(r, card') BY <1>6, <2>4, <2>o, LeavesOrdered
    <2>7. Caches \subseteq RealHandles /\ unseen \subseteq unseen' BY <1>1, CachesIs
    <2>8. ASSUME Added(p, old, Len(p) + 1), old \notin unseen' PROVE Added(r, old, m)
      <3>1. PICK j \in 1 .. Len(p) : p[j].h = old /\ Adds(p[j]) BY <2>8 DEF Added
      <3>2. Pends(p, phase, hand, queue) BY <1>2, <2>2, <2>3, PendIs
      <3>3. CASE j > Off(phase)
        <4>1. j - Off(phase) \in 1 .. Len(queue) /\ p[j] = queue[j - Off(phase)] BY <3>2, <3>3 DEF Pends
        <4>2. queue[j - Off(phase)].h = old /\ "ADD" \in queue[j - Off(phase)].mask BY <3>1, <4>1 DEF Adds
        <4>3. old \in unseen' BY <1>1, <1>2, <4>1, <4>2
        <4> QED BY <2>8, <4>3
      <3>4. CASE ~(j > Off(phase))
        <4>0. Len(p) \in Nat /\ Len(r) \in Nat /\ Off(phase) \in {0, 1} BY <2>4, <3>2, LenProperties DEF Pends, Leaves
        <4>1. j = 1 /\ Off(phase) = 1 BY <3>4, <4>0
        <4>2. m \in 1 .. Len(r) /\ j < m /\ j \in 1 .. Len(r) BY <2>4, <4>0, <4>1 DEF Leaves
        <4>3. r[j] = p[j] BY <2>4, <4>2 DEF Leaves
        <4> QED BY <3>1, <4>2, <4>3 DEF Added
      <3> QED BY <3>3, <3>4
    <2>9. ASSUME Following', NEW d \in Controls \ missed' PROVE Follows(Caches', r, card', unseen', d)
      <3>1. Follows(Caches, p, card, unseen, d) BY <2>9, <2>f
      <3>2. Added(p, Here(card, c), Len(p) + 1) /\ Here(card, c) \notin unseen' => Added(r, Here(card, c), m)
        BY <1>6, <2>8
      <3>3. Follows(Caches, r, card', unseen', d) BY <1>6, <2>4, <2>o, <2>7, <3>1, <3>2, LeavesFollows
      <3>4. Caches' = Caches BY <1>1, SameCaches DEF library
      <3> QED BY <3>3, <3>4
    <2>10. QueueOnce'
      <3>1. Once(queue') BY <1>2, <1>5, <2>q, NotedOnce
      <3> QED BY <1>1, <1>8, <3>1 DEF QueueOnce
    <2> QED BY <2>6, <2>9, <2>10 DEF History, r
  <1> QED BY <1>7, <1>8

(* So every step keeps the history.                                        *)
LEMMA NextHistory == ASSUME MixerInv, History, [Next]_vars PROVE History'
  <1>1. ASSUME NEW c \in Controls, KRemove(c) PROVE History' BY <1>1, KRemoveHistory
  <1>2. ASSUME NEW c \in Controls, KInfo(c) PROVE History' BY <1>2, KInfoHistory
  <1>3. ASSUME NEW c \in Controls, NEW v \in Values, KAdd(c, v) PROVE History' BY <1>3, KAddHistory
  <1>4. ASSUME NEW c \in Controls, NEW v \in Values, KWrite(c, v) PROVE History' BY <1>4, KWriteHistory
  <1>5. CASE Register BY <1>5, RegisterHistory
  <1>6. CASE LoadList BY <1>6, LoadListHistory
  <1>7. CASE LoadFill BY <1>7, LoadFillHistory
  <1>8. CASE Subscribe BY <1>8, SubscribeHistory
  <1>9. CASE Pop BY <1>9, PopHistory
  <1>10. CASE HandlePopped BY <1>10, HandlePoppedHistory
  <1>11. CASE SetSomething
    <2>1. PICK n \in Names : SetAny(n) BY <1>11 DEF SetSomething
    <2>2. Exists(Now, n) /\ \E s \in Selems : \E saw \in Views : SameControls(Elem(Now, n), s) /\ Saw(n, s, saw) /\ Set(n, s, saw)
      BY <2>1, SetAnyIs
    <2> QED BY <2>2, SetHistory
  <1>12. CASE SetCompare BY <1>12, SetCompareHistory
  <1>13. CASE Unload BY <1>13, UnloadHistory
  <1>14. CASE Close BY <1>14, CloseHistory
  <1>15. CASE UNCHANGED vars BY <1>15, StutterHistory
  <1> QED BY <1>1, <1>2, <1>3, <1>4, <1>5, <1>6, <1>7, <1>8, <1>9, <1>10, <1>11, <1>12, <1>13, <1>14, <1>15, NextIs

(* The events pending and the cache together account for every control     *)
(* that did not come or go before the subscription.                        *)
THEOREM HistoryHolds == Spec => []History
  <1>1. Init => MixerInv /\ History BY InitInv, InitHistory
  <1>2. MixerInv /\ History /\ [Next]_vars => MixerInv' /\ History' BY NextInv, NextHistory
  <1> QED BY <1>1, <1>2, PTL DEF Spec

------------------------------------------------------------------------------
(* What the cache holds once the pending events are handled.               *)
AfterOp(p, hs, ev) ==
  CASE ev.mask = REMOVE -> hs \ {ev.h}
    [] ev.mask # REMOVE /\ "ADD" \in ev.mask -> hs \union {ev.h}
    [] OTHER -> hs
AfterInv(p, hs, i) ==
  \A h : h \in hs <=> (h \in p.hs \/ Added(p.evs, h, i + 1)) /\ ~Dropped(p.evs, h, i + 1)
AfterFold == INSTANCE FoldInduction WITH Op <- AfterOp, Inv <- AfterInv

Then(hs, evs) ==
  LET after(ks, ev) ==
        CASE ev.mask = REMOVE -> ks \ {ev.h}
          [] ev.mask # REMOVE /\ "ADD" \in ev.mask -> ks \union {ev.h}
          [] OTHER -> ks
  IN  FoldLeft(after, hs, evs)

(* What the cache holds once events in order are handled.                  *)
LEMMA ThenIs ==
  ASSUME NEW hs, NEW evs \in Seq(Events), NEW k, Ordered(evs, k)
  PROVE  \A h : h \in Then(hs, evs) <=> (h \in hs \/ Added(evs, h, Len(evs) + 1)) /\ ~Dropped(evs, h, Len(evs) + 1)
  <1> DEFINE p == [hs |-> hs, evs |-> evs]
             f == AfterFold!Left(p, hs, evs)
  <1>1. p.hs = hs /\ p.evs = evs OBVIOUS
  <1> HIDE DEF p
  <1>2. Then(hs, evs) = f
    BY Zenon DEF Then, AfterOp, FoldLeft, MapThenFoldSet, AfterFold!Left, AfterFold!Last, Max
  <1> HIDE DEF f
  <1>0. Len(evs) \in Nat BY LenProperties
  <1>3. AfterInv(p, hs, 0)
    <2>1. \A h : ~Added(evs, h, 0 + 1) /\ ~Dropped(evs, h, 0 + 1) BY DEF Added, Dropped
    <2> QED BY <1>1, <2>1 DEF AfterInv
  <1>4. ASSUME NEW i \in 1 .. Len(evs), NEW z, AfterInv(p, z, i - 1)
        PROVE  AfterInv(p, AfterOp(p, z, evs[i]), i)
    <2> DEFINE y == AfterOp(p, z, evs[i])
    <2> SUFFICES ASSUME NEW h PROVE h \in y <=> (h \in hs \/ Added(evs, h, i + 1)) /\ ~Dropped(evs, h, i + 1)
      BY <1>1, Zenon DEF AfterInv
    <2>1. h \in z <=> (h \in hs \/ Added(evs, h, i)) /\ ~Dropped(evs, h, i)
      <3>1. (i - 1) + 1 = i OBVIOUS
      <3> QED BY <1>1, <1>4, <3>1 DEF AfterInv
    <2>0. \A j \in 1 .. Len(evs) : j < i + 1 <=> j < i \/ j = i BY <1>0
    <2>2. Added(evs, h, i + 1) <=> Added(evs, h, i) \/ (h = evs[i].h /\ Adds(evs[i])) BY <2>0, Zenon DEF Added
    <2>3. Dropped(evs, h, i + 1) <=> Dropped(evs, h, i) \/ (h = evs[i].h /\ Removes(evs[i]))
      BY <2>0, Zenon DEF Dropped
    <2>4. CASE Removes(evs[i])
      <3>1. y = z \ {evs[i].h} BY <2>4 DEF AfterOp, Removes
      <3>2. ~Adds(evs[i]) BY <2>4 DEF Adds, Removes
      <3> HIDE DEF y
      <3> QED BY <2>1, <2>2, <2>3, <2>4, <3>1, <3>2
    <2>5. CASE Adds(evs[i])
      <3>1. y = z \union {evs[i].h} /\ ~Removes(evs[i]) BY <2>5 DEF AfterOp, Removes, Adds
      <3>2. ~Dropped(evs, evs[i].h, i)
        <4>1. OrderedAt(evs, k, i) BY DEF Ordered
        <4>2. \A j \in 1 .. i - 1 : Removes(evs[j]) => evs[j].h # evs[i].h BY <4>1 DEF OrderedAt
        <4>3. \A j \in 1 .. Len(evs) : j < i => j \in 1 .. i - 1 BY <1>0
        <4> QED BY <4>2, <4>3 DEF Dropped
      <3> HIDE DEF y
      <3> QED BY <2>1, <2>2, <2>3, <2>5, <3>1, <3>2
    <2>6. CASE ~Removes(evs[i]) /\ ~Adds(evs[i])
      <3>1. y = z BY <2>6 DEF AfterOp, Removes, Adds
      <3> HIDE DEF y
      <3> QED BY <2>1, <2>2, <2>3, <2>6, <3>1
    <2> QED BY <2>4, <2>5, <2>6
  <1>5. AfterInv(p, f, Len(evs)) BY <1>3, <1>4, AfterFold!LeftHolds, Zenon DEF f
  <1> QED BY <1>1, <1>2, <1>5, Zenon DEF AfterInv

(* The history says what the cache holds then.                             *)
LEMMA InvFollows == ASSUME MixerInv, History PROVE CacheFollows
  <1>1. StrictlySorted(Keys(elems)) /\ StrictlySorted(MixerNames(Now)) BY NowIs DEF Well
  <1>2. ASSUME phase \in {"idle", "popped"}, NEW c \in Controls \ missed
        PROVE  {h \in Then(Caches, Pending) : h[1] = c} = {Handle(d) : d \in {c} \cap Offered}
    <2> DEFINE p == Pending
               n == Len(Pending) + 1
    <2>0. p \in Seq(Events) /\ Ordered(p, card) BY PendingIs DEF History
    <2>1. \A h : h \in Then(Caches, p) <=> (h \in Caches \/ Added(p, h, n)) /\ ~Dropped(p, h, n) BY <2>0, ThenIs
    <2>2. Cares(Caches, p, card, c) BY <1>2 DEF History, Following, Follows
    <2>3. Present(c) => Handle(c) \in Then(Caches, p)
      <3> SUFFICES ASSUME Present(c) PROVE Handle(c) \in Then(Caches, p) OBVIOUS
      <3>1. Handle(c) \in Caches \/ Added(p, Handle(c), n) BY <2>2, HereIs DEF Cares
      <3>2. SUFFICES ASSUME Dropped(p, Handle(c), n) PROVE FALSE BY <2>1, <3>1
      <3>3. PICK j \in 1 .. Len(p) : p[j].h = Handle(c) /\ Removes(p[j]) BY <3>2 DEF Dropped
      <3>4. Gone(card, Handle(c)) BY <2>0, <3>3 DEF Ordered, OrderedAt
      <3> QED BY <3>4, HandleIs
    <2>4. ASSUME NEW h \in Then(Caches, p), h[1] = c PROVE h = Handle(c) /\ Present(c)
      <3>1. (h \in Caches \/ Added(p, h, n)) /\ ~Dropped(p, h, n) BY <2>1, <2>4
      <3>2. h \in RealHandles /\ ~Gone(card, h)
        <4>1. CASE h \in Caches
          <5>1. h \in RealHandles BY <4>1, CachesIs
          <5> QED BY <2>2, <2>4, <3>1, <4>1, <5>1 DEF Cares
        <4>2. CASE Added(p, h, n)
          <5>1. PICK j \in 1 .. Len(p) : p[j].h = h BY <4>2 DEF Added
          <5>2. p[j].h \in RealHandles BY <2>0, EventIs
          <5>3. Gone(card, p[j].h) => Dropped(p, p[j].h, n) BY <2>0 DEF Ordered, OrderedAt
          <5> QED BY <3>1, <5>1, <5>2, <5>3
        <4> QED BY <3>1, <4>1, <4>2
      <3>3. h = Here(card, c) BY <2>4, <3>2, GoneIs
      <3>4. h[2] \in Nat \ {0} /\ h[2] = card[c].numid BY <3>2, <3>3, HandlesInt DEF Here
      <3> QED BY <3>3, <3>4, HereIs
    <2>5. \A h : h \in {Handle(d) : d \in {c} \cap Offered} <=> Present(c) /\ h = Handle(c) BY DEF Offered
    <2>6. Handle(c)[1] = c BY DEF Handle
    <2> HIDE DEF p
    <2>7. \A h : h \in {g \in Then(Caches, p) : g[1] = c} <=> Present(c) /\ h = Handle(c) BY <2>3, <2>4, <2>6
    <2>8. {g \in Then(Caches, p) : g[1] = c} = {Handle(d) : d \in {c} \cap Offered} BY <2>5, <2>7, Zenon
    <2> QED BY <2>8 DEF p
  <1> QED BY <1>1, <1>2, Zenon DEF CacheFollows, Then, Caches

(* The cache is strictly sorted, and holds the card's controls under       *)
(* their present numbers once the pending events are handled               *)
(* (hcontrol.c:309, 730).                                                  *)
THEOREM CacheHolds == Spec => []CacheFollows
  <1>1. MixerInv /\ History => CacheFollows BY InvFollows
  <1> QED BY <1>1, MixerInvariant, HistoryHolds, PTL

------------------------------------------------------------------------------
(* Why an assertion ends the program.                                      *)
Source(h, k) == Control[h[1]].type = "CAPTURE_SOURCE" /\ Gone(k, h)

(* A capture source that is cached and gone is a race that is named.       *)
LEMMA SourceIn ==
  ASSUME NEW h \in Caches', Source(h, card')
  PROVE  AbortsOnlyRacing'
  <1>1. PICK e \in Range(elems') : e.h = h BY DEF Caches
  <1> QED BY <1>1 DEF AbortsOnlyRacing, Source

(* So is an element that is an enumeration it has not.                     *)
LEMMA MuteIn == ASSUME Mute(Now)' PROVE AbortsOnlyRacing'
  BY DEF Mute, Now, AbortsOnlyRacing

(* The same when nothing changed.                                          *)
LEMMA SourceSame ==
  ASSUME MixerInv, SourceGone(Now), card' = card, Caches' = Caches
  PROVE  AbortsOnlyRacing'
  <1>1. PICK g : Cached(Now, g) /\ Control[g[1]].type = "CAPTURE_SOURCE" /\ Gone(card, g) BY DEF SourceGone
  <1>2. g \in Caches' /\ Source(g, card') BY <1>1, CachesIs DEF Source
  <1> QED BY <1>2, SourceIn

(* Registering fails an assertion only so.                                 *)
LEMMA RegisterAborts == ASSUME MixerInv, Register PROVE AbortsOnlyRacing'
  <1>1. Caches' = Caches /\ (phase' = "dead" => SourceGone(Now) \/ Mute(Now)')
    BY RegisterKeeps, CachesIs, CachesNext
  <1>2. card' = card BY DEF Register, kernel
  <1>3. CASE phase' = "dead" BY <1>1, <1>2, <1>3, SourceSame, MuteIn
  <1>4. CASE phase' # "dead" BY <1>4 DEF AbortsOnlyRacing
  <1> QED BY <1>3, <1>4

(* The load, too.                                                          *)
LEMMA LoadFillAborts == ASSUME MixerInv, LoadFill PROVE AbortsOnlyRacing'
  <1>1. Caches' = Caches /\ (phase' = "dead" => SourceGone(Now) \/ Mute(Now)')
    BY LoadFillKeeps, CachesIs, CachesNext
  <1>2. card' = card BY DEF LoadFill, kernel
  <1>3. CASE phase' = "dead" BY <1>1, <1>2, <1>3, SourceSame, MuteIn
  <1>4. CASE phase' # "dead" BY <1>4 DEF AbortsOnlyRacing
  <1> QED BY <1>3, <1>4

(* Without a race, an event of a control that goes finds it, and one of a  *)
(* control that comes finds its place free.                                *)
LEMMA HandFinds ==
  ASSUME MixerInv, History, phase = "popped", missed = {}, unseen = {}
  PROVE  /\ Removes(hand) => SameKey(Now, hand.h)
         /\ Adds(hand) => ~SameKey(Now, hand.h)
  <1> DEFINE c == hand.h[1]
  <1>1. hand.h \in RealHandles /\ c \in Controls /\ hand.h \in Known BY HandIs, HandlesInt
  <1>2. Cares(Caches, Pending, card, c) /\ Reaches(Caches, Pending, unseen, c)
    BY <1>1 DEF History, Following, Follows
  <1>3. Pending[1] = hand /\ 1 \in 1 .. Len(Pending)
    <2>1. Pends(Pending, phase, hand, queue) BY PendingIs, PendIs
    <2> QED BY <2>1 DEF Pends, Off
  <1>4. \A h : ~Added(Pending, h, 1) /\ ~Dropped(Pending, h, 1) BY DEF Added, Dropped
  <1>5. /\ Adds(hand) => hand.h \notin Caches
        /\ Removes(hand) => hand.h \in Caches
    BY <1>2, <1>3, <1>4 DEF Reaches
  <1>6. ASSUME NEW g \in Caches, Key(g) = Key(hand.h) PROVE g = hand.h
    <2>1. g \in Known BY CachesIs
    <2>2. CASE compare = "default"
      <3>1. g[1] = c BY <1>6, <2>2 DEF Key, Place
      <3> QED BY <1>2, <1>3, <1>4, <3>1 DEF Cares
    <2>3. CASE compare = "fast"
      <3>1. g[2] = hand.h[2] BY <1>6, <2>3 DEF Key, Place
      <3> QED BY <1>1, <2>1, <3>1 DEF MixerInv, NumbersOnce
    <2> QED BY <2>2, <2>3 DEF MixerInv, PhaseOK
  <1> HIDE DEF c
  <1>7. SameKey(Now, hand.h) <=> hand.h \in Caches
    <2>1. SameKey(Now, hand.h) => hand.h \in Caches
      <3>1. SUFFICES ASSUME SameKey(Now, hand.h) PROVE hand.h \in Caches OBVIOUS
      <3>2. PICK g : Cached(Now, g) /\ Key(g) = Key(hand.h) BY <3>1 DEF SameKey
      <3> QED BY <1>6, <3>2, CachesIs
    <2>2. hand.h \in Caches => SameKey(Now, hand.h) BY CachesIs DEF SameKey
    <2> QED BY <2>1, <2>2
  <1> QED BY <1>5, <1>7

(* An event that is handled fails one only in the races named.             *)
LEMMA HandlePoppedAborts == ASSUME MixerInv, History, HandlePopped PROVE AbortsOnlyRacing'
  <1> DEFINE x == HandleEvent(Now, hand)
  <1>1. /\ phase = "popped" /\ Becomes(x) /\ phase' = IF x.abort THEN "dead" ELSE "idle"
        /\ UNCHANGED <<kernel, missed, unseen>>
    BY DEF HandlePopped
  <1>2. Handled(Now, x, hand) BY HandlePoppedKeeps
  <1> HIDE DEF x
  <1>a. Mute(x) => Mute(Now)' BY <1>1 DEF Mute, Becomes, Now
  <1>3. SUFFICES ASSUME x.abort, missed = {}, unseen = {}, ~Mute(x) PROVE AbortsOnlyRacing'
    BY <1>1, <1>a, MuteIn DEF AbortsOnlyRacing
  <1>4. /\ Removes(hand) => SameKey(Now, hand.h)
        /\ Adds(hand) => ~SameKey(Now, hand.h)
    BY <1>1, <1>3, HandFinds
  <1>5. ~Now.err /\ ~Now.abort BY NowIs
  <1>6. \A g : g \in Caches' <=> Cached(x, g)
    <2>1. \A g : Cached(Now, g)' <=> Cached(x, g) BY <1>1, BecomesCached
    <2>2. (Now.elems)' = elems' BY DEF Now
    <2> QED BY <2>1, <2>2 DEF Caches, Cached
  <1>7. ~Removes(hand) BY <1>2, <1>3, <1>4, <1>5 DEF Handled, Removes
  <1>8. CASE Adds(hand)
    <2>1. /\ \A g : Cached(x, g) <=> Cached(Now, g) \/ g = hand.h
          /\ \E g : /\ Cached(Now, g) \/ g = hand.h
                    /\ Control[g[1]].type = "CAPTURE_SOURCE" /\ Gone(card, g)
      BY <1>2, <1>3, <1>4, <1>5, <1>8 DEF Handled, Adds
    <2>2. PICK g : Cached(x, g) /\ Control[g[1]].type = "CAPTURE_SOURCE" /\ Gone(card, g) BY <2>1
    <2>3. g \in Caches' /\ Source(g, card') BY <1>1, <1>6, <2>2 DEF Source, kernel
    <2> QED BY <2>3, SourceIn
  <1>9. CASE ~Adds(hand)
    <2>1. (\A g : Cached(x, g) <=> Cached(Now, g)) /\ SourceGone(Now)
      BY <1>2, <1>3, <1>5, <1>7, <1>9 DEF Handled, Adds, Removes
    <2>2. Caches' = Caches BY <1>6, <2>1, CachesIs
    <2> QED BY <1>1, <2>1, <2>2, SourceSame DEF kernel
  <1> QED BY <1>8, <1>9

(* So does every step.                                                     *)
LEMMA NextAborts == ASSUME MixerInv, History, AbortsOnlyRacing, [Next]_vars PROVE AbortsOnlyRacing'
  <1>0. ASSUME phase \notin {"dead"}, UNCHANGED phase PROVE AbortsOnlyRacing' BY <1>0 DEF AbortsOnlyRacing
  <1>1. ASSUME NEW c \in Controls, KRemove(c) PROVE AbortsOnlyRacing' BY <1>0, <1>1 DEF KRemove, MayChange
  <1>2. ASSUME NEW c \in Controls, KInfo(c) PROVE AbortsOnlyRacing' BY <1>0, <1>2 DEF KInfo, MayChange, Changed
  <1>3. ASSUME NEW c \in Controls, NEW v \in Values, KAdd(c, v) PROVE AbortsOnlyRacing'
    BY <1>0, <1>3 DEF KAdd, MayChange, Changed
  <1>4. ASSUME NEW c \in Controls, NEW v \in Values, KWrite(c, v) PROVE AbortsOnlyRacing'
    BY <1>0, <1>4 DEF KWrite, MayChange, Changed
  <1>5. CASE Register BY <1>5, RegisterAborts
  <1>6. CASE LoadList
    <2>1. phase' = "listed" BY <1>6 DEF LoadList
    <2> QED BY <2>1 DEF AbortsOnlyRacing
  <1>7. CASE LoadFill BY <1>7, LoadFillAborts
  <1>8. CASE Subscribe
    <2>1. phase' = "idle" BY <1>8 DEF Subscribe
    <2> QED BY <2>1 DEF AbortsOnlyRacing
  <1>9. CASE Pop
    <2>1. phase' = "popped" BY <1>9 DEF Pop
    <2> QED BY <2>1 DEF AbortsOnlyRacing
  <1>10. CASE HandlePopped BY <1>10, HandlePoppedAborts
  <1>11. CASE SetSomething
    <2>1. PICK n \in Names : SetAny(n) BY <1>11 DEF SetSomething
    <2>2. Exists(Now, n) /\ \E s \in Selems : \E saw \in Views : SameControls(Elem(Now, n), s) /\ Saw(n, s, saw) /\ Set(n, s, saw)
      BY <2>1, SetAnyIs
    <2>3. phase = "idle" /\ phase' \in {"idle", "dead"} /\ (phase' = "dead" => Mute(Now)') BY <2>2, SetKeeps
    <2> QED BY <1>0, <2>3, MuteIn
  <1>12. CASE SetCompare
    <2>1. phase = "idle" /\ UNCHANGED phase BY <1>12 DEF SetCompare
    <2> QED BY <1>0, <2>1
  <1>13. CASE Unload
    <2>1. phase' = "new" BY <1>13, UnloadKeeps
    <2> QED BY <2>1 DEF AbortsOnlyRacing
  <1>14. CASE Close
    <2>1. phase' = "closed" BY <1>14, CloseKeeps
    <2> QED BY <2>1 DEF AbortsOnlyRacing
  <1>15. CASE UNCHANGED vars
    <2>1. UNCHANGED <<phase, missed, unseen, elems, mixer, card>> BY <1>15 DEF vars, kernel, library
    <2> QED BY <2>1 DEF AbortsOnlyRacing
  <1> QED BY <1>1, <1>2, <1>3, <1>4, <1>5, <1>6, <1>7, <1>8, <1>9, <1>10, <1>11, <1>12, <1>13, <1>14, <1>15, NextIs

(* No assertion of the handlers (hcontrol.c:355, 744, 823,                 *)
(* simple_none.c:1615) ends the program but by the three races, or with an *)
(* element that has an enumeration for each direction and none for both.   *)
THEOREM AbortsHold == Spec => []AbortsOnlyRacing
  <1>1. Init => MixerInv /\ History /\ AbortsOnlyRacing
    <2>1. Init => AbortsOnlyRacing BY DEF Init, AbortsOnlyRacing
    <2> QED BY <2>1, InitInv, InitHistory
  <1>2. MixerInv /\ History /\ AbortsOnlyRacing /\ [Next]_vars => MixerInv' /\ History' /\ AbortsOnlyRacing'
    BY NextInv, NextHistory, NextAborts
  <1> QED BY <1>1, <1>2, PTL DEF Spec
===============================================================================
