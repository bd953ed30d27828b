---------------------------- MODULE FoldInduction -----------------------------
(***************************************************************************)
(* Induction, for the modules that fold an operator over a sequence: what  *)
(* an instance proves of each step of a fold holds of its result.  The     *)
(* provers cannot take an operator as the argument of a theorem, so the    *)
(* operator and the invariant are constants here, and a module that needs  *)
(* them makes an instance for each.                                        *)
(***************************************************************************)
EXTENDS Integers, Sequences, TLAPS, WellFoundedInduction

CONSTANTS
  Op(_, _, _),   (* What a step makes of p, the value so far and an element.*)
  Inv(_, _, _)   (* What holds of p and the value after so many elements.  *)

(* Of FoldLeft and FoldRight (SequencesExt), the definitions: the elements *)
(* are taken from the last to the first of the domain, so that the first   *)
(* is the innermost; and the other way around.                             *)
Last(s) == CHOOSE i \in s : \A j \in s : i >= j
First(s) == CHOOSE i \in s : \A j \in s : i =< j

Left(p, x, seq) ==
  LET it == CHOOSE g : g = [s \in SUBSET DOMAIN seq |->
                              IF s = {} THEN x ELSE Op(p, g[s \ {Last(s)}], seq[Last(s)])]
  IN  it[DOMAIN seq]

Right(p, seq, x) ==
  LET it == CHOOSE g : g = [s \in SUBSET DOMAIN seq |->
                              IF s = {} THEN x ELSE Op(p, g[s \ {First(s)}], seq[First(s)])]
  IN  it[DOMAIN seq]

------------------------------------------------------------------------------
(* A set of naturals with a member has a least one.                        *)
LEMMA Least ==
  ASSUME NEW T, T \subseteq Nat, T # {}
  PROVE  \E x \in T : \A y \in T : x <= y
  <1> DEFINE R == {ss \in Nat \X Nat : ss[1] < ss[2]}
  <1>1. OpToRel(<, Nat) = R BY Zenon DEF OpToRel
  <1>2. IsWellFoundedOn(R, Nat) BY <1>1, NatLessThanWellFounded, Zenon
  <1>3. \E x \in T : \A y \in T : ~(<<y, x>> \in R)
    <2> HIDE DEF R
    <2> QED BY <1>2, WFMin, Zenon
  <1>4. PICK x \in T : \A y \in T : ~(<<y, x>> \in R) BY <1>3, Zenon
  <1>5. ASSUME NEW y \in T PROVE x <= y
    <2>1. ~(<<y, x>> \in R) BY <1>4, Zenon
    <2>2. ~(y < x)
      <3> SUFFICES ASSUME y < x PROVE FALSE OBVIOUS
      <3>1. <<y, x>> \in Nat \X Nat BY Zenon
      <3>2. <<y, x>>[1] < <<y, x>>[2] OBVIOUS
      <3> QED BY <3>1, <3>2, <2>1, Zenon
    <2> QED BY <2>2
  <1> QED BY <1>5

(* Induction up to n.                                                      *)
LEMMA Upward ==
  ASSUME NEW p, NEW z, NEW n \in Nat, Inv(p, z, 0),
         \A i \in 1 .. n : Inv(p, z, i - 1) => Inv(p, z, i)
  PROVE  Inv(p, z, n)
  <1> DEFINE T == {i \in 0 .. n : ~Inv(p, z, i)}
  <1> SUFFICES ASSUME T # {} PROVE FALSE OBVIOUS
  <1>1. T \subseteq Nat OBVIOUS
  <1>2. PICK x \in T : \A y \in T : x <= y
    <2> HIDE DEF T
    <2> QED BY <1>1, Least, Zenon
  <1>3. x # 0 OBVIOUS
  <1>4. x \in 1 .. n /\ x - 1 \in 0 .. n BY <1>3
  <1>5. ~(x - 1 \in T) BY <1>2, <1>4
  <1> QED BY <1>4, <1>5, <1>2

------------------------------------------------------------------------------
(* The functions that the folds choose exist: from one for the first n     *)
(* (the last n) elements, there is one for one more.                       *)
LeftOn(g, D, p, x, seq) ==
  g = [s \in SUBSET D |-> IF s = {} THEN x ELSE Op(p, g[s \ {Last(s)}], seq[Last(s)])]

RightOn(g, D, p, x, seq) ==
  g = [s \in SUBSET D |-> IF s = {} THEN x ELSE Op(p, g[s \ {First(s)}], seq[First(s)])]

(* The last of a set that ends in n.                                       *)
LEMMA LastIs ==
  ASSUME NEW n \in Nat, NEW s \in SUBSET (1 .. n), n \in s
  PROVE  Last(s) = n
  <1>1. \A j \in s : n >= j OBVIOUS
  <1>2. ASSUME NEW i \in s, \A j \in s : i >= j PROVE i = n BY <1>2
  <1> QED BY <1>1, <1>2 DEF Last

(* The first of a set that begins with k.                                  *)
LEMMA FirstIs ==
  ASSUME NEW n \in Nat, NEW k \in 1 .. n, NEW s \in SUBSET (k .. n), k \in s
  PROVE  First(s) = k
  <1>1. \A j \in s : k <= j OBVIOUS
  <1>2. ASSUME NEW i \in s, \A j \in s : i <= j PROVE i = k BY <1>2
  <1> QED BY <1>1, <1>2 DEF First

(* The recursion of Left is defined on one more element.                   *)
LEMMA LeftGrows ==
  ASSUME NEW p, NEW x, NEW seq, NEW n \in Nat, NEW g, LeftOn(g, 1 .. n, p, x, seq)
  PROVE  \E h : LeftOn(h, 1 .. n + 1, p, x, seq)
  <1> DEFINE m == n + 1
             h == [s \in SUBSET (1 .. m) |-> IF m \in s THEN Op(p, g[s \ {m}], seq[m]) ELSE g[s]]
             V(f, s) == IF s = {} THEN x ELSE Op(p, f[s \ {Last(s)}], seq[Last(s)])
  <1>1. \A s \in SUBSET (1 .. n) : g[s] = V(g, s) BY Zenon DEF LeftOn
  <1>2. \A s \in SUBSET (1 .. m) : s \ {m} \in SUBSET (1 .. n) OBVIOUS
  <1>3. ASSUME NEW s \in SUBSET (1 .. m) PROVE h[s] = V(h, s)
    <2>1. CASE m \in s
      <3>1. Last(s) = m BY <2>1, LastIs
      <3>2. s # {} BY <2>1
      <3>3. s \ {m} \in SUBSET (1 .. m) /\ m \notin s \ {m} OBVIOUS
      <3>4. h[s \ {m}] = g[s \ {m}] BY <3>3, Zenon
      <3>5. h[s] = Op(p, g[s \ {m}], seq[m]) BY <2>1, Zenon
      <3> QED BY <3>1, <3>2, <3>4, <3>5, Zenon
    <2>2. CASE m \notin s
      <3>1. s \in SUBSET (1 .. n) BY <2>2, <1>2, Zenon
      <3>2. s \ {Last(s)} \in SUBSET (1 .. m) /\ m \notin s \ {Last(s)} BY <2>2, Zenon
      <3>3. h[s] = g[s] BY <2>2, Zenon
      <3>4. h[s \ {Last(s)}] = g[s \ {Last(s)}] BY <3>2, Zenon
      <3>5. g[s] = V(g, s) BY <3>1, <1>1, Zenon
      <3> QED BY <3>3, <3>4, <3>5, Zenon
    <2> QED BY <2>1, <2>2
  <1>4. h = [s \in SUBSET (1 .. m) |-> h[s]] BY Zenon
  <1>5. h = [s \in SUBSET (1 .. m) |-> V(h, s)]
    <2> HIDE DEF h, V
    <2> QED BY <1>3, <1>4, Zenon
  <1>6. LeftOn(h, 1 .. m, p, x, seq)
    <2> HIDE DEF h
    <2> QED BY <1>5, Zenon DEF LeftOn
  <1> QED BY <1>6, Zenon

(* Left is the last of a chain of values, one step for each element.       *)
LEMMA LeftIs ==
  ASSUME NEW p, NEW x, NEW S, NEW seq \in Seq(S)
  PROVE  \E f : /\ f[0] = x
                /\ \A i \in 1 .. Len(seq) : f[i] = Op(p, f[i - 1], seq[i])
                /\ Left(p, x, seq) = f[Len(seq)]
  <1> DEFINE N == Len(seq)
             T == {n \in 0 .. N : ~\E g : LeftOn(g, 1 .. n, p, x, seq)}
  <1>0. N \in Nat /\ DOMAIN seq = 1 .. N OBVIOUS
  <1>1. T = {}
    <2> SUFFICES ASSUME T # {} PROVE FALSE OBVIOUS
    <2>1. T \subseteq Nat BY <1>0
    <2>2. PICK n \in T : \A y \in T : n <= y
      <3> HIDE DEF T
      <3> QED BY <2>1, Least, Zenon
    <2>3. n # 0
      <3>1. LeftOn([s \in SUBSET (1 .. 0) |-> x], 1 .. 0, p, x, seq)
        <4>1. \A s \in SUBSET (1 .. 0) : s = {} OBVIOUS
        <4> QED BY <4>1, Zenon DEF LeftOn
      <3> QED BY <3>1, Zenon
    <2>4. n \in 1 .. N /\ n - 1 \in 0 .. N /\ n - 1 \in Nat /\ (n - 1) + 1 = n BY <2>3
    <2>5. ~(n - 1 \in T) BY <2>2, <2>4
    <2>6. PICK g : LeftOn(g, 1 .. n - 1, p, x, seq) BY <2>4, <2>5, Zenon
    <2>7. \E h : LeftOn(h, 1 .. (n - 1) + 1, p, x, seq) BY <2>4, <2>6, LeftGrows, Zenon
    <2> QED BY <2>2, <2>4, <2>7
  <1>2. N \in 0 .. N BY <1>0
  <1>3. \E g : LeftOn(g, DOMAIN seq, p, x, seq) BY <1>0, <1>1, <1>2, Zenon
  <1> DEFINE g == CHOOSE g : LeftOn(g, DOMAIN seq, p, x, seq)
             f == [i \in 0 .. N |-> g[1 .. i]]
  <1>4. LeftOn(g, DOMAIN seq, p, x, seq) BY <1>3, Zenon
  <1>5. Left(p, x, seq) = g[DOMAIN seq] BY Zenon DEF Left, LeftOn
  <1> HIDE DEF g
  <1>6. \A s \in SUBSET (1 .. N) :
          g[s] = IF s = {} THEN x ELSE Op(p, g[s \ {Last(s)}], seq[Last(s)])
    BY <1>0, <1>4, Zenon DEF LeftOn
  <1>7. f[0] = x
    <2>1. 1 .. 0 = {} /\ 0 \in 0 .. N BY <1>0
    <2> QED BY <2>1, <1>6, Zenon
  <1>8. ASSUME NEW i \in 1 .. N PROVE f[i] = Op(p, f[i - 1], seq[i])
    <2>1. i \in Nat /\ i \in 0 .. N /\ i - 1 \in 0 .. N BY <1>0
    <2>2. 1 .. i \in SUBSET (1 .. N) /\ i \in 1 .. i /\ (1 .. i) \ {i} = 1 .. i - 1 BY <1>0
    <2>3. Last(1 .. i) = i BY <2>1, <2>2, LastIs
    <2>4. 1 .. i # {} BY <2>2
    <2>5. g[1 .. i] = Op(p, g[1 .. i - 1], seq[i]) BY <2>2, <2>3, <2>4, <1>6, Zenon
    <2> QED BY <2>1, <2>5, Zenon
  <1>9. Left(p, x, seq) = f[N] BY <1>0, <1>2, <1>5, Zenon
  <1> HIDE DEF f
  <1> QED BY <1>7, <1>8, <1>9, Zenon

(* The invariant after the whole of a fold from the left.                  *)
LEMMA LeftHolds ==
  ASSUME NEW p, NEW x, NEW S, NEW seq \in Seq(S), Inv(p, x, 0),
         \A i \in 1 .. Len(seq) : \A z : Inv(p, z, i - 1) => Inv(p, Op(p, z, seq[i]), i)
  PROVE  Inv(p, Left(p, x, seq), Len(seq))
  <1>1. PICK f : /\ f[0] = x
                 /\ \A i \in 1 .. Len(seq) : f[i] = Op(p, f[i - 1], seq[i])
                 /\ Left(p, x, seq) = f[Len(seq)]
    BY LeftIs
  <1> DEFINE T == {i \in 0 .. Len(seq) : ~Inv(p, f[i], i)}
  <1>2. T = {}
    <2> SUFFICES ASSUME T # {} PROVE FALSE OBVIOUS
    <2>1. T \subseteq Nat OBVIOUS
    <2>2. PICK n \in T : \A y \in T : n <= y
      <3> HIDE DEF T
      <3> QED BY <2>1, Least, Zenon
    <2>3. n # 0 BY <1>1
    <2>4. n \in 1 .. Len(seq) /\ n - 1 \in 0 .. Len(seq) BY <2>3
    <2>5. ~(n - 1 \in T) BY <2>2, <2>4
    <2>6. Inv(p, f[n - 1], n - 1) BY <2>4, <2>5, Zenon
    <2>7. Inv(p, Op(p, f[n - 1], seq[n]), n) BY <2>4, <2>6, Zenon
    <2>8. Inv(p, f[n], n) BY <1>1, <2>4, <2>7, Zenon
    <2> QED BY <2>2, <2>8
  <1>3. Len(seq) \in 0 .. Len(seq) OBVIOUS
  <1> QED BY <1>1, <1>2, <1>3, Zenon

------------------------------------------------------------------------------
(* The same from the right.                                                *)
LEMMA RightGrows ==
  ASSUME NEW p, NEW x, NEW seq, NEW n \in Nat, NEW k \in 1 .. n, NEW g,
         RightOn(g, k + 1 .. n, p, x, seq)
  PROVE  \E h : RightOn(h, k .. n, p, x, seq)
  <1> DEFINE D == k .. n
             h == [s \in SUBSET D |-> IF k \in s THEN Op(p, g[s \ {k}], seq[k]) ELSE g[s]]
             V(f, s) == IF s = {} THEN x ELSE Op(p, f[s \ {First(s)}], seq[First(s)])
  <1>1. \A s \in SUBSET (k + 1 .. n) : g[s] = V(g, s) BY Zenon DEF RightOn
  <1>2. \A s \in SUBSET D : s \ {k} \in SUBSET (k + 1 .. n) OBVIOUS
  <1>3. ASSUME NEW s \in SUBSET D PROVE h[s] = V(h, s)
    <2>1. CASE k \in s
      <3>1. First(s) = k BY <2>1, FirstIs
      <3>2. s # {} BY <2>1
      <3>3. s \ {k} \in SUBSET D /\ k \notin s \ {k} OBVIOUS
      <3>4. h[s \ {k}] = g[s \ {k}] BY <3>3, Zenon
      <3>5. h[s] = Op(p, g[s \ {k}], seq[k]) BY <2>1, Zenon
      <3> QED BY <3>1, <3>2, <3>4, <3>5, Zenon
    <2>2. CASE k \notin s
      <3>1. s \in SUBSET (k + 1 .. n) BY <2>2, <1>2, Zenon
      <3>2. s \ {First(s)} \in SUBSET D /\ k \notin s \ {First(s)} BY <2>2, Zenon
      <3>3. h[s] = g[s] BY <2>2, Zenon
      <3>4. h[s \ {First(s)}] = g[s \ {First(s)}] BY <3>2, Zenon
      <3>5. g[s] = V(g, s) BY <3>1, <1>1, Zenon
      <3> QED BY <3>3, <3>4, <3>5, Zenon
    <2> QED BY <2>1, <2>2
  <1>4. h = [s \in SUBSET D |-> h[s]] BY Zenon
  <1>5. h = [s \in SUBSET D |-> V(h, s)]
    <2> HIDE DEF h, V
    <2> QED BY <1>3, <1>4, Zenon
  <1>6. RightOn(h, D, p, x, seq)
    <2> HIDE DEF h
    <2> QED BY <1>5, Zenon DEF RightOn
  <1> QED BY <1>6, Zenon

(* And Right, from the end.                                                *)
LEMMA RightIs ==
  ASSUME NEW p, NEW x, NEW S, NEW seq \in Seq(S)
  PROVE  \E f : /\ f[Len(seq) + 1] = x
                /\ \A i \in 1 .. Len(seq) : f[i] = Op(p, f[i + 1], seq[i])
                /\ Right(p, seq, x) = f[1]
  <1> DEFINE N == Len(seq)
             T == {n \in 0 .. N : ~\E g : RightOn(g, N - n + 1 .. N, p, x, seq)}
  <1>0. N \in Nat /\ DOMAIN seq = 1 .. N OBVIOUS
  <1>1. T = {}
    <2> SUFFICES ASSUME T # {} PROVE FALSE OBVIOUS
    <2>1. T \subseteq Nat BY <1>0
    <2>2. PICK n \in T : \A y \in T : n <= y
      <3> HIDE DEF T
      <3> QED BY <2>1, Least, Zenon
    <2>3. n # 0
      <3>0. N - 0 + 1 .. N = {} BY <1>0
      <3>1. RightOn([s \in SUBSET {} |-> x], {}, p, x, seq)
        <4>1. \A s \in SUBSET {} : s = {} OBVIOUS
        <4> QED BY <4>1, Zenon DEF RightOn
      <3>2. \E g : RightOn(g, N - 0 + 1 .. N, p, x, seq) BY <3>0, <3>1, Zenon
      <3> QED BY <3>2, Zenon
    <2>4. n \in 1 .. N /\ n - 1 \in 0 .. N BY <2>3
    <2>5. ~(n - 1 \in T) BY <2>2, <2>4
    <2> DEFINE k == N - n + 1
    <2>6. k \in 1 .. N /\ N - (n - 1) + 1 = k + 1 BY <1>0, <2>4
    <2>7. PICK g : RightOn(g, k + 1 .. N, p, x, seq) BY <2>4, <2>5, <2>6, Zenon
    <2>8. \E h : RightOn(h, k .. N, p, x, seq)
      <3> HIDE DEF k, N
      <3> QED BY <1>0, <2>6, <2>7, RightGrows, Zenon
    <2> QED BY <2>2, <2>8, Zenon
  <1>2. N \in 0 .. N /\ N - N + 1 = 1 BY <1>0
  <1>3. \E g : RightOn(g, DOMAIN seq, p, x, seq)
    <2>1. \E g : RightOn(g, N - N + 1 .. N, p, x, seq) BY <1>1, <1>2, Zenon
    <2> QED BY <2>1, <1>0, <1>2, Zenon
  <1> DEFINE g == CHOOSE g : RightOn(g, DOMAIN seq, p, x, seq)
             f == [i \in 1 .. N + 1 |-> g[i .. N]]
  <1>4. RightOn(g, DOMAIN seq, p, x, seq) BY <1>3, Zenon
  <1>5. Right(p, seq, x) = g[DOMAIN seq] BY Zenon DEF Right, RightOn
  <1> HIDE DEF g
  <1>6. \A s \in SUBSET (1 .. N) :
          g[s] = IF s = {} THEN x ELSE Op(p, g[s \ {First(s)}], seq[First(s)])
    BY <1>0, <1>4, Zenon DEF RightOn
  <1>7. f[N + 1] = x
    <2>1. N + 1 .. N = {} /\ N + 1 \in 1 .. N + 1 BY <1>0
    <2> QED BY <2>1, <1>6, Zenon
  <1>8. ASSUME NEW i \in 1 .. N PROVE f[i] = Op(p, f[i + 1], seq[i])
    <2>1. i \in 1 .. N + 1 /\ i + 1 \in 1 .. N + 1 BY <1>0
    <2>2. i .. N \in SUBSET (1 .. N) /\ i \in i .. N /\ (i .. N) \ {i} = i + 1 .. N BY <1>0
    <2>3. First(i .. N) = i
      <3>1. i .. N \in SUBSET (i .. N) OBVIOUS
      <3> HIDE DEF N
      <3> QED BY <1>0, <3>1, <2>2, FirstIs
    <2>4. i .. N # {} BY <2>2
    <2>5. g[i .. N] = Op(p, g[i + 1 .. N], seq[i]) BY <2>2, <2>3, <2>4, <1>6, Zenon
    <2> QED BY <2>1, <2>5, Zenon
  <1>9. Right(p, seq, x) = f[1]
    <2>1. 1 \in 1 .. N + 1 BY <1>0
    <2> QED BY <2>1, <1>0, <1>5, Zenon
  <1> HIDE DEF f
  <1> QED BY <1>7, <1>8, <1>9, Zenon

(* What holds at the end and is kept by each step holds of Right.          *)
LEMMA RightHolds ==
  ASSUME NEW p, NEW x, NEW S, NEW seq \in Seq(S), Inv(p, x, Len(seq) + 1),
         \A i \in 1 .. Len(seq) : \A z : Inv(p, z, i + 1) => Inv(p, Op(p, z, seq[i]), i)
  PROVE  Inv(p, Right(p, seq, x), 1)
  <1>1. PICK f : /\ f[Len(seq) + 1] = x
                 /\ \A i \in 1 .. Len(seq) : f[i] = Op(p, f[i + 1], seq[i])
                 /\ Right(p, seq, x) = f[1]
    BY RightIs
  <1> DEFINE N == Len(seq)
             T == {n \in 0 .. N : ~Inv(p, f[N + 1 - n], N + 1 - n)}
  <1>0. N \in Nat OBVIOUS
  <1>2. T = {}
    <2> SUFFICES ASSUME T # {} PROVE FALSE OBVIOUS
    <2>1. T \subseteq Nat OBVIOUS
    <2>2. PICK n \in T : \A y \in T : n <= y
      <3> HIDE DEF T
      <3> QED BY <2>1, Least, Zenon
    <2>3. n # 0
      <3>1. N + 1 - 0 = N + 1 BY <1>0
      <3> QED BY <1>1, <3>1
    <2>4. n \in 1 .. N /\ n - 1 \in 0 .. N /\ N + 1 - (n - 1) = (N + 1 - n) + 1 /\ N + 1 - n \in 1 .. N
      BY <2>3, <1>0
    <2>5. ~(n - 1 \in T)
      <3> SUFFICES ASSUME n - 1 \in T PROVE FALSE OBVIOUS
      <3>1. n <= n - 1
        <4> HIDE DEF T
        <4> QED BY <2>2, Zenon
      <3> QED BY <2>4, <3>1
    <2> DEFINE i == N + 1 - n
    <2>6. Inv(p, f[i + 1], i + 1) BY <2>4, <2>5, Zenon
    <2>7. Inv(p, Op(p, f[i + 1], seq[i]), i) BY <2>4, <2>6, Zenon
    <2>8. Inv(p, f[i], i) BY <1>1, <2>4, <2>7, Zenon
    <2> QED BY <2>2, <2>8
  <1>3. N \in 0 .. N /\ N + 1 - N = 1 BY <1>0
  <1>4. Inv(p, f[N + 1 - N], N + 1 - N) BY <1>2, <1>3, Zenon
  <1> QED BY <1>1, <1>3, <1>4, Zenon

------------------------------------------------------------------------------
(* A step taken n times: the form of a loop, by a recursive function of    *)
(* the number of steps.                                                    *)
Times(p, x, n) ==
  LET it[i \in 0 .. n] == IF i = 0 THEN x ELSE Op(p, it[i - 1], i)
  IN  it[n]

TimesOn(g, n, p, x) == g = [i \in 0 .. n |-> IF i = 0 THEN x ELSE Op(p, g[i - 1], i)]

(* The recursion of Times is defined on one more number.                   *)
LEMMA TimesGrows ==
  ASSUME NEW p, NEW x, NEW n \in Nat, NEW g, TimesOn(g, n, p, x)
  PROVE  \E h : TimesOn(h, n + 1, p, x)
  <1> DEFINE m == n + 1
             h == [i \in 0 .. m |-> IF i = m THEN Op(p, g[n], m) ELSE g[i]]
             V(f, i) == IF i = 0 THEN x ELSE Op(p, f[i - 1], i)
  <1>1. \A i \in 0 .. n : g[i] = V(g, i) BY Zenon DEF TimesOn
  <1>2. ASSUME NEW i \in 0 .. m PROVE h[i] = V(h, i)
    <2>1. CASE i = m
      <3>1. i # 0 /\ i - 1 = n /\ n \in 0 .. m /\ n # m BY <2>1
      <3>2. h[n] = g[n] BY <3>1, Zenon
      <3> QED BY <2>1, <3>1, <3>2, Zenon
    <2>2. CASE i # m
      <3>1. i \in 0 .. n BY <2>2
      <3>2. h[i] = g[i] BY <2>2, Zenon
      <3>3. CASE i = 0 BY <3>1, <3>2, <3>3, <1>1, Zenon
      <3>4. CASE i # 0
        <4>1. i - 1 \in 0 .. m /\ i - 1 # m BY <3>1, <3>4
        <4>2. h[i - 1] = g[i - 1] BY <4>1, Zenon
        <4> QED BY <3>1, <3>2, <3>4, <4>2, <1>1, Zenon
      <3> QED BY <3>3, <3>4
    <2> QED BY <2>1, <2>2
  <1>3. h = [i \in 0 .. m |-> h[i]] BY Zenon
  <1>4. h = [i \in 0 .. m |-> V(h, i)]
    <2> HIDE DEF h, V
    <2> QED BY <1>2, <1>3, Zenon
  <1>5. TimesOn(h, m, p, x)
    <2> HIDE DEF h
    <2> QED BY <1>4, Zenon DEF TimesOn
  <1> QED BY <1>5, Zenon

(* The invariant after the last of n steps.                                *)
LEMMA TimesHolds ==
  ASSUME NEW p, NEW x, NEW n \in Nat, Inv(p, x, 0),
         \A i \in 1 .. n : \A z : Inv(p, z, i - 1) => Inv(p, Op(p, z, i), i)
  PROVE  Inv(p, Times(p, x, n), n)
  <1> DEFINE T == {k \in 0 .. n : ~\E g : TimesOn(g, k, p, x)}
  <1>1. T = {}
    <2> SUFFICES ASSUME T # {} PROVE FALSE OBVIOUS
    <2>1. T \subseteq Nat OBVIOUS
    <2>2. PICK k \in T : \A y \in T : k <= y
      <3> HIDE DEF T
      <3> QED BY <2>1, Least, Zenon
    <2>3. k # 0
      <3>1. TimesOn([i \in 0 .. 0 |-> x], 0, p, x)
        <4>1. \A i \in 0 .. 0 : i = 0 OBVIOUS
        <4> QED BY <4>1, Zenon DEF TimesOn
      <3> QED BY <3>1, Zenon
    <2>4. k - 1 \in 0 .. n /\ k - 1 \in Nat /\ (k - 1) + 1 = k /\ ~(k <= k - 1) BY <2>3
    <2>5. ~(k - 1 \in T) BY <2>2, <2>4, Zenon
    <2>6. PICK g : TimesOn(g, k - 1, p, x) BY <2>4, <2>5, Zenon
    <2>7. \E h : TimesOn(h, (k - 1) + 1, p, x) BY <2>4, <2>6, TimesGrows, Zenon
    <2> QED BY <2>2, <2>4, <2>7
  <1>2. n \in 0 .. n OBVIOUS
  <1> DEFINE g == CHOOSE g : TimesOn(g, n, p, x)
  <1>3. TimesOn(g, n, p, x) BY <1>1, <1>2, Zenon
  <1>4. Times(p, x, n) = g[n] BY Zenon DEF Times, TimesOn
  <1> HIDE DEF g
  <1>5. \A i \in 0 .. n : g[i] = IF i = 0 THEN x ELSE Op(p, g[i - 1], i) BY <1>3, Zenon DEF TimesOn
  <1> DEFINE U == {k \in 0 .. n : ~Inv(p, g[k], k)}
  <1>6. U = {}
    <2> SUFFICES ASSUME U # {} PROVE FALSE OBVIOUS
    <2>1. U \subseteq Nat OBVIOUS
    <2>2. PICK k \in U : \A y \in U : k <= y
      <3> HIDE DEF U
      <3> QED BY <2>1, Least, Zenon
    <2>3. k # 0
      <3>1. 0 \in 0 .. n OBVIOUS
      <3>2. g[0] = x BY <3>1, <1>5, Zenon
      <3> QED BY <3>2, Zenon
    <2>4. k \in 1 .. n /\ k - 1 \in 0 .. n /\ ~(k <= k - 1) BY <2>3
    <2>5. Inv(p, g[k - 1], k - 1) BY <2>2, <2>4, Zenon
    <2>6. g[k] = Op(p, g[k - 1], k) BY <2>3, <1>5, Zenon
    <2>7. Inv(p, g[k], k) BY <2>4, <2>5, <2>6, Zenon
    <2> QED BY <2>2, <2>7, Zenon
  <1> QED BY <1>2, <1>4, <1>6, Zenon
===============================================================================
