--------------------------- MODULE HwParamsProofs ---------------------------
(***************************************************************************)
(* What refinement and the calls of pcm_params.c do to a space, for every  *)
(* width of the bounds, table of formats, slave, sequence of calls and     *)
(* sample of configurations.                                               *)
(*                                                                         *)
(* First the interval functions and the rules: none takes a number, or a   *)
(* configuration, away that could be had (RuleLosesNothing; a number is a  *)
(* fraction p / q).  Then what a space may become (Narrower, Leads), step  *)
(* by step: refining by the rules, of a direct PCM and of a rate PCM       *)
(* (HwRefineLeads), setting a parameter, the calls, and installing.  Last  *)
(* the invariant ParamsInv, which every action keeps, and what it implies. *)
(*                                                                         *)
(* A rate PCM is followed loosely: its plugin may take the very bound of   *)
(* an open range of period sizes (WholePeriod), and then it may also lose  *)
(* configurations.                                                         *)
(***************************************************************************)
EXTENDS HwParams, WellFoundedInduction, TLAPS

\* A fraction that is a whole number.
Multiple(p, q) == \E n \in Nat : p = n * q

\* An interval as the code keeps them: one without a number is flagged.
Sound(i) == i \in Interval /\ (CheckEmpty(i) => i.empty)

-----------------------------------------------------------------------------
(* Arithmetic of naturals.                                                 *)

\* Division with remainder.
LEMMA Division ==
  ASSUME NEW n \in Nat, NEW d \in Nat \ {0}
  PROVE  /\ n \div d \in Nat /\ n % d \in 0 .. d - 1
         /\ n = (n \div d) * d + (n % d)
<1>1. n \div d \in Nat /\ n % d \in 0 .. d - 1
  OBVIOUS
<1>2. n = d * (n \div d) + (n % d)
  OBVIOUS
<1>3. QED
  BY <1>1, <1>2

\* The remainder tells whether a fraction is a whole number.
LEMMA Multiples ==
  ASSUME NEW p \in Nat, NEW q \in Nat \ {0}
  PROVE  p % q = 0 <=> Multiple(p, q)
<1>0. p \div q \in Nat /\ p % q \in 0 .. q - 1 /\ p = (p \div q) * q + (p % q)
  BY Division
<1>1. ASSUME p % q = 0
      PROVE  Multiple(p, q)
  <2>1. p = (p \div q) * q
    BY <1>0, <1>1
  <2>2. QED
    BY <1>0, <2>1 DEF Multiple
<1>2. ASSUME NEW n \in Nat, p = n * q
      PROVE  p % q = 0
  <2>1. p % q = (n - p \div q) * q
    BY <1>0, <1>2
  <2>2. CASE n - p \div q >= 1
    <3>1. (n - p \div q) * q >= q
      BY <1>0, <2>2
    <3>2. QED
      BY <1>0, <2>1, <3>1
  <2>3. CASE n - p \div q < 0
    <3>1. (n - p \div q) * q < 0
      BY <1>0, <2>3
    <3>2. QED
      BY <1>0, <2>1, <3>1
  <2>4. CASE n = p \div q
    BY <1>0, <2>1, <2>4
  <2>5. QED
    BY <1>0, <2>2, <2>3, <2>4
<1>3. QED
  BY <1>1, <1>2 DEF Multiple

\* Comparisons are kept by multiplying both sides.
LEMMA Scale ==
  ASSUME NEW a \in Nat, NEW b \in Nat, NEW q \in Nat \ {0}
  PROVE  /\ a < b <=> a * q < b * q
         /\ a <= b <=> a * q <= b * q
         /\ a * q \in Nat
<1>1. ASSUME NEW x \in Nat, NEW y \in Nat, x < y
      PROVE  x * q < y * q
  <2>1. PICK d \in Nat \ {0} : y = x + d
    BY <1>1, y - x \in Nat \ {0}, y = x + (y - x)
  <2>2. y * q = x * q + d * q
    BY <2>1
  <2>3. d * q > 0 /\ x * q \in Nat /\ d * q \in Nat
    BY <2>1
  <2>4. QED
    BY <2>2, <2>3
<1>2. a * q \in Nat /\ b * q \in Nat
  OBVIOUS
<1>3. QED
  BY <1>1, <1>2

(* The next multiple: between n * q and (n + 1) * q no other lies.         *)
LEMMA NextMultiple ==
  ASSUME NEW a \in Nat, NEW n \in Nat, NEW q \in Nat \ {0}
  PROVE  /\ a * q < n * q <=> (a + 1) * q <= n * q
         /\ a > 0 => (n * q < a * q <=> n * q <= (a - 1) * q)
<1>1. a * q < n * q <=> a + 1 <= n
  BY Scale
<1>2. (a + 1) * q <= n * q <=> a + 1 <= n
  BY Scale, a + 1 \in Nat
<1>3. ASSUME a > 0
      PROVE  n * q < a * q <=> n * q <= (a - 1) * q
  <2>1. n * q < a * q <=> n < a
    BY Scale
  <2>2. n * q <= (a - 1) * q <=> n <= a - 1
    BY <1>3, a - 1 \in Nat, Scale
  <2>3. QED
    BY <2>1, <2>2
<1>4. QED
  BY <1>1, <1>2, <1>3

-----------------------------------------------------------------------------
(* Narrowing.                                                              *)

\* Raising a minimum leaves exactly the numbers above both.
LEMMA RaiseMinMeets ==
  ASSUME NEW i \in Interval, NEW min \in Bound, NEW open \in BOOLEAN,
         NEW p \in Nat, NEW q \in Nat \ {0}
  PROVE  LET j == RaiseMin(i, min, open)
         IN /\ j \in Interval
            /\ j.max = i.max /\ j.openmax = i.openmax
            /\ j.integer = i.integer /\ j.empty = i.empty
            /\ <<j.min, j.openmin>> \in {<<i.min, i.openmin>>, <<min, open>>}
            /\ Above(j.min, j.openmin, p, q) <=>
                 Above(i.min, i.openmin, p, q) /\ Above(min, open, p, q)
<1> DEFINE j == RaiseMin(i, min, open)
<1>0. i.min \in Nat /\ min \in Nat /\ i.openmin \in BOOLEAN
  BY UintMaxAssumption DEF Interval, Bound, UintMaxAssumption
<1>1. CASE i.min < min
  <2>1. j = [i EXCEPT !.min = min, !.openmin = open]
    BY <1>1 DEF RaiseMin
  <2>2. i.min * q < min * q /\ i.min * q \in Nat /\ min * q \in Nat
    BY <1>0, <1>1, Scale
  <2>3. Above(min, open, p, q) => Above(i.min, i.openmin, p, q)
    BY <2>2 DEF Above
  <2>4. QED
    BY <2>1, <2>3 DEF Interval
<1>2. CASE i.min = min /\ open
  <2>1. j = [i EXCEPT !.openmin = TRUE]
    BY <1>2 DEF RaiseMin
  <2>2. i.min * q \in Nat
    BY <1>0
  <2>3. Above(i.min, TRUE, p, q) <=> Above(i.min, i.openmin, p, q) /\ Above(min, open, p, q)
    BY <1>0, <1>2, <2>2 DEF Above
  <2>4. QED
    BY <1>2, <2>1, <2>3 DEF Interval
<1>3. CASE i.min > min \/ (i.min = min /\ ~open)
  <2>1. j = i
    BY <1>0, <1>3 DEF RaiseMin
  <2>2. min * q <= i.min * q /\ i.min * q \in Nat /\ min * q \in Nat
        /\ (i.min > min => min * q < i.min * q)
    BY <1>0, <1>3, Scale
  <2>3. Above(i.min, i.openmin, p, q) => Above(min, open, p, q)
    BY <1>0, <1>3, <2>2 DEF Above
  <2>4. QED
    BY <2>1, <2>3
<1>4. QED
  BY <1>0, <1>1, <1>2, <1>3

\* Lowering a maximum leaves exactly the numbers below both.
LEMMA LowerMaxMeets ==
  ASSUME NEW i \in Interval, NEW max \in Bound, NEW open \in BOOLEAN,
         NEW p \in Nat, NEW q \in Nat \ {0}
  PROVE  LET j == LowerMax(i, max, open)
         IN /\ j \in Interval
            /\ j.min = i.min /\ j.openmin = i.openmin
            /\ j.integer = i.integer /\ j.empty = i.empty
            /\ <<j.max, j.openmax>> \in {<<i.max, i.openmax>>, <<max, open>>}
            /\ Below(j.max, j.openmax, p, q) <=>
                 Below(i.max, i.openmax, p, q) /\ Below(max, open, p, q)
<1> DEFINE j == LowerMax(i, max, open)
<1>0. i.max \in Nat /\ max \in Nat /\ i.openmax \in BOOLEAN
  BY UintMaxAssumption DEF Interval, Bound, UintMaxAssumption
<1>1. CASE i.max > max
  <2>1. j = [i EXCEPT !.max = max, !.openmax = open]
    BY <1>1 DEF LowerMax
  <2>2. max * q < i.max * q /\ i.max * q \in Nat /\ max * q \in Nat
    BY <1>0, <1>1, Scale
  <2>3. Below(max, open, p, q) => Below(i.max, i.openmax, p, q)
    BY <2>2 DEF Below
  <2>4. QED
    BY <2>1, <2>3 DEF Interval
<1>2. CASE i.max = max /\ open
  <2>1. j = [i EXCEPT !.openmax = TRUE]
    BY <1>2 DEF LowerMax
  <2>2. i.max * q \in Nat
    BY <1>0
  <2>3. Below(i.max, TRUE, p, q) <=> Below(i.max, i.openmax, p, q) /\ Below(max, open, p, q)
    BY <1>0, <1>2, <2>2 DEF Below
  <2>4. QED
    BY <1>2, <2>1, <2>3 DEF Interval
<1>3. CASE i.max < max \/ (i.max = max /\ ~open)
  <2>1. j = i
    BY <1>0, <1>3 DEF LowerMax
  <2>2. i.max * q <= max * q /\ i.max * q \in Nat /\ max * q \in Nat
        /\ (i.max < max => i.max * q < max * q)
    BY <1>0, <1>3, Scale
  <2>3. Below(i.max, i.openmax, p, q) => Below(max, open, p, q)
    BY <1>0, <1>3, <2>2 DEF Below
  <2>4. QED
    BY <2>1, <2>3
<1>4. QED
  BY <1>0, <1>1, <1>2, <1>3
(* The bounds of an integer interval can be closed without losing an       *)
(* integer, unless the bound is the last of its width.                     *)
LEMMA CloseMinKeeps ==
  ASSUME NEW i \in Interval, i.openmin => i.min < UintMax,
         NEW p \in Nat, NEW q \in Nat \ {0}, i.integer => Multiple(p, q)
  PROVE  LET j == CloseMin(i)
         IN /\ j \in Interval
            /\ j.max = i.max /\ j.openmax = i.openmax
            /\ j.integer = i.integer /\ j.empty = i.empty
            /\ Above(j.min, j.openmin, p, q) <=> Above(i.min, i.openmin, p, q)
<1>0. i.min \in Nat /\ UintMax \in Nat
  BY UintMaxAssumption DEF Interval, Bound, UintMaxAssumption
<1>1. CASE i.integer /\ i.openmin
  <2>1. CloseMin(i) = [i EXCEPT !.min = i.min + 1, !.openmin = FALSE,
                               !.lifted = i.lifted \/ i.min = UintMax]
    <3>1. Up(i.min) = i.min + 1
      BY <1>0, <1>1 DEF Up
    <3>2. QED
      BY <1>1, <3>1 DEF CloseMin
  <2>2. PICK n \in Nat : p = n * q
    BY <1>1 DEF Multiple
  <2>3. i.min * q < p <=> (i.min + 1) * q <= p
    BY <1>0, <2>2, NextMultiple
  <2>4. i.min + 1 \in Bound
    BY <1>0, <1>1 DEF Bound
  <2>5. QED
    BY <1>1, <2>1, <2>3, <2>4 DEF Interval, Above
<1>2. CASE ~(i.integer /\ i.openmin)
  BY <1>2 DEF CloseMin
<1>3. QED
  BY <1>1, <1>2

\* Closing an open maximum loses no whole number; at 0 max-- would wrap.
LEMMA CloseMaxKeeps ==
  ASSUME NEW i \in Interval, i.openmax => i.max > 0,
         NEW p \in Nat, NEW q \in Nat \ {0}, i.integer => Multiple(p, q)
  PROVE  LET j == CloseMax(i)
         IN /\ j \in Interval
            /\ j.min = i.min /\ j.openmin = i.openmin
            /\ j.integer = i.integer /\ j.empty = i.empty
            /\ Below(j.max, j.openmax, p, q) <=> Below(i.max, i.openmax, p, q)
<1>0. i.max \in Nat /\ UintMax \in Nat /\ i.max <= UintMax
  BY UintMaxAssumption DEF Interval, Bound, UintMaxAssumption
<1>1. CASE i.integer /\ i.openmax
  <2>1. CloseMax(i) = [i EXCEPT !.max = i.max - 1, !.openmax = FALSE,
                               !.lifted = i.lifted \/ i.max = 0]
    <3>1. Down(i.max) = i.max - 1
      BY <1>0, <1>1 DEF Down
    <3>2. QED
      BY <1>1, <3>1 DEF CloseMax
  <2>2. PICK n \in Nat : p = n * q
    BY <1>1 DEF Multiple
  <2>3. p < i.max * q <=> p <= (i.max - 1) * q
    BY <1>0, <1>1, <2>2, NextMultiple
  <2>4. i.max - 1 \in Bound
    BY <1>0, <1>1 DEF Bound
  <2>5. QED
    BY <1>1, <2>1, <2>3, <2>4 DEF Interval, Below
<1>2. CASE ~(i.integer /\ i.openmax)
  BY <1>2 DEF CloseMax
<1>3. QED
  BY <1>1, <1>2

\* Closing a minimum yields an interval again.
LEMMA CloseMinType ==
  ASSUME NEW i \in Interval, i.openmin => i.min < UintMax
  PROVE  LET j == CloseMin(i)
         IN j \in Interval /\ j.integer = i.integer /\ j.max = i.max /\ j.openmax = i.openmax
<1>1. Up(i.min) \in Bound
  BY UintMaxAssumption DEF Up, Interval, Bound, UintMaxAssumption
<1>2. QED
  BY <1>1 DEF CloseMin, Interval

\* Closing a maximum yields an interval again.
LEMMA CloseMaxType ==
  ASSUME NEW i \in Interval, i.openmax => i.max > 0
  PROVE  LET j == CloseMax(i)
         IN j \in Interval /\ j.integer = i.integer
<1>1. Down(i.max) \in Bound
  BY UintMaxAssumption DEF Down, Interval, Bound, UintMaxAssumption
<1>2. QED
  BY <1>1 DEF CloseMax, Interval

(* What snd_interval_checkempty() calls empty holds no number.             *)
LEMMA NothingInEmpty ==
  ASSUME NEW i \in Interval, CheckEmpty(i), NEW p \in Nat, NEW q \in Nat \ {0}
  PROVE  ~(Above(i.min, i.openmin, p, q) /\ Below(i.max, i.openmax, p, q))
<1>0. i.min \in Nat /\ i.max \in Nat
  BY UintMaxAssumption DEF Interval, Bound, UintMaxAssumption
<1>1. i.min * q \in Nat /\ i.max * q \in Nat
  BY <1>0
<1>2. CASE i.min > i.max
  <2>1. i.max * q < i.min * q
    BY <1>0, <1>2, Scale
  <2>2. QED
    BY <1>1, <2>1 DEF Above, Below
<1>3. CASE i.min = i.max /\ (i.openmin \/ i.openmax)
  BY <1>1, <1>3 DEF Above, Below
<1>4. QED
  BY <1>2, <1>3 DEF CheckEmpty

(* A single closed point that a number lies on is an integer, so knowing it *)
(* for one takes nothing away.                                              *)
LEMMA KnowIntegerKeeps ==
  ASSUME NEW i \in Interval, NEW p \in Nat, NEW q \in Nat \ {0}
  PROVE  /\ KnowInteger(i) \in Interval
         /\ Holds(KnowInteger(i), p, q) <=> Holds(i, p, q)
<1>0. i.min \in Nat /\ i.max \in Nat
  BY UintMaxAssumption DEF Interval, Bound, UintMaxAssumption
<1>1. CASE ~i.openmin /\ ~i.openmax /\ i.min = i.max
  <2>1. KnowInteger(i) = [i EXCEPT !.integer = TRUE]
    BY <1>1 DEF KnowInteger
  <2>2. ASSUME Above(i.min, i.openmin, p, q), Below(i.max, i.openmax, p, q)
        PROVE  Multiple(p, q)
    <3>1. i.min * q \in Nat
      BY <1>0
    <3>2. p = i.min * q
      BY <1>1, <2>2, <3>1 DEF Above, Below
    <3>3. QED
      BY <1>0, <3>2 DEF Multiple
  <2>3. QED
    BY <2>1, <2>2, Multiples DEF Interval, Holds
<1>2. CASE ~(~i.openmin /\ ~i.openmax /\ i.min = i.max)
  BY <1>2 DEF KnowInteger
<1>3. QED
  BY <1>1, <1>2

\* Flagging an interval with crossed bounds as empty loses no number.
LEMMA FlaggedKeeps ==
  ASSUME NEW i \in Interval, NEW p \in Nat, NEW q \in Nat \ {0}
  PROVE  /\ Sound(Flagged(i))
         /\ Holds(Flagged(i), p, q) <=> Holds(i, p, q)
<1>1. CASE CheckEmpty(i)
  <2>1. Flagged(i) = [i EXCEPT !.empty = TRUE]
    BY <1>1 DEF Flagged, None
  <2>2. Flagged(i) \in Interval /\ Flagged(i).empty
    BY <2>1 DEF Interval
  <2>3. ~Holds(i, p, q)
    BY <1>1, NothingInEmpty DEF Holds
  <2>4. QED
    BY <2>2, <2>3 DEF Sound, Holds
<1>2. CASE ~CheckEmpty(i)
  BY <1>2 DEF Flagged, Sound
<1>3. QED
  BY <1>1, <1>2
-----------------------------------------------------------------------------
(* snd_interval_refine() is the intersection: whatever the two intervals,   *)
(* a number is left exactly if both have it, and what is left is flagged    *)
(* when it is nothing.  Rounding to integers, saturation and the wrap of    *)
(* min++ and max-- take no number away and add none.                        *)
THEOREM RefineIntersects ==
  ASSUME NEW i, Sound(i), NEW v, Sound(v), ~v.empty,
         NEW p \in Nat, NEW q \in Nat \ {0}
  PROVE  /\ Sound(Refine(i, v))
         /\ Holds(Refine(i, v), p, q) <=> Holds(i, p, q) /\ Holds(v, p, q)
<1>0. i \in Interval /\ v \in Interval
  BY DEF Sound
<1> DEFINE low  == RaiseMin(i, v.min, v.openmin)
           both == LowerMax(low, v.max, v.openmax)
           meet == Meet(i, v)
           up   == CloseMin(meet)
           down == CloseMax(up)
           known == KnowInteger(down)
<1>1. CASE i.empty
  BY <1>1 DEF Refine, Sound, Holds
<1>2. CASE ~i.empty
  <2>0. Refine(i, v) = Flagged(known)
    BY <1>2 DEF Refine
  <2>1. /\ v.min \in Bound /\ v.max \in Bound
        /\ v.openmin \in BOOLEAN /\ v.openmax \in BOOLEAN
        /\ i.integer \in BOOLEAN /\ v.integer \in BOOLEAN
    BY <1>0 DEF Interval
  <2>2. /\ low \in Interval
        /\ low.max = i.max /\ low.openmax = i.openmax
        /\ low.integer = i.integer /\ low.empty = i.empty
        /\ <<low.min, low.openmin>> \in {<<i.min, i.openmin>>, <<v.min, v.openmin>>}
        /\ Above(low.min, low.openmin, p, q) <=>
             Above(i.min, i.openmin, p, q) /\ Above(v.min, v.openmin, p, q)
    BY <1>0, <2>1, RaiseMinMeets
  <2>3. /\ both \in Interval
        /\ both.min = low.min /\ both.openmin = low.openmin
        /\ both.integer = low.integer /\ both.empty = low.empty
        /\ <<both.max, both.openmax>> \in {<<low.max, low.openmax>>, <<v.max, v.openmax>>}
        /\ Below(both.max, both.openmax, p, q) <=>
             Below(low.max, low.openmax, p, q) /\ Below(v.max, v.openmax, p, q)
    BY <2>1, <2>2, LowerMaxMeets
  <2>4. meet = [both EXCEPT !.integer = both.integer \/ v.integer]
    BY DEF Meet
  <2>5. /\ meet \in Interval
        /\ meet.min = both.min /\ meet.openmin = both.openmin
        /\ meet.max = both.max /\ meet.openmax = both.openmax
        /\ meet.empty = both.empty /\ meet.integer = (i.integer \/ v.integer)
    BY <2>1, <2>2, <2>3, <2>4 DEF Interval
  <2>6. /\ meet.openmin => meet.min < UintMax
        /\ meet.openmax => meet.max > 0
    <3>1. /\ i.openmin => i.min < UintMax
          /\ i.openmax => i.max > 0
          /\ v.openmin => v.min < UintMax
          /\ v.openmax => v.max > 0
      BY <1>0, <1>2, UintMaxAssumption
      DEF Sound, CheckEmpty, Interval, Bound, UintMaxAssumption
    <3>2. meet.openmin => meet.min < UintMax
      BY <2>2, <2>3, <2>5, <3>1
    <3>3. meet.openmax => meet.max > 0
      BY <2>2, <2>3, <2>5, <3>1
    <3>4. QED
      BY <3>2, <3>3
  <2>7. Holds(meet, p, q) <=> Holds(i, p, q) /\ Holds(v, p, q)
    BY <1>2, <2>2, <2>3, <2>5 DEF Holds
  <2>8. ASSUME meet.integer => Multiple(p, q)
        PROVE  Holds(known, p, q) <=> Holds(meet, p, q)
    <3>1. /\ up \in Interval
          /\ up.max = meet.max /\ up.openmax = meet.openmax
          /\ up.integer = meet.integer /\ up.empty = meet.empty
          /\ Above(up.min, up.openmin, p, q) <=> Above(meet.min, meet.openmin, p, q)
      BY <2>5, <2>6, <2>8, CloseMinKeeps
    <3>2. /\ down \in Interval
          /\ down.min = up.min /\ down.openmin = up.openmin
          /\ down.integer = up.integer /\ down.empty = up.empty
          /\ Below(down.max, down.openmax, p, q) <=> Below(up.max, up.openmax, p, q)
      BY <2>6, <2>8, <3>1, CloseMaxKeeps
    <3>3. Holds(down, p, q) <=> Holds(meet, p, q)
      BY <3>1, <3>2 DEF Holds
    <3>4. QED
      BY <3>2, <3>3, KnowIntegerKeeps
  <2>9. down \in Interval /\ down.integer = meet.integer
    BY <2>5, <2>6, CloseMinType, CloseMaxType
  <2>10. known \in Interval /\ (meet.integer => known.integer)
    BY <2>9 DEF KnowInteger, Interval
  <2>11. Holds(known, p, q) <=> Holds(meet, p, q)
    <3>1. CASE meet.integer => Multiple(p, q)
      BY <2>8, <3>1
    <3>2. CASE meet.integer /\ ~Multiple(p, q)
      BY <2>10, <3>2, Multiples DEF Holds
    <3>3. QED
      BY <3>1, <3>2
  <2>12. QED
    BY <2>0, <2>7, <2>10, <2>11, FlaggedKeeps
<1>3. QED
  BY <1>1, <1>2

(* set_min and set_max, without the rules: they leave what lies on the right *)
(* side of the bound.  That an open bound is not the last of its width is    *)
(* needed: snd_pcm_hw_params_set_max() of 0 with direction -1 refines by the *)
(* open bound 0, and max-- then wraps.                                       *)
THEOREM RefineBoundExact ==
  ASSUME NEW i, Sound(i), NEW bound \in Bound, NEW open \in BOOLEAN,
         NEW p \in Nat, NEW q \in Nat \ {0}
  PROVE  /\ (open => bound < UintMax) =>
              /\ Sound(RefineMin(i, bound, open))
              /\ Holds(RefineMin(i, bound, open), p, q) <=>
                   Holds(i, p, q) /\ Above(bound, open, p, q)
         /\ (open => bound > 0) =>
              /\ Sound(RefineMax(i, bound, open))
              /\ Holds(RefineMax(i, bound, open), p, q) <=>
                   Holds(i, p, q) /\ Below(bound, open, p, q)
<1>0. i \in Interval
  BY DEF Sound
<1>1. CASE i.empty
  BY <1>1 DEF RefineMin, RefineMax, Sound, Holds
<1>2. CASE ~i.empty
  <2>0. /\ i.openmin => i.min < UintMax
        /\ i.openmax => i.max > 0
        /\ i.integer \in BOOLEAN
    BY <1>0, <1>2, UintMaxAssumption
    DEF Sound, CheckEmpty, Interval, Bound, UintMaxAssumption
  <2>1. ASSUME open => bound < UintMax
        PROVE  /\ Sound(RefineMin(i, bound, open))
               /\ Holds(RefineMin(i, bound, open), p, q) <=>
                    Holds(i, p, q) /\ Above(bound, open, p, q)
    <3> DEFINE low == RaiseMin(i, bound, open)
               up  == CloseMin(low)
    <3>1. /\ low \in Interval
          /\ low.max = i.max /\ low.openmax = i.openmax
          /\ low.integer = i.integer /\ low.empty = i.empty
          /\ <<low.min, low.openmin>> \in {<<i.min, i.openmin>>, <<bound, open>>}
          /\ Above(low.min, low.openmin, p, q) <=>
               Above(i.min, i.openmin, p, q) /\ Above(bound, open, p, q)
      BY <1>0, RaiseMinMeets
    <3>2. low.openmin => low.min < UintMax
      BY <2>0, <2>1, <3>1
    <3>3. Holds(low, p, q) <=> Holds(i, p, q) /\ Above(bound, open, p, q)
      BY <3>1 DEF Holds
    <3>4. up \in Interval /\ up.integer = low.integer
      BY <3>1, <3>2, CloseMinType
    <3>5. CASE low.integer => Multiple(p, q)
      <4>1. /\ up.max = low.max /\ up.openmax = low.openmax
            /\ up.integer = low.integer /\ up.empty = low.empty
            /\ Above(up.min, up.openmin, p, q) <=> Above(low.min, low.openmin, p, q)
        BY <3>1, <3>2, <3>5, CloseMinKeeps
      <4>2. Holds(up, p, q) <=> Holds(low, p, q)
        BY <4>1 DEF Holds
      <4>3. QED
        BY <1>2, <3>3, <3>4, <4>2, FlaggedKeeps DEF RefineMin
    <3>6. CASE low.integer /\ ~Multiple(p, q)
      <4>1. ~Holds(up, p, q) /\ ~Holds(low, p, q)
        BY <3>4, <3>6, Multiples DEF Holds
      <4>2. QED
        BY <1>2, <3>3, <3>4, <4>1, FlaggedKeeps DEF RefineMin
    <3>7. QED
      BY <3>5, <3>6
  <2>2. ASSUME open => bound > 0
        PROVE  /\ Sound(RefineMax(i, bound, open))
               /\ Holds(RefineMax(i, bound, open), p, q) <=>
                    Holds(i, p, q) /\ Below(bound, open, p, q)
    <3> DEFINE high == LowerMax(i, bound, open)
               down == CloseMax(high)
    <3>1. /\ high \in Interval
          /\ high.min = i.min /\ high.openmin = i.openmin
          /\ high.integer = i.integer /\ high.empty = i.empty
          /\ <<high.max, high.openmax>> \in {<<i.max, i.openmax>>, <<bound, open>>}
          /\ Below(high.max, high.openmax, p, q) <=>
               Below(i.max, i.openmax, p, q) /\ Below(bound, open, p, q)
      BY <1>0, LowerMaxMeets
    <3>2. high.openmax => high.max > 0
      BY <2>0, <2>2, <3>1
    <3>3. Holds(high, p, q) <=> Holds(i, p, q) /\ Below(bound, open, p, q)
      BY <3>1 DEF Holds
    <3>4. down \in Interval /\ down.integer = high.integer
      BY <3>1, <3>2, CloseMaxType
    <3>5. CASE high.integer => Multiple(p, q)
      <4>1. /\ down.min = high.min /\ down.openmin = high.openmin
            /\ down.integer = high.integer /\ down.empty = high.empty
            /\ Below(down.max, down.openmax, p, q) <=> Below(high.max, high.openmax, p, q)
        BY <3>1, <3>2, <3>5, CloseMaxKeeps
      <4>2. Holds(down, p, q) <=> Holds(high, p, q)
        BY <4>1 DEF Holds
      <4>3. QED
        BY <1>2, <3>3, <3>4, <4>2, FlaggedKeeps DEF RefineMax
    <3>6. CASE high.integer /\ ~Multiple(p, q)
      <4>1. ~Holds(down, p, q) /\ ~Holds(high, p, q)
        BY <3>4, <3>6, Multiples DEF Holds
      <4>2. QED
        BY <1>2, <3>3, <3>4, <4>1, FlaggedKeeps DEF RefineMax
    <3>7. QED
      BY <3>5, <3>6
  <2>3. QED
    BY <2>1, <2>2
<1>3. QED
  BY <1>1, <1>2

-----------------------------------------------------------------------------
(* Arithmetic.                                                             *)

\* Products are monotone, strictly if one side is and the other's upper operand
\* is positive.
LEMMA Product ==
  ASSUME NEW a \in Nat, NEW b \in Nat, NEW c \in Nat, NEW d \in Nat, a <= b, c <= d
  PROVE  /\ a * c \in Nat /\ b * d \in Nat
         /\ a * c <= b * d
         /\ a < b /\ d > 0 => a * c < b * d
         /\ c < d /\ b > 0 => a * c < b * d
<1>1. a * c \in Nat /\ a * d \in Nat /\ b * c \in Nat /\ b * d \in Nat
  OBVIOUS
<1>2. ASSUME NEW x \in Nat, NEW y \in Nat, NEW z \in Nat, x <= y
      PROVE  x * z <= y * z /\ z * x <= z * y
  <2>1. PICK e \in Nat : y = x + e
    BY <1>2, y - x \in Nat, y = x + (y - x)
  <2>2. y * z = x * z + e * z /\ z * y = z * x + e * z
    BY <2>1
  <2>3. x * z \in Nat /\ e * z \in Nat /\ z * x \in Nat
    BY <2>1
  <2>4. QED
    BY <2>2, <2>3
<1>3. a * c <= a * d /\ a * d <= b * d
  BY <1>2
<1>4. a < b /\ d > 0 => a * d < b * d
  BY Scale
<1>5. ASSUME c < d, b > 0
      PROVE  a * c < b * d
  <2>1. a * c <= b * c
    BY <1>2
  <2>2. c * b < d * b
    BY <1>5, Scale
  <2>3. b * c = c * b /\ b * d = d * b
    OBVIOUS
  <2>4. QED
    BY <1>1, <2>1, <2>2, <2>3
<1>6. QED
  BY <1>1, <1>3, <1>4, <1>5

(* The product of two intervals has the product of any two of their numbers, *)
(* as long as that is less than the greatest bound.                          *)
THEOREM MulHolds ==
  ASSUME NEW a \in Interval, NEW b \in Interval,
         NEW p \in Nat \ {0}, NEW q \in Nat \ {0}, NEW r \in Nat \ {0}, NEW s \in Nat \ {0},
         Holds(a, p, q), Holds(b, r, s), p * r < UintMax * (q * s)
  PROVE  Mul(a, b) \in Interval /\ Holds(Mul(a, b), p * r, q * s)
<1> DEFINE m == a.min * b.min
           M == a.max * b.max
<1>0. /\ a.min \in Nat /\ a.max \in Nat /\ b.min \in Nat /\ b.max \in Nat
      /\ a.openmin \in BOOLEAN /\ a.openmax \in BOOLEAN
      /\ b.openmin \in BOOLEAN /\ b.openmax \in BOOLEAN
      /\ a.integer \in BOOLEAN /\ b.integer \in BOOLEAN /\ UintMax \in Nat
  BY UintMaxAssumption DEF Interval, Bound, UintMaxAssumption
<1>1. /\ m \in Nat /\ M \in Nat /\ q * s \in Nat \ {0} /\ p * r \in Nat
      /\ a.min * q \in Nat /\ b.min * s \in Nat /\ a.max * q \in Nat /\ b.max * s \in Nat
  BY <1>0, Product
<1>2. Saturate(m) \in Bound /\ Saturate(M) \in Bound /\ Saturate(m) <= m
      /\ (Saturate(M) = M \/ Saturate(M) = UintMax)
  BY <1>0, <1>1 DEF Saturate, Bound
<1>3. Above(Saturate(m), a.openmin \/ b.openmin, p * r, q * s)
  <2>1. /\ a.min * q <= p /\ (a.openmin => a.min * q < p)
        /\ b.min * s <= r /\ (b.openmin => b.min * s < r)
    BY <1>0, <1>1 DEF Holds, Above
  <2>2. /\ (a.min * q) * (b.min * s) <= p * r
        /\ a.openmin \/ b.openmin => (a.min * q) * (b.min * s) < p * r
    BY <1>1, <2>1, Product
  <2>3. m * (q * s) = (a.min * q) * (b.min * s)
    BY <1>0
  <2>4. Saturate(m) * (q * s) <= m * (q * s) /\ Saturate(m) * (q * s) \in Nat
        /\ m * (q * s) \in Nat
    BY <1>1, <1>2, Product DEF Bound
  <2>5. QED
    BY <1>1, <2>2, <2>3, <2>4 DEF Above
<1>4. Below(Saturate(M), a.openmax \/ b.openmax, p * r, q * s)
  <2>1. CASE Saturate(M) = UintMax
    BY <1>0, <1>1, <2>1 DEF Below
  <2>2. CASE Saturate(M) = M
    <3>1. /\ p <= a.max * q /\ (a.openmax => p < a.max * q)
          /\ r <= b.max * s /\ (b.openmax => r < b.max * s)
      BY <1>0, <1>1 DEF Holds, Below
    <3>2. /\ p * r <= (a.max * q) * (b.max * s)
          /\ a.openmax \/ b.openmax => p * r < (a.max * q) * (b.max * s)
      BY <1>1, <3>1, Product
    <3>3. M * (q * s) = (a.max * q) * (b.max * s)
      BY <1>0
    <3>4. QED
      BY <1>1, <2>2, <3>2, <3>3 DEF Below
  <2>3. QED
    BY <1>2, <2>1, <2>2
<1>5. a.integer /\ b.integer => (p * r) % (q * s) = 0
  <2>1. SUFFICES ASSUME a.integer, b.integer
                 PROVE  Multiple(p * r, q * s)
    BY <1>1, Multiples
  <2>2. PICK k \in Nat : p = k * q
    BY <2>1, Multiples DEF Holds, Multiple
  <2>3. PICK l \in Nat : r = l * s
    BY <2>1, Multiples DEF Holds, Multiple
  <2>4. p * r = (k * l) * (q * s) /\ k * l \in Nat
    BY <2>2, <2>3
  <2>5. QED
    BY <2>4 DEF Multiple
<1>6. QED
  BY <1>0, <1>2, <1>3, <1>4, <1>5 DEF Mul, Interval, Holds

(* What Quotients makes of its least and greatest quotient has every number *)
(* that lies between them.                                                  *)
LEMMA QuotientsHold ==
  ASSUME NEW n \in Nat, NEW d \in Nat \ {0}, NEW open \in BOOLEAN,
         NEW N \in Nat, NEW D \in Nat, NEW Open \in BOOLEAN,
         NEW v \in Nat, NEW w \in Nat \ {0}, v < UintMax * w,
         n * w <= v * d, open => n * w < v * d,
         v * D <= N * w, Open /\ D > 0 => v * D < N * w
  PROVE  /\ Quotients(n, d, open, N, D, Open) \in Interval
         /\ Holds(Quotients(n, d, open, N, D, Open), v, w)
<1> DEFINE m == Quotient(n, d)
           M == Quotient(N, D) + (IF Remains(N, D) THEN 1 ELSE 0)
<1>0. UintMax \in Nat
  BY UintMaxAssumption DEF UintMaxAssumption
<1>1. /\ n \div d \in Nat /\ n % d \in 0 .. d - 1
      /\ n = (n \div d) * d + (n % d)
  BY Division
<1>2. m \in Bound /\ m <= n \div d /\ m \in Nat
  BY <1>0, <1>1 DEF Quotient, Saturate, Bound
<1>3. /\ m * d <= n /\ (Remains(n, d) => m * d < n)
      /\ m * d \in Nat
  <2>1. m * d <= (n \div d) * d /\ m * d \in Nat /\ (n \div d) * d \in Nat
    BY <1>1, <1>2, Product
  <2>2. QED
    BY <1>1, <2>1 DEF Remains
<1>4. Above(m, Remains(n, d) \/ open, v, w)
  <2>1. /\ (m * d) * w <= n * w /\ (Remains(n, d) => (m * d) * w < n * w)
        /\ (m * d) * w \in Nat /\ n * w \in Nat /\ v * d \in Nat
    BY <1>3, Scale
  <2>2. (m * d) * w = (m * w) * d /\ m * w \in Nat
    BY <1>2
  <2>3. /\ (m * w) * d <= v * d
        /\ Remains(n, d) \/ open => (m * w) * d < v * d
    BY <2>1, <2>2
  <2>4. /\ m * w <= v
        /\ Remains(n, d) \/ open => m * w < v
    BY <2>2, <2>3, Scale
  <2>5. QED
    BY <2>4 DEF Above
<1>5. M \in Bound /\ Below(M, Remains(N, D) \/ Open, v, w)
  <2>1. CASE D = 0 \/ N \div D >= UintMax
    <3>1. M = UintMax
      <4>1. CASE D = 0
        BY <1>0, <4>1 DEF Quotient, Remains
      <4>2. CASE D # 0
        <5>1. N \div D \in Nat
          BY <4>2, Division
        <5>2. QED
          BY <1>0, <2>1, <4>2, <5>1 DEF Quotient, Remains, Saturate
      <4>3. QED
        BY <4>1, <4>2
    <3>2. v < UintMax * w /\ UintMax * w \in Nat
      BY <1>0
    <3>3. QED
      BY <1>0, <3>1, <3>2 DEF Below, Bound
  <2>2. CASE D # 0 /\ N \div D < UintMax
    <3>1. /\ N \div D \in Nat /\ N % D \in 0 .. D - 1
          /\ N = (N \div D) * D + (N % D)
      BY <2>2, Division
    <3>2. Quotient(N, D) = N \div D /\ (Remains(N, D) <=> N % D # 0)
      BY <1>0, <2>2, <3>1 DEF Quotient, Remains, Saturate
    <3>3. M \in Nat /\ M \in Bound
      BY <1>0, <2>2, <3>1, <3>2 DEF Bound
    <3>4. N <= M * D /\ (Remains(N, D) => N < M * D) /\ M * D \in Nat
      <4>1. CASE N % D = 0
        BY <3>1, <3>2, <3>3, <4>1
      <4>2. CASE N % D # 0
        <5>1. M * D = (N \div D) * D + D
          BY <3>1, <3>2, <4>2
        <5>2. (N \div D) * D \in Nat
          BY <3>1
        <5>3. QED
          BY <2>2, <3>1, <3>3, <5>1, <5>2
      <4>3. QED
        BY <4>1, <4>2
    <3>5. /\ N * w <= (M * D) * w /\ (Remains(N, D) => N * w < (M * D) * w)
          /\ N * w \in Nat /\ v * D \in Nat
      BY <3>4, Scale
    <3>6. (M * D) * w = (M * w) * D /\ M * w \in Nat
      BY <3>3
    <3>7. /\ v * D <= (M * w) * D
          /\ Remains(N, D) \/ Open => v * D < (M * w) * D
      BY <2>2, <3>5, <3>6
    <3>8. /\ v <= M * w
          /\ Remains(N, D) \/ Open => v < M * w
      BY <2>2, <3>6, <3>7, Scale
    <3>9. QED
      BY <3>3, <3>8 DEF Below
  <2>3. QED
    BY <1>0, <2>1, <2>2, Division
<1>6. Remains(n, d) \in BOOLEAN /\ Remains(N, D) \in BOOLEAN
  BY DEF Remains
<1>7. QED
  BY <1>2, <1>4, <1>5, <1>6 DEF Quotients, Interval, Holds

(* a * k / b has the quotient of any two numbers of a and b that are not 0: *)
(* rounding outwards and the openness of a rounded bound lose none.         *)
THEOREM MulKDivHolds ==
  ASSUME NEW a \in Interval, NEW b \in Interval, NEW k \in Nat \ {0},
         NEW p \in Nat \ {0}, NEW q \in Nat \ {0}, NEW r \in Nat \ {0}, NEW s \in Nat \ {0},
         Holds(a, p, q), Holds(b, r, s), p * k * s < UintMax * (q * r)
  PROVE  MulKDiv(a, k, b) \in Interval /\ Holds(MulKDiv(a, k, b), p * k * s, q * r)
<1> DEFINE v == p * k * s
           w == q * r
<1>0. /\ a.min \in Nat /\ a.max \in Nat /\ b.min \in Nat /\ b.max \in Nat
      /\ a.openmin \in BOOLEAN /\ a.openmax \in BOOLEAN
      /\ b.openmin \in BOOLEAN /\ b.openmax \in BOOLEAN
  BY UintMaxAssumption DEF Interval, Bound, UintMaxAssumption
<1>1. /\ v \in Nat /\ w \in Nat \ {0} /\ a.min * k \in Nat /\ a.max * k \in Nat
      /\ a.min * q \in Nat /\ b.min * s \in Nat /\ a.max * q \in Nat /\ b.max * s \in Nat
      /\ (a.min * q) * r \in Nat /\ p * (b.max * s) \in Nat
      /\ p * (b.min * s) \in Nat /\ (a.max * q) * r \in Nat
  BY <1>0
<1>2. /\ a.min * q <= p /\ (a.openmin => a.min * q < p)
      /\ p <= a.max * q /\ (a.openmax => p < a.max * q)
      /\ b.min * s <= r /\ (b.openmin => b.min * s < r)
      /\ r <= b.max * s /\ (b.openmax => r < b.max * s)
  BY <1>0, <1>1 DEF Holds, Above, Below
<1>3. b.max # 0
  BY <1>0, <1>2
<1>4. /\ (a.min * k) * w <= v * b.max
      /\ a.openmin \/ b.openmax => (a.min * k) * w < v * b.max
  <2>1. /\ (a.min * q) * r <= p * (b.max * s)
        /\ a.openmin \/ b.openmax => (a.min * q) * r < p * (b.max * s)
    BY <1>1, <1>2, Product
  <2>2. /\ ((a.min * q) * r) * k <= (p * (b.max * s)) * k
        /\ a.openmin \/ b.openmax => ((a.min * q) * r) * k < (p * (b.max * s)) * k
    BY <1>1, <2>1, Scale
  <2>3. /\ (a.min * k) * w = ((a.min * q) * r) * k
        /\ v * b.max = (p * (b.max * s)) * k
    BY <1>0
  <2>4. QED
    BY <2>2, <2>3
<1>5. /\ v * b.min <= (a.max * k) * w
      /\ a.openmax \/ b.openmin => v * b.min < (a.max * k) * w
  <2>1. /\ p * (b.min * s) <= (a.max * q) * r
        /\ a.openmax \/ b.openmin => p * (b.min * s) < (a.max * q) * r
    BY <1>1, <1>2, Product
  <2>2. /\ (p * (b.min * s)) * k <= ((a.max * q) * r) * k
        /\ a.openmax \/ b.openmin => (p * (b.min * s)) * k < ((a.max * q) * r) * k
    BY <1>1, <2>1, Scale
  <2>3. /\ (a.max * k) * w = ((a.max * q) * r) * k
        /\ v * b.min = (p * (b.min * s)) * k
    BY <1>0
  <2>4. QED
    BY <2>2, <2>3
<1>6. QED
  BY <1>0, <1>1, <1>3, <1>4, <1>5, QuotientsHold DEF MulKDiv

(* So does a / b.                                                          *)
COROLLARY DivHolds ==
  ASSUME NEW a \in Interval, NEW b \in Interval,
         NEW p \in Nat \ {0}, NEW q \in Nat \ {0}, NEW r \in Nat \ {0}, NEW s \in Nat \ {0},
         Holds(a, p, q), Holds(b, r, s), p * s < UintMax * (q * r)
  PROVE  Div(a, b) \in Interval /\ Holds(Div(a, b), p * s, q * r)
<1>1. p * 1 * s = p * s
  OBVIOUS
<1>2. QED
  BY <1>1, MulKDivHolds DEF Div

(* And a * b / k the product.                                              *)
THEOREM MulDivKHolds ==
  ASSUME NEW a \in Interval, NEW b \in Interval, NEW k \in Nat \ {0},
         NEW p \in Nat \ {0}, NEW q \in Nat \ {0}, NEW r \in Nat \ {0}, NEW s \in Nat \ {0},
         Holds(a, p, q), Holds(b, r, s), p * r < UintMax * (q * s * k)
  PROVE  MulDivK(a, b, k) \in Interval /\ Holds(MulDivK(a, b, k), p * r, q * s * k)
<1> DEFINE v == p * r
           w == q * s * k
<1>0. /\ a.min \in Nat /\ a.max \in Nat /\ b.min \in Nat /\ b.max \in Nat
      /\ a.openmin \in BOOLEAN /\ a.openmax \in BOOLEAN
      /\ b.openmin \in BOOLEAN /\ b.openmax \in BOOLEAN
  BY UintMaxAssumption DEF Interval, Bound, UintMaxAssumption
<1>1. /\ v \in Nat /\ w \in Nat \ {0} /\ a.min * b.min \in Nat /\ a.max * b.max \in Nat
      /\ a.min * q \in Nat /\ b.min * s \in Nat /\ a.max * q \in Nat /\ b.max * s \in Nat
      /\ (a.min * q) * (b.min * s) \in Nat /\ (a.max * q) * (b.max * s) \in Nat
  BY <1>0
<1>2. /\ a.min * q <= p /\ (a.openmin => a.min * q < p)
      /\ p <= a.max * q /\ (a.openmax => p < a.max * q)
      /\ b.min * s <= r /\ (b.openmin => b.min * s < r)
      /\ r <= b.max * s /\ (b.openmax => r < b.max * s)
  BY <1>0, <1>1 DEF Holds, Above, Below
<1>3. /\ (a.min * b.min) * w <= v * k
      /\ a.openmin \/ b.openmin => (a.min * b.min) * w < v * k
  <2>1. /\ (a.min * q) * (b.min * s) <= p * r
        /\ a.openmin \/ b.openmin => (a.min * q) * (b.min * s) < p * r
    BY <1>1, <1>2, Product
  <2>2. /\ ((a.min * q) * (b.min * s)) * k <= (p * r) * k
        /\ a.openmin \/ b.openmin => ((a.min * q) * (b.min * s)) * k < (p * r) * k
    BY <1>1, <2>1, Scale
  <2>3. (a.min * b.min) * w = ((a.min * q) * (b.min * s)) * k
    BY <1>0
  <2>4. QED
    BY <2>2, <2>3
<1>4. /\ v * k <= (a.max * b.max) * w
      /\ a.openmax \/ b.openmax => v * k < (a.max * b.max) * w
  <2>1. /\ p * r <= (a.max * q) * (b.max * s)
        /\ a.openmax \/ b.openmax => p * r < (a.max * q) * (b.max * s)
    BY <1>1, <1>2, Product
  <2>2. /\ (p * r) * k <= ((a.max * q) * (b.max * s)) * k
        /\ a.openmax \/ b.openmax => (p * r) * k < ((a.max * q) * (b.max * s)) * k
    BY <1>1, <2>1, Scale
  <2>3. (a.max * b.max) * w = ((a.max * q) * (b.max * s)) * k
    BY <1>0
  <2>4. QED
    BY <2>2, <2>3
<1>5. QED
  BY <1>0, <1>1, <1>3, <1>4, QuotientsHold DEF MulDivK

-----------------------------------------------------------------------------
(* The rules.                                                              *)

Num(c, var) == Value(c, var)[1]
Den(c, var) == Value(c, var)[2]

\* The values of a configuration stay below the greatest bound.
Countable(c) == \A var \in Vars : Num(c, var) < UintMax * Den(c, var)

\* A space as refinement keeps it.
SoundSpace(p) == p \in Spaces /\ \A var \in Vars : Sound(p.ivl[var])

-----------------------------------------------------------------------------

(* Two fractions of the same number.                                       *)
LEMMA SameNumber ==
  ASSUME NEW i \in Interval, NEW p \in Nat, NEW q \in Nat \ {0},
         NEW r \in Nat, NEW s \in Nat \ {0}, p * s = r * q, Holds(i, p, q)
  PROVE  Holds(i, r, s)
<1>0. i.min \in Nat /\ i.max \in Nat /\ i.openmin \in BOOLEAN /\ i.openmax \in BOOLEAN
      /\ i.integer \in BOOLEAN
  BY UintMaxAssumption DEF Interval, Bound, UintMaxAssumption
<1>1. /\ i.min * q \in Nat /\ i.max * q \in Nat /\ i.min * s \in Nat /\ i.max * s \in Nat
      /\ p * s \in Nat /\ r * q \in Nat
  BY <1>0
<1>2. Above(i.min, i.openmin, r, s)
  <2>1. /\ i.min * q <= p => (i.min * q) * s <= p * s
        /\ i.min * q < p => (i.min * q) * s < p * s
    BY <1>1, Scale
  <2>2. (i.min * q) * s = (i.min * s) * q
    BY <1>0
  <2>3. /\ (i.min * s) * q <= r * q => i.min * s <= r
        /\ (i.min * s) * q < r * q => i.min * s < r
    BY <1>1, Scale
  <2>4. QED
    BY <1>0, <2>1, <2>2, <2>3 DEF Holds, Above
<1>3. Below(i.max, i.openmax, r, s)
  <2>1. /\ p <= i.max * q => p * s <= (i.max * q) * s
        /\ p < i.max * q => p * s < (i.max * q) * s
    BY <1>1, Scale
  <2>2. (i.max * q) * s = (i.max * s) * q
    BY <1>0
  <2>3. /\ r * q <= (i.max * s) * q => r <= i.max * s
        /\ r * q < (i.max * s) * q => r < i.max * s
    BY <1>1, Scale
  <2>4. QED
    BY <1>0, <2>1, <2>2, <2>3 DEF Holds, Below
<1>4. i.integer => r % s = 0
  <2>1. SUFFICES ASSUME i.integer
                 PROVE  Multiple(r, s)
    BY Multiples
  <2>2. PICK n \in Nat : p = n * q
    BY <2>1, Multiples DEF Holds, Multiple
  <2>3. (n * s) * q = r * q /\ n * s \in Nat
    BY <2>2
  <2>4. n * s = r
    <3>1. n * s <= r /\ r <= n * s
      BY <2>3, Scale
    <3>2. QED
      BY <2>3, <3>1
  <2>5. QED
    BY <2>4 DEF Multiple
<1>5. QED
  BY <1>2, <1>3, <1>4 DEF Holds

(* The parts of a value are positive.                                      *)
LEMMA ValueType ==
  ASSUME NEW c \in Configurations, NEW var \in Vars
  PROVE  Num(c, var) \in Nat \ {0} /\ Den(c, var) \in Nat \ {0}
<1>1. /\ c.channels \in Nat \ {0} /\ c.rate \in Nat \ {0} /\ c.period_size \in Nat \ {0}
      /\ c.periods \in Nat \ {0} /\ Width[c.format] \in Nat \ {0} /\ TimeUnit \in Nat \ {0}
  BY HwRulesAssumption, UintMaxAssumption
  DEF Configurations, Formats, HwRulesAssumption, UintMaxAssumption
<1> DEFINE bits == Width[c.format] * c.channels
           size == c.period_size * c.periods
<1>2. /\ bits \in Nat \ {0} /\ size \in Nat \ {0}
      /\ c.period_size * TimeUnit \in Nat \ {0} /\ size * TimeUnit \in Nat \ {0}
  BY <1>1
<1>3. c.period_size * bits \in Nat \ {0} /\ size * bits \in Nat \ {0}
  BY <1>1, <1>2
<1>4. Value(c, var) \in {<<Width[c.format], 1>>, <<bits, 1>>, <<c.channels, 1>>, <<c.rate, 1>>,
        <<c.period_size * TimeUnit, c.rate>>, <<c.period_size, 1>>, <<c.period_size * bits, 8>>,
        <<c.periods, 1>>, <<size * TimeUnit, c.rate>>, <<size, 1>>, <<size * bits, 8>>}
  BY DEF Value, Vars
<1>5. QED
  BY <1>1, <1>2, <1>3, <1>4 DEF Num, Den

(* A parameter whose interval still has its value keeps the configuration.  *)
LEMMA NarrowedTo ==
  ASSUME NEW p, SoundSpace(p), NEW c \in Configurations, InSpace(c, p),
         NEW var \in Vars, NEW i, Sound(i), Holds(i, Num(c, var), Den(c, var))
  PROVE  LET n == Narrowed(p, var, i)
         IN n.st = "ok" /\ SoundSpace(n.p) /\ InSpace(c, n.p)
<1> DEFINE q == [p EXCEPT !.ivl[var] = i]
<1>1. ~i.empty /\ i \in Interval
  BY DEF Holds, Sound
<1>2. Narrowed(p, var, i) = [p |-> q, st |-> "ok"]
  BY <1>1 DEF Narrowed, Ok
<1>3. /\ q \in Spaces /\ q.format = p.format
      /\ \A x \in Vars : q.ivl[x] = IF x = var THEN i ELSE p.ivl[x]
  BY <1>1 DEF SoundSpace, Spaces
<1>4. SoundSpace(q)
  BY <1>3 DEF SoundSpace
<1>5. InSpace(c, q)
  BY <1>3 DEF InSpace, Num, Den
<1>6. QED
  BY <1>2, <1>4, <1>5

(* So does one that is refined by an interval that has it.                  *)
LEMMA NarrowedKeeps ==
  ASSUME NEW p, SoundSpace(p), NEW c \in Configurations, InSpace(c, p),
         NEW var \in Vars, NEW t \in Interval, Holds(t, Num(c, var), Den(c, var))
  PROVE  LET n == Narrowed(p, var, Refine(p.ivl[var], t))
         IN n.st = "ok" /\ SoundSpace(n.p) /\ InSpace(c, n.p)
<1> DEFINE i == Refine(p.ivl[var], t)
<1>1. Num(c, var) \in Nat /\ Den(c, var) \in Nat \ {0}
  BY ValueType
<1>2. Sound(t) /\ ~t.empty
  BY <1>1, NothingInEmpty DEF Sound, Holds
<1>3. Sound(p.ivl[var]) /\ Holds(p.ivl[var], Num(c, var), Den(c, var))
  BY DEF SoundSpace, InSpace, Num, Den
<1>4. Sound(i) /\ Holds(i, Num(c, var), Den(c, var))
  BY <1>1, <1>2, <1>3, RefineIntersects
<1>5. QED
  BY <1>4, NarrowedTo

-----------------------------------------------------------------------------
(* The rules on intervals, by their functions.                             *)

Kept(c, a) == a.st = "ok" /\ SoundSpace(a.p) /\ InSpace(c, a.p)

(* A fraction equal to one below the limit is below it.                    *)
LEMMA BelowLimit ==
  ASSUME NEW v \in Nat, NEW w \in Nat \ {0}, NEW n \in Nat, NEW d \in Nat \ {0},
         v * d = n * w, n < UintMax * d
  PROVE  v < UintMax * w
<1>0. UintMax \in Nat
  BY UintMaxAssumption DEF UintMaxAssumption
<1>1. n * w < (UintMax * d) * w
  BY <1>0, Scale
<1>2. (UintMax * d) * w = (UintMax * w) * d /\ UintMax * w \in Nat
  BY <1>0
<1>3. v * d < (UintMax * w) * d
  BY <1>1, <1>2
<1>4. QED
  BY <1>2, <1>3, Scale

(* From what the function of a rule computes to what the rule does.        *)
LEMMA ComputedKeeps ==
  ASSUME NEW p, SoundSpace(p), NEW c \in Configurations, InSpace(c, p),
         NEW r, r.var \in Vars, r.deps[1] \in Vars, r.deps[2] \in Vars,
         r.op \in {"mul", "div", "mulkdiv", "muldivk"},
         Computed(p, r) \in Interval,
         NEW v \in Nat, NEW w \in Nat \ {0}, Holds(Computed(p, r), v, w),
         v * Den(c, r.var) = Num(c, r.var) * w
  PROVE  Kept(c, Applied(p, r))
<1> DEFINE a == p.ivl[r.deps[1]]
           b == p.ivl[r.deps[2]]
           t == Computed(p, r)
           i == p.ivl[r.var]
           n == Narrowed(p, r.var, Refine(i, t))
<1>1. /\ Num(c, r.var) \in Nat /\ Den(c, r.var) \in Nat \ {0}
      /\ Num(c, r.deps[1]) \in Nat \ {0} /\ Den(c, r.deps[1]) \in Nat \ {0}
  BY ValueType
<1>2. Holds(t, Num(c, r.var), Den(c, r.var))
  BY <1>1, SameNumber
<1>3. n.st = "ok" /\ SoundSpace(n.p) /\ InSpace(c, n.p)
  BY <1>2, NarrowedKeeps
<1>4. /\ Holds(a, Num(c, r.deps[1]), Den(c, r.deps[1]))
      /\ Holds(b, Num(c, r.deps[2]), Den(c, r.deps[2]))
  BY DEF InSpace, Num, Den
<1>5. Defined(a, b)
  BY <1>4 DEF Defined, Holds
<1>6. b \in Interval /\ Num(c, r.deps[2]) \in Nat \ {0} /\ Den(c, r.deps[2]) \in Nat \ {0}
  BY ValueType DEF SoundSpace, Spaces
<1>7. b.max \in Nat /\ b.openmax \in BOOLEAN
  BY <1>6, UintMaxAssumption DEF Interval, Bound, UintMaxAssumption
<1>8. b.max > 0
  BY <1>4, <1>6, <1>7 DEF Holds, Below
<1>9. Divides(a, b)
  BY <1>8 DEF Divides
<1>10. /\ Applied(p, r).p = n.p
       /\ Applied(p, r).st = n.st
  BY <1>5, <1>9 DEF Applied
<1>11. QED
  BY <1>3, <1>10 DEF Kept

\* A rule that multiplies keeps the product of the two values.
LEMMA MulRule ==
  ASSUME NEW p, SoundSpace(p), NEW c \in Configurations, InSpace(c, p), Countable(c),
         NEW var \in Vars, NEW x \in Vars, NEW y \in Vars, NEW k,
         (Num(c, x) * Num(c, y)) * Den(c, var) = Num(c, var) * (Den(c, x) * Den(c, y))
  PROVE  Kept(c, Applied(p, IntervalRule(var, "mul", x, y, k)))
<1> DEFINE r == IntervalRule(var, "mul", x, y, k)
           v == Num(c, x) * Num(c, y)
           w == Den(c, x) * Den(c, y)
<1>1. r.var = var /\ r.op = "mul" /\ r.deps[1] = x /\ r.deps[2] = y /\ r.k = k
  BY DEF IntervalRule
<1>2. /\ Num(c, x) \in Nat \ {0} /\ Den(c, x) \in Nat \ {0}
      /\ Num(c, y) \in Nat \ {0} /\ Den(c, y) \in Nat \ {0}
      /\ Num(c, var) \in Nat \ {0} /\ Den(c, var) \in Nat \ {0}
  BY ValueType
<1>3. v \in Nat /\ w \in Nat \ {0}
  BY <1>2
<1>4. v < UintMax * w
  BY <1>2, <1>3, BelowLimit DEF Countable
<1>5. /\ p.ivl[x] \in Interval /\ Holds(p.ivl[x], Num(c, x), Den(c, x))
      /\ p.ivl[y] \in Interval /\ Holds(p.ivl[y], Num(c, y), Den(c, y))
  BY DEF SoundSpace, Spaces, InSpace, Num, Den
<1>6. Computed(p, r) = Mul(p.ivl[x], p.ivl[y])
  BY <1>1 DEF Computed
<1>7. Computed(p, r) \in Interval /\ Holds(Computed(p, r), v, w)
  <2>1. Num(c, x) * Num(c, y) < UintMax * (Den(c, x) * Den(c, y))
    BY <1>4
  <2>2. /\ Mul(p.ivl[x], p.ivl[y]) \in Interval
        /\ Holds(Mul(p.ivl[x], p.ivl[y]), Num(c, x) * Num(c, y), Den(c, x) * Den(c, y))
    BY <1>2, <1>5, <2>1, MulHolds
  <2>3. QED
    BY <1>6, <2>2
<1>8. QED
  BY <1>1, <1>3, <1>7, ComputedKeeps

\* A rule a * k / b keeps the value it stands for, and divides by no [0, 0].
LEMMA MulKDivRule ==
  ASSUME NEW p, SoundSpace(p), NEW c \in Configurations, InSpace(c, p), Countable(c),
         NEW var \in Vars, NEW x \in Vars, NEW y \in Vars, NEW k \in Nat \ {0},
         (Num(c, x) * k * Den(c, y)) * Den(c, var) = Num(c, var) * (Den(c, x) * Num(c, y))
  PROVE  Kept(c, Applied(p, IntervalRule(var, "mulkdiv", x, y, k)))
<1> DEFINE r == IntervalRule(var, "mulkdiv", x, y, k)
           v == Num(c, x) * k * Den(c, y)
           w == Den(c, x) * Num(c, y)
<1>1. r.var = var /\ r.op = "mulkdiv" /\ r.deps[1] = x /\ r.deps[2] = y /\ r.k = k
  BY DEF IntervalRule
<1>2. /\ Num(c, x) \in Nat \ {0} /\ Den(c, x) \in Nat \ {0}
      /\ Num(c, y) \in Nat \ {0} /\ Den(c, y) \in Nat \ {0}
      /\ Num(c, var) \in Nat \ {0} /\ Den(c, var) \in Nat \ {0}
  BY ValueType
<1>3. v \in Nat /\ w \in Nat \ {0}
  BY <1>2
<1>4. v < UintMax * w
  BY <1>2, <1>3, BelowLimit DEF Countable
<1>5. /\ p.ivl[x] \in Interval /\ Holds(p.ivl[x], Num(c, x), Den(c, x))
      /\ p.ivl[y] \in Interval /\ Holds(p.ivl[y], Num(c, y), Den(c, y))
  BY DEF SoundSpace, Spaces, InSpace, Num, Den
<1>6. Computed(p, r) = MulKDiv(p.ivl[x], k, p.ivl[y])
  BY <1>1 DEF Computed
<1>7. Computed(p, r) \in Interval /\ Holds(Computed(p, r), v, w)
  <2>1. Num(c, x) * k * Den(c, y) < UintMax * (Den(c, x) * Num(c, y))
    BY <1>4
  <2>2. /\ MulKDiv(p.ivl[x], k, p.ivl[y]) \in Interval
        /\ Holds(MulKDiv(p.ivl[x], k, p.ivl[y]), Num(c, x) * k * Den(c, y), Den(c, x) * Num(c, y))
    BY <1>2, <1>5, <2>1, MulKDivHolds
  <2>3. QED
    BY <1>6, <2>2
<1>8. QED
  BY <1>1, <1>3, <1>7, ComputedKeeps

\* A rule that divides keeps the quotient.
LEMMA DivRule ==
  ASSUME NEW p, SoundSpace(p), NEW c \in Configurations, InSpace(c, p), Countable(c),
         NEW var \in Vars, NEW x \in Vars, NEW y \in Vars, NEW k,
         (Num(c, x) * Den(c, y)) * Den(c, var) = Num(c, var) * (Den(c, x) * Num(c, y))
  PROVE  Kept(c, Applied(p, IntervalRule(var, "div", x, y, k)))
<1> DEFINE r == IntervalRule(var, "div", x, y, k)
           v == Num(c, x) * Den(c, y)
           w == Den(c, x) * Num(c, y)
<1>1. r.var = var /\ r.op = "div" /\ r.deps[1] = x /\ r.deps[2] = y /\ r.k = k
  BY DEF IntervalRule
<1>2. /\ Num(c, x) \in Nat \ {0} /\ Den(c, x) \in Nat \ {0}
      /\ Num(c, y) \in Nat \ {0} /\ Den(c, y) \in Nat \ {0}
      /\ Num(c, var) \in Nat \ {0} /\ Den(c, var) \in Nat \ {0}
  BY ValueType
<1>3. v \in Nat /\ w \in Nat \ {0}
  BY <1>2
<1>4. v < UintMax * w
  BY <1>2, <1>3, BelowLimit DEF Countable
<1>5. /\ p.ivl[x] \in Interval /\ Holds(p.ivl[x], Num(c, x), Den(c, x))
      /\ p.ivl[y] \in Interval /\ Holds(p.ivl[y], Num(c, y), Den(c, y))
  BY DEF SoundSpace, Spaces, InSpace, Num, Den
<1>6. Computed(p, r) = Div(p.ivl[x], p.ivl[y])
  BY <1>1 DEF Computed
<1>7. Computed(p, r) \in Interval /\ Holds(Computed(p, r), v, w)
  BY <1>2, <1>4, <1>5, <1>6, DivHolds
<1>8. QED
  BY <1>1, <1>3, <1>7, ComputedKeeps

\* A rule a * b / k keeps the value it stands for.
LEMMA MulDivKRule ==
  ASSUME NEW p, SoundSpace(p), NEW c \in Configurations, InSpace(c, p), Countable(c),
         NEW var \in Vars, NEW x \in Vars, NEW y \in Vars, NEW k \in Nat \ {0},
         (Num(c, x) * Num(c, y)) * Den(c, var) = Num(c, var) * (Den(c, x) * Den(c, y) * k)
  PROVE  Kept(c, Applied(p, IntervalRule(var, "muldivk", x, y, k)))
<1> DEFINE r == IntervalRule(var, "muldivk", x, y, k)
           v == Num(c, x) * Num(c, y)
           w == Den(c, x) * Den(c, y) * k
<1>1. r.var = var /\ r.op = "muldivk" /\ r.deps[1] = x /\ r.deps[2] = y /\ r.k = k
  BY DEF IntervalRule
<1>2. /\ Num(c, x) \in Nat \ {0} /\ Den(c, x) \in Nat \ {0}
      /\ Num(c, y) \in Nat \ {0} /\ Den(c, y) \in Nat \ {0}
      /\ Num(c, var) \in Nat \ {0} /\ Den(c, var) \in Nat \ {0}
  BY ValueType
<1>3. v \in Nat /\ w \in Nat \ {0}
  BY <1>2
<1>4. v < UintMax * w
  BY <1>2, <1>3, BelowLimit DEF Countable
<1>5. /\ p.ivl[x] \in Interval /\ Holds(p.ivl[x], Num(c, x), Den(c, x))
      /\ p.ivl[y] \in Interval /\ Holds(p.ivl[y], Num(c, y), Den(c, y))
  BY DEF SoundSpace, Spaces, InSpace, Num, Den
<1>6. Computed(p, r) = MulDivK(p.ivl[x], p.ivl[y], k)
  BY <1>1 DEF Computed
<1>7. Computed(p, r) \in Interval /\ Holds(Computed(p, r), v, w)
  <2>1. Num(c, x) * Num(c, y) < UintMax * (Den(c, x) * Den(c, y) * k)
    BY <1>4
  <2>2. /\ MulDivK(p.ivl[x], p.ivl[y], k) \in Interval
        /\ Holds(MulDivK(p.ivl[x], p.ivl[y], k), Num(c, x) * Num(c, y), Den(c, x) * Den(c, y) * k)
    BY <1>2, <1>5, <2>1, MulDivKHolds
  <2>3. QED
    BY <1>6, <2>2
<1>8. QED
  BY <1>1, <1>3, <1>7, ComputedKeeps

-----------------------------------------------------------------------------
(* The two rules on formats.                                               *)

\* A set of numbers with a member has a least and a greatest one.
LEMMA MinMaxExist ==
  ASSUME NEW S \in SUBSET (0 .. UintMax), NEW n \in S
  PROVE  /\ Min(S) \in S /\ Min(S) <= n
         /\ Max(S) \in S /\ n <= Max(S)
<1>0. UintMax \in Nat
  BY UintMaxAssumption DEF UintMaxAssumption
<1>1. ASSUME NEW T \in SUBSET Nat, T # {}
      PROVE  \E x \in T : \A y \in T : x <= y
  <2> DEFINE less == {ss \in Nat \X Nat : ss[1] < ss[2]}
  <2>0. IsWellFoundedOn(less, Nat)
    BY NatLessThanWellFounded, Zenon DEF OpToRel
  <2>1. PICK x \in T : \A y \in T : ~(<<y, x>> \in less)
    BY <1>1, <2>0, WFMin
  <2>2. ASSUME NEW y \in T
        PROVE  x <= y
    <3>1. x \in Nat /\ y \in Nat /\ ~(y < x)
      BY <2>1
    <3>2. QED
      BY <3>1
  <2>3. QED
    BY <2>1, <2>2
<1>2. \E x \in S : \A y \in S : x <= y
  BY <1>0, <1>1
<1>3. \E x \in S : \A y \in S : x >= y
  <2> DEFINE T == {UintMax - y : y \in S}
  <2>1. PICK z \in T : \A y \in T : z <= y
    BY <1>0, <1>1, T \in SUBSET Nat, T # {}
  <2>2. PICK x \in S : z = UintMax - x
    BY <2>1
  <2>3. ASSUME NEW y \in S
        PROVE  x >= y
    BY <1>0, <2>1, <2>2, UintMax - y \in T
  <2>4. QED
    BY <2>2, <2>3
<1>4. Min(S) \in S /\ \A y \in S : Min(S) <= y
  BY <1>2 DEF Min
<1>5. Max(S) \in S /\ \A y \in S : Max(S) >= y
  BY <1>3 DEF Max
<1>6. QED
  BY <1>0, <1>4, <1>5

\* The rule on formats keeps the format of any configuration in the space.
LEMMA FormatKeeps ==
  ASSUME NEW p, SoundSpace(p), NEW c \in Configurations, InSpace(c, p)
  PROVE  Kept(c, FormatRule(p))
<1> DEFINE i == p.ivl["SAMPLE_BITS"]
           left == {f \in p.format : Test(i, Width[f])}
           q == [p EXCEPT !.format = left]
<1>1. Num(c, "SAMPLE_BITS") = Width[c.format] /\ Den(c, "SAMPLE_BITS") = 1
  BY DEF Num, Den, Value
<1>2. i \in Interval /\ Holds(i, Width[c.format], 1)
  BY <1>1 DEF SoundSpace, Spaces, InSpace, Num, Den, Vars
<1>3. c.format \in Formats /\ Width[c.format] \in Nat
  BY HwRulesAssumption, UintMaxAssumption
  DEF Configurations, Formats, HwRulesAssumption, UintMaxAssumption
<1>4. Test(i, Width[c.format])
  <2>1. i.min \in Nat /\ i.max \in Nat /\ i.openmin \in BOOLEAN /\ i.openmax \in BOOLEAN
    BY <1>2, UintMaxAssumption DEF Interval, Bound, UintMaxAssumption
  <2>2. i.min * 1 = i.min /\ i.max * 1 = i.max
    BY <2>1
  <2>3. QED
    BY <1>2, <1>3, <2>1, <2>2 DEF Holds, Above, Below, Test
<1>5. c.format \in left
  BY <1>4 DEF InSpace
<1>6. FormatRule(p) = [p |-> q, st |-> "ok"]
  BY <1>5 DEF FormatRule, Ok
<1>7. q \in Spaces /\ q.format = left /\ q.ivl = p.ivl
  BY DEF SoundSpace, Spaces
<1>8. SoundSpace(q) /\ InSpace(c, q)
  BY <1>5, <1>7 DEF SoundSpace, InSpace
<1>9. QED
  BY <1>6, <1>8 DEF Kept

(* Narrowing by a closed bound that a number meets keeps the number.       *)
LEMMA RefineClosed ==
  ASSUME NEW i, Sound(i), NEW bound \in Bound, NEW n \in Nat, Holds(i, n, 1)
  PROVE  /\ Above(bound, FALSE, n, 1) =>
              Sound(RefineMin(i, bound, FALSE)) /\ Holds(RefineMin(i, bound, FALSE), n, 1)
         /\ Below(bound, FALSE, n, 1) =>
              Sound(RefineMax(i, bound, FALSE)) /\ Holds(RefineMax(i, bound, FALSE), n, 1)
<1>1. 1 \in Nat \ {0} /\ FALSE \in BOOLEAN
  OBVIOUS
<1>2. /\ Sound(RefineMin(i, bound, FALSE))
      /\ Holds(RefineMin(i, bound, FALSE), n, 1) <=> Holds(i, n, 1) /\ Above(bound, FALSE, n, 1)
      /\ Sound(RefineMax(i, bound, FALSE))
      /\ Holds(RefineMax(i, bound, FALSE), n, 1) <=> Holds(i, n, 1) /\ Below(bound, FALSE, n, 1)
  BY ONLY <1>1, Sound(i), bound \in Bound, n \in Nat, RefineBoundExact, Zenon
<1>3. QED
  BY <1>2

\* The rule on sample bits keeps the width of the configuration's format.
LEMMA SampleBitsKeeps ==
  ASSUME NEW p, SoundSpace(p), NEW c \in Configurations, InSpace(c, p)
  PROVE  Kept(c, SampleBitsRule(p))
<1> DEFINE i == p.ivl["SAMPLE_BITS"]
           w == Width[c.format]
           low == RefineMin(i, LeastWidth(p), FALSE)
           both == RefineMax(low, GreatestWidth(p), FALSE)
<1>0. "SAMPLE_BITS" \in Vars
  BY DEF Vars
<1>1. Num(c, "SAMPLE_BITS") = w /\ Den(c, "SAMPLE_BITS") = 1
  BY DEF Num, Den, Value
<1>2. Sound(i) /\ Holds(i, w, 1)
  BY <1>0, <1>1 DEF SoundSpace, InSpace, Num, Den
<1>3. c.format \in p.format /\ p.format \in SUBSET Formats
  BY DEF InSpace, SoundSpace, Spaces
<1>4. Widths(p) \in SUBSET (0 .. UintMax) /\ w \in Widths(p)
  BY <1>3, HwRulesAssumption, UintMaxAssumption
  DEF Widths, Formats, HwRulesAssumption, UintMaxAssumption
<1>5. /\ LeastWidth(p) \in Bound /\ LeastWidth(p) <= w
      /\ GreatestWidth(p) \in Bound /\ w <= GreatestWidth(p)
  BY <1>3, <1>4, MinMaxExist DEF LeastWidth, GreatestWidth, Bound
<1>6. w \in Nat /\ LeastWidth(p) \in Nat /\ GreatestWidth(p) \in Nat
  BY <1>4, <1>5, UintMaxAssumption DEF Bound, UintMaxAssumption
<1>7. Above(LeastWidth(p), FALSE, w, 1) /\ Below(GreatestWidth(p), FALSE, w, 1)
  BY <1>5, <1>6 DEF Above, Below
<1>8. Sound(low) /\ Holds(low, w, 1)
  BY <1>2, <1>5, <1>6, <1>7, RefineClosed
<1>9. Sound(both) /\ Holds(both, w, 1)
  BY <1>5, <1>6, <1>7, <1>8, RefineClosed
<1>10. QED
  BY <1>0, <1>1, <1>9, NarrowedTo DEF SampleBitsRule, Kept

-----------------------------------------------------------------------------
(* No rule loses a configuration: if a space has it and all its values are *)
(* below the greatest bound, the space the rule leaves has it too, and no   *)
(* rule fails, aborts or computes with an undefined interval.  So the       *)
(* fixpoint of snd_pcm_hw_refine_soft() refuses nothing that can be had,    *)
(* whatever the order the rules are applied in.                             *)
THEOREM RuleLosesNothing ==
  ASSUME NEW p, SoundSpace(p), NEW c \in Configurations, InSpace(c, p), Countable(c),
         NEW k \in DOMAIN Rules
  PROVE  Kept(c, Applied(p, Rules[k]))
<1> DEFINE W == Width[c.format]
           C == c.channels
           R == c.rate
           S == c.period_size
           N == c.periods
<1>1. /\ W \in Nat /\ C \in Nat /\ R \in Nat /\ S \in Nat /\ N \in Nat
      /\ TimeUnit \in Nat \ {0} /\ 8 \in Nat \ {0}
  BY HwRulesAssumption, UintMaxAssumption
  DEF Configurations, Formats, HwRulesAssumption, UintMaxAssumption
<1>2. /\ Num(c, "SAMPLE_BITS") = W /\ Den(c, "SAMPLE_BITS") = 1
      /\ Num(c, "FRAME_BITS") = W * C /\ Den(c, "FRAME_BITS") = 1
      /\ Num(c, "CHANNELS") = C /\ Den(c, "CHANNELS") = 1
      /\ Num(c, "RATE") = R /\ Den(c, "RATE") = 1
      /\ Num(c, "PERIOD_TIME") = S * TimeUnit /\ Den(c, "PERIOD_TIME") = R
      /\ Num(c, "PERIOD_SIZE") = S /\ Den(c, "PERIOD_SIZE") = 1
      /\ Num(c, "PERIOD_BYTES") = S * (W * C) /\ Den(c, "PERIOD_BYTES") = 8
      /\ Num(c, "PERIODS") = N /\ Den(c, "PERIODS") = 1
      /\ Num(c, "BUFFER_TIME") = (S * N) * TimeUnit /\ Den(c, "BUFFER_TIME") = R
      /\ Num(c, "BUFFER_SIZE") = S * N /\ Den(c, "BUFFER_SIZE") = 1
      /\ Num(c, "BUFFER_BYTES") = (S * N) * (W * C) /\ Den(c, "BUFFER_BYTES") = 8
  BY DEF Num, Den, Value
<1>3. /\ "SAMPLE_BITS" \in Vars
      /\ "FRAME_BITS" \in Vars
      /\ "CHANNELS" \in Vars
      /\ "RATE" \in Vars
      /\ "PERIOD_TIME" \in Vars
      /\ "PERIOD_SIZE" \in Vars
      /\ "PERIOD_BYTES" \in Vars
      /\ "PERIODS" \in Vars
      /\ "BUFFER_TIME" \in Vars
      /\ "BUFFER_SIZE" \in Vars
      /\ "BUFFER_BYTES" \in Vars
  BY DEF Vars
<1>4. DOMAIN Rules = 1 .. 20
  BY DEF Rules, IntervalRule
<1>5. CASE k = 1
  <2>1. Rules[k].op = "format"
    BY <1>5 DEF Rules
  <2>2. Applied(p, Rules[k]).p = FormatRule(p).p /\ Applied(p, Rules[k]).st = FormatRule(p).st
    BY <2>1 DEF Applied
  <2>3. QED
    BY <2>2, FormatKeeps DEF Kept
<1>6. CASE k = 2
  <2>1. Rules[k].op = "sample_bits"
    BY <1>6 DEF Rules
  <2>2. /\ Applied(p, Rules[k]).p = SampleBitsRule(p).p
        /\ Applied(p, Rules[k]).st = SampleBitsRule(p).st
    BY <2>1 DEF Applied
  <2>3. QED
    BY <2>2, SampleBitsKeeps DEF Kept
<1>7. CASE k = 3
  <2>1. Rules[k] = IntervalRule("SAMPLE_BITS", "div", "FRAME_BITS", "CHANNELS", 0)
    BY <1>7 DEF Rules
  <2>2. ((W * C) * 1) * 1 = W * (1 * C)
    BY <1>1
  <2>3. QED
    BY <1>1, <1>2, <1>3, <2>1, <2>2, DivRule
<1>8. CASE k = 4
  <2>1. Rules[k] = IntervalRule("FRAME_BITS", "mul", "SAMPLE_BITS", "CHANNELS", 0)
    BY <1>8 DEF Rules
  <2>2. (W * C) * 1 = (W * C) * (1 * 1)
    BY <1>1
  <2>3. QED
    BY <1>1, <1>2, <1>3, <2>1, <2>2, MulRule
<1>9. CASE k = 5
  <2>1. Rules[k] = IntervalRule("FRAME_BITS", "mulkdiv", "PERIOD_BYTES", "PERIOD_SIZE", 8)
    BY <1>9 DEF Rules
  <2>2. ((S * (W * C)) * 8 * 1) * 1 = (W * C) * (8 * S)
    BY <1>1
  <2>3. QED
    BY <1>1, <1>2, <1>3, <2>1, <2>2, MulKDivRule
<1>10. CASE k = 6
  <2>1. Rules[k] = IntervalRule("FRAME_BITS", "mulkdiv", "BUFFER_BYTES", "BUFFER_SIZE", 8)
    BY <1>10 DEF Rules
  <2>2. (((S * N) * (W * C)) * 8 * 1) * 1 = (W * C) * (8 * (S * N))
    BY <1>1
  <2>3. QED
    BY <1>1, <1>2, <1>3, <2>1, <2>2, MulKDivRule
<1>11. CASE k = 7
  <2>1. Rules[k] = IntervalRule("CHANNELS", "div", "FRAME_BITS", "SAMPLE_BITS", 0)
    BY <1>11 DEF Rules
  <2>2. ((W * C) * 1) * 1 = C * (1 * W)
    BY <1>1
  <2>3. QED
    BY <1>1, <1>2, <1>3, <2>1, <2>2, DivRule
<1>12. CASE k = 8
  <2>1. Rules[k] = IntervalRule("RATE", "mulkdiv", "PERIOD_SIZE", "PERIOD_TIME", TimeUnit)
    BY <1>12 DEF Rules
  <2>2. (S * TimeUnit * R) * 1 = R * (1 * (S * TimeUnit))
    BY <1>1
  <2>3. QED
    BY <1>1, <1>2, <1>3, <2>1, <2>2, MulKDivRule
<1>13. CASE k = 9
  <2>1. Rules[k] = IntervalRule("RATE", "mulkdiv", "BUFFER_SIZE", "BUFFER_TIME", TimeUnit)
    BY <1>13 DEF Rules
  <2>2. ((S * N) * TimeUnit * R) * 1 = R * (1 * ((S * N) * TimeUnit))
    BY <1>1
  <2>3. QED
    BY <1>1, <1>2, <1>3, <2>1, <2>2, MulKDivRule
<1>14. CASE k = 10
  <2>1. Rules[k] = IntervalRule("PERIODS", "div", "BUFFER_SIZE", "PERIOD_SIZE", 0)
    BY <1>14 DEF Rules
  <2>2. ((S * N) * 1) * 1 = N * (1 * S)
    BY <1>1
  <2>3. QED
    BY <1>1, <1>2, <1>3, <2>1, <2>2, DivRule
<1>15. CASE k = 11
  <2>1. Rules[k] = IntervalRule("PERIOD_SIZE", "div", "BUFFER_SIZE", "PERIODS", 0)
    BY <1>15 DEF Rules
  <2>2. ((S * N) * 1) * 1 = S * (1 * N)
    BY <1>1
  <2>3. QED
    BY <1>1, <1>2, <1>3, <2>1, <2>2, DivRule
<1>16. CASE k = 12
  <2>1. Rules[k] = IntervalRule("PERIOD_SIZE", "mulkdiv", "PERIOD_BYTES", "FRAME_BITS", 8)
    BY <1>16 DEF Rules
  <2>2. ((S * (W * C)) * 8 * 1) * 1 = S * (8 * (W * C))
    BY <1>1
  <2>3. QED
    BY <1>1, <1>2, <1>3, <2>1, <2>2, MulKDivRule
<1>17. CASE k = 13
  <2>1. Rules[k] = IntervalRule("PERIOD_SIZE", "muldivk", "PERIOD_TIME", "RATE", TimeUnit)
    BY <1>17 DEF Rules
  <2>2. ((S * TimeUnit) * R) * 1 = S * (R * 1 * TimeUnit)
    BY <1>1
  <2>3. QED
    BY <1>1, <1>2, <1>3, <2>1, <2>2, MulDivKRule
<1>18. CASE k = 14
  <2>1. Rules[k] = IntervalRule("BUFFER_SIZE", "mul", "PERIOD_SIZE", "PERIODS", 0)
    BY <1>18 DEF Rules
  <2>2. (S * N) * 1 = (S * N) * (1 * 1)
    BY <1>1
  <2>3. QED
    BY <1>1, <1>2, <1>3, <2>1, <2>2, MulRule
<1>19. CASE k = 15
  <2>1. Rules[k] = IntervalRule("BUFFER_SIZE", "mulkdiv", "BUFFER_BYTES", "FRAME_BITS", 8)
    BY <1>19 DEF Rules
  <2>2. (((S * N) * (W * C)) * 8 * 1) * 1 = (S * N) * (8 * (W * C))
    BY <1>1
  <2>3. QED
    BY <1>1, <1>2, <1>3, <2>1, <2>2, MulKDivRule
<1>20. CASE k = 16
  <2>1. Rules[k] = IntervalRule("BUFFER_SIZE", "muldivk", "BUFFER_TIME", "RATE", TimeUnit)
    BY <1>20 DEF Rules
  <2>2. (((S * N) * TimeUnit) * R) * 1 = (S * N) * (R * 1 * TimeUnit)
    BY <1>1
  <2>3. QED
    BY <1>1, <1>2, <1>3, <2>1, <2>2, MulDivKRule
<1>21. CASE k = 17
  <2>1. Rules[k] = IntervalRule("PERIOD_BYTES", "muldivk", "PERIOD_SIZE", "FRAME_BITS", 8)
    BY <1>21 DEF Rules
  <2>2. (S * (W * C)) * 8 = (S * (W * C)) * (1 * 1 * 8)
    BY <1>1
  <2>3. QED
    BY <1>1, <1>2, <1>3, <2>1, <2>2, MulDivKRule
<1>22. CASE k = 18
  <2>1. Rules[k] = IntervalRule("BUFFER_BYTES", "muldivk", "BUFFER_SIZE", "FRAME_BITS", 8)
    BY <1>22 DEF Rules
  <2>2. ((S * N) * (W * C)) * 8 = ((S * N) * (W * C)) * (1 * 1 * 8)
    BY <1>1
  <2>3. QED
    BY <1>1, <1>2, <1>3, <2>1, <2>2, MulDivKRule
<1>23. CASE k = 19
  <2>1. Rules[k] = IntervalRule("PERIOD_TIME", "mulkdiv", "PERIOD_SIZE", "RATE", TimeUnit)
    BY <1>23 DEF Rules
  <2>2. (S * TimeUnit * 1) * R = (S * TimeUnit) * (1 * R)
    BY <1>1
  <2>3. QED
    BY <1>1, <1>2, <1>3, <2>1, <2>2, MulKDivRule
<1>24. CASE k = 20
  <2>1. Rules[k] = IntervalRule("BUFFER_TIME", "mulkdiv", "BUFFER_SIZE", "RATE", TimeUnit)
    BY <1>24 DEF Rules
  <2>2. ((S * N) * TimeUnit * 1) * R = ((S * N) * TimeUnit) * (1 * R)
    BY <1>1
  <2>3. QED
    BY <1>1, <1>2, <1>3, <2>1, <2>2, MulKDivRule
<1>25. QED
  BY <1>4, <1>5, <1>6, <1>7, <1>8, <1>9, <1>10, <1>11, <1>12, <1>13, <1>14, <1>15, <1>16, <1>17, <1>18, <1>19, <1>20, <1>21, <1>22, <1>23, <1>24

-----------------------------------------------------------------------------
(* What is granted stays granted.                                          *)

\* An interval as a space keeps it: flagged exactly when it has no number.
Exact(i) == i \in Interval /\ (i.empty <=> CheckEmpty(i))

\* The bounds of j are no lower, and no higher, than a bound, open or not.
NotBelow(j, min, open) == j.min > min \/ (j.min = min /\ (open => j.openmin))
NotAbove(j, max, open) == j.max < max \/ (j.max = max /\ (open => j.openmax))

\* How strictly a bound is met: a rate PCM may take the bound of an open range
\* of period sizes.
Modes == {"strict", "loose"}
ModeFor(mode, var) == IF var = "PERIOD_SIZE" THEN mode ELSE "strict"

\* There are two modes, and strict ones stay strict for every parameter.
LEMMA ModesAre ==
  /\ "strict" \in Modes /\ "loose" \in Modes
  /\ \A mode \in Modes : mode = "strict" \/ mode = "loose"
  /\ \A mode \in Modes : \A var : ModeFor(mode, var) \in Modes /\ ModeFor("strict", var) = "strict"
BY DEF Modes, ModeFor

\* j is within the bounds b, or, if loose, at most touches them; unless it is
\* empty or one of its bounds has wrapped.
Meets(mode, j, b) ==
  \/ j.empty \/ j.lifted
  \/ IF mode = "loose" THEN b.min <= j.min /\ j.max <= b.max ELSE Contained(j, b)

\* j is what may have become of i.
Within(mode, j, i) ==
  /\ i.lifted => j.lifted
  /\ i.empty => j.empty
  /\ Meets(mode, j, i)

(* Whatever is within i is within the bounds of i.                         *)
LEMMA MeetsOn ==
  ASSUME NEW mode \in Modes, NEW j \in Interval, NEW h \in Interval, NEW b,
         b.min \in Int, b.max \in Int, b.openmin \in BOOLEAN, b.openmax \in BOOLEAN,
         Meets(mode, j, b), Within(mode, h, j)
  PROVE  Meets(mode, h, b)
<1>1. /\ j.min \in Int /\ j.max \in Int /\ j.openmin \in BOOLEAN /\ j.openmax \in BOOLEAN
      /\ h.min \in Int /\ h.max \in Int /\ h.openmin \in BOOLEAN /\ h.openmax \in BOOLEAN
      /\ j.empty \in BOOLEAN /\ h.empty \in BOOLEAN /\ j.lifted \in BOOLEAN /\ h.lifted \in BOOLEAN
  BY DEF Interval, Bound
<1>2. CASE h.empty \/ h.lifted
  BY <1>2 DEF Meets
<1>3. CASE ~h.empty /\ ~h.lifted
  <2>1. ~j.empty /\ ~j.lifted
    BY <1>3 DEF Within
  <2>2. CASE mode = "loose"
    BY <1>1, <1>3, <2>1, <2>2 DEF Within, Meets
  <2>3. CASE mode = "strict"
    BY <1>1, <1>3, <2>1, <2>3 DEF Within, Meets, Contained
  <2>4. QED
    BY <2>2, <2>3, ModesAre
<1>4. QED
  BY <1>2, <1>3

\* Being within is transitive, and reflexive.
LEMMA WithinOn ==
  ASSUME NEW mode \in Modes, NEW i \in Interval, NEW j \in Interval, NEW h \in Interval,
         Within(mode, j, i), Within(mode, h, j)
  PROVE  Within(mode, h, i)
<1>1. i.min \in Int /\ i.max \in Int /\ i.openmin \in BOOLEAN /\ i.openmax \in BOOLEAN
  BY DEF Interval, Bound
<1>2. Meets(mode, h, i)
  BY <1>1, MeetsOn DEF Within
<1>3. QED
  BY <1>2 DEF Within

\* An interval is within itself.
LEMMA WithinItself ==
  ASSUME NEW mode \in Modes, NEW i \in Interval
  PROVE  Within(mode, i, i)
<1>1. i.min \in Int /\ i.max \in Int
  BY DEF Interval, Bound
<1>2. QED
  BY <1>1 DEF Within, Meets, Contained

(* What is within is so loosely too.                                       *)
LEMMA Loosely ==
  ASSUME NEW mode \in Modes, NEW j \in Interval, NEW b, b.min \in Int, b.max \in Int
  PROVE  /\ Meets("strict", j, b) => Meets(mode, j, b)
         /\ b \in Interval /\ Within("strict", j, b) => Within(mode, j, b)
<1>1. j.min \in Int /\ j.max \in Int
  BY DEF Interval, Bound
<1>2. Meets("strict", j, b) => Meets(mode, j, b)
  <2>1. Contained(j, b) => b.min <= j.min /\ j.max <= b.max
    BY <1>1 DEF Contained
  <2>2. CASE mode = "loose"
    BY <2>1, <2>2 DEF Meets
  <2>3. CASE mode = "strict"
    BY <2>3 DEF Meets
  <2>4. QED
    BY <2>2, <2>3, ModesAre
<1>3. QED
  BY <1>2 DEF Within

(* The steps a refinement takes: only min++ and max-- can leave the bounds,*)
(* and then they are noted.                                                *)
LEMMA RaiseMinWithin ==
  ASSUME NEW i \in Interval, NEW min \in Bound, NEW open \in BOOLEAN
  PROVE  LET j == RaiseMin(i, min, open)
         IN /\ j \in Interval /\ j.lifted = i.lifted /\ j.empty = i.empty /\ j.integer = i.integer
            /\ j.max = i.max /\ j.openmax = i.openmax
            /\ NotBelow(j, i.min, i.openmin) /\ NotBelow(j, min, open)
<1>1. i.min \in Int /\ min \in Int
  BY DEF Interval, Bound
<1>2. CASE i.min < min
  <2>1. RaiseMin(i, min, open) = [i EXCEPT !.min = min, !.openmin = open]
    BY <1>2 DEF RaiseMin
  <2>2. QED
    BY <1>1, <1>2, <2>1 DEF Interval, NotBelow
<1>3. CASE ~(i.min < min) /\ i.min = min /\ open
  <2>1. RaiseMin(i, min, open) = [i EXCEPT !.openmin = TRUE]
    BY <1>3 DEF RaiseMin
  <2>2. QED
    BY <1>1, <1>3, <2>1 DEF Interval, NotBelow
<1>4. CASE ~(i.min < min) /\ ~(i.min = min /\ open)
  <2>1. RaiseMin(i, min, open) = i
    BY <1>4 DEF RaiseMin
  <2>2. QED
    BY <1>1, <1>4, <2>1 DEF NotBelow
<1>5. QED
  BY <1>2, <1>3, <1>4

\* The same of the upper bound.
LEMMA LowerMaxWithin ==
  ASSUME NEW i \in Interval, NEW max \in Bound, NEW open \in BOOLEAN
  PROVE  LET j == LowerMax(i, max, open)
         IN /\ j \in Interval /\ j.lifted = i.lifted /\ j.empty = i.empty /\ j.integer = i.integer
            /\ j.min = i.min /\ j.openmin = i.openmin
            /\ NotAbove(j, i.max, i.openmax) /\ NotAbove(j, max, open)
<1>1. i.max \in Int /\ max \in Int
  BY DEF Interval, Bound
<1>2. CASE i.max > max
  <2>1. LowerMax(i, max, open) = [i EXCEPT !.max = max, !.openmax = open]
    BY <1>2 DEF LowerMax
  <2>2. QED
    BY <1>1, <1>2, <2>1 DEF Interval, NotAbove
<1>3. CASE ~(i.max > max) /\ i.max = max /\ open
  <2>1. LowerMax(i, max, open) = [i EXCEPT !.openmax = TRUE]
    BY <1>3 DEF LowerMax
  <2>2. QED
    BY <1>1, <1>3, <2>1 DEF Interval, NotAbove
<1>4. CASE ~(i.max > max) /\ ~(i.max = max /\ open)
  <2>1. LowerMax(i, max, open) = i
    BY <1>4 DEF LowerMax
  <2>2. QED
    BY <1>1, <1>4, <2>1 DEF NotAbove
<1>5. QED
  BY <1>2, <1>3, <1>4

\* Closing a lower bound raises it, or min++ has wrapped.
LEMMA CloseMinWithin ==
  ASSUME NEW i \in Interval
  PROVE  LET j == CloseMin(i)
         IN /\ j \in Interval /\ (i.lifted => j.lifted) /\ j.empty = i.empty
            /\ j.max = i.max /\ j.openmax = i.openmax
            /\ j.lifted \/ NotBelow(j, i.min, i.openmin)
<1>1. i.min \in 0 .. UintMax /\ UintMax \in Nat
  BY UintMaxAssumption DEF Interval, Bound, UintMaxAssumption
<1>2. CASE i.integer /\ i.openmin
  <2>1. CloseMin(i) = [i EXCEPT !.min = Up(i.min), !.openmin = FALSE,
                               !.lifted = i.lifted \/ i.min = UintMax]
    BY <1>2 DEF CloseMin
  <2>2. Up(i.min) \in Bound /\ (i.min # UintMax => Up(i.min) > i.min)
    BY <1>1 DEF Up, Bound
  <2>3. i.lifted \in BOOLEAN
    BY DEF Interval
  <2>4. QED
    BY <1>1, <2>1, <2>2, <2>3 DEF Interval, NotBelow
<1>3. CASE ~(i.integer /\ i.openmin)
  <2>1. CloseMin(i) = i
    BY <1>3 DEF CloseMin
  <2>2. QED
    BY <1>1, <2>1 DEF NotBelow
<1>4. QED
  BY <1>2, <1>3

\* Closing an upper bound lowers it, or max-- has wrapped.
LEMMA CloseMaxWithin ==
  ASSUME NEW i \in Interval
  PROVE  LET j == CloseMax(i)
         IN /\ j \in Interval /\ (i.lifted => j.lifted) /\ j.empty = i.empty
            /\ j.min = i.min /\ j.openmin = i.openmin
            /\ j.lifted \/ NotAbove(j, i.max, i.openmax)
<1>1. i.max \in 0 .. UintMax /\ UintMax \in Nat
  BY UintMaxAssumption DEF Interval, Bound, UintMaxAssumption
<1>2. CASE i.integer /\ i.openmax
  <2>1. CloseMax(i) = [i EXCEPT !.max = Down(i.max), !.openmax = FALSE,
                               !.lifted = i.lifted \/ i.max = 0]
    BY <1>2 DEF CloseMax
  <2>2. Down(i.max) \in Bound /\ (i.max # 0 => Down(i.max) < i.max)
    BY <1>1 DEF Down, Bound
  <2>3. i.lifted \in BOOLEAN
    BY DEF Interval
  <2>4. QED
    BY <1>1, <2>1, <2>2, <2>3 DEF Interval, NotAbove
<1>3. CASE ~(i.integer /\ i.openmax)
  <2>1. CloseMax(i) = i
    BY <1>3 DEF CloseMax
  <2>2. QED
    BY <1>1, <2>1 DEF NotAbove
<1>4. QED
  BY <1>2, <1>3

\* Knowing that only integers are left moves no bound.
LEMMA KnowIntegerWithin ==
  ASSUME NEW i \in Interval
  PROVE  LET j == KnowInteger(i)
         IN /\ j \in Interval /\ j.lifted = i.lifted /\ j.empty = i.empty
            /\ j.min = i.min /\ j.openmin = i.openmin /\ j.max = i.max /\ j.openmax = i.openmax
<1>1. KnowInteger(i) = i \/ KnowInteger(i) = [i EXCEPT !.integer = TRUE]
  BY DEF KnowInteger
<1>2. CASE KnowInteger(i) = i
  BY <1>2
<1>3. CASE KnowInteger(i) = [i EXCEPT !.integer = TRUE]
  BY <1>3 DEF Interval
<1>4. QED
  BY <1>1, <1>2, <1>3

\* Flagging makes an interval exact and moves no bound.
LEMMA FlaggedExact ==
  ASSUME NEW i \in Interval, ~i.empty
  PROVE  LET j == Flagged(i)
         IN /\ Exact(j) /\ j.lifted = i.lifted
            /\ j.min = i.min /\ j.openmin = i.openmin /\ j.max = i.max /\ j.openmax = i.openmax
<1>1. CASE CheckEmpty(i)
  <2>1. Flagged(i) = [i EXCEPT !.empty = TRUE]
    BY <1>1 DEF Flagged, None
  <2>2. QED
    BY <1>1, <2>1 DEF Interval, Exact, CheckEmpty
<1>2. CASE ~CheckEmpty(i)
  BY <1>2 DEF Flagged, Exact
<1>3. QED
  BY <1>1, <1>2

(* Bounds one after the other.                                             *)
LEMMA BoundsOn ==
  ASSUME NEW j \in Interval, NEW h \in Interval, NEW n \in Int, NEW open \in BOOLEAN
  PROVE  /\ NotBelow(j, n, open) /\ NotBelow(h, j.min, j.openmin) => NotBelow(h, n, open)
         /\ NotAbove(j, n, open) /\ NotAbove(h, j.max, j.openmax) => NotAbove(h, n, open)
<1>1. /\ j.min \in Int /\ j.max \in Int /\ j.openmin \in BOOLEAN /\ j.openmax \in BOOLEAN
      /\ h.min \in Int /\ h.max \in Int /\ h.openmin \in BOOLEAN /\ h.openmax \in BOOLEAN
  BY DEF Interval, Bound
<1>2. NotBelow(j, n, open) /\ NotBelow(h, j.min, j.openmin) => NotBelow(h, n, open)
  BY <1>1 DEF NotBelow
<1>3. NotAbove(j, n, open) /\ NotAbove(h, j.max, j.openmax) => NotAbove(h, n, open)
  BY <1>1 DEF NotAbove
<1>4. QED
  BY <1>2, <1>3

\* Bounds that are equal are equally met.
LEMMA SameBounds ==
  ASSUME NEW h, NEW j, NEW n, NEW open
  PROVE  /\ h.min = j.min /\ h.openmin = j.openmin => (NotBelow(j, n, open) <=> NotBelow(h, n, open))
         /\ h.max = j.max /\ h.openmax = j.openmax => (NotAbove(j, n, open) <=> NotAbove(h, n, open))
BY DEF NotBelow, NotAbove

\* Being contained, one bound at a time.
LEMMA ContainedByBounds ==
  ASSUME NEW j, NEW b
  PROVE  Contained(j, b) <=> NotBelow(j, b.min, b.openmin) /\ NotAbove(j, b.max, b.openmax)
BY DEF Contained, NotBelow, NotAbove

\* What two intervals have in common is within the bounds of both.
LEMMA MeetWithin ==
  ASSUME NEW i \in Interval, NEW v \in Interval
  PROVE  LET j == Meet(i, v)
         IN /\ j \in Interval /\ j.lifted = i.lifted /\ j.empty = i.empty
            /\ NotBelow(j, i.min, i.openmin) /\ NotBelow(j, v.min, v.openmin)
            /\ NotAbove(j, i.max, i.openmax) /\ NotAbove(j, v.max, v.openmax)
<1> DEFINE low  == RaiseMin(i, v.min, v.openmin)
           both == LowerMax(low, v.max, v.openmax)
           j == Meet(i, v)
<1>0. v.min \in Bound /\ v.max \in Bound /\ v.openmin \in BOOLEAN /\ v.openmax \in BOOLEAN /\ v.integer \in BOOLEAN
  BY DEF Interval
<1>1. /\ low \in Interval /\ low.lifted = i.lifted /\ low.empty = i.empty
      /\ low.max = i.max /\ low.openmax = i.openmax
      /\ NotBelow(low, i.min, i.openmin) /\ NotBelow(low, v.min, v.openmin)
  BY <1>0, RaiseMinWithin
<1>2. /\ both \in Interval /\ both.lifted = low.lifted /\ both.empty = low.empty
      /\ both.min = low.min /\ both.openmin = low.openmin
      /\ NotAbove(both, low.max, low.openmax) /\ NotAbove(both, v.max, v.openmax)
  BY <1>0, <1>1, LowerMaxWithin
<1>3. j = [both EXCEPT !.integer = both.integer \/ v.integer]
  BY DEF Meet
<1> HIDE DEF low, both, j
<1>4. /\ j \in Interval /\ j.lifted = both.lifted /\ j.empty = both.empty
      /\ j.min = both.min /\ j.openmin = both.openmin /\ j.max = both.max /\ j.openmax = both.openmax
  BY <1>0, <1>2, <1>3 DEF Interval
<1>5. j.lifted = i.lifted /\ j.empty = i.empty
  BY <1>1, <1>2, <1>4
<1>6. NotBelow(j, i.min, i.openmin) /\ NotBelow(j, v.min, v.openmin)
  <2>1. j.min = low.min /\ j.openmin = low.openmin
    BY <1>2, <1>4
  <2>2. QED
    BY <1>1, <2>1, SameBounds
<1>7. NotAbove(j, i.max, i.openmax) /\ NotAbove(j, v.max, v.openmax)
  BY <1>1, <1>2, <1>4, SameBounds
<1>8. QED
  BY <1>4, <1>5, <1>6, <1>7 DEF j

(* snd_interval_refine().                                                  *)
LEMMA RefineWithin ==
  ASSUME NEW i, Exact(i), NEW v \in Interval
  PROVE  LET j == Refine(i, v)
         IN Exact(j) /\ Within("strict", j, i) /\ Meets("strict", j, v)
<1> DEFINE meet == Meet(i, v)
           up   == CloseMin(meet)
           down == CloseMax(up)
           known == KnowInteger(down)
           j == Refine(i, v)
<1>0. i \in Interval
  BY DEF Exact
<1>1. CASE i.empty
  <2>1. j = i
    BY <1>1 DEF Refine
  <2>2. QED
    BY <1>0, <1>1, <2>1, WithinItself, ModesAre DEF Meets
<1>2. CASE ~i.empty
  <2>1. /\ meet \in Interval /\ meet.lifted = i.lifted /\ meet.empty = i.empty
        /\ NotBelow(meet, i.min, i.openmin) /\ NotBelow(meet, v.min, v.openmin)
        /\ NotAbove(meet, i.max, i.openmax) /\ NotAbove(meet, v.max, v.openmax)
    BY <1>0, MeetWithin
  <2>2. j = Flagged(known)
    BY <1>2 DEF Refine
  <2> HIDE DEF meet
  <2>4. /\ up \in Interval /\ (meet.lifted => up.lifted) /\ up.empty = meet.empty
        /\ up.max = meet.max /\ up.openmax = meet.openmax
        /\ up.lifted \/ NotBelow(up, meet.min, meet.openmin)
    BY <2>1, CloseMinWithin
  <2> HIDE DEF up
  <2>5. /\ down \in Interval /\ (up.lifted => down.lifted) /\ down.empty = up.empty
        /\ down.min = up.min /\ down.openmin = up.openmin
        /\ down.lifted \/ NotAbove(down, up.max, up.openmax)
    BY <2>4, CloseMaxWithin
  <2> HIDE DEF down
  <2>6. /\ known \in Interval /\ known.lifted = down.lifted /\ known.empty = down.empty
        /\ known.min = down.min /\ known.openmin = down.openmin
        /\ known.max = down.max /\ known.openmax = down.openmax
    BY <2>5, KnowIntegerWithin
  <2> HIDE DEF known
  <2>8. ~known.empty
    BY <1>2, <2>1, <2>4, <2>5, <2>6
  <2>9. /\ Exact(j) /\ j.lifted = known.lifted
        /\ j.min = known.min /\ j.openmin = known.openmin
        /\ j.max = known.max /\ j.openmax = known.openmax
    BY <2>6, <2>2, <2>8, FlaggedExact
  <2> HIDE DEF j
  <2>10. i.lifted => j.lifted
    BY <2>1, <2>4, <2>5, <2>6, <2>9
  <2>11. j \in Interval /\ j.lifted \in BOOLEAN
    BY <2>9 DEF Exact, Interval
  <2>12. ASSUME ~j.lifted, NEW b, b.min \in Int, b.max \in Int, b.openmin \in BOOLEAN, b.openmax \in BOOLEAN,
                NotBelow(meet, b.min, b.openmin), NotAbove(meet, b.max, b.openmax)
         PROVE  Contained(j, b)
    <3>1. ~up.lifted /\ ~down.lifted
      BY <2>5, <2>6, <2>9, <2>12
    <3>2. /\ j.min = up.min /\ j.openmin = up.openmin
          /\ j.max = down.max /\ j.openmax = down.openmax
      BY <2>5, <2>6, <2>9
    <3>3. NotBelow(up, b.min, b.openmin)
      BY <2>1, <2>4, <2>12, <3>1, BoundsOn
    <3>4. NotAbove(up, b.max, b.openmax)
      BY <2>4, <2>12, SameBounds
    <3>5. NotAbove(down, b.max, b.openmax)
      BY <2>4, <2>5, <2>12, <3>1, <3>4, BoundsOn
    <3>6. NotBelow(j, b.min, b.openmin) /\ NotAbove(j, b.max, b.openmax)
      BY <3>2, <3>3, <3>5, SameBounds
    <3>7. QED
      BY <3>6, ContainedByBounds
  <2>13. /\ i.min \in Int /\ i.max \in Int /\ i.openmin \in BOOLEAN /\ i.openmax \in BOOLEAN
         /\ v.min \in Int /\ v.max \in Int /\ v.openmin \in BOOLEAN /\ v.openmax \in BOOLEAN
    BY <1>0 DEF Interval, Bound
  <2>14. Meets("strict", j, i)
    BY <2>1, <2>12, <2>13 DEF Meets
  <2>15. Meets("strict", j, v)
    BY <2>1, <2>12, <2>13 DEF Meets
  <2>16. Within("strict", j, i)
    BY <1>2, <2>10, <2>14 DEF Within
  <2>17. QED
    BY <2>9, <2>15, <2>16 DEF j
<1>3. QED
  BY <1>1, <1>2

(* snd_interval_refine_min() and _refine_max().                            *)
LEMMA RefineMinWithin ==
  ASSUME NEW i, Exact(i), NEW min \in Bound, NEW open \in BOOLEAN
  PROVE  LET j == RefineMin(i, min, open)
         IN Exact(j) /\ Within("strict", j, i) /\ (j.empty \/ j.lifted \/ NotBelow(j, min, open))
<1> DEFINE low == RaiseMin(i, min, open)
           up  == CloseMin(low)
           j   == RefineMin(i, min, open)
<1>0. i \in Interval
  BY DEF Exact
<1>1. CASE i.empty
  <2>1. j = i
    BY <1>1 DEF RefineMin
  <2>2. QED
    BY <1>0, <1>1, <2>1, WithinItself, ModesAre
<1>2. CASE ~i.empty
  <2>1. /\ low \in Interval /\ low.lifted = i.lifted /\ low.empty = i.empty
        /\ low.max = i.max /\ low.openmax = i.openmax
        /\ NotBelow(low, i.min, i.openmin) /\ NotBelow(low, min, open)
    BY <1>0, RaiseMinWithin
  <2>2. j = Flagged(up)
    BY <1>2 DEF RefineMin
  <2> HIDE DEF low
  <2>3. /\ up \in Interval /\ (low.lifted => up.lifted) /\ up.empty = low.empty
        /\ up.max = low.max /\ up.openmax = low.openmax
        /\ up.lifted \/ NotBelow(up, low.min, low.openmin)
    BY <2>1, CloseMinWithin
  <2> HIDE DEF up
  <2>4. /\ Exact(j) /\ j.lifted = up.lifted
        /\ j.min = up.min /\ j.openmin = up.openmin
        /\ j.max = up.max /\ j.openmax = up.openmax
    BY <1>2, <2>1, <2>2, <2>3, FlaggedExact
  <2> HIDE DEF j
  <2>5. i.lifted => j.lifted
    BY <2>1, <2>3, <2>4
  <2>6. j \in Interval /\ j.lifted \in BOOLEAN
    BY <2>4 DEF Exact, Interval
  <2>7. /\ i.min \in Int /\ i.max \in Int /\ i.openmin \in BOOLEAN /\ i.openmax \in BOOLEAN
        /\ min \in Int /\ j.max \in Int
    BY <1>0, <2>6 DEF Interval, Bound
  <2>8. ASSUME ~j.lifted
        PROVE  NotBelow(j, i.min, i.openmin) /\ NotBelow(j, min, open)
    <3>1. NotBelow(up, low.min, low.openmin)
      BY <2>3, <2>4, <2>8
    <3>2. NotBelow(up, i.min, i.openmin) /\ NotBelow(up, min, open)
      BY <2>1, <2>3, <2>7, <3>1, BoundsOn
    <3>3. QED
      BY <2>4, <3>2, SameBounds
  <2>9. NotAbove(j, i.max, i.openmax)
    BY <2>1, <2>3, <2>4, <2>7 DEF NotAbove
  <2>10. Within("strict", j, i)
    <3>1. j.lifted \/ Contained(j, i)
      BY <2>8, <2>9, ContainedByBounds
    <3>2. QED
      BY <1>2, <2>5, <3>1 DEF Within, Meets
  <2>11. QED
    BY <2>4, <2>8, <2>10 DEF j
<1>3. QED
  BY <1>1, <1>2

\* snd_interval_refine_max() narrows, to below the maximum asked for.
LEMMA RefineMaxWithin ==
  ASSUME NEW i, Exact(i), NEW max \in Bound, NEW open \in BOOLEAN
  PROVE  LET j == RefineMax(i, max, open)
         IN Exact(j) /\ Within("strict", j, i) /\ (j.empty \/ j.lifted \/ NotAbove(j, max, open))
<1> DEFINE high == LowerMax(i, max, open)
           down == CloseMax(high)
           j   == RefineMax(i, max, open)
<1>0. i \in Interval
  BY DEF Exact
<1>1. CASE i.empty
  <2>1. j = i
    BY <1>1 DEF RefineMax
  <2>2. QED
    BY <1>0, <1>1, <2>1, WithinItself, ModesAre
<1>2. CASE ~i.empty
  <2>1. /\ high \in Interval /\ high.lifted = i.lifted /\ high.empty = i.empty
        /\ high.min = i.min /\ high.openmin = i.openmin
        /\ NotAbove(high, i.max, i.openmax) /\ NotAbove(high, max, open)
    BY <1>0, LowerMaxWithin
  <2>2. j = Flagged(down)
    BY <1>2 DEF RefineMax
  <2> HIDE DEF high
  <2>3. /\ down \in Interval /\ (high.lifted => down.lifted) /\ down.empty = high.empty
        /\ down.min = high.min /\ down.openmin = high.openmin
        /\ down.lifted \/ NotAbove(down, high.max, high.openmax)
    BY <2>1, CloseMaxWithin
  <2> HIDE DEF down
  <2>4. /\ Exact(j) /\ j.lifted = down.lifted
        /\ j.min = down.min /\ j.openmin = down.openmin
        /\ j.max = down.max /\ j.openmax = down.openmax
    BY <1>2, <2>1, <2>2, <2>3, FlaggedExact
  <2> HIDE DEF j
  <2>5. i.lifted => j.lifted
    BY <2>1, <2>3, <2>4
  <2>6. j \in Interval /\ j.lifted \in BOOLEAN
    BY <2>4 DEF Exact, Interval
  <2>7. /\ i.min \in Int /\ i.max \in Int /\ i.openmin \in BOOLEAN /\ i.openmax \in BOOLEAN
        /\ max \in Int /\ j.min \in Int
    BY <1>0, <2>6 DEF Interval, Bound
  <2>8. ASSUME ~j.lifted
        PROVE  NotAbove(j, i.max, i.openmax) /\ NotAbove(j, max, open)
    <3>1. NotAbove(down, high.max, high.openmax)
      BY <2>3, <2>4, <2>8
    <3>2. NotAbove(down, i.max, i.openmax) /\ NotAbove(down, max, open)
      BY <2>1, <2>3, <2>7, <3>1, BoundsOn
    <3>3. QED
      BY <2>4, <3>2, SameBounds
  <2>9. NotBelow(j, i.min, i.openmin)
    BY <2>1, <2>3, <2>4, <2>7 DEF NotBelow
  <2>10. Within("strict", j, i)
    <3>1. j.lifted \/ Contained(j, i)
      BY <2>8, <2>9, ContainedByBounds
    <3>2. QED
      BY <1>2, <2>5, <3>1 DEF Within, Meets
  <2>11. QED
    BY <2>4, <2>8, <2>10 DEF j
<1>3. QED
  BY <1>1, <1>2

(* refine_first, refine_last and setinteger.                               *)
LEMMA RefineEndWithin ==
  ASSUME NEW i, Exact(i)
  PROVE  /\ Exact(RefineFirst(i)) /\ Within("strict", RefineFirst(i), i)
         /\ RefineFirst(i).empty = i.empty /\ RefineFirst(i).integer = i.integer
         /\ Exact(RefineLast(i)) /\ Within("strict", RefineLast(i), i)
         /\ RefineLast(i).empty = i.empty /\ RefineLast(i).integer = i.integer
<1>0. i \in Interval
  BY DEF Exact
<1>1. CASE i.empty \/ Single(i)
  <2>1. RefineFirst(i) = i /\ RefineLast(i) = i
    BY <1>1 DEF RefineFirst, RefineLast
  <2>2. QED
    BY <1>0, <2>1, WithinItself, ModesAre
<1>2. CASE ~(i.empty \/ Single(i))
  <2>0. i.min \in 0 .. UintMax /\ i.max \in 0 .. UintMax /\ UintMax \in Nat /\ i.openmin \in BOOLEAN /\ i.openmax \in BOOLEAN
    BY <1>0, UintMaxAssumption DEF Interval, Bound, UintMaxAssumption
  <2>1. i.min < i.max
    BY <1>2, <2>0 DEF Exact, CheckEmpty, Single
  <2>2. Up(i.min) = i.min + 1 /\ Down(i.max) = i.max - 1
    BY <2>0, <2>1 DEF Up, Down
  <2>3. Exact(RefineFirst(i)) /\ Within("strict", RefineFirst(i), i) /\ RefineFirst(i).empty = i.empty
        /\ RefineFirst(i).integer = i.integer
    <3> DEFINE max == IF i.openmin THEN i.min + 1 ELSE i.min
               j == [i EXCEPT !.max = max, !.openmax = i.openmin]
    <3>1. RefineFirst(i) = j
      BY <1>2, <2>2 DEF RefineFirst
    <3>2. max \in Bound
      BY <2>0, <2>1 DEF Bound
    <3>3. /\ j \in Interval /\ j.min = i.min /\ j.openmin = i.openmin /\ j.max = max
          /\ j.openmax = i.openmin /\ j.empty = i.empty /\ j.lifted = i.lifted /\ j.integer = i.integer
      BY <1>0, <2>0, <3>2 DEF Interval
    <3> HIDE DEF j
    <3>4. ~CheckEmpty(j)
      BY <2>0, <3>3 DEF CheckEmpty
    <3>5. Contained(j, i)
      BY <2>0, <2>1, <3>3 DEF Contained
    <3>6. QED
      BY <1>2, <3>1, <3>3, <3>4, <3>5 DEF Exact, Within, Meets
  <2>4. Exact(RefineLast(i)) /\ Within("strict", RefineLast(i), i) /\ RefineLast(i).empty = i.empty
        /\ RefineLast(i).integer = i.integer
    <3> DEFINE min == IF i.openmax THEN i.max - 1 ELSE i.max
               j == [i EXCEPT !.min = min, !.openmin = i.openmax]
    <3>1. RefineLast(i) = j
      BY <1>2, <2>2 DEF RefineLast
    <3>2. min \in Bound
      BY <2>0, <2>1 DEF Bound
    <3>3. /\ j \in Interval /\ j.max = i.max /\ j.openmax = i.openmax /\ j.min = min
          /\ j.openmin = i.openmax /\ j.empty = i.empty /\ j.lifted = i.lifted /\ j.integer = i.integer
      BY <1>0, <2>0, <3>2 DEF Interval
    <3> HIDE DEF j
    <3>4. ~CheckEmpty(j)
      BY <2>0, <3>3 DEF CheckEmpty
    <3>5. Contained(j, i)
      BY <2>0, <2>1, <3>3 DEF Contained
    <3>6. QED
      BY <1>2, <3>1, <3>3, <3>4, <3>5 DEF Exact, Within, Meets
  <2>5. QED
    BY <2>3, <2>4
<1>3. QED
  BY <1>1, <1>2

\* _snd_interval_setinteger narrows and leaves the interval exact.
LEMMA SetIntegerWithin ==
  ASSUME NEW i, Exact(i)
  PROVE  Exact(SetInteger(i)) /\ Within("strict", SetInteger(i), i)
<1>1. /\ SetInteger(i) \in Interval
      /\ SetInteger(i).min = i.min /\ SetInteger(i).openmin = i.openmin
      /\ SetInteger(i).max = i.max /\ SetInteger(i).openmax = i.openmax
      /\ SetInteger(i).empty = i.empty /\ SetInteger(i).lifted = i.lifted
  BY DEF SetInteger, Exact, Interval
<1>2. Exact(SetInteger(i))
  BY <1>1 DEF Exact, CheckEmpty
<1>3. Contained(SetInteger(i), i)
  BY <1>1 DEF Contained, Interval, Bound
<1>4. QED
  BY <1>1, <1>2, <1>3 DEF Within, Meets

-----------------------------------------------------------------------------
(* Types.                                                                  *)

\* The intervals that arithmetic makes are intervals again.
LEMMA ClosedType ==
  ASSUME NEW min \in Bound, NEW max \in Bound, NEW integer \in BOOLEAN
  PROVE  Closed(min, max, integer) \in Interval
BY UintMaxAssumption DEF Closed, Whole, Interval, Bound, UintMaxAssumption

\* An open range is an interval.
LEMMA BetweenType ==
  ASSUME NEW min \in Bound, NEW max \in Bound
  PROVE  Between(min, max) \in Interval
BY UintMaxAssumption DEF Between, Closed, Whole, Interval, Bound, UintMaxAssumption

\* Saturated products are bounds.
LEMMA SaturateType ==
  ASSUME NEW n \in Nat
  PROVE  Saturate(n) \in Bound
BY UintMaxAssumption DEF Saturate, Bound, UintMaxAssumption

\* snd_interval_mul() gives an interval.
LEMMA MulType ==
  ASSUME NEW a \in Interval, NEW b \in Interval
  PROVE  Mul(a, b) \in Interval
<1>1. /\ a.min \in Nat /\ a.max \in Nat /\ b.min \in Nat /\ b.max \in Nat
      /\ a.openmin \in BOOLEAN /\ a.openmax \in BOOLEAN /\ a.integer \in BOOLEAN
      /\ b.openmin \in BOOLEAN /\ b.openmax \in BOOLEAN /\ b.integer \in BOOLEAN
  BY UintMaxAssumption DEF Interval, Bound, UintMaxAssumption
<1>2. a.min * b.min \in Nat /\ a.max * b.max \in Nat
  BY <1>1
<1>3. QED
  BY <1>1, <1>2, SaturateType DEF Mul, Interval

\* Divided and rounded outwards, a number stays a bound.
LEMMA QuotientType ==
  ASSUME NEW n \in Nat, NEW d \in Nat
  PROVE  Quotient(n, d) \in Bound /\ (Remains(n, d) => Quotient(n, d) + 1 \in Bound)
<1>0. UintMax \in Nat
  BY UintMaxAssumption DEF UintMaxAssumption
<1>1. CASE d = 0
  BY <1>0, <1>1 DEF Quotient, Remains, Bound
<1>2. CASE d # 0
  <2>1. n \div d \in Nat
    BY <1>2, Division
  <2>2. Quotient(n, d) = Saturate(n \div d)
    BY <1>2 DEF Quotient
  <2>3. Remains(n, d) => n \div d < UintMax
    BY DEF Remains
  <2>4. QED
    BY <1>0, <2>1, <2>2, <2>3 DEF Saturate, Bound
<1>3. QED
  BY <1>1, <1>2

\* Two such quotients are the bounds of an interval.
LEMMA QuotientsType ==
  ASSUME NEW n \in Nat, NEW d \in Nat, NEW open \in BOOLEAN,
         NEW N \in Nat, NEW D \in Nat, NEW Open \in BOOLEAN
  PROVE  Quotients(n, d, open, N, D, Open) \in Interval
<1>1. Quotient(n, d) \in Bound /\ Quotient(N, D) + (IF Remains(N, D) THEN 1 ELSE 0) \in Bound
  <2>1. Quotient(n, d) \in Bound /\ Quotient(N, D) \in Bound /\ Quotient(N, D) + 0 = Quotient(N, D)
    <3>1. Quotient(n, d) \in Bound /\ Quotient(N, D) \in Bound
      BY QuotientType
    <3>2. Quotient(N, D) \in Int
      BY <3>1 DEF Bound
    <3>3. QED
      BY <3>1, <3>2
  <2>2. CASE Remains(N, D)
    BY <2>1, <2>2, QuotientType
  <2>3. CASE ~Remains(N, D)
    BY <2>1, <2>3
  <2>4. QED
    BY <2>2, <2>3
<1>2. Remains(n, d) \in BOOLEAN /\ Remains(N, D) \in BOOLEAN
  BY DEF Remains
<1>3. QED
  BY <1>1, <1>2 DEF Quotients, Interval

\* snd_interval_mulkdiv() gives an interval,
LEMMA MulKDivType ==
  ASSUME NEW a \in Interval, NEW b \in Interval, NEW k \in Nat
  PROVE  MulKDiv(a, k, b) \in Interval
<1>1. /\ a.min \in Nat /\ a.max \in Nat /\ b.min \in Nat /\ b.max \in Nat
      /\ a.openmin \in BOOLEAN /\ a.openmax \in BOOLEAN
      /\ b.openmin \in BOOLEAN /\ b.openmax \in BOOLEAN
  BY UintMaxAssumption DEF Interval, Bound, UintMaxAssumption
<1>2. a.min * k \in Nat /\ a.max * k \in Nat
  BY <1>1
<1>3. QED
  BY <1>1, <1>2, QuotientsType DEF MulKDiv

\* snd_interval_div() too,
LEMMA DivType ==
  ASSUME NEW a \in Interval, NEW b \in Interval
  PROVE  Div(a, b) \in Interval
BY MulKDivType DEF Div

\* snd_interval_muldivk() too,
LEMMA MulDivKType ==
  ASSUME NEW a \in Interval, NEW b \in Interval, NEW k \in Nat
  PROVE  MulDivK(a, b, k) \in Interval
<1>1. /\ a.min \in Nat /\ a.max \in Nat /\ b.min \in Nat /\ b.max \in Nat
      /\ a.openmin \in BOOLEAN /\ a.openmax \in BOOLEAN
      /\ b.openmin \in BOOLEAN /\ b.openmax \in BOOLEAN
  BY UintMaxAssumption DEF Interval, Bound, UintMaxAssumption
<1>2. a.min * b.min \in Nat /\ a.max * b.max \in Nat
  BY <1>1
<1>3. QED
  BY <1>1, <1>2, QuotientsType DEF MulDivK

\* and snd_interval_muldiv() too.
LEMMA MulDivType ==
  ASSUME NEW a \in Interval, NEW b \in Interval, NEW c \in Interval
  PROVE  MulDiv(a, b, c) \in Interval
<1>1. /\ a.min \in Nat /\ a.max \in Nat /\ b.min \in Nat /\ b.max \in Nat /\ c.min \in Nat /\ c.max \in Nat
      /\ a.openmin \in BOOLEAN /\ a.openmax \in BOOLEAN
      /\ b.openmin \in BOOLEAN /\ b.openmax \in BOOLEAN /\ c.openmin \in BOOLEAN /\ c.openmax \in BOOLEAN
  BY UintMaxAssumption DEF Interval, Bound, UintMaxAssumption
<1>2. a.min * b.min \in Nat /\ a.max * b.max \in Nat
  BY <1>1
<1>3. QED
  BY <1>1, <1>2, QuotientsType DEF MulDiv

\* snd_interval_floor() and _unfloor() give intervals.
LEMMA FloorTypes ==
  ASSUME NEW i \in Interval
  PROVE  Floor(i) \in Interval /\ Unfloor(i) \in Interval
<1>1. UintMax \in Nat
  BY UintMaxAssumption DEF UintMaxAssumption
<1>2. Floor(i) \in Interval
  <2>1. i.max \in Bound /\ Down(i.max) \in Bound
    BY <1>1 DEF Interval, Bound, Down
  <2>2. QED
    BY <2>1 DEF Floor, Interval
<1>3. Unfloor(i) \in Interval
  <2>1. i.max # UintMax => i.max + 1 \in Bound
    BY <1>1 DEF Interval, Bound
  <2>2. QED
    BY <2>1 DEF Unfloor, Interval
<1>4. QED
  BY <1>2, <1>3

-----------------------------------------------------------------------------
(* Spaces.                                                                 *)

ExactSpace(p) == p \in Spaces /\ \A var \in Vars : Exact(p.ivl[var])

\* What may have become of a space: q has nothing that p has not.
Narrower(mode, p, q) ==
  /\ ExactSpace(q)
  /\ q.format \subseteq p.format
  /\ \A var \in Vars : Within(ModeFor(mode, var), q.ivl[var], p.ivl[var])

\* A step from p to s narrows the space and, of the configurations C, loses none
\* that p has; then it does not fail either.
Leads(mode, C, p, s) ==
  /\ Narrower(mode, p, s.p)
  /\ \A c \in C : InSpace(c, p) => s.st \in {"ok", "endless"} /\ InSpace(c, s.p)

\* Becoming narrower is reflexive,
LEMMA NarrowerItself ==
  ASSUME NEW mode \in Modes, NEW p, ExactSpace(p)
  PROVE  Narrower(mode, p, p)
<1>1. ASSUME NEW var \in Vars PROVE Within(ModeFor(mode, var), p.ivl[var], p.ivl[var])
  <2>1. p.ivl[var] \in Interval
    BY DEF ExactSpace, Exact
  <2>2. QED
    BY <2>1, WithinItself, ModesAre
<1>2. QED
  BY <1>1 DEF Narrower

\* and transitive.
LEMMA NarrowerOn ==
  ASSUME NEW mode \in Modes, NEW p, ExactSpace(p), NEW q, NEW r,
         Narrower(mode, p, q), Narrower(mode, q, r)
  PROVE  Narrower(mode, p, r)
<1>1. ASSUME NEW var \in Vars PROVE Within(ModeFor(mode, var), r.ivl[var], p.ivl[var])
  <2>1. p.ivl[var] \in Interval /\ q.ivl[var] \in Interval /\ r.ivl[var] \in Interval
    BY DEF Narrower, ExactSpace, Exact
  <2>2. /\ Within(ModeFor(mode, var), q.ivl[var], p.ivl[var])
        /\ Within(ModeFor(mode, var), r.ivl[var], q.ivl[var])
    BY DEF Narrower
  <2>3. QED
    BY <2>1, <2>2, WithinOn, ModesAre
<1>2. QED
  BY <1>1 DEF Narrower

\* What is strictly narrower is narrower in either mode.
LEMMA NarrowerLoosely ==
  ASSUME NEW mode \in Modes, NEW p, ExactSpace(p), NEW q, Narrower("strict", p, q)
  PROVE  Narrower(mode, p, q)
<1>1. ASSUME NEW var \in Vars PROVE Within(ModeFor(mode, var), q.ivl[var], p.ivl[var])
  <2>1. p.ivl[var] \in Interval /\ q.ivl[var] \in Interval
    BY DEF Narrower, ExactSpace, Exact
  <2>2. p.ivl[var].min \in Int /\ p.ivl[var].max \in Int
    BY <2>1 DEF Interval, Bound
  <2>3. Within("strict", q.ivl[var], p.ivl[var])
    BY ModesAre DEF Narrower
  <2>4. QED
    BY <2>1, <2>2, <2>3, Loosely, ModesAre
<1>2. QED
  BY <1>1 DEF Narrower

\* Marks, and leaving formats out.
LEMMA SameIntervals ==
  ASSUME NEW mode \in Modes, NEW p, ExactSpace(p), NEW q \in Spaces, q.ivl = p.ivl, q.format \subseteq p.format
  PROVE  Narrower(mode, p, q)
<1>1. ExactSpace(q)
  BY DEF ExactSpace
<1>2. Narrower(mode, q, q)
  BY <1>1, NarrowerItself, ModesAre
<1>3. QED
  BY <1>2 DEF Narrower

\* Exact spaces are what the theorem about the rules asks for.
LEMMA ExactIsSound ==
  ASSUME NEW p, ExactSpace(p)
  PROVE  SoundSpace(p)
BY DEF ExactSpace, Exact, SoundSpace, Sound

\* Steps that lose nothing can follow each other.
LEMMA LeadsOn ==
  ASSUME NEW mode \in Modes, NEW C, NEW p, ExactSpace(p), NEW s, NEW t,
         Leads(mode, C, p, s), Leads(mode, C, s.p, t)
  PROVE  Leads(mode, C, p, t)
<1>1. Narrower(mode, p, t.p)
  BY NarrowerOn DEF Leads
<1>2. QED
  BY <1>1 DEF Leads

\* A strict step loses nothing of fewer configurations in either mode.
LEMMA LeadsLoosely ==
  ASSUME NEW mode \in Modes, NEW C, NEW D, D \subseteq C, NEW p, ExactSpace(p), NEW s, Leads("strict", C, p, s)
  PROVE  Leads(mode, D, p, s)
BY NarrowerLoosely DEF Leads

\* Nor does a step of fewer configurations.
LEMMA LeadsFewer ==
  ASSUME NEW mode, NEW C, NEW D, D \subseteq C, NEW p, NEW s, Leads(mode, C, p, s)
  PROVE  Leads(mode, D, p, s)
BY DEF Leads

\* The marks of a space do not count.
LEMMA MarksLead ==
  ASSUME NEW mode \in Modes, NEW C, NEW p, ExactSpace(p), NEW var \in Params,
         NEW st
  PROVE  /\ ExactSpace(Marked(p, var)) /\ ExactSpace(Changed(p, var))
         /\ Narrower(mode, p, Marked(p, var)) /\ Narrower(mode, p, Changed(p, var))
         /\ Marked(p, var).ivl = p.ivl /\ Marked(p, var).format = p.format
         /\ Changed(p, var).ivl = p.ivl /\ Changed(p, var).format = p.format
         /\ \A c : (InSpace(c, Marked(p, var)) <=> InSpace(c, p)) /\ (InSpace(c, Changed(p, var)) <=> InSpace(c, p))
<1> DEFINE m == Marked(p, var)
           n == Changed(p, var)
<1>1. /\ m \in Spaces /\ m.ivl = p.ivl /\ m.format = p.format
      /\ n \in Spaces /\ n.ivl = p.ivl /\ n.format = p.format
  BY DEF ExactSpace, Spaces, Marked, Changed
<1> HIDE DEF m, n
<1>2. ExactSpace(m) /\ ExactSpace(n)
  BY <1>1 DEF ExactSpace
<1>3. Narrower(mode, p, m) /\ Narrower(mode, p, n)
  BY <1>1, SameIntervals
<1>4. \A c : (InSpace(c, m) <=> InSpace(c, p)) /\ (InSpace(c, n) <=> InSpace(c, p))
  BY <1>1 DEF InSpace
<1>5. QED
  BY <1>1, <1>2, <1>3, <1>4 DEF m, n

\* An interval that is within the one it replaces.
LEMMA NarrowedLeads ==
  ASSUME NEW p, ExactSpace(p), NEW var \in Vars, NEW i, Exact(i), Within("strict", i, p.ivl[var])
  PROVE  /\ Narrowed(p, var, i).st = (IF i.empty THEN "error" ELSE "ok")
         /\ Narrowed(p, var, i).p.ivl[var] = i
         /\ Narrowed(p, var, i).p.rmask = p.rmask /\ Narrowed(p, var, i).p.format = p.format
         /\ \A x \in Vars : x # var => Narrowed(p, var, i).p.ivl[x] = p.ivl[x]
         /\ ExactSpace(Narrowed(p, var, i).p) /\ Narrower("strict", p, Narrowed(p, var, i).p)
<1> DEFINE q == [p EXCEPT !.ivl[var] = i]
<1>1. i \in Interval
  BY DEF Exact
<1>2. /\ Narrowed(p, var, i).p = q
      /\ Narrowed(p, var, i).st = (IF i.empty THEN "error" ELSE "ok")
  BY DEF Narrowed, Ok, Error
<1>3. /\ q \in Spaces /\ q.format = p.format /\ q.rmask = p.rmask
      /\ \A x \in Vars : q.ivl[x] = IF x = var THEN i ELSE p.ivl[x]
  BY <1>1 DEF ExactSpace, Spaces
<1> HIDE DEF q
<1>4. ExactSpace(q)
  BY <1>3 DEF ExactSpace
<1>5. ASSUME NEW x \in Vars PROVE Within("strict", q.ivl[x], p.ivl[x])
  <2>1. CASE x = var
    BY <1>3, <2>1
  <2>2. CASE x # var
    <3>1. p.ivl[x] \in Interval
      BY DEF ExactSpace, Exact
    <3>2. QED
      BY <1>3, <2>2, <3>1, WithinItself, ModesAre
  <2>3. QED
    BY <2>1, <2>2
<1>6. Narrower("strict", p, q)
  BY <1>3, <1>4, <1>5, ModesAre DEF Narrower
<1>7. QED
  BY <1>2, <1>3, <1>4, <1>6 DEF q

\* The configurations that have a number in an interval stay with it.
LEMMA NarrowedSpares ==
  ASSUME NEW p, ExactSpace(p), NEW var \in Vars, NEW i, Exact(i), Within("strict", i, p.ivl[var]),
         NEW c, InSpace(c, p), Holds(i, Num(c, var), Den(c, var))
  PROVE  Narrowed(p, var, i).st = "ok" /\ InSpace(c, Narrowed(p, var, i).p)
<1> DEFINE q == Narrowed(p, var, i).p
<1>1. /\ Narrowed(p, var, i).st = (IF i.empty THEN "error" ELSE "ok")
      /\ q.ivl[var] = i /\ q.rmask = p.rmask /\ q.format = p.format
      /\ \A x \in Vars : x # var => q.ivl[x] = p.ivl[x]
  BY NarrowedLeads
<1> HIDE DEF q
<1>2. ~i.empty
  BY DEF Holds
<1>3. InSpace(c, q)
  BY <1>1 DEF InSpace, Num, Den
<1>4. QED
  BY <1>1, <1>2, <1>3 DEF q

-----------------------------------------------------------------------------
(* What is known of the configurations spaces are measured by.             *)
LEMMA SampleIs ==
  ASSUME NEW c \in Sample
  PROVE  /\ Possible(c) /\ c \in Configurations /\ Countable(c)
         /\ \A var \in Vars : Holds(Initial(var), Num(c, var), Den(c, var))
BY HwParamsAssumption DEF HwParamsAssumption, Possible, Countable, Num, Den

-----------------------------------------------------------------------------
(* The rules.                                                              *)
LEMMA WidthBounds ==
  ASSUME NEW p, p.format \subseteq Formats
  PROVE  LeastWidth(p) \in Bound /\ GreatestWidth(p) \in Bound
<1>1. UintMax \in Nat /\ 0 \in Bound /\ UintMax \in Bound
  BY UintMaxAssumption DEF UintMaxAssumption, Bound
<1>2. Widths(p) \in SUBSET (0 .. UintMax)
  BY <1>1, HwRulesAssumption DEF Widths, Formats, HwRulesAssumption
<1>3. CASE p.format = {}
  BY <1>1, <1>3 DEF LeastWidth, GreatestWidth
<1>4. CASE p.format # {}
  <2>1. PICK w : w \in Widths(p)
    BY <1>4 DEF Widths
  <2>2. Min(Widths(p)) \in Widths(p) /\ Max(Widths(p)) \in Widths(p)
    BY <1>2, <2>1, MinMaxExist
  <2>3. QED
    BY <1>2, <1>4, <2>2 DEF LeastWidth, GreatestWidth, Bound
<1>5. QED
  BY <1>3, <1>4

\* The rule for formats narrows the space and loses nothing.
LEMMA FormatLeads ==
  ASSUME NEW p, ExactSpace(p)
  PROVE  Leads("strict", Sample, p, FormatRule(p))
<1> DEFINE left == {f \in p.format : Test(p.ivl["SAMPLE_BITS"], Width[f])}
           q    == [p EXCEPT !.format = left]
<1>1. FormatRule(p).p = q
  BY DEF FormatRule, Ok, Error
<1>2. q \in Spaces /\ q.ivl = p.ivl /\ q.format = left /\ left \subseteq p.format
  BY DEF ExactSpace, Spaces
<1>3. Narrower("strict", p, q)
  BY <1>2, SameIntervals, ModesAre
<1>4. ASSUME NEW c \in Sample, InSpace(c, p) PROVE Kept(c, FormatRule(p))
  BY <1>4, SampleIs, ExactIsSound, FormatKeeps
<1>5. QED
  BY <1>1, <1>3, <1>4 DEF Leads, Kept

\* The rule for sample bits narrows the space and loses nothing.
LEMMA SampleBitsLeads ==
  ASSUME NEW p, ExactSpace(p)
  PROVE  Leads("strict", Sample, p, SampleBitsRule(p))
<1> DEFINE b == p.ivl["SAMPLE_BITS"]
           i == RefineMin(b, LeastWidth(p), FALSE)
           j == RefineMax(i, GreatestWidth(p), FALSE)
<1>1. "SAMPLE_BITS" \in Vars /\ Exact(b) /\ LeastWidth(p) \in Bound /\ GreatestWidth(p) \in Bound
  BY WidthBounds DEF ExactSpace, Spaces, Vars
<1>2. Exact(i) /\ Within("strict", i, b)
  BY <1>1, RefineMinWithin
<1>3. Exact(j) /\ Within("strict", j, i)
  BY <1>1, <1>2, RefineMaxWithin
<1>4. Within("strict", j, b)
  BY <1>1, <1>2, <1>3, WithinOn, ModesAre DEF Exact
<1>5. SampleBitsRule(p) = Narrowed(p, "SAMPLE_BITS", j)
  BY DEF SampleBitsRule
<1> HIDE DEF j
<1>6. Narrower("strict", p, SampleBitsRule(p).p)
  BY <1>1, <1>3, <1>4, <1>5, NarrowedLeads
<1>7. ASSUME NEW c \in Sample, InSpace(c, p) PROVE Kept(c, SampleBitsRule(p))
  BY <1>7, SampleIs, ExactIsSound, SampleBitsKeeps
<1>8. QED
  BY <1>6, <1>7 DEF Leads, Kept

\* What the rules are about.
LEMMA RulesAre ==
  /\ DOMAIN Rules = 1 .. 20 /\ Len(Rules) = 20
  /\ \A k \in 1 .. 20 :
       /\ Rules[k].op \in {"format", "sample_bits", "mul", "div", "mulkdiv", "muldivk"}
       /\ Rules[k].var \in Params
       /\ Rules[k].op \notin {"format", "sample_bits"} =>
            /\ Rules[k].var \in Vars /\ Rules[k].deps[1] \in Vars /\ Rules[k].deps[2] \in Vars
            /\ Rules[k].k \in Nat
<1>1. TimeUnit \in Nat
  BY HwRulesAssumption DEF HwRulesAssumption
<1>2. DOMAIN Rules = 1 .. 20 /\ Len(Rules) = 20
  BY DEF Rules
<1>3. ASSUME NEW k \in 1 .. 20
      PROVE  /\ Rules[k].op \in {"format", "sample_bits", "mul", "div", "mulkdiv", "muldivk"}
             /\ Rules[k].var \in Params
             /\ Rules[k].op \notin {"format", "sample_bits"} =>
                  /\ Rules[k].var \in Vars /\ Rules[k].deps[1] \in Vars /\ Rules[k].deps[2] \in Vars
                  /\ Rules[k].k \in Nat
  <2>1. CASE k \in 1 .. 5
    BY <1>1, <2>1 DEF Rules, IntervalRule, Vars, Params
  <2>2. CASE k \in 6 .. 10
    BY <1>1, <2>2 DEF Rules, IntervalRule, Vars, Params
  <2>3. CASE k \in 11 .. 15
    BY <1>1, <2>3 DEF Rules, IntervalRule, Vars, Params
  <2>4. CASE k \in 16 .. 20
    BY <1>1, <2>4 DEF Rules, IntervalRule, Vars, Params
  <2>5. QED
    BY <2>1, <2>2, <2>3, <2>4
<1>4. QED
  BY <1>2, <1>3

\* Going on with an uninitialised interval.
LEMMA UndefinedIs ==
  ASSUME NEW p, ExactSpace(p)
  PROVE  /\ ExactSpace(Undefined(p).p) /\ Undefined(p).p.ivl = p.ivl /\ Undefined(p).p.format = p.format
         /\ Undefined(p).st = "undefined"
<1> DEFINE q == [p EXCEPT !.junk = TRUE]
<1>1. q \in Spaces /\ q.ivl = p.ivl /\ q.format = p.format
  BY DEF ExactSpace, Spaces
<1>2. ExactSpace(q)
  BY <1>1 DEF ExactSpace
<1>3. QED
  BY <1>1, <1>2 DEF Undefined

\* Whichever rule is applied: it narrows the space and loses nothing.
LEMMA AppliedLeads ==
  ASSUME NEW p, ExactSpace(p), NEW k \in 1 .. 20
  PROVE  Leads("strict", Sample, p, Applied(p, Rules[k]))
<1> DEFINE r == Rules[k]
           i == p.ivl[r.var]
           a == p.ivl[r.deps[1]]
           b == p.ivl[r.deps[2]]
           t == Computed(p, r)
           e == Applied(p, r)
<1>1. /\ r.op \in {"format", "sample_bits", "mul", "div", "mulkdiv", "muldivk"}
      /\ r.op \notin {"format", "sample_bits"} =>
           r.var \in Vars /\ r.deps[1] \in Vars /\ r.deps[2] \in Vars /\ r.k \in Nat
  BY RulesAre
<1>2. ASSUME NEW c \in Sample, InSpace(c, p) PROVE Kept(c, e)
  BY <1>2, SampleIs, ExactIsSound, RulesAre, RuleLosesNothing
<1> HIDE DEF r
<1>3. CASE r.op = "format"
  <2>1. e.p = FormatRule(p).p
    BY <1>3 DEF Applied
  <2>2. QED
    BY <1>2, <2>1, FormatLeads DEF Leads, Kept, r
<1>4. CASE r.op = "sample_bits"
  <2>1. e.p = SampleBitsRule(p).p
    BY <1>4 DEF Applied
  <2>2. QED
    BY <1>2, <2>1, SampleBitsLeads DEF Leads, Kept, r
<1>5. CASE r.op \in {"mul", "div", "mulkdiv", "muldivk"}
  <2>0. r.var \in Vars /\ r.deps[1] \in Vars /\ r.deps[2] \in Vars /\ r.k \in Nat
    BY <1>1, <1>5
  <2>1. i \in Interval /\ Exact(i) /\ a \in Interval /\ b \in Interval
    BY <2>0 DEF ExactSpace, Exact
  <2>2. t \in Interval
    BY <1>5, <2>0, <2>1, MulType, DivType, MulKDivType, MulDivKType DEF Computed
  <2>3. Narrower("strict", p, e.p)
    <3>1. CASE ~Defined(a, b)
      <4>1. e.p = p \/ e.p = Undefined(p).p
        BY <1>5, <3>1 DEF Applied, Error
      <4>2. Narrower("strict", p, Undefined(p).p)
        BY UndefinedIs, SameIntervals, ModesAre DEF ExactSpace
      <4>3. QED
        BY <4>1, <4>2, NarrowerItself, ModesAre
    <3>2. CASE Defined(a, b) /\ r.op = "mulkdiv" /\ ~Divides(a, b)
      <4>1. e.p = p
        BY <1>5, <3>2 DEF Applied, Abort
      <4>2. QED
        BY <4>1, NarrowerItself, ModesAre
    <3>3. CASE Defined(a, b) /\ ~(r.op = "mulkdiv" /\ ~Divides(a, b))
      <4>1. e.p = Narrowed(p, r.var, Refine(i, t)).p
        BY <1>5, <3>3 DEF Applied
      <4>2. Exact(Refine(i, t)) /\ Within("strict", Refine(i, t), i)
        BY <2>1, <2>2, RefineWithin
      <4>3. QED
        BY <2>0, <4>1, <4>2, NarrowedLeads
    <3>4. QED
      BY <3>1, <3>2, <3>3
  <2>4. QED
    BY <1>2, <2>3 DEF Leads, Kept, r
<1>6. QED
  BY <1>1, <1>3, <1>4, <1>5

-----------------------------------------------------------------------------
(* Refining by the rules.                                                  *)

\* What differs in marks alone.
LEMMA LeadsAs ==
  ASSUME NEW mode \in Modes, NEW C, NEW p, ExactSpace(p), NEW s, Leads(mode, C, p, s),
         NEW t, t.p \in Spaces, t.p.ivl = s.p.ivl, t.p.format = s.p.format,
         s.st \in {"ok", "endless"} => t.st \in {"ok", "endless"}
  PROVE  Leads(mode, C, p, t)
<1>1. ExactSpace(s.p)
  BY DEF Leads, Narrower
<1>2. Narrower(mode, s.p, t.p)
  BY <1>1, SameIntervals
<1>3. Narrower(mode, p, t.p)
  BY <1>2, NarrowerOn DEF Leads
<1>4. \A c : InSpace(c, s.p) <=> InSpace(c, t.p)
  BY DEF InSpace
<1>5. QED
  BY <1>3, <1>4 DEF Leads

\* A step that changes nothing loses nothing.
LEMMA LeadsItself ==
  ASSUME NEW mode \in Modes, NEW C, NEW p, ExactSpace(p), NEW s, s.p = p, s.st \in {"ok", "endless"}
  PROVE  Leads(mode, C, p, s)
BY NarrowerItself DEF Leads

\* A parameter refined by an interval keeps the configurations with a number in it.
LEMMA RefinedLeads ==
  ASSUME NEW p, ExactSpace(p), NEW var \in Vars, NEW v \in Interval
  PROVE  LET n == Narrowed(p, var, Refine(p.ivl[var], v))
         IN /\ Leads("strict", {c \in Sample : Holds(v, Num(c, var), Den(c, var))}, p, n)
            /\ n.p.rmask = p.rmask /\ n.p.ivl[var] = Refine(p.ivl[var], v)
            /\ Exact(Refine(p.ivl[var], v))
            /\ n.st = (IF Refine(p.ivl[var], v).empty THEN "error" ELSE "ok")
<1> DEFINE i == p.ivl[var]
           j == Refine(i, v)
           n == Narrowed(p, var, j)
<1>1. Exact(i)
  BY DEF ExactSpace
<1>2. Exact(j) /\ Within("strict", j, i)
  BY <1>1, RefineWithin
<1>3. Narrower("strict", p, n.p) /\ n.p.rmask = p.rmask /\ n.p.ivl[var] = j
      /\ n.st = (IF j.empty THEN "error" ELSE "ok")
  BY <1>2, NarrowedLeads
<1>4. ASSUME NEW c \in Sample, Holds(v, Num(c, var), Den(c, var)), InSpace(c, p)
      PROVE  n.st = "ok" /\ InSpace(c, n.p)
  BY <1>4, SampleIs, ExactIsSound, NarrowedKeeps
<1> HIDE DEF n, j
<1>5. Leads("strict", {c \in Sample : Holds(v, Num(c, var), Den(c, var))}, p, n)
  BY <1>3, <1>4 DEF Leads
<1>6. QED
  BY <1>2, <1>3, <1>5 DEF n, j

\* The order in which refinement limits the parameters has each of them.
LEMMA VarsAre ==
  /\ VarOrder \in Seq(Vars) /\ Len(VarOrder) = 11
  /\ \A i \in 1 .. 11 : VarOrder[i] \in Vars
  /\ Vars \subseteq Params
<1>1. VarOrder \in Seq(Vars) /\ Len(VarOrder) = 11 /\ Vars \subseteq Params
  BY DEF VarOrder, Vars, Params
<1>2. QED
  BY <1>1

\* refine_intervals[] has intervals.
LEMMA InitialType ==
  ASSUME NEW var
  PROVE  Initial(var) \in Interval
<1>1. 0 \in Bound /\ 1 \in Bound /\ UintMax \in Bound
  BY UintMaxAssumption DEF UintMaxAssumption, Bound
<1> DEFINE min == IF var \in {"PERIOD_TIME", "PERIOD_SIZE", "PERIOD_BYTES", "PERIODS"} THEN 0 ELSE 1
           integer == var \in {"SAMPLE_BITS", "FRAME_BITS", "CHANNELS", "BUFFER_SIZE", "BUFFER_BYTES"}
<1>2. min \in Bound
  BY <1>1
<1>3. integer = TRUE \/ integer = FALSE
  OBVIOUS
<1>4. Initial(var) = Closed(min, UintMax, integer)
  BY DEF Initial
<1> HIDE DEF min, integer
<1>5. CASE integer = TRUE
  BY <1>1, <1>2, <1>4, <1>5, ClosedType
<1>6. CASE integer = FALSE
  BY <1>1, <1>2, <1>4, <1>6, ClosedType
<1>7. QED
  BY <1>3, <1>5, <1>6

\* Limiting one parameter to its initial interval loses nothing that is possible.
LEMMA LimitLeads ==
  ASSUME NEW s, ExactSpace(s.p), NEW var \in Vars
  PROVE  /\ Narrower("strict", s.p, Limit(s, var).p)
         /\ s.st = "ok" => Leads("strict", Sample, s.p, Limit(s, var))
         /\ s.st # "ok" => Limit(s, var) = s
<1> DEFINE i == s.p.ivl[var]
           n == Narrowed(s.p, var, Refine(i, Initial(var)))
           t == Limit(s, var)
<1>1. CASE s.st # "ok" \/ var \notin s.p.rmask
  <2>1. t = s
    BY <1>1 DEF Limit
  <2>2. QED
    BY <2>1, NarrowerItself, LeadsItself, ModesAre
<1>2. CASE ~(s.st # "ok" \/ var \notin s.p.rmask)
  <2>1. Leads("strict", {c \in Sample : Holds(Initial(var), Num(c, var), Den(c, var))}, s.p, n)
    BY InitialType, RefinedLeads
  <2>2. Sample = {c \in Sample : Holds(Initial(var), Num(c, var), Den(c, var))}
    BY SampleIs
  <2>3. Leads("strict", Sample, s.p, n)
    BY <2>1, <2>2
  <2>4. t = n \/ t = [n EXCEPT !.p = Changed(n.p, var)]
    BY <1>2 DEF Limit
  <2>5. n = [p |-> n.p, st |-> n.st]
    BY DEF Narrowed, Ok, Error
  <2> HIDE DEF n, t
  <2>6. (t.p = n.p \/ t.p = Changed(n.p, var)) /\ t.st = n.st
    BY <2>4, <2>5
  <2>7. ExactSpace(n.p) /\ var \in Params
    BY <2>3, VarsAre DEF Leads, Narrower
  <2>8. t.p \in Spaces /\ t.p.ivl = n.p.ivl /\ t.p.format = n.p.format
    BY <2>6, <2>7, MarksLead, ModesAre DEF ExactSpace
  <2>9. Leads("strict", Sample, s.p, t)
    BY <2>3, <2>6, <2>8, LeadsAs, ModesAre
  <2>10. QED
    BY <1>2, <2>9 DEF Leads, t
<1>3. QED
  BY <1>1, <1>2

LimitOp(p, z, var) == Limit(z, var)
LimitInv(p, z, i) == Leads("strict", Sample, p, z)
LimitFold == INSTANCE FoldInduction WITH Op <- LimitOp, Inv <- LimitInv

\* Limiting what was asked for.
LEMMA LimitedLeads ==
  ASSUME NEW p, ExactSpace(p)
  PROVE  Leads("strict", Sample, p, Limited(p))
<1> DEFINE x == IF "FORMAT" \in p.rmask /\ p.format = {} THEN Error(Changed(p, "FORMAT")) ELSE Ok(p)
           f == LimitFold!Left(p, x, VarOrder)
<1>1. Limited(p) = f
  BY Zenon DEF Limited, LimitOp, FoldLeft, MapThenFoldSet, LimitFold!Left, LimitFold!Last, Max
<1>2. LimitInv(p, x, 0)
  <2>1. CASE "FORMAT" \in p.rmask /\ p.format = {}
    <3>1. x.p = Changed(p, "FORMAT")
      BY <2>1 DEF Error
    <3>2. Narrower("strict", p, Changed(p, "FORMAT"))
      BY MarksLead, ModesAre DEF Params
    <3>3. \A c : ~InSpace(c, p)
      BY <2>1 DEF InSpace
    <3>4. QED
      BY <3>1, <3>2, <3>3 DEF LimitInv, Leads
  <2>2. CASE ~("FORMAT" \in p.rmask /\ p.format = {})
    <3>1. x.p = p /\ x.st = "ok"
      BY <2>2 DEF Ok
    <3>2. QED
      BY <3>1, LeadsItself, ModesAre DEF LimitInv
  <2>3. QED
    BY <2>1, <2>2
<1> HIDE DEF x, f
<1>3. ASSUME NEW i \in 1 .. Len(VarOrder), NEW z, LimitInv(p, z, i - 1)
      PROVE  LimitInv(p, LimitOp(p, z, VarOrder[i]), i)
  <2>1. VarOrder[i] \in Vars
    BY VarsAre
  <2>2. Leads("strict", Sample, p, z) /\ ExactSpace(z.p)
    BY <1>3 DEF LimitInv, Leads, Narrower
  <2>3. CASE z.st = "ok"
    BY <2>1, <2>2, <2>3, LimitLeads, LeadsOn, ModesAre DEF LimitInv, LimitOp
  <2>4. CASE z.st # "ok"
    BY <2>1, <2>2, <2>4, LimitLeads DEF LimitInv, LimitOp
  <2>5. QED
    BY <2>3, <2>4
<1>4. LimitInv(p, f, Len(VarOrder))
  BY <1>2, <1>3, VarsAre, LimitFold!LeftHolds DEF f
<1>5. QED
  BY <1>1, <1>4 DEF LimitInv

\* Nor does what refinement starts from,
LEMMA UnsettledLeads ==
  ASSUME NEW p, ExactSpace(p)
  PROVE  Leads("strict", Sample, p, Unsettled(p))
<1>1. Unsettled(p).p = Limited(p).p /\ Unsettled(p).st = Limited(p).st
  BY DEF Unsettled
<1>2. QED
  BY <1>1, LimitedLeads DEF Leads

\* A rule, applied or not.
LEMMA TriedLeads ==
  ASSUME NEW s, ExactSpace(s.p), NEW k \in 1 .. 20
  PROVE  Tried(s, k) = s \/ Leads("strict", Sample, s.p, Tried(s, k))
<1> DEFINE a == Applied(s.p, Rules[k])
           t == ApplyRule(s, k)
           var == Rules[k].var
<1>1. t.p = (IF a.changes THEN Changed(a.p, var) ELSE a.p) /\ t.st = a.st
  BY DEF ApplyRule
<1>2. Leads("strict", Sample, s.p, a)
  BY AppliedLeads
<1>3. var \in Params /\ ExactSpace(a.p)
  BY <1>2, RulesAre DEF Leads, Narrower
<1> HIDE DEF a, t
<1>4. t.p \in Spaces /\ t.p.ivl = a.p.ivl /\ t.p.format = a.p.format
  BY <1>1, <1>3, MarksLead, ModesAre DEF ExactSpace
<1>5. Leads("strict", Sample, s.p, t)
  BY <1>1, <1>2, <1>4, LeadsAs, ModesAre
<1>6. QED
  BY <1>5 DEF Tried, t

\* Pass after pass.
TriedOp(p, z, k) == Tried(z, k)
PassOp(p, z, n) == Pass(z)
PassesOp(p, z, n) == Passes(z)
SettlesInv(p, z, n) == Leads("strict", Sample, p, z)
TriedTimes == INSTANCE FoldInduction WITH Op <- TriedOp, Inv <- SettlesInv
PassTimes == INSTANCE FoldInduction WITH Op <- PassOp, Inv <- SettlesInv
PassesTimes == INSTANCE FoldInduction WITH Op <- PassesOp, Inv <- SettlesInv

\* one pass over the rules,
LEMMA PassLeads ==
  ASSUME NEW p, ExactSpace(p), NEW s, Leads("strict", Sample, p, s)
  PROVE  Leads("strict", Sample, p, Pass(s))
<1>1. Pass(s) = IF s.stale = {} THEN s ELSE TriedTimes!Times(p, s, Len(Rules))
  BY Zenon DEF Pass, Repeated, TriedOp, TriedTimes!Times
<1>2. SettlesInv(p, s, 0)
  BY DEF SettlesInv
<1>3. ASSUME NEW k \in 1 .. Len(Rules), NEW z, SettlesInv(p, z, k - 1)
      PROVE  SettlesInv(p, TriedOp(p, z, k), k)
  <2>1. k \in 1 .. 20
    BY RulesAre
  <2>2. Leads("strict", Sample, p, z) /\ ExactSpace(z.p)
    BY <1>3 DEF SettlesInv, Leads, Narrower
  <2>3. QED
    BY <2>1, <2>2, TriedLeads, LeadsOn, ModesAre DEF SettlesInv, TriedOp
<1>4. Len(Rules) \in Nat
  BY RulesAre
<1>5. SettlesInv(p, TriedTimes!Times(p, s, Len(Rules)), Len(Rules))
  BY <1>2, <1>3, <1>4, TriedTimes!TimesHolds
<1>6. QED
  BY <1>1, <1>5 DEF SettlesInv

\* many of them,
LEMMA PassesLead ==
  ASSUME NEW p, ExactSpace(p), NEW s, Leads("strict", Sample, p, s)
  PROVE  Leads("strict", Sample, p, Passes(s))
<1>1. Passes(s) = IF s.stale = {} THEN s ELSE PassTimes!Times(p, s, MaxPasses)
  BY Zenon DEF Passes, Repeated, PassOp, PassTimes!Times
<1>2. SettlesInv(p, s, 0)
  BY DEF SettlesInv
<1>3. ASSUME NEW k \in 1 .. MaxPasses, NEW z, SettlesInv(p, z, k - 1)
      PROVE  SettlesInv(p, PassOp(p, z, k), k)
  BY <1>3, PassLeads DEF SettlesInv, PassOp
<1>4. MaxPasses \in Nat
  BY HwRefineAssumption DEF HwRefineAssumption
<1>5. SettlesInv(p, PassTimes!Times(p, s, MaxPasses), MaxPasses)
  BY <1>2, <1>3, <1>4, PassTimes!TimesHolds
<1>6. QED
  BY <1>1, <1>5 DEF SettlesInv

\* or as many as there may be.
LEMMA SettledLeads ==
  ASSUME NEW p, ExactSpace(p), NEW s, Leads("strict", Sample, p, s)
  PROVE  Leads("strict", Sample, p, Settled(s))
<1>1. Settled(s) = PassesTimes!Times(p, s, MaxPasses)
  BY Zenon DEF Settled, Repeated, PassesOp, PassesTimes!Times
<1>2. SettlesInv(p, s, 0)
  BY DEF SettlesInv
<1>3. ASSUME NEW k \in 1 .. MaxPasses, NEW z, SettlesInv(p, z, k - 1)
      PROVE  SettlesInv(p, PassesOp(p, z, k), k)
  BY <1>3, PassesLead DEF SettlesInv, PassesOp
<1>4. MaxPasses \in Nat
  BY HwRefineAssumption DEF HwRefineAssumption
<1>5. SettlesInv(p, PassesTimes!Times(p, s, MaxPasses), MaxPasses)
  BY <1>2, <1>3, <1>4, PassesTimes!TimesHolds
<1>6. QED
  BY <1>1, <1>5 DEF SettlesInv

(* snd_pcm_hw_refine_soft() takes away only what cannot be had.            *)
THEOREM RefineSoftLosesNothing ==
  ASSUME NEW p, ExactSpace(p)
  PROVE  Leads("strict", Sample, p, RefineSoft(p))
<1> DEFINE t == Settled(Unsettled(p))
<1>1. Leads("strict", Sample, p, t) /\ t.p \in Spaces
  BY UnsettledLeads, SettledLeads DEF Leads, Narrower, ExactSpace
<1> DEFINE q == [t.p EXCEPT !.rmask = {}]
<1>2. /\ RefineSoft(p).p \in {t.p, q}
      /\ t.st = "ok" => RefineSoft(p).st \in {"ok", "endless"}
      /\ t.st # "ok" => RefineSoft(p).st = t.st
  BY DEF RefineSoft, Ok
<1> HIDE DEF t
<1>3. q \in Spaces /\ q.ivl = t.p.ivl /\ q.format = t.p.format
  BY <1>1 DEF Spaces
<1> HIDE DEF q
<1>4. QED
  BY <1>1, <1>2, <1>3, LeadsAs, ModesAre

-----------------------------------------------------------------------------
(* What the direct plugins leave to their clients.                         *)

\* The configurations measured by that a kind of PCM has, where refining keeps them.
Held(k) == IF k = "rate" THEN {} ELSE {c \in Sample : Has(k, c)}

\* What is assumed of the slave of a direct PCM.
LEMMA SlaveIs ==
  /\ Slave.rate \in Bound /\ Slave.rate \in Nat \ {0}
  /\ Slave.rate + 1 \in Bound
  /\ Slave.format \in Formats
  /\ Slave.channels \in Bound /\ Slave.channels \in Nat \ {0}
  /\ Slave.period_size \in Bound /\ Slave.period_size \in Nat \ {0}
  /\ Slave.periods \in Bound /\ Slave.periods \in Nat \ {0}
  /\ SlaveSize \in Bound /\ SlaveSize \in Nat \ {0}
  /\ 2 \in Bound /\ MostPeriods \in Bound /\ MostPeriods \in Nat
<1>1. UintMax \in Nat /\ UintMax >= 2
  BY UintMaxAssumption DEF UintMaxAssumption
<1>2. /\ Slave.rate \in 1 .. UintMax - 1 /\ Slave.format \in Formats /\ Slave.channels \in 1 .. UintMax
      /\ Slave.period_size \in 1 .. UintMax /\ Slave.periods \in 1 .. UintMax
      /\ Slave.period_size * Slave.periods <= UintMax /\ MaxPeriods \in Int /\ MaxPeriods <= UintMax
  BY HwRefineAssumption DEF HwRefineAssumption
<1>3. SlaveSize \in Bound /\ SlaveSize \in Nat \ {0}
  <2>1. Slave.period_size * Slave.periods \in Nat \ {0}
    BY <1>1, <1>2
  <2>2. QED
    BY <1>1, <1>2, <2>1 DEF SlaveSize, Bound
<1>4. MostPeriods \in Bound /\ MostPeriods \in Nat
  BY <1>1, <1>2 DEF MostPeriods, Bound
<1>5. QED
  BY <1>1, <1>2, <1>3, <1>4 DEF Bound

\* A closed point has its number.
LEMMA PointHolds ==
  ASSUME NEW n \in Bound
  PROVE  Closed(n, n, TRUE) \in Interval /\ Holds(Closed(n, n, TRUE), n, 1)
<1>1. n \in Nat /\ n % 1 = 0
  BY UintMaxAssumption DEF Bound, UintMaxAssumption
<1>2. Closed(n, n, TRUE) \in Interval
  BY ClosedType
<1>3. QED
  BY <1>1, <1>2 DEF Closed, Whole, Holds, Above, Below

\* The interval of a time the slave keeps has the exact time.
LEMMA SlaveTimeHolds ==
  ASSUME NEW n \in Bound, n > 0
  PROVE  /\ SlaveTime(n) \in Interval
         /\ n * TimeUnit < UintMax * Slave.rate => Holds(SlaveTime(n), n * TimeUnit, Slave.rate)
<1> DEFINE a == Closed(n, n, TRUE)
           b == Closed(Slave.rate, Slave.rate, TRUE)
           k == TimeUnit
<1>1. /\ a \in Interval /\ Holds(a, n, 1) /\ b \in Interval /\ Holds(b, Slave.rate, 1)
  BY PointHolds, SlaveIs
<1>2. n \in Nat \ {0} /\ k \in Nat \ {0} /\ Slave.rate \in Nat \ {0} /\ UintMax \in Nat
  BY SlaveIs, UintMaxAssumption, HwRulesAssumption DEF Bound, UintMaxAssumption, HwRulesAssumption
<1>3. SlaveTime(n) = MulKDiv(a, k, b)
  BY DEF SlaveTime
<1> HIDE DEF a, b, k
<1>4. SlaveTime(n) \in Interval
  BY <1>1, <1>2, <1>3, MulKDivType
<1>5. ASSUME n * k < UintMax * Slave.rate
      PROVE  Holds(SlaveTime(n), n * k, Slave.rate)
  <2>1. n * k * 1 = n * k /\ 1 * Slave.rate = Slave.rate /\ 1 \in Nat \ {0}
    BY <1>2
  <2>2. n * k * 1 < UintMax * (1 * Slave.rate)
    BY <1>5, <2>1
  <2>3. Holds(MulKDiv(a, k, b), n * k * 1, 1 * Slave.rate)
    BY <1>1, <1>2, <2>1, <2>2, MulKDivHolds
  <2>4. QED
    BY <1>3, <2>1, <2>3
<1>6. QED
  BY <1>4, <1>5 DEF k

\* What the slave has is an interval with the value of every configuration of the PCM.
LEMMA SlaveHwHolds ==
  ASSUME NEW var \in {"RATE", "PERIOD_SIZE", "PERIOD_TIME", "BUFFER_SIZE", "BUFFER_TIME"}
  PROVE  /\ var \in Vars /\ SlaveHw(var) \in Interval
         /\ \A c \in Held("direct") :
              (var \in {"BUFFER_SIZE", "BUFFER_TIME"} => c.periods = Slave.periods)
                => Holds(SlaveHw(var), Num(c, var), Den(c, var))
<1>0. var \in Vars
  BY DEF Vars
<1>1. SlaveHw(var) \in Interval
  <2>1. Slave.period_size > 0 /\ SlaveSize > 0
    BY SlaveIs
  <2>2. SlaveTime(Slave.period_size) \in Interval /\ SlaveTime(SlaveSize) \in Interval
    BY <2>1, SlaveIs, SlaveTimeHolds
  <2>3. QED
    BY <2>2, SlaveIs, PointHolds DEF SlaveHw
<1>2. ASSUME NEW c \in Held("direct"), var \in {"BUFFER_SIZE", "BUFFER_TIME"} => c.periods = Slave.periods
      PROVE  Holds(SlaveHw(var), Num(c, var), Den(c, var))
  <2>1. /\ c.rate = Slave.rate /\ c.period_size = Slave.period_size /\ c \in Sample
    BY <1>2 DEF Held, Has
  <2>2. Num(c, var) < UintMax * Den(c, var)
    BY <1>0, <2>1, SampleIs DEF Countable
  <2>3. CASE var = "RATE"
    BY <2>1, <2>3, SlaveIs, PointHolds DEF SlaveHw, Num, Den, Value
  <2>4. CASE var = "PERIOD_SIZE"
    BY <2>1, <2>4, SlaveIs, PointHolds DEF SlaveHw, Num, Den, Value
  <2>5. CASE var = "BUFFER_SIZE"
    <3>1. Num(c, var) = SlaveSize /\ Den(c, var) = 1
      BY <1>2, <2>1, <2>5 DEF Num, Den, Value, SlaveSize
    <3>2. QED
      BY <2>5, <3>1, SlaveIs, PointHolds DEF SlaveHw
  <2>6. CASE var = "PERIOD_TIME"
    <3>1. Num(c, var) = Slave.period_size * TimeUnit /\ Den(c, var) = Slave.rate
      BY <2>1, <2>6 DEF Num, Den, Value
    <3>2. QED
      BY <2>2, <2>6, <3>1, SlaveIs, SlaveTimeHolds DEF SlaveHw
  <2>7. CASE var = "BUFFER_TIME"
    <3>1. Num(c, var) = SlaveSize * TimeUnit /\ Den(c, var) = Slave.rate
      BY <1>2, <2>1, <2>7 DEF Num, Den, Value, SlaveSize
    <3>2. QED
      BY <2>2, <2>7, <3>1, SlaveIs, SlaveTimeHolds DEF SlaveHw
  <2>8. QED
    BY <2>3, <2>4, <2>5, <2>6, <2>7
<1>3. QED
  BY <1>0, <1>1, <1>2

\* hw_param_interval_refine_one() loses no configuration whose number is in the interval.
LEMMA RefineOneLeads ==
  ASSUME NEW s, ExactSpace(s.p), NEW var \in Vars, NEW i \in Interval, NEW C, C \subseteq Sample,
         \A c \in C : Holds(i, Num(c, var), Den(c, var))
  PROVE  RefineOne(s, var, i) = s \/ Leads("strict", C, s.p, RefineOne(s, var, i))
<1> DEFINE j == Refine(s.p.ivl[var], i)
           q == [s.p EXCEPT !.ivl[var] = j]
           n == Narrowed(s.p, var, j)
           t == RefineOne(s, var, i)
<1>1. CASE s.st # "ok" \/ var \notin s.p.rmask
  BY <1>1 DEF RefineOne
<1>2. CASE ~(s.st # "ok" \/ var \notin s.p.rmask) /\ s.p.ivl[var].empty
  <2>1. t.p = s.p
    BY <1>2 DEF RefineOne, Error
  <2>2. \A c : ~InSpace(c, s.p)
    BY <1>2 DEF InSpace, Holds
  <2>3. QED
    BY <2>1, <2>2, NarrowerItself, ModesAre DEF Leads
<1>3. CASE ~(s.st # "ok" \/ var \notin s.p.rmask) /\ ~s.p.ivl[var].empty
  <2>1. Leads("strict", {c \in Sample : Holds(i, Num(c, var), Den(c, var))}, s.p, n)
    BY RefinedLeads
  <2>2. Leads("strict", C, s.p, n)
    BY <2>1 DEF Leads
  <2>3. n.p = q
    BY DEF Narrowed, Ok, Error
  <2>4. t.st = "ok" /\ (t.p = q \/ t.p = Changed(q, var))
    BY <1>3 DEF RefineOne, Ok
  <2> HIDE DEF n, q, t
  <2>5. ExactSpace(n.p) /\ var \in Params
    BY <2>2, VarsAre DEF Leads, Narrower
  <2>6. t.p \in Spaces /\ t.p.ivl = n.p.ivl /\ t.p.format = n.p.format
    BY <2>3, <2>4, <2>5, MarksLead, ModesAre DEF ExactSpace
  <2>7. Leads("strict", C, s.p, t)
    BY <2>2, <2>4, <2>6, LeadsAs, ModesAre
  <2>8. QED
    BY <2>7 DEF t
<1>4. QED
  BY <1>1, <1>2, <1>3

SlaveOp(p, z, var) == RefineOne(z, var, SlaveHw(var))
SlaveInv(p, z, n) == Leads("strict", p.C, p.x, z)
SlaveFold == INSTANCE FoldInduction WITH Op <- SlaveOp, Inv <- SlaveInv

\* So refining by the intervals of the slave loses none that the PCM has.
LEMMA SlaveHwLeads ==
  ASSUME NEW p, ExactSpace(p), NEW s, NEW C, C \subseteq Held("direct"), Leads("strict", C, p, s),
         NEW names \in Seq({"RATE", "PERIOD_SIZE", "PERIOD_TIME", "BUFFER_SIZE", "BUFFER_TIME"}),
         \A i \in 1 .. Len(names) : names[i] \in {"BUFFER_SIZE", "BUFFER_TIME"} =>
                                     \A c \in C : c.periods = Slave.periods
  PROVE  Leads("strict", C, p, RefineSlaveHw(s, names))
<1> DEFINE x == [C |-> C, x |-> p]
           f == SlaveFold!Left(x, s, names)
<1>1. RefineSlaveHw(s, names) = f
  <2> HIDE DEF x
  <2>1. RefineSlaveHw(s, names) = SlaveFold!Left(x, s, names)
    BY Zenon DEF RefineSlaveHw, SlaveOp, FoldLeft, MapThenFoldSet, SlaveFold!Left, SlaveFold!Last, Max
  <2>2. QED
    BY <2>1
<1>2. x.C = C /\ x.x = p
  OBVIOUS
<1> HIDE DEF x, f
<1>3. SlaveInv(x, s, 0)
  BY <1>2 DEF SlaveInv
<1>4. ASSUME NEW i \in 1 .. Len(names), NEW z, SlaveInv(x, z, i - 1)
      PROVE  SlaveInv(x, SlaveOp(x, z, names[i]), i)
  <2>1. names[i] \in {"RATE", "PERIOD_SIZE", "PERIOD_TIME", "BUFFER_SIZE", "BUFFER_TIME"}
    OBVIOUS
  <2>2. Leads("strict", C, p, z) /\ ExactSpace(z.p)
    BY <1>2, <1>4 DEF SlaveInv, Leads, Narrower
  <2>3. /\ names[i] \in Vars /\ SlaveHw(names[i]) \in Interval /\ C \subseteq Sample
        /\ \A c \in C : Holds(SlaveHw(names[i]), Num(c, names[i]), Den(c, names[i]))
    BY <2>1, SlaveHwHolds DEF Held
  <2>4. SlaveOp(x, z, names[i]) = z \/ Leads("strict", C, z.p, SlaveOp(x, z, names[i]))
    BY <2>2, <2>3, RefineOneLeads DEF SlaveOp
  <2>5. QED
    BY <1>2, <2>2, <2>4, LeadsOn, ModesAre DEF SlaveInv
<1>5. SlaveInv(x, f, Len(names))
  BY <1>3, <1>4, SlaveFold!LeftHolds DEF f
<1>6. QED
  BY <1>1, <1>2, <1>5 DEF SlaveInv

\* Nor does refining the format,
LEMMA DirectFormatLeads ==
  ASSUME NEW p, ExactSpace(p)
  PROVE  Leads("strict", Held("direct"), p, DirectFormat(p))
<1> DEFINE q == [p EXCEPT !.format = p.format \intersect {Slave.format}]
           t == DirectFormat(p)
<1>1. CASE "FORMAT" \notin p.rmask
  BY <1>1, LeadsItself, ModesAre DEF DirectFormat, Ok
<1>2. CASE "FORMAT" \in p.rmask /\ p.format = {}
  <2>1. t.p = p
    BY <1>2 DEF DirectFormat, Error
  <2>2. \A c : ~InSpace(c, p)
    BY <1>2 DEF InSpace
  <2>3. QED
    BY <2>1, <2>2, NarrowerItself, ModesAre DEF Leads
<1>3. CASE "FORMAT" \in p.rmask /\ p.format # {}
  <2>1. q \in Spaces /\ q.ivl = p.ivl /\ q.format = p.format \intersect {Slave.format}
    BY DEF ExactSpace, Spaces
  <2>2. t.st = "ok" /\ (t.p = q \/ t.p = Changed(q, "FORMAT"))
    BY <1>3 DEF DirectFormat, Ok
  <2> HIDE DEF q, t
  <2>3. Narrower("strict", p, q) /\ ExactSpace(q) /\ "FORMAT" \in Params
    BY <2>1, SameIntervals, ModesAre DEF Narrower, Params
  <2>4. Leads("strict", Held("direct"), p, Ok(q))
    BY <2>1, <2>3 DEF Leads, Ok, InSpace, Held, Has
  <2>5. t.p \in Spaces /\ t.p.ivl = q.ivl /\ t.p.format = q.format
    BY <2>1, <2>2, <2>3, MarksLead, ModesAre DEF ExactSpace
  <2>6. Ok(q).p = q
    BY DEF Ok
  <2>7. Leads("strict", Held("direct"), p, t)
    BY <2>2, <2>4, <2>5, <2>6, LeadsAs, ModesAre
  <2>8. QED
    BY <2>7 DEF t
<1>4. QED
  BY <1>1, <1>2, <1>3

\* the channels,
LEMMA DirectChannelsLeads ==
  ASSUME NEW p, ExactSpace(p), NEW s, Leads("strict", Held("direct"), p, s)
  PROVE  Leads("strict", Held("direct"), p, DirectChannels(s))
<1> DEFINE i == s.p.ivl["CHANNELS"]
           v == Closed(Slave.channels, Slave.channels, TRUE)
           t == DirectChannels(s)
<1>0. ExactSpace(s.p) /\ "CHANNELS" \in Vars
  BY DEF Leads, Narrower, Vars
<1>1. CASE s.st # "ok" \/ "CHANNELS" \notin s.p.rmask
  BY <1>1 DEF DirectChannels
<1>2. CASE ~(s.st # "ok" \/ "CHANNELS" \notin s.p.rmask) /\ i.empty
  <2>1. t.p = s.p
    BY <1>2 DEF DirectChannels, Error
  <2>2. \A c : ~InSpace(c, s.p)
    BY <1>0, <1>2 DEF InSpace, Holds
  <2>3. QED
    BY <2>1, <2>2 DEF Leads
<1>3. CASE ~(s.st # "ok" \/ "CHANNELS" \notin s.p.rmask) /\ ~i.empty
  <2>1. t = Narrowed(s.p, "CHANNELS", Refine(i, v))
    BY <1>3 DEF DirectChannels
  <2>2. v \in Interval /\ Holds(v, Slave.channels, 1)
    BY SlaveIs, PointHolds
  <2> HIDE DEF t, v
  <2>3. Leads("strict", {c \in Sample : Holds(v, Num(c, "CHANNELS"), Den(c, "CHANNELS"))}, s.p, t)
    BY <1>0, <2>1, <2>2, RefinedLeads
  <2>4. \A c \in Held("direct") : c \in Sample /\ Num(c, "CHANNELS") = Slave.channels /\ Den(c, "CHANNELS") = 1
    BY DEF Held, Has, Num, Den, Value
  <2>5. Leads("strict", Held("direct"), s.p, t)
    BY <2>2, <2>3, <2>4 DEF Leads
  <2>6. QED
    BY <2>5, LeadsOn, ModesAre DEF t
<1>4. QED
  BY <1>1, <1>2, <1>3

\* or the buffer, by the number of periods and the rules.
LEMMA DirectBufferLeads ==
  ASSUME NEW p, ExactSpace(p), NEW s, Leads("strict", Held("direct"), p, s)
  PROVE  Leads("strict", Held("direct"), p, DirectBuffer(s))
<1> DEFINE C == Held("direct")
           t == DirectBuffer(s)
<1>0. ExactSpace(s.p) /\ "PERIODS" \in Vars /\ C \subseteq Sample
  BY DEF Leads, Narrower, Vars, Held
<1>1. CASE s.st # "ok"
  BY <1>1 DEF DirectBuffer
<1>2. CASE s.st = "ok" /\ MaxPeriods < 0
  <2>1. t = RefineSlaveHw(s, <<"BUFFER_SIZE", "BUFFER_TIME">>)
    BY <1>2 DEF DirectBuffer
  <2>2. \A c \in C : c.periods = Slave.periods
    BY <1>2 DEF Held, Has
  <2> DEFINE names == <<"BUFFER_SIZE", "BUFFER_TIME">>
  <2>3. names \in Seq({"RATE", "PERIOD_SIZE", "PERIOD_TIME", "BUFFER_SIZE", "BUFFER_TIME"})
    OBVIOUS
  <2>4. t = RefineSlaveHw(s, names)
    BY <2>1
  <2> HIDE DEF names, C
  <2>5. Leads("strict", C, p, RefineSlaveHw(s, names))
    BY <2>2, <2>3, SlaveHwLeads DEF C
  <2>6. QED
    BY <2>4, <2>5 DEF C
<1>3. CASE s.st = "ok" /\ ~(MaxPeriods < 0)
  <2> DEFINE i == Closed(2, MostPeriods, TRUE)
             u == RefineOne(s, "PERIODS", i)
  <2>1. t = s \/ t = (IF u.st = "ok" THEN RefineSoft(u.p) ELSE u)
    BY <1>3 DEF DirectBuffer, Then
  <2>2. i \in Interval
    BY SlaveIs, ClosedType
  <2>3. ASSUME NEW c \in C PROVE Holds(i, Num(c, "PERIODS"), Den(c, "PERIODS"))
    <3>1. c.periods \in 2 .. MostPeriods /\ Num(c, "PERIODS") = c.periods /\ Den(c, "PERIODS") = 1
      BY <1>3 DEF Held, Has, Num, Den, Value
    <3>2. MostPeriods \in Nat /\ c.periods % 1 = 0
      BY <3>1, SlaveIs
    <3>3. QED
      BY <3>1, <3>2 DEF Holds, Above, Below, Closed, Whole
  <2> HIDE DEF C, i, t
  <2>4. u = s \/ Leads("strict", C, s.p, u)
    BY <1>0, <2>2, <2>3, RefineOneLeads
  <2> HIDE DEF u
  <2>5. Leads("strict", C, p, u)
    BY <2>4, LeadsOn, ModesAre DEF C
  <2>6. ExactSpace(u.p)
    BY <2>5 DEF Leads, Narrower
  <2>7. Leads("strict", C, u.p, RefineSoft(u.p))
    BY <1>0, <2>6, RefineSoftLosesNothing, LeadsFewer
  <2>8. Leads("strict", C, p, RefineSoft(u.p))
    BY <2>5, <2>7, LeadsOn, ModesAre
  <2>9. QED
    BY <2>1, <2>5, <2>8 DEF C, t
<1>4. QED
  BY <1>1, <1>2, <1>3

(* snd_pcm_direct_hw_refine().                                             *)
LEMMA DirectLeads ==
  ASSUME NEW p, ExactSpace(p)
  PROVE  Leads("strict", Held("direct"), p, DirectRefine(p))
<1> DEFINE s == DirectChannels(DirectFormat(p))
           names == <<"RATE", "PERIOD_SIZE", "PERIOD_TIME">>
           t == RefineSlaveHw(s, names)
<1>0. /\ names \in Seq({"RATE", "PERIOD_SIZE", "PERIOD_TIME", "BUFFER_SIZE", "BUFFER_TIME"})
      /\ \A i \in 1 .. Len(names) : names[i] \notin {"BUFFER_SIZE", "BUFFER_TIME"}
  OBVIOUS
<1>1. Leads("strict", Held("direct"), p, s)
  BY DirectFormatLeads, DirectChannelsLeads
<1> HIDE DEF s, names
<1>2. Leads("strict", Held("direct"), p, t)
  BY <1>0, <1>1, SlaveHwLeads
<1> HIDE DEF t
<1>3. Leads("strict", Held("direct"), p, DirectBuffer(t))
  BY <1>2, DirectBufferLeads
<1>4. QED
  BY <1>3 DEF DirectRefine, s, t, names

-----------------------------------------------------------------------------
(* Setting a parameter.                                                    *)
LEMMA PutLeads ==
  ASSUME NEW p, ExactSpace(p), NEW var \in Vars, NEW i, Exact(i), Within("strict", i, p.ivl[var]),
         NEW changes
  PROVE  LET n == Put(p, var, i, changes)
         IN /\ ExactSpace(n.p) /\ Narrower("strict", p, n.p)
            /\ n.p.ivl[var] = i /\ n.st = (IF i.empty THEN "error" ELSE "ok")
            /\ \A c : InSpace(c, p) /\ Holds(i, Num(c, var), Den(c, var)) => n.st = "ok" /\ InSpace(c, n.p)
<1> DEFINE m == IF changes \/ i.empty THEN Marked(p, var) ELSE p
           n == Narrowed(m, var, i)
<1>1. Put(p, var, i, changes) = n
  BY DEF Put
<1>2. /\ ExactSpace(m) /\ Narrower("strict", p, m) /\ m.ivl = p.ivl
      /\ \A c : InSpace(c, m) <=> InSpace(c, p)
  BY MarksLead, NarrowerItself, VarsAre, ModesAre
<1> HIDE DEF m
<1>3. /\ n.st = (IF i.empty THEN "error" ELSE "ok") /\ n.p.ivl[var] = i
      /\ ExactSpace(n.p) /\ Narrower("strict", m, n.p)
  BY <1>2, NarrowedLeads
<1>4. ASSUME NEW c, InSpace(c, p), Holds(i, Num(c, var), Den(c, var)) PROVE n.st = "ok" /\ InSpace(c, n.p)
  BY <1>2, <1>4, NarrowedSpares
<1> HIDE DEF n
<1>5. Narrower("strict", p, n.p)
  BY <1>2, <1>3, NarrowerOn, ModesAre
<1>6. QED
  BY <1>1, <1>3, <1>4, <1>5

\* Refining a parameter by an interval loses only what is outside it.
LEMMA PutIntervalLeads ==
  ASSUME NEW p, ExactSpace(p), NEW var \in Vars, NEW v \in Interval
  PROVE  LET n == PutInterval(p, var, v)
         IN /\ Leads("strict", {c \in Sample : Holds(v, Num(c, var), Den(c, var))}, p, n)
            /\ ExactSpace(n.p) /\ Narrower("strict", p, n.p) /\ Meets("strict", n.p.ivl[var], v)
<1> DEFINE i == p.ivl[var]
           j == Refine(i, v)
           n == PutInterval(p, var, v)
<1>1. Exact(i)
  BY DEF ExactSpace
<1>2. Exact(j) /\ Within("strict", j, i) /\ Meets("strict", j, v)
  BY <1>1, RefineWithin
<1>3. n = Put(p, var, j, RefineChanges(i, v))
  BY DEF PutInterval
<1>4. /\ ExactSpace(n.p) /\ Narrower("strict", p, n.p) /\ n.p.ivl[var] = j
      /\ \A c : InSpace(c, p) /\ Holds(j, Num(c, var), Den(c, var)) => n.st = "ok" /\ InSpace(c, n.p)
  BY <1>2, <1>3, PutLeads
<1>5. ASSUME NEW c \in Sample, Holds(v, Num(c, var), Den(c, var)), InSpace(c, p)
      PROVE  Holds(j, Num(c, var), Den(c, var))
  <2>1. Num(c, var) \in Nat /\ Den(c, var) \in Nat \ {0}
    BY SampleIs, ValueType
  <2>2. Sound(v) /\ ~v.empty
    BY <1>5, <2>1, NothingInEmpty DEF Sound, Holds
  <2>3. Sound(i) /\ Holds(i, Num(c, var), Den(c, var))
    BY <1>1, <1>5 DEF Exact, Sound, InSpace, Num, Den
  <2>4. QED
    BY <1>5, <2>1, <2>2, <2>3, RefineIntersects
<1> HIDE DEF n, j
<1>6. Leads("strict", {c \in Sample : Holds(v, Num(c, var), Den(c, var))}, p, n)
  BY <1>4, <1>5 DEF Leads
<1>7. QED
  BY <1>2, <1>4, <1>6 DEF n

-----------------------------------------------------------------------------
(* The ranges calls ask for.                                               *)
LEMMA AtMostIs ==
  ASSUME NEW val \in Bound, NEW dir \in Int, NEW b, b = AtMost(val, dir)
  PROVE  /\ b.min = 0 /\ ~b.openmin
         /\ b.max = IF dir > 0 THEN val + 1 ELSE val
         /\ b.openmin \in BOOLEAN /\ b.openmax \in BOOLEAN /\ (b.openmax <=> dir # 0)
<1>1. CASE dir = 0
  <2>1. b = Bounds(0, FALSE, val, FALSE)
    BY <1>1, Zenon DEF AtMost
  <2>2. ~(dir > 0)
    BY <1>1
  <2>3. b.min = 0 /\ b.openmin = FALSE /\ b.max = val /\ b.openmax = FALSE
    BY <2>1 DEF Bounds
  <2>4. QED
    BY <1>1, <2>2, <2>3
<1>2. CASE dir < 0
  <2>1. ~(dir = 0) /\ ~(dir > 0)
    BY <1>2
  <2>2. b = Bounds(0, FALSE, val, TRUE)
    BY <1>2, <2>1, Zenon DEF AtMost
  <2>3. QED
    BY <2>1, <2>2 DEF Bounds
<1>3. CASE dir > 0
  <2>1. ~(dir = 0) /\ ~(dir < 0)
    BY <1>3
  <2>2. b = Bounds(0, FALSE, val + 1, TRUE)
    BY <2>1, Zenon DEF AtMost
  <2>3. QED
    BY <1>3, <2>1, <2>2 DEF Bounds
<1>4. dir = 0 \/ dir < 0 \/ dir > 0
  OBVIOUS
<1>5. QED
  BY <1>1, <1>2, <1>3, <1>4, Zenon

\* And of the others.
LEMMA AtLeastIs ==
  ASSUME NEW val \in Bound, NEW dir \in Int, NEW b, b = AtLeast(val, dir)
  PROVE  /\ b.max = UintMax /\ ~b.openmax
         /\ b.min = IF dir < 0 /\ val > 0 THEN val - 1 ELSE val
         /\ b.openmin \in BOOLEAN /\ b.openmax \in BOOLEAN
         /\ (b.openmin <=> dir > 0 \/ (dir < 0 /\ val > 0))
<1>1. CASE dir < 0 /\ val > 0
  <2>1. b = Bounds(val - 1, TRUE, UintMax, FALSE)
    BY <1>1, Zenon DEF AtLeast
  <2>3. QED
    BY <1>1, <2>1 DEF Bounds
<1>2. CASE ~(dir < 0 /\ val > 0) /\ dir > 0
  <2>2. b = Bounds(val, TRUE, UintMax, FALSE)
    BY <1>2, Zenon DEF AtLeast
  <2>3. QED
    BY <1>2, <2>2 DEF Bounds
<1>3. CASE ~(dir < 0 /\ val > 0) /\ ~(dir > 0)
  <2>2. b = Bounds(val, FALSE, UintMax, FALSE)
    BY <1>3, Zenon DEF AtLeast
  <2>3. QED
    BY <1>3, <2>2 DEF Bounds
<1>5. QED
  BY <1>1, <1>2, <1>3, Zenon

\* The range of one value.
LEMMA ExactlyIs ==
  ASSUME NEW val \in Bound, NEW dir \in Int, NEW b, b = Exactly(val, dir)
  PROVE  /\ b.min = IF dir < 0 THEN val - 1 ELSE val
         /\ b.max = IF dir > 0 THEN val + 1 ELSE val
         /\ b.openmin \in BOOLEAN /\ b.openmax \in BOOLEAN
         /\ (b.openmin <=> dir # 0) /\ (b.openmax <=> dir # 0)
<1>1. CASE dir = 0
  <2>1. b = Bounds(val, FALSE, val, FALSE)
    BY <1>1, Zenon DEF Exactly
  <2>2. ~(dir > 0) /\ ~(dir < 0)
    BY <1>1
  <2>3. b.min = val /\ b.openmin = FALSE /\ b.max = val /\ b.openmax = FALSE
    BY <2>1 DEF Bounds
  <2>4. QED
    BY <1>1, <2>2, <2>3
<1>2. CASE dir < 0
  <2>1. ~(dir = 0) /\ ~(dir > 0)
    BY <1>2
  <2>2. b = Bounds(val - 1, TRUE, val, TRUE)
    BY <1>2, <2>1, Zenon DEF Exactly
  <2>3. QED
    BY <1>2, <2>1, <2>2 DEF Bounds
<1>3. CASE dir > 0
  <2>1. ~(dir = 0) /\ ~(dir < 0)
    BY <1>3
  <2>2. b = Bounds(val, TRUE, val + 1, TRUE)
    BY <2>1, Zenon DEF Exactly
  <2>3. QED
    BY <1>3, <2>1, <2>2 DEF Bounds
<1>4. dir = 0 \/ dir < 0 \/ dir > 0
  OBVIOUS
<1>5. QED
  BY <1>1, <1>2, <1>3, <1>4, Zenon
\* A value as a request asks for it.
Meeting(var, range) == {c \in Sample : InBounds(range, Value(c, var))}

\* _snd_pcm_hw_param_set_min() loses only what is less.
LEMMA PutMinLeads ==
  ASSUME NEW p, ExactSpace(p), NEW var \in Vars, NEW val \in Bound, NEW dir \in Int
  PROVE  LET n == PutMin(p, var, val, dir)
         IN /\ Leads("strict", Meeting(var, AtLeast(val, dir)), p, n)
            /\ ExactSpace(n.p) /\ Narrower("strict", p, n.p)
            /\ Meets("strict", n.p.ivl[var], AtLeast(val, dir))
<1> DEFINE open == dir > 0 \/ (dir < 0 /\ val > 0)
           min  == IF dir < 0 /\ val > 0 THEN val - 1 ELSE val
           i    == p.ivl[var]
           j    == RefineMin(i, min, open)
           n    == PutMin(p, var, val, dir)
<1>0. val \in 0 .. UintMax /\ UintMax \in Nat
  BY UintMaxAssumption DEF Bound, UintMaxAssumption
<1>1. min \in Bound /\ open \in BOOLEAN
  BY <1>0 DEF Bound
<1>2. PICK b : /\ b = AtLeast(val, dir) /\ b.min = min /\ b.openmin \in BOOLEAN
               /\ (b.openmin <=> open) /\ b.max = UintMax /\ ~b.openmax /\ b.openmax \in BOOLEAN
  <2>1. PICK b : b = AtLeast(val, dir)
    OBVIOUS
  <2>2. QED
    BY <2>1, AtLeastIs
<1>3. Exact(i)
  BY DEF ExactSpace
<1> HIDE DEF open, min
<1>4. Exact(j) /\ Within("strict", j, i) /\ (j.empty \/ j.lifted \/ NotBelow(j, min, open))
  BY <1>1, <1>3, RefineMinWithin
<1>5. n = Put(p, var, j, RefineMinChanges(i, min, open))
  BY DEF PutMin, min, open
<1>6. /\ ExactSpace(n.p) /\ Narrower("strict", p, n.p) /\ n.p.ivl[var] = j
      /\ \A c : InSpace(c, p) /\ Holds(j, Num(c, var), Den(c, var)) => n.st = "ok" /\ InSpace(c, n.p)
  BY <1>4, <1>5, PutLeads
<1>7. Meets("strict", j, AtLeast(val, dir))
  <2>1. j.max \in 0 .. UintMax
    BY <1>4 DEF Exact, Interval, Bound
  <2>2. CASE NotBelow(j, min, open)
    BY <1>0, <1>1, <1>2, <2>1, <2>2 DEF Meets, Contained, NotBelow, Bound
  <2>3. QED
    BY <1>4, <2>2 DEF Meets
<1>8. ASSUME NEW c \in Sample, InBounds(AtLeast(val, dir), Value(c, var)), InSpace(c, p)
      PROVE  Holds(j, Num(c, var), Den(c, var))
  <2>1. Num(c, var) \in Nat /\ Den(c, var) \in Nat \ {0} /\ Num(c, var) < UintMax * Den(c, var)
    BY SampleIs, ValueType DEF Countable
  <2>2. Sound(i) /\ Holds(i, Num(c, var), Den(c, var))
    BY <1>3, <1>8 DEF Exact, Sound, InSpace, Num, Den
  <2>3. Above(min, open, Num(c, var), Den(c, var))
    BY <1>2, <1>8 DEF InBounds, Num, Den, Above
  <2>4. open => min < UintMax
    <3>1. SUFFICES ASSUME open, min = UintMax PROVE FALSE
      BY <1>0, <1>1 DEF Bound
    <3>2. UintMax * Den(c, var) < Num(c, var)
      BY <2>3, <3>1 DEF Above
    <3>3. UintMax * Den(c, var) \in Nat
      BY <1>0, <2>1
    <3>4. QED
      BY <2>1, <3>2, <3>3
  <2>5. QED
    BY <1>1, <2>1, <2>2, <2>3, <2>4, RefineBoundExact
<1> HIDE DEF n, j
<1>9. Leads("strict", Meeting(var, AtLeast(val, dir)), p, n)
  BY <1>6, <1>8 DEF Leads, Meeting
<1>10. QED
  BY <1>6, <1>7, <1>9 DEF n

\* The greatest bound with a direction upwards wraps: then nothing is left, or a bound
\* of what is left has wrapped too.
LEMMA PutMaxLeads ==
  ASSUME NEW p, ExactSpace(p), NEW var \in Vars, NEW val \in Bound, NEW dir \in Int
  PROVE  LET n == PutMax(p, var, val, dir)
         IN /\ ~(dir > 0 /\ val = UintMax) => Leads("strict", Meeting(var, AtMost(val, dir)), p, n)
            /\ dir > 0 /\ val = UintMax => n.st = "error" \/ n.p.ivl[var].lifted
            /\ ExactSpace(n.p) /\ Narrower("strict", p, n.p)
            /\ Meets("strict", n.p.ivl[var], AtMost(val, dir))
<1> DEFINE open == dir # 0
           max  == IF dir > 0 THEN Up(val) ELSE val
           i    == p.ivl[var]
           j    == RefineMax(i, max, open)
           n    == PutMax(p, var, val, dir)
<1>0. val \in 0 .. UintMax /\ UintMax \in Nat
  BY UintMaxAssumption DEF Bound, UintMaxAssumption
<1>1. max \in Bound /\ open \in BOOLEAN
  BY <1>0 DEF Bound, Up
<1>2. PICK b : /\ b = AtMost(val, dir) /\ b.min = 0 /\ ~b.openmin /\ b.openmax \in BOOLEAN
               /\ b.max \in Int /\ (b.openmax <=> open)
               /\ IF dir > 0 /\ val = UintMax THEN b.max = UintMax + 1 /\ max = 0 ELSE b.max = max
  <2>1. PICK b : b = AtMost(val, dir)
    OBVIOUS
  <2>2. QED
    BY <1>0, <2>1, AtMostIs DEF Up
<1>3. Exact(i)
  BY DEF ExactSpace
<1> HIDE DEF open, max
<1>4. Exact(j) /\ Within("strict", j, i) /\ (j.empty \/ j.lifted \/ NotAbove(j, max, open))
  BY <1>1, <1>3, RefineMaxWithin
<1>5. n = Put(p, var, j, RefineMaxChanges(i, max, open))
  BY DEF PutMax, max, open
<1>6. /\ ExactSpace(n.p) /\ Narrower("strict", p, n.p) /\ n.p.ivl[var] = j
      /\ n.st = (IF j.empty THEN "error" ELSE "ok")
      /\ \A c : InSpace(c, p) /\ Holds(j, Num(c, var), Den(c, var)) => n.st = "ok" /\ InSpace(c, n.p)
  BY <1>4, <1>5, PutLeads
<1>7. Meets("strict", j, b)
  <2>1. j.min \in 0 .. UintMax /\ j.max \in 0 .. UintMax
    BY <1>4 DEF Exact, Interval, Bound
  <2>2. CASE NotAbove(j, max, open)
    <3>1. NotAbove(j, b.max, b.openmax)
      BY <1>0, <1>1, <1>2, <2>1, <2>2 DEF NotAbove, Bound
    <3>2. NotBelow(j, b.min, b.openmin)
      BY <1>2, <2>1 DEF NotBelow
    <3>3. QED
      BY <3>1, <3>2, ContainedByBounds DEF Meets
  <2>3. QED
    BY <1>4, <2>2 DEF Meets
<1>8. ASSUME NEW c \in Sample, ~(dir > 0 /\ val = UintMax), InBounds(b, Value(c, var)), InSpace(c, p)
      PROVE  Holds(j, Num(c, var), Den(c, var))
  <2>1. Num(c, var) \in Nat \ {0} /\ Den(c, var) \in Nat \ {0}
    BY SampleIs, ValueType
  <2>2. Sound(i) /\ Holds(i, Num(c, var), Den(c, var))
    BY <1>3, <1>8 DEF Exact, Sound, InSpace, Num, Den
  <2>3. Below(max, open, Num(c, var), Den(c, var))
    BY <1>2, <1>8 DEF InBounds, Num, Den, Below
  <2>4. max > 0
    <3>1. SUFFICES ASSUME max = 0 PROVE FALSE
      BY <1>0, <1>1 DEF Bound
    <3>2. QED
      BY <2>1, <2>3, <3>1 DEF Below
  <2>5. QED
    BY <1>1, <2>1, <2>2, <2>3, <2>4, RefineBoundExact
<1>9. ASSUME dir > 0, val = UintMax
      PROVE  j.empty \/ j.lifted
  <2>1. max = 0 /\ open
    BY <1>2, <1>9 DEF open
  <2>2. CASE i.empty
    BY <2>2 DEF RefineMax
  <2>3. CASE ~i.empty
    <3> DEFINE high == LowerMax(i, 0, TRUE)
               down == CloseMax(high)
    <3>0. i \in Interval /\ i.min \in Nat /\ i.max \in Nat /\ i.openmax \in BOOLEAN /\ i.integer \in BOOLEAN
      BY <1>0, <1>3 DEF Exact, Interval, Bound
    <3>1. high.max = 0 /\ high.openmax /\ high.min = i.min /\ high.integer = i.integer
      BY <3>0 DEF LowerMax, Interval
    <3>2. j = Flagged(down)
      BY <2>1, <2>3 DEF RefineMax
    <3>3. high \in Interval
      <4>1. 0 \in Bound
        BY <1>0 DEF Bound
      <4>2. high \in {[i EXCEPT !.max = 0, !.openmax = TRUE], [i EXCEPT !.openmax = TRUE], i}
        BY DEF LowerMax
      <4>3. QED
        BY <3>0, <4>1, <4>2 DEF Interval
    <3> HIDE DEF high
    <3>4. CASE high.integer
      <4>1. down.lifted
        BY <3>1, <3>3, <3>4 DEF CloseMax, Interval
      <4>2. down \in Interval
        BY <3>3, CloseMaxWithin
      <4> HIDE DEF down
      <4>3. Flagged(down).lifted
        BY <4>1, <4>2 DEF Flagged, None, Interval
      <4>4. QED
        BY <3>2, <4>3
    <3>5. CASE ~high.integer
      <4>1. down = high
        BY <3>5 DEF CloseMax
      <4>2. CheckEmpty(down)
        BY <3>0, <3>1, <4>1 DEF CheckEmpty
      <4>3. Flagged(down).empty
        BY <3>3, <4>1, <4>2 DEF Flagged, None, Interval
      <4>4. QED
        BY <3>2, <4>3
    <3>6. QED
      BY <3>4, <3>5
  <2>4. QED
    BY <2>2, <2>3
<1> HIDE DEF n, j
<1>10. ~(dir > 0 /\ val = UintMax) => Leads("strict", Meeting(var, b), p, n)
  BY <1>6, <1>8 DEF Leads, Meeting
<1>11. QED
  BY <1>2, <1>6, <1>7, <1>9, <1>10 DEF n

\* Setting both loses only what is outside.
LEMMA PutMinMaxLeads ==
  ASSUME NEW p, ExactSpace(p), NEW var \in Vars, NEW min \in Bound, NEW mindir \in Int,
         NEW max \in Bound, NEW maxdir \in Int, ~(maxdir > 0)
  PROVE  LET n == PutMinMax(p, var, min, mindir, max, maxdir)
         IN /\ Leads("strict", Meeting(var, AtLeast(min, mindir)) \intersect Meeting(var, AtMost(max, maxdir)), p, n)
            /\ ExactSpace(n.p) /\ Narrower("strict", p, n.p)
            /\ n.st = "ok" => /\ Meets("strict", n.p.ivl[var], AtLeast(min, mindir))
                              /\ Meets("strict", n.p.ivl[var], AtMost(max, maxdir))
<1> DEFINE l == AtLeast(min, mindir)
           u == AtMost(max, maxdir)
           C == Meeting(var, l) \intersect Meeting(var, u)
           a == PutMin(p, var, min, mindir)
           b == PutMax(a.p, var, max, maxdir)
           n == PutMinMax(p, var, min, mindir, max, maxdir)
<1>1. /\ Leads("strict", Meeting(var, l), p, a)
      /\ ExactSpace(a.p) /\ Narrower("strict", p, a.p) /\ Meets("strict", a.p.ivl[var], l)
  BY PutMinLeads
<1>2. n = IF a.st = "ok" THEN b ELSE a
  BY DEF PutMinMax, Then
<1> HIDE DEF a
<1>3. /\ Leads("strict", Meeting(var, u), a.p, b)
      /\ ExactSpace(b.p) /\ Narrower("strict", a.p, b.p) /\ Meets("strict", b.p.ivl[var], u)
  BY <1>1, PutMaxLeads
<1> HIDE DEF b
<1>4. Leads("strict", C, p, a) /\ Leads("strict", C, a.p, b)
  BY <1>1, <1>3, LeadsFewer
<1>5. PICK x : /\ x = l /\ x.min \in Int /\ x.max \in Int /\ x.openmin \in BOOLEAN /\ x.openmax \in BOOLEAN
  <2>1. PICK x : x = l
    OBVIOUS
  <2>2. min \in Int /\ UintMax \in Int
    BY UintMaxAssumption DEF Bound, UintMaxAssumption
  <2>3. QED
    BY <2>1, <2>2, AtLeastIs
<1> HIDE DEF n, C, l, u
<1>6. Leads("strict", C, p, n)
  BY <1>1, <1>2, <1>4, LeadsOn, ModesAre
<1>7. ASSUME n.st = "ok"
      PROVE  Meets("strict", n.p.ivl[var], l) /\ Meets("strict", n.p.ivl[var], u)
  <2>1. n = b
    BY <1>2, <1>7
  <2>2. a.p.ivl[var] \in Interval /\ b.p.ivl[var] \in Interval
    BY <1>1, <1>3 DEF ExactSpace, Exact
  <2>3. Within("strict", b.p.ivl[var], a.p.ivl[var])
    BY <1>3, ModesAre DEF Narrower
  <2>4. Meets("strict", b.p.ivl[var], x)
    BY <1>1, <1>5, <2>2, <2>3, MeetsOn, ModesAre
  <2>5. QED
    BY <1>3, <1>5, <2>1, <2>4
<1>8. ExactSpace(n.p) /\ Narrower("strict", p, n.p)
  BY <1>6 DEF Leads, Narrower
<1>9. QED
  BY <1>6, <1>7, <1>8 DEF n, C, l, u

-----------------------------------------------------------------------------
(* The rate plugin.                                                        *)

LinkOp(src, z, var) ==
  LET After(st, q) == [q EXCEPT !.st = IF st = "ok" THEN @ ELSE st]
  IN After(z.st, PutInterval(z.p, var, src.ivl[var]))
LinkInv(p, f, i) == Narrower("strict", p, f[i].p)
LinkFold == INSTANCE FoldInduction WITH Op <- LinkOp, Inv <- LinkInv

\* Linking one parameter narrows the space.
LEMMA LinkStep ==
  ASSUME NEW z, ExactSpace(z.p), NEW src, NEW var \in Vars, src.ivl[var] \in Interval
  PROVE  Narrower("strict", z.p, LinkOp(src, z, var).p)
<1> DEFINE n == PutInterval(z.p, var, src.ivl[var])
<1>1. Narrower("strict", z.p, n.p)
  BY PutIntervalLeads
<1>2. LinkOp(src, z, var).p = n.p
  <2>1. n = [p |-> n.p, st |-> n.st]
    BY DEF PutInterval, Put, Narrowed, Ok, Error
  <2> HIDE DEF n
  <2>2. LinkOp(src, z, var) = [n EXCEPT !.st = IF z.st = "ok" THEN n.st ELSE z.st]
    BY DEF LinkOp, n
  <2>3. QED
    BY <2>1, <2>2
<1>3. QED
  BY <1>1, <1>2

\* So does linking all of them (_snd_pcm_hw_params_refine()).
LEMMA PutLinkedNarrows ==
  ASSUME NEW p, ExactSpace(p), NEW names \in Seq(Vars), NEW src,
         \A var \in Vars : src.ivl[var] \in Interval
  PROVE  Narrower("strict", p, PutLinked(p, names, src).p)
<1> DEFINE left == p.format \intersect src.format
           q == [p EXCEPT !.format = left]
           r == IF left # p.format \/ left = {} THEN Marked(q, "FORMAT") ELSE q
           x == IF left = {} THEN Error(r) ELSE Ok(r)
           t == LinkFold!Left(src, x, names)
<1>1. PutLinked(p, names, src) = t
  BY Zenon DEF PutLinked, LinkOp, FoldLeft, MapThenFoldSet, LinkFold!Left, LinkFold!Last, Max
<1>2. x.p = r
  BY DEF Error, Ok
<1>3. q \in Spaces /\ q.ivl = p.ivl /\ q.format = left /\ left \subseteq p.format
  BY DEF ExactSpace, Spaces
<1> HIDE DEF q
<1>4. Narrower("strict", p, q) /\ ExactSpace(q) /\ "FORMAT" \in Params
  BY <1>3, SameIntervals, ModesAre DEF Narrower, Params
<1>5. Narrower("strict", p, r)
  <2>1. Narrower("strict", q, r)
    BY <1>4, MarksLead, NarrowerItself, ModesAre
  <2> HIDE DEF r
  <2>2. QED
    BY <1>4, <2>1, NarrowerOn, ModesAre
<1> HIDE DEF r, x, t
<1>6. PICK f : /\ f[0] = x
               /\ \A i \in 1 .. Len(names) : f[i] = LinkOp(src, f[i - 1], names[i])
               /\ t = f[Len(names)]
  BY LinkFold!LeftIs DEF t
<1>7. LinkInv(p, f, 0)
  BY <1>2, <1>5, <1>6 DEF LinkInv
<1>8. ASSUME NEW i \in 1 .. Len(names), LinkInv(p, f, i - 1)
      PROVE  LinkInv(p, f, i)
  <2>1. Narrower("strict", p, f[i - 1].p) /\ ExactSpace(f[i - 1].p) /\ names[i] \in Vars
    BY <1>8 DEF LinkInv, Narrower
  <2>2. Narrower("strict", f[i - 1].p, f[i].p)
    BY <1>6, <2>1, LinkStep
  <2>3. QED
    BY <2>1, <2>2, NarrowerOn, ModesAre DEF LinkInv
<1>9. Len(names) \in Nat
  OBVIOUS
<1>10. LinkInv(p, f, Len(names))
  BY <1>7, <1>8, <1>9, LinkFold!Upward
<1>11. QED
  BY <1>1, <1>6, <1>10 DEF LinkInv

\* One step, and another if it has succeeded.
LEMMA ThenNarrows ==
  ASSUME NEW mode \in Modes, NEW p, ExactSpace(p), NEW s, Narrower(mode, p, s.p), NEW t, NEW u,
         Narrower(mode, s.p, t.p), u = IF s.st = "ok" THEN t ELSE s
  PROVE  Narrower(mode, p, u.p)
BY NarrowerOn DEF Narrower

\* hw_refine_cprepare narrows the space.
LEMMA RatePrepareNarrows ==
  ASSUME NEW p, ExactSpace(p)
  PROVE  Narrower("strict", p, RatePrepare(p).p)
<1> DEFINE t == RatePrepare(p)
<1>0. RateMin \in Bound /\ RateMax \in Bound /\ "RATE" \in Vars /\ "FORMAT" \in Params /\ 0 \in Int
  BY HwRefineAssumption DEF HwRefineAssumption, Vars, Params
<1>1. CASE p.format = {}
  <2>1. t.p = Marked(p, "FORMAT")
    BY <1>1 DEF RatePrepare, Error
  <2>2. QED
    BY <1>0, <2>1, MarksLead, ModesAre
<1>2. CASE p.format # {}
  <2> DEFINE a == IF RateMin > 0 THEN PutMin(p, "RATE", RateMin, 0) ELSE Ok(p)
             b == IF RateMax > 0 THEN PutMax(a.p, "RATE", RateMax, 0) ELSE Ok(a.p)
  <2>1. t = IF a.st = "ok" THEN b ELSE a
    BY <1>2 DEF RatePrepare, Then
  <2>2. Narrower("strict", p, a.p)
    BY <1>0, PutMinLeads, NarrowerItself, ModesAre DEF Ok
  <2> HIDE DEF a
  <2>3. Narrower("strict", a.p, b.p)
    BY <1>0, <2>2, PutMaxLeads, NarrowerItself, ModesAre DEF Ok, Narrower
  <2> HIDE DEF b, t
  <2>4. Narrower("strict", p, t.p)
    BY <2>1, <2>2, <2>3, ThenNarrows, ModesAre
  <2>5. QED
    BY <2>4 DEF t
<1>3. QED
  BY <1>1, <1>2

\* The whole space is exact.
LEMMA AnySpaceExact == ExactSpace(AnySpace)
<1>1. Whole \in Interval /\ Exact(Whole)
  <2>1. 0 \in Bound /\ UintMax \in Bound /\ UintMax > 0 /\ UintMax \in Nat
    BY UintMaxAssumption DEF UintMaxAssumption, Bound
  <2>2. Whole \in Interval
    BY <2>1 DEF Whole, Interval
  <2>3. ~CheckEmpty(Whole) /\ ~Whole.empty
    BY <2>1 DEF Whole, CheckEmpty
  <2>4. QED
    BY <2>2, <2>3 DEF Exact
<1>2. AnySpace \in Spaces
  BY <1>1 DEF AnySpace, Spaces
<1>3. \A var \in Vars : AnySpace.ivl[var] = Whole
  BY DEF AnySpace
<1>4. QED
  BY <1>1, <1>2, <1>3 DEF ExactSpace

\* So is the one that hw_refine_sprepare starts the slave with.
LEMMA RateSlaveSpaceExact == ExactSpace(RateSlaveSpace)
<1>1. "RATE" \in Vars /\ Slave.rate \in Bound /\ Slave.rate + 1 \in Bound /\ 0 \in Int /\ -1 \in Int /\ ~(-1 > 0)
  BY SlaveIs DEF Vars
<1>2. ExactSpace(PutMinMax(AnySpace, "RATE", Slave.rate, 0, Slave.rate + 1, -1).p)
  BY <1>1, AnySpaceExact, PutMinMaxLeads
<1>3. QED
  BY <1>2 DEF RateSlaveSpace

\* Linked parameters are intervals.
LEMMA RateLinksAre == RateLinks \in Seq(Vars)
BY DEF RateLinks, Vars

\* hw_refine_schange leaves the space of the slave exact.
LEMMA ToSlaveExact ==
  ASSUME NEW p, ExactSpace(p), NEW sp, ExactSpace(sp)
  PROVE  ExactSpace(ToSlave(p, sp).p)
<1> DEFINE buffer == Unfloor(p.ivl["BUFFER_SIZE"])
           size   == MulDiv(buffer, sp.ivl["RATE"], p.ivl["RATE"])
           a == PutInterval(sp, "BUFFER_SIZE", size)
           b == PutLinked(a.p, RateLinks, p)
           t == ToSlave(p, sp)
<1>0. /\ "BUFFER_SIZE" \in Vars /\ "RATE" \in Vars
      /\ \A var \in Vars : p.ivl[var] \in Interval /\ sp.ivl[var] \in Interval
  BY DEF Vars, ExactSpace, Exact
<1>1. t = Undefined(sp) \/ t = IF a.st = "ok" THEN b ELSE a
  BY DEF ToSlave, Then
<1>2. size \in Interval
  <2>1. buffer \in Interval
    BY <1>0, FloorTypes
  <2> HIDE DEF buffer
  <2>2. QED
    BY <1>0, <2>1, MulDivType
<1> HIDE DEF size, buffer
<1>3. ExactSpace(a.p)
  BY <1>0, <1>2, PutIntervalLeads
<1> HIDE DEF a
<1>4. ExactSpace(b.p)
  BY <1>0, <1>3, RateLinksAre, PutLinkedNarrows DEF Narrower
<1>5. ExactSpace(Undefined(sp).p)
  BY UndefinedIs
<1> HIDE DEF b, t
<1>6. ExactSpace(t.p)
  BY <1>1, <1>3, <1>4, <1>5
<1>7. QED
  BY <1>6 DEF t

\* Taking the whole period may take an open bound: loosely, it narrows.
LEMMA WholePeriodNarrows ==
  ASSUME NEW p, ExactSpace(p)
  PROVE  Narrower("loose", p, WholePeriod(p))
<1> DEFINE period == p.ivl["PERIOD_SIZE"]
           Taken2(n) == [Closed(n, n, FALSE) EXCEPT !.lifted = period.lifted]
           Take(n) == [p EXCEPT !.ivl["PERIOD_SIZE"] = Taken2(n)]
           w == WholePeriod(p)
<1>0. "PERIOD_SIZE" \in Vars /\ Exact(period) /\ period \in Interval
  BY DEF Vars, ExactSpace, Exact
<1>1. \/ w = p
      \/ ~CheckEmpty(period) /\ w \in {Take(period.min), Take(period.max)}
  BY DEF WholePeriod
<1>2. ASSUME ~CheckEmpty(period), NEW n \in {period.min, period.max}
      PROVE  Narrower("loose", p, Take(n))
  <2> DEFINE j == Taken2(n)
             q == Take(n)
  <2>1. n \in Bound /\ n \in Int /\ period.min \in Int /\ period.max \in Int /\ period.lifted \in BOOLEAN
    BY <1>0, UintMaxAssumption DEF Interval, Bound, UintMaxAssumption
  <2>2. /\ j \in Interval /\ j.min = n /\ j.max = n /\ ~j.openmin /\ ~j.openmax
        /\ ~j.empty /\ j.lifted = period.lifted
    BY <2>1 DEF Closed, Whole, Interval, Bound
  <2> HIDE DEF j
  <2>3. Exact(j)
    BY <2>1, <2>2 DEF Exact, CheckEmpty
  <2>4. ~period.empty /\ period.min <= period.max
    BY <1>0, <1>2, <2>1 DEF Exact, CheckEmpty
  <2>5. Within("loose", j, period)
    BY <2>1, <2>2, <2>4 DEF Within, Meets
  <2>6. /\ q \in Spaces /\ q.format = p.format
        /\ \A x \in Vars : q.ivl[x] = IF x = "PERIOD_SIZE" THEN j ELSE p.ivl[x]
    BY <1>0, <2>2 DEF ExactSpace, Spaces, j
  <2> HIDE DEF q
  <2>7. ExactSpace(q)
    BY <2>3, <2>6 DEF ExactSpace
  <2>8. ASSUME NEW x \in Vars PROVE Within(ModeFor("loose", x), q.ivl[x], p.ivl[x])
    <3>1. CASE x = "PERIOD_SIZE"
      BY <2>5, <2>6, <3>1 DEF ModeFor
    <3>2. CASE x # "PERIOD_SIZE"
      <4>1. p.ivl[x] \in Interval
        BY DEF ExactSpace, Exact
      <4>2. QED
        BY <2>6, <3>2, <4>1, WithinItself, ModesAre
    <3>3. QED
      BY <3>1, <3>2
  <2>9. QED
    BY <2>6, <2>7, <2>8 DEF Narrower, q
<1> HIDE DEF w, Take
<1>3. Narrower("loose", p, w)
  BY <1>1, <1>2, NarrowerItself, ModesAre
<1>4. QED
  BY <1>3 DEF w

\* And so hw_refine_cchange narrows the space of the client.
LEMMA ToClientNarrows ==
  ASSUME NEW p, ExactSpace(p), NEW sp, ExactSpace(sp)
  PROVE  Narrower("loose", p, ToClient(p, sp).p)
<1> DEFINE sbuffer == sp.ivl["BUFFER_SIZE"]
           size == Floor(MulDiv(sbuffer, p.ivl["RATE"], sp.ivl["RATE"]))
           a == PutInterval(p, "BUFFER_SIZE", size)
           w == WholePeriod(a.p)
           b == PutLinked(w, RateLinks, sp)
           t == ToClient(p, sp)
<1>0. /\ "BUFFER_SIZE" \in Vars /\ "RATE" \in Vars
      /\ \A var \in Vars : p.ivl[var] \in Interval /\ sp.ivl[var] \in Interval
  BY DEF Vars, ExactSpace, Exact
<1>1. t = Undefined(p) \/ t = IF a.st = "ok" THEN b ELSE a
  BY DEF ToClient, Then
<1>2. size \in Interval
  <2>1. MulDiv(sbuffer, p.ivl["RATE"], sp.ivl["RATE"]) \in Interval
    BY <1>0, MulDivType
  <2>2. QED
    BY <2>1, FloorTypes
<1> HIDE DEF size, sbuffer
<1>3. Narrower("strict", p, a.p) /\ ExactSpace(a.p)
  BY <1>0, <1>2, PutIntervalLeads
<1> HIDE DEF a
<1>4. Narrower("loose", p, a.p)
  BY <1>3, NarrowerLoosely, ModesAre
<1>5. Narrower("loose", a.p, w) /\ ExactSpace(w)
  BY <1>3, WholePeriodNarrows DEF Narrower
<1> HIDE DEF w
<1>6. Narrower("loose", w, b.p)
  BY <1>0, <1>5, RateLinksAre, PutLinkedNarrows, NarrowerLoosely, ModesAre
<1> HIDE DEF b
<1>7. Narrower("loose", a.p, b.p)
  BY <1>3, <1>5, <1>6, NarrowerOn, ModesAre
<1>8. Narrower("loose", p, Undefined(p).p)
  BY UndefinedIs, SameIntervals, ModesAre DEF ExactSpace
<1> HIDE DEF t
<1>9. Narrower("loose", p, t.p)
  BY <1>1, <1>4, <1>7, <1>8, ThenNarrows, ModesAre
<1>10. QED
  BY <1>9 DEF t

\* Which parameters are marked as changed is of no account.
LEMMA CmaskExact ==
  ASSUME NEW p, ExactSpace(p), NEW marks \in SUBSET Params
  PROVE  LET q == [p EXCEPT !.cmask = marks]
         IN /\ ExactSpace(q) /\ q.ivl = p.ivl /\ q.format = p.format
            /\ \A mode \in Modes : Narrower(mode, p, q)
            /\ \A c : InSpace(c, q) <=> InSpace(c, p)
<1> DEFINE q == [p EXCEPT !.cmask = marks]
<1>1. q \in Spaces /\ q.ivl = p.ivl /\ q.format = p.format
  BY DEF ExactSpace, Spaces
<1> HIDE DEF q
<1>2. ExactSpace(q)
  BY <1>1 DEF ExactSpace
<1>3. \A mode \in Modes : Narrower(mode, p, q)
  BY <1>1, SameIntervals
<1>4. \A c : InSpace(c, q) <=> InSpace(c, p)
  BY <1>1 DEF InSpace
<1>5. QED
  BY <1>1, <1>2, <1>3, <1>4 DEF q

\* A round on the side of the slave leaves an exact space,
LEMMA SlaveSideExact ==
  ASSUME NEW p, ExactSpace(p), NEW sp, ExactSpace(sp)
  PROVE  ExactSpace(SlaveSide(p, sp).p)
<1> DEFINE q == [p EXCEPT !.cmask = {}]
           a == ToSlave(q, sp)
           b == DirectRefine(a.p)
<1>1. SlaveSide(p, sp) = IF a.st = "ok" THEN b ELSE a
  BY DEF SlaveSide, Then
<1>2. ExactSpace(q)
  <2>1. {} \in SUBSET Params
    OBVIOUS
  <2>2. QED
    BY <2>1, CmaskExact
<1> HIDE DEF q
<1>3. ExactSpace(a.p)
  BY <1>2, ToSlaveExact
<1> HIDE DEF a
<1>4. ExactSpace(b.p)
  BY <1>3, DirectLeads DEF Leads, Narrower
<1> HIDE DEF b
<1>5. QED
  BY <1>1, <1>3, <1>4

\* and on the side of the client a narrower one.
LEMMA ClientSideNarrows ==
  ASSUME NEW p, ExactSpace(p), NEW slave, ExactSpace(slave.p)
  PROVE  Narrower("loose", p, ClientSide(p, slave).p) /\ ClientSide(p, slave).sp = slave.p
<1> DEFINE Outcome(q) == [p |-> [q.p EXCEPT !.cmask = @ \union p.cmask], st |-> q.st,
                          sp |-> slave.p, changed |-> q.p.cmask # {}]
           start == [p EXCEPT !.cmask = {}]
           a == ToClient(start, slave.p)
           b == RefineSoft(a.p)
           t == ClientSide(p, slave)
<1>1. Narrower("loose", p, start) /\ ExactSpace(start)
  <2>1. {} \in SUBSET Params
    OBVIOUS
  <2>2. QED
    BY <2>1, CmaskExact, ModesAre
<1> HIDE DEF start
<1>2. Narrower("loose", start, a.p)
  BY <1>1, ToClientNarrows
<1>3. Narrower("loose", p, a.p) /\ ExactSpace(a.p)
  BY <1>1, <1>2, NarrowerOn, ModesAre DEF Narrower
<1>4. Narrower("loose", p, b.p)
  <2>1. Narrower("strict", a.p, b.p)
    BY <1>3, RefineSoftLosesNothing DEF Leads
  <2> HIDE DEF a, b
  <2>2. Narrower("loose", a.p, b.p)
    BY <1>3, <2>1, NarrowerLoosely, ModesAre
  <2>3. QED
    BY <1>3, <2>2, NarrowerOn, ModesAre
<1>5. PICK q : t = Outcome(q) /\ (q.p = a.p \/ q.p = b.p \/ q.p = Undefined(p).p)
  <2> HIDE DEF Outcome
  <2>1. CASE slave.st = "ok"
    <3>1. t = Outcome(Then(a, RefineSoft))
      BY <2>1 DEF ClientSide, Outcome, start
    <3>2. Then(a, RefineSoft) = IF a.st = "ok" THEN b ELSE a
      BY DEF Then
    <3> HIDE DEF a, b
    <3>3. QED
      BY <3>1, <3>2
  <2>2. CASE slave.st = "error"
    <3>1. t = Outcome(Error(a.p))
      BY <2>2 DEF ClientSide, Outcome, start
    <3>2. Error(a.p).p = a.p
      BY DEF Error
    <3> HIDE DEF a, b
    <3>3. QED
      BY <3>1, <3>2
  <2>3. CASE slave.st # "ok" /\ slave.st # "error"
    <3>1. t = Outcome([p |-> Undefined(p).p, st |-> slave.st])
      BY <2>3 DEF ClientSide, Outcome, start
    <3>2. QED
      BY <3>1
  <2>4. QED
    BY <2>1, <2>2, <2>3
<1>6. Narrower("loose", p, q.p)
  <2>1. Narrower("loose", p, Undefined(p).p)
    BY UndefinedIs, SameIntervals, ModesAre DEF ExactSpace
  <2> HIDE DEF a, b
  <2>2. QED
    BY <1>3, <1>4, <1>5, <2>1
<1>7. t.sp = slave.p /\ t.p = [q.p EXCEPT !.cmask = q.p.cmask \union p.cmask]
  BY <1>5
<1> HIDE DEF t, a, b, Outcome
<1>8. ExactSpace(q.p) /\ q.p.cmask \union p.cmask \in SUBSET Params
  BY <1>6 DEF Narrower, ExactSpace, Spaces
<1>9. Narrower("loose", q.p, t.p)
  BY <1>7, <1>8, CmaskExact, ModesAre
<1>10. Narrower("loose", p, t.p)
  BY <1>6, <1>8, <1>9, NarrowerOn, ModesAre
<1>11. QED
  BY <1>7, <1>10 DEF t

RoundOp(p, z, n) == Again(z)
RoundInv(p, z, n) == Narrower("loose", p, z.p) /\ ExactSpace(z.sp)
RoundTimes == INSTANCE FoldInduction WITH Op <- RoundOp, Inv <- RoundInv

\* So do all the rounds,
LEMMA RoundsNarrow ==
  ASSUME NEW p, ExactSpace(p), NEW sp, ExactSpace(sp)
  PROVE  Narrower("loose", p, Rounds(p, sp).p)
<1> DEFINE x == [p |-> p, st |-> "ok", sp |-> sp, changed |-> TRUE]
           o == RoundTimes!Times(p, x, MaxRounds)
<1>1. Rounds(p, sp).p = o.p
  <2>1. Rounds(p, sp) = [p |-> o.p, st |-> IF o.st = "ok" /\ o.changed THEN "endless" ELSE o.st]
    BY Zenon DEF Rounds, Repeated, RoundOp, RoundTimes!Times
  <2> HIDE DEF o
  <2>2. QED
    BY <2>1
<1>2. RoundInv(p, x, 0)
  BY NarrowerItself, ModesAre DEF RoundInv
<1>3. ASSUME NEW i \in 1 .. MaxRounds, NEW z, RoundInv(p, z, i - 1)
      PROVE  RoundInv(p, RoundOp(p, z, i), i)
  <2>1. Narrower("loose", p, z.p) /\ ExactSpace(z.p) /\ ExactSpace(z.sp)
    BY <1>3 DEF RoundInv, Narrower
  <2>2. CASE ~(z.st = "ok" /\ z.changed)
    BY <2>1, <2>2 DEF RoundInv, RoundOp, Again
  <2>3. CASE z.st = "ok" /\ z.changed
    <3>1. RoundOp(p, z, i) = ClientSide(z.p, SlaveSide(z.p, z.sp))
      BY <2>3 DEF RoundOp, Again, Round
    <3>2. ExactSpace(SlaveSide(z.p, z.sp).p)
      BY <2>1, SlaveSideExact
    <3>3. /\ Narrower("loose", z.p, RoundOp(p, z, i).p)
          /\ RoundOp(p, z, i).sp = SlaveSide(z.p, z.sp).p
      BY <2>1, <3>1, <3>2, ClientSideNarrows
    <3>4. QED
      BY <2>1, <3>2, <3>3, NarrowerOn, ModesAre DEF RoundInv
  <2>4. QED
    BY <2>2, <2>3
<1>4. MaxRounds \in Nat
  BY HwRefineAssumption DEF HwRefineAssumption
<1> HIDE DEF x
<1>5. RoundInv(p, o, MaxRounds)
  BY <1>2, <1>3, <1>4, RoundTimes!TimesHolds
<1>6. QED
  BY <1>1, <1>5 DEF RoundInv

\* and snd_pcm_hw_refine_slave() as a whole.
LEMMA RateNarrows ==
  ASSUME NEW p, ExactSpace(p)
  PROVE  Narrower("loose", p, RateRefine(p).p)
<1> DEFINE a == RatePrepare(p)
           b == Rounds(a.p, RateSlaveSpace)
<1>1. RateRefine(p) = IF a.st = "ok" THEN b ELSE a
  BY DEF RateRefine, Then
<1>2. Narrower("strict", p, a.p)
  BY RatePrepareNarrows
<1> HIDE DEF a
<1>3. Narrower("loose", p, a.p) /\ ExactSpace(a.p)
  BY <1>2, NarrowerLoosely, ModesAre DEF Narrower
<1>4. Narrower("loose", a.p, b.p)
  BY <1>3, RateSlaveSpaceExact, RoundsNarrow
<1> HIDE DEF b
<1>5. QED
  BY <1>1, <1>3, <1>4, ThenNarrows, ModesAre

-----------------------------------------------------------------------------
(* snd_pcm_hw_refine(), of any kind of PCM.                                *)
ModeOf(k) == IF k = "rate" THEN "loose" ELSE "strict"

\* Every kind of PCM has a mode.
LEMMA ModeOfIs ==
  ASSUME NEW k
  PROVE  ModeOf(k) \in Modes
BY DEF ModeOf, Modes

\* Whatever the kind of PCM, snd_pcm_hw_refine() narrows the space and loses no
\* configuration that the PCM has (of a rate PCM: it narrows the space).
THEOREM HwRefineLeads ==
  ASSUME NEW k \in {"null", "direct", "rate"}, NEW p, ExactSpace(p)
  PROVE  Leads(ModeOf(k), Held(k), p, HwRefine(k, p))
<1>1. k = "null" \/ k = "direct" \/ k = "rate"
  OBVIOUS
<1>2. CASE k = "null"
  <2>1. HwRefine(k, p) = RefineSoft(p) /\ ModeOf(k) = "strict"
    BY <1>2 DEF HwRefine, ModeOf
  <2>2. Held(k) \subseteq Sample
    BY DEF Held
  <2>3. QED
    BY <2>1, <2>2, RefineSoftLosesNothing, LeadsFewer
<1>3. CASE k = "direct"
  <2>1. HwRefine(k, p) = DirectRefine(p) /\ ModeOf(k) = "strict"
    BY <1>3 DEF HwRefine, ModeOf
  <2>2. QED
    BY <1>3, <2>1, DirectLeads
<1>4. CASE k = "rate"
  <2>1. HwRefine(k, p) = RateRefine(p) /\ ModeOf(k) = "loose" /\ Held(k) = {}
    BY <1>4 DEF HwRefine, ModeOf, Held
  <2>2. QED
    BY <2>1, RateNarrows DEF Leads
<1>5. QED
  BY <1>1, <1>2, <1>3, <1>4

\* The kinds of PCM, and what is known of a range that a call asks for.
KindNames == {"null", "direct", "rate"}
Ranged(b) == b.min \in Int /\ b.max \in Int /\ b.openmin \in BOOLEAN /\ b.openmax \in BOOLEAN

\* What calls ask for are ranges.
LEMMA RangesAre ==
  ASSUME NEW val \in Bound, NEW dir \in Int
  PROVE  Ranged(AtLeast(val, dir)) /\ Ranged(AtMost(val, dir)) /\ Ranged(Exactly(val, dir))
<1>1. val \in Int /\ UintMax \in Int
  BY UintMaxAssumption DEF UintMaxAssumption, Bound
<1>2. Ranged(AtLeast(val, dir))
  <2>1. PICK b : b = AtLeast(val, dir)
    OBVIOUS
  <2>2. b.min \in Int /\ b.max \in Int /\ b.openmin \in BOOLEAN /\ b.openmax \in BOOLEAN
    BY <1>1, <2>1, AtLeastIs
  <2>3. QED
    BY <2>1, <2>2, Zenon DEF Ranged
<1>3. Ranged(AtMost(val, dir))
  <2>1. PICK b : b = AtMost(val, dir)
    OBVIOUS
  <2>2. b.min \in Int /\ b.max \in Int /\ b.openmin \in BOOLEAN /\ b.openmax \in BOOLEAN
    BY <1>1, <2>1, AtMostIs
  <2>3. QED
    BY <2>1, <2>2, Zenon DEF Ranged
<1>4. Ranged(Exactly(val, dir))
  <2>1. PICK b : b = Exactly(val, dir)
    OBVIOUS
  <2>2. b.min \in Int /\ b.max \in Int /\ b.openmin \in BOOLEAN /\ b.openmax \in BOOLEAN
    BY <1>1, <2>1, ExactlyIs
  <2>3. QED
    BY <2>1, <2>2, Zenon DEF Ranged
<1>5. QED
  BY <1>2, <1>3, <1>4

\* Meeting the bounds strictly, and then narrowed.
LEMMA MeetsNarrower ==
  ASSUME NEW mode \in Modes, NEW q, ExactSpace(q), NEW r, Narrower(mode, q, r), NEW var \in Vars,
         NEW b, Ranged(b)
  PROVE  /\ Meets(ModeFor(mode, var), q.ivl[var], b) => Meets(ModeFor(mode, var), r.ivl[var], b)
         /\ Meets("strict", q.ivl[var], b) => Meets(ModeFor(mode, var), r.ivl[var], b)
<1>1. q.ivl[var] \in Interval /\ r.ivl[var] \in Interval
  BY DEF Narrower, ExactSpace, Exact
<1>2. Within(ModeFor(mode, var), r.ivl[var], q.ivl[var]) /\ ModeFor(mode, var) \in Modes
  BY ModesAre DEF Narrower
<1>3. b.min \in Int /\ b.max \in Int /\ b.openmin \in BOOLEAN /\ b.openmax \in BOOLEAN
  BY DEF Ranged
<1>4. Meets("strict", q.ivl[var], b) => Meets(ModeFor(mode, var), q.ivl[var], b)
  BY <1>1, <1>2, <1>3, Loosely
<1>5. Meets(ModeFor(mode, var), q.ivl[var], b) => Meets(ModeFor(mode, var), r.ivl[var], b)
  BY <1>1, <1>2, <1>3, MeetsOn
<1>6. QED
  BY <1>4, <1>5

\* A call goes on refining.
LEMMA RefinedOn ==
  ASSUME NEW k \in KindNames, NEW p, ExactSpace(p), NEW q, NEW C, Leads("strict", C, p, q)
  PROVE  /\ Leads(ModeOf(k), C \intersect Held(k), p, Refined(k, q))
         /\ Narrower(ModeOf(k), p, Refined(k, q).p) /\ ExactSpace(Refined(k, q).p)
         /\ Narrower(ModeOf(k), q.p, Refined(k, q).p)
         /\ q.st # "ok" => Refined(k, q) = q
<1> DEFINE m == ModeOf(k)
           D == C \intersect Held(k)
           h == HwRefine(k, q.p)
           t == Refined(k, q)
<1>1. t = q \/ (q.st = "ok" /\ t = h)
  BY DEF Refined
<1>2. m \in Modes /\ ExactSpace(q.p)
  BY ModeOfIs DEF Leads, Narrower
<1>3. Leads(m, D, p, q)
  BY <1>2, LeadsLoosely
<1>4. Leads(m, D, q.p, h)
  BY <1>2, HwRefineLeads, LeadsFewer DEF KindNames
<1>5. Leads(m, D, p, h)
  BY <1>2, <1>3, <1>4, LeadsOn
<1>6. Narrower(m, q.p, q.p) /\ Narrower(m, q.p, h.p)
  BY <1>2, <1>4, NarrowerItself DEF Leads
<1> HIDE DEF t, h, D, m
<1>7. Leads(m, D, p, t) /\ Narrower(m, q.p, t.p)
  BY <1>1, <1>3, <1>5, <1>6
<1>8. q.st # "ok" => t = q
  BY DEF Refined, t
<1>9. QED
  BY <1>7, <1>8 DEF Leads, Narrower, t, D, m

\* A parameter with a value in some configuration is not empty.
LEMMA NoticedLeads ==
  ASSUME NEW mode, NEW C, NEW p, NEW s, Leads(mode, C, p, s), NEW t, t.p = s.p,
         NEW var \in Vars, t.st = s.st \/ s.p.ivl[var].empty
  PROVE  Leads(mode, C, p, t)
<1>1. \A c : InSpace(c, s.p) => ~s.p.ivl[var].empty
  BY DEF InSpace, Holds
<1>2. QED
  BY <1>1 DEF Leads

(* The calls of the interface.                                             *)
LEMMA ChangeMinLeads ==
  ASSUME NEW k \in KindNames, NEW p, ExactSpace(p), NEW var \in Vars, NEW val \in Bound, NEW dir \in Int
  PROVE  LET n == ChangeMin(k, p, var, val, dir)
         IN /\ Leads(ModeOf(k), Meeting(var, AtLeast(val, dir)) \intersect Held(k), p, n)
            /\ Narrower(ModeOf(k), p, n.p) /\ ExactSpace(n.p)
            /\ Meets(ModeFor(ModeOf(k), var), n.p.ivl[var], AtLeast(val, dir))
<1> DEFINE b == AtLeast(val, dir)
           C == Meeting(var, b)
           a == PutMin(p, var, val, dir)
           r == Refined(k, a)
           n == ChangeMin(k, p, var, val, dir)
<1>1. /\ Leads("strict", C, p, a)
      /\ ExactSpace(a.p) /\ Meets("strict", a.p.ivl[var], b)
  BY PutMinLeads
<1>2. Ranged(b) /\ ModeOf(k) \in Modes
  BY RangesAre, ModeOfIs
<1>3. n = Noticed(r, var)
  BY DEF ChangeMin
<1> HIDE DEF a, b, C, n
<1>4. /\ Leads(ModeOf(k), C \intersect Held(k), p, r) /\ ExactSpace(r.p)
      /\ Narrower(ModeOf(k), p, r.p) /\ Narrower(ModeOf(k), a.p, r.p)
  BY <1>1, RefinedOn
<1> HIDE DEF r
<1>5. n.p = r.p /\ (n.st = r.st \/ r.p.ivl[var].empty)
  BY <1>3 DEF Noticed, Error
<1>6. Leads(ModeOf(k), C \intersect Held(k), p, n)
  BY <1>4, <1>5, NoticedLeads
<1>7. Meets(ModeFor(ModeOf(k), var), n.p.ivl[var], b)
  BY <1>1, <1>2, <1>4, <1>5, MeetsNarrower
<1>8. QED
  BY <1>4, <1>5, <1>6, <1>7 DEF n, b, C

\* set_max; if it asks for what is above UINT_MAX, the bound wraps (interval.c:146).
LEMMA ChangeMaxLeads ==
  ASSUME NEW k \in KindNames, NEW p, ExactSpace(p), NEW var \in Vars, NEW val \in Bound, NEW dir \in Int
  PROVE  LET n == ChangeMax(k, p, var, val, dir)
         IN /\ ~(dir > 0 /\ val = UintMax) =>
                 Leads(ModeOf(k), Meeting(var, AtMost(val, dir)) \intersect Held(k), p, n)
            /\ dir > 0 /\ val = UintMax => n.st = "error" \/ n.p.ivl[var].lifted
            /\ Narrower(ModeOf(k), p, n.p) /\ ExactSpace(n.p)
            /\ Meets(ModeFor(ModeOf(k), var), n.p.ivl[var], AtMost(val, dir))
<1> DEFINE b == AtMost(val, dir)
           a == PutMax(p, var, val, dir)
           r == Refined(k, a)
           n == ChangeMax(k, p, var, val, dir)
           corner == dir > 0 /\ val = UintMax
           C == IF corner THEN {} ELSE Meeting(var, b)
<1>1. /\ ~corner => Leads("strict", Meeting(var, b), p, a)
      /\ corner => a.st = "error" \/ a.p.ivl[var].lifted
      /\ ExactSpace(a.p) /\ Narrower("strict", p, a.p) /\ Meets("strict", a.p.ivl[var], b)
  BY PutMaxLeads
<1>2. Ranged(b) /\ ModeOf(k) \in Modes
  BY RangesAre, ModeOfIs
<1>3. n = Noticed(r, var)
  BY DEF ChangeMax
<1> HIDE DEF a, b, n, corner
<1>4. Leads("strict", C, p, a)
  BY <1>1 DEF Leads
<1>5. /\ Leads(ModeOf(k), C \intersect Held(k), p, r) /\ ExactSpace(r.p)
      /\ Narrower(ModeOf(k), p, r.p) /\ Narrower(ModeOf(k), a.p, r.p)
      /\ a.st # "ok" => r = a
  BY <1>1, <1>4, RefinedOn
<1> HIDE DEF r
<1>6. /\ n.p = r.p /\ (n.st = r.st \/ r.p.ivl[var].empty)
      /\ r.st = "error" => n.st = "error"
  BY <1>3 DEF Noticed, Error
<1>7. Leads(ModeOf(k), C \intersect Held(k), p, n)
  BY <1>5, <1>6, NoticedLeads
<1>8. Meets(ModeFor(ModeOf(k), var), n.p.ivl[var], b)
  BY <1>1, <1>2, <1>5, <1>6, MeetsNarrower
<1>9. ASSUME corner PROVE n.st = "error" \/ n.p.ivl[var].lifted
  <2>1. CASE a.st = "error"
    BY <1>5, <1>6, <2>1
  <2>2. CASE a.p.ivl[var].lifted
    BY <1>5, <1>6, <2>2 DEF Narrower, Within
  <2>3. QED
    BY <1>1, <1>9, <2>1, <2>2
<1>10. QED
  BY <1>5, <1>6, <1>7, <1>8, <1>9 DEF n, b, C, corner

\* set_minmax.
LEMMA ChangeMinMaxLeads ==
  ASSUME NEW k \in KindNames, NEW p, ExactSpace(p), NEW var \in Vars, NEW min \in Bound, NEW mindir \in Int,
         NEW max \in Bound, NEW maxdir \in Int, ~(maxdir > 0)
  PROVE  LET n == ChangeMinMax(k, p, var, min, mindir, max, maxdir)
         IN /\ Leads(ModeOf(k), (Meeting(var, AtLeast(min, mindir)) \intersect Meeting(var, AtMost(max, maxdir)))
                                  \intersect Held(k), p, n)
            /\ Narrower(ModeOf(k), p, n.p) /\ ExactSpace(n.p)
            /\ n.st = "ok" => /\ Meets(ModeFor(ModeOf(k), var), n.p.ivl[var], AtLeast(min, mindir))
                              /\ Meets(ModeFor(ModeOf(k), var), n.p.ivl[var], AtMost(max, maxdir))
<1> DEFINE l == AtLeast(min, mindir)
           u == AtMost(max, maxdir)
           C == Meeting(var, l) \intersect Meeting(var, u)
           a == PutMinMax(p, var, min, mindir, max, maxdir)
           r == Refined(k, a)
           n == ChangeMinMax(k, p, var, min, mindir, max, maxdir)
<1>1. /\ Leads("strict", C, p, a) /\ ExactSpace(a.p)
      /\ a.st = "ok" => Meets("strict", a.p.ivl[var], l) /\ Meets("strict", a.p.ivl[var], u)
  BY PutMinMaxLeads
<1>2. Ranged(l) /\ Ranged(u) /\ ModeOf(k) \in Modes
  BY RangesAre, ModeOfIs
<1>3. n = IF r.st = "ok" /\ r.p.ivl[var].empty THEN Abort(r.p) ELSE r
  BY DEF ChangeMinMax
<1> HIDE DEF a, l, u, n, C
<1>4. /\ Leads(ModeOf(k), C \intersect Held(k), p, r) /\ ExactSpace(r.p)
      /\ Narrower(ModeOf(k), p, r.p) /\ Narrower(ModeOf(k), a.p, r.p)
      /\ a.st # "ok" => r = a
  BY <1>1, RefinedOn
<1> HIDE DEF r
<1>5. n.p = r.p /\ (n.st = r.st \/ r.p.ivl[var].empty) /\ (n.st = "ok" => r.st = "ok")
  BY <1>3 DEF Abort
<1>6. Leads(ModeOf(k), C \intersect Held(k), p, n)
  BY <1>4, <1>5, NoticedLeads
<1>7. ASSUME n.st = "ok"
      PROVE  Meets(ModeFor(ModeOf(k), var), n.p.ivl[var], l) /\ Meets(ModeFor(ModeOf(k), var), n.p.ivl[var], u)
  <2>1. a.st = "ok"
    BY <1>4, <1>5, <1>7
  <2>2. QED
    BY <1>1, <1>2, <1>4, <1>5, <2>1, MeetsNarrower
<1>8. QED
  BY <1>4, <1>5, <1>6, <1>7 DEF n, l, u, C

\* Bounds are what counts.
LEMMA SameMeets ==
  ASSUME NEW mode, NEW j, NEW b, NEW v, v.min = b.min, v.max = b.max,
         v.openmin <=> b.openmin, v.openmax <=> b.openmax
  PROVE  /\ Meets(mode, j, v) <=> Meets(mode, j, b)
         /\ \A x : InBounds(v, x) <=> InBounds(b, x)
BY DEF Meets, Contained, InBounds, Above, Below

\* Exactly val: the interval that PutValue refines by.
ValueOf(val, dir) ==
  CASE dir = 0 -> Closed(val, val, TRUE)
    [] dir < 0 -> Between(val - 1, val)
    [] dir > 0 -> Between(val, Up(val))

\* The fields of an open range.
LEMMA BetweenIs ==
  ASSUME NEW min, NEW max, NEW v, v = Between(min, max)
  PROVE  /\ v.min = min /\ v.max = max /\ v.openmin /\ v.openmax /\ ~v.integer /\ ~v.empty
         /\ v.openmin \in BOOLEAN /\ v.openmax \in BOOLEAN
BY DEF Between, Closed, Whole

\* It has what the range of the value has, and no more.
LEMMA ValueOfIs ==
  ASSUME NEW var \in Vars, NEW val \in Bound, NEW dir \in Int, ~(val = 0 /\ dir < 0)
  PROVE  /\ ValueOf(val, dir) \in Interval
         /\ \A j : Exact(j) /\ Meets("strict", j, ValueOf(val, dir)) => Meets("strict", j, Exactly(val, dir))
         /\ \A c \in Meeting(var, Exactly(val, dir)) : Holds(ValueOf(val, dir), Num(c, var), Den(c, var))
<1>0. val \in 0 .. UintMax /\ UintMax \in Nat \ {0}
  BY UintMaxAssumption DEF Bound, UintMaxAssumption
<1>1. PICK b : /\ b = Exactly(val, dir) /\ b.openmin \in BOOLEAN /\ b.openmax \in BOOLEAN
               /\ b.min = IF dir < 0 THEN val - 1 ELSE val
               /\ b.max = IF dir > 0 THEN val + 1 ELSE val
               /\ (b.openmin <=> dir # 0) /\ (b.openmax <=> dir # 0)
  <2>1. PICK b : b = Exactly(val, dir)
    OBVIOUS
  <2>2. QED
    BY <2>1, ExactlyIs
<1>2. PICK v : v = ValueOf(val, dir)
  OBVIOUS
<1>3. ASSUME NEW c \in Meeting(var, b)
      PROVE  /\ Num(c, var) \in Nat /\ Den(c, var) \in Nat \ {0} /\ Num(c, var) < UintMax * Den(c, var)
             /\ Above(b.min, b.openmin, Num(c, var), Den(c, var))
             /\ Below(b.max, b.openmax, Num(c, var), Den(c, var))
  <2>1. c \in Sample /\ InBounds(b, Value(c, var))
    BY DEF Meeting
  <2>2. Num(c, var) \in Nat /\ Den(c, var) \in Nat \ {0} /\ Num(c, var) < UintMax * Den(c, var)
    BY <2>1, SampleIs, ValueType DEF Countable
  <2>3. QED
    BY <2>1, <2>2 DEF InBounds, Num, Den
<1>4. CASE dir = 0
  <2>0. ~(dir < 0) /\ ~(dir > 0)
    BY <1>4
  <2>1. v = Closed(val, val, TRUE)
    BY <1>2, <1>4, <2>0, Zenon DEF ValueOf
  <2>2. v \in Interval
    BY <2>1, PointHolds
  <2>3. v.min = val /\ v.max = val /\ v.openmin = FALSE /\ v.openmax = FALSE /\ v.empty = FALSE
    BY <2>1 DEF Closed, Whole
  <2>4. ~(dir < 0) /\ ~(dir > 0)
    BY <1>4
  <2>5. \A j : Meets("strict", j, v) => Meets("strict", j, b)
    BY <1>1, <1>4, <2>3, <2>4, SameMeets
  <2>6. ASSUME NEW c \in Meeting(var, b) PROVE Holds(v, Num(c, var), Den(c, var))
    <3>1. PICK n, d : n = Num(c, var) /\ d = Den(c, var)
      OBVIOUS
    <3>2. n \in Nat /\ d \in Nat \ {0} /\ val * d <= n /\ n <= val * d /\ val \in Nat
      BY <1>0, <1>1, <1>3, <1>4, <2>4, <3>1 DEF Above, Below
    <3>3. n = val * d /\ val * d \in Nat
      BY <3>2
    <3>4. n % d = 0
      BY <3>2, <3>3, Multiples DEF Multiple
    <3>5. QED
      BY <2>3, <3>1, <3>2, <3>4 DEF Holds, Above, Below
  <2>7. QED
    BY <1>1, <1>2, <2>2, <2>5, <2>6
<1>5. CASE dir < 0
  <2>0. ~(dir = 0) /\ ~(dir > 0)
    BY <1>5
  <2>1. v = Between(val - 1, val)
    BY <1>2, <1>5, <2>0, Zenon DEF ValueOf
  <2>2. val - 1 \in Bound /\ ~(dir > 0) /\ dir # 0
    BY <1>0, <1>5 DEF Bound
  <2>3. v \in Interval
    BY <2>1, <2>2, BetweenType
  <2>4. v.min = val - 1 /\ v.max = val /\ v.openmin /\ v.openmax /\ ~v.integer /\ ~v.empty
    BY <2>1, BetweenIs
  <2>5. \A j : Meets("strict", j, v) => Meets("strict", j, b)
    BY <1>1, <1>5, <2>2, <2>4, SameMeets
  <2>6. ASSUME NEW c \in Meeting(var, b) PROVE Holds(v, Num(c, var), Den(c, var))
    BY <1>1, <1>3, <1>5, <2>2, <2>4 DEF Holds, Above, Below
  <2>7. QED
    BY <1>1, <1>2, <2>3, <2>5, <2>6
<1>6. CASE dir > 0 /\ val < UintMax
  <2>0. ~(dir = 0) /\ ~(dir < 0)
    BY <1>6
  <2>1. v = Between(val, Up(val))
    BY <1>2, <1>6, <2>0, Zenon DEF ValueOf
  <2>2. Up(val) = val + 1 /\ val + 1 \in Bound /\ ~(dir < 0) /\ dir # 0
    BY <1>0, <1>6 DEF Bound, Up
  <2>3. v \in Interval
    BY <2>1, <2>2, BetweenType
  <2>4. v.min = val /\ v.max = val + 1 /\ v.openmin /\ v.openmax /\ ~v.integer /\ ~v.empty
    BY <2>1, <2>2, BetweenIs
  <2>5. \A j : Meets("strict", j, v) => Meets("strict", j, b)
    BY <1>1, <1>6, <2>2, <2>4, SameMeets
  <2>6. ASSUME NEW c \in Meeting(var, b) PROVE Holds(v, Num(c, var), Den(c, var))
    BY <1>1, <1>3, <1>6, <2>2, <2>4 DEF Holds, Above, Below
  <2>7. QED
    BY <1>1, <1>2, <2>3, <2>5, <2>6
<1>7. CASE dir > 0 /\ val = UintMax
  <2>0. ~(dir = 0) /\ ~(dir < 0)
    BY <1>7
  <2>1. v = Between(val, Up(val))
    BY <1>2, <1>7, <2>0, Zenon DEF ValueOf
  <2>2. Up(val) = 0 /\ 0 \in Bound /\ ~(dir < 0)
    BY <1>0, <1>7 DEF Bound, Up
  <2>3. v \in Interval
    BY <2>1, <2>2, BetweenType
  <2>4. v.min = UintMax /\ v.max = 0
    BY <1>7, <2>1, <2>2, BetweenIs
  <2>5. ASSUME NEW j, Exact(j), Meets("strict", j, v) PROVE Meets("strict", j, b)
    <3>1. j.min \in Int /\ j.max \in Int
      BY <2>5 DEF Exact, Interval, Bound
    <3>2. ASSUME Contained(j, v) PROVE j.empty
      <4>1. j.min >= UintMax /\ j.max <= 0
        BY <1>0, <2>4, <3>1, <3>2 DEF Contained
      <4>2. CheckEmpty(j)
        BY <1>0, <3>1, <4>1 DEF CheckEmpty
      <4>3. QED
        BY <2>5, <4>2 DEF Exact
    <3>3. j.empty \/ j.lifted
      BY <2>5, <3>2 DEF Meets
    <3>4. QED
      BY <3>3 DEF Meets
  <2>6. ASSUME NEW c \in Meeting(var, b) PROVE FALSE
    <3>1. PICK n, d : n = Num(c, var) /\ d = Den(c, var)
      OBVIOUS
    <3>2. n \in Nat /\ d \in Nat \ {0} /\ n < UintMax * d /\ UintMax * d < n
      BY <1>1, <1>3, <1>7, <2>2, <3>1 DEF Above
    <3>3. UintMax * d \in Nat
      BY <1>0, <3>2
    <3>4. QED
      BY <3>2, <3>3
  <2>7. QED
    BY <1>1, <1>2, <2>3, <2>5, <2>6
<1>8. dir = 0 \/ dir < 0 \/ (dir > 0 /\ val < UintMax) \/ (dir > 0 /\ val = UintMax)
  BY <1>0
<1>9. QED
  BY <1>4, <1>5, <1>6, <1>7, <1>8, Zenon

\* _snd_pcm_hw_param_set() loses only other values.
LEMMA PutValueLeads ==
  ASSUME NEW p, ExactSpace(p), NEW var \in Vars, NEW val \in Bound, NEW dir \in Int, ~(val = 0 /\ dir < 0)
  PROVE  LET n == PutValue(p, var, val, dir)
         IN /\ Leads("strict", Meeting(var, Exactly(val, dir)), p, n)
            /\ ExactSpace(n.p) /\ Meets("strict", n.p.ivl[var], Exactly(val, dir))
<1> DEFINE v == ValueOf(val, dir)
           n == PutInterval(p, var, v)
<1>1. PutValue(p, var, val, dir) = n
  BY Zenon DEF PutValue, ValueOf
<1> HIDE DEF v
<1>2. /\ v \in Interval
      /\ \A j : Exact(j) /\ Meets("strict", j, v) => Meets("strict", j, Exactly(val, dir))
      /\ \A c \in Meeting(var, Exactly(val, dir)) : Holds(v, Num(c, var), Den(c, var))
  BY ValueOfIs DEF v
<1>3. /\ Leads("strict", {c \in Sample : Holds(v, Num(c, var), Den(c, var))}, p, n)
      /\ ExactSpace(n.p) /\ Meets("strict", n.p.ivl[var], v)
  BY <1>2, PutIntervalLeads
<1> HIDE DEF n
<1>4. Meeting(var, Exactly(val, dir)) \subseteq {c \in Sample : Holds(v, Num(c, var), Den(c, var))}
  BY <1>2 DEF Meeting
<1>5. Leads("strict", Meeting(var, Exactly(val, dir)), p, n)
  BY <1>3, <1>4, LeadsFewer
<1>6. Meets("strict", n.p.ivl[var], Exactly(val, dir))
  BY <1>2, <1>3 DEF ExactSpace
<1>7. QED
  BY <1>1, <1>3, <1>5, <1>6

\* Below nothing there is nothing.
LEMMA PutNothing ==
  ASSUME NEW k, NEW p, ExactSpace(p), NEW var \in Vars, NEW dir \in Int, dir < 0
  PROVE  Refined(k, PutValue(p, var, 0, dir)).st = "error"
<1> DEFINE i == None(p.ivl[var])
           n == PutValue(p, var, 0, dir)
<1>1. p.ivl[var] \in Interval
  BY DEF ExactSpace, Exact
<1>2. i.empty
  BY <1>1 DEF None, Interval
<1>3. n = Put(p, var, i, TRUE)
  BY DEF PutValue
<1> HIDE DEF i
<1>4. n.st = "error"
  BY <1>2, <1>3 DEF Put, Narrowed, Error
<1>5. QED
  BY <1>4 DEF Refined

\* The answer of a call is what is left: the same bounds, written in one way.
LEMMA AnsweredIs ==
  ASSUME NEW j, Exact(j), ~j.empty, Single(j), NEW b, b = Answered(j)
  PROVE  /\ b.min = j.min /\ b.max = j.max /\ (b.openmin <=> j.openmin) /\ (b.openmax <=> j.openmax)
         /\ b.openmin \in BOOLEAN /\ b.openmax \in BOOLEAN
<1>0. /\ j.min \in 0 .. UintMax /\ j.max \in 0 .. UintMax /\ UintMax \in Nat
      /\ j.openmin \in BOOLEAN /\ j.openmax \in BOOLEAN
  BY UintMaxAssumption DEF Exact, Interval, Bound, UintMaxAssumption
<1>1. j.min <= j.max /\ (j.min = j.max => ~j.openmin /\ ~j.openmax)
  BY <1>0 DEF Exact, CheckEmpty
<1>2. CASE j.min = j.max
  <2>1. b = Bounds(j.min, FALSE, j.min, FALSE)
    BY <1>2, Zenon DEF Answered
  <2>2. b.min = j.min /\ b.openmin = FALSE /\ b.max = j.min /\ b.openmax = FALSE
    BY <2>1 DEF Bounds
  <2>3. QED
    BY <1>1, <1>2, <2>2
<1>3. CASE j.min # j.max
  <2>1. b = Bounds(j.min, j.openmin, j.min + 1, TRUE)
    BY <1>3, Zenon DEF Answered
  <2>2. b.min = j.min /\ b.openmin = j.openmin /\ b.max = j.min + 1 /\ b.openmax = TRUE
    BY <2>1 DEF Bounds
  <2>3. j.openmax /\ j.max = j.min + 1
    BY <1>0, <1>1, <1>3 DEF Single, Up
  <2>4. QED
    BY <1>0, <2>2, <2>3
<1>4. QED
  BY <1>2, <1>3

\* What is left meets the answer.
LEMMA AnsweredMeets ==
  ASSUME NEW j, Exact(j), j.empty \/ Single(j)
  PROVE  Ranged(Answered(j)) /\ Meets("strict", j, Answered(j))
<1>0. j.min \in Int /\ j.max \in Int /\ j.openmin \in BOOLEAN /\ j.openmax \in BOOLEAN
  BY DEF Exact, Interval, Bound
<1>1. PICK b : b = Answered(j)
  OBVIOUS
<1>2. CASE j.empty
  <2>1. b = Bounds(j.min, FALSE, j.min, FALSE) \/ b = Bounds(j.min, j.openmin, j.min + 1, TRUE)
    BY <1>1, Zenon DEF Answered
  <2>2. \/ b.min = j.min /\ b.openmin = FALSE /\ b.max = j.min /\ b.openmax = FALSE
        \/ b.min = j.min /\ b.openmin = j.openmin /\ b.max = j.min + 1 /\ b.openmax = TRUE
    BY <2>1 DEF Bounds
  <2>3. b.min \in Int /\ b.max \in Int
    BY <1>0, <2>2
  <2>4. b.openmin \in BOOLEAN /\ b.openmax \in BOOLEAN
    BY <1>0, <2>2, Zenon
  <2>5. QED
    BY <1>1, <1>2, <2>3, <2>4 DEF Ranged, Meets
<1>3. CASE ~j.empty
  <2>1. /\ b.min = j.min /\ b.max = j.max /\ (b.openmin <=> j.openmin) /\ (b.openmax <=> j.openmax)
        /\ b.openmin \in BOOLEAN /\ b.openmax \in BOOLEAN
    BY <1>1, <1>3, AnsweredIs
  <2>2. Contained(j, b)
    BY <1>0, <2>1 DEF Contained
  <2>3. QED
    BY <1>0, <1>1, <2>1, <2>2 DEF Ranged, Meets
<1>4. QED
  BY <1>2, <1>3

\* A configuration that fits the answer fits whatever the answer lies in.
LEMMA AnswerWithin ==
  ASSUME NEW j, Exact(j), ~j.empty, ~j.lifted, Single(j), NEW b, Ranged(b), Meets("strict", j, b),
         NEW x, x[1] \in Nat, x[2] \in Nat \ {0}, InBounds(Answered(j), x)
  PROVE  InBounds(b, x)
<1>0. j.min \in Int /\ j.max \in Int /\ j.openmin \in BOOLEAN /\ j.openmax \in BOOLEAN
  BY DEF Exact, Interval, Bound
<1>1. b.min \in Int /\ b.max \in Int /\ b.openmin \in BOOLEAN /\ b.openmax \in BOOLEAN
  BY DEF Ranged
<1>2. Contained(j, b)
  BY DEF Meets
<1>3. InBounds(j, x)
  <2>1. PICK a : a = Answered(j)
    OBVIOUS
  <2>2. a.min = j.min /\ a.max = j.max /\ (a.openmin <=> j.openmin) /\ (a.openmax <=> j.openmax)
    BY <2>1, AnsweredIs
  <2>3. InBounds(a, x)
    BY <2>1
  <2>4. QED
    BY <2>2, <2>3, SameMeets
<1>4. PICK n, d : n = x[1] /\ d = x[2] /\ n \in Nat /\ d \in Nat \ {0}
  OBVIOUS
<1>5. Above(b.min, b.openmin, n, d)
  <2>1. Above(j.min, j.openmin, n, d)
    BY <1>3, <1>4 DEF InBounds
  <2>2. j.min > b.min \/ (j.min = b.min /\ (b.openmin => j.openmin))
    BY <1>2 DEF Contained
  <2>3. j.min * d \in Int /\ b.min * d \in Int
    BY <1>0, <1>1, <1>4
  <2>4. j.min > b.min => b.min * d < j.min * d
    BY <1>0, <1>1, <1>4, Scale
  <2>5. QED
    BY <1>4, <2>1, <2>2, <2>3, <2>4 DEF Above
<1>6. Below(b.max, b.openmax, n, d)
  <2>1. Below(j.max, j.openmax, n, d)
    BY <1>3, <1>4 DEF InBounds
  <2>2. j.max < b.max \/ (j.max = b.max /\ (b.openmax => j.openmax))
    BY <1>2 DEF Contained
  <2>3. j.max * d \in Int /\ b.max * d \in Int
    BY <1>0, <1>1, <1>4
  <2>4. j.max < b.max => j.max * d < b.max * d
    BY <1>0, <1>1, <1>4, Scale
  <2>5. QED
    BY <1>4, <2>1, <2>2, <2>3, <2>4 DEF Below
<1>7. QED
  BY <1>4, <1>5, <1>6 DEF InBounds

\* Going to an end of a parameter keeps what fits the answer,
LEMMA ChangeToLeads ==
  ASSUME NEW k \in KindNames, NEW p, ExactSpace(p), NEW var \in Vars, NEW i, Exact(i),
         Within("strict", i, p.ivl[var]), i.integer = p.ivl[var].integer
  PROVE  LET n == ChangeTo(k, p, var, i)
             j == n.p.ivl[var]
         IN /\ Narrower(ModeOf(k), p, n.p) /\ ExactSpace(n.p)
            /\ n.st = "ok" => ~j.empty /\ Single(j)
            /\ \A c \in Held(k) :
                 InSpace(c, p) /\ n.st = "ok" /\ ~j.lifted /\ InBounds(Answered(j), Value(c, var)) => InSpace(c, n.p)
<1> DEFINE a == Put(p, var, i, i # p.ivl[var])
           r == Refined(k, a)
           n == ChangeTo(k, p, var, i)
           j == n.p.ivl[var]
           C == {c \in Sample : Holds(i, Num(c, var), Den(c, var))}
<1>1. CASE i.empty
  <2>1. n.p = p /\ n.st = "error"
    BY <1>1 DEF ChangeTo, Error
  <2>2. QED
    BY <2>1, NarrowerItself, ModeOfIs
<1>2. CASE ~i.empty
  <2>1. /\ ExactSpace(a.p) /\ Narrower("strict", p, a.p) /\ a.p.ivl[var] = i
        /\ \A c : InSpace(c, p) /\ Holds(i, Num(c, var), Den(c, var)) => a.st = "ok" /\ InSpace(c, a.p)
    BY PutLeads
  <2> HIDE DEF a
  <2>2. Leads("strict", C, p, a)
    BY <2>1 DEF Leads
  <2>3. n = GetOne(r, var)
    BY <1>2 DEF ChangeTo, a
  <2> HIDE DEF C, n
  <2>4. /\ Leads(ModeOf(k), C \intersect Held(k), p, r) /\ ExactSpace(r.p)
        /\ Narrower(ModeOf(k), p, r.p) /\ Narrower(ModeOf(k), a.p, r.p)
    BY <2>2, RefinedOn
  <2> HIDE DEF r
  <2>5. n.p = r.p /\ (n.st = "ok" => n = r /\ ~j.empty /\ Single(j))
    BY <2>3 DEF GetOne, Error
  <2>6. ASSUME NEW c \in Held(k), InSpace(c, p), n.st = "ok", ~j.lifted, InBounds(Answered(j), Value(c, var))
        PROVE  InSpace(c, n.p)
    <3>1. k # "rate" /\ c \in Sample
      BY <2>6 DEF Held
    <3>2. Within("strict", j, i)
      BY <2>1, <2>4, <2>5, <3>1, ModesAre DEF Narrower, ModeOf
    <3>3. Exact(j) /\ ~j.empty /\ Single(j)
      BY <2>4, <2>5, <2>6 DEF ExactSpace
    <3>4. Num(c, var) \in Nat /\ Den(c, var) \in Nat \ {0}
      BY <3>1, SampleIs, ValueType
    <3>5. InBounds(i, Value(c, var))
      <4>1. Ranged(i)
        BY DEF Ranged, Exact, Interval, Bound
      <4>2. Meets("strict", j, i)
        BY <3>2 DEF Within
      <4>3. QED
        BY <2>6, <3>3, <3>4, <4>1, <4>2, AnswerWithin DEF Num, Den
    <3>6. Holds(p.ivl[var], Num(c, var), Den(c, var))
      BY <2>6 DEF InSpace, Num, Den
    <3>7. Holds(i, Num(c, var), Den(c, var))
      BY <1>2, <3>5, <3>6 DEF Holds, InBounds, Num, Den
    <3>8. c \in C \intersect Held(k)
      BY <3>1, <3>7 DEF C
    <3>9. QED
      BY <2>4, <2>5, <2>6, <3>8 DEF Leads
  <2>7. QED
    BY <2>4, <2>5, <2>6 DEF n
<1>3. QED
  BY <1>1, <1>2

\* which is what set_first and set_last do.
LEMMA ChangeEndLeads ==
  ASSUME NEW k \in KindNames, NEW p, ExactSpace(p), NEW var \in Vars, NEW end
  PROVE  LET n == ChangeEnd(k, p, var, end)
             j == n.p.ivl[var]
         IN /\ Narrower(ModeOf(k), p, n.p) /\ ExactSpace(n.p)
            /\ n.st = "ok" => ~j.empty /\ Single(j)
            /\ \A c \in Held(k) :
                 InSpace(c, p) /\ n.st = "ok" /\ ~j.lifted /\ InBounds(Answered(j), Value(c, var)) => InSpace(c, n.p)
<1> DEFINE i == IF end = "last" THEN RefineLast(p.ivl[var]) ELSE RefineFirst(p.ivl[var])
<1>1. Exact(i) /\ Within("strict", i, p.ivl[var]) /\ i.integer = p.ivl[var].integer
  <2>1. Exact(p.ivl[var])
    BY DEF ExactSpace
  <2>2. QED
    BY <2>1, RefineEndWithin
<1>2. ChangeEnd(k, p, var, end) = ChangeTo(k, p, var, i)
  BY DEF ChangeEnd
<1> HIDE DEF i
<1>3. QED
  BY <1>1, <1>2, ChangeToLeads

\* set_format loses only the other formats.
LEMMA ChangeFormatLeads ==
  ASSUME NEW k \in KindNames, NEW p, ExactSpace(p), NEW format
  PROVE  LET n == ChangeFormat(k, p, format)
         IN /\ Leads(ModeOf(k), {c \in Sample : c.format = format} \intersect Held(k), p, n)
            /\ Narrower(ModeOf(k), p, n.p) /\ ExactSpace(n.p)
            /\ n.p.format \subseteq {format}
<1> DEFINE left == p.format \intersect {format}
           q == [p EXCEPT !.format = left]
           a == IF left = {} THEN Error(Marked(q, "FORMAT"))
                ELSE Ok(IF Cardinality(p.format) = 1 THEN q ELSE Marked(q, "FORMAT"))
           C == {c \in Sample : c.format = format}
           n == ChangeFormat(k, p, format)
           r == Refined(k, a)
<1>1. q \in Spaces /\ q.ivl = p.ivl /\ q.format = left /\ left \subseteq p.format
  BY DEF ExactSpace, Spaces
<1>2. a.p = q \/ a.p = Marked(q, "FORMAT")
  BY DEF Ok, Error
<1>3. a.st = IF left = {} THEN "error" ELSE "ok"
  BY DEF Ok, Error
<1>4. n = r
  BY DEF ChangeFormat, Refined, Error
<1> HIDE DEF q, a, n
<1>5. ExactSpace(q) /\ "FORMAT" \in Params
  BY <1>1 DEF ExactSpace, Params
<1>6. ExactSpace(a.p) /\ a.p.ivl = q.ivl /\ a.p.format = q.format /\ a.p \in Spaces
  BY <1>2, <1>5, MarksLead, ModesAre DEF ExactSpace
<1>7. Narrower("strict", p, a.p)
  BY <1>1, <1>6, SameIntervals, ModesAre
<1>8. ASSUME NEW c \in C, InSpace(c, p) PROVE a.st = "ok" /\ InSpace(c, a.p)
  <2>1. c.format = format /\ c.format \in p.format
    BY <1>8 DEF InSpace
  <2>2. c.format \in left
    BY <2>1
  <2>3. QED
    BY <1>1, <1>3, <1>6, <1>8, <2>2 DEF InSpace
<1>9. Leads("strict", C, p, a)
  BY <1>7, <1>8 DEF Leads
<1> HIDE DEF C
<1>10. /\ Leads(ModeOf(k), C \intersect Held(k), p, r) /\ ExactSpace(r.p)
       /\ Narrower(ModeOf(k), p, r.p) /\ Narrower(ModeOf(k), a.p, r.p)
  BY <1>9, RefinedOn
<1> HIDE DEF r
<1>11. r.p.format \subseteq {format}
  BY <1>1, <1>6, <1>10 DEF Narrower
<1>12. QED
  BY <1>4, <1>10, <1>11 DEF n, C

\* Taking the first format narrows the space.
LEMMA ChangeFirstFormatNarrows ==
  ASSUME NEW k \in KindNames, NEW p, ExactSpace(p)
  PROVE  Narrower(ModeOf(k), p, ChangeFirstFormat(k, p).p)
<1> DEFINE a == ChangeFormat(k, p, Min(p.format))
           n == ChangeFirstFormat(k, p)
<1>1. n.p = p \/ n.p = a.p
  BY DEF ChangeFirstFormat, Error
<1>2. Narrower(ModeOf(k), p, a.p)
  BY ChangeFormatLeads
<1>3. QED
  BY <1>1, <1>2, NarrowerItself, ModeOfIs

\* set_integer loses only what is not whole.
LEMMA ChangeIntegerLeads ==
  ASSUME NEW k \in KindNames, NEW p, ExactSpace(p), NEW var \in Vars
  PROVE  LET n == ChangeInteger(k, p, var)
         IN /\ Leads(ModeOf(k), {c \in Sample : Num(c, var) % Den(c, var) = 0} \intersect Held(k), p, n)
            /\ Narrower(ModeOf(k), p, n.p) /\ ExactSpace(n.p)
<1> DEFINE i == p.ivl[var]
           s == SetInteger(i)
           a == Put(p, var, s, ~i.integer)
           C == {c \in Sample : Num(c, var) % Den(c, var) = 0}
<1>0. Exact(i)
  BY DEF ExactSpace
<1>1. Exact(s) /\ Within("strict", s, i)
  BY <1>0, SetIntegerWithin
<1>2. ChangeInteger(k, p, var) = Refined(k, a)
  BY DEF ChangeInteger
<1>3. ASSUME NEW c \in C, InSpace(c, p) PROVE Holds(s, Num(c, var), Den(c, var))
  <2>1. Holds(i, Num(c, var), Den(c, var))
    BY <1>3 DEF InSpace, Num, Den
  <2>2. s.min = i.min /\ s.max = i.max /\ s.openmin = i.openmin /\ s.openmax = i.openmax /\ s.empty = i.empty
    BY <1>0 DEF SetInteger, Exact, Interval
  <2>3. Num(c, var) % Den(c, var) = 0
    OBVIOUS
  <2>4. QED
    BY <2>1, <2>2, <2>3 DEF Holds
<1> HIDE DEF s
<1>4. /\ ExactSpace(a.p) /\ Narrower("strict", p, a.p)
      /\ \A c : InSpace(c, p) /\ Holds(s, Num(c, var), Den(c, var)) => a.st = "ok" /\ InSpace(c, a.p)
  BY <1>1, PutLeads
<1> HIDE DEF a
<1>5. Leads("strict", C, p, a)
  BY <1>3, <1>4 DEF Leads
<1> HIDE DEF C
<1>6. QED
  BY <1>2, <1>5, RefinedOn DEF C

\* A configuration that fits the answer has been there all the way.
LEMMA AnswerFrom ==
  ASSUME NEW k \in KindNames, NEW p, ExactSpace(p), NEW s, ExactSpace(s.p), NEW var \in Vars,
         NEW b, Ranged(b), Meets(ModeFor(ModeOf(k), var), s.p.ivl[var], b),
         ~s.p.ivl[var].lifted => Leads(ModeOf(k), Meeting(var, b) \intersect Held(k), p, s),
         NEW q, ExactSpace(q), Narrower(ModeOf(k), s.p, q),
         ~q.ivl[var].empty, ~q.ivl[var].lifted, Single(q.ivl[var]),
         NEW c \in Held(k), InSpace(c, p), InBounds(Answered(q.ivl[var]), Value(c, var))
  PROVE  InSpace(c, s.p)
<1> DEFINE j == q.ivl[var]
           h == s.p.ivl[var]
<1>1. k # "rate" /\ c \in Sample
  BY DEF Held
<1>2. ModeOf(k) = "strict"
  BY <1>1 DEF ModeOf
<1>3. ModeFor(ModeOf(k), var) = "strict"
  BY <1>2, ModesAre
<1>4. Within("strict", j, h) /\ Exact(j) /\ Exact(h)
  BY <1>3 DEF Narrower, ExactSpace
<1>5. Meets("strict", j, b)
  BY <1>3, <1>4, MeetsOn, ModesAre DEF Ranged, Exact
<1>6. Num(c, var) \in Nat /\ Den(c, var) \in Nat \ {0}
  BY <1>1, SampleIs, ValueType
<1>7. InBounds(b, Value(c, var))
  BY <1>4, <1>5, <1>6, AnswerWithin DEF Num, Den
<1>8. ~h.lifted
  BY <1>4 DEF Within
<1>9. c \in Meeting(var, b) \intersect Held(k)
  BY <1>1, <1>7 DEF Meeting
<1>10. QED
  BY <1>8, <1>9 DEF Leads

\* Where set_near goes.
LEMMA WayIs ==
  ASSUME NEW k, NEW p, NEW var, NEW val \in Bound, NEW dir \in Int, NEW up
  PROVE  \E n \in Bound, d \in Int :
           LET w    == Way(k, p, var, val, dir, up)
               down == ChangeMax(k, p, var, n, d)
           IN \/ /\ w[2] = "none" /\ w[1].st # "ok"
                 /\ w[1].p \in {up.p, Undefined(up.p).p, down.p}
              \/ w[2] = "none" /\ w[1] = Ok(up.p) /\ ~up.p.ivl[var].empty /\ Single(up.p.ivl[var])
              \/ w[2] # "none" /\ w[1] = up /\ up.st = "ok"
              \/ w[2] # "none" /\ w[1] = down /\ down.st = "ok"
<1> DEFINE n == IF dir < 0 THEN Down(val) ELSE val
           d == IF dir > 0 THEN 0 ELSE IF dir = 0 THEN -1 ELSE 1
           i == up.p.ivl[var]
           wanted == Bounded(val, dir)
           lower == Bounded(n, d)
           down == ChangeMax(k, p, var, n, d)
           w == Way(k, p, var, val, dir, up)
<1>1. n \in Bound /\ d \in Int
  BY UintMaxAssumption DEF Bound, UintMaxAssumption, Down
<1>2. lower.n = n /\ lower.dir = d
  BY DEF Bounded
<1>3. ChangeMax(k, p, var, lower.n, lower.dir) = down
  BY <1>2
<1> HIDE DEF n, d
<1>4. \/ w = <<up, "none">> /\ up.st # "ok"
      \/ w = <<Undefined(up.p), "none">>
      \/ w = <<Ok(up.p), "none">> /\ ~i.empty /\ Single(i)
      \/ w = <<up, "first">> /\ up.st = "ok"
      \/ w = NearerWay(up, down, var, wanted)
  <2>1. Way(k, p, var, val, dir, up) =
          IF up.st \notin {"ok", "error"} THEN <<up, "none">>
          ELSE IF up.st = "error" /\ up.p.junk THEN <<Undefined(up.p), "none">>
          ELSE IF ~i.empty /\ Single(i) THEN <<Ok(up.p), "none">>
          ELSE IF up.st = "ok" /\ Lowest(i) = wanted THEN <<up, "first">>
          ELSE NearerWay(up, ChangeMax(k, p, var, lower.n, lower.dir), var, wanted)
    BY Zenon DEF Way, n, d
  <2> HIDE DEF w, i, wanted, lower, down
  <2>2. QED
    BY <1>3, <2>1 DEF w
<1>5. \/ NearerWay(up, down, var, wanted) = <<up, "first">> /\ up.st = "ok"
      \/ NearerWay(up, down, var, wanted) = <<down, "last">> /\ down.st = "ok"
      \/ NearerWay(up, down, var, wanted) = <<down, "none">> /\ down.st # "ok"
  <2> HIDE DEF wanted, down
  <2>1. QED
    BY DEF NearerWay
<1>6. Undefined(up.p).st # "ok"
  BY DEF Undefined
<1> HIDE DEF w, wanted, down
<1>7. \/ /\ w[2] = "none" /\ w[1].st # "ok"
         /\ w[1].p \in {up.p, Undefined(up.p).p, down.p}
      \/ w[2] = "none" /\ w[1] = Ok(up.p) /\ ~up.p.ivl[var].empty /\ Single(up.p.ivl[var])
      \/ w[2] # "none" /\ w[1] = up /\ up.st = "ok"
      \/ w[2] # "none" /\ w[1] = down /\ down.st = "ok"
  BY <1>4, <1>5, <1>6
<1>8. QED
  BY <1>1, <1>7 DEF w, down

\* Going on to an end of the space that a call with the bound b has left.
LEMMA EndFrom ==
  ASSUME NEW k \in KindNames, NEW p, ExactSpace(p), NEW s, Narrower(ModeOf(k), p, s.p), NEW var \in Vars,
         NEW b, Ranged(b), Meets(ModeFor(ModeOf(k), var), s.p.ivl[var], b),
         ~s.p.ivl[var].lifted => Leads(ModeOf(k), Meeting(var, b) \intersect Held(k), p, s),
         NEW end
  PROVE  LET n == ChangeEnd(k, s.p, var, end)
             j == n.p.ivl[var]
         IN /\ Narrower(ModeOf(k), p, n.p)
            /\ n.st = "ok" => ~j.empty /\ Single(j)
            /\ \A c \in Held(k) :
                 InSpace(c, p) /\ n.st = "ok" /\ ~j.lifted /\ InBounds(Answered(j), Value(c, var)) => InSpace(c, n.p)
<1> DEFINE n == ChangeEnd(k, s.p, var, end)
           j == n.p.ivl[var]
<1>0. ExactSpace(s.p)
  BY DEF Narrower
<1>1. /\ Narrower(ModeOf(k), s.p, n.p) /\ ExactSpace(n.p)
      /\ n.st = "ok" => ~j.empty /\ Single(j)
      /\ \A c \in Held(k) :
           InSpace(c, s.p) /\ n.st = "ok" /\ ~j.lifted /\ InBounds(Answered(j), Value(c, var)) => InSpace(c, n.p)
  BY <1>0, ChangeEndLeads
<1> HIDE DEF n
<1>2. Narrower(ModeOf(k), p, n.p)
  BY <1>1, NarrowerOn, ModeOfIs
<1>3. ASSUME NEW c \in Held(k), InSpace(c, p), n.st = "ok", ~j.lifted, InBounds(Answered(j), Value(c, var))
      PROVE  InSpace(c, n.p)
  <2>1. InSpace(c, s.p)
    BY <1>0, <1>1, <1>3, AnswerFrom
  <2>2. QED
    BY <1>1, <1>3, <2>1
<1>4. QED
  BY <1>1, <1>2, <1>3 DEF n

\* set_near: the configurations that fit its answer are still there.
LEMMA ChangeNearLeads ==
  ASSUME NEW k \in KindNames, NEW p, ExactSpace(p), NEW var \in Vars, NEW val \in Bound, NEW dir \in Int
  PROVE  LET n == ChangeNear(k, p, var, val, dir)
             j == n.p.ivl[var]
         IN /\ Narrower(ModeOf(k), p, n.p) /\ ExactSpace(n.p)
            /\ n.st = "ok" => ~j.empty /\ Single(j)
            /\ \A c \in Held(k) :
                 InSpace(c, p) /\ n.st = "ok" /\ ~j.lifted /\ InBounds(Answered(j), Value(c, var)) => InSpace(c, n.p)
<1> DEFINE AnsweredWell(n) ==
             /\ Narrower(ModeOf(k), p, n.p) /\ ExactSpace(n.p)
             /\ n.st = "ok" => ~n.p.ivl[var].empty /\ Single(n.p.ivl[var])
             /\ \A c \in Held(k) :
                  InSpace(c, p) /\ n.st = "ok" /\ ~n.p.ivl[var].lifted
                    /\ InBounds(Answered(n.p.ivl[var]), Value(c, var)) => InSpace(c, n.p)
           up == ChangeMin(k, p, var, val, dir)
           w  == Way(k, p, var, val, dir, up)
           least == AtLeast(val, dir)
<1>1. /\ Leads(ModeOf(k), Meeting(var, least) \intersect Held(k), p, up)
      /\ Narrower(ModeOf(k), p, up.p) /\ ExactSpace(up.p)
      /\ Meets(ModeFor(ModeOf(k), var), up.p.ivl[var], least) /\ Ranged(least)
  BY ChangeMinLeads, RangesAre
<1>2. ChangeNear(k, p, var, val, dir) = Followed(k, var, w)
  BY DEF ChangeNear
<1> HIDE DEF least
<1>3. PICK m \in Bound, d \in Int :
        LET down == ChangeMax(k, p, var, m, d)
        IN \/ /\ w[2] = "none" /\ w[1].st # "ok"
              /\ w[1].p \in {up.p, Undefined(up.p).p, down.p}
           \/ w[2] = "none" /\ w[1] = Ok(up.p) /\ ~up.p.ivl[var].empty /\ Single(up.p.ivl[var])
           \/ w[2] # "none" /\ w[1] = up /\ up.st = "ok"
           \/ w[2] # "none" /\ w[1] = down /\ down.st = "ok"
  BY WayIs
<1> HIDE DEF up, w
<1> DEFINE down == ChangeMax(k, p, var, m, d)
           most == AtMost(m, d)
<1>4. /\ ~(d > 0 /\ m = UintMax) =>
           Leads(ModeOf(k), Meeting(var, most) \intersect Held(k), p, down)
      /\ d > 0 /\ m = UintMax => down.st = "error" \/ down.p.ivl[var].lifted
      /\ Narrower(ModeOf(k), p, down.p) /\ ExactSpace(down.p)
      /\ Meets(ModeFor(ModeOf(k), var), down.p.ivl[var], most) /\ Ranged(most)
  BY ChangeMaxLeads, RangesAre
<1> HIDE DEF down, most
<1>5. CASE w[2] = "none" /\ w[1].st # "ok" /\ w[1].p \in {up.p, Undefined(up.p).p, down.p}
  <2>1. Narrower(ModeOf(k), p, Undefined(up.p).p)
    <3>1. ExactSpace(Undefined(up.p).p) /\ Undefined(up.p).p.ivl = up.p.ivl /\ Undefined(up.p).p.format = up.p.format
      BY <1>1, UndefinedIs
    <3>2. QED
      BY <1>1, <3>1 DEF Narrower
  <2>2. Narrower(ModeOf(k), p, w[1].p) /\ ExactSpace(w[1].p)
    BY <1>1, <1>4, <1>5, <2>1 DEF Narrower
  <2>3. Followed(k, var, w) = w[1]
    BY <1>5 DEF Followed
  <2>4. QED
    BY <1>2, <1>5, <2>2, <2>3
<1>6. CASE w[2] = "none" /\ w[1] = Ok(up.p) /\ ~up.p.ivl[var].empty /\ Single(up.p.ivl[var])
  <2>1. Followed(k, var, w) = Ok(up.p)
    BY <1>6 DEF Followed
  <2>2. Ok(up.p).p = up.p
    BY DEF Ok
  <2>3. Narrower(ModeOf(k), up.p, up.p)
    BY <1>1, NarrowerItself, ModeOfIs
  <2>4. ASSUME NEW c \in Held(k), InSpace(c, p), ~up.p.ivl[var].lifted, InBounds(Answered(up.p.ivl[var]), Value(c, var))
        PROVE  InSpace(c, up.p)
    BY <1>1, <1>6, <2>3, <2>4, AnswerFrom
  <2>5. QED
    BY <1>1, <1>2, <1>6, <2>1, <2>2, <2>4
<1>7. CASE w[2] # "none" /\ w[1] = up /\ up.st = "ok"
  <2>1. Followed(k, var, w) = ChangeEnd(k, up.p, var, w[2])
    BY <1>7 DEF Followed
  <2>2. AnsweredWell(ChangeEnd(k, up.p, var, w[2]))
    BY <1>1, EndFrom DEF Narrower
  <2>3. QED
    BY <1>2, <2>1, <2>2
<1>8. CASE w[2] # "none" /\ w[1] = down /\ down.st = "ok"
  <2>1. Followed(k, var, w) = ChangeEnd(k, down.p, var, w[2])
    BY <1>8 DEF Followed
  <2>2. ~down.p.ivl[var].lifted => Leads(ModeOf(k), Meeting(var, most) \intersect Held(k), p, down)
    BY <1>4, <1>8
  <2>3. AnsweredWell(ChangeEnd(k, down.p, var, w[2]))
    BY <1>4, <2>2, EndFrom DEF Narrower
  <2>4. QED
    BY <1>2, <2>1, <2>3
<1>9. QED
  BY <1>3, <1>5, <1>6, <1>7, <1>8 DEF down

\* Preferring long periods narrows the space, even where it fails.
LEMMA LongPeriodsNarrows ==
  ASSUME NEW k \in KindNames, NEW p, ExactSpace(p), minperiodtime \in Nat
  PROVE  Narrower(ModeOf(k), p, LongPeriods(k, p).p)
<1> DEFINE i == p.ivl["PERIOD_TIME"]
           c == ChangeMin(k, p, "PERIOD_TIME", minperiodtime, 1)
           n == LongPeriods(k, p)
<1>0. "PERIOD_TIME" \in Vars /\ 1 \in Int
  BY DEF Vars
<1>1. \/ n.p = p
      \/ i.min < minperiodtime /\ minperiodtime < i.max /\ n.p \in {c.p, Undefined(c.p).p}
  BY DEF LongPeriods, Ok, Abort
<1>2. CASE n.p = p
  BY <1>2, NarrowerItself, ModeOfIs
<1>3. CASE i.min < minperiodtime /\ minperiodtime < i.max /\ n.p \in {c.p, Undefined(c.p).p}
  <2>1. i.min \in 0 .. UintMax /\ i.max \in 0 .. UintMax /\ UintMax \in Nat
    BY <1>0, UintMaxAssumption DEF UintMaxAssumption, ExactSpace, Exact, Interval, Bound
  <2>2. minperiodtime \in Bound
    BY <1>3, <2>1 DEF Bound
  <2>3. Narrower(ModeOf(k), p, c.p) /\ ExactSpace(c.p)
    BY <1>0, <2>2, ChangeMinLeads
  <2> HIDE DEF c
  <2>4. Narrower(ModeOf(k), p, Undefined(c.p).p)
    BY <2>3, UndefinedIs DEF Narrower
  <2>5. QED
    BY <1>3, <2>3, <2>4
<1>4. QED
  BY <1>1, <1>2, <1>3

\* One step of choosing, and what choosing preserves.
ChooseOp(k, s, c) == IF s.st = "ok" THEN ChooseOne(k, s.p, c[1], c[2]) ELSE s
ChooseInv(k, f, i) == Narrower(ModeOf(k), f[0].p, f[i].p)
ChooseFold == INSTANCE FoldInduction WITH Op <- ChooseOp, Inv <- ChooseInv

\* Each step of choosing narrows the space,
LEMMA ChooseStep ==
  ASSUME NEW k \in KindNames, NEW s, ExactSpace(s.p), minperiodtime \in Nat,
         NEW c, c[2] = "FORMAT" \/ c[2] \in Vars
  PROVE  Narrower(ModeOf(k), s.p, ChooseOp(k, s, c).p)
<1>1. Narrower(ModeOf(k), s.p, s.p)
  BY NarrowerItself, ModeOfIs
<1>2. Narrower(ModeOf(k), s.p, ChangeFirstFormat(k, s.p).p)
  BY ChangeFirstFormatNarrows
<1>3. Narrower(ModeOf(k), s.p, LongPeriods(k, s.p).p)
  BY LongPeriodsNarrows
<1>4. c[2] \in Vars => Narrower(ModeOf(k), s.p, ChangeEnd(k, s.p, c[2], c[1]).p)
  BY ChangeEndLeads
<1>5. QED
  BY <1>1, <1>2, <1>3, <1>4 DEF ChooseOp, ChooseOne

\* and so does snd_pcm_hw_params_choose().
LEMMA ChooseNarrows ==
  ASSUME NEW k \in KindNames, NEW p, ExactSpace(p), minperiodtime \in Nat
  PROVE  Narrower(ModeOf(k), p, Choose(k, p).p)
<1> DEFINE S == {"first", "last", "long"} \X Params
           order == << <<"first", "FORMAT">>, <<"first", "CHANNELS">>, <<"first", "RATE">>,
                       <<"long", "PERIOD_TIME">>, <<"last", "BUFFER_SIZE">>,
                       <<"first", "PERIOD_SIZE">>, <<"first", "PERIOD_TIME">> >>
           x == Ok(p)
           t == ChooseFold!Left(k, x, order)
<1>1. Choose(k, p) = t
  BY Zenon DEF Choose, ChooseOp, FoldLeft, MapThenFoldSet, ChooseFold!Left, ChooseFold!Last, Max
<1>2. order \in Seq(S)
  BY DEF Params, Vars
<1>3. \A c \in S : c[2] = "FORMAT" \/ c[2] \in Vars
  BY DEF Params
<1>4. x.p = p
  BY DEF Ok
<1> HIDE DEF S, order, x, t
<1>5. PICK f : /\ f[0] = x
               /\ \A i \in 1 .. Len(order) : f[i] = ChooseOp(k, f[i - 1], order[i])
               /\ t = f[Len(order)]
  BY <1>2, ChooseFold!LeftIs DEF t
<1>6. ChooseInv(k, f, 0)
  BY <1>4, <1>5, NarrowerItself, ModeOfIs DEF ChooseInv
<1>7. ASSUME NEW i \in 1 .. Len(order), ChooseInv(k, f, i - 1)
      PROVE  ChooseInv(k, f, i)
  <2>1. Narrower(ModeOf(k), p, f[i - 1].p) /\ ExactSpace(f[i - 1].p) /\ order[i] \in S
    BY <1>2, <1>4, <1>5, <1>7 DEF ChooseInv, Narrower
  <2>2. Narrower(ModeOf(k), f[i - 1].p, f[i].p)
    BY <1>3, <1>5, <2>1, ChooseStep
  <2>3. Narrower(ModeOf(k), p, f[i].p)
    BY <2>1, <2>2, NarrowerOn, ModeOfIs
  <2>4. QED
    BY <1>4, <1>5, <2>3 DEF ChooseInv
<1>8. Len(order) \in Nat
  BY <1>2
<1>9. ChooseInv(k, f, Len(order))
  BY <1>6, <1>7, <1>8, ChooseFold!Upward
<1>10. QED
  BY <1>1, <1>4, <1>5, <1>9 DEF ChooseInv

(* Installing narrows the space too.                                       *)
LEMMA ChosenNarrows ==
  ASSUME NEW k \in KindNames, NEW p, ExactSpace(p), minperiodtime \in Nat
  PROVE  Narrower(ModeOf(k), p, Chosen(k, p).p)
<1> DEFINE h == HwRefine(k, p)
           c == Choose(k, h.p)
<1>1. Narrower(ModeOf(k), p, h.p) /\ ExactSpace(h.p)
  BY HwRefineLeads DEF Leads, Narrower, KindNames
<1> HIDE DEF h
<1>2. Narrower(ModeOf(k), h.p, c.p)
  BY <1>1, ChooseNarrows
<1>3. Narrower(ModeOf(k), p, c.p)
  BY <1>1, <1>2, NarrowerOn, ModeOfIs
<1>4. Chosen(k, p).p \in {h.p, c.p}
  <2>1. Chosen(k, p) = IF h.st = "ok" THEN (IF c.st = "error" THEN Ok(c.p) ELSE c) ELSE h
    BY DEF Chosen, Then, h
  <2> HIDE DEF c
  <2>2. QED
    BY <2>1 DEF Ok
<1>5. QED
  BY <1>1, <1>3, <1>4

\* What the slave of a rate PCM has chosen is an exact space.
LEMMA RateSlaveChosenExact ==
  ASSUME NEW p, ExactSpace(p), minperiodtime \in Nat
  PROVE  ExactSpace(RateSlaveChosen(p).p)
<1> DEFINE a == ToSlave(p, RateSlaveSpace)
           s == IF a.st = "error" THEN Abort(a.p) ELSE a
           c == Chosen("direct", s.p)
<1>1. ExactSpace(a.p)
  BY RateSlaveSpaceExact, ToSlaveExact
<1>2. s.p = a.p
  BY DEF Abort
<1>3. RateSlaveChosen(p) = IF s.st = "ok" THEN c ELSE IF a.st = "error" THEN Abort(p) ELSE a
  BY DEF RateSlaveChosen, Then, Abort
<1> HIDE DEF a
<1>4. ExactSpace(c.p)
  <2>1. "direct" \in KindNames /\ ExactSpace(s.p)
    BY <1>1, <1>2 DEF KindNames
  <2> HIDE DEF s
  <2>2. QED
    BY <2>1, ChosenNarrows DEF Narrower
<1>5. Abort(p).p = p
  BY DEF Abort
<1> HIDE DEF c, s
<1>6. QED
  BY <1>1, <1>3, <1>4, <1>5

\* snd_pcm_hw_params() narrows the space, however it ends, and only success leaves
\* the PCM with a setup.
THEOREM InstalledNarrows ==
  ASSUME NEW k \in KindNames, NEW p, ExactSpace(p), minperiodtime \in Nat
  PROVE  /\ Narrower(ModeOf(k), p, Installed(k, p).p)
         /\ Installed(k, p).st # "ok" => Installed(k, p).setup = NoSetup
<1> DEFINE q == Chosen(k, p)
           slave == RateSlaveChosen(q.p)
           back == ToClient(q.p, slave.p).p
           n == Installed(k, p)
<1>1. Narrower(ModeOf(k), p, q.p) /\ ExactSpace(q.p)
  BY ChosenNarrows DEF Narrower
<1>2. n = EndsChosen(k, q)
  BY DEF Installed
<1> HIDE DEF q, n
<1>3. k = "rate" => Narrower(ModeOf(k), p, back)
  <2>1. ExactSpace(slave.p)
    BY <1>1, RateSlaveChosenExact
  <2> HIDE DEF slave
  <2>2. Narrower("loose", q.p, back)
    BY <1>1, <2>1, ToClientNarrows
  <2> HIDE DEF back
  <2>3. k = "rate" => ModeOf(k) = "loose"
    BY DEF ModeOf
  <2>4. QED
    BY <1>1, <2>2, <2>3, NarrowerOn, ModeOfIs
<1>4. n.p = q.p \/ (k = "rate" /\ n.p = back)
  BY <1>2 DEF EndsChosen, EndsWithSlave, Ends
<1>5. n.st # "ok" => n.setup = NoSetup
  BY <1>2 DEF EndsChosen, EndsWithSlave, Ends
<1>6. QED
  BY <1>1, <1>3, <1>4, <1>5 DEF n

(* What holds of the application's space.                                  *)

\* What has been granted, in the terms that narrowing preserves.
Granted(k, p, a) ==
  /\ Ranged(a.range)
  /\ IF a.var = "FORMAT" THEN \A f \in p.format : InBounds(a.range, <<f, 1>>)
     ELSE a.var \in Vars /\ Meets(ModeFor(ModeOf(k), a.var), p.ivl[a.var], a.range)

\* The configurations that fit all that was asked for are in the space.
Spared(k, p, A) ==
  \A c \in Held(k) : (\A a \in A : Fits(c, a)) => InSpace(c, p)

ParamsInv ==
  /\ kind \in KindNames /\ minperiodtime \in Nat
  /\ ExactSpace(space)
  /\ \A a \in asked : Granted(kind, space, a)
  /\ trusted /\ setup = NoSetup /\ outcome \in {"ok", "error"} /\ ~Lifted(space) => Spared(kind, space, asked)

\* A call that ends as q is sound in asking for what is in want.
CallSound(k, p, q, want) ==
  /\ Narrower(ModeOf(k), p, q.p)
  /\ q.st = "ok" => \A a \in want : Granted(k, q.p, a)
  /\ \A c \in Held(k) :
       InSpace(c, p) /\ q.st = "ok" /\ ~Lifted(q.p) /\ (\A a \in want : Fits(c, a) /\ ~CheckEmpty(a.range))
         => InSpace(c, q.p)

\* What has been granted stays so in narrower spaces.
LEMMA GrantedNarrower ==
  ASSUME NEW k, NEW p, ExactSpace(p), NEW q, Narrower(ModeOf(k), p, q), NEW a, Granted(k, p, a)
  PROVE  Granted(k, q, a)
<1>1. CASE a.var = "FORMAT"
  BY <1>1 DEF Granted, Narrower
<1>2. CASE a.var # "FORMAT"
  <2>1. Ranged(a.range) /\ a.var \in Vars /\ Meets(ModeFor(ModeOf(k), a.var), p.ivl[a.var], a.range)
    BY <1>2 DEF Granted
  <2>2. Meets(ModeFor(ModeOf(k), a.var), q.ivl[a.var], a.range)
    BY <2>1, MeetsNarrower, ModeOfIs
  <2>3. QED
    BY <1>2, <2>1, <2>2 DEF Granted
<1>3. QED
  BY <1>1, <1>2

\* Nor does narrowing undo that a bound has wrapped.
LEMMA LiftedNarrower ==
  ASSUME NEW mode, NEW p, NEW q, Narrower(mode, p, q), ~Lifted(q)
  PROVE  ~Lifted(p)
BY DEF Lifted, Narrower, Within

\* Every step of the application but installing: it narrows the space, or puts it
\* back, and adds to what was asked for.
LEMMA CallKeeps ==
  ASSUME ParamsInv, NEW r, NEW want, CallSound(kind, space, r, want),
         Ready, space' = [r.p EXCEPT !.cmask = {}], outcome' = r.st,
         asked' = IF r.st = "ok" THEN asked \union want ELSE asked,
         trusted' => /\ trusted
                     /\ r.st = "ok" => \A a \in want : ~CheckEmpty(a.range)
                     /\ r.st = "error" => r.p = space,
         UNCHANGED <<kind, minperiodtime, setup>>
  PROVE  ParamsInv'
<1>1. kind' = kind /\ minperiodtime' = minperiodtime /\ setup' = setup
  OBVIOUS
<1>2. /\ ExactSpace(space) /\ ExactSpace(r.p) /\ Narrower(ModeOf(kind), space, r.p)
      /\ ModeOf(kind) \in Modes
  BY ModeOfIs DEF ParamsInv, CallSound, Narrower
<1>3. /\ ExactSpace(space') /\ space'.ivl = r.p.ivl /\ Narrower(ModeOf(kind), r.p, space')
      /\ \A c : InSpace(c, space') <=> InSpace(c, r.p)
  <2>1. {} \in SUBSET Params
    OBVIOUS
  <2>2. QED
    BY <1>2, <2>1, CmaskExact
<1>4. Narrower(ModeOf(kind), space, space')
  BY <1>2, <1>3, NarrowerOn
<1>5. ASSUME NEW a \in asked' PROVE Granted(kind, space', a)
  <2>1. CASE a \in asked
    <3>1. Granted(kind, space, a)
      BY <2>1 DEF ParamsInv
    <3>2. QED
      BY <1>2, <1>4, <3>1, GrantedNarrower
  <2>2. CASE r.st = "ok" /\ a \in want
    <3>1. Granted(kind, r.p, a)
      BY <2>2 DEF CallSound
    <3>2. QED
      BY <1>2, <1>3, <3>1, GrantedNarrower
  <2>3. QED
    BY <2>1, <2>2
<1>6. ASSUME trusted', outcome' \in {"ok", "error"}, ~Lifted(space'), NEW c \in Held(kind),
             \A a \in asked' : Fits(c, a)
      PROVE  InSpace(c, space')
  <2>1. ~Lifted(space)
    BY <1>4, <1>6, LiftedNarrower
  <2>2. ~Lifted(r.p)
    BY <1>3, <1>6 DEF Lifted
  <2>3. trusted /\ setup = NoSetup /\ outcome \in {"ok", "error"}
    BY <1>6 DEF Ready
  <2>4. \A a \in asked : Fits(c, a)
    BY <1>6
  <2>5. InSpace(c, space)
    BY <1>6, <2>1, <2>3, <2>4 DEF ParamsInv, Spared
  <2>6. CASE r.st = "ok"
    <3>1. \A a \in want : Fits(c, a) /\ ~CheckEmpty(a.range)
      BY <1>6, <2>6
    <3>2. InSpace(c, r.p)
      BY <1>6, <2>2, <2>5, <2>6, <3>1 DEF CallSound
    <3>3. QED
      BY <1>3, <3>2
  <2>7. CASE r.st = "error"
    BY <1>3, <1>6, <2>5, <2>7
  <2>8. QED
    BY <1>6, <2>6, <2>7
<1>7. ASSUME trusted', setup' = NoSetup, outcome' \in {"ok", "error"}, ~Lifted(space')
      PROVE  Spared(kind, space', asked')
  BY <1>6, <1>7 DEF Spared
<1>8. kind \in KindNames /\ minperiodtime \in Nat
  BY DEF ParamsInv
<1>9. QED
  BY <1>1, <1>3, <1>5, <1>7, <1>8 DEF ParamsInv

\* The calls that put the space back, and those that do not.
LEMMA CallRestoring ==
  ASSUME ParamsInv, NEW q, NEW want, q.st = "error" \/ CallSound(kind, space, q, want), Call(q, want, TRUE)
  PROVE  ParamsInv'
<1> DEFINE r == Restored(space, q)
<1>1. /\ Ready /\ space' = [r.p EXCEPT !.cmask = {}] /\ outcome' = r.st
      /\ asked' = IF r.st = "ok" THEN asked \union want ELSE asked
      /\ UNCHANGED <<kind, minperiodtime, setup>>
      /\ trusted' => trusted /\ (r.st = "ok" => \A a \in want : ~CheckEmpty(a.range))
  BY DEF Call
<1>2. r.st = "error" => r.p = space
  BY DEF Restored, Error
<1>3. CallSound(kind, space, r, want)
  <2>1. CASE q.st = "error"
    <3>1. r.p = space /\ r.st = "error"
      BY <2>1 DEF Restored, Error
    <3>2. Narrower(ModeOf(kind), space, space)
      BY NarrowerItself, ModeOfIs DEF ParamsInv
    <3>3. QED
      BY <3>1, <3>2 DEF CallSound
  <2>2. CASE q.st # "error"
    BY <2>2 DEF Restored
  <2>3. QED
    BY <2>1, <2>2
<1> HIDE DEF r
<1>4. QED
  BY <1>1, <1>2, <1>3, CallKeeps

\* A call that does not ask for SND_TRY.
LEMMA CallLeaving ==
  ASSUME ParamsInv, NEW q, NEW want, CallSound(kind, space, q, want), Call(q, want, FALSE)
  PROVE  ParamsInv'
<1>1. /\ Ready /\ space' = [q.p EXCEPT !.cmask = {}] /\ outcome' = q.st
      /\ asked' = IF q.st = "ok" THEN asked \union want ELSE asked
      /\ UNCHANGED <<kind, minperiodtime, setup>>
      /\ trusted' => trusted /\ (q.st = "ok" => \A a \in want : ~CheckEmpty(a.range)) /\ q.st # "error"
  BY DEF Call
<1>2. QED
  BY <1>1, CallKeeps

\* The fields of what is asked for.
LEMMA AsksIs ==
  ASSUME NEW var, NEW range, NEW val
  PROVE  /\ Asks(var, range).var = var /\ Asks(var, range).range = range /\ ~Asks(var, range).whole
         /\ AsksNear(var, range, val).var = var /\ AsksNear(var, range, val).range = range
         /\ ~AsksNear(var, range, val).whole
BY DEF Asks, AsksNear

\* Asking for a parameter within bounds.
LEMMA AskedSound ==
  ASSUME NEW k \in KindNames, NEW p, NEW q, Narrower(ModeOf(k), p, q.p), NEW var \in Vars,
         NEW want, \A a \in want : a.var = var /\ ~a.whole /\ Ranged(a.range),
         q.st = "ok" => \A a \in want : Meets(ModeFor(ModeOf(k), var), q.p.ivl[var], a.range),
         \A c \in Held(k) :
           InSpace(c, p) /\ q.st = "ok" /\ ~q.p.ivl[var].lifted /\ (\A a \in want : c \in Meeting(var, a.range))
             => InSpace(c, q.p)
  PROVE  CallSound(k, p, q, want)
<1>1. var # "FORMAT"
  BY DEF Vars
<1>2. ASSUME q.st = "ok", NEW a \in want PROVE Granted(k, q.p, a)
  BY <1>1, <1>2 DEF Granted
<1>3. ASSUME NEW c \in Held(k), InSpace(c, p), q.st = "ok", ~Lifted(q.p),
             \A a \in want : Fits(c, a) /\ ~CheckEmpty(a.range)
      PROVE  InSpace(c, q.p)
  <2>1. c \in Sample
    BY DEF Held
  <2>2. \A a \in want : c \in Meeting(var, a.range)
    BY <1>3, <2>1 DEF Fits, Meeting
  <2>3. ~q.p.ivl[var].lifted
    BY <1>3 DEF Lifted
  <2>4. QED
    BY <1>3, <2>2, <2>3
<1>4. QED
  BY <1>2, <1>3 DEF CallSound

\* Asking for what first, last or near has answered.
LEMMA AnswerSound ==
  ASSUME NEW k \in KindNames, NEW p, NEW q, Narrower(ModeOf(k), p, q.p), NEW var \in Vars,
         q.st = "ok" => ~q.p.ivl[var].empty /\ Single(q.p.ivl[var]),
         NEW a, a.var = var, ~a.whole, a.range = Answered(q.p.ivl[var]),
         \A c \in Held(k) :
           InSpace(c, p) /\ q.st = "ok" /\ ~q.p.ivl[var].lifted /\ InBounds(Answered(q.p.ivl[var]), Value(c, var))
             => InSpace(c, q.p)
  PROVE  CallSound(k, p, q, {a})
<1>1. Exact(q.p.ivl[var]) /\ q.p.ivl[var] \in Interval
  BY DEF Narrower, ExactSpace, Exact
<1>2. CASE q.st = "ok"
  <2>1. Ranged(a.range) /\ Meets("strict", q.p.ivl[var], a.range)
    BY <1>1, <1>2, AnsweredMeets
  <2>2. Meets(ModeFor(ModeOf(k), var), q.p.ivl[var], a.range)
    BY <1>1, <2>1, Loosely, ModesAre, ModeOfIs DEF Ranged
  <2>3. \A c : c \in Meeting(var, a.range) => InBounds(Answered(q.p.ivl[var]), Value(c, var))
    BY DEF Meeting
  <2>4. QED
    BY <2>1, <2>2, <2>3, AskedSound
<1>3. CASE q.st # "ok"
  BY <1>3 DEF CallSound
<1>4. QED
  BY <1>2, <1>3

(* The calls.                                                              *)
LEMMA RequestIs ==
  ASSUME NEW r \in Requests
  PROVE  /\ r.op = "format" => r.val \in Nat
         /\ r.op # "format" => r.var \in Vars /\ r.val \in Bound /\ r.dir \in Int
         /\ r.op = "minmax" => r.max \in Bound
<1>1. r.op = "format" \/ r.op # "format"
  OBVIOUS
<1>2. QED
  BY <1>1, HwParamsAssumption DEF HwParamsAssumption

\* Each call keeps the invariant.
LEMMA SetValueKeeps ==
  ASSUME ParamsInv, NEW r \in Requests, SetValue(r)
  PROVE  ParamsInv'
<1> DEFINE b == Exactly(r.val, r.dir)
           a == Asks(r.var, b)
           v == PutValue(space, r.var, r.val, r.dir)
           q == Refined(kind, v)
<1>1. r.var \in Vars /\ r.val \in Bound /\ r.dir \in Int
  BY RequestIs DEF SetValue
<1>2. Call(q, {a}, TRUE)
  BY DEF SetValue
<1>3. kind \in KindNames /\ ExactSpace(space)
  BY DEF ParamsInv
<1>4. CASE r.val = 0 /\ r.dir < 0
  <2>1. q.st = "error"
    BY <1>1, <1>3, <1>4, PutNothing
  <2> HIDE DEF q, a
  <2>2. QED
    BY <1>2, <2>1, CallRestoring
<1>5. CASE ~(r.val = 0 /\ r.dir < 0)
  <2>1. /\ Leads("strict", Meeting(r.var, b), space, v)
        /\ ExactSpace(v.p) /\ Meets("strict", v.p.ivl[r.var], b) /\ Ranged(b)
    BY <1>1, <1>3, <1>5, PutValueLeads, RangesAre
  <2> HIDE DEF v, b
  <2>2. /\ Leads(ModeOf(kind), Meeting(r.var, b) \intersect Held(kind), space, q)
        /\ Narrower(ModeOf(kind), space, q.p) /\ Narrower(ModeOf(kind), v.p, q.p)
    BY <1>3, <2>1, RefinedOn
  <2> HIDE DEF q
  <2>3. Meets(ModeFor(ModeOf(kind), r.var), q.p.ivl[r.var], b)
    BY <1>1, <2>1, <2>2, MeetsNarrower, ModeOfIs
  <2>4. a.var = r.var /\ a.range = b /\ ~a.whole
    BY AsksIs
  <2> HIDE DEF a
  <2>5. \A c \in Held(kind) : InSpace(c, space) /\ c \in Meeting(r.var, a.range) => InSpace(c, q.p)
    BY <2>2, <2>4 DEF Leads
  <2>6. CallSound(kind, space, q, {a})
    BY <1>1, <1>3, <2>1, <2>2, <2>3, <2>4, <2>5, AskedSound
  <2>7. QED
    BY <1>2, <2>6, CallRestoring
<1>6. QED
  BY <1>4, <1>5

\* set_min.
LEMMA SetMinKeeps ==
  ASSUME ParamsInv, NEW r \in Requests, SetMin(r)
  PROVE  ParamsInv'
<1> DEFINE b == AtLeast(r.val, r.dir)
           a == Asks(r.var, b)
           q == ChangeMin(kind, space, r.var, r.val, r.dir)
<1>1. r.var \in Vars /\ r.val \in Bound /\ r.dir \in Int
  BY RequestIs DEF SetMin
<1>2. Call(q, {a}, TRUE)
  BY DEF SetMin
<1>3. kind \in KindNames /\ ExactSpace(space)
  BY DEF ParamsInv
<1>4. /\ Leads(ModeOf(kind), Meeting(r.var, b) \intersect Held(kind), space, q)
      /\ Narrower(ModeOf(kind), space, q.p) /\ Ranged(b)
      /\ Meets(ModeFor(ModeOf(kind), r.var), q.p.ivl[r.var], b)
  BY <1>1, <1>3, ChangeMinLeads, RangesAre
<1>5. a.var = r.var /\ a.range = b /\ ~a.whole
  BY AsksIs
<1> HIDE DEF q, b, a
<1>6. \A c \in Held(kind) : InSpace(c, space) /\ c \in Meeting(r.var, a.range) => InSpace(c, q.p)
  BY <1>4, <1>5 DEF Leads
<1>7. CallSound(kind, space, q, {a})
  BY <1>1, <1>3, <1>4, <1>5, <1>6, AskedSound
<1>8. QED
  BY <1>2, <1>7, CallRestoring

\* set_max.
LEMMA SetMaxKeeps ==
  ASSUME ParamsInv, NEW r \in Requests, SetMax(r)
  PROVE  ParamsInv'
<1> DEFINE b == AtMost(r.val, r.dir)
           a == Asks(r.var, b)
           q == ChangeMax(kind, space, r.var, r.val, r.dir)
           corner == r.dir > 0 /\ r.val = UintMax
<1>1. r.var \in Vars /\ r.val \in Bound /\ r.dir \in Int
  BY RequestIs DEF SetMax
<1>2. Call(q, {a}, TRUE)
  BY DEF SetMax
<1>3. kind \in KindNames /\ ExactSpace(space)
  BY DEF ParamsInv
<1>4. /\ ~corner => Leads(ModeOf(kind), Meeting(r.var, b) \intersect Held(kind), space, q)
      /\ corner => q.st = "error" \/ q.p.ivl[r.var].lifted
      /\ Narrower(ModeOf(kind), space, q.p) /\ Ranged(b)
      /\ Meets(ModeFor(ModeOf(kind), r.var), q.p.ivl[r.var], b)
  BY <1>1, <1>3, ChangeMaxLeads, RangesAre
<1>5. a.var = r.var /\ a.range = b /\ ~a.whole
  BY AsksIs
<1> HIDE DEF q, b, a, corner
<1>6. \A c \in Held(kind) :
        InSpace(c, space) /\ q.st = "ok" /\ ~q.p.ivl[r.var].lifted /\ c \in Meeting(r.var, a.range) => InSpace(c, q.p)
  BY <1>4, <1>5 DEF Leads
<1>7. CallSound(kind, space, q, {a})
  BY <1>1, <1>3, <1>4, <1>5, <1>6, AskedSound
<1>8. QED
  BY <1>2, <1>7, CallRestoring

\* set_minmax.
LEMMA SetMinMaxKeeps ==
  ASSUME ParamsInv, NEW r \in Requests, SetMinMax(r)
  PROVE  ParamsInv'
<1> DEFINE l == AtLeast(r.val, r.dir)
           u == AtMost(r.max, 0)
           a == Asks(r.var, l)
           b == Asks(r.var, u)
           q == ChangeMinMax(kind, space, r.var, r.val, r.dir, r.max, 0)
<1>1. r.var \in Vars /\ r.val \in Bound /\ r.dir \in Int /\ r.max \in Bound /\ 0 \in Int /\ ~(0 > 0)
  BY RequestIs DEF SetMinMax
<1>2. Call(q, {a, b}, TRUE)
  BY DEF SetMinMax
<1>3. kind \in KindNames /\ ExactSpace(space)
  BY DEF ParamsInv
<1>4. /\ Leads(ModeOf(kind), (Meeting(r.var, l) \intersect Meeting(r.var, u)) \intersect Held(kind), space, q)
      /\ Narrower(ModeOf(kind), space, q.p)
      /\ q.st = "ok" => /\ Meets(ModeFor(ModeOf(kind), r.var), q.p.ivl[r.var], l)
                        /\ Meets(ModeFor(ModeOf(kind), r.var), q.p.ivl[r.var], u)
  BY <1>1, <1>3, ChangeMinMaxLeads
<1>5. Ranged(l) /\ Ranged(u)
  BY <1>1, RangesAre
<1>6. a.var = r.var /\ a.range = l /\ ~a.whole /\ b.var = r.var /\ b.range = u /\ ~b.whole
  BY AsksIs
<1> HIDE DEF q, l, u, a, b
<1>7. \A c \in Held(kind) :
        InSpace(c, space) /\ c \in Meeting(r.var, a.range) /\ c \in Meeting(r.var, b.range) => InSpace(c, q.p)
  BY <1>4, <1>6 DEF Leads
<1>8. \A x \in {a, b} : x.var = r.var /\ ~x.whole /\ Ranged(x.range)
  BY <1>5, <1>6
<1>9. q.st = "ok" => \A x \in {a, b} : Meets(ModeFor(ModeOf(kind), r.var), q.p.ivl[r.var], x.range)
  BY <1>4, <1>6
<1>10. CallSound(kind, space, q, {a, b})
  BY <1>1, <1>3, <1>4, <1>7, <1>8, <1>9, AskedSound
<1>11. QED
  BY <1>2, <1>10, CallRestoring

\* Asking for whole numbers bounds nothing.
LEMMA AsksWholeIs ==
  ASSUME NEW var \in Vars, NEW b, b = AsksWhole(var)
  PROVE  /\ b.var = var /\ b.whole /\ b.range = Bounds(0, FALSE, UintMax, FALSE)
         /\ Ranged(b.range)
         /\ \A i \in Interval : Meets("strict", i, b.range)
<1>1. UintMax \in Nat
  BY UintMaxAssumption DEF UintMaxAssumption
<1>2. b.var = var /\ b.whole /\ b.range = Bounds(0, FALSE, UintMax, FALSE)
  BY DEF AsksWhole, Asks
<1>3. PICK v : v = b.range
  OBVIOUS
<1>4. v.min = 0 /\ ~v.openmin /\ v.max = UintMax /\ ~v.openmax /\ v.openmin \in BOOLEAN /\ v.openmax \in BOOLEAN
  BY <1>2, <1>3 DEF Bounds
<1>5. Ranged(v)
  BY <1>1, <1>4 DEF Ranged
<1>6. ASSUME NEW i \in Interval PROVE Meets("strict", i, v)
  <2>1. i.min \in 0 .. UintMax /\ i.max \in 0 .. UintMax
    BY DEF Interval, Bound
  <2>2. Contained(i, v)
    BY <1>1, <1>4, <2>1 DEF Contained
  <2>3. QED
    BY <2>2 DEF Meets
<1>7. QED
  BY <1>2, <1>3, <1>5, <1>6

\* set_integer.
LEMMA SetIntegerOnlyKeeps ==
  ASSUME ParamsInv, NEW r \in Requests, SetIntegerOnly(r)
  PROVE  ParamsInv'
<1> DEFINE a == AsksWhole(r.var)
           q == ChangeInteger(kind, space, r.var)
           C == {c \in Sample : Num(c, r.var) % Den(c, r.var) = 0}
<1>1. r.var \in Vars /\ r.var # "FORMAT"
  BY RequestIs DEF SetIntegerOnly, Vars
<1>2. Call(q, {a}, TRUE)
  BY DEF SetIntegerOnly
<1>3. kind \in KindNames /\ ExactSpace(space)
  BY DEF ParamsInv
<1>4. /\ Leads(ModeOf(kind), C \intersect Held(kind), space, q)
      /\ Narrower(ModeOf(kind), space, q.p) /\ ExactSpace(q.p)
  BY <1>1, <1>3, ChangeIntegerLeads
<1>5. /\ a.var = r.var /\ a.whole /\ Ranged(a.range)
      /\ \A i \in Interval : Meets("strict", i, a.range)
  BY <1>1, AsksWholeIs
<1> HIDE DEF q, a
<1>6. Meets(ModeFor(ModeOf(kind), r.var), q.p.ivl[r.var], a.range)
  <2>1. q.p.ivl[r.var] \in Interval
    BY <1>1, <1>4 DEF ExactSpace, Exact
  <2>2. QED
    BY <1>5, <2>1, Loosely, ModesAre, ModeOfIs DEF Ranged
<1>7. Granted(kind, q.p, a)
  BY <1>1, <1>5, <1>6 DEF Granted
<1>8. ASSUME NEW c \in Held(kind), InSpace(c, space), Fits(c, a)
      PROVE  InSpace(c, q.p)
  <2>1. c \in C
    BY <1>5, <1>8 DEF Fits, Held, Num, Den
  <2> HIDE DEF C
  <2>2. QED
    BY <1>4, <1>8, <2>1 DEF Leads
<1>9. CallSound(kind, space, q, {a})
  BY <1>4, <1>7, <1>8 DEF CallSound
<1>10. QED
  BY <1>2, <1>9, CallRestoring

\* set_format.
LEMMA SetFormatKeeps ==
  ASSUME ParamsInv, NEW r \in Requests, SetFormat(r)
  PROVE  ParamsInv'
<1> DEFINE b == Exactly(r.val, 0)
           a == Asks("FORMAT", b)
           q == ChangeFormat(kind, space, r.val)
           C == {c \in Sample : c.format = r.val}
<1>1. r.val \in Nat
  BY RequestIs DEF SetFormat
<1>2. Call(q, {a}, TRUE)
  BY DEF SetFormat
<1>3. kind \in KindNames /\ ExactSpace(space)
  BY DEF ParamsInv
<1>4. /\ Leads(ModeOf(kind), C \intersect Held(kind), space, q)
      /\ Narrower(ModeOf(kind), space, q.p) /\ q.p.format \subseteq {r.val}
  BY <1>3, ChangeFormatLeads
<1>5. a.var = "FORMAT" /\ a.range = b
  BY AsksIs
<1>6. PICK v : v = b /\ v.min = r.val /\ v.max = r.val /\ ~v.openmin /\ ~v.openmax
               /\ v.openmin \in BOOLEAN /\ v.openmax \in BOOLEAN
  <2>1. PICK v : v = b
    OBVIOUS
  <2>2. v = Bounds(r.val, FALSE, r.val, FALSE)
    BY <2>1, Zenon DEF Exactly
  <2>3. v.min = r.val /\ v.max = r.val /\ ~v.openmin /\ ~v.openmax /\ v.openmin \in BOOLEAN /\ v.openmax \in BOOLEAN
    BY <2>2 DEF Bounds
  <2> HIDE DEF b
  <2>4. QED
    BY <2>1, <2>3
<1> HIDE DEF q, b, a
<1>7. Ranged(b)
  BY <1>1, <1>6 DEF Ranged
<1>8. ASSUME NEW f \in Nat PROVE InBounds(b, <<f, 1>>) <=> f = r.val
  <2>1. InBounds(v, <<f, 1>>) <=> f = r.val
    BY <1>1, <1>6, <1>8 DEF InBounds, Above, Below
  <2>2. QED
    BY <1>6, <2>1
<1>9. Granted(kind, q.p, a)
  BY <1>1, <1>4, <1>5, <1>7, <1>8 DEF Granted
<1>10. ASSUME NEW c \in Held(kind), InSpace(c, space), Fits(c, a)
       PROVE  InSpace(c, q.p)
  <2>1. c \in Sample /\ c.format \in Nat
    BY SampleIs, HwRulesAssumption DEF Held, Configurations, Formats, HwRulesAssumption
  <2>2. Value(c, "FORMAT") = <<c.format, 1>>
    BY DEF Value
  <2>3. c.format = r.val
    BY <1>5, <1>8, <1>10, <2>1, <2>2 DEF Fits
  <2>4. c \in C
    BY <2>1, <2>3
  <2> HIDE DEF C
  <2>5. QED
    BY <1>4, <1>10, <2>4 DEF Leads
<1>11. CallSound(kind, space, q, {a})
  BY <1>4, <1>9, <1>10 DEF CallSound
<1>12. QED
  BY <1>2, <1>11, CallRestoring

\* set_near.
LEMMA SetNearKeeps ==
  ASSUME ParamsInv, NEW r \in Requests, SetNear(r)
  PROVE  ParamsInv'
<1> DEFINE q == ChangeNear(kind, space, r.var, r.val, r.dir)
           j == q.p.ivl[r.var]
           a == AsksNear(r.var, Answered(j), r.val)
<1>1. r.var \in Vars /\ r.val \in Bound /\ r.dir \in Int
  BY RequestIs DEF SetNear
<1>2. Call(q, {a}, FALSE)
  BY DEF SetNear
<1>3. kind \in KindNames /\ ExactSpace(space)
  BY DEF ParamsInv
<1>4. /\ Narrower(ModeOf(kind), space, q.p)
      /\ q.st = "ok" => ~j.empty /\ Single(j)
      /\ \A c \in Held(kind) :
           InSpace(c, space) /\ q.st = "ok" /\ ~j.lifted /\ InBounds(Answered(j), Value(c, r.var)) => InSpace(c, q.p)
  BY <1>1, <1>3, ChangeNearLeads
<1>5. a.var = r.var /\ a.range = Answered(j) /\ ~a.whole
  BY AsksIs
<1> HIDE DEF q, a
<1>6. CallSound(kind, space, q, {a})
  BY <1>1, <1>3, <1>4, <1>5, AnswerSound
<1>7. QED
  BY <1>2, <1>6, CallLeaving

\* set_first.
LEMMA SetFirstKeeps ==
  ASSUME ParamsInv, NEW r \in Requests, SetFirst(r)
  PROVE  ParamsInv'
<1> DEFINE q == ChangeFirst(kind, space, r.var)
           j == q.p.ivl[r.var]
           a == Asks(r.var, Answered(j))
<1>1. r.var \in Vars
  BY RequestIs DEF SetFirst
<1>2. Call(q, {a}, FALSE)
  BY DEF SetFirst
<1>3. kind \in KindNames /\ ExactSpace(space)
  BY DEF ParamsInv
<1>4. /\ Narrower(ModeOf(kind), space, q.p)
      /\ q.st = "ok" => ~j.empty /\ Single(j)
      /\ \A c \in Held(kind) :
           InSpace(c, space) /\ q.st = "ok" /\ ~j.lifted /\ InBounds(Answered(j), Value(c, r.var)) => InSpace(c, q.p)
  BY <1>1, <1>3, ChangeEndLeads DEF ChangeFirst
<1>5. a.var = r.var /\ a.range = Answered(j) /\ ~a.whole
  BY AsksIs
<1> HIDE DEF q, a
<1>6. CallSound(kind, space, q, {a})
  BY <1>1, <1>3, <1>4, <1>5, AnswerSound
<1>7. QED
  BY <1>2, <1>6, CallLeaving

\* set_last.
LEMMA SetLastKeeps ==
  ASSUME ParamsInv, NEW r \in Requests, SetLast(r)
  PROVE  ParamsInv'
<1> DEFINE q == ChangeLast(kind, space, r.var)
           j == q.p.ivl[r.var]
           a == Asks(r.var, Answered(j))
<1>1. r.var \in Vars
  BY RequestIs DEF SetLast
<1>2. Call(q, {a}, FALSE)
  BY DEF SetLast
<1>3. kind \in KindNames /\ ExactSpace(space)
  BY DEF ParamsInv
<1>4. /\ Narrower(ModeOf(kind), space, q.p)
      /\ q.st = "ok" => ~j.empty /\ Single(j)
      /\ \A c \in Held(kind) :
           InSpace(c, space) /\ q.st = "ok" /\ ~j.lifted /\ InBounds(Answered(j), Value(c, r.var)) => InSpace(c, q.p)
  BY <1>1, <1>3, ChangeEndLeads DEF ChangeLast
<1>5. a.var = r.var /\ a.range = Answered(j) /\ ~a.whole
  BY AsksIs
<1> HIDE DEF q, a
<1>6. CallSound(kind, space, q, {a})
  BY <1>1, <1>3, <1>4, <1>5, AnswerSound
<1>7. QED
  BY <1>2, <1>6, CallLeaving

\* Installing: after it the space need not have everything.
LEMMA InstallKeeps ==
  ASSUME ParamsInv, Install
  PROVE  ParamsInv'
<1> DEFINE q == Installed(kind, space)
<1>1. /\ space' = [q.p EXCEPT !.cmask = {}] /\ outcome' = q.st /\ setup' = q.setup
      /\ trusted' => q.st # "error" /\ (q.st = "ok" => q.setup # NoSetup)
      /\ UNCHANGED <<kind, minperiodtime, asked>>
  BY DEF Install
<1>2. kind \in KindNames /\ ExactSpace(space) /\ minperiodtime \in Nat
  BY DEF ParamsInv
<1>3. Narrower(ModeOf(kind), space, q.p) /\ ExactSpace(q.p)
  BY <1>2, InstalledNarrows DEF Narrower
<1> HIDE DEF q
<1>4. ExactSpace(space') /\ Narrower(ModeOf(kind), q.p, space')
  <2>1. {} \in SUBSET Params
    OBVIOUS
  <2>2. QED
    BY <1>1, <1>3, <2>1, CmaskExact, ModeOfIs
<1>5. Narrower(ModeOf(kind), space, space')
  BY <1>2, <1>3, <1>4, NarrowerOn, ModeOfIs
<1>6. \A a \in asked : Granted(kind, space', a)
  BY <1>2, <1>5, GrantedNarrower DEF ParamsInv
<1>7. ~(trusted' /\ setup' = NoSetup /\ outcome' \in {"ok", "error"})
  BY <1>1
<1>8. kind' = kind /\ minperiodtime' = minperiodtime /\ asked' = asked
  BY <1>1
<1>9. QED
  BY <1>2, <1>4, <1>6, <1>7, <1>8 DEF ParamsInv

\* An application starts with a space that has all configurations of the PCM.
LEMMA InitHolds ==
  ASSUME Init
  PROVE  ParamsInv
<1>1. kind \in KindNames /\ minperiodtime \in Nat
  BY HwParamsAssumption DEF Init, HwParamsAssumption, KindNames
<1>2. PICK q : q = HwRefine(kind, AnySpace) /\ space = [q.p EXCEPT !.cmask = {}] /\ outcome = q.st
  BY DEF Init
<1>3. Leads(ModeOf(kind), Held(kind), AnySpace, q) /\ ExactSpace(q.p)
  BY <1>1, <1>2, AnySpaceExact, HwRefineLeads DEF KindNames, Leads, Narrower
<1>4. ExactSpace(space) /\ \A c : InSpace(c, space) <=> InSpace(c, q.p)
  <2>1. {} \in SUBSET Params
    OBVIOUS
  <2>2. QED
    BY <1>2, <1>3, <2>1, CmaskExact
<1>5. ASSUME NEW c \in Sample PROVE InSpace(c, AnySpace)
  <2>1. c \in Configurations /\ Possible(c)
    BY SampleIs
  <2>2. c.format \in AnySpace.format
    BY <2>1 DEF Configurations, AnySpace
  <2>3. ASSUME NEW var \in Vars PROVE Holds(AnySpace.ivl[var], Value(c, var)[1], Value(c, var)[2])
    <3>1. AnySpace.ivl[var] = Whole
      BY DEF AnySpace
    <3>2. Num(c, var) \in Nat /\ Den(c, var) \in Nat \ {0}
      BY SampleIs, ValueType
    <3>3. Value(c, var)[1] < UintMax * Value(c, var)[2]
      BY <2>1 DEF Possible
    <3>4. PICK n, d : n = Value(c, var)[1] /\ d = Value(c, var)[2] /\ n \in Nat /\ d \in Nat \ {0} /\ n < UintMax * d
      BY <3>2, <3>3 DEF Num, Den
    <3>5. UintMax * d \in Nat /\ 0 * d = 0
      BY <3>4, UintMaxAssumption DEF UintMaxAssumption
    <3>6. Holds(Whole, n, d)
      BY <3>4, <3>5 DEF Holds, Whole, Above, Below
    <3>7. QED
      BY <3>1, <3>4, <3>6
  <2>4. QED
    BY <2>2, <2>3 DEF InSpace
<1>6. Spared(kind, space, asked)
  BY <1>3, <1>4, <1>5 DEF Spared, Leads, Held
<1>7. asked = {}
  BY DEF Init
<1>8. QED
  BY <1>1, <1>4, <1>6, <1>7 DEF ParamsInv

\* So every step keeps it.
LEMMA NextKeeps ==
  ASSUME ParamsInv, [Next]_vars
  PROVE  ParamsInv'
<1>1. CASE UNCHANGED vars
  BY <1>1 DEF vars, ParamsInv
<1>2. CASE Next
  BY <1>2, SetValueKeeps, SetMinKeeps, SetMaxKeeps, SetMinMaxKeeps, SetIntegerOnlyKeeps, SetFormatKeeps,
     SetNearKeeps, SetFirstKeeps, SetLastKeeps, InstallKeeps DEF Next
<1>3. QED
  BY <1>1, <1>2

\* Every sequence of calls keeps the space exact, within what has been granted, and
\* in possession of every configuration that fits.
THEOREM ParamsHold == Spec => []ParamsInv
BY InitHolds, NextKeeps, PTL DEF Spec

\* No configuration is lost that the PCM has and that fits all that calls have asked
\* for (NothingLost): for every width of the bounds, table of formats, slave, sequence
\* of calls and sample of configurations.
THEOREM NothingLostHolds == Spec => []NothingLost
<1>1. ParamsInv => NothingLost
  BY DEF ParamsInv, Spared, NothingLost, Held
<1>2. QED
  BY <1>1, ParamsHold, PTL

\* What a call was granted holds of every later space and of the configuration that
\* is installed, however the later calls fail (GrantedStays).
THEOREM GrantedStaysHolds == Spec => []GrantedStays
<1>1. ASSUME ParamsInv PROVE GrantedStays
  <2> SUFFICES ASSUME NEW a \in asked
               PROVE  IF a.var = "FORMAT" THEN \A f \in space.format : InBounds(a.range, <<f, 1>>)
                      ELSE \/ space.ivl[a.var].empty \/ space.ivl[a.var].lifted
                           \/ Contained(space.ivl[a.var], IF kind = "rate" /\ a.var = "PERIOD_SIZE"
                                                          THEN [a.range EXCEPT !.openmin = FALSE, !.openmax = FALSE]
                                                          ELSE a.range)
    BY DEF GrantedStays
  <2>1. Granted(kind, space, a)
    BY <1>1 DEF ParamsInv
  <2>2. CASE a.var = "FORMAT"
    BY <2>1, <2>2 DEF Granted
  <2>3. CASE a.var # "FORMAT"
    <3> DEFINE i == space.ivl[a.var]
               b == a.range
               closed == [b EXCEPT !.openmin = FALSE, !.openmax = FALSE]
    <3>1. Ranged(b) /\ a.var \in Vars /\ Meets(ModeFor(ModeOf(kind), a.var), i, b)
      BY <2>1, <2>3 DEF Granted
    <3>2. CASE kind = "rate" /\ a.var = "PERIOD_SIZE"
      <4>1. ModeFor(ModeOf(kind), a.var) = "loose"
        BY <3>2 DEF ModeFor, ModeOf
      <4>2. i.empty \/ i.lifted \/ (b.min <= i.min /\ i.max <= b.max)
        BY <3>1, <4>1 DEF Meets
      <4>3. i.min \in Int /\ i.max \in Int /\ b.min \in Int /\ b.max \in Int
        BY <1>1, <3>1 DEF ParamsInv, ExactSpace, Exact, Interval, Bound, Ranged
      <4>4. closed.min = b.min /\ closed.max = b.max
        OBVIOUS
      <4>5. b.min <= i.min /\ i.max <= b.max => Contained(i, closed)
        BY <4>3, <4>4 DEF Contained
      <4>6. QED
        BY <2>3, <3>2, <4>2, <4>5
    <3>3. CASE ~(kind = "rate" /\ a.var = "PERIOD_SIZE")
      <4>1. ModeFor(ModeOf(kind), a.var) = "strict"
        BY <3>3 DEF ModeFor, ModeOf
      <4>2. i.empty \/ i.lifted \/ Contained(i, b)
        BY <3>1, <4>1 DEF Meets
      <4>3. QED
        BY <2>3, <3>3, <4>2
    <3>4. QED
      BY <3>2, <3>3
  <2>4. QED
    BY <2>2, <2>3
<1>2. QED
  BY <1>1, ParamsHold, PTL
=============================================================================
