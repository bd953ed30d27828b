------------------------------ MODULE Interval ------------------------------
(***************************************************************************)
(* The intervals a configuration space is made of (interval.c and          *)
(* interval_inline.h): a range of the rational numbers between two         *)
(* unsigned bounds, each open or closed, that may be limited to integers.  *)
(*                                                                         *)
(* An operator here gives the interval that a function of interval.c       *)
(* leaves in its argument.  A function returns a negative error exactly    *)
(* when the interval it leaves is empty; whether it returns 1 or 0 is what *)
(* the operators ending in "Changes" say.  The field lifted only observes: *)
(* min++ or max-- has wrapped, so that the interval may have become wider. *)
(***************************************************************************)
EXTENDS Integers

CONSTANT UintMax    \* the code's UINT_MAX: 2^w - 1 for the width in use

ASSUME UintMaxAssumption == UintMax \in Nat \ {0, 1}

Bound == 0 .. UintMax

\* snd_interval_t.
Interval == [min : Bound, max : Bound, openmin : BOOLEAN, openmax : BOOLEAN,
             integer : BOOLEAN, empty : BOOLEAN, lifted : BOOLEAN]

\* min++ and max-- on an unsigned int, which wrap.
Up(n)   == IF n = UintMax THEN 0 ELSE n + 1
Down(n) == IF n = 0 THEN UintMax ELSE n - 1

Whole == [min |-> 0, max |-> UintMax, openmin |-> FALSE, openmax |-> FALSE,
          integer |-> FALSE, empty |-> FALSE, lifted |-> FALSE]
Closed(min, max, integer) ==
  [Whole EXCEPT !.min = min, !.max = max, !.integer = integer]
Between(min, max) ==
  [Closed(min, max, FALSE) EXCEPT !.openmin = TRUE, !.openmax = TRUE]
None(i) == [i EXCEPT !.empty = TRUE]

\* snd_interval_checkempty() looks at the bounds, not at the flag.
CheckEmpty(i) ==
  i.min > i.max \/ (i.min = i.max /\ (i.openmin \/ i.openmax))

\* i->min + 1 == i->max is computed in an unsigned int too.
Single(i) == i.min = i.max \/ (Up(i.min) = i.max /\ i.openmax)

\* snd_interval_test() does not look at the flags integer and empty.
Test(i, n) ==
  /\ IF i.openmin THEN i.min < n ELSE i.min <= n
  /\ IF i.openmax THEN n < i.max ELSE n <= i.max

-----------------------------------------------------------------------------
(* Narrowing.                                                              *)

RaiseMin(i, min, openmin) ==
  IF i.min < min THEN [i EXCEPT !.min = min, !.openmin = openmin]
  ELSE IF i.min = min /\ openmin THEN [i EXCEPT !.openmin = TRUE]
  ELSE i

LowerMax(i, max, openmax) ==
  IF i.max > max THEN [i EXCEPT !.max = max, !.openmax = openmax]
  ELSE IF i.max = max /\ openmax THEN [i EXCEPT !.openmax = TRUE]
  ELSE i

\* An integer interval has closed bounds.
CloseMin(i) ==
  IF i.integer /\ i.openmin
  THEN [i EXCEPT !.min = Up(@), !.openmin = FALSE, !.lifted = @ \/ i.min = UintMax] ELSE i
CloseMax_Bug(i) == i
CloseMax(i) ==
  IF i.integer /\ i.openmax
  THEN [i EXCEPT !.max = Down(@), !.openmax = FALSE, !.lifted = @ \/ i.max = 0] ELSE i

Flagged(i) == IF CheckEmpty(i) THEN None(i) ELSE i

RefineMin_Bug(i, min, openmin) ==
  IF i.empty THEN i ELSE Flagged(CloseMin([i EXCEPT !.min = min, !.openmin = openmin]))
RefineMin(i, min, openmin) ==
  IF i.empty THEN i ELSE Flagged(CloseMin(RaiseMin(i, min, openmin)))
RefineMinChanges(i, min, openmin) == RaiseMin(i, min, openmin) # i

RefineMax(i, max, openmax) ==
  IF i.empty THEN i ELSE Flagged(CloseMax(LowerMax(i, max, openmax)))
RefineMaxChanges(i, max, openmax) == LowerMax(i, max, openmax) # i

\* One closed point is an integer.
KnowInteger(i) ==
  IF ~i.openmin /\ ~i.openmax /\ i.min = i.max
  THEN [i EXCEPT !.integer = TRUE] ELSE i

\* snd_interval_refine(): i becomes i /\ v.  That v is empty is not looked at.
Meet(i, v) ==
  [LowerMax(RaiseMin(i, v.min, v.openmin), v.max, v.openmax)
     EXCEPT !.integer = @ \/ v.integer]
Refine(i, v) ==
  IF i.empty THEN i ELSE Flagged(KnowInteger(CloseMax(CloseMin(Meet(i, v)))))
RefineChanges(i, v) == Meet(i, v) # i

\* refine_first and refine_last: what is left is one point or, past an open
\* bound, the numbers up to the next integer.
RefineFirst(i) ==
  IF i.empty \/ Single(i) THEN i
  ELSE [i EXCEPT !.max = IF i.openmin THEN Up(i.min) ELSE i.min,
                 !.openmax = i.openmin]
RefineLast(i) ==
  IF i.empty \/ Single(i) THEN i
  ELSE [i EXCEPT !.min = IF i.openmax THEN Down(i.max) ELSE i.max,
                 !.openmin = i.openmax]

\* snd_interval_setinteger() leaves open bounds for the next refine to close.
SetInteger(i) == [i EXCEPT !.integer = TRUE]

\* snd_interval_floor() and snd_interval_unfloor().
Floor(i) ==
  IF i.integer \/ i.empty THEN i
  ELSE [i EXCEPT !.openmin = FALSE, !.integer = TRUE, !.openmax = FALSE,
                 !.max = IF i.openmax THEN Down(@) ELSE @]
Unfloor(i) ==
  IF i.empty \/ i.max = UintMax \/ i.openmax THEN i
  ELSE [i EXCEPT !.max = @ + 1, !.openmax = TRUE, !.integer = FALSE]

-----------------------------------------------------------------------------
(* Arithmetic on intervals.  The code writes its result to an uninitialised*)
(* variable; with an empty argument it sets the flag empty there and       *)
(* nothing else.  Callers ask Defined before they use a result.            *)

Saturate(n) == IF n > UintMax THEN UintMax ELSE n

\* div32() and muldiv32(): a quotient, saturated, and whether anything is left.
Quotient(n, d)  == IF d = 0 THEN UintMax ELSE Saturate(n \div d)
Remains(n, d)   == d # 0 /\ n \div d < UintMax /\ n % d # 0

Mul(a, b) ==
  [min |-> Saturate(a.min * b.min), openmin |-> a.openmin \/ b.openmin,
   max |-> Saturate(a.max * b.max), openmax |-> a.openmax \/ b.openmax,
   integer |-> a.integer /\ b.integer, empty |-> FALSE, lifted |-> FALSE]

\* From the least and the greatest quotient, with the openness of their
\* operands: the minimum is rounded down, the maximum up.
Quotients_Bug(n, d, open, N, D, Open) ==
  [min |-> Quotient(n, d), openmin |-> Remains(n, d) \/ open,
   max |-> Quotient(N, D), openmax |-> Open,
   integer |-> FALSE, empty |-> FALSE, lifted |-> FALSE]
Quotients(n, d, open, N, D, Open) ==
  [min |-> Quotient(n, d), openmin |-> Remains(n, d) \/ open,
   max |-> Quotient(N, D) + (IF Remains(N, D) THEN 1 ELSE 0),
   openmax |-> Remains(N, D) \/ Open,
   integer |-> FALSE, empty |-> FALSE, lifted |-> FALSE]

\* a / b, a * k / b, a * b / k and a * b / c.
MulKDiv(a, k, b) ==
  Quotients(a.min * k, b.max, a.openmin \/ b.openmax,
            a.max * k, b.min, b.min # 0 /\ (a.openmax \/ b.openmin))
Div(a, b) == MulKDiv(a, 1, b)
MulDivK(a, b, k) ==
  Quotients(a.min * b.min, k, a.openmin \/ b.openmin,
            a.max * b.max, k, a.openmax \/ b.openmax)
MulDiv(a, b, c) ==
  Quotients(a.min * b.min, c.max, a.openmin \/ b.openmin \/ c.openmax,
            a.max * b.max, c.min, a.openmax \/ b.openmax \/ c.openmin)

Defined(a, b) == ~a.empty /\ ~b.empty

\* The assertion of muldiv32() that it does not divide nothing by nothing; only
\* the minimum of a quotient by an interval that is [0, 0] can break it.
Divides(a, b) == a.min > 0 \/ b.max > 0

-----------------------------------------------------------------------------
(* What the code never spells out: the numbers p / q that an interval has.  *)

Above(min, open, p, q) == IF open THEN min * q < p ELSE min * q <= p
Below(max, open, p, q) == IF open THEN p < max * q ELSE p <= max * q
Holds(i, p, q) ==
  /\ ~i.empty
  /\ Above(i.min, i.openmin, p, q)
  /\ Below(i.max, i.openmax, p, q)
  /\ i.integer => p % q = 0
=============================================================================
