------------------------------ MODULE HwParams ------------------------------
(***************************************************************************)
(* An application choosing the parameters of a PCM (pcm_params.c, the      *)
(* snd_pcm_hw_params_*() calls of pcm.c): it starts from the whole space   *)
(* the PCM has, narrows it by a sequence of calls, any of which may fail,  *)
(* and installs one configuration of what is left.                         *)
(*                                                                         *)
(* The calls work on the application's own hw_params and are atomic; what  *)
(* is hard in them is the order they come in.  The set calls are the ones  *)
(* of the interface, which ask for SND_TRY: on failure they put the space  *)
(* back.  first, last and near do not.                                     *)
(***************************************************************************)
EXTENDS HwRefine

CONSTANTS
  Kinds,      \* the kinds of PCM to look at
  Requests,   \* the calls the application may make
  MaxCalls,   \* and how many of them, for each kind
  MinPeriodTimes, \* defaults.pcm.minperiodtime, for each kind; 0 for none
  Sample      \* configurations with whole sizes, to measure the spaces by

ASSUME HwParamsAssumption ==
  /\ Kinds \subseteq {"null", "direct", "rate"}
  /\ MinPeriodTimes \in [Kinds -> SUBSET Nat]
  /\ \A r \in Requests :
       IF r.op = "format" THEN r.val \in Nat
       ELSE /\ r.var \in Vars /\ r.val \in Bound /\ r.dir \in Int
            /\ r.op = "minmax" => r.max \in Bound
  /\ \A c \in Sample : Possible(c)

VARIABLES
  kind,       \* the kind of the PCM
  minperiodtime,  \* the period time installing prefers to exceed
  space,      \* the application's hw_params
  asked,      \* what calls that succeeded have asked for: parameters and ranges
  trusted,    \* no call that leaves the space changed has failed, and none
              \* that asks for a range without a number in it has succeeded,
              \* or has installed nothing
  calls,      \* the number of calls made
  outcome,    \* how the last call ended
  setup,      \* what the PCM has taken from the installed configuration
  slaveSetup  \* and what a rate PCM's slave has

vars == <<kind, minperiodtime, space, asked, trusted, calls, outcome, setup, slaveSetup>>

-----------------------------------------------------------------------------
(* The calls.                                                              *)

\* What all of them do after the change itself: refine when anything is marked.
Refined(k, q) ==
  IF q.st = "ok" /\ q.p.rmask # {} THEN HwRefine(k, q.p) ELSE q

\* SND_TRY.
Restored_Bug(p, q) == q
Restored(p, q) == IF q.st = "error" THEN Error(p) ELSE q

\* set_min and set_max find out when refining has emptied the parameter.
Noticed(q, var) ==
  IF q.st = "ok" /\ q.p.ivl[var].empty THEN Error(q.p) ELSE q
ChangeMin(k, p, var, val, dir) == Noticed(Refined(k, PutMin(p, var, val, dir)), var)
ChangeMax(k, p, var, val, dir) == Noticed(Refined(k, PutMax(p, var, val, dir)), var)

\* set_minmax reads the bounds when refining did not fail; the getters assert
\* that there are any.
ChangeMinMax(k, p, var, min, mindir, max, maxdir) ==
  LET Read(q) == IF q.st = "ok" /\ q.p.ivl[var].empty THEN Abort(q.p) ELSE q
  IN Read(Refined(k, PutMinMax(p, var, min, mindir, max, maxdir)))

\* Setting a format.
ChangeFormat(k, p, format) ==
  LET left == p.format \intersect {format}
      q    == [p EXCEPT !.format = left]
  IN IF left = {} THEN Error(Marked(q, "FORMAT"))
     ELSE Refined(k, Ok(IF Cardinality(p.format) = 1 THEN q ELSE Marked(q, "FORMAT")))

\* first and last end with reading the one value that must be left.
GetOne(q, var) ==
  IF q.st = "ok" /\ (q.p.ivl[var].empty \/ ~Single(q.p.ivl[var])) THEN Error(q.p) ELSE q
ChangeTo(k, p, var, i) ==
  IF i.empty THEN Error(p) ELSE GetOne(Refined(k, Put(p, var, i, i # p.ivl[var])), var)
ChangeEnd(k, p, var, end) ==
  ChangeTo(k, p, var, IF end = "last" THEN RefineLast(p.ivl[var]) ELSE RefineFirst(p.ivl[var]))
ChangeFirst(k, p, var) == ChangeEnd(k, p, var, "first")
ChangeLast(k, p, var)  == ChangeEnd(k, p, var, "last")
ChangeFirstFormat(k, p) ==
  LET Read(q) == IF q.st = "ok" /\ q.p.format = {} THEN Error(q.p) ELSE q
  IN IF p.format = {} THEN Error(p) ELSE Read(ChangeFormat(k, p, Min(p.format)))

\* set_integer.
ChangeInteger(k, p, var) ==
  LET i == p.ivl[var]
  IN Refined(k, Put(p, var, SetInteger(i), ~i.integer))

-----------------------------------------------------------------------------
(* Distances between bounds, where a direction says that a number lies     *)
(* between a bound and the next one on that side (boundary_sub, _lt and    *)
(* _nearer).                                                               *)

Sign(n) == IF n < 0 THEN -1 ELSE IF n > 0 THEN 1 ELSE 0
Bounded(n, dir) == [n |-> n, dir |-> dir]
BoundarySub(a, b) ==
  LET dir == Sign(a.dir) - Sign(b.dir)
  IN Bounded(a.n - b.n + (IF dir = -2 THEN -1 ELSE IF dir = 2 THEN 1 ELSE 0), dir)
BoundaryLt(a, b) ==
  LET Raised(x) == IF x.dir < 0 THEN Bounded(x.n - 1, 1) ELSE Bounded(x.n, Sign(x.dir))
      x == Raised(a)
      y == Raised(b)
  IN x.n < y.n \/ (x.n = y.n /\ x.dir < y.dir)
Nearer_Bug(below, best, above) ==
  BoundaryLt(BoundarySub(above, best), BoundarySub(best, below))
Nearer(below, best, above) ==
  BoundaryLt(BoundarySub(best, below), BoundarySub(above, best))

Lowest(i)  == Bounded(i.min, IF i.openmin THEN 1 ELSE 0)
Highest(i) == Bounded(i.max, IF i.openmax THEN -1 ELSE 0)

\* set_near: up from val, and down from just below it, and the nearer of the
\* two.  That nothing is left upwards is forgotten if var itself is one value,
\* and that nothing is left downwards whenever something is upwards.  A way is
\* the space to go on from and the end to go to, or "none".
NearerWay(up, down, var, wanted) ==
  LET IsNearer == Nearer(Highest(down.p.ivl[var]), wanted, Lowest(up.p.ivl[var]))
      upwards  == \/ down.st = "error"
                  \/ down.st = "ok" /\ ~IsNearer
  IN IF up.st = "ok" /\ upwards THEN <<up, "first">>
     ELSE IF down.st = "ok" THEN <<down, "last">>
     ELSE <<down, "none">>
Way(k, p, var, val, dir, up) ==
  LET i      == up.p.ivl[var]
      wanted == Bounded(val, dir)
      lower  == Bounded(IF dir < 0 THEN Down(val) ELSE val,
                        IF dir > 0 THEN 0 ELSE IF dir = 0 THEN -1 ELSE 1)
  IN IF up.st \notin {"ok", "error"} THEN <<up, "none">>
     ELSE IF up.st = "error" /\ up.p.junk THEN <<Undefined(up.p), "none">>
     ELSE IF ~i.empty /\ Single(i) THEN <<Ok(up.p), "none">>
     ELSE IF up.st = "ok" /\ Lowest(i) = wanted THEN <<up, "first">>
     ELSE NearerWay(up, ChangeMax(k, p, var, lower.n, lower.dir), var, wanted)
Followed(k, var, way) ==
  IF way[2] = "none" THEN way[1] ELSE ChangeEnd(k, way[1].p, var, way[2])
ChangeNear(k, p, var, val, dir) ==
  Followed(k, var, Way(k, p, var, val, dir, ChangeMin(k, p, var, val, dir)))

-----------------------------------------------------------------------------
(* Installing a configuration.                                             *)

\* Choosing prefers periods longer than minperiodtime if the space has some; what
\* comes of asking for them is not looked at, nor is it taken back.
LongPeriods(k, p) ==
  LET i == p.ivl["PERIOD_TIME"]
      Unlooked(q) == IF q.st # "error" THEN q
                     ELSE IF q.p.junk THEN Undefined(q.p) ELSE Ok(q.p)
  IN IF minperiodtime = 0 THEN Ok(p)
     ELSE IF i.empty THEN Abort(p)
     ELSE IF ~(i.min < minperiodtime /\ minperiodtime < i.max) THEN Ok(p)
     ELSE Unlooked(ChangeMin(k, p, "PERIOD_TIME", minperiodtime, 1))

\* snd_pcm_hw_params_choose(): the ends of the space, one parameter after the
\* other, until one fails.
ChooseOne(k, p, end, var) ==
  IF var = "FORMAT" THEN ChangeFirstFormat(k, p)
  ELSE IF end = "long" THEN LongPeriods(k, p)
  ELSE ChangeEnd(k, p, var, end)
Choose(k, p) ==
  FoldLeft(LAMBDA s, c : IF s.st = "ok" THEN ChooseOne(k, s.p, c[1], c[2]) ELSE s, Ok(p),
    << <<"first", "FORMAT">>, <<"first", "CHANNELS">>, <<"first", "RATE">>,
       <<"long", "PERIOD_TIME">>, <<"last", "BUFFER_SIZE">>,
       <<"first", "PERIOD_SIZE">>, <<"first", "PERIOD_TIME">> >>)

Unset == -1
SetupVars == {"CHANNELS", "RATE", "PERIOD_TIME", "PERIOD_SIZE", "BUFFER_SIZE"}
NoSetup == [var \in SetupVars |-> Unset]

\* What a getter finds: a value, or an error that is not looked at and leaves
\* the field as it is.
Taken(p) ==
  [var \in SetupVars |->
     LET i == p.ivl[var] IN IF ~i.empty /\ Single(i) THEN i.min ELSE Unset]

\* The part of _snd_pcm_hw_params_internal() up to the operation of the PCM.
\* That choosing failed is not looked at.
Chosen(k, p) ==
  LET Unlooked(q) == IF q.st = "error" THEN Ok(q.p) ELSE q
  IN Then(HwRefine(k, p), LAMBDA q : Unlooked(Choose(k, q)))

\* snd_pcm_rate_hw_params(): the slave is given what corresponds to the chosen
\* configuration, which is asserted to exist, and installs its own.
RateSlaveChosen(p) ==
  LET Asserted(q) == IF q.st = "error" THEN Abort(p) ELSE q
  IN Then(Asserted(ToSlave(p, RateSlaveSpace)), LAMBDA q : Chosen("direct", q))
RateNeeds == {"CHANNELS", "RATE", "PERIOD_SIZE", "BUFFER_SIZE"}

\* The whole installation: [st, p, setup, slave].
Ends(st, p, slaveTaken) ==
  [st |-> st, p |-> p, slave |-> slaveTaken, setup |-> IF st = "ok" THEN Taken(p) ELSE NoSetup]
EndsWithSlave(p, slave) ==
  LET known == Cardinality(p.format) = 1 /\ \A var \in RateNeeds : Taken(p)[var] # Unset
  IN IF slave.st = "ok" THEN Ends(IF known THEN "ok" ELSE "error", p, Taken(slave.p))
     ELSE IF slave.st = "error" THEN Ends("error", ToClient(p, slave.p).p, NoSetup)
     ELSE Ends(slave.st, p, NoSetup)
EndsChosen(k, q) ==
  IF q.st = "ok" /\ k = "rate" THEN EndsWithSlave(q.p, RateSlaveChosen(q.p))
  ELSE Ends(q.st, q.p, NoSetup)
Installed(k, p) == EndsChosen(k, Chosen(k, p))

-----------------------------------------------------------------------------
(* The application.                                                        *)

\* The range a successful call has asked for, as a plain pair of bounds.
Bounds(min, openmin, max, openmax) ==
  [min |-> min, openmin |-> openmin, max |-> max, openmax |-> openmax]
AtLeast(val, dir) ==
  IF dir < 0 /\ val > 0 THEN Bounds(val - 1, TRUE, UintMax, FALSE)
  ELSE IF dir > 0 THEN Bounds(val, TRUE, UintMax, FALSE)
  ELSE Bounds(val, FALSE, UintMax, FALSE)
AtMost(val, dir) ==
  IF dir = 0 THEN Bounds(0, FALSE, val, FALSE)
  ELSE IF dir < 0 THEN Bounds(0, FALSE, val, TRUE)
  ELSE Bounds(0, FALSE, val + 1, TRUE)
Exactly(val, dir) ==
  IF dir = 0 THEN Bounds(val, FALSE, val, FALSE)
  ELSE IF dir < 0 THEN Bounds(val - 1, TRUE, val, TRUE)
  ELSE Bounds(val, TRUE, val + 1, TRUE)
\* The answer of first, last and near: a value, or the numbers past it.
Answered(i) ==
  IF i.min = i.max THEN Bounds(i.min, FALSE, i.min, FALSE)
  ELSE Bounds(i.min, i.openmin, i.min + 1, TRUE)
Asks(var, range) == [var |-> var, range |-> range, near |-> Unset, whole |-> FALSE]
AsksWhole(var) == [Asks(var, Bounds(0, FALSE, UintMax, FALSE)) EXCEPT !.whole = TRUE]
AsksNear(var, range, val) == [Asks(var, range) EXCEPT !.near = val]

Init ==
  /\ kind \in Kinds
  /\ minperiodtime \in MinPeriodTimes[kind]
  /\ \E q \in {HwRefine(kind, AnySpace)} :
       space = [q.p EXCEPT !.cmask = {}] /\ outcome = q.st
  /\ asked = {}
  /\ trusted = TRUE
  /\ calls = 0
  /\ setup = NoSetup
  /\ slaveSetup = NoSetup

Ready == outcome \in {"ok", "error"} /\ setup = NoSetup

\* A call ends as q and, if that is well, has asked for what is in want.
Call(q, want, restores) ==
  LET r == IF restores THEN Restored(space, q) ELSE q
  IN /\ Ready
     /\ calls < MaxCalls[kind]
     /\ calls' = calls + 1
     /\ space' = [r.p EXCEPT !.cmask = {}]
     /\ outcome' = r.st
     /\ asked' = IF r.st = "ok" THEN asked \union want ELSE asked
     /\ trusted' = (trusted /\ IF r.st = "ok" THEN \A a \in want : ~CheckEmpty(a.range)
                               ELSE r.st = "error" => restores)
     /\ UNCHANGED <<kind, minperiodtime, setup, slaveSetup>>

SetValue(r) ==
  /\ r.op = "set"
  /\ Call(Refined(kind, PutValue(space, r.var, r.val, r.dir)),
          {Asks(r.var, Exactly(r.val, r.dir))}, TRUE)

SetMin(r) ==
  /\ r.op = "min"
  /\ Call(ChangeMin(kind, space, r.var, r.val, r.dir),
          {Asks(r.var, AtLeast(r.val, r.dir))}, TRUE)

SetMax(r) ==
  /\ r.op = "max"
  /\ Call(ChangeMax(kind, space, r.var, r.val, r.dir),
          {Asks(r.var, AtMost(r.val, r.dir))}, TRUE)

SetMinMax(r) ==
  /\ r.op = "minmax"
  /\ Call(ChangeMinMax(kind, space, r.var, r.val, r.dir, r.max, 0),
          {Asks(r.var, AtLeast(r.val, r.dir)), Asks(r.var, AtMost(r.max, 0))}, TRUE)

SetIntegerOnly(r) ==
  /\ r.op = "integer"
  /\ Call(ChangeInteger(kind, space, r.var), {AsksWhole(r.var)}, TRUE)

SetFormat(r) ==
  /\ r.op = "format"
  /\ Call(ChangeFormat(kind, space, r.val), {Asks("FORMAT", Exactly(r.val, 0))}, TRUE)

SetNear(r) ==
  /\ r.op = "near"
  /\ \E q \in {ChangeNear(kind, space, r.var, r.val, r.dir)} :
       Call(q, {AsksNear(r.var, Answered(q.p.ivl[r.var]), r.val)}, FALSE)

SetFirst(r) ==
  /\ r.op = "first"
  /\ \E q \in {ChangeFirst(kind, space, r.var)} :
       Call(q, {Asks(r.var, Answered(q.p.ivl[r.var]))}, FALSE)

SetLast(r) ==
  /\ r.op = "last"
  /\ \E q \in {ChangeLast(kind, space, r.var)} :
       Call(q, {Asks(r.var, Answered(q.p.ivl[r.var]))}, FALSE)

\* snd_pcm_hw_params().
Install ==
  /\ Ready
  /\ \E q \in {Installed(kind, space)} :
       /\ space' = [q.p EXCEPT !.cmask = {}]
       /\ outcome' = q.st
       /\ setup' = q.setup
       /\ slaveSetup' = q.slave
       /\ trusted' = (trusted /\ q.st # "error" /\ (q.st = "ok" => q.setup # NoSetup))
  /\ calls' = MaxCalls[kind]
  /\ UNCHANGED <<kind, minperiodtime, asked>>

Next ==
  \/ \E r \in Requests :
       \/ SetValue(r) \/ SetMin(r) \/ SetMax(r) \/ SetMinMax(r) \/ SetIntegerOnly(r)
       \/ SetFormat(r) \/ SetNear(r) \/ SetFirst(r) \/ SetLast(r)
  \/ Install

Spec == Init /\ [][Next]_vars

-----------------------------------------------------------------------------
(* Properties are measured by configurations.                              *)

\* A range, as a call asks for it, has the number x.
InBounds(b, x) == Above(b.min, b.openmin, x[1], x[2]) /\ Below(b.max, b.openmax, x[1], x[2])

\* A configuration is one of those that a call has asked for.
Fits(c, a) ==
  /\ InBounds(a.range, Value(c, a.var))
  /\ a.whole => Value(c, a.var)[1] % Value(c, a.var)[2] = 0

\* The configurations a kind of PCM really has.
Has(k, c) ==
  LET same == c.format = Slave.format /\ c.channels = Slave.channels
  IN CASE k = "null" -> TRUE
       [] k = "direct" -> /\ same /\ c.rate = Slave.rate /\ c.period_size = Slave.period_size
                          /\ c.periods \in IF MaxPeriods < 0 THEN {Slave.periods} ELSE 2 .. MostPeriods
       [] k = "rate" -> /\ same /\ c.rate \in RateMin .. RateMax
                        /\ c.period_size * Slave.rate = Slave.period_size * c.rate
                        /\ c.periods \in 2 .. Slave.periods

-----------------------------------------------------------------------------
(* Properties.                                                             *)

\* The types; a range of integers has closed bounds and one without a number in it is
\* flagged, however it came about.
TypeOK ==
  /\ kind \in Kinds /\ minperiodtime \in MinPeriodTimes[kind]
  /\ space \in Spaces
  /\ \A var \in Vars :
       LET i == space.ivl[var]
       IN /\ i.integer => ~i.openmin /\ ~i.openmax
          /\ CheckEmpty(i) => i.empty
  /\ trusted \in BOOLEAN
  /\ outcome \in {"ok", "error", "abort", "undefined", "endless"}
  /\ setup \in [SetupVars -> Bound \union {Unset}]
  /\ slaveSetup \in [SetupVars -> Bound \union {Unset}]

\* A bound has wrapped, see interval.c:146; SomethingLeft says that none does.
Lifted(p) == \E var \in Vars : p.ivl[var].lifted

\* No configuration is lost that the PCM has and that meets everything asked for:
\* the rules only take away what cannot be, although they look at one parameter
\* after the other and round to the bounds of intervals.
NothingLost ==
  trusted /\ setup = NoSetup /\ outcome \in {"ok", "error"} /\ kind # "rate" /\ ~Lifted(space) =>
    \A c \in Sample :
      Has(kind, c) /\ (\A a \in asked : Fits(c, a)) => InSpace(c, space)

\* i lies within the bounds b.
Contained(i, b) ==
  /\ i.min > b.min \/ (i.min = b.min /\ (b.openmin => i.openmin))
  /\ i.max < b.max \/ (i.max = b.max /\ (b.openmax => i.openmax))

\* What a call was granted stays granted, whatever later calls ask for and however
\* they fail, and holds of the configuration that is installed.  A rate PCM may take
\* the very bound of an open period size, see WholePeriod.
GrantedStays ==
  \A a \in asked :
    IF a.var = "FORMAT" THEN \A f \in space.format : InBounds(a.range, <<f, 1>>)
    ELSE \/ space.ivl[a.var].empty \/ space.ivl[a.var].lifted
         \/ Contained(space.ivl[a.var], IF kind = "rate" /\ a.var = "PERIOD_SIZE"
                                        THEN [a.range EXCEPT !.openmin = FALSE, !.openmax = FALSE]
                                        ELSE a.range)

\* The rules have settled: applying any of them once more changes nothing.
RulesSettled ==
  trusted /\ setup = NoSetup /\ kind # "rate" =>
    \A k \in DOMAIN Rules : Applied(space, Rules[k]).p = space

\* set_near takes the nearest: no configuration in the space before the call has a
\* value of the parameter that is nearer to the one wanted than all it answers.
Gap(b, x) == IF InBounds(b, <<x, 1>>) THEN 0 ELSE IF b.min >= x THEN b.min - x ELSE x - b.max
Away(x, n) == IF x[1] >= n * x[2] THEN x[1] - n * x[2] ELSE n * x[2] - x[1]
NearestTaken ==
  [][\A a \in asked' \ asked :
       trusted /\ a.near # Unset =>
         \A c \in Sample :
           InSpace(c, space) =>
             Away(Value(c, a.var), a.near) >= Gap(a.range, a.near) * Value(c, a.var)[2]]_vars

\* A call that succeeds leaves at least one value for every parameter, none ends in
\* an assertion or goes on with uninitialised memory (a rate PCM breaks both, by
\* WholePeriod, which no rule checks), and an installed configuration is known to the
\* last field although nobody looks at how choosing it ended (LongPeriods breaks
\* this, and empties the space, where period times are free to be chosen).
SomethingLeft ==
  LET preferring == kind = "null" /\ minperiodtime # 0
  IN trusted =>
       /\ ~Lifted(space) /\ outcome # "endless"
       /\ kind # "rate" =>
            /\ outcome \in {"ok", "error"}
            /\ \A var \in Vars : space.ivl[var].empty => preferring /\ setup # NoSetup
       /\ setup # NoSetup /\ ~preferring => \A var \in SetupVars : setup[var] # Unset

\* Whatever calls led there, the periods of an installed rate PCM and of its slave last
\* equally long and the slave's buffer no less than the client's, but for the part of
\* a frame that rounding takes: the converter turns one period into one period.
SlaveAgrees ==
  slaveSetup # NoSetup /\ setup # NoSetup =>
    LET frame == setup["RATE"] + slaveSetup["RATE"]
        Longer(size) == setup[size] * slaveSetup["RATE"] - slaveSetup[size] * setup["RATE"]
    IN /\ setup["PERIOD_TIME"] = slaveSetup["PERIOD_TIME"]
       /\ Longer("PERIOD_SIZE") \in -frame .. frame
       /\ Longer("BUFFER_SIZE") <= frame
=============================================================================
