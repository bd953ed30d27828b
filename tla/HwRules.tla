------------------------------ MODULE HwRules ------------------------------
(***************************************************************************)
(* Configuration spaces (snd_pcm_hw_params_t) and the table of rules that  *)
(* tie the parameters of a PCM together (pcm_params.c).  A space has a set *)
(* of formats and an interval for each other parameter; a rule narrows one *)
(* parameter by what two others allow.                                     *)
(*                                                                         *)
(* Access, subformat and tick time take part in no rule and are left out.  *)
(* A step gives [p |-> the space it leaves, st |-> how it ended]: "ok",    *)
(* "error", "abort" when an assertion fails, and "undefined" when it goes  *)
(* on with the uninitialised interval that arithmetic on an empty one      *)
(* leaves; then p.junk is TRUE.                                            *)
(***************************************************************************)
EXTENDS Interval, Sequences, FiniteSets, SequencesExt

CONSTANTS
  Width,        \* the physical width in bits of each format
  TimeUnit      \* periods and buffers last size * TimeUnit / rate (code: 1000000)

ASSUME HwRulesAssumption ==
  /\ DOMAIN Width \subseteq Nat
  /\ Width \in [DOMAIN Width -> 1 .. UintMax]
  /\ TimeUnit \in Nat \ {0}

Formats == DOMAIN Width

\* The parameters that are intervals.
Vars == {"SAMPLE_BITS", "FRAME_BITS", "CHANNELS", "RATE", "PERIOD_TIME",
         "PERIOD_SIZE", "PERIOD_BYTES", "PERIODS", "BUFFER_TIME",
         "BUFFER_SIZE", "BUFFER_BYTES"}
Params == Vars \union {"FORMAT"}

Spaces == [format : SUBSET Formats, ivl : [Vars -> Interval],
           rmask : SUBSET Params, cmask : SUBSET Params, junk : BOOLEAN]

\* _snd_pcm_hw_params_any().
AnySpace == [format |-> Formats, ivl |-> [v \in Vars |-> Whole],
             rmask |-> Params, cmask |-> {}, junk |-> FALSE]

Marked(p, var)   == [p EXCEPT !.rmask = @ \union {var}, !.cmask = @ \union {var}]
Changed(p, var)  == [p EXCEPT !.cmask = @ \union {var}]
Ok(p)            == [p |-> p, st |-> "ok"]
Error(p)         == [p |-> p, st |-> "error"]
Abort(p)         == [p |-> p, st |-> "abort"]
Undefined(p)     == [p |-> [p EXCEPT !.junk = TRUE], st |-> "undefined"]

\* A parameter's interval becomes i; the step fails if that is empty.
Narrowed(p, var, i) ==
  LET q == [p EXCEPT !.ivl[var] = i] IN IF i.empty THEN Error(q) ELSE Ok(q)

-----------------------------------------------------------------------------
(* The rules.                                                              *)

IntervalRule(var, op, a, b, k) == [var |-> var, op |-> op, deps |-> <<a, b>>, k |-> k]

\* refine_rules[].
Rules == <<
  [var |-> "FORMAT", op |-> "format", deps |-> <<"SAMPLE_BITS">>, k |-> 0],
  [var |-> "SAMPLE_BITS", op |-> "sample_bits",
   deps |-> <<"FORMAT", "SAMPLE_BITS">>, k |-> 0],
  IntervalRule("SAMPLE_BITS", "div", "FRAME_BITS", "CHANNELS", 0),
  IntervalRule("FRAME_BITS", "mul", "SAMPLE_BITS", "CHANNELS", 0),
  IntervalRule("FRAME_BITS", "mulkdiv", "PERIOD_BYTES", "PERIOD_SIZE", 8),
  IntervalRule("FRAME_BITS", "mulkdiv", "BUFFER_BYTES", "BUFFER_SIZE", 8),
  IntervalRule("CHANNELS", "div", "FRAME_BITS", "SAMPLE_BITS", 0),
  IntervalRule("RATE", "mulkdiv", "PERIOD_SIZE", "PERIOD_TIME", TimeUnit),
  IntervalRule("RATE", "mulkdiv", "BUFFER_SIZE", "BUFFER_TIME", TimeUnit),
  IntervalRule("PERIODS", "div", "BUFFER_SIZE", "PERIOD_SIZE", 0),
  IntervalRule("PERIOD_SIZE", "div", "BUFFER_SIZE", "PERIODS", 0),
  IntervalRule("PERIOD_SIZE", "mulkdiv", "PERIOD_BYTES", "FRAME_BITS", 8),
  IntervalRule("PERIOD_SIZE", "muldivk", "PERIOD_TIME", "RATE", TimeUnit),
  IntervalRule("BUFFER_SIZE", "mul", "PERIOD_SIZE", "PERIODS", 0),
  IntervalRule("BUFFER_SIZE", "mulkdiv", "BUFFER_BYTES", "FRAME_BITS", 8),
  IntervalRule("BUFFER_SIZE", "muldivk", "BUFFER_TIME", "RATE", TimeUnit),
  IntervalRule("PERIOD_BYTES", "muldivk", "PERIOD_SIZE", "FRAME_BITS", 8),
  IntervalRule("BUFFER_BYTES", "muldivk", "BUFFER_SIZE", "FRAME_BITS", 8),
  IntervalRule("PERIOD_TIME", "mulkdiv", "PERIOD_SIZE", "RATE", TimeUnit),
  IntervalRule("BUFFER_TIME", "mulkdiv", "BUFFER_SIZE", "RATE", TimeUnit) >>

\* The formats whose width the sample bits allow.
FormatRule(p) ==
  LET left == {f \in p.format : Test(p.ivl["SAMPLE_BITS"], Width[f])}
      q    == [p EXCEPT !.format = left]
  IN IF left = {} /\ p.format # {} THEN Error(q) ELSE Ok(q)
FormatRuleChanges(p) == FormatRule(p).p # p

\* From the least to the greatest width of the formats left.
Widths(p) == {Width[f] : f \in p.format}
LeastWidth(p)    == IF p.format = {} THEN UintMax ELSE Min(Widths(p))
GreatestWidth(p) == IF p.format = {} THEN 0 ELSE Max(Widths(p))
SampleBitsRule(p) ==
  LET i == RefineMin(p.ivl["SAMPLE_BITS"], LeastWidth(p), FALSE)
  IN Narrowed(p, "SAMPLE_BITS", RefineMax(i, GreatestWidth(p), FALSE))
SampleBitsRuleChanges(p) ==
  LET i == p.ivl["SAMPLE_BITS"]
  IN \/ RefineMinChanges(i, LeastWidth(p), FALSE)
     \/ RefineMaxChanges(RefineMin(i, LeastWidth(p), FALSE), GreatestWidth(p), FALSE)

\* What a rule on intervals says of its parameter.
Computed(p, r) ==
  LET a == p.ivl[r.deps[1]]
      b == p.ivl[r.deps[2]]
  IN CASE r.op = "mul"     -> Mul(a, b)
       [] r.op = "div"     -> Div(a, b)
       [] r.op = "mulkdiv" -> MulKDiv(a, r.k, b)
       [] r.op = "muldivk" -> MulDivK(a, b, r.k)

\* Each function of a rule: how it ends, and whether it returns other than 0.
Applied(p, r) ==
  LET i == p.ivl[r.var]
      a == p.ivl[r.deps[1]]
      b == p.ivl[r.deps[2]]
      Result(q, changes) == [p |-> q.p, st |-> q.st, changes |-> changes \/ q.st # "ok"]
  IN CASE r.op = "format" -> Result(FormatRule(p), FormatRuleChanges(p))
       [] r.op = "sample_bits" -> Result(SampleBitsRule(p), SampleBitsRuleChanges(p))
       [] r.op \in {"mul", "div", "mulkdiv", "muldivk"} ->
            IF ~Defined(a, b)
            THEN Result(IF i.empty THEN Error(p) ELSE Undefined(p), TRUE)
            ELSE IF r.op = "mulkdiv" /\ ~Divides(a, b)
            THEN Result(Abort(p), TRUE)
            ELSE LET t == Computed(p, r)
                 IN Result(Narrowed(p, r.var, Refine(i, t)), RefineChanges(i, t))

-----------------------------------------------------------------------------
(* Refining by the rules (snd_pcm_hw_refine_soft()).  The code stamps      *)
(* parameters and rules and applies a rule when a parameter it depends on  *)
(* has a newer stamp: stale is the set of the rules of which that is true. *)
(* A rule's own change does not make it stale again.                       *)

\* The parameters that are intervals, in the code's order.
VarOrder == <<"SAMPLE_BITS", "FRAME_BITS", "CHANNELS", "RATE", "PERIOD_TIME",
              "PERIOD_SIZE", "PERIOD_BYTES", "PERIODS", "BUFFER_TIME",
              "BUFFER_SIZE", "BUFFER_BYTES">>

\* The rules to apply when var has changed.
RulesOn_Bug(var) == {k \in DOMAIN Rules : var = Rules[k].deps[1]}
RulesOn(var) == {k \in DOMAIN Rules : var \in ToSet(Rules[k].deps)}

\* refine_intervals[].
Initial(var) ==
  Closed(IF var \in {"PERIOD_TIME", "PERIOD_SIZE", "PERIOD_BYTES", "PERIODS"} THEN 0 ELSE 1,
         UintMax,
         var \in {"SAMPLE_BITS", "FRAME_BITS", "CHANNELS", "BUFFER_SIZE", "BUFFER_BYTES"})

\* What was asked for is first limited to what can be.
Limit(s, var) ==
  LET i == s.p.ivl[var]
      Noted(q, changes) ==
        IF q.st # "ok" \/ changes THEN [q EXCEPT !.p = Changed(@, var)] ELSE q
  IN IF s.st # "ok" \/ var \notin s.p.rmask THEN s
     ELSE Noted(Narrowed(s.p, var, Refine(i, Initial(var))), RefineChanges(i, Initial(var)))
Limited(p) ==
  LET formats == IF "FORMAT" \in p.rmask /\ p.format = {}
                 THEN Error(Changed(p, "FORMAT")) ELSE Ok(p)
  IN FoldLeft(Limit, formats, VarOrder)

ApplyRule(s, k) ==
  LET After(q, var) ==
        [p |-> IF q.changes THEN Changed(q.p, var) ELSE q.p, st |-> q.st,
         stale |-> ((IF q.changes THEN RulesOn(var) ELSE {}) \union s.stale) \ {k}]
  IN After(Applied(s.p, Rules[k]), Rules[k].var)

\* What refinement starts from: the rules that depend on what was asked for.
Unsettled(p) ==
  LET Start(s) == [p |-> s.p, st |-> s.st, stale |-> UNION {RulesOn(var) : var \in p.rmask}]
  IN Start(Limited(p))

-----------------------------------------------------------------------------
(* Configurations, which the code never handles one by one.                *)

Configurations ==
  [format : Formats, channels : Nat \ {0}, rate : Nat \ {0},
   period_size : Nat \ {0}, periods : Nat \ {0}]

\* The value of a parameter in a configuration, as a fraction.
Value(c, var) ==
  LET bits == Width[c.format] * c.channels
      size == c.period_size * c.periods
  IN CASE var = "FORMAT"       -> <<c.format, 1>>
       [] var = "SAMPLE_BITS"  -> <<Width[c.format], 1>>
       [] var = "FRAME_BITS"   -> <<bits, 1>>
       [] var = "CHANNELS"     -> <<c.channels, 1>>
       [] var = "RATE"         -> <<c.rate, 1>>
       [] var = "PERIOD_TIME"  -> <<c.period_size * TimeUnit, c.rate>>
       [] var = "PERIOD_SIZE"  -> <<c.period_size, 1>>
       [] var = "PERIOD_BYTES" -> <<c.period_size * bits, 8>>
       [] var = "PERIODS"      -> <<c.periods, 1>>
       [] var = "BUFFER_TIME"  -> <<size * TimeUnit, c.rate>>
       [] var = "BUFFER_SIZE"  -> <<size, 1>>
       [] var = "BUFFER_BYTES" -> <<size * bits, 8>>

InSpace(c, p) ==
  /\ c.format \in p.format
  /\ \A var \in Vars : Holds(p.ivl[var], Value(c, var)[1], Value(c, var)[2])

\* The configurations that refinement can keep: within refine_intervals[], and
\* below the greatest bound, at which products saturate.
Possible(c) ==
  /\ c \in Configurations
  /\ \A var \in Vars : /\ Holds(Initial(var), Value(c, var)[1], Value(c, var)[2])
                        /\ Value(c, var)[1] < UintMax * Value(c, var)[2]
=============================================================================
