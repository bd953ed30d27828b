------------------------------ MODULE HwRefine ------------------------------
(***************************************************************************)
(* The refinement of configuration spaces: the fixpoint                    *)
(* snd_pcm_hw_refine_soft() computes with the rules, the refinement of a   *)
(* slave through a plugin, and the hw_refine operations of three kinds of  *)
(* PCM: null (the rules alone), direct (a dmix client: what the running    *)
(* slave has) and rate (sample rate conversion over a direct PCM).         *)
(***************************************************************************)
EXTENDS HwRules

CONSTANTS
  Slave,        \* [rate, format, channels, period_size, periods]: the direct PCM's
  MaxPeriods,   \* max_periods of the direct PCM's configuration
  RateMin, RateMax,   \* rate_min and rate_max of the rate PCM, 0 for none
  MaxPasses,    \* bounds of the model: MaxPasses times as many passes over the
  MaxRounds     \* rules, and rounds with a slave; the code loops until all is settled

ASSUME HwRefineAssumption ==
  /\ Slave \in [rate : 1 .. UintMax - 1, format : Formats, channels : 1 .. UintMax,
               period_size : 1 .. UintMax, periods : 1 .. UintMax]
  /\ Slave.period_size * Slave.periods <= UintMax
  /\ MaxPeriods \in Int /\ MaxPeriods <= UintMax
  /\ RateMin \in Bound /\ RateMax \in Bound
  /\ MaxPasses \in Nat /\ MaxRounds \in Nat

\* A step after another that must have succeeded: if (err < 0) return err.
Then(s, Step(_)) == IF s.st = "ok" THEN Step(s.p) ELSE s

\* n steps, of which each knows its number.
Repeated(Step(_, _), x, n) ==
  LET after[k \in 0 .. n] == IF k = 0 THEN x ELSE Step(after[k - 1], k)
  IN after[n]

-----------------------------------------------------------------------------
(* snd_pcm_hw_refine_soft(): the stale rules (HwRules) are applied in the  *)
(* order of the table, pass after pass, until none is left.  A refinement  *)
(* or a conversation with a slave longer than its bound ends as "endless". *)
Tried(s, k) == IF s.st = "ok" /\ k \in s.stale THEN ApplyRule(s, k) ELSE s

Pass(s) == IF s.stale = {} THEN s ELSE Repeated(Tried, s, Len(Rules))
Passes(s) ==
  IF s.stale = {} THEN s ELSE Repeated(LAMBDA t, n : Pass(t), s, MaxPasses)
Settled(s) == Repeated(LAMBDA t, n : Passes(t), s, MaxPasses)

RefineSoft(p) ==
  LET Answer(t) ==
        IF t.st = "ok" /\ t.stale = {} THEN Ok([t.p EXCEPT !.rmask = {}])
        ELSE [p |-> t.p, st |-> IF t.st = "ok" THEN "endless" ELSE t.st]
  IN Answer(Settled(Unsettled(p)))

-----------------------------------------------------------------------------
(* What the direct plugins leave to their clients.                         *)

\* The intervals of the running slave, kept in shmptr->hw.
SlaveSize == Slave.period_size * Slave.periods
SlaveTime(size) ==
  MulKDiv(Closed(size, size, TRUE), TimeUnit, Closed(Slave.rate, Slave.rate, TRUE))
SlaveHw(var) ==
  CASE var = "RATE"        -> Closed(Slave.rate, Slave.rate, TRUE)
    [] var = "PERIOD_SIZE" -> Closed(Slave.period_size, Slave.period_size, TRUE)
    [] var = "PERIOD_TIME" -> SlaveTime(Slave.period_size)
    [] var = "BUFFER_SIZE" -> Closed(SlaveSize, SlaveSize, TRUE)
    [] var = "BUFFER_TIME" -> SlaveTime(SlaveSize)

\* hw_param_interval_refine_one(): its result is never negative, and so an
\* interval it empties is not noticed here.
RefineOne(s, var, i) ==
  IF s.st # "ok" \/ var \notin s.p.rmask THEN s
  ELSE IF s.p.ivl[var].empty THEN Error(s.p)
  ELSE LET Noted(q, empty) ==
             Ok(IF empty \/ RefineChanges(s.p.ivl[var], i) THEN Changed(q, var) ELSE q)
           Becomes(j) == Noted([s.p EXCEPT !.ivl[var] = j], j.empty)
       IN Becomes(Refine(s.p.ivl[var], i))

RefineSlaveHw(s, vars) ==
  FoldLeft(LAMBDA t, var : RefineOne(t, var, SlaveHw(var)), s, vars)

\* Setting a format the mask does not have empties it unnoticed too.
DirectFormat(p) ==
  IF "FORMAT" \notin p.rmask THEN Ok(p)
  ELSE IF p.format = {} THEN Error(p)
  ELSE LET q == [p EXCEPT !.format = @ \intersect {Slave.format}]
       IN Ok(IF Cardinality(p.format) # 1 \/ q.format = {} THEN Changed(q, "FORMAT") ELSE q)

DirectChannels(s) ==
  IF s.st # "ok" \/ "CHANNELS" \notin s.p.rmask THEN s
  ELSE LET i == s.p.ivl["CHANNELS"]
       IN IF i.empty THEN Error(s.p)
          ELSE Narrowed(s.p, "CHANNELS", Refine(i, Closed(Slave.channels, Slave.channels, TRUE)))

\* The rules are applied only when the buffer is asked about.
MostPeriods == IF MaxPeriods < 2 THEN Slave.periods ELSE MaxPeriods
DirectBuffer(s) ==
  IF s.st # "ok" THEN s
  ELSE IF MaxPeriods < 0 THEN RefineSlaveHw(s, <<"BUFFER_SIZE", "BUFFER_TIME">>)
  ELSE IF s.p.rmask \intersect {"PERIODS", "BUFFER_BYTES", "BUFFER_SIZE", "BUFFER_TIME"} = {}
  THEN s
  ELSE Then(RefineOne(s, "PERIODS", Closed(2, MostPeriods, TRUE)), RefineSoft)

\* snd_pcm_direct_hw_refine().
DirectRefine(p) ==
  DirectBuffer(RefineSlaveHw(DirectChannels(DirectFormat(p)),
                             <<"RATE", "PERIOD_SIZE", "PERIOD_TIME">>))

-----------------------------------------------------------------------------
(* Setting a parameter without refining the space: _snd_pcm_hw_param_*().  *)

\* The interval of var becomes i; changes says whether it is marked for refinement.
Put(p, var, i, changes) ==
  Narrowed(IF changes \/ i.empty THEN Marked(p, var) ELSE p, var, i)

PutInterval(p, var, v) ==
  Put(p, var, Refine(p.ivl[var], v), RefineChanges(p.ivl[var], v))

\* From val upwards, or from just beside it: dir says on which side.
PutMin(p, var, val, dir) ==
  LET open == dir > 0 \/ (dir < 0 /\ val > 0)
      min  == IF dir < 0 /\ val > 0 THEN val - 1 ELSE val
      i    == p.ivl[var]
  IN Put(p, var, RefineMin(i, min, open), RefineMinChanges(i, min, open))
PutMax(p, var, val, dir) ==
  LET max == IF dir > 0 THEN Up(val) ELSE val
      i   == p.ivl[var]
  IN Put(p, var, RefineMax(i, max, dir # 0), RefineMaxChanges(i, max, dir # 0))

PutMinMax(p, var, min, mindir, max, maxdir) ==
  Then(PutMin(p, var, min, mindir), LAMBDA q : PutMax(q, var, max, maxdir))

\* Exactly val, or the numbers between it and the next on one side.
PutValue(p, var, val, dir) ==
  IF val = 0 /\ dir < 0 THEN Put(p, var, None(p.ivl[var]), TRUE)
  ELSE PutInterval(p, var, CASE dir = 0 -> Closed(val, val, TRUE)
                             [] dir < 0 -> Between(val - 1, val)
                             [] dir > 0 -> Between(val, Up(val)))

\* _snd_pcm_hw_params_refine(): every linked parameter is refined, even after
\* one of them has failed, by the interval of the other space, empty or not.
PutLinked(p, vars, src) ==
  LET After(st, q) == [q EXCEPT !.st = IF st = "ok" THEN @ ELSE st]
      One(s, var) == After(s.st, PutInterval(s.p, var, src.ivl[var]))
      left == p.format \intersect src.format
      q    == [p EXCEPT !.format = left]
      r    == IF left # p.format \/ left = {} THEN Marked(q, "FORMAT") ELSE q
  IN FoldLeft(One, IF left = {} THEN Error(r) ELSE Ok(r), vars)

-----------------------------------------------------------------------------
(* snd_pcm_hw_refine_slave() for the rate plugin, without a format of its  *)
(* own for the slave: the two spaces share all parameters but the rate and *)
(* the sizes, and the buffers last equally long.                           *)

RateLinks_Bug == <<"SAMPLE_BITS", "FRAME_BITS", "CHANNELS">>
RateLinks == <<"SAMPLE_BITS", "FRAME_BITS", "CHANNELS", "PERIOD_TIME">>

\* hw_refine_cprepare.
RatePrepare(p) ==
  IF p.format = {} THEN Error(Marked(p, "FORMAT"))
  ELSE Then(IF RateMin > 0 THEN PutMin(p, "RATE", RateMin, 0) ELSE Ok(p),
            LAMBDA q : IF RateMax > 0 THEN PutMax(q, "RATE", RateMax, 0) ELSE Ok(q))

\* hw_refine_sprepare.
RateSlaveSpace == PutMinMax(AnySpace, "RATE", Slave.rate, 0, Slave.rate + 1, -1).p

\* hw_refine_schange: the slave's space after the client's.
ToSlave(p, sp) ==
  LET buffer == Unfloor(p.ivl["BUFFER_SIZE"])
      size   == MulDiv(buffer, sp.ivl["RATE"], p.ivl["RATE"])
  IN IF Defined(buffer, sp.ivl["RATE"]) /\ Defined(buffer, p.ivl["RATE"])
     THEN Then(PutInterval(sp, "BUFFER_SIZE", size), LAMBDA q : PutLinked(q, RateLinks, p))
     ELSE Undefined(sp)

\* When the buffer is known and the period lies between two sizes, the one that
\* divides the buffer is taken.  This is not marked as a change.
WholePeriod(p) ==
  LET buffer == p.ivl["BUFFER_SIZE"]
      period == p.ivl["PERIOD_SIZE"]
      Take(n) == [p EXCEPT !.ivl["PERIOD_SIZE"] = [Closed(n, n, FALSE) EXCEPT !.lifted = period.lifted]]
  IN IF /\ Single(buffer) /\ buffer.integer
        /\ ~CheckEmpty(period) /\ period.openmin /\ period.openmax
        /\ period.min + 1 = period.max
     THEN IF period.min > 0 /\ buffer.min % period.min = 0 THEN Take(period.min)
          ELSE IF buffer.max % period.max = 0 THEN Take(period.max)
          ELSE p
     ELSE p

\* hw_refine_cchange: the client's space after the slave's.
ToClient(p, sp) ==
  LET sbuffer == sp.ivl["BUFFER_SIZE"]
      size == Floor(MulDiv(sbuffer, p.ivl["RATE"], sp.ivl["RATE"]))
  IN IF Defined(sbuffer, p.ivl["RATE"]) /\ Defined(sbuffer, sp.ivl["RATE"])
     THEN Then(PutInterval(p, "BUFFER_SIZE", size),
               LAMBDA q : PutLinked(WholePeriod(q), RateLinks, sp))
     ELSE Undefined(p)

\* One round: the slave follows the client and is refined, the client follows it
\* and is refined.  After a failure the client still follows, unasked.
SlaveSide(p, sp) == Then(ToSlave([p EXCEPT !.cmask = {}], sp), DirectRefine)
ClientSide(p, slave) ==
  LET Outcome(q) == [p |-> [q.p EXCEPT !.cmask = @ \union p.cmask], st |-> q.st,
                     sp |-> slave.p, changed |-> q.p.cmask # {}]
      start == [p EXCEPT !.cmask = {}]
  IN CASE slave.st = "ok"    -> Outcome(Then(ToClient(start, slave.p), RefineSoft))
       [] slave.st = "error" -> Outcome(Error(ToClient(start, slave.p).p))
       [] OTHER              -> Outcome([p |-> Undefined(p).p, st |-> slave.st])
Round(p, sp) == ClientSide(p, SlaveSide(p, sp))

\* Rounds, until one changes nothing of the client's.
Again(o) == IF o.st = "ok" /\ o.changed THEN Round(o.p, o.sp) ELSE o
Rounds(p, sp) ==
  LET start     == [p |-> p, st |-> "ok", sp |-> sp, changed |-> TRUE]
      Answer(o) == [p |-> o.p, st |-> IF o.st = "ok" /\ o.changed THEN "endless" ELSE o.st]
  IN Answer(Repeated(LAMBDA o, n : Again(o), start, MaxRounds))

RateRefine(p) ==
  Then(RatePrepare(p), LAMBDA q : Rounds(q, RateSlaveSpace))

\* snd_pcm_hw_refine() by the kind of the PCM; null has the rules and no more.
HwRefine(kind, p) ==
  CASE kind = "null" -> RefineSoft(p)
    [] kind = "direct" -> DirectRefine(p)
    [] kind = "rate" -> RateRefine(p)
=============================================================================
