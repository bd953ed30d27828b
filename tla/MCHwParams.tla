----------------------------- MODULE MCHwParams -----------------------------
EXTENDS HwParams

MCWidth == (0 :> 8) @@ (2 :> 16)
MCSlave == [rate |-> 4, format |-> 2, channels |-> 2, period_size |-> 2, periods |-> 4]

Ask(op, var, val, dir) == [op |-> op, var |-> var, val |-> val, dir |-> dir]
MCRequests ==
  {Ask("set", "RATE", 3, 0), Ask("set", "PERIODS", 2, 0), Ask("set", "PERIOD_TIME", 5, 0), Ask("set", "PERIOD_TIME", 0, 0),
   Ask("set", "BUFFER_SIZE", 6, 0), Ask("set", "PERIOD_SIZE", 2, -1),
   Ask("min", "PERIODS", 2, 0), Ask("min", "RATE", 2, 1), Ask("max", "RATE", 4, 0), 
   Ask("max", "PERIOD_TIME", 0, -1), Ask("max", "BUFFER_TIME", 9, 0), Ask("max", "PERIOD_SIZE", 3, 0),
   Ask("near", "RATE", 3, 0), Ask("near", "PERIOD_TIME", 4, 0), Ask("near", "BUFFER_SIZE", 5, 0),
   Ask("near", "PERIOD_SIZE", 2, 0), Ask("near", "PERIODS", 3, 0),
   Ask("first", "RATE", 0, 0), Ask("first", "PERIOD_SIZE", 0, 0), Ask("last", "BUFFER_SIZE", 0, 0), 
   Ask("integer", "PERIOD_SIZE", 0, 0), Ask("integer", "PERIODS", 0, 0),
   Ask("format", "FORMAT", 0, 0), 
   [op |-> "minmax", var |-> "PERIOD_TIME", val |-> 2, dir |-> 0, max |-> 6]}

\* Two periods of a buffer of five take longer at the lowest rate, one does not.
MCMinPeriodTimes == ("null" :> {0, 15}) @@ ("direct" :> {15}) @@ ("rate" :> {4})

MCMaxCalls == ("null" :> 3) @@ ("direct" :> 3) @@ ("rate" :> 2)

\* Rates, sizes and numbers of periods small enough to be told apart.
MCSample ==
  [rate : 1 .. 4, channels : {1, 2}, format : {0, 2}, period_size : 1 .. 3, periods : 1 .. 4]
=============================================================================
