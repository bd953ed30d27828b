--------------------------- MODULE RawmidiVirtProofs ---------------------------
(***************************************************************************)
(* What the writer of a virtual port does with any stream of bytes, for    *)
(* every size of the output buffer, of the writes and of the kernel's      *)
(* queue, however much the kernel takes at a time; and that no buffer of   *)
(* the writer, the kernel or the reader is ever overfull.                  *)
(*                                                                         *)
(* That the events between application and kernel are those of the bytes   *)
(* consumed (WriterKeepsOrder) needs to know where the event in hand is    *)
(* kept at each place of a call (Held), and that the parser in the middle  *)
(* of many calls is that of a listener who heard the same bytes in one go  *)
(* (Followed): refusals, retries and drops leave no trace in it.  The      *)
(* events a parser makes of a whole stream are the theorems' premise       *)
(* (Spelled), since that is an induction over the stream.                  *)
(*                                                                         *)
(* The types (Typed) follow the events from the stream to the bytes of the *)
(* reader.  What a buffer holds is a fold over it, whose sums of parts and *)
(* wholes are compared by instances of FoldInduction.                      *)
(***************************************************************************)
EXTENDS RawmidiVirt, SequenceTheorems, WellFoundedInduction, TLAPS

(* A parser that neither decodes nor was told to repeat its status.        *)
Plain(dev) ==
  \E T, Q, B : dev \in [type : T, qlen : Q, buf : B, lastcmd : {NoStatus}, nostat : {FALSE}]

WriterTypes ==
  /\ script \in Scripts
  /\ pos \in 0 .. Len(script)
  /\ pending \in Events
  /\ obuf \in Seq(Events) /\ owed \in Seq(Events)
  /\ wpc \in {"idle", "encode", "overrun", "output", "room", "flush", "drop"}
  /\ refused \in BOOLEAN
  /\ wcall \in [left : Nat, ev : Events, why : {"write", "retry", "drain"}]

(* Where the event in hand is, and that a call asks for bytes there are.   *)
Held ==
  /\ wpc \in {"encode", "overrun", "flush", "drop"} => pending = NoEvent
  /\ wpc \in {"output", "room"} => wcall.ev # NoEvent
  /\ pos + wcall.left <= Len(script)

(* A writer that was refused nothing leaves nothing behind.                *)
Sent == wpc \in {"idle", "drop"} /\ ~refused => obuf = <<>> /\ pending = NoEvent

Followed ==
  /\ Plain(enc)
  /\ \E p, run :
       p \in Entries(script) /\ p <= pos /\ Parses(script, p, run) /\ enc = run[pos]

WInv == WriterTypes /\ Held /\ Sent /\ Followed /\ WriterKeepsOrder

writerView == <<script, nonblock, writer>>

------------------------------------------------------------------------------
(* Sequences and parsers.                                                  *)

(* An empty hand is an event's.                                            *)
LEMMA NoEventIsEvent == NoEvent \in Events
<1>1. 0 \in 0 .. 15 /\ <<>> \in Seq(Int) /\ "NONE" \in EventTypes
  <2>1. <<>> \in Seq(Int)
    BY EmptySeq
  <2>2. 8 \in DOMAIN StatusEvent /\ StatusEvent[8][1] = "NONE"
    BY DEF StatusEvent
  <2>3. QED
    BY <2>1, <2>2 DEF EventTypes
<1>2. NoEvent \in [type : EventTypes, channel : 0 .. 15, data : Seq(Int)]
  BY <1>1 DEF NoEvent, Event
<1>3. QED
  BY <1>2 DEF Events

(* A stream has a length, and its bytes name events.                       *)
LEMMA Streams ==
  ASSUME NEW s \in Scripts
  PROVE  /\ Len(s) \in Nat /\ DOMAIN s = 1 .. Len(s)
         /\ \A i \in 1 .. Len(s) : s[i].ev \in Carried /\ s[i].ev \in Events
<1> DEFINE B == [byte : 0 .. 255, ev : Carried]
<1>1. s \in Seq(B)
  BY RawmidiAssumption DEF RawmidiAssumption
<1>2. \A x \in B : x.ev \in Carried /\ x.ev \in Events
  <2>1. \A x \in B : x.ev \in Carried
    OBVIOUS
  <2>2. QED
    BY <2>1 DEF Carried
<1> HIDE DEF B
<1>3. Len(s) \in Nat /\ DOMAIN s = 1 .. Len(s)
  BY <1>1, LenProperties
<1>4. \A i \in 1 .. Len(s) : s[i] \in B
  BY <1>1, ElementOfSeq
<1>5. QED
  BY <1>2, <1>3, <1>4

(* What is taken from the front of a queue is not taken from its end.      *)
LEMMA TakenFromFront ==
  ASSUME NEW S, NEW s \in Seq(S), NEW t \in Seq(S), NEW k \in 1 .. Len(s)
  PROVE  /\ SubSeq(s, k + 1, Len(s)) \in Seq(S)
         /\ SubSeq(s \o t, k + 1, Len(s \o t)) \in Seq(S)
         /\ SubSeq(s \o t, k + 1, Len(s \o t)) = SubSeq(s, k + 1, Len(s)) \o t
<1> DEFINE c == s \o t
           a == SubSeq(c, k + 1, Len(c))
           b == SubSeq(s, k + 1, Len(s))
           d == b \o t
<1>1. Len(s) \in Nat /\ Len(t) \in Nat /\ k \in Nat /\ k <= Len(s)
      /\ \A i \in 1 .. Len(s) : s[i] \in S
  BY LenProperties, ElementOfSeq
<1>2. c \in Seq(S) /\ Len(c) = Len(s) + Len(t)
      /\ \A i \in 1 .. Len(s) + Len(t) : c[i] = IF i <= Len(s) THEN s[i] ELSE t[i - Len(s)]
  BY ConcatProperties
<1> HIDE DEF c
<1>3. b \in Seq(S) /\ Len(b) = Len(s) - k /\ \A i \in 1 .. Len(s) - k : b[i] = s[k + i]
  <2>1. k + 1 \in Int /\ Len(s) \in Int /\ \A i \in k + 1 .. Len(s) : s[i] \in S
    BY <1>1
  <2>2. /\ b \in Seq(S)
        /\ Len(b) = IF k + 1 <= Len(s) THEN Len(s) - (k + 1) + 1 ELSE 0
        /\ \A i \in 1 .. Len(s) - (k + 1) + 1 : b[i] = s[(k + 1) + i - 1]
    BY <2>1, SubSeqProperties
  <2> HIDE DEF b
  <2>3. ASSUME NEW i \in 1 .. Len(s) - k
        PROVE  b[i] = s[k + i]
    <3>1. i \in 1 .. Len(s) - (k + 1) + 1 /\ (k + 1) + i - 1 = k + i
      BY <1>1
    <3>2. QED
      BY <2>2, <3>1
  <2>4. QED
    BY <1>1, <2>2, <2>3
<1>4. a \in Seq(S) /\ Len(a) = Len(s) + Len(t) - k
      /\ \A i \in 1 .. Len(s) + Len(t) - k : a[i] = c[k + i]
  <2>1. k + 1 \in Int /\ Len(c) \in Int /\ \A i \in k + 1 .. Len(c) : c[i] \in S
    <3>1. \A i \in 1 .. Len(c) : c[i] \in S
      BY <1>2, ElementOfSeq
    <3>2. QED
      BY <1>1, <1>2, <3>1
  <2>2. /\ a \in Seq(S)
        /\ Len(a) = IF k + 1 <= Len(c) THEN Len(c) - (k + 1) + 1 ELSE 0
        /\ \A i \in 1 .. Len(c) - (k + 1) + 1 : a[i] = c[(k + 1) + i - 1]
    BY <2>1, SubSeqProperties
  <2> HIDE DEF a
  <2>3. ASSUME NEW i \in 1 .. Len(s) + Len(t) - k
        PROVE  a[i] = c[k + i]
    <3>1. i \in 1 .. Len(c) - (k + 1) + 1 /\ (k + 1) + i - 1 = k + i
      BY <1>1, <1>2
    <3>2. QED
      BY <2>2, <3>1
  <2>4. QED
    BY <1>1, <1>2, <2>2, <2>3
<1> HIDE DEF a, b
<1>5. d \in Seq(S) /\ Len(d) = Len(b) + Len(t)
      /\ \A i \in 1 .. Len(b) + Len(t) : d[i] = IF i <= Len(b) THEN b[i] ELSE t[i - Len(b)]
  BY <1>3, ConcatProperties
<1> HIDE DEF d
<1>6. ASSUME NEW i \in 1 .. Len(a)
      PROVE  a[i] = d[i]
  <2>1. i \in 1 .. Len(s) + Len(t) - k /\ k + i \in 1 .. Len(s) + Len(t)
        /\ i \in 1 .. Len(b) + Len(t)
    BY <1>1, <1>3, <1>4
  <2>2. a[i] = IF k + i <= Len(s) THEN s[k + i] ELSE t[(k + i) - Len(s)]
    BY <1>2, <1>4, <2>1
  <2>3. d[i] = IF i <= Len(s) - k THEN b[i] ELSE t[i - (Len(s) - k)]
    BY <1>3, <1>5, <2>1
  <2>4. CASE i <= Len(s) - k
    <3>1. i \in 1 .. Len(s) - k /\ k + i <= Len(s)
      BY <1>1, <2>1, <2>4
    <3>2. QED
      BY <1>3, <2>2, <2>3, <2>4, <3>1
  <2>5. CASE ~(i <= Len(s) - k)
    <3>1. ~(k + i <= Len(s)) /\ (k + i) - Len(s) = i - (Len(s) - k)
      BY <1>1, <2>1, <2>5
    <3>2. QED
      BY <2>2, <2>3, <2>5, <3>1
  <2>6. QED
    BY <2>4, <2>5
<1>7. a = d
  <2>1. Len(a) = Len(d)
    BY <1>1, <1>3, <1>4, <1>5
  <2>2. QED
    BY <1>4, <1>5, <1>6, <2>1, SeqEqual
<1>8. QED
  BY <1>3, <1>4, <1>7 DEF a, b, c, d

(* A new parser is plain, and resetting a plain one makes it new.          *)
LEMMA NewIsPlain ==
  /\ Plain(NewParser(FALSE))
  /\ \A dev : Plain(dev) => ResetEncode(dev) = NewParser(FALSE)
<1>1. Plain(NewParser(FALSE))
  <2>1. NewParser(FALSE) \in [type : {Invalid}, qlen : {0}, buf : {<<>>},
                              lastcmd : {NoStatus}, nostat : {FALSE}]
    BY DEF NewParser
  <2>2. QED
    BY <2>1 DEF Plain
<1>2. ASSUME NEW dev, Plain(dev)
      PROVE  ResetEncode(dev) = NewParser(FALSE)
  <2>1. PICK T, Q, B : dev \in [type : T, qlen : Q, buf : B,
                                lastcmd : {NoStatus}, nostat : {FALSE}]
    BY <1>2 DEF Plain
  <2>2. ResetEncode(dev) \in [type : {Invalid}, qlen : {0}, buf : {<<>>},
                              lastcmd : {NoStatus}, nostat : {FALSE}]
    BY <2>1 DEF ResetEncode
  <2>3. QED
    BY <2>2 DEF NewParser
<1>3. QED
  BY <1>1, <1>2

(* Encoding does not touch what only decoding uses.                        *)
LEMMA EncodePlain ==
  ASSUME NEW dev, Plain(dev), NEW c
  PROVE  Plain(EncodeByte(dev, c).dev)
<1> DEFINE d == Recorded(dev, c)
<1>1. ASSUME NEW e, Plain(e), NEW t, NEW q, NEW b
      PROVE  /\ Plain([e EXCEPT !.type = t]) /\ Plain([e EXCEPT !.buf = b])
             /\ Plain([e EXCEPT !.buf = b, !.qlen = q])
             /\ Plain([e EXCEPT !.type = t, !.buf = b, !.qlen = q])
  <2>1. PICK T, Q, B : e \in [type : T, qlen : Q, buf : B,
                              lastcmd : {NoStatus}, nostat : {FALSE}]
    BY <1>1 DEF Plain
  <2>2. /\ [e EXCEPT !.type = t] \in [type : {t}, qlen : Q, buf : B,
                                      lastcmd : {NoStatus}, nostat : {FALSE}]
        /\ [e EXCEPT !.buf = b] \in [type : T, qlen : Q, buf : {b},
                                     lastcmd : {NoStatus}, nostat : {FALSE}]
        /\ [e EXCEPT !.buf = b, !.qlen = q] \in [type : T, qlen : {q}, buf : {b},
                                     lastcmd : {NoStatus}, nostat : {FALSE}]
        /\ [e EXCEPT !.type = t, !.buf = b, !.qlen = q] \in
                                    [type : {t}, qlen : {q}, buf : {b},
                                     lastcmd : {NoStatus}, nostat : {FALSE}]
    BY <2>1
  <2>3. QED
    BY <2>2 DEF Plain
<1>2. Plain(d)
  BY <1>1 DEF Recorded
<1>3. Plain(ResetEncode(d))
  BY <1>2, NewIsPlain
<1> HIDE DEF d
<1>4. QED
  BY <1>1, <1>2, <1>3 DEF EncodeByte, d

------------------------------------------------------------------------------
(* Every step keeps the invariant.                                         *)

(* A port that was just opened has consumed nothing and owes nothing.      *)
LEMMA InitWInv ==
  ASSUME \A s \in Scripts : Spelled(s)
  PROVE  Init => WInv
<1> SUFFICES ASSUME Init PROVE WInv
  OBVIOUS
<1>1. script \in Scripts /\ Len(script) \in Nat
  BY Streams DEF Init
<1>2. NoWrite \in [left : Nat, ev : Events, why : {"write", "retry", "drain"}]
  BY NoEventIsEvent DEF NoWrite
<1>3. <<>> \in Seq(Events)
  BY EmptySeq
<1>4. WriterTypes
  <2>1. refused \in BOOLEAN
    BY DEF Init
  <2>2. QED
    BY <1>1, <1>2, <1>3, <2>1, NoEventIsEvent DEF Init, WriterTypes
<1>5. Held
  BY <1>1 DEF Init, Held, NoWrite
<1>6. Sent
  BY DEF Init, Sent
<1>7. Followed
  <2>1. 0 \in Entries(script)
    BY <1>1 DEF Entries
  <2>2. PICK run : Parses(script, 0, run)
    BY <1>1, <2>1 DEF Spelled
  <2>3. Plain(enc) /\ pos = 0 /\ enc = run[0]
    BY <2>2, NewIsPlain DEF Init, Parses
  <2>4. QED
    BY <2>1, <2>2, <2>3 DEF Followed
<1>8. WriterKeepsOrder
  <2>1. obuf = <<>> /\ InHand = <<>> /\ owed = <<>>
    BY DEF Init, InHand
  <2>2. QED
    BY <1>3, <2>1, ConcatEmptySeq DEF WriterKeepsOrder
<1>9. QED
  BY <1>4, <1>5, <1>6, <1>7, <1>8 DEF WInv

(* The parser stays as it is while no byte is read.                        *)
LEMMA FollowedKept ==
  ASSUME Followed, UNCHANGED <<script, pos, enc>>
  PROVE  Followed'
<1>1. PICK p, run : p \in Entries(script) /\ p <= pos /\ Parses(script, p, run) /\ enc = run[pos]
  BY DEF Followed
<1>2. Plain(enc)'
  BY DEF Followed
<1>3. p \in Entries(script)' /\ (p <= pos)' /\ Parses(script, p, run)' /\ (enc = run[pos])'
  BY <1>1
<1>4. QED
  BY <1>2, <1>3 DEF Followed

(* A step that leaves the writer alone keeps what is true of it.           *)
LEMMA OthersWInv == WInv /\ UNCHANGED writerView => WInv'
<1> SUFFICES ASSUME WInv, UNCHANGED writerView PROVE WInv'
  OBVIOUS
<1>1. UNCHANGED <<script, nonblock, pos, enc, pending, obuf, wpc, wcall, refused, owed>>
  BY DEF writerView, writer
<1>2. WriterTypes' /\ Held' /\ Sent'
  BY <1>1 DEF WInv, WriterTypes, Held, Sent
<1>3. WriterKeepsOrder'
  BY <1>1 DEF WInv, WriterKeepsOrder, InHand
<1>4. QED
  BY <1>1, <1>2, <1>3, FollowedKept DEF WInv

(* A call begins with the event in hand, if one was left.                  *)
LEMMA WriteWInv ==
  ASSUME NEW n \in WriteSizes, WInv, Write(n)
  PROVE  WInv'
<1>1. n \in Nat /\ script \in Scripts /\ Len(script) \in Nat
  BY RawmidiAssumption, Streams DEF RawmidiAssumption, WInv, WriterTypes
<1>2. UNCHANGED <<script, pos, enc, pending, obuf, owed, nonblock>> /\ wpc = "idle"
      /\ pos + n <= Len(script) /\ refused' = FALSE
  BY DEF Write, WriterOnly
<1>3. CASE pending = NoEvent
  <2>1. wpc' = "encode" /\ wcall' = [left |-> n, ev |-> NoEvent, why |-> "write"]
    BY <1>3 DEF Write
  <2>2. WriterTypes'
    BY <1>1, <1>2, <2>1, NoEventIsEvent DEF WInv, WriterTypes
  <2>3. Held' /\ Sent'
    BY <1>2, <1>3, <2>1 DEF Held, Sent
  <2>4. InHand' = InHand
    BY <1>2, <1>3, <2>1 DEF InHand
  <2>5. QED
    BY <1>2, <2>2, <2>3, <2>4, FollowedKept DEF WInv, WriterKeepsOrder
<1>4. CASE pending # NoEvent
  <2>1. wpc' = "output" /\ wcall' = [left |-> n, ev |-> pending, why |-> "retry"]
    BY <1>4 DEF Write
  <2>2. WriterTypes'
    BY <1>1, <1>2, <2>1 DEF WInv, WriterTypes
  <2>3. Held' /\ Sent'
    BY <1>2, <1>4, <2>1 DEF Held, Sent
  <2>4. InHand' = InHand
    BY <1>2, <1>4, <2>1 DEF InHand
  <2>5. QED
    BY <1>2, <2>2, <2>3, <2>4, FollowedKept DEF WInv, WriterKeepsOrder
<1>5. QED
  BY <1>3, <1>4

(* So does a drain, which asks for none.                                   *)
LEMMA DrainWInv ==
  ASSUME WInv, Drain
  PROVE  WInv'
<1>1. script \in Scripts /\ Len(script) \in Nat
  BY Streams DEF WInv, WriterTypes
<1>2. UNCHANGED <<script, pos, enc, pending, obuf, owed, nonblock>> /\ wpc = "idle"
      /\ refused' = FALSE
  BY DEF Drain, WriterOnly
<1>3. CASE pending = NoEvent
  <2>1. wpc' = "flush" /\ wcall' = [left |-> 0, ev |-> NoEvent, why |-> "drain"]
    BY <1>3 DEF Drain, NoWrite
  <2>2. WriterTypes'
    BY <1>1, <1>2, <2>1, NoEventIsEvent DEF WInv, WriterTypes
  <2>3. Held' /\ Sent'
    BY <1>1, <1>2, <1>3, <2>1 DEF Held, Sent, WInv, WriterTypes
  <2>4. InHand' = InHand
    BY <1>2, <1>3, <2>1 DEF InHand
  <2>5. QED
    BY <1>2, <2>2, <2>3, <2>4, FollowedKept DEF WInv, WriterKeepsOrder
<1>4. CASE pending # NoEvent
  <2>1. wpc' = "output" /\ wcall' = [left |-> 0, ev |-> pending, why |-> "drain"]
    BY <1>4 DEF Drain
  <2>2. WriterTypes'
    BY <1>1, <1>2, <2>1 DEF WInv, WriterTypes
  <2>3. Held' /\ Sent'
    BY <1>1, <1>2, <1>4, <2>1 DEF Held, Sent, WInv, WriterTypes
  <2>4. InHand' = InHand
    BY <1>2, <1>4, <2>1 DEF InHand
  <2>5. QED
    BY <1>2, <2>2, <2>3, <2>4, FollowedKept DEF WInv, WriterKeepsOrder
<1>5. QED
  BY <1>3, <1>4

(***************************************************************************)
(* The next byte takes the parser where it takes the listener who heard    *)
(* the stream in one go, and completes the event the stream names.         *)
(***************************************************************************)
LEMMA EncodeBytesWInv ==
  ASSUME WInv, EncodeBytes
  PROVE  WInv'
<1>1. /\ script \in Scripts /\ Len(script) \in Nat /\ pos \in 0 .. Len(script)
      /\ \A i \in 1 .. Len(script) : script[i].ev \in Events
  BY Streams DEF WInv, WriterTypes
<1>2. /\ UNCHANGED <<script, pending, obuf, nonblock, refused>> /\ wpc = "encode"
      /\ pending = NoEvent
  BY DEF EncodeBytes, WriterOnly, WInv, Held
<1>3. CASE wpc' \in {"flush", "overrun"} /\ UNCHANGED <<pos, enc, owed, wcall>>
  <2>1. wpc' \in {"flush", "overrun"} /\ UNCHANGED <<pos, enc, owed, wcall>>
    BY <1>3
  <2>2. WriterTypes' /\ Held' /\ Sent'
    BY <1>1, <1>2, <2>1 DEF WInv, WriterTypes, Held, Sent
  <2>3. InHand' = InHand
    BY <1>2, <2>1 DEF InHand
  <2>4. QED
    BY <1>2, <2>1, <2>2, <2>3, FollowedKept DEF WInv, WriterKeepsOrder
<1>4. CASE wcall.left # 0 /\ ~Overruns(enc, script[pos + 1].byte) /\ wpc' # "overrun"
  <2> DEFINE next == script[pos + 1]
             step == EncodeByte(enc, next.byte)
  <2>1. /\ pos' = pos + 1 /\ enc' = step.dev
        /\ owed' = IF next.ev = NoEvent THEN owed ELSE Append(owed, next.ev)
        /\ wcall' = [wcall EXCEPT !.left = @ - 1, !.ev = step.ev]
        /\ wpc' = IF step.ev = NoEvent THEN "encode" ELSE "output"
    BY <1>4 DEF EncodeBytes
  <2>2. /\ wcall.left \in Nat \ {0} /\ pos + wcall.left <= Len(script)
        /\ wcall \in [left : Nat, ev : Events, why : {"write", "retry", "drain"}]
    BY <1>4 DEF WInv, WriterTypes, Held
  <2>3. pos + 1 \in 1 .. Len(script) /\ pos \in Nat
    BY <1>1, <2>2
  <2>4. PICK p, run :
          p \in Entries(script) /\ p <= pos /\ Parses(script, p, run) /\ enc = run[pos]
    BY DEF WInv, Followed
  <2>5. p \in Nat /\ pos + 1 \in p + 1 .. Len(script) /\ (pos + 1) - 1 = pos
    BY <1>1, <2>3, <2>4 DEF Entries
  <2>6. run[pos + 1] = step.dev /\ next.ev = step.ev
    BY <2>4, <2>5 DEF Parses
  <2>7. Plain(step.dev)
    BY EncodePlain DEF WInv, Followed
  <2> HIDE DEF next, step
  <2>8. Followed'
    <3>1. p \in Entries(script)' /\ (p <= pos)' /\ Parses(script, p, run)' /\ (enc = run[pos])'
          /\ Plain(enc)'
      BY <1>2, <2>1, <2>3, <2>4, <2>5, <2>6, <2>7
    <3>2. QED
      BY <3>1 DEF Followed
  <2>9. step.ev \in Events
    BY <1>1, <2>3, <2>6 DEF next
  <2>10. /\ wcall' \in [left : Nat, ev : Events, why : {"write", "retry", "drain"}]
         /\ wcall'.left = wcall.left - 1 /\ wcall'.ev = step.ev
    <3>1. wcall.left - 1 \in Nat
      BY <2>2
    <3> DEFINE fewer == wcall.left - 1
    <3>2. wcall' = [wcall EXCEPT !.left = fewer, !.ev = step.ev]
      BY <2>1
    <3> HIDE DEF fewer
    <3>3. fewer \in Nat
      BY <3>1 DEF fewer
    <3>4. /\ wcall' \in [left : Nat, ev : Events, why : {"write", "retry", "drain"}]
          /\ wcall'.left = fewer /\ wcall'.ev = step.ev
      BY <2>2, <2>9, <3>2, <3>3
    <3>5. QED
      BY <3>4 DEF fewer
  <2>11. obuf \in Seq(Events) /\ owed \in Seq(Events) /\ obuf \o InHand = owed
    BY DEF WInv, WriterTypes, WriterKeepsOrder
  <2>12. InHand = <<>> /\ owed = obuf
    <3>1. InHand = <<>>
      BY <1>2 DEF InHand
    <3>2. QED
      BY <2>11, <3>1, ConcatEmptySeq
  <2>13. CASE step.ev = NoEvent
    <3>1. wpc' = "encode" /\ owed' = owed
      BY <2>1, <2>6, <2>13
    <3>2. WriterTypes' /\ Held' /\ Sent'
      BY <1>1, <1>2, <2>1, <2>2, <2>3, <2>10, <3>1 DEF WInv, WriterTypes, Held, Sent
    <3>3. InHand' = <<>>
      BY <1>2, <3>1 DEF InHand
    <3>4. WriterKeepsOrder'
      BY <1>2, <2>11, <2>12, <3>1, <3>3 DEF WriterKeepsOrder
    <3>5. QED
      BY <2>8, <3>2, <3>4 DEF WInv
  <2>14. CASE step.ev # NoEvent
    <3>1. wpc' = "output" /\ owed' = Append(owed, step.ev)
      BY <2>1, <2>6, <2>14
    <3>2. owed' \in Seq(Events) /\ owed' = obuf \o <<step.ev>>
      BY <2>9, <2>11, <2>12, <3>1, AppendIsConcat, AppendProperties
    <3>3. WriterTypes' /\ Held' /\ Sent'
      BY <1>1, <1>2, <2>1, <2>2, <2>3, <2>10, <2>14, <3>1, <3>2
      DEF WInv, WriterTypes, Held, Sent
    <3>4. InHand' = <<step.ev>>
      BY <2>10, <3>1 DEF InHand
    <3>5. WriterKeepsOrder'
      BY <1>2, <3>2, <3>4 DEF WriterKeepsOrder
    <3>6. QED
      BY <2>8, <3>3, <3>5 DEF WInv
  <2>15. QED
    BY <2>13, <2>14
<1>5. QED
  BY <1>3, <1>4 DEF EncodeBytes

(* The event goes from the hand to the end of the buffer.                  *)
LEMMA OutputWInv ==
  ASSUME WInv, Output
  PROVE  WInv'
<1>1. /\ UNCHANGED <<script, pos, enc, owed, nonblock, refused>> /\ wpc = "output"
      /\ wcall \in [left : Nat, ev : Events, why : {"write", "retry", "drain"}]
      /\ InHand = <<wcall.ev>> /\ obuf \in Seq(Events) /\ obuf \o InHand = owed
      /\ owed \in Seq(Events)
  BY DEF Output, WriterOnly, WInv, WriterTypes, WriterKeepsOrder, InHand
<1>2. Followed'
  BY <1>1, FollowedKept DEF WInv
<1>3. CASE Total(Length, obuf) + Length(wcall.ev) <= OutBufSize
  <2>1. /\ obuf' = Append(obuf, wcall.ev) /\ pending' = NoEvent
        /\ wpc' = IF wcall.why = "drain" THEN "flush" ELSE "encode"
        /\ wcall' = [wcall EXCEPT !.why = IF @ = "retry" THEN "write" ELSE @]
    BY <1>3 DEF Output
  <2>2. obuf' = owed
    BY <1>1, <2>1, AppendIsConcat
  <2>3. wcall' \in [left : Nat, ev : Events, why : {"write", "retry", "drain"}]
        /\ wcall'.left = wcall.left
    BY <1>1, <2>1
  <2>4. WriterTypes' /\ Held' /\ Sent'
    BY <1>1, <2>1, <2>2, <2>3, NoEventIsEvent DEF WInv, WriterTypes, Held, Sent
  <2>5. InHand' = <<>>
    BY <2>1 DEF InHand
  <2>6. WriterKeepsOrder'
    BY <1>1, <2>2, <2>5, ConcatEmptySeq DEF WriterKeepsOrder
  <2>7. QED
    BY <1>2, <2>4, <2>6 DEF WInv
<1>4. CASE ~(Total(Length, obuf) + Length(wcall.ev) <= OutBufSize)
  <2>1. wpc' = "room" /\ UNCHANGED <<obuf, pending, wcall>>
    BY <1>4 DEF Output
  <2>2. WriterTypes' /\ Held' /\ Sent'
    BY <1>1, <2>1 DEF WInv, WriterTypes, Held, Sent
  <2>3. InHand' = InHand
    BY <1>1, <2>1 DEF InHand
  <2>4. QED
    BY <1>1, <1>2, <2>1, <2>2, <2>3 DEF WInv, WriterKeepsOrder
<1>5. QED
  BY <1>3, <1>4

(* What the kernel takes is the oldest of what it is owed.                 *)
LEMMA KernelWriteWInv ==
  ASSUME WInv, KernelWrite, wpc \in {"room", "flush"},
         UNCHANGED <<script, nonblock, pos, enc, pending, wpc, wcall, refused>>
  PROVE  WInv'
<1>1. /\ InHand' = InHand /\ InHand \in Seq(Events)
      /\ obuf \in Seq(Events) /\ owed = obuf \o InHand
  <2>1. wcall.ev \in Events /\ pending \in Events
    BY DEF WInv, WriterTypes
  <2>2. \A e \in Events : <<e>> \in Seq(Events)
    OBVIOUS
  <2>3. <<>> \in Seq(Events)
    BY EmptySeq
  <2>4. QED
    BY <2>1, <2>2, <2>3 DEF WInv, WriterTypes, WriterKeepsOrder, InHand
<1>2. PICK k \in 1 .. Len(obuf) :
        /\ obuf' = SubSeq(obuf, k + 1, Len(obuf))
        /\ owed' = SubSeq(owed, k + 1, Len(owed))
  BY DEF KernelWrite
<1>3. obuf' \in Seq(Events) /\ owed' \in Seq(Events) /\ owed' = obuf' \o InHand
  BY <1>1, <1>2, TakenFromFront
<1>4. WriterTypes' /\ Held' /\ Sent'
  BY <1>3 DEF WInv, WriterTypes, Held, Sent
<1>5. Followed'
  BY FollowedKept DEF WInv
<1>6. QED
  BY <1>1, <1>3, <1>4, <1>5 DEF WInv, WriterKeepsOrder

(* What is given up is the last that is owed.                              *)
LEMMA FrontOfAppend ==
  ASSUME NEW S, NEW t \in Seq(S), NEW x \in S
  PROVE  Front(t \o <<x>>) = t
<1>1. t \o <<x>> = Append(t, x)
  BY AppendIsConcat
<1>2. /\ Append(t, x) \in Seq(S) /\ Len(Append(t, x)) = Len(t) + 1
      /\ \A i \in 1 .. Len(t) : Append(t, x)[i] = t[i]
      /\ Len(t) \in Nat
  BY AppendProperties, LenProperties
<1> DEFINE a == Append(t, x)
           b == SubSeq(a, 1, Len(t))
<1>3. b \in Seq(S) /\ Len(b) = Len(t) /\ \A i \in 1 .. Len(t) : b[i] = a[i]
  <2>1. 1 \in Int /\ Len(t) \in Int /\ \A i \in 1 .. Len(t) : a[i] \in S
    BY <1>2, ElementOfSeq
  <2>2. /\ b \in Seq(S)
        /\ Len(b) = IF 1 <= Len(t) THEN Len(t) - 1 + 1 ELSE 0
        /\ \A i \in 1 .. Len(t) - 1 + 1 : b[i] = a[1 + i - 1]
    BY <2>1, SubSeqProperties
  <2> HIDE DEF a, b
  <2>3. ASSUME NEW i \in 1 .. Len(t)
        PROVE  b[i] = a[i]
    <3>1. i \in 1 .. Len(t) - 1 + 1 /\ 1 + i - 1 = i
      BY <1>2
    <3>2. QED
      BY <2>2, <3>1
  <2>4. QED
    BY <1>2, <2>2, <2>3
<1>4. b = t
  BY <1>2, <1>3, SeqEqual
<1>5. Front(a) = SubSeq(a, 1, Len(a) - 1) /\ Len(a) - 1 = Len(t)
  BY <1>2 DEF Front
<1>6. QED
  BY <1>1, <1>4, <1>5

(* A refusal puts the event in hand by for the next call, or gives it up.  *)
LEMMA MakeRoomWInv ==
  ASSUME WInv, MakeRoom
  PROVE  WInv'
<1>1. UNCHANGED <<script, nonblock, pos, enc>> /\ wpc = "room"
  BY DEF MakeRoom
<1>2. Followed'
  BY <1>1, FollowedKept DEF WInv
<1>3. CASE wpc' = "output" /\ UNCHANGED <<obuf, owed, wcall, pending, refused>>
  <2>1. WriterTypes' /\ Held' /\ Sent'
    BY <1>1, <1>3 DEF WInv, WriterTypes, Held, Sent
  <2>2. InHand' = InHand
    BY <1>1, <1>3 DEF InHand
  <2>3. QED
    BY <1>2, <1>3, <2>1, <2>2 DEF WInv, WriterKeepsOrder
<1>4. CASE KernelWrite /\ UNCHANGED <<wpc, wcall, pending, refused>>
  BY <1>1, <1>4, KernelWriteWInv
<1>5. CASE /\ wpc' = "idle" /\ wcall' = NoWrite /\ refused' = TRUE /\ UNCHANGED obuf
           /\ \E err : PutBy(err)
  <2>1. wcall.ev \in Events \ {NoEvent} /\ pos \in 0 .. Len(script) /\ Len(script) \in Nat
    BY <1>1, Streams DEF WInv, WriterTypes, Held
  <2>2. NoWrite \in [left : Nat, ev : Events, why : {"write", "retry", "drain"}]
        /\ NoWrite.left = 0
    BY NoEventIsEvent DEF NoWrite
  <2>3. obuf \in Seq(Events) /\ owed \in Seq(Events) /\ owed = obuf \o <<wcall.ev>>
    BY <1>1 DEF WInv, WriterTypes, WriterKeepsOrder, InHand
  <2>4. CASE pending' = wcall.ev /\ UNCHANGED owed
    <3>1. WriterTypes' /\ Held' /\ Sent'
      BY <1>1, <1>5, <2>1, <2>2, <2>4 DEF WInv, WriterTypes, Held, Sent
    <3>2. InHand' = InHand
      BY <1>1, <1>5, <2>1, <2>4 DEF InHand
    <3>3. QED
      BY <1>2, <1>5, <2>4, <3>1, <3>2 DEF WInv, WriterKeepsOrder
  <2>5. CASE pending' = NoEvent /\ owed' = Front(owed)
    <3>1. owed' = obuf
      BY <2>1, <2>3, <2>5, FrontOfAppend
    <3>2. WriterTypes' /\ Held' /\ Sent'
      BY <1>1, <1>5, <2>1, <2>2, <2>3, <2>5, <3>1, NoEventIsEvent
      DEF WInv, WriterTypes, Held, Sent
    <3>3. InHand' = <<>>
      BY <1>5, <2>5 DEF InHand
    <3>4. WriterKeepsOrder'
      BY <1>5, <2>3, <3>1, <3>3, ConcatEmptySeq DEF WriterKeepsOrder
    <3>5. QED
      BY <1>2, <3>2, <3>4 DEF WInv
  <2>6. QED
    BY <1>5, <2>4, <2>5 DEF PutBy
<1>6. QED
  BY <1>3, <1>4, <1>5 DEF MakeRoom, KernelRefuses

(* A flush ends when the buffer is empty, or is refused.                   *)
LEMMA FlushWInv ==
  ASSUME WInv, Flush
  PROVE  WInv'
<1>1. UNCHANGED <<script, nonblock, pos, enc, pending>> /\ wpc = "flush" /\ pending = NoEvent
  BY DEF Flush, WInv, Held
<1>2. CASE KernelWrite /\ UNCHANGED <<wpc, wcall, refused>>
  BY <1>1, <1>2, KernelWriteWInv
<1>3. CASE /\ (obuf = <<>> /\ UNCHANGED refused) \/ refused' = TRUE
           /\ wpc' \in {"idle", "drop"} /\ wcall' = NoWrite /\ UNCHANGED <<obuf, owed>>
  <2>1. pos \in 0 .. Len(script) /\ Len(script) \in Nat
    BY Streams DEF WInv, WriterTypes
  <2>2. NoWrite \in [left : Nat, ev : Events, why : {"write", "retry", "drain"}]
        /\ NoWrite.left = 0
    BY NoEventIsEvent DEF NoWrite
  <2>3. WriterTypes' /\ Held' /\ Sent'
    <3>1. refused' \in BOOLEAN
      BY <1>3 DEF WInv, WriterTypes
    <3>2. WriterTypes' /\ Held'
      BY <1>1, <1>3, <2>1, <2>2, <3>1 DEF WInv, WriterTypes, Held
    <3>3. Sent'
      BY <1>1, <1>3 DEF Sent
    <3>4. QED
      BY <3>2, <3>3
  <2>4. InHand' = InHand
    BY <1>1, <1>3 DEF InHand
  <2>5. QED
    BY <1>1, <1>3, <2>3, <2>4, FollowedKept DEF WInv, WriterKeepsOrder
<1>4. QED
  BY <1>2, <1>3 DEF Flush, FlushEnds, KernelRefuses

(* A drop forgets everything on both sides, and the next message begins    *)
(* with a parser that is as good as new.                                   *)
LEMMA DropWInv ==
  ASSUME \A s \in Scripts : Spelled(s), WInv, DropOutput
  PROVE  WInv'
<1> DEFINE L == Len(script)
           Stop(p) == /\ p = L \/ Starts(p + 1)
                      /\ \A q \in pos + 1 .. p : ~Starts(q)
<1>1. /\ script \in Scripts /\ L \in Nat /\ pos \in 0 .. L
      /\ UNCHANGED <<script, nonblock, refused>> /\ refused \in BOOLEAN
      /\ obuf' = <<>> /\ owed' = <<>> /\ pending' = NoEvent /\ wpc' = "idle"
      /\ wcall' = NoWrite /\ enc' = NewParser(FALSE)
  BY Streams, NewIsPlain DEF DropOutput, WriterOnly, WInv, WriterTypes, Followed
<1>2. \E p \in pos .. L : Stop(p)
  <2> DEFINE T == {p \in pos .. L : p = L \/ Starts(p + 1)}
             less == {ss \in Nat \X Nat : ss[1] < ss[2]}
  <2>1. IsWellFoundedOn(less, Nat)
    BY NatLessThanWellFounded, Zenon DEF OpToRel
  <2>2. T \subseteq Nat /\ L \in T
    BY <1>1
  <2>3. PICK p \in T : \A y \in T : ~(<<y, p>> \in less)
    BY <2>1, <2>2, WFMin
  <2>4. ASSUME NEW q \in pos + 1 .. p
        PROVE  ~Starts(q)
    <3>1. q \in Nat /\ q - 1 \in pos .. L /\ q - 1 \in Nat /\ q - 1 < p /\ (q - 1) + 1 = q
          /\ p \in Nat
      BY <1>1, <2>2
    <3>2. q - 1 \notin T
      BY <2>3, <3>1
    <3>3. QED
      BY <3>1, <3>2
  <2>5. QED
    BY <2>3, <2>4
<1>3. pos' \in pos .. L /\ Stop(pos')
  <2>1. pos' = CHOOSE p \in pos .. L : Stop(p)
    BY DEF DropOutput
  <2> HIDE DEF Stop
  <2>2. QED
    BY <1>2, <2>1
<1>4. pos' \in Entries(script) /\ pos' \in 0 .. L
  BY <1>1, <1>3 DEF Entries, Starts
<1>5. Followed'
  <2>1. PICK run : Parses(script, pos', run)
    BY <1>1, <1>4 DEF Spelled
  <2>2. Plain(enc)' /\ enc' = run[pos']
    BY <1>1, <2>1, NewIsPlain DEF Parses
  <2>3. pos' \in Entries(script)' /\ pos' <= pos' /\ Parses(script', pos', run)
    BY <1>1, <1>4, <2>1
  <2>4. QED
    BY <2>2, <2>3 DEF Followed
<1>6. <<>> \in Seq(Events) /\ NoEvent \in Events
      /\ NoWrite \in [left : Nat, ev : Events, why : {"write", "retry", "drain"}]
      /\ NoWrite.left = 0
  BY EmptySeq, NoEventIsEvent DEF NoWrite
<1>7. WriterTypes' /\ Held' /\ Sent'
  BY <1>1, <1>4, <1>6 DEF WriterTypes, Held, Sent
<1>8. WriterKeepsOrder'
  <2>1. InHand' = <<>>
    BY <1>1 DEF InHand
  <2>2. QED
    BY <1>1, <1>6, <2>1, ConcatEmptySeq DEF WriterKeepsOrder
<1>9. QED
  BY <1>5, <1>7, <1>8 DEF WInv

(* Everything else is the reader's, the kernel's or another client's.      *)
LEMMA NextWInv ==
  ASSUME \A s \in Scripts : Spelled(s)
  PROVE  WInv /\ [Next]_vars => WInv'
<1> SUFFICES ASSUME WInv, [Next]_vars PROVE WInv'
  OBVIOUS
<1>1. CASE \E n \in WriteSizes : Write(n)
  BY <1>1, WriteWInv
<1>2. CASE Drop \/ DrainDrop
  BY <1>2, DropWInv DEF Drop, DrainDrop
<1>3. CASE Drain
  BY <1>3, DrainWInv
<1>4. CASE EncodeBytes \/ Output \/ MakeRoom \/ Flush
  BY <1>4, EncodeBytesWInv, OutputWInv, MakeRoomWInv, FlushWInv
<1>5. CASE \/ \E n \in ReadSizes : Read(n)
           \/ DropInput \/ Fetch \/ Copy
           \/ \E ev \in Others : OtherClient(ev)
  <2>1. UNCHANGED writerView
    BY <1>5 DEF Read, DropInput, Fetch, Copy, OtherClient, ReaderOnly, writerView
  <2>2. QED
    BY <2>1, OthersWInv
<1>6. CASE UNCHANGED vars
  <2>1. UNCHANGED writerView
    BY <1>6 DEF vars, writerView
  <2>2. QED
    BY <2>1, OthersWInv
<1>7. QED
  BY <1>1, <1>2, <1>3, <1>4, <1>5, <1>6 DEF Next, WriterStep, ReaderStep

------------------------------------------------------------------------------
(* The inductive invariant of the writer.                                  *)
LEMMA SpecWInv ==
  ASSUME \A s \in Scripts : Spelled(s)
  PROVE  Spec => []WInv
<1>1. Init => WInv
  BY InitWInv
<1>2. WInv /\ [Next]_vars => WInv'
  BY NextWInv
<1>3. QED
  BY <1>1, <1>2, PTL DEF Spec

(***************************************************************************)
(* The events on their way are those of the bytes consumed, in order, each *)
(* once but for those given up after an error, for any streams that a      *)
(* parser fed without interruption spells out, cut into writes in any way, *)
(* refused by the kernel and dropped at any time.                          *)
(***************************************************************************)
THEOREM SpecWriterKeepsOrder ==
  ASSUME \A s \in Scripts : Spelled(s)
  PROVE  Spec => []WriterKeepsOrder
<1>1. WInv => WriterKeepsOrder
  BY DEF WInv
<1>2. QED
  BY <1>1, SpecWInv, PTL

(***************************************************************************)
(* A write or a drain that has returned and was refused nothing owes the   *)
(* kernel nothing, whatever was refused before it.                         *)
(***************************************************************************)
THEOREM SpecSentAtRest ==
  ASSUME \A s \in Scripts : Spelled(s)
  PROVE  Spec => []SentAtRest
<1>1. WInv => SentAtRest
  <2> SUFFICES ASSUME WInv, ~refused, wpc \in {"idle", "drop"} PROVE owed = <<>>
    BY DEF SentAtRest
  <2>1. obuf = <<>> /\ pending = NoEvent
    BY DEF WInv, Sent
  <2>2. InHand = <<>> /\ <<>> \in Seq(Events)
    BY <2>1, EmptySeq DEF InHand
  <2>3. QED
    BY <2>1, <2>2, ConcatEmptySeq DEF WInv, WriterKeepsOrder
<1>2. QED
  BY <1>1, SpecWInv, PTL

------------------------------------------------------------------------------
(* What a buffer holds, counted.                                           *)

(* The bytes and the cells of an event, and of a buffer of them.           *)
SizeOf(kind, ev) == IF kind = "cells" THEN Cells(ev) ELSE Length(ev)
TotalOf(kind, evs) == IF kind = "cells" THEN Total(Cells, evs) ELSE Total(Length, evs)

(* f[i] is the size of the first i events.                                 *)
Sums(f, kind, evs) ==
  f[0] = 0 /\ \A i \in 1 .. Len(evs) : f[i] = f[i - 1] + SizeOf(kind, evs[i])

(* p.g counts from p.from on what p.f counts from the beginning.           *)
CellsOp(p, n, ev) == n + Cells(ev)
LengthOp(p, n, ev) == n + Length(ev)
CountInv(p, z, i) ==
  /\ p.f[p.from] \in Nat /\ p.f[p.from + i] \in Nat /\ p.f[p.from + i] >= p.f[p.from]
  /\ p.g[i] = p.f[p.from + i] - p.f[p.from]
CellsFold == INSTANCE FoldInduction WITH Op <- CellsOp, Inv <- CountInv
LengthFold == INSTANCE FoldInduction WITH Op <- LengthOp, Inv <- CountInv

(* An event has a length, in bytes and in cells.                           *)
LEMMA SizeNat == ASSUME NEW kind, NEW ev \in Carried PROVE SizeOf(kind, ev) \in Nat
  <1>1. ev \in Events BY DEF Carried
  <1>2. Len(ev.data) \in Nat BY <1>1, LenProperties DEF Events
  <1>3. EventSize \in Nat /\ EventSize > 0 BY RawmidiAssumption DEF RawmidiAssumption
  <1>4. Length(ev) \in Nat BY <1>2, <1>3 DEF Length
  <1>5. (Len(ev.data) + EventSize - 1) \div EventSize \in Nat
    <2> DEFINE m == Len(ev.data) + EventSize - 1
    <2>1. m \in Nat BY <1>2, <1>3
    <2> HIDE DEF m
    <2>2. m \div EventSize \in Nat BY <2>1, <1>3
    <2> QED BY <2>2 DEF m
  <1>6. Cells(ev) \in Nat BY <1>5 DEF Cells
  <1> QED BY <1>4, <1>6 DEF SizeOf

(* A total is the last of the sums.                                        *)
LEMMA TotalSums ==
  ASSUME NEW kind, NEW evs \in Seq(Carried)
  PROVE  \E f : Sums(f, kind, evs) /\ TotalOf(kind, evs) = f[Len(evs)]
  <1>1. CASE kind = "cells"
    <2>1. Total(Cells, evs) = CellsFold!Left(0, 0, evs)
      BY Zenon DEF Total, CellsOp, FoldLeft, MapThenFoldSet, CellsFold!Left, CellsFold!Last, Max
    <2>2. \E f : /\ f[0] = 0
                 /\ \A i \in 1 .. Len(evs) : f[i] = CellsOp(0, f[i - 1], evs[i])
                 /\ CellsFold!Left(0, 0, evs) = f[Len(evs)]
      BY CellsFold!LeftIs
    <2> QED BY <1>1, <2>1, <2>2, Zenon DEF Sums, TotalOf, SizeOf, CellsOp
  <1>2. CASE kind # "cells"
    <2>1. Total(Length, evs) = LengthFold!Left(0, 0, evs)
      BY Zenon DEF Total, LengthOp, FoldLeft, MapThenFoldSet, LengthFold!Left, LengthFold!Last, Max
    <2>2. \E f : /\ f[0] = 0
                 /\ \A i \in 1 .. Len(evs) : f[i] = LengthOp(0, f[i - 1], evs[i])
                 /\ LengthFold!Left(0, 0, evs) = f[Len(evs)]
      BY LengthFold!LeftIs
    <2> QED BY <1>2, <2>1, <2>2, Zenon DEF Sums, TotalOf, SizeOf, LengthOp
  <1> QED BY <1>1, <1>2

(* So have any number of them.                                             *)
LEMMA SumsNat ==
  ASSUME NEW kind, NEW evs \in Seq(Carried), NEW f, Sums(f, kind, evs), NEW n \in 0 .. Len(evs)
  PROVE  f[n] \in Nat
  <1> DEFINE p == [f |-> f, g |-> f, from |-> 0]
  <1>0. Len(evs) \in Nat /\ \A i \in 1 .. Len(evs) : SizeOf(kind, evs[i]) \in Nat
    BY LenProperties, ElementOfSeq, SizeNat
  <1>1. p.f = f /\ p.g = f /\ p.from = 0 OBVIOUS
  <1> HIDE DEF p
  <1>2. CountInv(p, 0, 0) BY <1>1 DEF CountInv, Sums
  <1>3. ASSUME NEW i \in 1 .. n, CountInv(p, 0, i - 1) PROVE CountInv(p, 0, i)
    <2>1. f[i] = f[i - 1] + SizeOf(kind, evs[i]) /\ SizeOf(kind, evs[i]) \in Nat BY <1>0 DEF Sums
    <2>2. f[0] = 0 BY DEF Sums
    <2>3. f[0 + (i - 1)] \in Nat BY <1>1, <1>3 DEF CountInv
    <2>4. 0 + (i - 1) = i - 1 /\ 0 + i = i OBVIOUS
    <2>5. f[i] \in Nat BY <2>1, <2>3, <2>4
    <2> QED BY <1>1, <2>2, <2>4, <2>5 DEF CountInv
  <1>4. n \in Nat BY <1>0
  <1>5. CountInv(p, 0, n) BY <1>2, <1>3, <1>4, CellsFold!Upward
  <1>6. 0 + n = n BY <1>4
  <1> QED BY <1>1, <1>5, <1>6 DEF CountInv

(* A part of a sequence.                                                   *)
PartOf(sub, evs, from) ==
  /\ from \in 0 .. Len(evs) /\ from + Len(sub) <= Len(evs)
  /\ \A i \in 1 .. Len(sub) : sub[i] = evs[from + i]

(* The length of a part is the difference of two sums of the whole.        *)
LEMMA SumsPart ==
  ASSUME NEW kind, NEW evs \in Seq(Carried), NEW sub \in Seq(Carried), NEW from,
         PartOf(sub, evs, from), NEW f, Sums(f, kind, evs), NEW g, Sums(g, kind, sub)
  PROVE  /\ g[Len(sub)] = f[from + Len(sub)] - f[from]
         /\ f[from] \in Nat /\ f[from + Len(sub)] \in Nat /\ f[from + Len(sub)] >= f[from]
  <1> DEFINE p == [f |-> f, g |-> g, from |-> from]
             n == Len(sub)
  <1>0. n \in Nat /\ Len(evs) \in Nat /\ from \in Nat BY LenProperties DEF PartOf
  <1>1. p.f = f /\ p.g = g /\ p.from = from OBVIOUS
  <1> HIDE DEF p
  <1>2. CountInv(p, 0, 0)
    <2>1. f[from] \in Nat BY SumsNat DEF PartOf
    <2>2. g[0] = 0 /\ from + 0 = from BY <1>0 DEF Sums
    <2> QED BY <1>1, <2>1, <2>2 DEF CountInv
  <1>3. ASSUME NEW i \in 1 .. n, CountInv(p, 0, i - 1) PROVE CountInv(p, 0, i)
    <2>1. g[i] = g[i - 1] + SizeOf(kind, sub[i]) BY DEF Sums
    <2>2. from + i \in 1 .. Len(evs) BY <1>0 DEF PartOf
    <2>3. f[from + i] = f[(from + i) - 1] + SizeOf(kind, evs[from + i]) BY <2>2 DEF Sums
    <2>4. sub[i] = evs[from + i] /\ SizeOf(kind, sub[i]) \in Nat
      <3>1. sub[i] \in Carried BY ElementOfSeq
      <3> QED BY <3>1, SizeNat DEF PartOf
    <2>5. (from + i) - 1 = from + (i - 1) BY <1>0
    <2>6. /\ f[from] \in Nat /\ f[from + (i - 1)] \in Nat /\ f[from + (i - 1)] >= f[from]
          /\ g[i - 1] = f[from + (i - 1)] - f[from]
      BY <1>1, <1>3 DEF CountInv
    <2> DEFINE x == f[from + (i - 1)]
               y == f[from + i]
               w == SizeOf(kind, sub[i])
    <2>7. y = x + w /\ g[i] = (x - f[from]) + w BY <2>1, <2>3, <2>4, <2>5, <2>6
    <2>8. x \in Nat /\ w \in Nat /\ f[from] \in Nat /\ x >= f[from] BY <2>4, <2>6
    <2> HIDE DEF x, w
    <2>9. y \in Nat /\ y >= f[from] /\ g[i] = y - f[from] BY <2>7, <2>8
    <2> QED BY <1>1, <2>8, <2>9 DEF CountInv
  <1>4. CountInv(p, 0, n) BY <1>0, <1>2, <1>3, CellsFold!Upward
  <1> QED BY <1>1, <1>4 DEF CountInv

(* A part is not longer than the whole.                                    *)
LEMMA TotalPart ==
  ASSUME NEW kind, NEW evs \in Seq(Carried), NEW sub \in Seq(Carried), NEW from, PartOf(sub, evs, from)
  PROVE  TotalOf(kind, sub) \in Nat /\ TotalOf(kind, evs) \in Nat /\ TotalOf(kind, sub) <= TotalOf(kind, evs)
  <1>0. Len(sub) \in Nat /\ Len(evs) \in Nat BY LenProperties
  <1>1. PICK f : Sums(f, kind, evs) /\ TotalOf(kind, evs) = f[Len(evs)] BY TotalSums
  <1>2. PICK g : Sums(g, kind, sub) /\ TotalOf(kind, sub) = g[Len(sub)] BY TotalSums
  <1>3. /\ g[Len(sub)] = f[from + Len(sub)] - f[from]
        /\ f[from] \in Nat /\ f[from + Len(sub)] \in Nat /\ f[from + Len(sub)] >= f[from]
    BY <1>1, <1>2, SumsPart
  <1>4. f[Len(evs)] \in Nat /\ f[Len(evs)] >= f[from + Len(sub)]
    <2> DEFINE at == from + Len(sub)
               end == SubSeq(evs, at + 1, Len(evs))
    <2>1. at \in 0 .. Len(evs) BY <1>0 DEF PartOf
    <2>2. /\ end \in Seq(Carried)
          /\ Len(end) = Len(evs) - at
          /\ \A i \in 1 .. Len(evs) - at : end[i] = evs[at + i]
      <3> DEFINE m == at + 1
      <3>1. m \in Int /\ Len(evs) \in Int /\ \A i \in m .. Len(evs) : evs[i] \in Carried
        BY <2>1, <1>0, ElementOfSeq
      <3>2. /\ SubSeq(evs, m, Len(evs)) \in Seq(Carried)
            /\ Len(SubSeq(evs, m, Len(evs))) = IF m <= Len(evs) THEN Len(evs) - m + 1 ELSE 0
            /\ \A i \in 1 .. Len(evs) - m + 1 : SubSeq(evs, m, Len(evs))[i] = evs[m + i - 1]
        BY <3>1, SubSeqProperties
      <3> HIDE DEF end
      <3>3. end = SubSeq(evs, m, Len(evs)) BY DEF end
      <3>4. (IF m <= Len(evs) THEN Len(evs) - m + 1 ELSE 0) = Len(evs) - at BY <2>1, <1>0
      <3>5. \A i \in 1 .. Len(evs) - at : i \in 1 .. Len(evs) - m + 1 /\ m + i - 1 = at + i BY <2>1, <1>0
      <3> QED BY <3>2, <3>3, <3>4, <3>5
    <2> HIDE DEF end
    <2>3. PartOf(end, evs, at) /\ at + Len(end) = Len(evs) BY <2>1, <2>2, <1>0 DEF PartOf
    <2>4. PICK h : Sums(h, kind, end) BY <2>2, TotalSums
    <2>5. f[at + Len(end)] \in Nat /\ f[at + Len(end)] >= f[at]
      <3> HIDE DEF at
      <3> QED BY <2>2, <2>3, <2>4, <1>1, SumsPart
    <2> QED BY <2>3, <2>5
  <1> QED BY <1>1, <1>2, <1>3, <1>4

(* Nothing has no length.                                                  *)
LEMMA TotalNil == ASSUME NEW kind PROVE TotalOf(kind, <<>>) = 0
  <1>1. <<>> \in Seq(Carried) /\ Len(<<>>) = 0 BY EmptySeq
  <1>2. PICK f : Sums(f, kind, <<>>) /\ TotalOf(kind, <<>>) = f[Len(<<>>)] BY <1>1, TotalSums
  <1> QED BY <1>1, <1>2 DEF Sums

(* One more event adds its length.                                         *)
LEMMA TotalAppend ==
  ASSUME NEW kind, NEW evs \in Seq(Carried), NEW ev \in Carried
  PROVE  TotalOf(kind, Append(evs, ev)) = TotalOf(kind, evs) + SizeOf(kind, ev)
  <1> DEFINE all == Append(evs, ev)
             n == Len(evs)
  <1>1. /\ n \in Nat /\ all \in Seq(Carried) /\ Len(all) = n + 1
        /\ \A i \in 1 .. n : all[i] = evs[i]
        /\ all[n + 1] = ev
    BY LenProperties, AppendProperties
  <1> HIDE DEF all
  <1>2. PICK f : Sums(f, kind, all) /\ TotalOf(kind, all) = f[n + 1] BY <1>1, TotalSums
  <1>3. PICK g : Sums(g, kind, evs) /\ TotalOf(kind, evs) = g[n] BY TotalSums
  <1>4. PartOf(evs, all, 0)
    <2>1. 0 \in 0 .. Len(all) /\ 0 + Len(evs) <= Len(all) /\ \A i \in 1 .. n : 0 + i = i BY <1>1
    <2> QED BY <1>1, <2>1 DEF PartOf
  <1>5. g[n] = f[0 + n] - f[0] /\ f[0 + n] \in Nat BY <1>1, <1>2, <1>3, <1>4, SumsPart
  <1>6. f[0] = 0 /\ 0 + n = n /\ f[n + 1] = f[(n + 1) - 1] + SizeOf(kind, ev) /\ (n + 1) - 1 = n
    <2>1. n + 1 \in 1 .. Len(all) BY <1>1
    <2> QED BY <1>1, <1>2, <2>1 DEF Sums
  <1>7. g[n] = f[n] /\ f[n + 1] = f[n] + SizeOf(kind, ev) BY <1>5, <1>6
  <1> QED BY <1>2, <1>3, <1>7 DEF all

(* The front and the rest of a buffer.                                     *)
LEMMA PartsIs ==
  ASSUME NEW evs \in Seq(Carried), NEW n \in 0 .. Len(evs)
  PROVE  /\ SubSeq(evs, 1, n) \in Seq(Carried) /\ Len(SubSeq(evs, 1, n)) = n
         /\ PartOf(SubSeq(evs, 1, n), evs, 0)
         /\ SubSeq(evs, n + 1, Len(evs)) \in Seq(Carried)
         /\ Len(SubSeq(evs, n + 1, Len(evs))) = Len(evs) - n
         /\ PartOf(SubSeq(evs, n + 1, Len(evs)), evs, n)
  <1> DEFINE a == SubSeq(evs, 1, n)
             m == n + 1
             b == SubSeq(evs, m, Len(evs))
  <1>0. Len(evs) \in Nat /\ n \in Nat BY LenProperties
  <1>1. \A i \in 1 .. Len(evs) : evs[i] \in Carried BY ElementOfSeq
  <1>2. /\ a \in Seq(Carried) /\ Len(a) = (IF 1 <= n THEN n - 1 + 1 ELSE 0)
        /\ \A i \in 1 .. n - 1 + 1 : a[i] = evs[1 + i - 1]
    <2>1. \A i \in 1 .. n : evs[i] \in Carried BY <1>0, <1>1
    <2> QED BY <1>0, <2>1, SubSeqProperties
  <1>3. /\ b \in Seq(Carried) /\ Len(b) = (IF m <= Len(evs) THEN Len(evs) - m + 1 ELSE 0)
        /\ \A i \in 1 .. Len(evs) - m + 1 : b[i] = evs[m + i - 1]
    <2>1. m \in Int /\ Len(evs) \in Int /\ \A i \in m .. Len(evs) : evs[i] \in Carried BY <1>0, <1>1
    <2> QED BY <2>1, SubSeqProperties
  <1> HIDE DEF a, b
  <1>4. Len(a) = n /\ \A i \in 1 .. n : i \in 1 .. n - 1 + 1 /\ 1 + i - 1 = 0 + i BY <1>0, <1>2
  <1>5. Len(b) = Len(evs) - n /\ \A i \in 1 .. Len(b) : i \in 1 .. Len(evs) - m + 1 /\ m + i - 1 = n + i
    BY <1>0, <1>3
  <1>6. PartOf(a, evs, 0) BY <1>0, <1>2, <1>4 DEF PartOf
  <1>7. PartOf(b, evs, n)
    <2>1. n + Len(b) <= Len(evs) BY <1>0, <1>5
    <2> QED BY <2>1, <1>3, <1>5 DEF PartOf
  <1> QED BY <1>2, <1>3, <1>4, <1>5, <1>6, <1>7 DEF a, b

(* A fetch takes at least one event, and no more than the input buffer     *)
(* holds.                                                                  *)
LEMMA FillIs ==
  ASSUME fifo \in Seq(Carried), fifo # <<>>
  PROVE  /\ Fill \in 1 .. Len(fifo)
         /\ TotalOf("cells", SubSeq(fifo, 1, Fill)) <= InBufCells
  <1> DEFINE N == Len(fifo)
             t(n) == Total(Cells, SubSeq(fifo, 1, n))
             T == {n \in 0 .. N : n = N \/ t(n + 1) > InBufCells}
  <1>0. N \in Nat /\ N > 0 /\ InBufCells \in Nat BY LenProperties, EmptySeq, RawmidiAssumption DEF RawmidiAssumption
  <1>1. PICK f : Sums(f, "cells", fifo) /\ TotalOf("cells", fifo) = f[N] BY TotalSums
  <1>2. ASSUME NEW n \in 0 .. N PROVE t(n) = f[n] /\ f[n] \in Nat
    <2> DEFINE a == SubSeq(fifo, 1, n)
    <2>1. a \in Seq(Carried) /\ Len(a) = n /\ PartOf(a, fifo, 0) BY PartsIs
    <2>2. PICK g : Sums(g, "cells", a) /\ TotalOf("cells", a) = g[Len(a)] BY <2>1, TotalSums
    <2>3. TotalOf("cells", a) = t(n) BY DEF TotalOf
    <2> HIDE DEF a
    <2>4. g[n] = f[0 + n] - f[0] /\ f[0 + n] \in Nat BY <2>1, <2>2, <1>1, SumsPart
    <2>5. f[0] = 0 /\ 0 + n = n BY <1>0, <1>1 DEF Sums
    <2> HIDE DEF t
    <2> QED BY <2>1, <2>2, <2>3, <2>4, <2>5
  <1>3. f[0] = 0 /\ f[1] = Cells(fifo[1]) /\ Cells(fifo[1]) <= InBufCells
    <2>1. 1 \in 1 .. N BY <1>0
    <2>2. fifo[1] \in Carried BY <2>1, ElementOfSeq
    <2>3. SizeOf("cells", fifo[1]) \in Nat /\ SizeOf("cells", fifo[1]) = Cells(fifo[1]) BY <2>2, SizeNat DEF SizeOf
    <2>4. f[0] = 0 /\ f[1] = f[1 - 1] + SizeOf("cells", fifo[1]) BY <1>1, <2>1 DEF Sums
    <2>5. f[1] = 0 + Cells(fifo[1]) BY <2>3, <2>4
    <2> QED BY <2>2, <2>3, <2>4, <2>5 DEF Carried
  <1> HIDE DEF t
  <1>4. T \subseteq Nat /\ N \in T BY <1>0
  <1>5. PICK n \in T : \A y \in T : n <= y
    <2> HIDE DEF T
    <2> QED BY <1>4, CellsFold!Least
  <1>6. f[n] <= InBufCells
    <2>1. CASE n = 0 BY <2>1, <1>0, <1>3
    <2>2. CASE n # 0
      <3>1. n - 1 \in 0 .. N /\ n - 1 # N /\ ~(n <= n - 1) /\ (n - 1) + 1 = n BY <2>2, <1>0, <1>5
      <3>2. n - 1 \notin T BY <3>1, <1>5
      <3>3. ~(t(n) > InBufCells) BY <3>1, <3>2
      <3> QED BY <1>0, <1>2, <1>5, <3>3
    <2> QED BY <2>1, <2>2
  <1>7. Fill = CHOOSE m \in 0 .. N : /\ t(m) <= InBufCells
                                     /\ m = N \/ t(m + 1) > InBufCells
    BY DEF Fill, t
  <1>8. n \in 0 .. N /\ t(n) <= InBufCells /\ (n = N \/ t(n + 1) > InBufCells) BY <1>2, <1>5, <1>6
  <1>9. Fill \in 0 .. N /\ t(Fill) <= InBufCells /\ (Fill = N \/ t(Fill + 1) > InBufCells)
    BY <1>7, <1>8, Zenon
  <1>10. Fill # 0
    <2> SUFFICES ASSUME Fill = 0 PROVE FALSE OBVIOUS
    <2>1. t(0 + 1) > InBufCells BY <1>0, <1>9
    <2>2. 0 + 1 = 1 /\ 1 \in 0 .. N BY <1>0
    <2>3. t(1) = f[1] /\ f[1] \in Nat BY <1>2, <2>2
    <2> QED BY <1>0, <1>3, <2>1, <2>2, <2>3
  <1>11. TotalOf("cells", SubSeq(fifo, 1, Fill)) = t(Fill) BY DEF TotalOf, t
  <1> QED BY <1>0, <1>9, <1>10, <1>11

------------------------------------------------------------------------------
(* Bytes.                                                                  *)
Bytes(b) == \E S : b \in Seq(S)

(* A sequence has a length and elements.                                   *)
LEMMA BytesIs == ASSUME NEW S, NEW b \in Seq(S) PROVE Bytes(b) BY DEF Bytes

(* No byte.                                                                *)
LEMMA NoBytes == Bytes(<<>>)
  <1>1. <<>> \in Seq({}) BY EmptySeq
  <1> QED BY <1>1, BytesIs

(* The length of bytes is a number.                                        *)
LEMMA BytesLen == ASSUME NEW b, Bytes(b) PROVE Len(b) \in Nat
  BY LenProperties DEF Bytes

(* Bytes after bytes.                                                      *)
LEMMA JoinBytes == ASSUME NEW b, NEW c, Bytes(b), Bytes(c) PROVE Bytes(b \o c)
  <1>1. PICK S : b \in Seq(S) BY DEF Bytes
  <1>2. PICK T : c \in Seq(T) BY DEF Bytes
  <1> DEFINE U == S \union T
  <1>3. b \in Seq(U) /\ c \in Seq(U)
    <2>1. S \subseteq U /\ T \subseteq U OBVIOUS
    <2> HIDE DEF U
    <2> QED BY <1>1, <1>2, <2>1
  <1> HIDE DEF U
  <1>4. b \o c \in Seq(U) BY <1>3, ConcatProperties
  <1> QED BY <1>4, BytesIs

(* A status.                                                               *)
LEMMA OneByte == ASSUME NEW x PROVE Bytes(<<x>>)
  <1>1. <<x>> \in Seq({x}) OBVIOUS
  <1> QED BY <1>1, BytesIs

(* A status with one data byte.                                            *)
LEMMA TwoBytes == ASSUME NEW x, NEW y PROVE Bytes(<<x, y>>)
  <1>1. <<x, y>> \in Seq({x, y}) OBVIOUS
  <1> QED BY <1>1, BytesIs

(* The data of an event are bytes.                                         *)
LEMMA DataIsBytes == ASSUME NEW ev \in Events PROVE Bytes(ev.data) /\ Bytes(DataBytes(ev))
  <1>1. ev.data \in Seq(Int) BY DEF Events
  <1>2. Bytes(ev.data) BY <1>1, BytesIs
  <1>3. Bytes([i \in DOMAIN ev.data |-> Low(ev.data[i])])
    <2> DEFINE n == Len(ev.data)
               S == {Low(ev.data[i]) : i \in 1 .. n}
               b == [i \in 1 .. n |-> Low(ev.data[i])]
    <2>1. n \in Nat /\ DOMAIN ev.data = 1 .. n BY <1>1, LenProperties
    <2>2. b \in [1 .. n -> S] OBVIOUS
    <2>3. b \in Seq(S)
      <3> HIDE DEF b, S
      <3> QED BY <2>1, <2>2, SeqDef
    <2>4. b = [i \in DOMAIN ev.data |-> Low(ev.data[i])] BY <2>1
    <2> QED BY <2>3, <2>4, BytesIs
  <1>4. CASE ev.type = "PITCHBEND"
    <2>1. DataBytes(ev) = <<Low(ev.data[1] + 8192), High(ev.data[1] + 8192)>> BY <1>4 DEF DataBytes
    <2> QED BY <1>2, <2>1, TwoBytes
  <1>5. CASE ev.type = "SONGPOS"
    <2>1. "SONGPOS" # "PITCHBEND" OBVIOUS
    <2>2. DataBytes(ev) = <<Low(ev.data[1]), High(ev.data[1])>> BY <1>5, <2>1 DEF DataBytes
    <2> QED BY <1>2, <2>2, TwoBytes
  <1>6. CASE ev.type \notin {"PITCHBEND", "SONGPOS"}
    <2>1. DataBytes(ev) = [i \in DOMAIN ev.data |-> Low(ev.data[i])] BY <1>6 DEF DataBytes
    <2> QED BY <1>2, <1>3, <2>1
  <1> QED BY <1>4, <1>5, <1>6

(* Several messages one after the other.                                   *)
LEMMA FlatBytes ==
  ASSUME NEW n \in 1 .. 4, NEW seqs, Len(seqs) = n, \A i \in 1 .. n : Bytes(seqs[i])
  PROVE  Bytes(FlattenSeq(seqs))
  <1> DEFINE V(f, i) == IF i = 1 THEN seqs[i] ELSE f[i - 1] \o seqs[i]
             two == seqs[1] \o seqs[2]
             three == two \o seqs[3]
             g == [i \in 1 .. n |-> CASE i = 1 -> seqs[1] [] i = 2 -> two [] i = 3 -> three [] i = 4 -> three \o seqs[4]]
             h == CHOOSE f : f = [i \in 1 .. n |-> V(f, i)]
  <1>1. g = [i \in 1 .. n |-> V(g, i)]
    <2> HIDE DEF two, three
    <2>0. /\ g[1] = seqs[1] /\ (2 \in 1 .. n => g[2] = two) /\ (3 \in 1 .. n => g[3] = three)
          /\ (4 \in 1 .. n => g[4] = three \o seqs[4])
      OBVIOUS
    <2> HIDE DEF g
    <2>1. ASSUME NEW i \in 1 .. n PROVE g[i] = V(g, i)
      <3>1. CASE i = 1 BY <2>0, <3>1
      <3>2. CASE i = 2
        <4>1. V(g, i) = g[1] \o seqs[2]
          <5>1. i # 1 /\ i - 1 = 1 BY <3>2
          <5> QED BY <3>2, <5>1, Zenon
        <4> QED BY <2>0, <3>2, <4>1 DEF two
      <3>3. CASE i = 3
        <4>1. V(g, i) = g[2] \o seqs[3]
          <5>1. i # 1 /\ i - 1 = 2 BY <3>3
          <5> QED BY <3>3, <5>1, Zenon
        <4>2. 2 \in 1 .. n BY <3>3
        <4> QED BY <2>0, <3>3, <4>1, <4>2 DEF three
      <3>4. CASE i = 4
        <4>1. V(g, i) = g[3] \o seqs[4]
          <5>1. i # 1 /\ i - 1 = 3 BY <3>4
          <5> QED BY <3>4, <5>1, Zenon
        <4>2. 3 \in 1 .. n BY <3>4
        <4> QED BY <2>0, <3>4, <4>1, <4>2
      <3> QED BY <3>1, <3>2, <3>3, <3>4
    <2> DEFINE G == [i \in 1 .. n |-> V(g, i)]
    <2>2. DOMAIN g = 1 .. n /\ DOMAIN G = 1 .. n /\ \A i \in 1 .. n : G[i] = V(g, i) BY DEF g
    <2>3. g = [i \in DOMAIN g |-> g[i]] /\ G = [i \in DOMAIN G |-> G[i]] BY DEF g
    <2> HIDE DEF g, G, V
    <2>4. \A i \in 1 .. n : g[i] = G[i] BY <2>1, <2>2
    <2>5. g = G BY <2>2, <2>3, <2>4, Zenon
    <2> QED BY <2>5 DEF G
  <1> HIDE DEF g
  <1>2. h = [i \in 1 .. n |-> V(h, i)] BY <1>1, Zenon
  <1> HIDE DEF h
  <1>3. \A i \in 1 .. n : h[i] = V(h, i) BY <1>2
  <1>4. Bytes(h[1])
    <2>1. h[1] = seqs[1] BY <1>3
    <2> QED BY <2>1
  <1>5. ASSUME NEW i \in 2 .. n, Bytes(h[i - 1]) PROVE Bytes(h[i])
    <2>0. i \in 1 .. n /\ i # 1 OBVIOUS
    <2>1. h[i] = h[i - 1] \o seqs[i] BY <1>3, <2>0
    <2> QED BY <1>5, <2>1, JoinBytes
  <1>6. Bytes(h[n])
    <2>1. n >= 2 => Bytes(h[2]) BY <1>4, <1>5
    <2>2. n >= 3 => Bytes(h[3]) BY <2>1, <1>5
    <2>3. n >= 4 => Bytes(h[4]) BY <2>2, <1>5
    <2> QED BY <1>4, <2>1, <2>2, <2>3
  <1>7. FlattenSeq(seqs) = h[n]
    <2> DEFINE k == CHOOSE f : f = [i \in 1 .. Len(seqs) |-> IF i = 1 THEN seqs[i] ELSE f[i - 1] \o seqs[i]]
    <2>1. FlattenSeq(seqs) = IF Len(seqs) = 0 THEN seqs ELSE k[Len(seqs)] BY Zenon DEF FlattenSeq
    <2>2. k = h BY Zenon DEF h
    <2> HIDE DEF k
    <2> QED BY <2>1, <2>2
  <1> QED BY <1>6, <1>7

(* What an event is decoded to are bytes.                                  *)
LEMMA DecodeBytes ==
  ASSUME NEW dev, NEW ev \in Carried
  PROVE  Bytes(Decode(dev, ev).bytes)
  <1>0. ev \in Events /\ (ev.type \in Extra => Len(ev.data) = 2) BY DEF Carried
  <1>1. CASE ev.type \in Extra
    <2> DEFINE two == Controllers(ev)
               cmd == Control + ev.channel
               own(i) == IF dev.nostat \/ (i = 1 /\ dev.lastcmd # cmd) THEN <<cmd>> ELSE <<>>
               seqs == [i \in DOMAIN two |-> own(i) \o two[i]]
    <2>1. Decode(dev, ev).bytes = FlattenSeq(seqs)
      <3>1. Decode(dev, ev) = DecodeExtra(dev, ev) BY <1>1 DEF Decode, Extra
      <3> QED BY <3>1 DEF DecodeExtra
    <2>2. \E n \in 1 .. 4 : /\ DOMAIN two = 1 .. n
                           /\ \A i \in 1 .. n : \E x, y : two[i] = <<x, y>>
      <3>1. ev.data[1] \in Int
        <4>1. Len(ev.data) = 2 /\ ev.data \in Seq(Int) BY <1>0, <1>1, Zenon DEF Events
        <4>2. 1 \in 1 .. Len(ev.data) BY <4>1
        <4> QED BY <4>1, <4>2, ElementOfSeq
      <3>2. CASE ev.type = "CONTROL14" /\ ev.data[1] < 32
        <4>1. two = << <<ev.data[1], High(ev.data[2])>>, <<ev.data[1] + 32, Low(ev.data[2])>> >>
          BY <3>1, <3>2 DEF Controllers
        <4>2. DOMAIN two = 1 .. 2 /\ \A i \in 1 .. 2 : \E x, y : two[i] = <<x, y>>
          <5> HIDE DEF two
          <5>1. two[1] = <<ev.data[1], High(ev.data[2])>> /\ two[2] = <<ev.data[1] + 32, Low(ev.data[2])>> BY <4>1
          <5>2. DOMAIN two = 1 .. 2 BY <4>1
          <5>3. \A i \in 1 .. 2 : i = 1 \/ i = 2 OBVIOUS
          <5> QED BY <5>1, <5>2, <5>3, Zenon
        <4> QED BY <4>2
      <3>3. CASE ev.type = "CONTROL14" /\ ev.data[1] >= 32
        <4>1. two = << <<Low(ev.data[1]), Low(ev.data[2])>> >>
          BY <3>1, <3>3 DEF Controllers
        <4>2. DOMAIN two = 1 .. 1 /\ \A i \in 1 .. 1 : \E x, y : two[i] = <<x, y>>
          <5> HIDE DEF two
          <5>1. two[1] = <<Low(ev.data[1]), Low(ev.data[2])>> BY <4>1
          <5>2. DOMAIN two = 1 .. 1 BY <4>1
          <5>3. \A i \in 1 .. 1 : i = 1 OBVIOUS
          <5> QED BY <5>1, <5>2, <5>3, Zenon
        <4> QED BY <4>2
      <3>4. CASE ev.type = "NONREGPARAM"
        <4>1. two = << <<99, High(ev.data[1])>>, <<98, Low(ev.data[1])>>, <<6, High(ev.data[2])>>, <<38, Low(ev.data[2])>> >>
          BY <3>4 DEF Controllers
        <4>2. DOMAIN two = 1 .. 4 /\ \A i \in 1 .. 4 : \E x, y : two[i] = <<x, y>>
          <5> HIDE DEF two
          <5>1. /\ two[1] = <<99, High(ev.data[1])>> /\ two[2] = <<98, Low(ev.data[1])>>
                /\ two[3] = <<6, High(ev.data[2])>> /\ two[4] = <<38, Low(ev.data[2])>> BY <4>1
          <5>2. DOMAIN two = 1 .. 4 BY <4>1
          <5>3. (\E x, y : two[1] = <<x, y>>) /\ (\E x, y : two[2] = <<x, y>>)
            BY <5>1, Zenon
          <5>4. (\E x, y : two[3] = <<x, y>>) /\ (\E x, y : two[4] = <<x, y>>)
            BY <5>1, Zenon
          <5>5. \A i \in 1 .. 4 : i = 1 \/ i = 2 \/ i = 3 \/ i = 4 OBVIOUS
          <5> QED BY <5>2, <5>3, <5>4, <5>5, Zenon
        <4> QED BY <4>2
      <3>5. CASE ev.type = "REGPARAM"
        <4>1. two = << <<101, High(ev.data[1])>>, <<100, Low(ev.data[1])>>, <<6, High(ev.data[2])>>, <<38, Low(ev.data[2])>> >>
          BY <3>5 DEF Controllers
        <4>2. DOMAIN two = 1 .. 4 /\ \A i \in 1 .. 4 : \E x, y : two[i] = <<x, y>>
          <5> HIDE DEF two
          <5>1. /\ two[1] = <<101, High(ev.data[1])>> /\ two[2] = <<100, Low(ev.data[1])>>
                /\ two[3] = <<6, High(ev.data[2])>> /\ two[4] = <<38, Low(ev.data[2])>> BY <4>1
          <5>2. DOMAIN two = 1 .. 4 BY <4>1
          <5>3. (\E x, y : two[1] = <<x, y>>) /\ (\E x, y : two[2] = <<x, y>>)
            BY <5>1, Zenon
          <5>4. (\E x, y : two[3] = <<x, y>>) /\ (\E x, y : two[4] = <<x, y>>)
            BY <5>1, Zenon
          <5>5. \A i \in 1 .. 4 : i = 1 \/ i = 2 \/ i = 3 \/ i = 4 OBVIOUS
          <5> QED BY <5>2, <5>3, <5>4, <5>5, Zenon
        <4> QED BY <4>2
      <3> QED BY <1>1, <3>1, <3>2, <3>3, <3>4, <3>5 DEF Extra
    <2>3. PICK n \in 1 .. 4 : /\ DOMAIN two = 1 .. n
                              /\ \A i \in 1 .. n : \E x, y : two[i] = <<x, y>>
      BY <2>2
    <2> HIDE DEF two
    <2>4. ASSUME NEW i \in 1 .. n PROVE Bytes(seqs[i])
      <3>1. seqs[i] = own(i) \o two[i] BY <2>3
      <3>2. Bytes(own(i)) BY OneByte, NoBytes
      <3>3. Bytes(two[i]) BY <2>3, TwoBytes
      <3> HIDE DEF own, seqs
      <3> QED BY <3>1, <3>2, <3>3, JoinBytes
    <2>5. Len(seqs) = n BY <2>3
    <2> HIDE DEF seqs
    <2> QED BY <2>1, <2>4, <2>5, FlatBytes
  <1>2. CASE ev.type \notin Extra
    <2>1. Bytes(ev.data) /\ Bytes(DataBytes(ev)) /\ Bytes(<<>>) BY <1>0, DataIsBytes, NoBytes
    <2>2. Bytes(<<StatusByte(ev)>> \o DataBytes(ev)) BY <2>1, OneByte, JoinBytes
    <2>3. CASE ev.type = "SYSEX"
      <3>1. Decode(dev, ev).bytes = ev.data BY <1>2, <2>3 DEF Decode
      <3> QED BY <2>1, <3>1
    <2>4. CASE ev.type # "SYSEX"
      <3> DEFINE cmd == StatusByte(ev)
                 known == ev.type \notin Extra \union {"SYSEX", "NONE"}
                            /\ (\E t \in DOMAIN StatusEvent : StatusEvent[t][1] = ev.type)
                 d == IF cmd >= SysexStart \/ dev.lastcmd # cmd \/ dev.nostat
                      THEN [dev |-> [dev EXCEPT !.lastcmd = cmd], bytes |-> <<cmd>> \o DataBytes(ev)]
                      ELSE [dev |-> dev, bytes |-> DataBytes(ev)]
      <3>1. Decode(dev, ev) = IF known THEN d ELSE [dev |-> dev, bytes |-> <<>>]
        <4> HIDE DEF d, cmd
        <4>1. CASE known BY <1>2, <2>4, <4>1 DEF Decode, d, cmd
        <4>2. CASE ~known BY <1>2, <2>4, <4>2 DEF Decode
        <4> QED BY <4>1, <4>2
      <3>2. Decode(dev, ev).bytes \in {<<cmd>> \o DataBytes(ev), DataBytes(ev), <<>>}
        <4> HIDE DEF known
        <4>1. d.bytes \in {<<cmd>> \o DataBytes(ev), DataBytes(ev)}
          <5> HIDE DEF cmd
          <5> QED OBVIOUS
        <4> HIDE DEF d, cmd
        <4> QED BY <3>1, <4>1
      <3> QED BY <2>1, <2>2, <3>2
    <2> QED BY <2>3, <2>4
  <1> QED BY <1>1, <1>2

------------------------------------------------------------------------------
(* The types of what the writer's invariant leaves out.                    *)
Streamed == owed \in Seq(Carried) /\ TotalOf("bytes", obuf) <= OutBufSize

KernelTypes ==
  /\ fifo \in Seq(Carried) /\ Len(fifo) <= FifoSize
  /\ others \subseteq Carried /\ flaw \subseteq Flaws

(* A call that asks for an event has handed out all of the last.           *)
ReaderTypes ==
  /\ ibuf \in Seq(Carried) /\ TotalOf("cells", ibuf) <= InBufCells
  /\ Bytes(inbytes) /\ ofs \in 0 .. Len(inbytes)
  /\ rpc \in {"idle", "fetch", "copy"} /\ (rpc = "fetch" => ofs = 0)
  /\ rcall \in [size : Nat, result : Nat]

(* Bytes are stored in the parser only where they fit.                     *)
Parsed == Bytes(enc.buf) /\ Len(enc.buf) <= MidiBufSize

Typed == Streamed /\ Parsed /\ KernelTypes /\ ReaderTypes

(* What is in the buffer or in hand is owed, so that it can be carried.    *)
LEMMA InCarried ==
  ASSUME WInv, owed \in Seq(Carried)
  PROVE  /\ obuf \in Seq(Carried) /\ Len(owed) >= Len(obuf)
         /\ wpc \in {"output", "room"} => wcall.ev \in Carried
  <1>1. obuf \in Seq(Events) /\ InHand \in Seq(Events) /\ obuf \o InHand = owed
    <2>1. obuf \in Seq(Events) /\ pending \in Events /\ wcall.ev \in Events BY DEF WInv, WriterTypes
    <2>2. InHand \in {<<wcall.ev>>, <<pending>>, <<>>} BY DEF InHand
    <2>3. InHand \in Seq(Events)
      <3>1. <<wcall.ev>> \in Seq(Events) /\ <<pending>> \in Seq(Events) /\ <<>> \in Seq(Events)
        <4> HIDE DEF Events
        <4> QED BY <2>1
      <3> QED BY <2>2, <3>1
    <2> QED BY <2>1, <2>3 DEF WInv, WriterKeepsOrder
  <1> DEFINE n == Len(obuf)
  <1>2. /\ n \in Nat /\ Len(InHand) \in Nat /\ Len(owed) = n + Len(InHand)
        /\ \A i \in 1 .. n + Len(InHand) : owed[i] = IF i <= n THEN obuf[i] ELSE InHand[i - n]
    <2> HIDE DEF InHand
    <2>1. /\ Len(obuf \o InHand) = n + Len(InHand)
          /\ \A i \in 1 .. n + Len(InHand) : (obuf \o InHand)[i] = IF i <= n THEN obuf[i] ELSE InHand[i - n]
      BY <1>1, ConcatProperties
    <2>2. n \in Nat /\ Len(InHand) \in Nat BY <1>1, LenProperties
    <2> QED BY <1>1, <2>1, <2>2
  <1>3. \A i \in 1 .. Len(owed) : owed[i] \in Carried BY ElementOfSeq
  <1>4. obuf \in Seq(Carried)
    <2>1. \A i \in 1 .. n : i \in 1 .. n + Len(InHand) /\ i <= n BY <1>2
    <2>2. \A i \in 1 .. n : obuf[i] \in Carried BY <1>2, <1>3, <2>1
    <2>3. obuf = [i \in 1 .. n |-> obuf[i]] BY <1>1, LenProperties
    <2> HIDE DEF n
    <2>4. obuf \in [1 .. n -> Carried]
      <3> DEFINE t == [i \in 1 .. n |-> obuf[i]]
      <3>1. t \in [1 .. n -> Carried] BY <2>2
      <3> QED BY <2>3, <3>1
    <2> QED BY <1>2, <2>4, SeqDef
  <1>5. ASSUME wpc \in {"output", "room"} PROVE wcall.ev \in Carried
    <2>1. InHand = <<wcall.ev>> BY <1>5 DEF InHand
    <2>2. Len(InHand) = 1 /\ InHand[1] = wcall.ev BY <2>1
    <2>3. n + 1 \in 1 .. n + Len(InHand) /\ ~(n + 1 <= n) /\ (n + 1) - n = 1 BY <1>2, <2>2
    <2>4. owed[n + 1] = wcall.ev
      <3> HIDE DEF n, InHand
      <3> QED BY <1>2, <2>2, <2>3
    <2>5. n + 1 \in 1 .. Len(owed) BY <1>2, <2>3
    <2> QED BY <1>3, <2>4, <2>5
  <1> QED BY <1>2, <1>4, <1>5

(* The slot that holds no event has its type.                              *)
LEMMA NoEventCarried == NoEvent \in Carried
  <1>1. NoEvent \in Events /\ NoEvent.type = "NONE" BY NoEventIsEvent DEF NoEvent, Event
  <1>2. Cells(NoEvent) = 1 + 0 /\ NoEvent.type \notin Extra BY <1>1 DEF Cells, Extra
  <1>3. MidiBufSize \in Nat /\ InBufCells \in Nat /\ InBufCells > 1 + MidiBufSize
    BY MidiEventAssumption, RawmidiAssumption DEF MidiEventAssumption, RawmidiAssumption
  <1> QED BY <1>1, <1>2, <1>3 DEF Carried

(* The strengthened types are the types of the model.                      *)
LEMMA TypedIs == ASSUME WInv, Typed PROVE TypeOK
  <1>1. /\ pos \in 0 .. Len(script) /\ IsEvent(pending) /\ IsEvent(wcall.ev)
        /\ wpc \in {"idle", "encode", "overrun", "output", "room", "flush", "drop"}
        /\ refused \in BOOLEAN
        /\ wcall.left \in Nat /\ wcall.why \in {"write", "retry", "drain"}
    <2>1. WriterTypes BY DEF WInv
    <2>2. pending.type \in EventTypes /\ wcall.ev.type \in EventTypes
      <3>1. pending \in Events /\ wcall.ev \in Events BY <2>1 DEF WriterTypes
      <3> QED BY <3>1 DEF Events
    <2> QED BY <2>1, <2>2 DEF WriterTypes, IsEvent
  <1>2. \A i \in DOMAIN obuf : IsEvent(obuf[i])
    <2>1. obuf \in Seq(Events) BY DEF WInv, WriterTypes
    <2>2. DOMAIN obuf = 1 .. Len(obuf) BY <2>1, LenProperties
    <2>3. \A i \in DOMAIN obuf : obuf[i] \in Events BY <2>1, <2>2, ElementOfSeq
    <2>4. \A e \in Events : e.type \in EventTypes BY DEF Events
    <2> QED BY <2>3, <2>4 DEF IsEvent
  <1>3. Total(Length, obuf) <= OutBufSize
    <2>1. "bytes" # "cells" OBVIOUS
    <2>2. TotalOf("bytes", obuf) = Total(Length, obuf) BY <2>1 DEF TotalOf
    <2> QED BY <2>2 DEF Typed, Streamed
  <1>4. Total(Cells, ibuf) <= InBufCells
    <2>1. TotalOf("cells", ibuf) = Total(Cells, ibuf) BY DEF TotalOf
    <2> QED BY <2>1 DEF Typed, ReaderTypes
  <1>5. /\ Len(fifo) <= FifoSize /\ ofs \in 0 .. Len(inbytes) /\ rpc \in {"idle", "fetch", "copy"}
        /\ rcall.size \in Nat /\ rcall.result \in Nat /\ flaw \in SUBSET Flaws
        /\ Len(enc.buf) <= MidiBufSize
    BY DEF Typed, KernelTypes, ReaderTypes, Parsed
  <1> QED BY <1>1, <1>2, <1>3, <1>4, <1>5, Zenon DEF TypeOK

(* They hold at the start.                                                 *)
LEMMA InitTyped == ASSUME Init PROVE Typed
  <1>1. <<>> \in Seq(Carried) /\ Len(<<>>) = 0 BY EmptySeq
  <1>2. /\ OutBufSize \in Nat /\ InBufCells \in Nat /\ FifoSize \in Nat
        /\ Others \subseteq Carried
    BY RawmidiAssumption DEF RawmidiAssumption
  <1>3. TotalOf("bytes", <<>>) <= OutBufSize /\ TotalOf("cells", <<>>) <= InBufCells BY <1>2, TotalNil
  <1>4. Streamed BY <1>1, <1>3 DEF Init, Streamed
  <1>5. KernelTypes BY <1>1, <1>2 DEF Init, KernelTypes
  <1>6. ReaderTypes BY <1>1, <1>3, NoBytes DEF Init, ReaderTypes, NoRead
  <1>7. Parsed
    <2>1. enc.buf = <<>> BY DEF Init, NewParser
    <2>2. MidiBufSize \in Nat /\ MidiBufSize >= 3 BY MidiEventAssumption DEF MidiEventAssumption
    <2> QED BY <1>1, <2>1, <2>2, NoBytes DEF Parsed
  <1> QED BY <1>4, <1>5, <1>6, <1>7 DEF Typed

(* What is delivered fills the queue, and what is left over is lost.       *)
LEMMA DeliverIs ==
  ASSUME KernelTypes, NEW evs \in Seq(Carried), Deliver(evs)
  PROVE  fifo' \in Seq(Carried) /\ Len(fifo') <= FifoSize /\ flaw' \subseteq Flaws
  <1> DEFINE room == FifoSize - Len(fifo)
  <1>0. FifoSize \in Nat /\ Len(fifo) \in Nat /\ Len(evs) \in Nat /\ Len(fifo) <= FifoSize
        /\ fifo \in Seq(Carried) /\ flaw \subseteq Flaws
    BY RawmidiAssumption, LenProperties DEF RawmidiAssumption, KernelTypes
  <1>1. CASE Len(evs) <= room
    <2>1. fifo' = fifo \o evs /\ flaw' = flaw BY <1>1 DEF Deliver
    <2>2. fifo \o evs \in Seq(Carried) /\ Len(fifo \o evs) = Len(fifo) + Len(evs) BY <1>0, ConcatProperties
    <2> QED BY <1>0, <1>1, <2>1, <2>2
  <1>2. CASE ~(Len(evs) <= room)
    <2> DEFINE a == SubSeq(evs, 1, room)
    <2>1. fifo' = fifo \o a /\ flaw' = flaw \union Tear(SubSeq(evs, room + 1, Len(evs)))
      BY <1>2 DEF Deliver
    <2>2. room \in 0 .. Len(evs) BY <1>0, <1>2
    <2>3. a \in Seq(Carried) /\ Len(a) = room
      <3> HIDE DEF room
      <3> QED BY <2>2, PartsIs
    <2> HIDE DEF a
    <2>4. fifo \o a \in Seq(Carried) /\ Len(fifo \o a) = Len(fifo) + Len(a) BY <1>0, <2>3, ConcatProperties
    <2>5. \A x : Tear(x) \subseteq Flaws BY DEF Tear, Flaws
    <2> QED BY <1>0, <2>1, <2>3, <2>4, <2>5
  <1> QED BY <1>1, <1>2

(* What the kernel takes leaves less in the buffer.                        *)
LEMMA KernelWriteTyped ==
  ASSUME WInv, Typed, KernelWrite
  PROVE  Streamed' /\ fifo' \in Seq(Carried) /\ Len(fifo') <= FifoSize /\ flaw' \subseteq Flaws
  <1>0. owed \in Seq(Carried) /\ TotalOf("bytes", obuf) <= OutBufSize BY DEF Typed, Streamed
  <1>1. obuf \in Seq(Carried) /\ Len(owed) >= Len(obuf) BY <1>0, InCarried
  <1>2. PICK k \in 1 .. Len(obuf) :
          /\ obuf' = SubSeq(obuf, k + 1, Len(obuf))
          /\ owed' = SubSeq(owed, k + 1, Len(owed))
          /\ Deliver(SubSeq(obuf, 1, k))
    BY DEF KernelWrite
  <1>3. Len(obuf) \in Nat /\ Len(owed) \in Nat /\ k \in 0 .. Len(obuf) /\ k \in 0 .. Len(owed)
    BY <1>0, <1>1, LenProperties
  <1>4. /\ SubSeq(obuf, 1, k) \in Seq(Carried)
        /\ obuf' \in Seq(Carried) /\ PartOf(obuf', obuf, k)
    BY <1>1, <1>2, <1>3, PartsIs
  <1>5. owed' \in Seq(Carried) BY <1>0, <1>2, <1>3, PartsIs
  <1>6. TotalOf("bytes", obuf') \in Nat /\ TotalOf("bytes", obuf) \in Nat /\ TotalOf("bytes", obuf') <= TotalOf("bytes", obuf)
    <2> DEFINE b == obuf'
    <2>1. b \in Seq(Carried) /\ PartOf(b, obuf, k) BY <1>4
    <2> HIDE DEF b
    <2>2. TotalOf("bytes", b) \in Nat /\ TotalOf("bytes", obuf) \in Nat /\ TotalOf("bytes", b) <= TotalOf("bytes", obuf)
      BY <1>1, <2>1, TotalPart
    <2> QED BY <2>2 DEF b
  <1>7. OutBufSize \in Nat BY RawmidiAssumption DEF RawmidiAssumption
  <1>8. Streamed'
    <2>1. TotalOf("bytes", obuf') <= OutBufSize BY <1>0, <1>6, <1>7
    <2> QED BY <1>5, <2>1 DEF Streamed
  <1>9. KernelTypes BY DEF Typed
  <1> QED BY <1>2, <1>4, <1>8, <1>9, DeliverIs

(* What does not touch the output buffer leaves its events those of the    *)
(* stream.                                                                 *)
LEMMA StreamedStays ==
  ASSUME Typed, obuf' = obuf, owed' = owed
  PROVE  Streamed'
  BY DEF Typed, Streamed

(* Nor does what is not read change the parser.                            *)
LEMMA ParsedStays == ASSUME Typed, enc' = enc PROVE Parsed'
  BY DEF Typed, Parsed

(* A byte that does not overrun the buffer leaves the parser within it.    *)
LEMMA RecordedFits ==
  ASSUME NEW dev, Plain(dev), Bytes(dev.buf), Len(dev.buf) <= MidiBufSize,
         NEW c \in 0 .. 255, ~Overruns(dev, c)
  PROVE  /\ Bytes(EncodeByte(dev, c).dev.buf)
         /\ Len(EncodeByte(dev, c).dev.buf) <= MidiBufSize
  <1> DEFINE d == Recorded(dev, c)
             Fits(e) == Bytes(e.buf) /\ Len(e.buf) <= MidiBufSize
  <1>0. MidiBufSize \in Nat /\ MidiBufSize >= 3 BY MidiEventAssumption DEF MidiEventAssumption
  <1>1. /\ \A x : Bytes(<<x>>) /\ Len(<<x>>) = 1
        /\ \A x, y : Bytes(<<x, y>>) /\ Len(<<x, y>>) = 2
        /\ Bytes(<<>>) /\ Len(<<>>) = 0
    BY OneByte, TwoBytes, NoBytes
  <1>2. PICK T, Q, B : dev \in [type : T, qlen : Q, buf : B,
                                lastcmd : {NoStatus}, nostat : {FALSE}]
    BY DEF Plain
  <1>3. c < RealTime => Plain(d) /\ Fits(d)
    <2> SUFFICES ASSUME c < RealTime PROVE Plain(d) /\ Fits(d)
      OBVIOUS
    <2>1. ASSUME NEW e, NEW t, NEW b, NEW q, Bytes(b), Len(b) <= MidiBufSize,
                 \/ e = [dev EXCEPT !.type = t, !.buf = b, !.qlen = q]
                 \/ e = [dev EXCEPT !.buf = b, !.qlen = q]
          PROVE  Plain(e) /\ Fits(e)
      <3>1. \/ e \in [type : {t}, qlen : {q}, buf : {b}, lastcmd : {NoStatus}, nostat : {FALSE}]
            \/ e \in [type : T, qlen : {q}, buf : {b}, lastcmd : {NoStatus}, nostat : {FALSE}]
        BY <1>2, <2>1
      <3>2. e.buf = b BY <3>1
      <3>3. Plain(e) BY <3>1 DEF Plain
      <3> QED BY <2>1, <3>2, <3>3
    <2> HIDE DEF d
    <2>2. CASE BeginsMessage(dev, c)
      <3>1. PICK t, q : d = [dev EXCEPT !.type = t, !.buf = <<c>>, !.qlen = q]
        BY <2>2, Zenon DEF Recorded, d
      <3>2. Bytes(<<c>>) /\ Len(<<c>>) <= MidiBufSize BY <1>0, <1>1
      <3> QED BY <2>1, <3>1, <3>2
    <2>3. CASE ~BeginsMessage(dev, c) /\ dev.qlen > 0
      <3> DEFINE b == Append(dev.buf, c)
      <3>1. PICK q : d = [dev EXCEPT !.buf = b, !.qlen = q] BY <2>3 DEF Recorded, d
      <3>2. Len(dev.buf) < MidiBufSize /\ Len(dev.buf) \in Nat
        BY <1>0, <2>3, BytesLen DEF Overruns
      <3>3. Bytes(b) /\ Len(b) <= MidiBufSize
        <4>1. PICK S : dev.buf \in Seq(S) BY DEF Bytes
        <4>2. dev.buf \in Seq(S \union {c})
          <5>1. Seq(S) \subseteq Seq(S \union {c})
            <6> SUFFICES ASSUME NEW z \in Seq(S) PROVE z \in Seq(S \union {c}) OBVIOUS
            <6>1. z \in [1 .. Len(z) -> S] /\ Len(z) \in Nat BY LenProperties, ElementOfSeq
            <6>2. z \in [1 .. Len(z) -> S \union {c}] BY <6>1
            <6> QED BY <6>1, <6>2, SeqDef
          <5> QED BY <4>1, <5>1
        <4>3. b \in Seq(S \union {c}) /\ Len(b) = Len(dev.buf) + 1
          BY <4>2, AppendProperties
        <4> HIDE DEF b
        <4>4. Bytes(b) BY <4>3, BytesIs
        <4> QED BY <1>0, <3>2, <4>3, <4>4
      <3> HIDE DEF b
      <3> QED BY <2>1, <3>1, <3>3
    <2>4. CASE ~BeginsMessage(dev, c) /\ ~(dev.qlen > 0)
      <3>1. PICK x, q : d = [dev EXCEPT !.buf = <<x, c>>, !.qlen = q] BY <2>4 DEF Recorded, d
      <3>2. Bytes(<<x, c>>) /\ Len(<<x, c>>) <= MidiBufSize BY <1>0, <1>1
      <3> QED BY <2>1, <3>1, <3>2
    <2> QED BY <2>2, <2>3, <2>4
  <1> HIDE DEF d
  <1>4. c < RealTime => /\ Fits([d EXCEPT !.type = Invalid]) /\ Fits([d EXCEPT !.buf = <<>>])
                        /\ Fits(ResetEncode(d))
    <2> SUFFICES ASSUME c < RealTime
                 PROVE  /\ Fits([d EXCEPT !.type = Invalid]) /\ Fits([d EXCEPT !.buf = <<>>])
                        /\ Fits(ResetEncode(d))
      OBVIOUS
    <2>1. PICK T1, Q1, B1 : d \in [type : T1, qlen : Q1, buf : B1,
                                   lastcmd : {NoStatus}, nostat : {FALSE}]
      BY <1>3 DEF Plain
    <2>2. [d EXCEPT !.type = Invalid].buf = d.buf /\ [d EXCEPT !.buf = <<>>].buf = <<>>
          /\ ResetEncode(d).buf = <<>>
      BY <2>1 DEF ResetEncode
    <2> QED BY <1>0, <1>1, <1>3, <2>2
  <1>5. c \in Int /\ RealTime \in Int BY DEF RealTime
  <1>6. CASE c >= RealTime
    <2>1. ~(c < RealTime) BY <1>5, <1>6
    <2>2. EncodeByte(dev, c) = [dev |-> dev, ev |-> Event(EventOf(c - SysexStart + Special), 0, <<>>)]
      BY <1>6, <2>1, Zenon DEF EncodeByte
    <2>3. EncodeByte(dev, c).dev = dev BY <2>2
    <2> QED BY <2>3
  <1>7. CASE c < RealTime
    <2>1. EncodeByte(dev, c).dev \in {d, [d EXCEPT !.type = Invalid], [d EXCEPT !.buf = <<>>], ResetEncode(d)}
      BY <1>5, <1>7 DEF EncodeByte, d
    <2>2. Fits(EncodeByte(dev, c).dev) BY <1>3, <1>4, <1>7, <2>1
    <2> QED BY <2>2
  <1> QED BY <1>5, <1>6, <1>7

(* The steps that touch only the writer keep the types.                    *)
LEMMA WriterOnlyTyped ==
  ASSUME Typed, Streamed', Parsed', WriterOnly
  PROVE  Typed'
  <1>1. KernelTypes' BY DEF WriterOnly, kernel, Typed, KernelTypes
  <1>2. ReaderTypes' BY DEF WriterOnly, reader, Typed, ReaderTypes
  <1> QED BY <1>1, <1>2 DEF Typed

(* A byte completes the event that the stream names.                       *)
LEMMA EncodeBytesTyped == ASSUME WInv, Typed, EncodeBytes PROVE Typed'
  <1>1. obuf' = obuf /\ WriterOnly BY DEF EncodeBytes
  <1>2. \/ owed' = owed /\ enc' = enc
        \/ /\ pos < Len(script) /\ (owed' = owed \/ owed' = Append(owed, script[pos + 1].ev))
           /\ ~Overruns(enc, script[pos + 1].byte)
           /\ enc' = EncodeByte(enc, script[pos + 1].byte).dev
    <2>1. CASE owed' = owed /\ enc' = enc BY <2>1
    <2>2. CASE /\ wcall.left # 0 /\ ~Overruns(enc, script[pos + 1].byte)
               /\ enc' = EncodeByte(enc, script[pos + 1].byte).dev
               /\ owed' = IF script[pos + 1].ev = NoEvent THEN owed ELSE Append(owed, script[pos + 1].ev)
      <3>1. pos + wcall.left <= Len(script) /\ wcall.left \in Nat /\ pos \in Nat /\ Len(script) \in Nat
        <4>1. script \in Scripts BY DEF WInv, WriterTypes
        <4>2. Len(script) \in Nat BY <4>1, Streams
        <4> QED BY <4>2 DEF WInv, WriterTypes, Held
      <3>2. pos < Len(script) BY <2>2, <3>1
      <3> QED BY <2>2, <3>2
    <2> QED BY <2>1, <2>2 DEF EncodeBytes
  <1>3. owed \in Seq(Carried) /\ TotalOf("bytes", obuf) <= OutBufSize BY DEF Typed, Streamed
  <1>4. owed' \in Seq(Carried)
    <2>1. CASE owed' = owed BY <2>1, <1>3
    <2>2. CASE pos < Len(script) /\ owed' = Append(owed, script[pos + 1].ev)
      <3>1. script \in Scripts /\ pos \in Nat BY DEF WInv, WriterTypes
      <3>2. Len(script) \in Nat /\ \A i \in 1 .. Len(script) : script[i].ev \in Carried BY <3>1, Streams
      <3>3. script[pos + 1].ev \in Carried
        <4>1. pos + 1 \in 1 .. Len(script) BY <2>2, <3>1, <3>2
        <4> QED BY <3>2, <4>1
      <3> QED BY <1>3, <2>2, <3>3, AppendProperties
    <2> QED BY <1>2, <2>1, <2>2
  <1>5. Streamed' BY <1>1, <1>3, <1>4 DEF Streamed
  <1>6. Parsed'
    <2>1. CASE enc' = enc BY <2>1, ParsedStays
    <2>2. CASE /\ pos < Len(script) /\ ~Overruns(enc, script[pos + 1].byte)
               /\ enc' = EncodeByte(enc, script[pos + 1].byte).dev
      <3>1. script \in Scripts /\ pos \in Nat /\ Plain(enc) BY DEF WInv, WriterTypes, Followed
      <3>2. Len(script) \in Nat /\ pos + 1 \in 1 .. Len(script) BY <2>2, <3>1, Streams
      <3>3. script[pos + 1].byte \in 0 .. 255
        <4> DEFINE R == [byte : 0 .. 255, ev : Carried]
        <4>1. script \in Seq(R) BY <3>1, RawmidiAssumption DEF RawmidiAssumption
        <4> HIDE DEF R
        <4>2. script[pos + 1] \in R BY <3>2, <4>1, ElementOfSeq
        <4> QED BY <4>2 DEF R
      <3> QED BY <2>2, <3>1, <3>3, RecordedFits DEF Typed, Parsed
    <2> QED BY <1>2, <2>1, <2>2
  <1> QED BY <1>1, <1>5, <1>6, WriterOnlyTyped

(* An event goes to the buffer only when there is room for it.             *)
LEMMA OutputTyped == ASSUME WInv, Typed, Output PROVE Typed'
  <1>1. WriterOnly /\ owed' = owed /\ wpc = "output" /\ Parsed' BY ParsedStays DEF Output
  <1>2. owed \in Seq(Carried) /\ TotalOf("bytes", obuf) <= OutBufSize BY DEF Typed, Streamed
  <1>3. obuf \in Seq(Carried) /\ wcall.ev \in Carried BY <1>1, <1>2, InCarried
  <1>4. CASE Total(Length, obuf) + Length(wcall.ev) <= OutBufSize
    <2>1. obuf' = Append(obuf, wcall.ev) BY <1>4 DEF Output
    <2>2. TotalOf("bytes", Append(obuf, wcall.ev)) = TotalOf("bytes", obuf) + SizeOf("bytes", wcall.ev)
      BY <1>3, TotalAppend
    <2>3. TotalOf("bytes", obuf) = Total(Length, obuf) /\ SizeOf("bytes", wcall.ev) = Length(wcall.ev)
      <3>1. "bytes" # "cells" OBVIOUS
      <3> QED BY <3>1, Zenon DEF TotalOf, SizeOf
    <2>4. TotalOf("bytes", Append(obuf, wcall.ev)) <= OutBufSize BY <1>4, <2>2, <2>3
    <2>5. Streamed' BY <1>1, <1>2, <2>1, <2>4 DEF Streamed
    <2> QED BY <1>1, <2>5, WriterOnlyTyped
  <1>5. CASE ~(Total(Length, obuf) + Length(wcall.ev) <= OutBufSize)
    <2>1. obuf' = obuf BY <1>5 DEF Output
    <2> QED BY <1>1, <2>1, StreamedStays, WriterOnlyTyped
  <1> QED BY <1>4, <1>5

(* The kernel's part of a step of the writer.                              *)
LEMMA KernelStepTyped ==
  ASSUME WInv, Typed, UNCHANGED <<reader, others, enc>>,
         \/ KernelWrite
         \/ /\ UNCHANGED <<obuf, fifo>> /\ owed' \in Seq(Carried)
            /\ flaw' \subseteq Flaws
  PROVE  Typed'
  <1>1. ReaderTypes' BY DEF reader, Typed, ReaderTypes
  <1>2. CASE KernelWrite
    <2>1. Streamed' /\ fifo' \in Seq(Carried) /\ Len(fifo') <= FifoSize /\ flaw' \subseteq Flaws
      BY <1>2, KernelWriteTyped
    <2>2. KernelTypes' BY <2>1 DEF Typed, KernelTypes
    <2> QED BY <1>1, <2>1, <2>2, ParsedStays DEF Typed
  <1>3. CASE UNCHANGED <<obuf, fifo>> /\ owed' \in Seq(Carried) /\ flaw' \subseteq Flaws
    <2>1. KernelTypes' BY <1>3 DEF Typed, KernelTypes
    <2>2. Streamed' BY <1>3 DEF Typed, Streamed
    <2> QED BY <1>1, <2>1, <2>2, ParsedStays DEF Typed
  <1> QED BY <1>2, <1>3

(* The drain that makes room.                                              *)
LEMMA MakeRoomTyped == ASSUME WInv, Typed, MakeRoom PROVE Typed'
  <1>1. UNCHANGED <<reader, others, enc>> /\ wpc = "room" BY DEF MakeRoom
  <1>2. owed \in Seq(Carried) /\ flaw \subseteq Flaws BY DEF Typed, Streamed, KernelTypes
  <1>3. CASE KernelWrite BY <1>1, <1>3, KernelStepTyped
  <1>4. CASE UNCHANGED <<obuf, owed, fifo, flaw>> BY <1>1, <1>2, <1>4, KernelStepTyped
  <1>5. CASE UNCHANGED <<obuf, fifo>> /\ \E err : PutBy(err)
    <2>1. CASE UNCHANGED <<owed, flaw>> BY <1>4, <1>5, <2>1
    <2>2. CASE owed' = Front(owed) /\ flaw' = flaw \union Tear(<<wcall.ev>>)
      <3>1. obuf \in Seq(Carried) /\ wcall.ev \in Carried BY <1>1, <1>2, InCarried
      <3>2. owed = obuf \o <<wcall.ev>> BY <1>1 DEF WInv, WriterKeepsOrder, InHand
      <3>3. owed' = obuf
        <4> HIDE DEF Carried
        <4> QED BY <2>2, <3>1, <3>2, FrontOfAppend
      <3>4. flaw' \subseteq Flaws BY <1>2, <2>2 DEF Tear, Flaws
      <3> QED BY <1>1, <1>5, <3>1, <3>3, <3>4, KernelStepTyped
    <2> QED BY <1>5, <2>1, <2>2 DEF PutBy
  <1> QED BY <1>3, <1>4, <1>5 DEF MakeRoom, KernelRefuses

(* The drain that ends a call.                                             *)
LEMMA FlushTyped == ASSUME WInv, Typed, Flush PROVE Typed'
  <1>1. UNCHANGED <<reader, others, enc>> BY DEF Flush
  <1>2. owed \in Seq(Carried) /\ flaw \subseteq Flaws BY DEF Typed, Streamed, KernelTypes
  <1>3. KernelWrite \/ UNCHANGED <<obuf, owed, fifo, flaw>> BY DEF Flush, KernelRefuses
  <1> QED BY <1>1, <1>2, <1>3, KernelStepTyped

(* Dropping the output.                                                    *)
LEMMA DropOutputTyped == ASSUME WInv, Typed, DropOutput PROVE Typed'
  <1>1. obuf' = <<>> /\ owed' = <<>> /\ WriterOnly BY DEF DropOutput
  <1>2. <<>> \in Seq(Carried) BY EmptySeq
  <1>3. OutBufSize \in Nat BY RawmidiAssumption DEF RawmidiAssumption
  <1>4. TotalOf("bytes", <<>>) <= OutBufSize BY <1>3, TotalNil
  <1>5. Streamed' BY <1>1, <1>2, <1>4 DEF Streamed
  <1>6. Parsed'
    <2>1. enc' = NewParser(FALSE) BY NewIsPlain DEF DropOutput, WInv, Followed
    <2>2. enc'.buf = <<>> BY <2>1 DEF NewParser
    <2>3. MidiBufSize \in Nat BY MidiEventAssumption DEF MidiEventAssumption
    <2>4. Len(<<>>) = 0 /\ 0 <= MidiBufSize BY <2>3
    <2> QED BY <2>2, <2>4, NoBytes DEF Parsed
  <1> QED BY <1>1, <1>5, <1>6, WriterOnlyTyped

(* Another client sends an event to the reader.                            *)
LEMMA OtherClientTyped == ASSUME Typed, NEW ev, OtherClient(ev) PROVE Typed'
  <1>1. /\ ev \in others /\ others' = others \ {ev} /\ Deliver(<<ev>>)
        /\ UNCHANGED <<writer, reader>>
    BY DEF OtherClient
  <1>2. KernelTypes BY DEF Typed
  <1>3. <<ev>> \in Seq(Carried)
    <2>1. ev \in Carried BY <1>1, <1>2 DEF KernelTypes
    <2> HIDE DEF Carried
    <2> QED BY <2>1
  <1>4. fifo' \in Seq(Carried) /\ Len(fifo') <= FifoSize /\ flaw' \subseteq Flaws BY <1>1, <1>2, <1>3, DeliverIs
  <1>5. KernelTypes' BY <1>1, <1>2, <1>4 DEF KernelTypes
  <1>6. Streamed' /\ Parsed' BY <1>1, StreamedStays, ParsedStays DEF writer
  <1>7. ReaderTypes' BY <1>1 DEF reader, Typed, ReaderTypes
  <1> QED BY <1>5, <1>6, <1>7 DEF Typed

------------------------------------------------------------------------------
(* The reader.                                                             *)
LEMMA ReaderOnlyTyped ==
  ASSUME Typed, ReaderOnly, ReaderTypes', fifo' \in Seq(Carried), Len(fifo') <= FifoSize, flaw' \subseteq Flaws
  PROVE  Typed'
  <1>1. Streamed' /\ Parsed'
    <2>1. obuf' = obuf /\ owed' = owed /\ enc' = enc BY DEF ReaderOnly, writer
    <2> QED BY <2>1, StreamedStays, ParsedStays
  <1>2. KernelTypes' BY DEF ReaderOnly, Typed, KernelTypes
  <1> QED BY <1>1, <1>2 DEF Typed

(* A read begins.                                                          *)
LEMMA ReadTyped == ASSUME Typed, NEW n \in ReadSizes, Read(n) PROVE Typed'
  <1>1. n \in Nat BY RawmidiAssumption DEF RawmidiAssumption
  <1>2. ReaderOnly /\ UNCHANGED <<ibuf, inbytes, ofs, fifo, flaw>>
        /\ rpc' = (IF ofs = 0 THEN "fetch" ELSE "copy") /\ rcall' = [size |-> n, result |-> 0]
    BY DEF Read
  <1>3. ReaderTypes' BY <1>1, <1>2 DEF Typed, ReaderTypes
  <1> QED BY <1>2, <1>3, ReaderOnlyTyped DEF Typed, KernelTypes

(* The events left are as many less one, and the event's bytes are some.   *)
LEMMA TakeIs ==
  ASSUME Typed, NEW evs \in Seq(Carried), evs # <<>>, TotalOf("cells", evs) <= InBufCells, Take(evs)
  PROVE  /\ ibuf' \in Seq(Carried) /\ TotalOf("cells", ibuf') <= InBufCells
         /\ Bytes(inbytes') /\ rpc' \in {"fetch", "copy"} /\ flaw' \subseteq Flaws
  <1> DEFINE ev == Head(evs)
             b == IF ev.type = "SYSEX" THEN ev.data ELSE Decode(dec, ev).bytes
  <1>0. Len(evs) \in Nat /\ Len(evs) > 0 BY LenProperties, EmptySeq
  <1>1. ev \in Carried /\ Tail(evs) \in Seq(Carried) BY HeadTailProperties
  <1>2. PartOf(Tail(evs), evs, 1)
    <2>1. Len(Tail(evs)) = Len(evs) - 1 /\ \A i \in 1 .. Len(Tail(evs)) : Tail(evs)[i] = evs[i + 1]
      BY HeadTailProperties
    <2>2. 1 \in 0 .. Len(evs) /\ 1 + Len(Tail(evs)) <= Len(evs) BY <1>0, <2>1
    <2>3. \A i \in 1 .. Len(Tail(evs)) : i + 1 = 1 + i OBVIOUS
    <2> QED BY <2>1, <2>2, <2>3 DEF PartOf
  <1>3. TotalOf("cells", Tail(evs)) <= InBufCells
    <2>1. TotalOf("cells", Tail(evs)) \in Nat /\ TotalOf("cells", evs) \in Nat
          /\ TotalOf("cells", Tail(evs)) <= TotalOf("cells", evs)
      BY <1>1, <1>2, TotalPart
    <2>2. InBufCells \in Nat BY RawmidiAssumption DEF RawmidiAssumption
    <2> QED BY <2>1, <2>2
  <1>4. Bytes(b)
    <2>1. Bytes(ev.data)
      <3>1. ev \in Events BY <1>1 DEF Carried
      <3> QED BY <3>1, DataIsBytes
    <2>2. Bytes(Decode(dec, ev).bytes) BY <1>1, DecodeBytes
    <2> QED BY <2>1, <2>2
  <1>5. ibuf' = Tail(evs) /\ inbytes' = b
    <2> DEFINE step == IF ev.type = "SYSEX" THEN [dev |-> dec, bytes |-> ev.data] ELSE Decode(dec, ev)
    <2>1. ibuf' = Tail(evs) /\ inbytes' = step.bytes BY DEF Take
    <2>2. step.bytes = b
      <3> HIDE DEF ev
      <3> QED OBVIOUS
    <2> QED BY <2>1, <2>2
  <1>6. rpc' \in {"fetch", "copy"} BY DEF Take
  <1>7. flaw' \subseteq Flaws
    <2>1. flaw \subseteq Flaws BY DEF Typed, KernelTypes
    <2>2. \E x, y \in SUBSET {"stale", "torn"} : flaw' = flaw \/ flaw' = flaw \union x \union y
      <3>1. \E p, q \in BOOLEAN : flaw' = flaw \/ flaw' = flaw \union (IF p THEN {"stale"} ELSE {})
                                                        \union (IF q THEN {"torn"} ELSE {})
        <4> DEFINE step == IF ev.type = "SYSEX" THEN [dev |-> dec, bytes |-> ev.data] ELSE Decode(dec, ev)
                   p == step.bytes # <<>> /\ step.bytes[1] < 128 /\ echo.type = Invalid
                   q == step.bytes # <<>> /\ step.bytes[1] < RealTime /\ echo.type = Special
        <4>1. flaw' = IF ev.type = "SYSEX" THEN flaw
                      ELSE flaw \union (IF p THEN {"stale"} ELSE {}) \union (IF q THEN {"torn"} ELSE {})
          BY Zenon DEF Take
        <4> HIDE DEF p, q
        <4> QED BY <4>1
      <3> QED BY <3>1
    <2> QED BY <2>1, <2>2 DEF Flaws
  <1> QED BY <1>1, <1>3, <1>4, <1>5, <1>6, <1>7

(* The input buffer is filled from the kernel.                             *)
LEMMA FetchTyped == ASSUME Typed, Fetch PROVE Typed'
  <1>1. ReaderOnly /\ ofs' = ofs /\ rpc = "fetch" BY DEF Fetch
  <1>2. ReaderTypes /\ KernelTypes /\ ofs = 0 BY <1>1 DEF Typed, ReaderTypes
  <1>3. ASSUME NEW evs \in Seq(Carried), evs # <<>>, TotalOf("cells", evs) <= InBufCells, Take(evs),
               rcall' = rcall
        PROVE  ReaderTypes' /\ flaw' \subseteq Flaws
    <2>1. /\ ibuf' \in Seq(Carried) /\ TotalOf("cells", ibuf') <= InBufCells
          /\ Bytes(inbytes') /\ rpc' \in {"fetch", "copy"} /\ flaw' \subseteq Flaws
      BY <1>3, TakeIs
    <2>2. Len(inbytes') \in Nat
      <3> DEFINE b == inbytes'
      <3>1. Bytes(b) BY <2>1
      <3> HIDE DEF b
      <3>2. Len(b) \in Nat BY <3>1, BytesLen
      <3> QED BY <3>2 DEF b
    <2>3. ofs' \in 0 .. Len(inbytes') /\ ofs' = 0 BY <1>1, <1>2, <2>2
    <2>4. rcall' \in [size : Nat, result : Nat] BY <1>2, <1>3 DEF ReaderTypes
    <2> QED BY <2>1, <2>3, <2>4 DEF ReaderTypes
  <1>4. CASE ibuf # <<>> /\ Take(ibuf) /\ UNCHANGED <<fifo, overrun, rcall>>
    <2>1. ReaderTypes' /\ flaw' \subseteq Flaws BY <1>2, <1>3, <1>4 DEF ReaderTypes
    <2> QED BY <1>1, <1>2, <1>4, <2>1, ReaderOnlyTyped DEF KernelTypes
  <1>5. CASE /\ ibuf = <<>> /\ fifo # <<>> /\ ~overrun
             /\ Take(SubSeq(fifo, 1, Fill))
             /\ fifo' = SubSeq(fifo, Fill + 1, Len(fifo))
             /\ UNCHANGED <<overrun, rcall>>
    <2> DEFINE n == Fill
               evs == SubSeq(fifo, 1, n)
    <2>0. fifo \in Seq(Carried) /\ Len(fifo) \in Nat /\ Len(fifo) <= FifoSize /\ FifoSize \in Nat
      BY <1>2, LenProperties, RawmidiAssumption DEF KernelTypes, RawmidiAssumption
    <2>1. n \in 1 .. Len(fifo) /\ TotalOf("cells", evs) <= InBufCells BY <1>5, <2>0, FillIs
    <2>2. Take(evs) /\ fifo' = SubSeq(fifo, n + 1, Len(fifo)) /\ rcall' = rcall BY <1>5
    <2> HIDE DEF n
    <2>3. /\ evs \in Seq(Carried) /\ Len(evs) = n
          /\ SubSeq(fifo, n + 1, Len(fifo)) \in Seq(Carried)
          /\ Len(SubSeq(fifo, n + 1, Len(fifo))) = Len(fifo) - n
      <3>1. n \in 0 .. Len(fifo) BY <2>1
      <3> QED BY <2>0, <3>1, PartsIs
    <2> HIDE DEF evs
    <2>4. evs # <<>>
      <3>1. Len(evs) # 0 BY <2>1, <2>3
      <3> QED BY <2>3, <3>1, EmptySeq
    <2>5. ReaderTypes' /\ flaw' \subseteq Flaws BY <1>3, <2>1, <2>2, <2>3, <2>4
    <2>6. fifo' \in Seq(Carried) /\ Len(fifo') <= FifoSize BY <2>0, <2>1, <2>2, <2>3
    <2> QED BY <1>1, <2>5, <2>6, ReaderOnlyTyped
  <1>6. CASE /\ ibuf = <<>> /\ overrun
             /\ fifo' = <<>>
             /\ overrun' = FALSE
             /\ flaw' = flaw \union Tear(fifo)
             /\ IF rcall.result > 0 THEN rpc' = "idle" /\ rcall' = NoRead
                                    ELSE UNCHANGED <<rpc, rcall>>
             /\ UNCHANGED <<dec, ibuf, inbytes, due>>
    <2>1. <<>> \in Seq(Carried) /\ Len(<<>>) = 0 /\ FifoSize \in Nat BY EmptySeq, RawmidiAssumption DEF RawmidiAssumption
    <2>2. fifo' \in Seq(Carried) /\ Len(fifo') <= FifoSize BY <1>6, <2>1
    <2>3. flaw' \subseteq Flaws BY <1>2, <1>6 DEF KernelTypes, Tear, Flaws
    <2>4. ReaderTypes' BY <1>1, <1>2, <1>6 DEF ReaderTypes, NoRead
    <2> QED BY <1>1, <2>2, <2>3, <2>4, ReaderOnlyTyped
  <1>7. CASE /\ ibuf = <<>> /\ fifo = <<>>
             /\ rcall.result > 0 \/ nonblock
             /\ rpc' = "idle"
             /\ rcall' = NoRead
             /\ UNCHANGED <<dec, ibuf, inbytes, due, fifo, overrun, flaw>>
    <2>1. ReaderTypes' BY <1>1, <1>2, <1>7 DEF ReaderTypes, NoRead
    <2> QED BY <1>1, <1>2, <1>7, <2>1, ReaderOnlyTyped DEF KernelTypes
  <1> QED BY <1>4, <1>5, <1>6, <1>7 DEF Fetch

(* What is copied is what there is, or what was asked for.                 *)
LEMMA CopyTyped == ASSUME Typed, Copy PROVE Typed'
  <1> DEFINE size == Len(inbytes) - ofs
             part == size > rcall.size
  <1>0. ReaderTypes /\ KernelTypes /\ ReaderOnly BY DEF Typed, Copy
  <1>1. Len(inbytes) \in Nat /\ ofs \in 0 .. Len(inbytes) /\ rcall.size \in Nat /\ rcall.result \in Nat
    BY <1>0, BytesLen DEF ReaderTypes
  <1>2. /\ ofs' = IF part THEN ofs + size - rcall.size ELSE 0
        /\ rcall' = IF part \/ size = rcall.size THEN NoRead
                    ELSE [size |-> rcall.size - size, result |-> rcall.result + size]
        /\ rpc' = IF part \/ size = rcall.size THEN "idle" ELSE "fetch"
        /\ inbytes' = IF part THEN inbytes ELSE <<>>
        /\ ibuf' = ibuf /\ fifo' = fifo
    BY DEF Copy
  <1>3. flaw' \subseteq Flaws
    <2>1. \E x \in SUBSET {"cut"}, y \in SUBSET {"garbled"} : flaw' = flaw \union x \union y
      <3> DEFINE out == IF part THEN SubSeq(inbytes, 1, rcall.size) ELSE SubSeq(inbytes, ofs + 1, Len(inbytes))
                 wrong == part /\ (ofs > 0 \/ size # 2 * rcall.size)
                 x == IF wrong THEN {"cut"} ELSE {}
                 y == IF Heard(out).garbled THEN {"garbled"} ELSE {}
      <3>1. flaw' = flaw \union x \union y BY Zenon DEF Copy
      <3>2. x \in SUBSET {"cut"}
        <4> HIDE DEF wrong
        <4> QED OBVIOUS
      <3>3. y \in SUBSET {"garbled"}
        <4> HIDE DEF out
        <4> QED OBVIOUS
      <3> HIDE DEF x, y
      <3> QED BY <3>1, <3>2, <3>3
    <2> QED BY <1>0, <2>1 DEF KernelTypes, Flaws
  <1>4. ibuf' \in Seq(Carried) /\ TotalOf("cells", ibuf') <= InBufCells
    BY <1>0, <1>2 DEF ReaderTypes
  <1>5. fifo' \in Seq(Carried) /\ Len(fifo') <= FifoSize BY <1>0, <1>2 DEF KernelTypes
  <1>6. ReaderTypes'
    <2>1. CASE part
      <3>1. inbytes' = inbytes /\ rpc' = "idle" /\ rcall' = NoRead /\ ofs' = ofs + size - rcall.size
        BY <1>2, <2>1
      <3>2. ofs' \in 0 .. Len(inbytes) BY <1>1, <2>1, <3>1
      <3>3. Bytes(inbytes) BY <1>0 DEF ReaderTypes
      <3> HIDE DEF size, part
      <3> QED BY <1>4, <3>1, <3>2, <3>3 DEF ReaderTypes, NoRead
    <2>2. CASE ~part
      <3>1. inbytes' = <<>> /\ ofs' = 0 /\ rpc' \in {"idle", "fetch"} BY <1>2, <2>2
      <3>2. size \in Nat /\ rcall.size - size \in Nat BY <1>1, <2>2
      <3>3. rcall' \in [size : Nat, result : Nat]
        <4>1. NoRead \in [size : Nat, result : Nat] BY DEF NoRead
        <4>2. rcall.result + size \in Nat BY <1>1, <3>2
        <4> HIDE DEF size
        <4>3. [size |-> rcall.size - size, result |-> rcall.result + size] \in [size : Nat, result : Nat]
          BY <3>2, <4>2
        <4> QED BY <1>2, <2>2, <4>1, <4>3
      <3>4. Len(<<>>) = 0 /\ 0 \in 0 .. 0 OBVIOUS
      <3> HIDE DEF size, part
      <3> QED BY <1>4, <3>1, <3>3, <3>4, NoBytes DEF ReaderTypes
    <2> QED BY <2>1, <2>2
  <1> QED BY <1>0, <1>3, <1>5, <1>6, ReaderOnlyTyped

(* Dropping the input.                                                     *)
LEMMA DropInputTyped == ASSUME Typed, DropInput PROVE Typed'
  <1>1. /\ rpc = "idle" /\ ibuf' = <<>> /\ fifo' = <<>> /\ ofs' = 0 /\ inbytes' = <<>>
        /\ rpc' = rpc /\ rcall' = rcall /\ ReaderOnly
    BY DEF DropInput
  <1>2. <<>> \in Seq(Carried) /\ Len(<<>>) = 0 /\ FifoSize \in Nat /\ InBufCells \in Nat
    BY EmptySeq, RawmidiAssumption DEF RawmidiAssumption
  <1>3. TotalOf("cells", <<>>) <= InBufCells BY <1>2, TotalNil
  <1>4. ReaderTypes' BY <1>1, <1>2, <1>3, NoBytes DEF Typed, ReaderTypes
  <1>5. flaw' \subseteq Flaws BY DEF DropInput, Typed, KernelTypes, Tear, Flaws
  <1>6. fifo' \in Seq(Carried) /\ Len(fifo') <= FifoSize BY <1>1, <1>2
  <1> QED BY <1>1, <1>4, <1>5, <1>6, ReaderOnlyTyped

(* So every step keeps them.                                               *)
LEMMA NextTyped == ASSUME WInv, Typed, [Next]_vars PROVE Typed'
  <1>1. ASSUME NEW n \in WriteSizes, Write(n) PROVE Typed'
    <2>1. WriterOnly /\ obuf' = obuf /\ owed' = owed /\ enc' = enc BY <1>1 DEF Write
    <2> QED BY <2>1, StreamedStays, ParsedStays, WriterOnlyTyped
  <1>2. ASSUME NEW n \in ReadSizes, Read(n) PROVE Typed' BY <1>2, ReadTyped
  <1>3. CASE Drop BY <1>3, DropOutputTyped DEF Drop
  <1>4. CASE Drain
    <2>1. WriterOnly /\ obuf' = obuf /\ owed' = owed /\ enc' = enc BY <1>4 DEF Drain
    <2> QED BY <2>1, StreamedStays, ParsedStays, WriterOnlyTyped
  <1>5. CASE DropInput BY <1>5, DropInputTyped
  <1>6. CASE EncodeBytes BY <1>6, EncodeBytesTyped
  <1>7. CASE Output BY <1>7, OutputTyped
  <1>8. CASE MakeRoom BY <1>8, MakeRoomTyped
  <1>9. CASE Flush BY <1>9, FlushTyped
  <1>10. CASE DrainDrop BY <1>10, DropOutputTyped DEF DrainDrop
  <1>11. CASE Fetch BY <1>11, FetchTyped
  <1>12. CASE Copy BY <1>12, CopyTyped
  <1>13. ASSUME NEW ev \in Others, OtherClient(ev) PROVE Typed' BY <1>13, OtherClientTyped
  <1>14. CASE UNCHANGED vars
    <2>1. Streamed' /\ Parsed' BY <1>14, StreamedStays, ParsedStays DEF vars, writer
    <2>2. KernelTypes' BY <1>14 DEF vars, kernel, Typed, KernelTypes
    <2>3. ReaderTypes' BY <1>14 DEF vars, reader, Typed, ReaderTypes
    <2> QED BY <2>1, <2>2, <2>3 DEF Typed
  <1> QED
    BY <1>1, <1>2, <1>3, <1>4, <1>5, <1>6, <1>7, <1>8, <1>9, <1>10, <1>11, <1>12, <1>13, <1>14
    DEF Next, WriterStep, ReaderStep

(***************************************************************************)
(* The output buffer never holds more bytes than it has (seq.c:3854), nor  *)
(* the input buffer more cells than a read may fill (seq.c:4019), a sysex  *)
(* of several cells included; and the offset of a read stays within the    *)
(* event it is in (rawmidi_virt.c:264).                                    *)
(***************************************************************************)
THEOREM SpecTypeOK ==
  ASSUME \A s \in Scripts : Spelled(s)
  PROVE  Spec => []TypeOK
  <1>1. Init => WInv /\ Typed BY InitWInv, InitTyped
  <1>2. WInv /\ Typed /\ [Next]_vars => WInv' /\ Typed' BY NextWInv, NextTyped
  <1>3. WInv /\ Typed => TypeOK BY TypedIs
  <1> QED BY <1>1, <1>2, <1>3, PTL DEF Spec
===============================================================================
