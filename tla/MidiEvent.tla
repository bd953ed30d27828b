------------------------------- MODULE MidiEvent -------------------------------
(***************************************************************************)
(* The parser of seq_midi_event.c, which turns a stream of MIDI bytes into *)
(* sequencer events and sequencer events into MIDI bytes.  A parser is a   *)
(* record; each function of the file is an operator from a parser to what  *)
(* becomes of it.                                                          *)
(***************************************************************************)
EXTENDS Integers, SequencesExt

CONSTANTS
  MidiBufSize,  (* dev->bufsize.                                           *)
  SizeWord      (* size_t counts modulo this.                              *)

(* A three byte message is stored without a look at bufsize.               *)
ASSUME MidiEventAssumption ==
  /\ MidiBufSize \in Nat /\ MidiBufSize >= 3
  /\ SizeWord \in Nat /\ SizeWord > MidiBufSize + 3

Invalid  == 7    (* ST_INVALID                                             *)
Special  == 8    (* ST_SPECIAL, ST_SYSEX: the types from here are 0xf0 ..  *)
NoStatus == 255  (* what lastcmd is when there is no running status        *)

SysexStart == 240   SysexEnd == 247   RealTime == 248   Control == 176

(* status_event[]: the event of each type and its number of data bytes.    *)
StatusEvent ==
  << <<"NOTEOFF", 2>>, <<"NOTEON", 2>>, <<"KEYPRESS", 2>>, <<"CONTROLLER", 2>>,
     <<"PGMCHANGE", 1>>, <<"CHANPRESS", 1>>, <<"PITCHBEND", 2>>,
     <<"NONE", -1>>,
     <<"SYSEX", 1>>, <<"QFRAME", 1>>, <<"SONGPOS", 2>>, <<"SONGSEL", 1>>,
     <<"NONE", -1>>, <<"NONE", -1>>, <<"TUNE_REQUEST", 0>>, <<"NONE", -1>>,
     <<"CLOCK", 0>>, <<"NONE", -1>>, <<"START", 0>>, <<"CONTINUE", 0>>,
     <<"STOP", 0>>, <<"NONE", -1>>, <<"SENSING", 0>>, <<"RESET", 0>> >>

EventOf(type) == StatusEvent[type + 1][1]
Qlen(type)    == StatusEvent[type + 1][2] % SizeWord

(* What a channel message says is the channel and its data; a system       *)
(* message has no channel.                                                 *)
Event(type, channel, data) == [type |-> type, channel |-> channel, data |-> data]
NoEvent == Event("NONE", 0, <<>>)

NewParser(nostat) ==
  [type |-> Invalid, qlen |-> 0, buf |-> <<>>, lastcmd |-> NoStatus, nostat |-> nostat]

(* A message begun is dropped, and there is no running status.             *)
ResetEncode(dev) == [dev EXCEPT !.type = Invalid, !.qlen = 0, !.buf = <<>>]
ResetDecode(dev) == [dev EXCEPT !.lastcmd = NoStatus]

------------------------------------------------------------------------------
(* Bytes to events.                                                        *)

(* The encode column of status_event[].                                    *)
Encoded(type, buf) ==
  LET value == CASE EventOf(type) = "PITCHBEND" -> <<buf[3] * 128 + buf[2] - 8192>>
                 [] EventOf(type) = "SONGPOS" -> <<buf[3] * 128 + buf[2]>>
                 [] OTHER -> Tail(buf)
  IN  Event(EventOf(type), IF type < Invalid THEN buf[1] % 16 ELSE 0, value)

(* A byte with the top bit set begins a message, except the end of a       *)
(* running sysex.                                                          *)
BeginsMessage(dev, c) == c >= 128 /\ ~(c = SysexEnd /\ dev.type = Special)

(* Any other belongs to the message begun, or begins one of the last       *)
(* status.  Data that belongs to no message is stored as well, and qlen,   *)
(* which was -1 or -2, counts down from the top of its word.  (What is left*)
(* in the first byte of the buffer without a status is not read; it is     *)
(* written 0.)                                                             *)
Recorded(dev, c) ==
  LET type == IF c >= SysexStart THEN c - SysexStart + Special ELSE (c \div 16) - 8
  IN  CASE BeginsMessage(dev, c) ->
             [dev EXCEPT !.type = type, !.buf = <<c>>, !.qlen = Qlen(type)]
        [] ~BeginsMessage(dev, c) /\ dev.qlen > 0 ->
             [dev EXCEPT !.buf = Append(@, c),
                         !.qlen = IF dev.type = Special THEN @ ELSE @ - 1]
        [] OTHER ->
             [dev EXCEPT !.buf = <<IF @ = <<>> THEN 0 ELSE @[1], c>>,
                         !.qlen = (Qlen(dev.type) - 1) % SizeWord]

(* The byte is stored without a look at bufsize.  Only a sysex is handed   *)
(* out when the buffer is full; data without a status goes past its end,   *)
(* after which the program's behaviour is not defined.                     *)
Overruns(dev, c) ==
  c < RealTime /\ ~BeginsMessage(dev, c) /\ dev.qlen > 0 /\ Len(dev.buf) >= MidiBufSize

(* snd_midi_event_encode_byte: the parser afterwards, and the event that   *)
(* the byte completed, unless it overruns the buffer.                      *)
EncodeByte(dev, c) ==
  LET d == Recorded(dev, c)
  IN  CASE c >= RealTime ->
             [dev |-> dev, ev |-> Event(EventOf(c - SysexStart + Special), 0, <<>>)]
        [] c < RealTime /\ d.qlen = 0 ->
             [dev |-> IF d.type >= Special THEN [d EXCEPT !.type = Invalid] ELSE d,
              ev  |-> Encoded(d.type, d.buf)]
        [] c < RealTime /\ d.qlen # 0 /\ d.type = Special
             /\ (c = SysexEnd \/ Len(d.buf) >= MidiBufSize) ->
             [dev |-> IF c = SysexEnd THEN ResetEncode(d) ELSE [d EXCEPT !.buf = <<>>],
              ev  |-> Event("SYSEX", 0, d.buf)]
        [] OTHER -> [dev |-> d, ev |-> NoEvent]

------------------------------------------------------------------------------
(* Events to bytes.                                                        *)

Low(n) == n % 128
High(n) == (n \div 128) % 128

(* The decode column of status_event[].                                    *)
DataBytes(ev) ==
  CASE ev.type = "PITCHBEND" -> <<Low(ev.data[1] + 8192), High(ev.data[1] + 8192)>>
    [] ev.type = "SONGPOS" -> <<Low(ev.data[1]), High(ev.data[1])>>
    [] OTHER -> [i \in DOMAIN ev.data |-> Low(ev.data[i])]

StatusByte(ev) ==
  LET type == (CHOOSE t \in DOMAIN StatusEvent : StatusEvent[t][1] = ev.type) - 1
  IN  IF type >= Special THEN SysexStart + type - Special
                         ELSE 128 + 16 * type + ev.channel

(* The controllers an extra event stands for: a 14 bit value is two, a     *)
(* registered or other parameter four.                                     *)
Controllers(ev) ==
  LET param == ev.data[1]
      value == ev.data[2]
  IN  CASE ev.type = "CONTROL14" /\ param < 32 ->
             << <<param, High(value)>>, <<param + 32, Low(value)>> >>
        [] ev.type = "CONTROL14" /\ param >= 32 -> << <<Low(param), Low(value)>> >>
        [] ev.type = "NONREGPARAM" ->
             << <<99, High(param)>>, <<98, Low(param)>>, <<6, High(value)>>, <<38, Low(value)>> >>
        [] ev.type = "REGPARAM" ->
             << <<101, High(param)>>, <<100, Low(param)>>, <<6, High(value)>>, <<38, Low(value)>> >>

Extra == {"CONTROL14", "NONREGPARAM", "REGPARAM"}

DecodeExtra_Bug(dev, ev) ==
  LET cmd == Control + ev.channel
      two == Controllers(ev)
      own(i) == IF dev.nostat \/ (i = 1 /\ dev.lastcmd # cmd) THEN <<cmd>> ELSE <<>>
  IN  [dev |-> dev, bytes |-> FlattenSeq([i \in DOMAIN two |-> own(i) \o two[i]])]

(* extra_decode_ctrl14, extra_decode_xrpn: without merging every message   *)
(* has its status.                                                         *)
DecodeExtra(dev, ev) ==
  LET cmd == Control + ev.channel
      two == Controllers(ev)
      own(i) == IF dev.nostat \/ (i = 1 /\ dev.lastcmd # cmd) THEN <<cmd>> ELSE <<>>
  IN  [dev |-> [dev EXCEPT !.lastcmd = cmd],
       bytes |-> FlattenSeq([i \in DOMAIN two |-> own(i) \o two[i]])]

(* snd_midi_event_decode.  The bytes always fit: every caller in the       *)
(* library has room for the largest.  An event that is no MIDI message     *)
(* gives none.                                                             *)
Decode(dev, ev) ==
  CASE ev.type \in Extra -> DecodeExtra(dev, ev)
    [] ev.type = "SYSEX" -> [dev |-> ResetDecode(dev), bytes |-> ev.data]
    [] ev.type \notin Extra \union {"SYSEX", "NONE"}
         /\ (\E t \in DOMAIN StatusEvent : StatusEvent[t][1] = ev.type) ->
         LET cmd == StatusByte(ev)
         IN  IF cmd >= SysexStart \/ dev.lastcmd # cmd \/ dev.nostat
             THEN [dev |-> [dev EXCEPT !.lastcmd = cmd], bytes |-> <<cmd>> \o DataBytes(ev)]
             ELSE [dev |-> dev, bytes |-> DataBytes(ev)]
    [] OTHER -> [dev |-> dev, bytes |-> <<>>]

===============================================================================
