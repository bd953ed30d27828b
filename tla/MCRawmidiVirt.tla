---------------------------- MODULE MCRawmidiVirt ----------------------------
(* Short streams of every kind of message, with running status and with a  *)
(* clock inside a message.                                                  *)
EXTENDS RawmidiVirt

(* A message as written, and the event each of its bytes completes.        *)
Message(bytes, ev) ==
  [i \in DOMAIN bytes |-> [byte |-> bytes[i], ev |-> IF i = Len(bytes) THEN ev ELSE NoEvent]]

Sysex(bytes) ==
  [i \in DOMAIN bytes |->
     [byte |-> bytes[i],
      ev |-> IF i % MidiBufSize = 0 \/ i = Len(bytes)
             THEN Event("SYSEX", 0, SubSeq(bytes, 1 + ((i - 1) \div MidiBufSize) * MidiBufSize, i))
             ELSE NoEvent]]

NoteA == Message(<<144, 60, 64>>, Event("NOTEON", 0, <<60, 64>>))
NoteB == Message(<<144, 61, 65>>, Event("NOTEON", 0, <<61, 65>>))
Program == Message(<<192, 5>>, Event("PGMCHANGE", 0, <<5>>))
Bend == Message(<<224, 3, 65>>, Event("PITCHBEND", 0, <<65 * 128 + 3 - 8192>>))
SongPos == Message(<<242, 7, 2>>, Event("SONGPOS", 0, <<263>>))
Tune == Message(<<246>>, Event("TUNE_REQUEST", 0, <<>>))
Long == Sysex(<<240, 1, 2, 247>>)
Clock == Message(<<248>>, Event("CLOCK", 0, <<>>))

(* Bytes of no message: data before any status, and after the end of a     *)
(* sysex that never began so much of it that the buffer is overrun.        *)
Stray(bytes) == Message(bytes, NoEvent)

(* A message may leave out a status that the one before it ran.            *)
Streams ==
  {Program \o Tail(Program) \o Bend, SongPos \o Tune,
   Program \o Long \o Program,
   Stray(<<5>>) \o Program \o Stray(<<SysexEnd, 5, 6, 7>>)}

WithClock(s) == {SubSeq(s, 1, i) \o Clock \o SubSeq(s, i + 1, Len(s)) : i \in {2}}

MCScripts == Streams \union WithClock(NoteA \o Tail(NoteB))
                       \union WithClock(Long)

MCOthers == {Event("CONTROL14", 0, <<1, 200>>)}

(* The premise of what is proved of RawmidiVirt: the parsers of a listener  *)
(* who hears nothing but s, from its byte p on.                             *)
Listener(s, p) ==
  LET run[i \in p .. Len(s)] == IF i = p THEN NewParser(FALSE)
                                ELSE EncodeByte(run[i - 1], s[i].byte).dev
  IN  run

ASSUME ScriptsSpelled ==
  \A s \in Scripts : \A p \in Entries(s) : Parses(s, p, Listener(s, p))
===============================================================================
