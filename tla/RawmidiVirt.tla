------------------------------ MODULE RawmidiVirt ------------------------------
(***************************************************************************)
(* Two virtual rawmidi ports (rawmidi_virt.c) joined by the sequencer: one *)
(* application writes MIDI bytes, which become events (MidiEvent), wait in *)
(* the output buffer of seq.c and go to the kernel; the other reads them:  *)
(* from the kernel's queue through the input buffer, and back to bytes.    *)
(* A third client may send the reader events of its own.                   *)
(*                                                                         *)
(* The kernel sequencer is external: a write takes any number of whole     *)
(* events from the front of the buffer, and delivers them at once, or it   *)
(* fails: with EAGAIN when the writer does not block, and with an error of *)
(* another kind (a signal, a lack of memory, a client that is gone) at any *)
(* time.  A reader's queue that is full loses the event and tells so, once,*)
(* by ENOSPC.                                                              *)
(***************************************************************************)
EXTENDS MidiEvent

CONSTANTS
  Scripts,     (* The streams the application may have to write.           *)
  Others,      (* Events that another sequencer client may send.           *)
  EventSize,   (* sizeof(snd_seq_event_t).                                 *)
  OutBufSize,  (* obufsize, in bytes.                                      *)
  InBufCells,  (* ibufsize, in events.                                     *)
  FifoSize,    (* Events the kernel holds for a reader.                    *)
  WriteSizes,  (* The sizes of writes (bound).                             *)
  ReadSizes    (* The sizes of reads (bound).                              *)

EventTypes == {StatusEvent[t][1] : t \in DOMAIN StatusEvent} \union Extra \union {"ECHO"}
Events == [type : EventTypes, channel : 0 .. 15, data : Seq(Int)]

(* snd_seq_event_length, and the cells of an event in the input buffer.    *)
Length(ev) == EventSize + IF ev.type = "SYSEX" THEN Len(ev.data) ELSE 0
Cells(ev) == 1 + IF ev.type = "SYSEX" THEN (Len(ev.data) + EventSize - 1) \div EventSize ELSE 0

(* An event that can never be buffered is an error of another kind: with   *)
(* the sizes of seq_hw.c every event of this parser fits.  Those that stand*)
(* for several controllers carry a parameter and a value.                  *)
Carried == {ev \in Events : /\ Cells(ev) <= InBufCells
                            /\ ev.type \in Extra => Len(ev.data) = 2}

ASSUME RawmidiAssumption ==
  /\ Scripts \subseteq Seq([byte : 0 .. 255, ev : Carried])
  /\ Others \subseteq Carried
  /\ EventSize \in Nat \ {0}
  /\ OutBufSize \in Nat /\ OutBufSize > EventSize + MidiBufSize
  /\ InBufCells \in Nat /\ InBufCells > 1 + MidiBufSize
  /\ FifoSize \in Nat \ {0}
  /\ WriteSizes \subseteq Nat \ {0} /\ ReadSizes \subseteq Nat \ {0}

VARIABLES
  script,    (* The stream: each byte, and the event it completes.         *)
  pos,       (* Bytes of it that writes have consumed.                     *)
  nonblock, merge,
  enc, pending, obuf, wpc, wcall, refused,    (* The writer.               *)
  fifo, overrun, others,                      (* The kernel.               *)
  dec, ibuf, inbytes, ofs, rpc, rcall,        (* The reader.               *)
  owed,      (* History: events of the bytes consumed the kernel has not,  *)
             (* but for those given up after an error.                     *)
  due,       (* History: events the reader took and has not handed out.    *)
  echo,      (* History: a parser fed with every byte handed out.          *)
  flaw       (* History: what went wrong on the way, if anything.          *)

writer == <<pos, enc, pending, obuf, wpc, wcall, refused, owed>>
kernel == <<fifo, overrun, others>>
reader == <<dec, ibuf, inbytes, ofs, rpc, rcall, due, echo>>
vars == <<script, nonblock, merge, writer, kernel, reader, flaw>>

Flaws == {"torn", "cut", "stale", "garbled"}

NoWrite == [left |-> 0, ev |-> NoEvent, why |-> "write"]
NoRead  == [size |-> 0, result |-> 0]

Total(Size(_), evs) == FoldLeft(LAMBDA n, ev : n + Size(ev), 0, evs)

IsEvent(ev) == ev.type \in EventTypes

TypeOK ==
  /\ pos \in 0 .. Len(script)
  /\ Len(enc.buf) <= MidiBufSize
  /\ \A i \in DOMAIN obuf : IsEvent(obuf[i])
  /\ Total(Length, obuf) <= OutBufSize
  /\ IsEvent(pending) /\ IsEvent(wcall.ev)
  /\ wpc \in {"idle", "encode", "overrun", "output", "room", "flush", "drop"}
  /\ wcall.left \in Nat /\ wcall.why \in {"write", "retry", "drain"}
  /\ refused \in BOOLEAN
  /\ Len(fifo) <= FifoSize
  /\ Total(Cells, ibuf) <= InBufCells
  /\ ofs \in 0 .. Len(inbytes)
  /\ rpc \in {"idle", "fetch", "copy"}
  /\ rcall.size \in Nat /\ rcall.result \in Nat
  /\ flaw \in SUBSET Flaws

------------------------------------------------------------------------------
(* The kernel.                                                             *)

(* What is lost of a sysex leaves the rest of it without a beginning.      *)
Torn(evs) == \E i \in DOMAIN evs : evs[i].type = "SYSEX"
Tear(evs) == IF Torn(evs) THEN {"torn"} ELSE {}

Deliver(evs) ==
  LET room == FifoSize - Len(fifo)
  IN  IF Len(evs) <= room
      THEN fifo' = fifo \o evs /\ UNCHANGED <<overrun, flaw>>
      ELSE /\ fifo' = fifo \o SubSeq(evs, 1, room)
           /\ overrun' = TRUE
           /\ flaw' = flaw \union Tear(SubSeq(evs, room + 1, Len(evs)))

(* ops->write: the kernel takes the first k events of the buffer.          *)
KernelWrite ==
  \E k \in 1 .. Len(obuf) :
    /\ obuf' = SubSeq(obuf, k + 1, Len(obuf))
    /\ owed' = SubSeq(owed, k + 1, Len(owed))
    /\ Deliver(SubSeq(obuf, 1, k))

(* Or it takes none of them.                                               *)
KernelRefuses(err) ==
  /\ obuf # <<>>
  /\ err = "EAGAIN" => nonblock
  /\ refused' = TRUE
  /\ UNCHANGED <<obuf, fifo, overrun>>

OtherClient(ev) ==
  /\ ev \in others
  /\ others' = others \ {ev}
  /\ Deliver(<<ev>>)
  /\ UNCHANGED <<script, nonblock, merge, writer, reader>>

------------------------------------------------------------------------------
(* snd_rawmidi_virtual_write and _drain, with snd_seq_event_output.        *)

WriterOnly == UNCHANGED <<script, nonblock, merge, kernel, reader, flaw>>

Write(n) ==
  /\ wpc = "idle"
  /\ pos + n <= Len(script)
  /\ IF pending = NoEvent
     THEN wpc' = "encode" /\ wcall' = [left |-> n, ev |-> NoEvent, why |-> "write"]
     ELSE wpc' = "output" /\ wcall' = [left |-> n, ev |-> pending, why |-> "retry"]
  /\ refused' = FALSE
  /\ UNCHANGED <<pos, enc, pending, obuf, owed>>
  /\ WriterOnly

(* snd_midi_event_encode, a byte at a time, up to the next event; after    *)
(* the last byte, what is buffered goes to the kernel.  The model of a     *)
(* writer ends where its parser runs over its buffer.                      *)
EncodeBytes ==
  /\ wpc = "encode"
  /\ \/ /\ wcall.left = 0
        /\ wpc' = "flush"
        /\ UNCHANGED <<pos, enc, owed, wcall>>
     \/ /\ wcall.left # 0 /\ Overruns(enc, script[pos + 1].byte)
        /\ wpc' = "overrun"
        /\ UNCHANGED <<pos, enc, owed, wcall>>
     \/ /\ wcall.left # 0 /\ ~Overruns(enc, script[pos + 1].byte)
        /\ LET next == script[pos + 1]
               step == EncodeByte(enc, next.byte)
           IN  /\ pos' = pos + 1
               /\ enc' = step.dev
               /\ owed' = IF next.ev = NoEvent THEN owed ELSE Append(owed, next.ev)
               /\ wcall' = [wcall EXCEPT !.left = @ - 1, !.ev = step.ev]
               /\ wpc' = IF step.ev = NoEvent THEN "encode" ELSE "output"
  /\ UNCHANGED <<pending, obuf, refused>>
  /\ WriterOnly

Output_TooFull ==
  /\ wpc = "output"
  /\ obuf' = Append(obuf, wcall.ev)
  /\ pending' = NoEvent
  /\ wpc' = IF wcall.why = "drain" THEN "flush" ELSE "encode"
  /\ wcall' = [wcall EXCEPT !.why = IF @ = "retry" THEN "write" ELSE @]
  /\ UNCHANGED <<pos, enc, owed, refused>>
  /\ WriterOnly

(* The event is in the buffer, whether new or left from the last call.     *)
Output ==
  /\ wpc = "output"
  /\ IF Total(Length, obuf) + Length(wcall.ev) <= OutBufSize
     THEN /\ obuf' = Append(obuf, wcall.ev)
          /\ pending' = NoEvent
          /\ wpc' = IF wcall.why = "drain" THEN "flush" ELSE "encode"
          /\ wcall' = [wcall EXCEPT !.why = IF @ = "retry" THEN "write" ELSE @]
     ELSE wpc' = "room" /\ UNCHANGED <<obuf, pending, wcall>>
  /\ UNCHANGED <<pos, enc, owed, refused>>
  /\ WriterOnly

PutBy_Bug(err) ==
  IF wcall.why = "retry"
  THEN /\ pending' = NoEvent
       /\ owed' = IF err # "EAGAIN" THEN Front(owed) ELSE owed
       /\ flaw' = flaw \union Tear(<<wcall.ev>>)
  ELSE pending' = wcall.ev /\ UNCHANGED <<owed, flaw>>

(* An error of another kind than EAGAIN makes a retry give the event up,   *)
(* which tears a sysex of several events.  Otherwise the event in hand     *)
(* waits for the next call, of a writer that blocks as well.               *)
PutBy(err) ==
  IF wcall.why = "retry" /\ err # "EAGAIN"
  THEN /\ pending' = NoEvent
       /\ owed' = Front(owed)
       /\ flaw' = flaw \union Tear(<<wcall.ev>>)
  ELSE pending' = wcall.ev /\ UNCHANGED <<owed, flaw>>

MakeRoom_Bug ==
  /\ wpc = "room"
  /\ \/ KernelWrite /\ UNCHANGED <<wpc, wcall, pending, refused>>
     \/ \E err \in {"EAGAIN", "error"} :
          /\ KernelRefuses(err)
          /\ PutBy(err)
          /\ wpc' = "idle"
          /\ wcall' = NoWrite
  /\ UNCHANGED <<script, nonblock, merge, pos, enc, others, reader>>

(* snd_seq_drain_output from snd_seq_event_output.  A failure is a failure *)
(* even when some events went.                                             *)
MakeRoom ==
  /\ wpc = "room"
  /\ \/ /\ obuf = <<>>
        /\ wpc' = "output"
        /\ UNCHANGED <<obuf, owed, wcall, pending, refused, fifo, overrun, flaw>>
     \/ KernelWrite /\ UNCHANGED <<wpc, wcall, pending, refused>>
     \/ \E err \in {"EAGAIN", "error"} :
          /\ KernelRefuses(err)
          /\ PutBy(err)
          /\ wpc' = "idle"
          /\ wcall' = NoWrite
  /\ UNCHANGED <<script, nonblock, merge, pos, enc, others, reader>>

FlushEnds == wpc' = (IF wcall.why = "drain" THEN "drop" ELSE "idle") /\ wcall' = NoWrite

Flush_Bug ==
  /\ wpc = "flush"
  /\ \/ FlushEnds /\ UNCHANGED <<obuf, owed, refused, fifo, overrun, flaw>>
     \/ KernelWrite /\ UNCHANGED <<wpc, wcall, refused>>
  /\ UNCHANGED <<script, nonblock, merge, pos, enc, pending, others, reader>>

(* snd_seq_drain_output at the end of a call, which does not look at how   *)
(* it went.                                                                *)
Flush ==
  /\ wpc = "flush"
  /\ \/ /\ obuf = <<>>
        /\ FlushEnds
        /\ UNCHANGED <<obuf, owed, refused, fifo, overrun, flaw>>
     \/ KernelWrite /\ UNCHANGED <<wpc, wcall, refused>>
     \/ \E err \in {"EAGAIN", "error"} :
          /\ KernelRefuses(err)
          /\ FlushEnds
          /\ UNCHANGED <<owed, flaw>>
  /\ UNCHANGED <<script, nonblock, merge, pos, enc, pending, others, reader>>

(* snd_rawmidi_virtual_drop: after it the application begins with a new    *)
(* message.                                                                *)
Begins(s, i) == s[i].byte \in 128 .. RealTime - 1 /\ s[i].byte # SysexEnd
Starts(i) == Begins(script, i)

DropOutput ==
  /\ obuf' = <<>>
  /\ enc' = ResetEncode(enc)
  /\ pending' = NoEvent
  /\ owed' = <<>>
  /\ wpc' = "idle"
  /\ wcall' = NoWrite
  /\ pos' = CHOOSE p \in pos .. Len(script) :
              /\ p = Len(script) \/ Starts(p + 1)
              /\ \A q \in pos + 1 .. p : ~Starts(q)
  /\ UNCHANGED refused
  /\ WriterOnly

Drop == wpc = "idle" /\ DropOutput

Drain ==
  /\ wpc = "idle"
  /\ IF pending = NoEvent
     THEN wpc' = "flush" /\ wcall' = [NoWrite EXCEPT !.why = "drain"]
     ELSE wpc' = "output" /\ wcall' = [left |-> 0, ev |-> pending, why |-> "drain"]
  /\ refused' = FALSE
  /\ UNCHANGED <<pos, enc, pending, obuf, owed>>
  /\ WriterOnly

DrainDrop == wpc = "drop" /\ DropOutput

------------------------------------------------------------------------------
(* snd_rawmidi_virtual_read, with snd_seq_event_input.                     *)

ReaderOnly == UNCHANGED <<script, nonblock, merge, writer, others>>

(* The events a listener should make of ev.                                *)
Meant(ev) ==
  CASE ev.type \in Extra ->
         [i \in DOMAIN Controllers(ev) |-> Event("CONTROLLER", ev.channel, Controllers(ev)[i])]
    [] ev.type = "ECHO" -> <<>>
    [] OTHER -> <<ev>>

(* A listener with the library's own parser: what it has left to hear      *)
(* after these bytes, and whether one of them made another event.          *)
Heard(bytes) ==
  LET Hear(h, c) ==
        LET step == EncodeByte(h.echo, c)
            right == h.due # <<>> /\ Head(h.due) = step.ev
        IN  IF h.garbled \/ Overruns(h.echo, c) THEN [h EXCEPT !.garbled = TRUE]
            ELSE [echo |-> step.dev,
                  due |-> IF step.ev # NoEvent /\ right THEN Tail(h.due) ELSE h.due,
                  garbled |-> step.ev # NoEvent /\ ~right]
  IN  FoldLeft(Hear, [echo |-> echo, due |-> due, garbled |-> FALSE], bytes)

Read(n) ==
  /\ rpc = "idle"
  /\ rpc' = IF ofs = 0 THEN "fetch" ELSE "copy"
  /\ rcall' = [size |-> n, result |-> 0]
  /\ UNCHANGED <<dec, ibuf, inbytes, ofs, due, echo, fifo, overrun, flaw>>
  /\ ReaderOnly

(* How many events of the kernel's queue fit into the input buffer.        *)
Fill == CHOOSE n \in 0 .. Len(fifo) :
          /\ Total(Cells, SubSeq(fifo, 1, n)) <= InBufCells
          /\ n = Len(fifo) \/ Total(Cells, SubSeq(fifo, 1, n + 1)) > InBufCells

(* One event is taken from those read so far.  A sysex is handed out as it *)
(* is and passes the decoder by.                                           *)
Take(evs) ==
  LET ev == Head(evs)
      step == IF ev.type = "SYSEX" THEN [dev |-> dec, bytes |-> ev.data] ELSE Decode(dec, ev)
      stale == step.bytes # <<>> /\ step.bytes[1] < 128 /\ echo.type = Invalid
      torn == step.bytes # <<>> /\ step.bytes[1] < RealTime /\ echo.type = Special
  IN  /\ ibuf' = Tail(evs)
      /\ dec' = step.dev
      /\ inbytes' = step.bytes
      /\ due' = due \o Meant(ev)
      /\ rpc' = IF step.bytes = <<>> THEN "fetch" ELSE "copy"
      /\ flaw' = IF ev.type = "SYSEX" THEN flaw
                 ELSE flaw \union (IF stale THEN {"stale"} ELSE {})
                           \union (IF torn THEN {"torn"} ELSE {})

(* Nothing buffered: look without waiting, and again, waiting, if the call *)
(* has nothing yet.  The look eats the news of an overrun.                 *)
Fetch ==
  /\ rpc = "fetch"
  /\ \/ ibuf # <<>> /\ Take(ibuf) /\ UNCHANGED <<fifo, overrun, rcall>>
     \/ /\ ibuf = <<>> /\ fifo # <<>> /\ ~overrun
        /\ Take(SubSeq(fifo, 1, Fill))
        /\ fifo' = SubSeq(fifo, Fill + 1, Len(fifo))
        /\ UNCHANGED <<overrun, rcall>>
     \/ /\ ibuf = <<>> /\ overrun
        /\ fifo' = <<>>
        /\ overrun' = FALSE
        /\ flaw' = flaw \union Tear(fifo)
        /\ IF rcall.result > 0 THEN rpc' = "idle" /\ rcall' = NoRead
                               ELSE UNCHANGED <<rpc, rcall>>
        /\ UNCHANGED <<dec, ibuf, inbytes, due>>
     \/ /\ ibuf = <<>> /\ fifo = <<>>
        /\ rcall.result > 0 \/ nonblock
        /\ rpc' = "idle"
        /\ rcall' = NoRead
        /\ UNCHANGED <<dec, ibuf, inbytes, due, fifo, overrun, flaw>>
  /\ UNCHANGED <<ofs, echo>>
  /\ ReaderOnly

(* All that is left of the event, or what the caller has room for: then it *)
(* is the event's first bytes that are copied, and the offset moves by     *)
(* what was not.                                                           *)
Copy ==
  /\ rpc = "copy"
  /\ LET size == Len(inbytes) - ofs
         part == size > rcall.size
         out == IF part THEN SubSeq(inbytes, 1, rcall.size)
                        ELSE SubSeq(inbytes, ofs + 1, Len(inbytes))
         wrong == part /\ (ofs > 0 \/ size # 2 * rcall.size)
         heard == Heard(out)
     IN  /\ ofs' = IF part THEN ofs + size - rcall.size ELSE 0
         /\ rcall' = IF part \/ size = rcall.size THEN NoRead
                     ELSE [size |-> rcall.size - size, result |-> rcall.result + size]
         /\ rpc' = IF part \/ size = rcall.size THEN "idle" ELSE "fetch"
         /\ inbytes' = IF part THEN inbytes ELSE <<>>
         /\ echo' = heard.echo
         /\ due' = heard.due
         /\ flaw' = flaw \union (IF wrong THEN {"cut"} ELSE {})
                         \union (IF heard.garbled THEN {"garbled"} ELSE {})
  /\ UNCHANGED <<dec, ibuf, fifo, overrun>>
  /\ ReaderOnly

DropInput ==
  /\ rpc = "idle"
  /\ ibuf' = <<>>
  /\ fifo' = <<>>
  /\ overrun' = FALSE
  /\ dec' = ResetDecode(dec)
  /\ ofs' = 0
  /\ due' = <<>>
  /\ inbytes' = <<>>
  /\ echo' = ResetEncode(echo)
  /\ flaw' = flaw \union Tear(ibuf \o fifo)
                  \union (IF echo.type = Special THEN {"torn"} ELSE {})
  /\ UNCHANGED <<rpc, rcall>>
  /\ ReaderOnly

------------------------------------------------------------------------------
Init ==
  /\ script \in Scripts
  /\ nonblock \in BOOLEAN
  /\ merge \in BOOLEAN
  /\ pos = 0 /\ enc = NewParser(FALSE) /\ pending = NoEvent /\ obuf = <<>>
  /\ wpc = "idle" /\ wcall = NoWrite /\ refused = FALSE
  /\ fifo = <<>> /\ overrun = FALSE /\ others = Others
  /\ dec = NewParser(~merge) /\ ibuf = <<>> /\ inbytes = <<>> /\ ofs = 0
  /\ rpc = "idle" /\ rcall = NoRead
  /\ owed = <<>> /\ due = <<>> /\ echo = NewParser(FALSE) /\ flaw = {}

WriterStep == EncodeBytes \/ Output \/ MakeRoom \/ Flush \/ DrainDrop
ReaderStep == Fetch \/ Copy

Next ==
  \/ \E n \in WriteSizes : Write(n)
  \/ \E n \in ReadSizes : Read(n)
  \/ Drop \/ Drain \/ DropInput
  \/ WriterStep \/ ReaderStep
  \/ \E ev \in Others : OtherClient(ev)

Spec == Init /\ [][Next]_vars /\ WF_vars(WriterStep)

------------------------------------------------------------------------------
(***************************************************************************)
(* What the proofs ask of the streams: a parser that is given one at its   *)
(* beginning or at a later message, and then nothing but its bytes, makes  *)
(* the events it names.                                                    *)
(***************************************************************************)
Parses(s, p, run) ==
  /\ run[p] = NewParser(FALSE)
  /\ \A i \in p + 1 .. Len(s) :
       LET step == EncodeByte(run[i - 1], s[i].byte)
       IN  run[i] = step.dev /\ s[i].ev = step.ev

Entries(s) == {p \in 0 .. Len(s) : p \in {0, Len(s)} \/ Begins(s, p + 1)}

Spelled(s) == \A p \in Entries(s) : \E run : Parses(s, p, run)

------------------------------------------------------------------------------
(* The event the writer holds outside its buffer.                          *)
InHand == IF wpc \in {"output", "room"} THEN <<wcall.ev>>
          ELSE IF pending # NoEvent THEN <<pending>> ELSE <<>>

(***************************************************************************)
(* However the stream is cut into writes, with running status, clocks in   *)
(* the middle of messages and bytes of no message, and however often the   *)
(* kernel refuses or fails: the events between the application and the     *)
(* kernel are those of the bytes consumed, in order and none twice, and    *)
(* none is missing but the pending event of a write whose retry failed     *)
(* with another error than EAGAIN (rawmidi_virt.c:201).                    *)
(***************************************************************************)
WriterKeepsOrder == obuf \o InHand = owed

(***************************************************************************)
(* A write that was refused nothing has sent every event completed so far, *)
(* those of earlier calls included, and such a drain has nothing left that *)
(* its final drop could lose.  A writer that blocks is refused by an error *)
(* only, but then it too returns with events unsent, and with no more than *)
(* the count of its bytes to tell (rawmidi_virt.c:223, 231), and a drain   *)
(* drops them (188).                                                       *)
(***************************************************************************)
SentAtRest == wpc \in {"idle", "drop"} /\ ~refused => owed = <<>>

(***************************************************************************)
(* The bytes handed out, parsed by the library itself, are the events that *)
(* were taken, in order and in full: decoding and encoding are inverse,    *)
(* whatever is merged.  Three things break it, and only they: a sysex in   *)
(* several events that loses one (to an overrun or a drop) or lets another *)
(* client's between, a read that ends inside an event (its copy starts at  *)
(* the wrong byte), and running status resumed after a sysex.              *)
(***************************************************************************)
ReaderHearsEvents ==
  flaw \subseteq {"garbled"} =>
    flaw = {} /\ (rpc = "idle" /\ ofs = 0 => due = <<>>)

(* Every call of the writer comes back, unless its parser runs over its    *)
(* buffer.                                                                 *)
WriteReturns == wpc # "idle" ~> wpc \in {"idle", "overrun"}
===============================================================================
