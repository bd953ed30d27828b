-------------------------------- MODULE PcmHw --------------------------------
(***************************************************************************)
(* One thread of an application driving a "hw" PCM through the mmap        *)
(* transfer functions: snd_pcm_write_areas and snd_pcm_read_areas (pcm.c), *)
(* snd_pcm_mmap_write_areas and snd_pcm_mmap_read_areas (pcm_mmap.c) and   *)
(* the callbacks of pcm_hw.c, against the driver, which moves hw_ptr and   *)
(* changes the state between any two steps of the library.                 *)
(*                                                                         *)
(* The driver is outside src/.  Its half (the actions from Tick on and the *)
(* operators under "The driver's answers") is modelled from how the        *)
(* library uses it: what each ioctl moves and which states it refuses.     *)
(*                                                                         *)
(* The payload of a frame is the ring position it belongs to, so a slot    *)
(* holding anything else is seen at once.                                  *)
(***************************************************************************)
EXTENDS PcmRing

CONSTANTS
  StartThreshold,  (* Queued frames that start playback by themselves.     *)
  StopThresholds,  (* What avail may be at which the stream stops with an  *)
                   (* xrun; one above BufferSize is the endless mode.      *)
  AvailMin,        (* avail at which poll wakes the application.           *)
  MaxRequest,      (* Frames of one read or write call (bound).            *)
  MaxTick          (* Frames the hardware moves between two looks (bound). *)

ASSUME ThresholdAssumption ==
  /\ StartThreshold \in Nat
  /\ StopThresholds \subseteq Nat
  /\ AvailMin \in Nat \ {0}
  /\ MaxRequest \in Nat \ {0}
  /\ MaxTick \in 1 .. BufferSize
  /\ BufferSize + MaxTick < Boundary   (* So no overrun looks like a wrap.  *)

VARIABLES
  stream,     (* "PLAYBACK" or "CAPTURE".                                  *)
  nonblock,   (* SND_PCM_NONBLOCK is set in pcm->mode.                     *)
  stop_threshold,   (* pcm->stop_threshold; set before the stream.         *)
  state,      (* mmap_status->state.                                       *)
  hw_ptr,     (* mmap_status->hw_ptr.                                      *)
  appl_ptr,   (* mmap_control->appl_ptr.                                   *)
  slots,      (* The ring: the position each slot's frame belongs to.      *)
  resume_to,  (* The driver's note of the state a suspend interrupted;     *)
              (* "SETUP" when it is of no more use.                        *)
  pc,         (* Where the application is in the library.                  *)
  call,       (* The locals of the call in progress.                       *)
  ret,        (* What the last call returned.                              *)
  slipped     (* History: hw_ptr overtook appl_ptr since prepare.          *)

shared == <<state, hw_ptr, appl_ptr, slots, resume_to, slipped>>
vars == <<stream, nonblock, stop_threshold, shared, pc, call, ret>>

EAGAIN == -11   EIO == -5      EPIPE == -32     ENODEV == -19
EBADFD == -77   ESTRPIPE == -86

State == {"SETUP", "PREPARED", "RUNNING", "XRUN", "DRAINING", "PAUSED",
          "SUSPENDED", "DISCONNECTED"}
PC == {"idle", "state", "start", "hwsync", "avail", "wait", "poll", "copy",
       "commit", "after", "autostart", "drain"}

(* A slot whose frame was not written (captured) since prepare.            *)
Stale == -1

NoCall == [left |-> 0, xfer |-> 0, seen |-> "SETUP", avail |-> 0,
           frames |-> 0, done |-> 0, span |-> 0, moved |-> 0, torn |-> FALSE]

Call == [left: Nat, xfer: Nat, seen: State, avail: Nat, frames: Nat,
         done: Nat, span: Nat, moved: Nat, torn: BOOLEAN]

TypeOK ==
  /\ stream \in {"PLAYBACK", "CAPTURE"}
  /\ nonblock \in BOOLEAN
  /\ stop_threshold \in StopThresholds
  /\ state \in State
  /\ resume_to \in State
  /\ hw_ptr \in Pointer
  /\ appl_ptr \in Pointer
  /\ slots \in [Slot -> Pointer \union {Stale}]
  /\ pc \in PC
  /\ call \in Call
  /\ ret \in Int
  /\ slipped \in BOOLEAN

Avail == MmapAvail(stream, hw_ptr, appl_ptr)

(* Positions p, p+1, .., p+n-1 of the ring.                                *)
Span(p, n) == {Forward(p, i) : i \in 0 .. n - 1}

Labelled(s, p, n) ==
  [x \in Slot |-> LET own == {q \in Span(p, n) : SlotOf(q) = x}
                  IN  IF own = {} THEN s[x] ELSE CHOOSE q \in own : TRUE]

------------------------------------------------------------------------------
(* The driver's answers.                                                   *)

(* SNDRV_PCM_IOCTL_HWSYNC.                                                 *)
HwsyncError ==
  CASE state = "XRUN" -> EPIPE
    [] state = "DISCONNECTED" -> ENODEV
    [] state \in {"RUNNING", "DRAINING", "PREPARED", "SUSPENDED"} -> 0
    [] OTHER -> EBADFD

(* SNDRV_PCM_IOCTL_START: only from PREPARED, and playback needs a frame,  *)
(* unless the stream never stops.                                          *)
StartError ==
  CASE state = "DISCONNECTED" -> ENODEV
    [] state \notin {"DISCONNECTED", "PREPARED"} -> EBADFD
    [] /\ state = "PREPARED" /\ stream = "PLAYBACK"
       /\ Avail >= BufferSize /\ stop_threshold < Boundary -> EPIPE
    [] OTHER -> 0

(* poll(2) on the PCM: ready for I/O, or in a state that needs attention.  *)
PollReady == state \in {"RUNNING", "PREPARED", "PAUSED"} /\ Avail >= AvailMin
PollError == state \in {"SETUP", "XRUN", "SUSPENDED", "DISCONNECTED"}

(* How the library names a stopped stream to its caller.                   *)
StoppedError(default) ==
  CASE state = "XRUN" -> EPIPE
    [] state = "SUSPENDED" -> ESTRPIPE
    [] state = "DISCONNECTED" -> ENODEV
    [] OTHER -> default

------------------------------------------------------------------------------
(* snd_pcm_write_areas and snd_pcm_read_areas.                             *)

Goto(label, c) == pc' = label /\ call' = c /\ UNCHANGED ret

(* The _end label: a call that moved something reports that, whatever      *)
(* stopped it.                                                             *)
Return(c, err) ==
  /\ pc' = "idle"
  /\ call' = [NoCall EXCEPT !.xfer = c.xfer, !.moved = c.moved,
                            !.frames = c.frames, !.torn = c.torn,
                            !.seen = c.seen]
  /\ ret' = IF c.xfer > 0 THEN c.xfer ELSE err

Transfer(n) ==
  /\ pc = "idle"
  /\ pc' = "state"
  /\ call' = [NoCall EXCEPT !.left = n]
  /\ ret' = 0
  /\ UNCHANGED <<stream, nonblock, stop_threshold, shared>>

ReadState ==
  /\ pc = "state"
  /\ LET c == [call EXCEPT !.seen = state, !.frames = 0, !.done = 0]
     IN  CASE state = "RUNNING" -> Goto("hwsync", c)
           [] state = "PAUSED" -> Goto("avail", c)
           [] state = "PREPARED" ->
                Goto(IF stream = "PLAYBACK" THEN "avail" ELSE "start", c)
           [] state = "DRAINING" /\ stream = "CAPTURE" -> Goto("avail", c)
           [] OTHER -> Return(c, StoppedError(EBADFD))
  /\ UNCHANGED <<stream, nonblock, stop_threshold, shared>>

(* Reading from a prepared capture stream starts it.                       *)
StartCapture ==
  /\ pc = "start"
  /\ IF StartError = 0
     THEN Goto("avail", call) /\ state' = "RUNNING"
     ELSE Return(call, StartError) /\ UNCHANGED state
  /\ UNCHANGED <<stream, nonblock, stop_threshold, hw_ptr, appl_ptr, slots, resume_to, slipped>>

HwSync ==
  /\ pc = "hwsync"
  /\ IF HwsyncError = 0 THEN Goto("avail", call) ELSE Return(call, HwsyncError)
  /\ UNCHANGED <<stream, nonblock, stop_threshold, shared>>

MustWait_Bug(c) == IF stream = "PLAYBACK"
                   THEN c.left > c.avail /\ c.avail < AvailMin
                   ELSE c.avail = 0

(* Writing waits only on a running stream, and only for more than it needs *)
(* now; reading waits when there is nothing at all.                        *)
MustWait(c) == IF stream = "PLAYBACK"
               THEN /\ c.seen = "RUNNING"
                    /\ c.left > c.avail
                    /\ c.avail < AvailMin
               ELSE c.avail = 0

(* What the caller makes of the frames available: wait, stop or transfer.  *)
UseAvail(c) ==
  LET frames == Min({c.left, c.avail})
  IN  CASE MustWait(c) /\ c.seen = "DRAINING" -> Return(c, 0)
        [] MustWait(c) /\ c.seen # "DRAINING" /\ nonblock -> Return(c, EAGAIN)
        [] MustWait(c) /\ c.seen # "DRAINING" /\ ~nonblock ->
             Goto(IF stream = "PLAYBACK" THEN "poll" ELSE "wait", c)
        [] ~MustWait(c) /\ frames = 0 -> Return(c, 0)
        [] OTHER -> Goto("copy", [c EXCEPT !.frames = frames, !.done = 0])

(* snd_pcm_hw_avail_update: the library itself stops a running stream that *)
(* has reached its stop threshold (SNDRV_PCM_IOCTL_XRUN).                  *)
AvailUpdate ==
  /\ pc = "avail"
  /\ CASE state = "RUNNING" /\ Avail >= stop_threshold ->
            Return(call, EPIPE) /\ state' = "XRUN"
       [] state = "XRUN" -> Return(call, EPIPE) /\ UNCHANGED state
       [] OTHER -> /\ UseAvail([call EXCEPT !.avail = Avail])
                   /\ UNCHANGED state
  /\ UNCHANGED <<stream, nonblock, stop_threshold, hw_ptr, appl_ptr, slots, resume_to, slipped>>

(* snd_pcm_wait, entered by reads only: look again before polling.         *)
WaitCheck ==
  /\ pc = "wait"
  /\ IF Avail >= AvailMin
     THEN IF StoppedError(1) < 0 THEN Return(call, StoppedError(1))
                                 ELSE Goto("state", call)
     ELSE Goto("poll", call)
  /\ UNCHANGED <<stream, nonblock, stop_threshold, shared>>

(* snd_pcm_wait_nocheck.                                                   *)
Poll ==
  /\ pc = "poll"
  /\ \/ PollReady /\ Goto("state", call)
     \/ PollError /\ Return(call, StoppedError(EIO))
  /\ UNCHANGED <<stream, nonblock, stop_threshold, shared>>

(***************************************************************************)
(* One round of the copying loop of snd_pcm_mmap_{write,read}_areas:       *)
(* snd_pcm_mmap_begin and the copy, then snd_pcm_mmap_commit.              *)
(***************************************************************************)
Chunk == BeginFrames(stream, hw_ptr, appl_ptr, call.frames - call.done)

Copy ==
  /\ pc = "copy"
  /\ IF call.done = 0 /\ Avail < call.frames
     THEN Return([call EXCEPT !.frames = 0], EPIPE) /\ UNCHANGED slots
     ELSE /\ Goto("commit",
                  [call EXCEPT !.span = Chunk,
                     !.torn = @ \/ /\ stream = "CAPTURE"
                                   /\ \E p \in Span(appl_ptr, Chunk) :
                                        slots[SlotOf(p)] # p])
          /\ slots' = IF stream = "PLAYBACK"
                      THEN Labelled(slots, appl_ptr, Chunk) ELSE slots
  /\ UNCHANGED <<stream, nonblock, stop_threshold, state, hw_ptr, appl_ptr, resume_to, slipped>>

Commit_Bug ==
  /\ pc = "commit"
  /\ appl_ptr' = Forward(appl_ptr, call.frames)
  /\ Goto("after", [call EXCEPT !.done = call.frames, !.span = 0,
                                !.moved = @ + call.frames])
  /\ UNCHANGED <<stream, nonblock, stop_threshold, state, hw_ptr, slots, resume_to, slipped>>

(* snd_pcm_hw_mmap_commit behind the sanity checks of snd_pcm_mmap_commit. *)
Commit ==
  /\ pc = "commit"
  /\ IF call.span > Avail
     THEN UNCHANGED appl_ptr /\
          IF call.done > 0
          THEN Goto("after", [call EXCEPT !.frames = call.done, !.span = 0])
          ELSE Return([call EXCEPT !.frames = 0], EPIPE)
     ELSE LET done == call.done + call.span
          IN  /\ appl_ptr' = Forward(appl_ptr, call.span)
              /\ Goto(IF done < call.frames THEN "copy" ELSE "after",
                      [call EXCEPT !.done = done, !.span = 0,
                                   !.moved = @ + call.span])
  /\ UNCHANGED <<stream, nonblock, stop_threshold, state, hw_ptr, slots, resume_to, slipped>>

Count_Bug(c) ==
  LET d == [c EXCEPT !.left = @ - c.frames, !.xfer = @ + c.frames, !.frames = 0]
  IN  IF d.left > 0 THEN Goto("state", d) ELSE Return(c, 0)

(* The frames are in: count them and go round, or finish.                  *)
Count(c) ==
  LET d == [c EXCEPT !.left = @ - c.frames, !.xfer = @ + c.frames, !.frames = 0]
  IN  IF d.left > 0 THEN Goto("state", d) ELSE Return(d, 0)

(* The start threshold is looked at when the stream was prepared before    *)
(* the copy and still is.                                                  *)
AfterCopy ==
  /\ pc = "after"
  /\ IF /\ stream = "PLAYBACK"
        /\ call.seen = "PREPARED"
        /\ state = "PREPARED"
        /\ BufferSize - call.avail + call.frames >= StartThreshold
     THEN Goto("autostart", call)
     ELSE Count(call)
  /\ UNCHANGED <<stream, nonblock, stop_threshold, shared>>

(* A start that fails leaves before the frames just committed are counted. *)
AutoStart ==
  /\ pc = "autostart"
  /\ IF StartError = 0
     THEN Count(call) /\ state' = "RUNNING"
     ELSE Return(call, StartError) /\ UNCHANGED state
  /\ UNCHANGED <<stream, nonblock, stop_threshold, hw_ptr, appl_ptr, slots, resume_to, slipped>>

------------------------------------------------------------------------------
(* The callbacks of pcm_hw.c that are one ioctl each, called between two   *)
(* transfers.  A refused ioctl changes nothing.                            *)

Answer(r) ==
  /\ pc = "idle"
  /\ ret' = r
  /\ call' = NoCall
  /\ UNCHANGED <<stream, nonblock, stop_threshold, pc>>

Empty(p) ==
  /\ hw_ptr' = p
  /\ appl_ptr' = p
  /\ slots' = [x \in Slot |-> Stale]
  /\ slipped' = FALSE

Prepare ==
  /\ state \notin {"RUNNING", "DRAINING", "DISCONNECTED"}
  /\ Answer(0)
  /\ Empty(0)
  /\ state' = "PREPARED"
  /\ resume_to' = "SETUP"

Reset ==
  /\ state \in {"RUNNING", "PREPARED", "PAUSED", "SUSPENDED"}
  /\ Answer(0)
  /\ Empty(IF state = "RUNNING" THEN hw_ptr % BufferSize ELSE 0)
  /\ UNCHANGED <<state, resume_to>>

Start ==
  /\ Answer(StartError)
  /\ state' = IF StartError = 0 THEN "RUNNING" ELSE state
  /\ UNCHANGED <<hw_ptr, appl_ptr, slots, resume_to, slipped>>

Drop ==
  /\ state # "DISCONNECTED"
  /\ Answer(0)
  /\ state' = "SETUP"
  /\ resume_to' = "SETUP"
  /\ UNCHANGED <<hw_ptr, appl_ptr, slots, slipped>>

Pause(enable) ==
  /\ state = IF enable THEN "RUNNING" ELSE "PAUSED"
  /\ Answer(0)
  /\ state' = IF enable THEN "PAUSED" ELSE "RUNNING"
  /\ UNCHANGED <<hw_ptr, appl_ptr, slots, resume_to, slipped>>

Resume ==
  /\ state = "SUSPENDED"
  /\ Answer(0)
  /\ state' = resume_to
  /\ resume_to' = "SETUP"
  /\ UNCHANGED <<hw_ptr, appl_ptr, slots, slipped>>

(* Playback drains until the driver is through (a blocking ioctl, or       *)
(* EAGAIN at once without blocking); capture stays in DRAINING until the   *)
(* frames it has are read.                                                 *)
Drain ==
  /\ pc = "idle"
  /\ state \in {"PREPARED", "RUNNING", "PAUSED", "XRUN"}
  /\ state' = IF \/ state = "XRUN"
                 \/ stream = "PLAYBACK" /\ Avail >= BufferSize
                 \/ stream = "CAPTURE" /\ (Avail = 0 \/ state = "PREPARED")
              THEN "SETUP" ELSE "DRAINING"
  /\ IF stream = "PLAYBACK" /\ state' = "DRAINING" /\ ~nonblock
     THEN Goto("drain", NoCall)
     ELSE /\ ret' = IF stream = "PLAYBACK" /\ state' = "DRAINING"
                    THEN EAGAIN ELSE 0
          /\ call' = NoCall
          /\ UNCHANGED pc
  /\ UNCHANGED <<stream, nonblock, stop_threshold, hw_ptr, appl_ptr, slots, resume_to, slipped>>

DrainDone ==
  /\ pc = "drain"
  /\ state # "DRAINING"
  /\ Return(NoCall, StoppedError(0))
  /\ UNCHANGED <<stream, nonblock, stop_threshold, shared>>

(* snd_pcm_avail: hwsync, then avail_update, which may stop the stream.    *)
QueryAvail ==
  /\ LET over == state = "RUNNING" /\ Avail >= stop_threshold
     IN  /\ Answer(IF HwsyncError # 0 THEN HwsyncError
                   ELSE IF over THEN EPIPE ELSE Avail)
         /\ state' = IF over THEN "XRUN" ELSE state
  /\ UNCHANGED <<hw_ptr, appl_ptr, slots, resume_to, slipped>>

Positioned == state \in {"RUNNING", "DRAINING", "PREPARED", "PAUSED", "SUSPENDED"}

(* What snd_pcm_hw_rewindable says; the driver itself counts rightly.       *)
Rewindable == MmapHwAvail(stream, hw_ptr, appl_ptr)

(* Taking frames back; on capture, asking again for frames already read.   *)
Rewind(n) ==
  /\ Positioned
  /\ LET back == Min({n, HwAvail(stream, hw_ptr, appl_ptr)})
     IN  /\ back > 0
         /\ Answer(back)
         /\ appl_ptr' = Backward(appl_ptr, back)
         /\ slots' = IF stream = "CAPTURE"
                     THEN Labelled(slots, Backward(appl_ptr, back), back)
                     ELSE slots
  /\ UNCHANGED <<state, hw_ptr, resume_to, slipped>>

(* Skipping frames: what playback skips is played as the ring holds it.    *)
SkipForward(n) ==
  /\ Positioned
  /\ LET ahead == Min({n, Avail})
     IN  /\ ahead > 0
         /\ Answer(ahead)
         /\ appl_ptr' = Forward(appl_ptr, ahead)
         /\ slots' = IF stream = "PLAYBACK"
                     THEN Labelled(slots, appl_ptr, ahead) ELSE slots
  /\ UNCHANGED <<state, hw_ptr, resume_to, slipped>>

(* snd_pcm_recover, on the error the last call returned.                   *)
Recover ==
  \/ ret = EPIPE /\ Prepare
  \/ ret = ESTRPIPE /\ (Resume \/ Prepare)

------------------------------------------------------------------------------
(* The driver.                                                             *)

(* n more frames are played or captured, and the driver looks at the state *)
(* of the ring: out of frames when draining, or past the stop threshold.   *)
Tick(n) ==
  /\ state \in {"RUNNING", "DRAINING"}
  /\ state = "DRAINING" => stream = "PLAYBACK"
  /\ hw_ptr' = Forward(hw_ptr, n)
  /\ LET room  == HwAvail(stream, hw_ptr, appl_ptr)
         avail == MmapAvail(stream, hw_ptr', appl_ptr)
     IN  /\ slipped' = (slipped \/ n > room)
         /\ state' = CASE state = "DRAINING" /\ avail >= BufferSize -> "SETUP"
                       [] state = "RUNNING" /\ avail >= stop_threshold -> "XRUN"
                       [] OTHER -> state
  /\ slots' = IF stream = "CAPTURE" THEN Labelled(slots, hw_ptr, n) ELSE slots
  /\ UNCHANGED <<stream, nonblock, stop_threshold, appl_ptr, resume_to, pc, call, ret>>

Suspend ==
  /\ state \in {"PREPARED", "RUNNING", "DRAINING", "PAUSED"}
  /\ state' = "SUSPENDED"
  /\ resume_to' = state
  /\ UNCHANGED <<stream, nonblock, stop_threshold, hw_ptr, appl_ptr, slots, slipped, pc, call, ret>>

Disconnect ==
  /\ state # "DISCONNECTED"
  /\ state' = "DISCONNECTED"
  /\ UNCHANGED <<stream, nonblock, stop_threshold, hw_ptr, appl_ptr, slots, resume_to, slipped,
                 pc, call, ret>>

------------------------------------------------------------------------------
Init ==
  /\ stream \in {"PLAYBACK", "CAPTURE"}
  /\ nonblock \in BOOLEAN
  /\ stop_threshold \in StopThresholds
  /\ state = "SETUP"
  /\ hw_ptr = 0
  /\ appl_ptr = 0
  /\ slots = [x \in Slot |-> Stale]
  /\ resume_to = "SETUP"
  /\ pc = "idle"
  /\ call = NoCall
  /\ ret = 0
  /\ slipped = FALSE

(* The steps inside a transfer call; each belongs to the application.      *)
InCall ==
  \/ ReadState \/ StartCapture \/ HwSync \/ AvailUpdate \/ WaitCheck \/ Poll
  \/ Copy \/ Commit \/ AfterCopy \/ AutoStart \/ DrainDone

UserCall ==
  \/ \E n \in 1 .. MaxRequest : Transfer(n) \/ Rewind(n) \/ SkipForward(n)
  \/ Prepare \/ Reset \/ Start \/ Drop \/ Resume \/ Drain \/ Recover
  \/ QueryAvail
  \/ \E enable \in BOOLEAN : Pause(enable)

Driver == (\E n \in 1 .. MaxTick : Tick(n)) \/ Suspend \/ Disconnect

Next == InCall \/ UserCall \/ Driver

(***************************************************************************)
(* The scheduler runs a thread that can run, and a running device goes on  *)
(* moving.  Nothing obliges the user to call, or the device to suspend.    *)
(***************************************************************************)
Fairness ==
  /\ WF_vars(InCall)
  /\ WF_vars(\E n \in 1 .. MaxTick : Tick(n))

Spec == Init /\ [][Next]_vars /\ Fairness

------------------------------------------------------------------------------
(* In the endless mode nothing stops the stream when the hardware laps the *)
(* application.  Avail is then any number below the boundary, what is in   *)
(* the ring is old, and nothing is promised until the next prepare.        *)
Lapped == slipped /\ stop_threshold > BufferSize

Moving == {"PREPARED", "RUNNING", "PAUSED", "DRAINING", "SUSPENDED"}

(* The positions whose frames the ring owes: queued for the hardware on    *)
(* playback, captured and unread on capture.                               *)
Owed == IF stream = "PLAYBACK" THEN Span(hw_ptr, HwAvail(stream, hw_ptr, appl_ptr))
                               ELSE Span(appl_ptr, Avail)

(***************************************************************************)
(* Every queued frame is the one the application wrote for its position,   *)
(* and every unread one the frame captured at its position: no interleaving*)
(* of copy, commit, rewind, wrap-around and hardware progress overwrites,  *)
(* skips or exposes a frame.                                               *)
(***************************************************************************)
FramesIntact ==
  state \in Moving /\ ~Lapped => \A p \in Owed : slots[SlotOf(p)] = p

(***************************************************************************)
(* A read never hands out a frame that is not the captured one, unless the *)
(* hardware lapped it: snd_pcm_read_areas copies after its last look at    *)
(* the state, so the frames are only as good as avail was.                 *)
(***************************************************************************)
ReadsIntact == call.torn => slipped

(***************************************************************************)
(* What the application is about to copy or commit is its own part of the  *)
(* ring: the avail it computed before still bounds it now, whatever the    *)
(* driver did since, so the sanity checks of snd_pcm_mmap_commit and of    *)
(* snd_pcm_mmap_{write,read}_areas never fire in a single thread.          *)
(***************************************************************************)
TransferInFreeSpace ==
  pc \in {"copy", "commit"} /\ ~Lapped =>
    /\ call.frames - call.done <= Avail
    /\ pc = "commit" => call.span <= Min({Avail, BufferSize - SlotOf(appl_ptr)})

(***************************************************************************)
(* The return value counts the frames that moved, exactly, except when the *)
(* automatic start failed: then the frames of the last round are missing   *)
(* from it.  Never does it count a frame that did not move.                *)
(***************************************************************************)
ReturnAccountsForFrames ==
  pc = "idle" =>
    call.moved = call.xfer + IF call.frames > 0 /\ call.seen = "PREPARED"
                             THEN call.frames ELSE 0

(***************************************************************************)
(* What the documentation of snd_pcm_mmap_writei promises: the number of   *)
(* frames actually written, or a negative error code (and then none was).  *)
(***************************************************************************)
ReturnIsFramesWritten == pc = "idle" => call.moved = call.xfer

(***************************************************************************)
(* While a stream runs, the frames in the ring stay within the ring: the   *)
(* driver and the library, whoever looks first, stop a stream whose avail  *)
(* exceeds it, and where neither stops it, in the endless mode, only the   *)
(* hardware's lapping makes avail exceed it.                               *)
(***************************************************************************)
RingBounded ==
  state \in {"PREPARED", "RUNNING", "PAUSED", "DRAINING"} /\ ~Lapped =>
    Avail <= BufferSize

(***************************************************************************)
(* What the documentation of snd_pcm_rewindable promises of a healthy      *)
(* stream: the frames that can be taken back, and no error.                *)
(***************************************************************************)
RewindableCountsFrames ==
  Positioned /\ ~slipped => Rewindable \in 0 .. BufferSize

(***************************************************************************)
(* The ring and its two wrapping pointers implement a bounded queue: a     *)
(* frame leaves only at its turn, by a rewind, or when everything is       *)
(* dropped, and comes in only at the end.                                  *)
(***************************************************************************)
Oldest == IF stream = "PLAYBACK" THEN hw_ptr ELSE appl_ptr
Held == IF slipped THEN 0
        ELSE IF stream = "PLAYBACK" THEN HwAvail(stream, hw_ptr, appl_ptr)
                                    ELSE Avail

Fifo == INSTANCE PcmFifo WITH
          head <- Oldest,
          data <- [i \in 1 .. Held |-> slots[SlotOf(Forward(Oldest, i - 1))]],
          lost <- slipped

ImplementsFifo == Fifo!Spec

(***************************************************************************)
(* A blocking read or write comes back, and so does a blocking drain: no   *)
(* wait for poll is entered in a state whose poll never wakes.  A paused   *)
(* capture stream waits for another thread, and a lapped one may find its  *)
(* avail come round the boundary each time it looks.                       *)
(***************************************************************************)
CallReturns ==
  pc # "idle" ~>
    \/ pc = "idle"
    \/ stream = "CAPTURE" /\ state = "PAUSED"
    \/ Lapped
===============================================================================
