----------------------------- MODULE PcmHwProofs -----------------------------
(***************************************************************************)
(* The transfer functions of a "hw" PCM, for every ring, boundary,         *)
(* threshold, size of request and pace of the hardware.                    *)
(*                                                                         *)
(* That a transfer stays in the application's part of the ring             *)
(* (TransferInFreeSpace) needs that the hardware only ever adds to it,     *)
(* which fails when avail itself wraps: so the invariant bounds avail in   *)
(* every state the hardware moves in (Room), and follows the frames of the *)
(* call from the moment avail was read (Progress).  A stop threshold above *)
(* the ring stops nothing: there avail is bounded until the hardware laps  *)
(* the application (Lapped), and nothing is claimed after it but types.    *)
(***************************************************************************)
EXTENDS PcmHw, PcmRingProofs

Room == state \in Moving /\ ~Lapped => Avail <= BufferSize

(* A suspend comes back to a state in which avail was bounded.             *)
Resumes == state = "SUSPENDED" => resume_to \in Moving \ {"SUSPENDED"}

(* The locals of a call that has its frames.                               *)
Progress ==
  /\ pc \in {"copy", "commit", "after", "autostart"} => call.frames <= call.left
  /\ pc = "copy" => call.done <= call.frames
  /\ pc = "commit" => call.done + call.span <= call.frames

IInv == TypeOK /\ Room /\ Resumes /\ Progress /\ TransferInFreeSpace

------------------------------------------------------------------------------
(* What the two ways out of a step make of the locals.                     *)
LEMMA GotoTypes ==
  ASSUME NEW label \in PC, NEW c \in Call, ret \in Int, Goto(label, c)
  PROVE  pc' \in PC /\ call' \in Call /\ ret' \in Int
  BY DEF Goto

(* Changing one count in the locals keeps them locals.                     *)
LEMMA FieldTypes ==
  ASSUME NEW c \in Call, NEW n \in Nat
  PROVE  /\ [c EXCEPT !.left = n] \in Call
         /\ [c EXCEPT !.xfer = n] \in Call
         /\ [c EXCEPT !.avail = n] \in Call
         /\ [c EXCEPT !.frames = n] \in Call
         /\ [c EXCEPT !.done = n] \in Call
         /\ [c EXCEPT !.span = n] \in Call
         /\ [c EXCEPT !.moved = n] \in Call
  BY DEF Call

(* The locals between two calls are locals.                                *)
LEMMA NoCallType == NoCall \in Call
  BY Zenon DEF NoCall, Call, State

(* A return leaves the library with a number.                              *)
LEMMA ReturnTypes ==
  ASSUME NEW c \in Call, NEW err \in Int, Return(c, err)
  PROVE  pc' \in PC /\ pc' = "idle" /\ call' \in Call /\ ret' \in Int
<1>1. [NoCall EXCEPT !.xfer = c.xfer, !.moved = c.moved,
                     !.frames = c.frames, !.torn = c.torn, !.seen = c.seen] \in Call
  BY NoCallType DEF Call
<1>2. QED
  BY <1>1 DEF Return, PC, Call

(* The driver's answers are error numbers.                                 *)
LEMMA ErrorTypes ==
  /\ {EAGAIN, EIO, EPIPE, ENODEV, EBADFD, ESTRPIPE} \subseteq Int
  /\ HwsyncError \in Int /\ StartError \in Int
  /\ \A d \in Int : StoppedError(d) \in Int
  BY DEF EAGAIN, EIO, EPIPE, ENODEV, EBADFD, ESTRPIPE, HwsyncError, StartError, StoppedError

(* A step of the call that leaves the ring alone, and ends outside the     *)
(* copying loop, disturbs nothing else.                                    *)
LEMMA OutsideLoop ==
  ASSUME IInv, UNCHANGED <<stream, nonblock, stop_threshold, shared>>,
         pc' \in PC \ {"copy", "commit", "after", "autostart"},
         call' \in Call, ret' \in Int
  PROVE  IInv'
  BY DEF IInv, TypeOK, Room, Resumes, Progress, TransferInFreeSpace, Avail, Lapped, shared

(* A call to readi or writei begins.                                       *)
LEMMA TransferKeeps ==
  ASSUME IInv, NEW n \in 1 .. MaxRequest, Transfer(n)
  PROVE  IInv'
<1>1. [NoCall EXCEPT !.left = n] \in Call
  BY NoCallType, ThresholdAssumption DEF Call, ThresholdAssumption
<1>2. QED
  BY <1>1, OutsideLoop DEF Transfer, PC

(* The look at the state sends the call to its next place or back.         *)
LEMMA ReadStateKeeps ==
  ASSUME IInv, ReadState
  PROVE  IInv'
<1> DEFINE c == [call EXCEPT !.seen = state, !.frames = 0, !.done = 0]
<1>1. c \in Call /\ ret \in Int
  BY DEF IInv, TypeOK, Call
<1>2. \/ Goto("hwsync", c) \/ Goto("avail", c) \/ Goto("start", c)
      \/ Return(c, StoppedError(EBADFD))
  BY DEF ReadState
<1> HIDE DEF c
<1>3. /\ pc' \in {"hwsync", "avail", "start", "idle"}
      /\ call' \in Call /\ ret' \in Int
  BY <1>1, <1>2, GotoTypes, ReturnTypes, ErrorTypes DEF PC, Goto
<1>4. QED
  BY <1>3, OutsideLoop DEF ReadState, PC

(* The hwsync ioctl moves nothing.                                         *)
LEMMA HwSyncKeeps ==
  ASSUME IInv, HwSync
  PROVE  IInv'
<1>1. call \in Call /\ ret \in Int
  BY DEF IInv, TypeOK
<1>2. pc' \in {"avail", "idle"} /\ call' \in Call /\ ret' \in Int
  BY <1>1, GotoTypes, ReturnTypes, ErrorTypes DEF HwSync, PC, Goto
<1>3. QED
  BY <1>2, OutsideLoop DEF HwSync, PC

(* Neither do the waits, and a blocking drain.                             *)
LEMMA WaitKeeps ==
  ASSUME IInv, WaitCheck \/ Poll \/ DrainDone
  PROVE  IInv'
<1>1. call \in Call /\ ret \in Int
  BY DEF IInv, TypeOK
<1>2. pc' \in {"state", "poll", "idle"} /\ call' \in Call /\ ret' \in Int
  <2>1. CASE WaitCheck
    BY <1>1, <2>1, GotoTypes, ReturnTypes, ErrorTypes DEF WaitCheck, PC, Goto
  <2>2. CASE Poll
    BY <1>1, <2>2, GotoTypes, ReturnTypes, ErrorTypes DEF Poll, PC, Goto
  <2>3. CASE DrainDone
    BY <2>3, NoCallType, ReturnTypes, ErrorTypes DEF DrainDone, PC
  <2>4. QED
    BY <2>1, <2>2, <2>3
<1>3. QED
  BY <1>2, OutsideLoop DEF WaitCheck, Poll, DrainDone, PC

(* The library starts a prepared stream: capture before the first read,    *)
(* playback when the start threshold is reached.                           *)
LEMMA StateOnly ==
  ASSUME IInv, state' \in State, state \in Moving \/ state' \notin Moving,
         state' # "SUSPENDED",
         UNCHANGED <<stream, nonblock, stop_threshold, hw_ptr, appl_ptr, slots, resume_to, slipped>>,
         pc' \in PC \ {"copy", "commit", "after", "autostart"},
         call' \in Call, ret' \in Int
  PROVE  IInv'
  BY DEF IInv, TypeOK, Room, Resumes, Progress, TransferInFreeSpace, Avail, Lapped

(* Starting a capture stream.                                              *)
LEMMA StartCaptureKeeps ==
  ASSUME IInv, StartCapture
  PROVE  IInv'
<1>1. call \in Call /\ ret \in Int
  BY DEF IInv, TypeOK
<1>2. CASE StartError = 0
  <2>1. state = "PREPARED"
    BY <1>2 DEF StartError, ENODEV, EBADFD
  <2>2. pc' = "avail" /\ call' \in Call /\ ret' \in Int /\ state' = "RUNNING"
    BY <1>1, <1>2 DEF StartCapture, Goto
  <2>3. QED
    BY <2>1, <2>2, StateOnly DEF StartCapture, PC, State, Moving
<1>3. CASE StartError # 0
  BY <1>1, <1>3, ReturnTypes, ErrorTypes, OutsideLoop DEF StartCapture, PC, shared
<1>4. QED
  BY <1>2, <1>3

(* The frames are counted: the call goes round or ends.                    *)
LEMMA CountTypes ==
  ASSUME NEW c \in Call, c.frames <= c.left, ret \in Int, Count(c)
  PROVE  pc' \in {"state", "idle"} /\ call' \in Call /\ ret' \in Int
<1> DEFINE d == [c EXCEPT !.left = c.left - c.frames, !.xfer = c.xfer + c.frames, !.frames = 0]
<1>1. d \in Call
  <2>1. c.left - c.frames \in Nat /\ c.xfer + c.frames \in Nat
    BY DEF Call
  <2>2. [c EXCEPT !.left = c.left - c.frames] \in Call
    BY <2>1, FieldTypes
  <2>3. [[c EXCEPT !.left = c.left - c.frames] EXCEPT !.xfer = c.xfer + c.frames] \in Call
    BY <2>1, <2>2, FieldTypes
  <2>4. QED
    BY <2>3, FieldTypes
<1>2. Goto("state", d) \/ Return(d, 0)
  BY DEF Count
<1> HIDE DEF d
<1>3. QED
  BY <1>1, <1>2, GotoTypes, ReturnTypes DEF PC, Goto

(* Starting a playback stream whose threshold is reached.                  *)
LEMMA AutoStartKeeps ==
  ASSUME IInv, AutoStart
  PROVE  IInv'
<1>1. call \in Call /\ ret \in Int /\ call.frames <= call.left
  BY DEF IInv, TypeOK, Progress, AutoStart
<1>2. CASE StartError = 0
  <2>1. state = "PREPARED"
    BY <1>2 DEF StartError, ENODEV, EBADFD
  <2>2. pc' \in {"state", "idle"} /\ call' \in Call /\ ret' \in Int /\ state' = "RUNNING"
    BY <1>1, <1>2, CountTypes DEF AutoStart
  <2>3. QED
    BY <2>1, <2>2, StateOnly DEF AutoStart, PC, State, Moving
<1>3. CASE StartError # 0
  BY <1>1, <1>3, ReturnTypes, ErrorTypes, OutsideLoop DEF AutoStart, PC, shared
<1>4. QED
  BY <1>2, <1>3

(* The look at the start threshold.                                        *)
LEMMA AfterCopyKeeps ==
  ASSUME IInv, AfterCopy
  PROVE  IInv'
<1>1. call \in Call /\ ret \in Int /\ call.frames <= call.left
  BY DEF IInv, TypeOK, Progress, AfterCopy
<1>2. CASE Goto("autostart", call)
  BY <1>1, <1>2
  DEF AfterCopy, Goto, IInv, TypeOK, Room, Resumes, Progress, TransferInFreeSpace, Avail, Lapped,
      shared, PC
<1>3. CASE Count(call)
  BY <1>1, <1>3, CountTypes, OutsideLoop DEF AfterCopy, PC
<1>4. QED
  BY <1>2, <1>3 DEF AfterCopy

(* Avail is a number of frames.                                            *)
LEMMA AvailNat ==
  ASSUME TypeOK
  PROVE  Avail \in 0 .. Boundary - 1 /\ Boundary \in Nat
  BY AvailType, RingAssumption DEF TypeOK, Avail, RingAssumption

(* Here avail is read, and what is promised to the copying loop begins:    *)
(* the frames of this round fit in the avail of this very moment.          *)
LEMMA AvailUpdateKeeps ==
  ASSUME IInv, AvailUpdate
  PROVE  IInv'
<1>1. call \in Call /\ ret \in Int /\ Avail \in Nat /\ TypeOK /\ pc = "avail"
  BY AvailNat DEF IInv, TypeOK, AvailUpdate
<1>2. CASE state = "RUNNING" /\ Avail >= stop_threshold
  <2>1. Return(call, EPIPE) /\ state' = "XRUN"
    BY <1>2 DEF AvailUpdate
  <2>2. QED
    BY <1>1, <1>2, <2>1, ReturnTypes, ErrorTypes, StateOnly
    DEF AvailUpdate, State, Moving, PC
<1>3. CASE state = "XRUN"
  <2>1. Return(call, EPIPE) /\ state' = state
    BY <1>3 DEF AvailUpdate
  <2>2. QED
    BY <1>1, <2>1, ReturnTypes, ErrorTypes, OutsideLoop DEF AvailUpdate, PC, shared
<1>4. CASE ~(state = "RUNNING" /\ Avail >= stop_threshold) /\ state # "XRUN"
  <2> DEFINE c == [call EXCEPT !.avail = Avail]
             f == Min({c.left, c.avail})
  <2>1. c \in Call /\ c.avail = Avail /\ c.left \in Nat
    BY <1>1, FieldTypes DEF Call
  <2>2. UseAvail(c) /\ UNCHANGED <<stream, nonblock, stop_threshold, shared>>
    BY <1>4 DEF AvailUpdate, shared
  <2> HIDE DEF c
  <2>3. f \in Nat /\ f <= c.left /\ f <= Avail
    <3>1. c.left \in Int /\ c.avail \in Int
      BY <1>1, <2>1
    <3>2. f = IF c.left <= c.avail THEN c.left ELSE c.avail
      BY <3>1, MinOfTwo, Zenon
    <3>3. QED
      BY <1>1, <2>1, <3>2
  <2>4. \/ Return(c, 0) \/ Return(c, EAGAIN)
        \/ Goto("poll", c) \/ Goto("wait", c)
        \/ Goto("copy", [c EXCEPT !.frames = f, !.done = 0])
    BY <2>2 DEF UseAvail
  <2>5. CASE Goto("copy", [c EXCEPT !.frames = f, !.done = 0])
    <3> HIDE DEF f
    <3>1. [[c EXCEPT !.frames = f] EXCEPT !.done = 0] \in Call
      BY <2>1, <2>3, FieldTypes
    <3>2. /\ pc' = "copy" /\ call' \in Call /\ ret' \in Int
          /\ call'.frames = f /\ call'.done = 0 /\ call'.left = c.left
      BY <1>1, <2>1, <2>3, <2>5, <3>1 DEF Goto, Call
    <3>3. QED
      BY <1>1, <2>1, <2>2, <2>3, <3>2
      DEF IInv, TypeOK, Room, Resumes, Progress, TransferInFreeSpace, Avail, Lapped, shared, PC
  <2>6. CASE ~Goto("copy", [c EXCEPT !.frames = f, !.done = 0])
    <3>1. pc' \in {"poll", "wait", "idle"} /\ call' \in Call /\ ret' \in Int
      BY <1>1, <2>1, <2>4, <2>6, GotoTypes, ReturnTypes, ErrorTypes DEF PC, Goto
    <3>2. QED
      BY <2>2, <3>1, OutsideLoop DEF PC
  <2>7. QED
    BY <2>5, <2>6
<1>5. QED
  BY <1>2, <1>3, <1>4

(* Writing the frames of a piece of the ring keeps it a ring of frames.    *)
LEMMA LabelledType ==
  ASSUME NEW s \in [Slot -> Pointer \union {Stale}], NEW p \in Pointer, NEW n \in 0 .. Boundary
  PROVE  Labelled(s, p, n) \in [Slot -> Pointer \union {Stale}]
<1>1. Span(p, n) \subseteq Pointer
  <2>1. \A i \in 0 .. n - 1 : i \in 0 .. Boundary
    BY RingAssumption DEF RingAssumption
  <2>2. QED
    BY <2>1, ForwardType DEF Span
<1>2. ASSUME NEW x \in Slot
      PROVE  (LET own == {q \in Span(p, n) : SlotOf(q) = x}
              IN  IF own = {} THEN s[x] ELSE CHOOSE q \in own : TRUE)
               \in Pointer \union {Stale}
  BY <1>1
<1>3. QED
  BY <1>2 DEF Labelled

(* A copy stays inside what snd_pcm_mmap_begin offers.                     *)
LEMMA CopyKeeps ==
  ASSUME IInv, Copy
  PROVE  IInv'
<1>1. /\ call \in Call /\ ret \in Int /\ TypeOK /\ pc = "copy"
      /\ Boundary \in Nat /\ Avail \in 0 .. Boundary - 1 /\ hw_ptr \in Pointer /\ appl_ptr \in Pointer
      /\ call.frames \in Nat /\ call.done \in Nat
      /\ call.done <= call.frames /\ call.frames <= call.left
      /\ ~Lapped => call.frames - call.done <= Avail
  BY AvailNat DEF IInv, TypeOK, Copy, Progress, TransferInFreeSpace, Call
<1>2. /\ Chunk \in Nat /\ Chunk <= call.frames - call.done /\ Chunk <= Avail
      /\ Chunk <= BufferSize - SlotOf(appl_ptr)
  <2>1. call.frames - call.done \in Nat
    BY <1>1
  <2>2. QED
    BY <1>1, <2>1, BeginFramesBounds DEF Chunk, Avail
<1>3. CASE Return([call EXCEPT !.frames = 0], EPIPE) /\ UNCHANGED slots
  <2>1. [call EXCEPT !.frames = 0] \in Call
    BY <1>1, FieldTypes
  <2>2. QED
    BY <1>3, <2>1, ReturnTypes, ErrorTypes, OutsideLoop DEF Copy, PC, shared
<1>4. CASE ~(Return([call EXCEPT !.frames = 0], EPIPE) /\ UNCHANGED slots)
  <2> DEFINE torn == call.torn \/ /\ stream = "CAPTURE"
                                  /\ \E p \in Span(appl_ptr, Chunk) : slots[SlotOf(p)] # p
             c == [call EXCEPT !.span = Chunk]
  <2>1. /\ Goto("commit", [c EXCEPT !.torn = torn])
        /\ slots' = IF stream = "PLAYBACK" THEN Labelled(slots, appl_ptr, Chunk) ELSE slots
    BY <1>4 DEF Copy
  <2>2. torn \in BOOLEAN
    BY Zenon
  <2>3. c \in Call /\ c.span = Chunk /\ c.frames = call.frames /\ c.done = call.done
        /\ c.left = call.left
    BY <1>1, <1>2, FieldTypes DEF Call
  <2> HIDE DEF torn, c
  <2>4. [c EXCEPT !.torn = torn] \in Call
    BY <2>2, <2>3 DEF Call
  <2>5. /\ pc' = "commit" /\ call' \in Call /\ ret' \in Int
        /\ call'.span = Chunk /\ call'.frames = call.frames /\ call'.done = call.done
        /\ call'.left = call.left
    BY <1>1, <2>1, <2>3, <2>4 DEF Goto, Call
  <2>6. slots' \in [Slot -> Pointer \union {Stale}]
    <3>1. Chunk \in 0 .. Boundary
      BY <1>1, <1>2
    <3>2. QED
      BY <1>1, <2>1, <3>1, LabelledType DEF TypeOK
  <2>7. UNCHANGED <<stream, nonblock, stop_threshold, state, hw_ptr, appl_ptr, resume_to, slipped>>
    BY DEF Copy
  <2>8. TypeOK'
    BY <1>1, <2>5, <2>6, <2>7 DEF TypeOK, PC
  <2>9. TransferInFreeSpace'
    <3>1. Avail \in Int /\ BufferSize - SlotOf(appl_ptr) \in Int
      BY <1>1, SlotType, RingAssumption DEF Slot, RingAssumption
    <3>2. Min({Avail, BufferSize - SlotOf(appl_ptr)}) >= Chunk
      BY <1>2, <3>1, MinOfTwo
    <3>3. Avail' = Avail /\ Lapped' = Lapped
      BY <2>7 DEF Avail, Lapped
    <3>4. QED
      BY <1>1, <2>5, <2>7, <3>1, <3>2, <3>3 DEF TransferInFreeSpace
  <2>10. (Room /\ Resumes /\ Progress)'
    BY <1>1, <1>2, <2>5, <2>7 DEF IInv, Room, Resumes, Progress, Avail, Lapped
  <2>11. QED
    BY <2>8, <2>9, <2>10 DEF IInv
<1>5. QED
  BY <1>3, <1>4

(* A commit takes from avail exactly what the copy was offered, so that    *)
(* what is left of the round still fits.  Lapped in the endless mode it    *)
(* may find less, and stops the round where it is.                         *)
LEMMA CommitKeeps ==
  ASSUME IInv, Commit
  PROVE  IInv'
<1>1. /\ call \in Call /\ ret \in Int /\ TypeOK /\ pc = "commit"
      /\ Avail \in 0 .. Boundary - 1 /\ hw_ptr \in Pointer /\ appl_ptr \in Pointer
      /\ call.frames \in Nat /\ call.done \in Nat /\ call.span \in Nat /\ call.moved \in Nat
      /\ call.left \in Nat
      /\ call.done + call.span <= call.frames /\ call.frames <= call.left
      /\ ~Lapped => call.frames - call.done <= Avail
      /\ Boundary \in Nat
  BY AvailNat DEF IInv, TypeOK, Commit, Progress, TransferInFreeSpace, Call
<1>2. CASE call.span > Avail
  <2>1. CASE Return([call EXCEPT !.frames = 0], EPIPE)
    <3>1. [call EXCEPT !.frames = 0] \in Call
      BY <1>1, FieldTypes
    <3>2. UNCHANGED <<stream, nonblock, stop_threshold, shared>>
      BY <1>2 DEF Commit, shared
    <3>3. QED
      BY <2>1, <3>1, <3>2, ReturnTypes, ErrorTypes, OutsideLoop DEF PC
  <2>2. CASE ~Return([call EXCEPT !.frames = 0], EPIPE)
    <3> DEFINE c == [[call EXCEPT !.frames = call.done] EXCEPT !.span = 0]
    <3>1. c \in Call
      BY <1>1, FieldTypes
    <3>2. c.frames = call.done /\ c.left = call.left
      BY <1>1 DEF Call
    <3>3. Goto("after", c) /\ UNCHANGED <<stream, nonblock, stop_threshold, shared>>
      BY <1>2, <2>2 DEF Commit, shared
    <3> HIDE DEF c
    <3>4. pc' = "after" /\ call' = c /\ ret' = ret
      BY <3>3 DEF Goto
    <3>5. QED
      BY <1>1, <3>1, <3>2, <3>3, <3>4
      DEF IInv, TypeOK, Room, Resumes, Progress, TransferInFreeSpace, Avail, Lapped, shared, PC
  <2>3. QED
    BY <2>1, <2>2
<1>3. CASE ~(call.span > Avail)
  <2> DEFINE done == call.done + call.span
             moved == call.moved + call.span
             c == [[[call EXCEPT !.done = done] EXCEPT !.span = 0] EXCEPT !.moved = moved]
  <2>1. /\ appl_ptr' = Forward(appl_ptr, call.span)
        /\ Goto(IF done < call.frames THEN "copy" ELSE "after", c)
        /\ UNCHANGED <<stream, nonblock, stop_threshold, state, hw_ptr, slots, resume_to, slipped>>
    BY <1>1, <1>3 DEF Commit
  <2>2. c \in Call /\ c.done = done /\ c.span = 0 /\ c.frames = call.frames /\ c.left = call.left
    <3>1. done \in Nat /\ moved \in Nat
      BY <1>1
    <3>2. [call EXCEPT !.done = done] \in Call
      BY <1>1, <3>1, FieldTypes
    <3>3. [[call EXCEPT !.done = done] EXCEPT !.span = 0] \in Call
      BY <3>2, FieldTypes
    <3>4. c \in Call
      BY <3>1, <3>3, FieldTypes
    <3>5. QED
      BY <3>4 DEF Call
  <2> HIDE DEF c
  <2>3. appl_ptr' \in Pointer /\ Avail' = Avail - call.span
    <3>1. call.span \in 0 .. Boundary
      BY <1>1, <1>3
    <3>2. appl_ptr' \in Pointer
      BY <1>1, <2>1, <3>1, ForwardType
    <3>3. call.span \in 0 .. MmapAvail(stream, hw_ptr, appl_ptr)
      BY <1>1, <1>3 DEF Avail
    <3>4. QED
      BY <1>1, <2>1, <3>2, <3>3, AvailForwardAppl DEF Avail
  <2>4. /\ pc' = (IF done < call.frames THEN "copy" ELSE "after")
        /\ call' = c /\ ret' = ret /\ Lapped' = Lapped
    BY <2>1 DEF Goto, Lapped
  <2>5. TypeOK'
    BY <1>1, <2>1, <2>2, <2>3, <2>4 DEF TypeOK, PC
  <2>6. (Room /\ Resumes)'
    BY <1>1, <2>1, <2>3, <2>4, RingAssumption DEF IInv, Room, Resumes, RingAssumption
  <2>7. (Progress /\ TransferInFreeSpace)'
    BY <1>1, <1>3, <2>2, <2>3, <2>4 DEF Progress, TransferInFreeSpace
  <2>8. QED
    BY <2>5, <2>6, <2>7 DEF IInv
<1>4. QED
  BY <1>2, <1>3

------------------------------------------------------------------------------
(* The calls made between two transfers, and the driver.                   *)

(* A call that is answered at once keeps the invariant if it keeps the     *)
(* types and leaves avail bounded: it has no locals to follow.             *)
LEMMA Answered ==
  ASSUME IInv, UNCHANGED <<stream, nonblock, stop_threshold>>,
         state' \in State, resume_to' \in State, slipped' \in BOOLEAN,
         hw_ptr' \in Pointer, appl_ptr' \in Pointer,
         slots' \in [Slot -> Pointer \union {Stale}],
         pc' = "idle", call' \in Call, ret' \in Int, Room', Resumes'
  PROVE  IInv'
  BY DEF IInv, TypeOK, Progress, TransferInFreeSpace, PC

(* A call that moves no pointer and ends in a state whose avail is bounded *)
(* if that of the state before was, or that has none.                      *)
LEMMA AnsweredInPlace ==
  ASSUME IInv, UNCHANGED <<stream, nonblock, stop_threshold, hw_ptr, appl_ptr, slots, slipped>>,
         state' \in State, state \in Moving \/ state' \notin Moving, resume_to' \in State,
         state' # "SUSPENDED" \/ (state' = state /\ resume_to' = resume_to),
         pc' = "idle", call' \in Call, ret' \in Int
  PROVE  IInv'
<1>1. Room' /\ Resumes'
  BY DEF IInv, Room, Resumes, Avail, Lapped
<1>2. QED
  BY <1>1, Answered DEF IInv, TypeOK

(* Emptying the ring bounds avail.                                         *)
LEMMA EmptyTypes ==
  ASSUME IInv, NEW p \in Pointer, Empty(p), UNCHANGED stream
  PROVE  /\ hw_ptr' \in Pointer /\ appl_ptr' \in Pointer /\ slipped' \in BOOLEAN
         /\ slots' \in [Slot -> Pointer \union {Stale}]
         /\ Room'
<1>1. hw_ptr' = p /\ appl_ptr' = p /\ slipped' \in BOOLEAN
  BY Zenon DEF Empty
<1>2. slots' \in [Slot -> Pointer \union {Stale}]
  BY DEF Empty
<1>3. Avail' <= BufferSize
  <2>1. stream' \in {"PLAYBACK", "CAPTURE"}
    BY DEF IInv, TypeOK
  <2>2. QED
    BY <1>1, <2>1, AvailEmpty, RingAssumption DEF Avail, RingAssumption
<1>4. QED
  BY <1>1, <1>2, <1>3 DEF Room

(* Preparing empties the ring.                                             *)
LEMMA PrepareKeeps ==
  ASSUME IInv, Prepare
  PROVE  IInv'
<1>1. 0 \in Pointer
  BY RingAssumption DEF RingAssumption, Pointer
<1>2. /\ Empty(0) /\ state' = "PREPARED" /\ resume_to' = "SETUP"
      /\ UNCHANGED <<stream, nonblock, stop_threshold>>
      /\ pc' = "idle" /\ call' = NoCall /\ ret' = 0
  BY DEF Prepare, Answer
<1>3. QED
  BY <1>1, <1>2, EmptyTypes, Answered, NoCallType DEF IInv, TypeOK, State, Resumes

(* So does a reset, wherever the hardware is.                              *)
LEMMA ResetKeeps ==
  ASSUME IInv, Reset
  PROVE  IInv'
<1> DEFINE to == IF state = "RUNNING" THEN hw_ptr % BufferSize ELSE 0
<1>1. to \in Pointer
  BY SlotType, RingAssumption DEF RingAssumption, Pointer, Slot, SlotOf, IInv, TypeOK
<1>2. /\ Empty(to) /\ UNCHANGED <<stream, nonblock, stop_threshold, state, resume_to>>
      /\ pc' = "idle" /\ call' = NoCall /\ ret' = 0
  BY DEF Reset, Answer
<1> HIDE DEF to
<1>3. QED
  BY <1>1, <1>2, EmptyTypes, Answered, NoCallType DEF IInv, TypeOK, Resumes

(* Calls that change the state only.                                       *)
LEMMA StateCallsKeep ==
  ASSUME IInv, Start \/ Drop \/ Resume \/ QueryAvail \/ \E enable \in BOOLEAN : Pause(enable)
  PROVE  IInv'
<1>1. TypeOK /\ Avail \in Int
  BY AvailNat DEF IInv
<1>2. CASE Start
  <2>1. StartError = 0 => state = "PREPARED"
    BY DEF StartError, ENODEV, EBADFD
  <2>2. state' \in State /\ (state' = state \/ (state' = "RUNNING" /\ state = "PREPARED"))
    BY <1>1, <1>2, <2>1 DEF Start, TypeOK, State
  <2>3. pc' = "idle" /\ call' = NoCall /\ ret' \in Int
    BY <1>2, ErrorTypes DEF Start, Answer
  <2>4. QED
    BY <1>2, <2>2, <2>3, <1>1, AnsweredInPlace, NoCallType DEF Start, Answer, Moving, TypeOK
<1>3. CASE Drop
  BY <1>1, <1>3, AnsweredInPlace, NoCallType DEF Drop, Answer, Moving, State
<1>4. CASE Resume
  BY <1>1, <1>4, AnsweredInPlace, NoCallType
  DEF Resume, Answer, Moving, State, IInv, Resumes, TypeOK
<1>5. CASE QueryAvail
  <2>1. state' \in State /\ (state' = state \/ state' = "XRUN")
    BY <1>1, <1>5 DEF QueryAvail, TypeOK, State
  <2>2. pc' = "idle" /\ call' = NoCall /\ ret' \in Int
    BY <1>1, <1>5, ErrorTypes DEF QueryAvail, Answer
  <2>3. QED
    BY <1>1, <1>5, <2>1, <2>2, AnsweredInPlace, NoCallType DEF QueryAvail, Answer, Moving, TypeOK
<1>6. CASE \E enable \in BOOLEAN : Pause(enable)
  BY <1>1, <1>6, AnsweredInPlace, NoCallType DEF Pause, Answer, Moving, State, TypeOK
<1>7. QED
  BY <1>2, <1>3, <1>4, <1>5, <1>6

(* A drain stops or goes on moving; it never wakes a stopped stream.       *)
LEMMA DrainKeeps ==
  ASSUME IInv, Drain
  PROVE  IInv'
<1>1. /\ state' \in {"SETUP", "DRAINING"} /\ (state \in Moving \/ state' = "SETUP")
      /\ state \in State /\ pc = "idle" /\ ret \in Int
      /\ UNCHANGED <<stream, nonblock, stop_threshold, hw_ptr, appl_ptr, slots, resume_to, slipped>>
  BY DEF Drain, Moving, State, IInv, TypeOK
<1>2. CASE Goto("drain", NoCall)
  <2>1. pc' = "drain" /\ call' = NoCall /\ ret' = ret
    BY <1>2 DEF Goto
  <2>2. QED
    BY <1>1, <2>1, StateOnly, NoCallType DEF State, Moving, PC
<1>3. CASE ~Goto("drain", NoCall)
  <2>1. pc' = "idle" /\ call' = NoCall /\ ret' \in Int
    BY <1>1, <1>3, ErrorTypes DEF Drain
  <2>2. QED
    BY <1>1, <2>1, StateOnly, NoCallType DEF State, Moving, PC
<1>4. QED
  BY <1>2, <1>3

(* A rewind gives back at most what the hardware has before it, so avail   *)
(* does not grow beyond the ring.                                          *)
LEMMA RewindKeeps ==
  ASSUME IInv, NEW n \in 1 .. MaxRequest, Rewind(n)
  PROVE  IInv'
<1> DEFINE room == BufferSize - Avail
           back == Min({n, room})
<1>1. /\ TypeOK /\ Avail \in 0 .. Boundary - 1 /\ n \in Int /\ room \in Int
      /\ BufferSize \in Nat /\ Boundary \in Nat /\ Boundary >= 2 * BufferSize
      /\ hw_ptr \in Pointer /\ appl_ptr \in Pointer
  BY AvailNat, RingAssumption, ThresholdAssumption
  DEF IInv, TypeOK, RingAssumption, ThresholdAssumption
<1>2. back = IF n <= room THEN n ELSE room
  BY <1>1, MinOfTwo
<1>3. /\ back > 0 /\ appl_ptr' = Backward(appl_ptr, back)
      /\ slots' = IF stream = "CAPTURE" THEN Labelled(slots, Backward(appl_ptr, back), back)
                                        ELSE slots
      /\ pc' = "idle" /\ call' = NoCall /\ ret' = back
      /\ UNCHANGED <<stream, nonblock, stop_threshold, state, hw_ptr, resume_to, slipped>>
  BY DEF Rewind, Answer, HwAvail, Avail
<1> HIDE DEF back
<1>4. back \in Nat /\ Avail + back <= BufferSize /\ back \in 0 .. Boundary
  BY <1>1, <1>2, <1>3
<1>5. Backward(appl_ptr, back) \in Pointer
  BY <1>1, <1>4, BackwardType
<1>6. Avail' = Avail + back
  <2>1. MmapAvail(stream, hw_ptr, appl_ptr) + back < Boundary
    BY <1>1, <1>4, RingAssumption DEF Avail, RingAssumption
  <2>2. QED
    BY <1>1, <1>3, <1>4, <2>1, AvailBackwardAppl DEF Avail
<1>7. slots' \in [Slot -> Pointer \union {Stale}]
  BY <1>1, <1>3, <1>4, <1>5, LabelledType DEF TypeOK
<1>8. (Room /\ Resumes)'
  BY <1>3, <1>4, <1>6 DEF IInv, Room, Resumes, Lapped
<1>9. QED
  BY <1>1, <1>3, <1>4, <1>5, <1>7, <1>8, Answered, NoCallType DEF TypeOK

(* Skipping takes from avail, like a commit.                               *)
LEMMA SkipForwardKeeps ==
  ASSUME IInv, NEW n \in 1 .. MaxRequest, SkipForward(n)
  PROVE  IInv'
<1> DEFINE ahead == Min({n, Avail})
<1>1. /\ TypeOK /\ Avail \in 0 .. Boundary - 1 /\ n \in Int
      /\ BufferSize \in Nat /\ Boundary \in Nat
      /\ hw_ptr \in Pointer /\ appl_ptr \in Pointer
  BY AvailNat, RingAssumption, ThresholdAssumption
  DEF IInv, TypeOK, RingAssumption, ThresholdAssumption
<1>2. ahead = IF n <= Avail THEN n ELSE Avail
  BY <1>1, MinOfTwo
<1>3. /\ ahead > 0 /\ appl_ptr' = Forward(appl_ptr, ahead)
      /\ slots' = IF stream = "PLAYBACK" THEN Labelled(slots, appl_ptr, ahead) ELSE slots
      /\ pc' = "idle" /\ call' = NoCall /\ ret' = ahead
      /\ UNCHANGED <<stream, nonblock, stop_threshold, state, hw_ptr, resume_to, slipped>>
  BY DEF SkipForward, Answer
<1> HIDE DEF ahead
<1>4. ahead \in 0 .. Avail /\ ahead \in 0 .. Boundary
  BY <1>1, <1>2, <1>3
<1>5. appl_ptr' \in Pointer
  BY <1>1, <1>3, <1>4, ForwardType
<1>6. Avail' = Avail - ahead
  <2>1. ahead \in 0 .. MmapAvail(stream, hw_ptr, appl_ptr)
    BY <1>4 DEF Avail
  <2>2. QED
    BY <1>1, <1>3, <2>1, AvailForwardAppl DEF Avail
<1>7. slots' \in [Slot -> Pointer \union {Stale}]
  BY <1>1, <1>3, <1>4, LabelledType DEF TypeOK
<1>8. (Room /\ Resumes)'
  BY <1>1, <1>3, <1>4, <1>6 DEF IInv, Room, Resumes, Lapped
<1>9. QED
  BY <1>1, <1>3, <1>4, <1>5, <1>7, <1>8, Answered, NoCallType DEF TypeOK

(* The hardware only adds to avail, and stops the stream before it adds    *)
(* more than the pointers can tell, unless it laps the application first   *)
(* and nothing is to stop it.                                              *)
LEMMA TickKeeps ==
  ASSUME IInv, NEW n \in 1 .. MaxTick, Tick(n)
  PROVE  IInv'
<1>1. /\ TypeOK /\ Avail \in 0 .. Boundary - 1 /\ n \in Nat /\ n <= MaxTick
      /\ BufferSize \in Nat /\ Boundary \in Nat /\ MaxTick \in Nat
      /\ BufferSize + MaxTick < Boundary /\ stop_threshold \in Nat
      /\ hw_ptr \in Pointer /\ appl_ptr \in Pointer
      /\ ~Lapped => Avail <= BufferSize
  <2>1. state \in Moving
    BY DEF Tick, Moving
  <2>2. QED
    BY <2>1, AvailNat, RingAssumption, ThresholdAssumption
    DEF IInv, TypeOK, Room, RingAssumption, ThresholdAssumption
<1>2. n \in 0 .. Boundary
  BY <1>1
<1>3. /\ hw_ptr' = Forward(hw_ptr, n)
      /\ slots' = IF stream = "CAPTURE" THEN Labelled(slots, hw_ptr, n) ELSE slots
      /\ UNCHANGED <<stream, nonblock, stop_threshold, appl_ptr, resume_to, pc, call, ret>>
      /\ state \in {"RUNNING", "DRAINING"}
  BY DEF Tick
<1>4. slipped' \in BOOLEAN /\ (Lapped => Lapped')
  BY <1>3, Zenon DEF Tick, Lapped
<1>5. hw_ptr' \in Pointer
  BY <1>1, <1>2, <1>3, ForwardType
<1>6. ~Lapped => Avail' = Avail + n
  <2> SUFFICES ASSUME ~Lapped PROVE Avail' = Avail + n
    OBVIOUS
  <2>1. MmapAvail(stream, hw_ptr, appl_ptr) + n < Boundary
    BY <1>1 DEF Avail
  <2>2. QED
    BY <1>1, <1>3, <2>1, AvailForwardHw DEF Avail
<1>7. state' \in {"SETUP", "XRUN", state}
  BY DEF Tick
<1>8. state' \in Moving /\ ~Lapped' => Avail' <= BufferSize
  <2> SUFFICES ASSUME state' \in Moving, ~Lapped' PROVE Avail' <= BufferSize
    OBVIOUS
  <2>1. Avail' = Avail + n /\ Avail' \in Nat
    BY <1>1, <1>4, <1>6
  <2>2. Avail' = MmapAvail(stream, hw_ptr', appl_ptr)
    BY <1>3 DEF Avail
  <2>3. CASE state = "DRAINING"
    <3>1. ~(Avail' >= BufferSize)
      BY <2>2, <2>3 DEF Tick, Moving
    <3>2. QED
      BY <1>1, <2>1, <3>1
  <2>4. CASE state = "RUNNING" /\ stop_threshold <= BufferSize
    <3>1. ~(Avail' >= stop_threshold)
      BY <2>2, <2>4 DEF Tick, Moving
    <3>2. QED
      BY <1>1, <2>1, <2>4, <3>1
  <2>5. CASE stop_threshold > BufferSize
    <3>1. ~slipped'
      BY <1>3, <2>5 DEF Lapped
    <3>2. ~(n > BufferSize - Avail)
      BY <3>1, Zenon DEF Tick, HwAvail, Avail
    <3>3. QED
      BY <1>1, <2>1, <3>2
  <2>6. QED
    BY <1>1, <1>3, <2>3, <2>4, <2>5
<1>9. slots' \in [Slot -> Pointer \union {Stale}]
  BY <1>1, <1>2, <1>3, LabelledType DEF TypeOK
<1>10. TypeOK'
  BY <1>1, <1>3, <1>4, <1>5, <1>7, <1>9 DEF TypeOK, State
<1>11. (Room /\ Resumes /\ Progress)'
  BY <1>3, <1>7, <1>8 DEF IInv, Room, Resumes, Progress
<1>12. TransferInFreeSpace'
  <2> SUFFICES ASSUME ~Lapped'
               PROVE  TransferInFreeSpace'
    BY DEF TransferInFreeSpace
  <2>1. ~Lapped /\ call.frames \in Nat /\ call.done \in Nat /\ call.span \in Nat
    BY <1>1, <1>4 DEF TypeOK, Call
  <2>2. BufferSize - SlotOf(appl_ptr) \in Int
    BY <1>1, SlotType DEF Slot
  <2>3. pc = "commit" => call.span <= Avail /\ call.span <= BufferSize - SlotOf(appl_ptr)
    BY <1>1, <2>1, <2>2, MinOfTwo DEF IInv, TransferInFreeSpace
  <2>4. pc = "commit" => call.span <= Min({Avail + n, BufferSize - SlotOf(appl_ptr)})
    <3>1. Avail + n \in Int
      BY <1>1
    <3>2. QED
      BY <1>1, <2>1, <2>2, <2>3, <3>1, MinOfTwo
  <2>5. pc \in {"copy", "commit"} => call.frames - call.done <= Avail + n
    BY <1>1, <2>1 DEF IInv, TransferInFreeSpace
  <2>6. QED
    BY <1>3, <1>6, <2>1, <2>4, <2>5 DEF TransferInFreeSpace
<1>13. QED
  BY <1>10, <1>11, <1>12 DEF IInv

(* Suspending remembers a state with a bounded avail; a lost card has none.*)
LEMMA StopKeeps ==
  ASSUME IInv, Suspend \/ Disconnect
  PROVE  IInv'
<1>1. Avail' = Avail /\ Lapped' = Lapped
  BY DEF Suspend, Disconnect, Avail, Lapped
<1>2. TypeOK'
  BY DEF Suspend, Disconnect, IInv, TypeOK, State
<1>3. (Room /\ Resumes)'
  BY <1>1 DEF Suspend, Disconnect, IInv, Room, Resumes, Moving
<1>4. (Progress /\ TransferInFreeSpace)'
  BY <1>1 DEF Suspend, Disconnect, IInv, Progress, TransferInFreeSpace
<1>5. QED
  BY <1>2, <1>3, <1>4 DEF IInv

------------------------------------------------------------------------------
(* The invariant holds before the first call.                              *)
LEMMA InitIInv == Init => IInv
<1> SUFFICES ASSUME Init PROVE IInv
  OBVIOUS
<1> USE DEF Init
<1>1. 0 \in Pointer /\ slots \in [Slot -> Pointer \union {Stale}]
  BY RingAssumption DEF RingAssumption, Pointer
<1>2. TypeOK
  <2>1. nonblock \in BOOLEAN /\ slipped \in BOOLEAN
    BY Zenon
  <2>2. state \in State /\ resume_to \in State /\ pc \in PC /\ ret \in Int
    BY DEF State, PC
  <2>3. stop_threshold \in StopThresholds /\ stream \in {"PLAYBACK", "CAPTURE"}
    OBVIOUS
  <2>4. QED
    BY <1>1, <2>1, <2>2, <2>3, NoCallType DEF TypeOK
<1>3. Room /\ Resumes /\ Progress /\ TransferInFreeSpace
  BY DEF Room, Resumes, Progress, TransferInFreeSpace, Moving
<1>4. QED
  BY <1>2, <1>3 DEF IInv

(* Every step of the library, the application and the driver keeps it.     *)
LEMMA NextIInv == IInv /\ [Next]_vars => IInv'
<1> SUFFICES ASSUME IInv, [Next]_vars PROVE IInv'
  OBVIOUS
<1>1. CASE InCall
  BY <1>1, ReadStateKeeps, StartCaptureKeeps, HwSyncKeeps, AvailUpdateKeeps, WaitKeeps,
     CopyKeeps, CommitKeeps, AfterCopyKeeps, AutoStartKeeps DEF InCall
<1>2. CASE UserCall
  BY <1>2, TransferKeeps, RewindKeeps, SkipForwardKeeps, PrepareKeeps, ResetKeeps,
     StateCallsKeep, DrainKeeps DEF UserCall, Recover
<1>3. CASE Driver
  BY <1>3, TickKeeps, StopKeeps DEF Driver
<1>4. CASE UNCHANGED vars
  BY <1>4 DEF vars, shared, IInv, TypeOK, Room, Resumes, Progress, TransferInFreeSpace, Avail, Lapped
<1>5. QED
  BY <1>1, <1>2, <1>3, <1>4 DEF Next

(* The invariant holds in every reachable state.                           *)
THEOREM SpecIInv == Spec => []IInv
  BY InitIInv, NextIInv, PTL DEF Spec

(***************************************************************************)
(* Types, for every ring: in particular no pointer leaves 0 .. Boundary-1  *)
(* and no count of frames in a call ever goes below zero.                  *)
(***************************************************************************)
THEOREM SpecTypeOK == Spec => []TypeOK
<1>1. IInv => TypeOK
  BY DEF IInv
<1>2. QED
  BY <1>1, SpecIInv, PTL

(***************************************************************************)
(* The frames a transfer is about to copy or commit are the application's, *)
(* and contiguous, whatever the driver did since avail was read.           *)
(***************************************************************************)
THEOREM SpecTransferInFreeSpace == Spec => []TransferInFreeSpace
<1>1. IInv => TransferInFreeSpace
  BY DEF IInv
<1>2. QED
  BY <1>1, SpecIInv, PTL

(***************************************************************************)
(* Except after an xrun or a stop, avail never exceeds the ring, whatever  *)
(* the stop threshold; in the endless mode, until the hardware laps.       *)
(***************************************************************************)
THEOREM SpecRingBounded == Spec => []RingBounded
<1>1. IInv => RingBounded
  BY DEF IInv, Room, RingBounded, Moving
<1>2. QED
  BY <1>1, SpecIInv, PTL

------------------------------------------------------------------------------
(***************************************************************************)
(* What a read or write call reports is what it moved.                     *)
(*                                                                         *)
(* ReturnAccountsForFrames speaks of returns only.  Counted follows the    *)
(* count through the call: before the copying loop everything that moved   *)
(* is in xfer, inside it done is still to be added, and after it frames.   *)
(* It is inductive on top of IInv: an error return in the middle of the    *)
(* loop happens only before the first frame of the round has moved, in the *)
(* endless mode, and keeps the count even.                                 *)
(***************************************************************************)

(* Places where no frame of the round has moved.                           *)
Early == {"state", "start", "hwsync", "avail", "wait", "poll", "drain"}

Counted ==
  /\ pc \in Early => call.moved = call.xfer /\ call.frames = 0
  /\ pc \in {"copy", "commit"} => call.moved = call.xfer + call.done
  /\ pc \in {"after", "autostart"} => call.moved = call.xfer + call.frames
  /\ pc = "autostart" => call.seen = "PREPARED"
  /\ ReturnAccountsForFrames

(* Nothing has moved that xfer does not tell of.                           *)
Even(c) == c \in Call /\ c.moved = c.xfer /\ c.frames = 0

------------------------------------------------------------------------------
(* Going to a place before the loop with an even count is as it should be. *)
LEMMA GotoEarly ==
  ASSUME NEW label \in Early, NEW c, Even(c), Goto(label, c)
  PROVE  Counted'
  BY DEF Goto, Even, Early, Counted, ReturnAccountsForFrames

(* What the caller gets to see of the locals at a return.                  *)
LEMMA ReturnShows ==
  ASSUME NEW c \in Call, NEW err, Return(c, err)
  PROVE  /\ pc' = "idle" /\ call'.moved = c.moved /\ call'.xfer = c.xfer
         /\ call'.frames = c.frames /\ call'.seen = c.seen
  BY DEF Return, NoCall

(* So is returning with an even count.                                     *)
LEMMA ReturnEven ==
  ASSUME NEW c, Even(c), NEW err, Return(c, err)
  PROVE  Counted'
<1>1. pc' = "idle" /\ call'.moved = c.moved /\ call'.xfer = c.xfer /\ call'.frames = 0
  BY ReturnShows DEF Even
<1>2. c.moved \in Nat /\ c.xfer \in Nat /\ c.moved = c.xfer
  BY DEF Even, Call
<1>3. QED
  BY <1>1, <1>2 DEF Counted, ReturnAccountsForFrames, Early

(* Between two calls there are no locals, and nothing to account for.      *)
LEMMA NoCallEven == Even(NoCall)
  BY NoCallType DEF Even, NoCall

(* A call answered at once leaves the library with them.                   *)
LEMMA IdleNoCall ==
  ASSUME pc' = "idle", call' = NoCall
  PROVE  Counted'
<1>1. call'.moved = 0 /\ call'.xfer = 0 /\ call'.frames = 0
  BY DEF NoCall
<1>2. QED
  BY <1>1 DEF Counted, ReturnAccountsForFrames, Early

(* Counting the frames of a round that moved makes the count even.         *)
LEMMA CountEven ==
  ASSUME NEW c \in Call, c.moved = c.xfer + c.frames, c.frames <= c.left, Count(c)
  PROVE  Counted'
<1> DEFINE d == [[[c EXCEPT !.left = c.left - c.frames]
                     EXCEPT !.xfer = c.xfer + c.frames] EXCEPT !.frames = 0]
<1>1. c.left - c.frames \in Nat /\ c.xfer + c.frames \in Nat
  BY DEF Call
<1>2. d \in Call
  BY <1>1, FieldTypes
<1>3. Even(d)
  BY <1>1, <1>2 DEF Even, Call
<1>4. Goto("state", d) \/ Return(d, 0)
  BY DEF Count
<1> HIDE DEF d
<1>5. QED
  BY <1>3, <1>4, GotoEarly, ReturnEven DEF Early

------------------------------------------------------------------------------
(* The steps before the loop.                                              *)

(* Before the loop the count of the call is even.                          *)
LEMMA EarlyEven ==
  ASSUME IInv, Counted, pc \in Early
  PROVE  Even(call)
  BY DEF IInv, TypeOK, Counted, Even

(* Looking at the state forgets the last round, which was counted.         *)
LEMMA ReadStateCounts ==
  ASSUME IInv, Counted, ReadState
  PROVE  Counted'
<1> DEFINE c == [call EXCEPT !.seen = state, !.frames = 0, !.done = 0]
<1>1. Even(call)
  BY EarlyEven DEF ReadState, Early
<1>2. Even(c)
  BY <1>1 DEF Even, Call, IInv, TypeOK
<1>3. \/ Goto("hwsync", c) \/ Goto("avail", c) \/ Goto("start", c)
      \/ Return(c, StoppedError(EBADFD))
  BY DEF ReadState
<1> HIDE DEF c
<1>4. QED
  BY <1>2, <1>3, GotoEarly, ReturnEven DEF Early

(* The steps that look at the driver and wait for it carry the locals on.  *)
LEMMA LooksCount ==
  ASSUME IInv, Counted, StartCapture \/ HwSync \/ WaitCheck \/ Poll
  PROVE  Counted'
<1>1. Even(call)
  BY EarlyEven DEF StartCapture, HwSync, WaitCheck, Poll, Early
<1>2. CASE StartCapture
  BY <1>1, <1>2, GotoEarly, ReturnEven DEF StartCapture, Early
<1>3. CASE HwSync
  BY <1>1, <1>3, GotoEarly, ReturnEven DEF HwSync, Early
<1>4. CASE WaitCheck
  BY <1>1, <1>4, GotoEarly, ReturnEven DEF WaitCheck, Early
<1>5. CASE Poll
  BY <1>1, <1>5, GotoEarly, ReturnEven DEF Poll, Early
<1>6. QED
  BY <1>2, <1>3, <1>4, <1>5

(* The round begins: none of its frames has moved.                         *)
LEMMA AvailUpdateCounts ==
  ASSUME IInv, Counted, AvailUpdate
  PROVE  Counted'
<1>1. Even(call) /\ Avail \in Nat
  BY EarlyEven, AvailNat DEF AvailUpdate, Early, IInv
<1> DEFINE c == [call EXCEPT !.avail = Avail]
           f == Min({c.left, c.avail})
<1>2. Even(c)
  BY <1>1, FieldTypes DEF Even, Call
<1>3. Return(call, EPIPE) \/ UseAvail(c)
  BY DEF AvailUpdate
<1> HIDE DEF c
<1>4. CASE Return(call, EPIPE)
  BY <1>1, <1>4, ReturnEven
<1>5. CASE UseAvail(c)
  <2>1. \/ Return(c, 0) \/ Return(c, EAGAIN)
        \/ Goto("poll", c) \/ Goto("wait", c)
        \/ Goto("copy", [c EXCEPT !.frames = f, !.done = 0])
    BY <1>5 DEF UseAvail
  <2>2. CASE Goto("copy", [c EXCEPT !.frames = f, !.done = 0])
    <3> HIDE DEF f
    <3>1. pc' = "copy" /\ call'.moved = c.moved /\ call'.xfer = c.xfer /\ call'.done = 0
      BY <1>2, <2>2 DEF Goto, Even, Call
    <3>2. c.moved = c.xfer /\ c.xfer \in Nat
      BY <1>2 DEF Even, Call
    <3>3. QED
      BY <3>1, <3>2 DEF Counted, ReturnAccountsForFrames, Early
  <2>3. CASE ~Goto("copy", [c EXCEPT !.frames = f, !.done = 0])
    BY <1>2, <2>1, <2>3, GotoEarly, ReturnEven DEF Early
  <2>4. QED
    BY <2>2, <2>3
<1>6. QED
  BY <1>3, <1>4, <1>5

------------------------------------------------------------------------------
(* The loop and what follows it.                                           *)

(* A round given up has moved nothing, so what xfer tells is all.          *)
LEMMA GivesUp ==
  ASSUME call \in Call, call.moved = call.xfer, Return([call EXCEPT !.frames = 0], EPIPE)
  PROVE  Counted'
<1> DEFINE c == [call EXCEPT !.frames = 0]
<1>1. Even(c)
  BY FieldTypes DEF Even, Call
<1> HIDE DEF c
<1>2. QED
  BY <1>1, ReturnEven DEF c

(* A copy moves no frame yet, and one that finds too little room has none  *)
(* of its round behind it.                                                 *)
LEMMA CopyCounts ==
  ASSUME IInv, Counted, Copy
  PROVE  Counted'
<1>1. /\ call \in Call /\ pc = "copy" /\ call.done \in Nat /\ call.xfer \in Nat
      /\ call.moved = call.xfer + call.done
  BY DEF IInv, TypeOK, Copy, Call, Counted
<1>2. CASE call.done = 0 /\ Avail < call.frames
  BY <1>1, <1>2, GivesUp DEF Copy
<1>3. CASE ~(call.done = 0 /\ Avail < call.frames)
  <2> DEFINE torn == call.torn \/ /\ stream = "CAPTURE"
                                  /\ \E p \in Span(appl_ptr, Chunk) : slots[SlotOf(p)] # p
  <2>1. Goto("commit", [call EXCEPT !.span = Chunk, !.torn = torn])
    BY <1>3 DEF Copy
  <2> HIDE DEF torn
  <2>2. pc' = "commit" /\ call'.moved = call.moved /\ call'.xfer = call.xfer
        /\ call'.done = call.done
    BY <1>1, <2>1 DEF Goto, Call
  <2>3. QED
    BY <1>1, <2>2 DEF Counted, ReturnAccountsForFrames, Early
<1>4. QED
  BY <1>2, <1>3

(* A round is over when all its frames have moved, or when those left no   *)
(* longer fit: then the frames that did move are the round.                *)
LEMMA CommitCounts ==
  ASSUME IInv, Counted, Commit
  PROVE  Counted'
<1>1. /\ call \in Call /\ pc = "commit"
      /\ call.frames \in Nat /\ call.done \in Nat /\ call.span \in Nat
      /\ call.moved \in Nat /\ call.xfer \in Nat
      /\ call.done + call.span <= call.frames
      /\ call.moved = call.xfer + call.done
  BY DEF IInv, TypeOK, Commit, Progress, Call, Counted
<1>2. CASE call.span > Avail /\ call.done > 0
  <2>1. Goto("after", [call EXCEPT !.frames = call.done, !.span = 0])
    BY <1>2 DEF Commit
  <2>2. pc' = "after" /\ call'.moved = call.moved /\ call'.xfer = call.xfer
        /\ call'.frames = call.done
    BY <1>1, <2>1 DEF Goto, Call
  <2>3. QED
    BY <1>1, <2>2 DEF Counted, ReturnAccountsForFrames, Early
<1>3. CASE call.span > Avail /\ ~(call.done > 0)
  BY <1>1, <1>3, GivesUp DEF Commit
<1>4. CASE ~(call.span > Avail)
  <2> DEFINE done == call.done + call.span
             moved == call.moved + call.span
  <2>1. Goto(IF done < call.frames THEN "copy" ELSE "after",
             [call EXCEPT !.done = done, !.span = 0, !.moved = moved])
    BY <1>4 DEF Commit
  <2>2. /\ pc' = (IF done < call.frames THEN "copy" ELSE "after")
        /\ call'.done = done /\ call'.moved = moved
        /\ call'.xfer = call.xfer /\ call'.frames = call.frames
    BY <1>1, <2>1 DEF Goto, Call
  <2>3. moved = call.xfer + done /\ (done < call.frames \/ done = call.frames)
    BY <1>1
  <2>4. QED
    BY <2>2, <2>3 DEF Counted, ReturnAccountsForFrames, Early
<1>5. QED
  BY <1>2, <1>3, <1>4

(* Only a stream that was prepared when the round began, and still is, is  *)
(* on the way to its start; any other has its frames counted.              *)
LEMMA AfterCopyCounts ==
  ASSUME IInv, Counted, AfterCopy
  PROVE  Counted'
<1>1. call \in Call /\ call.frames <= call.left /\ call.moved = call.xfer + call.frames
  BY DEF IInv, TypeOK, Progress, AfterCopy, Counted
<1>2. CASE Goto("autostart", call) /\ call.seen = "PREPARED"
  BY <1>1, <1>2 DEF Goto, Counted, ReturnAccountsForFrames, Early
<1>3. CASE Count(call)
  BY <1>1, <1>3, CountEven
<1>4. QED
  BY <1>2, <1>3 DEF AfterCopy

(* A start that fails returns with the frames of the round uncounted: the  *)
(* one case the property names.                                            *)
LEMMA AutoStartCounts ==
  ASSUME IInv, Counted, AutoStart
  PROVE  Counted'
<1>1. /\ call \in Call /\ call.frames <= call.left
      /\ call.moved = call.xfer + call.frames /\ call.seen = "PREPARED"
      /\ call.frames \in Nat /\ call.xfer \in Nat
  BY DEF IInv, TypeOK, Progress, AutoStart, Counted, Call
<1>2. CASE Count(call)
  BY <1>1, <1>2, CountEven
<1>3. CASE Return(call, StartError)
  <2>1. /\ pc' = "idle" /\ call'.moved = call.moved /\ call'.xfer = call.xfer
        /\ call'.frames = call.frames /\ call'.seen = call.seen
    BY <1>1, <1>3, ReturnShows
  <2>2. QED
    BY <1>1, <2>1 DEF Counted, ReturnAccountsForFrames, Early
<1>4. QED
  BY <1>2, <1>3 DEF AutoStart

------------------------------------------------------------------------------
(* The calls between two transfers, and the driver.                        *)

(* A transfer and a blocking drain begin with nothing moved.               *)
LEMMA UserCallCounts ==
  ASSUME UserCall
  PROVE  Counted'
<1>1. ASSUME NEW n \in 1 .. MaxRequest, Transfer(n)
      PROVE  Counted'
  <2>1. pc' = "state" /\ call'.moved = 0 /\ call'.xfer = 0 /\ call'.frames = 0
    BY <1>1 DEF Transfer, NoCall
  <2>2. QED
    BY <2>1 DEF Counted, ReturnAccountsForFrames, Early
<1>2. CASE Drain
  <2>1. CASE Goto("drain", NoCall)
    BY <2>1, NoCallEven, GotoEarly DEF Early
  <2>2. CASE ~Goto("drain", NoCall)
    <3>1. pc' = "idle" /\ call' = NoCall
      BY <1>2, <2>2 DEF Drain
    <3>2. QED
      BY <3>1, IdleNoCall
  <2>3. QED
    BY <2>1, <2>2
<1>3. ASSUME NEW r, Answer(r)
      PROVE  Counted'
  BY <1>3, IdleNoCall DEF Answer
<1>4. CASE Prepare \/ Reset \/ Start \/ Drop \/ Resume \/ Recover \/ QueryAvail
  BY <1>3, <1>4 DEF Prepare, Reset, Start, Drop, Resume, Recover, QueryAvail
<1>5. CASE \E n \in 1 .. MaxRequest : Rewind(n) \/ SkipForward(n)
  BY <1>3, <1>5 DEF Rewind, SkipForward
<1>6. CASE \E enable \in BOOLEAN : Pause(enable)
  BY <1>3, <1>6 DEF Pause
<1>7. QED
  BY <1>1, <1>2, <1>4, <1>5, <1>6 DEF UserCall

(* Every step keeps the count.                                             *)
LEMMA NextCounted == IInv /\ Counted /\ [Next]_vars => Counted'
<1> SUFFICES ASSUME IInv, Counted, [Next]_vars PROVE Counted'
  OBVIOUS
<1>1. CASE DrainDone
  BY <1>1, NoCallEven, ReturnEven DEF DrainDone
<1>2. CASE InCall /\ ~DrainDone
  BY <1>2, ReadStateCounts, LooksCount, AvailUpdateCounts, CopyCounts, CommitCounts,
     AfterCopyCounts, AutoStartCounts DEF InCall
<1>3. CASE UserCall
  BY <1>3, UserCallCounts
<1>4. CASE Driver \/ UNCHANGED vars
  <2>1. UNCHANGED <<pc, call>>
    BY <1>4 DEF Driver, Tick, Suspend, Disconnect, vars
  <2>2. QED
    BY <2>1 DEF Counted, ReturnAccountsForFrames
<1>5. QED
  BY <1>1, <1>2, <1>3, <1>4 DEF Next

(* Nothing is counted before the first call.                               *)
LEMMA InitCounted == Init => Counted
<1> SUFFICES ASSUME Init PROVE Counted
  OBVIOUS
<1>1. pc = "idle" /\ call.moved = 0 /\ call.xfer = 0 /\ call.frames = 0
  BY DEF Init, NoCall
<1>2. QED
  BY <1>1 DEF Counted, ReturnAccountsForFrames, Early

(***************************************************************************)
(* What readi and writei return is the number of frames that moved, but    *)
(* for the frames of the last round when the automatic start failed; no    *)
(* frame is ever reported that did not move.                               *)
(***************************************************************************)
THEOREM SpecReturnAccountsForFrames == Spec => []ReturnAccountsForFrames
<1>1. Counted => ReturnAccountsForFrames
  BY DEF Counted
<1>2. QED
  BY <1>1, SpecIInv, InitCounted, NextCounted, PTL DEF Spec

------------------------------------------------------------------------------
(***************************************************************************)
(* No frame is lost, overwritten or made up in the ring, for every ring,   *)
(* boundary, threshold, size of request and pace of the hardware; and the  *)
(* ring with its two wrapping pointers implements the bounded queue of     *)
(* PcmFifo.                                                                *)
(*                                                                         *)
(* The argument is about slots: frames less than a ring apart never share  *)
(* one (SlotsApart), so what one side writes beyond its pointer leaves     *)
(* alone what the other side still owes, as long as both together fit in   *)
(* the ring.  That they fit is IInv above.                                 *)
(***************************************************************************)

(* The ring s holds the n frames that begin at position p.                 *)
Holds(s, p, n) == \A i \in 0 .. n - 1 : s[SlotOf(Forward(p, i))] = Forward(p, i)

Ring == [Slot -> Pointer \union {Stale}]

(* The queue, as long as the hardware has not lapped the application: it   *)
(* fits in the ring, which holds it, in every state of the stream.         *)
Intact == ~slipped => Avail <= BufferSize /\ Holds(slots, Oldest, Held)

(* Frames copied and not yet committed are in the ring already.            *)
Copied == pc = "commit" /\ stream = "PLAYBACK" => Holds(slots, appl_ptr, call.span)

(* The hardware stops when it laps the application, until it is prepared   *)
(* or reset; only the endless mode goes on.                                *)
LapStops == slipped => state \notin Moving \/ stop_threshold > BufferSize

FInv == Intact /\ Copied /\ LapStops /\ ReadsIntact

------------------------------------------------------------------------------
(* What Labelled writes: its own frames, and nothing else.                 *)
LEMMA LabelledAt ==
  ASSUME NEW s \in Ring, NEW p \in Pointer, NEW n \in 0 .. BufferSize
  PROVE  /\ Holds(Labelled(s, p, n), p, n)
         /\ \A x \in Slot : (\A i \in 0 .. n - 1 : SlotOf(Forward(p, i)) # x)
                              => Labelled(s, p, n)[x] = s[x]
<1>1. /\ BufferSize \in Nat \ {0} /\ Boundary \in Nat /\ BufferSize <= Boundary /\ n \in Int
      /\ \A i \in 0 .. n - 1 : i \in 0 .. Boundary
  BY RingAssumption DEF RingAssumption
<1>2. ASSUME NEW i \in 0 .. n - 1
      PROVE  Labelled(s, p, n)[SlotOf(Forward(p, i))] = Forward(p, i)
  <2> DEFINE x == SlotOf(Forward(p, i))
             own == {q \in Span(p, n) : SlotOf(q) = x}
  <2>1. Forward(p, i) \in Pointer /\ x \in Slot
    BY <1>1, ForwardType, SlotType
  <2>2. \A j \in 0 .. n - 1 : SlotOf(Forward(p, j)) = x => j = i
    <3> TAKE j \in 0 .. n - 1
    <3>1. i \in 0 .. Boundary /\ j \in 0 .. Boundary /\ i - j < BufferSize /\ j - i < BufferSize
      BY <1>1
    <3>2. QED
      BY <3>1, SlotsApart
  <2>3. own = {Forward(p, i)}
    BY <2>2 DEF Span
  <2>4. Labelled(s, p, n)[x] = IF own = {} THEN s[x] ELSE CHOOSE q \in own : TRUE
    BY <2>1 DEF Labelled
  <2> HIDE DEF own
  <2>5. QED
    BY <2>3, <2>4
<1>3. ASSUME NEW x \in Slot, \A i \in 0 .. n - 1 : SlotOf(Forward(p, i)) # x
      PROVE  Labelled(s, p, n)[x] = s[x]
  <2>1. {q \in Span(p, n) : SlotOf(q) = x} = {}
    BY <1>3 DEF Span
  <2>2. QED
    BY <2>1 DEF Labelled
<1>4. QED
  BY <1>2, <1>3 DEF Holds

(* The slot of a position of the ring.                                     *)
LEMMA SlotAt ==
  ASSUME NEW p \in Pointer, NEW i \in 0 .. BufferSize
  PROVE  i \in 0 .. Boundary /\ Forward(p, i) \in Pointer /\ SlotOf(Forward(p, i)) \in Slot
<1>1. i \in 0 .. Boundary
  BY RingAssumption DEF RingAssumption
<1>2. QED
  BY <1>1, ForwardType, SlotType

(* Frames put behind those the ring holds leave them alone ...             *)
LEMMA HoldsAfter ==
  ASSUME NEW s \in Ring, NEW p \in Pointer, NEW m \in Nat, NEW n \in Nat,
         m + n <= BufferSize, Holds(s, p, m)
  PROVE  Holds(Labelled(s, Forward(p, m), n), p, m + n)
<1> DEFINE q == Forward(p, m)
           t == Labelled(s, q, n)
<1>1. /\ BufferSize \in Nat /\ Boundary \in Nat /\ BufferSize <= Boundary
      /\ m \in 0 .. BufferSize /\ n \in 0 .. BufferSize
  BY RingAssumption DEF RingAssumption
<1>2. q \in Pointer
  BY <1>1, SlotAt
<1>3. \A j \in 0 .. n - 1 : Forward(q, j) = Forward(p, m + j)
  BY <1>1, ForwardForward
<1>4. /\ \A j \in 0 .. n - 1 : t[SlotOf(Forward(q, j))] = Forward(q, j)
      /\ \A x \in Slot : (\A j \in 0 .. n - 1 : SlotOf(Forward(q, j)) # x) => t[x] = s[x]
  BY <1>1, <1>2, LabelledAt DEF Holds
<1> HIDE DEF q, t
<1>5. ASSUME NEW i \in 0 .. m + n - 1
      PROVE  t[SlotOf(Forward(p, i))] = Forward(p, i)
  <2>1. CASE i >= m
    <3>1. i - m \in 0 .. n - 1 /\ m + (i - m) = i
      BY <1>1, <2>1
    <3>2. QED
      BY <1>3, <1>4, <3>1
  <2>2. CASE i < m
    <3>1. i \in 0 .. m - 1 /\ i \in 0 .. BufferSize
      BY <1>1, <2>2
    <3>2. SlotOf(Forward(p, i)) \in Slot
      BY <3>1, SlotAt
    <3>3. ASSUME NEW j \in 0 .. n - 1
          PROVE  SlotOf(Forward(q, j)) # SlotOf(Forward(p, i))
      <4>1. /\ m + j \in 0 .. Boundary /\ i \in 0 .. Boundary /\ m + j # i
            /\ (m + j) - i < BufferSize /\ i - (m + j) < BufferSize
        BY <1>1, <3>1
      <4>2. QED
        BY <1>3, <4>1, SlotsApart
    <3>4. QED
      BY <1>4, <3>1, <3>2, <3>3 DEF Holds
  <2>3. QED
    BY <1>1, <2>1, <2>2
<1>6. QED
  BY <1>5 DEF Holds, q, t

(* ... and so do frames put before them.                                   *)
LEMMA HoldsBefore ==
  ASSUME NEW s \in Ring, NEW p \in Pointer, NEW m \in Nat, NEW n \in Nat,
         m + n <= BufferSize, Holds(s, Forward(p, n), m)
  PROVE  Holds(Labelled(s, p, n), p, m + n)
<1> DEFINE q == Forward(p, n)
           t == Labelled(s, p, n)
<1>1. /\ BufferSize \in Nat /\ Boundary \in Nat /\ BufferSize <= Boundary
      /\ m \in 0 .. BufferSize /\ n \in 0 .. BufferSize
  BY RingAssumption DEF RingAssumption
<1>2. \A j \in 0 .. m - 1 : Forward(q, j) = Forward(p, n + j)
  BY <1>1, ForwardForward
<1>3. /\ \A j \in 0 .. n - 1 : t[SlotOf(Forward(p, j))] = Forward(p, j)
      /\ \A x \in Slot : (\A j \in 0 .. n - 1 : SlotOf(Forward(p, j)) # x) => t[x] = s[x]
  BY <1>1, LabelledAt DEF Holds
<1>4. \A j \in 0 .. m - 1 : s[SlotOf(Forward(q, j))] = Forward(q, j)
  BY DEF Holds
<1> HIDE DEF q, t
<1>5. ASSUME NEW i \in 0 .. m + n - 1
      PROVE  t[SlotOf(Forward(p, i))] = Forward(p, i)
  <2>1. CASE i < n
    BY <1>1, <1>3, <2>1
  <2>2. CASE i >= n
    <3>1. i - n \in 0 .. m - 1 /\ n + (i - n) = i /\ i \in 0 .. BufferSize
      BY <1>1, <2>2
    <3>2. SlotOf(Forward(p, i)) \in Slot
      BY <3>1, SlotAt
    <3>3. s[SlotOf(Forward(p, i))] = Forward(p, i)
      BY <1>2, <1>4, <3>1
    <3>4. ASSUME NEW j \in 0 .. n - 1
          PROVE  SlotOf(Forward(p, j)) # SlotOf(Forward(p, i))
      <4>1. /\ j \in 0 .. Boundary /\ i \in 0 .. Boundary /\ j # i
            /\ j - i < BufferSize /\ i - j < BufferSize
        BY <1>1, <2>2, <3>1
      <4>2. QED
        BY <4>1, SlotsApart
    <3>5. QED
      BY <1>3, <3>2, <3>3, <3>4
  <2>3. QED
    BY <1>1, <2>1, <2>2
<1>6. QED
  BY <1>5 DEF Holds, t

(* A ring that holds a run of frames holds its parts, and the other way    *)
(* round.                                                                  *)
LEMMA HoldsParts ==
  ASSUME NEW s, NEW p \in Pointer, NEW m \in Nat, NEW n \in Nat, m + n <= BufferSize
  PROVE  Holds(s, p, m + n) <=> Holds(s, p, m) /\ Holds(s, Forward(p, m), n)
<1>1. BufferSize \in Nat /\ Boundary \in Nat /\ BufferSize <= Boundary
  BY RingAssumption DEF RingAssumption
<1>2. \A j \in 0 .. n - 1 : Forward(Forward(p, m), j) = Forward(p, m + j)
  BY <1>1, ForwardForward
<1>3. ASSUME Holds(s, p, m + n)
      PROVE  Holds(s, p, m) /\ Holds(s, Forward(p, m), n)
  <2>1. \A j \in 0 .. n - 1 : m + j \in 0 .. m + n - 1
    OBVIOUS
  <2>2. \A i \in 0 .. m - 1 : i \in 0 .. m + n - 1
    OBVIOUS
  <2>3. QED
    BY <1>2, <1>3, <2>1, <2>2 DEF Holds
<1>4. ASSUME Holds(s, p, m), Holds(s, Forward(p, m), n)
      PROVE  Holds(s, p, m + n)
  <2>1. ASSUME NEW i \in 0 .. m + n - 1
        PROVE  s[SlotOf(Forward(p, i))] = Forward(p, i)
    <3>1. CASE i < m
      BY <1>4, <3>1 DEF Holds
    <3>2. CASE i >= m
      <4>1. i - m \in 0 .. n - 1 /\ m + (i - m) = i
        BY <3>2
      <4>2. QED
        BY <1>2, <1>4, <4>1 DEF Holds
    <3>3. QED
      BY <3>1, <3>2
  <2>2. QED
    BY <2>1 DEF Holds
<1>5. QED
  BY <1>3, <1>4

------------------------------------------------------------------------------
(* How a step may move the queue, in terms of its oldest frame and of how  *)
(* many frames it holds.                                                   *)
Cleared   == ~slipped' /\ Held' = 0 /\ Oldest' \in Pointer
Grown(n)  == Oldest' = Oldest /\ Held' = Held + n
Shrunk(n) == Oldest' = Oldest /\ Held' = Held - n
Taken(n)  == Oldest' = Forward(Oldest, n) /\ Held' = Held - n
Asked(n)  == Oldest' = Backward(Oldest, n) /\ Held' = Held + n

Moves ==
  \/ slipped'
  \/ Cleared
  \/ /\ ~slipped /\ ~slipped'
     /\ Held \in 0 .. BufferSize /\ Held' \in 0 .. BufferSize
     /\ Oldest \in Pointer /\ Oldest' \in Pointer
     /\ \E n \in 0 .. BufferSize : Grown(n) \/ Shrunk(n) \/ Taken(n) \/ Asked(n)

(* Where the queue begins and ends while avail is bounded.                 *)
LEMMA QueueEnds ==
  ASSUME TypeOK, Avail <= BufferSize
  PROVE  /\ Oldest \in Pointer /\ Avail \in 0 .. BufferSize
         /\ BufferSize - Avail \in 0 .. BufferSize /\ BufferSize \in Nat /\ Boundary \in Nat
         /\ BufferSize < Boundary
         /\ stream = "PLAYBACK" => /\ Oldest = hw_ptr
                                   /\ ~slipped => Held = BufferSize - Avail
                                   /\ appl_ptr = Forward(hw_ptr, BufferSize - Avail)
         /\ stream = "CAPTURE"  => /\ Oldest = appl_ptr
                                   /\ ~slipped => Held = Avail
                                   /\ hw_ptr = Forward(appl_ptr, Avail)
         /\ ~slipped => Held \in 0 .. BufferSize
<1>1. /\ BufferSize \in Nat /\ Boundary \in Nat /\ BufferSize < Boundary
      /\ Avail \in 0 .. BufferSize /\ BufferSize - Avail \in 0 .. BufferSize
  BY AvailNat, RingAssumption DEF RingAssumption
<1>2. /\ Oldest \in Pointer
      /\ stream = "PLAYBACK" => Oldest = hw_ptr
      /\ stream = "CAPTURE" => Oldest = appl_ptr
      /\ ~slipped /\ stream = "PLAYBACK" => Held = BufferSize - Avail
      /\ ~slipped /\ stream = "CAPTURE" => Held = Avail
  BY DEF TypeOK, Oldest, Held, HwAvail, Avail
<1>3. stream = "PLAYBACK" => appl_ptr = Forward(hw_ptr, BufferSize - Avail)
  BY ApplAfterHw DEF TypeOK, HwAvail, Avail
<1>4. stream = "CAPTURE" => hw_ptr = Forward(appl_ptr, Avail)
  BY HwAfterAppl DEF TypeOK, Avail
<1>5. stream = "PLAYBACK" \/ stream = "CAPTURE"
  BY DEF TypeOK
<1>6. QED
  BY <1>1, <1>2, <1>3, <1>4, <1>5

(* A step that moves no pointer moves nothing in the queue.                *)
LEMMA NoMove ==
  ASSUME IInv, FInv, UNCHANGED <<stream, hw_ptr, appl_ptr, slipped>>
  PROVE  /\ Avail' = Avail /\ Oldest' = Oldest /\ Held' = Held
         /\ Moves
<1>1. Avail' = Avail /\ Oldest' = Oldest /\ Held' = Held
  BY DEF Avail, Oldest, Held
<1>2. CASE slipped
  BY <1>1, <1>2 DEF Moves
<1>3. CASE ~slipped
  <2>1. /\ Held \in 0 .. BufferSize /\ Oldest \in Pointer /\ BufferSize \in Nat
    BY <1>3, QueueEnds DEF IInv, FInv, Intact
  <2>2. Grown(0) /\ 0 \in 0 .. BufferSize
    BY <1>1, <2>1 DEF Grown
  <2>3. QED
    BY <1>1, <1>3, <2>1, <2>2 DEF Moves
<1>4. QED
  BY <1>2, <1>3, <1>1

(* Once the hardware has lapped there is no queue to keep, only what was   *)
(* copied last.                                                            *)
LEMMA NoQueue ==
  ASSUME slipped', FInv, UNCHANGED stop_threshold, Copied',
         state' \in Moving => stop_threshold > BufferSize
  PROVE  FInv' /\ Moves
  BY DEF FInv, Intact, LapStops, ReadsIntact, Moves

(* A step that writes no slot either keeps the invariant.                  *)
LEMMA StillRing ==
  ASSUME IInv, FInv, UNCHANGED <<stream, stop_threshold, hw_ptr, appl_ptr, slots, slipped>>,
         state' \in Moving => state \in Moving,
         pc' = "commit" => pc = "commit" /\ call' = call,
         call'.torn => call.torn
  PROVE  FInv' /\ Moves
<1>1. Intact'
  BY NoMove DEF FInv, Intact, Holds
<1>2. Copied' /\ LapStops' /\ ReadsIntact'
  BY DEF FInv, Copied, LapStops, ReadsIntact, Holds
<1>3. QED
  BY <1>1, <1>2, NoMove DEF FInv

(* The steps of a call outside the loop, and the answers that move nothing.*)
LEMMA GotoTorn ==
  ASSUME NEW label, NEW c, Goto(label, c)
  PROVE  pc' = label /\ call'.torn = c.torn
  BY DEF Goto

(* A return keeps what it knows of torn reads.                             *)
LEMMA ReturnTorn ==
  ASSUME NEW c, NEW err, Return(c, err)
  PROVE  pc' = "idle" /\ call'.torn = c.torn
  BY DEF Return, NoCall

(* Counting the frames of a round.                                         *)
LEMMA CountTorn ==
  ASSUME NEW c \in Call, Count(c)
  PROVE  pc' \in {"state", "idle"} /\ call'.torn = c.torn
<1> DEFINE d == [c EXCEPT !.left = c.left - c.frames, !.xfer = c.xfer + c.frames, !.frames = 0]
<1>1. d.torn = c.torn
  BY DEF Call
<1>2. Goto("state", d) \/ Return(d, 0)
  BY DEF Count
<1> HIDE DEF d
<1>3. QED
  BY <1>1, <1>2, GotoTorn, ReturnTorn

(* The steps of a call that look, wait, start and count.                   *)
LEMMA LooksStill ==
  ASSUME IInv, FInv,
         \/ ReadState \/ StartCapture \/ HwSync \/ AvailUpdate \/ WaitCheck \/ Poll
         \/ AfterCopy \/ AutoStart \/ DrainDone
  PROVE  FInv' /\ Moves
<1>1. call \in Call
  BY DEF IInv, TypeOK
<1>2. UNCHANGED <<stream, stop_threshold, hw_ptr, appl_ptr, slots, slipped>>
  BY DEF ReadState, StartCapture, HwSync, AvailUpdate, WaitCheck, Poll, AfterCopy,
         AutoStart, DrainDone, shared
<1>3. state' \in Moving => state \in Moving
  <2>1. StartError = 0 => state = "PREPARED"
    BY DEF StartError, ENODEV, EBADFD
  <2>2. QED
    BY <2>1 DEF ReadState, StartCapture, HwSync, AvailUpdate, WaitCheck, Poll, AfterCopy,
                AutoStart, DrainDone, shared, Moving
<1>4. pc' # "commit" /\ (call'.torn => call.torn)
  <2>1. CASE ReadState
    <3> DEFINE c == [call EXCEPT !.seen = state, !.frames = 0, !.done = 0]
    <3>1. c.torn = call.torn
      BY <1>1 DEF Call
    <3>2. \/ Goto("hwsync", c) \/ Goto("avail", c) \/ Goto("start", c)
          \/ Return(c, StoppedError(EBADFD))
      BY <2>1 DEF ReadState
    <3> HIDE DEF c
    <3>3. QED
      BY <3>1, <3>2, GotoTorn, ReturnTorn
  <2>2. CASE StartCapture \/ HwSync
    BY <2>2, GotoTorn, ReturnTorn DEF StartCapture, HwSync
  <2>3. CASE WaitCheck \/ Poll
    BY <2>3, GotoTorn, ReturnTorn DEF WaitCheck, Poll
  <2>4. CASE AvailUpdate
    <3> DEFINE c == [call EXCEPT !.avail = Avail]
               d == [c EXCEPT !.frames = Min({c.left, c.avail}), !.done = 0]
    <3>1. c.torn = call.torn /\ d.torn = call.torn
      BY <1>1 DEF Call
    <3>2. Return(call, EPIPE) \/ UseAvail(c)
      BY <2>4 DEF AvailUpdate
    <3>3. UseAvail(c) => \/ Return(c, 0) \/ Return(c, EAGAIN)
                         \/ Goto("poll", c) \/ Goto("wait", c) \/ Goto("copy", d)
      BY DEF UseAvail
    <3> HIDE DEF c, d
    <3>4. QED
      BY <3>1, <3>2, <3>3, GotoTorn, ReturnTorn
  <2>5. CASE AfterCopy
    BY <1>1, <2>5, GotoTorn, CountTorn DEF AfterCopy
  <2>6. CASE AutoStart
    BY <1>1, <2>6, ReturnTorn, CountTorn DEF AutoStart
  <2>7. CASE DrainDone
    BY <2>7, ReturnTorn DEF DrainDone, NoCall
  <2>8. QED
    BY <2>1, <2>2, <2>3, <2>4, <2>5, <2>6, <2>7
<1>5. QED
  BY <1>2, <1>3, <1>4, StillRing

(* Calls that are answered without touching the ring, and the driver's     *)
(* stops.                                                                  *)
LEMMA AnswersStill ==
  ASSUME IInv, FInv,
         \/ \E n \in 1 .. MaxRequest : Transfer(n)
         \/ Start \/ Drop \/ Resume \/ Drain \/ QueryAvail
         \/ \E enable \in BOOLEAN : Pause(enable)
         \/ Suspend \/ Disconnect
  PROVE  FInv' /\ Moves
<1>1. UNCHANGED <<stream, stop_threshold, hw_ptr, appl_ptr, slots, slipped>>
  BY DEF Transfer, Start, Drop, Resume, Drain, QueryAvail, Pause, Suspend, Disconnect,
         Answer, shared
<1>2. state' \in Moving => state \in Moving
  <2>1. StartError = 0 => state = "PREPARED"
    BY DEF StartError, ENODEV, EBADFD
  <2>2. QED
    BY <2>1 DEF Transfer, Start, Drop, Resume, Drain, QueryAvail, Pause, Suspend, Disconnect,
                shared, Moving
<1>3. /\ pc' = "commit" => pc = "commit" /\ call' = call
      /\ call'.torn => call.torn
  <2>1. CASE \/ Start \/ Drop \/ Resume \/ QueryAvail \/ \E enable \in BOOLEAN : Pause(enable)
    BY <2>1 DEF Start, Drop, Resume, QueryAvail, Pause, Answer, NoCall
  <2>2. CASE Drain
    <3>1. pc' # "commit" /\ call' = NoCall
      BY <2>2 DEF Drain, Goto
    <3>2. QED
      BY <3>1 DEF NoCall
  <2>3. CASE \E n \in 1 .. MaxRequest : Transfer(n)
    BY <2>3 DEF Transfer, NoCall
  <2>4. CASE Suspend \/ Disconnect
    BY <2>4 DEF Suspend, Disconnect
  <2>5. QED
    BY <2>1, <2>2, <2>3, <2>4
<1>4. QED
  BY <1>1, <1>2, <1>3, StillRing

------------------------------------------------------------------------------
(* The steps that write the ring or move a pointer.                        *)

(* A copy to the ring writes into the free part only, which the frames not *)
(* yet played do not reach; a copy from it finds only captured frames.     *)
LEMMA CopyFrames ==
  ASSUME IInv, FInv, Copy
  PROVE  FInv' /\ Moves
<1> DEFINE torn == call.torn \/ /\ stream = "CAPTURE"
                                /\ \E p \in Span(appl_ptr, Chunk) : slots[SlotOf(p)] # p
<1>1. /\ call \in Call /\ TypeOK /\ pc = "copy" /\ slots \in Ring /\ BufferSize \in Nat
      /\ Avail \in Nat /\ hw_ptr \in Pointer /\ appl_ptr \in Pointer
      /\ call.frames \in Nat /\ call.done \in Nat
      /\ call.done <= call.frames
  BY AvailNat, RingAssumption
  DEF RingAssumption, IInv, TypeOK, Ring, Copy, Progress, Call
<1>2. /\ Chunk \in Nat /\ Chunk <= Avail /\ Chunk <= BufferSize
  <2>1. call.frames - call.done \in Nat
    BY <1>1
  <2>2. Chunk \in Nat /\ Chunk <= Avail /\ Chunk <= BufferSize - SlotOf(appl_ptr)
    BY <1>1, <2>1, BeginFramesBounds DEF Chunk, Avail
  <2>3. SlotOf(appl_ptr) \in Nat
    BY <1>1, SlotType DEF Slot
  <2>4. QED
    BY <1>1, <2>2, <2>3
<1>3. CASE call.done = 0 /\ Avail < call.frames
  <2> DEFINE c == [call EXCEPT !.frames = 0]
  <2>1. c.torn = call.torn /\ Return(c, EPIPE)
    BY <1>1, <1>3 DEF Copy, Call
  <2> HIDE DEF c
  <2>2. pc' # "commit" /\ call'.torn = call.torn
    BY <2>1, ReturnTorn
  <2>3. UNCHANGED <<stream, stop_threshold, hw_ptr, appl_ptr, slots, slipped, state>>
    BY <1>3 DEF Copy
  <2>4. QED
    BY <2>2, <2>3, StillRing
<1>4. CASE ~(call.done = 0 /\ Avail < call.frames)
  <2>1. /\ Goto("commit", [call EXCEPT !.span = Chunk, !.torn = torn])
        /\ slots' = IF stream = "PLAYBACK" THEN Labelled(slots, appl_ptr, Chunk) ELSE slots
        /\ UNCHANGED <<stream, stop_threshold, state, hw_ptr, appl_ptr, slipped>>
    BY <1>4 DEF Copy
  <2>2. pc' = "commit" /\ call'.span = Chunk /\ call'.torn = torn
    <3> HIDE DEF torn
    <3>1. QED
      BY <1>1, <2>1 DEF Goto, Call
  <2>3. ReadsIntact'
    <3>1. torn /\ ~call.torn => slipped
      <4> SUFFICES ASSUME stream = "CAPTURE", ~slipped,
                          NEW p \in Span(appl_ptr, Chunk), slots[SlotOf(p)] # p
                   PROVE  FALSE
        BY DEF torn
      <4>1. Holds(slots, appl_ptr, Avail)
        BY <1>1, QueueEnds DEF FInv, Intact
      <4>2. PICK i \in 0 .. Chunk - 1 : p = Forward(appl_ptr, i)
        BY DEF Span
      <4>3. i \in 0 .. Avail - 1
        BY <1>1, <1>2
      <4>4. QED
        BY <4>1, <4>2, <4>3 DEF Holds
    <3>2. QED
      BY <2>1, <2>2, <3>1 DEF FInv, ReadsIntact
  <2>4. Copied'
    <3>1. stream = "PLAYBACK" => Holds(Labelled(slots, appl_ptr, Chunk), appl_ptr, Chunk)
      BY <1>1, <1>2, LabelledAt
    <3>2. QED
      BY <2>1, <2>2, <3>1 DEF Copied
  <2>5. Intact'
    <3> SUFFICES ASSUME ~slipped PROVE Avail <= BufferSize /\ Holds(slots', Oldest, Held)
      BY <2>1, NoMove DEF Intact, Holds
    <3>1. Avail <= BufferSize /\ Holds(slots, Oldest, Held)
      BY DEF FInv, Intact
    <3>2. CASE stream = "PLAYBACK"
      <4> DEFINE m == BufferSize - Avail
      <4>1. Oldest = hw_ptr /\ Held = m /\ appl_ptr = Forward(hw_ptr, m) /\ m \in Nat
        BY <1>1, <3>1, <3>2, QueueEnds
      <4>2. m + Chunk <= BufferSize
        BY <1>1, <1>2
      <4> HIDE DEF m
      <4>3. Holds(Labelled(slots, appl_ptr, Chunk), hw_ptr, m + Chunk)
        BY <1>1, <1>2, <3>1, <4>1, <4>2, HoldsAfter
      <4>4. Holds(Labelled(slots, appl_ptr, Chunk), hw_ptr, m)
        BY <1>1, <1>2, <4>1, <4>2, <4>3, HoldsParts
      <4>5. QED
        BY <2>1, <3>1, <3>2, <4>1, <4>4
    <3>3. CASE stream # "PLAYBACK"
      BY <2>1, <3>1, <3>3
    <3>4. QED
      BY <3>2, <3>3
  <2>6. LapStops' /\ Moves
    BY <2>1, NoMove DEF FInv, LapStops
  <2>7. QED
    BY <2>3, <2>4, <2>5, <2>6 DEF FInv
<1>5. QED
  BY <1>3, <1>4

(* A commit makes the frames copied part of the queue, or takes the frames *)
(* read out of it.                                                         *)
LEMMA CommitFrames ==
  ASSUME IInv, FInv, Commit
  PROVE  FInv' /\ Moves
<1> DEFINE n == call.span
<1>1. /\ call \in Call /\ TypeOK /\ pc = "commit" /\ slots \in Ring
      /\ BufferSize \in Nat /\ Boundary \in Nat /\ BufferSize <= Boundary
      /\ Avail \in 0 .. Boundary - 1 /\ hw_ptr \in Pointer /\ appl_ptr \in Pointer
      /\ n \in Nat /\ stream \in {"PLAYBACK", "CAPTURE"}
  BY AvailNat, RingAssumption DEF RingAssumption, IInv, TypeOK, Ring, Commit, Call
<1> SUFFICES ASSUME ~slipped
             PROVE  FInv' /\ Moves
  <2>1. pc' # "commit" /\ UNCHANGED <<state, stop_threshold, slipped>>
    BY DEF Commit, Goto, Return
  <2>2. slipped => FInv' /\ Moves
    BY <2>1, NoQueue DEF FInv, LapStops, Copied
  <2>3. QED
    BY <2>2
<1>2. n <= Avail /\ n <= BufferSize
  <2>1. SlotOf(appl_ptr) \in Nat
    BY <1>1, SlotType DEF Slot
  <2>2. n <= Avail /\ n <= BufferSize - SlotOf(appl_ptr)
    <3>1. Avail \in Int /\ BufferSize - SlotOf(appl_ptr) \in Int
      BY <1>1, <2>1
    <3>2. QED
      BY <1>1, <3>1, MinOfTwo DEF IInv, TransferInFreeSpace, Lapped
  <2>3. QED
    BY <1>1, <2>1, <2>2
<1>3. /\ appl_ptr' = Forward(appl_ptr, n) /\ pc' \in {"copy", "after"}
      /\ call'.torn = call.torn
      /\ UNCHANGED <<stream, stop_threshold, state, hw_ptr, slots, slipped>>
  <2>1. ~(call.span > Avail)
    BY <1>1, <1>2
  <2>2. QED
    BY <1>1, <2>1 DEF Commit, Goto, Call
<1>4. Avail' = Avail - n /\ appl_ptr' \in Pointer
  <2>1. n \in 0 .. MmapAvail(stream, hw_ptr, appl_ptr) /\ n \in 0 .. Boundary
    BY <1>1, <1>2 DEF Avail
  <2>2. QED
    BY <1>1, <1>3, <2>1, AvailForwardAppl, ForwardType DEF Avail
<1>5. Copied' /\ LapStops' /\ ReadsIntact'
  BY <1>3 DEF FInv, Copied, LapStops, ReadsIntact
<1> HIDE DEF n
<1>6. CASE ~slipped /\ stream = "PLAYBACK"
  <2> DEFINE m == BufferSize - Avail
  <2>1. /\ Avail <= BufferSize /\ Oldest = hw_ptr /\ Held = m /\ m \in Nat
        /\ appl_ptr = Forward(hw_ptr, m) /\ Holds(slots, hw_ptr, m)
    BY <1>1, <1>6, QueueEnds DEF FInv, Intact
  <2>2. Holds(slots, appl_ptr, n)
    BY <1>1, <1>6 DEF FInv, Copied, n
  <2>3. m + n <= BufferSize
    BY <1>1, <1>2
  <2>4. Oldest' = hw_ptr /\ Held' = m + n /\ Avail' <= BufferSize
    <3>1. Oldest' = hw_ptr
      BY <1>3, <1>6 DEF Oldest
    <3>2. Held' = BufferSize - (Avail - n)
      BY <1>3, <1>4, <1>6 DEF Held, HwAvail, Avail
    <3>3. QED
      BY <1>1, <1>4, <2>1, <3>1, <3>2
  <2> HIDE DEF m
  <2>5. Holds(slots, hw_ptr, m + n)
    BY <1>1, <2>1, <2>2, <2>3, HoldsParts
  <2>6. Intact'
    BY <1>3, <2>4, <2>5 DEF Intact, Holds
  <2>7. Moves
    <3>1. Grown(n) /\ n \in 0 .. BufferSize /\ Held' \in 0 .. BufferSize /\ Held \in 0 .. BufferSize
      BY <1>1, <1>2, <2>1, <2>3, <2>4 DEF Grown
    <3>2. QED
      BY <1>1, <1>3, <1>6, <2>1, <2>4, <3>1 DEF Moves
  <2>8. QED
    BY <1>5, <2>6, <2>7 DEF FInv
<1>7. CASE ~slipped /\ stream = "CAPTURE"
  <2>1. /\ Avail <= BufferSize /\ Oldest = appl_ptr /\ Held = Avail
        /\ Holds(slots, appl_ptr, Avail)
    BY <1>1, <1>7, QueueEnds DEF FInv, Intact
  <2>2. Oldest' = appl_ptr' /\ Held' = Avail - n /\ Avail' <= BufferSize
    <3>1. Oldest' = appl_ptr' /\ Held' = Avail'
      BY <1>3, <1>7 DEF Oldest, Held
    <3>2. QED
      BY <1>1, <1>2, <1>4, <2>1, <3>1
  <2> DEFINE m == Avail - n
  <2>3. m \in Nat /\ n + m <= BufferSize /\ n + m = Avail
    BY <1>1, <1>2, <2>1
  <2> HIDE DEF m
  <2>4. Holds(slots, Forward(appl_ptr, n), m)
    BY <1>1, <2>1, <2>3, HoldsParts
  <2>5. Intact'
    BY <1>3, <2>2, <2>4 DEF Intact, Holds, m
  <2>6. Moves
    <3>1. Taken(n) /\ n \in 0 .. BufferSize /\ Held' \in 0 .. BufferSize /\ Held \in 0 .. BufferSize
      BY <1>1, <1>2, <1>3, <2>1, <2>2 DEF Taken
    <3>2. QED
      BY <1>1, <1>3, <1>4, <1>7, <2>1, <2>2, <3>1 DEF Moves
  <2>7. QED
    BY <1>5, <2>5, <2>6 DEF FInv
<1>8. QED
  BY <1>1, <1>6, <1>7

(* Emptying the ring leaves nothing to keep.                               *)
LEMMA EmptyFrames ==
  ASSUME IInv, FInv, Prepare \/ Reset
  PROVE  FInv' /\ Moves
<1> DEFINE to == IF state = "RUNNING" THEN hw_ptr % BufferSize ELSE 0
<1>1. /\ to \in Pointer /\ 0 \in Pointer /\ stream \in {"PLAYBACK", "CAPTURE"}
      /\ BufferSize \in Nat
  <2>1. hw_ptr \in Pointer /\ stream \in {"PLAYBACK", "CAPTURE"}
    BY DEF IInv, TypeOK
  <2>2. hw_ptr % BufferSize \in Slot
    BY <2>1, SlotType DEF SlotOf
  <2>3. QED
    BY <2>1, <2>2, RingAssumption DEF RingAssumption, Pointer, Slot
<1>2. PICK p \in Pointer : Empty(p)
  BY <1>1 DEF Prepare, Reset
<1> HIDE DEF to
<1>3. /\ hw_ptr' = p /\ appl_ptr' = p /\ ~slipped' /\ stream' = stream
      /\ pc' = "idle" /\ call' = NoCall
  <2>1. ~slipped'
    BY <1>2, Zenon DEF Empty
  <2>2. QED
    BY <1>2, <2>1 DEF Empty, Prepare, Reset, Answer
<1>4. Avail' <= BufferSize /\ Held' = 0 /\ Oldest' = p
  <2>1. CASE stream = "PLAYBACK"
    BY <1>1, <1>3, <2>1, AvailEmpty DEF Avail, Held, HwAvail, Oldest
  <2>2. CASE stream = "CAPTURE"
    BY <1>1, <1>3, <2>2, AvailEmpty DEF Avail, Held, HwAvail, Oldest
  <2>3. QED
    BY <1>1, <2>1, <2>2
<1>5. Intact'
  BY <1>4 DEF Intact, Holds
<1>6. Copied' /\ LapStops' /\ ReadsIntact'
  BY <1>3 DEF Copied, LapStops, ReadsIntact, NoCall
<1>7. Moves
  BY <1>3, <1>4 DEF Moves, Cleared
<1>8. QED
  BY <1>5, <1>6, <1>7 DEF FInv

(* What is common to the steps that follow: the queue moves by n frames,   *)
(* and the ring still holds it.                                            *)
LEMMA QueueMoves ==
  ASSUME IInv, FInv, ~slipped, ~slipped', NEW n \in 0 .. BufferSize,
         Avail' <= BufferSize, Held' \in 0 .. BufferSize, Oldest' \in Pointer,
         Grown(n) \/ Shrunk(n) \/ Taken(n) \/ Asked(n),
         Holds(slots', Oldest', Held')
  PROVE  Intact' /\ Moves
<1>1. Intact'
  BY DEF Intact, Holds
<1>2. Held \in 0 .. BufferSize /\ Oldest \in Pointer
  BY QueueEnds DEF IInv, FInv, Intact
<1>3. QED
  BY <1>1, <1>2 DEF Moves

(* Taking frames back shortens the queue at its end; asking for frames     *)
(* again lengthens it at its beginning, by frames the ring still has.      *)
LEMMA RewindFrames ==
  ASSUME IInv, FInv, NEW k \in 1 .. MaxRequest, Rewind(k)
  PROVE  FInv' /\ Moves
<1> DEFINE room == BufferSize - Avail
           n == Min({k, room})
<1> SUFFICES ASSUME ~slipped
             PROVE  FInv' /\ Moves
  <2>1. pc' # "commit" /\ UNCHANGED <<state, stop_threshold, slipped>>
    BY DEF Rewind, Answer
  <2>2. slipped => FInv' /\ Moves
    BY <2>1, NoQueue DEF FInv, LapStops, Copied
  <2>3. QED
    BY <2>2
<1>1. /\ TypeOK /\ slots \in Ring /\ stream \in {"PLAYBACK", "CAPTURE"} /\ k \in Int
      /\ hw_ptr \in Pointer /\ appl_ptr \in Pointer /\ ~slipped
  BY ThresholdAssumption
  DEF ThresholdAssumption, IInv, TypeOK, Ring, FInv, LapStops, Rewind, Positioned, Moving
<1>2. Avail <= BufferSize /\ Holds(slots, Oldest, Held)
  BY <1>1 DEF FInv, Intact
<1>3. /\ Oldest \in Pointer /\ Avail \in 0 .. BufferSize /\ room \in 0 .. BufferSize
      /\ BufferSize \in Nat /\ Boundary \in Nat /\ BufferSize < Boundary
      /\ stream = "PLAYBACK" => Oldest = hw_ptr /\ Held = room
      /\ stream = "CAPTURE" => Oldest = appl_ptr /\ Held = Avail
  BY <1>1, <1>2, QueueEnds
<1>4. /\ n > 0 /\ appl_ptr' = Backward(appl_ptr, n) /\ pc' = "idle" /\ call' = NoCall
      /\ slots' = IF stream = "CAPTURE" THEN Labelled(slots, Backward(appl_ptr, n), n) ELSE slots
      /\ UNCHANGED <<stream, stop_threshold, state, hw_ptr, slipped>>
  BY DEF Rewind, Answer, HwAvail, Avail
<1>5. n \in Nat /\ n <= room
  <2>1. n = IF k <= room THEN k ELSE room
    BY <1>1, <1>3, MinOfTwo
  <2>2. QED
    BY <1>1, <1>3, <2>1
<1> HIDE DEF n, room
<1>6. n \in 0 .. BufferSize /\ Avail + n <= BufferSize /\ room = BufferSize - Avail
  BY <1>3, <1>5 DEF room
<1>7. appl_ptr' \in Pointer
  BY <1>1, <1>3, <1>4, <1>6, BackwardType
<1>8. Avail' = Avail + n
  <2>1. MmapAvail(stream, hw_ptr, appl_ptr) + n < Boundary
    BY <1>1, <1>3, <1>6 DEF Avail
  <2>2. QED
    BY <1>1, <1>4, <1>5, <2>1, AvailBackwardAppl DEF Avail
<1>9. ~slipped' /\ Copied' /\ LapStops' /\ ReadsIntact'
  BY <1>1, <1>4 DEF Copied, LapStops, ReadsIntact, NoCall
<1>10. CASE stream = "PLAYBACK"
  <2>1. Oldest' = hw_ptr /\ Held' = BufferSize - (Avail + n)
    BY <1>1, <1>4, <1>8, <1>10 DEF Oldest, Held, HwAvail, Avail
  <2> DEFINE m == room - n
  <2>2. m \in Nat /\ m + n = room /\ m + n <= BufferSize /\ Held' = m
    BY <1>3, <1>5, <1>6, <2>1
  <2> HIDE DEF m
  <2>3. Holds(slots, hw_ptr, m)
    BY <1>1, <1>2, <1>3, <1>5, <1>10, <2>2, HoldsParts
  <2>4. Shrunk(n)
    BY <1>3, <1>10, <2>1, <2>2, <1>5 DEF Shrunk
  <2>5. Held' \in 0 .. BufferSize /\ Avail' <= BufferSize /\ Oldest' \in Pointer
    BY <1>1, <1>3, <1>6, <1>8, <2>1, <2>2
  <2>6. slots' = slots
    BY <1>4, <1>10
  <2>7. Holds(slots', Oldest', Held')
    BY <2>1, <2>2, <2>3, <2>6
  <2>8. Intact' /\ Moves
    BY <1>1, <1>9, <1>6, <2>4, <2>5, <2>7, QueueMoves
  <2>9. QED
    BY <1>9, <2>8 DEF FInv
<1>11. CASE stream = "CAPTURE"
  <2> DEFINE q == Backward(appl_ptr, n)
  <2>1. Oldest' = q /\ Held' = Avail + n
    BY <1>1, <1>4, <1>8, <1>11 DEF Oldest, Held
  <2>2. Forward(q, n) = appl_ptr /\ q \in Pointer /\ slots' = Labelled(slots, q, n)
    BY <1>1, <1>3, <1>4, <1>5, <1>6, <1>7, <1>11, BackwardForward
  <2> HIDE DEF q
  <2>3. Holds(slots', q, Avail + n)
    BY <1>1, <1>2, <1>3, <1>5, <1>6, <1>11, <2>2, HoldsBefore
  <2>4. Asked(n)
    BY <1>3, <1>11, <2>1 DEF Asked, q
  <2>5. Held' \in 0 .. BufferSize /\ Avail' <= BufferSize
    BY <1>3, <1>5, <1>6, <1>8, <2>1
  <2>6. Holds(slots', Oldest', Held')
    BY <2>1, <2>3
  <2>7. Intact' /\ Moves
    BY <1>1, <1>9, <1>6, <2>1, <2>2, <2>4, <2>5, <2>6, QueueMoves
  <2>8. QED
    BY <1>9, <2>7 DEF FInv
<1>12. QED
  BY <1>1, <1>10, <1>11

(* Skipping lengthens the queue by what the ring holds, or takes frames    *)
(* out unread.                                                             *)
LEMMA SkipFrames ==
  ASSUME IInv, FInv, NEW k \in 1 .. MaxRequest, SkipForward(k)
  PROVE  FInv' /\ Moves
<1> DEFINE room == BufferSize - Avail
           n == Min({k, Avail})
<1> SUFFICES ASSUME ~slipped
             PROVE  FInv' /\ Moves
  <2>1. pc' # "commit" /\ UNCHANGED <<state, stop_threshold, slipped>>
    BY DEF SkipForward, Answer
  <2>2. slipped => FInv' /\ Moves
    BY <2>1, NoQueue DEF FInv, LapStops, Copied
  <2>3. QED
    BY <2>2
<1>1. /\ TypeOK /\ slots \in Ring /\ stream \in {"PLAYBACK", "CAPTURE"} /\ k \in Int
      /\ hw_ptr \in Pointer /\ appl_ptr \in Pointer /\ ~slipped
  BY ThresholdAssumption
  DEF ThresholdAssumption, IInv, TypeOK, Ring, FInv, LapStops, SkipForward, Positioned, Moving
<1>2. Avail <= BufferSize /\ Holds(slots, Oldest, Held)
  BY <1>1 DEF FInv, Intact
<1>3. /\ Oldest \in Pointer /\ Avail \in 0 .. BufferSize /\ room \in 0 .. BufferSize
      /\ BufferSize \in Nat /\ Boundary \in Nat /\ BufferSize < Boundary
      /\ stream = "PLAYBACK" => /\ Oldest = hw_ptr /\ Held = room
                                /\ appl_ptr = Forward(hw_ptr, room)
      /\ stream = "CAPTURE" => Oldest = appl_ptr /\ Held = Avail
  BY <1>1, <1>2, QueueEnds
<1>4. /\ n > 0 /\ appl_ptr' = Forward(appl_ptr, n) /\ pc' = "idle" /\ call' = NoCall
      /\ slots' = IF stream = "PLAYBACK" THEN Labelled(slots, appl_ptr, n) ELSE slots
      /\ UNCHANGED <<stream, stop_threshold, state, hw_ptr, slipped>>
  BY DEF SkipForward, Answer
<1>5. n \in Nat /\ n <= Avail /\ k \in Nat
  <2>1. n = IF k <= Avail THEN k ELSE Avail
    BY <1>1, <1>3, MinOfTwo
  <2>2. QED
    BY <1>1, <1>3, <2>1
<1> HIDE DEF n, room
<1>6. /\ n \in 0 .. BufferSize /\ n \in 0 .. Boundary /\ room + n <= BufferSize /\ room \in Nat
      /\ room = BufferSize - Avail
  BY <1>3, <1>5 DEF room
<1>7. Avail' = Avail - n /\ appl_ptr' \in Pointer
  <2>1. n \in 0 .. MmapAvail(stream, hw_ptr, appl_ptr)
    BY <1>3, <1>5 DEF Avail
  <2>2. QED
    BY <1>1, <1>4, <1>6, <2>1, AvailForwardAppl, ForwardType DEF Avail
<1>8. ~slipped' /\ Copied' /\ LapStops' /\ ReadsIntact'
  BY <1>1, <1>4 DEF Copied, LapStops, ReadsIntact, NoCall
<1>9. CASE stream = "PLAYBACK"
  <2>1. Oldest' = hw_ptr /\ Held' = BufferSize - (Avail - n)
    BY <1>1, <1>4, <1>7, <1>9 DEF Oldest, Held, HwAvail, Avail
  <2>2. Held' = room + n
    BY <1>3, <1>5, <1>6, <2>1
  <2>3. Holds(slots', hw_ptr, room + n)
    BY <1>1, <1>2, <1>3, <1>4, <1>5, <1>6, <1>9, HoldsAfter
  <2>4. Grown(n)
    BY <1>3, <1>9, <2>1, <2>2 DEF Grown
  <2>5. Held' \in 0 .. BufferSize /\ Avail' <= BufferSize /\ Oldest' \in Pointer
    BY <1>1, <1>3, <1>5, <1>6, <1>7, <2>1, <2>2
  <2>6. Holds(slots', Oldest', Held')
    BY <2>1, <2>2, <2>3
  <2>7. Intact' /\ Moves
    BY <1>1, <1>8, <1>6, <2>4, <2>5, <2>6, QueueMoves
  <2>8. QED
    BY <1>8, <2>7 DEF FInv
<1>10. CASE stream = "CAPTURE"
  <2> DEFINE m == Avail - n
  <2>1. Oldest' = Forward(appl_ptr, n) /\ Held' = m
    BY <1>1, <1>4, <1>7, <1>10 DEF Oldest, Held
  <2>2. m \in Nat /\ n + m = Avail /\ n + m <= BufferSize /\ m = Avail'
    BY <1>3, <1>5, <1>6, <1>7
  <2> HIDE DEF m
  <2>3. Holds(slots, Forward(appl_ptr, n), m)
    <3>1. Holds(slots, appl_ptr, n + m)
      BY <1>2, <1>3, <1>10, <2>2
    <3>2. QED
      BY <1>1, <1>5, <2>2, <3>1, HoldsParts
  <2>4. Taken(n)
    BY <1>3, <1>10, <2>1 DEF Taken, m
  <2>5. Held' \in 0 .. BufferSize /\ Avail' <= BufferSize /\ Oldest' \in Pointer
    BY <1>3, <1>4, <1>5, <1>6, <1>7, <2>1, <2>2
  <2>6. slots' = slots
    BY <1>4, <1>10
  <2>7. Holds(slots', Oldest', Held')
    BY <2>1, <2>3, <2>6
  <2>8. Intact' /\ Moves
    BY <1>1, <1>8, <1>6, <2>4, <2>5, <2>7, QueueMoves
  <2>9. QED
    BY <1>8, <2>8 DEF FInv
<1>11. QED
  BY <1>1, <1>9, <1>10

(* The hardware takes frames from the queue or adds to it, until it laps   *)
(* the application: then it stops.                                         *)
LEMMA TickFrames ==
  ASSUME IInv, FInv, NEW n \in 1 .. MaxTick, Tick(n)
  PROVE  FInv' /\ Moves
<1> DEFINE room == BufferSize - Avail
<1> SUFFICES ASSUME ~slipped
             PROVE  FInv' /\ Moves
  <2>1. /\ UNCHANGED <<stream, pc, call, appl_ptr, stop_threshold>>
        /\ stream = "PLAYBACK" => slots' = slots
        /\ state' \in Moving => state \in Moving
        /\ slipped => slipped'
    BY DEF Tick, Moving
  <2>2. Copied'
    BY <2>1 DEF FInv, Copied, Holds
  <2>3. slipped => FInv' /\ Moves
    BY <2>1, <2>2, NoQueue DEF FInv, LapStops
  <2>4. QED
    BY <2>3
<1>1. /\ TypeOK /\ slots \in Ring /\ stream \in {"PLAYBACK", "CAPTURE"}
      /\ hw_ptr \in Pointer /\ appl_ptr \in Pointer /\ ~slipped
      /\ n \in Nat /\ n <= MaxTick /\ MaxTick \in Nat /\ BufferSize + MaxTick < Boundary
      /\ stop_threshold \in Nat
  BY ThresholdAssumption, RingAssumption
  DEF ThresholdAssumption, RingAssumption, IInv, TypeOK, Ring, FInv, LapStops, Tick, Moving
<1>2. Avail <= BufferSize /\ Holds(slots, Oldest, Held)
  BY <1>1 DEF FInv, Intact
<1>3. /\ Oldest \in Pointer /\ Avail \in 0 .. BufferSize /\ room \in 0 .. BufferSize
      /\ BufferSize \in Nat /\ Boundary \in Nat /\ BufferSize < Boundary
      /\ stream = "PLAYBACK" => Oldest = hw_ptr /\ Held = room
      /\ stream = "CAPTURE" => /\ Oldest = appl_ptr /\ Held = Avail
                               /\ hw_ptr = Forward(appl_ptr, Avail)
  BY <1>1, <1>2, QueueEnds
<1>4. /\ hw_ptr' = Forward(hw_ptr, n)
      /\ slots' = IF stream = "CAPTURE" THEN Labelled(slots, hw_ptr, n) ELSE slots
      /\ UNCHANGED <<stream, stop_threshold, appl_ptr, pc, call>>
      /\ state \in {"RUNNING", "DRAINING"}
  BY DEF Tick
<1>5. slipped' <=> n > room
  BY <1>1, Zenon DEF Tick, HwAvail, Avail
<1>6. Avail' = Avail + n /\ hw_ptr' \in Pointer
  <2>1. MmapAvail(stream, hw_ptr, appl_ptr) + n < Boundary /\ n \in 0 .. Boundary
    BY <1>1, <1>2, <1>3 DEF Avail
  <2>2. QED
    BY <1>1, <1>4, <2>1, AvailForwardHw, ForwardType DEF Avail
<1>7. LapStops'
  <2> SUFFICES ASSUME n > room, stop_threshold <= BufferSize PROVE state' \notin Moving
    BY <1>1, <1>3, <1>4, <1>5 DEF LapStops
  <2>1. Avail + n >= BufferSize /\ Avail + n >= stop_threshold
    BY <1>1, <1>3
  <2>2. MmapAvail(stream, hw_ptr', appl_ptr) = Avail + n
    BY <1>4, <1>6 DEF Avail
  <2>3. QED
    BY <1>4, <2>1, <2>2 DEF Tick, Moving
<1>8. ReadsIntact' /\ Copied'
  BY <1>1, <1>4, <1>5 DEF FInv, ReadsIntact, Copied, Holds
<1> HIDE DEF room
<1>9. CASE slipped'
  BY <1>7, <1>8, <1>9 DEF FInv, Intact, Moves
<1>10. ASSUME ~slipped' PROVE n <= room /\ n \in 0 .. BufferSize /\ Avail' <= BufferSize
  BY <1>1, <1>3, <1>5, <1>6, <1>10 DEF room
<1>11. CASE ~slipped' /\ stream = "PLAYBACK"
  <2> DEFINE m == room - n
  <2>1. Oldest' = Forward(hw_ptr, n) /\ Held' = BufferSize - (Avail + n)
    BY <1>4, <1>6, <1>11 DEF Oldest, Held, HwAvail, Avail
  <2>2. m \in Nat /\ n + m = room /\ n + m <= BufferSize /\ Held' = m
    BY <1>1, <1>3, <1>10, <1>11, <2>1 DEF room
  <2> HIDE DEF m
  <2>3. Holds(slots, Forward(hw_ptr, n), m)
    BY <1>1, <1>2, <1>3, <1>11, <2>2, HoldsParts
  <2>4. Taken(n)
    BY <1>3, <1>11, <2>1, <2>2 DEF Taken, m
  <2>5. Held' \in 0 .. BufferSize /\ Oldest' \in Pointer
    BY <1>1, <1>3, <1>4, <1>6, <2>1, <2>2
  <2>6. slots' = slots
    BY <1>4, <1>11
  <2>7. Intact' /\ Moves
    BY <1>1, <1>10, <1>11, <2>1, <2>2, <2>3, <2>4, <2>5, <2>6, QueueMoves
  <2>8. QED
    BY <1>7, <1>8, <2>7 DEF FInv
<1>12. CASE ~slipped' /\ stream = "CAPTURE"
  <2>1. Oldest' = appl_ptr /\ Held' = Avail + n
    BY <1>4, <1>6, <1>12 DEF Oldest, Held
  <2>2. Avail \in Nat /\ Avail + n <= BufferSize /\ Held' \in 0 .. BufferSize
    BY <1>1, <1>3, <1>6, <1>10, <1>12, <2>1
  <2>3. Holds(slots', appl_ptr, Avail + n)
    BY <1>1, <1>2, <1>3, <1>4, <1>12, <2>2, HoldsAfter
  <2>4. Grown(n)
    BY <1>3, <1>12, <2>1 DEF Grown
  <2>5. Intact' /\ Moves
    BY <1>1, <1>10, <1>12, <2>1, <2>2, <2>3, <2>4, QueueMoves
  <2>6. QED
    BY <1>7, <1>8, <2>5 DEF FInv
<1>13. QED
  BY <1>1, <1>9, <1>11, <1>12

------------------------------------------------------------------------------
(* An empty ring keeps what is in it.                                      *)
LEMMA InitFInv == Init => FInv
<1> SUFFICES ASSUME Init PROVE FInv
  OBVIOUS
<1>1. stream \in {"PLAYBACK", "CAPTURE"} /\ hw_ptr = 0 /\ appl_ptr = 0 /\ 0 \in Pointer
      /\ BufferSize \in Nat
  BY RingAssumption DEF Init, RingAssumption, Pointer
<1>2. Avail <= BufferSize /\ Held = 0
  <2>1. CASE stream = "PLAYBACK"
    BY <1>1, <2>1, AvailEmpty DEF Avail, Held, HwAvail
  <2>2. CASE stream = "CAPTURE"
    BY <1>1, <2>2, AvailEmpty DEF Avail, Held
  <2>3. QED
    BY <1>1, <2>1, <2>2
<1>3. Intact
  BY <1>2 DEF Intact, Holds
<1>4. Copied /\ LapStops /\ ReadsIntact
  BY DEF Init, Copied, LapStops, ReadsIntact, NoCall, Moving
<1>5. QED
  BY <1>3, <1>4 DEF FInv

(* Every step keeps the frames, and moves the queue as a queue moves.      *)
LEMMA NextFInv == IInv /\ FInv /\ [Next]_vars => FInv' /\ Moves
<1> SUFFICES ASSUME IInv, FInv, [Next]_vars PROVE FInv' /\ Moves
  OBVIOUS
<1>1. CASE InCall
  BY <1>1, LooksStill, CopyFrames, CommitFrames DEF InCall
<1>2. CASE UserCall
  BY <1>2, AnswersStill, EmptyFrames, RewindFrames, SkipFrames DEF UserCall, Recover
<1>3. CASE Driver
  BY <1>3, AnswersStill, TickFrames DEF Driver
<1>4. CASE UNCHANGED vars
  BY <1>4, StillRing DEF vars, shared
<1>5. QED
  BY <1>1, <1>2, <1>3, <1>4 DEF Next

(* The frames are kept in every reachable state.                           *)
LEMMA SpecFInv == Spec => [](IInv /\ FInv)
  BY InitIInv, NextIInv, InitFInv, NextFInv, PTL DEF Spec

(***************************************************************************)
(* Every frame the ring owes is the one written, or captured, for its      *)
(* position, in every state a stream can move in: whatever the stop        *)
(* threshold, and in the endless mode until the hardware laps.             *)
(***************************************************************************)
THEOREM SpecFramesIntact == Spec => []FramesIntact
<1>1. IInv /\ FInv => FramesIntact
  <2> SUFFICES ASSUME IInv, FInv, state \in Moving, ~Lapped, NEW p \in Owed
               PROVE  slots[SlotOf(p)] = p
    BY DEF FramesIntact
  <2>1. ~slipped /\ stream \in {"PLAYBACK", "CAPTURE"} /\ Avail \in Int /\ BufferSize \in Int
    BY AvailNat, RingAssumption DEF RingAssumption, FInv, LapStops, Lapped, IInv, TypeOK
  <2>2. Owed = Span(Oldest, Held) /\ Holds(slots, Oldest, Held)
    BY <2>1 DEF Owed, Oldest, Held, FInv, Intact
  <2>3. QED
    BY <2>2 DEF Span, Holds
<1>2. QED
  BY <1>1, SpecFInv, PTL

(***************************************************************************)
(* A read hands out captured frames only, unless the hardware lapped it.   *)
(***************************************************************************)
THEOREM SpecReadsIntact == Spec => []ReadsIntact
<1>1. FInv => ReadsIntact
  BY DEF FInv
<1>2. QED
  BY <1>1, SpecFInv, PTL

------------------------------------------------------------------------------
(* The bounded queue.                                                      *)

(* The frames of the queue, as they are found in the ring.                 *)
Queue == [i \in 1 .. Held |-> slots[SlotOf(Forward(Oldest, i - 1))]]

Runs ==
  /\ slipped \in BOOLEAN /\ Oldest \in Pointer /\ Held \in Nat /\ Held <= Boundary
  /\ Queue = Run(Oldest, Held)

(* They are the run of positions from the oldest on.                       *)
LEMMA QueueRun == IInv /\ FInv => Runs
<1> SUFFICES ASSUME IInv, FInv PROVE Runs
  OBVIOUS
<1>1. Oldest \in Pointer
  BY DEF IInv, TypeOK, Oldest
<1>2. Held \in 0 .. BufferSize /\ Holds(slots, Oldest, Held)
  <2>1. CASE slipped
    BY <2>1, RingAssumption DEF Held, Holds, RingAssumption
  <2>2. CASE ~slipped
    BY <2>2, QueueEnds DEF IInv, FInv, Intact
  <2>3. QED
    BY <2>1, <2>2
<1>3. Held \in Nat /\ Held <= Boundary
  BY <1>2, RingAssumption DEF RingAssumption
<1>4. \A i \in 1 .. Held : slots[SlotOf(Forward(Oldest, i - 1))] = Forward(Oldest, i - 1)
  <2> TAKE i \in 1 .. Held
  <2>1. i - 1 \in 0 .. Held - 1
    BY <1>3
  <2>2. QED
    BY <1>2, <2>1 DEF Holds
<1>5. slipped \in BOOLEAN
  BY DEF IInv, TypeOK
<1>6. QED
  BY <1>1, <1>3, <1>4, <1>5 DEF Queue, Run, Runs

(* A run of no frames is empty.                                            *)
LEMMA RunEmpty ==
  ASSUME NEW p \in Pointer
  PROVE  Run(p, 0) = <<>>
<1>1. 0 \in 0 .. Boundary
  BY RingAssumption DEF RingAssumption
<1>2. Run(p, 0) \in Seq(Pointer) /\ Len(Run(p, 0)) = 0
  BY <1>1, RunType
<1>3. QED
  BY <1>2, EmptySeq

(* The ring begins as an empty queue.                                      *)
LEMMA InitFifo == Init => Fifo!Init
<1> SUFFICES ASSUME Init PROVE Fifo!Init
  OBVIOUS
<1>1. IInv /\ FInv
  BY InitIInv, InitFInv
<1>2. stream \in {"PLAYBACK", "CAPTURE"} /\ hw_ptr = 0 /\ appl_ptr = 0 /\ 0 \in Pointer
      /\ BufferSize \in Nat /\ ~slipped
  BY RingAssumption DEF Init, RingAssumption, Pointer
<1>3. Oldest = 0 /\ Held = 0
  <2>1. CASE stream = "PLAYBACK"
    BY <1>2, <2>1, AvailEmpty DEF Held, HwAvail, Oldest
  <2>2. CASE stream = "CAPTURE"
    BY <1>2, <2>2, AvailEmpty DEF Avail, Held, Oldest
  <2>3. QED
    BY <1>2, <2>1, <2>2
<1>4. Queue = <<>>
  BY <1>1, <1>2, <1>3, QueueRun, RunEmpty DEF Runs
<1>5. QED
  BY <1>2, <1>3, <1>4 DEF Fifo!Init, Queue

(* The abstract frames are a run.                                          *)
LEMMA FramesRun ==
  ASSUME NEW p \in Pointer, NEW n \in 0 .. BufferSize
  PROVE  /\ Fifo!Move(p, n) = Forward(p, n)
         /\ Fifo!Move(p, -n) = Backward(p, n)
         /\ Fifo!Frames(p, n) = Run(p, n)
<1>1. /\ Boundary \in Nat /\ BufferSize \in Nat /\ BufferSize < Boundary
      /\ n \in 0 .. Boundary - 1 /\ \A i \in 1 .. n : i - 1 \in 0 .. Boundary - 1
  BY RingAssumption DEF RingAssumption
<1>2. \A i \in 1 .. n : Fifo!Move(p, i - 1) = Forward(p, i - 1)
  BY <1>1, ForwardMod DEF Fifo!Move
<1>3. QED
  BY <1>1, <1>2, ForwardMod DEF Fifo!Move, Fifo!Frames, Run

(* Whatever moves the queue is a step of the abstract one, or none.        *)
LEMMA MovesFifo ==
  ASSUME Runs, Runs', Moves
  PROVE  [Fifo!Next]_(Fifo!vars)
<1>1. /\ slipped \in BOOLEAN /\ Oldest \in Pointer /\ Held \in Nat /\ Held <= Boundary
      /\ Queue = Run(Oldest, Held)
  BY DEF Runs
<1>2. /\ slipped' \in BOOLEAN /\ Oldest' \in Pointer /\ Held' \in Nat /\ Held' <= Boundary
      /\ Queue' = Run(Oldest', Held')
  BY DEF Runs
<1>3. /\ Boundary \in Nat /\ BufferSize \in Nat /\ BufferSize < Boundary
  BY RingAssumption DEF RingAssumption
<1>4. CASE slipped'
  BY <1>4 DEF Fifo!Next, Fifo!Lose
<1>5. CASE Cleared
  <2>1. Queue' = <<>>
    BY <1>2, <1>5, RunEmpty DEF Cleared
  <2>2. QED
    BY <1>5, <2>1 DEF Cleared, Fifo!Next, Fifo!Clear, Queue, Pointer
<1>6. ASSUME ~slipped, ~slipped', Held <= BufferSize, Held' <= BufferSize,
             NEW n \in 0 .. BufferSize, Grown(n) \/ Shrunk(n) \/ Taken(n) \/ Asked(n)
      PROVE  [Fifo!Next]_(Fifo!vars)
  <2>1. /\ n \in Nat /\ n <= Boundary /\ n \in 0 .. Boundary
        /\ Held \in 0 .. BufferSize /\ Held \in 0 .. Boundary
    BY <1>1, <1>3, <1>6
  <2>2. Len(Queue) = Held
    BY <1>1, <2>1, RunType
  <2>3. CASE n = 0
    <3>1. Forward(Oldest, 0) = Oldest /\ Backward(Oldest, 0) = Oldest
      BY <1>1, <1>3 DEF Forward, Backward, Pointer
    <3>2. Oldest' = Oldest /\ Held' = Held
      BY <1>1, <1>6, <2>3, <3>1 DEF Grown, Shrunk, Taken, Asked
    <3>3. Queue' = Queue
      BY <1>1, <1>2, <3>2
    <3>4. QED
      BY <1>1, <1>2, <1>6, <3>2, <3>3 DEF Fifo!vars, Queue
  <2>4. CASE Grown(n)
    <3>1. Held + n <= BufferSize /\ Held + n <= Boundary
      BY <1>3, <1>6, <2>4 DEF Grown
    <3>2. Queue' = Queue \o Run(Forward(Oldest, Held), n)
      BY <1>1, <1>2, <2>1, <2>4, <3>1, RunConcat DEF Grown
    <3>3. Forward(Oldest, Held) \in Pointer
      BY <1>1, <2>1, ForwardType
    <3>4. Queue' = Queue \o Fifo!Frames(Fifo!Move(Oldest, Len(Queue)), n)
      BY <1>1, <2>1, <2>2, <3>2, <3>3, FramesRun
    <3>5. Fifo!Put(n)
      BY <2>2, <2>4, <3>1, <3>4 DEF Fifo!Put, Queue, Grown
    <3>6. QED
      BY <1>6, <2>1, <2>3, <3>5 DEF Fifo!Next, Fifo!Healthy
  <2>5. CASE Shrunk(n)
    <3>1. n \in 0 .. Held
      BY <1>1, <1>2, <2>1, <2>5 DEF Shrunk
    <3>2. Queue' = SubSeq(Queue, 1, Held - n)
      BY <1>1, <1>2, <2>1, <2>5, <3>1, RunParts DEF Shrunk
    <3>3. n <= Len(Queue) /\ Queue' = SubSeq(Queue, 1, Len(Queue) - n) /\ Oldest' = Oldest
      BY <2>2, <2>5, <3>1, <3>2 DEF Shrunk
    <3>4. Fifo!Unput(n)
      BY Zenon, <3>3 DEF Fifo!Unput, Queue
    <3>5. QED
      BY <1>6, <2>1, <2>3, <3>4 DEF Fifo!Next, Fifo!Healthy
  <2>6. CASE Taken(n)
    <3>1. n \in 0 .. Held
      BY <1>1, <1>2, <2>1, <2>6 DEF Taken
    <3>2. Queue' = SubSeq(Queue, n + 1, Held)
      BY <1>1, <1>2, <2>1, <2>6, <3>1, RunParts DEF Taken
    <3>3. Oldest' = Fifo!Move(Oldest, n)
      BY <1>1, <2>6, FramesRun DEF Taken
    <3>4. n <= Len(Queue) /\ Queue' = SubSeq(Queue, n + 1, Len(Queue))
      BY <2>2, <3>1, <3>2
    <3>5. Fifo!Take(n)
      BY Zenon, <3>3, <3>4 DEF Fifo!Take, Queue
    <3>6. QED
      BY <1>6, <2>1, <2>3, <3>5 DEF Fifo!Next, Fifo!Healthy
  <2>7. CASE Asked(n)
    <3>1. Held + n <= BufferSize /\ n + Held <= Boundary /\ n + Held = Held + n
      BY <1>1, <1>3, <1>6, <2>1, <2>7 DEF Asked
    <3>2. Oldest = Forward(Oldest', n)
      BY <1>1, <2>1, <2>7, BackwardForward DEF Asked
    <3>3. Queue' = Run(Oldest', n) \o Queue
      <4>1. Run(Oldest', n) \o Run(Forward(Oldest', n), Held) = Run(Oldest', n + Held)
        BY <1>1, <1>2, <2>1, <3>1, RunConcat
      <4>2. Queue' = Run(Oldest', n + Held)
        BY <1>2, <2>7, <3>1 DEF Asked
      <4>3. QED
        BY <1>1, <3>2, <4>1, <4>2
    <3>4. /\ Queue' = Fifo!Frames(Oldest', n) \o Queue
          /\ Oldest' = Fifo!Move(Oldest, -n)
      BY <1>1, <1>2, <2>7, <3>3, FramesRun DEF Asked
    <3>5. Fifo!Untake(n)
      BY <2>2, <3>1, <3>4 DEF Fifo!Untake, Queue
    <3>6. QED
      BY <1>6, <2>1, <2>3, <3>5 DEF Fifo!Next, Fifo!Healthy
  <2>8. QED
    BY <1>6, <2>4, <2>5, <2>6, <2>7
<1>7. QED
  BY <1>4, <1>5, <1>6 DEF Moves

(***************************************************************************)
(* The ring and its two wrapping pointers implement the bounded queue: on  *)
(* every path of every call frames leave in their order, and come in at    *)
(* the end.                                                                *)
(***************************************************************************)
THEOREM SpecImplementsFifo == Spec => ImplementsFifo
<1>1. IInv /\ FInv /\ [Next]_vars => Moves
  BY NextFInv
<1>2. Runs /\ Runs' /\ Moves => [Fifo!Next]_(Fifo!vars)
  BY MovesFifo
<1>3. QED
  BY <1>1, <1>2, QueueRun, InitFifo, SpecFInv, PTL DEF Spec, ImplementsFifo, Fifo!Spec
==============================================================================
