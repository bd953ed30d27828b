--------------------------------- MODULE Dmix --------------------------------
(***************************************************************************)
(* One client of the direct mixing plugin (pcm_dmix.c, with the helpers of *)
(* pcm_direct.c).  The client writes into a ring of its own; sync_area     *)
(* mixes what is new there into the ring of a slave that runs freely and   *)
(* that every client shares, sync_ptr moves the client's hw_ptr by as much *)
(* as the slave's has moved.  The client learns of the slave's progress    *)
(* from a timer that ticks once a period, and only while it is started.    *)
(*                                                                         *)
(* The slave, its timer and the calls the application makes are the        *)
(* environment; the slave moves between any two calls, and between the     *)
(* rounds of the loop in snd_pcm_dmix_drain.                               *)
(***************************************************************************)
EXTENDS PcmRing

CONSTANTS
  SlaveSize,      (* dmix->slave_buffer_size.                              *)
  SlaveBoundary,  (* dmix->slave_boundary.                                 *)
  Period,         (* Period of slave and client alike (hw_refine).         *)
  AvailMin,       (* pcm->avail_min.                                       *)
  StopThresholds, (* What the user may have set pcm->stop_threshold to.    *)
  Word,           (* Values of snd_pcm_uframes_t: arithmetic wraps there.  *)
  CanResume,      (* The card's driver resumes where it was suspended.     *)
  MaxRequest,     (* Frames of one call (bound).                           *)
  Horizon,        (* The application's pointer stays below it (bound).     *)
  MaxLag          (* Frames the slave plays past the last mixed (bound).   *)

ASSUME DmixAssumption ==
  /\ Period \in Nat \ {0}
  /\ SlaveSize \in Nat /\ SlaveSize >= 2 * Period /\ SlaveSize % Period = 0
  /\ SlaveBoundary \in Nat /\ SlaveBoundary % SlaveSize = 0
  /\ BufferSize % Period = 0
  /\ AvailMin \in 1 .. BufferSize
  /\ StopThresholds \subseteq Nat
  /\ Word \in Nat /\ Word >= 2 * Boundary /\ Word >= 2 * SlaveBoundary
  /\ CanResume \in BOOLEAN
  /\ MaxRequest \in Nat \ {0}
  /\ Horizon \in Nat
  /\ MaxLag \in Nat /\ MaxLag < SlaveBoundary

VARIABLES
  dmix,       (* snd_pcm_direct_t of the client, and pcm->stop_threshold.  *)
  saved,      (* What a drain puts back into pcm->stop_threshold, or 0.    *)
  slave,      (* snd_pcm_state(dmix->spcm).                                *)
  slave_ptr,  (* *dmix->spcm->hw.ptr.                                      *)
  ticking,    (* dmix->timer is started.                                   *)
  event,      (* The timer's read queue is not empty.                      *)
  pc,         (* Inside snd_pcm_drain or snd_pcm_wait, or idle.            *)
  ret         (* The error of a drain or wait that just ended, or 0.       *)

vars == <<dmix, saved, slave, slave_ptr, ticking, event, pc, ret>>

EPIPE == -32   ENODEV == -19   ESTRPIPE == -86

ClientState == {"SETUP", "PREPARED", "RUN_PENDING", "RUNNING", "XRUN",
                "DRAINING", "DISCONNECTED"}

(* A drain takes the stop threshold down to the buffer size.               *)
Thresholds == StopThresholds \union {Min({x, BufferSize}) : x \in StopThresholds}

(* snd_pcm_direct_t of a client, as far as it is kept here.                *)
Client ==
  [state: ClientState, appl_ptr: Pointer, last_appl_ptr: Pointer,
   hw_ptr: Pointer, slave_appl_ptr: 0 .. SlaveBoundary,
   slave_hw_ptr: 0 .. SlaveBoundary - 1,
   stop_threshold: Thresholds]

TypeOK ==
  /\ dmix \in Client
  /\ saved \in {0} \union Thresholds
  /\ slave \in {"RUNNING", "SUSPENDED", "DISCONNECTED"}
  /\ slave_ptr \in 0 .. SlaveBoundary - 1
  /\ ticking \in BOOLEAN
  /\ event \in BOOLEAN
  /\ pc \in {"idle", "drain", "drainpoll", "poll"}
  /\ ret \in {0, EPIPE, ENODEV, ESTRPIPE}

ClientAvail(d)   == PlaybackAvail(d.hw_ptr, d.appl_ptr)
ClientHwAvail(d) == BufferSize - ClientAvail(d)

------------------------------------------------------------------------------
(* snd_pcm_dmix_sync_ptr: the client, the timer and the queue after it.    *)

Elapsed(d) == (slave_ptr - d.slave_hw_ptr) % SlaveBoundary

Follows_Bug(d) == d.state = "RUNNING"

(* A client that has not really started keeps its hw_ptr.                  *)
Follows(d) == d.state \in {"RUNNING", "DRAINING"}

MovedHw(d) ==
  [d EXCEPT !.slave_hw_ptr = slave_ptr,
            !.hw_ptr = IF Follows(d) THEN (@ + Elapsed(d)) % Boundary ELSE @]

Stops(d) ==
  /\ Follows(d) /\ Elapsed(d) # 0
  /\ d.stop_threshold < Boundary
  /\ ClientAvail(MovedHw(d)) >= d.stop_threshold

SyncPtr(d) ==
  IF slave = "DISCONNECTED" THEN [d EXCEPT !.state = "DISCONNECTED"]
  ELSE IF ~Stops(d) THEN MovedHw(d)
  ELSE [MovedHw(d) EXCEPT !.state = IF @ = "RUNNING" THEN "XRUN" ELSE "SETUP"]

SyncPtrError(d) ==
  IF slave = "DISCONNECTED" THEN ENODEV
  ELSE IF Stops(d) /\ d.state = "RUNNING" THEN EPIPE ELSE 0

(* Stopping takes the timer down; the end of a drain empties its queue.    *)
TimerAfterSync(d) ==
  IF slave # "DISCONNECTED" /\ Stops(d)
  THEN /\ ticking' = FALSE
       /\ event' = (event /\ d.state = "RUNNING")
  ELSE UNCHANGED <<ticking, event>>

------------------------------------------------------------------------------
(* snd_pcm_dmix_sync_area, all in unsigned arithmetic.                     *)

(* Frames written and not yet mixed.  Past half the boundary the code      *)
(* takes the difference for a wrapped one.                                 *)
Unmixed(d) ==
  LET size == (d.appl_ptr - d.last_appl_ptr) % Word
  IN  IF size >= Boundary \div 2 THEN (Boundary - size) % Word ELSE size

Advance_Bug(d, n) ==
  [d EXCEPT !.last_appl_ptr = ((@ + n) % Word) % Boundary,
            !.slave_appl_ptr = @ + n]

Advance(d, n) ==
  [d EXCEPT !.last_appl_ptr  = ((@ + n) % Word) % Boundary,
            !.slave_appl_ptr = ((@ + n) % Word) % SlaveBoundary]

(* Frames from the slave's hw_ptr to the client's place in the slave ring: *)
(* more than the ring when the slave has passed it.                        *)
SlaveQueued(d) ==
  IF d.slave_hw_ptr <= d.slave_appl_ptr
  THEN d.slave_appl_ptr - d.slave_hw_ptr
  ELSE d.slave_appl_ptr + (SlaveBoundary - d.slave_hw_ptr)

SkipMissed(d) ==
  IF SlaveQueued(d) > SlaveSize
  THEN Advance(d, Min({(SlaveSize - SlaveQueued(d)) % Word, Unmixed(d)}))
  ELSE d

(* Room in the slave ring, short of the period it is playing.              *)
SlaveRoom(d) ==
  LET free == d.slave_hw_ptr - (d.slave_hw_ptr % Period) + SlaveSize
      end  == IF free >= SlaveBoundary THEN free - SlaveBoundary ELSE free
  IN  IF end < d.slave_appl_ptr
      THEN end + (SlaveBoundary - d.slave_appl_ptr) ELSE end - d.slave_appl_ptr

SyncArea_Bug(d) ==
  IF Unmixed(d) = 0 THEN d
  ELSE LET s == SkipMissed(d) IN Advance(s, SlaveRoom(s))

SyncArea(d) ==
  IF Unmixed(d) = 0 THEN d
  ELSE LET s == SkipMissed(d)
       IN  Advance(s, Min({Unmixed(s), SlaveRoom(s)}))

------------------------------------------------------------------------------
ResetSlavePtr_Bug(d) == [d EXCEPT !.slave_appl_ptr = slave_ptr]

(* reset_slave_ptr: with few periods the start is aligned to one.          *)
ResetSlavePtr(d) ==
  [d EXCEPT !.slave_hw_ptr = slave_ptr,
            !.slave_appl_ptr = IF BufferSize > 2 * Period THEN slave_ptr
                               ELSE ((slave_ptr + Period - 1) \div Period) * Period]

(* snd_pcm_dmix_start_timer.                                               *)
StartTimer(d) == [ResetSlavePtr(d) EXCEPT !.state = "RUNNING"]

(* snd_pcm_dmix_start on a prepared client; avail < 0 starts nothing.      *)
Started(d) ==
  IF ClientHwAvail(d) = 0 THEN [d EXCEPT !.state = "RUN_PENDING"]
  ELSE IF ClientHwAvail(d) < 0 THEN d
  ELSE SyncArea(StartTimer(d))

(* snd_pcm_dmix_state: what the application sees.                          *)
SeenState ==
  IF slave \in {"SUSPENDED", "DISCONNECTED"} THEN slave
  ELSE IF dmix.state = "RUN_PENDING" THEN "RUNNING" ELSE dmix.state

environment == <<slave, slave_ptr>>

(* A call that returns at once; what it returns plays no part here.        *)
Returns == pc = "idle" /\ pc' = "idle" /\ ret' = 0

------------------------------------------------------------------------------
(* The calls of the application.                                           *)

(* Setting the timer's parameters stops it and leaves one early event.     *)
Prepare ==
  /\ Returns
  /\ dmix' = [dmix EXCEPT !.state = "PREPARED", !.appl_ptr = 0,
                          !.last_appl_ptr = 0, !.hw_ptr = 0]
  /\ ticking' = FALSE
  /\ event' = TRUE
  /\ UNCHANGED <<environment, saved>>

Reset ==
  /\ Returns
  /\ LET p == dmix.hw_ptr % Period
     IN  dmix' = ResetSlavePtr([dmix EXCEPT !.hw_ptr = p, !.appl_ptr = p,
                                            !.last_appl_ptr = p])
  /\ UNCHANGED <<environment, saved, ticking, event>>

Start ==
  /\ IF dmix.state = "PREPARED"
     THEN /\ Returns
          /\ dmix' = Started(dmix)
          /\ ticking' = (ticking \/ dmix'.state = "RUNNING")
     ELSE Returns /\ UNCHANGED <<dmix, ticking>>
  /\ UNCHANGED <<environment, saved, event>>

Drop ==
  /\ Returns
  /\ dmix' = [dmix EXCEPT !.state = "SETUP"]
  /\ ticking' = FALSE
  /\ UNCHANGED <<environment, saved, event>>

(* snd_pcm_hwsync of a following client, which reports an xrun, and        *)
(* snd_pcm_avail_update, which only finds one (delay and status likewise). *)
AvailUpdate ==
  /\ Follows(dmix)
  /\ dmix' = SyncPtr(dmix)
  /\ Returns
  /\ TimerAfterSync(dmix)
  /\ UNCHANGED <<environment, saved>>

(* snd_pcm_dmix_mmap_commit of n frames.  The commit starts a client that  *)
(* was started while it had nothing to play.                               *)
Commit(n) ==
  /\ n <= ClientAvail(dmix)
  /\ dmix.appl_ptr + n < Horizon
  /\ IF slave = "SUSPENDED"
     THEN Returns /\ UNCHANGED <<dmix, ticking, event>>
     ELSE LET written == [dmix EXCEPT !.appl_ptr = Forward(@, n)]
              synced  == IF dmix.state = "RUN_PENDING" THEN StartTimer(written)
                         ELSE IF Follows(dmix) THEN SyncPtr(written) ELSE written
          IN  /\ Returns
              /\ dmix' = IF Follows(synced) THEN SyncArea(synced) ELSE synced
              /\ IF dmix.state = "RUN_PENDING" \/ Follows(synced)
                 THEN /\ ticking' = (ticking \/ dmix.state = "RUN_PENDING")
                      /\ event' = (event /\ ClientAvail(synced) >= AvailMin)
                 ELSE IF Follows(dmix) THEN TimerAfterSync(written)
                 ELSE UNCHANGED <<ticking, event>>
  /\ UNCHANGED <<environment, saved>>

(* (Not of a client started with nothing to play: only a commit starts     *)
(* that one, and a drain of it does not come back.)                        *)
SkipForward(n) ==
  /\ dmix.state # "RUN_PENDING"
  /\ n <= ClientAvail(dmix)
  /\ dmix.appl_ptr + n < Horizon
  /\ Returns
  /\ dmix' = [dmix EXCEPT !.appl_ptr = Forward(@, n)]
  /\ UNCHANGED <<environment, saved, ticking, event>>

(***************************************************************************)
(* snd_pcm_dmix_rewind, of no more frames than are rewindable.  First what *)
(* is not mixed yet, then what is: the part the slave has not played is    *)
(* mixed out again and its pointers go back, the application's however     *)
(* only by what is left after that.                                        *)
(***************************************************************************)
Rewound(n) ==
  LET unmixed == IF dmix.last_appl_ptr < dmix.appl_ptr
                 THEN dmix.appl_ptr - dmix.last_appl_ptr
                 ELSE dmix.appl_ptr + (Boundary - dmix.last_appl_ptr)
      first   == Min({n, unmixed})
      taken   == [dmix EXCEPT !.appl_ptr = Backward(@, first)]
      queued  == IF taken.hw_ptr < taken.appl_ptr
                 THEN taken.appl_ptr - taken.hw_ptr
                 ELSE taken.appl_ptr + (Boundary - taken.hw_ptr)
      unheard == IF taken.slave_hw_ptr < taken.slave_appl_ptr
                 THEN taken.slave_appl_ptr - taken.slave_hw_ptr
                 ELSE (taken.slave_appl_ptr + (Boundary - taken.slave_hw_ptr)) % Word
      remixed == Min({n - first, queued, unheard})
      back(d, k) ==
        [d EXCEPT !.last_appl_ptr  = ((@ - k) % Word) % Boundary,
                  !.slave_appl_ptr = ((@ - k) % Word) % SlaveBoundary]
      rest    == n - first - remixed
  IN  IF first = n THEN taken
      ELSE [back(back(taken, remixed), rest) EXCEPT
               !.appl_ptr = Backward(@, rest)]

Rewind(n) ==
  /\ IF Follows(dmix)
     THEN /\ Returns
          /\ dmix' = SyncPtr(dmix)
          /\ TimerAfterSync(dmix)
     ELSE /\ n <= MmapHwAvail("PLAYBACK", dmix.hw_ptr, dmix.appl_ptr)
          /\ Returns
          /\ dmix' = Rewound(n)
          /\ UNCHANGED <<ticking, event>>
  /\ UNCHANGED <<environment, saved>>

(* snd_pcm_direct_resume: the slave resumes where it was, or is prepared   *)
(* and started anew when the driver cannot resume.                         *)
Resume ==
  /\ slave = "SUSPENDED"
  /\ Returns
  /\ slave' = "RUNNING"
  /\ slave_ptr' = IF CanResume THEN slave_ptr ELSE 0
  /\ UNCHANGED <<dmix, saved, ticking, event>>

------------------------------------------------------------------------------
(* snd_pcm_dmix_drain.                                                     *)

Drain ==
  /\ pc = "idle"
  /\ LET begun == IF dmix.state = "PREPARED" /\ ClientHwAvail(dmix) > 0
                  THEN Started(dmix) ELSE dmix
     IN  CASE slave = "SUSPENDED" ->
                /\ pc' = "idle" /\ ret' = ESTRPIPE
                /\ UNCHANGED <<dmix, ticking>>
           [] slave # "SUSPENDED" /\ begun.state \in {"PREPARED", "XRUN"} ->
                /\ Returns
                /\ dmix' = [dmix EXCEPT !.state = "SETUP"]
                /\ ticking' = FALSE
           [] OTHER ->
                /\ pc' = "drain"
                /\ ret' = 0
                /\ dmix' = [begun EXCEPT !.state = "DRAINING",
                                         !.stop_threshold = Min({@, BufferSize})]
                /\ ticking' = (ticking \/ dmix.state = "PREPARED")
  /\ saved' = IF pc' = "drain" THEN dmix.stop_threshold ELSE 0
  /\ UNCHANGED <<environment, event>>

(* One round of the loop, up to its wait.  A drain that returns an error   *)
(* leaves the stop threshold as it made it.                                *)
DrainRound ==
  /\ pc = "drain"
  /\ LET d == SyncPtr(dmix)
     IN  IF SyncPtrError(dmix) < 0
         THEN /\ dmix' = [d EXCEPT !.state = "SETUP"]
              /\ ticking' = FALSE
              /\ pc' = "idle" /\ ret' = SyncPtrError(dmix)
              /\ UNCHANGED event
         ELSE /\ TimerAfterSync(dmix)
              /\ IF d.state = "DRAINING"
                 THEN dmix' = SyncArea(d) /\ pc' = "drainpoll" /\ UNCHANGED ret
                 ELSE /\ dmix' = [d EXCEPT !.stop_threshold = saved]
                      /\ pc' = "idle" /\ ret' = 0
  /\ saved' = IF pc' = "idle" THEN 0 ELSE saved
  /\ UNCHANGED environment

(* poll(2) on the timer: an event, or an error once the card is gone.      *)
Wakes == event \/ slave = "DISCONNECTED"

DrainPoll_Bug ==
  /\ pc = "drainpoll"
  /\ Wakes
  /\ dmix' = [dmix EXCEPT !.state = "SETUP", !.stop_threshold = saved]
  /\ event' = FALSE
  /\ pc' = "idle" /\ ret' = 0
  /\ saved' = 0
  /\ UNCHANGED <<environment, ticking>>

(* snd_pcm_wait_nocheck wakes on a timer event, whose revents callback has *)
(* the pointer synced, or because the card is gone.  The drain then        *)
(* empties the queue, and the loop ends in any state but DRAINING: without *)
(* an error, also when that sync found the card gone.                      *)
DrainPoll ==
  /\ pc = "drainpoll"
  /\ Wakes
  /\ LET d == IF event THEN SyncPtr(dmix) ELSE dmix
     IN  /\ event' = FALSE
         /\ ticking' = (ticking /\ (slave = "DISCONNECTED" \/ ~Stops(dmix)))
         /\ CASE slave = "SUSPENDED" ->
                   dmix' = d /\ pc' = "idle" /\ ret' = ESTRPIPE
              [] slave # "SUSPENDED" /\ d.state = "DRAINING" ->
                   /\ dmix' = d
                   /\ pc' = IF event /\ ClientAvail(d) < AvailMin
                            THEN "drainpoll" ELSE "drain"
                   /\ UNCHANGED ret
              [] OTHER ->
                   /\ dmix' = [d EXCEPT !.stop_threshold = saved]
                   /\ pc' = "idle" /\ ret' = 0
  /\ saved' = IF pc' = "idle" THEN 0 ELSE saved
  /\ UNCHANGED environment

(* A writer that found less than avail_min in a running stream polls.      *)
Wait ==
  /\ pc = "idle"
  /\ SeenState = "RUNNING"
  /\ ClientAvail(dmix) < AvailMin
  /\ pc' = "poll"
  /\ UNCHANGED <<dmix, saved, environment, ticking, event, ret>>

PollSleeps_Bug(d) == ClientAvail(d) < AvailMin

(* A wake-up that finds too little room: the queue is emptied.             *)
PollSleeps(d) == slave # "SUSPENDED" /\ ClientAvail(d) < AvailMin

(* snd_pcm_dmix_poll_revents and snd_pcm_direct_poll_revents.  A stream    *)
(* that has stopped, or a lost card, ends the wait with an error.          *)
Poll ==
  /\ pc = "poll"
  /\ Wakes
  /\ LET a == IF dmix.state = "RUNNING" THEN SyncArea(dmix) ELSE dmix
         d == IF event /\ Follows(a) THEN SyncPtr(a) ELSE a
     IN  /\ dmix' = d
         /\ event' = (event /\ ~PollSleeps(d))
         /\ ticking' = (ticking /\ (slave = "DISCONNECTED" \/ ~Stops(a)))
         /\ IF PollSleeps(d) /\ slave # "DISCONNECTED" /\ d.state # "XRUN"
            THEN UNCHANGED <<pc, ret>>
            ELSE /\ pc' = "idle"
                 /\ ret' = CASE slave = "SUSPENDED" -> ESTRPIPE
                             [] slave = "DISCONNECTED" -> ENODEV
                             [] slave = "RUNNING" /\ PollSleeps(d) -> EPIPE
                             [] OTHER -> 0
  /\ UNCHANGED <<environment, saved>>

------------------------------------------------------------------------------
(* The slave.                                                              *)

(***************************************************************************)
(* One more frame is played.  At the end of a period the timer, if it is   *)
(* started, queues an event.  Bounds: the slave runs at most MaxLag frames *)
(* past what was mixed, and further only to the event a waiting client     *)
(* needs; while a client has not started, a period past its last look.     *)
(***************************************************************************)
Tick ==
  /\ slave = "RUNNING"
  /\ IF Follows(dmix)
     THEN \/ dmix.hw_ptr + Elapsed(dmix) < dmix.last_appl_ptr + MaxLag
          \/ pc # "idle" /\ ~event
     ELSE Elapsed(dmix) < Period
  /\ slave_ptr' = (slave_ptr + 1) % SlaveBoundary
  /\ event' = (event \/ (ticking /\ slave_ptr' % Period = 0))
  /\ UNCHANGED <<dmix, saved, slave, ticking, pc, ret>>

(* A suspend is a timer event as well.  (It and the loss of the card are   *)
(* looked at under a client that follows the slave.)                       *)
Suspend ==
  /\ slave = "RUNNING"
  /\ Follows(dmix)
  /\ slave' = "SUSPENDED"
  /\ event' = (event \/ ticking)
  /\ UNCHANGED <<dmix, saved, slave_ptr, ticking, pc, ret>>

Disconnect ==
  /\ slave # "DISCONNECTED"
  /\ Follows(dmix)
  /\ slave' = "DISCONNECTED"
  /\ UNCHANGED <<dmix, saved, slave_ptr, ticking, event, pc, ret>>

------------------------------------------------------------------------------
Init ==
  /\ dmix \in [state: {"SETUP"}, appl_ptr: {0}, last_appl_ptr: {0},
               hw_ptr: {0}, slave_appl_ptr: {0}, slave_hw_ptr: {0},
               stop_threshold: StopThresholds]
  /\ saved = 0
  /\ slave = "RUNNING"
  /\ slave_ptr = 0
  /\ ticking = FALSE
  /\ event = FALSE
  /\ pc = "idle"
  /\ ret = 0

InCall == DrainRound \/ DrainPoll \/ Poll

(***************************************************************************)
(* An application that keeps to the states snd_pcm_state reports: a stream *)
(* that has stopped is prepared before it is used again, and little is     *)
(* called once the card is gone.                                           *)
(***************************************************************************)
UserCall ==
  \/ AvailUpdate \/ Drop
  \/ /\ slave # "DISCONNECTED"
     /\ Prepare \/ Resume
  \/ /\ slave # "DISCONNECTED"
     /\ dmix.state # "SETUP"
     /\ \/ Reset \/ Start \/ Drain \/ Wait
        \/ \E n \in 1 .. MaxRequest :
             dmix.state # "XRUN" /\ (Commit(n) \/ SkipForward(n) \/ Rewind(n))

Next == InCall \/ UserCall \/ Tick \/ Suspend \/ Disconnect

(***************************************************************************)
(* The slave plays on by itself and a thread that can run does.  The       *)
(* second conjunct is WF_vars(InCall) with ENABLED written out: every step *)
(* of InCall changes some variable.                                        *)
(***************************************************************************)
CanRun == pc = "drain" \/ (pc # "idle" /\ Wakes)

Fairness == WF_vars(Tick) /\ ([]<>~CanRun \/ []<><<InCall>>_vars)

Spec == Init /\ [][Next]_vars /\ Fairness

------------------------------------------------------------------------------
(* A client that plays: its timer runs and the card is there.              *)
Playing == ticking /\ Follows(dmix) /\ slave # "DISCONNECTED"

------------------------------------------------------------------------------
(* What the proofs ask of constants and of the pace of client and slave.   *)

(***************************************************************************)
(* The rings' boundaries suit each other: the slave's divides the client's *)
(* (both are the largest a long can hold that is the buffer times a power  *)
(* of two, so they do when both buffers are the same number of frames but  *)
(* for a power of two), and the word is a multiple of the boundary, as it  *)
(* is of a power of two, or holds three of them.                           *)
(***************************************************************************)
Aligned ==
  /\ Boundary % SlaveBoundary = 0
  /\ Word % Boundary = 0 \/ Word >= 3 * Boundary

(***************************************************************************)
(* A client that is looked at in time: before the slave has taken its      *)
(* hw_ptr to the boundary, and before it has played, past the last frame   *)
(* mixed, all but a ring of its own boundary.                              *)
(***************************************************************************)
Timely ==
  ticking /\ Follows(dmix) =>
    /\ dmix.hw_ptr + Elapsed(dmix) < Boundary
    /\ dmix.hw_ptr + Elapsed(dmix) - dmix.last_appl_ptr < SlaveBoundary - SlaveSize

(* An application that writes less than half the boundary of frames.       *)
Short == Horizon <= Boundary \div 2

------------------------------------------------------------------------------
(* The properties.                                                         *)

(***************************************************************************)
(* What sync_area mixes was written before: last_appl_ptr, "the last       *)
(* updated position", follows appl_ptr and is never ahead of it, and what  *)
(* is left once missed frames are skipped is at most a ring and the        *)
(* alignment of the start.  (A rewind of a dropped client may leave it     *)
(* ahead: the prepare that must follow resets both.)                       *)
(***************************************************************************)
MixesOnlyWritten ==
  Playing =>
    LET s == SkipMissed(dmix)
    IN  (s.appl_ptr - s.last_appl_ptr) % Boundary < BufferSize + Period

(***************************************************************************)
(* While the timer runs, a frame stands as far before the client's hw_ptr  *)
(* as its copy stands before the slave's, up to the alignment of the       *)
(* start: the delay and avail a client reports are those of the sound it   *)
(* really has in the slave ring, through skips, resets, xruns and drains.  *)
(***************************************************************************)
Lockstep ==
  Playing =>
    ((dmix.slave_appl_ptr - dmix.slave_hw_ptr)
       - (dmix.last_appl_ptr - dmix.hw_ptr)) % SlaveBoundary < Period

(***************************************************************************)
(* By the slave pointer the client goes by, what it would mix now lies     *)
(* ahead of the slave and ends before the period the slave is playing      *)
(* comes round again ("this area may be cleared by the driver during mix   *)
(* operation"): what was missed is skipped, not mixed.                     *)
(***************************************************************************)
ClearOfActivePeriod ==
  Playing =>
    LET s      == SkipMissed(dmix)
        ahead  == (s.slave_appl_ptr - s.slave_hw_ptr) % SlaveBoundary
        mixed  == Min({Unmixed(s), SlaveRoom(s)})
    IN  mixed > 0 => ahead + mixed <= SlaveSize - (s.slave_hw_ptr % Period)

(***************************************************************************)
(* A drain that reports success has played everything that was queued, or  *)
(* as much of it as the stream may lack before its stop threshold, when    *)
(* the user set one below the buffer size; unless the card is gone, which  *)
(* a drain that learns of it from its wait does not tell.                  *)
(***************************************************************************)
DrainPlaysOut ==
  [][(/\ pc \in {"drain", "drainpoll"} /\ pc' = "idle" /\ ret' = 0
      /\ dmix'.state # "DISCONNECTED")
       => ClientAvail(dmix') >= Min({dmix'.stop_threshold, BufferSize})]_vars

(***************************************************************************)
(* A writer that waits in poll while its timer runs is woken: emptying the *)
(* timer's queue never swallows the last event it could get.  (A client    *)
(* started empty and then only moved forward has no timer to wake it.)     *)
(***************************************************************************)
WaitReturns == (pc = "poll" /\ ticking) ~> pc = "idle"

(***************************************************************************)
(* A drain of a client that has started comes to an end.                   *)
(***************************************************************************)
StartedDrainReturns ==
  (pc = "drain" /\ ticking) ~> (pc = "idle" \/ slave # "RUNNING")

(***************************************************************************)
(* snd_pcm_drain waits for the pending frames to be played and then stops  *)
(* the stream: while the card is there, it comes back from every state.    *)
(***************************************************************************)
DrainReturns == pc = "drain" ~> (pc = "idle" \/ slave # "RUNNING")
===============================================================================
