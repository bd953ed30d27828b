# alsa-lib in TLA+

Specifications, model-checking runs and proofs for alsa-lib 1.0.28 as it is in
this repository. The library is large (about a hundred thousand lines of C, a
good half of them in `src/pcm`); this project starts where its own logic is
hardest to test: the ring that every PCM shares with hardware that never waits,
the dmix plugin, through which several processes share one card, the choice of
hardware parameters, the virtual MIDI ports over the sequencer, and the mixer
over a card that changes at any time.

Files: `X.tla` models a component, `MCX.tla` with `MCX*.cfg` instantiates it for
TLC, `XProofs.tla` holds theorems about it (`HwParamsProofs.tla` those of the
interval functions and the rules too), `FoldInduction.tla` is the induction that
some of them share. Operators whose name ends in `_Bug`
(or `_Off`) are slips a change of the code could make; they are used only to see
that a property notices.

## 1. The system

| part | keeps | operations | talks to |
|---|---|---|---|
| PCM core (`pcm.c`, `pcm_local.h`, `pcm_mmap.c`) | per handle: `hw.ptr`, `appl.ptr`, `boundary`, thresholds, mode | `readi/writei` loops, `wait`, `avail`, `mmap_begin/commit`, `start`, `drop`, `drain`, `pause`, `resume`, `rewind`, `forward`, `recover` | the plugin through `fast_ops` |
| hw plugin (`pcm_hw.c`) | status and control pages shared with the driver | one ioctl for each operation, `avail_update` with xrun detection | the driver |
| dmix (`pcm_dmix.c`) | `appl_ptr`, `last_appl_ptr`, `hw_ptr`, `slave_appl_ptr`, `slave_hw_ptr`, `state` | `sync_ptr`, `sync_area`, start, drain, rewind, poll | a free-running hw slave, a timer, other clients through the sum buffer |
| direct IPC (`pcm_direct.c`) | semaphore set, shared segment, server process | open, close, server loop, descriptor passing | other processes, the kernel |
| dshare, dsnoop | as dmix, without mixing | the same | the same |
| share (`pcm_share.c`) | a slave, its clients, a thread, mutex, condition, pipe | as the core | its thread |
| rate, plugin, generic, multi, ioplug, file, ... | a second ring or a translation of pointers | as the core | their slave |
| parameters (`pcm_params.c`, `interval.c`, `mask`) | one interval or mask per parameter, and which of them changed | set, first, last, near, refine to a fixpoint, choose, install | every plugin's `hw_refine`, a slave's space |
| sequencer, MIDI parser, raw MIDI (`seq.c`, `seq_midi_event.c`, `rawmidi_virt.c`) | output and input buffers, parser state, one event in hand | encode, decode, output, drain, drop, read | the kernel sequencer |
| control, hcontrol, mixer (`hcontrol.c`, `mixer.c`, `bag.c`, `simple_none.c`) | a sorted cache of controls, mixer elements made of them, bags of pointers between the two | load, handle events, set, sort, unload, close | the control device, other programs |
| configuration, ucm, alisp, aserver, timer, hwdep, async | trees, lists, sequences | parse, update, dispatch | files, sockets |

`PROJECT.json` lists every part with its sources and whether it is modelled.

What is hard. *Interleaving*: the driver changes `hw_ptr` and the state between
any two steps of a transfer, and clients of one card open, mix, close and die at
any time. *Numeric edges*: pointers wrap at a boundary of their own, differences
wrap at the machine word. *Stale state*: avail and state are read, then used.
*Liveness*: poll must wake whoever waits, though timers run only while started
and their queue is emptied by hand. *Partial failure*: a start that fails after
a commit, an open that fails after an attach. The hazards in `PROJECT.json`
name the line where each of them bites and the property that watches it.

What makes each part correct: the ring is a bounded queue (nothing lost, doubled
or exposed); a transfer touches only the application's part; a return value
tells the truth; blocking calls come back. A dmix client mixes what was written
and nothing else, in step with the slave. Processes exclude each other, never
use a card that was torn down, and leave nothing behind. Refining
parameters loses no configuration that is possible, keeps what was granted, and
settles; a plugin and its slave agree on what they install. Bytes that become
events come out as the same bytes, in order, each once. The mixer's cache is the
card's list of controls, and the application is told of what changes.

## 2. The modules

### PcmRing (pcm_local.h, pcm_mmap.c, snd_pcm_mmap_begin)

The arithmetic: `Forward` and `Backward` are the four `snd_pcm_mmap_*_forward`
and `_backward` functions, `PlaybackAvail`, `CaptureAvail`, `HwAvail` and
`MmapHwAvail` the inline functions of `pcm_local.h`, `BeginFrames` the piece
that `snd_pcm_mmap_begin` hands out. Assumed: the boundary is a multiple of the
buffer size and at least twice it, which is what `snd_pcm_sw_params_default`
computes.

### PcmHw (pcm.c, pcm_mmap.c, pcm_hw.c) and PcmFifo

One application thread on a hw PCM, playback or capture, blocking or not. The
two transfer loops of `pcm.c` are one automaton whose program counter names the
places where the library looks at, or changes, what it shares with the driver:

| `pc` | code |
|---|---|
| `state` | `snd_pcm_state` at `_again` |
| `start` | `snd_pcm_start` of a prepared capture stream |
| `hwsync`, `avail` | `snd_pcm_hwsync`, `snd_pcm_avail_update` and the decision to wait |
| `wait`, `poll` | `snd_pcm_wait`, `snd_pcm_wait_nocheck` |
| `copy`, `commit` | one round of `snd_pcm_mmap_{write,read}_areas`: begin and copy, then commit |
| `after`, `autostart` | the start threshold, `snd_pcm_start` |
| `drain` | the blocking drain ioctl |

Between any two of these the driver may move (`Tick`), suspend or lose the card.
Calls that are one ioctl (`Prepare`, `Reset`, `Start`, `Drop`, `Pause`,
`Resume`, `Drain`, `Rewind`, `SkipForward`, `QueryAvail`, `Recover`) are one
action each. The driver is not in this repository: its half is modelled from
what the library expects of it, and marked external in the map. A frame's
payload is its position in the stream, so a slot that holds anything else shows
a lost, stale or overwritten frame. `stop_threshold` is chosen at the start from
`StopThresholds`: the ring, as in the defaults, or more, the endless mode in
which nothing stops the stream when the hardware laps the application. What the
ring holds after such a lap (`Lapped`) nobody promises until the next prepare,
and the properties say nothing of it.

`PcmFifo` is the abstract specification: a bounded queue that is filled and
emptied in order, and lost when the hardware laps the application. `PcmHw`
implements it under the mapping at the end of the module (property
`ImplementsFifo`).

### Dmix (pcm_dmix.c, and timer, poll and resume of pcm_direct.c)

One client with its five pointers, over a slave that plays on by itself and a
timer that fires once a period while started. `SyncPtr` and `SyncArea` are
operators from a client to a client, so that each call is the composition the
code makes: a commit moves `appl_ptr`, syncs the pointer, mixes, empties the
timer's queue. Arithmetic is unsigned, modulo `Word`, as in the code. The drain
loop and the wait are taken apart at their polls (`DrainRound` goes to sleep,
`DrainPoll` wakes, empties the timer's queue and looks at the state that the
wake-up left, as the loop's condition does); the other calls are atomic,
because a client is one thread and what moves under it is only the slave's
pointer, which each call reads once. What the slave ring contains is left to a
later module: here the positions are what matters.

The application is one that keeps to the documented states: after an xrun or a
finished drain it prepares before it writes, and after the card is gone it only
looks and drops. The slave stops being looked at `MaxLag` frames past the last
mixed one, unless a waiting client still needs its event.

### DirectIpc (snd_pcm_dmix_open and _close, pcm_direct.c, pcm_direct.h)

Any number of processes, a System V semaphore set, a shared segment with its
attachments, and the server process. The kernel's rules are those the code
relies on: a removed set makes every `semop` with its id fail, a dying process
gives back what it locked and is detached. `SetupFirst` chooses whether this
card is shared through a server (`use_server`, set by the kernel's protocol
version). The server is at one of its own places: it accepts a client only
where it polls (`poll`), and after a timeout it waits for the semaphore (`wait`)
and accepts nobody. An open may fail at every place: without a semaphore
(`SemGetFails`), with the segment, the card, the sum buffer or the timer
(`OpenFails`, which takes the semaphore set along), or for want of an answer
(`ConnectFails`, which leaves the segment attached until the process exits). Two
errors harm other processes, an interrupted `semop` and a failure while somebody
else is attached: both remove the set that others use. `broken` remembers that
one has happened, and is where the claims of the properties end; what comes
after it is looked at when `Beyond` is TRUE.

### MidiEvent (seq_midi_event.c) and RawmidiVirt (rawmidi_virt.c, seq.c)

`MidiEvent` is the automaton of the parser in both directions, each function an
operator from a parser to what becomes of it: running status, real-time bytes
inside a message, a sysex cut at the buffer's size, 14-bit values. A data byte
without a status is stored like any other, as in the code, with `qlen` wrapped
below zero; the byte that would go past the end of the buffer (`Overruns`) is
where the model of a writer ends.
`RawmidiVirt` puts two of them at the ends of the sequencer. The writer's calls
are taken apart where they reach the kernel: encode a byte (`EncodeBytes`), put
the event into the output buffer (`Output`), drain it when it is full
(`MakeRoom`), flush (`Flush`) and drop (`DrainDrop`); an event that
cannot be put out stays `pending` while the call returns and later calls come,
but for one whose retry fails with another error than EAGAIN, which is given up
(`PutBy`). The reader
fetches events into the input buffer (`Fetch`) and copies their bytes out
(`Copy`). The kernel sequencer is external: it takes whole events, as many as it
likes, or refuses (EAGAIN, of a writer that does not block) or fails (any other
error, of any writer) a write as a whole (`KernelRefuses`), loses one and says so when the reader's queue is full. `owed`, `due` and
`echo` only observe: the events the consumed bytes stand for, and a parser that
hears what the reader was given. `flaw` notes the cases named below in which the
code breaks the stream.

### Hctl, SimpleElem and Mixer (hcontrol.c, mixer.c, bag.c, simple_none.c)

`Hctl` is the search (`Find`, a function on the spans of the array, with the side
of the key on which it ended), insertion and removal in the sorted cache;
`SimpleElem` a mixer element with up to one control of each type and the reads
and writes that `selem_read` and `selem_write` make of it, step by step, since
each can fail; `Mixer` the rest. Events are popped (`Pop`) and handled (`HandlePopped`) in two
actions, as a read of the device and a call, with the card changing in between;
a load is three (`LoadList`, `LoadFill`, `Subscribe`). The handlers of controls
and of mixer elements are operators that fold over the elements, since they call
each other: an add makes the control, the mixer element, attaches them and
reports. A set (`Set`) writes the element, reads it back where the code does, and
throws no event. `told` only observes: what the application last saw of an
element, by an event or by setting it, and whether a set has since read back
more (`unsaid`). `torn` and `missed` observe which elements were left unread by a
failure and which controls changed while nobody listened. An element with an
enumeration for each direction and none for both (`NullEnum`) ends the program
at the first read or write, by the assertion of `snd_hctl_elem_read`.

### Interval, HwRules, HwRefine and HwParams (interval.c, pcm_params.c, pcm_direct.c, pcm_rate.c)

`Interval` is `snd_interval_t` with its open bounds, flags and arithmetic;
`UintMax` stands for `UINT_MAX`, where products saturate and `min++` and
`max--` wrap, which the field `lifted` records (it only observes). `HwRules` has
the space (`Spaces`), all twenty rules of `refine_rules[]` in order, and, beside
the code, what a configuration is (`Configurations`, `Value`, `InSpace`): one
number for each parameter, in the relation the rules come from; those that
refinement can keep are `Possible`. It also has what a pass over the rules is
made of (`Initial`, `Limited`, `ApplyRule`, `Unsettled`). `HwRefine` is the
fixpoint of `snd_pcm_hw_refine_soft` (`Settled`: the stamps become the set of
rules that are stale), `snd_pcm_hw_refine_slave` with the rate plugin's four
callbacks, and `snd_pcm_direct_hw_refine`. The code's loops go on until nothing
changes; the model's are a number of steps (`Repeated`), `MaxPasses` times
`MaxPasses` passes and `MaxRounds` rounds, and if that were too few would come out `endless`, which `SomethingLeft` says they never do. `HwParams`
is an application that calls `snd_pcm_hw_params_any`, then set, set_min,
set_max, set_minmax, set_integer, set_near, set_first and set_last in any order,
and installs. A call is one action, since the space is the application's own;
what is hard is which calls came before. A call that runs into an assertion, or
goes on with an uninitialised interval, ends the behaviour with the outcome
`abort` or `undefined`, and so would one that ends `endless`. `asked` keeps the
ranges that calls were granted, `trusted` whether all calls so far kept to what
the interface promises (a failed set_near, first or last does not put the space
back, as documented for SND_CHANGE).

## 3. The runs

| run | states | shows |
|---|---|---|
| `pcm_hw` | 1.2 million | no interleaving of transfers, other calls and the driver breaks the ring; it implements `PcmFifo`; calls return |
| `pcm_hw_return` (violation) | | the return value of a write misses frames when its automatic start fails |
| `pcm_hw_rewindable` (violation) | | `snd_pcm_rewindable` is off by the boundary while only `appl_ptr` has wrapped |
| `dmix` | 1.6 million | mixes only what was written, in step with the slave; drain and wait come to an end |
| `dmix_drain` (violation) | | draining a client that was started while empty never returns |
| `dmix_wrap` (violation) | | a wrap of `appl_ptr` makes `sync_area` mix frames that were never written |
| `dmix_period` (violation) | | the active period of the slave can be mixed into |
| `direct_ipc` | 63 thousand | exclusion, no torn-down card, nothing left behind, every open ends, the server leaves, until a set is removed under others |
| `direct_ipc_fail` (violation) | | an interrupted wait destroys the lock of the others |
| `seq_midi` | 279 thousand | events reach the kernel in order, each once, whatever it refuses, but for one a failed retry gives up; a write that is not refused sends all, and every write returns; what is read parses back to what was sent |
| `mixer` | 244 thousand | the cache follows the card and stays sorted, pointers between controls and elements agree, the application is told of what the handlers read, values are fresh, assertions fail only by the races named |
| `hw_params` | 12 thousand | no possible configuration lost, nothing granted taken back, rules settled, the nearest taken, installed configurations known and in step with the slave's |

**Bounds.** `pcm_hw`: a ring of three frames with a boundary of two rings, the
smallest in which a transfer can be cut at the ring's end, pointers wrap at
different times and frames of one lap can be told from those of the next; calls
of up to four frames need more than one round; the hardware moves one or two
frames between two looks, enough to pass a threshold without touching it. The
stop threshold is the ring or the boundary (the endless mode).
`dmix`: client and slave ring of four frames in two periods, the slave's
boundary three rings (so that it is not a power of two times the ring and wraps
at another place than the client's), stop thresholds of three frames (a user's,
below the ring) and of the boundary (none), calls of one or two frames, a horizon
of five frames before the application's pointer wraps (what happens at the wrap is
the subject of `dmix_wrap`), a lag of three. `direct_ipc`: three processes are
needed for an opener, a closer and a bystander; two attempts for the semaphore
instead of ten; two deaths; any number of opens that fail. `seq_midi`: streams of
two or three messages, of every length, with running status, a clock inside a
message, a sysex longer than the parser's buffer of three, and data of no
message, once so much of it that the buffer is overrun; an output buffer of one to two events, so
that it is full half of the time; a reader's queue of two. `mixer`: three
controls that make two elements, one control shared by both; two changes by
others, one set, two loads; each change may fall between any two steps. None of
the controls is an enumeration: of those only `AbortsHold` speaks.
`hw_params`: two dozen requests, chosen so that every parameter that rules tie
to others is asked for, three calls (two on a rate PCM, whose refinements are
long); a width of 4095, which nothing but the whole space reaches; sample
configurations with rates up to four and periods up to three frames, so that
quotients come out even and odd. Deadlock is checked in `pcm_hw` and
`direct_ipc`: in `dmix` a drain or wait without a started timer really stops, in
`seq_midi` a blocking read waits for events nobody has to send, and `mixer` and
`hw_params` end with the application.

**Fairness.** A thread that can run does, a running device goes on playing
(weak fairness on the steps inside a call, on `Tick`). Nothing obliges the user
to call or the device to suspend. In `DirectIpc` the waits for the semaphore, the
server's included, and for the server are strongly fair: the kernel serves the
waiters of a semaphore in the order they came, and a server that polls again
and again finds the connection that waits. Its timeout may come at any time,
but has to come only while nobody is connecting. In `RawmidiVirt` the writer's thread goes on inside its
call, and a write that blocks in the kernel comes back with at least one event
taken or an error; nothing obliges the reader.

**What the violations show.** Each quotes, under "findings", the comment or
documentation the code departs from. In short: a write reports an error for
frames it has written; rewindable returns nonsense during a part of every lap of
the boundary; drain hangs on a pending start; the wrap of `appl_ptr` and the
skip of missed frames rest on unsigned differences that come out wrong; and a
signal in `semop` breaks the lock. They take long uptimes, small windows or
unusual calls, and leave the passing runs' claims as stated.

**What the passing runs except.** Some properties hold but for cases that the
property itself names, because the code breaks it there. These are:

* `FramesIntact`, `TransferInFreeSpace`, `RingBounded` and `CallReturns` end
  where the hardware laps the application in the endless mode (`Lapped`): avail
  is then any number below the boundary.
* `DrainPlaysOut`: a drain whose wait finds the card lost ends its loop with
  success and frames unplayed (`pcm_dmix.c:665`: the condition looks only for
  DRAINING), while one that finds it lost at the head of a round returns the
  error. A stop threshold of the user's below the ring is kept by the drain
  (`pcm_dmix.c:645`), which ends when the ring has that much room.
* `MutualExclusion`, `OpenIsConfigured`, `OneSemaphore` and `NothingLeft` end
  where a process removes the set that others use (`pcm_dmix.c:1007`, and 1146
  when an open fails late); so do the two liveness properties.
* `WriterKeepsOrder`: a pending event whose retry fails with another error than
  EAGAIN is given up (`rawmidi_virt.c:201`).
* `SentAtRest`: any refusal or error of the kernel's leaves events unsent, of a
  writer that blocks too (`rawmidi_virt.c:223`); how the drain at the end of a
  call went is not looked at (231), and a drain of the port drops what is left.
* `WriteReturns`: data without a status, more than the parser's buffer holds, is
  stored past its end (`seq_midi_event.c:425`; the comment at 316 has it that such
  data is ignored).
* `AppTold`: a set reads a capture source's element back, and any that it fails
  to write (`simple_none.c:640`, 653), and nobody tells the application what it
  read. The event of the other program's change it met there then finds nothing
  new: the application does not learn of it before the element's next change.
* `ReaderHearsEvents`: a read that ends inside an event copies the next part
  from the event's beginning (`rawmidi_virt.c:266`); a sysex goes by the decoder,
  which resumes running status after it (`rawmidi_virt.c:251`); an overrun, a
  drop, or another client's event between the parts of a sysex tears it.
* `WritesBackOnlyStale`: a global switch beside a capture switch or source is
  never read (`simple_none.c:389`), yet written, and so switched off by any set
  of the element (`simple_none.c:558`).
* `ValuesFresh`: a control's removal does not make the elements that lose it read
  again (`simple_none.c:1650`); an INFO event on a capture source of two items
  always fails with -EINVAL for the second, since the first added the control to
  it again.
* `AbortsOnlyRacing`: assertions end the program when a control comes or goes
  between list and subscription (`hcontrol.c:618`), comes and goes between two
  reads (`hcontrol.c:744`), or is a capture source that goes while it is looked
  at (`simple_none.c:1615`). The application can do nothing about them. Nor can it
  about an element with a playback and a capture enumeration and no global one,
  whose control is looked for in the wrong place (`simple_none.c:299`): the first
  read of it fails the assertion at `hcontrol.c:823`.
* `GrantedStays`, `NothingLost` speak of calls that ask for a range with a number
  in it: `set_max(0, -1)` succeeds and lifts the maximum of an integer parameter
  to `UINT_MAX`, since `max--` wraps (`interval.c:146`). They also except a space
  in which a bound has wrapped inside a refinement (`Lifted`); that this happens
  to no space of the run is part of `SomethingLeft`.
* `SomethingLeft`: that `snd_pcm_hw_params_choose` failed is not looked at
  (`pcm_params.c:2320`). On a null PCM with whole periods and period sizes of at
  most three frames, the preference for periods longer than
  `defaults.pcm.minperiodtime` empties the space, and `snd_pcm_hw_params`
  succeeds with a period size that was never set; a PCM on hardware gets an error
  from the driver instead. A rate PCM leaves its period size unmarked when it
  puts it to a divisor of the buffer (`pcm_rate.c:200`): set_near then reports
  success although another parameter is empty, and installing computes with an
  interval nobody wrote.
* `RulesSettled` and `NothingLost` leave the rate PCM out for the same reason.

Noticed on the way, and modelled as it is: the direct plugin does not notice
that refining by the slave's values emptied an interval, and applies the rules
only when something about the buffer changed; the buffer of a rate PCM's slave
may be longer than the client's, since the slave's rate is asked for as
[rate, rate + 1); the assertion of `muldiv32` that it never divides 0 by 0
cannot be reached by a period time of 0, since times are open there.

## 4. The proofs

All theorems are checked by TLAPS for every value of the constants allowed by
the assumptions `RingAssumption`, `ThresholdAssumption`, `DmixAssumption`,
`DirectIpcAssumption`, `MidiEventAssumption`, `RawmidiAssumption`,
`ControlAssumption`, `MixerAssumption`, `UintMaxAssumption`,
`HwRulesAssumption`, `HwRefineAssumption` and `HwParamsAssumption`. They ask for
the types of the constants and for what the code asserts or computes: the
buffers of a sequencer client hold any event of the parser, as they do with the
sizes of `seq_hw.c` (`Carried`), format numbers are not negative, a slave has a
rate below `UINT_MAX` and a buffer that an unsigned can count, and the sampled
configurations are possible ones. Two groups of theorems have premises of their
own, named and explained below: `Aligned`, `Short` and `Timely` in `DmixProofs`,
`Spelled` in `RawmidiVirtProofs`.

* `PcmRingProofs`: the types and exact effect of each operator. The ones that
  carry the rest are `AvailForwardAppl` (moving the application by n lowers
  avail by n), `AvailForwardHw` (the hardware's progress raises it) and
  `BeginFramesBounds`.
* `PcmHwProofs`: `IInv` is inductive. It joins `TypeOK`, `TransferInFreeSpace`
  and three lemmas about the state: `Room` (a stream that was neither overrun nor
  lapped holds at most a ring), `Resumes` (a suspended stream goes back to a state in which
  that was so), `Progress` (the locals of a call are in proportion: done within
  frames, frames within what is left). From it follow `SpecTypeOK`,
  `SpecTransferInFreeSpace` and `SpecRingBounded`. `TransferInFreeSpace` is not
  inductive alone: that avail only grows under a waiting transfer needs `Room`,
  and `Room` after a resume needs `Resumes`. The theorem says that the sanity
  checks of `snd_pcm_mmap_commit` never fire for a single thread. The proof
  needs that the hardware does not move a whole boundary between two looks
  (`BufferSize + MaxTick < Boundary`).
  `SpecReturnAccountsForFrames` follows from `Counted`, which follows the frames
  through a call: all in `xfer` before the copying loop, `xfer + done` inside it,
  `xfer + frames` after it. `Counted` is inductive only together with `IInv`: an
  error return from inside the loop would lose frames; because of `TransferInFreeSpace`
  and `Progress` there is none once a frame of the round has moved, and in a
  lapped stream, of which those say nothing, one is met only before (`GivesUp`).
  Also in this module are `SpecFramesIntact`, `SpecReadsIntact` and the whole
  refinement, `SpecImplementsFifo`. The invariant `FInv` says that the queue fits
  the ring and the ring holds it in every state, moving or not, until the
  hardware laps (`Intact`); that frames copied and not yet committed are in the
  ring already (`Copied`); and that a lapped stream stays put until it is prepared
  or reset, unless it is endless (`LapStops`). Its steps are facts about slots: frames less than a ring
  apart never share one (`SlotsApart`), so what one side writes beyond its
  pointer leaves alone what the other still owes, as long as both together fit,
  which is `IInv`. For the refinement every action is shown to do one of the few
  things that can happen to the queue (`Moves`), and each of these is a step of
  `PcmFifo` or none, by the lemmas on runs of positions in `PcmRingProofs`
  (`Run`, its ends and its parts, across the wrap).
* `DirectIpcProofs`: `IInv` joins `TypeOK`, which holds always, and, as long as
  no set was removed under others (`~broken`), `Holder` (who is in a critical
  place holds the semaphore, by the id of the existing set), `Counted` (who is
  open, or has leaked, is attached, and to a segment that was set up) and `Alone`
  (who takes itself for the first or the last is). Mutual exclusion follows from `Holder`, but
  `Holder` needs `Counted` and `Alone`: the set is removed only by a process
  that nobody shares the segment with, or else `broken` becomes TRUE. Any number of processes, with and
  without a server. `SpecNothingLeft` has an invariant on top of it, `Tidy`, about
  who is still to clean up: while nobody has died and nothing is broken, a segment without attachments has somebody about to destroy it
  (`Attended`), who leaves without destroying leaves somebody attached
  (`Followed`), and a set that is there has somebody who knows its id (`Known`).
* `DmixProofs`: the invariant `DInv` (types; a client that has not started has
  mixed nothing and has no timer; inside a drain the stop threshold is the ring
  or less, the one to put back is kept, and the client drains)
  gives `SpecTypeOK` and `SpecDrainPlaysOut`. The types are not obvious: a skip
  and a rewind compute differences modulo the machine word before they reduce
  them modulo a boundary. `DmixAssumption` asks that the word is at least two of
  the slave's boundaries, since `recalc_boundary_size` (`pcm_direct.c:1183`) and
  `snd_pcm_sw_params_default` (`pcm_params.c:2269`) keep a boundary within
  `LONG_MAX`.

  `SpecLockstep` and `SpecMixesOnlyWritten` rest on `LInv`: a client that follows
  the slave has its place in the slave ring where its own pointers say, up to
  whole boundaries of the slave and the alignment of its start (`InStep`), and,
  in the second theorem, its pointers are in order (`Kept`: last_appl_ptr is
  never ahead of appl_ptr, and neither reaches half the boundary). What makes it
  hard is `SkipMissed` and `Unmixed`, which take differences in unsigned
  arithmetic and guess from their size which of them wrapped. There are two ways
  for the guesses to be right, and so two theorems:

  - `SpecLockstep`, `ASSUME Aligned`: at any time, through every wrap of both
    rings, if the slave's boundary divides the client's and the word is a
    multiple of that, or large. Otherwise it is false: with the constants of the
    `dmix` run (12 does not divide 16) and a horizon of 17, past the wrap, TLC
    finds a client out of step.
  - `SpecMixesOnlyWritten`, `ASSUME Short PROVE Spec /\ []Timely => ...`: for any
    two boundaries, early in a stream. `Short` says that the application writes
    less than half the boundary of frames: beyond it the run `dmix_wrap` has the
    counterexample. `Timely` says that a client is looked at before the slave has
    played past its last frame by its own boundary less a ring, and before it
    takes hw_ptr over the boundary. That is hours of sound with longs of 32 bits
    and ages with 64; it is about the pace of the application and the slave, so it
    is a premise on the behaviour and not an assumption on constants. The
    instance of the `dmix` run satisfies both: its horizon of 5 is below half of
    16, and `Timely`, which stands in `Dmix.tla`, is an invariant of it (add it to
    `MCDmix.cfg` to see).
* `RawmidiVirtProofs`: `SpecWriterKeepsOrder` and `SpecSentAtRest`. `WInv` adds to
  the types where the event in hand is kept at each place of a call (`Held`:
  pending between calls, in the call's hand while it is put out), that a call
  that met no refusal and no error leaves nothing behind (`Sent`), and that the parser, after any
  number of calls, refusals and drops, is where a listener's would be who heard
  the same bytes in one go (`Followed`). What a parser makes of a whole stream is
  an induction over the stream; therefore the premise: `Spelled(s)` says that
  there are the parsers of such a listener, from the start of s and from every
  message begun in it, and that s names the events they make, up to where one
  overruns its buffer. For the streams of
  the `seq_midi` run TLC evaluates it (`ScriptsSpelled` in `MCRawmidiVirt`).

  `SpecTypeOK` has `Typed` next to `WInv`. That no buffer is ever overfull is
  about the sums of the lengths of the events in it (of the parser's, that a byte
  that would not fit ends the writer): what is in the output
  buffer plus the event in hand, the part of the kernel's queue that a fetch
  takes (`FillIs`), the events a delivery cuts off. The sums are folds;
  `SumsPart` compares the sum of a part with that of the whole, place by place.
* `FoldInduction`: induction over data. The library's induction theorems take an
  operator as a parameter, which the provers cannot instantiate, so this module
  has the operator and the invariant as constants `Op` and `Inv`, and a module
  that needs an induction makes an instance, whose theorems then speak of its own
  definitions. `LeftHolds` and `RightHolds`: what holds of the start and is kept
  by each step holds of a fold; `TimesHolds`: of a recursive function on numbers.
  That such a function exists at all is proved here too (`LeftGrows`,
  `TimesGrows`), since `CHOOSE` of the recursive definition says nothing without
  it.
* `MixerProofs`, for every set of controls, names and values and any number of
  changes, sets and loads. `MixerInv` is inductive. Its heart is `Good`: both
  arrays strictly sorted (`Well`), so that the binary search finds what is there
  (`FindBeside`: by induction on the width of a span); a control's bag and an
  element's list each naming the other (`Linked`); and each element having its
  controls in the places of their types and its values known to the application,
  unless they could not be read or a set has read back more (`Heard`, in
  `Sound`). In the middle of a handler one element is not sound, so every
  handler is shown to keep `GoodBut` that one and to leave all others alone
  (`Kept`), and to end in `Good`: down from attach, detach and read through
  `simple_add1` and the events of elements to events of controls, the load, the
  free and the close, whose folds are instances of `FoldInduction`. Without
  `NumbersOnce` (no number of the card is given twice, none that the library may
  still know) a new control could be taken for one whose removal is pending. From
  it follow `TypesHold`, `BagsHold` and `ToldHolds`.

  `History` is inductive next to it and is about the events. `Ordered`: the
  events of what is gone end with its removal, those of a number begin with its
  addition, and one number of a control gives way to the next by a removal.
  `Follows`: the cache and the pending events together account for every
  control, what is cached and gone having its removal pending, what is there
  and not cached its addition, and no event adding what is cached or removing
  what is not. Each step either extends the queue (`Grew`), adds a control to it
  (`Joins`), makes an event a removal (`Leaves`) or handles the first (`Shifts`),
  and each of these is shown once to keep both. `CacheHolds` reads off what the
  cache holds when all is handled (`ThenIs`), and `AbortsHold` which assertion an
  event can meet: an addition of what is cached, or a removal of what is not, is of
  a control that was missed before the subscription or came and went between two
  reads; beside these there is only the capture source that goes while it is
  looked at, and the element whose enumeration is looked for in the wrong place:
  `Ends` says that a handler ends in an assertion of its own only when a capture
  source is gone or there is such an element (`Mute`).
* `HwParamsProofs` begins with the interval functions. What an interval means is
  `Holds(i, p, q)`, that it has the number p / q. `RefineIntersects` says that
  refining leaves exactly the numbers of both, `RefineBoundExact` the same of one
  bound, with the one exception of the wrapping `max--` as its premise.
  `MulHolds`, `MulKDivHolds`, `DivHolds` and `MulDivKHolds` say that the
  arithmetic computes a superset of the results of all pairs of numbers: rounding
  is outward, the openness of a bound is that of the operands it came from, and
  saturation at `UINT_MAX` only widens. They rest on lemmas about division with
  remainder and about the monotony of products (`Product`, `Scale`), strict where
  a bound is open.

  Then the rules. `RuleLosesNothing`: for any space and any configuration in it,
  each of the twenty rules ends well and leaves a space that has the
  configuration. Every rule between intervals is an instance of one of four
  lemmas (`MulRule`, `DivRule`, `MulKDivRule`, `MulDivKRule`), with the relation
  of the three parameters that `Value` defines; formats and sample bits have
  their own. The premise is that the values of the configuration are below
  `UINT_MAX`, where saturated bounds may be open: there the theorem is false, and
  a buffer of `UINT_MAX` frames is lost.

  Then steps of a space. `Narrower(mode, p, q)`: q has nothing that p has not,
  bound by bound with their openness, and is exact (an interval is flagged
  empty exactly when it has no number). `Leads(mode, C, p, s)`: the step from
  p to s narrows, and of the configurations C loses none that p has; then it
  does not fail either. `Leads` composes, and holds of a rule, a pass, the loop of
  passes (`RefineSoftLosesNothing`, by `TimesHolds`), the direct plugin and the
  rounds between a rate PCM and its slave (`HwRefineLeads`), of each of the calls,
  the search of set_near and the sequence of choices that installs
  (`InstalledNarrows`). A rate PCM has a mode of its own, loose about the
  openness of its period size, because `WholePeriod` may take the very bound of an
  open range; for the same reason no configuration is promised for it. A call
  that fails may leave a space that is narrower than before without having been
  granted anything, so the lemmas say what every outcome leaves, not only success.

  `ParamsInv` joins an exact space, `Granted` (every range that was granted
  holds of the space or the parameter is empty or lifted) and `Spared` (while
  the application kept to the interface, every configuration that the PCM has
  and that fits all that was asked for is in the space). It is inductive because
  all three are preserved by `Narrower` and `Leads` alone. `ParamsHold`,
  `NothingLostHolds` and `GrantedStaysHolds` follow: for every width of an
  unsigned, table of formats, slave, set of requests, number of calls and sample
  of configurations, also if the loops were cut off after any number of passes.

Only model-checked, and why:

* `ReaderHearsEvents`: what a listener hears of the bytes is a fold of two
  parsers, one of which resumes in the middle of an event; its invariant would
  have to relate them byte by byte for every message.
* `ValuesFresh`, `WritesBackOnlyStale`: these are true of the controls in the
  `mixer` run and not of every set, so there is no theorem to prove. Two switches
  of one direction, such as a playback switch and a route, are read as one that is
  on when both are, and written as one: setting the volume of such an element
  switches off the one that was on. An element with an enumeration is written as
  one, so that a set of its volume goes to the enumeration. A control of type
  SINGLE that is a BOOLEAN, beside a capture volume and a capture switch, belongs
  to both directions: while the capture switch is on and SINGLE off, setting the
  switch on changes nothing on the card and leaves the element's flag set, which
  the next read clears.
* `TypeOK` of `HwParams`, which says that a range of integers has closed bounds:
  it depends on the requests. A direct PCM with fixed periods (`MaxPeriods` below
  0) does not refine the number of periods, and so set_integer on an open range of
  it leaves it open. That every interval is exact, which is what the other proofs
  need, is part of `ParamsInv`.
* `RulesSettled`: the direct plugin applies the rules only when something about
  the buffer is asked for, and that a range becomes one of integers is not
  counted as a change, so that it too depends on what is asked. `SomethingLeft`,
  `SlaveAgrees` and `NearestTaken` likewise speak of what the run's requests and
  slave lead to: whether loops end within the bounds, a bound wraps, or rounding
  stays within a frame.
* All liveness properties (`CallReturns`, `WaitReturns`, `StartedDrainReturns`,
  `OpenReturns`, `ServerLeaves`, `WriteReturns`), which are beyond the prover.

`SpecLockstep` and `SpecMixesOnlyWritten` have premises that the runs' properties
do not have: of a client with unsuited boundaries that is looked at late only the
bounded runs speak.

## 5. Not modelled

Samples and their formats; the parsing of configuration; ioctl numbers and
protocol versions (the present protocol is assumed: 2.0.4 and later); timestamps;
the readi/writei ioctls (the driver does the transfer); asynchronous callbacks
and linked streams; two threads on one PCM, which the library does not support.
In dmix: several clients at once (they meet only in the sum buffer, under the
lock that `DirectIpc` is about), `slowptr`, variable periods, and the emptying of
a timer's queue that never ends because the card is gone. In the server: its
list of 128 connections, its end by a signal or an error of poll. Of the segment:
that one which is being destroyed is attached. In the MIDI parser: what is stored
past the end of its buffer. In the parameters: access, subformat and tick time,
which are in no rule; masks of formats set at once; the set_next and strategy
functions; compatibility mode; SND_TEST, which works on a copy. In the
sequencer: queues, timestamps, ports and subscriptions, and the removal of
events by a condition. In the mixer: several cards or classes, more than one
channel, ranges and decibels.

Of the configuration, the use case manager, alisp, the sound server and the
numeric plugins, which together are more than half of the code, the state is a
tree, a file or a sample; a model of them would be the program over again. The
list of asynchronous handlers, the connections of the server and the small
plugins could be modelled and are not.

Known to be hard, and not watched by a property for want of a model: a blocking
write to a full ring that is only prepared returns short (`pcm.c:6839`);
resuming the shared slave resets its pointer under the clients
(`pcm_direct.c:816`); a drain that leaves on an error does not put
`stop_threshold` back (`pcm_dmix.c:660`); a rewind adds the client's boundary for
the slave's (`pcm_dmix.c:712`); poll mixes by the slave pointer of the last look
(`pcm_dmix.c:878`); the server's list is compacted with memcpy
(`pcm_direct.c:394`); the rate plugin ignores the wrap of its slave
(`pcm_rate.c:571`); an ioplug misses a whole lap (`pcm_ioplug.c:62`); the decoder
notes running status before it finds that a message does not fit
(`seq_midi_event.c:609`); a partial drain of the sequencer reports an error and
not the rest (`seq.c:3965`); the last asynchronous handler never turns the
device's signal off (`async.c:151`).

## 6. Plan

1. *Done*: `PcmRing`, `PcmHw` with `PcmFifo`, `Dmix`, `DirectIpc`; proofs for
   the ring, for `PcmHw` and for `DirectIpc`.
2. *Done*: `MidiEvent` and `RawmidiVirt`; `Hctl`, `SimpleElem` and `Mixer`;
   `Interval`, `HwRules`, `HwRefine` and `HwParams`; proofs for the intervals
   and the rules.
3. *Done*: proofs of `FramesIntact`, `ReadsIntact` and the refinement of
   `PcmFifo`; of `NothingLeft`; of the properties of `Dmix`; of the writer of
   `RawmidiVirt`; of the types of all components but `HwParams`; of the cache,
   bags, callbacks and assertions of `Mixer`; of `NothingLost` and
   `GrantedStays` of `HwParams`. Open: `ClearOfActivePeriod` of a client that is
   looked at in time, and `ReaderHearsEvents` for streams that a parser spells
   out.
4. `DmixMix` (`pcm_dmix_generic.c`): two clients add, saturate and take back
   through the sum buffer under the semaphore of `DirectIpc`.
5. `Share` (`pcm_share.c`): clients and thread around mutex, condition and pipe;
   lost wake-ups. Then the rings of `Rate`, with the wrap its FIXME names.
