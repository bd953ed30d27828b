------------------------------ MODULE DirectIpc ------------------------------
(***************************************************************************)
(* How the processes that share one card through a direct plugin (dmix;    *)
(* dshare and dsnoop do the same) find each other and come and go:         *)
(* snd_pcm_dmix_open, snd_pcm_dmix_close, the server process and the       *)
(* System V objects of pcm_direct.c.                                       *)
(*                                                                         *)
(* One semaphore set serialises opening, closing and mixing; one shared    *)
(* memory segment holds the slave's parameters, and the count of its       *)
(* attachments says who is first and who is last.  The kernel's side is    *)
(* modelled from the calls the code makes: a removed set makes semop fail  *)
(* in whoever waits on it or still uses its id, a process that dies gives  *)
(* back what it locked (SEM_UNDO) and is detached.                         *)
(***************************************************************************)
EXTENDS Integers, FiniteSets

CONSTANTS
  Proc,        (* The client processes.                                    *)
  NoProc,      (* Nobody.                                                  *)
  UseServer,   (* Is the card handed on by a server (shmptr->use_server)?  *)
               (* What the kernel's version may say, as a set.             *)
  MaxTries,    (* fail_sem_loop.                                           *)
  MaxCrashes,  (* Processes that die without closing (bound).              *)
  Beyond       (* Is what comes after `broken` looked at (bound)?          *)

ASSUME DirectIpcAssumption ==
  /\ IsFiniteSet(Proc)
  /\ "server" \notin Proc /\ NoProc \notin Proc /\ NoProc # "server"
  /\ UseServer \subseteq BOOLEAN /\ UseServer # {}
  /\ MaxTries \in Nat \ {0}
  /\ MaxCrashes \in Nat
  /\ Beyond \in BOOLEAN

VARIABLES
  sem,         (* Is there a semaphore set under the key?                  *)
  lock,        (* Who holds it.                                            *)
  shm,         (* Is the segment there, who is attached, and has the first *)
               (* set it up: for a card that all open, or for a server.    *)
  pc,          (* Where each process is in opening, using or closing.      *)
  valid,       (* Whose dmix->semid is that set (and not a removed one).   *)
  tries,       (* fail_sem_loop counted up.                                *)
  server,      (* The server process.                                      *)
  crashes,
  broken       (* Has somebody removed the set under others (below)?       *)

vars == <<sem, lock, valid, shm, pc, tries, server, crashes, broken>>

Place == {"closed", "semget", "down", "shm", "attached", "first", "secondary",
          "connect", "leaked", "redown", "finish", "open", "mix", "closing", "detached",
          "destroy", "destroyed"}

Segment == [exists: BOOLEAN, nattch: SUBSET (Proc \cup {"server"}),
            setup: {"no", "direct", "server"}]

TypeOK ==
  /\ sem \in BOOLEAN
  /\ lock \in Proc \cup {NoProc, "server"}
  /\ shm \in Segment
  /\ pc \in [Proc -> Place]
  /\ valid \in SUBSET (Proc \cup {"server"})
  /\ tries \in [Proc -> 0 .. MaxTries - 1]
  /\ server \in {"none", "poll", "wait", "check", "cleanup"}
  /\ crashes \in 0 .. MaxCrashes
  /\ broken \in BOOLEAN

------------------------------------------------------------------------------
(* The semaphore.                                                          *)

(* The kernel does not give out an id twice, so the id of a removed set    *)
(* names no set ever after: all calls with it fail.                        *)
Valid(p) == p \in valid

CanDown_Bug(p) == TRUE

(* semop returns at once from a set that is gone, and waits for a locked   *)
(* one.                                                                    *)
CanDown(p) == Valid(p) => lock = NoProc

(* snd_pcm_direct_semaphore_down, _up and _discard, where the code ignores *)
(* what they return.                                                       *)
Down(p) ==
  /\ CanDown(p)
  /\ lock' = IF Valid(p) THEN p ELSE lock
  /\ UNCHANGED <<sem, valid>>

Up(p) ==
  /\ lock' = IF Valid(p) THEN NoProc ELSE lock
  /\ UNCHANGED <<sem, valid>>

Discard(p) ==
  /\ sem'   = (sem /\ ~Valid(p))
  /\ lock'  = IF Valid(p) THEN NoProc ELSE lock
  /\ valid' = IF Valid(p) THEN {} ELSE valid

NoSegment == [exists |-> FALSE, nattch |-> {}, setup |-> "no"]

(* snd_pcm_direct_shm_discard, in one step where no other step comes       *)
(* between: the last to detach destroys the segment.                       *)
Detach(who) ==
  IF shm.nattch \ {who} = {} THEN NoSegment ELSE [shm EXCEPT !.nattch = @ \ {who}]

Goes(p, from, to) == pc[p] = from /\ pc' = [pc EXCEPT ![p] = to]

ipc == <<sem, lock, valid>>

------------------------------------------------------------------------------
(* snd_pcm_dmix_open.                                                      *)

Open(p) ==
  /\ Goes(p, "closed", "semget")
  /\ UNCHANGED <<ipc, shm, tries, server, crashes, broken>>

SemGet(p) ==
  /\ Goes(p, "semget", "down")
  /\ sem' = TRUE
  /\ valid' = valid \cup {p}
  /\ UNCHANGED <<lock, shm, tries, server, crashes, broken>>

DownFailed_Bug(p) ==
  /\ Discard(p)
  /\ IF tries[p] + 1 <= MaxTries
     THEN /\ pc' = [pc EXCEPT ![p] = "semget"]
          /\ tries' = [tries EXCEPT ![p] = @ + 1]
     ELSE /\ pc' = [pc EXCEPT ![p] = "closed"]
          /\ tries' = [tries EXCEPT ![p] = 0]
  /\ UNCHANGED <<shm, server, crashes>>

(* semop failed; the set is discarded, if it is not gone already.          *)
DownFailed(p) ==
  /\ Discard(p)
  /\ IF tries[p] + 1 < MaxTries
     THEN /\ pc' = [pc EXCEPT ![p] = "semget"]
          /\ tries' = [tries EXCEPT ![p] = @ + 1]
     ELSE /\ pc' = [pc EXCEPT ![p] = "closed"]
          /\ tries' = [tries EXCEPT ![p] = 0]
  /\ UNCHANGED <<shm, server, crashes>>

SemDown(p) ==
  /\ pc[p] = "down"
  /\ \/ /\ Valid(p)
        /\ Down(p)
        /\ pc' = [pc EXCEPT ![p] = "shm"]
        /\ tries' = [tries EXCEPT ![p] = 0]
        /\ UNCHANGED <<shm, server, crashes, broken>>
     \/ ~Valid(p) /\ DownFailed(p) /\ UNCHANGED broken

(* A signal interrupts the semop that waits: the code discards the set,    *)
(* which another process holds.                                            *)
SemInterrupted(p) ==
  /\ pc[p] = "down"
  /\ Valid(p)
  /\ lock # NoProc
  /\ DownFailed(p)
  /\ broken' = TRUE

(* snd_pcm_direct_shm_create_or_connect: the process attaches, then counts *)
(* the attachments; the only one is the first, and clears the segment.     *)
ShmAttach(p) ==
  /\ Goes(p, "shm", "attached")
  /\ shm' = [shm EXCEPT !.exists = TRUE, !.nattch = @ \cup {p}]
  /\ UNCHANGED <<ipc, tries, server, crashes, broken>>

ShmCount(p) ==
  /\ IF shm.nattch = {p}
     THEN Goes(p, "attached", "first") /\ shm' = [shm EXCEPT !.setup = "no"]
     ELSE Goes(p, "attached", "secondary") /\ UNCHANGED shm
  /\ UNCHANGED <<ipc, tries, server, crashes, broken>>

(* The first opens and sets up the card, and forks the server, which       *)
(* inherits the attachment and the semaphore's id.                         *)
SetupFirst(p) ==
  /\ Goes(p, "first", "finish")
  /\ \/ /\ FALSE \in UseServer
        /\ shm' = [shm EXCEPT !.setup = "direct"]
        /\ UNCHANGED <<valid, server>>
     \/ /\ TRUE \in UseServer
        /\ server' = "poll"
        /\ shm' = [shm EXCEPT !.setup = "server", !.nattch = @ \cup {"server"}]
        /\ valid' = IF Valid(p) THEN valid \cup {"server"} ELSE valid
  /\ UNCHANGED <<sem, lock, tries, crashes, broken>>

SetupSecondary_Bug(p) ==
  /\ \/ shm.setup = "server" /\ Goes(p, "secondary", "connect")
     \/ shm.setup # "server" /\ Goes(p, "secondary", "finish")
  /\ UNCHANGED <<ipc, shm, tries, server, crashes, broken>>

(* With a server the others get the card from it, the semaphore raised "to *)
(* avoid deadlock"; without one they open it in append mode.               *)
SetupSecondary(p) ==
  /\ \/ shm.setup = "server" /\ Goes(p, "secondary", "connect") /\ Up(p)
     \/ shm.setup # "server" /\ Goes(p, "secondary", "finish") /\ UNCHANGED ipc
  /\ UNCHANGED <<shm, tries, server, crashes, broken>>

(* The server accepts, and sends the card, only where it polls; until then *)
(* the client waits in its receive.                                        *)
Connect(p) ==
  /\ Goes(p, "connect", "redown")
  /\ server = "poll"
  /\ UNCHANGED <<ipc, shm, tries, server, crashes, broken>>

(* No connection, or the server closes it: the label _err_nosem, which     *)
(* leaves the segment attached.  The process opens no more, it exits.      *)
ConnectFails(p) ==
  /\ Goes(p, "connect", "leaked")
  /\ UNCHANGED <<ipc, shm, tries, server, crashes, broken>>

Exit(p) ==
  /\ Goes(p, "leaked", "closed")
  /\ shm' = [shm EXCEPT !.nattch = @ \ {p}]
  /\ UNCHANGED <<ipc, tries, server, crashes, broken>>

Redown(p) ==
  /\ Goes(p, "redown", "finish")
  /\ Down(p)
  /\ UNCHANGED <<shm, tries, server, crashes, broken>>

Finish(p) ==
  /\ Goes(p, "finish", "open")
  /\ Up(p)
  /\ UNCHANGED <<shm, tries, server, crashes, broken>>

(* An open fails: the segment cannot be had or attached, the card not      *)
(* opened or set up, the sum buffer or the timer not found.  The label     *)
(* _err detaches and discards the semaphore set, whoever else uses it.     *)
OpenFails(p) ==
  /\ pc[p] \in {"shm", "attached", "first", "secondary", "finish"}
  /\ pc[p] = "secondary" => shm.setup # "server"
  /\ pc' = [pc EXCEPT ![p] = "closed"]
  /\ \/ shm' = Detach(p)
     \/ pc[p] = "shm" /\ UNCHANGED shm
  /\ Discard(p)
  /\ broken' = (broken \/ shm.nattch \ {p} # {})
  /\ UNCHANGED <<tries, server, crashes>>

(* Already semget fails: the label _err_nosem, nothing to clean up.        *)
SemGetFails(p) ==
  /\ Goes(p, "semget", "closed")
  /\ tries' = [tries EXCEPT ![p] = 0]
  /\ UNCHANGED <<ipc, shm, server, crashes, broken>>

------------------------------------------------------------------------------
(* sync_area and rewind of an open client mix under the semaphore, where   *)
(* the build has no atomic operations to mix with (NO_CONCURRENT_ACCESS).  *)

MixBegin(p) ==
  /\ Goes(p, "open", "mix")
  /\ Down(p)
  /\ UNCHANGED <<shm, tries, server, crashes, broken>>

MixEnd(p) ==
  /\ Goes(p, "mix", "open")
  /\ Up(p)
  /\ UNCHANGED <<shm, tries, server, crashes, broken>>

(* snd_pcm_dmix_close.                                                     *)
CloseBegin(p) ==
  /\ Goes(p, "open", "closing")
  /\ Down(p)
  /\ UNCHANGED <<shm, tries, server, crashes, broken>>

(* snd_pcm_direct_shm_discard: nobody is left, so the segment goes.        *)
CloseDetach(p) ==
  /\ shm' = [shm EXCEPT !.nattch = @ \ {p}]
  /\ Goes(p, "closing", IF shm'.nattch = {} THEN "destroy" ELSE "detached")
  /\ UNCHANGED <<ipc, tries, server, crashes, broken>>

CloseDestroy(p) ==
  /\ Goes(p, "destroy", "destroyed")
  /\ shm' = NoSegment
  /\ UNCHANGED <<ipc, tries, server, crashes, broken>>

CloseEnd_Bug(p) ==
  /\ \/ Goes(p, "detached", "closed")
     \/ Goes(p, "destroyed", "closed")
  /\ Up(p)
  /\ UNCHANGED <<shm, tries, server, crashes, broken>>

(* Who destroyed the segment removes the semaphore set as well.            *)
CloseEnd(p) ==
  /\ \/ Goes(p, "detached", "closed") /\ Up(p)
     \/ Goes(p, "destroyed", "closed") /\ Discard(p)
  /\ UNCHANGED <<shm, tries, server, crashes, broken>>

------------------------------------------------------------------------------
(* server_job: on a timeout the server looks whether it is the last one.   *)
(* It takes the semaphore first, and accepts nobody while it waits for it. *)

ServerTimeout ==
  /\ server = "poll"
  /\ server' = "wait"
  /\ UNCHANGED <<ipc, shm, pc, tries, crashes, broken>>

ServerDown ==
  /\ server = "wait"
  /\ Down("server")
  /\ server' = "check"
  /\ UNCHANGED <<shm, pc, tries, crashes, broken>>

LastUser_Bug == Cardinality(shm.nattch) <= 2

LastUser_Off == shm.nattch = {}

LastUser == Cardinality(shm.nattch) = 1

ServerCheck ==
  /\ server = "check"
  /\ IF LastUser
     THEN server' = "cleanup" /\ UNCHANGED ipc
     ELSE server' = "poll" /\ Up("server")
  /\ UNCHANGED <<shm, pc, tries, crashes, broken>>

(* server_cleanup, and the exit, which detaches and gives back the lock.   *)
ServerCleanup ==
  /\ server = "cleanup"
  /\ server' = "none"
  /\ shm' = Detach("server")
  /\ Discard("server")
  /\ UNCHANGED <<pc, tries, crashes, broken>>

(* A client dies.  Its segment stays, without attachments, until the next  *)
(* one to come.                                                            *)
Crash(p) ==
  /\ pc[p] # "closed"
  /\ crashes < MaxCrashes
  /\ crashes' = crashes + 1
  /\ pc' = [pc EXCEPT ![p] = "closed"]
  /\ tries' = [tries EXCEPT ![p] = 0]
  /\ lock' = IF lock = p THEN NoProc ELSE lock
  /\ shm' = [shm EXCEPT !.nattch = @ \ {p}]
  /\ UNCHANGED <<sem, valid, server, broken>>

------------------------------------------------------------------------------
Init ==
  /\ sem = FALSE
  /\ lock = NoProc
  /\ shm = NoSegment
  /\ pc = [p \in Proc |-> "closed"]
  /\ valid = {}
  /\ tries = [p \in Proc |-> 0]
  /\ server = "none"
  /\ crashes = 0
  /\ broken = FALSE

(* What a process does in a call without being asked again.                *)
Steps(p) ==
  \/ SemGet(p) \/ ShmAttach(p) \/ ShmCount(p) \/ SetupFirst(p)
  \/ SetupSecondary(p) \/ Finish(p) \/ MixEnd(p)
  \/ CloseDetach(p) \/ CloseDestroy(p) \/ CloseEnd(p)

(* Where it waits for another one.                                         *)
Waits(p) == SemDown(p) \/ Redown(p) \/ Connect(p)

Server == ServerTimeout \/ ServerDown \/ ServerCheck \/ ServerCleanup

InScope == broken => Beyond

Next ==
  \/ /\ InScope
     /\ \/ \E p \in Proc :
             \/ Steps(p) \/ Waits(p)
             \/ Open(p) \/ MixBegin(p) \/ CloseBegin(p)
             \/ SemGetFails(p) \/ SemInterrupted(p) \/ OpenFails(p) \/ ConnectFails(p)
             \/ Exit(p) \/ Crash(p)
        \/ Server
  \/ ~InScope /\ UNCHANGED vars

(* The kernel serves the waiters of a semaphore in the order they came,    *)
(* and a server that polls finds the connections that wait for it: nobody  *)
(* who may go on again and again waits for ever.  The timeout is due only  *)
(* when no client is about to connect; it may come at any time.            *)
Fairness ==
  /\ \A p \in Proc : WF_vars(InScope /\ Steps(p)) /\ SF_vars(InScope /\ Waits(p))
  /\ WF_vars(InScope /\ ServerTimeout /\ \A p \in Proc : pc[p] # "connect")
  /\ SF_vars(InScope /\ ServerDown)
  /\ WF_vars(InScope /\ (ServerCheck \/ ServerCleanup))

Spec == Init /\ [][Next]_vars /\ Fairness

------------------------------------------------------------------------------
(***************************************************************************)
(* Two errors harm the others, and after either nothing is promised: an    *)
(* interrupted wait, and an open that fails while somebody else has the    *)
(* segment attached.  Both remove a semaphore set that is in use, and the  *)
(* others go on without exclusion.  `broken` remembers that; the           *)
(* properties below hold as long as it is FALSE.  What a segment is that   *)
(* two processes then destroy and attach at once is not modelled.          *)
(***************************************************************************)
Critical == {"shm", "attached", "first", "secondary", "finish", "mix", "closing",
             "detached", "destroy", "destroyed"}

(***************************************************************************)
(* "If no concurrent access is allowed in the mixing routines, we need to  *)
(* protect the area via semaphore": no two processes open, close or mix at *)
(* the same time, and none does while the server takes everything down.    *)
(* The code does not keep it through the two errors above.                 *)
(***************************************************************************)
AlwaysExclusive ==
  /\ \A p, q \in Proc : pc[p] \in Critical /\ pc[q] \in Critical => p = q
  /\ server \in {"check", "cleanup"} => \A p \in Proc : pc[p] \notin Critical

(***************************************************************************)
(* The same as far as the code keeps it: through opens, closes, deaths,    *)
(* failed connections and opens that fail while nobody else is there, a    *)
(* set is removed only when nobody can be left inside.                     *)
(***************************************************************************)
MutualExclusion == ~broken => AlwaysExclusive

(***************************************************************************)
(* A client that is open uses a segment that is there, that holds the      *)
(* card's parameters and that it is attached to: nobody cleared it, taking *)
(* himself for the first, or destroyed it, taking himself for the last.    *)
(***************************************************************************)
OpenIsConfigured ==
  ~broken =>
    \A p \in Proc :
      pc[p] \in {"connect", "redown", "finish", "open", "mix"} =>
        shm.exists /\ shm.setup # "no" /\ p \in shm.nattch

(***************************************************************************)
(* All open clients meet at one semaphore set: however opens, closes and   *)
(* the server's exit interleave, none keeps the id of a removed one.       *)
(***************************************************************************)
OneSemaphore ==
  ~broken =>
    \A p \in Proc :
      pc[p] \in Critical \cup {"connect", "redown", "open"} => Valid(p)

(***************************************************************************)
(* When everybody has closed, failed or exited and the server has gone,    *)
(* neither the segment nor the semaphore set stays behind, unless a        *)
(* process died or a set was removed under others: then a later opener     *)
(* makes another set, which those who hold the first never remove.         *)
(***************************************************************************)
NothingLeft ==
  (\A p \in Proc : pc[p] = "closed") /\ server = "none" /\ crashes = 0 /\ ~broken =>
    ~sem /\ ~shm.exists

(***************************************************************************)
(* Whoever opens gets an answer, whatever the others do meanwhile: close,  *)
(* fail and take the semaphore away, or die with it; and although a client *)
(* waits for the server's card while the server waits for the semaphore.   *)
(***************************************************************************)
OpenReturns ==
  \A p \in Proc : pc[p] = "semget" ~> pc[p] \in {"closed", "open", "leaked"} \/ broken

(***************************************************************************)
(* The server goes once the clients have gone for good, dead ones          *)
(* included: it does not outlive the last attachment.                      *)
(***************************************************************************)
ServerLeaves ==
  <>[](\A p \in Proc : pc[p] = "closed") => <>[](server = "none" \/ broken)
===============================================================================
