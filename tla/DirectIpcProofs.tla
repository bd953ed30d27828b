--------------------------- MODULE DirectIpcProofs ---------------------------
(***************************************************************************)
(* The semaphore protocol of the direct plugins, for any number of         *)
(* processes, any number of deaths and any number of tries.                *)
(*                                                                         *)
(* Mutual exclusion is not inductive: a process whose semaphore set was    *)
(* removed passes its "down" without waiting.  So it rests on nobody being *)
(* left inside when a set is removed, which rests on the counts of the     *)
(* attachments that the first, the last and the server read, which are     *)
(* right because they are read under the semaphore.  A set that is removed *)
(* under others breaks all of it, so the invariant holds until `broken`.   *)
(***************************************************************************)
EXTENDS DirectIpc, FiniteSetTheorems, TLAPS

(* Who has the segment attached.                                           *)
Inside == {"attached", "first", "secondary", "connect", "leaked", "redown",
           "finish", "open", "mix", "closing"}

(* For whom the first has set the card up.                                 *)
SetUp == {"secondary", "connect", "leaked", "redown", "finish", "open", "mix", "closing"}

(* Whoever is in a critical section holds the semaphore.                   *)
Holder ==
  /\ \A p \in Proc : pc[p] \in Critical => lock = p /\ p \in valid
  /\ server \in {"check", "cleanup"} => lock = "server"

(* Whoever is inside, and nobody else, is counted, and knows the set that  *)
(* is there; a segment that is set up for a server has one.                *)
Counted ==
  /\ \A p \in Proc : pc[p] \in Inside => p \in shm.nattch /\ p \in valid /\ shm.exists
  /\ \A p \in Proc : p \in shm.nattch => pc[p] \in Inside
  /\ \A p \in Proc : pc[p] \in SetUp => shm.setup # "no"
  /\ \A p \in Proc : pc[p] \in {"connect", "leaked"} => shm.setup = "server"
  /\ server # "none" => "server" \in shm.nattch /\ "server" \in valid
  /\ "server" \in shm.nattch => server # "none"
  /\ shm.setup = "server" <=> server # "none"

(* Whoever takes himself for the only one is.                              *)
Alone ==
  /\ \A p \in Proc : pc[p] = "first" => shm.nattch = {p}
  /\ \A p \in Proc : pc[p] \in {"destroy", "destroyed"} => shm.nattch = {}
  /\ server = "cleanup" => shm.nattch = {"server"}

IInv == TypeOK /\ (~broken => Holder /\ Counted /\ Alone)

------------------------------------------------------------------------------
(* Initially nobody is anywhere.                                           *)
LEMMA InitIInv == Init => IInv
<1> SUFFICES ASSUME Init PROVE IInv
  OBVIOUS
<1> USE DirectIpcAssumption DEF DirectIpcAssumption, Init, NoSegment
<1>1. TypeOK
  <2>1. sem \in BOOLEAN /\ shm \in Segment
    BY Zenon DEF Segment
  <2>2. tries \in [Proc -> 0 .. MaxTries - 1] /\ crashes \in 0 .. MaxCrashes
    OBVIOUS
  <2>3. pc \in [Proc -> Place]
    BY DEF Place
  <2>4. broken \in BOOLEAN
    BY Zenon
  <2>5. QED
    BY <2>1, <2>2, <2>3, <2>4 DEF TypeOK
<1>2. Holder /\ Counted /\ Alone
  BY DEF Holder, Counted, Alone, Critical, Inside, SetUp
<1>3. QED
  BY <1>1, <1>2 DEF IInv

(* What the operations on the semaphore and on the segment do to the types. *)
LEMMA SemTypes ==
  ASSUME TypeOK, NEW p \in Proc \cup {"server"}, Down(p) \/ Up(p) \/ Discard(p)
  PROVE  /\ sem' \in BOOLEAN
         /\ lock' \in Proc \cup {NoProc, "server"}
         /\ valid' \in SUBSET (Proc \cup {"server"})
<1>1. sem' \in BOOLEAN
  BY Zenon DEF TypeOK, Down, Up, Discard
<1>2. QED
  BY <1>1 DEF TypeOK, Down, Up, Discard

(* The same for the segment's record.                                      *)
LEMMA SegmentTypes ==
  ASSUME TypeOK
  PROVE  /\ NoSegment \in Segment
         /\ \A p \in Proc \cup {"server"} : Detach(p) \in Segment
         /\ \A n \in SUBSET (Proc \cup {"server"}) : [shm EXCEPT !.nattch = n] \in Segment
         /\ \A n \in SUBSET (Proc \cup {"server"}) :
              [shm EXCEPT !.exists = TRUE, !.nattch = n] \in Segment
         /\ \A n \in SUBSET (Proc \cup {"server"}), u \in {"no", "direct", "server"} :
              /\ [shm EXCEPT !.setup = u] \in Segment
              /\ [shm EXCEPT !.setup = u, !.nattch = n] \in Segment
<1>1. NoSegment \in Segment
  BY Zenon DEF NoSegment, Segment
<1>2. QED
  BY <1>1 DEF Segment, TypeOK, Detach

(* Every step keeps the types.                                             *)
LEMMA NextTypeOK == TypeOK /\ [Next]_vars => TypeOK'
<1> SUFFICES ASSUME TypeOK, [Next]_vars PROVE TypeOK'
  OBVIOUS
<1> USE DirectIpcAssumption DEF TypeOK, Place, DirectIpcAssumption
<1>1. ASSUME NEW p \in Proc, Open(p) PROVE TypeOK'
  BY <1>1 DEF Open, Goes, ipc
<1>2. ASSUME NEW p \in Proc, SemGet(p) PROVE TypeOK'
  BY <1>2 DEF SemGet, Goes
<1>3. ASSUME NEW p \in Proc, SemDown(p) PROVE TypeOK'
  <2>1. CASE Valid(p)
    BY <1>3, <2>1, SemTypes DEF SemDown, DownFailed
  <2>2. CASE ~Valid(p) /\ tries[p] + 1 < MaxTries
    BY <1>3, <2>2, SemTypes DEF SemDown, DownFailed
  <2>3. CASE ~Valid(p) /\ ~(tries[p] + 1 < MaxTries)
    BY <1>3, <2>3, SemTypes DEF SemDown, DownFailed
  <2>4. QED
    BY <2>1, <2>2, <2>3
<1>4. ASSUME NEW p \in Proc, ShmAttach(p) PROVE TypeOK'
  <2>1. shm' \in Segment
    <3>1. shm.nattch \cup {p} \in SUBSET (Proc \cup {"server"})
      BY DEF Segment
    <3>2. QED
      BY <1>4, <3>1, SegmentTypes DEF ShmAttach
  <2>2. QED
    BY <1>4, <2>1 DEF ShmAttach, Goes, ipc
<1>5. ASSUME NEW p \in Proc, ShmCount(p) PROVE TypeOK'
  BY <1>5, SegmentTypes DEF ShmCount, Goes, ipc
<1>6. ASSUME NEW p \in Proc, SetupFirst(p) PROVE TypeOK'
  <2>1. shm' \in Segment
    <3>1. shm.nattch \cup {"server"} \in SUBSET (Proc \cup {"server"})
      BY DEF Segment
    <3>2. [shm EXCEPT !.setup = "direct"] \in Segment
      BY <3>1, SegmentTypes
    <3>3. [shm EXCEPT !.setup = "server", !.nattch = shm.nattch \cup {"server"}] \in Segment
      BY <3>1 DEF Segment
    <3>4. QED
      BY <1>6, <3>2, <3>3 DEF SetupFirst
  <2>2. QED
    BY <1>6, <2>1 DEF SetupFirst, Goes
<1>7. ASSUME NEW p \in Proc, SetupSecondary(p) PROVE TypeOK'
  BY <1>7, SemTypes DEF SetupSecondary, Goes, ipc
<1>8. ASSUME NEW p \in Proc, Connect(p) PROVE TypeOK'
  BY <1>8 DEF Connect, Goes, ipc
<1>9. ASSUME NEW p \in Proc, Redown(p) \/ MixBegin(p) \/ CloseBegin(p) PROVE TypeOK'
  BY <1>9, SemTypes DEF Redown, MixBegin, CloseBegin, Goes
<1>10. ASSUME NEW p \in Proc, Finish(p) \/ MixEnd(p) PROVE TypeOK'
  BY <1>10, SemTypes DEF Finish, MixEnd, Goes
<1>11. ASSUME NEW p \in Proc, OpenFails(p) PROVE TypeOK'
  <2>1. broken' \in BOOLEAN
    BY <1>11, Zenon DEF OpenFails
  <2>2. shm' \in Segment
    <3>1. Detach(p) \in Segment /\ shm \in Segment
      BY SegmentTypes
    <3>2. shm' = Detach(p) \/ shm' = shm
      BY <1>11 DEF OpenFails
    <3>3. QED
      BY <3>1, <3>2, Zenon
  <2>3. Discard(p) /\ pc' = [pc EXCEPT ![p] = "closed"] /\ UNCHANGED <<tries, server, crashes>>
    BY <1>11 DEF OpenFails
  <2>4. QED
    BY <2>1, <2>2, <2>3, SemTypes
<1>12. ASSUME NEW p \in Proc, CloseDetach(p) PROVE TypeOK'
  <2>1. shm' \in Segment
    BY <1>12 DEF CloseDetach, Segment
  <2>2. QED
    BY <1>12, <2>1 DEF CloseDetach, Goes, ipc
<1>13. ASSUME NEW p \in Proc, CloseDestroy(p) PROVE TypeOK'
  BY <1>13, SegmentTypes DEF CloseDestroy, Goes, ipc
<1>14. ASSUME NEW p \in Proc, CloseEnd(p) PROVE TypeOK'
  BY <1>14, SemTypes DEF CloseEnd, Goes
<1>15. ASSUME NEW p \in Proc, Crash(p) PROVE TypeOK'
  <2>1. shm' \in Segment
    BY <1>15 DEF Crash, Segment
  <2>2. QED
    BY <1>15, <2>1 DEF Crash
<1>16. CASE Server
  BY <1>16, SemTypes, SegmentTypes
  DEF Server, ServerTimeout, ServerDown, ServerCheck, ServerCleanup, ipc
<1>17. CASE UNCHANGED vars
  BY <1>17 DEF vars
<1>18. ASSUME NEW p \in Proc, SemInterrupted(p) PROVE TypeOK'
  <2>1. CASE tries[p] + 1 < MaxTries
    BY <1>18, <2>1, SemTypes DEF SemInterrupted, DownFailed
  <2>2. CASE ~(tries[p] + 1 < MaxTries)
    BY <1>18, <2>2, SemTypes DEF SemInterrupted, DownFailed
  <2>3. QED
    BY <2>1, <2>2
<1>19. ASSUME NEW p \in Proc, SemGetFails(p) \/ ConnectFails(p) PROVE TypeOK'
  BY <1>19 DEF SemGetFails, ConnectFails, Goes, ipc
<1>20. ASSUME NEW p \in Proc, Exit(p) PROVE TypeOK'
  <2>1. shm' \in Segment
    BY <1>20 DEF Exit, Segment
  <2>2. QED
    BY <1>20, <2>1 DEF Exit, Goes, ipc
<1>21. QED
  BY <1>1, <1>2, <1>3, <1>4, <1>5, <1>6, <1>7, <1>8, <1>9, <1>10, <1>11, <1>12, <1>13,
     <1>14, <1>15, <1>16, <1>17, <1>18, <1>19, <1>20 DEF Next, Steps, Waits

(* What is broken stays so.                                                *)
LEMMA BrokenStays == [Next]_vars /\ broken => broken'
  BY DEF Next, Steps, Waits, Server, Open, SemGet, SemGetFails, SemDown, SemInterrupted,
     DownFailed, ShmAttach, ShmCount, SetupFirst, SetupSecondary, Connect, ConnectFails,
     Exit, Redown, Finish, OpenFails, MixBegin, MixEnd, CloseBegin, CloseDetach,
     CloseDestroy, CloseEnd, Crash, ServerTimeout, ServerDown, ServerCheck,
     ServerCleanup, vars

------------------------------------------------------------------------------
(* Every step keeps the rest of the invariant.                             *)
LEMMA NextSafe == IInv /\ [Next]_vars /\ ~broken' => (Holder /\ Counted /\ Alone)'
<1> SUFFICES ASSUME IInv, [Next]_vars, ~broken' PROVE (Holder /\ Counted /\ Alone)'
  OBVIOUS
<1> DEFINE Safe == Holder /\ Counted /\ Alone
<1>0. /\ pc \in [Proc -> Place] /\ shm \in Segment /\ Safe
      /\ valid \in SUBSET (Proc \cup {"server"})
  BY BrokenStays DEF IInv, TypeOK
<1> USE <1>0, DirectIpcAssumption
    DEF DirectIpcAssumption, Segment, Holder, Counted, Alone, Critical, Inside, SetUp, Valid
<1>1. ASSUME NEW p \in Proc, Open(p) PROVE Safe'
  BY <1>1 DEF Open, Goes, ipc
<1>2. ASSUME NEW p \in Proc, SemGet(p) PROVE Safe'
  BY <1>2 DEF SemGet, Goes
<1>3. ASSUME NEW p \in Proc, SemDown(p) PROVE Safe'
  <2>1. CASE Valid(p)
    BY <1>3, <2>1 DEF SemDown, Down, CanDown
  <2>2. CASE ~Valid(p)
    BY <1>3, <2>2 DEF SemDown, DownFailed, Discard
  <2>3. QED
    BY <2>1, <2>2
<1>4. ASSUME NEW p \in Proc, ShmAttach(p) PROVE Safe'
  BY <1>4 DEF ShmAttach, Goes, ipc
<1>5. ASSUME NEW p \in Proc, ShmCount(p) PROVE Safe'
  BY <1>5 DEF ShmCount, Goes, ipc
<1>6. ASSUME NEW p \in Proc, SetupFirst(p) PROVE Safe'
  <2>1. /\ pc[p] = "first" /\ lock = p /\ p \in valid /\ shm.nattch = {p} /\ shm.exists
        /\ server = "none" /\ \A q \in Proc \ {p} : pc[q] \notin Critical \cup Inside
    BY <1>6 DEF SetupFirst, Goes
  <2>2. /\ \A q \in Proc : pc'[q] = IF q = p THEN "finish" ELSE pc[q]
        /\ lock' = lock /\ valid \subseteq valid'
    BY <1>6 DEF SetupFirst, Goes
  <2>3. /\ p \in shm'.nattch /\ shm'.exists /\ shm'.setup # "no"
        /\ server' \in {"none", "poll"}
        /\ server' # "none" => "server" \in shm'.nattch /\ "server" \in valid'
        /\ shm'.nattch \subseteq {p, "server"}
        /\ "server" \in shm'.nattch => server' # "none"
        /\ shm'.setup = "server" <=> server' # "none"
    <3>1. CASE shm' = [shm EXCEPT !.setup = "direct"] /\ UNCHANGED <<valid, server>>
      BY <2>1, <3>1
    <3>2. CASE /\ shm' = [shm EXCEPT !.setup = "server", !.nattch = shm.nattch \cup {"server"}]
               /\ valid' = (IF Valid(p) THEN valid \cup {"server"} ELSE valid)
               /\ server' = "poll"
      BY <2>1, <3>2
    <3>3. QED
      BY <1>6, <3>1, <3>2 DEF SetupFirst
  <2>4. Holder'
    BY <2>1, <2>2, <2>3
  <2>5. Counted'
    BY <2>1, <2>2, <2>3
  <2>6. Alone'
    BY <2>1, <2>2, <2>3
  <2>7. QED
    BY <2>4, <2>5, <2>6
<1>7. ASSUME NEW p \in Proc, SetupSecondary(p) PROVE Safe'
  BY <1>7 DEF SetupSecondary, Goes, Up, ipc
<1>8. ASSUME NEW p \in Proc, Connect(p) PROVE Safe'
  BY <1>8 DEF Connect, Goes, ipc
<1>9. ASSUME NEW p \in Proc, Redown(p) \/ MixBegin(p) \/ CloseBegin(p) PROVE Safe'
  BY <1>9 DEF Redown, MixBegin, CloseBegin, Goes, Down, CanDown
<1>10. ASSUME NEW p \in Proc, Finish(p) \/ MixEnd(p) PROVE Safe'
  BY <1>10 DEF Finish, MixEnd, Goes, Up
<1>11. ASSUME NEW p \in Proc, OpenFails(p) PROVE Safe'
  <2>1. /\ shm.nattch \subseteq {p} /\ pc[p] \in Critical /\ server' = server
        /\ pc' = [pc EXCEPT ![p] = "closed"]
        /\ shm' = Detach(p) \/ (pc[p] = "shm" /\ shm' = shm)
    BY <1>11 DEF OpenFails
  <2>2. \A q \in Proc \ {p} : pc[q] \notin Critical
    BY <2>1
  <2>3. \A q \in Proc \ {p} : pc[q] \notin Inside
    BY <2>1
  <2>4. server = "none" /\ shm.setup # "server"
    BY <2>1
  <2>5. shm'.nattch = {} /\ shm'.setup # "server"
    <3>1. CASE shm' = Detach(p)
      BY <2>1, <3>1 DEF Detach, NoSegment
    <3>2. CASE pc[p] = "shm" /\ shm' = shm
      BY <2>1, <2>4, <3>2
    <3>3. QED
      BY <2>1, <3>1, <3>2
  <2>6. \A q \in Proc : pc'[q] \notin Critical \cup Inside \cup SetUp
    BY <2>1, <2>2, <2>3
  <2>7. QED
    BY <2>1, <2>4, <2>5, <2>6
<1>12. ASSUME NEW p \in Proc, CloseDetach(p) PROVE Safe'
  <2>1. /\ pc[p] = "closing" /\ shm' = [shm EXCEPT !.nattch = shm.nattch \ {p}]
        /\ pc' = [pc EXCEPT ![p] = IF shm'.nattch = {} THEN "destroy" ELSE "detached"]
        /\ UNCHANGED <<sem, lock, valid, server>>
    BY <1>12 DEF CloseDetach, Goes, ipc
  <2>2. shm'.nattch = shm.nattch \ {p} /\ shm'.exists = shm.exists /\ shm'.setup = shm.setup
    BY <2>1
  <2>3. \A q \in Proc \ {p} : pc[q] \notin Critical /\ pc'[q] = pc[q]
    BY <2>1
  <2>4. Holder'
    BY <2>1, <2>3
  <2>5. Counted'
    BY <2>1, <2>2, <2>3
  <2>6. Alone'
    BY <2>1, <2>2, <2>3
  <2>7. QED
    BY <2>4, <2>5, <2>6
<1>13. ASSUME NEW p \in Proc, CloseDestroy(p) PROVE Safe'
  BY <1>13 DEF CloseDestroy, Goes, NoSegment, ipc
<1>14. ASSUME NEW p \in Proc, CloseEnd(p) PROVE Safe'
  BY <1>14 DEF CloseEnd, Goes, Up, Discard
<1>15. ASSUME NEW p \in Proc, Crash(p) PROVE Safe'
  BY <1>15 DEF Crash
<1>16. CASE ServerTimeout \/ ServerDown
  BY <1>16 DEF ServerTimeout, ServerDown, Down, CanDown, ipc
<1>17. CASE ServerCheck
  <2>1. LastUser /\ server = "check" => shm.nattch = {"server"}
    <3>1. IsFiniteSet(Proc \cup {"server"})
      BY FS_AddElement
    <3>2. IsFiniteSet(shm.nattch)
      BY <3>1, FS_Subset
    <3>3. QED
      BY <3>2, FS_Singleton DEF LastUser
  <2>2. QED
    BY <1>17, <2>1 DEF ServerCheck, Up, ipc
<1>18. CASE ServerCleanup
  BY <1>18 DEF ServerCleanup, Discard, Detach, NoSegment
<1>19. CASE UNCHANGED vars
  BY <1>19 DEF vars
<1>20. ASSUME NEW p \in Proc, SemInterrupted(p) PROVE FALSE
  BY <1>20 DEF SemInterrupted
<1>21. ASSUME NEW p \in Proc, SemGetFails(p) \/ ConnectFails(p) PROVE Safe'
  BY <1>21 DEF SemGetFails, ConnectFails, Goes, ipc
<1>22. ASSUME NEW p \in Proc, Exit(p) PROVE Safe'
  BY <1>22 DEF Exit, Goes, ipc
<1>23. QED
  BY <1>1, <1>2, <1>3, <1>4, <1>5, <1>6, <1>7, <1>8, <1>9, <1>10, <1>11, <1>12, <1>13,
     <1>14, <1>15, <1>16, <1>17, <1>18, <1>19, <1>20, <1>21, <1>22
  DEF Next, Steps, Waits, Server

(* The invariant holds in every reachable state.                           *)
THEOREM SpecIInv == Spec => []IInv
<1>1. IInv /\ [Next]_vars => IInv'
  BY NextTypeOK, NextSafe DEF IInv
<1>2. QED
  BY InitIInv, <1>1, PTL DEF Spec

(***************************************************************************)
(* Types, for every set of processes.                                      *)
(***************************************************************************)
THEOREM SpecTypeOK == Spec => []TypeOK
<1>1. IInv => TypeOK
  BY DEF IInv
<1>2. QED
  BY <1>1, SpecIInv, PTL

(***************************************************************************)
(* However many processes open, mix, close and die, at most one is in a    *)
(* section that the semaphore protects, and none while the server looks    *)
(* whether it is the last or takes the card down.                          *)
(***************************************************************************)
THEOREM SpecMutualExclusion == Spec => []MutualExclusion
<1>1. IInv => MutualExclusion
  BY DirectIpcAssumption DEF DirectIpcAssumption, IInv, Holder, MutualExclusion, AlwaysExclusive
<1>2. QED
  BY <1>1, SpecIInv, PTL

(***************************************************************************)
(* An open client's segment is there, set up and counts it, for every      *)
(* interleaving of opens, closes, deaths and the server's exit.            *)
(***************************************************************************)
THEOREM SpecOpenIsConfigured == Spec => []OpenIsConfigured
<1>1. IInv => OpenIsConfigured
  BY DEF IInv, Counted, Inside, SetUp, OpenIsConfigured
<1>2. QED
  BY <1>1, SpecIInv, PTL

(***************************************************************************)
(* Nobody who uses the card keeps the id of a semaphore set that somebody  *)
(* else has removed.                                                       *)
(***************************************************************************)
THEOREM SpecOneSemaphore == Spec => []OneSemaphore
<1>1. IInv => OneSemaphore
  BY DEF IInv, Holder, Counted, Critical, Inside, OneSemaphore, Valid
<1>2. QED
  BY <1>1, SpecIInv, PTL

------------------------------------------------------------------------------
(* That nothing stays behind is a matter of who is still to clean up: as   *)
(* long as nobody has died and nothing is broken, a segment without        *)
(* attachments has somebody about to destroy it, and a set that is there   *)
(* has somebody who knows its id, a process that is not done or the        *)
(* server.                                                                 *)
Attended ==
  shm.exists /\ shm.nattch = {} => \E p \in Proc : pc[p] = "destroy"

(* Who leaves without destroying leaves somebody attached; nobody detaches *)
(* in between, since that takes the semaphore he still holds.              *)
Followed == \A p \in Proc : pc[p] = "detached" => shm.nattch # {}

Known ==
  sem => \/ server # "none"
         \/ \E p \in Proc : p \in valid /\ pc[p] \notin {"closed", "semget"}

Tidy == crashes = 0 /\ ~broken => Attended /\ Followed /\ Known

(* Initially there is nothing to clean up.                                 *)
LEMMA InitTidy == Init => Tidy
  BY DirectIpcAssumption
  DEF DirectIpcAssumption, Init, NoSegment, Tidy, Attended, Followed, Known

(* Every step keeps it, a death excepted.                                  *)
LEMMA NextTidy == IInv /\ Tidy /\ [Next]_vars => Tidy'
<1> SUFFICES ASSUME IInv, Tidy, [Next]_vars, crashes' = 0, ~broken'
             PROVE  (Attended /\ Followed /\ Known)'
  BY DEF Tidy
<1>0. /\ pc \in [Proc -> Place] /\ shm \in Segment /\ Holder /\ Counted /\ Alone
      /\ valid \in SUBSET (Proc \cup {"server"}) /\ crashes \in Nat
      /\ sem \in BOOLEAN /\ ~broken
  BY BrokenStays, DirectIpcAssumption DEF DirectIpcAssumption, IInv, TypeOK
<1> DEFINE Goal == (Attended /\ Followed /\ Known)'
<1>1. ASSUME NEW p \in Proc, Crash(p) PROVE FALSE
  BY <1>0, <1>1 DEF Crash
<1>2. crashes = 0 \/ UNCHANGED crashes
  BY <1>1 DEF Next, Steps, Waits, Server, Open, SemGet, SemGetFails, SemDown,
     SemInterrupted, DownFailed, ShmAttach, ShmCount, SetupFirst, SetupSecondary, Connect,
     ConnectFails, Exit, Redown, Finish, OpenFails, MixBegin, MixEnd, CloseBegin,
     CloseDetach, CloseDestroy, CloseEnd, ServerTimeout, ServerDown, ServerCheck,
     ServerCleanup, vars
<1>3. Attended /\ Followed /\ Known
  BY <1>0, <1>2 DEF Tidy
<1> USE <1>0, <1>3, DirectIpcAssumption
    DEF DirectIpcAssumption, Segment, Place, Attended, Followed, Known, Holder, Counted,
        Alone, Critical, Inside
<1>4. ASSUME NEW p \in Proc, Open(p) PROVE Goal
  BY <1>4 DEF Open, Goes, ipc
<1>5. ASSUME NEW p \in Proc, SemGet(p) PROVE Goal
  BY <1>5 DEF SemGet, Goes
<1>6. ASSUME NEW p \in Proc, SemDown(p) PROVE Goal
  BY <1>6 DEF SemDown, Down, DownFailed, Discard, Valid
<1>7. ASSUME NEW p \in Proc, ShmAttach(p) PROVE Goal
  BY <1>7 DEF ShmAttach, Goes, ipc
<1>8. ASSUME NEW p \in Proc, ShmCount(p) PROVE Goal
  BY <1>8 DEF ShmCount, Goes, ipc
<1>9. ASSUME NEW p \in Proc, SetupFirst(p) PROVE Goal
  <2>1. /\ pc[p] = "first" /\ p \in valid /\ shm.nattch = {p} /\ pc' = [pc EXCEPT ![p] = "finish"]
        /\ valid \subseteq valid' /\ UNCHANGED <<sem, crashes>>
    BY <1>9 DEF SetupFirst, Goes, Valid
  <2>2. /\ p \in shm'.nattch /\ shm'.nattch \subseteq {p, "server"}
        /\ "server" \in shm'.nattch => server' # "none"
    <3>1. CASE shm' = [shm EXCEPT !.setup = "direct"]
      BY <2>1, <3>1
    <3>2. CASE /\ shm' = [shm EXCEPT !.setup = "server", !.nattch = shm.nattch \cup {"server"}]
               /\ server' = "poll"
      BY <2>1, <3>2
    <3>3. QED
      BY <1>9, <3>1, <3>2 DEF SetupFirst
  <2>3. p \in valid' /\ pc'[p] = "finish"
    BY <2>1
  <2>4. Attended' /\ Followed'
    BY <2>2, <2>3
  <2>5. Known'
    BY <2>3
  <2>6. QED
    BY <2>4, <2>5
<1>10. ASSUME NEW p \in Proc, SetupSecondary(p) PROVE Goal
  BY <1>10 DEF SetupSecondary, Goes, Up, ipc
<1>11. ASSUME NEW p \in Proc, Connect(p) PROVE Goal
  BY <1>11 DEF Connect, Goes, ipc
<1>12. ASSUME NEW p \in Proc, Redown(p) \/ MixBegin(p) \/ CloseBegin(p) PROVE Goal
  BY <1>12 DEF Redown, MixBegin, CloseBegin, Goes, Down
<1>13. ASSUME NEW p \in Proc, Finish(p) \/ MixEnd(p) PROVE Goal
  BY <1>13 DEF Finish, MixEnd, Goes, Up
<1>14. ASSUME NEW p \in Proc, OpenFails(p) PROVE Goal
  <2>1. p \in valid /\ shm.nattch \subseteq {p}
    BY <1>14 DEF OpenFails
  <2>2. ~sem'
    BY <1>14, <2>1, Zenon DEF OpenFails, Discard, Valid
  <2>3. pc' = [pc EXCEPT ![p] = "closed"] /\ pc[p] \in Critical
    BY <1>14 DEF OpenFails
  <2>4. \A q \in Proc : pc'[q] # "detached"
    BY <2>3
  <2>5. shm' = NoSegment \/ (pc[p] = "shm" /\ shm' = shm)
    BY <1>14, <2>1 DEF OpenFails, Detach
  <2>6. shm'.exists /\ shm'.nattch = {} => FALSE
    <3>1. CASE shm' = NoSegment
      BY <3>1 DEF NoSegment
    <3>2. CASE pc[p] = "shm" /\ shm' = shm
      BY <2>3, <3>2
    <3>3. QED
      BY <2>5, <3>1, <3>2
  <2>7. shm'.nattch = {}
    BY <2>1, <2>3, <2>5 DEF NoSegment
  <2>8. QED
    BY <2>2, <2>4, <2>6, <2>7
<1>15. ASSUME NEW p \in Proc, CloseDetach(p) PROVE Goal
  BY <1>15 DEF CloseDetach, Goes, ipc
<1>16. ASSUME NEW p \in Proc, CloseDestroy(p) PROVE Goal
  BY <1>16 DEF CloseDestroy, Goes, NoSegment, ipc
<1>17. ASSUME NEW p \in Proc, CloseEnd(p) PROVE Goal
  BY <1>17 DEF CloseEnd, Goes, Up, Discard, Valid
<1>18. CASE ServerTimeout \/ ServerDown \/ ServerCheck
  BY <1>18 DEF ServerTimeout, ServerDown, ServerCheck, Down, Up, ipc
<1>19. CASE ServerCleanup
  <2>1. lock = "server" /\ "server" \in valid /\ shm.nattch = {"server"}
    BY <1>19 DEF ServerCleanup
  <2>2. ~sem' /\ shm' = NoSegment /\ pc' = pc
    <3>1. ~sem'
      BY <1>19, <2>1, Zenon DEF ServerCleanup, Discard, Valid
    <3>2. shm' = NoSegment
      BY <1>19, <2>1 DEF ServerCleanup, Detach
    <3>3. QED
      BY <1>19, <3>1, <3>2 DEF ServerCleanup
  <2>3. \A q \in Proc : pc'[q] # "detached"
    BY <2>1, <2>2
  <2>4. QED
    BY <2>2, <2>3 DEF NoSegment
<1>20. CASE UNCHANGED vars
  BY <1>20 DEF vars
<1>21. ASSUME NEW p \in Proc, SemInterrupted(p) PROVE FALSE
  BY <1>21 DEF SemInterrupted
<1>22. ASSUME NEW p \in Proc, SemGetFails(p) \/ ConnectFails(p) PROVE Goal
  BY <1>22 DEF SemGetFails, ConnectFails, Goes, ipc
<1>23. ASSUME NEW p \in Proc, Exit(p) PROVE Goal
  <2>1. pc[p] = "leaked" /\ server # "none" /\ "server" \in shm.nattch
    BY <1>23 DEF Exit, Goes
  <2>2. /\ "server" \in shm'.nattch /\ UNCHANGED <<server, sem, valid>>
        /\ shm'.nattch = shm.nattch \ {p} /\ pc' = [pc EXCEPT ![p] = "closed"]
    BY <1>23, <2>1 DEF Exit, Goes, ipc
  <2>3. QED
    BY <2>1, <2>2
<1>24. QED
  BY <1>1, <1>4, <1>5, <1>6, <1>7, <1>8, <1>9, <1>10, <1>11, <1>12, <1>13, <1>14, <1>15,
     <1>16, <1>17, <1>18, <1>19, <1>20, <1>21, <1>22, <1>23 DEF Next, Steps, Waits, Server

(***************************************************************************)
(* When everybody has closed, failed to open or exited, and the server has *)
(* gone, neither the segment nor the semaphore set stays behind, unless a  *)
(* process died or an error removed a set under others: whoever comes next *)
(* finds a clean start.                                                    *)
(***************************************************************************)
THEOREM SpecNothingLeft == Spec => []NothingLeft
<1>1. IInv /\ Tidy => NothingLeft
  <2> SUFFICES ASSUME IInv, Tidy, \A p \in Proc : pc[p] = "closed", server = "none", crashes = 0,
                      ~broken
               PROVE  ~sem /\ ~shm.exists
    BY DEF NothingLeft
  <2>1. ~sem
    BY DEF Tidy, Known
  <2>2. shm.nattch = {}
    BY DEF Inside, IInv, Counted, TypeOK, Segment
  <2>3. QED
    BY <2>1, <2>2 DEF Tidy, Attended
<1>2. QED
  BY <1>1, SpecIInv, InitTidy, NextTidy, PTL DEF Spec

===============================================================================
