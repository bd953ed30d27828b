------------------------------- MODULE DmixProofs ------------------------------
(***************************************************************************)
(* What holds of a client of the mixing plugin for every size of the       *)
(* rings, every period, threshold and word, and every pace of the slave.   *)
(***************************************************************************)
EXTENDS Dmix, PcmRingProofs

(* What the assumptions say of the numbers.                                *)
LEMMA Sizes ==
  /\ Boundary \in Nat \ {0} /\ BufferSize \in Nat \ {0} /\ BufferSize < Boundary
  /\ SlaveBoundary \in Nat \ {0} /\ SlaveSize \in Nat \ {0} /\ SlaveSize <= SlaveBoundary
  /\ Period \in Nat \ {0} /\ 2 * Period <= SlaveSize
  /\ Word \in Nat \ {0}
  /\ 0 \in Pointer
  BY RingAssumption, DmixAssumption DEF RingAssumption, DmixAssumption, Pointer

(* Thresholds are numbers, and taking one down to the ring leaves one.     *)
LEMMA ThresholdNumbers ==
  /\ Thresholds \subseteq Nat
  /\ StopThresholds \subseteq Thresholds
  /\ \A x \in Thresholds : Min({x, BufferSize}) \in Thresholds
<1>1. StopThresholds \subseteq Nat /\ BufferSize \in Nat
  BY DmixAssumption, Sizes DEF DmixAssumption
<1>2. \A x \in Nat : Min({x, BufferSize}) = IF x <= BufferSize THEN x ELSE BufferSize
  <2> TAKE x \in Nat
  <2>1. x \in Int /\ BufferSize \in Int
    BY <1>1
  <2>2. QED
    BY <2>1, MinOfTwo
<1>3. Thresholds \subseteq Nat
  BY <1>1, <1>2 DEF Thresholds
<1>4. ASSUME NEW x \in Thresholds
      PROVE  Min({x, BufferSize}) \in Thresholds
  <2>1. CASE x \in StopThresholds
    BY <2>1 DEF Thresholds
  <2>2. CASE x \notin StopThresholds
    <3>1. PICK y \in StopThresholds : x = Min({y, BufferSize})
      BY <2>2 DEF Thresholds
    <3>2. y \in Nat /\ x \in Nat
      BY <1>1, <1>3, <1>4
    <3>3. x <= BufferSize
      BY <1>1, <1>2, <3>1, <3>2
    <3>4. Min({x, BufferSize}) = x
      BY <1>2, <3>2, <3>3
    <3>5. QED
      BY <1>4, <3>4
  <2>3. QED
    BY <2>1, <2>2
<1>5. QED
  BY <1>3, <1>4 DEF Thresholds

(* The fields of a client.                                                 *)
LEMMA ClientFields ==
  ASSUME NEW d \in Client
  PROVE  /\ d.state \in ClientState
         /\ d.appl_ptr \in Pointer /\ d.appl_ptr \in Int
         /\ d.last_appl_ptr \in Pointer /\ d.last_appl_ptr \in Int
         /\ d.hw_ptr \in Pointer /\ d.hw_ptr \in Int
         /\ d.slave_appl_ptr \in 0 .. SlaveBoundary /\ d.slave_appl_ptr \in Int
         /\ d.slave_hw_ptr \in 0 .. SlaveBoundary - 1 /\ d.slave_hw_ptr \in Int
         /\ d.stop_threshold \in Thresholds
<1>1. /\ d.state \in ClientState
      /\ d.appl_ptr \in Pointer /\ d.last_appl_ptr \in Pointer /\ d.hw_ptr \in Pointer
      /\ d.slave_appl_ptr \in 0 .. SlaveBoundary /\ d.slave_hw_ptr \in 0 .. SlaveBoundary - 1
      /\ d.stop_threshold \in Thresholds
  BY DEF Client
<1>2. \A x \in Pointer : x \in Int
  BY Sizes DEF Pointer
<1>3. \A x \in 0 .. SlaveBoundary : x \in Int
  BY Sizes
<1>4. \A x \in 0 .. SlaveBoundary - 1 : x \in Int
  BY Sizes
<1>5. QED
  BY <1>1, <1>2, <1>3, <1>4

(* An assignment of the right type leaves a client.                        *)
LEMMA ClientExcept ==
  ASSUME NEW d \in Client
  PROVE  /\ \A x \in ClientState : [d EXCEPT !.state = x] \in Client
         /\ \A x \in Pointer : [d EXCEPT !.appl_ptr = x] \in Client
         /\ \A x \in Thresholds : [d EXCEPT !.stop_threshold = x] \in Client
         /\ \A x \in Pointer, y \in 0 .. SlaveBoundary :
              [d EXCEPT !.last_appl_ptr = x, !.slave_appl_ptr = y] \in Client
         /\ \A x \in 0 .. SlaveBoundary - 1, y \in Pointer :
              [d EXCEPT !.slave_hw_ptr = x, !.hw_ptr = y] \in Client
         /\ \A x \in 0 .. SlaveBoundary - 1, y \in 0 .. SlaveBoundary :
              [d EXCEPT !.slave_hw_ptr = x, !.slave_appl_ptr = y] \in Client
  BY DEF Client

(* A remainder is below what it is a remainder of.                         *)
LEMMA Remainders ==
  ASSUME NEW a \in Int
  PROVE  /\ a % Boundary \in Pointer /\ a % Boundary \in Int
         /\ a % Word \in Int /\ a % SlaveBoundary \in Int /\ a % Period \in Int
         /\ a % SlaveBoundary \in 0 .. SlaveBoundary - 1
         /\ a % SlaveBoundary \in 0 .. SlaveBoundary
         /\ a % Period \in 0 .. Period - 1
<1>1. /\ a % Boundary \in 0 .. Boundary - 1
      /\ a % Word \in 0 .. Word - 1
      /\ a % SlaveBoundary \in 0 .. SlaveBoundary - 1
      /\ a % Period \in 0 .. Period - 1
  BY Sizes, DivMod
<1>2. QED
  BY <1>1, Sizes DEF Pointer

(* A period goes into the ring, so it is less than the boundary.           *)
LEMMA PeriodFits == Period <= BufferSize
<1> DEFINE k == BufferSize \div Period
<1>1. /\ BufferSize \in Nat \ {0} /\ Period \in Nat \ {0} /\ BufferSize % Period = 0
      /\ BufferSize < Boundary /\ Boundary \in Nat
  BY Sizes, DmixAssumption DEF DmixAssumption
<1>2. k \in Int /\ BufferSize = Period * k + (BufferSize % Period)
  BY <1>1, DivMod
<1> HIDE DEF k
<1>3. Period * k > 0 /\ Period * k = BufferSize
  BY <1>1, <1>2
<1>4. k >= 1
  BY <1>1, <1>2, <1>3
<1>5. Period * k >= Period
  BY <1>1, <1>2, <1>4
<1>6. QED
  BY <1>1, <1>3, <1>5

(* A period fits below the boundary.                                       *)
LEMMA PeriodBelow == Period < Boundary
  BY PeriodFits, Sizes

------------------------------------------------------------------------------
(* Types.                                                                  *)

(* Looking at the slave leaves a client.                                   *)
LEMMA SyncPtrType ==
  ASSUME TypeOK, NEW d \in Client
  PROVE  Elapsed(d) \in Int /\ MovedHw(d) \in Client /\ SyncPtr(d) \in Client
<1>1. slave_ptr \in 0 .. SlaveBoundary - 1 /\ slave_ptr \in Int
  BY DEF TypeOK
<1>2. Elapsed(d) \in Int
  <2>1. slave_ptr - d.slave_hw_ptr \in Int
    BY <1>1, ClientFields
  <2>2. (slave_ptr - d.slave_hw_ptr) % SlaveBoundary \in 0 .. SlaveBoundary
    BY <2>1, Remainders
  <2>3. QED
    BY <2>2, Sizes DEF Elapsed
<1>3. MovedHw(d) \in Client
  <2> DEFINE y == IF Follows(d) THEN (d.hw_ptr + Elapsed(d)) % Boundary ELSE d.hw_ptr
  <2>1. y \in Pointer
    <3>1. d.hw_ptr + Elapsed(d) \in Int
      BY <1>2, ClientFields
    <3>2. (d.hw_ptr + Elapsed(d)) % Boundary \in Pointer
      BY <3>1, Remainders
    <3>3. QED
      BY <3>2, ClientFields
  <2>2. MovedHw(d) = [d EXCEPT !.slave_hw_ptr = slave_ptr, !.hw_ptr = y]
    BY DEF MovedHw
  <2> HIDE DEF y
  <2>3. QED
    BY <1>1, <2>1, <2>2 DEF Client
<1>4. \A e \in Client : \A x \in ClientState : [e EXCEPT !.state = x] \in Client
  BY ClientExcept
<1>5. SyncPtr(d) \in Client
  BY <1>3, <1>4 DEF SyncPtr, ClientState
<1>6. QED
  BY <1>2, <1>3, <1>5

(* Mixing, whatever is taken for the number of frames, leaves a client.    *)
LEMMA AdvanceType ==
  ASSUME NEW d \in Client, NEW n \in Int
  PROVE  Advance(d, n) \in Client
<1>1. /\ ((d.last_appl_ptr + n) % Word) % Boundary \in Pointer
      /\ ((d.slave_appl_ptr + n) % Word) % SlaveBoundary \in 0 .. SlaveBoundary
  <2>1. d.last_appl_ptr + n \in Int /\ d.slave_appl_ptr + n \in Int
    BY ClientFields
  <2>2. (d.last_appl_ptr + n) % Word \in Int /\ (d.slave_appl_ptr + n) % Word \in Int
    BY <2>1, Remainders
  <2>3. QED
    BY <2>2, Remainders
<1>2. QED
  BY <1>1, ClientExcept DEF Advance

(* The three differences that a round of mixing is cut by are numbers.     *)
LEMMA MixedTypes ==
  ASSUME NEW d \in Client
  PROVE  Unmixed(d) \in Int /\ SlaveQueued(d) \in Int /\ SlaveRoom(d) \in Int
<1>1. Unmixed(d) \in Int
  <2> DEFINE size == (d.appl_ptr - d.last_appl_ptr) % Word
  <2>1. d.appl_ptr - d.last_appl_ptr \in Int
    BY ClientFields
  <2>2. size \in Int
    BY <2>1, Remainders
  <2>3. Boundary - size \in Int
    BY <2>2, Sizes
  <2>4. (Boundary - size) % Word \in Int
    BY <2>3, Remainders
  <2>5. QED
    BY <2>2, <2>4 DEF Unmixed
<1>2. SlaveQueued(d) \in Int
  BY ClientFields, Sizes DEF SlaveQueued
<1>3. SlaveRoom(d) \in Int
  <2> DEFINE free == d.slave_hw_ptr - (d.slave_hw_ptr % Period) + SlaveSize
             end  == IF free >= SlaveBoundary THEN free - SlaveBoundary ELSE free
  <2>1. d.slave_hw_ptr % Period \in Int
    BY ClientFields, Remainders, Sizes
  <2>2. free \in Int
    BY <2>1, ClientFields, Sizes
  <2>3. end \in Int
    BY <2>2, Sizes
  <2> HIDE DEF free, end
  <2>4. (IF end < d.slave_appl_ptr THEN end + (SlaveBoundary - d.slave_appl_ptr)
                                   ELSE end - d.slave_appl_ptr) \in Int
    BY <2>3, ClientFields, Sizes
  <2>5. QED
    BY <2>4 DEF SlaveRoom, free, end
<1>4. QED
  BY <1>1, <1>2, <1>3

(* snd_pcm_dmix_sync_area leaves a client; all it does is to move          *)
(* last_appl_ptr and slave_appl_ptr together, once to skip and once to     *)
(* mix.                                                                    *)
LEMMA SyncAreaType ==
  ASSUME NEW d \in Client
  PROVE  /\ SkipMissed(d) \in Client /\ SyncArea(d) \in Client
         /\ \E n \in Int : SkipMissed(d) = Advance(d, n) \/ SkipMissed(d) = d
         /\ \E n \in Int : SyncArea(d) = Advance(SkipMissed(d), n) \/ SyncArea(d) = d
<1>1. \E n \in Int : SkipMissed(d) = Advance(d, n) \/ SkipMissed(d) = d
  <2> DEFINE m == Min({(SlaveSize - SlaveQueued(d)) % Word, Unmixed(d)})
  <2>1. (SlaveSize - SlaveQueued(d)) % Word \in Int /\ Unmixed(d) \in Int
    BY MixedTypes, Remainders, Sizes
  <2>2. m \in Int
    BY <2>1, MinOfTwo
  <2>3. SkipMissed(d) = Advance(d, m) \/ SkipMissed(d) = d
    BY DEF SkipMissed
  <2> HIDE DEF m
  <2>4. QED
    BY <2>2, <2>3
<1>2. SkipMissed(d) \in Client
  BY <1>1, AdvanceType
<1>3. \E n \in Int : SyncArea(d) = Advance(SkipMissed(d), n) \/ SyncArea(d) = d
  <2> DEFINE s == SkipMissed(d)
             m == Min({Unmixed(s), SlaveRoom(s)})
  <2>1. Unmixed(s) \in Int /\ SlaveRoom(s) \in Int
    BY <1>2, MixedTypes
  <2>2. m \in Int
    BY <2>1, MinOfTwo
  <2>3. SyncArea(d) = Advance(s, m) \/ SyncArea(d) = d
    BY DEF SyncArea
  <2> HIDE DEF m
  <2>4. QED
    BY <2>2, <2>3
<1>4. SyncArea(d) \in Client
  BY <1>2, <1>3, AdvanceType
<1>5. QED
  BY <1>1, <1>2, <1>3, <1>4

(* A number rounded up to a period is less than a period more, and stays   *)
(* below every multiple of the period.                                     *)
LEMMA RoundUp ==
  ASSUME NEW p \in 0 .. SlaveBoundary - 1
  PROVE  /\ ((p + Period - 1) \div Period) * Period \in 0 .. SlaveBoundary
         /\ ((p + Period - 1) \div Period) * Period - p \in 0 .. Period - 1
<1> DEFINE x == p + Period - 1
           q == x \div Period
           m == x % Period
           a == SlaveSize \div Period
           b == SlaveBoundary \div SlaveSize
<1>1. x \in Int /\ p \in Int /\ Period \in Nat \ {0} /\ SlaveSize \in Nat \ {0}
      /\ SlaveBoundary \in Nat \ {0}
  BY Sizes
<1>2. x = Period * q + m /\ q \in Int /\ m \in 0 .. Period - 1
  BY <1>1, DivMod
<1>3. a \in Int /\ SlaveSize = Period * a
  <2>1. SlaveSize % Period = 0
    BY DmixAssumption DEF DmixAssumption
  <2>2. a \in Int /\ SlaveSize = Period * a + (SlaveSize % Period)
    BY <1>1, DivMod
  <2> HIDE DEF a
  <2>3. QED
    BY <1>1, <2>1, <2>2
<1>4. b \in Int /\ SlaveBoundary = SlaveSize * b
  <2>1. SlaveBoundary % SlaveSize = 0
    BY DmixAssumption DEF DmixAssumption
  <2>2. b \in Int /\ SlaveBoundary = SlaveSize * b + (SlaveBoundary % SlaveSize)
    BY <1>1, DivMod
  <2> HIDE DEF b
  <2>3. QED
    BY <1>1, <2>1, <2>2
<1>5. q * Period = Period * q
  BY <1>1, <1>2
<1>6. q * Period - p \in 0 .. Period - 1
  <2> HIDE DEF q, m
  <2>1. Period * q = p + Period - 1 - m
    BY <1>1, <1>2 DEF x
  <2>2. QED
    BY <1>1, <1>2, <1>5, <2>1
<1> HIDE DEF q, m, a, b
<1>7. q * Period <= SlaveBoundary
  <2> DEFINE k == a * b
  <2>1. k \in Int /\ SlaveBoundary = Period * k
    BY <1>1, <1>3, <1>4
  <2> HIDE DEF k
  <2>2. Period * q < Period * k + Period
    BY <1>1, <1>2, <1>5, <1>6, <2>1
  <2>3. Period * k + Period = Period * (k + 1)
    BY <1>1, <2>1
  <2>4. Period * (k + 1 - q) > 0
    BY <1>1, <1>2, <2>1, <2>2, <2>3
  <2>5. k + 1 - q > 0
    BY <1>1, <1>2, <2>1, <2>4
  <2>6. Period * (k - q) >= 0
    BY <1>1, <1>2, <2>1, <2>5
  <2>7. QED
    BY <1>1, <1>2, <1>5, <2>1, <2>6
<1>8. QED
  BY <1>1, <1>2, <1>5, <1>6, <1>7 DEF q, x

(* Going by the slave's pointer anew: the place in the slave ring is less  *)
(* than a period ahead of it.                                              *)
LEMMA ResetSlavePtrType ==
  ASSUME TypeOK, NEW d \in Client
  PROVE  /\ ResetSlavePtr(d) \in Client
         /\ ResetSlavePtr(d).slave_hw_ptr = slave_ptr
         /\ ResetSlavePtr(d).slave_appl_ptr - slave_ptr \in 0 .. Period - 1
         /\ ResetSlavePtr(d).hw_ptr = d.hw_ptr
         /\ ResetSlavePtr(d).last_appl_ptr = d.last_appl_ptr
         /\ ResetSlavePtr(d).appl_ptr = d.appl_ptr
         /\ ResetSlavePtr(d).state = d.state
         /\ ResetSlavePtr(d).stop_threshold = d.stop_threshold
<1> DEFINE y == IF BufferSize > 2 * Period THEN slave_ptr
                ELSE ((slave_ptr + Period - 1) \div Period) * Period
<1>1. slave_ptr \in 0 .. SlaveBoundary - 1 /\ slave_ptr \in 0 .. SlaveBoundary
      /\ slave_ptr - slave_ptr \in 0 .. Period - 1
  BY Sizes DEF TypeOK
<1>2. y \in 0 .. SlaveBoundary /\ y - slave_ptr \in 0 .. Period - 1
  BY <1>1, RoundUp
<1>3. ResetSlavePtr(d) = [d EXCEPT !.slave_hw_ptr = slave_ptr, !.slave_appl_ptr = y]
  BY DEF ResetSlavePtr
<1> HIDE DEF y
<1>4. QED
  BY <1>1, <1>2, <1>3 DEF Client

(* A start goes by the slave's pointer and runs.                           *)
LEMMA StartTimerType ==
  ASSUME TypeOK, NEW d \in Client
  PROVE  /\ StartTimer(d) \in Client
         /\ StartTimer(d).state = "RUNNING"
         /\ StartTimer(d).slave_hw_ptr = slave_ptr
         /\ StartTimer(d).slave_appl_ptr - slave_ptr \in 0 .. Period - 1
         /\ StartTimer(d).hw_ptr = d.hw_ptr
         /\ StartTimer(d).last_appl_ptr = d.last_appl_ptr
         /\ StartTimer(d).appl_ptr = d.appl_ptr
         /\ StartTimer(d).stop_threshold = d.stop_threshold
<1> DEFINE r == ResetSlavePtr(d)
<1>1. r \in Client
  BY ResetSlavePtrType
<1>2. StartTimer(d) = [r EXCEPT !.state = "RUNNING"]
  BY DEF StartTimer
<1> HIDE DEF r
<1>3. /\ StartTimer(d) \in Client /\ StartTimer(d).state = "RUNNING"
      /\ StartTimer(d).slave_hw_ptr = r.slave_hw_ptr
      /\ StartTimer(d).slave_appl_ptr = r.slave_appl_ptr
      /\ StartTimer(d).hw_ptr = r.hw_ptr
      /\ StartTimer(d).last_appl_ptr = r.last_appl_ptr
      /\ StartTimer(d).appl_ptr = r.appl_ptr
      /\ StartTimer(d).stop_threshold = r.stop_threshold
  BY <1>1, <1>2 DEF Client, ClientState
<1>4. QED
  BY <1>3, ResetSlavePtrType DEF r

(* Mixing changes the two places up to which it has mixed, nothing else.   *)
LEMMA SyncAreaKeeps ==
  ASSUME NEW d \in Client
  PROVE  /\ SyncArea(d).state = d.state
         /\ SyncArea(d).appl_ptr = d.appl_ptr
         /\ SyncArea(d).hw_ptr = d.hw_ptr
         /\ SyncArea(d).slave_hw_ptr = d.slave_hw_ptr
         /\ SyncArea(d).stop_threshold = d.stop_threshold
<1>1. \A c \in Client, n \in Int :
        /\ Advance(c, n).state = c.state
        /\ Advance(c, n).appl_ptr = c.appl_ptr
        /\ Advance(c, n).hw_ptr = c.hw_ptr
        /\ Advance(c, n).slave_hw_ptr = c.slave_hw_ptr
        /\ Advance(c, n).stop_threshold = c.stop_threshold
  BY DEF Advance, Client
<1>2. QED
  BY <1>1, SyncAreaType

(* A look at the slave moves hw_ptr of a client that follows, and may stop *)
(* it: once avail is at the stop threshold.                                *)
LEMMA SyncPtrKeeps ==
  ASSUME NEW d \in Client
  PROVE  /\ SyncPtr(d).appl_ptr = d.appl_ptr
         /\ SyncPtr(d).last_appl_ptr = d.last_appl_ptr
         /\ SyncPtr(d).slave_appl_ptr = d.slave_appl_ptr
         /\ SyncPtr(d).stop_threshold = d.stop_threshold
         /\ ~Follows(d) => SyncPtr(d).hw_ptr = d.hw_ptr /\ ~Stops(d)
         /\ slave = "DISCONNECTED" => SyncPtr(d).state = "DISCONNECTED"
         /\ slave # "DISCONNECTED" /\ ~Stops(d) => SyncPtr(d).state = d.state
         /\ slave # "DISCONNECTED" /\ Stops(d) =>
              /\ SyncPtr(d).state = IF d.state = "RUNNING" THEN "XRUN" ELSE "SETUP"
              /\ ClientAvail(SyncPtr(d)) >= d.stop_threshold
<1> DEFINE y == IF Follows(d) THEN (d.hw_ptr + Elapsed(d)) % Boundary ELSE d.hw_ptr
           e == MovedHw(d)
<1>1. e = [d EXCEPT !.slave_hw_ptr = slave_ptr, !.hw_ptr = y]
  BY DEF MovedHw
<1> HIDE DEF y
<1>2. /\ e.appl_ptr = d.appl_ptr /\ e.last_appl_ptr = d.last_appl_ptr
      /\ e.slave_appl_ptr = d.slave_appl_ptr /\ e.stop_threshold = d.stop_threshold
      /\ e.state = d.state /\ e.hw_ptr = y
      /\ \A x : /\ [e EXCEPT !.state = x].appl_ptr = e.appl_ptr
                /\ [e EXCEPT !.state = x].last_appl_ptr = e.last_appl_ptr
                /\ [e EXCEPT !.state = x].slave_appl_ptr = e.slave_appl_ptr
                /\ [e EXCEPT !.state = x].stop_threshold = e.stop_threshold
                /\ [e EXCEPT !.state = x].hw_ptr = e.hw_ptr
                /\ [e EXCEPT !.state = x].state = x
  BY <1>1 DEF Client
<1>3. ~Follows(d) => ~Stops(d) /\ y = d.hw_ptr
  BY DEF Stops, y
<1>4. /\ slave = "DISCONNECTED" => SyncPtr(d) = [d EXCEPT !.state = "DISCONNECTED"]
      /\ slave # "DISCONNECTED" /\ ~Stops(d) => SyncPtr(d) = e
      /\ slave # "DISCONNECTED" /\ Stops(d) =>
           SyncPtr(d) = [e EXCEPT !.state = IF d.state = "RUNNING" THEN "XRUN" ELSE "SETUP"]
  <2>1. SyncPtr(d) = IF slave = "DISCONNECTED" THEN [d EXCEPT !.state = "DISCONNECTED"]
                     ELSE IF ~Stops(d) THEN e
                     ELSE [e EXCEPT !.state = IF e.state = "RUNNING" THEN "XRUN" ELSE "SETUP"]
    BY DEF SyncPtr
  <2> HIDE DEF e
  <2>2. QED
    BY <1>2, <2>1
<1>5. /\ [d EXCEPT !.state = "DISCONNECTED"].appl_ptr = d.appl_ptr
      /\ [d EXCEPT !.state = "DISCONNECTED"].last_appl_ptr = d.last_appl_ptr
      /\ [d EXCEPT !.state = "DISCONNECTED"].slave_appl_ptr = d.slave_appl_ptr
      /\ [d EXCEPT !.state = "DISCONNECTED"].stop_threshold = d.stop_threshold
      /\ [d EXCEPT !.state = "DISCONNECTED"].hw_ptr = d.hw_ptr
      /\ [d EXCEPT !.state = "DISCONNECTED"].state = "DISCONNECTED"
  BY DEF Client
<1>6. Stops(d) => ClientAvail(e) >= d.stop_threshold
  BY DEF Stops
<1>7. \A x : ClientAvail([e EXCEPT !.state = x]) = ClientAvail(e)
  <2> HIDE DEF e
  <2>1. QED
    BY <1>2 DEF ClientAvail
<1> HIDE DEF e
<1>8. CASE slave = "DISCONNECTED"
  BY <1>3, <1>4, <1>5, <1>8
<1>9. CASE slave # "DISCONNECTED" /\ ~Stops(d)
  BY <1>2, <1>3, <1>4, <1>9
<1>10. CASE slave # "DISCONNECTED" /\ Stops(d)
  <2> DEFINE x == IF d.state = "RUNNING" THEN "XRUN" ELSE "SETUP"
  <2>1. SyncPtr(d) = [e EXCEPT !.state = x]
    BY <1>4, <1>10
  <2> HIDE DEF x
  <2>2. ClientAvail(SyncPtr(d)) >= d.stop_threshold /\ SyncPtr(d).state = x
    BY <1>2, <1>6, <1>7, <1>10, <2>1
  <2>3. QED
    BY <1>2, <1>3, <1>10, <2>1, <2>2 DEF x
<1>11. QED
  BY <1>8, <1>9, <1>10

------------------------------------------------------------------------------
(* The inductive invariant.                                                *)

(* A client that is prepared, or started with nothing to play, has mixed   *)
(* nothing past its hw_ptr, and its timer is down.                         *)
Fresh ==
  dmix.state \in {"PREPARED", "RUN_PENDING"} =>
    dmix.last_appl_ptr = dmix.hw_ptr /\ ~ticking

(* A client finds itself disconnected when the card is.                    *)
Gone == dmix.state = "DISCONNECTED" => slave = "DISCONNECTED"

(* Inside a drain the stop threshold is at most the size of the ring, what *)
(* is to be put back is kept, and the client drains.                       *)
Draining ==
  pc \in {"drain", "drainpoll"} =>
    /\ saved \in Thresholds /\ dmix.stop_threshold = Min({saved, BufferSize})
    /\ dmix.state = "DRAINING"

DInv == TypeOK /\ Fresh /\ Gone /\ Draining

(* The parts of the type invariant.                                        *)
LEMMA Types ==
  ASSUME TypeOK
  PROVE  /\ dmix \in Client /\ saved \in {0} \union Thresholds
         /\ slave \in {"RUNNING", "SUSPENDED", "DISCONNECTED"}
         /\ slave_ptr \in 0 .. SlaveBoundary - 1 /\ slave_ptr \in Int
         /\ ticking \in BOOLEAN /\ event \in BOOLEAN
         /\ pc \in {"idle", "drain", "drainpoll", "poll"} /\ ret \in {0, EPIPE, ENODEV, ESTRPIPE}
  BY Sizes DEF TypeOK

(* A client that was just set up is well formed and waits for nothing.     *)
LEMMA InitDInv == Init => DInv
<1> SUFFICES ASSUME Init PROVE DInv
  OBVIOUS
<1>1. dmix \in Client /\ dmix.state = "SETUP"
  <2>1. 0 \in Pointer /\ 0 \in 0 .. SlaveBoundary /\ 0 \in 0 .. SlaveBoundary - 1
    BY Sizes
  <2>2. QED
    BY <2>1, ThresholdNumbers DEF Init, Client, ClientState
<1>2. TypeOK
  <2>1. /\ saved = 0 /\ slave = "RUNNING" /\ slave_ptr = 0 /\ ticking = FALSE /\ event = FALSE
        /\ pc = "idle" /\ ret = 0
    BY DEF Init
  <2>2. 0 \in 0 .. SlaveBoundary - 1
    BY Sizes
  <2>3. QED
    BY <1>1, <2>1, <2>2 DEF TypeOK
<1>3. QED
  BY <1>1, <1>2 DEF Init, DInv, Fresh, Gone, Draining

(* What the timer is after a look at the slave.                            *)
LEMMA TimerTypes ==
  ASSUME TypeOK, NEW d \in Client, TimerAfterSync(d)
  PROVE  ticking' \in BOOLEAN /\ event' \in BOOLEAN /\ (ticking' => ticking)
  BY DEF TypeOK, TimerAfterSync

(* A look at the slave of a client that follows, outside a drain.          *)
LEMMA LookDInv ==
  ASSUME DInv, NEW d \in Client, Follows(d), dmix' = SyncPtr(d), pc' = "idle", ret' = 0,
         ticking' \in BOOLEAN, event' \in BOOLEAN, UNCHANGED <<environment, saved>>
  PROVE  DInv'
<1>1. dmix' \in Client
  BY SyncPtrType DEF DInv
<1>2. TypeOK'
  BY <1>1 DEF DInv, TypeOK, environment
<1>3. dmix'.state \notin {"PREPARED", "RUN_PENDING"}
      /\ (dmix'.state = "DISCONNECTED" => slave' = "DISCONNECTED")
  BY SyncPtrKeeps DEF Follows, environment
<1>4. QED
  BY <1>2, <1>3 DEF DInv, Fresh, Gone, Draining

(* Asking for what is available keeps types and the conditions on a drain. *)
LEMMA AvailUpdateDInv == DInv /\ AvailUpdate => DInv'
<1> SUFFICES ASSUME DInv, AvailUpdate PROVE DInv'
  OBVIOUS
<1>1. dmix \in Client /\ TypeOK
  BY Types DEF DInv
<1>2. QED
  BY <1>1, TimerTypes, LookDInv DEF AvailUpdate, Returns

(* The calls that set the client's pointers, or its state, anew.           *)
LEMMA PrepareDInv == DInv /\ Prepare => DInv'
<1> SUFFICES ASSUME DInv, Prepare PROVE DInv'
  OBVIOUS
<1>1. dmix' \in Client /\ dmix'.state = "PREPARED" /\ dmix'.last_appl_ptr = 0 /\ dmix'.hw_ptr = 0
  BY Sizes DEF Prepare, DInv, TypeOK, Client, ClientState
<1>2. TypeOK'
  BY <1>1 DEF DInv, TypeOK, Prepare, Returns, environment
<1>3. QED
  BY <1>1, <1>2 DEF DInv, Fresh, Gone, Draining, Prepare, Returns

(* A reset puts the three pointers into the first period and keeps the     *)
(* rest.                                                                   *)
LEMMA ResetDInv == DInv /\ Reset => DInv'
<1> SUFFICES ASSUME DInv, Reset PROVE DInv'
  OBVIOUS
<1> DEFINE p == dmix.hw_ptr % Period
           d == [dmix EXCEPT !.hw_ptr = p, !.appl_ptr = p, !.last_appl_ptr = p]
<1>1. dmix \in Client /\ TypeOK
  BY Types DEF DInv
<1>2. p \in Pointer
  <2>1. dmix.hw_ptr \in Int
    BY <1>1, ClientFields
  <2>2. p \in 0 .. Period - 1
    BY <2>1, Remainders
  <2>3. Period < Boundary
    BY PeriodBelow
  <2>4. QED
    BY <2>2, <2>3, Sizes DEF Pointer
<1>3. dmix' = ResetSlavePtr(d)
  BY DEF Reset
<1> HIDE DEF p
<1>4. d \in Client /\ d.state = dmix.state /\ d.last_appl_ptr = d.hw_ptr
  BY <1>1, <1>2 DEF Client
<1> HIDE DEF d
<1>5. dmix' \in Client /\ dmix'.state = dmix.state /\ dmix'.last_appl_ptr = dmix'.hw_ptr
  BY <1>1, <1>3, <1>4, ResetSlavePtrType
<1>6. TypeOK'
  BY <1>5 DEF DInv, TypeOK, Reset, Returns, environment
<1>7. QED
  BY <1>5, <1>6 DEF DInv, Fresh, Gone, Draining, Reset, Returns, environment

(* Dropping stops the timer and ends in SETUP, where no drain is pending.  *)
LEMMA DropDInv == DInv /\ Drop => DInv'
<1> SUFFICES ASSUME DInv, Drop PROVE DInv'
  OBVIOUS
<1>1. dmix' \in Client /\ dmix'.state = "SETUP"
  BY DEF Drop, DInv, TypeOK, Client, ClientState
<1>2. TypeOK'
  BY <1>1 DEF DInv, TypeOK, Drop, Returns, environment
<1>3. QED
  BY <1>1, <1>2 DEF DInv, Fresh, Gone, Draining, Drop, Returns

(* Starting a prepared client.                                             *)
LEMMA StartedKeeps ==
  ASSUME DInv, dmix.state = "PREPARED"
  PROVE  /\ Started(dmix) \in Client
         /\ Started(dmix).stop_threshold = dmix.stop_threshold
         /\ \/ /\ Started(dmix).state \in {"PREPARED", "RUN_PENDING"}
               /\ Started(dmix).last_appl_ptr = Started(dmix).hw_ptr
            \/ /\ Started(dmix).state = "RUNNING"
               /\ Started(dmix) = SyncArea(StartTimer(dmix))
         /\ ClientHwAvail(dmix) > 0 => Started(dmix).state = "RUNNING"
<1> DEFINE e == [dmix EXCEPT !.state = "RUN_PENDING"]
           f == SyncArea(StartTimer(dmix))
<1>1. dmix \in Client /\ TypeOK
  BY Types DEF DInv
<1>2. dmix.last_appl_ptr = dmix.hw_ptr
  BY DEF DInv, Fresh
<1>3. /\ e \in Client /\ e.state = "RUN_PENDING" /\ e.last_appl_ptr = e.hw_ptr
      /\ e.stop_threshold = dmix.stop_threshold
  BY <1>1, <1>2 DEF Client, ClientState
<1>4. f \in Client /\ f.state = "RUNNING" /\ f.stop_threshold = dmix.stop_threshold
  BY <1>1, StartTimerType, SyncAreaType, SyncAreaKeeps
<1>5. ClientHwAvail(dmix) \in Int
  <2>1. dmix.hw_ptr \in Pointer /\ dmix.appl_ptr \in Pointer
    BY <1>1, ClientFields
  <2>2. ClientAvail(dmix) \in Int
    BY <2>1, Sizes DEF ClientAvail, PlaybackAvail, Pointer
  <2>3. QED
    BY <2>2, Sizes DEF ClientHwAvail
<1>6. /\ ClientHwAvail(dmix) = 0 => Started(dmix) = e
      /\ ClientHwAvail(dmix) < 0 => Started(dmix) = dmix
      /\ ClientHwAvail(dmix) > 0 => Started(dmix) = f
  BY <1>5 DEF Started
<1> HIDE DEF e
<1>7. CASE ClientHwAvail(dmix) = 0
  BY <1>3, <1>6, <1>7
<1>8. CASE ClientHwAvail(dmix) < 0
  BY <1>1, <1>2, <1>6, <1>5, <1>8
<1>9. CASE ClientHwAvail(dmix) > 0
  BY <1>4, <1>6, <1>9
<1>10. QED
  BY <1>5, <1>7, <1>8, <1>9

(* A start goes to RUNNING with the timer on, or to RUN_PENDING without    *)
(* it.                                                                     *)
LEMMA StartDInv == DInv /\ Start => DInv'
<1> SUFFICES ASSUME DInv, Start PROVE DInv'
  OBVIOUS
<1>1. pc' = "idle" /\ ret' = 0 /\ UNCHANGED <<environment, saved, event>>
  BY DEF Start, Returns
<1>2. CASE dmix.state = "PREPARED"
  <2>1. dmix' = Started(dmix) /\ ticking' = (ticking \/ dmix'.state = "RUNNING") /\ ~ticking
    BY <1>2 DEF Start, DInv, Fresh
  <2>2. dmix' \in Client /\ dmix'.state # "DISCONNECTED"
        /\ (dmix'.state \in {"PREPARED", "RUN_PENDING"} => dmix'.last_appl_ptr = dmix'.hw_ptr /\ ~ticking')
    BY <1>2, <2>1, StartedKeeps
  <2>3. TypeOK'
    BY <1>1, <2>1, <2>2 DEF DInv, TypeOK, environment
  <2>4. QED
    BY <1>1, <2>2, <2>3 DEF DInv, Fresh, Gone, Draining
<1>3. CASE dmix.state # "PREPARED"
  <2>1. UNCHANGED <<dmix, ticking>>
    BY <1>3 DEF Start
  <2>2. QED
    BY <1>1, <2>1 DEF DInv, TypeOK, Fresh, Gone, Draining, environment
<1>4. QED
  BY <1>2, <1>3

(* Frames written move the application's pointer within its range.         *)
LEMMA Written ==
  ASSUME NEW d \in Client, NEW n \in 1 .. MaxRequest, n <= ClientAvail(d)
  PROVE  /\ [d EXCEPT !.appl_ptr = Forward(@, n)] \in Client
         /\ [d EXCEPT !.appl_ptr = Forward(@, n)].state = d.state
         /\ [d EXCEPT !.appl_ptr = Forward(@, n)].last_appl_ptr = d.last_appl_ptr
         /\ [d EXCEPT !.appl_ptr = Forward(@, n)].hw_ptr = d.hw_ptr
         /\ [d EXCEPT !.appl_ptr = Forward(@, n)].slave_appl_ptr = d.slave_appl_ptr
         /\ [d EXCEPT !.appl_ptr = Forward(@, n)].slave_hw_ptr = d.slave_hw_ptr
<1>1. ClientAvail(d) \in 0 .. Boundary - 1
  <2>1. MmapAvail("PLAYBACK", d.hw_ptr, d.appl_ptr) \in 0 .. Boundary - 1
    BY ClientFields, AvailType
  <2>2. QED
    BY <2>1 DEF MmapAvail, ClientAvail
<1>2. n \in 0 .. Boundary
  BY <1>1, Sizes, DmixAssumption DEF DmixAssumption
<1>3. Forward(d.appl_ptr, n) \in Pointer
  BY <1>2, ClientFields, ForwardType
<1>4. QED
  BY <1>3 DEF Client

(* A commit moves appl_ptr, starts a pending client or syncs it, and       *)
(* leaves a client as the invariant wants it on every way.                 *)
LEMMA CommitDInv == ASSUME NEW n \in 1 .. MaxRequest PROVE DInv /\ Commit(n) => DInv'
<1> SUFFICES ASSUME DInv, Commit(n) PROVE DInv'
  OBVIOUS
<1> DEFINE written == [dmix EXCEPT !.appl_ptr = Forward(@, n)]
           synced  == IF dmix.state = "RUN_PENDING" THEN StartTimer(written)
                      ELSE IF Follows(dmix) THEN SyncPtr(written) ELSE written
<1>1. dmix \in Client /\ TypeOK /\ n <= ClientAvail(dmix)
  BY Types DEF DInv, Commit
<1>2. pc' = "idle" /\ ret' = 0 /\ UNCHANGED <<environment, saved>>
  BY DEF Commit, Returns
<1>3. CASE slave = "SUSPENDED"
  <2>1. UNCHANGED <<dmix, ticking, event>>
    BY <1>3 DEF Commit
  <2>2. QED
    BY <1>2, <2>1 DEF DInv, TypeOK, Fresh, Gone, Draining, environment
<1>4. CASE slave # "SUSPENDED"
  <2>1. /\ written \in Client /\ written.state = dmix.state
        /\ written.last_appl_ptr = dmix.last_appl_ptr /\ written.hw_ptr = dmix.hw_ptr
    BY <1>1, Written
  <2>2. /\ dmix' = IF Follows(synced) THEN SyncArea(synced) ELSE synced
        /\ IF dmix.state = "RUN_PENDING" \/ Follows(synced)
           THEN /\ ticking' = (ticking \/ dmix.state = "RUN_PENDING")
                /\ event' = (event /\ ClientAvail(synced) >= AvailMin)
           ELSE IF Follows(dmix) THEN TimerAfterSync(written)
           ELSE UNCHANGED <<ticking, event>>
    BY <1>4 DEF Commit
  <2> HIDE DEF written
  <2>3. synced \in Client
    BY <1>1, <2>1, StartTimerType, SyncPtrType
  <2>4. /\ synced.state = "DISCONNECTED" => slave = "DISCONNECTED"
        /\ synced.state \in {"PREPARED", "RUN_PENDING"} =>
             /\ synced.last_appl_ptr = synced.hw_ptr /\ ~ticking
             /\ synced = written /\ ~Follows(dmix) /\ dmix.state # "RUN_PENDING"
    <3>1. CASE dmix.state = "RUN_PENDING"
      BY <1>1, <2>1, <3>1, StartTimerType
    <3>2. CASE Follows(dmix)
      <4>1. synced = SyncPtr(written) /\ written.state \in {"RUNNING", "DRAINING"}
        BY <2>1, <3>2 DEF Follows
      <4> HIDE DEF synced
      <4>2. QED
        BY <2>1, <4>1, SyncPtrKeeps
    <3>3. CASE dmix.state # "RUN_PENDING" /\ ~Follows(dmix)
      BY <2>1, <3>3 DEF DInv, Fresh, Gone
    <3>4. QED
      BY <3>1, <3>2, <3>3
  <2> HIDE DEF synced
  <2>5. /\ dmix' \in Client /\ dmix'.state = synced.state
        /\ (~Follows(synced) => dmix' = synced)
    BY <2>2, <2>3, SyncAreaType, SyncAreaKeeps
  <2>6. ticking' \in BOOLEAN /\ event' \in BOOLEAN
    BY <1>1, <2>1, <2>2, TimerTypes, Types
  <2>7. TypeOK'
    BY <1>2, <2>5, <2>6 DEF DInv, TypeOK, environment
  <2>8. Fresh'
    <3> SUFFICES ASSUME synced.state \in {"PREPARED", "RUN_PENDING"}
                 PROVE  dmix'.last_appl_ptr = dmix'.hw_ptr /\ ~ticking'
      BY <2>5 DEF Fresh
    <3>1. ~Follows(synced) /\ UNCHANGED ticking
      BY <2>2, <2>4 DEF Follows
    <3>2. QED
      BY <2>4, <2>5, <3>1
  <2>9. QED
    BY <1>2, <2>4, <2>5, <2>7, <2>8 DEF DInv, Gone, Draining, environment
<1>5. QED
  BY <1>3, <1>4

(* A forward moves appl_ptr alone.                                         *)
LEMMA SkipForwardDInv == ASSUME NEW n \in 1 .. MaxRequest PROVE DInv /\ SkipForward(n) => DInv'
<1> SUFFICES ASSUME DInv, SkipForward(n) PROVE DInv'
  OBVIOUS
<1>1. dmix \in Client /\ n <= ClientAvail(dmix)
      /\ dmix' = [dmix EXCEPT !.appl_ptr = Forward(@, n)]
  BY Types DEF DInv, SkipForward
<1>2. /\ dmix' \in Client /\ dmix'.state = dmix.state
      /\ dmix'.last_appl_ptr = dmix.last_appl_ptr /\ dmix'.hw_ptr = dmix.hw_ptr
  BY <1>1, Written
<1>3. TypeOK'
  BY <1>2 DEF DInv, TypeOK, SkipForward, Returns, environment
<1>4. QED
  BY <1>2, <1>3 DEF DInv, Fresh, Gone, Draining, SkipForward, Returns, environment

(* A client that is not started has nothing mixed to take back: all that   *)
(* is rewindable is still unmixed.                                         *)
LEMMA RewoundFresh ==
  ASSUME DInv, NEW n \in 1 .. MaxRequest, dmix.state \in {"PREPARED", "RUN_PENDING"},
         n <= MmapHwAvail("PLAYBACK", dmix.hw_ptr, dmix.appl_ptr)
  PROVE  /\ n \in 0 .. Boundary
         /\ Rewound(n) = [dmix EXCEPT !.appl_ptr = Backward(@, n)]
<1> DEFINE unmixed == IF dmix.last_appl_ptr < dmix.appl_ptr
                      THEN dmix.appl_ptr - dmix.last_appl_ptr
                      ELSE dmix.appl_ptr + (Boundary - dmix.last_appl_ptr)
           first   == Min({n, unmixed})
<1>1. /\ dmix.hw_ptr \in Pointer /\ dmix.appl_ptr \in Pointer
      /\ dmix.last_appl_ptr = dmix.hw_ptr
      /\ n \in Nat \ {0}
  <2>1. dmix \in Client
    BY Types DEF DInv
  <2>2. QED
    BY <2>1, ClientFields, DmixAssumption DEF DInv, Fresh, DmixAssumption
<1>2. unmixed \in Int /\ n <= unmixed /\ n \in 0 .. Boundary
  BY <1>1, Sizes DEF MmapHwAvail, Pointer
<1> HIDE DEF unmixed
<1>3. first = n
  BY <1>1, <1>2, MinOfTwo
<1> HIDE DEF first
<1>4. Rewound(n) = [dmix EXCEPT !.appl_ptr = Backward(@, first)]
  BY <1>3 DEF Rewound, first, unmixed
<1>5. QED
  BY <1>2, <1>3, <1>4

(* A rewind takes appl_ptr back, and last_appl_ptr with slave_appl_ptr     *)
(* when what it takes back was mixed already.                              *)
LEMMA RewindDInv ==
  ASSUME NEW n \in 1 .. MaxRequest, dmix.state \notin {"SETUP", "XRUN"},
         slave # "DISCONNECTED"
  PROVE  DInv /\ Rewind(n) => DInv'
<1> SUFFICES ASSUME DInv, Rewind(n) PROVE DInv'
  OBVIOUS
<1>1. dmix \in Client /\ TypeOK
  BY Types DEF DInv
<1>2. CASE Follows(dmix)
  BY <1>1, <1>2, TimerTypes, LookDInv DEF Rewind, Returns
<1>3. CASE ~Follows(dmix)
  <2>1. dmix.state \in {"PREPARED", "RUN_PENDING"}
    BY <1>1, <1>3, ClientFields DEF DInv, Gone, ClientState, Follows
  <2>2. n \in 0 .. Boundary /\ dmix' = [dmix EXCEPT !.appl_ptr = Backward(@, n)]
    BY <1>3, <2>1, RewoundFresh DEF Rewind
  <2>3. Backward(dmix.appl_ptr, n) \in Pointer
    BY <1>1, <2>2, ClientFields, BackwardType
  <2>4. /\ dmix' \in Client /\ dmix'.state = dmix.state
        /\ dmix'.last_appl_ptr = dmix.last_appl_ptr /\ dmix'.hw_ptr = dmix.hw_ptr
    BY <1>1, <2>2, <2>3 DEF Client
  <2>5. pc' = "idle" /\ ret' = 0 /\ UNCHANGED <<ticking, event, environment, saved>>
    BY <1>3 DEF Rewind, Returns
  <2>6. TypeOK'
    BY <2>4, <2>5 DEF DInv, TypeOK, environment
  <2>7. QED
    BY <2>4, <2>5, <2>6 DEF DInv, Fresh, Gone, Draining, environment
<1>4. QED
  BY <1>2, <1>3

(* Resuming the slave puts its pointer anywhere and the card into a live   *)
(* state.                                                                  *)
LEMMA ResumeDInv == DInv /\ Resume => DInv'
<1> SUFFICES ASSUME DInv, Resume PROVE DInv'
  OBVIOUS
<1>1. slave_ptr' \in 0 .. SlaveBoundary - 1
  BY Sizes DEF Resume, DInv, TypeOK
<1>2. TypeOK'
  BY <1>1 DEF DInv, TypeOK, Resume, Returns
<1>3. QED
  BY <1>2 DEF DInv, Fresh, Gone, Draining, Resume, Returns

(* The slave's steps.                                                      *)
LEMMA TickDInv == DInv /\ Tick => DInv'
<1> SUFFICES ASSUME DInv, Tick PROVE DInv'
  OBVIOUS
<1>1. slave_ptr' \in 0 .. SlaveBoundary - 1
  <2>1. slave_ptr + 1 \in Int
    BY Types DEF DInv
  <2>2. QED
    BY <2>1, Remainders DEF Tick
<1>2. event' \in BOOLEAN
  BY DEF Tick, DInv, TypeOK
<1>3. TypeOK'
  BY <1>1, <1>2 DEF DInv, TypeOK, Tick
<1>4. QED
  BY <1>3 DEF DInv, Fresh, Gone, Draining, Tick

(* Losing or suspending the card touches no client.                        *)
LEMMA LossDInv == DInv /\ (Suspend \/ Disconnect) => DInv'
<1> SUFFICES ASSUME DInv, Suspend \/ Disconnect PROVE DInv'
  OBVIOUS
<1>1. TypeOK'
  BY DEF DInv, TypeOK, Suspend, Disconnect
<1>2. QED
  BY <1>1 DEF DInv, Fresh, Gone, Draining, Suspend, Disconnect

(* The calls that wait.  A drain is entered with the stop threshold at no  *)
(* more than the size of the ring.                                         *)
LEMMA DrainDInv == DInv /\ Drain => DInv'
<1> SUFFICES ASSUME DInv, Drain PROVE DInv'
  OBVIOUS
<1> DEFINE begun == IF dmix.state = "PREPARED" /\ ClientHwAvail(dmix) > 0
                    THEN Started(dmix) ELSE dmix
<1>1. dmix \in Client /\ TypeOK /\ pc = "idle" /\ UNCHANGED <<environment, event>>
      /\ saved' = IF pc' = "drain" THEN dmix.stop_threshold ELSE 0
  BY Types DEF DInv, Drain
<1>2. begun \in Client /\ begun.stop_threshold = dmix.stop_threshold
      /\ dmix.stop_threshold \in Thresholds
  BY <1>1, StartedKeeps, ClientFields
<1>3. \/ pc' = "idle" /\ ret' = ESTRPIPE /\ UNCHANGED <<dmix, ticking>>
      \/ /\ pc' = "idle" /\ ret' = 0
         /\ dmix' = [dmix EXCEPT !.state = "SETUP"] /\ ticking' = FALSE
      \/ /\ pc' = "drain" /\ ret' = 0
         /\ dmix' = [begun EXCEPT !.state = "DRAINING",
                                  !.stop_threshold = Min({begun.stop_threshold, BufferSize})]
         /\ ticking' = (ticking \/ dmix.state = "PREPARED")
  BY DEF Drain, Returns
<1> HIDE DEF begun
<1>4. CASE pc' = "idle" /\ ret' = ESTRPIPE /\ UNCHANGED <<dmix, ticking>>
  BY <1>1, <1>4 DEF DInv, TypeOK, Fresh, Gone, Draining, environment
<1>5. CASE /\ pc' = "idle" /\ ret' = 0
           /\ dmix' = [dmix EXCEPT !.state = "SETUP"] /\ ticking' = FALSE
  <2>1. dmix' \in Client /\ dmix'.state = "SETUP"
    BY <1>1, <1>5 DEF Client, ClientState
  <2>2. TypeOK'
    BY <1>1, <1>5, <2>1 DEF TypeOK, environment
  <2>3. QED
    BY <1>5, <2>1, <2>2 DEF DInv, Fresh, Gone, Draining
<1>6. CASE /\ pc' = "drain" /\ ret' = 0
           /\ dmix' = [begun EXCEPT !.state = "DRAINING",
                                    !.stop_threshold = Min({begun.stop_threshold, BufferSize})]
           /\ ticking' = (ticking \/ dmix.state = "PREPARED")
  <2>1. Min({begun.stop_threshold, BufferSize}) \in Thresholds
    BY <1>2, ThresholdNumbers
  <2>2. dmix' \in Client /\ dmix'.state = "DRAINING"
        /\ dmix'.stop_threshold = Min({dmix.stop_threshold, BufferSize})
    BY <1>2, <1>6, <2>1 DEF Client, ClientState
  <2>3. saved' = dmix.stop_threshold /\ saved' \in Thresholds /\ ticking' \in BOOLEAN
    BY <1>1, <1>2, <1>6, Types
  <2>4. TypeOK'
    BY <1>1, <1>6, <2>2, <2>3 DEF TypeOK, environment
  <2>5. QED
    BY <1>6, <2>2, <2>3, <2>4 DEF DInv, Fresh, Gone, Draining
<1>7. QED
  BY <1>3, <1>4, <1>5, <1>6

(* A look at the slave from inside a drain: the client drains on, or has   *)
(* come to its stop threshold, or the card is gone.                        *)
LEMMA DrainLook ==
  ASSUME DInv, pc \in {"drain", "drainpoll"}
  PROVE  LET d == SyncPtr(dmix)
         IN  /\ d \in Client
             /\ d.stop_threshold = dmix.stop_threshold
             /\ d.state \in {"DRAINING", "SETUP", "DISCONNECTED"}
             /\ d.state = "SETUP" => ClientAvail(d) >= dmix.stop_threshold
             /\ d.state = "DISCONNECTED" => slave = "DISCONNECTED"
             /\ slave # "DISCONNECTED" => SyncPtrError(dmix) = 0
             /\ slave = "DISCONNECTED" => SyncPtrError(dmix) = ENODEV
             /\ slave # "DISCONNECTED" /\ ~Stops(dmix) => d.state = "DRAINING"
<1> DEFINE d == SyncPtr(dmix)
<1>1. dmix \in Client /\ TypeOK /\ dmix.state = "DRAINING"
  BY Types DEF DInv, Draining
<1>2. d \in Client /\ d.stop_threshold = dmix.stop_threshold
  BY <1>1, SyncPtrType, SyncPtrKeeps
<1>3. /\ slave # "DISCONNECTED" => SyncPtrError(dmix) = 0
      /\ slave = "DISCONNECTED" => SyncPtrError(dmix) = ENODEV
  BY <1>1 DEF SyncPtrError
<1>4. CASE slave = "DISCONNECTED"
  BY <1>1, <1>2, <1>3, <1>4, SyncPtrKeeps
<1>5. CASE slave # "DISCONNECTED" /\ Stops(dmix)
  <2>1. d.state = "SETUP" /\ ClientAvail(d) >= dmix.stop_threshold
    BY <1>1, <1>5, SyncPtrKeeps
  <2> HIDE DEF d
  <2>2. QED
    BY <1>2, <1>3, <1>5, <2>1 DEF d
<1>6. CASE slave # "DISCONNECTED" /\ ~Stops(dmix)
  <2>1. d.state = "DRAINING"
    BY <1>1, <1>6, SyncPtrKeeps
  <2> HIDE DEF d
  <2>2. QED
    BY <1>2, <1>3, <1>6, <2>1 DEF d
<1>7. QED
  BY <1>4, <1>5, <1>6

(* A round of the drain loop keeps saved and stop_threshold in step: the   *)
(* loop puts the threshold back when it leaves without an error.           *)
LEMMA DrainRoundDInv == DInv /\ DrainRound => DInv'
<1> SUFFICES ASSUME DInv, DrainRound PROVE DInv'
  OBVIOUS
<1> DEFINE d == SyncPtr(dmix)
<1>1. /\ dmix \in Client /\ TypeOK /\ pc = "drain" /\ UNCHANGED environment
      /\ saved \in Thresholds /\ dmix.stop_threshold = Min({saved, BufferSize})
      /\ saved' = IF pc' = "idle" THEN 0 ELSE saved
  BY Types DEF DInv, Draining, DrainRound
<1>2. /\ d \in Client /\ d.stop_threshold = dmix.stop_threshold
      /\ d.state \in {"DRAINING", "SETUP", "DISCONNECTED"}
      /\ d.state = "DISCONNECTED" => slave = "DISCONNECTED"
      /\ slave # "DISCONNECTED" => SyncPtrError(dmix) = 0
      /\ slave = "DISCONNECTED" => SyncPtrError(dmix) = ENODEV
  BY <1>1, DrainLook
<1>3. CASE SyncPtrError(dmix) < 0
  <2>1. /\ dmix' = [d EXCEPT !.state = "SETUP"] /\ ticking' = FALSE
        /\ pc' = "idle" /\ ret' = SyncPtrError(dmix) /\ UNCHANGED event
    BY <1>3 DEF DrainRound
  <2>2. dmix' \in Client /\ dmix'.state = "SETUP"
    BY <1>2, <2>1 DEF Client, ClientState
  <2>3. ret' \in {0, ENODEV}
    BY <1>1, <1>2, <2>1
  <2>4. TypeOK'
    BY <1>1, <2>1, <2>2, <2>3 DEF TypeOK, environment
  <2>5. QED
    BY <2>1, <2>2, <2>4 DEF DInv, Fresh, Gone, Draining
<1>4. CASE ~(SyncPtrError(dmix) < 0)
  <2>1. /\ TimerAfterSync(dmix)
        /\ IF d.state = "DRAINING"
           THEN dmix' = SyncArea(d) /\ pc' = "drainpoll" /\ UNCHANGED ret
           ELSE /\ dmix' = [d EXCEPT !.stop_threshold = saved]
                /\ pc' = "idle" /\ ret' = 0
    BY <1>4 DEF DrainRound
  <2>2. ticking' \in BOOLEAN /\ event' \in BOOLEAN
    BY <1>1, <2>1, TimerTypes
  <2> HIDE DEF d
  <2>3. CASE d.state = "DRAINING"
    <3>1. /\ dmix' \in Client /\ dmix'.state = "DRAINING"
          /\ dmix'.stop_threshold = dmix.stop_threshold
      BY <1>2, <2>1, <2>3, SyncAreaType, SyncAreaKeeps
    <3>2. saved' = saved
      BY <1>1, <2>1, <2>3
    <3>3. TypeOK'
      BY <1>1, <2>1, <2>2, <2>3, <3>1, <3>2 DEF TypeOK, environment
    <3>4. QED
      BY <1>1, <2>1, <2>3, <3>1, <3>2, <3>3 DEF DInv, Fresh, Gone, Draining
  <2>4. CASE d.state # "DRAINING"
    <3>1. dmix' \in Client /\ dmix'.state = d.state
      BY <1>1, <1>2, <2>1, <2>4 DEF Client
    <3>2. TypeOK'
      BY <1>1, <2>1, <2>2, <2>4, <3>1 DEF TypeOK, environment
    <3>3. QED
      BY <1>1, <1>2, <2>1, <2>4, <3>1, <3>2 DEF DInv, Fresh, Gone, Draining, environment
  <2>5. QED
    BY <2>3, <2>4
<1>5. QED
  BY <1>3, <1>4

(* So does the wait of a round, whether it sleeps on, wakes, finds the     *)
(* client stopped or fails.                                                *)
LEMMA DrainPollDInv == DInv /\ DrainPoll => DInv'
<1> SUFFICES ASSUME DInv, DrainPoll PROVE DInv'
  OBVIOUS
<1> DEFINE d == IF event THEN SyncPtr(dmix) ELSE dmix
<1>1. /\ dmix \in Client /\ TypeOK /\ pc = "drainpoll" /\ UNCHANGED environment
      /\ saved \in Thresholds /\ dmix.stop_threshold = Min({saved, BufferSize})
      /\ dmix.state = "DRAINING"
      /\ saved' = IF pc' = "idle" THEN 0 ELSE saved
      /\ event' = FALSE /\ ticking' = (ticking /\ (slave = "DISCONNECTED" \/ ~Stops(dmix)))
  BY Types DEF DInv, Draining, DrainPoll
<1>2. /\ d \in Client /\ d.stop_threshold = dmix.stop_threshold
      /\ d.state \in {"DRAINING", "SETUP", "DISCONNECTED"}
      /\ d.state = "DISCONNECTED" => slave = "DISCONNECTED"
  BY <1>1, DrainLook
<1>3. \/ dmix' = d /\ pc' = "idle" /\ ret' = ESTRPIPE
      \/ dmix' = d /\ d.state = "DRAINING" /\ pc' \in {"drain", "drainpoll"} /\ UNCHANGED ret
      \/ /\ dmix' = [d EXCEPT !.stop_threshold = saved]
         /\ d.state # "DRAINING" /\ pc' = "idle" /\ ret' = 0
  BY DEF DrainPoll
<1> HIDE DEF d
<1>4. ticking' \in BOOLEAN
  BY <1>1 DEF TypeOK
<1>5. /\ dmix' \in Client /\ dmix'.state = d.state
      /\ pc' # "idle" => dmix'.stop_threshold = dmix.stop_threshold
  <2>1. CASE dmix' = d
    BY <1>2, <2>1
  <2>2. CASE dmix' = [d EXCEPT !.stop_threshold = saved] /\ pc' = "idle"
    <3>1. dmix' \in Client
      BY <1>1, <1>2, <2>2, ClientExcept
    <3>2. dmix'.state = d.state
      BY <1>2, <2>2 DEF Client
    <3>3. QED
      BY <2>2, <3>1, <3>2
  <2>3. QED
    BY <1>3, <2>1, <2>2
<1>6. TypeOK'
  BY <1>1, <1>3, <1>4, <1>5 DEF TypeOK, environment
<1>7. Draining'
  BY <1>1, <1>2, <1>3, <1>5 DEF Draining
<1>8. QED
  BY <1>1, <1>2, <1>5, <1>6, <1>7 DEF DInv, Fresh, Gone, environment

(* Beginning to wait changes only the program counter.                     *)
LEMMA WaitDInv == DInv /\ Wait => DInv'
<1> SUFFICES ASSUME DInv, Wait PROVE DInv'
  OBVIOUS
<1>1. TypeOK'
  BY DEF DInv, TypeOK, Wait, environment
<1>2. QED
  BY <1>1 DEF DInv, Fresh, Gone, Draining, Wait, environment

(* A poll may mix, sync the pointer and empty the timer's queue; the       *)
(* invariant holds after each.                                             *)
LEMMA PollDInv == DInv /\ Poll => DInv'
<1> SUFFICES ASSUME DInv, Poll PROVE DInv'
  OBVIOUS
<1> DEFINE a == IF dmix.state = "RUNNING" THEN SyncArea(dmix) ELSE dmix
           d == IF event /\ Follows(a) THEN SyncPtr(a) ELSE a
<1>1. /\ dmix \in Client /\ TypeOK /\ pc = "poll" /\ UNCHANGED <<environment, saved>>
      /\ dmix' = d /\ event' = (event /\ ~PollSleeps(d))
      /\ ticking' = (ticking /\ (slave = "DISCONNECTED" \/ ~Stops(a)))
  BY Types DEF DInv, Poll
<1>2. /\ pc' \in {"poll", "idle"}
      /\ ret' \in {0, EPIPE, ENODEV, ESTRPIPE}
  <2>1. \/ UNCHANGED <<pc, ret>>
        \/ /\ pc' = "idle"
           /\ ret' = CASE slave = "SUSPENDED" -> ESTRPIPE
                       [] slave = "DISCONNECTED" -> ENODEV
                       [] slave = "RUNNING" /\ PollSleeps(d) -> EPIPE
                       [] OTHER -> 0
    BY DEF Poll
  <2> HIDE DEF d
  <2>2. QED
    BY <1>1, <2>1 DEF TypeOK
<1>3. a \in Client /\ a.state = dmix.state /\ (~Follows(dmix) => a = dmix)
  BY <1>1, SyncAreaType, SyncAreaKeeps DEF Follows
<1> HIDE DEF a
<1>4. /\ d \in Client
      /\ d.state = "DISCONNECTED" => slave = "DISCONNECTED"
      /\ d.state \in {"PREPARED", "RUN_PENDING"} => d = dmix
  <2>1. CASE event /\ Follows(a)
    <3>1. d = SyncPtr(a) /\ a.state \in {"RUNNING", "DRAINING"}
      BY <2>1 DEF Follows
    <3> HIDE DEF d
    <3>2. QED
      BY <1>1, <1>3, <3>1, SyncPtrType, SyncPtrKeeps
  <2>2. CASE ~(event /\ Follows(a))
    BY <1>3, <2>2 DEF Follows, DInv, Gone
  <2>3. QED
    BY <2>1, <2>2
<1> HIDE DEF d
<1>5. ticking' \in BOOLEAN /\ event' \in BOOLEAN
  BY <1>1 DEF TypeOK
<1>6. TypeOK'
  BY <1>1, <1>2, <1>4, <1>5 DEF TypeOK, environment
<1>7. Fresh'
  BY <1>1, <1>4 DEF DInv, Fresh
<1>8. QED
  BY <1>1, <1>2, <1>4, <1>6, <1>7 DEF DInv, Gone, Draining, environment

(* Every step keeps the invariant.                                         *)
LEMMA NextDInv == DInv /\ [Next]_vars => DInv'
<1> SUFFICES ASSUME DInv, [Next]_vars PROVE DInv'
  OBVIOUS
<1>1. CASE InCall
  BY <1>1, DrainRoundDInv, DrainPollDInv, PollDInv DEF InCall
<1>2. CASE UserCall
  BY <1>2, AvailUpdateDInv, DropDInv, PrepareDInv, ResumeDInv, ResetDInv, StartDInv, DrainDInv,
     WaitDInv, CommitDInv, SkipForwardDInv, RewindDInv
  DEF UserCall
<1>3. CASE Tick \/ Suspend \/ Disconnect
  BY <1>3, TickDInv, LossDInv
<1>4. CASE UNCHANGED vars
  BY <1>4 DEF vars, DInv, TypeOK, Fresh, Gone, Draining
<1>5. QED
  BY <1>1, <1>2, <1>3, <1>4 DEF Next

(* DInv is an invariant of the client.                                     *)
LEMMA SpecDInv == Spec => []DInv
  BY InitDInv, NextDInv, PTL DEF Spec

(***************************************************************************)
(* The pointers of a client stay in their ranges on every path, though     *)
(* every one of them is moved by unsigned differences.                     *)
(***************************************************************************)
THEOREM SpecTypeOK == Spec => []TypeOK
<1>1. DInv => TypeOK
  BY DEF DInv
<1>2. QED
  BY <1>1, SpecDInv, PTL

(***************************************************************************)
(* A drain that reports success has played everything that was queued, up  *)
(* to a stop threshold below the ring, unless the card is gone: from its   *)
(* rounds and from its waits alike, for every threshold.                   *)
(***************************************************************************)
THEOREM SpecDrainPlaysOut == Spec => DrainPlaysOut
<1> DEFINE A == /\ pc \in {"drain", "drainpoll"} /\ pc' = "idle" /\ ret' = 0
                /\ dmix'.state # "DISCONNECTED"
           B == ClientAvail(dmix') >= Min({dmix'.stop_threshold, BufferSize})
<1>1. DInv /\ [Next]_vars => [A => B]_vars
  <2> SUFFICES ASSUME DInv, Next, A PROVE B
    OBVIOUS
  <2> DEFINE d == SyncPtr(dmix)
  <2>1. DrainRound \/ DrainPoll
    BY DEF Next, InCall, UserCall, Poll, AvailUpdate, Drop, Prepare, Resume, Reset,
           Start, Drain, Wait, Commit, SkipForward, Rewind, Returns, Tick, Suspend, Disconnect
  <2>2. /\ d \in Client /\ d.state \in {"DRAINING", "SETUP", "DISCONNECTED"}
        /\ d.state = "SETUP" => ClientAvail(d) >= dmix.stop_threshold
        /\ d.state = "DISCONNECTED" => slave = "DISCONNECTED"
        /\ slave = "DISCONNECTED" => SyncPtrError(dmix) = ENODEV
    BY DrainLook
  <2>3. /\ dmix.stop_threshold = Min({saved, BufferSize}) /\ saved \in Thresholds
        /\ dmix.state = "DRAINING"
    BY DEF DInv, Draining
  <2>4. ENODEV # 0 /\ ESTRPIPE # 0
    BY DEF ENODEV, ESTRPIPE
  <2>5. dmix' = [d EXCEPT !.stop_threshold = saved] /\ d.state # "DRAINING"
    <3>1. CASE DrainRound
      <4>1. ~(SyncPtrError(dmix) < 0)
        BY <2>4, <3>1 DEF DrainRound
      <4>2. QED
        BY <3>1, <4>1 DEF DrainRound
    <3>2. CASE DrainPoll
      <4> DEFINE e == IF event THEN SyncPtr(dmix) ELSE dmix
      <4>1. e.state # "DRAINING" /\ dmix' = [e EXCEPT !.stop_threshold = saved]
        BY <2>4, <3>2 DEF DrainPoll
      <4>2. e = d
        BY <2>3, <4>1
      <4>3. QED
        BY <4>1, <4>2
    <3>3. QED
      BY <2>1, <3>1, <3>2
  <2> HIDE DEF d
  <2>6. d.state = "SETUP" /\ ClientAvail(dmix') = ClientAvail(d) /\ dmix'.stop_threshold = saved
    BY <2>2, <2>5, ClientExcept DEF ClientAvail, Client
  <2>7. QED
    BY <2>2, <2>3, <2>6
<1>2. QED
  BY <1>1, SpecDInv, PTL DEF Spec, DrainPlaysOut

------------------------------------------------------------------------------
(* Lockstep.                                                               *)

(* Equal up to a multiple of the slave's boundary.                         *)
Near(a, b) == \E k \in Int : a - b = SlaveBoundary * k

(* The place of a client in the slave ring is where its mixed frames end,  *)
(* up to the alignment of the start.                                       *)
Offset(d) == (d.slave_appl_ptr - d.slave_hw_ptr) - (d.last_appl_ptr - d.hw_ptr)

InStep(d) == \E r \in 0 .. Period - 1 : Near(Offset(d), r)

(* The pointers of a client whose stream is short of half the boundary.    *)
Kept(d) ==
  /\ d.last_appl_ptr <= d.appl_ptr
  /\ d.appl_ptr < Boundary \div 2
  /\ d.appl_ptr <= d.hw_ptr + BufferSize

(***************************************************************************)
(* There are two ways to be right: with boundaries that suit each other at *)
(* any time, or with any boundaries early in a stream.                     *)
(***************************************************************************)
Fits(early) == IF early THEN Short /\ Timely ELSE Aligned

Right(early, d) == InStep(d) /\ (early => Kept(d))

LInv(early) ==
  /\ ticking /\ Follows(dmix) => Right(early, dmix)
  /\ early /\ dmix.state \in {"PREPARED", "RUN_PENDING"} => Kept(dmix)

(* Near is an equivalence, and sums and differences respect it.            *)
LEMMA NearSelf == ASSUME NEW a \in Int PROVE Near(a, a)
<1>1. 0 \in Int /\ a - a = SlaveBoundary * 0
  BY Sizes
<1>2. QED
  BY <1>1 DEF Near

(* Distances by whole rings may be added and taken from each other.        *)
LEMMA NearSums ==
  ASSUME NEW a \in Int, NEW b \in Int, NEW c \in Int, NEW d \in Int, Near(a, b), Near(c, d)
  PROVE  Near(a + c, b + d) /\ Near(a - c, b - d)
<1>1. SlaveBoundary \in Int
  BY Sizes
<1>2. PICK k \in Int : a - b = SlaveBoundary * k
  BY DEF Near
<1>3. PICK l \in Int : c - d = SlaveBoundary * l
  BY DEF Near
<1>4. /\ (a + c) - (b + d) = SlaveBoundary * (k + l) /\ k + l \in Int
      /\ (a - c) - (b - d) = SlaveBoundary * (k - l) /\ k - l \in Int
  BY <1>1, <1>2, <1>3
<1>5. QED
  BY <1>4 DEF Near

(* Whole rings apart is transitive.                                        *)
LEMMA NearChain ==
  ASSUME NEW a \in Int, NEW b \in Int, NEW c \in Int, Near(a, b), Near(b, c)
  PROVE  Near(a, c)
<1>1. SlaveBoundary \in Int
  BY Sizes
<1>2. PICK k \in Int : a - b = SlaveBoundary * k
  BY DEF Near
<1>3. PICK l \in Int : b - c = SlaveBoundary * l
  BY DEF Near
<1>4. a - c = SlaveBoundary * (k + l) /\ k + l \in Int
  BY <1>1, <1>2, <1>3
<1>5. QED
  BY <1>4 DEF Near

(* A remainder of a multiple of the slave's boundary is near the number.   *)
LEMMA NearRemainder ==
  ASSUME NEW a \in Int, NEW m \in Nat \ {0}, m % SlaveBoundary = 0
  PROVE  Near(a % m, a)
<1> DEFINE q == a \div m
           c == m \div SlaveBoundary
           r == a % m
<1>1. q \in Int /\ r \in Int /\ a = m * q + r
  BY DivMod
<1>2. SlaveBoundary \in Nat \ {0} /\ SlaveBoundary \in Int
  BY Sizes
<1>3. c \in Int /\ m = SlaveBoundary * c + (m % SlaveBoundary)
  BY <1>2, DivMod
<1> HIDE DEF q, c, r
<1>4. m = SlaveBoundary * c
  BY <1>2, <1>3
<1> DEFINE k == -(c * q)
<1>5. k \in Int
  BY <1>1, <1>3
<1>6. SlaveBoundary * k = -(m * q)
  BY <1>1, <1>2, <1>3, <1>4
<1> HIDE DEF k
<1>7. r - a = SlaveBoundary * k
  BY <1>1, <1>5, <1>6
<1>8. QED
  BY <1>5, <1>7 DEF Near, r

(* What is near has the same remainder.                                    *)
LEMMA NearSame ==
  ASSUME NEW a \in Int, NEW b \in Int, Near(a, b)
  PROVE  a % SlaveBoundary = b % SlaveBoundary
<1>1. SlaveBoundary \in Nat \ {0}
  BY Sizes
<1>2. PICK k \in Int : a - b = SlaveBoundary * k
  BY DEF Near
<1>3. QED
  BY <1>1, <1>2, ModEqual

(* The slave's boundary goes into itself.                                  *)
LEMMA NearSlave == ASSUME NEW a \in Int PROVE Near(a % SlaveBoundary, a)
<1>1. SlaveBoundary \in Nat \ {0} /\ SlaveBoundary \in Int
  BY Sizes
<1>2. SlaveBoundary % SlaveBoundary = 0
  <2>1. 0 \in 0 .. SlaveBoundary - 1 /\ 1 \in Int /\ SlaveBoundary - 0 = SlaveBoundary * 1
        /\ 0 \in Int
    BY <1>1
  <2>2. Near(SlaveBoundary, 0)
    BY <2>1 DEF Near
  <2>3. SlaveBoundary % SlaveBoundary = 0 % SlaveBoundary
    BY <1>1, <2>1, <2>2, NearSame
  <2>4. 0 % SlaveBoundary = 0
    BY <1>1
  <2>5. QED
    BY <2>3, <2>4
<1>3. QED
  BY <1>1, <1>2, NearRemainder

(* The other two remainders the client's arithmetic takes.                 *)
LEMMA NearWraps ==
  ASSUME Aligned, NEW a \in Int
  PROVE  /\ Near(a % Boundary, a)
         /\ a \in 0 .. 3 * Boundary - 1 => Near(a % Word, a)
<1>1. /\ Boundary \in Nat \ {0} /\ SlaveBoundary \in Nat \ {0} /\ Word \in Nat \ {0}
      /\ Boundary % SlaveBoundary = 0
  BY Sizes DEF Aligned
<1>2. Near(a % Boundary, a)
  BY <1>1, NearRemainder
<1>3. ASSUME a \in 0 .. 3 * Boundary - 1 PROVE Near(a % Word, a)
  <2>1. CASE Word >= 3 * Boundary
    <3>1. a \in 0 .. Word - 1
      BY <1>1, <1>3, <2>1
    <3>2. a % Word = a
      BY <1>1, <3>1
    <3>3. QED
      BY <3>2, NearSelf
  <2>2. CASE Word % Boundary = 0
    <3> DEFINE c == Word \div Boundary
               e == Boundary \div SlaveBoundary
    <3>1. /\ c \in Int /\ Word = Boundary * c + (Word % Boundary)
          /\ e \in Int /\ Boundary = SlaveBoundary * e + (Boundary % SlaveBoundary)
      BY <1>1, DivMod
    <3> HIDE DEF c, e
    <3>2. Word = Boundary * c /\ Boundary = SlaveBoundary * e
      BY <1>1, <2>2, <3>1
    <3> DEFINE k == e * c
    <3>3. Word - 0 = SlaveBoundary * k /\ k \in Int
      BY <1>1, <3>1, <3>2
    <3> HIDE DEF k
    <3>4. Near(Word, 0)
      BY <3>3 DEF Near
    <3>5. Word % SlaveBoundary = 0
      <4>1. Word % SlaveBoundary = 0 % SlaveBoundary
        BY <1>1, <3>4, NearSame
      <4>2. 0 % SlaveBoundary = 0
        BY <1>1
      <4>3. QED
        BY <4>1, <4>2
    <3>6. QED
      BY <1>1, <3>5, NearRemainder
  <2>3. QED
    BY <2>1, <2>2 DEF Aligned
<1>4. QED
  BY <1>2, <1>3

(* The unsigned differences of sync_area, wrapped or not, are below twice  *)
(* the boundary.                                                           *)
LEMMA UnmixedRange ==
  ASSUME NEW d \in Client
  PROVE  Unmixed(d) \in 0 .. 2 * Boundary - 1
<1> DEFINE a == d.appl_ptr - d.last_appl_ptr
           size == a % Word
           half == Boundary \div 2
<1>1. Boundary \in Nat \ {0} /\ Word \in Nat \ {0} /\ Word >= 2 * Boundary
  BY Sizes, DmixAssumption DEF DmixAssumption
<1>2. a \in Int /\ a < Boundary /\ -a < Boundary
  BY <1>1, ClientFields DEF Pointer
<1>3. half \in 0 .. Boundary
  BY <1>1
<1> HIDE DEF a, half
<1>4. CASE a >= 0
  <2>1. size = a
    BY <1>1, <1>2, <1>4
  <2>2. (Boundary - size) % Word = Boundary - a
    <3>1. Boundary - a \in 0 .. Word - 1
      BY <1>1, <1>2, <1>4
    <3>2. QED
      BY <1>1, <2>1, <3>1
  <2>3. Unmixed(d) = a \/ Unmixed(d) = Boundary - a
    BY <2>1, <2>2 DEF Unmixed, a, half
  <2>4. QED
    BY <1>1, <1>2, <1>4, <2>3
<1>5. CASE a < 0
  <2>1. size = Word + a
    <3> DEFINE w == Word + a
    <3>1. w \in 0 .. Word - 1 /\ w \in Int /\ w - a = Word * 1
      BY <1>1, <1>2, <1>5
    <3>2. w % Word = w
      BY <1>1, <3>1
    <3> HIDE DEF w
    <3>3. 1 \in Int
      OBVIOUS
    <3>4. w % Word = a % Word
      BY <1>1, <1>2, <3>1, <3>3, ModEqual
    <3>5. QED
      BY <3>2, <3>4 DEF w
  <2>2. (Boundary - size) % Word = Boundary - a
    <3> DEFINE x == Boundary - size
               w == Boundary - a
               k == -1
    <3>1. w \in 0 .. Word - 1 /\ w \in Int /\ x \in Int /\ k \in Int /\ x - w = Word * k
      BY <1>1, <1>2, <1>5, <2>1
    <3>2. w % Word = w
      BY <1>1, <3>1
    <3> HIDE DEF w, x, k
    <3>3. x % Word = w % Word
      BY <1>1, <3>1, ModEqual
    <3>4. QED
      BY <3>2, <3>3 DEF w, x
  <2>3. size >= half
    BY <1>1, <1>2, <1>3, <2>1
  <2>4. Unmixed(d) = Boundary - a
    BY <2>2, <2>3 DEF Unmixed, a, half
  <2>5. QED
    BY <1>1, <1>2, <1>5, <2>4
<1>6. QED
  BY <1>2, <1>4, <1>5

(* The room up to the active period of the slave's next round is a natural *)
(* number.                                                                 *)
LEMMA SlaveRoomNat ==
  ASSUME NEW d \in Client
  PROVE  SlaveRoom(d) \in Nat
<1> DEFINE free == d.slave_hw_ptr - (d.slave_hw_ptr % Period) + SlaveSize
           end  == IF free >= SlaveBoundary THEN free - SlaveBoundary ELSE free
<1>1. d.slave_hw_ptr % Period \in 0 .. Period - 1
  BY ClientFields, Remainders
<1>2. free \in Nat
  BY <1>1, ClientFields, Sizes
<1>3. end \in Nat
  BY <1>2, Sizes
<1> HIDE DEF free, end
<1>4. (IF end < d.slave_appl_ptr THEN end + (SlaveBoundary - d.slave_appl_ptr)
                                 ELSE end - d.slave_appl_ptr) \in Nat
  BY <1>3, ClientFields, Sizes
<1>5. QED
  BY <1>4 DEF SlaveRoom, free, end

(* Mixing moves both places alike.                                         *)
LEMMA AdvanceStays ==
  ASSUME NEW d \in Client, NEW n \in Int, InStep(d),
         Near(((d.last_appl_ptr + n) % Word) % Boundary, d.last_appl_ptr + n),
         Near((d.slave_appl_ptr + n) % Word, d.slave_appl_ptr + n)
  PROVE  InStep(Advance(d, n))
<1> DEFINE la == d.last_appl_ptr + n
           sa == d.slave_appl_ptr + n
           e  == Advance(d, n)
<1>1. la \in Int /\ sa \in Int
  BY ClientFields
<1>2. /\ e.last_appl_ptr = (la % Word) % Boundary
      /\ e.slave_appl_ptr = (sa % Word) % SlaveBoundary
      /\ e.slave_hw_ptr = d.slave_hw_ptr /\ e.hw_ptr = d.hw_ptr
  BY DEF Advance, Client
<1>3. /\ sa % Word \in Int
      /\ (la % Word) % Boundary \in Int /\ (sa % Word) % SlaveBoundary \in Int
  <2>1. la % Word \in Int /\ sa % Word \in Int
    BY <1>1, Remainders
  <2>2. QED
    BY <2>1, Remainders
<1>4. Near((la % Word) % Boundary, la) /\ Near(sa % Word, sa)
  OBVIOUS
<1> HIDE DEF la, sa, e
<1>5. Near((sa % Word) % SlaveBoundary, sa)
  <2>1. Near((sa % Word) % SlaveBoundary, sa % Word)
    BY <1>3, NearSlave
  <2>2. QED
    BY <1>1, <1>3, <1>4, <2>1, NearChain
<1>6. d.slave_hw_ptr \in Int /\ d.hw_ptr \in Int
      /\ d.slave_appl_ptr \in Int /\ d.last_appl_ptr \in Int
  BY ClientFields
<1>7. Near(Offset(e), Offset(d))
  <2>1. Near(e.slave_appl_ptr - d.slave_hw_ptr, sa - d.slave_hw_ptr)
        /\ Near(e.last_appl_ptr - d.hw_ptr, la - d.hw_ptr)
    BY <1>1, <1>2, <1>3, <1>4, <1>5, <1>6, NearSelf, NearSums
  <2>2. Near(Offset(e), (sa - d.slave_hw_ptr) - (la - d.hw_ptr))
    <3>1. /\ e.slave_appl_ptr - d.slave_hw_ptr \in Int /\ sa - d.slave_hw_ptr \in Int
          /\ e.last_appl_ptr - d.hw_ptr \in Int /\ la - d.hw_ptr \in Int
      BY <1>1, <1>2, <1>3, <1>6
    <3>2. QED
      BY <1>2, <2>1, <3>1, NearSums DEF Offset
  <2>3. (sa - d.slave_hw_ptr) - (la - d.hw_ptr) = Offset(d)
    BY <1>1, <1>6 DEF Offset, sa, la
  <2>4. QED
    BY <2>2, <2>3
<1>8. Offset(e) \in Int /\ Offset(d) \in Int
  BY <1>2, <1>3, <1>6 DEF Offset
<1>9. PICK r \in 0 .. Period - 1 : Near(Offset(d), r)
  BY DEF InStep
<1>10. r \in Int
  BY Sizes
<1>11. Near(Offset(e), r)
  BY <1>7, <1>8, <1>9, <1>10, NearChain
<1>12. QED
  BY <1>9, <1>11 DEF InStep, e

(* So it does however wrong the number of frames, when the boundaries suit *)
(* each other.                                                             *)
LEMMA AdvanceInStep ==
  ASSUME Aligned, NEW d \in Client, NEW n \in 0 .. 2 * Boundary - 1, InStep(d)
  PROVE  InStep(Advance(d, n))
<1> DEFINE la == d.last_appl_ptr + n
           sa == d.slave_appl_ptr + n
<1>1. /\ Boundary \in Nat \ {0} /\ SlaveBoundary \in Nat \ {0} /\ n \in Int
      /\ SlaveBoundary <= Boundary
  <2> DEFINE k == Boundary \div SlaveBoundary
  <2>1. Boundary \in Nat \ {0} /\ SlaveBoundary \in Nat \ {0} /\ n \in Int
    BY Sizes
  <2>2. k \in Int /\ Boundary = SlaveBoundary * k + (Boundary % SlaveBoundary)
    BY <2>1, DivMod
  <2> HIDE DEF k
  <2>3. SlaveBoundary * k > 0 /\ Boundary = SlaveBoundary * k
    BY <2>1, <2>2 DEF Aligned
  <2>4. k >= 1
    BY <2>1, <2>2, <2>3
  <2>5. SlaveBoundary * k >= SlaveBoundary
    BY <2>1, <2>2, <2>4
  <2>6. QED
    BY <2>1, <2>3, <2>5
<1>2. la \in 0 .. 3 * Boundary - 1 /\ sa \in 0 .. 3 * Boundary - 1 /\ la \in Int /\ sa \in Int
  BY <1>1, ClientFields DEF Pointer
<1>3. la % Word \in Int
  BY <1>2, Remainders
<1>4. (la % Word) % Boundary \in Int
  BY <1>3, Remainders
<1> HIDE DEF la, sa
<1>5. Near(la % Word, la) /\ Near(sa % Word, sa)
  BY <1>2, NearWraps
<1>6. Near((la % Word) % Boundary, la % Word)
  BY <1>3, NearWraps
<1>7. Near((la % Word) % Boundary, la)
  BY <1>2, <1>3, <1>4, <1>5, <1>6, NearChain
<1>8. QED
  BY <1>1, <1>5, <1>7, AdvanceStays DEF la, sa

(* Early in a stream the unsigned difference is what is not mixed yet, and *)
(* mixing no more than that wraps nothing but the place in the slave ring. *)
LEMMA UnmixedKept ==
  ASSUME NEW d \in Client, Kept(d)
  PROVE  /\ Unmixed(d) = d.appl_ptr - d.last_appl_ptr
         /\ Unmixed(d) \in 0 .. Boundary - 1
<1> DEFINE a == d.appl_ptr - d.last_appl_ptr
<1>1. Boundary \in Nat \ {0} /\ Word \in Nat \ {0} /\ Word >= 2 * Boundary
  BY Sizes, DmixAssumption DEF DmixAssumption
<1>2. a \in 0 .. Boundary - 1 /\ a < Boundary \div 2
  BY <1>1, ClientFields DEF Kept, Pointer
<1> HIDE DEF a
<1>3. a % Word = a
  <2>1. a \in 0 .. Word - 1
    BY <1>1, <1>2
  <2>2. QED
    BY <1>1, <2>1
<1>4. ~(a >= Boundary \div 2)
  BY <1>1, <1>2
<1>5. Unmixed(d) = a
  BY <1>3, <1>4 DEF Unmixed, a
<1>6. QED
  BY <1>2, <1>5 DEF a

(* Mixing or skipping no more than was left moves both pointers by exactly *)
(* that, keeps the order of the client's pointers and the distance to the  *)
(* slave.                                                                  *)
LEMMA AdvanceKept ==
  ASSUME NEW d \in Client, Kept(d), NEW n \in 0 .. Unmixed(d)
  PROVE  /\ Advance(d, n).last_appl_ptr = d.last_appl_ptr + n
         /\ Kept(Advance(d, n))
         /\ InStep(d) => InStep(Advance(d, n))
<1> DEFINE la == d.last_appl_ptr + n
           sa == d.slave_appl_ptr + n
<1>1. /\ Boundary \in Nat \ {0} /\ SlaveBoundary \in Nat \ {0} /\ Word \in Nat \ {0}
      /\ Word >= 2 * Boundary /\ Word >= 2 * SlaveBoundary
  BY Sizes, DmixAssumption DEF DmixAssumption
<1>2. /\ d.last_appl_ptr \in 0 .. Boundary - 1 /\ d.appl_ptr \in 0 .. Boundary - 1
      /\ d.slave_appl_ptr \in 0 .. SlaveBoundary
  BY ClientFields DEF Pointer
<1>3. /\ n \in 0 .. Boundary - 1 /\ n \in Int
      /\ la \in 0 .. d.appl_ptr
  BY <1>1, <1>2, UnmixedKept
<1>4. la \in 0 .. Boundary - 1 /\ la \in 0 .. Word - 1 /\ sa \in 0 .. Word - 1
      /\ la \in Int /\ sa \in Int
  BY <1>1, <1>2, <1>3
<1>5. /\ Advance(d, n).last_appl_ptr = (la % Word) % Boundary
      /\ Advance(d, n).appl_ptr = d.appl_ptr /\ Advance(d, n).hw_ptr = d.hw_ptr
  BY DEF Advance, Client
<1> HIDE DEF la, sa
<1>6. la % Word = la /\ sa % Word = sa /\ la % Boundary = la
  BY <1>1, <1>4
<1>7. Advance(d, n).last_appl_ptr = la /\ la <= d.appl_ptr
  BY <1>2, <1>3, <1>5, <1>6
<1>8. Kept(Advance(d, n))
  BY <1>5, <1>7 DEF Kept
<1>9. InStep(d) => InStep(Advance(d, n))
  BY <1>3, <1>4, <1>6, NearSelf, AdvanceStays DEF la, sa
<1>10. QED
  BY <1>7, <1>8, <1>9 DEF la

(* The smaller of two numbers in a range is in it, when one of them is.    *)
LEMMA MinRange ==
  ASSUME NEW a \in Nat, NEW c \in Nat, NEW b \in 0 .. c
  PROVE  /\ Min({a, b}) \in 0 .. c /\ Min({b, a}) \in 0 .. c
         /\ Min({a, b}) \in 0 .. b /\ Min({b, a}) \in 0 .. b
<1>1. a \in Int /\ b \in Int
  OBVIOUS
<1>2. Min({a, b}) = (IF a <= b THEN a ELSE b) /\ Min({b, a}) = (IF b <= a THEN b ELSE a)
  BY <1>1, MinOfTwo
<1>3. QED
  BY <1>1, <1>2

(* What sync_area skips and what it mixes is never negative.               *)
LEMMA AreaFrames ==
  ASSUME NEW d \in Client
  PROVE  /\ (SlaveSize - SlaveQueued(d)) % Word \in Nat /\ SlaveRoom(d) \in Nat
         /\ \/ SkipMissed(d) = d
            \/ /\ SlaveQueued(d) > SlaveSize
               /\ SkipMissed(d) = Advance(d, Min({(SlaveSize - SlaveQueued(d)) % Word, Unmixed(d)}))
         /\ SlaveQueued(d) <= SlaveSize => SkipMissed(d) = d
         /\ \/ SyncArea(d) = d
            \/ SyncArea(d) = Advance(SkipMissed(d),
                                     Min({Unmixed(SkipMissed(d)), SlaveRoom(SkipMissed(d))}))
<1>1. (SlaveSize - SlaveQueued(d)) % Word \in Nat
  <2>1. SlaveSize - SlaveQueued(d) \in Int
    BY MixedTypes, Sizes
  <2>2. (SlaveSize - SlaveQueued(d)) % Word \in 0 .. Word - 1
    BY <2>1, DivMod, Sizes
  <2>3. QED
    BY <2>2, Sizes
<1>2. SlaveRoom(d) \in Nat
  BY SlaveRoomNat
<1>3. SlaveQueued(d) \in Int /\ SlaveSize \in Int
  BY MixedTypes, Sizes
<1>4. SlaveQueued(d) <= SlaveSize => ~(SlaveQueued(d) > SlaveSize)
  BY <1>3
<1>5. QED
  BY <1>1, <1>2, <1>4 DEF SkipMissed, SyncArea

(* A skip keeps a client right, and so does what is mixed after it.        *)
LEMMA SkipRight ==
  ASSUME NEW early \in BOOLEAN, ~early => Aligned, NEW d \in Client, Right(early, d)
  PROVE  Right(early, SkipMissed(d))
<1> DEFINE x == (SlaveSize - SlaveQueued(d)) % Word
           m == Min({x, Unmixed(d)})
<1>1. x \in Nat /\ (SkipMissed(d) = d \/ SkipMissed(d) = Advance(d, m))
  BY AreaFrames
<1> HIDE DEF x
<1>2. CASE early
  <2>1. Unmixed(d) \in 0 .. Boundary - 1 /\ Boundary - 1 \in Nat
    BY <1>2, UnmixedKept, Sizes DEF Right
  <2>2. m \in 0 .. Unmixed(d)
    BY <1>1, <2>1, MinRange
  <2> HIDE DEF m
  <2>3. QED
    BY <1>1, <1>2, <2>2, AdvanceKept DEF Right
<1>3. CASE ~early
  <2>1. Unmixed(d) \in 0 .. 2 * Boundary - 1 /\ 2 * Boundary - 1 \in Nat
    BY UnmixedRange, Sizes
  <2>2. m \in 0 .. 2 * Boundary - 1
    BY <1>1, <2>1, MinRange
  <2> HIDE DEF m
  <2>3. QED
    BY <1>1, <1>3, <2>2, AdvanceInStep DEF Right
<1>4. QED
  BY <1>2, <1>3

(* A round of mixing, skip included, leaves a client right.                *)
LEMMA SyncAreaRight ==
  ASSUME NEW early \in BOOLEAN, ~early => Aligned, NEW d \in Client, Right(early, d)
  PROVE  Right(early, SyncArea(d))
<1> DEFINE s == SkipMissed(d)
           m == Min({Unmixed(s), SlaveRoom(s)})
<1>1. /\ s \in Client /\ Right(early, s)
      /\ SyncArea(d) = d \/ SyncArea(d) = Advance(s, m)
  BY AreaFrames, SyncAreaType, SkipRight
<1> HIDE DEF s
<1>2. SlaveRoom(s) \in Nat
  BY <1>1, SlaveRoomNat
<1>3. CASE early
  <2>1. Unmixed(s) \in 0 .. Boundary - 1 /\ Boundary - 1 \in Nat
    BY <1>1, <1>3, UnmixedKept, Sizes DEF Right
  <2>2. m \in 0 .. Unmixed(s)
    BY <1>2, <2>1, MinRange
  <2> HIDE DEF m
  <2>3. QED
    BY <1>1, <1>3, <2>2, AdvanceKept DEF Right
<1>4. CASE ~early
  <2>1. Unmixed(s) \in 0 .. 2 * Boundary - 1 /\ 2 * Boundary - 1 \in Nat
    BY <1>1, UnmixedRange, Sizes
  <2>2. m \in 0 .. 2 * Boundary - 1
    BY <1>2, <2>1, MinRange
  <2> HIDE DEF m
  <2>3. QED
    BY <1>1, <1>4, <2>2, AdvanceInStep DEF Right
<1>5. QED
  BY <1>3, <1>4

(* A client's hw_ptr moves by as much as the slave's has.                  *)
LEMMA SyncPtrInStep ==
  ASSUME TypeOK, NEW d \in Client, Follows(d), InStep(d),
         Near((d.hw_ptr + Elapsed(d)) % Boundary, d.hw_ptr + Elapsed(d))
  PROVE  InStep(SyncPtr(d))
<1> DEFINE e == MovedHw(d)
           moved == slave_ptr - d.slave_hw_ptr
<1>1. /\ d.slave_hw_ptr \in Int /\ d.hw_ptr \in Int /\ slave_ptr \in Int
      /\ d.slave_appl_ptr \in Int /\ d.last_appl_ptr \in Int
  BY ClientFields, Types
<1>2. /\ e.slave_hw_ptr = slave_ptr /\ e.hw_ptr = (d.hw_ptr + Elapsed(d)) % Boundary
      /\ e.slave_appl_ptr = d.slave_appl_ptr /\ e.last_appl_ptr = d.last_appl_ptr
      /\ \A x : Offset([e EXCEPT !.state = x]) = Offset(e)
      /\ \A x : Offset([d EXCEPT !.state = x]) = Offset(d)
  BY DEF MovedHw, Client, Offset
<1>3. SyncPtr(d) = e \/ (\E x : SyncPtr(d) = [e EXCEPT !.state = x])
      \/ (\E x : SyncPtr(d) = [d EXCEPT !.state = x])
  BY DEF SyncPtr
<1>4. moved \in Int /\ Elapsed(d) \in Int /\ e.hw_ptr \in Int
  <2>1. moved \in Int /\ Elapsed(d) \in Int
    BY <1>1, SyncPtrType
  <2>2. d.hw_ptr + Elapsed(d) \in Int
    BY <1>1, <2>1
  <2>3. QED
    BY <1>2, <2>1, <2>2, Remainders
<1>5. Near(Elapsed(d), moved)
  BY <1>4, NearSlave DEF Elapsed
<1> HIDE DEF e, moved
<1>6. Near(e.hw_ptr, d.hw_ptr + moved)
  <2>1. /\ d.hw_ptr + Elapsed(d) \in Int /\ d.hw_ptr + moved \in Int
    BY <1>1, <1>4
  <2>2. Near(d.hw_ptr + Elapsed(d), d.hw_ptr + moved)
    BY <1>1, <1>4, <1>5, NearSelf, NearSums
  <2>3. Near(e.hw_ptr, d.hw_ptr + Elapsed(d))
    BY <1>2
  <2>4. QED
    BY <1>4, <2>1, <2>2, <2>3, NearChain
<1>7. Near(Offset(e), Offset(d))
  <2> DEFINE a == d.slave_appl_ptr - slave_ptr - d.last_appl_ptr
  <2>1. a \in Int /\ d.hw_ptr + moved \in Int
    BY <1>1, <1>4
  <2>2. Near(a + e.hw_ptr, a + (d.hw_ptr + moved))
    BY <1>4, <1>6, <2>1, NearSelf, NearSums
  <2>3. a + e.hw_ptr = Offset(e)
    BY <1>1, <1>2, <1>4 DEF Offset
  <2>4. a + (d.hw_ptr + moved) = Offset(d)
    BY <1>1 DEF Offset, moved
  <2>5. QED
    BY <2>2, <2>3, <2>4
<1>8. Offset(e) \in Int /\ Offset(d) \in Int
  BY <1>1, <1>2, <1>4 DEF Offset
<1>9. PICK r \in 0 .. Period - 1 : Near(Offset(d), r)
  BY DEF InStep
<1>10. r \in Int
  BY Sizes
<1>11. Near(Offset(e), r)
  BY <1>7, <1>8, <1>9, <1>10, NearChain
<1>12. QED
  BY <1>2, <1>3, <1>9, <1>11 DEF InStep

(* Looked at in time, an early client's hw_ptr does not wrap.              *)
LEMMA SyncPtrRight ==
  ASSUME NEW early \in BOOLEAN, Fits(early), TypeOK, ticking, Follows(dmix),
         NEW d \in Client, d.hw_ptr = dmix.hw_ptr, d.slave_hw_ptr = dmix.slave_hw_ptr,
         Follows(d), Right(early, d)
  PROVE  Right(early, SyncPtr(d))
<1> DEFINE x == d.hw_ptr + Elapsed(d)
<1>1. /\ d.hw_ptr \in Nat /\ Elapsed(d) \in 0 .. SlaveBoundary - 1
      /\ Boundary \in Nat \ {0}
  <2>1. slave_ptr - d.slave_hw_ptr \in Int
    BY ClientFields, Types
  <2>2. (slave_ptr - d.slave_hw_ptr) % SlaveBoundary \in 0 .. SlaveBoundary - 1
    BY <2>1, Remainders
  <2>3. d.hw_ptr \in Nat /\ Boundary \in Nat \ {0}
    BY ClientFields, Sizes DEF Pointer
  <2>4. QED
    BY <2>2, <2>3 DEF Elapsed
<1>2. x \in Nat /\ x >= d.hw_ptr
  BY <1>1, Sizes
<1>3. CASE early
  <2>1. x < Boundary
    BY <1>3 DEF Fits, Timely, Elapsed
  <2>2. x % Boundary = x
    <3>1. x \in 0 .. Boundary - 1
      BY <1>1, <1>2, <2>1
    <3> HIDE DEF x
    <3>2. QED
      BY <1>1, <3>1
  <2>3. InStep(SyncPtr(d))
    <3>1. Near(x, x)
      BY <1>2, NearSelf
    <3>2. QED
      BY <2>2, <3>1, SyncPtrInStep DEF Right
  <2>4. SyncPtr(d).hw_ptr \in {d.hw_ptr, x}
    <3>1. /\ MovedHw(d).hw_ptr = x % Boundary
          /\ \A y : [MovedHw(d) EXCEPT !.state = y].hw_ptr = MovedHw(d).hw_ptr
          /\ \A y : [d EXCEPT !.state = y].hw_ptr = d.hw_ptr
      BY DEF MovedHw, Client
    <3> HIDE DEF x
    <3>2. QED
      BY <2>2, <3>1 DEF SyncPtr
  <2>5. d.appl_ptr \in Int /\ d.hw_ptr \in Int /\ x \in Int /\ BufferSize \in Int
    BY <1>2, ClientFields, Sizes
  <2> HIDE DEF x
  <2>6. /\ SyncPtr(d).appl_ptr = d.appl_ptr
        /\ SyncPtr(d).last_appl_ptr = d.last_appl_ptr
    BY SyncPtrKeeps
  <2>7. Kept(SyncPtr(d))
    <3>1. d.appl_ptr <= d.hw_ptr + BufferSize /\ d.appl_ptr <= x + BufferSize
      BY <1>2, <1>3, <2>5 DEF Right, Kept
    <3>2. QED
      BY <1>3, <2>4, <2>6, <3>1 DEF Right, Kept
  <2>8. QED
    BY <2>3, <2>7 DEF Right
<1>4. CASE ~early
  <2>1. Near(x % Boundary, x)
    BY <1>2, <1>4, NearWraps DEF Fits
  <2>2. QED
    BY <1>4, <2>1, SyncPtrInStep DEF Right
<1>5. QED
  BY <1>3, <1>4

(* A start, and a reset, of a client that has mixed up to its hw_ptr.      *)
LEMMA ResetInStep ==
  ASSUME NEW d, d.last_appl_ptr = d.hw_ptr, d.hw_ptr \in Int,
         d.slave_appl_ptr - d.slave_hw_ptr \in 0 .. Period - 1
  PROVE  InStep(d)
<1> DEFINE r == d.slave_appl_ptr - d.slave_hw_ptr
<1>1. r \in 0 .. Period - 1 /\ r \in Int
  BY Sizes
<1>2. Offset(d) = r
  <2> HIDE DEF r
  <2>1. r - (d.hw_ptr - d.hw_ptr) = r
    BY <1>1
  <2>2. QED
    BY <2>1 DEF Offset, r
<1> HIDE DEF r
<1>3. Near(Offset(d), r)
  BY <1>1, <1>2, NearSelf
<1>4. QED
  BY <1>1, <1>3 DEF InStep

(* A client started anew.                                                  *)
LEMMA StartRight ==
  ASSUME NEW early \in BOOLEAN, TypeOK, NEW d \in Client, d.last_appl_ptr = d.hw_ptr,
         early => Kept(d)
  PROVE  Right(early, StartTimer(d))
<1> DEFINE e == StartTimer(d)
<1>1. /\ e.last_appl_ptr = d.last_appl_ptr /\ e.hw_ptr = d.hw_ptr /\ e.appl_ptr = d.appl_ptr
      /\ d.hw_ptr \in Int
      /\ e.slave_appl_ptr - e.slave_hw_ptr \in 0 .. Period - 1
  BY StartTimerType, ClientFields
<1> HIDE DEF e
<1>2. InStep(e)
  BY <1>1, ResetInStep
<1>3. early => Kept(e)
  BY <1>1 DEF Kept
<1>4. QED
  BY <1>2, <1>3 DEF e, Right

(* A client of which only other fields change stays right, and in step     *)
(* whatever becomes of the application's pointer.                          *)
LEMMA SameOffset ==
  ASSUME NEW d \in Client, NEW e, InStep(d),
         e.slave_appl_ptr = d.slave_appl_ptr, e.slave_hw_ptr = d.slave_hw_ptr,
         e.last_appl_ptr = d.last_appl_ptr, e.hw_ptr = d.hw_ptr
  PROVE  InStep(e)
  BY DEF InStep, Offset

(* Being right depends on the five pointers only.                          *)
LEMMA SameRight ==
  ASSUME NEW early \in BOOLEAN, NEW d \in Client, NEW e, Right(early, d),
         e.slave_appl_ptr = d.slave_appl_ptr, e.slave_hw_ptr = d.slave_hw_ptr,
         e.last_appl_ptr = d.last_appl_ptr, e.hw_ptr = d.hw_ptr, e.appl_ptr = d.appl_ptr
  PROVE  Right(early, e)
  BY SameOffset DEF Right, Kept

(* What fits into the ring may be written, early in a stream.              *)
LEMMA WrittenKept ==
  ASSUME Short, NEW d \in Client, Kept(d), NEW n \in 1 .. MaxRequest,
         n <= ClientAvail(d), d.appl_ptr + n < Horizon
  PROVE  Kept([d EXCEPT !.appl_ptr = Forward(@, n)])
<1> DEFINE e == [d EXCEPT !.appl_ptr = Forward(@, n)]
<1>1. /\ d.appl_ptr \in Nat /\ d.last_appl_ptr \in Nat /\ d.hw_ptr \in Nat /\ n \in Nat
      /\ Boundary \in Nat \ {0} /\ BufferSize \in Nat \ {0} /\ Horizon \in Nat
  BY ClientFields, Sizes, DmixAssumption DEF Pointer, DmixAssumption
<1>2. d.appl_ptr + n < Boundary \div 2 /\ d.appl_ptr + n < Boundary
  BY <1>1 DEF Short
<1>3. d.appl_ptr + n <= d.hw_ptr + BufferSize
  BY <1>1 DEF ClientAvail, PlaybackAvail, Kept
<1>4. e.appl_ptr = d.appl_ptr + n /\ e.last_appl_ptr = d.last_appl_ptr /\ e.hw_ptr = d.hw_ptr
  BY <1>1, <1>2 DEF Forward, Client
<1> HIDE DEF e
<1>5. d.last_appl_ptr <= d.appl_ptr + n
  BY <1>1 DEF Kept
<1>6. QED
  BY <1>2, <1>3, <1>4, <1>5 DEF Kept, e

(* What is rewound before a start was not mixed.                           *)
LEMMA RewoundKept ==
  ASSUME NEW d \in Client, Kept(d), d.last_appl_ptr = d.hw_ptr, NEW n \in 1 .. MaxRequest,
         n <= MmapHwAvail("PLAYBACK", d.hw_ptr, d.appl_ptr)
  PROVE  Kept([d EXCEPT !.appl_ptr = Backward(@, n)])
<1> DEFINE e == [d EXCEPT !.appl_ptr = Backward(@, n)]
<1>1. /\ d.appl_ptr \in Nat /\ d.last_appl_ptr \in Nat /\ d.hw_ptr \in Nat /\ n \in Nat
      /\ Boundary \in Nat \ {0} /\ BufferSize \in Nat \ {0}
  BY ClientFields, Sizes, DmixAssumption DEF Pointer, DmixAssumption
<1>2. n <= d.appl_ptr - d.hw_ptr
  BY <1>1 DEF MmapHwAvail, Kept
<1>3. e.appl_ptr = d.appl_ptr - n /\ e.last_appl_ptr = d.last_appl_ptr /\ e.hw_ptr = d.hw_ptr
  BY <1>1, <1>2 DEF Backward, Client
<1> HIDE DEF e
<1>4. /\ d.appl_ptr < Boundary \div 2 /\ Boundary \div 2 \in Int
      /\ d.appl_ptr <= d.hw_ptr + BufferSize
  BY <1>1 DEF Kept
<1>5. QED
  BY <1>1, <1>2, <1>3, <1>4 DEF Kept, e

(* The calls of an application that keep a client right: a look, a write,  *)
(* a skip, a reset.                                                        *)
LEMMA LookLInv ==
  ASSUME NEW early \in BOOLEAN, Fits(early), DInv, LInv(early), Follows(dmix),
         dmix' = SyncPtr(dmix), ticking' => ticking
  PROVE  LInv(early)'
<1>1. dmix \in Client /\ TypeOK
  BY Types DEF DInv
<1>2. ticking' => Right(early, dmix')
  BY <1>1, SyncPtrRight DEF LInv
<1>3. dmix'.state \notin {"PREPARED", "RUN_PENDING"}
  BY <1>1, SyncPtrKeeps DEF Follows
<1>4. QED
  BY <1>2, <1>3 DEF LInv

(* A commit writes at appl_ptr, so what is left to mix grows by as much as *)
(* it; the sync after it moves hw_ptr by what the slave played.            *)
LEMMA CommitLInv ==
  ASSUME NEW early \in BOOLEAN, NEW n \in 1 .. MaxRequest, Fits(early), DInv, LInv(early),
         Commit(n)
  PROVE  LInv(early)'
<1> DEFINE written == [dmix EXCEPT !.appl_ptr = Forward(@, n)]
           synced  == IF dmix.state = "RUN_PENDING" THEN StartTimer(written)
                      ELSE IF Follows(dmix) THEN SyncPtr(written) ELSE written
<1>1. dmix \in Client /\ TypeOK /\ n <= ClientAvail(dmix) /\ dmix.appl_ptr + n < Horizon
  BY Types DEF DInv, Commit
<1>2. CASE slave = "SUSPENDED"
  BY <1>2 DEF Commit, LInv
<1>3. CASE slave # "SUSPENDED"
  <2>1. /\ written \in Client /\ written.state = dmix.state
        /\ written.last_appl_ptr = dmix.last_appl_ptr /\ written.hw_ptr = dmix.hw_ptr
        /\ written.slave_appl_ptr = dmix.slave_appl_ptr
        /\ written.slave_hw_ptr = dmix.slave_hw_ptr
    BY <1>1, Written
  <2>2. early /\ Kept(dmix) => Kept(written)
    BY <1>1, WrittenKept DEF Fits
  <2>3. /\ dmix' = IF Follows(synced) THEN SyncArea(synced) ELSE synced
        /\ IF dmix.state = "RUN_PENDING" \/ Follows(synced)
           THEN /\ ticking' = (ticking \/ dmix.state = "RUN_PENDING")
                /\ event' = (event /\ ClientAvail(synced) >= AvailMin)
           ELSE IF Follows(dmix) THEN TimerAfterSync(written)
           ELSE UNCHANGED <<ticking, event>>
    BY <1>3 DEF Commit
  <2> HIDE DEF written
  <2>4. synced \in Client
    BY <1>1, <2>1, StartTimerType, SyncPtrType
  <2>5. ticking' => ticking \/ dmix.state = "RUN_PENDING"
    BY <1>1, <2>1, <2>3, TimerTypes
  <2>6. /\ ticking' /\ Follows(synced) => Right(early, synced)
        /\ early /\ synced.state \in {"PREPARED", "RUN_PENDING"} => Kept(synced)
    <3>1. CASE dmix.state = "RUN_PENDING"
      <4>1. written.last_appl_ptr = written.hw_ptr /\ (early => Kept(written))
        BY <2>1, <2>2, <3>1 DEF DInv, Fresh, LInv
      <4>2. Right(early, synced) /\ synced.state = "RUNNING"
        BY <1>1, <2>1, <3>1, <4>1, StartRight, StartTimerType
      <4> HIDE DEF synced
      <4>3. QED
        BY <4>2
    <3>2. CASE Follows(dmix) /\ dmix.state # "RUN_PENDING"
      <4>1. synced = SyncPtr(written) /\ Follows(written)
        BY <2>1, <3>2 DEF Follows
      <4> HIDE DEF synced
      <4>2. ticking => Right(early, written)
        BY <1>1, <2>1, <2>2, <3>2, SameOffset DEF LInv, Right
      <4>3. ticking' => ticking
        BY <2>5, <3>2
      <4>4. synced.state \notin {"PREPARED", "RUN_PENDING"}
        BY <2>1, <4>1, SyncPtrKeeps DEF Follows
      <4>5. QED
        BY <1>1, <2>1, <3>2, <4>1, <4>2, <4>3, <4>4, SyncPtrRight
    <3>3. CASE dmix.state # "RUN_PENDING" /\ ~Follows(dmix)
      BY <2>1, <2>2, <3>3 DEF Follows, LInv
    <3>4. QED
      BY <3>1, <3>2, <3>3
  <2> HIDE DEF synced
  <2>7. /\ dmix'.state = synced.state
        /\ Follows(synced) => dmix' = SyncArea(synced)
        /\ ~Follows(synced) => dmix' = synced
    BY <2>3, <2>4, SyncAreaKeeps
  <2>8. CASE Follows(synced)
    <3>1. ticking' => Right(early, dmix')
      BY <2>4, <2>6, <2>7, <2>8, SyncAreaRight DEF Fits
    <3>2. QED
      BY <2>7, <2>8, <3>1 DEF LInv, Follows
  <2>9. CASE ~Follows(synced)
    BY <2>6, <2>7, <2>9 DEF LInv, Follows
  <2>10. QED
    BY <2>8, <2>9
<1>4. QED
  BY <1>2, <1>3

(* A forward leaves both rings alone; only what is left to mix grows.      *)
LEMMA SkipForwardLInv ==
  ASSUME NEW early \in BOOLEAN, NEW n \in 1 .. MaxRequest, Fits(early), DInv, LInv(early),
         SkipForward(n)
  PROVE  LInv(early)'
<1>1. /\ dmix \in Client /\ n <= ClientAvail(dmix) /\ dmix.appl_ptr + n < Horizon
      /\ dmix' = [dmix EXCEPT !.appl_ptr = Forward(@, n)] /\ UNCHANGED ticking
  BY Types DEF DInv, SkipForward
<1>2. early /\ Kept(dmix) => Kept(dmix')
  BY <1>1, WrittenKept DEF Fits
<1>3. /\ dmix'.state = dmix.state
      /\ dmix'.slave_appl_ptr = dmix.slave_appl_ptr /\ dmix'.slave_hw_ptr = dmix.slave_hw_ptr
      /\ dmix'.last_appl_ptr = dmix.last_appl_ptr /\ dmix'.hw_ptr = dmix.hw_ptr
  BY <1>1 DEF Client
<1>4. InStep(dmix) => InStep(dmix')
  BY <1>1, <1>3, SameOffset
<1>5. QED
  BY <1>1, <1>2, <1>3, <1>4 DEF LInv, Follows, Right

(* A reset has nothing left to mix, and takes the slave's pointer anew.    *)
LEMMA ResetLInv == ASSUME NEW early \in BOOLEAN, DInv, Reset PROVE LInv(early)'
<1> DEFINE p == dmix.hw_ptr % Period
           d == [dmix EXCEPT !.hw_ptr = p, !.appl_ptr = p, !.last_appl_ptr = p]
<1>1. dmix \in Client /\ TypeOK /\ DInv'
  BY Types, ResetDInv DEF DInv
<1>2. /\ d.last_appl_ptr = p /\ d.hw_ptr = p /\ d.appl_ptr = p
      /\ dmix' = ResetSlavePtr(d)
  BY <1>1 DEF Reset, Client
<1>3. p \in 0 .. Period - 1
  <2>1. dmix.hw_ptr \in Int
    BY <1>1, ClientFields
  <2>2. QED
    BY <2>1, Remainders
<1> HIDE DEF p
<1>4. p \in Pointer
  BY <1>3, PeriodBelow, Sizes DEF Pointer
<1>5. d \in Client
  BY <1>1, <1>4 DEF Client
<1>6. p < Boundary \div 2
  BY <1>3, PeriodFits, Sizes, RingAssumption DEF RingAssumption
<1> HIDE DEF d
<1>7. /\ dmix'.last_appl_ptr = p /\ dmix'.hw_ptr = p /\ dmix'.appl_ptr = p /\ p \in Int
      /\ dmix'.slave_appl_ptr - dmix'.slave_hw_ptr \in 0 .. Period - 1
  BY <1>1, <1>2, <1>3, <1>5, ResetSlavePtrType
<1>8. InStep(dmix')
  BY <1>7, ResetInStep
<1>9. Kept(dmix')
  BY <1>3, <1>6, <1>7, Sizes DEF Kept
<1>10. QED
  BY <1>8, <1>9 DEF LInv, Right

(* A prepared client does not follow the slave yet, and its pointers are   *)
(* all 0.                                                                  *)
LEMMA PrepareLInv == ASSUME NEW early \in BOOLEAN, DInv, Prepare PROVE LInv(early)'
<1>1. /\ dmix'.state = "PREPARED" /\ dmix'.last_appl_ptr = 0 /\ dmix'.hw_ptr = 0
      /\ dmix'.appl_ptr = 0
  BY DEF Prepare, DInv, TypeOK, Client
<1>2. 0 < Boundary \div 2
  BY RingAssumption DEF RingAssumption
<1>3. Kept(dmix')
  BY <1>1, <1>2, Sizes DEF Kept
<1>4. QED
  BY <1>1, <1>3 DEF LInv, Follows

(* A start, or a drain, of a prepared client.                              *)
LEMMA StartedRight ==
  ASSUME NEW early \in BOOLEAN, Fits(early), DInv, LInv(early), dmix.state = "PREPARED"
  PROVE  /\ Started(dmix).state = "RUNNING" => Right(early, Started(dmix))
         /\ early => Kept(Started(dmix))
<1>1. dmix \in Client /\ TypeOK /\ dmix.last_appl_ptr = dmix.hw_ptr /\ (early => Kept(dmix))
  BY Types DEF DInv, Fresh, LInv
<1>2. StartTimer(dmix) \in Client /\ Right(early, StartTimer(dmix))
  BY <1>1, StartTimerType, StartRight
<1>3. Right(early, SyncArea(StartTimer(dmix)))
  BY <1>2, SyncAreaRight DEF Fits
<1>4. CASE Started(dmix).state = "RUNNING"
  BY <1>3, <1>4, StartedKeeps DEF Right
<1>5. CASE Started(dmix).state # "RUNNING"
  <2>1. /\ [dmix EXCEPT !.state = "RUN_PENDING"].appl_ptr = dmix.appl_ptr
        /\ [dmix EXCEPT !.state = "RUN_PENDING"].last_appl_ptr = dmix.last_appl_ptr
        /\ [dmix EXCEPT !.state = "RUN_PENDING"].hw_ptr = dmix.hw_ptr
    BY <1>1 DEF Client
  <2>2. Started(dmix) = dmix \/ Started(dmix) = [dmix EXCEPT !.state = "RUN_PENDING"]
    <3>1. SyncArea(StartTimer(dmix)).state = "RUNNING"
      BY <1>1, <1>2, SyncAreaKeeps, StartTimerType
    <3>2. QED
      BY <1>5, <3>1 DEF Started
  <2>3. QED
    BY <1>1, <1>5, <2>1, <2>2 DEF Kept
<1>6. QED
  BY <1>4, <1>5

(* A start aligns the client with the slave before it mixes anything.      *)
LEMMA StartLInv ==
  ASSUME NEW early \in BOOLEAN, Fits(early), DInv, LInv(early), Start
  PROVE  LInv(early)'
<1>1. CASE dmix.state = "PREPARED"
  <2>1. dmix' = Started(dmix)
    BY <1>1 DEF Start
  <2>2. Follows(dmix') => dmix'.state = "RUNNING"
    BY <1>1, <2>1, StartedKeeps DEF Follows
  <2>3. QED
    BY <1>1, <2>1, <2>2, StartedRight DEF LInv
<1>2. CASE dmix.state # "PREPARED"
  BY <1>2 DEF Start, LInv
<1>3. QED
  BY <1>1, <1>2

(* A drain of a prepared client starts it first; a drain of a running one  *)
(* changes its threshold only.                                             *)
LEMMA DrainLInv ==
  ASSUME NEW early \in BOOLEAN, Fits(early), DInv, LInv(early), Drain,
         dmix.state # "SETUP", slave # "DISCONNECTED"
  PROVE  LInv(early)'
<1> DEFINE begun == IF dmix.state = "PREPARED" /\ ClientHwAvail(dmix) > 0
                    THEN Started(dmix) ELSE dmix
<1>1. dmix \in Client /\ TypeOK
  BY Types DEF DInv
<1>2. \/ UNCHANGED <<dmix, ticking>>
      \/ dmix' = [dmix EXCEPT !.state = "SETUP"]
      \/ /\ begun.state \notin {"PREPARED", "XRUN"}
         /\ dmix' = [begun EXCEPT !.state = "DRAINING",
                                  !.stop_threshold = Min({begun.stop_threshold, BufferSize})]
         /\ ticking' = (ticking \/ dmix.state = "PREPARED")
  BY DEF Drain
<1>3. CASE UNCHANGED <<dmix, ticking>>
  BY <1>3 DEF LInv
<1>4. CASE dmix' = [dmix EXCEPT !.state = "SETUP"]
  BY <1>1, <1>4 DEF LInv, Follows, Client
<1>5. CASE /\ begun.state \notin {"PREPARED", "XRUN"}
           /\ dmix' = [begun EXCEPT !.state = "DRAINING",
                                    !.stop_threshold = Min({begun.stop_threshold, BufferSize})]
           /\ ticking' = (ticking \/ dmix.state = "PREPARED")
  <2>1. begun \in Client
    BY <1>1, StartedKeeps
  <2>2. ticking' => Right(early, begun)
    <3>1. CASE dmix.state = "PREPARED"
      <4>1. begun = Started(dmix) /\ ClientHwAvail(dmix) > 0
        BY <1>5, <3>1
      <4> HIDE DEF begun
      <4>2. QED
        BY <3>1, <4>1, StartedKeeps, StartedRight
    <3>2. CASE dmix.state # "PREPARED"
      <4>1. begun = dmix /\ (ticking' => ticking)
        BY <1>1, <1>5, <3>2 DEF TypeOK
      <4>2. ticking => dmix.state \in {"RUNNING", "DRAINING"}
        BY <1>1, <1>5, <3>2, <4>1, ClientFields DEF DInv, Fresh, Gone, ClientState
      <4>3. QED
        BY <4>1, <4>2 DEF LInv, Follows
    <3>3. QED
      BY <3>1, <3>2
  <2> HIDE DEF begun
  <2>3. /\ dmix'.slave_appl_ptr = begun.slave_appl_ptr /\ dmix'.slave_hw_ptr = begun.slave_hw_ptr
        /\ dmix'.last_appl_ptr = begun.last_appl_ptr /\ dmix'.hw_ptr = begun.hw_ptr
        /\ dmix'.appl_ptr = begun.appl_ptr /\ dmix'.state = "DRAINING"
    BY <1>5, <2>1 DEF Client
  <2>4. QED
    BY <2>1, <2>2, <2>3, SameRight DEF LInv
<1>6. QED
  BY <1>2, <1>3, <1>4, <1>5

(* A rewind moves only the application's pointer, of a client not started. *)
LEMMA RewindLInv ==
  ASSUME NEW early \in BOOLEAN, Fits(early), DInv, LInv(early), NEW n \in 1 .. MaxRequest,
         Rewind(n), dmix.state \notin {"SETUP", "XRUN"}, slave # "DISCONNECTED"
  PROVE  LInv(early)'
<1>1. dmix \in Client /\ TypeOK
  BY Types DEF DInv
<1>2. CASE Follows(dmix)
  <2>1. dmix' = SyncPtr(dmix) /\ (ticking' => ticking)
    BY <1>1, <1>2, TimerTypes DEF Rewind
  <2>2. QED
    BY <1>2, <2>1, LookLInv
<1>3. CASE ~Follows(dmix)
  <2>1. dmix.state \in {"PREPARED", "RUN_PENDING"}
    BY <1>1, <1>3, ClientFields DEF DInv, Gone, ClientState, Follows
  <2>2. /\ n <= MmapHwAvail("PLAYBACK", dmix.hw_ptr, dmix.appl_ptr)
        /\ dmix' = [dmix EXCEPT !.appl_ptr = Backward(@, n)]
    BY <1>3, <2>1, RewoundFresh DEF Rewind
  <2>3. dmix'.state = dmix.state
    BY <1>1, <2>2 DEF Client
  <2>4. early => Kept(dmix')
    BY <1>1, <2>1, <2>2, RewoundKept DEF LInv, DInv, Fresh
  <2>5. QED
    BY <1>3, <2>3, <2>4 DEF LInv, Follows
<1>4. QED
  BY <1>2, <1>3

(* The loops of a drain and of a wait.                                     *)
LEMMA LoopsLInv ==
  ASSUME NEW early \in BOOLEAN, Fits(early), DInv, LInv(early), InCall
  PROVE  LInv(early)'
<1>1. dmix \in Client /\ TypeOK
  BY Types DEF DInv
<1>2. CASE DrainRound
  <2> DEFINE d == SyncPtr(dmix)
  <2>1. d \in Client
    BY <1>1, SyncPtrType
  <2>2. CASE SyncPtrError(dmix) < 0
    <3>1. dmix' = [d EXCEPT !.state = "SETUP"]
      BY <1>2, <2>2 DEF DrainRound
    <3> HIDE DEF d
    <3>2. dmix'.state = "SETUP"
      BY <2>1, <3>1 DEF Client
    <3>3. QED
      BY <3>2 DEF LInv, Follows
  <2>3. CASE ~(SyncPtrError(dmix) < 0)
    <3>1. /\ TimerAfterSync(dmix)
          /\ d.state = "DRAINING" => dmix' = SyncArea(d)
          /\ d.state # "DRAINING" => dmix' = [d EXCEPT !.stop_threshold = saved]
      BY <1>2, <2>3 DEF DrainRound
    <3>2. ticking' => ticking
      BY <1>1, <3>1, TimerTypes
    <3>3. d.state \in {"DRAINING", "SETUP", "DISCONNECTED"}
      BY <1>2, DrainLook DEF DrainRound
    <3>4. d.state = "DRAINING" /\ ticking => Right(early, d)
      <4>1. ~Follows(dmix) => d.state # "DRAINING"
        BY <1>1, SyncPtrKeeps DEF Follows
      <4>2. QED
        BY <1>1, <4>1, SyncPtrRight DEF LInv
    <3> HIDE DEF d
    <3>5. d.state # "DRAINING" => dmix'.state = d.state
      BY <2>1, <3>1 DEF Client
    <3>6. CASE d.state = "DRAINING"
      <4>1. dmix'.state = "DRAINING"
        BY <2>1, <3>1, <3>6, SyncAreaKeeps
      <4>2. ticking' => Right(early, dmix')
        BY <2>1, <3>1, <3>2, <3>4, <3>6, SyncAreaRight DEF Fits
      <4>3. QED
        BY <4>1, <4>2 DEF LInv
    <3>7. CASE d.state # "DRAINING"
      BY <3>3, <3>5, <3>7 DEF LInv, Follows
    <3>8. QED
      BY <3>6, <3>7
  <2>4. QED
    BY <2>2, <2>3
<1>3. CASE DrainPoll
  <2> DEFINE d == IF event THEN SyncPtr(dmix) ELSE dmix
  <2>1. /\ \/ dmix' = d
           \/ dmix' = [d EXCEPT !.stop_threshold = saved] /\ d.state # "DRAINING"
        /\ ticking' => ticking
    BY <1>1, <1>3 DEF DrainPoll, TypeOK
  <2>2. d \in Client /\ d.state \in {"DRAINING", "SETUP", "DISCONNECTED"}
    <3>1. pc = "drainpoll" /\ dmix.state = "DRAINING"
      BY <1>3 DEF DInv, Draining, DrainPoll
    <3>2. QED
      BY <1>1, <3>1, DrainLook
  <2>3. ticking /\ Follows(d) => Right(early, d)
    <3>1. CASE event
      <4>1. d = SyncPtr(dmix)
        BY <3>1
      <4>2. Follows(SyncPtr(dmix)) => Follows(dmix)
        BY <1>1, SyncPtrKeeps DEF Follows
      <4>3. QED
        BY <1>1, <4>1, <4>2, SyncPtrRight DEF LInv
    <3>2. CASE ~event
      BY <3>2 DEF LInv
    <3>3. QED
      BY <3>1, <3>2
  <2> HIDE DEF d
  <2>4. CASE dmix' = d
    BY <2>1, <2>2, <2>3, <2>4 DEF LInv
  <2>5. CASE dmix' = [d EXCEPT !.stop_threshold = saved] /\ d.state # "DRAINING"
    <3>1. dmix'.state = d.state
      BY <2>2, <2>5 DEF Client
    <3>2. QED
      BY <2>2, <2>5, <3>1 DEF LInv, Follows
  <2>6. QED
    BY <2>1, <2>4, <2>5
<1>4. CASE Poll
  <2> DEFINE a == IF dmix.state = "RUNNING" THEN SyncArea(dmix) ELSE dmix
             d == IF event /\ Follows(a) THEN SyncPtr(a) ELSE a
  <2>1. dmix' = d /\ (ticking' => ticking)
    BY <1>1, <1>4 DEF Poll, TypeOK
  <2>2. /\ a \in Client /\ a.state = dmix.state /\ a.hw_ptr = dmix.hw_ptr
        /\ a.slave_hw_ptr = dmix.slave_hw_ptr
        /\ dmix.state # "RUNNING" => a = dmix
    BY <1>1, SyncAreaType, SyncAreaKeeps
  <2>3. ticking /\ Follows(a) => Right(early, a)
    <3>1. Follows(a) => Follows(dmix)
      BY <2>2 DEF Follows
    <3>2. QED
      BY <1>1, <3>1, SyncAreaRight DEF LInv, Fits
  <2> HIDE DEF a
  <2>4. CASE event /\ Follows(a)
    <3>1. Follows(dmix) /\ dmix' = SyncPtr(a)
      BY <2>1, <2>2, <2>4 DEF Follows
    <3>2. ticking' => Right(early, dmix')
      BY <1>1, <2>1, <2>2, <2>3, <2>4, <3>1, SyncPtrRight
    <3>3. dmix'.state \notin {"PREPARED", "RUN_PENDING"}
      BY <2>2, <2>4, <3>1, SyncPtrKeeps DEF Follows
    <3>4. QED
      BY <3>2, <3>3 DEF LInv
  <2>5. CASE ~(event /\ Follows(a))
    <3>1. dmix' = a
      BY <2>1, <2>5
    <3>2. dmix.state # "RUNNING" => dmix' = dmix
      BY <2>2, <3>1
    <3>3. QED
      BY <2>1, <2>2, <2>3, <3>1, <3>2 DEF LInv, Follows
  <2>6. QED
    BY <2>4, <2>5
<1>5. QED
  BY <1>2, <1>3, <1>4 DEF InCall

(* Every step keeps a client right.                                        *)
LEMMA NextLInv ==
  ASSUME NEW early \in BOOLEAN, Fits(early), DInv, LInv(early), [Next]_vars
  PROVE  LInv(early)'
<1>1. dmix \in Client /\ TypeOK
  BY Types DEF DInv
<1>2. CASE InCall
  BY <1>2, LoopsLInv
<1>3. CASE Drop
  <2>1. dmix'.state = "SETUP"
    BY <1>1, <1>3 DEF Drop, Client
  <2>2. QED
    BY <2>1 DEF LInv, Follows
<1>4. CASE AvailUpdate
  <2>1. dmix' = SyncPtr(dmix) /\ Follows(dmix) /\ (ticking' => ticking)
    BY <1>1, <1>4, TimerTypes DEF AvailUpdate
  <2>2. QED
    BY <2>1, LookLInv
<1>5. CASE UNCHANGED <<dmix, ticking>>
  BY <1>5 DEF LInv
<1>6. CASE Resume \/ Wait \/ Tick \/ Suspend \/ Disconnect \/ UNCHANGED vars
  BY <1>5, <1>6 DEF Resume, Wait, Tick, Suspend, Disconnect, vars
<1>7. CASE /\ slave # "DISCONNECTED" /\ dmix.state # "SETUP"
           /\ \/ Reset \/ Start \/ Drain
              \/ \E n \in 1 .. MaxRequest :
                   dmix.state # "XRUN" /\ (Commit(n) \/ SkipForward(n) \/ Rewind(n))
  BY <1>7, ResetLInv, StartLInv, DrainLInv, CommitLInv, SkipForwardLInv, RewindLInv
<1>8. CASE UserCall
  BY <1>3, <1>4, <1>6, <1>7, <1>8, PrepareLInv DEF UserCall
<1>9. QED
  BY <1>2, <1>6, <1>8 DEF Next

(* A client that was just set up does not follow the slave.                *)
LEMMA InitLInv == ASSUME NEW early \in BOOLEAN PROVE Init => LInv(early)
  BY DEF Init, LInv

(* A client in step is seen in step.                                       *)
LEMMA InStepSeen ==
  ASSUME NEW early \in BOOLEAN
  PROVE  DInv /\ LInv(early) => Lockstep
<1> SUFFICES ASSUME DInv, LInv(early), Playing
             PROVE  Offset(dmix) % SlaveBoundary < Period
  BY DEF Lockstep, Offset
<1>1. dmix \in Client
  BY Types DEF DInv
<1>2. PICK r \in 0 .. Period - 1 : Near(Offset(dmix), r)
  BY DEF LInv, Playing, Right, InStep
<1>3. Offset(dmix) \in Int
  BY <1>1, ClientFields DEF Offset
<1>4. Offset(dmix) % SlaveBoundary = r % SlaveBoundary
  BY <1>2, <1>3, NearSame
<1>5. r \in 0 .. SlaveBoundary - 1
  BY Sizes
<1>6. r % SlaveBoundary = r
  BY <1>5, Sizes
<1>7. QED
  BY <1>4, <1>5, <1>6, Sizes

(***************************************************************************)
(* A client's delay is that of the sound it has in the slave ring, through *)
(* wraps of both rings' pointers, xruns, skips, resets and a card that     *)
(* resumes anywhere, when the boundaries suit each other.                  *)
(***************************************************************************)
THEOREM SpecLockstep == ASSUME Aligned PROVE Spec => []Lockstep
<1>1. FALSE \in BOOLEAN /\ Fits(FALSE)
  BY DEF Fits
<1>2. Init => LInv(FALSE)
  BY <1>1, InitLInv
<1>3. DInv /\ LInv(FALSE) => Lockstep
  BY <1>1, InStepSeen
<1>4. DInv /\ LInv(FALSE) /\ [Next]_vars => LInv(FALSE)'
  BY <1>1, NextLInv
<1>5. QED
  BY <1>2, <1>3, <1>4, InitDInv, NextDInv, PTL DEF Spec

------------------------------------------------------------------------------
(* An early stream.                                                        *)

(* The frames from the slave's hw_ptr to a client's place are what the two *)
(* are apart, up to the slave's boundary.                                  *)
LEMMA QueuedNear ==
  ASSUME NEW d \in Client
  PROVE  /\ SlaveQueued(d) \in 0 .. SlaveBoundary
         /\ Near(SlaveQueued(d), d.slave_appl_ptr - d.slave_hw_ptr)
<1>1. /\ d.slave_appl_ptr \in 0 .. SlaveBoundary /\ d.slave_hw_ptr \in 0 .. SlaveBoundary - 1
      /\ SlaveBoundary \in Nat \ {0}
  BY ClientFields, Sizes
<1> DEFINE a == d.slave_appl_ptr - d.slave_hw_ptr
<1>2. a \in Int
  BY <1>1
<1>3. CASE d.slave_hw_ptr <= d.slave_appl_ptr
  <2>1. SlaveQueued(d) = a /\ a \in 0 .. SlaveBoundary
    BY <1>1, <1>3 DEF SlaveQueued
  <2>2. QED
    BY <1>2, <2>1, NearSelf
<1>4. CASE ~(d.slave_hw_ptr <= d.slave_appl_ptr)
  <2>1. /\ SlaveQueued(d) = d.slave_appl_ptr + (SlaveBoundary - d.slave_hw_ptr)
        /\ SlaveQueued(d) \in 0 .. SlaveBoundary
    BY <1>1, <1>4 DEF SlaveQueued
  <2>2. SlaveQueued(d) - a = SlaveBoundary * 1 /\ 1 \in Int
    BY <1>1, <2>1
  <2>3. Near(SlaveQueued(d), a)
    BY <2>2 DEF Near
  <2>4. QED
    BY <2>1, <2>3
<1>5. QED
  BY <1>3, <1>4

(* What is left to mix when nothing was missed: the client's hw_ptr is     *)
(* less than a period past the last frame mixed.                           *)
LEMMA NothingMissed ==
  ASSUME NEW d \in Client, Right(TRUE, d), SlaveQueued(d) <= SlaveSize,
         d.hw_ptr - d.last_appl_ptr < SlaveBoundary - SlaveSize
  PROVE  d.hw_ptr - d.last_appl_ptr < Period
<1> DEFINE queued == SlaveQueued(d)
           lag == d.hw_ptr - d.last_appl_ptr
<1>1. /\ d.hw_ptr \in Int /\ d.last_appl_ptr \in Int
      /\ d.slave_appl_ptr \in Int /\ d.slave_hw_ptr \in Int
      /\ SlaveBoundary \in Nat \ {0} /\ SlaveSize \in Nat /\ Period \in Nat \ {0}
  BY ClientFields, Sizes
<1>2. queued \in Nat /\ queued \in Int /\ queued <= SlaveSize /\ lag \in Int
  BY <1>1, QueuedNear
<1>3. PICK r \in 0 .. Period - 1 : Near(Offset(d), r)
  BY DEF Right, InStep
<1>4. r \in Int /\ Offset(d) \in Int
  BY <1>1 DEF Offset
<1>5. Near(queued + lag, Offset(d))
  <2> DEFINE apart == d.slave_appl_ptr - d.slave_hw_ptr
  <2>1. apart \in Int /\ Near(queued, apart) /\ Near(lag, lag)
    BY <1>1, <1>2, QueuedNear, NearSelf
  <2>2. apart + lag = Offset(d)
    BY <1>1 DEF Offset
  <2> HIDE DEF apart, queued, lag
  <2>3. QED
    BY <1>2, <2>1, <2>2, NearSums
<1> SUFFICES ASSUME lag >= Period PROVE FALSE
  BY <1>1, <1>2
<1>6. queued + lag \in Period .. SlaveBoundary - 1 /\ queued + lag \in Int
  BY <1>1, <1>2
<1> HIDE DEF queued, lag
<1>7. (queued + lag) % SlaveBoundary = r % SlaveBoundary
  <2>1. Near(queued + lag, r)
    BY <1>3, <1>4, <1>5, <1>6, NearChain
  <2>2. QED
    BY <1>4, <1>6, <2>1, NearSame
<1>8. r \in 0 .. SlaveBoundary - 1
  BY Sizes
<1>9. r % SlaveBoundary = r
  BY <1>1, <1>8
<1>10. (queued + lag) % SlaveBoundary = queued + lag
  <2> DEFINE q == queued + lag
  <2>1. q \in 0 .. SlaveBoundary - 1
    BY <1>1, <1>6
  <2> HIDE DEF q
  <2>2. q % SlaveBoundary = q
    BY <1>1, <2>1
  <2>3. QED
    BY <2>2 DEF q
<1>11. QED
  BY <1>1, <1>4, <1>6, <1>7, <1>9, <1>10

(* What was missed is skipped whole: the number of frames to skip, taken   *)
(* in unsigned arithmetic, is more than there are.                         *)
LEMMA SkipsAll ==
  ASSUME NEW d \in Client, Kept(d), SlaveQueued(d) > SlaveSize
  PROVE  /\ SkipMissed(d).last_appl_ptr = d.appl_ptr
         /\ SkipMissed(d).appl_ptr = d.appl_ptr
<1> DEFINE queued == SlaveQueued(d)
           x == (SlaveSize - queued) % Word
           m == Min({x, Unmixed(d)})
<1>1. /\ queued \in 0 .. SlaveBoundary /\ queued > SlaveSize /\ SlaveSize \in Nat
      /\ Word \in Nat \ {0} /\ Boundary \in Nat \ {0} /\ SlaveBoundary \in Nat \ {0}
      /\ Word >= 2 * Boundary /\ Word >= 2 * SlaveBoundary
  BY QueuedNear, Sizes, DmixAssumption DEF DmixAssumption
<1> HIDE DEF queued
<1>2. x = Word + SlaveSize - queued
  <2> DEFINE y == Word + SlaveSize - queued
             z == SlaveSize - queued
  <2>1. y \in 0 .. Word - 1 /\ y \in Int /\ z \in Int /\ y - z = Word * 1 /\ 1 \in Int
    BY <1>1
  <2> HIDE DEF y, z
  <2>2. y % Word = y
    BY <1>1, <2>1
  <2>3. y % Word = z % Word
    BY <1>1, <2>1, ModEqual
  <2>4. QED
    BY <2>2, <2>3 DEF y, z
<1>3. /\ Unmixed(d) = d.appl_ptr - d.last_appl_ptr /\ Unmixed(d) \in 0 .. Boundary - 1
      /\ d.appl_ptr \in Int /\ d.last_appl_ptr \in Int
  BY UnmixedKept, ClientFields
<1>4. x \in Int /\ Unmixed(d) \in Int /\ Unmixed(d) <= x
  BY <1>1, <1>2, <1>3
<1> HIDE DEF x
<1>5. m = Unmixed(d)
  BY <1>4, MinOfTwo
<1>6. SkipMissed(d) = Advance(d, Unmixed(d))
  BY <1>1, <1>5 DEF SkipMissed, queued, x
<1>7. Unmixed(d) \in 0 .. Unmixed(d)
  BY <1>3
<1>8. Advance(d, Unmixed(d)).last_appl_ptr = d.last_appl_ptr + Unmixed(d)
  BY <1>7, AdvanceKept
<1>9. Advance(d, Unmixed(d)).appl_ptr = d.appl_ptr
  BY DEF Advance, Client
<1>10. QED
  BY <1>3, <1>6, <1>8, <1>9

(* What is left to mix, once missed frames are skipped.                    *)
LEMMA LeftToMix ==
  ASSUME NEW d \in Client, Right(TRUE, d),
         d.hw_ptr - d.last_appl_ptr < SlaveBoundary - SlaveSize
  PROVE  (SkipMissed(d).appl_ptr - SkipMissed(d).last_appl_ptr) % Boundary
           < BufferSize + Period
<1>1. /\ d.appl_ptr \in 0 .. Boundary - 1 /\ d.last_appl_ptr \in 0 .. Boundary - 1
      /\ d.hw_ptr \in Int /\ Kept(d)
      /\ Boundary \in Nat \ {0} /\ BufferSize \in Nat \ {0} /\ Period \in Nat \ {0}
      /\ SlaveQueued(d) \in Int /\ SlaveSize \in Int
  BY ClientFields, QueuedNear, Sizes DEF Pointer, Right
<1>2. CASE SlaveQueued(d) > SlaveSize
  <2>1. SkipMissed(d).appl_ptr - SkipMissed(d).last_appl_ptr = 0
    BY <1>1, <1>2, SkipsAll
  <2>2. 0 % Boundary = 0
    BY <1>1
  <2>3. QED
    BY <1>1, <2>1, <2>2
<1>3. CASE SlaveQueued(d) <= SlaveSize
  <2> DEFINE a == d.appl_ptr - d.last_appl_ptr
  <2>1. SkipMissed(d) = d
    BY <1>3, AreaFrames
  <2>2. d.hw_ptr - d.last_appl_ptr < Period
    BY <1>3, NothingMissed
  <2>3. a \in 0 .. Boundary - 1 /\ a < BufferSize + Period
    BY <1>1, <2>2 DEF Kept
  <2> HIDE DEF a
  <2>4. a % Boundary = a
    BY <1>1, <2>3
  <2>5. QED
    BY <2>1, <2>3, <2>4 DEF a
<1>4. QED
  BY <1>1, <1>2, <1>3

(***************************************************************************)
(* Early in a stream, and looked at in time, a client is in step whatever  *)
(* the two boundaries are, and what it mixes was written before and fits   *)
(* into a ring and the alignment of the start.                             *)
(***************************************************************************)
THEOREM SpecMixesOnlyWritten ==
  ASSUME Short
  PROVE  Spec /\ []Timely => [](MixesOnlyWritten /\ Lockstep)
<1>1. TRUE \in BOOLEAN /\ (Timely => Fits(TRUE))
  BY DEF Fits
<1>2. Init => LInv(TRUE)
  BY <1>1, InitLInv
<1>3. DInv /\ LInv(TRUE) => Lockstep
  BY <1>1, InStepSeen
<1>4. DInv /\ LInv(TRUE) /\ Timely => MixesOnlyWritten
  <2> SUFFICES ASSUME DInv, LInv(TRUE), Timely, Playing
               PROVE  (SkipMissed(dmix).appl_ptr - SkipMissed(dmix).last_appl_ptr) % Boundary
                        < BufferSize + Period
    BY DEF MixesOnlyWritten
  <2>1. dmix \in Client /\ TypeOK /\ Right(TRUE, dmix)
    BY Types DEF DInv, LInv, Playing
  <2>2. dmix.hw_ptr - dmix.last_appl_ptr < SlaveBoundary - SlaveSize
    <3>1. dmix.hw_ptr + Elapsed(dmix) - dmix.last_appl_ptr < SlaveBoundary - SlaveSize
      BY DEF Timely, Playing
    <3>2. slave_ptr - dmix.slave_hw_ptr \in Int
      BY <2>1, ClientFields, Types
    <3>3. Elapsed(dmix) \in 0 .. SlaveBoundary - 1
      BY <3>2, Remainders DEF Elapsed
    <3>4. QED
      BY <2>1, <3>1, <3>3, ClientFields, Sizes
  <2>3. QED
    BY <2>1, <2>2, LeftToMix
<1>5. DInv /\ LInv(TRUE) /\ Timely /\ [Next]_vars => LInv(TRUE)'
  BY <1>1, NextLInv
<1>6. QED
  BY <1>2, <1>3, <1>4, <1>5, InitDInv, NextDInv, PTL DEF Spec
===============================================================================
