---------------------------- MODULE PcmRingProofs ----------------------------
(***************************************************************************)
(* What the pointer arithmetic of PcmRing returns, for every ring and      *)
(* every boundary: the facts the proofs about the PCMs rest on.            *)
(***************************************************************************)
EXTENDS PcmRing, Sequences, SequenceTheorems, TLAPS

(* The smaller of two, and the smallest of four.                           *)
LEMMA MinOfTwo ==
  ASSUME NEW a \in Int, NEW b \in Int
  PROVE  Min({a, b}) = IF a <= b THEN a ELSE b
<1>1. \E x \in {a, b} : \A y \in {a, b} : x <= y
  OBVIOUS
<1>2. Min({a, b}) \in {a, b} /\ \A y \in {a, b} : Min({a, b}) <= y
  BY <1>1 DEF Min
<1>3. QED
  BY <1>2

(* The smallest of four is one of them, and below each.                    *)
LEMMA MinOfFour ==
  ASSUME NEW a \in Int, NEW b \in Int, NEW c \in Int, NEW d \in Int
  PROVE  /\ Min({a, b, c, d}) \in {a, b, c, d}
         /\ Min({a, b, c, d}) <= a
         /\ Min({a, b, c, d}) <= b
         /\ Min({a, b, c, d}) <= c
         /\ Min({a, b, c, d}) <= d
<1>1. \E x \in {a, b, c, d} : \A y \in {a, b, c, d} : x <= y
  OBVIOUS
<1>2. /\ Min({a, b, c, d}) \in {a, b, c, d}
      /\ \A y \in {a, b, c, d} : Min({a, b, c, d}) <= y
  BY <1>1 DEF Min
<1>3. QED
  BY <1>2

(* The pointers stay below the boundary.                                   *)
LEMMA ForwardType ==
  ASSUME NEW p \in Pointer, NEW n \in 0 .. Boundary
  PROVE  Forward(p, n) \in Pointer
  BY RingAssumption DEF RingAssumption, Pointer, Forward

(* Moving back wraps the same way.                                         *)
LEMMA BackwardType ==
  ASSUME NEW p \in Pointer, NEW n \in 0 .. Boundary
  PROVE  Backward(p, n) \in Pointer
  BY RingAssumption DEF RingAssumption, Pointer, Backward

(* A pointer's slot is a slot of the ring.                                 *)
LEMMA SlotType ==
  ASSUME NEW p \in Pointer
  PROVE  SlotOf(p) \in Slot
  BY RingAssumption DEF RingAssumption, Pointer, Slot, SlotOf

(* Avail is a number of frames below the boundary, whatever the pointers.  *)
LEMMA AvailType ==
  ASSUME NEW s, NEW hw \in Pointer, NEW appl \in Pointer
  PROVE  MmapAvail(s, hw, appl) \in 0 .. Boundary - 1
  BY RingAssumption
  DEF RingAssumption, Pointer, MmapAvail, PlaybackAvail, CaptureAvail

(* An empty ring has all its frames free and none to read.                 *)
LEMMA AvailEmpty ==
  ASSUME NEW p \in Pointer
  PROVE  /\ MmapAvail("PLAYBACK", p, p) = BufferSize
         /\ MmapAvail("CAPTURE", p, p) = 0
  BY RingAssumption
  DEF RingAssumption, Pointer, MmapAvail, PlaybackAvail, CaptureAvail

(* The application takes what it moves from avail ...                      *)
LEMMA AvailForwardAppl ==
  ASSUME NEW s, NEW hw \in Pointer, NEW appl \in Pointer,
         NEW n \in 0 .. MmapAvail(s, hw, appl)
  PROVE  MmapAvail(s, hw, Forward(appl, n)) = MmapAvail(s, hw, appl) - n
  BY RingAssumption
  DEF RingAssumption, Pointer, MmapAvail, PlaybackAvail, CaptureAvail, Forward

(* ... gives back what it rewinds ...                                      *)
LEMMA AvailBackwardAppl ==
  ASSUME NEW s, NEW hw \in Pointer, NEW appl \in Pointer,
         NEW n \in Nat, MmapAvail(s, hw, appl) + n < Boundary
  PROVE  MmapAvail(s, hw, Backward(appl, n)) = MmapAvail(s, hw, appl) + n
  BY RingAssumption, AvailType
  DEF RingAssumption, Pointer, MmapAvail, PlaybackAvail, CaptureAvail, Backward

(* ... and the hardware adds what it moves, as long as it does not get a   *)
(* whole boundary ahead.                                                   *)
LEMMA AvailForwardHw ==
  ASSUME NEW s, NEW hw \in Pointer, NEW appl \in Pointer,
         NEW n \in Nat, MmapAvail(s, hw, appl) + n < Boundary
  PROVE  MmapAvail(s, Forward(hw, n), appl) = MmapAvail(s, hw, appl) + n
  BY RingAssumption, AvailType
  DEF RingAssumption, Pointer, MmapAvail, PlaybackAvail, CaptureAvail, Forward

(* snd_pcm_mmap_begin offers no more than is asked for, is available, and  *)
(* is contiguous in the ring; and something, if anything is available.     *)
LEMMA BeginFramesBounds ==
  ASSUME NEW s, NEW hw \in Pointer, NEW appl \in Pointer, NEW n \in Nat
  PROVE  /\ BeginFrames(s, hw, appl, n) \in Nat
         /\ BeginFrames(s, hw, appl, n) <= n
         /\ BeginFrames(s, hw, appl, n) <= MmapAvail(s, hw, appl)
         /\ BeginFrames(s, hw, appl, n) <= BufferSize - SlotOf(appl)
         /\ n > 0 /\ MmapAvail(s, hw, appl) > 0 => BeginFrames(s, hw, appl, n) > 0
<1>1. MmapAvail(s, hw, appl) \in 0 .. Boundary - 1
  BY AvailType
<1>2. SlotOf(appl) \in 0 .. BufferSize - 1
  BY SlotType DEF Slot
<1>3. BufferSize \in Int /\ BufferSize > 0 /\ BufferSize - SlotOf(appl) \in 1 .. BufferSize
  BY <1>2, RingAssumption DEF RingAssumption
<1> DEFINE room == BufferSize - SlotOf(appl)
           avail == MmapAvail(s, hw, appl)
           f == Min({n, avail, BufferSize, room})
<1>4. BeginFrames(s, hw, appl, n) = f
  BY DEF BeginFrames
<1>5. n \in Int /\ avail \in Nat /\ BufferSize \in Int /\ room \in Int /\ room > 0
  BY <1>1, <1>3, RingAssumption DEF RingAssumption
<1> HIDE DEF avail, room
<1>6. f \in {n, avail, BufferSize, room} /\ f <= n /\ f <= avail /\ f <= BufferSize /\ f <= room
  <2>1. avail \in Int
    BY <1>5
  <2>2. QED
    BY <1>5, <2>1, MinOfFour, Zenon
<1> HIDE DEF f
<1>7. f \in Nat /\ f <= n /\ f <= avail /\ f <= room /\ (n > 0 /\ avail > 0 => f > 0)
  BY <1>3, <1>5, <1>6
<1>8. QED
  BY <1>4, <1>7 DEF avail, room

------------------------------------------------------------------------------
(* Slots.                                                                  *)

(* What the remainder and the quotient are.                                *)
LEMMA DivMod ==
  ASSUME NEW a \in Int, NEW b \in Nat \ {0}
  PROVE  /\ a % b \in 0 .. b - 1
         /\ a \div b \in Int
         /\ a = b * (a \div b) + (a % b)
  OBVIOUS

(* Two remainders that differ by a multiple are one.                       *)
LEMMA RemainderUnique ==
  ASSUME NEW b \in Nat \ {0}, NEW k \in Int, NEW r \in 0 .. b - 1, NEW s \in 0 .. b - 1,
         b * k = s - r
  PROVE  r = s
<1>1. k >= 1 => b * k >= b
  OBVIOUS
<1>2. k <= -1 => b * k <= -b
  OBVIOUS
<1>3. k = 0
  BY <1>1, <1>2
<1>4. QED
  BY <1>3

(* Numbers a multiple of b apart have one remainder.                       *)
LEMMA ModEqual ==
  ASSUME NEW b \in Nat \ {0}, NEW a \in Int, NEW c \in Int, NEW k \in Int, a - c = b * k
  PROVE  a % b = c % b
<1> DEFINE ka == a \div b
           ra == a % b
           kc == c \div b
           rc == c % b
<1>1. /\ ka \in Int /\ ra \in 0 .. b - 1 /\ a = b * ka + ra
      /\ kc \in Int /\ rc \in 0 .. b - 1 /\ c = b * kc + rc
  BY DivMod
<1> HIDE DEF ka, ra, kc, rc
<1> DEFINE d == k - ka + kc
<1>2. d \in Int /\ b * d = ra - rc
  BY <1>1
<1> HIDE DEF d
<1>3. ra = rc
  BY <1>1, <1>2, RemainderUnique
<1>4. QED
  BY <1>3 DEF ra, rc

(* Wrapping at the boundary does not show in the slot: the boundary is a   *)
(* multiple of the ring's size.                                            *)
LEMMA SlotForward ==
  ASSUME NEW p \in Pointer, NEW n \in 0 .. Boundary
  PROVE  SlotOf(Forward(p, n)) = (p + n) % BufferSize
<1>1. /\ BufferSize \in Nat \ {0} /\ Boundary \in Nat /\ p \in Int /\ n \in Int
      /\ Boundary % BufferSize = 0
  BY RingAssumption DEF RingAssumption, Pointer
<1> DEFINE k == Boundary \div BufferSize
<1>2. k \in Int /\ Boundary = BufferSize * k
  BY <1>1, DivMod
<1> HIDE DEF k
<1>3. CASE p + n >= Boundary
  <2> DEFINE u == p + n
             v == p + n - Boundary
  <2>1. u \in Int /\ v \in Int /\ u - v = BufferSize * k
    BY <1>1, <1>2
  <2> HIDE DEF u, v
  <2>2. u % BufferSize = v % BufferSize
    <3>1. BufferSize \in Nat \ {0}
      BY <1>1
    <3>2. k \in Int
      BY <1>2
    <3>3. u \in Int
      BY <2>1
    <3>4. v \in Int
      BY <2>1
    <3>5. u - v = BufferSize * k
      BY <2>1
    <3>6. QED
      BY <3>1, <3>2, <3>3, <3>4, <3>5, ModEqual
  <2>3. QED
    BY <1>3, <2>2 DEF SlotOf, Forward, u, v
<1>4. CASE ~(p + n >= Boundary)
  BY <1>4 DEF SlotOf, Forward
<1>5. QED
  BY <1>3, <1>4

(* Frames less than a ring apart lie in different slots.                   *)
LEMMA SlotsApart ==
  ASSUME NEW p \in Pointer, NEW i \in 0 .. Boundary, NEW j \in 0 .. Boundary,
         i - j < BufferSize, j - i < BufferSize,
         SlotOf(Forward(p, i)) = SlotOf(Forward(p, j))
  PROVE  i = j
<1> DEFINE u == p + i
           v == p + j
<1>1. /\ BufferSize \in Nat \ {0} /\ i \in Int /\ j \in Int
      /\ u \in Int /\ v \in Int /\ u - v = i - j
  BY RingAssumption DEF RingAssumption, Pointer
<1>2. u % BufferSize = v % BufferSize
  BY SlotForward
<1> HIDE DEF u, v
<1> DEFINE a == u \div BufferSize
           b == v \div BufferSize
           s == u % BufferSize
<1>3. /\ a \in Int /\ b \in Int /\ s \in Int
      /\ u = BufferSize * a + s /\ v = BufferSize * b + s
  BY <1>1, <1>2, DivMod
<1> HIDE DEF a, b, s
<1> DEFINE d == a - b
<1>4. d \in Int /\ BufferSize * d = i - j
  BY <1>1, <1>3
<1> HIDE DEF d
<1>5. d >= 1 => BufferSize * d >= BufferSize
  BY <1>1, <1>4
<1>6. d <= -1 => BufferSize * d <= -BufferSize
  BY <1>1, <1>4
<1>7. d = 0
  BY <1>1, <1>4, <1>5, <1>6
<1>8. QED
  BY <1>1, <1>4, <1>7

(* Two moves on are one.                                                   *)
LEMMA ForwardForward ==
  ASSUME NEW p \in Pointer, NEW m \in Nat, NEW n \in Nat, m + n <= Boundary
  PROVE  Forward(Forward(p, m), n) = Forward(p, m + n)
  BY RingAssumption DEF RingAssumption, Pointer, Forward

(* A move back and on ends where a shorter one does.                       *)
LEMMA BackwardForward ==
  ASSUME NEW p \in Pointer, NEW m \in Nat, NEW n \in Nat, m <= Boundary, n <= m
  PROVE  /\ Forward(Backward(p, m), m) = p
         /\ Backward(Forward(p, m), n) = Forward(p, m - n)
  BY RingAssumption DEF RingAssumption, Pointer, Forward, Backward

(* appl is where the hardware's frames end ..                              *)
LEMMA ApplAfterHw ==
  ASSUME NEW hw \in Pointer, NEW appl \in Pointer, MmapAvail("PLAYBACK", hw, appl) <= BufferSize
  PROVE  appl = Forward(hw, HwAvail("PLAYBACK", hw, appl))
  BY RingAssumption
  DEF RingAssumption, Pointer, MmapAvail, HwAvail, PlaybackAvail, Forward

(* .. and on capture hw is where the application's do.                     *)
LEMMA HwAfterAppl ==
  ASSUME NEW hw \in Pointer, NEW appl \in Pointer
  PROVE  hw = Forward(appl, MmapAvail("CAPTURE", hw, appl))
  BY RingAssumption
  DEF RingAssumption, Pointer, MmapAvail, CaptureAvail, Forward

------------------------------------------------------------------------------
(* Runs: the positions of the ring from one on, as a sequence.             *)

Run(p, n) == [i \in 1 .. n |-> Forward(p, i - 1)]

(* The two moves are additions modulo the boundary.                        *)
LEMMA ForwardMod ==
  ASSUME NEW p \in Pointer, NEW n \in 0 .. Boundary - 1
  PROVE  /\ Forward(p, n) = (p + n) % Boundary
         /\ Backward(p, n) = (p + (-n)) % Boundary
<1>1. /\ Boundary \in Nat \ {0} /\ p \in 0 .. Boundary - 1
      /\ Forward(p, n) \in 0 .. Boundary - 1 /\ Backward(p, n) \in 0 .. Boundary - 1
  BY RingAssumption, ForwardType, BackwardType DEF RingAssumption, Pointer
<1>2. /\ Forward(p, n) % Boundary = Forward(p, n)
      /\ Backward(p, n) % Boundary = Backward(p, n)
  BY <1>1
<1>3. Forward(p, n) % Boundary = (p + n) % Boundary
  <2> DEFINE a == Forward(p, n)
             c == p + n
  <2>1. a \in Int /\ c \in Int
    BY <1>1
  <2>2. a - c = Boundary * 0 \/ a - c = Boundary * (-1)
    BY <1>1 DEF Forward
  <2> HIDE DEF a, c
  <2>3. a % Boundary = c % Boundary
    <3>1. CASE a - c = Boundary * 0
      BY <1>1, <2>1, <3>1, ModEqual
    <3>2. CASE a - c = Boundary * (-1)
      <4> DEFINE k == -1
      <4>1. k \in Int /\ a - c = Boundary * k
        BY <3>2
      <4> HIDE DEF k
      <4>2. QED
        BY <1>1, <2>1, <4>1, ModEqual
    <3>3. QED
      BY <2>2, <3>1, <3>2
  <2>4. QED
    BY <2>3 DEF a, c
<1>4. Backward(p, n) % Boundary = (p + (-n)) % Boundary
  <2> DEFINE a == Backward(p, n)
             c == p + (-n)
  <2>1. a \in Int /\ c \in Int
    BY <1>1
  <2>2. a - c = Boundary * 0 \/ a - c = Boundary * 1
    BY <1>1 DEF Backward
  <2> HIDE DEF a, c
  <2>3. a % Boundary = c % Boundary
    <3>1. CASE a - c = Boundary * 0
      BY <1>1, <2>1, <3>1, ModEqual
    <3>2. CASE a - c = Boundary * 1
      <4> DEFINE k == 1
      <4>1. k \in Int /\ a - c = Boundary * k
        BY <3>2
      <4> HIDE DEF k
      <4>2. QED
        BY <1>1, <2>1, <4>1, ModEqual
    <3>3. QED
      BY <2>2, <3>1, <3>2
  <2>4. QED
    BY <2>3 DEF a, c
<1>5. QED
  BY <1>2, <1>3, <1>4

(* A run no longer than the boundary is a sequence of positions.           *)
LEMMA RunType ==
  ASSUME NEW p \in Pointer, NEW n \in 0 .. Boundary
  PROVE  /\ Run(p, n) \in Seq(Pointer)
         /\ Len(Run(p, n)) = n
         /\ \A i \in 1 .. n : Run(p, n)[i] = Forward(p, i - 1)
<1>1. Boundary \in Nat /\ n \in Nat /\ \A i \in 1 .. n : i - 1 \in 0 .. Boundary
  BY RingAssumption DEF RingAssumption
<1>2. \A i \in 1 .. n : Forward(p, i - 1) \in Pointer
  BY <1>1, ForwardType
<1>3. Run(p, n) \in [1 .. n -> Pointer]
  BY <1>2 DEF Run
<1>4. Run(p, n) \in Seq(Pointer)
  BY <1>1, <1>3, SeqDef
<1>5. Len(Run(p, n)) \in Nat /\ DOMAIN Run(p, n) = 1 .. Len(Run(p, n))
  BY <1>4, LenProperties
<1>6. DOMAIN Run(p, n) = 1 .. n
  BY DEF Run
<1>7. Len(Run(p, n)) = n
  <2> DEFINE l == Len(Run(p, n))
  <2>1. l \in Nat /\ 1 .. l = 1 .. n
    BY <1>5, <1>6
  <2> HIDE DEF l
  <2>2. ~(l > n)
    <3>1. l > n => l \in 1 .. l /\ l \notin 1 .. n
      BY <1>1, <2>1
    <3>2. QED
      BY <2>1, <3>1
  <2>3. ~(n > l)
    <3>1. n > l => n \in 1 .. n /\ n \notin 1 .. l
      BY <1>1, <2>1
    <3>2. QED
      BY <2>1, <3>1
  <2>4. l = n
    BY <1>1, <2>1, <2>2, <2>3
  <2>5. QED
    BY <2>4 DEF l
<1>8. QED
  BY <1>4, <1>7 DEF Run

(* Two runs, one behind the other, are one.                                *)
LEMMA RunConcat ==
  ASSUME NEW p \in Pointer, NEW m \in Nat, NEW n \in Nat, m + n <= Boundary
  PROVE  Run(p, m) \o Run(Forward(p, m), n) = Run(p, m + n)
<1> DEFINE q == Forward(p, m)
           s == Run(p, m) \o Run(q, n)
           t == Run(p, m + n)
<1>1. /\ Boundary \in Nat /\ m \in 0 .. Boundary /\ n \in 0 .. Boundary
      /\ m + n \in 0 .. Boundary /\ q \in Pointer
  BY RingAssumption, ForwardType DEF RingAssumption
<1>2. /\ s \in Seq(Pointer) /\ Len(s) = m + n
      /\ \A i \in 1 .. m + n : s[i] = IF i <= m THEN Run(p, m)[i] ELSE Run(q, n)[i - m]
  <2> DEFINE a == Run(p, m)
             b == Run(q, n)
  <2>1. /\ a \in Seq(Pointer) /\ Len(a) = m
        /\ b \in Seq(Pointer) /\ Len(b) = n
    BY <1>1, RunType
  <2> HIDE DEF a, b
  <2>2. /\ a \o b \in Seq(Pointer) /\ Len(a \o b) = m + n
        /\ \A i \in 1 .. m + n : (a \o b)[i] = IF i <= m THEN a[i] ELSE b[i - m]
    BY <2>1, ConcatProperties
  <2>3. QED
    BY <2>2 DEF a, b
<1>3. /\ t \in Seq(Pointer) /\ Len(t) = m + n
      /\ \A i \in 1 .. m + n : t[i] = Forward(p, i - 1)
  BY <1>1, RunType
<1> HIDE DEF s, t, q
<1>4. ASSUME NEW i \in 1 .. m + n PROVE s[i] = t[i]
  <2>1. CASE i <= m
    <3>1. i \in 1 .. m
      BY <1>1, <2>1
    <3>2. Run(p, m)[i] = Forward(p, i - 1)
      BY <1>1, <3>1, RunType
    <3>3. QED
      BY <1>2, <1>3, <2>1, <3>2
  <2>2. CASE i > m
    <3>1. i - m \in 1 .. n /\ m + (i - m - 1) = i - 1 /\ i - m - 1 \in Nat /\ m + (i - m - 1) <= Boundary
      BY <1>1, <2>2
    <3>2. s[i] = Forward(q, i - m - 1)
      <4>1. Run(q, n)[i - m] = Forward(q, i - m - 1)
        BY <1>1, <3>1, RunType
      <4>2. ~(i <= m)
        BY <1>1, <2>2
      <4>3. QED
        BY <1>2, <4>1, <4>2
    <3>3. Forward(q, i - m - 1) = Forward(p, i - 1)
      BY <3>1, ForwardForward DEF q
    <3>4. QED
      BY <1>3, <3>2, <3>3
  <2>3. QED
    <3>1. i <= m \/ i > m
      BY <1>1
    <3>2. QED
      BY <2>1, <2>2, <3>1
<1>5. s = t
  BY <1>2, <1>3, <1>4, SeqEqual
<1>6. QED
  BY <1>5 DEF s, t, q

(* A run without its first frames is a run, and so is one without its last.*)
LEMMA RunParts ==
  ASSUME NEW p \in Pointer, NEW m \in 0 .. Boundary, NEW n \in 0 .. m
  PROVE  /\ SubSeq(Run(p, m), n + 1, m) = Run(Forward(p, n), m - n)
         /\ SubSeq(Run(p, m), 1, m - n) = Run(p, m - n)
<1> DEFINE r == Run(p, m)
           q == Forward(p, n)
           k == m - n
<1>1. /\ Boundary \in Nat /\ m \in Nat /\ n \in Nat /\ n \in 0 .. Boundary /\ k \in 0 .. Boundary
      /\ q \in Pointer
  BY RingAssumption, ForwardType DEF RingAssumption
<1>2. /\ r \in Seq(Pointer)
      /\ \A i \in 1 .. m : r[i] = Forward(p, i - 1) /\ r[i] \in Pointer
  <2>1. r \in Seq(Pointer) /\ Len(r) = m /\ \A i \in 1 .. m : r[i] = Forward(p, i - 1)
    BY RunType
  <2> HIDE DEF r
  <2>2. QED
    BY <2>1, ElementOfSeq
<1>3. /\ Run(p, k) \in Seq(Pointer) /\ Len(Run(p, k)) = k
      /\ \A i \in 1 .. k : Run(p, k)[i] = Forward(p, i - 1)
      /\ Run(q, k) \in Seq(Pointer) /\ Len(Run(q, k)) = k
      /\ \A i \in 1 .. k : Run(q, k)[i] = Forward(q, i - 1)
  BY <1>1, RunType
<1> HIDE DEF r, q
<1>4. SubSeq(r, n + 1, m) = Run(q, k)
  <2> DEFINE s == SubSeq(r, n + 1, m)
  <2>1. /\ s \in Seq(Pointer) /\ Len(s) = k
        /\ \A i \in 1 .. k : s[i] = r[n + 1 + i - 1]
    <3>1. n + 1 \in Int /\ m \in Int /\ \A i \in n + 1 .. m : r[i] \in Pointer
      BY <1>1, <1>2
    <3>2. /\ s \in Seq(Pointer)
          /\ Len(s) = IF n + 1 <= m THEN m - (n + 1) + 1 ELSE 0
          /\ \A i \in 1 .. m - (n + 1) + 1 : s[i] = r[n + 1 + i - 1]
      BY <3>1, SubSeqProperties
    <3>3. m - (n + 1) + 1 = k /\ (n + 1 > m => k = 0)
      BY <1>1
    <3> HIDE DEF s
    <3>4. QED
      BY <1>1, <3>2, <3>3
  <2>2. ASSUME NEW i \in 1 .. k PROVE s[i] = Run(q, k)[i]
    <3>1. n + 1 + i - 1 \in 1 .. m /\ n + 1 + i - 1 - 1 = n + (i - 1) /\ i - 1 \in Nat /\ n + (i - 1) <= Boundary
      BY <1>1
    <3>2. s[i] = Forward(p, n + (i - 1))
      BY <1>2, <2>1, <3>1
    <3>3. Forward(q, i - 1) = Forward(p, n + (i - 1))
      BY <1>1, <3>1, ForwardForward DEF q
    <3>4. QED
      BY <1>3, <3>2, <3>3
  <2> HIDE DEF s
  <2>3. s = Run(q, k)
    BY <1>3, <2>1, <2>2, SeqEqual
  <2>4. QED
    BY <2>3 DEF s
<1>5. SubSeq(r, 1, k) = Run(p, k)
  <2> DEFINE s == SubSeq(r, 1, k)
  <2>1. /\ s \in Seq(Pointer) /\ Len(s) = k
        /\ \A i \in 1 .. k : s[i] = r[i]
    <3>1. 1 \in Int /\ k \in Int /\ \A i \in 1 .. k : i \in 1 .. m /\ r[i] \in Pointer
      BY <1>1, <1>2
    <3> HIDE DEF k
    <3>2. /\ s \in Seq(Pointer)
          /\ Len(s) = IF 1 <= k THEN k - 1 + 1 ELSE 0
          /\ \A i \in 1 .. k - 1 + 1 : s[i] = r[1 + i - 1]
      BY <3>1, SubSeqProperties
    <3>3. k - 1 + 1 = k /\ (1 > k => k = 0) /\ \A i \in 1 .. k : 1 + i - 1 = i
      BY <1>1
    <3> HIDE DEF s
    <3>4. QED
      BY <1>1, <3>2, <3>3
  <2>2. ASSUME NEW i \in 1 .. k PROVE s[i] = Run(p, k)[i]
    BY <1>1, <1>2, <1>3, <2>1
  <2> HIDE DEF s
  <2>3. s = Run(p, k)
    BY <1>3, <2>1, <2>2, SeqEqual
  <2>4. QED
    BY <2>3 DEF s
<1>6. QED
  BY <1>4, <1>5 DEF r, q, k
===============================================================================
