------------------------------- MODULE PcmFifo -------------------------------
(***************************************************************************)
(* What a PCM ring promises, without pointers: a bounded queue of frames.  *)
(* A frame is known by the position it has in the stream.  On playback the *)
(* application puts and the hardware takes, on capture it is the other way *)
(* round.  When the hardware laps the application the queue is lost, and   *)
(* stays so until it is cleared.                                           *)
(***************************************************************************)
EXTENDS Integers, Sequences

CONSTANTS BufferSize, Boundary

VARIABLES
  head,   (* Position of the oldest frame, or of the next one to come.     *)
  data,   (* The frames in the queue, oldest first.                        *)
  lost    (* The hardware has lapped the application.                      *)

vars == <<head, data, lost>>

Move(p, n) == (p + n) % Boundary
Frames(p, n) == [i \in 1 .. n |-> Move(p, i - 1)]

Init == head = 0 /\ data = <<>> /\ ~lost

Put(n) ==
  /\ Len(data) + n <= BufferSize
  /\ data' = data \o Frames(Move(head, Len(data)), n)
  /\ UNCHANGED head

Take(n) ==
  /\ n <= Len(data)
  /\ data' = SubSeq(data, n + 1, Len(data))
  /\ head' = Move(head, n)

(* A rewind takes back the newest frames, or asks for old ones again.      *)
Unput(n) ==
  /\ n <= Len(data)
  /\ data' = SubSeq(data, 1, Len(data) - n)
  /\ UNCHANGED head

Untake(n) ==
  /\ Len(data) + n <= BufferSize
  /\ head' = Move(head, -n)
  /\ data' = Frames(head', n) \o data

Healthy ==
  /\ ~lost /\ ~lost'
  /\ \E n \in 1 .. BufferSize : Put(n) \/ Take(n) \/ Unput(n) \/ Untake(n)

Lose == lost'

Clear == head' \in 0 .. Boundary - 1 /\ data' = <<>> /\ ~lost'

Next == Healthy \/ Lose \/ Clear

Spec == Init /\ [][Next]_vars
===============================================================================
