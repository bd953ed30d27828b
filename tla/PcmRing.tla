------------------------------- MODULE PcmRing -------------------------------
(***************************************************************************)
(* The pointer arithmetic every PCM of alsa-lib shares (pcm_local.h,       *)
(* pcm_mmap.c, snd_pcm_mmap_begin of pcm.c).                               *)
(*                                                                         *)
(* A ring of BufferSize frames is addressed by two pointers, hw (the       *)
(* hardware side) and appl (the application side), that run over           *)
(* 0 .. Boundary-1 and wrap there, not at the end of the ring: the         *)
(* boundary is a multiple of the ring's size, so that a full ring and an   *)
(* empty one are told apart.  A pointer's slot is its value modulo         *)
(* BufferSize.                                                             *)
(***************************************************************************)
EXTENDS Integers, FiniteSetsExt

CONSTANTS
  BufferSize,   (* Frames in the ring (pcm->buffer_size).                  *)
  Boundary      (* Where both pointers wrap (pcm->boundary).               *)

(***************************************************************************)
(* snd_pcm_sw_params_default doubles the buffer size as long as a signed   *)
(* long can hold the sum of both, so at least once: every sum below        *)
(* (hw + BufferSize - appl and so on) stays inside the machine word.       *)
(***************************************************************************)
ASSUME RingAssumption ==
  /\ BufferSize \in Nat \ {0}
  /\ Boundary \in Nat
  /\ Boundary >= 2 * BufferSize
  /\ Boundary % BufferSize = 0

Pointer == 0 .. Boundary - 1
Slot    == 0 .. BufferSize - 1

SlotOf(p) == p % BufferSize

(***************************************************************************)
(* Definitions whose name ends in _Bug are slips a change to the code      *)
(* could make: each replaces the definition it is named after in one test  *)
(* of the properties, and is used nowhere else.                            *)
(***************************************************************************)
Forward_Bug(p, n) ==
  IF p + n > Boundary THEN p + n - Boundary ELSE p + n

Backward_Bug(p, n) == IF p - n <= 0 THEN p - n + Boundary ELSE p - n

(* Wrapping additions: snd_pcm_mmap_{appl,hw}_{forward,backward}.          *)
Forward(p, n)  == IF p + n >= Boundary THEN p + n - Boundary ELSE p + n
Backward(p, n) == IF p - n < 0 THEN p - n + Boundary ELSE p - n

PlaybackAvail_Bug(hw, appl) ==
  IF hw + BufferSize - appl < 0 THEN hw + BufferSize - appl + Boundary
                                ELSE hw + BufferSize - appl

(* Frames the application may write, or read, without waiting.             *)
PlaybackAvail(hw, appl) ==
  LET avail == hw + BufferSize - appl
  IN  IF avail < 0 THEN avail + Boundary
      ELSE IF avail >= Boundary THEN avail - Boundary ELSE avail

CaptureAvail(hw, appl) ==
  IF hw - appl < 0 THEN hw - appl + Boundary ELSE hw - appl

MmapAvail_Bug(stream, hw, appl) == PlaybackAvail(hw, appl)

MmapAvail(stream, hw, appl) ==
  IF stream = "PLAYBACK" THEN PlaybackAvail(hw, appl)
                         ELSE CaptureAvail(hw, appl)

(* Frames the hardware side still has before it, by the two functions of   *)
(* one stream direction each; negative after an underrun or overrun.       *)
HwAvail(stream, hw, appl) == BufferSize - MmapAvail(stream, hw, appl)

(***************************************************************************)
(* snd_pcm_mmap_hw_avail: what the rewindable callbacks of the hw, dmix,   *)
(* share, ioplug and other plugins return.  It corrects avail when it is   *)
(* negative but, unlike snd_pcm_mmap_playback_avail, not when it is at or  *)
(* past the boundary.                                                      *)
(***************************************************************************)
MmapHwAvail(stream, hw, appl) ==
  LET avail == hw - appl + (IF stream = "PLAYBACK" THEN BufferSize ELSE 0)
  IN  BufferSize - (IF avail < 0 THEN avail + Boundary ELSE avail)

BeginFrames_Bug(stream, hw, appl, n) ==
  Min({n, MmapAvail(stream, hw, appl), BufferSize})

(* snd_pcm_mmap_begin: the longest contiguous piece of at most n frames    *)
(* that starts at the application's slot.                                  *)
BeginFrames(stream, hw, appl, n) ==
  Min({n, MmapAvail(stream, hw, appl), BufferSize,
       BufferSize - SlotOf(appl)})
===============================================================================
