------------------------------- MODULE MCMixer --------------------------------
(***************************************************************************)
(* "Line Switch", "Line Playback Volume" and a "Capture Source" of the     *)
(* items "Line" and "Mic": two mixer elements, of which the first has all  *)
(* three controls and shares one with the second.                          *)
(***************************************************************************)
EXTENDS Mixer

MCControl ==
  <<[type |-> "GLOBAL_SWITCH", ctype |-> "BOOLEAN", elems |-> <<1>>],
    [type |-> "PLAYBACK_VOLUME", ctype |-> "INTEGER", elems |-> <<1>>],
    [type |-> "CAPTURE_SOURCE", ctype |-> "ENUMERATED", elems |-> <<1, 2>>]>>
===============================================================================
