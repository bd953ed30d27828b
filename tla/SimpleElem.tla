------------------------------ MODULE SimpleElem -------------------------------
(***************************************************************************)
(* A simple mixer element (simple_none.c): up to one control of each type, *)
(* and the volume and switch of both directions that are made of them.     *)
(* Everything has one channel, so nothing is said of joined channels.      *)
(*                                                                         *)
(* The card's controls are a function from control ids to their number and *)
(* value; a control is held by its id and number, and reading one that is  *)
(* gone, or that another of the same id has replaced, is an error.         *)
(***************************************************************************)
EXTENDS Integers, SequencesExt, FiniteSets

CONSTANTS
  Controls,  (* The ids a card may have, by their place in the order of    *)
             (* snd_hctl_compare_default.                                  *)
  Control    (* What each is for: its selem_ctl_type_t, its own type, and  *)
             (* the mixer elements it belongs to: the items of a capture   *)
             (* source, one for any other.                                 *)

Dirs == {"PLAYBACK", "CAPTURE"}

NoControl == <<0, 0>>

Types ==
  {"SINGLE", "GLOBAL_ENUM", "GLOBAL_SWITCH", "GLOBAL_VOLUME", "GLOBAL_ROUTE",
   "PLAYBACK_ENUM", "PLAYBACK_SWITCH", "PLAYBACK_VOLUME", "PLAYBACK_ROUTE",
   "CAPTURE_ENUM", "CAPTURE_SWITCH", "CAPTURE_VOLUME", "CAPTURE_ROUTE", "CAPTURE_SOURCE"}

(* The names say what a control is for, and the card agrees.  All volumes  *)
(* have one range, so that to_user and from_user convert nothing.          *)
ASSUME ControlAssumption ==
  /\ IsFiniteSet(Controls) /\ Controls = 1 .. Cardinality(Controls)
  /\ \A c \in Controls : /\ Control[c].type \in Types
                         /\ Control[c].ctype \in {"INTEGER", "BOOLEAN", "ENUMERATED"}
                         /\ Control[c].elems \in Seq(Int)

NewElem ==
  [ctls |-> [t \in Types |-> NoControl], item |-> 0, helems |-> <<>>,
   vol |-> [d \in Dirs |-> 0], sw |-> [d \in Dirs |-> FALSE]]

Has(s, t) == s.ctls[t] # NoControl
Single(s, ctype) == Has(s, "SINGLE") /\ (Control[s.ctls["SINGLE"][1]].ctype = "INTEGER") = (ctype = "INTEGER")

(* simple_update: what the controls give the element.  One for both        *)
(* directions yields to one of a direction; a global switch alone is a     *)
(* playback switch.                                                        *)
GlobalVolume(s) ==
  /\ Has(s, "GLOBAL_VOLUME") \/ Single(s, "INTEGER")
  /\ ~Has(s, "PLAYBACK_VOLUME") /\ ~Has(s, "CAPTURE_VOLUME")

HasVolume(s, dir) ==
  GlobalVolume(s) \/ Has(s, IF dir = "PLAYBACK" THEN "PLAYBACK_VOLUME" ELSE "CAPTURE_VOLUME")

CaptureSwitch(s) == \E t \in {"CAPTURE_SWITCH", "CAPTURE_ROUTE", "CAPTURE_SOURCE"} : Has(s, t)

PlaybackSwitch(s) ==
  \/ Has(s, "PLAYBACK_SWITCH") \/ Has(s, "PLAYBACK_ROUTE")
  \/ /\ Single(s, "BOOLEAN") \/ Has(s, "GLOBAL_SWITCH") \/ Has(s, "GLOBAL_ROUTE")
     /\ ~CaptureSwitch(s)

HasSwitch(s, dir) == IF dir = "PLAYBACK" THEN PlaybackSwitch(s) ELSE CaptureSwitch(s)

(* elem_read_enum, elem_write_enum: by the capabilities, not by what was   *)
(* looked at.                                                              *)
EnumType(s) ==
  CASE Has(s, "GLOBAL_ENUM") \/ (Has(s, "PLAYBACK_ENUM") /\ Has(s, "CAPTURE_ENUM")) -> "GLOBAL_ENUM"
    [] ~Has(s, "GLOBAL_ENUM") /\ Has(s, "PLAYBACK_ENUM") /\ ~Has(s, "CAPTURE_ENUM") -> "PLAYBACK_ENUM"
    [] OTHER -> "CAPTURE_ENUM"

IsEnum(s) == \E t \in {"GLOBAL_ENUM", "PLAYBACK_ENUM", "CAPTURE_ENUM"} : Has(s, t)

(* An enumeration for each direction and none for both: the control that   *)
(* is asked for is none at all, and snd_hctl_elem_read asserts that it is. *)
NullEnum(s) == IsEnum(s) /\ ~Has(s, EnumType(s))

Held(s) == {t \in Types : Has(s, t)}
Usable(s, ctype) == {t \in Held(s) : t # "SINGLE" \/ Single(s, ctype)}

(* A step for each of the types there are, in this order.                  *)
Steps(what, dir, types, there) ==
  FoldLeft(LAMBDA steps, t : IF t \in there THEN Append(steps, [what |-> what, dir |-> dir, type |-> t])
                             ELSE steps, <<>>, types)

------------------------------------------------------------------------------
(* The controls selem_read reads, in its order.                            *)
VolumeSteps(s, dir, own) ==
  LET of == Steps("volume", dir, <<own, "GLOBAL_VOLUME", "SINGLE">>, Usable(s, "INTEGER"))
  IN  IF of = <<>> THEN <<>> ELSE <<Head(of)>>

SwitchSteps(s, dir, own) ==
  IF ~HasSwitch(s, dir) THEN <<[what |-> "none", dir |-> dir, type |-> "SINGLE"]>>
  ELSE Steps("switch", dir, own, Usable(s, "BOOLEAN"))

ReadSteps(s) ==
  IF IsEnum(s) THEN Steps("enum", "PLAYBACK", <<EnumType(s)>>, Types)
  ELSE VolumeSteps(s, "PLAYBACK", "PLAYBACK_VOLUME")
       \o SwitchSteps(s, "PLAYBACK", <<"PLAYBACK_SWITCH", "GLOBAL_SWITCH", "SINGLE",
                                       "PLAYBACK_ROUTE", "GLOBAL_ROUTE">>)
       \o VolumeSteps(s, "CAPTURE", "CAPTURE_VOLUME")
       \o SwitchSteps(s, "CAPTURE", <<"CAPTURE_SWITCH", "GLOBAL_SWITCH", "SINGLE",
                                      "CAPTURE_ROUTE", "GLOBAL_ROUTE", "CAPTURE_SOURCE">>)

Gone(card, h) == h = NoControl \/ card[h[1]].numid # h[2]

(* selem_read starts from no volume and all switches on, and an error      *)
(* leaves what was not read at that.  (No control at all is met only under *)
(* NullEnum, where the step is the first and the last.)                    *)
ReadStep(card, r, step) ==
  LET h == r.s.ctls[step.type]
      value == card[h[1]].value
  IN  CASE r.err -> r
        [] ~r.err /\ step.what = "none" -> [r EXCEPT !.s.sw[step.dir] = FALSE]
        [] ~r.err /\ step.what # "none" /\ Gone(card, h) -> [r EXCEPT !.err = TRUE]
        [] ~r.err /\ step.what \in {"volume", "enum"} /\ ~Gone(card, h) ->
             [r EXCEPT !.s.vol[step.dir] = value]
        [] OTHER ->
             [r EXCEPT !.s.sw[step.dir] =
                @ /\ IF step.type = "CAPTURE_SOURCE" THEN value = r.s.item ELSE value # 0]

SelemRead(s, card) ==
  LET blank == [s EXCEPT !.vol = [d \in Dirs |-> 0], !.sw = [d \in Dirs |-> TRUE]]
      Result(r) ==
        [s |-> r.s, err |-> r.err, abort |-> NullEnum(s),
         changed |-> ~r.err /\ (r.s.vol # s.vol \/ r.s.sw # s.sw)]
  IN  Result(FoldLeft(LAMBDA r, step : ReadStep(card, r, step), [s |-> blank, err |-> FALSE],
                      ReadSteps(s)))

------------------------------------------------------------------------------
(* The controls selem_write_main writes: all of the element's, from what   *)
(* the element holds.                                                      *)
WriteSteps(s) ==
  LET both == Has(s, "PLAYBACK_SWITCH") /\ Has(s, "CAPTURE_SWITCH")
      P(what, types) == Steps(what, "PLAYBACK", types, Held(s))
      C(what, types) == Steps(what, "CAPTURE", types, Held(s))
  IN  IF IsEnum(s) THEN Steps("enum", "PLAYBACK", <<EnumType(s)>>, Types)
      ELSE P(IF Single(s, "INTEGER") THEN "volume" ELSE "switch", <<"SINGLE">>)
           \o P("volume", <<"GLOBAL_VOLUME">>)
           \o P(IF both THEN "on" ELSE "switch", <<"GLOBAL_SWITCH">>)
           \o P("volume", <<"PLAYBACK_VOLUME">>)
           \o P("switch", <<"PLAYBACK_SWITCH", "PLAYBACK_ROUTE">>)
           \o C("volume", <<"CAPTURE_VOLUME">>)
           \o C("switch", <<"CAPTURE_SWITCH", "CAPTURE_ROUTE">>)
           \o C("source", <<"CAPTURE_SOURCE">>)

Truth(b) == IF b THEN 1 ELSE 0

Written_Bug(s, step, old) ==
  CASE step.what \in {"volume", "enum"} -> s.vol[step.dir]
    [] step.what = "switch" -> Truth(s.sw[step.dir])
    [] step.what = "on" -> 1
    [] OTHER -> s.item

(* What a step writes where the card has old.  A source is only ever       *)
(* chosen: one that is switched off stays until another is chosen.         *)
Written(s, step, old) ==
  CASE step.what \in {"volume", "enum"} -> s.vol[step.dir]
    [] step.what = "switch" -> Truth(s.sw[step.dir])
    [] step.what = "on" -> 1
    [] OTHER -> IF s.sw["CAPTURE"] THEN s.item ELSE old

WriteStep(r, step) ==
  LET h == r.s.ctls[step.type]
  IN  CASE r.err -> r
        [] ~r.err /\ Gone(r.card, h) -> [r EXCEPT !.err = TRUE]
        [] OTHER ->
             LET card == [r.card EXCEPT ![h[1]].value = Written(r.s, step, @)]
                 Result(read) == [s |-> read.s, card |-> card, err |-> read.err]
             IN  IF step.what = "source" THEN Result(SelemRead(r.s, card))
                 ELSE [r EXCEPT !.card = card]

SelemWrite(s, card) ==
  LET Result(r) == [s |-> IF r.err THEN SelemRead(r.s, r.card).s ELSE r.s,
                    card |-> r.card, err |-> r.err, abort |-> NullEnum(s)]
  IN  Result(FoldLeft(WriteStep, [s |-> s, card |-> card, err |-> FALSE], WriteSteps(s)))

(* _snd_mixer_selem_set_volume and _switch.                                *)
VolumeDir(s, dir) == IF GlobalVolume(s) THEN "PLAYBACK" ELSE dir
SetVolume(s, dir, value) == [s EXCEPT !.vol[VolumeDir(s, dir)] = value]
SetSwitch(s, dir, on) == [s EXCEPT !.sw[dir] = on]

===============================================================================
