--------------------------------- MODULE Hctl ---------------------------------
(***************************************************************************)
(* The sorted cache of hcontrol.c and mixer.c: an array of elements that   *)
(* are found, inserted and deleted by binary search.  Key(e) is the place  *)
(* of e in the order of the compare function.                              *)
(***************************************************************************)
EXTENDS Integers, Sequences

(* _snd_hctl_find_elem, _snd_mixer_find_elem: the last place looked at and *)
(* how it compared, 0 when it is the one; in an empty array, none.         *)
Find(keys, key) ==
  LET probe[at \in (0 .. Len(keys)) \X (0 .. Len(keys))] ==
        LET l == at[1]
            u == at[2]
            idx == (l + u) \div 2
            c == key - keys[idx + 1]
        IN  IF c < 0 /\ l < idx THEN probe[<<l, idx>>]
            ELSE IF c > 0 /\ idx + 1 < u THEN probe[<<idx + 1, u>>]
            ELSE [idx |-> idx, dir |-> c]
  IN  IF keys = <<>> THEN [idx |-> -1, dir |-> 0] ELSE probe[<<0, Len(keys)>>]

(* snd_hctl_find_elem.                                                     *)
Found(f) == f.idx >= 0 /\ f.dir = 0

Insert_Bug(seq, f, e) ==
  LET idx == IF seq = <<>> THEN 0 ELSE f.idx
  IN  SubSeq(seq, 1, idx) \o <<e>> \o SubSeq(seq, idx + 1, Len(seq))

(* snd_hctl_elem_add, snd_mixer_elem_add: beside the last place looked at. *)
Insert(seq, f, e) ==
  LET idx == IF seq = <<>> THEN 0 ELSE IF f.dir > 0 THEN f.idx + 1 ELSE f.idx
  IN  SubSeq(seq, 1, idx) \o <<e>> \o SubSeq(seq, idx + 1, Len(seq))

(* snd_hctl_elem_remove.                                                   *)
Delete(seq, idx) == SubSeq(seq, 1, idx) \o SubSeq(seq, idx + 2, Len(seq))

===============================================================================
