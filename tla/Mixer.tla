--------------------------------- MODULE Mixer ---------------------------------
(***************************************************************************)
(* A mixer over one card: the control device's events, the cache of        *)
(* controls the high level interface keeps (hcontrol.c), the mixer         *)
(* elements made of them (mixer.c, simple_none.c) and the application they *)
(* report to, while a driver and other programs change the card.           *)
(*                                                                         *)
(* card, fresh, queue and subscribed are the kernel's and external; elems, *)
(* mixer, compare, registered, phase and hand are the library's.  The rest *)
(* only observes: told is what the application last saw of each mixer      *)
(* element, or set of it, and whether a set has read more since, unsaid;   *)
(* torn the elements that were not read when they should have been, missed *)
(* the controls that changed while nobody listened, unseen those that came *)
(* and went unseen.                                                        *)
(***************************************************************************)
EXTENDS SimpleElem, Hctl

CONSTANTS
  Values,      (* What a control can be set to.                            *)
  MaxChanges,  (* Bound: changes the driver and other programs make.       *)
  MaxSets,     (* Bound: values the application sets.                      *)
  MaxLoads     (* Bound: times the mixer is loaded.                        *)

(* Switches are 0 and 1, and a capture source is the number of its item.   *)
ASSUME MixerAssumption ==
  /\ Values \subseteq Nat /\ {0, 1} \subseteq Values
  /\ \A c \in Controls : Control[c].type = "CAPTURE_SOURCE" =>
                           {i - 1 : i \in DOMAIN Control[c].elems} \subseteq Values
  /\ MaxChanges \in Nat /\ MaxSets \in Nat /\ MaxLoads \in Nat

VARIABLES
  card, fresh, queue, subscribed,
  elems,       (* The cache: its handles, and the mixer elements of each.  *)
  mixer,       (* The mixer elements.                                      *)
  compare, registered, phase, hand,
  told, torn, missed, unseen, changes, sets, loads

kernel == <<card, fresh, queue, subscribed>>
library == <<elems, mixer, told, torn>>
vars == <<kernel, library, compare, registered, phase, hand, missed, unseen, changes, sets, loads>>

Names == UNION {Range(Control[c].elems) : c \in Controls}
Present(c) == card[c].numid # 0
Handle(c) == <<c, card[c].numid>>
View(s) == [vol |-> s.vol, sw |-> s.sw, unsaid |-> FALSE]
Unseen == View(NewElem)
NoEvent == [h |-> NoControl, mask |-> {}]
REMOVE == {"VALUE", "INFO", "ADD", "TLV", "REMOVE"}

------------------------------------------------------------------------------
(* The kernel adds to the event of the same number that nobody has read.   *)
Noted(q, h, mask) ==
  IF ~subscribed THEN q
  ELSE IF \E i \in DOMAIN q : q[i].h = h
       THEN [i \in DOMAIN q |-> IF q[i].h = h THEN [q[i] EXCEPT !.mask = @ \union mask] ELSE q[i]]
       ELSE Append(q, [h |-> h, mask |-> mask])

Loading == phase \in {"listed", "filled"}
MayChange == changes < MaxChanges /\ phase \notin {"dead", "closed"}

Changed(c, mask, lost) ==
  /\ queue' = Noted(queue, <<c, card'[c].numid>>, mask)
  /\ missed' = IF ~subscribed /\ phase \in lost THEN missed \union {c} ELSE missed
  /\ changes' = changes + 1
  /\ UNCHANGED <<subscribed, library, compare, registered, phase, hand, sets, loads>>

KAdd(c, v) ==
  /\ MayChange /\ ~Present(c)
  /\ card' = [card EXCEPT ![c] = [numid |-> fresh, value |-> v]]
  /\ fresh' = fresh + 1
  /\ Changed(c, {"ADD"}, {"listed", "filled"})
  /\ UNCHANGED unseen

KRemove(c) ==
  /\ MayChange /\ Present(c)
  /\ card' = [card EXCEPT ![c] = [numid |-> 0, value |-> 0]]
  /\ queue' = Noted(queue, Handle(c), REMOVE)
  /\ missed' = IF ~subscribed /\ Loading THEN missed \union {c} ELSE missed
  /\ unseen' = IF \E i \in DOMAIN queue : queue[i].h = Handle(c) /\ "ADD" \in queue[i].mask
               THEN unseen \union {Handle(c)} ELSE unseen
  /\ changes' = changes + 1
  /\ UNCHANGED <<fresh, subscribed, library, compare, registered, phase, hand, sets, loads>>

KWrite(c, v) ==
  /\ MayChange /\ Present(c) /\ card[c].value # v
  /\ card' = [card EXCEPT ![c].value = v]
  /\ Changed(c, {"VALUE"}, {"filled"})
  /\ UNCHANGED <<fresh, unseen>>

KInfo(c) ==
  /\ MayChange /\ Present(c)
  /\ UNCHANGED <<card, fresh, unseen>>
  /\ Changed(c, {"INFO"}, {})

------------------------------------------------------------------------------
(* What the handlers work on: the library's state, and whether a callback  *)
(* has failed or an assertion ended the program.                           *)
Now == [elems |-> elems, mixer |-> mixer, told |-> told, torn |-> torn, err |-> FALSE, abort |-> FALSE]

Becomes(x) == elems' = x.elems /\ mixer' = x.mixer /\ told' = x.told /\ torn' = x.torn

Place(order, h) == IF order = "default" THEN h[1] ELSE h[2]
Key(h) == Place(compare, h)
Keys(es) == [i \in DOMAIN es |-> Key(es[i].h)]

IndexOf(x, name) == CHOOSE i \in DOMAIN x.mixer : x.mixer[i].name = name
Exists(x, name) == \E i \in DOMAIN x.mixer : x.mixer[i].name = name
Elem(x, name) == x.mixer[IndexOf(x, name)].s
BagOf(x, h) == (CHOOSE e \in Range(x.elems) : e.h = h).bag

(* The application's callback: it looks at the element.                    *)
Tell(x, name) == [x EXCEPT !.told[name] = View(Elem(x, name))]

WithElem(x, name, s) == [x EXCEPT !.mixer[IndexOf(x, name)].s = s]
WithBag(x, h, bag) ==
  LET with(e) == IF e.h = h THEN [e EXCEPT !.bag = bag] ELSE e
  IN  [x EXCEPT !.elems = [i \in DOMAIN x.elems |-> with(x.elems[i])]]

(* snd_mixer_elem_attach and snd_mixer_elem_detach: both bags.             *)
Attach(x, h, name) ==
  LET s == Elem(x, name)
  IN  WithBag(WithElem(x, name, [s EXCEPT !.helems = Append(@, h)]), h, Append(BagOf(x, h), name))

Detach_Bug(x, h, name) == WithBag(x, h, RemoveFirst(BagOf(x, h), name))

Detach(x, h, name) ==
  LET s == Elem(x, name)
  IN  WithBag(WithElem(x, name, [s EXCEPT !.helems = RemoveFirst(@, h)]), h, RemoveFirst(BagOf(x, h), name))

(* snd_mixer_elem_add and snd_mixer_elem_remove; elements are named by     *)
(* their place in the order of snd_mixer_compare_default.                  *)
MixerNames(x) == [i \in DOMAIN x.mixer |-> x.mixer[i].name]

ElemAdd(x, name) ==
  [x EXCEPT !.mixer = Insert(@, Find(MixerNames(x), name), [name |-> name, s |-> NewElem])]

ElemRemove(x, name) ==
  LET Emptied(y) == [y EXCEPT !.mixer = Delete(@, Find(MixerNames(y), name).idx),
                            !.told[name] = Unseen, !.torn = @ \ {name}]
  IN  Emptied(FoldLeft(LAMBDA z, h : Detach(z, h, name), x, Elem(x, name).helems))

------------------------------------------------------------------------------
(* selem_read, and snd_mixer_elem_value for what it changed.               *)
Reread_Bug(x, name) ==
  LET After(r, y) ==
        CASE r.abort -> [x EXCEPT !.abort = TRUE]
          [] ~r.abort /\ r.err -> [y EXCEPT !.err = TRUE, !.torn = @ \union {name}]
          [] OTHER -> [y EXCEPT !.torn = @ \ {name}]
      Read(r) == After(r, WithElem(x, name, r.s))
  IN  Read(SelemRead(Elem(x, name), card))

Reread(x, name) ==
  LET After(r, y) ==
        CASE r.abort -> [x EXCEPT !.abort = TRUE]
          [] ~r.abort /\ r.err -> [y EXCEPT !.err = TRUE, !.torn = @ \union {name}]
          [] ~r.abort /\ ~r.err /\ r.changed -> Tell([y EXCEPT !.torn = @ \ {name}], name)
          [] OTHER -> [y EXCEPT !.torn = @ \ {name}]
      Read(r) == After(r, WithElem(x, name, r.s))
  IN  Read(SelemRead(Elem(x, name), card))

(* simple_add1: one control to one mixer element, which may be new.        *)
Joined(x, h, name, item) ==
  LET type == Control[h[1]].type
      s == [Elem(x, name) EXCEPT !.ctls[type] = h,
                                 !.item = IF type = "CAPTURE_SOURCE" THEN item ELSE @]
  IN  Reread(Tell(Attach(WithElem(x, name, s), h, name), name), name)

SimpleAdd1(x, h, name, item) ==
  IF x.err \/ x.abort THEN x
  ELSE IF Gone(card, h) \/ (Exists(x, name) /\ Has(Elem(x, name), Control[h[1]].type))
       THEN [x EXCEPT !.err = TRUE]
  ELSE Joined(IF Exists(x, name) THEN x ELSE ElemAdd(x, name), h, name, item)

SimpleEventAdd_Bug(x, h) ==
  LET to == Control[h[1]].elems
  IN  IF Control[h[1]].type = "CAPTURE_SOURCE" /\ Gone(card, h) THEN [x EXCEPT !.abort = TRUE]
      ELSE FoldLeft(LAMBDA z, i : SimpleAdd1(z, h, to[i], i), x, [i \in DOMAIN to |-> i])

(* simple_event_add: a capture source belongs to the element of each of    *)
(* its items.                                                              *)
SimpleEventAdd(x, h) ==
  LET to == Control[h[1]].elems
  IN  IF Control[h[1]].type = "CAPTURE_SOURCE" /\ Gone(card, h) THEN [x EXCEPT !.abort = TRUE]
      ELSE FoldLeft(LAMBDA z, i : SimpleAdd1(z, h, to[i], i - 1), x, [i \in DOMAIN to |-> i])

(* simple_event_remove.  What is left of a volume or switch may come from  *)
(* other controls than before, and is not read again.                      *)
Sources(s, a) == {b \in Range(ReadSteps(s)) : b.what = a.what /\ b.dir = a.dir}
SameSources(s, s1) ==
  /\ ~NullEnum(s1)
  /\ \A a \in Range(ReadSteps(s1)) : a.what = "none" \/ Sources(s, a) = Sources(s1, a)

SimpleEventRemove(x, h, name) ==
  LET s == Elem(x, name)
      s1 == [s EXCEPT !.ctls = [t \in Types |-> IF @[t] = h THEN NoControl ELSE @[t]]]
      Rest(y, same) ==
        IF Elem(y, name).helems = <<>> THEN ElemRemove(y, name)
        ELSE Tell([y EXCEPT !.torn = IF same THEN @ ELSE @ \union {name}], name)
  IN  Rest(Detach(WithElem(x, name, s1), h, name), SameSources(s, s1))

(* simple_event, for the changes of a control.                             *)
SimpleEvent(x, h, name, mask) ==
  IF x.err \/ x.abort THEN x
  ELSE IF "INFO" \in mask THEN SimpleEventAdd(SimpleEventRemove(x, h, name), h)
  ELSE Reread(x, name)

ElemEvent_Bug(x, h, mask) ==
  IF BagOf(x, h) = <<>> THEN x ELSE SimpleEvent(x, h, BagOf(x, h)[1], mask)

(* hctl_elem_event_handler, for the elements in the control's bag: the     *)
(* first of them that fails is the last that hears of it.                  *)
ElemEvent(x, h, mask) ==
  LET Unheard(y) ==
        IF y.err THEN [y EXCEPT !.torn = @ \union (Range(BagOf(x, h)) \cap Range(MixerNames(y)))]
        ELSE y
  IN  Unheard(FoldLeft(LAMBDA z, name : SimpleEvent(z, h, name, mask), x, BagOf(x, h)))

ElemGone(x, h) ==
  LET At(y) == CHOOSE i \in DOMAIN y.elems : y.elems[i].h = h
      Deleted(y) == IF BagOf(y, h) # <<>> THEN [y EXCEPT !.abort = TRUE]
                   ELSE [y EXCEPT !.elems = Delete(@, At(y) - 1)]
  IN  Deleted(FoldLeft(LAMBDA z, name : SimpleEventRemove(z, h, name), x, BagOf(x, h)))

(* hctl_event_handler: a control is offered to the class there is.         *)
ElemNew(x, h) ==
  IF registered /\ ~x.err /\ ~x.abort THEN SimpleEventAdd(x, h) ELSE x

(* snd_hctl_handle_event.  A control that is not where its event says ends *)
(* the program by an assertion.                                            *)
HandleRemove(x, ev) ==
  LET f == Find(Keys(x.elems), Key(ev.h))
  IN  IF ~Found(f) THEN [x EXCEPT !.abort = TRUE] ELSE ElemGone(x, x.elems[f.idx + 1].h)

HandleAdd(x, ev) ==
  LET f == Find(Keys(x.elems), Key(ev.h))
  IN  IF "ADD" \notin ev.mask THEN x
      ELSE IF Found(f) THEN [x EXCEPT !.abort = TRUE]
      ELSE ElemNew([x EXCEPT !.elems = Insert(@, f, [h |-> ev.h, bag |-> <<>>])], ev.h)

HandleChange(x, ev) ==
  LET f == Find(Keys(x.elems), Key(ev.h))
  IN  IF x.err \/ x.abort \/ ev.mask \cap {"VALUE", "INFO"} = {} THEN x
      ELSE IF ~Found(f) THEN [x EXCEPT !.err = TRUE]
      ELSE ElemEvent(x, x.elems[f.idx + 1].h, ev.mask)

HandleEvent(x, ev) ==
  IF ev.mask = REMOVE THEN HandleRemove(x, ev) ELSE HandleChange(HandleAdd(x, ev), ev)

------------------------------------------------------------------------------
Offered == {c \in Controls : Present(c)}
Before(es, order, e) == {d \in es : Place(order, d.h) < Place(order, e.h)}
Sorted(es, order) ==
  [i \in 1 .. Cardinality(es) |-> CHOOSE e \in es : Cardinality(Before(es, order, e)) = i - 1]

(* snd_mixer_selem_register, before or after the load.                     *)
Register ==
  /\ phase \in {"new", "idle"} /\ ~registered
  /\ registered' = TRUE
  /\ \E x \in {FoldLeft(LAMBDA y, e : IF y.err \/ y.abort THEN y ELSE SimpleEventAdd(y, e.h),
                        Now, elems)} :
         /\ Becomes(x)
         /\ phase' = CASE x.abort -> "dead" [] ~x.abort /\ x.err -> "failed" [] OTHER -> phase
  /\ UNCHANGED <<kernel, compare, hand, missed, unseen, changes, sets, loads>>

(* snd_hctl_load: the controls are listed and sorted, then announced, and  *)
(* only then are their events asked for.  An event that is queued from     *)
(* before is about a control the list may have already.                    *)
LoadList ==
  /\ phase = "new" /\ loads < MaxLoads
  /\ elems' = Sorted({[h |-> Handle(c), bag |-> <<>>] : c \in Offered}, compare)
  /\ phase' = "listed" /\ loads' = loads + 1
  /\ missed' = {queue[i].h[1] : i \in {j \in DOMAIN queue : "ADD" \in queue[j].mask}}
  /\ UNCHANGED <<kernel, mixer, told, torn, compare, registered, hand, unseen, changes, sets>>

LoadFill ==
  /\ phase = "listed"
  /\ \E x \in {FoldLeft(LAMBDA y, e : ElemNew(y, e.h), Now, elems)} :
         /\ Becomes(x)
         /\ phase' = CASE x.abort -> "dead" [] ~x.abort /\ x.err -> "failed" [] OTHER -> "filled"
  /\ UNCHANGED <<kernel, compare, registered, hand, missed, unseen, changes, sets, loads>>

Subscribe ==
  /\ phase = "filled"
  /\ subscribed' = TRUE /\ phase' = "idle"
  /\ UNCHANGED <<card, fresh, queue, library, compare, registered, hand, missed, unseen,
                 changes, sets, loads>>

(* snd_mixer_handle_events: an event is read, and then handled.            *)
Pop ==
  /\ phase = "idle" /\ queue # <<>>
  /\ hand' = Head(queue) /\ queue' = Tail(queue) /\ phase' = "popped"
  /\ UNCHANGED <<card, fresh, subscribed, library, compare, registered, missed, unseen,
                 changes, sets, loads>>

HandlePopped ==
  /\ phase = "popped"
  /\ \E x \in {HandleEvent(Now, hand)} :
         Becomes(x) /\ phase' = IF x.abort THEN "dead" ELSE "idle"
  /\ hand' = NoEvent
  /\ UNCHANGED <<kernel, compare, registered, missed, unseen, changes, sets, loads>>

(* snd_mixer_selem_set_playback_volume and the like: nothing is written of *)
(* what is so already.  Every control that changes has its event, here too,*)
(* but the call makes none for the application: what it reads back of the  *)
(* element, other than what was set, goes unsaid.                          *)
Set(name, s, saw) ==
  /\ phase = "idle" /\ sets < MaxSets
  /\ s # Elem(Now, name)
  /\ \E r \in {SelemWrite(s, card)} :
       LET x == WithElem(Now, name, r.s)
           now == [saw EXCEPT !.unsaid = @ \/ View(r.s) # View(s)]
           noted(q, c) == IF r.card[c] = card[c] THEN q ELSE Noted(q, Handle(c), {"VALUE"})
       IN  /\ Becomes([x EXCEPT !.told[name] = now, !.torn = IF r.err THEN @ \union {name} ELSE @])
           /\ card' = r.card
           /\ queue' = FoldLeft(noted, queue, SetToSeq(Controls))
           /\ phase' = IF r.abort THEN "dead" ELSE phase
  /\ sets' = sets + 1
  /\ UNCHANGED <<fresh, subscribed, compare, registered, hand, missed, unseen, changes, loads>>

SetVolumeOps(name, dir, v) ==
  LET s == Elem(Now, name)
  IN  /\ Exists(Now, name) /\ HasVolume(s, dir)
      /\ Set(name, SetVolume(s, dir, v), [told[name] EXCEPT !.vol[VolumeDir(s, dir)] = v])

SetSwitchOps(name, dir, on) ==
  LET s == Elem(Now, name)
  IN  /\ Exists(Now, name) /\ HasSwitch(s, dir)
      /\ Set(name, SetSwitch(s, dir, on), [told[name] EXCEPT !.sw[dir] = on])

SetCompare_Bug ==
  /\ phase = "idle" /\ compare = "default"
  /\ compare' = "fast"
  /\ UNCHANGED <<kernel, library, registered, phase, hand, missed, unseen, changes, sets, loads>>

(* snd_hctl_set_compare, with the order by numbers.                        *)
SetCompare ==
  /\ phase = "idle" /\ compare = "default"
  /\ compare' = "fast"
  /\ elems' = Sorted(Range(elems), "fast")
  /\ UNCHANGED <<kernel, mixer, told, torn, registered, phase, hand, missed, unseen,
                 changes, sets, loads>>

(* snd_mixer_free: from the last to the first.  The subscription stays.    *)
Freed(x) == FoldRight(LAMBDA e, y : ElemGone(y, e.h), x.elems, x)

Unload ==
  /\ phase \in {"idle", "failed"} /\ loads < MaxLoads
  /\ \E x \in {Freed(Now)} : Becomes(x) /\ phase' = IF x.abort THEN "dead" ELSE "new"
  /\ UNCHANGED <<kernel, compare, registered, hand, missed, unseen, changes, sets, loads>>

(* snd_mixer_close: the class takes its elements with it, then the control *)
(* device is closed.                                                       *)
Close ==
  /\ phase \in {"idle", "failed"}
  /\ \E x \in {Freed(FoldRight(LAMBDA e, y : ElemRemove(y, e.name), mixer, Now))} :
         Becomes(x) /\ phase' = IF x.abort THEN "dead" ELSE "closed"
  /\ subscribed' = FALSE /\ queue' = <<>> /\ registered' = FALSE
  /\ UNCHANGED <<card, fresh, compare, hand, missed, unseen, changes, sets, loads>>

------------------------------------------------------------------------------
Init ==
  /\ card \in {[c \in Controls |-> [numid |-> IF c \in there THEN Cardinality(Controls) + 1 - c ELSE 0,
                                    value |-> 0]] : there \in SUBSET Controls}
  /\ fresh = Cardinality(Controls) + 1 /\ queue = <<>> /\ subscribed = FALSE
  /\ elems = <<>> /\ mixer = <<>> /\ compare = "default" /\ registered = FALSE
  /\ phase = "new" /\ hand = NoEvent
  /\ told = [n \in Names |-> Unseen] /\ torn = {} /\ missed = {} /\ unseen = {}
  /\ changes = 0 /\ sets = 0 /\ loads = 0

Next ==
  \/ \E c \in Controls : KRemove(c) \/ KInfo(c) \/ \E v \in Values : KAdd(c, v) \/ KWrite(c, v)
  \/ Register \/ LoadList \/ LoadFill \/ Subscribe \/ Pop \/ HandlePopped
  \/ \E name \in Names, dir \in Dirs :
       \/ \E v \in Values : SetVolumeOps(name, dir, v)
       \/ \E on \in BOOLEAN : SetSwitchOps(name, dir, on)
  \/ SetCompare \/ Unload \/ Close

Spec == Init /\ [][Next]_vars

------------------------------------------------------------------------------
(* Types.                                                                  *)
Handles == {NoControl} \union (Controls \X (1 .. Cardinality(Controls) + MaxChanges))
Views == [vol : [Dirs -> Values], sw : [Dirs -> BOOLEAN], unsaid : BOOLEAN]

TypeOK ==
  /\ \A c \in Controls : card[c].numid \in 0 .. fresh - 1 /\ card[c].value \in Values
  /\ \A i \in DOMAIN queue : queue[i].h \in Handles /\ queue[i].mask \subseteq REMOVE
  /\ \A e \in Range(elems) : e.h \in Handles /\ Range(e.bag) \subseteq Names
  /\ \A m \in Range(mixer) : m.name \in Names /\ m.s.ctls \in [Types -> Handles]
  /\ compare \in {"default", "fast"} /\ registered \in BOOLEAN /\ subscribed \in BOOLEAN
  /\ phase \in {"new", "listed", "filled", "idle", "popped", "failed", "dead", "closed"}
  /\ told \in [Names -> Views] /\ torn \subseteq Names /\ missed \subseteq Controls

(* What is still to be handled, in order.                                  *)
Pending == (IF phase = "popped" THEN <<hand>> ELSE <<>>) \o queue
PendingFor(c) == \E i \in DOMAIN Pending : Pending[i].h[1] = c

(* The cache is searched by halving (hcontrol.c:320, mixer.c:325), so it   *)
(* must be strictly sorted at all times, whatever comes and goes and       *)
(* whichever the order is; and once the pending events are handled it      *)
(* holds the card's controls, each under its present number.  A control    *)
(* that came or went before the events were asked for is not spoken of.    *)
StrictlySorted(s) == \A i \in 1 .. Len(s) - 1 : s[i] < s[i + 1]

CacheFollows ==
  LET after(hs, ev) ==
        CASE ev.mask = REMOVE -> hs \ {ev.h}
          [] ev.mask # REMOVE /\ "ADD" \in ev.mask -> hs \union {ev.h}
          [] OTHER -> hs
      then == FoldLeft(after, {e.h : e \in Range(elems)}, Pending)
  IN  /\ StrictlySorted(Keys(elems)) /\ StrictlySorted(MixerNames(Now))
      /\ phase \in {"idle", "popped"} /\ subscribed =>
           \A c \in Controls \ missed : {h \in then : h[1] = c} = {Handle(d) : d \in {c} \cap Offered}

(* A control and a mixer element that use one another both know it         *)
(* (mixer.c:91, 110), each once; an element holds no control but those,    *)
(* which are all in the cache, and without any it is gone.  Two threads of *)
(* pointers that come apart are a use after free when the control is       *)
(* removed.                                                                *)
BagsAgree ==
  /\ \A m \in Range(mixer) :
       /\ m.s.helems # <<>> /\ IsInjective(m.s.helems)
       /\ {m.s.ctls[t] : t \in Types} \ {NoControl} = Range(m.s.helems)
       /\ Range(m.s.helems) \subseteq {e.h : e \in Range(elems)}
  /\ \A e \in Range(elems) :
       /\ IsInjective(e.bag)
       /\ Range(e.bag) = {m.name : m \in {n \in Range(mixer) : e.h \in Range(n.s.helems)}}

(* The application knows every value the mixer holds, by an event or by    *)
(* its own sets: a handler that reads a change and does not throw the event*)
(* (simple_none.c:1589, 1694) leaves it with a slider that never moves.    *)
(* One thing does leave it so, until the next event of the element: a set  *)
(* reads a capture source's element back, and any that it fails to write   *)
(* (simple_none.c:640, 653), throws no event, and the event of the other   *)
(* program's change it met finds nothing new.                              *)
AppTold ==
  \A m \in Range(mixer) :
    m.name \notin torn /\ ~told[m.name].unsaid => told[m.name] = View(m.s)

(* An element none of whose controls has an event pending holds what the   *)
(* card has.  It may not, in one that a failure or a removed control left  *)
(* unread, or of a control that changed before the subscription.  (Nor may *)
(* it where two switches of one direction disagree, or an enumeration      *)
(* hides a volume: not in MCMixer.)                                        *)
ValuesFresh ==
  phase = "idle" =>
    \A m \in Range(mixer) :
      LET r == SelemRead(m.s, card)
          quiet == \A h \in Range(m.s.helems) : ~PendingFor(h[1]) /\ h[1] \notin missed
      IN  quiet /\ m.name \notin torn =>
            /\ ~r.err
            /\ \A d \in Dirs : /\ HasVolume(m.s, d) => m.s.vol[d] = r.s.vol[d]
                               /\ HasSwitch(m.s, d) => m.s.sw[d] = r.s.sw[d]

(* A set writes all of the element's controls from what the element holds  *)
(* (simple_none.c:558), so what it changes beside the one that is meant is *)
(* always the loss of another program's change whose event has not been    *)
(* handled yet, and never anything else.  One control is lost by the way   *)
(* the code is: a switch for both directions beside one for capture is     *)
(* never read (simple_none.c:389) and yet written, and so switched off.    *)
(* (Two switches of one direction, not in MCMixer, are written as one.)    *)
Meant(name, kinds) ==
  {c \in Controls : name \in Range(Control[c].elems) /\ Control[c].type \in kinds}
VolumeKinds(dir) == {"SINGLE", "GLOBAL_VOLUME", dir \o "_VOLUME"}
SwitchKinds(dir) == {"SINGLE", "GLOBAL_SWITCH", "GLOBAL_ROUTE", dir \o "_SWITCH", dir \o "_ROUTE"}
                    \union (IF dir = "CAPTURE" THEN {"CAPTURE_SOURCE"} ELSE {})

OnlyLosesUnheard(name, meant) ==
  \A c \in Controls \ meant :
    card'[c] # card[c] =>
      \/ PendingFor(c) \/ c \in missed \/ name \in torn
      \/ Control[c].type = "GLOBAL_SWITCH" /\ CaptureSwitch(Elem(Now, name))

WritesBackOnlyStale ==
  [][sets' = sets + 1 =>
       \A name \in Names, dir \in Dirs :
         /\ (\E v \in Values : SetVolumeOps(name, dir, v)) =>
              OnlyLosesUnheard(name, Meant(name, VolumeKinds(dir)))
         /\ (\E on \in BOOLEAN : SetSwitchOps(name, dir, on)) =>
              OnlyLosesUnheard(name, Meant(name, SwitchKinds(dir)))]_vars

(* An assertion of the handlers (hcontrol.c:355, 744, 823,                 *)
(* simple_none.c:1615) ends the program only by one of three races: a      *)
(* control came or went before the subscription, it came and went between  *)
(* two reads of the queue, or a capture source went while it was being     *)
(* looked at; or by controls that were never foreseen: an element has an   *)
(* enumeration for each direction and none for both.                       *)
AbortsOnlyRacing ==
  phase = "dead" =>
    \/ missed # {} \/ unseen # {}
    \/ \E e \in Range(elems) : Control[e.h[1]].type = "CAPTURE_SOURCE" /\ Gone(card, e.h)
    \/ \E m \in Range(mixer) : NullEnum(m.s)
===============================================================================
