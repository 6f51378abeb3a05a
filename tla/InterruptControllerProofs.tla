--------------------- MODULE InterruptControllerProofs ---------------------
(***************************************************************************)
(* Proofs about InterruptController, for any lines in use: the two facts   *)
(* that the controllers keep, PIC_IRQCheck and the request of line 2, stay *)
(* right whatever devices and guest do (but for what a device on line 2    *)
(* does to them), and interrupts start in order.                           *)
(***************************************************************************)
EXTENDS InterruptController, TLAPS

(***************************************************************************)
(* The methods work on a state st; what the properties say of the          *)
(* variables, said of such a state; sh: a device has used line 2.          *)
(***************************************************************************)

\* p2 takes the place of the controller c
With(st, c, p2) == [st EXCEPT !.pics[c] = p2]

Typed(st) ==
  /\ st = [pics |-> st.pics, check |-> st.check]
  /\ st.pics = [c \in Controllers |-> st.pics[c]]
  /\ \A c \in Controllers : st.pics[c] \in PIC_Controller(c)
  /\ st.check \in BOOLEAN

SignalledIn(st, sh) ==
  LET p == st.pics["primary"]
      ready == Deliverable(p)
  IN /\ st.check => ready # {}
     /\ ready # {} => \/ st.check
                      \/ p.special \/ "primary" \in AutoEoi
                      \/ sh /\ Highest(ready) = Cascade

CascadeIn(st, sh) ==
  LET s == st.pics["secondary"]
      requested == Cascade \in st.pics["primary"].irr
  IN ~sh =>
       /\ requested => Deliverable(s) # {}
       /\ Deliverable(s) # {} /\ ~s.special /\ "secondary" \notin AutoEoi => requested

Good(st, sh) == Typed(st) /\ SignalledIn(st, sh) /\ CascadeIn(st, sh)

\* a change of the controller c that leaves the request of line 2 alone, unless
\* devices use it too
KeepsCascade(st, c, p2, sh) ==
  /\ p2 \in PIC_Controller(c)
  /\ c = "primary" /\ ~sh => (Cascade \in p2.irr <=> Cascade \in st.pics[c].irr)

----------------------------------------------------------------------------
(* Lemmas about the methods.                                               *)

\* A set of lines has a first one.
LEMMA HighestIsFirst ==
  ASSUME NEW S \in SUBSET (0 .. 7), S # {}
  PROVE  /\ Highest(S) \in S
         /\ \A m \in S : Highest(S) <= m
<1>1. \E n \in S : \A m \in S : n <= m
  <2> SUFFICES ASSUME \A n \in S : \E m \in S : m < n
               PROVE  FALSE
    OBVIOUS
  <2>0. 0 \notin S OBVIOUS
  <2>1. 1 \notin S BY <2>0
  <2>2. 2 \notin S BY <2>0, <2>1
  <2>3. 3 \notin S BY <2>0, <2>1, <2>2
  <2>4. 4 \notin S BY <2>0, <2>1, <2>2, <2>3
  <2>5. 5 \notin S BY <2>0, <2>1, <2>2, <2>3, <2>4
  <2>6. 6 \notin S BY <2>0, <2>1, <2>2, <2>3, <2>4, <2>5
  <2>7. 7 \notin S BY <2>0, <2>1, <2>2, <2>3, <2>4, <2>5, <2>6
  <2>8. PICK n \in S : TRUE OBVIOUS
  <2>9. n \in 0 .. 7 OBVIOUS
  <2> QED BY <2>0, <2>1, <2>2, <2>3, <2>4, <2>5, <2>6, <2>7, <2>9
<1> QED BY <1>1 DEF Highest

\* What With changes.
LEMMA WithIs ==
  ASSUME NEW st, Typed(st), NEW c \in Controllers, NEW p2 \in PIC_Controller(c)
  PROVE  /\ Typed(With(st, c, p2))
         /\ With(st, c, p2).check = st.check
         /\ With(st, c, p2).pics[c] = p2
         /\ \A d \in Controllers : d # c => With(st, c, p2).pics[d] = st.pics[d]
BY DEF With, Typed, Controllers

\* What a change of the primary controller and of the signal gives.
LEMMA BoardIs ==
  ASSUME NEW st, Typed(st), NEW q \in PIC_Controller("primary"), NEW chk \in BOOLEAN,
         NEW new, new = [pics |-> [st.pics EXCEPT !["primary"] = q], check |-> chk]
  PROVE  /\ Typed(new)
         /\ new.pics["primary"] = q
         /\ new.pics["secondary"] = st.pics["secondary"]
         /\ new.check = chk
BY DEF Typed, Controllers

\* A change that does not touch what is deliverable needs no recheck.
LEMMA SameIsGood ==
  ASSUME NEW st, NEW sh \in BOOLEAN, Good(st, sh),
         NEW c \in Controllers, NEW p2, KeepsCascade(st, c, p2, sh),
         Deliverable(p2) = Deliverable(st.pics[c]),
         p2.special = st.pics[c].special
  PROVE  Good(With(st, c, p2), sh)
<1> DEFINE new == With(st, c, p2)
<1>1. /\ Typed(new) /\ new.check = st.check /\ new.pics[c] = p2
      /\ \A d \in Controllers : d # c => new.pics[d] = st.pics[d]
  BY WithIs DEF Good, KeepsCascade
<1> SUFFICES Good(new, sh) OBVIOUS
<1> HIDE DEF new
<1>2. CASE c = "primary"
  BY <1>1, <1>2 DEF Good, SignalledIn, CascadeIn, KeepsCascade, Controllers
<1>3. CASE c = "secondary"
  BY <1>1, <1>3 DEF Good, SignalledIn, CascadeIn, KeepsCascade, Controllers
<1> QED BY <1>2, <1>3 DEF Controllers

\* activate after a change that makes something deliverable.
LEMMA ActivateIsGood ==
  ASSUME NEW st, NEW sh \in BOOLEAN, Good(st, sh),
         NEW c \in Controllers, NEW p2, KeepsCascade(st, c, p2, sh),
         Deliverable(p2) # {}
  PROVE  Good(activate(With(st, c, p2), c), sh)
<1> DEFINE new == With(st, c, p2)
<1>1. /\ Typed(new) /\ new.check = st.check /\ new.pics[c] = p2
      /\ \A d \in Controllers : d # c => new.pics[d] = st.pics[d]
  BY WithIs DEF Good, KeepsCascade
<1> SUFFICES Good(activate(new, c), sh) OBVIOUS
<1> HIDE DEF new
<1>2. CASE c = "primary"
  <2>1. /\ activate(new, c).pics = new.pics /\ activate(new, c).check = TRUE
        /\ Typed(activate(new, c))
    BY <1>1, <1>2 DEF activate, Typed
  <2> QED
    BY <1>1, <1>2, <2>1 DEF Good, SignalledIn, CascadeIn, KeepsCascade, Controllers
<1>3. CASE c = "secondary"
  <2> DEFINE p == st.pics["primary"]
             q == [p EXCEPT !.irr = @ \cup {Cascade}]
             chk == new.check \/ Cascade \in Deliverable(q)
  <2>1. new.pics["primary"] = p /\ p \in PIC_Controller("primary")
    BY <1>1, <1>3 DEF Good, Typed, Controllers
  <2>2. CASE Cascade \in p.irr
    <3>1. activate(new, c) = new
      BY <2>1, <2>2, <1>3 DEF activate
    <3> QED
      BY <1>1, <1>3, <2>1, <2>2, <3>1
      DEF Good, SignalledIn, CascadeIn, Controllers
  <2>3. CASE Cascade \notin p.irr
    <3>1. q \in PIC_Controller("primary") /\ Cascade \in q.irr /\ q.special = p.special
      BY <2>1, LinesAssumption DEF PIC_Controller, Controllers
    <3>2. Deliverable(q) \ {Cascade} = Deliverable(p) \ {Cascade}
          /\ Deliverable(p) \subseteq Deliverable(q)
      BY <2>1 DEF Deliverable, Possible, Urgent, PIC_Controller
    <3>3. activate(new, c) = [pics  |-> [new.pics EXCEPT !["primary"] = q],
                              check |-> chk]
      BY <2>1, <2>3, <1>3 DEF activate
    <3>4. /\ activate(new, c).pics["primary"] = q
          /\ activate(new, c).pics["secondary"] = p2
          /\ activate(new, c).check = chk
          /\ Typed(activate(new, c))
      <4> HIDE DEF q
      <4>1. chk \in BOOLEAN
        BY <1>1 DEF Typed
      <4> HIDE DEF chk
      <4> QED BY <1>1, <1>3, <3>1, <3>3, <4>1, BoardIs
    <3> HIDE DEF q
    <3>5. SignalledIn(activate(new, c), sh)
      BY <1>1, <3>1, <3>2, <3>4 DEF Good, SignalledIn
    <3>6. CascadeIn(activate(new, c), sh)
      BY <3>1, <3>4 DEF CascadeIn
    <3> QED BY <3>4, <3>5, <3>6 DEF Good
  <2> QED BY <2>2, <2>3
<1> QED BY <1>2, <1>3 DEF Controllers

\* check_for_irq after any other change.
LEMMA RecheckIsGood ==
  ASSUME NEW st, NEW sh \in BOOLEAN, Good(st, sh),
         NEW c \in Controllers, NEW p2, KeepsCascade(st, c, p2, sh)
  PROVE  Good(check_for_irq(With(st, c, p2), c), sh)
<1> DEFINE new == With(st, c, p2)
<1>1. /\ Typed(new) /\ new.check = st.check /\ new.pics[c] = p2
      /\ \A d \in Controllers : d # c => new.pics[d] = st.pics[d]
  BY WithIs DEF Good, KeepsCascade
<1>2. CASE Deliverable(p2) # {}
  BY <1>1, <1>2, ActivateIsGood DEF check_for_irq
<1>3. CASE Deliverable(p2) = {}
  <2>1. check_for_irq(new, c) = deactivate(new, c)
    BY <1>1, <1>3 DEF check_for_irq
  <2> SUFFICES Good(deactivate(new, c), sh)
    BY <2>1
  <2> HIDE DEF new
  <2>2. CASE c = "primary"
    <3>1. /\ deactivate(new, c).pics = new.pics /\ deactivate(new, c).check = FALSE
          /\ Typed(deactivate(new, c))
      BY <1>1, <2>2 DEF deactivate, Typed
    <3> QED
      BY <1>1, <1>3, <2>2, <3>1
      DEF Good, SignalledIn, CascadeIn, KeepsCascade, Controllers
  <2>3. CASE c = "secondary"
    <3> DEFINE p == st.pics["primary"]
               q == [p EXCEPT !.irr = @ \ {Cascade}]
               chk == IF Cascade \in Deliverable(p) THEN Deliverable(q) # {} ELSE st.check
    <3>1. new.pics["primary"] = p /\ p \in PIC_Controller("primary")
      BY <1>1, <2>3 DEF Good, Typed, Controllers
    <3>2. q \in PIC_Controller("primary") /\ Cascade \notin q.irr /\ q.special = p.special
      BY <3>1 DEF PIC_Controller
    <3>3. Cascade \notin Deliverable(p) => Deliverable(q) = Deliverable(p)
      BY <3>1 DEF Deliverable, Possible, Urgent, PIC_Controller
    <3>4. deactivate(new, c) = [pics |-> [new.pics EXCEPT !["primary"] = q], check |-> chk]
      BY <1>1, <3>1, <2>3 DEF deactivate
    <3>5. /\ deactivate(new, c).pics["primary"] = q
          /\ deactivate(new, c).pics["secondary"] = p2
          /\ deactivate(new, c).check = chk
          /\ chk \in BOOLEAN
          /\ Typed(deactivate(new, c))
      <4> HIDE DEF q
      <4>1. chk \in BOOLEAN
        BY <1>1 DEF Typed
      <4> HIDE DEF chk
      <4> QED BY <1>1, <2>3, <3>2, <3>4, <4>1, BoardIs
    <3> HIDE DEF q
    <3>6. SignalledIn(deactivate(new, c), sh)
      BY <3>2, <3>3, <3>5 DEF Good, SignalledIn
    <3>7. CascadeIn(deactivate(new, c), sh)
      BY <1>3, <3>2, <3>5 DEF CascadeIn
    <3> QED BY <3>5, <3>6, <3>7 DEF Good
  <2> QED BY <2>2, <2>3 DEF Controllers
<1> QED BY <1>2, <1>3

----------------------------------------------------------------------------
(* The operations keep the signals right.                                  *)

\* What is said of line 2 alone holds when devices use it too.
LEMMA SharingIsGood ==
  ASSUME NEW st, NEW sh \in BOOLEAN, Good(st, sh), NEW after \in BOOLEAN, sh => after
  PROVE  Good(st, after)
BY DEF Good, SignalledIn, CascadeIn

LEMMA RaiseIsGood ==
  ASSUME NEW st, NEW sh \in BOOLEAN, Good(st, sh),
         NEW c \in Controllers, NEW n \in Lines[c],
         NEW after, after = (sh \/ <<c, n>> = <<"primary", Cascade>>)
  PROVE  Good(raise_irq(st, c, n), after)
<1> DEFINE p2 == [st.pics[c] EXCEPT !.irr = @ \cup {n}]
<1>1. /\ st.pics[c] \in PIC_Controller(c) /\ Typed(st)
      /\ after \in BOOLEAN /\ Good(st, after)
  BY SharingIsGood DEF Good, Typed
<1>2. KeepsCascade(st, c, p2, after)
  BY <1>1 DEF KeepsCascade, PIC_Controller
<1>3. [st EXCEPT !.pics[c].irr = @ \cup {n}] = With(st, c, p2)
  BY <1>1 DEF With, Typed
<1>4. With(st, c, p2).pics[c] = p2
  BY <1>1, <1>2, WithIs DEF KeepsCascade
<1>5. CASE n \notin st.pics[c].irr /\ n \in Deliverable(p2)
  BY <1>1, <1>2, <1>3, <1>4, <1>5, ActivateIsGood DEF raise_irq
<1>6. CASE ~(n \notin st.pics[c].irr /\ n \in Deliverable(p2))
  <2>1. Deliverable(p2) = Deliverable(st.pics[c]) /\ p2.special = st.pics[c].special
    BY <1>1, <1>6 DEF Deliverable, Possible, Urgent, PIC_Controller
  <2>2. Good(With(st, c, p2), after)
    <3> HIDE DEF p2
    <3> QED BY <1>1, <1>2, <2>1, SameIsGood
  <2> QED BY <1>3, <1>4, <1>6, <2>2 DEF raise_irq
<1> QED BY <1>5, <1>6

LEMMA LowerIsGood ==
  ASSUME NEW st, NEW sh \in BOOLEAN, Good(st, sh),
         NEW c \in Controllers, NEW n \in Lines[c],
         NEW after, after = (sh \/ <<c, n>> = <<"primary", Cascade>>)
  PROVE  Good(lower_irq(st, c, n), after)
<1> DEFINE p2 == [st.pics[c] EXCEPT !.irr = @ \ {n}]
<1>1. /\ st.pics[c] \in PIC_Controller(c) /\ Typed(st)
      /\ after \in BOOLEAN /\ Good(st, after)
  BY SharingIsGood DEF Good, Typed
<1>2. KeepsCascade(st, c, p2, after)
  BY <1>1 DEF KeepsCascade, PIC_Controller
<1>3. [st EXCEPT !.pics[c].irr = @ \ {n}] = With(st, c, p2)
  BY <1>1 DEF With, Typed
<1>4. CASE n \in Deliverable(st.pics[c])
  BY <1>1, <1>2, <1>3, <1>4, RecheckIsGood DEF lower_irq
<1>5. CASE n \notin Deliverable(st.pics[c])
  <2>1. Deliverable(p2) = Deliverable(st.pics[c]) /\ p2.special = st.pics[c].special
    BY <1>1, <1>5 DEF Deliverable, Possible, Urgent, PIC_Controller
  <2>2. Good(With(st, c, p2), after)
    <3> HIDE DEF p2
    <3> QED BY <1>1, <1>2, <2>1, SameIsGood
  <2> QED BY <1>3, <1>5, <2>2 DEF lower_irq
<1> QED BY <1>4, <1>5

LEMMA SetImrIsGood ==
  ASSUME NEW st, NEW sh \in BOOLEAN, Good(st, sh),
         NEW c \in Controllers, NEW val \in SUBSET Lines[c]
  PROVE  Good(set_imr(st, c, val), sh)
<1> DEFINE p == st.pics[c]
           imr == val \ Unmaskable[c]
           p2 == [p EXCEPT !.imr = imr]
           change == (p.imr \ imr) \cup (imr \ p.imr)
<1>1. p \in PIC_Controller(c) /\ Typed(st)
  BY DEF Good, Typed
<1>2. KeepsCascade(st, c, p2, sh)
  BY <1>1 DEF KeepsCascade, PIC_Controller
<1>3. [st EXCEPT !.pics[c].imr = imr] = With(st, c, p2)
  BY <1>1 DEF With, Typed
<1>4. CASE (p.irr \cap change) \ p.isr # {}
  BY <1>2, <1>3, <1>4, RecheckIsGood DEF set_imr
<1>5. CASE (p.irr \cap change) \ p.isr = {}
  <2>1. Deliverable(p2) = Deliverable(p) /\ p2.special = p.special
    BY <1>1, <1>5 DEF Deliverable, Possible, Urgent, PIC_Controller
  <2>2. Good(With(st, c, p2), sh)
    <3> HIDE DEF p2
    <3> QED BY <1>2, <2>1, SameIsGood
  <2> QED BY <1>3, <1>5, <2>2 DEF set_imr
<1> QED BY <1>4, <1>5

LEMMA SpecialIsGood ==
  ASSUME NEW st, NEW sh \in BOOLEAN, Good(st, sh),
         NEW c \in Controllers, NEW on \in BOOLEAN
  PROVE  Good(check_for_irq([st EXCEPT !.pics[c].special = on], c), sh)
<1> DEFINE p2 == [st.pics[c] EXCEPT !.special = on]
<1>1. st.pics[c] \in PIC_Controller(c) /\ Typed(st)
  BY DEF Good, Typed
<1>2. KeepsCascade(st, c, p2, sh)
  BY <1>1 DEF KeepsCascade, PIC_Controller
<1>3. [st EXCEPT !.pics[c].special = on] = With(st, c, p2)
  BY <1>1 DEF With, Typed
<1> QED BY <1>2, <1>3, RecheckIsGood

\* What update_active_irq makes of a controller.
LEMMA UpdateIs ==
  ASSUME NEW c \in Controllers, NEW p \in PIC_Controller(c)
  PROVE  /\ update_active_irq(p) \in PIC_Controller(c)
         /\ update_active_irq(p).irr = p.irr
         /\ update_active_irq(p).imr = p.imr
         /\ update_active_irq(p).isr = p.isr
         /\ update_active_irq(p).special = p.special
         /\ update_active_irq(p).auto_eoi = p.auto_eoi
         /\ update_active_irq(p).active_irq =
              IF p.isr = {} THEN NoIrq ELSE Highest(p.isr)
<1>1. p.isr \in SUBSET (0 .. 7)
  BY LinesAssumption DEF PIC_Controller
<1>2. (IF p.isr = {} THEN NoIrq ELSE Highest(p.isr)) \in 0 .. NoIrq
  BY <1>1, HighestIsFirst DEF NoIrq
<1> QED BY <1>2 DEF update_active_irq, PIC_Controller

LEMMA EoiIsGood ==
  ASSUME NEW st, NEW sh \in BOOLEAN, Good(st, sh),
         NEW c \in Controllers, NEW n
  PROVE  Good(EndOfInterrupt(st, c, n), sh)
<1> DEFINE p == st.pics[c]
           p1 == [p EXCEPT !.isr = @ \ {n}]
           p2 == update_active_irq(p1)
<1>1. p \in PIC_Controller(c) /\ Typed(st) /\ p1 \in PIC_Controller(c)
  BY DEF Good, Typed, PIC_Controller
<1>2. /\ p2 \in PIC_Controller(c)
      /\ p2.irr = p.irr /\ p2.imr = p.imr /\ p2.special = p.special
      /\ p2.isr \subseteq p.isr
  <2>1. p1.irr = p.irr /\ p1.imr = p.imr /\ p1.special = p.special /\ p1.isr \subseteq p.isr
    BY <1>1 DEF PIC_Controller
  <2> HIDE DEF p1
  <2> QED BY <1>1, <2>1, UpdateIs
<1> HIDE DEF p2
<1>3. KeepsCascade(st, c, p2, sh)
  BY <1>2 DEF KeepsCascade
<1>4. EndOfInterrupt(st, c, n) =
        IF Possible(p2) # {} THEN check_for_irq(With(st, c, p2), c) ELSE With(st, c, p2)
  BY DEF EndOfInterrupt, With, p2
<1>5. CASE Possible(p2) # {}
  BY <1>3, <1>4, <1>5, RecheckIsGood
<1>6. CASE Possible(p2) = {}
  <2>1. Possible(p) = {}
    BY <1>1, <1>2, <1>6 DEF Possible
  <2>2. Deliverable(p2) = Deliverable(p)
    BY <1>6, <2>1 DEF Deliverable
  <2> QED BY <1>2, <1>3, <1>4, <1>6, <2>2, SameIsGood
<1> QED BY <1>5, <1>6

----------------------------------------------------------------------------
(* What is in service changes only when an interrupt starts or ends.       *)

\* the highest priority among the lines of S
First(S) == IF S = {} THEN NoIrq ELSE Highest(S)

ActiveIn(st) ==
  \A c \in Controllers :
    /\ c \notin SpecialMask => /\ ~st.pics[c].special
                             /\ st.pics[c].active_irq = First(st.pics[c].isr)
    /\ st.pics[c].auto_eoi => c \in AutoEoi

SameService(p, q) ==
  /\ q.isr = p.isr /\ q.active_irq = p.active_irq
  /\ q.special = p.special /\ q.auto_eoi = p.auto_eoi

LEMMA CheckKeepsService ==
  ASSUME NEW st, Typed(st), NEW c \in Controllers, NEW d \in Controllers
  PROVE  /\ SameService(st.pics[d], activate(st, c).pics[d])
         /\ SameService(st.pics[d], check_for_irq(st, c).pics[d])
<1>1. SameService(st.pics[d], activate(st, c).pics[d])
  BY DEF Typed, activate, SameService, PIC_Controller, Controllers
<1>2. SameService(st.pics[d], deactivate(st, c).pics[d])
  BY DEF Typed, deactivate, SameService, PIC_Controller, Controllers
<1> QED BY <1>1, <1>2 DEF check_for_irq

LEMMA WithKeepsService ==
  ASSUME NEW st, Typed(st), NEW c \in Controllers, NEW p2 \in PIC_Controller(c),
         SameService(st.pics[c], p2), NEW d \in Controllers
  PROVE  /\ Typed(With(st, c, p2))
         /\ SameService(st.pics[d], With(st, c, p2).pics[d])
         /\ SameService(st.pics[d], activate(With(st, c, p2), c).pics[d])
         /\ SameService(st.pics[d], check_for_irq(With(st, c, p2), c).pics[d])
<1> DEFINE new == With(st, c, p2)
<1>1. Typed(new) /\ SameService(st.pics[d], new.pics[d])
  BY WithIs DEF SameService
<1> HIDE DEF new
<1>2. /\ SameService(new.pics[d], activate(new, c).pics[d])
      /\ SameService(new.pics[d], check_for_irq(new, c).pics[d])
  BY <1>1, CheckKeepsService
<1>3. /\ SameService(st.pics[d], activate(new, c).pics[d])
      /\ SameService(st.pics[d], check_for_irq(new, c).pics[d])
  BY <1>1, <1>2 DEF SameService
<1> QED BY <1>1, <1>3 DEF new

LEMMA RaiseKeepsService ==
  ASSUME NEW st, Typed(st), NEW c \in Controllers, NEW n \in Lines[c],
         NEW d \in Controllers
  PROVE  SameService(st.pics[d], raise_irq(st, c, n).pics[d])
<1> DEFINE p2 == [st.pics[c] EXCEPT !.irr = @ \cup {n}]
<1>1. p2 \in PIC_Controller(c) /\ SameService(st.pics[c], p2)
  BY DEF Typed, SameService, PIC_Controller
<1>2. [st EXCEPT !.pics[c].irr = @ \cup {n}] = With(st, c, p2)
  BY DEF With, Typed
<1>3. /\ SameService(st.pics[d], With(st, c, p2).pics[d])
      /\ SameService(st.pics[d], activate(With(st, c, p2), c).pics[d])
  BY <1>1, WithKeepsService
<1> QED BY <1>2, <1>3 DEF raise_irq

LEMMA LowerKeepsService ==
  ASSUME NEW st, Typed(st), NEW c \in Controllers, NEW n \in Lines[c],
         NEW d \in Controllers
  PROVE  SameService(st.pics[d], lower_irq(st, c, n).pics[d])
<1> DEFINE p2 == [st.pics[c] EXCEPT !.irr = @ \ {n}]
<1>1. p2 \in PIC_Controller(c) /\ SameService(st.pics[c], p2)
  BY DEF Typed, SameService, PIC_Controller
<1>2. [st EXCEPT !.pics[c].irr = @ \ {n}] = With(st, c, p2)
  BY DEF With, Typed
<1>3. /\ SameService(st.pics[d], With(st, c, p2).pics[d])
      /\ SameService(st.pics[d], check_for_irq(With(st, c, p2), c).pics[d])
  BY <1>1, WithKeepsService
<1> QED BY <1>2, <1>3 DEF lower_irq

LEMMA SetImrKeepsService ==
  ASSUME NEW st, Typed(st), NEW c \in Controllers, NEW val \in SUBSET Lines[c],
         NEW d \in Controllers
  PROVE  SameService(st.pics[d], set_imr(st, c, val).pics[d])
<1> DEFINE imr == val \ Unmaskable[c]
           p2 == [st.pics[c] EXCEPT !.imr = imr]
<1>1. p2 \in PIC_Controller(c) /\ SameService(st.pics[c], p2)
  BY DEF Typed, SameService, PIC_Controller
<1>2. [st EXCEPT !.pics[c].imr = imr] = With(st, c, p2)
  BY DEF With, Typed
<1>3. /\ SameService(st.pics[d], With(st, c, p2).pics[d])
      /\ SameService(st.pics[d], check_for_irq(With(st, c, p2), c).pics[d])
  BY <1>1, WithKeepsService
<1> QED BY <1>2, <1>3 DEF set_imr

LEMMA SpecialKeepsService ==
  ASSUME NEW st, Typed(st), NEW c \in Controllers, NEW on \in BOOLEAN, NEW d \in Controllers,
         NEW new, new = check_for_irq([st EXCEPT !.pics[c].special = on], c)
  PROVE  /\ new.pics[d].isr = st.pics[d].isr
         /\ new.pics[d].auto_eoi = st.pics[d].auto_eoi
         /\ new.pics[d].active_irq = st.pics[d].active_irq
         /\ new.pics[d].special = IF d = c THEN on ELSE st.pics[d].special
<1> DEFINE mid == [st EXCEPT !.pics[c].special = on]
<1>1. /\ Typed(mid)
      /\ mid.pics[d].isr = st.pics[d].isr
      /\ mid.pics[d].auto_eoi = st.pics[d].auto_eoi
      /\ mid.pics[d].active_irq = st.pics[d].active_irq
      /\ mid.pics[d].special = IF d = c THEN on ELSE st.pics[d].special
  BY DEF Typed, PIC_Controller, Controllers
<1>2. new = check_for_irq(mid, c)
  OBVIOUS
<1> HIDE DEF mid
<1>3. SameService(mid.pics[d], new.pics[d])
  BY <1>1, <1>2, CheckKeepsService
<1> QED BY <1>1, <1>3 DEF SameService

LEMMA EoiEndsService ==
  ASSUME NEW st, Typed(st), NEW c \in Controllers, NEW n, NEW d \in Controllers
  PROVE  /\ EndOfInterrupt(st, c, n).pics[d].special = st.pics[d].special
         /\ EndOfInterrupt(st, c, n).pics[d].auto_eoi = st.pics[d].auto_eoi
         /\ EndOfInterrupt(st, c, n).pics[d].isr =
              IF d = c THEN st.pics[d].isr \ {n} ELSE st.pics[d].isr
         /\ EndOfInterrupt(st, c, n).pics[d].active_irq =
              IF d = c THEN First(st.pics[d].isr \ {n}) ELSE st.pics[d].active_irq
<1> DEFINE p1 == [st.pics[c] EXCEPT !.isr = @ \ {n}]
           p2 == update_active_irq(p1)
           new == With(st, c, p2)
<1>1. p1 \in PIC_Controller(c) /\ p1.special = st.pics[c].special
      /\ p1.auto_eoi = st.pics[c].auto_eoi
      /\ p1.isr = st.pics[c].isr \ {n}
  BY DEF Typed, PIC_Controller
<1>2. /\ p2 \in PIC_Controller(c) /\ p2.special = st.pics[c].special
      /\ p2.auto_eoi = st.pics[c].auto_eoi
      /\ p2.isr = st.pics[c].isr \ {n}
      /\ p2.active_irq = First(st.pics[c].isr \ {n})
  <2> HIDE DEF p1
  <2> QED BY <1>1, UpdateIs DEF First
<1>3. EndOfInterrupt(st, c, n) = IF Possible(p2) # {} THEN check_for_irq(new, c) ELSE new
  BY DEF EndOfInterrupt, With
<1> HIDE DEF p2
<1>4. Typed(new) /\ new.pics[c] = p2 /\ (d # c => new.pics[d] = st.pics[d])
  BY <1>2, WithIs
<1> HIDE DEF new
<1>5. SameService(new.pics[d], EndOfInterrupt(st, c, n).pics[d])
  BY <1>3, <1>4, CheckKeepsService DEF SameService
<1> QED BY <1>2, <1>4, <1>5 DEF SameService

----------------------------------------------------------------------------
(* The inductive invariant.                                                *)

\* Outside special mask mode active_irq is the first line in service, and
\* only the guest turns auto-EOI mode on.
ActiveIsFirst == ActiveIn(State)

IInv == TypeOK /\ Signalled /\ CascadeFollows /\ ActiveIsFirst

LEMMA StateIsGood ==
  ASSUME IInv
  PROVE  Good(State, shared) /\ ActiveIn(State)
BY DEF IInv, TypeOK, Signalled, CascadeFollows, ActiveIsFirst,
       Good, Typed, SignalledIn, CascadeIn, State

IcwTyped ==
  /\ icw \in [Controllers -> [index : 0 .. 3, words : {0, 2, 3}, single : BOOLEAN]]
  /\ \A c \in Controllers : icw[c].index # 0 => icw[c].words # 0

\* A step to a good state st keeps the invariant.
LEMMA BecomeKeeps ==
  ASSUME NEW st, Good(st, shared'), ActiveIn(st), Become(st),
         IcwTyped', IF_' \in BOOLEAN, shared' \in BOOLEAN
  PROVE  IInv'
BY DEF Good, Typed, SignalledIn, CascadeIn, ActiveIn, Become, IcwTyped, IInv, TypeOK,
       Signalled, CascadeFollows, ActiveIsFirst, State

\* A step that leaves alone what is in service.
LEMMA QuietStep ==
  ASSUME IInv, NEW st, Good(st, shared'), Become(st),
         IcwTyped', IF_' \in BOOLEAN, shared' \in BOOLEAN,
         \A d \in Controllers : SameService(pics[d], st.pics[d])
  PROVE  IInv' /\ InOrder
<1>1. ActiveIn(st)
  BY StateIsGood DEF ActiveIn, SameService, State
<1>2. InOrder
  BY DEF InOrder, SameService, Become
<1> QED BY <1>1, <1>2, BecomeKeeps

LEMMA DeviceStep == ASSUME IInv, Device PROVE IInv' /\ InOrder
<1>1. /\ Good(State, shared) /\ Typed(State) /\ State.pics = pics
      /\ IcwTyped /\ IF_ \in BOOLEAN /\ shared \in BOOLEAN
  BY StateIsGood DEF Good, State, IInv, TypeOK, IcwTyped
<1> SUFFICES ASSUME NEW c \in Controllers, NEW n \in Lines[c],
                    \/ PIC_ActivateIRQ(c, n)
                    \/ PIC_DeActivateIRQ(c, n)
                    \/ \E masked \in BOOLEAN : PIC_SetIRQMask(c, n, masked)
             PROVE  IInv' /\ InOrder
  BY DEF Device
<1>3. CASE PIC_ActivateIRQ(c, n)
  <2>0. shared' = (shared \/ <<c, n>> = <<"primary", Cascade>>) /\ shared' \in BOOLEAN
    BY <1>3 DEF PIC_ActivateIRQ, Shares
  <2> DEFINE st == raise_irq(State, c, n)
  <2>1. Good(st, shared') /\ \A d \in Controllers : SameService(pics[d], st.pics[d])
    BY <1>1, <2>0, RaiseIsGood, RaiseKeepsService
  <2>2. Become(st) /\ IcwTyped' /\ IF_' \in BOOLEAN
    BY <1>1, <1>3 DEF PIC_ActivateIRQ, IcwTyped
  <2> HIDE DEF st
  <2> QED BY <2>0, <2>1, <2>2, QuietStep
<1>4. CASE PIC_DeActivateIRQ(c, n)
  <2>0. shared' = (shared \/ <<c, n>> = <<"primary", Cascade>>) /\ shared' \in BOOLEAN
    BY <1>4 DEF PIC_DeActivateIRQ, Shares
  <2> DEFINE st == lower_irq(State, c, n)
  <2>1. Good(st, shared') /\ \A d \in Controllers : SameService(pics[d], st.pics[d])
    BY <1>1, <2>0, LowerIsGood, LowerKeepsService
  <2>2. Become(st) /\ IcwTyped' /\ IF_' \in BOOLEAN
    BY <1>1, <1>4 DEF PIC_DeActivateIRQ, IcwTyped
  <2> HIDE DEF st
  <2> QED BY <2>0, <2>1, <2>2, QuietStep
<1>5. ASSUME NEW masked \in BOOLEAN, PIC_SetIRQMask(c, n, masked)
      PROVE  IInv' /\ InOrder
  <2> DEFINE val == IF masked THEN pics[c].imr \cup {n} ELSE pics[c].imr \ {n}
             st == set_imr(State, c, val)
  <2>1. val \in SUBSET Lines[c]
    BY DEF IInv, TypeOK, PIC_Controller
  <2>2. Become(st) /\ IcwTyped' /\ IF_' \in BOOLEAN /\ shared' = shared
    BY <1>1, <1>5 DEF PIC_SetIRQMask, IcwTyped
  <2> HIDE DEF val
  <2>3. Good(st, shared') /\ \A d \in Controllers : SameService(pics[d], st.pics[d])
    BY <1>1, <2>1, <2>2, SetImrIsGood, SetImrKeepsService
  <2> HIDE DEF st
  <2> QED BY <1>1, <2>2, <2>3, QuietStep
<1> QED BY <1>3, <1>4, <1>5

LEMMA EoiStep ==
  ASSUME IInv, NEW c \in Controllers, NEW n,
         Become(EndOfInterrupt(State, c, n)), UNCHANGED <<icw, IF_, shared>>
  PROVE  IInv' /\ InOrder
<1> DEFINE st == EndOfInterrupt(State, c, n)
<1>1. /\ Good(State, shared) /\ Typed(State) /\ State.pics = pics /\ ActiveIn(State)
      /\ IcwTyped' /\ IF_' \in BOOLEAN /\ shared' = shared /\ shared \in BOOLEAN
  BY StateIsGood DEF Good, State, IInv, TypeOK, IcwTyped
<1>2. /\ Good(st, shared')
      /\ \A d \in Controllers :
           /\ st.pics[d].special = pics[d].special
           /\ st.pics[d].auto_eoi = pics[d].auto_eoi
           /\ st.pics[d].isr = IF d = c THEN pics[d].isr \ {n} ELSE pics[d].isr
           /\ st.pics[d].active_irq =
                IF d = c THEN First(pics[d].isr \ {n}) ELSE pics[d].active_irq
  BY <1>1, EoiIsGood, EoiEndsService
<1>3. Become(st)
  OBVIOUS
<1> HIDE DEF st
<1>4. ActiveIn(st)
  BY <1>1, <1>2 DEF ActiveIn
<1>5. InOrder
  BY <1>2, <1>3 DEF InOrder, Become
<1> QED BY <1>1, <1>2, <1>3, <1>4, <1>5, BecomeKeeps

LEMMA GuestStep == ASSUME IInv, Guest PROVE IInv' /\ InOrder
<1>1. /\ Good(State, shared) /\ Typed(State) /\ State.pics = pics /\ ActiveIn(State)
      /\ IcwTyped /\ IF_ \in BOOLEAN /\ shared \in BOOLEAN
  BY StateIsGood DEF Good, State, IInv, TypeOK, IcwTyped
<1>2. PICK c \in Controllers :
        \/ \E single, icw4 \in BOOLEAN : Icw1(c, single, icw4)
        \/ \E on \in BOOLEAN : Ocw3(c, on)
        \/ \E n \in Lines[c] : SpecificEoi(c, n)
        \/ NonspecificEoi(c)
        \/ \E val \in SUBSET Lines[c] : WriteMask(c, val)
        \/ WriteIcw(c)
        \/ \E auto \in BOOLEAN : WriteIcw4(c, auto)
  BY DEF Guest
<1>3. ASSUME NEW val \in SUBSET Lines[c], Become(set_imr(State, c, val)),
             IcwTyped', IF_' \in BOOLEAN, shared' = shared
      PROVE  IInv' /\ InOrder
  <2> DEFINE st == set_imr(State, c, val)
  <2>1. Good(st, shared') /\ \A d \in Controllers : SameService(pics[d], st.pics[d])
    BY <1>1, <1>3, SetImrIsGood, SetImrKeepsService
  <2>2. Become(st)
    BY <1>3
  <2> HIDE DEF st
  <2> QED BY <1>1, <1>3, <2>1, <2>2, QuietStep
<1>4. ASSUME NEW single \in BOOLEAN, NEW icw4 \in BOOLEAN, Icw1(c, single, icw4)
      PROVE  IInv' /\ InOrder
  <2>1. IcwTyped' /\ IF_' \in BOOLEAN /\ shared' = shared
    BY <1>1, <1>4 DEF Icw1, IcwTyped
  <2> QED BY <1>3, <1>4, <2>1 DEF Icw1
<1>5. ASSUME NEW on \in BOOLEAN, Ocw3(c, on)
      PROVE  IInv' /\ InOrder
  <2> DEFINE st == check_for_irq([State EXCEPT !.pics[c].special = on], c)
  <2>0. shared' = shared
    BY <1>5 DEF Ocw3
  <2>1. /\ Good(st, shared')
        /\ \A d \in Controllers :
             /\ st.pics[d].isr = pics[d].isr
             /\ st.pics[d].auto_eoi = pics[d].auto_eoi
             /\ st.pics[d].active_irq = pics[d].active_irq
             /\ st.pics[d].special = IF d = c THEN on ELSE pics[d].special
    BY <1>1, <2>0, SpecialIsGood, SpecialKeepsService
  <2>2. Become(st) /\ IcwTyped' /\ IF_' \in BOOLEAN /\ shared' = shared
    BY <1>1, <1>5 DEF Ocw3, IcwTyped
  <2> HIDE DEF st
  <2>3. on => c \in SpecialMask
    BY <1>5 DEF Ocw3
  <2>4. ActiveIn(st)
    BY <1>1, <2>1, <2>3 DEF ActiveIn
  <2>5. InOrder
    BY <2>1, <2>2 DEF InOrder, Become
  <2> QED BY <1>1, <2>0, <2>1, <2>2, <2>4, <2>5, BecomeKeeps
<1>6. ASSUME NEW n \in Lines[c], SpecificEoi(c, n)
      PROVE  IInv' /\ InOrder
  BY <1>6, EoiStep DEF SpecificEoi
<1>7. CASE NonspecificEoi(c)
  BY <1>7, EoiStep DEF NonspecificEoi
<1>8. ASSUME NEW val \in SUBSET Lines[c], WriteMask(c, val)
      PROVE  IInv' /\ InOrder
  <2>1. IcwTyped' /\ IF_' \in BOOLEAN /\ shared' = shared
    BY <1>1, <1>8 DEF WriteMask, IcwTyped
  <2> QED BY <1>3, <1>8, <2>1 DEF WriteMask
<1>9. CASE WriteIcw(c)
  <2>1. IcwTyped' /\ IF_' \in BOOLEAN /\ shared' = shared
    BY <1>1, <1>9 DEF WriteIcw, IcwTyped, NextIndex
  <2>2. Become(State) /\ \A d \in Controllers : SameService(pics[d], State.pics[d])
    BY <1>1, <1>9 DEF WriteIcw, Become, State, SameService
  <2> QED BY <1>1, <2>1, <2>2, QuietStep
<1>10. ASSUME NEW auto \in BOOLEAN, WriteIcw4(c, auto)
       PROVE  IInv' /\ InOrder
  <2> DEFINE p2 == [pics[c] EXCEPT !.auto_eoi = auto]
             st == With(State, c, p2)
  <2>0. shared' = shared
    BY <1>10 DEF WriteIcw4
  <2>1. pics[c] \in PIC_Controller(c)
    BY DEF IInv, TypeOK
  <2>2. /\ KeepsCascade(State, c, p2, shared)
        /\ Deliverable(p2) = Deliverable(State.pics[c])
        /\ p2.special = State.pics[c].special
    BY <1>1, <2>1 DEF KeepsCascade, PIC_Controller, Deliverable, Possible, Urgent
  <2>3. IcwTyped' /\ IF_' \in BOOLEAN /\ (auto => c \in AutoEoi)
    BY <1>1, <1>10 DEF WriteIcw4, IcwTyped, NextIndex
  <2>4. Become(st)
    BY <1>1, <1>10 DEF WriteIcw4, Become, With, State
  <2>5. /\ p2.isr = pics[c].isr /\ p2.active_irq = pics[c].active_irq
        /\ p2.special = pics[c].special /\ p2.auto_eoi = auto
    BY <2>1 DEF PIC_Controller
  <2> HIDE DEF p2
  <2>6. Good(st, shared')
    BY <1>1, <2>0, <2>2, SameIsGood
  <2>7. /\ st.pics[c] = p2
        /\ \A d \in Controllers : d # c => st.pics[d] = pics[d]
    BY <1>1, <2>2, WithIs DEF KeepsCascade
  <2> HIDE DEF st
  <2>8. ActiveIn(st)
    BY <1>1, <2>3, <2>5, <2>7 DEF ActiveIn
  <2>9. InOrder
    BY <2>4, <2>5, <2>7 DEF InOrder, Become
  <2> QED BY <1>1, <2>0, <2>3, <2>4, <2>6, <2>8, <2>9, BecomeKeeps
<1> QED BY <1>2, <1>4, <1>5, <1>6, <1>7, <1>8, <1>9, <1>10

\* What the start of the first deliverable interrupt makes of a controller.
LEMMA StartIs ==
  ASSUME NEW c \in Controllers, NEW p \in PIC_Controller(c), Deliverable(p) # {},
         NEW n, n = Highest(Deliverable(p)), NEW p2, p2 = start_irq(p, n)
  PROVE  /\ p2 \in PIC_Controller(c)
         /\ p2.irr = p.irr \ {n} /\ n \in Possible(p)
         /\ p2.isr \subseteq p.isr \cup {n}
         /\ p2.special = p.special /\ p2.auto_eoi = p.auto_eoi
         /\ ~p.special /\ ~p.auto_eoi => Deliverable(p2) = {}
         /\ ~p.special /\ p.active_irq = First(p.isr) =>
              /\ p2.active_irq = First(p2.isr)
              /\ \A m \in Possible(p) \cup p.isr : n <= m
<1>1. /\ Deliverable(p) \in SUBSET (0 .. 7) /\ p.isr \in SUBSET (0 .. 7)
      /\ Possible(p) \in SUBSET (0 .. 7)
  BY LinesAssumption DEF PIC_Controller, Deliverable, Possible
<1>2. n \in Deliverable(p) /\ \A m \in Deliverable(p) : n <= m
  BY <1>1, HighestIsFirst
<1>3. n \in 0 .. 7 /\ n \in Possible(p) /\ n \in Lines[c] /\ Urgent(p, n)
  BY <1>1, <1>2 DEF Deliverable, Possible, PIC_Controller
<1>4. p2 \in PIC_Controller(c)
  <2>1. /\ p.irr \ {n} \in SUBSET Lines[c] /\ p.isr \cup {n} \in SUBSET Lines[c]
        /\ n \in 0 .. NoIrq
    BY <1>3 DEF PIC_Controller, NoIrq
  <2>2. CASE p.auto_eoi
    BY <2>1, <2>2 DEF start_irq, PIC_Controller
  <2>3. CASE ~p.auto_eoi
    BY <2>1, <2>3 DEF start_irq, PIC_Controller
  <2> QED BY <2>2, <2>3
<1>5. /\ p2.irr = p.irr \ {n} /\ p2.imr = p.imr
      /\ p2.special = p.special /\ p2.auto_eoi = p.auto_eoi
      /\ p2.isr = IF p.auto_eoi THEN p.isr ELSE p.isr \cup {n}
      /\ p2.active_irq = IF p.auto_eoi THEN p.active_irq ELSE n
  BY DEF start_irq, PIC_Controller
<1>6. ASSUME ~p.special, ~p.auto_eoi PROVE Deliverable(p2) = {}
  <2> SUFFICES ASSUME NEW m \in Deliverable(p2) PROVE FALSE
    OBVIOUS
  <2>1. m \in Possible(p) /\ m < n
    BY <1>5, <1>6 DEF Deliverable, Possible, Urgent
  <2>2. m < p.active_irq
    BY <1>1, <1>3, <1>6, <2>1 DEF Urgent, PIC_Controller, NoIrq
  <2> QED BY <1>1, <1>2, <1>3, <2>1, <2>2 DEF Deliverable, Urgent
<1>7. ASSUME ~p.special, p.active_irq = First(p.isr)
      PROVE  /\ p2.active_irq = First(p2.isr)
             /\ \A m \in Possible(p) \cup p.isr : n <= m
  <2>1. \A m \in p.isr : p.active_irq <= m
    BY <1>1, <1>7, HighestIsFirst DEF First
  <2>2. n < p.active_irq /\ p.active_irq \in 0 .. 8
    BY <1>3, <1>7 DEF Urgent, PIC_Controller, NoIrq
  <2>3. \A m \in p.isr : n <= m
    BY <1>1, <1>3, <2>1, <2>2
  <2>4. \A m \in Possible(p) : n <= m
    BY <1>1, <1>2, <1>3, <2>2 DEF Deliverable, Urgent
  <2>5. ~p.auto_eoi => First(p2.isr) = n
    <3> SUFFICES ASSUME ~p.auto_eoi PROVE Highest(p.isr \cup {n}) = n
      BY <1>5 DEF First
    <3>1. p.isr \cup {n} \in SUBSET (0 .. 7)
      BY <1>1, <1>3
    <3>2. /\ Highest(p.isr \cup {n}) \in p.isr \cup {n}
          /\ Highest(p.isr \cup {n}) <= n
      BY <3>1, HighestIsFirst
    <3> QED BY <1>1, <1>3, <2>3, <3>2
  <2> QED BY <1>5, <1>7, <2>3, <2>4, <2>5
<1> QED BY <1>3, <1>4, <1>5, <1>6, <1>7

LEMMA RunStep == ASSUME IInv, PIC_runIRQs PROVE IInv' /\ InOrder
<1> DEFINE p == pics["primary"]
           s == pics["secondary"]
           n == Highest(Deliverable(p))
           p2 == start_irq(p, n)
           k == Highest(Deliverable(s))
           s2 == start_irq(s, k)
           st == [pics |-> pics', check |-> FALSE]
<1>1. /\ Good(State, shared) /\ Typed(State) /\ State.pics = pics /\ ActiveIn(State)
      /\ State.check = PIC_IRQCheck /\ IcwTyped' /\ IF_ \in BOOLEAN
      /\ shared \in BOOLEAN /\ shared' = shared
  BY StateIsGood DEF Good, State, IInv, TypeOK, IcwTyped, PIC_runIRQs
<1>2. p \in PIC_Controller("primary") /\ s \in PIC_Controller("secondary")
  BY <1>1 DEF Typed, Controllers
<1>3. Deliverable(p) # {}
  BY <1>1 DEF Good, SignalledIn, PIC_runIRQs
<1>4. /\ p2 \in PIC_Controller("primary")
      /\ p2.irr = p.irr \ {n} /\ n \in Possible(p)
      /\ p2.isr \subseteq p.isr \cup {n}
      /\ p2.special = p.special /\ p2.auto_eoi = p.auto_eoi
      /\ ~p.special /\ ~p.auto_eoi => Deliverable(p2) = {}
      /\ ~p.special /\ p.active_irq = First(p.isr) =>
           /\ p2.active_irq = First(p2.isr)
           /\ \A m \in Possible(p) \cup p.isr : n <= m
  BY <1>2, <1>3, StartIs DEF Controllers
<1>5. Become(st)
  BY DEF Become, PIC_runIRQs
\* nothing to start: a device has used line 2
<1>6. CASE n = Cascade /\ Deliverable(s) = {}
  <2>1. shared
    BY <1>1, <1>4, <1>6 DEF Good, CascadeIn, Possible
  <2>2. pics' = pics /\ IF_' = IF_
    <3> SUFFICES secondary_startIRQ
      BY <1>6 DEF secondary_startIRQ
    <3> QED BY <1>3, <1>6 DEF PIC_runIRQs
  <2>3. /\ st.pics = pics /\ st.check = FALSE /\ Typed(st)
    BY <1>1, <2>2 DEF Typed
  <2> HIDE DEF st
  <2>4. Good(st, shared')
    BY <1>1, <1>6, <2>1, <2>3 DEF Good, SignalledIn, CascadeIn
  <2>5. \A d \in Controllers : SameService(pics[d], st.pics[d])
    BY <2>3 DEF SameService
  <2> QED BY <1>1, <1>5, <2>2, <2>4, <2>5, QuietStep
<1>7. CASE n = Cascade /\ Deliverable(s) # {}
  <2>1. Deliverable(s) # {}
    BY <1>7
  <2>2. /\ s2 \in PIC_Controller("secondary")
        /\ k \in Possible(s)
        /\ s2.isr \subseteq s.isr \cup {k}
        /\ s2.special = s.special /\ s2.auto_eoi = s.auto_eoi
        /\ ~s.special /\ ~s.auto_eoi => Deliverable(s2) = {}
        /\ ~s.special /\ s.active_irq = First(s.isr) =>
             /\ s2.active_irq = First(s2.isr)
             /\ \A m \in Possible(s) \cup s.isr : k <= m
    BY <1>2, <2>1, StartIs DEF Controllers
  <2>3. /\ pics' = [pics EXCEPT !["primary"] = p2, !["secondary"] = s2]
        /\ IF_' \in BOOLEAN
    <3> SUFFICES secondary_startIRQ
      BY <1>1, <1>7, <2>1 DEF secondary_startIRQ, Interrupts
    <3> QED BY <1>3, <1>7 DEF PIC_runIRQs
  <2> HIDE DEF p2, s2, k, n
  <2>4. /\ st.pics["primary"] = p2 /\ st.pics["secondary"] = s2
        /\ st.check = FALSE /\ Typed(st)
    BY <1>1, <1>4, <2>2, <2>3 DEF Typed, Controllers
  <2> HIDE DEF st
  <2>5. Good(st, shared')
    BY <1>1, <1>4, <1>7, <2>2, <2>4 DEF Good, SignalledIn, CascadeIn, ActiveIn, Controllers
  <2>6. ActiveIn(st)
    BY <1>1, <1>4, <2>2, <2>4 DEF ActiveIn, Controllers
  <2>7. InOrder
    BY <1>1, <1>4, <1>5, <2>2, <2>4 DEF InOrder, ActiveIn, Controllers, Become
  <2> QED BY <1>1, <1>5, <2>3, <2>5, <2>6, <2>7, BecomeKeeps
<1>8. CASE n # Cascade
  <2>1. /\ pics' = [pics EXCEPT !["primary"] = p2]
        /\ IF_' \in BOOLEAN
    <3> SUFFICES primary_startIRQ(n)
      BY <1>1, <1>8 DEF primary_startIRQ, Interrupts
    <3> QED BY <1>3, <1>8 DEF PIC_runIRQs
  <2> HIDE DEF p2, n
  <2>2. /\ st.pics["primary"] = p2 /\ st.pics["secondary"] = s
        /\ st.check = FALSE /\ Typed(st)
    BY <1>1, <1>4, <2>1 DEF Typed, Controllers
  <2> HIDE DEF st
  <2>3. Good(st, shared')
    BY <1>1, <1>4, <1>8, <2>2 DEF Good, SignalledIn, CascadeIn, ActiveIn, Controllers
  <2>4. ActiveIn(st)
    BY <1>1, <1>4, <2>2 DEF ActiveIn, Controllers
  <2>5. InOrder
    BY <1>1, <1>4, <1>5, <2>2 DEF InOrder, ActiveIn, Controllers, Become
  <2> QED BY <1>1, <1>5, <2>1, <2>3, <2>4, <2>5, BecomeKeeps
<1> QED BY <1>7, <1>8, <1>6

----------------------------------------------------------------------------
(* The theorems.                                                           *)

LEMMA InitIsGood == ASSUME Init PROVE IInv
<1>1. TypeOK
  <2>1. pics = [c \in Controllers |-> pics[c]]
    BY DEF Init
  <2>2. ASSUME NEW c \in Controllers PROVE pics[c] \in PIC_Controller(c)
    BY DEF Init, PIC_Controller, NoIrq
  <2>3. \A c \in Controllers : icw[c].index = 0
    BY DEF Init
  <2>4. /\ icw \in [Controllers -> [index : 0 .. 3, words : {0, 2, 3}, single : BOOLEAN]]
        /\ PIC_IRQCheck \in BOOLEAN /\ IF_ \in BOOLEAN /\ shared \in BOOLEAN
    <3>1. [index |-> 0, words |-> 0, single |-> FALSE]
            \in [index : 0 .. 3, words : {0, 2, 3}, single : BOOLEAN]
      OBVIOUS
    <3>2. icw = [c \in Controllers |-> [index |-> 0, words |-> 0, single |-> FALSE]]
          /\ PIC_IRQCheck = FALSE /\ IF_ = FALSE /\ shared = FALSE
      BY DEF Init
    <3> QED BY <3>1, <3>2
  <2> QED BY <2>1, <2>2, <2>3, <2>4 DEF TypeOK
<1>2. \A c \in Controllers : /\ Deliverable(pics[c]) = {}
                             /\ pics[c].active_irq = First(pics[c].isr)
                             /\ ~pics[c].special /\ ~pics[c].auto_eoi
                             /\ pics[c].irr = {}
  BY DEF Init, Deliverable, Possible, First
<1>3. "primary" \in Controllers /\ "secondary" \in Controllers /\ ~PIC_IRQCheck
  BY DEF Controllers, Init
<1> QED
  BY <1>1, <1>2, <1>3
  DEF IInv, Signalled, CascadeFollows, ActiveIsFirst, ActiveIn, State

LEMMA StepKeeps == ASSUME IInv, [Next]_vars PROVE IInv' /\ [InOrder]_vars
<1>1. CASE Device BY <1>1, DeviceStep
<1>2. CASE Guest BY <1>2, GuestStep
<1>3. CASE PIC_runIRQs BY <1>3, RunStep
<1>4. ASSUME NEW on \in BOOLEAN, SetIF(on) PROVE IInv' /\ [InOrder]_vars
  <2>1. IInv'
    BY <1>4 DEF SetIF, IInv, TypeOK, Signalled, CascadeFollows, ActiveIsFirst, ActiveIn, State
  <2>2. InOrder
    BY <1>4 DEF SetIF, InOrder
  <2> QED BY <2>1, <2>2
<1>5. CASE UNCHANGED vars
  BY <1>5 DEF vars, IInv, TypeOK, Signalled, CascadeFollows, ActiveIsFirst, ActiveIn, State
<1> QED BY <1>1, <1>2, <1>3, <1>4, <1>5 DEF Next, Cpu

THEOREM Invariant == Spec => []IInv
<1>1. Init => IInv BY InitIsGood
<1>2. IInv /\ [Next]_vars => IInv' BY StepKeeps
<1> QED BY <1>1, <1>2, PTL DEF Spec

\* The registers keep their types.
THEOREM TypeCorrect == Spec => []TypeOK
<1>1. IInv => TypeOK BY DEF IInv
<1> QED BY <1>1, Invariant, PTL

\* PIC_IRQCheck tells the CPU of an interrupt only when the primary controller
\* has one to deliver, and whenever it has one, except as Signalled says: its
\* modes, and a device that has used line 2.
THEOREM CpuIsTold == Spec => []Signalled
<1>1. IInv => Signalled BY DEF IInv
<1> QED BY <1>1, Invariant, PTL

\* Until a device uses it too, line 2 is requested exactly when the secondary
\* controller has an interrupt to deliver, except in its modes.
THEOREM CascadeIsTrue == Spec => []CascadeFollows
<1>1. IInv => CascadeFollows BY DEF IInv
<1> QED BY <1>1, Invariant, PTL

\* Interrupts start in the order of their priorities, and interrupt only
\* what has a lower one.
THEOREM PriorityKept == Spec => StartsInOrder
<1>1. IInv /\ [Next]_vars => [InOrder]_vars BY StepKeeps
<1> QED BY <1>1, Invariant, PTL DEF Spec, StartsInOrder

============================================================================
