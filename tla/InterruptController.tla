------------------------ MODULE InterruptController ------------------------
(***************************************************************************)
(* The two interrupt controllers of the emulated PC                        *)
(* (src/src/hardware/pic.cpp).  Devices raise and lower lines, the guest   *)
(* masks lines, ends interrupts and reprograms the controllers, and the    *)
(* CPU starts the interrupt of the highest priority that is deliverable.   *)
(*                                                                         *)
(* The code keeps two facts it could compute: PIC_IRQCheck, whether the    *)
(* primary controller has something for the CPU, and the request of line 2 *)
(* of the primary controller, whether the secondary one has.  They are     *)
(* adjusted by every operation that may change them; the properties say    *)
(* that the adjustments suffice.                                           *)
(*                                                                         *)
(* A register is the set of the lines whose bit is 1.  Left out: the       *)
(* vectors, which register is read back, the cycles that are given back so *)
(* that the CPU notices soon, and the single-step core, which only delays  *)
(* PIC_runIRQs.                                                            *)
(***************************************************************************)
EXTENDS Integers, FiniteSets

CONSTANTS
  Lines,         \* Lines[c]: the lines of the controller c that are in use
  Unmaskable,    \* Unmaskable[c]: on a PCjr, line 6 of the primary controller
  AutoEoi,       \* the controllers that the guest may put in auto-EOI mode,
  SpecialMask,   \* in special mask mode,
  Reprogrammed   \* and those it may initialise again

Controllers == {"primary", "secondary"}
Cascade == 2     \* the line by which the secondary signals the primary
NoIrq == 8

ASSUME LinesAssumption ==
  /\ Lines \in [Controllers -> SUBSET (0 .. 7)]
  /\ Cascade \in Lines["primary"]
  /\ Unmaskable \in [Controllers -> SUBSET (0 .. 7)]
  /\ AutoEoi \subseteq Controllers /\ SpecialMask \subseteq Controllers
  /\ Reprogrammed \subseteq Controllers

VARIABLES
  pics,
  PIC_IRQCheck,
  icw,   \* icw[c]: where the controller is in its initialisation
  IF_,   \* the interrupt flag of the CPU
  shared \* history: a device has raised or lowered line 2 itself

vars == <<pics, PIC_IRQCheck, icw, IF_, shared>>

PIC_Controller(c) ==
  [irr : SUBSET Lines[c], imr : SUBSET Lines[c], isr : SUBSET Lines[c],
   active_irq : 0 .. NoIrq, special : BOOLEAN, auto_eoi : BOOLEAN]

TypeOK ==
  /\ pics = [c \in Controllers |-> pics[c]]
  /\ \A c \in Controllers : pics[c] \in PIC_Controller(c)
  /\ PIC_IRQCheck \in BOOLEAN
  /\ icw \in [Controllers -> [index : 0 .. 3, words : {0, 2, 3}, single : BOOLEAN]]
  /\ \A c \in Controllers : icw[c].index # 0 => icw[c].words # 0
  /\ IF_ \in BOOLEAN
  /\ shared \in BOOLEAN

Highest(S) == CHOOSE n \in S : \A m \in S : n <= m

----------------------------------------------------------------------------
(* Reading a controller p.                                                 *)

\* requested, not masked and not in service
Possible(p) == (p.irr \ p.imr) \ p.isr

Urgent(p, n) == p.special \/ n < p.active_irq

Deliverable(p) == {n \in Possible(p) : Urgent(p, n)}

----------------------------------------------------------------------------
(* The methods of PIC_Controller, as functions of a state                  *)
(* st == [pics |-> pics, check |-> PIC_IRQCheck].                          *)

State == [pics |-> pics, check |-> PIC_IRQCheck]

Become(st) ==
  /\ pics' = st.pics
  /\ PIC_IRQCheck' = st.check

\* of the secondary controller: raise_irq(2) of the primary one
activate(st, c) ==
  LET p == st.pics["primary"]
  IN IF c = "primary" THEN [st EXCEPT !.check = TRUE]
     ELSE IF Cascade \in p.irr THEN st
     ELSE [pics  |-> [st.pics EXCEPT !["primary"].irr = @ \cup {Cascade}],
           check |-> st.check \/ Cascade \in Deliverable([p EXCEPT !.irr = @ \cup {Cascade}])]

\* Mutant: the secondary controller leaves its signal on.
deactivateOwn(st, c) == IF c = "primary" THEN [st EXCEPT !.check = FALSE] ELSE st

\* of the secondary controller: lower_irq(2) of the primary one
deactivate(st, c) ==
  LET p == st.pics["primary"]
      q == [p EXCEPT !.irr = @ \ {Cascade}]
  IN IF c = "primary" THEN [st EXCEPT !.check = FALSE]
     ELSE [pics  |-> [st.pics EXCEPT !["primary"] = q],
           check |-> IF Cascade \in Deliverable(p) THEN Deliverable(q) # {} ELSE st.check]

check_for_irq(st, c) ==
  IF Deliverable(st.pics[c]) # {} THEN activate(st, c) ELSE deactivate(st, c)

raise_irq(st, c, n) ==
  LET new == [st EXCEPT !.pics[c].irr = @ \cup {n}]
  IN IF n \notin st.pics[c].irr /\ n \in Deliverable(new.pics[c])
     THEN activate(new, c)
     ELSE new

\* Mutant: the signal stays as it is.
lower_irqOnly(st, c, n) == [st EXCEPT !.pics[c].irr = @ \ {n}]

lower_irq(st, c, n) ==
  LET new == [st EXCEPT !.pics[c].irr = @ \ {n}]
  IN IF n \in Deliverable(st.pics[c]) THEN check_for_irq(new, c) ELSE new

set_imr(st, c, val) ==
  LET p == st.pics[c]
      imr == val \ Unmaskable[c]
      change == (p.imr \ imr) \cup (imr \ p.imr)
      new == [st EXCEPT !.pics[c].imr = imr]
  IN IF (p.irr \cap change) \ p.isr # {} THEN check_for_irq(new, c) ELSE new

\* Mutant: every end of interrupt leaves nothing in service.
update_active_irqNone(p) == [p EXCEPT !.active_irq = NoIrq]

update_active_irq(p) ==
  [p EXCEPT !.active_irq = IF p.isr = {} THEN NoIrq ELSE Highest(p.isr)]

\* the line n is no longer in service: check_after_EOI
EndOfInterrupt(st, c, n) ==
  LET p == update_active_irq([st.pics[c] EXCEPT !.isr = @ \ {n}])
      new == [st EXCEPT !.pics[c] = p]
  IN IF Possible(p) # {} THEN check_for_irq(new, c) ELSE new

start_irq(p, n) ==
  IF p.auto_eoi
  THEN [p EXCEPT !.irr = @ \ {n}]
  ELSE [p EXCEPT !.irr = @ \ {n}, !.isr = @ \cup {n}, !.active_irq = n]

----------------------------------------------------------------------------
(* The devices.  A Music Feature Card (imfc_irq = 2) and a Sound Blaster    *)
(* whose mixer the guest sets to it (register 0x80) use line 2, which is   *)
(* not passed on to line 9.                                                *)

Shares(c, n) == shared' = (shared \/ <<c, n>> = <<"primary", Cascade>>)

PIC_ActivateIRQ(c, n) ==
  /\ Become(raise_irq(State, c, n))
  /\ Shares(c, n)
  /\ UNCHANGED <<icw, IF_>>

PIC_DeActivateIRQ(c, n) ==
  /\ Become(lower_irq(State, c, n))
  /\ Shares(c, n)
  /\ UNCHANGED <<icw, IF_>>

\* the BIOS and the drivers that are part of the emulator
PIC_SetIRQMask(c, n, masked) ==
  /\ Become(set_imr(State, c, IF masked THEN pics[c].imr \cup {n} ELSE pics[c].imr \ {n}))
  /\ UNCHANGED <<icw, IF_, shared>>

----------------------------------------------------------------------------
(* The guest writes to a command port.                                     *)

Icw1(c, single, icw4) ==
  /\ c \in Reprogrammed
  /\ Become(set_imr(State, c, {}))
  /\ icw' = [icw EXCEPT ![c] = [index  |-> 1,
                                words  |-> IF icw4 THEN 3 ELSE 2,
                                single |-> single]]
  /\ UNCHANGED <<IF_, shared>>

Ocw3(c, on) ==
  /\ on => c \in SpecialMask
  /\ Become(check_for_irq([State EXCEPT !.pics[c].special = on], c))
  /\ UNCHANGED <<icw, IF_, shared>>

SpecificEoi(c, n) ==
  /\ Become(EndOfInterrupt(State, c, n))
  /\ UNCHANGED <<icw, IF_, shared>>

NonspecificEoi(c) ==
  /\ pics[c].active_irq # NoIrq
  /\ Become(EndOfInterrupt(State, c, pics[c].active_irq))
  /\ UNCHANGED <<icw, IF_, shared>>

----------------------------------------------------------------------------
(* The guest writes to a data port: the mask, or the next word of the      *)
(* initialisation.                                                         *)

WriteMask(c, val) ==
  /\ icw[c].index = 0
  /\ Become(set_imr(State, c, val))
  /\ UNCHANGED <<icw, IF_, shared>>

\* Mutant: the last word does not end the initialisation.
NextIndexPast(w) ==
  IF w.index = 1 /\ w.single THEN 3 ELSE w.index + 1

\* icw_index++ >= icw_words; word 3 is skipped in single mode
NextIndex(w) ==
  IF w.index >= w.words THEN 0
  ELSE IF w.index = 1 /\ w.single THEN 3 ELSE w.index + 1

WriteIcw(c) ==
  /\ icw[c].index \in {1, 2}
  /\ icw' = [icw EXCEPT ![c].index = NextIndex(icw[c])]
  /\ UNCHANGED <<pics, PIC_IRQCheck, IF_, shared>>

WriteIcw4(c, auto) ==
  /\ icw[c].index = 3
  /\ auto => c \in AutoEoi
  /\ pics' = [pics EXCEPT ![c].auto_eoi = auto]
  /\ icw' = [icw EXCEPT ![c].index = NextIndex(icw[c])]
  /\ UNCHANGED <<PIC_IRQCheck, IF_, shared>>

----------------------------------------------------------------------------
(* The CPU.                                                                *)

\* CLI, STI, POPF, IRET
SetIF(on) ==
  /\ IF_' = on
  /\ UNCHANGED <<pics, PIC_IRQCheck, icw, shared>>

\* CPU_HW_Interrupt: an interrupt gate clears the flag, a trap gate does not
Interrupts == IF_' \in {FALSE, IF_}

primary_startIRQ(n) ==
  /\ pics' = [pics EXCEPT !["primary"] = start_irq(@, n)]
  /\ Interrupts

\* If nothing is deliverable there, the request of line 2 is a device's own: the
\* code reports an error and returns, and nothing starts.
secondary_startIRQ ==
  LET D == Deliverable(pics["secondary"])
  IN IF D = {}
     THEN UNCHANGED <<pics, IF_>>
     ELSE /\ pics' = [pics EXCEPT !["primary"] = start_irq(@, Cascade),
                                  !["secondary"] = start_irq(@, Highest(D))]
          /\ Interrupts

PIC_runIRQs ==
  LET D == Deliverable(pics["primary"])
  IN /\ IF_ /\ PIC_IRQCheck
     /\ CASE D = {} -> UNCHANGED <<pics, IF_>>
          [] D # {} /\ Highest(D) = Cascade -> secondary_startIRQ
          [] D # {} /\ Highest(D) # Cascade -> primary_startIRQ(Highest(D))
     /\ PIC_IRQCheck' = FALSE
     /\ UNCHANGED <<icw, shared>>

----------------------------------------------------------------------------
\* IRQ 9 is open only on an EGA or better.
Init ==
  /\ \E ega \in BOOLEAN :
       pics = [c \in Controllers |->
         [irr |-> {}, isr |-> {},
          imr |-> Lines[c] \ (IF c = "primary" THEN {0, 1, Cascade} \cup Unmaskable[c]
                              ELSE IF ega THEN {0, 1} ELSE {0}),
          active_irq |-> NoIrq, special |-> FALSE, auto_eoi |-> FALSE]]
  /\ PIC_IRQCheck = FALSE
  /\ icw = [c \in Controllers |-> [index |-> 0, words |-> 0, single |-> FALSE]]
  /\ IF_ = FALSE
  /\ shared = FALSE

Device ==
  \E c \in Controllers : \E n \in Lines[c] :
    \/ PIC_ActivateIRQ(c, n)
    \/ PIC_DeActivateIRQ(c, n)
    \/ \E masked \in BOOLEAN : PIC_SetIRQMask(c, n, masked)

Guest ==
  \E c \in Controllers :
    \/ \E single, icw4 \in BOOLEAN : Icw1(c, single, icw4)
    \/ \E on \in BOOLEAN : Ocw3(c, on)
    \/ \E n \in Lines[c] : SpecificEoi(c, n)
    \/ NonspecificEoi(c)
    \/ \E val \in SUBSET Lines[c] : WriteMask(c, val)
    \/ WriteIcw(c)
    \/ \E auto \in BOOLEAN : WriteIcw4(c, auto)

Cpu == PIC_runIRQs \/ \E on \in BOOLEAN : SetIF(on)

Next == Device \/ Guest \/ Cpu

Spec == Init /\ [][Next]_vars

----------------------------------------------------------------------------
(* Properties.                                                             *)

\* The CPU is told of an interrupt only when the primary controller has one to
\* deliver, and whenever it has one, with these exceptions.  In special mask and
\* auto-EOI mode several can be ready at once, and PIC_runIRQs clears
\* PIC_IRQCheck after the first.  Once a device has used line 2, PIC_runIRQs may
\* have met line 2 with nothing to start on the secondary controller; it cleared
\* PIC_IRQCheck all the same, and line 2 is still the first to be delivered.
Signalled ==
  LET p == pics["primary"]
      ready == Deliverable(p)
  IN /\ PIC_IRQCheck => ready # {}
     /\ ready # {} => \/ PIC_IRQCheck
                      \/ p.special \/ "primary" \in AutoEoi
                      \/ shared /\ Highest(ready) = Cascade

\* Until a device uses it too, line 2 of the primary controller is requested
\* only when the secondary one has an interrupt to deliver, so that
\* secondary_startIRQ does not report its error, and whenever it has one, with
\* the exceptions of its modes.
CascadeFollows ==
  LET s == pics["secondary"]
      requested == Cascade \in pics["primary"].irr
  IN ~shared =>
       /\ requested => Deliverable(s) # {}
       /\ Deliverable(s) # {} /\ ~s.special /\ "secondary" \notin AutoEoi => requested

\* An interrupt that starts was requested and not masked, nothing of a higher
\* priority was waiting, and nothing of a higher or the same priority was in
\* service, on a controller that is never in special mask mode.
InOrder ==
  \A c \in Controllers \ SpecialMask :
    \A n \in pics'[c].isr \ pics[c].isr :
      /\ n \in Possible(pics[c])
      /\ \A m \in Possible(pics[c]) \cup pics[c].isr : n <= m

StartsInOrder == [][InOrder]_vars

============================================================================
