--------------------------- MODULE BreakpointOps ---------------------------
(***************************************************************************)
(* The list BPoints of src/src/debugger/breakpoint.cpp and the operations  *)
(* of class CBreakpoint on it, as operators.  In the build the repository  *)
(* configures (C_DEBUGGER without C_HEAVY_DEBUGGER) a breakpoint works by  *)
(* overwriting the guest's instruction byte with 0xCC, so an operation     *)
(* takes and returns a pair of the list and the guest's memory, the record *)
(* [bps |-> list, mem |-> memory].                                         *)
(***************************************************************************)
EXTENDS Integers, FiniteSets, Lists

CONSTANTS
  Addrs,      \* physical addresses at which code can be
  Bytes,      \* the bytes that can be in memory
  BpByte,     \* 0xCC, the opcode of INT3
  Services,   \* what an INT instruction asks for: records [nr, ah, al]
  NoAddr,     \* the location of an interrupt breakpoint
  NoService,  \* the interrupt of a physical breakpoint
  BPINT_ALL   \* the wildcard of an AH or AL condition

ASSUME BreakpointAssumption ==
  /\ BpByte \in Bytes
  /\ NoAddr \notin Addrs
  /\ NoService \notin Services

----------------------------------------------------------------------------
(* Breakpoints: the fields that the operations read.                       *)

ServicePatterns ==
  {NoService} \cup
  [nr : {s.nr : s \in Services},
   ah : {s.ah : s \in Services} \cup {BPINT_ALL},
   al : {s.al : s \in Services} \cup {BPINT_ALL}]

CBreakpoint ==
  [type : {"PHYSICAL", "INTERRUPT"}, location : Addrs \cup {NoAddr},
   oldData : Bytes, active : BOOLEAN, once : BOOLEAN, int : ServicePatterns]

\* Mutant: oldData is not initialised.
PhysBreakpointUninitialised(a, isOnce) ==
  [type |-> "PHYSICAL", location |-> a, oldData |-> NoAddr, active |-> FALSE,
   once |-> isOnce, int |-> NoService]

PhysBreakpoint(a, isOnce) ==
  [type |-> "PHYSICAL", location |-> a, oldData |-> BpByte, active |-> FALSE,
   once |-> isOnce, int |-> NoService]

IntBreakpoint(pattern) ==
  [type |-> "INTERRUPT", location |-> NoAddr, oldData |-> BpByte, active |-> FALSE,
   once |-> FALSE, int |-> pattern]

----------------------------------------------------------------------------
(* Searches.  The list is scanned from its front: the first match is the   *)
(* smallest index.                                                         *)

PhysAt(bps, a) ==
  {i \in DOMAIN bps : bps[i].type = "PHYSICAL" /\ bps[i].location = a}

ActiveAt(bps, a) == {i \in PhysAt(bps, a) : bps[i].active}

FindPhysBreakpoint(bps, a, isOnce) == {i \in PhysAt(bps, a) : bps[i].once = isOnce}

FindOtherActiveBreakpoint(bps, a, skip) == ActiveAt(bps, a) \ {skip}

----------------------------------------------------------------------------
(* CBreakpoint::Activate, on the breakpoint at position i.                 *)

\* The byte a breakpoint remembers when it is armed: what it overwrites, or,
\* where 0xCC is already in place, what another armed breakpoint remembers.
CapturedByte(st, i) ==
  LET bp     == st.bps[i]
      data   == st.mem[bp.location]
      others == FindOtherActiveBreakpoint(st.bps, bp.location, i)
  IN  IF data # BpByte   THEN data
      ELSE IF bp.active  THEN bp.oldData
      ELSE IF others # {} THEN st.bps[First(others)].oldData
      ELSE BpByte

Arm(st, i) ==
  IF st.bps[i].type = "PHYSICAL"
  THEN [bps |-> [st.bps EXCEPT ![i].oldData = CapturedByte(st, i), ![i].active = TRUE],
        mem |-> [st.mem EXCEPT ![st.bps[i].location] = BpByte]]
  ELSE [st EXCEPT !.bps[i].active = TRUE]

\* Activate(false) when another armed breakpoint is found.
LeavePatch(st, i) == [st EXCEPT !.bps[i].active = FALSE]

\* Mutant: the byte is put back although another breakpoint is armed there.
DisarmRegardless(st, i) ==
  LET bp == st.bps[i]
  IN  IF bp.type = "PHYSICAL" /\ st.mem[bp.location] = BpByte
      THEN [bps |-> [st.bps EXCEPT ![i].active = FALSE],
            mem |-> [st.mem EXCEPT ![bp.location] = bp.oldData]]
      ELSE [st EXCEPT !.bps[i].active = FALSE]

\* The last armed breakpoint at a location puts the remembered byte back; so
\* does an unarmed one that finds a 0xCC there.
Disarm(st, i) ==
  LET bp     == st.bps[i]
      others == FindOtherActiveBreakpoint(st.bps, bp.location, i)
  IN  IF bp.type = "PHYSICAL" /\ st.mem[bp.location] = BpByte /\ others = {}
      THEN [bps |-> [st.bps EXCEPT ![i].active = FALSE],
            mem |-> [st.mem EXCEPT ![bp.location] = bp.oldData]]
      ELSE LeavePatch(st, i)

Activate(st, i, on) == IF on THEN Arm(st, i) ELSE Disarm(st, i)

----------------------------------------------------------------------------
(* Loops over the whole list.  run[k] is the state after k iterations; the *)
(* breakpoints at address "except" are passed over.                        *)
(*                                                                         *)
(* The loop of DeleteAll deletes each breakpoint while it is still listed, *)
(* and the next search for another armed one reads what was freed: that    *)
(* may look like such a breakpoint or not.  "misled" are the breakpoints   *)
(* whose search finds one.  Whatever was freed is in front of the live     *)
(* ones, so it is found first.  (That the program ends is left out.)       *)

Visited(st, on, except, misled) ==
  LET run[k \in 0 .. Len(st.bps)] ==
        IF k = 0                               THEN st
        ELSE IF k \in PhysAt(st.bps, except) THEN run[k - 1]
        ELSE IF k \in misled                 THEN LeavePatch(run[k - 1], k)
        ELSE Activate(run[k - 1], k, on)
  IN  run

\* Mutant: the loop stops one breakpoint early.
SweepShort(st, on, except) ==
  Visited(st, on, except, {})[IF st.bps = <<>> THEN 0 ELSE Len(st.bps) - 1]

Sweep(st, on, except) == Visited(st, on, except, {})[Len(st.bps)]

ActivateBreakpoints(st)             == Sweep(st, TRUE, NoAddr)
DeactivateBreakpoints(st)           == Sweep(st, FALSE, NoAddr)
ActivateBreakpointsExceptAt(st, a)  == Sweep(st, TRUE, a)

----------------------------------------------------------------------------
(* Adding and deleting.                                                    *)

\* push_front of a breakpoint that is not armed
Add(st, bp) == [st EXCEPT !.bps = <<bp>> \o @]

AddBreakpoint(st, a, isOnce)   == Add(st, PhysBreakpoint(a, isOnce))
AddIntBreakpoint(st, pattern)  == Add(st, IntBreakpoint(pattern))

EraseAt(st, i) == [st EXCEPT !.bps = Erase(@, i)]

\* erase, then Activate(false) on the erased breakpoint: the search for other
\* armed ones skips it whether or not it is still listed.
DisarmAndErase(st, i) == EraseAt(Disarm(st, i), i)

\* No Activate(false) here: the breakpoint that F9 deletes may be armed.
DeleteBreakpoint(st, a, isOnce) ==
  EraseAt(st, First(FindPhysBreakpoint(st.bps, a, isOnce)))

\* The first breakpoint has nothing freed in front of it.
Misled(bps) == SUBSET (2 .. Len(bps))

DeleteAll(st, misled) ==
  [bps |-> <<>>, mem |-> Visited(st, FALSE, NoAddr, misled)[Len(st.bps)].mem]

----------------------------------------------------------------------------
(* Hits.                                                                   *)

\* CheckBreakpoint is true if and only if an armed breakpoint is at a.
IsHit(bps, a) == ActiveAt(bps, a) # {}

\* Mutant: whatever breakpoint was found is deleted.
SpentBreakpointAny(bps, a) == {First(ActiveAt(bps, a))}

\* What it deletes: the armed breakpoint it found, if that is a once-only one,
\* and otherwise the first once-only breakpoint at the address.
SpentBreakpoint(bps, a) ==
  LET hit == First(ActiveAt(bps, a))
  IN  IF bps[hit].once THEN {hit}
      ELSE LET onces == FindPhysBreakpoint(bps, a, TRUE)
           IN  IF onces = {} THEN {} ELSE {First(onces)}

CheckBreakpoint(st, a) ==
  LET spent == SpentBreakpoint(st.bps, a)
  IN  IF spent = {} THEN st ELSE DisarmAndErase(st, First(spent))

Matches(pattern, s) ==
  /\ pattern # NoService
  /\ pattern.nr = s.nr
  /\ pattern.ah \in {BPINT_ALL, s.ah}
  /\ pattern.al \in {BPINT_ALL, s.al}

CheckIntBreakpoint(bps, s) ==
  \E i \in DOMAIN bps : /\ bps[i].type = "INTERRUPT"
                        /\ bps[i].active
                        /\ Matches(bps[i].int, s)

\* Mutant: the other breakpoints stay armed.
DebugBreakpointOnly(st, a) == CheckBreakpoint(st, a)

\* DEBUG_Breakpoint and DEBUG_IntBreakpoint, when they find a breakpoint.
DebugBreakpoint(st, a) == DeactivateBreakpoints(CheckBreakpoint(st, a))
============================================================================
