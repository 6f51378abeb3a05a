---------------------------- MODULE Breakpoints ----------------------------
(***************************************************************************)
(* The life of the debugger's breakpoints (src/src/debugger/breakpoint.cpp)*)
(* under everything that calls them: the keys and commands of the debugger *)
(* while the guest is stopped, and the guest's own instructions, the pause *)
(* key and DEBUG.COM while it runs.  One thread does all of this, so every *)
(* action is one complete handler.                                         *)
(*                                                                         *)
(* An instruction is its first byte: BpByte is INT3, every other byte      *)
(* stands for any other instruction.  What an instruction does to memory   *)
(* is a write of any bytes to one of WriteSets; where it goes is any       *)
(* address.                                                                *)
(***************************************************************************)
EXTENDS BreakpointOps

CONSTANTS
  GuestBytes,      \* the bytes that the guest's program and the SM command write
  WriteSets,       \* sets of addresses that one instruction can write
  MaxBreakpoints   \* bound on the length of the list

ASSUME GuestAssumption ==
  /\ GuestBytes \subseteq Bytes
  /\ WriteSets \subseteq SUBSET Addrs
  /\ Addrs \subseteq Int
  /\ MaxBreakpoints \in Nat

VARIABLES
  BPoints,     \* the list, front first
  mem,         \* guest memory as it is, patches included
  ip,          \* the physical address of cs:eip
  debugging,   \* TRUE: the machine runs DEBUG_Loop, FALSE: normal_loop
  guest,       \* history: memory as it would be had no breakpoint been set
  holes        \* history: addresses where the bookkeeping of breakpoints is lost

vars == <<BPoints, mem, ip, debugging, guest, holes>>

st == [bps |-> BPoints, mem |-> mem]

Become(s) == BPoints' = s.bps /\ mem' = s.mem

TypeOK ==
  /\ BPoints \in Seq(CBreakpoint)
  /\ mem \in [Addrs -> Bytes]
  /\ ip \in Addrs
  /\ debugging \in BOOLEAN
  /\ guest \in [Addrs -> Bytes]
  /\ holes \subseteq Addrs

HasRoom == Len(BPoints) < MaxBreakpoints

----------------------------------------------------------------------------
(* Writes to guest memory do not go through the breakpoints: they replace  *)
(* a patch like any other byte.                                            *)

Writes == UNION {[S -> GuestBytes] : S \in WriteSets}

Overlay(f, w) == [a \in Addrs |-> IF a \in DOMAIN w THEN w[a] ELSE f[a]]

Write(s, w) == [s EXCEPT !.mem = Overlay(@, w)]

\* A write under an armed breakpoint leaves the byte it remembers out of date,
\* and a written 0xCC cannot be told from a patch.
NewHoles(s, w) ==
  {a \in DOMAIN w : \/ ActiveAt(s.bps, a) # {}
                    \/ w[a] = BpByte /\ PhysAt(s.bps, a) # {}}

Remember(s, w) ==
  /\ guest' = Overlay(guest, w)
  /\ holes' = holes \cup NewHoles(s, w)

----------------------------------------------------------------------------
(* The instruction at cs:eip, executed in state s.                         *)

AtBreakpoint(s) == s.mem[ip] = BpByte /\ IsHit(s.bps, ip)

\* an INT instruction whose interrupt has a breakpoint
AtIntBreakpoint(s) ==
  /\ s.mem[ip] # BpByte
  /\ \E serv \in Services : CheckIntBreakpoint(s.bps, serv)

----------------------------------------------------------------------------
(* While the guest runs (normal_loop).                                     *)

Instruction ==
  /\ ~debugging
  /\ ~AtBreakpoint(st)
  /\ \E w \in Writes : Become(Write(st, w)) /\ Remember(st, w)
  /\ ip' \in Addrs
  /\ UNCHANGED debugging

Hit ==
  /\ ~debugging
  /\ AtBreakpoint(st)
  /\ Become(DebugBreakpoint(st, ip))
  /\ debugging' = TRUE
  /\ UNCHANGED <<ip, guest, holes>>

IntHit ==
  /\ ~debugging
  /\ AtIntBreakpoint(st)
  /\ Become(DeactivateBreakpoints(st))
  /\ debugging' = TRUE
  /\ UNCHANGED <<ip, guest, holes>>

\* DEBUG_Enable from the mapper: nothing is disarmed.
PauseKey ==
  /\ ~debugging
  /\ debugging' = TRUE
  /\ UNCHANGED <<BPoints, mem, ip, guest, holes>>

\* DOS_Execute of a program started by DEBUG.COM, whose first instruction is
\* at "entry".
DEBUG_CheckExecuteBreakpoint(entry) ==
  /\ ~debugging
  /\ HasRoom
  /\ Become(ActivateBreakpointsExceptAt(AddBreakpoint(st, entry, TRUE), ip))
  /\ UNCHANGED <<ip, debugging, guest, holes>>

----------------------------------------------------------------------------
(* While the guest is stopped (DEBUG_Loop): commands.                      *)

CommandBP(a) ==
  /\ debugging
  /\ HasRoom
  /\ Become(AddBreakpoint(st, a, FALSE))
  /\ UNCHANGED <<ip, debugging, guest, holes>>

CommandBPINT(pattern) ==
  /\ debugging
  /\ HasRoom
  /\ Become(AddIntBreakpoint(st, pattern))
  /\ UNCHANGED <<ip, debugging, guest, holes>>

CommandBPDEL(i) ==
  /\ debugging
  /\ i \in DOMAIN BPoints
  /\ Become(DisarmAndErase(st, i))
  /\ UNCHANGED <<ip, debugging, guest, holes>>

\* The bookkeeping is lost where a freed breakpoint may have decided that the
\* patch of an armed one stays.
CommandBPDELAll ==
  /\ debugging
  /\ \E misled \in Misled(BPoints) :
       /\ Become(DeleteAll(st, misled))
       /\ holes' = holes \cup {a \in Addrs : ActiveAt(BPoints, a) \cap misled # {}}
  /\ UNCHANGED <<ip, debugging, guest>>

\* SM: the user writes guest memory
CommandSM ==
  /\ debugging
  /\ \E w \in Writes : Become(Write(st, w)) /\ Remember(st, w)
  /\ UNCHANGED <<ip, debugging>>

\* SR: the user sets EIP
CommandSR ==
  /\ debugging
  /\ ip' \in Addrs
  /\ UNCHANGED <<BPoints, mem, debugging, guest, holes>>

\* INTT: the guest takes an interrupt, which pushes a frame
CommandINTT ==
  /\ debugging
  /\ ip' \in Addrs
  /\ \E w \in Writes : Become(Write(st, w)) /\ Remember(st, w)
  /\ UNCHANGED debugging

\* INT: run the interrupt up to a once-only breakpoint at the return address
CommandINT ==
  /\ debugging
  /\ HasRoom
  /\ LET s == ActivateBreakpointsExceptAt(AddBreakpoint(st, ip, TRUE), ip - 1)
     IN  \E w \in Writes : Become(Write(s, w)) /\ Remember(s, w)
  /\ ip' \in Addrs
  /\ debugging' = FALSE

\* X, TERMINATE: the program's memory is cleared, patches included, and the
\* guest goes on in its parent process.
CommandX ==
  /\ debugging
  /\ \E w \in Writes : /\ \A a \in DOMAIN w : w[a] # BpByte
                      /\ Become(Write(st, w))
                      /\ Remember(st, w)
  /\ ip' \in Addrs
  /\ UNCHANGED debugging

----------------------------------------------------------------------------
(* Keys.                                                                   *)

KeyF9(a, shift) ==
  /\ debugging
  /\ LET found == FindPhysBreakpoint(BPoints, a, shift)
     IN  \/ /\ found # {}
            /\ Become(DeleteBreakpoint(st, a, shift))
            /\ holes' = IF ActiveAt(BPoints, a) = {First(found)}
                        THEN holes \cup {a} ELSE holes
         \/ /\ found = {}
            /\ HasRoom
            /\ Become(AddBreakpoint(st, a, shift))
            /\ UNCHANGED holes
  /\ UNCHANGED <<ip, debugging, guest>>

\* A temporary breakpoint is added unless the address has one.
WithTemporary(temp) ==
  IF temp = NoAddr \/ FindPhysBreakpoint(BPoints, temp, TRUE) # {}
  THEN st ELSE AddBreakpoint(st, temp, TRUE)

\* DEBUG_Run: "temp" is the address that gets a temporary breakpoint (NoAddr:
\* none), "quickexit" says that the debugger keeps control.  F11 always keeps
\* it, F10 keeps it unless it set a temporary breakpoint behind a call, F5 and
\* run-to-cursor never do.  One instruction is executed before the breakpoints
\* are armed.  If that instruction stops at an armed breakpoint, the callback
\* it returns puts the debugger back in control.
DEBUG_Run(temp, quickexit) ==
  LET s == WithTemporary(temp)
      Leave(s1) == IF quickexit THEN s1 ELSE ActivateBreakpoints(s1)
  IN  /\ debugging
      /\ temp = NoAddr \/ HasRoom
      /\ \/ /\ AtBreakpoint(s)
            /\ Become(Leave(DebugBreakpoint(s, ip)))
            /\ UNCHANGED <<ip, debugging, guest, holes>>
         \/ /\ AtIntBreakpoint(s)
            /\ Become(Leave(DeactivateBreakpoints(s)))
            /\ UNCHANGED <<ip, debugging, guest, holes>>
         \/ /\ ~AtBreakpoint(s)
            /\ \E w \in Writes : Become(Leave(Write(s, w))) /\ Remember(s, w)
            /\ ip' \in Addrs
            /\ debugging' = quickexit

\* DEBUG_Loop takes a pending interrupt: it is run to its return.
SkipInterrupt ==
  /\ debugging
  /\ HasRoom
  /\ ip' \in Addrs \ {ip}
  /\ \E w \in Writes :
       /\ Become(ActivateBreakpointsExceptAt(AddBreakpoint(Write(st, w), ip, TRUE), ip'))
       /\ Remember(st, w)
  /\ debugging' = FALSE

----------------------------------------------------------------------------

Init ==
  /\ BPoints = <<>>
  /\ mem \in [Addrs -> GuestBytes]
  /\ ip \in Addrs
  /\ debugging = FALSE
  /\ guest = mem
  /\ holes = {}

RunNext ==
  \/ Instruction \/ Hit \/ IntHit \/ PauseKey
  \/ \E a \in Addrs : DEBUG_CheckExecuteBreakpoint(a)

CommandNext ==
  \/ \E a \in Addrs : CommandBP(a)
  \/ \E p \in ServicePatterns \ {NoService} : CommandBPINT(p)
  \/ \E i \in DOMAIN BPoints : CommandBPDEL(i)
  \/ CommandBPDELAll \/ CommandSM \/ CommandSR \/ CommandINTT \/ CommandX
  \/ CommandINT

KeyNext ==
  \/ \E a \in Addrs, shift \in BOOLEAN : KeyF9(a, shift)
  \/ \E temp \in Addrs \cup {NoAddr}, quickexit \in BOOLEAN : DEBUG_Run(temp, quickexit)
  \/ SkipInterrupt

Next == RunNext \/ CommandNext \/ KeyNext

Spec == Init /\ [][Next]_vars

----------------------------------------------------------------------------
(* Properties.                                                             *)

\* Where breakpoints keep their books, memory is the guest's own except under an
\* armed breakpoint, where it is 0xCC, and every armed breakpoint remembers the
\* guest's byte: Activate(true) captures it, the last Activate(false) restores it.
Transparent ==
  \A a \in Addrs \ holes :
    /\ ActiveAt(BPoints, a) = {} => mem[a] = guest[a]
    /\ ActiveAt(BPoints, a) # {} => mem[a] = BpByte
    /\ \A i \in ActiveAt(BPoints, a) : BPoints[i].oldData = guest[a]

\* While the guest runs every breakpoint is armed, except those at the one
\* address that the last ActivateBreakpointsExceptAt passed over.
UnarmedAtOneAddress ==
  ~debugging =>
    \A i, j \in DOMAIN BPoints :
      ~BPoints[i].active /\ ~BPoints[j].active =>
         BPoints[i].type = "PHYSICAL" /\ BPoints[i].location = BPoints[j].location

\* When a breakpoint stops the guest (DEBUG_Breakpoint, DEBUG_IntBreakpoint),
\* the debugger shows the guest's memory with no patch left in it.
HitLeavesNoPatch ==
  [][~debugging /\ debugging' /\ ~PauseKey =>
       /\ \A i \in DOMAIN BPoints' : ~BPoints'[i].active
       /\ \A a \in Addrs \ holes : mem'[a] = guest[a]]_vars

Permanent(a) == Cardinality({i \in PhysAt(BPoints, a) : ~BPoints[i].once})

UserDeletes ==
  \/ CommandBPDELAll
  \/ \E i \in DOMAIN BPoints : CommandBPDEL(i)
  \/ \E a \in Addrs : KeyF9(a, FALSE)

\* Only the user deletes a permanent breakpoint: running the guest never does,
\* hits included (CheckBreakpoint), and neither do DEBUG_Run and DEBUG_Loop.
PermanentSurvives ==
  [][~UserDeletes => \A a \in Addrs : Permanent(a) <= Permanent(a)']_vars
============================================================================
