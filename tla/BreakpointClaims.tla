-------------------------- MODULE BreakpointClaims --------------------------
(***************************************************************************)
(* What a comment says of the patches in guest memory and the code does    *)
(* not do: TLC refutes it.                                                 *)
(***************************************************************************)
EXTENDS MCBreakpoints

\* "Check if we are the last active breakpoint at this location.  If so, remove
\* 0xCC and set old value" (breakpoint.cpp:59): no 0xCC of a breakpoint stays
\* in memory where none is armed.
NoOrphanPatch ==
  \A a \in Addrs : mem[a] = BpByte /\ ActiveAt(BPoints, a) = {} => guest[a] = BpByte
=============================================================================
