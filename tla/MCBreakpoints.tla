--------------------------- MODULE MCBreakpoints ---------------------------
(* Small instances of Breakpoints for TLC. *)
EXTENDS Breakpoints

CONSTANTS x, ah, al

MCAddrs == {0, 1}

\* Only the code at address 0 is ever rewritten.
MCWritesAtZero == {{}, {0}}

MCServices == {[nr |-> 33, ah |-> ah, al |-> al]}

\* The books are right for one address at least: a state where they are lost for
\* both is reached and checked, and not followed any further.
BooksOfOneAddress == holes # MCAddrs
============================================================================
