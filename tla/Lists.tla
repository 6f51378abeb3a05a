------------------------------- MODULE Lists -------------------------------
(* Lists that are searched from the front and from which elements are erased. *)
EXTENDS Naturals, Sequences

\* the first of a set of positions
First(S) == CHOOSE i \in S : \A j \in S : i <= j

\* the list without position i
Erase(s, i) == SubSeq(s, 1, i - 1) \o SubSeq(s, i + 1, Len(s))
============================================================================
