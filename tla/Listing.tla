------------------------------ MODULE Listing ------------------------------
(***************************************************************************)
(* What the API lists: rows that a condition selects, in the order of a    *)
(* time stamp, up to a limit.  A sequence stands for the order of the time *)
(* stamps, oldest first, a set for the condition.                          *)
(***************************************************************************)
EXTENDS Naturals, Sequences, FiniteSets, SequencesExt

\* LIMIT n, and slice(0, n).
FirstOf(s, n) == SubSeq(s, 1, IF n < Len(s) THEN n ELSE Len(s))

\* WHERE, and filter(): the elements of s that are in S, in the order of s.
Those(s, S) ==
  LET upTo[n \in 0..Len(s)] ==
        IF n = 0 THEN <<>>
        ELSE IF s[n] \in S THEN Append(upTo[n - 1], s[n]) ELSE upTo[n - 1]
  IN  upTo[Len(s)]

\* ORDER BY a time stamp DESC.
ByAge(s, S) == Reverse(Those(s, S))

Position(s, c) == CHOOSE i \in DOMAIN s : s[i] = c
=============================================================================
