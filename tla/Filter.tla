------------------------------- MODULE Filter -------------------------------
(***************************************************************************)
(* A list comprehension with a condition, as a recursive function, about   *)
(* which more can be proved than about SelectSeq.                          *)
(***************************************************************************)
EXTENDS Naturals, Sequences

\* What s has of S, in the order of s.
Kept(s, S) ==
  LET upto[n \in 0 .. Len(s)] ==
        IF n = 0 THEN <<>>
        ELSE IF s[n] \in S THEN Append(upto[n - 1], s[n]) ELSE upto[n - 1]
  IN upto[Len(s)]
=============================================================================
