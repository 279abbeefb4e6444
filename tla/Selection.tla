------------------------------- MODULE Selection -------------------------------
(***************************************************************************)
(* The elements of a sequence that belong to a set, in their order: what   *)
(* the list comprehensions and DELETE statements of the code leave.        *)
(* It is SelectSeq(s, LAMBDA x : x \in S), as a function of naturals, for  *)
(* the provers do not unfold SelectSeq.                                    *)
(***************************************************************************)
EXTENDS Naturals, Sequences

\* What of the first n elements is taken.
Taken(s, S) ==
  LET taken[n \in 0 .. Len(s)] ==
        IF n = 0 THEN <<>>
        ELSE IF s[n] \in S THEN Append(taken[n - 1], s[n]) ELSE taken[n - 1]
  IN taken
Only(s, S) == Taken(s, S)[Len(s)]
==============================================================================
