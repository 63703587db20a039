------------------------------- MODULE Selection -------------------------------
(***************************************************************************)
(* Python's [x for x in s if x in S]: the entries of a sequence that are   *)
(* in a set, in their order.  A recursive function, which the proofs can   *)
(* unfold.                                                                 *)
(***************************************************************************)
EXTENDS Naturals, Sequences

Selected(s, S) ==
  LET upTo[n \in 0 .. Len(s)] ==
        IF n = 0 THEN <<>>
        ELSE IF s[n] \in S THEN Append(upTo[n - 1], s[n]) ELSE upTo[n - 1]
  IN  upTo[Len(s)]
===============================================================================
