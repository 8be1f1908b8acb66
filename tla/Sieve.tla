-------------------------------- MODULE Sieve --------------------------------
(***************************************************************************)
(* Filtering a list in place, the loop the source writes out wherever it   *)
(* drops entries of a slice.  It is a recursive function rather than the   *)
(* library's SelectSeq so that SieveFacts can prove what it returns.       *)
(***************************************************************************)
EXTENDS Naturals, Sequences

Elements(s) == {s[i] : i \in DOMAIN s}

\* The entries of s that are in S, in their order.
Kept(s, S) ==
  LET F[i \in 0..Len(s)] ==
        IF i = 0 THEN <<>>
        ELSE IF s[i] \in S THEN Append(F[i - 1], s[i]) ELSE F[i - 1]
  IN F[Len(s)]
=============================================================================
