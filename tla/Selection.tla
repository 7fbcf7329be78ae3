----------------------------- MODULE Selection ------------------------------
(***************************************************************************)
(* The list comprehension of the scripts, [x for x in s if x in wanted],   *)
(* as a recursive function: the prover knows nothing of SelectSeq.         *)
(***************************************************************************)
EXTENDS Naturals, Sequences

\* the elements of s that are wanted, in their order
Only(s, wanted) ==
    LET only[n \in 0 .. Len(s)] ==
            IF n = 0 THEN <<>>
            ELSE IF s[n] \in wanted THEN Append(only[n - 1], s[n]) ELSE only[n - 1]
    IN  only[Len(s)]
=============================================================================
