------------------------------ MODULE MCTokenGate ------------------------------
(* Instances of TokenGate for TLC.                                         *)
EXTENDS TokenGate, TLC

Good == [kid |-> 1, nbf |-> 0, exp |-> MaxTime + 1, issuer |-> "issuer",
         audience |-> "resource", scope |-> "quota:read", sound |-> TRUE]

(* Good tokens of every key, one that starts and ends within the run, and  *)
(* one for each thing that may be wrong.                                   *)
MCTokens ==
    {[Good EXCEPT !.kid = k] : k \in Keys}
        \union {[Good EXCEPT !.nbf = 2, !.exp = 3],
                [Good EXCEPT !.issuer = "other"], [Good EXCEPT !.audience = "other"],
                [Good EXCEPT !.scope = "other"], [Good EXCEPT !.sound = FALSE]}

AnyCall == Permutations(Calls)
=============================================================================
