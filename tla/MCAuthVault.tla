---------------------------- MODULE MCAuthVault ----------------------------
(***************************************************************************)
(* Instances of AuthVault for TLC: two subjects, two worker processes (one *)
(* of them with two threads), a few refresh tokens.                        *)
(***************************************************************************)
EXTENDS AuthVault, TLC

CONSTANTS w1, w2, w3, p1, p2

(* w1 and w2 are threads of one process; w3 runs in another one.           *)
MCProcessOf == [w \in Workers |-> IF w = w3 THEN p2 ELSE p1]

MCSymmetry == Permutations(Tokens) \union Permutations(Subjects)
=============================================================================
