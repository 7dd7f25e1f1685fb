--------------------- MODULE MCAuthorizationCoordinator ---------------------
(***************************************************************************)
(* Instances of AuthorizationCoordinator for TLC: a few authorization ids  *)
(* and request threads, all of them interchangeable.                       *)
(***************************************************************************)
EXTENDS AuthorizationCoordinator, TLC

MCSymmetry == Permutations(Flows) \union Permutations(Callers)
                \union Permutations(Subjects)
=============================================================================
