---------------------------- MODULE MCCryptoHelper ----------------------------
(* Instances of CryptoHelper for TLC: a provider and one other client.     *)
EXTENDS CryptoHelper, TLC

CONSTANTS a, b

MCCasts == {(a :> "provider") @@ (b :> kb) : kb \in Kinds}
=============================================================================
