---------------------------- MODULE MCBlobProvider ----------------------------
(***************************************************************************)
(* BlobProvider for TLC: one key, two blobs, and three threads in two      *)
(* processes, so that a writer meets readers at different steps.           *)
(***************************************************************************)
EXTENDS BlobProvider, TLC

CONSTANTS w1, w2, w3, p1, p2

MCProcessOf == (w1 :> p1) @@ (w2 :> p1) @@ (w3 :> p2)

MCSymmetry == Permutations(Values)
=============================================================================
