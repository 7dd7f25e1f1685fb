------------------------------ MODULE MCQuotaRelay ------------------------------
(* Instances of QuotaRelay for TLC.                                        *)
EXTENDS QuotaRelay
=============================================================================
