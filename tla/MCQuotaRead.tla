----------------------------- MODULE MCQuotaRead -----------------------------
(***************************************************************************)
(* QuotaRead for TLC: the readers are model values.                        *)
(***************************************************************************)
EXTENDS QuotaRead
=============================================================================
