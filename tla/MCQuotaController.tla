-------------------------- MODULE MCQuotaController --------------------------
(***************************************************************************)
(* QuotaController and WeeklyController for TLC: a week of four short      *)
(* days, one of them off, and histories of up to five passes, with one of  *)
(* seven whose oldest two no longer count.                                 *)
(***************************************************************************)
EXTENDS WeeklyController

Weekdays == {0, 1, 3}

Burns == {0, 1, 3, 6}
Rising(samples) == \A i \in 2..Len(samples) : samples[i - 1] <= samples[i]
MCHistories ==
    {samples \in UNION {[1..n -> Burns] : n \in 1..5} : Rising(samples)}
      \union {<<6, 6, 1, 0, 1, 0, 1>>}
=============================================================================
