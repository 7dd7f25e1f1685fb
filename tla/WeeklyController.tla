--------------------------- MODULE WeeklyController ---------------------------
(***************************************************************************)
(* What surrounds the v4 controller: the estimate of a pass's burn from    *)
(* the passes before it, and the v2.2 controller, whose trajectory counts  *)
(* the hours to the reset and has a release span and lookaheads of its own.*)
(***************************************************************************)
EXTENDS QuotaController, SequencesExt

CONSTANTS
    Histories,           \* burns of earlier passes, oldest first, fine units
    ReserveReleaseHours, \* RESERVE_RELEASE_HOURS
    BaseLookaheadHours,  \* BASE_LOOKAHEAD_HOURS
    MaxAdvanceHours      \* MAX_ADVANCE_HOURS

(* A burn is at least 0; without history there is no estimate.             *)
ASSUME HistoryAssumption ==
    \A samples \in Histories : samples \in Seq(Nat) /\ samples # <<>>

ASSUME HoursAssumption ==
    /\ ReserveReleaseHours \in Nat \ {0}
    /\ BaseLookaheadHours \in Nat
    /\ MaxAdvanceHours \in Nat /\ BaseLookaheadHours <= MaxAdvanceHours

-----------------------------------------------------------------------------
(* robust_safe_burn_pp.  A burn is counted in parts, PerUnit of them a fine*)
(* unit, so that halves of halves and 1.645 * 1.4826 = 2.438877 are exact. *)

PerUnit == 4000000

Recent(samples) == SubSeq(samples, Higher(1, Len(samples) - 4), Len(samples))

(* sorted: in place k the smallest sample that k samples do not exceed.    *)
Ascending(samples) ==
    LET Within(bound) == Cardinality({i \in DOMAIN samples : samples[i] <= bound})
    IN  [k \in DOMAIN samples |-> Min({x \in ToSet(samples) : Within(x) >= k})]

Between(a, b, tenths) == (a * (10 - tenths) + b * tenths) \div 10

(* The sample at the position of the sorted sequence, counted in tenths.   *)
At(ordered, position) ==
    LET lo == position \div 10
    IN  IF position % 10 = 0 THEN ordered[lo + 1]
        ELSE Between(ordered[lo + 1], ordered[lo + 2], position % 10)

Median(samples) == At(Ascending(samples), 5 * (Len(samples) - 1))
Percentile80(samples) == At(Ascending(samples), 8 * (Len(samples) - 1))

Distance(a, b) == IF a < b THEN b - a ELSE a - b

(* 1.645 * 1.4826 times the median absolute deviation, of which four parts *)
(* make 9.755508.                                                          *)
Margin(samples) ==
    LET median == Median(samples)
    IN  (Median([i \in DOMAIN samples |-> Distance(samples[i], median)]) \div 1000000)
            * 2438877

(* Mutant: the quantile is forgotten.                                      *)
SafeBurnOfMedian(samples) ==
    LET recent == Recent([i \in DOMAIN samples |-> samples[i] * PerUnit])
    IN  Median(recent) + Margin(recent) + Granule * PerUnit

SafeBurn(samples) ==
    LET recent == Recent([i \in DOMAIN samples |-> samples[i] * PerUnit])
        g == Granule * PerUnit
        worst == Last(Ascending(recent))
    IN  CASE Len(recent) = 1 -> worst + Higher(g, worst \div 2)
          [] Len(recent) = 2 -> worst + Higher(g, worst \div 4)
          [] OTHER -> Higher(Percentile80(recent), Median(recent) + Margin(recent)) + g

-----------------------------------------------------------------------------
(* weekly_quota_controller, the v2.2 controller.                           *)

(* anchor_reserve_pp, times ReserveReleaseHours: a late anchor reserves    *)
(* less.                                                                   *)
AnchorReserve(remaining, h0) ==
    Lower(BaseReserve, remaining \div 2) * Clamp(h0, 0, ReserveReleaseHours)

(* make_anchor                                                             *)
AnchorByHours(amount, h0) ==
    [used |-> amount, hours |-> h0, remaining |-> Full - amount,
     reserve |-> AnchorReserve(Full - amount, h0)]

ScaleByHours(h0) == IF h0 = 0 THEN 1 ELSE h0 * ReserveReleaseHours

Released(k, scheduled, kept) ==
    LET whole == k.remaining * ScaleByHours(k.hours)
    IN  Clamp(whole - scheduled - kept, 0, whole)

ScheduledByHours(k, h) == (k.remaining * ReserveReleaseHours - k.reserve) * h

(* Mutant: the reserve is kept to the end.                                 *)
TargetKeepingReserve(k, hours) ==
    IF k.hours = 0 THEN k.remaining
    ELSE Released(k, ScheduledByHours(k, Clamp(hours, 0, k.hours)), k.reserve * k.hours)

(* target_cumulative_spend_pp, times ScaleByHours.                         *)
TargetByHours(k, hours) ==
    LET h == Clamp(hours, 0, k.hours)
        denominator == Lower(ReserveReleaseHours, k.hours)
    IN  IF k.hours = 0 THEN k.remaining
        ELSE Released(k, ScheduledByHours(k, h),
                      (k.reserve * Lower(h, denominator) * k.hours) \div denominator)

(* trajectory_status: the headroom for a given lookahead.                  *)
HeadroomByHours(k, shown, hours, lookahead, scheduled) ==
    LET h == Clamp(hours, 0, k.hours)
        ahead == TargetByHours(k, Higher(0, h - Lower(lookahead, h)))
    IN  Higher(0, ahead - (Higher(0, shown - k.used) + scheduled + Granule)
                            * ScaleByHours(k.hours))

(* balanced_admission, the tolerance of 1e-12 aside.                       *)
BalancedAdmission(headroom, advanced, safe, pace, quality) ==
    LET base == Higher(0, headroom)
        advance == Higher(base, advanced)
        needed == safe - base
        extra == advance - base
    IN  CASE ~quality -> "DEFER_FOR_QUALITY"
          [] quality /\ safe < 0 -> "CALIBRATE_OR_PREPARE"
          [] quality /\ safe \in 0..base -> "LAUNCH_BASE"
          [] quality /\ base < safe /\ safe <= advance /\ 4 * needed <= pace * extra ->
                "LAUNCH_WITH_ADVANCE"
          [] OTHER -> "PROGRESS_ALTERNATIVE_OR_DEFER"

(* The passes the v2.2 controller starts at time t, by an anchor taken h0  *)
(* hours before the reset.                                                 *)
LaunchableByHours(h0, t) ==
    LET k == AnchorByHours(anchor.used, h0)
        Room(lookahead) == HeadroomByHours(k, Shown(used), ResetAt - t, lookahead, committed)
        base == Room(BaseLookaheadHours)
        advance == Room(MaxAdvanceHours)
    IN  {pass \in (Estimates \union {Unknown}) \X PaceLevels :
            BalancedAdmission(base, advance, pass[1] * ScaleByHours(h0), pass[2], TRUE)
                \in Launching}

-----------------------------------------------------------------------------
(* The estimate made of a history, and the largest burn in it but for one  *)
(* outlier among three or more passes.                                     *)
Typical(samples) ==
    LET ordered == Ascending(Recent(samples))
    IN  ordered[IF Len(ordered) < 3 THEN Len(ordered) ELSE Len(ordered) - 1]

Estimated == {<<SafeBurn(samples), Typical(samples)>> : samples \in Histories}

(* What admission starts because its estimate fits the base headroom does  *)
(* fit, if it burns no more than all but one of the recent passes did (no  *)
(* more than any, when there were fewer than three): with what is really   *)
(* used and committed it stays within the target a normal day ahead, for   *)
(* all that the meter hides (robust_safe_burn_pp, runway_status,           *)
(* admission).                                                             *)
HistoryFits ==
    LET scale == Scale(anchor.active)
        room == anchor.used * scale
                  + Target(anchor.used, anchor.active, Higher(0, ActiveLeft[now] - NormalDaily))
        headroom == BaseHeadroom(now)
    IN  \A burn \in Estimated :
            burn[1] * scale <= headroom * PerUnit =>
                (used + committed + burn[2]) * scale <= room

(* Whenever in the epoch the v2.2 anchor was taken: so early that even the *)
(* longest advance ends before the release, every pass it starts, however  *)
(* urgent, fits into an even spending of all but the reserve; in the last  *)
(* base lookahead all of the reserve is free, and the passes that fit into *)
(* what the meter leaves are started whatever the pace risk                *)
(* (anchor_reserve_pp, target_cumulative_spend_pp, trajectory_status,      *)
(* balanced_admission).                                                    *)
ReserveIsForTheEnd ==
    LET left == ResetAt - now
        remaining == Full - anchor.used
        even == remaining - Lower(BaseReserve, remaining \div 2)
        taken == Shown(used) - anchor.used + committed + Granule
        passes == Estimates \X PaceLevels
    IN  \A h0 \in left..(ResetAt - Begin) :
            /\ left >= MaxAdvanceHours + ReserveReleaseHours =>
                  \A pass \in LaunchableByHours(h0, now) :
                      (taken + pass[1]) * h0 <= even * (h0 - left + MaxAdvanceHours)
            /\ left <= BaseLookaheadHours =>
                  LaunchableByHours(h0, now) = {pass \in passes : taken + pass[1] <= remaining}
=============================================================================
