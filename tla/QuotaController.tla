---------------------------- MODULE QuotaController ----------------------------
(***************************************************************************)
(* The v4 controller of the weekly allowance, and the loop it closes.      *)
(*                                                                         *)
(* The controller is arithmetic: from the meter at the anchor, the meter   *)
(* now and the active minutes left it computes how much may be spent, and  *)
(* decides whether a pass may start.  Around it, time passes, admitted     *)
(* passes burn allowance while the meter shows whole points only, other    *)
(* consumers share the pool, and the week resets.                          *)
(*                                                                         *)
(* An amount is a number of fine units; Granule of them make the point the *)
(* meter can show.  Headroom is kept multiplied by Scale, so that every    *)
(* division of the code is exact.                                          *)
(***************************************************************************)
EXTENDS Integers, FiniteSets

CONSTANTS
    Full,            \* the weekly allowance: 100 pp
    Granule,         \* meter_granularity_pp
    BaseReserve,     \* BASE_WEEKLY_RESERVE_PP
    ReleaseMinutes,  \* RESERVE_RELEASE_ACTIVE_MINUTES
    DayMinutes,      \* minutes of a day
    Start,           \* start_minute
    SoftEnd,         \* soft_end_minute
    HardEnd,         \* hard_end_minute
    Days,            \* days of a week
    ActiveWeekdays,  \* active_weekdays
    Phase,           \* the minute of the day at which the week resets
    InitialUsed,     \* what may be used when the anchor is taken
    Estimates,       \* safe burns a pass may be asked with
    MaxExcess        \* bound: allowance spent beside admitted passes

ASSUME ControllerAssumption ==
    /\ Granule \in Nat \ {0} /\ Granule % 2 = 0
    /\ Full \in Nat /\ Full % 2 = 0
    /\ BaseReserve \in Nat
    /\ ReleaseMinutes \in Nat \ {0}
    /\ DayMinutes \in Nat \ {0} /\ Days \in Nat \ {0}
    /\ Start \in Nat /\ SoftEnd \in Nat /\ HardEnd \in Nat
    /\ Start < SoftEnd /\ SoftEnd <= HardEnd /\ HardEnd <= DayMinutes
    /\ ActiveWeekdays # {} /\ ActiveWeekdays \subseteq 0..(Days - 1)
    /\ Phase \in 0..(DayMinutes - 1)
    /\ InitialUsed \subseteq 0..Full
    /\ Estimates \subseteq Nat \ {0}
    /\ MaxExcess \in Nat

VARIABLES
    now,        \* the minute, counted from the midnight before the reset
    anchor,     \* the meter and the active minutes left when the epoch began
    used,       \* what the account has really used this week
    committed,  \* estimates of the admitted passes that have not ended
    owed,       \* what these passes may still burn
    excess      \* what was used this epoch beside the passes it admitted, or not
                \* shown when the anchor was taken

vars == <<now, anchor, used, committed, owed, excess>>

Lower(x, y) == IF x < y THEN x ELSE y
Higher(x, y) == IF x > y THEN x ELSE y
Clamp(v, lo, hi) == Higher(lo, Lower(hi, v))

-----------------------------------------------------------------------------
(* active_minutes_between, day by day.                                     *)

NormalDaily == SoftEnd - Start
HardDaily == HardEnd - Start

DayPoint(day, minute) == day * DayMinutes + minute

(* Mutant: the working day ends at the soft end.                           *)
ActiveOnSoftDay(day, from, to) ==
    Higher(0, Lower(to, DayPoint(day, SoftEnd)) - Higher(from, DayPoint(day, Start)))

ActiveOnDay(day, from, to) ==
    Higher(0, Lower(to, DayPoint(day, HardEnd)) - Higher(from, DayPoint(day, Start)))

(* Mutant: raw time, as the v2.2 controller counted it.                    *)
MinutesBetween(from, to) == Higher(0, to - from)

Worked(day, from, to) ==
    IF day % Days \in ActiveWeekdays THEN ActiveOnDay(day, from, to) ELSE 0

(* The loop over the days: total after so many of them.                    *)
ActiveMinutesBetween(from, to) ==
    LET first == from \div DayMinutes
        total[n \in Nat] ==
            IF n = 0 THEN 0 ELSE total[n - 1] + Worked(first + n - 1, from, to)
    IN  IF to <= from THEN 0 ELSE total[(to \div DayMinutes) - first + 1]

Begin == Phase
ResetAt == Phase + Days * DayMinutes

ActiveLeft == [t \in Begin..ResetAt |-> ActiveMinutesBetween(t, ResetAt)]

-----------------------------------------------------------------------------
(* reserve_pp                                                              *)
Reserve(remaining, a0) ==
    IF a0 = 0 THEN 0 ELSE Lower(BaseReserve, remaining \div 2)

ReleaseDen(a0) == Lower(ReleaseMinutes, a0)

Scale(a0) == IF a0 = 0 THEN 1 ELSE a0 * ReleaseDen(a0)

(* target_cumulative_spend_pp, times Scale: what may be spent since the    *)
(* anchor when the given active minutes are left.                          *)
Target(u0, a0, active) ==
    LET a == Clamp(active, 0, a0)
        remaining == Full - u0
        reserve == Reserve(remaining, a0)
        scheduled == (remaining - reserve) * (a * ReleaseDen(a0))
        kept == reserve * (Lower(a, ReleaseDen(a0)) * a0)
    IN  IF a0 = 0 THEN remaining
        ELSE Clamp(remaining * Scale(a0) - scheduled - kept, 0, remaining * Scale(a0))

(* Mutant: the target of now instead of the one ahead.                     *)
AheadOfNothing(k, shown, active, lookahead, margin) ==
    Higher(0, Target(k.used, k.active, Clamp(active, 0, k.active))
              - (Higher(0, shown - k.used) + margin) * Scale(k.active))

(* What the runway has left when the target is taken lookahead active      *)
(* minutes ahead, reserving some margin.                                   *)
Ahead(k, shown, active, lookahead, margin) ==
    LET a == Clamp(active, 0, k.active)
    IN  Higher(0, Target(k.used, k.active, Higher(0, a - Lower(a, lookahead)))
                  - (Higher(0, shown - k.used) + margin) * Scale(k.active))

(* Mutant: the meter is taken at its word.                                 *)
HeadroomTrusting(k, shown, active, lookahead, commitments) ==
    Ahead(k, shown, active, lookahead, commitments)

(* runway_status: the headroom for a given lookahead, times Scale.         *)
Headroom(k, shown, active, lookahead, commitments) ==
    Ahead(k, shown, active, lookahead, commitments + Granule)

(* The meter shows whole points.                                           *)
Shown(amount) == amount - (amount % Granule)

(* How a caller asks at time t: the commitments are the passes it has      *)
(* admitted.                                                               *)
BaseHeadroom(t) == Headroom(anchor, Shown(used), ActiveLeft[t], NormalDaily, committed)
MaxHeadroom(t) == Headroom(anchor, Shown(used), ActiveLeft[t], 2 * HardDaily, committed)

(* admission.  PACE_LEVELS are quarters.                                   *)
PaceLevels == 0..4
Unknown == -1

(* Mutant: quota risk and pace risk are compared the wrong way round.      *)
AdmissionInverted(base, maximum, safe, pace, quality) ==
    IF ~quality THEN "DEFER_FOR_QUALITY"
    ELSE IF safe < 0 THEN "CALIBRATE_OR_PREPARE"
    ELSE IF safe <= base THEN "LAUNCH_BASE"
    ELSE IF safe <= maximum /\ 4 * (safe - base) >= pace * (maximum - base)
         THEN "LAUNCH_WITH_ADVANCE" ELSE "PROGRESS_ALTERNATIVE_OR_DEFER"

Admission(base, maximum, safe, pace, quality) ==
    IF ~quality THEN "DEFER_FOR_QUALITY"
    ELSE IF safe < 0 THEN "CALIBRATE_OR_PREPARE"
    ELSE IF safe <= base THEN "LAUNCH_BASE"
    ELSE IF /\ maximum > base /\ safe <= maximum
            /\ 4 * (safe - base) <= pace * (maximum - base)
         THEN "LAUNCH_WITH_ADVANCE" ELSE "PROGRESS_ALTERNATIVE_OR_DEFER"

Launching == {"LAUNCH_BASE", "LAUNCH_WITH_ADVANCE"}

(* The estimates that may start at time t, at which pace risk.             *)
Launchable(t) ==
    LET base == BaseHeadroom(t)
        maximum == MaxHeadroom(t)
    IN  {pass \in (Estimates \union {Unknown}) \X PaceLevels :
            Admission(base, maximum, pass[1] * Scale(anchor.active), pass[2], TRUE)
                \in Launching}

-----------------------------------------------------------------------------
AnchorAt(t, amount) == [used |-> Shown(amount), active |-> ActiveLeft[t]]

Init ==
    /\ now \in Begin..(ResetAt - 1)
    /\ used \in InitialUsed
    /\ anchor = AnchorAt(now, used)
    /\ committed = 0
    /\ owed = 0
    /\ excess = used - anchor.used

(* A pass is admitted; until it ends its estimate is a commitment.         *)
Admit ==
    \E pass \in Launchable(now) :
        /\ committed' = committed + pass[1]
        /\ owed' = owed + pass[1]
        /\ UNCHANGED <<now, anchor, used, excess>>

Burn ==
    /\ owed > 0 /\ used < Full
    /\ used' = used + 1
    /\ owed' = owed - 1
    /\ UNCHANGED <<now, anchor, committed, excess>>

(* A pass with that estimate ends and leaves some of it unburned.          *)
Finish ==
    \E estimate \in Estimates : \E left \in 0..estimate :
        /\ left <= owed
        /\ owed - left <= committed - estimate
        /\ committed' = committed - estimate
        /\ owed' = owed - left
        /\ UNCHANGED <<now, anchor, used, excess>>

(* A pass exceeds its estimate, or another consumer uses the pool.         *)
Unplanned ==
    /\ used < Full /\ excess < MaxExcess
    /\ used' = used + 1
    /\ excess' = excess + 1
    /\ UNCHANGED <<now, anchor, committed, owed>>

Tick ==
    /\ now < ResetAt
    /\ now' = now + 1
    /\ UNCHANGED <<anchor, used, committed, owed, excess>>

(* The weekly window starts again, and the caller takes a new anchor.      *)
Reset ==
    /\ now = ResetAt
    /\ now' = Begin
    /\ used' = 0
    /\ anchor' = AnchorAt(Begin, 0)
    /\ excess' = owed
    /\ UNCHANGED <<committed, owed>>

Next == Admit \/ Burn \/ Finish \/ Unplanned \/ Tick \/ Reset

Spec == Init /\ [][Next]_vars

-----------------------------------------------------------------------------
(* The variables range over what their comments say; an epoch never uses  *)
(* less than its anchor, and no pass owes more than it committed.          *)
TypeOK ==
    /\ now \in Begin..ResetAt
    /\ anchor \in [used : 0..Full, active : Nat]
    /\ ActiveLeft[now] <= anchor.active
    /\ used \in 0..Full
    /\ anchor.used <= used
    /\ committed \in Nat
    /\ owed \in 0..committed
    /\ excess \in Nat

(* However admissions, burning, a coarse meter, other consumers and the    *)
(* clock interleave, what is used and what admitted passes may still use   *)
(* stays within the target two hard working days ahead, but for what was   *)
(* used beside the admissions (runway_status, admission).                  *)
RunwayHolds ==
    (used + owed) * Scale(anchor.active) <=
        anchor.used * Scale(anchor.active)
          + Target(anchor.used, anchor.active,
                   Higher(0, ActiveLeft[now] - 2 * HardDaily))
          + excess * Scale(anchor.active)

(* Within a normal day of the reset nothing is held back: a pass that fits *)
(* into what the meter leaves is launched whatever the pace risk, and one  *)
(* that does not fit is not (target_cumulative_spend_pp, admission).       *)
NothingHeldBackAtTheEnd ==
    ActiveLeft[now] <= NormalDaily =>
        Launchable(now) =
            {pass \in Estimates \X PaceLevels :
                Shown(used) + committed + Granule + pass[1] <= Full}

(* More pace risk, or a smaller burn, never turns a launch into a deferral *)
(* (admission).                                                            *)
AdmissionIsMonotone ==
    LET launchable == Launchable(now)
    IN  \A pass \in launchable :
            {easier \in Estimates \X PaceLevels :
                easier[1] <= pass[1] /\ easier[2] >= pass[2]} \subseteq launchable

(* active_minutes_between counts the minutes of the working windows.       *)
ActiveLeftIsCount ==
    ActiveLeft[now] =
        Cardinality({m \in now..(ResetAt - 1) :
                        /\ (m \div DayMinutes) % Days \in ActiveWeekdays
                        /\ m % DayMinutes \in Start..(HardEnd - 1)})

(* Waiting never costs an admission, and off-hours change nothing: what    *)
(* can be launched now can be launched a minute later if nothing was used  *)
(* meanwhile, and outside the working window the headroom stays as it is   *)
(* (active_minutes_between, runway_status).                                *)
WaitingIsSafe ==
    now < ResetAt =>
        /\ LET later == Launchable(now + 1) IN \A pass \in Launchable(now) : pass \in later
        /\ (now % DayMinutes) \notin Start..(HardEnd - 1) =>
              /\ BaseHeadroom(now) = BaseHeadroom(now + 1)
              /\ MaxHeadroom(now) = MaxHeadroom(now + 1)

=============================================================================
