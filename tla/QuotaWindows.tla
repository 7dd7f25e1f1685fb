----------------------------- MODULE QuotaWindows -----------------------------
(***************************************************************************)
(* What the limits of Codex are made into on the way to the user.          *)
(*                                                                         *)
(* Three programs read the same windows: the Plugin from the answer of the *)
(* app-server, the Python companion and the macOS companion from what the  *)
(* CodexBar sensor prints.  The companions send theirs to the relay, which *)
(* judges the age of a snapshot when the chat asks for it.                 *)
(*                                                                         *)
(* A normalizer that may raise is a set of at most one snapshot.           *)
(***************************************************************************)
EXTENDS Integers, Sequences, FiniteSets, SequencesExt

CONSTANTS
    FiveHourMinutes,  \* FIVE_HOUR_MINUTES
    WeeklyMinutes,    \* WEEKLY_MINUTES
    MaxAge,           \* DEFAULT_FRESHNESS_SECONDS, DEFAULT_RELAY_FRESHNESS_SECONDS
    MaxTime,          \* bound: the clock
    MaxFlight,        \* bound: snapshots on their way at once
    Payloads          \* what the sensor may print

VARIABLES
    clock,   \* the time
    raw,     \* what the sensor prints if it runs now
    flight,  \* the requests that carry a snapshot to the relay
    table     \* the relay's row: at most one request, and when it arrived

windowsVars == <<clock, raw, flight, table>>

NoNumber == -1   \* a duration that int() refuses

(* A window as it is printed.  Its duration stands in some field, minutes  *)
(* (windowMinutes, window_minutes, windowDurationMins) or seconds, of which*)
(* window_seconds is one that not every program knows; it is a number, a   *)
(* string of one (a numeral) or some other text, and length seconds long,  *)
(* which need not be whole minutes.  Its percentage may be hidden: a null  *)
(* under one name, the number under the other.  Its reset is a date, a     *)
(* number of seconds, no date, or missing.                                 *)
Window ==
    [field : {"minutes", "seconds", "window_seconds", "none"},
     form : {"number", "numeral", "text"}, length : Int,
     percent : {"number", "numeral", "hidden", "none"}, used : Int,
     reset : {"iso", "epoch", "text", "none"}]

(* A result has windows, in the order of their positions, the provider it  *)
(* names ("" for none), and the time updated, in some form.                *)
Result == [provider : STRING, updated : Int, form : {"iso", "epoch", "text", "none"},
           windows : Seq(Window)]

(* The array that is printed: results, and strays, elements that are no    *)
(* object.                                                                 *)
Payload == [results : Seq(Result), strays : Nat]

ASSUME PayloadAssumption == Payloads \subseteq Payload

(* The elements of s that are chosen, in their order: SelectSeq, as a      *)
(* recursive function.                                                     *)
Selection(s, chosen) ==
    LET kept[n \in 0..Len(s)] ==
            IF n = 0 THEN <<>>
            ELSE IF s[n] \in chosen THEN Append(kept[n - 1], s[n]) ELSE kept[n - 1]
    IN  kept[Len(s)]

(* A duration in minutes: int() and NSNumber.intValue cut it off, round()  *)
(* of Python takes a half to the even side and that of Swift away from 0.  *)
Truncated(length) == IF length < 0 THEN -((-length) \div 60) ELSE length \div 60

HalfToEven(length) ==
    LET down == length \div 60
        rest == length % 60
    IN  IF rest < 30 \/ (rest = 30 /\ down % 2 = 0) THEN down ELSE down + 1

HalfAway(length) ==
    IF length < 0 THEN -((30 - length) \div 60) ELSE (length + 30) \div 60

(* What a program makes of a window is a meter: minutes, used, reset.      *)
Kind(m) ==
    CASE m.minutes = FiveHourMinutes -> "FIVE_HOUR"
      [] m.minutes = WeeklyMinutes -> "WEEKLY"
      [] OTHER -> "OTHER_WINDOW"

OfKind(meters, kind) == Selection(meters, {m \in ToSet(meters) : Kind(m) = kind})

(* No meter of a kind, or one, at most.                                    *)
Unambiguous(meters) ==
    \A kind \in {"WEEKLY", "FIVE_HOUR"} : Len(OfKind(meters, kind)) <= 1

Sorted(meters) ==
    [weekly |-> OfKind(meters, "WEEKLY"), fiveHour |-> OfKind(meters, "FIVE_HOUR"),
     other |-> OfKind(meters, "OTHER_WINDOW")]

-----------------------------------------------------------------------------
(* The Plugin: quota_backend.                                              *)

(* The limits of Codex are listed under its id, under another id that      *)
(* names it, or as the default: sequences of at most one list of windows.  *)
ChooseCodexSnapshot(answer) == answer.byId \o answer.named \o answer.default

(* int() takes a numeral of whole minutes only; what it refuses is a window*)
(* of another kind.  Percentage and reset go out as they came in.          *)
Listed(windows) ==
    [i \in DOMAIN windows |->
        LET w == windows[i]
            known == w.field = "minutes"
                       /\ (w.form = "number" \/ (w.form = "numeral" /\ w.length % 60 = 0))
        IN  [minutes |-> IF known THEN Truncated(w.length) ELSE NoNumber,
             used |-> w.used, reset |-> w.reset]]

Latest(meters) == IF meters = <<>> THEN <<>> ELSE <<Last(meters)>>

(* The last window of a kind wins, whatever its percentage holds.          *)
NormalizeRateLimits(answer, now) ==
    LET chosen == ChooseCodexSnapshot(answer)
        all == Sorted(IF chosen = <<>> THEN <<>> ELSE Listed(Head(chosen)))
    IN  [meters |-> [all EXCEPT !.weekly = Latest(@), !.fiveHour = Latest(@)],
         at |-> {now},
         freshness |-> IF chosen = <<>> THEN "UNKNOWN" ELSE "FRESH"]

-----------------------------------------------------------------------------
(* The Python companion: quota_telemetry, quota_companion.                 *)

(* _window_minutes, _clamp_percent, _iso: what they do not raise about.    *)
(* Minutes are looked at when they are rounded, seconds before.            *)
Understood(w) ==
    /\ w.field # "none" /\ w.form # "text"
    /\ (IF w.field = "minutes" THEN HalfToEven(w.length) ELSE w.length) > 0
    /\ w.percent # "none" /\ w.used \in 0..100
    /\ w.reset # "text"

(* _normalize_window: every reset becomes a date.                          *)
Normalized(windows) ==
    [i \in DOMAIN windows |->
        LET w == windows[i]
        IN  [minutes |-> HalfToEven(w.length), used |-> w.used,
             reset |-> IF w.reset = "epoch" THEN "iso" ELSE w.reset]]

(* No choice is made between several results of Codex.                     *)
CodexResult(payload) ==
    LET all == payload.results
        codex == Selection(all, {r \in ToSet(all) : r.provider = "codex"})
    IN  CASE Len(codex) = 1 -> {codex[1]}
          [] codex = <<>> /\ Len(all) = 1 /\ payload.strays = 0 -> {all[1]}
          [] OTHER -> {}

ParseTimestamp(r) == IF r.form \in {"iso", "epoch"} THEN {r.updated} ELSE {}

Freshness(at, now) ==
    IF at = {} THEN "UNKNOWN"
    ELSE IF \A t \in at : now - t <= MaxAge THEN "FRESH" ELSE "STALE"

NormalizeCodexbar(payload, now) ==
    {[meters |-> Sorted(Normalized(r.windows)), at |-> ParseTimestamp(r),
      freshness |-> Freshness(ParseTimestamp(r), now)] :
        r \in {x \in CodexResult(payload) :
                 /\ x.provider \in {"codex", ""}
                 /\ x.form # "text"
                 /\ x.windows # <<>>
                 /\ \A i \in DOMAIN x.windows : Understood(x.windows[i])
                 /\ Unambiguous(Normalized(x.windows))}}

(* What becomes of a run of the sensor: it is missing, cannot be started,  *)
(* hangs, fails, or has printed something.                                 *)
Runs == {"missing", "refused", "hangs", "fails", "printed"}

CollectSnapshot(run, payload, now) ==
    IF run = "printed" THEN NormalizeCodexbar(payload, now) ELSE {}

(* sanitized_envelope, push_snapshot: a status that is not READY is never  *)
(* sent.  The request is the snapshot and, beside it, the time its data is *)
(* from.                                                                   *)
Envelopes(snapshots, results) ==
    {[snapshot |-> s, measured |-> r.updated] : s \in snapshots, r \in results}

Send(snapshots) ==
    \E request \in Envelopes(snapshots, CodexResult(raw)) :
        /\ Cardinality(flight \ {request}) < MaxFlight
        /\ flight' = flight \union {request}
        /\ UNCHANGED <<clock, raw, table>>

PushSnapshot == \E run \in Runs : Send(CollectSnapshot(run, raw, clock))

-----------------------------------------------------------------------------
(* The macOS companion: CodexBarSensor.                                    *)

(* minutes, usedPercent: numbers only, and not every field.                *)
Numeric(w) == w.field \in {"minutes", "seconds"} /\ w.form = "number"

Metered(w, used) ==
    [minutes |-> IF w.field = "minutes" THEN Truncated(w.length) ELSE HalfAway(w.length),
     used |-> used, reset |-> w.reset]

(* Mutant: a percentage that is missing or null counts as 0.               *)
KeptAsZero(windows) ==
    LET kept == Selection(windows, {w \in ToSet(windows) : Numeric(w) /\ w.used <= 100})
    IN  [i \in DOMAIN kept |->
            Metered(kept[i], IF kept[i].percent = "number" THEN kept[i].used ELSE 0)]

(* Windows without a duration or a percentage in range are passed over.    *)
Kept(windows) ==
    LET kept == Selection(windows,
                    {w \in ToSet(windows) :
                        Numeric(w) /\ w.percent = "number" /\ w.used \in 0..100})
    IN  [i \in DOMAIN kept |-> Metered(kept[i], kept[i].used)]

(* selectCodexResult: an array with a stray in it is no array of objects.  *)
SelectCodexResult(payload) == IF payload.strays = 0 THEN CodexResult(payload) ELSE {}

(* The date goes out as it came in, and its age is not looked at.          *)
SwiftNormalize(payload) ==
    {[meters |-> Sorted(Kept(r.windows)),
      at |-> IF r.form = "iso" THEN {r.updated} ELSE {},
      freshness |-> IF r.form \in {"iso", "text"} THEN "FRESH" ELSE "UNKNOWN"] :
        r \in {x \in SelectCodexResult(payload) :
                 x.windows # <<>> /\ Unambiguous(Kept(x.windows))}}

(* The sensor that hangs is waited for without limit.                      *)
SwiftCollect(run, payload) == IF run = "printed" THEN SwiftNormalize(payload) ELSE {}

RefreshAndPush == \E run \in Runs : Send(SwiftCollect(run, raw))

-----------------------------------------------------------------------------
(* The relay: put_snapshot, _read_snapshot.                                *)

(* The row is replaced by whichever request arrives, in whatever order.    *)
PutSnapshot ==
    \E request \in flight :
        /\ flight' = flight \ {request}
        /\ table' = {[request |-> request, received |-> clock]}
        /\ UNCHANGED <<clock, raw>>

(* Mutant: the relay counts the age from the arrival.                      *)
FreshnessSinceArrival(row, now) == Freshness({row.received}, now)

(* Without a date the arrival stands for it.                               *)
RelayFreshness(row, now) ==
    LET at == row.request.snapshot.at
    IN  Freshness(IF at = {} THEN {row.received} ELSE at, now)

-----------------------------------------------------------------------------
WindowsInit ==
    /\ clock = 1
    /\ raw \in Payloads
    /\ flight = {}
    /\ table = {}

(* The sensor has asked upstream again.                                    *)
Measure ==
    /\ raw' = [raw EXCEPT !.results =
                  [i \in DOMAIN raw.results |-> [raw.results[i] EXCEPT !.updated = clock]]]
    /\ UNCHANGED <<clock, flight, table>>

Tick ==
    /\ clock < MaxTime
    /\ clock' = clock + 1
    /\ UNCHANGED <<raw, flight, table>>

WindowsNext == PushSnapshot \/ RefreshAndPush \/ PutSnapshot \/ Measure \/ Tick

WindowsSpec == WindowsInit /\ [][WindowsNext]_windowsVars

-----------------------------------------------------------------------------
(* What a meter says, but for the reset.                                   *)
Figures(meters) == {<<m.minutes, m.used>> : m \in ToSet(meters)}

(* A duration of whole minutes; and a window all of whose values are       *)
(* numbers, in fields both companions know, and whose reset is a date.     *)
Whole(w) == w.length % 60 = 0
Plain(w) == Whole(w) /\ Numeric(w) /\ w.percent = "number" /\ w.reset # "epoch"

(* The two companions of a user send to one row of the relay.  Where the   *)
(* strict Python normalizer accepts a payload whose durations are whole    *)
(* minutes, the Swift one shows no figure that Python does not show, of    *)
(* the same kind: it may miss windows or refuse the payload, but it never  *)
(* shows another percentage.  When all windows are plain and all elements  *)
(* objects it accepts the payload with the same meters, and the Plugin,    *)
(* where the last window of a kind wins, reads the same windows alike      *)
(* (normalize_rate_limits, normalize_codexbar, normalize).                 *)
SameMeaning ==
    \A r \in CodexResult(raw) : \A strict \in NormalizeCodexbar(raw, clock) :
        LET Every(Is(_)) == \A i \in DOMAIN r.windows : Is(r.windows[i])
            InMinutes(w) == Plain(w) /\ w.field = "minutes"
            plugin == NormalizeRateLimits(
                [byId |-> <<r.windows>>, named |-> <<>>, default |-> <<>>], clock)
        IN  /\ Every(Whole) =>
                 \A lenient \in SwiftNormalize(raw) : \A kind \in DOMAIN strict.meters :
                     Figures(lenient.meters[kind]) \subseteq Figures(strict.meters[kind])
            /\ Every(Plain) /\ raw.strays = 0 =>
                 {s.meters : s \in SwiftNormalize(raw)} = {strict.meters}
            /\ Every(InMinutes) => plugin.meters = strict.meters

(* What the relay calls fresh is young: the data was measured at most the  *)
(* maximal age before the question, whichever companion sent it, however   *)
(* long it was on its way and whatever it overtook; as long as its date    *)
(* can be read (normalize_codexbar, normalize, put_snapshot,               *)
(* _read_snapshot).                                                        *)
FreshIsYoung ==
    \A row \in table :
        row.request.snapshot.at # {} /\ RelayFreshness(row, clock) = "FRESH"
            => clock - row.request.measured <= MaxAge
=============================================================================
