---------------------------- MODULE MCQuotaWindows ----------------------------
(***************************************************************************)
(* QuotaWindows for TLC: the sensor prints one result with up to two       *)
(* windows, each with one thing about it that may be out of the ordinary,  *)
(* or one or two results of several providers, perhaps with a stray.       *)
(***************************************************************************)
EXTENDS QuotaWindows

Weekly == [field |-> "minutes", form |-> "number", length |-> 604800,
           percent |-> "number", used |-> 40, reset |-> "iso"]

(* Half a minute more than five hours is 300.5 minutes, half a minute less *)
(* than a week 10079.5; 20 seconds are no minute.                          *)
Durations ==
    {[Weekly EXCEPT !.field = field, !.length = length] :
        field \in {"minutes", "seconds", "window_seconds"},
        length \in {18000, 18030, 604770, 20}}

AnyWindow ==
    {Weekly, [Weekly EXCEPT !.length = 3600]} \union Durations
      \union {[Weekly EXCEPT !.form = form] : form \in {"numeral", "text"}}
      \union {[Weekly EXCEPT !.field = "none"], [Weekly EXCEPT !.used = 101],
              [Weekly EXCEPT !.form = "numeral", !.length = 604770]}
      \union {[Weekly EXCEPT !.percent = percent] : percent \in {"numeral", "hidden", "none"}}
      \union {[Weekly EXCEPT !.reset = reset] : reset \in {"epoch", "text", "none"}}

AnyResult(providers, forms, windows) ==
    [provider : providers, updated : {0}, form : forms, windows : windows]

MCPayloads ==
    [results : [1..1 -> AnyResult({"codex"}, {"iso"}, UNION {[1..n -> AnyWindow] : n \in 0..2})],
     strays : {0}]
      \union [results : UNION {[1..n -> AnyResult({"codex", "claude", ""},
                                                  {"iso", "epoch", "text", "none"},
                                                  {<<Weekly>>})] : n \in 1..2},
              strays : {0, 1}]
=============================================================================
