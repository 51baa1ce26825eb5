------------------------------ MODULE MCWidget ------------------------------
(***************************************************************************)
(* A small installation for Widget: a weather widget (an unnamed source, a *)
(* named one too when MaxSources allows two, user config, Pages pages in   *)
(* one version of its ui.jsonl and one page in the other), a desk widget   *)
(* (every host topic there is, and DeskSources named sources) and a clock. *)
(***************************************************************************)
EXTENDS Widget

CONSTANTS DeskSources, Pages

MCUrls     == {"weather.url", "fx.url"}
MCKeys     == {"current", "fx", "cpu", "name"}
MCFieldOf  == [u \in MCUrls |-> "current"]
MCPagesOf  ==
  [a \in Apps |-> [v \in Versions |-> IF a = "weather" /\ v = "v1" THEN Pages ELSE 1]]

MCWeather == [name |-> "unnamed", url |-> "weather.url"]
MCFx      == [name |-> "fx", url |-> "fx.url"]

MCLayout ==
  [a \in Apps |->
     [sources |-> [i \in Idx |->
                     CASE a = "weather" /\ i = 1                      -> MCWeather
                       [] a = "weather" /\ i = 2                      -> MCFx
                       [] a = "desk" /\ i <= DeskSources              -> MCFx
                       [] OTHER                                       -> None],
      topics  |-> IF a = "desk" THEN Topics ELSE {},
      clock   |-> a = "clock",
      config  |-> a = "weather"]]
=============================================================================
