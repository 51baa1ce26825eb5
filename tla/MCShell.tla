-------------------------------- MODULE MCShell --------------------------------
(* Two buttons, as app_main() wires them, and a card on which apps come    *)
(* and go between scans: one built in that binds a refresh, one that needs *)
(* the PC, and one that is not always found.                               *)
EXTENDS Shell

MCPresent    == {B1, B2}
MCRegistries == {<<"weather", "notes">>, <<"notes", "weather">>, <<"pc", "weather">>, <<>>}
MCBinding    == {"weather"}
MCNeedsPc    == {"pc"}

(* Picked is SelectSeq.                                                    *)
ASSUME PickedSelects ==
  \A n \in 0 .. 3 : \A s \in [1 .. n -> Ids], T \in SUBSET Ids :
    Picked(s, T) = SelectSeq(s, LAMBDA id : id \in T)
=============================================================================
