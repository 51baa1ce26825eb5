----------------------------- MODULE MCSettings -----------------------------
(***************************************************************************)
(* A small card for Settings: a clock in internal flash, a weather app the *)
(* catalog offers and a desk app fetch.json writes.                        *)
(***************************************************************************)
EXTENDS Settings

MCDirs     == <<"clock", "weather", "desk">>
MCIdOf     == [d \in {"clock", "weather", "desk"} |-> d]
MCCatalogs == {<<>>, <<"weather">>}

(* Found is what SelectSeq finds.                                          *)
ASSUME FoundSelects ==
  \A m \in [AllDirs -> {"none", "bad", "ok"}] :
    Found(m) = SelectSeq(Dirs, LAMBDA d : m[d] = "ok")
=============================================================================
