---------------------------- MODULE MCICUService -----------------------------
(***************************************************************************)
(* TLC instance of ICUService: a factory for the installed locales, a      *)
(* number format factory that asks it, one instance that hides a locale.   *)
(***************************************************************************)
EXTENDS ICUService

de == <<"de">>
deAT == <<"de", "AT">>
xx == <<"xx">>

MCFactory ==
    [f \in Factories |->
        CASE f = "installed" ->
                [supported |-> {<<>>, de, deAT}, formats |-> NULL, visible |-> TRUE, slot0 |-> <<>>]
          [] f = "number" ->
                [supported |-> {<<>>}, formats |-> {}, visible |-> TRUE, slot0 |-> NULL]
          [] f = "instance" ->
                [supported |-> {de}, formats |-> NULL, visible |-> FALSE, slot0 |-> NULL]]

MCInstalled == <<"installed">>
ThreadSymmetry == Permutations(Threads)

MCIds == {de, deAT, xx}
MCDefaults == {de, xx}
=============================================================================
