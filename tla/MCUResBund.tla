----------------------------- MODULE MCUResBund ------------------------------
(***************************************************************************)
(* TLC instance of UResBund: a default locale with a parent, an alias, an  *)
(* explicit parent, a bundle without fallback, a pool bundle and override  *)
(* data.                                                                   *)
(***************************************************************************)
EXTENDS UResBund

Plain == [NoFile EXCEPT !.pool = TRUE]
deAT == <<"de", "AT">>
de == <<"de">>
enGB == <<"en", "GB">>
en001 == <<"en", "001">>
inName == <<"in">>
misc == <<"misc">>

MCFiles ==
       Icu(Root) :> NoFile
    @@ Pool("icudt") :> NoFile
    @@ Icu(de) :> Plain
    @@ Icu(deAT) :> Plain
    @@ Icu(enGB) :> [NoFile EXCEPT !.parent = en001]
    @@ Icu(en001) :> NoFile
    @@ Icu(inName) :> [NoFile EXCEPT !.alias = deAT]
    @@ Icu(misc) :> [NoFile EXCEPT !.noFallback = TRUE]
    @@ Usr(de) :> NoFile

HandleSymmetry == Permutations(Handles)

MCDefaultLocales == {deAT, <<"xx", "YY">>}

MCNames == {de, deAT, enGB, inName, misc, <<"xx", "YY">>}
=============================================================================
