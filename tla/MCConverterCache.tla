-------------------------- MODULE MCConverterCache ---------------------------
(***************************************************************************)
(* TLC instance of ConverterCache: a table, an extension of it, a file     *)
(* that calls an extension its base; a composite converter and one of      *)
(* whose tables one is missing.                                            *)
(***************************************************************************)
EXTENDS ConverterCache

MCFiles == [n \in {"mbcs", "ext", "bad"} |->
                CASE n = "mbcs" -> NULL [] n = "ext" -> "mbcs" [] n = "bad" -> "ext"]

MCTables == [n \in {"mbcs", "ext", "bad", "composite", "partial"} |->
                CASE n = "composite" -> <<"ext", "mbcs">>
                  [] n = "partial" -> <<"mbcs", "missing">>
                  [] OTHER -> <<n>>]

ThreadSymmetry == Permutations(Threads)
=============================================================================
