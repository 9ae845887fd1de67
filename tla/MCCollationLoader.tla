------------------------- MODULE MCCollationLoader -------------------------
(***************************************************************************)
(* TLC instance of CollationLoader with an excerpt of ICU's collation data *)
(* (zh_Hant has a default type, and its data is in its parent zh; the root *)
(* has no search tailoring here, so that searchjl falls back twice), and   *)
(* with two data packages from which collation data was removed.           *)
(***************************************************************************)
EXTENDS CollationLoader

Bases == {"zh_HK", "zh_Hant", "zh", "root"}

Full ==
    [opened |-> [b \in Bases |-> IF b = "zh_HK" THEN "zh_Hant" ELSE b],
     chain |-> [zh_Hant |-> <<"zh_Hant", "zh", "root">>, zh |-> <<"zh", "root">>,
                root |-> <<"root">>],
     tailorings |-> [zh_Hant |-> {}, zh |-> {"pinyin", "stroke"},
                     root |-> {"standard"}],
     default |-> [zh_Hant |-> "stroke", zh |-> "pinyin", root |-> "standard"]]

\* Bundles without collations; and none at all.
Bare ==
    [opened |-> [b \in Bases |-> IF b \in {"zh", "root"} THEN b ELSE NULL],
     chain |-> [zh |-> <<"zh", "root">>, root |-> <<"root">>],
     tailorings |-> [zh |-> {}, root |-> {}],
     default |-> [zh |-> NoType, root |-> NoType]]

\* A single bundle, without the standard tailoring.
Single ==
    [opened |-> [b \in Bases |-> IF b = "zh" THEN b ELSE NULL],
     chain |-> [zh |-> <<"zh">>],
     tailorings |-> [zh |-> {"pinyin"}],
     default |-> [zh |-> NoType]]

MCPackages == [full |-> Full, bare |-> Bare, single |-> Single]

MCTypes == {"pinyin", "stroke", "standard", "search", "searchjl"}

MCRequests ==
    {<<"zh_HK", NoType>>, <<"zh_Hant", "stroke">>, <<"zh_Hant", "searchjl">>,
     <<"zh", "standard">>, <<"zh", "default">>, <<"root", NoType>>}
============================================================================
