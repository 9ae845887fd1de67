--------------------------- MODULE MCUnifiedCache ---------------------------
(***************************************************************************)
(* TLC instances of UnifiedCache.  "de" is a leaf; createObject() for      *)
(* "de_AT" and "de_CH" gets the object for "de" first.                     *)
(***************************************************************************)
EXTENDS UnifiedCache, TLC

CONSTANTS t1, t2, o1, o2, o3

TwoThreads == {t1, t2}
TwoObjects == {o1, o2}
ThreeObjects == {o1, o2, o3}

TwoKeys == {"de", "de_AT"}
ThreeKeys == {"de", "de_AT", "de_CH"}

FallbackToDe == [k \in Keys |-> IF k = "de" THEN NULL ELSE "de"]

\* The object for de_AT holds a pointer to the one for de; creating the one
\* for de_CH uses the one for de and lets it go.
HoldAndDrop == [k \in Keys |-> IF k = "de_CH" THEN "drop" ELSE "hold"]

\* createObject() returns the object it got for de: both keys share it.
ReturnIt == [k \in Keys |-> "return"]

Symmetry == Permutations(Threads) \union Permutations(Objects)
=============================================================================
