------------------------------- MODULE MCUHash ------------------------------
(***************************************************************************)
(* TLC instances of UHash.                                                 *)
(***************************************************************************)
EXTENDS UHash, TLC

CONSTANTS v1, v2, v3, v4

\* Two sizes, and the sizes of uhash.c.
SmallPrimes == <<3, 7>>
RealPrimes == <<13, 31, 61, 127, 251>>

\* Three keys that all collide in a table of three slots, two of them with the
\* same hash code, and a fourth that is looked up and never put.
ThreeKeys == 1..3
FourIds == 1..4
Itself == [k \in ThreeKeys |-> k]
Colliding == (1 :> 0) @@ (2 :> 0) @@ (3 :> 6) @@ (4 :> 1)

\* A table that cannot grow, and two pointers to one of three keys.
OnePrime == <<3>>
FourPointers == 1..4
ToThreeIds == (1 :> 1) @@ (2 :> 1) @@ (3 :> 2) @@ (4 :> 3)

ValueSymmetry == Permutations(Values)

\* A client that fills a table of 251 slots to just above the low water mark of
\* U_GROW_AND_SHRINK, sets this policy, and removes the keys one by one while
\* the first three allocations of a smaller array fail.
ManyKeys == 1..25
Identity == [k \in ManyKeys |-> k]
ShrinkNext ==
    \/ uhash_openSize(4)
    \/ /\ hash # NULL /\ hash.valid
       /\ \E malloc \in BOOLEAN :
             \/ /\ hash.policy = "U_GROW" /\ hash.count < 25
                /\ uhash_put(hash.count + 1, v1, malloc)
             \/ /\ hash.policy = "U_GROW" /\ hash.count = 25
                /\ uhash_setResizePolicy("U_GROW_AND_SHRINK", malloc)
             \/ /\ hash.policy = "U_GROW_AND_SHRINK" /\ hash.count > 0
                /\ malloc = (hash.primeIndex = 1)
                /\ uhash_remove(26 - hash.count, malloc)
ShrinkSpec == Init /\ [][ShrinkNext]_vars
=============================================================================
