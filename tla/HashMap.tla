------------------------------- MODULE HashMap ------------------------------
(***************************************************************************)
(* What source/common/uhash.h promises of a UHashtable: a map whose put    *)
(* may fail, for want of memory, without changing it.                      *)
(***************************************************************************)
CONSTANTS Ids, Values, NULL, ReturnsOld

VARIABLES
    map,     \* the value stored for each key, NULL if there is none
    call     \* the last call: [op, id, ret, ok]

vars == <<map, call>>

Empty == [id \in Ids |-> NULL]

Init == map = Empty /\ call = NULL

Returned(op, id, ret, ok) == call' = [op |-> op, id |-> id, ret |-> ret, ok |-> ok]

\* A table with a value deleter does not return the old value, it is gone.
Old(id) == IF ReturnsOld THEN map[id] ELSE NULL

Put(id, v) ==
    /\ map' = [map EXCEPT ![id] = v]
    /\ Returned("put", id, Old(id), TRUE)

PutFails(id) ==
    /\ UNCHANGED map
    /\ Returned("put", id, NULL, FALSE)

Remove(id) ==
    /\ map' = [map EXCEPT ![id] = NULL]
    /\ Returned("remove", id, Old(id), TRUE)

Get(id) ==
    /\ UNCHANGED map
    /\ Returned("get", id, map[id], TRUE)

RemoveAll == map' = Empty /\ Returned("removeAll", NULL, NULL, TRUE)

\* Opening, resizing and iterating do not show.
Other == UNCHANGED map /\ call' = NULL

Next ==
    \/ \E id \in Ids :
          \/ PutFails(id) \/ Remove(id) \/ Get(id)
          \/ \E v \in Values \union {NULL} : Put(id, v)
    \/ RemoveAll
    \/ Other

Spec == Init /\ [][Next]_vars
=============================================================================
