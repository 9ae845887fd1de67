-------------------------------- MODULE UHash -------------------------------
(***************************************************************************)
(* source/common/uhash.c: a hash table with open addressing and double     *)
(* hashing, whose removed elements leave marks behind, that grows and      *)
(* shrinks along a list of primes and works on when memory runs out.       *)
(*                                                                         *)
(* A key is a pointer; the comparator and the hash function see KeyOf[key].*)
(* Every malloc may fail.  Ratios are percentages.                         *)
(***************************************************************************)
EXTENDS Integers, Sequences, FiniteSets, FiniteSetsExt

CONSTANTS
    Keys, Ids, KeyOf,   \* pointers to keys, keys, which pointer is to which
    Hash,               \* the hash function, Ids -> Nat
    Values, NULL,
    PRIMES,
    LowPercent,         \* the low water ratio of U_GROW_AND_SHRINK
    Policies,           \* the resize policies the client sets
    Deleters,           \* whether the table has a key and a value deleter
    ClientCalls         \* what the client does besides the ordinary:
                        \* "put NULL", "put 0", "reput", "iterate"

ASSUME PrimesAssumption == \A i \in 1..Len(PRIMES) : PRIMES[i] > 2
ASSUME HashAssumption ==
    /\ KeyOf \in [Keys -> Ids]
    /\ Hash \in [Ids -> 0..(2^26 - 1)]   \* so that ^ 0x4000000 is + 2^26

VARIABLES
    hash,       \* the UHashtable, or NULL
    owned,      \* keys and values the table has adopted and not deleted
    iter,       \* an iteration with uhash_nextElement, or NULL: its pos, the
                \* keys it has still to return, and whether it returned NULL
    call        \* the last call, as HashMap sees it

vars == <<hash, owned, iter, call>>

HASH_DELETED == -2
HASH_EMPTY == -1
IS_EMPTY_OR_DELETED(x) == x < 0

\* RESIZE_POLICY_RATIO_TABLE
RatioLow(policy) == IF policy = "U_GROW_AND_SHRINK" THEN LowPercent ELSE 0
RatioHigh(policy) == IF policy = "U_FIXED" THEN 100 ELSE 50

Slot(hashcode, key, value) == [hashcode |-> hashcode, key |-> key, value |-> value]

Filled(h) == {i \in DOMAIN h.elements : ~IS_EMPTY_OR_DELETED(h.elements[i].hashcode)}

SetMarks(h) ==
    [h EXCEPT !.lowWaterMark = (h.length * RatioLow(h.policy)) \div 100,
              !.highWaterMark = (h.length * RatioHigh(h.policy)) \div 100]

\* _uhash_allocate() where malloc succeeds.
_uhash_allocate(h, primeIndex) ==
    SetMarks([h EXCEPT
        !.primeIndex = primeIndex,
        !.length = PRIMES[primeIndex + 1],
        !.elements = [i \in 0..(PRIMES[primeIndex + 1] - 1) |-> Slot(HASH_EMPTY, NULL, NULL)],
        !.count = 0])

-----------------------------------------------------------------------------
\* The i-th slot that _uhash_find() looks at.
Probe(length, hashcode, i) ==
    (((hashcode + 2^26) % length) + i * ((hashcode % (length - 1)) + 1)) % length

\* Where _uhash_find() sends a key that it has not found: to the first deleted
\* slot it has passed, else to the empty one it stopped at; NULL if there is
\* neither.
FreeSlot(at, deleted, stop) ==
    IF deleted # {} THEN at[Min(deleted)]
    ELSE IF stop = {} THEN NULL ELSE at[Min(stop)]

\* Mutant of StopsAt: a deleted slot ends the search as well.
StopsAtFree(e, id) == IS_EMPTY_OR_DELETED(e.hashcode) \/ KeyOf[e.key] = id

\* The loop of _uhash_find() ends at an empty slot and at the key.
StopsAt(e, id) ==
    \/ e.hashcode = HASH_EMPTY
    \/ e.hashcode = Hash[id] /\ KeyOf[e.key] = id

\* The slot of a key or, if there is none, the one for it.
_uhash_find(h, id) ==
    LET at == [i \in 0..(h.length - 1) |-> Probe(h.length, Hash[id], i)]
        stop == {i \in DOMAIN at : StopsAt(h.elements[at[i]], id)}
        passed == IF stop = {} THEN DOMAIN at ELSE 0..Min(stop)
        deleted == {i \in passed : h.elements[at[i]].hashcode = HASH_DELETED}
    IN  IF stop # {} /\ h.elements[at[Min(stop)]].hashcode >= 0
        THEN at[Min(stop)]
        ELSE FreeSlot(at, deleted, stop)

\* The size _uhash_rehash() goes to; the present one if it returns at once.
RehashTarget(h) ==
    IF h.count > h.highWaterMark /\ h.primeIndex + 1 < Len(PRIMES) THEN h.primeIndex + 1
    ELSE IF h.count <= h.highWaterMark /\ h.count < h.lowWaterMark /\ h.primeIndex > 0
    THEN h.primeIndex - 1
    ELSE h.primeIndex

Descending(S) == [n \in 1..Cardinality(S) |->
                     CHOOSE i \in S : Cardinality({j \in S : j > i}) = n - 1]

\* The loop of _uhash_rehash() over the old array, from its end.  Where there
\* are more elements than slots, _uhash_find() fails for one of them, and with
\* it U_ASSERT(e != NULL).
Reinsert(new, old) ==
    LET order == Descending(Filled(old))
        put[n \in 0..Len(order)] ==
            IF n = 0 THEN new
            ELSE LET h == put[n - 1]
                     s == old.elements[order[n]]
                 IN  [h EXCEPT !.elements[_uhash_find(h, KeyOf[s.key])] = s,
                               !.count = @ + 1]
    IN  IF Len(order) > new.length THEN [new EXCEPT !.valid = FALSE] ELSE put[Len(order)]

\* _uhash_rehash(): where malloc fails it puts the old array and its length
\* back, and leaves primeIndex at the size it did not get.
_uhash_rehash(h, malloc) ==
    LET target == RehashTarget(h)
    IN  IF target = h.primeIndex THEN h
        ELSE IF ~malloc THEN [h EXCEPT !.primeIndex = target]
        ELSE Reinsert(_uhash_allocate(h, target), h)

RehashFails(h, malloc) == RehashTarget(h) # h.primeIndex /\ ~malloc

-----------------------------------------------------------------------------
\* What the table deletes of the given keys and values.
Deletable(objects) == IF Deleters THEN objects \ {NULL} ELSE {}


\* What _uhash_setElement() deletes of a slot it overwrites.
Replaced(s, key, value) == Deletable({s.key, s.value} \ {key, value})

\* The value that _uhash_setElement() returns.
OldValue(s) == IF Deleters THEN NULL ELSE s.value

Returned(op, id, ret, ok) == call' = [op |-> op, id |-> id, ret |-> ret, ok |-> ok]

\* Mutant of RemovedElement: the slot looks as if it had never been used.
RemovedElementEmpty(h, e) ==
    [h EXCEPT !.elements[e] = Slot(HASH_EMPTY, NULL, NULL), !.count = @ - 1]

\* Mutant of RemovedElement: count is not decremented.
RemovedElementCounted(h, e) == [h EXCEPT !.elements[e] = Slot(HASH_DELETED, NULL, NULL)]

\* _uhash_internalRemoveElement()
RemovedElement(h, e) ==
    [h EXCEPT !.elements[e] = Slot(HASH_DELETED, NULL, NULL), !.count = @ - 1]

\* An iteration goes on after a removal; the removed key is not expected any
\* more.
IterWithout(id) == IF iter = NULL THEN NULL ELSE [iter EXCEPT !.todo = @ \ {id}]

\* _uhash_remove(); adopted is what the client has handed over with the call.
_uhash_remove(id, malloc, adopted) ==
    LET e == _uhash_find(hash, id)
        h == RemovedElement(hash, e)
        found == hash.elements[e].hashcode >= 0
    IN  /\ hash' = IF ~found THEN hash
                   ELSE IF h.count < h.lowWaterMark THEN _uhash_rehash(h, malloc)
                   ELSE h
        /\ owned' = (owned \ Replaced(hash.elements[e], NULL, NULL)) \union adopted
        /\ iter' = IF found THEN IterWithout(id) ELSE iter
        /\ Returned("remove", id, OldValue(hash.elements[e]), TRUE)

\* The label err of _uhash_put().
PutErr(h, key, value) ==
    /\ hash' = h
    /\ owned' = owned \ Deletable({key, value})
    /\ Returned("put", KeyOf[key], NULL, FALSE)

\* Mutant of PutFills: the last slot may be filled.
PutFillsNever(h) == FALSE

\* count would reach length.
PutFills(h) == h.count + 1 = h.length

\* _uhash_put() from the test of highWaterMark on.
PutElement(key, value, malloc) ==
    LET grow == hash.count > hash.highWaterMark
        h == IF grow THEN _uhash_rehash(hash, malloc) ELSE hash
        e == _uhash_find(h, KeyOf[key])
        s == h.elements[e]
        new == IS_EMPTY_OR_DELETED(s.hashcode)
    IN  IF (grow /\ RehashFails(hash, malloc)) \/ (new /\ PutFills(h))
        THEN PutErr(h, key, value)
        ELSE /\ hash' = [h EXCEPT !.elements[e] = Slot(Hash[KeyOf[key]], key, value),
                                  !.count = IF new THEN @ + 1 ELSE @]
             /\ owned' = (owned \union Deletable({key, value})) \ Replaced(s, key, value)
             /\ Returned("put", KeyOf[key], OldValue(s), TRUE)

\* The client hands over a key and a value that the table does not own or, if
\* it puts one again, that the table has for this key.
MayPut(object, key) ==
    \/ object \notin owned
    \/ /\ "reput" \in ClientCalls
       /\ \E i \in Filled(hash) : /\ KeyOf[hash.elements[i].key] = KeyOf[key]
                                  /\ object \in {hash.elements[i].key, hash.elements[i].value}

-----------------------------------------------------------------------------
Init == hash = NULL /\ owned = {} /\ iter = NULL /\ call = NULL

\* uhash_openSize(), uhash_open(): a table of some size of the list.  (Without
\* memory they return NULL, and nothing has changed.)
uhash_openSize(primeIndex) ==
    /\ hash = NULL
    /\ hash' = _uhash_allocate([elements |-> <<>>, primeIndex |-> 0, length |-> 0,
                                count |-> 0, lowWaterMark |-> 0, highWaterMark |-> 0,
                                policy |-> "U_GROW", valid |-> TRUE], primeIndex)
    /\ call' = NULL
    /\ UNCHANGED <<owned, iter>>

\* uhash_close() deletes what is in the table.
uhash_close ==
    /\ hash' = NULL
    /\ owned' = owned \ Deletable(UNION {{hash.elements[i].key, hash.elements[i].value} :
                                             i \in Filled(hash)})
    /\ iter' = NULL
    /\ Returned("removeAll", NULL, NULL, TRUE)

uhash_setResizePolicy(policy, malloc) ==
    /\ hash' = _uhash_rehash(SetMarks([hash EXCEPT !.policy = policy]), malloc)
    /\ iter' = NULL
    /\ call' = NULL
    /\ UNCHANGED owned

\* uhash_put() and uhash_iput(), with a value.
uhash_put(key, value, malloc) ==
    /\ MayPut(key, key) /\ MayPut(value, key)
    /\ PutElement(key, value, malloc)
    /\ iter' = NULL

\* uhash_put() with NULL removes; the key was handed over all the same.
uhash_putNULL(key, malloc) ==
    /\ "put NULL" \in ClientCalls
    /\ MayPut(key, key)
    /\ _uhash_remove(KeyOf[key], malloc, Deletable({key} \ owned))

\* uhash_puti() and uhash_iputi() of the value 0, which is NULL in a UHashTok.
uhash_puti0(key, malloc) ==
    /\ "put 0" \in ClientCalls
    /\ PutElement(key, NULL, malloc)
    /\ iter' = NULL

\* uhash_remove() and uhash_iremove().
uhash_remove(id, malloc) == _uhash_remove(id, malloc, {})

\* uhash_get(), and uhash_find(), which returns the element of the value.
uhash_get(id) ==
    /\ Returned("get", id, hash.elements[_uhash_find(hash, id)].value, TRUE)
    /\ UNCHANGED <<hash, owned, iter>>

\* uhash_removeAll() removes every element, and does not rehash.
uhash_removeAll ==
    /\ hash' = [hash EXCEPT
                   !.elements = [i \in DOMAIN @ |-> IF i \in Filled(hash)
                                                    THEN Slot(HASH_DELETED, NULL, NULL)
                                                    ELSE @[i]],
                   !.count = 0]
    /\ owned' = owned \ Deletable(UNION {{hash.elements[i].key, hash.elements[i].value} :
                                             i \in Filled(hash)})
    /\ iter' = NULL
    /\ Returned("removeAll", NULL, NULL, TRUE)

KeysAfter(pos) == {KeyOf[hash.elements[i].key] : i \in {j \in Filled(hash) : j > pos}}

\* An iteration begins with pos = -1.
StartIteration ==
    /\ "iterate" \in ClientCalls
    /\ iter' = [pos |-> -1, todo |-> KeysAfter(-1), over |-> FALSE]
    /\ call' = NULL
    /\ UNCHANGED <<hash, owned>>


\* The elements that uhash_nextElement() finds from pos on.
Rest(pos) == {i \in Filled(hash) : i > pos}

\* uhash_nextElement(): the next element, or the end of the iteration.
uhash_nextElement ==
    /\ iter # NULL /\ ~iter.over
    /\ LET rest == Rest(iter.pos)
       IN  iter' = IF rest = {} THEN [iter EXCEPT !.over = TRUE]
                   ELSE [iter EXCEPT !.pos = Min(rest),
                                     !.todo = @ \ {KeyOf[hash.elements[Min(rest)].key]}]
    /\ call' = NULL
    /\ UNCHANGED <<hash, owned>>

\* uhash_removeElement() of the element that the iteration is at.
uhash_removeElement ==
    /\ iter # NULL /\ ~iter.over
    /\ iter.pos \in Filled(hash)
    /\ LET s == hash.elements[iter.pos]
       IN  /\ hash' = RemovedElement(hash, iter.pos)
           /\ owned' = owned \ Replaced(s, NULL, NULL)
           /\ Returned("remove", KeyOf[s.key], OldValue(s), TRUE)
    /\ UNCHANGED iter

Next ==
    \/ \E primeIndex \in 0..(Len(PRIMES) - 1) : uhash_openSize(primeIndex)
    \/ /\ hash # NULL
       /\ \E malloc \in BOOLEAN :
             \/ \E policy \in Policies : uhash_setResizePolicy(policy, malloc)
             \/ \E key \in Keys :
                   \/ \E value \in Values : uhash_put(key, value, malloc)
                   \/ uhash_putNULL(key, malloc)
                   \/ uhash_puti0(key, malloc)
             \/ \E id \in Ids : uhash_remove(id, malloc)
    \/ /\ hash # NULL
       /\ \/ \E id \in Ids : uhash_get(id)
          \/ uhash_removeAll
          \/ uhash_close
          \/ StartIteration \/ uhash_nextElement \/ uhash_removeElement

Spec == Init /\ [][Next]_vars

-----------------------------------------------------------------------------
\* The fields of the table have their types, the array has the length the table
\* says it has, and count is the number of elements.
TypeOK ==
    hash # NULL =>
        /\ hash.primeIndex \in 0..(Len(PRIMES) - 1)
        /\ \E i \in 1..Len(PRIMES) : hash.length = PRIMES[i]
        /\ DOMAIN hash.elements = 0..(hash.length - 1)
        /\ hash.count = Cardinality(Filled(hash))

\* "THIS WILL NEVER HAPPEN as long as uhash_put() makes sure that count is
\* always < length" (_uhash_find): there is a slot for every key, whatever was
\* put and removed before and whichever allocations failed.
FindNeverFails ==
    hash # NULL => /\ hash.valid
                   /\ \A id \in Ids : _uhash_find(hash, id) # NULL

\* The search for an element that is in the table ends at its slot: no removal
\* cuts the chain of probes to it, and no key is in two slots.
ElementsAreFound ==
    hash # NULL => \A i \in Filled(hash) : _uhash_find(hash, KeyOf[hash.elements[i].key]) = i

Objects == UNION {{hash.elements[i].key, hash.elements[i].value} : i \in Filled(hash)}



\* The table is a map of keys to values: what a call returns and what it leaves
\* in the table is what HashMap says.
MapOf(h) ==
    [id \in Ids |->
        IF h = NULL \/ ~\E i \in Filled(h) : KeyOf[h.elements[i].key] = id THEN NULL
        ELSE h.elements[CHOOSE i \in Filled(h) : KeyOf[h.elements[i].key] = id].value]
Map == INSTANCE HashMap WITH map <- MapOf(hash), ReturnsOld <- ~Deleters
ImplementsHashMap == Map!Spec
=============================================================================
