------------------------ MODULE UnifiedCacheGetProofs -----------------------
(***************************************************************************)
(* Proofs about UnifiedCache, part 1: counting references, and that the steps *)
(* of get() up to createObject() preserve the inductive invariant IInv.    *)
(***************************************************************************)
EXTENDS UnifiedCache, FiniteSetTheorems, TLAPS

\* The invariant, in the statements of lemmas: the proofs expand IInv, and the
\* lemmas in their context then stay as small as they are.
Good == IInv


Pointers == AllObjects \union {NULL}

\* Of the pointers r only r[s] changed, to v.
Redirected(r, q, S, s, v) ==
    /\ r \in [S -> Pointers] /\ s \in S /\ v \in Pointers
    /\ q = [r EXCEPT ![s] = v]

\* The three kinds of pointer variables are distinct, and there are no others.
LEMMA SlotFacts ==
    /\ \A t \in Threads : Ptr(t) \in Slots
    /\ \A t \in Threads, k \in Keys : Value(t, k) \in Slots
    /\ \A o \in Objects : Part(o) \in Slots
    /\ \A t, u \in Threads : Ptr(t) = Ptr(u) => t = u
    /\ \A t, u \in Threads, j, k \in Keys : Value(t, j) = Value(u, k) => t = u /\ j = k
    /\ \A o, p \in Objects : Part(o) = Part(p) => o = p
    /\ \A t, u \in Threads, k \in Keys : Ptr(t) # Value(u, k)
    /\ \A t \in Threads, o \in Objects : Ptr(t) # Part(o)
    /\ \A t \in Threads, k \in Keys, o \in Objects : Value(t, k) # Part(o)
    /\ \A s \in Slots : \/ \E t \in Threads : s = Ptr(t)
                        \/ \E t \in Threads, k \in Keys : s = Value(t, k)
                        \/ \E o \in Objects : s = Part(o)
  BY DEF Slots, Ptr, Value, Part

\* There are finitely many pointer variables to count.
LEMMA SlotsFinite == IsFiniteSet(Slots)
<1>1. IsFiniteSet({"ptr"} \X Threads) /\ IsFiniteSet({"part"} \X Objects)
  BY FS_Singleton, FS_Product, ObjectsAssumption, Zenon
<1>2. IsFiniteSet({"value"} \X (Threads \X Keys))
  BY FS_Singleton, FS_Product, ObjectsAssumption, Zenon
<1> QED BY <1>1, <1>2, FS_Union, Zenon DEF Slots

\* Setting one pointer variable (copyPtr) moves one reference: the object it
\* points to now has one more, the one it pointed to one fewer.
LEMMA MoveSlot ==
    ASSUME NEW r, NEW q, NEW s, NEW v, Redirected(r, q, Slots, s, v),
           NEW o \in AllObjects
    PROVE  /\ Cardinality(SlotsAt(r, o)) \in Nat
           /\ Cardinality(SlotsAt(q, o)) \in Nat
           /\ Cardinality(SlotsAt(q, o))
                = Cardinality(SlotsAt(r, o)) + One(o, v)
                                             - One(o, r[s])
<1> DEFINE S == SlotsAt(r, o)
           T == SlotsAt(q, o)
<1>1. IsFiniteSet(S) /\ IsFiniteSet(T)
  BY SlotsFinite, FS_Subset, Zenon DEF SlotsAt
<1>2. Cardinality(S) \in Nat /\ Cardinality(T) \in Nat
  BY <1>1, FS_CardinalityType, Zenon
<1>3. CASE o = v /\ o # r[s]
  <2>1. T = S \union {s} /\ s \notin S
    BY <1>3, Zenon DEF SlotsAt, Redirected
  <2>2. Cardinality(T) = Cardinality(S) + 1
    BY <1>1, <2>1, FS_AddElement, Zenon
  <2> QED BY <1>2, <1>3, <2>2 DEF One
<1>4. CASE o # v /\ o = r[s]
  <2>1. T = S \ {s} /\ s \in S
    BY <1>4, Zenon DEF SlotsAt, Redirected
  <2>2. Cardinality(T) = Cardinality(S) - 1
    BY <1>1, <2>1, FS_RemoveElement, Zenon
  <2> QED BY <1>2, <1>4, <2>2 DEF One
<1>5. CASE (o = v) = (o = r[s])
  <2>1. T = S
    BY <1>5, Zenon DEF SlotsAt, Redirected
  <2> QED BY <1>2, <1>5, <2>1 DEF One
<1> QED BY <1>3, <1>4, <1>5, Zenon

\* The same for the value of one hash element (_put, _putNew, _flush).
LEMMA MoveElement ==
    ASSUME NEW r, NEW q, NEW k, NEW v, Redirected(r, q, Keys, k, v),
           NEW o \in AllObjects
    PROVE  /\ Cardinality(ElementsAt(r, o)) \in Nat
           /\ Cardinality(ElementsAt(q, o)) \in Nat
           /\ Cardinality(ElementsAt(q, o))
                = Cardinality(ElementsAt(r, o)) + One(o, v)
                                                - One(o, r[k])
<1> DEFINE S == ElementsAt(r, o)
           T == ElementsAt(q, o)
<1>1. IsFiniteSet(S) /\ IsFiniteSet(T)
  BY ObjectsAssumption, FS_Subset, Zenon DEF ElementsAt
<1>2. Cardinality(S) \in Nat /\ Cardinality(T) \in Nat
  BY <1>1, FS_CardinalityType, Zenon
<1>3. CASE o = v /\ o # r[k]
  <2>1. T = S \union {k} /\ k \notin S
    BY <1>3, Zenon DEF ElementsAt, Redirected
  <2>2. Cardinality(T) = Cardinality(S) + 1
    BY <1>1, <2>1, FS_AddElement, Zenon
  <2> QED BY <1>2, <1>3, <2>2 DEF One
<1>4. CASE o # v /\ o = r[k]
  <2>1. T = S \ {k} /\ k \in S
    BY <1>4, Zenon DEF ElementsAt, Redirected
  <2>2. Cardinality(T) = Cardinality(S) - 1
    BY <1>1, <2>1, FS_RemoveElement, Zenon
  <2> QED BY <1>2, <1>4, <2>2 DEF One
<1>5. CASE (o = v) = (o = r[k])
  <2>1. T = S
    BY <1>5, Zenon DEF ElementsAt, Redirected
  <2> QED BY <1>2, <1>5, <2>1 DEF One
<1> QED BY <1>3, <1>4, <1>5, Zenon

\* createObject() for k asks for a key of smaller rank than k.
LEMMA RankFacts ==
    /\ Rank \in [Keys -> Int]
    /\ \A k \in Keys : Parent[k] # NULL => Parent[k] \in Keys /\ Rank[Parent[k]] < Rank[k]
<1> DEFINE P(rank) == \A k \in Keys : Parent[k] # NULL => rank[Parent[k]] < rank[k]
<1>1. \E rank \in [Keys -> 0..Cardinality(Keys)] : P(rank)
  BY ParentAssumption, Zenon
<1>2. Rank \in [Keys -> 0..Cardinality(Keys)] /\ P(Rank)
  BY <1>1, Zenon DEF Rank
<1>3. Cardinality(Keys) \in Nat
  BY ObjectsAssumption, FS_CardinalityType, Zenon
<1>4. Rank \in [Keys -> Int]
  BY <1>2, <1>3
<1> QED BY <1>2, <1>4, ParentAssumption, Zenon

\* What exact counts say: allSoftReferences() is true of just the objects no
\* pointer refers to, and whatever is referred to has a positive count.
LEMMA Counted ==
    ASSUME TypeOK, RefCountsExact
    PROVE  /\ \A o \in AllObjects :
                 total[o] >= soft[o] /\ (total[o] = soft[o] <=> HardRefs(o) = {})
           /\ \A o \in AllObjects : soft[o] = 0 => SoftRefs(o) = {}
           /\ \A o \in Objects : SoftRefs(o) = {} => soft[o] = 0
           /\ \A s \in Slots : ref[s] # NULL =>
                 ref[s] \in AllObjects /\ total[ref[s]] > soft[ref[s]]
           /\ \A k \in Keys : value[k] # NULL =>
                 value[k] \in AllObjects /\ soft[value[k]] > 0
           /\ up => soft[gNoValue] > 0
           /\ \A k \in Keys : up /\ value[k] = gNoValue => soft[gNoValue] > 1
<1>1. ASSUME NEW o \in AllObjects
      PROVE  /\ IsFiniteSet(HardRefs(o)) /\ IsFiniteSet(SoftRefs(o))
             /\ Cardinality(HardRefs(o)) \in Nat /\ Cardinality(SoftRefs(o)) \in Nat
             /\ Cardinality(HardRefs(o)) = 0 <=> HardRefs(o) = {}
             /\ Cardinality(SoftRefs(o)) = 0 <=> SoftRefs(o) = {}
  <2>1. IsFiniteSet(HardRefs(o)) /\ IsFiniteSet(SoftRefs(o))
    BY SlotsFinite, ObjectsAssumption, FS_Subset, Zenon
    DEF HardRefs, SoftRefs, SlotsAt, ElementsAt
  <2> QED BY <2>1, FS_CardinalityType, FS_EmptySet, Zenon
<1>2. \A s \in Slots : ref[s] # NULL => ref[s] \in AllObjects /\ s \in HardRefs(ref[s])
  BY Zenon DEF TypeOK, HardRefs, SlotsAt
<1>3. \A k \in Keys : value[k] # NULL => value[k] \in AllObjects /\ k \in SoftRefs(value[k])
  BY Zenon DEF TypeOK, SoftRefs, ElementsAt
<1>4. \A o \in AllObjects : total[o] \in Nat /\ soft[o] \in Nat
  BY Zenon DEF TypeOK
<1>5. gNoValue \in AllObjects /\ gNoValue \notin Objects /\ NULL \notin AllObjects
  BY ObjectsAssumption, Zenon DEF AllObjects
<1>6. \A o \in AllObjects :
        total[o] >= soft[o] /\ (total[o] = soft[o] <=> HardRefs(o) = {})
  BY <1>1, <1>4 DEF RefCountsExact
<1>7. \A o \in AllObjects : soft[o] = 0 => SoftRefs(o) = {}
  BY <1>1, <1>4 DEF RefCountsExact
<1>8. \A o \in Objects : SoftRefs(o) = {} => soft[o] = 0
  BY <1>1, <1>4, <1>5 DEF RefCountsExact, AllObjects
<1>9. \A s \in Slots : ref[s] # NULL =>
        ref[s] \in AllObjects /\ total[ref[s]] > soft[ref[s]]
  BY <1>2, <1>4, <1>6
<1>10. \A k \in Keys : value[k] # NULL =>
         value[k] \in AllObjects /\ soft[value[k]] > 0
  BY <1>3, <1>4, <1>7
<1>11. up => soft[gNoValue] > 0
  BY <1>1, <1>4, <1>5 DEF RefCountsExact
<1>12. \A k \in Keys : up /\ value[k] = gNoValue => soft[gNoValue] > 1
  BY <1>1, <1>3, <1>4, <1>5 DEF RefCountsExact
<1> QED BY <1>6, <1>7, <1>8, <1>9, <1>10, <1>11, <1>12, Zenon

\* The counts c are right for the pointers r.
Counts(r, c) ==
    \A o \in AllObjects : c[o] = Cardinality(SlotsAt(r, o)) + soft[o] /\ c[o] \in Nat

\* c and d count before and after a pointer to minus was set to plus.
Recounted(c, d, minus, plus) ==
    \A o \in AllObjects : d[o] = c[o] + One(o, plus) - One(o, minus)

\* Counts that are right stay right when one pointer variable is set and the
\* counts are adjusted as copyPtr adjusts them.
LEMMA Redirect ==
    ASSUME TypeOK, NEW r, NEW q, NEW s, NEW v, NEW c, NEW d,
           Redirected(r, q, Slots, s, v), Counts(r, c), Recounted(c, d, r[s], v)
    PROVE  Counts(q, d)
<1> SUFFICES ASSUME NEW o \in AllObjects
             PROVE  d[o] = Cardinality(SlotsAt(q, o)) + soft[o] /\ d[o] \in Nat
  BY Zenon DEF Counts
<1>1. /\ Cardinality(SlotsAt(r, o)) \in Nat
      /\ Cardinality(SlotsAt(q, o)) \in Nat
      /\ Cardinality(SlotsAt(q, o)) = Cardinality(SlotsAt(r, o))
                                         + One(o, v) - One(o, r[s])
  BY MoveSlot, Zenon
<1>2. soft[o] \in Nat
  BY Zenon DEF TypeOK
<1>3. d[o] = c[o] + One(o, v) - One(o, r[s])
  BY Zenon DEF Recounted
<1>4. c[o] = Cardinality(SlotsAt(r, o)) + soft[o] /\ c[o] \in Nat
  BY Zenon DEF Counts
<1> QED BY <1>1, <1>2, <1>3, <1>4 DEF One

\* RefCountsExact again, once the counts are right for the new pointers.
LEMMA RecountedExact ==
    ASSUME RefCountsExact, UNCHANGED <<value, soft, up>>, Counts(ref', total')
    PROVE  RefCountsExact' /\ \A o \in AllObjects : total'[o] \in Nat
  BY Zenon DEF RefCountsExact, HardRefs, SoftRefs, Counts

\* RefCountsExact, as the starting point of a chain of Redirect steps.
LEMMA ExactCounts ==
    ASSUME TypeOK, RefCountsExact
    PROVE  Counts(ref, total) /\ ref \in [Slots -> Pointers]
  BY Zenon DEF TypeOK, RefCountsExact, HardRefs, Counts, Pointers

\* A step that sets one pointer variable keeps the counts exact (copyPtr).
LEMMA OneSlot ==
    ASSUME TypeOK, RefCountsExact, NEW s \in Slots, NEW v \in Pointers,
           ref' = [ref EXCEPT ![s] = v],
           Recounted(total, total', ref[s], v),
           UNCHANGED <<value, soft, up>>
    PROVE  /\ RefCountsExact' /\ ref' \in [Slots -> Pointers]
           /\ \A o \in AllObjects : total'[o] \in Nat
<1>1. Counts(ref, total) /\ Redirected(ref, ref', Slots, s, v)
  BY ExactCounts, Zenon DEF Redirected
<1>2. Counts(ref', total')
  BY <1>1, Redirect, Zenon
<1>3. ref' \in [Slots -> Pointers]
  BY <1>1, Zenon DEF Redirected
<1> QED BY <1>2, <1>3, RecountedExact, Zenon

\* A step that sets two pointer variables one after the other keeps the
\* counts exact (get(): copyPtr to ptr, then clearPtr of value).
LEMMA TwoSlots ==
    ASSUME TypeOK, RefCountsExact, NEW r, NEW c, NEW s1, NEW v1, NEW s2, NEW v2,
           Redirected(ref, r, Slots, s1, v1), Recounted(total, c, ref[s1], v1),
           Redirected(r, ref', Slots, s2, v2), Recounted(c, total', r[s2], v2),
           UNCHANGED <<value, soft, up>>
    PROVE  /\ RefCountsExact' /\ ref' \in [Slots -> Pointers]
           /\ \A o \in AllObjects : total'[o] \in Nat
<1>1. Counts(ref, total)
  BY ExactCounts, Zenon
<1>2. Counts(r, c)
  BY <1>1, Redirect, Zenon
<1>3. Counts(ref', total')
  BY <1>2, Redirect, Zenon
<1>4. ref' \in [Slots -> Pointers]
  BY Zenon DEF Redirected
<1> QED BY <1>3, <1>4, RecountedExact, Zenon

\* A step that sets three pointer variables one after the other keeps the
\* counts exact (createObject() that hands a pointer to a new object).
LEMMA ThreeSlots ==
    ASSUME TypeOK, RefCountsExact, NEW r, NEW c, NEW q, NEW d,
           NEW s1, NEW v1, NEW s2, NEW v2, NEW s3, NEW v3,
           Redirected(ref, r, Slots, s1, v1), Recounted(total, c, ref[s1], v1),
           Redirected(r, q, Slots, s2, v2), Recounted(c, d, r[s2], v2),
           Redirected(q, ref', Slots, s3, v3), Recounted(d, total', q[s3], v3),
           UNCHANGED <<value, soft, up>>
    PROVE  /\ RefCountsExact' /\ ref' \in [Slots -> Pointers]
           /\ \A o \in AllObjects : total'[o] \in Nat
<1>1. Counts(ref, total)
  BY ExactCounts, Zenon
<1>2. Counts(r, c)
  BY <1>1, Redirect, Zenon
<1>3. Counts(q, d)
  BY <1>2, Redirect, Zenon
<1>4. Counts(ref', total')
  BY <1>3, Redirect, Zenon
<1>5. ref' \in [Slots -> Pointers]
  BY Zenon DEF Redirected
<1> QED BY <1>4, <1>5, RecountedExact, Zenon

\* A step that sets the value of one hash element keeps the counts exact
\* (addSoftRef and removeSoftRef in _putNew, _put and _flush).
LEMMA OneElement ==
    ASSUME TypeOK, RefCountsExact, NEW k \in Keys, NEW v \in Pointers,
           value' = [value EXCEPT ![k] = v],
           total' = Moved(total, value[k], v),
           soft' = Moved(soft, value[k], v),
           UNCHANGED <<ref, up>>
    PROVE  /\ RefCountsExact' /\ value' \in [Keys -> Pointers]
           /\ total' \in [AllObjects -> Nat] /\ soft' \in [AllObjects -> Nat]
<1>1. value \in [Keys -> Pointers] /\ value' \in [Keys -> Pointers]
  BY Zenon DEF TypeOK, Pointers
<1>2. ASSUME NEW o \in AllObjects
      PROVE  /\ soft'[o] = Cardinality(ElementsAt(value', o))
                              + (IF o = gNoValue /\ up THEN 1 ELSE 0)
             /\ total'[o] = Cardinality(SlotsAt(ref, o)) + soft'[o]
             /\ soft'[o] \in Nat /\ total'[o] \in Nat
  <2>1. /\ Cardinality(ElementsAt(value, o)) \in Nat
        /\ Cardinality(ElementsAt(value', o)) \in Nat
        /\ Cardinality(ElementsAt(value', o)) = Cardinality(ElementsAt(value, o))
             + One(o, v) - One(o, value[k])
    <3>1. Redirected(value, value', Keys, k, v)
      BY <1>1, Zenon DEF Redirected
    <3> QED BY <3>1, MoveElement, ZenonT(60)
  <2>2. Cardinality(SlotsAt(ref, o)) \in Nat
    BY SlotsFinite, FS_Subset, FS_CardinalityType, Zenon DEF SlotsAt
  <2>3. total[o] \in Nat /\ soft[o] \in Nat
    BY Zenon DEF TypeOK
  <2>4. /\ total'[o] = total[o] + One(o, v) - One(o, value[k])
        /\ soft'[o] = soft[o] + One(o, v) - One(o, value[k])
    BY Zenon DEF Moved
  <2>5. /\ soft[o] = Cardinality(ElementsAt(value, o))
                        + (IF o = gNoValue /\ up THEN 1 ELSE 0)
        /\ total[o] = Cardinality(SlotsAt(ref, o)) + soft[o]
    BY Zenon DEF RefCountsExact, HardRefs, SoftRefs
  <2> QED BY <2>1, <2>2, <2>3, <2>4, <2>5 DEF One
<1>3. total' \in [AllObjects -> Nat] /\ soft' \in [AllObjects -> Nat]
  BY <1>2, Zenon DEF Moved
<1> QED BY <1>1, <1>2, <1>3, Zenon DEF RefCountsExact, HardRefs, SoftRefs

\* A step that drops at most one reference, to d, and allocates at most what
\* it refers to, keeps Allocation: removeRef() deletes d just when it must.
LEMMA AllocationStep ==
    ASSUME TypeOK, Allocation, NEW t \in Threads, NEW d \in Pointers,
           dying[t] = NULL, RemovedRef(t, d),
           d # NULL => total[d] > 0,
           d = gNoValue => total'[gNoValue] > 0,
           live \subseteq live', live' \subseteq AllObjects,
           \A o \in AllObjects : total'[o] \in Nat,
           \A o \in AllObjects : total'[o] > 0 => total[o] > 0 \/ o \in live' \ live,
           \A o \in AllObjects : total[o] > 0 /\ o # d => total'[o] > 0,
           \A o \in live' \ live : total'[o] > 0,
           \A o \in Objects \ live' : ref'[Part(o)] = NULL
    PROVE  Allocation' /\ dying' \in [Threads -> Objects \union {NULL}]
<1>1. d # NULL => d \in AllObjects
  BY Zenon DEF Pointers
<1>2. \A u \in Threads : u # t => dying'[u] = dying[u]
  BY Zenon DEF RemovedRef, TypeOK
<1>3. dying'[t] = IF d # NULL /\ total'[d] = 0 THEN d ELSE NULL
  BY Zenon DEF RemovedRef, TypeOK
<1>4. dying' \in [Threads -> Objects \union {NULL}]
  BY <1>1, <1>3 DEF RemovedRef, TypeOK, AllObjects
<1>5. \A o \in AllObjects : total'[o] > 0 => o \in live'
  BY Zenon DEF Allocation
<1>6. \A o \in live' \ {gNoValue} : total'[o] > 0 \/ \E u \in Threads : dying'[u] = o
  <2> SUFFICES ASSUME NEW o \in live', o # gNoValue, ~(total'[o] > 0)
               PROVE  \E u \in Threads : dying'[u] = o
    OBVIOUS
  <2>1. o \in AllObjects /\ o \in live /\ total'[o] = 0
    OBVIOUS
  <2>2. CASE o = d
    BY <1>3, <2>1, <2>2, ObjectsAssumption, Zenon DEF AllObjects
  <2>3. CASE o # d
    <3>1. ~(total[o] > 0)
      BY <2>1, <2>3, Zenon
    <3>2. PICK u \in Threads : dying[u] = o
      BY <2>1, <3>1, Zenon DEF Allocation
    <3>3. u # t
      BY <2>1, <3>2, ObjectsAssumption, Zenon DEF AllObjects
    <3> QED BY <1>2, <3>2, <3>3, Zenon
  <2> QED BY <2>2, <2>3, Zenon
<1>7. ASSUME NEW u \in Threads, dying'[u] # NULL
      PROVE  dying'[u] \in live' /\ total'[dying'[u]] = 0
  <2>1. CASE u = t
    BY <1>1, <1>3, <1>7, <2>1, Zenon DEF Allocation
  <2>2. CASE u # t
    <3>1. dying'[u] \in AllObjects /\ dying'[u] \in live /\ total[dying'[u]] = 0
      BY <1>2, <1>7, <2>2, Zenon DEF Allocation, TypeOK
    <3> QED BY <3>1
  <2> QED BY <2>1, <2>2, Zenon
<1>8. \A u, w \in Threads : dying'[u] # NULL /\ dying'[u] = dying'[w] => u = w
  <2>1. \A u \in Threads : dying[u] # NULL => total[dying[u]] = 0
    BY Zenon DEF Allocation
  <2>2. \A u \in Threads : dying'[t] # NULL => dying[u] # dying'[t]
    BY <1>3, <2>1
  <2> QED BY <1>2, <2>2 DEF Allocation
<1> QED BY <1>4, <1>5, <1>6, <1>7, <1>8, Zenon DEF Allocation

\* The invariant holds before the cache is first used.
LEMMA InitInv == Init => IInv
<1> SUFFICES ASSUME Init PROVE IInv
  OBVIOUS
<1>1. TypeOK
  <2>1. value \in [Keys -> AllObjects \union {NULL}] /\ creationStatus \in [Keys -> Statuses]
    BY Zenon DEF Init, Statuses, Successes
  <2>2. total \in [AllObjects -> Nat] /\ soft \in [AllObjects -> Nat]
    BY Zenon DEF Init
  <2>3. ref \in [Slots -> AllObjects \union {NULL}] /\ dying \in [Threads -> Objects \union {NULL}]
    BY Zenon DEF Init
  <2>4. /\ pc \in [Threads -> [Keys -> {"out", "poll", "wait", "create", "nested",
                                       "put", "fetched", "uncached", "done"}]]
        /\ status \in [Threads -> [Keys -> Statuses]]
    BY Zenon DEF Init, Statuses, Successes
  <2>5. /\ up \in BOOLEAN /\ flushed \in BOOLEAN /\ raced \in BOOLEAN
        /\ live \subseteq AllObjects /\ lock \in Threads \union {NULL}
        /\ mode \in {"none", "fetch", "flush", "final", "wipe"}
        /\ todo \subseteq Keys /\ waiters \subseteq Threads
    BY Zenon DEF Init
  <2>6. flushes \in 0..MaxFlushes
    BY MaxFlushesAssumption DEF Init
  <2> QED BY <2>1, <2>2, <2>3, <2>4, <2>5, <2>6, Zenon DEF TypeOK
<1>2. RefCountsExact
  <2>1. \A o \in AllObjects : HardRefs(o) = {} /\ SoftRefs(o) = {}
    BY ObjectsAssumption, Zenon DEF Init, AllObjects, HardRefs, SoftRefs, SlotsAt, ElementsAt
  <2>2. Cardinality({}) = 0
    BY FS_EmptySet, Zenon
  <2> QED BY <2>1, <2>2, SMTT(60) DEF Init, RefCountsExact
<1>3. Allocation
  BY SlotFacts DEF Init, Allocation
<1>4. Locals
  BY SlotFacts, ObjectsAssumption, Zenon DEF Init, Locals
<1>5. ElementsOK /\ WaitersOK
  BY ObjectsAssumption, Zenon DEF Init, ElementsOK, WaitersOK, InProgress
<1>6. Modes
  BY Zenon DEF Init, Modes, Stopped, Elements
<1>7. Nesting /\ ReturnedIsCached
  BY Zenon DEF Init, Nesting, Nested, Active, ReturnedIsCached
<1> QED BY <1>1, <1>2, <1>3, <1>4, <1>5, <1>6, <1>7, Zenon DEF IInv

\* The invariant survives steps of the rest of the program.
LEMMA Unchanged == IInv /\ UNCHANGED vars => IInv'
<1> SUFFICES ASSUME IInv, UNCHANGED vars PROVE IInv'
  OBVIOUS
<1>1. TypeOK'
  BY Zenon DEF IInv, vars, TypeOK
<1>2. RefCountsExact'
  BY Zenon DEF IInv, vars, RefCountsExact, HardRefs, SoftRefs
<1>3. Allocation'
  BY Zenon DEF IInv, vars, Allocation
<1>4. Locals'
  BY Zenon DEF IInv, vars, Locals
<1>5. ElementsOK' /\ WaitersOK'
  BY Zenon DEF IInv, vars, ElementsOK, WaitersOK, InProgress
<1>6. Modes'
  BY Zenon DEF IInv, vars, Modes, Stopped, Elements
<1>7. Nesting' /\ ReturnedIsCached'
  BY DEF IInv, vars, Nesting, Nested, Active, ReturnedIsCached
<1> QED BY <1>1, <1>2, <1>3, <1>4, <1>5, <1>6, <1>7, Zenon DEF IInv

\* getInstance() keeps the invariant.
LEMMA GetInstanceInv ==
    ASSUME Good, NEW t \in Threads, GetInstance(t) PROVE Good'
<1> SUFFICES ASSUME IInv PROVE IInv'
  BY Zenon DEF Good
<1>1. TypeOK'
  BY Zenon DEF IInv, GetInstance, TypeOK, AllObjects
<1>2. HardRefs(gNoValue) = {} /\ SoftRefs(gNoValue) = {}
  <2>1. SoftRefs(gNoValue) = {}
    BY ObjectsAssumption, Zenon DEF IInv, GetInstance, Modes, Elements, SoftRefs, ElementsAt
  <2>2. \A u \in Threads, k \in Keys : ref[Value(u, k)] = NULL
    BY Zenon DEF IInv, GetInstance, Modes, Locals
  <2>3. \A s \in Slots : ref[s] # gNoValue
    BY <2>2, SlotFacts, ObjectsAssumption DEF IInv, Locals
  <2> QED BY <2>1, <2>3, Zenon DEF HardRefs, SlotsAt
<1>3. RefCountsExact'
  <2>1. ASSUME NEW o \in AllObjects, o # gNoValue
        PROVE  /\ soft'[o] = Cardinality(SoftRefs(o)') + (IF o = gNoValue /\ up' THEN 1 ELSE 0)
               /\ total'[o] = Cardinality(HardRefs(o)') + soft'[o]
    BY <2>1, Zenon DEF IInv, GetInstance, RefCountsExact, TypeOK, HardRefs, SoftRefs
  <2>2. /\ soft'[gNoValue] = Cardinality(SoftRefs(gNoValue)') + 1
        /\ total'[gNoValue] = Cardinality(HardRefs(gNoValue)') + soft'[gNoValue]
    BY <1>2, FS_EmptySet DEF IInv, GetInstance, TypeOK, AllObjects, HardRefs, SoftRefs
  <2>3. up' = TRUE
    BY Zenon DEF GetInstance
  <2> QED BY <2>1, <2>2, <2>3, Zenon DEF RefCountsExact
<1>4. Allocation'
  BY ObjectsAssumption DEF IInv, GetInstance, TypeOK, Allocation, AllObjects
<1>5. Locals'
  BY Zenon DEF IInv, GetInstance, Locals
<1>6. ElementsOK' /\ WaitersOK'
  BY Zenon DEF IInv, GetInstance, ElementsOK, WaitersOK, InProgress
<1>7. Modes'
  BY Zenon DEF IInv, GetInstance, Modes, Stopped, Elements
<1>8. Nesting' /\ ReturnedIsCached'
  BY DEF IInv, GetInstance, Nesting, Nested, Active, ReturnedIsCached
<1> QED BY <1>1, <1>3, <1>4, <1>5, <1>6, <1>7, <1>8, Zenon DEF IInv

\* Entering get() keeps the invariant.
LEMMA GetInv ==
    ASSUME Good, NEW t \in Threads, NEW k \in Keys, Get(t, k) PROVE Good'
<1> SUFFICES ASSUME IInv PROVE IInv'
  BY Zenon DEF Good
<1> USE DEF cacheVars, flushVars
<1>1. TypeOK'
  BY Zenon DEF IInv, Get, Goto, TypeOK
<1>2. RefCountsExact'
  BY Zenon DEF IInv, Get, RefCountsExact, HardRefs, SoftRefs
<1>3. Allocation'
  BY Zenon DEF IInv, Get, Allocation
<1>4. Locals'
  BY DEF IInv, Get, Goto, TypeOK, Locals
<1>5. ElementsOK' /\ WaitersOK'
  BY ZenonT(60) DEF IInv, Get, Goto, TypeOK, ElementsOK, WaitersOK, InProgress
<1>6. Modes'
  BY Zenon DEF IInv, Get, Goto, TypeOK, Modes, Stopped, Elements
<1>7. Nesting'
  BY RankFacts DEF IInv, Get, Goto, Outside, TypeOK, Nesting, Nested, Active
<1>8. ReturnedIsCached'
  BY Zenon DEF IInv, Get, Goto, TypeOK, ReturnedIsCached
<1> QED BY <1>1, <1>2, <1>3, <1>4, <1>5, <1>6, <1>7, <1>8, Zenon DEF IInv

\* Nesting is kept where no call of get() begins, ends or nests another.
LEMMA NestingKept ==
    ASSUME Nesting, \A u \in Threads : Nested(u)' = Nested(u) /\ Active(u)' = Active(u)
    PROVE  Nesting'
  BY Zenon DEF Nesting

\* _poll() keeps the invariant, in each of its four outcomes.
LEMMA PollInv ==
    ASSUME Good, NEW t \in Threads, NEW k \in Keys, Poll(t, k) PROVE Good'
<1> SUFFICES ASSUME IInv PROVE IInv'
  BY Zenon DEF Good
<1> USE DEF cacheVars, flushVars
<1>1. /\ mode = "none" /\ up /\ dying[t] = NULL /\ t \notin waiters
      /\ pc[t][k] \in {"poll", "wait"} /\ ref[Value(t, k)] = NULL
  BY Zenon DEF IInv, Poll, Modes, Locals
<1>2. Value(t, k) \in Slots /\ NULL \in Pointers /\ gNoValue \in Pointers
      /\ NULL \notin AllObjects /\ gNoValue \in AllObjects
  BY SlotFacts, ObjectsAssumption, Zenon DEF Pointers, AllObjects
<1>3. ASSUME InProgress(k), waiters' = waiters \union {t},
             pc' = [pc EXCEPT ![t][k] = "wait"],
             UNCHANGED <<value, creationStatus, soft, total, ref, status, dying,
                         flushVars, live, raced>>
      PROVE  IInv'
  <2>1. TypeOK'
    BY <1>3, Zenon DEF IInv, TypeOK
  <2>2. RefCountsExact'
    BY <1>3, Zenon DEF IInv, RefCountsExact, HardRefs, SoftRefs
  <2>3. Allocation'
    BY <1>3, Zenon DEF IInv, Allocation
  <2>4. Locals'
    BY <1>1, <1>3, ZenonT(60) DEF IInv, TypeOK, Locals
  <2>5. ElementsOK'
    BY <1>1, <1>3, Zenon DEF IInv, TypeOK, ElementsOK, InProgress
  <2>6. WaitersOK'
    <3> SUFFICES ASSUME NEW u \in waiters', NEW j \in Keys, pc'[u][j] = "wait"
                 PROVE  InProgress(j)' \/ mode' = "flush"
      BY Zenon DEF WaitersOK
    <3>1. u \in Threads /\ \A i \in Keys : InProgress(i)' = InProgress(i)
      BY <1>3, Zenon DEF IInv, TypeOK, InProgress
    <3>2. CASE u = t
      <4>1. j \in Active(t) /\ k \in Active(t)
        BY <1>1, <1>3, <3>2, Zenon DEF IInv, TypeOK, Active
      <4>2. j = k
        BY <4>1, Zenon DEF IInv, Nesting
      <4> QED BY <1>3, <3>1, <4>2, Zenon
    <3>3. CASE u # t
      BY <1>3, <3>1, <3>3, Zenon DEF IInv, TypeOK, WaitersOK
    <3> QED BY <3>2, <3>3, Zenon
  <2>7. Modes'
    BY <1>1, <1>3, Zenon DEF IInv, TypeOK, Modes, Stopped, Elements
  <2>8. Nesting'
    <3>1. \A u \in Threads : Nested(u)' = Nested(u) /\ Active(u)' = Active(u)
      BY <1>1, <1>3, Zenon DEF IInv, TypeOK, Nested, Active
    <3> QED BY <3>1, NestingKept, Zenon DEF IInv
  <2>9. ReturnedIsCached'
    BY <1>1, <1>3, Zenon DEF IInv, TypeOK, ReturnedIsCached
  <2> QED BY <2>1, <2>2, <2>3, <2>4, <2>5, <2>6, <2>7, <2>8, <2>9, Zenon DEF IInv
<1>4. ASSUME value[k] # NULL, ~InProgress(k),
             CopyPtr(t, Value(t, k), value[k]),
             status' = [status EXCEPT ![t][k] = creationStatus[k]],
             pc' = [pc EXCEPT ![t][k] = "fetched"],
             UNCHANGED <<cacheVars, flushVars, live, raced>>
      PROVE  IInv'
  <2>1. /\ RefCountsExact' /\ ref' \in [Slots -> Pointers]
        /\ \A o \in AllObjects : total'[o] \in Nat
    <3>1. value[k] \in Pointers
      BY Zenon DEF IInv, TypeOK, Pointers
    <3>2. Recounted(total, total', ref[Value(t, k)], value[k])
      BY <1>4, Zenon DEF CopyPtr, Moved, Recounted
    <3> QED BY <1>2, <1>4, <3>1, <3>2, OneSlot, Zenon DEF IInv, CopyPtr
  <2>2. dying' = dying
    BY <1>1, <1>4, Zenon DEF IInv, TypeOK, CopyPtr, RemovedRef
  <2>3. TypeOK'
    BY <1>4, <2>1, <2>2, Zenon DEF IInv, TypeOK, CopyPtr, Moved, Pointers
  <2>4. \A o \in AllObjects : /\ total'[o] = total[o] \/ o = value[k]
                              /\ total'[o] >= total[o]
    BY <1>1, <1>2, <1>4 DEF IInv, TypeOK, CopyPtr, Moved, One
  <2>5. value[k] \in AllObjects /\ soft[value[k]] > 0 /\ total[value[k]] >= soft[value[k]]
    BY <1>4, Counted, Zenon DEF IInv
  <2>12. /\ ref'[Value(t, k)] = value[k]
         /\ \A u \in Threads, j \in Keys :
               u # t \/ j # k => ref'[Value(u, j)] = ref[Value(u, j)]
         /\ \A u \in Threads : ref'[Ptr(u)] = ref[Ptr(u)]
         /\ \A o \in Objects : ref'[Part(o)] = ref[Part(o)]
    <3>1. Redirected(ref, ref', Slots, Value(t, k), value[k])
      BY <1>2, <1>4, Zenon DEF IInv, TypeOK, CopyPtr, Redirected, Pointers
    <3> QED BY <3>1, SlotFacts DEF Redirected
  <2>13. \A o \in AllObjects : total'[o] > 0 => total[o] > 0 \/ o = value[k]
    BY <2>4, Zenon
  <2>14. total[value[k]] > 0
    BY <2>5 DEF IInv, TypeOK
  <2>6. Allocation'
    <3>1. \A o \in AllObjects : total'[o] > 0 => o \in live'
      BY <1>4, <2>13, <2>14, Zenon DEF IInv, Allocation
    <3>2. \A o \in live' \ {gNoValue} : total'[o] > 0 \/ \E u \in Threads : dying'[u] = o
      BY <1>4, <2>1, <2>2, <2>4 DEF IInv, TypeOK, Allocation
    <3>3. \A u \in Threads : dying'[u] # NULL => dying'[u] \in live' /\ total'[dying'[u]] = 0
      BY <1>4, <2>2, <2>4, <2>5, <2>14 DEF IInv, TypeOK, Allocation
    <3> QED BY <1>4, <2>2, <2>12, <3>1, <3>2, <3>3, Zenon DEF IInv, Allocation
  <2>7. Locals'
    <3>1. value[k] = gNoValue => creationStatus[k] = FAILURE
      BY <1>4, Zenon DEF IInv, ElementsOK, InProgress
    <3>2. value[k] \in Objects => creationStatus[k] # FAILURE
      BY Zenon DEF IInv, ElementsOK, Successes, FAILURE, ZERO
    <3>3. pc'[t][k] = "fetched" /\ status'[t][k] = creationStatus[k]
      BY <1>4, Zenon DEF IInv, TypeOK
    <3>4. \A u \in Threads, j \in Keys :
             u # t \/ j # k => pc'[u][j] = pc[u][j] /\ status'[u][j] = status[u][j]
      BY <1>4, Zenon DEF IInv, TypeOK
    <3>5. value[k] # gNoValue => value[k] \in Objects
      BY <2>5, Zenon DEF AllObjects
    <3>6. ASSUME NEW u \in Threads, NEW j \in Keys
          PROVE  /\ ref'[Value(u, j)] # NULL <=> pc'[u][j] \in {"put", "fetched", "uncached"}
                 /\ pc'[u][j] \in {"put", "fetched", "uncached", "done"}
                       => (status'[u][j] = FAILURE <=> ref'[Value(u, j)] \notin Objects)
      BY <1>4, <2>12, <3>1, <3>2, <3>3, <3>4, <3>5, ObjectsAssumption DEF IInv, Locals
    <3> QED BY <2>12, <3>6, Zenon DEF IInv, Locals
  <2>8. ElementsOK' /\ WaitersOK'
    BY <1>1, <1>4 DEF IInv, TypeOK, ElementsOK, WaitersOK, InProgress
  <2>9. Modes'
    BY <1>1, <1>4, Zenon DEF IInv, TypeOK, Modes, Stopped, Elements
  <2>10. Nesting'
    <3>1. \A u \in Threads : Nested(u)' = Nested(u) /\ Active(u)' = Active(u)
      BY <1>1, <1>4, Zenon DEF IInv, TypeOK, Nested, Active
    <3> QED BY <3>1, NestingKept, Zenon DEF IInv
  <2>11. ReturnedIsCached'
    BY <1>1, <1>2, <1>4, SlotFacts DEF IInv, TypeOK, ReturnedIsCached, CopyPtr
  <2> QED BY <2>1, <2>3, <2>6, <2>7, <2>8, <2>9, <2>10, <2>11, Zenon DEF IInv
<1>5. ASSUME value[k] = NULL, PutNew(k, gNoValue, ZERO),
             pc' = [pc EXCEPT ![t][k] = "create"],
             UNCHANGED <<waiters, ref, status, dying, flushVars, live, raced>>
      PROVE  IInv'
  <2>1. /\ RefCountsExact' /\ value' \in [Keys -> Pointers]
        /\ total' \in [AllObjects -> Nat] /\ soft' \in [AllObjects -> Nat]
    BY <1>2, <1>5, OneElement, Zenon DEF IInv, PutNew
  <2>2. TypeOK'
    BY <1>5, <2>1, Zenon DEF IInv, TypeOK, PutNew, Pointers, Statuses, Successes
  <2>3. \A o \in AllObjects : total'[o] = IF o = gNoValue THEN total[o] + 1 ELSE total[o]
    BY <1>2, <1>5 DEF IInv, TypeOK, PutNew, Moved, One
  <2>4. gNoValue \in live
    <3>1. total[gNoValue] > 0
      BY <1>1, <1>2, Counted DEF IInv, TypeOK
    <3> QED BY <1>2, <3>1, Zenon DEF IInv, Allocation
  <2>5. Allocation'
    BY <1>2, <1>5, <2>3, <2>4, ObjectsAssumption, SMTT(60) DEF IInv, TypeOK, Allocation, AllObjects
  <2>6. Locals'
    BY <1>1, <1>5, ZenonT(60) DEF IInv, TypeOK, Locals
  <2>7. ElementsOK'
    BY <1>1, <1>5, ObjectsAssumption, ZenonT(60) DEF IInv, TypeOK, ElementsOK, InProgress, PutNew
  <2>8. WaitersOK'
    BY <1>1, <1>5, Zenon DEF IInv, TypeOK, WaitersOK, InProgress, PutNew
  <2>9. Modes'
    BY <1>1, <1>5, Zenon DEF IInv, TypeOK, Modes, Stopped, Elements
  <2>10. Nesting'
    <3>1. \A u \in Threads : Nested(u)' = Nested(u) /\ Active(u)' = Active(u)
      BY <1>1, <1>5, Zenon DEF IInv, TypeOK, Nested, Active
    <3> QED BY <3>1, NestingKept, Zenon DEF IInv
  <2>11. ReturnedIsCached'
    BY <1>1, <1>5, SlotFacts DEF IInv, TypeOK, ReturnedIsCached, PutNew, Locals
  <2> QED BY <2>1, <2>2, <2>5, <2>6, <2>7, <2>8, <2>9, <2>10, <2>11, Zenon DEF IInv
<1>6. ASSUME value[k] = NULL, status' = [status EXCEPT ![t][k] = FAILURE],
             pc' = [pc EXCEPT ![t][k] = "done"],
             UNCHANGED <<cacheVars, total, ref, dying, flushVars, live, raced>>
      PROVE  IInv'
  <2>1. TypeOK'
    BY <1>6, Zenon DEF IInv, TypeOK, Statuses
  <2>2. RefCountsExact'
    BY <1>6, Zenon DEF IInv, RefCountsExact, HardRefs, SoftRefs
  <2>3. Allocation'
    BY <1>6, Zenon DEF IInv, Allocation
  <2>4. Locals'
    BY <1>1, <1>6, ObjectsAssumption DEF IInv, TypeOK, Locals
  <2>5. ElementsOK' /\ WaitersOK'
    BY <1>1, <1>6, Zenon DEF IInv, TypeOK, ElementsOK, WaitersOK, InProgress
  <2>6. Modes'
    BY <1>1, <1>6, Zenon DEF IInv, TypeOK, Modes, Stopped, Elements
  <2>7. Nesting'
    <3>1. \A u \in Threads : Nested(u)' = Nested(u) /\ Active(u)' = Active(u)
      BY <1>1, <1>6, Zenon DEF IInv, TypeOK, Nested, Active
    <3> QED BY <3>1, NestingKept, Zenon DEF IInv
  <2>8. ReturnedIsCached'
    BY <1>1, <1>6, Zenon DEF IInv, TypeOK, ReturnedIsCached
  <2> QED BY <2>1, <2>2, <2>3, <2>4, <2>5, <2>6, <2>7, <2>8, Zenon DEF IInv
<1> QED BY <1>3, <1>4, <1>5, <1>6, Zenon DEF Poll

\* A spurious return of umtx_condWait keeps the invariant.
LEMMA SpuriousWakeupInv ==
    ASSUME Good, NEW t \in Threads, SpuriousWakeup(t) PROVE Good'
<1> SUFFICES ASSUME IInv PROVE IInv'
  BY Zenon DEF Good
<1> USE DEF flushVars
<1>1. TypeOK'
  BY Zenon DEF IInv, SpuriousWakeup, TypeOK
<1>2. RefCountsExact'
  BY Zenon DEF IInv, SpuriousWakeup, RefCountsExact, HardRefs, SoftRefs
<1>3. Allocation' /\ Locals' /\ ReturnedIsCached'
  BY SMTT(20) DEF IInv, SpuriousWakeup, Allocation, Locals, ReturnedIsCached
<1>4. ElementsOK' /\ WaitersOK'
  BY Zenon DEF IInv, SpuriousWakeup, ElementsOK, WaitersOK, InProgress
<1>5. Modes'
  BY Zenon DEF IInv, SpuriousWakeup, Modes, Stopped, Elements
<1>6. Nesting'
  BY Zenon DEF IInv, SpuriousWakeup, Nesting, Nested, Active
<1> QED BY <1>1, <1>2, <1>3, <1>4, <1>5, <1>6, Zenon DEF IInv

\* createObject() that calls get() keeps the invariant, nesting in particular:
\* the thread is not inside get() for the key it asks for.
LEMMA CreateNestedInv ==
    ASSUME Good, NEW t \in Threads, NEW k \in Keys, CreateNested(t, k) PROVE Good'
<1> SUFFICES ASSUME IInv PROVE IInv'
  BY Zenon DEF Good
<1> USE DEF cacheVars, flushVars
<1>1. Parent[k] \in Keys /\ Rank[Parent[k]] < Rank[k]
  BY RankFacts, Zenon DEF CreateNested
<1>2. k \in Active(t) /\ k \notin Nested(t)
  BY Zenon DEF CreateNested, Active, Nested
<1>3. pc[t][Parent[k]] = "out" /\ Parent[k] # k
  <2>1. Parent[k] # k
    BY <1>1, RankFacts
  <2>2. Parent[k] \notin Active(t)
    BY <1>1, <1>2, <2>1, Zenon DEF IInv, Nesting
  <2>3. Parent[k] \notin Nested(t)
    BY <1>1, <1>2, RankFacts DEF IInv, Nesting
  <2> QED BY <1>1, <2>1, <2>2, <2>3, Zenon DEF Active, Nested
<1>4. /\ pc'[t][k] = "nested" /\ pc'[t][Parent[k]] = "poll"
      /\ \A j \in Keys : j # k /\ j # Parent[k] => pc'[t][j] = pc[t][j]
      /\ \A u \in Threads, j \in Keys : u # t => pc'[u][j] = pc[u][j]
  BY <1>1, <1>3, Zenon DEF IInv, CreateNested, TypeOK
<1>5. TypeOK'
  BY <1>1, Zenon DEF IInv, CreateNested, TypeOK
<1>6. RefCountsExact'
  BY Zenon DEF IInv, CreateNested, RefCountsExact, HardRefs, SoftRefs
<1>7. Allocation'
  BY Zenon DEF IInv, CreateNested, Allocation
<1>8. Locals'
  <2>1. \A u \in Threads, j \in Keys :
           \/ pc'[u][j] = pc[u][j]
           \/ /\ pc[u][j] \in {"out", "create"}
              /\ pc'[u][j] \in {"nested", "poll"}
    BY <1>1, <1>3, <1>4, Zenon DEF CreateNested
  <2>2. UNCHANGED <<ref, status>>
    BY Zenon DEF CreateNested
  <2>3. \A u \in Threads, j \in Keys :
          /\ ref'[Value(u, j)] # NULL <=> pc'[u][j] \in {"put", "fetched", "uncached"}
          /\ pc'[u][j] \in {"put", "fetched", "uncached", "done"}
                => (status'[u][j] = FAILURE <=> ref'[Value(u, j)] \notin Objects)
    BY <2>1, <2>2, ZenonT(60) DEF IInv, Locals
  <2> QED BY <2>2, <2>3, Zenon DEF IInv, Locals
<1>9. ElementsOK'
  <2>1. \A u \in Threads, j \in Keys : pc[u][j] \in {"create", "nested", "put"}
                                         => pc'[u][j] \in {"create", "nested", "put"}
    BY <1>1, <1>3, <1>4, Zenon
  <2> QED BY <2>1, Zenon DEF IInv, CreateNested, ElementsOK, InProgress
<1>10. WaitersOK'
  <2>1. \A u \in Threads, j \in Keys : pc'[u][j] = "wait" => pc[u][j] = "wait"
    BY <1>1, <1>4, Zenon
  <2> QED BY <2>1, ZenonT(60) DEF IInv, CreateNested, TypeOK, WaitersOK, InProgress
<1>11. Modes'
  BY Zenon DEF IInv, CreateNested, Modes, Stopped, Elements
<1>12. Nesting'
  <2> SUFFICES ASSUME NEW u \in Threads
               PROVE  /\ \A i, j \in Active(u)' : i = j
                      /\ \A c \in Nested(u)', j \in Active(u)' :
                            Rank[j] < Rank[c] /\ Rank[j] <= Rank[Parent[c]]
                      /\ \A c \in Nested(u)' : Parent[c] # NULL
                      /\ \A c, d \in Nested(u)' :
                            c # d => \/ Rank[c] < Rank[d] /\ Rank[c] <= Rank[Parent[d]]
                                     \/ Rank[d] < Rank[c] /\ Rank[d] <= Rank[Parent[c]]
    BY Zenon DEF Nesting
  <2>1. CASE u # t
    <3>1. Active(u)' = Active(u) /\ Nested(u)' = Nested(u)
      BY <1>4, <2>1, ZenonT(60) DEF Active, Nested
    <3> QED BY <3>1, Zenon DEF IInv, Nesting
  <2>2. CASE u = t
    <3>1. Active(t)' = {Parent[k]} /\ Nested(t)' = Nested(t) \union {k}
      BY <1>1, <1>2, <1>3, <1>4 DEF IInv, Nesting, Active, Nested
    <3>2. \A c \in Nested(t) : /\ c \in Keys /\ Parent[c] # NULL /\ Parent[c] \in Keys
                               /\ Rank[k] < Rank[c] /\ Rank[k] <= Rank[Parent[c]]
      BY <1>2, RankFacts, Zenon DEF IInv, Nesting, Nested
    <3>3. Parent[k] # NULL
      BY Zenon DEF CreateNested
    <3>4. \A c \in Nested(t)' :
            /\ Parent[c] # NULL
            /\ Rank[Parent[k]] < Rank[c] /\ Rank[Parent[k]] <= Rank[Parent[c]]
      BY <1>1, <3>1, <3>2, <3>3, RankFacts
    <3>5. \A c, d \in Nested(t)' :
            c # d => \/ Rank[c] < Rank[d] /\ Rank[c] <= Rank[Parent[d]]
                     \/ Rank[d] < Rank[c] /\ Rank[d] <= Rank[Parent[c]]
      BY <3>1, <3>2, Zenon DEF IInv, Nesting
    <3> QED BY <2>2, <3>1, <3>4, <3>5, Zenon
  <2> QED BY <2>1, <2>2, Zenon
<1>13. ReturnedIsCached'
  <2>1. \A u \in Threads, j \in Keys : pc'[u][j] = "fetched" => pc[u][j] = "fetched"
    BY <1>1, <1>4, Zenon
  <2> QED BY <2>1, Zenon DEF IInv, CreateNested, ReturnedIsCached
<1> QED BY <1>5, <1>6, <1>7, <1>8, <1>9, <1>10, <1>11, <1>12, <1>13, Zenon DEF IInv

\* What new returns is referenced by nothing and refers to nothing.
LEMMA FreshObject ==
    ASSUME IInv, NEW o \in Objects \ live
    PROVE  /\ o \in AllObjects /\ o # NULL /\ o # gNoValue /\ total[o] = 0
           /\ ref[Part(o)] = NULL /\ \A s \in Slots : ref[s] # o
<1>1. o \in AllObjects /\ o # NULL /\ o # gNoValue
  BY ObjectsAssumption, Zenon DEF AllObjects
<1>2. total[o] = 0
  BY <1>1 DEF IInv, TypeOK, Allocation
<1>3. \A s \in Slots : ref[s] # NULL => total[ref[s]] > 0
  BY Counted DEF IInv, TypeOK
<1> QED BY <1>1, <1>2, <1>3, Zenon DEF IInv, Allocation

\* createObject() that needs no other value keeps the invariant.
LEMMA CreateInv ==
    ASSUME Good, NEW t \in Threads, NEW k \in Keys, Create(t, k) PROVE Good'
<1> SUFFICES ASSUME IInv PROVE IInv'
  BY Zenon DEF Good
<1> USE DEF cacheVars, flushVars
<1> DEFINE v == ref'[Value(t, k)]
<1>1. /\ dying[t] = NULL /\ pc[t][k] = "create" /\ ref[Value(t, k)] = NULL
      /\ up /\ ~Stopped /\ Value(t, k) \in Slots
  BY SlotFacts, Zenon DEF IInv, Create, Goto, Modes, Locals
<1>2. /\ NULL \in Pointers /\ gNoValue \in Pointers
      /\ NULL \notin AllObjects /\ gNoValue \in AllObjects /\ gNoValue \notin Objects
  BY ObjectsAssumption, Zenon DEF Pointers, AllObjects
<1>3. /\ pc'[t][k] = "put"
      /\ \A u \in Threads, j \in Keys : u # t \/ j # k => pc'[u][j] = pc[u][j]
      /\ UNCHANGED <<cacheVars, flushVars, dying, raced>>
  BY Zenon DEF IInv, TypeOK, Create, Goto
<1>4. gNoValue \in live /\ total[gNoValue] > 0
  <2>1. total[gNoValue] > 0
    BY <1>1, <1>2, Counted DEF IInv, TypeOK
  <2> QED BY <1>2, <2>1, Zenon DEF IInv, Allocation
<1>5. /\ RefCountsExact' /\ ref' \in [Slots -> Pointers]
      /\ total' \in [AllObjects -> Nat]
      /\ status' \in [Threads -> [Keys -> Statuses]]
      /\ live' \subseteq AllObjects /\ live \subseteq live'
      /\ v \in AllObjects /\ (status'[t][k] = FAILURE <=> v \notin Objects)
      /\ \A s \in Slots : s # Value(t, k) => ref'[s] = ref[s]
      /\ \A u \in Threads, j \in Keys : u # t \/ j # k => status'[u][j] = status[u][j]
      /\ \A o \in AllObjects : total'[o] >= total[o]
      /\ \A o \in AllObjects : total'[o] > total[o] => o = v
      /\ v = gNoValue \/ v \in live' \ live
      /\ live' \ live \subseteq {v}
      /\ total'[v] > 0
  <2>1. CASE CreateFails(t, k, ref, status, NULL)
    <3>1. ref' = [ref EXCEPT ![Value(t, k)] = gNoValue] /\ v = gNoValue
      BY <1>1, <2>1, Zenon DEF IInv, TypeOK, CreateFails
    <3>2. Recounted(total, total', ref[Value(t, k)], gNoValue)
      BY <1>1, <2>1, Zenon DEF CreateFails, Moved, Recounted
    <3>3. /\ RefCountsExact' /\ ref' \in [Slots -> Pointers]
          /\ \A o \in AllObjects : total'[o] \in Nat
      BY <1>1, <1>2, <1>3, <3>1, <3>2, OneSlot, Zenon DEF IInv
    <3>4. total' \in [AllObjects -> Nat]
      BY <2>1, <3>3, Zenon DEF CreateFails, Moved
    <3>5. status' \in [Threads -> [Keys -> Statuses]] /\ status'[t][k] = FAILURE
          /\ \A u \in Threads, j \in Keys : u # t \/ j # k => status'[u][j] = status[u][j]
      BY <2>1, Zenon DEF IInv, TypeOK, CreateFails, Statuses
    <3>6. \A o \in AllObjects : /\ total'[o] >= total[o]
                                /\ total'[o] > total[o] => o = v
      BY <1>1, <1>2, <2>1, <3>1 DEF IInv, TypeOK, CreateFails, Moved, One
    <3>7. live' = live
      BY <2>1, Zenon DEF CreateFails
    <3>8. \A s \in Slots : s # Value(t, k) => ref'[s] = ref[s]
      BY <3>1, Zenon DEF IInv, TypeOK
    <3> HIDE DEF v
    <3>9. total'[v] > 0
      BY <1>2, <1>4, <3>1, <3>4, <3>6 DEF IInv, TypeOK
    <3> QED BY <1>2, <3>1, <3>3, <3>4, <3>5, <3>6, <3>7, <3>8, <3>9, Zenon DEF IInv, TypeOK
  <2>2. CASE CreateSucceeds(t, k, ref, status, NULL, NULL)
    <3>1. PICK o \in Objects \ live, e \in Successes :
            /\ live' = live \union {o}
            /\ ref' = [ref EXCEPT ![Value(t, k)] = o, ![Part(o)] = NULL]
            /\ total' = [Moved(total, NULL, NULL) EXCEPT ![o] = 1]
            /\ status' = [status EXCEPT ![t][k] = e]
      BY <2>2, Zenon DEF CreateSucceeds
    <3>2. /\ o \in AllObjects /\ o # NULL /\ o # gNoValue /\ total[o] = 0
          /\ ref[Part(o)] = NULL /\ Part(o) # Value(t, k) /\ Part(o) \in Slots
      BY FreshObject, SlotFacts, Zenon
    <3>3. ref' = [ref EXCEPT ![Value(t, k)] = o]
      BY <1>1, <3>1, <3>2, Zenon DEF IInv, TypeOK
    <3>4. v = o /\ o \in Pointers /\ \A s \in Slots : s # Value(t, k) => ref'[s] = ref[s]
      BY <1>1, <3>2, <3>3, Zenon DEF IInv, TypeOK, Pointers
    <3>5. \A p \in AllObjects : total'[p] = IF p = o THEN 1 ELSE total[p]
      BY <1>2, <3>1, <3>2 DEF IInv, TypeOK, Moved, One
    <3>6. Recounted(total, total', ref[Value(t, k)], o)
      BY <1>1, <1>2, <3>2, <3>5 DEF IInv, TypeOK, Recounted, One
    <3>7. /\ RefCountsExact' /\ ref' \in [Slots -> Pointers]
      BY <1>1, <1>3, <3>3, <3>4, <3>6, OneSlot, Zenon DEF IInv
    <3>8. total' \in [AllObjects -> Nat]
      BY <3>1, <3>5, Zenon DEF IInv, TypeOK, Moved
    <3>9. /\ status' \in [Threads -> [Keys -> Statuses]] /\ status'[t][k] # FAILURE
          /\ \A u \in Threads, j \in Keys : u # t \/ j # k => status'[u][j] = status[u][j]
      BY <3>1, Zenon DEF IInv, TypeOK, Statuses, Successes, ZERO, FAILURE
    <3> HIDE DEF v
    <3>10. live' \subseteq AllObjects /\ live \subseteq live' /\ v \in live' \ live
           /\ live' \ live \subseteq {v}
      <4>1. live' = live \union {o} /\ o \notin live /\ live \subseteq AllObjects
        BY <3>1, Zenon DEF IInv, TypeOK
      <4> QED BY <3>2, <3>4, <4>1, Zenon
    <3>11. \A p \in AllObjects : total'[p] >= total[p] /\ (total'[p] > total[p] => p = v)
      BY <3>2, <3>4, <3>5 DEF IInv, TypeOK
    <3>12. total'[v] > 0
      BY <3>2, <3>4, <3>5, SMTT(20)
    <3> QED BY <3>2, <3>4, <3>7, <3>8, <3>9, <3>10, <3>11, <3>12, Zenon
  <2> QED BY <2>1, <2>2, Zenon DEF Create
<1> HIDE DEF v
<1>6. TypeOK'
  BY <1>3, <1>5, Zenon DEF IInv, TypeOK, Pointers, Create, Goto
<1>7. /\ \A u \in Threads, j \in Keys : u # t \/ j # k => ref'[Value(u, j)] = ref[Value(u, j)]
      /\ \A u \in Threads : ref'[Ptr(u)] = ref[Ptr(u)]
      /\ \A o \in Objects : ref'[Part(o)] = ref[Part(o)]
  BY <1>1, <1>5, SlotFacts, SMTT(20)
<1>8. Allocation'
  <2>1. RemovedRef(t, NULL)
    BY <1>1, <1>3, Zenon DEF IInv, TypeOK, RemovedRef
  <2>2. \A o \in AllObjects : total'[o] > 0 => total[o] > 0 \/ o \in live' \ live
    BY <1>4, <1>5 DEF IInv, TypeOK
  <2>3. \A o \in AllObjects : total[o] > 0 => total'[o] > 0
    BY <1>5 DEF IInv, TypeOK
  <2>4. \A o \in live' \ live : total'[o] > 0
    BY <1>5, Zenon
  <2>5. \A o \in Objects \ live' : ref'[Part(o)] = NULL
    BY <1>5, <1>7, Zenon DEF IInv, Allocation
  <2>6. TypeOK /\ Allocation
    BY Zenon DEF IInv
  <2>7. \A o \in AllObjects : total'[o] \in Nat
    BY <1>5, Zenon
  <2> QED BY <1>1, <1>2, <1>5, <2>1, <2>2, <2>3, <2>4, <2>5, <2>6, <2>7, AllocationStep, Zenon
<1>9. Locals'
  <2>1. \A u \in Threads, j \in Keys :
          /\ ref'[Value(u, j)] # NULL <=> pc'[u][j] \in {"put", "fetched", "uncached"}
          /\ pc'[u][j] \in {"put", "fetched", "uncached", "done"}
                => (status'[u][j] = FAILURE <=> ref'[Value(u, j)] \notin Objects)
    <3>1. SUFFICES ASSUME NEW u \in Threads, NEW j \in Keys
                   PROVE  /\ ref'[Value(u, j)] # NULL <=> pc'[u][j] \in {"put", "fetched", "uncached"}
                          /\ pc'[u][j] \in {"put", "fetched", "uncached", "done"}
                                => (status'[u][j] = FAILURE <=> ref'[Value(u, j)] \notin Objects)
      BY Zenon
    <3>2. CASE u = t /\ j = k
      <4>1. ref'[Value(u, j)] # NULL
        BY <1>2, <1>5, <3>2 DEF v
      <4>2. status'[u][j] = FAILURE <=> ref'[Value(u, j)] \notin Objects
        BY <1>5, <3>2, Zenon DEF v
      <4> QED BY <1>3, <3>2, <4>1, <4>2, Zenon
    <3>3. CASE u # t \/ j # k
      <4>1. /\ pc'[u][j] = pc[u][j] /\ status'[u][j] = status[u][j]
            /\ ref'[Value(u, j)] = ref[Value(u, j)]
        BY <1>3, <1>5, <1>7, <3>3, Zenon
      <4>2. /\ ref[Value(u, j)] # NULL <=> pc[u][j] \in {"put", "fetched", "uncached"}
            /\ pc[u][j] \in {"put", "fetched", "uncached", "done"}
                  => (status[u][j] = FAILURE <=> ref[Value(u, j)] \notin Objects)
        BY Zenon DEF IInv, Locals
      <4> QED BY <4>1, <4>2
    <3> QED BY <3>2, <3>3, Zenon
  <2> QED BY <1>7, <2>1, Zenon DEF IInv, Locals
<1>10. ElementsOK' /\ WaitersOK'
  <2>1. \A u \in Threads, j \in Keys :
          /\ pc[u][j] \in {"create", "nested", "put"} => pc'[u][j] \in {"create", "nested", "put"}
          /\ pc'[u][j] = "wait" => pc[u][j] = "wait"
    BY <1>1, <1>3, Zenon
  <2>2. ElementsOK'
    BY <1>3, <2>1, Zenon DEF IInv, ElementsOK, InProgress
  <2>3. WaitersOK'
    BY <1>3, <2>1 DEF IInv, TypeOK, WaitersOK, InProgress
  <2> QED BY <2>2, <2>3, Zenon
<1>11. Modes'
  BY <1>1, <1>3, Zenon DEF IInv, Modes, Stopped, Elements
<1>12. Nesting'
  BY <1>1, <1>3, SMTT(20) DEF IInv, Nesting, Nested, Active
<1>13. ReturnedIsCached'
  <2>1. SUFFICES ASSUME NEW u \in Threads, NEW j \in Keys, pc'[u][j] = "fetched",
                        ref'[Value(u, j)] # gNoValue
                 PROVE  value'[j] = ref'[Value(u, j)]
    BY Zenon DEF ReturnedIsCached
  <2>2. u # t \/ j # k
    BY <1>3, <2>1, Zenon
  <2>3. pc[u][j] = "fetched" /\ ref'[Value(u, j)] = ref[Value(u, j)] /\ value' = value
    BY <1>3, <1>7, <2>1, <2>2, Zenon
  <2> QED BY <2>1, <2>3, Zenon DEF IInv, ReturnedIsCached
<1> QED BY <1>5, <1>6, <1>8, <1>9, <1>10, <1>11, <1>12, <1>13, Zenon DEF IInv
=============================================================================
