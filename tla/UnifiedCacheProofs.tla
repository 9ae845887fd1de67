------------------------- MODULE UnifiedCacheProofs -------------------------
(***************************************************************************)
(* Proofs about UnifiedCache, part 3: clients, flush() and the destructor  *)
(* preserve the inductive invariant IInv, and what follows from it.        *)
(***************************************************************************)
EXTENDS UnifiedCachePutProofs

\* A client's removeRef() keeps the invariant.
LEMMA ReleaseInv ==
    ASSUME Good, NEW t \in Threads, Release(t) PROVE Good'
<1> SUFFICES ASSUME IInv PROVE IInv'
  BY Zenon DEF Good
<1> USE DEF cacheVars, flushVars
<1> DEFINE d == ref[Ptr(t)]
<1>1. /\ dying[t] = NULL /\ CopyPtr(t, Ptr(t), NULL)
      /\ UNCHANGED <<cacheVars, flushVars, live, pc, status>>
      /\ TypeOK /\ RefCountsExact /\ Allocation
      /\ NULL \in Pointers /\ Ptr(t) \in Slots
  BY SlotFacts, Zenon DEF Release, Outside, IInv, Pointers
<1>2. d \in Pointers /\ d \in AllObjects /\ d # gNoValue /\ total[d] > 0
  <2>1. d # NULL /\ d # gNoValue
    BY Zenon DEF Release, IInv, Locals
  <2>2. d \in AllObjects /\ total[d] > soft[d] /\ soft[d] \in Nat /\ total[d] \in Nat
    BY <1>1, <2>1, Counted, Zenon DEF TypeOK
  <2> QED BY <2>1, <2>2 DEF Pointers
<1>3. \A o \in AllObjects : total'[o] = total[o] + One(o, NULL) - One(o, d)
  BY <1>1, Zenon DEF CopyPtr, Moved
<1>4. /\ RefCountsExact' /\ ref' \in [Slots -> Pointers]
      /\ \A o \in AllObjects : total'[o] \in Nat
  BY <1>1, <1>3, OneSlot, Zenon DEF CopyPtr, Recounted
<1>5. /\ ref'[Ptr(t)] = NULL
      /\ \A u \in Threads : u # t => ref'[Ptr(u)] = ref[Ptr(u)]
      /\ \A u \in Threads, j \in Keys : ref'[Value(u, j)] = ref[Value(u, j)]
      /\ \A o \in Objects : ref'[Part(o)] = ref[Part(o)]
  BY <1>1, SlotFacts, Zenon DEF TypeOK, CopyPtr
<1> HIDE DEF d
<1>6. Allocation' /\ dying' \in [Threads -> Objects \union {NULL}]
  <2>1. \A o \in AllObjects : total'[o] = total[o] - One(o, d) /\ total[o] \in Nat
    BY <1>1, <1>3, ObjectsAssumption DEF TypeOK, One, AllObjects
  <2>2. /\ \A o \in AllObjects : total'[o] > 0 => total[o] > 0
        /\ \A o \in AllObjects : total[o] > 0 /\ o # d => total'[o] > 0
    BY <2>1 DEF One
  <2>3. live' = live /\ live \subseteq AllObjects
    BY <1>1, Zenon DEF TypeOK
  <2>4. \A o \in Objects \ live' : ref'[Part(o)] = NULL
    BY <1>5, <2>3, Zenon DEF IInv, Allocation
  <2>5. RemovedRef(t, d)
    BY <1>1, Zenon DEF CopyPtr, d
  <2> QED BY <1>1, <1>2, <1>4, <2>2, <2>3, <2>4, <2>5, AllocationStep, Zenon
<1>7. TypeOK'
  <2>1. raced' \in BOOLEAN
    BY Zenon DEF Release, NoteRace, IInv, TypeOK
  <2>2. total' \in [AllObjects -> Nat]
    BY <1>1, <1>4, Zenon DEF CopyPtr, Moved
  <2> QED BY <1>1, <1>4, <1>6, <2>1, <2>2, Zenon DEF TypeOK, Pointers
<1>8. Locals'
  BY <1>1, <1>5, ObjectsAssumption DEF IInv, Locals
<1>9. ElementsOK' /\ WaitersOK'
  BY <1>1, Zenon DEF IInv, ElementsOK, WaitersOK, InProgress
<1>10. Modes'
  BY <1>1, Zenon DEF IInv, Modes, Stopped, Elements
<1>11. Nesting'
  BY <1>1 DEF IInv, Nesting, Nested, Active
<1>12. ReturnedIsCached'
  BY <1>1, <1>5, Zenon DEF IInv, ReturnedIsCached
<1> QED BY <1>4, <1>6, <1>7, <1>8, <1>9, <1>10, <1>11, <1>12, Zenon DEF IInv

\* A client's addRef() or copyPtr() keeps the invariant.
LEMMA ShareInv ==
    ASSUME Good, NEW t \in Threads, NEW u \in Threads, Share(t, u) PROVE Good'
<1> SUFFICES ASSUME IInv PROVE IInv'
  BY Zenon DEF Good
<1> USE DEF cacheVars, flushVars
<1> DEFINE v == ref[Ptr(t)]
<1>1. /\ dying[u] = NULL /\ CopyPtr(u, Ptr(u), v) /\ ref[Ptr(u)] = NULL
      /\ UNCHANGED <<cacheVars, flushVars, live, pc, status, raced>>
      /\ TypeOK /\ RefCountsExact /\ Allocation
      /\ Ptr(t) \in Slots /\ Ptr(u) \in Slots
  BY SlotFacts, Zenon DEF Share, Outside, IInv
<1>2. v \in Pointers /\ v \in AllObjects /\ v # gNoValue /\ total[v] > 0
  <2>1. v # NULL /\ v # gNoValue
    BY Zenon DEF Share, IInv, Locals
  <2>2. v \in AllObjects /\ total[v] > soft[v] /\ soft[v] \in Nat /\ total[v] \in Nat
    BY <1>1, <2>1, Counted, Zenon DEF TypeOK
  <2> QED BY <2>1, <2>2 DEF Pointers
<1>3. \A o \in AllObjects : total'[o] = total[o] + One(o, v) - One(o, NULL)
  BY <1>1, Zenon DEF CopyPtr, Moved
<1>4. /\ RefCountsExact' /\ ref' \in [Slots -> Pointers]
      /\ \A o \in AllObjects : total'[o] \in Nat
  BY <1>1, <1>2, <1>3, OneSlot, Zenon DEF CopyPtr, Recounted
<1>5. /\ ref'[Ptr(u)] = v
      /\ \A w \in Threads : w # u => ref'[Ptr(w)] = ref[Ptr(w)]
      /\ \A w \in Threads, j \in Keys : ref'[Value(w, j)] = ref[Value(w, j)]
      /\ \A o \in Objects : ref'[Part(o)] = ref[Part(o)]
  BY <1>1, SlotFacts, ZenonT(60) DEF TypeOK, CopyPtr
<1> HIDE DEF v
<1>6. Allocation' /\ dying' \in [Threads -> Objects \union {NULL}]
  <2>1. \A o \in AllObjects : total'[o] = total[o] + One(o, v) /\ total[o] \in Nat
    BY <1>1, <1>3, ObjectsAssumption, SMTT(60) DEF TypeOK, One, AllObjects
  <2>2. /\ \A o \in AllObjects : total'[o] > 0 => total[o] > 0
        /\ \A o \in AllObjects : total[o] > 0 => total'[o] > 0
    BY <1>2, <2>1 DEF One
  <2>3. live' = live /\ live \subseteq AllObjects
    BY <1>1, Zenon DEF TypeOK
  <2>4. \A o \in Objects \ live' : ref'[Part(o)] = NULL
    BY <1>5, <2>3, Zenon DEF IInv, Allocation
  <2>5. RemovedRef(u, NULL)
    BY <1>1, Zenon DEF CopyPtr
  <2>6. NULL \in Pointers /\ NULL # gNoValue
    BY ObjectsAssumption, Zenon DEF Pointers
  <2> QED BY <1>1, <1>4, <2>2, <2>3, <2>4, <2>5, <2>6, AllocationStep, Zenon
<1>7. TypeOK'
  <2>1. total' \in [AllObjects -> Nat]
    BY <1>1, <1>4, Zenon DEF CopyPtr, Moved
  <2> QED BY <1>1, <1>4, <1>6, <2>1, Zenon DEF TypeOK, Pointers
<1>8. Locals'
  BY <1>1, <1>2, <1>5 DEF IInv, Locals
<1>9. ElementsOK' /\ WaitersOK'
  BY <1>1, Zenon DEF IInv, ElementsOK, WaitersOK, InProgress
<1>10. Modes'
  BY <1>1, Zenon DEF IInv, Modes, Stopped, Elements
<1>11. Nesting'
  BY <1>1, ZenonT(30) DEF IInv, Nesting, Nested, Active
<1>12. ReturnedIsCached'
  BY <1>1, <1>5, Zenon DEF IInv, ReturnedIsCached
<1> QED BY <1>4, <1>6, <1>7, <1>8, <1>9, <1>10, <1>11, <1>12, Zenon DEF IInv

\* Entering flush() or the destructor of the cache keeps the invariant.
LEMMA FlushInv ==
    ASSUME Good, NEW t \in Threads, Flush(t) \/ Cleanup(t) PROVE Good'
<1> SUFFICES ASSUME IInv PROVE IInv'
  BY Zenon DEF Good
<1> USE DEF cacheVars
<1>1. /\ lock = NULL /\ lock' = t /\ mode' \in {"flush", "final"} /\ todo' = Elements
      /\ mode' = "final" => \A u \in Threads, k \in Keys : pc[u][k] = "out"
      /\ flushed' = FALSE /\ raced' = FALSE /\ flushes' = flushes + 1 /\ flushes < MaxFlushes
      /\ up /\ UNCHANGED <<cacheVars, total, live, ref, pc, status, dying, up>>
  BY Zenon DEF Flush, Cleanup, StartPass, Outside
<1>2. TypeOK'
  <2>1. flushes' \in 0..MaxFlushes
    BY <1>1, MaxFlushesAssumption DEF IInv, TypeOK
  <2>2. mode' \in {"none", "fetch", "flush", "final", "wipe"} /\ todo' \subseteq Keys
    BY <1>1, Zenon DEF Elements
  <2> QED BY <1>1, <2>1, <2>2, Zenon DEF IInv, TypeOK
<1>3. RefCountsExact'
  BY <1>1, Zenon DEF IInv, RefCountsExact, HardRefs, SoftRefs
<1>4. Allocation' /\ Locals' /\ ReturnedIsCached'
  BY <1>1 DEF IInv, Allocation, Locals, ReturnedIsCached
<1>5. ElementsOK' /\ WaitersOK'
  BY <1>1 DEF IInv, ElementsOK, WaitersOK, InProgress, Modes
<1>6. Modes'
  BY <1>1, ObjectsAssumption, Zenon DEF IInv, Modes, Stopped, Elements
<1>7. Nesting'
  BY <1>1, Zenon DEF IInv, Nesting, Nested, Active
<1> QED BY <1>2, <1>3, <1>4, <1>5, <1>6, <1>7, Zenon DEF IInv

\* The end of a pass of _flush(FALSE) keeps the invariant: a thread whose
\* element was removed is woken by the broadcast.
LEMMA PassInv ==
    ASSUME Good, NEW t \in Threads, FlushAgain(t) \/ FlushEnds(t) PROVE Good'
<1> SUFFICES ASSUME IInv PROVE IInv'
  BY Zenon DEF Good
<1> USE DEF cacheVars
<1>1. /\ lock = t /\ mode \in {"flush", "final"} /\ up
      /\ UNCHANGED <<value, creationStatus, soft, total, live, ref, pc, status, dying,
                     raced, flushes, up>>
      /\ \/ /\ lock' = t /\ mode' = mode /\ todo' = Elements /\ flushed' = FALSE
            /\ waiters' = waiters
         \/ /\ mode = "final" /\ waiters' = {}
            /\ lock' = t /\ mode' = "wipe" /\ todo' = Elements /\ flushed' = FALSE
         \/ /\ mode = "flush" /\ waiters' = {}
            /\ lock' = NULL /\ mode' = "none" /\ UNCHANGED <<todo, flushed>>
  <2>1. mode # "none"
    BY ObjectsAssumption, Zenon DEF IInv, Modes, FlushAgain, FlushEnds, PassOver
  <2> QED BY <2>1, Zenon DEF FlushAgain, FlushEnds, PassOver, StartPass, Broadcast, IInv, TypeOK, Modes
<1>2. TypeOK'
  BY <1>1, Zenon DEF IInv, TypeOK, Elements
<1>3. RefCountsExact'
  BY <1>1, Zenon DEF IInv, RefCountsExact, HardRefs, SoftRefs
<1>4. Allocation' /\ Locals' /\ ReturnedIsCached'
  BY <1>1 DEF IInv, Allocation, Locals, ReturnedIsCached
<1>5. ElementsOK' /\ WaitersOK'
  BY <1>1, Zenon DEF IInv, ElementsOK, WaitersOK, InProgress
<1>6. Modes'
  BY <1>1, ObjectsAssumption, Zenon DEF IInv, Modes, Stopped, Elements
<1>7. Nesting'
  BY <1>1, Zenon DEF IInv, Nesting, Nested, Active
<1> QED BY <1>2, <1>3, <1>4, <1>5, <1>6, <1>7, Zenon DEF IInv

\* One iteration of the loop of _flush keeps the invariant.
LEMMA FlushElementInv ==
    ASSUME Good, NEW t \in Threads, NEW k \in Keys, FlushElement(t, k) PROVE Good'
<1> SUFFICES ASSUME IInv PROVE IInv'
  BY Zenon DEF Good
<1> DEFINE o == value[k]
<1>1. /\ lock = t /\ dying[t] = NULL /\ mode \in {"flush", "final", "wipe"} /\ up
      /\ k \in todo /\ todo' = todo \ {k} /\ o # NULL
      /\ UNCHANGED <<lock, mode, flushes, up, waiters, live, ref, pc, status, raced>>
  <2>1. /\ lock = t /\ dying[t] = NULL /\ mode # "fetch" /\ k \in todo /\ todo' = todo \ {k}
        /\ UNCHANGED <<lock, mode, flushes, up, waiters, live, ref, pc, status, raced>>
    BY Zenon DEF FlushElement
  <2>2. mode \in {"flush", "final", "wipe"}
    BY <2>1, ObjectsAssumption, Zenon DEF IInv, TypeOK, Modes
  <2> QED BY <2>1, <2>2, Zenon DEF IInv, Modes, Elements
<1>2. CASE mode = "wipe" \/ AllSoftReferences(o)
  <2>1. /\ value' = [value EXCEPT ![k] = NULL]
        /\ creationStatus' = [creationStatus EXCEPT ![k] = ZERO]
        /\ soft' = Moved(soft, o, NULL)
        /\ total' = Moved(total, o, NULL)
        /\ RemovedRef(t, o)
        /\ flushed' = TRUE
    BY <1>2, Zenon DEF FlushElement
  <2>2. NULL \in Pointers /\ NULL \notin AllObjects
    BY ObjectsAssumption, Zenon DEF Pointers, AllObjects
  <2>3. TypeOK /\ RefCountsExact /\ Allocation
    BY Zenon DEF IInv
  <2>4. /\ RefCountsExact' /\ value' \in [Keys -> Pointers]
        /\ total' \in [AllObjects -> Nat] /\ soft' \in [AllObjects -> Nat]
    BY <1>1, <2>1, <2>2, <2>3, OneElement, Zenon
  <2>5. /\ o \in AllObjects /\ o \in Pointers /\ soft[o] > 0 /\ total[o] >= soft[o]
        /\ o = gNoValue => soft[o] > 1
    BY <1>1, <2>3, Counted, Zenon DEF Pointers
  <2>6. \A p \in AllObjects : total[p] \in Nat /\ soft[p] \in Nat
    BY <2>3, Zenon DEF TypeOK
  <2>7. mode # "wipe" => \A s \in Slots : ref[s] # o
    BY <1>2, <2>3, <2>5, Counted, Zenon DEF AllSoftReferences, HardRefs, SlotsAt
  <2>8. /\ value'[k] = NULL /\ creationStatus'[k] = ZERO
        /\ \A j \in Keys : j # k => value'[j] = value[j] /\ creationStatus'[j] = creationStatus[j]
    BY <2>1, Zenon DEF IInv, TypeOK
  <2>9. \A p \in AllObjects : total'[p] = total[p] + One(p, NULL) - One(p, o)
    BY <2>1, Zenon DEF Moved
  <2> HIDE DEF o
  <2>10. Allocation' /\ dying' \in [Threads -> Objects \union {NULL}]
    <3>1. total[o] > 0 /\ (o = gNoValue => total'[gNoValue] > 0)
      BY <2>2, <2>5, <2>6, <2>9 DEF One
    <3>2. /\ \A p \in AllObjects : total'[p] > 0 => total[p] > 0
          /\ \A p \in AllObjects : total[p] > 0 /\ p # o => total'[p] > 0
      BY <2>2, <2>6, <2>9 DEF One
    <3>3. live' = live /\ live \subseteq AllObjects
      BY <1>1, Zenon DEF IInv, TypeOK
    <3>4. \A p \in Objects \ live' : ref'[Part(p)] = NULL
      BY <1>1, Zenon DEF IInv, Allocation
    <3>5. \A p \in AllObjects : total'[p] \in Nat
      BY <2>4, Zenon
    <3> QED BY <1>1, <2>1, <2>3, <2>5, <3>1, <3>2, <3>3, <3>4, <3>5, AllocationStep, Zenon
  <2>11. TypeOK'
    <3>1. creationStatus' \in [Keys -> Statuses]
      BY <2>1, Zenon DEF IInv, TypeOK, Statuses, Successes
    <3> QED BY <1>1, <2>1, <2>4, <2>10, <3>1, Zenon DEF IInv, TypeOK, Pointers
  <2>12. Locals'
    BY <1>1, Zenon DEF IInv, Locals
  <2>13. ElementsOK'
    BY <1>1, <2>2, <2>8, ObjectsAssumption, Zenon DEF IInv, ElementsOK, InProgress
  <2>14. WaitersOK'
    <3>1. \A j \in Keys : j # k => InProgress(j)' = InProgress(j)
      BY <2>8, Zenon DEF InProgress
    <3>2. mode # "flush" => \A u \in Threads, j \in Keys : pc[u][j] # "wait"
      BY <1>1, Zenon DEF IInv, Modes, Stopped
    <3> QED BY <1>1, <3>1, <3>2, Zenon DEF IInv, TypeOK, WaitersOK
  <2>15. Modes'
    <3>1. Elements' = Elements \ {k}
      BY <2>8, Zenon DEF Elements
    <3> QED BY <1>1, <3>1, Zenon DEF IInv, Modes, Stopped
  <2>16. Nesting'
    BY <1>1, ZenonT(60) DEF IInv, Nesting, Nested, Active
  <2>17. ReturnedIsCached'
    <3> SUFFICES ASSUME NEW u \in Threads, NEW j \in Keys, pc'[u][j] = "fetched",
                        ref'[Value(u, j)] # gNoValue
                 PROVE  value'[j] = ref'[Value(u, j)]
      BY Zenon DEF ReturnedIsCached
    <3>1. pc[u][j] = "fetched" /\ value[j] = ref[Value(u, j)]
      BY <1>1, Zenon DEF IInv, ReturnedIsCached
    <3>2. mode # "wipe"
      BY <3>1, Zenon DEF IInv, Modes, Stopped
    <3>3. j # k
      BY <2>7, <3>1, <3>2, SlotFacts, Zenon DEF o
    <3> QED BY <1>1, <2>8, <3>1, <3>3, Zenon
  <2> QED BY <2>4, <2>10, <2>11, <2>12, <2>13, <2>14, <2>15, <2>16, <2>17, Zenon DEF IInv
<1>3. CASE ~(mode = "wipe" \/ AllSoftReferences(o))
  <2>1. UNCHANGED <<value, creationStatus, soft, total, dying, flushed>>
    BY <1>3, Zenon DEF FlushElement
  <2>2. TypeOK'
    BY <1>1, <2>1, Zenon DEF IInv, TypeOK
  <2>3. RefCountsExact'
    BY <1>1, <2>1, Zenon DEF IInv, RefCountsExact, HardRefs, SoftRefs
  <2>4. Allocation' /\ Locals' /\ ReturnedIsCached'
    BY <1>1, <2>1 DEF IInv, Allocation, Locals, ReturnedIsCached
  <2>5. ElementsOK' /\ WaitersOK'
    BY <1>1, <2>1, Zenon DEF IInv, ElementsOK, WaitersOK, InProgress
  <2>6. Modes'
    BY <1>1, <1>3, <2>1, Zenon DEF IInv, Modes, Stopped, Elements
  <2>7. Nesting'
    BY <1>1 DEF IInv, Nesting, Nested, Active
  <2> QED BY <2>2, <2>3, <2>4, <2>5, <2>6, <2>7, Zenon DEF IInv
<1> QED BY <1>2, <1>3, Zenon

\* The end of unifiedcache_cleanup() keeps the invariant: when gNoValue is
\* deleted nothing refers to it.
LEMMA WipeEndsInv ==
    ASSUME Good, NEW t \in Threads, WipeEnds(t) PROVE Good'
<1> SUFFICES ASSUME IInv PROVE IInv'
  BY Zenon DEF Good
<1>1. /\ lock = t /\ mode = "wipe" /\ todo = {} /\ lock' = NULL /\ mode' = "none"
      /\ flushed' = FALSE /\ up' = FALSE /\ live' = live \ {gNoValue}
      /\ total' = [total EXCEPT ![gNoValue] = 0] /\ soft' = [soft EXCEPT ![gNoValue] = 0]
      /\ UNCHANGED <<value, creationStatus, ref, pc, status, dying, todo, raced,
                     waiters, flushes>>
  BY Zenon DEF WipeEnds, PassOver
<1>2. TypeOK'
  BY <1>1, Zenon DEF IInv, TypeOK
<1>3. /\ \A k \in Keys : value[k] = NULL
      /\ \A u \in Threads, k \in Keys : pc[u][k] = "out"
  BY <1>1, Zenon DEF IInv, Modes, Elements, Stopped
<1>4. /\ HardRefs(gNoValue) = {} /\ \A o \in AllObjects : SoftRefs(o) = {}
  <2>1. \A o \in AllObjects : SoftRefs(o) = {}
    BY <1>3, ObjectsAssumption, Zenon DEF SoftRefs, ElementsAt, AllObjects
  <2>2. \A u \in Threads, k \in Keys : ref[Value(u, k)] = NULL
    BY <1>3, Zenon DEF IInv, Locals
  <2>3. \A s \in Slots : ref[s] # gNoValue
    BY <2>2, SlotFacts, ObjectsAssumption DEF IInv, Locals
  <2> QED BY <2>1, <2>3, Zenon DEF HardRefs, SlotsAt
<1>5. RefCountsExact'
  <2>1. ASSUME NEW o \in AllObjects, o # gNoValue
        PROVE  /\ soft'[o] = Cardinality(SoftRefs(o)')
               /\ total'[o] = Cardinality(HardRefs(o)') + soft'[o]
    <3>1. soft[o] = Cardinality(SoftRefs(o)) + 0 /\ total[o] = Cardinality(HardRefs(o)) + soft[o]
      BY <2>1, Zenon DEF IInv, RefCountsExact
    <3>2. Cardinality(SoftRefs(o)) = 0
      BY <1>4, FS_EmptySet, Zenon
    <3> QED BY <1>1, <2>1, <3>1, <3>2 DEF IInv, TypeOK, HardRefs, SoftRefs
  <2>2. /\ soft'[gNoValue] = Cardinality(SoftRefs(gNoValue)')
        /\ total'[gNoValue] = Cardinality(HardRefs(gNoValue)') + soft'[gNoValue]
    <3>1. Cardinality(SoftRefs(gNoValue)) = 0 /\ Cardinality(HardRefs(gNoValue)) = 0
      BY <1>4, FS_EmptySet, Zenon DEF AllObjects
    <3> QED BY <1>1, <3>1 DEF IInv, TypeOK, AllObjects, HardRefs, SoftRefs
  <2>3. \A o \in AllObjects : Cardinality(SoftRefs(o)') = 0
    BY <1>1, <1>4, FS_EmptySet, Zenon DEF SoftRefs
  <2> QED BY <1>1, <2>1, <2>2, <2>3 DEF RefCountsExact
<1>6. Allocation'
  <2>1. \A o \in AllObjects : o # gNoValue => total'[o] = total[o]
    BY <1>1, Zenon DEF IInv, TypeOK
  <2>2. total'[gNoValue] = 0
    BY <1>1, Zenon DEF IInv, TypeOK, AllObjects
  <2>3. \A u \in Threads : dying[u] # gNoValue
    BY ObjectsAssumption, Zenon DEF IInv, TypeOK
  <2> QED BY <1>1, <2>1, <2>2, <2>3, ObjectsAssumption DEF IInv, TypeOK, Allocation, AllObjects
<1>7. Locals' /\ ReturnedIsCached'
  BY <1>1, Zenon DEF IInv, Locals, ReturnedIsCached
<1>8. ElementsOK' /\ WaitersOK'
  BY <1>1, <1>3, Zenon DEF IInv, TypeOK, ElementsOK, WaitersOK, InProgress
<1>9. Modes'
  BY <1>1, <1>3, Zenon DEF IInv, Modes, Stopped, Elements
<1>10. Nesting'
  BY <1>1, Zenon DEF IInv, Nesting, Nested, Active
<1> QED BY <1>2, <1>5, <1>6, <1>7, <1>8, <1>9, <1>10, Zenon DEF IInv

\* Destructors keep the invariant.
LEMMA DestroyInv ==
    ASSUME Good, NEW t \in Threads, Destroy(t) PROVE Good'
<1> SUFFICES ASSUME IInv PROVE IInv'
  BY Zenon DEF Good
<1> USE DEF cacheVars
<1> DEFINE o == dying[t]
           d == ref[Part(o)]
<1>1. /\ o # NULL /\ o \in Objects /\ o \in live /\ total[o] = 0
      /\ live' = live \ {o} /\ CopyPtr(t, Part(o), NULL)
      /\ UNCHANGED <<cacheVars, pc, status, todo, flushed, flushes, up>>
      /\ TypeOK /\ RefCountsExact /\ Allocation
      /\ NULL \in Pointers /\ Part(o) \in Slots /\ o \in AllObjects
  BY SlotFacts, Zenon DEF Destroy, IInv, TypeOK, Allocation, Pointers, AllObjects
<1>2. \A p \in AllObjects : total[p] \in Nat /\ soft[p] \in Nat
  BY Zenon DEF IInv, TypeOK
<1>3. /\ d \in Pointers /\ d # gNoValue
      /\ d # NULL => d \in Objects /\ d \in AllObjects /\ total[d] > 0 /\ d \in live /\ d # o
  <2>1. d \in Pointers /\ d # gNoValue
    BY <1>1, Zenon DEF IInv, TypeOK, Locals, Pointers
  <2>2. d # NULL => d \in AllObjects /\ total[d] > soft[d]
    BY <1>1, Counted, Zenon
  <2> HIDE DEF o, d
  <2>3. d # NULL => total[d] > 0
    BY <1>2, <2>2
  <2>4. d # NULL => d \in Objects
    BY <2>1, <2>2, Zenon DEF AllObjects
  <2>5. d # NULL => d \in live
    BY <1>1, <2>2, <2>3, Zenon DEF Allocation
  <2>6. d # NULL => d # o
    BY <1>1, <2>3
  <2> QED BY <2>1, <2>2, <2>3, <2>4, <2>5, <2>6, Zenon
<1>4. \A p \in AllObjects : total'[p] = total[p] + One(p, NULL) - One(p, d)
  BY <1>1, Zenon DEF CopyPtr, Moved
<1>5. /\ RefCountsExact' /\ ref' \in [Slots -> Pointers]
      /\ \A p \in AllObjects : total'[p] \in Nat
  BY <1>1, <1>4, OneSlot, Zenon DEF CopyPtr, Recounted
<1>6. /\ ref'[Part(o)] = NULL
      /\ \A u \in Threads : ref'[Ptr(u)] = ref[Ptr(u)]
      /\ \A u \in Threads, j \in Keys : ref'[Value(u, j)] = ref[Value(u, j)]
      /\ \A p \in Objects : p # o => ref'[Part(p)] = ref[Part(p)]
  BY <1>1, SlotFacts, ZenonT(60) DEF TypeOK, CopyPtr
<1>7. /\ dying'[t] = IF d # NULL /\ total'[d] = 0 THEN d ELSE NULL
      /\ \A u \in Threads : u # t => dying'[u] = dying[u]
      /\ dying' = [dying EXCEPT ![t] = IF d # NULL /\ total'[d] = 0 THEN d ELSE NULL]
  BY <1>1, Zenon DEF CopyPtr, RemovedRef, TypeOK
<1> HIDE DEF o, d
<1>8. /\ \A p \in AllObjects : total'[p] = total[p] - One(p, d)
      /\ total'[o] = 0
  <2>1. NULL \notin AllObjects
    BY ObjectsAssumption, Zenon DEF AllObjects
  <2>2. \A p \in AllObjects : total'[p] = total[p] - One(p, d)
    BY <1>2, <1>4, <2>1 DEF One
  <2>3. o # d
    BY <1>1, <1>3, Zenon
  <2> QED BY <1>1, <1>2, <2>2, <2>3 DEF One
<1>9. dying' \in [Threads -> Objects \union {NULL}]
  BY <1>3, <1>7, Zenon DEF IInv, TypeOK
<1>10. Allocation'
  <2>1. \A p \in AllObjects : total'[p] > 0 => p \in live'
    BY <1>1, <1>2, <1>8 DEF Allocation, One
  <2>2. \A p \in live' \ {gNoValue} : total'[p] > 0 \/ \E u \in Threads : dying'[u] = p
    <3> SUFFICES ASSUME NEW p \in live', p # gNoValue, ~(total'[p] > 0)
                 PROVE  \E u \in Threads : dying'[u] = p
      OBVIOUS
    <3>1. p \in live /\ p # o /\ p \in AllObjects /\ total'[p] = 0 /\ p # NULL
      BY <1>1, <1>5, ObjectsAssumption DEF TypeOK, AllObjects
    <3>2. CASE p = d
      BY <1>7, <3>1, <3>2, Zenon
    <3>3. CASE p # d
      <4>1. total[p] = 0
        BY <1>2, <1>8, <3>1, <3>3 DEF One
      <4>2. PICK u \in Threads : dying[u] = p
        BY <1>1, <3>1, <4>1, Zenon DEF Allocation
      <4>3. u # t
        BY <3>1, <4>2, Zenon DEF o
      <4> QED BY <1>7, <4>2, <4>3, Zenon
    <3> QED BY <3>2, <3>3, Zenon
  <2>3. \A p \in Objects \ live' : ref'[Part(p)] = NULL
    BY <1>1, <1>6, Zenon DEF Allocation
  <2>4. ASSUME NEW u \in Threads, dying'[u] # NULL
        PROVE  dying'[u] \in live' /\ total'[dying'[u]] = 0
    <3>1. CASE u = t
      BY <1>1, <1>3, <1>7, <2>4, <3>1
    <3>2. CASE u # t
      <4>1. /\ dying'[u] = dying[u] /\ dying[u] # o /\ dying[u] \in live
            /\ total[dying[u]] = 0 /\ dying[u] \in AllObjects
        BY <1>1, <1>7, <2>4, <3>2, Zenon DEF Allocation, TypeOK, o
      <4>2. total'[dying[u]] = 0
        <5>1. dying[u] # d
          BY <1>3, <4>1, ObjectsAssumption DEF AllObjects
        <5>2. total'[dying[u]] = total[dying[u]] - One(dying[u], d)
          BY <1>8, <4>1, Zenon
        <5>3. One(dying[u], d) = 0
          BY <5>1, Zenon DEF One
        <5>4. total[dying[u]] = 0
          BY <4>1, Zenon
        <5> QED BY ONLY <5>2, <5>3, <5>4
      <4> QED BY <1>1, <4>1, <4>2, Zenon
    <3> QED BY <3>1, <3>2, Zenon
  <2>5. \A u, w \in Threads : dying'[u] # NULL /\ dying'[u] = dying'[w] => u = w
    <3>1. \A u \in Threads : dying[u] # NULL => total[dying[u]] = 0
      BY <1>1, Zenon DEF Allocation
    <3>2. \A u \in Threads : dying'[t] # NULL => dying[u] # dying'[t]
      BY <1>3, <1>7, <3>1
    <3>3. \A u, w \in Threads : u # t /\ w # t /\ dying[u] # NULL /\ dying[u] = dying[w] => u = w
      BY <1>1, Zenon DEF Allocation
    <3>4. \A u \in Threads : u # t => dying'[u] = dying[u]
      BY <1>7, Zenon
    <3> QED BY <3>2, <3>3, <3>4, Zenon
  <2> QED BY <2>1, <2>2, <2>3, <2>4, <2>5, Zenon DEF Allocation
<1>11. /\ lock' \in Threads \union {NULL} /\ mode' \in {"none", "fetch", "flush", "final", "wipe"}
       /\ raced' \in BOOLEAN
       /\ \/ lock = t /\ mode = "fetch" /\ lock' = NULL /\ mode' = "none"
          \/ UNCHANGED <<lock, mode>>
  BY Zenon DEF Destroy, NoteRace, IInv, TypeOK
<1>12. TypeOK'
  <2>1. total' \in [AllObjects -> Nat]
    BY <1>1, <1>5, Zenon DEF CopyPtr, Moved
  <2>2. live' \subseteq AllObjects
    BY <1>1, Zenon DEF TypeOK
  <2> QED BY <1>1, <1>5, <1>9, <1>11, <2>1, <2>2, Zenon DEF TypeOK, Pointers
<1>13. Locals'
  <2>1. \A p \in Objects : ref'[Part(p)] # gNoValue
    BY <1>6, ObjectsAssumption, Zenon DEF IInv, Locals
  <2>2. UNCHANGED <<pc, status>>
    BY <1>1, Zenon
  <2> QED BY <1>6, <2>1, <2>2, ZenonT(60) DEF IInv, Locals
<1>14. ElementsOK'
  BY <1>1, Zenon DEF IInv, ElementsOK, InProgress
<1>15. WaitersOK'
  BY <1>1, <1>11, Zenon DEF IInv, WaitersOK, InProgress
<1>16. Modes'
  BY <1>1, <1>11, Zenon DEF IInv, Modes, Stopped, Elements
<1>17. Nesting'
  BY <1>1, Zenon DEF IInv, Nesting, Nested, Active
<1>18. ReturnedIsCached'
  BY <1>1, <1>6, Zenon DEF IInv, ReturnedIsCached
<1> QED BY <1>5, <1>10, <1>12, <1>13, <1>14, <1>15, <1>16, <1>17, <1>18, Zenon DEF IInv

\* Every step keeps the invariant.
LEMMA NextInv == IInv /\ [Next]_vars => IInv'
<1> SUFFICES ASSUME Good, [Next]_vars PROVE Good'
  BY Zenon DEF Good
<1>1. CASE UNCHANGED vars
  BY <1>1, Unchanged, Zenon DEF Good
<1>2. ASSUME NEW t \in Threads, Step(t) PROVE Good'
  <2>1. ASSUME NEW k \in Keys, Poll(t, k) PROVE Good'
    BY <2>1, PollInv, Zenon
  <2>2. ASSUME NEW k \in Keys, Create(t, k) PROVE Good'
    BY <2>2, CreateInv, Zenon
  <2>3. ASSUME NEW k \in Keys, CreateNested(t, k) PROVE Good'
    BY <2>3, CreateNestedInv, Zenon
  <2>4. ASSUME NEW k \in Keys, PutIfAbsentAndGet(t, k) PROVE Good'
    BY <2>4, PutIfAbsentAndGetInv, Zenon
  <2>5. ASSUME NEW k \in Keys, ReturnToClient(t, k) PROVE Good'
    BY <2>5, ReturnToClientInv, Zenon
  <2>6. ASSUME NEW k \in Keys, NEW c \in Keys, ReturnToCreate(t, k, c) PROVE Good'
    BY <2>6, ReturnToCreateInv, Zenon
  <2>7. ASSUME NEW k \in Keys, FlushElement(t, k) PROVE Good'
    BY <2>7, FlushElementInv, Zenon
  <2>8. CASE FlushAgain(t) \/ FlushEnds(t)
    BY <2>8, PassInv, Zenon
  <2>9. CASE WipeEnds(t)
    BY <2>9, WipeEndsInv, Zenon
  <2>10. CASE Destroy(t)
    BY <2>10, DestroyInv, Zenon
  <2> QED BY <1>2, <2>1, <2>2, <2>3, <2>4, <2>5, <2>6, <2>7, <2>8, <2>9, <2>10, Zenon
          DEF Step, GetStep, FlushStep
<1>3. ASSUME NEW t \in Threads, Client(t) PROVE Good'
  <2>1. CASE GetInstance(t)
    BY <2>1, GetInstanceInv, Zenon
  <2>2. ASSUME NEW k \in Keys, Get(t, k) PROVE Good'
    BY <2>2, GetInv, Zenon
  <2>3. CASE Release(t)
    BY <2>3, ReleaseInv, Zenon
  <2>4. ASSUME NEW u \in Threads, Share(t, u) PROVE Good'
    BY <2>4, ShareInv, Zenon
  <2>5. CASE Flush(t) \/ Cleanup(t)
    BY <2>5, FlushInv, Zenon
  <2> QED BY <1>3, <2>1, <2>2, <2>3, <2>4, <2>5, Zenon DEF Client
<1>4. ASSUME NEW t \in Threads, SpuriousWakeup(t) PROVE Good'
  BY <1>4, SpuriousWakeupInv, Zenon
<1> QED BY <1>1, <1>2, <1>3, <1>4, Zenon DEF Next

\* The inductive invariant holds in every state of the cache (unifiedcache.cpp),
\* for any threads, keys, dependencies among the keys and number of flushes.
THEOREM IInvHolds == Spec => []IInv
<1>1. Init => IInv
  BY InitInv, Zenon
<1>2. IInv /\ [Next]_vars => IInv'
  BY NextInv, Zenon
<1> QED BY <1>1, <1>2, PTL DEF Spec

\* The counts of every shared object are exact, and in particular never
\* negative, whatever threads do with the cache (addRef, removeRef,
\* addSoftRef and removeSoftRef in sharedobject.cpp).
THEOREM RefCountsHold == Spec => [](TypeOK /\ RefCountsExact)
<1>1. IInv => TypeOK /\ RefCountsExact
  BY Zenon DEF IInv
<1> QED BY <1>1, IInvHolds, PTL

\* No pointer that owns a reference outlives its object (removeRef).
THEOREM NoDanglingPointerHolds == Spec => []NoDanglingPointer
<1>1. IInv => NoDanglingPointer
  <2> SUFFICES ASSUME IInv PROVE NoDanglingPointer
    OBVIOUS
  <2>1. \A o \in AllObjects : total[o] \in Nat /\ soft[o] \in Nat
    BY Zenon DEF IInv, TypeOK
  <2>2. ASSUME NEW s \in Slots, ref[s] # NULL PROVE ref[s] \in live
    <3>1. ref[s] \in AllObjects /\ total[ref[s]] > soft[ref[s]]
      BY <2>2, Counted, Zenon DEF IInv
    <3>2. total[ref[s]] > 0
      BY <2>1, <3>1
    <3> QED BY <3>1, <3>2, Zenon DEF IInv, Allocation
  <2>3. ASSUME NEW k \in Keys, value[k] # NULL PROVE value[k] \in live
    <3>1. /\ value[k] \in AllObjects /\ soft[value[k]] > 0
          /\ total[value[k]] >= soft[value[k]]
      BY <2>3, Counted, Zenon DEF IInv
    <3>2. total[value[k]] > 0
      BY <2>1, <3>1
    <3> QED BY <3>1, <3>2, Zenon DEF IInv, Allocation
  <2> QED BY <2>2, <2>3, Zenon DEF NoDanglingPointer
<1> QED BY <1>1, IInvHolds, PTL

\* Nothing is leaked (removeRef, _put, _flush, createObject that fails).
THEOREM NoLeakHolds == Spec => []NoLeak
<1>1. IInv => NoLeak
  <2> SUFFICES ASSUME IInv, NEW o \in live, o # gNoValue,
                      \A t \in Threads : dying[t] # o
               PROVE  HardRefs(o) # {} \/ SoftRefs(o) # {}
    BY Zenon DEF NoLeak
  <2>1. o \in AllObjects /\ o \in Objects /\ total[o] > 0
    BY Zenon DEF IInv, TypeOK, Allocation, AllObjects
  <2>2. total[o] = soft[o] <=> HardRefs(o) = {}
    BY <2>1, Counted, Zenon DEF IInv
  <2>3. SoftRefs(o) = {} => soft[o] = 0
    BY <2>1, Counted, Zenon DEF IInv
  <2> QED BY <2>1, <2>2, <2>3
<1> QED BY <1>1, IInvHolds, PTL

\* All threads that get the value for a key return the object that is in the
\* cache (_putIfAbsentAndGet and _fetch).
THEOREM ReturnedIsCachedHolds == Spec => []ReturnedIsCached
<1>1. IInv => ReturnedIsCached
  BY Zenon DEF IInv
<1> QED BY <1>1, IInvHolds, PTL

\* Nobody waits on gInProgressValueAddedCond for a value that no thread is
\* going to put (_poll, _put and flush).
THEOREM WaitersHaveCreatorHolds == Spec => []WaitersHaveCreator
<1>1. IInv => WaitersHaveCreator
  <2> SUFFICES ASSUME IInv, NEW t \in waiters, NEW k \in Keys, pc[t][k] = "wait", lock = NULL
               PROVE  /\ InProgress(k)
                      /\ \E u \in Threads : pc[u][k] \in {"create", "nested", "put"}
    BY Zenon DEF WaitersHaveCreator
  <2>1. mode = "none"
    BY Zenon DEF IInv, Modes
  <2>2. InProgress(k)
    BY <2>1, Zenon DEF IInv, WaitersOK
  <2> QED BY <2>2, Zenon DEF IInv, ElementsOK
<1> QED BY <1>1, IInvHolds, PTL

\* Only the destructor of the cache takes a value away from its key while
\* there are pointers to it outside the cache (_flush, allSoftReferences).
THEOREM HeldValuesStayHolds == Spec => HeldValuesStay
<1> DEFINE Stays == \A k \in Keys :
              value[k] \in Objects /\ value'[k] # value[k] /\ mode # "wipe"
                  => HardRefs(value[k]) = {}
<1>1. IInv /\ [Next]_vars => [Stays]_vars
  <2> SUFFICES ASSUME IInv, Next, NEW k \in Keys, value[k] \in Objects,
                      value'[k] # value[k], mode # "wipe"
               PROVE  HardRefs(value[k]) = {}
    OBVIOUS
  <2>1. \A t \in Threads : ~SpuriousWakeup(t) /\ ~Client(t) /\ ~Destroy(t)
    BY Zenon DEF Client, GetInstance, Get, Release, Share, Flush, Cleanup, Destroy,
           SpuriousWakeup, cacheVars
  <2>2. PICK t \in Threads : GetStep(t) \/ FlushStep(t)
    BY <2>1, Zenon DEF Next, Step
  <2>3. value[k] # NULL /\ ~InProgress(k)
    BY ObjectsAssumption, Zenon DEF InProgress
  <2>4. ASSUME NEW j \in Keys
        PROVE  /\ ~Poll(t, j) /\ ~Create(t, j) /\ ~CreateNested(t, j)
               /\ ~PutIfAbsentAndGet(t, j) /\ ~ReturnToClient(t, j)
               /\ \A c \in Keys : ~ReturnToCreate(t, j, c)
    <3>1. ~Create(t, j) /\ ~CreateNested(t, j) /\ ~ReturnToClient(t, j)
      BY Zenon DEF Create, CreateNested, ReturnToClient, cacheVars
    <3>2. \A c \in Keys : ~ReturnToCreate(t, j, c)
      BY Zenon DEF ReturnToCreate, cacheVars
    <3>3. ~Poll(t, j)
      BY <2>3, Zenon DEF Poll, PutNew, cacheVars, IInv, TypeOK
    <3>4. ~PutIfAbsentAndGet(t, j)
      BY <2>3, Zenon DEF PutIfAbsentAndGet, PutNew, cacheVars, IInv, TypeOK
    <3> QED BY <3>1, <3>2, <3>3, <3>4, Zenon
  <2>5. ~FlushAgain(t) /\ ~FlushEnds(t) /\ ~WipeEnds(t)
    BY Zenon DEF FlushAgain, FlushEnds, WipeEnds, cacheVars
  <2>6. PICK j \in Keys : FlushElement(t, j)
    BY <2>2, <2>4, <2>5, Zenon DEF GetStep, FlushStep
  <2>7. j = k /\ AllSoftReferences(value[k])
    BY <2>6, Zenon DEF FlushElement, IInv, TypeOK
  <2>8. total[value[k]] = soft[value[k]] /\ value[k] \in AllObjects
    BY <2>7, Zenon DEF AllSoftReferences, AllObjects
  <2> QED BY <2>8, Counted, Zenon DEF IInv
<1>2. HeldValuesStay <=> [][Stays]_vars
  BY PTL DEF HeldValuesStay
<1> QED BY <1>1, <1>2, IInvHolds, PTL DEF Spec
=============================================================================
