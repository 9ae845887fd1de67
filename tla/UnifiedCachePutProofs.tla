------------------------ MODULE UnifiedCachePutProofs -----------------------
(***************************************************************************)
(* Proofs about UnifiedCache, part 2: storing the value and returning it   *)
(* preserve the inductive invariant IInv.                                  *)
(***************************************************************************)
EXTENDS UnifiedCacheGetProofs


\* _putIfAbsentAndGet() keeps the invariant, in each of its four outcomes.
LEMMA PutIfAbsentAndGetInv ==
    ASSUME Good, NEW t \in Threads, NEW k \in Keys, PutIfAbsentAndGet(t, k) PROVE Good'
<1> SUFFICES ASSUME IInv PROVE IInv'
  BY Zenon DEF Good
<1> USE DEF cacheVars
<1> DEFINE v == ref[Value(t, k)]
<1>1. /\ lock = NULL /\ mode = "none" /\ up /\ dying[t] = NULL /\ pc[t][k] = "put"
      /\ v # NULL /\ v \in AllObjects /\ (status[t][k] = FAILURE <=> v \notin Objects)
      /\ total[v] > soft[v] /\ Value(t, k) \in Slots
  <2>1. lock = NULL /\ dying[t] = NULL /\ pc[t][k] = "put"
    BY Zenon DEF PutIfAbsentAndGet, Goto
  <2>2. mode = "none" /\ up /\ Value(t, k) \in Slots
    BY <2>1, SlotFacts, Zenon DEF IInv, Modes
  <2>3. v # NULL /\ (status[t][k] = FAILURE <=> v \notin Objects)
    BY <2>1, Zenon DEF IInv, Locals
  <2> QED BY <2>1, <2>2, <2>3, Counted, Zenon DEF IInv
<1>2. /\ NULL \in Pointers /\ gNoValue \in Pointers /\ v \in Pointers
      /\ NULL \notin AllObjects /\ gNoValue \in AllObjects /\ gNoValue \notin Objects
  BY <1>1, ObjectsAssumption, Zenon DEF Pointers, AllObjects
<1>3. TypeOK /\ RefCountsExact /\ Allocation
  BY Zenon DEF IInv
<1>4. /\ \A o \in AllObjects : total[o] \in Nat /\ soft[o] \in Nat
      /\ live \subseteq AllObjects /\ soft[gNoValue] > 0
  BY <1>1, Counted, Zenon DEF IInv, TypeOK
<1> HIDE DEF v
<1>5. ASSUME value[k] # NULL, ~InProgress(k), Goto(t, k, "put", "fetched"),
             CopyPtr(t, Value(t, k), value[k]),
             status' = [status EXCEPT ![t][k] = creationStatus[k]],
             IF dying'[t] # NULL THEN lock' = t /\ mode' = "fetch"
                                 ELSE UNCHANGED <<lock, mode>>,
             UNCHANGED <<cacheVars, live, todo, flushed, flushes, up, raced>>
      PROVE  IInv'
  <2>1. value[k] \in AllObjects /\ value[k] \in Pointers /\ total[value[k]] > 0
    BY <1>4, <1>5, Counted DEF IInv, Pointers
  <2>2. \A o \in AllObjects : total'[o] = total[o] + One(o, value[k]) - One(o, v)
    BY <1>5, Zenon DEF CopyPtr, Moved, v
  <2>3. /\ RefCountsExact' /\ ref' \in [Slots -> Pointers]
        /\ \A o \in AllObjects : total'[o] \in Nat
    BY <1>1, <1>3, <1>5, <2>1, <2>2, OneSlot, Zenon DEF Recounted, CopyPtr, v
  <2>4. Allocation' /\ dying' \in [Threads -> Objects \union {NULL}]
    <3>1. RemovedRef(t, v) /\ live' = live
      BY <1>5, Zenon DEF CopyPtr, v
    <3>2. total[v] > 0
      BY <1>1, <1>4
    <3>3. v = gNoValue => total'[gNoValue] > 0
      BY <1>1, <1>2, <1>4, <2>2 DEF One
    <3>4. \A o \in AllObjects : total'[o] > 0 => total[o] > 0 \/ o \in live' \ live
      BY <1>4, <2>1, <2>2 DEF One
    <3>5. \A o \in AllObjects : total[o] > 0 /\ o # v => total'[o] > 0
      BY <1>4, <2>2 DEF One
    <3>6. \A o \in Objects : ref'[Part(o)] = ref[Part(o)]
      BY <1>1, <1>5, SlotFacts DEF IInv, TypeOK, CopyPtr
    <3>7. \A o \in Objects \ live' : ref'[Part(o)] = NULL
      BY <3>1, <3>6, Zenon DEF IInv, Allocation
    <3> QED BY <1>1, <1>2, <1>3, <1>4, <2>3, <3>1, <3>2, <3>3, <3>4, <3>5, <3>7, AllocationStep, Zenon
  <2>5. TypeOK'
    <3>1. total' \in [AllObjects -> Nat]
      BY <1>5, <2>3, Zenon DEF CopyPtr, Moved
    <3>2. lock' \in Threads \union {NULL} /\ mode' \in {"none", "fetch", "flush", "final", "wipe"}
      BY <1>5, Zenon DEF IInv, TypeOK
    <3>3. /\ pc' \in [Threads -> [Keys -> {"out", "poll", "wait", "create", "nested",
                                           "put", "fetched", "uncached", "done"}]]
          /\ status' \in [Threads -> [Keys -> Statuses]]
      BY <1>5, Zenon DEF IInv, TypeOK, Goto
    <3> QED BY <1>5, <2>3, <2>4, <3>1, <3>2, <3>3, Zenon DEF IInv, TypeOK, Pointers
  <2>6. /\ pc'[t][k] = "fetched" /\ status'[t][k] = creationStatus[k]
        /\ \A u \in Threads, j \in Keys :
             u # t \/ j # k => pc'[u][j] = pc[u][j] /\ status'[u][j] = status[u][j]
    BY <1>5, Zenon DEF IInv, TypeOK, Goto
  <2>7. /\ ref'[Value(t, k)] = value[k]
        /\ \A u \in Threads, j \in Keys :
             u # t \/ j # k => ref'[Value(u, j)] = ref[Value(u, j)]
        /\ \A u \in Threads : ref'[Ptr(u)] = ref[Ptr(u)]
        /\ \A o \in Objects : ref'[Part(o)] = ref[Part(o)]
    BY <1>1, <1>5, SlotFacts DEF IInv, TypeOK, CopyPtr
  <2>8. Locals'
    <3>1. value[k] = gNoValue => creationStatus[k] = FAILURE
      BY <1>5, Zenon DEF IInv, ElementsOK, InProgress
    <3>2. value[k] \in Objects => creationStatus[k] # FAILURE
      BY Zenon DEF IInv, ElementsOK, Successes, FAILURE, ZERO
    <3>3. value[k] # gNoValue => value[k] \in Objects
      BY <2>1, Zenon DEF AllObjects
    <3>4. ASSUME NEW u \in Threads, NEW j \in Keys
          PROVE  /\ ref'[Value(u, j)] # NULL <=> pc'[u][j] \in {"put", "fetched", "uncached"}
                 /\ pc'[u][j] \in {"put", "fetched", "uncached", "done"}
                       => (status'[u][j] = FAILURE <=> ref'[Value(u, j)] \notin Objects)
      BY <1>2, <1>5, <2>6, <2>7, <3>1, <3>2, <3>3 DEF IInv, Locals
    <3> QED BY <2>7, <3>4, Zenon DEF IInv, Locals
  <2>9. ElementsOK'
    BY <1>5, <2>6, Zenon DEF IInv, ElementsOK, InProgress
  <2>10. WaitersOK'
    <3>1. \A u \in waiters, j \in Keys : pc[u][j] = "wait" => InProgress(j)
      BY <1>1, Zenon DEF IInv, WaitersOK
    <3>2. waiters' = waiters /\ waiters \subseteq Threads
      BY <1>5, Zenon DEF IInv, TypeOK
    <3>3. \A j \in Keys : InProgress(j) => InProgress(j)'
      BY <1>5, Zenon DEF InProgress
    <3>4. \A u \in Threads, j \in Keys : pc'[u][j] = "wait" => pc[u][j] = "wait"
      BY <2>6, Zenon
    <3> QED BY <3>1, <3>2, <3>3, <3>4, Zenon DEF WaitersOK
  <2>11. Modes'
    BY <1>1, <1>5, <2>6, ObjectsAssumption, Zenon DEF IInv, Modes, Stopped, Elements
  <2>12. Nesting'
    BY <1>1, <2>6 DEF IInv, Nesting, Nested, Active
  <2>13. ReturnedIsCached'
    BY <1>5, <2>6, <2>7 DEF IInv, ReturnedIsCached
  <2> QED BY <2>3, <2>4, <2>5, <2>8, <2>9, <2>10, <2>11, <2>12, <2>13, Zenon DEF IInv
<1>6. ASSUME value[k] = NULL \/ InProgress(k), Goto(t, k, "put", "fetched"),
             value' = [value EXCEPT ![k] = v],
             creationStatus' = [creationStatus EXCEPT ![k] = status[t][k]],
             total' = Moved(total, value[k], v), soft' = Moved(soft, value[k], v),
             (waiters' = waiters /\ value[k] = NULL) \/ waiters' = {},
             UNCHANGED <<ref, status, dying, lock, mode,
                         live, todo, flushed, flushes, up, raced>>
      PROVE  IInv'
  <2>1. /\ RefCountsExact' /\ value' \in [Keys -> Pointers]
        /\ total' \in [AllObjects -> Nat] /\ soft' \in [AllObjects -> Nat]
    BY <1>2, <1>3, <1>6, OneElement, Zenon
  <2>2. TypeOK'
    BY <1>6, <2>1 DEF IInv, TypeOK, Goto, Pointers
  <2>3. Allocation'
    <3>1. RemovedRef(t, NULL) /\ live' = live
      BY <1>1, <1>6, Zenon DEF IInv, TypeOK, RemovedRef
    <3>2. \A o \in AllObjects : total'[o] = total[o] + One(o, v) - One(o, value[k])
      BY <1>6, Zenon DEF Moved
    <3>3. value[k] = NULL \/ (value[k] = gNoValue /\ total[gNoValue] > 1)
      BY <1>1, <1>2, <1>4, <1>6, Counted DEF IInv, InProgress
    <3>4. total[v] > 0
      BY <1>1, <1>4
    <3>5. \A o \in AllObjects : total'[o] > 0 => total[o] > 0 \/ o \in live' \ live
      BY <1>4, <3>2, <3>3, <3>4 DEF One
    <3>6. \A o \in AllObjects : total[o] > 0 /\ o # NULL => total'[o] > 0
      BY <1>2, <1>4, <3>2, <3>3 DEF One
    <3>7. \A o \in Objects \ live' : ref'[Part(o)] = NULL
      BY <1>6, Zenon DEF IInv, Allocation
    <3>8. NULL # gNoValue /\ \A o \in AllObjects : total'[o] \in Nat
      BY <1>2, <2>1, Zenon
    <3> QED BY <1>1, <1>2, <1>3, <1>4, <3>1, <3>5, <3>6, <3>7, <3>8, AllocationStep, Zenon
  <2>4. /\ pc'[t][k] = "fetched"
        /\ \A u \in Threads, j \in Keys : u # t \/ j # k => pc'[u][j] = pc[u][j]
    BY <1>6, Zenon DEF IInv, TypeOK, Goto
  <2>5. Locals'
    BY <1>1, <1>6, <2>4 DEF IInv, Locals
  <2>6. /\ value'[k] = v /\ creationStatus'[k] = status[t][k]
        /\ \A j \in Keys : j # k => /\ value'[j] = value[j]
                                    /\ creationStatus'[j] = creationStatus[j]
    BY <1>6, Zenon DEF IInv, TypeOK
  <2>7. ElementsOK'
    <3>1. v \in Objects => status[t][k] \in Successes
      BY <1>1 DEF IInv, TypeOK, Statuses
    <3>2. v \notin Objects => v = gNoValue /\ status[t][k] = FAILURE
      BY <1>1, Zenon DEF AllObjects
    <3>3. FAILURE # ZERO
      BY Zenon DEF FAILURE, ZERO
    <3>4. \A u \in Threads, j \in Keys : j # k => pc'[u][j] = pc[u][j]
      BY <2>4, Zenon
    <3>5. ASSUME NEW j \in Keys
          PROVE  /\ value'[j] \in Objects => creationStatus'[j] \in Successes
                 /\ value'[j] = gNoValue => creationStatus'[j] \in {ZERO, FAILURE}
                 /\ InProgress(j)' =>
                      \E u \in Threads : pc'[u][j] \in {"create", "nested", "put"}
      <4>1. CASE j = k
        BY <1>2, <2>6, <3>1, <3>2, <3>3, <4>1, Zenon DEF InProgress
      <4>2. CASE j # k
        BY <2>6, <3>4, <4>2, Zenon DEF IInv, ElementsOK, InProgress
      <4> QED BY <4>1, <4>2, Zenon
    <3> QED BY <3>5, Zenon DEF ElementsOK
  <2>8. WaitersOK'
    <3>1. CASE waiters' = {}
      BY <3>1, Zenon DEF WaitersOK
    <3>2. CASE waiters' = waiters /\ value[k] = NULL
      <4>1. ~InProgress(k)
        BY <3>2, ObjectsAssumption, Zenon DEF InProgress
      <4>2. \A j \in Keys : j # k => InProgress(j)' = InProgress(j)
        BY <2>6, Zenon DEF InProgress
      <4> QED BY <1>1, <2>4, <3>2, <4>1, <4>2, SMTT(60) DEF IInv, TypeOK, WaitersOK
    <3> QED BY <1>6, <3>1, <3>2, Zenon
  <2>9. Modes'
    BY <1>1, <1>6, <2>4, Zenon DEF IInv, Modes, Stopped, Elements
  <2>10. Nesting'
    BY <1>1, <2>4 DEF IInv, Nesting, Nested, Active
  <2>11. ReturnedIsCached'
    <3> SUFFICES ASSUME NEW u \in Threads, NEW j \in Keys, pc'[u][j] = "fetched",
                        ref'[Value(u, j)] # gNoValue
                 PROVE  value'[j] = ref'[Value(u, j)]
      BY Zenon DEF ReturnedIsCached
    <3>1. CASE u = t /\ j = k
      BY <1>6, <2>6, <3>1, Zenon DEF v
    <3>2. CASE u # t \/ j # k
      <4>1. pc[u][j] = "fetched" /\ ref[Value(u, j)] # NULL /\ value[j] = ref[Value(u, j)]
        BY <1>6, <2>4, <3>2, ZenonT(60) DEF IInv, ReturnedIsCached, Locals
      <4>2. j # k
        BY <1>6, <4>1, Zenon DEF InProgress
      <4> QED BY <1>6, <2>6, <4>1, <4>2, Zenon
    <3> QED BY <3>1, <3>2, Zenon
  <2> QED BY <2>1, <2>2, <2>3, <2>5, <2>7, <2>8, <2>9, <2>10, <2>11, Zenon DEF IInv
<1>7. ASSUME value[k] = NULL, Goto(t, k, "put", "uncached"),
             UNCHANGED <<cacheVars, total, ref, status, dying, lock, mode,
                         live, todo, flushed, flushes, up, raced>>
      PROVE  IInv'
  <2>1. TypeOK'
    BY <1>7, Zenon DEF IInv, TypeOK, Goto
  <2>2. /\ pc'[t][k] = "uncached"
        /\ \A u \in Threads, j \in Keys : u # t \/ j # k => pc'[u][j] = pc[u][j]
    BY <1>7, Zenon DEF IInv, TypeOK, Goto
  <2>3. RefCountsExact'
    BY <1>7, Zenon DEF IInv, RefCountsExact, HardRefs, SoftRefs
  <2>4. Allocation'
    BY <1>7, Zenon DEF IInv, Allocation
  <2>5. Locals'
    BY <1>1, <1>7, <2>2 DEF IInv, Locals
  <2>6. ElementsOK'
    BY <1>2, <1>7, <2>2, Zenon DEF IInv, ElementsOK, InProgress
  <2>7. WaitersOK'
    BY <1>7, <2>2, Zenon DEF IInv, TypeOK, WaitersOK, InProgress
  <2>8. Modes'
    BY <1>1, <1>7, <2>2, Zenon DEF IInv, Modes, Stopped, Elements
  <2>9. Nesting'
    BY <1>1, <2>2 DEF IInv, Nesting, Nested, Active
  <2>10. ReturnedIsCached'
    BY <1>7, <2>2, ZenonT(60) DEF IInv, ReturnedIsCached
  <2> QED BY <2>1, <2>3, <2>4, <2>5, <2>6, <2>7, <2>8, <2>9, <2>10, Zenon DEF IInv
<1> QED BY <1>5, <1>6, <1>7, Zenon DEF PutIfAbsentAndGet, PutNew, Broadcast, v, InProgress

\* What a returning _get() has: an object and success, or gNoValue or nothing
\* and a failure.
LEMMA ReturnFacts ==
    ASSUME IInv, NEW t \in Threads, NEW k \in Keys, Returning(t, k)
    PROVE  LET v == ref[Value(t, k)] IN
           /\ dying[t] = NULL /\ pc[t][k] \in {"fetched", "uncached", "done"}
           /\ up /\ ~Stopped /\ Value(t, k) \in Slots /\ Ptr(t) \in Slots
           /\ v \in Pointers /\ (v # NULL => v \in AllObjects /\ total[v] > 0)
           /\ status[t][k] \in Statuses
           /\ status[t][k] # FAILURE => v \in Objects
           /\ status[t][k] = FAILURE => v \in {NULL, gNoValue}
           /\ v = gNoValue => total[gNoValue] > 1
<1> DEFINE v == ref[Value(t, k)]
<1>1. dying[t] = NULL /\ pc[t][k] \in {"fetched", "uncached", "done"}
  BY Zenon DEF Returning
<1>2. up /\ ~Stopped /\ Value(t, k) \in Slots /\ Ptr(t) \in Slots
  BY <1>1, SlotFacts, Zenon DEF IInv, Modes
<1>3. v \in Pointers /\ status[t][k] \in Statuses
  BY <1>2, Zenon DEF IInv, TypeOK, Pointers
<1>4. status[t][k] = FAILURE <=> v \notin Objects
  BY <1>1, Zenon DEF IInv, Locals
<1>5. v # NULL => v \in AllObjects /\ total[v] > soft[v]
  BY <1>2, Counted, Zenon DEF IInv
<1>6. \A o \in AllObjects : total[o] \in Nat /\ soft[o] \in Nat
  BY Zenon DEF IInv, TypeOK
<1>7. soft[gNoValue] > 0 /\ gNoValue \in AllObjects /\ gNoValue # NULL
  BY <1>2, Counted, ObjectsAssumption, Zenon DEF IInv, AllObjects
<1> HIDE DEF v
<1>8. v # NULL => total[v] > 0
  BY <1>5, <1>6
<1>9. v = gNoValue => total[gNoValue] > 1
  BY <1>5, <1>6, <1>7
<1>10. v \in Pointers /\ v \notin Objects => v \in {NULL, gNoValue}
  BY Zenon DEF Pointers, AllObjects
<1> QED BY <1>1, <1>2, <1>3, <1>4, <1>5, <1>8, <1>9, <1>10, Zenon DEF v

\* The end of get(), for a client, keeps the invariant.
LEMMA ReturnToClientInv ==
    ASSUME Good, NEW t \in Threads, NEW k \in Keys, ReturnToClient(t, k) PROVE Good'
<1> SUFFICES ASSUME IInv PROVE IInv'
  BY Zenon DEF Good
<1> USE DEF cacheVars, flushVars
<1> DEFINE v == ref[Value(t, k)]
           d == IF status[t][k] = FAILURE THEN v ELSE ref[Ptr(t)]
<1>1. /\ dying[t] = NULL /\ pc[t][k] \in {"fetched", "uncached", "done"}
      /\ up /\ ~Stopped /\ Value(t, k) \in Slots /\ Ptr(t) \in Slots
      /\ v \in Pointers /\ (v # NULL => v \in AllObjects /\ total[v] > 0)
      /\ status[t][k] \in Statuses
      /\ status[t][k] # FAILURE => v \in Objects
      /\ status[t][k] = FAILURE => v \in {NULL, gNoValue}
      /\ v = gNoValue => total[gNoValue] > 1
  BY ReturnFacts, Zenon DEF ReturnToClient
<1>2. /\ NULL \in Pointers /\ NULL \notin AllObjects
      /\ gNoValue \in AllObjects /\ gNoValue \notin Objects /\ Objects \subseteq AllObjects
  BY ObjectsAssumption, Zenon DEF Pointers, AllObjects
<1>3. TypeOK /\ RefCountsExact /\ Allocation
  BY Zenon DEF IInv
<1>4. /\ pc' = [pc EXCEPT ![t][k] = "out"]
      /\ status' = [status EXCEPT ![t][k] = ZERO]
      /\ UNCHANGED <<cacheVars, flushVars, live>>
  BY Zenon DEF ReturnToClient
<1>5. \A o \in AllObjects : total[o] \in Nat
  BY Zenon DEF IInv, TypeOK
<1> HIDE DEF v, d
<1>6. /\ RefCountsExact' /\ ref' \in [Slots -> Pointers]
      /\ total' \in [AllObjects -> Nat]
      /\ ref'[Value(t, k)] = NULL
      /\ ref'[Ptr(t)] = IF status[t][k] = FAILURE THEN ref[Ptr(t)] ELSE v
      /\ \A s \in Slots : s # Value(t, k) /\ s # Ptr(t) => ref'[s] = ref[s]
      /\ RemovedRef(t, d)
      /\ d \in Pointers /\ (d # NULL => total[d] > 0)
      /\ d = gNoValue => total[gNoValue] > 1
      /\ \A o \in AllObjects : total'[o] = total[o] - One(o, d)
  <2>1. CASE status[t][k] \in Successes
    <3>1. status[t][k] # FAILURE /\ v \in Objects
      BY <1>1, <2>1, Zenon DEF Successes, FAILURE, ZERO
    <3>2. d = ref[Ptr(t)]
      BY <3>1, Zenon DEF d
    <3>3. /\ ref' = [ref EXCEPT ![Ptr(t)] = v, ![Value(t, k)] = NULL]
          /\ total' = Moved(total, d, NULL)
          /\ RemovedRef(t, d)
      BY <2>1, <3>2, Zenon DEF ReturnToClient, v
    <3> DEFINE r == [ref EXCEPT ![Ptr(t)] = v]
               c == Moved(total, d, v)
    <3>4. r[Value(t, k)] = v /\ Ptr(t) # Value(t, k)
      BY <1>1, SlotFacts, Zenon DEF IInv, TypeOK, v
    <3>5. Recounted(total, c, ref[Ptr(t)], v)
      BY <3>2, Zenon DEF Recounted, Moved
    <3>6. \A o \in AllObjects : /\ c[o] = total[o] + One(o, v) - One(o, d)
                                /\ total'[o] = total[o] + One(o, NULL) - One(o, d)
      BY <3>3, Zenon DEF Moved
    <3> HIDE DEF c
    <3>7. Recounted(c, total', r[Value(t, k)], NULL)
      BY <1>5, <3>4, <3>6 DEF Recounted, One
    <3>8. /\ Redirected(ref, r, Slots, Ptr(t), v)
          /\ Redirected(r, ref', Slots, Value(t, k), NULL)
      BY <1>1, <1>2, <3>3, Zenon DEF IInv, TypeOK, Redirected, Pointers
    <3>9. UNCHANGED <<value, soft, up>>
      BY <1>4, Zenon
    <3> HIDE DEF r
    <3>11. /\ RefCountsExact' /\ ref' \in [Slots -> Pointers]
           /\ \A o \in AllObjects : total'[o] \in Nat
      BY <1>3, <3>5, <3>7, <3>8, <3>9, TwoSlots, Zenon
    <3>12. total' \in [AllObjects -> Nat]
      BY <3>3, <3>11, Zenon DEF Moved
    <3>13. /\ ref'[Value(t, k)] = NULL /\ ref'[Ptr(t)] = v
           /\ \A s \in Slots : s # Value(t, k) /\ s # Ptr(t) => ref'[s] = ref[s]
      BY <1>1, <3>3, <3>4, Zenon DEF IInv, TypeOK
    <3>14. d \in Pointers /\ d # gNoValue /\ (d # NULL => total[d] > 0)
      <4>1. d \in Pointers /\ d # gNoValue
        BY <1>1, <3>2, Zenon DEF IInv, TypeOK, Locals, Pointers
      <4>2. d # NULL => d \in AllObjects /\ total[d] > soft[d] /\ soft[d] \in Nat
        BY <1>1, <3>2, Counted, Zenon DEF IInv, TypeOK
      <4> QED BY <1>5, <4>1, <4>2
    <3>15. \A o \in AllObjects : total'[o] = total[o] - One(o, d)
      BY <1>2, <1>5, <3>6 DEF One
    <3> QED BY <3>1, <3>3, <3>11, <3>12, <3>13, <3>14, <3>15, Zenon
  <2>2. CASE status[t][k] \notin Successes
    <3>1. status[t][k] = FAILURE
      BY <1>1, <2>2, Zenon DEF Statuses
    <3>2. d = v
      BY <3>1, Zenon DEF d
    <3>3. CopyPtr(t, Value(t, k), NULL)
      BY <2>2, Zenon DEF ReturnToClient
    <3>4. Recounted(total, total', ref[Value(t, k)], NULL)
      BY <3>3, Zenon DEF CopyPtr, Moved, Recounted
    <3>5. UNCHANGED <<value, soft, up>>
      BY <1>4, Zenon
    <3>6. /\ RefCountsExact' /\ ref' \in [Slots -> Pointers]
          /\ \A o \in AllObjects : total'[o] \in Nat
      BY <1>1, <1>2, <1>3, <3>3, <3>4, <3>5, OneSlot, Zenon DEF CopyPtr
    <3>7. total' \in [AllObjects -> Nat]
      BY <3>3, <3>6, Zenon DEF CopyPtr, Moved
    <3>8. /\ ref'[Value(t, k)] = NULL
          /\ \A s \in Slots : s # Value(t, k) => ref'[s] = ref[s]
      BY <1>1, <3>3, Zenon DEF IInv, TypeOK, CopyPtr
    <3>9. ref'[Ptr(t)] = ref[Ptr(t)]
      BY <1>1, <3>8, SlotFacts
    <3>10. RemovedRef(t, d) /\ \A o \in AllObjects : total'[o] = total[o] + One(o, NULL) - One(o, d)
      BY <3>2, <3>3, Zenon DEF CopyPtr, Moved, v
    <3>11. \A o \in AllObjects : total'[o] = total[o] - One(o, d)
      BY <1>2, <1>5, <3>10 DEF One
    <3> QED BY <1>1, <3>1, <3>2, <3>6, <3>7, <3>8, <3>9, <3>10, <3>11, Zenon
  <2> QED BY <2>1, <2>2, Zenon
<1>7. Allocation' /\ dying' \in [Threads -> Objects \union {NULL}]
  <2>1. d = gNoValue => total'[gNoValue] > 0
    BY <1>2, <1>5, <1>6 DEF One
  <2>2. \A o \in AllObjects : total'[o] > 0 => total[o] > 0 \/ o \in live' \ live
    BY <1>5, <1>6 DEF One
  <2>3. \A o \in AllObjects : total[o] > 0 /\ o # d => total'[o] > 0
    BY <1>5, <1>6 DEF One
  <2>4. live' = live /\ live \subseteq AllObjects
    BY <1>4, Zenon DEF IInv, TypeOK
  <2>5. \A o \in Objects \ live' : ref'[Part(o)] = NULL
    BY <1>6, <2>4, SlotFacts, ZenonT(60) DEF IInv, Allocation
  <2>6. \A o \in AllObjects : total'[o] \in Nat
    BY <1>6, Zenon
  <2> QED BY <1>1, <1>3, <1>6, <2>1, <2>2, <2>3, <2>4, <2>5, <2>6, AllocationStep, Zenon
<1>8. raced' \in BOOLEAN
  BY Zenon DEF ReturnToClient, NoteRace, IInv, TypeOK
<1>9. TypeOK'
  BY <1>4, <1>6, <1>7, <1>8, Zenon DEF IInv, TypeOK, Pointers, Statuses, Successes
<1>10. /\ pc'[t][k] = "out"
       /\ \A u \in Threads, j \in Keys :
            u # t \/ j # k => /\ pc'[u][j] = pc[u][j] /\ status'[u][j] = status[u][j]
                              /\ ref'[Value(u, j)] = ref[Value(u, j)]
       /\ \A o \in Objects : ref'[Part(o)] = ref[Part(o)]
       /\ \A u \in Threads : u # t => ref'[Ptr(u)] = ref[Ptr(u)]
  <2>1. /\ pc'[t][k] = "out"
        /\ \A u \in Threads, j \in Keys :
             u # t \/ j # k => pc'[u][j] = pc[u][j] /\ status'[u][j] = status[u][j]
    BY <1>4, Zenon DEF IInv, TypeOK
  <2>2. /\ \A u \in Threads, j \in Keys :
             u # t \/ j # k => ref'[Value(u, j)] = ref[Value(u, j)]
        /\ \A o \in Objects : ref'[Part(o)] = ref[Part(o)]
        /\ \A u \in Threads : u # t => ref'[Ptr(u)] = ref[Ptr(u)]
    BY <1>6, SlotFacts
  <2> QED BY <2>1, <2>2, Zenon
<1>11. Locals'
  <2>1. \A u \in Threads, j \in Keys :
          /\ ref'[Value(u, j)] # NULL <=> pc'[u][j] \in {"put", "fetched", "uncached"}
          /\ pc'[u][j] \in {"put", "fetched", "uncached", "done"}
                => (status'[u][j] = FAILURE <=> ref'[Value(u, j)] \notin Objects)
    BY <1>6, <1>10 DEF IInv, Locals
  <2>2. \A u \in Threads : ref'[Ptr(u)] # gNoValue
    BY <1>1, <1>2, <1>6, <1>10, SMTT(20) DEF IInv, Locals
  <2> QED BY <1>10, <2>1, <2>2, ZenonT(60) DEF IInv, Locals
<1>12. ElementsOK'
  BY <1>1, <1>4, <1>10, SMTT(20) DEF IInv, ElementsOK, InProgress
<1>13. WaitersOK'
  BY <1>4, <1>10 DEF IInv, TypeOK, WaitersOK, InProgress
<1>14. Modes'
  BY <1>1, <1>4, <1>10, Zenon DEF IInv, Modes, Stopped, Elements
<1>15. Nesting'
  BY <1>1, <1>10 DEF IInv, Nesting, Nested, Active
<1>16. ReturnedIsCached'
  BY <1>4, <1>10 DEF IInv, ReturnedIsCached
<1> QED BY <1>6, <1>7, <1>9, <1>11, <1>12, <1>13, <1>14, <1>15, <1>16, Zenon DEF IInv

\* The end of get(), for a createObject(), and the rest of that createObject()
\* keep the invariant, whatever it does with the object it got.
LEMMA ReturnToCreateInv ==
    ASSUME Good, NEW t \in Threads, NEW k \in Keys, NEW c \in Keys,
           ReturnToCreate(t, k, c)
    PROVE  Good'
<1> SUFFICES ASSUME IInv PROVE IInv'
  BY Zenon DEF Good
<1> USE DEF cacheVars, flushVars
<1> DEFINE v == ref[Value(t, k)]
           base == [ref EXCEPT ![Value(t, k)] = NULL]
           st == [status EXCEPT ![t][k] = ZERO]
           w == ref'[Value(t, c)]
<1>1. /\ dying[t] = NULL /\ pc[t][k] \in {"fetched", "uncached", "done"}
      /\ up /\ ~Stopped /\ Value(t, k) \in Slots /\ Ptr(t) \in Slots
      /\ v \in Pointers /\ (v # NULL => v \in AllObjects /\ total[v] > 0)
      /\ status[t][k] \in Statuses
      /\ status[t][k] # FAILURE => v \in Objects
      /\ status[t][k] = FAILURE => v \in {NULL, gNoValue}
      /\ v = gNoValue => total[gNoValue] > 1
  BY ReturnFacts, Zenon DEF ReturnToCreate
<1>2. /\ NULL \in Pointers /\ NULL \notin AllObjects /\ gNoValue \in Pointers
      /\ gNoValue \in AllObjects /\ gNoValue \notin Objects /\ Objects \subseteq AllObjects
  BY ObjectsAssumption, Zenon DEF Pointers, AllObjects
<1>3. TypeOK /\ RefCountsExact /\ Allocation
  BY Zenon DEF IInv
<1>4. /\ pc' = [pc EXCEPT ![t][k] = "out", ![t][c] = "put"]
      /\ pc[t][c] = "nested" /\ Parent[c] = k /\ c # k
      /\ RemovedRef(t, v)
      /\ UNCHANGED <<cacheVars, flushVars>>
  BY <1>1, Zenon DEF ReturnToCreate, Caller
<1>5. \A o \in AllObjects : total[o] \in Nat
  BY Zenon DEF IInv, TypeOK
<1>6. /\ Value(t, c) \in Slots /\ Value(t, c) # Value(t, k) /\ ref[Value(t, c)] = NULL
  BY <1>4, SlotFacts DEF IInv, Locals
<1>7. gNoValue \in live /\ total[gNoValue] > 0
  <2>1. total[gNoValue] > 0
    BY <1>1, <1>2, Counted DEF IInv, TypeOK
  <2> QED BY <1>2, <2>1, Zenon DEF IInv, Allocation
<1>8. Redirected(ref, base, Slots, Value(t, k), NULL) /\ base[Value(t, c)] = NULL
      /\ \A s \in Slots : s # Value(t, k) => base[s] = ref[s]
      /\ base[Value(t, k)] = NULL
  BY <1>1, <1>2, <1>6, Zenon DEF IInv, TypeOK, Redirected, Pointers
<1>9. /\ st \in [Threads -> [Keys -> Statuses]]
      /\ \A u \in Threads, j \in Keys : u # t \/ j # k => st[u][j] = status[u][j]
  BY Zenon DEF IInv, TypeOK, Statuses, Successes
<1> HIDE DEF v, base, st, w
\* What every outcome of createObject() for c has in common.
<1> DEFINE Result ==
      /\ RefCountsExact' /\ ref' \in [Slots -> Pointers]
      /\ total' \in [AllObjects -> Nat]
      /\ status' \in [Threads -> [Keys -> Statuses]]
      /\ live \subseteq live' /\ live' \subseteq AllObjects
      /\ w \in AllObjects /\ (status'[t][c] = FAILURE <=> w \notin Objects)
      /\ \A u \in Threads, j \in Keys :
           u # t \/ (j # k /\ j # c) => status'[u][j] = status[u][j]
      /\ ref'[Value(t, k)] = NULL
      /\ \A s \in Slots : \/ s \in {Value(t, k), Value(t, c)}
                          \/ ref'[s] = ref[s]
                          \/ /\ ref'[s] = v /\ status[t][k] # FAILURE
                             /\ \E o \in live' : s = Part(o)
      /\ \A o \in AllObjects : total[o] > 0 /\ o # v => total'[o] > 0
      /\ \A o \in AllObjects : total'[o] > 0 => total[o] > 0 \/ o \in live' \ live
      /\ \A o \in live' \ live : total'[o] > 0
      /\ v = gNoValue => total'[gNoValue] > 0
<1>10. ASSUME CreateFails(t, c, base, st, v) PROVE Result
  <2>1. /\ ref' = [base EXCEPT ![Value(t, c)] = gNoValue]
        /\ total' = Moved(total, v, gNoValue)
        /\ status' = [st EXCEPT ![t][c] = FAILURE]
        /\ live' = live
    BY <1>10, Zenon DEF CreateFails
  <2>2. Redirected(base, ref', Slots, Value(t, c), gNoValue)
    BY <1>2, <1>6, <1>8, <2>1, Zenon DEF Redirected
  <2> DEFINE n == Moved(total, v, NULL)
  <2>3. /\ \A o \in AllObjects : n[o] = total[o] + One(o, NULL) - One(o, v)
        /\ \A o \in AllObjects : total'[o] = total[o] + One(o, gNoValue) - One(o, v)
    BY <2>1, Zenon DEF Moved
  <2> HIDE DEF n
  <2>4. Recounted(total, n, ref[Value(t, k)], NULL)
    BY <2>3, Zenon DEF Recounted, v
  <2>5. Recounted(n, total', base[Value(t, c)], gNoValue)
    BY <1>2, <1>5, <1>8, <2>3 DEF Recounted, One
  <2>6. /\ RefCountsExact' /\ ref' \in [Slots -> Pointers]
        /\ \A o \in AllObjects : total'[o] \in Nat
    BY <1>3, <1>4, <1>8, <2>2, <2>4, <2>5, TwoSlots, Zenon
  <2>7. total' \in [AllObjects -> Nat]
    BY <2>1, <2>6, Zenon DEF Moved
  <2>8. /\ status' \in [Threads -> [Keys -> Statuses]] /\ status'[t][c] = FAILURE
        /\ \A u \in Threads, j \in Keys :
             u # t \/ (j # k /\ j # c) => status'[u][j] = status[u][j]
    BY <1>9, <2>1, Zenon DEF Statuses
  <2>9. /\ w = gNoValue /\ ref'[Value(t, k)] = NULL
        /\ \A s \in Slots : s \in {Value(t, k), Value(t, c)} \/ ref'[s] = ref[s]
    BY <1>1, <1>6, <1>8, <2>2, Zenon DEF Redirected, w
  <2>10. /\ \A o \in AllObjects : total[o] > 0 /\ o # v => total'[o] > 0
         /\ \A o \in AllObjects : total'[o] > 0 => total[o] > 0
         /\ v = gNoValue => total'[gNoValue] > 0
    BY <1>1, <1>2, <1>5, <1>7, <2>3 DEF One
  <2>11. live \subseteq AllObjects
    BY Zenon DEF IInv, TypeOK
  <2> QED BY <1>2, <2>1, <2>6, <2>7, <2>8, <2>9, <2>10, <2>11, Zenon
<1>11. ASSUME status[t][k] # FAILURE, ref' = [base EXCEPT ![Value(t, c)] = v],
              NEW e \in Successes, status' = [st EXCEPT ![t][c] = e],
              UNCHANGED <<total, live>>
       PROVE  Result
  <2>1. Redirected(base, ref', Slots, Value(t, c), v)
    BY <1>1, <1>6, <1>8, <1>11, Zenon DEF Redirected
  <2> DEFINE n == Moved(total, v, NULL)
  <2>2. \A o \in AllObjects : n[o] = total[o] + One(o, NULL) - One(o, v)
    BY Zenon DEF Moved
  <2> HIDE DEF n
  <2>3. Recounted(total, n, ref[Value(t, k)], NULL)
    BY <2>2, Zenon DEF Recounted, v
  <2>4. Recounted(n, total', base[Value(t, c)], v)
    BY <1>2, <1>5, <1>8, <1>11, <2>2 DEF Recounted, One
  <2>5. /\ RefCountsExact' /\ ref' \in [Slots -> Pointers]
    BY <1>3, <1>4, <1>8, <2>1, <2>3, <2>4, TwoSlots, Zenon
  <2>6. /\ status' \in [Threads -> [Keys -> Statuses]] /\ status'[t][c] # FAILURE
        /\ \A u \in Threads, j \in Keys :
             u # t \/ (j # k /\ j # c) => status'[u][j] = status[u][j]
    BY <1>9, <1>11, Zenon DEF Statuses, Successes, ZERO, FAILURE
  <2>7. /\ w = v /\ ref'[Value(t, k)] = NULL
        /\ \A s \in Slots : s \in {Value(t, k), Value(t, c)} \/ ref'[s] = ref[s]
    BY <1>1, <1>6, <1>8, <2>1, Zenon DEF Redirected, w
  <2>8. live \subseteq AllObjects /\ total' \in [AllObjects -> Nat]
    BY <1>11, Zenon DEF IInv, TypeOK
  <2>9. v \in Objects /\ v # gNoValue
    BY <1>1, <1>2, <1>11, Zenon
  <2> QED BY <1>2, <1>11, <2>5, <2>6, <2>7, <2>8, <2>9, Zenon
<1>12. ASSUME NEW part \in {NULL, v}, NEW dropped, status[t][k] # FAILURE,
              dropped = IF part = NULL THEN v ELSE NULL,
              CreateSucceeds(t, c, base, st, part, dropped)
       PROVE  Result
  <2>1. PICK o \in Objects \ live, e \in Successes :
          /\ live' = live \union {o}
          /\ ref' = [base EXCEPT ![Value(t, c)] = o, ![Part(o)] = part]
          /\ total' = [Moved(total, dropped, NULL) EXCEPT ![o] = 1]
          /\ status' = [st EXCEPT ![t][c] = e]
    BY <1>12, Zenon DEF CreateSucceeds
  <2>2. /\ o \in AllObjects /\ o # NULL /\ o # gNoValue /\ total[o] = 0 /\ ref[Part(o)] = NULL
        /\ \A s \in Slots : ref[s] # o
    BY FreshObject, Zenon
  <2>3. /\ Part(o) \in Slots /\ Part(o) # Value(t, k) /\ Part(o) # Value(t, c)
        /\ o \in Pointers /\ part \in Pointers
    BY <1>1, <1>2, <1>12, <2>2, SlotFacts, Zenon DEF Pointers
  <2>4. v \in Objects /\ v # gNoValue /\ v # NULL /\ v # o
    BY <1>1, <1>2, <1>12, <2>2, Zenon DEF v
  <2> DEFINE q == [base EXCEPT ![Value(t, c)] = o]
             n == Moved(total, v, NULL)
             m == Moved(n, NULL, o)
  <2>5. /\ Redirected(base, q, Slots, Value(t, c), o)
        /\ Redirected(q, ref', Slots, Part(o), part)
        /\ q[Part(o)] = NULL
    BY <1>6, <1>8, <2>1, <2>2, <2>3, Zenon DEF Redirected
  <2>6. /\ \A p \in AllObjects : n[p] = total[p] + One(p, NULL) - One(p, v)
        /\ \A p \in AllObjects : m[p] = n[p] + One(p, o) - One(p, NULL)
        /\ \A p \in AllObjects : total'[p] = IF p = o THEN 1
                                   ELSE total[p] + One(p, NULL) - One(p, dropped)
    BY <2>1, <2>2, Zenon DEF Moved
  <2>7. w = o /\ ref'[Value(t, k)] = NULL /\ ref'[Part(o)] = part
        /\ \A s \in Slots : s \in {Value(t, k), Value(t, c), Part(o)} \/ ref'[s] = ref[s]
    BY <1>1, <1>6, <1>8, <2>3, <2>5, Zenon DEF Redirected, w
  <2> HIDE DEF n, m, q
  <2>8. Recounted(total, n, ref[Value(t, k)], NULL)
    BY <2>6, Zenon DEF Recounted, v
  <2>9. Recounted(n, m, base[Value(t, c)], o)
    BY <1>8, <2>6, Zenon DEF Recounted
  <2>10. Recounted(m, total', q[Part(o)], part)
    <3> SUFFICES ASSUME NEW p \in AllObjects
                 PROVE  total'[p] = m[p] + One(p, part) - One(p, NULL)
      BY <2>5, Zenon DEF Recounted
    <3>1. p # NULL /\ total[p] \in Nat
      BY <1>2, <1>5, Zenon
    <3>2. CASE part = NULL
      BY <1>12, <2>2, <2>4, <2>6, <3>1, <3>2, SMTT(60) DEF One
    <3>3. CASE part = v
      BY <1>12, <2>2, <2>4, <2>6, <3>1, <3>3, SMTT(60) DEF One
    <3> QED BY <1>12, <3>2, <3>3, Zenon
  <2>11. /\ RefCountsExact' /\ ref' \in [Slots -> Pointers]
         /\ \A p \in AllObjects : total'[p] \in Nat
    BY <1>3, <1>4, <1>8, <2>5, <2>8, <2>9, <2>10, ThreeSlots, Zenon
  <2>12. total' \in [AllObjects -> Nat]
    BY <2>1, <2>11, Zenon DEF Moved
  <2>13. /\ status' \in [Threads -> [Keys -> Statuses]] /\ status'[t][c] # FAILURE
         /\ \A u \in Threads, j \in Keys :
              u # t \/ (j # k /\ j # c) => status'[u][j] = status[u][j]
    BY <1>9, <2>1, ZenonT(60) DEF Statuses, Successes, ZERO, FAILURE
  <2>14. \A s \in Slots : \/ s \in {Value(t, k), Value(t, c)}
                          \/ ref'[s] = ref[s]
                          \/ /\ ref'[s] = v /\ status[t][k] # FAILURE
                             /\ \E p \in live' : s = Part(p)
    <3>1. ref'[Part(o)] = ref[Part(o)] \/ ref'[Part(o)] = v
      BY <1>12, <2>2, <2>7, Zenon
    <3>2. o \in live'
      BY <2>1, Zenon
    <3> QED BY <1>12, <2>7, <3>1, <3>2, Zenon
  <2>15. /\ \A p \in AllObjects : total[p] > 0 /\ p # v => total'[p] > 0
         /\ \A p \in AllObjects : total'[p] > 0 => total[p] > 0 \/ p = o
         /\ total'[o] > 0
    BY <1>2, <1>5, <1>12, <2>2, <2>6 DEF One
  <2>16. live \subseteq live' /\ live' \subseteq AllObjects /\ live' \ live = {o}
    <3>1. live \subseteq AllObjects
      BY Zenon DEF IInv, TypeOK
    <3> QED BY <2>1, <2>2, <3>1, Zenon
  <2> QED BY <2>2, <2>4, <2>7, <2>11, <2>12, <2>13, <2>14, <2>15, <2>16, Zenon
<1>13. Result
  <2>1. CASE status[t][k] = FAILURE /\ CreateFails(t, c, base, st, v)
    BY <1>10, <2>1, Zenon
  <2>2. CASE /\ status[t][k] # FAILURE
             /\ ref' = [base EXCEPT ![Value(t, c)] = v]
             /\ \E e \in Successes : status' = [st EXCEPT ![t][c] = e]
             /\ UNCHANGED <<total, live>>
    BY <1>11, <2>2, Zenon
  <2>3. CASE /\ status[t][k] # FAILURE
             /\ \/ CreateSucceeds(t, c, base, st, v, NULL)
                \/ CreateFails(t, c, base, st, v)
    <3>1. v # NULL
      BY <1>1, <1>2, <2>3, Zenon
    <3> QED BY <1>10, <1>12, <2>3, <3>1, Zenon
  <2>4. CASE /\ status[t][k] # FAILURE
             /\ \/ CreateSucceeds(t, c, base, st, NULL, v)
                \/ CreateFails(t, c, base, st, v)
    BY <1>10, <1>12, <2>4, Zenon
  <2> HIDE DEF Result
  <2> QED BY <2>1, <2>2, <2>3, <2>4, Zenon DEF ReturnToCreate, v, base, st
<1>14. Allocation' /\ dying' \in [Threads -> Objects \union {NULL}]
  <2>1. \A o \in Objects \ live' : ref'[Part(o)] = NULL
    <3> SUFFICES ASSUME NEW o \in Objects \ live' PROVE ref'[Part(o)] = NULL
      OBVIOUS
    <3>1. Part(o) \in Slots /\ Part(o) # Value(t, k) /\ Part(o) # Value(t, c)
      BY SlotFacts, Zenon
    <3>2. \A p \in live' : Part(o) # Part(p)
      BY Zenon DEF Part
    <3>3. ref'[Part(o)] = ref[Part(o)]
      BY <1>13, <3>1, <3>2, Zenon
    <3> QED BY <1>13, <3>3, Zenon DEF IInv, Allocation
  <2>2. \A o \in AllObjects : total'[o] \in Nat
    BY <1>13, Zenon
  <2> QED BY <1>1, <1>3, <1>4, <1>13, <2>1, <2>2, AllocationStep, Zenon
<1>15. TypeOK'
  <2>1. raced' \in BOOLEAN
    BY Zenon DEF ReturnToCreate, NoteRace, IInv, TypeOK
  <2>2. pc' \in [Threads -> [Keys -> {"out", "poll", "wait", "create", "nested",
                                      "put", "fetched", "uncached", "done"}]]
    BY <1>4, Zenon DEF IInv, TypeOK
  <2> QED BY <1>4, <1>13, <1>14, <2>1, <2>2, Zenon DEF IInv, TypeOK, Pointers
<1>16. /\ pc'[t][k] = "out" /\ pc'[t][c] = "put"
       /\ \A u \in Threads, j \in Keys : u # t \/ (j # k /\ j # c) => pc'[u][j] = pc[u][j]
  BY <1>4, Zenon DEF IInv, TypeOK
<1>17. /\ \A u \in Threads, j \in Keys :
            u # t \/ (j # k /\ j # c) => ref'[Value(u, j)] = ref[Value(u, j)]
       /\ \A u \in Threads : ref'[Ptr(u)] = ref[Ptr(u)]
       /\ \A o \in Objects : ref'[Part(o)] # gNoValue
  <2>1. \A o, u, j : Part(o) # Ptr(u) /\ Part(o) # Value(u, j)
    BY Zenon DEF Part, Ptr, Value
  <2>2. \A u \in Threads, j \in Keys :
          u # t \/ (j # k /\ j # c) => ref'[Value(u, j)] = ref[Value(u, j)]
    BY <1>13, <2>1, SlotFacts
  <2>3. \A u \in Threads : ref'[Ptr(u)] = ref[Ptr(u)]
    BY <1>13, <2>1, SlotFacts
  <2>4. ASSUME NEW o \in Objects PROVE ref'[Part(o)] # gNoValue
    <3>1. Part(o) \in Slots /\ ref[Part(o)] # gNoValue
      BY SlotFacts, Zenon DEF IInv, Locals
    <3>2. status[t][k] # FAILURE => v # gNoValue
      BY <1>1, <1>2, Zenon
    <3> QED BY <1>13, <2>1, <3>1, <3>2
  <2> QED BY <2>2, <2>3, <2>4, Zenon
<1>18. Locals'
  <2>1. \A u \in Threads, j \in Keys :
          /\ ref'[Value(u, j)] # NULL <=> pc'[u][j] \in {"put", "fetched", "uncached"}
          /\ pc'[u][j] \in {"put", "fetched", "uncached", "done"}
                => (status'[u][j] = FAILURE <=> ref'[Value(u, j)] \notin Objects)
    BY <1>2, <1>13, <1>16, <1>17, SMTT(20) DEF IInv, Locals, w
  <2> QED BY <1>17, <2>1, Zenon DEF IInv, Locals
<1>19. ElementsOK'
  <2>1. \A u \in Threads, j \in Keys : pc[u][j] \in {"create", "nested", "put"}
                                         => pc'[u][j] \in {"create", "nested", "put"}
    BY <1>1, <1>16, Zenon
  <2> QED BY <1>4, <2>1, Zenon DEF IInv, ElementsOK, InProgress
<1>20. WaitersOK'
  <2>1. \A u \in Threads, j \in Keys : pc'[u][j] = "wait" => pc[u][j] = "wait"
    BY <1>16, Zenon
  <2> QED BY <1>4, <2>1, Zenon DEF IInv, TypeOK, WaitersOK, InProgress
<1>21. Modes'
  BY <1>1, <1>4, Zenon DEF IInv, Modes, Stopped, Elements
<1>22. Nesting'
  <2> SUFFICES ASSUME NEW u \in Threads
               PROVE  /\ \A i, j \in Active(u)' : i = j
                      /\ \A a \in Nested(u)', j \in Active(u)' :
                            Rank[j] < Rank[a] /\ Rank[j] <= Rank[Parent[a]]
                      /\ \A a \in Nested(u)' : Parent[a] # NULL
                      /\ \A a, b \in Nested(u)' :
                            a # b => \/ Rank[a] < Rank[b] /\ Rank[a] <= Rank[Parent[b]]
                                     \/ Rank[b] < Rank[a] /\ Rank[b] <= Rank[Parent[a]]
    BY Zenon DEF Nesting
  <2>1. CASE u # t
    <3>1. Active(u)' = Active(u) /\ Nested(u)' = Nested(u)
      BY <1>16, <2>1, Zenon DEF Active, Nested
    <3> QED BY <3>1, Zenon DEF IInv, Nesting
  <2>2. CASE u = t
    <3>1. k \in Active(t) /\ c \in Nested(t)
      BY <1>1, <1>4, Zenon DEF Active, Nested
    <3>2. Active(t)' = {c} /\ Nested(t)' = Nested(t) \ {c}
      <4>1. \A j \in Keys : j \in Active(t) => j = k
        BY <3>1, Zenon DEF IInv, Nesting
      <4>2. c # k /\ pc[t][k] \notin {"out", "nested"}
        BY <1>1, <1>4, Zenon
      <4>3. \A j \in Keys : (j \in Active(t)') <=> j = c
        BY <1>16, <4>1, <4>2, Zenon DEF Active
      <4>4. \A j \in Keys : (j \in Nested(t)') <=> j \in Nested(t) /\ j # c
        BY <1>16, <4>2, Zenon DEF Nested
      <4>5. Active(t)' \subseteq Keys /\ Nested(t)' \subseteq Keys /\ Nested(t) \subseteq Keys
        BY Zenon DEF Active, Nested
      <4> QED BY <4>3, <4>4, <4>5, Zenon
    <3>3. \A a \in Nested(t) : /\ a \in Keys /\ Parent[a] # NULL /\ Parent[a] \in Keys
                               /\ Rank[k] < Rank[a]
      BY <3>1, RankFacts, Zenon DEF IInv, Nesting, Nested
    <3>4. \A a \in Nested(t)' : Rank[c] < Rank[a] /\ Rank[c] <= Rank[Parent[a]]
      <4> SUFFICES ASSUME NEW a \in Nested(t), a # c
                   PROVE  Rank[c] < Rank[a] /\ Rank[c] <= Rank[Parent[a]]
        BY <3>2, Zenon
      <4>1. ~(Rank[a] <= Rank[Parent[c]])
        BY <1>4, <3>3, RankFacts
      <4> QED BY <3>1, <4>1, Zenon DEF IInv, Nesting
    <3> QED BY <2>2, <3>2, <3>3, <3>4, Zenon DEF IInv, Nesting
  <2> QED BY <2>1, <2>2, Zenon
<1>23. ReturnedIsCached'
  <2> SUFFICES ASSUME NEW u \in Threads, NEW j \in Keys, pc'[u][j] = "fetched",
                      ref'[Value(u, j)] # gNoValue
               PROVE  value'[j] = ref'[Value(u, j)]
    BY Zenon DEF ReturnedIsCached
  <2>1. u # t \/ (j # k /\ j # c)
    BY <1>16, Zenon
  <2>2. pc[u][j] = "fetched" /\ ref'[Value(u, j)] = ref[Value(u, j)]
    BY <1>16, <1>17, <2>1, Zenon
  <2> QED BY <1>4, <2>2, Zenon DEF IInv, ReturnedIsCached
<1> QED BY <1>13, <1>14, <1>15, <1>18, <1>19, <1>20, <1>21, <1>22, <1>23, Zenon DEF IInv
=============================================================================
