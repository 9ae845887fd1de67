---------------------- MODULE UConditionVarWin32Proofs ----------------------
(***************************************************************************)
(* Proofs about UConditionVarWin32 for any finite set of threads: the      *)
(* inductive invariant IInv, the safety properties that follow from it,    *)
(* and that every step of it is a step of CondVar.                         *)
(***************************************************************************)
EXTENDS UConditionVarWin32, FiniteSetTheorems, TLAPS

\* The counted threads are finitely many, so that they can be counted.
LEMMA CountedFinite == IsFiniteSet(Counted)
<1>1. Counted \subseteq Threads
  BY DEF Counted, At
<1> QED
  BY <1>1, ThreadsAssumption, FS_Subset

\* A condition variable with its static initializer satisfies IInv.
LEMMA InitIInv == Init => IInv
<1> SUFFICES ASSUME Init PROVE IInv
  OBVIOUS
<1>1. TypeOK
  BY ThreadsAssumption DEF Init, TypeOK
<1>2. Counted = {}
  BY DEF Init, Counted, At
<1>3. CountExact
  BY <1>2, FS_EmptySet DEF Init, CountExact
<1>4. NoLostWakeup /\ Gates
  BY DEF Init, NoLostWakeup, Gates, At
<1> QED
  BY <1>1, <1>3, <1>4 DEF IInv

\* What a thread does outside umtx_condWait with the mutex leaves IInv alone.
LEMMA MutexIInv ==
    ASSUME IInv, NEW t \in Threads, Lock(t) \/ Unlock(t)
    PROVE  IInv'
<1> USE DEF IInv
<1>1. Counted' = Counted
  BY DEF TypeOK, Lock, Unlock, Counted, At
<1>2. TypeOK'
  BY ThreadsAssumption DEF TypeOK, Lock, Unlock
<1>3. CountExact'
  BY <1>1 DEF CountExact, Lock, Unlock
<1>4. NoLostWakeup'
  BY DEF TypeOK, NoLostWakeup, Gates, Lock, Unlock, At
<1>5. Gates'
  BY DEF TypeOK, Gates, Lock, Unlock, At
<1> QED
  BY <1>2, <1>3, <1>4, <1>5

\* A broadcast keeps IInv: who waits at the entry gate finds it open, and the
\* exit gate is shut only while somebody is left to open it.
LEMMA BroadcastIInv ==
    ASSUME IInv, NEW t \in Threads, Broadcast(t)
    PROVE  IInv'
<1> USE DEF IInv, Broadcast, BroadcastEvents, NobodyWaits
<1>1. Counted' = Counted
  BY DEF TypeOK, Counted, At
<1>2. CountExact'
  BY <1>1 DEF CountExact
<1>3. NobodyWaits <=> Counted = {}
  BY CountedFinite, FS_EmptySet DEF CountExact
<1>4. CASE NobodyWaits
  <2>1. notified' = notified
    BY <1>3, <1>4 DEF Counted, At
  <2> QED
    BY <1>2, <1>4, <2>1 DEF TypeOK, NoLostWakeup, Gates, At
<1>5. CASE ~NobodyWaits
  <2>1. fEntryGate # "null"
    BY <1>3, <1>5 DEF Gates, Counted, At
  <2>2. TypeOK'
    BY <1>5, <2>1 DEF TypeOK, At
  <2>3. NoLostWakeup'
    BY <1>5 DEF TypeOK, NoLostWakeup, At
  <2>4. Gates'
    BY <1>5, <2>1 DEF TypeOK, Gates, At
  <2> QED
    BY <1>2, <2>2, <2>3, <2>4
<1> QED
  BY <1>4, <1>5

\* Entering umtx_condWait keeps IInv: the thread is counted before it lets go
\* of the mutex.
LEMMA WaitIInv ==
    ASSUME IInv, NEW t \in Threads, Wait(t)
    PROVE  IInv'
<1> USE DEF IInv, Wait, CountUp
<1>1. Counted' = Counted \union {t} /\ t \notin Counted
  BY DEF TypeOK, Counted, At
<1>2. TypeOK'
  BY ThreadsAssumption DEF TypeOK
<1>3. CountExact'
  BY <1>1, CountedFinite, FS_AddElement DEF CountExact
<1>4. t \notin notified
  BY DEF Gates, At
<1>5. NoLostWakeup'
  BY <1>4 DEF TypeOK, NoLostWakeup, Gates, At
<1>6. Gates'
  BY DEF TypeOK, Gates, At
<1> QED
  BY <1>2, <1>3, <1>5, <1>6

\* Calling WaitForSingleObject, at either gate, keeps IInv.
LEMMA GateIInv ==
    ASSUME IInv, NEW t \in Threads, WaitForEntryGate(t) \/ WaitForExitGate(t)
    PROVE  IInv'
<1> USE DEF IInv, WaitForEntryGate, WaitForExitGate
<1>1. Counted' = Counted
  BY DEF TypeOK, Counted, At
<1>2. TypeOK'
  BY DEF TypeOK
<1>3. CountExact'
  BY <1>1 DEF CountExact
<1>4. NoLostWakeup'
  BY DEF TypeOK, NoLostWakeup, At
<1>5. Gates'
  BY DEF TypeOK, Gates, At
<1> QED
  BY <1>2, <1>3, <1>4, <1>5

\* Counting down keeps IInv: the thread that finds the count at zero is the
\* only one that was counted, so that it shuts the entry gate on nobody.
LEMMA CountDownIInv ==
    ASSUME IInv, NEW t \in Threads, CountDown(t)
    PROVE  IInv'
<1> USE DEF IInv, CountDown, IsLast, LastEvents
<1>1. t \in Counted /\ Counted' = Counted \ {t}
  BY DEF TypeOK, Counted, At
<1>2. /\ Cardinality(Counted \ {t}) = fWaitCount - 1
      /\ fWaitCount - 1 \in Nat
      /\ IsFiniteSet(Counted \ {t})
  <2>1. /\ IsFiniteSet(Counted \ {t})
        /\ Cardinality(Counted \ {t}) = Cardinality(Counted) - 1
    BY ONLY <1>1, CountedFinite, FS_RemoveElement
  <2>2. Cardinality(Counted \ {t}) \in Nat
    BY ONLY <2>1, FS_CardinalityType
  <2> QED
    BY <2>1, <2>2 DEF CountExact
<1>3. CountExact'
  BY <1>1, <1>2 DEF CountExact
<1>4. fEntryGate = "open"
  BY DEF Gates, At
<1>5. TypeOK'
  BY <1>2, <1>4, ThreadsAssumption DEF TypeOK
<1>6. CASE IsLast
  <2>1. Counted \ {t} = {}
    BY <1>2, <1>6, FS_EmptySet
  <2>2. \A u \in Threads \ {t} : pc[u] \notin {"entry", "entryBlocked", "entered"}
    BY <2>1 DEF Counted, At
  <2>3. NoLostWakeup'
    BY <1>6, <2>2 DEF TypeOK, NoLostWakeup, At
  <2>4. Gates'
    BY <1>6, <2>2 DEF TypeOK, Gates, At
  <2> QED
    BY <1>3, <1>5, <2>3, <2>4
<1>7. CASE ~IsLast
  <2>1. fWaitCount' > 0
    BY <1>2, <1>7 DEF TypeOK
  <2>2. NoLostWakeup'
    BY <1>4, <1>7, <2>1 DEF TypeOK, NoLostWakeup, At
  <2>3. Gates'
    BY <1>4, <1>7, <2>1 DEF TypeOK, Gates, At
  <2> QED
    BY <1>3, <1>5, <2>2, <2>3
<1> QED
  BY <1>6, <1>7

\* Returning from umtx_condWait keeps IInv.
LEMMA ReturnIInv ==
    ASSUME IInv, NEW t \in Threads, Return(t)
    PROVE  IInv'
<1> USE DEF IInv, Return
<1>1. Counted' = Counted
  BY DEF TypeOK, Counted, At
<1>2. TypeOK'
  BY ThreadsAssumption DEF TypeOK
<1>3. CountExact'
  BY <1>1 DEF CountExact
<1>4. NoLostWakeup'
  BY DEF TypeOK, NoLostWakeup, At
<1>5. Gates'
  BY DEF TypeOK, Gates, At
<1> QED
  BY <1>2, <1>3, <1>4, <1>5

\* Every step of the Windows condition variable keeps IInv.
LEMMA NextIInv == IInv /\ [Next]_vars => IInv'
<1> SUFFICES ASSUME IInv, [Next]_vars PROVE IInv'
  OBVIOUS
<1>1. CASE UNCHANGED vars
  BY <1>1 DEF vars, IInv, TypeOK, CountExact, NoLostWakeup, Gates, Counted, At
<1>2. CASE Next
  BY <1>2, MutexIInv, BroadcastIInv, WaitIInv, GateIInv, CountDownIInv, ReturnIInv
  DEF Next
<1> QED
  BY <1>1, <1>2

\* The inductive invariant holds throughout, for any finite set of threads.
THEOREM IInvHolds == Spec => []IInv
  BY InitIInv, NextIInv, PTL DEF Spec

\* fWaitCount is exact: umtx_condBroadcast returns early only if nobody waits.
THEOREM CountExactHolds == Spec => []CountExact
  BY IInvHolds, PTL DEF IInv

\* No thread that was waiting when umtx_condBroadcast was called stays at a
\* gate that nobody will open.
THEOREM NoLostWakeupHolds == Spec => []NoLostWakeup
  BY IInvHolds, PTL DEF IInv

\* One umtx_condBroadcast wakes no thread twice.
THEOREM OncePerBroadcastHolds == Spec => OncePerBroadcast
<1> DEFINE Once == \A t \in Threads :
                      pc[t] = "entry" /\ pc'[t] = "entered" => t \notin passed
<1>1. ASSUME IInv, [Next]_vars PROVE [Once]_vars
  <2> SUFFICES ASSUME Next, NEW u \in Threads, pc[u] = "entry", pc'[u] = "entered"
               PROVE  u \notin passed
    BY <1>1
  <2>1. fEntryGate = "open"
    <3>1. PICK t \in Threads :
             \/ Lock(t) \/ Unlock(t) \/ Broadcast(t) \/ Wait(t)
             \/ WaitForEntryGate(t) \/ CountDown(t) \/ WaitForExitGate(t) \/ Return(t)
      BY DEF Next
    <3> QED
      BY <1>1, <3>1 DEF IInv, TypeOK, Lock, Unlock, Broadcast, Wait,
         WaitForEntryGate, CountDown, WaitForExitGate, Return
  <2> QED
    BY <1>1, <2>1 DEF IInv, Gates
<1> QED
  BY <1>1, IInvHolds, PTL DEF Spec, OncePerBroadcast

\* The steps by which a thread takes the mutex, lets go of it or broadcasts are
\* the steps of CondVar of the same name.
LEMMA MutexStep ==
    ASSUME IInv, NEW t \in Threads,
           Lock(t) \/ Unlock(t) \/ Wait(t) \/ Broadcast(t) \/ Return(t)
    PROVE  CV!Next
<1> USE DEF IInv, TypeOK, Gates, At
<1>1. CASE Lock(t)
  <2>1. CV!Lock(t)
    BY <1>1, ThreadsAssumption DEF Lock, CV!Lock
  <2> QED
    BY <2>1 DEF CV!Next
<1>2. CASE Unlock(t)
  <2>1. CV!Unlock(t)
    BY <1>2 DEF Unlock, CV!Unlock
  <2> QED
    BY <2>1 DEF CV!Next
<1>3. CASE Wait(t)
  <2>1. CV!Wait(t)
    BY <1>3 DEF Wait, CV!Wait
  <2> QED
    BY <2>1 DEF CV!Next
<1>4. CASE Broadcast(t)
  <2>1. CV!Broadcast(t)
    BY <1>4 DEF Broadcast, CV!Broadcast
  <2> QED
    BY <2>1 DEF CV!Next
<1>5. CASE Return(t)
  <2>1. CV!Return(t)
    BY <1>5 DEF Return, CV!Return
  <2> QED
    BY <2>1 DEF CV!Next
<1> QED
  BY <1>1, <1>2, <1>3, <1>4, <1>5

\* Passing the open entry gate without having been notified is a spurious
\* wakeup; the last thread's count down is its return; all else at the gates
\* is invisible.
LEMMA GateStep ==
    ASSUME IInv, NEW t \in Threads,
           WaitForEntryGate(t) \/ CountDown(t) \/ WaitForExitGate(t)
    PROVE  [CV!Next]_(CV!vars)
<1> USE DEF IInv, TypeOK, Gates, At
<1>1. CASE WaitForEntryGate(t)
  <2>1. CASE fEntryGate = "open" /\ t \notin notified
    <3>1. CV!SpuriousWakeup(t)
      BY <1>1, <2>1 DEF WaitForEntryGate, CV!SpuriousWakeup
    <3> QED
      BY <3>1 DEF CV!Next
  <2>2. CASE ~(fEntryGate = "open" /\ t \notin notified)
    BY <1>1, <2>2 DEF WaitForEntryGate, CV!vars
  <2> QED
    BY <2>1, <2>2
<1>2. CASE CountDown(t) /\ IsLast
  <2>1. CV!Return(t)
    BY <1>2 DEF CountDown, CV!Return
  <2> QED
    BY <2>1 DEF CV!Next
<1>3. CASE CountDown(t) /\ ~IsLast
  BY <1>3 DEF CountDown, CV!vars
<1>4. CASE WaitForExitGate(t)
  BY <1>4 DEF WaitForExitGate, CV!vars
<1> QED
  BY <1>1, <1>2, <1>3, <1>4

\* The two events and the counter implement the condition variable of umutex.h
\* in every step (that woken threads return is left to model checking).
THEOREM RefinesCondVar == Spec => CV!Spec
<1>1. Init => CV!Init
  BY DEF Init, CV!Init, At
<1>2. IInv /\ [Next]_vars => [CV!Next]_(CV!vars)
  <2>1. ASSUME IInv, Next PROVE [CV!Next]_(CV!vars)
    BY <2>1, MutexStep, GateStep DEF Next
  <2>2. ASSUME UNCHANGED vars PROVE UNCHANGED CV!vars
    BY <2>2 DEF vars, CV!vars, At
  <2> QED
    BY <2>1, <2>2
<1> QED
  BY <1>1, <1>2, IInvHolds, PTL DEF Spec, CV!Spec
=============================================================================
