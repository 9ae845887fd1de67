-------------------------- MODULE UInitOnceProofs ---------------------------
(***************************************************************************)
(* Proofs about both implementations of umtx_initOnce, for any threads,    *)
(* any error codes and any number of resets.  What the two do with fState  *)
(* is OnceSpec, which the invariants and the refinement of InitOnce are    *)
(* proved of; that no broadcast is missed concerns UInitOncePosix alone.   *)
(***************************************************************************)
EXTENDS UInitOncePosix, TLAPS

Win32 == INSTANCE UInitOnceWin32

-----------------------------------------------------------------------------
(* What the implementations have in common.                                *)

\* umtx_initImplPreInit takes the run, waits, or finds the run completed.
Claim(t) == fState = 0 /\ fState' = 1 /\ Goto(t, "preInit", "init")
Wait(t) == fState = 1 /\ Goto(t, "preInit", "wait") /\ UNCHANGED fState
Find(t) == fState = 2 /\ Goto(t, "preInit", "readErr") /\ UNCHANGED fState
Again(t) ==
    /\ \/ Goto(t, "wait", "wait")
       \/ fState # 1 /\ (Goto(t, "wait", "readErr") \/ Goto(t, "wait", "preInit"))
    /\ UNCHANGED fState
Complete(t) == fState' = 2 /\ Goto(t, "postInit", "return")

Hook(t) ==
    /\ Claim(t) \/ Wait(t) \/ Find(t) \/ Again(t) \/ Complete(t)
    /\ UNCHANGED <<fErrCode, errCode, resets>>

OnceNext == Reset \/ \E t \in Threads : Call(t) \/ TemplateStep(t) \/ Hook(t)

OnceSpec == OnceInit /\ [][OnceNext]_onceVars

\* umtx_initImplPreInit and umtx_initImplPostInit with the mutex.
LEMMA PosixNext == [Next]_vars => [OnceNext]_onceVars
<1>1. UNCHANGED vars => UNCHANGED onceVars
  BY DEF vars
<1>2. Next => [OnceNext]_onceVars
  <2>1. ASSUME NEW t \in Threads, Recheck(t) PROVE Hook(t)
    BY <2>1 DEF Recheck, Hook, Again, Goto
  <2>2. ASSUME NEW t \in Threads, PreInit(t) \/ PostInit(t) PROVE Hook(t)
    BY <2>2 DEF PreInit, PostInit, Hook, Claim, Wait, Find, Complete
  <2>3. ASSUME NEW t \in Threads, SpuriousWakeup(t) PROVE UNCHANGED onceVars
    BY <2>3 DEF SpuriousWakeup
  <2> QED
    BY <2>1, <2>2, <2>3 DEF Next, Step, OnceNext
<1> QED
  BY <1>1, <1>2

\* The same with InterlockedCompareExchange and polling.
LEMMA Win32Next == [Win32!Next]_(Win32!vars) => [OnceNext]_onceVars
<1>1. UNCHANGED Win32!vars => UNCHANGED onceVars
  BY DEF Win32!vars, Win32!onceVars, onceVars
<1>2. Win32!Reset => Reset
  BY DEF Win32!Reset, Reset
<1>3. ASSUME NEW t \in Threads PROVE Win32!Call(t) => Call(t)
  BY DEF Win32!Call, Call
<1>4. ASSUME NEW t \in Threads PROVE Win32!TemplateStep(t) => TemplateStep(t)
  BY DEF Win32!TemplateStep, Win32!LoadState, Win32!RunInit, Win32!StoreErrCode,
         Win32!ReadErrCode, Win32!ReturnAfterInit, Win32!Goto,
         TemplateStep, LoadState, RunInit, StoreErrCode, ReadErrCode, ReturnAfterInit, Goto
<1>5. ASSUME NEW t \in Threads, Win32!Poll(t) PROVE Hook(t)
  BY <1>5 DEF Win32!Poll, Win32!Goto, Hook, Again, Goto
<1>6. ASSUME NEW t \in Threads, Win32!PreInit(t) \/ Win32!PostInit(t) PROVE Hook(t)
  BY <1>6 DEF Win32!PreInit, Win32!PostInit, Win32!Goto, Goto,
              Hook, Claim, Wait, Find, Complete
<1> QED
  BY <1>1, <1>2, <1>3, <1>4, <1>5, <1>6 DEF Win32!Next, Win32!Step, OnceNext

-----------------------------------------------------------------------------
(* The inductive invariant.                                                *)

OnceTypeOK ==
    /\ fState \in 0..2
    /\ fErrCode \in Status
    /\ errCode \in [Threads -> Status]
    /\ pc \in [Threads -> {"idle", "load", "preInit", "wait", "init",
                           "store", "postInit", "return", "readErr"}]
    /\ resets \in 0..MaxResets

\* A thread that waits came after a run had started.
WaitAfterStart == \A t \in Threads : pc[t] = "wait" => fState # 0

\* The thread that ran the initialization has the status that fErrCode keeps.
StatusStored ==
    \A t \in Threads : pc[t] \in {"postInit", "return"} => errCode[t] = fErrCode

IInv ==
    /\ OnceTypeOK
    /\ OneInitializer
    /\ DoneWhenToldNotToInit
    /\ WaitAfterStart
    /\ StatusStored

\* Every step keeps it: the template never touches fState, and only the thread
\* that has the run stores a status.
LEMMA NextIInv == IInv /\ [OnceNext]_onceVars => IInv'
<1> SUFFICES ASSUME IInv, [OnceNext]_onceVars PROVE IInv'
  OBVIOUS
<1> USE StatusAssumption, MaxResetsAssumption
    DEF IInv, OnceTypeOK, OneInitializer, Running, DoneWhenToldNotToInit,
        WaitAfterStart, StatusStored, Goto
<1>1. CASE UNCHANGED onceVars
  BY <1>1 DEF onceVars
<1>2. CASE Reset
  BY <1>2 DEF Reset
<1>3. ASSUME NEW t \in Threads, Call(t) PROVE IInv'
  BY <1>3 DEF Call
<1>4. ASSUME NEW t \in Threads, TemplateStep(t) PROVE IInv'
  <2>1. CASE LoadState(t)
    BY <2>1 DEF LoadState
  <2>2. CASE RunInit(t)
    BY <2>2 DEF RunInit
  <2>3. CASE StoreErrCode(t)
    BY <2>3 DEF StoreErrCode
  <2>4. CASE ReadErrCode(t)
    BY <2>4 DEF ReadErrCode
  <2>5. CASE ReturnAfterInit(t)
    BY <2>5 DEF ReturnAfterInit
  <2> QED
    BY <1>4, <2>1, <2>2, <2>3, <2>4, <2>5 DEF TemplateStep
<1>5. ASSUME NEW t \in Threads, Hook(t) PROVE IInv'
  <2>1. CASE Claim(t)
    BY <1>5, <2>1 DEF Hook, Claim
  <2>2. CASE Wait(t) \/ Find(t)
    BY <1>5, <2>2 DEF Hook, Wait, Find
  <2>3. CASE Again(t)
    BY <1>5, <2>3 DEF Hook, Again
  <2>4. CASE Complete(t)
    BY <1>5, <2>4 DEF Hook, Complete
  <2> QED
    BY <1>5, <2>1, <2>2, <2>3, <2>4 DEF Hook
<1> QED
  BY <1>1, <1>2, <1>3, <1>4, <1>5 DEF OnceNext

LEMMA InitIInv == OnceInit => IInv
  BY StatusAssumption, MaxResetsAssumption
  DEF OnceInit, IInv, OnceTypeOK, OneInitializer, Running, DoneWhenToldNotToInit,
      WaitAfterStart, StatusStored

\* The invariant holds in every state of both implementations.
THEOREM IInvHolds == OnceSpec => []IInv
  BY InitIInv, NextIInv, PTL DEF OnceSpec

LEMMA PosixSpec == Spec => OnceSpec
<1>1. Init => OnceInit
  BY DEF Init
<1> QED
  BY <1>1, PosixNext, PTL DEF Spec, OnceSpec

LEMMA Win32Spec == Win32!Spec => OnceSpec
<1>1. Win32!Init => OnceInit
  BY DEF Win32!Init, Win32!OnceInit, OnceInit
<1> QED
  BY <1>1, Win32Next, PTL DEF Win32!Spec, OnceSpec

\* No two threads are ever inside the initialization function, and fState is
\* 1 exactly while one is, whether the run is claimed under initMutex or by
\* InterlockedCompareExchange.
THEOREM OneInitializerHolds == (Spec \/ Win32!Spec) => []OneInitializer
<1>1. IInv => OneInitializer
  BY DEF IInv
<1> QED
  BY <1>1, IInvHolds, PosixSpec, Win32Spec, PTL

\* The U_ASSERT(uio.fState == 2) of umtx_initImplPreInit never fails, and it
\* still holds when the caller goes on to read fErrCode.
THEOREM AssertHolds == (Spec \/ Win32!Spec) => []DoneWhenToldNotToInit
<1>1. IInv => DoneWhenToldNotToInit
  BY DEF IInv
<1> QED
  BY <1>1, IInvHolds, PosixSpec, Win32Spec, PTL

\* A sleeping thread is inside umtx_initImplPreInit.
WaitersInside == waiters \subseteq Threads /\ \A t \in waiters : pc[t] = "wait"

\* No thread sleeps on initCondition when nobody is left to wake it.
THEOREM NoMissedBroadcastHolds == Spec => []NoMissedBroadcast
<1> DEFINE Inv == NoMissedBroadcast /\ WaitersInside
<1>1. Init => Inv
  BY DEF Init, NoMissedBroadcast, WaitersInside
<1>2. IInv /\ Inv /\ [Next]_vars => Inv'
  <2> SUFFICES ASSUME IInv, Inv, [Next]_vars PROVE Inv'
    OBVIOUS
  <2> USE DEF IInv, OnceTypeOK, NoMissedBroadcast, WaitersInside, Goto
  <2>1. CASE UNCHANGED vars
    BY <2>1 DEF vars, onceVars
  <2>2. CASE Reset /\ UNCHANGED waiters
    BY <2>2 DEF Reset
  <2>3. ASSUME NEW t \in Threads, Call(t) \/ TemplateStep(t), UNCHANGED waiters PROVE Inv'
    BY <2>3 DEF Call, TemplateStep, LoadState, RunInit, StoreErrCode, ReadErrCode, ReturnAfterInit
  <2>4. ASSUME NEW t \in Threads, PreInit(t) PROVE Inv'
    BY <2>4 DEF PreInit
  <2>5. ASSUME NEW t \in Threads, Recheck(t) \/ PostInit(t) \/ SpuriousWakeup(t) PROVE Inv'
    BY <2>5 DEF Recheck, PostInit, SpuriousWakeup, onceVars
  <2> QED
    BY <2>1, <2>2, <2>3, <2>4, <2>5 DEF Next, Step
<1>3. Inv => NoMissedBroadcast
  OBVIOUS
<1> QED
  BY <1>1, <1>2, <1>3, PosixSpec, IInvHolds, PTL DEF Spec

-----------------------------------------------------------------------------
(* The refinement of InitOnce.                                             *)

\* The state of InitOnce, without a choice of the thread that has the run.
AbsState ==
    /\ \A t \in Running :
          /\ AbsRunner = t
          /\ AbsPhase = IF pc[t] = "init" THEN "running" ELSE "ran"
          /\ AbsResult = IF pc[t] = "store" THEN errCode[t] ELSE fErrCode
    /\ Running = {} =>
          /\ AbsRunner = "noThread"
          /\ AbsPhase = IF fState = 0 THEN "reset" ELSE "done"
          /\ AbsResult = fErrCode

LEMMA AbsStateHolds == IInv => AbsState
<1> SUFFICES ASSUME IInv PROVE AbsState
  OBVIOUS
<1>1. ASSUME NEW t \in Running
      PROVE  /\ AbsRunner = t
             /\ AbsPhase = IF pc[t] = "init" THEN "running" ELSE "ran"
             /\ AbsResult = IF pc[t] = "store" THEN errCode[t] ELSE fErrCode
  <2>1. fState = 1 /\ Running = {t}
    BY DEF IInv, OneInitializer
  <2>2. AbsRunner = t
    BY <2>1 DEF AbsRunner
  <2>3. AbsPhase = IF pc[t] = "init" THEN "running" ELSE "ran"
    BY <2>1 DEF AbsPhase
  <2>4. \A u \in Threads : pc[u] = "store" => u = t
    BY <2>1 DEF Running
  <2>5. AbsResult = IF pc[t] = "store" THEN errCode[t] ELSE fErrCode
    BY <2>4 DEF AbsResult, Running
  <2> QED
    BY <2>2, <2>3, <2>5
<1>2. Running = {} => /\ AbsRunner = "noThread"
                      /\ AbsPhase = IF fState = 0 THEN "reset" ELSE "done"
                      /\ AbsResult = fErrCode
  <2>1. Running = {} => fState # 1 /\ fState \in 0..2
    BY DEF IInv, OneInitializer, OnceTypeOK
  <2> QED
    BY <2>1 DEF AbsRunner, AbsPhase, AbsResult, Running
<1> QED
  BY <1>1, <1>2 DEF AbsState

LEMMA AbsStateNext == IInv' => AbsState'
  BY AbsStateHolds, PTL

\* A thread that has nothing to do with the run moves on, which does not show.
LEMMA QuietStep ==
    ASSUME IInv, AbsState, AbsState',
           UNCHANGED <<fState, fErrCode, errCode>>,
           \A u \in Threads : pc'[u] # pc[u] =>
               {pc[u], pc'[u]} \subseteq {"load", "preInit", "wait", "readErr"}
    PROVE  UNCHANGED Once!vars
<1>1. Running' = Running /\ \A u \in Running : pc'[u] = pc[u]
  BY DEF Running
<1>2. UNCHANGED <<AbsRunner, AbsPhase, AbsResult>>
  <2>1. CASE Running = {}
    BY <1>1, <2>1 DEF AbsState
  <2>2. ASSUME NEW u \in Running PROVE UNCHANGED <<AbsRunner, AbsPhase, AbsResult>>
    BY <1>1, <2>2 DEF AbsState
  <2> QED
    BY <2>1, <2>2
<1>3. {u \in Threads : pc'[u] # "idle"} = {u \in Threads : pc[u] # "idle"}
  OBVIOUS
<1> QED
  BY <1>2, <1>3 DEF Once!vars

\* Every step is a step of InitOnce, or does not show.
LEMMA StepRefines ==
    ASSUME IInv, IInv', [OnceNext]_onceVars
    PROVE  [Once!Next]_(Once!vars)
<1>0. AbsState /\ AbsState'
  BY AbsStateHolds, AbsStateNext
<1> USE DEF Goto
<1>types. pc \in [Threads -> {"idle", "load", "preInit", "wait", "init",
                           "store", "postInit", "return", "readErr"}]
      /\ errCode \in [Threads -> Status] /\ fState \in 0..2
  BY DEF IInv, OnceTypeOK
<1>1. CASE UNCHANGED onceVars
  BY <1>1 DEF onceVars, Once!vars, AbsPhase, AbsRunner, AbsResult, Running
<1>2. CASE Reset
  <2>1. Running = {} /\ Running' = {}
    BY <1>2 DEF Reset, Running
  <2>2. fState # 1
    BY <2>1 DEF IInv, OneInitializer
  <2>3. CASE fState = 0
    BY <1>2, <1>0, <2>1, <2>3 DEF Reset, AbsState, Once!vars
  <2>4. CASE fState = 2
    <3>1. Once!Reset
      BY <1>2, <1>0, <2>1, <2>4 DEF Reset, AbsState, Once!Reset
    <3> QED
      BY <3>1 DEF Once!Next
  <2> QED
    BY <1>types, <2>2, <2>3, <2>4
<1>3. ASSUME NEW t \in Threads, Call(t) PROVE Once!Call(t)
  <2>1. Running' = Running /\ \A u \in Running : pc'[u] = pc[u] /\ errCode'[u] = errCode[u]
    BY <1>3, <1>types DEF Call, Running
  <2>2. UNCHANGED <<AbsRunner, AbsPhase, AbsResult>>
    <3>1. CASE Running = {}
      BY <1>0, <1>3, <2>1, <3>1 DEF AbsState, Call
    <3>2. ASSUME NEW u \in Running PROVE UNCHANGED <<AbsRunner, AbsPhase, AbsResult>>
      BY <1>0, <1>3, <2>1, <3>2 DEF AbsState, Call
    <3> QED
      BY <3>1, <3>2
  <2>3. PICK e \in Status :
            /\ errCode' = [errCode EXCEPT ![t] = e]
            /\ pc' = [pc EXCEPT ![t] = IF e \in Failures THEN "idle" ELSE "load"]
    BY <1>3 DEF Call
  <2>4. t \notin {u \in Threads : pc[u] # "idle"}
    BY <1>3 DEF Call
  <2>5. {u \in Threads : pc'[u] # "idle"} =
            IF e \in Failures THEN {u \in Threads : pc[u] # "idle"}
            ELSE {u \in Threads : pc[u] # "idle"} \union {t}
    BY <1>types, <2>3, <2>4
  <2> QED
    BY <2>2, <2>3, <2>4, <2>5 DEF Once!Call
<1>4. ASSUME NEW t \in Threads, LoadState(t) \/ (Hook(t) /\ (Wait(t) \/ Find(t) \/ Again(t)))
      PROVE  UNCHANGED Once!vars
  BY <1>0, <1>4, <1>types, QuietStep DEF LoadState, Hook, Wait, Find, Again
<1>5. ASSUME NEW t \in Threads, RunInit(t) PROVE Once!Run
  <2>1. t \in Running /\ t \in Running' /\ pc[t] = "init" /\ pc'[t] = "store"
    BY <1>5, <1>types DEF RunInit, Running
  <2>2. /\ AbsRunner = t /\ AbsRunner' = t
        /\ AbsPhase = "running" /\ AbsPhase' = "ran" /\ AbsResult' = errCode'[t]
    BY <1>0, <2>1 DEF AbsState
  <2>3. {u \in Threads : pc'[u] # "idle"} = {u \in Threads : pc[u] # "idle"}
    BY <1>5, <1>types DEF RunInit
  <2> QED
    BY <1>5, <1>types, <2>2, <2>3 DEF RunInit, Once!Run
<1>6. ASSUME NEW t \in Threads, StoreErrCode(t) PROVE UNCHANGED Once!vars
  <2>1. t \in Running /\ t \in Running' /\ pc[t] = "store" /\ pc'[t] = "postInit"
    BY <1>6, <1>types DEF StoreErrCode, Running
  <2>2. UNCHANGED <<AbsRunner, AbsPhase, AbsResult>>
    BY <1>0, <1>6, <2>1 DEF AbsState, StoreErrCode
  <2>3. {u \in Threads : pc'[u] # "idle"} = {u \in Threads : pc[u] # "idle"}
    BY <1>6, <1>types DEF StoreErrCode
  <2> QED
    BY <1>6, <2>2, <2>3 DEF StoreErrCode, Once!vars
<1>7. ASSUME NEW t \in Threads, ReadErrCode(t) \/ ReturnAfterInit(t) PROVE Once!Return(t)
  <2>1. fState = 2 /\ fState' = 2 /\ Running = {} /\ Running' = {}
    BY <1>7, <1>types DEF ReadErrCode, ReturnAfterInit, IInv, DoneWhenToldNotToInit, OneInitializer
  <2>2. /\ AbsPhase = "done" /\ AbsResult = fErrCode
        /\ UNCHANGED <<AbsPhase, AbsRunner, AbsResult>>
    BY <1>0, <1>7, <2>1 DEF AbsState, ReadErrCode, ReturnAfterInit
  <2>3. errCode' = [errCode EXCEPT ![t] = IF fErrCode \in Failures THEN fErrCode ELSE @]
    BY <1>7, <1>types DEF ReadErrCode, ReturnAfterInit, IInv, StatusStored
  <2>4. /\ t \in {u \in Threads : pc[u] # "idle"}
        /\ {u \in Threads : pc'[u] # "idle"} = {u \in Threads : pc[u] # "idle"} \ {t}
    BY <1>7, <1>types DEF ReadErrCode, ReturnAfterInit
  <2> QED
    BY <2>2, <2>3, <2>4 DEF Once!Return
<1>8. ASSUME NEW t \in Threads, Hook(t), Claim(t) PROVE Once!Start(t)
  <2>1. Running = {} /\ fState = 0 /\ t \in Running' /\ pc'[t] = "init"
    BY <1>8, <1>types DEF Claim, Running, IInv, OneInitializer
  <2>2. /\ AbsPhase = "reset" /\ AbsPhase' = "running" /\ AbsRunner' = t
        /\ UNCHANGED AbsResult
    BY <1>0, <1>8, <2>1 DEF AbsState, Hook
  <2>3. /\ t \in {u \in Threads : pc[u] # "idle"}
        /\ {u \in Threads : pc'[u] # "idle"} = {u \in Threads : pc[u] # "idle"}
    BY <1>8, <1>types DEF Claim
  <2> QED
    BY <1>8, <2>2, <2>3 DEF Hook, Once!Start
<1>9. ASSUME NEW t \in Threads, Hook(t), Complete(t) PROVE Once!Publish
  <2>1. t \in Running /\ pc[t] = "postInit" /\ fState' = 2 /\ Running' = {}
    BY <1>9, <1>types DEF Complete, Running, IInv, OneInitializer
  <2>2. /\ AbsPhase = "ran" /\ AbsPhase' = "done" /\ AbsRunner' = "noThread"
        /\ UNCHANGED AbsResult
    BY <1>0, <1>9, <2>1 DEF AbsState, Hook
  <2>3. {u \in Threads : pc'[u] # "idle"} = {u \in Threads : pc[u] # "idle"}
    BY <1>9, <1>types DEF Complete
  <2> QED
    BY <1>9, <2>2, <2>3 DEF Hook, Once!Publish, Once!NoThread
<1> QED
  BY <1>1, <1>2, <1>3, <1>4, <1>5, <1>6, <1>7, <1>8, <1>9
  DEF OnceNext, TemplateStep, Hook, Once!Next

\* Both implementations of umtx_initOnce implement InitOnce: one run of the
\* initialization between two resets, no return before it is complete, and its
\* failure reported by every call, for any threads and number of resets.
THEOREM RefinesInitOnce == (Spec \/ Win32!Spec) => ImplementsInitOnce
<1>1. OnceInit => Once!Init
  <2> SUFFICES ASSUME OnceInit PROVE Once!Init
    OBVIOUS
  <2>1. Running = {} /\ fState = 0
    BY DEF OnceInit, Running
  <2>2. AbsState
    BY InitIInv, AbsStateHolds
  <2> QED
    BY <2>1, <2>2, StatusAssumption DEF OnceInit, AbsState, Once!Init, Once!NoThread
<1>2. IInv /\ IInv' /\ [OnceNext]_onceVars => [Once!Next]_(Once!vars)
  BY StepRefines
<1>3. OnceSpec => Once!Spec
  BY <1>1, <1>2, IInvHolds, PTL DEF OnceSpec, Once!Spec
<1> QED
  BY <1>3, PosixSpec, Win32Spec, PTL DEF ImplementsInitOnce
=============================================================================
