--------------------------- MODULE UInitOncePosix ---------------------------
(***************************************************************************)
(* umtx_initOnce() with the POSIX hooks of source/common/umutex.cpp: a     *)
(* static initMutex and initCondition shared by every UInitOnce.           *)
(*                                                                         *)
(* A critical section of initMutex is one action: the only thing a thread  *)
(* outside the mutex can see of it is its single store to fState.          *)
(***************************************************************************)
EXTENDS UInitOnce

VARIABLE waiters      \* the threads blocked in pthread_cond_wait

vars == <<onceVars, waiters>>

Init == OnceInit /\ waiters = {}

\* Mutant of PreInit: fState is tested and set without a claim, so that a
\* second thread enters while the first still runs.
PreInitUnclaimed(t) ==
    /\ \/ /\ fState # 2
          /\ fState' = 1
          /\ Goto(t, "preInit", "init")
       \/ /\ fState = 2
          /\ Goto(t, "preInit", "readErr")
          /\ UNCHANGED fState
    /\ UNCHANGED <<fErrCode, errCode, resets, waiters>>

\* umtx_initImplPreInit up to its first blocking call: claim the run,
\* wait for the thread that has it, or find it completed.
PreInit(t) ==
    /\ \/ /\ fState = 0
          /\ fState' = 1
          /\ Goto(t, "preInit", "init")
          /\ UNCHANGED waiters
       \/ /\ fState = 1
          /\ Goto(t, "preInit", "wait")
          /\ waiters' = waiters \union {t}
          /\ UNCHANGED fState
       \/ /\ fState = 2
          /\ Goto(t, "preInit", "readErr")
          /\ UNCHANGED <<fState, waiters>>
    /\ UNCHANGED <<fErrCode, errCode, resets>>

\* Mutant of Recheck: "if" instead of "while" around pthread_cond_wait.
RecheckOnce(t) ==
    /\ t \notin waiters
    /\ Goto(t, "wait", "readErr")
    /\ UNCHANGED <<fState, fErrCode, errCode, resets, waiters>>

\* A woken thread holds initMutex again: while (uio.fState == 1) wait.
Recheck(t) ==
    /\ t \notin waiters
    /\ \/ /\ fState = 1
          /\ Goto(t, "wait", "wait")
          /\ waiters' = waiters \union {t}
       \/ /\ fState # 1
          /\ Goto(t, "wait", "readErr")
          /\ UNCHANGED waiters
    /\ UNCHANGED <<fState, fErrCode, errCode, resets>>

\* POSIX allows pthread_cond_wait to return without a broadcast.
SpuriousWakeup(t) ==
    /\ t \in waiters
    /\ waiters' = waiters \ {t}
    /\ UNCHANGED onceVars

\* Mutant of PostInit: the broadcast is forgotten.
PostInitSilent(t) ==
    /\ Goto(t, "postInit", "return")
    /\ fState' = 2
    /\ UNCHANGED <<fErrCode, errCode, resets, waiters>>

\* Mutant of PostInit: a failed run is left to be tried again.
PostInitRetry(t) ==
    /\ Goto(t, "postInit", "return")
    /\ fState' = IF fErrCode \in Failures THEN 0 ELSE 2
    /\ waiters' = {}
    /\ UNCHANGED <<fErrCode, errCode, resets>>

\* umtx_initImplPostInit: publish completion and wake everybody.
PostInit(t) ==
    /\ Goto(t, "postInit", "return")
    /\ fState' = 2
    /\ waiters' = {}
    /\ UNCHANGED <<fErrCode, errCode, resets>>

\* The steps a thread inside umtx_initOnce takes by itself.
Step(t) ==
    \/ TemplateStep(t) /\ UNCHANGED waiters
    \/ PreInit(t)
    \/ Recheck(t)
    \/ PostInit(t)

Next ==
    \/ \E t \in Threads : (Call(t) /\ UNCHANGED waiters) \/ Step(t) \/ SpuriousWakeup(t)
    \/ Reset /\ UNCHANGED waiters

Spec == Init /\ [][Next]_vars

\* A thread that can run does run, and initialization functions terminate.
Fairness == \A t \in Threads : WF_vars(Step(t))

FairSpec == Spec /\ Fairness

-----------------------------------------------------------------------------
\* The broadcast in umtx_initImplPostInit cannot be missed: no thread sleeps
\* on initCondition once the initialization it waits for has completed.
NoMissedBroadcast == waiters # {} => fState = 1
=============================================================================
