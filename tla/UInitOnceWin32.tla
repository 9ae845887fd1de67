--------------------------- MODULE UInitOnceWin32 ---------------------------
(***************************************************************************)
(* umtx_initOnce() with the Windows hooks of source/common/umutex.cpp: the *)
(* run is claimed by InterlockedCompareExchange, and a thread that finds   *)
(* it claimed polls fState until it is no longer 1.                        *)
(***************************************************************************)
EXTENDS UInitOnce

vars == onceVars

Init == OnceInit

\* Mutant of PreInit: a load and a test instead of the compare-and-exchange;
\* "wait" stands for the point between the two.
PreInitTorn(t) ==
    /\ \/ /\ fState = 0
          /\ Goto(t, "preInit", "init")
          /\ fState' = 0
       \/ /\ fState = 1
          /\ Goto(t, "preInit", "wait")
          /\ UNCHANGED fState
       \/ /\ fState = 2
          /\ Goto(t, "preInit", "readErr")
          /\ UNCHANGED fState
    /\ UNCHANGED <<fErrCode, errCode, resets>>

\* One iteration of the for loop of umtx_initImplPreInit, up to Sleep(1).
PreInit(t) ==
    /\ \/ /\ fState = 0
          /\ fState' = 1
          /\ Goto(t, "preInit", "init")
       \/ /\ fState = 1
          /\ Goto(t, "preInit", "wait")
          /\ UNCHANGED fState
       \/ /\ fState = 2
          /\ Goto(t, "preInit", "readErr")
          /\ UNCHANGED fState
    /\ UNCHANGED <<fErrCode, errCode, resets>>

\* Mutant of Poll: the loop leaves only when it sees 0.
PollForReset(t) ==
    /\ Goto(t, "wait", IF fState # 0 THEN "wait" ELSE "preInit")
    /\ UNCHANGED <<fState, fErrCode, errCode, resets>>

\* do { Sleep(1); load fState } while (previousState == 1); then loop.
Poll(t) ==
    /\ Goto(t, "wait", IF fState = 1 THEN "wait" ELSE "preInit")
    /\ UNCHANGED <<fState, fErrCode, errCode, resets>>

\* Mutant of PostInit: what its comment says of a failed initialization.
PostInitRetry(t) ==
    /\ Goto(t, "postInit", "return")
    /\ fState' = IF fErrCode \in Failures THEN 0 ELSE 2
    /\ UNCHANGED <<fErrCode, errCode, resets>>

\* umtx_initImplPostInit: umtx_storeRelease(uio.fState, 2).
PostInit(t) ==
    /\ Goto(t, "postInit", "return")
    /\ fState' = 2
    /\ UNCHANGED <<fErrCode, errCode, resets>>

Step(t) == TemplateStep(t) \/ PreInit(t) \/ Poll(t) \/ PostInit(t)

Next == Reset \/ \E t \in Threads : Call(t) \/ Step(t)

Spec == Init /\ [][Next]_vars

\* A thread that can run does run, and initialization functions terminate.
Fairness == \A t \in Threads : WF_vars(Step(t))

FairSpec == Spec /\ Fairness
=============================================================================
