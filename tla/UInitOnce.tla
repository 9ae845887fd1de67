------------------------------ MODULE UInitOnce ------------------------------
(***************************************************************************)
(* The platform-neutral half of source/common/umutex.h: struct UInitOnce   *)
(* and the body of the umtx_initOnce() templates.  The two platform hooks, *)
(* umtx_initImplPreInit and umtx_initImplPostInit, are in UInitOncePosix   *)
(* and UInitOnceWin32, which extend this module.  The templates without an *)
(* error code are those whose function always leaves a success status.     *)
(*                                                                         *)
(* pc[t] is where thread t stands:                                         *)
(*   "idle"      outside umtx_initOnce                                     *)
(*   "load"      about to test fState with umtx_loadAcquire                *)
(*   "preInit"   about to run (or inside) umtx_initImplPreInit             *)
(*   "wait"      inside umtx_initImplPreInit, blocked by a running init    *)
(*   "init"      running the initialization function                       *)
(*   "store"     about to store its status in fErrCode                     *)
(*   "postInit"  about to run umtx_initImplPostInit                        *)
(*   "return"    about to return after umtx_initImplPostInit               *)
(*   "readErr"   about to copy a failure from fErrCode, then return        *)
(***************************************************************************)
EXTENDS Integers

CONSTANTS Threads,    \* the threads that call umtx_initOnce
          Status,     \* the UErrorCode values that are told apart
          Failures,   \* those for which U_FAILURE() holds
          ZeroError,  \* U_ZERO_ERROR
          MaxResets   \* bound: how many times a cleanup function runs

ASSUME StatusAssumption == /\ Failures \subseteq Status
                           /\ ZeroError \in Status \ Failures
ASSUME MaxResetsAssumption == MaxResets \in Nat

VARIABLES fState,     \* UInitOnce.fState: 0 reset, 1 running, 2 done
          fErrCode,   \* UInitOnce.fErrCode
          errCode,    \* errCode[t]: the UErrorCode variable of thread t
          pc,         \* pc[t]: control state of thread t
          resets      \* how many resets so far (bounded by MaxResets)

onceVars == <<fState, fErrCode, errCode, pc, resets>>

\* Control moves of one thread, leaving the shared state alone.
Goto(t, from, to) ==
    /\ pc[t] = from
    /\ pc' = [pc EXCEPT ![t] = to]

\* U_INITONCE_INITIALIZER.
OnceInit ==
    /\ fState = 0
    /\ fErrCode = ZeroError
    /\ errCode = [t \in Threads |-> ZeroError]
    /\ pc = [t \in Threads |-> "idle"]
    /\ resets = 0

\* umtx_initOnce(uio, fp, errCode) is called: a failure returns at once.
Call(t) ==
    /\ pc[t] = "idle"
    /\ \E e \in Status :
          /\ errCode' = [errCode EXCEPT ![t] = e]
          /\ pc' = [pc EXCEPT ![t] = IF e \in Failures THEN "idle" ELSE "load"]
    /\ UNCHANGED <<fState, fErrCode, resets>>

\* if (umtx_loadAcquire(uio.fState) != 2 && umtx_initImplPreInit(uio))
LoadState(t) ==
    /\ Goto(t, "load", IF fState = 2 THEN "readErr" ELSE "preInit")
    /\ UNCHANGED <<fState, fErrCode, errCode, resets>>

\* (*fp)(errCode): the function may leave any status.
RunInit(t) ==
    /\ Goto(t, "init", "store")
    /\ \E r \in Status : errCode' = [errCode EXCEPT ![t] = r]
    /\ UNCHANGED <<fState, fErrCode, resets>>

\* uio.fErrCode = errCode;
StoreErrCode(t) ==
    /\ Goto(t, "store", "postInit")
    /\ fErrCode' = errCode[t]
    /\ UNCHANGED <<fState, errCode, resets>>

\* Someone else already ran the initialization: copy a failure, return.
ReadErrCode(t) ==
    /\ Goto(t, "readErr", "idle")
    /\ errCode' = [errCode EXCEPT ![t] =
                      IF fErrCode \in Failures THEN fErrCode ELSE @]
    /\ UNCHANGED <<fState, fErrCode, resets>>

\* The thread that ran the initialization returns with its own status.
ReturnAfterInit(t) ==
    /\ Goto(t, "return", "idle")
    /\ UNCHANGED <<fState, fErrCode, errCode, resets>>

\* UInitOnce::reset(), called by cleanup functions.  u_cleanup() is not
\* thread safe: all threads have stopped using ICU.
Reset ==
    /\ resets < MaxResets
    /\ \A t \in Threads : pc[t] = "idle"
    /\ fState' = 0
    /\ resets' = resets + 1
    /\ UNCHANGED <<fErrCode, errCode, pc>>

\* The steps of umtx_initOnce outside the platform hooks.
TemplateStep(t) ==
    \/ LoadState(t)
    \/ RunInit(t)
    \/ StoreErrCode(t)
    \/ ReadErrCode(t)
    \/ ReturnAfterInit(t)

-----------------------------------------------------------------------------
\* The threads between a TRUE from PreInit and the end of PostInit.
Running == {t \in Threads : pc[t] \in {"init", "store", "postInit"}}

\* The state of the abstract specification that this state represents.
AbsPhase ==
    CASE fState = 0 -> "reset"
      [] fState = 2 -> "done"
      [] OTHER -> IF \E t \in Running : pc[t] # "init" THEN "ran" ELSE "running"

AbsRunner == IF fState = 1 THEN CHOOSE t \in Running : TRUE ELSE "noThread"

AbsResult ==
    IF \E t \in Threads : pc[t] = "store"
    THEN errCode[CHOOSE t \in Threads : pc[t] = "store"]
    ELSE fErrCode

Once == INSTANCE InitOnce WITH
            phase   <- AbsPhase,
            runner  <- AbsRunner,
            result  <- AbsResult,
            calling <- {t \in Threads : pc[t] # "idle"},
            errCode <- errCode

\* umtx_initImplPreInit hands the run to one thread at a time, and fState is
\* 1 exactly while some thread has it: no second thread is inside the
\* initialization function, and none is missing when others wait for it.
OneInitializer ==
    /\ \A t, u \in Running : t = u
    /\ fState = 1 <=> Running # {}

\* U_ASSERT(uio.fState == 2) at the end of umtx_initImplPreInit: a thread
\* that is told not to initialize finds the initialization completed, also
\* after it read fState outside the mutex.
DoneWhenToldNotToInit ==
    \A t \in Threads : pc[t] \in {"readErr", "return"} => fState = 2

\* Both implementations of umtx_initOnce have only the behaviours of InitOnce:
\* one run between resets, whose failure every call reports.
ImplementsInitOnce == Once!Spec

\* Every call of umtx_initOnce returns, also where waiting threads only poll.
CallsReturn == \A t \in Threads : pc[t] # "idle" ~> pc[t] = "idle"
=============================================================================
