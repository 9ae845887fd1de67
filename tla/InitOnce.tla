------------------------------ MODULE InitOnce ------------------------------
(***************************************************************************)
(* What umtx_initOnce() promises to its callers, whatever the platform     *)
(* (source/common/umutex.h): the initialization function runs at most once *)
(* between two resets of the UInitOnce, a call that has to report on that  *)
(* run returns only after it completed, and every call reports the failure *)
(* the run ended with.                                                     *)
(***************************************************************************)
CONSTANTS Threads,    \* the callers of umtx_initOnce
          Status,     \* the UErrorCode values that are told apart
          Failures    \* those for which U_FAILURE() holds

VARIABLES phase,      \* "reset", "running", "ran" or "done"
          runner,     \* the thread that runs the function, or NoThread
          result,     \* the status the last completed run ended with
          calling,    \* the threads inside umtx_initOnce
          errCode     \* errCode[t]: the status variable of thread t

vars == <<phase, runner, result, calling, errCode>>

NoThread == "noThread"

Init ==
    /\ phase = "reset"
    /\ runner = NoThread
    /\ result \in Status
    /\ calling = {}
    /\ errCode \in [Threads -> Status]

\* A thread enters umtx_initOnce; a failure passed in returns at once.
Call(t) ==
    /\ t \notin calling
    /\ \E e \in Status :
          /\ errCode' = [errCode EXCEPT ![t] = e]
          /\ calling' = IF e \in Failures THEN calling ELSE calling \union {t}
    /\ UNCHANGED <<phase, runner, result>>

\* One of the callers starts the initialization function.
Start(t) ==
    /\ phase = "reset"
    /\ t \in calling
    /\ phase' = "running"
    /\ runner' = t
    /\ UNCHANGED <<result, calling, errCode>>

\* The function returns to the thread that ran it.
Run ==
    /\ phase = "running"
    /\ phase' = "ran"
    /\ \E r \in Status :
          /\ result' = r
          /\ errCode' = [errCode EXCEPT ![runner] = r]
    /\ UNCHANGED <<runner, calling>>

\* The completed run is published: from now on calls may return.
Publish ==
    /\ phase = "ran"
    /\ phase' = "done"
    /\ runner' = NoThread
    /\ UNCHANGED <<result, calling, errCode>>

\* A call returns with the failure of the run, or with its own status.
Return(t) ==
    /\ phase = "done"
    /\ t \in calling
    /\ calling' = calling \ {t}
    /\ errCode' = [errCode EXCEPT ![t] = IF result \in Failures THEN result ELSE @]
    /\ UNCHANGED <<phase, runner, result>>

\* A cleanup function resets the UInitOnce while nobody is calling.
Reset ==
    /\ calling = {}
    /\ phase = "done"
    /\ phase' = "reset"
    /\ UNCHANGED <<runner, result, calling, errCode>>

Next ==
    \/ \E t \in Threads : Call(t) \/ Start(t) \/ Return(t)
    \/ Run \/ Publish \/ Reset

Spec == Init /\ [][Next]_vars
=============================================================================
