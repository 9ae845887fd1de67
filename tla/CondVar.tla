------------------------------- MODULE CondVar ------------------------------
(***************************************************************************)
(* What source/common/umutex.h promises of a UMutex and a UConditionVar    *)
(* used with it, and what its users (UnifiedCache) rely on: a broadcast    *)
(* wakes every thread that waits, and a thread that waits may also wake    *)
(* without one.  On POSIX systems umutex.cpp hands this through to         *)
(* pthreads; on Windows it is built from two events (UConditionVarWin32).  *)
(***************************************************************************)
CONSTANTS Threads, NULL

VARIABLES
    owner,     \* the thread that has the mutex, or NULL
    waiting,   \* threads in umtx_condWait that nothing has woken
    woken      \* threads in umtx_condWait that have to retake the mutex

vars == <<owner, waiting, woken>>

Init == owner = NULL /\ waiting = {} /\ woken = {}

\* umtx_lock() and umtx_unlock().
Lock(t) ==
    /\ t \notin waiting \union woken
    /\ owner = NULL
    /\ owner' = t
    /\ UNCHANGED <<waiting, woken>>

Unlock(t) ==
    /\ owner = t
    /\ owner' = NULL
    /\ UNCHANGED <<waiting, woken>>

\* umtx_condWait(): enter it, wake without a broadcast, return from it.
Wait(t) ==
    /\ owner = t
    /\ owner' = NULL
    /\ waiting' = waiting \union {t}
    /\ UNCHANGED woken

SpuriousWakeup(t) ==
    /\ t \in waiting
    /\ waiting' = waiting \ {t}
    /\ woken' = woken \union {t}
    /\ UNCHANGED owner

Return(t) ==
    /\ t \in woken
    /\ owner = NULL
    /\ owner' = t
    /\ woken' = woken \ {t}
    /\ UNCHANGED waiting

\* umtx_condBroadcast(), called with the mutex locked.
Broadcast(t) ==
    /\ owner = t
    /\ woken' = woken \union waiting
    /\ waiting' = {}
    /\ UNCHANGED owner

Next == \E t \in Threads :
            \/ Lock(t) \/ Unlock(t)
            \/ Wait(t) \/ SpuriousWakeup(t) \/ Return(t)
            \/ Broadcast(t)

Spec == Init /\ [][Next]_vars

\* A woken thread gets the mutex, given that its owners let go of it.
FairSpec == Spec /\ \A t \in Threads : SF_vars(Return(t))
=============================================================================
