------------------------- MODULE UConditionVarWin32 -------------------------
(***************************************************************************)
(* source/common/umutex.cpp, Windows: a condition variable made of two     *)
(* manual-reset events and a count of waiting threads.  A broadcast opens  *)
(* the entry gate; the threads that pass it wait for each other at the     *)
(* exit gate, which the last one opens after it has shut the entry gate.   *)
(*                                                                         *)
(* pc[t] is where thread t is:                                             *)
(*   "out", "in"      without and with the mutex, not in umtx_condWait     *)
(*   "entry"          about to call WaitForSingleObject(fEntryGate)        *)
(*   "entryBlocked"   blocked in it                                        *)
(*   "entered"        past it, about to lock the mutex                     *)
(*   "exit", "exitBlocked", "exited"   the same for fExitGate              *)
(* SetEvent releases all threads that are blocked on the event, also if it *)
(* is reset before they run.                                               *)
(***************************************************************************)
EXTENDS Integers, FiniteSets

CONSTANTS Threads, NULL

ASSUME ThreadsAssumption == IsFiniteSet(Threads) /\ NULL \notin Threads

VARIABLES
    owner,                   \* of the mutex, between steps
    pc,
    fWaitCount,
    fEntryGate, fExitGate,   \* "null", "shut" or "open"
    notified,   \* history: in condWait, and was when a broadcast came
    passed      \* history: passed the entry gate since it was opened

vars == <<owner, pc, fWaitCount, fEntryGate, fExitGate, notified, passed>>

At(S) == {t \in Threads : pc[t] \in S}
Counted == At({"entry", "entryBlocked", "entered"})

Init ==
    /\ owner = NULL
    /\ pc = [t \in Threads |-> "out"]
    /\ fWaitCount = 0
    /\ fEntryGate = "null" /\ fExitGate = "null"
    /\ notified = {} /\ passed = {}

\* umtx_lock() and umtx_unlock() by a thread that is not in umtx_condWait().
Lock(t) ==
    /\ pc[t] = "out" /\ owner = NULL
    /\ owner' = t
    /\ pc' = [pc EXCEPT ![t] = "in"]
    /\ UNCHANGED <<fWaitCount, fEntryGate, fExitGate, notified, passed>>

Unlock(t) ==
    /\ pc[t] = "in"
    /\ owner' = NULL
    /\ pc' = [pc EXCEPT ![t] = "out"]
    /\ UNCHANGED <<fWaitCount, fEntryGate, fExitGate, notified, passed>>

\* Mutant of BroadcastEvents: the exit gate is left as it is.
BroadcastEventsExitOpen ==
    /\ fEntryGate' = "open"
    /\ UNCHANGED fExitGate

\* ResetEvent(fExitGate); SetEvent(fEntryGate);
BroadcastEvents ==
    /\ fExitGate' = "shut"
    /\ fEntryGate' = "open"

\* Mutant of NobodyWaits: off by one.
HardlyAnybodyWaits == fWaitCount <= 1

NobodyWaits == fWaitCount = 0

\* umtx_condBroadcast(), with the mutex locked.  Who waits is notified, by
\* the promise of a broadcast, also where the early return is taken.
Broadcast(t) ==
    /\ pc[t] = "in"
    /\ notified' = notified \union At({"entry", "entryBlocked"})
    /\ IF NobodyWaits
       THEN UNCHANGED <<pc, fEntryGate, fExitGate, passed>>
       ELSE /\ BroadcastEvents
            /\ pc' = [u \in Threads |->
                         IF pc[u] = "entryBlocked" THEN "entered" ELSE pc[u]]
            /\ passed' = At({"entryBlocked"})
    /\ UNCHANGED <<owner, fWaitCount>>

\* Mutant of CountUp: counted only by the call that creates the events.
CountUpFirst == fWaitCount' = IF fEntryGate = "null" THEN 1 ELSE fWaitCount

CountUp == fWaitCount' = fWaitCount + 1

\* The first part of umtx_condWait(), up to umtx_unlock(): on the first call,
\* create the events.
Wait(t) ==
    /\ pc[t] = "in"
    /\ IF fEntryGate = "null"
       THEN fEntryGate' = "shut" /\ fExitGate' = "open"
       ELSE UNCHANGED <<fEntryGate, fExitGate>>
    /\ CountUp
    /\ owner' = NULL
    /\ pc' = [pc EXCEPT ![t] = "entry"]
    /\ UNCHANGED <<notified, passed>>

\* WaitForSingleObject(fEntryGate) returns at once or blocks.
WaitForEntryGate(t) ==
    /\ pc[t] = "entry"
    /\ IF fEntryGate = "open"
       THEN /\ pc' = [pc EXCEPT ![t] = "entered"]
            /\ passed' = passed \union {t}
       ELSE /\ pc' = [pc EXCEPT ![t] = "entryBlocked"]
            /\ UNCHANGED passed
    /\ UNCHANGED <<owner, fWaitCount, fEntryGate, fExitGate, notified>>

\* fWaitCount is zero after this thread has decremented it.
IsLast == fWaitCount = 1

\* Mutant of LastEvents: the exit gate stays shut.
LastEventsEntryOnly ==
    /\ fEntryGate' = "shut"
    /\ UNCHANGED <<fExitGate>>

\* ResetEvent(fEntryGate); SetEvent(fExitGate);
LastEvents ==
    /\ fEntryGate' = "shut"
    /\ fExitGate' = "open"

\* umtx_condWait() after the entry gate: lock, count down; the last thread
\* turns the gates and returns with the mutex, another one unlocks it again.
\* Nothing can happen to the count or the mutex in between.
CountDown(t) ==
    /\ pc[t] = "entered" /\ owner = NULL
    /\ fWaitCount' = fWaitCount - 1
    /\ IF IsLast
       THEN /\ LastEvents
            /\ pc' = [u \in Threads |->
                         IF u = t THEN "in"
                         ELSE IF pc[u] = "exitBlocked" THEN "exited" ELSE pc[u]]
            /\ owner' = t
            /\ notified' = notified \ {t}
       ELSE /\ pc' = [pc EXCEPT ![t] = "exit"]
            /\ UNCHANGED <<owner, fEntryGate, fExitGate, notified>>
    /\ UNCHANGED passed

\* WaitForSingleObject(fExitGate) returns at once or blocks.
WaitForExitGate(t) ==
    /\ pc[t] = "exit"
    /\ pc' = [pc EXCEPT ![t] = IF fExitGate = "open" THEN "exited" ELSE "exitBlocked"]
    /\ UNCHANGED <<owner, fWaitCount, fEntryGate, fExitGate, notified, passed>>

\* The last umtx_lock() of umtx_condWait(), which then returns.
Return(t) ==
    /\ pc[t] = "exited" /\ owner = NULL
    /\ owner' = t
    /\ pc' = [pc EXCEPT ![t] = "in"]
    /\ notified' = notified \ {t}
    /\ UNCHANGED <<fWaitCount, fEntryGate, fExitGate, passed>>

Next == \E t \in Threads :
            \/ Lock(t) \/ Unlock(t) \/ Broadcast(t)
            \/ Wait(t) \/ WaitForEntryGate(t) \/ CountDown(t)
            \/ WaitForExitGate(t) \/ Return(t)

Spec == Init /\ [][Next]_vars

\* A thread leaves the mutex it has by umtx_unlock() or umtx_condWait(), a
\* thread that can run runs, and one that waits for the mutex gets it.
Fairness ==
    \A t \in Threads :
        /\ WF_vars(Unlock(t) \/ Wait(t))
        /\ WF_vars(WaitForEntryGate(t) \/ WaitForExitGate(t))
        /\ SF_vars(CountDown(t) \/ Return(t))

FairSpec == Spec /\ Fairness

-----------------------------------------------------------------------------
\* Every variable stays in its type, the two events are created together (the
\* U_ASSERT in umtx_condWait), and the mutex has the owner pc says.
TypeOK ==
    /\ owner \in Threads \union {NULL}
    /\ pc \in [Threads -> {"out", "in", "entry", "entryBlocked", "entered",
                           "exit", "exitBlocked", "exited"}]
    /\ fWaitCount \in Nat
    /\ fEntryGate \in {"null", "shut", "open"}
    /\ fExitGate \in {"null", "shut", "open"}
    /\ fEntryGate = "null" <=> fExitGate = "null"
    /\ notified \subseteq Threads /\ passed \subseteq Threads
    /\ \A t \in Threads : pc[t] = "in" <=> owner = t

\* fWaitCount counts the threads that have not passed the entry gate and
\* taken the mutex since: what umtx_condBroadcast and the last thread to
\* leave decide by.
CountExact == fWaitCount = Cardinality(Counted)

\* No wakeup is lost between umtx_unlock and WaitForSingleObject: a thread
\* that was waiting when a broadcast came is past the entry gate or finds it
\* open, and a thread at the exit gate finds it open unless one is still to
\* come that will open it.
NoLostWakeup ==
    /\ \A t \in notified :
          /\ pc[t] # "entryBlocked"
          /\ pc[t] = "entry" => fEntryGate = "open"
    /\ \A t \in At({"exitBlocked"}) : fExitGate # "open"
    /\ At({"exit", "exitBlocked"}) # {} /\ fExitGate # "open"
          => fEntryGate = "open" /\ fWaitCount > 0

\* The purpose of the exit gate: no thread is woken twice by one broadcast,
\* by calling umtx_condWait again while the entry gate is still open.
OncePerBroadcast ==
    [][\A t \in Threads :
          pc[t] = "entry" /\ pc'[t] = "entered" => t \notin passed]_vars

\* The events implement the condition variable that umutex.h describes, and
\* that the users of it assume, also its promise that a broadcast wakes all.
CV == INSTANCE CondVar WITH
          waiting <- At({"entry", "entryBlocked"}) \ notified,
          woken <- (At({"entry", "entryBlocked"}) \intersect notified)
                      \union At({"entered", "exit", "exitBlocked", "exited"})
ImplementsCondVar == CV!FairSpec

-----------------------------------------------------------------------------
\* The inductive invariant behind the safety properties: the entry gate is
\* open, and the exit gate shut, just while a thread that passed the entry
\* gate or may pass it has not counted down; who passed it is not back at it.
Gates ==
    /\ fEntryGate = "null" => At({"out", "in"}) = Threads
    /\ fEntryGate = "open" <=> fExitGate = "shut"
    /\ fEntryGate = "open" =>
          /\ fWaitCount > 0
          /\ \A t \in passed : pc[t] \in {"entered", "exit", "exitBlocked"}
    /\ At({"entered"}) # {} => fEntryGate = "open"
    /\ fEntryGate = "open" => At({"entryBlocked"}) = {}
    /\ notified \subseteq Threads \ At({"out", "in"})

IInv == TypeOK /\ CountExact /\ NoLostWakeup /\ Gates
=============================================================================
