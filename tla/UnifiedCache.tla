---------------------------- MODULE UnifiedCache ----------------------------
(***************************************************************************)
(* source/common/unifiedcache.cpp and sharedobject.cpp: the process-wide   *)
(* cache of reference counted objects, used by several threads.            *)
(*                                                                         *)
(* A slot is a pointer variable that owns one (hard) reference: the ptr    *)
(* argument of a client's get(), the local "value" of a running _get(), or *)
(* the pointer one shared object holds to another.  ref[s] is where slot s *)
(* points.  The hash table owns soft references.                           *)
(*                                                                         *)
(* get() for key k runs createObject() for k on a miss, which may call     *)
(* get() for Parent[k]; a thread is inside at most one get() per key, and  *)
(* pc[t][k] is where thread t stands in it:                                *)
(*   "out"       not inside get() for k                                    *)
(*   "poll"      about to take gCacheMutex in _poll                        *)
(*   "wait"      in umtx_condWait, or woken and about to retake the mutex  *)
(*   "create"    about to call createObject                                *)
(*   "nested"    in createObject, inside get() for Parent[k]               *)
(*   "put"       about to take gCacheMutex in _putIfAbsentAndGet           *)
(*   "fetched"   has the value that is in the cache                        *)
(*   "uncached"  has its own value, which could not be added to the cache  *)
(*   "done"      failed to announce the creation, has no value             *)
(*                                                                         *)
(* A section under gCacheMutex is one action unless it can run destructors *)
(* or looks at several reference counts, which other threads change        *)
(* without the mutex: then lock is its thread until the section ends.      *)
(***************************************************************************)
EXTENDS Integers, FiniteSets

CONSTANTS Threads, Keys,
          Objects,     \* identities of shared objects (an allocation pool)
          NULL,
          gNoValue,    \* the placeholder object
          Parent,      \* Parent[k]: what createObject for k gets first, or NULL
          Use,         \* Use[k]: what it does with that: "return", "hold", "drop"
          MaxFlushes   \* bound: calls of flush() and of u_cleanup()

ASSUME ObjectsAssumption ==
    /\ NULL \notin Objects \union Threads \union Keys \union {gNoValue}
    /\ gNoValue \notin Objects
    /\ IsFiniteSet(Threads) /\ IsFiniteSet(Keys) /\ IsFiniteSet(Objects)
ASSUME ParentAssumption ==
    /\ Parent \in [Keys -> Keys \union {NULL}]
    /\ Use \in [Keys -> {"return", "hold", "drop"}]
    /\ \E rank \in [Keys -> 0..Cardinality(Keys)] :
          \A k \in Keys : Parent[k] # NULL => rank[Parent[k]] < rank[k]
ASSUME MaxFlushesAssumption == MaxFlushes \in Nat

VARIABLES
    up,              \* gCache and gNoValue exist
    value,           \* value[k]: the hash element's value, NULL if absent
    creationStatus,  \* creationStatus[k]: status kept in the element's key
    total, soft,     \* totalRefCount, softRefCount of every object
    live,            \* the objects that are allocated
    ref,             \* ref[s]: where slot s points
    pc, status,      \* of every running _get
    dying,           \* dying[t]: the object whose destructor t has to run
    lock, mode,      \* owner of gCacheMutex across steps, and what for
    todo, flushed,   \* _flush: elements still to visit; its result so far
    raced,           \* someone else dropped a reference during this flush
    waiters,         \* threads in umtx_condWait(gInProgressValueAddedCond)
    flushes          \* calls of flush or u_cleanup so far

cacheVars == <<value, creationStatus, soft, waiters>>
flushVars == <<lock, mode, todo, flushed, flushes, up>>
vars == <<up, value, creationStatus, total, soft, live, ref, pc, status, dying,
          lock, mode, todo, flushed, raced, waiters, flushes>>

AllObjects == Objects \union {gNoValue}
ZERO == "zero"
Successes == {ZERO, "warning"}
FAILURE == "failure"
Statuses == Successes \union {FAILURE}

Ptr(t) == <<"ptr", t>>
Value(t, k) == <<"value", <<t, k>>>>
Part(o) == <<"part", o>>
Slots == ({"ptr"} \X Threads) \union ({"value"} \X (Threads \X Keys))
                              \union ({"part"} \X Objects)

\* The slots, or hash elements, that point to o.
SlotsAt(r, o) == {s \in Slots : r[s] = o}
ElementsAt(v, o) == {k \in Keys : v[k] = o}
HardRefs(o) == SlotsAt(ref, o)
SoftRefs(o) == ElementsAt(value, o)

Goto(t, k, from, to) ==
    /\ pc[t][k] = from
    /\ pc' = [pc EXCEPT ![t][k] = to]

Outside(t) == /\ \A k \in Keys : pc[t][k] = "out"
              /\ dying[t] = NULL
              /\ lock # t
Stopped == mode \in {"final", "wipe"}     \* inside u_cleanup

-----------------------------------------------------------------------------
(* SharedObject *)

\* A count after one reference to minus went and one to plus came.
One(o, p) == IF o = p THEN 1 ELSE 0
Moved(count, minus, plus) ==
    [o \in AllObjects |-> count[o] + One(o, plus) - One(o, minus)]

\* Mutant of RemovedRef: the last soft reference is taken for none.
RemovedRefEarly(t, o) ==
    dying' = [dying EXCEPT ![t] = IF o \in Objects /\ total'[o] <= 1 THEN o ELSE NULL]

\* removeRef() by thread t of an object it pointed to: at zero, delete it.
RemovedRef(t, o) ==
    dying' = [dying EXCEPT ![t] = IF o # NULL /\ total'[o] = 0 THEN o ELSE NULL]

\* Mutant of CopyPtr: addRef() is forgotten.
CopyPtrUncounted(t, s, src) ==
    /\ ref' = [ref EXCEPT ![s] = src]
    /\ total' = IF src = ref[s] THEN total ELSE Moved(total, ref[s], NULL)
    /\ RemovedRef(t, ref[s])

\* Mutant of CopyPtr: the pointer that is overwritten is not released.
CopyPtrLeaks(t, s, src) ==
    /\ ref' = [ref EXCEPT ![s] = src]
    /\ total' = IF src = ref[s] THEN total ELSE Moved(total, NULL, src)
    /\ UNCHANGED dying

\* copyPtr(src, s) and clearPtr(s), which is copyPtr(NULL, s).
CopyPtr(t, s, src) ==
    /\ ref' = [ref EXCEPT ![s] = src]
    /\ total' = Moved(total, ref[s], src)
    /\ RemovedRef(t, ref[s])

\* Mutants of AllSoftReferences: an off-by-one; any count will do.
NearlySoftReferences(o) == total[o] <= soft[o] + 1
AnyReferences(o) == TRUE

AllSoftReferences(o) == total[o] = soft[o]

\* t drops a reference while another thread is inside flush().
NoteRace(t) ==
    raced' = (raced \/ (/\ lock \notin {NULL, t}
                       /\ \E o \in AllObjects : total'[o] < total[o]))

\* The destructor of the object that t's removeRef() brought to zero: it
\* clears the object's own pointer.  A fetch that was waiting for it unlocks.
Destroy(t) ==
    /\ dying[t] # NULL
    /\ live' = live \ {dying[t]}
    /\ CopyPtr(t, Part(dying[t]), NULL)
    /\ NoteRace(t)
    /\ IF lock = t /\ mode = "fetch" /\ dying'[t] = NULL
       THEN lock' = NULL /\ mode' = "none"
       ELSE UNCHANGED <<lock, mode>>
    /\ UNCHANGED <<cacheVars, pc, status, todo, flushed, flushes, up>>

-----------------------------------------------------------------------------
(* UnifiedCache: lookup *)

\* Mutant of InProgress: the creation status is not looked at.
NoValueYet(k) == value[k] = gNoValue

InProgress(k) == value[k] = gNoValue /\ creationStatus[k] = ZERO

\* Mutant of GetInstance: gNoValue gets no soft reference of its own.
GetInstanceUnreferenced(t) ==
    /\ Outside(t) /\ ~Stopped /\ ~up
    /\ up' = TRUE
    /\ live' = live \union {gNoValue}
    /\ UNCHANGED <<value, creationStatus, total, soft, ref, pc, status, dying,
                   lock, mode, todo, flushed, raced, waiters, flushes>>

\* getInstance() and cacheInit(), run once by umtx_initOnce.  When cacheInit()
\* fails, every call of getInstance() does until u_cleanup, and nothing changes.
GetInstance(t) ==
    /\ Outside(t) /\ ~Stopped /\ ~up
    /\ up' = TRUE
    /\ live' = live \union {gNoValue}
    /\ total' = [total EXCEPT ![gNoValue] = 1]
    /\ soft' = [soft EXCEPT ![gNoValue] = 1]
    /\ UNCHANGED <<value, creationStatus, ref, pc, status, dying, lock, mode,
                   todo, flushed, raced, waiters, flushes>>

\* A client that is not inside get() calls get(key, ptr, status).
Get(t, k) ==
    /\ Outside(t) /\ ~Stopped /\ up
    /\ Goto(t, k, "out", "poll")
    /\ UNCHANGED <<cacheVars, flushVars, total, live, ref, status, dying, raced>>

\* Mutant of Broadcast: nobody is woken.
BroadcastForgotten == UNCHANGED waiters

\* umtx_condBroadcast(&gInProgressValueAddedCond).
Broadcast == waiters' = {}

\* The element for k, absent so far, gets value v and creation status st.
PutNew(k, v, st) ==
    /\ value' = [value EXCEPT ![k] = v]
    /\ creationStatus' = [creationStatus EXCEPT ![k] = st]
    /\ total' = Moved(total, NULL, v)
    /\ soft' = Moved(soft, NULL, v)

\* _poll(): fetch what is there, wait while it is in progress, or announce
\* that this thread creates it.  Adding the element may fail for memory.
Poll(t, k) ==
    /\ lock = NULL /\ dying[t] = NULL
    /\ pc[t][k] \in {"poll", "wait"} /\ t \notin waiters
    /\ \/ /\ InProgress(k)
          /\ waiters' = waiters \union {t}
          /\ pc' = [pc EXCEPT ![t][k] = "wait"]
          /\ UNCHANGED <<value, creationStatus, soft, total, ref, status, dying>>
       \/ /\ value[k] # NULL /\ ~InProgress(k)
          /\ CopyPtr(t, Value(t, k), value[k])
          /\ status' = [status EXCEPT ![t][k] = creationStatus[k]]
          /\ pc' = [pc EXCEPT ![t][k] = "fetched"]
          /\ UNCHANGED cacheVars
       \/ /\ value[k] = NULL
          /\ PutNew(k, gNoValue, ZERO)
          /\ pc' = [pc EXCEPT ![t][k] = "create"]
          /\ UNCHANGED <<waiters, ref, status, dying>>
       \/ /\ value[k] = NULL
          /\ status' = [status EXCEPT ![t][k] = FAILURE]
          /\ pc' = [pc EXCEPT ![t][k] = "done"]
          /\ UNCHANGED <<cacheVars, total, ref, dying>>
    /\ UNCHANGED <<flushVars, live, raced>>

\* umtx_condWait may return without a broadcast.
SpuriousWakeup(t) ==
    /\ t \in waiters
    /\ waiters' = waiters \ {t}
    /\ UNCHANGED <<value, creationStatus, soft, flushVars, total, live, ref, pc,
                   status, dying, raced>>

-----------------------------------------------------------------------------
(* UnifiedCache: creation *)

\* createObject() for k returned NULL and a failure, then copyPtr(gNoValue).
\* base and st are the slots and statuses as createObject() found them;
\* dropped is a reference that it gave up.
CreateFails(t, k, base, st, dropped) ==
    /\ ref' = [base EXCEPT ![Value(t, k)] = gNoValue]
    /\ total' = Moved(total, dropped, gNoValue)
    /\ status' = [st EXCEPT ![t][k] = FAILURE]
    /\ UNCHANGED live

\* createObject() for k returned a new object, which holds a pointer to part.
CreateSucceeds(t, k, base, st, part, dropped) ==
    \E o \in Objects \ live, e \in Successes :
        /\ live' = live \union {o}
        /\ ref' = [base EXCEPT ![Value(t, k)] = o, ![Part(o)] = part]
        /\ total' = [Moved(total, dropped, NULL) EXCEPT ![o] = 1]
        /\ status' = [st EXCEPT ![t][k] = e]

\* createObject() for a key that needs no other: all of it in one step.
Create(t, k) ==
    /\ Parent[k] = NULL
    /\ dying[t] = NULL /\ Goto(t, k, "create", "put")
    /\ \/ CreateFails(t, k, ref, status, NULL)
       \/ CreateSucceeds(t, k, ref, status, NULL, NULL)
    /\ UNCHANGED <<cacheVars, flushVars, dying, raced>>

\* createObject() for a key that starts with get() for its parent.
CreateNested(t, k) ==
    /\ Parent[k] # NULL
    /\ dying[t] = NULL /\ pc[t][k] = "create"
    /\ pc' = [pc EXCEPT ![t][k] = "nested", ![t][Parent[k]] = "poll"]
    /\ UNCHANGED <<cacheVars, flushVars, total, live, ref, status, dying, raced>>

\* _putIfAbsentAndGet(): keep what is there, else store the created value.
PutIfAbsentAndGet(t, k) ==
    LET v == ref[Value(t, k)] IN
    /\ lock = NULL /\ dying[t] = NULL
    /\ \/ /\ value[k] # NULL /\ ~InProgress(k)
          /\ Goto(t, k, "put", "fetched")
          /\ CopyPtr(t, Value(t, k), value[k])
          /\ status' = [status EXCEPT ![t][k] = creationStatus[k]]
          /\ IF dying'[t] # NULL
             THEN lock' = t /\ mode' = "fetch"
             ELSE UNCHANGED <<lock, mode>>
          /\ UNCHANGED cacheVars
       \/ /\ value[k] = NULL
          /\ Goto(t, k, "put", "fetched")
          /\ PutNew(k, v, status[t][k])
          /\ UNCHANGED <<waiters, ref, status, dying, lock, mode>>
       \/ /\ value[k] = NULL
          /\ Goto(t, k, "put", "uncached")
          /\ UNCHANGED <<cacheVars, total, ref, status, dying, lock, mode>>
       \/ /\ InProgress(k)                     \* _put()
          /\ Goto(t, k, "put", "fetched")
          /\ value' = [value EXCEPT ![k] = v]
          /\ creationStatus' = [creationStatus EXCEPT ![k] = status[t][k]]
          /\ total' = Moved(total, gNoValue, v)
          /\ soft' = Moved(soft, gNoValue, v)
          /\ Broadcast
          /\ UNCHANGED <<ref, status, dying, lock, mode>>
    /\ UNCHANGED <<live, todo, flushed, flushes, up, raced>>

-----------------------------------------------------------------------------
(* UnifiedCache: returning from get() *)

\* The createObject() that called this get(), if it was not a client.
Caller(t, k) == {c \in Keys : pc[t][c] = "nested" /\ Parent[c] = k}

Returning(t, k) ==
    /\ dying[t] = NULL
    /\ pc[t][k] \in {"fetched", "uncached", "done"}

\* On success the client's pointer gets the value, and what it pointed to is
\* dropped.  gNoValue comes with a failure: it is cleared, the client's
\* pointer left alone.
ReturnToClient(t, k) ==
    LET v == ref[Value(t, k)] IN
    /\ Returning(t, k) /\ Caller(t, k) = {}
    /\ pc' = [pc EXCEPT ![t][k] = "out"]
    /\ status' = [status EXCEPT ![t][k] = ZERO]
    /\ IF status[t][k] \in Successes
       THEN /\ ref' = [ref EXCEPT ![Ptr(t)] = v, ![Value(t, k)] = NULL]
            /\ total' = Moved(total, ref[Ptr(t)], NULL)
            /\ RemovedRef(t, ref[Ptr(t)])
       ELSE CopyPtr(t, Value(t, k), NULL)
    /\ NoteRace(t)
    /\ UNCHANGED <<cacheVars, flushVars, live>>

\* createObject() for c got its parent's value or failed to, and completes.
ReturnToCreate(t, k, c) ==
    LET v == ref[Value(t, k)]
        base == [ref EXCEPT ![Value(t, k)] = NULL]
        st == [status EXCEPT ![t][k] = ZERO]
    IN
    /\ Returning(t, k) /\ c \in Caller(t, k)
    /\ pc' = [pc EXCEPT ![t][k] = "out", ![t][c] = "put"]
    /\ \/ /\ status[t][k] = FAILURE
          /\ CreateFails(t, c, base, st, v)
       \/ /\ status[t][k] # FAILURE /\ Use[c] = "return"
          /\ ref' = [base EXCEPT ![Value(t, c)] = v]
          /\ \E e \in Successes : status' = [st EXCEPT ![t][c] = e]
          /\ UNCHANGED <<total, live>>
       \/ /\ status[t][k] # FAILURE /\ Use[c] = "hold"
          /\ \/ CreateSucceeds(t, c, base, st, v, NULL)
             \/ CreateFails(t, c, base, st, v)
       \/ /\ status[t][k] # FAILURE /\ Use[c] = "drop"
          /\ \/ CreateSucceeds(t, c, base, st, NULL, v)
             \/ CreateFails(t, c, base, st, v)
    /\ RemovedRef(t, v)
    /\ NoteRace(t)
    /\ UNCHANGED <<cacheVars, flushVars>>

-----------------------------------------------------------------------------
(* Clients outside get() *)

\* removeRef() on the pointer a get() has set.
Release(t) ==
    /\ Outside(t) /\ ~Stopped
    /\ ref[Ptr(t)] # NULL
    /\ CopyPtr(t, Ptr(t), NULL)
    /\ NoteRace(t)
    /\ UNCHANGED <<cacheVars, flushVars, live, pc, status>>

\* A client copies its pointer for another one, with copyPtr or addRef.
Share(t, u) ==
    /\ Outside(t) /\ Outside(u) /\ ~Stopped
    /\ ref[Ptr(t)] # NULL /\ ref[Ptr(u)] = NULL
    /\ CopyPtr(u, Ptr(u), ref[Ptr(t)])
    /\ UNCHANGED <<cacheVars, flushVars, live, pc, status, raced>>

-----------------------------------------------------------------------------
(* UnifiedCache: flush, and the destructor run by u_cleanup *)

Elements == {k \in Keys : value[k] # NULL}

StartPass(t, m) ==
    /\ lock' = t
    /\ mode' = m
    /\ todo' = Elements
    /\ flushed' = FALSE

Flush(t) ==
    /\ Outside(t) /\ ~Stopped /\ up
    /\ lock = NULL /\ flushes < MaxFlushes
    /\ StartPass(t, "flush")
    /\ flushes' = flushes + 1
    /\ raced' = FALSE
    /\ UNCHANGED <<cacheVars, total, live, ref, pc, status, dying, up>>

\* unifiedcache_cleanup(): u_cleanup is not thread safe, so that no thread
\* is inside ICU; clients may still hold objects.
Cleanup(t) ==
    /\ \A u \in Threads : Outside(u)
    /\ lock = NULL /\ up /\ flushes < MaxFlushes
    /\ StartPass(t, "final")
    /\ flushes' = flushes + 1
    /\ raced' = FALSE
    /\ UNCHANGED <<cacheVars, total, live, ref, pc, status, dying, up>>

\* One iteration of the loop in _flush(all), all being TRUE in mode "wipe".
FlushElement(t, k) ==
    LET o == value[k] IN
    /\ lock = t /\ mode # "fetch" /\ dying[t] = NULL
    /\ k \in todo
    /\ todo' = todo \ {k}
    /\ IF mode = "wipe" \/ AllSoftReferences(o)
       THEN /\ value' = [value EXCEPT ![k] = NULL]
            /\ creationStatus' = [creationStatus EXCEPT ![k] = ZERO]
            /\ soft' = Moved(soft, o, NULL)
            /\ total' = Moved(total, o, NULL)
            /\ RemovedRef(t, o)
            /\ flushed' = TRUE
       ELSE UNCHANGED <<value, creationStatus, soft, total, dying, flushed>>
    /\ UNCHANGED <<lock, mode, flushes, up, waiters, live, ref, pc, status, raced>>

PassOver(t) == lock = t /\ mode # "fetch" /\ dying[t] = NULL /\ todo = {}

\* Mutant of AnotherPass: "if" instead of "while".
OnePass == FALSE

\* while (_flush(FALSE));
AnotherPass == flushed

FlushAgain(t) ==
    /\ PassOver(t) /\ mode # "wipe" /\ AnotherPass
    /\ StartPass(t, mode)
    /\ UNCHANGED <<cacheVars, total, live, ref, pc, status, dying, raced, flushes, up>>

\* Nothing was flushed: wake the waiters, and unlock or go on to wipe.
FlushEnds(t) ==
    /\ PassOver(t) /\ mode # "wipe" /\ ~AnotherPass
    /\ Broadcast
    /\ IF mode = "final"
       THEN StartPass(t, "wipe")
       ELSE lock' = NULL /\ mode' = "none" /\ UNCHANGED <<todo, flushed>>
    /\ UNCHANGED <<value, creationStatus, soft, total, live, ref, pc, status,
                   dying, raced, flushes, up>>

\* The end of ~UnifiedCache() and of unifiedcache_cleanup(): delete gNoValue.
WipeEnds(t) ==
    /\ PassOver(t) /\ mode = "wipe"
    /\ lock' = NULL /\ mode' = "none" /\ flushed' = FALSE
    /\ up' = FALSE
    /\ live' = live \ {gNoValue}
    /\ total' = [total EXCEPT ![gNoValue] = 0]
    /\ soft' = [soft EXCEPT ![gNoValue] = 0]
    /\ UNCHANGED <<value, creationStatus, ref, pc, status, dying, todo, raced,
                   waiters, flushes>>

-----------------------------------------------------------------------------
Init ==
    /\ up = FALSE
    /\ value = [k \in Keys |-> NULL]
    /\ creationStatus = [k \in Keys |-> ZERO]
    /\ total = [o \in AllObjects |-> 0]
    /\ soft = [o \in AllObjects |-> 0]
    /\ live = {}
    /\ ref = [s \in Slots |-> NULL]
    /\ pc = [t \in Threads |-> [k \in Keys |-> "out"]]
    /\ status = [t \in Threads |-> [k \in Keys |-> ZERO]]
    /\ dying = [t \in Threads |-> NULL]
    /\ lock = NULL /\ mode = "none"
    /\ todo = {} /\ flushed = FALSE /\ raced = FALSE
    /\ waiters = {} /\ flushes = 0

\* What a thread inside the cache does next.
GetStep(t) ==
    \E k \in Keys :
        \/ Poll(t, k)
        \/ Create(t, k)
        \/ CreateNested(t, k)
        \/ PutIfAbsentAndGet(t, k)
        \/ ReturnToClient(t, k)
        \/ \E c \in Keys : ReturnToCreate(t, k, c)

FlushStep(t) ==
    \/ \E k \in Keys : FlushElement(t, k)
    \/ FlushAgain(t)
    \/ FlushEnds(t)
    \/ WipeEnds(t)

Step(t) == GetStep(t) \/ FlushStep(t) \/ Destroy(t)

Client(t) ==
    \/ GetInstance(t)
    \/ \E k \in Keys : Get(t, k)
    \/ Release(t)
    \/ \E u \in Threads : Share(t, u)
    \/ Flush(t)
    \/ Cleanup(t)

Next == \E t \in Threads : Step(t) \/ Client(t) \/ SpuriousWakeup(t)

Spec == Init /\ [][Next]_vars

\* Threads that can run do run, createObject() and destructors terminate, and
\* a thread that keeps asking for gCacheMutex gets it.
Fairness ==
    \A t \in Threads :
        /\ WF_vars(Step(t))
        /\ SF_vars(\E k \in Keys : Poll(t, k) \/ PutIfAbsentAndGet(t, k))

FairSpec == Spec /\ Fairness

-----------------------------------------------------------------------------
\* Every variable stays in its type; no reference count goes below zero and
\* no thread comes to delete gNoValue by removeRef().
TypeOK ==
    /\ up \in BOOLEAN
    /\ value \in [Keys -> AllObjects \union {NULL}]
    /\ creationStatus \in [Keys -> Statuses]
    /\ total \in [AllObjects -> Nat] /\ soft \in [AllObjects -> Nat]
    /\ live \subseteq AllObjects
    /\ ref \in [Slots -> AllObjects \union {NULL}]
    /\ pc \in [Threads -> [Keys -> {"out", "poll", "wait", "create", "nested",
                                    "put", "fetched", "uncached", "done"}]]
    /\ status \in [Threads -> [Keys -> Statuses]]
    /\ dying \in [Threads -> Objects \union {NULL}]
    /\ lock \in Threads \union {NULL}
    /\ mode \in {"none", "fetch", "flush", "final", "wipe"}
    /\ todo \subseteq Keys /\ flushed \in BOOLEAN /\ raced \in BOOLEAN
    /\ waiters \subseteq Threads
    /\ flushes \in 0..MaxFlushes

\* The counts of every shared object are what they stand for: softRefCount
\* is the number of hash elements with that value, totalRefCount that and the
\* number of pointers that own a reference.  gNoValue has one soft reference
\* more while the cache exists (cacheInit).
RefCountsExact ==
    \A o \in AllObjects :
        /\ soft[o] = Cardinality(SoftRefs(o)) + (IF o = gNoValue /\ up THEN 1 ELSE 0)
        /\ total[o] = Cardinality(HardRefs(o)) + soft[o]

\* No pointer outlives its object: neither a client's, nor one of a running
\* get(), nor one inside another object, nor the value of a hash element.
NoDanglingPointer ==
    /\ \A s \in Slots : ref[s] # NULL => ref[s] \in live
    /\ \A k \in Keys : value[k] # NULL => value[k] \in live

\* No object is leaked: what is allocated and not about to be deleted is
\* still referenced, also after failed creations, lost races and u_cleanup.
NoLeak ==
    \A o \in live \ {gNoValue} :
        HardRefs(o) # {} \/ SoftRefs(o) # {} \/ \E t \in Threads : dying[t] = o

\* Threads that create a value for the same key at the same time, which a
\* flush() of the in-progress element makes possible, all return the one that
\* is in the cache (_putIfAbsentAndGet).
ReturnedIsCached ==
    \A t \in Threads, k \in Keys :
        pc[t][k] = "fetched" /\ ref[Value(t, k)] # gNoValue
            => value[k] = ref[Value(t, k)]

\* A thread in umtx_condWait waits for an element that is in progress and
\* that some other thread is going to complete; only inside flush(), which
\* ends with a broadcast, may the element be gone.
WaitersHaveCreator ==
    \A t \in waiters, k \in Keys :
        pc[t][k] = "wait" /\ lock = NULL
            => /\ InProgress(k)
               /\ \E u \in Threads : pc[u][k] \in {"create", "nested", "put"}

\* Outside the destructor of the cache, no step takes a value away from its
\* key, or replaces it, while somebody outside the cache has a pointer to it:
\* clients that hold a value for the same key hold the same object.
HeldValuesStay ==
    [][\A k \in Keys :
          value[k] \in Objects /\ value'[k] # value[k] /\ mode # "wipe"
              => HardRefs(value[k]) = {}]_vars

\* "Removes any values from cache that are not referenced outside the cache"
\* (flush() in unifiedcache.h): unless somebody drops a reference meanwhile,
\* every value still cached when flush() ends is referenced, also when values
\* that were flushed held the last references to others.
FlushLeavesOnlyReferenced ==
    [][\A t \in Threads :
          FlushEnds(t) /\ ~raced => \A k \in Elements : HardRefs(value[k]) # {}]_vars

-----------------------------------------------------------------------------
(* The inductive invariant behind the safety properties *)

\* What is referenced is allocated, and all else that is allocated is being
\* deleted.  An object being deleted is not referenced, and is deleted by one
\* thread; what is not allocated holds nothing.
Allocation ==
    /\ \A o \in AllObjects : total[o] > 0 => o \in live
    /\ \A o \in live \ {gNoValue} : total[o] > 0 \/ \E t \in Threads : dying[t] = o
    /\ \A o \in Objects \ live : ref[Part(o)] = NULL
    /\ \A t \in Threads :
          dying[t] # NULL => dying[t] \in live /\ total[dying[t]] = 0
    /\ \A t, u \in Threads : dying[t] # NULL /\ dying[t] = dying[u] => t = u

\* The local variables of a running _get(), and where gNoValue never is.
Locals ==
    /\ \A t \in Threads, k \in Keys :
          /\ ref[Value(t, k)] # NULL <=> pc[t][k] \in {"put", "fetched", "uncached"}
          /\ pc[t][k] \in {"put", "fetched", "uncached", "done"}
                => (status[t][k] = FAILURE <=> ref[Value(t, k)] \notin Objects)
    /\ \A t \in Threads : ref[Ptr(t)] # gNoValue
    /\ \A o \in Objects : ref[Part(o)] # gNoValue

\* A hash element has a value that was created, a failure or is in progress;
\* in the last case some thread is creating the value.
ElementsOK ==
    \A k \in Keys :
        /\ value[k] \in Objects => creationStatus[k] \in Successes
        /\ value[k] = gNoValue => creationStatus[k] \in {ZERO, FAILURE}
        /\ InProgress(k) =>
              \E t \in Threads : pc[t][k] \in {"create", "nested", "put"}

\* A waiting thread waits for an element in progress, unless a flush() that
\* has not ended yet removed the element.
WaitersOK ==
    \A t \in waiters, k \in Keys :
        pc[t][k] = "wait" => InProgress(k) \/ mode = "flush"

\* gCacheMutex and what its owner does; without a cache there is nothing.
Modes ==
    /\ lock = NULL <=> mode = "none"
    /\ Stopped \/ ~up => \A t \in Threads, k \in Keys : pc[t][k] = "out"
    /\ mode = "wipe" => Elements \subseteq todo
    /\ mode \in {"flush", "final", "wipe"} => todo \subseteq Elements
    /\ ~up => mode = "none" /\ Elements = {}

\* A thread's calls of get() nest along Parent, towards smaller rank: all
\* but one are waiting for the next, and no key occurs twice.
Rank == CHOOSE rank \in [Keys -> 0..Cardinality(Keys)] :
            \A k \in Keys : Parent[k] # NULL => rank[Parent[k]] < rank[k]

Nested(t) == {k \in Keys : pc[t][k] = "nested"}
Active(t) == {k \in Keys : pc[t][k] \notin {"out", "nested"}}

Nesting ==
    \A t \in Threads :
        /\ \A j, k \in Active(t) : j = k
        /\ \A c \in Nested(t), k \in Active(t) :
              Rank[k] < Rank[c] /\ Rank[k] <= Rank[Parent[c]]
        /\ \A c \in Nested(t) : Parent[c] # NULL
        /\ \A c, d \in Nested(t) :
              c # d => \/ Rank[c] < Rank[d] /\ Rank[c] <= Rank[Parent[d]]
                       \/ Rank[d] < Rank[c] /\ Rank[d] <= Rank[Parent[c]]

IInv ==
    /\ TypeOK
    /\ RefCountsExact
    /\ Allocation
    /\ Locals
    /\ ElementsOK
    /\ WaitersOK
    /\ Modes
    /\ Nesting
    /\ ReturnedIsCached

-----------------------------------------------------------------------------
\* Every get() returns, given that flush() is not called for ever.
GetsReturn ==
    \A t \in Threads, k \in Keys : pc[t][k] # "out" ~> pc[t][k] = "out"
=============================================================================
