-------------------------- MODULE ICUServiceProofs ---------------------------
(***************************************************************************)
(* Proofs about ICUService, for any threads, factories, listeners and      *)
(* number of changes, and with the default locale changing at any time:    *)
(* enumerations that are up to date have the visible ids, and listeners    *)
(* have seen the last change.                                              *)
(***************************************************************************)
EXTENDS ICUService, TLAPS

\* The shape of the state that the argument needs.
Shape ==
    /\ timestamp \in Nat
    /\ local = [t \in Threads |-> local[t]]
    /\ enum = [t \in Threads |-> enum[t]]
    /\ seen = [l \in Listeners |-> seen[l]]
    /\ listeners \subseteq Listeners

\* The cached map of visible ids is that of the list of factories.
IdsInSync == idCache # NULL => idCache = VisibleIDMap(factories)

\* An enumeration, which a thread that is about to fetch ids has, is at most as
\* late as the service.
Stamped ==
    \A t \in Threads :
        (local[t].at = "visibleIDs" \/ enum[t] # NULL) =>
            /\ enum[t] = [timestamp |-> enum[t].timestamp, ids |-> enum[t].ids]
            /\ enum[t].timestamp \in Nat
            /\ enum[t].timestamp <= timestamp

IInv == Shape /\ IdsInSync /\ Stamped /\ EnumerationInSync /\ ListenersUpToDate

\* A change of the list of factories, by registerFactory, unregister or reset.
LEMMA ChangeKeeps ==
    ASSUME IInv, NEW t \in Threads, NEW fs, Change(t, fs)
    PROVE  IInv'
<1> USE DEF Change, ClearCaches, Idle
<1>1. Shape'
  <2>1. timestamp' \in Nat
    BY DEF IInv, Shape
  <2>2. local' = [u \in Threads |-> local'[u]]
    BY DEF IInv, Shape
  <2> QED
    BY <2>1, <2>2 DEF IInv, Shape
<1>2. IdsInSync'
  BY DEF IdsInSync
<1>3. timestamp' = timestamp + 1 /\ timestamp \in Nat /\ enum' = enum
  BY DEF IInv, Shape
<1>4. \A u \in Threads : u # t => local'[u] = local[u]
  BY DEF IInv, Shape
<1>5. local'[t].at = "notify"
  BY DEF IInv, Shape
<1>6. Stamped'
  BY <1>3, <1>4, <1>5 DEF IInv, Stamped
<1>7. EnumerationInSync'
  <2>1. \A u \in Threads : enum[u] # NULL => enum[u].timestamp # timestamp'
    <3>1. SUFFICES ASSUME NEW u \in Threads, enum[u] # NULL
                   PROVE  enum[u].timestamp # timestamp'
      OBVIOUS
    <3>2. enum[u].timestamp \in Nat /\ enum[u].timestamp <= timestamp
      BY <3>1, Zenon DEF IInv, Stamped
    <3> QED
      BY <1>3, <3>2
  <2>2. \A u \in Threads : enum'[u] # NULL => enum'[u].timestamp # timestamp'
    BY <1>3, <2>1
  <2> HIDE DEF Change
  <2> QED
    BY <2>2, Zenon DEF EnumerationInSync
<1>8. ListenersUpToDate'
  BY <1>5 DEF ListenersUpToDate
<1> QED
  BY <1>1, <1>2, <1>6, <1>7, <1>8 DEF IInv

\* A step of one thread, between two places that are neither the notification
\* nor the fetching of ids, that leaves alone what the invariant is about.
LEMMA MoveKeeps ==
    ASSUME IInv, NEW t \in Threads, NEW new,
           local[t].at \notin {"notify", "visibleIDs"},
           new.at \notin {"notify", "visibleIDs"},
           local' = [local EXCEPT ![t] = new],
           UNCHANGED <<factories, timestamp, listeners, seen, enum>>,
           UNCHANGED idCache \/ idCache' = VisibleIDMap(factories)
    PROVE  IInv'
<1>1. Shape'
  BY DEF IInv, Shape
<1>2. IdsInSync'
  BY DEF IInv, IdsInSync
<1>3. \A u \in Threads : /\ local'[u].at = "notify" <=> local[u].at = "notify"
                         /\ local'[u].at = "visibleIDs" <=> local[u].at = "visibleIDs"
  BY DEF IInv, Shape
<1>4. Stamped'
  BY <1>3 DEF IInv, Stamped
<1>5. EnumerationInSync'
  BY <1>3 DEF IInv, EnumerationInSync
<1>6. ListenersUpToDate'
  BY <1>3 DEF IInv, ListenersUpToDate
<1> QED
  BY <1>1, <1>2, <1>4, <1>5, <1>6 DEF IInv

\* A step that leaves the threads where they are.
LEMMA StayKeeps ==
    ASSUME IInv,
           UNCHANGED <<factories, timestamp, listeners, seen, enum, local>>,
           UNCHANGED idCache \/ idCache' = VisibleIDMap(factories)
    PROVE  IInv'
BY DEF IInv, Shape, IdsInSync, Stamped, EnumerationInSync, ListenersUpToDate

\* The invariant is inductive: one step for each action.
LEMMA Inductive ==
    ASSUME IInv, [Next]_vars
    PROVE  IInv'
<1>1. ASSUME NEW t \in Threads, NEW id \in Ids, Get(t, id)
      PROVE  IInv'
  <2> DEFINE new == [at |-> "getKey", ids |-> Fallbacks(id, default)]
  <2>1. /\ local[t].at = "idle"
        /\ local' = [local EXCEPT ![t] = new]
        /\ UNCHANGED <<factories, timestamp, idCache, listeners, seen, enum>>
    BY <1>1 DEF Get, Idle
  <2>2. new.at = "getKey"
    OBVIOUS
  <2> HIDE DEF new
  <2> QED
    BY <2>1, <2>2, MoveKeeps
<1>2. ASSUME NEW t \in Threads, NEW id \in Ids, GetDisplayName(t, id)
      PROVE  IInv'
  BY <1>2, StayKeeps DEF GetDisplayName, GetVisibleIDMap
<1>3. ASSUME NEW t \in Threads, HandleDefault(t)
      PROVE  IInv'
  BY <1>3, MoveKeeps DEF HandleDefault, Idle, service, caches
<1>4. ASSUME NEW t \in Threads, GetKey(t)
      PROVE  IInv'
  <2>1. /\ local[t].at = "getKey"
        /\ local' = [local EXCEPT ![t] = Idle]
        /\ UNCHANGED <<factories, timestamp, idCache, listeners, seen, enum>>
    BY <1>4 DEF GetKey, service
  <2> QED
    BY <2>1, MoveKeeps DEF Idle
<1>5. ASSUME NEW t \in Threads, NEW f \in Factories, RegisterFactory(t, f)
      PROVE  IInv'
  BY <1>5, ChangeKeeps DEF RegisterFactory
<1>6. ASSUME NEW t \in Threads, NEW f \in Factories, Unregister(t, f)
      PROVE  IInv'
  <2>1. PICK fs : Change(t, fs)
    BY <1>6, Zenon DEF Unregister
  <2> QED
    BY <2>1, ChangeKeeps
<1>7. ASSUME NEW t \in Threads, Reset(t)
      PROVE  IInv'
  BY <1>7, ChangeKeeps DEF Reset
<1>8. ASSUME NEW t \in Threads, NotifyChanged(t)
      PROVE  IInv'
  <2> USE <1>8 DEF NotifyChanged, Idle, service, caches
  <2>1. Shape' /\ IdsInSync'
    BY DEF IInv, Shape, IdsInSync
  <2>2. \A u \in Threads : local'[u].at = "visibleIDs" <=> local[u].at = "visibleIDs"
    BY DEF IInv, Shape
  <2>3. Stamped' /\ EnumerationInSync'
    BY <2>2 DEF IInv, Stamped, EnumerationInSync
  <2>4. ListenersUpToDate'
    BY DEF IInv, Shape, ListenersUpToDate
  <2> QED
    BY <2>1, <2>3, <2>4 DEF IInv
<1>9. ASSUME NEW t \in Threads, OpenEnumeration(t)
      PROVE  IInv'
  <2> USE <1>9 DEF OpenEnumeration, Idle, service, caches
  <2>1. Shape' /\ IdsInSync'
    BY DEF IInv, Shape, IdsInSync
  <2>2. /\ local'[t].at = "visibleIDs"
        /\ enum'[t] = [timestamp |-> timestamp, ids |-> NULL]
        /\ \A u \in Threads : u # t => local'[u] = local[u] /\ enum'[u] = enum[u]
    BY DEF IInv, Shape
  <2>3. timestamp \in Nat /\ timestamp' = timestamp /\ factories' = factories
    BY DEF IInv, Shape
  <2>4. Stamped' /\ EnumerationInSync'
    BY <2>2, <2>3 DEF IInv, Stamped, EnumerationInSync
  <2>5. ListenersUpToDate'
    BY <2>2 DEF IInv, ListenersUpToDate
  <2> QED
    BY <2>1, <2>4, <2>5 DEF IInv
<1>10. ASSUME NEW t \in Threads, GetVisibleIDs(t)
       PROVE  IInv'
  <2> USE <1>10 DEF GetVisibleIDs, GetVisibleIDMap, Idle, service
  <2>1. Shape' /\ IdsInSync'
    BY DEF IInv, Shape, IdsInSync
  <2>2. idCache' = VisibleIDMap(factories) /\ factories' = factories /\ timestamp' = timestamp
    BY DEF IInv, IdsInSync
  <2>3. /\ local'[t].at = "idle"
        /\ enum'[t] = [timestamp |-> enum[t].timestamp, ids |-> DOMAIN VisibleIDMap(factories)]
        /\ \A u \in Threads : u # t => local'[u] = local[u] /\ enum'[u] = enum[u]
    BY <2>2 DEF IInv, Shape, Stamped
  <2>4. Stamped'
    <3>1. enum[t].timestamp \in Nat /\ enum[t].timestamp <= timestamp
      BY Zenon DEF IInv, Stamped
    <3>2. enum'[t] = [timestamp |-> enum'[t].timestamp, ids |-> enum'[t].ids]
      BY <2>3
    <3>3. enum'[t].timestamp = enum[t].timestamp
      BY <2>3
    <3> HIDE DEF GetVisibleIDs
    <3>4. ASSUME NEW u \in Threads, local'[u].at = "visibleIDs" \/ enum'[u] # NULL
          PROVE  /\ enum'[u] = [timestamp |-> enum'[u].timestamp, ids |-> enum'[u].ids]
                 /\ enum'[u].timestamp \in Nat
                 /\ enum'[u].timestamp <= timestamp'
      <4>1. CASE u = t
        BY <2>2, <3>1, <3>2, <3>3, <4>1
      <4>2. CASE u # t
        BY <2>2, <2>3, <3>4, <4>2, Zenon DEF IInv, Stamped
      <4> QED
        BY <4>1, <4>2
    <3> QED
      BY <3>4, Zenon DEF Stamped
  <2>5. EnumerationInSync'
    <3>1. enum'[t].ids = DOMAIN VisibleIDMap(factories)
      BY <2>3
    <3>2. \A u \in Threads \ {t} : local'[u].at = local[u].at /\ enum'[u] = enum[u]
      BY <2>3
    <3> QED
      BY <2>2, <3>1, <3>2 DEF IInv, EnumerationInSync
  <2>6. ListenersUpToDate'
    BY <2>3 DEF IInv, ListenersUpToDate
  <2> QED
    BY <2>1, <2>4, <2>5, <2>6 DEF IInv
<1>11. ASSUME NEW t \in Threads, NEW l \in DisplayLocales, GetDisplayNames(t, l)
       PROVE  IInv'
  <2> DEFINE new == [at |-> "names", locale |-> l]
  <2>1. /\ local[t].at = "idle"
        /\ local' = [local EXCEPT ![t] = new]
        /\ UNCHANGED <<factories, timestamp, listeners, seen, enum>>
        /\ UNCHANGED idCache \/ idCache' = VisibleIDMap(factories)
    BY <1>11 DEF GetDisplayNames, GetVisibleIDMap, Idle, service
  <2> QED
    BY <2>1, MoveKeeps
<1>12. ASSUME NEW t \in Threads, ReadDisplayNames(t)
       PROVE  IInv'
  BY <1>12, MoveKeeps DEF ReadDisplayNames, Idle, service, caches
<1>13. ASSUME NEW l \in Listeners, AddListener(l)
       PROVE  IInv'
  <2> USE <1>13 DEF AddListener, service, caches
  <2>1. Shape' /\ IdsInSync' /\ Stamped' /\ EnumerationInSync'
    BY DEF IInv, Shape, IdsInSync, Stamped, EnumerationInSync
  <2>2. ListenersUpToDate'
    BY DEF IInv, Shape, ListenersUpToDate
  <2> QED
    BY <2>1, <2>2 DEF IInv
<1>14. ASSUME NEW l \in Listeners, RemoveListener(l)
       PROVE  IInv'
  BY <1>14 DEF RemoveListener, service, caches, IInv, Shape, IdsInSync, Stamped,
               EnumerationInSync, ListenersUpToDate
<1>15. ASSUME NEW l \in Defaults, SetDefault(l)
       PROVE  IInv'
  BY <1>15, StayKeeps DEF SetDefault, caches
<1>16. ASSUME UNCHANGED vars
       PROVE  IInv'
  BY <1>16, StayKeeps DEF vars, service, caches
<1> QED
  BY <1>1, <1>2, <1>3, <1>4, <1>5, <1>6, <1>7, <1>8, <1>9, <1>10, <1>11, <1>12, <1>13,
     <1>14, <1>15, <1>16 DEF Next

\* The invariant holds of a new service.
LEMMA Initial == ASSUME Init PROVE IInv
<1>1. timestamp \in Nat
  BY InstalledAssumption DEF Init
<1> QED
  BY <1>1 DEF Init, Idle, IInv, Shape, IdsInSync, Stamped, EnumerationInSync, ListenersUpToDate

\* The inductive invariant holds of every behaviour of the service.
THEOREM IInvHolds == Spec => []IInv
<1>1. Init => IInv
  BY Initial
<1>2. IInv /\ [Next]_vars => IInv'
  BY Inductive
<1> QED
  BY <1>1, <1>2, PTL DEF Spec

\* ServiceEnumeration: an enumeration that upToDate() accepts has the ids that
\* are visible now.
THEOREM EnumerationInSyncHolds == Spec => []EnumerationInSync
<1>1. IInv => EnumerationInSync
  BY DEF IInv
<1> QED
  BY <1>1, IInvHolds, PTL

\* registerFactory, unregister and reset: when every change has returned, every
\* listener has looked at the service since the last one.
THEOREM ListenersUpToDateHolds == Spec => []ListenersUpToDate
<1>1. IInv => ListenersUpToDate
  BY DEF IInv
<1> QED
  BY <1>1, IInvHolds, PTL
=============================================================================
