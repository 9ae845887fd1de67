------------------------ MODULE ConverterCacheProofs -------------------------
(***************************************************************************)
(* Proofs about ConverterCache, for any threads, converters, tables and    *)
(* files: every converter object has one holder.                           *)
(***************************************************************************)
EXTENDS ConverterCache, TLAPS

\* The shape of the state that the argument needs.
Shape ==
    /\ local = [t \in Threads |-> local[t]]
    /\ mine \in [Threads -> SUBSET Converters]
    /\ allocated \subseteq Converters
    /\ \A t \in Threads : local[t].at = "close" => local[t].next \in {Idle, Flushing}

\* What is held exists.
HeldExist ==
    /\ gDefaultConverter # NULL => gDefaultConverter \in allocated
    /\ \A t \in Threads : mine[t] \subseteq allocated
    /\ \A t \in Threads : Busy(t) => local[t].c \in allocated

\* What a thread is opening, cloning, closing or giving back is nobody else's.
BusyAlone ==
    /\ \A t \in Threads : Busy(t) => local[t].c # gDefaultConverter
    /\ \A t, u \in Threads : Busy(t) => local[t].c \notin mine[u]
    /\ \A t, u \in Threads : (t # u /\ Busy(t) /\ Busy(u)) => local[t].c # local[u].c

IInv == Shape /\ HeldExist /\ BusyAlone /\ OneUser /\ ConvertersHeld

\* Where a thread is, and with which converter, in the records for it.
LEMMA Places ==
    /\ Idle.at = "idle" /\ Flushing.at = "flush"
    /\ [at |-> "takeDefault"].at = "takeDefault" /\ [at |-> "dropDefault"].at = "dropDefault"
    /\ \A c : [at |-> "putDefault", c |-> c].at = "putDefault" /\ [at |-> "putDefault", c |-> c].c = c
    /\ \A c, next : LET l == Closing(c, next) IN l.at = "close" /\ l.c = c /\ l.next = next
    /\ \A c, todo, from : LET l == Cloning(c, todo, from) IN l.at = "clone" /\ l.c = c
    /\ \A c, todo, test, package :
          LET l == Opening(c, todo, test, package) IN l.at = "open" /\ l.c = c
BY DEF Idle, Flushing, Closing, Cloning, Opening

\* A converter that is opened or cloned is a new one, which nobody holds.
LEMMA AllocateKeeps ==
    ASSUME IInv, NEW t \in Threads, NEW next, ~Busy(t), Allocate(t, next),
           next.at \in {"open", "clone"}, next.c = NewConverter
    PROVE  IInv'
<1>1. NewConverter \in Converters \ allocated
  BY DEF Allocate, NewConverter, FreeConverters
<1> QED
  BY <1>1, NullAssumption
  DEF Allocate, IInv, Shape, HeldExist, BusyAlone, OneUser, ConvertersHeld, Busy

\* The start of an open.
LEMMA StartKeeps ==
    ASSUME IInv, NEW t \in Threads, NEW name, NEW test, NEW package,
           ~Busy(t), Start(t, name, test, package)
    PROVE  IInv'
BY AllocateKeeps, Places DEF Start

\* A thread goes on with the converter it has, or with none as before.
LEMMA MoveKeeps ==
    ASSUME IInv, NEW t \in Threads, NEW next,
           local' = [local EXCEPT ![t] = next],
           UNCHANGED <<allocated, mine, gDefaultConverter>>,
           \/ Busy(t) /\ next.at \in {"open", "clone", "close"} /\ next.c = local[t].c
           \/ ~Busy(t) /\ next.at \in {"idle", "takeDefault", "dropDefault", "flush"},
           next.at = "close" => next.next \in {Idle, Flushing}
    PROVE  IInv'
BY DEF IInv, Shape, HeldExist, BusyAlone, OneUser, ConvertersHeld, Busy

\* A client receives the converter that its thread has made, or the default one.
LEMMA TakeKeeps ==
    ASSUME IInv, NEW t \in Threads, NEW c \in allocated, NEW next, next.at = "idle",
           mine' = [mine EXCEPT ![t] = @ \cup {c}],
           local' = [local EXCEPT ![t] = next],
           allocated' = allocated,
           \/ Busy(t) /\ c = local[t].c /\ gDefaultConverter' = gDefaultConverter
           \/ ~Busy(t) /\ c = gDefaultConverter /\ gDefaultConverter' = NULL
    PROVE  IInv'
<1>1. /\ mine' \in [Threads -> SUBSET Converters]
      /\ mine'[t] = mine[t] \cup {c} /\ \A u \in Threads : u # t => mine'[u] = mine[u]
  BY DEF IInv, Shape, HeldExist
<1>2. local'[t] = next /\ \A u \in Threads : u # t => local'[u] = local[u]
  BY DEF IInv, Shape
<1>3. Shape'
  BY <1>1, <1>2 DEF IInv, Shape
<1>4. HeldExist'
  BY <1>1, <1>2 DEF IInv, HeldExist, Busy
<1>5. BusyAlone'
  BY <1>1, <1>2, NullAssumption DEF IInv, HeldExist, Shape, BusyAlone, OneUser, Busy
<1>6. OneUser'
  BY <1>1, <1>2, NullAssumption DEF IInv, HeldExist, Shape, BusyAlone, OneUser, Busy
<1>7. ConvertersHeld'
  BY <1>1, <1>2 DEF IInv, ConvertersHeld, Busy
<1> QED
  BY <1>3, <1>4, <1>5, <1>6, <1>7 DEF IInv

\* A client gives a converter up, which its thread closes or gives back.
LEMMA GiveKeeps ==
    ASSUME IInv, NEW t \in Threads, NEW c, NEW next, ~Busy(t), c \in mine[t],
           next.at \in {"close", "putDefault"}, next.c = c,
           next.at = "close" => next.next \in {Idle, Flushing},
           mine' = [mine EXCEPT ![t] = @ \ {c}],
           local' = [local EXCEPT ![t] = next],
           UNCHANGED <<allocated, gDefaultConverter>>
    PROVE  IInv'
<1>1. /\ mine' \in [Threads -> SUBSET Converters]
      /\ mine'[t] = mine[t] \ {c} /\ \A u \in Threads : u # t => mine'[u] = mine[u]
  BY DEF IInv, Shape, HeldExist
<1>2. local'[t] = next /\ \A u \in Threads : u # t => local'[u] = local[u]
  BY DEF IInv, Shape
<1>3. Shape'
  BY <1>1, <1>2 DEF IInv, Shape
<1>4. HeldExist'
  BY <1>1, <1>2 DEF IInv, HeldExist, Busy
<1>5. BusyAlone'
  BY <1>1, <1>2, NullAssumption DEF IInv, HeldExist, Shape, BusyAlone, OneUser, Busy
<1>6. OneUser'
  BY <1>1, <1>2, NullAssumption DEF IInv, HeldExist, Shape, BusyAlone, OneUser, Busy
<1>7. ConvertersHeld'
  BY <1>1, <1>2 DEF IInv, ConvertersHeld, Busy
<1> QED
  BY <1>3, <1>4, <1>5, <1>6, <1>7 DEF IInv

\* A thread frees the converter it has closed.
LEMMA FreeKeeps ==
    ASSUME IInv, NEW t \in Threads, NEW next, Busy(t), next.at \in {"idle", "flush"},
           local' = [local EXCEPT ![t] = next],
           allocated' = allocated \ {local[t].c},
           UNCHANGED <<mine, gDefaultConverter>>
    PROVE  IInv'
<1>1. local'[t] = next /\ \A u \in Threads : u # t => local'[u] = local[u]
  BY DEF IInv, Shape
<1>2. Shape'
  BY <1>1 DEF IInv, Shape
<1>3. HeldExist'
  BY <1>1 DEF IInv, HeldExist, BusyAlone, Busy
<1>4. BusyAlone' /\ OneUser'
  BY <1>1 DEF IInv, BusyAlone, OneUser, Busy
<1>5. ConvertersHeld'
  BY <1>1 DEF IInv, ConvertersHeld, Busy
<1> QED
  BY <1>2, <1>3, <1>4, <1>5 DEF IInv

\* A thread leaves the converter it has as the default one.
LEMMA PutKeeps ==
    ASSUME IInv, NEW t \in Threads, NEW next, Busy(t), next.at = "idle",
           gDefaultConverter = NULL, gDefaultConverter' = local[t].c,
           local' = [local EXCEPT ![t] = next],
           UNCHANGED <<allocated, mine>>
    PROVE  IInv'
<1>1. local'[t] = next /\ \A u \in Threads : u # t => local'[u] = local[u]
  BY DEF IInv, Shape
<1>2. Shape'
  BY <1>1 DEF IInv, Shape
<1>3. HeldExist'
  BY <1>1 DEF IInv, HeldExist, Busy
<1>4. BusyAlone'
  BY <1>1 DEF IInv, BusyAlone, Busy
<1>5. OneUser'
  BY DEF IInv, BusyAlone, OneUser
<1>6. ConvertersHeld'
  <2>1. NULL \notin allocated
    BY NullAssumption DEF IInv, Shape
  <2> QED
    BY <1>1, <2>1 DEF IInv, ConvertersHeld, Busy
<1> QED
  BY <1>2, <1>3, <1>4, <1>5, <1>6 DEF IInv

\* A thread takes the default converter away to close it.
LEMMA DropKeeps ==
    ASSUME IInv, NEW t \in Threads, NEW next, ~Busy(t),
           next.at = "close", next.c = gDefaultConverter, next.next \in {Idle, Flushing},
           gDefaultConverter # NULL, gDefaultConverter' = NULL,
           local' = [local EXCEPT ![t] = next],
           UNCHANGED <<allocated, mine>>
    PROVE  IInv'
<1>1. local'[t] = next /\ \A u \in Threads : u # t => local'[u] = local[u]
  BY DEF IInv, Shape
<1>2. NULL \notin allocated
  BY NullAssumption DEF IInv, Shape
<1>3. Shape'
  BY <1>1 DEF IInv, Shape
<1>4. HeldExist'
  BY <1>1 DEF IInv, HeldExist, Busy
<1>5. BusyAlone'
  BY <1>1, <1>2 DEF IInv, HeldExist, BusyAlone, OneUser, Busy
<1>6. OneUser'
  BY <1>2 DEF IInv, HeldExist, OneUser
<1>7. ConvertersHeld'
  BY <1>1 DEF IInv, ConvertersHeld, Busy
<1> QED
  BY <1>3, <1>4, <1>5, <1>6, <1>7 DEF IInv

\* Nothing changes of what the invariant is about.
LEMMA StayKeeps ==
    ASSUME IInv, UNCHANGED <<allocated, mine, gDefaultConverter, local>>
    PROVE  IInv'
BY DEF IInv, Shape, HeldExist, BusyAlone, OneUser, ConvertersHeld, Busy

LEMMA Initial == ASSUME Init PROVE IInv
BY NullAssumption DEF Init, Idle, IInv, Shape, HeldExist, BusyAlone, OneUser, ConvertersHeld, Busy

\* Every step of every thread keeps the invariant.
LEMMA Inductive == ASSUME IInv, [Next]_vars PROVE IInv'
<1>1. CASE UNCHANGED vars
  BY <1>1, StayKeeps DEF vars, objects
<1>2. ASSUME NEW t \in Threads, NEW name \in DOMAIN Tables,
             Open(t, name) \/ OpenPackage(t, name) \/ CanCreate(t, name)
      PROVE  IInv'
  <2>1. ~Busy(t)
    BY <1>2, Places, Zenon DEF Open, OpenPackage, CanCreate, Busy
  <2> QED
    BY <1>2, <2>1, StartKeeps, Zenon DEF Open, OpenPackage, CanCreate
<1>3. ASSUME NEW t \in Threads, LoadSharedData(t) PROVE IInv'
  <2>1. PICK next :
            /\ \/ next = Closing(local[t].c, Idle)
               \/ next = Opening(local[t].c, Tail(local[t].todo), local[t].test, local[t].package)
            /\ local' = [local EXCEPT ![t] = next]
    BY <1>3, Zenon DEF LoadSharedData
  <2>2. /\ next.at \in {"open", "close"} /\ next.c = local[t].c
        /\ next.at = "close" => next.next \in {Idle, Flushing}
    BY <2>1, Places
  <2>3. Busy(t) /\ UNCHANGED <<allocated, mine, gDefaultConverter>>
    BY <1>3, Zenon DEF LoadSharedData, Busy
  <2> QED
    BY <2>1, <2>2, <2>3, MoveKeeps, Zenon
<1>4. ASSUME NEW t \in Threads, CreateFails(t) PROVE IInv'
  <2>1. PICK next : next = Closing(local[t].c, Idle) /\ local' = [local EXCEPT ![t] = next]
    BY <1>4, Zenon DEF CreateFails
  <2>2. Busy(t) /\ UNCHANGED <<allocated, mine, gDefaultConverter>>
    BY <1>4 DEF CreateFails, Busy, objects
  <2>3. next.at = "close" /\ next.c = local[t].c /\ next.next = Idle
    BY <2>1, Places
  <2> QED
    BY <2>1, <2>2, <2>3, MoveKeeps, Zenon
<1>5. ASSUME NEW t \in Threads, Opened(t) PROVE IInv'
  <2>1. Busy(t) /\ local[t].c \in allocated
    BY <1>5 DEF Opened, Busy, IInv, HeldExist
  <2> QED
    BY <1>5, <2>1, TakeKeeps, Places, Zenon DEF Opened, objects
<1>6. ASSUME NEW t \in Threads, NEW c \in Converters, SafeClone(t, c) PROVE IInv'
  <2>1. ~Busy(t)
    BY <1>6, Places DEF SafeClone, Busy
  <2>2. PICK next : next = Cloning(NewConverter, cnv[c], c) /\ Allocate(t, next)
    BY <1>6, Zenon DEF SafeClone
  <2>3. next.at = "clone" /\ next.c = NewConverter
    BY <2>2, Places
  <2> QED
    BY <2>1, <2>2, <2>3, AllocateKeeps
<1>7. ASSUME NEW t \in Threads, NEW c \in Converters, Close(t, c) PROVE IInv'
  <2>1. ~Busy(t) /\ c \in mine[t] /\ mine' = [mine EXCEPT ![t] = @ \ {c}]
    BY <1>7, Places DEF Close, Busy
  <2>2. PICK next : next = Closing(c, Idle) /\ local' = [local EXCEPT ![t] = next]
    BY <1>7, Zenon DEF Close
  <2>3. /\ next.at \in {"close", "putDefault"} /\ next.c = c
        /\ next.at = "close" => next.next \in {Idle, Flushing}
    BY <2>2, Places
  <2>4. UNCHANGED <<allocated, gDefaultConverter>>
    BY <1>7 DEF Close, objects
  <2> QED
    BY <2>1, <2>2, <2>3, <2>4, GiveKeeps, Zenon
<1>8. ASSUME NEW t \in Threads, NEW c \in Converters, ReleaseDefaultConverter(t, c) PROVE IInv'
  <2>1. ~Busy(t) /\ c \in mine[t] /\ mine' = [mine EXCEPT ![t] = @ \ {c}]
    BY <1>8, Places DEF ReleaseDefaultConverter, Busy
  <2>2. PICK next : /\ next \in {Closing(c, Idle), [at |-> "putDefault", c |-> c]}
                    /\ local' = [local EXCEPT ![t] = next]
    BY <1>8, Zenon DEF ReleaseDefaultConverter
  <2>3. /\ next.at \in {"close", "putDefault"} /\ next.c = c
        /\ next.at = "close" => next.next \in {Idle, Flushing}
    BY <2>2, Places
  <2>4. UNCHANGED <<allocated, gDefaultConverter>>
    BY <1>8 DEF ReleaseDefaultConverter, objects
  <2> QED
    BY <2>1, <2>2, <2>3, <2>4, GiveKeeps, Zenon
<1>9. ASSUME NEW t \in Threads, IncrementRefCount(t) PROVE IInv'
  <2>1. PICK next : /\ next = Cloning(local[t].c, Tail(local[t].todo), local[t].from)
                    /\ local' = [local EXCEPT ![t] = next]
    BY <1>9, Zenon DEF IncrementRefCount
  <2>2. Busy(t) /\ UNCHANGED <<allocated, mine, gDefaultConverter>>
    BY <1>9, Zenon DEF IncrementRefCount, Busy
  <2>3. next.at = "clone" /\ next.c = local[t].c
    BY <2>1, Places
  <2> QED
    BY <2>1, <2>2, <2>3, MoveKeeps, Zenon
<1>10. ASSUME NEW t \in Threads, UnloadSharedData(t) PROVE IInv'
  BY <1>10, StayKeeps DEF UnloadSharedData
<1>11. ASSUME NEW t \in Threads, Closed(t) PROVE IInv'
  <2>1. PICK next : next = local[t].next /\ local' = [local EXCEPT ![t] = next]
    BY <1>11, Zenon DEF Closed
  <2>2. Busy(t) /\ next.at \in {"idle", "flush"}
    BY <1>11, <2>1, Places DEF Closed, Busy, IInv, Shape
  <2>3. allocated' = allocated \ {local[t].c} /\ UNCHANGED <<mine, gDefaultConverter>>
    BY <1>11 DEF Closed
  <2> QED
    BY <2>1, <2>2, <2>3, FreeKeeps, Zenon
<1>12. ASSUME NEW t \in Threads, GetDefaultConverter(t) PROVE IInv'
  <2>1. ~Busy(t)
    BY <1>12, Places DEF GetDefaultConverter, Busy
  <2>2. CASE gDefaultConverter = NULL
    BY <1>12, <2>1, <2>2, StartKeeps, Zenon DEF GetDefaultConverter
  <2>3. CASE gDefaultConverter # NULL
    <3>1. PICK next : next = [at |-> "takeDefault"] /\ local' = [local EXCEPT ![t] = next]
      BY <1>12, <2>3, Zenon DEF GetDefaultConverter
    <3>2. UNCHANGED <<allocated, mine, gDefaultConverter>>
      BY <1>12, <2>3 DEF GetDefaultConverter, objects
    <3> QED
      BY <2>1, <3>1, <3>2, MoveKeeps, Zenon
  <2> QED
    BY <2>2, <2>3
<1>13. ASSUME NEW t \in Threads, TakeDefault(t) PROVE IInv'
  <2>1. ~Busy(t)
    BY <1>13 DEF TakeDefault, Busy
  <2>2. CASE gDefaultConverter = NULL
    BY <1>13, <2>1, <2>2, StartKeeps, Zenon DEF TakeDefault
  <2>3. CASE gDefaultConverter # NULL
    <3>1. gDefaultConverter \in allocated
      BY <2>3 DEF IInv, HeldExist
    <3> QED
      BY <1>13, <2>1, <2>3, <3>1, TakeKeeps, Places DEF TakeDefault, objects
  <2> QED
    BY <2>2, <2>3
<1>14. ASSUME NEW t \in Threads, PutDefault(t) PROVE IInv'
  <2>1. Busy(t) /\ UNCHANGED <<allocated, mine>>
    BY <1>14 DEF PutDefault, Busy, objects
  <2>2. CASE gDefaultConverter = NULL
    <3>1. PICK next : next = Idle /\ local' = [local EXCEPT ![t] = next]
      BY <1>14, <2>2, Zenon DEF PutDefault
    <3>2. gDefaultConverter' = local[t].c
      BY <1>14, <2>2 DEF PutDefault
    <3>3. next.at = "idle"
      BY <3>1, Places
    <3> QED
      BY <2>1, <2>2, <3>1, <3>2, <3>3, PutKeeps, Zenon
  <2>3. CASE gDefaultConverter # NULL
    <3>1. PICK next : next = Closing(local[t].c, Idle) /\ local' = [local EXCEPT ![t] = next]
      BY <1>14, <2>3, Zenon DEF PutDefault
    <3>2. UNCHANGED gDefaultConverter
      BY <1>14, <2>3 DEF PutDefault
    <3>3. next.at = "close" /\ next.c = local[t].c /\ next.next = Idle
      BY <3>1, Places
    <3> QED
      BY <2>1, <3>1, <3>2, <3>3, MoveKeeps, Zenon
  <2> QED
    BY <2>2, <2>3
<1>15. ASSUME NEW t \in Threads, FlushCache(t) PROVE IInv'
  <2>1. PICK next : /\ next \in {[at |-> "dropDefault"], Flushing}
                    /\ local' = [local EXCEPT ![t] = next]
    BY <1>15, Zenon DEF FlushCache
  <2>2. ~Busy(t) /\ UNCHANGED <<allocated, mine, gDefaultConverter>>
    BY <1>15, Places DEF FlushCache, Busy, objects
  <2>3. next.at \in {"dropDefault", "flush"}
    BY <2>1, Places
  <2> QED
    BY <2>1, <2>2, <2>3, MoveKeeps, Zenon
<1>16. ASSUME NEW t \in Threads, DropDefault(t) PROVE IInv'
  <2>1. ~Busy(t) /\ gDefaultConverter' = NULL /\ UNCHANGED <<allocated, mine>>
    BY <1>16 DEF DropDefault, Busy, objects
  <2>2. CASE gDefaultConverter = NULL
    <3>1. PICK next : next = Flushing /\ local' = [local EXCEPT ![t] = next]
      BY <1>16, <2>2, Zenon DEF DropDefault
    <3>2. next.at = "flush"
      BY <3>1, Places
    <3> QED
      BY <2>1, <2>2, <3>1, <3>2, MoveKeeps, Zenon
  <2>3. CASE gDefaultConverter # NULL
    <3>1. PICK next : /\ next = Closing(gDefaultConverter, Flushing)
                      /\ local' = [local EXCEPT ![t] = next]
      BY <1>16, <2>3, Zenon DEF DropDefault
    <3>2. next.at = "close" /\ next.c = gDefaultConverter /\ next.next = Flushing
      BY <3>1, Places
    <3> QED
      BY <2>1, <2>3, <3>1, <3>2, DropKeeps, Zenon
  <2> QED
    BY <2>2, <2>3
<1>17. ASSUME NEW t \in Threads, FlushTable(t) PROVE IInv'
  <2>1. PICK next : next = Idle /\ local' = [local EXCEPT ![t] = next]
    BY <1>17, Zenon DEF FlushTable
  <2>2. ~Busy(t) /\ UNCHANGED <<allocated, mine, gDefaultConverter>>
    BY <1>17 DEF FlushTable, Busy, objects
  <2>3. next.at = "idle"
    BY <2>1, Places
  <2> QED
    BY <2>1, <2>2, <2>3, MoveKeeps, Zenon
<1> QED
  BY <1>1, <1>2, <1>3, <1>4, <1>5, <1>6, <1>7, <1>8, <1>9, <1>10, <1>11, <1>12, <1>13, <1>14,
     <1>15, <1>16, <1>17 DEF Next

\* The invariant of the holders of converters.
THEOREM IInvHolds == Spec => []IInv
<1>1. Init => IInv
  BY Initial
<1>2. IInv /\ [Next]_vars => IInv'
  BY Inductive
<1> QED
  BY <1>1, <1>2, PTL DEF Spec

\* u_getDefaultConverter, u_releaseDefaultConverter and u_flushDefaultConverter,
\* which test gDefaultConverter outside the mutex, never give one converter to
\* two threads, whatever else opens, clones, closes and fails meanwhile.
THEOREM OneUserHolds == Spec => []OneUser
<1>1. IInv => OneUser
  BY DEF IInv
<1> QED
  BY <1>1, IInvHolds, PTL

\* No path of open, clone, close, release and flush loses a converter: each one
\* that is allocated is the default one, a client's, or being closed or opened.
THEOREM ConvertersHeldHolds == Spec => []ConvertersHeld
<1>1. IInv => ConvertersHeld
  BY DEF IInv
<1> QED
  BY <1>1, IInvHolds, PTL
=============================================================================
