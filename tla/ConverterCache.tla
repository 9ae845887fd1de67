--------------------------- MODULE ConverterCache ----------------------------
(***************************************************************************)
(* The cache of converter tables (common/ucnv_bld.cpp) with those who use  *)
(* it: opening, testing, cloning and closing of converters (ucnv.c), the   *)
(* extension tables of ucnvmbcs.cpp, the converters that are made of       *)
(* several tables (ucnv2022.cpp, ucnv_lmb.c) or on top of another one      *)
(* (ucnvhz.c), and the default converter that ustr_cnv.cpp keeps.          *)
(*                                                                         *)
(* A section under cnvCacheMutex or under the global mutex is one step.  A *)
(* UConverter is the sequence of the tables it holds: one for a converter  *)
(* with a table, several for a composite one, whose own shared data is     *)
(* static.  The name in a table is that of its file.                       *)
(***************************************************************************)
EXTENDS Integers, SequencesExt

CONSTANTS
    Threads,
    Converters,     \* UConverter objects, numbers
    Data,           \* UConverterSharedData objects, numbers
    Files,          \* name |-> NULL, or for an extension table the name of its base
    Tables,         \* converter name |-> the tables it needs
    Default,        \* the name of the default converter
    NULL

ASSUME NullAssumption == NULL \notin Converters

VARIABLES
    data,           \* each shared data object: NULL, or name, referenceCounter,
                    \* sharedDataCached and baseSharedData
    table,          \* SHARED_DATA_HASHTABLE
    allocated,      \* the converter objects that exist
    cnv,            \* the data that each of them holds
    mine,           \* the converters that a thread has
    gDefaultConverter,
    local,          \* where a thread is, and its locals
    putFailed       \* history: uhash_put has failed

store == <<data, table>>
objects == <<allocated, cnv>>
vars == <<store, objects, mine, gDefaultConverter, local, putFailed>>

Idle == [at |-> "idle"]

----------------------------------------------------------------------------
(* Shared data.  D is a value of data, T one of table.                     *)

\* ucnv_unload for an object that has no base, or whose base is seen to.
Dec(D, d) ==
    LET n == IF D[d].count > 0 THEN D[d].count - 1 ELSE 0
    IN  [D EXCEPT ![d] = IF n = 0 /\ ~D[d].cached THEN NULL ELSE [D[d] EXCEPT !.count = n]]

\* ucnv_unload: what is deleted unloads its base.
Unload(D, d) ==
    LET after == Dec(D, d)
    IN  IF after[d] = NULL /\ D[d].base # NULL THEN Dec(after, D[d].base) ELSE after

\* What a load returns: the data, the table, an object or NULL for an error,
\* and whether uhash_put has failed.
Loaded(D, T, d, lost) == [data |-> D, table |-> T, d |-> d, lost |-> lost]

\* createConverterFromFile: a new object with one client, in a free place.
New(D, T, name, base) ==
    LET free == {d \in Data : D[d] = NULL}
        d == CHOOSE x \in free : \A y \in free : x <= y
    IN  IF free = {} THEN {}
        ELSE {Loaded([D EXCEPT ![d] = [name |-> name, count |-> 1, cached |-> FALSE, base |-> base]],
                     T, d, FALSE)}

\* ucnv_shareConverterData.  There may be no memory for the table, which is
\* opened with the first element, or for one more element.
Share(r) ==
    LET marked == [r EXCEPT !.data[r.d].cached = TRUE]
    IN  {[marked EXCEPT !.table = (r.data[r.d].name :> r.d) @@ @], [marked EXCEPT !.lost = TRUE]}
        \cup (IF r.table = <<>> THEN {r} ELSE {})

Made(D, T, name, base, share) ==
    UNION {IF share THEN Share(r) ELSE {r} : r \in New(D, T, name, base)}

\* A bug: one more client, and no count.
HitUncounted(D, T, name) == {Loaded(D, T, T[name], FALSE)}

\* The data was in the cache: one more client.
Hit(D, T, name) == {Loaded([D EXCEPT ![T[name]].count = @ + 1], T, T[name], FALSE)}

\* ucnv_load of a base table, with nestedLoads = 2.
LoadBase(D, T, name, share, package) ==
    IF ~package /\ name \in DOMAIN T THEN Hit(D, T, name)
    ELSE IF name \notin DOMAIN Files \/ Files[name] # NULL THEN {Loaded(D, T, NULL, FALSE)}
    ELSE {Loaded(D, T, NULL, FALSE)} \cup Made(D, T, name, NULL, share)

\* ucnv_MBCSLoad of an extension table, given its base b.  When it is only
\* tested, the base is unloaded at once; an extension is not a base.
LoadExtension(b, name, test, share) ==
    LET without == IF b.d = NULL THEN b.data ELSE Unload(b.data, b.d)
        fails == Loaded(without, b.table, NULL, b.lost)
        made == IF test THEN Made(without, b.table, name, NULL, FALSE)
                ELSE Made(b.data, b.table, name, b.d, share)
    IN  {fails} \cup (IF b.d = NULL \/ b.data[b.d].base # NULL THEN {}
                      ELSE {[r EXCEPT !.lost = @ \/ b.lost] : r \in made})

\* ucnv_load.  Any allocation may fail.
Load(D, T, name, test, package) ==
    LET share == ~test /\ ~package
    IN  IF ~package /\ name \in DOMAIN T THEN Hit(D, T, name)
        ELSE IF name \notin DOMAIN Files THEN {Loaded(D, T, NULL, FALSE)}
        ELSE IF Files[name] = NULL THEN LoadBase(D, T, name, share, package)
        ELSE UNION {LoadExtension(b, name, test, share) :
                        b \in LoadBase(D, T, Files[name], share, package)}

----------------------------------------------------------------------------
(* Converters.                                                             *)

FreeConverters == Converters \ allocated
NewConverter == CHOOSE c \in FreeConverters : TRUE

\* The converter c loads the tables todo, one after the other.
Opening(c, todo, test, package) ==
    [at |-> "open", c |-> c, todo |-> todo, test |-> test, package |-> package]
\* The clone c of another converter takes its tables over.
Cloning(c, todo, from) == [at |-> "clone", c |-> c, todo |-> todo, from |-> from]
\* The tables that a converter holds are unloaded, and then it is freed.
Closing(c, next) == [at |-> "close", c |-> c, next |-> next]

\* A new converter, and the step of thread t that comes next.
Allocate(t, next) ==
    /\ FreeConverters # {}
    /\ allocated' = allocated \cup {NewConverter}
    /\ local' = [local EXCEPT ![t] = next]
    /\ UNCHANGED <<store, cnv, mine, gDefaultConverter, putFailed>>

Start(t, name, test, package) ==
    Allocate(t, Opening(NewConverter, Tables[name], test, package))

\* ucnv_open and ucnv_createConverter, ucnv_openPackage for a converter with
\* a table, ucnv_canCreateConverter.
Open(t, name) == local[t] = Idle /\ Start(t, name, FALSE, FALSE)
OpenPackage(t, name) == local[t] = Idle /\ Len(Tables[name]) = 1 /\ Start(t, name, FALSE, TRUE)
CanCreate(t, name) == local[t] = Idle /\ Start(t, name, TRUE, FALSE)

\* ucnv_loadSharedData.  After an error what was loaded is unloaded.
LoadSharedData(t) ==
    /\ local[t].at = "open" /\ local[t].todo # <<>>
    /\ LET l == local[t]
       IN  \E r \in Load(data, table, Head(l.todo), l.test, l.package) :
            /\ data' = r.data /\ table' = r.table
            /\ putFailed' = (putFailed \/ r.lost)
            /\ cnv' = IF r.d = NULL THEN cnv ELSE [cnv EXCEPT ![l.c] = Append(@, r.d)]
            /\ local' = [local EXCEPT ![t] = IF r.d = NULL THEN Closing(l.c, Idle)
                                             ELSE Opening(l.c, Tail(l.todo), l.test, l.package)]
    /\ UNCHANGED <<allocated, mine, gDefaultConverter>>

\* ucnv_createConverterFromSharedData has no memory for the converter, or the
\* converter was only tested.
CreateFails(t) ==
    /\ local[t].at = "open" /\ local[t].todo = <<>>
    /\ local[t].test \/ Len(cnv[local[t].c]) = 1
    /\ local' = [local EXCEPT ![t] = Closing(local[t].c, Idle)]
    /\ UNCHANGED <<store, objects, mine, gDefaultConverter, putFailed>>

\* The open or the clone is complete.
Opened(t) ==
    /\ local[t].at \in {"open", "clone"} /\ local[t].todo = <<>>
    /\ local[t].at = "open" => ~local[t].test
    /\ mine' = [mine EXCEPT ![t] = @ \cup {local[t].c}]
    /\ local' = [local EXCEPT ![t] = Idle]
    /\ UNCHANGED <<store, objects, gDefaultConverter, putFailed>>

\* ucnv_safeClone, of any thread's converter that is not closed meanwhile.
SafeClone(t, from) ==
    /\ local[t] = Idle
    /\ \E u \in Threads : from \in mine[u]
    /\ Allocate(t, Cloning(NewConverter, cnv[from], from))

\* ucnv_incrementRefCount for each of the tables.
IncrementRefCount(t) ==
    /\ local[t].at = "clone" /\ local[t].todo # <<>>
    /\ LET d == Head(local[t].todo)
       IN  /\ data' = [data EXCEPT ![d].count = @ + 1]
           /\ cnv' = [cnv EXCEPT ![local[t].c] = Append(@, d)]
    /\ local' = [local EXCEPT ![t] = Cloning(local[t].c, Tail(local[t].todo), local[t].from)]
    /\ UNCHANGED <<table, allocated, mine, gDefaultConverter, putFailed>>

NotCloned(c) == \A u \in Threads : local[u].at = "clone" => local[u].from # c

\* ucnv_close.
Close(t, c) ==
    /\ local[t] = Idle
    /\ c \in mine[t] /\ NotCloned(c)
    /\ mine' = [mine EXCEPT ![t] = @ \ {c}]
    /\ local' = [local EXCEPT ![t] = Closing(c, Idle)]
    /\ UNCHANGED <<store, objects, gDefaultConverter, putFailed>>

\* ucnv_unloadSharedDataIfReady for each of the tables.
UnloadSharedData(t) ==
    /\ local[t].at = "close" /\ cnv[local[t].c] # <<>>
    /\ data' = Unload(data, Head(cnv[local[t].c]))
    /\ cnv' = [cnv EXCEPT ![local[t].c] = Tail(@)]
    /\ UNCHANGED <<table, allocated, mine, gDefaultConverter, local, putFailed>>

Closed(t) ==
    /\ local[t].at = "close" /\ cnv[local[t].c] = <<>>
    /\ allocated' = allocated \ {local[t].c}
    /\ local' = [local EXCEPT ![t] = local[t].next]
    /\ UNCHANGED <<store, cnv, mine, gDefaultConverter, putFailed>>

----------------------------------------------------------------------------
(* The default converter.                                                  *)

\* u_getDefaultConverter looks without the mutex first.
GetDefaultConverter(t) ==
    /\ local[t] = Idle
    /\ IF gDefaultConverter # NULL
       THEN /\ local' = [local EXCEPT ![t] = [at |-> "takeDefault"]]
            /\ UNCHANGED <<store, objects, mine, gDefaultConverter, putFailed>>
       ELSE Start(t, Default, FALSE, FALSE)

\* A bug: the converter stays where it was.
TakeDefaultKeeps(t) ==
    /\ local[t].at = "takeDefault"
    /\ IF gDefaultConverter # NULL
       THEN /\ mine' = [mine EXCEPT ![t] = @ \cup {gDefaultConverter}]
            /\ local' = [local EXCEPT ![t] = Idle]
            /\ UNCHANGED <<store, objects, gDefaultConverter, putFailed>>
       ELSE Start(t, Default, FALSE, FALSE)

TakeDefault(t) ==
    /\ local[t].at = "takeDefault"
    /\ IF gDefaultConverter # NULL
       THEN /\ mine' = [mine EXCEPT ![t] = @ \cup {gDefaultConverter}]
            /\ gDefaultConverter' = NULL
            /\ local' = [local EXCEPT ![t] = Idle]
            /\ UNCHANGED <<store, objects, putFailed>>
       ELSE Start(t, Default, FALSE, FALSE)

\* A converter with the tables of the default one.
IsDefault(c) == [i \in DOMAIN cnv[c] |-> data[cnv[c][i]].name] = Tables[Default]

\* u_releaseDefaultConverter, likewise.
ReleaseDefaultConverter(t, c) ==
    /\ local[t] = Idle
    /\ c \in mine[t] /\ NotCloned(c) /\ IsDefault(c)
    /\ mine' = [mine EXCEPT ![t] = @ \ {c}]
    /\ local' = [local EXCEPT ![t] = IF gDefaultConverter = NULL THEN [at |-> "putDefault", c |-> c]
                                     ELSE Closing(c, Idle)]
    /\ UNCHANGED <<store, objects, gDefaultConverter, putFailed>>

\* A bug: what another thread has put there meanwhile is overwritten.
PutDefaultUnchecked(t) ==
    /\ local[t].at = "putDefault"
    /\ gDefaultConverter' = local[t].c
    /\ local' = [local EXCEPT ![t] = Idle]
    /\ UNCHANGED <<store, objects, mine, putFailed>>

PutDefault(t) ==
    /\ local[t].at = "putDefault"
    /\ IF gDefaultConverter = NULL
       THEN /\ gDefaultConverter' = local[t].c
            /\ local' = [local EXCEPT ![t] = Idle]
       ELSE /\ local' = [local EXCEPT ![t] = Closing(local[t].c, Idle)]
            /\ UNCHANGED gDefaultConverter
    /\ UNCHANGED <<store, objects, mine, putFailed>>

----------------------------------------------------------------------------
(* ucnv_flushCache, also for u_cleanup.                                    *)

Flushing == [at |-> "flush"]

\* u_flushDefaultConverter.
FlushCache(t) ==
    /\ local[t] = Idle
    /\ local' = [local EXCEPT ![t] = IF gDefaultConverter # NULL THEN [at |-> "dropDefault"]
                                     ELSE Flushing]
    /\ UNCHANGED <<store, objects, mine, gDefaultConverter, putFailed>>

DropDefault(t) ==
    /\ local[t].at = "dropDefault"
    /\ local' = [local EXCEPT ![t] = IF gDefaultConverter = NULL THEN Flushing
                                     ELSE Closing(gDefaultConverter, Flushing)]
    /\ gDefaultConverter' = NULL
    /\ UNCHANGED <<store, objects, mine, putFailed>>

\* The tables that have no client, in s = [data, table].
Unused(s) == {n \in DOMAIN s.table : s.data[s.table[n]].count = 0}

\* A table is removed and deleted, which unloads its base.
Removed(s, n) ==
    LET d == s.table[n]
    IN  [table |-> [m \in DOMAIN s.table \ {n} |-> s.table[m]],
         data |-> Unload([s.data EXCEPT ![d].cached = FALSE], d)]

\* One pass over the table in the order of the names: what becomes unused
\* after it was passed stays.
Pass(s, names) ==
    FoldLeft(LAMBDA r, n : IF n \in Unused(r) THEN Removed(r, n) ELSE r, s, names)

\* A bug: the table is passed only once.
OnePass == 1

Passes == 2

\* The order of the names in the table is that of their hash codes.
FlushTable(t) ==
    /\ local[t].at = "flush"
    /\ \E names \in SetToSeqs(DOMAIN table) :
        LET first == Pass([data |-> data, table |-> table], names)
            last == IF Passes = 2 THEN Pass(first, names) ELSE first
        IN  data' = last.data /\ table' = last.table
    /\ local' = [local EXCEPT ![t] = Idle]
    /\ UNCHANGED <<objects, mine, gDefaultConverter, putFailed>>

----------------------------------------------------------------------------
Init ==
    /\ data = [d \in Data |-> NULL]
    /\ table = <<>>
    /\ allocated = {}
    /\ cnv = [c \in Converters |-> <<>>]
    /\ mine = [t \in Threads |-> {}]
    /\ gDefaultConverter = NULL
    /\ local = [t \in Threads |-> Idle]
    /\ putFailed = FALSE

Next ==
    \E t \in Threads :
        \/ \E name \in DOMAIN Tables : Open(t, name) \/ OpenPackage(t, name) \/ CanCreate(t, name)
        \/ LoadSharedData(t) \/ CreateFails(t) \/ Opened(t)
        \/ \E c \in Converters : SafeClone(t, c) \/ Close(t, c) \/ ReleaseDefaultConverter(t, c)
        \/ IncrementRefCount(t)
        \/ UnloadSharedData(t) \/ Closed(t)
        \/ GetDefaultConverter(t) \/ TakeDefault(t) \/ PutDefault(t)
        \/ FlushCache(t) \/ DropDefault(t) \/ FlushTable(t)

Spec == Init /\ [][Next]_vars

----------------------------------------------------------------------------
\* The references to d: the places in converters, and the extensions on it.
References(d) ==
      Cardinality(UNION {{c} \X {i \in DOMAIN cnv[c] : cnv[c][i] = d} : c \in Converters})
    + Cardinality({e \in Data : data[e] # NULL /\ data[e].base = d})

\* Whatever loads, failures, tests, clones, closes and flushes overlap, what
\* a converter or an extension refers to is there, and referenceCounter is the
\* number of its references: no table is freed in use or kept for nobody.
CountsExact ==
    \A d \in Data : IF data[d] = NULL THEN References(d) = 0 ELSE data[d].count = References(d)

\* The thread has a converter in its hands that no client has.
Busy(t) == local[t].at \in {"open", "clone", "close", "putDefault"}

\* A converter is with a thread that will close it, or is the default one.
ConvertersHeld ==
    \A c \in allocated :
        c = gDefaultConverter \/ \E t \in Threads : c \in mine[t] \/ (Busy(t) /\ local[t].c = c)

\* Shared data that nobody refers to is in the table, under its name, where
\* ucnv_flushCache finds it, and no converter is lost.  (After a failed
\* uhash_put the data is marked as cached and in no table.)
NothingLeaks ==
    /\ \A d \in Data : (data[d] # NULL /\ ~putFailed) =>
            /\ data[d].cached <=> (data[d].name \in DOMAIN table /\ table[data[d].name] = d)
            /\ data[d].cached \/ data[d].count > 0
    /\ ConvertersHeld

\* No converter is used by two threads, or by one while it is the default that
\* another may take: a UConverter has no lock.
OneUser ==
    /\ \A t, u \in Threads : t # u => mine[t] \cap mine[u] = {}
    /\ \A t \in Threads : gDefaultConverter \notin mine[t]

\* "Frees all shared immutable objects that aren't referred to" (ucnv_flushCache),
\* in whatever order the table lists an extension and its base.
FlushFreesUnused ==
    [][\A t \in Threads :
        FlushTable(t) => \A n \in DOMAIN table' : data'[table'[n]].count > 0]_vars
=============================================================================
