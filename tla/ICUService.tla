----------------------------- MODULE ICUService ------------------------------
(***************************************************************************)
(* The service framework (common/serv.cpp, servls.cpp, servlk.cpp,         *)
(* servlkf.cpp, servnotf.cpp): an ICULocaleService with the factories that *)
(* are registered with it, its caches, the listeners it notifies and the   *)
(* enumerations of its ids, used by several threads.                       *)
(*                                                                         *)
(* What a function does while it has `lock' is one step, and so is what    *)
(* validateFallbackLocale does under `llock' and notifyChanged under       *)
(* notifyLock.  A locale id is the sequence of its subtags, the root's is  *)
(* empty; there is one kind of service, so that a descriptor is an id.  A  *)
(* service object is named by the factory and the locale it was made for.  *)
(***************************************************************************)
EXTENDS Integers, SequencesExt

CONSTANTS
    Threads,
    Factories,      \* factory objects that may be registered
    Installed,      \* the factories that the constructor of the service registers
    Factory,        \* factory |-> what it supports and how it creates
    Ids,            \* locales that are asked for
    Defaults,       \* what Locale::getDefault() may return
    DisplayLocales, \* locales that display names are asked for in
    Listeners,
    MaxChanges,     \* bound on changes of the list of factories
    ChangesOverlap, \* the default locale changes while a call is running
    NULL

VARIABLES
    default,        \* Locale::getDefault()
    fallbackLocale, \* the one that the service has last seen
    factories,      \* the last one that was registered comes first
    timestamp,
    serviceCache,   \* NULL, or descriptor |-> actual descriptor of its entry
    entries,        \* actual descriptor |-> CacheEntry
    idCache,        \* NULL, or visible id |-> factory
    dnCache,        \* NULL, or its locale and ids
    listeners,
    seen,           \* the timestamp a listener saw when it was last called
    enum,           \* the ServiceEnumeration that a thread has: timestamp and ids
    local           \* where a thread is, and its locals

service == <<default, fallbackLocale, factories, timestamp>>
caches == <<serviceCache, entries, idCache, dnCache>>
vars == <<service, caches, listeners, seen, enum, local>>

ASSUME InstalledAssumption == Installed \in Seq(Factories)

Idle == [at |-> "idle"]

----------------------------------------------------------------------------
(* LocaleKey.                                                              *)

\* The id and what is left when it is truncated.
Truncated(id) == [i \in 1..Len(id) |-> SubSeq(id, 1, Len(id) + 1 - i)]

\* What the current id of a key is, one after the other: fallback().
Fallbacks(primary, fallbackId) ==
    IF primary = <<>> THEN << <<>> >>
    ELSE Truncated(primary)
         \o (IF primary # fallbackId THEN Truncated(fallbackId) ELSE <<>>)
         \o << <<>> >>

----------------------------------------------------------------------------
(* getKey.                                                                 *)

\* NFFactory::create: a format for the locale that was asked for, or else what
\* the factories registered before it return for the same key.
Delegates(f, primary) == Factory[f].formats # NULL /\ primary \notin Factory[f].formats

MadeFor(f, primary, current) == IF Factory[f].formats = NULL THEN current ELSE primary

\* The search of getKey for the current ids of a key, with the list fs and the
\* cache c with its entries e: the service, its descriptor, how many ids were
\* tried before and whether it was in the cache.  In find, i is the start index
\* (a factory that asks comes before it) and j the factory that is tried; when
\* a factory has asked in vain, the key it has used up ends the search.
Search(ids, fs, c, e) ==
    LET n == Len(ids)
        m == Len(fs)
        find[q \in 1..n + 1, i \in 1..m + 1, j \in 1..m + 1] ==
            IF q > n THEN NULL
            ELSE IF ids[q] \in DOMAIN c
            THEN [service |-> e[c[ids[q]]].service, id |-> c[ids[q]], tried |-> q - 1, hit |-> TRUE]
            ELSE IF j > m THEN find[q + 1, i, i]
            ELSE IF ids[q] \notin Factory[fs[j]].supported THEN find[q, i, j + 1]
            ELSE LET made == [service |-> <<fs[j], MadeFor(fs[j], ids[1], ids[q])>>,
                              id |-> ids[q], tried |-> q - 1, hit |-> FALSE]
                     asked == find[q, j + 1, j + 1]
                 IN  IF ~Delegates(fs[j], ids[1]) THEN made
                     ELSE IF asked = NULL THEN NULL
                     ELSE [made EXCEPT !.service = asked.service]
    IN  find[1, 1, 1]

Cache == IF serviceCache = NULL THEN <<>> ELSE serviceCache


\* What was found is put in the cache for its own descriptor and, with a
\* reference for each time, for those that were tried before.
Put(r, ids) ==
    LET tried == SubSeq(ids, 1, r.tried)
        count == IF r.hit THEN entries[r.id].refcount ELSE 1
    IN  /\ serviceCache' = [d \in ToSet(tried) \cup {r.id} |-> r.id] @@ Cache
        /\ entries' = (r.id :> [service |-> r.service, refcount |-> count + Len(tried)]) @@ entries


\* ICULocaleService::validateFallbackLocale, for createKey.
ValidateFallbackLocale ==
    /\ fallbackLocale' = default
    /\ IF default = fallbackLocale THEN UNCHANGED <<serviceCache, entries>>
       ELSE serviceCache' = NULL /\ entries' = <<>>

Get(t, id) ==
    /\ local[t] = Idle
    /\ ValidateFallbackLocale
    /\ local' = [local EXCEPT ![t] = [at |-> "getKey", ids |-> Fallbacks(id, default)]]
    /\ UNCHANGED <<default, factories, timestamp, idCache, dnCache, listeners, seen, enum>>

\* The service is in its default state, and handleDefault finds nothing.
HandleDefault(t) ==
    /\ local[t].at = "getKey"
    /\ factories = <<>>
    /\ local' = [local EXCEPT ![t] = Idle]
    /\ UNCHANGED <<service, caches, listeners, seen, enum>>

GetKey(t) ==
    /\ local[t].at = "getKey"
    /\ factories # <<>>
    /\ LET r == Search(local[t].ids, factories, Cache, entries)
       IN  IF r = NULL \/ (r.hit /\ r.tried = 0)
           THEN serviceCache' = Cache /\ UNCHANGED entries
           ELSE Put(r, local[t].ids)
    /\ local' = [local EXCEPT ![t] = Idle]
    /\ UNCHANGED <<service, idCache, dnCache, listeners, seen, enum>>

\* Locale::setDefault.
SetDefault(l) ==
    /\ ChangesOverlap \/ \A t \in Threads : local[t] = Idle
    /\ default' = l
    /\ UNCHANGED <<fallbackLocale, factories, timestamp, caches, listeners, seen, enum, local>>

----------------------------------------------------------------------------
(* Registration.                                                           *)

\* A bug: the ids stay.
ClearServiceCacheOnly ==
    /\ timestamp' = timestamp + 1
    /\ serviceCache' = NULL /\ entries' = <<>>
    /\ UNCHANGED <<idCache, dnCache>>

ClearCaches ==
    /\ timestamp' = timestamp + 1
    /\ serviceCache' = NULL /\ entries' = <<>>
    /\ idCache' = NULL
    /\ dnCache' = NULL

\* The list changes under the lock, the listeners hear of it after that.
Change(t, fs) ==
    /\ local[t] = Idle
    /\ timestamp < MaxChanges
    /\ factories' = fs
    /\ ClearCaches
    /\ local' = [local EXCEPT ![t] = [at |-> "notify"]]
    /\ UNCHANGED <<default, fallbackLocale, listeners, seen, enum>>

RegisterFactory(t, f) == f \notin ToSet(factories) /\ Change(t, <<f>> \o factories)

\* A bug: the listeners are not told.
UnregisterSilently(t, f) ==
    /\ local[t] = Idle
    /\ timestamp < MaxChanges
    /\ f \in ToSet(factories)
    /\ factories' = SelectSeq(factories, LAMBDA g : g # f)
    /\ ClearCaches
    /\ UNCHANGED <<default, fallbackLocale, listeners, seen, enum, local>>

Unregister(t, f) ==
    f \in ToSet(factories) /\ Change(t, SelectSeq(factories, LAMBDA g : g # f))

Reset(t) == Change(t, <<>>)

\* A listener looks at the service when it is called.
NotifyChanged(t) ==
    /\ local[t].at = "notify"
    /\ seen' = [l \in Listeners |-> IF l \in listeners THEN timestamp ELSE seen[l]]
    /\ local' = [local EXCEPT ![t] = Idle]
    /\ UNCHANGED <<service, caches, listeners, enum>>

\* The client looks at the service once its listener is in the list.
AddListener(l) ==
    /\ l \notin listeners
    /\ listeners' = listeners \cup {l}
    /\ seen' = [seen EXCEPT ![l] = timestamp]
    /\ UNCHANGED <<service, caches, enum, local>>

RemoveListener(l) ==
    /\ l \in listeners
    /\ listeners' = listeners \ {l}
    /\ UNCHANGED <<service, caches, seen, enum, local>>

----------------------------------------------------------------------------
(* Visible ids and display names.                                          *)

\* LocaleKeyFactory::updateVisibleIDs begins after the first slot of the table
\* of supported ids.
Updates(f) == Factory[f].supported \ {Factory[f].slot0}

\* getVisibleIDMap: the factories update the map from the last to the first, so
\* that the first that has the id puts it there or removes it.
VisibleIDMap(fs) ==
    LET has(id) == {i \in DOMAIN fs : id \in Updates(fs[i])}
        first(id) == fs[CHOOSE i \in has(id) : \A j \in has(id) : i <= j]
        all == {id \in UNION {Updates(f) : f \in ToSet(fs)} : Factory[first(id)].visible}
    IN  [id \in all |-> first(id)]

GetVisibleIDMap == idCache' = IF idCache = NULL THEN VisibleIDMap(factories) ELSE idCache

\* getAvailableLocales, and reset() of the enumeration: the timestamp first.
OpenEnumeration(t) ==
    /\ local[t] = Idle
    /\ enum' = [enum EXCEPT ![t] = [timestamp |-> timestamp, ids |-> NULL]]
    /\ local' = [local EXCEPT ![t] = [at |-> "visibleIDs"]]
    /\ UNCHANGED <<service, caches, listeners, seen>>

\* getVisibleIDs, which makes a key of the id to match even if there is none.
GetVisibleIDs(t) ==
    /\ local[t].at = "visibleIDs"
    /\ GetVisibleIDMap
    /\ ValidateFallbackLocale
    /\ enum' = [enum EXCEPT ![t].ids = DOMAIN idCache']
    /\ local' = [local EXCEPT ![t] = Idle]
    /\ UNCHANGED <<default, factories, timestamp, dnCache, listeners, seen>>

\* getDisplayName makes a key, for its fallbacks, when the id is not visible.
GetDisplayName(t, id) ==
    /\ local[t] = Idle
    /\ GetVisibleIDMap
    /\ IF id \in DOMAIN idCache' THEN UNCHANGED <<fallbackLocale, serviceCache, entries>>
       ELSE ValidateFallbackLocale
    /\ UNCHANGED <<default, factories, timestamp, dnCache, listeners, seen, enum, local>>

\* getDisplayNames, the part under the lock.
GetDisplayNames(t, l) ==
    /\ local[t] = Idle
    /\ IF dnCache # NULL /\ dnCache.locale = l THEN UNCHANGED <<idCache, dnCache>>
       ELSE /\ GetVisibleIDMap
            /\ dnCache' = [locale |-> l, ids |-> DOMAIN idCache']
    /\ local' = [local EXCEPT ![t] = [at |-> "names", locale |-> l]]
    /\ UNCHANGED <<service, serviceCache, entries, listeners, seen, enum>>

\* The part without the lock makes a key and reads dnCache.
ReadDisplayNames(t) ==
    /\ local[t].at = "names"
    /\ ValidateFallbackLocale
    /\ local' = [local EXCEPT ![t] = Idle]
    /\ UNCHANGED <<default, factories, timestamp, idCache, dnCache, listeners, seen, enum>>

----------------------------------------------------------------------------
Init ==
    /\ default \in Defaults
    /\ fallbackLocale = default
    /\ factories = Installed
    /\ timestamp = Len(Installed)
    /\ serviceCache = NULL /\ entries = <<>> /\ idCache = NULL /\ dnCache = NULL
    /\ listeners = {}
    /\ seen = [l \in Listeners |-> 0]
    /\ enum = [t \in Threads |-> NULL]
    /\ local = [t \in Threads |-> Idle]

Next ==
    \/ \E t \in Threads :
        \/ \E id \in Ids : Get(t, id) \/ GetDisplayName(t, id)
        \/ HandleDefault(t) \/ GetKey(t)
        \/ \E f \in Factories : RegisterFactory(t, f) \/ Unregister(t, f)
        \/ Reset(t)
        \/ NotifyChanged(t)
        \/ OpenEnumeration(t) \/ GetVisibleIDs(t)
        \/ \E l \in DisplayLocales : GetDisplayNames(t, l)
        \/ ReadDisplayNames(t)
    \/ \E l \in Listeners : AddListener(l) \/ RemoveListener(l)
    \/ \E l \in Defaults : SetDefault(l)

Spec == Init /\ [][Next]_vars

----------------------------------------------------------------------------


\* "This issues a serviceChanged notification to registered listeners"
\* (registerFactory, unregister, reset): when every change has returned, no
\* listener has last looked at the service before the last change, although
\* changes and their notifications overlap.
ListenersUpToDate ==
    (\A t \in Threads : local[t].at # "notify") => \A l \in listeners : seen[l] = timestamp

\* An enumeration that upToDate() accepts has the ids that are visible now,
\* although the timestamp and the ids are read without a common lock.
EnumerationInSync ==
    \A t \in Threads :
        (local[t].at # "visibleIDs" /\ enum[t] # NULL /\ enum[t].timestamp = timestamp)
            => enum[t].ids = DOMAIN VisibleIDMap(factories)

\* "we single-thread everything using this service" (getKey): what
\* getDisplayNames reads after its part under the lock is what it made there.
DisplayNamesStay ==
    \A t \in Threads :
        local[t].at = "names" => dnCache # NULL /\ dnCache.locale = local[t].locale
=============================================================================
