--------------------------- MODULE CollationLoader ---------------------------
(***************************************************************************)
(* CollationLoader (i18n/ucol_res.cpp): finding the collation tailoring of *)
(* a locale.  The lookup is a fallback flow turned into a state machine: a *)
(* loader fills in its fields and asks the UnifiedCache for the next key   *)
(* with itself as the creation context, so that each miss continues the    *)
(* flow one level deeper, while the keys above stay in progress and other  *)
(* threads may be waiting for them.                                        *)
(*                                                                         *)
(* A key is a locale: a base name and a collation type, or NoType.  The    *)
(* cache is what UnifiedCache promises: an element is absent, in progress  *)
(* or a value, and flush() may remove it.  Warning codes are left out.     *)
(***************************************************************************)
EXTENDS Integers, SequencesExt

CONSTANTS
    Threads,
    Requests,       \* locales a client may ask for: <<base name, type>>
    Types,          \* collation types
    Packages,       \* name |-> collation data the library is installed with
    MaxFaults,      \* bound on flushed elements and failed creations
    SearchTypes,    \* types that are "search" followed by something
    NoType, NULL,
    InProgress,     \* the element of a key somebody is creating
    ERROR           \* the element of a key whose creation failed

VARIABLES
    package,        \* the name of the package
    elements,       \* the cache: key |-> InProgress, an entry or ERROR
    loader,         \* each thread's CollationLoader
    frames,         \* the keys each thread is creating, innermost last
    pc,             \* where each thread is
    ret,            \* the entry each thread is about to put into the cache
    faults          \* elements flushed and creations failed so far

vars == <<package, elements, loader, frames, pc, ret, faults>>

----------------------------------------------------------------------------
(* The resource bundles.  A bundle's chain is itself and its parents.      *)

\* The first element of a chain for which P holds: ures_getByKeyWithFallback.
FirstWith(chain, P(_)) ==
    LET i == SelectInSeq(chain, P) IN IF i = 0 THEN NULL ELSE chain[i]

\* The bundle where the collations/type data is, for every package and bundle.
Data == [p \in DOMAIN Packages |->
    [b \in DOMAIN Packages[p].chain |-> [type \in Types |->
        FirstWith(Packages[p].chain[b], LAMBDA c : type \in Packages[p].tailorings[c])]]]

\* The bundle whose default type it has.
Default == [p \in DOMAIN Packages |->
    [b \in DOMAIN Packages[p].chain |->
        FirstWith(Packages[p].chain[b], LAMBDA c : Packages[p].default[c] # NoType)]]

DataBundle(b, type) == Data[package][b][type]

DefaultType(b) ==
    IF Default[package][b] = NULL THEN "standard"
    ELSE Packages[package].default[Default[package][b]]

HasCollations(b) ==
    {Default[package][b]} \cup {DataBundle(b, type) : type \in Types} # {NULL}

\* ures_open: NULL for U_MISSING_RESOURCE_ERROR.
Opened(base) == Packages[package].opened[base]

\* What the loader relies on, and the data of ICU has: a type that a bundle
\* does not have is asked for only where the default type exists.  (Where the
\* default type is "standard" and missing, loadFromCollations falls back to it
\* twice, and waits for the key it is creating.)
ASSUME PackagesAssumption ==
    \A p \in DOMAIN Packages, r \in Requests :
        LET b == Packages[p].opened[r[1]]
            types == {type \in Types : Data[p][b][type] # NULL}
        IN  b # NULL =>
                \/ types = {}
                \/ r[2] \in types \cup {NoType, "default", "standard"}
                \/ Default[p][b] # NULL /\ Packages[p].default[Default[p][b]] \in types

----------------------------------------------------------------------------
(* Cache entries: a valid locale, and a tailoring with its actual locale.  *)

RootEntry == [valid |-> <<"root", NoType>>, data |-> <<"root", "standard">>,
              actual |-> <<"root", NoType>>]

\* The same tailoring for another valid locale.
MakeCacheEntry(valid, entry) ==
    IF entry = ERROR THEN ERROR ELSE [entry EXCEPT !.valid = valid]

NewLoader(locale) ==
    [locale |-> locale, type |-> locale[2], default |-> NoType, tried |-> {},
     valid |-> RootEntry.valid, bundle |-> NULL, collations |-> NULL, data |-> NULL]

----------------------------------------------------------------------------
Init ==
    /\ package \in DOMAIN Packages
    /\ elements = <<>>
    /\ loader = [t \in Threads |-> NULL]
    /\ frames = [t \in Threads |-> <<>>]
    /\ pc = [t \in Threads |-> "idle"]
    /\ ret = [t \in Threads |-> NULL]
    /\ faults = 0

Present(key) == key \in DOMAIN elements
Put(key, value) == elements' = (key :> value) @@ elements
Goto(t, label) == pc' = [pc EXCEPT ![t] = label]
SetLoader(t, L) == loader' = [loader EXCEPT ![t] = L]

\* How a load function ends: with an entry; by calling the next one; or with
\* getCacheEntry, whose result may still go through makeCacheEntry.
Finish(t, entry) ==
    /\ ret' = [ret EXCEPT ![t] = entry]
    /\ Goto(t, "put")
    /\ UNCHANGED <<loader, frames>>

Continue(t, L, label) ==
    /\ SetLoader(t, L)
    /\ Goto(t, label)
    /\ UNCHANGED <<frames, ret>>

GetCacheEntry(t, L, make) ==
    /\ SetLoader(t, L)
    /\ frames' = [frames EXCEPT ![t][Len(frames[t])].make = make]
    /\ Goto(t, "get")
    /\ UNCHANGED ret

LoadFromLocale(t) ==
    LET L == loader[t]
        b == Opened(L.locale[1])
        B == [L EXCEPT !.bundle = b, !.locale = <<b, L.type>>, !.valid = <<b, NoType>>]
    IN  /\ pc[t] = "loadFromLocale"
        /\ \/ b = NULL /\ Finish(t, RootEntry)
           \/ b # NULL /\ B.locale # L.locale /\ GetCacheEntry(t, B, FALSE)
           \/ b # NULL /\ B.locale = L.locale /\ Continue(t, B, "loadFromBundle")
        /\ UNCHANGED <<package, elements, faults>>

\* The typesTried flags of a type that is looked for.
Tried(type, default) ==
    (IF type = default THEN {"default"} ELSE {}) \cup ({type} \cap {"search", "standard"})

\* The loader once the default type is known.
WithCollations(L) ==
    LET default == DefaultType(L.bundle)
        type == IF L.type = NoType THEN default ELSE L.type
    IN  [L EXCEPT !.collations = L.bundle, !.default = default, !.type = type,
                  !.tried = @ \cup Tried(type, default), !.locale[2] = type]

\* A bug: a request for the default type looks for the entry with no type.
LoadFromBundleOpposite(t) ==
    LET L == loader[t]
        T == WithCollations(L)
    IN  /\ pc[t] = "loadFromBundle"
        /\ IF T.type # T.default THEN Continue(t, T, "loadFromCollations")
           ELSE IF L.type = NoType THEN GetCacheEntry(t, T, FALSE)
           ELSE GetCacheEntry(t, [T EXCEPT !.locale[2] = NoType], FALSE)
        /\ UNCHANGED <<package, elements, faults>>

LoadFromBundle(t) ==
    LET L == loader[t]
    IN  /\ pc[t] = "loadFromBundle"
        /\ \/ ~HasCollations(L.bundle) /\ Finish(t, MakeCacheEntry(L.valid, RootEntry))
           \/ /\ HasCollations(L.bundle) /\ L.type = NoType
              /\ GetCacheEntry(t, WithCollations(L), FALSE)
           \/ /\ HasCollations(L.bundle) /\ L.type # NoType
              /\ Continue(t, WithCollations(L), "loadFromCollations")
        /\ UNCHANGED <<package, elements, faults>>

\* A bug: the default type is not tried.
TypeFallbackStandard(L) ==
    IF "search" \notin L.tried /\ L.type \in SearchTypes THEN <<"search", "search">>
    ELSE IF "standard" \notin L.tried THEN <<"standard", "standard">>
    ELSE NULL

\* The flag and the type of the next type fallback, or NULL.
TypeFallback(L) ==
    IF "search" \notin L.tried /\ L.type \in SearchTypes THEN <<"search", "search">>
    ELSE IF "default" \notin L.tried THEN <<"default", L.default>>
    ELSE IF "standard" \notin L.tried THEN <<"standard", "standard">>
    ELSE NULL

\* The type is nowhere in the bundle's chain.
FallBack(t) ==
    LET L == loader[t]
        next == TypeFallback(L)
    IN  /\ pc[t] = "loadFromCollations" /\ DataBundle(L.collations, L.type) = NULL
        /\ \/ next = NULL /\ Finish(t, MakeCacheEntry(L.valid, RootEntry))
           \/ /\ next # NULL
              /\ GetCacheEntry(t, [L EXCEPT !.tried = @ \cup {next[1]}, !.type = next[2],
                                            !.locale[2] = next[2]], FALSE)
        /\ UNCHANGED <<package, elements, faults>>

\* It is in the bundle where.
LoadFromCollations(t) ==
    LET L == loader[t]
        where == DataBundle(L.collations, L.type)
        valid == IF L.type # L.default THEN <<L.valid[1], L.type>> ELSE L.valid
        D == [L EXCEPT !.data = where, !.valid = valid]
        isRoot == <<where, L.type>> = RootEntry.data
    IN  /\ pc[t] = "loadFromCollations" /\ where # NULL
        /\ \/ isRoot /\ Finish(t, MakeCacheEntry(valid, RootEntry))
           \/ /\ ~isRoot /\ where # valid[1]
              /\ GetCacheEntry(t, [D EXCEPT !.locale = <<where, L.type>>], TRUE)
           \/ /\ ~isRoot /\ where = valid[1]
              /\ Continue(t, [D EXCEPT !.locale = <<where, NoType>>], "loadFromData")
        /\ UNCHANGED <<package, elements, faults>>

\* A bug: the default type of the valid locale is suppressed instead.
LoadFromDataValidDefault(t) ==
    LET L == loader[t]
    IN  /\ pc[t] = "loadFromData"
        /\ Finish(t, [valid |-> L.valid, data |-> <<L.data, L.type>>,
                      actual |-> <<L.locale[1], IF L.type # L.default THEN L.type ELSE NoType>>])
        /\ UNCHANGED <<package, elements, faults>>

\* The default type is suppressed in the actual locale, according to the
\* actual locale.
LoadFromData(t) ==
    LET L == loader[t]
        base == L.locale[1]
        default == IF base # L.valid[1] THEN DefaultType(Opened(base)) ELSE L.default
    IN  /\ pc[t] = "loadFromData"
        /\ ret' = [ret EXCEPT ![t] =
               [valid |-> L.valid, data |-> <<L.data, L.type>>,
                actual |-> <<base, IF L.type # default THEN L.type ELSE NoType>>]]
        /\ SetLoader(t, [L EXCEPT !.default = default, !.bundle = NULL])
        /\ Goto(t, "put")
        /\ UNCHANGED <<package, elements, frames, faults>>

\* Any of them may fail, for memory or for unreadable data.
LoadFails(t) ==
    /\ pc[t] \in {"loadFromLocale", "loadFromBundle", "loadFromCollations", "loadFromData"}
    /\ faults < MaxFaults
    /\ faults' = faults + 1
    /\ Finish(t, ERROR)
    /\ UNCHANGED <<package, elements>>

----------------------------------------------------------------------------
\* loadTailoring and the constructor, which drops the type "default".
LoadTailoring(t, request) ==
    /\ pc[t] = "idle"
    /\ LET type == IF request[2] = "default" THEN NoType ELSE request[2]
       IN  IF request = <<"root", NoType>>
           THEN UNCHANGED <<loader, pc>>
           ELSE /\ SetLoader(t, NewLoader(<<request[1], type>>))
                /\ Goto(t, "get")
    /\ UNCHANGED <<package, elements, frames, ret, faults>>

\* An innermost getCacheEntry has the entry: back to the function that called
\* it, which passes it on, or to the client, and the loader is destroyed.
Return(t, entry, stack) ==
    /\ frames' = [frames EXCEPT ![t] = stack]
    /\ IF stack = <<>>
       THEN /\ Goto(t, "idle")
            /\ ret' = [ret EXCEPT ![t] = NULL]
            /\ SetLoader(t, NULL)
       ELSE /\ Goto(t, "put")
            /\ ret' = [ret EXCEPT ![t] = IF Last(stack).make
                                        THEN MakeCacheEntry(loader[t].valid, entry)
                                        ELSE entry]
            /\ UNCHANGED loader

\* A bug: an error is taken for a value that is not there yet.
HitPollsForValue(t) ==
    LET key == loader[t].locale
    IN  /\ pc[t] = "get" /\ Present(key) /\ elements[key] # InProgress
        /\ IF elements[key] = ERROR THEN UNCHANGED vars
           ELSE /\ Return(t, elements[key], frames[t])
                /\ UNCHANGED <<package, elements, faults>>

\* getCacheEntry finds the key in the cache.
Hit(t) ==
    LET key == loader[t].locale
    IN  /\ pc[t] = "get" /\ Present(key) /\ elements[key] # InProgress
        /\ Return(t, elements[key], frames[t])
        /\ UNCHANGED <<package, elements, faults>>

\* Where createCacheEntry continues.
CreateCacheEntry(L) ==
    IF L.bundle = NULL THEN "loadFromLocale"
    ELSE IF L.collations = NULL THEN "loadFromBundle"
    ELSE IF L.data = NULL THEN "loadFromCollations"
    ELSE "loadFromData"

\* It does not, marks the key in progress and calls createObject.
Miss(t) ==
    LET key == loader[t].locale
    IN  /\ pc[t] = "get" /\ ~Present(key)
        /\ Put(key, InProgress)
        /\ frames' = [frames EXCEPT ![t] = Append(@, [key |-> key, make |-> FALSE])]
        /\ Goto(t, CreateCacheEntry(loader[t]))
        /\ UNCHANGED <<package, loader, ret, faults>>

\* createObject returned: the value becomes the element of the key, unless
\* another thread, after a flush, was first.
Created(t) ==
    LET key == Last(frames[t]).key
        lost == Present(key) /\ elements[key] # InProgress
        value == IF lost THEN elements[key] ELSE ret[t]
    IN  /\ pc[t] = "put"
        /\ Put(key, value)
        /\ Return(t, value, Front(frames[t]))
        /\ UNCHANGED <<package, faults>>

\* flush() drops an element; which ones have references from outside the
\* cache, and stay, is left open.
Flush(key) ==
    /\ faults < MaxFaults
    /\ faults' = faults + 1
    /\ elements' = [k \in DOMAIN elements \ {key} |-> elements[k]]
    /\ UNCHANGED <<package, loader, frames, pc, ret>>

Step(t) ==
    \/ Hit(t) \/ Miss(t) \/ Created(t)
    \/ LoadFromLocale(t) \/ LoadFromBundle(t) \/ FallBack(t)
    \/ LoadFromCollations(t) \/ LoadFromData(t) \/ LoadFails(t)

Next ==
    \/ \E t \in Threads : Step(t) \/ \E r \in Requests : LoadTailoring(t, r)
    \/ \E key \in DOMAIN elements : Flush(key)

\* A thread keeps running: the scheduler is fair to every runnable thread.
Spec == Init /\ [][Next]_vars /\ \A t \in Threads : WF_vars(Step(t))

----------------------------------------------------------------------------
(* What the lookup should find, as a definition over the data alone.       *)

Reference(locale) ==
    LET b == Opened(locale[1])
        default == DefaultType(b)
        wanted == IF locale[2] = NoType THEN default ELSE locale[2]
        tries == <<wanted>> \o (IF wanted \in SearchTypes THEN <<"search">> ELSE <<>>)
                            \o <<default, "standard">>
        i == SelectInSeq(tries, LAMBDA type : DataBundle(b, type) # NULL)
    IN  IF b = NULL THEN RootEntry.data
        ELSE IF ~HasCollations(b) \/ i = 0 THEN RootEntry.data
        ELSE <<DataBundle(b, tries[i]), tries[i]>>

\* The threads that are creating the value for a key.
Creators(key) == {t \in Threads : \E i \in DOMAIN frames[t] : frames[t][i].key = key}

Waiting(t) ==
    pc[t] = "get" /\ Present(loader[t].locale) /\ elements[loader[t].locale] = InProgress

\* "Otherwise, two concurrent requests with opposite fallbacks would deadlock
\* each other" (loadFromBundle): there are no threads that wait, in
\* cache->get() below createCacheEntry, for keys only they are creating.
NoCyclicWait ==
    \A T \in SUBSET Threads :
        T # {} => \E t \in T : Waiting(t) => ~(Creators(loader[t].locale) \subseteq T)

\* Whoever created an entry, for whatever request and through whichever
\* fallbacks, the tailoring cached for a key is the one its locale and type
\* fall back to in the data.
CachedTailoringIsReference ==
    \A k \in DOMAIN elements :
        elements[k] \notin {InProgress, ERROR} => elements[k].data = Reference(k)

\* "If we open a collator for the actual locale, we should get an equivalent
\* one again" (test/intltest/apicoll.cpp): the actual locale of every entry a
\* client can get leads back to the same tailoring.
ActualLocaleReopens ==
    \A k \in DOMAIN elements :
        elements[k] \notin {InProgress, ERROR}
            => Reference(elements[k].actual) = elements[k].data

\* Every loadTailoring returns.
LoadsReturn == \A t \in Threads : pc[t] # "idle" ~> pc[t] = "idle"
============================================================================
