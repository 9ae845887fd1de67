------------------------------ MODULE UResBund -------------------------------
(***************************************************************************)
(* The cache of resource bundle entries (common/uresbund.cpp).             *)
(*                                                                         *)
(* An entry is a loaded (or missing) bundle file.  Entries are linked to   *)
(* their parents, to the bundle an alias names and to the pool bundle, are *)
(* counted once for every open UResourceBundle whose chain of parents they *)
(* are on and for every entry whose alias or pool they are, and stay in    *)
(* the table until u_cleanup.  Every function that touches the table holds *)
(* resbMutex; entryOpen takes one step for each entry it goes to, in which *)
(* nobody else gets the mutex, the others are one step.                    *)
(*                                                                         *)
(* A locale name is the sequence of its subtags; a key is a package and a  *)
(* name.  Of the warning codes only the fallback is kept.                  *)
(***************************************************************************)
EXTENDS Integers, SequencesExt

CONSTANTS
    Files,          \* key |-> what its file says of alias, pool and parents
    Names,          \* locales that are opened
    DefaultLocales, \* what uloc_getDefault may return
    Handles,        \* UResourceBundle objects
    MaxFailures,    \* bound on failed allocations
    MaxLateOpens,   \* bound on the bundles opened after one failed
    NULL

VARIABLES
    cache,          \* key |-> entry
    handles,        \* each bundle object: NULL, or what was opened and its fData
    op,             \* NULL, or the locals of the entryOpen that has resbMutex
    default,        \* uloc_getDefault()
    failures,       \* failed allocations so far
    lateOpens,      \* bundles opened after one failed
    leaked          \* entries that u_cleanup could not free

vars == <<cache, handles, op, default, failures, lateOpens, leaked>>

Root == <<"root">>
Key(package, name) == [package |-> package, name |-> name]
Icu(name) == Key("icudt", name)
Usr(name) == Key("usrdt", name)
Pool(package) == Key(package, <<"pool">>)

NoFile == [alias |-> NULL, pool |-> FALSE, parent |-> NULL, parentIsRoot |-> FALSE,
           noFallback |-> FALSE]
Real(key) == key \in DOMAIN Files
File(key) == IF Real(key) THEN Files[key] ELSE NoFile

AddCounts(c, keys, n) ==
    [k \in DOMAIN c |-> IF k \in keys THEN [c[k] EXCEPT !.count = @ + n] ELSE c[k]]

Chain(c, start) ==
    LET chain[k \in DOMAIN c] ==
            <<k>> \o (IF c[k].parent = NULL THEN <<>> ELSE chain[c[k].parent])
    IN  IF start = NULL THEN <<>> ELSE chain[start]

----------------------------------------------------------------------------
(* init_entry.                                                             *)

\* The bundle that an alias stands for, and the pool bundle of a bundle.
AliasOf(key) == IF File(key).alias = NULL THEN NULL ELSE Key(key.package, File(key).alias)
PoolOf(key) == IF File(key).pool THEN Pool(key.package) ELSE NULL
Target(key) == IF AliasOf(key) = NULL THEN key ELSE AliasOf(key)

\* What is loaded with a bundle.
Loaded(key) == {key, Target(key), PoolOf(key), PoolOf(Target(key))} \ {NULL}

NewEntry(key) ==
    [parent |-> NULL, alias |-> AliasOf(key), pool |-> PoolOf(key), count |-> 0,
     bogus |-> IF Real(key) THEN "zero" ELSE "fallback"]

\* The table with the keys added: each counts the alias and the pool it has.
Add(c, keys) ==
    LET new == keys \ DOMAIN c
        held(k) == {j \in new : AliasOf(j) = k} \cup {j \in new : PoolOf(j) = k}
        all == [k \in DOMAIN c \cup new |-> IF k \in DOMAIN c THEN c[k] ELSE NewEntry(k)]
    IN  [k \in DOMAIN all |-> [all[k] EXCEPT !.count = @ + Cardinality(held(k))]]

\* What init_entry returns: the table, an entry, whether its status is an error
\* and how many allocations failed.
Result(c, r, failed, n) == [cache |-> c, r |-> r, failed |-> failed, failures |-> n]

\* The entry that is returned is counted; a bogus entry may be so for an error.
Loads(c, key) ==
    LET e == IF key \in DOMAIN c THEN c[key] ELSE NewEntry(key)
        r == IF e.alias = NULL THEN key ELSE e.alias
        all == AddCounts(Add(c, Loaded(key)), {r}, 1)
    IN  Result(all, r, all[r].bogus = "error", 0)

\* An allocation fails: for the new entry, for its place in the table (what it
\* has loaded stays there), or for the bundle it has as its alias or its pool.
FailedLoads(c, key) ==
    LET e == [NewEntry(key) EXCEPT !.alias = NULL, !.pool = NULL, !.count = 1,
                                   !.bogus = IF File(key).pool THEN "error" ELSE @]
    IN  {Result(c, NULL, TRUE, 1),
         Result(Add(c, Loaded(key) \ {key}), NULL, TRUE, 1)}
        \cup (IF Loaded(key) \ DOMAIN c = {key} THEN {}
              ELSE {Result((key :> e) @@ c, key, TRUE, 1)})

\* What init_entry may return, given the status it is called with.
InitEntry(c, key, failed) ==
    IF failed THEN {Result(c, NULL, TRUE, 0)}
    ELSE {Loads(c, key)} \cup
         (IF failures < MaxFailures /\ key \notin DOMAIN c THEN FailedLoads(c, key) ELSE {})

----------------------------------------------------------------------------
(* entryOpen.                                                              *)

\* umtx_lock(&resbMutex), and the locals of entryOpen: r and t1 are entries,
\* rest is what is left of the name, <<>> for !hasChopped, intFailed and
\* parentFailed tell errors in intStatus and parentStatus.
Lock(h, name, direct) ==
    /\ op = NULL
    /\ lateOpens' = lateOpens + (IF failures > 0 THEN 1 ELSE 0)
    /\ lateOpens' <= MaxLateOpens
    /\ op' = [at |-> "find", h |-> h, name |-> name, direct |-> direct, r |-> NULL,
              t1 |-> NULL, rest |-> name, isRoot |-> FALSE, isDefault |-> FALSE,
              intFailed |-> FALSE, parentFailed |-> FALSE]

At(place) == op # NULL /\ op.at = place

\* umtx_unlock(&resbMutex): the bundle object h has the entry r, or none.
Unlock(r) ==
    /\ handles' = [handles EXCEPT ![op.h] = IF r = NULL THEN NULL ELSE [name |-> op.name, data |-> r]]
    /\ op' = NULL

Stop(c) == cache' = c /\ Unlock(NULL)

\* Where entryOpen goes on after it has looked for a locale: w is the locals.
\* An error is forgotten by the time the root is looked for, unless the
\* default locale has been passed over.
AfterFind(w) ==
    LET tryDefault == op.at = "find" /\ ~w.isDefault /\ ~w.isRoot
        keep == w.intFailed /\ op.at = "find" /\ ~tryDefault
    IN  IF w.r = NULL /\ w.rest # <<>> THEN w
        ELSE IF w.r = NULL
        THEN IF tryDefault /\ ~w.intFailed THEN [w EXCEPT !.at = "findDefault", !.rest = default]
             ELSE [w EXCEPT !.at = "findRoot", !.rest = Root, !.intFailed = keep]
        ELSE [w EXCEPT !.at = CASE op.at = "find" -> "user"
                                [] op.at = "findDefault" -> "defaultParents"
                                [] op.at = "findRoot" -> "finish"]

\* A bug: an alias keeps the name that was asked for.
AskedName(e, name) == name

\* The name whose prefixes are the parents: an alias takes that of its target.
RealName(e, name) == IF e.cache[e.r].bogus = "zero" THEN e.r.name ELSE name

\* findFirstExisting: the name, or else its prefixes, for one that has data.
FindFirstExisting ==
    /\ At("find") \/ At("findDefault") \/ At("findRoot")
    /\ \E e \in InitEntry(cache, Icu(op.rest), op.intFailed) :
        /\ \/ /\ e.failed /\ op.at = "findRoot"
              /\ Stop(e.cache)
           \/ /\ e.failed /\ op.at # "findRoot"
              /\ cache' = e.cache
              /\ op' = AfterFind([op EXCEPT !.rest = <<>>, !.intFailed = TRUE])
              /\ UNCHANGED handles
           \/ /\ ~e.failed
              /\ LET real == e.cache[e.r].bogus = "zero"
                     name == RealName(e, op.rest)
                 IN  /\ cache' = IF real THEN e.cache ELSE AddCounts(e.cache, {e.r}, -1)
                     /\ op' = AfterFind([op EXCEPT
                            !.r = IF real THEN e.r ELSE NULL, !.t1 = IF real THEN e.r ELSE NULL,
                            !.isRoot = name = Root, !.isDefault = IsPrefix(op.rest, default),
                            !.rest = Front(name)])
                     /\ UNCHANGED handles
        /\ failures' = failures + e.failures
    /\ UNCHANGED <<default, lateOpens, leaked>>

\* A bug: missing override data begins the chain too.
InsertMissingUserData ==
    /\ At("user")
    /\ \E u1 \in InitEntry(cache, Usr(op.t1.name), FALSE) :
        /\ cache' = IF u1.r = NULL THEN u1.cache ELSE [u1.cache EXCEPT ![u1.r].parent = op.t1]
        /\ op' = [op EXCEPT !.r = IF u1.r # NULL THEN u1.r ELSE @, !.at = "parents"]
        /\ failures' = failures + u1.failures
    /\ UNCHANGED <<handles, default, lateOpens, leaked>>

\* The user's override data for the locale that was found, if there is any,
\* begins the chain.
InsertUserData ==
    /\ At("user")
    /\ \E u1 \in InitEntry(cache, Usr(op.t1.name), FALSE) :
        LET found == u1.r # NULL /\ u1.cache[u1.r].bogus = "zero"
        IN  /\ cache' = IF u1.r = NULL THEN u1.cache
                        ELSE IF found THEN [u1.cache EXCEPT ![u1.r].parent = op.t1]
                        ELSE [u1.cache EXCEPT ![u1.r].count = 0]
            /\ op' = [op EXCEPT !.r = IF found THEN u1.r ELSE @, !.at = "parents"]
            /\ failures' = failures + u1.failures
    /\ UNCHANGED <<handles, default, lateOpens, leaked>>

\* The loops over the parents end; an explicit parent replaces the name.
NoMoreParents(noFallback) ==
    \/ op.rest = <<>> \/ op.isRoot \/ noFallback
    \/ cache[op.t1].parent # NULL
    \/ File(op.t1).parent = Root

ParentName == IF File(op.t1).parent # NULL THEN File(op.t1).parent ELSE op.rest

EndOfParents ==
    /\ \/ At("parents") /\ NoMoreParents(File(op.t1).noFallback)
       \/ At("defaultParents") /\ NoMoreParents(FALSE)
    /\ op' = [op EXCEPT !.at = "finish"]
    /\ UNCHANGED <<cache, handles, failures, default, lateOpens, leaked>>

\* A parent t2 of t1, below the user's override data u2 if there is any; the
\* entry of missing override data is not counted.
InsertParent ==
    /\ At("parents") /\ ~NoMoreParents(File(op.t1).noFallback)
    /\ \E t2 \in InitEntry(cache, Icu(ParentName), op.parentFailed) :
       \E u2 \in InitEntry(t2.cache, Usr(ParentName), FALSE) :
        /\ t2.failures + u2.failures + failures <= MaxFailures
        /\ \/ /\ t2.r = NULL \/ u2.r = NULL
              /\ Stop(u2.cache)
           \/ /\ t2.r # NULL /\ u2.r # NULL
              /\ cache' = IF u2.cache[u2.r].bogus = "zero"
                          THEN [u2.cache EXCEPT ![op.t1].parent = u2.r, ![u2.r].parent = t2.r]
                          ELSE [u2.cache EXCEPT ![op.t1].parent = t2.r, ![u2.r].count = 0]
              /\ op' = [op EXCEPT !.t1 = t2.r, !.parentFailed = t2.failed, !.rest = Front(ParentName)]
              /\ UNCHANGED handles
        /\ failures' = failures + t2.failures + u2.failures
    /\ UNCHANGED <<default, lateOpens, leaked>>

\* The same for the default locale, without the user's data.
InsertDefaultParent ==
    /\ At("defaultParents") /\ ~NoMoreParents(FALSE)
    /\ \E t2 \in InitEntry(cache, Icu(ParentName), op.parentFailed) :
        /\ \/ /\ t2.r = NULL
              /\ Stop(t2.cache)
           \/ /\ t2.r # NULL
              /\ LET t1 == IF File(op.t1).parentIsRoot THEN op.t1 ELSE t2.r
                 IN  /\ cache' = IF t1 = op.t1 THEN t2.cache
                                 ELSE [t2.cache EXCEPT ![op.t1].parent = t2.r]
                     /\ op' = [op EXCEPT !.t1 = t1, !.parentFailed = t2.failed,
                                         !.rest = Front(ParentName)]
              /\ UNCHANGED handles
        /\ failures' = failures + t2.failures
    /\ UNCHANGED <<default, lateOpens, leaked>>

NeedsRoot ==
    /\ ~op.isRoot /\ op.t1.name # Root
    /\ cache[op.t1].parent = NULL /\ ~File(op.r).noFallback

\* The root becomes the last of the parents.
InsertRoot ==
    /\ At("finish") /\ NeedsRoot
    /\ \E t2 \in InitEntry(cache, Icu(Root), op.parentFailed) :
        /\ \/ /\ t2.r = NULL
              /\ Stop(t2.cache)
           \/ /\ t2.r # NULL
              /\ cache' = [t2.cache EXCEPT ![op.t1].parent = t2.r]
              /\ op' = [op EXCEPT !.t1 = t2.r, !.parentFailed = t2.failed]
              /\ UNCHANGED handles
        /\ failures' = failures + t2.failures
    /\ UNCHANGED <<default, lateOpens, leaked>>

\* The status of entryOpen says that another bundle than name was found.
UsedFallback == op.r.name # Target(Icu(op.name)).name

\* The parents that were there before are counted.  ures_openDirect closes
\* what it did not ask for.
Finish ==
    /\ At("finish") /\ ~NeedsRoot
    /\ LET above == IF op.isRoot THEN {} ELSE ToSet(Chain(cache, cache[op.t1].parent))
           counted == AddCounts(cache, above, 1)
           refused == op.direct /\ UsedFallback
       IN  /\ cache' = IF refused /\ ~op.parentFailed
                       THEN AddCounts(counted, ToSet(Chain(counted, op.r)), -1) ELSE counted
           /\ Unlock(IF op.parentFailed \/ refused THEN NULL ELSE op.r)
    /\ UNCHANGED <<failures, default, lateOpens, leaked>>

----------------------------------------------------------------------------
(* The functions of ures.h.                                                *)


EntryIncrease(c, key) == AddCounts(c, ToSet(Chain(c, key)), 1)
EntryClose(c, key) == AddCounts(c, ToSet(Chain(c, key)), -1)

CloseHandle(h) == IF handles[h] = NULL THEN cache ELSE EntryClose(cache, handles[h].data)

Init ==
    /\ cache = <<>>
    /\ handles = [h \in Handles |-> NULL]
    /\ op = NULL
    /\ default \in DefaultLocales
    /\ failures = 0
    /\ lateOpens = 0
    /\ leaked = {}

\* ures_open and ures_openFillIn, which closes what the object had open.
Open(h, name) ==
    /\ Lock(h, name, FALSE)
    /\ cache' = CloseHandle(h)
    /\ handles' = [handles EXCEPT ![h] = NULL]
    /\ UNCHANGED <<failures, default, leaked>>

\* ures_openDirect accepts nothing but the bundle that is asked for.
OpenDirect(h, name) ==
    /\ handles[h] = NULL
    /\ Lock(h, name, TRUE)
    /\ UNCHANGED <<cache, handles, failures, default, leaked>>

\* ures_getByKey and the like: a resource of the bundle g, found in an entry
\* of its chain, fills in the bundle object h.
GetResource(g, h) ==
    /\ op = NULL
    /\ handles[g] # NULL
    /\ \E key \in ToSet(Chain(cache, handles[g].data)) :
        /\ cache[key].bogus = "zero"
        /\ cache' = EntryIncrease(CloseHandle(h), key)
        /\ handles' = [handles EXCEPT ![h] = [name |-> NULL, data |-> key]]
    /\ UNCHANGED <<op, failures, default, lateOpens, leaked>>

\* ures_copyResb.
CopyResb(g, h) ==
    /\ op = NULL
    /\ handles[g] # NULL /\ g # h
    /\ cache' = EntryIncrease(CloseHandle(h), handles[g].data)
    /\ handles' = [handles EXCEPT ![h] = handles[g]]
    /\ UNCHANGED <<op, failures, default, lateOpens, leaked>>

Close(h) ==
    /\ op = NULL
    /\ handles[h] # NULL
    /\ cache' = CloseHandle(h)
    /\ handles' = [handles EXCEPT ![h] = NULL]
    /\ UNCHANGED <<op, failures, default, lateOpens, leaked>>

\* free_entry: what the entries held is counted down.
Freed(c, dead) ==
    LET holders(k) == {j \in dead : c[j].alias = k} \cup {j \in dead : c[j].pool = k}
    IN  [k \in DOMAIN c \ dead |-> [c[k] EXCEPT !.count = @ - Cardinality(holders(k))]]

\* A bug: one pass over the table.
FlushOnce(c) == [k \in {j \in DOMAIN c : c[j].count # 0} |-> c[k]]

\* ures_flushCache frees what is not counted, which may uncount the rest.
FlushCache(c) ==
    LET pass(d) == Freed(d, {k \in DOMAIN d : d[k].count = 0})
        after[n \in 0..Cardinality(DOMAIN c)] == IF n = 0 THEN c ELSE pass(after[n - 1])
    IN  after[Cardinality(DOMAIN c)]

\* u_cleanup, once every bundle is closed.
Cleanup ==
    /\ op = NULL
    /\ \A h \in Handles : handles[h] = NULL
    /\ leaked' = leaked \cup DOMAIN FlushCache(cache)
    /\ cache' = <<>>
    /\ UNCHANGED <<handles, op, default, failures, lateOpens>>

EntryOpen ==
    \/ FindFirstExisting
    \/ InsertUserData
    \/ InsertParent
    \/ InsertDefaultParent
    \/ EndOfParents
    \/ InsertRoot
    \/ Finish

Next ==
    \/ \E h \in Handles, name \in Names : Open(h, name) \/ OpenDirect(h, name)
    \/ EntryOpen
    \/ \E g, h \in Handles : GetResource(g, h) \/ CopyResb(g, h)
    \/ \E h \in Handles : Close(h)
    \/ Cleanup

Spec == Init /\ [][Next]_vars

----------------------------------------------------------------------------
\* The references to an entry: the open bundles whose chain it is on, and the
\* entries whose alias or pool it is.
References(key) ==
      Cardinality({h \in Handles : handles[h] # NULL /\ key \in ToSet(Chain(cache, handles[h].data))})
    + Cardinality({k \in DOMAIN cache : cache[k].alias = key})
    + Cardinality({k \in DOMAIN cache : cache[k].pool = key})

\* As long as memory lasts, in whatever order bundles are opened, copied,
\* filled in and closed, and their chains built piece by piece, an entry's
\* fCountExisting is the number of its references whenever resbMutex is free.
CountsExact ==
    (op = NULL /\ failures = 0) => \A k \in DOMAIN cache : cache[k].count = References(k)

\* As long as memory lasts, u_cleanup frees every entry once every bundle is
\* closed: what the counts say never keeps one in the table.
NothingLeaks == failures = 0 => leaked = {}

\* "This can happen only if fallback chain gets broken by an act of God"
\* (ures_open, of a bundle without data): whatever allocation failed in this
\* call or an earlier one, an open bundle begins with an entry that has data.
OpenHasData ==
    \A h \in Handles : handles[h] # NULL => cache[handles[h].data].bogus = "zero"

\* The bundles with data that a locale inherits from, by the data alone.
Inherits ==
    LET names == {k.name : k \in DOMAIN Files}
        above(name) == IF File(Icu(name)).parent # NULL THEN File(Icu(name)).parent
                       ELSE IF Len(name) > 1 THEN Front(name) ELSE Root
        inherits[name \in names \cup UNION {{above(n), above(above(n))} : n \in names}] ==
            LET f == File(Icu(name))
            IN  IF f.alias # NULL THEN inherits[f.alias]
                ELSE (IF Real(Icu(name)) THEN <<name>> ELSE <<>>) \o
                     (IF name = Root \/ f.noFallback THEN <<>> ELSE inherits[above(name)])
    IN  inherits

\* The chain of an open bundle, without missing files and the user's data.
IcuChain(h) ==
    LET s == SelectSeq(Chain(cache, handles[h].data),
                       LAMBDA k : k.package = "icudt" /\ cache[k].bogus = "zero")
    IN  [i \in DOMAIN s |-> s[i].name]

\* "proper fallback chaining is executed while initialization" (ures_open): a
\* locale that exists inherits from the same bundles in the same order,
\* whatever was opened before it and has linked the entries already (as long
\* as memory lasts).
ChainIsInherits ==
    failures = 0 => \A h \in Handles :
        (handles[h] # NULL /\ handles[h].name # NULL /\ Real(Icu(handles[h].name)))
            => IcuChain(h) = Inherits[handles[h].name]
=============================================================================
