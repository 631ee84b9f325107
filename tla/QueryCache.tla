----------------------------- MODULE QueryCache -----------------------------
(***************************************************************************)
(* The query cache of a cluster: utils.GetOrSetCache, as the Get callback  *)
(* (callbacks/get.go) and, one inside the other, getNodeWithCache          *)
(* (kom/ctl_node.go) use it for one object of the API server.              *)
(*                                                                         *)
(* Nothing locks the cache between a miss and the store that follows it,   *)
(* cached objects are shared by pointer, and a write to the API server     *)
(* does not touch them.  A call fetches the object at most once, so what   *)
(* it fetched is named by the call, and its content by the time of fetch.  *)
(***************************************************************************)
EXTENDS Naturals

CONSTANTS
    Calls,    \* goroutines that make one query each
    MaxTTL,   \* the longest time to live that callers ask for
    Delay,    \* how long one query may take, from begin to end
    MaxTime,  \* bound on the clock
    None

ASSUME NumbersAssumption ==
    MaxTTL \in Nat \ {0} /\ Delay \in Nat /\ MaxTime \in Nat

ASSUME NoneAssumption == None \notin Calls

VARIABLES
    now,        \* the clock
    req,        \* req[c]: what call c asks for
    pc,         \* pc[c]: its next step
    began,      \* began[c]: when it started
    held,       \* held[c]: the object it got: its own, or one from the cache
    tookAt,     \* tookAt[c]: when it got that object
    fetchedAt,  \* fetchedAt[c]: when call c read its own object
    entry,      \* the cache: for each key the object cached
    expires,    \* ... and when it expires
    stripped,   \* objects whose managedFields were removed
    lacks       \* calls that returned an object without managedFields

caching == <<entry, expires>>

vars == <<now, req, pc, began, held, tookAt, fetchedAt, entry, expires,
          stripped, lacks>>

\* "get" caches the object as Get received it, "node" the typed copy that
\* getNodeWithCache made of the answer of such a Get.
Keys == {"get", "node"}

\* ttl 0: WithCache was not called.  getCacheTTL gives node queries a default.
Request ==
    [kind : {"get"}, ttl : 0 .. MaxTTL, strip : BOOLEAN]
    \cup [kind : {"node"}, ttl : 1 .. MaxTTL, strip : {FALSE}]

Steps == {"idle", "nodeLookup", "lookup", "query", "store", "strip",
          "convert", "nodeStore", "done", "failed", "unconverted"}

\* A call ends with an answer, with the API server's error, or with an error
\* of the conversion.
Running(c) == pc[c] \notin {"idle", "done", "failed", "unconverted"}

CallOrNone == Calls \cup {None}

Init ==
    /\ now = 0
    /\ req \in [Calls -> Request]
    /\ pc = [c \in Calls |-> "idle"]
    /\ began = [c \in Calls |-> 0]
    /\ held = [c \in Calls |-> None]
    /\ tookAt = [c \in Calls |-> 0]
    /\ fetchedAt = [c \in Calls |-> 0]
    /\ entry = [k \in Keys |-> None]
    /\ expires = [k \in Keys |-> 0]
    /\ stripped = {}
    /\ lacks = {}

Goto(c, step) == pc' = [pc EXCEPT ![c] = step]

-----------------------------------------------------------------------------
(* Faulty variants of definitions below, each a slip that one property       *)
(* catches.  They are not part of Next.                                      *)

\* A Get that cannot convert its object drops the entry that everyone uses
\* and puts back what it read.
ConvertAndPutBack(c) ==
    /\ pc[c] = "convert"
    /\ \/ /\ lacks' = IF held[c] \in stripped THEN lacks \cup {c} ELSE lacks
          /\ Goto(c, IF req[c].kind = "node" THEN "nodeStore" ELSE "done")
          /\ UNCHANGED caching
       \/ /\ Goto(c, "unconverted")
          /\ entry' = [entry EXCEPT !["get"] = held[c]]
          /\ UNCHANGED <<expires, lacks>>
    /\ UNCHANGED <<now, req, began, held, tookAt, fetchedAt, stripped>>

\* The time to live is not looked at.
LiveForever(k) == entry[k] # None

\* Every Get removes the managed fields.
AfterGetAlwaysStrip(c) == "strip"

\* The cache is used without a time to live, too.
LookupWithoutBypass(c) ==
    /\ pc[c] = "lookup"
    /\ IF entry["get"] # None /\ now < expires["get"]
       THEN /\ held' = [held EXCEPT ![c] = entry["get"]]
            /\ tookAt' = [tookAt EXCEPT ![c] = now]
            /\ Goto(c, IF req[c].strip THEN "strip" ELSE "convert")
       ELSE Goto(c, "query") /\ UNCHANGED <<held, tookAt>>
    /\ UNCHANGED <<now, req, began, fetchedAt, caching, stripped, lacks>>

\* A hit is stored again, which renews its time to live.
LookupAndRenew(c) ==
    /\ pc[c] = "lookup"
    /\ IF req[c].ttl > 0 /\ entry["get"] # None /\ now < expires["get"]
       THEN /\ held' = [held EXCEPT ![c] = entry["get"]]
            /\ tookAt' = [tookAt EXCEPT ![c] = now]
            /\ Goto(c, "store")
       ELSE Goto(c, "query") /\ UNCHANGED <<held, tookAt>>
    /\ UNCHANGED <<now, req, began, fetchedAt, caching, stripped, lacks>>

\* The answer is cached before the error is looked at.
QueryAndCache(c) ==
    /\ pc[c] = "query"
    /\ held' = [held EXCEPT ![c] = c]
    /\ tookAt' = [tookAt EXCEPT ![c] = now]
    /\ fetchedAt' = [fetchedAt EXCEPT ![c] = now]
    /\ entry' = [entry EXCEPT !["get"] = c]
    /\ expires' = [expires EXCEPT !["get"] = now + req[c].ttl]
    /\ \/ Goto(c, IF req[c].strip THEN "strip" ELSE "convert")
       \/ Goto(c, "failed")
    /\ UNCHANGED <<now, req, began, stripped, lacks>>

\* The managed fields are removed from what is cached by now.
StripCached(c) ==
    /\ pc[c] = "strip"
    /\ stripped' = stripped \cup {entry["get"]}
    /\ Goto(c, "convert")
    /\ UNCHANGED <<now, req, began, held, tookAt, fetchedAt, caching, lacks>>

-----------------------------------------------------------------------------

Live(k) == entry[k] # None /\ now < expires[k]

\* Once a Get has its object it removes the managed fields, if it was asked
\* to, and converts the object to the caller's type.
AfterGet(c) == IF req[c].strip THEN "strip" ELSE "convert"

Begin(c) ==
    /\ pc[c] = "idle"
    /\ Goto(c, IF req[c].kind = "node" THEN "nodeLookup" ELSE "lookup")
    /\ began' = [began EXCEPT ![c] = now]
    /\ UNCHANGED <<now, req, held, tookAt, fetchedAt, caching, stripped, lacks>>

-----------------------------------------------------------------------------
(* GetOrSetCache *)

Take(c, object) ==
    /\ held' = [held EXCEPT ![c] = object]
    /\ tookAt' = [tookAt EXCEPT ![c] = now]

NodeLookup(c) ==
    /\ pc[c] = "nodeLookup"
    /\ IF Live("node")
       THEN Take(c, entry["node"]) /\ Goto(c, "done")
       ELSE Goto(c, "lookup") /\ UNCHANGED <<held, tookAt>>
    /\ UNCHANGED <<now, req, began, fetchedAt, caching, stripped, lacks>>

\* A time to live of 0 means no cache at all.
Lookup(c) ==
    /\ pc[c] = "lookup"
    /\ IF req[c].ttl > 0 /\ Live("get")
       THEN Take(c, entry["get"]) /\ Goto(c, AfterGet(c))
       ELSE Goto(c, "query") /\ UNCHANGED <<held, tookAt>>
    /\ UNCHANGED <<now, req, began, fetchedAt, caching, stripped, lacks>>

\* The API server answers, or fails; a failure is not cached.
Query(c) ==
    /\ pc[c] = "query"
    /\ \/ /\ Take(c, c)
          /\ fetchedAt' = [fetchedAt EXCEPT ![c] = now]
          /\ Goto(c, IF req[c].ttl > 0 THEN "store" ELSE AfterGet(c))
       \/ /\ Goto(c, "failed")
          /\ UNCHANGED <<held, tookAt, fetchedAt>>
    /\ UNCHANGED <<now, req, began, caching, stripped, lacks>>

\* SetWithTTL and Wait.  ristretto (external) may decline to admit the entry.
SetWithTTL(c, k) ==
    \/ /\ entry' = [entry EXCEPT ![k] = held[c]]
       /\ expires' = [expires EXCEPT ![k] = now + req[c].ttl]
    \/ UNCHANGED caching

Store(c) ==
    /\ pc[c] = "store"
    /\ SetWithTTL(c, "get")
    /\ Goto(c, AfterGet(c))
    /\ UNCHANGED <<now, req, began, held, tookAt, fetchedAt, stripped, lacks>>

NodeStore(c) ==
    /\ pc[c] = "nodeStore"
    /\ SetWithTTL(c, "node")
    /\ Goto(c, "done")
    /\ UNCHANGED <<now, req, began, held, tookAt, fetchedAt, stripped, lacks>>

-----------------------------------------------------------------------------
(* The rest of Get *)

\* RemoveManagedFields works on the object itself, cached or not.
Strip(c) ==
    /\ pc[c] = "strip"
    /\ stripped' = stripped \cup {held[c]}
    /\ Goto(c, "convert")
    /\ UNCHANGED <<now, req, began, held, tookAt, fetchedAt, caching, lacks>>

\* FromUnstructured fills the caller's variable, or fails: the call ends with an
\* error, and the object that it has cached stays cached.
Convert(c) ==
    /\ pc[c] = "convert"
    /\ \/ /\ lacks' = IF held[c] \in stripped THEN lacks \cup {c} ELSE lacks
          /\ Goto(c, IF req[c].kind = "node" THEN "nodeStore" ELSE "done")
       \/ Goto(c, "unconverted") /\ UNCHANGED lacks
    /\ UNCHANGED <<now, req, began, held, tookAt, fetchedAt, caching, stripped>>

-----------------------------------------------------------------------------

\* ristretto (external) may evict an entry at any time.
Evict(k) ==
    /\ entry[k] # None
    /\ entry' = [entry EXCEPT ![k] = None]
    /\ expires' = [expires EXCEPT ![k] = 0]
    /\ UNCHANGED <<now, req, pc, began, held, tookAt, fetchedAt, stripped,
                   lacks>>

\* Time passes, but no query takes longer than Delay.
Tick ==
    /\ now < MaxTime
    /\ \A c \in Calls : Running(c) => now < began[c] + Delay
    /\ now' = now + 1
    /\ UNCHANGED <<req, pc, began, held, tookAt, fetchedAt, caching, stripped,
                   lacks>>

Step(c) ==
    \/ Begin(c) \/ NodeLookup(c) \/ Lookup(c) \/ Query(c) \/ Store(c)
    \/ NodeStore(c) \/ Strip(c) \/ Convert(c)

Next == Tick \/ (\E k \in Keys : Evict(k)) \/ (\E c \in Calls : Step(c))

Spec == Init /\ [][Next]_vars

-----------------------------------------------------------------------------
(* Properties *)

\* Type invariant of the cache and its callers.
TypeOK ==
    /\ now \in Nat
    /\ req \in [Calls -> Request]
    /\ pc \in [Calls -> Steps]
    /\ began \in [Calls -> Nat]
    /\ held \in [Calls -> CallOrNone]
    /\ tookAt \in [Calls -> Nat]
    /\ fetchedAt \in [Calls -> Nat]
    /\ entry \in [Keys -> CallOrNone]
    /\ expires \in [Keys -> Nat]
    /\ stripped \subseteq Calls
    /\ lacks \subseteq Calls

\* How old an answer can be.  Not the reader's time to live counts but the
\* one of the call that stored the entry, from the time it stored it; and what
\* getNodeWithCache returns was cached twice, one time after the other.
StaleBound ==
    \A c \in Calls :
        pc[c] = "done" =>
            /\ held[c] # None
            /\ fetchedAt[held[c]] <= tookAt[c]
            /\ tookAt[c] < fetchedAt[held[c]]
                 + (IF req[c].kind = "get" THEN 1 ELSE 2) * (MaxTTL + Delay)

\* A query without WithCache reads the API server itself, and nothing that
\* cached queries do shows in its answer.
UncachedIsIsolated ==
    \A c \in Calls :
        pc[c] = "done" /\ req[c].ttl = 0 =>
            /\ held[c] = c
            /\ c \in lacks <=> req[c].strip

\* The managed fields are missing from an answer only if its call, or another
\* call that had the same object by way of the cache, asked to remove them.
LossIsAskedFor ==
    \A c \in lacks :
        \E d \in Calls :
            /\ req[d].strip
            /\ held[d] = held[c]
            /\ d = c \/ (req[c].ttl > 0 /\ req[d].ttl > 0)

\* A query that the API server fails leaves nothing in the cache and returns
\* nothing.  One that fails later, when it converts its object, keeps the
\* object to itself only if it asked for no caching: otherwise it has cached
\* the object by then, and others get it (get.go:32 before get.go:52).
FailureIsNotCached ==
    \A c \in Calls :
        /\ pc[c] = "failed" =>
               /\ \A k \in Keys : entry[k] # c
               /\ \A d \in Calls : held[d] # c
        /\ pc[c] = "unconverted" /\ req[c].ttl = 0 =>
               /\ \A k \in Keys : entry[k] # c
               /\ \A d \in Calls \ {c} : held[d] # c

\* A slow query can put an older object in the place of a newer one.  For a
\* Get it was read within the Delay of the newer one; getNodeWithCache puts
\* into its own cache what it took from the cache of Get, which may have been
\* there for a time to live: read less than MaxTTL + 2 * Delay before the
\* newer one.
GoesBackInBounds ==
    [][\A k \in Keys :
         LET new == entry'[k]  old == entry[k] IN
         new # old /\ new # None /\ old # None =>
             fetchedAt[old] < fetchedAt[new]
               + (IF k = "get" THEN Delay + 1 ELSE MaxTTL + Delay + Delay)]_vars

\* Calls meet only in the cache, in what they put there and nothing else.
CallsMeetInTheCache ==
    /\ UncachedIsIsolated
    /\ LossIsAskedFor
    /\ FailureIsNotCached
=============================================================================
