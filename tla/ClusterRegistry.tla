-------------------------- MODULE ClusterRegistry --------------------------
(***************************************************************************)
(* The cluster registry of kom: kom/cluster_base.go, with the EKS entry    *)
(* point of kom/cluster_aws.go.  Goroutines ("calls") register and remove  *)
(* clusters in one sync.Map that no lock protects across its Load and      *)
(* Store, while each of them fills in, or tears down, ClusterInst objects  *)
(* field by field.                                                         *)
(*                                                                         *)
(* A call creates at most one EKS placeholder, one fresh ClusterInst, one  *)
(* ristretto cache, one CRD watch context and one pair of token loops, so  *)
(* all of these are named by the call that created them.                   *)
(***************************************************************************)

CONSTANTS
    Calls,  \* goroutines that run one registration or one removal each
    Ids,    \* cluster ids
    None    \* a nil pointer

\* The ClusterInst objects: the placeholder an EKS call may allocate and the
\* instance RegisterByConfigWithID may allocate.
Insts == Calls \X {"eks", "new"}

ASSUME NoneAssumption == None \notin Calls \cup Insts

VARIABLES
    req,          \* req[c]: what call c was asked to do
    pc,           \* pc[c]: the next step of call c, or how it ended
    cur,          \* cur[c]: the local variable `cluster` of call c
    registry,     \* clusterInstances.clusters
    \* The fields of ClusterInst, as functions on the instances; the first,
    \* the cache and the cancel function name the call that wrote them.
    kubectl, client, callbacks, cache, cancel, resources,
    openCaches,   \* ristretto caches created and not closed
    liveWatches,  \* CRD watches started whose context is not cancelled
    tokenLoops,   \* EKS token goroutines started and not told to stop
    stopped,      \* auth providers whose stopChan is closed
    met           \* history: calls that overlapped another one on their id

fields == <<kubectl, client, callbacks, cache, cancel, resources>>

running == <<openCaches, liveWatches, tokenLoops, stopped>>

vars == <<req, pc, cur, registry, fields, running, met>>

\* watch: the CRD watch is wanted (RegisterDisableCRDWatch was not given).
Request == [op : {"plain", "eks"}, id : Ids, watch : BOOLEAN]
           \cup [op : {"remove"}, id : Ids, watch : {FALSE}]

RegisterSteps == {"lookup", "eksLookup", "eksStore", "token", "build",
                  "clients", "callbacks", "serverInfo", "handlers", "cache",
                  "watch", "sync"}

RemoveSteps == {"load", "stopAuth", "closeCache", "clear", "cancelWatch",
                "delete"}

Final == {"ok", "err", "panic"}

Steps == {"idle"} \cup RegisterSteps \cup RemoveSteps \cup Final

CallOrNone == Calls \cup {None}

InstOrNone == Insts \cup {None}

\* IsEKS, AWSAuthProvider and tokenRefreshCancel are set on placeholders only.
IsEKS(x) == x[2] = "eks"

\* The call that allocated x; names its auth provider and its token loops.
Creator(x) == x[1]

Op(c) == req[c].op

IdOf(c) == req[c].id

Active(c) == pc[c] \in RegisterSteps \cup RemoveSteps

\* What every k.Client(), k.Callback(), k.ClusterCache()... of call c goes
\* through: the registry, never the instance c is building.
Registered(c) == registry[IdOf(c)]

RegisteredHasClient(c) == Registered(c) # None /\ client[Registered(c)]

RegisteredHasCallbacks(c) ==
    Registered(c) # None /\ callbacks[Registered(c)] # "nil"

Init ==
    /\ req \in [Calls -> Request]
    /\ pc = [c \in Calls |-> "idle"]
    /\ cur = [c \in Calls |-> None]
    /\ registry = [i \in Ids |-> None]
    /\ kubectl = [x \in Insts |-> None]
    /\ client = [x \in Insts |-> FALSE]
    /\ callbacks = [x \in Insts |-> "nil"]
    /\ cache = [x \in Insts |-> None]
    /\ cancel = [x \in Insts |-> None]
    /\ resources = [x \in Insts |-> FALSE]
    /\ openCaches = {}
    /\ liveWatches = {}
    /\ tokenLoops = {}
    /\ stopped = {}
    /\ met = {}

Goto(c, step) == pc' = [pc EXCEPT ![c] = step]

FirstStep(c) ==
    IF Op(c) = "plain" THEN "lookup"
    ELSE IF Op(c) = "eks" THEN "eksLookup" ELSE "load"

-----------------------------------------------------------------------------
(* Faulty variants of actions below, each a slip that one property catches.  *)
(* They are not part of Next.                                                *)

\* The watch is filed under the context stored before, not under its own.
StartWatchOnOldContext(c) ==
    /\ pc[c] = "watch"
    /\ Registered(c) # None
    /\ liveWatches' = liveWatches \cup {cancel[cur[c]]}
    /\ Goto(c, "sync")
    /\ UNCHANGED <<req, cur, registry, fields, openCaches, tokenLoops,
                   stopped, met>>

\* A registered instance is built again although it has its Kubectl.
LookupWithoutReuse(c) ==
    /\ pc[c] = "lookup"
    /\ cur' = [cur EXCEPT ![c] = Registered(c)]
    /\ Goto(c, "build")
    /\ UNCHANGED <<req, registry, fields, running, met>>

\* The watch runs, its cancel function is not stored.
StartWatchWithoutCancel(c) ==
    /\ pc[c] = "watch"
    /\ Registered(c) # None
    /\ liveWatches' = liveWatches \cup {c}
    /\ Goto(c, "sync")
    /\ UNCHANGED <<req, cur, registry, fields, openCaches, tokenLoops,
                   stopped, met>>

\* A placeholder without a Kubectl is replaced instead of reused.
EKSLookupWithoutReuse(c) ==
    /\ pc[c] = "eksLookup"
    /\ cur' = [cur EXCEPT ![c] = <<c, "eks">>]
    /\ tokenLoops' = tokenLoops \cup {c}
    /\ Goto(c, "eksStore")
    /\ UNCHANGED <<req, registry, fields, openCaches, liveWatches, stopped, met>>

\* The registration of the handlers is forgotten.
FetchServerInfoOnly(c) ==
    /\ pc[c] = "serverInfo"
    /\ Goto(c, IF RegisteredHasClient(c) THEN "cache" ELSE "panic")
    /\ UNCHANGED <<req, cur, registry, fields, running, met>>

\* The instance is not published before the steps that look it up.
BuildWithoutStore(c) ==
    LET target == IF cur[c] = None THEN <<c, "new">> ELSE cur[c] IN
    /\ pc[c] = "build"
    /\ cur' = [cur EXCEPT ![c] = target]
    /\ kubectl' = [kubectl EXCEPT ![target] = c]
    /\ Goto(c, "clients")
    /\ UNCHANGED <<req, registry, client, callbacks, cache, cancel, resources,
                   running, met>>

\* A removal drops the cancel function without calling it.
RemoveWithoutCancel(c) ==
    /\ pc[c] = "cancelWatch"
    /\ Goto(c, "delete")
    /\ UNCHANGED <<req, cur, registry, fields, running, met>>

-----------------------------------------------------------------------------

\* A goroutine enters RegisterByConfigWithID, RegisterAWSClusterWithID or
\* RemoveClusterById.  Every other call running on the same id has met it.
Begin(c) ==
    LET others == {d \in Calls : Active(d) /\ IdOf(d) = IdOf(c)} IN
    /\ pc[c] = "idle"
    /\ Goto(c, FirstStep(c))
    /\ met' = IF others = {} THEN met ELSE met \cup others \cup {c}
    /\ UNCHANGED <<req, cur, registry, fields, running>>

-----------------------------------------------------------------------------
(* RegisterByConfigWithID *)

\* The registry is read once; a registered instance with a Kubectl ends the
\* call successfully whatever the state of its other fields.
Lookup(c) ==
    /\ pc[c] = "lookup"
    /\ cur' = [cur EXCEPT ![c] = Registered(c)]
    /\ \/ /\ Registered(c) = None
          /\ Goto(c, "build")
       \/ /\ Registered(c) # None
          /\ kubectl[Registered(c)] # None
          /\ Goto(c, "ok")
       \/ /\ Registered(c) # None
          /\ kubectl[Registered(c)] = None
          /\ Goto(c, IF IsEKS(Registered(c)) THEN "token" ELSE "build")
    /\ UNCHANGED <<req, registry, fields, running, met>>

\* SetEKSExecProvider dereferences config.ExecProvider, which a plain config
\* has only with an exec section; then GetToken runs the aws command, which may
\* fail.
ObtainToken(c) ==
    /\ pc[c] = "token"
    /\ \/ \E step \in {"build", "err"} : Goto(c, step)
       \/ Op(c) = "plain" /\ Goto(c, "panic")
    /\ UNCHANGED <<req, cur, registry, fields, running, met>>

\* initKubectl, then a new instance or the EKS placeholder is published
\* before any of its clients exists.
Build(c) ==
    LET target == IF cur[c] = None THEN <<c, "new">> ELSE cur[c] IN
    /\ pc[c] = "build"
    /\ cur' = [cur EXCEPT ![c] = target]
    /\ kubectl' = [kubectl EXCEPT ![target] = c]
    /\ registry' = [registry EXCEPT ![IdOf(c)] = target]
    /\ Goto(c, "clients")
    /\ UNCHANGED <<req, client, callbacks, cache, cancel, resources, running,
                   met>>

\* kubernetes.NewForConfig and dynamic.NewForConfig; an error returns and
\* leaves the published instance behind.
CreateClients(c) ==
    /\ pc[c] = "clients"
    /\ \/ /\ client' = [client EXCEPT ![cur[c]] = TRUE]
          /\ Goto(c, "callbacks")
       \/ /\ Goto(c, "err")
          /\ UNCHANGED client
    /\ UNCHANGED <<req, cur, registry, kubectl, callbacks, cache, cancel,
                   resources, running, met>>

\* initializeCRDList asks the registered instance for its cache, then the
\* processors of this instance are created.
InitCallbacks(c) ==
    /\ pc[c] = "callbacks"
    /\ \/ /\ Registered(c) = None
          /\ Goto(c, "panic")
          /\ UNCHANGED callbacks
       \/ /\ Registered(c) # None
          /\ callbacks' = [callbacks EXCEPT ![cur[c]] = "empty"]
          /\ Goto(c, "serverInfo")
    /\ UNCHANGED <<req, cur, registry, kubectl, client, cache, cancel,
                   resources, running, met>>

\* Server version, OpenAPI schema, docs and describers all go through the
\* client of the registered instance; their errors are only logged.
FetchServerInfo(c) ==
    /\ pc[c] = "serverInfo"
    /\ Goto(c, IF RegisteredHasClient(c) THEN "handlers" ELSE "panic")
    /\ UNCHANGED <<req, cur, registry, fields, running, met>>

\* callbackRegisterFunc(cluster) registers the handlers in the processors of
\* the registered instance.
RegisterHandlers(c) ==
    /\ pc[c] = "handlers"
    /\ \/ /\ RegisteredHasCallbacks(c)
          /\ callbacks' = [callbacks EXCEPT ![Registered(c)] = "filled"]
          /\ Goto(c, "cache")
       \/ /\ ~RegisteredHasCallbacks(c)
          /\ Goto(c, "panic")
          /\ UNCHANGED callbacks
    /\ UNCHANGED <<req, cur, registry, kubectl, client, cache, cancel,
                   resources, running, met>>

\* ristretto.NewCache, which rejects a bad RegisterCacheConfig.
CreateCache(c) ==
    /\ pc[c] = "cache"
    /\ \/ /\ openCaches' = openCaches \cup {c}
          /\ cache' = [cache EXCEPT ![cur[c]] = c]
          /\ Goto(c, IF req[c].watch THEN "watch" ELSE "ok")
       \/ /\ Goto(c, "err")
          /\ UNCHANGED <<openCaches, cache>>
    /\ UNCHANGED <<req, cur, registry, kubectl, client, callbacks, cancel,
                   resources, liveWatches, tokenLoops, stopped, met>>

\* The cancel function is stored, then WatchCRDAndRefreshDiscovery builds its
\* client from the registered instance's config (an error returns before any
\* goroutine runs) and starts the worker and the informer.
StartWatch(c) ==
    /\ pc[c] = "watch"
    /\ cancel' = [cancel EXCEPT ![cur[c]] = c]
    /\ \/ /\ Registered(c) = None
          /\ Goto(c, "panic")
          /\ UNCHANGED liveWatches
       \/ /\ Registered(c) # None
          /\ Goto(c, "err")
          /\ UNCHANGED liveWatches
       \/ /\ Registered(c) # None
          /\ liveWatches' = liveWatches \cup {c}
          /\ Goto(c, "sync")
    /\ UNCHANGED <<req, cur, registry, kubectl, client, callbacks, cache,
                   resources, openCaches, tokenLoops, stopped, met>>

\* After the informer synced (or 30 seconds) the API resources are read with
\* the registered instance's client and stored in the registered instance.
LoadResources(c) ==
    /\ pc[c] = "sync"
    /\ \/ /\ RegisteredHasClient(c)
          /\ resources' = [resources EXCEPT ![Registered(c)] = TRUE]
          /\ Goto(c, "ok")
       \/ /\ ~RegisteredHasClient(c)
          /\ Goto(c, "panic")
          /\ UNCHANGED resources
    /\ UNCHANGED <<req, cur, registry, kubectl, client, callbacks, cache,
                   cancel, running, met>>

-----------------------------------------------------------------------------
(* RegisterAWSClusterWithID *)

\* Without an entry the kubeconfig and the token manager are made (each may
\* fail) and both token goroutines start on a placeholder instance; an entry
\* without a Kubectl is taken as it is.
EKSLookup(c) ==
    /\ pc[c] = "eksLookup"
    /\ \/ /\ Registered(c) = None
          /\ Goto(c, "err")
          /\ UNCHANGED <<cur, tokenLoops>>
       \/ /\ Registered(c) = None
          /\ cur' = [cur EXCEPT ![c] = <<c, "eks">>]
          /\ tokenLoops' = tokenLoops \cup {c}
          /\ Goto(c, "eksStore")
       \/ /\ Registered(c) # None
          /\ cur' = [cur EXCEPT ![c] = Registered(c)]
          /\ Goto(c, IF kubectl[Registered(c)] # None THEN "ok" ELSE "eksStore")
          /\ UNCHANGED tokenLoops
    /\ UNCHANGED <<req, registry, fields, openCaches, liveWatches, stopped, met>>

\* The placeholder is stored, then RegisterByStringWithID runs: on the
\* kubeconfig generated for a new placeholder it goes on to
\* RegisterByConfigWithID, on the empty one of a reused placeholder it fails.
EKSStore(c) ==
    /\ pc[c] = "eksStore"
    /\ registry' = [registry EXCEPT ![IdOf(c)] = cur[c]]
    /\ Goto(c, IF Creator(cur[c]) = c THEN "lookup" ELSE "err")
    /\ UNCHANGED <<req, cur, fields, running, met>>

-----------------------------------------------------------------------------
(* RemoveClusterById *)

RemoveLoad(c) ==
    /\ pc[c] = "load"
    /\ cur' = [cur EXCEPT ![c] = Registered(c)]
    /\ Goto(c, IF Registered(c) = None THEN "delete" ELSE "stopAuth")
    /\ UNCHANGED <<req, registry, fields, running, met>>

\* tokenRefreshCancel() ends both token loops; AWSAuthProvider.Stop closes
\* stopChan, which panics when it is closed already.
RemoveStopAuth(c) ==
    /\ pc[c] = "stopAuth"
    /\ \/ /\ ~IsEKS(cur[c])
          /\ Goto(c, "closeCache")
          /\ UNCHANGED <<tokenLoops, stopped>>
       \/ /\ IsEKS(cur[c])
          /\ tokenLoops' = tokenLoops \ {Creator(cur[c])}
          /\ stopped' = stopped \cup {Creator(cur[c])}
          /\ Goto(c, IF Creator(cur[c]) \in stopped
                     THEN "panic" ELSE "closeCache")
    /\ UNCHANGED <<req, cur, registry, fields, openCaches, liveWatches, met>>

RemoveCloseCache(c) ==
    /\ pc[c] = "closeCache"
    /\ openCaches' = openCaches \ {cache[cur[c]]}
    /\ cache' = [cache EXCEPT ![cur[c]] = None]
    /\ Goto(c, "clear")
    /\ UNCHANGED <<req, cur, registry, kubectl, client, callbacks, cancel,
                   resources, liveWatches, tokenLoops, stopped, met>>

\* Client, callbacks and API resources are set to nil; Kubectl is not.
RemoveClear(c) ==
    /\ pc[c] = "clear"
    /\ client' = [client EXCEPT ![cur[c]] = FALSE]
    /\ callbacks' = [callbacks EXCEPT ![cur[c]] = "nil"]
    /\ resources' = [resources EXCEPT ![cur[c]] = FALSE]
    /\ Goto(c, "cancelWatch")
    /\ UNCHANGED <<req, cur, registry, kubectl, cache, cancel, running, met>>

RemoveCancelWatch(c) ==
    /\ pc[c] = "cancelWatch"
    /\ liveWatches' = liveWatches \ {cancel[cur[c]]}
    /\ Goto(c, "delete")
    /\ UNCHANGED <<req, cur, registry, fields, openCaches, tokenLoops, stopped,
                   met>>

\* Whatever is registered under the id by now is dropped.
RemoveDelete(c) ==
    /\ pc[c] = "delete"
    /\ registry' = [registry EXCEPT ![IdOf(c)] = None]
    /\ Goto(c, "ok")
    /\ UNCHANGED <<req, cur, fields, running, met>>

-----------------------------------------------------------------------------

Register(c) ==
    \/ Lookup(c) \/ ObtainToken(c) \/ Build(c) \/ CreateClients(c)
    \/ InitCallbacks(c) \/ FetchServerInfo(c) \/ RegisterHandlers(c)
    \/ CreateCache(c) \/ StartWatch(c) \/ LoadResources(c)

RegisterEKS(c) == EKSLookup(c) \/ EKSStore(c)

Remove(c) ==
    \/ RemoveLoad(c) \/ RemoveStopAuth(c) \/ RemoveCloseCache(c)
    \/ RemoveClear(c) \/ RemoveCancelWatch(c) \/ RemoveDelete(c)

Next == \E c \in Calls : Begin(c) \/ Register(c) \/ RegisterEKS(c) \/ Remove(c)

Spec == Init /\ [][Next]_vars

-----------------------------------------------------------------------------
(* Properties *)

\* Type invariant of the registry's state.
TypeOK ==
    /\ req \in [Calls -> Request]
    /\ pc \in [Calls -> Steps]
    /\ cur \in [Calls -> InstOrNone]
    /\ registry \in [Ids -> InstOrNone]
    /\ kubectl \in [Insts -> CallOrNone]
    /\ client \in [Insts -> BOOLEAN]
    /\ callbacks \in [Insts -> {"nil", "empty", "filled"}]
    /\ cache \in [Insts -> CallOrNone]
    /\ cancel \in [Insts -> CallOrNone]
    /\ resources \in [Insts -> BOOLEAN]
    /\ openCaches \subseteq Calls
    /\ liveWatches \subseteq Calls
    /\ tokenLoops \subseteq Calls
    /\ stopped \subseteq Calls
    /\ met \subseteq Calls

\* A registration that no other call on its id overlapped never loses its
\* cache: as long as the cache is open, the registered instance of that id
\* holds it, so a removal will close it - whatever races other calls run
\* later.
CacheReachable ==
    \A c \in openCaches \ met :
        /\ Registered(c) # None
        /\ cache[Registered(c)] = c

\* Likewise for the CRD watch: while it runs, the registered instance holds
\* the cancel function that stops it.
WatchReachable ==
    \A c \in liveWatches \ met :
        /\ Registered(c) # None
        /\ cancel[Registered(c)] = c

\* Likewise for the two token goroutines of an EKS cluster: they run for the
\* registered instance, or for one its own call is about to store.
TokenLoopReachable ==
    \A c \in tokenLoops \ met :
        \/ Registered(c) = <<c, "eks">>
        \/ pc[c] = "eksStore"

\* No call has overlapped another one on id i so far.
Calm(i) == \A c \in met : IdOf(c) # i

Complete(x) ==
    /\ client[x]
    /\ callbacks[x] = "filled"
    /\ cache[x] # None

\* A registration that built the registered instance itself, undisturbed, and
\* returned without error left it complete: clients, handlers, cache and, when
\* asked for, a running watch and loaded API resources, until a removal starts.
BuilderLeavesComplete ==
    \A c \in Calls \ met :
        (/\ pc[c] = "ok"
         /\ Registered(c) # None
         /\ kubectl[Registered(c)] = c
         /\ \A r \in Calls : Op(r) = "remove" /\ IdOf(r) = IdOf(c) => ~Active(r))
        => /\ Complete(Registered(c))
           /\ req[c].watch => c \in liveWatches /\ resources[Registered(c)]

\* As long as the calls on an id are made one after the other, the only one
\* that panics is a plain registration over the placeholder that a failed EKS
\* registration left.
CalmPanicsOnlyOnPlaceholder ==
    \A c \in Calls :
        pc[c] = "panic" /\ Calm(IdOf(c))
            => Op(c) = "plain" /\ cur[c] # None /\ IsEKS(cur[c])

\* Once nothing runs on a calm id and the id is not registered, nothing made
\* for it is left: no cache, no watch, no token goroutine.
CalmRemovalFreesAll ==
    \A c \in Calls :
        (/\ Calm(IdOf(c))
         /\ Registered(c) = None
         /\ \A d \in Calls : IdOf(d) = IdOf(c) => ~Active(d))
        => c \notin openCaches \cup liveWatches \cup tokenLoops

\* Whatever races later on, nothing that an undisturbed registration made gets
\* out of reach of a removal.
NothingLeaks ==
    /\ CacheReachable
    /\ WatchReachable
    /\ TokenLoopReachable

\* Calls that are made one after the other behave.
CalmCallsBehave ==
    /\ CalmPanicsOnlyOnPlaceholder
    /\ CalmRemovalFreesAll
=============================================================================
