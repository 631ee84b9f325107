# Verification of kom

kom is a Go library for Kubernetes: chains of calls such as
`kom.Cluster("a").Resource(&pod).Namespace("x").WithCache(t).List(&l)` fill in a
statement, a chain of callbacks turns the statement into a request of the API
server, and a registry holds one client, cache and CRD watch per cluster.  An MCP
server offers the same operations as tools.  This directory holds TLA+ models of
the parts that keep state or run concurrently, the TLC runs that check them, and
TLAPS proofs of what holds for every value of their constants.

Paths below are relative to the root of the repository.

## 1. Inventory

| Component | State | Operations | Interacts with | What is hard | What makes it correct |
|---|---|---|---|---|---|
| Cluster registry (`kom/cluster_base.go`, `cluster_aws.go`, `cluster_kubeconfig.go`) | a `sync.Map` of `ClusterInst`, each with client, callbacks, cache, watch, token goroutines | register (plain, EKS), get, remove | everything else finds its cluster here | Load and Store are not atomic; instances are filled in after they are stored; failures half way; removal against registration | nothing that was created is out of reach of a removal; who builds an instance undisturbed leaves it complete |
| EKS token manager (`kom/aws/`, `kom/cluster_aws.go`) | token cache, exec command, two loops with tickers and channels, temporary kubeconfig | register, GetToken, trigger, clear, stop, remove | registry; the `aws` command | two loops on one cache, three locks per answer, outages, cancellation next to a tick | the cached token does not expire while one pass of two succeeds and nobody stores a token late; stopped loops fetch nothing more; an outage is recovered from |
| CRD watch and API resource refresh (`kom/status.go`) | `apiResources`, `started`, `refreshCh`, one timer | informer event, worker, timer, initial load, cancel | reads the registry's instance; read by `kom/tools.go` | debouncing, a timer against cancellation, overlapping refreshes | no CRD change is lost; never older over newer; it ends when the cluster is removed |
| Resource counts (`kom/status.go`) | a cached summary, shared as a map | `GetResourceCountSummary` | query cache, discovery | fan-out over a semaphore, pages of a list that changes, failures dropped | every number was true at some time; only failures are left out; every call ends |
| Query cache (`utils/cache.go`, `callbacks/get.go`, `kom/ctl_node.go` `getNodeWithCache`) | ristretto: key to object, with expiry | get or set, evict, expire | Get, List, node usage | a miss and its store are not atomic; objects are shared by pointer; two caches nested | a bound on how old an answer is; uncached queries are not affected |
| Callback pipeline (`kom/callback.go`, `callbacks/*.go`) | per processor: callbacks, compiled functions | Register, Replace, Remove, compile, Execute | every operation runs through it; `restrict.go` denies changes with it | compiling rewrites its own input; conflicts; recursion | one handler per name, the latest; the order asked for; a guard stops what it guards |
| Query statements and lists (`kom/sql*.go`, `kom/kubectl.go`, `callbacks/list.go`) | the statement of a chain; the cached lists | Namespace, AllNamespace, Where, Sql, WithCache, List | query cache, callbacks | the order of a chain; which statement a call works on; the cache key | List returns the objects asked for, cached or not |
| SQL operators and paging (`callbacks/sql_where_process.go`, `utils/detect_type.go`, `callbacks/list.go`) | none | compare, sort, cut a page | lists, links | a literal's type decides the rule; missing fields; lists inside objects | an operator and its negation complement each other; sorting is an order; the pages are the list |
| Tools and kind lookups (`kom/tools.go`) | reads `apiResources` and the CRD list | by table, kind, GVK, GVR | CRD watch | ambiguous kinds | a table leads to the resource that bears its name |
| Node operations (`kom/ctl_node.go`) | the node and the pods, in the API server | Cordon, UnCordon, Taint, UnTaint, Drain, CreateNodeShell, CreateKubectlShell | applier, list, patch; scheduler and kubelet | read, change, write back; pods that arrive late; one eviction of several failing | a drain that returned has evicted; taints change for a reason; every call ends |
| Workload controllers (`kom/ctl_scale.go`, `ctl_rollout.go`, `ctl_deploy.go`, `ctl_ds.go`, ...) | replicas, annotation, template, revisions, in the API server | Scale, Stop, Restore, Restart, Pause, Resume, ReplaceImageTag, Undo, History, Status | get, patch, update; the cluster's controllers | read, change, write back; revision numbers that lag; two users | Restore gives back what Stop took; Undo goes back one; nobody's write is lost; a rollout is reported |
| Applier and single-object writes (`kom/applier.go`) | objects in the API server | Apply, Delete | create, update | any error of the Get is absence | Apply replaces only what it has read |
| Links, metrics and usage (`kom/ctl_pod_link.go`, `ctl_pod_usage.go`, `ctl_pod_metrics.go`, `ctl_node_usage.go`) | none | linked services, ingresses, nodes, volumes, variables; usage and tables of pods and nodes | lists, get, metrics API | matches by names and labels over several lists; rounding; zero denominators | all that is linked, once; two ways to a number agree |
| ALB routing rules (`mcp/tools/alb2/`) | none | diagnose conflicts, list rules, find rules of a service | MCP tools | pattern containment, priorities | a rule said to be shadowed is, and one that is shadowed is said to be |
| MCP server (`mcp/server.go`, `mcp/tools/`) | registered clusters, sessions, the objects tools make for themselves | start-up, call of a tool | registry, then one chain or more each | start-up that stops half way; a cluster that goes away during a call; partial failures | hints are true, success is true, what a tool makes for itself goes away, a call goes on as long as its requests return |
| Labels, annotations, default classes (`kom/ctl_label.go`, `ctl_storageclass.go`, `ctl_ingressclass.go`) | objects in the API server | AddLabel, SetDefault, ... | patch | one patch of several failing | exactly one default when SetDefault succeeds |
| Pod streams, files, ports (`callbacks/exec.go`, `stream_exec.go`, `port_forward.go`, `kom/ctl_pod*.go`) | none | exec, logs, copy, forward | API server | streams that end early | nothing is left running |
| Prometheus, describe, doc, utilities, examples | none | queries and layout | | | |

`PROJECT.json` lists every component with its status, and, as `hazards`, the
places in the code where something can go wrong that a test hardly reaches, each
with the properties that would catch it.

## 2. The modules

A module `X` comes with `MCX`, its instance for TLC, and with `XProof` where
theorems are proved about it.  Three proof modules hold a second component's proofs:
`QueryCacheProof` those about `ListQuery`, `WorkloadsProof` those about `NodeOps`,
`CRDWatcherProof` those about `ResourceCounts`; these three components have definitions
with names of their own for that.

Composition: `Views` puts the questions that `UsageViews` (over `PodViews`, over
`WhereFilter`), `KindTables` and `AlbRules` answer; `McpServer` runs the plans of
`McpCatalog`; `Workloads` is shown to implement `ReplicaMemory`.  The state machines
meet through what they assume of each other, one step there for many here: a
registration is one step of `McpServer` and a call of `ClusterRegistry`; the token
goroutines that `ClusterRegistry` keeps reachable are the loops of `EksTokens`; the
summary that `ResourceCounts` caches expires as `QueryCache` has it; the operators of
`WhereFilter` are the predicates of `ListQuery`.

Every variable of a module that is marked "history" in its declaration exists for
the properties only; no guard reads it.  Most modules have a section of slips: variants
of an operator that a plausible bug would make, which no next-state relation uses.

### ClusterRegistry

One call is one goroutine that runs `RegisterByConfigWithID`,
`RegisterAWSClusterWithID` or `RemoveClusterById` once.  Every access to the
`sync.Map` and every block of assignments between two calls out of the function is
an action, in the order of the code; each may fail where the code returns an error,
and panics where it dereferences a field that is nil (`panic` as an end of `pc`).
`ClusterInst` objects are named by the call that allocates them, and so are caches,
watches and token goroutines, since a call makes at most one of each.
`met` records the calls that overlapped another one on their id.  The properties
that hold in the presence of races are stated for calls outside `met`: what they
created stays reachable *whatever other calls race with each other later*
(`CacheReachable`, `WatchReachable`, `TokenLoopReachable`).

Left out: the parameters that only fill in `rest.Config`, and `DefaultCluster`.

### CRDWatcher

`WatchCRDAndRefreshDiscovery` for one cluster.  The discovery data of the API
server is a number that grows with each CRD added or deleted; `refresh` is the
sequence of the timers that were armed, each with the refresh it starts.  Updates
of CRDs are left out (the informer has no `UpdateFunc`), and so is the resync of
the informer, which calls that function only.  A discovery call may fail or return
some groups only; the code drops its error (`Partial`).

### QueryCache

`GetOrSetCache` as `callbacks/get.go` uses it and, nested, `getNodeWithCache`, for
one object of the API server.  What a call fetches is named by the call and dated
by the clock.  `Delay` bounds how long a query takes, as the clock may not pass
`began + Delay` of a running one: the age of an answer is bounded only relative to
it.  `Evict` is ristretto dropping whatever it wants.  `Convert` may fail after the object
was stored (`callbacks/get.go:52`): the call ends `unconverted`, and others get the
object from the cache; `failed` is a call that the API server refused.

### Callbacks

One processor.  Register, Replace and Remove change the slice of callbacks and start
`compile()`, which runs to its end before anything else happens, in steps: `Arrange` is
a round of the insertion sort of `sort.SliceStable` (which it is up to 20 callbacks),
`Begin` gives the next callback its turn, and `PlaceBefore`, `PlaceAfter`, `PlaceAgain`
and `Return` are the parts of `sortCallback` between its calls of itself, with the
rewriting of constraints of line 227 and 249; `stack` are the calls that have not
returned.  A depth beyond the number of callbacks means that the recursion goes in a
circle and never returns: the status `overflow`.  `Finish` collects the functions.
Handlers are the numbers of the calls that gave them; `asked` is what each call asked
for, which the code forgets as it rewrites the constraints.

### ListQuery

A chain of calls on a statement, from the root that every chain starts with
(`Kubectl.clone > 0`) to `List`.  A condition is a predicate that an object meets
or not, since what the properties tell apart is which conditions reach the filter
and how they are combined, and not how two values compare.  The conditions of a
statement and the parts of its SQL are sets, since a filter depends on neither their
order nor their number.  `Scope` is the request
that is made, `Key` the key of the cache, `Filter` the filter over the result.

### NodeOps

Goroutines that make one call each on one node.  Each call of the API server is an
action; it may fail, and a write that was made may still be answered with an error.
A pod is `none`, `bound` (the scheduler has chosen the node, the binding has not
arrived), `running` or `terminating`; names are reused, as a StatefulSet does.
`arrived[c]` are the pods that came after the last list of the drain `c`.
`CreateNodeShell` and `CreateKubectlShell` differ in what they run in the pod only.
`parseTaint` rejects before anything is asked of the API server and is left out.

### Workloads and ReplicaMemory

Objects have a version, as resource versions: a patch is applied to what is there, an
update carries the version that was read and is refused when it is another one.  A
call of kom is a request or two, each a step, and may end with an error before any of
them.  `Observe`, `NoteRevision`, `RunPods` and `Fall` are the cluster's controllers,
modelled from how `Undo`, `History` and `Status` use what they write: revisions are
noted after the template has changed, equal templates share one, and the newest
number goes to the current one.  A template is an image, whether the selector of a
stopped DaemonSet is in it, and the stamp of a restart.  `exclusive` are the workloads
that one client at a time works on.  Apply and Delete of `kom/applier.go` are
operations of the same clients, on the same objects.

`ReplicaMemory` is the abstract specification of Scale, Stop and Restore:
`StopAndRestoreAreAtomic` maps the replicas to `running` and the annotation to
`memory`, and the reading half of each call to a stutter.

### EksTokens

One registration, its two loops and its callers.  A token is the
time it has left, and every copy, cached or in a goroutine's hands, ages at each
`Minute`.  `GetToken` is the check, the reading, the fetch with its retries, the storing
(`SetToken`) and the reading of the expiry as separate steps, since each takes the lock
anew, or none: the `aws` command returns a token in one step, and the cache has it
in a later one, by which time others may have stored a newer one, the loop may be
cancelled, and the token may have aged.  `late` and `overtaken` are histories of that.  `Outage` makes the `aws` command fail
or work again.  A ticker's channel holds one tick and a select with several ready
channels takes any.  A panic ends the process (`crashed`).

### ResourceCounts

`job[c][r]` is the goroutine that counts one resource for one call, a page at a time:
what is left when the first page is read is fixed by the list's resource version,
which the continue token leads through.  The loop blocks on the semaphore before it
starts a goroutine.  `held[c]` is the call whose map `c` returns, its own or that of
the cache; `seen` is what a count may truthfully be.

### WhereFilter, PodViews, UsageViews, KindTables, AlbRules, Views

What kom computes from what it has read, as operators.  A text is a record of what
the parsers make of it (`WhereFilter.Text`), so that `"1"` is a number and a boolean
and `"2024-01-01"` a midnight.  Objects are records with the fields that the relations
compare.  `Views` has two variables, the question and its answer; each action asks
any question of one kind, and the properties compare the answer with another operator,
or with what the objects mean: `Matches` of a routing rule is its meaning on requests,
against which the containment rules of `diagnose.go` are checked.
Names are texts, too: an owner or a node called "1", "true" or "2024-01-01" is found by
nobody, since the literal is no string to `DetectType`, and "10" and "1e1" are one name.
`OwnedPodsAreFound` and `CountsAreOfTheNode` state these exceptions (`Findable`,
`SameName`), and owners and nodes of such names are among those asked for.

### McpCatalog and McpServer

`Tools` has an entry for each of the seventy tools: its hint, the arguments its
handler insists on, and the requests it sends, with what an accepted and a refused one
lead to (the next, the one after it, an answer, an error).  `McpServer` is the start-up
and the sessions.

*Start-up.*  The files of a directory are registered one by one in the order of the
two globs (`IsBefore`).  The first that cannot be ends the initialisation, a second file
of a registered id included, as its kubeconfig is read before the id is looked at
(`mcp/server.go:257`).  That error is not passed on (line 297): the program goes on to
listen (lines 94, 104) without a server behind it, with the clusters registered so far, the
phase `toolless`.  Only a default cluster that cannot be registered ends the program.

*Clusters.*  `clusters[id]` is the API server an id stands for, or, while its instance
is half built, who is building it.  A registration publishes the instance first
(`kom/cluster_base.go:207`), then makes the clients (`BuildCluster`), which may fail and
leaves it half built for ever; it then asks the server for this and that, registers the
callbacks last (`OpenCluster`, line 227), and goes on to its cache and watch
(`FinishCluster`), any error of which is returned though the cluster can be used.
Every other call can find the instance from the first of these steps on: it panics on
clients or callbacks that are nil, and with callbacks without handlers a change
succeeds without being made, or is made undenied.  A cluster that is unregistered
during a call is a nil pointer at its next lookup.  A panic in a call over HTTP cuts
that call off, over SSE it ends the program (`crashed`).

*Calls.*  A call is received, its arguments and its cluster are checked, and then it
sends its requests one by one, to a server that may refuse each, carry it out and lose the
answer, or never answer.  The handlers drop the context of the client for one without a
deadline (`mcp/tools/utils.go:63`), so that a request, or a command in a pod, that does not
return leaves the call `hanging` (a registration `stalled`); only `kubectl` and the
deletion of the diagnostic pod have a deadline.  The classes of a SetDefault are patched in
the order of the list; the annotation of today is set or removed, that of beta
(`setup.beta`) stays (`kom/ctl_storageclass.go:66`).  `DiagnosePodNetwork`'s pod and
`Kubectl`'s temporary kubeconfig are followed to their end: the deletion of the pod may be
refused or lost, which is recorded in `refused` and `lost` and told to nobody
(`mcp/tools/pod/pod_network.go:126`).

### MC modules

Each `MC<Module>` instantiates a module for TLC: symmetry sets, for `NodeOps` the
pairs of calls that are made, for `McpServer` the start-up directories and which tools
the sessions choose from, for `Views` the questions.  No definition is replaced.

## 3. The runs

Most properties that a run lists are conjunctions of named parts, in the module right
above them.  Each part has a mutant in `PROJECT.json` (its `part`).

| Run | Bounds | What it shows |
|---|---|---|
| `registry` | 3 calls, 2 ids | `NothingLeaks` (`CacheReachable`, `WatchReachable`, `TokenLoopReachable`): nothing leaks from a call that met no other. `BuilderLeavesComplete`: who builds an instance undisturbed leaves it complete. `CalmCallsBehave`: sequential calls panic in one known case only (`CalmPanicsOnlyOnPlaceholder`), and a removal frees everything (`CalmRemovalFreesAll`). |
| `crd_watcher` | 2 CRDs at first, 2 changes | `Inv` (`AtRestFresh`, `InitialLoadAlone`) and `SettlesFresh`: no change is lost, except for the named excuses. `NeverOlder`: refreshes do not overtake one another. `CancelEndsWorker`. |
| `resource_counts` | 2 calls, 2 resources of up to 2 objects, 1 slot, pages of 1, 1 change | `CountsInv`: `CountsAreReal`, a count was true while it was made; `OmissionsAreFailures`, only a failed discovery or list is left out. `ReturnedMapsRest`: nobody writes to a map that was handed out. `CallsEnd`: slots are given back. |
| `query_cache` | 3 calls, times to live 0..1, delay 1, clock 0..3 | `StaleBound`: an answer is less than time to live + delay old, twice that for nodes. `CallsMeetInTheCache`: calls affect each other through the cache and no other way (`UncachedIsIsolated`, `LossIsAskedFor`, `FailureIsNotCached`: a query the API server failed leaves nothing, and one whose conversion failed nothing if it asked for no caching). `GoesBackInBounds`: by how much an entry may be replaced by an older one, for Get by the delay, for a node by a time to live and two delays. |
| `callbacks` | 3 names, 4 calls | `Inv`: `OneHandlerPerName`, `LatestHandlerRuns`. `OrderIsKept`: if calls refer to what is registered, they compile and are in order (`TidyIsOrdered`), and a guard before a callback stops it (`GuardHolds`). `TidyCallsMoveNothing`: such a call leaves the other handlers in the order they had. |
| `list_query` | 3 namespaces, 2 conditions, chains of 3 calls, 3 chains over one cache | `ListInv`: `SimpleIsExact`, simple chains return exactly what they ask for; `NamedNamespaceIsExact`, so do cached ones that name one namespace. |
| `node_ops` | 2 calls, 2 pods, 2 taints | `DrainKeepsItsWord`: what a drain leaves came after its last look (`DrainLeavesOnlyNewcomers`), and the node stays cordoned (`DrainedStaysCordoned`). `DrainSparesIgnored`: no call touches pods of DaemonSets and mirror pods. `TaintsChangeForAReason`: a lost or resurrected taint needs two calls that overlap. `CallsEnd`. |
| `workloads` | 2 clients, 1 workload of 6 kinds, 2 images, up to 2 replicas, calls begin below version 3 | `Inv`: `RememberedIsReal`, the annotation is a number that ran and not zero; `LatestIsCurrent`; `UndoFindsPrevious`. `WritesLoseNothing` (`UpdateLosesNothing`, `ApplyReplacesWhatItRead`). `UndoGoesBackOne`. `StopAndRestoreAreAtomic`: the refinement of `ReplicaMemory`. `RolloutIsReported`. |
| `eks_tokens` | 1 caller, in units of five minutes: tokens of 3, looked at every 1, renewed 2 ahead; 1 retry, 2 attempts, 2 failed passes counted | `Inv`: `KeptFresh`, a token loses a period for each failed pass and no more, unless one was stored late; `AnswersAToken`; `HealthyNeverPanics`; `NoFileLeft`. `LoopsActInTime`: the second loop acts only after a failure (`RenewsOnlyAfterFailure`), and a cancelled loop fetches nothing and stores only what it had fetched before (`CancelledLoopsFetchNothing`). `RecoversAfterOutage`. |
| `views` | eleven texts, and the sets of `MCViews` | `QueriesAreConsistent` (seven parts): negations, ranges, orders, pages, tables. `LinksAreComplete` (seven parts): nodes, ingresses, owners, volumes, variables. `NumbersAgree` (four parts): counts, tables, usage. Names that cannot be looked for are stated exceptions. `DiagnosisIsRight` (four parts): shadowed routing rules, and which rules lead to a service. |
| `mcp` | 2 sessions of 1 and 2 calls, 2 ids, 2 servers, 2 classes, 2 polls, 4 start-ups | `Inv`: what a call makes for itself is its own and goes (`DiagPodsBelongToCalls`, `TempsAreRemoved`), its requests go to a cluster the id stood for (`RequestsStayOnNamedServers`), and it panics only on a cluster that was removed under it or that is half built (`PanicsOnlyAfterRemoval`). `AnswersAreTrue`: `ReadOnlyHintsHold`, `DeniedChangesAreFew`, `SuccessMeansAccepted`, `SoleDefaultAfterSetDefault`, each with the exceptions below. `StartupServesFirst`, with or without tools. `CallsComeToAnEnd` (`CallsAreAnswered`, `DiagPodsAreRemoved`): as long as requests return. |
| `crd_watcher_reset` | as `crd_watcher` | *violated*: the second signal blocks the worker for ever. |

A mutant is a variant of one definition with a plausible slip, which violates the
property.

The exceptions that the properties of `mcp` make are what the code does:

- `ReadOnlyHintsHold`: `TestPodDNSResolve` hints that it only reads, and puts the name
  it is given into a command for the pod's shell (`mcp/tools/pod/pod_dns.go:50`), so
  that what it does depends on the name.
- `DeniedChangesAreFew`: creations, commands and the clients a tool makes itself are
  seen by no callback; and a call that meets its cluster while it is being registered
  meets it before the callbacks that deny (`kom/cluster_base.go:227`).
- `SuccessMeansAccepted`: failures that `Forgiven` names are told as a text or not at
  all, as the deletion of the diagnostic pod (`pod_network.go:126`).
- `SoleDefaultAfterSetDefault`: a storage class with the beta annotation stays default
  (`kom/ctl_storageclass.go:66`); calls that race, lose their cluster or meet it while it
  is being registered are left out.
- `PanicsOnlyAfterRemoval`: a half-built instance, of a registration that is under way or
  has failed, counts as well.

### Why the bounds are enough

- Registry: the races are between two calls on an id; the third makes a half-built
  or removed instance meet a later call, and the second id shows that ids are
  independent.  The proofs cover any number.
- CRD watcher: two initial CRDs give a signal during the initial load, two changes a
  signal while a timer is armed, one while it fires, and a refresh that overlaps.
  The signal channel holds one, so more events only repeat these.
- Query cache: two calls race and a third reads what they left; clock and times
  allow an entry to expire and be stored again.  The proofs cover any number, time to
  live, delay and clock.
- Callbacks: a constraint refers to one other name, so three names have every chain
  and cycle of length three; four calls allow a removal and a second registration
  after two constraints.  The proofs cover up to twenty calls, the length up to which
  the code's sort is the one that is modelled, with any names and constraints.
- Lists: three namespaces tell one, several, all and the default apart; two
  conditions make a disjunction; three calls are one about namespaces and two about
  conditions in each order; three chains are store, change, and read.  The proofs cover any number.
- Nodes: two pods, so that one eviction fails before or after another succeeds; two
  keys, so that a taint call may harm another key.  `MCCalls` pairs a drain with
  every call that sets `unschedulable`, an added taint with every taint call, and
  the two shells: the other pairs share no variable that both of them write.  The proofs cover any
  number of calls, of any kind.
- Resource counts: one slot makes the two goroutines of a call wait for each other,
  two objects in pages of one are a list that changes or fails between its pages, and
  the second call finds the first one's summary in the cache.  The proofs cover any
  number.
- Workloads: a race is between two clients, and every operation reads and writes one
  object, so one workload has them all.  Versions up to three allow two writes before
  a call begins, which is a rollout and an undo, or a stop and a restore; the calls
  in flight then still end.
- EKS: the times have the order of the real ones in units of a period of five minutes
  (two to the threshold of ten minutes, three to a life), so that a token survives one
  failed pass and not two; retries and attempts of one and two have a first, a middle and a
  last try.  One caller, the two loops and the registration overtake each other between a
  fetch and its storing.
- MCP: a call is disturbed by another session or not at all; the rivals are the tools
  that take the cluster away, register another one under its id, change the same
  classes or make a pod of the same name.  Tools with one plan behave alike, so one of
  them is called.  The second call of the rival registers the cluster it has
  unregistered, or one that is there, or fails half way, while the first session calls.  The
  start-ups are no file, no file and no default, two files of one id with a class that is
  default by the beta annotation, and three files the second of which has the id of the
  first and cannot be read.
- Views: the texts are a boolean that is a number, numbers that are written alike and
  differently, times with and without a clock, two cases of a letter; owners and nodes are
  called by five of these, those that cannot be looked for and two that are one number
  among them; every relation has
  a match, a mismatch, an absent field, and two matches at once.

`CHECK_DEADLOCK FALSE` is said where everything may have been done: all calls have
ended, the bound on calls is reached, the clock has stopped, the process has panicked.  `ListQuery` never
stops and is checked for deadlock.

### Fairness

`CRDWatcher`: the informer (until it is cancelled), the registering call, the
worker and each timer with its refresh are weakly fair: goroutines are scheduled and
timers fire.  Changes of CRDs and removals are not, since nobody has to make them; a
panic ends the process, so nothing is fair after it.
`NodeOps`: each call that has begun is weakly fair, since the client's requests
return (with an error at worst) and the timer of `waitPodReady` fires.  Nothing is
asked of the scheduler, the kubelet, or whoever might begin a call.

`ResourceCounts`: each call that has begun and each of its goroutines, whose requests
return.  `Workloads`: the calls in flight and the controllers (`Observe`,
`NoteRevision`, `RunPods`), but no caller begins anything and pods may `Fall` at any time.
`EksTokens`: each goroutine that was started is weakly fair on its own (the registration,
either loop, a caller that has asked) and time passes; the `aws` command works again only
where the property says so, and nobody asks for a token.
`McpServer`: the handler of each session only; the start-up is not fair, no client is made to
call, and an answer may be an error.  That requests return is *not* assumed, since they
have no deadline: one that never does is a step to `hanging` or `stalled`, where
nothing goes on, and `CallsComeToAnEnd` says so.  What is left for fairness is that the
goroutine of a handler is scheduled and that its poll, its tries and its fallbacks end.

## 4. The proofs

All theorems are of the form `Spec => []P` or `Spec => [][A]_vars`, by an inductive
invariant `IInv` (`NodesInv` for `NodeOps`, `ListIInv` for `ListQuery`, `CountsIInv` for
`ResourceCounts`): the initial states, one lemma `...Step` per conjunct with one case
per action, every step, and from both that the invariant always holds.  They assume what the constants' `ASSUME`s say, and no more:
sets are of any size, finite or not.

**`ClusterRegistryProof`** (`NoneAssumption`: a nil pointer is no call and no
instance).  `TypeCorrect`, `CachesReachable`, `WatchesReachable`,
`TokenLoopsReachable`, together `RegistryNeverLeaks` (`NothingLeaks`).  That an open cache is held by the registered instance is not
inductive: a step of another call could close or replace it.  `IInv` adds how far a
call has come when it has created something (`Progress`), that two running calls on an
id have both met (`Meeting`), that instances stay under the id of their creator
(`OwnId`), that an undisturbed call fills in the registered instance
(`FillsRegistered`), and, the heart of it, where every *other* call on the id may be
while something of an undisturbed call is alive (`CacheHeld`, `WatchHeld`,
`TokenLoopHeld`): it has not read the registry yet, or is a removal of this very
instance that has not come to the step in question.

`BuildersComplete` (`BuilderLeavesComplete`) and `CalmCalls` (`CalmCallsBehave`) need
the other half, what an undisturbed call may rely on: what it has read of the registry
is still there (`ReadsHold`), and so is what it has filled in (`FilledIn`); an
instance's Kubectl and cancel function come from a call that works on this instance
and no other (`WritersHold`), and a placeholder about to be stored was not built by an
undisturbed call (`StoresUnbuilt`).  So a built instance is whole, and no registration
works on it, until a removal tears it down (`BuiltKept`); its token provider is stopped
by a removal only (`StoppedLast`).

**`QueryCacheProof`** (`NumbersAssumption`, `NoneAssumption`).  `TypeCorrect`,
`Staleness` (`StaleBound`), `BoundedGoingBack` (`GoesBackInBounds`, for every key).  `IInv` dates
everything: running queries are on time (`OnTime`), an entry expires at most a `Life`
(`MaxTTL + Delay`) after its object was fetched, two for the outer cache (`EntryInv`),
so what a call holds is at most that old when it takes it (`HeldInv`); that is also
what bounds by how much the node's entry may go back.
`SharingOnlyByCache` (`CallsMeetInTheCache`), with conversions that fail after the object is
cached, needs that only what was read without an
error is stored (`ReadFirst`), that two calls hold one object only if it came from the
cache (`SharedByCache`), and that whoever strips an object holds it and asked for that
(`StrippedByHolder`).

The same module proves `ListsAreExact` (`ListInv`), for any namespaces, conditions and
chains (`DefaultAssumption`: "default" is a namespace; `NamesAssumption`;
`MaxChainsAssumption`).  `ListIInv` says that the root every chain starts from has
nothing in it (`RootIsFresh`), how the namespaces of the statement follow from the calls
made (`ScopeFollows`), and so do its conditions (`ConditionsFollow`), and that a cached
list is what was there when it was stored, under the key of the request
(`CacheHolds`).  Three lemmas carry the result: a filter made of one disjunction at most
keeps what meets it (`FilterIsConjunction`), a chain that speaks of its namespaces
once has the scope it named (`OneScope`), and a key with a named namespace belongs to
requests of that namespace only (`NamedScope`).

**`CallbacksProof`** (`NamesAssumption`: "*" and "" are no names; `OrdersAssumption`;
`MaxOpsAssumption`: at most twenty calls).  `ProcessorIsCorrect` (`Inv`),
`OrderIsAlwaysKept` (`OrderIsKept`) and `NothingMoves` (`TidyCallsMoveNothing`).  A
compilation works on what earlier ones have left in the callbacks, so `IInv` says what
has become of what the calls asked for: the callbacks are those of the standing calls,
each once (`CallbacksStand`); a compilation overwrites no Before and adds no "*"
(`ConstraintsLast`); callbacks that asked for no "*" come in the order of their calls
(`InOrder`).  It follows the recursion of `sortCallback` by its stack (`Phases`): no name
is sorted twice, and every callback that had its turn is (`TurnsAreSorted`); a callback
that asked to be before one in front of it is there once its turn has passed that
point (`GuardsPlaced`).  Of tidy calls, which refer to what is registered, it says that
they need neither recursion nor notes, and the whole order of those sorted so far
(`TidyPlacing`), by what was asked for alone; hence the functions have that order
(`FunctionsAsAsked`).  For `NothingMoves` the functions before a call are compared with
those after it: there is one order only that tidy calls ask for (`OrderIsDetermined`),
by the absence of a least counterexample, since the library's induction theorems are
out of the provers' reach.

**NodeOps, in `WorkloadsProof`** (`CallsAssumption`: calls are requests).  `NodesTypeCorrect`,
`DrainLeavesNewcomers`, `DrainedIsCordoned`, together `DrainsKeepTheirWord`
(`DrainKeepsItsWord`), `IgnoredAreSpared`, `TaintsChange`.
`NodesInv` adds that what remains on the node while a drain evicts is what it has left to
do (`RemainsInv`), that it has left to do nothing it should ignore (`LeftInv`), and
that a taint call that met no other one is alone between read and write, and has read
what the node has (`AloneInv`).

**`EksTokensProof`** (`TimesAssumption`: a loop's period is shorter than the threshold,
and that no longer than a token's life; `BoundsAssumption`, `CallersAssumption`).
`TokensAreKept` (`Inv`) and `LoopsAct` (`LoopsActInTime`), for any number of callers and
any times in that order.  `KeptFresh` already counts the minutes since the last tick,
which is what a step of time needs.  `IInv` adds where each goroutine may be at each
stage of the registration (`Staged`), what a `GetToken` that saw no `ClearCache` and was not
overtaken holds between its readings of the cache (`Reading`: it never read more than is
there), that a tick is taken before the next minute (`TicksAreNew`), and that only a `ClearCache`
empties the cache once there was a token (`EmptyIsCleared`).

**`CRDWatcherProof`** (`InitialCRDs` and `MaxChanges` are numbers).  `WatcherHolds`
(`Inv`) and `NeverGoesBack` (`NeverOlder`).  `AtRestFresh` speaks of states where
nothing is under way.  `IInv` says of every state that a signal, a rearmed timer or a
refresh will still look at the API server, or else that what is stored, or read and
about to be stored, is current (`Fresh`); that the flag `started` comes after the
initial load and refreshes after the flag (`FlagIsLast`); and that without an excuse one
refresh at a time is between its reading and its storing, with nothing older than what
is stored (`InOrder`).

**ResourceCounts, in `CRDWatcherProof`** (`SlotsAssumption`, `NoneAssumption`,
`BoundsAssumption`: the bounds are numbers).  `SummariesAreTrue` (`CountsInv`) and
`HandedOutMapsRest` (`ReturnedMapsRest`), for any number of calls, resources, slots and
objects.  The properties look at finished calls; `CountsIInv` follows a goroutine from
its start: what it has counted and what is still to come add up to a number there has
been (`JobsAddUp`), whatever was found is yet to be listed, being listed, failed or
counted (`JobsAccount`), and a map that is cached or returned is that of a call all of
whose goroutines have ended (`Settled`), which is what `wg.Wait` is for.

**`WorkloadsProof`** (`BoundsAssumption`: the bounds are numbers, there are workloads
and images, manifests are made of numbers and images).  `WorkloadsHold` (`Inv`), `WritesKeepOthers`
(`WritesLoseNothing`), `UndoIsOneBack` (`UndoGoesBackOne`) and `StopAndRestoreRefine`
(`StopAndRestoreAreAtomic`).  `IInv` says of each call in flight what its reading still
has to do with the object (`ReadsHold`): the same version means the same object, since
the API server moves the version with every change.  It adds that no two revisions have
one number and that the number before the newest is there if any older one is
(`Numbered`), which is why an Undo finds one revision and the right one; that this aim stays as long as the version does
(`UndoAims`); and that replicas are among those there have been (`RanIsCurrent`), so
that what a Stop writes down is a count that ran.  For the refinement, a workload that
one client at a time works on has one call in flight (`OneCaller`), which finds what it
has read (`ReadsAreOwn`); then the reading halves are stutters and the writing halves
the steps of `ReplicaMemory`.

**`McpServerProof`** (`NamesAssumption`: "dev" is an id and `None` is nothing else;
`ClassesAssumption`: there are classes; `SetupsAssumption` and `MenuAssumption`: a
start-up is files with ids, a session chooses from the catalog's tools;
`MaxPollsAssumption`).  `ServerHolds` (`Inv`), `AnswersHold` (`AnswersAreTrue`) and
`ServesFirst` (`StartupServesFirst`).  The steps of a call are not proved tool by tool:
the first part shows what the plans of the catalog have in common (`OrdinaryTools`:
fifty-seven tools send requests that change nothing, or a change that the callbacks see
and whose refusal ends the call), what the special ones send (`SpecialTools`), and from
both that every request of every tool is `Lawful` and, for the few tools that keep
something, `Singular` (`TheLaw`).  The rest knows a request by that only.  `IInv` adds
to the properties that a running call is at one of its requests, to a cluster its id
has stood for, and remembers every registration whose callbacks it may have met
(`RunningHold`); that a pod has one owner, at the steps where it can
still lead to the deletion (`PodsHold`); that a refusal ends a call at once
(`RefusedEnd`), unless it is forgiven, and a denied drain at its first request, which is why its evictions,
which no callback sees, are not reached (`DrainsAreDenied`); that a temporary file's
call is at the step that runs kubectl (`TempsHold`); that what is left to patch is what
the defaults differ by from the one class, since a `SetDefault` that only speaks of the
finished call is not inductive (`DefaultsMove`); and that the files loaded so far come
before the others (`LoadingHolds`).  Each action has a lemma that says what it does to
its own call, `Bystanders` and `WorldStep` say what it may do to the others and to the
clusters, and the conjuncts are preserved by these alone.

**`ViewsProof`** (`TextsAssumption`: a text is a record as the parsers make it;
`PagesAssumption`: lengths and page sizes are integers, a size may be negative;
`ApiTablesAssumption`: a table is a sequence, in which nothing is the answer "not
found").  `QueriesAgree` (`QueriesAreConsistent`), for any texts, sizes and tables.  A
step asks and answers at once, so the invariant needs no strengthening, and the work is in
lemmas about the operators: `EqualIsIn` (equality as a number, a time or a string finds
the value in the list, where a moment tells its day), `LessIsOrder` (type by type),
`OnPage` and `PagesCounted` (arithmetic of pages), and `LookupByGVK`, `LookupByKind`,
`LookupByName`, which say that a lookup finds the first resource that fits.

Model-checked only are:

- liveness, since fairness and ENABLED are beyond the prover: `SettlesFresh`,
  `CancelEndsWorker`, both `CallsEnd`, `RolloutIsReported`, `RecoversAfterOutage`,
  `CallsComeToAnEnd`;
- `LinksAreComplete` and `NumbersAgree`: their answers come from folds over lists of
  nodes, expressions and containers (sums, flattened lists, one list narrowed by one
  condition after the other), and what a fold computes for every list is an induction
  over data;
- `DiagnosisIsRight`: the meaning of a rule is given on the requests of the instance,
  which have to be enough to tell two rules apart; that they are is a matter of the
  instance.

## 5. Where the code disagrees with its documents

The run `crd_watcher_reset` has a `finding` in `PROJECT.json`.  The models have the
following behaviours too, as the code has them; the properties above are stated so
that they hold beside them, and no run checks them one by one.

Against a document or a comment of the repository:

- Registry: a registration of an id whose instance is half built returns success with
  that instance (`kom/cluster_base.go:166`).
- Callbacks: a compilation overwrites the `After` of a callback that another one names
  in its `Before`, so an order that was asked for gets lost (`kom/callback.go:227`,
  `README.md:783`).  So the order of callbacks that refer to ones not registered yet may
  change at the next call, whatever that call is about (`TidyCallsMoveNothing` leaves
  these out), and the guard of a callback that itself asked for "*" may end up behind it
  (`GuardHolds` leaves it out).
- Tables: `ListAvailableTableNames` offers the kind in lower case, which `From` finds only
  if the singular is the same (`kom/tools.go:286`, `kom/tools.go:230`).  A subresource's
  name (`deployments/status`) leads to the first resource of its kind.
- Lists: the key of a cached list has one namespace in it, so that a query of all
  namespaces may be answered with the list of one (`callbacks/list.go:58`).
  `Namespace(a, b)` first in a chain lists every namespace (`kom/sql.go:69`).
- Nodes: a drain returns while pods of other namespaces than the default one still run
  (`kom/ctl_node.go:134`, comment in line 118).
- Workloads: Undo without a version copies the pods' spec only, and not their labels
  and annotations (`kom/ctl_rollout.go:476`).  Status may report the rollout before the
  current one as complete, for it does not look at the observed generation
  (`kom/ctl_rollout.go:144`).
- Queries: `= 1` is taken for a comparison of booleans, which a field that holds 1
  does not meet (`utils/detect_type.go:19`, `README.md:835`).
- Names: pods are found by their owner, and nodes' pods by the node, with a condition in
  quotes that loses them (`kom/ctl_rs.go:40`, `kom/ctl_node.go:484`, `556`): a name that
  `ParseBool` takes ("1", "0", "t", "true"), a date, or "nan" is found by nobody, and "10" and
  "1e1" are one (`utils/detect_type.go:19`, `callbacks/sql_where_process.go:233`).
- Links: the terms of a node affinity, of which a pod needs one, are all taken as
  conditions, so a node that meets one term may be left out (`kom/ctl_pod_link.go:616`).
- Usage: with the limit as denominator, a pod without one has a share of zero, not of
  the node (`kom/ctl_pod_usage.go:112`, comment in line 28).

Others:

- Registry: two registrations of one id both build, and the watch of one of them
  cannot be cancelled any more (`kom/cluster_base.go:166`, `207`).  A plain
  registration over the placeholder of a failed EKS registration panics
  (`kom/cluster_base.go:175`).
- Query cache: a Get that fails to convert its object has cached it by then
  (`callbacks/get.go:32`, `52`).
- EKS: a token that was fetched before another one may be stored after it, and after the
  loop was cancelled (`kom/aws/token.go:92`, `98`).  After a registration that failed half way its second loop writes to a nil Config,
  and removing a cluster twice at once closes a channel twice; both panic
  (`kom/cluster_aws.go:112`, `kom/aws/token.go:163`).
- CRD watcher: a timer that fires after the cluster was removed makes the process
  panic (`kom/status.go:259`).  With the watch disabled the resources are never loaded.
- Counts: a list that fails is left out of the summary, which is cached as if complete
  (`kom/status.go:143`).
- Callbacks: constraints that a compilation has written survive the removal of the
  callback they name, and may make the compilation recurse for ever
  (`kom/callback.go:227`, `249`, `256`).  A Replace of a callback that is
  `Before("*")` has no effect (`kom/callback.go:194`, `278`).
- Lists: `Namespace("a", "b")` and then `Namespace("*")` keeps the filter
  (`kom/sql.go:53`).  Two disjunctions in one query become one
  (`callbacks/sql_where_process.go:26`).  Ordering a number against a boolean panics.
- Nodes: a pod that is gone between the list and its eviction makes the drain fail
  (`kom/ctl_node.go:155`); a shell pod that is not ready in time stays
  (`kom/ctl_node.go:268`).
- Workloads: Restore without a Stop sets one replica (`kom/ctl_scale.go:112`), and a
  Restore that has read before a Stop may start what was stopped since.  Undo goes back
  two when the newest revision is not noted yet (`kom/ctl_rollout.go:441`).  Stop and
  Restore of a DaemonSet, Pause and Resume of a CronJob check no kind.
- MCP: a directory with a kubeconfig that cannot be registered makes a program that
  listens and offers no tool (`mcp/server.go:94`, `297`); a registration that failed leaves
  its id registered, and the tools that use it panic or fail (`kom/cluster_base.go:207`);
  registering an id that exists reports success though the old configuration
  stays, or is half built; the callbacks that deny see no creation, no command and no request of a client
  a tool makes itself; a tool that counts addresses or pods answers zero when its read
  fails, and one that lists load balancers "none" when both reads fail; SetDefault with
  the name of no class clears all defaults and succeeds.
- ALB: a host suffix without a dot is said to be covered by the one with it (a false
  alarm, which `ShadowedRulesAreEclipsed` leaves out); rules of equal priority are
  listed in no fixed order.

## 6. Plan

Proofs, next: lemmas about sums and narrowed lists, for the links and the numbers of
`Views`, as far as the provers carry them; the lemmas that several proofs repeat (what an update of a
function leaves alone, the bystanders of a step) in one module.

Models, next: a registry whose registration is one step, as the abstract
specification of `ClusterRegistry` for calls that do not overlap, which is also the one
that `McpServer` uses; the processors of one cluster under `restrict.go`, composed of
`Callbacks`; exec and port forwarding with their goroutines.

## 7. Not modelled

Streams of pods (exec, logs, files, port forwarding): the state is in the
connection, and kom adds buffers and shell commands; a goroutine it starts per
connection (`callbacks/port_forward.go:62`) may outlive it.  Prometheus: HTTP queries and
conversions.  Describe and documentation: layout.  What tools print, but for pages.
Parsing of query texts and manifests.  The options of a registration that fill in a
`rest.Config`, and the choice of `DefaultCluster`.  Utilities other than those named in
section 2, `main.go`, examples: no state.  The informer has no `UpdateFunc`
(`kom/status.go:284`), so that a changed CRD is no event of `CRDWatcher`.  Memory races
on Go maps and slices (callbacks registered while others execute,
`kom/callback.go:110`) are not modelled either: registration happens when the program
starts.
