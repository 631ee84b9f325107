----------------------------- MODULE McpServer -----------------------------
(***************************************************************************)
(* The MCP server: it loads the kubeconfigs of a directory, registers      *)
(* their clusters, and then handles the calls of its sessions at the same  *)
(* time.  A handler is a goroutine that checks its arguments and sends the *)
(* requests of its tool one by one, to an API server that may refuse each, *)
(* carry it out and lose the answer, or never answer: no request has a     *)
(* deadline but kubectl and the deletion of a diagnostic pod.              *)
(*                                                                         *)
(* Meanwhile other sessions register and unregister clusters.  A           *)
(* registration publishes its instance half built, that is without clients *)
(* and callbacks, and leaves it so when no clients can be made; then it    *)
(* makes the clients, and the callbacks last.  What it does besides is in  *)
(* ClusterRegistry.  An instance that is half built goes by the name of    *)
(* the session that builds it, or "main" when the server starts.           *)
(*                                                                         *)
(* The server asks the MCP library for no recovery.  A panic in a call     *)
(* over HTTP cuts off that call; over SSE, where the library has a         *)
(* goroutine for each call, it ends the program, and what the other calls  *)
(* had deferred is not done.                                               *)
(***************************************************************************)
EXTENDS McpCatalog, Naturals, Functions

CONSTANTS
    Sessions,   \* clients of the server
    IDs,        \* cluster IDs; "dev" is that of the default cluster
    Servers,    \* API servers
    Classes,    \* the names of the classes, in the order they are listed
    PodNames,   \* names a diagnostic pod may get
    Setups,     \* directories, default kubeconfigs and callbacks to start with
    Menu,       \* bound: the tools the calls of each session choose from, in order
    MaxPolls,   \* how often a diagnostic pod is looked at (20)
    None

\* Who registers clusters, and what a half-built instance goes by.
Builders == Sessions \cup {"main"}

\* The default kubeconfig registers "dev"; None is no server, no ID, no pod and
\* no class.
ASSUME NamesAssumption ==
    /\ "dev" \in IDs
    /\ None \notin Servers \cup Builders \cup IDs \cup PodNames \cup Range(Classes)
    /\ Servers \cap Builders = {} /\ "main" \notin Sessions

ASSUME ClassesAssumption == Classes # <<>> /\ Classes \in Seq(Range(Classes))

\* No directory, or one with files.  A kubeconfig without a server is missing,
\* unreadable, or such that no clients can be made of it.  The storage classes
\* in beta have the annotation that made them default before version 1.
ASSUME SetupsAssumption ==
    \A one \in Setups :
        /\ one.files \in Seq([id : IDs, ext : {"yaml", "yml"}, server : Servers \cup {None}])
        /\ one.default \in Servers \cup {None}
        /\ one.deny \in BOOLEAN
        /\ one.beta \subseteq Range(Classes)

ASSUME MenuAssumption == Menu \in [Sessions -> Seq(SUBSET DOMAIN Tools)]

ASSUME MaxPollsAssumption == MaxPolls \in Nat \ {0}

VARIABLES
    phase,    \* "loading", "default" (no kubeconfigs), "serving", "toolless", "dead" or "crashed"
    setup,    \* what the server was started with
    toLoad,   \* the files whose kubeconfigs are not registered yet
    clusters, \* the API server each ID stands for, or who has half built it
    world,    \* what the calls have changed on each API server
    temps,    \* sessions whose call has a kubeconfig in a temporary file
    lost,     \* diagnostic pods whose making or deletion failed, for all the call knows
    calls     \* the call of each session

vars == <<phase, setup, toLoad, clusters, world, temps, lost, calls>>

Plan(c) == Tools[c.tool].plan
Ended == {"answered", "error", "panicked"}
Writes == {"patch", "update", "delete", "create", "evict", "run", "make", "default"}
ClassTools == {"SetDefaultStorageClass", "SetDefaultIngressClass"}
RegistryTools == {"ListClusters", "RegisterCluster", "UnregisterCluster"}

NoCall == [at |-> "answered", tool |-> "ListClusters", id |-> None, arg |-> None, given |-> {},
           count |-> 0, step |-> 1, held |-> None, pod |-> None, polls |-> 0, todo |-> {},
           then |-> "answered", refused |-> {}, since |-> {}, gone |-> FALSE, alone |-> TRUE]

---------------------------------------------------------------------------
(* Starting.                                                               *)

LoadKubeconfigsFromDirectory(files) == {n \in DOMAIN files : files[n].ext \in {"yaml", "yml"}}

\* A slip: the other extension first.
YmlFilesFirst(m, n) ==
    LET ext(k) == setup.files[k].ext IN
    (ext(m) = "yml" /\ ext(n) = "yaml") \/ (ext(m) = ext(n) /\ m < n)

\* All files of one extension after those of the other.
IsBefore(m, n) ==
    LET ext(k) == setup.files[k].ext IN
    (ext(m) = "yaml" /\ ext(n) = "yml") \/ (ext(m) = ext(n) /\ m < n)

Init ==
    /\ setup \in Setups
    /\ toLoad = LoadKubeconfigsFromDirectory(setup.files)
    /\ phase = IF toLoad = {} THEN "default" ELSE "loading"
    /\ clusters = [id \in IDs |-> None]
    /\ world = [a \in Servers |-> [touched |-> {}, early |-> {}, diag |-> {},
                                   defaults |-> [t \in ClassTools |-> {Classes[1]}]]]
    /\ temps = {} /\ lost = {}
    /\ calls = [s \in Sessions |-> NoCall]

\* An ID that is registered stays as it is.  The first file that cannot be
\* registered is the last: the program goes on to listen, with no server behind
\* it and so no tools, and with what is registered so far, that of a kubeconfig
\* without clients half built.
InitializeMultiCluster ==
    /\ phase = "loading"
    /\ \E n \in toLoad :
           LET file == setup.files[n]
               new  == clusters[file.id] = None
               with(inst) == [clusters EXCEPT ![file.id] = IF new THEN inst ELSE @] IN
           /\ \A m \in toLoad \ {n} : IsBefore(n, m)
           /\ toLoad' = toLoad \ {n}
           /\ \/ /\ file.server # None \/ ~new
                 /\ clusters' = with(file.server)
                 /\ phase' = IF toLoad = {n} THEN "serving" ELSE "loading"
              \/ /\ file.server # None => new
                 /\ clusters' \in IF file.server = None THEN {clusters, with("main")}
                                  ELSE {with(file.server)}
                 /\ phase' = "toolless"
    /\ UNCHANGED <<setup, world, temps, lost, calls>>

\* Here the program ends.
RegisterDefaultCluster ==
    /\ phase = "default"
    /\ phase' \in {"dead"} \cup (IF setup.default = None THEN {} ELSE {"serving"})
    /\ clusters' = [clusters EXCEPT !["dev"] = setup.default]
    /\ UNCHANGED <<setup, toLoad, world, temps, lost, calls>>

---------------------------------------------------------------------------
(* Calls.                                                                  *)

\* The name of a class, or the server of a kubeconfig.
Args(t) == CASE t \in ClassTools -> Range(Classes) \cup {None}
             [] t = "RegisterCluster" -> Servers \cup {None}
             [] OTHER -> {None}

CallTool(s) ==
    /\ phase = "serving"
    /\ calls[s].at \in Ended
    /\ calls[s].count < Len(Menu[s])
    /\ \E t \in Menu[s][calls[s].count + 1], id \in IDs \cup {None} :
       \E arg \in Args(t), given \in {Tools[t].needs} \cup {Tools[t].needs \ {x} : x \in Tools[t].needs} :
           calls' = [calls EXCEPT ![s] = [NoCall EXCEPT
                        !.at = "received", !.tool = t, !.id = id, !.arg = arg, !.given = given,
                        !.count = calls[s].count + 1]]
    /\ UNCHANGED <<phase, setup, toLoad, clusters, world, temps, lost>>

Received(s, t) == calls[s].at = "received" /\ calls[s].tool = t
Complete(s) == calls[s].id # None /\ calls[s].given = Tools[calls[s].tool].needs

\* The places of a registration, the last one without an answer for ever.
Registering == {"building", "opening", "watching", "stalled"}

\* The registrations that have not come to the callbacks of what an ID stands for.
Early(id) == {r \in Sessions : /\ calls[r].at \in {"opening", "stalled"}
                               /\ calls[r].id = id /\ ~calls[r].gone}

\* The calls after an ID comes to stand for another instance, or none.
Renamed(id, server) ==
    [r \in Sessions |->
        IF calls[r].id # id \/ calls[r].at \notin {"running", "cleanup"} \cup Registering
        THEN calls[r]
        ELSE [calls[r] EXCEPT !.gone = @ \/ server = None, !.since = @ \cup ({server} \ {None})]]

ListClustersHandler(s) ==
    /\ Received(s, "ListClusters")
    /\ calls' = [calls EXCEPT ![s].at = "answered"]
    /\ UNCHANGED <<phase, setup, toLoad, clusters, world, temps, lost>>

\* The call panics, and the program with it or not.
Panics(s) ==
    /\ calls' = [calls EXCEPT ![s].at = "panicked"]
    /\ phase' \in {phase, "crashed"}

\* An ID that is registered, be it half built, is left as it is, and that is
\* told as success.
RegisterClusterHandler(s) ==
    LET c == calls[s] IN
    /\ Received(s, "RegisterCluster")
    /\ \/ /\ ~Complete(s) \/ c.arg = None
          /\ calls' = [calls EXCEPT ![s].at = "error"]
          /\ UNCHANGED clusters
       \/ /\ Complete(s) /\ clusters[c.id] # None
          /\ calls' = [calls EXCEPT ![s].at = "answered"]
          /\ UNCHANGED clusters
       \/ /\ Complete(s) /\ clusters[c.id] = None
          /\ clusters' = [clusters EXCEPT ![c.id] = s]
          /\ calls' = [Renamed(c.id, s) EXCEPT ![s].at = "building"]
    /\ UNCHANGED <<phase, setup, toLoad, world, temps, lost>>

\* The clients are put into the instance, which may be registered no more.
BuildCluster(s) ==
    LET c == calls[s] here == clusters[c.id] = s IN
    /\ c.at = "building"
    /\ \/ /\ c.arg = None
          /\ calls' = [calls EXCEPT ![s].at = "error"]
          /\ UNCHANGED clusters
       \/ /\ c.arg # None
          /\ clusters' = IF here THEN [clusters EXCEPT ![c.id] = c.arg] ELSE clusters
          /\ calls' = [(IF here THEN Renamed(c.id, c.arg) ELSE calls) EXCEPT ![s].at = "opening"]
    /\ UNCHANGED <<phase, setup, toLoad, world, temps, lost>>

\* What can be told of the server is, and then the callbacks are registered;
\* both look the ID up.
OpenCluster(s) ==
    LET c == calls[s] IN
    /\ c.at = "opening"
    /\ \/ /\ \E at \in {"watching", "stalled"} : calls' = [calls EXCEPT ![s].at = at]
          /\ UNCHANGED phase
       \/ clusters[c.id] # c.arg /\ Panics(s)
    /\ UNCHANGED <<setup, toLoad, clusters, world, temps, lost>>

\* The rest leads to an answer, an error although the cluster can be used, or
\* neither.
FinishCluster(s) ==
    LET c == calls[s] IN
    /\ c.at = "watching"
    /\ \/ /\ \E at \in {"answered", "error", "hanging"} : calls' = [calls EXCEPT ![s].at = at]
          /\ UNCHANGED phase
       \/ clusters[c.id] # c.arg /\ Panics(s)
    /\ UNCHANGED <<setup, toLoad, clusters, world, temps, lost>>

UnregisterClusterHandler(s) ==
    LET c == calls[s] IN
    /\ Received(s, "UnregisterCluster")
    /\ IF Complete(s) /\ clusters[c.id] # None
       THEN /\ clusters' = [clusters EXCEPT ![c.id] = None]
            /\ calls' = [Renamed(c.id, None) EXCEPT ![s].at = "answered"]
       ELSE /\ calls' = [calls EXCEPT ![s].at = "error"]
            /\ UNCHANGED clusters
    /\ UNCHANGED <<phase, setup, toLoad, world, temps, lost>>

\* The cluster must be named and registered, if half built, and the arguments
\* be there.
ParseFromRequestUnchecked(s) ==
    LET c == calls[s] IN
    /\ c.at = "received" /\ c.tool \notin RegistryTools
    /\ calls' = [calls EXCEPT ![s] =
           IF Complete(s) THEN [c EXCEPT !.at = "running", !.since = {clusters[c.id]} \cup Early(c.id)]
           ELSE [c EXCEPT !.at = "error"]]
    /\ UNCHANGED <<phase, setup, toLoad, clusters, world, temps, lost>>
ParseFromRequest(s) ==
    LET c == calls[s] IN
    /\ c.at = "received" /\ c.tool \notin RegistryTools
    /\ calls' = [calls EXCEPT ![s] =
           IF Complete(s) /\ clusters[c.id] # None
           THEN [c EXCEPT !.at = "running", !.since = {clusters[c.id]} \cup Early(c.id)]
           ELSE [c EXCEPT !.at = "error"]]
    /\ UNCHANGED <<phase, setup, toLoad, clusters, world, temps, lost>>

---------------------------------------------------------------------------
(* Requests.                                                               *)

Request(s) == Plan(calls[s])[calls[s].step]
Sends(s, verbs) == calls[s].at = "running" /\ Request(s).verb \in verbs
TargetOrDefault(s) == IF Request(s).way = "held" /\ calls[s].held # None THEN calls[s].held
                      ELSE IF clusters[calls[s].id] = None THEN clusters["dev"]
                      ELSE clusters[calls[s].id]
Target(s) == IF Request(s).way = "held" /\ calls[s].held # None THEN calls[s].held
             ELSE clusters[calls[s].id]

\* Of the callbacks there are none at all, none that do anything, or not yet
\* those that deny.
Unready(s) == Request(s).way = "callbacks" /\ Early(calls[s].id) # {}

\* The server denies what would change an object, except creating it.
DenyActionButUpdate(s) == setup.deny /\ Request(s).way = "callbacks" /\ ~Unready(s)
                             /\ Request(s).verb \in {"patch", "delete", "default"}
DenyAction(s) == setup.deny /\ Request(s).way = "callbacks" /\ ~Unready(s)
                    /\ Request(s).verb \in {"patch", "update", "delete", "default"}

\* What is deferred comes first: the diagnostic pod, the temporary file.
EndKeepsPod(c, result) == IF c.pod # None /\ result = "answered"
                          THEN [c EXCEPT !.at = "cleanup", !.then = result]
                          ELSE [c EXCEPT !.at = result]
End(c, result) == IF c.pod # None THEN [c EXCEPT !.at = "cleanup", !.then = result]
                  ELSE [c EXCEPT !.at = result]

GotoPastEnd(c, step) == IF step > Len(Plan(c)) + 1 THEN End(c, "answered") ELSE [c EXCEPT !.step = step]
Goto(c, step) == IF step > Len(Plan(c)) THEN End(c, "answered") ELSE [c EXCEPT !.step = step]
Proceed(c, how) ==
    CASE how = "next" -> Goto(c, c.step + 1)
      [] how = "skip" -> Goto(c, c.step + 2)
      [] how = "last" -> Goto(c, Len(Plan(c)))
      [] how = "again" -> [c EXCEPT !.polls = @ + 1]
      [] how = "answer" -> End(c, "answered")
      [] how = "error" -> End(c, "error")
      [] how = "hang" -> [c EXCEPT !.at = "hanging"]

\* The call after an outcome of its request, leading on as it says.
After(s, outcome, how) ==
    LET c == calls[s] IN
    Proceed([c EXCEPT !.held = IF Request(s).way \in {"held", "guarded"} THEN Target(s) ELSE @,
                      !.refused = IF outcome = "failed" THEN @ \cup ({Request(s).verb} \cap Writes)
                                  ELSE @], how)

\* What comes of a request: "none" is no answer, ever, which what is denied
\* here and what has a deadline do not come to.  How the call goes on after it.
Outcomes(s) == IF DenyAction(s) THEN {"failed"}
               ELSE IF Request(s).way = "program" THEN {"ok", "failed"}
               ELSE {"ok", "failed", "none"}
Hows(s, outcome) == IF outcome = "none" THEN {"hang"} ELSE Request(s)[outcome]

\* Whether the change was made: surely, surely not, or who knows.
Applied(s, outcome) == IF outcome = "ok" /\ ~Unready(s) THEN {TRUE}
                       ELSE IF DenyAction(s) THEN {FALSE} ELSE BOOLEAN

\* What changes an object over an ID that has always been registered, and what
\* does while it is being.
IsEarly(c) == c.since \cap Builders # {}
Touch(s) == IF IsEarly(calls[s]) THEN [world EXCEPT ![Target(s)].early = @ \cup {calls[s].tool}]
            ELSE [world EXCEPT ![Target(s)].touched = @ \cup {calls[s].tool}]

\* Nothing is sent: the arguments are read, or the cluster, its clients or its
\* callbacks are not there, which only some handlers look at.
CheckArguments(s) ==
    /\ Sends(s, {"check"})
    /\ \E how \in {"next", "error"} : calls' = [calls EXCEPT ![s] = Proceed(@, how)]
    /\ UNCHANGED <<phase, setup, toLoad, clusters, world, temps, lost>>

IsMissed(s) == \/ Request(s).way = "guarded" /\ Target(s) = None
               \/ Request(s).way = "held" /\ Target(s) \in Builders

ClusterIsGone(s) ==
    /\ calls[s].at = "running" /\ Request(s).way \notin {"none", "program"}
    /\ \/ /\ IsMissed(s)
          /\ calls' = [calls EXCEPT ![s] =
                 End(@, IF @.tool = "TestPodDNSResolve" THEN "answered" ELSE "error")]
          /\ UNCHANGED phase
       \/ /\ Unready(s) \/ Target(s) \notin Servers
          /\ ~IsMissed(s) /\ Request(s).way # "guarded" /\ Panics(s)
    /\ UNCHANGED <<setup, toLoad, clusters, world, temps, lost>>

SendRequest(s) ==
    /\ Sends(s, {"read", "look", "patch", "update", "delete", "create", "evict", "run"})
    /\ Target(s) \in Servers \/ Request(s).way = "program"
    /\ \E outcome \in Outcomes(s) : \E how \in Hows(s, outcome), applied \in Applied(s, outcome) :
           /\ calls' = [calls EXCEPT ![s] = After(s, outcome, how)]
           /\ world' = IF applied /\ Request(s).verb \in Writes THEN Touch(s) ELSE world
           /\ temps' = IF calls'[s].at \in Ended THEN temps \ {s} ELSE temps
    /\ UNCHANGED <<phase, setup, toLoad, clusters, lost>>

\* A pod of its own; the name may be that of another's.
MakePod(s) ==
    /\ Sends(s, {"make"})
    /\ Target(s) \in Servers
    /\ \E name \in PodNames, outcome \in Outcomes(s) :
       \E how \in Hows(s, outcome),
          applied \in IF name \in world[Target(s)].diag THEN {FALSE} ELSE Applied(s, outcome) :
           /\ outcome = "ok" => applied
           /\ calls' = [calls EXCEPT ![s] = [After(s, outcome, how) EXCEPT
                            !.pod = IF outcome = "ok" THEN name ELSE @]]
           /\ world' = IF applied THEN [Touch(s) EXCEPT ![Target(s)].diag = @ \cup {name}] ELSE world
           /\ lost' = IF applied /\ outcome # "ok" THEN lost \cup {<<Target(s), name>>} ELSE lost
    /\ UNCHANGED <<phase, setup, toLoad, clusters, temps>>

\* The pod is looked at until it has ended or that has been often enough.
PollPodStartsOver(s) ==
    /\ Sends(s, {"poll"})
    /\ \/ calls' = [calls EXCEPT ![s] = Proceed(@, "next")]
       \/ calls' = [calls EXCEPT ![s].polls = (@ + 1) % MaxPolls]
    /\ UNCHANGED <<phase, setup, toLoad, clusters, world, temps, lost>>
PollPod(s) ==
    /\ Sends(s, {"poll"})
    /\ \E how \in {"next", "hang", IF calls[s].polls + 1 < MaxPolls THEN "again" ELSE "answer"} :
           calls' = [calls EXCEPT ![s] = Proceed(@, how)]
    /\ UNCHANGED <<phase, setup, toLoad, clusters, world, temps, lost>>

\* Within a deadline.  That it failed is told to nobody.
DropPod(s) ==
    LET c == calls[s] pod == <<c.held, c.pod>> IN
    /\ c.at = "cleanup"
    /\ \E failed, applied \in BOOLEAN :
           /\ ~failed => applied
           /\ world' = IF applied THEN [world EXCEPT ![c.held].diag = @ \ {c.pod}] ELSE world
           /\ lost' = IF applied THEN lost \ {pod} ELSE lost \cup {pod}
           /\ calls' = [calls EXCEPT ![s].at = c.then, ![s].pod = None,
                                     ![s].refused = IF failed THEN @ \cup {"drop"} ELSE @]
    /\ UNCHANGED <<phase, setup, toLoad, clusters, temps>>

\* The classes that are default: for storage, by either annotation.  The one
\* that is read today comes and goes, the beta one stays.
Beta(t) == IF t = "SetDefaultStorageClass" THEN setup.beta ELSE {}
DefaultClasses(a, t) == world[a].defaults[t] \cup Beta(t)

\* Those that are default, and the one that is to be.
ClassesToPatchByName(s) == {calls[s].arg} \cap Range(Classes)
ClassesToPatch(s) ==
    (DefaultClasses(Target(s), calls[s].tool) \cup {calls[s].arg}) \cap Range(Classes)

ListClasses(s) ==
    LET c == calls[s] todo == ClassesToPatch(s) IN
    /\ Sends(s, {"classes"})
    /\ Target(s) \in Servers
    /\ calls' \in {[calls EXCEPT ![s] = r] :
           r \in {End(c, "error"), Proceed(c, "hang"),
                  IF todo = {} THEN End(c, "answered")
                  ELSE [c EXCEPT !.step = @ + 1, !.todo = todo]}}
    /\ UNCHANGED <<phase, setup, toLoad, clusters, world, temps, lost>>

\* One class after the other, as they are listed; the first refusal is the
\* last.  A class that is not to be default loses the annotation of today.
PatchClass(s) ==
    LET c == calls[s]
        others == [r \in Sessions |-> IF r # s /\ calls[r].tool = c.tool
                                      THEN [calls[r] EXCEPT !.alone = FALSE] ELSE calls[r]] IN
    /\ Sends(s, {"default"})
    /\ Target(s) \in Servers
    /\ \E n \in DOMAIN Classes, outcome \in Outcomes(s) : \E applied \in Applied(s, outcome) :
           LET class == Classes[n] IN
           /\ class \in c.todo
           /\ \A m \in 1 .. n - 1 : Classes[m] \notin c.todo
           /\ world' = IF ~applied THEN world
                       ELSE [Touch(s) EXCEPT ![Target(s)].defaults[c.tool] =
                               IF class = c.arg THEN @ \cup {class} ELSE @ \ {class}]
           /\ calls' = [others EXCEPT ![s] =
                  IF outcome # "ok" THEN After(s, outcome, IF outcome = "none" THEN "hang" ELSE "error")
                  ELSE IF c.todo = {class} THEN After(s, "ok", "answer")
                  ELSE [c EXCEPT !.todo = @ \ {class}]]
    /\ UNCHANGED <<phase, setup, toLoad, clusters, temps, lost>>

\* The configuration of the cluster as it is now.
WriteKubeconfigLeavesFile(s) ==
    /\ Sends(s, {"tempfile"})
    /\ Target(s) # None
    /\ \/ calls' = [calls EXCEPT ![s] = After(s, "ok", "next")]
       \/ calls' = [calls EXCEPT ![s] = End(@, "error")]
    /\ temps' = temps \cup {s}
    /\ UNCHANGED <<phase, setup, toLoad, clusters, world, lost>>
WriteKubeconfig(s) ==
    /\ Sends(s, {"tempfile"})
    /\ Target(s) # None
    /\ \/ /\ calls' = [calls EXCEPT ![s] = After(s, "ok", "next")]
          /\ temps' = temps \cup {s}
       \/ calls' = [calls EXCEPT ![s] = End(@, "error")] /\ UNCHANGED temps
    /\ UNCHANGED <<phase, setup, toLoad, clusters, world, lost>>

Handle(s) ==
    /\ phase = "serving"
    /\ \/ ListClustersHandler(s) \/ UnregisterClusterHandler(s)
       \/ RegisterClusterHandler(s) \/ BuildCluster(s) \/ OpenCluster(s) \/ FinishCluster(s)
       \/ ParseFromRequest(s) \/ CheckArguments(s) \/ ClusterIsGone(s) \/ SendRequest(s)
       \/ MakePod(s) \/ PollPod(s) \/ DropPod(s) \/ ListClasses(s) \/ PatchClass(s)
       \/ WriteKubeconfig(s)

Next == InitializeMultiCluster \/ RegisterDefaultCluster
            \/ \E s \in Sessions : CallTool(s) \/ Handle(s)

\* The goroutine of a handler runs on.  That its requests return is not
\* assumed: one that does not is a step to "hanging", where nothing goes on.
Fairness == \A s \in Sessions : WF_vars(Handle(s))

Spec == Init /\ [][Next]_vars /\ Fairness

---------------------------------------------------------------------------
(* Properties.                                                             *)

TypeOK ==
    /\ phase \in {"loading", "default", "serving", "toolless", "dead", "crashed"}
    /\ setup \in Setups
    /\ clusters \in [IDs -> Servers \cup Builders \cup {None}]
    /\ \A a \in Servers : /\ world[a].touched \cup world[a].early \subseteq DOMAIN Tools
                          /\ world[a].diag \subseteq PodNames
                          /\ \A t \in ClassTools : world[a].defaults[t] \subseteq Range(Classes)
    /\ temps \subseteq Sessions
    /\ lost \subseteq Servers \X PodNames
    /\ \A s \in Sessions : LET c == calls[s] IN
           /\ c.at \in {"received", "running", "cleanup", "hanging"} \cup Registering \cup Ended
           /\ c.tool \in DOMAIN Tools
           /\ c.at = "running" => c.step \in DOMAIN Plan(c)
           /\ c.held \in Servers \cup Builders \cup {None}
           /\ c.pod \in PodNames \cup {None}
           /\ c.polls \in 0..(MaxPolls - 1)
           /\ c.todo \subseteq Range(Classes)

\* A client may call every tool that hints it only reads and find no object
\* of any cluster changed by it, whatever requests fail on the way.  All but
\* one: the resolution of a name hands the name to a shell in the pod, which
\* does what it says (pod_dns.go:50).
ReadOnlyHintsHold ==
    \A a \in Servers : \A t \in world[a].touched \cup world[a].early :
        Tools[t].hint = "destructive" \/ t = "TestPodDNSResolve"

\* With the callbacks of main.go no call patches, updates or deletes an
\* object: what is left are commands in pods, creating, and the pod of the
\* network diagnosis, which the tool makes with a client of its own.  Not so a
\* call that meets its cluster while that is registered: the callbacks that deny
\* come last, long after the ID can be found (cluster_base.go:207, 227).
DeniedChangesAreFew ==
    setup.deny => \A a \in Servers : world[a].touched \subseteq
        {"Exec", "UploadPodFile", "DeletePodFile", "ApplyYaml", "DiagnosePodNetwork",
            "TestPodDNSResolve"}

\* The changes whose failure an answer may pass over: those that are told as a
\* text, and the deletion that is deferred, whose error is dropped
\* (pod_network.go:126).
Forgiven(t) == CASE t = "ApplyYaml" -> {"create", "update"}
                 [] t = "DeleteYaml" -> {"delete"}
                 [] t = "TestPodDNSResolve" -> {"run"}
                 [] t = "DiagnosePodNetwork" -> {"run", "drop"}
                 [] OTHER -> {}

\* A tool answers without an error only when none of its changes failed, but
\* for those.
SuccessMeansAccepted ==
    \A s \in Sessions : calls[s].at = "answered" =>
        calls[s].refused \subseteq Forgiven(calls[s].tool)

\* When SetDefault has answered for a class there is, and no other call
\* changed the defaults meanwhile, nor was the ID given to another server or
\* still being registered, when callbacks without a handler tell of success,
\* that class is the only default, but for those storage classes that are
\* default by the beta annotation, which it leaves (ctl_storageclass.go:66).
SoleDefaultAfterSetDefault ==
    \A s \in Sessions, a \in Servers : LET c == calls[s] IN
        /\ c.at = "answered" /\ c.tool \in ClassTools
        /\ c.arg \in Range(Classes) /\ c.alone /\ ~c.gone /\ c.since = {a}
        => DefaultClasses(a, c.tool) = {c.arg} \cup Beta(c.tool)

\* A diagnostic pod belongs to exactly one call, which is going to delete
\* it, unless its making or its deletion failed for all the call knows.
DiagPodsBelongToCalls ==
    \A a \in Servers, name \in PodNames :
        LET owners == {s \in Sessions : calls[s].at \notin Ended
                                       /\ calls[s].pod = name /\ calls[s].held = a} IN
        /\ Cardinality(owners) <= 1
        /\ name \in world[a].diag <=> owners # {} \/ <<a, name>> \in lost

\* A handler panics only on a cluster that was unregistered while it was
\* running, or whose registration had published it and not yet, or never, come
\* to its clients and callbacks (cluster_base.go:207); never on a name that was
\* wrong from the start.  The program goes down for no other reason.
PanicsOnlyAfterRemoval ==
    /\ \A s \in Sessions : LET c == calls[s] IN
           c.at = "panicked" => c.gone \/ c.since \cap Builders # {}
    /\ phase = "crashed" => \E s \in Sessions : calls[s].at = "panicked"

\* A call's requests go to no server but those its ID stood for meanwhile,
\* though it looks the ID up again for every request.
RequestsStayOnNamedServers ==
    \A s \in Sessions :
        calls[s].at = "running" => Target(s) \in calls[s].since \cup {None}

\* A kubeconfig with credentials stays on disk only while its call runs.
TempsAreRemoved ==
    temps \subseteq {s \in Sessions : calls[s].at = "running" /\ calls[s].tool = "Kubectl"}

\* The server of the first of the files that were loaded with an ID, yaml before
\* yml, or the default one for "dev".
FirstServer(id) ==
    LET named(ext) == {i \in DOMAIN setup.files \ toLoad' :
                          setup.files[i].id = id /\ setup.files[i].ext = ext}
        first(S) == setup.files[CHOOSE i \in S : \A j \in S : i <= j].server IN
    IF named("yaml") # {} THEN first(named("yaml"))
    ELSE IF named("yml") # {} THEN first(named("yml"))
    ELSE IF setup.files = <<>> /\ id = "dev" THEN setup.default
    ELSE None

StartsAsLoaded ==
    phase # phase' /\ phase' \in {"serving", "toolless"} =>
        \A id \in IDs :
            \/ clusters'[id] = FirstServer(id)
            \/ /\ phase' = "toolless" /\ clusters'[id] = "main" /\ FirstServer(id) = None
               /\ \E n \in toLoad \ toLoad' : setup.files[n].id = id

\* When the server starts serving, every ID stands for the server of the
\* first file with that name, yaml before yml, or "dev" for the default one.
\* When it starts without tools, so do the IDs of the files up to the one that
\* failed, and the other IDs for none; only that one's may be half built, if no
\* file before it has its name.
StartupServesFirst == [][StartsAsLoaded]_vars

\* Every call is answered, unless one of its requests never is or the program
\* goes down.
CallsAreAnswered ==
    \A s \in Sessions :
        calls[s].at = "received" ~>
            calls[s].at \in Ended \cup {"hanging", "stalled"} \/ phase = "crashed"

\* A diagnostic pod goes, unless its making or its deletion failed, its call
\* waits for an answer for ever, or the program went down.
DiagPodsAreRemoved ==
    \A a \in Servers, name \in PodNames :
        name \in world[a].diag ~>
            \/ name \notin world[a].diag
            \/ <<a, name>> \in lost
            \/ \E s \in Sessions : calls[s].at = "hanging" /\ calls[s].pod = name /\ calls[s].held = a
            \/ phase = "crashed"

\* What holds in every state: of what calls leave behind, of their clusters and
\* of their panics.
Inv ==
    /\ TypeOK
    /\ DiagPodsBelongToCalls
    /\ TempsAreRemoved
    /\ RequestsStayOnNamedServers
    /\ PanicsOnlyAfterRemoval

\* What a client is told, by hints, by what is denied and by success, is so.
AnswersAreTrue ==
    /\ ReadOnlyHintsHold
    /\ DeniedChangesAreFew
    /\ SuccessMeansAccepted
    /\ SoleDefaultAfterSetDefault

\* Every call comes to its end, and its diagnostic pod with it.
CallsComeToAnEnd ==
    /\ CallsAreAnswered
    /\ DiagPodsAreRemoved
=============================================================================
