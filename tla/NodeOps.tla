------------------------------- MODULE NodeOps -------------------------------
(***************************************************************************)
(* The operations of kom/ctl_node.go that change a node, or what runs on   *)
(* it: Cordon, UnCordon, Taint, UnTaint, Drain, CreateNodeShell and        *)
(* CreateKubectlShell, called by goroutines on one node, while the         *)
(* scheduler, the kubelet and the owners of the pods go on with theirs.    *)
(*                                                                         *)
(* Every call of the API server is a step of its own; it may fail, and a   *)
(* write that was made may be answered with an error.                      *)
(***************************************************************************)
EXTENDS FiniteSets

CONSTANTS
    Ops,      \* goroutines that make one call each
    Pods,     \* names of pods, other than the shells
    Keys,     \* keys of taints
    Effects,  \* effects of taints
    Calls     \* which calls the goroutines may make

Taints == Keys \X Effects

Request ==
    [op : {"cordon", "uncordon", "drain", "nodeShell", "kubectlShell"}]
    \cup [op : {"taint"}, taint : Taints]
    \cup [op : {"untaint"}, key : Keys]

ASSUME CallsAssumption == Calls \subseteq [Ops -> Request]

VARIABLES
    req,            \* req[c]: the call of c
    pc,             \* pc[c]: its next step, or how it ended
    seen,           \* seen[c]: the taints Taint or UnTaint has read
    left,           \* left[c]: the pods Drain has listed and still has to evict
    shell,          \* shell[c]: the pod that a shell call has created
    unschedulable,  \* API server: spec.unschedulable of the node
    taints,         \* API server: spec.taints of the node
    spec,           \* API server: what kind of pod each is, in which namespace
    pod,            \* API server: where each pod is in its life
    arrived,        \* history: pods bound to the node after c's last list
    met             \* history: taint calls that overlapped another one

node == <<unschedulable, taints>>

nodeVars == <<req, pc, seen, left, shell, node, spec, pod, arrived, met>>

\* Pods of a DaemonSet and mirror pods are the ones Drain leaves alone.
PodKinds == [ns : {"default", "other"}, ignored : BOOLEAN]

Ignored(p) == spec[p].ignored

PodStates == {"none", "bound", "running", "terminating"}

OnNode(p) == pod[p] \in {"running", "terminating"}

NodeSteps == {"idle", "cordon", "list", "evict", "poll", "evictAgain", "get",
          "patch", "apply", "wait", "ok", "err"}

Ended(c) == pc[c] \in {"ok", "err"}

\* A drain that has asked for the pods of the node.
HasListed(c) == req[c].op = "drain" /\ pc[c] \in {"evict", "poll", "evictAgain", "ok"}

IsTaintOp(c) == req[c].op \in {"taint", "untaint"}

NodeInit ==
    /\ req \in Calls
    /\ pc = [c \in Ops |-> "idle"]
    /\ seen = [c \in Ops |-> {}]
    /\ left = [c \in Ops |-> {}]
    /\ shell = [c \in Ops |-> "none"]
    /\ unschedulable = FALSE
    /\ taints \in SUBSET Taints
    /\ spec \in [Pods -> PodKinds]
    /\ pod = [p \in Pods |-> "none"]
    /\ arrived = [c \in Ops |-> {}]
    /\ met = {}

Goto(c, step) == pc' = [pc EXCEPT ![c] = step]

-----------------------------------------------------------------------------

Begin(c) ==
    LET others == {d \in Ops : IsTaintOp(d) /\ pc[d] \in {"get", "patch"}} IN
    /\ pc[c] = "idle"
    /\ Goto(c, CASE req[c].op \in {"cordon", "uncordon", "drain"} -> "cordon"
                 [] IsTaintOp(c) -> "get"
                 [] req[c].op \in {"nodeShell", "kubectlShell"} -> "apply")
    /\ met' = IF IsTaintOp(c) /\ others # {} THEN met \cup others \cup {c} ELSE met
    /\ UNCHANGED <<req, seen, left, shell, node, spec, pod, arrived>>

\* Mutant: Cordon and UnCordon both write the value they toggle.
CordonToggles(c) ==
    /\ pc[c] = "cordon"
    /\ unschedulable' = ~unschedulable
    /\ Goto(c, IF req[c].op = "drain" THEN "list" ELSE "ok")
    /\ UNCHANGED <<req, seen, left, shell, taints, spec, pod, arrived, met>>

\* Cordon and UnCordon: one patch.  Drain cordons first, and goes on.
Cordon(c) ==
    /\ pc[c] = "cordon"
    /\ unschedulable' \in {unschedulable, req[c].op # "uncordon"}
    /\ \/ Goto(c, "err")
       \/ /\ unschedulable' = (req[c].op # "uncordon")
          /\ Goto(c, IF req[c].op = "drain" THEN "list" ELSE "ok")
    /\ UNCHANGED <<req, seen, left, shell, taints, spec, pod, arrived, met>>

-----------------------------------------------------------------------------
(* Taint and UnTaint *)

GetTaints(c) ==
    /\ pc[c] = "get"
    /\ \/ /\ Goto(c, "err")
          /\ UNCHANGED seen
       \/ /\ req[c].op = "untaint" /\ taints = {}
          /\ Goto(c, "err")
          /\ UNCHANGED seen
       \/ /\ req[c].op = "untaint" => taints # {}
          /\ seen' = [seen EXCEPT ![c] = taints]
          /\ Goto(c, "patch")
    /\ UNCHANGED <<req, left, shell, node, spec, pod, arrived, met>>

\* Mutants: the taint that is added replaces the list; the list that is
\* written has the keys alone.
OnlyNewTaint(c) ==
    IF req[c].op = "taint" THEN {req[c].taint}
    ELSE {t \in seen[c] : t[1] # req[c].key}

OnlyKeys(c) ==
    IF req[c].op = "taint" THEN {t[1] : t \in seen[c] \cup {req[c].taint}}
    ELSE {t[1] : t \in seen[c]} \ {req[c].key}

\* The list a call writes: UnTaint drops every taint of the key, whatever the
\* value and effect it was given.
NewTaints(c) ==
    IF req[c].op = "taint" THEN seen[c] \cup {req[c].taint}
    ELSE {t \in seen[c] : t[1] # req[c].key}

\* The patch replaces the whole list by what was read, changed; the API
\* server rejects one with the same taint twice.
PatchTaints(c) ==
    LET twice == req[c].op = "taint" /\ req[c].taint \in seen[c] IN
    /\ pc[c] = "patch"
    /\ taints' \in IF twice THEN {taints} ELSE {taints, NewTaints(c)}
    /\ \/ Goto(c, "err")
       \/ ~twice /\ taints' = NewTaints(c) /\ Goto(c, "ok")
    /\ seen' = [seen EXCEPT ![c] = {}]
    /\ UNCHANGED <<req, left, shell, unschedulable, spec, pod, arrived, met>>

-----------------------------------------------------------------------------
(* Drain *)

\* The query for the pods of the node names no namespace, so List asks for
\* those of the default one.
Listed == {p \in Pods : OnNode(p) /\ spec[p].ns = "default"}

\* Mutant: the function that is polled does not skip the ignored pods.
ListPodsOfAnyKind(c) ==
    /\ pc[c] \in {"list", "poll"}
    /\ left' = [left EXCEPT ![c] =
                   IF pc[c] = "list" THEN {p \in Listed : ~Ignored(p)} ELSE Listed]
    /\ arrived' = [arrived EXCEPT ![c] = {}]
    /\ Goto(c, IF pc[c] = "list" THEN "evict" ELSE "evictAgain")
    /\ UNCHANGED <<req, seen, shell, node, spec, pod, met>>

\* The first list, and the one in the function that is polled.
ListPods(c) ==
    /\ pc[c] \in {"list", "poll"}
    /\ \/ /\ Goto(c, "err")
          /\ UNCHANGED <<left, arrived>>
       \/ /\ left' = [left EXCEPT ![c] = {p \in Listed : ~Ignored(p)}]
          /\ arrived' = [arrived EXCEPT ![c] = {}]
          /\ Goto(c, IF pc[c] = "list" THEN "evict" ELSE "evictAgain")
    /\ UNCHANGED <<req, seen, shell, node, spec, pod, met>>

\* Mutants: only the first of the pods is evicted; the poll waits until the
\* pods are gone.
EvictFirst(c) ==
    /\ pc[c] \in {"evict", "evictAgain"}
    /\ IF left[c] = {} THEN UNCHANGED pod
       ELSE \E p \in left[c] : OnNode(p) /\ pod' = [pod EXCEPT ![p] = "terminating"]
    /\ left' = [left EXCEPT ![c] = {}]
    /\ Goto(c, IF pc[c] = "evict" THEN "poll" ELSE "ok")
    /\ UNCHANGED <<req, seen, shell, node, spec, arrived, met>>

EvictUntilGone(c) ==
    /\ pc[c] \in {"evict", "evictAgain"}
    /\ pod' = [p \in Pods |-> IF p \in left[c] /\ OnNode(p) THEN "terminating" ELSE pod[p]]
    /\ left' = [left EXCEPT ![c] = {}]
    /\ Goto(c, IF left[c] = {} THEN "ok" ELSE "poll")
    /\ UNCHANGED <<req, seen, shell, node, spec, arrived, met>>

\* One eviction.  That of a pod which is gone is answered with "not found",
\* that of a protected one (or any other) with an error; both end the drain.
\* When all are done the function that is polled returns true, and no further
\* list tells whether the pods are gone.
Evict(c) ==
    /\ pc[c] \in {"evict", "evictAgain"}
    /\ \/ \E p \in left[c] :
             /\ pod' \in {pod, [pod EXCEPT ![p] = IF @ = "none" THEN @ ELSE "terminating"]}
             /\ \/ Goto(c, "err") /\ left' = [left EXCEPT ![c] = {}]
                \/ /\ pod'[p] = "terminating"
                   /\ left' = [left EXCEPT ![c] = @ \ {p}]
                   /\ UNCHANGED pc
       \/ /\ left[c] = {}
          /\ Goto(c, IF pc[c] = "evict" THEN "poll" ELSE "ok")
          /\ UNCHANGED <<left, pod>>
    /\ UNCHANGED <<req, seen, shell, node, spec, arrived, met>>

-----------------------------------------------------------------------------
(* CreateNodeShell, CreateKubectlShell *)

\* Apply creates a pod of a random name in kube-system, on this node by name.
\* Anything but "created" in its answer ends the call.
ApplyShell(c) ==
    /\ pc[c] = "apply"
    /\ shell' \in {shell, [shell EXCEPT ![c] = "created"]}
    /\ \/ Goto(c, "err")
       \/ shell'[c] = "created" /\ Goto(c, "wait")
    /\ UNCHANGED <<req, seen, left, node, spec, pod, arrived, met>>

\* A privileged pod that enters the node, and one with kubectl, for which an
\* init container writes the kubeconfig.
CreateNodeShell(c) == req[c].op = "nodeShell" /\ ApplyShell(c)

CreateKubectlShell(c) == req[c].op = "kubectlShell" /\ ApplyShell(c)

\* waitPodReady asks once a second; errors and a pod that is not ready are
\* asked again.
SeeReady(c) ==
    /\ pc[c] = "wait"
    /\ shell[c] = "ready"
    /\ Goto(c, "ok")
    /\ UNCHANGED <<req, seen, left, shell, node, spec, pod, arrived, met>>

\* The pod stays when the wait is over.
TimeOut(c) ==
    /\ pc[c] = "wait"
    /\ Goto(c, "err")
    /\ UNCHANGED <<req, seen, left, shell, node, spec, pod, arrived, met>>

-----------------------------------------------------------------------------
(* The cluster around *)

\* The scheduler picks the node for a pod, by what it knows of the node; pods
\* of a DaemonSet tolerate that it is unschedulable, mirror pods do not ask.
Schedule(p) ==
    /\ pod[p] = "none"
    /\ unschedulable => Ignored(p)
    /\ pod' = [pod EXCEPT ![p] = "bound"]
    /\ UNCHANGED <<req, pc, seen, left, shell, node, spec, arrived, met>>

\* The binding arrives later, whatever has become of the node.
Bind(p) ==
    /\ pod[p] = "bound"
    /\ pod' = [pod EXCEPT ![p] = "running"]
    /\ arrived' = [c \in Ops |-> IF HasListed(c) THEN arrived[c] \cup {p} ELSE {}]
    /\ UNCHANGED <<req, pc, seen, left, shell, node, spec, met>>

\* Somebody else deletes the pod.
DeletePod(p) ==
    /\ pod[p] = "running"
    /\ pod' = [pod EXCEPT ![p] = "terminating"]
    /\ UNCHANGED <<req, pc, seen, left, shell, node, spec, arrived, met>>

\* The kubelet has stopped it.  Its owner may create one of the same name.
Vanish(p) ==
    /\ pod[p] = "terminating"
    /\ pod' = [pod EXCEPT ![p] = "none"]
    /\ UNCHANGED <<req, pc, seen, left, shell, node, spec, arrived, met>>

BecomeReady(c) ==
    /\ shell[c] = "created"
    /\ shell' = [shell EXCEPT ![c] = "ready"]
    /\ UNCHANGED <<req, pc, seen, left, node, spec, pod, arrived, met>>

-----------------------------------------------------------------------------

Run(c) ==
    \/ Cordon(c)
    \/ GetTaints(c) \/ PatchTaints(c)
    \/ ListPods(c) \/ Evict(c)
    \/ CreateNodeShell(c) \/ CreateKubectlShell(c) \/ SeeReady(c) \/ TimeOut(c)

Cluster ==
    \/ \E p \in Pods : Schedule(p) \/ Bind(p) \/ DeletePod(p) \/ Vanish(p)
    \/ \E c \in Ops : BecomeReady(c)

NodeNext == Cluster \/ \E c \in Ops : Begin(c) \/ Run(c)

NodeSpec == NodeInit /\ [][NodeNext]_nodeVars

\* A call that has begun goes on: the API server answers, timers fire.
Fairness == \A c \in Ops : WF_nodeVars(Run(c))

FairNodeSpec == NodeSpec /\ Fairness

-----------------------------------------------------------------------------
(* Properties *)

\* Type invariant: the calls and the node.
NodeTypeOK ==
    /\ req \in Calls
    /\ pc \in [Ops -> NodeSteps]
    /\ seen \in [Ops -> SUBSET Taints]
    /\ left \in [Ops -> SUBSET Pods]
    /\ shell \in [Ops -> {"none", "created", "ready"}]
    /\ unschedulable \in BOOLEAN
    /\ taints \in SUBSET Taints
    /\ spec \in [Pods -> PodKinds]
    /\ pod \in [Pods -> PodStates]
    /\ arrived \in [Ops -> SUBSET Pods]
    /\ met \in SUBSET Ops

\* When Drain returns without error, a pod of the default namespace that still
\* runs on the node, and is none to be ignored, was bound to it after Drain's
\* last look - whoever schedules, deletes, drains or uncordons meanwhile.
DrainLeavesOnlyNewcomers ==
    \A c \in Ops :
        req[c].op = "drain" /\ pc[c] = "ok" =>
            \A p \in Pods \ arrived[c] :
                ~(pod[p] = "running" /\ spec[p].ns = "default" /\ ~Ignored(p))

\* What happens to pods of DaemonSets and to mirror pods is no call's doing, at
\* no point of any drain.
DrainSparesIgnored ==
    [][pc' # pc \/ left' # left =>
          \A p \in Pods : Ignored(p) => pod'[p] = pod[p]]_nodeVars

\* A node is drained with the door closed: a newcomer was scheduled before the
\* cordon, or somebody has uncordoned the node since.  Stated for drains that
\* are alone with the scheduler.
DrainedStaysCordoned ==
    \A c \in Ops :
        /\ req[c].op = "drain" /\ pc[c] \notin {"idle", "cordon", "err"}
        /\ \A d \in Ops : req[d].op = "uncordon" => pc[d] = "idle"
        => unschedulable

\* A taint disappears because an UnTaint of its key is made, and appears
\* because a Taint of it is made - or because two such calls overlap, one of
\* which writes back what it read before the other wrote.
TaintsChangeForAReason ==
    [][\A t \in Taints :
          (t \in taints) # (t \in taints') =>
              \E c \in Ops :
                  /\ pc[c] = "patch" /\ Ended(c)'
                  /\ \/ c \in met
                     \/ req[c].op = "taint" /\ req[c].taint = t /\ t \in taints'
                     \/ req[c].op = "untaint" /\ req[c].key = t[1] /\ t \in taints]_nodeVars

\* Every call ends, also when nothing on the node ever becomes ready or goes
\* away: Drain waits for no pod, and the wait for a shell times out.
CallsEnd == \A c \in Ops : pc[c] # "idle" ~> Ended(c)

\* What a drain promises: an empty node behind a closed door.
DrainKeepsItsWord ==
    /\ DrainLeavesOnlyNewcomers
    /\ DrainedStaysCordoned
=============================================================================
