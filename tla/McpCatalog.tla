---------------------------- MODULE McpCatalog ----------------------------
(***************************************************************************)
(* The tools of the MCP server.  For each: what its declaration hints, the *)
(* arguments its handler insists on besides the cluster, and the requests  *)
(* it sends, in order, with what an accepted and a refused one lead to.    *)
(* Requests that follow one another and fail alike count as one, and one   *)
(* request stands for those a loop sends.  What an operation of kom does   *)
(* in detail is in the modules of its component.                           *)
(***************************************************************************)
EXTENDS FiniteSets, Sequences

\* A request: what it does, by which way, and how the handler may go on.
\* "callbacks" and "client" look the cluster up for the request, "client"
\* past the callbacks; "held" is a client that was taken once; "guarded"
\* tells when the cluster is gone; "program" is another program's business.
Do(verb)  == [verb |-> verb, way |-> "callbacks", ok |-> {"next"}, failed |-> {"error"}]
Try(verb) == [Do(verb) EXCEPT !.failed = {"next"}]                \* a failure is told or ignored
Or(verb)  == [Do(verb) EXCEPT !.ok = {"skip"}, !.failed = {"next"}] \* the next one is the fallback
First(verb) == [Do(verb) EXCEPT !.ok = {"answer"}, !.failed = {"next"}]
Tell(verb) == [Do(verb) EXCEPT !.ok = {"answer"}, !.failed = {"answer"}]
Held(step) == [step EXCEPT !.way = "held"]
Bare(step) == [step EXCEPT !.way = "client"]
Apart(step) == [step EXCEPT !.way = "program"]
Check      == [Do("check") EXCEPT !.way = "none"]

Reading(needs, plan)  == [hint |-> "readOnly", needs |-> needs, plan |-> plan]
Changing(needs, plan) == [hint |-> "destructive", needs |-> needs, plan |-> plan]
Read == Reading({}, <<Do("read")>>)
PatchAsReading == Reading({}, <<Do("patch")>>)
Patch == Changing({}, <<Do("patch")>>)

\* Clusters.  These do not ask for a cluster that is registered.
ListClusters      == Reading({}, <<>>)
RegisterCluster   == Changing({"kubeconfig"}, <<>>)
UnregisterCluster == Changing({}, <<>>)

\* Resources of any kind, events and namespaces.
GetDynamicResource         == Read
GetDynamicResourceDescribe == Read
ListDynamicResource        == Read
DeleteDynamicResource      == Changing({}, <<Do("delete")>>)
AnnotateDynamicResource    == Changing({"annotation"}, <<Check, Do("patch")>>)
LabelDynamicResource       == Changing({"label"}, <<Check, Do("patch")>>)
PatchDynamicResource       == Changing({"patch_data"}, <<Do("patch")>>)
GetResourceMetricsHistory  == Reading({"name", "kind", "metric_type"},
                                      <<Held(Try("read")), Check, Bare(Do("read"))>>)
ListEventResource == Read
ListNamespace     == Read
ApplyYaml  == Changing({"yaml"}, <<Or("read"), Tell("create"), Tell("update")>>)
DeleteYaml == Changing({"yaml"}, <<Tell("delete")>>)

\* Deployments and daemon sets.
ScaleDeployment         == Patch
RestartDeployment       == Patch
StopDeployment          == Changing({}, <<Do("read"), Do("patch")>>)
RestoreDeployment       == Changing({}, <<Do("read"), Do("patch")>>)
UpdateTagDeployment     == Changing({}, <<Do("read"), Do("update")>>)
RolloutHistoryDeployment == Read
RolloutUndoDeployment   == Changing({}, <<Do("read"), Do("update")>>)
RolloutPauseDeployment  == Patch
RolloutResumeDeployment == Patch
RolloutStatusDeployment == Read
HPAListDeployment       == Read
RestartDaemonSet        == Patch

\* Nodes.  The usage of addresses and pods is zero when it cannot be read.
TaintNode   == Changing({}, <<Check, Do("read"), Do("patch")>>)
UnTaintNode == Changing({}, <<Check, Do("read"), Do("patch")>>)
CordonNode   == Patch
UnCordonNode == Patch
DrainNodeGoesOn == Changing({}, <<Do("patch"), Do("read"), Bare(Try("evict")), Do("read")>>)
DrainNode == Changing({}, <<Do("patch"), Do("read"), Bare(Do("evict")), Do("read")>>)
NodeResourceUsage == Read
NodeIPUsage  == Reading({}, <<Try("read")>>)
NodePodCount == Reading({}, <<Try("read")>>)
ListNode == Read
TopNode  == Read
GetNodeSystemLogs == Reading({"node_name", "service"},
    <<Held(First("read")), Held(First("read")), Held(Do("read"))>>)
GetNodeDmesgOOM == Reading({"node_name"},
    <<Held(First("read")), Held(First("read")), Held(Do("read"))>>)

\* Classes.  "classes" lists them and decides which are patched to what.
SetDefaultStorageClass == Changing({}, <<Do("classes"), Do("default")>>)
SetDefaultIngressClass == Changing({}, <<Do("classes"), Do("default")>>)
GetStorageClassPVCCount == Read
GetStorageClassPVCount  == Read
DiagnoseCSIDriver == Reading({"pvc_name"}, <<Held(Do("read")), Held(Try("read"))>>)

\* Pods.  "look" runs a command that only reads, "run" one that may change.
ListPod         == Read
DescribePod     == Read
TopPod          == Read
GetPodLogs      == Read
GetPodResourceUsage == Read
GetPodLinkedService == Read
GetPodLinkedIngress == Read
GetPodLinkedEndpoints == Read
GetPodLinkedPVC == Read
GetPodLinkedPV  == Read
GetPodLinkedEnv == Reading({}, <<Do("read"), Do("look")>>)
GetPodLinkedEnvFromPodYaml == Read
DeletePod       == Changing({}, <<Do("delete")>>)
ListPodFiles    == Reading({"path"}, <<Do("look")>>)
ListAllPodFiles == Reading({"path"}, <<Do("look")>>)
DeletePodFile   == Changing({"path"}, <<Do("run")>>)
UploadPodFile   == Changing({}, <<Do("run")>>)
Exec            == Changing({}, <<Do("run")>>)
\* A name that is asked for goes into the command line of a shell.
TestPodDNSResolve == Reading({"domain"},
    <<[First("run") EXCEPT !.failed = {"next", "skip"}], First("run"), Try("look"),
      Held(Or("read")), Held(Try("read"))>>)
\* curl in the pod; where it cannot run, a pod of its own that is made,
\* watched, read and, however the call ends, deleted.
DiagnosePodNetwork == Changing({"target", "port"},
    <<[First("run") EXCEPT !.failed = {"answer", "next"}], Held(Do("make")),
      Held([Do("poll") EXCEPT !.failed = {"again", "answer"}]),
      Held(Do("read"))>>)

\* kubectl: the command is checked, a kubeconfig is written, the program runs.
Kubectl == Changing({"args"}, <<Check, [Do("tempfile") EXCEPT !.way = "guarded"], Apart(Do("read"))>>)

\* ALB.  Every list asks for version v1, then for v2beta1.
ListALB2Resources == Reading({}, <<Or("read"), Do("read")>>)
ListALB2RoutingRules == Reading({"alb2_name"}, <<Or("read"), Do("read"), Try("read")>>)
DiagnoseALB2RuleConflict == Reading({"frontend_name or rule"}, <<Or("read"), Do("read"), Check>>)
FindALB2ResourcesByService == Reading({"service_name"},
    <<Or("read"), Try("read"), Or("read"), Try("read")>>)
GetALB2ControllerLogs == Reading({"alb2_name"},
    <<[Try("read") EXCEPT !.ok = {"next", "last"}], [Try("read") EXCEPT !.ok = {"next", "last"}],
      [Tell("read") EXCEPT !.ok = {"next", "answer"}], Try("read")>>)
\* What the server has registered.
Tools == [
    ListClusters |-> ListClusters, RegisterCluster |-> RegisterCluster,
    UnregisterCluster |-> UnregisterCluster, GetDynamicResource |-> GetDynamicResource,
    GetDynamicResourceDescribe |-> GetDynamicResourceDescribe,
    ListDynamicResource |-> ListDynamicResource,
    DeleteDynamicResource |-> DeleteDynamicResource,
    AnnotateDynamicResource |-> AnnotateDynamicResource,
    LabelDynamicResource |-> LabelDynamicResource,
    PatchDynamicResource |-> PatchDynamicResource,
    GetResourceMetricsHistory |-> GetResourceMetricsHistory,
    ListEventResource |-> ListEventResource, ListNamespace |-> ListNamespace,
    ApplyYaml |-> ApplyYaml, DeleteYaml |-> DeleteYaml, ScaleDeployment |-> ScaleDeployment,
    RestartDeployment |-> RestartDeployment, StopDeployment |-> StopDeployment,
    RestoreDeployment |-> RestoreDeployment, UpdateTagDeployment |-> UpdateTagDeployment,
    RolloutHistoryDeployment |-> RolloutHistoryDeployment,
    RolloutUndoDeployment |-> RolloutUndoDeployment,
    RolloutPauseDeployment |-> RolloutPauseDeployment,
    RolloutResumeDeployment |-> RolloutResumeDeployment,
    RolloutStatusDeployment |-> RolloutStatusDeployment,
    HPAListDeployment |-> HPAListDeployment, RestartDaemonSet |-> RestartDaemonSet,
    TaintNode |-> TaintNode, UnTaintNode |-> UnTaintNode, CordonNode |-> CordonNode,
    UnCordonNode |-> UnCordonNode, DrainNode |-> DrainNode,
    NodeResourceUsage |-> NodeResourceUsage, NodeIPUsage |-> NodeIPUsage,
    NodePodCount |-> NodePodCount, ListNode |-> ListNode, TopNode |-> TopNode,
    GetNodeSystemLogs |-> GetNodeSystemLogs, GetNodeDmesgOOM |-> GetNodeDmesgOOM,
    SetDefaultStorageClass |-> SetDefaultStorageClass,
    SetDefaultIngressClass |-> SetDefaultIngressClass,
    GetStorageClassPVCCount |-> GetStorageClassPVCCount,
    GetStorageClassPVCount |-> GetStorageClassPVCount, DiagnoseCSIDriver |-> DiagnoseCSIDriver,
    ListPod |-> ListPod, DescribePod |-> DescribePod, TopPod |-> TopPod,
    GetPodLogs |-> GetPodLogs, GetPodResourceUsage |-> GetPodResourceUsage,
    GetPodLinkedService |-> GetPodLinkedService, GetPodLinkedIngress |-> GetPodLinkedIngress,
    GetPodLinkedEndpoints |-> GetPodLinkedEndpoints, GetPodLinkedPVC |-> GetPodLinkedPVC,
    GetPodLinkedPV |-> GetPodLinkedPV, GetPodLinkedEnv |-> GetPodLinkedEnv,
    GetPodLinkedEnvFromPodYaml |-> GetPodLinkedEnvFromPodYaml, DeletePod |-> DeletePod,
    ListPodFiles |-> ListPodFiles, ListAllPodFiles |-> ListAllPodFiles,
    DeletePodFile |-> DeletePodFile, UploadPodFile |-> UploadPodFile, Exec |-> Exec,
    TestPodDNSResolve |-> TestPodDNSResolve, DiagnosePodNetwork |-> DiagnosePodNetwork,
    Kubectl |-> Kubectl, ListALB2Resources |-> ListALB2Resources,
    ListALB2RoutingRules |-> ListALB2RoutingRules,
    DiagnoseALB2RuleConflict |-> DiagnoseALB2RuleConflict,
    FindALB2ResourcesByService |-> FindALB2ResourcesByService,
    GetALB2ControllerLogs |-> GetALB2ControllerLogs]
=============================================================================
