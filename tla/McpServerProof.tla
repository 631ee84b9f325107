--------------------------- MODULE McpServerProof ---------------------------
(***************************************************************************)
(* The safety of McpServer, for any sessions, ids, servers, classes, pods, *)
(* start-ups and choice of tools, and for every tool of the catalog.       *)
(*                                                                         *)
(* The catalog is finite, but the steps of a call should not be proved for *)
(* each of its seventy tools.  So the first part shows what the plans have *)
(* in common (Ordinary) and the few that differ; the rest knows of a       *)
(* request only that it is Lawful.                                         *)
(***************************************************************************)
EXTENDS McpServer, FiniteSetTheorems, TLAPS

Ways == {"next", "skip", "last", "again", "answer", "error"}

Requests == [verb : Writes \cup {"check", "read", "look", "poll", "classes", "tempfile"},
             way : {"callbacks", "client", "held", "guarded", "none", "program"},
             ok : SUBSET Ways, failed : SUBSET Ways]

-----------------------------------------------------------------------------
(* The catalog *)

\* A request that changes nothing.
Harmless(r) ==
    /\ r \in Requests
    /\ r.verb \in {"check", "read", "look"} /\ r.way \notin {"guarded", "program"}
    /\ "again" \notin r.ok \cup r.failed

\* A change that the callbacks may deny, and that ends the call when refused.
Change(r) ==
    /\ r \in Requests
    /\ r.verb \in {"patch", "update", "delete"} /\ r.way = "callbacks"
    /\ "again" \notin r.ok /\ r.failed = {"error"}

Ordinary(tool) ==
    /\ tool.plan \in Seq(Requests) /\ tool.plan # <<>>
    /\ \A n \in DOMAIN tool.plan :
           \/ Harmless(tool.plan[n])
           \/ Change(tool.plan[n]) /\ tool.hint = "destructive"

\* The shapes a harmless request has, and what may be changed in it.
LEMMA HarmlessRequests ==
    /\ \A verb \in {"check", "read", "look"} :
           /\ Harmless(Do(verb)) /\ Harmless(Try(verb)) /\ Harmless(Or(verb))
           /\ Harmless(First(verb)) /\ Harmless(Tell(verb))
    /\ \A r : Harmless(r) => Harmless(Held(r)) /\ Harmless(Bare(r))
    /\ \A r : Harmless(r) =>
           \A how \in SUBSET (Ways \ {"again"}) :
               Harmless([r EXCEPT !.ok = how]) /\ Harmless([r EXCEPT !.failed = how])
    /\ Harmless(Check)
<1>1. ASSUME NEW verb \in {"check", "read", "look"}
      PROVE  /\ Harmless(Do(verb)) /\ Harmless(Try(verb)) /\ Harmless(Or(verb))
             /\ Harmless(First(verb)) /\ Harmless(Tell(verb))
  <2>1. Harmless(Do(verb)) /\ Harmless(Try(verb))
    BY DEF Harmless, Requests, Ways, Do, Try
  <2>2. Harmless(Or(verb)) /\ Harmless(First(verb)) /\ Harmless(Tell(verb))
    BY DEF Harmless, Requests, Ways, Do, Or, First, Tell
  <2> QED
    BY <2>1, <2>2
<1>2. \A r : Harmless(r) => Harmless(Held(r)) /\ Harmless(Bare(r))
  BY DEF Harmless, Requests, Held, Bare
<1>3. \A r : Harmless(r) =>
          \A how \in SUBSET (Ways \ {"again"}) :
              Harmless([r EXCEPT !.ok = how]) /\ Harmless([r EXCEPT !.failed = how])
  BY DEF Harmless, Requests
<1>4. Harmless(Check)
  BY DEF Harmless, Requests, Ways, Do, Check
<1> QED
  BY <1>1, <1>2, <1>3, <1>4

LEMMA ChangingRequests ==
    \A verb \in {"patch", "update", "delete"} : Change(Do(verb))
BY DEF Change, Requests, Writes, Ways, Do

\* Tools of up to five harmless requests, and those with a change at the end.
LEMMA ReadingTools ==
    ASSUME NEW needs, NEW a, NEW b, NEW c, NEW d, NEW e,
           Harmless(a), Harmless(b), Harmless(c), Harmless(d), Harmless(e)
    PROVE  /\ Ordinary(Reading(needs, <<a>>)) /\ Ordinary(Reading(needs, <<a, b>>))
           /\ Ordinary(Reading(needs, <<a, b, c>>))
           /\ Ordinary(Reading(needs, <<a, b, c, d>>))
           /\ Ordinary(Reading(needs, <<a, b, c, d, e>>))
BY DEF Ordinary, Harmless, Reading, Changing

LEMMA ChangingTools ==
    ASSUME NEW needs, NEW a, NEW b, NEW c, Harmless(a), Harmless(b), Change(c)
    PROVE  /\ Ordinary(Changing(needs, <<c>>))
           /\ Ordinary(Changing(needs, <<a, c>>))
           /\ Ordinary(Changing(needs, <<a, b, c>>))
BY DEF Ordinary, Harmless, Change, Changing

\* The tools whose plans are none of these.
Special ==
    {"ApplyYaml", "DeletePodFile", "DeleteYaml", "DiagnosePodNetwork",
        "DrainNode", "Exec", "Kubectl", "SetDefaultIngressClass",
        "SetDefaultStorageClass", "TestPodDNSResolve", "UploadPodFile"}

\* All tools but eleven are ordinary.
LEMMA OrdinaryTools ==
    \A t \in DOMAIN Tools \ (RegistryTools \cup Special) : Ordinary(Tools[t])
<1> DEFINE read == {"GetDynamicResource", "GetDynamicResourceDescribe",
             "ListDynamicResource", "ListEventResource", "ListNamespace",
             "RolloutHistoryDeployment", "RolloutStatusDeployment", "HPAListDeployment",
             "NodeResourceUsage", "ListNode", "TopNode", "GetStorageClassPVCCount",
             "GetStorageClassPVCount", "ListPod", "DescribePod", "TopPod", "GetPodLogs",
             "GetPodResourceUsage", "GetPodLinkedService", "GetPodLinkedIngress",
             "GetPodLinkedEndpoints", "GetPodLinkedPVC", "GetPodLinkedPV",
             "GetPodLinkedEnvFromPodYaml"}
           patch == {"ScaleDeployment", "RestartDeployment", "RolloutPauseDeployment",
             "RolloutResumeDeployment", "RestartDaemonSet", "CordonNode", "UnCordonNode"}
           reading == {"GetResourceMetricsHistory", "NodeIPUsage", "NodePodCount",
             "GetNodeSystemLogs", "GetNodeDmesgOOM", "DiagnoseCSIDriver",
             "GetPodLinkedEnv", "ListPodFiles", "ListAllPodFiles",
             "ListALB2Resources", "ListALB2RoutingRules", "DiagnoseALB2RuleConflict",
             "FindALB2ResourcesByService", "GetALB2ControllerLogs"}
           changing == {"DeleteDynamicResource", "AnnotateDynamicResource",
             "LabelDynamicResource", "PatchDynamicResource", "StopDeployment",
             "RestoreDeployment", "UpdateTagDeployment", "RolloutUndoDeployment",
             "TaintNode", "UnTaintNode", "DeletePod"}
<1>1. Ordinary(Read) /\ Ordinary(Patch)
  BY HarmlessRequests, ChangingRequests, ReadingTools, ChangingTools DEF Read, Patch
<1>2. \A t \in read : Tools[t] = Read
  BY DEF Tools, GetDynamicResource, GetDynamicResourceDescribe, ListDynamicResource,
         ListEventResource, ListNamespace, RolloutHistoryDeployment, RolloutStatusDeployment,
         HPAListDeployment, NodeResourceUsage, ListNode, TopNode, GetStorageClassPVCCount,
         GetStorageClassPVCount, ListPod, DescribePod, TopPod, GetPodLogs,
         GetPodResourceUsage, GetPodLinkedService, GetPodLinkedIngress,
         GetPodLinkedEndpoints, GetPodLinkedPVC, GetPodLinkedPV, GetPodLinkedEnvFromPodYaml
<1>3. \A t \in patch : Tools[t] = Patch
  BY DEF Tools, ScaleDeployment, RestartDeployment, RolloutPauseDeployment,
         RolloutResumeDeployment, RestartDaemonSet, CordonNode, UnCordonNode
<1>4. Ordinary(GetResourceMetricsHistory)
  BY HarmlessRequests, ReadingTools DEF GetResourceMetricsHistory
<1>5. Ordinary(NodeIPUsage) /\ Ordinary(NodePodCount)
  BY HarmlessRequests, ReadingTools DEF NodeIPUsage, NodePodCount
<1>6. Ordinary(GetNodeSystemLogs)
  BY HarmlessRequests, ReadingTools DEF GetNodeSystemLogs
<1>7. Ordinary(GetNodeDmesgOOM)
  BY HarmlessRequests, ReadingTools DEF GetNodeDmesgOOM
<1>8. Ordinary(DiagnoseCSIDriver)
  BY HarmlessRequests, ReadingTools DEF DiagnoseCSIDriver
<1>9. Ordinary(GetPodLinkedEnv)
  BY HarmlessRequests, ReadingTools DEF GetPodLinkedEnv
<1>10. Ordinary(ListPodFiles) /\ Ordinary(ListAllPodFiles)
  BY HarmlessRequests, ReadingTools DEF ListPodFiles, ListAllPodFiles
<1>12. Ordinary(ListALB2Resources)
  BY HarmlessRequests, ReadingTools DEF ListALB2Resources
<1>13. Ordinary(ListALB2RoutingRules)
  BY HarmlessRequests, ReadingTools DEF ListALB2RoutingRules
<1>14. Ordinary(DiagnoseALB2RuleConflict)
  <2>1. Harmless(Or("read")) /\ Harmless(Do("read")) /\ Harmless(Check)
    BY HarmlessRequests
  <2>2. \A needs : Ordinary(Reading(needs, <<Or("read"), Do("read"), Check>>))
    BY <2>1, ReadingTools, Zenon
  <2> QED
    BY <2>2, Zenon DEF DiagnoseALB2RuleConflict
<1>15. Ordinary(FindALB2ResourcesByService)
  BY HarmlessRequests, ReadingTools DEF FindALB2ResourcesByService
<1>16. Ordinary(GetALB2ControllerLogs)
  BY HarmlessRequests, ReadingTools DEF GetALB2ControllerLogs, Ways
<1>17. Ordinary(DeleteDynamicResource) /\ Ordinary(DeletePod)
  BY HarmlessRequests, ChangingRequests, ChangingTools
     DEF DeleteDynamicResource, DeletePod
<1>18. Ordinary(AnnotateDynamicResource)
  BY HarmlessRequests, ChangingRequests, ChangingTools DEF AnnotateDynamicResource
<1>19. Ordinary(LabelDynamicResource)
  BY HarmlessRequests, ChangingRequests, ChangingTools DEF LabelDynamicResource
<1>20. Ordinary(PatchDynamicResource)
  BY HarmlessRequests, ChangingRequests, ChangingTools DEF PatchDynamicResource
<1>21. Ordinary(StopDeployment) /\ Ordinary(RestoreDeployment)
  BY HarmlessRequests, ChangingRequests, ChangingTools
     DEF StopDeployment, RestoreDeployment
<1>22. Ordinary(UpdateTagDeployment) /\ Ordinary(RolloutUndoDeployment)
  BY HarmlessRequests, ChangingRequests, ChangingTools
     DEF UpdateTagDeployment, RolloutUndoDeployment
<1>23. Ordinary(TaintNode) /\ Ordinary(UnTaintNode)
  BY HarmlessRequests, ChangingRequests, ChangingTools DEF TaintNode, UnTaintNode
<1>24. \A t \in reading : Ordinary(Tools[t])
  BY <1>4, <1>5, <1>6, <1>7, <1>8, <1>9, <1>10, <1>12, <1>13, <1>14, <1>15, <1>16
     DEF Tools
<1>25. \A t \in changing : Ordinary(Tools[t])
  BY <1>17, <1>18, <1>19, <1>20, <1>21, <1>22, <1>23 DEF Tools
<1>26. DOMAIN Tools \ (RegistryTools \cup Special) = read \cup patch \cup
      reading \cup changing
  BY DEF Tools, RegistryTools, Special
<1> QED
  BY <1>1, <1>2, <1>3, <1>24, <1>25, <1>26

\* The requests of the tools that are special.
LEMMA SpecialTools ==
    /\ \A t \in Special : Tools[t].plan \in Seq(Requests)
    /\ \A t \in Special \ {"TestPodDNSResolve"} : Tools[t].hint = "destructive"
    /\ \A t \in {"Exec", "UploadPodFile", "DeletePodFile"} : Tools[t].plan = <<Do("run")>>
    /\ Tools["DeleteYaml"].plan = <<Tell("delete")>>
    /\ Tools["ApplyYaml"].plan = <<Or("read"), Tell("create"), Tell("update")>>
    /\ Tools["DrainNode"].plan =
           <<Do("patch"), Do("read"), Bare(Do("evict")), Do("read")>>
    /\ \A t \in ClassTools : Tools[t].plan = <<Do("classes"), Do("default")>>
    /\ Tools["Kubectl"].plan =
           <<Check, [Do("tempfile") EXCEPT !.way = "guarded"], Apart(Do("read"))>>
    /\ Tools["TestPodDNSResolve"].plan =
           <<[First("run") EXCEPT !.failed = {"next", "skip"}], First("run"), Try("look"),
             Held(Or("read")), Held(Try("read"))>>
    /\ Tools["DiagnosePodNetwork"].plan =
           <<[First("run") EXCEPT !.failed = {"answer", "next"}], Held(Do("make")),
             Held([Do("poll") EXCEPT !.failed = {"again", "answer"}]), Held(Do("read"))>>
<1>1. /\ \A t \in {"Exec", "UploadPodFile", "DeletePodFile"} :
             Tools[t] \in {Changing({}, <<Do("run")>>), Changing({"path"}, <<Do("run")>>)}
      /\ Tools["DeleteYaml"] = DeleteYaml /\ Tools["ApplyYaml"] = ApplyYaml
      /\ Tools["DrainNode"] = DrainNode
      /\ \A t \in ClassTools : Tools[t] = Changing({}, <<Do("classes"), Do("default")>>)
      /\ Tools["Kubectl"] = Kubectl /\ Tools["DiagnosePodNetwork"] = DiagnosePodNetwork
      /\ Tools["TestPodDNSResolve"] = TestPodDNSResolve
  BY DEF Tools, Exec, UploadPodFile, DeletePodFile, ClassTools, SetDefaultStorageClass,
         SetDefaultIngressClass
<1>2. \A r \in Requests : \A way \in {"client", "held", "guarded", "program"} :
          [r EXCEPT !.way = way] \in Requests
  BY DEF Requests
<1>3. \A r \in Requests : \A hows \in SUBSET Ways : [r EXCEPT !.failed = hows] \in Requests
  BY DEF Requests
<1>4. /\ Check \in Requests
      /\ \A verb \in Writes \cup {"read", "look", "poll", "classes", "tempfile"} :
             Do(verb) \in Requests /\ Or(verb) \in Requests /\ Tell(verb) \in Requests
             /\ First(verb) \in Requests /\ Try(verb) \in Requests
  <2>1. Check \in Requests
    BY DEF Requests, Ways, Check, Do
  <2>2. ASSUME NEW verb \in Writes \cup {"read", "look", "poll", "classes", "tempfile"}
        PROVE  /\ Do(verb) \in Requests /\ Or(verb) \in Requests /\ Tell(verb) \in Requests
               /\ First(verb) \in Requests /\ Try(verb) \in Requests
    <3>1. Do(verb) \in Requests
      BY DEF Requests, Ways, Do
    <3>2. \A ok, failed \in SUBSET Ways :
              [Do(verb) EXCEPT !.ok = ok, !.failed = failed] \in Requests
      BY <3>1 DEF Requests
    <3>3. /\ [Do(verb) EXCEPT !.ok = {"skip"}, !.failed = {"next"}] \in Requests
          /\ [Do(verb) EXCEPT !.ok = {"answer"}, !.failed = {"answer"}] \in Requests
          /\ [Do(verb) EXCEPT !.ok = {"answer"}, !.failed = {"next"}] \in Requests
      <4>1. {"skip"} \in SUBSET Ways /\ {"next"} \in SUBSET Ways /\ {"answer"} \in SUBSET Ways
        BY DEF Ways
      <4> QED
        BY <3>2, <4>1, Zenon
    <3>a. Or(verb) \in Requests /\ Tell(verb) \in Requests /\ First(verb) \in Requests
      BY <3>3, Zenon DEF Or, Tell, First
    <3>4. Try(verb) \in Requests
      BY <1>3, <3>1 DEF Try, Ways
    <3> QED
      BY <3>1, <3>a, <3>4
  <2> QED
    BY <2>1, <2>2
<1>5. \A a, b, c, d, e \in Requests :
          /\ <<a>> \in Seq(Requests) /\ <<a, b>> \in Seq(Requests)
          /\ <<a, b, c>> \in Seq(Requests) /\ <<a, b, c, d>> \in Seq(Requests)
          /\ <<a, b, c, d, e>> \in Seq(Requests)
  OBVIOUS
<1>6. /\ <<Do("run")>> \in Seq(Requests)
      /\ <<Do("classes"), Do("default")>> \in Seq(Requests)
      /\ DeleteYaml.plan \in Seq(Requests) /\ ApplyYaml.plan \in Seq(Requests)
  BY <1>4, <1>5 DEF Writes, DeleteYaml, ApplyYaml, Changing
<1>7. DrainNode.plan \in Seq(Requests)
  <2>1. Do("patch") \in Requests /\ Do("read") \in Requests /\ Bare(Do("evict")) \in Requests
    BY <1>2, <1>4 DEF Writes, Bare
  <2> QED
    BY <1>5, <2>1 DEF DrainNode, Changing
<1>8. Kubectl.plan \in Seq(Requests)
  <2>1. [Do("tempfile") EXCEPT !.way = "guarded"] \in Requests /\ Apart(Do("read")) \in Requests
    BY <1>2, <1>4 DEF Apart
  <2> QED
    BY <1>4, <1>5, <2>1 DEF Kubectl, Changing
<1>9. DiagnosePodNetwork.plan \in Seq(Requests)
  <2>1. Do("make") \in Requests /\ Do("poll") \in Requests /\ Do("read") \in Requests
        /\ First("run") \in Requests
    BY <1>4 DEF Writes
  <2>2. /\ [First("run") EXCEPT !.failed = {"answer", "next"}] \in Requests
        /\ [Do("poll") EXCEPT !.failed = {"again", "answer"}] \in Requests
    BY <1>3, <2>1 DEF Ways
  <2>3. /\ Held(Do("make")) \in Requests /\ Held(Do("read")) \in Requests
        /\ Held([Do("poll") EXCEPT !.failed = {"again", "answer"}]) \in Requests
    BY <1>2, <2>1, <2>2 DEF Held
  <2> QED
    BY <1>5, <2>2, <2>3 DEF DiagnosePodNetwork, Changing
<1>a. TestPodDNSResolve.plan \in Seq(Requests)
  <2>1. /\ First("run") \in Requests /\ Try("look") \in Requests
        /\ Or("read") \in Requests /\ Try("read") \in Requests
    BY <1>4 DEF Writes
  <2>2. [First("run") EXCEPT !.failed = {"next", "skip"}] \in Requests
    BY <1>3, <2>1 DEF Ways
  <2>3. Held(Or("read")) \in Requests /\ Held(Try("read")) \in Requests
    BY <1>2, <2>1 DEF Held
  <2> QED
    BY <1>5, <2>1, <2>2, <2>3 DEF TestPodDNSResolve, Reading
<1>10. \A needs, plan :
           Changing(needs, plan).hint = "destructive" /\ Changing(needs, plan).plan = plan
  BY DEF Changing
<1>11. \A t \in {"Exec", "UploadPodFile", "DeletePodFile"} :
          Tools[t].hint = "destructive" /\ Tools[t].plan = <<Do("run")>>
  BY <1>1, <1>10
<1>12. \A t \in ClassTools :
          Tools[t].hint = "destructive" /\ Tools[t].plan = <<Do("classes"), Do("default")>>
  BY <1>1, <1>10
<1>13. /\ \A t \in {DeleteYaml, ApplyYaml, DrainNode, Kubectl, DiagnosePodNetwork} :
              t.hint = "destructive"
       /\ DeleteYaml.plan = <<Tell("delete")>>
       /\ ApplyYaml.plan = <<Or("read"), Tell("create"), Tell("update")>>
  BY <1>10 DEF DeleteYaml, ApplyYaml, DrainNode, Kubectl, DiagnosePodNetwork
<1>14. /\ DrainNode.plan = <<Do("patch"), Do("read"), Bare(Do("evict")), Do("read")>>
       /\ Kubectl.plan = <<Check, [Do("tempfile") EXCEPT !.way = "guarded"], Apart(Do("read"))>>
  BY <1>10 DEF DrainNode, Kubectl
<1>15. DiagnosePodNetwork.plan =
           <<[First("run") EXCEPT !.failed = {"answer", "next"}], Held(Do("make")),
             Held([Do("poll") EXCEPT !.failed = {"again", "answer"}]), Held(Do("read"))>>
  BY <1>10 DEF DiagnosePodNetwork
<1>b. TestPodDNSResolve.plan =
           <<[First("run") EXCEPT !.failed = {"next", "skip"}], First("run"), Try("look"),
             Held(Or("read")), Held(Try("read"))>>
  BY DEF TestPodDNSResolve, Reading
<1>16. ASSUME NEW t \in Special
       PROVE  /\ Tools[t].plan \in Seq(Requests)
              /\ t # "TestPodDNSResolve" => Tools[t].hint = "destructive"
  <2>1. CASE t \in {"Exec", "UploadPodFile", "DeletePodFile"} \cup ClassTools
    BY <1>6, <1>11, <1>12, <2>1
  <2>2. CASE t \in {"DeleteYaml", "ApplyYaml", "DrainNode", "Kubectl", "DiagnosePodNetwork"}
    BY <1>1, <1>6, <1>7, <1>8, <1>9, <1>13, <2>2
  <2>3. CASE t = "TestPodDNSResolve"
    BY <1>1, <1>a, <2>3
  <2> QED
    BY <2>1, <2>2, <2>3 DEF Special, ClassTools
<1> QED
  BY <1>1, <1>b, <1>11, <1>12, <1>13, <1>14, <1>15, <1>16

LEMMA SpecialHints ==
    /\ \A t \in Special : Tools[t].plan \in Seq(Requests)
    /\ \A t \in Special \ {"TestPodDNSResolve"} : Tools[t].hint = "destructive"
BY SpecialTools

\* What every request keeps to, whatever tool t sends it in its step n.
Lawful(t, n) ==
    LET r == Tools[t].plan[n] IN
    /\ r \in Requests
    /\ "again" \in r.ok \cup r.failed => r.verb = "poll"
    /\ r.verb \in Writes =>
          /\ Tools[t].hint = "destructive" \/ t = "TestPodDNSResolve"
          /\ r.failed = {"error"} \/ r.verb \in Forgiven(t)
          /\ \/ r.way = "callbacks" /\ r.verb \in {"patch", "update", "delete", "default"}
             \/ t \in {"Exec", "UploadPodFile", "DeletePodFile", "ApplyYaml", "DiagnosePodNetwork",
                         "TestPodDNSResolve"}
             \/ t = "DrainNode" /\ n = 3
    /\ r.verb = "make" => t = "DiagnosePodNetwork" /\ n = 2
    /\ r.verb = "poll" => t = "DiagnosePodNetwork" /\ n = 3
    /\ r.verb = "tempfile" \/ r.way = "guarded" => t = "Kubectl" /\ n = 2
    /\ r.way = "program" => t = "Kubectl" /\ n = 3
    /\ r.verb = "classes" => t \in ClassTools /\ n = 1
    /\ r.verb = "default" => t \in ClassTools /\ n = 2

\* What the plans of single tools are, request by request.
Singular(t, n) ==
    LET r == Tools[t].plan[n] IN
    /\ t = "DiagnosePodNetwork" =>
          \/ n = 1 /\ r.verb = "run" /\ r.ok \cup r.failed \subseteq {"answer", "next"}
          \/ /\ n = 2 /\ r.verb = "make" /\ r.way = "held"
             /\ r.ok = {"next"} /\ r.failed = {"error"}
          \/ n = 3 /\ r.verb = "poll" /\ r.way = "held"
          \/ /\ n = 4 /\ r.verb = "read" /\ r.way = "held"
             /\ r.ok \cup r.failed \subseteq {"next", "error"}
    /\ t = "Kubectl" =>
          \/ n = 1 /\ r.verb = "check"
          \/ n = 2 /\ r.verb = "tempfile" /\ r.way = "guarded"
          \/ /\ n = 3 /\ r.verb = "read" /\ r.way = "program"
             /\ r.ok \cup r.failed \subseteq {"next", "error"}
    /\ t \in ClassTools =>
          \/ n = 1 /\ r.verb = "classes" /\ r.way = "callbacks"
          \/ n = 2 /\ r.verb = "default" /\ r.way = "callbacks"
    /\ t = "DrainNode" /\ n = 1 =>
          r.verb = "patch" /\ r.way = "callbacks" /\ r.failed = {"error"}

\* A request that changes nothing and is sent the usual ways breaks no law.
LEMMA QuietRequests ==
    ASSUME NEW t, NEW n, Tools[t].plan[n] \in Requests,
           Tools[t].plan[n].verb \in {"check", "read", "look"},
           Tools[t].plan[n].way \notin {"guarded", "program"},
           "again" \notin Tools[t].plan[n].ok \cup Tools[t].plan[n].failed
    PROVE  Lawful(t, n)
BY DEF Lawful, Writes

\* Nor does one of the tools that change.
LEMMA ChangingLaw ==
    ASSUME NEW t, NEW n, Tools[t].plan[n] \in Requests,
           Tools[t].plan[n].verb \in Writes \ {"make", "default"},
           Tools[t].plan[n].way \in {"callbacks", "client"},
           "again" \notin Tools[t].plan[n].ok \cup Tools[t].plan[n].failed,
           Tools[t].hint = "destructive" \/ t = "TestPodDNSResolve",
           \/ Tools[t].plan[n].failed = {"error"}
           \/ Tools[t].plan[n].verb \in Forgiven(t),
           \/ Tools[t].plan[n].way = "callbacks"
              /\ Tools[t].plan[n].verb \in {"patch", "update", "delete"}
           \/ t \in {"Exec", "UploadPodFile", "DeletePodFile", "ApplyYaml", "DiagnosePodNetwork",
                     "TestPodDNSResolve"}
           \/ t = "DrainNode" /\ n = 3
    PROVE  Lawful(t, n)
BY DEF Lawful, Writes

\* Whatever the tool, its requests are lawful.
LEMMA TheLaw ==
    ASSUME NEW t \in DOMAIN Tools
    PROVE  /\ Tools[t].plan \in Seq(Requests)
           /\ t \notin RegistryTools => Tools[t].plan # <<>>
           /\ \A n \in DOMAIN Tools[t].plan : Lawful(t, n) /\ Singular(t, n)
<1> DEFINE p == Tools[t].plan
<1>1. CASE t \in RegistryTools
  <2>1. Tools[t].plan = <<>>
    BY <1>1 DEF RegistryTools, Tools, ListClusters, RegisterCluster, UnregisterCluster,
                Reading, Changing
  <2> QED
    BY <1>1, <2>1
<1>2. CASE t \notin RegistryTools \cup Special
  <2>1. Ordinary(Tools[t])
    BY <1>2, OrdinaryTools
  <2>2. ASSUME NEW n \in DOMAIN p PROVE Lawful(t, n) /\ Singular(t, n)
    <3>1. Singular(t, n)
      BY <1>2 DEF Singular, Special, ClassTools
    <3>2. CASE Harmless(p[n])
      BY <3>1, <3>2, QuietRequests DEF Harmless
    <3>3. CASE Change(p[n]) /\ Tools[t].hint = "destructive"
      <4>1. "again" \notin p[n].ok \cup p[n].failed /\ p[n].verb \in Writes \ {"make", "default"}
        BY <3>3 DEF Change, Writes
      <4> QED
        BY <3>1, <3>3, <4>1, ChangingLaw DEF Change
    <3> QED
      BY <2>1, <3>1, <3>2, <3>3 DEF Ordinary
  <2> QED
    BY <2>1, <2>2 DEF Ordinary
<1>3. CASE t \in {"Exec", "UploadPodFile", "DeletePodFile", "DeleteYaml"}
  <2>a. p \in Seq(Requests) /\ Tools[t].hint = "destructive"
    BY <1>3, SpecialHints DEF Special
  <2>b. t = "DeleteYaml" => p = <<Tell("delete")>>
    BY SpecialTools
  <2>c. t # "DeleteYaml" => p = <<Do("run")>>
    BY <1>3, SpecialTools
  <2>1. /\ p = <<IF t = "DeleteYaml" THEN Tell("delete") ELSE Do("run")>>
        /\ p \in Seq(Requests) /\ Tools[t].hint = "destructive"
    BY <2>a, <2>b, <2>c
  <2>2. /\ DOMAIN p = 1 .. 1 /\ p[1] \in Requests
        /\ p[1] = IF t = "DeleteYaml" THEN Tell("delete") ELSE Do("run")
    BY <2>1
  <2>3. Do("run").verb = "run" /\ Do("run").failed = {"error"} /\ Do("run").ok = {"next"}
        /\ Do("run").way = "callbacks"
    BY DEF Do
  <2>4. /\ Tell("delete").verb = "delete" /\ Tell("delete").failed = {"answer"}
        /\ Tell("delete").ok = {"answer"} /\ Tell("delete").way = "callbacks"
    BY DEF Do, Tell
  <2>5. Lawful(t, 1)
    <3>1. CASE t = "DeleteYaml"
      <4>1. Forgiven(t) = {"delete"}
        BY <3>1 DEF Forgiven
      <4> QED
        BY <2>1, <2>2, <2>4, <3>1, <4>1, ChangingLaw DEF Writes
    <3>2. CASE t # "DeleteYaml"
      BY <1>3, <2>1, <2>2, <2>3, <3>2, ChangingLaw DEF Writes
    <3> QED
      BY <3>1, <3>2
  <2>6. Singular(t, 1)
    BY <1>3 DEF Singular, ClassTools
  <2> QED
    BY <2>1, <2>2, <2>5, <2>6
<1>4. CASE t = "ApplyYaml"
  <2>a. p = <<Or("read"), Tell("create"), Tell("update")>>
    BY <1>4, SpecialTools
  <2>b. p \in Seq(Requests) /\ Tools[t].hint = "destructive"
    BY <1>4, SpecialHints DEF Special
  <2>2. DOMAIN p = 1 .. 3 /\ p[1] = Or("read") /\ p[2] = Tell("create") /\ p[3] = Tell("update")
    BY <2>a, <2>b
  <2>3. /\ p[1].verb = "read" /\ p[1].way = "callbacks"
        /\ p[1].ok = {"skip"} /\ p[1].failed = {"next"}
    BY <2>2 DEF Do, Or
  <2>4. /\ p[2].verb = "create" /\ p[3].verb = "update"
        /\ \A n \in {2, 3} :
              p[n].way = "callbacks" /\ p[n].ok = {"answer"} /\ p[n].failed = {"answer"}
    BY <2>2, ZenonT(30) DEF Do, Tell
  <2>5. Forgiven(t) = {"create", "update"}
    BY <1>4 DEF Forgiven
  <2>6. \A n \in DOMAIN p : p[n] \in Requests
    BY <2>a, <2>b
  <2>7. Lawful(t, 1)
    BY <2>2, <2>3, <2>6, QuietRequests
  <2>8. \A n \in {2, 3} : Lawful(t, n)
    BY <1>4, <2>a, <2>b, <2>2, <2>4, <2>5, <2>6, ChangingLaw DEF Writes
  <2>9. \A n \in DOMAIN p : Lawful(t, n) /\ Singular(t, n)
    BY <1>4, <2>2, <2>7, <2>8 DEF Singular, ClassTools
  <2> QED
    BY <2>a, <2>b, <2>9
<1>5. CASE t \in ClassTools
  <2>a. p = <<Do("classes"), Do("default")>>
    BY <1>5, SpecialTools
  <2>b. p \in Seq(Requests) /\ Tools[t].hint = "destructive"
    BY <1>5, SpecialHints DEF Special, ClassTools
  <2>2. DOMAIN p = 1 .. 2 /\ p[1] = Do("classes") /\ p[2] = Do("default")
    BY <2>a, <2>b
  <2>3. /\ p[1].verb = "classes" /\ p[2].verb = "default"
        /\ \A n \in {1, 2} :
              p[n].way = "callbacks" /\ p[n].ok = {"next"} /\ p[n].failed = {"error"}
    BY <2>2 DEF Do
  <2>4. p[1] \in Requests /\ p[2] \in Requests
    BY <2>a, <2>b, <2>2
  <2>5. Lawful(t, 1)
    BY <1>5, <2>3, <2>4 DEF Lawful, Writes
  <2>6. Lawful(t, 2)
    BY <1>5, <2>a, <2>b, <2>3, <2>4 DEF Lawful, Writes
  <2>7. Singular(t, 1) /\ Singular(t, 2)
    BY <1>5, <2>3 DEF Singular, ClassTools
  <2> QED
    BY <2>a, <2>b, <2>2, <2>5, <2>6, <2>7
<1>6. CASE t = "DrainNode"
  <2>a. p = <<Do("patch"), Do("read"), Bare(Do("evict")), Do("read")>>
    BY <1>6, SpecialTools
  <2>b. p \in Seq(Requests) /\ Tools[t].hint = "destructive"
    BY <1>6, SpecialHints DEF Special
  <2>2. /\ DOMAIN p = 1 .. 4 /\ p[1] = Do("patch") /\ p[2] = Do("read")
        /\ p[3] = Bare(Do("evict")) /\ p[4] = Do("read")
        /\ \A n \in DOMAIN p : p[n] \in Requests
    BY <2>a, <2>b
  <2>3. /\ p[1].verb = "patch" /\ p[1].way = "callbacks"
        /\ p[1].ok = {"next"} /\ p[1].failed = {"error"}
    BY <2>2 DEF Do
  <2>4. \A n \in {2, 4} : /\ p[n].verb = "read" /\ p[n].way = "callbacks"
                          /\ p[n].ok = {"next"} /\ p[n].failed = {"error"}
    BY <2>2 DEF Do
  <2>5. /\ p[3].verb = "evict" /\ p[3].way = "client"
        /\ p[3].ok = {"next"} /\ p[3].failed = {"error"}
    BY <2>2 DEF Do, Bare
  <2>6. Lawful(t, 1)
    BY <2>a, <2>b, <2>2, <2>3, ChangingLaw DEF Writes
  <2>7. \A n \in {2, 4} : Lawful(t, n)
    BY <2>2, <2>4, QuietRequests
  <2>8. Lawful(t, 3)
    BY <1>6, <2>a, <2>b, <2>2, <2>5, ChangingLaw DEF Writes
  <2>9. \A n \in DOMAIN p : Lawful(t, n) /\ Singular(t, n)
    BY <1>6, <2>2, <2>3, <2>6, <2>7, <2>8 DEF Singular, ClassTools
  <2> QED
    BY <2>a, <2>b, <2>9
<1>7. CASE t = "Kubectl"
  <2>a. p = <<Check, [Do("tempfile") EXCEPT !.way = "guarded"], Apart(Do("read"))>>
    BY <1>7, SpecialTools
  <2>b. p \in Seq(Requests)
    BY <1>7, SpecialHints DEF Special
  <2>2. /\ DOMAIN p = 1 .. 3
        /\ p[1] = Check /\ p[2] = [Do("tempfile") EXCEPT !.way = "guarded"]
        /\ p[3] = Apart(Do("read")) /\ \A n \in DOMAIN p : p[n] \in Requests
    BY <2>a, <2>b
  <2>3. /\ p[1].verb = "check" /\ p[1].way = "none"
        /\ p[1].ok = {"next"} /\ p[1].failed = {"error"}
    BY <2>2 DEF Do, Check
  <2>4. /\ p[2].verb = "tempfile" /\ p[2].way = "guarded"
        /\ p[2].ok = {"next"} /\ p[2].failed = {"error"}
    BY <2>2 DEF Do
  <2>5. /\ p[3].verb = "read" /\ p[3].way = "program"
        /\ p[3].ok = {"next"} /\ p[3].failed = {"error"}
    BY <2>2 DEF Do, Apart
  <2>6. Lawful(t, 1)
    BY <2>2, <2>3, QuietRequests
  <2>7. Lawful(t, 2) /\ Lawful(t, 3)
    BY <1>7, <2>2, <2>4, <2>5 DEF Lawful, Writes
  <2>8. Singular(t, 1) /\ Singular(t, 2) /\ Singular(t, 3)
    BY <1>7, <2>3, <2>4, <2>5 DEF Singular, ClassTools
  <2> QED
    BY <2>a, <2>b, <2>2, <2>6, <2>7, <2>8
<1>8. CASE t = "DiagnosePodNetwork"
  <2>a. p = <<[First("run") EXCEPT !.failed = {"answer", "next"}], Held(Do("make")),
                 Held([Do("poll") EXCEPT !.failed = {"again", "answer"}]), Held(Do("read"))>>
    BY <1>8, SpecialTools
  <2>b. p \in Seq(Requests) /\ Tools[t].hint = "destructive"
    BY <1>8, SpecialHints DEF Special
  <2>2. /\ DOMAIN p = 1 .. 4
        /\ p[1] = [First("run") EXCEPT !.failed = {"answer", "next"}]
        /\ p[2] = Held(Do("make")) /\ p[4] = Held(Do("read"))
        /\ p[3] = Held([Do("poll") EXCEPT !.failed = {"again", "answer"}])
        /\ \A n \in DOMAIN p : p[n] \in Requests
    BY <2>a, <2>b
  <2>3. /\ p[1].verb = "run" /\ p[1].way = "callbacks"
        /\ p[1].ok = {"answer"} /\ p[1].failed = {"answer", "next"}
    BY <2>2 DEF Do, First
  <2>4. p[2].verb = "make" /\ p[2].way = "held" /\ p[2].ok = {"next"} /\ p[2].failed = {"error"}
    BY <2>2 DEF Do, Held
  <2>5. p[3].verb = "poll" /\ p[3].way = "held"
    BY <2>2 DEF Do, Held
  <2>6. p[4].verb = "read" /\ p[4].way = "held" /\ p[4].ok = {"next"} /\ p[4].failed = {"error"}
    BY <2>2 DEF Do, Held
  <2>7. Lawful(t, 1)
    <3>1. "run" \in Forgiven(t)
      BY <1>8 DEF Forgiven
    <3>2. "run" \in Writes \ {"make", "default"} /\ "again" \notin p[1].ok \cup p[1].failed
      BY <2>3 DEF Writes
    <3> QED
      BY <1>8, <3>2, <2>a, <2>b, <2>2, <2>3, <3>1, ChangingLaw
  <2>8. Lawful(t, 2) /\ Lawful(t, 3)
    BY <1>8, <2>a, <2>b, <2>2, <2>4, <2>5 DEF Lawful, Writes
  <2>9. Lawful(t, 4)
    BY <2>2, <2>6, QuietRequests
  <2>10. Singular(t, 1) /\ Singular(t, 2) /\ Singular(t, 3) /\ Singular(t, 4)
    <3>1. Singular(t, 1) /\ Singular(t, 2)
      BY <1>8, <2>3, <2>4 DEF Singular, ClassTools
    <3>2. Singular(t, 3) /\ Singular(t, 4)
      BY <1>8, <2>5, <2>6 DEF Singular, ClassTools
    <3> QED
      BY <3>1, <3>2
  <2> QED
    BY <2>a, <2>b, <2>2, <2>7, <2>8, <2>9, <2>10
<1>9. CASE t = "TestPodDNSResolve"
  <2>a. p = <<[First("run") EXCEPT !.failed = {"next", "skip"}], First("run"), Try("look"),
                 Held(Or("read")), Held(Try("read"))>>
    BY <1>9, SpecialTools
  <2>b. p \in Seq(Requests)
    BY <1>9, SpecialHints DEF Special
  <2>2. /\ DOMAIN p = 1 .. 5
        /\ p[1] = [First("run") EXCEPT !.failed = {"next", "skip"}] /\ p[2] = First("run")
        /\ p[3] = Try("look") /\ p[4] = Held(Or("read")) /\ p[5] = Held(Try("read"))
        /\ \A n \in DOMAIN p : p[n] \in Requests
    BY <2>a, <2>b
  <2>3. /\ p[1].verb = "run" /\ p[1].way = "callbacks"
        /\ p[1].ok = {"answer"} /\ p[1].failed = {"next", "skip"}
    BY <2>2 DEF Do, First
  <2>4. /\ p[2].verb = "run" /\ p[2].way = "callbacks"
        /\ p[2].ok = {"answer"} /\ p[2].failed = {"next"}
    BY <2>2 DEF Do, First
  <2>5. /\ p[3].verb = "look" /\ p[3].way = "callbacks"
        /\ p[3].ok = {"next"} /\ p[3].failed = {"next"}
    BY <2>2 DEF Do, Try
  <2>6. /\ p[4].verb = "read" /\ p[4].way = "held"
        /\ p[4].ok = {"skip"} /\ p[4].failed = {"next"}
    BY <2>2 DEF Do, Or, Held
  <2>7. /\ p[5].verb = "read" /\ p[5].way = "held"
        /\ p[5].ok = {"next"} /\ p[5].failed = {"next"}
    BY <2>2 DEF Do, Try, Held
  <2>8. Lawful(t, 1) /\ Lawful(t, 2)
    <3>1. "run" \in Forgiven(t)
      BY <1>9 DEF Forgiven
    <3>2. /\ "run" \in Writes \ {"make", "default"}
          /\ "again" \notin p[1].ok \cup p[1].failed /\ "again" \notin p[2].ok \cup p[2].failed
      BY <2>3, <2>4 DEF Writes
    <3>3. p[1] \in Requests /\ p[2] \in Requests
      BY <2>2
    <3>4. Lawful(t, 1)
      BY <1>9, <2>3, <3>1, <3>2, <3>3, ChangingLaw
    <3>5. Lawful(t, 2)
      BY <1>9, <2>4, <3>1, <3>2, <3>3, ChangingLaw
    <3> QED
      BY <3>4, <3>5
  <2>9. Lawful(t, 3) /\ Lawful(t, 4) /\ Lawful(t, 5)
    <3>1. Lawful(t, 3)
      BY <2>2, <2>5, QuietRequests
    <3>2. Lawful(t, 4)
      BY <2>2, <2>6, QuietRequests
    <3>3. Lawful(t, 5)
      BY <2>2, <2>7, QuietRequests
    <3> QED
      BY <3>1, <3>2, <3>3
  <2>10. \A n \in DOMAIN p : Singular(t, n)
    BY <1>9 DEF Singular, ClassTools
  <2> QED
    BY <2>a, <2>b, <2>2, <2>8, <2>9, <2>10
<1> QED
  BY <1>1, <1>2, <1>3, <1>4, <1>5, <1>6, <1>7, <1>8, <1>9 DEF Special, ClassTools

LEMMA PlanLengths ==
    /\ \A t \in ClassTools : Len(Tools[t].plan) = 2
    /\ Len(Tools["Kubectl"].plan) = 3 /\ Len(Tools["DiagnosePodNetwork"].plan) = 4
<1>1. ASSUME NEW t \in ClassTools PROVE Len(Tools[t].plan) = 2
  <2>1. Tools[t].plan = <<Do("classes"), Do("default")>>
    BY SpecialTools
  <2> QED
    BY <2>1
<1>2. Len(Tools["Kubectl"].plan) = 3
  BY SpecialTools
<1>3. Len(Tools["DiagnosePodNetwork"].plan) = 4
  BY SpecialTools
<1> QED
  BY <1>1, <1>2, <1>3

-----------------------------------------------------------------------------
(* The inductive invariant *)

Class == Range(Classes)
Needs == UNION {Tools[t].needs : t \in DOMAIN Tools}

\* What an ID may stand for: an API server, or half an instance.
Instances == Servers \cup Builders

Call == [at : {"received", "running", "cleanup", "hanging"} \cup Registering \cup Ended,
         tool : DOMAIN Tools,
         id : IDs \cup {None}, arg : Class \cup Servers \cup {None}, given : SUBSET Needs,
         count : Nat, step : Nat, held : Instances \cup {None}, pod : PodNames \cup {None},
         polls : 0 .. MaxPolls - 1, todo : SUBSET Class, then : {"answered", "error"},
         refused : SUBSET (Writes \cup {"drop"}), since : SUBSET Instances,
         gone : BOOLEAN, alone : BOOLEAN]

World == [touched : SUBSET DOMAIN Tools, early : SUBSET DOMAIN Tools, diag : SUBSET PodNames,
          defaults : [ClassTools -> SUBSET Class]]

Typed ==
    /\ phase \in {"loading", "default", "serving", "toolless", "dead", "crashed"}
    /\ setup \in Setups
    /\ toLoad \subseteq DOMAIN setup.files
    /\ clusters \in [IDs -> Instances \cup {None}]
    /\ world \in [Servers -> World]
    /\ temps \subseteq Sessions
    /\ lost \subseteq Servers \X PodNames
    /\ calls \in [Sessions -> Call]

\* A running call is at one of its requests, to a cluster its ID has stood for,
\* half built too if its callbacks are to come yet.
Running(c) ==
    /\ c.tool \notin RegistryTools /\ c.id \in IDs
    /\ c.step \in DOMAIN Plan(c)
    /\ c.held \in c.since \cup {None}
    /\ clusters[c.id] \in c.since \cup {None}
    /\ clusters[c.id] = None => c.gone
    /\ Early(c.id) \subseteq c.since

\* The cluster a call of s builds is its own, half built and then whole, until
\* it is unregistered.
Building(s) ==
    LET c == calls[s] IN
    /\ c.tool = "RegisterCluster" /\ c.id \in IDs /\ c.pod = None
    /\ c.at = "building" => c.arg \in Servers \cup {None} /\ (clusters[c.id] = s \/ c.gone)
    /\ c.at # "building" => c.arg \in Servers /\ (clusters[c.id] = c.arg \/ c.gone)

RunningHold ==
    \A s \in Sessions :
        /\ calls[s].at = "received" =>
              /\ calls[s].step = 1 /\ calls[s].held = None /\ calls[s].pod = None
              /\ calls[s].arg \in Args(calls[s].tool)
        /\ calls[s].at = "running" => Running(calls[s])
        /\ calls[s].at \in Registering => Building(s)

\* A pod is that of one call, which is on its way to delete it.
OwnPod(c) ==
    /\ c.pod # None =>
          /\ c.tool = "DiagnosePodNetwork" /\ c.held \in Servers
          /\ c.at = "cleanup" \/ (c.at \in {"running", "hanging"} /\ c.step \in {3, 4})
    /\ c.at = "cleanup" => c.pod # None

Owns(s, a, name) == calls[s].pod = name /\ calls[s].held = a

PodsHold ==
    /\ \A s \in Sessions : OwnPod(calls[s])
    /\ \A s, r \in Sessions :
           calls[s].pod # None /\ Owns(r, calls[s].held, calls[s].pod) => s = r
    /\ \A a \in Servers, name \in PodNames :
           name \in world[a].diag <=>
               (\E s \in Sessions : Owns(s, a, name)) \/ <<a, name>> \in lost

\* A call that goes on after a change was refused, or is answered, is one that
\* may pass that over.
RefusedEnd ==
    \A s \in Sessions : calls[s].at # "error" => calls[s].refused \subseteq Forgiven(calls[s].tool)

\* A temporary file is that of a call that runs kubectl with it.
TempsHold ==
    \A s \in temps :
        calls[s].at = "running" /\ calls[s].tool = "Kubectl" /\ calls[s].step = 3

\* A drain that is denied comes no further than its first request, unless it met
\* its cluster half built.
DrainsAreDenied ==
    \A s \in Sessions : LET c == calls[s] IN
        setup.deny /\ c.at = "running" /\ c.tool = "DrainNode" /\ ~IsEarly(c) => c.step = 1

\* While classes are patched, what is left to do is what the defaults differ
\* by from the one class.
DefaultsMove ==
    \A s \in Sessions, a \in Servers :
        LET c == calls[s]
            defaults == world[a].defaults[c.tool]
        IN
        /\ c.tool \in ClassTools /\ c.arg \in Class /\ c.alone /\ ~c.gone /\ c.since = {a}
        =>
        /\ c.at = "running" /\ c.step = 2 =>
              defaults \subseteq c.todo \cup {c.arg} /\ c.arg \in c.todo \cup defaults
        /\ c.at = "answered" => defaults = {c.arg}

\* File m is the first of the files F with its ID.
FirstOf(F, m) ==
    /\ m \in F
    /\ \A k \in F : setup.files[k].id = setup.files[m].id => k = m \/ IsBefore(m, k)

\* An ID that stands for inst does so for the first of the files F with its name.
Stands(inst, F, id) ==
    \/ inst = None /\ \A m \in F : setup.files[m].id # id
    \/ \E m \in F :
          /\ FirstOf(F, m) /\ setup.files[m].id = id
          /\ inst = setup.files[m].server /\ inst # None

\* The files that have been loaded come before the others.
FilesHold ==
    LET loaded == DOMAIN setup.files \ toLoad IN
    /\ \A m \in loaded, n \in toLoad : IsBefore(m, n)
    /\ \A id \in IDs : Stands(clusters[id], loaded, id)

LoadingHolds ==
    /\ phase \in {"loading", "default"} => calls = [s \in Sessions |-> NoCall]
    /\ phase = "loading" => FilesHold
    /\ phase = "default" =>
          /\ clusters = [id \in IDs |-> None] /\ setup.files = <<>>

IInv ==
    /\ Typed /\ RunningHold /\ PodsHold /\ RefusedEnd /\ TempsHold
    /\ DrainsAreDenied /\ DefaultsMove /\ LoadingHolds
    /\ PanicsOnlyAfterRemoval /\ ReadOnlyHintsHold /\ DeniedChangesAreFew

-----------------------------------------------------------------------------
(* How a call goes on *)

\* What a call of a tool never changes of itself.
Keeps(k, c) ==
    /\ k.tool = c.tool /\ k.id = c.id /\ k.arg = c.arg
    /\ k.since = c.since /\ k.gone = c.gone /\ k.alone = c.alone

GoesOn(k) == k.at = "running" /\ k.step \in DOMAIN Plan(k)

Ends(k) ==
    \/ k.at \in {"answered", "error"} /\ k.pod = None
    \/ k.at = "cleanup" /\ k.pod # None

Hangs(k, c) == k.at = "hanging" /\ k.step = c.step

\* Ending a call, and going to a step of its plan.
LEMMA EndStep ==
    ASSUME NEW c \in Call, NEW result \in {"answered", "error"}
    PROVE  LET k == End(c, result) IN
           /\ k \in Call /\ Keeps(k, c) /\ Ends(k)
           /\ k.held = c.held /\ k.pod = c.pod /\ k.refused = c.refused
           /\ c.pod = None => k.at = result
BY DEF End, Call, Keeps, Ends, Ended

LEMMA GotoStep ==
    ASSUME NEW c \in Call, c.at = "running", NEW step \in Nat \ {0}
    PROVE  LET k == Goto(c, step) IN
           /\ k \in Call /\ Keeps(k, c)
           /\ k.held = c.held /\ k.pod = c.pod /\ k.refused = c.refused
           /\ (GoesOn(k) /\ k.step = step) \/ (Ends(k) /\ step \notin DOMAIN Plan(c))
<1>1. Plan(c) \in Seq(Requests)
  BY TheLaw DEF Call, Plan
<1>2. CASE step > Len(Plan(c))
  <2>1. Goto(c, step) = End(c, "answered")
    BY <1>2 DEF Goto
  <2>2. step \notin DOMAIN Plan(c)
    BY <1>1, <1>2
  <2> QED
    BY <2>1, <2>2, EndStep
<1>3. CASE ~(step > Len(Plan(c)))
  <2>1. Goto(c, step) = [c EXCEPT !.step = step]
    BY <1>3 DEF Goto
  <2>2. step \in DOMAIN Plan(c)
    BY <1>1, <1>3
  <2> QED
    BY <2>1, <2>2 DEF Call, Keeps, GoesOn, Plan
<1> QED
  BY <1>2, <1>3

\* What any way to go on comes to.
LEMMA ProceedStep ==
    ASSUME NEW c \in Call, GoesOn(c), NEW how \in Ways \cup {"hang"},
           how = "again" => c.polls + 1 < MaxPolls
    PROVE  LET k == Proceed(c, how) IN
           /\ k \in Call /\ Keeps(k, c) /\ (GoesOn(k) \/ Ends(k) \/ Hangs(k, c))
           /\ k.at = "hanging" => how = "hang"
           /\ k.held = c.held /\ k.pod = c.pod /\ k.refused = c.refused
           /\ GoesOn(k) => how \notin {"answer", "error"} /\ k.step >= c.step
           /\ GoesOn(k) /\ how = "next" => k.step = c.step + 1
           /\ how = "next" /\ c.step + 1 \in DOMAIN Plan(c) => GoesOn(k)
           /\ how = "again" => GoesOn(k) /\ k.step = c.step
           /\ how = "error" /\ c.pod = None => k.at = "error"
           /\ how = "answer" /\ c.pod = None => k.at = "answered"
           /\ how = "hang" => k.at = "hanging"
<1>1. Plan(c) \in Seq(Requests) /\ c.step \in 1 .. Len(Plan(c)) /\ Len(Plan(c)) \in Nat \ {0}
  <2>1. Plan(c) \in Seq(Requests)
    BY TheLaw DEF Call, Plan
  <2> QED
    BY <2>1 DEF GoesOn
<1>a. c.at = "running" /\ \A k : (Ends(k) => ~GoesOn(k)) /\ (GoesOn(k) \/ Ends(k) => k.at # "hanging")
  BY DEF GoesOn, Ends
<1>b. c.step \in Nat /\ c.step + 1 >= c.step /\ c.step + 2 >= c.step /\ Len(Plan(c)) >= c.step
  BY <1>1
<1>2. CASE how = "next"
  <2>1. Proceed(c, how) = Goto(c, c.step + 1) /\ c.step + 1 \in Nat \ {0}
    BY <1>1, <1>2 DEF Proceed
  <2> QED
    BY <1>a, <1>b, <1>2, <2>1, GotoStep
<1>3. CASE how = "skip"
  <2>1. Proceed(c, how) = Goto(c, c.step + 2) /\ c.step + 2 \in Nat \ {0}
    BY <1>1, <1>3 DEF Proceed
  <2> QED
    BY <1>a, <1>b, <1>3, <2>1, GotoStep
<1>4. CASE how = "last"
  <2>1. Proceed(c, how) = Goto(c, Len(Plan(c)))
    BY <1>4 DEF Proceed
  <2> QED
    BY <1>1, <1>a, <1>b, <1>4, <2>1, GotoStep
<1>5. CASE how = "again"
  <2>1. Proceed(c, how) = [c EXCEPT !.polls = @ + 1]
    BY <1>5 DEF Proceed
  <2>2. c.polls + 1 \in 0 .. MaxPolls - 1
    BY <1>5, MaxPollsAssumption DEF Call
  <2> QED
    BY <1>5, <2>1, <2>2 DEF Call, Keeps, GoesOn, Plan
<1>6. CASE how \in {"answer", "error"}
  <2>1. Proceed(c, how) = End(c, IF how = "answer" THEN "answered" ELSE "error")
    BY <1>6 DEF Proceed
  <2> QED
    BY <1>6, <2>1, EndStep DEF GoesOn, Ends
<1>7. CASE how = "hang"
  <2>1. Proceed(c, how) = [c EXCEPT !.at = "hanging"]
    BY <1>7 DEF Proceed
  <2> QED
    BY <1>7, <2>1 DEF Call, Keeps, GoesOn, Hangs
<1> QED
  BY <1>2, <1>3, <1>4, <1>5, <1>6, <1>7 DEF Ways

\* The request a running call is about to send, and where to.
LEMMA RequestFacts ==
    ASSUME IInv, NEW s \in Sessions, calls[s].at = "running"
    PROVE  LET c == calls[s] IN
           /\ c \in Call /\ GoesOn(c) /\ Running(c) /\ OwnPod(c)
           /\ c.tool \in DOMAIN Tools /\ c.step \in Nat
           /\ Request(s) = Tools[c.tool].plan[c.step]
           /\ Lawful(c.tool, c.step) /\ Singular(c.tool, c.step)
           /\ Target(s) \in Instances \cup {None} /\ Target(s) \in c.since \cup {None}
           /\ clusters[c.id] \in Instances \cup {None}
           /\ Unready(s) => IsEarly(c)
<1> DEFINE c == calls[s]
<1>1. c \in Call /\ Running(c) /\ OwnPod(c)
  BY DEF IInv, Typed, RunningHold, PodsHold
<1>2. /\ c.tool \in DOMAIN Tools /\ c.step \in Nat /\ c.step \in DOMAIN Tools[c.tool].plan
      /\ c.since \subseteq Instances
  BY <1>1 DEF Call, Running, Plan
<1>3. Lawful(c.tool, c.step) /\ Singular(c.tool, c.step)
  BY <1>2, TheLaw
<1>4. Target(s) \in c.since \cup {None} /\ clusters[c.id] \in c.since \cup {None}
  BY <1>1 DEF Running, Target
<1>5. Unready(s) => IsEarly(c)
  <2>1. Early(c.id) \subseteq Builders
    BY DEF Early, Builders
  <2> QED
    BY <1>1, <2>1 DEF Running, Unready, IsEarly
<1> QED
  BY <1>1, <1>2, <1>3, <1>4, <1>5 DEF Running, Request, GoesOn, Plan

\* A call after an outcome of its request.
LEMMA AfterStep ==
    ASSUME IInv, NEW s \in Sessions, calls[s].at = "running",
           NEW outcome \in {"ok", "failed", "none"},
           NEW how \in (Ways \cup {"hang"}) \ {"again"}
    PROVE  LET c == calls[s]
               k == After(s, outcome, how)
           IN
           /\ k \in Call /\ Keeps(k, c) /\ (GoesOn(k) \/ Ends(k) \/ Hangs(k, c))
           /\ k.at = "hanging" => how = "hang"
           /\ k.held = IF Request(s).way \in {"held", "guarded"} THEN Target(s) ELSE c.held
           /\ k.pod = c.pod
           /\ k.refused = IF outcome = "failed" THEN c.refused \cup ({Request(s).verb} \cap Writes)
                          ELSE c.refused
           /\ GoesOn(k) => how \notin {"answer", "error"} /\ k.step >= c.step
           /\ GoesOn(k) /\ how = "next" => k.step = c.step + 1
           /\ how = "next" /\ c.step + 1 \in DOMAIN Plan(c) => GoesOn(k)
           /\ how = "error" /\ c.pod = None => k.at = "error"
           /\ how = "answer" /\ c.pod = None => k.at = "answered"
           /\ how = "hang" => k.at = "hanging"
<1> DEFINE c == calls[s]
           held == IF Request(s).way \in {"held", "guarded"} THEN Target(s) ELSE c.held
           refused == IF outcome = "failed" THEN c.refused \cup ({Request(s).verb} \cap Writes)
                      ELSE c.refused
<1>1. c \in Call /\ GoesOn(c) /\ held \in Instances \cup {None}
      /\ refused \in SUBSET (Writes \cup {"drop"})
  BY RequestFacts DEF Call
<1>2. After(s, outcome, how) = Proceed([c EXCEPT !.held = held, !.refused = refused], how)
  BY DEF After
<1> HIDE DEF held, refused
<1> DEFINE d == [c EXCEPT !.held = held, !.refused = refused]
<1>3. /\ d \in Call /\ Keeps(d, c) /\ GoesOn(d) /\ d.step = c.step /\ d.pod = c.pod
      /\ d.held = held /\ d.refused = refused
  <2> HIDE DEF c
  <2>1. /\ d \in Call /\ d.at = c.at /\ d.tool = c.tool /\ d.id = c.id /\ d.arg = c.arg
        /\ d.since = c.since /\ d.gone = c.gone /\ d.alone = c.alone
        /\ d.step = c.step /\ d.pod = c.pod /\ d.held = held /\ d.refused = refused
    BY <1>1 DEF Call
  <2> HIDE DEF d
  <2> QED
    BY <1>1, <2>1 DEF Keeps, GoesOn, Plan
<1> HIDE DEF d
<1> DEFINE k == Proceed(d, how)
<1>4. how \in Ways \cup {"hang"} /\ how # "again"
  OBVIOUS
<1>5. /\ k \in Call /\ Keeps(k, d) /\ (GoesOn(k) \/ Ends(k) \/ Hangs(k, d))
      /\ k.at = "hanging" => how = "hang"
      /\ k.held = d.held /\ k.pod = d.pod /\ k.refused = d.refused
      /\ GoesOn(k) => how \notin {"answer", "error"} /\ k.step >= d.step
      /\ GoesOn(k) /\ how = "next" => k.step = d.step + 1
      /\ how = "next" /\ d.step + 1 \in DOMAIN Plan(d) => GoesOn(k)
      /\ how = "error" /\ d.pod = None => k.at = "error"
      /\ how = "answer" /\ d.pod = None => k.at = "answered"
      /\ how = "hang" => k.at = "hanging"
  BY <1>3, <1>4, ProceedStep
<1>6. After(s, outcome, how) = k
  BY <1>2 DEF d
<1> HIDE DEF k
<1>7. /\ Keeps(k, c) /\ k.held = held /\ k.pod = c.pod /\ k.refused = refused
      /\ GoesOn(k) => how \notin {"answer", "error"} /\ k.step >= c.step
      /\ GoesOn(k) /\ how = "next" => k.step = c.step + 1
      /\ how = "next" /\ c.step + 1 \in DOMAIN Plan(c) => GoesOn(k)
      /\ how = "error" /\ c.pod = None => k.at = "error"
      /\ how = "answer" /\ c.pod = None => k.at = "answered"
      /\ GoesOn(k) \/ Ends(k) \/ Hangs(k, c)
  BY <1>3, <1>5 DEF Keeps, Plan, Hangs
<1> QED
  BY <1>5, <1>6, <1>7 DEF held, refused

-----------------------------------------------------------------------------
(* What each action does *)

\* Only the call of s changes.
Sole(s) ==
    /\ calls' \in [Sessions -> Call]
    /\ \A r \in Sessions \ {s} : calls'[r] = calls[r]

\* The call of s goes on with its plan, comes to its end, or hangs.
Carried(s) ==
    LET c == calls[s]
        k == calls'[s]
    IN
    /\ c.at = "running" /\ Keeps(k, c) /\ (GoesOn(k) \/ Ends(k) \/ Hangs(k, c))
    /\ GoesOn(k) => k.step >= c.step
    /\ k.pod = c.pod /\ (c.pod # None => k.held = c.held)
    /\ k.held = c.held \/ k.held = Target(s)
    /\ UNCHANGED <<phase, setup, toLoad, clusters>>

LEMMA CallSet ==
    ASSUME Typed, NEW s \in Sessions, NEW k \in Call, calls' = [calls EXCEPT ![s] = k]
    PROVE  Sole(s) /\ calls'[s] = k
BY DEF Typed, Sole

\* The diagnostic pod's client is the one that was taken once.
LEMMA PodTarget ==
    ASSUME IInv, NEW s \in Sessions, calls[s].at = "running", calls[s].pod # None
    PROVE  Request(s).way = "held" /\ Target(s) = calls[s].held
<1>1. /\ calls[s].tool = "DiagnosePodNetwork" /\ calls[s].step \in {3, 4}
      /\ calls[s].held \in Servers
  BY RequestFacts DEF OwnPod
<1>2. Request(s).way = "held"
  BY <1>1, RequestFacts, SMTT(30) DEF Singular
<1> QED
  BY <1>1, <1>2, NamesAssumption DEF Target

\* The actions that leave the servers alone.
LEMMA CheckStep ==
    ASSUME IInv, NEW s \in Sessions, CheckArguments(s)
    PROVE  /\ Sole(s) /\ Carried(s) /\ calls'[s].refused = calls[s].refused
           /\ Request(s).verb = "check"
           /\ UNCHANGED <<world, temps, lost>>
<1>1. calls[s].at = "running" /\ Request(s).verb = "check"
  BY DEF CheckArguments, Sends
<1>2. PICK how \in {"next", "error"} : calls' = [calls EXCEPT ![s] = Proceed(calls[s], how)]
  BY DEF CheckArguments
<1>3. Typed /\ calls[s] \in Call /\ GoesOn(calls[s]) /\ how \in Ways /\ how # "again"
  BY <1>1, RequestFacts DEF IInv, Ways
<1> DEFINE k == Proceed(calls[s], how)
<1>4. /\ k \in Call /\ Keeps(k, calls[s]) /\ (GoesOn(k) \/ Ends(k) \/ Hangs(k, calls[s]))
      /\ k.held = calls[s].held /\ k.pod = calls[s].pod /\ k.refused = calls[s].refused
      /\ GoesOn(k) => k.step >= calls[s].step
  BY <1>3, ProceedStep
<1> HIDE DEF k
<1>5. Sole(s) /\ calls'[s] = k
  BY <1>2, <1>3, <1>4, CallSet DEF k
<1>6. UNCHANGED <<phase, setup, toLoad, clusters, world, temps, lost>>
  BY DEF CheckArguments
<1> QED
  BY <1>1, <1>4, <1>5, <1>6 DEF Carried

LEMMA PollStep ==
    ASSUME IInv, NEW s \in Sessions, PollPod(s)
    PROVE  /\ Sole(s) /\ Carried(s) /\ calls'[s].refused = calls[s].refused
           /\ Request(s).verb = "poll"
           /\ UNCHANGED <<world, temps, lost>>
<1>1. calls[s].at = "running" /\ Request(s).verb = "poll"
  BY DEF PollPod, Sends
<1>2. PICK how \in {"next", "hang", IF calls[s].polls + 1 < MaxPolls THEN "again" ELSE "answer"} :
          calls' = [calls EXCEPT ![s] = Proceed(calls[s], how)]
  BY DEF PollPod
<1>3. /\ Typed /\ calls[s] \in Call /\ GoesOn(calls[s]) /\ how \in Ways \cup {"hang"}
      /\ how = "again" => calls[s].polls + 1 < MaxPolls
  BY <1>1, RequestFacts DEF IInv, Ways
<1> DEFINE k == Proceed(calls[s], how)
<1>4. /\ k \in Call /\ Keeps(k, calls[s]) /\ (GoesOn(k) \/ Ends(k) \/ Hangs(k, calls[s]))
      /\ k.held = calls[s].held /\ k.pod = calls[s].pod /\ k.refused = calls[s].refused
      /\ GoesOn(k) => k.step >= calls[s].step
  BY <1>3, ProceedStep
<1> HIDE DEF k
<1>5. Sole(s) /\ calls'[s] = k
  BY <1>2, <1>3, <1>4, CallSet DEF k
<1>6. UNCHANGED <<phase, setup, toLoad, clusters, world, temps, lost>>
  BY DEF PollPod
<1> QED
  BY <1>1, <1>4, <1>5, <1>6 DEF Carried

\* A request that was sent leaves the plan to its outcome, and the server
\* changed only if that may be.
LEMMA SendStep ==
    ASSUME IInv, NEW s \in Sessions, SendRequest(s)
    PROVE  LET c == calls[s]
               k == calls'[s]
               verb == Request(s).verb
           IN
           /\ Sole(s) /\ Carried(s)
           /\ verb \in {"read", "look", "patch", "update", "delete", "create", "evict", "run"}
           /\ verb \in Writes => Target(s) \in Servers
           /\ \E outcome \in Outcomes(s) : \E how \in Hows(s, outcome) :
                 /\ k.refused = IF outcome = "failed" THEN c.refused \cup ({verb} \cap Writes)
                                ELSE c.refused
                 /\ GoesOn(k) => how \notin {"answer", "error"}
                 /\ how = "error" /\ c.pod = None => k.at = "error"
           /\ k.at = "hanging" => Request(s).way # "program"
           /\ world' \in {world} \cup (IF DenyAction(s) \/ verb \notin Writes THEN {} ELSE {Touch(s)})
           /\ temps' = IF k.at \in Ended THEN temps \ {s} ELSE temps
           /\ UNCHANGED lost
<1> DEFINE c == calls[s]
           verb == Request(s).verb
<1>1. /\ c.at = "running" /\ (Target(s) \in Servers \/ Request(s).way = "program")
      /\ verb \in {"read", "look", "patch", "update", "delete", "create", "evict", "run"}
  BY DEF SendRequest, Sends
<1> DEFINE Sent(outcome, how, applied) ==
             /\ calls' = [calls EXCEPT ![s] = After(s, outcome, how)]
             /\ world' = IF applied /\ verb \in Writes THEN Touch(s) ELSE world
<1>a. PICK outcome \in Outcomes(s) :
          \E how \in Hows(s, outcome), applied \in Applied(s, outcome) :
              Sent(outcome, how, applied)
  BY DEF SendRequest
<1>2. PICK how \in Hows(s, outcome), applied \in Applied(s, outcome) :
          Sent(outcome, how, applied)
  BY <1>a
<1>3. /\ UNCHANGED <<phase, setup, toLoad, clusters, lost>>
      /\ temps' = IF calls'[s].at \in Ended THEN temps \ {s} ELSE temps
  BY DEF SendRequest
<1>4. /\ Typed /\ outcome \in {"ok", "failed", "none"} /\ how \in (Ways \cup {"hang"}) \ {"again"}
      /\ how = "hang" => Request(s).way # "program"
  <2>1. Request(s) \in Requests /\ "again" \notin Request(s).ok \cup Request(s).failed
    BY <1>1, RequestFacts DEF Lawful
  <2>2. outcome \in {"ok", "failed", "none"}
    BY DEF Outcomes
  <2>3. Request(s).ok \subseteq Ways /\ Request(s).failed \subseteq Ways
    BY <2>1 DEF Requests
  <2>4. CASE outcome = "none"
    BY <1>1, <2>4, RequestFacts DEF Hows, Outcomes, IInv, Ways
  <2>5. CASE outcome # "none"
    <3>1. how \in Request(s).ok \cup Request(s).failed
      BY <2>2, <2>5 DEF Hows
    <3>2. how \in Ways \ {"again"}
      BY <2>1, <2>3, <3>1
    <3> QED
      BY <1>1, <2>2, <3>2, RequestFacts DEF IInv, Ways
  <2> QED
    BY <2>4, <2>5
<1> DEFINE k == After(s, outcome, how)
<1>5. /\ k \in Call /\ Keeps(k, c) /\ (GoesOn(k) \/ Ends(k) \/ Hangs(k, c))
      /\ k.held = IF Request(s).way \in {"held", "guarded"} THEN Target(s) ELSE c.held
      /\ k.pod = c.pod
      /\ k.refused = IF outcome = "failed" THEN c.refused \cup ({verb} \cap Writes) ELSE c.refused
      /\ GoesOn(k) => how \notin {"answer", "error"} /\ k.step >= c.step
      /\ how = "error" /\ c.pod = None => k.at = "error"
      /\ k.at = "hanging" => how = "hang"
  <2>1. /\ outcome \in {"ok", "failed", "none"} /\ how \in (Ways \cup {"hang"}) \ {"again"}
        /\ calls[s].at = "running"
    BY <1>1, <1>4
  <2>2. /\ k \in Call /\ Keeps(k, c) /\ (GoesOn(k) \/ Ends(k) \/ Hangs(k, c)) /\ k.pod = c.pod
        /\ k.held = IF Request(s).way \in {"held", "guarded"} THEN Target(s) ELSE c.held
    BY <2>1, AfterStep
  <2>3. k.refused = IF outcome = "failed" THEN c.refused \cup ({verb} \cap Writes) ELSE c.refused
    BY <2>1, AfterStep, Zenon
  <2>4. /\ GoesOn(k) => how \notin {"answer", "error"} /\ k.step >= c.step
        /\ how = "error" /\ c.pod = None => k.at = "error"
    BY <2>1, AfterStep
  <2>5. k.at = "hanging" => how = "hang"
    BY <2>1, AfterStep
  <2> QED
    BY <2>2, <2>3, <2>4, <2>5
<1> HIDE DEF k
<1>6. Sole(s) /\ calls'[s] = k
  BY <1>2, <1>4, <1>5, CallSet DEF k
<1>7. c.pod # None => k.held = c.held
  BY <1>1, <1>5, PodTarget
<1>8. Carried(s)
  BY <1>1, <1>3, <1>4, <1>5, <1>6, <1>7 DEF Carried
<1>9. DenyAction(s) => ~applied
  <2>1. DenyAction(s) => outcome = "failed"
    BY DEF Outcomes
  <2> QED
    BY <2>1 DEF Applied
<1>10. verb \in Writes => Target(s) \in Servers
  <2>1. Request(s).way = "program" => verb = "read"
    BY <1>1, RequestFacts, Zenon DEF Lawful, Singular
  <2> QED
    BY <1>1, <2>1 DEF Writes
<1>11. world' \in {world} \cup (IF DenyAction(s) \/ verb \notin Writes THEN {} ELSE {Touch(s)})
  BY <1>2, <1>9
<1>12. k.at = "hanging" => Request(s).way # "program"
  BY <1>4, <1>5
<1> QED
  BY <1>1, <1>3, <1>5, <1>6, <1>8, <1>10, <1>11, <1>12

\* A pod is made once, under a name that is free on its server.
LEMMA MakeStep ==
    ASSUME IInv, NEW s \in Sessions, MakePod(s)
    PROVE  LET c == calls[s]
               k == calls'[s]
           IN
           /\ c.at = "running" /\ c.tool = "DiagnosePodNetwork" /\ c.step = 2 /\ c.pod = None
           /\ Target(s) \in Servers
           /\ Sole(s) /\ Keeps(k, c) /\ k.held = Target(s)
           /\ \E name \in PodNames, applied \in BOOLEAN :
                 /\ applied => name \notin world[Target(s)].diag
                 /\ world' = IF applied THEN [Touch(s) EXCEPT ![Target(s)].diag = @ \cup {name}]
                             ELSE world
                 /\ \/ /\ applied /\ GoesOn(k) /\ k.step = 3 /\ k.pod = name
                       /\ k.refused = c.refused /\ UNCHANGED lost
                    \/ /\ k.at = "error" \/ (k.at = "hanging" /\ k.refused = c.refused)
                       /\ k.pod = None
                       /\ lost' = IF applied THEN lost \cup {<<Target(s), name>>} ELSE lost
           /\ UNCHANGED <<phase, setup, toLoad, clusters, temps>>
<1> DEFINE c == calls[s]
<1>1. c.at = "running" /\ Request(s).verb = "make" /\ Target(s) \in Servers
  BY DEF MakePod, Sends
<1>2. /\ c.tool = "DiagnosePodNetwork" /\ c.step = 2 /\ Request(s).way = "held"
      /\ Request(s).ok = {"next"} /\ Request(s).failed = {"error"}
      /\ c \in Call /\ Typed
  BY <1>1, RequestFacts, Zenon DEF Lawful, Singular, IInv
<1>3. c.pod = None
  BY <1>2, RequestFacts, <1>1 DEF OwnPod
<1>4. UNCHANGED <<phase, setup, toLoad, clusters, temps>>
  BY DEF MakePod
<1> DEFINE free(name, outcome) ==
               IF name \in world[Target(s)].diag THEN {FALSE} ELSE Applied(s, outcome)
           Makes(name, outcome, how, applied) ==
             /\ outcome = "ok" => applied
             /\ calls' = [calls EXCEPT ![s] = [After(s, outcome, how) EXCEPT
                              !.pod = IF outcome = "ok" THEN name ELSE @]]
             /\ world' = IF applied THEN [Touch(s) EXCEPT ![Target(s)].diag = @ \cup {name}]
                         ELSE world
             /\ lost' = IF applied /\ outcome # "ok" THEN lost \cup {<<Target(s), name>>}
                        ELSE lost
<1>5. PICK name \in PodNames, outcome \in Outcomes(s) :
          \E how \in Hows(s, outcome), applied \in free(name, outcome) :
              Makes(name, outcome, how, applied)
  BY DEF MakePod
<1>6. PICK how \in Hows(s, outcome), applied \in free(name, outcome) :
          Makes(name, outcome, how, applied)
  BY <1>5
<1>7. applied \in BOOLEAN /\ (applied => name \notin world[Target(s)].diag)
  BY DEF Applied
<1>a. /\ outcome \in {"ok", "failed", "none"}
      /\ how = CASE outcome = "ok" -> "next" [] outcome = "failed" -> "error" [] OTHER -> "hang"
  BY <1>2 DEF Outcomes, Hows
<1>b. {"next", "error", "hang"} \subseteq (Ways \cup {"hang"}) \ {"again"}
  BY DEF Ways
<1>8. CASE outcome = "ok"
  <2> DEFINE k == After(s, "ok", "next")
  <2>1. c.step + 1 \in DOMAIN Plan(c) /\ c.step + 1 = 3
    BY <1>2, PlanLengths, TheLaw DEF Call, Plan
  <2>2. /\ k \in Call /\ Keeps(k, c) /\ GoesOn(k) /\ k.step = 3
        /\ k.held = Target(s) /\ k.refused = c.refused
    BY <1>1, <1>2, <1>b, <2>1, AfterStep
  <2> HIDE DEF k
  <2> DEFINE q == [k EXCEPT !.pod = name]
  <2>3. /\ q \in Call /\ Keeps(q, c) /\ GoesOn(q) /\ q.step = 3 /\ q.pod = name
        /\ q.held = Target(s) /\ q.refused = c.refused
    BY <2>2 DEF Call, Keeps, GoesOn, Plan
  <2>4. calls' = [calls EXCEPT ![s] = q]
    BY <1>6, <1>8, <1>a DEF k
  <2> HIDE DEF q
  <2>5. Sole(s) /\ calls'[s] = q
    BY <1>2, <2>3, <2>4, CallSet
  <2> QED
    BY <1>1, <1>2, <1>3, <1>4, <1>6, <1>7, <1>8, <2>3, <2>5
<1>9. CASE outcome # "ok"
  <2> DEFINE k == After(s, outcome, how)
  <2>1. /\ k \in Call /\ Keeps(k, c) /\ k.pod = None /\ k.held = Target(s)
        /\ k.at = "error" \/ (k.at = "hanging" /\ k.refused = c.refused)
    <3>1. CASE outcome = "failed" /\ how = "error"
      BY <1>1, <1>2, <1>3, <1>a, <1>b, <3>1, AfterStep
    <3>2. CASE outcome = "none" /\ how = "hang"
      BY <1>1, <1>2, <1>3, <1>a, <1>b, <3>2, AfterStep
    <3> QED
      BY <1>9, <1>a, <3>1, <3>2
  <2> HIDE DEF k
  <2>2. calls' = [calls EXCEPT ![s] = k]
    <3>1. [k EXCEPT !.pod = k.pod] = k
      BY <2>1 DEF Call
    <3> QED
      BY <1>6, <1>9, <3>1 DEF k
  <2>3. Sole(s) /\ calls'[s] = k
    BY <1>2, <2>1, <2>2, CallSet
  <2> QED
    BY <1>1, <1>2, <1>3, <1>4, <1>6, <1>7, <1>9, <2>1, <2>3
<1> QED
  BY <1>8, <1>9

\* The temporary file is there when the call goes on, and only then.
LEMMA KubeconfigStep ==
    ASSUME IInv, NEW s \in Sessions, WriteKubeconfig(s)
    PROVE  LET k == calls'[s] IN
           /\ Sole(s) /\ Carried(s) /\ k.refused = calls[s].refused
           /\ calls[s].tool = "Kubectl"
           /\ \/ GoesOn(k) /\ k.step = 3 /\ temps' = temps \cup {s}
              \/ Ends(k) /\ temps' = temps /\ s \notin temps
           /\ UNCHANGED <<world, lost>>
<1> DEFINE c == calls[s]
<1>1. c.at = "running" /\ Request(s).verb = "tempfile" /\ Target(s) # None
  BY DEF WriteKubeconfig, Sends
<1>2. /\ c.tool = "Kubectl" /\ c.step = 2 /\ Request(s).way = "guarded"
      /\ c \in Call /\ Typed
  BY <1>1, RequestFacts, Zenon DEF Lawful, Singular, IInv
<1>3. c.pod = None /\ s \notin temps
  BY <1>1, <1>2, RequestFacts DEF OwnPod, IInv, TempsHold
<1>4. UNCHANGED <<phase, setup, toLoad, clusters, world, lost>>
  BY DEF WriteKubeconfig
<1>5. CASE calls' = [calls EXCEPT ![s] = After(s, "ok", "next")] /\ temps' = temps \cup {s}
  <2> DEFINE k == After(s, "ok", "next")
  <2>1. c.step + 1 \in DOMAIN Plan(c) /\ c.step + 1 = 3
    BY <1>2, PlanLengths, TheLaw DEF Call, Plan
  <2>2. /\ k \in Call /\ Keeps(k, c) /\ GoesOn(k) /\ k.step = 3 /\ k.pod = c.pod
        /\ k.held = Target(s) /\ k.refused = c.refused
    <3>1. "next" \in (Ways \cup {"hang"}) \ {"again"}
      BY DEF Ways
    <3> QED
      BY <1>1, <1>2, <2>1, <3>1, AfterStep
  <2> HIDE DEF k
  <2>3. Sole(s) /\ calls'[s] = k
    BY <1>2, <1>5, <2>2, CallSet DEF k
  <2> QED
    BY <1>1, <1>2, <1>3, <1>4, <1>5, <2>2, <2>3 DEF Carried
<1>6. CASE calls' = [calls EXCEPT ![s] = End(@, "error")] /\ UNCHANGED temps
  <2> DEFINE k == End(c, "error")
  <2>1. /\ k \in Call /\ Keeps(k, c) /\ Ends(k) /\ k.pod = c.pod
        /\ k.held = c.held /\ k.refused = c.refused /\ ~GoesOn(k)
    BY <1>2, EndStep DEF Ends, GoesOn
  <2>2. calls' = [calls EXCEPT ![s] = k]
    BY <1>6
  <2> HIDE DEF k
  <2>3. Sole(s) /\ calls'[s] = k
    BY <1>2, <2>1, <2>2, CallSet
  <2> QED
    BY <1>1, <1>2, <1>3, <1>4, <1>6, <2>1, <2>3 DEF Carried
<1> QED
  BY <1>5, <1>6 DEF WriteKubeconfig

LEMMA ClassFacts == Class # {} /\ \A n \in DOMAIN Classes : Classes[n] \in Class
BY ClassesAssumption DEF Class, Range

\* What there is to patch is what was listed.
LEMMA ListStep ==
    ASSUME IInv, NEW s \in Sessions, ListClasses(s)
    PROVE  LET c == calls[s]
               k == calls'[s]
           IN
           /\ Sole(s) /\ Carried(s) /\ k.refused = c.refused
           /\ c.tool \in ClassTools /\ Target(s) \in Servers
           /\ Target(s) = clusters[c.id]
           /\ \/ k.at \in {"error", "hanging"}
              \/ k.at = "answered" /\ ClassesToPatch(s) = {}
              \/ GoesOn(k) /\ k.step = 2 /\ k.todo = ClassesToPatch(s)
           /\ UNCHANGED <<world, temps, lost>>
<1> DEFINE c == calls[s]
           todo == ClassesToPatch(s)
<1>1. c.at = "running" /\ Request(s).verb = "classes" /\ Target(s) \in Servers
  BY DEF ListClasses, Sends
<1>2. /\ c.tool \in ClassTools /\ c.step = 1 /\ Request(s).way = "callbacks"
      /\ c \in Call /\ Typed
  BY <1>1, RequestFacts, Zenon DEF Lawful, Singular, IInv
<1>3. c.pod = None /\ Target(s) = clusters[c.id]
  BY <1>1, <1>2, RequestFacts DEF OwnPod, Target, ClassTools
<1>4. UNCHANGED <<phase, setup, toLoad, clusters, world, temps, lost>>
  BY DEF ListClasses
<1>a. ASSUME calls' = [calls EXCEPT ![s] = Proceed(c, "hang")]
      PROVE  Sole(s) /\ Carried(s) /\ calls'[s].refused = c.refused /\ calls'[s].at = "hanging"
  <2> DEFINE k == Proceed(c, "hang")
  <2>1. /\ k \in Call /\ Keeps(k, c) /\ (GoesOn(k) \/ Ends(k) \/ Hangs(k, c)) /\ k.pod = c.pod
        /\ k.held = c.held /\ k.refused = c.refused /\ k.at = "hanging"
    <3>1. GoesOn(c) /\ "hang" \in Ways \cup {"hang"} /\ "hang" # "again"
      BY <1>1, RequestFacts
    <3> QED
      BY <1>2, <3>1, ProceedStep
  <2> HIDE DEF k
  <2>2. Sole(s) /\ calls'[s] = k
    BY <1>2, <1>a, <2>1, CallSet DEF k
  <2>3. Carried(s)
    BY <1>1, <1>4, <2>1, <2>2 DEF Carried, GoesOn
  <2> QED
    BY <2>1, <2>2, <2>3
<1>5. ASSUME NEW result \in {"answered", "error"},
             calls' = [calls EXCEPT ![s] = End(c, result)]
      PROVE  Sole(s) /\ Carried(s) /\ calls'[s].refused = c.refused /\ calls'[s].at = result
  <2> DEFINE k == End(c, result)
  <2>1. /\ k \in Call /\ Keeps(k, c) /\ Ends(k) /\ k.pod = c.pod /\ k.at = result
        /\ k.held = c.held /\ k.refused = c.refused /\ ~GoesOn(k)
    BY <1>2, <1>3, EndStep DEF Ends, GoesOn
  <2> HIDE DEF k
  <2>2. Sole(s) /\ calls'[s] = k
    BY <1>2, <1>5, <2>1, CallSet DEF k
  <2> QED
    BY <1>1, <1>4, <2>1, <2>2 DEF Carried
<1>6. CASE calls' = [calls EXCEPT ![s] = [c EXCEPT !.step = @ + 1, !.todo = todo]]
  <2> DEFINE k == [c EXCEPT !.step = 2, !.todo = todo]
  <2>1. todo \in SUBSET Class
    BY DEF ClassesToPatch, Class
  <2>2. 2 \in DOMAIN Plan(c)
    BY <1>2, PlanLengths, TheLaw DEF Call, Plan
  <2> HIDE DEF todo
  <2>3. /\ k \in Call /\ Keeps(k, c) /\ GoesOn(k) /\ k.pod = c.pod /\ k.step = 2 /\ k.todo = todo
        /\ k.held = c.held /\ k.refused = c.refused
    BY <1>1, <1>2, <2>1, <2>2 DEF Call, Keeps, GoesOn, Plan
  <2>4. calls' = [calls EXCEPT ![s] = k]
    BY <1>2, <1>6
  <2> HIDE DEF k
  <2>5. Sole(s) /\ calls'[s] = k
    BY <1>2, <2>3, <2>4, CallSet
  <2> QED
    BY <1>1, <1>2, <1>3, <1>4, <2>3, <2>5 DEF Carried, todo
<1>7. \/ calls' = [calls EXCEPT ![s] = End(c, "error")]
      \/ calls' = [calls EXCEPT ![s] = Proceed(c, "hang")]
      \/ todo = {} /\ calls' = [calls EXCEPT ![s] = End(c, "answered")]
      \/ calls' = [calls EXCEPT ![s] = [c EXCEPT !.step = @ + 1, !.todo = todo]]
  BY DEF ListClasses
<1> QED
  BY <1>1, <1>2, <1>3, <1>4, <1>5, <1>6, <1>7, <1>a

\* A call that another one makes no difference to, but that is not alone.
Aside(k, c) ==
    /\ k \in Call /\ Keeps([k EXCEPT !.alone = c.alone], c) /\ (k.alone => c.alone)
    /\ k.at = c.at /\ k.step = c.step /\ k.held = c.held /\ k.pod = c.pod
    /\ k.todo = c.todo /\ k.refused = c.refused

\* One class is patched; the calls of the same tool are not alone any more.
LEMMA PatchStep ==
    ASSUME IInv, NEW s \in Sessions, PatchClass(s)
    PROVE  LET c == calls[s]
               k == calls'[s]
               a == Target(s)
           IN
           /\ c.at = "running" /\ c.tool \in ClassTools /\ c.step = 2 /\ c.pod = None
           /\ a \in Servers /\ a = clusters[c.id]
           /\ calls' \in [Sessions -> Call]
           /\ \A r \in Sessions \ {s} :
                 /\ Aside(calls'[r], calls[r])
                 /\ calls[r].tool = c.tool => ~calls'[r].alone
           /\ Keeps(k, c) /\ k.pod = None /\ k.held = c.held
           /\ \E class \in c.todo, applied \in BOOLEAN :
                 /\ DenyAction(s) => ~applied
                 /\ world' = IF ~applied THEN world
                             ELSE [Touch(s) EXCEPT ![a].defaults[c.tool] =
                                     IF class = c.arg THEN @ \cup {class} ELSE @ \ {class}]
                 /\ \/ k.at = "error" \/ (k.at = "hanging" /\ k.refused = c.refused)
                    \/ /\ k.at = "answered" /\ (applied \/ Unready(s)) /\ c.todo = {class}
                       /\ k.refused = c.refused
                    \/ /\ GoesOn(k) /\ k.step = 2 /\ (applied \/ Unready(s))
                       /\ k.todo = c.todo \ {class} /\ k.refused = c.refused
           /\ UNCHANGED <<phase, setup, toLoad, clusters, temps, lost>>
<1> DEFINE c == calls[s]
<1>1. c.at = "running" /\ Request(s).verb = "default" /\ Target(s) \in Servers
  BY DEF PatchClass, Sends
<1>2. /\ c.tool \in ClassTools /\ c.step = 2 /\ Request(s).way = "callbacks"
      /\ c \in Call /\ Typed /\ GoesOn(c)
  BY <1>1, RequestFacts, Zenon DEF Lawful, Singular, IInv
<1>3. c.pod = None /\ Target(s) = clusters[c.id]
  BY <1>1, <1>2, RequestFacts DEF OwnPod, Target, ClassTools
<1>4. UNCHANGED <<phase, setup, toLoad, clusters, temps, lost>>
  BY DEF PatchClass
<1> DEFINE others == [r \in Sessions |-> IF r # s /\ calls[r].tool = c.tool
                                         THEN [calls[r] EXCEPT !.alone = FALSE] ELSE calls[r]]
           next(outcome, class) ==
               IF outcome # "ok" THEN After(s, outcome, IF outcome = "none" THEN "hang" ELSE "error")
               ELSE IF c.todo = {class} THEN After(s, "ok", "answer")
               ELSE [c EXCEPT !.todo = @ \ {class}]
           Patches(outcome, applied, class) ==
               /\ world' = IF ~applied THEN world
                           ELSE [Touch(s) EXCEPT ![Target(s)].defaults[c.tool] =
                                   IF class = c.arg THEN @ \cup {class} ELSE @ \ {class}]
               /\ calls' = [others EXCEPT ![s] = next(outcome, class)]
<1>5. PICK n \in DOMAIN Classes, outcome \in Outcomes(s) :
          \E applied \in Applied(s, outcome) :
              Classes[n] \in c.todo /\ Patches(outcome, applied, Classes[n])
  BY DEF PatchClass
<1> DEFINE class == Classes[n]
<1>6. PICK applied \in Applied(s, outcome) : class \in c.todo /\ Patches(outcome, applied, class)
  BY <1>5
<1> HIDE DEF class
<1>7. /\ outcome \in {"ok", "failed", "none"} /\ applied \in BOOLEAN
      /\ outcome = "ok" => applied \/ Unready(s)
      /\ DenyAction(s) => ~applied
  BY DEF Outcomes, Applied
<1>8. /\ others \in [Sessions -> Call]
      /\ \A r \in Sessions \ {s} :
            Aside(others[r], calls[r]) /\ (calls[r].tool = c.tool => ~others[r].alone)
  <2>1. ASSUME NEW r \in Sessions \ {s}
        PROVE  /\ others[r] \in Call /\ Aside(others[r], calls[r])
               /\ calls[r].tool = c.tool => ~others[r].alone
    <3> DEFINE d == calls[r]
               e == [d EXCEPT !.alone = FALSE]
    <3>1. d \in Call /\ FALSE \in BOOLEAN
      BY <1>2 DEF Typed
    <3>2. others[r] = IF d.tool = c.tool THEN e ELSE d
      OBVIOUS
    <3> HIDE DEF d, others
    <3>3. /\ e \in Call /\ e.alone = FALSE /\ [e EXCEPT !.alone = d.alone] = d
          /\ e.at = d.at /\ e.step = d.step /\ e.held = d.held /\ e.pod = d.pod
          /\ e.todo = d.todo /\ e.refused = d.refused
      BY <3>1 DEF Call
    <3> HIDE DEF e
    <3>4. Aside(e, d)
      BY <3>3 DEF Aside, Keeps
    <3>5. [d EXCEPT !.alone = d.alone] = d
      BY <3>1 DEF Call
    <3>6. Aside(d, d)
      BY <3>1, <3>5 DEF Aside, Keeps
    <3> QED
      BY <3>1, <3>2, <3>3, <3>4, <3>6 DEF d
  <2>2. others[s] \in Call /\ DOMAIN others = Sessions
    BY <1>2
  <2>3. others = [r \in Sessions |-> others[r]]
    OBVIOUS
  <2> HIDE DEF others
  <2>4. \A r \in Sessions : others[r] \in Call
    BY <2>1, <2>2
  <2> QED
    BY <2>1, <2>3, <2>4
<1> DEFINE k == next(outcome, class)
<1>9. /\ k \in Call /\ Keeps(k, c) /\ k.pod = None /\ k.held = c.held
      /\ \/ k.at = "error" \/ (k.at = "hanging" /\ k.refused = c.refused)
         \/ /\ k.at = "answered" /\ (applied \/ Unready(s)) /\ c.todo = {class}
            /\ k.refused = c.refused
         \/ /\ GoesOn(k) /\ k.step = 2 /\ (applied \/ Unready(s)) /\ k.todo = c.todo \ {class}
            /\ k.refused = c.refused
  <2>a. {"error", "answer", "hang"} \subseteq (Ways \cup {"hang"}) \ {"again"}
    BY DEF Ways
  <2>1. CASE outcome = "failed"
    <3>1. k = After(s, "failed", "error")
      BY <2>1
    <3> HIDE DEF k
    <3> QED
      BY <1>1, <1>2, <1>3, <2>a, <3>1, AfterStep
  <2>4. CASE outcome = "none"
    <3>1. k = After(s, "none", "hang")
      BY <2>4
    <3> HIDE DEF k
    <3> QED
      BY <1>1, <1>2, <1>3, <2>a, <3>1, AfterStep
  <2>2. CASE outcome = "ok" /\ c.todo = {class}
    <3>1. k = After(s, "ok", "answer")
      BY <2>2
    <3> HIDE DEF k
    <3>2. /\ k \in Call /\ Keeps(k, c) /\ k.at = "answered"
          /\ k.pod = c.pod /\ k.held = c.held /\ k.refused = c.refused
      BY <1>1, <1>2, <1>3, <2>a, <3>1, AfterStep
    <3> QED
      BY <1>3, <1>7, <2>2, <3>2
  <2>3. CASE outcome = "ok" /\ c.todo # {class}
    <3>1. k = [c EXCEPT !.todo = @ \ {class}]
      BY <2>3
    <3> HIDE DEF k
    <3> QED
      BY <1>2, <1>3, <1>7, <2>3, <3>1 DEF Call, Keeps, GoesOn, Plan
  <2> QED
    BY <1>7, <2>1, <2>2, <2>3, <2>4
<1> HIDE DEF k, others
<1>10. /\ calls' \in [Sessions -> Call] /\ calls'[s] = k
       /\ \A r \in Sessions \ {s} : calls'[r] = others[r]
  BY <1>6, <1>8, <1>9 DEF k
<1> QED
  BY <1>1, <1>2, <1>3, <1>4, <1>6, <1>7, <1>8, <1>9, <1>10, Zenon

\* A call whose cluster is not there ends, one way or the other.
LEMMA GoneStep ==
    ASSUME IInv, NEW s \in Sessions, ClusterIsGone(s)
    PROVE  LET c == calls[s]
               k == calls'[s]
           IN
           /\ c.at = "running" /\ Sole(s) /\ Keeps(k, c)
           /\ k.held = c.held /\ k.pod = None /\ c.pod = None /\ k.refused = c.refused
           /\ s \notin temps
           /\ \/ /\ k.at = "error" \/ (k.at = "answered" /\ c.tool = "TestPodDNSResolve")
                 /\ UNCHANGED phase
              \/ /\ k.at = "panicked" /\ phase' \in {phase, "crashed"}
                 /\ k.gone \/ k.since \cap Builders # {}
           /\ UNCHANGED <<setup, toLoad, clusters, world, temps, lost>>
<1> DEFINE c == calls[s]
           result == IF c.tool = "TestPodDNSResolve" THEN "answered" ELSE "error"
<1>1. c.at = "running" /\ Request(s).way # "program"
  BY DEF ClusterIsGone
<1>2. c \in Call /\ Typed /\ Running(c) /\ OwnPod(c) /\ Target(s) \in c.since \cup {None}
  BY <1>1, RequestFacts DEF IInv
<1>a. Request(s).way = "held" => Target(s) \notin Servers
  BY NamesAssumption DEF ClusterIsGone, IsMissed, Unready
<1>3. c.pod = None
  BY <1>1, <1>2, <1>a, PodTarget DEF OwnPod
<1>4. Target(s) = None => c.gone
  <2>1. Target(s) = None => clusters[c.id] = None
    BY DEF Target
  <2> QED
    BY <1>2, <2>1 DEF Running
<1>5. s \notin temps
  <2>1. SUFFICES ASSUME s \in temps PROVE FALSE
    OBVIOUS
  <2>2. c.tool = "Kubectl" /\ c.step = 3
    BY <2>1 DEF IInv, TempsHold
  <2>3. Request(s).way = "program"
    BY <1>1, <2>2, RequestFacts, SMTT(30) DEF Singular
  <2> QED
    BY <1>1, <2>3
<1>6. UNCHANGED <<setup, toLoad, clusters, world, temps, lost>>
  BY DEF ClusterIsGone
<1>7. CASE calls' = [calls EXCEPT ![s] = End(c, result)] /\ UNCHANGED phase
  <2> DEFINE k == End(c, result)
  <2>a. result \in {"answered", "error"}
    OBVIOUS
  <2>1. /\ k \in Call /\ Keeps(k, c) /\ k.pod = c.pod /\ k.at = result
        /\ k.held = c.held /\ k.refused = c.refused
    BY <1>2, <1>3, <2>a, EndStep
  <2>2. calls' = [calls EXCEPT ![s] = k]
    BY <1>7
  <2> HIDE DEF k
  <2>3. Sole(s) /\ calls'[s] = k
    BY <1>2, <2>1, <2>2, CallSet
  <2> QED
    BY <1>1, <1>3, <1>5, <1>6, <1>7, <2>1, <2>3
<1>8. CASE (Unready(s) \/ Target(s) \notin Servers) /\ Panics(s)
  <2> DEFINE k == [c EXCEPT !.at = "panicked"]
  <2>1. /\ k \in Call /\ Keeps(k, c) /\ k.pod = c.pod /\ k.at = "panicked"
        /\ k.held = c.held /\ k.refused = c.refused
    BY <1>2 DEF Call, Keeps, Ended
  <2>2. calls' = [calls EXCEPT ![s] = k]
    BY <1>8 DEF Panics
  <2> HIDE DEF k
  <2>3. Sole(s) /\ calls'[s] = k
    BY <1>2, <2>1, <2>2, CallSet
  <2>4. k.gone \/ k.since \cap Builders # {}
    <3>1. Target(s) \in Servers \cup Builders \cup {None}
      BY <1>1, RequestFacts DEF Instances
    <3>2. Unready(s) \/ Target(s) = None \/ Target(s) \in c.since \cap Builders
      BY <1>2, <1>8, <3>1
    <3>3. Unready(s) => c.since \cap Builders # {}
      BY <1>1, RequestFacts DEF IsEarly
    <3> QED
      BY <1>4, <2>1, <3>2, <3>3 DEF Keeps
  <2>5. phase' \in {phase, "crashed"}
    BY <1>8 DEF Panics
  <2> QED
    BY <1>1, <1>3, <1>5, <1>6, <2>1, <2>3, <2>4, <2>5
<1> HIDE DEF result
<1>9. \/ calls' = [calls EXCEPT ![s] = End(c, result)] /\ UNCHANGED phase
      \/ (Unready(s) \/ Target(s) \notin Servers) /\ Panics(s)
  BY DEF ClusterIsGone, result
<1> QED
  BY <1>7, <1>8, <1>9

\* The call lets go of its pod.
LEMMA DropStep ==
    ASSUME IInv, NEW s \in Sessions, DropPod(s)
    PROVE  LET c == calls[s]
               k == calls'[s]
           IN
           /\ c.at = "cleanup" /\ c.pod \in PodNames /\ c.held \in Servers
           /\ c.tool = "DiagnosePodNetwork"
           /\ Sole(s) /\ Keeps(k, c) /\ k.held = c.held /\ k.pod = None
           /\ k.refused \subseteq c.refused \cup {"drop"} /\ k.at \in {"answered", "error"}
           /\ \/ /\ world' = [world EXCEPT ![c.held].diag = @ \ {c.pod}]
                 /\ lost' = lost \ {<<c.held, c.pod>>}
              \/ lost' = lost \cup {<<c.held, c.pod>>} /\ world' = world
           /\ UNCHANGED <<phase, setup, toLoad, clusters, temps>>
<1> DEFINE c == calls[s]
<1>1. c \in Call /\ Typed /\ c.at = "cleanup" /\ OwnPod(c)
  BY DEF DropPod, IInv, Typed, PodsHold
<1>2. c.pod \in PodNames /\ c.held \in Servers /\ c.tool = "DiagnosePodNetwork"
  BY <1>1 DEF OwnPod, Call
<1>3. PICK failed \in BOOLEAN, applied \in BOOLEAN :
          /\ world' = IF applied THEN [world EXCEPT ![c.held].diag = @ \ {c.pod}] ELSE world
          /\ lost' = IF applied THEN lost \ {<<c.held, c.pod>>} ELSE lost \cup {<<c.held, c.pod>>}
          /\ calls' = [calls EXCEPT ![s].at = c.then, ![s].pod = None,
                                    ![s].refused = IF failed THEN @ \cup {"drop"} ELSE @]
  BY DEF DropPod
<1> DEFINE refused == IF failed THEN c.refused \cup {"drop"} ELSE c.refused
           k == [c EXCEPT !.at = c.then, !.pod = None, !.refused = refused]
<1>4. refused \in SUBSET (Writes \cup {"drop"}) /\ refused \subseteq c.refused \cup {"drop"}
  BY <1>1 DEF Call
<1>5. calls' = [calls EXCEPT ![s] = k]
  BY <1>1, <1>3 DEF Typed, Call
<1> HIDE DEF refused
<1>6. /\ k \in Call /\ Keeps(k, c) /\ k.held = c.held /\ k.pod = None
      /\ k.refused = refused /\ k.at \in {"answered", "error"}
  BY <1>1, <1>4 DEF Call, Keeps, Ended
<1> HIDE DEF k
<1>7. Sole(s) /\ calls'[s] = k
  BY <1>1, <1>5, <1>6, CallSet
<1>8. UNCHANGED <<phase, setup, toLoad, clusters, temps>>
  BY DEF DropPod
<1> QED
  BY <1>1, <1>2, <1>3, <1>4, <1>6, <1>7, <1>8

\* The calls that what their ID stands for makes a difference to.
Busy == {"running", "cleanup"} \cup Registering

\* The cluster of the ID changes; the calls that use it come to know.
LEMMA RenamedCalls ==
    ASSUME Typed, NEW id \in IDs, NEW server \in Instances \cup {None}, NEW r \in Sessions
    PROVE  LET c == calls[r]
               k == Renamed(id, server)[r]
           IN
           /\ k \in Call
           /\ k.at = c.at /\ k.tool = c.tool /\ k.id = c.id /\ k.arg = c.arg /\ k.step = c.step
           /\ k.held = c.held /\ k.pod = c.pod /\ k.todo = c.todo /\ k.refused = c.refused
           /\ k.alone = c.alone /\ c.since \subseteq k.since /\ (c.gone => k.gone)
           /\ c.at \notin Busy => k = c
           /\ c.at \in Busy /\ c.id = id =>
                 server \in k.since \cup {None} /\ (server = None => k.gone)
<1> DEFINE c == calls[r]
           k == Renamed(id, server)[r]
<1>1. c \in Call
  BY DEF Typed
<1>2. k = IF c.id # id \/ c.at \notin Busy THEN c
          ELSE [c EXCEPT !.gone = c.gone \/ server = None,
                         !.since = c.since \cup ({server} \ {None})]
  BY DEF Renamed, Busy
<1>3. CASE c.id # id \/ c.at \notin Busy
  <2>1. k = c
    BY <1>2, <1>3
  <2> QED
    BY <1>1, <1>3, <2>1
<1>4. CASE ~(c.id # id \/ c.at \notin Busy)
  <2> DEFINE gone == c.gone \/ server = None
             since == c.since \cup ({server} \ {None})
  <2>1. gone \in BOOLEAN /\ since \in SUBSET Instances
    BY <1>1 DEF Call
  <2>2. /\ c.gone => gone
        /\ server = None => gone
        /\ c.since \subseteq since /\ server \in since \cup {None}
    OBVIOUS
  <2>3. k = [c EXCEPT !.gone = gone, !.since = since]
    BY <1>2, <1>4
  <2> HIDE DEF gone, since, k
  <2>4. /\ k \in Call /\ k.gone = gone /\ k.since = since
        /\ k.at = c.at /\ k.tool = c.tool /\ k.id = c.id /\ k.arg = c.arg /\ k.step = c.step
        /\ k.held = c.held /\ k.pod = c.pod /\ k.todo = c.todo /\ k.refused = c.refused
        /\ k.alone = c.alone
    BY <1>1, <2>1, <2>3 DEF Call
  <2> QED
    BY <1>4, <2>2, <2>4 DEF k
<1> QED
  BY <1>3, <1>4

\* A handler of the registry, or the rest of a registration: the call goes on,
\* and another cluster, half or whole, may stand for its ID from then on.
RegistryStep(s) ==
    \/ ListClustersHandler(s) \/ RegisterClusterHandler(s) \/ UnregisterClusterHandler(s)
    \/ BuildCluster(s) \/ OpenCluster(s) \/ FinishCluster(s)

\* What the call of s may come to.
Results(s) ==
    LET c == calls[s] IN
    {result \in {"answered", "error", "hanging", "panicked"} \cup Registering :
        /\ result = "building" => /\ c.tool = "RegisterCluster" /\ c.id \in IDs
                                  /\ c.arg \in Servers \cup {None} /\ clusters'[c.id] = s
        /\ result \in Registering \ {"building"} =>
              /\ c.at = IF result = "opening" THEN "building" ELSE "opening"
              /\ c.arg \in Servers /\ (clusters'[c.id] = c.arg \/ c.gone)
        /\ result = "panicked" => c.gone}

Registered(s) ==
    LET c == calls[s] IN
    /\ c.at \in {"received"} \cup Registering /\ c.tool \in RegistryTools /\ c.pod = None
    /\ phase' = phase \/ (phase' = "crashed" /\ calls'[s].at = "panicked")
    /\ UNCHANGED <<setup, toLoad, world, temps, lost>>
    /\ \E result \in Results(s) :
          \/ /\ calls' = [calls EXCEPT ![s].at = result]
             /\ UNCHANGED clusters
          \/ \E server \in Instances \cup {None} :
                /\ c.id \in IDs
                /\ server # None => clusters[c.id] \in {None, s}
                /\ clusters' = [clusters EXCEPT ![c.id] = server]
                /\ calls' = [Renamed(c.id, server) EXCEPT ![s].at = result]

\* A call that only answers, or waits for ever.
LEMMA Answering ==
    ASSUME NEW s \in Sessions, NEW result \in {"answered", "error", "hanging"},
           calls' = [calls EXCEPT ![s].at = result],
           calls[s].at \in {"received"} \cup Registering, calls[s].tool \in RegistryTools,
           calls[s].pod = None,
           UNCHANGED <<phase, clusters, setup, toLoad, world, temps, lost>>
    PROVE  Registered(s)
<1>1. result \in Results(s)
  BY DEF Results, Registering
<1> QED
  BY <1>1 DEF Registered

\* The steps of the registry differ in when, not in what they do.
LEMMA RegistryCases ==
    ASSUME IInv, NEW s \in Sessions, RegistryStep(s)
    PROVE  Registered(s)
<1> DEFINE c == calls[s]
           Rest == UNCHANGED <<phase, setup, toLoad, world, temps, lost>>
<1>1. c \in Call /\ Typed /\ calls \in [Sessions -> Call] /\ clusters \in [IDs -> Instances \cup {None}]
  BY DEF IInv, Typed
<1>2. /\ c.at = "received" => c.pod = None /\ c.arg \in Args(c.tool)
      /\ c.at \in Registering => Building(s)
  BY DEF IInv, RunningHold
<1>3. Building(s) => c.tool \in RegistryTools /\ c.id \in IDs /\ c.pod = None
  BY DEF Building, RegistryTools
<1>4. s \in Instances /\ s # None
  BY NamesAssumption DEF Instances, Builders
<1>5. CASE ListClustersHandler(s)
  BY <1>2, <1>5, Answering DEF ListClustersHandler, Received, RegistryTools
<1>6. CASE RegisterClusterHandler(s)
  <2>1. c.at = "received" /\ c.tool = "RegisterCluster" /\ c.tool \in RegistryTools /\ c.pod = None
        /\ Rest
    BY <1>2, <1>6 DEF RegisterClusterHandler, Received, RegistryTools
  <2>2. CASE /\ Complete(s) /\ clusters[c.id] = None
             /\ clusters' = [clusters EXCEPT ![c.id] = s]
             /\ calls' = [Renamed(c.id, s) EXCEPT ![s].at = "building"]
    <3>1. c.id \in IDs /\ c.arg \in Servers \cup {None}
      BY <1>1, <1>2, <2>1, <2>2 DEF Complete, Call, Args, ClassTools
    <3>2. clusters'[c.id] = s
      BY <1>1, <2>2, <3>1
    <3>3. "building" \in Results(s)
      BY <2>1, <3>1, <3>2 DEF Results, Registering
    <3> QED
      BY <1>4, <2>1, <2>2, <3>1, <3>3 DEF Registered
  <2>3. CASE \E result \in {"answered", "error"} :
                 calls' = [calls EXCEPT ![s].at = result] /\ UNCHANGED clusters
    BY <2>1, <2>3, Answering
  <2> QED
    BY <1>6, <2>2, <2>3 DEF RegisterClusterHandler
<1>7. CASE UnregisterClusterHandler(s)
  <2>1. c.at = "received" /\ c.tool \in RegistryTools /\ c.pod = None /\ Rest
    BY <1>2, <1>7 DEF UnregisterClusterHandler, Received, RegistryTools
  <2>2. CASE Complete(s) /\ clusters[c.id] # None
    <3>1. /\ clusters' = [clusters EXCEPT ![c.id] = None]
          /\ calls' = [Renamed(c.id, None) EXCEPT ![s].at = "answered"]
      BY <1>7, <2>2 DEF UnregisterClusterHandler
    <3>2. c.id \in IDs /\ "answered" \in Results(s)
      BY <1>1, <2>2 DEF Complete, Call, Results, Registering
    <3> QED
      BY <2>1, <3>1, <3>2 DEF Registered
  <2>3. CASE ~(Complete(s) /\ clusters[c.id] # None)
    <3>1. calls' = [calls EXCEPT ![s].at = "error"] /\ UNCHANGED clusters
      BY <1>7, <2>3 DEF UnregisterClusterHandler
    <3> QED
      BY <2>1, <3>1, Answering
  <2> QED
    BY <2>2, <2>3
<1>a. ASSUME c.at \in {"opening", "watching"}, clusters[c.id] # c.arg, Panics(s),
             UNCHANGED <<setup, toLoad, clusters, world, temps, lost>>
      PROVE  Registered(s)
  <2>1. c.tool \in RegistryTools /\ c.id \in IDs /\ c.pod = None /\ c.gone
    BY <1>2, <1>3, <1>a DEF Building, Registering
  <2>2. "panicked" \in Results(s)
    BY <2>1 DEF Results, Registering
  <2>3. calls' = [calls EXCEPT ![s].at = "panicked"] /\ phase' \in {phase, "crashed"}
    BY <1>a DEF Panics
  <2>4. calls'[s].at = "panicked"
    BY <1>1, <2>3 DEF Call
  <2> QED
    BY <1>a, <2>1, <2>2, <2>3, <2>4 DEF Registered, Registering
<1>8. CASE BuildCluster(s)
  <2>1. c.at = "building" /\ Rest
    BY <1>8 DEF BuildCluster
  <2>2. /\ c.tool \in RegistryTools /\ c.id \in IDs /\ c.pod = None
        /\ c.arg \in Servers \cup {None} /\ (clusters[c.id] = s \/ c.gone)
    BY <1>2, <1>3, <2>1 DEF Building, Registering
  <2>3. CASE calls' = [calls EXCEPT ![s].at = "error"] /\ UNCHANGED clusters
    BY <2>1, <2>2, <2>3, Answering DEF Registering
  <2>4. CASE /\ c.arg # None /\ clusters[c.id] = s
             /\ clusters' = [clusters EXCEPT ![c.id] = c.arg]
             /\ calls' = [Renamed(c.id, c.arg) EXCEPT ![s].at = "opening"]
    <3>1. clusters'[c.id] = c.arg /\ c.arg \in Servers /\ c.arg \in Instances
      BY <1>1, <2>2, <2>4 DEF Instances
    <3>2. "opening" \in Results(s)
      BY <2>1, <3>1 DEF Results, Registering
    <3> QED
      BY <2>1, <2>2, <2>4, <3>1, <3>2 DEF Registered, Registering
  <2>5. CASE /\ c.arg # None /\ clusters[c.id] # s /\ UNCHANGED clusters
             /\ calls' = [calls EXCEPT ![s].at = "opening"]
    <3>1. "opening" \in Results(s)
      BY <2>1, <2>2, <2>5 DEF Results, Registering
    <3> QED
      BY <2>1, <2>2, <2>5, <3>1 DEF Registered, Registering
  <2> QED
    BY <1>8, <2>3, <2>4, <2>5 DEF BuildCluster
<1>9. CASE OpenCluster(s)
  <2>1. c.at = "opening" /\ UNCHANGED <<setup, toLoad, clusters, world, temps, lost>>
    BY <1>9 DEF OpenCluster
  <2>2. CASE \E at \in {"watching", "stalled"} :
                 calls' = [calls EXCEPT ![s].at = at] /\ UNCHANGED phase
    <3>1. PICK at \in {"watching", "stalled"} :
              calls' = [calls EXCEPT ![s].at = at] /\ UNCHANGED phase
      BY <2>2
    <3>2. /\ c.tool \in RegistryTools /\ c.pod = None
          /\ c.arg \in Servers /\ (clusters[c.id] = c.arg \/ c.gone)
      BY <1>2, <1>3, <2>1 DEF Building, Registering
    <3>3. at \in Results(s)
      BY <2>1, <3>2 DEF Results, Registering
    <3> QED
      BY <2>1, <3>1, <3>2, <3>3 DEF Registered, Registering
  <2> QED
    BY <1>9, <1>a, <2>1, <2>2 DEF OpenCluster
<1>10. CASE FinishCluster(s)
  <2>1. c.at = "watching" /\ UNCHANGED <<setup, toLoad, clusters, world, temps, lost>>
    BY <1>10 DEF FinishCluster
  <2>2. c.tool \in RegistryTools /\ c.pod = None
    BY <1>2, <1>3, <2>1 DEF Registering
  <2>3. CASE \E result \in {"answered", "error", "hanging"} :
                 calls' = [calls EXCEPT ![s].at = result] /\ UNCHANGED phase
    BY <2>1, <2>2, <2>3, Answering DEF Registering
  <2> QED
    BY <1>10, <1>a, <2>1, <2>3 DEF FinishCluster
<1> QED
  BY <1>5, <1>6, <1>7, <1>8, <1>9, <1>10 DEF RegistryStep

\* A call that starts to run is at its first request.
LEMMA ParseStep ==
    ASSUME IInv, NEW s \in Sessions, ParseFromRequest(s)
    PROVE  LET c == calls[s]
               k == calls'[s]
           IN
           /\ c.at = "received" /\ Sole(s)
           /\ k.tool = c.tool /\ k.arg = c.arg /\ k.held = None /\ k.pod = None /\ c.pod = None
           /\ k.refused = c.refused
           /\ k.at = "error" \/ (k.at = "running" /\ Running(k) /\ k.step = 1)
           /\ UNCHANGED <<phase, setup, toLoad, clusters, world, temps, lost>>
<1> DEFINE c == calls[s]
<1>1. /\ c \in Call /\ Typed /\ c.at = "received" /\ c.tool \notin RegistryTools
      /\ c.step = 1 /\ c.held = None /\ c.pod = None
  BY DEF IInv, Typed, RunningHold, ParseFromRequest
<1>2. UNCHANGED <<phase, setup, toLoad, clusters, world, temps, lost>>
  BY DEF ParseFromRequest
<1>3. CASE Complete(s) /\ clusters[c.id] # None
  <2> DEFINE since == {clusters[c.id]} \cup Early(c.id)
             k == [c EXCEPT !.at = "running", !.since = since]
  <2>1. c.id \in IDs /\ since \in SUBSET Instances
    <3>1. Early(c.id) \subseteq Instances
      BY DEF Early, Instances, Builders
    <3> QED
      BY <1>1, <1>3, <3>1 DEF Complete, Call, Typed
  <2>2. 1 \in DOMAIN Tools[c.tool].plan
    <3>1. Tools[c.tool].plan \in Seq(Requests) /\ Tools[c.tool].plan # <<>>
      BY <1>1, TheLaw DEF Call
    <3> QED
      BY <3>1
  <2>3. clusters[c.id] \in since /\ Early(c.id) \subseteq since
    OBVIOUS
  <2> HIDE DEF since
  <2>4. /\ k \in Call /\ k.at = "running" /\ k.tool = c.tool /\ k.id = c.id /\ k.arg = c.arg
        /\ k.step = 1 /\ k.held = None /\ k.pod = None /\ k.refused = c.refused
        /\ k.since = since
    BY <1>1, <2>1 DEF Call
  <2>5. calls' = [calls EXCEPT ![s] = k]
    BY <1>3 DEF ParseFromRequest, since
  <2> HIDE DEF k
  <2>6. Sole(s) /\ calls'[s] = k
    BY <1>1, <2>4, <2>5, CallSet
  <2>7. Running(k)
    BY <1>1, <1>3, <2>1, <2>2, <2>3, <2>4 DEF Running, Plan
  <2> QED
    BY <1>1, <1>2, <2>4, <2>6, <2>7
<1>4. CASE ~(Complete(s) /\ clusters[c.id] # None)
  <2> DEFINE k == [c EXCEPT !.at = "error"]
  <2>1. /\ k \in Call /\ k.at = "error" /\ k.tool = c.tool /\ k.id = c.id /\ k.arg = c.arg
        /\ k.held = None /\ k.pod = None /\ k.refused = c.refused
    BY <1>1 DEF Call, Ended
  <2>2. calls' = [calls EXCEPT ![s] = k]
    BY <1>4 DEF ParseFromRequest
  <2> HIDE DEF k
  <2>3. Sole(s) /\ calls'[s] = k
    BY <1>1, <2>1, <2>2, CallSet
  <2> QED
    BY <1>1, <1>2, <2>1, <2>3
<1> QED
  BY <1>3, <1>4

\* A new call takes the place of one that has ended.
LEMMA CallStep ==
    ASSUME IInv, NEW s \in Sessions, CallTool(s)
    PROVE  LET k == calls'[s] IN
           /\ phase = "serving" /\ calls[s].at \in Ended /\ calls[s].pod = None
           /\ Sole(s) /\ k.at = "received" /\ k.step = 1 /\ k.held = None /\ k.pod = None
           /\ k.arg \in Args(k.tool) /\ k.refused = {}
           /\ UNCHANGED <<phase, setup, toLoad, clusters, world, temps, lost>>
<1>1. /\ phase = "serving" /\ calls[s].at \in Ended /\ calls[s].count < Len(Menu[s])
      /\ UNCHANGED <<phase, setup, toLoad, clusters, world, temps, lost>>
  BY DEF CallTool
<1>2. calls[s] \in Call /\ Typed /\ OwnPod(calls[s])
  BY DEF IInv, Typed, PodsHold
<1>3. calls[s].pod = None
  BY <1>1, <1>2 DEF OwnPod, Ended
<1> DEFINE count == calls[s].count + 1
           k(t, id, arg, given) ==
               [NoCall EXCEPT !.at = "received", !.tool = t, !.id = id, !.arg = arg,
                              !.given = given, !.count = count]
<1>4. PICK t \in Menu[s][count], id \in IDs \cup {None} :
          \E arg \in Args(t),
             given \in {Tools[t].needs} \cup {Tools[t].needs \ {x} : x \in Tools[t].needs} :
              calls' = [calls EXCEPT ![s] = k(t, id, arg, given)]
  BY Zenon DEF CallTool
<1>5. PICK arg \in Args(t),
           given \in {Tools[t].needs} \cup {Tools[t].needs \ {x} : x \in Tools[t].needs} :
          calls' = [calls EXCEPT ![s] = k(t, id, arg, given)]
  BY <1>4, Zenon
<1>6. t \in DOMAIN Tools
  <2>1. Menu[s] \in Seq(SUBSET DOMAIN Tools) /\ count \in 1 .. Len(Menu[s])
    BY <1>1, <1>2, MenuAssumption DEF Call
  <2> QED
    BY <2>1
<1>7. count \in Nat /\ given \in SUBSET Needs /\ arg \in Class \cup Servers \cup {None}
  <2>1. given \subseteq Tools[t].needs
    OBVIOUS
  <2> QED
    BY <1>2, <1>6, <2>1 DEF Call, Needs, Args, Class
<1> HIDE DEF count
<1> DEFINE q == k(t, id, arg, given)
<1>8. /\ q \in Call /\ q.at = "received" /\ q.step = 1 /\ q.held = None /\ q.pod = None
      /\ q.tool = t /\ q.arg = arg /\ q.refused = {}
  <2>1. /\ NoCall \in Call /\ NoCall.step = 1 /\ NoCall.held = None /\ NoCall.pod = None
        /\ NoCall.refused = {}
    <3>1. 0 \in 0 .. MaxPolls - 1 /\ "ListClusters" \in DOMAIN Tools
      BY MaxPollsAssumption DEF Tools
    <3> QED
      BY <3>1 DEF NoCall, Call, Ended
  <2> QED
    BY <1>6, <1>7, <2>1 DEF Call
<1> HIDE DEF q
<1>9. Sole(s) /\ calls'[s] = q
  BY <1>2, <1>5, <1>8, CallSet DEF q
<1> QED
  BY <1>1, <1>3, <1>5, <1>8, <1>9

\* A call of another session than the one that takes a step.
Beside(k, c) ==
    /\ k \in Call
    /\ k.at = c.at /\ k.tool = c.tool /\ k.id = c.id /\ k.arg = c.arg /\ k.step = c.step
    /\ k.held = c.held /\ k.pod = c.pod /\ k.todo = c.todo /\ k.refused = c.refused
    /\ c.since \subseteq k.since /\ (c.gone => k.gone) /\ (k.alone => c.alone)
    /\ c.at \notin Busy => k.since = c.since /\ k.gone = c.gone

\* What the call of s is like after a step of the registry.
LEMMA RegisteredCall ==
    ASSUME IInv, NEW s \in Sessions, RegistryStep(s)
    PROVE  LET c == calls[s]
               k == calls'[s]
           IN
           /\ c.at \in {"received"} \cup Registering /\ c.tool \in RegistryTools
           /\ k \in Call /\ k.at \in Results(s) /\ k.tool = c.tool /\ k.id = c.id /\ k.arg = c.arg
           /\ k.pod = None /\ c.pod = None /\ k.held = c.held /\ k.refused = c.refused
           /\ (c.gone => k.gone)
           /\ phase' = phase \/ (phase' = "crashed" /\ k.at = "panicked")
           /\ UNCHANGED <<setup, toLoad, world, temps, lost>>
<1> DEFINE c == calls[s]
           k == calls'[s]
<1>1. /\ c.at \in {"received"} \cup Registering /\ c.tool \in RegistryTools /\ c.pod = None
      /\ phase' = phase \/ (phase' = "crashed" /\ k.at = "panicked")
      /\ UNCHANGED <<setup, toLoad, world, temps, lost>>
  BY RegistryCases DEF Registered
<1>2. PICK result \in Results(s) :
          \/ calls' = [calls EXCEPT ![s].at = result]
          \/ \E server \in Instances \cup {None} :
                c.id \in IDs /\ calls' = [Renamed(c.id, server) EXCEPT ![s].at = result]
  BY RegistryCases DEF Registered
<1>3. c \in Call /\ calls \in [Sessions -> Call] /\ Typed
      /\ result \in {"answered", "error", "hanging", "panicked"} \cup Registering
  BY DEF IInv, Typed, Results
<1>4. PICK d \in Call : /\ k = [d EXCEPT !.at = result] /\ d.tool = c.tool /\ d.id = c.id
                        /\ d.arg = c.arg /\ d.pod = c.pod /\ d.held = c.held
                        /\ d.refused = c.refused /\ (c.gone => d.gone)
  <2>1. CASE calls' = [calls EXCEPT ![s].at = result]
    <3>1. k = [c EXCEPT !.at = result]
      BY <1>3, <2>1
    <3> HIDE DEF k
    <3> QED
      BY <1>3, <3>1
  <2>2. ASSUME NEW server \in Instances \cup {None}, c.id \in IDs,
               calls' = [Renamed(c.id, server) EXCEPT ![s].at = result]
        PROVE  \E d \in Call : /\ k = [d EXCEPT !.at = result] /\ d.tool = c.tool /\ d.id = c.id
                               /\ d.arg = c.arg /\ d.pod = c.pod /\ d.held = c.held
                               /\ d.refused = c.refused /\ (c.gone => d.gone)
    <3> DEFINE d == Renamed(c.id, server)[s]
    <3>1. /\ d \in Call /\ d.tool = c.tool /\ d.id = c.id /\ d.arg = c.arg /\ d.pod = c.pod
          /\ d.held = c.held /\ d.refused = c.refused /\ (c.gone => d.gone)
      BY <1>3, <2>2, RenamedCalls
    <3>2. s \in DOMAIN Renamed(c.id, server)
      BY DEF Renamed
    <3>3. k = [d EXCEPT !.at = result]
      BY <2>2, <3>2
    <3> HIDE DEF d, k
    <3> QED
      BY <3>1, <3>3
  <2> QED
    BY <1>2, <2>1, <2>2
<1> HIDE DEF k
<1>5. /\ k \in Call /\ k.at = result /\ k.tool = c.tool /\ k.id = c.id /\ k.arg = c.arg
      /\ k.pod = c.pod /\ k.held = c.held /\ k.refused = c.refused /\ (c.gone => k.gone)
  BY <1>3, <1>4 DEF Call, Ended
<1> QED
  BY <1>1, <1>2, <1>5 DEF k

\* Whatever a session does, the others are beside it.
LEMMA Bystanders ==
    ASSUME IInv, NEW s \in Sessions, CallTool(s) \/ Handle(s)
    PROVE  /\ calls' \in [Sessions -> Call]
           /\ \A r \in Sessions \ {s} : Beside(calls'[r], calls[r])
<1>1. calls \in [Sessions -> Call] /\ Typed
  BY DEF IInv, Typed
<1>2. CASE Sole(s)
  BY <1>1, <1>2 DEF Sole, Beside
<1>3. CASE PatchClass(s)
  <2>1. calls' \in [Sessions -> Call] /\ \A r \in Sessions \ {s} : Aside(calls'[r], calls[r])
    BY <1>3, PatchStep
  <2>2. ASSUME NEW k \in Call, NEW c \in Call, Aside(k, c)
        PROVE  Beside(k, c)
    <3> DEFINE d == [k EXCEPT !.alone = c.alone]
    <3>1. /\ d.tool = k.tool /\ d.id = k.id /\ d.arg = k.arg /\ d.since = k.since /\ d.gone = k.gone
      BY DEF Call
    <3>2. Keeps(d, c)
      BY <2>2 DEF Aside
    <3> HIDE DEF d
    <3> QED
      BY <2>2, <3>1, <3>2 DEF Aside, Beside, Keeps
  <2> QED
    BY <1>1, <2>1, <2>2
<1>4. CASE RegistryStep(s)
  <2> DEFINE c == calls[s]
  <2>1. PICK result \in Results(s) :
            \/ calls' = [calls EXCEPT ![s].at = result]
            \/ \E server \in Instances \cup {None} :
                  c.id \in IDs /\ calls' = [Renamed(c.id, server) EXCEPT ![s].at = result]
    BY <1>4, RegistryCases DEF Registered
  <2>2. calls'[s] \in Call
    BY <1>4, RegisteredCall
  <2>3. CASE calls' = [calls EXCEPT ![s].at = result]
    <3>1. Sole(s)
      BY <1>1, <2>2, <2>3 DEF Sole
    <3> QED
      BY <1>2, <3>1
  <2>4. ASSUME NEW server \in Instances \cup {None}, c.id \in IDs,
               calls' = [Renamed(c.id, server) EXCEPT ![s].at = result]
        PROVE  /\ calls' \in [Sessions -> Call]
               /\ \A r \in Sessions \ {s} : Beside(calls'[r], calls[r])
    <3> DEFINE renamed == Renamed(c.id, server)
    <3>1. ASSUME NEW r \in Sessions
          PROVE  renamed[r] \in Call /\ Beside(renamed[r], calls[r])
      BY <1>1, <2>4, RenamedCalls DEF Beside
    <3>2. renamed = [r \in Sessions |-> renamed[r]]
      BY DEF Renamed
    <3> HIDE DEF renamed
    <3>3. /\ calls' = [r \in Sessions |-> calls'[r]]
          /\ \A r \in Sessions \ {s} : calls'[r] = renamed[r]
      BY <2>4, <3>2 DEF renamed
    <3> QED
      BY <2>2, <3>1, <3>3
  <2> QED
    BY <2>1, <2>3, <2>4
<1> QED
  BY <1>2, <1>3, <1>4, CallStep, ParseStep, CheckStep, GoneStep, SendStep, MakeStep, PollStep,
     DropStep, ListStep, KubeconfigStep DEF Handle, RegistryStep

\* The call c may have changed an object, early or not.
Adds(new, old, c) ==
    /\ new.touched \subseteq old.touched \cup (IF IsEarly(c) THEN {} ELSE {c.tool})
    /\ new.early \subseteq old.early \cup {c.tool}

\* What a request changes on the servers, and which may.
LEMMA Touching ==
    ASSUME IInv, NEW s \in Sessions, calls[s].at = "running", Target(s) \in Servers
    PROVE  LET w == Touch(s) IN
           /\ w \in [Servers -> World]
           /\ \A a \in Servers :
                 /\ w[a].diag = world[a].diag /\ w[a].defaults = world[a].defaults
                 /\ Adds(w[a], world[a], calls[s])
<1> DEFINE a == Target(s)
           t == calls[s].tool
           touched == world[a].touched \cup {t}
           early == world[a].early \cup {t}
           new == IF IsEarly(calls[s]) THEN [world[a] EXCEPT !.early = early]
                  ELSE [world[a] EXCEPT !.touched = touched]
<1>1. world \in [Servers -> World] /\ t \in DOMAIN Tools
  BY RequestFacts DEF IInv, Typed
<1>2. world[a] \in World
  BY <1>1
<1>3. touched \in SUBSET DOMAIN Tools /\ early \in SUBSET DOMAIN Tools
  BY <1>1, <1>2 DEF World
<1>4. Touch(s) = [world EXCEPT ![a] = new]
  BY DEF Touch
<1> HIDE DEF touched, early
<1>5. /\ new \in World /\ new.diag = world[a].diag /\ new.defaults = world[a].defaults
      /\ new.touched = IF IsEarly(calls[s]) THEN world[a].touched ELSE touched
      /\ new.early = IF IsEarly(calls[s]) THEN early ELSE world[a].early
  BY <1>2, <1>3 DEF World
<1> HIDE DEF new
<1>6. Adds(new, world[a], calls[s])
  BY <1>5 DEF Adds, touched, early
<1>7. \A b \in Servers : Adds(world[b], world[b], calls[s])
  BY DEF Adds
<1> HIDE DEF a
<1> QED
  BY <1>1, <1>4, <1>5, <1>6, <1>7 DEF a

\* Patching a class changes the defaults of one tool on one server.
LEMMA Patching ==
    ASSUME IInv, NEW s \in Sessions, calls[s].at = "running", Target(s) \in Servers,
           calls[s].tool \in ClassTools, NEW class \in Class
    PROVE  LET t == calls[s].tool
               b == Target(s)
               w == [Touch(s) EXCEPT ![b].defaults[t] =
                        IF class = calls[s].arg THEN @ \cup {class} ELSE @ \ {class}]
           IN
           /\ w \in [Servers -> World]
           /\ \A a \in Servers :
                 /\ w[a].diag = world[a].diag
                 /\ Adds(w[a], world[a], calls[s])
           /\ \A a \in Servers, u \in ClassTools :
                 w[a].defaults[u] = IF a # b \/ u # t THEN world[a].defaults[u]
                                    ELSE IF class = calls[s].arg THEN world[a].defaults[u] \cup {class}
                                    ELSE world[a].defaults[u] \ {class}
<1> DEFINE t == calls[s].tool
           b == Target(s)
           v == Touch(s)
           old == v[b].defaults[t]
           new == IF class = calls[s].arg THEN old \cup {class} ELSE old \ {class}
           defaults == [v[b].defaults EXCEPT ![t] = new]
           one == [v[b] EXCEPT !.defaults = defaults]
<1>1. /\ v \in [Servers -> World]
      /\ \A a \in Servers :
            /\ v[a].diag = world[a].diag /\ v[a].defaults = world[a].defaults
            /\ Adds(v[a], world[a], calls[s])
  BY Touching
<1> HIDE DEF v
<1>2. v[b] \in World /\ v[b].defaults \in [ClassTools -> SUBSET Class]
  BY <1>1 DEF World
<1>3. new \in SUBSET Class
  BY <1>2
<1> HIDE DEF new
<1>4. /\ defaults \in [ClassTools -> SUBSET Class]
      /\ \A u \in ClassTools : defaults[u] = IF u = t THEN new ELSE v[b].defaults[u]
  BY <1>2, <1>3
<1> HIDE DEF defaults
<1>5. /\ one \in World /\ one.diag = v[b].diag /\ one.touched = v[b].touched
      /\ one.early = v[b].early /\ one.defaults = defaults
  BY <1>2, <1>4 DEF World
<1>6. [v EXCEPT ![b].defaults[t] = IF class = calls[s].arg THEN @ \cup {class} ELSE @ \ {class}]
        = [v EXCEPT ![b] = one]
  BY DEF new, defaults
<1> HIDE DEF one
<1>7. \A a \in Servers : [v EXCEPT ![b] = one][a] = IF a = b THEN one ELSE v[a]
  BY <1>1
<1>8. [v EXCEPT ![b] = one] \in [Servers -> World]
  BY <1>1, <1>5
<1> DEFINE w == [v EXCEPT ![b] = one]
<1> HIDE DEF w
<1>a. Adds(one, world[b], calls[s])
  BY <1>1, <1>5 DEF Adds
<1>9. \A a \in Servers : w[a].diag = world[a].diag /\ Adds(w[a], world[a], calls[s])
  BY <1>1, <1>5, <1>7, <1>a DEF w
<1>10. \A a \in Servers, u \in ClassTools :
          w[a].defaults[u] = IF a # b \/ u # t THEN world[a].defaults[u] ELSE new
  BY <1>1, <1>4, <1>5, <1>7 DEF w
<1>11. new = IF class = calls[s].arg THEN world[b].defaults[t] \cup {class}
             ELSE world[b].defaults[t] \ {class}
  BY <1>1 DEF new
<1>12. [Touch(s) EXCEPT ![b].defaults[t] =
          IF class = calls[s].arg THEN @ \cup {class} ELSE @ \ {class}] = w
  BY <1>6 DEF v, w
<1>13. w \in [Servers -> World]
  BY <1>8 DEF w
<1>14. \A a \in Servers, u \in ClassTools :
          w[a].defaults[u] = IF a # b \/ u # t THEN world[a].defaults[u]
                             ELSE IF class = calls[s].arg THEN world[a].defaults[u] \cup {class}
                             ELSE world[a].defaults[u] \ {class}
  BY <1>10, <1>11
<1> QED
  BY <1>9, <1>12, <1>13, <1>14

\* A step changes the servers only by a request that may.
LEMMA WorldStep ==
    ASSUME IInv, NEW s \in Sessions, CallTool(s) \/ Handle(s)
    PROVE  /\ world' \in [Servers -> World]
           /\ \A a \in Servers :
                 /\ \/ /\ world'[a].touched \subseteq world[a].touched
                       /\ world'[a].early \subseteq world[a].early
                    \/ /\ calls[s].at = "running" /\ Request(s).verb \in Writes /\ ~DenyAction(s)
                       /\ Adds(world'[a], world[a], calls[s])
                 /\ ~PatchClass(s) => world'[a].defaults = world[a].defaults
                 /\ ~MakePod(s) /\ ~DropPod(s) => world'[a].diag = world[a].diag
<1>1. world \in [Servers -> World] /\ Typed
  BY DEF IInv, Typed
<1>2. CASE world' = world
  BY <1>1, <1>2
<1>3. CASE SendRequest(s)
  <2>1. calls[s].at = "running" /\ (Request(s).verb \in Writes => Target(s) \in Servers)
    BY <1>3, SendStep DEF Carried
  <2>2. CASE world' = Touch(s) /\ Request(s).verb \in Writes /\ ~DenyAction(s)
    BY <2>1, <2>2, Touching
  <2> QED
    BY <1>2, <1>3, <2>2, SendStep
<1>4. CASE MakePod(s)
  <2>1. calls[s].at = "running" /\ Target(s) \in Servers
    BY <1>4, MakeStep
  <2>2. Request(s).verb \in Writes /\ ~DenyAction(s)
    BY <1>4 DEF MakePod, Sends, Writes, DenyAction
  <2>3. ASSUME NEW name \in PodNames,
               world' = [Touch(s) EXCEPT ![Target(s)].diag = @ \cup {name}]
        PROVE  /\ world' \in [Servers -> World]
               /\ \A a \in Servers :
                     /\ Adds(world'[a], world[a], calls[s])
                     /\ world'[a].defaults = world[a].defaults
    <3> DEFINE v == Touch(s)
               b == Target(s)
               diag == v[b].diag \cup {name}
               one == [v[b] EXCEPT !.diag = diag]
    <3>1. /\ v \in [Servers -> World]
          /\ \A a \in Servers :
                v[a].defaults = world[a].defaults /\ Adds(v[a], world[a], calls[s])
      BY <2>1, Touching
    <3> HIDE DEF v
    <3>2. v[b] \in World /\ diag \in SUBSET PodNames
      BY <2>1, <3>1 DEF World
    <3>3. world' = [v EXCEPT ![b] = one]
      BY <2>3 DEF v
    <3> HIDE DEF diag, b
    <3>4. /\ one \in World /\ one.touched = v[b].touched /\ one.early = v[b].early
          /\ one.defaults = v[b].defaults
      BY <3>2 DEF World
    <3> HIDE DEF one
    <3>5. Adds(one, world[b], calls[s])
      BY <2>1, <3>1, <3>4 DEF Adds, b
    <3> QED
      BY <2>1, <3>1, <3>3, <3>4, <3>5 DEF b
  <2> QED
    BY <1>2, <1>4, <2>1, <2>2, <2>3, MakeStep DEF PatchClass, Sends, MakePod
<1>5. CASE DropPod(s)
  <2> DEFINE c == calls[s]
             b == c.held
             diag == world[b].diag \ {c.pod}
             one == [world[b] EXCEPT !.diag = diag]
  <2>1. /\ b \in Servers /\ c.at = "cleanup"
        /\ world' = [world EXCEPT ![b] = one] \/ world' = world
    BY <1>5, DropStep
  <2>2. world[b] \in World /\ diag \in SUBSET PodNames
    BY <1>1, <2>1 DEF World
  <2> HIDE DEF diag, b
  <2>3. /\ one \in World /\ one.touched = world[b].touched /\ one.early = world[b].early
        /\ one.defaults = world[b].defaults
    BY <2>2 DEF World
  <2> HIDE DEF one
  <2> QED
    BY <1>1, <1>2, <1>5, <2>1, <2>3
<1>6. CASE PatchClass(s)
  <2> DEFINE c == calls[s]
  <2>1. c.at = "running" /\ Target(s) \in Servers /\ c.tool \in ClassTools /\ c \in Call
    BY <1>1, <1>6, PatchStep DEF Typed
  <2>2. Request(s).verb \in Writes
    BY <1>6 DEF PatchClass, Sends, Writes
  <2>3. PICK class \in c.todo, applied \in BOOLEAN :
            /\ DenyAction(s) => ~applied
            /\ world' = IF ~applied THEN world
                        ELSE [Touch(s) EXCEPT ![Target(s)].defaults[c.tool] =
                                IF class = c.arg THEN @ \cup {class} ELSE @ \ {class}]
    BY <1>6, PatchStep
  <2>4. class \in Class
    BY <2>1 DEF Call
  <2>5. CASE applied
    <3> DEFINE w == [Touch(s) EXCEPT ![Target(s)].defaults[c.tool] =
                        IF class = c.arg THEN @ \cup {class} ELSE @ \ {class}]
    <3>1. /\ w \in [Servers -> World]
          /\ \A a \in Servers : w[a].diag = world[a].diag /\ Adds(w[a], world[a], c)
      BY <2>1, <2>4, Patching
    <3>2. world' = w
      BY <2>3, <2>5
    <3> HIDE DEF w
    <3> QED
      BY <1>6, <2>1, <2>2, <2>3, <2>5, <3>1, <3>2
  <2> QED
    BY <1>2, <2>3, <2>5
<1>7. CASE RegistryStep(s)
  <2>1. world' = world
    BY <1>7, RegisteredCall
  <2> QED
    BY <1>2, <2>1
<1> QED
  BY <1>2, <1>3, <1>4, <1>5, <1>6, <1>7, CallStep, ParseStep, CheckStep, GoneStep, PollStep,
     ListStep, KubeconfigStep DEF Handle, RegistryStep

-----------------------------------------------------------------------------
(* The parts of the invariant, one by one *)

Step(s) == CallTool(s) \/ Handle(s)

LEMMA TypedStep ==
    ASSUME IInv, NEW s \in Sessions, Step(s)
    PROVE  Typed'
<1> USE DEF Step
<1>1. Typed
  BY DEF IInv
<1>2. calls' \in [Sessions -> Call] /\ world' \in [Servers -> World]
  BY Bystanders, WorldStep
<1>3. CASE RegistryStep(s)
  <2>1. clusters' \in [IDs -> Instances \cup {None}]
    <3>1. \/ clusters' = clusters
          \/ \E server \in Instances \cup {None} :
                clusters' = [clusters EXCEPT ![calls[s].id] = server]
      BY <1>3, RegistryCases DEF Registered
    <3> QED
      BY <1>1, <3>1 DEF Typed
  <2> QED
    BY <1>1, <1>2, <1>3, <2>1, RegisteredCall DEF Typed
<1>4. CASE MakePod(s)
  BY <1>1, <1>2, <1>4, MakeStep DEF Typed
<1>5. CASE DropPod(s)
  <2>1. lost' \subseteq lost \cup (Servers \X PodNames)
    <3>1. calls[s].held \in Servers /\ calls[s].pod \in PodNames
      BY <1>5, DropStep
    <3>2. <<calls[s].held, calls[s].pod>> \in Servers \X PodNames
      BY <3>1
    <3>3. \/ lost' = lost \ {<<calls[s].held, calls[s].pod>>}
          \/ lost' = lost \cup {<<calls[s].held, calls[s].pod>>}
      BY <1>5, DropStep
    <3> QED
      BY <3>2, <3>3
  <2> QED
    BY <1>1, <1>2, <1>5, <2>1, DropStep DEF Typed
<1>6. CASE SendRequest(s)
  BY <1>1, <1>2, <1>6, SendStep DEF Typed, Carried
<1>7. CASE WriteKubeconfig(s)
  BY <1>1, <1>2, <1>7, KubeconfigStep DEF Typed, Carried
<1>8. CASE CallTool(s) \/ ParseFromRequest(s)
  BY <1>1, <1>2, <1>8, CallStep, ParseStep DEF Typed
<1>9. CASE CheckArguments(s) \/ PollPod(s) \/ ListClasses(s)
  BY <1>1, <1>2, <1>9, CheckStep, PollStep, ListStep DEF Typed, Carried
<1>10. CASE ClusterIsGone(s)
  BY <1>1, <1>2, <1>10, GoneStep DEF Typed
<1>11. CASE PatchClass(s)
  BY <1>1, <1>2, <1>11, PatchStep DEF Typed
<1> QED
  BY <1>3, <1>4, <1>5, <1>6, <1>7, <1>8, <1>9, <1>10, <1>11 DEF Handle, RegistryStep

\* A call that goes on with its plan.
LEMMA CarriedGoesOn ==
    ASSUME IInv, NEW s \in Sessions, Sole(s), Carried(s)
    PROVE  LET k == calls'[s] IN
           /\ k.at = "running" => GoesOn(k) /\ Running(k)
           /\ k.at \in {"running", "hanging", "cleanup", "answered", "error"}
           /\ OwnPod(k)
<1> DEFINE c == calls[s]
           k == calls'[s]
<1>1. /\ c.at = "running" /\ Keeps(k, c) /\ (GoesOn(k) \/ Ends(k) \/ Hangs(k, c))
      /\ GoesOn(k) => k.step >= c.step
      /\ k.pod = c.pod /\ (c.pod # None => k.held = c.held)
      /\ k.held = c.held \/ k.held = Target(s)
      /\ k \in Call
  BY DEF Carried, Sole
<1>2. c \in Call /\ Running(c) /\ OwnPod(c) /\ Target(s) \in c.since \cup {None}
  BY <1>1, RequestFacts
<1> HIDE DEF k, c
<1>3. /\ k.at \in {"running", "hanging", "cleanup", "answered", "error"}
      /\ k.at = "running" => GoesOn(k)
  BY <1>1 DEF GoesOn, Ends, Hangs
<1>4. k.at = "running" => Running(k)
  BY <1>1, <1>2, <1>3 DEF Keeps, Running, GoesOn
<1>5. c.pod = None => OwnPod(k)
  BY <1>1 DEF OwnPod, GoesOn, Ends, Hangs
<1>6. ASSUME c.pod # None PROVE OwnPod(k)
  <2>1. c.tool = "DiagnosePodNetwork" /\ c.held \in Servers /\ c.step \in {3, 4}
    BY <1>1, <1>2, <1>6 DEF OwnPod
  <2>2. Plan(k) \in Seq(Requests) /\ Len(Plan(k)) = 4
    BY <1>1, <2>1, PlanLengths, TheLaw DEF Keeps, Call, Plan
  <2>3. k.at = "running" => k.step \in {3, 4}
    BY <1>1, <1>3, <2>1, <2>2 DEF GoesOn
  <2> QED
    BY <1>1, <1>6, <2>1, <2>3 DEF OwnPod, GoesOn, Ends, Hangs, Keeps
<1> QED
  BY <1>3, <1>4, <1>5, <1>6 DEF k

CarriedStep(s) ==
    \/ CheckArguments(s) \/ PollPod(s) \/ SendRequest(s) \/ ListClasses(s) \/ WriteKubeconfig(s)

LEMMA CarriedCases ==
    ASSUME IInv, NEW s \in Sessions, CarriedStep(s)
    PROVE  Sole(s) /\ Carried(s)
BY CheckStep, PollStep, SendStep, ListStep, KubeconfigStep DEF CarriedStep

\* The actions, grouped.
LEMMA StepCases ==
    ASSUME NEW s \in Sessions, Step(s)
    PROVE  \/ CallTool(s) \/ RegistryStep(s) \/ ParseFromRequest(s) \/ CarriedStep(s)
           \/ ClusterIsGone(s) \/ MakePod(s) \/ DropPod(s) \/ PatchClass(s)
BY DEF Step, Handle, RegistryStep, CarriedStep

\* What RunningHold says of the call of r.
Runs(r) ==
    LET c == calls[r] IN
    /\ c.at = "received" => /\ c.step = 1 /\ c.held = None /\ c.pod = None
                            /\ c.arg \in Args(c.tool)
    /\ c.at = "running" => Running(c)
    /\ c.at \in Registering => Building(r)

\* A registration comes to what its instance is good for when that was half
\* built.
LEMMA EarlyStep ==
    ASSUME IInv, NEW s \in Sessions, Step(s), NEW id, id \in IDs
    PROVE  Early(id)' \subseteq Early(id) \cup ({s} \cap {clusters[id]})
<1> DEFINE c == calls[s]
           k == calls'[s]
<1>1. SUFFICES ASSUME NEW q \in Sessions, calls'[q].at \in {"opening", "stalled"},
                      calls'[q].id = id, ~calls'[q].gone
               PROVE  q \in Early(id) \/ (q = s /\ clusters[id] = s)
  BY Zenon DEF Early
<1>2. CASE q # s
  <2>1. Beside(calls'[q], calls[q])
    BY <1>2, Bystanders DEF Step
  <2> QED
    BY <1>1, <2>1 DEF Beside, Early
<1>3. CASE q = s
  <2>1. RegistryStep(s)
    <3>1. ~CallTool(s) /\ ~ParseFromRequest(s) /\ ~ClusterIsGone(s) /\ ~DropPod(s)
      BY <1>1, <1>3, CallStep, ParseStep, GoneStep, DropStep
    <3>2. ~MakePod(s) /\ ~PatchClass(s)
      BY <1>1, <1>3, MakeStep, PatchStep DEF GoesOn
    <3>3. ~CarriedStep(s)
      BY <1>1, <1>3, CarriedCases, CarriedGoesOn
    <3> QED
      BY <3>1, <3>2, <3>3, StepCases
  <2>2. k.at \in Results(s) /\ k.id = c.id /\ (c.gone => k.gone)
    BY <2>1, RegisteredCall
  <2>3. c.at = IF k.at = "opening" THEN "building" ELSE "opening"
    BY <1>1, <1>3, <2>2 DEF Results, Registering
  <2>4. c.at = "building" => clusters[c.id] = s \/ c.gone
    BY DEF IInv, RunningHold, Building, Registering
  <2> QED
    BY <1>1, <1>3, <2>2, <2>3, <2>4 DEF Early
<1> QED
  BY <1>2, <1>3

\* So a running call keeps to have met them.
LEMMA StillMet ==
    ASSUME IInv, NEW s \in Sessions, Step(s), NEW c, Running(c)
    PROVE  Early(c.id)' \subseteq c.since
<1>1. /\ c.id \in IDs /\ Early(c.id) \subseteq c.since /\ clusters[c.id] \in c.since \cup {None}
  BY DEF Running
<1>2. s # None
  BY NamesAssumption DEF Builders
<1>3. Early(c.id)' \subseteq Early(c.id) \cup ({s} \cap {clusters[c.id]})
  BY <1>1, EarlyStep
<1> QED
  BY <1>1, <1>2, <1>3

\* The registry leaves the running calls and registrations of others in order.
LEMMA OthersRun ==
    ASSUME IInv, NEW s \in Sessions, NEW r \in Sessions \ {s},
           NEW server \in Instances \cup {None}, calls[s].id \in IDs,
           server # None => clusters[calls[s].id] \in {None, s},
           clusters' = [clusters EXCEPT ![calls[s].id] = server],
           calls'[r] = Renamed(calls[s].id, server)[r],
           calls[r].at = "running" =>
              \A id \in {calls[r].id} : Early(id)' \subseteq calls[r].since
    PROVE  Runs(r)'
<1> DEFINE id == calls[s].id
           c == calls[r]
           k == calls'[r]
<1>1. Typed /\ Runs(r) /\ clusters \in [IDs -> Instances \cup {None}]
  BY DEF IInv, Typed, RunningHold, Runs
<1>2. clusters'[id] = server /\ \A one \in IDs \ {id} : clusters'[one] = clusters[one]
  BY <1>1
<1>3. /\ k.at = c.at /\ k.tool = c.tool /\ k.id = c.id /\ k.arg = c.arg /\ k.step = c.step
      /\ k.held = c.held /\ k.pod = c.pod
      /\ c.since \subseteq k.since /\ (c.gone => k.gone)
      /\ c.at \in Busy /\ c.id = id =>
            server \in k.since \cup {None} /\ (server = None => k.gone)
  BY <1>1, RenamedCalls
<1> HIDE DEF k, c
<1>4. k.at = "received" => k.step = 1 /\ k.held = None /\ k.pod = None /\ k.arg \in Args(k.tool)
  BY <1>1, <1>3 DEF Runs, c
<1>5. ASSUME k.at = "running" PROVE Running(calls[r])'
  <2>1. Running(c) /\ c.at \in Busy
    BY <1>1, <1>3, <1>5 DEF Runs, Busy, c
  <2>4. \A one \in {k.id} : Early(one)' \subseteq k.since
    BY <1>3, <1>5 DEF c
  <2>2. clusters'[k.id] \in k.since \cup {None} /\ (clusters'[k.id] = None => k.gone)
    <3>1. CASE c.id = id
      BY <1>2, <1>3, <2>1, <3>1
    <3>2. CASE c.id # id
      BY <1>2, <1>3, <2>1, <3>2 DEF Running
    <3> QED
      BY <3>1, <3>2
  <2>3. /\ k.tool \notin RegistryTools /\ k.id \in IDs /\ k.step \in DOMAIN Plan(k)
        /\ k.held \in k.since \cup {None}
    BY <1>3, <2>1 DEF Running, Plan
  <2> QED
    BY <2>2, <2>3, <2>4 DEF Running, Plan, k
<1>6. ASSUME k.at \in Registering PROVE Building(r)'
  <2>1. /\ c.tool = "RegisterCluster" /\ c.id \in IDs /\ c.pod = None /\ c.at \in Busy
        /\ c.at = "building" => c.arg \in Servers \cup {None} /\ (clusters[c.id] = r \/ c.gone)
        /\ c.at # "building" => c.arg \in Servers /\ (clusters[c.id] = c.arg \/ c.gone)
    BY <1>1, <1>3, <1>6 DEF Runs, Building, Busy, c
  <2>2. CASE c.id # id
    BY <1>2, <1>3, <2>1, <2>2 DEF Building, k
  <2>3. CASE c.id = id
    <3>1. k.gone
      <4>1. CASE server = None
        BY <1>3, <2>1, <2>3, <4>1
      <4>2. CASE server # None
        <5>1. clusters[c.id] \in {None, s}
          BY <2>3, <4>2
        <5>2. r \in Builders /\ s \in Builders /\ r # s
          BY DEF Builders
        <5>3. c.gone
          BY <1>6, <1>3, <2>1, <5>1, <5>2, NamesAssumption
        <5> QED
          BY <1>3, <5>3
      <4> QED
        BY <4>1, <4>2
    <3> QED
      BY <1>3, <2>1, <3>1 DEF Building, k
  <2> QED
    BY <2>2, <2>3
<1> QED
  BY <1>4, <1>5, <1>6 DEF Runs, k

LEMMA RunningStep ==
    ASSUME IInv, NEW s \in Sessions, Step(s)
    PROVE  RunningHold'
<1>1. RunningHold /\ \A r \in Sessions \ {s} : Beside(calls'[r], calls[r])
  BY Bystanders DEF IInv, Step
<1>2. SUFFICES ASSUME NEW r \in Sessions
               PROVE  Runs(r)'
  BY DEF RunningHold, Runs
<1>a. calls[r].at = "running" => \A id \in {calls[r].id} : Early(id)' \subseteq calls[r].since
  BY <1>1, StillMet DEF RunningHold
<1>3. CASE RegistryStep(s)
  <2> DEFINE c == calls[s]
  <2>1. PICK result \in Results(s) :
            \/ calls' = [calls EXCEPT ![s].at = result] /\ UNCHANGED clusters
            \/ \E server \in Instances \cup {None} :
                  /\ c.id \in IDs
                  /\ server # None => clusters[c.id] \in {None, s}
                  /\ clusters' = [clusters EXCEPT ![c.id] = server]
                  /\ calls' = [Renamed(c.id, server) EXCEPT ![s].at = result]
    BY <1>3, RegistryCases DEF Registered
  <2>2. calls \in [Sessions -> Call]
    BY DEF IInv, Typed
  <2>3. CASE r = s
    <3> DEFINE k == calls'[s]
    <3>1. /\ k.at \in Results(s) /\ k.id = c.id /\ k.arg = c.arg /\ k.tool = c.tool /\ k.pod = None
          /\ (c.gone => k.gone)
      BY <1>3, RegisteredCall
    <3>2. /\ k.at \notin {"received", "running"}
          /\ k.at = "building" => /\ c.tool = "RegisterCluster" /\ c.id \in IDs
                                  /\ c.arg \in Servers \cup {None} /\ clusters'[c.id] = s
          /\ k.at \in Registering \ {"building"} =>
                /\ c.at \in Registering
                /\ c.arg \in Servers /\ (clusters'[c.id] = c.arg \/ c.gone)
      BY <3>1 DEF Results, Registering
    <3>3. c.at \in Registering => c.tool = "RegisterCluster" /\ c.id \in IDs
      BY <1>1 DEF RunningHold, Building
    <3> QED
      BY <2>3, <3>1, <3>2, <3>3 DEF Runs, Building
  <2>4. CASE r # s /\ UNCHANGED <<clusters, calls[r]>>
    <3>1. Runs(r)
      BY <1>1 DEF RunningHold, Runs
    <3>2. calls[r].at = "running" => Running(calls[r])'
      BY <1>a, <2>4, <3>1 DEF Runs, Running, Plan
    <3> QED
      BY <2>4, <3>1, <3>2 DEF Runs, Building
  <2>5. CASE r # s /\ \E server \in Instances \cup {None} :
                          /\ c.id \in IDs
                          /\ server # None => clusters[c.id] \in {None, s}
                          /\ clusters' = [clusters EXCEPT ![c.id] = server]
                          /\ calls' = [Renamed(c.id, server) EXCEPT ![s].at = result]
    <3>1. PICK server \in Instances \cup {None} :
              /\ c.id \in IDs
              /\ server # None => clusters[c.id] \in {None, s}
              /\ clusters' = [clusters EXCEPT ![c.id] = server]
              /\ calls' = [Renamed(c.id, server) EXCEPT ![s].at = result]
      BY <2>5
    <3>2. calls'[r] = Renamed(c.id, server)[r]
      <4>1. r \in DOMAIN Renamed(c.id, server)
        BY DEF Renamed
      <4> QED
        BY <2>5, <3>1, <4>1
    <3> QED
      BY <1>a, <2>5, <3>1, <3>2, OthersRun
  <2> QED
    BY <2>1, <2>2, <2>3, <2>4, <2>5
<1>4. CASE ~RegistryStep(s) /\ r # s
  <2>1. clusters' = clusters
    BY <1>4, StepCases, CallStep, ParseStep, CarriedCases, GoneStep, MakeStep, DropStep,
       PatchStep DEF Carried
  <2>2. Beside(calls'[r], calls[r]) /\ Runs(r)
    BY <1>1, <1>4 DEF RunningHold, Runs
  <2>3. calls'[r].at = "running" => Running(calls[r])'
    BY <1>a, <2>1, <2>2 DEF Runs, Beside, Running, Plan
  <2>4. calls'[r].at \in Registering => Building(r)'
    BY <2>1, <2>2 DEF Runs, Beside, Building
  <2> QED
    BY <2>2, <2>3, <2>4 DEF Runs, Beside
<1>5. CASE ~RegistryStep(s) /\ r = s
  <2> DEFINE c == calls[s]
             k == calls'[s]
  <2>1. CASE CallTool(s)
    BY <1>5, <2>1, CallStep DEF Runs, Registering
  <2>a. k.at = "running" /\ Running(k) /\ clusters' = clusters
            /\ (\A id \in {k.id} : Early(id)' \subseteq k.since) => Running(calls[r])'
    BY <1>5 DEF Running, Plan
  <2>b. Running(k) => \A id \in {k.id} : Early(id)' \subseteq k.since
    BY StillMet
  <2>2. CASE ParseFromRequest(s)
    BY <1>5, <2>2, <2>a, <2>b, ParseStep DEF Runs, Registering
  <2>3. CASE CarriedStep(s)
    <3>1. /\ k.at = "running" => Running(k)
          /\ k.at \in {"running", "hanging", "cleanup", "answered", "error"}
      BY <2>3, CarriedCases, CarriedGoesOn
    <3>2. clusters' = clusters
      BY <2>3, CarriedCases DEF Carried
    <3> QED
      BY <1>5, <2>a, <2>b, <3>1, <3>2 DEF Runs, Registering
  <2>4. CASE ClusterIsGone(s)
    BY <1>5, <2>4, GoneStep DEF Runs, Registering
  <2>5. CASE DropPod(s)
    BY <1>5, <2>5, DropStep DEF Runs, Registering
  <2>6. CASE MakePod(s)
    <3>1. /\ c.at = "running" /\ Keeps(k, c) /\ k.held = Target(s) /\ clusters' = clusters
          /\ GoesOn(k) \/ k.at \in {"error", "hanging"}
      BY <2>6, MakeStep
    <3>2. Running(c) /\ Target(s) \in c.since \cup {None}
      BY <3>1, RequestFacts
    <3> HIDE DEF k
    <3>3. k.at \in {"error", "hanging"} \/ (k.at = "running" /\ Running(k))
      BY <3>1, <3>2 DEF Keeps, Running, GoesOn, Plan
    <3> QED
      BY <1>5, <2>a, <2>b, <3>1, <3>3 DEF Runs, Registering, k
  <2>7. CASE PatchClass(s)
    <3>1. /\ c.at = "running" /\ Keeps(k, c) /\ k.held = c.held /\ clusters' = clusters
          /\ GoesOn(k) \/ k.at \in {"answered", "error", "hanging"}
      BY <2>7, PatchStep
    <3>2. Running(c)
      BY <3>1, RequestFacts
    <3> HIDE DEF k
    <3>3. k.at \in {"answered", "error", "hanging"} \/ (k.at = "running" /\ Running(k))
      BY <3>1, <3>2 DEF Keeps, Running, GoesOn, Plan
    <3> QED
      BY <1>5, <2>a, <2>b, <3>1, <3>3 DEF Runs, Registering, k
  <2> QED
    BY <1>5, <2>1, <2>2, <2>3, <2>4, <2>5, <2>6, <2>7, StepCases
<1> QED
  BY <1>3, <1>4, <1>5

LEMMA OwnPodStep ==
    ASSUME IInv, NEW s \in Sessions, Step(s), NEW r \in Sessions
    PROVE  OwnPod(calls'[r])
<1> DEFINE c == calls[s]
           k == calls'[s]
<1>1. CASE r # s
  <2>1. Beside(calls'[r], calls[r]) /\ OwnPod(calls[r])
    BY <1>1, Bystanders DEF IInv, PodsHold, Step
  <2> QED
    BY <2>1 DEF Beside, OwnPod
<1>2. CASE r = s
  <2>1. CASE CarriedStep(s)
    BY <1>2, <2>1, CarriedCases, CarriedGoesOn
  <2>2. CASE CallTool(s) \/ ParseFromRequest(s)
    BY <1>2, <2>2, CallStep, ParseStep DEF OwnPod
  <2>3. CASE ClusterIsGone(s) \/ DropPod(s)
    BY <1>2, <2>3, GoneStep, DropStep DEF OwnPod
  <2>4. CASE PatchClass(s)
    BY <1>2, <2>4, PatchStep DEF OwnPod, GoesOn
  <2>5. CASE MakePod(s)
    <3>1. /\ Keeps(k, c) /\ k.held \in Servers /\ c.tool = "DiagnosePodNetwork"
          /\ \/ GoesOn(k) /\ k.step = 3
             \/ k.at \in {"error", "hanging"} /\ k.pod = None
      BY <2>5, MakeStep
    <3> QED
      BY <1>2, <3>1 DEF OwnPod, Keeps, GoesOn
  <2>6. CASE RegistryStep(s)
    <3>1. k.pod = None /\ k.at # "cleanup"
      BY <2>6, RegisteredCall DEF Results, Registering
    <3> QED
      BY <1>2, <3>1 DEF OwnPod
  <2> QED
    BY <2>1, <2>2, <2>3, <2>4, <2>5, <2>6, StepCases
<1> QED
  BY <1>1, <1>2

\* Where no call gets or loses a pod, and no server either.
LEMMA PodsStay ==
    ASSUME IInv, UNCHANGED lost,
           \A r \in Sessions : OwnPod(calls'[r]),
           \A r \in Sessions : /\ calls'[r].pod = calls[r].pod
                               /\ calls[r].pod # None => calls'[r].held = calls[r].held,
           \A a \in Servers : world'[a].diag = world[a].diag
    PROVE  PodsHold'
<1>1. PodsHold
  BY DEF IInv
<1>2. ASSUME NEW r \in Sessions, NEW a, NEW name \in PodNames
      PROVE  Owns(r, a, name)' <=> Owns(r, a, name)
  BY NamesAssumption DEF Owns
<1>3. ASSUME NEW s \in Sessions, NEW r \in Sessions, calls'[s].pod # None,
             Owns(r, calls[s].held, calls[s].pod)'
      PROVE  s = r
  BY <1>1, <1>3 DEF PodsHold, Owns
<1>4. ASSUME NEW a \in Servers, NEW name \in PodNames
      PROVE  name \in world'[a].diag <=>
                (\E r \in Sessions : Owns(r, a, name)') \/ <<a, name>> \in lost'
  <2>1. name \in world[a].diag <=> (\E r \in Sessions : Owns(r, a, name)) \/ <<a, name>> \in lost
    BY <1>1 DEF PodsHold
  <2>2. \A r \in Sessions : Owns(r, a, name)' <=> Owns(r, a, name)
    BY <1>2
  <2> QED
    BY <2>1, <2>2
<1> QED
  BY <1>3, <1>4 DEF PodsHold

LEMMA PodsStep ==
    ASSUME IInv, NEW s \in Sessions, Step(s)
    PROVE  PodsHold'
<1> DEFINE c == calls[s]
           k == calls'[s]
<1>1. /\ PodsHold /\ Typed /\ c \in Call /\ world \in [Servers -> World]
      /\ \A r \in Sessions : OwnPod(calls'[r])
      /\ \A r \in Sessions \ {s} : calls'[r].pod = calls[r].pod /\ calls'[r].held = calls[r].held
  BY OwnPodStep, Bystanders DEF IInv, Typed, Step, Beside
<1>2. CASE ~MakePod(s) /\ ~DropPod(s)
  <2>1. \A a \in Servers : world'[a].diag = world[a].diag
    BY <1>2, WorldStep DEF Step
  <2>2. lost' = lost /\ k.pod = c.pod /\ (c.pod # None => k.held = c.held)
    <3>1. CASE CarriedStep(s)
      <4>1. k.pod = c.pod /\ (c.pod # None => k.held = c.held)
        BY <3>1, CarriedCases DEF Carried
      <4> QED
        BY <3>1, <4>1, CheckStep, PollStep, SendStep, ListStep, KubeconfigStep DEF CarriedStep
    <3>2. CASE RegistryStep(s)
      BY <3>2, RegisteredCall
    <3> QED
      BY <1>2, <3>1, <3>2, StepCases, CallStep, ParseStep, GoneStep, PatchStep
  <2>3. \A r \in Sessions : /\ calls'[r].pod = calls[r].pod
                            /\ calls[r].pod # None => calls'[r].held = calls[r].held
    BY <1>1, <2>2
  <2> QED
    BY <1>1, <2>1, <2>2, <2>3, PodsStay
<1>3. CASE MakePod(s)
  <2> DEFINE b == Target(s)
  <2>1. c.at = "running" /\ b \in Servers /\ c.pod = None /\ k.held = b
    BY <1>3, MakeStep
  <2>2. PICK name \in PodNames, applied \in BOOLEAN :
            /\ applied => name \notin world[b].diag
            /\ world' = IF applied THEN [Touch(s) EXCEPT ![b].diag = @ \cup {name}] ELSE world
            /\ \/ applied /\ k.pod = name /\ UNCHANGED lost
               \/ /\ k.pod = None
                  /\ lost' = IF applied THEN lost \cup {<<b, name>>} ELSE lost
    BY <1>3, MakeStep
  <2>3. /\ Touch(s) \in [Servers -> World]
        /\ \A a \in Servers : Touch(s)[a].diag = world[a].diag
    BY <2>1, Touching
  <2>4. \A a \in Servers : world'[a].diag =
            IF applied /\ a = b THEN world[a].diag \cup {name} ELSE world[a].diag
    <3>1. CASE applied
      <4> DEFINE v == Touch(s)
      <4>1. world' = [v EXCEPT ![b].diag = @ \cup {name}]
        BY <2>2, <3>1
      <4> HIDE DEF v
      <4> QED
        BY <2>1, <2>3, <3>1, <4>1 DEF v, World
    <3> QED
      BY <2>2, <3>1
  <2> HIDE DEF b
  <2>5. \A r \in Sessions : \A a, one :
            Owns(r, a, one)' <=> IF r = s THEN k.pod = one /\ a = b ELSE Owns(r, a, one)
    BY <1>1, <2>1 DEF Owns
  <2>6. \A a \in Servers, one \in PodNames : ~Owns(s, a, one)
    BY <2>1, NamesAssumption DEF Owns
  <2>7. applied => ~(\E r \in Sessions : Owns(r, b, name)) /\ <<b, name>> \notin lost
    BY <1>1, <2>1, <2>2 DEF PodsHold
  <2>8. ASSUME NEW q \in Sessions, NEW r \in Sessions, calls'[q].pod # None,
               Owns(r, calls[q].held, calls[q].pod)'
        PROVE  q = r
    <3>1. calls'[r].pod = calls'[q].pod /\ calls'[r].held = calls'[q].held
      BY <2>8 DEF Owns
    <3>2. CASE q # s /\ r # s
      BY <1>1, <2>8, <3>1, <3>2 DEF PodsHold, Owns
    <3>3. CASE q = s /\ r # s
      BY <1>1, <2>1, <2>2, <2>7, <2>8, <3>1, <3>3 DEF Owns
    <3>4. CASE q # s /\ r = s
      BY <1>1, <2>1, <2>2, <2>7, <2>8, <3>1, <3>4 DEF Owns
    <3> QED
      BY <3>2, <3>3, <3>4
  <2>9. ASSUME NEW a \in Servers, NEW one \in PodNames
        PROVE  one \in world'[a].diag <=>
                  (\E r \in Sessions : Owns(r, a, one)') \/ <<a, one>> \in lost'
    <3>1. one \in world[a].diag <=> (\E r \in Sessions : Owns(r, a, one)) \/ <<a, one>> \in lost
      BY <1>1 DEF PodsHold
    <3>2. (\E r \in Sessions : Owns(r, a, one)')
            <=> (\E r \in Sessions : Owns(r, a, one)) \/ (k.pod = one /\ a = b)
      BY <2>5, <2>6
    <3>3. one \in world'[a].diag <=> one \in world[a].diag \/ (applied /\ a = b /\ one = name)
      BY <2>4
    <3>4. CASE applied /\ k.pod = name /\ UNCHANGED lost
      BY <3>1, <3>2, <3>3, <3>4
    <3>5. CASE k.pod = None /\ lost' = IF applied THEN lost \cup {<<b, name>>} ELSE lost
      <4>1. k.pod # one
        BY <3>5, NamesAssumption
      <4>2. <<a, one>> \in lost' <=> <<a, one>> \in lost \/ (applied /\ a = b /\ one = name)
        BY <3>5
      <4> QED
        BY <3>1, <3>2, <3>3, <4>1, <4>2
    <3> QED
      BY <2>2, <3>4, <3>5
  <2> QED
    BY <1>1, <2>8, <2>9 DEF PodsHold
<1>4. CASE DropPod(s)
  <2> DEFINE b == c.held
             name == c.pod
  <2>1. /\ name \in PodNames /\ b \in Servers /\ k.pod = None
        /\ \/ world' = [world EXCEPT ![b].diag = @ \ {name}] /\ lost' = lost \ {<<b, name>>}
           \/ lost' = lost \cup {<<b, name>>} /\ world' = world
    BY <1>4, DropStep
  <2>2. name # None /\ Owns(s, b, name) /\ \A r \in Sessions : Owns(r, b, name) => r = s
    BY <1>1, <2>1, NamesAssumption DEF PodsHold, Owns
  <2>3. \A r \in Sessions : \A a, one :
            one # None => (Owns(r, a, one)' <=> r # s /\ Owns(r, a, one))
    BY <1>1, <2>1 DEF Owns
  <2>4. ASSUME NEW q \in Sessions, NEW r \in Sessions, calls'[q].pod # None,
               Owns(r, calls[q].held, calls[q].pod)'
        PROVE  q = r
    <3>1. q # s /\ r # s
      BY <2>1, <2>4 DEF Owns
    <3> QED
      BY <1>1, <2>4, <3>1 DEF PodsHold, Owns
  <2>5. ASSUME NEW a \in Servers, NEW one \in PodNames
        PROVE  one \in world'[a].diag <=>
                  (\E r \in Sessions : Owns(r, a, one)') \/ <<a, one>> \in lost'
    <3>1. one \in world[a].diag <=> (\E r \in Sessions : Owns(r, a, one)) \/ <<a, one>> \in lost
      BY <1>1 DEF PodsHold
    <3>2. one # None
      BY NamesAssumption
    <3>3. CASE a = b /\ one = name
      <4>1. one \in world[a].diag /\ ~(\E r \in Sessions : Owns(r, a, one)')
        BY <2>2, <2>3, <3>1, <3>2, <3>3
      <4>2. \/ one \notin world'[a].diag /\ <<a, one>> \notin lost'
            \/ one \in world'[a].diag /\ <<a, one>> \in lost'
        BY <1>1, <2>1, <3>3, <4>1 DEF World
      <4> QED
        BY <4>1, <4>2
    <3>4. CASE ~(a = b /\ one = name)
      <4>1. one \in world'[a].diag <=> one \in world[a].diag
        BY <1>1, <2>1, <3>4 DEF World
      <4>2. <<a, one>> \in lost' <=> <<a, one>> \in lost
        BY <2>1, <3>4
      <4>3. Owns(s, a, one) => FALSE
        BY <3>4 DEF Owns
      <4> QED
        BY <2>3, <3>1, <3>2, <4>1, <4>2, <4>3
    <3> QED
      BY <3>3, <3>4
  <2> QED
    BY <1>1, <2>4, <2>5 DEF PodsHold
<1> QED
  BY <1>2, <1>3, <1>4

LEMMA RefusedStep ==
    ASSUME IInv, NEW s \in Sessions, Step(s)
    PROVE  RefusedEnd'
<1> DEFINE c == calls[s]
           k == calls'[s]
<1>1. RefusedEnd /\ \A r \in Sessions \ {s} : Beside(calls'[r], calls[r])
  BY Bystanders DEF IInv, Step
<1>2. SUFFICES ASSUME k.at # "error" PROVE k.refused \subseteq Forgiven(k.tool)
  BY <1>1 DEF RefusedEnd, Beside
<1>3. c.at # "error" => c.refused \subseteq Forgiven(c.tool)
  BY <1>1 DEF RefusedEnd
<1>4. CASE CallTool(s)
  BY <1>2, <1>4, CallStep
<1>5. CASE RegistryStep(s)
  BY <1>2, <1>3, <1>5, RegisteredCall DEF Registering
<1>6. CASE ParseFromRequest(s)
  BY <1>2, <1>3, <1>6, ParseStep
<1>7. CASE CarriedStep(s) /\ ~SendRequest(s)
  <2>1. c.at = "running" /\ c.tool = k.tool
    BY <1>7, CarriedCases DEF Carried, Keeps
  <2>2. k.refused = c.refused
    BY <1>7, CheckStep, PollStep, ListStep, KubeconfigStep DEF CarriedStep
  <2> QED
    BY <1>2, <1>3, <2>1, <2>2
<1>8. CASE SendRequest(s)
  <2>1. c.at = "running" /\ c.tool = k.tool
    BY <1>8, SendStep DEF Carried, Keeps
  <2>2. PICK outcome \in Outcomes(s) : \E how \in Hows(s, outcome) :
            /\ k.refused = IF outcome = "failed" THEN c.refused \cup ({Request(s).verb} \cap Writes)
                           ELSE c.refused
            /\ how = "error" /\ c.pod = None => k.at = "error"
    BY <1>8, SendStep
  <2>3. CASE outcome # "failed" \/ Request(s).verb \notin Writes
    BY <1>3, <2>1, <2>2, <2>3
  <2>4. CASE Request(s).verb \in Forgiven(c.tool)
    BY <1>3, <2>1, <2>2, <2>4
  <2>5. CASE outcome = "failed" /\ Request(s).verb \in Writes /\ Request(s).failed = {"error"}
    <3>1. Hows(s, outcome) = {"error"}
      BY <2>5 DEF Hows
    <3>2. c.pod = None
      <4>1. Request(s).verb \notin {"poll", "make"}
        BY <1>8, SendStep
      <4>2. c.pod # None => c.tool = "DiagnosePodNetwork" /\ c.step \in {3, 4}
        BY <2>1, RequestFacts DEF OwnPod
      <4>3. Singular(c.tool, c.step) /\ Request(s) = Tools[c.tool].plan[c.step]
        BY <2>1, RequestFacts
      <4>4. ASSUME c.tool = "DiagnosePodNetwork", NEW n \in {3, 4}, c.step = n
            PROVE  Request(s).verb \in {"poll", "read"}
        <5>1. /\ Singular("DiagnosePodNetwork", n)
              /\ Request(s) = Tools["DiagnosePodNetwork"].plan[n]
          BY <4>3, <4>4
        <5>2. CASE n = 3
          <6>1. Singular("DiagnosePodNetwork", 3)
            BY <5>1, <5>2
          <6> QED
            BY <5>1, <5>2, <6>1 DEF Singular
        <5>3. CASE n = 4
          <6>1. Singular("DiagnosePodNetwork", 4)
            BY <5>1, <5>3
          <6> QED
            BY <5>1, <5>3, <6>1 DEF Singular
        <5> QED
          BY <5>2, <5>3
      <4>5. c.pod # None => Request(s).verb \in {"poll", "read"}
        BY <4>2, <4>4
      <4> QED
        BY <2>5, <4>1, <4>5 DEF Writes
    <3> QED
      BY <1>2, <2>2, <3>1, <3>2
  <2>6. \/ Request(s).verb \notin Writes
        \/ Request(s).failed = {"error"} \/ Request(s).verb \in Forgiven(c.tool)
    BY <2>1, RequestFacts, SMTT(30) DEF Lawful
  <2> QED
    BY <2>3, <2>4, <2>5, <2>6
<1>9. CASE ClusterIsGone(s)
  BY <1>2, <1>3, <1>9, GoneStep DEF Keeps
<1>10. CASE MakePod(s)
  <2>1. c.at = "running" /\ c.tool = k.tool /\ (k.refused = c.refused \/ k.at = "error")
    BY <1>10, MakeStep DEF Keeps
  <2> QED
    BY <1>2, <1>3, <2>1
<1>11. CASE DropPod(s)
  <2>1. /\ c.at = "cleanup" /\ c.tool = "DiagnosePodNetwork" /\ k.tool = c.tool
        /\ k.refused \subseteq c.refused \cup {"drop"}
    BY <1>11, DropStep DEF Keeps
  <2>2. Forgiven("DiagnosePodNetwork") = {"run", "drop"}
    BY DEF Forgiven
  <2>3. c.refused \subseteq {"run", "drop"}
    BY <1>3, <2>1, <2>2
  <2> QED
    BY <2>1, <2>2, <2>3
<1>12. CASE PatchClass(s)
  <2>1. c.at = "running" /\ c.tool = k.tool /\ (k.refused = c.refused \/ k.at = "error")
    BY <1>12, PatchStep DEF Keeps
  <2> QED
    BY <1>2, <1>3, <2>1
<1> QED
  BY <1>4, <1>5, <1>6, <1>7, <1>8, <1>9, <1>10, <1>11, <1>12, StepCases

LEMMA TempsStep ==
    ASSUME IInv, NEW s \in Sessions, Step(s)
    PROVE  TempsHold'
<1> DEFINE c == calls[s]
           k == calls'[s]
           Has(d) == d.at = "running" /\ d.tool = "Kubectl" /\ d.step = 3
<1>1. (\A r \in temps : Has(calls[r])) /\ \A r \in Sessions \ {s} : Beside(calls'[r], calls[r])
  BY Bystanders DEF IInv, Step, TempsHold
<1>2. temps \subseteq Sessions
  BY DEF IInv, Typed
<1>3. SUFFICES temps' \subseteq temps \cup {s} /\ (s \in temps' => Has(k))
  <2>1. \A r \in Sessions \ {s} : Has(calls[r]) => Has(calls'[r])
    BY <1>1 DEF Beside
  <2> QED
    BY <1>1, <1>2, <1>3, <2>1 DEF TempsHold
<1>4. CASE s \notin temps /\ temps' = temps
  BY <1>4
<1>5. CASE WriteKubeconfig(s)
  <2>1. k.tool = c.tool /\ c.tool = "Kubectl"
    BY <1>5, KubeconfigStep DEF Carried, Keeps
  <2> QED
    BY <1>5, <2>1, KubeconfigStep DEF GoesOn
<1>6. CASE SendRequest(s)
  <2>1. /\ temps' = IF k.at \in Ended THEN temps \ {s} ELSE temps
        /\ Sole(s) /\ Carried(s)
    BY <1>6, SendStep
  <2>2. ASSUME s \in temps' PROVE Has(k)
    <3>1. Has(c) /\ k.at \notin Ended
      BY <1>1, <2>1, <2>2
    <3>a. k.at # "hanging"
      <4>1. Request(s).way = "program"
        BY <3>1, RequestFacts, SMTT(30) DEF Singular
      <4> QED
        BY <1>6, <4>1, SendStep
    <3>2. /\ k.tool = "Kubectl" /\ (GoesOn(k) \/ Ends(k)) /\ (GoesOn(k) => k.step >= 3)
      BY <2>1, <3>1, <3>a DEF Carried, Keeps, Hangs
    <3>3. k.at = "running"
      <4>1. OwnPod(k)
        BY <2>1, CarriedGoesOn
      <4> QED
        BY <3>1, <3>2, <4>1 DEF GoesOn, Ends, Ended, OwnPod
    <3>4. k.step = 3
      <4>1. GoesOn(k) /\ k \in Call
        BY <2>1, <3>2, <3>3 DEF Ends, Sole
      <4>2. Plan(k) \in Seq(Requests) /\ Len(Plan(k)) = 3
        BY <3>2, <4>1, PlanLengths, TheLaw DEF Call, Plan
      <4> QED
        BY <3>2, <4>1, <4>2 DEF GoesOn
    <3> QED
      BY <3>2, <3>3, <3>4
  <2> QED
    BY <2>1, <2>2
<1>7. CASE CheckArguments(s) \/ PollPod(s) \/ ListClasses(s)
  <2>1. temps' = temps /\ c.at = "running" /\ Request(s).verb \in {"check", "poll", "classes"}
    <3>1. CASE CheckArguments(s)
      BY <3>1, CheckStep DEF Carried
    <3>2. CASE PollPod(s)
      BY <3>2, PollStep DEF Carried
    <3>3. CASE ListClasses(s)
      BY <3>3 DEF ListClasses, Sends
    <3> QED
      BY <1>7, <3>1, <3>2, <3>3
  <2>2. s \notin temps
    <3>1. SUFFICES ASSUME Has(c) PROVE FALSE
      BY <1>1
    <3>2. Singular("Kubectl", 3) /\ Request(s) = Tools["Kubectl"].plan[3]
      BY <2>1, <3>1, RequestFacts
    <3>3. Request(s).verb = "read"
      BY <3>2 DEF Singular
    <3> QED
      BY <2>1, <3>3
  <2> QED
    BY <1>4, <2>1, <2>2
<1>8. CASE MakePod(s) \/ DropPod(s) \/ PatchClass(s) \/ ClusterIsGone(s)
  <2>1. temps' = temps /\ (s \in temps => Has(c))
    BY <1>1, <1>8, MakeStep, DropStep, PatchStep, GoneStep
  <2>2. s \notin temps
    BY <1>8, <2>1, MakeStep, DropStep, PatchStep, GoneStep DEF ClassTools
  <2> QED
    BY <1>4, <2>1, <2>2
<1>9. CASE CallTool(s) \/ RegistryStep(s) \/ ParseFromRequest(s)
  <2>1. temps' = temps /\ c.at # "running"
    BY <1>9, CallStep, RegisteredCall, ParseStep DEF Ended, Registering
  <2> QED
    BY <1>1, <1>4, <2>1
<1> QED
  BY <1>5, <1>6, <1>7, <1>8, <1>9, StepCases DEF CarriedStep

LEMMA DrainStep ==
    ASSUME IInv, NEW s \in Sessions, Step(s)
    PROVE  DrainsAreDenied'
<1> DEFINE c == calls[s]
           k == calls'[s]
<1>1. DrainsAreDenied /\ \A r \in Sessions \ {s} : Beside(calls'[r], calls[r])
  BY Bystanders DEF IInv, Step
<1>2. setup' = setup
  BY StepCases, CallStep, RegisteredCall, ParseStep, CarriedCases, GoneStep, MakeStep, DropStep,
     PatchStep DEF Carried
<1>a. \A r \in Sessions \ {s} : ~IsEarly(calls'[r]) => ~IsEarly(calls[r])
  BY <1>1 DEF Beside, IsEarly
<1>3. SUFFICES ASSUME setup.deny, k.at = "running", k.tool = "DrainNode", ~IsEarly(k)
               PROVE  k.step = 1
  BY <1>1, <1>2, <1>a DEF DrainsAreDenied, Beside
<1>4. CASE CallTool(s) \/ RegistryStep(s) \/ ParseFromRequest(s) \/ ClusterIsGone(s) \/ DropPod(s)
  BY <1>3, <1>4, CallStep, RegisteredCall, ParseStep, GoneStep, DropStep DEF Results, Registering
<1>5. CASE MakePod(s) \/ PatchClass(s)
  BY <1>3, <1>5, MakeStep, PatchStep DEF Keeps, ClassTools
<1>6. CASE CarriedStep(s)
  <2>1. /\ c.at = "running" /\ c.tool = "DrainNode" /\ (GoesOn(k) \/ Ends(k) \/ Hangs(k, c))
        /\ Sole(s) /\ Carried(s)
    BY <1>3, <1>6, CarriedCases DEF Carried, Keeps
  <2>2. GoesOn(k)
    BY <1>3, <2>1 DEF Ends, Hangs
  <2>b. ~IsEarly(c) /\ ~Unready(s)
    <3>1. ~IsEarly(c)
      BY <1>3, <2>1 DEF Carried, Keeps, IsEarly
    <3> QED
      BY <2>1, <3>1, RequestFacts
  <2>a. c.step = 1
    BY <1>1, <1>3, <2>1, <2>b DEF DrainsAreDenied
  <2>3. /\ c.step = 1
        /\ Request(s).verb = "patch" /\ Request(s).way = "callbacks" /\ Request(s).failed = {"error"}
    <3>1. Singular("DrainNode", 1) /\ Request(s) = Tools["DrainNode"].plan[1]
      BY <2>1, <2>a, RequestFacts
    <3> QED
      BY <2>a, <3>1 DEF Singular
  <2>4. SendRequest(s)
    <3>1. ~CheckArguments(s) /\ ~PollPod(s)
      BY <2>3, CheckStep, PollStep
    <3>2. ~ListClasses(s)
      BY <2>1, ListStep DEF ClassTools
    <3>3. ~WriteKubeconfig(s)
      BY <2>1, KubeconfigStep
    <3> QED
      BY <1>6, <3>1, <3>2, <3>3 DEF CarriedStep
  <2>5. Outcomes(s) = {"failed"}
    BY <1>3, <2>3, <2>b DEF Outcomes, DenyAction
  <2>6. PICK outcome \in Outcomes(s) : \E how \in Hows(s, outcome) :
            GoesOn(k) => how \notin {"answer", "error"}
    BY <2>4, SendStep
  <2>7. Hows(s, "failed") = {"error"}
    BY <2>3 DEF Hows
  <2> QED
    BY <2>2, <2>5, <2>6, <2>7
<1> QED
  BY <1>4, <1>5, <1>6, StepCases

\* What DefaultsMove says of the call c of server a.
Moved(c, a, defaults) ==
    c.tool \in ClassTools /\ c.arg \in Class /\ c.alone /\ ~c.gone /\ c.since = {a}
    =>
    /\ c.at = "running" /\ c.step = 2 =>
          defaults \subseteq c.todo \cup {c.arg} /\ c.arg \in c.todo \cup defaults
    /\ c.at = "answered" => defaults = {c.arg}

\* A call beside one that patches is not alone with its defaults.
LEMMA MovedBeside ==
    ASSUME IInv, NEW s \in Sessions, Step(s), NEW r \in Sessions \ {s}, NEW a \in Servers
    PROVE  Moved(calls'[r], a, world'[a].defaults[calls'[r].tool])
<1> DEFINE c == calls[r]
           k == calls'[r]
<1>1. /\ Beside(k, c) /\ Moved(c, a, world[a].defaults[c.tool])
      /\ c.at = "running" => Running(c)
  BY Bystanders DEF IInv, Step, DefaultsMove, Moved, RunningHold
<1>2. SUFFICES ASSUME k.tool \in ClassTools, k.alone, ~k.gone, k.since = {a},
                      k.at \in {"running", "answered"}
               PROVE  Moved(k, a, world'[a].defaults[k.tool])
  BY DEF Moved
<1>3. c.tool = k.tool /\ c.alone /\ ~c.gone /\ c.since \subseteq {a} /\ c.at = k.at
  BY <1>1, <1>2 DEF Beside
<1>4. c.since = {a}
  <2>1. CASE c.at = "running"
    BY <1>1, <1>3, <2>1 DEF Running
  <2>2. CASE c.at = "answered"
    BY <1>1, <1>2, <2>2 DEF Beside, Busy, Registering
  <2> QED
    BY <1>2, <1>3, <2>1, <2>2
<1>5. world'[a].defaults[k.tool] = world[a].defaults[k.tool]
  <2>1. CASE ~PatchClass(s)
    BY <2>1, WorldStep DEF Step
  <2>2. CASE PatchClass(s)
    <3>1. /\ calls[s].at = "running" /\ calls[s].tool \in ClassTools /\ Target(s) \in Servers
          /\ calls[s].tool # k.tool /\ calls[s].todo \subseteq Class
      BY <1>2, <1>3, <2>2, PatchStep DEF IInv, Typed, Call
    <3>2. PICK class \in calls[s].todo, applied \in BOOLEAN :
              world' = IF ~applied THEN world
                       ELSE [Touch(s) EXCEPT ![Target(s)].defaults[calls[s].tool] =
                               IF class = calls[s].arg THEN @ \cup {class} ELSE @ \ {class}]
      BY <2>2, PatchStep
    <3> DEFINE w == [Touch(s) EXCEPT ![Target(s)].defaults[calls[s].tool] =
                       IF class = calls[s].arg THEN @ \cup {class} ELSE @ \ {class}]
    <3>3. class \in Class
      BY <3>1
    <3>4. \A b \in Servers, u \in ClassTools :
              w[b].defaults[u] =
                 IF b # Target(s) \/ u # calls[s].tool THEN world[b].defaults[u]
                 ELSE IF class = calls[s].arg THEN world[b].defaults[u] \cup {class}
                 ELSE world[b].defaults[u] \ {class}
      BY <3>1, <3>3, Patching
    <3>5. world' = world \/ world' = w
      BY <3>2
    <3> HIDE DEF w
    <3> QED
      BY <1>2, <3>1, <3>4, <3>5, ZenonT(30)
  <2> QED
    BY <2>1, <2>2
<1> QED
  BY <1>1, <1>3, <1>4, <1>5 DEF Moved, Beside

LEMMA DefaultsStep ==
    ASSUME IInv, NEW s \in Sessions, Step(s)
    PROVE  DefaultsMove'
<1> DEFINE c == calls[s]
           k == calls'[s]
<1>1. SUFFICES ASSUME NEW a \in Servers PROVE Moved(k, a, world'[a].defaults[k.tool])
  BY <1>1, MovedBeside DEF DefaultsMove, Moved
<1>2. SUFFICES ASSUME k.tool \in ClassTools, k.arg \in Class, k.alone, ~k.gone, k.since = {a},
                      \/ k.at = "running" /\ k.step = 2
                      \/ k.at = "answered"
               PROVE  Moved(k, a, world'[a].defaults[k.tool])
  BY DEF Moved
<1>3. ~CallTool(s) /\ ~ParseFromRequest(s) /\ ~RegistryStep(s) /\ ~ClusterIsGone(s)
  BY <1>2, CallStep, ParseStep, RegisteredCall, GoneStep DEF ClassTools, RegistryTools, Results, Keeps
<1>4. ~MakePod(s) /\ ~DropPod(s) /\ ~WriteKubeconfig(s)
  <2>1. MakePod(s) \/ DropPod(s) \/ WriteKubeconfig(s) =>
            c.tool = k.tool /\ c.tool \notin ClassTools
    BY MakeStep, DropStep, KubeconfigStep DEF Keeps, Carried, ClassTools
  <2> QED
    BY <1>2, <2>1
<1>5. ~CheckArguments(s) /\ ~PollPod(s) /\ ~SendRequest(s)
  <2>1. ASSUME CheckArguments(s) \/ PollPod(s) \/ SendRequest(s) PROVE FALSE
    <3>1. c.at = "running" /\ c.tool = k.tool /\ Request(s).verb \notin {"classes", "default"}
      BY <2>1, CheckStep, PollStep, SendStep DEF Carried, Keeps
    <3>2. c.tool \in ClassTools => Request(s).verb \in {"classes", "default"}
      BY <3>1, RequestFacts, Zenon DEF Singular
    <3> QED
      BY <1>2, <3>1, <3>2
  <2> QED
    BY <2>1
<1>6. CASE ListClasses(s)
  <2>1. /\ c.at = "running" /\ Keeps(k, c) /\ Target(s) = a /\ world' = world
        /\ \/ k.at \in {"error", "hanging"}
           \/ k.at = "answered" /\ ClassesToPatch(s) = {}
           \/ k.at = "running" /\ k.todo = ClassesToPatch(s)
    <3>1. /\ Sole(s) /\ Carried(s) /\ Target(s) \in Servers /\ world' = world
          /\ \/ k.at \in {"error", "hanging"}
             \/ k.at = "answered" /\ ClassesToPatch(s) = {}
             \/ GoesOn(k) /\ k.todo = ClassesToPatch(s)
      BY <1>6, ListStep
    <3>2. c.at = "running" /\ Keeps(k, c) /\ Target(s) \in c.since \cup {None}
      BY <3>1, RequestFacts DEF Carried
    <3>3. Target(s) = a
      BY <1>2, <3>1, <3>2, NamesAssumption DEF Keeps
    <3> QED
      BY <3>1, <3>2, <3>3 DEF GoesOn
  <2>2. world[a].defaults[c.tool] \subseteq Class
    BY <1>2, <2>1 DEF IInv, Typed, World, Keeps
  <2>3. world[a].defaults[c.tool] \cup {c.arg} \subseteq ClassesToPatch(s)
    BY <1>2, <2>1, <2>2 DEF ClassesToPatch, DefaultClasses, Class, Keeps
  <2> QED
    BY <1>2, <2>1, <2>3 DEF Moved, Keeps
<1>7. CASE PatchClass(s)
  <2>1. /\ c.at = "running" /\ c.tool \in ClassTools /\ c.step = 2 /\ Keeps(k, c)
        /\ Target(s) \in Servers
    BY <1>7, PatchStep
  <2>2. Target(s) = a
    BY <1>2, <2>1, RequestFacts, NamesAssumption DEF Keeps
  <2>3. PICK class \in c.todo, applied \in BOOLEAN :
            /\ world' = IF ~applied THEN world
                        ELSE [Touch(s) EXCEPT ![Target(s)].defaults[c.tool] =
                                IF class = c.arg THEN @ \cup {class} ELSE @ \ {class}]
            /\ \/ k.at \in {"error", "hanging"}
               \/ k.at = "answered" /\ applied /\ c.todo = {class}
               \/ GoesOn(k) /\ applied /\ k.todo = c.todo \ {class}
    <3>1. ~Unready(s)
      <4>1. c.since = {a}
        BY <1>2, <2>1 DEF Keeps
      <4>2. ~IsEarly(c)
        BY <4>1, NamesAssumption DEF IsEarly
      <4> QED
        BY <2>1, <4>2, RequestFacts
    <3> QED
      BY <1>7, <3>1, PatchStep
  <2>4. class \in Class
    BY DEF IInv, Typed, Call
  <2>5. applied => world'[a].defaults[c.tool] =
            IF class = c.arg THEN world[a].defaults[c.tool] \cup {class}
            ELSE world[a].defaults[c.tool] \ {class}
    <3> DEFINE w == [Touch(s) EXCEPT ![Target(s)].defaults[c.tool] =
                       IF class = c.arg THEN @ \cup {class} ELSE @ \ {class}]
    <3>1. \A b \in Servers, u \in ClassTools :
              w[b].defaults[u] = IF b # Target(s) \/ u # c.tool THEN world[b].defaults[u]
                                 ELSE IF class = c.arg THEN world[b].defaults[u] \cup {class}
                                 ELSE world[b].defaults[u] \ {class}
      BY <2>1, <2>4, Patching
    <3>2. applied => world' = w
      BY <2>3
    <3> HIDE DEF w
    <3> QED
      BY <2>1, <2>2, <3>1, <3>2
  <2>6. /\ world[a].defaults[c.tool] \subseteq c.todo \cup {c.arg}
        /\ c.arg \in c.todo \cup world[a].defaults[c.tool]
    BY <1>2, <2>1 DEF IInv, DefaultsMove, Keeps
  <2> QED
    BY <1>2, <2>1, <2>3, <2>5, <2>6 DEF Moved, Keeps, GoesOn
<1> QED
  BY <1>3, <1>4, <1>5, <1>6, <1>7, StepCases DEF CarriedStep

LEMMA PanicStep ==
    ASSUME IInv, NEW s \in Sessions, Step(s)
    PROVE  LoadingHolds' /\ PanicsOnlyAfterRemoval'
<1> DEFINE c == calls[s]
           k == calls'[s]
<1>1. PanicsOnlyAfterRemoval /\ \A r \in Sessions \ {s} : Beside(calls'[r], calls[r])
  BY Bystanders, Zenon DEF IInv, Step
<1>2. phase = "serving"
  BY CallStep DEF Step, Handle
<1>3. /\ phase' = phase \/ (phase' = "crashed" /\ k.at = "panicked")
      /\ k.at = "panicked" => k.gone \/ k.since \cap Builders # {}
  <2>1. CASE CarriedStep(s)
    <3>1. k.at # "panicked" /\ phase' = phase
      BY <2>1, CarriedCases, CarriedGoesOn DEF Carried
    <3> QED
      BY <3>1
  <2>2. CASE ClusterIsGone(s)
    BY <2>2, GoneStep
  <2>3. CASE RegistryStep(s)
    <3>1. k.at = "panicked" => c.gone
      BY <2>3, RegisteredCall DEF Results
    <3> QED
      BY <2>3, <3>1, RegisteredCall
  <2>4. CASE ~CarriedStep(s) /\ ~ClusterIsGone(s) /\ ~RegistryStep(s)
    BY <2>4, StepCases, CallStep, ParseStep, MakeStep, DropStep, PatchStep DEF GoesOn
  <2> QED
    BY <2>1, <2>2, <2>3, <2>4
<1>4. LoadingHolds'
  BY <1>2, <1>3 DEF LoadingHolds
<1>5. PanicsOnlyAfterRemoval'
  BY <1>1, <1>2, <1>3 DEF PanicsOnlyAfterRemoval, Beside
<1> QED
  BY <1>4, <1>5

LEMMA TouchedStep ==
    ASSUME IInv, NEW s \in Sessions, Step(s)
    PROVE  ReadOnlyHintsHold' /\ DeniedChangesAreFew'
<1> DEFINE c == calls[s]
           few == {"Exec", "UploadPodFile", "DeletePodFile", "ApplyYaml", "DiagnosePodNetwork",
                   "TestPodDNSResolve"}
<1>1. /\ ReadOnlyHintsHold /\ DeniedChangesAreFew /\ DrainsAreDenied
      /\ \A a \in Servers :
            \/ /\ world'[a].touched \subseteq world[a].touched
               /\ world'[a].early \subseteq world[a].early
            \/ /\ c.at = "running" /\ Request(s).verb \in Writes /\ ~DenyAction(s)
               /\ Adds(world'[a], world[a], c)
  BY WorldStep DEF IInv, Step
<1>2. setup' = setup
  BY StepCases, CallStep, RegisteredCall, ParseStep, CarriedCases, GoneStep, MakeStep, DropStep,
     PatchStep DEF Carried
<1>3. ASSUME c.at = "running", Request(s).verb \in Writes, ~DenyAction(s)
      PROVE  /\ Tools[c.tool].hint = "destructive" \/ c.tool = "TestPodDNSResolve"
             /\ setup.deny /\ ~IsEarly(c) => c.tool \in few
  <2>1. /\ Tools[c.tool].hint = "destructive" \/ c.tool = "TestPodDNSResolve"
        /\ \/ /\ Request(s).way = "callbacks"
              /\ Request(s).verb \in {"patch", "update", "delete", "default"}
           \/ c.tool \in few
           \/ c.tool = "DrainNode" /\ c.step = 3
    BY <1>3, RequestFacts DEF Lawful
  <2>2. ~IsEarly(c) => ~Unready(s)
    BY <1>3, RequestFacts
  <2> QED
    BY <1>1, <1>3, <2>1, <2>2 DEF DenyAction, DrainsAreDenied
<1>4. ReadOnlyHintsHold'
  BY <1>1, <1>3 DEF ReadOnlyHintsHold, Adds
<1>5. DeniedChangesAreFew'
  BY <1>1, <1>2, <1>3 DEF DeniedChangesAreFew, Adds
<1> QED
  BY <1>4, <1>5

-----------------------------------------------------------------------------
(* Starting *)

\* What the program may be started with.
LEMMA SetupFacts ==
    ASSUME Typed
    PROVE  /\ setup.default \in Servers \cup {None}
           /\ \E n \in Nat : DOMAIN setup.files = 1 .. n
           /\ \A m \in DOMAIN setup.files :
                 /\ setup.files[m].id \in IDs /\ setup.files[m].server \in Servers \cup {None}
                 /\ setup.files[m].ext \in {"yaml", "yml"}
<1> DEFINE File == [id : IDs, ext : {"yaml", "yml"}, server : Servers \cup {None}]
<1>1. setup.files \in Seq(File) /\ setup.default \in Servers \cup {None}
  BY SetupsAssumption DEF Typed
<1> HIDE DEF File
<1>2. /\ \E n \in Nat : DOMAIN setup.files = 1 .. n
      /\ \A m \in DOMAIN setup.files : setup.files[m] \in File
  BY <1>1
<1> QED
  BY <1>1, <1>2 DEF File

\* Loading one more file keeps what is said of the files, but for the one that
\* could not be loaded.
LEMMA LoadStep ==
    ASSUME IInv, InitializeMultiCluster
    PROVE  LET files == DOMAIN setup.files \ toLoad' IN
           /\ setup' = setup
           /\ \A m \in files, k \in toLoad' : IsBefore(m, k)
           /\ phase' \in {"serving", "loading", "toolless"}
           /\ phase' = "serving" => toLoad' = {}
           /\ \A id \in IDs :
                 \/ Stands(clusters'[id], files, id)
                 \/ /\ phase' = "toolless" /\ clusters'[id] \in {None, "main"}
                    /\ \E n \in toLoad \ toLoad' :
                          /\ setup.files[n].id = id /\ setup.files[n].server = None
                          /\ \A m \in files : setup.files[m].id = id => m = n
<1>1. Typed /\ FilesHold
  BY DEF IInv, LoadingHolds, InitializeMultiCluster
<1>2. PICK n \in toLoad :
          LET file == setup.files[n]
              new == clusters[file.id] = None
              with(inst) == [clusters EXCEPT ![file.id] = IF new THEN inst ELSE @]
          IN
          /\ \A m \in toLoad \ {n} : IsBefore(n, m)
          /\ toLoad' = toLoad \ {n}
          /\ \/ /\ file.server # None \/ ~new
                /\ clusters' = with(file.server)
                /\ phase' = IF toLoad = {n} THEN "serving" ELSE "loading"
             \/ /\ file.server # None => new
                /\ clusters' \in IF file.server = None THEN {clusters, with("main")}
                                 ELSE {with(file.server)}
                /\ phase' = "toolless"
  BY DEF InitializeMultiCluster
<1> DEFINE file == setup.files[n]
           new == clusters[file.id] = None
           loaded == DOMAIN setup.files \ toLoad
<1>3. /\ setup' = setup /\ n \in DOMAIN setup.files /\ file.id \in IDs
      /\ file.server \in Servers \cup {None}
  BY <1>1, SetupFacts DEF InitializeMultiCluster, Typed
<1>4. DOMAIN setup.files \ toLoad' = loaded \cup {n} /\ n \in toLoad \ toLoad'
  BY <1>2, <1>3
<1>5. \A m \in loaded \cup {n}, k \in toLoad' : IsBefore(m, k)
  BY <1>1, <1>2 DEF FilesHold
<1>6. /\ phase' \in {"serving", "loading", "toolless"}
      /\ phase' = "serving" => toLoad' = {}
  BY <1>2
<1>7. /\ \A id \in IDs : id # file.id \/ ~new => clusters'[id] = clusters[id]
      /\ new /\ file.server # None => clusters'[file.id] = file.server
      /\ new /\ file.server = None =>
            phase' = "toolless" /\ clusters'[file.id] \in {None, "main"}
  <2>1. /\ clusters \in [IDs -> Instances \cup {None}] /\ file.id \in IDs
    BY <1>1, <1>3 DEF Typed
  <2>2. CASE /\ file.server # None \/ ~new
             /\ clusters' = [clusters EXCEPT ![file.id] = IF new THEN file.server ELSE @]
    BY <2>1, <2>2
  <2>3. CASE /\ file.server # None => new
             /\ clusters' \in IF file.server = None
                  THEN {clusters, [clusters EXCEPT ![file.id] = IF new THEN "main" ELSE @]}
                  ELSE {[clusters EXCEPT ![file.id] = IF new THEN file.server ELSE @]}
             /\ phase' = "toolless"
    BY <2>1, <2>3
  <2> QED
    BY <1>2, <2>2, <2>3
<1>8. ASSUME NEW id \in IDs
      PROVE  \/ Stands(clusters'[id], loaded \cup {n}, id)
             \/ /\ phase' = "toolless" /\ clusters'[id] \in {None, "main"}
                /\ file.id = id /\ file.server = None
                /\ \A m \in loaded \cup {n} : setup.files[m].id = id => m = n
  <2>1. Stands(clusters[id], loaded, id)
    BY <1>1 DEF FilesHold
  <2>2. \A m \in loaded : FirstOf(loaded, m) => FirstOf(loaded \cup {n}, m)
    BY <1>1 DEF FirstOf, FilesHold
  <2>3. CASE id # file.id \/ ~new
    <3>1. clusters'[id] = clusters[id] /\ (id # file.id \/ clusters[id] # None)
      BY <1>7, <2>3
    <3> QED
      BY <2>1, <2>2, <3>1 DEF Stands
  <2>4. CASE id = file.id /\ new
    <3>1. \A m \in loaded : setup.files[m].id # id
      BY <2>1, <2>4 DEF Stands
    <3>2. FirstOf(loaded \cup {n}, n)
      BY <2>4, <3>1 DEF FirstOf
    <3> QED
      BY <1>7, <2>4, <3>1, <3>2 DEF Stands
  <2> QED
    BY <2>3, <2>4
<1> QED
  BY <1>3, <1>4, <1>5, <1>6, <1>8

\* While it starts, the program has no calls.
LEMMA StartStep ==
    ASSUME IInv, InitializeMultiCluster \/ RegisterDefaultCluster
    PROVE  IInv'
<1>1. /\ Typed /\ UNCHANGED <<setup, world, temps, lost, calls>>
      /\ phase \in {"loading", "default"} /\ \A s \in Sessions : calls[s] = NoCall
  BY DEF IInv, InitializeMultiCluster, RegisterDefaultCluster, LoadingHolds
<1>2. Typed'
  <2>1. CASE InitializeMultiCluster
    <3>1. PICK n \in toLoad :
              LET file == setup.files[n]
                  new == clusters[file.id] = None
                  with(inst) == [clusters EXCEPT ![file.id] = IF new THEN inst ELSE @]
              IN
              /\ clusters' \in {clusters, with(file.server), with("main")}
              /\ phase' \in {"serving", "loading", "toolless"}
              /\ toLoad' = toLoad \ {n}
      BY <2>1 DEF InitializeMultiCluster
    <3>2. setup.files[n].server \in Servers \cup {None}
      BY <1>1, SetupFacts DEF Typed
    <3>3. clusters' \in [IDs -> Instances \cup {None}]
      BY <1>1, <3>1, <3>2 DEF Typed, Instances, Builders
    <3> QED
      BY <1>1, <3>1, <3>3 DEF Typed
  <2>2. CASE RegisterDefaultCluster
    <3>1. setup.default \in Servers \cup {None} /\ clusters \in [IDs -> Instances \cup {None}]
      BY <1>1, SetupFacts DEF Typed
    <3>2. clusters' \in [IDs -> Instances \cup {None}]
      BY <2>2, <3>1 DEF RegisterDefaultCluster, Instances
    <3> QED
      BY <1>1, <2>2, <3>2 DEF RegisterDefaultCluster, Typed
  <2> QED
    BY <2>1, <2>2
<1>3. RunningHold'
  BY <1>1 DEF RunningHold, NoCall, Registering
<1>4. PodsHold' /\ RefusedEnd' /\ TempsHold' /\ DrainsAreDenied' /\ DefaultsMove'
  <2>1. PodsHold'
    BY <1>1 DEF IInv, PodsHold, Owns
  <2>2. RefusedEnd' /\ TempsHold' /\ DrainsAreDenied'
    BY <1>1 DEF IInv, RefusedEnd, TempsHold, DrainsAreDenied
  <2>3. DefaultsMove'
    BY <1>1 DEF IInv, DefaultsMove
  <2> QED
    BY <2>1, <2>2, <2>3
<1>5. /\ phase' \in {"dead", "serving", "loading", "toolless"}
      /\ RegisterDefaultCluster => phase' # "loading"
  BY DEF InitializeMultiCluster, RegisterDefaultCluster
<1>6. LoadingHolds'
  <2>1. phase' = "loading" => calls' = [s \in Sessions |-> NoCall] /\ FilesHold'
    <3>1. SUFFICES ASSUME phase' = "loading"
                   PROVE  calls' = [s \in Sessions |-> NoCall] /\ FilesHold'
      OBVIOUS
    <3>2. InitializeMultiCluster
      BY <1>5, <3>1
    <3>3. calls' = [s \in Sessions |-> NoCall]
      BY <1>1 DEF IInv, LoadingHolds
    <3>4. FilesHold'
      <4> DEFINE files == DOMAIN setup.files \ toLoad'
      <4>1. /\ setup' = setup /\ \A m \in files, k \in toLoad' : IsBefore(m, k)
            /\ \A id \in IDs : Stands(clusters'[id], files, id)
        BY <3>1, <3>2, LoadStep
      <4> QED
        BY <4>1 DEF FilesHold, Stands, FirstOf, IsBefore
    <3> QED
      BY <3>3, <3>4
  <2> QED
    BY <1>5, <2>1 DEF LoadingHolds
<1>7. PanicsOnlyAfterRemoval' /\ ReadOnlyHintsHold' /\ DeniedChangesAreFew'
  BY <1>1, <1>5 DEF IInv, PanicsOnlyAfterRemoval, ReadOnlyHintsHold, DeniedChangesAreFew
<1> QED
  BY <1>2, <1>3, <1>4, <1>6, <1>7 DEF IInv

\* The invariant is inductive.
LEMMA InvInit == Init => IInv
<1> SUFFICES ASSUME Init PROVE IInv
  OBVIOUS
<1>1. /\ setup \in Setups /\ toLoad = LoadKubeconfigsFromDirectory(setup.files)
      /\ phase = IF toLoad = {} THEN "default" ELSE "loading"
      /\ clusters = [id \in IDs |-> None] /\ temps = {} /\ lost = {}
      /\ \A s \in Sessions : calls[s] = NoCall
  BY DEF Init
<1>2. \A a \in Servers : world[a].touched = {} /\ world[a].early = {} /\ world[a].diag = {}
  BY DEF Init
<1>3. calls \in [Sessions -> Call] /\ calls = [s \in Sessions |-> NoCall]
  <2>1. 0 \in 0 .. MaxPolls - 1 /\ "ListClusters" \in DOMAIN Tools
    BY MaxPollsAssumption DEF Tools
  <2>2. NoCall \in Call
    BY <2>1 DEF NoCall, Call, Ended
  <2> QED
    BY <2>2 DEF Init
<1>4. world \in [Servers -> World]
  <2>1. [t \in ClassTools |-> {Classes[1]}] \in [ClassTools -> SUBSET Class]
    <3>1. Classes[1] \in Class
      BY ClassesAssumption DEF Class, Range
    <3> QED
      BY <3>1
  <2> DEFINE one == [touched |-> {}, early |-> {}, diag |-> {},
                     defaults |-> [t \in ClassTools |-> {Classes[1]}]]
  <2>2. one \in World
    BY <2>1 DEF World
  <2> HIDE DEF one
  <2>3. world = [a \in Servers |-> one]
    BY DEF Init, one
  <2> QED
    BY <2>2, <2>3
<1>5. Typed
  BY <1>1, <1>3, <1>4 DEF Typed, LoadKubeconfigsFromDirectory
<1>6. RunningHold /\ RefusedEnd /\ TempsHold /\ DrainsAreDenied
  BY <1>1 DEF RunningHold, RefusedEnd, TempsHold, DrainsAreDenied, NoCall, Registering
<1>7. PodsHold
  BY <1>1, <1>2, NamesAssumption DEF PodsHold, OwnPod, Owns, NoCall
<1>8. DefaultsMove
  BY <1>1 DEF DefaultsMove, NoCall, ClassTools
<1>9. toLoad = DOMAIN setup.files
  BY <1>1, <1>5, SetupFacts DEF LoadKubeconfigsFromDirectory
<1>10. LoadingHolds
  <2>1. phase = "default" => setup.files = <<>>
    <3> DEFINE File == [id : IDs, ext : {"yaml", "yml"}, server : Servers \cup {None}]
    <3>1. setup.files \in Seq(File)
      BY <1>1, SetupsAssumption
    <3> HIDE DEF File
    <3>2. DOMAIN setup.files = {} => setup.files = <<>>
      BY <3>1
    <3> QED
      BY <1>1, <1>9, <3>2
  <2>2. FilesHold
    BY <1>1, <1>9 DEF FilesHold, Stands
  <2> QED
    BY <1>1, <1>3, <2>1, <2>2 DEF LoadingHolds
<1>11. PanicsOnlyAfterRemoval /\ ReadOnlyHintsHold /\ DeniedChangesAreFew
  BY <1>1, <1>2 DEF PanicsOnlyAfterRemoval, ReadOnlyHintsHold, DeniedChangesAreFew, NoCall
<1> QED
  BY <1>5, <1>6, <1>7, <1>8, <1>10, <1>11 DEF IInv

LEMMA InvStep == IInv /\ [Next]_vars => IInv'
<1> SUFFICES ASSUME IInv, [Next]_vars PROVE IInv'
  OBVIOUS
<1>1. CASE InitializeMultiCluster \/ RegisterDefaultCluster
  BY <1>1, StartStep
<1>2. ASSUME NEW s \in Sessions, Step(s) PROVE IInv'
  BY <1>2, TypedStep, RunningStep, PodsStep, RefusedStep, TempsStep, DrainStep, DefaultsStep,
     PanicStep, TouchedStep DEF IInv
<1>3. CASE UNCHANGED vars
  <2>1. Typed' /\ RunningHold'
    BY <1>3 DEF vars, IInv, Typed, RunningHold, Running, Building, Early
  <2>2. PodsHold' /\ RefusedEnd' /\ TempsHold'
    BY <1>3 DEF vars, IInv, PodsHold, Owns, RefusedEnd, TempsHold
  <2>3. DrainsAreDenied' /\ DefaultsMove'
    BY <1>3 DEF vars, IInv, DrainsAreDenied, DefaultsMove
  <2>4. LoadingHolds'
    BY <1>3 DEF vars, IInv, LoadingHolds, FilesHold, Stands, FirstOf, IsBefore
  <2>5. PanicsOnlyAfterRemoval' /\ ReadOnlyHintsHold' /\ DeniedChangesAreFew'
    BY <1>3 DEF vars, IInv, PanicsOnlyAfterRemoval, ReadOnlyHintsHold, DeniedChangesAreFew
  <2> QED
    BY <2>1, <2>2, <2>3, <2>4, <2>5 DEF IInv
<1> QED
  BY <1>1, <1>2, <1>3 DEF Next, Step

LEMMA InvAlways == Spec => []IInv
BY InvInit, InvStep, PTL DEF Spec

-----------------------------------------------------------------------------
(* The theorems *)

LEMMA AtMostOne ==
    ASSUME NEW S, \A s, r \in S : s = r
    PROVE  Cardinality(S) <= 1
<1>1. CASE S = {}
  BY <1>1, FS_EmptySet
<1>2. CASE S # {}
  <2>1. PICK s : S = {s}
    BY <1>2
  <2>2. Cardinality({s}) = 1
    BY FS_Singleton
  <2> QED
    BY <2>1, <2>2
<1> QED
  BY <1>1, <1>2

\* A pod has at most one owner, and is there for its sake.
LEMMA PodsBelong == IInv => DiagPodsBelongToCalls
<1> SUFFICES ASSUME IInv, NEW a \in Servers, NEW name \in PodNames
             PROVE  LET owners == {s \in Sessions : calls[s].at \notin Ended
                                          /\ calls[s].pod = name /\ calls[s].held = a} IN
                    /\ Cardinality(owners) <= 1
                    /\ name \in world[a].diag <=> owners # {} \/ <<a, name>> \in lost
  BY Zenon DEF DiagPodsBelongToCalls
<1> DEFINE owners == {s \in Sessions : calls[s].at \notin Ended
                            /\ calls[s].pod = name /\ calls[s].held = a}
<1>1. PodsHold /\ name # None
  BY NamesAssumption DEF IInv
<1>2. \A s \in Sessions : Owns(s, a, name) => calls[s].at \notin Ended
  BY <1>1 DEF PodsHold, OwnPod, Owns, Ended
<1>3. \A s \in Sessions : s \in owners <=> Owns(s, a, name)
  BY <1>2 DEF Owns
<1>4. \A s, r \in owners : s = r
  BY <1>1 DEF PodsHold, Owns
<1>5. Cardinality(owners) <= 1
  <2> HIDE DEF owners
  <2> QED
    BY <1>4, AtMostOne
<1>6. name \in world[a].diag <=> owners # {} \/ <<a, name>> \in lost
  <2>1. name \in world[a].diag
            <=> (\E s \in Sessions : Owns(s, a, name)) \/ <<a, name>> \in lost
    BY <1>1 DEF PodsHold
  <2>2. owners \subseteq Sessions
    OBVIOUS
  <2> HIDE DEF owners
  <2> QED
    BY <1>3, <2>1, <2>2
<1> QED
  BY <1>5, <1>6

\* In every reachable state the server's data are well formed; a diagnostic pod
\* belongs to the one call that is going to delete it, or its making or deletion
\* failed for all its call knows; a kubeconfig in a temporary file belongs to a
\* call that runs; no request goes to a server the ID of its call never stood
\* for; and a handler panics only on a cluster that was unregistered under it, or
\* whose registration was under way or failed half way.
THEOREM ServerHolds == Spec => []Inv
<1>1. IInv => TypeOK
  <2> SUFFICES ASSUME IInv PROVE TypeOK
    OBVIOUS
  <2>1. Typed /\ RunningHold
    BY DEF IInv
  <2>2. ASSUME NEW a \in Servers
        PROVE  /\ world[a].touched \cup world[a].early \subseteq DOMAIN Tools
               /\ world[a].diag \subseteq PodNames
               /\ \A t \in ClassTools : world[a].defaults[t] \subseteq Range(Classes)
    <3>1. world[a] \in World
      BY <2>1 DEF Typed
    <3> QED
      BY <3>1 DEF World, Class
  <2>3. ASSUME NEW s \in Sessions
        PROVE  LET c == calls[s] IN
               /\ c.at \in {"received", "running", "cleanup", "hanging"} \cup Registering
                              \cup Ended
               /\ c.tool \in DOMAIN Tools
               /\ c.at = "running" => c.step \in DOMAIN Plan(c)
               /\ c.held \in Servers \cup Builders \cup {None}
               /\ c.pod \in PodNames \cup {None}
               /\ c.polls \in 0 .. MaxPolls - 1 /\ c.todo \subseteq Range(Classes)
    <3>1. /\ calls[s] \in Call
          /\ calls[s].at = "running" => calls[s].step \in DOMAIN Plan(calls[s])
      BY <2>1 DEF Typed, RunningHold, Running
    <3> QED
      BY <3>1 DEF Call, Class, Instances
  <2> QED
    BY <2>1, <2>2, <2>3 DEF TypeOK, Typed, Instances
<1>2. IInv => TempsAreRemoved
  BY DEF IInv, Typed, TempsHold, TempsAreRemoved
<1>3. IInv => RequestsStayOnNamedServers
  BY RequestFacts DEF RequestsStayOnNamedServers
<1>4. IInv => Inv
  BY <1>1, <1>2, <1>3, PodsBelong DEF Inv, IInv
<1> QED
  BY <1>4, InvAlways, PTL

\* What a client is told is so: a tool that hints it only reads changes nothing,
\* but for the one that hands a name to a shell; with the callbacks of main.go
\* only a few tools change anything; success means that no change failed, but for
\* those that are told as a text or deferred; and after a class was made the
\* default undisturbed, it is the only one, but for the beta annotation.
THEOREM AnswersHold == Spec => []AnswersAreTrue
<1>1. IInv => SuccessMeansAccepted
  BY DEF IInv, RefusedEnd, SuccessMeansAccepted
<1>2. IInv => SoleDefaultAfterSetDefault
  BY DEF IInv, DefaultsMove, SoleDefaultAfterSetDefault, DefaultClasses, Class
<1>3. IInv => AnswersAreTrue
  BY <1>1, <1>2 DEF IInv, AnswersAreTrue
<1> QED
  BY <1>3, InvAlways, PTL

\* A call leaves the program as it is, or down.
LEMMA Phases ==
    ASSUME IInv, NEW s \in Sessions, CallTool(s) \/ Handle(s)
    PROVE  phase' \in {phase, "crashed"}
<1>1. CASE CallTool(s)
  BY <1>1, CallStep
<1>2. CASE ListClustersHandler(s) \/ UnregisterClusterHandler(s) \/ RegisterClusterHandler(s)
  BY <1>2 DEF ListClustersHandler, UnregisterClusterHandler, RegisterClusterHandler
<1>3. CASE BuildCluster(s) \/ OpenCluster(s) \/ FinishCluster(s) \/ ClusterIsGone(s)
  BY <1>3 DEF BuildCluster, OpenCluster, FinishCluster, ClusterIsGone, Panics
<1>4. CASE ParseFromRequest(s) \/ CheckArguments(s) \/ SendRequest(s) \/ MakePod(s)
  BY <1>4 DEF ParseFromRequest, CheckArguments, SendRequest, MakePod
<1>5. CASE PollPod(s) \/ DropPod(s) \/ ListClasses(s) \/ PatchClass(s) \/ WriteKubeconfig(s)
  BY <1>5 DEF PollPod, DropPod, ListClasses, PatchClass, WriteKubeconfig
<1> QED
  BY <1>1, <1>2, <1>3, <1>4, <1>5 DEF Handle

\* When the server starts serving, an ID stands for the server of the first file
\* that names it, those called yaml before those called yml.  When it starts
\* without tools, it does so for the files up to the one that failed, whose own
\* ID may be half built if no file before it has its name.
THEOREM ServesFirst == Spec => StartupServesFirst
<1> DEFINE named(ext, id) == {i \in DOMAIN setup.files \ toLoad' :
                                 setup.files[i].id = id /\ setup.files[i].ext = ext}
           half(id) == /\ phase' = "toolless" /\ clusters'[id] = "main"
                       /\ FirstServer(id) = None
                       /\ \E n \in toLoad \ toLoad' : setup.files[n].id = id
           files == DOMAIN setup.files \ toLoad'
<1>1. ASSUME IInv, InitializeMultiCluster, NEW id \in IDs
      PROVE  clusters'[id] = FirstServer(id) \/ half(id)
  <2>1. Typed /\ setup.files # <<>>
    BY <1>1 DEF IInv, Typed, InitializeMultiCluster
  <2>2. PICK n \in Nat : DOMAIN setup.files = 1 .. n
    BY <2>1, SetupFacts
  <2>3. \/ Stands(clusters'[id], files, id)
        \/ /\ phase' = "toolless" /\ clusters'[id] \in {None, "main"}
           /\ \E k \in toLoad \ toLoad' :
                 /\ setup.files[k].id = id /\ setup.files[k].server = None
                 /\ \A m \in files : setup.files[m].id = id => m = k
    BY <1>1, LoadStep
  <2>4. CASE clusters'[id] = None /\ \A m \in files : setup.files[m].id # id
    <3>1. named("yaml", id) = {} /\ named("yml", id) = {}
      BY <2>4
    <3> QED
      BY <2>1, <2>4, <3>1 DEF FirstServer
  <2>5. ASSUME NEW m \in files, FirstOf(files, m), setup.files[m].id = id
        PROVE  FirstServer(id) = setup.files[m].server
    <3> DEFINE ext == setup.files[m].ext
    <3>1. ext \in {"yaml", "yml"} /\ m \in named(ext, id)
      BY <2>1, <2>5, SetupFacts
    <3>2. \A k \in files : setup.files[k].id = id => k = m \/ IsBefore(m, k)
      BY <2>5 DEF FirstOf
    <3>3. ext = "yml" => named("yaml", id) = {}
      BY <3>2 DEF IsBefore
    <3>4. \A j \in named(ext, id) : m <= j
      BY <2>2, <3>2 DEF IsBefore
    <3>5. (CHOOSE i \in named(ext, id) : \A j \in named(ext, id) : i <= j) = m
      <4>1. named(ext, id) \subseteq Nat
        BY <2>2
      <4> DEFINE S == named(ext, id)
      <4>2. \A i \in S : (\A j \in S : i <= j) <=> i = m
        BY <3>1, <3>4, <4>1
      <4> HIDE DEF S
      <4>3. (CHOOSE i \in S : \A j \in S : i <= j) = m
        BY <3>1, <4>2 DEF S
      <4> QED
        BY <4>3 DEF S
    <3>6. FirstServer(id)
              = setup.files[CHOOSE i \in named(ext, id) : \A j \in named(ext, id) : i <= j].server
      BY <3>1, <3>3 DEF FirstServer
    <3> QED
      BY <3>5, <3>6
  <2>6. CASE Stands(clusters'[id], files, id)
    BY <2>4, <2>5, <2>6 DEF Stands
  <2>7. ASSUME phase' = "toolless", clusters'[id] \in {None, "main"},
               NEW k \in toLoad \ toLoad', setup.files[k].id = id,
               setup.files[k].server = None,
               \A m \in files : setup.files[m].id = id => m = k
        PROVE  clusters'[id] = FirstServer(id) \/ half(id)
    <3>1. k \in files /\ FirstOf(files, k)
      BY <2>1, <2>7 DEF FirstOf, Typed
    <3>2. FirstServer(id) = None
      BY <2>5, <2>7, <3>1
    <3> QED
      BY <2>7, <3>2
  <2> QED
    BY <2>3, <2>6, <2>7
<1>2. ASSUME IInv, RegisterDefaultCluster, NEW id \in IDs
      PROVE  clusters'[id] = FirstServer(id)
  <2>1. /\ setup.files = <<>> /\ clusters = [one \in IDs |-> None]
        /\ clusters' = [clusters EXCEPT !["dev"] = setup.default]
    BY <1>2 DEF IInv, LoadingHolds, RegisterDefaultCluster
  <2>2. DOMAIN setup.files = {}
    BY <2>1
  <2>3. named("yaml", id) = {} /\ named("yml", id) = {}
    BY <2>2
  <2> QED
    BY <2>1, <2>3, NamesAssumption DEF FirstServer
<1>3. ASSUME IInv, Next PROVE StartsAsLoaded
  <2>1. ASSUME NEW s \in Sessions, CallTool(s) \/ Handle(s)
        PROVE  phase' = phase \/ phase' = "crashed"
    BY <1>3, <2>1, Phases
  <2> QED
    BY <1>1, <1>2, <1>3, <2>1 DEF Next, StartsAsLoaded
<1>4. IInv /\ [Next]_vars => [StartsAsLoaded]_vars
  BY <1>3
<1> QED
  BY <1>4, InvAlways, PTL DEF Spec, StartupServesFirst
=============================================================================
