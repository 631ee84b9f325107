------------------------------ MODULE Views ------------------------------
(***************************************************************************)
(* The questions kom answers from what it has read, one at a time: does an *)
(* object meet a condition, in which order do two come, which page is it,  *)
(* what belongs to a pod, how much is used, what is a kind called, which   *)
(* rules of a load balancer stand in each other's way.  The                *)
(* answers are those of the modules it extends.                            *)
(* What is asked is any member of the sets below; the properties relate    *)
(* the answer to what other operators, or the meaning of the objects, say. *)
(***************************************************************************)
EXTENDS UsageViews, KindTables, AlbRules

CONSTANTS
    Texts,       \* values of fields and literals
    PageLengths, \* lengths of lists that are paged
    PageSizes,   \* page sizes that are asked for
    Pods,        \* pods whose nodes are asked for, and
    NodeLists,   \*   the nodes of the cluster
    Ingresses,   \* lists of ingresses
    Services,    \* names of services
    Owners,      \* references to an owner
    UsedPods,    \* pods whose usage is asked for, and
    UsedNodes,   \*   their nodes
    NodeTops,    \* lists of nodes and what they use
    Relatives,   \* pods with their labels, volumes and variables
    Cluster,     \* the services, endpoints, claims, volumes and config maps
    Placed,      \* pods on nodes, with phase and address
    EndPhases,   \* the texts "Succeeded" and "Failed"
    ApiTables,   \* what discovery has found
    CRDs,        \* the list of CRDs
    RuleLists,   \* rules of one frontend,
    Requests,    \*   requests they may match: a text for each dimension,
    Routings,    \*   and lists of rules whose backends are asked for
    Frontends    \* the frontends

ASSUME TextsAssumption == Texts \subseteq Text

ASSUME PagesAssumption == PageLengths \subseteq Nat /\ PageSizes \subseteq Int

ASSUME ApiTablesAssumption ==
    \A apis \in ApiTables :
        /\ apis \in Seq(Range(apis))
        /\ \A r \in Range(apis) : NotFound \notin {r, GVK(r), GVR(r)}

VARIABLES asked, reply
viewsVars == <<asked, reply>>

Ask(kind, arg) == asked' = [kind |-> kind, arg |-> arg]

ViewsInit == asked = None /\ reply = None

\* A condition with one literal on a field, which may lead to several values.
Where ==
    \E f, g \in Texts : \E fields \in {{}, {f, g}}, t \in Texts,
       op \in {"=", "!=", ">", "<", ">=", "<=", "like"},
       percent \in {"no", "before", "after", "both"} :
        LET c == [op |-> op, value |-> t, percent |-> percent] IN
        /\ op # "like" => percent = "no"
        /\ Ask("where", [fields |-> fields, cond |-> c])
        /\ reply' = MatchCondition(fields, c)

\* A condition with two literals.
WhereRange ==
    \E f \in Texts, x, y \in Texts, op \in {"in", "not in", "between", "not between"} :
        LET c == [op |-> op, list |-> {x, y}, from |-> x, to |-> y] IN
        /\ Ask("range", [fields |-> {f}, cond |-> c])
        /\ reply' = MatchCondition({f}, c)

OrderBy ==
    \E a, b \in Texts, desc \in BOOLEAN :
        /\ Ask("order", [a |-> a, b |-> b, desc |-> desc])
        /\ reply' = Less(a, b, desc)

Paginate ==
    \E total \in PageLengths, size \in PageSizes :
        /\ Ask("pages", [total |-> total, size |-> size])
        /\ reply' = [pages |-> TotalPages(total, PageSize(size)),
                      page |-> [p \in 1..TotalPages(total, PageSize(size)) |->
                          Page([i \in 1..total |-> i], Offset(p, PageSize(size)),
                               PageSize(size))]]

NodesOfPod ==
    \E pod \in Pods, nodes \in NodeLists :
        /\ Ask("nodes", [pod |-> pod, nodes |-> nodes])
        /\ reply' = LinkedNode(pod, nodes)

IngressesOfPod ==
    \E names \in SUBSET Services, list \in Ingresses :
        /\ Ask("ingresses", [names |-> names, list |-> list])
        /\ reply' = LinkedIngress(names, list)

PodsOfOwner ==
    \E owners \in SUBSET Owners, owner \in Owners :
        LET pods == {[owners |-> owners]}
            hpas == {[target |-> o.name, targetKind |-> o.kind] : o \in owners} IN
        /\ Ask("pods", [owners |-> owners, owner |-> owner])
        /\ reply' = [found |-> ManagedPod(pods, owner.name, owner.kind).ok,
                      hpas |-> HPAList(hpas, owner.name, owner.kind)]

RelativesOfPod ==
    \E pod \in Relatives :
        /\ Ask("relatives", pod)
        /\ reply' = [services |-> LinkedService(pod, Cluster.services),
                      endpoints |-> LinkedEndpoints(pod, Cluster.services, Cluster.endpoints),
                      configMaps |-> LinkedConfigMap(pod, Cluster.configMaps),
                      secrets |-> LinkedSecret(pod, Cluster.configMaps),
                      pvcs |-> LinkedPVC(pod, Cluster.pvcs),
                      pvs |-> LinkedPV(pod, Cluster.pvcs, Cluster.pvs),
                      env |-> LinkedEnv(pod.containers),
                      envFromPod |-> LinkedEnvFromPod(pod.containers)]

PodsOfNode ==
    \E pods \in SUBSET Placed, p \in Placed :
        /\ Ask("counts", [pods |-> pods, node |-> p.node])
        /\ \E succeeded, failed \in EndPhases :
               /\ succeeded # failed
               /\ reply' = [running |-> RunningPods(pods, p.node, succeeded, failed),
                             pods |-> PodCount(pods, p.node, 4),
                             ips |-> IPUsage(pods, p.node, 2)]

TopOfNodes ==
    \E nodes \in NodeTops :
        LET first == NodeTop(None, nodes) IN
        /\ Ask("top", nodes)
        /\ reply' = [first |-> first.list, second |-> NodeTop(first.stmt, nodes).list]

Usage ==
    \E pod \in UsedPods, node \in UsedNodes, choice \in {"limit", "node", "auto"} :
        /\ Ask("usage", [pod |-> pod, node |-> node, choice |-> choice])
        /\ reply' = [pod |-> PodUsage(pod, node, choice, None),
                      node |-> NodeUsage({pod}, node),
                      metrics |-> ExtractPodMetrics(pod.containers, None),
                      top |-> PodTop({[name |-> "p", containers |-> pod.containers,
                                      node |-> "n"]}, [n \in {"n"} |-> node])]

KindOfTable ==
    \E apis \in ApiTables, table \in UNION {TableNames(r) : r \in UNION {Range(a) : a \in ApiTables}} :
        /\ Ask("table", [apis |-> apis, table |-> table])
        /\ reply' = From(apis, table)

ResourceOfKind ==
    \E apis \in ApiTables :
        \E gvk \in {GVK(r) : r \in Range(apis)} \cup {[group |-> c.group,
                        version |-> c.versions[1], kind |-> c.kind] : c \in Range(CRDs)} :
            /\ Ask("resource", [apis |-> apis, gvk |-> gvk])
            /\ reply' = [known |-> IsBuiltinResourceByGVK(apis, gvk),
                          byKind |-> ParseGVK2GVR(apis, CRDs, <<gvk>>, NotFound),
                          byGVK |-> GetGVRByGVK(apis, gvk)]

ConflictsOfRules ==
    \E list \in RuleLists :
        /\ Ask("conflicts", list)
        /\ reply' = [all |-> DiagnoseFrontend(list, 1),
                      about |-> [r \in {r.name : r \in Range(list)} |-> DiagnoseRule(list, r)]]

BackendsOfRules ==
    \E list \in Routings, name \in {"s1", "s2"}, ns \in {1, 2, Absent} :
        /\ Ask("backends", [list |-> list, name |-> name, ns |-> ns])
        /\ reply' = [listed |-> UNION {Range(ListALB2RoutingRules(list, a, Absent)) :
                                            a \in {r.alb : r \in Range(list)}},
                      found |-> FindALB2ResourcesByService(list, Frontends, name, ns)]

ViewsNext ==
    /\ asked = None
    /\ \/ Where \/ WhereRange \/ OrderBy \/ Paginate
       \/ NodesOfPod \/ IngressesOfPod \/ PodsOfOwner \/ RelativesOfPod
       \/ PodsOfNode \/ TopOfNodes \/ Usage \/ KindOfTable \/ ResourceOfKind
       \/ ConflictsOfRules \/ BackendsOfRules

ViewsSpec == ViewsInit /\ [][ViewsNext]_viewsVars

-----------------------------------------------------------------------------
(* Properties *)

Asked(kind) == asked # None /\ asked.kind = kind

\* Exactly one of an operator and its negation holds of an object that has
\* the field, through lists as well, and neither of one that has not
\* (matchCondition, sql_where_process.go:105).
NegationsComplement ==
    (Asked("where") \/ Asked("range")) =>
        LET c == asked.arg.cond
            other == CASE c.op = "=" -> "!=" [] c.op = "in" -> "not in"
                       [] c.op = "between" -> "not between" [] OTHER -> None
        IN other # None =>
               LET no == MatchCondition(asked.arg.fields, [c EXCEPT !.op = other])
               IN IF asked.arg.fields = {} THEN ~reply /\ ~no ELSE reply # no

\* between says what >= and <= say together, where all three are of one type
\* that has an order: two implementations of the same comparison
\* (compareBetween :508, compareGreaterOrEqual :362).
RangesAgree ==
    Asked("range") => LET c == asked.arg.cond IN
        (/\ c.op = "between"
         /\ \E type \in {"number", "time"} :
                \A t \in asked.arg.fields \cup {c.from, c.to} : DetectType(t) = type)
        => reply = (/\ MatchCondition(asked.arg.fields, [op |-> ">=", value |-> c.from])
                     /\ MatchCondition(asked.arg.fields, [op |-> "<=", value |-> c.to]))

\* What = finds for one of the literals, in finds for the list, where the
\* case of the letters is the same (compareIn :442, compareValue :233).
EqualsImpliesIn ==
    Asked("range") => LET c == asked.arg.cond IN
        (c.op = "in" /\ ~reply) =>
            \A t \in c.list : \A f \in asked.arg.fields :
                f.fold = f.word /\ t.fold = t.word => ~CompareValue(f, t)

\* The comparison that order by sorts with is a strict order on values of
\* one type, and descending is the reverse of it (executeOrderBy, list.go:140).
SortsByAStrictOrder ==
    Asked("order") => LET a == asked.arg.a
                          b == asked.arg.b
                          less(x, y) == Less(x, y, asked.arg.desc) = "less"
                      IN DetectType(a) = DetectType(b) =>
        /\ ~(reply = "less" /\ less(b, a))
        /\ (reply = "less") = (Less(b, a, ~asked.arg.desc) = "less")
        /\ \A c \in Texts : DetectType(c) = DetectType(a) =>
               (reply = "less" /\ less(b, c) => less(a, c))

\* Every item of the list is on one page: none is lost between two of them,
\* and the pages that are counted are those that are not empty
\* (ParsePagination, BuildPaginatedResult of mcp/tools/utils.go:170).
PagesAreTheList ==
    Asked("pages") =>
        /\ \A i \in 1..asked.arg.total :
               \E p \in 1..reply.pages :
                   {q \in 1..reply.pages : i \in Range(reply.page[q])} = {p}
        /\ \A p \in 1..reply.pages : reply.page[p] # << >>

\* A node is listed once, for the first reason there is, though every
\* expression of every term selects nodes anew (LinkedNode, ctl_pod_link.go:568).
NodesAreListedOnce ==
    Asked("nodes") => \A i, j \in DOMAIN reply :
        reply[i].name = reply[j].name => i = j

\* A node that meets every condition of the pod is listed if there is one at
\* all, although it drops out of the nodes that are left (:620, :655).  Every
\* expression of every term counts as a condition, for the code goes through
\* them one after the other: a node that meets one of several terms, which is
\* enough for the scheduler, may be left out, and is by the code.
MatchingNodesAreListed ==
    Asked("nodes") => LET pod == asked.arg.pod IN
        \A n \in Range(asked.arg.nodes) :
            (/\ pod.selector # << >> \/ FlattenSeq(pod.terms) # << >>
             /\ CompareMapContains(pod.selector, n.labels)
             /\ \A exp \in Range(FlattenSeq(pod.terms)) :
                    MatchNodeSelectorRequirement(n.labels, exp))
            => \E i \in DOMAIN reply : reply[i].name = n.name

\* Every ingress that leads to a service of the pod is linked, by a rule or
\* by default, unless an ingress without rules ends in a panic
\* (LinkedIngress, ctl_pod_link.go:206).
LinkedIngressesAreComplete ==
    Asked("ingresses") /\ reply.ok => \A i \in Range(asked.arg.list) :
        (i.default \in asked.arg.names
            \/ \E r \in Range(i.rules) : r.backends \cap asked.arg.names # {})
        => i \in Range(reply.list)

\* What can be looked for by name, and what such a name is confused with: a
\* name that ParseBool takes, or a day, is equal to none, itself included, and
\* numbers are the same however they are written (compareValue,
\* sql_where_process.go:233, after DetectType, detect_type.go:19).
Findable(name) == ~name.bool /\ ~IsTime(name)
SameName(a, b) == a.fold = b.fold \/ (IsNumber(a) /\ a.num = b.num)

\* A pod is found from its owner, and from another object only if it has
\* several owners; so is an autoscaler from its target.  Two exceptions: an
\* owner whose name cannot be looked for has no pods and no autoscaler, and
\* two names that are the same number are one (ManagedPods, ctl_rs.go:40).
OwnedPodsAreFound ==
    Asked("pods") =>
        LET owner == asked.arg.owner
            alike(o) == SameName(o.name, owner.name) /\ SameName(o.kind, owner.kind)
        IN /\ reply.found => Findable(owner.name)
           /\ owner \in asked.arg.owners /\ Findable(owner.name) => reply.found
           /\ Cardinality(asked.arg.owners) = 1 /\ reply.found
                  => \E o \in asked.arg.owners : alike(o)
           /\ reply.hpas = {[target |-> o.name, targetKind |-> o.kind] :
                  o \in {q \in asked.arg.owners : Findable(owner.name) /\ alike(q)}}

\* Two ways to the volumes of a pod agree: what LinkedPV finds are the volumes
\* of the claims that LinkedPVC finds, each mounted under its own volume only,
\* and the endpoints are those of the services (ctl_pod_link.go:71, :106, :176).
RelativesHangTogether ==
    Asked("relatives") =>
        /\ {e.name : e \in reply.endpoints} =
               {s.name : s \in reply.services} \cap {e.name : e \in Cluster.endpoints}
        /\ \A c \in Cluster.pvcs : (\E l \in reply.pvcs : l.name = c.name)
               => \A v \in Cluster.pvs : v.name = c.volumeName => v \in reply.pvs
        /\ \A v \in reply.pvs : \E c \in Cluster.pvcs : v.name = c.volumeName
        /\ \A l \in reply.configMaps, k \in reply.configMaps :
               l # k => l.mounts \cap k.mounts = {}

\* Every config map that a volume names is linked with all of its mounts, and
\* no other, unless its name and that of one are the same number
\* (LinkedConfigMap :284, compareIn sql_where_process.go:442).
LinkedVolumesAreNamed ==
    Asked("relatives") =>
        LET named == {v.of : v \in {w \in asked.arg.volumes : w.kind = "configMap"}}
            linked == {l.name : l \in reply.configMaps}
        IN /\ named \cap {c.name : c \in Cluster.configMaps} \subseteq linked
           /\ \A t \in linked \ named : IsNumber(t) /\ \E u \in named : u.num = t.num

\* A variable that the pod's spec sets to a value without "=" is listed with
\* that value by both, if every container can be asked (LinkedEnv :434,
\* LinkedEnvFromPod :479).
EnvironmentsAgree ==
    Asked("relatives") /\ reply.env.ok => \A c \in asked.arg.containers :
        \A e \in {v \in c.vars : v.value # None} :
            /\ [container |-> c.name, name |-> e.name, value |-> e.value]
                   \in reply.envFromPod
            /\ [container |-> c.name, line |-> <<e.name, e.value>>] \in reply.env.envs

\* Of the pods on a node, those that are not running have ended or have no
\* phase yet: the negations of RunningPods lose no other pod, and the places
\* and addresses that are free are never more than there are.  The pods of a
\* node are those that name it, with the exceptions of OwnedPodsAreFound: a
\* node whose name cannot be looked for has none, and one whose name is a
\* number has those of the same number as well (ctl_node.go:484, :494, :556).
CountsAreOfTheNode ==
    Asked("counts") =>
        LET here == {p \in asked.arg.pods :
                        Findable(asked.arg.node) /\ SameName(p.node, asked.arg.node)}
        IN /\ reply.running = {p \in here : p.phase \notin EndPhases \cup {None}}
           /\ reply.pods.used + reply.pods.available = reply.pods.total
           /\ reply.pods.used = Cardinality(here) /\ reply.ips.used <= reply.pods.used

\* Top of a list of nodes has every node and leaves the chain about the last
\* of them: a second Top is of that node alone, if there are several
\* (ctl_node_usage.go:277).
TopMovesTheChain ==
    Asked("top") =>
        /\ Len(reply.first) = Len(asked.arg)
        /\ asked.arg # << >> => reply.second = <<Last(reply.first)>>

\* Three ways to the use of one pod agree: Top is the total of Metrics, and
\* the shares of a pod that is alone on its node are those of the node, if
\* the node has any of the resource (ctl_pod_usage.go:38, ctl_node_usage.go:37).
UsagesAgree ==
    Asked("usage") =>
        /\ \A t \in reply.top : t.used = reply.metrics.total
        /\ Capacity(asked.arg.node) # 0 =>
               /\ reply.pod.request = reply.node.request
               /\ reply.pod.limit = reply.node.limit

\* The realtime share is of a denominator that is not zero whenever the node
\* has any of the resource, unless the limit was asked for
\* (ctl_pod_usage.go:100).
AutoNeverDividesByNothing ==
    Asked("usage") /\ asked.arg.choice # "limit" /\ Capacity(asked.arg.node) # 0 =>
        (reply.pod.realtime = 0) =
            (100 * reply.metrics.total < Milli(IF asked.arg.choice = "auto" /\ asked.arg.pod.limit # 0
                                      THEN asked.arg.pod.limit ELSE Capacity(asked.arg.node)))

\* A kind that is found by a table name leads back to the resource that bears
\* the name, or to one before it that has the same kind, as that of a status
\* or a scale has.  The names that are offered are found, for a kind in lower
\* case only if that is its singular (sql_builder.go:45, tools.go:46,
\* tools.go:227, tools.go:286).
TablesLeadToTheirResource ==
    Asked("table") =>
        LET apis == asked.arg.apis
            table == asked.arg.table
        IN /\ reply = NotFound => \A r \in Range(apis) :
                  table \notin r.short \cup ({r.lower} \cap {r.singular})
           /\ reply # NotFound => \E i \in DOMAIN apis :
                  /\ table \in TableNames(apis[i])
                  /\ \E j \in 1..i : GetGVRByGVK(apis, reply) = GVR(apis[j])
                                     /\ GVK(apis[j]) = GVK(apis[i])

\* Where no two groups have the kind, looking it up by its kind alone, as
\* Get and List do, is looking it up in full (tools.go:177).
KindsResolveInFull ==
    Asked("resource") => LET gvk == asked.arg.gvk IN
        /\ reply.known = (reply.byGVK # NotFound)
        /\ (/\ reply.byGVK # NotFound
            /\ \A r \in Range(asked.arg.apis) : r.kind = gvk.kind => GVK(r) = gvk)
           => reply.byKind = reply.byGVK

\* What a pattern, and a rule, lets through.
LetsThrough(p, type, t) ==
    LET range == ParseIPRange(p.value) host == NormalizeHostPattern(p) IN
    IF IsWildcard(type, p) \/ p.op = "EXIST" THEN TRUE
    ELSE IF type = "HOST"
    THEN \/ t = host.domain
         \/ host.suffix /\ IsSuffix(IF Dotted(p.value) THEN <<".">> \o host.domain
                                    ELSE host.domain, t)
    ELSE IF type = "SRC_IP" /\ range # Absent
    THEN range[1] <= AddressOf[t] /\ AddressOf[t] <= range[2]
    ELSE IF p.op = "STARTS_WITH" THEN IsPrefix(p.value, t) ELSE p.value = t

Matches(rule, request) ==
    \A c \in Range(ExtractDSLXConditions(rule)) :
        c.values # << >> => \E p \in Range(c.values) :
            \/ IsWildcard(c.type, p)
            \/ c.type \in DOMAIN request /\ LetsThrough(p, c.type, request[c.type])

Eclipses(high, low) == \A q \in Requests : Matches(low, q) => Matches(high, q)

\* Every suffix of a host begins with its dot.
DottedSuffixes(rule) ==
    \A c \in Range(ExtractDSLXConditions(rule)) : \A p \in Range(c.values) :
        c.type = "HOST" /\ p.op = "ENDS_WITH" => Dotted(p.value)

\* A rule that is said to be shadowed never gets a request that the other
\* would not get, and two that are said to be the same match alike
\* (ruleA_Shadows_ruleB, diagnose.go:466).  It is not so for the suffix of a
\* host that is written without a dot, below one with it.
ShadowedRulesAreEclipsed ==
    Asked("conflicts") /\ (\A r \in Range(asked.arg) : DottedSuffixes(r)) =>
        \A w \in reply.all : \A high, low \in Range(asked.arg) :
            w.high = high.name /\ w.low = low.name =>
                /\ Eclipses(high, low)
                /\ w.type = "Duplicate" => Eclipses(low, high)

\* And no rule that can never match is kept silent about: where one with a
\* higher priority gets all of its requests by patterns that are compared one
\* by one, the diagnosis of the frontend, and of each of the two, has it
\* (checkPairConflict, diagnose.go:684).
EclipsedRulesAreReported ==
    Asked("conflicts") => \A high, low \in Range(asked.arg) :
        /\ GetRulePriority(high) < GetRulePriority(low)
        /\ \E q \in Requests : Matches(low, q)
        /\ Eclipses(high, low)
        => \A said \in {reply.all, reply.about[high.name], reply.about[low.name]} :
               \E w \in said : w.high = high.name /\ w.low = low.name

\* The diagnosis is about the rules, not about the order they are listed in
\* (sortMatchedRules, diagnose.go:651).
DiagnosisIgnoresTheOrder ==
    Asked("conflicts") => reply.all = DiagnoseFrontend(Reverse(asked.arg), 1)

\* Two tools agree: a rule is found for a service exactly if that is among
\* the backends that are listed for the rule, the namespace being left out or
\* not (find.go:80, rules.go:140).
ServicesAreFoundWhereListed ==
    Asked("backends") =>
        {<<f.rule, f.ns>> : f \in {g \in reply.found : g.proxy = "L7"}} =
        {<<l.rule, l.ns>> : l \in {k \in reply.listed : \E b \in k.backends :
            b.name = asked.arg.name /\ asked.arg.ns \in {Absent, b.ns}}}

\* What a query means: which objects meet it, in which order, on which page,
\* and which resource it is about.
QueriesAreConsistent ==
    /\ NegationsComplement
    /\ RangesAgree
    /\ EqualsImpliesIn
    /\ SortsByAStrictOrder
    /\ PagesAreTheList
    /\ TablesLeadToTheirResource
    /\ KindsResolveInFull

\* What is linked with a pod: all that is, once, under its own name.
LinksAreComplete ==
    /\ NodesAreListedOnce
    /\ MatchingNodesAreListed
    /\ LinkedIngressesAreComplete
    /\ OwnedPodsAreFound
    /\ RelativesHangTogether
    /\ LinkedVolumesAreNamed
    /\ EnvironmentsAgree

\* What is used: every way to a number leads to the same.
NumbersAgree ==
    /\ CountsAreOfTheNode
    /\ TopMovesTheChain
    /\ UsagesAgree
    /\ AutoNeverDividesByNothing

\* What the tools for the load balancer say of its rules.
DiagnosisIsRight ==
    /\ ShadowedRulesAreEclipsed
    /\ EclipsedRulesAreReported
    /\ DiagnosisIgnoresTheOrder
    /\ ServicesAreFoundWhereListed
=============================================================================
