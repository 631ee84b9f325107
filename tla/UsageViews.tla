---------------------------- MODULE UsageViews ----------------------------
(***************************************************************************)
(* How much of its node a pod uses, and how much of itself a node: the     *)
(* usage and metrics functions of kom/ctl_pod_usage.go, ctl_pod_metrics.go,*)
(* ctl_node_usage.go and ctl_node.go, and the table of kom/struct.go.      *)
(*                                                                         *)
(* One resource is followed, processor or memory: a quantity counts its    *)
(* smallest unit, and Unit of these make one of the units of the answer (a *)
(* millicore; Unit is 1 for memory).                                       *)
(***************************************************************************)
EXTENDS PodViews

CONSTANTS
    Unit,       \* smallest units in a unit of the answer
    Undefined   \* what a division by zero prints

ASSUME UnitAssumption == Unit \in Nat \ {0}

\* Quantity.MilliValue rounds up.
Milli(q) == (q + Unit - 1) \div Unit

\* FormatPercent of a fraction, in whole percents.
Percent(a, b) == IF b = 0 THEN Undefined ELSE (100 * a) \div b

\* Mutant of Capacity: the capacity, whatever can be allocated of it.
CapacityOnly(node) == node.capacity

\* What a node has: what can be allocated, if it says so.
Capacity(node) == IF node.allocatable = None THEN node.capacity ELSE node.allocatable

-----------------------------------------------------------------------------
(* Metrics.  A container that has no measurement yet has usage None.       *)

Sum(quantities) == FoldFunction(LAMBDA a, b : a + b, 0, quantities)

Measured(containers) ==
    Sum([c \in {d \in DOMAIN containers : containers[d] # None} |-> containers[c]])

\* Mutant of ExtractPodMetrics: the total is of the rounded values.
ExtractPodMetricsRounded(containers, only) ==
    LET asked == {c \in DOMAIN containers : only \in {None, c}}
        parts == [c \in asked |-> IF containers[c] = None THEN 0 ELSE Milli(containers[c])]
    IN [parts |-> parts, total |-> Sum(parts)]

\* Each container that is asked for, and under "total" their sum.
ExtractPodMetrics(containers, only) ==
    LET asked == {c \in DOMAIN containers : only \in {None, c}}
    IN [parts |-> [c \in asked |->
                      IF containers[c] = None THEN 0 ELSE Milli(containers[c])],
        total |-> Milli(Measured([c \in asked |-> containers[c]]))]

SummarizePodMetrics(containers) == Milli(Measured(containers))

\* Top of pods: with the share of the node the pod is on, if both are found;
\* an allocatable of zero divides all the same.
PodTop(pods, nodes) ==
    {[name |-> p.name, used |-> SummarizePodMetrics(p.containers),
      fraction |-> IF p.node = None THEN None
                   ELSE Percent(SummarizePodMetrics(p.containers),
                                Milli(Capacity(nodes[p.node])))] : p \in pods}

\* Mutant of NodeTop: the statement keeps its name.
NodeTopKeepsName(stmt, nodes) ==
    LET listed == SelectSeq(nodes, LAMBDA n : stmt \in {None, n.name})
    IN [list |-> [i \in DOMAIN listed |->
            [name |-> listed[i].name, used |-> Milli(listed[i].used), fraction |-> ""]],
        stmt |-> stmt]

\* Top of nodes.  It sets the name of the statement to each node in turn, so
\* that the statement is about the last one from then on.
NodeTop(stmt, nodes) ==
    LET listed == SelectSeq(nodes, LAMBDA n : stmt \in {None, n.name})
    IN [list |-> [i \in DOMAIN listed |->
            [name |-> listed[i].name, used |-> Milli(listed[i].used),
             fraction |-> IF Capacity(listed[i]) = 0 THEN ""
                          ELSE Percent(Milli(listed[i].used), Milli(Capacity(listed[i])))]],
        stmt |-> IF listed = << >> THEN stmt ELSE Last(listed).name]

-----------------------------------------------------------------------------
(* Usage *)

\* Mutant of Denominator: auto is the limit, also when there is none.
DenominatorOfLimit(choice, limit, node) ==
    IF choice = "node" THEN Capacity(node) ELSE limit

Denominator(choice, limit, node) ==
    CASE choice = "limit" -> limit
      [] choice = "node" -> Capacity(node)
      [] choice = "auto" -> IF limit # 0 THEN limit ELSE Capacity(node)

\* ResourceUsage of a pod.  only is the container that the chain has named,
\* which restricts what is measured and not what is requested.
PodUsage(pod, node, choice, only) ==
    LET used == ExtractPodMetrics(pod.containers, only).total
        share(q) == Percent(Milli(q), Milli(Capacity(node)))
        whole == Milli(Denominator(choice, pod.limit, node))
    IN [request |-> share(pod.request), limit |-> share(pod.limit),
        realtime |-> IF whole = 0 THEN 0 ELSE Percent(used, whole)]

\* Mutant of RunningPods: pods that have failed are running.
RunningPodsAndFailed(pods, name, succeeded, failed) ==
    {p \in WhereEquals(pods, "node", name) :
        MatchCondition(FieldValues({p}, "phase"), [op |-> "!=", value |-> succeeded])}

\* RunningPods of a node, by where.
RunningPods(pods, name, succeeded, failed) ==
    {p \in WhereEquals(pods, "node", name) :
        \A end \in {succeeded, failed} :
            MatchCondition(FieldValues({p}, "phase"), [op |-> "!=", value |-> end])}

\* TotalRequestsAndLimits: getPodsTotalRequestsAndLimits of the running pods.
TotalRequestsAndLimits(pods) ==
    [requests |-> Sum([p \in pods |-> p.request]),
     limits |-> Sum([p \in pods |-> p.limit])]

\* ResourceUsage of a node: nothing is divided by zero.
NodeUsage(running, node) ==
    LET total == TotalRequestsAndLimits(running)
        share(q) == IF Capacity(node) = 0 THEN ""
                    ELSE Percent(Milli(q), Milli(Capacity(node)))
    IN [request |-> share(total.requests), limit |-> share(total.limits),
        realtime |-> share(node.used)]

\* ResourceUsageTable: a row of what ResourceUsage answers.
ResourceUsageTable(usage, total) ==
    [total |-> total, request |-> usage.request, limit |-> usage.limit,
     realtime |-> usage.realtime]

\* PodCount: finished pods are counted, though they hold no place.
PodCount(pods, name, most) ==
    LET used == Cardinality(WhereEquals(pods, "node", name))
    IN [total |-> most, used |-> used, available |-> most - used]

\* IPUsage: every pod of the node that has an address, one of the node's own
\* and one that it has given back as well.
IPUsage(pods, name, bits) ==
    LET used == Cardinality({p \in WhereEquals(pods, "node", name) :
                                FieldValues({p}, "ip") # {}})
    IN [total |-> 2^bits, used |-> used, available |-> 2^bits - used]
=============================================================================
