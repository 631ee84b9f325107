----------------------------- MODULE PodViews -----------------------------
(***************************************************************************)
(* What belongs to a pod, and which pods belong to an object: the Linked   *)
(* functions of kom/ctl_pod_link.go and the ManagedPods of the workloads.  *)
(* Each reads objects and relates them by names and labels; the names are  *)
(* texts, for most of the relations are where conditions.                  *)
(***************************************************************************)
EXTENDS WhereFilter, SequencesExt

\* The objects that a query by a field keeps, with = or with in.
WhereEquals(objs, field, t) ==
    {o \in objs : MatchCondition(FieldValues({o}, field), [op |-> "=", value |-> t])}
WhereIn(objs, field, texts) ==
    {o \in objs : MatchCondition(FieldValues({o}, field), [op |-> "in", list |-> texts])}

-----------------------------------------------------------------------------
(* Labels *)

\* Mutant of CompareMapContains: the big one in the small one.
ContainsSwapped(small, big) ==
    \A k \in DOMAIN big : k \in DOMAIN small /\ small[k] = big[k]

CompareMapContains(small, big) ==
    \A k \in DOMAIN small : k \in DOMAIN big /\ big[k] = small[k]

\* Label values are numbers here, which Gt and Lt need.
MatchNodeSelectorRequirement(labels, req) ==
    LET exists == req.key \in DOMAIN labels
    IN  CASE req.op = "In" -> exists /\ labels[req.key] \in req.values
          [] req.op = "NotIn" -> ~exists \/ labels[req.key] \notin req.values
          [] req.op = "Exists" -> exists
          [] req.op = "DoesNotExist" -> ~exists
          [] req.op = "Gt" -> exists /\ \E v \in req.values :
                                  req.values = {v} /\ labels[req.key] > v
          [] req.op = "Lt" -> exists /\ \E v \in req.values :
                                  req.values = {v} /\ labels[req.key] < v

\* An operator that is not set is not Equal, which the API server makes of it.
Tolerates(tol, taint) ==
    /\ tol.effect \in {None, taint.effect}
    /\ \/ tol.op = "Equal" /\ tol.key = taint.key /\ tol.value = taint.value
       \/ tol.op = "Exists" /\ tol.key \in {None, taint.key}

-----------------------------------------------------------------------------
(* LinkedNode.  st.nodes are the nodes left, st.selected those to return.  *)

\* Mutant of Narrow: a node may be selected by several conditions.
NarrowAgain(st, reason, free, hit) ==
    LET hits == SelectSeq(st.nodes, LAMBDA n : n \in hit \ free)
    IN [nodes |-> SelectSeq(st.nodes, LAMBDA n : n \in hit \cup free),
        selected |-> st.selected \o
            [i \in DOMAIN hits |-> [name |-> hits[i].name, reason |-> reason]]]

\* Mutant of Narrow: the nodes that were selected before are forgotten.
NarrowForgets(st, reason, free, hit) ==
    LET hits == SelectSeq(st.nodes, LAMBDA n : n \in hit \ free)
    IN [nodes |-> SelectSeq(st.nodes, LAMBDA n : n \in hit \cup free),
        selected |-> [i \in DOMAIN hits |-> [name |-> hits[i].name, reason |-> reason]]]

\* One condition: the nodes it hits are selected and stay, those selected
\* before drop out of the nodes that are left, as do those it does not hit.
Narrow(st, reason, free, hit) ==
    LET fresh == {n \in hit : \A i \in DOMAIN st.selected : st.selected[i].name # n.name}
        hits == SelectSeq(st.nodes, LAMBDA n : n \in fresh \ free)
    IN [nodes |-> SelectSeq(st.nodes, LAMBDA n : n \in fresh \cup free),
        selected |-> st.selected \o
            [i \in DOMAIN hits |-> [name |-> hits[i].name, reason |-> reason]]]

\* The conditions in their order; every expression of every term is one.
LinkedNode(pod, nodes) ==
    LET all == Range(nodes)
        start == [nodes |-> nodes, selected |-> << >>]
        selector == IF pod.selector = << >> THEN start
                    ELSE Narrow(start, "NodeSelector", {},
                             {n \in all : CompareMapContains(pod.selector, n.labels)})
        affinity == FoldLeft(LAMBDA st, exp :
                        Narrow(st, "NodeAffinity", {},
                            {n \in all : MatchNodeSelectorRequirement(n.labels, exp)}),
                        selector, FlattenSeq(pod.terms))
        tainted == IF pod.tolerations = {} THEN affinity
                   ELSE Narrow(affinity, "Tolerations", {n \in all : n.taints = {}},
                            {n \in all : \E t \in n.taints, tol \in pod.tolerations :
                                             Tolerates(tol, t)})
        placed == IF pod.node = None THEN tainted
                  ELSE Narrow(tainted, "NodeName", {}, {n \in all : n.name = pod.node})
    IN [i \in DOMAIN placed.selected |->
           [name |-> placed.selected[i].name, reason |-> placed.selected[i].reason,
            current |-> placed.selected[i].name = pod.node]]

-----------------------------------------------------------------------------
(* Services, endpoints and ingresses *)

LinkedService(pod, services) ==
    IF pod.labels = << >> THEN {}
    ELSE {s \in services : /\ s.selector # << >>
                           /\ CompareMapContains(s.selector, pod.labels)}

LinkedEndpoints(pod, services, endpoints) ==
    WhereIn(endpoints, "name", {s.name : s \in LinkedService(pod, services)})

\* Mutant of Times: the default backend of an ingress is left out.
TimesByRules(names, i) ==
    FoldLeft(LAMBDA sum, r : sum + Cardinality(r.backends \cap names), 0, i.rules)

\* How many backends of the ingress are among the services.
Times(names, i) ==
    Cardinality({i.default} \cap names)
    + FoldLeft(LAMBDA sum, r : sum + Cardinality(r.backends \cap names), 0, i.rules)

\* First the ingresses whose first host is named as a service is, then, once
\* for every backend, those with a backend.  The first rule of an ingress
\* without rules is a panic.
LinkedIngress(names, ingresses) ==
    LET hosts == SelectSeq(ingresses, LAMBDA i : i.rules[1].host \in names)
    IN  IF names = {} THEN [ok |-> TRUE, list |-> << >>]
        ELSE IF \E i \in Range(ingresses) : i.rules = << >>
        THEN [ok |-> FALSE, list |-> << >>]
        ELSE [ok |-> TRUE, list |-> hosts \o FlattenSeq([n \in DOMAIN ingresses |->
                 [m \in 1..Times(names, ingresses[n]) |-> ingresses[n]]])]

-----------------------------------------------------------------------------
(* Volumes and variables *)

\* Mutant of Mounts: the name of the volume is not compared.
MountsOfPod(pod, kind, obj) ==
    {m \in pod.mounts : \E v \in pod.volumes : v.kind = kind /\ v.of = obj.name}

\* The mounts of the volumes that are made of the object.
Mounts(pod, kind, obj) ==
    {m \in pod.mounts : \E v \in pod.volumes :
        v.kind = kind /\ v.of = obj.name /\ m.volume = v.name}

\* Mutant of LinkedByVolume: volumes of every kind are looked at.
LinkedByAnyVolume(pod, kind, objs) ==
    {[name |-> o.name, mounts |-> Mounts(pod, kind, o)] :
        o \in WhereIn(objs, "name", {v.of : v \in pod.volumes})}

\* LinkedPVC, LinkedConfigMap and LinkedSecret: the objects that a volume of
\* that kind names, each with an annotation of its mounts.
LinkedByVolume(pod, kind, objs) ==
    {[name |-> o.name, mounts |-> Mounts(pod, kind, o)] :
        o \in WhereIn(objs, "name", {v.of : v \in {w \in pod.volumes : w.kind = kind}})}
LinkedPVC(pod, pvcs) == LinkedByVolume(pod, "pvc", pvcs)
LinkedConfigMap(pod, configMaps) == LinkedByVolume(pod, "configMap", configMaps)
LinkedSecret(pod, secrets) == LinkedByVolume(pod, "secret", secrets)

\* LinkedPV: the volumes that the claims are bound to.
LinkedPV(pod, pvcs, pvs) ==
    WhereIn(pvs, "name", {c.volumeName : c \in {d \in pvcs :
        d.name \in {l.name : l \in LinkedPVC(pod, pvcs)}}} \ {None})

\* LinkedEnv: what env prints in every container, by lines; a line is the
\* parts between its "=".  One container that cannot be asked ends it.
LinkedEnv(containers) ==
    [ok |-> \A c \in containers : c.running,
     envs |-> IF \A c \in containers : c.running
              THEN UNION {{[container |-> c.name, line |-> l] :
                              l \in {k \in c.env : Len(k) = 2}} : c \in containers}
              ELSE {}]

\* Mutant of EnvSource: a reference goes before the value.
EnvSourceOfReference(env) ==
    LET refs == SelectSeq(<<env.value, env.field, env.resource, env.config, env.secret>>,
                          LAMBDA r : r # None)
    IN IF refs = << >> THEN None ELSE Last(refs)

\* LinkedEnvFromPod: a value, or else the last kind of reference that is set.
EnvSource(env) ==
    IF env.value # None THEN env.value
    ELSE LET refs == SelectSeq(<<env.field, env.resource, env.config, env.secret>>,
                               LAMBDA r : r # None)
         IN IF refs = << >> THEN None ELSE Last(refs)
LinkedEnvFromPod(containers) ==
    UNION {{[container |-> c.name, name |-> e.name, value |-> EnvSource(e)] : e \in c.vars}
           \cup {[container |-> c.name, name |-> f, value |-> f] : f \in c.froms} :
               c \in containers}

-----------------------------------------------------------------------------
(* Owners *)

\* Mutant of ManagedPods: the name is not compared.
ManagedPodsOfKind(pods, name, kind) ==
    {p \in pods : MatchCondition({o.kind : o \in p.owners}, [op |-> "=", value |-> kind])}

\* ManagedPods: the name and the kind of an owner are two conditions, which
\* two owners of a pod may meet between them.
ManagedPods(pods, name, kind) ==
    {p \in pods :
        /\ MatchCondition({o.name : o \in p.owners}, [op |-> "=", value |-> name])
        /\ MatchCondition({o.kind : o \in p.owners}, [op |-> "=", value |-> kind])}

\* ManagedPod: one of them, or an error.
ManagedPod(pods, name, kind) ==
    [ok |-> ManagedPods(pods, name, kind) # {}, pods |-> ManagedPods(pods, name, kind)]

HPAList(hpas, name, kind) ==
    WhereEquals(hpas, "target", name) \cap WhereEquals(hpas, "targetKind", kind)
=============================================================================
