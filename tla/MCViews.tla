------------------------------ MODULE MCViews ------------------------------
(***************************************************************************)
(* The questions that TLC asks.  The texts are "1", "10", "1e1", "2",      *)
(* "2024-01-01", the same day at ten, the day after, "A", "a", "b", "true":*)
(* word is their place in the byte order.                                  *)
(***************************************************************************)
EXTENDS Views

T(word, fold, num, bool, printed, day, clock, starts) ==
    [word |-> word, fold |-> fold, num |-> num, bool |-> bool, printed |-> printed,
     day |-> day, clock |-> clock, starts |-> starts, ends |-> {fold},
     holds |-> starts \cup {fold}]

MCTexts == {
    T(1, 1, 1, TRUE, 11, None, None, {1}),            \* "1"
    T(2, 2, 10, FALSE, 2, None, None, {1, 2}),        \* "10"
    T(3, 3, 10, FALSE, 2, None, None, {1, 3}),        \* "1e1"
    T(4, 4, 2, FALSE, 4, None, None, {4}),            \* "2"
    T(5, 5, None, FALSE, 20, 1, None, {4, 5}),        \* "2024-01-01"
    T(6, 6, None, FALSE, 21, 1, 10, {4, 5, 6}),       \* "2024-01-01T10:00:00Z"
    T(7, 7, None, FALSE, 22, 2, None, {4, 7}),        \* "2024-01-02"
    T(8, 9, None, FALSE, 9, None, None, {9}),         \* "A"
    T(9, 9, None, FALSE, 9, None, None, {9}),         \* "a"
    T(10, 10, None, FALSE, 10, None, None, {10}),     \* "b"
    T(11, 11, None, TRUE, 11, None, None, {11})}      \* "true"

\* Two labels; requirements on them.
Zones == 1 .. 2
Labels == {<< >>} \cup [{"zone"} -> Zones]
              \cup {[k \in {"zone", "disk"} |-> IF k = "zone" THEN z ELSE 1] : z \in Zones}
Requirements == {
    [op |-> "In", key |-> "zone", values |-> {1}],
    [op |-> "Gt", key |-> "zone", values |-> {1}],
    [op |-> "Exists", key |-> "disk", values |-> {}],
    [op |-> "NotIn", key |-> "disk", values |-> {1}]}
Terms == {<< >>} \cup {<<r>> : r \in Requirements} \cup {<<r, q>> : r, q \in Requirements}
Taint == [key |-> "busy", value |-> "yes", effect |-> "NoSchedule"]
MCPods ==
    {[selector |-> s, terms |-> t, tolerations |-> l, node |-> n] :
        s \in {<< >>, [k \in {"zone"} |-> 1], [k \in {"disk"} |-> 1]},
        t \in {<<u>> : u \in Terms} \cup {<<<<r>>, <<q>>>> : r, q \in Requirements},
        l \in {{}, {[key |-> None, op |-> "Exists", value |-> None, effect |-> None]}},
        n \in {None, "n1"}}
MCNodeLists ==
    {<<[name |-> "n1", labels |-> x, taints |-> t], [name |-> "n2", labels |-> y, taints |-> {}]>> :
        x, y \in Labels, t \in {{}, {Taint}}}

MCServices == {"s1", "s2"}
Rules == {[host |-> h, backends |-> b] : h \in {"s1", None}, b \in SUBSET MCServices}
Ingress == {[name |-> n, rules |-> r, default |-> d] :
    n \in {"i1"}, r \in {<< >>} \cup {<<x>> : x \in Rules} \cup {<<x, y>> : x, y \in Rules},
    d \in {None, "s1"}}
MCIngresses == {<<i>> : i \in Ingress}
    \cup {<<i, [name |-> "i2", rules |-> <<[host |-> "s2", backends |-> {"s2"}]>>,
                default |-> None]>> : i \in Ingress}

\* Owners and nodes called "1", "10", "1e1", "2024-01-01" and "a".
MCOwners == [name : {t \in MCTexts : t.word \in {1, 2, 3, 5, 9}},
             kind : {t \in MCTexts : t.word \in {8, 10}}]

MCUsedPods ==
    {[containers |-> [c \in {"c1", "c2"} |-> IF c = "c1" THEN x ELSE y],
      request |-> r, limit |-> l] :
        x \in {None, 0, 4, 15}, y \in {None, 6, 21}, r \in {0, 5, 31}, l \in {0, 40, 90}}
MCUsedNodes ==
    {[capacity |-> c, allocatable |-> a, used |-> u] :
        c \in {0, 100}, a \in {None, 0, 81}, u \in {0, 55}}

MCNodeTops == {[i \in 1..n |-> [name |-> <<"n1", "n2", "n3">>[i], capacity |-> c,
                                allocatable |-> None, used |-> u * i]] :
                  n \in 0..3, c \in {0, 100}, u \in {0, 7}}

TextOf(n) == CHOOSE t \in MCTexts : t.word = n
MCCluster ==
    [services |-> {[name |-> TextOf(9), selector |-> [k \in {"zone"} |-> 1]],
                   [name |-> TextOf(4), selector |-> << >>]},
     endpoints |-> {[name |-> TextOf(9)], [name |-> TextOf(4)]},
     configMaps |-> {[name |-> TextOf(2)], [name |-> TextOf(3)], [name |-> TextOf(9)]},
     pvcs |-> {[name |-> TextOf(9), volumeName |-> TextOf(4)],
               [name |-> TextOf(4), volumeName |-> None]},
     pvs |-> {[name |-> TextOf(4)], [name |-> TextOf(9)]}]
Volumes == {[name |-> "v1", kind |-> "configMap", of |-> t] : t \in {TextOf(2), TextOf(9)}}
    \cup {[name |-> "v2", kind |-> k, of |-> TextOf(9)] : k \in {"pvc", "secret", "configMap"}}
    \cup {[name |-> "v3", kind |-> "pvc", of |-> TextOf(4)]}
Variables == {[name |-> "x", value |-> v, field |-> None, resource |-> None,
               config |-> c, secret |-> None] : v \in {None, "1"}, c \in {None, "key"}}
Containers == {[name |-> "c", running |-> r, vars |-> {v}, froms |-> {"all"},
                env |-> {<<"x", IF v.value # None THEN v.value ELSE "read">>,
                         <<"opts", "a", "b">>}] : r \in BOOLEAN, v \in Variables}
VolumeSets == {v \in {{x, y} : x, y \in Volumes} : \A x, y \in v : x.name = y.name => x = y}
MCRelatives ==
    {[labels |-> l, volumes |-> v, containers |-> {c},
      mounts |-> {[volume |-> "v1", at |-> "/a"], [volume |-> "v2", at |-> "/b"]}] :
        l \in Labels, v \in VolumeSets, c \in Containers}

MCEndPhases == {TextOf(8), TextOf(10)}
MCPlaced ==
    {[node |-> TextOf(n), phase |-> p, ip |-> IF p = None THEN None ELSE TextOf(7)] :
        n \in {2, 9}, p \in {None, TextOf(4), TextOf(8)}}
    \cup {[node |-> TextOf(n), phase |-> TextOf(4), ip |-> None] : n \in {1, 2, 3, 5, 9}}

Resource(group, version, kind, plural, singular, lower) ==
    [group |-> group, version |-> version, kind |-> kind, plural |-> plural,
     singular |-> singular, short |-> {}, lower |-> lower, namespaced |-> TRUE]
Resources == {
    Resource("", "v1", "Service", "services", "service", "service"),
    Resource("apps", "v1", "Deployment", "deployments", "deployment", "deployment"),
    Resource("apps", "v1beta1", "Deployment", "deployments", "deployment", "deployment"),
    Resource("apps", "v1", "Deployment", "deployments/status", "", "deployment"),
    Resource("apps", "v1", "Scale", "deployments/scale", "", "scale"),
    Resource("serving", "v1", "Service", "services", "service", "service"),
    [Resource("db", "v1", "Backup", "services", "dump", "backup") EXCEPT !.short = {"bk"}]}
MCApiTables == {s \in UNION {[1..n -> Resources] : n \in 0..3} :
                   \A i, j \in DOMAIN s : s[i] = s[j] => i = j}
MCCRDs == <<[group |-> "db", versions |-> <<"v1", "v2">>, kind |-> "Backup",
             plural |-> "backups", singular |-> "backup", short |-> {}, namespaced |-> TRUE,
             name |-> "backups.db"]>>

\* Rules: "/", "/a", "/a/b"; a.com, x.a.com, xa.com; addresses 1 to 4.
ACom == <<"a", ".", "com">>
Condition(type, op, args) == [type |-> type, key |-> "", values |-> <<[op |-> op, args |-> args]>>]
Paths == {Condition("URL", "STARTS_WITH", <<v>>) : v \in {<<"/">>, <<"/", "a">>, <<"/", "a", "/", "b">>}}
    \cup {Condition("URL", "EQ", <<<<"/", "a">>>>),
          Condition("URL", "IN", <<<<"/", "a">>, <<"/", "a", "/", "b">>>>)}
Hosts == {Condition("HOST", "ENDS_WITH", <<v>>) : v \in {ACom, <<".">> \o ACom, <<"*", ".">> \o ACom}}
    \cup {Condition("HOST", "EQ", <<v>>) : v \in {<<"*">>, ACom, <<"x", ".">> \o ACom, <<"x">> \o ACom}}
Others == {Condition("HEADER", "EXIST", << >>), Condition("HEADER", "EQ", <<<<"v">>>>),
           Condition("SRC_IP", "RANGE", <<<<"1">>, <<"3">>>>), Condition("SRC_IP", "EQ", <<<<"2">>>>),
           Condition("SRC_IP", "EQ", <<<<"2", "/", "31">>>>)}
DSLX == {<<c>> : c \in Paths \cup Hosts \cup Others} \cup {<<p, h>> : p \in Paths, h \in Hosts}
           \cup {<<o, p>> : o \in Others, p \in {q \in Paths : q.values[1].op = "STARTS_WITH"}}

Rule(name, priority, dslx) ==
    [name |-> name, ns |-> 1, alb |-> "alb", frontend |-> 1, priority |-> priority, dslx |-> dslx,
     url |-> << >>, domain |-> << >>, dsl |-> << >>, services |-> {}]
Legacy(url, domain) == [Rule(2, 1, << >>) EXCEPT !.url = url, !.domain = domain]
MCRuleLists ==
    {<<Rule(1, 1, c), Rule(2, p, d)>> : c, d \in DSLX, p \in {1, Absent}}
    \cup {<<Rule(1, 2, c), Legacy(u, d)>> : c \in DSLX, u \in {<< >>, <<"/", "a">>},
                                           d \in {ACom, <<"*", ".">> \o ACom}}

MCAddressOf == [t \in {<<"1">>, <<"2">>, <<"3">>, <<"4">>} |->
                    CASE t = <<"1">> -> 1 [] t = <<"2">> -> 2 [] t = <<"3">> -> 3 [] t = <<"4">> -> 4]
MCSubnetOf == [t \in {<<"2", "/", "31">>} |-> <<2, 3>>]

MCRequests ==
    LET of(dims) == [d \in dims |->
        CASE d = "URL" -> {<<"/">>, <<"/", "a">>, <<"/", "a", "/", "b">>, <<"/", "a", "/", "b", "c">>}
          [] d = "HOST" -> {ACom, <<"x", ".">> \o ACom, <<"y", ".">> \o ACom, <<"x">> \o ACom, <<"b">>}
          [] d = "SRC_IP" -> DOMAIN MCAddressOf
          [] d = "HEADER" -> {<<"v">>, <<"w">>}]
        all(dims) == {f \in [dims -> UNION Range(of(dims))] : \A d \in dims : f[d] \in of(dims)[d]}
    IN all({"URL", "HOST", "SRC_IP"})
           \cup {f \in all({"URL", "HOST", "SRC_IP", "HEADER"}) : f["SRC_IP"] \in {<<"2">>, <<"4">>}}

Routing(name, ns, alb, services) ==
    [Rule(name, 1, << >>) EXCEPT !.ns = ns, !.alb = alb, !.services = services]
MCServiceSets == SUBSET {[name |-> n, ns |-> m] : n \in {"s1"}, m \in {1, 2, Absent}}
MCRoutings == {<<Routing(1, 1, a, x), Routing(2, m, "alb", y)>> :
                  a \in {"alb", "blb"}, m \in {1, 2}, x, y \in MCServiceSets}
MCFrontends == <<[name |-> 1, ns |-> 1, alb |-> "alb", port |-> 80, services |-> {}],
                 [name |-> 2, ns |-> 2, alb |-> "alb", port |-> 81,
                  services |-> {[name |-> "s2", ns |-> Absent]}]>>
=============================================================================
