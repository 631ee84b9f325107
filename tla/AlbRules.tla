----------------------------- MODULE AlbRules -----------------------------
(***************************************************************************)
(* The routing rules of an ALB load balancer, as the tools of              *)
(* mcp/tools/alb2 read them: which rules stand in each other's way, the    *)
(* rules of a load balancer by priority with their backends, and the rules *)
(* and frontends that lead to a service.  A text is a sequence of tokens,  *)
(* << >> the empty one; a pattern is an operator and a text.               *)
(***************************************************************************)
EXTENDS Integers, FiniteSets, Sequences, SequencesExt

CONSTANTS
    AddressOf,  \* the number of each text that is an IP address
    SubnetOf,   \* the first and last number of each text that is a subnet
    Absent      \* no value

P(op, value) == [op |-> op, value |-> value]

---------------------------------------------------------------------------
(* What a rule asks of a request.                                          *)

\* The patterns of one entry of a condition: an operator and its operands.
ParseDSLXValues(entry) ==
    LET n == Len(entry.args) IN
    CASE entry.op = "EXIST" -> <<P("EXIST", << >>)>>
      [] entry.op # "EXIST" /\ n = 0 -> << >>
      [] entry.op = "IN" /\ n > 0 -> [i \in 1..n |-> P("IN", entry.args[i])]
      [] entry.op = "RANGE" /\ n > 1 -> <<P("RANGE", entry.args[1] \o <<"-">> \o entry.args[2])>>
      [] OTHER -> <<P(entry.op, entry.args[1])>>

\* The conditions, from the fields of before where there is no dslx.
ExtractDSLXConditions(rule) ==
    LET legacy(type, op, value) ==
            IF value = << >> THEN << >>
            ELSE <<[type |-> type, key |-> "", values |-> <<P(op, value)>>]>>
        suffix == "*" \in Range(rule.domain) \/ IsPrefix(<<".">>, rule.domain)
        parsed(c) == [c EXCEPT !.values = FlattenSeq([i \in DOMAIN @ |-> ParseDSLXValues(@[i])])]
    IN IF rule.dslx # << >>
       THEN LET typed == SelectSeq(rule.dslx, LAMBDA c : c.type # "")
            IN [i \in DOMAIN typed |-> parsed(typed[i])]
       ELSE legacy("URL", "STARTS_WITH", rule.url)
                \o legacy("HOST", IF suffix THEN "ENDS_WITH" ELSE "EQ", rule.domain)
                \o legacy("DSL", "DSL", rule.dsl)

\* Mutant: only the empty path is any path.
IsWildcardURLPathOfEmpty(value) == value = << >>
IsWildcardURLPath(value) == value \in {<< >>, <<"/">>, <<"/", "*">>}

IsWildcard(type, p) ==
    \/ type = "HOST" /\ p.value \in {<< >>, <<"*">>}
    \/ type = "URL" /\ p.op \in {"STARTS_WITH", "REGEX"} /\ IsWildcardURLPath(p.value)

\* The patterns of each dimension that is constrained: a wildcard, or no
\* pattern, is no constraint, and of two conditions the last one stays.
GetNormalizedRuleConstraints(rule) ==
    LET constrains(c) == /\ c.values # << >>
                         /\ \A p \in Range(c.values) : ~IsWildcard(c.type, p)
        conditions == SelectSeq(ExtractDSLXConditions(rule), constrains)
        of(c) == <<c.type, c.key>>
    IN [d \in {of(c) : c \in Range(conditions)} |->
            Last(SelectSeq(conditions, LAMBDA c : of(c) = d)).values]

---------------------------------------------------------------------------
(* When one pattern, and one rule, covers another.                         *)

TrimPrefix(prefix, t) == IF IsPrefix(prefix, t) THEN SubSeq(t, Len(prefix) + 1, Len(t)) ELSE t
Dotted(t) == IsPrefix(<<"*", ".">>, t) \/ IsPrefix(<<".">>, t)

NormalizeHostPattern(p) ==
    IF p.op = "ENDS_WITH" \/ Dotted(p.value)
    THEN [domain |-> TrimPrefix(<<".">>, TrimPrefix(<<"*">>, p.value)), suffix |-> TRUE]
    ELSE [domain |-> p.value, suffix |-> FALSE]

AnyHost(h) == h.domain \in {<< >>, <<"*">>}
HostsEquivalent(p, q) ==
    LET a == NormalizeHostPattern(p) b == NormalizeHostPattern(q)
    IN a = b \/ (AnyHost(a) /\ AnyHost(b))

\* Mutant: the end of a name is taken for its domain.
HostPatternCoversWithoutDot(p, q) ==
    LET a == NormalizeHostPattern(p) b == NormalizeHostPattern(q)
    IN AnyHost(a) \/ (~AnyHost(b) /\ (IF a.suffix THEN IsSuffix(a.domain, b.domain) ELSE a = b))

HostPatternCovers(p, q) ==
    LET a == NormalizeHostPattern(p)
        b == NormalizeHostPattern(q)
        within == \/ b.domain = a.domain
                  \/ IsSuffix(<<".">> \o a.domain, b.domain)
                  \/ ~b.suffix /\ ~Dotted(p.value) /\ IsSuffix(a.domain, b.domain)
    IN AnyHost(a) \/ (~AnyHost(b) /\ (IF a.suffix THEN within ELSE a = b))

\* The first and the last address, or Absent.
ParseIPRange(t) ==
    IF Len(t) = 3 /\ t[2] = "-" /\ {<<t[1]>>, <<t[3]>>} \subseteq DOMAIN AddressOf
    THEN <<AddressOf[<<t[1]>>], AddressOf[<<t[3]>>]>>
    ELSE IF t \in DOMAIN AddressOf THEN <<AddressOf[t], AddressOf[t]>>
    ELSE IF t \in DOMAIN SubnetOf THEN SubnetOf[t] ELSE Absent

PatternCoversPattern(p, q, type) ==
    LET a == ParseIPRange(p.value)
        b == ParseIPRange(q.value)
        ranges == /\ type = "SRC_IP" \/ "RANGE" \in {p.op, q.op}
                  /\ a # Absent /\ b # Absent
        exact(r) == r.op \in {"EQ", "IN"}
    IN \/ p.op = "EXIST" \/ p = q
       \/ type = "HOST" /\ HostPatternCovers(p, q)
       \/ type # "HOST" /\ ranges /\ a[1] <= b[1] /\ b[2] <= a[2]
       \/ /\ type # "HOST" /\ ~ranges
          /\ \/ exact(p) /\ exact(q) /\ p.value = q.value
             \/ p.op = "STARTS_WITH" /\ (q.op = p.op \/ exact(q)) /\ IsPrefix(p.value, q.value)
             \/ p.op = "ENDS_WITH" /\ (q.op = p.op \/ exact(q)) /\ IsSuffix(p.value, q.value)

\* ruleA_Shadows_ruleB, for constraints that differ.
Shadows(cA, cB) ==
    /\ DOMAIN cA \subseteq DOMAIN cB
    /\ \A d \in DOMAIN cA : \A q \in Range(cB[d]) :
           \E p \in Range(cA[d]) : PatternCoversPattern(p, q, d[1])

\* As often the same patterns: they are compared sorted.
ConstraintsEqual(cA, cB) ==
    /\ DOMAIN cA = DOMAIN cB
    /\ \A d \in DOMAIN cA : /\ Len(cA[d]) = Len(cB[d])
                            /\ \A p \in Range(cA[d]) :
                                   Len(SelectSeq(cA[d], LAMBDA q : q = p))
                                       = Len(SelectSeq(cB[d], LAMBDA q : q = p))

HasEquivalentHost(cA, cB) ==
    LET hosts(c) == IF <<"HOST", "">> \in DOMAIN c THEN Range(c[<<"HOST", "">>]) ELSE {}
    IN \/ hosts(cA) = {} /\ hosts(cB) = {}
       \/ \E p \in hosts(cA), q \in hosts(cB) : HostsEquivalent(p, q)

---------------------------------------------------------------------------
(* The diagnosis of a frontend.                                            *)

GetRulePriority(rule) == IF rule.priority = Absent THEN 99999 ELSE rule.priority

Warning(type, high, low) == [type |-> type, high |-> high.name, low |-> low.name]

\* Of two rules, the first before the second in the order of the analysis.
CheckPairConflict(i, j) ==
    LET cI == GetNormalizedRuleConstraints(i)
        cJ == GetNormalizedRuleConstraints(j)
        same == GetRulePriority(i) = GetRulePriority(j)
        compared == ~same \/ HasEquivalentHost(cI, cJ)
    IN IF ConstraintsEqual(cI, cJ) THEN {Warning("Duplicate", i, j)}
       ELSE {w \in {Warning("Shadowing", i, j)} : compared /\ Shadows(cI, cJ)}
            \cup {w \in {Warning("Shadowing", j, i)} : same /\ compared /\ Shadows(cJ, cI)}

\* Mutant: rules of one priority stay in the order of the list.
BeforeByPriority(list, i, j) ==
    \/ GetRulePriority(list[i]) < GetRulePriority(list[j])
    \/ GetRulePriority(list[i]) = GetRulePriority(list[j]) /\ i < j

\* sortMatchedRules: by priority, then by namespace and name.
Before(list, i, j) ==
    \/ GetRulePriority(list[i]) < GetRulePriority(list[j])
    \/ /\ GetRulePriority(list[i]) = GetRulePriority(list[j])
       /\ list[i].ns < list[j].ns \/ (list[i].ns = list[j].ns /\ list[i].name < list[j].name)

AnalyzeRuleConflicts(list) ==
    UNION {UNION {CheckPairConflict(list[i], list[j]) :
                      j \in {k \in DOMAIN list : Before(list, i, k)}} : i \in DOMAIN list}

\* DiagnoseALB2RuleConflict: of a frontend, or of that of the first rule
\* with the name, and then only what is about that name.  A list has a rule
\* only once.
DiagnoseFrontend(list, frontend) ==
    AnalyzeRuleConflicts(SelectSeq(list, LAMBDA r : r.frontend = frontend))

DiagnoseRule(list, name) ==
    LET named == SelectSeq(list, LAMBDA r : r.name = name /\ r.frontend # Absent)
    IN IF named = << >> THEN Absent
       ELSE {w \in DiagnoseFrontend(list, Head(named).frontend) : name \in {w.high, w.low}}

---------------------------------------------------------------------------
(* Backends.                                                               *)

\* The services of a rule or frontend; the namespace may be left to it.
Backends(object) == {[name |-> s.name, ns |-> IF s.ns = Absent THEN object.ns ELSE s.ns] :
                        s \in object.services}

\* ListALB2RoutingRules: the rules of a load balancer and frontend, by priority.
ListALB2RoutingRules(list, alb, frontend) ==
    LET matched == SelectSeq(list, LAMBDA r : r.alb = alb /\ frontend \in {Absent, r.frontend})
        sorted == SortSeq(matched, LAMBDA r, q : GetRulePriority(r) < GetRulePriority(q))
    IN [i \in DOMAIN sorted |-> [rule |-> sorted[i].name, ns |-> sorted[i].ns,
                                 priority |-> GetRulePriority(sorted[i]),
                                 backends |-> Backends(sorted[i])]]

\* Mutant: what leaves the namespace out is taken to mean any.
LeadsToUnqualified(object, name, ns) ==
    \E s \in object.services : s.name = name /\ (ns = Absent \/ s.ns = ns)
LeadsTo(object, name, ns) ==
    \E s \in Backends(object) : s.name = name /\ ns \in {Absent, s.ns}

\* FindALB2ResourcesByService: rules, with the port of the first frontend
\* of the name they give, and frontends that lead to the service directly.
FindALB2ResourcesByService(list, frontends, name, ns) ==
    LET port(frontend) == LET named == SelectSeq(frontends, LAMBDA f : f.name = frontend)
                          IN IF frontend = Absent \/ named = << >> THEN 0 ELSE Head(named).port
    IN {[proxy |-> "L7", rule |-> r.name, ns |-> r.ns, alb |-> r.alb, port |-> port(r.frontend)] :
            r \in {q \in Range(list) : LeadsTo(q, name, ns)}}
       \cup {[proxy |-> "L4", rule |-> f.name, ns |-> f.ns, alb |-> f.alb, port |-> f.port] :
            f \in {g \in Range(frontends) : LeadsTo(g, name, ns)}}
===========================================================================
