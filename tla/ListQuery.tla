------------------------------ MODULE ListQuery ------------------------------
(***************************************************************************)
(* Which objects a chain of calls such as                                  *)
(*     Resource(&pod).Namespace("a", "b").Where(...).WithCache(t).List(&l) *)
(* returns.  The calls (kom/sql.go, kom/sql_builder.go) fill in the        *)
(* statement that callbacks/list.go turns into one request to the API      *)
(* server, one cache key and one filter over the items that come back.     *)
(*                                                                         *)
(* The content of the cluster does not change here: what a cached list is  *)
(* late by is the subject of QueryCache.  Here it is which list it is.     *)
(***************************************************************************)
EXTENDS Naturals, Sequences, Functions

CONSTANTS
    Namespaces,  \* the namespaces of the cluster
    Default,     \* the one named "default"
    Preds,       \* conditions on other fields a query may have
    Unset,       \* "", no namespace given
    Star,        \* "*"
    NoList,        \* no cached list, no answer yet
    MaxCalls,    \* bound: calls on a statement before its lists
    MaxChains    \* bound: statements begun

ASSUME DefaultAssumption == Default \in Namespaces

\* "" and "*" name no namespace, and a condition is on another field.
ASSUME NamesAssumption ==
    /\ Unset \notin Namespaces /\ Star \notin Namespaces /\ Unset # Star
    /\ Namespaces \cap Preds = {}

ASSUME MaxChainsAssumption == MaxChains \in Nat \ {0}

VARIABLES
    tx,      \* the *Kubectl the next call of the chain is made on
    cache,   \* per key: the namespaces of the list that is cached
    asks,    \* history: the calls made on this statement
    answer,  \* history: what List has just returned, and to which calls
    mixed,   \* history: a statement was cached after several namespace calls
    chains   \* history: statements begun

listVars == <<tx, cache, asks, answer, mixed, chains>>

\* An object has a namespace and meets some of the conditions.
Objects == [ns : Namespaces, meets : SUBSET Preds]

\* A condition that compares one field: with a namespace, or another one.
Atoms == Namespaces \cup Preds

Meets(obj, atom) == atom = obj.ns \/ atom \in obj.meets

\* kom.DefaultCluster(): a call on it starts a new statement (clone > 0).
Root == [root |-> TRUE, ns |-> Unset, all |-> FALSE, list |-> << >>,
         sql |-> {}, conditions |-> {}, cached |-> FALSE]

ListInit ==
    /\ tx = Root
    /\ cache = [key \in Namespaces \cup {Unset} |-> NoList]
    /\ asks = << >>
    /\ answer = NoList
    /\ mixed = FALSE
    /\ chains = 1

-----------------------------------------------------------------------------
(* The statement *)

\* parseWhereExpr.  A clause is "x or y ..." in parentheses; what is left of
\* it are comparisons marked OR, or AND for one without an or.
Parse(clauses) ==
    UNION {{[op |-> IF Len(clause) > 1 THEN "OR" ELSE "AND", atom |-> clause[m]] :
               m \in DOMAIN clause} : clause \in clauses}

\* A slip: Where parses only its own clause.
ReplaceWhere(stmt, clause) ==
    [stmt EXCEPT !.sql = {clause}, !.conditions = Parse({clause})]

\* Where adds a clause to the query text and parses the whole text anew.
AddWhere(stmt, clause) ==
    LET sql == stmt.sql \cup {clause}
    IN [stmt EXCEPT !.sql = sql, !.conditions = Parse(sql)]

\* A slip: "*" is taken for a name like any other.
NamespaceAsGiven(stmt, name) == [stmt EXCEPT !.all = FALSE, !.ns = name]

\* Namespace with one name.
OneNamespace(stmt, name) ==
    CASE name = Star -> [stmt EXCEPT !.all = TRUE, !.ns = Unset]
      [] name = Unset -> [stmt EXCEPT !.all = FALSE, !.ns = Default]
      [] OTHER -> [stmt EXCEPT !.all = FALSE, !.ns = name]

\* Namespace with several: up to a "*" they are added to those of earlier
\* calls, and the sum becomes a clause.  Where is called on the receiver, so
\* on the root the clause goes to yet another statement, and is lost.
ManyNamespaces(stmt, names) ==
    LET named == IF Star \in Range(names)
                 THEN [stmt EXCEPT !.all = TRUE, !.list = << >>]
                 ELSE [stmt EXCEPT !.list = @ \o names]
    IN  IF named.list = << >> \/ stmt.root
        THEN named ELSE AddWhere(named, named.list)

Namespace(stmt, names) ==
    IF Len(names) = 1 THEN OneNamespace(stmt, names[1])
    ELSE ManyNamespaces(stmt, names)

\* Sql: all namespaces, and conditions that are not kept as query text.
Sql(stmt, clause) ==
    [stmt EXCEPT !.all = TRUE, !.conditions = Parse({clause})]

\* Whatever the call, what it returns is no root.
getInstance(stmt) == [stmt EXCEPT !.root = FALSE]

Apply(stmt, call) ==
    getInstance(CASE call.op = "namespace" -> Namespace(stmt, call.arg)
                  [] call.op = "all" -> [stmt EXCEPT !.all = TRUE]
                  [] call.op = "where" -> AddWhere(stmt, call.arg)
                  [] call.op = "sql" -> Sql(stmt, call.arg)
                  [] call.op = "cache" -> [stmt EXCEPT !.cached = TRUE]
                  [] call.op = "option" -> stmt)

-----------------------------------------------------------------------------
(* List *)

\* The calls of a chain that say which namespaces are meant.
ScopeCalls(calls) ==
    {n \in DOMAIN calls : calls[n].op \in {"namespace", "all", "sql"}}

AtMostOne(set) == \A m, n \in set : m = n

\* The namespaces the request to the API server is about.
Scope(stmt) ==
    IF stmt.all \/ Len(stmt.list) > 1 THEN Namespaces
    ELSE {IF stmt.ns = Unset THEN Default ELSE stmt.ns}

\* A slip: a key without the namespace.
KeyOfResource(stmt) == Unset

\* The part of the cache key that differs between lists of one resource.
Key(stmt) == stmt.ns

\* executeFilter: all of the ANDs, and any of the ORs.
Filter(objects, conditions) ==
    LET marked(op) == {c.atom : c \in {d \in conditions : d.op = op}}
    IN {obj \in objects :
           /\ \A atom \in marked("AND") : Meets(obj, atom)
           /\ marked("OR") # {} => \E atom \in marked("OR") : Meets(obj, atom)}

List ==
    LET hit == tx.cached /\ cache[Key(tx)] # NoList
        held == IF hit THEN cache[Key(tx)] ELSE Scope(tx)
    IN /\ cache' = IF tx.cached THEN [cache EXCEPT ![Key(tx)] = held] ELSE cache
       /\ answer' = [to |-> asks, stmt |-> tx,
                     objects |-> Filter({o \in Objects : o.ns \in held},
                                        tx.conditions)]
       /\ mixed' = (mixed \/ (tx.cached /\ ~AtMostOne(ScopeCalls(asks))))
       /\ tx' = getInstance(tx)
       /\ UNCHANGED <<asks, chains>>

Call(call) ==
    /\ Len(asks) < MaxCalls
    /\ tx' = Apply(tx, call)
    /\ asks' = Append(asks, call)
    /\ answer' = NoList
    /\ UNCHANGED <<cache, mixed, chains>>

\* The next chain starts from kom.DefaultCluster() again.
BeginChain ==
    /\ chains < MaxChains
    /\ chains' = chains + 1
    /\ tx' = Root
    /\ asks' = << >>
    /\ answer' = NoList
    /\ UNCHANGED <<cache, mixed>>

\* A cached list expires, or ristretto lets it go.
Expire(key) ==
    /\ cache[key] # NoList
    /\ cache' = [cache EXCEPT ![key] = NoList]
    /\ answer' = NoList
    /\ UNCHANGED <<tx, asks, mixed, chains>>

\* Two names, or one, or a name and "*".
NameLists ==
    {<<n>> : n \in Namespaces \cup {Unset, Star}}
    \cup {nm \in Namespaces \X (Namespaces \cup {Star}) : nm[1] # nm[2]}

\* One condition, or two with an or.
Clauses == {<<p>> : p \in Preds} \cup {pq \in Preds \X Preds : pq[1] # pq[2]}

ChainCalls ==
    [op : {"namespace"}, arg : NameLists]
    \cup [op : {"where", "sql"}, arg : Clauses]
    \cup [op : {"all", "cache", "option"}, arg : {<< >>}]

ListNext ==
    \/ List
    \/ BeginChain
    \/ \E call \in ChainCalls : Call(call)
    \/ \E key \in DOMAIN cache : Expire(key)

ListSpec == ListInit /\ [][ListNext]_listVars

-----------------------------------------------------------------------------
(* Properties *)

Statement ==
    [root : BOOLEAN, ns : Namespaces \cup {Unset}, all : BOOLEAN,
     list : Seq(Namespaces), sql : SUBSET Seq(Atoms),
     conditions : SUBSET [op : {"AND", "OR"}, atom : Atoms], cached : BOOLEAN]

\* Type invariant: the statement, and what is cached under each key.
ListTypeOK ==
    /\ tx \in Statement
    /\ cache \in [Namespaces \cup {Unset} ->
                    {NoList, Namespaces} \cup {{n} : n \in Namespaces}]
    /\ asks \in Seq(ChainCalls)
    /\ answer # NoList => answer.objects \subseteq Objects
    /\ mixed \in BOOLEAN
    /\ chains \in 1 .. MaxChains

\* The conditions of a chain, outside its namespaces.
ClausesOf(calls) ==
    {calls[n].arg : n \in {m \in DOMAIN calls : calls[m].op \in {"where", "sql"}}}

\* The namespaces one such call means.
Meant(call) ==
    IF call.op # "namespace" \/ Star \in Range(call.arg) THEN Namespaces
    ELSE IF call.arg = <<Unset>> THEN {Default}
    ELSE Range(call.arg)

\* The objects that the calls ask for, when at most one is about namespaces.
AskedFor(calls) ==
    LET scope == UNION {Meant(calls[n]) : n \in ScopeCalls(calls)}
    IN {obj \in Objects :
           /\ obj.ns \in (IF scope = {} THEN {Default} ELSE scope)
           /\ \A clause \in ClausesOf(calls) :
                  \E m \in DOMAIN clause : Meets(obj, clause[m])}

\* The calls that name several namespaces.
Several(calls) ==
    {n \in DOMAIN calls :
        calls[n].op = "namespace" /\ Len(calls[n].arg) > 1
            /\ Star \notin Range(calls[n].arg)}

Disjunctions(calls) ==
    {n \in DOMAIN calls : calls[n].op \in {"where", "sql"} /\ Len(calls[n].arg) > 1}

\* At most one call about namespaces; if it names several, it is not the
\* first of the chain.  At most one disjunction, that of several namespaces
\* included.  No Where beside Sql: each forgets the conditions of the other.
Simple(calls) ==
    /\ AtMostOne(ScopeCalls(calls))
    /\ 1 \notin Several(calls)
    /\ AtMostOne(Several(calls) \cup Disjunctions(calls))
    /\ ~({"where", "sql"} \subseteq {calls[n].op : n \in DOMAIN calls})

\* A simple chain that is not cached returns what it asks for, the way it is
\* written not mattering: options in between, conditions before or after the
\* namespaces, one Where or several.
SimpleIsExact ==
    answer # NoList /\ ~answer.stmt.cached /\ Simple(answer.to)
        => answer.objects = AskedFor(answer.to)

\* So does a simple cached chain that names one namespace, after whatever
\* lists of other chains, cached or not, unless one of them named namespaces
\* more than once.
NamedNamespaceIsExact ==
    answer # NoList /\ Simple(answer.to) /\ ~mixed
        /\ (\E n \in DOMAIN answer.to :
               answer.to[n].op = "namespace" /\ answer.to[n].arg[1] \in Namespaces
                   /\ Len(answer.to[n].arg) = 1)
        => answer.objects = AskedFor(answer.to)

\* What holds after every call of every chain.
ListInv ==
    /\ ListTypeOK
    /\ SimpleIsExact
    /\ NamedNamespaceIsExact
=============================================================================
