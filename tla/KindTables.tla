---------------------------- MODULE KindTables ----------------------------
(***************************************************************************)
(* Looking up kinds: kom/tools.go and the CRD queries of kom/status.go.    *)
(* A cluster keeps two tables: apiResources, a sequence with what discovery*)
(* has found, and the list of CRDs.  Looking up is reading them from the   *)
(* front to the first that fits.                                           *)
(***************************************************************************)
EXTENDS Sequences, SequencesExt

CONSTANT NotFound

\* The first of a sequence that passes, or NotFound.
First(seq, Test(_)) ==
    IF \A i \in DOMAIN seq : ~Test(seq[i]) THEN NotFound
    ELSE seq[CHOOSE i \in DOMAIN seq : Test(seq[i]) /\ \A j \in 1..i - 1 : ~Test(seq[j])]

\* The group, version and kind of a resource; its group, version and plural.
GVK(r) == [group |-> r.group, version |-> r.version, kind |-> r.kind]
GVR(r) == [group |-> r.group, version |-> r.version, resource |-> r.plural,
           namespaced |-> r.namespaced]
Answered(r, What(_)) == IF r = NotFound THEN NotFound ELSE What(r)

\* Mutant of GetGVRByGVK: the group is not compared.
GetGVRByGVKOfAnyGroup(apis, gvk) ==
    Answered(First(apis, LAMBDA r : r.kind = gvk.kind /\ r.version = gvk.version), GVR)

GetGVRByGVK(apis, gvk) == Answered(First(apis, LAMBDA r : GVK(r) = gvk), GVR)
GetGVRByKind(apis, kind) == Answered(First(apis, LAMBDA r : r.kind = kind), GVR)
IsBuiltinResource(apis, kind) == \E r \in Range(apis) : r.kind = kind
IsBuiltinResourceByGVK(apis, gvk) == \E r \in Range(apis) : GVK(r) = gvk

GetCRD(crds, kind, group) == First(crds, LAMBDA c : c.kind = kind /\ c.group = group)

\* Of the versions of a CRD, the first, served or not.
GetGVRFromCRD(crd) ==
    [group |-> crd.group, version |-> crd.versions[1], resource |-> crd.plural,
     namespaced |-> crd.namespaced]

\* GetGVK: the first of the kinds, or the first of a version.
GetGVK(gvks, version) ==
    First(gvks, LAMBDA g : version \in {NotFound, g.version})

\* Mutant of ParseGVK2GVR: discovery's table is not looked at.
ParseGVK2GVROfCRD(apis, crds, gvks, version) ==
    LET gvk == GetGVK(gvks, version)
    IN IF gvk = NotFound THEN NotFound
       ELSE Answered(GetCRD(crds, gvk.kind, gvk.group), GetGVRFromCRD)

\* ParseGVK2GVR: a kind that discovery has found, under whatever group, is
\* the first of that kind; only another one is looked for among the CRDs.
ParseGVK2GVR(apis, crds, gvks, version) ==
    LET gvk == GetGVK(gvks, version)
    IN CASE gvk = NotFound -> NotFound
         [] gvk # NotFound /\ IsBuiltinResource(apis, gvk.kind) ->
                GetGVRByKind(apis, gvk.kind)
         [] OTHER -> Answered(GetCRD(crds, gvk.kind, gvk.group), GetGVRFromCRD)

\* What a table may be called in a query.
TableNames(r) == {r.plural, r.kind, r.singular} \cup r.short

\* Mutant of FindGVKByTableNameInApiResources: plurals only.
FindGVKByPlural(apis, table) == Answered(First(apis, LAMBDA r : table = r.plural), GVK)

FindGVKByTableNameInApiResources(apis, table) ==
    Answered(First(apis, LAMBDA r : table \in TableNames(r)), GVK)

FindGVKByTableNameInCRDList(crds, table) ==
    Answered(First(crds, LAMBDA c : table \in TableNames(c) /\ c.versions # << >>),
             LAMBDA c : [group |-> c.group, version |-> c.versions[1], kind |-> c.kind])

\* From and Sql look in the first table only, though the error they answer
\* says that a table is in neither.
From(apis, table) == FindGVKByTableNameInApiResources(apis, table)

\* The names offered for From: kinds in lower case, which From does not know
\* unless they happen to be the singular, and short names.
ListAvailableTableNames(apis) ==
    UNION {{r.lower} \cup r.short : r \in Range(apis)}
=============================================================================
