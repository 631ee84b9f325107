--------------------------- MODULE WorkloadsProof ---------------------------
(***************************************************************************)
(* The safety of Workloads and that it implements ReplicaMemory, for any   *)
(* clients, workloads, images, manifests and bounds; and, at the end, the  *)
(* safety of NodeOps, for any goroutines, pods and taints.                 *)
(*                                                                         *)
(* What a call writes depends on what it has read, one or two requests     *)
(* earlier.  So the invariant says, of each call, what its reading still   *)
(* has to do with the object (ReadsHold): the same version means the same  *)
(* object, for the API server moves the version with every change.         *)
(***************************************************************************)
EXTENDS Workloads, NodeOps, FiniteSetTheorems, TLAPS

\* The numbers of the revisions R, of which n is the newest: they are never
\* used twice, and the newest but one is that before it.
Numbering(R, n) ==
    /\ IsFiniteSet(R) /\ n \in Nat
    /\ \A r \in R : r.rev \in 1 .. n
    /\ R = {} \/ \E r \in R : r.rev = n
    /\ R = {} => n = 0
    /\ \A r, q \in R : r.rev = q.rev => r = q
    /\ (\E r \in R : r.rev < n) => \E r \in R : r.rev = n - 1

Numbered == \A w \in Workload : Numbering(revs[w], Newest(revs[w]))

\* The replicas of an object are among those it has had.
RanIsCurrent == \A w \in Workload : obj[w].there => obj[w].replicas \in ran[w]

\* o is the object as d read it, but for the template.
SameButTemplate(o, d) ==
    /\ o.replicas = d.replicas /\ o.note = d.note /\ o.extra = d.extra
    /\ o.paused = d.paused /\ o.rev = d.rev

\* What a call has read is what there is while the version is the same.
ReadsHold ==
    \A c \in Client :
        LET k == call[c]
            o == obj[k.w]
        IN
        /\ k.at \notin {"idle", "create"} => k.obj.there /\ k.obj.version <= o.version
        /\ k.at \in {"applyWrite", "create"} => k.obj.there /\ k.obj.note = NoNote
        /\ k.at = "stop" => k.obj.replicas # 0 /\ k.obj.replicas \in ran[k.w]
        /\ k.at \in {"tag", "undo", "undoWrite"} /\ k.obj.version = o.version =>
              o.there /\ SameButTemplate(k.obj, o)

\* A call on a workload of its own finds what it has read.
ReadsAreOwn ==
    \A c \in Client :
        LET k == call[c] IN
        k.at \in {"stop", "restore"} /\ k.w \in exclusive =>
            obj[k.w].replicas = k.obj.replicas /\ obj[k.w].note = k.obj.note

OneCaller ==
    \A c, d \in Client :
        /\ call[c].at # "idle" /\ call[d].at # "idle"
        /\ call[c].w = call[d].w /\ call[c].w \in exclusive
        => c = d

\* The revisions of a workload at rest stay what they are while the object is
\* what it was.
UndoAims ==
    \A c \in Client :
        LET k == call[c]
            w == k.w
        IN
        /\ k.at \in {"undo", "undoWrite"} /\ k.back # NoRevision
        /\ k.obj.version = obj[w].version
        =>
        /\ kind[w] \in UndoKinds /\ RolledOut(w)
        /\ kind[w] = "Deployment" => obj[w].rev = Newest(revs[w])
        /\ \E r \in revs[w] : r.rev < Newest(revs[w])
        /\ k.at = "undo" => k.to = IF kind[w] = "Deployment" THEN Newest(revs[w]) - 1 ELSE 0
        /\ k.at = "undoWrite" =>
              \E r \in revs[w] :
                  r.rev = Newest(revs[w]) - 1 /\ k.obj.template.spec = r.template.spec

IInv ==
    /\ TypeOK
    /\ Numbered
    /\ RanIsCurrent
    /\ RememberedIsReal
    /\ ReadsHold
    /\ ReadsAreOwn
    /\ OneCaller
    /\ UndoAims

-----------------------------------------------------------------------------
(* Objects and calls *)

Operations == {"none", "scale", "stop", "restore", "replace", "other"}

LEMMA NoObjectType ==
    /\ NoRevision \in Revision /\ NoObject \in Object
    /\ ~NoObject.there /\ NoObject.version = 0 /\ NoObject.replicas = 0 /\ NoObject.note = NoNote
    /\ Idle \in Call /\ Idle.at = "idle" /\ Idle.back = NoRevision
<1>1. (CHOOSE i \in Image : TRUE) \in Image /\ (CHOOSE w \in Workload : TRUE) \in Workload
  BY BoundsAssumption
<1>2. NoRevision \in Revision
  BY <1>1 DEF NoRevision, Revision, Template, PodSpec
<1>3. NoRevision.template \in Template
  BY <1>2 DEF Revision
<1>4. NoObject \in Object
  BY <1>3 DEF NoObject, Object
<1>5. Idle \in Call /\ Idle.at = "idle" /\ Idle.back = NoRevision
  BY <1>1, <1>2, <1>4 DEF Idle, Call, Steps
<1> QED
  BY <1>2, <1>4, <1>5 DEF NoObject

\* One field of an object that changes leaves the others alone.
LEMMA VersionSet ==
    ASSUME NEW o \in Object, NEW n \in Nat
    PROVE  /\ [o EXCEPT !.version = n] \in Object
           /\ [o EXCEPT !.version = n].version = n
           /\ [o EXCEPT !.version = n].there = o.there
           /\ [o EXCEPT !.version = n].template = o.template
           /\ SameButTemplate([o EXCEPT !.version = n], o)
BY DEF Object, SameButTemplate

LEMMA ReplicasSet ==
    ASSUME NEW o \in Object, NEW n \in Nat
    PROVE  /\ [o EXCEPT !.replicas = n] \in Object
           /\ [o EXCEPT !.replicas = n].there = o.there
           /\ [o EXCEPT !.replicas = n].replicas = n
           /\ [o EXCEPT !.replicas = n].note = o.note
BY DEF Object

LEMMA StampSet ==
    ASSUME NEW o \in Object, NEW b \in BOOLEAN
    PROVE  /\ [o EXCEPT !.template.stamp = @ + 1] \in Object
           /\ [o EXCEPT !.template.stamp = @ + 1].there = o.there
           /\ SameButTemplate([o EXCEPT !.template.stamp = @ + 1], o)
           /\ [o EXCEPT !.template.spec.pinned = b] \in Object
           /\ [o EXCEPT !.template.spec.pinned = b].there = o.there
           /\ SameButTemplate([o EXCEPT !.template.spec.pinned = b], o)
BY DEF Object, Template, PodSpec, SameButTemplate

LEMMA SpecSet ==
    ASSUME NEW o \in Object, NEW s \in PodSpec
    PROVE  /\ [o EXCEPT !.template.spec = s] \in Object
           /\ [o EXCEPT !.template.spec = s].there = o.there
           /\ [o EXCEPT !.template.spec = s].version = o.version
           /\ [o EXCEPT !.template.spec = s].template.spec = s
           /\ SameButTemplate([o EXCEPT !.template.spec = s], o)
BY DEF Object, Template, PodSpec, SameButTemplate

LEMMA ImageSet ==
    ASSUME NEW o \in Object, NEW i \in Image
    PROVE  /\ [o EXCEPT !.template.spec.image = i] \in Object
           /\ [o EXCEPT !.template.spec.image = i].there = o.there
           /\ [o EXCEPT !.template.spec.image = i].version = o.version
           /\ SameButTemplate([o EXCEPT !.template.spec.image = i], o)
BY DEF Object, Template, PodSpec, SameButTemplate

LEMMA FlagSet ==
    ASSUME NEW o \in Object, NEW b \in BOOLEAN, NEW n \in Nat
    PROVE  /\ [o EXCEPT !.paused = b] \in Object
           /\ [o EXCEPT !.paused = b].there = o.there
           /\ [o EXCEPT !.paused = b].replicas = o.replicas
           /\ [o EXCEPT !.paused = b].note = o.note
           /\ [o EXCEPT !.extra = b] \in Object
           /\ [o EXCEPT !.extra = b].there = o.there
           /\ [o EXCEPT !.extra = b].replicas = o.replicas
           /\ [o EXCEPT !.extra = b].note = o.note
           /\ [o EXCEPT !.rev = n] \in Object
           /\ [o EXCEPT !.rev = n].there = o.there
           /\ [o EXCEPT !.rev = n].replicas = o.replicas
           /\ [o EXCEPT !.rev = n].note = o.note
BY DEF Object

LEMMA ManifestType ==
    ASSUME NEW m \in Manifest, NEW v \in Nat
    PROVE  /\ FromManifest(m, v) \in Object /\ FromManifest(m, v).there
           /\ FromManifest(m, v).version = v /\ FromManifest(m, v).note = NoNote
<1>1. m.replicas \in Nat /\ m.image \in Image
  BY BoundsAssumption
<1>2. NoObject \in Object /\ NoObject.note = NoNote
  BY NoObjectType
<1> QED
  BY <1>1, <1>2 DEF FromManifest, Object, Template, PodSpec

LEMMA StoreStep ==
    ASSUME TypeOK, NEW w \in Workload, NEW o \in Object, NEW op \in Operations, Store(w, o, op)
    PROVE  /\ obj' \in [Workload -> Object] /\ ran' \in [Workload -> SUBSET Nat]
           /\ last' \in [Workload -> Operations]
           /\ \A v \in Workload : v # w => obj'[v] = obj[v] /\ ran'[v] = ran[v] /\ last'[v] = last[v]
           /\ obj'[w].there = o.there /\ obj'[w].template = o.template
           /\ SameButTemplate(obj'[w], o)
           /\ obj'[w].version \in {obj[w].version, obj[w].version + 1}
           /\ obj'[w].version = obj[w].version => obj'[w] = obj[w]
           /\ ran'[w] = ran[w] \cup {o.replicas}
           /\ last'[w] = IF w \in exclusive THEN op ELSE last[w]
<1>a. obj[w] \in Object /\ obj[w].version \in Nat /\ o.replicas \in Nat
  BY DEF TypeOK, Object
<1> DEFINE same == [o EXCEPT !.version = obj[w].version]
           next == [o EXCEPT !.version = obj[w].version + 1]
<1>1. same.there = o.there /\ same.template = o.template /\ SameButTemplate(same, o)
  BY <1>a, VersionSet
<1>2. /\ next \in Object /\ next.version = obj[w].version + 1 /\ next.version # obj[w].version
      /\ next.there = o.there /\ next.template = o.template /\ SameButTemplate(next, o)
  <2>1. obj[w].version + 1 \in Nat /\ obj[w].version + 1 # obj[w].version
    BY <1>a
  <2> QED
    BY <2>1, VersionSet
<1>3. obj' = [obj EXCEPT ![w] = IF same = obj[w] THEN @ ELSE next]
  BY DEF Store
<1> HIDE DEF same, next
<1>4. /\ obj' \in [Workload -> Object] /\ \A v \in Workload : v # w => obj'[v] = obj[v]
      /\ obj'[w] = IF same = obj[w] THEN obj[w] ELSE next
  BY <1>2, <1>3 DEF TypeOK
<1>5. /\ obj'[w].there = o.there /\ obj'[w].template = o.template
      /\ SameButTemplate(obj'[w], o)
      /\ obj'[w].version \in {obj[w].version, obj[w].version + 1}
      /\ obj'[w].version = obj[w].version => obj'[w] = obj[w]
  <2>1. CASE same = obj[w]
    BY <1>1, <1>4, <2>1
  <2>2. CASE same # obj[w]
    BY <1>2, <1>4, <2>2
  <2> QED
    BY <2>1, <2>2
<1>6. /\ ran' \in [Workload -> SUBSET Nat] /\ ran'[w] = ran[w] \cup {o.replicas}
      /\ \A v \in Workload : v # w => ran'[v] = ran[v]
  BY <1>a DEF Store, TypeOK
<1>7. /\ last' \in [Workload -> Operations] /\ last'[w] = IF w \in exclusive THEN op ELSE last[w]
      /\ \A v \in Workload : v # w => last'[v] = last[v]
  BY DEF Store, Note, TypeOK, Operations
<1> QED
  BY <1>4, <1>5, <1>6, <1>7

LEMMA CallSet ==
    ASSUME TypeOK, NEW c \in Client, NEW k \in Call, call' = [call EXCEPT ![c] = k]
    PROVE  /\ call' \in [Client -> Call] /\ call'[c] = k
           /\ \A d \in Client : d # c => call'[d] = call[d]
BY DEF TypeOK

-----------------------------------------------------------------------------
(* What a step may be.  The actions are of a few forms, which say as much   *)
(* as the invariant needs.                                                  *)

\* A change that no reading comes before.
Patched(w, o, op) ==
    /\ obj[w].there /\ o.there /\ o.note = obj[w].note
    /\ \/ op = "scale" /\ (w \in exclusive => \A d \in Client : call[d].at = "idle" \/ call[d].w # w)
       \/ op = "other" /\ o.replicas = obj[w].replicas
    /\ Store(w, o, op)
    /\ UNCHANGED <<kind, exclusive, revs, status, call>>

\* The reading that a call begins with, and what it leaves.
Begun(c, k) ==
    /\ call[c].at = "idle" /\ OthersAreOff(c, k.w)
    /\ call' = [call EXCEPT ![c] = k]
    /\ \/ k.at \in {"stop", "restore", "tag", "undo", "applyWrite"}
          /\ obj[k.w].there /\ k.obj.version = obj[k.w].version
       \/ k.at = "create"
    /\ k.obj.there
    /\ k.at \in {"stop", "restore", "tag", "undo"} => SameButTemplate(k.obj, obj[k.w])
    /\ k.at \in {"applyWrite", "create"} => k.obj.note = NoNote
    /\ k.at = "stop" => k.obj.replicas # 0
    /\ k.at = "undo" /\ k.back # NoRevision =>
          /\ kind[k.w] \in UndoKinds /\ Settled(k.w) /\ k.back = Previous(k.w)
          /\ k.to = IF kind[k.w] = "Deployment" THEN obj[k.w].rev - 1 ELSE 0
    /\ UNCHANGED <<kind, exclusive, obj, revs, status, history>>

\* The write that a call ends with.
Written(c, o, op) ==
    LET k == call[c] IN
    /\ o.there
    /\ \/ k.at = "stop" /\ op = "stop" /\ o.replicas = 0 /\ o.note = k.obj.replicas
          /\ obj[k.w].there
       \/ k.at = "restore" /\ op = "restore" /\ o.note = NoNote /\ obj[k.w].there
          /\ o.replicas = IF k.obj.note = NoNote THEN 1 ELSE k.obj.note
       \/ k.at \in {"tag", "undoWrite"} /\ op = "other" /\ o = k.obj /\ obj[k.w].there
          /\ obj[k.w].version = k.obj.version
       \/ k.at = "applyWrite" /\ op = "replace" /\ o = k.obj /\ obj[k.w].there
          /\ obj[k.w].version = k.obj.version
       \/ k.at = "create" /\ op = "replace" /\ o = k.obj /\ ~obj[k.w].there
    /\ Store(k.w, o, op)
    /\ Return(c)
    /\ UNCHANGED <<kind, exclusive, revs, status>>

\* Undo has found the revision it goes back to.
Found(c) ==
    LET k == call[c]
        version == IF kind[k.w] = "Deployment" THEN k.to ELSE VersionBefore(k.w, k.to)
    IN
    /\ At(c, "undo") /\ kind[k.w] \in UndoKinds
    /\ UndoTo(c, version)

LEMMA PatchCases ==
    ASSUME TypeOK, NEW c \in Client, NEW w \in Workload,
           \/ \E n \in 0 .. MaxReplicas : Scale(c, w, n)
           \/ Restart(c, w)
           \/ \E b \in BOOLEAN : Pause(c, w, b) \/ Suspend(c, w, b) \/ Annotate(c, w, b)
           \/ StopDaemonSet(c, w) \/ RestoreDaemonSet(c, w)
    PROVE  \E o \in Object, op \in {"scale", "other"} : Patched(w, o, op)
<1>a. obj[w] \in Object
  BY DEF TypeOK
<1>1. ASSUME NEW n \in 0 .. MaxReplicas, Scale(c, w, n)
      PROVE  \E o \in Object, op \in {"scale", "other"} : Patched(w, o, op)
  <2> DEFINE o == [obj[w] EXCEPT !.replicas = n]
  <2>1. n \in Nat
    BY BoundsAssumption
  <2>2. o \in Object /\ o.there = obj[w].there /\ o.note = obj[w].note
    BY <1>a, <2>1, ReplicasSet
  <2> HIDE DEF o
  <2>3. Patch(c, w, o, "scale")
    BY <1>1 DEF Scale, o
  <2>4. Patched(w, o, "scale")
    BY <2>2, <2>3 DEF Patch, Patched, MayStart, OthersAreOff
  <2> QED
    BY <2>2, <2>4
<1>2. ASSUME NEW o \in Object, o.there = obj[w].there, SameButTemplate(o, obj[w]) \/
             (o.replicas = obj[w].replicas /\ o.note = obj[w].note), Patch(c, w, o, "other")
      PROVE  \E q \in Object, op \in {"scale", "other"} : Patched(w, q, op)
  <2>1. Patched(w, o, "other")
    BY <1>2 DEF Patch, Patched, SameButTemplate
  <2> QED
    BY <2>1
<1>3. ASSUME NEW b \in BOOLEAN, Pause(c, w, b) \/ Suspend(c, w, b) \/ Annotate(c, w, b)
      PROVE  \E o \in Object, op \in {"scale", "other"} : Patched(w, o, op)
  BY <1>a, <1>2, <1>3, FlagSet DEF Pause, Suspend, Annotate
<1>4. CASE Restart(c, w)
  <2> DEFINE o == [obj[w] EXCEPT !.template.stamp = @ + 1]
  <2>1. o \in Object /\ o.there = obj[w].there /\ SameButTemplate(o, obj[w])
    BY <1>a, StampSet
  <2> QED
    BY <2>1, <1>2, <1>4 DEF Restart
<1>5. CASE StopDaemonSet(c, w) \/ RestoreDaemonSet(c, w)
  <2>1. PICK b \in BOOLEAN : Patch(c, w, [obj[w] EXCEPT !.template.spec.pinned = b], "other")
    BY <1>5 DEF StopDaemonSet, RestoreDaemonSet
  <2> DEFINE o == [obj[w] EXCEPT !.template.spec.pinned = b]
  <2>2. o \in Object /\ o.there = obj[w].there /\ SameButTemplate(o, obj[w])
    BY <1>a, StampSet
  <2> QED
    BY <2>1, <2>2, <1>2
<1> QED
  BY <1>1, <1>3, <1>4, <1>5

-----------------------------------------------------------------------------
(* Revisions *)

LEMMA NewestIs ==
    ASSUME NEW R, R \subseteq Revision, NEW n \in Nat, \A r \in R : r.rev <= n,
           n = 0 \/ \E r \in R : r.rev = n
    PROVE  Newest(R) = n
<1> DEFINE N == {r.rev : r \in R} \cup {0}
<1>1. n \in N /\ N \subseteq Nat /\ \A r \in R : r.rev <= n
  BY DEF Revision
<1>2. ASSUME NEW m \in N, \A r \in R : r.rev <= m PROVE m = n
  <2>1. m \in Nat /\ m <= n
    BY <1>1, <1>2
  <2>2. n <= m
    BY <1>2, <2>1
  <2> QED
    BY <2>1, <2>2
<1> QED
  BY <1>1, <1>2 DEF Newest

\* The revision before the newest one.
LEMMA PreviousIs ==
    ASSUME TypeOK, Numbered, NEW w \in Workload
    PROVE  /\ Previous(w) \in Revision
           /\ (\E r \in revs[w] : r.rev < Newest(revs[w])) =>
                 Previous(w) \in revs[w] /\ Previous(w).rev = Newest(revs[w]) - 1
           /\ Previous(w) # NoRevision => \E r \in revs[w] : r.rev < Newest(revs[w])
<1> DEFINE n == Newest(revs[w])
           older == {r \in revs[w] : r.rev < n}
<1>1. revs[w] \subseteq Revision /\ Numbering(revs[w], n)
  BY DEF TypeOK, Numbered
<1> HIDE DEF n
<1>2. CASE older = {}
  BY <1>2, NoObjectType DEF Previous, n
<1>3. CASE older # {}
  <2>1. PICK r \in revs[w] : r.rev = n - 1
    BY <1>1, <1>3 DEF Numbering
  <2>2. n \in Nat /\ n > 0 /\ n - 1 \in Nat
    <3>1. n \in Nat /\ r.rev \in 1 .. n
      BY <1>1 DEF Numbering
    <3> QED
      BY <3>1
  <2>3. r \in older
    BY <2>1, <2>2
  <2>4. \A q \in older : q.rev <= n - 1
    BY <1>1, <2>2 DEF Revision
  <2>5. Newest(older) = n - 1
    BY <1>1, <2>1, <2>2, <2>3, <2>4, NewestIs
  <2>6. Previous(w) = CHOOSE q \in older : q.rev = n - 1
    BY <1>3, <2>5 DEF Previous, n
  <2>7. Previous(w) \in older /\ Previous(w).rev = n - 1
    BY <2>1, <2>3, <2>6
  <2> QED
    BY <1>1, <2>7 DEF n
<1> QED
  BY <1>2, <1>3

\* A new revision, with that of the same template gone.
LEMMA NextRevision ==
    ASSUME NEW R, R \subseteq Revision, NEW n, Numbering(R, n), NEW t \in Template,
           [rev |-> n, template |-> t] \notin R,
           NEW S, S = {r \in R : r.template # t} \cup {[rev |-> n + 1, template |-> t]}
    PROVE  S \subseteq Revision /\ Numbering(S, n + 1) /\ Newest(S) = n + 1
<1> DEFINE new == [rev |-> n + 1, template |-> t]
           old == {r \in R : r.template # t}
<1>1. n \in Nat /\ n + 1 \in Nat /\ IsFiniteSet(R) /\ \A r \in R : r.rev \in Nat /\ r.rev <= n
  BY DEF Numbering, Revision
<1>2. new \in Revision /\ new.rev = n + 1
  BY <1>1 DEF Revision
<1>3. S \subseteq Revision
  BY <1>2
<1>4. IsFiniteSet(S)
  <2>1. IsFiniteSet(old)
    BY <1>1, FS_Subset
  <2>2. S = old \cup {new}
    OBVIOUS
  <2> HIDE DEF old, new
  <2>3. IsFiniteSet(old \cup {new})
    BY <2>1, FS_AddElement
  <2> QED
    BY <2>2, <2>3
<1>5. \A r \in S : r.rev \in 1 .. n + 1
  BY <1>1, <1>2 DEF Numbering
<1>6. new \in S
  OBVIOUS
<1>7. \A r \in S : r = new \/ (r \in R /\ r.rev # n + 1)
  BY <1>1
<1>8. \A r, q \in S : r.rev = q.rev => r = q
  BY <1>2, <1>7 DEF Numbering
<1>9. ASSUME NEW r \in S, r.rev < n + 1 PROVE \E q \in S : q.rev = n
  <2>1. r \in R
    BY <1>1, <1>2, <1>7, <1>9
  <2>2. PICK q \in R : q.rev = n
    BY <2>1 DEF Numbering
  <2>3. q = [rev |-> n, template |-> q.template]
    BY <2>2 DEF Revision
  <2>4. q.template # t
    BY <2>3
  <2> QED
    BY <2>2, <2>4
<1>10. \A r \in S : r.rev <= n + 1
  BY <1>1, <1>5
<1>11. n + 1 - 1 = n
  BY <1>1
<1> HIDE DEF new, old
<1>12. Numbering(S, n + 1)
  BY <1>1, <1>2, <1>4, <1>5, <1>6, <1>8, <1>9, <1>11 DEF Numbering
<1> QED
  BY <1>1, <1>2, <1>3, <1>6, <1>10, <1>12, NewestIs

\* What the deployment controller, or that of a set, does to the revisions.
LEMMA ObserveStep ==
    ASSUME TypeOK, Numbered, NEW w \in Workload, Observe(w)
    PROVE  /\ revs' \in [Workload -> SUBSET Revision]
           /\ \A v \in Workload : v # w => revs'[v] = revs[v]
           /\ Numbering(revs'[w], Newest(revs'[w]))
           /\ RolledOut(w) => revs'[w] = revs[w]
<1>a. /\ revs[w] \subseteq Revision /\ Numbering(revs[w], Newest(revs[w]))
      /\ obj[w].template \in Template
  BY DEF TypeOK, Numbered, Object
<1>1. CASE revs' = revs
  BY <1>1, <1>a DEF TypeOK
<1>2. CASE revs' # revs
  <2> DEFINE t == obj[w].template
             n == Newest(revs[w])
             S == {r \in revs[w] : r.template # t} \cup {[rev |-> n + 1, template |-> t]}
  <2>1. ~RolledOut(w) /\ revs' = [revs EXCEPT ![w] = S]
    <3> DEFINE rolls == ~obj[w].paused /\ kind[w] \in UndoKinds
    <3>1. revs' = [revs EXCEPT ![w] = IF rolls /\ ~RolledOut(w) THEN S ELSE revs[w]]
      BY DEF Observe
    <3>2. rolls /\ ~RolledOut(w)
      BY <1>2, <3>1 DEF TypeOK
    <3> QED
      BY <3>1, <3>2
  <2>2. [rev |-> n, template |-> t] \notin revs[w]
    BY <2>1 DEF RolledOut
  <2> HIDE DEF n, t
  <2>3. S \subseteq Revision /\ Numbering(S, n + 1) /\ Newest(S) = n + 1
    <3>1. revs[w] \subseteq Revision /\ Numbering(revs[w], n) /\ t \in Template
      BY <1>a DEF n, t
    <3> HIDE DEF S
    <3> QED
      BY <2>2, <3>1, NextRevision DEF S
  <2> HIDE DEF S
  <2> QED
    BY <2>1, <2>3 DEF TypeOK
<1> QED
  BY <1>1, <1>2

-----------------------------------------------------------------------------
(* The other forms of a step *)

LEMMA BeginCases ==
    ASSUME TypeOK, Numbered, NEW c \in Client, NEW w \in Workload,
           \/ StopRead(c, w) \/ RestoreRead(c, w) \/ TagRead(c, w)
           \/ \E to \in 0 .. 2 : UndoRead(c, w, to)
           \/ \E m \in Manifest : ApplyRead(c, w, m)
    PROVE  \E k \in Call : k.w = w /\ Begun(c, k)
<1> DEFINE k(at, o) == [at |-> at, w |-> w, obj |-> o, to |-> 0, back |-> NoRevision]
<1>a. obj[w] \in Object /\ obj[w].version \in Nat
  BY DEF TypeOK, Object
<1>b. SameButTemplate(obj[w], obj[w])
  BY DEF SameButTemplate
<1>c. ASSUME NEW at \in Steps, NEW o \in Object
      PROVE  /\ k(at, o) \in Call /\ k(at, o).at = at /\ k(at, o).w = w
             /\ k(at, o).obj = o /\ k(at, o).back = NoRevision
  BY NoObjectType DEF Call
<1> HIDE DEF k
<1>1. ASSUME NEW at \in {"stop", "restore"}, obj[w].there, at = "stop" => obj[w].replicas # 0,
             MayStart(c, w), Enter(c, at, w, obj[w]),
             UNCHANGED <<kind, exclusive, obj, revs, status, history>>
      PROVE  \E q \in Call : q.w = w /\ Begun(c, q)
  <2>1. /\ k(at, obj[w]) \in Call /\ k(at, obj[w]).at = at /\ k(at, obj[w]).w = w
        /\ k(at, obj[w]).obj = obj[w]
    BY <1>a, <1>c DEF Steps
  <2>2. call' = [call EXCEPT ![c] = k(at, obj[w])]
    BY <1>1 DEF Enter, k
  <2>3. Begun(c, k(at, obj[w]))
    BY <1>1, <1>b, <2>1, <2>2 DEF Begun, MayStart
  <2> QED
    BY <2>1, <2>3
<1>2. CASE StopRead(c, w) \/ RestoreRead(c, w)
  BY <1>1, <1>2 DEF StopRead, RestoreRead
<1>3. CASE TagRead(c, w)
  <2>1. PICK i \in Image : Enter(c, "tag", w, [obj[w] EXCEPT !.template.spec.image = i])
    BY <1>3 DEF TagRead
  <2> DEFINE o == [obj[w] EXCEPT !.template.spec.image = i]
  <2>2. /\ o \in Object /\ o.there = obj[w].there /\ o.version = obj[w].version
        /\ SameButTemplate(o, obj[w])
    BY <1>a, ImageSet
  <2>3. call' = [call EXCEPT ![c] = k("tag", o)]
    BY <2>1 DEF Enter, k
  <2> HIDE DEF o
  <2>4. /\ k("tag", o) \in Call /\ k("tag", o).at = "tag" /\ k("tag", o).w = w
        /\ k("tag", o).obj = o
    BY <1>c, <2>2 DEF Steps
  <2>5. Begun(c, k("tag", o))
    BY <1>3, <2>2, <2>3, <2>4 DEF Begun, MayStart, TagRead
  <2> QED
    BY <2>4, <2>5
<1>4. ASSUME NEW to \in 0 .. 2, UndoRead(c, w, to)
      PROVE  \E q \in Call : q.w = w /\ Begun(c, q)
  <2> DEFINE version == IF kind[w] = "Deployment" /\ to = 0 THEN obj[w].rev - 1 ELSE to
             back == IF to = 0 /\ Settled(w) THEN Previous(w) ELSE NoRevision
             q == [at |-> "undo", w |-> w, obj |-> obj[w], to |-> version, back |-> back]
  <2>1. version \in Nat
    BY <1>4, <1>a DEF UndoRead, Object
  <2>2. back \in Revision
    BY NoObjectType, PreviousIs
  <2>3. back # NoRevision =>
           /\ Settled(w) /\ back = Previous(w)
           /\ version = IF kind[w] = "Deployment" THEN obj[w].rev - 1 ELSE 0
    OBVIOUS
  <2> HIDE DEF version, back
  <2>4. /\ q \in Call /\ q.at = "undo" /\ q.w = w /\ q.obj = obj[w] /\ q.to = version
        /\ q.back = back
    BY <1>a, <2>1, <2>2 DEF Call, Steps
  <2>5. call' = [call EXCEPT ![c] = q]
    BY <1>4 DEF UndoRead, version, back
  <2> HIDE DEF q
  <2>6. Begun(c, q)
    BY <1>4, <1>b, <2>3, <2>4, <2>5 DEF Begun, MayStart, UndoRead
  <2> QED
    BY <2>4, <2>6
<1>5. ASSUME NEW m \in Manifest, ApplyRead(c, w, m)
      PROVE  \E q \in Call : q.w = w /\ Begun(c, q)
  <2>1. PICK at \in {"applyWrite", "create"}, v \in Nat :
             /\ at = "applyWrite" => obj[w].there /\ v = obj[w].version
             /\ Enter(c, at, w, FromManifest(m, v))
    BY <1>5, <1>a DEF ApplyRead
  <2> DEFINE o == FromManifest(m, v)
  <2>2. o \in Object /\ o.there /\ o.version = v /\ o.note = NoNote
    BY ManifestType
  <2>3. call' = [call EXCEPT ![c] = k(at, o)]
    BY <2>1 DEF Enter, k
  <2> HIDE DEF o
  <2>4. /\ k(at, o) \in Call /\ k(at, o).at = at /\ k(at, o).w = w /\ k(at, o).obj = o
    BY <1>c, <2>2 DEF Steps
  <2>5. Begun(c, k(at, o))
    BY <1>5, <2>1, <2>2, <2>3, <2>4 DEF Begun, MayStart, ApplyRead
  <2> QED
    BY <2>4, <2>5
<1> QED
  BY <1>2, <1>3, <1>4, <1>5

LEMMA WriteCases ==
    ASSUME TypeOK, ReadsHold, NEW c \in Client,
           StopPatch(c) \/ RestorePatch(c) \/ TagWrite(c) \/ UndoWrite(c) \/ ApplyWrite(c) \/ Create(c)
    PROVE  \E o \in Object, op \in Operations : Written(c, o, op)
<1> DEFINE w == call[c].w
<1>a. /\ w \in Workload /\ obj[w] \in Object /\ call[c].obj \in Object
      /\ call[c].obj.replicas \in Nat /\ call[c].obj.note \in Nat \cup {NoNote}
  BY DEF TypeOK, Call, Object
<1>b. call[c].at \notin {"idle", "stop", "restore"} => call[c].obj.there
  BY DEF ReadsHold
<1>1. CASE StopPatch(c)
  <2> DEFINE o == [obj[w] EXCEPT !.replicas = 0, !.note = call[c].obj.replicas]
  <2>1. o \in Object /\ o.there = obj[w].there /\ o.replicas = 0 /\ o.note = call[c].obj.replicas
    <3>1. call[c].obj.replicas \in Nat \cup {NoNote} /\ 0 \in Nat
      BY <1>a
    <3>2. o = [obj[w] EXCEPT !.replicas = 0, !.note = call[c].obj.replicas]
      OBVIOUS
    <3> HIDE DEF o
    <3> QED
      BY <1>a, <3>1, <3>2 DEF Object
  <2>2. Store(w, o, "stop")
    BY <1>1 DEF StopPatch
  <2> HIDE DEF o
  <2>3. Written(c, o, "stop")
    BY <1>1, <2>1, <2>2 DEF StopPatch, At, Written
  <2> QED
    BY <2>1, <2>3 DEF Operations
<1>2. CASE RestorePatch(c)
  <2> DEFINE n == IF call[c].obj.note = NoNote THEN 1 ELSE call[c].obj.note
             o == [obj[w] EXCEPT !.replicas = n, !.note = NoNote]
  <2>0. n \in Nat
    BY <1>a
  <2>2. Store(w, o, "restore")
    BY <1>2 DEF RestorePatch
  <2>3. n = IF call[c].obj.note = NoNote THEN 1 ELSE call[c].obj.note
    OBVIOUS
  <2> HIDE DEF n
  <2>1. o \in Object /\ o.there = obj[w].there /\ o.replicas = n /\ o.note = NoNote
    <3>2. o = [obj[w] EXCEPT !.replicas = n, !.note = NoNote]
      OBVIOUS
    <3> HIDE DEF o
    <3> QED
      BY <1>a, <2>0, <3>2 DEF Object
  <2> HIDE DEF o
  <2>4. Written(c, o, "restore")
    BY <1>2, <2>1, <2>2, <2>3 DEF RestorePatch, At, Written
  <2> QED
    BY <2>1, <2>4 DEF Operations
<1>3. CASE TagWrite(c) \/ UndoWrite(c)
  <2>1. Written(c, call[c].obj, "other")
    BY <1>3, <1>b DEF TagWrite, UndoWrite, Update, At, Written
  <2> QED
    BY <1>a, <2>1 DEF Operations
<1>4. CASE ApplyWrite(c) \/ Create(c)
  <2>1. Written(c, call[c].obj, "replace")
    BY <1>4, <1>b DEF ApplyWrite, Create, Update, At, Written
  <2> QED
    BY <1>a, <2>1 DEF Operations
<1> QED
  BY <1>1, <1>2, <1>3, <1>4

LEMMA FoundStep ==
    ASSUME TypeOK, NEW c \in Client, Found(c)
    PROVE  /\ call' \in [Client -> Call]
           /\ \A d \in Client : d # c => call'[d] = call[d]
           /\ call[c].at = "undo" /\ call'[c].at = "undoWrite" /\ call'[c].w = call[c].w
           /\ call'[c].back = call[c].back /\ call'[c].obj.version = call[c].obj.version
           /\ call'[c].obj.there = call[c].obj.there
           /\ SameButTemplate(call'[c].obj, call[c].obj)
           /\ \E r \in revs[call[c].w] :
                 /\ r.rev = (IF kind[call[c].w] = "Deployment" THEN call[c].to
                             ELSE VersionBefore(call[c].w, call[c].to))
                 /\ call'[c].obj.template.spec = r.template.spec
           /\ UNCHANGED <<kind, exclusive, obj, revs, status, history>>
<1> DEFINE k == call[c]
           version == IF kind[k.w] = "Deployment" THEN k.to ELSE VersionBefore(k.w, k.to)
<1>1. k \in Call /\ k.w \in Workload /\ k.obj \in Object /\ k.at = "undo"
  BY DEF TypeOK, Call, Found, At
<1>2. PICK r \in revs[k.w] :
          /\ r.rev = version
          /\ call' = [call EXCEPT ![c].at = "undoWrite", ![c].obj.template.spec = r.template.spec]
  BY DEF Found, UndoTo
<1>3. r.template.spec \in PodSpec
  BY <1>1 DEF TypeOK, Revision, Template
<1> DEFINE o == [k.obj EXCEPT !.template.spec = r.template.spec]
           q == [at |-> "undoWrite", w |-> k.w, obj |-> o, to |-> k.to, back |-> k.back]
<1>4. /\ o \in Object /\ o.there = k.obj.there /\ o.version = k.obj.version
      /\ o.template.spec = r.template.spec /\ SameButTemplate(o, k.obj)
  BY <1>1, <1>3, SpecSet
<1>5. call' = [call EXCEPT ![c] = q]
  <2>1. call'[c] = [[k EXCEPT !.at = "undoWrite"] EXCEPT !.obj.template.spec = r.template.spec]
    BY <1>1, <1>2 DEF TypeOK
  <2> QED
    BY <1>1, <1>2, <2>1 DEF TypeOK, Call
<1> HIDE DEF o
<1>6. /\ q \in Call /\ q.at = "undoWrite" /\ q.w = k.w /\ q.obj = o /\ q.back = k.back
  BY <1>1, <1>4 DEF Call, Steps
<1> HIDE DEF q
<1>7. /\ call' \in [Client -> Call] /\ call'[c] = q
      /\ \A d \in Client : d # c => call'[d] = call[d]
  BY <1>5, <1>6, CallSet
<1>8. UNCHANGED <<kind, exclusive, obj, revs, status, history>>
  BY DEF Found, UndoTo
<1> QED
  BY <1>1, <1>2, <1>4, <1>6, <1>7, <1>8

LEMMA StepCases ==
    ASSUME TypeOK, Numbered, ReadsHold, [Next]_vars
    PROVE  \/ \E w \in Workload, o \in Object, op \in {"scale", "other"} : Patched(w, o, op)
           \/ \E c \in Client, k \in Call : Begun(c, k)
           \/ \E c \in Client, o \in Object, op \in Operations : Written(c, o, op)
           \/ \E c \in Client : Found(c)
           \/ \E c \in Client : Fail(c)
           \/ \E c \in Client, w \in Workload : Delete(c, w)
           \/ \E w \in Workload : Observe(w)
           \/ \E w \in Workload : RunPods(w)
           \/ \E w \in Workload : Fall(w)
           \/ UNCHANGED vars
<1>1. ASSUME NEW c \in Client, Continue(c)
      PROVE  \/ \E o \in Object, op \in Operations : Written(c, o, op)
             \/ Found(c) \/ Fail(c)
  <2>1. CASE RollbackDeployment(c) \/ RollbackDaemonSet(c) \/ RollbackStatefulSet(c)
    <3>1. Found(c)
      BY <2>1 DEF RollbackDeployment, RollbackDaemonSet, RollbackStatefulSet, Found, UndoKinds
    <3> QED
      BY <3>1
  <2> QED
    BY <1>1, <2>1, WriteCases DEF Continue
<1>2. ASSUME NEW c \in Client, NEW w \in Workload, Start(c, w)
      PROVE  \/ \E o \in Object, op \in {"scale", "other"} : Patched(w, o, op)
             \/ \E k \in Call : Begun(c, k)
             \/ Delete(c, w)
  <2>1. \/ \E n \in 0 .. MaxReplicas : Scale(c, w, n)
        \/ Restart(c, w)
        \/ \E b \in BOOLEAN : Pause(c, w, b) \/ Suspend(c, w, b) \/ Annotate(c, w, b)
        \/ StopDaemonSet(c, w) \/ RestoreDaemonSet(c, w)
        \/ Delete(c, w)
        \/ StopRead(c, w) \/ RestoreRead(c, w) \/ TagRead(c, w)
        \/ \E to \in 0 .. 2 : UndoRead(c, w, to)
        \/ \E m \in Manifest : ApplyRead(c, w, m)
    BY <1>2 DEF Start
  <2> QED
    BY <2>1, PatchCases, BeginCases
<1>3. ASSUME NEW w \in Workload, NoteRevision(w)
      PROVE  \E o \in Object, op \in {"scale", "other"} : Patched(w, o, op)
  <2> DEFINE o == [obj[w] EXCEPT !.rev = Newest(revs[w])]
  <2>1. obj[w] \in Object /\ Newest(revs[w]) \in Nat
    BY DEF TypeOK, Numbered, Numbering
  <2>2. /\ o \in Object /\ o.there = obj[w].there /\ o.replicas = obj[w].replicas
        /\ o.note = obj[w].note
    BY <2>1, FlagSet
  <2>3. Store(w, o, "other")
    BY <1>3 DEF NoteRevision
  <2> HIDE DEF o
  <2>4. Patched(w, o, "other")
    BY <1>3, <2>2, <2>3 DEF Patched, NoteRevision
  <2> QED
    BY <2>2, <2>4
<1>4. CASE UNCHANGED vars
  BY <1>4
<1>5. CASE \E c \in Client : Continue(c) \/ \E w \in Workload : Start(c, w)
  BY <1>1, <1>2, <1>5
<1>6. CASE \E w \in Workload : Controller(w)
  BY <1>3, <1>6 DEF Controller
<1> QED
  BY <1>4, <1>5, <1>6 DEF Next

LEMMA WantedType == ASSUME TypeOK, NEW w \in Workload PROVE Wanted(w) \in Nat
BY DEF TypeOK, Wanted, Object

LEMMA DeleteStep ==
    ASSUME TypeOK, NEW c \in Client, NEW w \in Workload, Delete(c, w)
    PROVE  /\ obj' \in [Workload -> Object] /\ revs' \in [Workload -> SUBSET Revision]
           /\ last' \in [Workload -> Operations]
           /\ \A v \in Workload : v # w => obj'[v] = obj[v] /\ revs'[v] = revs[v] /\ last'[v] = last[v]
           /\ ~obj'[w].there /\ obj'[w].note = NoNote /\ obj'[w].replicas = 0
           /\ obj'[w].version = obj[w].version + 1 /\ revs'[w] = {}
           /\ last'[w] = IF w \in exclusive THEN "replace" ELSE last[w]
           /\ w \in exclusive => \A d \in Client : call[d].at = "idle" \/ call[d].w # w
           /\ UNCHANGED <<kind, exclusive, status, call, ran>>
<1> DEFINE o == [NoObject EXCEPT !.version = obj[w].version + 1]
<1>1. obj[w].version + 1 \in Nat
  BY DEF TypeOK, Object
<1>2. /\ o \in Object /\ ~o.there /\ o.note = NoNote /\ o.replicas = 0
      /\ o.version = obj[w].version + 1
  BY <1>1, NoObjectType, VersionSet DEF SameButTemplate
<1>3. obj' = [obj EXCEPT ![w] = o] /\ revs' = [revs EXCEPT ![w] = {}]
  BY DEF Delete
<1> HIDE DEF o
<1>4. /\ last' \in [Workload -> Operations] /\ last'[w] = IF w \in exclusive THEN "replace" ELSE last[w]
      /\ \A v \in Workload : v # w => last'[v] = last[v]
  BY DEF Delete, Note, TypeOK, Operations
<1>5. /\ w \in exclusive => \A d \in Client : call[d].at = "idle" \/ call[d].w # w
      /\ UNCHANGED <<kind, exclusive, status, call, ran>>
  BY DEF Delete, MayStart, OthersAreOff
<1>6. obj' \in [Workload -> Object] /\ obj'[w] = o /\ \A v \in Workload : v # w => obj'[v] = obj[v]
  BY <1>2, <1>3 DEF TypeOK
<1>7. /\ revs' \in [Workload -> SUBSET Revision] /\ revs'[w] = {}
      /\ \A v \in Workload : v # w => revs'[v] = revs[v]
  BY <1>3 DEF TypeOK
<1> QED
  BY <1>2, <1>4, <1>5, <1>6, <1>7

LEMMA TypeStep ==
    ASSUME TypeOK, Numbered, ReadsHold, [Next]_vars
    PROVE  TypeOK'
<1>1. ASSUME NEW w \in Workload, NEW o \in Object, NEW op \in {"scale", "other"}, Patched(w, o, op)
      PROVE  TypeOK'
  <2>1. op \in Operations
    BY DEF Operations
  <2>2. Store(w, o, op)
    BY <1>1 DEF Patched
  <2>3. /\ obj' \in [Workload -> Object] /\ ran' \in [Workload -> SUBSET Nat]
        /\ last' \in [Workload -> Operations]
    BY <2>1, <2>2, StoreStep
  <2> QED
    BY <1>1, <2>3 DEF TypeOK, Patched, Operations
<1>2. ASSUME NEW c \in Client, NEW k \in Call, Begun(c, k) PROVE TypeOK'
  BY <1>2, CallSet DEF Begun, TypeOK, history
<1>3. ASSUME NEW c \in Client, NEW o \in Object, NEW op \in Operations, Written(c, o, op) PROVE TypeOK'
  <2>1. Store(call[c].w, o, op) /\ call[c].w \in Workload
    BY <1>3 DEF Written, TypeOK, Call
  <2>2. /\ obj' \in [Workload -> Object] /\ ran' \in [Workload -> SUBSET Nat]
        /\ last' \in [Workload -> Operations]
    BY <2>1, StoreStep
  <2>3. call' \in [Client -> Call]
    BY <1>3, CallSet, NoObjectType DEF Written, Return
  <2> QED
    BY <1>3, <2>2, <2>3 DEF TypeOK, Written, Operations
<1>4. ASSUME NEW c \in Client, Found(c) PROVE TypeOK'
  BY <1>4, FoundStep DEF TypeOK, history
<1>5. ASSUME NEW c \in Client, Fail(c) PROVE TypeOK'
  BY <1>5, CallSet, NoObjectType DEF TypeOK, Fail, Return, history
<1>6. ASSUME NEW c \in Client, NEW w \in Workload, Delete(c, w) PROVE TypeOK'
  BY <1>6, DeleteStep DEF TypeOK, Operations
<1>7. ASSUME NEW w \in Workload, Observe(w) PROVE TypeOK'
  <2>1. revs' \in [Workload -> SUBSET Revision]
    BY <1>7, ObserveStep
  <2>2. obj[w].template \in Template /\ status[w] \in Status
    BY DEF TypeOK, Object
  <2> DEFINE s == [status[w] EXCEPT !.seen = obj[w].template, !.updated = 0]
  <2>3. status' = [status EXCEPT ![w] = s]
    BY <1>7 DEF Observe
  <2>4. s \in Status
    BY <2>2 DEF Status
  <2> HIDE DEF s
  <2>5. status' \in [Workload -> Status]
    BY <2>3, <2>4 DEF TypeOK
  <2> QED
    BY <1>7, <2>1, <2>5 DEF TypeOK, Observe, history
<1>8. ASSUME NEW w \in Workload, RunPods(w) PROVE TypeOK'
  <2>1. obj[w].template \in Template /\ Wanted(w) \in Nat
    BY WantedType DEF TypeOK, Object
  <2>2. status' \in [Workload -> Status]
    BY <1>8, <2>1 DEF RunPods, TypeOK, Status
  <2> QED
    BY <1>8, <2>2 DEF TypeOK, RunPods, history
<1>9. ASSUME NEW w \in Workload, Fall(w) PROVE TypeOK'
  <2>1. Wanted(w) \in Nat /\ status[w] \in Status
    BY WantedType DEF TypeOK
  <2>2. Wanted(w) - status[w].ready \in Nat
    BY <1>9, <2>1 DEF Fall, Status
  <2> DEFINE s == [status[w] EXCEPT !.unavailable = Wanted(w) - status[w].ready,
                                    !.desired = Wanted(w)]
  <2>3. status' = [status EXCEPT ![w] = s]
    BY <1>9 DEF Fall
  <2>4. s \in Status
    BY <2>1, <2>2 DEF Status
  <2> HIDE DEF s
  <2>5. status' \in [Workload -> Status]
    BY <2>3, <2>4 DEF TypeOK
  <2> QED
    BY <1>9, <2>5 DEF TypeOK, Fall, history
<1>10. CASE UNCHANGED vars
  BY <1>10 DEF TypeOK, vars, history
<1> QED
  BY <1>1, <1>2, <1>3, <1>4, <1>5, <1>6, <1>7, <1>8, <1>9, <1>10, StepCases

-----------------------------------------------------------------------------
(* What every step keeps *)

\* The version moves with the object, and the replicas are written down.
LEMMA ObjectStep ==
    ASSUME TypeOK, Numbered, ReadsHold, RanIsCurrent, [Next]_vars, NEW w \in Workload
    PROVE  /\ obj'[w].version >= obj[w].version
           /\ obj'[w].version = obj[w].version => obj'[w] = obj[w]
           /\ ran[w] \subseteq ran'[w]
           /\ obj'[w].there => obj'[w].replicas \in ran'[w]
           /\ kind' = kind /\ exclusive' = exclusive
<1>a. obj[w].version \in Nat
  BY DEF TypeOK, Object
<1>b. ASSUME NEW v \in Workload, NEW o \in Object, NEW op \in Operations, Store(v, o, op)
      PROVE  /\ obj'[w].version >= obj[w].version
             /\ obj'[w].version = obj[w].version => obj'[w] = obj[w]
             /\ ran[w] \subseteq ran'[w]
             /\ obj'[w].there => obj'[w].replicas \in ran'[w]
  <2>1. CASE v = w
    <3>1. /\ obj'[w].version \in {obj[w].version, obj[w].version + 1}
          /\ obj'[w].version = obj[w].version => obj'[w] = obj[w]
          /\ obj'[w].replicas = o.replicas /\ ran'[w] = ran[w] \cup {o.replicas}
      BY <1>b, <2>1, StoreStep DEF SameButTemplate
    <3>2. obj'[w].version >= obj[w].version
      BY <1>a, <3>1
    <3> QED
      BY <3>1, <3>2
  <2>2. CASE v # w
    <3>1. obj'[w] = obj[w] /\ ran'[w] = ran[w]
      BY <1>b, <2>2, StoreStep
    <3> QED
      BY <1>a, <3>1 DEF RanIsCurrent
  <2> QED
    BY <2>1, <2>2
<1>1. ASSUME NEW v \in Workload, NEW o \in Object, NEW op \in {"scale", "other"}, Patched(v, o, op)
      PROVE  /\ obj'[w].version >= obj[w].version
             /\ obj'[w].version = obj[w].version => obj'[w] = obj[w]
             /\ ran[w] \subseteq ran'[w]
             /\ obj'[w].there => obj'[w].replicas \in ran'[w]
             /\ kind' = kind /\ exclusive' = exclusive
  BY <1>1, <1>b DEF Patched, Operations
<1>2. ASSUME NEW c \in Client, NEW o \in Object, NEW op \in Operations, Written(c, o, op)
      PROVE  /\ obj'[w].version >= obj[w].version
             /\ obj'[w].version = obj[w].version => obj'[w] = obj[w]
             /\ ran[w] \subseteq ran'[w]
             /\ obj'[w].there => obj'[w].replicas \in ran'[w]
             /\ kind' = kind /\ exclusive' = exclusive
  <2>1. call[c].w \in Workload /\ Store(call[c].w, o, op)
    BY <1>2 DEF Written, TypeOK, Call
  <2> QED
    BY <1>2, <1>b, <2>1 DEF Written
<1>3. ASSUME NEW c \in Client, NEW v \in Workload, Delete(c, v)
      PROVE  /\ obj'[w].version >= obj[w].version
             /\ obj'[w].version = obj[w].version => obj'[w] = obj[w]
             /\ ran[w] \subseteq ran'[w]
             /\ obj'[w].there => obj'[w].replicas \in ran'[w]
             /\ kind' = kind /\ exclusive' = exclusive
  <2>1. CASE v = w
    <3>1. obj'[w].version = obj[w].version + 1 /\ ~obj'[w].there /\ UNCHANGED <<kind, exclusive, ran>>
      BY <1>3, <2>1, DeleteStep
    <3>2. obj'[w].version >= obj[w].version /\ obj'[w].version # obj[w].version
      BY <1>a, <3>1
    <3> QED
      BY <3>1, <3>2
  <2>2. CASE v # w
    <3>1. obj'[w] = obj[w] /\ UNCHANGED <<kind, exclusive, ran>>
      BY <1>3, <2>2, DeleteStep
    <3> QED
      BY <1>a, <3>1 DEF RanIsCurrent
  <2> QED
    BY <2>1, <2>2
<1>4. ASSUME UNCHANGED <<kind, exclusive, obj, ran>>
      PROVE  /\ obj'[w].version >= obj[w].version
             /\ obj'[w].version = obj[w].version => obj'[w] = obj[w]
             /\ ran[w] \subseteq ran'[w]
             /\ obj'[w].there => obj'[w].replicas \in ran'[w]
             /\ kind' = kind /\ exclusive' = exclusive
  BY <1>a, <1>4 DEF RanIsCurrent
<1>5. ASSUME \/ \E c \in Client, k \in Call : Begun(c, k)
             \/ \E c \in Client : Found(c) \/ Fail(c)
             \/ \E v \in Workload : Observe(v) \/ RunPods(v) \/ Fall(v)
             \/ UNCHANGED vars
      PROVE  UNCHANGED <<kind, exclusive, obj, ran>>
  BY <1>5 DEF Begun, Found, UndoTo, Fail, Observe, RunPods, Fall, vars, history
<1> QED
  BY <1>1, <1>2, <1>3, <1>4, <1>5, StepCases

\* The revisions change with the object, or when the newest is not the one of
\* its template.
LEMMA RevisionStep ==
    ASSUME TypeOK, Numbered, ReadsHold, [Next]_vars, NEW w \in Workload
    PROVE  /\ Numbering(revs'[w], Newest(revs'[w]))
           /\ obj'[w] = obj[w] /\ RolledOut(w) => revs'[w] = revs[w]
<1>1. ASSUME NEW v \in Workload, Observe(v)
      PROVE  /\ Numbering(revs'[w], Newest(revs'[w]))
             /\ RolledOut(w) => revs'[w] = revs[w]
  <2>1. CASE v = w
    BY <1>1, <2>1, ObserveStep
  <2>2. CASE v # w
    BY <1>1, <2>2, ObserveStep DEF Numbered
  <2> QED
    BY <2>1, <2>2
<1>2. ASSUME NEW c \in Client, NEW v \in Workload, Delete(c, v)
      PROVE  /\ Numbering(revs'[w], Newest(revs'[w]))
             /\ obj'[w] = obj[w] => revs'[w] = revs[w]
  <2>1. CASE v = w
    <3>1. revs'[w] = {} /\ obj'[w].version = obj[w].version + 1 /\ obj[w].version \in Nat
      BY <1>2, <2>1, DeleteStep DEF TypeOK, Object
    <3>2. obj'[w] # obj[w]
      BY <3>1
    <3>3. Newest({}) = 0
      BY NewestIs
    <3>4. Numbering({}, 0)
      BY FS_EmptySet DEF Numbering
    <3> QED
      BY <3>1, <3>2, <3>3, <3>4
  <2>2. CASE v # w
    BY <1>2, <2>2, DeleteStep DEF Numbered
  <2> QED
    BY <2>1, <2>2
<1>3. ASSUME UNCHANGED revs
      PROVE  Numbering(revs'[w], Newest(revs'[w])) /\ revs'[w] = revs[w]
  BY <1>3 DEF Numbered
<1>4. ASSUME \/ \E v \in Workload, o \in Object, op \in {"scale", "other"} : Patched(v, o, op)
             \/ \E c \in Client, k \in Call : Begun(c, k)
             \/ \E c \in Client, o \in Object, op \in Operations : Written(c, o, op)
             \/ \E c \in Client : Found(c) \/ Fail(c)
             \/ \E v \in Workload : RunPods(v) \/ Fall(v)
             \/ UNCHANGED vars
      PROVE  UNCHANGED revs
  BY <1>4 DEF Patched, Begun, Written, Found, UndoTo, Fail, RunPods, Fall, vars
<1> QED
  BY <1>1, <1>2, <1>3, <1>4, StepCases

\* A call goes on, returns, begins, or has found its revision.
LEMMA CallStep ==
    ASSUME TypeOK, Numbered, ReadsHold, [Next]_vars, NEW c \in Client
    PROVE  \/ call'[c] = call[c]
           \/ call'[c] = Idle
           \/ \E k \in Call : Begun(c, k) /\ call'[c] = k
           \/ Found(c)
<1>1. ASSUME NEW d \in Client, NEW k \in Call, Begun(d, k)
      PROVE  call'[c] = call[c] \/ (Begun(c, k) /\ call'[c] = k)
  BY <1>1, CallSet DEF Begun
<1>2. ASSUME NEW d \in Client, call' = [call EXCEPT ![d] = Idle]
      PROVE  call'[c] = call[c] \/ call'[c] = Idle
  BY <1>2, CallSet, NoObjectType
<1>3. ASSUME NEW d \in Client, Found(d)
      PROVE  call'[c] = call[c] \/ Found(c)
  BY <1>3, FoundStep
<1>4. ASSUME \/ \E c2 \in Client, o \in Object, op \in Operations : Written(c2, o, op)
             \/ \E c2 \in Client : Fail(c2)
      PROVE  \E d \in Client : call' = [call EXCEPT ![d] = Idle]
  BY <1>4 DEF Written, Fail, Return
<1>5. ASSUME \/ \E v \in Workload, o \in Object, op \in {"scale", "other"} : Patched(v, o, op)
             \/ \E d \in Client, v \in Workload : Delete(d, v)
             \/ \E v \in Workload : Observe(v) \/ RunPods(v) \/ Fall(v)
             \/ UNCHANGED vars
      PROVE  UNCHANGED call
  BY <1>5 DEF Patched, Delete, Observe, RunPods, Fall, vars
<1> QED
  BY <1>1, <1>2, <1>3, <1>4, <1>5, StepCases

LEMMA ReadsHoldStep ==
    ASSUME TypeOK, TypeOK', Numbered, ReadsHold, RanIsCurrent, [Next]_vars
    PROVE  ReadsHold'
<1> SUFFICES ASSUME NEW c \in Client
             PROVE  LET k == call'[c]
                        o == obj'[k.w]
                    IN
                    /\ k.at \notin {"idle", "create"} => k.obj.there /\ k.obj.version <= o.version
                    /\ k.at \in {"applyWrite", "create"} => k.obj.there /\ k.obj.note = NoNote
                    /\ k.at = "stop" => k.obj.replicas # 0 /\ k.obj.replicas \in ran'[k.w]
                    /\ k.at \in {"tag", "undo", "undoWrite"} /\ k.obj.version = o.version =>
                          o.there /\ SameButTemplate(k.obj, o)
  BY DEF ReadsHold, SameButTemplate
<1> DEFINE w == call'[c].w
<1>a. /\ w \in Workload /\ call[c].w \in Workload
      /\ call'[c].obj.version \in Nat /\ call[c].obj.version \in Nat
      /\ obj[w].version \in Nat /\ obj'[w].version \in Nat
  BY DEF TypeOK, Call, Object
<1>b. /\ obj'[w].version >= obj[w].version
      /\ obj'[w].version = obj[w].version => obj'[w] = obj[w]
      /\ ran[w] \subseteq ran'[w]
  BY <1>a, ObjectStep
<1>c. ASSUME NEW n \in Nat, n <= obj[w].version
      PROVE  n <= obj'[w].version /\ (n = obj'[w].version => obj'[w] = obj[w] /\ n = obj[w].version)
  <2>1. n <= obj'[w].version
    BY <1>a, <1>b, <1>c
  <2>2. n = obj'[w].version => obj'[w].version = obj[w].version
    BY <1>a, <1>b, <1>c
  <2> QED
    BY <1>b, <2>1, <2>2
<1>1. CASE call'[c] = call[c]
  BY <1>1, <1>a, <1>b, <1>c DEF ReadsHold
<1>2. CASE call'[c] = Idle
  BY <1>2, NoObjectType
<1>3. ASSUME NEW k \in Call, Begun(c, k), call'[c] = k
      PROVE  /\ k.at \notin {"idle", "create"} => k.obj.there /\ k.obj.version <= obj'[w].version
             /\ k.at \in {"applyWrite", "create"} => k.obj.there /\ k.obj.note = NoNote
             /\ k.at = "stop" => k.obj.replicas # 0 /\ k.obj.replicas \in ran'[w]
             /\ k.at \in {"tag", "undo", "undoWrite"} /\ k.obj.version = obj'[w].version =>
                   obj'[w].there /\ SameButTemplate(k.obj, obj'[w])
  <2>1. UNCHANGED <<obj, ran>> /\ w = k.w
    BY <1>3 DEF Begun, history
  <2>2. k.at # "undoWrite" /\ k.at # "create" => k.obj.version <= obj'[w].version
    BY <1>3, <1>a, <2>1 DEF Begun
  <2>3. k.at # "undoWrite" /\ k.obj.there
    BY <1>3 DEF Begun
  <2>4. k.at = "stop" => k.obj.replicas = obj[w].replicas /\ obj[w].there /\ k.obj.replicas # 0
    BY <1>3, <2>1 DEF Begun, SameButTemplate
  <2> QED
    BY <1>3, <1>a, <2>1, <2>2, <2>3, <2>4 DEF Begun, RanIsCurrent
<1>4. CASE Found(c)
  <2>1. /\ call[c].at = "undo" /\ call'[c].at = "undoWrite" /\ w = call[c].w
        /\ call'[c].obj.version = call[c].obj.version /\ call'[c].obj.there = call[c].obj.there
        /\ SameButTemplate(call'[c].obj, call[c].obj) /\ obj' = obj
    BY <1>4, FoundStep DEF history
  <2>2. /\ call[c].obj.there /\ call[c].obj.version <= obj[w].version
        /\ call[c].obj.version = obj[w].version => obj[w].there /\ SameButTemplate(call[c].obj, obj[w])
    BY <2>1 DEF ReadsHold
  <2> QED
    BY <2>1, <2>2 DEF SameButTemplate
<1> QED
  BY <1>1, <1>2, <1>3, <1>4, CallStep

LEMMA OneCallerStep ==
    ASSUME TypeOK, Numbered, ReadsHold, RanIsCurrent, OneCaller, [Next]_vars
    PROVE  OneCaller'
<1> SUFFICES ASSUME NEW c \in Client, NEW d \in Client, c # d,
                    call'[c].at # "idle", call'[d].at # "idle",
                    call'[c].w = call'[d].w, call'[c].w \in exclusive'
             PROVE  FALSE
  BY DEF OneCaller
<1>1. exclusive' = exclusive
  <2>1. \A w \in Workload : exclusive' = exclusive
    BY ObjectStep
  <2> QED
    BY <2>1, BoundsAssumption
<1>2. ASSUME NEW e \in Client
      PROVE  \/ call'[e].at = "idle"
             \/ call[e].at # "idle" /\ call'[e].w = call[e].w
             \/ \E k \in Call : Begun(e, k) /\ call'[e] = k
  BY CallStep, FoundStep, NoObjectType
<1>3. ASSUME NEW e \in Client, NEW f \in Client, e # f, NEW k \in Call, Begun(e, k), call'[e] = k,
             call'[f].at # "idle", call'[f].w = k.w, k.w \in exclusive
      PROVE  FALSE
  <2>1. call'[f] = call[f]
    BY <1>3, CallSet DEF Begun
  <2> QED
    BY <1>3, <2>1 DEF Begun, OthersAreOff
<1> QED
  BY <1>1, <1>2, <1>3 DEF OneCaller

LEMMA ReadsAreOwnStep ==
    ASSUME TypeOK, Numbered, ReadsHold, RanIsCurrent, ReadsAreOwn, OneCaller, [Next]_vars
    PROVE  ReadsAreOwn'
<1> SUFFICES ASSUME NEW c \in Client, call'[c].at \in {"stop", "restore"},
                    call'[c].w \in exclusive'
             PROVE  /\ obj'[call'[c].w].replicas = call'[c].obj.replicas
                    /\ obj'[call'[c].w].note = call'[c].obj.note
  BY DEF ReadsAreOwn
<1> DEFINE w == call[c].w
<1>1. exclusive' = exclusive
  <2>1. \A v \in Workload : exclusive' = exclusive
    BY ObjectStep
  <2> QED
    BY <2>1, BoundsAssumption
<1>2. ASSUME NEW k \in Call, Begun(c, k), call'[c] = k
      PROVE  obj'[k.w].replicas = k.obj.replicas /\ obj'[k.w].note = k.obj.note
  BY <1>2 DEF Begun, SameButTemplate
<1>3. CASE call'[c] = call[c]
  <2>a. w \in Workload /\ w \in exclusive /\ call[c].at \in {"stop", "restore"}
    BY <1>1, <1>3 DEF TypeOK, Call
  <2>b. obj[w].replicas = call[c].obj.replicas /\ obj[w].note = call[c].obj.note
    BY <2>a DEF ReadsAreOwn
  <2>1. ASSUME NEW v \in Workload, NEW o \in Object, NEW op \in {"scale", "other"}, Patched(v, o, op)
        PROVE  obj'[w].replicas = obj[w].replicas /\ obj'[w].note = obj[w].note
    <3>1. op \in Operations /\ Store(v, o, op)
      BY <2>1 DEF Patched, Operations
    <3>2. CASE v = w
      <4>1. op = "other"
        BY <2>1, <2>a, <3>2 DEF Patched
      <4> QED
        BY <2>1, <3>1, <3>2, <4>1, StoreStep DEF Patched, SameButTemplate
    <3>3. CASE v # w
      BY <2>a, <3>1, <3>3, StoreStep
    <3> QED
      BY <3>2, <3>3
  <2>2. ASSUME NEW d \in Client, NEW o \in Object, NEW op \in Operations, Written(d, o, op)
        PROVE  obj'[w] = obj[w]
    <3>1. call[d].w \in Workload /\ Store(call[d].w, o, op) /\ call[d].at # "idle"
      BY <2>2 DEF Written, TypeOK, Call
    <3>2. d # c
      BY <2>2, <2>a, <1>3, CallSet, NoObjectType DEF Written, Return
    <3>3. call[d].w # w
      BY <2>a, <3>1, <3>2 DEF OneCaller
    <3> QED
      BY <2>a, <3>1, <3>3, StoreStep
  <2>3. ASSUME NEW d \in Client, NEW v \in Workload, Delete(d, v)
        PROVE  obj'[w] = obj[w]
    BY <2>3, <2>a, DeleteStep
  <2>4. ASSUME \/ \E d \in Client, k \in Call : Begun(d, k)
               \/ \E d \in Client : Found(d) \/ Fail(d)
               \/ \E v \in Workload : Observe(v) \/ RunPods(v) \/ Fall(v)
               \/ UNCHANGED vars
        PROVE  UNCHANGED obj
    BY <2>4 DEF Begun, Found, UndoTo, Fail, Observe, RunPods, Fall, vars
  <2>5. obj'[w].replicas = obj[w].replicas /\ obj'[w].note = obj[w].note
    BY <2>1, <2>2, <2>3, <2>4, StepCases
  <2> QED
    BY <1>3, <2>5, <2>b
<1>4. call'[c] # Idle /\ ~Found(c)
  BY NoObjectType, FoundStep
<1> QED
  BY <1>2, <1>3, <1>4, CallStep

LEMMA RememberedStep ==
    ASSUME TypeOK, Numbered, ReadsHold, RanIsCurrent, RememberedIsReal, [Next]_vars
    PROVE  RememberedIsReal'
<1> SUFFICES ASSUME NEW w \in Workload, obj'[w].note # NoNote
             PROVE  obj'[w].note > 0 /\ obj'[w].note \in ran'[w]
  BY DEF RememberedIsReal
<1>a. ran[w] \subseteq ran'[w]
  BY ObjectStep
<1>1. CASE obj'[w].note = obj[w].note
  BY <1>a, <1>1 DEF RememberedIsReal
<1>2. CASE obj'[w].note # obj[w].note
  <2>1. ASSUME NEW v \in Workload, NEW o \in Object, NEW op \in {"scale", "other"}, Patched(v, o, op)
        PROVE  FALSE
    <3>1. op \in Operations /\ Store(v, o, op) /\ o.note = obj[v].note
      BY <2>1 DEF Patched, Operations
    <3> QED
      BY <1>2, <3>1, StoreStep DEF SameButTemplate
  <2>2. ASSUME NEW d \in Client, NEW o \in Object, NEW op \in Operations, Written(d, o, op)
        PROVE  obj'[w].note > 0 /\ obj'[w].note \in ran'[w]
    <3>1. call[d].w \in Workload /\ Store(call[d].w, o, op)
      BY <2>2 DEF Written, TypeOK, Call
    <3>2. call[d].w = w /\ obj'[w].note = o.note
      BY <1>2, <3>1, StoreStep DEF SameButTemplate
    <3>3. call[d].at \in {"tag", "undoWrite"} /\ o = call[d].obj => o.note = obj[w].note
      BY <2>2, <3>2 DEF Written, ReadsHold, SameButTemplate
    <3>4. call[d].at \in {"applyWrite", "create"} /\ o = call[d].obj => o.note = NoNote
      BY DEF ReadsHold
    <3>5. call[d].at = "stop" /\ o.note = call[d].obj.replicas
      BY <1>2, <2>2, <3>2, <3>3, <3>4 DEF Written
    <3>6. call[d].obj.replicas # 0 /\ call[d].obj.replicas \in ran[w]
      BY <3>2, <3>5 DEF ReadsHold
    <3>7. call[d].obj.replicas \in Nat
      BY DEF TypeOK, Call, Object
    <3>8. call[d].obj.replicas > 0
      BY <3>6, <3>7
    <3> QED
      BY <1>a, <3>2, <3>5, <3>6, <3>8
  <2>3. ASSUME NEW d \in Client, NEW v \in Workload, Delete(d, v)
        PROVE  FALSE
    BY <1>2, <2>3, DeleteStep
  <2>4. ASSUME \/ \E d \in Client, k \in Call : Begun(d, k)
               \/ \E d \in Client : Found(d) \/ Fail(d)
               \/ \E v \in Workload : Observe(v) \/ RunPods(v) \/ Fall(v)
               \/ UNCHANGED vars
        PROVE  UNCHANGED obj
    BY <2>4 DEF Begun, Found, UndoTo, Fail, Observe, RunPods, Fall, vars
  <2> QED
    BY <1>2, <2>1, <2>2, <2>3, <2>4, StepCases
<1> QED
  BY <1>1, <1>2

LEMMA UndoAimsStep ==
    ASSUME TypeOK, TypeOK', Numbered, ReadsHold, RanIsCurrent, UndoAims, [Next]_vars
    PROVE  UndoAims'
<1> SUFFICES ASSUME NEW c \in Client, call'[c].at \in {"undo", "undoWrite"},
                    call'[c].back # NoRevision,
                    call'[c].obj.version = obj'[call'[c].w].version
             PROVE  LET k == call'[c]
                        w == k.w
                        R == revs'[w]
                    IN
                    /\ kind'[w] \in UndoKinds
                    /\ [rev |-> Newest(R), template |-> obj'[w].template] \in R
                    /\ kind'[w] = "Deployment" => obj'[w].rev = Newest(R)
                    /\ \E r \in R : r.rev < Newest(R)
                    /\ k.at = "undo" =>
                          k.to = IF kind'[w] = "Deployment" THEN Newest(R) - 1 ELSE 0
                    /\ k.at = "undoWrite" =>
                          \E r \in R : r.rev = Newest(R) - 1 /\ k.obj.template.spec = r.template.spec
  BY DEF UndoAims, RolledOut
<1> DEFINE w == call'[c].w
<1>a. /\ w \in Workload /\ call'[c].obj.version \in Nat
      /\ obj[w].version \in Nat /\ obj'[w].version \in Nat
  BY DEF TypeOK, Call, Object
<1>b. /\ obj'[w].version >= obj[w].version
      /\ obj'[w].version = obj[w].version => obj'[w] = obj[w]
      /\ kind' = kind
      /\ obj'[w] = obj[w] /\ RolledOut(w) => revs'[w] = revs[w]
  BY <1>a, ObjectStep, RevisionStep
<1>1. CASE call'[c] = call[c]
  <2>1. call[c].obj.version <= obj[w].version
    BY <1>1 DEF ReadsHold
  <2>2. obj'[w] = obj[w] /\ call[c].obj.version = obj[w].version
    BY <1>1, <1>a, <1>b, <2>1
  <2>3. RolledOut(w)
    BY <1>1, <2>2 DEF UndoAims
  <2> QED
    BY <1>1, <1>b, <2>2, <2>3 DEF UndoAims, RolledOut
<1>2. CASE call'[c] = Idle
  BY <1>2, NoObjectType
<1>3. ASSUME NEW k \in Call, Begun(c, k), call'[c] = k
      PROVE  /\ k.at = "undo"
             /\ kind'[w] \in UndoKinds /\ revs'[w] = revs[w] /\ obj'[w] = obj[w]
             /\ RolledOut(w)
             /\ kind'[w] = "Deployment" => obj[w].rev = Newest(revs[w])
             /\ \E r \in revs[w] : r.rev < Newest(revs[w])
             /\ k.to = IF kind'[w] = "Deployment" THEN Newest(revs[w]) - 1 ELSE 0
  <2>1. k.at = "undo" /\ k.back # NoRevision /\ w = k.w
    BY <1>3 DEF Begun
  <2>2. /\ kind[w] \in UndoKinds /\ Settled(w) /\ k.back = Previous(w)
        /\ k.to = IF kind[w] = "Deployment" THEN obj[w].rev - 1 ELSE 0
        /\ UNCHANGED <<kind, obj, revs>>
    BY <1>3, <2>1 DEF Begun
  <2>3. \E r \in revs[w] : r.rev < Newest(revs[w])
    BY <1>a, <2>1, <2>2, PreviousIs
  <2> QED
    BY <2>1, <2>2, <2>3 DEF Settled
<1>4. CASE Found(c)
  <2>1. /\ call[c].at = "undo" /\ call'[c].at = "undoWrite" /\ w = call[c].w
        /\ call'[c].back = call[c].back /\ call'[c].obj.version = call[c].obj.version
        /\ \E r \in revs[w] :
              /\ r.rev = (IF kind[w] = "Deployment" THEN call[c].to ELSE VersionBefore(w, call[c].to))
              /\ call'[c].obj.template.spec = r.template.spec
        /\ UNCHANGED <<kind, obj, revs>>
    BY <1>4, FoundStep
  <2>2. /\ kind[w] \in UndoKinds /\ RolledOut(w)
        /\ kind[w] = "Deployment" => obj[w].rev = Newest(revs[w])
        /\ \E r \in revs[w] : r.rev < Newest(revs[w])
        /\ call[c].to = IF kind[w] = "Deployment" THEN Newest(revs[w]) - 1 ELSE 0
    BY <2>1 DEF UndoAims
  <2>3. Newest(revs[w]) > 1
    <3>1. PICK r \in revs[w] : r.rev < Newest(revs[w])
      BY <2>2
    <3>2. r.rev \in 1 .. Newest(revs[w]) /\ Newest(revs[w]) \in Nat
      BY <1>a DEF Numbered, Numbering
    <3> QED
      BY <3>1, <3>2
  <2>4. (IF kind[w] = "Deployment" THEN call[c].to ELSE VersionBefore(w, call[c].to))
           = Newest(revs[w]) - 1
    BY <2>2, <2>3 DEF VersionBefore
  <2> QED
    BY <2>1, <2>2, <2>4 DEF RolledOut
<1> QED
  BY <1>1, <1>2, <1>3, <1>4, CallStep DEF RolledOut

-----------------------------------------------------------------------------
(* The invariant *)

LEMMA FirstRevisions ==
    ASSUME NEW s \in Template, NEW t \in Template,
           NEW R, \/ R = {}
                  \/ R = {[rev |-> 1, template |-> s]}
                  \/ R = {[rev |-> 1, template |-> s], [rev |-> 2, template |-> t]}
    PROVE  R \subseteq Revision /\ Numbering(R, Newest(R))
<1> DEFINE n == IF R = {} THEN 0 ELSE IF R = {[rev |-> 1, template |-> s]} THEN 1 ELSE 2
<1>1. IsFiniteSet(R)
  <2>1. IsFiniteSet({[rev |-> 1, template |-> s]})
    BY FS_Singleton
  <2>2. IsFiniteSet({[rev |-> 1, template |-> s]} \cup {[rev |-> 2, template |-> t]})
    BY <2>1, FS_AddElement
  <2>3. {[rev |-> 1, template |-> s]} \cup {[rev |-> 2, template |-> t]}
          = {[rev |-> 1, template |-> s], [rev |-> 2, template |-> t]}
    OBVIOUS
  <2>4. IsFiniteSet({[rev |-> 1, template |-> s], [rev |-> 2, template |-> t]})
    BY <2>2, <2>3
  <2> QED
    BY <2>1, <2>4, FS_EmptySet
<1>2. R \subseteq Revision
  BY DEF Revision
<1>3. n \in Nat /\ (\A r \in R : r.rev <= n /\ r.rev \in 1 .. n) /\ (n = 0 \/ \E r \in R : r.rev = n)
  OBVIOUS
<1>4. /\ \A r, q \in R : r.rev = q.rev => r = q
      /\ (\E r \in R : r.rev < n) => \E r \in R : r.rev = n - 1
      /\ R = {} => n = 0
      /\ R = {} \/ \E r \in R : r.rev = n
  OBVIOUS
<1> HIDE DEF n
<1>5. Newest(R) = n
  BY <1>2, <1>3, NewestIs
<1> QED
  BY <1>1, <1>2, <1>3, <1>4, <1>5 DEF Numbering

LEMMA InitInv == Init => IInv
<1> SUFFICES ASSUME Init PROVE IInv
  OBVIOUS
<1> DEFINE T(k) == [spec |-> [image |-> k, pinned |-> FALSE], stamp |-> 0]
<1>1. PICK i \in Image, j \in Image, n \in [Workload -> 1 .. MaxReplicas] :
         /\ revs = [w \in Workload |->
                CASE kind[w] \notin UndoKinds -> {}
                  [] kind[w] \in UndoKinds /\ i = j -> {[rev |-> 1, template |-> T(i)]}
                  [] kind[w] \in UndoKinds /\ i # j ->
                       {[rev |-> 1, template |-> T(i)], [rev |-> 2, template |-> T(j)]}]
         /\ obj = [w \in Workload |->
                [there |-> TRUE, version |-> 1,
                 replicas |-> IF kind[w] \in {"DaemonSet", "CronJob"} THEN 0 ELSE n[w],
                 note |-> NoNote, extra |-> FALSE, paused |-> FALSE, template |-> T(j),
                 rev |-> IF kind[w] = "Deployment" THEN Newest(revs[w]) ELSE 0]]
         /\ status = [w \in Workload |->
                [seen |-> T(j), updated |-> Wanted(w), ready |-> Wanted(w), unavailable |-> 0,
                 desired |-> Wanted(w)]]
  BY DEF Init
<1>2. T(i) \in Template /\ T(j) \in Template
  BY DEF Template, PodSpec
<1> HIDE DEF T
<1>3. \A w \in Workload : revs[w] \subseteq Revision /\ Numbering(revs[w], Newest(revs[w]))
  <2> SUFFICES ASSUME NEW w \in Workload
               PROVE  revs[w] \subseteq Revision /\ Numbering(revs[w], Newest(revs[w]))
    OBVIOUS
  <2>1. \/ revs[w] = {}
        \/ revs[w] = {[rev |-> 1, template |-> T(i)]}
        \/ revs[w] = {[rev |-> 1, template |-> T(i)], [rev |-> 2, template |-> T(j)]}
    BY <1>1
  <2> QED
    BY <1>2, <2>1, FirstRevisions
<1>4. Numbered
  BY <1>3 DEF Numbered
<1>5. \A w \in Workload : n[w] \in Nat /\ Newest(revs[w]) \in Nat
  BY <1>3, BoundsAssumption DEF Numbering
<1>6. obj \in [Workload -> Object]
  BY <1>1, <1>2, <1>5 DEF Object
<1>7. \A w \in Workload : obj[w].note = NoNote /\ obj[w].replicas \in Nat
  BY <1>1, <1>5
<1>8. status \in [Workload -> Status]
  <2>1. \A w \in Workload : Wanted(w) \in Nat
    BY <1>7 DEF Wanted
  <2> QED
    BY <1>1, <1>2, <2>1 DEF Status
<1>9. revs \in [Workload -> SUBSET Revision]
  BY <1>1, <1>3
<1>10. TypeOK
  <2>1. call \in [Client -> Call]
    BY NoObjectType DEF Init
  <2>2. ran \in [Workload -> SUBSET Nat]
    BY <1>7 DEF Init
  <2> QED
    BY <1>6, <1>8, <1>9, <2>1, <2>2 DEF Init, TypeOK
<1>11. RanIsCurrent /\ RememberedIsReal
  BY <1>7 DEF Init, RanIsCurrent, RememberedIsReal
<1>12. \A c \in Client : call[c] = Idle
  BY DEF Init
<1>13. ReadsHold /\ ReadsAreOwn /\ OneCaller /\ UndoAims
  BY <1>12, NoObjectType DEF ReadsHold, ReadsAreOwn, OneCaller, UndoAims
<1> QED
  BY <1>4, <1>10, <1>11, <1>13 DEF IInv

LEMMA InvStep == IInv /\ [Next]_vars => IInv'
<1> SUFFICES ASSUME IInv, [Next]_vars PROVE IInv'
  OBVIOUS
<1> USE DEF IInv
<1>1. TypeOK'
  BY TypeStep
<1>2. Numbered' /\ RanIsCurrent'
  BY RevisionStep, ObjectStep DEF Numbered, RanIsCurrent
<1> QED
  BY <1>1, <1>2, RememberedStep, ReadsHoldStep, ReadsAreOwnStep, OneCallerStep, UndoAimsStep

LEMMA InvAlways == Spec => []IInv
BY InitInv, InvStep, PTL DEF Spec

-----------------------------------------------------------------------------
(* What follows from it *)

LEMMA LatestFollows == IInv => LatestIsCurrent
<1> SUFFICES ASSUME IInv, NEW w \in Workload, kind[w] = "Deployment", Settled(w)
             PROVE  {r.template : r \in LatestReplicaSet(w)} = {obj[w].template}
  BY DEF LatestIsCurrent
<1> DEFINE n == Newest(revs[w])
           new == [rev |-> n, template |-> obj[w].template]
<1>1. new \in revs[w] /\ obj[w].rev = n
  BY DEF Settled, UndoKinds, RolledOut
<1>2. IsFiniteSet(revs[w]) /\ \A r, q \in revs[w] : r.rev = q.rev => r = q
  BY DEF IInv, Numbered, Numbering
<1> HIDE DEF n
<1>3. LatestReplicaSet(w) = {new}
  <2>1. CASE Cardinality(revs[w]) = 1
    <3>1. PICK x : revs[w] = {x}
      BY <1>2, <2>1, FS_Singleton
    <3>2. revs[w] = {new}
      BY <1>1, <3>1
    <3> QED
      BY <2>1, <3>2 DEF LatestReplicaSet
  <2>2. CASE Cardinality(revs[w]) # 1
    <3>1. \A r \in revs[w] : r.rev = n => r = new
      BY <1>1, <1>2
    <3> QED
      BY <1>1, <2>2, <3>1 DEF LatestReplicaSet
  <2> QED
    BY <2>1, <2>2
<1> QED
  BY <1>3

LEMMA PreviousFollows == IInv => UndoFindsPrevious
<1> SUFFICES ASSUME IInv, NEW c \in Client, At(c, "undo"), call[c].back # NoRevision,
                    obj[call[c].w].version = call[c].obj.version
             PROVE  LET w == call[c].w
                        to == IF kind[w] = "Deployment" THEN call[c].to
                              ELSE VersionBefore(w, call[c].to)
                    IN  to < Newest(revs[w]) /\ \E h \in History(w) : h.rev = to
  BY DEF UndoFindsPrevious
<1> DEFINE w == call[c].w
           n == Newest(revs[w])
<1>1. w \in Workload
  BY DEF IInv, TypeOK, Call
<1>2. /\ kind[w] \in UndoKinds
      /\ \E r \in revs[w] : r.rev < n
      /\ call[c].to = IF kind[w] = "Deployment" THEN n - 1 ELSE 0
  BY DEF IInv, UndoAims, At
<1>3. Numbering(revs[w], n)
  BY <1>1 DEF IInv, Numbered
<1>4. n \in Nat /\ n > 1
  <2>1. PICK r \in revs[w] : r.rev < n
    BY <1>2
  <2>2. r.rev \in 1 .. n /\ n \in Nat
    BY <1>3 DEF Numbering
  <2> QED
    BY <2>1, <2>2
<1>5. (IF kind[w] = "Deployment" THEN call[c].to ELSE VersionBefore(w, call[c].to)) = n - 1
  BY <1>2, <1>4 DEF VersionBefore
<1>6. PICK r \in revs[w] : r.rev = n - 1
  BY <1>2, <1>3 DEF Numbering
<1>7. [rev |-> r.rev, image |-> r.template.spec.image] \in History(w)
  BY <1>2 DEF History, ReplicaSetHistory, RevisionHistory, UndoKinds
<1>8. n - 1 < n
  BY <1>4
<1> QED
  BY <1>5, <1>6, <1>7, <1>8

\* Stop never forgets: what it writes down is a count the workload has had,
\* whatever else is done to the workload meanwhile.  At rest the latest
\* ReplicaSet of a deployment is the one that runs, and Undo aims at the
\* revision before.  For any clients, workloads, images and manifests.
THEOREM WorkloadsHold == Spec => []Inv
<1>1. IInv => Inv
  BY LatestFollows, PreviousFollows DEF IInv, Inv
<1> QED
  BY <1>1, InvAlways, PTL

\* A call that changes its object and returns has written it.
LEMMA ReturnWrites ==
    ASSUME IInv, [Next]_vars, NEW c \in Client, call[c].at # "idle", call'[c].at = "idle",
           obj'[call[c].w] # obj[call[c].w]
    PROVE  \E o \in Object, op \in Operations : Written(c, o, op)
<1> USE DEF IInv
<1>1. call'[c] # call[c]
  OBVIOUS
<1>2. ASSUME NEW d \in Client, NEW o \in Object, NEW op \in Operations, Written(d, o, op) PROVE d = c
  BY <1>1, <1>2, CallSet, NoObjectType DEF Written, Return
<1>3. ASSUME \/ \E v \in Workload, o \in Object, op \in {"scale", "other"} : Patched(v, o, op)
             \/ \E d \in Client, v \in Workload : Delete(d, v)
             \/ \E v \in Workload : Observe(v) \/ RunPods(v) \/ Fall(v)
             \/ UNCHANGED vars
      PROVE  UNCHANGED call
  BY <1>3 DEF Patched, Delete, Observe, RunPods, Fall, vars
<1>4. ASSUME \/ \E d \in Client, k \in Call : Begun(d, k)
             \/ \E d \in Client : Found(d) \/ Fail(d)
      PROVE  UNCHANGED obj
  BY <1>4 DEF Begun, Found, UndoTo, Fail
<1> QED
  BY <1>1, <1>2, <1>3, <1>4, StepCases

\* What a write puts there.
LEMMA WriteStep ==
    ASSUME IInv, NEW c \in Client, NEW o \in Object, NEW op \in Operations, Written(c, o, op)
    PROVE  /\ call[c].w \in Workload
           /\ obj'[call[c].w].template = o.template
           /\ SameButTemplate(obj'[call[c].w], o)
BY StoreStep DEF IInv, Written, TypeOK, Call

\* A get-modify-update takes nothing back, Apply replaces only what it has
\* looked at: for any clients, workloads, images and manifests.
THEOREM WritesKeepOthers == Spec => WritesLoseNothing
<1>1. ASSUME IInv, [Next]_vars, NEW c \in Client, call[c].at \in {"tag", "undoWrite"},
             call'[c].at = "idle", obj'[call[c].w] # obj[call[c].w]
      PROVE  SameButTemplate(obj'[call[c].w], obj[call[c].w])
  <2>1. PICK o \in Object, op \in Operations : Written(c, o, op)
    BY <1>1, ReturnWrites
  <2>2. o = call[c].obj /\ call[c].obj.version = obj[call[c].w].version
    BY <1>1, <2>1 DEF Written
  <2>3. SameButTemplate(call[c].obj, obj[call[c].w])
    BY <1>1, <2>2 DEF IInv, ReadsHold
  <2> QED
    BY <1>1, <2>1, <2>2, <2>3, WriteStep DEF SameButTemplate
<1>2. ASSUME IInv, [Next]_vars, NEW c \in Client, call[c].at \in {"applyWrite", "create"},
             call'[c].at = "idle", obj'[call[c].w] # obj[call[c].w]
      PROVE  IF call[c].at = "create" THEN ~obj[call[c].w].there
             ELSE obj[call[c].w].there /\ obj[call[c].w].version = call[c].obj.version
  <2>1. PICK o \in Object, op \in Operations : Written(c, o, op)
    BY <1>2, ReturnWrites
  <2> QED
    BY <1>2, <2>1 DEF Written
<1> DEFINE UpdateStep ==
              \A c \in Client :
                 LET w == call[c].w IN
                 call[c].at \in {"tag", "undoWrite"} /\ call'[c].at = "idle" /\ obj'[w] # obj[w] =>
                    /\ obj'[w].replicas = obj[w].replicas
                    /\ obj'[w].note = obj[w].note
                    /\ obj'[w].paused = obj[w].paused
                    /\ obj'[w].extra = obj[w].extra
           ApplyStep ==
              \A c \in Client :
                 LET w == call[c].w IN
                 call[c].at \in {"applyWrite", "create"} /\ call'[c].at = "idle" /\ obj'[w] # obj[w] =>
                    IF call[c].at = "create" THEN ~obj[w].there
                    ELSE obj[w].there /\ obj[w].version = call[c].obj.version
<1>3. IInv /\ [Next]_vars => [UpdateStep]_vars
  BY <1>1 DEF SameButTemplate
<1>4. IInv /\ [Next]_vars => [ApplyStep]_vars
  BY <1>2
<1> QED
  BY <1>3, <1>4, InvAlways, PTL
     DEF Spec, WritesLoseNothing, UpdateLosesNothing, ApplyReplacesWhatItRead

\* Undo of a workload that was at rest goes back one revision or changes
\* nothing, for any clients, workloads and images.
THEOREM UndoIsOneBack == Spec => UndoGoesBackOne
<1>1. ASSUME IInv, [Next]_vars, NEW c \in Client, call[c].at = "undoWrite",
             call'[c].at = "idle", obj'[call[c].w] # obj[call[c].w], call[c].back # NoRevision
      PROVE  obj'[call[c].w].template.spec = Previous(call[c].w).template.spec
  <2> DEFINE w == call[c].w
  <2>1. PICK o \in Object, op \in Operations : Written(c, o, op)
    BY <1>1, ReturnWrites
  <2>2. o = call[c].obj /\ call[c].obj.version = obj[w].version
    BY <1>1, <2>1 DEF Written
  <2>3. obj'[w].template.spec = call[c].obj.template.spec /\ w \in Workload
    BY <1>1, <2>1, <2>2, WriteStep
  <2>4. /\ \E r \in revs[w] : r.rev < Newest(revs[w])
        /\ \E r \in revs[w] :
              r.rev = Newest(revs[w]) - 1 /\ call[c].obj.template.spec = r.template.spec
    BY <1>1, <2>2 DEF IInv, UndoAims
  <2>5. Previous(w) \in revs[w] /\ Previous(w).rev = Newest(revs[w]) - 1
    BY <1>1, <2>3, <2>4, PreviousIs DEF IInv
  <2>6. \A r, q \in revs[w] : r.rev = q.rev => r = q
    BY <1>1, <2>3 DEF IInv, Numbered, Numbering
  <2> QED
    BY <2>3, <2>4, <2>5, <2>6
<1> DEFINE UndoStep ==
              \A c \in Client :
                 LET w == call[c].w IN
                 /\ call[c].at = "undoWrite" /\ call'[c].at = "idle" /\ obj'[w] # obj[w]
                 /\ call[c].back # NoRevision
                 => obj'[w].template.spec = Previous(w).template.spec
<1>2. IInv /\ [Next]_vars => [UndoStep]_vars
  BY <1>1
<1> QED
  BY <1>2, InvAlways, PTL DEF Spec, UndoGoesBackOne

-----------------------------------------------------------------------------
(* Workloads implements ReplicaMemory *)

Running == [w \in Workload |-> IF w \in exclusive THEN obj[w].replicas ELSE 0]
Remembered == [w \in Workload |-> IF w \in exclusive THEN obj[w].note ELSE NoNote]

\* A step that changes one workload, as ReplicaMemory sees it.
LEMMA MappedStep ==
    ASSUME TypeOK, TypeOK', NEW w \in Workload, NEW op, exclusive' = exclusive,
           \A v \in Workload : v # w => obj'[v] = obj[v] /\ last'[v] = last[v],
           last'[w] = IF w \in exclusive THEN op ELSE last[w]
    PROVE  /\ w \notin exclusive => UNCHANGED <<Running, Remembered, last>>
           /\ w \in exclusive =>
                 /\ Running' = [Running EXCEPT ![w] = obj'[w].replicas]
                 /\ Remembered' = [Remembered EXCEPT ![w] = obj'[w].note]
                 /\ last' = [last EXCEPT ![w] = op]
                 /\ Running'[w] = obj'[w].replicas /\ obj'[w].replicas \in Nat
                 /\ Running[w] = obj[w].replicas /\ Remembered[w] = obj[w].note
           /\ obj'[w].replicas = obj[w].replicas => Running' = Running
           /\ obj'[w].note = obj[w].note => Remembered' = Remembered
<1>1. CASE w \notin exclusive
  <2>1. last' = last
    BY <1>1 DEF TypeOK
  <2> QED
    BY <1>1, <2>1 DEF Running, Remembered
<1>2. CASE w \in exclusive
  <2>1. last' = [last EXCEPT ![w] = op]
    BY <1>2 DEF TypeOK
  <2>2. Running' = [Running EXCEPT ![w] = obj'[w].replicas]
    BY <1>2 DEF Running
  <2>3. Remembered' = [Remembered EXCEPT ![w] = obj'[w].note]
    BY <1>2 DEF Remembered
  <2>4. obj'[w].replicas \in Nat
    BY DEF TypeOK, Object
  <2>5. Running[w] = obj[w].replicas /\ Remembered[w] = obj[w].note
    BY <1>2 DEF Running, Remembered
  <2>6. obj'[w].replicas = obj[w].replicas => Running' = Running
    BY DEF Running
  <2>7. obj'[w].note = obj[w].note => Remembered' = Remembered
    BY DEF Remembered
  <2>8. Running'[w] = obj'[w].replicas
    BY <2>2 DEF Running
  <2> QED
    BY <1>2, <2>1, <2>2, <2>3, <2>4, <2>5, <2>6, <2>7, <2>8
<1> QED
  BY <1>1, <1>2

LEMMA MappedInit == Init => Memory!Init
<1> SUFFICES ASSUME Init PROVE Memory!Init
  OBVIOUS
<1>1. TypeOK
  BY InitInv DEF IInv
<1>2. \A w \in Workload : obj[w].replicas \in Nat /\ obj[w].note = NoNote
  BY <1>1 DEF Init, TypeOK, Object
<1>3. last = [w \in Workload |-> "none"]
  BY DEF Init
<1> QED
  BY <1>2, <1>3 DEF Memory!Init

LEMMA MappedNext ==
    ASSUME IInv, IInv', [Next]_vars
    PROVE  Memory!Next \/ UNCHANGED Memory!vars
<1> USE DEF IInv
<1>a. UNCHANGED <<Running, Remembered, last>> => UNCHANGED Memory!vars
  BY DEF Memory!vars, Running, Remembered
<1>1. ASSUME NEW w \in Workload, NEW o \in Object, NEW op \in {"scale", "other"}, Patched(w, o, op)
      PROVE  Memory!Next \/ UNCHANGED Memory!vars
  <2>1. op \in Operations /\ Store(w, o, op) /\ exclusive' = exclusive
    BY <1>1 DEF Patched, Operations
  <2>2. /\ \A v \in Workload : v # w => obj'[v] = obj[v] /\ last'[v] = last[v]
        /\ last'[w] = IF w \in exclusive THEN op ELSE last[w]
        /\ obj'[w].note = obj[w].note
        /\ op = "other" => obj'[w].replicas = obj[w].replicas
    BY <1>1, <2>1, StoreStep DEF Patched, SameButTemplate
  <2>3. CASE w \notin exclusive
    BY <1>a, <2>1, <2>2, <2>3, MappedStep
  <2>4. CASE w \in exclusive /\ op = "scale"
    <3>1. /\ Running' = [Running EXCEPT ![w] = Running'[w]] /\ Running'[w] \in Nat
          /\ Remembered' = Remembered /\ last' = [last EXCEPT ![w] = "scale"]
      BY <2>1, <2>2, <2>4, MappedStep
    <3>2. Memory!Scale(w)
      BY <3>1 DEF Memory!Scale, Memory!Ask, Running, Remembered
    <3> QED
      BY <3>2 DEF Memory!Next
  <2>5. CASE w \in exclusive /\ op = "other"
    <3>1. Running' = Running /\ Remembered' = Remembered /\ last' = [last EXCEPT ![w] = "other"]
      BY <2>1, <2>2, <2>5, MappedStep
    <3>2. Memory!Other(w)
      BY <3>1 DEF Memory!Other, Running, Remembered
    <3> QED
      BY <3>2 DEF Memory!Next
  <2> QED
    BY <2>3, <2>4, <2>5
<1>2. ASSUME NEW c \in Client, NEW o \in Object, NEW op \in Operations, Written(c, o, op)
      PROVE  Memory!Next \/ UNCHANGED Memory!vars
  <2>0. call[c].w \in Workload
    BY DEF TypeOK, Call
  <2>w. PICK w \in Workload : w = call[c].w
    BY <2>0
  <2>1. Store(w, o, op) /\ exclusive' = exclusive
    BY <1>2, <2>w DEF Written
  <2>2. /\ \A v \in Workload : v # w => obj'[v] = obj[v] /\ last'[v] = last[v]
        /\ last'[w] = IF w \in exclusive THEN op ELSE last[w]
        /\ obj'[w].note = o.note /\ obj'[w].replicas = o.replicas
    BY <2>1, StoreStep DEF SameButTemplate
  <2>3. CASE w \notin exclusive
    BY <1>a, <2>1, <2>2, <2>3, MappedStep
  <2>4. CASE w \in exclusive
    <3>1. /\ Running' = [Running EXCEPT ![w] = o.replicas]
          /\ Remembered' = [Remembered EXCEPT ![w] = o.note]
          /\ last' = [last EXCEPT ![w] = op]
          /\ Running' = [Running EXCEPT ![w] = Running'[w]] /\ Running'[w] \in Nat
          /\ Running[w] = obj[w].replicas /\ Remembered[w] = obj[w].note
      BY <2>1, <2>2, <2>4, MappedStep
    <3>0. obj[w].replicas \in Nat
      BY DEF TypeOK, Object
    <3>2. call[c].at \in {"stop", "restore"} =>
             obj[w].replicas = call[c].obj.replicas /\ obj[w].note = call[c].obj.note
      BY <2>4, <2>w DEF ReadsAreOwn
    <3>3. CASE op = "stop"
      <4>1. o.replicas = 0 /\ o.note = obj[w].replicas /\ obj[w].replicas # 0
        BY <1>2, <2>w, <3>2, <3>3 DEF Written, ReadsHold
      <4>2. /\ Running[w] > 0 /\ Running' = [Running EXCEPT ![w] = 0]
            /\ Remembered' = [Remembered EXCEPT ![w] = Running[w]]
            /\ last' = [last EXCEPT ![w] = "stop"]
        BY <3>0, <3>1, <3>3, <4>1
      <4>3. Memory!Stop(w)
        BY <4>2 DEF Memory!Stop, Running, Remembered
      <4> QED
        BY <4>3 DEF Memory!Next
    <3>4. CASE op = "restore"
      <4>1. o.note = NoNote /\ o.replicas = IF obj[w].note = NoNote THEN 1 ELSE obj[w].note
        BY <1>2, <3>2, <3>4 DEF Written
      <4>2. /\ Running' = [Running EXCEPT ![w] =
                              IF Remembered[w] = NoNote THEN 1 ELSE Remembered[w]]
            /\ Remembered' = [Remembered EXCEPT ![w] = NoNote]
            /\ last' = [last EXCEPT ![w] = "restore"]
        BY <3>1, <3>4, <4>1
      <4>3. Memory!Restore(w)
        BY <4>2 DEF Memory!Restore, Running, Remembered
      <4> QED
        BY <4>3 DEF Memory!Next
    <3>5. CASE op = "replace"
      <4>1. o.note = NoNote
        BY <1>2, <3>5 DEF Written, ReadsHold
      <4>2. Memory!Replace(w)
        BY <3>1, <3>5, <4>1 DEF Memory!Replace, Memory!Ask, Running, Remembered
      <4> QED
        BY <4>2 DEF Memory!Next
    <3>6. CASE op = "other"
      <4>1. SameButTemplate(o, obj[w])
        BY <1>2, <2>w, <3>6 DEF Written, ReadsHold
      <4>2. Running' = Running /\ Remembered' = Remembered
        BY <2>1, <2>2, <4>1, MappedStep DEF SameButTemplate
      <4>3. Memory!Other(w)
        BY <3>1, <3>6, <4>2 DEF Memory!Other, Running, Remembered
      <4> QED
        BY <4>3 DEF Memory!Next
    <3>7. op \in {"stop", "restore", "replace", "other"}
      BY <1>2 DEF Written
    <3> QED
      BY <3>3, <3>4, <3>5, <3>6, <3>7
  <2> QED
    BY <2>3, <2>4
<1>3. ASSUME NEW c \in Client, NEW w \in Workload, Delete(c, w)
      PROVE  Memory!Next \/ UNCHANGED Memory!vars
  <2>1. /\ \A v \in Workload : v # w => obj'[v] = obj[v] /\ last'[v] = last[v]
        /\ last'[w] = IF w \in exclusive THEN "replace" ELSE last[w]
        /\ obj'[w].note = NoNote /\ exclusive' = exclusive
    BY <1>3, DeleteStep
  <2>2. CASE w \notin exclusive
    BY <1>a, <2>1, <2>2, MappedStep
  <2>3. CASE w \in exclusive
    <3>1. /\ Running' = [Running EXCEPT ![w] = Running'[w]] /\ Running'[w] \in Nat
          /\ Remembered' = [Remembered EXCEPT ![w] = NoNote]
          /\ last' = [last EXCEPT ![w] = "replace"]
      BY <2>1, <2>3, MappedStep
    <3>2. Memory!Replace(w)
      BY <3>1 DEF Memory!Replace, Memory!Ask, Running, Remembered
    <3> QED
      BY <3>2 DEF Memory!Next
  <2> QED
    BY <2>2, <2>3
<1>4. ASSUME \/ \E c \in Client, k \in Call : Begun(c, k)
             \/ \E c \in Client : Found(c) \/ Fail(c)
             \/ \E v \in Workload : Observe(v) \/ RunPods(v) \/ Fall(v)
             \/ UNCHANGED vars
      PROVE  UNCHANGED Memory!vars
  <2>1. UNCHANGED <<exclusive, obj, last>>
    BY <1>4 DEF Begun, Found, UndoTo, Fail, Observe, RunPods, Fall, vars, history
  <2> QED
    BY <1>a, <2>1 DEF Running, Remembered
<1> QED
  BY <1>1, <1>2, <1>3, <1>4, StepCases

\* For a workload that one client at a time works on, Stop and Restore with
\* their two requests each do what the single steps of ReplicaMemory do,
\* whatever the other workloads and the controllers do between the two.
THEOREM StopAndRestoreRefine == Spec => StopAndRestoreAreAtomic
<1>1. IInv /\ [Next]_vars => [Memory!Next]_(Memory!vars)
  BY InvStep, MappedNext
<1> QED
  BY MappedInit, <1>1, InvAlways, PTL DEF Spec, StopAndRestoreAreAtomic, Memory!Spec

-----------------------------------------------------------------------------
(* NodeOps, for any number of goroutines, pods and taints: what a drain     *)
(* leaves and what it spares, that a drained node stays cordoned, and that  *)
(* taints change for a reason.                                              *)

DrainSteps ==
    {"idle", "cordon", "list", "evict", "poll", "evictAgain", "ok", "err"}

\* A call keeps to the steps of its operation.
OwnSteps ==
    \A c \in Ops :
        /\ req[c].op = "drain" => pc[c] \in DrainSteps
        /\ pc[c] \in {"get", "patch"} => IsTaintOp(c)

\* What a drain is about to evict is not to be ignored.
LeftInv == \A c \in Ops : \A p \in left[c] : ~Ignored(p)

\* A pod that drain c should evict, and that was there when it last looked.
Remains(c, p) ==
    /\ p \notin arrived[c]
    /\ pod[p] = "running" /\ spec[p].ns = "default" /\ ~Ignored(p)

\* While a drain evicts, what remains is what it has left to do; afterwards
\* nothing remains.
RemainsInv ==
    \A c \in Ops : \A p \in Pods :
        /\ req[c].op = "drain"
        /\ pc[c] \in {"evict", "evictAgain", "poll", "ok"}
        /\ Remains(c, p)
        => pc[c] \in {"evict", "evictAgain"} /\ p \in left[c]

\* Between its read and its write, a taint call that has met no other one is
\* the only one, and what it has read is what the node has.
AloneInv ==
    \A c \in Ops \ met :
        pc[c] \in {"get", "patch"} =>
            /\ \A d \in Ops \ {c} : pc[d] \notin {"get", "patch"}
            /\ pc[c] = "patch" => seen[c] = taints

NodesInv ==
    /\ NodeTypeOK /\ OwnSteps /\ LeftInv /\ RemainsInv
    /\ DrainedStaysCordoned /\ AloneInv

\* Every disjunct of NodeNext, for case distinctions.
LEMMA NodeStepCases ==
    ASSUME [NodeNext]_nodeVars
    PROVE  \/ UNCHANGED nodeVars
           \/ \E p \in Pods : Schedule(p) \/ Bind(p) \/ DeletePod(p) \/ Vanish(p)
           \/ \E c \in Ops : BecomeReady(c)
           \/ \E c \in Ops : Begin(c) \/ Cordon(c)
           \/ \E c \in Ops : GetTaints(c) \/ PatchTaints(c)
           \/ \E c \in Ops : ListPods(c) \/ Evict(c)
           \/ \E c \in Ops : ApplyShell(c) \/ SeeReady(c) \/ TimeOut(c)
  BY DEF NodeNext, Cluster, Run, CreateNodeShell, CreateKubectlShell

\* Calls are what CallsAssumption says of them.
LEMMA NodeRequests ==
    ASSUME NodeTypeOK, NEW c \in Ops
    PROVE  /\ req[c] \in Request
           /\ req[c].op = "taint" => req[c].taint \in Taints
           /\ req[c].op \in {"cordon", "uncordon", "drain", "nodeShell",
                             "kubectlShell", "taint", "untaint"}
<1>1. req[c] \in Request
  BY CallsAssumption DEF NodeTypeOK
<1> QED
  BY <1>1 DEF Request

\* Every step keeps the state well typed.
LEMMA NodeTypesStep ==
    ASSUME NodeTypeOK, [NodeNext]_nodeVars
    PROVE  NodeTypeOK'
<1> USE DEF NodeTypeOK, Goto, node, NodeSteps, PodStates
<1>1. CASE UNCHANGED nodeVars
  BY <1>1 DEF nodeVars
<1>2. ASSUME NEW p \in Pods, Schedule(p) \/ Bind(p) \/ DeletePod(p) \/ Vanish(p)
      PROVE  NodeTypeOK'
  BY <1>2 DEF Schedule, Bind, DeletePod, Vanish
<1>3. ASSUME NEW c \in Ops, BecomeReady(c)
      PROVE  NodeTypeOK'
  BY <1>3 DEF BecomeReady
<1>4. ASSUME NEW c \in Ops, Begin(c)
      PROVE  NodeTypeOK'
  <2>1. pc' \in [Ops -> NodeSteps]
    BY <1>4, NodeRequests DEF Begin, IsTaintOp
  <2>2. met' \in SUBSET Ops
    BY <1>4 DEF Begin
  <2> QED
    BY <1>4, <2>1, <2>2 DEF Begin
<1>5. ASSUME NEW c \in Ops, Cordon(c)
      PROVE  NodeTypeOK'
  BY <1>5 DEF Cordon
<1>6. ASSUME NEW c \in Ops, GetTaints(c)
      PROVE  NodeTypeOK'
  BY <1>6 DEF GetTaints
<1>7. ASSUME NEW c \in Ops, PatchTaints(c)
      PROVE  NodeTypeOK'
  <2>1. NewTaints(c) \subseteq Taints
    BY NodeRequests DEF NewTaints
  <2> QED
    BY <1>7, <2>1 DEF PatchTaints
<1>8. ASSUME NEW c \in Ops, ListPods(c)
      PROVE  NodeTypeOK'
  BY <1>8 DEF ListPods, Listed
<1>9. ASSUME NEW c \in Ops, Evict(c)
      PROVE  NodeTypeOK'
  BY <1>9 DEF Evict
<1>10. ASSUME NEW c \in Ops, ApplyShell(c) \/ SeeReady(c) \/ TimeOut(c)
       PROVE  NodeTypeOK'
  BY <1>10 DEF ApplyShell, SeeReady, TimeOut
<1> QED
  BY <1>1, <1>2, <1>3, <1>4, <1>5, <1>6, <1>7, <1>8, <1>9, <1>10, NodeStepCases

\* Calls go from one step of their operation to the next.
LEMMA OwnStepsStep ==
    ASSUME NodeTypeOK, OwnSteps, [NodeNext]_nodeVars
    PROVE  OwnSteps'
<1> USE DEF NodeTypeOK, OwnSteps, Goto, IsTaintOp, DrainSteps
<1>1. CASE UNCHANGED nodeVars
  BY <1>1 DEF nodeVars
<1>2. ASSUME NEW p \in Pods, Schedule(p) \/ Bind(p) \/ DeletePod(p) \/ Vanish(p)
      PROVE  OwnSteps'
  BY <1>2 DEF Schedule, Bind, DeletePod, Vanish
<1>3. ASSUME NEW c \in Ops, BecomeReady(c)
      PROVE  OwnSteps'
  BY <1>3 DEF BecomeReady
<1>4. ASSUME NEW c \in Ops, Begin(c)
      PROVE  OwnSteps'
  BY <1>4, NodeRequests DEF Begin
<1>5. ASSUME NEW c \in Ops, Cordon(c)
      PROVE  OwnSteps'
  BY <1>5, NodeRequests DEF Cordon
<1>6. ASSUME NEW c \in Ops, GetTaints(c)
      PROVE  OwnSteps'
  BY <1>6 DEF GetTaints
<1>7. ASSUME NEW c \in Ops, PatchTaints(c)
      PROVE  OwnSteps'
  BY <1>7 DEF PatchTaints
<1>8. ASSUME NEW c \in Ops, ListPods(c)
      PROVE  OwnSteps'
  BY <1>8 DEF ListPods
<1>9. ASSUME NEW c \in Ops, Evict(c)
      PROVE  OwnSteps'
  BY <1>9 DEF Evict
<1>10. ASSUME NEW c \in Ops, ApplyShell(c) \/ SeeReady(c) \/ TimeOut(c)
       PROVE  OwnSteps'
  BY <1>10 DEF ApplyShell, SeeReady, TimeOut
<1> QED
  BY <1>1, <1>2, <1>3, <1>4, <1>5, <1>6, <1>7, <1>8, <1>9, <1>10, NodeStepCases

\* Both lists of a drain skip the ignored pods, and nothing is added later.
LEMMA LeftStep ==
    ASSUME NodeTypeOK, LeftInv, [NodeNext]_nodeVars
    PROVE  LeftInv'
<1> USE DEF NodeTypeOK, LeftInv, Ignored
<1>1. CASE UNCHANGED nodeVars
  BY <1>1 DEF nodeVars
<1>2. ASSUME NEW p \in Pods, Schedule(p) \/ Bind(p) \/ DeletePod(p) \/ Vanish(p)
      PROVE  LeftInv'
  BY <1>2 DEF Schedule, Bind, DeletePod, Vanish
<1>3. ASSUME NEW c \in Ops, BecomeReady(c)
      PROVE  LeftInv'
  BY <1>3 DEF BecomeReady
<1>4. ASSUME NEW c \in Ops, Begin(c)
      PROVE  LeftInv'
  BY <1>4 DEF Begin
<1>5. ASSUME NEW c \in Ops, Cordon(c)
      PROVE  LeftInv'
  BY <1>5 DEF Cordon
<1>6. ASSUME NEW c \in Ops, GetTaints(c)
      PROVE  LeftInv'
  BY <1>6 DEF GetTaints
<1>7. ASSUME NEW c \in Ops, PatchTaints(c)
      PROVE  LeftInv'
  BY <1>7 DEF PatchTaints
<1>8. ASSUME NEW c \in Ops, ListPods(c)
      PROVE  LeftInv'
  BY <1>8 DEF ListPods
<1>9. ASSUME NEW c \in Ops, Evict(c)
      PROVE  LeftInv'
  BY <1>9 DEF Evict
<1>10. ASSUME NEW c \in Ops, ApplyShell(c) \/ SeeReady(c) \/ TimeOut(c)
       PROVE  LeftInv'
  BY <1>10 DEF ApplyShell, SeeReady, TimeOut
<1> QED
  BY <1>1, <1>2, <1>3, <1>4, <1>5, <1>6, <1>7, <1>8, <1>9, <1>10, NodeStepCases

\* Only a call that has begun sets the field to what it is not.
LEMMA CordonedStep ==
    ASSUME NodeTypeOK, OwnSteps, DrainedStaysCordoned, [NodeNext]_nodeVars
    PROVE  DrainedStaysCordoned'
<1> USE DEF NodeTypeOK, OwnSteps, DrainedStaysCordoned, Goto, IsTaintOp, DrainSteps,
        node
<1>1. CASE UNCHANGED nodeVars
  BY <1>1 DEF nodeVars
<1>2. ASSUME NEW p \in Pods, Schedule(p) \/ Bind(p) \/ DeletePod(p) \/ Vanish(p)
      PROVE  DrainedStaysCordoned'
  BY <1>2 DEF Schedule, Bind, DeletePod, Vanish
<1>3. ASSUME NEW c \in Ops, BecomeReady(c)
      PROVE  DrainedStaysCordoned'
  BY <1>3 DEF BecomeReady
<1>4. ASSUME NEW c \in Ops, Begin(c)
      PROVE  DrainedStaysCordoned'
  BY <1>4, NodeRequests DEF Begin
<1>5. ASSUME NEW c \in Ops, Cordon(c)
      PROVE  DrainedStaysCordoned'
  <2>1. \A d \in Ops \ {c} : pc'[d] = pc[d]
    BY <1>5 DEF Cordon
  <2>2. pc[c] = "cordon" /\ pc'[c] \in {"list", "ok", "err"}
    BY <1>5 DEF Cordon
  <2>3. req' = req
    BY <1>5 DEF Cordon
  <2>4. CASE req[c].op = "uncordon"
    BY <2>2, <2>3, <2>4
  <2>5. CASE req[c].op # "uncordon"
    <3>1. unschedulable' \in {unschedulable, TRUE}
      BY <1>5, <2>5 DEF Cordon
    <3>2. pc'[c] # "err" => unschedulable'
      BY <1>5, <2>5 DEF Cordon
    <3> QED
      BY <2>1, <2>2, <2>3, <3>1, <3>2
  <2> QED
    BY <2>4, <2>5
<1>6. ASSUME NEW c \in Ops, GetTaints(c)
      PROVE  DrainedStaysCordoned'
  BY <1>6 DEF GetTaints
<1>7. ASSUME NEW c \in Ops, PatchTaints(c)
      PROVE  DrainedStaysCordoned'
  BY <1>7 DEF PatchTaints
<1>8. ASSUME NEW c \in Ops, ListPods(c)
      PROVE  DrainedStaysCordoned'
  BY <1>8 DEF ListPods
<1>9. ASSUME NEW c \in Ops, Evict(c)
      PROVE  DrainedStaysCordoned'
  BY <1>9 DEF Evict
<1>10. ASSUME NEW c \in Ops, ApplyShell(c) \/ SeeReady(c) \/ TimeOut(c)
       PROVE  DrainedStaysCordoned'
  BY <1>10 DEF ApplyShell, SeeReady, TimeOut
<1> QED
  BY <1>1, <1>2, <1>3, <1>4, <1>5, <1>6, <1>7, <1>8, <1>9, <1>10, NodeStepCases

\* A pod that comes is a newcomer; one that is listed is evicted.
LEMMA RemainsStep ==
    ASSUME NodeTypeOK, OwnSteps, RemainsInv, [NodeNext]_nodeVars
    PROVE  RemainsInv'
<1> USE DEF NodeTypeOK, OwnSteps, RemainsInv, Remains, Ignored, Goto, IsTaintOp,
        DrainSteps, HasListed
<1>1. CASE UNCHANGED nodeVars
  BY <1>1 DEF nodeVars
<1>2. ASSUME NEW p \in Pods, Schedule(p) \/ Bind(p) \/ DeletePod(p) \/ Vanish(p)
      PROVE  RemainsInv'
  BY <1>2 DEF Schedule, Bind, DeletePod, Vanish
<1>3. ASSUME NEW c \in Ops, BecomeReady(c)
      PROVE  RemainsInv'
  BY <1>3 DEF BecomeReady
<1>4. ASSUME NEW c \in Ops, Begin(c)
      PROVE  RemainsInv'
  BY <1>4, NodeRequests DEF Begin
<1>5. ASSUME NEW c \in Ops, Cordon(c)
      PROVE  RemainsInv'
  BY <1>5, NodeRequests DEF Cordon
<1>6. ASSUME NEW c \in Ops, GetTaints(c)
      PROVE  RemainsInv'
  BY <1>6 DEF GetTaints
<1>7. ASSUME NEW c \in Ops, PatchTaints(c)
      PROVE  RemainsInv'
  BY <1>7 DEF PatchTaints
<1>8. ASSUME NEW c \in Ops, ListPods(c)
      PROVE  RemainsInv'
  BY <1>8 DEF ListPods, Listed, OnNode
<1>9. ASSUME NEW c \in Ops, Evict(c)
      PROVE  RemainsInv'
  BY <1>9 DEF Evict
<1>10. ASSUME NEW c \in Ops, ApplyShell(c) \/ SeeReady(c) \/ TimeOut(c)
       PROVE  RemainsInv'
  BY <1>10 DEF ApplyShell, SeeReady, TimeOut
<1> QED
  BY <1>1, <1>2, <1>3, <1>4, <1>5, <1>6, <1>7, <1>8, <1>9, <1>10, NodeStepCases

\* Whoever begins while c is between read and write meets c.
LEMMA AloneStep ==
    ASSUME NodeTypeOK, OwnSteps, AloneInv, [NodeNext]_nodeVars
    PROVE  AloneInv'
<1> USE DEF NodeTypeOK, OwnSteps, AloneInv, Goto, IsTaintOp, node
<1>1. CASE UNCHANGED nodeVars
  BY <1>1 DEF nodeVars
<1>2. ASSUME NEW p \in Pods, Schedule(p) \/ Bind(p) \/ DeletePod(p) \/ Vanish(p)
      PROVE  AloneInv'
  BY <1>2 DEF Schedule, Bind, DeletePod, Vanish
<1>3. ASSUME NEW c \in Ops, BecomeReady(c)
      PROVE  AloneInv'
  BY <1>3 DEF BecomeReady
<1>4. ASSUME NEW c \in Ops, Begin(c)
      PROVE  AloneInv'
  BY <1>4, NodeRequests DEF Begin
<1>5. ASSUME NEW c \in Ops, Cordon(c)
      PROVE  AloneInv'
  BY <1>5 DEF Cordon
<1>6. ASSUME NEW c \in Ops, GetTaints(c)
      PROVE  AloneInv'
  BY <1>6 DEF GetTaints
<1>7. ASSUME NEW c \in Ops, PatchTaints(c)
      PROVE  AloneInv'
  BY <1>7 DEF PatchTaints
<1>8. ASSUME NEW c \in Ops, ListPods(c)
      PROVE  AloneInv'
  BY <1>8 DEF ListPods
<1>9. ASSUME NEW c \in Ops, Evict(c)
      PROVE  AloneInv'
  BY <1>9 DEF Evict
<1>10. ASSUME NEW c \in Ops, ApplyShell(c) \/ SeeReady(c) \/ TimeOut(c)
       PROVE  AloneInv'
  BY <1>10 DEF ApplyShell, SeeReady, TimeOut
<1> QED
  BY <1>1, <1>2, <1>3, <1>4, <1>5, <1>6, <1>7, <1>8, <1>9, <1>10, NodeStepCases

\* The inductive invariant holds initially.
LEMMA NodesInvInit == NodeInit => NodesInv
<1> SUFFICES ASSUME NodeInit PROVE NodesInv
  OBVIOUS
<1>1. NodeTypeOK
  BY DEF NodeInit, NodeTypeOK, NodeSteps, PodStates
<1>2. OwnSteps /\ LeftInv /\ RemainsInv /\ DrainedStaysCordoned /\ AloneInv
  BY DEF NodeInit, OwnSteps, DrainSteps, LeftInv, RemainsInv, DrainedStaysCordoned,
         AloneInv
<1> QED
  BY <1>1, <1>2 DEF NodesInv

\* Every step preserves the inductive invariant.
LEMMA NodesInvStep == NodesInv /\ [NodeNext]_nodeVars => NodesInv'
<1> SUFFICES ASSUME NodesInv, [NodeNext]_nodeVars PROVE NodesInv'
  OBVIOUS
<1>1. /\ NodeTypeOK /\ OwnSteps /\ LeftInv /\ RemainsInv
      /\ DrainedStaysCordoned /\ AloneInv
  BY DEF NodesInv
<1>2. NodeTypeOK' /\ OwnSteps' /\ LeftInv'
  BY <1>1, NodeTypesStep, OwnStepsStep, LeftStep
<1>3. RemainsInv' /\ DrainedStaysCordoned' /\ AloneInv'
  BY <1>1, RemainsStep, CordonedStep, AloneStep
<1> QED
  BY <1>2, <1>3 DEF NodesInv

\* The inductive invariant holds in every reachable state.
LEMMA NodesInvAlways == NodeSpec => []NodesInv
  BY NodesInvInit, NodesInvStep, PTL DEF NodeSpec

\* Every reachable state is well typed, for any calls, pods and taints.
THEOREM NodesTypeCorrect == NodeSpec => []NodeTypeOK
<1>1. NodesInv => NodeTypeOK
  BY DEF NodesInv
<1> QED
  BY <1>1, NodesInvAlways, PTL

\* However many drains, schedulers and other users there are, a drain that
\* returned leaves no pod of the default namespace that it ought to have
\* evicted and that was there at its last look.
THEOREM DrainLeavesNewcomers == NodeSpec => []DrainLeavesOnlyNewcomers
<1>1. NodesInv => DrainLeavesOnlyNewcomers
  BY DEF NodesInv, RemainsInv, Remains, DrainLeavesOnlyNewcomers
<1> QED
  BY <1>1, NodesInvAlways, PTL

\* A drain that has cordoned the node keeps it cordoned as long as nobody asks
\* for the contrary, whatever else is going on.
THEOREM DrainedIsCordoned == NodeSpec => []DrainedStaysCordoned
<1>1. NodesInv => DrainedStaysCordoned
  BY DEF NodesInv
<1> QED
  BY <1>1, NodesInvAlways, PTL

\* Together: what is left behind the closed door came after the last look.
THEOREM DrainsKeepTheirWord == NodeSpec => []DrainKeepsItsWord
BY DrainLeavesNewcomers, DrainedIsCordoned, PTL DEF DrainKeepsItsWord

\* No step of a call changes a pod of a DaemonSet or a mirror pod.
LEMMA SparesStep ==
    ASSUME NodeTypeOK, LeftInv, [NodeNext]_nodeVars, pc' # pc \/ left' # left,
           NEW q \in Pods, Ignored(q)
    PROVE  pod'[q] = pod[q]
<1> USE DEF NodeTypeOK, LeftInv
<1>1. CASE UNCHANGED nodeVars
  BY <1>1 DEF nodeVars
<1>2. ASSUME NEW p \in Pods, Schedule(p) \/ Bind(p) \/ DeletePod(p) \/ Vanish(p)
      PROVE  pod'[q] = pod[q]
  BY <1>2 DEF Schedule, Bind, DeletePod, Vanish
<1>3. ASSUME NEW c \in Ops, BecomeReady(c)
      PROVE  pod'[q] = pod[q]
  BY <1>3 DEF BecomeReady
<1>4. ASSUME NEW c \in Ops, Begin(c)
      PROVE  pod'[q] = pod[q]
  BY <1>4 DEF Begin
<1>5. ASSUME NEW c \in Ops, Cordon(c)
      PROVE  pod'[q] = pod[q]
  BY <1>5 DEF Cordon
<1>6. ASSUME NEW c \in Ops, GetTaints(c)
      PROVE  pod'[q] = pod[q]
  BY <1>6 DEF GetTaints
<1>7. ASSUME NEW c \in Ops, PatchTaints(c)
      PROVE  pod'[q] = pod[q]
  BY <1>7 DEF PatchTaints
<1>8. ASSUME NEW c \in Ops, ListPods(c)
      PROVE  pod'[q] = pod[q]
  BY <1>8 DEF ListPods
<1>9. ASSUME NEW c \in Ops, Evict(c)
      PROVE  pod'[q] = pod[q]
  BY <1>9 DEF Evict
<1>10. ASSUME NEW c \in Ops, ApplyShell(c) \/ SeeReady(c) \/ TimeOut(c)
       PROVE  pod'[q] = pod[q]
  BY <1>10 DEF ApplyShell, SeeReady, TimeOut
<1> QED
  BY <1>1, <1>2, <1>3, <1>4, <1>5, <1>6, <1>7, <1>8, <1>9, <1>10, NodeStepCases

\* No drain, and no other call, evicts a pod of a DaemonSet or a mirror pod.
THEOREM IgnoredAreSpared == NodeSpec => DrainSparesIgnored
<1>1. NodesInv /\ [NodeNext]_nodeVars =>
        [pc' # pc \/ left' # left =>
            \A p \in Pods : Ignored(p) => pod'[p] = pod[p]]_nodeVars
  BY SparesStep DEF NodesInv
<1> QED
  BY <1>1, NodesInvAlways, PTL DEF NodeSpec, DrainSparesIgnored

\* Only a patch changes the taints: one that was read before another call
\* wrote, or one that adds its taint or drops those of its key.
LEMMA TaintStep ==
    ASSUME NodeTypeOK, OwnSteps, AloneInv, [NodeNext]_nodeVars,
           NEW t \in Taints, (t \in taints) # (t \in taints')
    PROVE  \E c \in Ops :
               /\ pc[c] = "patch" /\ Ended(c)'
               /\ \/ c \in met
                  \/ req[c].op = "taint" /\ req[c].taint = t /\ t \in taints'
                  \/ req[c].op = "untaint" /\ req[c].key = t[1] /\ t \in taints
<1>1. PICK c \in Ops : PatchTaints(c) /\ taints' = NewTaints(c)
  <2>1. taints' # taints
    OBVIOUS
  <2>2. \E c \in Ops : PatchTaints(c)
    BY <2>1, NodeStepCases DEF nodeVars, node, Schedule, Bind, DeletePod, Vanish,
       BecomeReady, Begin, Cordon, GetTaints, ListPods, Evict, ApplyShell,
       SeeReady, TimeOut
  <2> QED
    BY <2>1, <2>2 DEF PatchTaints
<1>2. pc[c] = "patch" /\ Ended(c)'
  BY <1>1 DEF PatchTaints, Ended, Goto, NodeTypeOK
<1>3. CASE c \in met
  BY <1>2, <1>3
<1>4. CASE c \notin met
  <2>1. seen[c] = taints /\ IsTaintOp(c)
    BY <1>2, <1>4 DEF AloneInv, OwnSteps
  <2>2. CASE req[c].op = "taint"
    BY <1>1, <1>2, <2>1, <2>2 DEF NewTaints
  <2>3. CASE req[c].op = "untaint"
    BY <1>1, <1>2, <2>1, <2>3 DEF NewTaints
  <2> QED
    BY <2>1, <2>2, <2>3 DEF IsTaintOp
<1> QED
  BY <1>3, <1>4

\* A taint is lost, or comes back, only if two calls that change taints
\* overlap, for any number of calls and taints.
THEOREM TaintsChange == NodeSpec => TaintsChangeForAReason
<1>1. NodesInv /\ [NodeNext]_nodeVars =>
        [\A t \in Taints :
            (t \in taints) # (t \in taints') =>
              \E c \in Ops :
                /\ pc[c] = "patch" /\ Ended(c)'
                /\ \/ c \in met
                   \/ req[c].op = "taint" /\ req[c].taint = t /\ t \in taints'
                   \/ req[c].op = "untaint" /\ req[c].key = t[1]
                      /\ t \in taints]_nodeVars
  BY TaintStep DEF NodesInv
<1> QED
  BY <1>1, NodesInvAlways, PTL DEF NodeSpec, TaintsChangeForAReason
=============================================================================
