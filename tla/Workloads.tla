------------------------------ MODULE Workloads ------------------------------
(***************************************************************************)
(* The operations of kom/ctl_scale.go, kom/ctl_rollout.go and of the       *)
(* controllers of kom/ctl_deploy.go, ctl_ds.go, ctl_sts.go, ctl_rs.go and  *)
(* ctl_rc.go on workload objects, with Apply and Delete of kom/applier.go, *)
(* called by clients at the same time, while the controllers of the        *)
(* cluster go on with theirs.                                              *)
(*                                                                         *)
(* Each request to the API server is a step.  A patch is applied to what   *)
(* is there; an update carries the resource version that was read and is   *)
(* refused when the object has another one.  A call may end with an error  *)
(* before any of its requests.                                             *)
(***************************************************************************)
EXTENDS Naturals, FiniteSets

CONSTANTS
    Client,      \* who calls kom
    Workload,    \* names of workload objects
    Kinds,       \* the kinds a workload may be of
    Image,       \* what the pods of a template run
    MaxReplicas, \* bound: replicas a caller asks for
    MaxVersion,  \* bound: no call starts a change of an object past this version
    Manifest,    \* what Apply is given: replicas and an image
    NoNote       \* no kom.restore.replicas annotation

ASSUME BoundsAssumption ==
    /\ MaxReplicas \in Nat /\ MaxVersion \in Nat /\ NoNote \notin Nat
    /\ Workload # {} /\ Image # {}
    /\ Manifest \subseteq [replicas : Nat, image : Image]

ASSUME KindsAssumption ==
    Kinds \subseteq {"Deployment", "StatefulSet", "DaemonSet", "ReplicaSet",
                     "ReplicationController", "CronJob"}

VARIABLES
    kind,       \* kind[w]: the kind of the workload
    exclusive,  \* the workloads that one client at a time works on
    obj,        \* API server: obj[w], the object
    revs,       \* API server: revs[w], its ReplicaSets or ControllerRevisions
    status,     \* API server: status[w], what its controller has written
    call,       \* call[c]: the call of the client, between two requests
    ran,        \* history: ran[w], the replica counts the object has had
    last        \* history: last[w], the operation that an exclusive w has seen last

history == <<ran, last>>

vars == <<kind, exclusive, obj, revs, status, call, history>>

-----------------------------------------------------------------------------
(* Objects *)

\* What rolls out when it changes: the pods' spec, and the annotation that
\* Restart writes beside it.
PodSpec == [image : Image, pinned : BOOLEAN]
Template == [spec : PodSpec, stamp : Nat]

Object ==
    [there : BOOLEAN, version : Nat, replicas : Nat, note : Nat \cup {NoNote},
     extra : BOOLEAN, paused : BOOLEAN, template : Template, rev : Nat]

Revision == [rev : Nat, template : Template]

Status == [seen : Template, updated : Nat, ready : Nat, unavailable : Nat, desired : Nat]

HasAnnotations(o) == o.note # NoNote \/ o.extra \/ o.rev > 0

Newest(R) == CHOOSE n \in {r.rev : r \in R} \cup {0} : \A r \in R : r.rev <= n

\* How many pods the controller of a workload is to run.
Wanted(w) ==
    IF kind[w] = "DaemonSet" THEN (IF obj[w].template.spec.pinned THEN 0 ELSE 1)
    ELSE obj[w].replicas

ScaleKinds == {"Deployment", "StatefulSet", "ReplicationController", "ReplicaSet"}
RolloutKinds == {"Deployment", "StatefulSet", "DaemonSet", "ReplicaSet"}
UndoKinds == {"Deployment", "DaemonSet", "StatefulSet"}

RolledOut(w) == [rev |-> Newest(revs[w]), template |-> obj[w].template] \in revs[w]

\* The controller has nothing left to do for the object.
Settled(w) ==
    /\ obj[w].there
    /\ status[w] = [seen |-> obj[w].template, updated |-> Wanted(w), ready |-> Wanted(w),
                    unavailable |-> 0, desired |-> Wanted(w)]
    /\ kind[w] \in UndoKinds => RolledOut(w)
    /\ kind[w] = "Deployment" => obj[w].rev = Newest(revs[w])

-----------------------------------------------------------------------------
(* Calls *)

\* obj is what was read, or what is to be written with the version that was
\* read; back is, for Undo of a workload at rest, the revision before.
Steps == {"idle", "stop", "restore", "tag", "undo", "undoWrite", "apply", "applyWrite", "create"}
NoRevision == [rev |-> 0, template |-> [spec |-> [image |-> CHOOSE i \in Image : TRUE,
                                                   pinned |-> FALSE], stamp |-> 0]]
NoObject ==
    [there |-> FALSE, version |-> 0, replicas |-> 0, note |-> NoNote, extra |-> FALSE,
     paused |-> FALSE, template |-> NoRevision.template, rev |-> 0]
Idle == [at |-> "idle", w |-> CHOOSE w \in Workload : TRUE, obj |-> NoObject, to |-> 0,
         back |-> NoRevision]
Call == [at : Steps, w : Workload, obj : Object, to : Nat, back : Revision]

OthersAreOff(c, w) ==
    w \in exclusive => \A d \in Client : call[d].at = "idle" \/ call[d].w # w

\* A client may start a call on w.
MayStart(c, w) ==
    /\ call[c].at = "idle"
    /\ OthersAreOff(c, w)
    /\ obj[w].version < MaxVersion

At(c, step) == call[c].at = step /\ obj[call[c].w].there

Enter(c, step, w, o) ==
    call' = [call EXCEPT ![c] = [at |-> step, w |-> w, obj |-> o, to |-> 0, back |-> NoRevision]]

Return(c) == call' = [call EXCEPT ![c] = Idle]

Note(w, op) == last' = [last EXCEPT ![w] = IF w \in exclusive THEN op ELSE @]

\* What the API server does with a write: the version moves when something
\* changes.
Store(w, o, op) ==
    /\ Note(w, op)
    /\ obj' = [obj EXCEPT ![w] =
          IF [o EXCEPT !.version = obj[w].version] = obj[w] THEN @
          ELSE [o EXCEPT !.version = obj[w].version + 1]]
    /\ ran' = [ran EXCEPT ![w] = @ \cup {o.replicas}]

Fail(c) ==
    /\ call[c].at # "idle"
    /\ Return(c)
    /\ UNCHANGED <<kind, exclusive, obj, revs, status, history>>

-----------------------------------------------------------------------------
(* One request *)

Patch(c, w, o, op) ==
    /\ MayStart(c, w)
    /\ obj[w].there
    /\ Store(w, o, op)
    /\ UNCHANGED <<kind, exclusive, revs, status, call>>

Scale(c, w, n) ==
    /\ kind[w] \in ScaleKinds
    /\ Patch(c, w, [obj[w] EXCEPT !.replicas = n], "scale")

\* The time of a restart has seconds: a second one in the same second changes
\* nothing.
Restart(c, w) ==
    /\ kind[w] \in RolloutKinds
    /\ Patch(c, w, [obj[w] EXCEPT !.template.stamp = @ + 1], "other")

\* Pause and Resume of a rollout, and of a cron job, which look alike.
Pause(c, w, b) ==
    /\ kind[w] = "Deployment"
    /\ Patch(c, w, [obj[w] EXCEPT !.paused = b], "other")

Suspend(c, w, b) ==
    /\ kind[w] = "CronJob"
    /\ Patch(c, w, [obj[w] EXCEPT !.paused = b], "other")

\* Stop and Restore of a DaemonSet pin its pods to a node that is not there.
StopDaemonSet(c, w) ==
    /\ kind[w] = "DaemonSet"
    /\ Patch(c, w, [obj[w] EXCEPT !.template.spec.pinned = TRUE], "other")

RestoreDaemonSet(c, w) ==
    /\ kind[w] = "DaemonSet"
    /\ Patch(c, w, [obj[w] EXCEPT !.template.spec.pinned = FALSE], "other")

Annotate(c, w, b) == Patch(c, w, [obj[w] EXCEPT !.extra = b], "other")

\* What the object owns goes with it.
Delete(c, w) ==
    /\ MayStart(c, w)
    /\ obj[w].there
    /\ obj' = [obj EXCEPT ![w] = [NoObject EXCEPT !.version = obj[w].version + 1]]
    /\ revs' = [revs EXCEPT ![w] = {}]
    /\ Note(w, "replace")
    /\ UNCHANGED <<kind, exclusive, status, call, ran>>

-----------------------------------------------------------------------------
(* Stop and Restore of a scale: a get, then a patch *)

\* Mutant: a workload without replicas is stopped again.
StopReadAlways(c, w) ==
    /\ kind[w] \in ScaleKinds
    /\ MayStart(c, w)
    /\ obj[w].there
    /\ Enter(c, "stop", w, obj[w])
    /\ UNCHANGED <<kind, exclusive, obj, revs, status, history>>

StopRead(c, w) ==
    /\ kind[w] \in ScaleKinds
    /\ MayStart(c, w)
    /\ obj[w].there
    /\ obj[w].replicas # 0
    /\ Enter(c, "stop", w, obj[w])
    /\ UNCHANGED <<kind, exclusive, obj, revs, status, history>>

\* Mutant: the count is not written down.
StopPatchForgets(c) ==
    LET w == call[c].w IN
    /\ At(c, "stop")
    /\ Store(w, [obj[w] EXCEPT !.replicas = 0], "stop")
    /\ Return(c)
    /\ UNCHANGED <<kind, exclusive, revs, status>>

StopPatch(c) ==
    LET w == call[c].w IN
    /\ At(c, "stop")
    /\ Store(w, [obj[w] EXCEPT !.replicas = 0, !.note = call[c].obj.replicas], "stop")
    /\ Return(c)
    /\ UNCHANGED <<kind, exclusive, revs, status>>

RestoreRead(c, w) ==
    /\ kind[w] \in ScaleKinds
    /\ MayStart(c, w)
    /\ obj[w].there
    /\ HasAnnotations(obj[w])
    /\ Enter(c, "restore", w, obj[w])
    /\ UNCHANGED <<kind, exclusive, obj, revs, status, history>>

\* Mutant: the annotation is taken for a number without a look.
RestorePatchAsIs(c) ==
    LET w == call[c].w IN
    /\ At(c, "restore")
    /\ Store(w, [obj[w] EXCEPT !.replicas = call[c].obj.note, !.note = NoNote], "restore")
    /\ Return(c)
    /\ UNCHANGED <<kind, exclusive, revs, status>>

RestorePatch(c) ==
    LET w == call[c].w
        n == call[c].obj.note
    IN
    /\ At(c, "restore")
    /\ Store(w, [obj[w] EXCEPT !.replicas = IF n = NoNote THEN 1 ELSE n, !.note = NoNote], "restore")
    /\ Return(c)
    /\ UNCHANGED <<kind, exclusive, revs, status>>

-----------------------------------------------------------------------------
(* ReplaceImageTag and Undo: a get, then an update of the whole object *)

TagRead(c, w) ==
    /\ kind[w] = "Deployment"
    /\ MayStart(c, w)
    /\ obj[w].there
    /\ \E i \in Image : Enter(c, "tag", w, [obj[w] EXCEPT !.template.spec.image = i])
    /\ UNCHANGED <<kind, exclusive, obj, revs, status, history>>

\* Mutant: the version that was read is not sent.
UpdateAnyVersion(c, step, op) ==
    /\ At(c, step)
    /\ Store(call[c].w, call[c].obj, op)
    /\ Return(c)
    /\ UNCHANGED <<kind, exclusive, revs, status>>

Update(c, step, op) ==
    /\ At(c, step)
    /\ obj[call[c].w].version = call[c].obj.version
    /\ Store(call[c].w, call[c].obj, op)
    /\ Return(c)
    /\ UNCHANGED <<kind, exclusive, revs, status>>

TagWrite(c) == Update(c, "tag", "other")

\* The revision a workload had before its newest one.
Previous(w) ==
    LET older == {r \in revs[w] : r.rev < Newest(revs[w])} IN
    IF older = {} THEN NoRevision ELSE CHOOSE r \in older : r.rev = Newest(older)

\* A deployment goes by its revision annotation, which it must have; "to" is
\* the version asked for, 0 for none.
UndoRead(c, w, to) ==
    /\ kind[w] \in UndoKinds
    /\ MayStart(c, w)
    /\ obj[w].there
    /\ (kind[w] = "Deployment" /\ to = 0) => obj[w].rev > 0
    /\ call' = [call EXCEPT ![c] =
          [at |-> "undo", w |-> w, obj |-> obj[w],
           to |-> IF kind[w] = "Deployment" /\ to = 0 THEN obj[w].rev - 1 ELSE to,
           back |-> IF to = 0 /\ Settled(w) THEN Previous(w) ELSE NoRevision]]
    /\ UNCHANGED <<kind, exclusive, obj, revs, status, history>>

\* Mutant: back to the first revision.
FirstVersion(w, to) == IF to # 0 THEN to ELSE 1

\* A DaemonSet and a StatefulSet go by the newest of the revisions listed.
VersionBefore(w, to) ==
    IF to # 0 THEN to ELSE IF Newest(revs[w]) > 1 THEN Newest(revs[w]) - 1 ELSE 1

\* The revision of that number, listed after the object was read; only the
\* pods' spec is taken from it.
UndoTo(c, version) ==
    \E r \in revs[call[c].w] :
        /\ r.rev = version
        /\ call' = [call EXCEPT ![c].at = "undoWrite", ![c].obj.template.spec = r.template.spec]
        /\ UNCHANGED <<kind, exclusive, obj, revs, status, history>>

RollbackDeployment(c) ==
    /\ At(c, "undo")
    /\ kind[call[c].w] = "Deployment"
    /\ UndoTo(c, call[c].to)

RollbackDaemonSet(c) ==
    /\ At(c, "undo")
    /\ kind[call[c].w] = "DaemonSet"
    /\ UndoTo(c, VersionBefore(call[c].w, call[c].to))

RollbackStatefulSet(c) ==
    /\ At(c, "undo")
    /\ kind[call[c].w] = "StatefulSet"
    /\ UndoTo(c, VersionBefore(call[c].w, call[c].to))

UndoWrite(c) == Update(c, "undoWrite", "other")

-----------------------------------------------------------------------------
(* Apply *)

FromManifest(m, version) ==
    [NoObject EXCEPT !.there = TRUE, !.version = version, !.replicas = m.replicas,
                     !.template.spec = [image |-> m.image, pinned |-> FALSE]]

\* An error of the get counts as absence.
ApplyRead(c, w, m) ==
    /\ MayStart(c, w)
    /\ \/ obj[w].there /\ Enter(c, "applyWrite", w, FromManifest(m, obj[w].version))
       \/ Enter(c, "create", w, FromManifest(m, 0))
    /\ UNCHANGED <<kind, exclusive, obj, revs, status, history>>

ApplyWrite(c) == Update(c, "applyWrite", "replace")

\* Mutant: a create of what is there replaces it.
CreateOverwrites(c) ==
    /\ call[c].at = "create"
    /\ Store(call[c].w, call[c].obj, "replace")
    /\ Return(c)
    /\ UNCHANGED <<kind, exclusive, revs, status>>

Create(c) ==
    /\ call[c].at = "create"
    /\ ~obj[call[c].w].there
    /\ Store(call[c].w, call[c].obj, "replace")
    /\ Return(c)
    /\ UNCHANGED <<kind, exclusive, revs, status>>

-----------------------------------------------------------------------------
(* The cluster's controllers *)

\* A changed template becomes the newest revision, unless the rollout is
\* paused; one that was a revision before is given a new number.
Observe(w) ==
    LET o == obj[w]
        rolls == ~o.paused /\ kind[w] \in UndoKinds
    IN
    /\ o.there /\ kind[w] # "CronJob"
    /\ status[w].seen # o.template \/ (rolls /\ ~RolledOut(w))
    /\ revs' = [revs EXCEPT ![w] =
          IF rolls /\ ~RolledOut(w)
          THEN {r \in @ : r.template # o.template}
               \cup {[rev |-> Newest(revs[w]) + 1, template |-> o.template]}
          ELSE @]
    /\ status' = [status EXCEPT ![w].seen = o.template, ![w].updated = 0]
    /\ UNCHANGED <<kind, exclusive, obj, call, history>>

\* The deployment controller writes the revision on the deployment after that.
NoteRevision(w) ==
    /\ kind[w] = "Deployment" /\ obj[w].there /\ ~obj[w].paused
    /\ obj[w].rev # Newest(revs[w])
    /\ Store(w, [obj[w] EXCEPT !.rev = Newest(revs[w])], "other")
    /\ UNCHANGED <<kind, exclusive, revs, status, call>>

\* The pods are brought to what the object asks for.
RunPods(w) ==
    /\ obj[w].there /\ kind[w] # "CronJob"
    /\ status[w].seen = obj[w].template
    /\ kind[w] \in UndoKinds => RolledOut(w)
    /\ status' = [status EXCEPT ![w] =
          [seen |-> obj[w].template, updated |-> Wanted(w), ready |-> Wanted(w),
           unavailable |-> 0, desired |-> Wanted(w)]]
    /\ UNCHANGED <<kind, exclusive, obj, revs, call, history>>

\* A scale is seen before the pods are there.
Fall(w) ==
    /\ obj[w].there /\ kind[w] # "CronJob"
    /\ Wanted(w) > status[w].ready
    /\ status[w].unavailable = 0
    /\ status' = [status EXCEPT ![w].unavailable = Wanted(w) - status[w].ready,
                                ![w].desired = Wanted(w)]
    /\ UNCHANGED <<kind, exclusive, obj, revs, call, history>>

-----------------------------------------------------------------------------
(* Queries *)

\* Mutant: the oldest revision.
LatestReplicaSetIsFirst(w) ==
    {r \in revs[w] : \A q \in revs[w] : r.rev <= q.rev}

\* ManagedLatestReplicaSet: the only one there is, or the one of the
\* deployment's revision; ManagedPods are the pods it owns.
LatestReplicaSet(w) ==
    IF Cardinality(revs[w]) = 1 THEN revs[w]
    ELSE {r \in revs[w] : r.rev = obj[w].rev}

\* Mutant: every kind is compared with spec.replicas.
RolloutDoneByReplicas(w) ==
    LET s == status[w]
        n == obj[w].replicas
    IN
    s.updated = n /\ s.ready = n /\ s.unavailable = 0

\* Status: the rollout is reported as complete.
RolloutDone(w) ==
    LET s == status[w]
        n == obj[w].replicas
    IN
    CASE kind[w] = "Deployment" -> s.updated = n /\ s.ready = n /\ s.unavailable = 0
      [] kind[w] = "StatefulSet" -> s.updated = n /\ s.ready = n
      [] kind[w] = "DaemonSet" -> s.updated = s.desired /\ s.ready = s.desired
                                  /\ s.unavailable = 0
      [] kind[w] = "ReplicaSet" -> s.ready = n

\* The entries of History: revision and image of the ReplicaSets a deployment
\* owns, or of the ControllerRevisions of the others.
ReplicaSetHistory(w) == {[rev |-> r.rev, image |-> r.template.spec.image] : r \in revs[w]}

RevisionHistory(w) == {[rev |-> r.rev, image |-> r.template.spec.image] : r \in revs[w]}

History(w) ==
    CASE kind[w] = "Deployment" -> ReplicaSetHistory(w)
      [] kind[w] \in {"StatefulSet", "DaemonSet"} -> RevisionHistory(w)
      [] kind[w] \notin UndoKinds -> {}

-----------------------------------------------------------------------------
(* Specification *)

\* A workload of which one or two revisions have been rolled out.
Init ==
    /\ kind \in [Workload -> Kinds]
    /\ exclusive \in SUBSET Workload
    /\ \E i, j \in Image, n \in [Workload -> 1..MaxReplicas] :
         LET T(k) == [spec |-> [image |-> k, pinned |-> FALSE], stamp |-> 0] IN
         /\ revs = [w \in Workload |->
                CASE kind[w] \notin UndoKinds -> {}
                  [] kind[w] \in UndoKinds /\ i = j -> {[rev |-> 1, template |-> T(i)]}
                  [] kind[w] \in UndoKinds /\ i # j ->
                       {[rev |-> 1, template |-> T(i)], [rev |-> 2, template |-> T(j)]}]
         /\ obj = [w \in Workload |->
                [there |-> TRUE, version |-> 1,
                 replicas |-> IF kind[w] \in {"DaemonSet", "CronJob"} THEN 0 ELSE n[w],
                 note |-> NoNote, extra |-> FALSE, paused |-> FALSE, template |-> T(j),
                 rev |-> IF kind[w] = "Deployment" THEN Newest(revs[w]) ELSE 0]]
         /\ status = [w \in Workload |->
                [seen |-> T(j), updated |-> Wanted(w), ready |-> Wanted(w), unavailable |-> 0,
                 desired |-> Wanted(w)]]
    /\ call = [c \in Client |-> Idle]
    /\ ran = [w \in Workload |-> {obj[w].replicas}]
    /\ last = [w \in Workload |-> "none"]

Start(c, w) ==
    \/ \E n \in 0..MaxReplicas : Scale(c, w, n)
    \/ Restart(c, w)
    \/ \E b \in BOOLEAN : Pause(c, w, b) \/ Suspend(c, w, b) \/ Annotate(c, w, b)
    \/ StopDaemonSet(c, w)
    \/ RestoreDaemonSet(c, w)
    \/ Delete(c, w)
    \/ StopRead(c, w)
    \/ RestoreRead(c, w)
    \/ TagRead(c, w)
    \/ \E to \in 0..2 : UndoRead(c, w, to)
    \/ \E m \in Manifest : ApplyRead(c, w, m)

Continue(c) ==
    \/ StopPatch(c)
    \/ RestorePatch(c)
    \/ TagWrite(c)
    \/ RollbackDeployment(c)
    \/ RollbackDaemonSet(c)
    \/ RollbackStatefulSet(c)
    \/ UndoWrite(c)
    \/ ApplyWrite(c)
    \/ Create(c)
    \/ Fail(c)

Controller(w) == Observe(w) \/ NoteRevision(w) \/ RunPods(w) \/ Fall(w)

Next ==
    \/ \E c \in Client : Continue(c) \/ \E w \in Workload : Start(c, w)
    \/ \E w \in Workload : Controller(w)

Spec == Init /\ [][Next]_vars

\* The controllers go on for as long as there is something to do, and every
\* request is answered.
FairSpec ==
    /\ Spec
    /\ \A w \in Workload : WF_vars(Observe(w)) /\ WF_vars(NoteRevision(w)) /\ WF_vars(RunPods(w))
    /\ \A c \in Client : WF_vars(Continue(c))

-----------------------------------------------------------------------------
(* Properties *)

TypeOK ==
    /\ kind \in [Workload -> Kinds]
    /\ exclusive \subseteq Workload
    /\ obj \in [Workload -> Object]
    /\ revs \in [Workload -> SUBSET Revision]
    /\ status \in [Workload -> Status]
    /\ call \in [Client -> Call]
    /\ ran \in [Workload -> SUBSET Nat]
    /\ last \in [Workload -> {"none", "scale", "stop", "restore", "replace", "other"}]

\* A count that Restore will bring back is one the workload has run with, and
\* never zero, whatever Stops, Restores, scales and applies overlap
\* (ctl_scale.go:62, 68).
RememberedIsReal ==
    \A w \in Workload : obj[w].note # NoNote => obj[w].note > 0 /\ obj[w].note \in ran[w]

\* A get-modify-update (ReplaceImageTag, Undo) never takes back what somebody
\* else wrote since the get: replicas, annotations and pause stay as they are.
UpdateLosesNothing ==
    [][\A c \in Client :
         LET w == call[c].w IN
         call[c].at \in {"tag", "undoWrite"} /\ call'[c].at = "idle" /\ obj'[w] # obj[w] =>
            /\ obj'[w].replicas = obj[w].replicas
            /\ obj'[w].note = obj[w].note
            /\ obj'[w].paused = obj[w].paused
            /\ obj'[w].extra = obj[w].extra]_vars

\* Apply replaces an object only in the version it has looked at, and creates
\* one only where none is, even when its get failed (applier.go:77-93).
ApplyReplacesWhatItRead ==
    [][\A c \in Client :
         LET w == call[c].w IN
         call[c].at \in {"applyWrite", "create"} /\ call'[c].at = "idle" /\ obj'[w] # obj[w] =>
            IF call[c].at = "create" THEN ~obj[w].there
            ELSE obj[w].there /\ obj[w].version = call[c].obj.version]_vars

\* Undo without a version, of a workload that was at rest when it was read,
\* puts back the pods' spec of the revision before the one that is newest when
\* it writes, or changes nothing.
UndoGoesBackOne ==
    [][\A c \in Client :
         LET w == call[c].w IN
         /\ call[c].at = "undoWrite" /\ call'[c].at = "idle" /\ obj'[w] # obj[w]
         /\ call[c].back # NoRevision
         => obj'[w].template.spec = Previous(w).template.spec]_vars

\* At rest, the ReplicaSet taken for a deployment's latest is the one its pods
\* come from (ctl_deploy.go:63-108).
LatestIsCurrent ==
    \A w \in Workload :
        kind[w] = "Deployment" /\ Settled(w) =>
            {r.template : r \in LatestReplicaSet(w)} = {obj[w].template}

\* Undo without a version, of a workload that was at rest when it was read and
\* that nobody has changed since, aims at an entry of its History, and not at
\* the newest one when there are two.
UndoFindsPrevious ==
    \A c \in Client :
        LET w == call[c].w
            to == IF kind[w] = "Deployment" THEN call[c].to ELSE VersionBefore(w, call[c].to)
        IN
        /\ At(c, "undo") /\ call[c].back # NoRevision
        /\ obj[w].version = call[c].obj.version
        => /\ to < Newest(revs[w])
           /\ \E h \in History(w) : h.rev = to

\* A rollout that is left alone is reported as complete in the end.
RolloutIsReported ==
    \A w \in Workload :
        []<>(\/ kind[w] \notin RolloutKinds \/ ~obj[w].there \/ obj[w].paused
             \/ RolloutDone(w))

Memory ==
    INSTANCE ReplicaMemory WITH
        running <- [w \in Workload |-> IF w \in exclusive THEN obj[w].replicas ELSE 0],
        memory <- [w \in Workload |-> IF w \in exclusive THEN obj[w].note ELSE NoNote]

\* For a workload that one client at a time works on, Stop and Restore are
\* the single steps of ReplicaMemory: what was stopped is what comes back.
StopAndRestoreAreAtomic == Memory!Spec

\* What holds in every state of a workload.
Inv ==
    /\ TypeOK
    /\ RememberedIsReal
    /\ LatestIsCurrent
    /\ UndoFindsPrevious

\* A write never takes back what somebody else wrote since the read.
WritesLoseNothing ==
    /\ UpdateLosesNothing
    /\ ApplyReplacesWhatItRead
=============================================================================
