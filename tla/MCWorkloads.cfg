SPECIFICATION FairSpec
CONSTANTS
    i1 = i1
    i2 = i2
    Client = {c1, c2}
    Workload = {w1}
    Kinds = {"Deployment", "StatefulSet", "DaemonSet", "ReplicaSet", "ReplicationController", "CronJob"}
    Image = {i1, i2}
    MaxReplicas = 2
    MaxVersion = 3
    Manifest <- MCManifest
    NoNote = NoNote
CHECK_DEADLOCK FALSE
INVARIANTS
    Inv
PROPERTIES
    WritesLoseNothing
    UndoGoesBackOne
    StopAndRestoreAreAtomic
    RolloutIsReported
