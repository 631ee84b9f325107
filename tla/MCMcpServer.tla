---------------------------- MODULE MCMcpServer ----------------------------
(* One session calls a tool once, another gets in its way, and may then    *)
(* register a cluster, the one it has unregistered or another.             *)
EXTENDS McpServer, TLC

Rivals == {"UnregisterCluster", "SetDefaultStorageClass", "DiagnosePodNetwork"}

\* One tool of each kind: the handlers of the others do the same.
Kind(t) == <<Tools[t].hint, Tools[t].plan, t \in RegistryTools>>
AnyTool == {t \in DOMAIN Tools : t = CHOOSE u \in DOMAIN Tools : Kind(u) = Kind(t)}
               \cup Rivals \cup {"RegisterCluster"}

MCMenu == "s1" :> <<AnyTool>> @@ "s2" :> <<Rivals, {"RegisterCluster"}>>

File(id, ext, server) == [id |-> id, ext |-> ext, server |-> server]

\* None, one, the same ID in two files, one that cannot be registered.
MCSetups == {
    [files |-> <<>>, default |-> "x", deny |-> TRUE, beta |-> {}],
    [files |-> <<>>, default |-> None, deny |-> FALSE, beta |-> {}],
    [files |-> <<File("a", "yml", "y"), File("a", "yaml", "x")>>, default |-> "x",
     deny |-> FALSE, beta |-> {"k2"}],
    [files |-> <<File("a", "yaml", "x"), File("a", "yml", None), File("dev", "yml", None)>>,
     default |-> "x", deny |-> FALSE, beta |-> {}]}

MCClasses == <<"k1", "k2">>
=============================================================================
