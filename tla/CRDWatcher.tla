----------------------------- MODULE CRDWatcher -----------------------------
(***************************************************************************)
(* WatchCRDAndRefreshDiscovery of kom/status.go for one cluster: the call  *)
(* that registers the cluster, the debouncing worker, the refreshes that   *)
(* its timers start, the informer that signals it, and the removal of the  *)
(* cluster (kom/cluster_base.go) that is meant to stop all of it.          *)
(*                                                                         *)
(* The API server's discovery data is a number that grows with every CRD   *)
(* that is added or deleted.                                               *)
(***************************************************************************)
EXTENDS Integers, Sequences

CONSTANTS
    InitialCRDs,  \* CRDs the informer lists at first
    MaxChanges    \* bound: CRDs added or deleted later

ASSUME InitialCRDsAssumption == InitialCRDs \in Nat

ASSUME MaxChangesAssumption == MaxChanges \in Nat

\* What a discovery call returns when it fails: nothing, or some groups only.
Partial == -1

Unset == -2  \* apiResources is nil

VARIABLES
    version,    \* API server: the discovery data
    pending,    \* CRD events the informer has not handed to its handler
    signal,     \* refreshCh, a channel of capacity 1, holds a signal
    main,       \* the registering call: its next step
    loaded,     \* ... and what its discovery call returned
    started,    \* the flag that lets refreshes through
    worker,     \* the debouncing goroutine: its next step
    refresh,    \* the timers armed so far, with the refreshes they start;
                \* the last one is debounceTimer
    resources,  \* ClusterInst.apiResources
    removal,    \* the last step RemoveClusterById has made
    excuses     \* history: why apiResources may be out of date

vars == <<version, pending, signal, main, loaded, started, worker, refresh,
          resources, removal, excuses>>

Refreshes == DOMAIN refresh

Cancelled == removal \in {"cancel", "delete"}

\* A discovery call, a result of which has not been stored, is under way.
Loading == main = "set" \/ \E t \in Refreshes : refresh[t].step = "store"

Crashed == main = "panic" \/ \E t \in Refreshes : refresh[t].step = "panic"

Init ==
    /\ version = 0
    /\ pending = InitialCRDs
    /\ signal = FALSE
    /\ main = "sync"
    /\ loaded = Unset
    /\ started = FALSE
    /\ worker = "select"
    /\ refresh = << >>
    /\ resources = Unset
    /\ removal = "none"
    /\ excuses = {}

-----------------------------------------------------------------------------
(* Faulty variants of actions below, each a slip that one property catches.  *)
(* They are not part of Next.                                                *)

\* The handler runs although there is no event.
HandleNoEvent ==
    /\ pending' = pending - 1
    /\ signal' = TRUE
    /\ UNCHANGED <<version, main, loaded, started, worker, refresh, resources,
                   removal, excuses>>

\* The flag is set before the initial load.
SyncAndStart ==
    /\ main = "sync"
    /\ main' = "load"
    /\ started' = TRUE
    /\ UNCHANGED <<version, pending, signal, loaded, worker, refresh,
                   resources, removal, excuses>>

\* The flag is never set.
StartWithoutFlag ==
    /\ main = "start"
    /\ main' = "done"
    /\ UNCHANGED <<version, pending, signal, loaded, started, worker, refresh,
                   resources, removal, excuses>>

\* A timer, fired or not, is kept, and the signal dropped.
ArmTimerOnce ==
    /\ worker = "rearm"
    /\ worker' = "select"
    /\ refresh' = IF refresh = << >>
                  THEN <<[step |-> "armed", seen |-> Unset]>> ELSE refresh
    /\ UNCHANGED <<version, pending, signal, main, loaded, started, resources,
                   removal, excuses>>

\* `break` instead of `return`: only the select ends.
StopSelectOnly ==
    /\ worker = "select"
    /\ Cancelled
    /\ UNCHANGED vars

\* triggerRefresh does not look at the flag.
FireTimerAlways(t) ==
    /\ refresh[t].step = "armed"
    /\ refresh' = [refresh EXCEPT ![t].step = "load"]
    /\ UNCHANGED <<version, pending, signal, main, loaded, started, worker,
                   resources, removal, excuses>>

-----------------------------------------------------------------------------
(* The API server and the informer (external) *)

ChangeCRD ==
    /\ version < MaxChanges
    /\ version' = version + 1
    /\ pending' = pending + 1
    /\ UNCHANGED <<signal, main, loaded, started, worker, refresh, resources,
                   removal, excuses>>

\* AddFunc and DeleteFunc: a signal that is queued already is not repeated.
HandleEvent ==
    /\ pending > 0
    /\ pending' = pending - 1
    /\ signal' = TRUE
    /\ UNCHANGED <<version, main, loaded, started, worker, refresh, resources,
                   removal, excuses>>

-----------------------------------------------------------------------------
(* The call that registers the cluster *)

\* The informer synced, or 30 seconds passed.
Sync ==
    /\ main = "sync"
    /\ main' = "load"
    /\ UNCHANGED <<version, pending, signal, loaded, started, worker, refresh,
                   resources, removal, excuses>>

\* initializeAPIResources: the client is gone once the removal cleared it; an
\* error of the discovery call is ignored.
LoadInitial ==
    /\ main = "load"
    /\ \/ /\ removal # "none"
          /\ main' = "panic"
          /\ UNCHANGED <<loaded, excuses>>
       \/ /\ removal = "none"
          /\ main' = "set"
          /\ \/ loaded' = version /\ UNCHANGED excuses
             \/ loaded' = Partial /\ excuses' = excuses \cup {"error"}
    /\ UNCHANGED <<version, pending, signal, started, worker, refresh,
                   resources, removal>>

SetInitial ==
    /\ main = "set"
    /\ \/ removal = "delete" /\ main' = "panic" /\ UNCHANGED resources
       \/ removal # "delete" /\ main' = "start" /\ resources' = loaded
    /\ UNCHANGED <<version, pending, signal, loaded, started, worker, refresh,
                   removal, excuses>>

Start ==
    /\ main = "start"
    /\ started' = TRUE
    /\ main' = "done"
    /\ UNCHANGED <<version, pending, signal, loaded, worker, refresh,
                   resources, removal, excuses>>

-----------------------------------------------------------------------------
(* The worker *)

ReceiveSignal ==
    /\ worker = "select"
    /\ signal
    /\ signal' = FALSE
    /\ worker' = "rearm"
    /\ UNCHANGED <<version, pending, main, loaded, started, refresh, resources,
                   removal, excuses>>

TimerArmed == refresh # << >> /\ refresh[Len(refresh)].step = "armed"

\* Stop() returns TRUE on an armed timer, and the worker then receives from
\* the channel of a timer that AfterFunc made, which is nil: it blocks for ever.
RearmTimer ==
    /\ worker = "rearm"
    /\ \/ /\ TimerArmed
          /\ refresh' = [refresh EXCEPT ![Len(refresh)].step = "stopped"]
          /\ worker' = "blocked"
       \/ /\ ~TimerArmed
          /\ refresh' = Append(refresh, [step |-> "armed", seen |-> Unset])
          /\ worker' = "select"
    /\ UNCHANGED <<version, pending, signal, main, loaded, started, resources,
                   removal, excuses>>

StopWorker ==
    /\ worker = "select"
    /\ Cancelled
    /\ worker' = "exit"
    /\ UNCHANGED <<version, pending, signal, main, loaded, started, refresh,
                   resources, removal, excuses>>

-----------------------------------------------------------------------------
(* triggerRefresh, in a goroutine of its own two seconds after the signal; *)
(* no context stops it.                                                    *)

\* A refresh that comes too late for the initial load, and too early for the
\* flag, is skipped for good.
FireTimer(t) ==
    /\ refresh[t].step = "armed"
    /\ IF started
       THEN /\ refresh' = [refresh EXCEPT ![t].step = "load"]
            /\ UNCHANGED excuses
       ELSE /\ refresh' = [refresh EXCEPT ![t].step = "done"]
            /\ excuses' = IF main \in {"set", "start"}
                          THEN excuses \cup {"skipped"} ELSE excuses
    /\ UNCHANGED <<version, pending, signal, main, loaded, started, worker,
                   resources, removal>>

LoadAgain(t) ==
    /\ refresh[t].step = "load"
    /\ \/ /\ removal # "none"
          /\ refresh' = [refresh EXCEPT ![t].step = "panic"]
          /\ UNCHANGED excuses
       \/ /\ removal = "none"
          /\ \E seen \in {version, Partial} :
                /\ refresh' = [refresh EXCEPT
                                  ![t] = [step |-> "store", seen |-> seen]]
                /\ excuses' = excuses
                              \cup (IF seen = Partial THEN {"error"} ELSE {})
                              \cup (IF Loading THEN {"overlap"} ELSE {})
    /\ UNCHANGED <<version, pending, signal, main, loaded, started, worker,
                   resources, removal>>

StoreAgain(t) ==
    /\ refresh[t].step = "store"
    /\ \/ /\ removal = "delete"
          /\ refresh' = [refresh EXCEPT ![t].step = "panic"]
          /\ UNCHANGED resources
       \/ /\ removal # "delete"
          /\ refresh' = [refresh EXCEPT
                            ![t] = [step |-> "done", seen |-> Unset]]
          /\ resources' = refresh[t].seen
    /\ UNCHANGED <<version, pending, signal, main, loaded, started, worker,
                   removal, excuses>>

-----------------------------------------------------------------------------
(* RemoveClusterById *)

RemoveClear ==
    /\ removal = "none"
    /\ removal' = "clear"
    /\ resources' = Unset
    /\ UNCHANGED <<version, pending, signal, main, loaded, started, worker,
                   refresh, excuses>>

RemoveCancel ==
    /\ removal = "clear"
    /\ removal' = "cancel"
    /\ UNCHANGED <<version, pending, signal, main, loaded, started, worker,
                   refresh, resources, excuses>>

RemoveDelete ==
    /\ removal = "cancel"
    /\ removal' = "delete"
    /\ UNCHANGED <<version, pending, signal, main, loaded, started, worker,
                   refresh, resources, excuses>>

-----------------------------------------------------------------------------

Informer == HandleEvent

Main == Sync \/ LoadInitial \/ SetInitial \/ Start

Worker == ReceiveSignal \/ RearmTimer \/ StopWorker

Refresh(t) == FireTimer(t) \/ LoadAgain(t) \/ StoreAgain(t)

Remove == RemoveClear \/ RemoveCancel \/ RemoveDelete

\* A panic in a goroutine that nobody recovers ends the program.
Next ==
    /\ ~Crashed
    /\ \/ ChangeCRD \/ Informer \/ Main \/ Worker \/ Remove
       \/ \E t \in Refreshes : Refresh(t)

Spec == Init /\ [][Next]_vars

\* Goroutines are scheduled, timers fire, the informer delivers until it is
\* stopped.  Nobody has to change a CRD or to remove the cluster.
Fairness ==
    /\ WF_vars(~Crashed /\ ~Cancelled /\ Informer)
    /\ WF_vars(~Crashed /\ Main)
    /\ WF_vars(~Crashed /\ Worker)
    /\ \A t \in 1 .. InitialCRDs + MaxChanges :
           WF_vars(~Crashed /\ t \in Refreshes /\ Refresh(t))

FairSpec == Spec /\ Fairness

-----------------------------------------------------------------------------
(* Properties *)

\* Type invariant of the watcher's state.
TypeOK ==
    /\ version \in 0 .. MaxChanges
    /\ pending \in Nat
    /\ signal \in BOOLEAN
    /\ main \in {"sync", "load", "set", "start", "done", "panic"}
    /\ loaded \in Int
    /\ started \in BOOLEAN
    /\ worker \in {"select", "rearm", "blocked", "exit"}
    /\ refresh \in Seq([step : {"armed", "stopped", "load", "store", "done",
                                "panic"},
                        seen : Int])
    /\ resources \in Int
    /\ removal \in {"none", "clear", "cancel", "delete"}
    /\ excuses \subseteq {"error", "skipped", "overlap"}

\* Nothing is under way that could refresh the API resources.
AtRest ==
    /\ pending = 0
    /\ ~signal
    /\ main = "done"
    /\ worker = "select"
    /\ removal = "none"
    /\ \A t \in Refreshes : refresh[t].step \notin {"armed", "load", "store"}

\* No CRD change is lost: at rest the API resources are those of the API
\* server, unless a discovery call failed, a refresh was skipped between the
\* initial load and the started flag, or two refreshes overlapped.
AtRestFresh ==
    AtRest /\ excuses = {} => resources = version

\* API resources never go back to an older state unless two refreshes ran at
\* once (or a discovery call failed, or the cluster is being removed).
NeverOlder ==
    [][excuses = {} /\ removal' = "none" => resources' >= resources]_vars

\* The initial load and a refresh never run at once: the flag is set last.
InitialLoadAlone ==
    main \in {"sync", "load", "set", "start"}
        => \A t \in Refreshes : refresh[t].step \notin {"load", "store"}

\* Cancelling the context ends the worker, unless it is blocked.
CancelEndsWorker ==
    Cancelled ~> worker \in {"exit", "blocked"} \/ Crashed

\* Every CRD change reaches the API resources in the end, unless the worker
\* blocks, the cluster is removed, or one of the excuses applies.
SettlesFresh ==
    <>[](\/ resources = version
         \/ worker = "blocked" \/ removal # "none" \/ excuses # {} \/ Crashed)

\* What the comment in the worker says of a signal that finds a timer: the
\* timer is reset, so that both changes are refreshed together later.
SignalResetsTimer ==
    worker = "rearm" /\ TimerArmed
        ~> (worker = "select" /\ TimerArmed) \/ Cancelled \/ Crashed

\* What holds in every state of the watcher.
Inv ==
    /\ TypeOK
    /\ AtRestFresh
    /\ InitialLoadAlone
=============================================================================
