--------------------------- MODULE CRDWatcherProof ---------------------------
(***************************************************************************)
(* The safety of the two components of kom/status.go: CRDWatcher, for any  *)
(* number of CRDs and of changes, and ResourceCounts, for any number of    *)
(* calls, resources, slots and objects.                                    *)
(*                                                                         *)
(* CRDWatcher: AtRestFresh speaks of states in which nothing is under way; *)
(* Fresh says of every state what is still to come, or else that what is   *)
(* stored, or about to be stored, is current.                              *)
(***************************************************************************)
EXTENDS CRDWatcher, ResourceCounts, SequenceTheorems, TLAPS

\* The flag comes last, and refreshes come after the flag.
FlagIsLast ==
    /\ started = (main = "done")
    /\ (\E t \in Refreshes : refresh[t].step \in {"load", "store"}) => started

\* Something is under way that will look at the API server again, or the
\* worker is blocked.
Coming ==
    \/ pending > 0
    \/ signal
    \/ worker \in {"rearm", "blocked"}
    \/ \E t \in Refreshes : refresh[t].step \in {"armed", "load"}

\* What is read and not yet stored is current, and what is stored is if
\* nothing else is read.
Current ==
    /\ main = "set" => loaded = version
    /\ \A t \in Refreshes : refresh[t].step = "store" => refresh[t].seen = version
    /\ ~Loading => resources = version

Fresh ==
    excuses = {} /\ removal = "none" /\ main \in {"set", "start", "done"} => Coming \/ Current

\* Of two results that are not stored yet one is an excuse; what is stored is
\* older than what will be.
InOrder ==
    /\ resources <= version
    /\ main = "set" => loaded <= version
    /\ \A t \in Refreshes : refresh[t].step = "store" => refresh[t].seen <= version
    /\ excuses = {} /\ removal = "none" =>
          /\ main = "set" => resources <= loaded
          /\ \A t \in Refreshes : refresh[t].step = "store" =>
                /\ resources <= refresh[t].seen /\ main # "set"
                /\ \A u \in Refreshes : refresh[u].step = "store" => u = t

IInv ==
    /\ TypeOK
    /\ FlagIsLast
    /\ Fresh
    /\ InOrder

-----------------------------------------------------------------------------
(* The timers *)

Timer == [step : {"armed", "stopped", "load", "store", "done", "panic"}, seen : Int]

LEMMA TimerSet ==
    ASSUME TypeOK, NEW t \in Refreshes, NEW r \in Timer, refresh' = [refresh EXCEPT ![t] = r]
    PROVE  /\ refresh' \in Seq(Timer) /\ Refreshes' = Refreshes /\ refresh'[t] = r
           /\ \A u \in Refreshes : u # t => refresh'[u] = refresh[u]
<1>1. refresh \in Seq(Timer)
  BY DEF TypeOK, Timer
<1>2. refresh' \in Seq(Timer)
  BY <1>1, ExceptSeq DEF Refreshes
<1> QED
  BY <1>1, <1>2 DEF Refreshes

LEMMA TimerAdded ==
    ASSUME TypeOK, NEW r \in Timer, refresh' = Append(refresh, r)
    PROVE  /\ refresh' \in Seq(Timer) /\ Refreshes' = Refreshes \cup {Len(refresh) + 1}
           /\ Len(refresh) + 1 \notin Refreshes
           /\ refresh'[Len(refresh) + 1] = r
           /\ \A u \in Refreshes : refresh'[u] = refresh[u]
<1>1. refresh \in Seq(Timer)
  BY DEF TypeOK, Timer
<1>2. Len(refresh) \in Nat /\ DOMAIN refresh = 1 .. Len(refresh)
  BY <1>1
<1>3. refresh' \in Seq(Timer) /\ Len(refresh') = Len(refresh) + 1
  BY <1>1, AppendProperties
<1>4. DOMAIN refresh' = 1 .. Len(refresh) + 1
  BY <1>3
<1> QED
  BY <1>1, <1>2, <1>3, <1>4, AppendProperties DEF Refreshes

LEMMA TimerFields ==
    ASSUME TypeOK, NEW t \in Refreshes
    PROVE  refresh[t] \in Timer /\ refresh[t].seen \in Int
<1>1. refresh \in Seq(Timer) /\ t \in 1 .. Len(refresh)
  BY DEF TypeOK, Timer, Refreshes
<1>2. refresh[t] \in Timer
  BY <1>1, ElementOfSeq
<1> QED
  BY <1>2 DEF Timer

\* What a step may be, the timers as they are changed.
Moved(t, step, read) ==
    /\ refresh' \in Seq(Timer) /\ Refreshes' = Refreshes
    /\ refresh'[t] = [step |-> step, seen |-> read]
    /\ \A u \in Refreshes : u # t => refresh'[u] = refresh[u]

LEMMA TimerMoves ==
    ASSUME TypeOK, NEW t \in Refreshes,
           NEW step \in {"armed", "stopped", "load", "store", "done", "panic"}
    PROVE  /\ refresh' = [refresh EXCEPT ![t].step = step] => Moved(t, step, refresh[t].seen)
           /\ \A n \in Int : refresh' = [refresh EXCEPT ![t] = [step |-> step, seen |-> n]]
                                => Moved(t, step, n)
<1>1. refresh[t] \in Timer /\ refresh[t].seen \in Int
  BY TimerFields
<1>2. ASSUME NEW n \in Int, refresh' = [refresh EXCEPT ![t] = [step |-> step, seen |-> n]]
      PROVE  Moved(t, step, n)
  <2>1. [step |-> step, seen |-> n] \in Timer
    BY DEF Timer
  <2> QED
    BY <1>2, <2>1, TimerSet DEF Moved
<1>3. ASSUME refresh' = [refresh EXCEPT ![t].step = step]
      PROVE  Moved(t, step, refresh[t].seen)
  <2>1. [refresh[t] EXCEPT !.step = step] = [step |-> step, seen |-> refresh[t].seen]
    BY <1>1 DEF Timer
  <2>2. refresh' = [refresh EXCEPT ![t] = [step |-> step, seen |-> refresh[t].seen]]
    BY <1>3, <2>1
  <2> QED
    BY <1>1, <1>2, <2>2
<1> QED
  BY <1>2, <1>3

LEMMA FireStep ==
    ASSUME TypeOK, NEW t \in Refreshes, FireTimer(t)
    PROVE  /\ refresh[t].step = "armed"
           /\ started => Moved(t, "load", refresh[t].seen) /\ UNCHANGED excuses
           /\ ~started =>
                 /\ Moved(t, "done", refresh[t].seen)
                 /\ excuses' = IF main \in {"set", "start"} THEN excuses \cup {"skipped"} ELSE excuses
           /\ UNCHANGED <<version, pending, signal, main, loaded, started, worker, resources, removal>>
BY TimerMoves DEF FireTimer

LEMMA LoadStep ==
    ASSUME TypeOK, NEW t \in Refreshes, LoadAgain(t)
    PROVE  /\ refresh[t].step = "load"
           /\ \/ Moved(t, "panic", refresh[t].seen) /\ removal # "none" /\ UNCHANGED excuses
              \/ /\ removal = "none"
                 /\ \E read \in {version, Partial} :
                       /\ Moved(t, "store", read)
                       /\ excuses' = excuses \cup (IF read = Partial THEN {"error"} ELSE {})
                                             \cup (IF Loading THEN {"overlap"} ELSE {})
           /\ UNCHANGED <<version, pending, signal, main, loaded, started, worker, resources, removal>>
<1>1. version \in Int /\ Partial \in Int
  BY MaxChangesAssumption DEF TypeOK, Partial
<1>2. CASE removal # "none"
  BY <1>2, TimerMoves DEF LoadAgain
<1>3. CASE removal = "none"
  <2>1. PICK read \in {version, Partial} :
            /\ refresh' = [refresh EXCEPT ![t] = [step |-> "store", seen |-> read]]
            /\ excuses' = excuses \cup (IF read = Partial THEN {"error"} ELSE {})
                                  \cup (IF Loading THEN {"overlap"} ELSE {})
    BY <1>3 DEF LoadAgain
  <2>2. Moved(t, "store", read)
    BY <1>1, <2>1, TimerMoves
  <2> QED
    BY <1>3, <2>1, <2>2 DEF LoadAgain
<1> QED
  BY <1>2, <1>3

LEMMA StoreStep ==
    ASSUME TypeOK, NEW t \in Refreshes, StoreAgain(t)
    PROVE  /\ refresh[t].step = "store"
           /\ \/ Moved(t, "panic", refresh[t].seen) /\ UNCHANGED resources /\ removal = "delete"
              \/ Moved(t, "done", Unset) /\ resources' = refresh[t].seen
           /\ UNCHANGED <<version, pending, signal, main, loaded, started, worker, removal, excuses>>
<1>1. Unset \in Int
  BY DEF Unset
<1> QED
  BY <1>1, TimerMoves DEF StoreAgain

LEMMA RearmStep ==
    ASSUME TypeOK, RearmTimer
    PROVE  /\ worker = "rearm"
           /\ \/ /\ worker' = "blocked" /\ TimerArmed
                 /\ Len(refresh) \in Refreshes
                 /\ Moved(Len(refresh), "stopped", refresh[Len(refresh)].seen)
              \/ /\ worker' = "select"
                 /\ refresh' = Append(refresh, [step |-> "armed", seen |-> Unset])
           /\ UNCHANGED <<version, pending, signal, main, loaded, started, resources, removal, excuses>>
<1>1. CASE TimerArmed /\ worker' = "blocked"
  <2>1. refresh \in Seq(Timer) /\ refresh # << >>
    BY <1>1 DEF TypeOK, Timer, TimerArmed
  <2>2. Len(refresh) \in Refreshes
    BY <2>1, EmptySeq, LenProperties DEF Refreshes
  <2>3. refresh' = [refresh EXCEPT ![Len(refresh)].step = "stopped"]
    BY <1>1 DEF RearmTimer
  <2> QED
    BY <1>1, <2>2, <2>3, TimerMoves DEF RearmTimer
<1>2. CASE ~(TimerArmed /\ worker' = "blocked")
  BY <1>2 DEF RearmTimer
<1> QED
  BY <1>1, <1>2

LEMMA NextCases ==
    ASSUME [Next]_vars
    PROVE  \/ ChangeCRD \/ HandleEvent \/ Sync \/ LoadInitial \/ SetInitial \/ Start
           \/ ReceiveSignal \/ RearmTimer \/ StopWorker
           \/ \E t \in Refreshes : FireTimer(t)
           \/ \E t \in Refreshes : LoadAgain(t)
           \/ \E t \in Refreshes : StoreAgain(t)
           \/ RemoveClear \/ RemoveCancel \/ RemoveDelete
           \/ UNCHANGED vars
BY DEF Next, Informer, Main, Worker, Refresh, Remove

-----------------------------------------------------------------------------
(* The invariant *)

LEMMA InitInv == Init => IInv
<1> SUFFICES ASSUME Init PROVE IInv
  OBVIOUS
<1>1. refresh = << >> /\ Refreshes = {}
  BY DEF Init, Refreshes
<1>2. TypeOK
  <2>1. refresh \in Seq(Timer)
    BY <1>1, EmptySeq
  <2>2. version \in 0 .. MaxChanges
    BY MaxChangesAssumption DEF Init
  <2>3. pending \in Nat /\ loaded \in Int /\ resources \in Int
    BY InitialCRDsAssumption DEF Init, Unset
  <2> QED
    BY <2>1, <2>2, <2>3 DEF Init, TypeOK, Timer
<1>3. FlagIsLast /\ Fresh
  BY <1>1 DEF Init, FlagIsLast, Fresh
<1>4. InOrder
  BY <1>1 DEF Init, InOrder, Unset
<1> QED
  BY <1>2, <1>3, <1>4 DEF IInv

LEMMA TypeStep == ASSUME TypeOK, [Next]_vars PROVE TypeOK'
<1> USE DEF TypeOK
<1>a. version \in Int /\ Unset \in Int /\ Partial \in Int /\ version \in Nat
  BY MaxChangesAssumption DEF Unset, Partial
<1>b. ASSUME refresh' \in Seq(Timer)
      PROVE  refresh' \in Seq([step : {"armed", "stopped", "load", "store", "done", "panic"},
                              seen : Int])
  BY <1>b DEF Timer
<1>1. CASE ChangeCRD
  BY <1>1, MaxChangesAssumption DEF ChangeCRD
<1>2. CASE HandleEvent
  BY <1>2 DEF HandleEvent
<1>3. CASE Sync \/ SetInitial \/ Start \/ ReceiveSignal \/ StopWorker
  BY <1>3 DEF Sync, SetInitial, Start, ReceiveSignal, StopWorker
<1>4. CASE LoadInitial
  BY <1>4, <1>a DEF LoadInitial
<1>5. CASE RearmTimer
  <2>1. [step |-> "armed", seen |-> Unset] \in Timer
    BY <1>a DEF Timer
  <2> QED
    BY <1>5, <1>b, <2>1, RearmStep, TimerAdded DEF Moved
<1>6. ASSUME NEW t \in Refreshes, FireTimer(t) PROVE TypeOK'
  BY <1>6, <1>b, FireStep DEF Moved
<1>7. ASSUME NEW t \in Refreshes, LoadAgain(t) PROVE TypeOK'
  BY <1>7, <1>b, LoadStep DEF Moved
<1>8. ASSUME NEW t \in Refreshes, StoreAgain(t) PROVE TypeOK'
  BY <1>8, <1>b, StoreStep, TimerFields DEF Moved
<1>9. CASE RemoveClear \/ RemoveCancel \/ RemoveDelete
  BY <1>9, <1>a DEF RemoveClear, RemoveCancel, RemoveDelete
<1>10. CASE UNCHANGED vars
  BY <1>10 DEF vars
<1> QED
  BY <1>1, <1>2, <1>3, <1>4, <1>5, <1>6, <1>7, <1>8, <1>9, <1>10, NextCases

LEMMA FlagStep == ASSUME TypeOK, FlagIsLast, [Next]_vars PROVE FlagIsLast'
<1> USE DEF FlagIsLast
<1>1. CASE \/ ChangeCRD \/ HandleEvent \/ Sync \/ LoadInitial \/ SetInitial \/ Start
           \/ ReceiveSignal \/ StopWorker \/ RemoveClear \/ RemoveCancel \/ RemoveDelete
           \/ UNCHANGED vars
  BY <1>1 DEF ChangeCRD, HandleEvent, Sync, LoadInitial, SetInitial, Start, ReceiveSignal,
     StopWorker, RemoveClear, RemoveCancel, RemoveDelete, vars, Refreshes, TypeOK
<1>2. CASE RearmTimer
  <2>1. [step |-> "armed", seen |-> Unset] \in Timer
    BY DEF Timer, Unset
  <2> QED
    BY <1>2, <2>1, RearmStep, TimerAdded DEF Moved
<1>3. ASSUME NEW t \in Refreshes, FireTimer(t) PROVE FlagIsLast'
  <2>1. started' = started /\ main' = main
    BY <1>3 DEF FireTimer
  <2>2. CASE started
    BY <2>1, <2>2
  <2>3. CASE ~started
    <3>1. Moved(t, "done", refresh[t].seen)
      BY <1>3, <2>3, FireStep
    <3> QED
      BY <2>1, <2>3, <3>1 DEF Moved
  <2> QED
    BY <2>2, <2>3
<1>4. ASSUME NEW t \in Refreshes, LoadAgain(t) PROVE FlagIsLast'
  BY <1>4, LoadStep DEF Moved
<1>5. ASSUME NEW t \in Refreshes, StoreAgain(t) PROVE FlagIsLast'
  BY <1>5, StoreStep DEF Moved
<1> QED
  BY <1>1, <1>2, <1>3, <1>4, <1>5, NextCases

\* What is under way stays so, or what has been read is stored.
LEMMA FreshStep ==
    ASSUME TypeOK, FlagIsLast, Fresh, TypeOK', FlagIsLast', [Next]_vars
    PROVE  Fresh'
<1> SUFFICES ASSUME excuses' = {}, removal' = "none", main' \in {"set", "start", "done"}
             PROVE  Coming' \/ Current'
  BY DEF Fresh
<1>1. CASE ChangeCRD \/ HandleEvent \/ ReceiveSignal
  BY <1>1 DEF ChangeCRD, HandleEvent, ReceiveSignal, Coming, TypeOK
<1>2. CASE Sync \/ StopWorker \/ RemoveClear \/ RemoveCancel \/ RemoveDelete
  BY <1>2 DEF Sync, StopWorker, RemoveClear, RemoveCancel, RemoveDelete, Cancelled
<1>3. CASE LoadInitial
  <2>1. main' = "set" /\ loaded' = version' /\ ~started'
    BY <1>3 DEF LoadInitial, FlagIsLast
  <2>2. \A t \in Refreshes' : refresh'[t].step # "store"
    BY <2>1 DEF FlagIsLast
  <2> QED
    BY <2>1, <2>2 DEF Current, Loading
<1>4. CASE SetInitial
  <2>1. /\ main = "set" /\ main' = "start" /\ resources' = loaded /\ refresh' = refresh
        /\ UNCHANGED <<version, pending, signal, worker, removal, excuses>>
    BY <1>4 DEF SetInitial
  <2>2. Coming \/ Current
    BY <2>1 DEF Fresh
  <2> QED
    BY <2>1, <2>2 DEF Coming, Current, Refreshes
<1>5. CASE Start
  <2>1. /\ main = "start" /\ main' = "done" /\ refresh' = refresh
        /\ UNCHANGED <<version, pending, signal, worker, removal, excuses, resources>>
    BY <1>5 DEF Start
  <2>2. Coming \/ Current
    BY <2>1 DEF Fresh
  <2> QED
    BY <2>1, <2>2 DEF Coming, Current, Loading, Refreshes
<1>6. CASE RearmTimer
  <2>1. CASE worker' = "blocked"
    BY <2>1 DEF Coming
  <2>2. CASE refresh' = Append(refresh, [step |-> "armed", seen |-> Unset])
    <3>1. [step |-> "armed", seen |-> Unset] \in Timer
      BY DEF Timer, Unset
    <3> QED
      BY <2>2, <3>1, TimerAdded DEF Coming
  <2> QED
    BY <1>6, <2>1, <2>2, RearmStep
<1>7. ASSUME NEW t \in Refreshes, FireTimer(t) PROVE Coming' \/ Current'
  <2>1. started
    <3>1. main' = main
      BY <1>7 DEF FireTimer
    <3>2. CASE main \in {"set", "start"} /\ ~started
      BY <1>7, <3>2 DEF FireTimer
    <3> QED
      BY <3>1, <3>2 DEF FlagIsLast
  <2>2. t \in Refreshes' /\ refresh'[t].step = "load"
    <3>1. Moved(t, "load", refresh[t].seen)
      BY <1>7, <2>1, FireStep
    <3> QED
      BY <3>1 DEF Moved
  <2> QED
    BY <2>2 DEF Coming
<1>8. ASSUME NEW t \in Refreshes, LoadAgain(t) PROVE Coming' \/ Current'
  <2>1. version' = version /\ main' = main /\ removal' = removal /\ version \in Nat
    BY <1>8, MaxChangesAssumption DEF LoadAgain, TypeOK
  <2>2. PICK read \in {version, Partial} :
            /\ Moved(t, "store", read)
            /\ excuses' = excuses \cup (IF read = Partial THEN {"error"} ELSE {})
                                  \cup (IF Loading THEN {"overlap"} ELSE {})
    BY <1>8, <2>1, LoadStep
  <2>3. read = version /\ ~Loading
    BY <2>2
  <2>4. \A u \in Refreshes' : refresh'[u].step = "store" => u = t
    BY <2>2, <2>3 DEF Moved, Loading
  <2>5. t \in Refreshes' /\ refresh'[t].step = "store" /\ refresh'[t].seen = version
    BY <2>2, <2>3 DEF Moved
  <2>6. Loading' /\ main' # "set"
    BY <2>1, <2>3, <2>5 DEF Loading
  <2> QED
    BY <2>1, <2>4, <2>5, <2>6 DEF Current
<1>9. ASSUME NEW t \in Refreshes, StoreAgain(t) PROVE Coming' \/ Current'
  <2>1. /\ refresh[t].step = "store" /\ Moved(t, "done", Unset) /\ resources' = refresh[t].seen
        /\ UNCHANGED <<version, pending, signal, main, worker, removal, excuses, loaded>>
    BY <1>9, StoreStep
  <2>2. CASE Coming
    <3>1. \A u \in Refreshes : refresh[u].step \in {"armed", "load"} =>
              u \in Refreshes' /\ refresh'[u].step \in {"armed", "load"}
      BY <2>1 DEF Moved
    <3> QED
      BY <2>1, <2>2, <3>1 DEF Coming
  <2>3. CASE Current
    <3>1. resources' = version'
      BY <2>1, <2>3 DEF Current
    <3>2. \A u \in Refreshes' : refresh'[u].step = "store" => refresh'[u].seen = version'
      BY <2>1, <2>3 DEF Current, Moved
    <3> QED
      BY <2>1, <2>3, <3>1, <3>2 DEF Current
  <2> QED
    BY <2>1, <2>2, <2>3 DEF Fresh
<1>10. CASE UNCHANGED vars
  BY <1>10 DEF vars, Fresh, Coming, Current, Loading, Refreshes
<1> QED
  BY <1>1, <1>2, <1>3, <1>4, <1>5, <1>6, <1>7, <1>8, <1>9, <1>10, NextCases

\* Results are read after those that were stored, and stored one at a time.
LEMMA InOrderStep ==
    ASSUME TypeOK, FlagIsLast, InOrder, TypeOK', FlagIsLast', [Next]_vars
    PROVE  InOrder'
<1>a. /\ version \in Nat /\ resources \in Int /\ loaded \in Int
      /\ \A t \in Refreshes : refresh[t].seen \in Int
  BY MaxChangesAssumption, TimerFields DEF TypeOK
<1>1. CASE ChangeCRD
  BY <1>1, <1>a DEF ChangeCRD, InOrder, Refreshes
<1>2. CASE \/ HandleEvent \/ ReceiveSignal \/ Sync \/ Start \/ StopWorker \/ RemoveCancel
           \/ RemoveDelete \/ UNCHANGED vars
  BY <1>2 DEF HandleEvent, ReceiveSignal, Sync, Start, StopWorker, RemoveCancel, RemoveDelete,
     vars, InOrder, Refreshes
<1>3. CASE LoadInitial
  <2>1. /\ main' = "panic" \/ loaded' = version \/ loaded' = Partial
        /\ loaded' = Partial /\ main' # "panic" => loaded' = version \/ "error" \in excuses'
        /\ version' = version /\ resources' = resources /\ refresh' = refresh /\ ~started'
    BY <1>3 DEF LoadInitial, FlagIsLast
  <2>2. \A t \in Refreshes' : refresh'[t].step # "store"
    BY <2>1 DEF FlagIsLast
  <2> QED
    BY <1>a, <2>1, <2>2 DEF InOrder, Partial
<1>4. CASE SetInitial
  <2>1. /\ main = "set" /\ main' # "set" /\ version' = version /\ refresh' = refresh /\ ~started'
        /\ resources' \in {resources, loaded}
    BY <1>4 DEF SetInitial, FlagIsLast
  <2>2. \A t \in Refreshes' : refresh'[t].step # "store"
    BY <2>1 DEF FlagIsLast
  <2> QED
    BY <2>1, <2>2 DEF InOrder
<1>5. CASE RearmTimer
  <2>1. UNCHANGED <<version, main, loaded, resources, removal, excuses>>
    BY <1>5 DEF RearmTimer
  <2>2. \A t \in Refreshes' : refresh'[t].step = "store" =>
            t \in Refreshes /\ refresh[t].step = "store" /\ refresh'[t].seen = refresh[t].seen
    <3>1. [step |-> "armed", seen |-> Unset] \in Timer
      BY DEF Timer, Unset
    <3> QED
      BY <1>5, <3>1, RearmStep, TimerAdded DEF Moved
  <2> QED
    BY <2>1, <2>2 DEF InOrder
<1>6. ASSUME NEW t \in Refreshes, FireTimer(t) PROVE InOrder'
  <2>1. UNCHANGED <<version, main, loaded, resources, removal>>
    BY <1>6 DEF FireTimer
  <2>2. \A u \in Refreshes' : refresh'[u].step = "store" =>
            u \in Refreshes /\ refresh[u].step = "store" /\ refresh'[u].seen = refresh[u].seen
    <3>1. \E step \in {"load", "done"} : Moved(t, step, refresh[t].seen)
      BY <1>6, FireStep
    <3> QED
      BY <3>1 DEF Moved
  <2>3. excuses' = {} => excuses = {}
    BY <1>6 DEF FireTimer
  <2> QED
    BY <2>1, <2>2, <2>3 DEF InOrder
<1>7. ASSUME NEW t \in Refreshes, LoadAgain(t) PROVE InOrder'
  <2>1. UNCHANGED <<version, main, loaded, resources, removal>>
    BY <1>7 DEF LoadAgain
  <2>2. CASE Moved(t, "panic", refresh[t].seen) /\ removal # "none" /\ UNCHANGED excuses
    BY <2>1, <2>2 DEF InOrder, Moved
  <2>3. ASSUME NEW read \in {version, Partial}, Moved(t, "store", read),
               excuses' = excuses \cup (IF read = Partial THEN {"error"} ELSE {})
                                 \cup (IF Loading THEN {"overlap"} ELSE {})
        PROVE  InOrder'
    <3>1. refresh'[t].seen = read /\ read <= version
      BY <1>a, <2>3 DEF Moved, Partial
    <3>2. \A u \in Refreshes' : refresh'[u].step = "store" => refresh'[u].seen <= version
      BY <2>3, <3>1 DEF InOrder, Moved
    <3>3. excuses' = {} => /\ excuses = {} /\ read = version /\ main # "set"
                           /\ \A u \in Refreshes' : refresh'[u].step = "store" => u = t
      BY <2>3 DEF Moved, Loading
    <3> QED
      BY <2>1, <3>1, <3>2, <3>3 DEF InOrder
  <2> QED
    BY <1>7, <2>2, <2>3, LoadStep
<1>8. ASSUME NEW t \in Refreshes, StoreAgain(t) PROVE InOrder'
  <2>1. refresh[t].step = "store" /\ UNCHANGED <<version, main, loaded, removal, excuses>>
    BY <1>8 DEF StoreAgain
  <2>2. \A u \in Refreshes' : refresh'[u].step = "store" =>
            /\ u # t /\ u \in Refreshes
            /\ refresh[u].step = "store" /\ refresh'[u].seen = refresh[u].seen
    <3>1. \E step \in {"panic", "done"}, read \in Int : Moved(t, step, read)
      BY <1>a, <1>8, StoreStep DEF Unset
    <3> QED
      BY <3>1 DEF Moved
  <2>3. resources' \in {resources, refresh[t].seen}
    BY <1>8 DEF StoreAgain
  <2> QED
    BY <2>1, <2>2, <2>3 DEF InOrder
<1>9. CASE RemoveClear
  <2>1. Unset <= version
    BY <1>a DEF Unset
  <2> QED
    BY <1>9, <2>1 DEF RemoveClear, InOrder, Refreshes
<1> QED
  BY <1>1, <1>2, <1>3, <1>4, <1>5, <1>6, <1>7, <1>8, <1>9, NextCases

LEMMA InvAlways == Spec => []IInv
<1>1. IInv /\ [Next]_vars => IInv'
  <2> SUFFICES ASSUME IInv, [Next]_vars PROVE IInv'
    OBVIOUS
  <2>1. TypeOK'
    BY TypeStep DEF IInv
  <2>2. FlagIsLast'
    BY FlagStep DEF IInv
  <2>3. Fresh'
    BY <2>1, <2>2, FreshStep DEF IInv
  <2>4. InOrder'
    BY <2>1, <2>2, InOrderStep DEF IInv
  <2> QED
    BY <2>1, <2>2, <2>3, <2>4 DEF IInv
<1> QED
  BY <1>1, InitInv, PTL DEF Spec

-----------------------------------------------------------------------------
(* The theorems *)

\* The watcher is well typed in every reachable state, no CRD change is lost
\* once it is at rest, and no refresh runs beside the initial load.
THEOREM WatcherHolds == Spec => []Inv
<1>1. ASSUME IInv PROVE AtRestFresh
  <2> SUFFICES ASSUME AtRest, excuses = {} PROVE resources = version
    BY DEF AtRestFresh
  <2>1. ~Coming /\ ~Loading
    BY DEF AtRest, Coming, Loading, IInv, TypeOK
  <2> QED
    BY <1>1, <2>1 DEF AtRest, IInv, Fresh, Current
<1>2. ASSUME IInv PROVE InitialLoadAlone
  BY <1>2 DEF IInv, FlagIsLast, InitialLoadAlone
<1>3. IInv => Inv
  BY <1>1, <1>2 DEF Inv, IInv
<1> QED
  BY <1>3, InvAlways, PTL

\* What a refresh stores is never older than what was there, unless an excuse
\* applies or the cluster is being removed.
THEOREM NeverGoesBack == Spec => NeverOlder
<1> DEFINE A == excuses = {} /\ removal' = "none" => resources' >= resources
<1>1. ASSUME IInv, [Next]_vars PROVE [A]_vars
  <2> SUFFICES ASSUME excuses = {}, removal' = "none" PROVE resources' >= resources
    OBVIOUS
  <2>a. /\ resources \in Int /\ loaded \in Int
        /\ \A t \in Refreshes : refresh[t].seen \in Int
    BY <1>1, TimerFields DEF IInv, TypeOK
  <2>1. CASE SetInitial
    BY <1>1, <2>1, <2>a DEF SetInitial, IInv, InOrder
  <2>2. ASSUME NEW t \in Refreshes, StoreAgain(t) PROVE resources' >= resources
    <3>1. /\ refresh[t].step = "store" /\ removal' = removal
          /\ resources' \in {resources, refresh[t].seen}
      BY <2>2 DEF StoreAgain
    <3>2. resources <= refresh[t].seen
      BY <1>1, <3>1 DEF IInv, InOrder
    <3> QED
      BY <2>a, <3>1, <3>2
  <2>3. CASE RemoveClear
    BY <2>3 DEF RemoveClear
  <2>4. CASE ~SetInitial /\ ~RemoveClear /\ ~(\E t \in Refreshes : StoreAgain(t))
    <3>1. resources' = resources
      BY <1>1, <2>4, NextCases DEF ChangeCRD, HandleEvent, Sync, LoadInitial, Start, ReceiveSignal,
         RearmTimer, StopWorker, FireTimer, LoadAgain, RemoveCancel, RemoveDelete, vars
    <3> QED
      BY <2>a, <3>1
  <2> QED
    BY <2>1, <2>2, <2>3, <2>4
<1>2. IInv /\ [Next]_vars => [A]_vars
  BY <1>1
<1> QED
  BY <1>2, InvAlways, PTL DEF Spec, NeverOlder

-----------------------------------------------------------------------------
(***************************************************************************)
(* ResourceCounts: summaries tell the truth.  CountsAreReal and            *)
(* OmissionsAreFailures look at finished calls only; the strengthening     *)
(* follows a goroutine from its first page (JobsAddUp, JobsAccount) and    *)
(* says that a map which is handed out belongs to a call all of whose      *)
(* goroutines have ended (Settled).                                        *)
(***************************************************************************)

\* Call c made its own summary, and none of its goroutines runs any more.
Finished(c) ==
    /\ pc[c] \in {"store", "done"}
    /\ held[c] = c
    /\ todo[c] = {}
    /\ \A r \in Resources : ~HoldsSlot(c, r)

\* Before its discovery a call has done nothing.
FreshStarts ==
    \A c \in Calls : pc[c] \in {"idle", "lookup", "discover"} =>
        \A r \in Resources : job[c][r] = NoJob /\ summary[c][r] = None

\* Only finished summaries are handed out.
Settled ==
    /\ \A c \in Calls : pc[c] = "start" => held[c] = c
    /\ \A c \in Calls : pc[c] = "store" => Finished(c)
    /\ \A c \in Calls : pc[c] = "done" => Finished(held[c])
    /\ entry # None => Finished(entry)

\* What is counted and what is still to come is a number there has been.
JobsAddUp ==
    \A c \in Calls, r \in Resources :
        /\ HoldsSlot(c, r) => pc[c] = "start"
        /\ pc[c] = "start" => world[r] \in seen[c][r]
        /\ job[c][r].at \in {"none", "list"} /\ job[c][r].left = None => job[c][r].total = 0
        /\ HoldsSlot(c, r) /\ job[c][r].left # None =>
              job[c][r].total + job[c][r].left \in seen[c][r]
        /\ job[c][r].at = "write" => job[c][r].left = 0
        /\ job[c][r].at = "none" => job[c][r].left = None
        /\ summary[c][r] \in seen[c][r] \cup {None}

\* Whatever was found is to be listed, is being listed, failed or was counted.
JobsAccount ==
    \A c \in Calls, r \in Resources :
        /\ r \in found[c] => r \in todo[c] \/ job[c][r].at # "none"
        /\ r \in todo[c] => job[c][r].at = "none"
        /\ job[c][r].at = "done" => summary[c][r] # None

CountsIInv == CountsTypeOK /\ FreshStarts /\ Settled /\ JobsAddUp /\ JobsAccount

-----------------------------------------------------------------------------
USE DEF Goto, HoldsSlot, AllDone, ListEnds, Steps

\* The disjuncts of a step, for the case analyses below.
LEMMA CountsNextCases ==
    ASSUME [CountsNext]_countsVars
    PROVE  \/ Expire
           \/ \E r \in Resources : Change(r)
           \/ \E c \in Calls : Begin(c)
           \/ \E c \in Calls : Lookup(c)
           \/ \E c \in Calls : Discover(c)
           \/ \E c \in Calls : StartList(c)
           \/ \E c \in Calls : WaitForLists(c)
           \/ \E c \in Calls : Store(c)
           \/ \E c \in Calls, r \in Resources : ListPage(c, r)
           \/ \E c \in Calls, r \in Resources : WriteCount(c, r)
           \/ UNCHANGED countsVars
BY DEF CountsNext, Step

LEMMA CountsInitInv == CountsInit => CountsIInv
<1> SUFFICES ASSUME CountsInit PROVE CountsIInv
  OBVIOUS
<1>1. CountsTypeOK
  BY BoundsAssumption DEF CountsInit, CountsTypeOK, Job, NoJob
<1>2. FreshStarts /\ Settled
  BY DEF CountsInit, FreshStarts, Settled
<1>3. JobsAddUp /\ JobsAccount
  BY DEF CountsInit, JobsAddUp, JobsAccount, NoJob
<1> QED
  BY <1>1, <1>2, <1>3 DEF CountsIInv

\* The goroutines other than the one of call c for resource r.
OthersSame(c, r) == \A d \in Calls, q \in Resources : d # c \/ q # r => job'[d][q] = job[d][q]

LEMMA JobSet ==
    ASSUME job \in [Calls -> [Resources -> Job]], NEW c \in Calls, NEW r \in Resources,
           NEW x \in Job, job' = [job EXCEPT ![c][r] = x]
    PROVE  job' \in [Calls -> [Resources -> Job]] /\ job'[c][r] = x /\ OthersSame(c, r)
BY DEF OthersSame

\* A goroutine starts where it stood, that is with nothing.
LEMMA StartStep ==
    ASSUME CountsTypeOK, NEW c \in Calls, StartList(c)
    PROVE  \E r \in todo[c] :
              /\ todo' = [todo EXCEPT ![c] = @ \ {r}]
              /\ job' \in [Calls -> [Resources -> Job]]
              /\ job'[c][r] = [at |-> "list", total |-> job[c][r].total, left |-> job[c][r].left]
              /\ OthersSame(c, r)
<1>1. PICK r \in todo[c] : /\ todo' = [todo EXCEPT ![c] = @ \ {r}]
                           /\ job' = [job EXCEPT ![c][r].at = "list"]
  BY DEF StartList
<1> DEFINE new == [at |-> "list", total |-> job[c][r].total, left |-> job[c][r].left]
<1>2. r \in Resources /\ job[c][r] \in Job /\ job \in [Calls -> [Resources -> Job]]
  BY <1>1 DEF CountsTypeOK
<1>3. new = [job[c][r] EXCEPT !.at = "list"] /\ new \in Job
  BY <1>2 DEF Job
<1>4. job' = [job EXCEPT ![c][r] = new]
  BY <1>1, <1>2, <1>3
<1> HIDE DEF new
<1>5. job' \in [Calls -> [Resources -> Job]] /\ job'[c][r] = new /\ OthersSame(c, r)
  BY <1>2, <1>3, <1>4, JobSet
<1> QED
  BY <1>1, <1>5 DEF new

\* One page more: the sum of what is counted and what is left stays.
LEMMA PageStep ==
    ASSUME CountsTypeOK, NEW c \in Calls, NEW r \in Resources, ListPage(c, r)
    PROVE  /\ job' \in [Calls -> [Resources -> Job]]
           /\ OthersSame(c, r)
           /\ \/ job'[c][r] = [at |-> "failed", total |-> 0, left |-> None]
              \/ /\ job'[c][r].at \in {"list", "write"}
                 /\ job'[c][r].left \in Nat
                 /\ job'[c][r].at = "write" => job'[c][r].left = 0
                 /\ job'[c][r].total + job'[c][r].left =
                      job[c][r].total + IF job[c][r].left = None THEN world[r] ELSE job[c][r].left
<1> DEFINE old == job[c][r]
           rest == IF old.left = None THEN world[r] ELSE old.left
           page == IF rest < PageSize THEN rest ELSE PageSize
           new == [at |-> IF page = rest THEN "write" ELSE "list",
                   total |-> old.total + page, left |-> rest - page]
           bad == [at |-> "failed", total |-> 0, left |-> None]
<1>1. old \in Job /\ old.at = "list" /\ job \in [Calls -> [Resources -> Job]]
  BY DEF CountsTypeOK, ListPage
<1>2. rest \in Nat /\ old.total \in Nat
  BY <1>1 DEF Job, CountsTypeOK
<1>3. page \in Nat /\ page <= rest
  BY <1>2, SlotsAssumption
<1>4. rest - page \in Nat /\ old.total + page \in Nat
  BY <1>2, <1>3
<1>5. new \in Job
  BY <1>4 DEF Job
<1>6. bad \in Job /\ bad = [NoJob EXCEPT !.at = "failed"]
  BY DEF Job, NoJob
<1>7. new.total + new.left = old.total + rest
  BY <1>2, <1>3
<1>8. /\ new.at \in {"list", "write"} /\ new.left \in Nat
      /\ new.at = "write" => new.left = 0
  BY <1>2, <1>3, <1>4
<1>9. job' = [job EXCEPT ![c][r] = new] \/ job' = [job EXCEPT ![c][r] = bad]
  BY <1>1, <1>6 DEF ListPage
<1>10. CASE job' = [job EXCEPT ![c][r] = new]
  <2> HIDE DEF new, rest
  <2>1. job' \in [Calls -> [Resources -> Job]] /\ job'[c][r] = new /\ OthersSame(c, r)
    BY <1>1, <1>5, <1>10, JobSet
  <2> QED
    BY <2>1, <1>7, <1>8 DEF rest
<1>11. CASE job' = [job EXCEPT ![c][r] = bad]
  BY <1>1, <1>6, <1>11, JobSet
<1> QED
  BY <1>9, <1>10, <1>11

\* The count goes to the map, and the goroutine ends.
LEMMA WriteStep ==
    ASSUME CountsTypeOK, NEW c \in Calls, NEW r \in Resources, WriteCount(c, r)
    PROVE  /\ job' \in [Calls -> [Resources -> Job]]
           /\ OthersSame(c, r)
           /\ job'[c][r] = [at |-> "done", total |-> job[c][r].total, left |-> job[c][r].left]
           /\ summary' \in [Calls -> [Resources -> Nat \cup {None}]]
           /\ summary'[c][r] = job[c][r].total
           /\ \A d \in Calls, q \in Resources : d # c \/ q # r => summary'[d][q] = summary[d][q]
<1> DEFINE new == [at |-> "done", total |-> job[c][r].total, left |-> job[c][r].left]
<1>1. job[c][r] \in Job /\ job \in [Calls -> [Resources -> Job]]
  BY DEF CountsTypeOK
<1>2. new = [job[c][r] EXCEPT !.at = "done"] /\ new \in Job /\ job[c][r].total \in Nat
  BY <1>1 DEF Job
<1>3. job' = [job EXCEPT ![c][r] = new]
  BY <1>1, <1>2 DEF WriteCount
<1> HIDE DEF new
<1>4. job' \in [Calls -> [Resources -> Job]] /\ job'[c][r] = new /\ OthersSame(c, r)
  BY <1>1, <1>2, <1>3, JobSet
<1>5. /\ summary' \in [Calls -> [Resources -> Nat \cup {None}]]
      /\ summary'[c][r] = job[c][r].total
      /\ \A d \in Calls, q \in Resources : d # c \/ q # r => summary'[d][q] = summary[d][q]
  BY <1>2 DEF WriteCount, CountsTypeOK
<1> QED
  BY <1>4, <1>5 DEF new

\* What a discovery changes, when it succeeds.
LEMMA DiscoverStep ==
    ASSUME CountsTypeOK, NEW c \in Calls, Discover(c)
    PROVE  /\ \A d \in Calls : d # c =>
                  pc'[d] = pc[d] /\ held'[d] = held[d] /\ found'[d] = found[d]
                  /\ todo'[d] = todo[d] /\ seen'[d] = seen[d]
           /\ \/ /\ pc'[c] = "failed"
                 /\ found' = found /\ todo' = todo /\ held' = held /\ seen' = seen
              \/ /\ pc'[c] = "start" /\ held' = [held EXCEPT ![c] = c]
                 /\ found'[c] = todo'[c]
                 /\ seen' = [seen EXCEPT ![c] = [r \in Resources |-> {world[r]}]]
           /\ pc' \in [Calls -> Steps]
           /\ found' \in [Calls -> SUBSET Resources]
           /\ todo' \in [Calls -> SUBSET Resources]
           /\ held' \in [Calls -> Calls \cup {None}]
           /\ seen' \in [Calls -> [Resources -> SUBSET (0 .. MaxObjects)]]
<1>1. CASE Goto(c, "failed") /\ UNCHANGED <<found, todo, held, seen>>
  BY <1>1 DEF CountsTypeOK
<1>2. ASSUME NEW some \in SUBSET Resources,
             found' = [found EXCEPT ![c] = some],
             todo' = [todo EXCEPT ![c] = some],
             held' = [held EXCEPT ![c] = c],
             seen' = [seen EXCEPT ![c] = [r \in Resources |-> {world[r]}]],
             Goto(c, "start")
      PROVE  /\ \A d \in Calls : d # c =>
                  pc'[d] = pc[d] /\ held'[d] = held[d] /\ found'[d] = found[d]
                  /\ todo'[d] = todo[d] /\ seen'[d] = seen[d]
             /\ pc'[c] = "start" /\ found'[c] = todo'[c]
             /\ pc' \in [Calls -> Steps]
             /\ found' \in [Calls -> SUBSET Resources]
             /\ todo' \in [Calls -> SUBSET Resources]
             /\ held' \in [Calls -> Calls \cup {None}]
             /\ seen' \in [Calls -> [Resources -> SUBSET (0 .. MaxObjects)]]
  <2>1. [r \in Resources |-> {world[r]}] \in [Resources -> SUBSET (0 .. MaxObjects)]
    BY DEF CountsTypeOK
  <2> QED
    BY <1>2, <2>1 DEF CountsTypeOK
<1> QED
  BY <1>1, <1>2 DEF Discover

LEMMA CountsTypeStep == ASSUME CountsTypeOK, Settled, [CountsNext]_countsVars PROVE CountsTypeOK'
<1> USE DEF CountsTypeOK
<1>1. CASE Expire
  BY <1>1 DEF Expire
<1>2. ASSUME NEW r \in Resources, Change(r) PROVE CountsTypeOK'
  BY <1>2 DEF Change
<1>3. ASSUME NEW c \in Calls, Begin(c) PROVE CountsTypeOK'
  BY <1>3 DEF Begin
<1>4. ASSUME NEW c \in Calls, Lookup(c) PROVE CountsTypeOK'
  BY <1>4 DEF Lookup
<1>5. ASSUME NEW c \in Calls, Discover(c) PROVE CountsTypeOK'
  <2>1. \A d \in Calls : pc'[d] = "done" => held'[d] # None
    BY <1>5, DiscoverStep
  <2> QED
    BY <1>5, <2>1, DiscoverStep DEF Discover
<1>6. ASSUME NEW c \in Calls, StartList(c) PROVE CountsTypeOK'
  <2>1. PICK r \in todo[c] : /\ todo' = [todo EXCEPT ![c] = @ \ {r}]
                             /\ job' \in [Calls -> [Resources -> Job]]
    BY <1>6, StartStep
  <2>2. todo' \in [Calls -> SUBSET Resources]
    BY <2>1
  <2> QED
    BY <1>6, <2>1, <2>2 DEF StartList
<1>7. ASSUME NEW c \in Calls, WaitForLists(c) PROVE CountsTypeOK'
  BY <1>7, NoneAssumption DEF WaitForLists, Settled
<1>8. ASSUME NEW c \in Calls, Store(c) PROVE CountsTypeOK'
  BY <1>8, NoneAssumption DEF Store, Settled, Finished
<1>9. ASSUME NEW c \in Calls, NEW r \in Resources, ListPage(c, r) PROVE CountsTypeOK'
  BY <1>9, PageStep DEF ListPage
<1>10. ASSUME NEW c \in Calls, NEW r \in Resources, WriteCount(c, r) PROVE CountsTypeOK'
  BY <1>10, WriteStep DEF WriteCount
<1>11. CASE UNCHANGED countsVars
  BY <1>11 DEF countsVars
<1> QED
  BY <1>1, <1>2, <1>3, <1>4, <1>5, <1>6, <1>7, <1>8, <1>9, <1>10, <1>11, CountsNextCases

LEMMA CountsFreshStep ==
    ASSUME CountsTypeOK, FreshStarts, JobsAddUp, [CountsNext]_countsVars PROVE FreshStarts'
<1> USE DEF FreshStarts
<1>1. CASE Expire
  BY <1>1 DEF Expire
<1>2. ASSUME NEW r \in Resources, Change(r) PROVE FreshStarts'
  BY <1>2 DEF Change
<1>3. ASSUME NEW c \in Calls, Begin(c) PROVE FreshStarts'
  BY <1>3 DEF Begin, CountsTypeOK
<1>4. ASSUME NEW c \in Calls, Lookup(c) PROVE FreshStarts'
  BY <1>4 DEF Lookup, CountsTypeOK
<1>5. ASSUME NEW c \in Calls, Discover(c) PROVE FreshStarts'
  BY <1>5 DEF Discover, CountsTypeOK
<1>6. ASSUME NEW c \in Calls, StartList(c) PROVE FreshStarts'
  BY <1>6 DEF StartList, CountsTypeOK
<1>7. ASSUME NEW c \in Calls, WaitForLists(c) PROVE FreshStarts'
  BY <1>7 DEF WaitForLists, CountsTypeOK
<1>8. ASSUME NEW c \in Calls, Store(c) PROVE FreshStarts'
  BY <1>8 DEF Store, CountsTypeOK
<1>9. ASSUME NEW c \in Calls, NEW r \in Resources, ListPage(c, r) PROVE FreshStarts'
  <2>1. pc[c] = "start" /\ UNCHANGED <<pc, summary>>
    BY <1>9 DEF ListPage, JobsAddUp
  <2>2. OthersSame(c, r)
    BY <1>9, PageStep
  <2> QED
    BY <2>1, <2>2 DEF OthersSame
<1>10. ASSUME NEW c \in Calls, NEW r \in Resources, WriteCount(c, r) PROVE FreshStarts'
  <2>1. pc[c] = "start"
    BY <1>10 DEF WriteCount, JobsAddUp
  <2> QED
    BY <1>10, <2>1 DEF WriteCount, CountsTypeOK
<1>11. CASE UNCHANGED countsVars
  BY <1>11 DEF countsVars
<1> QED
  BY <1>1, <1>2, <1>3, <1>4, <1>5, <1>6, <1>7, <1>8, <1>9, <1>10, <1>11, CountsNextCases

\* A finished call stays finished: its goroutines have ended, and it makes no
\* other summary.
LEMMA FinishedStays ==
    ASSUME CountsTypeOK, Settled, JobsAddUp, [CountsNext]_countsVars, NEW d \in Calls, Finished(d)
    PROVE  Finished(d)'
<1> USE DEF Finished
<1>1. CASE Expire
  BY <1>1 DEF Expire
<1>2. ASSUME NEW r \in Resources, Change(r) PROVE Finished(d)'
  BY <1>2 DEF Change
<1>3. ASSUME NEW c \in Calls, Begin(c) PROVE Finished(d)'
  BY <1>3 DEF Begin, CountsTypeOK
<1>4. ASSUME NEW c \in Calls, Lookup(c) PROVE Finished(d)'
  BY <1>4 DEF Lookup, CountsTypeOK
<1>5. ASSUME NEW c \in Calls, Discover(c) PROVE Finished(d)'
  BY <1>5 DEF Discover, CountsTypeOK
<1>6. ASSUME NEW c \in Calls, StartList(c) PROVE Finished(d)'
  BY <1>6 DEF StartList, CountsTypeOK
<1>7. ASSUME NEW c \in Calls, WaitForLists(c) PROVE Finished(d)'
  BY <1>7 DEF WaitForLists, CountsTypeOK
<1>8. ASSUME NEW c \in Calls, Store(c) PROVE Finished(d)'
  BY <1>8 DEF Store, CountsTypeOK
<1>9. ASSUME NEW c \in Calls, NEW r \in Resources, ListPage(c, r) PROVE Finished(d)'
  <2>1. pc[c] = "start" /\ UNCHANGED <<pc, held, todo>>
    BY <1>9 DEF ListPage, JobsAddUp
  <2>2. OthersSame(c, r)
    BY <1>9, PageStep
  <2> QED
    BY <2>1, <2>2 DEF OthersSame
<1>10. ASSUME NEW c \in Calls, NEW r \in Resources, WriteCount(c, r) PROVE Finished(d)'
  <2>1. pc[c] = "start"
    BY <1>10 DEF WriteCount, JobsAddUp
  <2> QED
    BY <1>10, <2>1 DEF WriteCount, CountsTypeOK
<1>11. CASE UNCHANGED countsVars
  BY <1>11 DEF countsVars
<1> QED
  BY <1>1, <1>2, <1>3, <1>4, <1>5, <1>6, <1>7, <1>8, <1>9, <1>10, <1>11, CountsNextCases

LEMMA SettledStep == ASSUME CountsTypeOK, Settled, JobsAddUp, [CountsNext]_countsVars PROVE Settled'
<1> USE DEF Settled
<1>a. \A d \in Calls : Finished(d) => Finished(d)'
  BY FinishedStays
<1>b. \A d \in Calls : pc[d] = "done" => held[d] \in Calls
  BY DEF CountsTypeOK
<1>1. CASE Expire
  BY <1>1, <1>a, <1>b DEF Expire
<1>2. ASSUME NEW r \in Resources, Change(r) PROVE Settled'
  BY <1>2, <1>a, <1>b DEF Change, CountsTypeOK
<1>3. ASSUME NEW c \in Calls, Begin(c) PROVE Settled'
  BY <1>3, <1>a, <1>b DEF Begin, CountsTypeOK
<1>4. ASSUME NEW c \in Calls, Lookup(c) PROVE Settled'
  BY <1>4, <1>a, <1>b DEF Lookup, CountsTypeOK
<1>5. ASSUME NEW c \in Calls, Discover(c) PROVE Settled'
  <2>1. UNCHANGED entry /\ pc[c] = "discover" /\ ~Finished(c)
    BY <1>5 DEF Discover, Finished
  <2>2. \A d \in Calls : d # c => held'[d] = held[d] /\ pc'[d] = pc[d]
    BY <1>5, DiscoverStep
  <2>3. pc'[c] = "failed" \/ (pc'[c] = "start" /\ held'[c] = c)
    BY <1>5, DiscoverStep
  <2> QED
    BY <1>a, <1>b, <2>1, <2>2, <2>3 DEF CountsTypeOK
<1>6. ASSUME NEW c \in Calls, StartList(c) PROVE Settled'
  BY <1>6, <1>a, <1>b DEF StartList, CountsTypeOK
<1>7. ASSUME NEW c \in Calls, WaitForLists(c) PROVE Settled'
  <2>1. Finished(c)'
    BY <1>7 DEF WaitForLists, CountsTypeOK, Finished
  <2> QED
    BY <1>7, <1>a, <1>b, <2>1 DEF WaitForLists, CountsTypeOK
<1>8. ASSUME NEW c \in Calls, Store(c) PROVE Settled'
  <2>1. Finished(c)' /\ held[c] = c
    BY <1>8, <1>a DEF Store, Finished
  <2> QED
    BY <1>8, <1>a, <1>b, <2>1 DEF Store, CountsTypeOK
<1>9. ASSUME NEW c \in Calls, NEW r \in Resources, ListPage(c, r) PROVE Settled'
  BY <1>9, <1>a, <1>b DEF ListPage, CountsTypeOK
<1>10. ASSUME NEW c \in Calls, NEW r \in Resources, WriteCount(c, r) PROVE Settled'
  BY <1>10, <1>a, <1>b DEF WriteCount, CountsTypeOK
<1>11. CASE UNCHANGED countsVars
  BY <1>11, <1>a, <1>b DEF countsVars, CountsTypeOK
<1> QED
  BY <1>1, <1>2, <1>3, <1>4, <1>5, <1>6, <1>7, <1>8, <1>9, <1>10, <1>11, CountsNextCases

LEMMA AddUpStep ==
    ASSUME CountsTypeOK, FreshStarts, JobsAccount, JobsAddUp, [CountsNext]_countsVars PROVE JobsAddUp'
<1> USE DEF JobsAddUp
<1>1. CASE Expire
  BY <1>1 DEF Expire
<1>2. ASSUME NEW r \in Resources, Change(r) PROVE JobsAddUp'
  <2>1. \A c \in Calls, q \in Resources : seen[c][q] \subseteq seen'[c][q]
    BY <1>2 DEF Change, CountsTypeOK
  <2>2. \A c \in Calls, q \in Resources : pc[c] = "start" => world'[q] \in seen'[c][q]
    <3>1. PICK n \in 0 .. MaxObjects :
             /\ world' = [world EXCEPT ![r] = n]
             /\ seen' = [c \in Calls |-> IF pc[c] = "start"
                                         THEN [seen[c] EXCEPT ![r] = @ \cup {n}] ELSE seen[c]]
      BY <1>2 DEF Change
    <3> QED
      BY <3>1 DEF CountsTypeOK
  <2> QED
    BY <1>2, <2>1, <2>2 DEF Change
<1>3. ASSUME NEW c \in Calls, Begin(c) PROVE JobsAddUp'
  BY <1>3 DEF Begin, CountsTypeOK
<1>4. ASSUME NEW c \in Calls, Lookup(c) PROVE JobsAddUp'
  BY <1>4 DEF Lookup, CountsTypeOK
<1>5. ASSUME NEW c \in Calls, Discover(c) PROVE JobsAddUp'
  <2>1. UNCHANGED <<world, job, summary>> /\ pc[c] = "discover"
    BY <1>5 DEF Discover
  <2>2. \A r \in Resources : job[c][r] = NoJob /\ summary[c][r] = None
    BY <2>1 DEF FreshStarts
  <2>3. \A d \in Calls : d # c => pc'[d] = pc[d] /\ seen'[d] = seen[d]
    BY <1>5, DiscoverStep
  <2>4. pc'[c] # "start" \/ \A r \in Resources : seen'[c][r] = {world[r]}
    BY <1>5, DiscoverStep
  <2> QED
    BY <2>1, <2>2, <2>3, <2>4 DEF NoJob
<1>6. ASSUME NEW c \in Calls, StartList(c) PROVE JobsAddUp'
  <2>1. UNCHANGED <<pc, seen, world, summary>>
    BY <1>6 DEF StartList
  <2>2. pc[c] = "start"
    BY <1>6 DEF StartList
  <2>3. PICK r \in todo[c] : /\ OthersSame(c, r)
          /\ job'[c][r] = [at |-> "list", total |-> job[c][r].total, left |-> job[c][r].left]
    BY <1>6, StartStep
  <2>4. r \in Resources /\ job[c][r].at = "none"
    BY <2>3 DEF JobsAccount, CountsTypeOK
  <2> QED
    BY <2>1, <2>2, <2>3, <2>4 DEF OthersSame
<1>7. ASSUME NEW c \in Calls, WaitForLists(c) PROVE JobsAddUp'
  BY <1>7 DEF WaitForLists, CountsTypeOK
<1>8. ASSUME NEW c \in Calls, Store(c) PROVE JobsAddUp'
  BY <1>8 DEF Store, CountsTypeOK
<1>9. ASSUME NEW c \in Calls, NEW r \in Resources, ListPage(c, r) PROVE JobsAddUp'
  <2>1. pc[c] = "start" /\ UNCHANGED <<pc, seen, world, summary>>
    BY <1>9 DEF ListPage
  <2>2. OthersSame(c, r) /\ job[c][r].at = "list"
    BY <1>9, PageStep DEF ListPage
  <2>3. CASE job'[c][r] = [at |-> "failed", total |-> 0, left |-> None]
    BY <2>1, <2>2, <2>3 DEF OthersSame
  <2>4. CASE /\ job'[c][r].at \in {"list", "write"}
             /\ job'[c][r].left \in Nat
             /\ job'[c][r].at = "write" => job'[c][r].left = 0
             /\ job'[c][r].total + job'[c][r].left =
                  job[c][r].total + IF job[c][r].left = None THEN world[r] ELSE job[c][r].left
    <3>1. job'[c][r].total + job'[c][r].left \in seen[c][r]
      <4>1. CASE job[c][r].left = None
        <5>1. job[c][r].total = 0 /\ world[r] \in Nat /\ world[r] \in seen[c][r]
          BY <2>1, <2>2, <4>1, BoundsAssumption DEF CountsTypeOK
        <5> QED
          BY <2>4, <4>1, <5>1
      <4>2. CASE job[c][r].left # None
        BY <2>2, <2>4, <4>2
      <4> QED
        BY <4>1, <4>2
    <3>2. job'[c][r].left # None
      BY <2>4, NoneAssumption
    <3> QED
      BY <2>1, <2>2, <2>4, <3>1, <3>2 DEF OthersSame
  <2> QED
    BY <1>9, <2>3, <2>4, PageStep
<1>10. ASSUME NEW c \in Calls, NEW r \in Resources, WriteCount(c, r) PROVE JobsAddUp'
  <2>1. UNCHANGED <<pc, seen, world>> /\ job[c][r].at = "write"
    BY <1>10 DEF WriteCount
  <2>2. job[c][r].total \in seen[c][r]
    <3>1. job[c][r].left = 0 /\ job[c][r].total \in Nat
      BY <2>1 DEF CountsTypeOK, Job
    <3> QED
      BY <2>1, <3>1, NoneAssumption
  <2>3. /\ OthersSame(c, r)
        /\ job'[c][r] = [at |-> "done", total |-> job[c][r].total, left |-> job[c][r].left]
        /\ summary'[c][r] = job[c][r].total
    BY <1>10, WriteStep
  <2>4. \A d \in Calls, q \in Resources : d # c \/ q # r => summary'[d][q] = summary[d][q]
    BY <1>10, WriteStep
  <2> QED
    BY <2>1, <2>2, <2>3, <2>4 DEF OthersSame
<1>11. CASE UNCHANGED countsVars
  BY <1>11 DEF countsVars
<1> QED
  BY <1>1, <1>2, <1>3, <1>4, <1>5, <1>6, <1>7, <1>8, <1>9, <1>10, <1>11, CountsNextCases

LEMMA AccountStep ==
    ASSUME CountsTypeOK, FreshStarts, JobsAccount, [CountsNext]_countsVars PROVE JobsAccount'
<1> USE DEF JobsAccount
<1>1. CASE Expire
  BY <1>1 DEF Expire
<1>2. ASSUME NEW r \in Resources, Change(r) PROVE JobsAccount'
  BY <1>2 DEF Change
<1>3. ASSUME NEW c \in Calls, Begin(c) PROVE JobsAccount'
  BY <1>3 DEF Begin
<1>4. ASSUME NEW c \in Calls, Lookup(c) PROVE JobsAccount'
  BY <1>4 DEF Lookup
<1>5. ASSUME NEW c \in Calls, Discover(c) PROVE JobsAccount'
  <2>1. UNCHANGED <<job, summary>> /\ pc[c] = "discover"
    BY <1>5 DEF Discover
  <2>2. \A r \in Resources : job[c][r] = NoJob /\ summary[c][r] = None
    BY <2>1 DEF FreshStarts
  <2>3. \A d \in Calls : d # c => found'[d] = found[d] /\ todo'[d] = todo[d]
    BY <1>5, DiscoverStep
  <2>4. found'[c] = todo'[c] \/ (found' = found /\ todo' = todo)
    BY <1>5, DiscoverStep
  <2> QED
    BY <2>1, <2>2, <2>3, <2>4 DEF NoJob
<1>6. ASSUME NEW c \in Calls, StartList(c) PROVE JobsAccount'
  <2>1. UNCHANGED <<found, summary>>
    BY <1>6 DEF StartList
  <2>2. PICK r \in todo[c] : /\ OthersSame(c, r) /\ todo' = [todo EXCEPT ![c] = @ \ {r}]
          /\ job'[c][r] = [at |-> "list", total |-> job[c][r].total, left |-> job[c][r].left]
    BY <1>6, StartStep
  <2> QED
    BY <2>1, <2>2 DEF OthersSame, CountsTypeOK
<1>7. ASSUME NEW c \in Calls, WaitForLists(c) PROVE JobsAccount'
  BY <1>7 DEF WaitForLists
<1>8. ASSUME NEW c \in Calls, Store(c) PROVE JobsAccount'
  BY <1>8 DEF Store
<1>9. ASSUME NEW c \in Calls, NEW r \in Resources, ListPage(c, r) PROVE JobsAccount'
  <2>1. UNCHANGED <<found, todo, summary>>
    BY <1>9 DEF ListPage
  <2>2. OthersSame(c, r)
    BY <1>9, PageStep
  <2>3. job[c][r].at = "list" /\ job'[c][r].at \in {"failed", "list", "write"}
    BY <1>9, PageStep DEF ListPage
  <2> QED
    BY <2>1, <2>2, <2>3 DEF OthersSame
<1>10. ASSUME NEW c \in Calls, NEW r \in Resources, WriteCount(c, r) PROVE JobsAccount'
  <2>1. UNCHANGED <<found, todo>> /\ job[c][r].at = "write" /\ job[c][r].total \in Nat
    BY <1>10 DEF WriteCount, CountsTypeOK, Job
  <2>2. /\ OthersSame(c, r)
        /\ job'[c][r] = [at |-> "done", total |-> job[c][r].total, left |-> job[c][r].left]
        /\ summary'[c][r] = job[c][r].total
    BY <1>10, WriteStep
  <2>3. \A d \in Calls, q \in Resources : d # c \/ q # r => summary'[d][q] = summary[d][q]
    BY <1>10, WriteStep
  <2> QED
    BY <2>1, <2>2, <2>3, NoneAssumption DEF OthersSame
<1>11. CASE UNCHANGED countsVars
  BY <1>11 DEF countsVars
<1> QED
  BY <1>1, <1>2, <1>3, <1>4, <1>5, <1>6, <1>7, <1>8, <1>9, <1>10, <1>11, CountsNextCases

LEMMA CountsInvAlways == CountsSpec => []CountsIInv
<1>1. CountsIInv /\ [CountsNext]_countsVars => CountsIInv'
  BY CountsTypeStep, CountsFreshStep, SettledStep, AddUpStep, AccountStep DEF CountsIInv
<1> QED
  BY CountsInitInv, <1>1, PTL DEF CountsSpec

-----------------------------------------------------------------------------
\* In every state the finished summaries are typed, hold only numbers of objects
\* there have been and lack only what failed, however many calls run at once.
THEOREM SummariesAreTrue == CountsSpec => []CountsInv
<1>1. CountsIInv => CountsInv
  <2> SUFFICES ASSUME CountsIInv PROVE CountsInv
    OBVIOUS
  <2> USE DEF CountsIInv
  <2>1. \A c \in Calls : pc[c] = "done" => held[c] \in Calls /\ Finished(held[c])
    BY DEF CountsTypeOK, Settled
  <2>2. CountsAreReal
    BY <2>1 DEF CountsAreReal, JobsAddUp
  <2>3. OmissionsAreFailures
    <3> SUFFICES ASSUME NEW d \in Calls, Finished(d), NEW r \in Resources,
                        summary[d][r] = None, r \in found[d]
                 PROVE  job[d][r].at = "failed"
      BY <2>1 DEF OmissionsAreFailures
    <3>1. job[d][r] \in Job
      BY DEF CountsTypeOK
    <3>2. job[d][r].at \in {"none", "list", "write", "done", "failed"}
      BY <3>1 DEF Job
    <3> QED
      BY <3>2 DEF JobsAccount, Finished
  <2> QED
    BY <2>2, <2>3 DEF CountsInv
<1> QED
  BY <1>1, CountsInvAlways, PTL

\* Nobody writes to a map that a caller has been handed.
THEOREM HandedOutMapsRest == CountsSpec => ReturnedMapsRest
<1>1. CountsIInv /\ [CountsNext]_countsVars =>
        [\A c \in Calls : pc[c] = "done" => summary'[held[c]] = summary[held[c]]]_countsVars
  <2> SUFFICES ASSUME CountsIInv, [CountsNext]_countsVars, NEW e \in Calls, pc[e] = "done"
               PROVE  summary'[held[e]] = summary[held[e]]
    OBVIOUS
  <2>1. held[e] \in Calls /\ Finished(held[e])
    BY DEF CountsIInv, CountsTypeOK, Settled
  <2>2. ASSUME NEW c \in Calls, NEW r \in Resources, WriteCount(c, r)
        PROVE  summary'[held[e]] = summary[held[e]]
    BY <2>1, <2>2 DEF WriteCount, Finished, CountsIInv, CountsTypeOK
  <2>3. (\A c \in Calls, r \in Resources : ~WriteCount(c, r)) => UNCHANGED summary
    BY CountsNextCases DEF Expire, Change, Begin, Lookup, Discover, StartList, WaitForLists, Store,
                     ListPage, countsVars
  <2> QED
    BY <2>2, <2>3
<1> QED
  BY <1>1, CountsInvAlways, PTL DEF CountsSpec, ReturnedMapsRest
=============================================================================
