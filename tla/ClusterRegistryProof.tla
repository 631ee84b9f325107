------------------------ MODULE ClusterRegistryProof ------------------------
(***************************************************************************)
(* Proofs about ClusterRegistry, for every set of calls and of cluster     *)
(* ids: the state is well typed, and what an undisturbed registration      *)
(* created stays reachable from the registry for as long as it runs.       *)
(***************************************************************************)
EXTENDS ClusterRegistry, TLAPS

SameId(c, d) == IdOf(c) = IdOf(d)

\* An instance is only ever registered, or held, under its creator's id.
OwnId ==
    /\ \A i \in Ids : registry[i] # None => IdOf(Creator(registry[i])) = i
    /\ \A c \in Calls : cur[c] # None => IdOf(Creator(cur[c])) = IdOf(c)

FillSteps == {"clients", "callbacks", "serverInfo", "handlers", "cache",
              "watch", "sync"}

StopSteps == {"stopAuth", "closeCache", "clear", "cancelWatch"}

\* Steps that work on the local instance have one.
HasCur ==
    \A c \in Calls :
        pc[c] \in FillSteps \cup StopSteps \cup {"token", "eksStore"}
            => cur[c] # None

\* Two calls running on one id have met.
Meeting ==
    \A c, d \in Calls :
        c # d /\ Active(c) /\ Active(d) /\ SameId(c, d) => c \in met

\* What a call has created tells how far it has come.
Progress ==
    /\ \A c \in openCaches : pc[c] \in {"watch", "sync"} \cup Final
    /\ \A c \in liveWatches : pc[c] \in {"sync"} \cup Final
    /\ \A c \in tokenLoops :
           pc[c] \in (RegisterSteps \ {"eksLookup"}) \cup Final

\* An undisturbed call fills in the instance that is registered.
FillsRegistered ==
    \A c \in Calls \ met :
        pc[c] \in FillSteps
            => /\ Registered(c) = cur[c]
               /\ kubectl[cur[c]] # None

\* While the cache of an undisturbed call c is open, the other calls on the id
\* have not read the registry yet, or are removals of this very instance that
\* have not got past closing its cache.
CacheHeld ==
    \A c \in openCaches \ met :
        /\ cur[c] # None
        /\ Registered(c) = cur[c]
        /\ kubectl[cur[c]] # None
        /\ cache[cur[c]] = c
        /\ \A d \in Calls \ {c} :
               Active(d) /\ SameId(c, d) =>
                   \/ pc[d] \in {"lookup", "eksLookup", "load"}
                   \/ pc[d] \in {"stopAuth", "closeCache"} /\ cur[d] = cur[c]

WatchHeld ==
    \A c \in liveWatches \ met :
        /\ cur[c] # None
        /\ Registered(c) = cur[c]
        /\ kubectl[cur[c]] # None
        /\ cancel[cur[c]] = c
        /\ \A d \in Calls \ {c} :
               Active(d) /\ SameId(c, d) =>
                   \/ pc[d] \in {"lookup", "eksLookup", "load"}
                   \/ pc[d] \in StopSteps /\ cur[d] = cur[c]

\* While the token loops of an undisturbed call c run, its placeholder is
\* about to be stored or is registered, and every call on the id that has read
\* the registry works on that placeholder and has not stopped it.
TokenLoopOf(c) ==
    \/ pc[c] = "eksStore" /\ cur[c] = <<c, "eks">>
    \/ /\ Registered(c) = <<c, "eks">>
       /\ \A d \in Calls :
              Active(d) /\ SameId(c, d) =>
                  \/ pc[d] \in {"lookup", "eksLookup", "load"}
                  \/ /\ pc[d] \notin {"closeCache", "clear", "cancelWatch",
                                      "delete"}
                     /\ cur[d] = <<c, "eks">>

TokenLoopHeld == \A c \in tokenLoops \ met : TokenLoopOf(c)

\* The creator of an instance that is registered or held has got past the
\* steps before it creates anything, and is no removal.
Begun(x) == pc[Creator(x)] \notin {"idle", "eksLookup"} \cup RemoveSteps

CreatorsBegan ==
    /\ \A i \in Ids : registry[i] # None => Begun(registry[i])
    /\ \A c \in Calls : cur[c] # None => Begun(cur[c])

\* Only removals take the steps of a removal.
RemovesRemove == \A c \in Calls : pc[c] \in RemoveSteps => Op(c) = "remove"

\* The Kubectl and the cancel function of an instance were written by a call
\* that works on that instance and on no other.
WritersHold ==
    /\ \A x \in Insts :
           kubectl[x] # None => /\ cur[kubectl[x]] = x
                                /\ pc[kubectl[x]] \in FillSteps \cup Final
    /\ \A x \in Insts :
           cancel[x] # None => /\ cur[cancel[x]] = x
                               /\ pc[cancel[x]] \in {"sync"} \cup Final

\* What an undisturbed call has read of the registry is still there.
ReadsHold ==
    /\ \A c \in Calls : pc[c] = "token" => IsEKS(cur[c])
    /\ \A c \in Calls \ met :
           /\ pc[c] \in {"token", "build"} \cup StopSteps
                  => Registered(c) = cur[c]
           /\ pc[c] = "eksStore"
                  => cur[c] = <<c, "eks">> \/ Registered(c) = cur[c]

\* A placeholder that a call is about to store was not built by a call that
\* nobody disturbed.
StoresUnbuilt ==
    \A c \in Calls : pc[c] = "eksStore" => kubectl[cur[c]] \in met \cup {None}

\* What an undisturbed call has filled in so far is still there.
FilledIn ==
    \A c \in Calls \ met :
        /\ pc[c] \in FillSteps \ {"clients"} => client[cur[c]]
        /\ pc[c] = "handlers" => callbacks[cur[c]] # "nil"
        /\ pc[c] = "serverInfo" => callbacks[cur[c]] # "nil"
        /\ pc[c] \in {"cache", "watch", "sync"} => callbacks[cur[c]] = "filled"
        /\ pc[c] \in {"watch", "sync"} => cache[cur[c]] # None
        /\ pc[c] = "sync" => c \in liveWatches
        /\ pc[c] \in {"watch", "sync"} => req[c].watch

\* Removals that have begun to take apart what they read.
Tearing(x) ==
    \E r \in Calls : /\ pc[r] \in {"closeCache", "clear", "cancelWatch", "delete"}
                     /\ cur[r] = x

\* An instance that an undisturbed call has built is complete until a removal
\* takes it apart, and no registration works on it any more.
Built(c) ==
    /\ pc[c] = "ok"
    /\ Registered(c) # None
    /\ kubectl[Registered(c)] = c

Alone(c) ==
    \A d \in Calls :
        Active(d) /\ SameId(c, d)
            => pc[d] \in {"lookup", "eksLookup"} \cup RemoveSteps

Whole(c) ==
    /\ Complete(Registered(c))
    /\ req[c].watch => c \in liveWatches /\ resources[Registered(c)]

BuiltKept ==
    \A c \in Calls \ met :
        Built(c) => Alone(c) /\ (Whole(c) \/ Tearing(Registered(c)))

\* The providers of an undisturbed call are stopped after it has ended, and a
\* placeholder with a stopped provider is being removed, on a calm id.
StoppedLast ==
    /\ \A d \in stopped \ met : pc[d] \in Final
    /\ \A i \in Ids :
           (/\ Calm(i)
            /\ registry[i] # None
            /\ IsEKS(registry[i])
            /\ Creator(registry[i]) \in stopped) => Tearing(registry[i])

IInv ==
    /\ TypeOK /\ OwnId /\ HasCur /\ Meeting /\ Progress
    /\ FillsRegistered /\ CacheHeld /\ WatchHeld /\ TokenLoopHeld
    /\ CreatorsBegan /\ RemovesRemove /\ WritersHold /\ ReadsHold
    /\ StoresUnbuilt /\ FilledIn /\ BuiltKept /\ StoppedLast
    /\ CalmPanicsOnlyOnPlaceholder

\* What the pairs that name instances are; the definitions stay hidden.
LEMMA InstFacts ==
    /\ \A c \in Calls : <<c, "eks">> \in Insts /\ Creator(<<c, "eks">>) = c
    /\ \A c \in Calls : <<c, "new">> \in Insts /\ Creator(<<c, "new">>) = c
    /\ \A x \in Insts : Creator(x) \in Calls
    /\ \A x \in Insts : IsEKS(x) => x = <<Creator(x), "eks">>
    /\ None \notin Insts
    /\ None \notin Calls
  BY NoneAssumption DEF Insts, Creator, IsEKS

\* Every label the actions go to is a step.
LEMMA StepFacts ==
    /\ {"idle", "lookup", "eksLookup", "eksStore"} \subseteq Steps
    /\ {"token", "build", "clients", "callbacks"} \subseteq Steps
    /\ {"serverInfo", "handlers", "cache", "watch"} \subseteq Steps
    /\ {"sync", "load", "stopAuth", "closeCache"} \subseteq Steps
    /\ {"clear", "cancelWatch", "delete"} \subseteq Steps
    /\ {"ok", "err", "panic"} \subseteq Steps
  BY DEF Steps, RegisterSteps, RemoveSteps, Final

\* A call works on a cluster id.
LEMMA IdOfType ==
    TypeOK => \A c \in Calls : IdOf(c) \in Ids
  BY DEF TypeOK, IdOf, Request

\* The initial state is well typed.
LEMMA TypeInit == Init => TypeOK
  <1> SUFFICES ASSUME Init PROVE TypeOK
    OBVIOUS
  <1> USE DEF Init
  <1>1. req \in [Calls -> Request] /\ pc \in [Calls -> Steps]
    BY StepFacts
  <1>2. cur \in [Calls -> InstOrNone] /\ registry \in [Ids -> InstOrNone]
    BY DEF InstOrNone
  <1>3. /\ kubectl \in [Insts -> CallOrNone]
        /\ client \in [Insts -> BOOLEAN]
        /\ callbacks \in [Insts -> {"nil", "empty", "filled"}]
        /\ cache \in [Insts -> CallOrNone]
        /\ cancel \in [Insts -> CallOrNone]
        /\ resources \in [Insts -> BOOLEAN]
    BY DEF CallOrNone
  <1> QED
    BY <1>1, <1>2, <1>3 DEF TypeOK

\* Every step of a call leads to a step.
LEMMA PcStep ==
    ASSUME TypeOK, [Next]_vars
    PROVE  pc' \in [Calls -> Steps]
<1> USE StepFacts DEF TypeOK, Goto, FirstStep
<1>1. CASE UNCHANGED vars
  BY <1>1 DEF vars, fields, running
<1>2. ASSUME NEW c \in Calls, Begin(c)
      PROVE  pc' \in [Calls -> Steps]
  BY <1>2 DEF Begin, fields, running
<1>3. ASSUME NEW c \in Calls, Lookup(c)
      PROVE  pc' \in [Calls -> Steps]
  BY <1>3 DEF Lookup, fields, running
<1>4. ASSUME NEW c \in Calls, ObtainToken(c)
      PROVE  pc' \in [Calls -> Steps]
  BY <1>4 DEF ObtainToken, fields, running
<1>5. ASSUME NEW c \in Calls, Build(c)
      PROVE  pc' \in [Calls -> Steps]
  BY <1>5 DEF Build, fields, running
<1>6. ASSUME NEW c \in Calls, CreateClients(c)
      PROVE  pc' \in [Calls -> Steps]
  BY <1>6 DEF CreateClients, fields, running
<1>7. ASSUME NEW c \in Calls, InitCallbacks(c)
      PROVE  pc' \in [Calls -> Steps]
  BY <1>7 DEF InitCallbacks, fields, running
<1>8. ASSUME NEW c \in Calls, FetchServerInfo(c)
      PROVE  pc' \in [Calls -> Steps]
  BY <1>8 DEF FetchServerInfo, fields, running
<1>9. ASSUME NEW c \in Calls, RegisterHandlers(c)
      PROVE  pc' \in [Calls -> Steps]
  BY <1>9 DEF RegisterHandlers, fields, running
<1>10. ASSUME NEW c \in Calls, CreateCache(c)
      PROVE  pc' \in [Calls -> Steps]
  BY <1>10 DEF CreateCache, fields, running
<1>11. ASSUME NEW c \in Calls, StartWatch(c)
      PROVE  pc' \in [Calls -> Steps]
  BY <1>11 DEF StartWatch, fields, running
<1>12. ASSUME NEW c \in Calls, LoadResources(c)
      PROVE  pc' \in [Calls -> Steps]
  BY <1>12 DEF LoadResources, fields, running
<1>13. ASSUME NEW c \in Calls, EKSLookup(c)
      PROVE  pc' \in [Calls -> Steps]
  BY <1>13 DEF EKSLookup, fields, running
<1>14. ASSUME NEW c \in Calls, EKSStore(c)
      PROVE  pc' \in [Calls -> Steps]
  BY <1>14 DEF EKSStore, fields, running
<1>15. ASSUME NEW c \in Calls, RemoveLoad(c)
      PROVE  pc' \in [Calls -> Steps]
  BY <1>15 DEF RemoveLoad, fields, running
<1>16. ASSUME NEW c \in Calls, RemoveStopAuth(c)
      PROVE  pc' \in [Calls -> Steps]
  BY <1>16 DEF RemoveStopAuth, fields, running
<1>17. ASSUME NEW c \in Calls, RemoveCloseCache(c)
      PROVE  pc' \in [Calls -> Steps]
  BY <1>17 DEF RemoveCloseCache, fields, running
<1>18. ASSUME NEW c \in Calls, RemoveClear(c)
      PROVE  pc' \in [Calls -> Steps]
  BY <1>18 DEF RemoveClear, fields, running
<1>19. ASSUME NEW c \in Calls, RemoveCancelWatch(c)
      PROVE  pc' \in [Calls -> Steps]
  BY <1>19 DEF RemoveCancelWatch, fields, running
<1>20. ASSUME NEW c \in Calls, RemoveDelete(c)
      PROVE  pc' \in [Calls -> Steps]
  BY <1>20 DEF RemoveDelete, fields, running
<1> QED
  BY <1>1, <1>2, <1>3, <1>4, <1>5, <1>6, <1>7, <1>8, <1>9, <1>10, <1>11, <1>12,
     <1>13, <1>14, <1>15, <1>16, <1>17, <1>18, <1>19, <1>20
  DEF Next, Register, RegisterEKS, Remove

\* Every step keeps the state well typed.
LEMMA TypeStep ==
    ASSUME TypeOK, HasCur, [Next]_vars
    PROVE  TypeOK'
<1> USE InstFacts, PcStep, IdOfType DEF TypeOK, CallOrNone, InstOrNone,
        Registered
<1>1. CASE UNCHANGED vars
  BY <1>1 DEF vars, fields, running
<1>2. ASSUME NEW c \in Calls, Begin(c)
      PROVE  TypeOK'
  BY <1>2 DEF Begin, fields, running
<1>3. ASSUME NEW c \in Calls, Lookup(c)
      PROVE  TypeOK'
  BY <1>3 DEF Lookup, fields, running
<1>4. ASSUME NEW c \in Calls, ObtainToken(c)
      PROVE  TypeOK'
  BY <1>4 DEF ObtainToken, fields, running
<1>5. ASSUME NEW c \in Calls, Build(c)
      PROVE  TypeOK'
  BY <1>5 DEF Build, fields, running
<1>6. ASSUME NEW c \in Calls, CreateClients(c)
      PROVE  TypeOK'
  BY <1>6 DEF CreateClients, fields, running
<1>7. ASSUME NEW c \in Calls, InitCallbacks(c)
      PROVE  TypeOK'
  BY <1>7 DEF InitCallbacks, fields, running
<1>8. ASSUME NEW c \in Calls, FetchServerInfo(c)
      PROVE  TypeOK'
  BY <1>8 DEF FetchServerInfo, fields, running
<1>9. ASSUME NEW c \in Calls, RegisterHandlers(c)
      PROVE  TypeOK'
  BY <1>9 DEF RegisterHandlers, fields, running
<1>10. ASSUME NEW c \in Calls, CreateCache(c)
      PROVE  TypeOK'
  BY <1>10 DEF CreateCache, fields, running
<1>11. ASSUME NEW c \in Calls, StartWatch(c)
      PROVE  TypeOK'
  BY <1>11 DEF StartWatch, fields, running
<1>12. ASSUME NEW c \in Calls, LoadResources(c)
      PROVE  TypeOK'
  BY <1>12 DEF LoadResources, fields, running
<1>13. ASSUME NEW c \in Calls, EKSLookup(c)
      PROVE  TypeOK'
  BY <1>13 DEF EKSLookup, fields, running
<1>14. ASSUME NEW c \in Calls, EKSStore(c)
      PROVE  TypeOK'
  BY <1>14 DEF EKSStore, fields, running
<1>15. ASSUME NEW c \in Calls, RemoveLoad(c)
      PROVE  TypeOK'
  BY <1>15 DEF RemoveLoad, fields, running
<1>16. ASSUME NEW c \in Calls, RemoveStopAuth(c)
      PROVE  TypeOK'
  <2>1. cur[c] \in Insts
    BY <1>16 DEF RemoveStopAuth, HasCur, StopSteps
  <2> QED
    BY <1>16, <2>1 DEF RemoveStopAuth, fields
<1>17. ASSUME NEW c \in Calls, RemoveCloseCache(c)
      PROVE  TypeOK'
  BY <1>17 DEF RemoveCloseCache, fields, running
<1>18. ASSUME NEW c \in Calls, RemoveClear(c)
      PROVE  TypeOK'
  BY <1>18 DEF RemoveClear, fields, running
<1>19. ASSUME NEW c \in Calls, RemoveCancelWatch(c)
      PROVE  TypeOK'
  BY <1>19 DEF RemoveCancelWatch, fields, running
<1>20. ASSUME NEW c \in Calls, RemoveDelete(c)
      PROVE  TypeOK'
  BY <1>20 DEF RemoveDelete, fields, running
<1> QED
  BY <1>1, <1>2, <1>3, <1>4, <1>5, <1>6, <1>7, <1>8, <1>9, <1>10, <1>11, <1>12,
     <1>13, <1>14, <1>15, <1>16, <1>17, <1>18, <1>19, <1>20
  DEF Next, Register, RegisterEKS, Remove

\* The parts of the type invariant that the other lemmas need.
LEMMA TypeAll ==
    TypeOK =>
      /\ pc \in [Calls -> Steps]
      /\ cur \in [Calls -> Insts \cup {None}]
      /\ registry \in [Ids -> Insts \cup {None}]
      /\ kubectl \in [Insts -> Calls \cup {None}]
      /\ cache \in [Insts -> Calls \cup {None}]
      /\ cancel \in [Insts -> Calls \cup {None}]
      /\ openCaches \subseteq Calls
      /\ liveWatches \subseteq Calls
      /\ tokenLoops \subseteq Calls
      /\ met \subseteq Calls
  BY DEF TypeOK, CallOrNone, InstOrNone

\* ... and the types of the fields that a registration fills in.
LEMMA FieldTypes ==
    TypeOK =>
      /\ client \in [Insts -> BOOLEAN]
      /\ callbacks \in [Insts -> {"nil", "empty", "filled"}]
      /\ resources \in [Insts -> BOOLEAN]
      /\ stopped \subseteq Calls
  BY DEF TypeOK

\* req never changes, so neither do the operation and the id of a call.
LEMMA ReqFixed ==
    ASSUME [Next]_vars
    PROVE  /\ req' = req
           /\ \A c \in Calls : IdOf(c)' = IdOf(c)
<1>1. req' = req
  BY DEF vars, fields, running, Next, Register, RegisterEKS, Remove, Begin,
     Lookup, ObtainToken, Build, CreateClients, InitCallbacks, FetchServerInfo,
     RegisterHandlers, CreateCache, StartWatch, LoadResources, EKSLookup,
     EKSStore, RemoveLoad, RemoveStopAuth, RemoveCloseCache, RemoveClear,
     RemoveCancelWatch, RemoveDelete
<1> QED
  BY <1>1 DEF IdOf

\* Instances stay under their creator's id.
LEMMA OwnIdStep ==
    ASSUME TypeOK, HasCur, OwnId, [Next]_vars
    PROVE  OwnId'
<1> USE InstFacts, ReqFixed, TypeAll, IdOfType DEF OwnId, Registered
<1>1. CASE UNCHANGED vars
  BY <1>1 DEF vars, fields, running
<1>2. ASSUME NEW c \in Calls, Begin(c)
      PROVE  OwnId'
  BY <1>2 DEF Begin, fields, running
<1>3. ASSUME NEW c \in Calls, Lookup(c)
      PROVE  OwnId'
  BY <1>3 DEF Lookup, fields, running
<1>4. ASSUME NEW c \in Calls, ObtainToken(c)
      PROVE  OwnId'
  BY <1>4 DEF ObtainToken, fields, running
<1>5. ASSUME NEW c \in Calls, Build(c)
      PROVE  OwnId'
  BY <1>5 DEF Build, fields, running
<1>6. ASSUME NEW c \in Calls, CreateClients(c)
      PROVE  OwnId'
  BY <1>6 DEF CreateClients, fields, running
<1>7. ASSUME NEW c \in Calls, InitCallbacks(c)
      PROVE  OwnId'
  BY <1>7 DEF InitCallbacks, fields, running
<1>8. ASSUME NEW c \in Calls, FetchServerInfo(c)
      PROVE  OwnId'
  BY <1>8 DEF FetchServerInfo, fields, running
<1>9. ASSUME NEW c \in Calls, RegisterHandlers(c)
      PROVE  OwnId'
  BY <1>9 DEF RegisterHandlers, fields, running
<1>10. ASSUME NEW c \in Calls, CreateCache(c)
      PROVE  OwnId'
  BY <1>10 DEF CreateCache, fields, running
<1>11. ASSUME NEW c \in Calls, StartWatch(c)
      PROVE  OwnId'
  BY <1>11 DEF StartWatch, fields, running
<1>12. ASSUME NEW c \in Calls, LoadResources(c)
      PROVE  OwnId'
  BY <1>12 DEF LoadResources, fields, running
<1>13. ASSUME NEW c \in Calls, EKSLookup(c)
      PROVE  OwnId'
  BY <1>13 DEF EKSLookup, fields, running
<1>14. ASSUME NEW c \in Calls, EKSStore(c)
      PROVE  OwnId'
  BY <1>14 DEF EKSStore, fields, running
<1>15. ASSUME NEW c \in Calls, RemoveLoad(c)
      PROVE  OwnId'
  BY <1>15 DEF RemoveLoad, fields, running
<1>16. ASSUME NEW c \in Calls, RemoveStopAuth(c)
      PROVE  OwnId'
  BY <1>16 DEF RemoveStopAuth, fields, running
<1>17. ASSUME NEW c \in Calls, RemoveCloseCache(c)
      PROVE  OwnId'
  BY <1>17 DEF RemoveCloseCache, fields, running
<1>18. ASSUME NEW c \in Calls, RemoveClear(c)
      PROVE  OwnId'
  BY <1>18 DEF RemoveClear, fields, running
<1>19. ASSUME NEW c \in Calls, RemoveCancelWatch(c)
      PROVE  OwnId'
  BY <1>19 DEF RemoveCancelWatch, fields, running
<1>20. ASSUME NEW c \in Calls, RemoveDelete(c)
      PROVE  OwnId'
  BY <1>20 DEF RemoveDelete, fields, running
<1> QED
  BY <1>1, <1>2, <1>3, <1>4, <1>5, <1>6, <1>7, <1>8, <1>9, <1>10, <1>11, <1>12,
     <1>13, <1>14, <1>15, <1>16, <1>17, <1>18, <1>19, <1>20
  DEF Next, Register, RegisterEKS, Remove

\* A call that works on its local instance got one before.
LEMMA HasCurStep ==
    ASSUME TypeOK, HasCur, [Next]_vars
    PROVE  HasCur'
<1> USE InstFacts, TypeAll, IdOfType DEF HasCur, Goto, FirstStep, Registered,
        FillSteps, StopSteps, RegisterSteps, RemoveSteps, Final
<1>1. CASE UNCHANGED vars
  BY <1>1 DEF vars, fields, running
<1>2. ASSUME NEW c \in Calls, Begin(c)
      PROVE  HasCur'
  BY <1>2 DEF Begin, fields, running
<1>3. ASSUME NEW c \in Calls, Lookup(c)
      PROVE  HasCur'
  BY <1>3 DEF Lookup, fields, running
<1>4. ASSUME NEW c \in Calls, ObtainToken(c)
      PROVE  HasCur'
  BY <1>4 DEF ObtainToken, fields, running
<1>5. ASSUME NEW c \in Calls, Build(c)
      PROVE  HasCur'
  BY <1>5 DEF Build, fields, running
<1>6. ASSUME NEW c \in Calls, CreateClients(c)
      PROVE  HasCur'
  BY <1>6 DEF CreateClients, fields, running
<1>7. ASSUME NEW c \in Calls, InitCallbacks(c)
      PROVE  HasCur'
  BY <1>7 DEF InitCallbacks, fields, running
<1>8. ASSUME NEW c \in Calls, FetchServerInfo(c)
      PROVE  HasCur'
  BY <1>8 DEF FetchServerInfo, fields, running
<1>9. ASSUME NEW c \in Calls, RegisterHandlers(c)
      PROVE  HasCur'
  BY <1>9 DEF RegisterHandlers, fields, running
<1>10. ASSUME NEW c \in Calls, CreateCache(c)
      PROVE  HasCur'
  BY <1>10 DEF CreateCache, fields, running
<1>11. ASSUME NEW c \in Calls, StartWatch(c)
      PROVE  HasCur'
  BY <1>11 DEF StartWatch, fields, running
<1>12. ASSUME NEW c \in Calls, LoadResources(c)
      PROVE  HasCur'
  BY <1>12 DEF LoadResources, fields, running
<1>13. ASSUME NEW c \in Calls, EKSLookup(c)
      PROVE  HasCur'
  BY <1>13 DEF EKSLookup, fields, running
<1>14. ASSUME NEW c \in Calls, EKSStore(c)
      PROVE  HasCur'
  BY <1>14 DEF EKSStore, fields, running
<1>15. ASSUME NEW c \in Calls, RemoveLoad(c)
      PROVE  HasCur'
  BY <1>15 DEF RemoveLoad, fields, running
<1>16. ASSUME NEW c \in Calls, RemoveStopAuth(c)
      PROVE  HasCur'
  BY <1>16 DEF RemoveStopAuth, fields, running
<1>17. ASSUME NEW c \in Calls, RemoveCloseCache(c)
      PROVE  HasCur'
  BY <1>17 DEF RemoveCloseCache, fields, running
<1>18. ASSUME NEW c \in Calls, RemoveClear(c)
      PROVE  HasCur'
  BY <1>18 DEF RemoveClear, fields, running
<1>19. ASSUME NEW c \in Calls, RemoveCancelWatch(c)
      PROVE  HasCur'
  BY <1>19 DEF RemoveCancelWatch, fields, running
<1>20. ASSUME NEW c \in Calls, RemoveDelete(c)
      PROVE  HasCur'
  BY <1>20 DEF RemoveDelete, fields, running
<1> QED
  BY <1>1, <1>2, <1>3, <1>4, <1>5, <1>6, <1>7, <1>8, <1>9, <1>10, <1>11, <1>12,
     <1>13, <1>14, <1>15, <1>16, <1>17, <1>18, <1>19, <1>20
  DEF Next, Register, RegisterEKS, Remove

\* Calls on one id that run together have met since the later one began.
LEMMA MeetingStep ==
    ASSUME TypeOK, Meeting, [Next]_vars
    PROVE  Meeting'
<1> USE ReqFixed, TypeAll DEF Meeting, Active, Goto, FirstStep, SameId,
        FillSteps, StopSteps, RegisterSteps, RemoveSteps, Final
<1>1. CASE UNCHANGED vars
  BY <1>1 DEF vars, fields, running
<1>2. ASSUME NEW c \in Calls, Begin(c)
      PROVE  Meeting'
  BY <1>2 DEF Begin, fields, running
<1>3. ASSUME NEW c \in Calls, Lookup(c)
      PROVE  Meeting'
  BY <1>3 DEF Lookup, fields, running
<1>4. ASSUME NEW c \in Calls, ObtainToken(c)
      PROVE  Meeting'
  BY <1>4 DEF ObtainToken, fields, running
<1>5. ASSUME NEW c \in Calls, Build(c)
      PROVE  Meeting'
  BY <1>5 DEF Build, fields, running
<1>6. ASSUME NEW c \in Calls, CreateClients(c)
      PROVE  Meeting'
  BY <1>6 DEF CreateClients, fields, running
<1>7. ASSUME NEW c \in Calls, InitCallbacks(c)
      PROVE  Meeting'
  BY <1>7 DEF InitCallbacks, fields, running
<1>8. ASSUME NEW c \in Calls, FetchServerInfo(c)
      PROVE  Meeting'
  BY <1>8 DEF FetchServerInfo, fields, running
<1>9. ASSUME NEW c \in Calls, RegisterHandlers(c)
      PROVE  Meeting'
  BY <1>9 DEF RegisterHandlers, fields, running
<1>10. ASSUME NEW c \in Calls, CreateCache(c)
      PROVE  Meeting'
  BY <1>10 DEF CreateCache, fields, running
<1>11. ASSUME NEW c \in Calls, StartWatch(c)
      PROVE  Meeting'
  BY <1>11 DEF StartWatch, fields, running
<1>12. ASSUME NEW c \in Calls, LoadResources(c)
      PROVE  Meeting'
  BY <1>12 DEF LoadResources, fields, running
<1>13. ASSUME NEW c \in Calls, EKSLookup(c)
      PROVE  Meeting'
  BY <1>13 DEF EKSLookup, fields, running
<1>14. ASSUME NEW c \in Calls, EKSStore(c)
      PROVE  Meeting'
  BY <1>14 DEF EKSStore, fields, running
<1>15. ASSUME NEW c \in Calls, RemoveLoad(c)
      PROVE  Meeting'
  BY <1>15 DEF RemoveLoad, fields, running
<1>16. ASSUME NEW c \in Calls, RemoveStopAuth(c)
      PROVE  Meeting'
  BY <1>16 DEF RemoveStopAuth, fields, running
<1>17. ASSUME NEW c \in Calls, RemoveCloseCache(c)
      PROVE  Meeting'
  BY <1>17 DEF RemoveCloseCache, fields, running
<1>18. ASSUME NEW c \in Calls, RemoveClear(c)
      PROVE  Meeting'
  BY <1>18 DEF RemoveClear, fields, running
<1>19. ASSUME NEW c \in Calls, RemoveCancelWatch(c)
      PROVE  Meeting'
  BY <1>19 DEF RemoveCancelWatch, fields, running
<1>20. ASSUME NEW c \in Calls, RemoveDelete(c)
      PROVE  Meeting'
  BY <1>20 DEF RemoveDelete, fields, running
<1> QED
  BY <1>1, <1>2, <1>3, <1>4, <1>5, <1>6, <1>7, <1>8, <1>9, <1>10, <1>11, <1>12,
     <1>13, <1>14, <1>15, <1>16, <1>17, <1>18, <1>19, <1>20
  DEF Next, Register, RegisterEKS, Remove

\* A cache, a watch or a token loop exists only once its call made it.
LEMMA ProgressStep ==
    ASSUME TypeOK, Progress, [Next]_vars
    PROVE  Progress'
<1> USE TypeAll DEF Progress, Goto, FirstStep, FillSteps, StopSteps,
        RegisterSteps, RemoveSteps, Final
<1>1. CASE UNCHANGED vars
  BY <1>1 DEF vars, fields, running
<1>2. ASSUME NEW c \in Calls, Begin(c)
      PROVE  Progress'
  BY <1>2 DEF Begin, fields, running
<1>3. ASSUME NEW c \in Calls, Lookup(c)
      PROVE  Progress'
  BY <1>3 DEF Lookup, fields, running
<1>4. ASSUME NEW c \in Calls, ObtainToken(c)
      PROVE  Progress'
  BY <1>4 DEF ObtainToken, fields, running
<1>5. ASSUME NEW c \in Calls, Build(c)
      PROVE  Progress'
  BY <1>5 DEF Build, fields, running
<1>6. ASSUME NEW c \in Calls, CreateClients(c)
      PROVE  Progress'
  BY <1>6 DEF CreateClients, fields, running
<1>7. ASSUME NEW c \in Calls, InitCallbacks(c)
      PROVE  Progress'
  BY <1>7 DEF InitCallbacks, fields, running
<1>8. ASSUME NEW c \in Calls, FetchServerInfo(c)
      PROVE  Progress'
  BY <1>8 DEF FetchServerInfo, fields, running
<1>9. ASSUME NEW c \in Calls, RegisterHandlers(c)
      PROVE  Progress'
  BY <1>9 DEF RegisterHandlers, fields, running
<1>10. ASSUME NEW c \in Calls, CreateCache(c)
      PROVE  Progress'
  BY <1>10 DEF CreateCache, fields, running
<1>11. ASSUME NEW c \in Calls, StartWatch(c)
      PROVE  Progress'
  BY <1>11 DEF StartWatch, fields, running
<1>12. ASSUME NEW c \in Calls, LoadResources(c)
      PROVE  Progress'
  BY <1>12 DEF LoadResources, fields, running
<1>13. ASSUME NEW c \in Calls, EKSLookup(c)
      PROVE  Progress'
  BY <1>13 DEF EKSLookup, fields, running
<1>14. ASSUME NEW c \in Calls, EKSStore(c)
      PROVE  Progress'
  BY <1>14 DEF EKSStore, fields, running
<1>15. ASSUME NEW c \in Calls, RemoveLoad(c)
      PROVE  Progress'
  BY <1>15 DEF RemoveLoad, fields, running
<1>16. ASSUME NEW c \in Calls, RemoveStopAuth(c)
      PROVE  Progress'
  BY <1>16 DEF RemoveStopAuth, fields, running
<1>17. ASSUME NEW c \in Calls, RemoveCloseCache(c)
      PROVE  Progress'
  BY <1>17 DEF RemoveCloseCache, fields, running
<1>18. ASSUME NEW c \in Calls, RemoveClear(c)
      PROVE  Progress'
  BY <1>18 DEF RemoveClear, fields, running
<1>19. ASSUME NEW c \in Calls, RemoveCancelWatch(c)
      PROVE  Progress'
  BY <1>19 DEF RemoveCancelWatch, fields, running
<1>20. ASSUME NEW c \in Calls, RemoveDelete(c)
      PROVE  Progress'
  BY <1>20 DEF RemoveDelete, fields, running
<1> QED
  BY <1>1, <1>2, <1>3, <1>4, <1>5, <1>6, <1>7, <1>8, <1>9, <1>10, <1>11, <1>12,
     <1>13, <1>14, <1>15, <1>16, <1>17, <1>18, <1>19, <1>20
  DEF Next, Register, RegisterEKS, Remove

\* Nobody replaces the registered instance under an undisturbed builder.
LEMMA FillsStep ==
    ASSUME TypeOK, OwnId, HasCur, Meeting, Progress, FillsRegistered,
           [Next]_vars
    PROVE  FillsRegistered'
<1> USE InstFacts, ReqFixed, TypeAll, IdOfType DEF FillsRegistered, HasCur,
        Meeting, Progress, Goto, FirstStep, Registered, Active, SameId,
        FillSteps, StopSteps, RegisterSteps, RemoveSteps, Final
<1>1. CASE UNCHANGED vars
  BY <1>1 DEF vars, fields, running
<1>2. ASSUME NEW c \in Calls, Begin(c)
      PROVE  FillsRegistered'
  BY <1>2 DEF Begin, fields, running
<1>3. ASSUME NEW c \in Calls, Lookup(c)
      PROVE  FillsRegistered'
  BY <1>3 DEF Lookup, fields, running
<1>4. ASSUME NEW c \in Calls, ObtainToken(c)
      PROVE  FillsRegistered'
  BY <1>4 DEF ObtainToken, fields, running
<1>5. ASSUME NEW c \in Calls, Build(c)
      PROVE  FillsRegistered'
  BY <1>5 DEF Build, fields, running
<1>6. ASSUME NEW c \in Calls, CreateClients(c)
      PROVE  FillsRegistered'
  BY <1>6 DEF CreateClients, fields, running
<1>7. ASSUME NEW c \in Calls, InitCallbacks(c)
      PROVE  FillsRegistered'
  BY <1>7 DEF InitCallbacks, fields, running
<1>8. ASSUME NEW c \in Calls, FetchServerInfo(c)
      PROVE  FillsRegistered'
  BY <1>8 DEF FetchServerInfo, fields, running
<1>9. ASSUME NEW c \in Calls, RegisterHandlers(c)
      PROVE  FillsRegistered'
  BY <1>9 DEF RegisterHandlers, fields, running
<1>10. ASSUME NEW c \in Calls, CreateCache(c)
      PROVE  FillsRegistered'
  BY <1>10 DEF CreateCache, fields, running
<1>11. ASSUME NEW c \in Calls, StartWatch(c)
      PROVE  FillsRegistered'
  BY <1>11 DEF StartWatch, fields, running
<1>12. ASSUME NEW c \in Calls, LoadResources(c)
      PROVE  FillsRegistered'
  BY <1>12 DEF LoadResources, fields, running
<1>13. ASSUME NEW c \in Calls, EKSLookup(c)
      PROVE  FillsRegistered'
  BY <1>13 DEF EKSLookup, fields, running
<1>14. ASSUME NEW c \in Calls, EKSStore(c)
      PROVE  FillsRegistered'
  BY <1>14 DEF EKSStore, fields, running
<1>15. ASSUME NEW c \in Calls, RemoveLoad(c)
      PROVE  FillsRegistered'
  BY <1>15 DEF RemoveLoad, fields, running
<1>16. ASSUME NEW c \in Calls, RemoveStopAuth(c)
      PROVE  FillsRegistered'
  BY <1>16 DEF RemoveStopAuth, fields, running
<1>17. ASSUME NEW c \in Calls, RemoveCloseCache(c)
      PROVE  FillsRegistered'
  BY <1>17 DEF RemoveCloseCache, fields, running
<1>18. ASSUME NEW c \in Calls, RemoveClear(c)
      PROVE  FillsRegistered'
  BY <1>18 DEF RemoveClear, fields, running
<1>19. ASSUME NEW c \in Calls, RemoveCancelWatch(c)
      PROVE  FillsRegistered'
  BY <1>19 DEF RemoveCancelWatch, fields, running
<1>20. ASSUME NEW c \in Calls, RemoveDelete(c)
      PROVE  FillsRegistered'
  BY <1>20 DEF RemoveDelete, fields, running
<1> QED
  BY <1>1, <1>2, <1>3, <1>4, <1>5, <1>6, <1>7, <1>8, <1>9, <1>10, <1>11, <1>12,
     <1>13, <1>14, <1>15, <1>16, <1>17, <1>18, <1>19, <1>20
  DEF Next, Register, RegisterEKS, Remove

\* A cache stays with the registered instance until a removal closes it.
LEMMA CacheStep ==
    ASSUME TypeOK, OwnId, HasCur, Meeting, Progress, FillsRegistered,
           CacheHeld, [Next]_vars
    PROVE  CacheHeld'
<1> USE InstFacts, ReqFixed, TypeAll, IdOfType DEF FillsRegistered, OwnId,
        CacheHeld, HasCur, Meeting, Progress, Goto, FirstStep, Registered,
        Active, SameId, FillSteps, StopSteps, RegisterSteps, RemoveSteps, Final
<1>1. CASE UNCHANGED vars
  BY <1>1 DEF vars, fields, running
<1>2. ASSUME NEW c \in Calls, Begin(c)
      PROVE  CacheHeld'
  BY <1>2 DEF Begin, fields, running
<1>3. ASSUME NEW c \in Calls, Lookup(c)
      PROVE  CacheHeld'
  BY <1>3 DEF Lookup, fields, running
<1>4. ASSUME NEW c \in Calls, ObtainToken(c)
      PROVE  CacheHeld'
  BY <1>4 DEF ObtainToken, fields, running
<1>5. ASSUME NEW c \in Calls, Build(c)
      PROVE  CacheHeld'
  BY <1>5 DEF Build, fields, running
<1>6. ASSUME NEW c \in Calls, CreateClients(c)
      PROVE  CacheHeld'
  BY <1>6 DEF CreateClients, fields, running
<1>7. ASSUME NEW c \in Calls, InitCallbacks(c)
      PROVE  CacheHeld'
  BY <1>7 DEF InitCallbacks, fields, running
<1>8. ASSUME NEW c \in Calls, FetchServerInfo(c)
      PROVE  CacheHeld'
  BY <1>8 DEF FetchServerInfo, fields, running
<1>9. ASSUME NEW c \in Calls, RegisterHandlers(c)
      PROVE  CacheHeld'
  BY <1>9 DEF RegisterHandlers, fields, running
<1>10. ASSUME NEW c \in Calls, CreateCache(c)
      PROVE  CacheHeld'
  BY <1>10 DEF CreateCache, fields, running
<1>11. ASSUME NEW c \in Calls, StartWatch(c)
      PROVE  CacheHeld'
  BY <1>11 DEF StartWatch, fields, running
<1>12. ASSUME NEW c \in Calls, LoadResources(c)
      PROVE  CacheHeld'
  BY <1>12 DEF LoadResources, fields, running
<1>13. ASSUME NEW c \in Calls, EKSLookup(c)
      PROVE  CacheHeld'
  BY <1>13 DEF EKSLookup, fields, running
<1>14. ASSUME NEW c \in Calls, EKSStore(c)
      PROVE  CacheHeld'
  BY <1>14 DEF EKSStore, fields, running
<1>15. ASSUME NEW c \in Calls, RemoveLoad(c)
      PROVE  CacheHeld'
  BY <1>15 DEF RemoveLoad, fields, running
<1>16. ASSUME NEW c \in Calls, RemoveStopAuth(c)
      PROVE  CacheHeld'
  BY <1>16 DEF RemoveStopAuth, fields, running
<1>17. ASSUME NEW c \in Calls, RemoveCloseCache(c)
      PROVE  CacheHeld'
  BY <1>17 DEF RemoveCloseCache, fields, running
<1>18. ASSUME NEW c \in Calls, RemoveClear(c)
      PROVE  CacheHeld'
  BY <1>18 DEF RemoveClear, fields, running
<1>19. ASSUME NEW c \in Calls, RemoveCancelWatch(c)
      PROVE  CacheHeld'
  BY <1>19 DEF RemoveCancelWatch, fields, running
<1>20. ASSUME NEW c \in Calls, RemoveDelete(c)
      PROVE  CacheHeld'
  BY <1>20 DEF RemoveDelete, fields, running
<1> QED
  BY <1>1, <1>2, <1>3, <1>4, <1>5, <1>6, <1>7, <1>8, <1>9, <1>10, <1>11, <1>12,
     <1>13, <1>14, <1>15, <1>16, <1>17, <1>18, <1>19, <1>20
  DEF Next, Register, RegisterEKS, Remove

\* A watch stays with the registered instance until a removal cancels it.
LEMMA WatchStep ==
    ASSUME TypeOK, OwnId, HasCur, Meeting, Progress, FillsRegistered,
           WatchHeld, [Next]_vars
    PROVE  WatchHeld'
<1> USE InstFacts, ReqFixed, TypeAll, IdOfType DEF FillsRegistered, OwnId,
        WatchHeld, HasCur, Meeting, Progress, Goto, FirstStep, Registered,
        Active, SameId, FillSteps, StopSteps, RegisterSteps, RemoveSteps, Final
<1>1. CASE UNCHANGED vars
  BY <1>1 DEF vars, fields, running
<1>2. ASSUME NEW c \in Calls, Begin(c)
      PROVE  WatchHeld'
  BY <1>2 DEF Begin, fields, running
<1>3. ASSUME NEW c \in Calls, Lookup(c)
      PROVE  WatchHeld'
  BY <1>3 DEF Lookup, fields, running
<1>4. ASSUME NEW c \in Calls, ObtainToken(c)
      PROVE  WatchHeld'
  BY <1>4 DEF ObtainToken, fields, running
<1>5. ASSUME NEW c \in Calls, Build(c)
      PROVE  WatchHeld'
  BY <1>5 DEF Build, fields, running
<1>6. ASSUME NEW c \in Calls, CreateClients(c)
      PROVE  WatchHeld'
  BY <1>6 DEF CreateClients, fields, running
<1>7. ASSUME NEW c \in Calls, InitCallbacks(c)
      PROVE  WatchHeld'
  BY <1>7 DEF InitCallbacks, fields, running
<1>8. ASSUME NEW c \in Calls, FetchServerInfo(c)
      PROVE  WatchHeld'
  BY <1>8 DEF FetchServerInfo, fields, running
<1>9. ASSUME NEW c \in Calls, RegisterHandlers(c)
      PROVE  WatchHeld'
  BY <1>9 DEF RegisterHandlers, fields, running
<1>10. ASSUME NEW c \in Calls, CreateCache(c)
      PROVE  WatchHeld'
  BY <1>10 DEF CreateCache, fields, running
<1>11. ASSUME NEW c \in Calls, StartWatch(c)
      PROVE  WatchHeld'
  BY <1>11 DEF StartWatch, fields, running
<1>12. ASSUME NEW c \in Calls, LoadResources(c)
      PROVE  WatchHeld'
  BY <1>12 DEF LoadResources, fields, running
<1>13. ASSUME NEW c \in Calls, EKSLookup(c)
      PROVE  WatchHeld'
  BY <1>13 DEF EKSLookup, fields, running
<1>14. ASSUME NEW c \in Calls, EKSStore(c)
      PROVE  WatchHeld'
  BY <1>14 DEF EKSStore, fields, running
<1>15. ASSUME NEW c \in Calls, RemoveLoad(c)
      PROVE  WatchHeld'
  BY <1>15 DEF RemoveLoad, fields, running
<1>16. ASSUME NEW c \in Calls, RemoveStopAuth(c)
      PROVE  WatchHeld'
  BY <1>16 DEF RemoveStopAuth, fields, running
<1>17. ASSUME NEW c \in Calls, RemoveCloseCache(c)
      PROVE  WatchHeld'
  BY <1>17 DEF RemoveCloseCache, fields, running
<1>18. ASSUME NEW c \in Calls, RemoveClear(c)
      PROVE  WatchHeld'
  BY <1>18 DEF RemoveClear, fields, running
<1>19. ASSUME NEW c \in Calls, RemoveCancelWatch(c)
      PROVE  WatchHeld'
  BY <1>19 DEF RemoveCancelWatch, fields, running
<1>20. ASSUME NEW c \in Calls, RemoveDelete(c)
      PROVE  WatchHeld'
  BY <1>20 DEF RemoveDelete, fields, running
<1> QED
  BY <1>1, <1>2, <1>3, <1>4, <1>5, <1>6, <1>7, <1>8, <1>9, <1>10, <1>11, <1>12,
     <1>13, <1>14, <1>15, <1>16, <1>17, <1>18, <1>19, <1>20
  DEF Next, Register, RegisterEKS, Remove

\* Token loops stay with the registered placeholder until a removal ends them.
LEMMA TokenLoopStep ==
    ASSUME TypeOK, OwnId, HasCur, Meeting, Progress, FillsRegistered,
           TokenLoopHeld, [Next]_vars
    PROVE  TokenLoopHeld'
<1> USE InstFacts, ReqFixed, TypeAll, IdOfType DEF FillsRegistered, OwnId,
        TokenLoopHeld, TokenLoopOf, HasCur, Meeting, Progress, Goto, FirstStep,
        Registered, Active, SameId, FillSteps, StopSteps, RegisterSteps,
        RemoveSteps, Final
<1>1. CASE UNCHANGED vars
  BY <1>1 DEF vars, fields, running
<1>2. ASSUME NEW c \in Calls, Begin(c)
      PROVE  TokenLoopHeld'
  BY <1>2 DEF Begin, fields, running
<1>3. ASSUME NEW c \in Calls, Lookup(c)
      PROVE  TokenLoopHeld'
  BY <1>3 DEF Lookup, fields, running
<1>4. ASSUME NEW c \in Calls, ObtainToken(c)
      PROVE  TokenLoopHeld'
  <2> SUFFICES ASSUME NEW x \in tokenLoops' \ met'
               PROVE  TokenLoopOf(x)'
    OBVIOUS
  <2> x \in tokenLoops \ met /\ x \in Calls
    BY <1>4 DEF ObtainToken, fields, running
  <2>1. CASE pc[x] = "eksStore" /\ cur[x] = <<x, "eks">>
    BY <1>4, <2>1 DEF ObtainToken, fields, running
  <2>2. CASE /\ Registered(x) = <<x, "eks">>
             /\ ~(pc[x] = "eksStore" /\ cur[x] = <<x, "eks">>)
    <3>1. Registered(x)' = <<x, "eks">>
      BY <1>4, <2>2 DEF ObtainToken, fields, running
    <3>2. ASSUME NEW d \in Calls, Active(d)', SameId(x, d)', d # c
          PROVE  \/ pc'[d] \in {"lookup", "eksLookup", "load"}
                 \/ /\ pc'[d] \notin {"closeCache", "clear",
                                     "cancelWatch", "delete"}
                    /\ cur'[d] = <<x, "eks">>
      BY <1>4, <2>2, <3>2 DEF ObtainToken, fields, running
    <3>3. ASSUME Active(c)', SameId(x, c)'
          PROVE  \/ pc'[c] \in {"lookup", "eksLookup", "load"}
                 \/ /\ pc'[c] \notin {"closeCache", "clear",
                                     "cancelWatch", "delete"}
                    /\ cur'[c] = <<x, "eks">>
      BY <1>4, <2>2, <3>3 DEF ObtainToken, fields, running
    <3> QED
      BY <3>1, <3>2, <3>3
  <2> QED
    BY <2>1, <2>2
<1>5. ASSUME NEW c \in Calls, Build(c)
      PROVE  TokenLoopHeld'
  BY <1>5 DEF Build, fields, running
<1>6. ASSUME NEW c \in Calls, CreateClients(c)
      PROVE  TokenLoopHeld'
  BY <1>6 DEF CreateClients, fields, running
<1>7. ASSUME NEW c \in Calls, InitCallbacks(c)
      PROVE  TokenLoopHeld'
  BY <1>7 DEF InitCallbacks, fields, running
<1>8. ASSUME NEW c \in Calls, FetchServerInfo(c)
      PROVE  TokenLoopHeld'
  BY <1>8 DEF FetchServerInfo, fields, running
<1>9. ASSUME NEW c \in Calls, RegisterHandlers(c)
      PROVE  TokenLoopHeld'
  BY <1>9 DEF RegisterHandlers, fields, running
<1>10. ASSUME NEW c \in Calls, CreateCache(c)
      PROVE  TokenLoopHeld'
  BY <1>10 DEF CreateCache, fields, running
<1>11. ASSUME NEW c \in Calls, StartWatch(c)
      PROVE  TokenLoopHeld'
  BY <1>11 DEF StartWatch, fields, running
<1>12. ASSUME NEW c \in Calls, LoadResources(c)
      PROVE  TokenLoopHeld'
  BY <1>12 DEF LoadResources, fields, running
<1>13. ASSUME NEW c \in Calls, EKSLookup(c)
      PROVE  TokenLoopHeld'
  BY <1>13 DEF EKSLookup, fields, running
<1>14. ASSUME NEW c \in Calls, EKSStore(c)
      PROVE  TokenLoopHeld'
  BY <1>14 DEF EKSStore, fields, running
<1>15. ASSUME NEW c \in Calls, RemoveLoad(c)
      PROVE  TokenLoopHeld'
  <2> SUFFICES ASSUME NEW x \in tokenLoops' \ met'
               PROVE  TokenLoopOf(x)'
    OBVIOUS
  <2> x \in tokenLoops \ met /\ x \in Calls
    BY <1>15 DEF RemoveLoad, fields, running
  <2>1. CASE pc[x] = "eksStore" /\ cur[x] = <<x, "eks">>
    BY <1>15, <2>1 DEF RemoveLoad, fields, running
  <2>2. CASE /\ Registered(x) = <<x, "eks">>
             /\ ~(pc[x] = "eksStore" /\ cur[x] = <<x, "eks">>)
    <3>1. Registered(x)' = <<x, "eks">>
      BY <1>15, <2>2 DEF RemoveLoad, fields, running
    <3>2. ASSUME NEW d \in Calls, Active(d)', SameId(x, d)', d # c
          PROVE  \/ pc'[d] \in {"lookup", "eksLookup", "load"}
                 \/ /\ pc'[d] \notin {"closeCache", "clear",
                                     "cancelWatch", "delete"}
                    /\ cur'[d] = <<x, "eks">>
      BY <1>15, <2>2, <3>2 DEF RemoveLoad, fields, running
    <3>3. ASSUME Active(c)', SameId(x, c)'
          PROVE  \/ pc'[c] \in {"lookup", "eksLookup", "load"}
                 \/ /\ pc'[c] \notin {"closeCache", "clear",
                                     "cancelWatch", "delete"}
                    /\ cur'[c] = <<x, "eks">>
      <4>1. IdOf(c) = IdOf(x) /\ Registered(c) = <<x, "eks">>
        BY <2>2, <3>3
      <4>2. <<x, "eks">> # None
        BY <2>2
      <4>3. pc'[c] = "stopAuth" /\ cur'[c] = <<x, "eks">>
        BY <1>15, <4>1, <4>2 DEF RemoveLoad
      <4> QED
        BY <4>3
    <3> QED
      BY <3>1, <3>2, <3>3
  <2> QED
    BY <2>1, <2>2
<1>16. ASSUME NEW c \in Calls, RemoveStopAuth(c)
      PROVE  TokenLoopHeld'
  <2> SUFFICES ASSUME NEW x \in tokenLoops' \ met'
               PROVE  TokenLoopOf(x)'
    OBVIOUS
  <2>1. x \in tokenLoops \ met /\ x \in Calls /\ TokenLoopOf(x)
    BY <1>16 DEF RemoveStopAuth, fields
  <2>2. ~SameId(x, c)
    <3> SUFFICES ASSUME SameId(x, c) PROVE FALSE
      OBVIOUS
    <3>1. pc[c] = "stopAuth" /\ Active(c)
      BY <1>16 DEF RemoveStopAuth
    <3>2. ~(pc[x] = "eksStore")
      BY <2>1, <3>1
    <3>3. cur[c] = <<x, "eks">>
      BY <2>1, <3>1, <3>2
    <3>4. IsEKS(cur[c]) /\ Creator(cur[c]) = x
      BY <2>1, <3>3 DEF IsEKS
    <3> QED
      BY <1>16, <2>1, <3>4 DEF RemoveStopAuth
  <2>3. pc' = [pc EXCEPT ![c] = pc'[c]] /\ cur' = cur /\ registry' = registry
    BY <1>16 DEF RemoveStopAuth, fields
  <2> QED
    BY <2>1, <2>2, <2>3
<1>17. ASSUME NEW c \in Calls, RemoveCloseCache(c)
      PROVE  TokenLoopHeld'
  BY <1>17 DEF RemoveCloseCache, fields, running
<1>18. ASSUME NEW c \in Calls, RemoveClear(c)
      PROVE  TokenLoopHeld'
  BY <1>18 DEF RemoveClear, fields, running
<1>19. ASSUME NEW c \in Calls, RemoveCancelWatch(c)
      PROVE  TokenLoopHeld'
  BY <1>19 DEF RemoveCancelWatch, fields, running
<1>20. ASSUME NEW c \in Calls, RemoveDelete(c)
      PROVE  TokenLoopHeld'
  BY <1>20 DEF RemoveDelete, fields, running
<1> QED
  BY <1>1, <1>2, <1>3, <1>4, <1>5, <1>6, <1>7, <1>8, <1>9, <1>10, <1>11, <1>12,
     <1>13, <1>14, <1>15, <1>16, <1>17, <1>18, <1>19, <1>20
  DEF Next, Register, RegisterEKS, Remove

\* Registrations create instances after they have begun.
LEMMA CreatorsStep ==
    ASSUME TypeOK, HasCur, CreatorsBegan, [Next]_vars
    PROVE  CreatorsBegan'
<1> USE InstFacts, ReqFixed, TypeAll, IdOfType DEF HasCur, CreatorsBegan, Begun, Goto, FirstStep, Registered, FillSteps, StopSteps, RegisterSteps, RemoveSteps, Final
<1>1. CASE UNCHANGED vars
  BY <1>1 DEF vars, fields, running
<1>2. ASSUME NEW c \in Calls, Begin(c)
      PROVE  CreatorsBegan'
  BY <1>2 DEF Begin, fields, running
<1>3. ASSUME NEW c \in Calls, Lookup(c)
      PROVE  CreatorsBegan'
  BY <1>3 DEF Lookup, fields, running
<1>4. ASSUME NEW c \in Calls, ObtainToken(c)
      PROVE  CreatorsBegan'
  BY <1>4 DEF ObtainToken, fields, running
<1>5. ASSUME NEW c \in Calls, Build(c)
      PROVE  CreatorsBegan'
  BY <1>5 DEF Build, fields, running
<1>6. ASSUME NEW c \in Calls, CreateClients(c)
      PROVE  CreatorsBegan'
  BY <1>6 DEF CreateClients, fields, running
<1>7. ASSUME NEW c \in Calls, InitCallbacks(c)
      PROVE  CreatorsBegan'
  BY <1>7 DEF InitCallbacks, fields, running
<1>8. ASSUME NEW c \in Calls, FetchServerInfo(c)
      PROVE  CreatorsBegan'
  BY <1>8 DEF FetchServerInfo, fields, running
<1>9. ASSUME NEW c \in Calls, RegisterHandlers(c)
      PROVE  CreatorsBegan'
  BY <1>9 DEF RegisterHandlers, fields, running
<1>10. ASSUME NEW c \in Calls, CreateCache(c)
      PROVE  CreatorsBegan'
  BY <1>10 DEF CreateCache, fields, running
<1>11. ASSUME NEW c \in Calls, StartWatch(c)
      PROVE  CreatorsBegan'
  BY <1>11 DEF StartWatch, fields, running
<1>12. ASSUME NEW c \in Calls, LoadResources(c)
      PROVE  CreatorsBegan'
  BY <1>12 DEF LoadResources, fields, running
<1>13. ASSUME NEW c \in Calls, EKSLookup(c)
      PROVE  CreatorsBegan'
  BY <1>13 DEF EKSLookup, fields, running
<1>14. ASSUME NEW c \in Calls, EKSStore(c)
      PROVE  CreatorsBegan'
  BY <1>14 DEF EKSStore, fields, running
<1>15. ASSUME NEW c \in Calls, RemoveLoad(c)
      PROVE  CreatorsBegan'
  BY <1>15 DEF RemoveLoad, fields, running
<1>16. ASSUME NEW c \in Calls, RemoveStopAuth(c)
      PROVE  CreatorsBegan'
  BY <1>16 DEF RemoveStopAuth, fields, running
<1>17. ASSUME NEW c \in Calls, RemoveCloseCache(c)
      PROVE  CreatorsBegan'
  BY <1>17 DEF RemoveCloseCache, fields, running
<1>18. ASSUME NEW c \in Calls, RemoveClear(c)
      PROVE  CreatorsBegan'
  BY <1>18 DEF RemoveClear, fields, running
<1>19. ASSUME NEW c \in Calls, RemoveCancelWatch(c)
      PROVE  CreatorsBegan'
  BY <1>19 DEF RemoveCancelWatch, fields, running
<1>20. ASSUME NEW c \in Calls, RemoveDelete(c)
      PROVE  CreatorsBegan'
  BY <1>20 DEF RemoveDelete, fields, running
<1> QED
  BY <1>1, <1>2, <1>3, <1>4, <1>5, <1>6, <1>7, <1>8, <1>9, <1>10, <1>11, <1>12,
     <1>13, <1>14, <1>15, <1>16, <1>17, <1>18, <1>19, <1>20
  DEF Next, Register, RegisterEKS, Remove

\* A call keeps to the steps of its operation.
LEMMA RemovesStep ==
    ASSUME TypeOK, RemovesRemove, [Next]_vars
    PROVE  RemovesRemove'
<1> USE ReqFixed, TypeAll DEF TypeOK, Request, Op, RemovesRemove, Goto, FirstStep, RegisterSteps, RemoveSteps, Final
<1>1. CASE UNCHANGED vars
  BY <1>1 DEF vars, fields, running
<1>2. ASSUME NEW c \in Calls, Begin(c)
      PROVE  RemovesRemove'
  BY <1>2 DEF Begin, fields, running
<1>3. ASSUME NEW c \in Calls, Lookup(c)
      PROVE  RemovesRemove'
  BY <1>3 DEF Lookup, fields, running
<1>4. ASSUME NEW c \in Calls, ObtainToken(c)
      PROVE  RemovesRemove'
  BY <1>4 DEF ObtainToken, fields, running
<1>5. ASSUME NEW c \in Calls, Build(c)
      PROVE  RemovesRemove'
  BY <1>5 DEF Build, fields, running
<1>6. ASSUME NEW c \in Calls, CreateClients(c)
      PROVE  RemovesRemove'
  BY <1>6 DEF CreateClients, fields, running
<1>7. ASSUME NEW c \in Calls, InitCallbacks(c)
      PROVE  RemovesRemove'
  BY <1>7 DEF InitCallbacks, fields, running
<1>8. ASSUME NEW c \in Calls, FetchServerInfo(c)
      PROVE  RemovesRemove'
  BY <1>8 DEF FetchServerInfo, fields, running
<1>9. ASSUME NEW c \in Calls, RegisterHandlers(c)
      PROVE  RemovesRemove'
  BY <1>9 DEF RegisterHandlers, fields, running
<1>10. ASSUME NEW c \in Calls, CreateCache(c)
      PROVE  RemovesRemove'
  BY <1>10 DEF CreateCache, fields, running
<1>11. ASSUME NEW c \in Calls, StartWatch(c)
      PROVE  RemovesRemove'
  BY <1>11 DEF StartWatch, fields, running
<1>12. ASSUME NEW c \in Calls, LoadResources(c)
      PROVE  RemovesRemove'
  BY <1>12 DEF LoadResources, fields, running
<1>13. ASSUME NEW c \in Calls, EKSLookup(c)
      PROVE  RemovesRemove'
  BY <1>13 DEF EKSLookup, fields, running
<1>14. ASSUME NEW c \in Calls, EKSStore(c)
      PROVE  RemovesRemove'
  BY <1>14 DEF EKSStore, fields, running
<1>15. ASSUME NEW c \in Calls, RemoveLoad(c)
      PROVE  RemovesRemove'
  BY <1>15 DEF RemoveLoad, fields, running
<1>16. ASSUME NEW c \in Calls, RemoveStopAuth(c)
      PROVE  RemovesRemove'
  BY <1>16 DEF RemoveStopAuth, fields, running
<1>17. ASSUME NEW c \in Calls, RemoveCloseCache(c)
      PROVE  RemovesRemove'
  BY <1>17 DEF RemoveCloseCache, fields, running
<1>18. ASSUME NEW c \in Calls, RemoveClear(c)
      PROVE  RemovesRemove'
  BY <1>18 DEF RemoveClear, fields, running
<1>19. ASSUME NEW c \in Calls, RemoveCancelWatch(c)
      PROVE  RemovesRemove'
  BY <1>19 DEF RemoveCancelWatch, fields, running
<1>20. ASSUME NEW c \in Calls, RemoveDelete(c)
      PROVE  RemovesRemove'
  BY <1>20 DEF RemoveDelete, fields, running
<1> QED
  BY <1>1, <1>2, <1>3, <1>4, <1>5, <1>6, <1>7, <1>8, <1>9, <1>10, <1>11, <1>12,
     <1>13, <1>14, <1>15, <1>16, <1>17, <1>18, <1>19, <1>20
  DEF Next, Register, RegisterEKS, Remove

\* The fields of an instance are written by calls that hold it.
LEMMA WritersStep ==
    ASSUME TypeOK, HasCur, WritersHold, [Next]_vars
    PROVE  WritersHold'
<1> USE InstFacts, TypeAll, IdOfType DEF HasCur, WritersHold, Goto, FirstStep, Registered, FillSteps, StopSteps, RegisterSteps, RemoveSteps, Final
<1>1. CASE UNCHANGED vars
  BY <1>1 DEF vars, fields, running
<1>2. ASSUME NEW c \in Calls, Begin(c)
      PROVE  WritersHold'
  BY <1>2 DEF Begin, fields, running
<1>3. ASSUME NEW c \in Calls, Lookup(c)
      PROVE  WritersHold'
  BY <1>3 DEF Lookup, fields, running
<1>4. ASSUME NEW c \in Calls, ObtainToken(c)
      PROVE  WritersHold'
  BY <1>4 DEF ObtainToken, fields, running
<1>5. ASSUME NEW c \in Calls, Build(c)
      PROVE  WritersHold'
  BY <1>5 DEF Build, fields, running
<1>6. ASSUME NEW c \in Calls, CreateClients(c)
      PROVE  WritersHold'
  BY <1>6 DEF CreateClients, fields, running
<1>7. ASSUME NEW c \in Calls, InitCallbacks(c)
      PROVE  WritersHold'
  BY <1>7 DEF InitCallbacks, fields, running
<1>8. ASSUME NEW c \in Calls, FetchServerInfo(c)
      PROVE  WritersHold'
  BY <1>8 DEF FetchServerInfo, fields, running
<1>9. ASSUME NEW c \in Calls, RegisterHandlers(c)
      PROVE  WritersHold'
  BY <1>9 DEF RegisterHandlers, fields, running
<1>10. ASSUME NEW c \in Calls, CreateCache(c)
      PROVE  WritersHold'
  BY <1>10 DEF CreateCache, fields, running
<1>11. ASSUME NEW c \in Calls, StartWatch(c)
      PROVE  WritersHold'
  BY <1>11 DEF StartWatch, fields, running
<1>12. ASSUME NEW c \in Calls, LoadResources(c)
      PROVE  WritersHold'
  BY <1>12 DEF LoadResources, fields, running
<1>13. ASSUME NEW c \in Calls, EKSLookup(c)
      PROVE  WritersHold'
  BY <1>13 DEF EKSLookup, fields, running
<1>14. ASSUME NEW c \in Calls, EKSStore(c)
      PROVE  WritersHold'
  BY <1>14 DEF EKSStore, fields, running
<1>15. ASSUME NEW c \in Calls, RemoveLoad(c)
      PROVE  WritersHold'
  BY <1>15 DEF RemoveLoad, fields, running
<1>16. ASSUME NEW c \in Calls, RemoveStopAuth(c)
      PROVE  WritersHold'
  BY <1>16 DEF RemoveStopAuth, fields, running
<1>17. ASSUME NEW c \in Calls, RemoveCloseCache(c)
      PROVE  WritersHold'
  BY <1>17 DEF RemoveCloseCache, fields, running
<1>18. ASSUME NEW c \in Calls, RemoveClear(c)
      PROVE  WritersHold'
  BY <1>18 DEF RemoveClear, fields, running
<1>19. ASSUME NEW c \in Calls, RemoveCancelWatch(c)
      PROVE  WritersHold'
  BY <1>19 DEF RemoveCancelWatch, fields, running
<1>20. ASSUME NEW c \in Calls, RemoveDelete(c)
      PROVE  WritersHold'
  BY <1>20 DEF RemoveDelete, fields, running
<1> QED
  BY <1>1, <1>2, <1>3, <1>4, <1>5, <1>6, <1>7, <1>8, <1>9, <1>10, <1>11, <1>12,
     <1>13, <1>14, <1>15, <1>16, <1>17, <1>18, <1>19, <1>20
  DEF Next, Register, RegisterEKS, Remove

\* Only calls that meet it change what a call has read.
LEMMA ReadsStep ==
    ASSUME TypeOK, HasCur, Meeting, ReadsHold, [Next]_vars
    PROVE  ReadsHold'
<1> USE InstFacts, ReqFixed, TypeAll, IdOfType DEF HasCur, Meeting, ReadsHold, Goto, FirstStep, Registered, Active, SameId, FillSteps, StopSteps, RegisterSteps, RemoveSteps, Final
<1>1. CASE UNCHANGED vars
  BY <1>1 DEF vars, fields, running
<1>2. ASSUME NEW c \in Calls, Begin(c)
      PROVE  ReadsHold'
  BY <1>2 DEF Begin, fields, running
<1>3. ASSUME NEW c \in Calls, Lookup(c)
      PROVE  ReadsHold'
  BY <1>3 DEF Lookup, fields, running
<1>4. ASSUME NEW c \in Calls, ObtainToken(c)
      PROVE  ReadsHold'
  BY <1>4 DEF ObtainToken, fields, running
<1>5. ASSUME NEW c \in Calls, Build(c)
      PROVE  ReadsHold'
  BY <1>5 DEF Build, fields, running
<1>6. ASSUME NEW c \in Calls, CreateClients(c)
      PROVE  ReadsHold'
  BY <1>6 DEF CreateClients, fields, running
<1>7. ASSUME NEW c \in Calls, InitCallbacks(c)
      PROVE  ReadsHold'
  BY <1>7 DEF InitCallbacks, fields, running
<1>8. ASSUME NEW c \in Calls, FetchServerInfo(c)
      PROVE  ReadsHold'
  BY <1>8 DEF FetchServerInfo, fields, running
<1>9. ASSUME NEW c \in Calls, RegisterHandlers(c)
      PROVE  ReadsHold'
  BY <1>9 DEF RegisterHandlers, fields, running
<1>10. ASSUME NEW c \in Calls, CreateCache(c)
      PROVE  ReadsHold'
  BY <1>10 DEF CreateCache, fields, running
<1>11. ASSUME NEW c \in Calls, StartWatch(c)
      PROVE  ReadsHold'
  BY <1>11 DEF StartWatch, fields, running
<1>12. ASSUME NEW c \in Calls, LoadResources(c)
      PROVE  ReadsHold'
  BY <1>12 DEF LoadResources, fields, running
<1>13. ASSUME NEW c \in Calls, EKSLookup(c)
      PROVE  ReadsHold'
  BY <1>13 DEF EKSLookup, fields, running
<1>14. ASSUME NEW c \in Calls, EKSStore(c)
      PROVE  ReadsHold'
  BY <1>14 DEF EKSStore, fields, running
<1>15. ASSUME NEW c \in Calls, RemoveLoad(c)
      PROVE  ReadsHold'
  BY <1>15 DEF RemoveLoad, fields, running
<1>16. ASSUME NEW c \in Calls, RemoveStopAuth(c)
      PROVE  ReadsHold'
  BY <1>16 DEF RemoveStopAuth, fields, running
<1>17. ASSUME NEW c \in Calls, RemoveCloseCache(c)
      PROVE  ReadsHold'
  BY <1>17 DEF RemoveCloseCache, fields, running
<1>18. ASSUME NEW c \in Calls, RemoveClear(c)
      PROVE  ReadsHold'
  BY <1>18 DEF RemoveClear, fields, running
<1>19. ASSUME NEW c \in Calls, RemoveCancelWatch(c)
      PROVE  ReadsHold'
  BY <1>19 DEF RemoveCancelWatch, fields, running
<1>20. ASSUME NEW c \in Calls, RemoveDelete(c)
      PROVE  ReadsHold'
  BY <1>20 DEF RemoveDelete, fields, running
<1> QED
  BY <1>1, <1>2, <1>3, <1>4, <1>5, <1>6, <1>7, <1>8, <1>9, <1>10, <1>11, <1>12,
     <1>13, <1>14, <1>15, <1>16, <1>17, <1>18, <1>19, <1>20
  DEF Next, Register, RegisterEKS, Remove

\* A call that builds what another one is about to store has met it.
LEMMA StoresStep ==
    ASSUME TypeOK, OwnId, HasCur, Meeting, CreatorsBegan, WritersHold, StoresUnbuilt, [Next]_vars
    PROVE  StoresUnbuilt'
<1> USE InstFacts, ReqFixed, TypeAll, IdOfType DEF OwnId, HasCur, Meeting, CreatorsBegan, Begun, WritersHold, StoresUnbuilt, Goto, FirstStep, Registered, Active, SameId, FillSteps, StopSteps, RegisterSteps, RemoveSteps, Final
<1>1. CASE UNCHANGED vars
  BY <1>1 DEF vars, fields, running
<1>2. ASSUME NEW c \in Calls, Begin(c)
      PROVE  StoresUnbuilt'
  BY <1>2 DEF Begin, fields, running
<1>3. ASSUME NEW c \in Calls, Lookup(c)
      PROVE  StoresUnbuilt'
  BY <1>3 DEF Lookup, fields, running
<1>4. ASSUME NEW c \in Calls, ObtainToken(c)
      PROVE  StoresUnbuilt'
  BY <1>4 DEF ObtainToken, fields, running
<1>5. ASSUME NEW c \in Calls, Build(c)
      PROVE  StoresUnbuilt'
  BY <1>5 DEF Build, fields, running
<1>6. ASSUME NEW c \in Calls, CreateClients(c)
      PROVE  StoresUnbuilt'
  BY <1>6 DEF CreateClients, fields, running
<1>7. ASSUME NEW c \in Calls, InitCallbacks(c)
      PROVE  StoresUnbuilt'
  BY <1>7 DEF InitCallbacks, fields, running
<1>8. ASSUME NEW c \in Calls, FetchServerInfo(c)
      PROVE  StoresUnbuilt'
  BY <1>8 DEF FetchServerInfo, fields, running
<1>9. ASSUME NEW c \in Calls, RegisterHandlers(c)
      PROVE  StoresUnbuilt'
  BY <1>9 DEF RegisterHandlers, fields, running
<1>10. ASSUME NEW c \in Calls, CreateCache(c)
      PROVE  StoresUnbuilt'
  BY <1>10 DEF CreateCache, fields, running
<1>11. ASSUME NEW c \in Calls, StartWatch(c)
      PROVE  StoresUnbuilt'
  BY <1>11 DEF StartWatch, fields, running
<1>12. ASSUME NEW c \in Calls, LoadResources(c)
      PROVE  StoresUnbuilt'
  BY <1>12 DEF LoadResources, fields, running
<1>13. ASSUME NEW c \in Calls, EKSLookup(c)
      PROVE  StoresUnbuilt'
  BY <1>13 DEF EKSLookup, fields, running
<1>14. ASSUME NEW c \in Calls, EKSStore(c)
      PROVE  StoresUnbuilt'
  BY <1>14 DEF EKSStore, fields, running
<1>15. ASSUME NEW c \in Calls, RemoveLoad(c)
      PROVE  StoresUnbuilt'
  BY <1>15 DEF RemoveLoad, fields, running
<1>16. ASSUME NEW c \in Calls, RemoveStopAuth(c)
      PROVE  StoresUnbuilt'
  BY <1>16 DEF RemoveStopAuth, fields, running
<1>17. ASSUME NEW c \in Calls, RemoveCloseCache(c)
      PROVE  StoresUnbuilt'
  BY <1>17 DEF RemoveCloseCache, fields, running
<1>18. ASSUME NEW c \in Calls, RemoveClear(c)
      PROVE  StoresUnbuilt'
  BY <1>18 DEF RemoveClear, fields, running
<1>19. ASSUME NEW c \in Calls, RemoveCancelWatch(c)
      PROVE  StoresUnbuilt'
  BY <1>19 DEF RemoveCancelWatch, fields, running
<1>20. ASSUME NEW c \in Calls, RemoveDelete(c)
      PROVE  StoresUnbuilt'
  BY <1>20 DEF RemoveDelete, fields, running
<1> QED
  BY <1>1, <1>2, <1>3, <1>4, <1>5, <1>6, <1>7, <1>8, <1>9, <1>10, <1>11, <1>12,
     <1>13, <1>14, <1>15, <1>16, <1>17, <1>18, <1>19, <1>20
  DEF Next, Register, RegisterEKS, Remove

\* Only calls that meet it undo what a call has filled in.
LEMMA FilledStep ==
    ASSUME TypeOK, OwnId, HasCur, Meeting, FillsRegistered, WritersHold, FilledIn, [Next]_vars
    PROVE  FilledIn'
<1> USE InstFacts, ReqFixed, TypeAll, FieldTypes, IdOfType DEF OwnId, HasCur, Meeting, FillsRegistered, WritersHold, FilledIn, Goto, FirstStep, Registered, Active, SameId, FillSteps, StopSteps, RegisterSteps, RemoveSteps, Final
<1>1. CASE UNCHANGED vars
  BY <1>1 DEF vars, fields, running
<1>2. ASSUME NEW c \in Calls, Begin(c)
      PROVE  FilledIn'
  BY <1>2 DEF Begin, fields, running
<1>3. ASSUME NEW c \in Calls, Lookup(c)
      PROVE  FilledIn'
  BY <1>3 DEF Lookup, fields, running
<1>4. ASSUME NEW c \in Calls, ObtainToken(c)
      PROVE  FilledIn'
  BY <1>4 DEF ObtainToken, fields, running
<1>5. ASSUME NEW c \in Calls, Build(c)
      PROVE  FilledIn'
  BY <1>5 DEF Build, fields, running
<1>6. ASSUME NEW c \in Calls, CreateClients(c)
      PROVE  FilledIn'
  BY <1>6 DEF CreateClients, fields, running
<1>7. ASSUME NEW c \in Calls, InitCallbacks(c)
      PROVE  FilledIn'
  BY <1>7 DEF InitCallbacks, fields, running
<1>8. ASSUME NEW c \in Calls, FetchServerInfo(c)
      PROVE  FilledIn'
  BY <1>8 DEF FetchServerInfo, fields, running
<1>9. ASSUME NEW c \in Calls, RegisterHandlers(c)
      PROVE  FilledIn'
  BY <1>9 DEF RegisterHandlers, fields, running
<1>10. ASSUME NEW c \in Calls, CreateCache(c)
      PROVE  FilledIn'
  BY <1>10 DEF CreateCache, fields, running
<1>11. ASSUME NEW c \in Calls, StartWatch(c)
      PROVE  FilledIn'
  BY <1>11 DEF StartWatch, fields, running
<1>12. ASSUME NEW c \in Calls, LoadResources(c)
      PROVE  FilledIn'
  BY <1>12 DEF LoadResources, fields, running
<1>13. ASSUME NEW c \in Calls, EKSLookup(c)
      PROVE  FilledIn'
  BY <1>13 DEF EKSLookup, fields, running
<1>14. ASSUME NEW c \in Calls, EKSStore(c)
      PROVE  FilledIn'
  BY <1>14 DEF EKSStore, fields, running
<1>15. ASSUME NEW c \in Calls, RemoveLoad(c)
      PROVE  FilledIn'
  BY <1>15 DEF RemoveLoad, fields, running
<1>16. ASSUME NEW c \in Calls, RemoveStopAuth(c)
      PROVE  FilledIn'
  BY <1>16 DEF RemoveStopAuth, fields, running
<1>17. ASSUME NEW c \in Calls, RemoveCloseCache(c)
      PROVE  FilledIn'
  BY <1>17 DEF RemoveCloseCache, fields, running
<1>18. ASSUME NEW c \in Calls, RemoveClear(c)
      PROVE  FilledIn'
  BY <1>18 DEF RemoveClear, fields, running
<1>19. ASSUME NEW c \in Calls, RemoveCancelWatch(c)
      PROVE  FilledIn'
  BY <1>19 DEF RemoveCancelWatch, fields, running
<1>20. ASSUME NEW c \in Calls, RemoveDelete(c)
      PROVE  FilledIn'
  BY <1>20 DEF RemoveDelete, fields, running
<1> QED
  BY <1>1, <1>2, <1>3, <1>4, <1>5, <1>6, <1>7, <1>8, <1>9, <1>10, <1>11, <1>12,
     <1>13, <1>14, <1>15, <1>16, <1>17, <1>18, <1>19, <1>20
  DEF Next, Register, RegisterEKS, Remove

\* An instance is whole when its builder ends, and only removals change that.
LEMMA BuiltStep ==
    ASSUME TypeOK, OwnId, HasCur, Meeting, FillsRegistered, WritersHold, StoresUnbuilt, FilledIn, BuiltKept, [Next]_vars
    PROVE  BuiltKept'
<1> USE InstFacts, ReqFixed, TypeAll, FieldTypes, IdOfType DEF OwnId, HasCur, Meeting, FillsRegistered, WritersHold, StoresUnbuilt, FilledIn, BuiltKept, Built, Alone, Whole, Complete, Tearing, Goto, FirstStep, Registered, Active, SameId, FillSteps, StopSteps, RegisterSteps, RemoveSteps, Final
<1>1. CASE UNCHANGED vars
  BY <1>1 DEF vars, fields, running
<1>2. ASSUME NEW c \in Calls, Begin(c)
      PROVE  BuiltKept'
  BY <1>2 DEF Begin, fields, running
<1>3. ASSUME NEW c \in Calls, Lookup(c)
      PROVE  BuiltKept'
  <2>1. ASSUME NEW x \in Calls \ met', Built(x)'
        PROVE  Alone(x)' /\ (Whole(x)' \/ Tearing(Registered(x))')
    <3>1. x # c
      BY <1>3, <2>1 DEF Lookup, fields, running
    <3>2. Built(x) /\ x \notin met
      BY <1>3, <2>1, <3>1 DEF Lookup, fields, running
    <3>3. SameId(x, c) => pc'[c] = "ok"
      BY <1>3, <3>2, NoneAssumption DEF Lookup, fields, running
    <3>4. Alone(x)'
      BY <1>3, <3>2, <3>3 DEF Lookup, fields, running
    <3>5. Whole(x) => Whole(x)'
      BY <1>3, <3>2 DEF Lookup, fields, running
    <3>6. Tearing(Registered(x)) => Tearing(Registered(x))'
      BY <1>3, <3>2 DEF Lookup, fields, running
    <3> QED
      BY <3>2, <3>4, <3>5, <3>6
  <2> QED
    BY <2>1
<1>4. ASSUME NEW c \in Calls, ObtainToken(c)
      PROVE  BuiltKept'
  BY <1>4 DEF ObtainToken, fields, running
<1>5. ASSUME NEW c \in Calls, Build(c)
      PROVE  BuiltKept'
  BY <1>5 DEF Build, fields, running
<1>6. ASSUME NEW c \in Calls, CreateClients(c)
      PROVE  BuiltKept'
  BY <1>6 DEF CreateClients, fields, running
<1>7. ASSUME NEW c \in Calls, InitCallbacks(c)
      PROVE  BuiltKept'
  BY <1>7 DEF InitCallbacks, fields, running
<1>8. ASSUME NEW c \in Calls, FetchServerInfo(c)
      PROVE  BuiltKept'
  BY <1>8 DEF FetchServerInfo, fields, running
<1>9. ASSUME NEW c \in Calls, RegisterHandlers(c)
      PROVE  BuiltKept'
  BY <1>9 DEF RegisterHandlers, fields, running
<1>10. ASSUME NEW c \in Calls, CreateCache(c)
      PROVE  BuiltKept'
  <2>1. ASSUME NEW x \in Calls \ met', Built(x)'
        PROVE  Alone(x)' /\ (Whole(x)' \/ Tearing(Registered(x))')
    <3>1. x \notin met
      BY <1>10, <2>1 DEF CreateCache, fields
    <3>2. CASE x = c
      <4>1. /\ pc[c] = "cache" /\ pc'[c] = "ok" /\ ~req'[c].watch
            /\ cur[c] # None /\ Registered(c)' = cur[c]
            /\ cache' = [cache EXCEPT ![cur[c]] = c]
            /\ client' = client /\ callbacks' = callbacks
        BY <1>10, <2>1, <3>1, <3>2 DEF CreateCache, fields
      <4>2. Whole(c)'
        BY <1>10, <3>1, <3>2, <4>1
      <4>3. Alone(c)'
        BY <1>10, <3>1, <3>2, <4>1 DEF CreateCache, fields
      <4> QED
        BY <3>2, <4>2, <4>3
    <3>3. CASE x # c
      <4>1. Built(x)
        BY <1>10, <2>1, <3>3 DEF CreateCache, fields
      <4>2. Alone(x)'
        BY <1>10, <3>1, <3>3, <4>1 DEF CreateCache, fields
      <4>3. Whole(x) => Whole(x)'
        BY <1>10, <3>3, <4>1 DEF CreateCache, fields
      <4>4. Tearing(Registered(x)) => Tearing(Registered(x))'
        BY <1>10, <4>1 DEF CreateCache, fields
      <4> QED
        BY <3>1, <4>1, <4>2, <4>3, <4>4
    <3> QED
      BY <3>2, <3>3
  <2> QED
    BY <2>1
<1>11. ASSUME NEW c \in Calls, StartWatch(c)
      PROVE  BuiltKept'
  <2>1. ASSUME NEW x \in Calls \ met', Built(x)'
        PROVE  Alone(x)' /\ (Whole(x)' \/ Tearing(Registered(x))')
    <3>1. x # c
      BY <1>11, <2>1 DEF StartWatch, fields
    <3>2. Built(x) /\ x \notin met
      BY <1>11, <2>1, <3>1 DEF StartWatch, fields
    <3>3. Alone(x)'
      BY <1>11, <3>1, <3>2 DEF StartWatch, fields
    <3>4. Whole(x) => Whole(x)'
      BY <1>11, <3>1, <3>2 DEF StartWatch, fields
    <3>5. Tearing(Registered(x)) => Tearing(Registered(x))'
      BY <1>11, <3>2 DEF StartWatch, fields
    <3> QED
      BY <3>2, <3>3, <3>4, <3>5
  <2> QED
    BY <2>1
<1>12. ASSUME NEW c \in Calls, LoadResources(c)
      PROVE  BuiltKept'
  <2>1. ASSUME NEW x \in Calls \ met', Built(x)'
        PROVE  Alone(x)' /\ (Whole(x)' \/ Tearing(Registered(x))')
    <3>1. x \notin met
      BY <1>12, <2>1 DEF LoadResources, fields, running
    <3>2. CASE x = c
      <4>1. /\ pc[c] = "sync" /\ pc'[c] = "ok"
            /\ cur[c] # None /\ Registered(c) = cur[c] /\ Registered(c)' = cur[c]
            /\ resources' = [resources EXCEPT ![cur[c]] = TRUE]
            /\ client' = client /\ callbacks' = callbacks /\ cache' = cache
            /\ liveWatches' = liveWatches
        BY <1>12, <2>1, <3>1, <3>2 DEF LoadResources, fields, running
      <4>2. Whole(c)'
        BY <1>12, <3>1, <3>2, <4>1
      <4>3. Alone(c)'
        BY <1>12, <3>1, <3>2, <4>1 DEF LoadResources, fields, running
      <4> QED
        BY <3>2, <4>2, <4>3
    <3>3. CASE x # c
      <4>1. Built(x)
        BY <1>12, <2>1, <3>3 DEF LoadResources, fields, running
      <4>2. Alone(x)'
        BY <1>12, <3>1, <3>3, <4>1 DEF LoadResources, fields, running
      <4>3. Whole(x) => Whole(x)'
        BY <1>12, <3>3, <4>1 DEF LoadResources, fields, running
      <4>4. Tearing(Registered(x)) => Tearing(Registered(x))'
        BY <1>12, <4>1 DEF LoadResources, fields, running
      <4> QED
        BY <3>1, <4>1, <4>2, <4>3, <4>4
    <3> QED
      BY <3>2, <3>3
  <2> QED
    BY <2>1
<1>13. ASSUME NEW c \in Calls, EKSLookup(c)
      PROVE  BuiltKept'
  BY <1>13 DEF EKSLookup, fields, running
<1>14. ASSUME NEW c \in Calls, EKSStore(c)
      PROVE  BuiltKept'
  BY <1>14 DEF EKSStore, fields, running
<1>15. ASSUME NEW c \in Calls, RemoveLoad(c)
      PROVE  BuiltKept'
  BY <1>15 DEF RemoveLoad, fields, running
<1>16. ASSUME NEW c \in Calls, RemoveStopAuth(c)
      PROVE  BuiltKept'
  BY <1>16 DEF RemoveStopAuth, fields, running
<1>17. ASSUME NEW c \in Calls, RemoveCloseCache(c)
      PROVE  BuiltKept'
  BY <1>17 DEF RemoveCloseCache, fields, running
<1>18. ASSUME NEW c \in Calls, RemoveClear(c)
      PROVE  BuiltKept'
  BY <1>18 DEF RemoveClear, fields, running
<1>19. ASSUME NEW c \in Calls, RemoveCancelWatch(c)
      PROVE  BuiltKept'
  BY <1>19 DEF RemoveCancelWatch, fields, running
<1>20. ASSUME NEW c \in Calls, RemoveDelete(c)
      PROVE  BuiltKept'
  BY <1>20 DEF RemoveDelete, fields, running
<1> QED
  BY <1>1, <1>2, <1>3, <1>4, <1>5, <1>6, <1>7, <1>8, <1>9, <1>10, <1>11, <1>12,
     <1>13, <1>14, <1>15, <1>16, <1>17, <1>18, <1>19, <1>20
  DEF Next, Register, RegisterEKS, Remove

\* A removal that stops a provider takes its placeholder apart.
LEMMA StoppedStep ==
    ASSUME TypeOK, OwnId, HasCur, Meeting, CreatorsBegan, ReadsHold, StoppedLast, [Next]_vars
    PROVE  StoppedLast'
<1> USE InstFacts, ReqFixed, TypeAll, FieldTypes, IdOfType DEF OwnId, HasCur, Meeting, CreatorsBegan, Begun, ReadsHold, StoppedLast, Calm, Tearing, Goto, FirstStep, Registered, Active, SameId, FillSteps, StopSteps, RegisterSteps, RemoveSteps, Final
<1>1. CASE UNCHANGED vars
  BY <1>1 DEF vars, fields, running
<1>2. ASSUME NEW c \in Calls, Begin(c)
      PROVE  StoppedLast'
  BY <1>2 DEF Begin, fields, running
<1>3. ASSUME NEW c \in Calls, Lookup(c)
      PROVE  StoppedLast'
  BY <1>3 DEF Lookup, fields, running
<1>4. ASSUME NEW c \in Calls, ObtainToken(c)
      PROVE  StoppedLast'
  <2>1. PICK step \in {"build", "err", "panic"} : Goto(c, step)
    BY <1>4 DEF ObtainToken
  <2>2. \A i \in Ids : Tearing(registry[i]) => Tearing(registry[i])'
    BY <1>4, <2>1 DEF ObtainToken, fields, running
  <2> QED
    BY <1>4, <2>1, <2>2 DEF ObtainToken, fields, running
<1>5. ASSUME NEW c \in Calls, Build(c)
      PROVE  StoppedLast'
  <2>1. \A d \in stopped' \ met' : pc'[d] \in Final
    BY <1>5 DEF Build, fields, running
  <2>2. ASSUME NEW i \in Ids, Calm(i)', registry'[i] # None, IsEKS(registry'[i]),
               Creator(registry'[i]) \in stopped'
        PROVE  Tearing(registry[i])'
    <3>1. Calm(i) /\ stopped' = stopped
      BY <1>5, <2>2 DEF Build, fields, running
    <3>2. registry'[i] = registry[i]
      <4>1. CASE i # IdOf(c)
        BY <1>5, <4>1 DEF Build
      <4>2. CASE i = IdOf(c)
        <5>1. c \notin met /\ Registered(c) = cur[c]
          BY <1>5, <3>1, <4>2 DEF Build
        <5>2. cur[c] # None
          BY <1>5, <2>2, <4>2 DEF Build, IsEKS
        <5> QED
          BY <1>5, <4>2, <5>1, <5>2 DEF Build
      <4> QED
        BY <4>1, <4>2
    <3>3. Tearing(registry[i])
      BY <2>2, <3>1, <3>2
    <3> QED
      BY <1>5, <3>2, <3>3 DEF Build
  <2> QED
    BY <2>1, <2>2
<1>6. ASSUME NEW c \in Calls, CreateClients(c)
      PROVE  StoppedLast'
  BY <1>6 DEF CreateClients, fields, running
<1>7. ASSUME NEW c \in Calls, InitCallbacks(c)
      PROVE  StoppedLast'
  BY <1>7 DEF InitCallbacks, fields, running
<1>8. ASSUME NEW c \in Calls, FetchServerInfo(c)
      PROVE  StoppedLast'
  BY <1>8 DEF FetchServerInfo, fields, running
<1>9. ASSUME NEW c \in Calls, RegisterHandlers(c)
      PROVE  StoppedLast'
  <2>1. /\ pc[c] = "handlers" /\ pc'[c] \in {"cache", "panic"}
        /\ pc' = [pc EXCEPT ![c] = pc'[c]]
        /\ UNCHANGED <<cur, registry, stopped, met>>
    BY <1>9 DEF RegisterHandlers, fields, running
  <2> QED
    BY <2>1
<1>10. ASSUME NEW c \in Calls, CreateCache(c)
      PROVE  StoppedLast'
  BY <1>10 DEF CreateCache, fields, running
<1>11. ASSUME NEW c \in Calls, StartWatch(c)
      PROVE  StoppedLast'
  <2>1. /\ pc[c] = "watch" /\ pc'[c] \in {"sync", "err", "panic"}
        /\ pc' = [pc EXCEPT ![c] = pc'[c]]
        /\ UNCHANGED <<cur, registry, stopped, met>>
    BY <1>11 DEF StartWatch, fields, running
  <2> QED
    BY <2>1
<1>12. ASSUME NEW c \in Calls, LoadResources(c)
      PROVE  StoppedLast'
  BY <1>12 DEF LoadResources, fields, running
<1>13. ASSUME NEW c \in Calls, EKSLookup(c)
      PROVE  StoppedLast'
  BY <1>13 DEF EKSLookup, fields, running
<1>14. ASSUME NEW c \in Calls, EKSStore(c)
      PROVE  StoppedLast'
  BY <1>14 DEF EKSStore, fields, running
<1>15. ASSUME NEW c \in Calls, RemoveLoad(c)
      PROVE  StoppedLast'
  BY <1>15 DEF RemoveLoad, fields, running
<1>16. ASSUME NEW c \in Calls, RemoveStopAuth(c)
      PROVE  StoppedLast'
  <2>1. /\ pc[c] = "stopAuth" /\ pc'[c] \in {"closeCache", "panic"}
        /\ pc' = [pc EXCEPT ![c] = pc'[c]] /\ cur[c] \in Insts
        /\ UNCHANGED <<cur, registry, met>>
    BY <1>16 DEF RemoveStopAuth, fields
  <2>2. /\ stopped' \subseteq stopped \cup {Creator(cur[c])}
        /\ Creator(cur[c]) \notin stopped => pc'[c] = "closeCache"
    BY <1>16, <2>1 DEF RemoveStopAuth
  <2>3. Creator(cur[c]) \notin met => pc[Creator(cur[c])] \in Final /\ Creator(cur[c]) # c
    <3>1. /\ Creator(cur[c]) \in Calls /\ Creator(cur[c]) # c
          /\ SameId(Creator(cur[c]), c) /\ pc[Creator(cur[c])] \in Steps \ {"idle"}
      BY <2>1
    <3> QED
      BY <2>1, <3>1 DEF Steps
  <2>4. \A d \in stopped' \ met' : pc'[d] \in Final
    BY <2>1, <2>2, <2>3
  <2>5. ASSUME NEW i \in Ids, Calm(i)', registry'[i] # None, IsEKS(registry'[i]),
               Creator(registry'[i]) \in stopped'
        PROVE  Tearing(registry[i])'
    <3>1. CASE Creator(registry[i]) \in stopped
      <4>1. Tearing(registry[i])
        BY <2>1, <2>5, <3>1
      <4> QED
        BY <2>1, <4>1
    <3>2. CASE Creator(registry[i]) \notin stopped
      <4>1. Creator(registry[i]) = Creator(cur[c]) /\ IdOf(c) = i /\ pc'[c] = "closeCache"
        BY <2>1, <2>2, <2>5, <3>2
      <4>2. registry[i] = cur[c]
        BY <2>1, <2>5, <4>1
      <4> QED
        BY <2>1, <4>1, <4>2
    <3> QED
      BY <3>1, <3>2
  <2> QED
    BY <2>4, <2>5
<1>17. ASSUME NEW c \in Calls, RemoveCloseCache(c)
      PROVE  StoppedLast'
  BY <1>17 DEF RemoveCloseCache, fields, running
<1>18. ASSUME NEW c \in Calls, RemoveClear(c)
      PROVE  StoppedLast'
  BY <1>18 DEF RemoveClear, fields, running
<1>19. ASSUME NEW c \in Calls, RemoveCancelWatch(c)
      PROVE  StoppedLast'
  BY <1>19 DEF RemoveCancelWatch, fields, running
<1>20. ASSUME NEW c \in Calls, RemoveDelete(c)
      PROVE  StoppedLast'
  BY <1>20 DEF RemoveDelete, fields, running
<1> QED
  BY <1>1, <1>2, <1>3, <1>4, <1>5, <1>6, <1>7, <1>8, <1>9, <1>10, <1>11, <1>12,
     <1>13, <1>14, <1>15, <1>16, <1>17, <1>18, <1>19, <1>20
  DEF Next, Register, RegisterEKS, Remove

\* On a calm id nothing that a step relies on is missing, except the exec provider of a plain configuration.
LEMMA PanicStep ==
    ASSUME TypeOK, OwnId, HasCur, Meeting, FillsRegistered, ReadsHold, FilledIn, StoppedLast, CalmPanicsOnlyOnPlaceholder, [Next]_vars
    PROVE  CalmPanicsOnlyOnPlaceholder'
<1> USE InstFacts, ReqFixed, TypeAll, FieldTypes, IdOfType DEF OwnId, HasCur, Meeting, FillsRegistered, ReadsHold, FilledIn, StoppedLast, CalmPanicsOnlyOnPlaceholder, Calm, Op, Tearing, RegisteredHasClient, RegisteredHasCallbacks, Goto, FirstStep, Registered, Active, SameId, FillSteps, StopSteps, RegisterSteps, RemoveSteps, Final
<1>1. CASE UNCHANGED vars
  BY <1>1 DEF vars, fields, running
<1>2. ASSUME NEW c \in Calls, Begin(c)
      PROVE  CalmPanicsOnlyOnPlaceholder'
  BY <1>2 DEF Begin, fields, running
<1>3. ASSUME NEW c \in Calls, Lookup(c)
      PROVE  CalmPanicsOnlyOnPlaceholder'
  BY <1>3 DEF Lookup, fields, running
<1>4. ASSUME NEW c \in Calls, ObtainToken(c)
      PROVE  CalmPanicsOnlyOnPlaceholder'
  BY <1>4 DEF ObtainToken, fields, running
<1>5. ASSUME NEW c \in Calls, Build(c)
      PROVE  CalmPanicsOnlyOnPlaceholder'
  BY <1>5 DEF Build, fields, running
<1>6. ASSUME NEW c \in Calls, CreateClients(c)
      PROVE  CalmPanicsOnlyOnPlaceholder'
  BY <1>6 DEF CreateClients, fields, running
<1>7. ASSUME NEW c \in Calls, InitCallbacks(c)
      PROVE  CalmPanicsOnlyOnPlaceholder'
  BY <1>7 DEF InitCallbacks, fields, running
<1>8. ASSUME NEW c \in Calls, FetchServerInfo(c)
      PROVE  CalmPanicsOnlyOnPlaceholder'
  BY <1>8 DEF FetchServerInfo, fields, running
<1>9. ASSUME NEW c \in Calls, RegisterHandlers(c)
      PROVE  CalmPanicsOnlyOnPlaceholder'
  BY <1>9 DEF RegisterHandlers, fields, running
<1>10. ASSUME NEW c \in Calls, CreateCache(c)
      PROVE  CalmPanicsOnlyOnPlaceholder'
  BY <1>10 DEF CreateCache, fields, running
<1>11. ASSUME NEW c \in Calls, StartWatch(c)
      PROVE  CalmPanicsOnlyOnPlaceholder'
  BY <1>11 DEF StartWatch, fields, running
<1>12. ASSUME NEW c \in Calls, LoadResources(c)
      PROVE  CalmPanicsOnlyOnPlaceholder'
  BY <1>12 DEF LoadResources, fields, running
<1>13. ASSUME NEW c \in Calls, EKSLookup(c)
      PROVE  CalmPanicsOnlyOnPlaceholder'
  BY <1>13 DEF EKSLookup, fields, running
<1>14. ASSUME NEW c \in Calls, EKSStore(c)
      PROVE  CalmPanicsOnlyOnPlaceholder'
  BY <1>14 DEF EKSStore, fields, running
<1>15. ASSUME NEW c \in Calls, RemoveLoad(c)
      PROVE  CalmPanicsOnlyOnPlaceholder'
  BY <1>15 DEF RemoveLoad, fields, running
<1>16. ASSUME NEW c \in Calls, RemoveStopAuth(c)
      PROVE  CalmPanicsOnlyOnPlaceholder'
  BY <1>16 DEF RemoveStopAuth, fields, running
<1>17. ASSUME NEW c \in Calls, RemoveCloseCache(c)
      PROVE  CalmPanicsOnlyOnPlaceholder'
  BY <1>17 DEF RemoveCloseCache, fields, running
<1>18. ASSUME NEW c \in Calls, RemoveClear(c)
      PROVE  CalmPanicsOnlyOnPlaceholder'
  BY <1>18 DEF RemoveClear, fields, running
<1>19. ASSUME NEW c \in Calls, RemoveCancelWatch(c)
      PROVE  CalmPanicsOnlyOnPlaceholder'
  BY <1>19 DEF RemoveCancelWatch, fields, running
<1>20. ASSUME NEW c \in Calls, RemoveDelete(c)
      PROVE  CalmPanicsOnlyOnPlaceholder'
  BY <1>20 DEF RemoveDelete, fields, running
<1> QED
  BY <1>1, <1>2, <1>3, <1>4, <1>5, <1>6, <1>7, <1>8, <1>9, <1>10, <1>11, <1>12,
     <1>13, <1>14, <1>15, <1>16, <1>17, <1>18, <1>19, <1>20
  DEF Next, Register, RegisterEKS, Remove

\* The inductive invariant holds initially.
LEMMA InvInit == Init => IInv
<1> SUFFICES ASSUME Init PROVE IInv
  OBVIOUS
<1>1. TypeOK
  BY TypeInit
<1>2. OwnId
  BY IdOfType, <1>1 DEF Init, OwnId
<1>3. HasCur /\ Meeting /\ FillsRegistered
  BY DEF Init, HasCur, Meeting, FillsRegistered, Active, FillSteps, StopSteps,
         RegisterSteps, RemoveSteps
<1>4. Progress /\ CacheHeld /\ WatchHeld /\ TokenLoopHeld
  BY DEF Init, Progress, CacheHeld, WatchHeld, TokenLoopHeld
<1>5. CreatorsBegan /\ RemovesRemove /\ WritersHold /\ ReadsHold /\ StoresUnbuilt
  BY IdOfType, <1>1 DEF Init, CreatorsBegan, RemovesRemove, WritersHold, ReadsHold,
     StoresUnbuilt, StopSteps, RemoveSteps
<1>6. FilledIn /\ BuiltKept /\ StoppedLast /\ CalmPanicsOnlyOnPlaceholder
  BY DEF Init, FilledIn, FillSteps, BuiltKept, Built, StoppedLast,
     CalmPanicsOnlyOnPlaceholder
<1> QED
  BY <1>1, <1>2, <1>3, <1>4, <1>5, <1>6 DEF IInv

\* Every step preserves the inductive invariant.
LEMMA InvStep == IInv /\ [Next]_vars => IInv'
<1> SUFFICES ASSUME IInv, [Next]_vars PROVE IInv'
  OBVIOUS
<1> USE DEF IInv
<1>1. TypeOK' /\ OwnId' /\ HasCur'
  BY TypeStep, OwnIdStep, HasCurStep
<1>2. Meeting' /\ Progress' /\ FillsRegistered'
  BY MeetingStep, ProgressStep, FillsStep
<1>3. CacheHeld' /\ WatchHeld' /\ TokenLoopHeld'
  BY CacheStep, WatchStep, TokenLoopStep
<1>4. CreatorsBegan' /\ RemovesRemove' /\ WritersHold' /\ ReadsHold' /\ StoresUnbuilt'
  BY CreatorsStep, RemovesStep, WritersStep, ReadsStep, StoresStep
<1>5. FilledIn' /\ BuiltKept'
  BY FilledStep, BuiltStep
<1>6. StoppedLast' /\ CalmPanicsOnlyOnPlaceholder'
  BY StoppedStep, PanicStep
<1> QED
  BY <1>1, <1>2, <1>3, <1>4, <1>5, <1>6

\* The inductive invariant holds in every reachable state.
LEMMA InvAlways == Spec => []IInv
  BY InvInit, InvStep, PTL DEF Spec

\* Every reachable state is well typed, for any number of concurrent
\* registrations and removals.
THEOREM TypeCorrect == Spec => []TypeOK
<1>1. IInv => TypeOK
  BY DEF IInv
<1> QED
  BY <1>1, InvAlways, PTL

\* No schedule of other calls takes an open cache out of reach of the removal
\* of its cluster, unless another call on that id overlapped its registration.
THEOREM CachesReachable == Spec => []CacheReachable
<1>1. IInv => CacheReachable
  <2> SUFFICES ASSUME IInv, NEW c \in openCaches \ met
               PROVE  Registered(c) # None /\ cache[Registered(c)] = c
    BY DEF CacheReachable
  <2> QED
    BY DEF IInv, CacheHeld
<1> QED
  BY <1>1, InvAlways, PTL

\* The same for the CRD watch and the cancel function that stops it.
THEOREM WatchesReachable == Spec => []WatchReachable
<1>1. IInv => WatchReachable
  <2> SUFFICES ASSUME IInv, NEW c \in liveWatches \ met
               PROVE  Registered(c) # None /\ cancel[Registered(c)] = c
    BY DEF WatchReachable
  <2> QED
    BY DEF IInv, WatchHeld
<1> QED
  BY <1>1, InvAlways, PTL

\* The same for the token goroutines of an EKS cluster and the placeholder
\* whose cancel function ends them.
THEOREM TokenLoopsReachable == Spec => []TokenLoopReachable
<1>1. IInv => TokenLoopReachable
  BY DEF IInv, TokenLoopHeld, TokenLoopOf, TokenLoopReachable
<1> QED
  BY <1>1, InvAlways, PTL

\* Together: nothing that an undisturbed registration made gets out of reach.
THEOREM RegistryNeverLeaks == Spec => []NothingLeaks
BY CachesReachable, WatchesReachable, TokenLoopsReachable, PTL DEF NothingLeaks

\* A registration that built the registered instance, that nobody disturbed
\* and that returned without an error left it complete, until a removal starts.
THEOREM BuildersComplete == Spec => []BuilderLeavesComplete
<1>1. ASSUME IInv, NEW c \in Calls \ met, Built(c),
             \A r \in Calls : Op(r) = "remove" /\ IdOf(r) = IdOf(c) => ~Active(r)
      PROVE  Whole(c)
  <2> SUFFICES ASSUME Tearing(Registered(c)) PROVE FALSE
    BY <1>1 DEF IInv, BuiltKept
  <2>1. PICK r \in Calls :
            /\ pc[r] \in {"closeCache", "clear", "cancelWatch", "delete"}
            /\ cur[r] = Registered(c)
    BY DEF Tearing
  <2>2. IdOf(r) = IdOf(c)
    BY <1>1, <2>1, IdOfType DEF IInv, OwnId, Built, Registered
  <2>3. Op(r) = "remove" /\ Active(r)
    BY <1>1, <2>1 DEF IInv, RemovesRemove, Active, RemoveSteps
  <2> QED
    BY <1>1, <2>2, <2>3
<1>2. IInv => BuilderLeavesComplete
  BY <1>1 DEF BuilderLeavesComplete, Built, Whole
<1> QED
  BY <1>2, InvAlways, PTL

\* As long as the calls on an id are made one after the other, only a plain
\* registration over an EKS placeholder panics, and a removal frees everything.
THEOREM CalmCalls == Spec => []CalmCallsBehave
<1>1. ASSUME IInv PROVE CalmRemovalFreesAll
  <2> SUFFICES ASSUME NEW c \in Calls, Calm(IdOf(c)), Registered(c) = None,
                      \A d \in Calls : IdOf(d) = IdOf(c) => ~Active(d),
                      c \in openCaches \cup liveWatches \cup tokenLoops
               PROVE  FALSE
    BY DEF CalmRemovalFreesAll
  <2>1. c \notin met /\ ~Active(c)
    BY DEF Calm
  <2>2. c \notin openCaches /\ c \notin liveWatches
    BY <1>1, <2>1 DEF IInv, CacheHeld, WatchHeld
  <2>3. c \notin tokenLoops
    BY <1>1, <2>1, InstFacts DEF IInv, TokenLoopHeld, TokenLoopOf, Active, RegisterSteps
  <2> QED
    BY <2>2, <2>3
<1>2. IInv => CalmCallsBehave
  BY <1>1 DEF IInv, CalmCallsBehave
<1> QED
  BY <1>2, InvAlways, PTL
=============================================================================
