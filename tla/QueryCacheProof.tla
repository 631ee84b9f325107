--------------------------- MODULE QueryCacheProof ---------------------------
(***************************************************************************)
(* Proofs about QueryCache, for any number of calls, any time to live and  *)
(* any delay: how old an answer can be, and how far the cache can go back. *)
(* Then those about ListQuery: what a list is that such a cache may hold,  *)
(* for any namespaces, conditions and numbers of calls and chains.         *)
(***************************************************************************)
EXTENDS QueryCache, ListQuery, TLAPS

\* Call d has read its object; it never reads another one.
Fetched(d) == pc[d] \notin {"idle", "nodeLookup", "lookup", "query"}

Life == MaxTTL + Delay

\* No query runs for longer than Delay.
OnTime ==
    \A c \in Calls : Running(c) => began[c] <= now /\ now <= began[c] + Delay

\* c holds an object that was read at most `age` before c got it.
Holds(c, age) ==
    /\ held[c] \in Calls
    /\ Fetched(held[c])
    /\ fetchedAt[held[c]] <= tookAt[c]
    /\ tookAt[c] < fetchedAt[held[c]] + age
    /\ began[c] <= tookAt[c]
    /\ tookAt[c] <= now

\* What the calls hold: their own object until it is stored, then one whose
\* age grows with every cache it went through.
HeldInv ==
    \A c \in Calls :
        /\ pc[c] = "store" => held[c] = c /\ tookAt[c] = fetchedAt[c]
        /\ pc[c] \in {"store", "strip", "convert", "nodeStore"}
               => Holds(c, Life)
        /\ pc[c] = "done" =>
               Holds(c, IF req[c].kind = "get" THEN Life ELSE Life + Life)

\* An entry expires at most one, or two, lives after its object was read.
Cached(k, age) ==
    entry[k] # None =>
        /\ Fetched(entry[k])
        /\ fetchedAt[entry[k]] <= now
        /\ expires[k] <= fetchedAt[entry[k]] + age

EntryInv == Cached("get", Life) /\ Cached("node", Life + Life)

\* Only node queries look at the node cache.
KindInv ==
    \A c \in Calls :
        pc[c] \in {"nodeLookup", "nodeStore"} => req[c].kind = "node"

\* Only a call that has read its object hands it on.
ReadFirst ==
    \A c \in Calls :
        pc[c] \in {"idle", "nodeLookup", "lookup", "query", "failed"} =>
            /\ \A k \in Keys : entry[k] # c
            /\ \A d \in Calls : held[d] # c

\* Two calls share an object only by way of the cache.
SharedByCache ==
    /\ \A c \in Calls : pc[c] = "store" => req[c].ttl > 0
    /\ \A k \in Keys : entry[k] # None => req[entry[k]].ttl > 0
    /\ \A c, d \in Calls :
           held[c] = d /\ c # d => req[c].ttl > 0 /\ req[d].ttl > 0

\* Whoever stripped an object was asked to, and still holds it; whoever was
\* asked to has done so before it converts.
StrippedByHolder ==
    /\ \A o \in stripped :
           \E d \in Calls :
               req[d].strip /\ held[d] = o
               /\ pc[d] \in {"convert", "done", "unconverted"}
    /\ \A c \in Calls :
           /\ pc[c] = "strip" => req[c].strip
           /\ req[c].strip /\ pc[c] \in {"convert", "done"}
                  => held[c] \in stripped
           /\ req[c].strip /\ pc[c] = "done" => c \in lacks
           /\ c \in lacks => /\ held[c] \in stripped
                             /\ pc[c] \in {"nodeStore", "done"}

IInv ==
    /\ TypeOK /\ OnTime /\ HeldInv /\ EntryInv /\ KindInv
    /\ ReadFirst /\ SharedByCache /\ StrippedByHolder

\* What the lemmas use of the type invariant.
LEMMA TypeFacts ==
    TypeOK =>
      /\ now \in Nat
      /\ pc \in [Calls -> Steps]
      /\ began \in [Calls -> Nat]
      /\ held \in [Calls -> Calls \cup {None}]
      /\ tookAt \in [Calls -> Nat]
      /\ fetchedAt \in [Calls -> Nat]
      /\ entry \in [Keys -> Calls \cup {None}]
      /\ expires \in [Keys -> Nat]
      /\ MaxTTL \in Nat /\ Delay \in Nat /\ MaxTTL > 0
      /\ Life \in Nat /\ Life = MaxTTL + Delay
  BY NumbersAssumption DEF TypeOK, CallOrNone, Life

\* A time to live is a number of at most MaxTTL.
LEMMA RequestFacts ==
    TypeOK => \A c \in Calls : /\ req[c].ttl \in Nat /\ req[c].ttl <= MaxTTL
                               /\ req[c].kind \in {"get", "node"}
                               /\ req[c].strip \in BOOLEAN
                               /\ req[c].kind = "node"
                                      => req[c].ttl > 0 /\ ~req[c].strip
<1> SUFFICES ASSUME TypeOK, NEW c \in Calls
             PROVE  /\ req[c].ttl \in Nat /\ req[c].ttl <= MaxTTL
                    /\ req[c].kind \in {"get", "node"}
                    /\ req[c].strip \in BOOLEAN
                    /\ req[c].kind = "node"
                           => req[c].ttl > 0 /\ ~req[c].strip
  OBVIOUS
<1>1. req[c] \in Request
  BY DEF TypeOK
<1>2. req[c].ttl \in 0 .. MaxTTL
  <2>1. CASE req[c] \in [kind : {"get"}, ttl : 0 .. MaxTTL, strip : BOOLEAN]
    BY <2>1
  <2>2. CASE req[c] \in [kind : {"node"}, ttl : 1 .. MaxTTL, strip : {FALSE}]
    <3>1. req[c].ttl \in 1 .. MaxTTL
      BY <2>2
    <3> QED
      BY <3>1, NumbersAssumption
  <2> QED
    BY <1>1, <2>1, <2>2 DEF Request
<1>3. req[c].kind \in {"get", "node"}
  BY <1>1 DEF Request
<1>4. req[c].strip \in BOOLEAN
  BY <1>1 DEF Request
<1>5. req[c].kind = "node" => req[c].ttl > 0 /\ ~req[c].strip
  <2> SUFFICES ASSUME req[c].kind = "node" PROVE req[c].ttl > 0 /\ ~req[c].strip
    OBVIOUS
  <2>1. req[c] \in [kind : {"node"}, ttl : 1 .. MaxTTL, strip : {FALSE}]
    BY <1>1 DEF Request
  <2>2. req[c].ttl \in 1 .. MaxTTL /\ req[c].strip = FALSE
    BY <2>1
  <2> QED
    BY <2>2, NumbersAssumption
<1> QED
  BY <1>2, <1>3, <1>4, <1>5, NumbersAssumption

\* Get ends by removing the managed fields or by converting.
LEMMA AfterGetType == \A c \in Calls : AfterGet(c) \in {"strip", "convert"}
  BY DEF AfterGet

\* Every step keeps the state well typed.
LEMMA TypeStep ==
    ASSUME TypeOK, HeldInv, [Next]_vars
    PROVE  TypeOK'
<1> USE NoneAssumption, RequestFacts DEF TypeOK, Goto, Keys, Steps, CallOrNone
<1>1. CASE UNCHANGED vars
  BY <1>1 DEF vars, caching
<1>2. CASE Tick
  BY <1>2 DEF Tick, caching
<1>3. ASSUME NEW k \in Keys, Evict(k)
      PROVE  TypeOK'
  BY <1>3 DEF Evict, caching
<1>4. ASSUME NEW c \in Calls, Begin(c)
      PROVE  TypeOK'
  BY <1>4 DEF Begin, caching, Take, SetWithTTL
<1>5. ASSUME NEW c \in Calls, NodeLookup(c)
      PROVE  TypeOK'
  BY <1>5 DEF NodeLookup, caching, Take, SetWithTTL
<1>6. ASSUME NEW c \in Calls, Lookup(c)
      PROVE  TypeOK'
  BY <1>6, AfterGetType DEF Lookup, caching, Take, SetWithTTL
<1>7. ASSUME NEW c \in Calls, Query(c)
      PROVE  TypeOK'
  BY <1>7, AfterGetType DEF Query, caching, Take, SetWithTTL
<1>8. ASSUME NEW c \in Calls, Store(c)
      PROVE  TypeOK'
  BY <1>8, AfterGetType DEF Store, caching, Take, SetWithTTL
<1>9. ASSUME NEW c \in Calls, NodeStore(c)
      PROVE  TypeOK'
  BY <1>9 DEF NodeStore, caching, Take, SetWithTTL
<1>10. ASSUME NEW c \in Calls, Strip(c)
      PROVE  TypeOK'
  BY <1>10 DEF Strip, caching, HeldInv, Holds
<1>11. ASSUME NEW c \in Calls, Convert(c)
      PROVE  TypeOK'
  BY <1>11 DEF Convert, caching, Take, SetWithTTL
<1> QED
  BY <1>1, <1>2, <1>3, <1>4, <1>5, <1>6, <1>7, <1>8, <1>9, <1>10, <1>11
  DEF Next, Step

\* The clock waits for every query that has run for Delay.
LEMMA OnTimeStep ==
    ASSUME TypeOK, OnTime, [Next]_vars
    PROVE  OnTime'
<1> USE TypeFacts DEF OnTime, Running, Goto, AfterGet
<1>1. CASE UNCHANGED vars
  BY <1>1 DEF vars, caching
<1>2. CASE Tick
  BY <1>2 DEF Tick, caching
<1>3. ASSUME NEW k \in Keys, Evict(k)
      PROVE  OnTime'
  BY <1>3 DEF Evict, caching
<1>4. ASSUME NEW c \in Calls, Begin(c)
      PROVE  OnTime'
  BY <1>4 DEF Begin, caching, Take, SetWithTTL
<1>5. ASSUME NEW c \in Calls, NodeLookup(c)
      PROVE  OnTime'
  BY <1>5 DEF NodeLookup, caching, Take, SetWithTTL
<1>6. ASSUME NEW c \in Calls, Lookup(c)
      PROVE  OnTime'
  BY <1>6 DEF Lookup, caching, Take, SetWithTTL
<1>7. ASSUME NEW c \in Calls, Query(c)
      PROVE  OnTime'
  BY <1>7 DEF Query, caching, Take, SetWithTTL
<1>8. ASSUME NEW c \in Calls, Store(c)
      PROVE  OnTime'
  BY <1>8 DEF Store, caching, Take, SetWithTTL
<1>9. ASSUME NEW c \in Calls, NodeStore(c)
      PROVE  OnTime'
  BY <1>9 DEF NodeStore, caching, Take, SetWithTTL
<1>10. ASSUME NEW c \in Calls, Strip(c)
      PROVE  OnTime'
  BY <1>10 DEF Strip, caching, Take, SetWithTTL
<1>11. ASSUME NEW c \in Calls, Convert(c)
      PROVE  OnTime'
  BY <1>11 DEF Convert, caching, Take, SetWithTTL
<1> QED
  BY <1>1, <1>2, <1>3, <1>4, <1>5, <1>6, <1>7, <1>8, <1>9, <1>10, <1>11
  DEF Next, Step

\* A call keeps to the steps of its kind.
LEMMA KindStep ==
    ASSUME TypeOK, KindInv, [Next]_vars
    PROVE  KindInv'
<1> USE TypeFacts, RequestFacts DEF KindInv, Goto, AfterGet
<1>1. CASE UNCHANGED vars
  BY <1>1 DEF vars, caching
<1>2. CASE Tick
  BY <1>2 DEF Tick, caching
<1>3. ASSUME NEW k \in Keys, Evict(k)
      PROVE  KindInv'
  BY <1>3 DEF Evict, caching
<1>4. ASSUME NEW c \in Calls, Begin(c)
      PROVE  KindInv'
  BY <1>4 DEF Begin, caching, Take, SetWithTTL
<1>5. ASSUME NEW c \in Calls, NodeLookup(c)
      PROVE  KindInv'
  BY <1>5 DEF NodeLookup, caching, Take, SetWithTTL
<1>6. ASSUME NEW c \in Calls, Lookup(c)
      PROVE  KindInv'
  BY <1>6 DEF Lookup, caching, Take, SetWithTTL
<1>7. ASSUME NEW c \in Calls, Query(c)
      PROVE  KindInv'
  BY <1>7 DEF Query, caching, Take, SetWithTTL
<1>8. ASSUME NEW c \in Calls, Store(c)
      PROVE  KindInv'
  BY <1>8 DEF Store, caching, Take, SetWithTTL
<1>9. ASSUME NEW c \in Calls, NodeStore(c)
      PROVE  KindInv'
  BY <1>9 DEF NodeStore, caching, Take, SetWithTTL
<1>10. ASSUME NEW c \in Calls, Strip(c)
      PROVE  KindInv'
  BY <1>10 DEF Strip, caching, Take, SetWithTTL
<1>11. ASSUME NEW c \in Calls, Convert(c)
      PROVE  KindInv'
  BY <1>11 DEF Convert, caching, Take, SetWithTTL
<1> QED
  BY <1>1, <1>2, <1>3, <1>4, <1>5, <1>6, <1>7, <1>8, <1>9, <1>10, <1>11
  DEF Next, Step

\* A new entry expires a time to live after a store that comes in time.
LEMMA EntryStep ==
    ASSUME TypeOK, OnTime, HeldInv, EntryInv, KindInv, [Next]_vars
    PROVE  EntryInv'
<1> USE TypeFacts, RequestFacts, NoneAssumption DEF HeldInv, EntryInv, Cached,
        Holds, Fetched, Goto, AfterGet, Keys, Running, OnTime, KindInv
<1>1. CASE UNCHANGED vars
  BY <1>1 DEF vars, caching
<1>2. CASE Tick
  BY <1>2 DEF Tick, caching
<1>3. ASSUME NEW k \in Keys, Evict(k)
      PROVE  EntryInv'
  BY <1>3 DEF Evict, caching
<1>4. ASSUME NEW c \in Calls, Begin(c)
      PROVE  EntryInv'
  BY <1>4 DEF Begin, caching, Take, SetWithTTL
<1>5. ASSUME NEW c \in Calls, NodeLookup(c)
      PROVE  EntryInv'
  BY <1>5 DEF NodeLookup, caching, Take, SetWithTTL
<1>6. ASSUME NEW c \in Calls, Lookup(c)
      PROVE  EntryInv'
  BY <1>6 DEF Lookup, caching, Take, SetWithTTL
<1>7. ASSUME NEW c \in Calls, Query(c)
      PROVE  EntryInv'
  BY <1>7 DEF Query, caching, Take, SetWithTTL
<1>8. ASSUME NEW c \in Calls, Store(c)
      PROVE  EntryInv'
  BY <1>8 DEF Store, caching, Take, SetWithTTL
<1>9. ASSUME NEW c \in Calls, NodeStore(c)
      PROVE  EntryInv'
  BY <1>9 DEF NodeStore, caching, Take, SetWithTTL
<1>10. ASSUME NEW c \in Calls, Strip(c)
      PROVE  EntryInv'
  BY <1>10 DEF Strip, caching, Take, SetWithTTL
<1>11. ASSUME NEW c \in Calls, Convert(c)
      PROVE  EntryInv'
  BY <1>11 DEF Convert, caching, Take, SetWithTTL
<1> QED
  BY <1>1, <1>2, <1>3, <1>4, <1>5, <1>6, <1>7, <1>8, <1>9, <1>10, <1>11
  DEF Next, Step

\* A hit gets an object no older than its entry may be.
LEMMA HeldStep ==
    ASSUME TypeOK, OnTime, HeldInv, EntryInv, KindInv, [Next]_vars
    PROVE  HeldInv'
<1> USE TypeFacts, RequestFacts, NoneAssumption DEF HeldInv, EntryInv, Cached,
        Holds, Fetched, Goto, AfterGet, Keys, Running, OnTime, KindInv, Live
<1>1. CASE UNCHANGED vars
  BY <1>1 DEF vars, caching
<1>2. CASE Tick
  BY <1>2 DEF Tick, caching
<1>3. ASSUME NEW k \in Keys, Evict(k)
      PROVE  HeldInv'
  BY <1>3 DEF Evict, caching
<1>4. ASSUME NEW c \in Calls, Begin(c)
      PROVE  HeldInv'
  BY <1>4 DEF Begin, caching, Take, SetWithTTL
<1>5. ASSUME NEW c \in Calls, NodeLookup(c)
      PROVE  HeldInv'
  BY <1>5 DEF NodeLookup, caching, Take, SetWithTTL
<1>6. ASSUME NEW c \in Calls, Lookup(c)
      PROVE  HeldInv'
  BY <1>6 DEF Lookup, caching, Take, SetWithTTL
<1>7. ASSUME NEW c \in Calls, Query(c)
      PROVE  HeldInv'
  BY <1>7 DEF Query, caching, Take, SetWithTTL
<1>8. ASSUME NEW c \in Calls, Store(c)
      PROVE  HeldInv'
  BY <1>8 DEF Store, caching, Take, SetWithTTL
<1>9. ASSUME NEW c \in Calls, NodeStore(c)
      PROVE  HeldInv'
  BY <1>9 DEF NodeStore, caching, Take, SetWithTTL
<1>10. ASSUME NEW c \in Calls, Strip(c)
      PROVE  HeldInv'
  BY <1>10 DEF Strip, caching, Take, SetWithTTL
<1>11. ASSUME NEW c \in Calls, Convert(c)
      PROVE  HeldInv'
  BY <1>11 DEF Convert, caching, Take, SetWithTTL
<1> QED
  BY <1>1, <1>2, <1>3, <1>4, <1>5, <1>6, <1>7, <1>8, <1>9, <1>10, <1>11
  DEF Next, Step

\* A call hands on its object after it has read it.
LEMMA ReadFirstStep ==
    ASSUME TypeOK, HeldInv, ReadFirst, [Next]_vars
    PROVE  ReadFirst'
<1> USE TypeFacts, NoneAssumption DEF HeldInv, Holds, Fetched, ReadFirst, Goto, AfterGet, Keys, Live
<1>1. CASE UNCHANGED vars
  BY <1>1 DEF vars, caching
<1>2. CASE Tick
  BY <1>2 DEF Tick, caching
<1>3. ASSUME NEW k \in Keys, Evict(k)
      PROVE  ReadFirst'
  BY <1>3 DEF Evict, caching
<1>4. ASSUME NEW c \in Calls, Begin(c)
      PROVE  ReadFirst'
  BY <1>4 DEF Begin, caching, Take, SetWithTTL
<1>5. ASSUME NEW c \in Calls, NodeLookup(c)
      PROVE  ReadFirst'
  BY <1>5 DEF NodeLookup, caching, Take, SetWithTTL
<1>6. ASSUME NEW c \in Calls, Lookup(c)
      PROVE  ReadFirst'
  BY <1>6 DEF Lookup, caching, Take, SetWithTTL
<1>7. ASSUME NEW c \in Calls, Query(c)
      PROVE  ReadFirst'
  BY <1>7 DEF Query, caching, Take, SetWithTTL
<1>8. ASSUME NEW c \in Calls, Store(c)
      PROVE  ReadFirst'
  BY <1>8 DEF Store, caching, Take, SetWithTTL
<1>9. ASSUME NEW c \in Calls, NodeStore(c)
      PROVE  ReadFirst'
  BY <1>9 DEF NodeStore, caching, Take, SetWithTTL
<1>10. ASSUME NEW c \in Calls, Strip(c)
      PROVE  ReadFirst'
  BY <1>10 DEF Strip, caching, Take, SetWithTTL
<1>11. ASSUME NEW c \in Calls, Convert(c)
      PROVE  ReadFirst'
  BY <1>11 DEF Convert, caching, Take, SetWithTTL
<1> QED
  BY <1>1, <1>2, <1>3, <1>4, <1>5, <1>6, <1>7, <1>8, <1>9, <1>10, <1>11
  DEF Next, Step

\* Only calls with a time to live put objects in the cache or take them out.
LEMMA SharedByCacheStep ==
    ASSUME TypeOK, HeldInv, KindInv, SharedByCache, [Next]_vars
    PROVE  SharedByCache'
<1> USE TypeFacts, RequestFacts, NoneAssumption DEF HeldInv, Holds, KindInv, SharedByCache, Goto, AfterGet, Keys, Live
<1>1. CASE UNCHANGED vars
  BY <1>1 DEF vars, caching
<1>2. CASE Tick
  BY <1>2 DEF Tick, caching
<1>3. ASSUME NEW k \in Keys, Evict(k)
      PROVE  SharedByCache'
  BY <1>3 DEF Evict, caching
<1>4. ASSUME NEW c \in Calls, Begin(c)
      PROVE  SharedByCache'
  BY <1>4 DEF Begin, caching, Take, SetWithTTL
<1>5. ASSUME NEW c \in Calls, NodeLookup(c)
      PROVE  SharedByCache'
  BY <1>5 DEF NodeLookup, caching, Take, SetWithTTL
<1>6. ASSUME NEW c \in Calls, Lookup(c)
      PROVE  SharedByCache'
  BY <1>6 DEF Lookup, caching, Take, SetWithTTL
<1>7. ASSUME NEW c \in Calls, Query(c)
      PROVE  SharedByCache'
  BY <1>7 DEF Query, caching, Take, SetWithTTL
<1>8. ASSUME NEW c \in Calls, Store(c)
      PROVE  SharedByCache'
  BY <1>8 DEF Store, caching, Take, SetWithTTL
<1>9. ASSUME NEW c \in Calls, NodeStore(c)
      PROVE  SharedByCache'
  BY <1>9 DEF NodeStore, caching, Take, SetWithTTL
<1>10. ASSUME NEW c \in Calls, Strip(c)
      PROVE  SharedByCache'
  BY <1>10 DEF Strip, caching, Take, SetWithTTL
<1>11. ASSUME NEW c \in Calls, Convert(c)
      PROVE  SharedByCache'
  BY <1>11 DEF Convert, caching, Take, SetWithTTL
<1> QED
  BY <1>1, <1>2, <1>3, <1>4, <1>5, <1>6, <1>7, <1>8, <1>9, <1>10, <1>11
  DEF Next, Step

\* An object is stripped by a call that holds it from then on.
LEMMA StrippedByHolderStep ==
    ASSUME TypeOK, HeldInv, KindInv, StrippedByHolder, [Next]_vars
    PROVE  StrippedByHolder'
<1> USE TypeFacts, RequestFacts, NoneAssumption DEF HeldInv, Holds, KindInv, StrippedByHolder, Goto, AfterGet, Keys, Live
<1>1. CASE UNCHANGED vars
  BY <1>1 DEF vars, caching
<1>2. CASE Tick
  BY <1>2 DEF Tick, caching
<1>3. ASSUME NEW k \in Keys, Evict(k)
      PROVE  StrippedByHolder'
  BY <1>3 DEF Evict, caching
<1>4. ASSUME NEW c \in Calls, Begin(c)
      PROVE  StrippedByHolder'
  BY <1>4 DEF Begin, caching, Take, SetWithTTL
<1>5. ASSUME NEW c \in Calls, NodeLookup(c)
      PROVE  StrippedByHolder'
  BY <1>5 DEF NodeLookup, caching, Take, SetWithTTL
<1>6. ASSUME NEW c \in Calls, Lookup(c)
      PROVE  StrippedByHolder'
  BY <1>6 DEF Lookup, caching, Take, SetWithTTL
<1>7. ASSUME NEW c \in Calls, Query(c)
      PROVE  StrippedByHolder'
  BY <1>7 DEF Query, caching, Take, SetWithTTL
<1>8. ASSUME NEW c \in Calls, Store(c)
      PROVE  StrippedByHolder'
  BY <1>8 DEF Store, caching, Take, SetWithTTL
<1>9. ASSUME NEW c \in Calls, NodeStore(c)
      PROVE  StrippedByHolder'
  BY <1>9 DEF NodeStore, caching, Take, SetWithTTL
<1>10. ASSUME NEW c \in Calls, Strip(c)
      PROVE  StrippedByHolder'
  BY <1>10 DEF Strip, caching, Take, SetWithTTL
<1>11. ASSUME NEW c \in Calls, Convert(c)
      PROVE  StrippedByHolder'
  BY <1>11 DEF Convert, caching, Take, SetWithTTL
<1> QED
  BY <1>1, <1>2, <1>3, <1>4, <1>5, <1>6, <1>7, <1>8, <1>9, <1>10, <1>11
  DEF Next, Step

\* The inductive invariant holds initially.
LEMMA InvInit == Init => IInv
<1> SUFFICES ASSUME Init PROVE IInv
  OBVIOUS
<1>1. TypeOK
  BY NumbersAssumption DEF Init, TypeOK, Steps, CallOrNone, Keys
<1>2. OnTime /\ KindInv /\ HeldInv
  BY DEF Init, OnTime, KindInv, HeldInv, Running
<1>3. EntryInv
  BY DEF Init, EntryInv, Cached, Keys
<1>4. ReadFirst /\ SharedByCache /\ StrippedByHolder
  BY NoneAssumption DEF Init, ReadFirst, SharedByCache, StrippedByHolder, Keys
<1> QED
  BY <1>1, <1>2, <1>3, <1>4 DEF IInv

\* Every step preserves the inductive invariant.
LEMMA InvStep == IInv /\ [Next]_vars => IInv'
<1> SUFFICES ASSUME IInv, [Next]_vars PROVE IInv'
  OBVIOUS
<1> USE DEF IInv
<1>1. TypeOK' /\ OnTime' /\ KindInv'
  BY TypeStep, OnTimeStep, KindStep
<1>2. HeldInv' /\ EntryInv'
  BY HeldStep, EntryStep
<1>3. ReadFirst' /\ SharedByCache' /\ StrippedByHolder'
  BY ReadFirstStep, SharedByCacheStep, StrippedByHolderStep
<1> QED
  BY <1>1, <1>2, <1>3

\* The inductive invariant holds in every reachable state.
LEMMA InvAlways == Spec => []IInv
  BY InvInit, InvStep, PTL DEF Spec

\* Every reachable state is well typed.
THEOREM TypeCorrect == Spec => []TypeOK
<1>1. IInv => TypeOK
  BY DEF IInv
<1> QED
  BY <1>1, InvAlways, PTL

\* However calls interleave and whatever ristretto evicts, an answer is less
\* than one time to live and one delay old, twice that for nested caches.
THEOREM Staleness == Spec => []StaleBound
<1>1. IInv => StaleBound
  <2> SUFFICES ASSUME IInv, NEW c \in Calls, pc[c] = "done"
               PROVE  /\ held[c] # None
                      /\ fetchedAt[held[c]] <= tookAt[c]
                      /\ tookAt[c] < fetchedAt[held[c]]
                           + (IF req[c].kind = "get" THEN 1 ELSE 2)
                             * (MaxTTL + Delay)
    BY DEF StaleBound
  <2>1. Holds(c, IF req[c].kind = "get" THEN Life ELSE Life + Life)
    BY DEF IInv, HeldInv
  <2>2. held[c] # None
    BY <2>1, NoneAssumption DEF Holds
  <2>3. /\ 1 * (MaxTTL + Delay) = Life
        /\ 2 * (MaxTTL + Delay) = Life + Life
    BY NumbersAssumption DEF Life
  <2> QED
    BY <2>1, <2>2, <2>3 DEF Holds
<1> QED
  BY <1>1, InvAlways, PTL

\* A late store of Get puts back an object at most one delay older, one of
\* getNodeWithCache one that is less than a time to live and two delays older.
THEOREM BoundedGoingBack == Spec => GoesBackInBounds
<1> DEFINE Bound(k) == IF k = "get" THEN Delay + 1 ELSE MaxTTL + Delay + Delay
           Back == \A k \in Keys :
                     LET new == entry'[k]  old == entry[k] IN
                     new # old /\ new # None /\ old # None
                         => fetchedAt[old] < fetchedAt[new] + Bound(k)
<1>1. IInv /\ [Next]_vars => [Back]_vars
  <2> SUFFICES ASSUME IInv, [Next]_vars, NEW k \in Keys,
                      entry'[k] # entry[k], entry'[k] # None, entry[k] # None
               PROVE  fetchedAt[entry[k]] < fetchedAt[entry'[k]] + Bound(k)
    OBVIOUS
  <2>1. PICK c \in Calls : Store(c) \/ NodeStore(c)
    BY TypeFacts DEF IInv, Next, Step, vars, caching, Tick, Evict, Begin,
       NodeLookup, Lookup, Query, Strip, Convert, Keys
  <2>2. fetchedAt[entry[k]] \in Nat /\ fetchedAt[entry[k]] <= now
    BY TypeFacts DEF IInv, EntryInv, Cached, Keys
  <2>3. CASE Store(c)
    <3>1. k = "get" /\ entry'[k] = c /\ pc[c] = "store"
      BY <2>3, TypeFacts DEF IInv, Store, SetWithTTL, caching, HeldInv, Keys
    <3>2. now <= began[c] + Delay /\ began[c] <= fetchedAt[c]
      BY <3>1 DEF IInv, OnTime, Running, HeldInv, Holds
    <3> QED
      BY <2>2, <3>1, <3>2, TypeFacts DEF IInv
  <2>4. CASE NodeStore(c)
    <3>1. k = "node" /\ entry'[k] = held[c] /\ pc[c] = "nodeStore"
      BY <2>4, TypeFacts DEF IInv, NodeStore, SetWithTTL, caching, Keys
    <3>2. now <= began[c] + Delay /\ began[c] <= tookAt[c]
      BY <3>1 DEF IInv, OnTime, Running, HeldInv, Holds
    <3>3. held[c] \in Calls /\ tookAt[c] < fetchedAt[held[c]] + Life
      BY <3>1 DEF IInv, HeldInv, Holds
    <3> QED
      BY <2>2, <3>1, <3>2, <3>3, TypeFacts DEF IInv
  <2> QED
    BY <2>1, <2>3, <2>4
<1> QED
  BY <1>1, InvAlways, PTL DEF Spec, GoesBackInBounds

\* Calls meet in the cache and nowhere else: a call without a time to live
\* has an object of its own, what an answer lacks some call that shared it
\* asked to remove, a failed read leaves nothing behind, and neither does a
\* failed conversion of a call without a time to live.
THEOREM SharingOnlyByCache == Spec => []CallsMeetInTheCache
<1>1. ASSUME IInv PROVE UncachedIsIsolated
  <2> SUFFICES ASSUME NEW c \in Calls, pc[c] = "done", req[c].ttl = 0
               PROVE  held[c] = c /\ (c \in lacks <=> req[c].strip)
    BY DEF UncachedIsIsolated
  <2>1. held[c] = c
    BY <1>1 DEF IInv, HeldInv, Holds, SharedByCache
  <2>2. req[c].strip => c \in lacks
    BY <1>1 DEF IInv, StrippedByHolder
  <2>3. ASSUME c \in lacks PROVE req[c].strip
    <3>1. PICK d \in Calls : req[d].strip /\ held[d] = c
      BY <1>1, <2>1, <2>3 DEF IInv, StrippedByHolder
    <3>2. d = c
      BY <1>1, <3>1 DEF IInv, SharedByCache
    <3> QED
      BY <3>1, <3>2
  <2> QED
    BY <1>1, <2>1, <2>2, <2>3, RequestFacts DEF IInv
<1>2. ASSUME IInv PROVE LossIsAskedFor
  <2> SUFFICES ASSUME NEW c \in lacks
               PROVE  \E d \in Calls : /\ req[d].strip /\ held[d] = held[c]
                                       /\ d = c \/ (req[c].ttl > 0 /\ req[d].ttl > 0)
    BY DEF LossIsAskedFor
  <2>1. c \in Calls /\ held[c] \in Calls
    BY <1>2 DEF IInv, TypeOK, StrippedByHolder
  <2>2. PICK d \in Calls : req[d].strip /\ held[d] = held[c]
    BY <1>2, <2>1 DEF IInv, StrippedByHolder
  <2>3. d # c => req[c].ttl > 0 /\ req[d].ttl > 0
    BY <1>2, <2>1, <2>2 DEF IInv, SharedByCache
  <2> QED
    BY <2>2, <2>3
<1>3. ASSUME IInv PROVE FailureIsNotCached
  <2>1. ASSUME NEW c \in Calls, pc[c] = "failed"
        PROVE  (\A k \in Keys : entry[k] # c) /\ \A d \in Calls : held[d] # c
    BY <1>3, <2>1 DEF IInv, ReadFirst
  <2>2. ASSUME NEW c \in Calls, pc[c] = "unconverted", req[c].ttl = 0
        PROVE  (\A k \in Keys : entry[k] # c) /\ \A d \in Calls \ {c} : held[d] # c
    <3>1. ~(req[c].ttl > 0)
      BY <2>2
    <3>2. ASSUME NEW k \in Keys, entry[k] = c PROVE FALSE
      BY <1>3, <3>1, <3>2, NoneAssumption DEF IInv, SharedByCache
    <3>3. ASSUME NEW d \in Calls \ {c}, held[d] = c PROVE FALSE
      BY <1>3, <3>1, <3>3 DEF IInv, SharedByCache
    <3> QED
      BY <3>2, <3>3
  <2> QED
    BY <2>1, <2>2 DEF FailureIsNotCached
<1>4. IInv => CallsMeetInTheCache
  BY <1>1, <1>2, <1>3 DEF CallsMeetInTheCache
<1> QED
  BY <1>4, InvAlways, PTL

-----------------------------------------------------------------------------
(* ListQuery: what a list returns to a chain of calls, for any namespaces   *)
(* and conditions and any number of calls and chains.                       *)
(*                                                                          *)
(* A statement keeps little of the calls made on it.  The invariant says    *)
(* what it has kept as long as the chain is a simple one: of namespaces,    *)
(* what the one call about them decided (ScopeFollows), of conditions, all  *)
(* clauses (ConditionsFollow); and that the cache holds, under the name of  *)
(* a namespace, the list of that namespace (CacheHolds).                    *)

\* Comparisons marked AND or OR.
Marked == [op : {"AND", "OR"}, atom : Atoms]

\* Every form of call.
LEMMA CallShapes ==
    ASSUME NEW call \in ChainCalls
    PROVE  \/ /\ call.op = "namespace"
              /\ \E n \in Namespaces \cup {Unset, Star} : call.arg = <<n>>
           \/ /\ call.op = "namespace"
              /\ \E m \in Namespaces, n \in Namespaces \cup {Star} :
                    m # n /\ call.arg = <<m, n>>
           \/ call.op \in {"where", "sql"} /\ call.arg \in Clauses
           \/ call.op \in {"all", "cache", "option"} /\ call.arg = << >>
<1>1. CASE call \in [op : {"namespace"}, arg : NameLists]
  <2>1. call.op = "namespace" /\ call.arg \in NameLists
    BY <1>1
  <2>2. CASE call.arg \in {<<n>> : n \in Namespaces \cup {Unset, Star}}
    BY <2>1, <2>2
  <2>3. CASE call.arg \in {nm \in Namespaces \X (Namespaces \cup {Star}) : nm[1] # nm[2]}
    BY <2>1, <2>3
  <2> QED
    BY <2>1, <2>2, <2>3 DEF NameLists
<1>2. CASE call \in [op : {"where", "sql"}, arg : Clauses]
  BY <1>2
<1>3. CASE call \in [op : {"all", "cache", "option"}, arg : {<< >>}]
  BY <1>3
<1> QED
  BY <1>1, <1>2, <1>3 DEF ChainCalls

\* A clause is one condition or two.
LEMMA ClauseShapes ==
    ASSUME NEW clause \in Clauses
    PROVE  /\ clause \in Seq(Preds)
           /\ Len(clause) \in {1, 2}
           /\ DOMAIN clause = 1 .. Len(clause)
<1>1. CASE \E p \in Preds : clause = <<p>>
  BY <1>1
<1>2. CASE clause \in {pq \in Preds \X Preds : pq[1] # pq[2]}
  <2>1. \E p, q \in Preds : clause = <<p, q>>
    BY <1>2
  <2> QED
    BY <2>1
<1> QED
  BY <1>1, <1>2 DEF Clauses

\* The range of a list of one ...
LEMMA RangeOfOne ==
    ASSUME NEW n
    PROVE  Range(<<n>>) = {n} /\ Len(<<n>>) = 1 /\ <<n>>[1] = n /\ DOMAIN <<n>> = {1}
<1>1. DOMAIN <<n>> = {1} /\ <<n>>[1] = n /\ Len(<<n>>) = 1
  OBVIOUS
<1> QED
  BY <1>1 DEF Range

\* ... and of two.
LEMMA RangeOfTwo ==
    ASSUME NEW m, NEW n
    PROVE  /\ Range(<<m, n>>) = {m, n} /\ Len(<<m, n>>) = 2
           /\ <<m, n>>[1] = m /\ <<m, n>>[2] = n /\ DOMAIN <<m, n>> = {1, 2}
<1>1. DOMAIN <<m, n>> = {1, 2} /\ Len(<<m, n>>) = 2
      /\ <<m, n>>[1] = m /\ <<m, n>>[2] = n
  OBVIOUS
<1> QED
  BY <1>1 DEF Range

\* The statement s is one with these fields.
Filled(s, root, all, ns, list, sql, conditions, cached) ==
    /\ s \in Statement
    /\ s.root = root /\ s.all = all /\ s.ns = ns /\ s.list = list
    /\ s.sql = sql /\ s.conditions = conditions /\ s.cached = cached

\* The fields of a statement.
LEMMA StatementFields ==
    ASSUME NEW s \in Statement
    PROVE  /\ s.root \in BOOLEAN /\ s.all \in BOOLEAN /\ s.cached \in BOOLEAN
           /\ s.ns \in Namespaces \cup {Unset} /\ s.list \in Seq(Namespaces)
           /\ s.sql \in SUBSET Seq(Atoms) /\ s.conditions \in SUBSET Marked
  BY DEF Statement, Marked

\* A flag that is set leaves the other fields alone.
LEMMA FlagsSet ==
    ASSUME NEW s \in Statement, NEW b \in BOOLEAN
    PROVE  /\ Filled([s EXCEPT !.root = b], b, s.all, s.ns, s.list, s.sql, s.conditions,
                     s.cached)
           /\ Filled([s EXCEPT !.all = b], s.root, b, s.ns, s.list, s.sql, s.conditions,
                     s.cached)
           /\ Filled([s EXCEPT !.cached = b], s.root, s.all, s.ns, s.list, s.sql,
                     s.conditions, b)
  BY DEF Statement, Filled

\* So do all and ns, that Namespace with one name sets ...
LEMMA NamespaceSet ==
    ASSUME NEW s \in Statement, NEW b \in BOOLEAN, NEW n \in Namespaces \cup {Unset}
    PROVE  Filled([s EXCEPT !.all = b, !.ns = n], s.root, b, n, s.list, s.sql,
                  s.conditions, s.cached)
  BY DEF Statement, Filled

\* ... all and list, that it sets with several ...
LEMMA ListSet ==
    ASSUME NEW s \in Statement, NEW b \in BOOLEAN, NEW l \in Seq(Namespaces)
    PROVE  /\ Filled([s EXCEPT !.all = b, !.list = l], s.root, b, s.ns, l, s.sql,
                     s.conditions, s.cached)
           /\ Filled([s EXCEPT !.list = l], s.root, s.all, s.ns, l, s.sql, s.conditions,
                     s.cached)
  BY DEF Statement, Filled

\* ... and what Where and Sql set.
LEMMA ConditionsSet ==
    ASSUME NEW s \in Statement, NEW b \in BOOLEAN, NEW q \in SUBSET Seq(Atoms),
           NEW k \in SUBSET Marked
    PROVE  /\ Filled([s EXCEPT !.sql = q, !.conditions = k], s.root, s.all, s.ns, s.list,
                     q, k, s.cached)
           /\ Filled([s EXCEPT !.all = b, !.conditions = k], s.root, b, s.ns, s.list,
                     s.sql, k, s.cached)
  BY DEF Statement, Filled, Marked

\* What is left of clauses are comparisons.
LEMMA ParseType ==
    ASSUME NEW clauses \in SUBSET Seq(Atoms)
    PROVE  Parse(clauses) \in SUBSET Marked
<1>1. \A clause \in clauses : \A m \in DOMAIN clause : clause[m] \in Atoms
  OBVIOUS
<1> QED
  BY <1>1 DEF Parse, Marked

\* Where adds its clause to the text, and the text is what the conditions are.
LEMMA WhereFacts ==
    ASSUME NEW s \in Statement, NEW clause \in Seq(Atoms)
    PROVE  Filled(AddWhere(s, clause), s.root, s.all, s.ns, s.list, s.sql \cup {clause},
                  Parse(s.sql \cup {clause}), s.cached)
<1> DEFINE q == s.sql \cup {clause}
<1>1. q \in SUBSET Seq(Atoms)
  BY StatementFields
<1>2. Parse(q) \in SUBSET Marked
  BY <1>1, ParseType
<1> QED
  BY <1>1, <1>2, ConditionsSet DEF AddWhere

\* The statement that a call of Namespace with one name leaves.
LEMMA OneNamespaceFacts ==
    ASSUME NEW s \in Statement, NEW n \in Namespaces \cup {Unset, Star}
    PROVE  Filled(OneNamespace(s, n), s.root, n = Star,
                  CASE n = Star -> Unset [] n = Unset -> Default [] OTHER -> n,
                  s.list, s.sql, s.conditions, s.cached)
<1> USE DefaultAssumption, NamesAssumption DEF OneNamespace
<1>1. CASE n = Star
  BY <1>1, NamespaceSet
<1>2. CASE n = Unset
  BY <1>2, NamespaceSet
<1>3. CASE n \in Namespaces
  BY <1>3, NamespaceSet
<1> QED
  BY <1>1, <1>2, <1>3

\* Several names are added to those of earlier calls.
Summed(s, m, n) == s.list \o <<m, n>>

\* What a call of Namespace with several names leaves.
LEMMA ManyNamespacesFacts ==
    ASSUME NEW s \in Statement, NEW m \in Namespaces, NEW n \in Namespaces \cup {Star}
    PROVE  LET u == ManyNamespaces(s, <<m, n>>)
               sum == Summed(s, m, n)
           IN
           /\ n = Star =>
                 Filled(u, s.root, TRUE, s.ns, << >>, s.sql, s.conditions, s.cached)
           /\ n # Star /\ s.root =>
                 Filled(u, s.root, s.all, s.ns, sum, s.sql, s.conditions, s.cached)
           /\ n # Star /\ ~s.root =>
                 Filled(u, s.root, s.all, s.ns, sum, s.sql \cup {sum},
                        Parse(s.sql \cup {sum}), s.cached)
<1> DEFINE sum == Summed(s, m, n)
           named == IF n = Star THEN [s EXCEPT !.all = TRUE, !.list = << >>]
                    ELSE [s EXCEPT !.list = sum]
<1>1. Range(<<m, n>>) = {m, n} /\ (Star \in {m, n} <=> n = Star)
  BY RangeOfTwo, NamesAssumption
<1>2. ManyNamespaces(s, <<m, n>>) =
        IF named.list = << >> \/ s.root THEN named ELSE AddWhere(named, named.list)
  BY <1>1 DEF ManyNamespaces, Summed
<1>3. CASE n = Star
  <2>1. Filled(named, s.root, TRUE, s.ns, << >>, s.sql, s.conditions, s.cached)
    <3>1. << >> \in Seq(Namespaces)
      OBVIOUS
    <3>2. named = [s EXCEPT !.all = TRUE, !.list = << >>]
      BY <1>3
    <3> HIDE DEF named
    <3> QED
      BY <3>1, <3>2, ListSet
  <2>2. ManyNamespaces(s, <<m, n>>) = named
    BY <1>2, <2>1 DEF Filled
  <2> QED
    BY <1>3, <2>1, <2>2
<1>4. CASE n # Star
  <2>1. s.list \in Seq(Namespaces) /\ <<m, n>> \in Seq(Namespaces)
    BY <1>4, StatementFields
  <2>2. sum \in Seq(Namespaces) /\ sum # << >>
    BY <2>1 DEF Summed
  <2>3. Filled(named, s.root, s.all, s.ns, sum, s.sql, s.conditions, s.cached)
    BY <1>4, <2>2, ListSet
  <2>4. CASE s.root
    <3>1. ManyNamespaces(s, <<m, n>>) = named
      BY <1>2, <2>4
    <3> QED
      BY <1>4, <2>3, <2>4, <3>1
  <2>5. CASE ~s.root
    <3>1. ManyNamespaces(s, <<m, n>>) = AddWhere(named, sum)
      BY <1>2, <2>2, <2>3, <2>5 DEF Filled
    <3>2. sum \in Seq(Atoms)
      BY <2>2 DEF Atoms
    <3>3. named \in Statement
      BY <2>3 DEF Filled
    <3> HIDE DEF named, sum
    <3>4. Filled(AddWhere(named, sum), s.root, s.all, s.ns, sum, s.sql \cup {sum},
                 Parse(s.sql \cup {sum}), s.cached)
      BY <2>3, <3>2, <3>3, WhereFacts DEF Filled
    <3> QED
      BY <1>4, <2>5, <3>1, <3>4 DEF sum
  <2> QED
    BY <2>4, <2>5
<1> QED
  BY <1>3, <1>4

\* Whatever the call, the statement that it returns is no root.
LEMMA Unrooted ==
    ASSUME NEW s \in Statement
    PROVE  Filled(getInstance(s), FALSE, s.all, s.ns, s.list, s.sql, s.conditions, s.cached)
  BY FlagsSet DEF getInstance

\* What each call makes of the statement it is made on.
LEMMA ApplyFacts ==
    ASSUME NEW s \in Statement, NEW call \in ChainCalls
    PROVE  /\ call.op = "option" =>
                 Filled(Apply(s, call), FALSE, s.all, s.ns, s.list, s.sql, s.conditions,
                        s.cached)
           /\ call.op = "cache" =>
                 Filled(Apply(s, call), FALSE, s.all, s.ns, s.list, s.sql, s.conditions,
                        TRUE)
           /\ call.op = "all" =>
                 Filled(Apply(s, call), FALSE, TRUE, s.ns, s.list, s.sql, s.conditions,
                        s.cached)
           /\ call.op = "where" =>
                 Filled(Apply(s, call), FALSE, s.all, s.ns, s.list, s.sql \cup {call.arg},
                        Parse(s.sql \cup {call.arg}), s.cached)
           /\ call.op = "sql" =>
                 Filled(Apply(s, call), FALSE, TRUE, s.ns, s.list, s.sql,
                        Parse({call.arg}), s.cached)
           /\ call.op = "namespace" => Apply(s, call) = getInstance(Namespace(s, call.arg))
<1>1. CASE call.op = "option"
  <2>1. Apply(s, call) = getInstance(s)
    BY <1>1 DEF Apply
  <2> QED
    BY <1>1, <2>1, Unrooted
<1>2. CASE call.op = "cache"
  <2> DEFINE u == [s EXCEPT !.cached = TRUE]
  <2>1. Apply(s, call) = getInstance(u)
    BY <1>2 DEF Apply
  <2>2. Filled(u, s.root, s.all, s.ns, s.list, s.sql, s.conditions, TRUE)
    BY FlagsSet
  <2> HIDE DEF u
  <2> QED
    BY <1>2, <2>1, <2>2, Unrooted DEF Filled
<1>3. CASE call.op = "all"
  <2> DEFINE u == [s EXCEPT !.all = TRUE]
  <2>1. Apply(s, call) = getInstance(u)
    BY <1>3 DEF Apply
  <2>2. Filled(u, s.root, TRUE, s.ns, s.list, s.sql, s.conditions, s.cached)
    BY FlagsSet
  <2> HIDE DEF u
  <2> QED
    BY <1>3, <2>1, <2>2, Unrooted DEF Filled
<1>4. CASE call.op = "where"
  <2>1. Apply(s, call) = getInstance(AddWhere(s, call.arg))
    BY <1>4 DEF Apply
  <2>2. call.arg \in Seq(Atoms)
    BY <1>4, CallShapes, ClauseShapes DEF Atoms
  <2>3. Filled(AddWhere(s, call.arg), s.root, s.all, s.ns, s.list, s.sql \cup {call.arg},
               Parse(s.sql \cup {call.arg}), s.cached)
    BY <2>2, WhereFacts
  <2> QED
    BY <1>4, <2>1, <2>3, Unrooted DEF Filled
<1>5. CASE call.op = "sql"
  <2> DEFINE u == Sql(s, call.arg)
  <2>1. Apply(s, call) = getInstance(u)
    BY <1>5 DEF Apply
  <2>2. {call.arg} \in SUBSET Seq(Atoms)
    BY <1>5, CallShapes, ClauseShapes DEF Atoms
  <2>3. Filled(u, s.root, TRUE, s.ns, s.list, s.sql, Parse({call.arg}), s.cached)
    BY <2>2, ParseType, StatementFields, ConditionsSet DEF Sql
  <2> HIDE DEF u
  <2> QED
    BY <1>5, <2>1, <2>3, Unrooted DEF Filled
<1>6. CASE call.op = "namespace"
  BY <1>6 DEF Apply
<1>7. call.op \in {"option", "cache", "all", "where", "sql", "namespace"}
  BY CallShapes
<1> QED
  BY <1>1, <1>2, <1>3, <1>4, <1>5, <1>6, <1>7

-----------------------------------------------------------------------------
(* What a statement has kept of the calls made on it *)

\* What one call about namespaces makes of all, ns and list.
AimOf(call) ==
    IF call.op # "namespace" \/ Star \in Range(call.arg) THEN <<TRUE, Unset, << >> >>
    ELSE IF Len(call.arg) > 1 THEN <<FALSE, Unset, call.arg>>
    ELSE <<FALSE, IF call.arg[1] = Unset THEN Default ELSE call.arg[1], << >> >>

\* While one call at most was about namespaces, they are those of that call.
ScopeFollows(s, calls) ==
    AtMostOne(ScopeCalls(calls)) =>
        /\ ScopeCalls(calls) = {} => <<s.all, s.ns, s.list>> = <<FALSE, Unset, << >> >>
        /\ \A n \in ScopeCalls(calls) : <<s.all, s.ns, s.list>> = AimOf(calls[n])

\* The clauses of a chain, with that of several namespaces.
AllClauses(calls) == ClausesOf(calls) \cup {calls[n].arg : n \in Several(calls)}

\* The conditions of a simple chain are those of its clauses, and without Sql
\* its text is them, too.
ConditionsFollow(s, calls) ==
    Simple(calls) =>
        /\ s.conditions = Parse(AllClauses(calls))
        /\ (\A n \in DOMAIN calls : calls[n].op # "sql") => s.sql = AllClauses(calls)

\* The first call about namespaces decides on them.
LEMMA FirstAim ==
    ASSUME NEW s \in Statement, NEW call \in ChainCalls,
           call.op \in {"namespace", "all", "sql"},
           <<s.all, s.ns, s.list>> = <<FALSE, Unset, << >> >>
    PROVE  LET t == Apply(s, call) IN <<t.all, t.ns, t.list>> = AimOf(call)
<1> USE NamesAssumption
<1>1. s.all = FALSE /\ s.ns = Unset /\ s.list = << >>
  OBVIOUS
<1>2. CASE call.op \in {"all", "sql"}
  BY <1>1, <1>2, ApplyFacts DEF AimOf, Filled
<1>3. ASSUME call.op = "namespace",
             NEW n \in Namespaces \cup {Unset, Star}, call.arg = <<n>>
      PROVE  LET t == Apply(s, call) IN <<t.all, t.ns, t.list>> = AimOf(call)
  <2> DEFINE u == OneNamespace(s, n)
             ns == IF n = Star THEN Unset ELSE IF n = Unset THEN Default ELSE n
  <2>1. Range(call.arg) = {n} /\ Len(call.arg) = 1 /\ call.arg[1] = n
    BY <1>3, RangeOfOne
  <2>2. Apply(s, call) = getInstance(u)
    BY <1>3, <2>1, ApplyFacts DEF Namespace
  <2>3. u \in Statement /\ u.all = (n = Star) /\ u.ns = ns /\ u.list = s.list
    BY OneNamespaceFacts DEF Filled
  <2> HIDE DEF u
  <2>4. LET t == Apply(s, call) IN
        t.all = (n = Star) /\ t.ns = ns /\ t.list = << >>
    BY <1>1, <2>2, <2>3, Unrooted DEF Filled
  <2>5. CASE n = Star
    <3>1. AimOf(call) = <<TRUE, Unset, << >> >>
      BY <1>3, <2>1, <2>5 DEF AimOf
    <3> QED
      BY <2>4, <2>5, <3>1
  <2>6. CASE n # Star
    <3>1. Star \notin Range(call.arg) /\ ~(Len(call.arg) > 1)
      BY <2>1, <2>6
    <3>2. ns = IF call.arg[1] = Unset THEN Default ELSE call.arg[1]
      BY <2>1, <2>6
    <3> HIDE DEF ns
    <3>3. AimOf(call) = <<FALSE, ns, << >> >>
      BY <1>3, <3>1, <3>2 DEF AimOf
    <3> QED
      BY <2>4, <2>6, <3>3
  <2> QED
    BY <2>5, <2>6
<1>4. ASSUME call.op = "namespace",
             NEW m \in Namespaces, NEW n \in Namespaces \cup {Star}, call.arg = <<m, n>>
      PROVE  LET t == Apply(s, call) IN <<t.all, t.ns, t.list>> = AimOf(call)
  <2> DEFINE u == ManyNamespaces(s, <<m, n>>)
  <2>1. Range(call.arg) = {m, n} /\ Len(call.arg) = 2
    BY <1>4, RangeOfTwo
  <2>2. Apply(s, call) = getInstance(u)
    <3>1. Apply(s, call) = getInstance(Namespace(s, call.arg))
      BY <1>4, ApplyFacts
    <3>2. Namespace(s, call.arg) = u
      BY <1>4, <2>1 DEF Namespace
    <3> QED
      BY <3>1, <3>2
  <2>3. Summed(s, m, n) = <<m, n>>
    BY <1>1 DEF Summed
  <2>4. s.root \in BOOLEAN
    BY StatementFields
  <2>5. /\ u \in Statement /\ u.ns = s.ns
        /\ n = Star => u.all = TRUE /\ u.list = << >>
        /\ n # Star => u.all = s.all /\ u.list = <<m, n>>
    <3>1. CASE n = Star
      <4>1. Filled(u, s.root, TRUE, s.ns, << >>, s.sql, s.conditions, s.cached)
        BY <3>1, ManyNamespacesFacts
      <4> HIDE DEF u
      <4> QED
        BY <3>1, <4>1 DEF Filled
    <3>2. CASE n # Star
      <4> DEFINE sum == Summed(s, m, n)
      <4>1. s.root => Filled(u, s.root, s.all, s.ns, sum, s.sql, s.conditions, s.cached)
        BY <3>2, ManyNamespacesFacts
      <4>2. ~s.root => Filled(u, s.root, s.all, s.ns, sum, s.sql \cup {sum},
                              Parse(s.sql \cup {sum}), s.cached)
        BY <3>2, ManyNamespacesFacts
      <4> HIDE DEF u
      <4> QED
        BY <2>3, <2>4, <3>2, <4>1, <4>2 DEF Filled
    <3> QED
      BY <3>1, <3>2
  <2> HIDE DEF u
  <2>6. LET t == Apply(s, call) IN t.all = u.all /\ t.ns = u.ns /\ t.list = u.list
    BY <2>2, <2>5, Unrooted DEF Filled
  <2>7. AimOf(call) = IF n = Star THEN <<TRUE, Unset, << >> >> ELSE <<FALSE, Unset, <<m, n>> >>
    BY <1>4, <2>1 DEF AimOf
  <2> QED
    BY <1>1, <2>5, <2>6, <2>7
<1> QED
  BY <1>2, <1>3, <1>4, CallShapes

\* A call that is not about namespaces leaves them alone.
LEMMA NoAim ==
    ASSUME NEW s \in Statement, NEW call \in ChainCalls,
           call.op \notin {"namespace", "all", "sql"}
    PROVE  LET t == Apply(s, call) IN <<t.all, t.ns, t.list>> = <<s.all, s.ns, s.list>>
<1>1. call.op \in {"where", "cache", "option"}
  BY CallShapes
<1> QED
  BY <1>1, ApplyFacts DEF Filled

\* One more call.
LEMMA OneMore ==
    ASSUME NEW calls \in Seq(ChainCalls), NEW call \in ChainCalls
    PROVE  LET more == Append(calls, call)
               last == Len(calls) + 1
               And(b) == IF b THEN {last} ELSE {}
           IN
           /\ last \notin DOMAIN calls
           /\ DOMAIN more = DOMAIN calls \cup {last}
           /\ more[last] = call
           /\ \A n \in DOMAIN calls : more[n] = calls[n]
           /\ ScopeCalls(more) = ScopeCalls(calls) \cup And(call.op \in {"namespace", "all", "sql"})
           /\ Several(more) = Several(calls)
                 \cup And(call.op = "namespace" /\ Len(call.arg) > 1 /\ Star \notin Range(call.arg))
           /\ Disjunctions(more) = Disjunctions(calls)
                 \cup And(call.op \in {"where", "sql"} /\ Len(call.arg) > 1)
           /\ ClausesOf(more) = ClausesOf(calls)
                 \cup (IF call.op \in {"where", "sql"} THEN {call.arg} ELSE {})
<1> DEFINE more == Append(calls, call)
           last == Len(calls) + 1
<1>1. /\ last \notin DOMAIN calls
      /\ DOMAIN more = DOMAIN calls \cup {last}
      /\ more[last] = call
      /\ \A n \in DOMAIN calls : more[n] = calls[n]
  OBVIOUS
<1> HIDE DEF more, last
<1>2. /\ ScopeCalls(more) = ScopeCalls(calls)
            \cup (IF call.op \in {"namespace", "all", "sql"} THEN {last} ELSE {})
      /\ Several(more) = Several(calls)
            \cup (IF call.op = "namespace" /\ Len(call.arg) > 1 /\ Star \notin Range(call.arg)
                  THEN {last} ELSE {})
      /\ Disjunctions(more) = Disjunctions(calls)
            \cup (IF call.op \in {"where", "sql"} /\ Len(call.arg) > 1 THEN {last} ELSE {})
  BY <1>1 DEF ScopeCalls, Several, Disjunctions
<1>3. ClausesOf(more) = ClausesOf(calls)
         \cup (IF call.op \in {"where", "sql"} THEN {call.arg} ELSE {})
  BY <1>1 DEF ClausesOf
<1> QED
  BY <1>1, <1>2, <1>3 DEF more, last

\* What a call leaves of namespaces is what the chain with it asks for.
LEMMA ScopeFollowsCall ==
    ASSUME NEW s \in Statement, NEW calls \in Seq(ChainCalls), NEW call \in ChainCalls,
           ScopeFollows(s, calls)
    PROVE  ScopeFollows(Apply(s, call), Append(calls, call))
<1> DEFINE more == Append(calls, call)
           last == Len(calls) + 1
           t == Apply(s, call)
<1> SUFFICES ASSUME AtMostOne(ScopeCalls(more))
             PROVE  /\ ScopeCalls(more) = {} => <<t.all, t.ns, t.list>> = <<FALSE, Unset, << >> >>
                    /\ \A n \in ScopeCalls(more) : <<t.all, t.ns, t.list>> = AimOf(more[n])
  BY DEF ScopeFollows
<1>1. /\ last \notin DOMAIN calls
      /\ more[last] = call
      /\ \A n \in DOMAIN calls : more[n] = calls[n]
  BY OneMore
<1>2. ScopeCalls(more) = ScopeCalls(calls)
         \cup (IF call.op \in {"namespace", "all", "sql"} THEN {last} ELSE {})
  BY OneMore
<1>3. ScopeCalls(calls) \subseteq DOMAIN calls
  BY DEF ScopeCalls
<1>4. AtMostOne(ScopeCalls(calls))
  BY <1>2 DEF AtMostOne
<1>5. CASE call.op \in {"namespace", "all", "sql"}
  <2>1. ScopeCalls(calls) = {} /\ ScopeCalls(more) = {last}
    BY <1>1, <1>2, <1>3, <1>5 DEF AtMostOne
  <2>2. <<s.all, s.ns, s.list>> = <<FALSE, Unset, << >> >>
    BY <1>4, <2>1 DEF ScopeFollows
  <2>3. <<t.all, t.ns, t.list>> = AimOf(call)
    BY <1>5, <2>2, FirstAim
  <2> QED
    BY <1>1, <2>1, <2>3
<1>6. CASE call.op \notin {"namespace", "all", "sql"}
  <2>1. ScopeCalls(more) = ScopeCalls(calls)
    BY <1>2, <1>6
  <2>2. <<t.all, t.ns, t.list>> = <<s.all, s.ns, s.list>>
    BY <1>6, NoAim
  <2> HIDE DEF t, more
  <2>3. \A n \in ScopeCalls(more) : AimOf(more[n]) = AimOf(calls[n])
    BY <1>1, <1>3, <2>1
  <2> QED
    BY <1>4, <2>1, <2>2, <2>3 DEF ScopeFollows
<1> QED
  BY <1>5, <1>6

\* A chain with one call less is simple, too.
LEMMA SimpleBefore ==
    ASSUME NEW calls \in Seq(ChainCalls), NEW call \in ChainCalls,
           Simple(Append(calls, call))
    PROVE  Simple(calls)
<1> DEFINE more == Append(calls, call)
<1>1. /\ ScopeCalls(calls) \subseteq ScopeCalls(more)
      /\ Several(calls) \subseteq Several(more)
      /\ Disjunctions(calls) \subseteq Disjunctions(more)
      /\ DOMAIN calls \subseteq DOMAIN more
      /\ \A n \in DOMAIN calls : more[n] = calls[n]
  BY OneMore
<1> HIDE DEF more
<1>2. {calls[n].op : n \in DOMAIN calls} \subseteq {more[n].op : n \in DOMAIN more}
  BY <1>1
<1>3. Simple(more)
  BY DEF more
<1> QED
  BY <1>1, <1>2, <1>3 DEF Simple, AtMostOne

\* The clauses of a chain with one call more.
LEMMA OneMoreClause ==
    ASSUME NEW calls \in Seq(ChainCalls), NEW call \in ChainCalls
    PROVE  AllClauses(Append(calls, call)) = AllClauses(calls)
             \cup (IF \/ call.op \in {"where", "sql"}
                      \/ /\ call.op = "namespace" /\ Len(call.arg) > 1
                         /\ Star \notin Range(call.arg)
                   THEN {call.arg} ELSE {})
<1> DEFINE more == Append(calls, call)
           last == Len(calls) + 1
           many == call.op = "namespace" /\ Len(call.arg) > 1 /\ Star \notin Range(call.arg)
<1>1. /\ last \notin DOMAIN calls
      /\ more[last] = call
      /\ \A n \in DOMAIN calls : more[n] = calls[n]
      /\ Several(more) = Several(calls) \cup (IF many THEN {last} ELSE {})
      /\ ClausesOf(more) = ClausesOf(calls)
            \cup (IF call.op \in {"where", "sql"} THEN {call.arg} ELSE {})
  BY OneMore
<1>2. Several(calls) \subseteq DOMAIN calls
  BY DEF Several
<1> HIDE DEF more, last, many
<1>3. {more[n].arg : n \in Several(more)} = {calls[n].arg : n \in Several(calls)}
         \cup (IF many THEN {call.arg} ELSE {})
  BY <1>1, <1>2
<1>4. AllClauses(more) = AllClauses(calls)
         \cup (IF call.op \in {"where", "sql"} THEN {call.arg} ELSE {})
         \cup (IF many THEN {call.arg} ELSE {})
  BY <1>1, <1>3 DEF AllClauses
<1> QED
  BY <1>4 DEF more, many

\* A call of Namespace, with one name or with "*", leaves the conditions
\* alone; one with two names makes them a clause, unless it is made on the root.
LEMMA NamespaceClauses ==
    ASSUME NEW s \in Statement, NEW call \in ChainCalls, call.op = "namespace"
    PROVE  LET t == Apply(s, call) IN
           /\ t \in Statement /\ ~t.root /\ t.cached = s.cached
           /\ ~(Len(call.arg) > 1 /\ Star \notin Range(call.arg)) =>
                 t.sql = s.sql /\ t.conditions = s.conditions
           /\ Len(call.arg) > 1 /\ Star \notin Range(call.arg) /\ ~s.root /\ s.list = << >> =>
                 t.sql = s.sql \cup {call.arg} /\ t.conditions = Parse(t.sql)
<1> USE NamesAssumption
<1> DEFINE t == Apply(s, call)
<1>1. Apply(s, call) = getInstance(Namespace(s, call.arg))
  BY ApplyFacts
<1>2. ASSUME NEW n \in Namespaces \cup {Unset, Star}, call.arg = <<n>>
      PROVE  /\ t \in Statement /\ ~t.root /\ t.cached = s.cached
             /\ t.sql = s.sql /\ t.conditions = s.conditions
             /\ ~(Len(call.arg) > 1)
  <2> DEFINE u == OneNamespace(s, n)
  <2>1. Len(call.arg) = 1 /\ call.arg[1] = n
    BY <1>2, RangeOfOne
  <2>2. Namespace(s, call.arg) = u
    BY <2>1 DEF Namespace
  <2>3. u \in Statement /\ u.sql = s.sql /\ u.conditions = s.conditions /\ u.cached = s.cached
    BY OneNamespaceFacts DEF Filled
  <2> HIDE DEF u
  <2>4. t \in Statement /\ ~t.root /\ t.cached = u.cached
        /\ t.sql = u.sql /\ t.conditions = u.conditions
    BY <1>1, <2>2, <2>3, Unrooted DEF Filled
  <2>5. ~(Len(call.arg) > 1)
    BY <2>1
  <2> HIDE DEF t
  <2> QED
    BY <2>3, <2>4, <2>5
<1>3. ASSUME NEW m \in Namespaces, NEW n \in Namespaces \cup {Star}, call.arg = <<m, n>>
      PROVE  /\ t \in Statement /\ ~t.root /\ t.cached = s.cached
             /\ Len(call.arg) > 1 /\ (Star \in Range(call.arg) <=> n = Star)
             /\ n = Star => t.sql = s.sql /\ t.conditions = s.conditions
             /\ n # Star /\ ~s.root /\ s.list = << >> =>
                   t.sql = s.sql \cup {call.arg} /\ t.conditions = Parse(t.sql)
  <2> DEFINE u == ManyNamespaces(s, <<m, n>>)
             sum == Summed(s, m, n)
  <2>1. Len(call.arg) = 2 /\ Range(call.arg) = {m, n}
    BY <1>3, RangeOfTwo
  <2>2. Namespace(s, call.arg) = u
    BY <1>3, <2>1 DEF Namespace
  <2>3. n = Star => Filled(u, s.root, TRUE, s.ns, << >>, s.sql, s.conditions, s.cached)
    BY ManyNamespacesFacts
  <2>4. n # Star /\ s.root => Filled(u, s.root, s.all, s.ns, sum, s.sql, s.conditions,
                                     s.cached)
    BY ManyNamespacesFacts
  <2>5. n # Star /\ ~s.root =>
           Filled(u, s.root, s.all, s.ns, sum, s.sql \cup {sum}, Parse(s.sql \cup {sum}),
                  s.cached)
    BY ManyNamespacesFacts
  <2>6. s.list = << >> => sum = call.arg
    BY <1>3 DEF Summed
  <2>7. s.root \in BOOLEAN
    BY StatementFields
  <2> HIDE DEF u, sum
  <2>8. u \in Statement /\ u.cached = s.cached
    BY <2>3, <2>4, <2>5, <2>7 DEF Filled
  <2>9. t \in Statement /\ ~t.root /\ t.cached = s.cached
        /\ t.sql = u.sql /\ t.conditions = u.conditions
    BY <1>1, <2>2, <2>8, Unrooted DEF Filled
  <2> HIDE DEF t
  <2>10. Len(call.arg) > 1 /\ (Star \in Range(call.arg) <=> n = Star)
    BY <2>1
  <2>11. n = Star => t.sql = s.sql /\ t.conditions = s.conditions
    BY <2>3, <2>9 DEF Filled
  <2>12. n # Star /\ ~s.root /\ s.list = << >> =>
            t.sql = s.sql \cup {call.arg} /\ t.conditions = Parse(t.sql)
    BY <2>5, <2>6, <2>9 DEF Filled
  <2> QED
    BY <2>8, <2>9, <2>10, <2>11, <2>12
<1> HIDE DEF t
<1>4. \/ \E n \in Namespaces \cup {Unset, Star} : call.arg = <<n>>
      \/ \E m \in Namespaces, n \in Namespaces \cup {Star} : call.arg = <<m, n>>
  BY CallShapes
<1>5. CASE \E n \in Namespaces \cup {Unset, Star} : call.arg = <<n>>
  BY <1>2, <1>5 DEF t
<1>6. CASE \E m \in Namespaces, n \in Namespaces \cup {Star} : call.arg = <<m, n>>
  BY <1>3, <1>6 DEF t
<1> QED
  BY <1>4, <1>5, <1>6

\* What a call leaves of conditions are those of the clauses asked for.
LEMMA ConditionsFollowCall ==
    ASSUME NEW s \in Statement, NEW calls \in Seq(ChainCalls), NEW call \in ChainCalls,
           s.root => calls = << >>,
           ScopeFollows(s, calls), ConditionsFollow(s, calls)
    PROVE  ConditionsFollow(Apply(s, call), Append(calls, call))
<1> DEFINE more == Append(calls, call)
           last == Len(calls) + 1
           t == Apply(s, call)
           many == call.op = "namespace" /\ Len(call.arg) > 1 /\ Star \notin Range(call.arg)
           sqlFree(chain) == \A n \in DOMAIN chain : chain[n].op # "sql"
<1> SUFFICES ASSUME Simple(more)
             PROVE  /\ t.conditions = Parse(AllClauses(more))
                    /\ sqlFree(more) => t.sql = AllClauses(more)
  BY DEF ConditionsFollow
<1>1. /\ last \notin DOMAIN calls
      /\ DOMAIN more = DOMAIN calls \cup {last}
      /\ more[last] = call
      /\ \A n \in DOMAIN calls : more[n] = calls[n]
  BY OneMore
<1>2. /\ ScopeCalls(more) = ScopeCalls(calls)
            \cup (IF call.op \in {"namespace", "all", "sql"} THEN {last} ELSE {})
      /\ Several(more) = Several(calls) \cup (IF many THEN {last} ELSE {})
  BY OneMore
<1>3. AllClauses(more) = AllClauses(calls)
         \cup (IF call.op \in {"where", "sql"} \/ many THEN {call.arg} ELSE {})
  BY OneMoreClause
<1>4. Simple(calls)
  BY SimpleBefore
<1> HIDE DEF more, many
<1>5. s.conditions = Parse(AllClauses(calls)) /\ (sqlFree(calls) => s.sql = AllClauses(calls))
  BY <1>4 DEF ConditionsFollow
<1>6. sqlFree(more) => sqlFree(calls)
  BY <1>1
<1>7. ASSUME call.op \in {"namespace", "all", "sql"}
      PROVE  /\ ScopeCalls(calls) = {} /\ Several(calls) = {} /\ sqlFree(calls)
             /\ <<s.all, s.ns, s.list>> = <<FALSE, Unset, << >> >>
  <2>1. ScopeCalls(calls) = {}
    BY <1>1, <1>2, <1>7 DEF Simple, AtMostOne, ScopeCalls
  <2>2. Several(calls) = {} /\ sqlFree(calls)
    BY <2>1 DEF ScopeCalls, Several
  <2>3. AtMostOne(ScopeCalls(calls))
    BY <2>1 DEF AtMostOne
  <2> QED
    BY <2>1, <2>2, <2>3 DEF ScopeFollows
<1>8. CASE call.op \in {"cache", "option", "all"}
  <2>1. t.conditions = s.conditions /\ t.sql = s.sql
    BY <1>8, ApplyFacts DEF Filled
  <2>2. AllClauses(more) = AllClauses(calls)
    BY <1>3, <1>8 DEF many
  <2> HIDE DEF t, sqlFree
  <2> QED
    BY <1>5, <1>6, <2>1, <2>2
<1>9. CASE call.op = "where"
  <2>1. t.sql = s.sql \cup {call.arg} /\ t.conditions = Parse(s.sql \cup {call.arg})
    BY <1>9, ApplyFacts DEF Filled
  <2>2. AllClauses(more) = AllClauses(calls) \cup {call.arg}
    BY <1>3, <1>9 DEF many
  <2>3. sqlFree(more)
    BY <1>1, <1>9 DEF Simple
  <2> HIDE DEF t, sqlFree
  <2> QED
    BY <1>5, <1>6, <2>1, <2>2, <2>3
<1>10. CASE call.op = "sql"
  <2>1. t.conditions = Parse({call.arg})
    BY <1>10, ApplyFacts DEF Filled
  <2>2. \A n \in DOMAIN calls : calls[n].op \notin {"where", "sql"}
    BY <1>1, <1>7, <1>10 DEF Simple
  <2>3. AllClauses(calls) = {}
    BY <1>7, <1>10, <2>2 DEF AllClauses, ClausesOf
  <2>4. AllClauses(more) = {call.arg}
    BY <1>3, <1>10, <2>3
  <2>5. ~sqlFree(more)
    BY <1>1, <1>10
  <2> HIDE DEF t, sqlFree
  <2> QED
    BY <2>1, <2>4, <2>5
<1>11. CASE call.op = "namespace" /\ ~many
  <2>1. t.conditions = s.conditions /\ t.sql = s.sql
    BY <1>11, NamespaceClauses DEF many
  <2>2. AllClauses(more) = AllClauses(calls)
    BY <1>3, <1>11
  <2> HIDE DEF t, sqlFree
  <2> QED
    BY <1>5, <1>6, <2>1, <2>2
<1>12. CASE call.op = "namespace" /\ many
  <2>1. ~s.root
    <3>1. last # 1
      BY <1>2, <1>12 DEF Simple
    <3> QED
      BY <3>1
  <2>2. s.list = << >>
    BY <1>7, <1>12
  <2>3. t.sql = s.sql \cup {call.arg} /\ t.conditions = Parse(t.sql)
    BY <1>12, <2>1, <2>2, NamespaceClauses DEF many
  <2>4. AllClauses(more) = AllClauses(calls) \cup {call.arg}
    BY <1>3, <1>12
  <2> HIDE DEF t
  <2> QED
    BY <1>5, <1>7, <1>12, <2>3, <2>4
<1>13. call.op \in {"option", "cache", "all", "where", "sql", "namespace"}
  BY CallShapes
<1> QED
  BY <1>8, <1>9, <1>10, <1>11, <1>12, <1>13

-----------------------------------------------------------------------------
(* What a list returns *)

\* The filter asks all of the clauses, if at most one of them is a choice.
LEMMA FilterIsConjunction ==
    ASSUME NEW C \in SUBSET Seq(Atoms), \A c \in C : Len(c) \in {1, 2},
           AtMostOne({c \in C : Len(c) > 1}), NEW S
    PROVE  Filter(S, Parse(C)) =
             {obj \in S : \A c \in C : \E m \in DOMAIN c : Meets(obj, c[m])}
<1> DEFINE mark(c) == IF Len(c) > 1 THEN "OR" ELSE "AND"
           marked(op) == {k.atom : k \in {d \in Parse(C) : d.op = op}}
<1>1. \A c \in C : DOMAIN c = 1 .. Len(c)
  OBVIOUS
<1>2. \A k : k \in Parse(C) <=> \E c \in C : \E m \in DOMAIN c : k = [op |-> mark(c), atom |-> c[m]]
  BY DEF Parse
<1>3. \A atom : atom \in marked("AND") <=> \E c \in C : Len(c) = 1 /\ atom = c[1]
  <2>1. ASSUME NEW c \in C, Len(c) = 1
        PROVE  c[1] \in marked("AND")
    <3>1. 1 \in DOMAIN c /\ mark(c) = "AND"
      BY <1>1, <2>1
    <3>2. [op |-> "AND", atom |-> c[1]] \in Parse(C)
      BY <1>2, <3>1
    <3> QED
      BY <3>2
  <2>2. ASSUME NEW atom \in marked("AND")
        PROVE  \E c \in C : Len(c) = 1 /\ atom = c[1]
    <3>1. PICK k \in Parse(C) : k.op = "AND" /\ atom = k.atom
      BY <2>2
    <3>2. PICK c \in C : \E m \in DOMAIN c : k = [op |-> mark(c), atom |-> c[m]]
      BY <1>2, <3>1
    <3>3. PICK m \in DOMAIN c : mark(c) = "AND" /\ atom = c[m]
      BY <3>1, <3>2
    <3>4. Len(c) = 1
      <4>1. mark(c) = "AND" => ~(Len(c) > 1)
        OBVIOUS
      <4> HIDE DEF mark, marked
      <4> QED
        BY <3>3, <4>1
    <3>5. m = 1
      BY <1>1, <3>4
    <3> QED
      BY <3>3, <3>4, <3>5
  <2> QED
    BY <2>1, <2>2
<1>4. \A atom : atom \in marked("OR") <=> \E c \in C : Len(c) > 1 /\ \E m \in DOMAIN c : atom = c[m]
  <2>1. ASSUME NEW c \in C, Len(c) > 1, NEW m \in DOMAIN c
        PROVE  c[m] \in marked("OR")
    <3>1. [op |-> "OR", atom |-> c[m]] \in Parse(C)
      BY <1>2, <2>1
    <3> QED
      BY <3>1
  <2>2. ASSUME NEW atom \in marked("OR")
        PROVE  \E c \in C : Len(c) > 1 /\ \E m \in DOMAIN c : atom = c[m]
    <3>1. PICK k \in Parse(C) : k.op = "OR" /\ atom = k.atom
      BY <2>2
    <3>2. PICK c \in C : \E m \in DOMAIN c : k = [op |-> mark(c), atom |-> c[m]]
      BY <1>2, <3>1
    <3>3. PICK m \in DOMAIN c : mark(c) = "OR" /\ atom = c[m]
      BY <3>1, <3>2
    <3>4. Len(c) > 1
      BY <3>3
    <3> QED
      BY <3>3, <3>4
  <2> QED
    BY <2>1, <2>2
<1>5. Filter(S, Parse(C)) =
        {obj \in S :
            /\ \A atom \in marked("AND") : Meets(obj, atom)
            /\ marked("OR") # {} => \E atom \in marked("OR") : Meets(obj, atom)}
  BY DEF Filter
<1> HIDE DEF marked, mark
<1>6. ASSUME NEW obj \in S
      PROVE  (/\ \A atom \in marked("AND") : Meets(obj, atom)
              /\ marked("OR") # {} => \E atom \in marked("OR") : Meets(obj, atom))
             <=> \A c \in C : \E m \in DOMAIN c : Meets(obj, c[m])
  <2>1. ASSUME \A atom \in marked("AND") : Meets(obj, atom),
               marked("OR") # {} => \E atom \in marked("OR") : Meets(obj, atom),
               NEW c \in C
        PROVE  \E m \in DOMAIN c : Meets(obj, c[m])
    <3>1. CASE Len(c) = 1
      <4>1. 1 \in DOMAIN c
        BY <1>1, <3>1
      <4> QED
        BY <1>3, <2>1, <3>1, <4>1
    <3>2. CASE Len(c) > 1
      <4>1. 1 \in DOMAIN c
        BY <1>1, <3>2
      <4>2. marked("OR") # {}
        BY <1>4, <3>2, <4>1
      <4>3. PICK atom \in marked("OR") : Meets(obj, atom)
        BY <2>1, <4>2
      <4>4. PICK d \in C : Len(d) > 1 /\ \E m \in DOMAIN d : atom = d[m]
        BY <1>4, <4>3
      <4>5. d = c
        BY <3>2, <4>4 DEF AtMostOne
      <4> QED
        BY <4>3, <4>4, <4>5
    <3> QED
      BY <3>1, <3>2
  <2>2. ASSUME \A c \in C : \E m \in DOMAIN c : Meets(obj, c[m])
        PROVE  /\ \A atom \in marked("AND") : Meets(obj, atom)
               /\ marked("OR") # {} => \E atom \in marked("OR") : Meets(obj, atom)
    <3>1. ASSUME NEW c \in C, Len(c) = 1
          PROVE  Meets(obj, c[1])
      <4>1. PICK m \in DOMAIN c : Meets(obj, c[m])
        BY <2>2
      <4>2. m = 1
        BY <1>1, <3>1
      <4> QED
        BY <4>1, <4>2
    <3>2. ASSUME marked("OR") # {}
          PROVE  \E atom \in marked("OR") : Meets(obj, atom)
      <4>1. PICK c \in C : Len(c) > 1
        BY <1>4, <3>2
      <4>2. PICK m \in DOMAIN c : Meets(obj, c[m])
        BY <2>2
      <4>3. c[m] \in marked("OR")
        BY <1>4, <4>1
      <4> QED
        BY <4>2, <4>3
    <3> QED
      BY <1>3, <3>1, <3>2
  <2> QED
    BY <2>1, <2>2
<1> QED
  BY <1>5, <1>6

\* The request is about one namespace or about all.
LEMMA ScopeType ==
    ASSUME NEW s \in Statement
    PROVE  Scope(s) = Namespaces \/ \E n \in Namespaces : Scope(s) = {n}
<1>1. s.ns \in Namespaces \cup {Unset}
  BY StatementFields
<1> QED
  BY <1>1, DefaultAssumption DEF Scope

\* The namespaces a request is about are those that the one call about them
\* means; several are all of them to the request.
LEMMA OneScope ==
    ASSUME NEW s \in Statement, NEW call \in ChainCalls,
           call.op \in {"namespace", "all", "sql"},
           <<s.all, s.ns, s.list>> = AimOf(call)
    PROVE  /\ Meant(call) # {} /\ Meant(call) \subseteq Namespaces
           /\ ~(call.op = "namespace" /\ Len(call.arg) > 1 /\ Star \notin Range(call.arg)) =>
                 Scope(s) = Meant(call)
           /\ call.op = "namespace" /\ Len(call.arg) > 1 /\ Star \notin Range(call.arg) =>
                 /\ Scope(s) = Namespaces
                 /\ \E m, n \in Namespaces : call.arg = <<m, n>> /\ Meant(call) = {m, n}
<1> USE DefaultAssumption, NamesAssumption
<1>1. CASE call.op # "namespace" \/ Star \in Range(call.arg)
  <2>1. s.all = TRUE
    BY <1>1 DEF AimOf
  <2>2. Scope(s) = Namespaces /\ Meant(call) = Namespaces
    BY <1>1, <2>1 DEF Scope, Meant
  <2> QED
    BY <1>1, <2>2
<1>2. ASSUME call.op = "namespace", NEW n \in Namespaces \cup {Unset}, call.arg = <<n>>
      PROVE  /\ Meant(call) # {} /\ Meant(call) \subseteq Namespaces
             /\ Scope(s) = Meant(call) /\ ~(Len(call.arg) > 1)
  <2> DEFINE name == IF n = Unset THEN Default ELSE n
  <2>1. Range(call.arg) = {n} /\ Len(call.arg) = 1 /\ call.arg[1] = n
    BY <1>2, RangeOfOne
  <2>2. ~(Len(call.arg) > 1) /\ Star \notin Range(call.arg)
    BY <2>1
  <2>3. name = (IF call.arg[1] = Unset THEN Default ELSE call.arg[1]) /\ name \in Namespaces
    BY <2>1
  <2>4. Meant(call) = {name}
    <3>1. call.arg = <<Unset>> <=> n = Unset
      BY <1>2
    <3>2. CASE n = Unset
      BY <1>2, <2>2, <3>1, <3>2 DEF Meant
    <3>3. CASE n # Unset
      BY <1>2, <2>1, <2>2, <3>1, <3>3 DEF Meant
    <3> QED
      BY <3>2, <3>3
  <2> HIDE DEF name
  <2>5. <<s.all, s.ns, s.list>> = <<FALSE, name, << >> >>
    BY <1>2, <2>2, <2>3 DEF AimOf
  <2>6. s.all = FALSE /\ s.ns = name /\ s.list = << >>
    BY <2>5
  <2>7. Scope(s) = {name}
    BY <2>3, <2>6 DEF Scope
  <2> QED
    BY <2>2, <2>3, <2>4, <2>7
<1>3. ASSUME call.op = "namespace", NEW m \in Namespaces, NEW n \in Namespaces,
             call.arg = <<m, n>>
      PROVE  /\ Meant(call) = {m, n} /\ Scope(s) = Namespaces
             /\ Len(call.arg) > 1 /\ Star \notin Range(call.arg)
  <2>1. Range(call.arg) = {m, n} /\ Len(call.arg) = 2
    BY <1>3, RangeOfTwo
  <2>2. Len(call.arg) > 1 /\ Star \notin Range(call.arg)
    BY <2>1
  <2>3. call.arg # <<Unset>>
    BY <1>3
  <2>4. Meant(call) = {m, n}
    BY <1>3, <2>1, <2>2, <2>3 DEF Meant
  <2>5. <<s.all, s.ns, s.list>> = <<FALSE, Unset, call.arg>>
    BY <1>3, <2>2 DEF AimOf
  <2>6. s.list = call.arg
    BY <2>5
  <2>7. Scope(s) = Namespaces
    BY <2>2, <2>6 DEF Scope
  <2> QED
    BY <2>2, <2>4, <2>7
<1>4. \/ call.op # "namespace"
      \/ \E n \in Namespaces \cup {Unset, Star} : call.arg = <<n>>
      \/ \E m \in Namespaces, n \in Namespaces \cup {Star} : call.arg = <<m, n>>
  BY CallShapes
<1>5. CASE call.op = "namespace" /\ Star \notin Range(call.arg)
  <2>1. CASE \E n \in Namespaces \cup {Unset, Star} : call.arg = <<n>>
    <3>1. PICK n \in Namespaces \cup {Unset, Star} : call.arg = <<n>>
      BY <2>1
    <3>2. n # Star
      BY <1>5, <3>1, RangeOfOne
    <3> QED
      BY <1>2, <1>5, <3>1, <3>2
  <2>2. CASE \E m \in Namespaces, n \in Namespaces \cup {Star} : call.arg = <<m, n>>
    <3>1. PICK m \in Namespaces, n \in Namespaces \cup {Star} : call.arg = <<m, n>>
      BY <2>2
    <3>2. n # Star
      BY <1>5, <3>1, RangeOfTwo
    <3>3. /\ Meant(call) = {m, n} /\ Scope(s) = Namespaces
          /\ Len(call.arg) > 1 /\ Star \notin Range(call.arg)
      BY <1>3, <1>5, <3>1, <3>2
    <3> QED
      BY <1>5, <3>1, <3>2, <3>3
  <2> QED
    BY <1>4, <1>5, <2>1, <2>2
<1> QED
  BY <1>1, <1>5

\* The namespace in a cache key is the one the request is about.
LEMMA NamedScope ==
    ASSUME NEW s \in Statement, NEW calls \in Seq(ChainCalls), ScopeFollows(s, calls),
           AtMostOne(ScopeCalls(calls)), s.ns \in Namespaces
    PROVE  Scope(s) = {s.ns}
<1> USE NamesAssumption
<1>1. ScopeCalls(calls) # {}
  BY DEF ScopeFollows
<1>2. PICK n \in ScopeCalls(calls) : <<s.all, s.ns, s.list>> = AimOf(calls[n])
  BY <1>1 DEF ScopeFollows
<1> DEFINE name == IF calls[n].arg[1] = Unset THEN Default ELSE calls[n].arg[1]
<1>3. \/ AimOf(calls[n]) = <<TRUE, Unset, << >> >>
      \/ AimOf(calls[n]) = <<FALSE, Unset, calls[n].arg>>
      \/ AimOf(calls[n]) = <<FALSE, name, << >> >>
  BY DEF AimOf
<1> HIDE DEF name
<1>4. <<s.all, s.ns, s.list>> = <<FALSE, name, << >> >>
  <2>1. s.ns # Unset
    OBVIOUS
  <2>2. <<s.all, s.ns, s.list>> # <<TRUE, Unset, << >> >>
    BY <2>1
  <2>3. <<s.all, s.ns, s.list>> # <<FALSE, Unset, calls[n].arg>>
    BY <2>1
  <2> QED
    BY <1>2, <1>3, <2>2, <2>3
<1>5. s.all = FALSE /\ s.list = << >>
  BY <1>4
<1> QED
  BY <1>5 DEF Scope

\* Every clause of a chain is one condition or two, or two namespaces; at most
\* one of those of a simple chain is a choice.
LEMMA ClauseFacts ==
    ASSUME NEW calls \in Seq(ChainCalls)
    PROVE  /\ AllClauses(calls) \in SUBSET Seq(Atoms)
           /\ \A c \in AllClauses(calls) : Len(c) \in {1, 2}
           /\ Simple(calls) => AtMostOne({c \in AllClauses(calls) : Len(c) > 1})
<1>1. \A n \in DOMAIN calls : calls[n] \in ChainCalls
  OBVIOUS
<1>2. ASSUME NEW n \in DOMAIN calls, calls[n].op \in {"where", "sql"}
      PROVE  calls[n].arg \in Seq(Atoms) /\ Len(calls[n].arg) \in {1, 2}
  <2>1. calls[n].arg \in Clauses
    BY <1>1, <1>2, CallShapes
  <2> QED
    BY <2>1, ClauseShapes DEF Atoms
<1>3. ASSUME NEW n \in Several(calls)
      PROVE  calls[n].arg \in Seq(Atoms) /\ Len(calls[n].arg) \in {1, 2}
  <2>1. /\ calls[n] \in ChainCalls /\ calls[n].op = "namespace"
        /\ Len(calls[n].arg) > 1 /\ Star \notin Range(calls[n].arg)
    BY <1>1 DEF Several
  <2>2. CASE \E k \in Namespaces \cup {Unset, Star} : calls[n].arg = <<k>>
    <3>1. Len(calls[n].arg) = 1
      BY <2>2, RangeOfOne
    <3> QED
      BY <2>1, <3>1
  <2>3. CASE \E m \in Namespaces, k \in Namespaces \cup {Star} : calls[n].arg = <<m, k>>
    <3>1. PICK m \in Namespaces, k \in Namespaces \cup {Star} : calls[n].arg = <<m, k>>
      BY <2>3
    <3>2. k \in Namespaces
      BY <2>1, <3>1, RangeOfTwo
    <3> QED
      BY <3>1, <3>2, RangeOfTwo DEF Atoms
  <2> QED
    BY <2>1, <2>2, <2>3, CallShapes
<1>4. \A c \in AllClauses(calls) : c \in Seq(Atoms) /\ Len(c) \in {1, 2}
  BY <1>2, <1>3 DEF AllClauses, ClausesOf
<1>5. ASSUME NEW c \in AllClauses(calls), Len(c) > 1
      PROVE  \E n \in Several(calls) \cup Disjunctions(calls) : c = calls[n].arg
  BY <1>5 DEF AllClauses, ClausesOf, Disjunctions
<1>6. Simple(calls) => AtMostOne({c \in AllClauses(calls) : Len(c) > 1})
  BY <1>5 DEF Simple, AtMostOne
<1> QED
  BY <1>4, <1>6

\* A simple chain's request and filter yield what it asks for.
LEMMA SimpleYields ==
    ASSUME NEW s \in Statement, NEW calls \in Seq(ChainCalls), Simple(calls),
           ScopeFollows(s, calls), ConditionsFollow(s, calls)
    PROVE  Filter({obj \in Objects : obj.ns \in Scope(s)}, s.conditions) = AskedFor(calls)
<1> USE DefaultAssumption, NamesAssumption
<1> DEFINE meets(obj, c) == \E m \in DOMAIN c : Meets(obj, c[m])
           S == {obj \in Objects : obj.ns \in Scope(s)}
           scope == UNION {Meant(calls[n]) : n \in ScopeCalls(calls)}
<1>1. Filter(S, s.conditions) = {obj \in S : \A c \in AllClauses(calls) : meets(obj, c)}
  <2>1. s.conditions = Parse(AllClauses(calls))
    BY DEF ConditionsFollow
  <2>2. Filter(S, Parse(AllClauses(calls))) =
          {obj \in S : \A c \in AllClauses(calls) : \E m \in DOMAIN c : Meets(obj, c[m])}
    <3> HIDE DEF S
    <3> QED
      BY ClauseFacts, FilterIsConjunction
  <2> QED
    BY <2>1, <2>2
<1>2. AskedFor(calls) =
        {obj \in Objects :
            /\ obj.ns \in (IF scope = {} THEN {Default} ELSE scope)
            /\ \A c \in ClausesOf(calls) : meets(obj, c)}
  BY DEF AskedFor
<1>3. AtMostOne(ScopeCalls(calls)) /\ Several(calls) \subseteq ScopeCalls(calls)
  BY DEF Simple, Several, ScopeCalls
<1>4. CASE ScopeCalls(calls) = {}
  <2>1. <<s.all, s.ns, s.list>> = <<FALSE, Unset, << >> >>
    BY <1>3, <1>4 DEF ScopeFollows
  <2>2. s.all = FALSE /\ s.ns = Unset /\ s.list = << >>
    BY <2>1
  <2>3. Scope(s) = {Default}
    BY <2>2 DEF Scope
  <2>4. AllClauses(calls) = ClausesOf(calls)
    BY <1>3, <1>4 DEF AllClauses
  <2>5. scope = {}
    BY <1>4
  <2> HIDE DEF meets, scope
  <2> QED
    BY <1>1, <1>2, <2>3, <2>4, <2>5
<1>5. ASSUME NEW n \in ScopeCalls(calls)
      PROVE  Filter(S, s.conditions) = AskedFor(calls)
  <2>1. ScopeCalls(calls) = {n}
    BY <1>3 DEF AtMostOne
  <2>2. scope = Meant(calls[n])
    BY <2>1
  <2>3. n \in DOMAIN calls /\ calls[n].op \in {"namespace", "all", "sql"}
    BY DEF ScopeCalls
  <2>4. calls[n] \in ChainCalls /\ <<s.all, s.ns, s.list>> = AimOf(calls[n])
    BY <1>3, <2>3 DEF ScopeFollows
  <2>5. scope # {} /\ scope \subseteq Namespaces
    BY <2>2, <2>3, <2>4, OneScope
  <2>6. CASE n \notin Several(calls)
    <3>1. Scope(s) = scope
      BY <2>2, <2>3, <2>4, <2>6, OneScope DEF Several
    <3>2. AllClauses(calls) = ClausesOf(calls)
      BY <1>3, <2>1, <2>6 DEF AllClauses
    <3> HIDE DEF meets, scope
    <3> QED
      BY <1>1, <1>2, <2>5, <3>1, <3>2
  <2>7. CASE n \in Several(calls)
    <3>1. Scope(s) = Namespaces
      BY <2>3, <2>4, <2>7, OneScope DEF Several
    <3>2. PICK a, b \in Namespaces : calls[n].arg = <<a, b>> /\ scope = {a, b}
      BY <2>2, <2>3, <2>4, <2>7, OneScope DEF Several
    <3>3. AllClauses(calls) = ClausesOf(calls) \cup {<<a, b>>}
      <4>1. Several(calls) = {n}
        BY <1>3, <2>1, <2>7
      <4>2. {calls[m].arg : m \in Several(calls)} = {calls[n].arg}
        BY <4>1
      <4> QED
        BY <3>2, <4>2 DEF AllClauses
    <3>4. ASSUME NEW obj \in Objects
          PROVE  meets(obj, <<a, b>>) <=> obj.ns \in scope
      <4>1. DOMAIN <<a, b>> = {1, 2} /\ <<a, b>>[1] = a /\ <<a, b>>[2] = b
        BY RangeOfTwo
      <4>2. obj.meets \subseteq Preds
        BY DEF Objects
      <4>3. Meets(obj, a) <=> a = obj.ns
        BY <4>2 DEF Meets
      <4>4. Meets(obj, b) <=> b = obj.ns
        BY <4>2 DEF Meets
      <4> QED
        BY <3>2, <4>1, <4>3, <4>4
    <3>5. \A obj \in Objects : obj.ns \in Namespaces
      BY DEF Objects
    <3> HIDE DEF meets, scope
    <3> QED
      BY <1>1, <1>2, <2>5, <3>1, <3>3, <3>4, <3>5
  <2> QED
    BY <2>6, <2>7
<1> QED
  BY <1>4, <1>5

-----------------------------------------------------------------------------
(* The inductive invariant *)

\* Only a statement on which nothing was called is the root.
RootIsFresh == tx.root => asks = << >>

\* While no statement was cached that named namespaces more than once, a key
\* with a namespace has the list of that namespace.
CacheHolds == ~mixed => \A n \in Namespaces : cache[n] \in {NoList, {n}}

ListIInv ==
    /\ ListTypeOK /\ RootIsFresh
    /\ ScopeFollows(tx, asks) /\ ConditionsFollow(tx, asks) /\ CacheHolds
    /\ SimpleIsExact /\ NamedNamespaceIsExact

\* A new statement has kept what no calls ask for.
LEMMA RootFacts ==
    /\ Root \in Statement /\ Root.root
    /\ ScopeFollows(Root, << >>) /\ ConditionsFollow(Root, << >>)
<1>1. Root \in Statement
  <2>1. << >> \in Seq(Namespaces)
    OBVIOUS
  <2> QED
    BY <2>1 DEF Root, Statement
<1>2. /\ Root.root /\ Root.all = FALSE /\ Root.ns = Unset /\ Root.list = << >>
      /\ Root.sql = {} /\ Root.conditions = {}
  BY DEF Root
<1>3. DOMAIN << >> = {}
  OBVIOUS
<1>4. /\ ScopeCalls(<< >>) = {} /\ AllClauses(<< >>) = {}
  BY <1>3 DEF ScopeCalls, AllClauses, ClausesOf, Several
<1>5. Parse({}) = {}
  BY DEF Parse
<1> QED
  BY <1>1, <1>2, <1>4, <1>5 DEF ScopeFollows, ConditionsFollow

\* The inductive invariant holds initially.
LEMMA ListInvInit == ListInit => ListIInv
<1> SUFFICES ASSUME ListInit PROVE ListIInv
  OBVIOUS
<1>1. /\ tx = Root /\ cache = [key \in Namespaces \cup {Unset} |-> NoList]
      /\ asks = << >> /\ answer = NoList /\ mixed = FALSE /\ chains = 1
  BY DEF ListInit
<1>2. ListTypeOK
  <2>1. asks \in Seq(ChainCalls) /\ chains \in 1 .. MaxChains
    BY <1>1, MaxChainsAssumption
  <2>2. cache \in [Namespaces \cup {Unset} ->
                     {NoList, Namespaces} \cup {{n} : n \in Namespaces}]
    BY <1>1
  <2> QED
    BY <1>1, <2>1, <2>2, RootFacts DEF ListTypeOK
<1> QED
  BY <1>1, <1>2, RootFacts
  DEF ListIInv, RootIsFresh, CacheHolds, SimpleIsExact, NamedNamespaceIsExact

\* A call adds to the statement and to what it is asked for; it answers nothing.
LEMMA CallStep ==
    ASSUME ListIInv, NEW call \in ChainCalls, Call(call)
    PROVE  ListIInv'
<1>1. /\ tx' = Apply(tx, call) /\ asks' = Append(asks, call) /\ answer' = NoList
      /\ UNCHANGED <<cache, mixed, chains>>
  BY DEF Call
<1>2. /\ tx \in Statement /\ asks \in Seq(ChainCalls)
      /\ tx.root => asks = << >>
      /\ ScopeFollows(tx, asks) /\ ConditionsFollow(tx, asks)
  BY DEF ListIInv, ListTypeOK, RootIsFresh
<1>3. tx' \in Statement /\ tx'.root = FALSE
  <2>1. CASE call.op = "namespace"
    BY <1>1, <1>2, <2>1, NamespaceClauses
  <2>2. CASE call.op # "namespace"
    BY <1>1, <1>2, <2>2, CallShapes, ApplyFacts DEF Filled
  <2> QED
    BY <2>1, <2>2
<1>4. ScopeFollows(tx', asks') /\ ConditionsFollow(tx', asks')
  BY <1>1, <1>2, ScopeFollowsCall, ConditionsFollowCall
<1>5. ListTypeOK' /\ CacheHolds'
  BY <1>1, <1>2, <1>3 DEF ListIInv, ListTypeOK, CacheHolds
<1>6. SimpleIsExact' /\ NamedNamespaceIsExact'
  BY <1>1 DEF SimpleIsExact, NamedNamespaceIsExact
<1> QED
  BY <1>3, <1>4, <1>5, <1>6 DEF ListIInv, RootIsFresh

\* A list answers a simple chain with what it asks for, and caches the list of
\* the namespace in its key.
LEMMA ListStep ==
    ASSUME ListIInv, List
    PROVE  ListIInv'
<1> DEFINE found == IF tx.cached /\ cache[Key(tx)] # NoList THEN cache[Key(tx)] ELSE Scope(tx)
           S == {obj \in Objects : obj.ns \in found}
<1>1. /\ cache' = IF tx.cached THEN [cache EXCEPT ![Key(tx)] = found] ELSE cache
      /\ answer' = [to |-> asks, stmt |-> tx, objects |-> Filter(S, tx.conditions)]
      /\ mixed' = (mixed \/ (tx.cached /\ ~AtMostOne(ScopeCalls(asks))))
      /\ tx' = getInstance(tx)
      /\ UNCHANGED <<asks, chains>>
  BY DEF List
<1>2. /\ tx \in Statement /\ asks \in Seq(ChainCalls)
      /\ cache \in [Namespaces \cup {Unset} ->
                      {NoList, Namespaces} \cup {{n} : n \in Namespaces}]
      /\ mixed \in BOOLEAN /\ chains \in 1 .. MaxChains
      /\ ScopeFollows(tx, asks) /\ ConditionsFollow(tx, asks)
      /\ CacheHolds
  BY DEF ListIInv, ListTypeOK
<1>3. Key(tx) = tx.ns /\ tx.ns \in Namespaces \cup {Unset} /\ tx.cached \in BOOLEAN
  BY <1>2, StatementFields DEF Key
<1>4. found \in {NoList, Namespaces} \cup {{n} : n \in Namespaces}
  BY <1>2, <1>3, ScopeType
<1>5. /\ tx' \in Statement /\ tx'.root = FALSE
      /\ tx'.all = tx.all /\ tx'.ns = tx.ns /\ tx'.list = tx.list
      /\ tx'.sql = tx.sql /\ tx'.conditions = tx.conditions
  BY <1>1, <1>2, Unrooted DEF Filled
<1>6. \* what is cached under the namespace is what the request is about
      ASSUME tx.ns \in Namespaces, AtMostOne(ScopeCalls(asks)), ~mixed
      PROVE  found = {tx.ns} /\ Scope(tx) = {tx.ns}
  <2>1. Scope(tx) = {tx.ns}
    BY <1>2, <1>6, NamedScope
  <2>2. cache[tx.ns] \in {NoList, {tx.ns}}
    BY <1>2, <1>6 DEF CacheHolds
  <2> QED
    BY <1>3, <2>1, <2>2
<1> HIDE DEF found
<1>7. ListTypeOK'
  <2>1. cache' \in [Namespaces \cup {Unset} ->
                      {NoList, Namespaces} \cup {{n} : n \in Namespaces}]
    BY <1>1, <1>2, <1>3, <1>4
  <2>2. answer'.objects \subseteq Objects
    BY <1>1 DEF Filter
  <2>3. mixed' \in BOOLEAN
    BY <1>1, <1>2
  <2> QED
    BY <1>1, <1>2, <1>5, <2>1, <2>2, <2>3 DEF ListTypeOK
<1>8. ScopeFollows(tx', asks') /\ ConditionsFollow(tx', asks') /\ RootIsFresh'
  BY <1>1, <1>2, <1>5 DEF ScopeFollows, ConditionsFollow, RootIsFresh
<1>9. CacheHolds'
  <2> SUFFICES ASSUME ~mixed', NEW n \in Namespaces
               PROVE  cache'[n] \in {NoList, {n}}
    BY DEF CacheHolds
  <2>1. ~mixed /\ (tx.cached => AtMostOne(ScopeCalls(asks)))
    BY <1>1, <1>2, <1>3
  <2>2. cache[n] \in {NoList, {n}}
    BY <1>2, <2>1 DEF CacheHolds
  <2>3. CASE tx.cached /\ tx.ns = n
    <3>1. found = {n}
      BY <1>6, <2>1, <2>3
    <3> QED
      BY <1>1, <1>2, <1>3, <2>3, <3>1
  <2>4. CASE ~(tx.cached /\ tx.ns = n)
    BY <1>1, <1>2, <1>3, <2>2, <2>4
  <2> QED
    BY <2>3, <2>4
<1>10. ASSUME Simple(asks), found = Scope(tx)
       PROVE  answer'.objects = AskedFor(asks)
  BY <1>1, <1>2, <1>10, SimpleYields
<1>11. answer'.to = asks /\ answer'.stmt = tx
  BY <1>1
<1>12. SimpleIsExact'
  <2> SUFFICES ASSUME ~tx.cached, Simple(asks)
               PROVE  answer'.objects = AskedFor(asks)
    BY <1>11 DEF SimpleIsExact
  <2>1. found = Scope(tx)
    BY DEF found
  <2> QED
    BY <1>10, <2>1
<1>13. NamedNamespaceIsExact'
  <2> SUFFICES ASSUME Simple(asks), ~mixed', NEW n \in DOMAIN asks,
                      asks[n].op = "namespace", asks[n].arg[1] \in Namespaces,
                      Len(asks[n].arg) = 1
               PROVE  answer'.objects = AskedFor(asks)
    BY <1>11 DEF NamedNamespaceIsExact
  <2>1. ~mixed /\ AtMostOne(ScopeCalls(asks))
    BY <1>1, <1>2, <1>3 DEF Simple
  <2>2. n \in ScopeCalls(asks) /\ asks[n] \in ChainCalls
    BY <1>2 DEF ScopeCalls
  <2>3. <<tx.all, tx.ns, tx.list>> = AimOf(asks[n])
    BY <1>2, <2>1, <2>2 DEF ScopeFollows
  <2>4. tx.ns = asks[n].arg[1]
    <3>1. ~(Len(asks[n].arg) > 1) /\ Star \notin Range(asks[n].arg) /\ asks[n].arg[1] # Unset
      <4>1. asks[n].arg = <<asks[n].arg[1]>>
        BY <2>2, CallShapes
      <4>2. Range(asks[n].arg) = {asks[n].arg[1]}
        BY <4>1, RangeOfOne
      <4> QED
        BY <4>2, NamesAssumption
    <3>2. AimOf(asks[n]) = <<FALSE, asks[n].arg[1], << >> >>
      BY <3>1 DEF AimOf
    <3> QED
      BY <2>3, <3>2
  <2>5. found = Scope(tx)
    BY <1>6, <2>1, <2>4
  <2> QED
    BY <1>10, <2>5
<1> QED
  BY <1>7, <1>8, <1>9, <1>12, <1>13 DEF ListIInv

\* Every step preserves the inductive invariant.
LEMMA ListInvStep == ListIInv /\ [ListNext]_listVars => ListIInv'
<1> SUFFICES ASSUME ListIInv, [ListNext]_listVars PROVE ListIInv'
  OBVIOUS
<1>1. CASE List
  BY <1>1, ListStep
<1>2. ASSUME NEW call \in ChainCalls, Call(call) PROVE ListIInv'
  BY <1>2, CallStep
<1>3. CASE BeginChain
  <2>1. /\ tx' = Root /\ asks' = << >> /\ answer' = NoList
        /\ chains' = chains + 1 /\ chains < MaxChains /\ UNCHANGED <<cache, mixed>>
    BY <1>3 DEF BeginChain
  <2>2. ListTypeOK'
    BY <2>1, RootFacts, MaxChainsAssumption DEF ListIInv, ListTypeOK
  <2> QED
    BY <2>1, <2>2, RootFacts
    DEF ListIInv, RootIsFresh, CacheHolds, SimpleIsExact, NamedNamespaceIsExact
<1>4. ASSUME NEW key \in DOMAIN cache, Expire(key) PROVE ListIInv'
  <2>1. /\ cache' = [cache EXCEPT ![key] = NoList] /\ answer' = NoList
        /\ UNCHANGED <<tx, asks, mixed, chains>>
    BY <1>4 DEF Expire
  <2>2. ListTypeOK' /\ CacheHolds'
    BY <2>1 DEF ListIInv, ListTypeOK, CacheHolds
  <2> QED
    BY <2>1, <2>2
    DEF ListIInv, RootIsFresh, ScopeFollows, ConditionsFollow, SimpleIsExact, NamedNamespaceIsExact
<1>5. CASE UNCHANGED listVars
  BY <1>5 DEF listVars, ListIInv, ListTypeOK, RootIsFresh, ScopeFollows, ConditionsFollow,
     CacheHolds, SimpleIsExact, NamedNamespaceIsExact
<1> QED
  BY <1>1, <1>2, <1>3, <1>4, <1>5 DEF ListNext

\* Whatever calls a chain consists of, in whatever order, and whatever other
\* chains have cached: a simple chain gets what it asks for when it is not
\* cached, and when it names one namespace also from the cache.  For any
\* namespaces, conditions and numbers of calls and chains.
THEOREM ListsAreExact == ListSpec => []ListInv
<1>1. ListIInv => ListInv
  BY DEF ListIInv, ListInv
<1> QED
  BY ListInvInit, ListInvStep, <1>1, PTL DEF ListSpec
=============================================================================
