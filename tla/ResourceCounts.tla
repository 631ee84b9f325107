--------------------------- MODULE ResourceCounts ---------------------------
(***************************************************************************)
(* GetResourceCountSummary (kom/status.go:92): a call that finds no cached *)
(* summary lists every resource of the cluster, at most Slots at a time,   *)
(* each in a goroutine that adds up the pages, and caches the map they all *)
(* write to.  Callers share that map.  Its time to live is QueryCache's    *)
(* subject; here a cached summary goes at any time.                        *)
(***************************************************************************)
EXTENDS Naturals, FiniteSets

CONSTANTS
    Calls,       \* goroutines that ask for one summary each
    Resources,   \* the group-version-resources that can be listed
    Slots,       \* the capacity of the semaphore (5 in the code)
    PageSize,    \* the objects on one page (500 in the code)
    MaxObjects,  \* bound on the objects of one resource
    MaxObjectChanges,  \* bound on the objects made and deleted
    None

ASSUME SlotsAssumption == Slots \in Nat \ {0} /\ PageSize \in Nat \ {0}
ASSUME NoneAssumption == None \notin Calls \cup Nat
ASSUME BoundsAssumption == MaxObjects \in Nat /\ MaxObjectChanges \in Nat

VARIABLES
    world,     \* world[r]: how many objects of r there are
    pc,        \* pc[c]: the next step of call c
    cached,    \* cached[c]: it was asked with a time to live
    found,     \* found[c]: what its discovery has found
    todo,      \* todo[c]: what it has started no goroutine for
    job,       \* job[c][r]: the goroutine that counts r for c
    summary,   \* summary[c]: the map that c allocates
    held,      \* held[c]: the call whose map c has
    entry,     \* the call whose map is cached
    seen,      \* history: the values that world[r] had while c listed
    changes    \* how many objects were made and deleted

countsVars ==
    <<world, pc, cached, found, todo, job, summary, held, entry, seen, changes>>

Steps == {"idle", "lookup", "discover", "start", "store", "done", "failed"}

\* total: the pages so far; left: the objects on those to come, None before
\* the first, which fixes what the continue token leads through.
Job == [at : {"none", "list", "write", "done", "failed"},
        total : Nat, left : Nat \cup {None}]

NoJob == [at |-> "none", total |-> 0, left |-> None]

CountsInit ==
    /\ world = [r \in Resources |-> MaxObjects]
    /\ pc = [c \in Calls |-> "idle"]
    /\ cached \in [Calls -> BOOLEAN]
    /\ found = [c \in Calls |-> {}]
    /\ todo = [c \in Calls |-> {}]
    /\ job = [c \in Calls |-> [r \in Resources |-> NoJob]]
    /\ summary = [c \in Calls |-> [r \in Resources |-> None]]
    /\ held = [c \in Calls |-> None]
    /\ entry = None
    /\ seen = [c \in Calls |-> [r \in Resources |-> {}]]
    /\ changes = 0

Goto(c, step) == pc' = [pc EXCEPT ![c] = step]

Running(c) == pc[c] \notin {"idle", "done", "failed"}

-----------------------------------------------------------------------------
(* Slips that the properties catch; none is part of CountsNext. *)

\* The slot is given back at the end of the function only, not on its errors.
HoldsSlotOnError(c, r) == job[c][r].at \in {"list", "write", "failed"}

\* Nobody waits for the goroutines.
AllDoneWithoutWait(c) == todo[c] = {}

\* What was counted before the error counts.
ListEndsWithTotal(c, r) == job' = [job EXCEPT ![c][r].at = "write"]

\* A resource is left out when all slots are taken.
StartListOrSkip(c) ==
    /\ pc[c] = "start"
    /\ \E r \in todo[c] :
        /\ todo' = [todo EXCEPT ![c] = @ \ {r}]
        /\ job' = IF Cardinality({q \in Resources : job[c][q].at \in {"list", "write"}}) < Slots
                  THEN [job EXCEPT ![c][r].at = "list"] ELSE job
    /\ UNCHANGED <<world, pc, cached, found, summary, held, entry, seen, changes>>

\* The cache is believed to have the summary.
LookupWithoutFound(c) ==
    /\ pc[c] = "lookup"
    /\ IF cached[c]
       THEN held' = [held EXCEPT ![c] = entry] /\ Goto(c, "done")
       ELSE Goto(c, "discover") /\ UNCHANGED held
    /\ UNCHANGED <<world, cached, found, todo, job, summary, entry, seen, changes>>

-----------------------------------------------------------------------------

Begin(c) ==
    /\ pc[c] = "idle"
    /\ Goto(c, "lookup")
    /\ UNCHANGED <<world, cached, found, todo, job, summary, held, entry, seen, changes>>

Lookup(c) ==
    /\ pc[c] = "lookup"
    /\ IF cached[c] /\ entry # None
       THEN held' = [held EXCEPT ![c] = entry] /\ Goto(c, "done")
       ELSE Goto(c, "discover") /\ UNCHANGED held
    /\ UNCHANGED <<world, cached, found, todo, job, summary, entry, seen, changes>>

\* Groups whose discovery failed are left out without an error.
Discover(c) ==
    /\ pc[c] = "discover"
    /\ \/ \E some \in SUBSET Resources :
            /\ found' = [found EXCEPT ![c] = some]
            /\ todo' = [todo EXCEPT ![c] = some]
            /\ held' = [held EXCEPT ![c] = c]
            /\ seen' = [seen EXCEPT ![c] = [r \in Resources |-> {world[r]}]]
            /\ Goto(c, "start")
       \/ Goto(c, "failed") /\ UNCHANGED <<found, todo, held, seen>>
    /\ UNCHANGED <<world, cached, job, summary, entry, changes>>

HoldsSlot(c, r) == job[c][r].at \in {"list", "write"}

\* The loop blocks on the semaphore before it starts the goroutine; it comes
\* to the resources in the order of a map, that is in any.
StartList(c) ==
    /\ pc[c] = "start"
    /\ Cardinality({r \in Resources : HoldsSlot(c, r)}) < Slots
    /\ \E r \in todo[c] :
        /\ todo' = [todo EXCEPT ![c] = @ \ {r}]
        /\ job' = [job EXCEPT ![c][r].at = "list"]
    /\ UNCHANGED <<world, pc, cached, found, summary, held, entry, seen, changes>>

\* An error, at whatever page, is logged and ends the goroutine.
ListEnds(c, r) == job' = [job EXCEPT ![c][r] = [NoJob EXCEPT !.at = "failed"]]

ListPage(c, r) ==
    /\ job[c][r].at = "list"
    /\ \/ LET rest == IF job[c][r].left = None THEN world[r] ELSE job[c][r].left
              page == IF rest < PageSize THEN rest ELSE PageSize
          IN job' = [job EXCEPT ![c][r] =
                        [at |-> IF page = rest THEN "write" ELSE "list",
                         total |-> @.total + page, left |-> rest - page]]
       \/ ListEnds(c, r)
    /\ UNCHANGED <<world, pc, cached, found, todo, summary, held, entry, seen, changes>>

\* Under the mutex.
WriteCount(c, r) ==
    /\ job[c][r].at = "write"
    /\ summary' = [summary EXCEPT ![c][r] = job[c][r].total]
    /\ job' = [job EXCEPT ![c][r].at = "done"]
    /\ UNCHANGED <<world, pc, cached, found, todo, held, entry, seen, changes>>

AllDone(c) == todo[c] = {} /\ \A r \in Resources : job[c][r].at \notin {"list", "write"}

\* wg.Wait
WaitForLists(c) ==
    /\ pc[c] = "start"
    /\ AllDone(c)
    /\ Goto(c, IF cached[c] THEN "store" ELSE "done")
    /\ UNCHANGED <<world, cached, found, todo, job, summary, held, entry, seen, changes>>

\* ristretto (external) may decline to admit the entry.
Store(c) ==
    /\ pc[c] = "store"
    /\ entry' \in {entry, c}
    /\ Goto(c, "done")
    /\ UNCHANGED <<world, cached, found, todo, job, summary, held, seen, changes>>

\* The summary expires, or ristretto (external) evicts it.
Expire ==
    /\ entry # None
    /\ entry' = None
    /\ UNCHANGED <<world, pc, cached, found, todo, job, summary, held, seen, changes>>

\* Somebody makes or deletes an object.
Change(r) ==
    /\ changes < MaxObjectChanges
    /\ changes' = changes + 1
    /\ \E n \in 0 .. MaxObjects :
        /\ n \in {world[r] + 1, world[r] - 1}
        /\ world' = [world EXCEPT ![r] = n]
        /\ seen' = [c \in Calls |-> IF pc[c] = "start" THEN [seen[c] EXCEPT ![r] = @ \cup {n}]
                                    ELSE seen[c]]
    /\ UNCHANGED <<pc, cached, found, todo, job, summary, held, entry>>

Step(c) ==
    \/ Begin(c) \/ Lookup(c) \/ Discover(c) \/ StartList(c) \/ WaitForLists(c) \/ Store(c)
    \/ \E r \in Resources : ListPage(c, r) \/ WriteCount(c, r)

CountsNext == Expire \/ (\E r \in Resources : Change(r)) \/ (\E c \in Calls : Step(c))

\* A call that has begun goes on, and so does each of its goroutines: their
\* requests return, with an error at worst.
CountsFairness ==
    \A c \in Calls :
        /\ WF_countsVars(Lookup(c) \/ Discover(c) \/ StartList(c) \/ WaitForLists(c) \/ Store(c))
        /\ \A r \in Resources : WF_countsVars(ListPage(c, r) \/ WriteCount(c, r))

CountsSpec == CountsInit /\ [][CountsNext]_countsVars /\ CountsFairness

-----------------------------------------------------------------------------
(* Properties *)

\* Type invariant; who is done has a summary.
CountsTypeOK ==
    /\ world \in [Resources -> 0 .. MaxObjects]
    /\ pc \in [Calls -> Steps]
    /\ cached \in [Calls -> BOOLEAN]
    /\ found \in [Calls -> SUBSET Resources]
    /\ todo \in [Calls -> SUBSET Resources]
    /\ job \in [Calls -> [Resources -> Job]]
    /\ summary \in [Calls -> [Resources -> Nat \cup {None}]]
    /\ held \in [Calls -> Calls \cup {None}]
    /\ entry \in Calls \cup {None}
    /\ seen \in [Calls -> [Resources -> SUBSET (0 .. MaxObjects)]]
    /\ \A c \in Calls : pc[c] = "done" => held[c] # None

\* A count in a summary is the number of objects there were at some time while
\* it was made, however many pages were read and whoever else changed them
\* meanwhile (countResources, status.go:157): the pages of one list are added
\* up to the end or not at all.
CountsAreReal ==
    \A c \in Calls : pc[c] = "done" =>
        \A r \in Resources : summary[held[c]][r] \in seen[held[c]][r] \cup {None}

\* A summary, the cached one too, lacks a resource only if its discovery or one
\* of its pages failed (status.go:108, :142): it is not lost to the semaphore
\* or to other goroutines.  No error tells the caller so.
OmissionsAreFailures ==
    \A c \in Calls : pc[c] = "done" =>
        \A r \in Resources :
            summary[held[c]][r] = None =>
                r \notin found[held[c]] \/ job[held[c]][r].at = "failed"

\* The map that callers share, and read without a lock, is not written to any
\* more once one of them has it (wg.Wait, status.go:153).
ReturnedMapsRest ==
    [][\A c \in Calls : pc[c] = "done" => summary'[held[c]] = summary[held[c]]]_countsVars

\* Every call comes to an end: the slots that the loop waits for are given
\* back, whether a list fails or not (status.go:138).
CallsEnd == \A c \in Calls : Running(c) ~> ~Running(c)

\* What holds in every state: summaries tell the truth.
CountsInv ==
    /\ CountsTypeOK
    /\ CountsAreReal
    /\ OmissionsAreFailures
=============================================================================
