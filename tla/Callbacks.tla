------------------------------ MODULE Callbacks ------------------------------
(***************************************************************************)
(* A processor of the callback chain, kom/callback.go: the callbacks       *)
(* registered for one operation ("get", "delete", ...), and the functions  *)
(* Execute runs, which compile() puts in order after every change.         *)
(*                                                                         *)
(* The constraints Before and After are kept in the callbacks themselves,  *)
(* and sortCallbacks rewrites them, so one compilation changes what the    *)
(* next one works on.  A compilation takes several steps here: one for     *)
(* each callback that is arranged, and one for each part of sortCallback,  *)
(* whose recursion is a stack.  Nothing else happens in between.           *)
(***************************************************************************)
EXTENDS Naturals, Sequences, FiniteSets

CONSTANTS
    Names,   \* names of callbacks
    Star,    \* "*", before or after everything else
    Unset,   \* "", no constraint
    Orders,  \* the constraints a registration may come with
    MaxOps   \* bound: calls of Register, Replace and Remove

Constraint == Names \cup {Star, Unset}

ASSUME NamesAssumption == Star \notin Names /\ Unset \notin Names /\ Star # Unset

ASSUME OrdersAssumption == Orders \subseteq [before : Constraint, after : Constraint]

\* Up to 20 elements, sort.SliceStable is the insertion sort that Arrange is.
ASSUME MaxOpsAssumption == MaxOps \in 0 .. 20

VARIABLES
    callbacks,  \* processor.callbacks, in the order of the slice
    fns,        \* processor.fns: the handlers Execute runs
    status,     \* what a compilation is at, or how the last one ended
    turn,       \* how many callbacks have been arranged, or had their turn
    sorted,     \* the names that are in order so far
    stack,      \* the calls of sortCallback that have not returned
    asked       \* history: the calls made so far, with their constraints

vars == <<callbacks, fns, status, turn, sorted, stack, asked>>

\* The handler of a callback is named by the call that gave it.
Callback == [name : Names, before : Constraint, after : Constraint,
             handler : 1 .. MaxOps]

\* A call of sortCallback: for which callback, and where it is.
Frame == [of : 1 .. MaxOps, at : {"before", "after", "again", "append"}]

Init ==
    /\ callbacks = << >>
    /\ fns = << >>
    /\ status = "ok"
    /\ turn = 0 /\ sorted = << >> /\ stack = << >>
    /\ asked = << >>

-----------------------------------------------------------------------------
(* Sequences of names *)

\* A slip: the first index, as a search from the left would return.
FirstIndex(s, x) ==
    CHOOSE i \in 0 .. Len(s) :
        /\ i > 0 => s[i] = x
        /\ i = 0 => \A j \in 1 .. Len(s) : s[j] # x
        /\ \A j \in 1 .. i - 1 : s[j] # x

\* Index of the last x in s, 0 when there is none.
RIndex(s, x) ==
    CHOOSE i \in 0 .. Len(s) :
        /\ i > 0 => s[i] = x
        /\ \A j \in i + 1 .. Len(s) : s[j] # x

NamesOf(cs) == [i \in 1 .. Len(cs) |-> cs[i].name]

\* x becomes element i of s.
InsertAt(s, i, x) ==
    [j \in 1 .. Len(s) + 1 |->
        IF j < i THEN s[j] ELSE IF j = i THEN x ELSE s[j - 1]]

\* Element `from` of s moves left, to be element `to`.
MoveTo(s, from, to) ==
    [j \in 1 .. Len(s) |->
        IF j = to THEN s[from]
        ELSE IF to < j /\ j <= from THEN s[j - 1] ELSE s[j]]

-----------------------------------------------------------------------------
(* The calls *)

Settled == status \in {"ok", "conflict"}

Asks(kind, name, order) ==
    /\ Settled /\ Len(asked) < MaxOps
    /\ asked' = Append(asked, [kind |-> kind, name |-> name,
                               before |-> order.before, after |-> order.after])

\* compile() of the callbacks there are now begins.
Compile(cs) ==
    /\ callbacks' = cs
    /\ status' = "arranging"
    /\ UNCHANGED <<fns, turn, sorted, stack>>

\* Register and Replace differ in a warning only.
RegisterCallback(name, order) ==
    /\ Asks("register", name, order)
    /\ Compile(Append(callbacks, [name |-> name, before |-> order.before,
                                  after |-> order.after,
                                  handler |-> Len(asked) + 1]))

\* A slip: the callback that asks for the removal stays, without a handler.
RemoveButKeepRequest(name) ==
    /\ Asks("remove", name, [before |-> Unset, after |-> Unset])
    /\ Compile(Append(SelectSeq(callbacks, LAMBDA c : c.name # name),
                      [name |-> name, before |-> Unset, after |-> Unset,
                       handler |-> 0]))

\* A slip: the last callback takes the place of the one that goes.
RemoveBySwapping(name) ==
    /\ Asks("remove", name, [before |-> Unset, after |-> Unset])
    /\ LET at == RIndex(NamesOf(callbacks), name)
           last == Len(callbacks)
       IN Compile(IF at = 0 THEN callbacks
                  ELSE SubSeq([callbacks EXCEPT ![at] = callbacks[last]],
                              1, last - 1))

\* Every callback of the name goes, the one that asked for it included; the
\* others stay in their order.
RemoveCallback(name) ==
    LET others == {i \in 1 .. Len(callbacks) : callbacks[i].name # name}
    IN /\ Asks("remove", name, [before |-> Unset, after |-> Unset])
       /\ \E at \in [1 .. Cardinality(others) -> others] :
             /\ \A m, n \in DOMAIN at : m < n => at[m] < at[n]
             /\ \A i \in others : \E m \in DOMAIN at : at[m] = i
             /\ Compile([m \in 1 .. Cardinality(others) |-> callbacks[at[m]]])

-----------------------------------------------------------------------------
(* compile(): the callbacks before or after everything go to the end *)

Less(c, d) ==
    \/ d.before = Star /\ c.before # Star
    \/ d.after = Star /\ c.after # Star

\* One round of the insertion sort: the next callback moves left, past those
\* that it is less than.
Arrange ==
    /\ status = "arranging" /\ turn < Len(callbacks)
    /\ \E stop \in 0 .. turn :
          /\ stop > 0 => ~Less(callbacks[turn + 1], callbacks[stop])
          /\ \A i \in stop + 1 .. turn : Less(callbacks[turn + 1], callbacks[i])
          /\ callbacks' = MoveTo(callbacks, turn + 1, stop + 1)
    /\ turn' = turn + 1
    /\ UNCHANGED <<fns, status, sorted, stack, asked>>

Arranged ==
    /\ status = "arranging" /\ turn = Len(callbacks)
    /\ status' = "placing"
    /\ turn' = 0
    /\ UNCHANGED <<callbacks, fns, sorted, stack, asked>>

-----------------------------------------------------------------------------
(* sortCallback, for the callback on top of the stack *)

Top == stack[Len(stack)]
Current == callbacks[Top.of]

At(point) == status = "placing" /\ stack # << >> /\ Top.at = point

\* It goes on from that point, with the names in this order.
Proceed(point, names) ==
    /\ stack' = [stack EXCEPT ![Len(stack)].at = point]
    /\ sorted' = names
    /\ UNCHANGED <<fns, status, turn, asked>>

\* It is called for callback i, while this call waits at the point.
CallFor(i, point) ==
    stack' = Append([stack EXCEPT ![Len(stack)].at = point],
                    [of |-> i, at |-> "before"])

\* compile() ends.
Settle(how, functions) ==
    /\ status' = how
    /\ fns' = functions
    /\ turn' = 0 /\ sorted' = << >> /\ stack' = << >>
    /\ UNCHANGED <<callbacks, asked>>

\* The next callback has its turn.
Begin ==
    /\ status = "placing" /\ stack = << >> /\ turn < Len(callbacks)
    /\ turn' = turn + 1
    /\ stack' = <<[of |-> turn + 1, at |-> "before"]>>
    /\ UNCHANGED <<callbacks, fns, status, sorted, asked>>

\* A slip: no check whether the callback has been sorted already.
PlaceBeforeAgain ==
    LET at == RIndex(sorted, Current.before)
    IN /\ At("before")
       /\ Proceed("after", IF at # 0 THEN InsertAt(sorted, at, Current.name)
                           ELSE sorted)
       /\ UNCHANGED callbacks

\* A slip: after the callback it is to be before.
PlaceBeforeSorted ==
    LET at == RIndex(sorted, Current.before)
        own == RIndex(sorted, Current.name)
    IN /\ At("before")
       /\ Proceed("after", IF at # 0 /\ own = 0
                           THEN InsertAt(sorted, at + 1, Current.name)
                           ELSE sorted)
       /\ UNCHANGED callbacks

\* "Before": a callback is put in front of one that is sorted, or is noted as
\* the one that this is to be after.
PlaceBefore ==
    LET c == Current
        at == IF c.before = Star /\ sorted # << >> THEN 1
              ELSE RIndex(sorted, c.before)
        own == RIndex(sorted, c.name)
        target == RIndex(NamesOf(callbacks), c.before)
    IN /\ At("before")
       /\ \/ /\ at # 0 /\ own = 0
             /\ Proceed("after", InsertAt(sorted, at, c.name))
             /\ UNCHANGED callbacks
          \/ /\ at # 0 /\ own > at /\ c.before # Star
             /\ Settle("conflict", << >>)
          \/ /\ at = 0 /\ target # 0
             /\ callbacks' = [callbacks EXCEPT ![target].after = c.name]
             /\ Proceed("after", sorted)
          \/ /\ IF at = 0 THEN target = 0
                ELSE own # 0 /\ (own <= at \/ c.before = Star)
             /\ Proceed("after", sorted)
             /\ UNCHANGED callbacks

\* "After": it is put at the end if that one is sorted, or else that one has
\* its turn first.  One call deeper than there are callbacks goes in circles,
\* and the program dies of a stack overflow.
PlaceAfter ==
    LET c == Current
        at == IF c.after = Star /\ sorted # << >> THEN Len(sorted)
              ELSE RIndex(sorted, c.after)
        own == RIndex(sorted, c.name)
        target == RIndex(NamesOf(callbacks), c.after)
        deep == Len(stack) > Len(callbacks)
    IN /\ At("after")
       /\ \/ /\ at # 0 /\ own = 0
             /\ Proceed("append", Append(sorted, c.name))
             /\ UNCHANGED callbacks
          \/ /\ at # 0 /\ own # 0 /\ own < at /\ c.after # Star
             /\ Settle("conflict", << >>)
          \/ /\ at = 0 /\ target # 0 /\ ~deep
             /\ callbacks' = [callbacks EXCEPT ![target].before =
                                 IF @ = Unset THEN c.name ELSE @]
             /\ CallFor(target, "again")
             /\ UNCHANGED <<fns, status, turn, sorted, asked>>
          \/ /\ at = 0 /\ target # 0 /\ deep
             /\ Settle("overflow", fns)
          \/ /\ IF at = 0 THEN target = 0
                ELSE own # 0 /\ (own >= at \/ c.after = Star)
             /\ Proceed("append", sorted)
             /\ UNCHANGED callbacks

\* With the other one sorted, it starts again.
PlaceAgain ==
    /\ At("again")
    /\ IF Len(stack) > Len(callbacks) THEN Settle("overflow", fns)
       ELSE /\ CallFor(Top.of, "append")
            /\ UNCHANGED <<callbacks, fns, status, turn, sorted, asked>>

\* If nothing has sorted the callback it comes last.  The call returns.
Return ==
    /\ At("append")
    /\ sorted' = IF RIndex(sorted, Current.name) = 0
                 THEN Append(sorted, Current.name) ELSE sorted
    /\ stack' = SubSeq(stack, 1, Len(stack) - 1)
    /\ UNCHANGED <<callbacks, fns, status, turn, asked>>

\* The functions are the handlers of the names in their order.
Finish ==
    /\ status = "placing" /\ stack = << >> /\ turn = Len(callbacks)
    /\ Settle("ok", [m \in 1 .. Len(sorted) |->
                        callbacks[RIndex(NamesOf(callbacks), sorted[m])].handler])

Next ==
    \/ \E name \in Names :
          \/ RemoveCallback(name)
          \/ \E order \in Orders : RegisterCallback(name, order)
    \/ Arrange \/ Arranged
    \/ Begin \/ PlaceBefore \/ PlaceAfter \/ PlaceAgain \/ Return
    \/ Finish

Spec == Init /\ [][Next]_vars

-----------------------------------------------------------------------------
(* Execute *)

\* A slip: an error does not end the chain.
ExecuteAll(failing) == {fns[m] : m \in 1 .. Len(fns)}

\* The handlers that run when those in `failing` return an error.
Execute(failing) ==
    {fns[m] : m \in {n \in 1 .. Len(fns) :
                        \A k \in 1 .. n - 1 : fns[k] \notin failing}}

-----------------------------------------------------------------------------
(* Properties *)

\* Type invariant of a processor, and of a compilation.
TypeOK ==
    /\ callbacks \in Seq(Callback)
    /\ fns \in Seq(1 .. MaxOps)
    /\ status \in {"ok", "conflict", "overflow", "arranging", "placing"}
    /\ turn \in 0 .. Len(callbacks)
    /\ sorted \in Seq(Names)
    /\ stack \in Seq(Frame)
    /\ Len(stack) <= Len(callbacks) + 1
    /\ Len(asked) <= MaxOps

Removed(i, j) == asked[j].kind = "remove" /\ asked[j].name = asked[i].name

\* The calls whose callback no later removal has dropped.
Standing ==
    {i \in 1 .. Len(asked) :
        /\ asked[i].kind # "remove"
        /\ \A j \in i + 1 .. Len(asked) : ~Removed(i, j)}

\* The last standing call of each name.
Latest ==
    {i \in Standing :
        \A j \in Standing : asked[j].name = asked[i].name => j <= i}

NoStar == \A i \in Standing : Star \notin {asked[i].before, asked[i].after}

Handlers == {fns[m] : m \in 1 .. Len(fns)}

\* Execute runs one handler of every standing name, and nothing else.
OneHandlerPerName ==
    status = "ok" =>
        /\ Handlers \subseteq Standing
        /\ \A i \in Standing : \E m \in 1 .. Len(fns) :
               \A n \in 1 .. Len(fns) :
                   asked[fns[n]].name = asked[i].name <=> n = m

\* Without "*" that is the handler given last: Replace takes effect, and so
\* does a second registration of the default callbacks.
LatestHandlerRuns == status = "ok" /\ NoStar => Handlers = Latest

\* Every call named its callback anew, came with one constraint at most, and
\* referred to a callback that was registered before it and that nobody
\* removed.
Tidy ==
    /\ \A i \in 1 .. Len(asked) :
          /\ Unset \in {asked[i].before, asked[i].after}
          /\ \A name \in {asked[i].before, asked[i].after} \ {Unset} :
                /\ \E j \in Standing : j < i /\ asked[j].name = name
                /\ \A j \in 1 .. Len(asked) :
                      asked[j].kind = "remove" => asked[j].name # name
    /\ \A i, j \in 1 .. Len(asked) :
          i # j /\ asked[i].name = asked[j].name
              => "remove" \in {asked[i].kind, asked[j].kind}

\* Handler i runs before handler j.
RunsBefore(i, j) ==
    \E m, n \in 1 .. Len(fns) : m < n /\ fns[m] = i /\ fns[n] = j

\* Used that way - security callbacks Before() a built-in one, for example -
\* the chain compiles and every handler runs where it asked to.
TidyIsOrdered ==
    Tidy /\ Settled =>
        /\ status = "ok"
        /\ \A i, j \in Standing :
              /\ asked[i].before = asked[j].name => RunsBefore(i, j)
              /\ asked[i].after = asked[j].name => RunsBefore(j, i)

\* A callback that asked to run before one that was there, as those of
\* RegisterDenyMutationCallbacks do, stops it by returning an error - whatever
\* else is registered, as long as it is the only one of its name and the other
\* one did not ask for "*".
GuardHolds ==
    Settled =>
        \A i, j \in Standing :
            /\ j < i
            /\ asked[i].before = asked[j].name
            /\ Star \notin {asked[j].before, asked[j].after}
            /\ \A k \in Standing \ {i} : asked[k].name # asked[i].name
            => \A k \in Execute({i}) : asked[k].name # asked[j].name

\* A compilation that fails or goes in circles is not the fault of calls like
\* those, and the order that it makes is what they asked for.
OrderIsKept == TidyIsOrdered /\ GuardHolds

\* As long as the calls are like that, each of them leaves the handlers that
\* stay in the order they had, although the compilation starts from nothing.
TidyCallsMoveNothing ==
    [][Tidy' => \A i, j \in Handlers \cap Handlers' :
                    RunsBefore(i, j) => RunsBefore(i, j)']_vars

\* What holds of every processor, however it was used.
Inv ==
    /\ TypeOK
    /\ OneHandlerPerName
    /\ LatestHandlerRuns
=============================================================================
