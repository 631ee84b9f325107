--------------------------- MODULE CallbacksProof ---------------------------
(***************************************************************************)
(* The safety of Callbacks, for any names, constraints and calls.          *)
(*                                                                         *)
(* A compilation works on what earlier ones have left in the callbacks, so *)
(* the invariant says what may have become of what the calls asked for     *)
(* (ConstraintsLast), which orders survive the sort (InOrder), and where   *)
(* sortCallback has put the callbacks it has been called for               *)
(* (TurnsAreSorted, GuardsPlaced).  Of tidy calls, which need no notes and *)
(* no recursion, it says the whole order (TidyPlacing), in terms of what   *)
(* was asked for alone: so it is the same at every compilation.            *)
(***************************************************************************)
EXTENDS Callbacks, FiniteSetTheorems, SequenceTheorems, WellFoundedInduction, TLAPS

-----------------------------------------------------------------------------
(* Sequences *)

\* x is in s.
Has(s, x) == \E m \in 1 .. Len(s) : s[m] = x
\* No element of s comes twice.
Distinct(s) == \A m, n \in 1 .. Len(s) : s[m] = s[n] => m = n
\* An x comes before a y in s.
Prec(s, x, y) == \E m, n \in 1 .. Len(s) : m < n /\ s[m] = x /\ s[n] = y

\* A set of numbers that is not empty has a least element.
LEMMA Least ==
    ASSUME NEW S \in SUBSET Nat, S # {}
    PROVE  \E n \in S : \A m \in S : n <= m
<1> DEFINE R == OpToRel(<, Nat)
<1>1. IsWellFoundedOn(R, Nat)
  BY NatLessThanWellFounded
<1>2. \A y, x \in Nat : <<y, x>> \in R <=> y < x
  BY DEF OpToRel
<1> HIDE DEF R
<1>3. PICK n \in S : \A m \in S : ~(<<m, n>> \in R)
  BY <1>1, WFMin
<1>4. \A m \in S : m \in Nat /\ n \in Nat
  OBVIOUS
<1>5. \A m \in S : ~(m < n)
  BY <1>2, <1>3, <1>4, Zenon
<1> QED
  BY <1>4, <1>5

\* What a search from the right returns (getRIndex, callback.go:296).
LEMMA RIndexIsLast ==
    ASSUME NEW S, NEW s \in Seq(S), NEW x
    PROVE  /\ RIndex(s, x) \in 0 .. Len(s)
           /\ RIndex(s, x) > 0 => s[RIndex(s, x)] = x
           /\ \A j \in RIndex(s, x) + 1 .. Len(s) : s[j] # x
<1> DEFINE K == {k \in 0 .. Len(s) : \A j \in k + 1 .. Len(s) : s[j] # x}
<1>1. K \in SUBSET Nat /\ Len(s) \in K
  OBVIOUS
<1>2. PICK k \in K : \A m \in K : k <= m
  BY <1>1, Least
<1>2a. k \in 0 .. Len(s) /\ \A j \in k + 1 .. Len(s) : s[j] # x
  BY <1>2
<1>3. k > 0 => s[k] = x
  <2> SUFFICES ASSUME k > 0, s[k] # x PROVE FALSE
    OBVIOUS
  <2>1. k - 1 \in 0 .. Len(s) /\ \A j \in k .. Len(s) : j = k \/ j \in k + 1 .. Len(s)
    BY <1>2a
  <2>2. k - 1 \in K
    BY <1>2a, <2>1
  <2>3. k <= k - 1
    BY <1>2, <2>2
  <2> QED
    BY <1>2a, <2>3
<1>4. \E i \in 0 .. Len(s) : /\ i > 0 => s[i] = x
                             /\ \A j \in i + 1 .. Len(s) : s[j] # x
  BY <1>2a, <1>3
<1> QED
  BY <1>4 DEF RIndex

\* It returns 0 for what is not there.
LEMMA RIndexFinds ==
    ASSUME NEW S, NEW s \in Seq(S), NEW x
    PROVE  /\ RIndex(s, x) = 0 <=> ~Has(s, x)
           /\ RIndex(s, x) # 0 => RIndex(s, x) \in 1 .. Len(s) /\ s[RIndex(s, x)] = x
BY RIndexIsLast DEF Has

\* The elements after an insertion.
LEMMA Inserted ==
    ASSUME NEW S, NEW s \in Seq(S), NEW x \in S, NEW i \in 1 .. Len(s) + 1
    PROVE  /\ InsertAt(s, i, x) \in Seq(S)
           /\ Len(InsertAt(s, i, x)) = Len(s) + 1
           /\ \A j \in 1 .. Len(s) + 1 :
                 InsertAt(s, i, x)[j] = IF j < i THEN s[j] ELSE IF j = i THEN x ELSE s[j - 1]
BY DEF InsertAt

\* Appending is inserting at the end.
LEMMA AppendIsInsertion ==
    ASSUME NEW S, NEW s \in Seq(S), NEW x \in S
    PROVE  Append(s, x) = InsertAt(s, Len(s) + 1, x)
<1>1. Append(s, x) \in Seq(S) /\ InsertAt(s, Len(s) + 1, x) \in Seq(S)
  BY Inserted
<1>2. Len(Append(s, x)) = Len(s) + 1 /\ Len(InsertAt(s, Len(s) + 1, x)) = Len(s) + 1
  BY Inserted
<1>3. ASSUME NEW j \in 1 .. Len(s) + 1 PROVE Append(s, x)[j] = InsertAt(s, Len(s) + 1, x)[j]
  BY Inserted
<1> QED
  BY <1>1, <1>2, <1>3, SeqEqual

\* What was in order stays so when another name is inserted.
LEMMA InsertionKeeps ==
    ASSUME NEW S, NEW s \in Seq(S), NEW x \in S, NEW i \in 1 .. Len(s) + 1
    PROVE  LET t == InsertAt(s, i, x) IN
           /\ \A y : Has(t, y) <=> Has(s, y) \/ y = x
           /\ \A y, z : Prec(s, y, z) => Prec(t, y, z)
           /\ \A y, z : Prec(t, y, z) /\ y # x /\ z # x => Prec(s, y, z)
           /\ ~Has(s, x) /\ Distinct(s) => Distinct(t)
<1> DEFINE t == InsertAt(s, i, x)
           up(j) == IF j < i THEN j ELSE j + 1
           down(j) == IF j < i THEN j ELSE j - 1
<1>0. /\ t \in Seq(S) /\ Len(t) = Len(s) + 1
      /\ \A j \in 1 .. Len(s) + 1 : t[j] = IF j < i THEN s[j] ELSE IF j = i THEN x ELSE s[j - 1]
  BY Inserted DEF InsertAt
<1> HIDE DEF t
<1>1. /\ t \in Seq(S) /\ Len(t) = Len(s) + 1 /\ t[i] = x
      /\ \A j \in 1 .. Len(t) : t[j] = IF j < i THEN s[j] ELSE IF j = i THEN x ELSE s[j - 1]
  BY <1>0
<1>2. \A j \in 1 .. Len(s) : up(j) \in 1 .. Len(t) /\ t[up(j)] = s[j]
  BY <1>1
<1>3. \A j \in 1 .. Len(t) : j # i => down(j) \in 1 .. Len(s) /\ s[down(j)] = t[j]
  BY <1>1
<1>4. \A y : Has(t, y) <=> Has(s, y) \/ y = x
  BY <1>1, <1>2, <1>3 DEF Has
<1>5. \A y, z : Prec(s, y, z) => Prec(t, y, z)
  <2>1. \A m, n \in 1 .. Len(s) : m < n => up(m) < up(n)
    BY <1>1
  <2> HIDE DEF up
  <2> QED
    BY <1>2, <2>1 DEF Prec
<1>6. \A y, z : Prec(t, y, z) /\ y # x /\ z # x => Prec(s, y, z)
  <2>1. \A m, n \in 1 .. Len(t) : m < n /\ m # i /\ n # i => down(m) < down(n)
    BY <1>1
  <2> HIDE DEF down
  <2> QED
    BY <1>1, <1>3, <2>1 DEF Prec
<1>7. ASSUME ~Has(s, x), Distinct(s) PROVE Distinct(t)
  <2> SUFFICES ASSUME NEW m \in 1 .. Len(t), NEW n \in 1 .. Len(t), t[m] = t[n]
               PROVE  m = n
    BY DEF Distinct
  <2>1. CASE m = i \/ n = i
    BY <1>1, <1>3, <1>7, <2>1 DEF Has
  <2>2. CASE m # i /\ n # i
    <3>1. down(m) = down(n)
      BY <1>3, <1>7, <2>2 DEF Distinct
    <3> QED
      BY <1>1, <2>2, <3>1
  <2> QED
    BY <2>1, <2>2
<1> QED
  BY <1>4, <1>5, <1>6, <1>7 DEF t

\* What an inserted name comes before: the name in whose place it is put,
\* and what that one comes before.
LEMMA InsertedComesBefore ==
    ASSUME NEW S, NEW s \in Seq(S), NEW x \in S, NEW i \in 1 .. Len(s) + 1,
           ~Has(s, x), Distinct(s), NEW b, Has(s, b)
    PROVE  Prec(InsertAt(s, i, x), x, b)
              <=> i <= Len(s) /\ (s[i] = b \/ Prec(s, s[i], b))
<1> DEFINE t == InsertAt(s, i, x)
<1>0. /\ t \in Seq(S) /\ Len(t) = Len(s) + 1
      /\ \A j \in 1 .. Len(s) + 1 : t[j] = IF j < i THEN s[j] ELSE IF j = i THEN x ELSE s[j - 1]
  BY Inserted DEF InsertAt
<1>2. Distinct(t)
  BY InsertionKeeps
<1> HIDE DEF t
<1>1. /\ t \in Seq(S) /\ Len(t) = Len(s) + 1 /\ t[i] = x
      /\ \A j \in 1 .. Len(t) : t[j] = IF j < i THEN s[j] ELSE IF j = i THEN x ELSE s[j - 1]
  BY <1>0
<1>3. PICK k \in 1 .. Len(s) : s[k] = b
  BY DEF Has
<1>4. Prec(t, x, b) <=> i <= k
  <2>1. ASSUME i <= k PROVE Prec(t, x, b)
    <3>1. k + 1 \in 1 .. Len(t) /\ t[k + 1] = b /\ i \in 1 .. Len(t) /\ i < k + 1
      BY <1>1, <1>3, <2>1
    <3> QED
      BY <1>1, <3>1 DEF Prec
  <2>2. ASSUME Prec(t, x, b) PROVE i <= k
    <3>1. PICK m, n \in 1 .. Len(t) : m < n /\ t[m] = x /\ t[n] = b
      BY <2>2 DEF Prec
    <3>2. m = i
      BY <1>1, <1>2, <3>1 DEF Distinct
    <3>3. s[n - 1] = b /\ n - 1 \in 1 .. Len(s)
      BY <1>1, <3>1, <3>2
    <3>4. n - 1 = k
      BY <1>3, <3>3 DEF Distinct
    <3> QED
      BY <1>1, <3>1, <3>2, <3>4
  <2> QED
    BY <2>1, <2>2
<1>5. (i <= Len(s) /\ (s[i] = b \/ Prec(s, s[i], b))) <=> i <= k
  <2>1. ASSUME i <= k PROVE i <= Len(s) /\ (s[i] = b \/ Prec(s, s[i], b))
    <3>1. i \in 1 .. Len(s) /\ (i = k \/ i < k)
      BY <2>1
    <3> QED
      BY <1>3, <3>1 DEF Prec
  <2>2. ASSUME i <= Len(s), s[i] = b PROVE i <= k
    BY <1>3, <2>2 DEF Distinct
  <2>3. ASSUME i <= Len(s), Prec(s, s[i], b) PROVE i <= k
    <3>1. PICK m, n \in 1 .. Len(s) : m < n /\ s[m] = s[i] /\ s[n] = b
      BY <2>3 DEF Prec
    <3>2. m = i /\ n = k
      BY <1>3, <2>3, <3>1 DEF Distinct
    <3> QED
      BY <3>1, <3>2
  <2> QED
    BY <2>1, <2>2, <2>3
<1> QED
  BY <1>4, <1>5 DEF t

\* Of two names in a sequence one comes first.
LEMMA OneOrTheOther ==
    ASSUME NEW S, NEW s \in Seq(S), Distinct(s), NEW x, NEW y, x # y, Has(s, x), Has(s, y)
    PROVE  Prec(s, x, y) <=> ~Prec(s, y, x)
<1>1. PICK m \in 1 .. Len(s) : s[m] = x
  BY DEF Has
<1>2. PICK n \in 1 .. Len(s) : s[n] = y
  BY DEF Has
<1>3. Prec(s, x, y) <=> m < n
  BY <1>1, <1>2 DEF Prec, Distinct
<1>4. Prec(s, y, x) <=> n < m
  BY <1>1, <1>2 DEF Prec, Distinct
<1> QED
  BY <1>1, <1>2, <1>3, <1>4
-----------------------------------------------------------------------------
(* The inductive invariant *)

Calls == [kind : {"register", "remove"}, name : Names,
          before : Constraint, after : Constraint]

\* The call that gave callback m.
Asked(m) == asked[callbacks[m].handler]

Phases ==
    /\ asked \in Seq(Calls)
    /\ Len(callbacks) <= Len(asked)
    /\ \A f \in 1 .. Len(stack) : stack[f].of \in 1 .. Len(callbacks)
    /\ status # "placing" => sorted = << >> /\ stack = << >>
    /\ status \notin {"arranging", "placing"} => turn = 0
    /\ stack # << >> => stack[1].of = turn

\* The callbacks are those of the standing calls, each of them once.
CallbacksStand ==
    /\ \A m \in 1 .. Len(callbacks) :
          callbacks[m].handler \in Standing /\ Asked(m).name = callbacks[m].name
    /\ \A m, n \in 1 .. Len(callbacks) :
          callbacks[m].handler = callbacks[n].handler => m = n
    /\ \A i \in Standing : \E m \in 1 .. Len(callbacks) : callbacks[m].handler = i

\* A compilation adds no "*" and overwrites no Before.
ConstraintsLast ==
    \A m \in 1 .. Len(callbacks) :
        /\ callbacks[m].before = Star => Asked(m).before = Star
        /\ callbacks[m].after = Star => Asked(m).after = Star
        /\ Asked(m).before # Unset => callbacks[m].before = Asked(m).before

\* Callbacks that asked for no "*" come in the order of their calls.
InOrder ==
    \A m, n \in 1 .. Len(callbacks) :
        m < n => \/ callbacks[m].handler < callbacks[n].handler
                 \/ Star \in {Asked(n).before, Asked(n).after}

\* No name is sorted twice, and every callback that had its turn has been
\* sorted, the one whose turn it is perhaps not yet.
TurnsAreSorted ==
    /\ Distinct(sorted)
    /\ \A k \in 1 .. Len(sorted) :
          \E m \in 1 .. Len(callbacks) : callbacks[m].name = sorted[k]
    /\ status = "placing" =>
          \A m \in 1 .. turn :
              Has(sorted, callbacks[m].name) \/ (stack # << >> /\ m = turn)

\* A callback that asked to be before one in front of it has been put there
\* once its turn is past that point.
GuardsPlaced ==
    status = "placing" =>
        \A p \in 1 .. turn, q \in 1 .. turn :
            /\ q < p
            /\ Asked(p).before = callbacks[q].name
            /\ callbacks[p].name # callbacks[q].name
            /\ ~(stack # << >> /\ p = turn /\ stack[1].at = "before")
            => Prec(sorted, callbacks[p].name, callbacks[q].name)

\* The order of tidy calls, in terms of what they asked for: a callback comes
\* before an earlier one only if it asked to be before that one, or before
\* another that comes before it.
PlacedAsAsked(p, q) ==
    Prec(sorted, callbacks[p].name, callbacks[q].name) <=>
        /\ Asked(p).before # Unset
        /\ \/ Asked(p).before = callbacks[q].name
           \/ Prec(sorted, Asked(p).before, callbacks[q].name)

\* A compilation of tidy calls leaves no notes and needs no recursion.
TidyPlacing ==
    Tidy =>
        /\ status \in {"ok", "arranging", "placing"}
        /\ \A m \in 1 .. Len(callbacks) :
              /\ callbacks[m].before = Asked(m).before
              /\ callbacks[m].after = Asked(m).after
        /\ Len(stack) <= 1
        /\ \A m \in 1 .. Len(callbacks) : Has(sorted, callbacks[m].name) => m <= turn
        /\ stack # << >> =>
              /\ stack[1].at # "again"
              /\ Has(sorted, callbacks[turn].name) <=>
                    \/ stack[1].at # "before" /\ Asked(turn).before # Unset
                    \/ stack[1].at = "append" /\ Asked(turn).after # Unset
        /\ \A p, q \in 1 .. Len(callbacks) :
              q < p /\ Has(sorted, callbacks[p].name) => PlacedAsAsked(p, q)

\* The same of functions, whose callbacks may have gone since.
RunAsAsked(f, i, k) ==
    Prec(f, i, k) <=>
        /\ asked[i].before # Unset
        /\ \E x \in 1 .. Len(asked) :
              /\ Has(f, x) /\ asked[x].name = asked[i].before
              /\ x = k \/ Prec(f, x, k)

InAskedOrder(f) ==
    /\ Distinct(f)
    /\ \A i : Has(f, i) =>
          /\ i \in 1 .. Len(asked) /\ asked[i].kind = "register"
          /\ asked[i].before # Unset =>
                \E x \in 1 .. i - 1 : Has(f, x) /\ asked[x].name = asked[i].before
          /\ \A k \in 1 .. i - 1 : Has(f, k) => RunAsAsked(f, i, k)

FunctionsAsAsked == Tidy => InAskedOrder(fns)

IInv ==
    /\ TypeOK
    /\ Phases
    /\ CallbacksStand
    /\ ConstraintsLast
    /\ InOrder
    /\ TurnsAreSorted
    /\ GuardsPlaced
    /\ TidyPlacing
    /\ FunctionsAsAsked
    /\ OneHandlerPerName
    /\ LatestHandlerRuns
    /\ GuardHolds

-----------------------------------------------------------------------------
(* What a step of sortCallback does *)

\* Constraints may change, by notes that name callbacks; nothing else does,
\* and a note of a Before overwrites none.
Noted ==
    /\ callbacks' \in Seq(Callback) /\ Len(callbacks') = Len(callbacks)
    /\ \A m \in 1 .. Len(callbacks) :
          LET c == callbacks[m]  d == callbacks'[m] IN
          /\ d.name = c.name /\ d.handler = c.handler
          /\ d.before = c.before \/ (c.before = Unset /\ d.before \in Names)
          /\ d.after = c.after \/ d.after \in Names

\* A name of a callback that has not been sorted may be.
Grown ==
    \/ sorted' = sorted
    \/ \E m \in 1 .. Len(callbacks), i \in 1 .. Len(sorted) + 1 :
          /\ ~Has(sorted, callbacks[m].name)
          /\ sorted' = InsertAt(sorted, i, callbacks[m].name)

\* The stack changes at its top.
Works ==
    /\ stack' \in Seq(Frame)
    /\ Len(stack') <= Len(callbacks) + 1
    /\ \A f \in 1 .. Len(stack') : stack'[f].of \in 1 .. Len(callbacks)
    /\ stack' # << >> => stack'[1].of = stack[1].of
    /\ stack' # << >> /\ Len(stack) > 1 => stack'[1] = stack[1]
    /\ stack' = << >> => Len(stack) = 1 /\ Has(sorted', callbacks[turn].name)

Moves ==
    /\ status = "placing" /\ stack # << >>
    /\ Noted /\ Grown /\ Works
    /\ UNCHANGED <<fns, status, turn, asked>>

\* The callbacks and how many there are.
LEMMA CallbackTypes ==
    ASSUME TypeOK, Phases
    PROVE  /\ \A m \in 1 .. Len(callbacks) :
                 /\ callbacks[m] \in Callback
                 /\ callbacks[m].name \in Names
                 /\ callbacks[m].handler \in 1 .. MaxOps
           /\ Len(callbacks) \in Nat /\ Len(callbacks) <= MaxOps
           /\ \A m \in 1 .. Len(callbacks) : m \in 1 .. MaxOps
<1>1. callbacks \in Seq(Callback) /\ Len(callbacks) <= MaxOps /\ Len(callbacks) \in Nat
  BY MaxOpsAssumption DEF TypeOK, Phases, Calls
<1>2. ASSUME NEW m \in 1 .. Len(callbacks) PROVE callbacks[m] \in Callback
  BY <1>1
<1>3. \A m \in 1 .. Len(callbacks) :
         callbacks[m] \in Callback /\ callbacks[m].name \in Names
           /\ callbacks[m].handler \in 1 .. MaxOps
  BY <1>2 DEF Callback
<1> QED
  BY <1>1, <1>3, MaxOpsAssumption

\* A callback notes that another one is to be after it ...
LEMMA NotingAfter ==
    ASSUME TypeOK, Phases, NEW t \in 1 .. Len(callbacks), NEW n \in Names,
           callbacks' = [callbacks EXCEPT ![t].after = n]
    PROVE  Noted
<1>1. callbacks \in Seq(Callback)
  BY DEF TypeOK
<1>2. [callbacks[t] EXCEPT !.after = n] \in Callback
  <2>1. callbacks[t] \in Callback
    BY <1>1
  <2> QED
    BY <2>1 DEF Callback, Constraint
<1>3. callbacks' = [callbacks EXCEPT ![t] = [callbacks[t] EXCEPT !.after = n]]
  OBVIOUS
<1>4. callbacks' \in Seq(Callback) /\ Len(callbacks') = Len(callbacks)
  BY <1>1, <1>2, <1>3
<1>5. ASSUME NEW m \in 1 .. Len(callbacks)
      PROVE  callbacks'[m] = IF m = t THEN [callbacks[t] EXCEPT !.after = n] ELSE callbacks[m]
  BY <1>1, <1>3
<1>6. ASSUME NEW m \in 1 .. Len(callbacks) PROVE callbacks[m] \in Callback
  BY <1>1
<1> QED
  BY <1>4, <1>5, <1>6 DEF Noted, Callback

\* ... or before it, unless it has such a note.
LEMMA NotingBefore ==
    ASSUME TypeOK, Phases, NEW t \in 1 .. Len(callbacks), NEW n \in Names,
           callbacks' = [callbacks EXCEPT ![t].before = IF @ = Unset THEN n ELSE @]
    PROVE  Noted
<1> DEFINE d == [callbacks[t] EXCEPT !.before = IF @ = Unset THEN n ELSE @]
<1>1. callbacks \in Seq(Callback)
  BY DEF TypeOK
<1>2. d \in Callback
  <2>1. callbacks[t] \in Callback
    BY <1>1
  <2> QED
    BY <2>1 DEF Callback, Constraint
<1>3. callbacks' = [callbacks EXCEPT ![t] = d]
  OBVIOUS
<1>4. callbacks' \in Seq(Callback) /\ Len(callbacks') = Len(callbacks)
  BY <1>1, <1>2, <1>3
<1>5. ASSUME NEW m \in 1 .. Len(callbacks)
      PROVE  callbacks'[m] = IF m = t THEN d ELSE callbacks[m]
  BY <1>1, <1>3
<1>6. ASSUME NEW m \in 1 .. Len(callbacks) PROVE callbacks[m] \in Callback
  BY <1>1
<1> QED
  BY <1>4, <1>5, <1>6 DEF Noted, Callback

\* Or there is no note.
LEMMA NotingNothing ==
    ASSUME TypeOK, Phases, UNCHANGED callbacks
    PROVE  Noted
BY DEF Noted, TypeOK

\* The frame on top, when there is one.
LEMMA TopOfStack ==
    ASSUME TypeOK, Phases, stack # << >>
    PROVE  /\ Len(stack) \in Nat /\ Len(stack) >= 1
           /\ Top = stack[Len(stack)] /\ Top \in Frame
           /\ Top.of \in 1 .. Len(callbacks)
           /\ Current = callbacks[Top.of] /\ Current \in Callback
           /\ Current.name \in Names
           /\ \E m \in 1 .. Len(callbacks) : Current.name = callbacks[m].name
           /\ turn \in 1 .. Len(callbacks)
           /\ Len(stack) = 1 => Current = callbacks[turn] /\ Top.of = turn
<1>1. stack \in Seq(Frame) /\ Len(stack) \in Nat /\ Len(stack) >= 1
  BY DEF TypeOK
<1>2. Top = stack[Len(stack)] /\ Top \in Frame /\ Top.of \in 1 .. Len(callbacks)
  BY <1>1 DEF Phases, Top
<1>3. stack[1].of = turn /\ turn \in 1 .. Len(callbacks)
  BY <1>1 DEF Phases
<1>4. Current = callbacks[Top.of] /\ Current \in Callback
  BY <1>2 DEF Current, TypeOK
<1> QED
  BY <1>1, <1>2, <1>3, <1>4 DEF Callback

\* The same frames, the one on top at another point.
LEMMA Retop ==
    ASSUME TypeOK, Phases, stack # << >>,
           NEW point \in {"before", "after", "again", "append"}
    PROVE  LET s == [stack EXCEPT ![Len(stack)].at = point] IN
           /\ s \in Seq(Frame) /\ Len(s) = Len(stack)
           /\ \A f \in 1 .. Len(stack) :
                 /\ s[f].of = stack[f].of
                 /\ s[f].at = IF f = Len(stack) THEN point ELSE stack[f].at
                 /\ f # Len(stack) => s[f] = stack[f]
<1> DEFINE n == Len(stack)
           g == [stack[n] EXCEPT !.at = point]
           s == [stack EXCEPT ![n] = g]
<1>1. stack \in Seq(Frame) /\ n \in 1 .. Len(stack)
  BY DEF TypeOK
<1>2. stack[n] \in Frame
  BY <1>1
<1>3. g \in Frame /\ g.of = stack[n].of /\ g.at = point
  BY <1>2 DEF Frame
<1>4. s \in Seq(Frame) /\ Len(s) = Len(stack)
  BY <1>1, <1>3
<1>5. \A f \in 1 .. Len(stack) : s[f] = IF f = n THEN g ELSE stack[f]
  BY <1>1
<1>6. [stack EXCEPT ![Len(stack)].at = point] = s
  OBVIOUS
<1> HIDE DEF s, g
<1> QED
  BY <1>1, <1>3, <1>4, <1>5, <1>6

\* Going on to another point changes the top of the stack alone.
LEMMA ProceedWorks ==
    ASSUME TypeOK, Phases, status = "placing", stack # << >>,
           NEW point \in {"before", "after", "again", "append"}, NEW names,
           Proceed(point, names)
    PROVE  /\ Works /\ UNCHANGED <<fns, status, turn, asked>> /\ sorted' = names
           /\ stack' # << >> /\ Len(stack') = Len(stack)
           /\ Len(stack) = 1 => stack'[1].at = point
<1>1. stack' = [stack EXCEPT ![Len(stack)].at = point]
  BY DEF Proceed
<1>2. /\ stack' \in Seq(Frame) /\ Len(stack') = Len(stack)
      /\ \A f \in 1 .. Len(stack) :
            /\ stack'[f].of = stack[f].of
            /\ stack'[f].at = IF f = Len(stack) THEN point ELSE stack[f].at
            /\ f # Len(stack) => stack'[f] = stack[f]
  BY <1>1, Retop, Zenon
<1>3. Len(stack) \in Nat /\ Len(stack) >= 1 /\ Len(stack) <= Len(callbacks) + 1
  BY TopOfStack DEF TypeOK
<1>4. stack' # << >>
  BY <1>2, <1>3
<1>5. \A f \in 1 .. Len(stack) : stack[f].of \in 1 .. Len(callbacks)
  BY DEF Phases
<1>6. Works
  BY <1>2, <1>3, <1>4, <1>5 DEF Works
<1> QED
  BY <1>2, <1>3, <1>4, <1>6 DEF Proceed

\* So does a call of sortCallback for another callback.
LEMMA CallForWorks ==
    ASSUME TypeOK, Phases, status = "placing", stack # << >>,
           NEW point \in {"again", "append"}, NEW t \in 1 .. Len(callbacks),
           Len(stack) <= Len(callbacks), CallFor(t, point)
    PROVE  Works /\ stack' # << >> /\ Len(stack') = Len(stack) + 1
<1> DEFINE s == [stack EXCEPT ![Len(stack)].at = point]
           g == [of |-> t, at |-> "before"]
<1>1. /\ s \in Seq(Frame) /\ Len(s) = Len(stack)
      /\ \A f \in 1 .. Len(stack) :
            /\ s[f].of = stack[f].of
            /\ f # Len(stack) => s[f] = stack[f]
  BY Retop, Zenon
<1>2. g \in Frame
  BY CallbackTypes DEF Frame
<1>3. stack' = Append(s, g)
  BY DEF CallFor
<1>4. Len(stack) \in Nat /\ Len(stack) >= 1
  BY TopOfStack
<1>5. \A f \in 1 .. Len(stack) : stack[f].of \in 1 .. Len(callbacks)
  BY DEF Phases
<1> HIDE DEF s
<1>6. /\ stack' \in Seq(Frame) /\ Len(stack') = Len(stack) + 1
      /\ stack'[Len(stack) + 1] = g
      /\ \A f \in 1 .. Len(stack) : stack'[f] = s[f]
  BY <1>1, <1>2, <1>3, <1>4
<1>7. \A f \in 1 .. Len(stack') : stack'[f].of \in 1 .. Len(callbacks)
  BY <1>1, <1>4, <1>5, <1>6
<1>8. stack' # << >> /\ stack'[1].of = stack[1].of
  BY <1>1, <1>4, <1>6
<1>9. Len(stack) > 1 => stack'[1] = stack[1]
  BY <1>1, <1>4, <1>6
<1>10. Len(callbacks) \in Nat
  BY CallbackTypes
<1> QED
  BY <1>4, <1>6, <1>7, <1>8, <1>9, <1>10 DEF Works

\* Where sortCallback puts a name that is not sorted yet.
LEMMA Growing ==
    ASSUME TypeOK, Phases, stack # << >>, NEW i \in 1 .. Len(sorted) + 1,
           RIndex(sorted, Current.name) = 0,
           sorted' = InsertAt(sorted, i, Current.name)
    PROVE  Grown
<1>1. PICK m \in 1 .. Len(callbacks) : Current.name = callbacks[m].name
  BY TopOfStack
<1>2. sorted \in Seq(Names)
  BY DEF TypeOK
<1>3. ~Has(sorted, Current.name)
  BY <1>2, RIndexFinds
<1> QED
  BY <1>1, <1>3 DEF Grown

\* The same at the end.
LEMMA GrowingAtEnd ==
    ASSUME TypeOK, Phases, stack # << >>,
           RIndex(sorted, Current.name) = 0,
           sorted' = Append(sorted, Current.name)
    PROVE  Grown
<1>1. sorted \in Seq(Names) /\ Current.name \in Names
  BY TopOfStack DEF TypeOK
<1>2. sorted' = InsertAt(sorted, Len(sorted) + 1, Current.name)
  BY <1>1, AppendIsInsertion
<1>3. Len(sorted) + 1 \in 1 .. Len(sorted) + 1
  BY <1>1
<1> QED
  BY <1>2, <1>3, Growing

\* A compilation that fails.
Ends == Settle("conflict", << >>) \/ Settle("overflow", fns)

\* Each of the steps moves on, or ends the compilation.
LEMMA PlaceBeforeMoves ==
    ASSUME TypeOK, Phases, PlaceBefore
    PROVE  (Moves /\ (Len(stack) = 1 => stack' # << >> /\ stack'[1].at = "after")) \/ Ends
<1> DEFINE c == Current
           at == IF c.before = Star /\ sorted # << >> THEN 1 ELSE RIndex(sorted, c.before)
           own == RIndex(sorted, c.name)
           target == RIndex(NamesOf(callbacks), c.before)
<1>1. status = "placing" /\ stack # << >> /\ Top.at = "before"
  BY DEF PlaceBefore, At
<1>2. sorted \in Seq(Names) /\ c.name \in Names
  BY <1>1, TopOfStack DEF TypeOK
<1>3. at # 0 => at \in 1 .. Len(sorted) + 1
  BY <1>2, RIndexFinds
<1> DEFINE After == UNCHANGED <<fns, status, turn, asked>> /\ Works
                      /\ (Len(stack) = 1 => stack' # << >> /\ stack'[1].at = "after")
<1>4. \A names : Proceed("after", names) => After /\ sorted' = names
  BY <1>1, ProceedWorks
<1>5. \/ at # 0 /\ own = 0 /\ Proceed("after", InsertAt(sorted, at, c.name)) /\ UNCHANGED callbacks
      \/ Settle("conflict", << >>)
      \/ /\ target # 0
         /\ callbacks' = [callbacks EXCEPT ![target].after = c.name]
         /\ Proceed("after", sorted)
      \/ Proceed("after", sorted) /\ UNCHANGED callbacks
  BY Zenon DEF PlaceBefore
<1>6. NamesOf(callbacks) \in Seq(Names) /\ Len(NamesOf(callbacks)) = Len(callbacks)
  BY CallbackTypes DEF NamesOf
<1>7. target # 0 => target \in 1 .. Len(callbacks)
  BY <1>6, RIndexFinds
<1> HIDE DEF at, target, After
<1>8. CASE at # 0 /\ own = 0 /\ Proceed("after", InsertAt(sorted, at, c.name)) /\ UNCHANGED callbacks
  <2>1. After /\ sorted' = InsertAt(sorted, at, c.name)
    BY <1>4, <1>8
  <2>2. Grown
    BY <1>1, <1>3, <1>8, <2>1, Growing
  <2>3. Noted
    BY <1>8, NotingNothing
  <2> QED
    BY <1>1, <2>1, <2>2, <2>3 DEF Moves, After
<1>9. CASE Settle("conflict", << >>)
  BY <1>9 DEF Ends
<1>10. CASE /\ target # 0
            /\ callbacks' = [callbacks EXCEPT ![target].after = c.name]
            /\ Proceed("after", sorted)
  <2>1. After /\ sorted' = sorted
    BY <1>4, <1>10
  <2>2. Noted
    BY <1>2, <1>7, <1>10, NotingAfter
  <2> QED
    BY <1>1, <2>1, <2>2 DEF Moves, Grown, After
<1>11. CASE Proceed("after", sorted) /\ UNCHANGED callbacks
  <2>1. After /\ sorted' = sorted
    BY <1>4, <1>11
  <2>2. Noted
    BY <1>11, NotingNothing
  <2> QED
    BY <1>1, <2>1, <2>2 DEF Moves, Grown, After
<1> QED
  BY <1>5, <1>8, <1>9, <1>10, <1>11

\* "After" ...
LEMMA PlaceAfterMoves ==
    ASSUME TypeOK, Phases, PlaceAfter
    PROVE  Moves \/ Ends
<1> DEFINE c == Current
           own == RIndex(sorted, c.name)
           target == RIndex(NamesOf(callbacks), c.after)
<1>1. status = "placing" /\ stack # << >> /\ Top.at = "after"
  BY DEF PlaceAfter, At
<1>2. sorted \in Seq(Names) /\ c.name \in Names
  BY <1>1, TopOfStack DEF TypeOK
<1> DEFINE After == UNCHANGED <<fns, status, turn, asked>> /\ Works
<1>4. \A names : Proceed("append", names) => After /\ sorted' = names
  BY <1>1, ProceedWorks
<1>5. \/ own = 0 /\ Proceed("append", Append(sorted, c.name)) /\ UNCHANGED callbacks
      \/ Settle("conflict", << >>)
      \/ Settle("overflow", fns)
      \/ /\ target # 0 /\ ~(Len(stack) > Len(callbacks))
         /\ callbacks' = [callbacks EXCEPT ![target].before = IF @ = Unset THEN c.name ELSE @]
         /\ CallFor(target, "again")
         /\ UNCHANGED <<fns, status, turn, sorted, asked>>
      \/ Proceed("append", sorted) /\ UNCHANGED callbacks
  BY Zenon DEF PlaceAfter
<1>6. NamesOf(callbacks) \in Seq(Names) /\ Len(NamesOf(callbacks)) = Len(callbacks)
  BY CallbackTypes DEF NamesOf
<1>7. target # 0 => target \in 1 .. Len(callbacks)
  BY <1>6, RIndexFinds
<1> HIDE DEF target, After
<1>8. CASE own = 0 /\ Proceed("append", Append(sorted, c.name)) /\ UNCHANGED callbacks
  <2>1. After /\ sorted' = Append(sorted, c.name)
    BY <1>4, <1>8
  <2>2. Grown
    BY <1>1, <1>8, <2>1, GrowingAtEnd
  <2>3. Noted
    BY <1>8, NotingNothing
  <2> QED
    BY <1>1, <2>1, <2>2, <2>3 DEF Moves, After
<1>9. CASE Settle("conflict", << >>) \/ Settle("overflow", fns)
  BY <1>9 DEF Ends
<1>10. CASE /\ target # 0 /\ ~(Len(stack) > Len(callbacks))
            /\ callbacks' = [callbacks EXCEPT ![target].before = IF @ = Unset THEN c.name ELSE @]
            /\ CallFor(target, "again")
            /\ UNCHANGED <<fns, status, turn, sorted, asked>>
  <2>1. Len(stack) <= Len(callbacks)
    BY <1>1, <1>10, TopOfStack, CallbackTypes
  <2>2. Works
    BY <1>1, <1>7, <1>10, <2>1, CallForWorks
  <2>3. Noted
    BY <1>2, <1>7, <1>10, NotingBefore
  <2> QED
    BY <1>1, <1>10, <2>2, <2>3 DEF Moves, Grown
<1>11. CASE Proceed("append", sorted) /\ UNCHANGED callbacks
  <2>1. After /\ sorted' = sorted
    BY <1>4, <1>11
  <2>2. Noted
    BY <1>11, NotingNothing
  <2> QED
    BY <1>1, <2>1, <2>2 DEF Moves, Grown, After
<1> QED
  BY <1>5, <1>8, <1>9, <1>10, <1>11

\* ... the second call for the same callback ...
LEMMA PlaceAgainMoves ==
    ASSUME TypeOK, Phases, PlaceAgain
    PROVE  Moves \/ Ends
<1>1. status = "placing" /\ stack # << >>
  BY DEF PlaceAgain, At
<1>2. CASE Len(stack) > Len(callbacks)
  BY <1>2 DEF PlaceAgain, Ends
<1>3. CASE ~(Len(stack) > Len(callbacks))
  <2>1. CallFor(Top.of, "append") /\ UNCHANGED <<callbacks, fns, status, turn, sorted, asked>>
    BY <1>3 DEF PlaceAgain
  <2>2. Len(stack) <= Len(callbacks) /\ Top.of \in 1 .. Len(callbacks)
    BY <1>1, <1>3, TopOfStack, CallbackTypes
  <2>3. Works
    BY <1>1, <2>1, <2>2, CallForWorks
  <2>4. Noted
    BY <2>1, NotingNothing
  <2> QED
    BY <1>1, <2>1, <2>3, <2>4 DEF Moves, Grown
<1> QED
  BY <1>2, <1>3

\* ... and the return, which never ends it.
LEMMA ReturnMoves ==
    ASSUME TypeOK, Phases, Return
    PROVE  Moves
<1>1. status = "placing" /\ stack # << >> /\ UNCHANGED <<callbacks, fns, status, turn, asked>>
  BY DEF Return, At
<1>2. sorted \in Seq(Names) /\ Current.name \in Names
  BY <1>1, TopOfStack DEF TypeOK
<1>3. stack \in Seq(Frame) /\ Len(stack) \in Nat /\ Len(stack) >= 1
      /\ Len(stack) <= Len(callbacks) + 1 /\ Len(callbacks) \in Nat
  BY <1>1, TopOfStack, CallbackTypes DEF TypeOK
<1>4. stack' = SubSeq(stack, 1, Len(stack) - 1)
  BY DEF Return
<1>5. /\ stack' \in Seq(Frame) /\ Len(stack') = Len(stack) - 1
      /\ \A f \in 1 .. Len(stack) - 1 : stack'[f] = stack[f]
  <2> DEFINE n == Len(stack) - 1
  <2>1. n \in Int /\ 1 \in Int /\ \A i \in 1 .. n : stack[i] \in Frame
    BY <1>3
  <2>2. /\ SubSeq(stack, 1, n) \in Seq(Frame)
        /\ Len(SubSeq(stack, 1, n)) = IF 1 <= n THEN n - 1 + 1 ELSE 0
        /\ \A i \in 1 .. n - 1 + 1 : SubSeq(stack, 1, n)[i] = stack[1 + i - 1]
    <3> HIDE DEF n
    <3> QED
      BY <2>1, SubSeqProperties
  <2>3. /\ stack' \in Seq(Frame)
        /\ Len(stack') = IF 1 <= n THEN n - 1 + 1 ELSE 0
        /\ \A i \in 1 .. n - 1 + 1 : stack'[i] = stack[1 + i - 1]
    BY <1>4, <2>2, Zenon
  <2>a. n \in Int /\ n >= 0
    BY <1>3
  <2> HIDE DEF n
  <2>4. 1 <= n => n - 1 + 1 = n
    BY <2>a
  <2>5. ~(1 <= n) => n = 0
    BY <2>a
  <2>6. \A i \in 1 .. n : i \in 1 .. n - 1 + 1 /\ 1 + i - 1 = i
    BY <2>a
  <2>7. Len(stack') = n /\ \A i \in 1 .. n : stack'[i] = stack[i]
    BY <2>3, <2>4, <2>5, <2>6, Zenon
  <2> QED
    BY <2>3, <2>7, Zenon DEF n
<1>6. \A f \in 1 .. Len(stack) : stack[f].of \in 1 .. Len(callbacks)
  BY DEF Phases
<1>7. CASE RIndex(sorted, Current.name) = 0
  <2>1. sorted' = Append(sorted, Current.name)
    BY <1>7 DEF Return
  <2>2. Grown
    BY <1>1, <1>7, <2>1, GrowingAtEnd
  <2>3. Has(sorted', Current.name)
    <3>1. Len(sorted) + 1 \in 1 .. Len(sorted') /\ sorted'[Len(sorted) + 1] = Current.name
      BY <1>2, <2>1
    <3> QED
      BY <3>1 DEF Has
  <2> QED
    BY <2>2, <2>3, <1>1, <1>3, <1>5, <1>6, TopOfStack, NotingNothing DEF Moves, Works
<1>8. CASE RIndex(sorted, Current.name) # 0
  <2>1. sorted' = sorted
    BY <1>8 DEF Return
  <2>2. Has(sorted', Current.name)
    BY <1>2, <1>8, <2>1, RIndexFinds
  <2> QED
    BY <2>1, <2>2, <1>1, <1>3, <1>5, <1>6, TopOfStack, NotingNothing DEF Moves, Works, Grown
<1> QED
  BY <1>7, <1>8

-----------------------------------------------------------------------------
(* Steps of sortCallback keep the invariant *)

\* The names stay distinct, and in the order they have.
LEMMA GrownKeeps ==
    ASSUME TypeOK, Phases, Distinct(sorted), Grown
    PROVE  /\ sorted' \in Seq(Names) /\ Distinct(sorted')
           /\ \A x : Has(sorted, x) => Has(sorted', x)
           /\ \A x : Has(sorted', x) => \/ Has(sorted, x)
                                        \/ \E m \in 1 .. Len(callbacks) : callbacks[m].name = x
           /\ \A x, y : Prec(sorted, x, y) => Prec(sorted', x, y)
<1>1. sorted \in Seq(Names)
  BY DEF TypeOK
<1>2. CASE sorted' = sorted
  BY <1>1, <1>2
<1>3. CASE \E m \in 1 .. Len(callbacks), i \in 1 .. Len(sorted) + 1 :
              /\ ~Has(sorted, callbacks[m].name)
              /\ sorted' = InsertAt(sorted, i, callbacks[m].name)
  <2>1. PICK m \in 1 .. Len(callbacks), i \in 1 .. Len(sorted) + 1 :
            /\ ~Has(sorted, callbacks[m].name)
            /\ sorted' = InsertAt(sorted, i, callbacks[m].name)
    BY <1>3
  <2>2. callbacks[m].name \in Names
    BY CallbackTypes
  <2>3. sorted' \in Seq(Names)
    BY <1>1, <2>1, <2>2, Inserted
  <2>4. /\ Distinct(sorted')
        /\ \A x : Has(sorted', x) <=> Has(sorted, x) \/ x = callbacks[m].name
        /\ \A x, y : Prec(sorted, x, y) => Prec(sorted', x, y)
    BY <1>1, <2>1, <2>2, InsertionKeeps
  <2> QED
    BY <2>3, <2>4
<1> QED
  BY <1>2, <1>3 DEF Grown

\* Without a call, what stands is the same.
LEMMA StandingAsIs ==
    ASSUME UNCHANGED asked
    PROVE  Standing' = Standing /\ (Tidy' <=> Tidy) /\ (NoStar' <=> NoStar)
BY DEF Standing, Removed, Tidy, NoStar

\* Notes change neither whose the callbacks are nor what they asked for.
LEMMA NotedKeeps ==
    ASSUME TypeOK, Phases, CallbacksStand, ConstraintsLast, InOrder,
           Noted, UNCHANGED asked
    PROVE  CallbacksStand' /\ ConstraintsLast' /\ InOrder'
<1>1. Standing' = Standing
  BY StandingAsIs
<1>2. \A m \in 1 .. Len(callbacks) :
         /\ callbacks'[m].name = callbacks[m].name
         /\ callbacks'[m].handler = callbacks[m].handler
         /\ Asked(m)' = Asked(m)
  BY DEF Noted, Asked
<1>3. Len(callbacks') = Len(callbacks)
  BY DEF Noted
<1>4. CallbacksStand'
  BY <1>1, <1>2, <1>3 DEF CallbacksStand
<1>5. InOrder'
  BY <1>2, <1>3 DEF InOrder
<1>6. ConstraintsLast'
  <2> SUFFICES ASSUME NEW m \in 1 .. Len(callbacks)
               PROVE  /\ callbacks'[m].before = Star => Asked(m).before = Star
                      /\ callbacks'[m].after = Star => Asked(m).after = Star
                      /\ Asked(m).before # Unset => callbacks'[m].before = Asked(m).before
    BY <1>2, <1>3 DEF ConstraintsLast
  <2>1. /\ callbacks[m].before = Star => Asked(m).before = Star
        /\ callbacks[m].after = Star => Asked(m).after = Star
        /\ Asked(m).before # Unset => callbacks[m].before = Asked(m).before
    BY DEF ConstraintsLast
  <2>2. /\ callbacks'[m].before = callbacks[m].before
              \/ (callbacks[m].before = Unset /\ callbacks'[m].before \in Names)
        /\ callbacks'[m].after = callbacks[m].after \/ callbacks'[m].after \in Names
    BY DEF Noted
  <2> QED
    BY <2>1, <2>2, NamesAssumption
<1> QED
  BY <1>4, <1>5, <1>6

\* A step of sortCallback keeps all but the last part of the invariant.
LEMMA MovesKeep ==
    ASSUME TypeOK, Phases, CallbacksStand, ConstraintsLast, InOrder, TurnsAreSorted,
           Moves
    PROVE  /\ TypeOK' /\ Phases' /\ CallbacksStand' /\ ConstraintsLast'
           /\ InOrder' /\ TurnsAreSorted'
<1>1. /\ status = "placing" /\ stack # << >> /\ Noted /\ Grown /\ Works
      /\ UNCHANGED <<fns, status, turn, asked>>
  BY DEF Moves
<1>2. /\ Len(callbacks') = Len(callbacks) /\ callbacks' \in Seq(Callback)
      /\ \A m \in 1 .. Len(callbacks) : callbacks'[m].name = callbacks[m].name
  BY <1>1 DEF Noted
<1>3. /\ sorted' \in Seq(Names) /\ Distinct(sorted')
      /\ \A x : Has(sorted, x) => Has(sorted', x)
      /\ \A x : Has(sorted', x) => \/ Has(sorted, x)
                                   \/ \E m \in 1 .. Len(callbacks) : callbacks[m].name = x
  BY <1>1, GrownKeeps DEF TurnsAreSorted
<1>4. TypeOK'
  BY <1>1, <1>2, <1>3 DEF TypeOK, Works
<1>5. Phases'
  BY <1>1, <1>2 DEF Phases, Works
<1>6. TurnsAreSorted'
  <2>1. ASSUME NEW k \in 1 .. Len(sorted')
        PROVE  \E m \in 1 .. Len(callbacks') : callbacks'[m].name = sorted'[k]
    <3>1. Has(sorted', sorted'[k])
      BY DEF Has
    <3>2. CASE Has(sorted, sorted'[k])
      <4>1. PICK j \in 1 .. Len(sorted) : sorted[j] = sorted'[k]
        BY <3>2 DEF Has
      <4> QED
        BY <1>2, <4>1 DEF TurnsAreSorted
    <3> QED
      BY <1>2, <1>3, <3>1, <3>2
  <2>2. ASSUME NEW m \in 1 .. turn
        PROVE  Has(sorted', callbacks'[m].name) \/ (stack' # << >> /\ m = turn)
    <3>1. m \in 1 .. Len(callbacks)
      BY <1>1, TopOfStack, CallbackTypes
    <3>2. Has(sorted, callbacks[m].name) \/ m = turn
      BY <1>1 DEF TurnsAreSorted
    <3>3. stack' = << >> => Has(sorted', callbacks[turn].name)
      BY <1>1 DEF Works
    <3> QED
      BY <1>2, <1>3, <3>1, <3>2, <3>3
  <2> QED
    BY <1>1, <1>3, <2>1, <2>2 DEF TurnsAreSorted
<1> QED
  BY <1>1, <1>4, <1>5, <1>6, NotedKeeps

\* The pairs that were in place stay there; others come in place only at the
\* bottom of the stack.
LEMMA MovesKeepGuards ==
    ASSUME TypeOK, Phases, TurnsAreSorted, GuardsPlaced, Moves,
           stack[1].at = "before" /\ Len(stack) = 1 =>
               \A q \in 1 .. turn - 1 :
                   Asked(turn).before = callbacks[q].name
                     /\ callbacks[turn].name # callbacks[q].name
                   => \/ Prec(sorted', callbacks[turn].name, callbacks[q].name)
                      \/ stack' # << >> /\ stack'[1].at = "before"
    PROVE  GuardsPlaced'
<1>1. /\ status = "placing" /\ stack # << >> /\ Noted /\ Grown /\ Works
      /\ UNCHANGED <<fns, status, turn, asked>>
  BY DEF Moves
<1>2. /\ Len(callbacks') = Len(callbacks)
      /\ \A m \in 1 .. Len(callbacks) : callbacks'[m].name = callbacks[m].name
                                          /\ Asked(m)' = Asked(m)
  BY <1>1 DEF Noted, Asked
<1>3. turn \in 1 .. Len(callbacks) /\ Len(stack) \in Nat /\ Len(stack) >= 1
      /\ Len(callbacks) \in Nat
  BY <1>1, TopOfStack, CallbackTypes
<1>4. \A x, y : Prec(sorted, x, y) => Prec(sorted', x, y)
  BY <1>1, GrownKeeps DEF TurnsAreSorted
<1>5. \A m \in 1 .. turn : m \in 1 .. Len(callbacks)
  BY <1>3
<1>6. Len(stack) = 1 \/ (Len(stack) # 1 /\ Len(stack) > 1)
  <2> DEFINE depth == Len(stack)
  <2>1. depth \in Nat /\ depth >= 1
    BY <1>3
  <2> HIDE DEF depth
  <2>2. depth = 1 \/ (depth # 1 /\ depth > 1)
    BY <2>1
  <2> QED
    BY <2>2, Zenon DEF depth
<1>9. Len(stack) # 1 => stack' # << >> /\ stack'[1] = stack[1]
  BY <1>1, <1>6, Zenon DEF Works
<1> SUFFICES ASSUME NEW p \in 1 .. turn, NEW q \in 1 .. turn, q < p,
                    Asked(p).before = callbacks[q].name,
                    callbacks[p].name # callbacks[q].name,
                    ~(stack' # << >> /\ p = turn /\ stack'[1].at = "before")
             PROVE  Prec(sorted', callbacks[p].name, callbacks[q].name)
  BY <1>1, <1>2, <1>5 DEF GuardsPlaced
<1>7. CASE ~(p = turn /\ stack[1].at = "before")
  <2>1. Prec(sorted, callbacks[p].name, callbacks[q].name)
    BY <1>1, <1>7 DEF GuardsPlaced
  <2> QED
    BY <1>4, <2>1
<1>8. CASE p = turn /\ stack[1].at = "before"
  <2>1. Len(stack) = 1
    BY <1>8, <1>9, Zenon
  <2>2. q \in 1 .. turn - 1
    BY <1>3, <1>8
  <2> QED
    BY <1>8, <2>1, <2>2
<1> QED
  BY <1>7, <1>8

\* Before is obeyed at the bottom of the stack.
LEMMA PlaceBeforeGuards ==
    ASSUME TypeOK, Phases, CallbacksStand, ConstraintsLast, TurnsAreSorted,
           PlaceBefore, ~Ends, Len(stack) = 1, NEW q \in 1 .. turn - 1,
           Asked(turn).before = callbacks[q].name,
           callbacks[turn].name # callbacks[q].name
    PROVE  Prec(sorted', callbacks[turn].name, callbacks[q].name)
<1> DEFINE c == Current
           at == RIndex(sorted, c.before)
           own == RIndex(sorted, c.name)
<1>1. status = "placing" /\ stack # << >>
  BY DEF PlaceBefore, At
<1>2. /\ turn \in 1 .. Len(callbacks) /\ c = callbacks[turn]
      /\ sorted \in Seq(Names) /\ c.name \in Names /\ Len(callbacks) \in Nat
  BY <1>1, TopOfStack, CallbackTypes DEF TypeOK
<1>3. q \in 1 .. Len(callbacks) /\ q \in 1 .. turn /\ q # turn
  BY <1>2
<1>4. callbacks[q].name \in Names
  BY <1>3, CallbackTypes
<1>5. c.before = callbacks[q].name /\ c.before # Star
  BY <1>2, <1>4, NamesAssumption DEF ConstraintsLast
<1>6. Has(sorted, c.before)
  BY <1>1, <1>3, <1>5 DEF TurnsAreSorted
<1>7. at \in 1 .. Len(sorted) /\ sorted[at] = c.before
  BY <1>2, <1>6, RIndexFinds
<1>8. own # 0 => own \in 1 .. Len(sorted) /\ sorted[own] = c.name
  BY <1>2, RIndexFinds
<1>9. \/ own = 0 /\ Proceed("after", InsertAt(sorted, at, c.name))
      \/ at # 0 /\ own > at /\ c.before # Star /\ Settle("conflict", << >>)
      \/ at = 0
      \/ own # 0 /\ (own <= at \/ c.before = Star) /\ Proceed("after", sorted)
  BY <1>5, Zenon DEF PlaceBefore
<1> HIDE DEF at, own
<1>10. CASE own = 0 /\ Proceed("after", InsertAt(sorted, at, c.name))
  <2>1. sorted' = InsertAt(sorted, at, c.name) /\ at \in 1 .. Len(sorted) + 1
    BY <1>7, <1>10 DEF Proceed
  <2>2. ~Has(sorted, c.name) /\ Distinct(sorted)
    BY <1>2, <1>10, RIndexFinds DEF own, TurnsAreSorted
  <2>3. Prec(InsertAt(sorted, at, c.name), c.name, c.before)
          <=> at <= Len(sorted) /\ (sorted[at] = c.before \/ Prec(sorted, sorted[at], c.before))
    BY <1>2, <1>6, <2>1, <2>2, InsertedComesBefore
  <2> QED
    BY <1>2, <1>5, <1>7, <2>1, <2>3
<1>11. CASE own # 0 /\ (own <= at \/ c.before = Star) /\ Proceed("after", sorted)
  <2>1. sorted' = sorted /\ own <= at
    BY <1>5, <1>11 DEF Proceed
  <2>2. own # at
    BY <1>2, <1>5, <1>7, <1>8, <1>11
  <2>3. Prec(sorted, c.name, c.before)
    BY <1>7, <1>8, <1>11, <2>1, <2>2 DEF Prec
  <2> QED
    BY <1>2, <1>5, <2>1, <2>3
<1> QED
  BY <1>7, <1>9, <1>10, <1>11 DEF Ends

-----------------------------------------------------------------------------
(* The other steps *)

\* What does not depend on tidy calls.
Placing ==
    /\ TypeOK /\ Phases /\ CallbacksStand /\ ConstraintsLast /\ InOrder
    /\ TurnsAreSorted /\ GuardsPlaced

\* The next callback has its turn ...
LEMMA BeginKeeps ==
    ASSUME Placing, Begin
    PROVE  Placing'
<1> USE DEF Placing
<1>1. /\ status = "placing" /\ stack = << >> /\ turn < Len(callbacks)
      /\ turn' = turn + 1 /\ stack' = <<[of |-> turn + 1, at |-> "before"]>>
      /\ UNCHANGED <<callbacks, fns, status, sorted, asked>>
  BY DEF Begin
<1>2. turn \in Nat /\ Len(callbacks) \in Nat /\ turn + 1 \in 1 .. Len(callbacks)
      /\ turn + 1 \in 1 .. MaxOps
  BY <1>1, CallbackTypes DEF TypeOK
<1>3. [of |-> turn + 1, at |-> "before"] \in Frame
  BY <1>2 DEF Frame
<1>4. stack' \in Seq(Frame) /\ Len(stack') = 1 /\ stack'[1].of = turn + 1
      /\ stack'[1].at = "before" /\ stack' # << >>
  BY <1>1, <1>3
<1>5. TypeOK'
  BY <1>1, <1>2, <1>4 DEF TypeOK
<1>6. Phases'
  BY <1>1, <1>2, <1>4 DEF Phases
<1>7. CallbacksStand' /\ ConstraintsLast' /\ InOrder'
  BY <1>1, NotingNothing, NotedKeeps
<1>8. TurnsAreSorted'
  <2>1. ASSUME NEW m \in 1 .. turn' PROVE Has(sorted, callbacks[m].name) \/ m = turn'
    <3>1. m \in 1 .. turn \/ m = turn'
      BY <1>1, <1>2
    <3> QED
      BY <1>1, <3>1 DEF TurnsAreSorted
  <2> QED
    BY <1>1, <1>4, <2>1 DEF TurnsAreSorted
<1>9. GuardsPlaced'
  <2> SUFFICES ASSUME NEW p \in 1 .. turn', NEW q \in 1 .. turn', q < p,
                      Asked(p).before = callbacks[q].name,
                      callbacks[p].name # callbacks[q].name,
                      p # turn'
               PROVE  Prec(sorted, callbacks[p].name, callbacks[q].name)
    BY <1>1, <1>4 DEF GuardsPlaced, Asked
  <2>1. p \in 1 .. turn /\ q \in 1 .. turn
    BY <1>1, <1>2
  <2> QED
    BY <1>1, <2>1 DEF GuardsPlaced
<1> QED
  BY <1>5, <1>6, <1>7, <1>8, <1>9

\* ... all callbacks are arranged ...
LEMMA ArrangedKeeps ==
    ASSUME Placing, Arranged
    PROVE  Placing'
<1> USE DEF Placing
<1>1. /\ status = "arranging" /\ status' = "placing" /\ turn' = 0
      /\ UNCHANGED <<callbacks, fns, sorted, stack, asked>>
  BY DEF Arranged
<1>2. sorted = << >> /\ stack = << >> /\ Len(callbacks) \in Nat
  BY <1>1, CallbackTypes DEF Phases
<1>3. TypeOK' /\ Phases'
  BY <1>1, <1>2 DEF TypeOK, Phases
<1>4. CallbacksStand' /\ ConstraintsLast' /\ InOrder'
  BY <1>1, NotingNothing, NotedKeeps
<1>5. TurnsAreSorted' /\ GuardsPlaced'
  BY <1>1 DEF TurnsAreSorted, GuardsPlaced
<1> QED
  BY <1>3, <1>4, <1>5

\* ... or the compilation ends, well or not.
LEMMA SettleKeeps ==
    ASSUME Placing, NEW how \in {"ok", "conflict", "overflow"},
           NEW functions \in Seq(1 .. MaxOps), Settle(how, functions)
    PROVE  Placing'
<1> USE DEF Placing
<1>1. /\ status' = how /\ fns' = functions /\ turn' = 0 /\ sorted' = << >> /\ stack' = << >>
      /\ UNCHANGED <<callbacks, asked>>
  BY DEF Settle
<1>2. Len(callbacks) \in Nat
  BY CallbackTypes
<1>3. TypeOK' /\ Phases'
  BY <1>1, <1>2 DEF TypeOK, Phases
<1>4. CallbacksStand' /\ ConstraintsLast' /\ InOrder'
  BY <1>1, NotingNothing, NotedKeeps
<1>5. TurnsAreSorted' /\ GuardsPlaced'
  BY <1>1 DEF TurnsAreSorted, GuardsPlaced, Distinct
<1> QED
  BY <1>3, <1>4, <1>5

\* The elements after a move to the left.
LEMMA Moved ==
    ASSUME NEW S, NEW s \in Seq(S), NEW from \in 1 .. Len(s), NEW to \in 1 .. from
    PROVE  /\ MoveTo(s, from, to) \in Seq(S) /\ Len(MoveTo(s, from, to)) = Len(s)
           /\ \A j \in 1 .. Len(s) :
                 MoveTo(s, from, to)[j] = IF j = to THEN s[from]
                                          ELSE IF to < j /\ j <= from THEN s[j - 1] ELSE s[j]
BY DEF MoveTo

\* A round of the insertion sort moves past a callback only one that asked
\* for no "*".
LEMMA ArrangeKeeps ==
    ASSUME Placing, Arrange
    PROVE  /\ Placing'
           /\ Len(callbacks') = Len(callbacks)
           /\ \A m \in 1 .. Len(callbacks) : \E k \in 1 .. Len(callbacks) :
                 callbacks'[m] = callbacks[k]
<1> USE DEF Placing
<1>1. /\ status = "arranging" /\ turn < Len(callbacks) /\ turn' = turn + 1
      /\ UNCHANGED <<fns, status, sorted, stack, asked>>
  BY DEF Arrange
<1>2. PICK stop \in 0 .. turn :
         /\ \A i \in stop + 1 .. turn : Less(callbacks[turn + 1], callbacks[i])
         /\ callbacks' = MoveTo(callbacks, turn + 1, stop + 1)
  BY DEF Arrange
<1>3. turn \in Nat /\ Len(callbacks) \in Nat /\ callbacks \in Seq(Callback)
  BY CallbackTypes DEF TypeOK
<1> DEFINE g(j) == IF j = stop + 1 THEN turn + 1
                   ELSE IF stop + 1 < j /\ j <= turn + 1 THEN j - 1 ELSE j
           h(j) == IF j = turn + 1 THEN stop + 1
                   ELSE IF stop < j /\ j <= turn THEN j + 1 ELSE j
<1>4. turn + 1 \in 1 .. Len(callbacks) /\ stop + 1 \in 1 .. turn + 1
  BY <1>1, <1>3
<1>5. /\ callbacks' \in Seq(Callback) /\ Len(callbacks') = Len(callbacks)
      /\ \A j \in 1 .. Len(callbacks) :
            callbacks'[j] = IF j = stop + 1 THEN callbacks[turn + 1]
                            ELSE IF stop + 1 < j /\ j <= turn + 1 THEN callbacks[j - 1]
                            ELSE callbacks[j]
  BY <1>2, <1>3, <1>4, Moved
<1>6. \A j \in 1 .. Len(callbacks) : g(j) \in 1 .. Len(callbacks) /\ callbacks'[j] = callbacks[g(j)]
  BY <1>3, <1>4, <1>5
<1>7. \A j \in 1 .. Len(callbacks) : h(j) \in 1 .. Len(callbacks) /\ g(h(j)) = j
  BY <1>3, <1>4
<1>8. \A m, n \in 1 .. Len(callbacks) : g(m) = g(n) => m = n
  BY <1>3, <1>4
<1>9. \A m, n \in 1 .. Len(callbacks) :
         m < n => g(m) < g(n) \/ (g(m) = turn + 1 /\ g(n) \in stop + 1 .. turn)
  BY <1>3, <1>4
<1> HIDE DEF g, h
<1>10. Standing' = Standing
  BY <1>1, StandingAsIs
<1>11. \A j \in 1 .. Len(callbacks) : Asked(j)' = Asked(g(j))
  BY <1>1, <1>6 DEF Asked
<1>12. TypeOK' /\ Phases'
  BY <1>1, <1>3, <1>5 DEF TypeOK, Phases
<1>13. CallbacksStand'
  <2>1. \A m \in 1 .. Len(callbacks) :
           callbacks'[m].handler \in Standing /\ Asked(m)'.name = callbacks'[m].name
    BY <1>6, <1>11 DEF CallbacksStand
  <2>2. \A m, n \in 1 .. Len(callbacks) :
           callbacks'[m].handler = callbacks'[n].handler => m = n
    <3> SUFFICES ASSUME NEW m \in 1 .. Len(callbacks), NEW n \in 1 .. Len(callbacks),
                        callbacks'[m].handler = callbacks'[n].handler
                 PROVE  m = n
      OBVIOUS
    <3>1. g(m) \in 1 .. Len(callbacks) /\ g(n) \in 1 .. Len(callbacks)
            /\ callbacks[g(m)].handler = callbacks[g(n)].handler
      BY <1>6
    <3>2. g(m) = g(n)
      BY <3>1 DEF CallbacksStand
    <3> QED
      BY <1>8, <3>2
  <2>3. ASSUME NEW i \in Standing PROVE \E m \in 1 .. Len(callbacks) : callbacks'[m].handler = i
    <3>1. PICK k \in 1 .. Len(callbacks) : callbacks[k].handler = i
      BY DEF CallbacksStand
    <3> QED
      BY <1>6, <1>7, <3>1
  <2> QED
    BY <1>5, <1>10, <2>1, <2>2, <2>3 DEF CallbacksStand
<1>14. ConstraintsLast'
  BY <1>5, <1>6, <1>11 DEF ConstraintsLast
<1>15. InOrder'
  <2> SUFFICES ASSUME NEW m \in 1 .. Len(callbacks), NEW n \in 1 .. Len(callbacks), m < n
               PROVE  \/ callbacks[g(m)].handler < callbacks[g(n)].handler
                      \/ Star \in {Asked(g(n)).before, Asked(g(n)).after}
    BY <1>5, <1>6, <1>11 DEF InOrder
  <2>1. CASE g(m) < g(n)
    BY <1>6, <2>1 DEF InOrder
  <2>2. CASE g(m) = turn + 1 /\ g(n) \in stop + 1 .. turn
    <3>1. Less(callbacks[turn + 1], callbacks[g(n)])
      BY <1>2, <2>2
    <3>2. callbacks[g(n)].before = Star \/ callbacks[g(n)].after = Star
      BY <3>1 DEF Less
    <3> QED
      BY <1>6, <3>2 DEF ConstraintsLast
  <2> QED
    BY <1>9, <2>1, <2>2
<1>16. TurnsAreSorted' /\ GuardsPlaced'
  <2>1. sorted = << >>
    BY <1>1 DEF Phases
  <2> QED
    BY <1>1, <2>1 DEF TurnsAreSorted, GuardsPlaced, Distinct
<1>17. \A m \in 1 .. Len(callbacks) : \E k \in 1 .. Len(callbacks) : callbacks'[m] = callbacks[k]
  BY <1>6
<1> QED
  BY <1>5, <1>12, <1>13, <1>14, <1>15, <1>16, <1>17

-----------------------------------------------------------------------------
(* Calls *)

\* What a call does to the history.
LEMMA CallsAppend ==
    ASSUME TypeOK, Phases, NEW kind \in {"register", "remove"}, NEW name \in Names,
           NEW order \in [before : Constraint, after : Constraint],
           Asks(kind, name, order)
    PROVE  /\ asked \in Seq(Calls) /\ asked' \in Seq(Calls)
           /\ Len(asked) \in Nat /\ Len(asked') = Len(asked) + 1 /\ Len(asked') <= MaxOps
           /\ \A i \in 1 .. Len(asked) : asked'[i] = asked[i]
           /\ asked'[Len(asked) + 1] = [kind |-> kind, name |-> name,
                                        before |-> order.before, after |-> order.after]
           /\ Settled
<1> DEFINE call == [kind |-> kind, name |-> name,
                    before |-> order.before, after |-> order.after]
<1>1. asked' = Append(asked, call) /\ Settled /\ Len(asked) < MaxOps
  BY DEF Asks
<1>2. call \in Calls
  BY DEF Calls
<1>3. asked \in Seq(Calls) /\ Len(asked) \in Nat
  BY DEF Phases
<1> HIDE DEF call
<1>4. /\ asked' \in Seq(Calls) /\ Len(asked') = Len(asked) + 1
      /\ \A i \in 1 .. Len(asked) : asked'[i] = asked[i]
      /\ asked'[Len(asked) + 1] = call
  BY <1>1, <1>2, <1>3
<1>5. Len(asked') <= MaxOps
  BY <1>1, <1>3, <1>4, MaxOpsAssumption
<1> QED
  BY <1>1, <1>3, <1>4, <1>5 DEF call

\* The standing calls are calls.
LEMMA StandingIsOld ==
    Standing \subseteq 1 .. Len(asked)
BY DEF Standing

\* A registration stands ...
LEMMA StandingAfterRegister ==
    ASSUME Len(asked) \in Nat, Len(asked') = Len(asked) + 1,
           \A i \in 1 .. Len(asked) : asked'[i] = asked[i],
           asked'[Len(asked) + 1].kind = "register"
    PROVE  Standing' = Standing \cup {Len(asked) + 1}
<1> DEFINE last == Len(asked) + 1
<1>1. last \in Nat /\ \A i : i \in 1 .. last <=> i \in 1 .. Len(asked) \/ i = last
  OBVIOUS
<1>2. \A i \in 1 .. last : \A j \in i + 1 .. last : j \in i + 1 .. Len(asked) \/ j = last
  BY <1>1
<1>3. \A i \in 1 .. Len(asked) : \A j \in i + 1 .. Len(asked) :
         j \in 1 .. Len(asked) /\ j \in i + 1 .. last
  BY <1>1
<1>4. \A i, j : Removed(i, j) <=> asked[j].kind = "remove" /\ asked[j].name = asked[i].name
  BY DEF Removed
<1>5. \A i, j : Removed(i, j)' <=> asked'[j].kind = "remove" /\ asked'[j].name = asked'[i].name
  BY DEF Removed
<1>6. Standing = {i \in 1 .. Len(asked) :
                     /\ asked[i].kind # "remove"
                     /\ \A j \in i + 1 .. Len(asked) :
                           ~(asked[j].kind = "remove" /\ asked[j].name = asked[i].name)}
  BY <1>4 DEF Standing
<1>7. Standing' = {i \in 1 .. last :
                     /\ asked'[i].kind # "remove"
                     /\ \A j \in i + 1 .. last :
                           ~(asked'[j].kind = "remove" /\ asked'[j].name = asked'[i].name)}
  BY <1>5 DEF Standing
<1>8. ~(\E j \in last + 1 .. last : TRUE)
  BY <1>1
<1> HIDE DEF last
<1>9. asked'[last].kind = "register" /\ "register" # "remove"
  BY DEF last
<1>10. \A i \in 1 .. last : i \in Standing' <=> i \in Standing \/ i = last
  BY <1>1, <1>2, <1>3, <1>6, <1>7, <1>8, <1>9
<1>11. Standing' \subseteq 1 .. last /\ Standing \subseteq 1 .. last
  BY <1>1, <1>6, <1>7
<1>12. last \in 1 .. last
  BY <1>1
<1> QED
  BY <1>10, <1>11, <1>12 DEF last

\* ... and a removal drops those of its name.
LEMMA StandingAfterRemove ==
    ASSUME Len(asked) \in Nat, Len(asked') = Len(asked) + 1,
           \A i \in 1 .. Len(asked) : asked'[i] = asked[i],
           asked'[Len(asked) + 1].kind = "remove"
    PROVE  Standing' = {i \in Standing : asked[i].name # asked'[Len(asked) + 1].name}
<1> DEFINE last == Len(asked) + 1
<1>1. last \in Nat /\ \A i : i \in 1 .. last <=> i \in 1 .. Len(asked) \/ i = last
  OBVIOUS
<1>2. \A i \in 1 .. Len(asked) : \A j : j \in i + 1 .. last <=> j \in i + 1 .. Len(asked) \/ j = last
  BY <1>1
<1>3. \A i \in 1 .. Len(asked) : \A j \in i + 1 .. Len(asked) : j \in 1 .. Len(asked)
  BY <1>1
<1>6. Standing = {i \in 1 .. Len(asked) :
                     /\ asked[i].kind # "remove"
                     /\ \A j \in i + 1 .. Len(asked) :
                           ~(asked[j].kind = "remove" /\ asked[j].name = asked[i].name)}
  BY DEF Standing, Removed
<1>7. Standing' = {i \in 1 .. last :
                     /\ asked'[i].kind # "remove"
                     /\ \A j \in i + 1 .. last :
                           ~(asked'[j].kind = "remove" /\ asked'[j].name = asked'[i].name)}
  BY DEF Standing, Removed
<1> HIDE DEF last
<1>9. asked'[last].kind = "remove"
  BY DEF last
<1>10. \A i \in 1 .. Len(asked) :
          i \in Standing' <=> i \in Standing /\ asked[i].name # asked'[last].name
  BY <1>1, <1>2, <1>3, <1>6, <1>7, <1>9
<1>11. last \notin Standing'
  BY <1>7, <1>9
<1>12. Standing' \subseteq 1 .. last /\ Standing \subseteq 1 .. Len(asked)
  BY <1>6, <1>7
<1> QED
  BY <1>1, <1>10, <1>11, <1>12 DEF last

\* Tidiness is lost for good.
LEMMA TidyBefore ==
    ASSUME Len(asked) \in Nat, Len(asked') = Len(asked) + 1,
           \A i \in 1 .. Len(asked) : asked'[i] = asked[i],
           Standing' \subseteq Standing \cup {Len(asked) + 1}, Tidy'
    PROVE  Tidy
<1>1. \A i \in 1 .. Len(asked) : i \in 1 .. Len(asked') /\ asked'[i] = asked[i]
  OBVIOUS
<1>2. /\ \A i \in 1 .. Len(asked') :
            /\ Unset \in {asked'[i].before, asked'[i].after}
            /\ \A name \in {asked'[i].before, asked'[i].after} \ {Unset} :
                  /\ \E j \in Standing' : j < i /\ asked'[j].name = name
                  /\ \A j \in 1 .. Len(asked') :
                        asked'[j].kind = "remove" => asked'[j].name # name
      /\ \A i, j \in 1 .. Len(asked') :
            i # j /\ asked'[i].name = asked'[j].name
                => "remove" \in {asked'[i].kind, asked'[j].kind}
  BY DEF Tidy
<1>3. ASSUME NEW i \in 1 .. Len(asked),
             NEW name \in {asked[i].before, asked[i].after} \ {Unset}
      PROVE  /\ \E j \in Standing : j < i /\ asked[j].name = name
             /\ \A j \in 1 .. Len(asked) : asked[j].kind = "remove" => asked[j].name # name
  <2>1. PICK j \in Standing' : j < i /\ asked'[j].name = name
    BY <1>1, <1>2
  <2>2. j \in Standing
    BY <2>1
  <2>3. j \in 1 .. Len(asked)
    BY <2>2, StandingIsOld
  <2>4. asked[j].name = name
    BY <1>1, <2>1, <2>3
  <2> QED
    BY <1>1, <1>2, <2>1, <2>2, <2>4
<1>4. \A i \in 1 .. Len(asked) : Unset \in {asked[i].before, asked[i].after}
  BY <1>1, <1>2
<1>5. \A i, j \in 1 .. Len(asked) :
         i # j /\ asked[i].name = asked[j].name
             => "remove" \in {asked[i].kind, asked[j].kind}
  BY <1>1, <1>2
<1> QED
  BY <1>3, <1>4, <1>5 DEF Tidy

\* A registration appends its callback.
LEMMA RegisterKeeps ==
    ASSUME Placing, NEW name \in Names, NEW order \in Orders, RegisterCallback(name, order)
    PROVE  /\ Placing' /\ status' = "arranging"
           /\ UNCHANGED <<fns, turn, sorted, stack>>
           /\ Standing' \subseteq Standing \cup {Len(asked) + 1}
           /\ Len(callbacks') = Len(callbacks) + 1
           /\ \A m \in 1 .. Len(callbacks) : callbacks'[m] = callbacks[m]
           /\ callbacks'[Len(callbacks) + 1].before = asked'[Len(asked) + 1].before
           /\ callbacks'[Len(callbacks) + 1].after = asked'[Len(asked) + 1].after
           /\ callbacks'[Len(callbacks) + 1].handler = Len(asked) + 1
<1> USE DEF Placing
<1> DEFINE cb == [name |-> name, before |-> order.before, after |-> order.after,
                  handler |-> Len(asked) + 1]
<1>1. /\ Asks("register", name, order) /\ callbacks' = Append(callbacks, cb)
      /\ status' = "arranging" /\ UNCHANGED <<fns, turn, sorted, stack>>
  BY DEF RegisterCallback, Compile
<1>2. order \in [before : Constraint, after : Constraint]
  BY OrdersAssumption
<1>3. /\ asked' \in Seq(Calls)
      /\ Len(asked) \in Nat /\ Len(asked') = Len(asked) + 1 /\ Len(asked') <= MaxOps
      /\ \A i \in 1 .. Len(asked) : asked'[i] = asked[i]
      /\ asked'[Len(asked) + 1] = [kind |-> "register", name |-> name,
                                   before |-> order.before, after |-> order.after]
      /\ Settled
  BY <1>1, <1>2, CallsAppend
<1>4. status # "placing" /\ status # "arranging" /\ sorted = << >> /\ stack = << >> /\ turn = 0
  BY <1>3 DEF Settled, Phases
<1>5. cb \in Callback
  BY <1>2, <1>3, MaxOpsAssumption DEF Callback
<1>6. callbacks \in Seq(Callback) /\ Len(callbacks) \in Nat /\ Len(callbacks) <= Len(asked)
  BY CallbackTypes DEF TypeOK, Phases
<1>7. cb.name = name /\ cb.before = order.before /\ cb.after = order.after
      /\ cb.handler = Len(asked) + 1
  OBVIOUS
<1> HIDE DEF cb
<1>8. /\ callbacks' \in Seq(Callback) /\ Len(callbacks') = Len(callbacks) + 1
      /\ \A m \in 1 .. Len(callbacks) : callbacks'[m] = callbacks[m]
      /\ callbacks'[Len(callbacks) + 1] = cb
  BY <1>1, <1>5, <1>6
<1>9. \A m \in 1 .. Len(callbacks') : m \in 1 .. Len(callbacks) \/ m = Len(callbacks) + 1
  BY <1>6, <1>8
<1>10. Standing' = Standing \cup {Len(asked) + 1}
  BY <1>3, StandingAfterRegister
<1>11. \A m \in 1 .. Len(callbacks) :
          /\ callbacks[m].handler \in Standing /\ Asked(m).name = callbacks[m].name
          /\ callbacks[m].handler \in 1 .. Len(asked)
          /\ Asked(m)' = Asked(m)
  <2>1. \A m \in 1 .. Len(callbacks) :
           callbacks[m].handler \in Standing /\ Asked(m).name = callbacks[m].name
    BY DEF CallbacksStand
  <2> QED
    BY <1>3, <1>8, <2>1, StandingIsOld DEF Asked
<1>12. \A m : m = Len(callbacks) + 1 => Asked(m)' = asked'[Len(asked) + 1]
  BY <1>7, <1>8 DEF Asked
<1>13. TypeOK'
  BY <1>1, <1>3, <1>4, <1>6, <1>8 DEF TypeOK
<1>14. Phases'
  BY <1>1, <1>3, <1>4, <1>6, <1>8 DEF Phases
<1>15. CallbacksStand'
  <2>1. ASSUME NEW m \in 1 .. Len(callbacks')
        PROVE  callbacks'[m].handler \in Standing' /\ Asked(m)'.name = callbacks'[m].name
    BY <1>3, <1>7, <1>8, <1>9, <1>10, <1>11, <1>12
  <2>2. ASSUME NEW m \in 1 .. Len(callbacks'), NEW n \in 1 .. Len(callbacks'),
               callbacks'[m].handler = callbacks'[n].handler
        PROVE  m = n
    <3>1. \A k \in 1 .. Len(callbacks) : callbacks'[k].handler # Len(asked) + 1
      BY <1>3, <1>8, <1>11
    <3>2. \A k, l \in 1 .. Len(callbacks) :
             callbacks'[k].handler = callbacks'[l].handler => k = l
      BY <1>8 DEF CallbacksStand
    <3> QED
      BY <1>7, <1>8, <1>9, <2>2, <3>1, <3>2
  <2>3. ASSUME NEW i \in Standing'
        PROVE  \E m \in 1 .. Len(callbacks') : callbacks'[m].handler = i
    <3>1. CASE i = Len(asked) + 1
      BY <1>6, <1>7, <1>8, <3>1
    <3>2. CASE i \in Standing
      <4>1. PICK m \in 1 .. Len(callbacks) : callbacks[m].handler = i
        BY <3>2 DEF CallbacksStand
      <4> QED
        BY <1>6, <1>8, <4>1
    <3> QED
      BY <1>10, <3>1, <3>2
  <2> QED
    BY <2>1, <2>2, <2>3 DEF CallbacksStand
<1>16. ConstraintsLast'
  <2> SUFFICES ASSUME NEW m \in 1 .. Len(callbacks')
               PROVE  /\ callbacks'[m].before = Star => Asked(m)'.before = Star
                      /\ callbacks'[m].after = Star => Asked(m)'.after = Star
                      /\ Asked(m)'.before # Unset => callbacks'[m].before = Asked(m)'.before
    BY DEF ConstraintsLast
  <2>1. CASE m \in 1 .. Len(callbacks)
    BY <1>8, <1>11, <2>1 DEF ConstraintsLast
  <2>2. CASE m = Len(callbacks) + 1
    BY <1>3, <1>7, <1>8, <1>12, <2>2
  <2> QED
    BY <1>9, <2>1, <2>2
<1>17. InOrder'
  <2> SUFFICES ASSUME NEW m \in 1 .. Len(callbacks'), NEW n \in 1 .. Len(callbacks'), m < n
               PROVE  \/ callbacks'[m].handler < callbacks'[n].handler
                      \/ Star \in {Asked(n)'.before, Asked(n)'.after}
    BY DEF InOrder
  <2>1. m \in 1 .. Len(callbacks)
    BY <1>6, <1>9
  <2>2. CASE n \in 1 .. Len(callbacks)
    BY <1>8, <1>11, <2>1, <2>2 DEF InOrder
  <2>3. CASE n = Len(callbacks) + 1
    <3>1. callbacks'[n].handler = Len(asked) + 1
      BY <1>7, <1>8, <2>3
    <3>2. callbacks'[m].handler \in 1 .. Len(asked)
      BY <1>8, <1>11, <2>1
    <3> QED
      BY <1>3, <3>1, <3>2
  <2> QED
    BY <1>9, <2>2, <2>3
<1>18. TurnsAreSorted' /\ GuardsPlaced'
  BY <1>1, <1>4 DEF TurnsAreSorted, GuardsPlaced, Distinct
<1> QED
  BY <1>1, <1>3, <1>7, <1>8, <1>10, <1>13, <1>14, <1>15, <1>16, <1>17, <1>18

\* A removal keeps the others in their order.
LEMMA RemoveKeeps ==
    ASSUME Placing, NEW name \in Names, RemoveCallback(name)
    PROVE  /\ Placing' /\ status' = "arranging"
           /\ UNCHANGED <<fns, turn, sorted, stack>>
           /\ Standing' \subseteq Standing \cup {Len(asked) + 1}
           /\ \A m \in 1 .. Len(callbacks') : \E k \in 1 .. Len(callbacks) :
                 callbacks'[m] = callbacks[k]
<1> USE DEF Placing
<1> DEFINE others == {i \in 1 .. Len(callbacks) : callbacks[i].name # name}
           count == Cardinality(others)
           order == [before |-> Unset, after |-> Unset]
<1>1. Asks("remove", name, order)
  BY DEF RemoveCallback
<1>2. PICK at \in [1 .. count -> others] :
         /\ \A m, n \in DOMAIN at : m < n => at[m] < at[n]
         /\ \A i \in others : \E m \in DOMAIN at : at[m] = i
         /\ Compile([m \in 1 .. count |-> callbacks[at[m]]])
  BY DEF RemoveCallback
<1>3. order \in [before : Constraint, after : Constraint]
  BY DEF Constraint
<1>4. /\ asked' \in Seq(Calls)
      /\ Len(asked) \in Nat /\ Len(asked') = Len(asked) + 1 /\ Len(asked') <= MaxOps
      /\ \A i \in 1 .. Len(asked) : asked'[i] = asked[i]
      /\ asked'[Len(asked) + 1].kind = "remove"
      /\ asked'[Len(asked) + 1].name = name
      /\ Settled
  <2> HIDE DEF order
  <2>1. /\ asked' \in Seq(Calls)
        /\ Len(asked) \in Nat /\ Len(asked') = Len(asked) + 1 /\ Len(asked') <= MaxOps
        /\ \A i \in 1 .. Len(asked) : asked'[i] = asked[i]
        /\ asked'[Len(asked) + 1] = [kind |-> "remove", name |-> name,
                                     before |-> order.before, after |-> order.after]
        /\ Settled
    BY <1>1, <1>3, CallsAppend
  <2> QED
    BY <2>1
<1>5. status # "placing" /\ status # "arranging" /\ sorted = << >> /\ stack = << >> /\ turn = 0
  BY <1>4 DEF Settled, Phases
<1>6. callbacks \in Seq(Callback) /\ Len(callbacks) \in Nat /\ Len(callbacks) <= Len(asked)
  BY CallbackTypes DEF TypeOK, Phases
<1>7. count \in Nat /\ count <= Len(callbacks)
  <2> DEFINE n == Len(callbacks)
  <2>1. n \in Nat /\ others \in SUBSET (1 .. n)
    BY <1>6
  <2> HIDE DEF n, others
  <2>2. IsFiniteSet(1 .. n) /\ Cardinality(1 .. n) = n
    BY <2>1, FS_Interval
  <2>3. IsFiniteSet(others) /\ Cardinality(others) <= Cardinality(1 .. n)
    BY <2>1, <2>2, FS_Subset
  <2>4. Cardinality(others) \in Nat
    BY <2>3, FS_CardinalityType
  <2> QED
    BY <2>2, <2>3, <2>4 DEF n
<1>8. \A m \in 1 .. count : at[m] \in 1 .. Len(callbacks) /\ callbacks[at[m]].name # name
  BY <1>2
<1>9. \A i \in 1 .. Len(callbacks) : callbacks[i].name # name => \E m \in 1 .. count : at[m] = i
  BY <1>2
<1>10. \A m, n \in 1 .. count : m < n => at[m] < at[n]
  BY <1>2
<1>11. /\ callbacks' = [m \in 1 .. count |-> callbacks[at[m]]]
       /\ status' = "arranging" /\ UNCHANGED <<fns, turn, sorted, stack>>
  BY <1>2 DEF Compile
<1> HIDE DEF count, others, order
<1>12. /\ callbacks' \in Seq(Callback) /\ Len(callbacks') = count
       /\ \A m \in 1 .. count : callbacks'[m] = callbacks[at[m]]
  BY <1>6, <1>7, <1>8, <1>11
<1>13. Standing' = {i \in Standing : asked[i].name # name}
  BY <1>4, StandingAfterRemove
<1>14. \A m \in 1 .. Len(callbacks) :
          /\ callbacks[m].handler \in Standing /\ Asked(m).name = callbacks[m].name
          /\ asked'[callbacks[m].handler] = Asked(m)
  <2>1. \A m \in 1 .. Len(callbacks) :
           callbacks[m].handler \in Standing /\ Asked(m).name = callbacks[m].name
    BY DEF CallbacksStand
  <2> QED
    BY <1>4, <2>1, StandingIsOld DEF Asked
<1>15. \A m \in 1 .. count : Asked(m)' = Asked(at[m])
  BY <1>8, <1>12, <1>14 DEF Asked
<1>16. TypeOK'
  BY <1>4, <1>5, <1>7, <1>11, <1>12 DEF TypeOK
<1>17. Phases'
  BY <1>4, <1>5, <1>6, <1>7, <1>11, <1>12 DEF Phases
<1>18. CallbacksStand'
  <2>1. ASSUME NEW m \in 1 .. count
        PROVE  callbacks'[m].handler \in Standing' /\ Asked(m)'.name = callbacks'[m].name
    <3>1. at[m] \in 1 .. Len(callbacks) /\ callbacks[at[m]].name # name
      BY <1>8
    <3>2. callbacks[at[m]].handler \in Standing /\ Asked(at[m]).name = callbacks[at[m]].name
      BY <1>14, <3>1
    <3> QED
      BY <1>12, <1>13, <1>15, <3>1, <3>2 DEF Asked
  <2>2. ASSUME NEW m \in 1 .. count, NEW n \in 1 .. count,
               callbacks'[m].handler = callbacks'[n].handler
        PROVE  m = n
    <3>1. at[m] = at[n]
      BY <1>8, <1>12, <2>2 DEF CallbacksStand
    <3>2. at[m] \in Nat
      BY <1>8
    <3> QED
      BY <1>7, <1>10, <3>1, <3>2
  <2>3. ASSUME NEW i \in Standing'
        PROVE  \E m \in 1 .. count : callbacks'[m].handler = i
    <3>1. i \in Standing /\ asked[i].name # name
      BY <1>13
    <3>2. PICK k \in 1 .. Len(callbacks) : callbacks[k].handler = i
      BY <3>1 DEF CallbacksStand
    <3>3. callbacks[k].name # name
      BY <1>14, <3>1, <3>2 DEF Asked
    <3> QED
      BY <1>9, <1>12, <3>2, <3>3
  <2> QED
    BY <1>12, <2>1, <2>2, <2>3 DEF CallbacksStand
<1>19. ConstraintsLast'
  BY <1>8, <1>12, <1>15 DEF ConstraintsLast
<1>20. InOrder'
  BY <1>8, <1>10, <1>12, <1>15 DEF InOrder
<1>21. TurnsAreSorted' /\ GuardsPlaced'
  BY <1>5, <1>11 DEF TurnsAreSorted, GuardsPlaced, Distinct
<1>22. \A m \in 1 .. Len(callbacks') : \E k \in 1 .. Len(callbacks) :
          callbacks'[m] = callbacks[k]
  BY <1>8, <1>12
<1> QED
  BY <1>11, <1>13, <1>16, <1>17, <1>18, <1>19, <1>20, <1>21, <1>22

-----------------------------------------------------------------------------
(* Tidy calls *)

\* Of tidy calls there is one callback for each name, in the order of the
\* calls, and each refers to an earlier one.
LEMMA TidyCallbacks ==
    ASSUME Placing, Tidy
    PROVE  /\ \A m, n \in 1 .. Len(callbacks) :
                 callbacks[m].name = callbacks[n].name => m = n
           /\ \A m, n \in 1 .. Len(callbacks) :
                 m < n => callbacks[m].handler < callbacks[n].handler
           /\ \A m \in 1 .. Len(callbacks) :
                 /\ Unset \in {Asked(m).before, Asked(m).after}
                 /\ \A x \in {Asked(m).before, Asked(m).after} \ {Unset} :
                       \E q \in 1 .. Len(callbacks) : q < m /\ callbacks[q].name = x
<1> USE DEF Placing
<1>1. \A m \in 1 .. Len(callbacks) :
         /\ callbacks[m].handler \in Standing
         /\ callbacks[m].handler \in 1 .. Len(asked)
         /\ asked[callbacks[m].handler].name = callbacks[m].name
         /\ asked[callbacks[m].handler].kind # "remove"
         /\ Asked(m) = asked[callbacks[m].handler]
         /\ callbacks[m].name \in Names
  BY CallbackTypes, StandingIsOld DEF CallbacksStand, Asked, Standing
<1>2. /\ \A i \in 1 .. Len(asked) :
            /\ Unset \in {asked[i].before, asked[i].after}
            /\ \A x \in {asked[i].before, asked[i].after} \ {Unset} :
                  \E j \in Standing : j < i /\ asked[j].name = x
      /\ \A i, j \in 1 .. Len(asked) :
            i # j /\ asked[i].name = asked[j].name
                => "remove" \in {asked[i].kind, asked[j].kind}
  BY DEF Tidy
<1>3. \A m, n \in 1 .. Len(callbacks) : callbacks[m].name = callbacks[n].name => m = n
  <2> SUFFICES ASSUME NEW m \in 1 .. Len(callbacks), NEW n \in 1 .. Len(callbacks),
                      callbacks[m].name = callbacks[n].name
               PROVE  m = n
    OBVIOUS
  <2>1. callbacks[m].handler = callbacks[n].handler
    BY <1>1, <1>2
  <2> QED
    BY <2>1 DEF CallbacksStand
<1>4. \A m, n \in 1 .. Len(callbacks) : m < n => callbacks[m].handler < callbacks[n].handler
  <2> SUFFICES ASSUME NEW m \in 1 .. Len(callbacks), NEW n \in 1 .. Len(callbacks), m < n
               PROVE  callbacks[m].handler < callbacks[n].handler
    OBVIOUS
  <2>1. ASSUME Star \in {Asked(n).before, Asked(n).after} PROVE FALSE
    <3>1. Star \in {asked[callbacks[n].handler].before, asked[callbacks[n].handler].after} \ {Unset}
      BY <1>1, <2>1, NamesAssumption
    <3>2. PICK j \in Standing : asked[j].name = Star
      BY <1>1, <1>2, <3>1
    <3>3. asked \in Seq(Calls) /\ j \in 1 .. Len(asked)
      BY StandingIsOld DEF Phases
    <3>4. asked[j] \in Calls
      BY <3>3
    <3> QED
      BY <3>2, <3>4, NamesAssumption DEF Calls
  <2> QED
    BY <2>1 DEF InOrder
<1>5. ASSUME NEW m \in 1 .. Len(callbacks), NEW x \in {Asked(m).before, Asked(m).after} \ {Unset}
      PROVE  \E q \in 1 .. Len(callbacks) : q < m /\ callbacks[q].name = x
  <2>1. PICK j \in Standing : j < callbacks[m].handler /\ asked[j].name = x
    BY <1>1, <1>2
  <2>2. PICK q \in 1 .. Len(callbacks) : callbacks[q].handler = j
    BY DEF CallbacksStand
  <2>3. callbacks[q].handler < callbacks[m].handler /\ callbacks[q].name = x
    BY <1>1, <2>1, <2>2
  <2>4. q < m
    <3>1. /\ callbacks[m].handler \in Nat /\ callbacks[q].handler \in Nat
          /\ m \in Nat /\ q \in Nat
      BY <1>1
    <3>2. m < q => callbacks[m].handler < callbacks[q].handler
      BY <1>4
    <3> QED
      BY <2>3, <3>1, <3>2
  <2> QED
    BY <2>3, <2>4
<1>6. \A m \in 1 .. Len(callbacks) : Unset \in {Asked(m).before, Asked(m).after}
  BY <1>1, <1>2
<1> QED
  BY <1>3, <1>4, <1>5, <1>6

\* What TidyPlacing says when a callback has its turn.
LEMMA TidyTurn ==
    ASSUME Placing, TidyPlacing, Tidy, stack # << >>
    PROVE  LET c == callbacks[turn] IN
           /\ status = "placing" /\ Len(stack) = 1 /\ Top = stack[1] /\ Current = c
           /\ turn \in 1 .. Len(callbacks)
           /\ c.before = Asked(turn).before /\ c.after = Asked(turn).after
           /\ Unset \in {c.before, c.after}
           /\ \A x \in {c.before, c.after} : x # Unset =>
                 /\ x # Star /\ RIndex(sorted, x) \in 1 .. Len(sorted)
                 /\ Has(sorted, x) /\ sorted[RIndex(sorted, x)] = x
           /\ RIndex(sorted, Unset) = 0 /\ RIndex(NamesOf(callbacks), Unset) = 0
           /\ c.name \in Names
           /\ RIndex(sorted, c.name) = 0 <=> ~Has(sorted, c.name)
<1> USE DEF Placing
<1>1. status = "placing"
  BY DEF Phases
<1>2. Len(stack) = 1
  <2> DEFINE depth == Len(stack)
  <2>1. depth \in Nat /\ depth >= 1 /\ depth <= 1
    BY TopOfStack DEF TidyPlacing
  <2> HIDE DEF depth
  <2>2. depth = 1
    BY <2>1
  <2> QED
    BY <2>2 DEF depth
<1>3. /\ turn \in 1 .. Len(callbacks) /\ Current = callbacks[turn]
      /\ Len(callbacks) \in Nat /\ callbacks[turn].name \in Names
      /\ sorted \in Seq(Names)
  BY <1>2, TopOfStack, CallbackTypes DEF TypeOK
<1>4. callbacks[turn].before = Asked(turn).before /\ callbacks[turn].after = Asked(turn).after
  BY <1>3 DEF TidyPlacing
<1>5. Unset \in {Asked(turn).before, Asked(turn).after}
  BY <1>3, TidyCallbacks
<1>6. ASSUME NEW x \in {callbacks[turn].before, callbacks[turn].after}, x # Unset
      PROVE  /\ x # Star /\ RIndex(sorted, x) \in 1 .. Len(sorted)
             /\ Has(sorted, x) /\ sorted[RIndex(sorted, x)] = x
  <2>1. x \in {Asked(turn).before, Asked(turn).after} \ {Unset}
    BY <1>4, <1>6
  <2>2. PICK q \in 1 .. Len(callbacks) : q < turn /\ callbacks[q].name = x
    BY <1>3, <2>1, TidyCallbacks
  <2>3. x # Star
    BY <2>2, CallbackTypes, NamesAssumption
  <2>4. q \in 1 .. turn /\ q # turn
    BY <1>3, <2>2
  <2>5. Has(sorted, x)
    BY <1>1, <2>2, <2>4 DEF TurnsAreSorted
  <2> QED
    BY <1>3, <2>3, <2>5, RIndexFinds
<1>7. RIndex(sorted, Unset) = 0
  <2>1. ~Has(sorted, Unset)
    BY <1>3, NamesAssumption DEF Has
  <2> QED
    BY <1>3, <2>1, RIndexFinds
<1>8. RIndex(NamesOf(callbacks), Unset) = 0
  <2>1. NamesOf(callbacks) \in Seq(Names)
    BY CallbackTypes DEF NamesOf
  <2>2. ~Has(NamesOf(callbacks), Unset)
    BY <2>1, NamesAssumption DEF Has
  <2> QED
    BY <2>1, <2>2, RIndexFinds
<1>9. RIndex(sorted, callbacks[turn].name) = 0 <=> ~Has(sorted, callbacks[turn].name)
  BY <1>3, RIndexFinds
<1>10. Top = stack[1]
  BY <1>2 DEF Top
<1> QED
  BY <1>1, <1>2, <1>3, <1>4, <1>5, <1>6, <1>7, <1>8, <1>9, <1>10

\* The order stays as asked when a callback is put right before the one it is
\* to be before, or at the end.
LEMMA TidyInsertion ==
    ASSUME Placing, TidyPlacing, Tidy, stack # << >>,
           NEW i \in 1 .. Len(sorted) + 1,
           ~Has(sorted, callbacks[turn].name),
           \/ /\ callbacks[turn].before # Unset
              /\ i <= Len(sorted) /\ sorted[i] = callbacks[turn].before
           \/ callbacks[turn].before = Unset /\ i = Len(sorted) + 1,
           sorted' = InsertAt(sorted, i, callbacks[turn].name)
    PROVE  /\ Has(sorted', callbacks[turn].name)
           /\ \A m \in 1 .. Len(callbacks) : Has(sorted', callbacks[m].name) => m <= turn
           /\ \A p, q \in 1 .. Len(callbacks) :
                 q < p /\ Has(sorted', callbacks[p].name) =>
                    (Prec(sorted', callbacks[p].name, callbacks[q].name) <=>
                        /\ Asked(p).before # Unset
                        /\ \/ Asked(p).before = callbacks[q].name
                           \/ Prec(sorted', Asked(p).before, callbacks[q].name))
<1> USE DEF Placing
<1> DEFINE own == callbacks[turn].name
<1>1. /\ turn \in 1 .. Len(callbacks) /\ own \in Names /\ sorted \in Seq(Names)
      /\ callbacks[turn].before = Asked(turn).before /\ Distinct(sorted)
      /\ status = "placing" /\ Len(callbacks) \in Nat /\ Len(sorted) \in Nat
  BY TidyTurn, CallbackTypes DEF TypeOK, TurnsAreSorted
<1>2. /\ \A y : Has(sorted', y) <=> Has(sorted, y) \/ y = own
      /\ \A y, z : Prec(sorted, y, z) => Prec(sorted', y, z)
      /\ \A y, z : Prec(sorted', y, z) /\ y # own /\ z # own => Prec(sorted, y, z)
      /\ Distinct(sorted')
  BY <1>1, InsertionKeeps
<1>3. \A m, n \in 1 .. Len(callbacks) : callbacks[m].name = callbacks[n].name => m = n
  BY TidyCallbacks
<1>4. /\ \A m \in 1 .. Len(callbacks) : Has(sorted, callbacks[m].name) => m <= turn
      /\ \A p, q \in 1 .. Len(callbacks) :
            q < p /\ Has(sorted, callbacks[p].name) => PlacedAsAsked(p, q)
  BY DEF TidyPlacing
<1>5. \A m \in 1 .. Len(callbacks) : Has(sorted', callbacks[m].name) => m <= turn
  BY <1>1, <1>2, <1>3, <1>4
<1>6. ASSUME NEW p \in 1 .. Len(callbacks), NEW q \in 1 .. Len(callbacks), q < p,
             Has(sorted', callbacks[p].name)
      PROVE  Prec(sorted', callbacks[p].name, callbacks[q].name) <=>
                /\ Asked(p).before # Unset
                /\ \/ Asked(p).before = callbacks[q].name
                   \/ Prec(sorted', Asked(p).before, callbacks[q].name)
  <2>1. p <= turn /\ q < turn /\ q # turn
    BY <1>1, <1>5, <1>6
  <2>2. callbacks[q].name # own
    BY <1>1, <1>3, <2>1
  <2>3. Asked(p).before # Unset => Asked(p).before # own
    <3> SUFFICES ASSUME Asked(p).before # Unset PROVE Asked(p).before # own
      OBVIOUS
    <3>1. PICK r \in 1 .. Len(callbacks) : r < p /\ callbacks[r].name = Asked(p).before
      BY TidyCallbacks
    <3>2. r # turn
      BY <1>1, <2>1, <3>1
    <3> QED
      BY <1>1, <1>3, <3>1, <3>2
  <2>4. CASE p # turn
    <3>1. callbacks[p].name # own
      BY <1>1, <1>3, <2>4
    <3>2. Has(sorted, callbacks[p].name)
      BY <1>2, <1>6, <3>1
    <3>3. PlacedAsAsked(p, q)
      BY <1>4, <1>6, <3>2
    <3> QED
      BY <1>2, <2>2, <2>3, <3>1, <3>3 DEF PlacedAsAsked
  <2>5. CASE p = turn
    <3>1. q \in 1 .. turn
      BY <1>1, <2>1
    <3>2. Has(sorted, callbacks[q].name)
      BY <1>1, <2>1, <3>1 DEF TurnsAreSorted
    <3>3. Prec(sorted', own, callbacks[q].name)
            <=> i <= Len(sorted)
                /\ (sorted[i] = callbacks[q].name \/ Prec(sorted, sorted[i], callbacks[q].name))
      BY <1>1, <3>2, InsertedComesBefore
    <3>4. CASE /\ callbacks[turn].before # Unset
               /\ i <= Len(sorted) /\ sorted[i] = callbacks[turn].before
      <4>1. sorted[i] = Asked(p).before /\ Asked(p).before # Unset
        BY <1>1, <2>5, <3>4
      <4> QED
        BY <1>2, <2>2, <2>3, <2>5, <3>3, <3>4, <4>1
    <3>5. CASE callbacks[turn].before = Unset /\ i = Len(sorted) + 1
      <4>1. ~(i <= Len(sorted))
        BY <1>1, <3>5
      <4> QED
        BY <1>1, <2>5, <3>3, <3>5, <4>1
    <3> QED
      BY <3>4, <3>5
  <2> QED
    BY <2>4, <2>5
<1> QED
  BY <1>2, <1>5, <1>6

\* A name is put where TidyInsertion wants it.
PutAsAsked ==
    \E i \in 1 .. Len(sorted) + 1 :
        /\ ~Has(sorted, callbacks[turn].name)
        /\ \/ /\ callbacks[turn].before # Unset
              /\ i <= Len(sorted) /\ sorted[i] = callbacks[turn].before
           \/ callbacks[turn].before = Unset /\ i = Len(sorted) + 1
        /\ sorted' = InsertAt(sorted, i, callbacks[turn].name)

\* A step in the turn of a callback that puts it where it asked to be, or
\* leaves it where it is.
LEMMA TidyGoesOn ==
    ASSUME Placing, TidyPlacing, Tidy, stack # << >>,
           UNCHANGED <<callbacks, status, turn, asked>>,
           sorted' = sorted \/ PutAsAsked,
           stack' # << >> =>
              /\ Len(stack') = 1 /\ stack'[1].at \in {"after", "append"}
              /\ Has(sorted', callbacks[turn].name) <=>
                    \/ callbacks[turn].before # Unset
                    \/ stack'[1].at = "append" /\ callbacks[turn].after # Unset
    PROVE  TidyPlacing'
<1>1. /\ turn \in 1 .. Len(callbacks) /\ status = "placing"
      /\ callbacks[turn].before = Asked(turn).before
      /\ callbacks[turn].after = Asked(turn).after
  BY TidyTurn
<1>2. \A m : Asked(m)' = Asked(m)
  BY DEF Asked
<1>3. /\ \A m \in 1 .. Len(callbacks) : Has(sorted', callbacks[m].name) => m <= turn
      /\ \A p, q \in 1 .. Len(callbacks) :
            q < p /\ Has(sorted', callbacks[p].name) =>
               (Prec(sorted', callbacks[p].name, callbacks[q].name) <=>
                   /\ Asked(p).before # Unset
                   /\ \/ Asked(p).before = callbacks[q].name
                      \/ Prec(sorted', Asked(p).before, callbacks[q].name))
  <2>1. CASE sorted' = sorted
    BY <2>1, Zenon DEF TidyPlacing, PlacedAsAsked
  <2>2. CASE PutAsAsked
    BY <2>2, TidyInsertion DEF PutAsAsked
  <2> QED
    BY <2>1, <2>2
<1>4. \A p, q : PlacedAsAsked(p, q)' <=>
         (Prec(sorted', callbacks[p].name, callbacks[q].name) <=>
             /\ Asked(p).before # Unset
             /\ \/ Asked(p).before = callbacks[q].name
                \/ Prec(sorted', Asked(p).before, callbacks[q].name))
  BY <1>2 DEF PlacedAsAsked, Asked
<1>5. Len(stack') <= 1
  <2>1. CASE stack' = << >>
    BY <2>1
  <2>2. CASE Len(stack') = 1
    BY <2>2
  <2> QED
    BY <2>1, <2>2
<1>6. \A m \in 1 .. Len(callbacks) :
         callbacks[m].before = Asked(m).before /\ callbacks[m].after = Asked(m).after
  BY DEF TidyPlacing
<1>7. stack' # << >> =>
         /\ stack'[1].at # "again"
         /\ Has(sorted', callbacks[turn].name) <=>
               \/ stack'[1].at # "before" /\ Asked(turn).before # Unset
               \/ stack'[1].at = "append" /\ Asked(turn).after # Unset
  BY <1>1
<1>8. Has(sorted, callbacks[turn].name) \in BOOLEAN
  BY DEF Has
<1> QED
  BY <1>1, <1>2, <1>3, <1>4, <1>5, <1>6, <1>7 DEF TidyPlacing, Asked

\* "Before" does so ...
LEMMA TidyPlaceBefore ==
    ASSUME Placing, TidyPlacing, Tidy, PlaceBefore
    PROVE  TidyPlacing' /\ UNCHANGED <<callbacks, fns, status, turn, asked>>
<1> USE DEF Placing
<1> DEFINE c == callbacks[turn]
           at == RIndex(sorted, c.before)
           own == RIndex(sorted, c.name)
           target == RIndex(NamesOf(callbacks), c.before)
<1>1. stack # << >> /\ Top.at = "before"
  BY DEF PlaceBefore, At
<1>2. /\ status = "placing" /\ Len(stack) = 1 /\ stack[1].at = "before" /\ Current = c
      /\ turn \in 1 .. Len(callbacks) /\ c.before = Asked(turn).before
      /\ c.before # Star /\ c.name \in Names /\ sorted \in Seq(Names)
      /\ c.before # Unset => at \in 1 .. Len(sorted) /\ sorted[at] = c.before
      /\ c.before = Unset => at = 0 /\ target = 0
      /\ own = 0 <=> ~Has(sorted, c.name)
  <2>1. stack[1].at = "before"
    BY <1>1, TidyTurn
  <2> QED
    BY <1>1, <2>1, TidyTurn, NamesAssumption DEF TypeOK
<1>3. ~Has(sorted, c.name) /\ own = 0
  <2>1. ~Has(sorted, c.name)
    BY <1>1, <1>2 DEF TidyPlacing
  <2> QED
    BY <1>2, <2>1
<1>4. \/ at # 0 /\ Proceed("after", InsertAt(sorted, at, c.name)) /\ UNCHANGED callbacks
      \/ at # 0 /\ own > at
      \/ at = 0 /\ target # 0
      \/ at = 0 /\ target = 0 /\ Proceed("after", sorted) /\ UNCHANGED callbacks
      \/ at # 0 /\ own # 0
  BY <1>2, Zenon DEF PlaceBefore
<1> HIDE DEF at, own, target
<1>5. CASE at # 0 /\ Proceed("after", InsertAt(sorted, at, c.name)) /\ UNCHANGED callbacks
  <2>1. /\ sorted' = InsertAt(sorted, at, c.name) /\ UNCHANGED <<fns, status, turn, asked>>
        /\ stack' # << >> /\ Len(stack') = 1 /\ stack'[1].at = "after"
    BY <1>1, <1>2, <1>5, ProceedWorks
  <2>2. c.before # Unset
    BY <1>2, <1>5
  <2>3. at \in 1 .. Len(sorted) + 1 /\ at <= Len(sorted) /\ sorted[at] = c.before
    BY <1>2, <2>2
  <2>4. PutAsAsked
    BY <1>3, <2>1, <2>2, <2>3 DEF PutAsAsked
  <2>5. Has(sorted', c.name)
    BY <1>1, <1>3, <2>1, <2>2, <2>3, TidyInsertion
  <2> QED
    BY <1>1, <1>5, <2>1, <2>2, <2>4, <2>5, TidyGoesOn
<1>6. CASE at = 0 /\ target = 0 /\ Proceed("after", sorted) /\ UNCHANGED callbacks
  <2>1. /\ sorted' = sorted /\ UNCHANGED <<fns, status, turn, asked>>
        /\ stack' # << >> /\ Len(stack') = 1 /\ stack'[1].at = "after"
    BY <1>1, <1>2, <1>6, ProceedWorks
  <2>2. c.before = Unset
    BY <1>2, <1>6
  <2> QED
    BY <1>1, <1>3, <1>6, <2>1, <2>2, TidyGoesOn
<1> QED
  BY <1>2, <1>3, <1>4, <1>5, <1>6

\* ... "After" does ...
LEMMA TidyPlaceAfter ==
    ASSUME Placing, TidyPlacing, Tidy, PlaceAfter
    PROVE  TidyPlacing' /\ UNCHANGED <<callbacks, fns, status, turn, asked>>
<1> USE DEF Placing
<1> DEFINE c == callbacks[turn]
           at == RIndex(sorted, c.after)
           own == RIndex(sorted, c.name)
           target == RIndex(NamesOf(callbacks), c.after)
<1>1. stack # << >> /\ Top.at = "after"
  BY DEF PlaceAfter, At
<1>2. /\ status = "placing" /\ Len(stack) = 1 /\ stack[1].at = "after" /\ Current = c
      /\ turn \in 1 .. Len(callbacks) /\ c.before = Asked(turn).before
      /\ Unset \in {c.before, c.after}
      /\ c.after # Star /\ c.name \in Names /\ sorted \in Seq(Names)
      /\ c.after # Unset => at \in 1 .. Len(sorted)
      /\ c.after = Unset => at = 0 /\ target = 0
      /\ own = 0 <=> ~Has(sorted, c.name)
  <2>1. stack[1].at = "after"
    BY <1>1, TidyTurn
  <2> QED
    BY <1>1, <2>1, TidyTurn, NamesAssumption DEF TypeOK
<1>3. Has(sorted, c.name) <=> c.before # Unset
  BY <1>1, <1>2 DEF TidyPlacing
<1>4. \/ at # 0 /\ own = 0 /\ Proceed("append", Append(sorted, c.name)) /\ UNCHANGED callbacks
      \/ at # 0 /\ own # 0
      \/ at = 0 /\ target # 0
      \/ at = 0 /\ target = 0 /\ Proceed("append", sorted) /\ UNCHANGED callbacks
  BY <1>2, Zenon DEF PlaceAfter
<1>5. CASE at # 0 /\ own = 0 /\ Proceed("append", Append(sorted, c.name)) /\ UNCHANGED callbacks
  <2>1. /\ sorted' = Append(sorted, c.name) /\ UNCHANGED <<fns, status, turn, asked>>
        /\ stack' # << >> /\ Len(stack') = 1 /\ stack'[1].at = "append"
    BY <1>1, <1>2, <1>5, ProceedWorks
  <2>2. c.after # Unset /\ c.before = Unset /\ ~Has(sorted, c.name)
    BY <1>2, <1>3, <1>5
  <2>3. sorted' = InsertAt(sorted, Len(sorted) + 1, c.name)
    BY <1>2, <2>1, AppendIsInsertion
  <2>4. Len(sorted) + 1 \in 1 .. Len(sorted) + 1
    BY <1>2
  <2>5. PutAsAsked
    BY <2>2, <2>3, <2>4 DEF PutAsAsked
  <2>6. Has(sorted', c.name)
    BY <1>1, <2>2, <2>3, <2>4, TidyInsertion
  <2> QED
    BY <1>1, <1>5, <2>1, <2>2, <2>5, <2>6, TidyGoesOn
<1>6. CASE at = 0 /\ target = 0 /\ Proceed("append", sorted) /\ UNCHANGED callbacks
  <2>1. /\ sorted' = sorted /\ UNCHANGED <<fns, status, turn, asked>>
        /\ stack' # << >> /\ Len(stack') = 1 /\ stack'[1].at = "append"
    BY <1>1, <1>2, <1>6, ProceedWorks
  <2>2. c.after = Unset
    BY <1>2, <1>6
  <2> QED
    BY <1>1, <1>3, <1>6, <2>1, <2>2, TidyGoesOn
<1>7. ~(at # 0 /\ own # 0)
  BY <1>2, <1>3
<1>8. ~(at = 0 /\ target # 0)
  BY <1>2
<1> QED
  BY <1>4, <1>5, <1>6, <1>7, <1>8

\* ... and so does the end of the turn.
LEMMA TidyReturn ==
    ASSUME Placing, TidyPlacing, Tidy, Return
    PROVE  TidyPlacing'
<1> USE DEF Placing
<1> DEFINE c == callbacks[turn]
<1>1. /\ stack # << >> /\ Top.at = "append" /\ UNCHANGED <<callbacks, fns, status, turn, asked>>
      /\ stack' = SubSeq(stack, 1, Len(stack) - 1)
      /\ sorted' = IF RIndex(sorted, Current.name) = 0
                   THEN Append(sorted, Current.name) ELSE sorted
  BY DEF Return, At
<1>2. /\ Len(stack) = 1 /\ stack[1].at = "append" /\ Current = c
      /\ turn \in 1 .. Len(callbacks) /\ c.before = Asked(turn).before
      /\ c.after = Asked(turn).after
      /\ c.name \in Names /\ sorted \in Seq(Names)
      /\ RIndex(sorted, c.name) = 0 <=> ~Has(sorted, c.name)
  <2>1. stack[1].at = "append"
    BY <1>1, TidyTurn
  <2> QED
    BY <1>1, <2>1, TidyTurn DEF TypeOK
<1>3. Has(sorted, c.name) <=> c.before # Unset \/ c.after # Unset
  BY <1>1, <1>2 DEF TidyPlacing
<1>4. stack' = << >>
  <2>1. stack' = SubSeq(stack, 1, 0)
    BY <1>1, <1>2
  <2> QED
    BY <2>1, SubSeqEmpty
<1>5. CASE RIndex(sorted, c.name) = 0
  <2>1. sorted' = InsertAt(sorted, Len(sorted) + 1, c.name)
    BY <1>1, <1>2, <1>5, AppendIsInsertion
  <2>2. Len(sorted) + 1 \in 1 .. Len(sorted) + 1
    BY <1>2
  <2>3. PutAsAsked
    BY <1>2, <1>3, <1>5, <2>1, <2>2 DEF PutAsAsked
  <2> QED
    BY <1>1, <1>4, <2>3, TidyGoesOn
<1>6. CASE RIndex(sorted, c.name) # 0
  BY <1>1, <1>2, <1>4, <1>6, TidyGoesOn
<1> QED
  BY <1>5, <1>6

\* The next turn finds nothing of its callback.
LEMMA TidyBegin ==
    ASSUME Placing, TidyPlacing, Tidy, Begin
    PROVE  TidyPlacing'
<1> USE DEF Placing
<1>1. /\ status = "placing" /\ stack = << >> /\ turn < Len(callbacks)
      /\ turn' = turn + 1 /\ stack' = <<[of |-> turn + 1, at |-> "before"]>>
      /\ UNCHANGED <<callbacks, fns, status, sorted, asked>>
  BY DEF Begin
<1>2. turn \in Nat /\ Len(callbacks) \in Nat /\ turn + 1 \in 1 .. Len(callbacks)
  BY <1>1, CallbackTypes DEF TypeOK
<1>3. Len(stack') <= 1 /\ stack'[1].at = "before"
  BY <1>1
<1>4. /\ \A m \in 1 .. Len(callbacks) :
            /\ callbacks[m].before = Asked(m).before
            /\ callbacks[m].after = Asked(m).after
      /\ \A m \in 1 .. Len(callbacks) : Has(sorted, callbacks[m].name) => m <= turn
      /\ \A p, q \in 1 .. Len(callbacks) :
            q < p /\ Has(sorted, callbacks[p].name) => PlacedAsAsked(p, q)
  BY DEF TidyPlacing
<1>5. ~Has(sorted, callbacks[turn + 1].name)
  BY <1>2, <1>4
<1>6. \A p, q : PlacedAsAsked(p, q)' <=> PlacedAsAsked(p, q)
  BY <1>1 DEF PlacedAsAsked, Asked
<1>7. \A m \in 1 .. Len(callbacks) : Has(sorted, callbacks[m].name) => m <= turn + 1
  BY <1>2, <1>4
<1>8. \A m : Asked(m)' = Asked(m)
  BY <1>1 DEF Asked
<1>9. ~Has(sorted', callbacks'[turn'].name)
  BY <1>1, <1>5
<1>10. /\ status' \in {"ok", "arranging", "placing"}
       /\ \A m \in 1 .. Len(callbacks') :
             callbacks'[m].before = Asked(m)'.before /\ callbacks'[m].after = Asked(m)'.after
       /\ \A m \in 1 .. Len(callbacks') : Has(sorted', callbacks'[m].name) => m <= turn'
       /\ \A p, q \in 1 .. Len(callbacks') :
             q < p /\ Has(sorted', callbacks'[p].name) => PlacedAsAsked(p, q)'
  BY <1>1, <1>4, <1>6, <1>7, <1>8
<1> QED
  BY <1>3, <1>9, <1>10 DEF TidyPlacing

-----------------------------------------------------------------------------
(* The functions *)

\* The order of the functions is that of a sequence.
LEMMA RunsBeforeIs ==
    \A i, j : RunsBefore(i, j) <=> Prec(fns, i, j)
BY DEF RunsBefore, Prec

\* What a compilation that succeeds has found for name m of the order.
Of(m) == RIndex(NamesOf(callbacks), sorted[m])

\* Each name that was sorted gives one handler, that of the last callback of
\* the name.
LEMMA FinishFinds ==
    ASSUME Placing, Finish
    PROVE  /\ status = "placing" /\ stack = << >> /\ turn = Len(callbacks)
           /\ UNCHANGED <<callbacks, asked>> /\ status' = "ok"
           /\ sorted' = << >> /\ stack' = << >> /\ turn' = 0
           /\ fns' \in Seq(1 .. MaxOps) /\ Len(fns') = Len(sorted)
           /\ Len(sorted) \in Nat /\ Len(callbacks) \in Nat
           /\ \A m \in 1 .. Len(sorted) :
                 /\ Of(m) \in 1 .. Len(callbacks)
                 /\ callbacks[Of(m)].name = sorted[m]
                 /\ \A k \in 1 .. Len(callbacks) :
                       callbacks[k].name = sorted[m] => k <= Of(m)
                 /\ fns'[m] = callbacks[Of(m)].handler
                 /\ fns'[m] \in Standing
                 /\ asked[fns'[m]].name = sorted[m]
           /\ \A k \in 1 .. Len(callbacks) : Has(sorted, callbacks[k].name)
           /\ Settle("ok", fns')
<1> USE DEF Placing
<1>1. /\ status = "placing" /\ stack = << >> /\ turn = Len(callbacks)
      /\ fns' = [m \in 1 .. Len(sorted) |-> callbacks[Of(m)].handler]
      /\ UNCHANGED <<callbacks, asked>> /\ status' = "ok"
      /\ sorted' = << >> /\ stack' = << >> /\ turn' = 0
  BY DEF Finish, Settle, Of
<1>2. sorted \in Seq(Names) /\ Len(sorted) \in Nat /\ Len(callbacks) \in Nat
  BY CallbackTypes DEF TypeOK
<1>3. /\ NamesOf(callbacks) \in Seq(Names) /\ Len(NamesOf(callbacks)) = Len(callbacks)
      /\ \A k \in 1 .. Len(callbacks) : NamesOf(callbacks)[k] = callbacks[k].name
  BY CallbackTypes DEF NamesOf
<1>4. ASSUME NEW m \in 1 .. Len(sorted)
      PROVE  /\ Of(m) \in 1 .. Len(callbacks)
             /\ callbacks[Of(m)].name = sorted[m]
             /\ \A k \in 1 .. Len(callbacks) : callbacks[k].name = sorted[m] => k <= Of(m)
  <2>1. PICK k \in 1 .. Len(callbacks) : callbacks[k].name = sorted[m]
    BY DEF TurnsAreSorted
  <2>2. Has(NamesOf(callbacks), sorted[m])
    BY <1>3, <2>1 DEF Has
  <2>3. Of(m) \in 1 .. Len(callbacks) /\ NamesOf(callbacks)[Of(m)] = sorted[m]
    BY <1>3, <2>2, RIndexFinds DEF Of
  <2>4. \A j \in Of(m) + 1 .. Len(callbacks) : NamesOf(callbacks)[j] # sorted[m]
    BY <1>3, RIndexIsLast DEF Of
  <2>5. ASSUME NEW j \in 1 .. Len(callbacks), callbacks[j].name = sorted[m]
        PROVE  j <= Of(m)
    <3>1. j \notin Of(m) + 1 .. Len(callbacks)
      BY <1>3, <2>4, <2>5
    <3> QED
      BY <1>2, <2>3, <3>1
  <2> QED
    BY <1>3, <2>3, <2>5
<1>5. ASSUME NEW m \in 1 .. Len(sorted)
      PROVE  /\ fns'[m] = callbacks[Of(m)].handler
             /\ fns'[m] \in Standing /\ fns'[m] \in 1 .. MaxOps
             /\ asked[fns'[m]].name = sorted[m]
  <2>1. fns'[m] = callbacks[Of(m)].handler
    BY <1>1
  <2>2. /\ callbacks[Of(m)].handler \in Standing
        /\ asked[callbacks[Of(m)].handler].name = callbacks[Of(m)].name
    BY <1>4 DEF CallbacksStand, Asked
  <2>3. callbacks[Of(m)].handler \in 1 .. MaxOps
    BY <1>4, CallbackTypes
  <2> QED
    BY <1>4, <2>1, <2>2, <2>3
<1>6. fns' \in Seq(1 .. MaxOps) /\ Len(fns') = Len(sorted)
  BY <1>1, <1>2, <1>5
<1>7. ASSUME NEW k \in 1 .. Len(callbacks) PROVE Has(sorted, callbacks[k].name)
  BY <1>1 DEF TurnsAreSorted
<1>8. Settle("ok", fns')
  BY <1>1 DEF Settle
<1> QED
  BY <1>1, <1>2, <1>4, <1>5, <1>6, <1>7, <1>8

\* So every standing name has one ...
LEMMA FinishOneHandler ==
    ASSUME Placing, Finish
    PROVE  OneHandlerPerName'
<1>1. Standing' = Standing /\ UNCHANGED asked
  BY FinishFinds, StandingAsIs
<1>2. Handlers' \subseteq Standing
  BY FinishFinds DEF Handlers
<1>3. ASSUME NEW i \in Standing
      PROVE  \E m \in 1 .. Len(fns') :
                \A n \in 1 .. Len(fns') : asked[fns'[n]].name = asked[i].name <=> n = m
  <2>1. PICK k \in 1 .. Len(callbacks) : callbacks[k].handler = i
    BY DEF Placing, CallbacksStand
  <2>2. callbacks[k].name = asked[i].name
    BY <2>1 DEF Placing, CallbacksStand, Asked
  <2>3. PICK m \in 1 .. Len(sorted) : sorted[m] = asked[i].name
    BY <2>2, FinishFinds DEF Has
  <2>4. \A n \in 1 .. Len(sorted) : sorted[n] = asked[i].name <=> n = m
    BY <2>3 DEF Placing, TurnsAreSorted, Distinct
  <2> QED
    BY <2>3, <2>4, FinishFinds
<1> QED
  BY <1>1, <1>2, <1>3 DEF OneHandlerPerName, Handlers

\* ... the latest, when the callbacks are in the order of the calls ...
LEMMA FinishLatest ==
    ASSUME Placing, Finish
    PROVE  LatestHandlerRuns'
<1>1. Standing' = Standing /\ UNCHANGED asked /\ (NoStar' <=> NoStar)
  BY FinishFinds, StandingAsIs
<1> SUFFICES ASSUME NoStar PROVE Handlers' = Latest'
  BY <1>1 DEF LatestHandlerRuns
<1>2. Latest' = Latest
  BY <1>1 DEF Latest
<1>3. \A k \in 1 .. Len(callbacks) :
         /\ callbacks[k].handler \in Standing /\ callbacks[k].handler \in Nat
         /\ asked[callbacks[k].handler].name = callbacks[k].name
         /\ Asked(k) = asked[callbacks[k].handler]
  BY CallbackTypes DEF Placing, CallbacksStand, Asked
<1>4. \A j, k \in 1 .. Len(callbacks) : j < k => callbacks[j].handler < callbacks[k].handler
  BY <1>3 DEF Placing, InOrder, NoStar
<1>5. ASSUME NEW m \in 1 .. Len(fns') PROVE fns'[m] \in Latest
  <2>1. m \in 1 .. Len(sorted)
    BY FinishFinds
  <2>2. ASSUME NEW j \in Standing, asked[j].name = asked[fns'[m]].name
        PROVE  j <= fns'[m]
    <3>1. PICK k \in 1 .. Len(callbacks) : callbacks[k].handler = j
      BY DEF Placing, CallbacksStand
    <3>2. callbacks[k].name = sorted[m]
      BY <1>3, <2>1, <2>2, <3>1, FinishFinds
    <3>3. k <= Of(m) /\ Of(m) \in 1 .. Len(callbacks) /\ fns'[m] = callbacks[Of(m)].handler
      BY <2>1, <3>2, FinishFinds
    <3>4. k = Of(m) \/ k < Of(m)
      BY <3>3
    <3> QED
      BY <1>3, <1>4, <3>1, <3>3, <3>4
  <2> QED
    BY <2>1, <2>2, FinishFinds DEF Latest
<1>6. ASSUME NEW i \in Latest PROVE \E m \in 1 .. Len(fns') : fns'[m] = i
  <2>1. i \in Standing
    BY DEF Latest
  <2>2. PICK m \in 1 .. Len(fns') : asked[fns'[m]].name = asked[i].name
    BY <1>1, <2>1, FinishOneHandler, FinishFinds DEF OneHandlerPerName
  <2>3. fns'[m] \in Latest /\ fns'[m] \in Standing
    BY <1>5 DEF Latest
  <2>6. asked[fns'[m]].name = asked[i].name
    BY <1>1, <2>2
  <2>7. fns'[m] <= i
    BY <2>3, <2>6 DEF Latest
  <2>8. i <= fns'[m]
    BY <2>1, <2>3, <2>6 DEF Latest
  <2>4. i <= fns'[m] /\ fns'[m] <= i
    BY <2>7, <2>8
  <2>9. asked \in Seq(Calls) /\ Len(asked) \in Nat
    BY DEF Placing, Phases
  <2>10. Standing \subseteq Nat
    BY <2>9, StandingIsOld
  <2>5. i \in Nat /\ fns'[m] \in Nat
    BY <2>1, <2>3, <2>10
  <2> QED
    BY <2>4, <2>5
<1> QED
  BY <1>2, <1>5, <1>6 DEF Handlers

\* ... and who asked to be before another one is.
LEMMA FinishGuards ==
    ASSUME Placing, Finish
    PROVE  GuardHolds'
<1>1. Standing' = Standing /\ UNCHANGED asked
  BY FinishFinds, StandingAsIs
<1> SUFFICES ASSUME NEW i \in Standing, NEW j \in Standing, j < i,
                    asked[i].before = asked[j].name,
                    Star \notin {asked[j].before, asked[j].after},
                    \A k \in Standing \ {i} : asked[k].name # asked[i].name,
                    NEW n \in 1 .. Len(fns'), asked[fns'[n]].name = asked[j].name,
                    \A k \in 1 .. n - 1 : fns'[k] \notin {i}
             PROVE  FALSE
  BY <1>1 DEF GuardHolds, Execute
<1>2. PICK p \in 1 .. Len(callbacks) : callbacks[p].handler = i
  BY DEF Placing, CallbacksStand
<1>3. PICK q \in 1 .. Len(callbacks) : callbacks[q].handler = j
  BY DEF Placing, CallbacksStand
<1>4. /\ callbacks[p].name = asked[i].name /\ Asked(p) = asked[i]
      /\ callbacks[q].name = asked[j].name /\ Asked(q) = asked[j]
  BY <1>2, <1>3 DEF Placing, CallbacksStand, Asked
<1>5. i # j /\ i \in Nat /\ j \in Nat
  BY StandingIsOld
<1>6. q < p
  <2>1. ~(p < q)
    BY <1>2, <1>3, <1>4, <1>5 DEF Placing, InOrder
  <2>2. p # q
    BY <1>2, <1>3, <1>5
  <2> QED
    BY <2>1, <2>2
<1>7. asked[j].name # asked[i].name
  BY <1>5
<1>8. Prec(sorted, asked[i].name, asked[j].name)
  <2>1. p \in 1 .. turn /\ q \in 1 .. turn /\ stack = << >> /\ status = "placing"
    BY FinishFinds
  <2> QED
    BY <1>4, <1>6, <1>7, <2>1 DEF Placing, GuardsPlaced
<1>9. PICK a \in 1 .. Len(sorted), b \in 1 .. Len(sorted) :
         a < b /\ sorted[a] = asked[i].name /\ sorted[b] = asked[j].name
  BY <1>8 DEF Prec
<1>10. b = n
  <2>1. n \in 1 .. Len(sorted) /\ sorted[n] = asked[j].name
    BY FinishFinds
  <2> QED
    BY <1>9, <2>1 DEF Placing, TurnsAreSorted, Distinct
<1>11. fns'[a] = i
  <2>1. fns'[a] \in Standing /\ asked[fns'[a]].name = asked[i].name
    BY <1>9, FinishFinds
  <2> QED
    BY <2>1
<1>12. a \in 1 .. n - 1
  BY <1>9, <1>10, FinishFinds
<1> QED
  BY <1>11, <1>12

\* Tidy calls: one handler for each name, so the order of the names is that of
\* the handlers.
LEMMA FinishAsAsked ==
    ASSUME Placing, TidyPlacing, Tidy, Finish
    PROVE  FunctionsAsAsked'
<1> USE DEF Placing
<1>1. UNCHANGED asked /\ asked \in Seq(Calls) /\ Len(asked) \in Nat
  BY FinishFinds DEF Phases
<1>2. \A k, l \in 1 .. Len(callbacks) :
         callbacks[k].name = callbacks[l].name => k = l
  BY TidyCallbacks
<1>3. \A k \in 1 .. Len(callbacks) :
         /\ callbacks[k].handler \in Standing /\ callbacks[k].handler \in 1 .. Len(asked)
         /\ callbacks[k].handler \in Nat
         /\ asked[callbacks[k].handler].name = callbacks[k].name
         /\ asked[callbacks[k].handler].kind = "register"
         /\ Asked(k) = asked[callbacks[k].handler]
  <2>1. ASSUME NEW k \in 1 .. Len(callbacks)
        PROVE  callbacks[k].handler \in Standing /\ callbacks[k].handler \in 1 .. Len(asked)
    BY StandingIsOld DEF CallbacksStand
  <2>2. ASSUME NEW k \in 1 .. Len(callbacks)
        PROVE  asked[callbacks[k].handler].kind = "register"
    <3>1. asked[callbacks[k].handler] \in Calls
      BY <1>1, <2>1
    <3> QED
      BY <2>1, <3>1 DEF Calls, Standing
  <2> QED
    BY <2>1, <2>2 DEF CallbacksStand, Asked
\* The handler of callback k is at the place of its name.
<1>4. \A k \in 1 .. Len(callbacks) : \A m \in 1 .. Len(sorted) :
         fns'[m] = callbacks[k].handler <=> sorted[m] = callbacks[k].name
  <2> SUFFICES ASSUME NEW k \in 1 .. Len(callbacks), NEW m \in 1 .. Len(sorted)
               PROVE  fns'[m] = callbacks[k].handler <=> sorted[m] = callbacks[k].name
    OBVIOUS
  <2>1. /\ Of(m) \in 1 .. Len(callbacks) /\ callbacks[Of(m)].name = sorted[m]
        /\ fns'[m] = callbacks[Of(m)].handler
    BY FinishFinds
  <2>2. ASSUME fns'[m] = callbacks[k].handler PROVE sorted[m] = callbacks[k].name
    BY <2>1, <2>2 DEF CallbacksStand
  <2>3. ASSUME sorted[m] = callbacks[k].name PROVE fns'[m] = callbacks[k].handler
    BY <1>2, <2>1, <2>3
  <2> QED
    BY <2>2, <2>3
<1>5. Len(fns') = Len(sorted)
  BY FinishFinds
<1>6. \A k, l \in 1 .. Len(callbacks) :
         Prec(fns', callbacks[k].handler, callbacks[l].handler)
           <=> Prec(sorted, callbacks[k].name, callbacks[l].name)
  BY <1>4, <1>5 DEF Prec
<1>7. \A k \in 1 .. Len(callbacks) :
         Has(fns', callbacks[k].handler) /\ Has(sorted, callbacks[k].name)
  <2>1. \A k \in 1 .. Len(callbacks) : Has(sorted, callbacks[k].name)
    BY FinishFinds
  <2> QED
    BY <1>4, <1>5, <2>1 DEF Has
<1>8. \A i : Has(fns', i) => \E k \in 1 .. Len(callbacks) : callbacks[k].handler = i
  BY <1>5, FinishFinds DEF Has
<1>9. Distinct(fns')
  <2> SUFFICES ASSUME NEW m \in 1 .. Len(sorted), NEW n \in 1 .. Len(sorted), fns'[m] = fns'[n]
               PROVE  m = n
    BY <1>5 DEF Distinct
  <2>1. sorted[m] = sorted[n]
    BY FinishFinds
  <2> QED
    BY <2>1 DEF TurnsAreSorted, Distinct
<1>10. \A k, l \in 1 .. Len(callbacks) :
          callbacks[l].handler < callbacks[k].handler => l < k
  <2> SUFFICES ASSUME NEW k \in 1 .. Len(callbacks), NEW l \in 1 .. Len(callbacks),
                      callbacks[l].handler < callbacks[k].handler
               PROVE  l < k
    OBVIOUS
  <2>1. k < l => callbacks[k].handler < callbacks[l].handler
    BY TidyCallbacks
  <2>2. k = l \/ k < l \/ l < k
    OBVIOUS
  <2> QED
    BY <1>3, <2>1, <2>2
<1>11. ASSUME NEW k \in 1 .. Len(callbacks), NEW l \in 1 .. Len(callbacks), l < k
       PROVE  Prec(fns', callbacks[k].handler, callbacks[l].handler) <=>
                 /\ Asked(k).before # Unset
                 /\ \E x \in 1 .. Len(asked) :
                       /\ Has(fns', x) /\ asked[x].name = Asked(k).before
                       /\ x = callbacks[l].handler \/ Prec(fns', x, callbacks[l].handler)
  <2>1. PlacedAsAsked(k, l)
    BY <1>7, <1>11 DEF TidyPlacing
  <2>2. Prec(fns', callbacks[k].handler, callbacks[l].handler) <=>
           /\ Asked(k).before # Unset
           /\ \/ Asked(k).before = callbacks[l].name
              \/ Prec(sorted, Asked(k).before, callbacks[l].name)
    BY <1>6, <2>1 DEF PlacedAsAsked
  <2>3. CASE Asked(k).before = Unset
    BY <2>2, <2>3
  <2>4. CASE Asked(k).before # Unset
    <3>1. Asked(k).before \in {Asked(k).before, Asked(k).after} \ {Unset}
      BY <2>4
    <3>2. PICK r \in 1 .. Len(callbacks) : r < k /\ callbacks[r].name = Asked(k).before
      BY <3>1, TidyCallbacks
    <3>3. \A x : Has(fns', x) /\ asked[x].name = Asked(k).before <=> x = callbacks[r].handler
      <4>1. Has(fns', callbacks[r].handler) /\ asked[callbacks[r].handler].name = Asked(k).before
        BY <1>3, <1>7, <3>2
      <4>2. ASSUME NEW x, Has(fns', x), asked[x].name = Asked(k).before
            PROVE  x = callbacks[r].handler
        <5>1. PICK s \in 1 .. Len(callbacks) : callbacks[s].handler = x
          BY <1>8, <4>2
        <5>2. callbacks[s].name = callbacks[r].name
          BY <1>3, <3>2, <4>2, <5>1
        <5> QED
          BY <1>2, <5>1, <5>2
      <4> QED
        BY <4>1, <4>2
    <3>4. Asked(k).before = callbacks[l].name <=> callbacks[r].handler = callbacks[l].handler
      BY <1>2, <3>2 DEF CallbacksStand
    <3>5. Prec(sorted, Asked(k).before, callbacks[l].name)
            <=> Prec(fns', callbacks[r].handler, callbacks[l].handler)
      BY <1>6, <3>2
    <3>6. callbacks[r].handler \in 1 .. Len(asked)
      BY <1>3
    <3> QED
      BY <2>2, <2>4, <3>3, <3>4, <3>5, <3>6
  <2> QED
    BY <2>3, <2>4
<1>12. ASSUME NEW i, Has(fns', i)
       PROVE  /\ i \in 1 .. Len(asked) /\ asked[i].kind = "register"
              /\ asked[i].before # Unset =>
                    \E x \in 1 .. i - 1 : Has(fns', x) /\ asked[x].name = asked[i].before
              /\ \A k \in 1 .. i - 1 : Has(fns', k) =>
                    (Prec(fns', i, k) <=>
                        /\ asked[i].before # Unset
                        /\ \E x \in 1 .. Len(asked) :
                              /\ Has(fns', x) /\ asked[x].name = asked[i].before
                              /\ x = k \/ Prec(fns', x, k))
  <2>1. PICK p \in 1 .. Len(callbacks) : callbacks[p].handler = i
    BY <1>8, <1>12
  <2>2. Asked(p) = asked[i] /\ i \in 1 .. Len(asked) /\ asked[i].kind = "register" /\ i \in Nat
    BY <1>3, <2>1
  <2>3. ASSUME asked[i].before # Unset
        PROVE  \E x \in 1 .. i - 1 : Has(fns', x) /\ asked[x].name = asked[i].before
    <3>1. asked[i].before \in {Asked(p).before, Asked(p).after} \ {Unset}
      BY <2>2, <2>3
    <3>2. PICK r \in 1 .. Len(callbacks) : r < p /\ callbacks[r].name = asked[i].before
      BY <3>1, TidyCallbacks
    <3>3. callbacks[r].handler < i
      BY <2>1, <3>2, TidyCallbacks
    <3>4. callbacks[r].handler \in 1 .. i - 1
      BY <1>3, <2>2, <3>3
    <3> QED
      BY <1>3, <1>7, <3>2, <3>4
  <2>4. ASSUME NEW k \in 1 .. i - 1, Has(fns', k)
        PROVE  Prec(fns', i, k) <=>
                  /\ asked[i].before # Unset
                  /\ \E x \in 1 .. Len(asked) :
                        /\ Has(fns', x) /\ asked[x].name = asked[i].before
                        /\ x = k \/ Prec(fns', x, k)
    <3>1. PICK q \in 1 .. Len(callbacks) : callbacks[q].handler = k
      BY <1>8, <2>4
    <3>2. callbacks[q].handler < callbacks[p].handler
      BY <2>1, <2>2, <2>4, <3>1
    <3>3. q < p
      BY <1>10, <3>2
    <3> QED
      BY <1>11, <2>1, <2>2, <3>1, <3>3
  <2> QED
    BY <2>2, <2>3, <2>4
<1> QED
  BY <1>1, <1>9, <1>12 DEF FunctionsAsAsked, InAskedOrder, RunAsAsked

-----------------------------------------------------------------------------
(* Every step keeps the invariant *)

\* A compilation that fails leaves no functions, or the old ones.
LEMMA EndsSettle ==
    ASSUME Placing, Ends
    PROVE  Placing' /\ UNCHANGED <<callbacks, asked>>
           /\ \/ status' = "conflict" /\ fns' = << >>
              \/ status' = "overflow" /\ fns' = fns
<1>1. << >> \in Seq(1 .. MaxOps) /\ fns \in Seq(1 .. MaxOps)
  BY DEF Placing, TypeOK
<1>2. CASE Settle("conflict", << >>)
  <2>1. Placing'
    BY <1>1, <1>2, SettleKeeps
  <2> QED
    BY <1>2, <2>1 DEF Settle
<1>3. CASE Settle("overflow", fns)
  <2>1. Placing'
    BY <1>1, <1>3, SettleKeeps
  <2> QED
    BY <1>3, <2>1 DEF Settle
<1> QED
  BY <1>2, <1>3 DEF Ends

\* The points but the first move no guard.
LEMMA MovesKeepPlacing ==
    ASSUME Placing, Moves, ~(stack[1].at = "before" /\ Len(stack) = 1)
    PROVE  Placing'
BY MovesKeep, MovesKeepGuards DEF Placing

\* The point that sortCallback is at when it has not called itself.
LEMMA TopIsFirst ==
    ASSUME TypeOK, Phases, stack # << >>, Len(stack) = 1
    PROVE  stack[1].at = Top.at
BY TopOfStack

\* Each of the steps, unless it ends the compilation.
LEMMA PlaceBeforeKeeps ==
    ASSUME Placing, PlaceBefore, ~Ends
    PROVE  Placing' /\ UNCHANGED <<fns, status, asked>>
<1>1. Moves
  BY PlaceBeforeMoves DEF Placing
<1>2. \A q \in 1 .. turn - 1 :
         Len(stack) = 1 /\ Asked(turn).before = callbacks[q].name
           /\ callbacks[turn].name # callbacks[q].name
         => Prec(sorted', callbacks[turn].name, callbacks[q].name)
  BY PlaceBeforeGuards DEF Placing
<1>3. GuardsPlaced'
  BY <1>1, <1>2, MovesKeepGuards DEF Placing
<1> QED
  BY <1>1, <1>3, MovesKeep DEF Placing, Moves

\* "After".
LEMMA PlaceAfterKeeps ==
    ASSUME Placing, PlaceAfter, ~Ends
    PROVE  Placing' /\ UNCHANGED <<fns, status, asked>>
<1>1. Moves
  BY PlaceAfterMoves DEF Placing
<1>2. stack # << >> /\ Top.at = "after"
  BY DEF PlaceAfter, At
<1> QED
  BY <1>1, <1>2, TopIsFirst, MovesKeepPlacing DEF Placing, Moves

\* The second call.
LEMMA PlaceAgainKeeps ==
    ASSUME Placing, PlaceAgain, ~Ends
    PROVE  Placing' /\ UNCHANGED <<fns, status, asked>>
<1>1. Moves
  BY PlaceAgainMoves DEF Placing
<1>2. stack # << >> /\ Top.at = "again"
  BY DEF PlaceAgain, At
<1> QED
  BY <1>1, <1>2, TopIsFirst, MovesKeepPlacing DEF Placing, Moves

\* The return.
LEMMA ReturnKeeps ==
    ASSUME Placing, Return
    PROVE  Placing' /\ UNCHANGED <<fns, status, asked>>
<1>1. Moves
  BY ReturnMoves DEF Placing
<1>2. stack # << >> /\ Top.at = "append"
  BY DEF Return, At
<1> QED
  BY <1>1, <1>2, TopIsFirst, MovesKeepPlacing DEF Placing, Moves

\* A compilation of tidy calls that begins, or has ended.
LEMMA TidyCleared ==
    ASSUME sorted' = << >>, stack' = << >>,
           status' \in {"ok", "arranging", "placing"},
           \A m \in 1 .. Len(callbacks') :
              /\ callbacks'[m].before = asked'[callbacks'[m].handler].before
              /\ callbacks'[m].after = asked'[callbacks'[m].handler].after
    PROVE  TidyPlacing'
<1>1. \A x : ~Has(sorted', x)
  BY DEF Has
<1>2. Len(stack') <= 1
  OBVIOUS
<1> QED
  BY <1>1, <1>2 DEF TidyPlacing, Asked

\* The same when the callbacks are some of those there were.
LEMMA TidyKept ==
    ASSUME Placing, TidyPlacing, Tidy, sorted' = << >>, stack' = << >>,
           status' \in {"ok", "arranging", "placing"},
           \A i \in 1 .. Len(asked) : asked'[i] = asked[i],
           \A m \in 1 .. Len(callbacks') : \E k \in 1 .. Len(callbacks) :
              callbacks'[m] = callbacks[k]
    PROVE  TidyPlacing'
<1>1. ASSUME NEW m \in 1 .. Len(callbacks')
      PROVE  /\ callbacks'[m].before = asked'[callbacks'[m].handler].before
             /\ callbacks'[m].after = asked'[callbacks'[m].handler].after
  <2>1. PICK k \in 1 .. Len(callbacks) : callbacks'[m] = callbacks[k]
    OBVIOUS
  <2>2. callbacks[k].handler \in 1 .. Len(asked)
    BY StandingIsOld DEF Placing, CallbacksStand
  <2>3. /\ callbacks[k].before = asked[callbacks[k].handler].before
        /\ callbacks[k].after = asked[callbacks[k].handler].after
    BY DEF TidyPlacing, Asked
  <2> QED
    BY <2>1, <2>2, <2>3
<1> QED
  BY <1>1, TidyCleared

\* A call can make tidy calls untidy, not the other way round: a registration
\* ...
LEMMA TidyRegister ==
    ASSUME Placing, TidyPlacing, NEW name \in Names, NEW order \in Orders,
           RegisterCallback(name, order)
    PROVE  TidyPlacing' /\ (Tidy' => Tidy)
<1>1. /\ status' = "arranging" /\ UNCHANGED <<fns, turn, sorted, stack>>
      /\ Standing' \subseteq Standing \cup {Len(asked) + 1}
      /\ Len(callbacks') = Len(callbacks) + 1
      /\ \A m \in 1 .. Len(callbacks) : callbacks'[m] = callbacks[m]
      /\ callbacks'[Len(callbacks) + 1].before = asked'[Len(asked) + 1].before
      /\ callbacks'[Len(callbacks) + 1].after = asked'[Len(asked) + 1].after
      /\ callbacks'[Len(callbacks) + 1].handler = Len(asked) + 1
  BY RegisterKeeps
<1>2. Asks("register", name, order) /\ order \in [before : Constraint, after : Constraint]
  BY OrdersAssumption DEF RegisterCallback
<1>3. /\ Len(asked) \in Nat /\ Len(asked') = Len(asked) + 1
      /\ \A i \in 1 .. Len(asked) : asked'[i] = asked[i]
      /\ Settled
  BY <1>2, CallsAppend DEF Placing
<1>4. Tidy' => Tidy
  BY <1>1, <1>3, TidyBefore
<1>5. sorted = << >> /\ stack = << >>
  BY <1>3 DEF Placing, Phases, Settled
<1>6. ASSUME Tidy', NEW m \in 1 .. Len(callbacks')
      PROVE  /\ callbacks'[m].before = asked'[callbacks'[m].handler].before
             /\ callbacks'[m].after = asked'[callbacks'[m].handler].after
  <2>1. m \in 1 .. Len(callbacks) \/ m = Len(callbacks) + 1
    BY <1>1, CallbackTypes DEF Placing
  <2>2. CASE m = Len(callbacks) + 1
    BY <1>1, <2>2
  <2>3. CASE m \in 1 .. Len(callbacks)
    <3>1. callbacks[m].handler \in 1 .. Len(asked)
      BY <2>3, StandingIsOld DEF Placing, CallbacksStand
    <3>2. /\ callbacks[m].before = asked[callbacks[m].handler].before
          /\ callbacks[m].after = asked[callbacks[m].handler].after
      BY <1>4, <1>6, <2>3 DEF TidyPlacing, Asked
    <3> QED
      BY <1>1, <1>3, <2>3, <3>1, <3>2
  <2> QED
    BY <2>1, <2>2, <2>3
<1>7. Tidy' => TidyPlacing'
  BY <1>1, <1>5, <1>6, TidyCleared
<1>8. ~Tidy' => TidyPlacing'
  BY DEF TidyPlacing
<1> QED
  BY <1>4, <1>7, <1>8

\* ... or a removal.
LEMMA TidyRemove ==
    ASSUME Placing, TidyPlacing, NEW name \in Names, RemoveCallback(name)
    PROVE  TidyPlacing' /\ (Tidy' => Tidy)
<1>1. /\ status' = "arranging" /\ UNCHANGED <<fns, turn, sorted, stack>>
      /\ Standing' \subseteq Standing \cup {Len(asked) + 1}
      /\ \A m \in 1 .. Len(callbacks') : \E k \in 1 .. Len(callbacks) :
            callbacks'[m] = callbacks[k]
  BY RemoveKeeps
<1> DEFINE order == [before |-> Unset, after |-> Unset]
<1>2. Asks("remove", name, order) /\ order \in [before : Constraint, after : Constraint]
  BY DEF RemoveCallback, Constraint
<1>3. /\ Len(asked) \in Nat /\ Len(asked') = Len(asked) + 1
      /\ \A i \in 1 .. Len(asked) : asked'[i] = asked[i]
      /\ Settled
  BY <1>2, CallsAppend DEF Placing
<1>4. Tidy' => Tidy
  BY <1>1, <1>3, TidyBefore
<1>5. sorted = << >> /\ stack = << >>
  BY <1>3 DEF Placing, Phases, Settled
<1>6. Tidy' => TidyPlacing'
  BY <1>1, <1>3, <1>4, <1>5, TidyKept
<1>7. ~Tidy' => TidyPlacing'
  BY DEF TidyPlacing
<1> QED
  BY <1>4, <1>6, <1>7

\* What the calls so far asked for stays as it is.
LEMMA OrderStands ==
    ASSUME TypeOK, FunctionsAsAsked, Tidy' => Tidy, UNCHANGED fns,
           Len(asked) \in Nat, Len(asked') = Len(asked) + 1,
           \A i \in 1 .. Len(asked) : asked'[i] = asked[i]
    PROVE  FunctionsAsAsked'
<1> SUFFICES ASSUME Tidy' PROVE InAskedOrder(fns)'
  BY DEF FunctionsAsAsked
<1>1. /\ Distinct(fns)
      /\ \A i : Has(fns, i) =>
            /\ i \in 1 .. Len(asked) /\ asked[i].kind = "register"
            /\ asked[i].before # Unset =>
                  \E x \in 1 .. i - 1 : Has(fns, x) /\ asked[x].name = asked[i].before
            /\ \A k \in 1 .. i - 1 : Has(fns, k) => RunAsAsked(fns, i, k)
  BY DEF FunctionsAsAsked, InAskedOrder
<1>2. \A i : Has(fns, i) => i \in 1 .. Len(asked') /\ asked'[i] = asked[i]
  BY <1>1
<1>3. ASSUME NEW i, Has(fns, i), NEW k \in 1 .. i - 1, Has(fns, k)
      PROVE  RunAsAsked(fns, i, k)'
  <2>1. Prec(fns, i, k) <=>
           /\ asked[i].before # Unset
           /\ \E x \in 1 .. Len(asked) :
                 /\ Has(fns, x) /\ asked[x].name = asked[i].before
                 /\ x = k \/ Prec(fns, x, k)
    BY <1>1, <1>3 DEF RunAsAsked
  <2>2. Prec(fns, i, k) <=>
           /\ asked'[i].before # Unset
           /\ \E x \in 1 .. Len(asked') :
                 /\ Has(fns, x) /\ asked'[x].name = asked'[i].before
                 /\ x = k \/ Prec(fns, x, k)
    BY <1>1, <1>2, <1>3, <2>1, Zenon
  <2> QED
    BY <2>2 DEF RunAsAsked
<1>4. Distinct(fns')
  BY <1>1
<1>5. ASSUME NEW i, Has(fns', i)
      PROVE  /\ i \in 1 .. Len(asked') /\ asked'[i].kind = "register"
             /\ asked'[i].before # Unset =>
                   \E x \in 1 .. i - 1 : Has(fns', x) /\ asked'[x].name = asked'[i].before
             /\ \A k \in 1 .. i - 1 : Has(fns', k) => RunAsAsked(fns, i, k)'
  <2>1. Has(fns, i)
    BY <1>5
  <2>2. asked'[i].before # Unset =>
           \E x \in 1 .. i - 1 : Has(fns', x) /\ asked'[x].name = asked'[i].before
    BY <1>1, <1>2, <2>1
  <2>3. \A k \in 1 .. i - 1 : Has(fns', k) => RunAsAsked(fns, i, k)'
    BY <1>3, <2>1
  <2> QED
    BY <1>1, <1>2, <2>1, <2>2, <2>3
<1> QED
  BY <1>4, <1>5 DEF InAskedOrder

\* Nothing runs when there are no functions.
LEMMA NoFunctions ==
    ASSUME fns' = << >>
    PROVE  /\ InAskedOrder(fns)' /\ Handlers' = {}
           /\ GuardHolds'
<1>1. \A x : ~Has(fns', x)
  BY DEF Has
<1>2. Distinct(fns')
  BY DEF Distinct
<1>3. InAskedOrder(fns)'
  BY <1>1, <1>2 DEF InAskedOrder
<1>4. \A m \in 1 .. Len(fns') : FALSE
  OBVIOUS
<1>5. Handlers' = {}
  BY <1>4 DEF Handlers
<1>6. \A i : \A k \in Execute({i})' : FALSE
  BY <1>4 DEF Execute
<1>7. GuardHolds'
  BY <1>6 DEF GuardHolds
<1> QED
  BY <1>3, <1>5, <1>7

\* Functions that stay are in the order they were.
LEMMA FunctionsAsBefore ==
    ASSUME FunctionsAsAsked, UNCHANGED <<fns, asked>>
    PROVE  FunctionsAsAsked'
BY StandingAsIs DEF FunctionsAsAsked, InAskedOrder, RunAsAsked

\* A compilation that has not ended well.
LEMMA Unfinished ==
    ASSUME status' \notin {"ok", "conflict"}
    PROVE  OneHandlerPerName' /\ LatestHandlerRuns' /\ GuardHolds'
BY DEF OneHandlerPerName, LatestHandlerRuns, GuardHolds, Settled

\* A step of a compilation that neither ends nor begins it.
LEMMA StepKeeps ==
    ASSUME IInv, status \in {"arranging", "placing"}, UNCHANGED <<fns, asked>>,
           status' \in {"arranging", "placing"}, Placing', TidyPlacing'
    PROVE  IInv'
<1>1. FunctionsAsAsked'
  BY FunctionsAsBefore DEF IInv
<1> QED
  BY <1>1, Unfinished DEF IInv, Placing

\* A call that starts one.
LEMMA CallKeeps ==
    ASSUME IInv, status' = "arranging", UNCHANGED fns, Placing',
           TidyPlacing', Tidy' => Tidy, Len(asked') = Len(asked) + 1,
           \A i \in 1 .. Len(asked) : asked'[i] = asked[i]
    PROVE  IInv'
<1>1. Len(asked) \in Nat
  BY DEF IInv, Phases
<1>2. FunctionsAsAsked'
  BY <1>1, OrderStands DEF IInv
<1> QED
  BY <1>2, Unfinished DEF IInv, Placing

\* A compilation that fails.
LEMMA EndsKeep ==
    ASSUME IInv, Placing, Ends, ~Tidy
    PROVE  IInv'
<1>1. /\ Placing' /\ UNCHANGED <<callbacks, asked>>
      /\ \/ status' = "conflict" /\ fns' = << >>
         \/ status' = "overflow" /\ fns' = fns
  BY EndsSettle
<1>2. ~Tidy'
  BY <1>1, StandingAsIs
<1>3. TidyPlacing' /\ FunctionsAsAsked'
  BY <1>2 DEF TidyPlacing, FunctionsAsAsked
<1>4. OneHandlerPerName' /\ LatestHandlerRuns'
  BY <1>1 DEF OneHandlerPerName, LatestHandlerRuns
<1>5. GuardHolds'
  <2>1. CASE fns' = << >>
    BY <2>1, NoFunctions
  <2>2. CASE status' = "overflow"
    BY <2>2, Unfinished
  <2> QED
    BY <1>1, <2>1, <2>2
<1> QED
  BY <1>1, <1>3, <1>4, <1>5 DEF IInv, Placing

\* A compilation that succeeds.
LEMMA FinishKeeps ==
    ASSUME IInv, Placing, Finish
    PROVE  IInv'
<1> DEFINE functions == [m \in 1 .. Len(sorted) |->
                   callbacks[RIndex(NamesOf(callbacks), sorted[m])].handler]
<1>1. /\ UNCHANGED <<callbacks, asked>> /\ status' = "ok" /\ sorted' = << >> /\ stack' = << >>
      /\ fns' \in Seq(1 .. MaxOps) /\ status = "placing"
  BY FinishFinds
<1>2. Settle("ok", fns')
  BY <1>1 DEF Finish, Settle
<1>3. Placing'
  BY <1>1, <1>2, SettleKeeps
<1>4. TidyPlacing'
  <2>1. CASE Tidy
    <3>1. \A m \in 1 .. Len(callbacks') : \E k \in 1 .. Len(callbacks) :
             callbacks'[m] = callbacks[k]
      BY <1>1
    <3> QED
      BY <1>1, <2>1, <3>1, TidyKept DEF IInv
  <2>2. CASE ~Tidy
    BY <1>1, <2>2, StandingAsIs DEF TidyPlacing
  <2> QED
    BY <2>1, <2>2
<1>5. FunctionsAsAsked'
  <2>1. CASE Tidy
    BY <2>1, FinishAsAsked DEF IInv
  <2>2. CASE ~Tidy
    BY <1>1, <2>2, StandingAsIs DEF FunctionsAsAsked
  <2> QED
    BY <2>1, <2>2
<1>6. OneHandlerPerName' /\ LatestHandlerRuns' /\ GuardHolds'
  BY FinishOneHandler, FinishLatest, FinishGuards
<1> QED
  BY <1>3, <1>4, <1>5, <1>6 DEF IInv, Placing

-----------------------------------------------------------------------------
(* The theorems *)

\* The inductive invariant holds of a new processor (callback.go:30).
THEOREM Initially == Init => IInv
<1> SUFFICES ASSUME Init PROVE IInv
  OBVIOUS
<1> USE MaxOpsAssumption DEF Init
<1>0. /\ Len(callbacks) = 0 /\ Len(asked) = 0 /\ Len(stack) = 0 /\ Len(sorted) = 0 /\ Len(fns) = 0
      /\ \A m \in 1 .. 0 : FALSE
  OBVIOUS
<1>1. TypeOK
  BY <1>0 DEF TypeOK
<1>2. Phases
  BY <1>0 DEF Phases
<1>3. Standing = {}
  BY <1>0 DEF Standing
<1>4. CallbacksStand /\ ConstraintsLast /\ InOrder
  BY <1>0, <1>3 DEF CallbacksStand, ConstraintsLast, InOrder
<1>5. TurnsAreSorted /\ GuardsPlaced
  BY <1>0 DEF TurnsAreSorted, GuardsPlaced, Distinct
<1>6. \A x : ~Has(sorted, x) /\ ~Has(fns, x)
  BY <1>0 DEF Has
<1>7. TidyPlacing
  BY <1>0, <1>6 DEF TidyPlacing
<1>8. FunctionsAsAsked
  BY <1>0, <1>6 DEF FunctionsAsAsked, InAskedOrder, Distinct
<1>9. Handlers = {} /\ Latest = {}
  BY <1>0, <1>3 DEF Handlers, Latest
<1>10. OneHandlerPerName /\ LatestHandlerRuns /\ GuardHolds
  BY <1>3, <1>9 DEF OneHandlerPerName, LatestHandlerRuns, GuardHolds
<1> QED
  BY <1>1, <1>2, <1>4, <1>5, <1>7, <1>8, <1>10 DEF IInv

\* Every call and every step of a compilation keeps it.
THEOREM EveryStep == IInv /\ [Next]_vars => IInv'
<1> SUFFICES ASSUME IInv, [Next]_vars PROVE IInv'
  OBVIOUS
<1>0. Placing /\ TidyPlacing
  BY DEF IInv, Placing
<1>1. ASSUME NEW name \in Names, RemoveCallback(name) PROVE IInv'
  <2> DEFINE order == [before |-> Unset, after |-> Unset]
  <2>1. Asks("remove", name, order) /\ order \in [before : Constraint, after : Constraint]
    BY <1>1 DEF RemoveCallback, Constraint
  <2>2. Len(asked') = Len(asked) + 1 /\ \A i \in 1 .. Len(asked) : asked'[i] = asked[i]
    BY <1>0, <2>1, CallsAppend DEF Placing
  <2> QED
    BY <1>0, <1>1, <2>2, RemoveKeeps, TidyRemove, CallKeeps
<1>2. ASSUME NEW name \in Names, NEW order \in Orders, RegisterCallback(name, order)
      PROVE  IInv'
  <2>1. Asks("register", name, order) /\ order \in [before : Constraint, after : Constraint]
    BY <1>2, OrdersAssumption DEF RegisterCallback
  <2>2. Len(asked') = Len(asked) + 1 /\ \A i \in 1 .. Len(asked) : asked'[i] = asked[i]
    BY <1>0, <2>1, CallsAppend DEF Placing
  <2> QED
    BY <1>0, <1>2, <2>2, RegisterKeeps, TidyRegister, CallKeeps
<1>3. CASE Arrange
  <2>1. UNCHANGED <<fns, status, sorted, stack, asked>> /\ status = "arranging"
    BY <1>3 DEF Arrange
  <2>2. sorted' = << >> /\ stack' = << >>
    BY <1>0, <2>1 DEF Placing, Phases
  <2>3. TidyPlacing'
    <3>1. CASE Tidy
      BY <1>0, <1>3, <2>1, <2>2, <3>1, ArrangeKeeps, TidyKept
    <3>2. CASE ~Tidy
      BY <2>1, <3>2, StandingAsIs DEF TidyPlacing
    <3> QED
      BY <3>1, <3>2
  <2> QED
    BY <1>0, <1>3, <2>1, <2>3, ArrangeKeeps, StepKeeps
<1>4. CASE Arranged
  <2>1. /\ UNCHANGED <<callbacks, fns, sorted, stack, asked>>
        /\ status = "arranging" /\ status' = "placing"
    BY <1>4 DEF Arranged
  <2>2. sorted' = << >> /\ stack' = << >>
    BY <1>0, <2>1 DEF Placing, Phases
  <2>3. TidyPlacing'
    <3>1. CASE Tidy
      BY <1>0, <2>1, <2>2, <3>1, TidyKept
    <3>2. CASE ~Tidy
      BY <2>1, <3>2, StandingAsIs DEF TidyPlacing
    <3> QED
      BY <3>1, <3>2
  <2> QED
    BY <1>0, <1>4, <2>1, <2>3, ArrangedKeeps, StepKeeps
<1>5. CASE Begin
  <2>1. UNCHANGED <<callbacks, fns, status, sorted, asked>> /\ status = "placing"
    BY <1>5 DEF Begin
  <2>2. TidyPlacing'
    BY <1>0, <1>5, <2>1, TidyBegin, StandingAsIs DEF TidyPlacing
  <2> QED
    BY <1>0, <1>5, <2>1, <2>2, BeginKeeps, StepKeeps
<1>6. CASE PlaceBefore
  <2>1. status = "placing"
    BY <1>6 DEF PlaceBefore, At
  <2>2. CASE Tidy
    <3>1. TidyPlacing' /\ UNCHANGED <<callbacks, fns, status, turn, asked>>
      BY <1>0, <1>6, <2>2, TidyPlaceBefore
    <3>2. ~Ends
      BY <2>1, <3>1 DEF Ends, Settle
    <3> QED
      BY <1>0, <1>6, <2>1, <3>1, <3>2, PlaceBeforeKeeps, StepKeeps
  <2>3. CASE ~Tidy /\ Ends
    BY <1>0, <2>3, EndsKeep
  <2>4. CASE ~Tidy /\ ~Ends
    <3>1. Placing' /\ UNCHANGED <<fns, status, asked>>
      BY <1>0, <1>6, <2>4, PlaceBeforeKeeps
    <3>2. TidyPlacing'
      BY <2>4, <3>1, StandingAsIs DEF TidyPlacing
    <3> QED
      BY <2>1, <3>1, <3>2, StepKeeps
  <2> QED
    BY <2>2, <2>3, <2>4
<1>7. CASE PlaceAfter
  <2>1. status = "placing"
    BY <1>7 DEF PlaceAfter, At
  <2>2. CASE Tidy
    <3>1. TidyPlacing' /\ UNCHANGED <<callbacks, fns, status, turn, asked>>
      BY <1>0, <1>7, <2>2, TidyPlaceAfter
    <3>2. ~Ends
      BY <2>1, <3>1 DEF Ends, Settle
    <3> QED
      BY <1>0, <1>7, <2>1, <3>1, <3>2, PlaceAfterKeeps, StepKeeps
  <2>3. CASE ~Tidy /\ Ends
    BY <1>0, <2>3, EndsKeep
  <2>4. CASE ~Tidy /\ ~Ends
    <3>1. Placing' /\ UNCHANGED <<fns, status, asked>>
      BY <1>0, <1>7, <2>4, PlaceAfterKeeps
    <3>2. TidyPlacing'
      BY <2>4, <3>1, StandingAsIs DEF TidyPlacing
    <3> QED
      BY <2>1, <3>1, <3>2, StepKeeps
  <2> QED
    BY <2>2, <2>3, <2>4
<1>8. CASE PlaceAgain
  <2>1. status = "placing" /\ stack # << >> /\ Top.at = "again"
    BY <1>8 DEF PlaceAgain, At
  <2>2. ~Tidy
    <3> SUFFICES ASSUME Tidy PROVE FALSE
      OBVIOUS
    <3>1. Len(stack) = 1 /\ Top = stack[1]
      BY <1>0, <2>1, TidyTurn
    <3> QED
      BY <1>0, <2>1, <3>1 DEF TidyPlacing
  <2>3. CASE Ends
    BY <1>0, <2>2, <2>3, EndsKeep
  <2>4. CASE ~Ends
    <3>1. Placing' /\ UNCHANGED <<fns, status, asked>>
      BY <1>0, <1>8, <2>4, PlaceAgainKeeps
    <3>2. TidyPlacing'
      BY <2>2, <3>1, StandingAsIs DEF TidyPlacing
    <3> QED
      BY <2>1, <3>1, <3>2, StepKeeps
  <2> QED
    BY <2>3, <2>4
<1>9. CASE Return
  <2>1. status = "placing"
    BY <1>9 DEF Return, At
  <2>2. Placing' /\ UNCHANGED <<fns, status, asked>>
    BY <1>0, <1>9, ReturnKeeps
  <2>3. TidyPlacing'
    <3>1. CASE Tidy
      BY <1>0, <1>9, <3>1, TidyReturn
    <3>2. CASE ~Tidy
      BY <2>2, <3>2, StandingAsIs DEF TidyPlacing
    <3> QED
      BY <3>1, <3>2
  <2> QED
    BY <2>1, <2>2, <2>3, StepKeeps
<1>10. CASE Finish
  BY <1>0, <1>10, FinishKeeps
<1>11. CASE UNCHANGED vars
  <2>1. UNCHANGED <<callbacks, fns, status, turn, sorted, stack, asked>>
    BY <1>11 DEF vars
  <2>2. /\ Standing' = Standing /\ (Tidy' <=> Tidy) /\ (NoStar' <=> NoStar)
        /\ Latest' = Latest /\ Handlers' = Handlers
    BY <2>1, StandingAsIs DEF Latest, Handlers
  <2>3. TypeOK' /\ Phases'
    BY <1>0, <2>1 DEF Placing, TypeOK, Phases
  <2>4. CallbacksStand' /\ ConstraintsLast' /\ InOrder'
    BY <1>0, <2>1, NotingNothing, NotedKeeps DEF Placing
  <2>5. TurnsAreSorted' /\ GuardsPlaced'
    BY <1>0, <2>1 DEF Placing, TurnsAreSorted, GuardsPlaced, Asked
  <2>6. TidyPlacing'
    BY <1>0, <2>1, <2>2 DEF TidyPlacing, PlacedAsAsked, Asked
  <2>7. FunctionsAsAsked'
    BY <2>1, FunctionsAsBefore DEF IInv
  <2>8. OneHandlerPerName' /\ LatestHandlerRuns'
    BY <2>1, <2>2 DEF IInv, OneHandlerPerName, LatestHandlerRuns
  <2>9. GuardHolds'
    BY <2>1, <2>2 DEF IInv, GuardHolds, Settled, Execute
  <2> QED
    BY <2>3, <2>4, <2>5, <2>6, <2>7, <2>8, <2>9 DEF IInv
<1> QED
  BY <1>1, <1>2, <1>3, <1>4, <1>5, <1>6, <1>7, <1>8, <1>9, <1>10, <1>11 DEF Next

-----------------------------------------------------------------------------
(* Tidy calls *)

\* Of tidy calls, a name says which one gave the handler.
LEMMA TidyNames ==
    ASSUME Tidy, NEW i \in 1 .. Len(asked), NEW j \in 1 .. Len(asked),
           asked[i].kind # "remove", asked[j].kind # "remove",
           asked[i].name = asked[j].name
    PROVE  i = j
BY DEF Tidy

\* The chain of tidy calls compiles, and every handler runs where it asked to,
\* among any number of others (compile, callback.go:169).
THEOREM TidyChainIsOrdered == IInv => TidyIsOrdered
<1> SUFFICES ASSUME IInv, Tidy, Settled
             PROVE  /\ status = "ok"
                    /\ \A i, j \in Standing :
                          /\ asked[i].before = asked[j].name => RunsBefore(i, j)
                          /\ asked[i].after = asked[j].name => RunsBefore(j, i)
  BY DEF TidyIsOrdered
<1>1. status = "ok"
  BY DEF IInv, TidyPlacing, Settled
<1>2. /\ asked \in Seq(Calls) /\ Len(asked) \in Nat /\ fns \in Seq(1 .. MaxOps)
      /\ Standing \subseteq 1 .. Len(asked) /\ Standing \subseteq Nat
  BY StandingIsOld DEF IInv, Phases, TypeOK
<1>3. ASSUME NEW i \in Standing PROVE Has(fns, i)
  <2>1. PICK m \in 1 .. Len(fns) : asked[fns[m]].name = asked[i].name
    BY <1>1 DEF IInv, OneHandlerPerName
  <2>2. fns[m] \in Standing
    BY <1>1 DEF IInv, OneHandlerPerName, Handlers
  <2>3. fns[m] = i
    BY <1>2, <2>1, <2>2, TidyNames DEF Standing
  <2> QED
    BY <2>3 DEF Has
<1>4. InAskedOrder(fns)
  BY DEF IInv, FunctionsAsAsked
<1>5. \A i \in Standing :
         /\ asked[i].name \in Names /\ Unset \in {asked[i].before, asked[i].after}
         /\ \A name \in {asked[i].before, asked[i].after} \ {Unset} :
               \E j \in Standing : j < i /\ asked[j].name = name
  <2>1. \A i \in 1 .. Len(asked) : asked[i] \in Calls
    BY <1>2
  <2>2. \A i \in 1 .. Len(asked) : asked[i].name \in Names
    BY <2>1 DEF Calls
  <2> QED
    BY <1>2, <2>2 DEF Tidy
<1>6. \A i, j \in Standing : asked[i].name = asked[j].name => i = j
  BY <1>2, TidyNames DEF Standing
<1>7. ASSUME NEW i \in Standing, NEW j \in Standing,
             asked[j].name \in {asked[i].before, asked[i].after}
      PROVE  j \in 1 .. i - 1 /\ RunAsAsked(fns, i, j)
  <2>1. j < i
    BY <1>5, <1>6, <1>7, NamesAssumption
  <2>2. j \in 1 .. i - 1
    BY <1>2, <2>1
  <2> QED
    BY <1>3, <1>4, <2>2 DEF InAskedOrder
<1>8. ASSUME NEW i \in Standing, NEW j \in Standing, asked[i].before = asked[j].name
      PROVE  Prec(fns, i, j)
  <2>1. asked[i].before # Unset
    BY <1>5, <1>8, NamesAssumption
  <2> QED
    BY <1>2, <1>3, <1>7, <1>8, <2>1 DEF RunAsAsked
<1>9. ASSUME NEW i \in Standing, NEW j \in Standing, asked[i].after = asked[j].name
      PROVE  Prec(fns, j, i)
  <2>1. asked[i].before = Unset
    BY <1>5, <1>9, NamesAssumption
  <2>2. ~Prec(fns, i, j) /\ j \in 1 .. i - 1
    BY <1>7, <1>9, <2>1 DEF RunAsAsked
  <2>3. i # j
    BY <1>2, <2>2
  <2> QED
    BY <1>2, <1>3, <1>4, <2>2, <2>3, OneOrTheOther DEF InAskedOrder
<1> QED
  BY <1>1, <1>8, <1>9, RunsBeforeIs

\* What tidy calls asked for leaves one order only.
LEMMA OrderIsDetermined ==
    ASSUME Tidy, Len(asked) \in Nat, NEW f \in Seq(Nat), NEW g \in Seq(Nat),
           InAskedOrder(f), InAskedOrder(g)
    PROVE  \A i, k : Has(f, i) /\ Has(g, i) /\ Has(f, k) /\ Has(g, k) /\ k < i
                      => (Prec(f, i, k) <=> Prec(g, i, k))
<1> DEFINE Both(x) == Has(f, x) /\ Has(g, x)
           Same(x, y) == Prec(f, x, y) <=> Prec(g, x, y)
           Bad == {i \in Nat : \E k : Both(i) /\ Both(k) /\ k < i /\ ~Same(i, k)}
<1>1. \A x : Has(f, x) \/ Has(g, x) =>
         x \in 1 .. Len(asked) /\ x \in Nat /\ asked[x].kind = "register"
  BY DEF InAskedOrder
<1>2. \A x, y : Has(f, x) /\ Has(g, y) /\ asked[x].name = asked[y].name => x = y
  BY <1>1, TidyNames
<1>2a. \A x, y : Has(f, x) /\ Has(f, y) /\ asked[x].name = asked[y].name => x = y
  BY <1>1, TidyNames
<1>2b. \A x, y : Has(g, x) /\ Has(g, y) /\ asked[x].name = asked[y].name => x = y
  BY <1>1, TidyNames
<1>3. SUFFICES ASSUME Bad # {} PROVE FALSE
  BY <1>1
<1>4. PICK i \in Bad : \A m \in Bad : i <= m
  <2>1. Bad \in SUBSET Nat
    OBVIOUS
  <2> QED
    BY <1>3, <2>1, Least
<1>5. PICK k : Both(i) /\ Both(k) /\ k < i /\ ~Same(i, k)
  BY <1>4
<1>6. i \in Nat /\ k \in Nat /\ k \in 1 .. i - 1
  BY <1>1, <1>5
<1>7. \A x, y : Both(x) /\ Both(y) /\ y < x /\ x < i => Same(x, y)
  <2>1. SUFFICES ASSUME NEW x, NEW y, Both(x), Both(y), y < x, x < i, ~Same(x, y)
                 PROVE  FALSE
    OBVIOUS
  <2>2. x \in Bad
    BY <1>1, <2>1
  <2>3. i <= x /\ x \in Nat
    BY <1>1, <1>4, <2>1, <2>2
  <2> QED
    BY <1>6, <2>1, <2>3
<1>8. RunAsAsked(f, i, k) /\ RunAsAsked(g, i, k)
  BY <1>5, <1>6 DEF InAskedOrder
<1>9. asked[i].before # Unset
  BY <1>5, <1>8 DEF RunAsAsked
<1>10. PICK x \in 1 .. i - 1 : Has(f, x) /\ asked[x].name = asked[i].before
  BY <1>5, <1>9 DEF InAskedOrder
<1>11. PICK y \in 1 .. i - 1 : Has(g, y) /\ asked[y].name = asked[i].before
  BY <1>5, <1>9 DEF InAskedOrder
<1>12. x = y /\ Both(x) /\ x \in 1 .. Len(asked) /\ x \in Nat /\ x < i
  BY <1>1, <1>2, <1>6, <1>10, <1>11
<1>13. Prec(f, i, k) <=> x = k \/ Prec(f, x, k)
  BY <1>2a, <1>8, <1>9, <1>10, <1>12 DEF RunAsAsked
<1>14. Prec(g, i, k) <=> x = k \/ Prec(g, x, k)
  BY <1>2b, <1>8, <1>9, <1>11, <1>12 DEF RunAsAsked
<1>15. x # k
  BY <1>5, <1>13, <1>14
<1>16. Same(x, k)
  <2>1. CASE k < x
    BY <1>5, <1>7, <1>12, <2>1
  <2>2. CASE x < k
    <3>1. Same(k, x)
      BY <1>5, <1>7, <1>12, <2>2
    <3>2. Prec(f, x, k) <=> ~Prec(f, k, x)
      BY <1>5, <1>12, <1>15, OneOrTheOther DEF InAskedOrder
    <3>3. Prec(g, x, k) <=> ~Prec(g, k, x)
      BY <1>5, <1>12, <1>15, OneOrTheOther DEF InAskedOrder
    <3> QED
      BY <3>1, <3>2, <3>3
  <2> QED
    BY <1>6, <1>12, <1>15, <2>1, <2>2
<1> QED
  BY <1>5, <1>13, <1>14, <1>16

\* So two orders of tidy calls agree.
LEMMA TidyOrderIsOne ==
    ASSUME Tidy, Len(asked) \in Nat, NEW f \in Seq(Nat), NEW g \in Seq(Nat),
           InAskedOrder(f), InAskedOrder(g),
           NEW i, NEW j, Has(f, i), Has(g, i), Has(f, j), Has(g, j), Prec(f, i, j)
    PROVE  Prec(g, i, j)
<1>1. i \in Nat /\ j \in Nat
  BY DEF InAskedOrder
<1>2. Distinct(f) /\ Distinct(g)
  BY DEF InAskedOrder
<1>3. i # j
  BY <1>2 DEF Prec, Distinct
<1>4. CASE j < i
  BY <1>4, OrderIsDetermined
<1>5. CASE i < j
  <2>1. ~Prec(f, j, i)
    BY <1>2, <1>3, OneOrTheOther
  <2>2. ~Prec(g, j, i)
    BY <1>5, <2>1, OrderIsDetermined
  <2> QED
    BY <1>2, <1>3, <2>2, OneOrTheOther
<1> QED
  BY <1>1, <1>3, <1>4, <1>5

\* Every step leaves the functions, drops them all, or compiles them anew.
LEMMA FunctionsChange ==
    ASSUME IInv, [Next]_vars
    PROVE  fns' = fns \/ fns' = << >> \/ (Finish /\ UNCHANGED asked)
<1>1. ASSUME NEW name \in Names, RemoveCallback(name) PROVE fns' = fns
  BY <1>1, RemoveKeeps DEF IInv, Placing
<1>2. ASSUME NEW name \in Names, NEW order \in Orders, RegisterCallback(name, order)
      PROVE  fns' = fns
  BY <1>2, RegisterKeeps DEF IInv, Placing
<1>3. CASE Arrange \/ Arranged \/ Begin \/ Return
  BY <1>3 DEF Arrange, Arranged, Begin, Return
<1>4. CASE PlaceBefore
  BY <1>4, PlaceBeforeMoves DEF IInv, Moves, Ends, Settle
<1>5. CASE PlaceAfter
  BY <1>5, PlaceAfterMoves DEF IInv, Moves, Ends, Settle
<1>6. CASE PlaceAgain
  BY <1>6, PlaceAgainMoves DEF IInv, Moves, Ends, Settle
<1>7. CASE Finish
  BY <1>7 DEF Finish, Settle
<1>8. CASE UNCHANGED vars
  BY <1>8 DEF vars
<1> QED
  BY <1>1, <1>2, <1>3, <1>4, <1>5, <1>6, <1>7, <1>8 DEF Next

\* A compilation of tidy calls moves no handler that was there before.
THEOREM TidyStep ==
    IInv /\ IInv' /\ [Next]_vars =>
        (Tidy' => \A i, j \in Handlers \cap Handlers' :
                      RunsBefore(i, j) => RunsBefore(i, j)')
<1> SUFFICES ASSUME IInv, IInv', [Next]_vars, Tidy',
                    NEW i \in Handlers \cap Handlers', NEW j \in Handlers \cap Handlers',
                    RunsBefore(i, j)
             PROVE  RunsBefore(i, j)'
  OBVIOUS
<1>1. CASE fns' = fns
  BY <1>1 DEF RunsBefore
<1>2. CASE fns' = << >>
  BY <1>2, NoFunctions
<1>3. CASE Finish /\ UNCHANGED asked
  <2>1. Tidy /\ Len(asked) \in Nat
    BY <1>3, StandingAsIs DEF IInv, Phases
  <2>2. fns \in Seq(Nat) /\ fns' \in Seq(Nat)
    <3>1. fns \in Seq(1 .. MaxOps) /\ fns' \in Seq(1 .. MaxOps)
      BY DEF IInv, TypeOK
    <3> QED
      BY <3>1, MaxOpsAssumption
  <2>3. InAskedOrder(fns)
    BY <2>1 DEF IInv, FunctionsAsAsked
  <2>4. InAskedOrder(fns)'
    BY DEF IInv, FunctionsAsAsked
  <2>5. \A g : g = fns' => InAskedOrder(g)
    BY <1>3, <2>4 DEF InAskedOrder, RunAsAsked
  <2>6. Has(fns, i) /\ Has(fns', i) /\ Has(fns, j) /\ Has(fns', j)
    BY DEF Handlers, Has
  <2>7. Prec(fns, i, j)
    BY RunsBeforeIs
  <2>8. \A g : g = fns' => Prec(g, i, j)
    BY <2>1, <2>2, <2>3, <2>5, <2>6, <2>7, TidyOrderIsOne
  <2> QED
    BY <2>8 DEF RunsBefore, Prec
<1> QED
  BY <1>1, <1>2, <1>3, FunctionsChange

-----------------------------------------------------------------------------

\* The properties follow from the inductive invariant.
THEOREM Implied == IInv => Inv /\ OrderIsKept
BY TidyChainIsOrdered DEF IInv, Inv, OrderIsKept

\* It holds in every reachable state.
THEOREM Invariance == Spec => []IInv
BY Initially, EveryStep, PTL DEF Spec

\* However a processor is used, Execute runs one handler for each name that
\* stands, and without "*" the latest: for any names, constraints and calls
\* (compile, callback.go:169).
THEOREM ProcessorIsCorrect == Spec => []Inv
BY Invariance, Implied, PTL

\* Tidy calls are run in the order they asked for, and a guard that asked to
\* run before a callback stops it, whatever else is registered: for any names,
\* constraints and calls (sortCallback, callback.go:212).
THEOREM OrderIsAlwaysKept == Spec => []OrderIsKept
BY Invariance, Implied, PTL

\* A tidy call leaves the handlers that stay in their order, for any names and
\* calls.
THEOREM NothingMoves == Spec => TidyCallsMoveNothing
<1>1. IInv /\ IInv' /\ [Next]_vars =>
        [Tidy' => \A i, j \in Handlers \cap Handlers' :
                      RunsBefore(i, j) => RunsBefore(i, j)']_vars
  BY TidyStep
<1> QED
  BY <1>1, Invariance, PTL DEF Spec, TidyCallsMoveNothing
=============================================================================
