--------------------------- MODULE EksTokensProof ---------------------------
(***************************************************************************)
(* The safety of EksTokens for any number of callers and any times that    *)
(* keep the order of the real ones.  KeptFresh is almost inductive; the    *)
(* others need where each goroutine may be at each stage of the            *)
(* registration (Staged), what a GetToken holds between its three readings *)
(* of the cache (Reading), and when a tick may wait (TicksAreNew).         *)
(***************************************************************************)
EXTENDS EksTokens, TLAPS

\* Before the registration ends no minute passes: the loops wait, unborn or
\* at their select.
Staged ==
    /\ exec = (at["auto"] # "unborn") /\ exec = (at["renew"] # "unborn")
    /\ stage \in {"idle", "generate", "start"} => ~exec
    /\ stage \in {"publish", "done"} => exec
    /\ ~exec => token = None /\ \A p \in Callers : at[p] = "idle"
    /\ stage \notin {"done", "failed"} =>
          /\ due = {} /\ minute = 0 /\ ~cancelled /\ ~stopped
          /\ at["renew"] \in {"unborn", "select"}
    /\ (stage = "publish") = (at["register"] # "idle")
    /\ at["auto"] \in {"unborn", "select", "fetch", "store", "gone"}
    /\ \A p \in Goroutines \ Loops : at[p] \notin {"unborn", "select", "gone"}
    /\ \A p \in Loops : at[p] # "idle" /\ (at[p] = "gone" => cancelled \/ stopped)

\* What a GetToken that saw no ClearCache has read, and will read.
Reading ==
    \A p \in Goroutines :
        /\ answer[p].ok => at[p] = "answered"
        /\ p \notin cleared /\ at[p] = "read" => token # None
        /\ at[p] = "store" => answer[p].token # None
        /\ p \notin cleared /\ at[p] = "expiry" =>
              /\ answer[p].token # None
              /\ p \notin overtaken => token >= answer[p].token

\* A tick is taken before the next minute.
TicksAreNew == \A p \in due : at[p] # "gone" => minute = 0

\* Once the registration has a token, only ClearCache takes it away.
EmptyIsCleared ==
    token = None /\ "renew" \notin cleared =>
        /\ stage # "done"
        /\ at["register"] \notin {"read", "expiry"} /\ ~answer["register"].ok

IInv ==
    /\ TypeOK
    /\ Staged
    /\ KeptFresh
    /\ Reading
    /\ AnswersAToken
    /\ TicksAreNew
    /\ EmptyIsCleared
    /\ HealthyNeverPanics
    /\ NoFileLeft

-----------------------------------------------------------------------------
\* A minute takes at most one from a token and adds one to the minutes.
LEMMA OneMinute ==
    ASSUME NEW t \in Int, NEW u \in Int, NEW m \in Int, NEW k \in Int, NEW slack \in Int,
           t + m >= k - slack, u >= t - 1
    PROVE  u + (m + 1) + 0 >= k - slack
OBVIOUS

LEMMA SetOk ==
    ASSUME NEW b \in Answers, NEW v
    PROVE  [b EXCEPT !.ok = v] = [token |-> b.token, expiry |-> b.expiry, ok |-> v]
BY DEF Answers

USE DEF world, loops, local, history, Goto, IsValid, Busy, Loops

\* What a step may be, for the case analyses below.
LEMMA NextCases ==
    ASSUME [Next]_vars
    PROVE  \/ Register \/ Generate \/ ReadKubeconfig \/ Start \/ Publish
           \/ \E p \in Goroutines : Check(p)
           \/ \E p \in Goroutines : Read(p)
           \/ \E p \in Goroutines : Fetched(p)
           \/ \E p \in Goroutines : SetToken(p)
           \/ \E p \in Goroutines : Retry(p)
           \/ \E p \in Goroutines : NotFetched(p)
           \/ \E p \in Goroutines : Expiry(p)
           \/ \E source \in {"tick", "request"} : Look(source)
           \/ LookForRenewal \/ Renew
           \/ \E p \in Loops : Leave(p)
           \/ \E p \in Callers : Ask(p)
           \/ \E p \in Callers : Take(p)
           \/ TriggerRefresh \/ ClearCache \/ StopTokenRefresh \/ Remove
           \/ Outage \/ Minute
           \/ UNCHANGED vars
<1>1. ASSUME NEW p \in Goroutines, GetToken(p)
      PROVE  Check(p) \/ Read(p) \/ Fetched(p) \/ SetToken(p) \/ Retry(p) \/ NotFetched(p) \/ Expiry(p)
  BY <1>1 DEF GetToken
<1>2. {"register", "auto", "renew"} \subseteq Goroutines /\ Callers \subseteq Goroutines
  BY DEF Goroutines
<1> QED
  BY <1>1, <1>2 DEF Next, Step, Registration, AutoLoop, RenewLoop, Caller

LEMMA Names ==
    /\ {"register", "auto", "renew"} \subseteq Goroutines
    /\ Callers \subseteq Goroutines
    /\ \A p \in Callers : p \notin {"register", "auto", "renew"}
    /\ Loops \subseteq Goroutines
BY CallersAssumption DEF Goroutines

LEMMA Numbers ==
    /\ Period \in Nat \ {0} /\ Threshold \in Nat /\ Life \in Nat
    /\ Threshold > Period /\ Life >= Threshold
    /\ None = -1 /\ None \in Tokens /\ Life \in Tokens /\ Tokens \subseteq Int
    /\ \A t \in Tokens : t >= None /\ t <= Life
    /\ \A t \in Tokens : Aged(t) \in Tokens /\ (Aged(t) = None) = (t = None)
    /\ \A s, t \in Tokens : s >= t => Aged(s) >= Aged(t)
    /\ \A t \in Tokens : t # None => t >= 0 /\ Aged(t) >= t - 1
    /\ \A t \in Tokens : Aged(t) <= t
BY TimesAssumption DEF None, Tokens, Aged

LEMMA InitInv == Init => IInv
<1> SUFFICES ASSUME Init PROVE IInv
  OBVIOUS
<1>1. TypeOK
  <2>1. Nothing \in Answers
    BY Numbers DEF Nothing, Answers
  <2>2. at \in [Goroutines -> Places] /\ tries \in [Goroutines -> Nat]
    BY DEF Init, Places
  <2>3. answer \in [Goroutines -> Answers]
    BY <2>1 DEF Init
  <2>4. 0 \in 0 .. Period - 1 /\ 0 \in 0 .. MaxFails
    BY Numbers, BoundsAssumption
  <2> HIDE DEF Loops
  <2> QED
    BY <2>2, <2>3, <2>4, Numbers DEF Init, TypeOK
<1>2. Staged
  BY Names DEF Init, Staged
<1>3. KeptFresh /\ TicksAreNew /\ EmptyIsCleared
  BY Names DEF Init, KeptFresh, Kept, TicksAreNew, EmptyIsCleared, Nothing
<1>4. Reading /\ AnswersAToken
  BY Names DEF Init, Reading, AnswersAToken, Nothing
<1>5. HealthyNeverPanics /\ NoFileLeft
  BY DEF Init, HealthyNeverPanics, NoFileLeft
<1> QED
  BY <1>1, <1>2, <1>3, <1>4, <1>5 DEF IInv

-----------------------------------------------------------------------------
\* The answers after one of them was set, and after a minute.
LEMMA AnswerSet ==
    ASSUME answer \in [Goroutines -> Answers], NEW p \in Goroutines, NEW a \in Answers,
           answer' = [answer EXCEPT ![p] = a]
    PROVE  /\ answer' \in [Goroutines -> Answers] /\ answer'[p] = a
           /\ \A q \in Goroutines : q # p => answer'[q] = answer[q]
OBVIOUS

LEMMA ReadStep ==
    ASSUME TypeOK, NEW p \in Goroutines, NEW t \in Tokens, answer' = [answer EXCEPT ![p].token = t]
    PROVE  /\ answer' \in [Goroutines -> Answers]
           /\ answer'[p].token = t /\ answer'[p].ok = answer[p].ok
           /\ \A q \in Goroutines : q # p => answer'[q] = answer[q]
<1> DEFINE a == [token |-> t, expiry |-> answer[p].expiry, ok |-> answer[p].ok]
<1>1. answer[p] \in Answers /\ answer \in [Goroutines -> Answers]
  BY DEF TypeOK
<1>2. a = [answer[p] EXCEPT !.token = t] /\ a \in Answers
  BY <1>1 DEF Answers
<1>3. answer' = [answer EXCEPT ![p] = a]
  BY <1>1, <1>2
<1> HIDE DEF a
<1>4. /\ answer' \in [Goroutines -> Answers] /\ answer'[p] = a
      /\ \A q \in Goroutines : q # p => answer'[q] = answer[q]
  BY <1>1, <1>2, <1>3, AnswerSet
<1> QED
  BY <1>4 DEF a

LEMMA ExpiryStep ==
    ASSUME TypeOK, NEW p \in Goroutines, Expiry(p)
    PROVE  /\ answer' \in [Goroutines -> Answers]
           /\ answer'[p] = [token |-> answer[p].token, expiry |-> token, ok |-> TRUE]
           /\ \A q \in Goroutines : q # p => answer'[q] = answer[q]
<1> DEFINE a == [token |-> answer[p].token, expiry |-> token, ok |-> TRUE]
<1>1. answer[p] \in Answers /\ answer \in [Goroutines -> Answers] /\ token \in Tokens
  BY DEF TypeOK
<1> DEFINE b == [answer[p] EXCEPT !.expiry = token]
<1>b. b \in Answers /\ b.token = answer[p].token /\ b.expiry = token
  BY <1>1 DEF Answers
<1>2. a = [b EXCEPT !.ok = TRUE]
  <2> HIDE DEF b
  <2>1. a = [token |-> b.token, expiry |-> b.expiry, ok |-> TRUE]
    BY <1>b
  <2> HIDE DEF a
  <2>2. [b EXCEPT !.ok = TRUE] = [token |-> b.token, expiry |-> b.expiry, ok |-> TRUE]
    BY <1>b, SetOk
  <2> QED
    BY <2>1, <2>2
<1>a. a \in Answers
  BY <1>1 DEF Answers
<1>3. answer' = [answer EXCEPT ![p] = a]
  <2>1. answer' = [answer EXCEPT ![p].expiry = token, ![p].ok = TRUE]
    BY DEF Expiry
  <2> QED
    BY <1>1, <1>2, <2>1
<1> HIDE DEF a
<1>4. /\ answer' \in [Goroutines -> Answers] /\ answer'[p] = a
      /\ \A q \in Goroutines : q # p => answer'[q] = answer[q]
  BY <1>1, <1>a, <1>3, AnswerSet
<1> QED
  BY <1>4 DEF a

LEMMA StoreStep ==
    ASSUME TypeOK, NEW p \in Goroutines, SetToken(p)
    PROVE  /\ answer' \in [Goroutines -> Answers]
           /\ p # "auto" => answer' = answer
           /\ ~Nothing.ok /\ answer'["auto"].ok => answer'["auto"] = answer["auto"]
           /\ \A q \in Goroutines : q # "auto" => answer'[q] = answer[q]
<1>1. Nothing \in Answers /\ ~Nothing.ok
  BY Numbers DEF Nothing, Answers
<1>2. answer \in [Goroutines -> Answers] /\ "auto" \in Goroutines
  BY Names DEF TypeOK
<1>3. CASE p = "auto"
  BY <1>1, <1>2, <1>3 DEF SetToken
<1>4. CASE p # "auto"
  BY <1>2, <1>4 DEF SetToken
<1> QED
  BY <1>3, <1>4

LEMMA MinuteStep ==
    ASSUME TypeOK, Minute
    PROVE  /\ answer' \in [Goroutines -> Answers]
           /\ \A p \in Goroutines :
                 answer'[p] = [token |-> Aged(answer[p].token),
                               expiry |-> Aged(answer[p].expiry), ok |-> answer[p].ok]
<1>1. answer \in [Goroutines -> Answers]
  BY DEF TypeOK
<1>2. ASSUME NEW p \in Goroutines
      PROVE  /\ answer'[p] \in Answers
             /\ answer'[p] = [token |-> Aged(answer[p].token),
                              expiry |-> Aged(answer[p].expiry), ok |-> answer[p].ok]
  <2>1. answer[p] \in Answers
    BY <1>1
  <2>2. answer'[p] = [answer[p] EXCEPT !.token = Aged(@), !.expiry = Aged(@)]
    BY DEF Minute
  <2>3. answer'[p] = [token |-> Aged(answer[p].token),
                     expiry |-> Aged(answer[p].expiry), ok |-> answer[p].ok]
    BY <2>1, <2>2 DEF Answers
  <2>4. answer[p].token \in Tokens /\ answer[p].expiry \in Tokens /\ answer[p].ok \in BOOLEAN
    BY <2>1 DEF Answers
  <2>5. Aged(answer[p].token) \in Tokens /\ Aged(answer[p].expiry) \in Tokens
    BY <2>4, Numbers
  <2>6. [token |-> Aged(answer[p].token), expiry |-> Aged(answer[p].expiry),
         ok |-> answer[p].ok] \in Answers
    BY <2>4, <2>5 DEF Answers
  <2> QED
    BY <2>3, <2>6
<1>3. answer' = [p \in Goroutines |-> answer'[p]]
  BY DEF Minute
<1> QED
  BY <1>2, <1>3

LEMMA TypeStep == ASSUME TypeOK, [Next]_vars PROVE TypeOK'
<1> USE Names, Numbers DEF TypeOK, Places
<1>1. CASE Register
  BY <1>1 DEF Register
<1>c. CASE ReadKubeconfig
  BY <1>c DEF ReadKubeconfig
<1>a. CASE Generate
  <2>1. tries' \in [Goroutines -> Nat]
    BY <1>a DEF Generate
  <2> QED
    BY <1>a, <2>1 DEF Generate
<1>2. CASE Start
  BY <1>2 DEF Start
<1>3. CASE Publish
  <2>1. Nothing \in Answers
    BY DEF Nothing, Answers
  <2> QED
    BY <1>3, <2>1 DEF Publish
<1>4. ASSUME NEW p \in Goroutines, Check(p) PROVE TypeOK'
  BY <1>4 DEF Check
<1>b. ASSUME NEW p \in Goroutines, Retry(p) PROVE TypeOK'
  <2>1. tries' \in [Goroutines -> Nat]
    BY <1>b DEF Retry
  <2> QED
    BY <1>b, <2>1 DEF Retry
<1>5. ASSUME NEW p \in Goroutines, Read(p) PROVE TypeOK'
  <2>1. answer' \in [Goroutines -> Answers]
    BY <1>5, ReadStep DEF Read
  <2> QED
    BY <1>5, <2>1 DEF Read
<1>6. ASSUME NEW p \in Goroutines, Fetched(p) PROVE TypeOK'
  <2>1. answer' \in [Goroutines -> Answers]
    BY <1>6, ReadStep DEF Fetched
  <2> QED
    BY <1>6, <2>1 DEF Fetched
<1>d. ASSUME NEW p \in Goroutines, SetToken(p) PROVE TypeOK'
  <2>1. answer' \in [Goroutines -> Answers]
    BY <1>d, StoreStep
  <2>2. token' \in Tokens
    BY <1>d DEF SetToken, Answers
  <2>3. fails' \in 0 .. MaxFails /\ late' \in BOOLEAN /\ overtaken' \subseteq Goroutines
    BY <1>d, BoundsAssumption DEF SetToken
  <2>4. at' \in [Goroutines -> Places]
    BY <1>d DEF SetToken
  <2> QED
    BY <1>d, <2>1, <2>2, <2>3, <2>4 DEF SetToken
<1>7. ASSUME NEW p \in Goroutines, NotFetched(p) PROVE TypeOK'
  <2>1. fails' \in 0 .. MaxFails
    BY <1>7, BoundsAssumption DEF NotFetched
  <2> QED
    BY <1>7, <2>1 DEF NotFetched
<1>8. ASSUME NEW p \in Goroutines, Expiry(p) PROVE TypeOK'
  <2>1. answer' \in [Goroutines -> Answers]
    BY <1>8, ExpiryStep
  <2> QED
    BY <1>8, <2>1 DEF Expiry
<1>9. ASSUME NEW source \in {"tick", "request"}, Look(source) PROVE TypeOK'
  BY <1>9 DEF Look
<1>10. CASE LookForRenewal
  BY <1>10 DEF LookForRenewal
<1>11. CASE Renew
  <2>1. Nothing \in Answers
    BY DEF Nothing, Answers
  <2> QED
    BY <1>11, <2>1 DEF Renew
<1>12. ASSUME NEW p \in Loops, Leave(p) PROVE TypeOK'
  BY <1>12 DEF Leave
<1>13. ASSUME NEW p \in Callers, Ask(p) PROVE TypeOK'
  BY <1>13 DEF Ask
<1>14. ASSUME NEW p \in Callers, Take(p) PROVE TypeOK'
  <2>1. Nothing \in Answers
    BY DEF Nothing, Answers
  <2> QED
    BY <1>14, <2>1 DEF Take
<1>15. CASE TriggerRefresh \/ StopTokenRefresh \/ Remove \/ Outage
  BY <1>15 DEF TriggerRefresh, StopTokenRefresh, Remove, Outage
<1>16. CASE ClearCache
  BY <1>16 DEF ClearCache
<1>17. CASE Minute
  <2>1. answer' \in [Goroutines -> Answers]
    BY <1>17, MinuteStep
  <2>2. minute' \in 0 .. Period - 1
    <3>1. minute' = IF minute + 1 = Period THEN 0 ELSE minute + 1
      BY <1>17 DEF Minute
    <3>2. minute \in Nat /\ minute < Period
      OBVIOUS
    <3> QED
      BY <3>1, <3>2
  <2> QED
    BY <1>17, <2>1, <2>2 DEF Minute
<1>18. CASE UNCHANGED vars
  BY <1>18 DEF vars
<1> QED
  BY <1>1, <1>2, <1>3, <1>4, <1>5, <1>6, <1>7, <1>8, <1>9, <1>10, <1>11, <1>12, <1>13,
     <1>14, <1>15, <1>16, <1>17, <1>18, <1>a, <1>b, <1>c, <1>d, NextCases


\* Slack for the passes that failed.
LEMMA Slack ==
    ASSUME NEW n \in Nat
    PROVE  /\ Period * n \in Nat /\ Period * (n + 1) = Period * n + Period /\ Period * 0 = 0
BY Numbers

\* auto loses a period with every pass that fails, and no more.
LEMMA KeptStep == ASSUME TypeOK, Staged, TicksAreNew, KeptFresh, [Next]_vars PROVE KeptFresh'
<1> USE Names, Numbers DEF KeptFresh, Kept, AutoRests
<1>a. /\ token \in Tokens /\ minute \in Nat /\ minute < Period /\ fails \in 0 .. MaxFails
      /\ fails \in Nat /\ Period * fails \in Nat
  BY Slack, BoundsAssumption DEF TypeOK
<1>1. CASE Register \/ Generate \/ ReadKubeconfig
  BY <1>1 DEF Register, Generate, ReadKubeconfig
<1>2. CASE Start
  BY <1>2 DEF Start, Staged
<1>3. CASE Publish
  BY <1>3 DEF Publish, TypeOK
<1>4. ASSUME NEW p \in Goroutines, Check(p) PROVE KeptFresh'
  BY <1>4, <1>a DEF Check, TypeOK, Staged
<1>5. ASSUME NEW p \in Goroutines, Read(p) PROVE KeptFresh'
  BY <1>5, <1>a DEF Read, TypeOK, Staged
<1>6. ASSUME NEW p \in Goroutines, Fetched(p) PROVE KeptFresh'
  BY <1>6, <1>a DEF Fetched, TypeOK, Staged
<1>b. ASSUME NEW p \in Goroutines, SetToken(p) PROVE KeptFresh'
  <2>1. /\ token' = answer[p].token /\ fails' = 0 /\ minute' = minute
        /\ late' = (answer[p].token < Threshold)
    BY <1>b DEF SetToken
  <2>2. Period * fails' = 0
    BY <2>1, Slack
  <2>3. token' \in Int
    BY <2>1 DEF TypeOK, Answers
  <2>4. ~late' => token' >= Threshold
    <3>1. ~(token' < Threshold) => token' >= Threshold
      BY <2>3, <1>a
    <3>2. late' = (token' < Threshold)
      BY <2>1
    <3> QED
      BY <3>1, <3>2
  <2>5. ~late' => token' + minute' + (IF AutoRests' THEN 0 ELSE Period)
                    >= Threshold - Period * fails'
    <3>1. minute' \in Nat /\ Threshold \in Int /\ Period \in Nat
      BY <2>1, <1>a
    <3> HIDE DEF KeptFresh, Kept, AutoRests
    <3> QED
      BY <2>2, <2>3, <2>4, <3>1
  <2> QED
    BY <2>5
<1>7. ASSUME NEW p \in Goroutines, Retry(p) PROVE KeptFresh'
  BY <1>7 DEF Retry
<1>8. ASSUME NEW p \in Goroutines, NotFetched(p) PROVE KeptFresh'
  <2>1. UNCHANGED <<token, minute, due, cancelled, stopped, late>>
    BY <1>8 DEF NotFetched
  <2>2. CASE p # "auto"
    <3>1. at'["auto"] = at["auto"] /\ fails' = fails
      BY <1>8, <2>2 DEF NotFetched, TypeOK
    <3> QED
      BY <2>1, <3>1
  <2>3. CASE p = "auto"
    <3>1. at["auto"] = "fetch" /\ fails' = (IF fails < MaxFails THEN fails + 1 ELSE fails)
      BY <1>8, <2>3 DEF NotFetched
    <3>2. CASE fails < MaxFails
      <4>1. fails' = fails + 1 /\ Period * fails' = Period * fails + Period
        BY <3>1, <3>2, <1>a, Slack
      <4> QED
        BY <2>1, <3>1, <3>2, <4>1, <1>a
    <3>3. CASE ~(fails < MaxFails)
      BY <2>1, <3>1, <3>3
    <3> QED
      BY <3>2, <3>3
  <2> QED
    BY <2>2, <2>3
<1>9. ASSUME NEW p \in Goroutines, Expiry(p) PROVE KeptFresh'
  BY <1>9, <1>a DEF Expiry, TypeOK, Staged
<1>10. ASSUME NEW source \in {"tick", "request"}, Look(source) PROVE KeptFresh'
  <2>1. UNCHANGED <<token, minute, fails, cancelled, stopped>>
    BY <1>10 DEF Look
  <2>2. /\ at["auto"] = "select"
        /\ at'["auto"] = (IF token < Threshold THEN "fetch" ELSE "select")
    BY <1>10 DEF Look, TypeOK
  <2>3. late' = (late /\ token < Threshold)
    BY <1>10 DEF Look
  <2>4. CASE token < Threshold
    <3>1. (late' => late) /\ (late => late')
      BY <2>3, <2>4
    <3>2. at'["auto"] = "fetch"
      BY <2>2, <2>4
    <3> QED
      BY <2>1, <2>2, <3>1, <3>2, <1>a
  <2>5. CASE ~(token < Threshold)
    <3>1. token >= Threshold
      BY <2>5, <1>a
    <3> QED
      BY <2>1, <3>1, <1>a
  <2> QED
    BY <2>4, <2>5
<1>11. CASE LookForRenewal
  BY <1>11, <1>a DEF LookForRenewal, TypeOK
<1>12. CASE Renew
  BY <1>12, <1>a DEF Renew, TypeOK
<1>13. ASSUME NEW p \in Loops, Leave(p) PROVE KeptFresh'
  BY <1>13, <1>a DEF Leave, TypeOK
<1>14. ASSUME NEW p \in Callers, Ask(p) \/ Take(p) PROVE KeptFresh'
  BY <1>14, <1>a DEF Ask, Take, TypeOK
<1>15. CASE TriggerRefresh \/ StopTokenRefresh \/ Remove \/ Outage
  BY <1>15 DEF TriggerRefresh, StopTokenRefresh, Remove, Outage
<1>16. CASE ClearCache
  BY <1>16 DEF ClearCache
<1>17. CASE Minute
  <2>1. UNCHANGED <<at, fails, cancelled, stopped, late>> /\ token' = Aged(token)
    BY <1>17 DEF Minute
  <2>2. /\ minute' = IF minute + 1 = Period THEN 0 ELSE minute + 1
        /\ due' = IF minute + 1 = Period THEN {p \in Loops : at[p] # "gone"} ELSE due
    BY <1>17 DEF Minute
  <2>3. at["auto"] \notin {"unborn", "gone"} => at["auto"] = "select" /\ "auto" \notin due
    BY <1>17 DEF Minute, Staged, TypeOK
  <2>4. token' \in Int /\ token \in Int /\ (token # None => token' >= token - 1)
    BY <2>1, <1>a
  <2>5. SUFFICES ASSUME ~cancelled, ~stopped, ~late, at["auto"] \notin {"unborn", "gone"},
                        token # None, fails < MaxFails
                 PROVE  token' + minute' + (IF "auto" \notin due' THEN 0 ELSE Period)
                          >= Threshold - Period * fails
    BY <2>1, <2>3, <1>a
  <2>6. token + minute >= Threshold - Period * fails
    BY <2>3, <2>5, <1>a
  <2>9. Threshold \in Int /\ minute \in Int /\ Period \in Int
    BY <1>a
  <2>10. Period * fails \in Int
    BY <1>a
  <2> HIDE DEF KeptFresh
  <2>7. CASE minute + 1 = Period
    <3>1. minute' = 0 /\ "auto" \in due'
      BY <2>2, <2>5, <2>7
    <3> DEFINE slack == Period * fails
    <3> HIDE DEF slack
    <3>2. token + minute >= Threshold - slack /\ slack \in Int
      BY <2>6, <2>10 DEF slack
    <3>3. token' + (minute + 1) + 0 >= Threshold - slack
      BY <2>4, <2>5, <2>9, <3>2, OneMinute
    <3>4. minute + 1 = Period /\ token' \in Int
      BY <2>4, <2>7
    <3> QED
      BY <3>1, <3>3, <3>4 DEF slack
  <2>8. CASE minute + 1 # Period
    <3>1. minute' = minute + 1 /\ "auto" \notin due'
      BY <2>2, <2>3, <2>5, <2>8
    <3> DEFINE slack == Period * fails
    <3> HIDE DEF slack
    <3>2. token + minute >= Threshold - slack /\ slack \in Int
      BY <2>6, <2>10 DEF slack
    <3>3. token' + (minute + 1) + 0 >= Threshold - slack
      BY <2>4, <2>5, <2>9, <3>2, OneMinute
    <3> QED
      BY <3>1, <3>3 DEF slack
  <2> QED
    BY <2>7, <2>8
<1>18. CASE UNCHANGED vars
  BY <1>18 DEF vars
<1> QED
  BY <1>1, <1>2, <1>3, <1>4, <1>5, <1>6, <1>7, <1>8, <1>9, <1>10, <1>11, <1>12, <1>13,
     <1>14, <1>15, <1>16, <1>17, <1>18, <1>b, NextCases

\* A tick that waits is the one of this very minute, and who clears the cache is
\* remembered until renew has seen a token again.
LEMMA TicksStep == ASSUME TypeOK, TicksAreNew, Staged, [Next]_vars PROVE TicksAreNew'
<1> USE Names, Numbers DEF TicksAreNew
<1>a. ASSUME due' \subseteq due, minute' = minute,
             \A p \in Loops : at[p] = "gone" => at'[p] = "gone"
      PROVE  TicksAreNew'
  BY <1>a DEF TypeOK
<1>1. CASE Register \/ Generate \/ ReadKubeconfig \/ TriggerRefresh \/ ClearCache
           \/ StopTokenRefresh \/ Remove \/ Outage
  BY <1>1 DEF Register, Generate, ReadKubeconfig, TriggerRefresh, ClearCache,
              StopTokenRefresh, Remove, Outage
<1>2. CASE Start
  BY <1>2 DEF Start
<1>3. CASE Publish
  BY <1>3 DEF Publish, TypeOK
<1>b. CASE Renew
  BY <1>b DEF Renew, TypeOK
<1>4. ASSUME NEW p \in Goroutines, Check(p) \/ Read(p) PROVE TicksAreNew'
  BY <1>4 DEF Check, Read, TypeOK
<1>5. ASSUME NEW p \in Goroutines, Fetched(p) PROVE TicksAreNew'
  BY <1>5 DEF Fetched, TypeOK
<1>d. ASSUME NEW p \in Goroutines, SetToken(p) PROVE TicksAreNew'
  <2>1. UNCHANGED <<due, minute>> /\ at[p] = "store"
    BY <1>d DEF SetToken
  <2>2. \A q \in Loops : at[q] = "gone" => at'[q] = "gone"
    BY <1>d, <2>1 DEF SetToken, TypeOK
  <2> QED
    BY <1>a, <2>1, <2>2
<1>6. ASSUME NEW p \in Goroutines, Retry(p) PROVE TicksAreNew'
  BY <1>6 DEF Retry
<1>7. ASSUME NEW p \in Goroutines, NotFetched(p) PROVE TicksAreNew'
  BY <1>7 DEF NotFetched, TypeOK
<1>8. ASSUME NEW p \in Goroutines, Expiry(p) PROVE TicksAreNew'
  BY <1>8 DEF Expiry, TypeOK
<1>9. ASSUME NEW source \in {"tick", "request"}, Look(source) PROVE TicksAreNew'
  BY <1>9, <1>a DEF Look, TypeOK
<1>10. CASE LookForRenewal
  BY <1>10 DEF LookForRenewal, TypeOK
<1>11. ASSUME NEW p \in Loops, Leave(p) PROVE TicksAreNew'
  BY <1>11 DEF Leave, TypeOK
<1>12. ASSUME NEW p \in Callers, Ask(p) PROVE TicksAreNew'
  BY <1>12, <1>a DEF Ask, TypeOK
<1>c. ASSUME NEW p \in Callers, Take(p) PROVE TicksAreNew'
  BY <1>c, <1>a DEF Take, TypeOK
<1>13. CASE Minute
  BY <1>13 DEF Minute, TypeOK
<1>14. CASE UNCHANGED vars
  BY <1>14 DEF vars
<1> QED
  BY <1>1, <1>2, <1>3, <1>4, <1>5, <1>6, <1>7, <1>8, <1>9, <1>10, <1>11, <1>12, <1>13,
     <1>14, <1>b, <1>c, <1>d, NextCases

LEMMA EmptyStep ==
    ASSUME TypeOK, Staged, Reading, EmptyIsCleared, [Next]_vars PROVE EmptyIsCleared'
<1> USE Names, Numbers DEF EmptyIsCleared
<1>1. CASE Register \/ Generate \/ ReadKubeconfig \/ TriggerRefresh \/ StopTokenRefresh
           \/ Remove \/ Outage
  BY <1>1 DEF Register, Generate, ReadKubeconfig, TriggerRefresh, StopTokenRefresh, Remove, Outage
<1>2. CASE Start
  BY <1>2 DEF Start, TypeOK
<1>3. CASE Publish
  BY <1>3 DEF Publish, TypeOK, Nothing
<1>4. ASSUME NEW p \in Goroutines, Check(p) PROVE EmptyIsCleared'
  BY <1>4 DEF Check, TypeOK, None
<1>5. ASSUME NEW p \in Goroutines, Read(p) PROVE EmptyIsCleared'
  BY <1>5, ReadStep DEF Read, TypeOK
<1>6. ASSUME NEW p \in Goroutines, Fetched(p) PROVE EmptyIsCleared'
  <2>1. answer'["register"].ok = answer["register"].ok
    BY <1>6, ReadStep DEF Fetched
  <2> QED
    BY <1>6, <2>1 DEF Fetched, TypeOK
<1>a. ASSUME NEW p \in Goroutines, SetToken(p) PROVE EmptyIsCleared'
  BY <1>a DEF SetToken, Reading
<1>7. ASSUME NEW p \in Goroutines, Retry(p) PROVE EmptyIsCleared'
  BY <1>7 DEF Retry
<1>8. ASSUME NEW p \in Goroutines, NotFetched(p) PROVE EmptyIsCleared'
  BY <1>8 DEF NotFetched, TypeOK
<1>9. ASSUME NEW p \in Goroutines, Expiry(p) PROVE EmptyIsCleared'
  <2>1. /\ UNCHANGED <<token, cleared, stage>> /\ at[p] = "expiry"
        /\ at' = [at EXCEPT ![p] = "answered"]
    BY <1>9 DEF Expiry
  <2>2. p # "register" => answer'["register"] = answer["register"]
    BY <1>9, ExpiryStep
  <2> QED
    BY <2>1, <2>2 DEF TypeOK
<1>10. ASSUME NEW source \in {"tick", "request"}, Look(source) PROVE EmptyIsCleared'
  BY <1>10 DEF Look, TypeOK
<1>11. CASE LookForRenewal
  BY <1>11 DEF LookForRenewal, TypeOK, None
<1>12. CASE Renew
  BY <1>12 DEF Renew, TypeOK
<1>13. ASSUME NEW p \in Loops, Leave(p) PROVE EmptyIsCleared'
  BY <1>13 DEF Leave, TypeOK
<1>14. ASSUME NEW p \in Callers, Ask(p) \/ Take(p) PROVE EmptyIsCleared'
  BY <1>14 DEF Ask, Take, TypeOK
<1>15. CASE ClearCache
  BY <1>15 DEF ClearCache
<1>16. CASE Minute
  <2>1. UNCHANGED <<at, cleared, stage>> /\ token' = Aged(token)
    BY <1>16 DEF Minute
  <2>2. answer'["register"].ok = answer["register"].ok
    BY <1>16, MinuteStep
  <2> QED
    BY <2>1, <2>2 DEF TypeOK
<1>17. CASE UNCHANGED vars
  BY <1>17 DEF vars
<1> QED
  BY <1>1, <1>2, <1>3, <1>4, <1>5, <1>6, <1>7, <1>8, <1>9, <1>10, <1>11, <1>12, <1>13,
     <1>14, <1>15, <1>16, <1>17, <1>a, NextCases

\* Where the goroutines may be.
LEMMA StagedStep == ASSUME TypeOK, Staged, ~crashed, [Next]_vars PROVE Staged'
<1> USE Names, Numbers DEF Staged, TypeOK, Goroutines
<1>1. CASE Register
  BY <1>1 DEF Register
<1>2. CASE Generate
  BY <1>2 DEF Generate
<1>3. CASE ReadKubeconfig
  BY <1>3 DEF ReadKubeconfig
<1>4. CASE Start
  BY <1>4 DEF Start
<1>5. CASE Publish
  BY <1>5 DEF Publish
<1>6. ASSUME NEW p \in Goroutines, Check(p) PROVE Staged'
  BY <1>6 DEF Check
<1>7. ASSUME NEW p \in Goroutines, Read(p) PROVE Staged'
  BY <1>7 DEF Read
<1>8. ASSUME NEW p \in Goroutines, Fetched(p) PROVE Staged'
  BY <1>8 DEF Fetched
<1>b. ASSUME NEW p \in Goroutines, SetToken(p) PROVE Staged'
  <2>1. UNCHANGED <<exec, stage, due, minute, cancelled, stopped>> /\ at[p] = "store"
    BY <1>b DEF SetToken
  <2>2. at' = [at EXCEPT ![p] = IF p = "auto" THEN "select" ELSE "expiry"]
    BY <1>b DEF SetToken
  <2>3. exec
    BY <2>1, CallersAssumption
  <2> QED
    BY <2>1, <2>2, <2>3
<1>9. ASSUME NEW p \in Goroutines, Retry(p) PROVE Staged'
  BY <1>9 DEF Retry
<1>10. ASSUME NEW p \in Goroutines, NotFetched(p) PROVE Staged'
  BY <1>10 DEF NotFetched
<1>11. ASSUME NEW p \in Goroutines, Expiry(p) PROVE Staged'
  BY <1>11 DEF Expiry
<1>12. ASSUME NEW source \in {"tick", "request"}, Look(source) PROVE Staged'
  BY <1>12 DEF Look
<1>13. CASE LookForRenewal
  BY <1>13 DEF LookForRenewal
<1>14. CASE Renew
  BY <1>14 DEF Renew
<1>15. ASSUME NEW p \in Loops, Leave(p) PROVE Staged'
  BY <1>15 DEF Leave
<1>16. ASSUME NEW p \in Callers, Ask(p) PROVE Staged'
  BY <1>16 DEF Ask
<1>17. ASSUME NEW p \in Callers, Take(p) PROVE Staged'
  BY <1>17 DEF Take
<1>18. CASE TriggerRefresh
  BY <1>18 DEF TriggerRefresh
<1>a. CASE Outage
  BY <1>a DEF Outage
<1>19. CASE StopTokenRefresh \/ Remove
  BY <1>19 DEF StopTokenRefresh, Remove
<1>20. CASE ClearCache
  BY <1>20 DEF ClearCache
<1>21. CASE Minute
  <2>1. /\ exec /\ UNCHANGED <<at, stage, exec, cancelled, stopped>>
        /\ ~Busy("register") /\ token' = Aged(token)
    BY <1>21 DEF Minute
  <2>2. stage # "publish" /\ stage \in {"done", "failed"}
    BY <2>1
  <2> QED
    BY <2>1, <2>2
<1>22. CASE UNCHANGED vars
  BY <1>22 DEF vars
<1> QED
  BY <1>1, <1>2, <1>3, <1>4, <1>5, <1>6, <1>7, <1>8, <1>9, <1>10, <1>11, <1>12, <1>13,
     <1>14, <1>15, <1>16, <1>17, <1>18, <1>19, <1>20, <1>21, <1>22, <1>a, <1>b, NextCases

\* The goroutines other than p, with the cache as it was or aged with them.
LEMMA ReadingStep == ASSUME TypeOK, Staged, Reading, [Next]_vars PROVE Reading'
<1> USE Names, Numbers DEF Reading
<1>a. \A p \in Goroutines : answer[p] \in Answers /\ answer[p].token \in Tokens
  BY DEF TypeOK, Answers
<1>1. CASE Register \/ Generate \/ ReadKubeconfig \/ TriggerRefresh \/ StopTokenRefresh
           \/ Remove \/ Outage
  BY <1>1 DEF Register, Generate, ReadKubeconfig, TriggerRefresh, StopTokenRefresh, Remove, Outage
<1>2. CASE Start
  BY <1>2 DEF Start, TypeOK, Staged
<1>3. CASE Publish
  BY <1>3 DEF Publish, TypeOK, Nothing
<1>4. ASSUME NEW p \in Goroutines, Check(p) PROVE Reading'
  BY <1>4 DEF Check, TypeOK, None
<1>5. ASSUME NEW p \in Goroutines, Read(p) PROVE Reading'
  <2>1. /\ UNCHANGED <<token, cleared, overtaken>> /\ at[p] = "read"
        /\ at' = [at EXCEPT ![p] = "expiry"] /\ token \in Tokens
    BY <1>5 DEF Read, TypeOK
  <2>2. /\ answer'[p].token = token /\ answer'[p].ok = answer[p].ok
        /\ \A q \in Goroutines : q # p => answer'[q] = answer[q]
    BY <1>5, <2>1, ReadStep DEF Read
  <2> QED
    BY <2>1, <2>2 DEF TypeOK
<1>6. ASSUME NEW p \in Goroutines, Fetched(p) PROVE Reading'
  <2>1. UNCHANGED <<token, cleared, overtaken>> /\ at[p] = "fetch" /\ Life # None
    BY <1>6 DEF Fetched
  <2>2. at' = [at EXCEPT ![p] = "store"]
    BY <1>6 DEF Fetched
  <2>3. /\ answer'[p].token = Life /\ answer'[p].ok = answer[p].ok
        /\ \A q \in Goroutines : q # p => answer'[q] = answer[q]
    BY <1>6, ReadStep DEF Fetched
  <2> QED
    BY <2>1, <2>2, <2>3 DEF TypeOK
<1>b. ASSUME NEW p \in Goroutines, SetToken(p) PROVE Reading'
  <2> DEFINE t == answer[p].token
  <2>1. token' = t /\ UNCHANGED cleared /\ at[p] = "store" /\ t # None
    BY <1>b DEF SetToken
  <2>2. at' = [at EXCEPT ![p] = IF p = "auto" THEN "select" ELSE "expiry"]
    BY <1>b DEF SetToken
  <2>3. at \in [Goroutines -> Places] /\ token \in Tokens /\ t \in Tokens
    BY <1>a DEF TypeOK
  <2>4. /\ \A q \in Goroutines : q # "auto" => answer'[q] = answer[q]
        /\ answer'["auto"].ok => answer'["auto"] = answer["auto"]
    BY <1>b, StoreStep DEF Nothing
  <2>5. ASSUME NEW q \in Goroutines, answer'[q].ok PROVE at'[q] = "answered"
    BY <2>1, <2>2, <2>3, <2>4, <2>5
  <2>6. ASSUME NEW q \in Goroutines, at'[q] = "store" PROVE answer'[q].token # None
    <3>1. at[q] = "store" /\ q # p
      BY <2>2, <2>3, <2>6
    <3>2. CASE q = "auto"
      BY <1>b, <3>1, <3>2, StoreStep
    <3>3. CASE q # "auto"
      BY <2>4, <3>1, <3>3
    <3> QED
      BY <3>2, <3>3
  <2>7. ASSUME NEW q \in Goroutines, q \notin cleared, at'[q] = "expiry"
        PROVE  answer'[q].token # None /\ (q \notin overtaken' => token' >= answer'[q].token)
    <3>1. q # "auto"
      <4>1. at["auto"] # "expiry"
        BY DEF Staged
      <4> QED
        BY <2>2, <2>3, <2>7, <4>1
    <3>2. answer'[q] = answer[q]
      BY <2>4, <3>1
    <3>3. CASE q = p
      <4>1. answer'[q].token = t
        BY <3>2, <3>3
      <4>2. t \in Int
        BY <2>3
      <4> QED
        BY <2>1, <4>1, <4>2
    <3>4. CASE q # p
      <4>1. at[q] = "expiry"
        BY <2>2, <2>3, <2>7, <3>4
      <4>2. answer[q].token # None /\ (q \notin overtaken => token >= answer[q].token)
        BY <2>7, <4>1
      <4>3. ASSUME q \notin overtaken' PROVE token' >= answer'[q].token
        <5>1. ~(t < token) /\ q \notin overtaken
          BY <1>b, <4>1, <4>3 DEF SetToken
        <5>2. t \in Int /\ token \in Int /\ answer[q].token \in Int
          BY <1>a, <2>3
        <5> QED
          BY <2>1, <3>2, <4>2, <5>1, <5>2
      <4> QED
        BY <3>2, <4>2, <4>3
    <3> QED
      BY <3>3, <3>4
  <2> HIDE DEF t
  <2> QED
    BY <2>1, <2>5, <2>6, <2>7
<1>7. ASSUME NEW p \in Goroutines, Retry(p) PROVE Reading'
  BY <1>7 DEF Retry
<1>8. ASSUME NEW p \in Goroutines, NotFetched(p) PROVE Reading'
  BY <1>8 DEF NotFetched, TypeOK
<1>9. ASSUME NEW p \in Goroutines, Expiry(p) PROVE Reading'
  <2>1. /\ UNCHANGED <<token, cleared, overtaken>> /\ at[p] = "expiry"
        /\ at' = [at EXCEPT ![p] = "answered"]
    BY <1>9 DEF Expiry
  <2>2. \A q \in Goroutines : q # p => answer'[q] = answer[q]
    BY <1>9, ExpiryStep
  <2> QED
    BY <2>1, <2>2 DEF TypeOK
<1>10. ASSUME NEW source \in {"tick", "request"}, Look(source) PROVE Reading'
  BY <1>10 DEF Look, TypeOK
<1>11. CASE LookForRenewal
  <2>1. /\ UNCHANGED <<token, answer, overtaken>> /\ at["renew"] = "select"
        /\ at' = [at EXCEPT !["renew"] = IF IsValid(token) THEN "select" ELSE "check"]
        /\ cleared' = IF IsValid(token) THEN cleared \ {"renew"} ELSE cleared
    BY <1>11 DEF LookForRenewal
  <2> QED
    BY <2>1 DEF TypeOK
<1>12. CASE Renew
  BY <1>12 DEF Renew, TypeOK, Nothing
<1>13. ASSUME NEW p \in Loops, Leave(p) PROVE Reading'
  BY <1>13 DEF Leave, TypeOK
<1>14. ASSUME NEW p \in Callers, Ask(p) PROVE Reading'
  BY <1>14 DEF Ask, TypeOK
<1>15. ASSUME NEW p \in Callers, Take(p) PROVE Reading'
  BY <1>15 DEF Take, TypeOK, Nothing
<1>16. CASE ClearCache
  BY <1>16 DEF ClearCache, TypeOK, Staged
<1>17. CASE Minute
  <2>1. UNCHANGED <<at, cleared, overtaken>> /\ token' = Aged(token) /\ token \in Tokens
    BY <1>17 DEF Minute, TypeOK
  <2>2. \A p \in Goroutines : answer'[p].token = Aged(answer[p].token) /\ answer'[p].ok = answer[p].ok
    BY <1>17, MinuteStep
  <2>3. ASSUME NEW p \in Goroutines, p \notin cleared, at[p] = "read" PROVE token' # None
    BY <2>1, <2>3
  <2>4. ASSUME NEW p \in Goroutines, p \notin cleared, at[p] = "expiry"
        PROVE  answer'[p].token # None /\ (p \notin overtaken => token' >= answer'[p].token)
    <3>1. /\ answer[p].token # None /\ answer[p].token \in Tokens
          /\ p \notin overtaken => token >= answer[p].token
      BY <1>a, <2>4
    <3>2. answer'[p].token = Aged(answer[p].token)
      BY <2>2
    <3>3. p \notin overtaken => token' >= answer'[p].token
      BY <2>1, <3>1, <3>2
    <3> QED
      BY <3>1, <3>2, <3>3
  <2>5. ASSUME NEW p \in Goroutines, at[p] = "store" PROVE answer'[p].token # None
    <3>1. answer[p].token \in Tokens /\ answer[p].token # None
      BY <1>a, <2>5
    <3>2. answer'[p].token = Aged(answer[p].token)
      BY <2>2
    <3> QED
      BY <3>1, <3>2
  <2> QED
    BY <2>1, <2>2, <2>3, <2>4, <2>5
<1>18. CASE UNCHANGED vars
  BY <1>18 DEF vars
<1> QED
  BY <1>1, <1>2, <1>3, <1>4, <1>5, <1>6, <1>7, <1>8, <1>9, <1>10, <1>11, <1>12, <1>13,
     <1>14, <1>15, <1>16, <1>17, <1>18, <1>b, NextCases

LEMMA AnswersStep ==
    ASSUME TypeOK, Staged, Reading, AnswersAToken, [Next]_vars PROVE AnswersAToken'
<1> USE Names, Numbers DEF AnswersAToken
<1>1. CASE Register \/ Generate \/ ReadKubeconfig \/ Start \/ TriggerRefresh \/ StopTokenRefresh
           \/ Remove \/ Outage
  BY <1>1 DEF Register, Generate, ReadKubeconfig, Start, TriggerRefresh, StopTokenRefresh, Remove, Outage
<1>2. CASE Publish
  BY <1>2 DEF Publish, TypeOK, Nothing
<1>3. ASSUME NEW p \in Goroutines, Check(p) \/ Retry(p) \/ NotFetched(p) PROVE AnswersAToken'
  BY <1>3 DEF Check, Retry, NotFetched
<1>4. ASSUME NEW p \in Goroutines, Read(p) PROVE AnswersAToken'
  <2>1. /\ UNCHANGED <<cleared, overtaken>> /\ at[p] = "read" /\ token \in Tokens
        /\ answer' = [answer EXCEPT ![p].token = token]
    BY <1>4 DEF Read, TypeOK
  <2>2. /\ ~answer'[p].ok
        /\ \A q \in Goroutines : q # p => answer'[q] = answer[q]
    BY <2>1, ReadStep DEF Reading
  <2> QED
    BY <2>1, <2>2
<1>5. ASSUME NEW p \in Goroutines, Fetched(p) PROVE AnswersAToken'
  <2>1. /\ UNCHANGED <<cleared, overtaken>> /\ at[p] = "fetch"
        /\ answer' = [answer EXCEPT ![p].token = Life]
    BY <1>5 DEF Fetched
  <2>2. /\ ~answer'[p].ok
        /\ \A q \in Goroutines : q # p => answer'[q] = answer[q]
    BY <2>1, ReadStep DEF Reading
  <2> QED
    BY <2>1, <2>2
<1>a. ASSUME NEW p \in Goroutines, SetToken(p) PROVE AnswersAToken'
  <2>1. UNCHANGED cleared /\ overtaken \subseteq overtaken'
    BY <1>a DEF SetToken
  <2>2. \A q \in Goroutines : answer'[q].ok => answer'[q] = answer[q]
    BY <1>a, StoreStep DEF Nothing
  <2> QED
    BY <2>1, <2>2
<1>6. ASSUME NEW p \in Goroutines, Expiry(p) PROVE AnswersAToken'
  <2>1. UNCHANGED <<cleared, overtaken>> /\ at[p] = "expiry"
    BY <1>6 DEF Expiry
  <2>2. /\ answer'[p] = [token |-> answer[p].token, expiry |-> token, ok |-> TRUE]
        /\ \A q \in Goroutines : q # p => answer'[q] = answer[q]
    BY <1>6, ExpiryStep
  <2>3. answer'[p].token = answer[p].token /\ answer'[p].expiry = token
    BY <2>2
  <2> QED
    BY <2>1, <2>2, <2>3 DEF Reading
<1>7. ASSUME NEW source \in {"tick", "request"}, Look(source) PROVE AnswersAToken'
  BY <1>7 DEF Look
<1>8. CASE LookForRenewal
  <2>1. UNCHANGED <<answer, overtaken>> /\ at["renew"] = "select" /\ cleared' \in {cleared, cleared \ {"renew"}}
    BY <1>8 DEF LookForRenewal
  <2>2. ~answer["renew"].ok
    BY <2>1 DEF Reading
  <2> QED
    BY <2>1, <2>2
<1>9. CASE Renew
  BY <1>9 DEF Renew, TypeOK, Nothing
<1>10. ASSUME NEW p \in Loops, Leave(p) PROVE AnswersAToken'
  BY <1>10 DEF Leave
<1>11. ASSUME NEW p \in Callers, Ask(p) PROVE AnswersAToken'
  BY <1>11 DEF Ask
<1>12. ASSUME NEW p \in Callers, Take(p) PROVE AnswersAToken'
  BY <1>12 DEF Take, TypeOK, Nothing
<1>13. CASE ClearCache
  BY <1>13 DEF ClearCache
<1>14. CASE Minute
  <2>1. UNCHANGED <<cleared, overtaken>>
    BY <1>14 DEF Minute
  <2>2. ASSUME NEW p \in Goroutines, answer'[p].ok, p \notin cleared
        PROVE  /\ answer'[p].token # None
               /\ p \notin overtaken => answer'[p].expiry >= answer'[p].token
    <3>1. /\ answer'[p].token = Aged(answer[p].token) /\ answer'[p].ok = answer[p].ok
          /\ answer'[p].expiry = Aged(answer[p].expiry)
      BY <1>14, MinuteStep
    <3>2. answer[p].token \in Tokens /\ answer[p].expiry \in Tokens
      BY DEF TypeOK, Answers
    <3>3. answer[p].token # None /\ (p \notin overtaken => answer[p].expiry >= answer[p].token)
      BY <2>2, <3>1
    <3> QED
      BY <3>1, <3>2, <3>3
  <2> QED
    BY <2>1, <2>2
<1>15. CASE UNCHANGED vars
  BY <1>15 DEF vars
<1> QED
  BY <1>1, <1>2, <1>3, <1>4, <1>5, <1>6, <1>7, <1>8, <1>9, <1>10, <1>11, <1>12, <1>13,
     <1>14, <1>15, <1>a, NextCases

\* Only a renewal and a second removal panic.
LEMMA PanicStep ==
    ASSUME TypeOK, Staged, Reading, HealthyNeverPanics, ~crashed, [Next]_vars
    PROVE  HealthyNeverPanics'
<1> USE Names DEF HealthyNeverPanics
<1>1. CASE Renew
  BY <1>1 DEF Renew, Staged
<1>2. CASE Remove
  BY <1>2 DEF Remove
<1>3. (~Renew /\ ~Remove) => UNCHANGED crashed
  BY NextCases DEF Register, Generate, ReadKubeconfig, Start, Publish, Check, Read, Fetched, SetToken, Retry,
     NotFetched, Expiry, Look, LookForRenewal, Leave, Ask, Take, TriggerRefresh, ClearCache,
     StopTokenRefresh, Outage, Minute, vars
<1> QED
  BY <1>1, <1>2, <1>3

LEMMA FileStep == ASSUME NoFileLeft, [Next]_vars PROVE NoFileLeft'
<1> USE DEF NoFileLeft
<1>1. CASE Register \/ Generate \/ ReadKubeconfig \/ Start \/ Publish \/ LookForRenewal \/ Renew
           \/ TriggerRefresh \/ ClearCache \/ StopTokenRefresh \/ Remove \/ Outage \/ Minute
  BY <1>1 DEF Register, Generate, ReadKubeconfig, Start, Publish, LookForRenewal, Renew,
              TriggerRefresh, ClearCache, StopTokenRefresh, Remove, Outage, Minute
<1>2. (~(Register \/ Generate \/ ReadKubeconfig \/ Start \/ Publish \/ LookForRenewal \/ Renew
           \/ TriggerRefresh \/ ClearCache \/ StopTokenRefresh \/ Remove \/ Outage \/ Minute))
      => UNCHANGED <<file, stage>>
  BY NextCases DEF Check, Read, Fetched, SetToken, Retry, NotFetched, Expiry, Look, Leave, Ask, Take, vars
<1> QED
  BY <1>1, <1>2

\* After a panic nothing happens.
LEMMA InvAlways == Spec => []IInv
<1>1. IInv /\ [Next]_vars => IInv'
  <2> SUFFICES ASSUME IInv, [Next]_vars PROVE IInv'
    OBVIOUS
  <2>1. CASE UNCHANGED vars
    <3> USE <2>1 DEF vars
    <3>1. TypeOK'
      BY DEF IInv, TypeOK
    <3>2. Staged' /\ Reading'
      BY DEF IInv, Staged, Reading
    <3>3. KeptFresh' /\ AnswersAToken' /\ TicksAreNew'
      BY DEF IInv, KeptFresh, Kept, AutoRests, AnswersAToken, TicksAreNew
    <3>4. EmptyIsCleared' /\ HealthyNeverPanics' /\ NoFileLeft'
      BY DEF IInv, EmptyIsCleared, HealthyNeverPanics, NoFileLeft
    <3> QED
      BY <3>1, <3>2, <3>3, <3>4 DEF IInv
  <2>2. CASE Next
    <3>1. ~crashed
      BY <2>2 DEF Next
    <3> QED
      BY <3>1, TypeStep, StagedStep, KeptStep, ReadingStep, AnswersStep, TicksStep, EmptyStep,
         PanicStep, FileStep DEF IInv
  <2> QED
    BY <2>1, <2>2
<1> QED
  BY InitInv, <1>1, PTL DEF Spec

-----------------------------------------------------------------------------
\* For any number of callers and any times in the order of the real ones: the
\* cache loses a period for each pass that failed and no more, GetToken answers
\* with a token and an expiry that go together unless the cache was cleared,
\* and neither a panic nor a file comes from a registration that went well.
THEOREM TokensAreKept == Spec => []Inv
<1>1. IInv => Inv
  BY DEF IInv, Inv
<1> QED
  BY <1>1, InvAlways, PTL

\* Only its look takes the second loop from its select to a GetToken.
LEMMA RenewMoves ==
    ASSUME TypeOK, [Next]_vars, at["renew"] = "select", at'["renew"] = "check"
    PROVE  LookForRenewal
<1> USE Names DEF TypeOK
<1>1. CASE Register \/ Generate \/ ReadKubeconfig \/ TriggerRefresh \/ ClearCache
           \/ StopTokenRefresh \/ Remove \/ Outage \/ Minute \/ UNCHANGED vars
  BY <1>1 DEF Register, Generate, ReadKubeconfig, TriggerRefresh, ClearCache,
     StopTokenRefresh, Remove, Outage, Minute, vars
<1>2. CASE Start
  BY <1>2 DEF Start
<1>3. CASE Publish
  BY <1>3 DEF Publish
<1>4. ASSUME NEW p \in Goroutines, Check(p) PROVE FALSE
  BY <1>4 DEF Check
<1>5. ASSUME NEW p \in Goroutines, Read(p) PROVE FALSE
  BY <1>5 DEF Read
<1>6. ASSUME NEW p \in Goroutines, Fetched(p) PROVE FALSE
  BY <1>6 DEF Fetched
<1>a. ASSUME NEW p \in Goroutines, SetToken(p) PROVE FALSE
  <2>1. at' = [at EXCEPT ![p] = "select"] \/ at' = [at EXCEPT ![p] = "expiry"]
    BY <1>a DEF SetToken
  <2> QED
    BY <2>1
<1>7. ASSUME NEW p \in Goroutines, Retry(p) PROVE FALSE
  BY <1>7 DEF Retry
<1>8. ASSUME NEW p \in Goroutines, NotFetched(p) PROVE FALSE
  BY <1>8 DEF NotFetched
<1>9. ASSUME NEW p \in Goroutines, Expiry(p) PROVE FALSE
  BY <1>9 DEF Expiry
<1>10. ASSUME NEW source \in {"tick", "request"}, Look(source) PROVE FALSE
  BY <1>10 DEF Look
<1>11. CASE Renew
  BY <1>11 DEF Renew
<1>12. ASSUME NEW p \in Loops, Leave(p) PROVE FALSE
  BY <1>12 DEF Leave
<1>13. ASSUME NEW p \in Callers, Ask(p) PROVE FALSE
  BY <1>13 DEF Ask
<1>14. ASSUME NEW p \in Callers, Take(p) PROVE FALSE
  BY <1>14 DEF Take
<1> QED
  BY <1>1, <1>2, <1>3, <1>4, <1>5, <1>6, <1>7, <1>8, <1>9, <1>10, <1>11, <1>12, <1>13, <1>14,
     <1>a, NextCases

\* Only the end of the command takes a goroutine to the SetToken of its token.
LEMMA OnlyFetchesLeadToStores ==
    ASSUME TypeOK, [Next]_vars, NEW p \in Goroutines, at[p] # "store", at'[p] = "store"
    PROVE  Fetched(p)
<1> USE Names DEF TypeOK
<1>1. CASE Register \/ Generate \/ ReadKubeconfig \/ TriggerRefresh \/ ClearCache
           \/ StopTokenRefresh \/ Remove \/ Outage \/ Minute \/ UNCHANGED vars
  BY <1>1 DEF Register, Generate, ReadKubeconfig, TriggerRefresh, ClearCache,
     StopTokenRefresh, Remove, Outage, Minute, vars
<1>2. CASE Start \/ Publish \/ LookForRenewal \/ Renew
  BY <1>2 DEF Start, Publish, LookForRenewal, Renew
<1>3. ASSUME NEW q \in Goroutines, Check(q) \/ Read(q) \/ Expiry(q) PROVE FALSE
  BY <1>3 DEF Check, Read, Expiry
<1>4. ASSUME NEW q \in Goroutines, Fetched(q) PROVE Fetched(p)
  <2>1. at' = [at EXCEPT ![q] = "store"]
    BY <1>4 DEF Fetched
  <2>2. p = q
    BY <2>1
  <2> QED
    BY <1>4, <2>2
<1>5. ASSUME NEW q \in Goroutines, SetToken(q) PROVE FALSE
  <2>1. at' = [at EXCEPT ![q] = "select"] \/ at' = [at EXCEPT ![q] = "expiry"]
    BY <1>5 DEF SetToken
  <2> QED
    BY <2>1
<1>6. ASSUME NEW q \in Goroutines, Retry(q) \/ NotFetched(q) PROVE FALSE
  BY <1>6 DEF Retry, NotFetched
<1>7. ASSUME NEW source \in {"tick", "request"}, Look(source) PROVE FALSE
  BY <1>7 DEF Look
<1>8. ASSUME NEW q \in Loops, Leave(q) PROVE FALSE
  BY <1>8 DEF Leave
<1>9. ASSUME NEW q \in Callers, Ask(q) \/ Take(q) PROVE FALSE
  BY <1>9 DEF Ask, Take
<1> QED
  BY <1>1, <1>2, <1>3, <1>4, <1>5, <1>6, <1>7, <1>8, <1>9, NextCases

\* The second loop acts after a failure, and a cancelled one fetches nothing.
THEOREM LoopsAct == Spec => LoopsActInTime
<1>1. IInv /\ [Next]_vars =>
        [(stage = "done" /\ at["renew"] = "select" /\ at'["renew"] = "check") =>
            fails > 0 \/ late \/ "renew" \in cleared \/ cancelled \/ stopped]_vars
  <2> SUFFICES ASSUME IInv, [Next]_vars, stage = "done", at["renew"] = "select",
                      at'["renew"] = "check", ~cancelled, ~late, ~stopped, "renew" \notin cleared,
                      ~(fails > 0)
               PROVE  FALSE
    OBVIOUS
  <2> USE Names, Numbers
  <2>1. LookForRenewal
    BY RenewMoves DEF IInv
  <2>2. "renew" \in due /\ ~(token > 0)
    BY <2>1 DEF LookForRenewal, IInv, TypeOK
  <2>3. token # None /\ token \in Tokens /\ minute = 0
    BY <2>2 DEF IInv, EmptyIsCleared, TicksAreNew, TypeOK
  <2>4. fails = 0 /\ fails < MaxFails /\ Period * fails = 0
    <3>1. fails \in Nat /\ MaxFails \in Nat \ {0}
      BY BoundsAssumption DEF IInv, TypeOK
    <3> QED
      BY <3>1, Slack
  <2>5. Kept
    BY DEF IInv, Staged, Kept
  <2>6. token + minute + (IF AutoRests THEN 0 ELSE Period) >= Threshold - Period * fails
    BY <2>3, <2>4, <2>5 DEF IInv, KeptFresh
  <2> QED
    BY <2>2, <2>3, <2>4, <2>6
<1>2. IInv /\ [Next]_vars =>
        [cancelled =>
            /\ \A p \in Loops : at'[p] = "store" => at[p] = "store"
            /\ token' > token =>
                  \E p \in Goroutines : at[p] = "store" /\ at'[p] # "store"]_vars
  <2> SUFFICES ASSUME IInv, [Next]_vars, cancelled
               PROVE  /\ \A p \in Loops : at'[p] = "store" => at[p] = "store"
                      /\ token' > token =>
                            \E p \in Goroutines : at[p] = "store" /\ at'[p] # "store"
    OBVIOUS
  <2> USE Names, Numbers
  <2>1. token \in Tokens /\ at \in [Goroutines -> Places]
    BY DEF IInv, TypeOK
  <2>2. ASSUME NEW p \in Loops, at'[p] = "store", at[p] # "store" PROVE FALSE
    <3>1. ~Fetched(p)
      BY DEF Fetched, Runs
    <3>2. p \in Goroutines
      OBVIOUS
    <3> QED
      BY <2>1, <2>2, <3>1, <3>2, OnlyFetchesLeadToStores DEF IInv
  <2>3. ASSUME token' > token
        PROVE  \E p \in Goroutines : at[p] = "store" /\ at'[p] # "store"
    <3>1. ~Minute /\ ~ClearCache
      <4>1. ASSUME Minute PROVE FALSE
        <5>1. token' = Aged(token)
          BY <4>1 DEF Minute
        <5>2. token' <= token /\ token' \in Int /\ token \in Int
          BY <2>1, <5>1
        <5> QED
          BY <2>3, <5>2
      <4>2. ASSUME ClearCache PROVE FALSE
        <5>1. token' = None
          BY <4>2 DEF ClearCache
        <5>2. token' <= token /\ token' \in Int /\ token \in Int
          BY <2>1, <5>1
        <5> QED
          BY <2>3, <5>2
      <4> QED
        BY <4>1, <4>2
    <3>2. token' # token
      BY <2>1, <2>3
    <3>3. PICK p \in Goroutines : SetToken(p)
      BY <3>1, <3>2, NextCases DEF Register, Generate, ReadKubeconfig, Start, Publish, Check, Read,
         Fetched, Retry, NotFetched, Expiry, Look, LookForRenewal, Renew, Leave, Ask, Take,
         TriggerRefresh, StopTokenRefresh, Remove, Outage, vars
    <3>4. at[p] = "store" /\ (at'[p] = "select" \/ at'[p] = "expiry")
      BY <2>1, <3>3 DEF SetToken
    <3> QED
      BY <3>4
  <2> QED
    BY <2>2, <2>3
<1> QED
  BY <1>1, <1>2, InvAlways, PTL
     DEF Spec, LoopsActInTime, RenewsOnlyAfterFailure, CancelledLoopsFetchNothing
=============================================================================
