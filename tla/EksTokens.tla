----------------------------- MODULE EksTokens -----------------------------
(***************************************************************************)
(* The tokens of one EKS cluster of kom: kom/cluster_aws.go with kom/aws.  *)
(*                                                                         *)
(* A registration generates a kubeconfig with the aws command line, starts *)
(* two loops, fetches a first token and publishes it in the cluster's      *)
(* rest.Config.  "auto" is the loop of TokenManager.autoRefreshLoop, which *)
(* keeps the token cache fresh; "renew" is the goroutine of                *)
(* RegisterAWSClusterWithID, which copies a token to rest.Config.          *)
(* Callers use the exported methods of AuthProvider at any time.           *)
(*                                                                         *)
(* Time is counted in minutes and a token IS the number of minutes it has  *)
(* left: every holder of a token ages by one at each Minute.  0 is a token *)
(* that has expired, None no token.  The aws command returns a token in    *)
(* one step and SetToken stores it in a later one: a caller that is slow   *)
(* between the two stores a token that others have replaced by newer ones. *)
(***************************************************************************)
EXTENDS Integers, FiniteSets

CONSTANTS
    Callers,     \* goroutines that use the AuthProvider of the cluster
    Life,        \* minutes a new token lives
    Period,      \* minutes between two looks of a loop (5 in the code)
    Threshold,   \* minutes left under which auto refreshes (10)
    MaxRetries,  \* retries of a fetch after its first attempt (2)
    MaxAttempts, \* attempts of the kubeconfig generation (3)
    MaxFails     \* bound of the model on the passes of auto counted as failed

ASSUME TimesAssumption ==
    /\ Period \in Nat \ {0}
    /\ Threshold \in Nat /\ Threshold > Period
    /\ Life \in Nat /\ Life >= Threshold

ASSUME BoundsAssumption ==
    MaxRetries \in Nat /\ MaxAttempts \in Nat \ {0} /\ MaxFails \in Nat \ {0}

ASSUME CallersAssumption ==
    Callers \cap {"register", "auto", "renew"} = {}

VARIABLES
    cli,       \* TRUE while the aws command succeeds
    stage,     \* the registration: idle, generate, start, publish, done, failed
    file,      \* the temporary kubeconfig exists
    exec,      \* eksConfig.ExecConfig is set
    token,     \* TokenCache
    minute,    \* minutes since the last tick of the two tickers
    due,       \* loops whose ticker channel holds a tick
    asked,     \* refreshChan holds a request
    cancelled, \* tokenCtx is cancelled
    stopped,   \* stopChan is closed
    crashed,   \* a goroutine panicked: the process is gone
    at,        \* where each goroutine stands
    tries,     \* attempts made by its fetch
    answer,    \* the token, the expiry and the error GetToken returns
    fails,     \* history: passes of auto that failed since the last SetToken
    cleared,   \* history: goroutines with a ClearCache between two readings of
               \* their GetToken, and renew if there was one since it last found
               \* a valid token
    late,      \* history: a GetToken was so late with its SetToken that the
               \* token had less than Threshold left, and auto has not found a
               \* better one since
    overtaken  \* history: goroutines with an older token stored over a newer
               \* one between the token and the expiry of their GetToken

world == <<cli, stage, file, exec>>
loops == <<minute, due, asked, cancelled, stopped, crashed>>
local == <<at, tries, answer>>
history == <<fails, cleared, late, overtaken>>
vars == <<world, token, loops, local, history>>

None == -1
Tokens == None .. Life
Loops == {"auto", "renew"}
Goroutines == Loops \cup Callers \cup {"register"}
\* What GetToken has to say before it says anything.
Nothing == [token |-> None, expiry |-> None, ok |-> FALSE]

\* TokenCache.IsValid
IsValid(t) == t > 0
\* Mutant of Aged: the age of an absent token is counted too.
AgedAlways(t) == t - 1

Aged(t) == IF t > 0 THEN t - 1 ELSE t

Init ==
    /\ cli \in BOOLEAN /\ stage = "idle" /\ file = FALSE /\ exec = FALSE
    /\ token = None
    /\ minute = 0 /\ due = {} /\ asked = FALSE
    /\ cancelled = FALSE /\ stopped = FALSE /\ crashed = FALSE
    /\ at = [p \in Goroutines |-> IF p \in Loops THEN "unborn" ELSE "idle"]
    /\ tries = [p \in Goroutines |-> 0]
    /\ answer = [p \in Goroutines |-> Nothing]
    /\ fails = 0 /\ cleared = {} /\ late = FALSE /\ overtaken = {}

----------------------------------------------------------------------------
(* GetToken, by the registration, by renew and by the callers              *)

Goto(p, where) == at' = [at EXCEPT ![p] = where]
Busy(p) == at[p] \notin {"unborn", "select", "idle", "gone"}

\* AuthProvider.GetToken calls GetValidToken, which looks at the cache first.
Check(p) ==
    /\ at[p] = "check"
    /\ Goto(p, IF IsValid(token) THEN "read" ELSE "fetch")
    /\ UNCHANGED <<world, token, loops, tries, answer, history>>

\* The token is read under a lock of its own, after IsValid has let go.
Read(p) ==
    /\ at[p] = "read"
    /\ answer' = [answer EXCEPT ![p].token = token]
    /\ Goto(p, "expiry")
    /\ UNCHANGED <<world, token, loops, tries, history>>

\* Mutant of Runs: the command runs without the context.
RunsOn(p) == cli

\* The context of the loops is cancelled with them; the others run without.
Runs(p) == cli /\ ~(p \in Loops /\ cancelled)

\* refreshToken: ValidateCommand, then ExecuteCommand returns a new token.
Fetched(p) ==
    /\ at[p] = "fetch" /\ exec /\ Runs(p)
    /\ answer' = [answer EXCEPT ![p].token = Life]
    /\ tries' = [tries EXCEPT ![p] = 0]
    /\ Goto(p, "store")
    /\ UNCHANGED <<world, token, loops, history>>

\* TokenCache.SetToken, whatever was cached or cancelled since.
SetToken(p) ==
    /\ at[p] = "store"
    /\ token' = answer[p].token /\ fails' = 0
    /\ late' = (answer[p].token < Threshold)
    /\ overtaken' = IF answer[p].token < token
                    THEN overtaken \cup {q \in Goroutines : at[q] = "expiry"}
                    ELSE overtaken
    /\ IF p = "auto"
       THEN Goto(p, "select") /\ answer' = [answer EXCEPT ![p] = Nothing]
       ELSE Goto(p, "expiry") /\ UNCHANGED answer
    /\ UNCHANGED <<world, loops, tries, cleared>>

\* GetTokenWithRetry: a failed attempt that another one follows.
Retry(p) ==
    /\ at[p] = "fetch" /\ exec /\ ~Runs(p)
    /\ tries[p] < MaxRetries /\ ~(p \in Loops /\ cancelled)
    /\ tries' = [tries EXCEPT ![p] = @ + 1]
    /\ UNCHANGED <<world, token, loops, at, answer, history>>

\* Mutant of NotFetched: the error of the fetch is dropped.
NotFetchedSilently(p) ==
    /\ at[p] = "fetch"
    /\ ~exec \/ (~Runs(p) /\ tries[p] = MaxRetries)
    /\ Goto(p, IF p = "auto" THEN "select" ELSE "expiry")
    /\ tries' = [tries EXCEPT ![p] = 0]
    /\ fails' = IF p = "auto" /\ fails < MaxFails THEN fails + 1 ELSE fails
    /\ UNCHANGED <<world, token, loops, answer, cleared, late, overtaken>>

\* Mutant of NotFetched: a loop returns on the first error.
NotFetchedReturns(p) ==
    /\ at[p] = "fetch"
    /\ ~exec \/ (~Runs(p) /\ tries[p] = MaxRetries)
    /\ Goto(p, IF p \in Loops THEN "gone" ELSE "answered")
    /\ tries' = [tries EXCEPT ![p] = 0]
    /\ fails' = IF p = "auto" /\ fails < MaxFails THEN fails + 1 ELSE fails
    /\ UNCHANGED <<world, token, loops, answer, cleared, late, overtaken>>

\* No command to run, the context cancelled or the last attempt failed.
NotFetched(p) ==
    /\ at[p] = "fetch"
    /\ \/ ~exec
       \/ ~Runs(p) /\ tries[p] = MaxRetries
       \/ p \in Loops /\ cancelled
    /\ Goto(p, IF p = "auto" THEN "select" ELSE "answered")
    /\ tries' = [tries EXCEPT ![p] = 0]
    /\ fails' = IF p = "auto" /\ fails < MaxFails THEN fails + 1 ELSE fails
    /\ UNCHANGED <<world, token, loops, answer, cleared, late, overtaken>>

\* GetToken returns the expiry it reads from the cache afterwards.
Expiry(p) ==
    /\ at[p] = "expiry"
    /\ answer' = [answer EXCEPT ![p].expiry = token, ![p].ok = TRUE]
    /\ Goto(p, "answered")
    /\ UNCHANGED <<world, token, loops, tries, history>>

GetToken(p) ==
    \/ Check(p) \/ Read(p) \/ Fetched(p) \/ SetToken(p) \/ Retry(p)
    \/ NotFetched(p) \/ Expiry(p)

----------------------------------------------------------------------------
(* The registration                                                        *)

\* RegisterAWSClusterWithID: nothing is registered under the id.
Register ==
    /\ stage = "idle" /\ stage' = "generate"
    /\ tries' = [tries EXCEPT !["register"] = 1]
    /\ UNCHANGED <<cli, file, exec, token, loops, at, answer, history>>

\* The aws command writes the kubeconfig, or fails and is tried again.
Generate ==
    /\ stage = "generate" /\ ~file
    /\ IF cli
       THEN file' = TRUE /\ UNCHANGED <<stage, tries>>
       ELSE /\ UNCHANGED file
            /\ \/ /\ tries["register"] < MaxAttempts
                  /\ tries' = [tries EXCEPT !["register"] = @ + 1]
                  /\ UNCHANGED stage
               \/ /\ tries["register"] = MaxAttempts
                  /\ stage' = "failed" /\ UNCHANGED tries
    /\ UNCHANGED <<cli, exec, token, loops, at, answer, history>>

\* Mutant of ReadKubeconfig: an invalid file is not removed.
ReadKubeconfigLeaves ==
    /\ stage = "generate" /\ file
    /\ \/ file' = FALSE /\ stage' = "start"
       \/ stage' = "failed" /\ UNCHANGED file
    /\ tries' = [tries EXCEPT !["register"] = 0]
    /\ UNCHANGED <<cli, exec, token, loops, at, answer, history>>

\* The file is read, found good or not, and removed on the way out.
ReadKubeconfig ==
    /\ stage = "generate" /\ file
    /\ file' = FALSE
    /\ stage' \in {"start", "failed"}
    /\ tries' = [tries EXCEPT !["register"] = 0]
    /\ UNCHANGED <<cli, exec, token, loops, at, answer, history>>

\* Mutant of Start: renew asks for a token before its first tick.
StartAsksAtOnce ==
    /\ stage = "start" /\ stage' = "publish"
    /\ exec' = TRUE /\ minute' = 0
    /\ at' = [p \in Goroutines |-> IF p = "auto" THEN "select"
                     ELSE IF p \in {"register", "renew"} THEN "check" ELSE at[p]]
    /\ UNCHANGED <<cli, file, token, due, asked, cancelled, stopped, crashed,
                   tries, answer, history>>

\* The two loops start before RegisterByConfigWithID sets the exec command
\* and asks for the first token.
Start ==
    /\ stage = "start" /\ stage' = "publish"
    /\ exec' = TRUE /\ minute' = 0
    /\ at' = [p \in Goroutines |-> IF p \in Loops THEN "select"
                                   ELSE IF p = "register" THEN "check" ELSE at[p]]
    /\ UNCHANGED <<cli, file, token, due, asked, cancelled, stopped, crashed,
                   tries, answer, history>>

\* cluster.Config is set, with the token in it, or the error ends the
\* registration: the loops stay.
Publish ==
    /\ stage = "publish" /\ at["register"] = "answered"
    /\ Goto("register", "idle")
    /\ stage' = IF answer["register"].ok THEN "done" ELSE "failed"
    /\ answer' = [answer EXCEPT !["register"] = Nothing]
    /\ cleared' = cleared \ {"register"}
    /\ overtaken' = overtaken \ {"register"}
    /\ UNCHANGED <<cli, file, exec, token, loops, tries, fails, late>>

----------------------------------------------------------------------------
(* The two loops                                                           *)

\* Mutant of Look: only a token that has expired is fetched again.
LookWhenExpired(source) ==
    /\ at["auto"] = "select"
    /\ \/ /\ source = "tick" /\ "auto" \in due
          /\ due' = due \ {"auto"} /\ UNCHANGED asked
       \/ /\ source = "request" /\ asked
          /\ asked' = FALSE /\ UNCHANGED due
    /\ Goto("auto", IF IsValid(token) THEN "select" ELSE "fetch")
    /\ late' = (late /\ token < Threshold)
    /\ UNCHANGED <<world, token, minute, cancelled, stopped, crashed, tries,
                   answer, fails, cleared, overtaken>>

\* checkAndRefreshToken, on a tick or on a request.  A select whose other
\* channels are ready takes any of them.
Look(source) ==
    /\ at["auto"] = "select"
    /\ \/ /\ source = "tick" /\ "auto" \in due
          /\ due' = due \ {"auto"} /\ UNCHANGED asked
       \/ /\ source = "request" /\ asked
          /\ asked' = FALSE /\ UNCHANGED due
    /\ Goto("auto", IF token < Threshold THEN "fetch" ELSE "select")
    /\ late' = (late /\ token < Threshold)
    /\ UNCHANGED <<world, token, minute, cancelled, stopped, crashed, tries, answer,
                   fails, cleared, overtaken>>

\* Mutant of LookForRenewal: the token is asked for ahead of its expiry.
LookForRenewalAhead ==
    /\ at["renew"] = "select" /\ "renew" \in due
    /\ due' = due \ {"renew"}
    /\ Goto("renew", IF token >= Threshold THEN "select" ELSE "check")
    /\ cleared' = IF IsValid(token) THEN cleared \ {"renew"} ELSE cleared
    /\ UNCHANGED <<world, token, minute, asked, cancelled, stopped, crashed,
                   tries, answer, fails, late, overtaken>>

\* renew asks for a token only when the cache has no valid one.
LookForRenewal ==
    /\ at["renew"] = "select" /\ "renew" \in due
    /\ due' = due \ {"renew"}
    /\ Goto("renew", IF IsValid(token) THEN "select" ELSE "check")
    /\ cleared' = IF IsValid(token) THEN cleared \ {"renew"} ELSE cleared
    /\ UNCHANGED <<world, token, minute, asked, cancelled, stopped, crashed,
                   tries, answer, fails, late, overtaken>>

\* The token goes to BearerToken of cluster.Config, a nil pointer unless the
\* registration came to its end.  (The clients copied the configuration
\* when they were made: BearerToken is not read again and not kept here.)
Renew ==
    /\ at["renew"] = "answered"
    /\ Goto("renew", "select")
    /\ crashed' = (crashed \/ (answer["renew"].ok /\ stage # "done"))
    /\ answer' = [answer EXCEPT !["renew"] = Nothing]
    /\ overtaken' = overtaken \ {"renew"}
    /\ UNCHANGED <<world, token, minute, due, asked, cancelled, stopped, tries,
                   fails, cleared, late>>

\* Both loops leave on the context, auto on stopChan as well.
Leave(p) ==
    /\ at[p] = "select"
    /\ cancelled \/ (p = "auto" /\ stopped)
    /\ Goto(p, "gone")
    /\ UNCHANGED <<world, token, loops, tries, answer, history>>

----------------------------------------------------------------------------
(* The callers, and the removal of the cluster                             *)

Ask(p) ==
    /\ exec /\ at[p] = "idle"
    /\ Goto(p, "check")
    /\ UNCHANGED <<world, token, loops, tries, answer, history>>

Take(p) ==
    /\ at[p] = "answered"
    /\ Goto(p, "idle")
    /\ answer' = [answer EXCEPT ![p] = Nothing]
    /\ cleared' = cleared \ {p} /\ overtaken' = overtaken \ {p}
    /\ UNCHANGED <<world, token, loops, tries, fails, late>>

\* RefreshEKSCredentials: the request is dropped when one is waiting.
TriggerRefresh ==
    /\ exec /\ asked' = TRUE
    /\ UNCHANGED <<world, token, minute, due, cancelled, stopped, crashed,
                   local, history>>

ClearCache ==
    /\ exec /\ token' = None
    /\ cleared' = cleared \cup {"renew"}
                        \cup {p \in Goroutines : at[p] \in {"read", "expiry"}}
    /\ late' = FALSE
    /\ UNCHANGED <<world, loops, local, fails, overtaken>>

\* StopTokenRefresh: only the context is cancelled.
StopTokenRefresh ==
    /\ stage \in {"done", "failed"} /\ exec /\ cancelled' = TRUE
    /\ UNCHANGED <<world, token, minute, due, asked, stopped, crashed, local,
                   history>>

\* The part of RemoveClusterById about the tokens.  Closing stopChan twice
\* is a panic.
Remove ==
    /\ stage \in {"done", "failed"} /\ exec
    /\ cancelled' = TRUE /\ stopped' = TRUE
    /\ crashed' = (crashed \/ stopped)
    /\ UNCHANGED <<world, token, minute, due, asked, local, history>>

----------------------------------------------------------------------------
(* The environment                                                         *)

\* The aws command starts to fail, or to work again.
Outage ==
    /\ cli' = ~cli
    /\ UNCHANGED <<stage, file, exec, token, loops, local, history>>

\* A minute passes.  The fetches of the loops and of the registration take
\* seconds: they are over before the next minute, those of callers may not be.
Minute ==
    /\ exec
    /\ \A p \in Loops \cup {"register"} : ~Busy(p)
    /\ \A p \in Callers : at[p] # "answered"
    /\ \A p \in due : at[p] = "gone"
    /\ asked => at["auto"] = "gone"
    /\ minute' = IF minute + 1 = Period THEN 0 ELSE minute + 1
    /\ due' = IF minute + 1 = Period THEN {p \in Loops : at[p] # "gone"} ELSE due
    /\ token' = Aged(token)
    /\ answer' = [p \in Goroutines |->
                    [answer[p] EXCEPT !.token = Aged(@), !.expiry = Aged(@)]]
    /\ UNCHANGED <<world, asked, cancelled, stopped, crashed, at, tries, history>>

----------------------------------------------------------------------------

\* The steps of each goroutine, once it is started or has asked for a token.
Registration ==
    \/ Register \/ Generate \/ ReadKubeconfig \/ Start \/ Publish
    \/ GetToken("register")
AutoLoop ==
    \/ \E source \in {"tick", "request"} : Look(source)
    \/ GetToken("auto") \/ Leave("auto")
RenewLoop == LookForRenewal \/ GetToken("renew") \/ Renew \/ Leave("renew")
Caller(p) == GetToken(p) \/ Take(p)

Step ==
    \/ Registration \/ AutoLoop \/ RenewLoop
    \/ \E p \in Callers : Ask(p) \/ Caller(p)
    \/ TriggerRefresh \/ ClearCache \/ StopTokenRefresh \/ Remove
    \/ Outage \/ Minute

Next == ~crashed /\ Step

Spec == Init /\ [][Next]_vars

\* The goroutines run and time passes.
Fairness ==
    /\ WF_vars(~crashed /\ Registration)
    /\ WF_vars(~crashed /\ AutoLoop) /\ WF_vars(~crashed /\ RenewLoop)
    /\ \A p \in Callers : WF_vars(~crashed /\ Caller(p))
    /\ WF_vars(~crashed /\ Minute)

FairSpec == Spec /\ Fairness

----------------------------------------------------------------------------
(* Properties                                                              *)

Answers == [token : Tokens, expiry : Tokens, ok : BOOLEAN]

Places == {"unborn", "idle", "select", "check", "read", "fetch", "store",
           "expiry", "answered", "gone"}

TypeOK ==
    /\ cli \in BOOLEAN /\ file \in BOOLEAN /\ exec \in BOOLEAN
    /\ stage \in {"idle", "generate", "start", "publish", "done", "failed"}
    /\ token \in Tokens
    /\ minute \in 0 .. Period - 1 /\ due \subseteq Loops /\ asked \in BOOLEAN
    /\ cancelled \in BOOLEAN /\ stopped \in BOOLEAN /\ crashed \in BOOLEAN
    /\ at \in [Goroutines -> Places]
    /\ tries \in [Goroutines -> Nat]
    /\ answer \in [Goroutines -> Answers]
    /\ fails \in 0 .. MaxFails /\ late \in BOOLEAN
    /\ cleared \subseteq Goroutines /\ overtaken \subseteq Goroutines

\* auto has nothing to do before its next tick.
AutoRests == at["auto"] = "select" /\ "auto" \notin due
Kept == ~cancelled /\ ~stopped /\ at["auto"] \notin {"unborn", "gone"}

\* checkAndRefreshToken renews ten minutes ahead and looks every five: while
\* the loop runs, a token in the cache loses at most one period for every
\* pass that failed, so it expires only after two passes, of three attempts
\* each, have failed in a row (token.go 118-151).  Only a GetToken that stores
\* its token a minute or more after its fetch (token.go 92-98) can leave an
\* older one there, until the loop has looked again.
KeptFresh ==
    (Kept /\ ~late /\ token # None /\ fails < MaxFails) =>
        token + minute + (IF AutoRests THEN 0 ELSE Period) >= Threshold - Period * fails

\* GetToken reads the cache three times under three locks (auth.go 24-36,
\* token.go 72-79): still, only a ClearCache during the call makes it answer
\* with an empty token, and only that or an older token stored over a newer
\* one makes it answer with an expiry before that of its token.
AnswersAToken ==
    \A p \in Goroutines : (answer[p].ok /\ p \notin cleared) =>
        /\ answer[p].token # None
        /\ p \notin overtaken => answer[p].expiry >= answer[p].token

\* A registration that went well never lets renew meet a nil Config: the
\* process panics only after a registration that failed halfway and left its
\* loops behind, or when a cluster is removed twice (cluster_aws.go 97-120,
\* token.go 163).
HealthyNeverPanics ==
    crashed => stage = "failed" \/ stopped

\* The temporary kubeconfig, which names the cluster and its user, goes away
\* whatever the outcome of the generation (generator.go 33-70).
NoFileLeft == file => stage = "generate"

\* The loop that exists to keep rest.Config.BearerToken fresh only acts when
\* the other loop has let the cached token expire: as long as the refreshes
\* succeed, nobody clears the cache and nobody stores an old token late, the
\* bearer token of the registration is never replaced, however long it has
\* been expired (cluster_aws.go 97-120 against token.go 140-151).
RenewsOnlyAfterFailure ==
    [][(stage = "done" /\ at["renew"] = "select" /\ at'["renew"] = "check") =>
          fails > 0 \/ late \/ "renew" \in cleared \/ cancelled \/ stopped]_vars

\* Once tokenCtx is cancelled the loops fetch no token any more, although
\* their select may take a tick or a request that waits next to the
\* cancellation: a token that enters the cache then is a caller's, or one that
\* the loop had fetched before and was about to store (token.go 92-98 and
\* 118-137, exec.go 87-114).
CancelledLoopsFetchNothing ==
    [][cancelled =>
         /\ \A p \in Loops : at'[p] = "store" => at[p] = "store"
         /\ token' > token =>
              \E p \in Goroutines : at[p] = "store" /\ at'[p] # "store"]_vars

\* After an outage of the aws command, however long, the cache gets a valid
\* token again with nobody asking for one: the loops outlive the failures
\* (token.go 140-151, cluster_aws.go 97-120).
RecoversAfterOutage ==
    (<>[](cli /\ exec /\ ~cancelled /\ ~stopped)) => []<>(IsValid(token) \/ crashed)

\* What holds in every state of a registration and its loops.
Inv ==
    /\ TypeOK
    /\ KeptFresh
    /\ AnswersAToken
    /\ HealthyNeverPanics
    /\ NoFileLeft

\* What a step of the loops may never do.
LoopsActInTime ==
    /\ RenewsOnlyAfterFailure
    /\ CancelledLoopsFetchNothing
=============================================================================
