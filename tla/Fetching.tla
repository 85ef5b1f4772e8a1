------------------------------ MODULE Fetching ------------------------------
(***************************************************************************)
(* The fetches of CircuitBreaker in detail (internal/fetch): the engines   *)
(* with their retries, the cooldown of the rate limiter, the move from     *)
(* HTTP to a headless browser, and the one browser that the fetches of the *)
(* Playwright engine share.  What a fetch does to the circuit breaker is   *)
(* the step of CircuitBreaker that its action here contains, if any.       *)
(***************************************************************************)
EXTENDS CircuitBreaker

CONSTANTS
  EnginesOf,    \* the engines that the profile of each fetch allows
  HeadlessOf,   \* the headless settings that the request of each fetch may have
  MaxRetries,   \* how often a fetch is retried, after clampRetry
  MaxCooldown   \* bound: the longest cooldown, in ticks

ASSUME FetchingAssumption ==
  /\ EnginesOf \in [Request -> SUBSET {"http", "chromedp", "playwright"}]
  /\ HeadlessOf \in [Request -> SUBSET BOOLEAN]
  /\ MaxRetries \in Nat /\ MaxCooldown \in Nat \ {0}

VARIABLES
  at,        \* where each fetch is, see Place
  engine,    \* the engine that has it, or "none"
  attempt,   \* attempt
  wait,      \* what is left of the cooldown a fetch found when it looked
  cooldown,  \* what is left until cooldownUntil
  late,      \* history: the fetches that wait for less than the cooldown, as
             \* it was prolonged after they had looked
  browser,   \* PlaywrightFetcher: f.browser, "lost" when it is not connected
  drivers,   \* Playwright drivers that run
  headless,  \* f.headless, the setting the browser was started with
  wanted     \* req.Headless

place == <<at, engine, attempt>>
pauses == <<wait, cooldown, late>>
launch == <<browser, drivers, headless, wanted>>
fetchVars == <<vars, place, pauses, launch>>

\* Where a fetch may be for each place it has in CircuitBreaker.
Place == [idle    |-> {"idle", "ask", "update", "backoff"},
          waiting |-> {"check", "cool"},
          sent    |-> {"sent", "init", "launch", "open", "grab", "page", "lost"}]

Label == UNION {Place["idle"], Place["waiting"], Place["sent"]}

FetchTypeOK ==
  /\ TypeOK
  /\ at \in [Request -> Label]
  /\ \A r \in Request : at[r] \in Place[pc[r]]
  /\ engine \in [Request -> {"none", "http", "chromedp", "playwright"}]
  /\ attempt \in [Request -> 0 .. MaxRetries]
  /\ wait \in [Request -> 0 .. MaxCooldown]
  /\ cooldown \in 0 .. MaxCooldown
  /\ late \subseteq Request
  /\ browser \in {"none", "up", "lost"}
  /\ drivers \in Nat /\ headless \in BOOLEAN
  /\ wanted \in [Request -> BOOLEAN]

FetchesRest ==
  /\ at = [r \in Request |-> "idle"]
  /\ engine = [r \in Request |-> "none"]
  /\ attempt = [r \in Request |-> 0]
  /\ wait = [r \in Request |-> 0]
  /\ cooldown = 0 /\ late = {}
  /\ browser = "none" /\ drivers = 0
  /\ headless = FALSE /\ wanted = [r \in Request |-> FALSE]

FetchInit == Init /\ FetchesRest

Step(r, label) == at' = [at EXCEPT ![r] = label]

\* The fetch starts on an engine, from its first attempt.
StartOn(r, e) ==
  /\ Step(r, "ask") /\ engine' = [engine EXCEPT ![r] = e]
  /\ attempt' = [attempt EXCEPT ![r] = 0]

Return(r) ==
  /\ Step(r, "idle") /\ engine' = [engine EXCEPT ![r] = "none"]
  /\ attempt' = [attempt EXCEPT ![r] = 0]

\* shouldRetry and the bound on the attempts: a pause, then another attempt.
Retry(r) ==
  /\ attempt[r] < MaxRetries
  /\ Step(r, "backoff")
  /\ UNCHANGED <<engine, attempt>>

-----------------------------------------------------------------------------
(* From the request to the rate limiter *)

\* A profile or the request decides on the engine; without either HTTP probes.
Begin(r) ==
  /\ at[r] = "idle"
  /\ \E e \in EnginesOf[r] : StartOn(r, e)
  /\ \E h \in HeadlessOf[r] : wanted' = [wanted EXCEPT ![r] = h]
  /\ UNCHANGED <<vars, pauses, browser, drivers, headless>>

AskBreaker(r) ==
  /\ at[r] = "ask"
  /\ Ask(r)
  /\ Step(r, "check")
  /\ UNCHANGED <<engine, attempt, pauses, launch>>

\* Allow returns false.
Refused(r) ==
  /\ at[r] = "ask" /\ known
  /\ \/ state = "open" /\ ~elapsed
     \/ state = "halfOpen" /\ halfOpenRequests >= HalfOpenMaxRequests
  /\ Return(r)
  /\ UNCHANGED <<vars, pauses, launch>>

\* getCooldownWaitTime, under the limiter's lock: the fetch then waits without it.
ReadCooldown(r) ==
  /\ at[r] = "check"
  /\ wait' = [wait EXCEPT ![r] = cooldown]
  /\ Step(r, "cool")
  /\ UNCHANGED <<vars, engine, attempt, cooldown, late, launch>>

\* The cooldown is over and the token bucket has a token.
SendRequest(r) ==
  /\ at[r] = "cool" /\ wait[r] = 0
  /\ Send(r)
  /\ Step(r, IF engine[r] = "playwright" THEN "init" ELSE "sent")
  /\ late' = late \ {r}
  /\ UNCHANGED <<engine, attempt, wait, cooldown, launch>>

\* The context ends first.
StopWaiting(r) ==
  /\ at[r] = "cool"
  /\ GiveUp(r)
  /\ Return(r)
  /\ wait' = [wait EXCEPT ![r] = 0] /\ late' = late \ {r}
  /\ UNCHANGED <<cooldown, launch>>

Tick ==
  /\ cooldown > 0 \/ \E r \in Request : wait[r] > 0
  /\ cooldown' = IF cooldown > 0 THEN cooldown - 1 ELSE 0
  /\ wait' = [r \in Request |-> IF wait[r] > 0 THEN wait[r] - 1 ELSE 0]
  /\ UNCHANGED <<vars, place, late, launch>>

-----------------------------------------------------------------------------
(* The HTTP engine *)

\* The limiter's cooldown becomes c.
SetCooldown(c) ==
  /\ cooldown' = c
  /\ late' = late \cup {s \in Request : at[s] = "cool" /\ wait[s] < c}
  /\ UNCHANGED wait

HttpSuccess(r) ==
  /\ at[r] = "sent" /\ engine[r] = "http"
  /\ AnswerSuccess(r)
  /\ Step(r, "update")
  /\ UNCHANGED <<engine, attempt, pauses, launch>>

\* The last 5xx answer is what the fetch returns; an error is an error.
HttpFailure(r) ==
  /\ at[r] = "sent" /\ engine[r] = "http"
  /\ AnswerFailure(r)
  /\ \/ Retry(r)
     \/ Return(r)
     \/ attempt[r] = MaxRetries /\ Step(r, "update") /\ UNCHANGED <<engine, attempt>>
  /\ UNCHANGED <<pauses, launch>>

\* RecordRateLimit replaces the cooldown by the Retry-After time, or by the time
\* the fetch itself backs off, be it longer or shorter.
HttpRateLimited(r) ==
  /\ at[r] = "sent" /\ engine[r] = "http"
  /\ AnswerUnrecorded(r)
  /\ \E c \in 1 .. MaxCooldown : SetCooldown(c)
  /\ \/ Retry(r)
     \/ attempt[r] = MaxRetries /\ Step(r, "update") /\ UNCHANGED <<engine, attempt>>
  /\ UNCHANGED launch

\* A 304, a body over the size limit, or another 4xx.
HttpOther(r) ==
  /\ at[r] = "sent" /\ engine[r] = "http"
  /\ AnswerUnrecorded(r)
  /\ Return(r) \/ (Step(r, "update") /\ UNCHANGED <<engine, attempt>>)
  /\ UNCHANGED <<pauses, launch>>

\* UpdateRateLimitInfo prolongs the cooldown if the headers say so.  Then the
\* adaptive fetcher is content with what it got, or turns to a headless browser.
HttpUpdate(r) ==
  /\ at[r] = "update"
  /\ \E c \in cooldown .. MaxCooldown : SetCooldown(c)
  /\ Return(r) \/ \E e \in EnginesOf[r] \ {"http"} : StartOn(r, e)
  /\ UNCHANGED <<vars, launch>>

\* SleepWithContext ends, or the context does.
BackOffNotCounted(r) ==
  /\ at[r] = "backoff"
  /\ \/ Step(r, "ask") /\ UNCHANGED <<engine, attempt>>
     \/ Return(r)
  /\ UNCHANGED <<vars, pauses, launch>>
BackOff(r) ==
  /\ at[r] = "backoff"
  /\ \/ /\ Step(r, "ask") /\ attempt' = [attempt EXCEPT ![r] = attempt[r] + 1]
        /\ UNCHANGED engine
     \/ Return(r)
  /\ UNCHANGED <<vars, pauses, launch>>

-----------------------------------------------------------------------------
(* The browser engines, which record nothing *)

\* doFetch has a browser of its own; fetchOnce of Playwright ends the same way.
BrowserAnswer(r) ==
  /\ AnswerUnrecorded(r)
  /\ Retry(r) \/ Return(r)

Chromedp(r) ==
  /\ at[r] = "sent" /\ engine[r] = "chromedp"
  /\ BrowserAnswer(r)
  /\ UNCHANGED <<pauses, launch>>

\* PlaywrightFetcher.mu is not held: ensureInitialized holds it to its end.
Unlocked == \A r \in Request : at[r] \notin {"launch", "open"}

\* cleanup closes the browser and stops its driver, whoever has a page in it, and
\* fetch r goes on to start a new one.
CleanUp(r) ==
  /\ browser' = "none" /\ drivers' = drivers - (IF browser = "none" THEN 0 ELSE 1)
  /\ at' = [s \in Request |->
       IF s = r THEN "launch" ELSE IF at[s] = "page" THEN "lost" ELSE at[s]]

\* ensureInitialized finds the browser connected and in the setting that the fetch
\* asks for, or cleans up.
Usable(r) == browser = "up" /\ headless = wanted[r]
EnsureInitializedUnlocked(r) ==
  /\ at[r] = "init"
  /\ \/ Usable(r) /\ Step(r, "grab") /\ UNCHANGED <<browser, drivers>>
     \/ ~Usable(r) /\ CleanUp(r)
  /\ UNCHANGED <<vars, engine, attempt, pauses, headless, wanted>>
EnsureInitialized(r) ==
  /\ at[r] = "init" /\ Unlocked
  /\ \/ Usable(r) /\ Step(r, "grab") /\ UNCHANGED <<browser, drivers>>
     \/ ~Usable(r) /\ CleanUp(r)
  /\ UNCHANGED <<vars, engine, attempt, pauses, headless, wanted>>

StartDriver(r) ==
  /\ at[r] = "launch"
  /\ drivers' = drivers + 1
  /\ Step(r, "open")
  /\ UNCHANGED <<vars, engine, attempt, pauses, browser, headless, wanted>>

LaunchBrowser(r) ==
  /\ at[r] = "open"
  /\ browser' = "up" /\ headless' = wanted[r]
  /\ Step(r, "grab")
  /\ UNCHANGED <<vars, engine, attempt, pauses, drivers, wanted>>

\* The context has ended, or a start fails: a driver already started is stopped.
LaunchFails(r) ==
  /\ at[r] \in {"launch", "open"}
  /\ drivers' = drivers - (IF at[r] = "open" THEN 1 ELSE 0)
  /\ BrowserAnswer(r)
  /\ UNCHANGED <<pauses, browser, headless, wanted>>

\* fetchOnce takes f.browser, which may have been replaced since the fetch had the
\* mutex, and opens a page in it, if it can.
OpenPage(r) ==
  /\ at[r] = "grab" /\ Unlocked
  /\ \/ browser = "up" /\ Step(r, "page") /\ UNCHANGED <<vars, engine, attempt>>
     \/ BrowserAnswer(r)
  /\ UNCHANGED <<pauses, launch>>

PageEnds(r) ==
  /\ at[r] \in {"page", "lost"}
  /\ BrowserAnswer(r)
  /\ UNCHANGED <<pauses, launch>>

\* The browser process dies, and its pages with it.
BrowserCrash ==
  /\ browser = "up" /\ browser' = "lost"
  /\ at' = [r \in Request |-> IF at[r] = "page" THEN "lost" ELSE at[r]]
  /\ UNCHANGED <<vars, engine, attempt, pauses, drivers, headless, wanted>>

\* CloseFetcher, which the jobs defer until their fetches have returned.
Close ==
  /\ \A r \in Request : at[r] = "idle"
  /\ browser # "none"
  /\ browser' = "none" /\ drivers' = drivers - 1
  /\ UNCHANGED <<vars, place, pauses, headless, wanted>>

-----------------------------------------------------------------------------
HostStep ==
  /\ Elapse \/ Reset \/ HostChanges
  /\ UNCHANGED <<place, pauses, launch>>

Http(r) ==
  HttpSuccess(r) \/ HttpFailure(r) \/ HttpRateLimited(r) \/ HttpOther(r) \/ HttpUpdate(r)

\* What a fetch does by itself, whoever else does what.
Proceed(r) ==
  \/ Begin(r) \/ AskBreaker(r) \/ Refused(r) \/ ReadCooldown(r) \/ SendRequest(r)
  \/ Http(r) \/ BackOff(r) \/ Chromedp(r)
  \/ StartDriver(r) \/ LaunchBrowser(r) \/ LaunchFails(r) \/ PageEnds(r)

FetchNext ==
  \/ \E r \in Request : Proceed(r) \/ StopWaiting(r) \/ EnsureInitialized(r) \/ OpenPage(r)
  \/ Tick \/ BrowserCrash \/ Close \/ HostStep

FetchSpec == FetchInit /\ [][FetchNext]_fetchVars

-----------------------------------------------------------------------------
(* Properties *)

\* A fetch that looked at the cooldown waits for all that is left of it, unless it
\* was prolonged after that.
CooldownKept ==
  \A r \in Request : at[r] = "cool" /\ r \notin late => wait[r] >= cooldown

\* A page runs in the browser that the fetcher knows, never in one that was
\* replaced and forgotten.
PageInBrowser == \A r \in Request : at[r] = "page" => browser = "up"

\* Nobody stops the browser under the page of another fetch, but a fetch that asks
\* for the other headless setting.
BrowserKept ==
  [][\A r \in Request : at[r] = "page" /\ browser' = "none"
       => \E s \in Request : at[s] = "init" /\ wanted[s] # headless]_fetchVars

\* Drivers are not leaked: one runs if there is a browser or a fetch about to open
\* it, and two fetches never open one at the same time.
DriversAccounted ==
  drivers = IF browser # "none" \/ \E r \in Request : at[r] = "open" THEN 1 ELSE 0

\* The three hold of every state, and of every step (limiter.go, ensureInitialized,
\* cleanup and fetchOnce of playwright_fetcher.go).
FetchersSound ==
  [](CooldownKept /\ PageInBrowser /\ DriversAccounted) /\ BrowserKept

\* A fetch returns: its retries, cooldowns, launches and lost browsers end.
FetchesReturn == \A r \in Request : []<>(at[r] = "idle")
=============================================================================
