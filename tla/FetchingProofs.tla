--------------------------- MODULE FetchingProofs ---------------------------
(***************************************************************************)
(* Theorems about Fetching, for every number of fetches, whatever their    *)
(* engines.                                                                *)
(*                                                                         *)
(* The engines, retries and waits are details that CircuitBreaker does not *)
(* see: what is proved of it holds here (Refines).  What the fetches share *)
(* beside it needs the mutex of the Playwright fetcher in the invariant:   *)
(* one fetch at most starts a browser, and none runs when it does.         *)
(***************************************************************************)
EXTENDS MCFetching, CircuitBreakerProofs

USE FetchingAssumption

-----------------------------------------------------------------------------
(* The refinement *)

\* Every step of a fetch in detail is a step of it as CircuitBreaker knows it, or
\* leaves the breaker and its place there alone (http_fetcher.go, limiter.go,
\* chromedp_fetcher.go, playwright_fetcher.go).
LEMMA StepRefines == [FetchNext]_fetchVars => [Next]_vars
  <1> SUFFICES ASSUME [FetchNext]_fetchVars
               PROVE  [Next]_vars
    OBVIOUS
  <1>1. ASSUME NEW r \in Request,
               Ask(r) \/ Send(r) \/ GiveUp(r) \/ AnswerSuccess(r) \/ AnswerFailure(r)
                 \/ AnswerUnrecorded(r)
        PROVE  Next
    BY <1>1 DEF Next, Fetch, Answer
  <1>2. ASSUME NEW r \in Request, Proceed(r)
        PROVE  [Next]_vars
    <2>1. CASE Begin(r) \/ Refused(r) \/ ReadCooldown(r) \/ HttpUpdate(r) \/ BackOff(r)
      BY <2>1 DEF Begin, Refused, ReadCooldown, HttpUpdate, BackOff
    <2>2. CASE StartDriver(r) \/ LaunchBrowser(r)
      BY <2>2 DEF StartDriver, LaunchBrowser
    <2>3. CASE AskBreaker(r) \/ SendRequest(r)
      BY <1>1, <2>3 DEF AskBreaker, SendRequest
    <2>4. CASE HttpSuccess(r) \/ HttpFailure(r) \/ HttpRateLimited(r) \/ HttpOther(r)
      BY <1>1, <2>4 DEF HttpSuccess, HttpFailure, HttpRateLimited, HttpOther
    <2>5. CASE Chromedp(r) \/ LaunchFails(r) \/ PageEnds(r)
      BY <1>1, <2>5 DEF Chromedp, LaunchFails, PageEnds, BrowserAnswer
    <2> QED BY <1>2, <2>1, <2>2, <2>3, <2>4, <2>5 DEF Proceed, Http
  <1>3. ASSUME NEW r \in Request, StopWaiting(r) \/ EnsureInitialized(r) \/ OpenPage(r)
        PROVE  [Next]_vars
    BY <1>1, <1>3 DEF StopWaiting, EnsureInitialized, OpenPage, BrowserAnswer
  <1>4. CASE Tick \/ BrowserCrash \/ Close
    BY <1>4 DEF Tick, BrowserCrash, Close
  <1>5. CASE HostStep
    BY <1>5 DEF HostStep, Next
  <1>6. CASE UNCHANGED fetchVars
    BY <1>6 DEF fetchVars
  <1> QED BY <1>2, <1>3, <1>4, <1>5, <1>6 DEF FetchNext

\* A fetch in detail is a fetch as CircuitBreaker knows it.
THEOREM Refines == FetchSpec => Spec
  <1>1. FetchInit => Init
    BY DEF FetchInit
  <1> QED BY <1>1, StepRefines, PTL DEF FetchSpec, Spec

\* So a host that may be broken is spared whatever the engines, the retries and the
\* cooldowns of the fetches do to the order in which they ask and answer
\* (circuit_breaker.go, limiter.go).
THEOREM HostIsSpared == FetchSpec => []ProbeLimit
  BY Refines, ProbeLimitHolds, PTL

-----------------------------------------------------------------------------
(* The browser that the fetches share *)

Launching(r) == at[r] \in {"launch", "open"}

Shape ==
  /\ at \in [Request -> Label]
  /\ browser \in {"none", "up", "lost"} /\ drivers \in Nat

\* What the mutex is for.
OneLauncher == \A r, s \in Request : Launching(r) /\ Launching(s) => r = s
NothingYet == \A r \in Request : Launching(r) => browser = "none"

BrowserInv == Shape /\ OneLauncher /\ NothingYet /\ PageInBrowser /\ DriversAccounted

\* A fetch goes from one place to another, neither of which is about the browser.
Elsewhere(r) ==
  /\ ~Launching(r)
  /\ \E l \in Label \ {"launch", "open", "page"} : Step(r, l)
  /\ UNCHANGED <<browser, drivers>>

LEMMA ElsewhereKeeps ==
  ASSUME BrowserInv, NEW r \in Request, Elsewhere(r)
  PROVE  BrowserInv'
  <1>1. PICK l \in Label \ {"launch", "open", "page"} : at' = [at EXCEPT ![r] = l]
    BY DEF Elsewhere, Step
  <1>2. ~Launching(r) /\ browser' = browser /\ drivers' = drivers
    BY DEF Elsewhere
  <1>3. Shape'
    BY <1>1, <1>2 DEF BrowserInv, Shape
  <1>4. \A s \in Request : at'[s] = IF s = r THEN l ELSE at[s]
    BY <1>1 DEF BrowserInv, Shape
  <1>5. OneLauncher' /\ NothingYet' /\ PageInBrowser'
    BY <1>1, <1>2, <1>4 DEF BrowserInv, OneLauncher, NothingYet, PageInBrowser, Launching
  <1>6. (\E s \in Request : at'[s] = "open") <=> (\E s \in Request : at[s] = "open")
    BY <1>1, <1>2, <1>4 DEF Launching
  <1>7. DriversAccounted'
    BY <1>2, <1>6 DEF BrowserInv, DriversAccounted
  <1> QED BY <1>3, <1>5, <1>7 DEF BrowserInv

LEMMA LaunchKeeps ==
  ASSUME BrowserInv, NEW r \in Request,
         EnsureInitialized(r) \/ StartDriver(r) \/ LaunchBrowser(r) \/ LaunchFails(r)
  PROVE  BrowserInv'
  <1> USE DEF BrowserInv
  <1>1. CASE EnsureInitialized(r)
    <2>1. CASE Usable(r) /\ Step(r, "grab") /\ UNCHANGED <<browser, drivers>>
      <3>1. Elsewhere(r)
        BY <1>1, <2>1 DEF EnsureInitialized, Elsewhere, Launching, Label, Place
      <3> QED BY <3>1, ElsewhereKeeps
    <2>2. CASE CleanUp(r)
      <3>1. \A s \in Request : at[s] \notin {"launch", "open"}
        BY <1>1 DEF EnsureInitialized, Unlocked
      <3>2. browser' = "none" /\ drivers' = drivers - (IF browser = "none" THEN 0 ELSE 1)
        BY <2>2 DEF CleanUp
      <3>3. at' = [s \in Request |->
                     IF s = r THEN "launch" ELSE IF at[s] = "page" THEN "lost" ELSE at[s]]
        BY <2>2 DEF CleanUp
      <3>4. /\ at'[r] = "launch"
            /\ \A s \in Request : at'[s] # "open" /\ at'[s] # "page"
            /\ \A s \in Request : at'[s] = "launch" => s = r
        BY <3>1, <3>3
      <3>5. drivers' = 0
        BY <3>1, <3>2 DEF DriversAccounted, Shape
      <3>6. Shape'
        BY <3>2, <3>3, <3>5 DEF Shape, Label, Place
      <3>7. OneLauncher' /\ NothingYet' /\ PageInBrowser'
        BY <3>2, <3>4 DEF OneLauncher, NothingYet, PageInBrowser, Launching
      <3>8. DriversAccounted'
        BY <3>2, <3>4, <3>5 DEF DriversAccounted
      <3> QED BY <3>6, <3>7, <3>8
    <2> QED BY <1>1, <2>1, <2>2 DEF EnsureInitialized
  <1>2. ASSUME Launching(r)
        PROVE  /\ browser = "none" /\ \A s \in Request : s # r => ~Launching(s)
               /\ \A s \in Request : at[s] # "page"
    BY <1>2 DEF OneLauncher, NothingYet, PageInBrowser
  <1>3. CASE StartDriver(r)
    <2>1. Launching(r) /\ at[r] = "launch" /\ at' = [at EXCEPT ![r] = "open"]
      BY <1>3 DEF StartDriver, Launching, Step
    <2>2. \A s \in Request : at'[s] = IF s = r THEN "open" ELSE at[s]
      BY <2>1 DEF Shape
    <2>3. drivers = 0
      BY <1>2, <2>1 DEF DriversAccounted, Launching
    <2>4. drivers' = 1 /\ browser' = browser
      BY <1>3, <2>3 DEF StartDriver
    <2>5. Shape'
      BY <2>1, <2>4 DEF Shape, Label, Place
    <2>6. OneLauncher' /\ NothingYet' /\ PageInBrowser' /\ DriversAccounted'
      BY <1>2, <2>1, <2>2, <2>4
         DEF OneLauncher, NothingYet, PageInBrowser, DriversAccounted, Launching
    <2> QED BY <2>5, <2>6
  <1>4. CASE LaunchBrowser(r)
    <2>1. Launching(r) /\ at[r] = "open" /\ at' = [at EXCEPT ![r] = "grab"]
      BY <1>4 DEF LaunchBrowser, Launching, Step
    <2>2. \A s \in Request : at'[s] = IF s = r THEN "grab" ELSE at[s]
      BY <2>1 DEF Shape
    <2>3. drivers = 1
      BY <2>1 DEF DriversAccounted
    <2>4. drivers' = 1 /\ browser' = "up"
      BY <1>4, <2>3 DEF LaunchBrowser
    <2>5. Shape'
      BY <2>1, <2>4 DEF Shape, Label, Place
    <2>6. OneLauncher' /\ NothingYet' /\ PageInBrowser' /\ DriversAccounted'
      BY <1>2, <2>1, <2>2, <2>4
         DEF OneLauncher, NothingYet, PageInBrowser, DriversAccounted, Launching
    <2> QED BY <2>5, <2>6
  <1>5. CASE LaunchFails(r)
    <2>1. Launching(r) /\ browser' = browser
      BY <1>5 DEF LaunchFails, Launching
    <2>2. PICK l \in {"backoff", "idle"} : at' = [at EXCEPT ![r] = l]
      BY <1>5 DEF LaunchFails, BrowserAnswer, Retry, Return, Step
    <2>3. \A s \in Request : at'[s] = IF s = r THEN l ELSE at[s]
      BY <2>2 DEF Shape
    <2>4. drivers = IF at[r] = "open" THEN 1 ELSE 0
      BY <1>2, <2>1 DEF DriversAccounted, Launching
    <2>5. drivers' = 0
      BY <1>5, <2>4 DEF LaunchFails
    <2>6. Shape'
      BY <2>1, <2>2, <2>5 DEF Shape, Label, Place
    <2>7. OneLauncher' /\ NothingYet' /\ PageInBrowser' /\ DriversAccounted'
      BY <1>2, <2>1, <2>2, <2>3, <2>5
         DEF OneLauncher, NothingYet, PageInBrowser, DriversAccounted, Launching
    <2> QED BY <2>6, <2>7
  <1> QED BY <1>1, <1>3, <1>4, <1>5

\* The remaining steps that are about the browser: a page, a crash, the end.
LEMMA PagesKeep ==
  ASSUME BrowserInv,
         (\E r \in Request : OpenPage(r)) \/ BrowserCrash \/ Close
  PROVE  BrowserInv'
  <1> USE DEF BrowserInv
  <1>1. ASSUME NEW r \in Request, OpenPage(r)
        PROVE  BrowserInv'
    <2>1. at[r] = "grab" /\ browser' = browser /\ drivers' = drivers
      BY <1>1 DEF OpenPage, launch
    <2>2. CASE browser = "up" /\ Step(r, "page")
      <3>1. at' = [at EXCEPT ![r] = "page"]
        BY <2>2 DEF Step
      <3>2. \A s \in Request : at'[s] = IF s = r THEN "page" ELSE at[s]
        BY <3>1 DEF Shape
      <3>3. Shape'
        BY <2>1, <3>1 DEF Shape, Label, Place
      <3>4. OneLauncher' /\ NothingYet' /\ PageInBrowser' /\ DriversAccounted'
        BY <2>1, <2>2, <3>2
           DEF OneLauncher, NothingYet, PageInBrowser, DriversAccounted, Launching
      <3> QED BY <3>3, <3>4
    <2>3. CASE BrowserAnswer(r)
      <3>1. Elsewhere(r)
        BY <1>1, <2>1, <2>3
           DEF OpenPage, Elsewhere, BrowserAnswer, Retry, Return, Launching, Label, Place
      <3> QED BY <3>1, ElsewhereKeeps
    <2> QED BY <1>1, <2>2, <2>3 DEF OpenPage
  <1>2. CASE BrowserCrash
    <2>1. \A s \in Request : at'[s] = IF at[s] = "page" THEN "lost" ELSE at[s]
      BY <1>2 DEF BrowserCrash
    <2>2. browser = "up" /\ browser' = "lost" /\ drivers' = drivers
      BY <1>2 DEF BrowserCrash
    <2>3. Shape'
      BY <1>2, <2>1, <2>2 DEF BrowserCrash, Shape, Label, Place
    <2>4. OneLauncher' /\ NothingYet' /\ PageInBrowser' /\ DriversAccounted'
      BY <2>1, <2>2
         DEF OneLauncher, NothingYet, PageInBrowser, DriversAccounted, Launching
    <2> QED BY <2>3, <2>4
  <1>3. CASE Close
    <2>1. \A s \in Request : at[s] = "idle"
      BY <1>3 DEF Close
    <2>2. at' = at /\ browser' = "none" /\ drivers' = drivers - 1 /\ drivers = 1
      BY <1>3, <2>1 DEF Close, place, DriversAccounted
    <2>3. Shape' /\ OneLauncher' /\ NothingYet' /\ PageInBrowser' /\ DriversAccounted'
      BY <2>1, <2>2
         DEF Shape, OneLauncher, NothingYet, PageInBrowser, DriversAccounted, Launching
    <2> QED BY <2>3
  <1> QED BY <1>1, <1>2, <1>3

LEMMA BrowserInvKept == BrowserInv /\ [FetchNext]_fetchVars => BrowserInv'
  <1> SUFFICES ASSUME BrowserInv, [FetchNext]_fetchVars
               PROVE  BrowserInv'
    OBVIOUS
  <1>1. ASSUME NEW r \in Request, Proceed(r) \/ StopWaiting(r)
        PROVE  BrowserInv'
    <2>1. CASE \/ Begin(r) \/ AskBreaker(r) \/ Refused(r) \/ ReadCooldown(r)
               \/ SendRequest(r) \/ StopWaiting(r) \/ BackOff(r)
      <3>1. Elsewhere(r)
        BY <2>1 DEF Begin, AskBreaker, Refused, ReadCooldown, SendRequest, StopWaiting,
                    BackOff, Elsewhere, StartOn, Return, Step, launch, Launching, Label,
                    Place
      <3> QED BY <3>1, ElsewhereKeeps
    <2>2. CASE Http(r)
      <3>1. Elsewhere(r)
        BY <2>2 DEF Http, HttpSuccess, HttpFailure, HttpRateLimited, HttpOther, HttpUpdate,
                    Elsewhere, StartOn, Retry, Return, Step, launch, Launching, Label,
                    Place
      <3> QED BY <3>1, ElsewhereKeeps
    <2>3. CASE Chromedp(r) \/ PageEnds(r)
      <3>1. Elsewhere(r)
        BY <2>3 DEF Chromedp, PageEnds, BrowserAnswer, Elsewhere, Retry, Return, Step,
                    launch, Launching, Label, Place
      <3> QED BY <3>1, ElsewhereKeeps
    <2>4. CASE StartDriver(r) \/ LaunchBrowser(r) \/ LaunchFails(r)
      BY <2>4, LaunchKeeps
    <2> QED BY <1>1, <2>1, <2>2, <2>3, <2>4 DEF Proceed
  <1>2. ASSUME NEW r \in Request, EnsureInitialized(r) \/ OpenPage(r)
        PROVE  BrowserInv'
    BY <1>2, LaunchKeeps, PagesKeep
  <1>3. CASE BrowserCrash \/ Close
    BY <1>3, PagesKeep
  <1>4. CASE UNCHANGED <<at, browser, drivers>>
    BY <1>4 DEF BrowserInv, Shape, OneLauncher, NothingYet, PageInBrowser, DriversAccounted,
                Launching
  <1>5. CASE Tick \/ HostStep \/ UNCHANGED fetchVars
    BY <1>4, <1>5 DEF Tick, HostStep, fetchVars, place, launch
  <1> QED BY <1>1, <1>2, <1>3, <1>5 DEF FetchNext

-----------------------------------------------------------------------------
(* The cooldown *)

PauseShape ==
  /\ at \in [Request -> Label] /\ wait \in [Request -> 0 .. MaxCooldown]
  /\ cooldown \in 0 .. MaxCooldown

\* Nobody starts to wait, and the cooldown is as it was.
NoNewWait ==
  /\ \A s \in Request : at'[s] = "cool" => at[s] = "cool" /\ wait'[s] = wait[s]
  /\ \A s \in Request : at'[s] = "cool" => (s \in late' <=> s \in late)
  /\ cooldown' = cooldown

LEMMA NoNewWaitKeeps == CooldownKept /\ NoNewWait => CooldownKept'
  BY DEF CooldownKept, NoNewWait

LEMMA CooldownInvKept ==
  ASSUME BrowserInv, PauseShape, CooldownKept, [FetchNext]_fetchVars
  PROVE  PauseShape' /\ CooldownKept'
  <1> USE DEF PauseShape
  <1>0. at' \in [Request -> Label]
    BY BrowserInvKept DEF BrowserInv, Shape
  <1>1. ASSUME NEW r \in Request, NEW l \in Label \ {"cool"}, Step(r, l)
        PROVE  \A s \in Request : at'[s] = "cool" => s # r /\ at[s] = "cool"
    <2>1. at' = [at EXCEPT ![r] = l]
      BY <1>1 DEF Step
    <2> QED BY <2>1
  <1>2. ASSUME NEW r \in Request, NEW l \in Label \ {"cool"}, Step(r, l), UNCHANGED pauses
        PROVE  PauseShape' /\ CooldownKept'
    <2>1. NoNewWait
      BY <1>1, <1>2 DEF NoNewWait, pauses
    <2> QED BY <1>0, <1>2, <2>1, NoNewWaitKeeps DEF pauses
  <1>3. ASSUME NEW r \in Request, NEW l \in Label \ {"cool"}, Step(r, l),
               NEW c \in 0 .. MaxCooldown, SetCooldown(c)
        PROVE  PauseShape' /\ CooldownKept'
    <2>1. /\ cooldown' = c /\ wait' = wait
          /\ late' = late \cup {s \in Request : at[s] = "cool" /\ wait[s] < c}
      BY <1>3 DEF SetCooldown
    <2>2. ASSUME NEW s \in Request, at'[s] = "cool", s \notin late'
          PROVE  wait'[s] >= cooldown'
      <3>1. at[s] = "cool"
        BY <1>1, <1>3, <2>2
      <3>2. ~(wait[s] < c)
        BY <2>1, <2>2, <3>1
      <3> QED BY <2>1, <3>2
    <2> QED BY <1>0, <2>1, <2>2 DEF CooldownKept
  <1>4. ASSUME NEW r \in Request, Proceed(r)
        PROVE  PauseShape' /\ CooldownKept'
    <2>1. CASE \/ Begin(r) \/ AskBreaker(r) \/ Refused(r) \/ BackOff(r) \/ Chromedp(r)
               \/ StartDriver(r) \/ LaunchBrowser(r) \/ LaunchFails(r) \/ PageEnds(r)
      <3>1. (\E l \in Label \ {"cool"} : Step(r, l)) /\ UNCHANGED pauses
        BY <2>1 DEF Begin, AskBreaker, Refused, BackOff, Chromedp, StartDriver,
                    LaunchBrowser, LaunchFails, PageEnds, BrowserAnswer, StartOn, Retry,
                    Return, Label, Place
      <3> QED BY <1>2, <3>1
    <2>2. CASE HttpSuccess(r) \/ HttpFailure(r) \/ HttpOther(r)
      <3>1. (\E l \in Label \ {"cool"} : Step(r, l)) /\ UNCHANGED pauses
        BY <2>2 DEF HttpSuccess, HttpFailure, HttpOther, Retry, Return, Label, Place
      <3> QED BY <1>2, <3>1
    <2>3. CASE HttpRateLimited(r) \/ HttpUpdate(r)
      <3>1. /\ \E l \in Label \ {"cool"} : Step(r, l)
            /\ \E c \in 0 .. MaxCooldown : SetCooldown(c)
        BY <2>3 DEF HttpRateLimited, HttpUpdate, StartOn, Retry, Return, Label, Place
      <3> QED BY <1>3, <3>1
    <2>4. CASE ReadCooldown(r)
      <3>1. /\ at' = [at EXCEPT ![r] = "cool"] /\ wait' = [wait EXCEPT ![r] = cooldown]
            /\ cooldown' = cooldown /\ late' = late
        BY <2>4 DEF ReadCooldown, Step
      <3>2. ASSUME NEW s \in Request, at'[s] = "cool", s \notin late'
            PROVE  wait'[s] >= cooldown'
        <4>1. CASE s = r
          BY <3>1, <4>1
        <4>2. CASE s # r
          BY <3>1, <3>2, <4>2 DEF CooldownKept
        <4> QED BY <4>1, <4>2
      <3> QED BY <1>0, <3>1, <3>2 DEF CooldownKept
    <2>5. CASE SendRequest(r)
      <3>1. /\ \E l \in Label \ {"cool"} : Step(r, l)
            /\ wait' = wait /\ cooldown' = cooldown /\ late' = late \ {r}
        BY <2>5 DEF SendRequest, Label, Place
      <3>2. NoNewWait
        BY <1>1, <3>1 DEF NoNewWait
      <3> QED BY <1>0, <3>1, <3>2, NoNewWaitKeeps
    <2> QED BY <1>4, <2>1, <2>2, <2>3, <2>4, <2>5 DEF Proceed, Http
  <1>5. ASSUME NEW r \in Request, StopWaiting(r)
        PROVE  PauseShape' /\ CooldownKept'
    <2>1. /\ Step(r, "idle") /\ wait' = [wait EXCEPT ![r] = 0]
          /\ cooldown' = cooldown /\ late' = late \ {r}
      BY <1>5 DEF StopWaiting, Return
    <2>2. "idle" \in Label \ {"cool"}
      BY DEF Label, Place
    <2>3. NoNewWait
      BY <1>1, <2>1, <2>2 DEF NoNewWait
    <2> QED BY <1>0, <2>1, <2>3, NoNewWaitKeeps
  <1>6. ASSUME NEW r \in Request, EnsureInitialized(r) \/ OpenPage(r)
        PROVE  PauseShape' /\ CooldownKept'
    <2>1. UNCHANGED pauses
      BY <1>6 DEF EnsureInitialized, OpenPage
    <2>2. CASE CleanUp(r)
      <3>1. NoNewWait
        BY <2>1, <2>2 DEF CleanUp, NoNewWait, pauses
      <3> QED BY <1>0, <2>1, <3>1, NoNewWaitKeeps DEF pauses
    <2>3. CASE ~CleanUp(r)
      <3>1. \E l \in Label \ {"cool"} : Step(r, l)
        BY <1>6, <2>3 DEF EnsureInitialized, OpenPage, BrowserAnswer, Retry, Return, Label,
                          Place
      <3> QED BY <1>2, <2>1, <3>1
    <2> QED BY <2>2, <2>3
  <1>7. CASE Tick
    <2>1. /\ at' = at /\ late' = late
          /\ cooldown' = (IF cooldown > 0 THEN cooldown - 1 ELSE 0)
          /\ wait' = [r \in Request |-> IF wait[r] > 0 THEN wait[r] - 1 ELSE 0]
      BY <1>7 DEF Tick, place
    <2>2. cooldown' \in 0 .. MaxCooldown /\ wait' \in [Request -> 0 .. MaxCooldown]
      BY <2>1
    <2>3. ASSUME NEW s \in Request, at'[s] = "cool", s \notin late'
          PROVE  wait'[s] >= cooldown'
      <3>1. wait[s] >= cooldown /\ wait[s] \in Nat /\ cooldown \in Nat
        BY <2>1, <2>3 DEF CooldownKept
      <3>2. wait'[s] = IF wait[s] > 0 THEN wait[s] - 1 ELSE 0
        BY <2>1
      <3> QED BY <2>1, <3>1, <3>2
    <2> QED BY <1>0, <2>2, <2>3 DEF CooldownKept
  <1>8. CASE BrowserCrash
    <2>1. NoNewWait
      BY <1>8 DEF BrowserCrash, NoNewWait, pauses
    <2> QED BY <1>0, <1>8, <2>1, NoNewWaitKeeps DEF BrowserCrash, pauses
  <1>9. CASE Close \/ HostStep \/ UNCHANGED fetchVars
    BY <1>9 DEF Close, HostStep, fetchVars, place, pauses, CooldownKept
  <1> QED BY <1>4, <1>5, <1>6, <1>7, <1>8, <1>9 DEF FetchNext

LEMMA SharedInvHolds == FetchSpec => [](BrowserInv /\ PauseShape /\ CooldownKept)
  <1>1. FetchInit => BrowserInv /\ PauseShape /\ CooldownKept
    BY DEF FetchInit, FetchesRest, BrowserInv, Shape, OneLauncher, NothingYet, Launching,
           PageInBrowser, DriversAccounted, PauseShape, CooldownKept, Label, Place
  <1>2. BrowserInv /\ PauseShape /\ CooldownKept /\ [FetchNext]_fetchVars
          => BrowserInv' /\ PauseShape' /\ CooldownKept'
    BY BrowserInvKept, CooldownInvKept
  <1> QED BY <1>1, <1>2, PTL DEF FetchSpec

\* The browser goes while there is a page in it only to make place for one of the
\* other headless setting: whoever finds it usable leaves it alone, a launch starts
\* when there is none, and CloseFetcher comes after the fetches.
LEMMA BrowserKeptStep ==
  BrowserInv /\ [FetchNext]_fetchVars
    => [\A r \in Request : at[r] = "page" /\ browser' = "none"
          => \E s \in Request : at[s] = "init" /\ wanted[s] # headless]_fetchVars
  <1> SUFFICES ASSUME BrowserInv, FetchNext, NEW r \in Request, at[r] = "page",
                      browser' = "none"
               PROVE  \E s \in Request : at[s] = "init" /\ wanted[s] # headless
    OBVIOUS
  <1>1. browser = "up"
    BY DEF BrowserInv, PageInBrowser
  <1>2. ASSUME NEW s \in Request, EnsureInitialized(s)
        PROVE  at[s] = "init" /\ wanted[s] # headless
    BY <1>1, <1>2 DEF EnsureInitialized, Usable
  <1>3. ASSUME NEW s \in Request, Proceed(s)
        PROVE  browser' # "none"
    BY <1>1, <1>3 DEF Proceed, Http, Begin, AskBreaker, Refused, ReadCooldown, SendRequest,
         HttpSuccess, HttpFailure, HttpRateLimited, HttpOther, HttpUpdate, BackOff, Chromedp,
         StartDriver, LaunchBrowser, LaunchFails, PageEnds, launch
  <1>4. ASSUME NEW s \in Request, StopWaiting(s) \/ OpenPage(s)
        PROVE  browser' # "none"
    BY <1>1, <1>4 DEF StopWaiting, OpenPage, launch
  <1>5. Tick \/ BrowserCrash \/ Close \/ HostStep => browser' # "none"
    BY <1>1 DEF Tick, BrowserCrash, Close, HostStep, launch
  <1> QED BY <1>2, <1>3, <1>4, <1>5 DEF FetchNext

\* However many fetches share the host and the browser, a fetch waits for what is
\* left of the cooldown it found, none stops the browser under another unless it asks
\* for the other headless setting, and no Playwright driver is leaked or started twice,
\* whatever crashes, fails to start or is given up (limiter.go, ensureInitialized and
\* cleanup in playwright_fetcher.go).
THEOREM FetchersSoundHolds == FetchSpec => FetchersSound
  <1>1. BrowserInv => PageInBrowser /\ DriversAccounted
    BY DEF BrowserInv
  <1> QED BY <1>1, SharedInvHolds, BrowserKeptStep, PTL
             DEF FetchSpec, FetchersSound, BrowserKept

-----------------------------------------------------------------------------
(* Types, and the place of a fetch in both specifications *)

Matched == \A r \in Request : at[r] \in Place[pc[r]]

Attempts ==
  /\ engine \in [Request -> {"none", "http", "chromedp", "playwright"}]
  /\ attempt \in [Request -> 0 .. MaxRetries]
  /\ \A r \in Request : at[r] = "backoff" => attempt[r] < MaxRetries
  /\ late \subseteq Request

LEMMA MatchedKept ==
  ASSUME TypeOK, Shape, Matched, [FetchNext]_fetchVars
  PROVE  Matched'
  <1>0. at \in [Request -> Label] /\ pc \in [Request -> {"idle", "waiting", "sent"}]
    BY DEF TypeOK, Shape
  <1>1. ASSUME NEW r \in Request, NEW p \in {"idle", "waiting", "sent"}, NEW l \in Place[p],
               Step(r, l), pc' = [pc EXCEPT ![r] = p]
        PROVE  Matched'
    BY <1>0, <1>1 DEF Matched, Step
  <1>2. ASSUME NEW r \in Request, NEW p \in {"idle", "waiting", "sent"}, NEW l \in Place[p],
               at[r] \in Place[p], Step(r, l), UNCHANGED pc
        PROVE  Matched'
    <2>1. pc[r] = p
      BY <1>0, <1>2 DEF Matched, Place
    <2>2. pc' = [pc EXCEPT ![r] = p]
      BY <1>0, <1>2, <2>1
    <2> QED BY <1>1, <1>2, <2>2
  <1>3. ASSUME NEW r \in Request, BrowserAnswer(r)
        PROVE  Matched'
    <2>1. (\E l \in Place["idle"] : Step(r, l)) /\ pc' = [pc EXCEPT ![r] = "idle"]
      BY <1>3 DEF BrowserAnswer, Retry, Return, AnswerUnrecorded, Goto, Place
    <2> QED BY <1>1, <2>1
  <1>4. ASSUME NEW r \in Request, Proceed(r)
        PROVE  Matched'
    <2>1. CASE Begin(r) \/ Refused(r) \/ HttpUpdate(r) \/ BackOff(r)
      <3>1. /\ at[r] \in Place["idle"] /\ UNCHANGED pc
            /\ \E l \in Place["idle"] : Step(r, l)
        BY <2>1 DEF Begin, Refused, HttpUpdate, BackOff, StartOn, Return, Place, vars
      <3> QED BY <1>2, <3>1
    <2>2. CASE AskBreaker(r)
      <3>1. (\E l \in Place["waiting"] : Step(r, l)) /\ pc' = [pc EXCEPT ![r] = "waiting"]
        BY <2>2 DEF AskBreaker, Ask, Goto, Place
      <3> QED BY <1>1, <3>1
    <2>3. CASE ReadCooldown(r)
      BY <1>2, <2>3 DEF ReadCooldown, Place, vars
    <2>4. CASE SendRequest(r)
      <3>1. (\E l \in Place["sent"] : Step(r, l)) /\ pc' = [pc EXCEPT ![r] = "sent"]
        BY <2>4 DEF SendRequest, Send, Goto, Place
      <3> QED BY <1>1, <3>1
    <2>5. CASE HttpSuccess(r) \/ HttpFailure(r) \/ HttpRateLimited(r) \/ HttpOther(r)
      <3>1. (\E l \in Place["idle"] : Step(r, l)) /\ pc' = [pc EXCEPT ![r] = "idle"]
        BY <2>5 DEF HttpSuccess, HttpFailure, HttpRateLimited, HttpOther, Retry, Return,
                    AnswerSuccess, AnswerFailure, AnswerUnrecorded, Goto, Place
      <3> QED BY <1>1, <3>1
    <2>6. CASE StartDriver(r) \/ LaunchBrowser(r)
      <3>1. /\ at[r] \in Place["sent"] /\ UNCHANGED pc
            /\ \E l \in Place["sent"] : Step(r, l)
        BY <2>6 DEF StartDriver, LaunchBrowser, Place, vars
      <3> QED BY <1>2, <3>1
    <2>7. CASE Chromedp(r) \/ LaunchFails(r) \/ PageEnds(r)
      BY <1>3, <2>7 DEF Chromedp, LaunchFails, PageEnds
    <2> QED BY <1>4, <2>1, <2>2, <2>3, <2>4, <2>5, <2>6, <2>7 DEF Proceed, Http
  <1>5. ASSUME NEW r \in Request, StopWaiting(r)
        PROVE  Matched'
    <2>1. (\E l \in Place["idle"] : Step(r, l)) /\ pc' = [pc EXCEPT ![r] = "idle"]
      BY <1>5 DEF StopWaiting, GiveUp, Return, Goto, Place
    <2> QED BY <1>1, <2>1
  <1>6. ASSUME NEW r \in Request, EnsureInitialized(r) \/ OpenPage(r)
        PROVE  Matched'
    <2>1. CASE BrowserAnswer(r)
      BY <1>3, <2>1
    <2>2. CASE ~BrowserAnswer(r) /\ ~CleanUp(r)
      <3>1. /\ at[r] \in Place["sent"] /\ UNCHANGED pc
            /\ \E l \in Place["sent"] : Step(r, l)
        BY <1>6, <2>2 DEF EnsureInitialized, OpenPage, Place, vars
      <3> QED BY <1>2, <3>1
    <2>3. CASE EnsureInitialized(r) /\ CleanUp(r)
      <3>1. pc' = pc /\ at[r] = "init"
        BY <2>3 DEF EnsureInitialized, vars
      <3>2. \A s \in Request :
              at'[s] = IF s = r THEN "launch" ELSE IF at[s] = "page" THEN "lost" ELSE at[s]
        BY <2>3 DEF CleanUp
      <3> QED BY <1>0, <3>1, <3>2 DEF Matched, Place
    <2>4. OpenPage(r) => BrowserAnswer(r) \/ ~CleanUp(r)
      BY <1>0 DEF OpenPage, CleanUp, Step
    <2> QED BY <1>6, <2>1, <2>2, <2>3, <2>4
  <1>7. CASE BrowserCrash
    <2>1. \A r \in Request : at'[r] = IF at[r] = "page" THEN "lost" ELSE at[r]
      BY <1>7 DEF BrowserCrash
    <2>2. pc' = pc
      BY <1>7 DEF BrowserCrash, vars
    <2> QED BY <1>0, <2>1, <2>2 DEF Matched, Place
  <1>8. CASE Tick \/ Close \/ HostStep \/ UNCHANGED fetchVars
    <2>1. UNCHANGED <<at, pc>>
      BY <1>8 DEF Tick, Close, HostStep, Elapse, Reset, HostChanges, fetchVars, place, vars
    <2> QED BY <2>1 DEF Matched
  <1> QED BY <1>4, <1>5, <1>6, <1>7, <1>8 DEF FetchNext

LEMMA AttemptsKept ==
  ASSUME Shape, Attempts, [FetchNext]_fetchVars
  PROVE  Attempts'
  <1>0. /\ at \in [Request -> Label] /\ attempt \in [Request -> 0 .. MaxRetries]
        /\ engine \in [Request -> {"none", "http", "chromedp", "playwright"}]
        /\ MaxRetries \in Nat
    BY DEF Shape, Attempts
  <1>1. late' \subseteq Request
    BY DEF Attempts, FetchNext, fetchVars, Proceed, Http, Begin, AskBreaker, Refused,
           ReadCooldown, SendRequest, StopWaiting, Tick, SetCooldown, HttpSuccess,
           HttpFailure, HttpRateLimited, HttpOther, HttpUpdate, BackOff, Chromedp,
           EnsureInitialized, StartDriver, LaunchBrowser, LaunchFails, OpenPage, PageEnds,
           BrowserCrash, Close, HostStep, pauses
  <1>2. ASSUME NEW r \in Request, NEW e \in EnginesOf[r], StartOn(r, e)
        PROVE  Attempts'
    <2>1. e \in {"http", "chromedp", "playwright"}
      OBVIOUS
    <2> QED BY <1>0, <1>1, <1>2, <2>1 DEF StartOn, Step, Attempts
  <1>3. ASSUME NEW r \in Request, Return(r)
        PROVE  Attempts'
    BY <1>0, <1>1, <1>3 DEF Return, Step, Attempts
  <1>4. ASSUME NEW r \in Request, Retry(r)
        PROVE  Attempts'
    BY <1>0, <1>1, <1>4 DEF Retry, Step, Attempts
  <1>5. ASSUME NEW r \in Request, NEW l \in Label \ {"backoff"}, Step(r, l),
               UNCHANGED <<engine, attempt>>
        PROVE  Attempts'
    BY <1>0, <1>1, <1>5 DEF Step, Attempts
  <1>6. ASSUME NEW r \in Request, Proceed(r)
        PROVE  Attempts'
    <2>1. CASE Begin(r) \/ Refused(r)
      BY <1>2, <1>3, <2>1 DEF Begin, Refused
    <2>2. CASE AskBreaker(r) \/ ReadCooldown(r) \/ SendRequest(r) \/ HttpSuccess(r)
               \/ StartDriver(r) \/ LaunchBrowser(r)
      <3>1. (\E l \in Label \ {"backoff"} : Step(r, l)) /\ UNCHANGED <<engine, attempt>>
        BY <2>2 DEF AskBreaker, ReadCooldown, SendRequest, HttpSuccess, StartDriver,
                    LaunchBrowser, Label, Place
      <3> QED BY <1>5, <3>1
    <2>3. CASE HttpFailure(r) \/ HttpRateLimited(r) \/ HttpOther(r)
      <3>1. "update" \in Label \ {"backoff"}
        BY DEF Label, Place
      <3> QED BY <1>3, <1>4, <1>5, <2>3, <3>1 DEF HttpFailure, HttpRateLimited, HttpOther
    <2>4. CASE HttpUpdate(r)
      BY <1>2, <1>3, <2>4 DEF HttpUpdate
    <2>5. CASE BackOff(r)
      <3>1. CASE Step(r, "ask") /\ attempt' = [attempt EXCEPT ![r] = attempt[r] + 1]
                 /\ UNCHANGED engine
        <4>1. attempt[r] + 1 \in 0 .. MaxRetries
          BY <1>0, <2>5 DEF BackOff, Attempts
        <4> QED BY <1>0, <1>1, <3>1, <4>1 DEF Step, Attempts
      <3> QED BY <1>3, <2>5, <3>1 DEF BackOff
    <2>6. CASE Chromedp(r) \/ LaunchFails(r) \/ PageEnds(r)
      BY <1>3, <1>4, <2>6 DEF Chromedp, LaunchFails, PageEnds, BrowserAnswer
    <2> QED BY <1>6, <2>1, <2>2, <2>3, <2>4, <2>5, <2>6 DEF Proceed, Http
  <1>7. ASSUME NEW r \in Request, StopWaiting(r) \/ EnsureInitialized(r) \/ OpenPage(r)
        PROVE  Attempts'
    <2>1. CASE Return(r) \/ Retry(r)
      BY <1>3, <1>4, <2>1
    <2>2. CASE ~(Return(r) \/ Retry(r)) /\ ~(EnsureInitialized(r) /\ CleanUp(r))
      <3>1. (\E l \in Label \ {"backoff"} : Step(r, l)) /\ UNCHANGED <<engine, attempt>>
        BY <1>7, <2>2 DEF StopWaiting, EnsureInitialized, OpenPage, BrowserAnswer, Label,
                          Place
      <3> QED BY <1>5, <3>1
    <2>3. CASE EnsureInitialized(r) /\ CleanUp(r)
      <3>1. UNCHANGED <<engine, attempt>>
        BY <2>3 DEF EnsureInitialized
      <3>2. \A s \in Request : at'[s] = "backoff" => at[s] = "backoff"
        BY <2>3 DEF CleanUp
      <3> QED BY <1>1, <3>1, <3>2 DEF Attempts
    <2> QED BY <2>1, <2>2, <2>3
  <1>8. CASE BrowserCrash
    <2>1. \A r \in Request : at'[r] = "backoff" => at[r] = "backoff"
      BY <1>8 DEF BrowserCrash
    <2> QED BY <1>1, <1>8, <2>1 DEF BrowserCrash, Attempts
  <1>9. CASE Tick \/ Close \/ HostStep \/ UNCHANGED fetchVars
    BY <1>1, <1>9 DEF Tick, Close, HostStep, fetchVars, place, Attempts
  <1> QED BY <1>6, <1>7, <1>8, <1>9 DEF FetchNext

Settings == headless \in BOOLEAN /\ wanted \in [Request -> BOOLEAN]

LEMMA SettingsKept ==
  ASSUME Settings, [FetchNext]_fetchVars
  PROVE  Settings'
  <1> USE DEF Settings
  <1>1. ASSUME NEW r \in Request, Begin(r)
        PROVE  Settings'
    <2>1. PICK h \in BOOLEAN : wanted' = [wanted EXCEPT ![r] = h]
      BY <1>1 DEF Begin
    <2>2. headless' = headless
      BY <1>1 DEF Begin
    <2> QED BY <2>1, <2>2
  <1>2. ASSUME NEW r \in Request, LaunchBrowser(r)
        PROVE  Settings'
    BY <1>2 DEF LaunchBrowser
  <1>3. ASSUME NEW r \in Request,
               Proceed(r) \/ StopWaiting(r) \/ EnsureInitialized(r) \/ OpenPage(r)
        PROVE  Settings'
    <2>1. \/ Begin(r) \/ LaunchBrowser(r) \/ UNCHANGED <<headless, wanted>>
      BY <1>3 DEF Proceed, Http, AskBreaker, Refused, ReadCooldown, SendRequest, HttpSuccess,
           HttpFailure, HttpRateLimited, HttpOther, HttpUpdate, BackOff, Chromedp,
           StartDriver, LaunchFails, PageEnds, StopWaiting, EnsureInitialized, OpenPage,
           launch
    <2> QED BY <1>1, <1>2, <2>1
  <1>4. CASE Tick \/ BrowserCrash \/ Close \/ HostStep \/ UNCHANGED fetchVars
    BY <1>4 DEF Tick, BrowserCrash, Close, HostStep, fetchVars, launch
  <1> QED BY <1>3, <1>4 DEF FetchNext

FetchersInv ==
  /\ Inv /\ BrowserInv /\ PauseShape /\ CooldownKept
  /\ Matched /\ Attempts /\ Settings

LEMMA FetchersInvTypes == FetchersInv => FetchTypeOK
  BY InvIsTypeAndPeriods
     DEF FetchersInv, BrowserInv, Shape, PauseShape, Matched, Attempts, Settings, FetchTypeOK

LEMMA FetchersInvBegins == FetchInit => FetchersInv
  <1> SUFFICES ASSUME FetchInit
               PROVE  FetchersInv
    OBVIOUS
  <1>1. Inv
    BY InvBegins DEF FetchInit
  <1>2. BrowserInv /\ PauseShape /\ CooldownKept
    BY DEF FetchInit, FetchesRest, BrowserInv, Shape, OneLauncher, NothingYet, Launching,
           PageInBrowser, DriversAccounted, PauseShape, CooldownKept, Label, Place
  <1>3. Matched
    BY DEF FetchInit, Init, FetchesRest, Matched, Place
  <1>4. Attempts
    BY DEF FetchInit, FetchesRest, Attempts
  <1>5. Settings
    BY DEF FetchInit, FetchesRest, Settings
  <1> QED BY <1>1, <1>2, <1>3, <1>4, <1>5 DEF FetchersInv

LEMMA FetchersInvKept == FetchersInv /\ [FetchNext]_fetchVars => FetchersInv'
  <1> SUFFICES ASSUME FetchersInv, [FetchNext]_fetchVars
               PROVE  FetchersInv'
    OBVIOUS
  <1>1. Inv'
    BY StepRefines, InvInductive DEF FetchersInv
  <1>2. BrowserInv' /\ PauseShape' /\ CooldownKept'
    BY BrowserInvKept, CooldownInvKept DEF FetchersInv
  <1>3. Matched' /\ Attempts' /\ Settings'
    BY InvIsTypeAndPeriods, MatchedKept, AttemptsKept, SettingsKept
       DEF FetchersInv, BrowserInv
  <1> QED BY <1>1, <1>2, <1>3 DEF FetchersInv

\* The variables keep their types, and every fetch is where CircuitBreaker has it:
\* one that retries, or goes on to a browser, has given up its place there before it
\* asks again (the Fetch methods of the three engines).
THEOREM FetchTypesCorrect == FetchSpec => []FetchTypeOK
  BY FetchersInvBegins, FetchersInvKept, FetchersInvTypes, PTL DEF FetchSpec

-----------------------------------------------------------------------------
(* Fetches, the breaker of another host and a proxy, side by side *)

HostProofs == INSTANCE CircuitBreakerProofs WITH Request <- HostRequest

LEMMA PoolKeepsType == PoolTypeOK /\ PoolNext => PoolTypeOK'
  <1> SUFFICES ASSUME PoolTypeOK, PoolNext
               PROVE  PoolTypeOK'
    OBVIOUS
  <1>1. MoreFails \in 0 .. MaxFails /\ 0 \in 0 .. MaxFails
    BY PoolAssumption DEF PoolTypeOK, MoreFails
  <1>2. ASSUME NEW u \in User, Select(u) \/ Use(u)
        PROVE  PoolTypeOK'
    BY <1>1, <1>2 DEF Select, Use, UseEnds, RecordProxySuccess, RecordProxyFailure, PoolTypeOK
  <1>3. ASSUME NEW c \in Check, StartCheck(c)
        PROVE  PoolTypeOK'
    BY <1>3 DEF StartCheck, PoolTypeOK
  <1>4. ASSUME NEW c \in Check, EndCheck(c)
        PROVE  PoolTypeOK'
    <2>1. fails' \in 0 .. MaxFails
      BY <1>1, <1>4 DEF EndCheck, CheckFailed, CheckPassed, PoolTypeOK
    <2>2. isHealthy' \in BOOLEAN /\ recent' \in BOOLEAN
      BY <1>4 DEF EndCheck, CheckFailed, CheckPassed, PoolTypeOK
    <2> QED BY <1>4, <2>1, <2>2 DEF EndCheck, PoolTypeOK
  <1>5. CASE RecoveryElapses \/ ProxyChanges
    BY <1>5 DEF RecoveryElapses, ProxyChanges, PoolTypeOK
  <1> QED BY <1>2, <1>3, <1>4, <1>5 DEF PoolNext, CheckRuns

LEMMA HostConstants == HostProofs!ConstantsAssumption
  <1>1. HostProofs!IsFiniteSet(HostRequest)
    BY HostAssumption DEF IsFiniteSet, HostProofs!IsFiniteSet
  <1>2. HostProofs!AllOutcomes = AllOutcomes
    BY DEF AllOutcomes, HostProofs!AllOutcomes
  <1> QED BY <1>1, <1>2, ConstantsAssumption DEF HostProofs!ConstantsAssumption

\* The two instances of the breaker, with the same fetches, are the same.
LEMMA HostsKeep == HostProofs!Inv /\ [Hosts!Next]_(Hosts!vars) => HostProofs!Inv'
  <1>1. HostProofs!Inv /\ [HostProofs!Next]_(HostProofs!vars) => HostProofs!Inv'
    BY HostConstants, HostProofs!InvInductive DEF HostProofs!ConstantsAssumption
  <1>2. [Hosts!Next]_(Hosts!vars) => [HostProofs!Next]_(HostProofs!vars)
    BY DEF Hosts!host, HostProofs!host, Hosts!period, HostProofs!period, Hosts!vars,
           HostProofs!vars, Hosts!Entry, HostProofs!Entry, Hosts!NoProbes,
           HostProofs!NoProbes, Hosts!Unrecorded, HostProofs!Unrecorded, Hosts!OneMore,
           HostProofs!OneMore, Hosts!StartProbing, HostProofs!StartProbing,
           Hosts!TakeSlot, HostProofs!TakeSlot, Hosts!Allow, HostProofs!Allow,
           Hosts!Succeed, HostProofs!Succeed, Hosts!SuccessWhileHalfOpen,
           HostProofs!SuccessWhileHalfOpen, Hosts!RecordSuccess,
           HostProofs!RecordSuccess, Hosts!RecordFailure, HostProofs!RecordFailure,
           Hosts!Elapse, HostProofs!Elapse, Hosts!Reset, HostProofs!Reset, Hosts!Goto,
           HostProofs!Goto, Hosts!Ask, HostProofs!Ask, Hosts!Send, HostProofs!Send,
           Hosts!GiveUp, HostProofs!GiveUp, Hosts!AnswerUnrecorded,
           HostProofs!AnswerUnrecorded, Hosts!AnswerSuccess, HostProofs!AnswerSuccess,
           Hosts!AnswerFailure, HostProofs!AnswerFailure, Hosts!Answer,
           HostProofs!Answer, Hosts!Fetch, HostProofs!Fetch, Hosts!HostChanges,
           HostProofs!HostChanges, Hosts!Next, HostProofs!Next
  <1> QED BY <1>1, <1>2

LEMMA HostsBegin == Hosts!Init => HostProofs!Inv
  <1>1. HostProofs!Init => HostProofs!Inv
    BY HostConstants, HostProofs!InvBegins DEF HostProofs!ConstantsAssumption
  <1>2. Hosts!Init => HostProofs!Init
    BY DEF Hosts!Init, HostProofs!Init
  <1> QED BY <1>1, <1>2

LEMMA HostsTyped == HostProofs!Inv => Hosts!TypeOK
  <1>1. HostProofs!Inv => HostProofs!TypeOK
    BY HostConstants, HostProofs!InvIsTypeAndPeriods DEF HostProofs!ConstantsAssumption
  <1>2. HostProofs!TypeOK => Hosts!TypeOK
    BY DEF Hosts!TypeOK, HostProofs!TypeOK
  <1> QED BY <1>1, <1>2

SideBySide ==
  /\ IF part = "hosts" THEN HostProofs!Inv ELSE FetchersInv
  /\ PoolTypeOK

\* Fetches in detail, more fetches as the breaker sees them, and a proxy keep their
\* types side by side, each while the others rest: the counters of the breaker stay
\* at or below their thresholds and attempts within the retries, and what a proxy
\* counts is at most MaxConsecutiveFails (circuit_breaker.go, retry.go,
\* proxy_pool.go).
THEOREM FetchingTypeOKHolds == MCSpec => []FetchingTypeOK
  <1>1. MCInit => SideBySide
    <2> SUFFICES ASSUME MCInit
                 PROVE  SideBySide
      OBVIOUS
    <2>1. part = "hosts" => HostProofs!Inv
      BY HostsBegin DEF MCInit
    <2>2. part # "hosts" => FetchersInv
      BY FetchersInvBegins DEF MCInit, FetchInit
    <2>3. PoolTypeOK
      <3>1. PoolInit
        BY DEF MCInit
      <3>2. fails \in 0 .. MaxFails
        BY <3>1, PoolAssumption DEF PoolInit
      <3>3. isHealthy \in BOOLEAN /\ recent \in BOOLEAN /\ works \in BOOLEAN
        BY <3>1 DEF PoolInit
      <3>4. /\ checks \in [Check -> {"none", "ok", "failed"}]
            /\ uses \in [User -> {"none", "using", "ok", "failed"}]
        BY <3>1 DEF PoolInit
      <3> QED BY <3>2, <3>3, <3>4 DEF PoolTypeOK
    <2> QED BY <2>1, <2>2, <2>3 DEF SideBySide
  <1>2. SideBySide /\ [MCNext]_allVars => SideBySide'
    <2> SUFFICES ASSUME SideBySide, [MCNext]_allVars
                 PROVE  SideBySide'
      OBVIOUS
    <2>1. /\ part' = part
          /\ part # "hosts" => [FetchNext]_fetchVars
          /\ PoolNext \/ UNCHANGED poolVars
      BY DEF MCNext, ForFetchers, ForHosts, ForProxies, allVars
    <2>2. part = "hosts" => [Hosts!Next]_(Hosts!vars)
      <3>1. UNCHANGED fetchVars => UNCHANGED Hosts!vars
        BY DEF fetchVars, vars, host, period, Hosts!vars, Hosts!host, Hosts!period
      <3> QED BY <3>1 DEF MCNext, ForFetchers, ForHosts, ForProxies, allVars
    <2>3. PoolTypeOK'
      BY <2>1, PoolKeepsType DEF SideBySide, poolVars, PoolTypeOK
    <2> QED BY <2>1, <2>2, <2>3, HostsKeep, FetchersInvKept DEF SideBySide
  <1>3. SideBySide => FetchingTypeOK
    BY HostsTyped, FetchersInvTypes DEF SideBySide, FetchingTypeOK
  <1> QED BY <1>1, <1>2, <1>3, PTL DEF MCSpec
=============================================================================
