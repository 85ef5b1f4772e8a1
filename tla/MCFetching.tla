----------------------------- MODULE MCFetching -----------------------------
(***************************************************************************)
(* Small instances of what fetches a page: a few fetches in all their      *)
(* detail; more of them, as CircuitBreaker sees them; and a proxy.  A      *)
(* behaviour is about one of the three, and the others rest.               *)
(***************************************************************************)
EXTENDS Fetching, ProxyPool

CONSTANT HostRequest   \* the fetches of the second part

ASSUME HostAssumption == IsFiniteSet(HostRequest)

Hosts == INSTANCE CircuitBreaker WITH Request <- HostRequest

VARIABLE part

allVars == <<part, fetchVars, poolVars>>

MCInit ==
  /\ part \in {"fetchers", "hosts", "proxies"}
  /\ IF part = "hosts" THEN Hosts!Init ELSE Init
  /\ FetchesRest /\ PoolInit

ForFetchers(A) == part = "fetchers" /\ A /\ UNCHANGED <<part, poolVars>>
ForHosts(A) == part = "hosts" /\ A /\ UNCHANGED <<part, place, pauses, launch, poolVars>>
ForProxies(A) == part = "proxies" /\ A /\ UNCHANGED <<part, fetchVars>>

MCNext == ForFetchers(FetchNext) \/ ForHosts(Hosts!Next) \/ ForProxies(PoolNext)

\* Every call that a fetch makes has a timeout, fetches are wanted again and again,
\* time passes, and a Go mutex does not starve a goroutine that waits for it.
\* Health checks are enabled, and have a timeout.
MCFairness ==
  /\ WF_allVars(ForFetchers(Tick)) /\ WF_allVars(ForFetchers(HostStep /\ elapsed'))
  /\ \A r \in Request :
       /\ WF_allVars(ForFetchers(Proceed(r)))
       /\ SF_allVars(ForFetchers(EnsureInitialized(r)))
       /\ SF_allVars(ForFetchers(OpenPage(r)))
  /\ WF_allVars(ForHosts(Hosts!Elapse))
  /\ \A r \in HostRequest : WF_allVars(ForHosts(Hosts!Fetch(r)))
  /\ WF_allVars(ForProxies(RecoveryElapses))
  /\ \A c \in Check : WF_allVars(ForProxies(CheckRuns(c)))
  /\ \A u \in User : WF_allVars(ForProxies(Use(u)))

MCSpec == MCInit /\ [][MCNext]_allVars /\ MCFairness

\* Each part has states of its own kind.
FetchingTypeOK ==
  /\ IF part = "hosts" THEN Hosts!TypeOK ELSE FetchTypeOK
  /\ PoolTypeOK

\* Fetches return and a proxy is known for what it is; where they rest, both are so.
FetchesSettle == FetchesReturn /\ PoolSettles

\* One fetch with every engine, and a neighbour that shares the browser with it.
SomeEngines ==
  CHOOSE f \in [Request -> SUBSET {"http", "chromedp", "playwright"}] :
    \E r \in Request : f = [s \in Request |->
      IF s = r THEN {"http", "chromedp", "playwright"} ELSE {"playwright"}]

\* The neighbour asks for either headless setting.
SomeHeadless ==
  [r \in Request |-> IF "http" \in EnginesOf[r] THEN {FALSE} ELSE BOOLEAN]
=============================================================================
