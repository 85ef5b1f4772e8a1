------------------------------ MODULE ProxyPool ------------------------------
(***************************************************************************)
(* One proxy of the pool (internal/fetch/proxy_pool.go): the fetches that  *)
(* select it and report on it, and the health checks, which are started    *)
(* every IntervalSeconds whether or not the last one has come back.  The   *)
(* proxies of a pool have entries of their own, and Select chooses among   *)
(* the healthy ones, so that one is enough.                                *)
(***************************************************************************)
EXTENDS Naturals

CONSTANTS
  Check,     \* bound: health checks under way at once
  User,      \* bound: fetches that use the proxy at once
  MaxFails   \* MaxConsecutiveFails

ASSUME PoolAssumption == MaxFails \in Nat \ {0}

VARIABLES
  isHealthy,  \* IsHealthy
  fails,      \* ConsecutiveFails, up to MaxFails: above it, no code tells two
              \* values apart
  recent,     \* RecoveryAfterSeconds have not passed since LastFailed
  checks,     \* what each check under way found, before it says so
  uses,       \* the same for the fetches
  works       \* whether the proxy works

poolVars == <<isHealthy, fails, recent, checks, uses, works>>

PoolTypeOK ==
  /\ isHealthy \in BOOLEAN /\ recent \in BOOLEAN /\ works \in BOOLEAN
  /\ fails \in 0 .. MaxFails
  /\ checks \in [Check -> {"none", "ok", "failed"}]
  /\ uses \in [User -> {"none", "using", "ok", "failed"}]

\* A proxy that works at first; it need not go on to.
PoolInit ==
  /\ isHealthy = TRUE /\ fails = 0 /\ recent = FALSE
  /\ checks = [c \in Check |-> "none"]
  /\ uses = [u \in User |-> "none"]
  /\ works = TRUE

MoreFails == IF fails < MaxFails THEN fails + 1 ELSE fails

-----------------------------------------------------------------------------
(* The fetches *)

Select(u) ==
  /\ uses[u] = "none" /\ isHealthy
  /\ uses' = [uses EXCEPT ![u] = "using"]
  /\ UNCHANGED <<isHealthy, fails, recent, checks, works>>

\* The fetch is over.  The host may answer with a 5xx through a proxy that works;
\* a 4xx, or a failure of a browser, is not reported.
UseEnds(u) ==
  /\ uses[u] = "using"
  /\ \E result \in {"ok", "failed", "none"} :
       /\ result = "ok" => works
       /\ uses' = [uses EXCEPT ![u] = result]
  /\ UNCHANGED <<isHealthy, fails, recent, checks, works>>

RecordProxySuccess(u) ==
  /\ uses[u] = "ok" /\ uses' = [uses EXCEPT ![u] = "none"]
  /\ fails' = 0
  /\ UNCHANGED <<isHealthy, recent, checks, works>>

RecordProxyFailure(u) ==
  /\ uses[u] = "failed" /\ uses' = [uses EXCEPT ![u] = "none"]
  /\ fails' = MoreFails /\ recent' = TRUE
  /\ UNCHANGED <<isHealthy, checks, works>>

-----------------------------------------------------------------------------
(* The health checks *)

\* checkAllProxies starts a check, and it finds the proxy as it is.
StartCheck(c) ==
  /\ checks[c] = "none"
  /\ checks' = [checks EXCEPT ![c] = IF works THEN "ok" ELSE "failed"]
  /\ UNCHANGED <<isHealthy, fails, recent, uses, works>>

\* checkProxy takes the lock for what the check found.
CheckFailed(c) ==
  /\ checks[c] = "failed"
  /\ fails' = MoreFails /\ recent' = TRUE
  /\ isHealthy' = (isHealthy /\ fails + 1 < MaxFails)

CheckPassed(c) ==
  /\ checks[c] = "ok"
  /\ IF isHealthy \/ ~recent
     THEN fails' = 0 /\ isHealthy' = TRUE
     ELSE UNCHANGED <<isHealthy, fails>>
  /\ UNCHANGED recent

EndCheck(c) ==
  /\ CheckFailed(c) \/ CheckPassed(c)
  /\ checks' = [checks EXCEPT ![c] = "none"]
  /\ UNCHANGED <<uses, works>>

RecoveryElapses ==
  /\ recent /\ recent' = FALSE
  /\ UNCHANGED <<isHealthy, fails, checks, uses, works>>

ProxyChanges ==
  /\ works' = ~works
  /\ UNCHANGED <<isHealthy, fails, recent, checks, uses>>

Use(u) == UseEnds(u) \/ RecordProxySuccess(u) \/ RecordProxyFailure(u)
CheckRuns(c) == StartCheck(c) \/ EndCheck(c)

PoolNext ==
  \/ \E u \in User : Select(u) \/ Use(u)
  \/ \E c \in Check : CheckRuns(c)
  \/ RecoveryElapses \/ ProxyChanges

-----------------------------------------------------------------------------
\* However late the checks and the fetches report, and whatever the fetches report
\* of a host that fails by itself: a proxy that works for good is in the end
\* selected again, and one that does not is in the end left alone.
PoolSettles == []<><<ProxyChanges>>_poolVars \/ <>[](isHealthy = works)
=============================================================================
