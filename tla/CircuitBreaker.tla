--------------------------- MODULE CircuitBreaker ---------------------------
(***************************************************************************)
(* The circuit breaker of one host (internal/fetch) and the fetches that   *)
(* use it: a fetch asks the breaker, then waits for the rate limiter, then *)
(* sends its request, and what comes back is recorded, or is not.  A retry *)
(* is a fetch that asks again.                                             *)
(*                                                                         *)
(* Every operation of the breaker holds its mutex and is one step.  Hosts  *)
(* share nothing but that mutex, so one host is enough.                    *)
(***************************************************************************)
EXTENDS Naturals, FiniteSets

CONSTANTS
  Request,            \* concurrent fetches from the host
  FailureThreshold, SuccessThreshold, HalfOpenMaxRequests,
  Outcomes            \* what may become of a fetch, see Answer and GiveUp

AllOutcomes == {"success", "failure", "unrecorded", "canceled"}

\* NewCircuitBreaker replaces thresholds that are not positive.
ASSUME ConstantsAssumption ==
  /\ IsFiniteSet(Request)
  /\ FailureThreshold \in Nat \ {0}
  /\ SuccessThreshold \in Nat \ {0}
  /\ HalfOpenMaxRequests \in Nat \ {0}
  /\ Outcomes \subseteq AllOutcomes

VARIABLES
  known,             \* whether hosts has an entry for the host
  state,             \* h.state
  failureCount,      \* h.failureCount, up to FailureThreshold: above it, no
                     \* code tells two values apart
  successCount,      \* h.successCount
  halfOpenRequests,  \* h.halfOpenRequests
  elapsed,           \* ResetTimeout has passed since lastFailureTime
  pc,                \* where each fetch is
  probes,            \* history: fetches under way that the present half-open
                     \* period has admitted
  leaked,            \* history: how many fetches it has admitted that ended
                     \* with no result recorded
  healthy            \* whether what is recorded of the host is good (a request
                     \* that its caller cancels is recorded as a failure)

host == <<known, state, failureCount, successCount, halfOpenRequests>>
period == <<probes, leaked>>
vars == <<host, elapsed, pc, period, healthy>>

TypeOK ==
  /\ known \in BOOLEAN /\ elapsed \in BOOLEAN /\ healthy \in BOOLEAN
  /\ state \in {"closed", "open", "halfOpen"}
  /\ failureCount \in 0 .. FailureThreshold
  /\ successCount \in 0 .. SuccessThreshold
  /\ halfOpenRequests \in 0 .. HalfOpenMaxRequests
  /\ pc \in [Request -> {"idle", "waiting", "sent"}]
  /\ probes \subseteq {r \in Request : pc[r] # "idle"}
  /\ leaked \in Nat

Init ==
  /\ known = FALSE /\ state = "closed"
  /\ failureCount = 0 /\ successCount = 0 /\ halfOpenRequests = 0
  /\ elapsed = FALSE
  /\ pc = [r \in Request |-> "idle"]
  /\ probes = {} /\ leaked = 0
  /\ healthy \in BOOLEAN

-----------------------------------------------------------------------------
(* The breaker                                                             *)
(*                                                                         *)
(* Some operators are preceded by a faulty variant of themselves that no   *)
(* action uses: with the variant in its place, a property must fail.       *)

Entry(k, s, f, n, h) ==
  /\ known' = k /\ state' = s /\ failureCount' = f
  /\ successCount' = n /\ halfOpenRequests' = h

\* No half-open period, or a new one.
NoProbes == probes' = {} /\ leaked' = 0

\* A fetch ends and nothing is recorded: its slot, if it has one, stays taken.
Unrecorded(r) ==
  /\ probes' = probes \ {r}
  /\ leaked' = leaked + (IF r \in probes THEN 1 ELSE 0)

OneMore == IF failureCount < FailureThreshold THEN failureCount + 1 ELSE failureCount

\* The counters with which Allow leaves the open state.
StartProbing(r) ==
  Entry(known, "halfOpen", failureCount, 0, 1) /\ probes' = {r} /\ leaked' = 0

\* A slot of the half-open period, if one is left.
TakeSlotOffByOne(r) ==
  /\ halfOpenRequests <= HalfOpenMaxRequests
  /\ Entry(known, state, failureCount, successCount, halfOpenRequests + 1)
  /\ probes' = probes \cup {r} /\ UNCHANGED leaked
TakeSlot(r) ==
  /\ halfOpenRequests < HalfOpenMaxRequests
  /\ Entry(known, state, failureCount, successCount, halfOpenRequests + 1)
  /\ probes' = probes \cup {r} /\ UNCHANGED leaked

\* Allow returns true.  Where it returns false nothing changes.
Allow(r) ==
  \/ ~known /\ Entry(TRUE, "closed", 0, 0, 0) /\ UNCHANGED period
  \/ known /\ state = "closed" /\ UNCHANGED <<host, period>>
  \/ known /\ state = "open" /\ elapsed /\ StartProbing(r)
  \/ known /\ state = "halfOpen" /\ TakeSlot(r)

\* One more success than the counters show: the period goes on, or it ends.
Succeed(n, h, rest, l) ==
  IF n >= SuccessThreshold
  THEN Entry(TRUE, "closed", 0, 0, 0) /\ NoProbes
  ELSE Entry(TRUE, "halfOpen", failureCount, n, h) /\ probes' = rest /\ leaked' = l

SuccessForgotten(r) == Succeed(successCount, halfOpenRequests, probes \ {r}, leaked)
SuccessWhileHalfOpen(r) == Succeed(successCount + 1, halfOpenRequests, probes \ {r}, leaked)

RecordSuccess(r) ==
  /\ \/ ~known /\ Entry(TRUE, "closed", 0, 1, 0) /\ UNCHANGED period
     \/ /\ known /\ state = "closed"
        /\ Entry(known, state, 0, successCount, halfOpenRequests)
        /\ UNCHANGED period
     \/ known /\ state = "halfOpen" /\ SuccessWhileHalfOpen(r)
     \/ known /\ state = "open" /\ elapsed /\ Succeed(1, 0, {}, 0)
     \/ known /\ state = "open" /\ ~elapsed /\ UNCHANGED <<host, period>>
  /\ UNCHANGED elapsed

RecordFailure(r) ==
  /\ \/ ~known /\ Entry(TRUE, "closed", 1, 0, 0) /\ UNCHANGED period
     \/ /\ known /\ state = "closed"
        /\ Entry(known, IF failureCount + 1 >= FailureThreshold THEN "open" ELSE "closed",
               OneMore, successCount, halfOpenRequests)
        /\ UNCHANGED period
     \/ /\ known /\ state = "halfOpen"
        /\ Entry(known, "open", OneMore, 0, 0)
        /\ NoProbes
     \/ /\ known /\ state = "open"
        /\ Entry(known, state, OneMore, successCount, halfOpenRequests)
        /\ UNCHANGED period
  /\ elapsed' = FALSE

\* ResetTimeout passes after the latest failure.
Elapse ==
  /\ state = "open" /\ ~elapsed
  /\ elapsed' = TRUE
  /\ UNCHANGED <<host, pc, period, healthy>>

\* An operator forgets the host.
Reset ==
  /\ known
  /\ Entry(FALSE, "closed", 0, 0, 0)
  /\ elapsed' = FALSE /\ NoProbes
  /\ UNCHANGED <<pc, healthy>>

-----------------------------------------------------------------------------
(* The fetches *)

Goto(r, label) == pc' = [pc EXCEPT ![r] = label]

Ask(r) ==
  /\ pc[r] = "idle"
  /\ Allow(r)
  /\ Goto(r, "waiting")
  /\ UNCHANGED <<elapsed, healthy>>

\* The rate limiter lets the fetch through.
Send(r) ==
  /\ pc[r] = "waiting"
  /\ Goto(r, "sent")
  /\ UNCHANGED <<host, elapsed, period, healthy>>

\* The context ends while the fetch waits for the rate limiter.
GiveUp(r) ==
  /\ pc[r] = "waiting" /\ "canceled" \in Outcomes
  /\ Goto(r, "idle")
  /\ Unrecorded(r)
  /\ UNCHANGED <<host, elapsed, healthy>>

\* An answer with no record at all: a 304, a 4xx, a body over the size limit, and
\* whatever comes back to a browser fetcher.
AnswerUnrecorded(r) ==
  /\ pc[r] = "sent" /\ "unrecorded" \in Outcomes
  /\ Unrecorded(r)
  /\ Goto(r, "idle")
  /\ UNCHANGED <<host, elapsed, healthy>>

\* A 2xx or 3xx answer to the HTTP fetcher.
AnswerSuccess(r) ==
  /\ pc[r] = "sent" /\ "success" \in Outcomes /\ healthy
  /\ RecordSuccess(r)
  /\ Goto(r, "idle")
  /\ UNCHANGED healthy

\* A 5xx answer to the HTTP fetcher, or an error.
AnswerFailure(r) ==
  /\ pc[r] = "sent" /\ "failure" \in Outcomes /\ ~healthy
  /\ RecordFailure(r)
  /\ Goto(r, "idle")
  /\ UNCHANGED healthy

Answer(r) == AnswerSuccess(r) \/ AnswerFailure(r) \/ AnswerUnrecorded(r)

Fetch(r) == Ask(r) \/ Send(r) \/ Answer(r)

HostChanges ==
  /\ healthy' = ~healthy
  /\ UNCHANGED <<host, elapsed, pc, period>>

Next ==
  \/ \E r \in Request : Fetch(r) \/ GiveUp(r)
  \/ Elapse \/ Reset \/ HostChanges

Spec == Init /\ [][Next]_vars

-----------------------------------------------------------------------------
(* Properties *)

\* What the entry and the fetches under way have to do with each other: probes
\* exist only in a half-open period, each has a slot, and the period ends with
\* the success that reaches the threshold.
Periods ==
  /\ ~known => state = "closed"
  /\ state # "halfOpen" => probes = {} /\ leaked = 0
  /\ state = "halfOpen" =>
       successCount < SuccessThreshold /\ leaked + Cardinality(probes) <= halfOpenRequests

\* A host that may still be broken is spared: no half-open period ever has more
\* fetches under way than HalfOpenMaxRequests, whatever late answers to earlier
\* fetches do to the counters in between.
ProbeLimit == Cardinality(probes) <= HalfOpenMaxRequests

\* Every slot taken is a fetch under way, a success that was counted, or one
\* that ended without a record.
SlotsAccounted ==
  state = "halfOpen" => halfOpenRequests <= successCount + leaked + Cardinality(probes)

Refusing == state = "halfOpen" /\ halfOpenRequests >= HalfOpenMaxRequests

\* "StateHalfOpen is a testing state to check if the service has recovered": the
\* test ends.  When its slots are all taken, so that Allow refuses everybody, a
\* probe whose answer may end the period is still under way.
NoLockout == Refusing => probes # {}

\* The only cause of a test that never ends is a probe whose result nobody
\* recorded: late answers, resets and refused fetches never use a slot up.
LockoutNeedsLeak == Refusing => probes # {} \/ leaked > 0

\* A host that has recovered for good is in the end used without restriction,
\* however often its circuit opened before, if from some time on every probe has
\* its result recorded.
Recovers == <>[](healthy /\ leaked = 0) => <>[](state = "closed")
=============================================================================
