\* Two fetches with a retry each, in every engine and either headless setting, of a host that goes down and
\* comes back at will; four fetches of CircuitBreaker; a proxy that fails and
\* recovers, with overlapping checks and two fetches that use it.
SPECIFICATION MCSpec
CONSTANTS
  Request = {r1, r2}
  HostRequest = {r1, r2, r3, r4}
  FailureThreshold = 2
  SuccessThreshold = 2
  HalfOpenMaxRequests = 2
  Outcomes = {"success", "failure", "unrecorded", "canceled"}
  EnginesOf <- SomeEngines
  HeadlessOf <- SomeHeadless
  MaxRetries = 1
  MaxCooldown = 2
  Check = {c1, c2}
  User = {u1, u2}
  MaxFails = 2
INVARIANT FetchingTypeOK
INVARIANT ProbeLimit
INVARIANT LockoutNeedsLeak
PROPERTY FetchersSound
PROPERTY Recovers
PROPERTY FetchesSettle
