\* Some answers are not recorded: 304, 4xx, browser fetches.
SPECIFICATION Spec
CONSTANTS
  Request = {r1, r2}
  FailureThreshold = 2
  SuccessThreshold = 2
  HalfOpenMaxRequests = 2
  Outcomes = {"success", "failure", "unrecorded"}
SYMMETRY RequestSymmetry
INVARIANT NoLockout
