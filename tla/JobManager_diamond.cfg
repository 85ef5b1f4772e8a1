\* Every order of events in a diamond, and what is left when all is at rest.
SPECIFICATION FairSpec
CONSTANTS
  a = a
  b = b
  c = c
  d = d
  Job = {a, b, c, d}
  Worker = {w1, w2}
  Caller = {}
  None = None
  Deps <- Diamond
  QueueCap = 4
  Outcomes = {"ok", "runError", "decodeError"}
  Deletable = {}
  CanStop = FALSE
  MaxFaults = 0
  MaxRestarts = 0
INVARIANT Clearance
INVARIANT FailurePropagates
INVARIANT SuccessReleases
PROPERTY ChainSettles
\* An idle server with nothing to do is a legal final state.
CHECK_DEADLOCK FALSE
