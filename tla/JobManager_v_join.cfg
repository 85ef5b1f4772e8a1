\* Two dependencies of one job succeed at the same time.
SPECIFICATION Spec
CONSTANTS
  a = a
  b = b
  c = c
  d = d
  Job = {a, b, c}
  Worker = {w1, w2}
  Caller = {}
  None = None
  Deps <- Join
  QueueCap = 4
  Outcomes = {"ok", "runError"}
  Deletable = {}
  CanStop = FALSE
  MaxFaults = 0
  MaxRestarts = 0
SYMMETRY WorkerSymmetry
PROPERTY NeverRerun
\* An idle server with nothing to do is a legal final state.
CHECK_DEADLOCK FALSE
