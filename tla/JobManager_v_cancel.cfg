\* A cancellation that races with the end of the run.
SPECIFICATION Spec
CONSTANTS
  a = a
  b = b
  c = c
  d = d
  Job = {a, b}
  Worker = {w1, w2}
  Caller = {k1}
  None = None
  Deps <- Pair
  QueueCap = 4
  Outcomes = {"ok", "runError"}
  Deletable = {}
  CanStop = FALSE
  MaxFaults = 0
  MaxRestarts = 0
SYMMETRY WorkerSymmetry
PROPERTY TerminalIsFinal
\* An idle server with nothing to do is a legal final state.
CHECK_DEADLOCK FALSE
