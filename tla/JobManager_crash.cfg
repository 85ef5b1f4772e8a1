\* Crashes and restarts, at any point, with a queue too short to recover all.
SPECIFICATION FairSpec
CONSTANTS
  a = a
  b = b
  c = c
  d = d
  Job = {a, b, c}
  Worker = {w1, w2}
  Caller = {}
  None = None
  Deps <- Fork
  QueueCap = 1
  Outcomes = {"ok", "runError", "decodeError", "setupError", "writeError"}
  Deletable = {}
  CanStop = TRUE
  MaxFaults = 0
  MaxRestarts = 2
INVARIANT TypeOK
INVARIANT NoLostReadyJob
INVARIANT OutcomeAnnounced
PROPERTY ShutdownCompletes
PROPERTY NeverRerun
PROPERTY ImplementsContract
\* An idle server with nothing to do is a legal final state.
CHECK_DEADLOCK FALSE
