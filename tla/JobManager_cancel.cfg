\* A caller cancels and an operator deletes while two workers run, one store
\* statement fails and the server may shut down, or crash and start again.
SPECIFICATION Spec
CONSTANTS
  a = a
  b = b
  c = c
  d = d
  Job = {a, b}
  Worker = {w1, w2}
  Caller = {k1}
  None = None
  Deps <- Pair
  QueueCap = 2
  Outcomes = {"ok", "runError", "decodeError", "setupError", "writeError"}
  Deletable = {a, b}
  CanStop = TRUE
  MaxFaults = 1
  MaxRestarts = 1
SYMMETRY WorkerSymmetry
INVARIANT NoLostReadyJob
INVARIANT RegistryExact
INVARIANT SingleCustody
\* An idle server with nothing to do is a legal final state.
CHECK_DEADLOCK FALSE
