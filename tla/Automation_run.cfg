SPECIFICATION Spec
\* Every request, check and connection of a small instance comes to its end.
CHECK_DEADLOCK FALSE
CONSTANTS
  Key = {k1, k2}
  Client = {o1, o2, ticker}
  Operator = {o1, o2}
  Ticker = ticker
  MaxTime = 1
  MaxFailures = 1
  Initial = initial
  Nobody = nobody
  Torn = Torn
  Watch = {w1, w2}
  Url = {u1}
  UrlOf <- OneUrl
  Checker = {g1, g2}
  MaxChanges = 1
  MaxLapses = 1
  NoWatch = NoWatch
  NoContent = NoContent
  Conn = {ws1, ws2}
  SendCapacity = 1
  BroadcastCapacity = 1
  MaxMessages = 3
  LastRow = 4
  QueueCap = 1
  MaxFaults = 1
  Cleaner = {cleaner}
  PageSize = 2
  MaxJobs = 1
  MaxRoom = 1
  BatchSize = 2
  Node = {v1, v2, v3, v4}
  MaxEdges = 4
INVARIANTS
  AutomationTypeOK
  FilesSound
  FiresOnce
  ReportedOnce
  CleanupSound
  VerdictSound
  ChainsSound
PROPERTIES
  AutomationSettles
