\* A job that completes twice, and a schedule.
SPECIFICATION TriggerSpec
CONSTANTS
  Job = {j1}
  Schedule = {s1}
  Export = {e1, e2}
  DirectExport = {}
  EventCapacity = 2
  MaxExportRetries = 1
  MaxEvents = 2
  MaxMishaps = 0
  NoExport = NoExport
  Absent = Absent
INVARIANT NoDuplicateExport
CHECK_DEADLOCK FALSE
