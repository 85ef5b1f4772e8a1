\* Two deliveries, one that is waited for, over two workers and a queue of one
\* place; one schedule, a job that may complete twice, and an operator's export
\* beside it.  One crash or one failed write.
SPECIFICATION DeliverySpec
CONSTANTS
  Delivery = {d1, d2}
  Sync = {d1}
  Cancelable = {d1}
  Workers = {w1, w2}
  QueueCapacity = 1
  MaxRetries = 2
  MaxFaults = 1
  NoDelivery = NoDelivery
  NoRecord = NoRecord
  NoImage = NoImage
  TornFile = TornFile
  Job = {j1}
  Schedule = {s1}
  Export = {e1, e2}
  DirectExport = {x1}
  EventCapacity = 1
  MaxExportRetries = 1
  MaxEvents = 2
  MaxMishaps = 1
  NoExport = NoExport
  Absent = Absent
INVARIANT DeliveryTypeOK
INVARIANT RecordsSound
INVARIANT NoLateDuplicate
INVARIANT BlockedOnlyByFault
PROPERTY KeepsContract
PROPERTY DeliverySettles
\* Everything comes to rest when all has been delivered.
CHECK_DEADLOCK FALSE
