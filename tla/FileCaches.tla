---------------------------- MODULE FileCaches -----------------------------
(***************************************************************************)
(* What a process keeps in memory of a JSON collection, beside the file:   *)
(* the schedules of the interval scheduler, which a goroutine loads again  *)
(* when the file changes and every five seconds; the export schedules of   *)
(* the export trigger, which the handlers of the API tell what they have   *)
(* saved; the render profiles of a fetcher, which looks at the file's      *)
(* modification time before each fetch.                                    *)
(***************************************************************************)
EXTENDS JsonFile

CONSTANTS Ticker    \* the client that is the interval scheduler

ASSUME TickerAssumption == Ticker \in Client

VARIABLES
  cache,      \* the entries in memory
  seen,       \* lastModTime
  reading,    \* a load under way: what was read, and of which version
  outside,    \* history: keys that a process other than the server saved last
  crossed     \* history: the cache was given something older than it had or could have

cacheVars == <<cache, seen, reading, outside, crossed>>

Cached == {"schedules", "exports", "profiles"}
NotReading == [image |-> Torn, version |-> 0]

CacheTypeOK ==
  /\ cache \in Image
  /\ seen \in 0 .. Cardinality(Client)
  /\ reading \in [image : Image \cup {Torn}, version : 0 .. Cardinality(Client)]
  /\ outside \subseteq Key
  /\ crossed \in BOOLEAN

\* NewCachedScheduler, ExportTrigger.Start and NewRenderProfileStore load the
\* file.
CacheInit ==
  /\ cache = file /\ seen = version /\ reading = NotReading
  /\ outside = {} /\ crossed = FALSE

-----------------------------------------------------------------------------
(* The file is read again                                                  *)

\* reloadLoop: a tick of five seconds, or an event of the file watcher.  A file
\* that does not parse is logged.
ReadSchedules ==
  /\ collection = "schedules" /\ reading = NotReading /\ file # Torn
  /\ reading' = [image |-> file, version |-> 0]
  /\ UNCHANGED <<fileVars, cache, seen, outside, crossed>>

\* The next run of a schedule goes back in time.
MovesBack(image) ==
  \E k \in Key : image[k].by = cache[k].by /\ image[k].due < cache[k].due

\* loadSchedules takes the lock only now.
StoreSchedules ==
  /\ collection = "schedules" /\ reading # NotReading
  /\ cache' = reading.image /\ reading' = NotReading
  /\ crossed' = (crossed \/ MovesBack(reading.image))
  /\ UNCHANGED <<fileVars, seen, outside>>

\* ReloadIfChanged compares the modification times; Reload reads the file ...
ReadProfiles ==
  /\ collection = "profiles" /\ reading = NotReading /\ seen # version
  /\ reading' = [image |-> file, version |-> version]
  /\ UNCHANGED <<fileVars, cache, seen, outside, crossed>>

\* ... and asks for its modification time afterwards.  A save in between gives
\* old entries the new time: they stay until the next save.
StoreProfiles ==
  /\ collection = "profiles" /\ reading # NotReading
  /\ cache' = reading.image /\ seen' = version /\ reading' = NotReading
  /\ crossed' = (reading.version # version)
  /\ UNCHANGED <<fileVars, outside>>

Reload == ReadSchedules \/ StoreSchedules \/ ReadProfiles \/ StoreProfiles

-----------------------------------------------------------------------------
(* The trigger is told                                                     *)

\* AddSchedule, UpdateSchedule, RemoveSchedule.  Another save may have come in
\* between, and its teller may have been faster.
TellTrigger(c) ==
  /\ span[c].at = "saved" /\ Tells(c)
  /\ cache' = [cache EXCEPT ![span[c].key] = span[c].image[span[c].key]]
  /\ span' = [span EXCEPT ![c] = Over]
  /\ outside' = outside \ {span[c].key}
  /\ crossed' = (crossed \/ span[c].stale)
  /\ UNCHANGED <<collection, server, file, version, latest, raced, failures, now,
                 seen, reading>>

\* Nobody tells the trigger about what another process has saved.
TellNobody(c) ==
  /\ outside' = IF collection = "exports" THEN outside \cup {span[c].key} ELSE outside
  /\ Finish(c)
  /\ UNCHANGED <<cache, seen, reading, crossed>>

-----------------------------------------------------------------------------
(* Properties                                                              *)

\* What is in memory is what is in the file, unless the file does not parse, or
\* something older was put over something newer.  The trigger knows nothing of
\* what other processes save.
CacheCurrent ==
  \/ file = Torn \/ crossed \/ raced
  \/ collection = "exports" /\ \A k \in Key \ outside : cache[k].by = file[k].by
  \/ collection # "exports" /\ \A k \in Key : cache[k] = file[k]
  \/ collection \notin Cached
=============================================================================
