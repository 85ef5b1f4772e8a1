------------------------- MODULE IntervalScheduler --------------------------
(***************************************************************************)
(* The interval scheduler (scheduler.Run): once a second it takes a copy   *)
(* of the schedules in memory, submits a job for each one that is due,     *)
(* moves those to their next run, saves the copy as the whole file, and    *)
(* puts it back into memory if that worked.                                *)
(*                                                                         *)
(* EndTick is preceded by a faulty variant that no action uses: with it in *)
(* place a property must fail.                                             *)
(***************************************************************************)
EXTENDS FileCaches

VARIABLES
  fired,      \* history: the times, entries as they were, that have a job in the store
  unqueued,   \* history: those with a job that the queue refused
  refired     \* history: those with two jobs

tickVars == <<fired, unqueued, refired>>

Time == Key \X Entry

TickTypeOK ==
  /\ fired \subseteq Time /\ unqueued \subseteq Time /\ refired \subseteq Time

TickInit == fired = {} /\ unqueued = {} /\ refired = {}

\* The schedules whose time has come.
DueNow(k) == Has(cache, k) /\ cache[k].due <= now

Advanced(keys) ==
  [k \in Key |-> IF k \in keys THEN [cache[k] EXCEPT !.due = now + 1] ELSE cache[k]]

\* The jobs for some schedules are stored, those of the keys in full in vain: the
\* queue has no place for them.
Submit(keys, full) ==
  LET times(K) == {<<k, cache[k]>> : k \in K} IN
  /\ fired' = fired \cup times(keys)
  /\ unqueued' = unqueued \cup times(full)
  /\ refired' = refired \cup (fired \cap times(keys))

\* One tick, up to the save.  Whether a job can be created and enqueued depends
\* on the manager; a schedule whose job cannot stays due, and gets another one in
\* the next tick even if the first was stored.  A job that the queue refused is
\* found and enqueued when the manager starts again.
Tick ==
  /\ collection = "schedules"
  /\ \E keys \in SUBSET {k \in Key : DueNow(k)} \ {{}}, full \in SUBSET Key :
       /\ full \subseteq keys /\ Submit(keys, full)
       /\ IF full = keys THEN span[Ticker].at = "idle" /\ UNCHANGED fileVars
          ELSE LoadCopy(Ticker, "all", Advanced(keys \ full))
  /\ UNCHANGED cacheVars

\* SaveAll worked: the copy goes into memory.  If it did not, memory keeps the
\* old next runs.
EndTickForgetful ==
  /\ span[Ticker].at \in {"saved", "done"}
  /\ span' = [span EXCEPT ![Ticker] = NoSpan]
  /\ UNCHANGED <<collection, server, file, version, latest, raced, failures, now,
                 cacheVars, tickVars>>

EndTick ==
  /\ span[Ticker].at \in {"saved", "done"}
  /\ cache' = IF span[Ticker].at = "saved" THEN span[Ticker].image ELSE cache
  /\ span' = [span EXCEPT ![Ticker] = NoSpan]
  /\ UNCHANGED <<collection, server, file, version, latest, raced, failures, now,
                 seen, reading, outside, crossed, tickVars>>

\* The server dies and starts again; a file that does not parse keeps the
\* scheduler from starting.
RestartScheduler ==
  /\ collection = "schedules" /\ Failure /\ file # Torn
  /\ span' = [span EXCEPT ![Ticker] = NoSpan]
  /\ cache' = file /\ reading' = NotReading
  /\ UNCHANGED <<collection, server, file, version, latest, raced, now,
                 seen, outside, crossed, tickVars>>

TimePasses ==
  /\ collection = "schedules" /\ now < MaxTime /\ now' = now + 1
  /\ UNCHANGED <<collection, server, file, version, span, latest, raced, failures,
                 cacheVars, tickVars>>

-----------------------------------------------------------------------------
(* Properties                                                              *)

\* A schedule does not submit two jobs for one of its times, unless the queue
\* refused one of them, which stays in the store and is run after the next start
\* (enqueue in scheduler.go, Enqueue and recoverQueuedJobs in manager.go), a save
\* failed or the server died before it, an image was saved over a newer one, or
\* a load that began before the save ended after it.
FiresOnce == refired \subseteq unqueued \/ failures > 0 \/ raced \/ crossed
=============================================================================
