--------------------------- MODULE ExportTrigger ----------------------------
(***************************************************************************)
(* The export trigger, its schedules and the export history                *)
(* (internal/scheduler).  Completed jobs arrive on a bounded channel that  *)
(* drops what does not fit; for each schedule that matches, a goroutine    *)
(* exports the results, with retries, and keeps one record of it in the    *)
(* history file.  The API and the command line export too: they write the  *)
(* same file through a store, and a mutex, of their own.                   *)
(*                                                                         *)
(* A webhook export is a synchronous delivery, of which only               *)
(* DeliveryContract is known: WebhookDispatcher implements it.             *)
(***************************************************************************)
EXTENDS Naturals, FiniteSets, Sequences

CONSTANTS
  Job, Schedule,
  Export,               \* identifiers of export goroutines and their records
  DirectExport,         \* identifiers of exports asked for by an operator
  EventCapacity,        \* of eventCh, 128 in the code
  MaxExportRetries,     \* schedule.Retry.GetMaxRetries
  MaxEvents,            \* bound on the completion events of one job
  MaxMishaps,           \* bound on the crashes and failed writes explored
  NoExport, Absent

ASSUME TriggerAssumption ==
  /\ Export \cap DirectExport = {} /\ NoExport \notin Export \cup DirectExport
  /\ Absent \notin Job \cup {"pending", "succeeded", "failed"}
  /\ EventCapacity \in Nat \ {0} /\ MaxExportRetries \in Nat \ {0}
  /\ MaxEvents \in Nat /\ MaxMishaps \in Nat

VARIABLES
  published,  \* how many completion events the manager published, by job
  eventCh,    \* et.eventCh
  todo,       \* processEvents: the schedules still to be looked at, and the job
  export,     \* the export goroutines: at, job, schedule, retries, step of the history
  history,    \* export_history.json: the status of each record
  instance,   \* who is between load and save in each of the two stores
  stopping,   \* ExportTrigger.Stop: "running", "stopping", "stopped"
  mishaps,    \* crashes and failed writes so far
  overlapped, \* history: a store was used while the other one was between load and save
  torn,       \* the file was left truncated by a write that did not end
  racing      \* history: exports that began while another one of their job and
              \* schedule was under way

env == <<mishaps, overlapped, torn, racing>>
triggerVars == <<published, eventCh, todo, export, history, instance, stopping, env>>

AllExports == Export \cup DirectExport
Histories == [AllExports -> {"pending", "succeeded", "failed", Absent}]
Stores == {"trigger", "direct"}
StoreOf(e) == IF e \in DirectExport THEN "direct" ELSE "trigger"
Free == [owner |-> NoExport, image |-> Absent]
NoTodo == [job |-> Absent, left |-> {}]
NewExport == [at |-> "none", job |-> Absent, schedule |-> Absent, retries |-> 0]

ExportStates ==
  [at : {"none", "create", "attempt", "succeed", "fail", "increment", "delay", "done"},
   job : Job \cup {Absent}, schedule : Schedule \cup {Absent},
   retries : 0 .. MaxExportRetries]
StoreStates == [owner : AllExports \cup {NoExport}, image : Histories \cup {Absent}]

TriggerTypeOK ==
  /\ published \in [Job -> 0 .. MaxEvents]
  /\ eventCh \in Seq(Job) /\ Len(eventCh) <= EventCapacity
  /\ todo \in [job : Job \cup {Absent}, left : SUBSET Schedule]
  /\ export \in [AllExports -> ExportStates]
  /\ history \in Histories
  /\ instance \in [Stores -> StoreStates]
  /\ stopping \in {"running", "stopping", "stopped"}
  /\ mishaps \subseteq {"crash", "disk"} /\ Cardinality(mishaps) <= MaxMishaps
  /\ overlapped \in BOOLEAN /\ torn \in BOOLEAN
  /\ racing \subseteq Export

TriggerInit ==
  /\ published = [j \in Job |-> 0]
  /\ eventCh = <<>> /\ todo = NoTodo
  /\ export = [e \in AllExports |-> NewExport]
  /\ history = [e \in AllExports |-> Absent]
  /\ instance = [s \in Stores |-> Free]
  /\ stopping = "running"
  /\ mishaps = {} /\ overlapped = FALSE /\ torn = FALSE /\ racing = {}

Mishap(kind) ==
  /\ kind \notin mishaps /\ Cardinality(mishaps) < MaxMishaps
  /\ mishaps' = mishaps \cup {kind}

Stopped == stopping # "running"

-----------------------------------------------------------------------------
(* Events                                                                  *)
(*                                                                         *)
(* Some operators are preceded by a faulty variant of themselves that no   *)
(* action uses: with the variant in its place, a property must fail.       *)

\* Manager.publishEvent calls HandleJobEvent with a completed job.  A job may
\* complete twice: a join that two dependencies start or fail.  A full channel
\* or a stopped trigger drops the event.
HandleJobEvent(j) ==
  /\ published[j] < MaxEvents
  /\ published' = [published EXCEPT ![j] = @ + 1]
  /\ \/ Len(eventCh) < EventCapacity /\ eventCh' = Append(eventCh, j)
     \/ (Len(eventCh) = EventCapacity \/ Stopped) /\ UNCHANGED eventCh
  /\ UNCHANGED <<todo, export, history, instance, stopping, env>>

\* processEvents takes an event and copies the schedules.
ProcessEvent ==
  /\ todo.job = Absent /\ stopping # "stopped" /\ eventCh # <<>>
  /\ todo' = [job |-> Head(eventCh), left |-> Schedule]
  /\ eventCh' = Tail(eventCh)
  /\ UNCHANGED <<published, export, history, instance, stopping, env>>

Of(s, j) == {e \in Export : export[e].schedule = s /\ export[e].job = j}
Live(e) == export[e].at \notin {"none", "done"}

\* HasExported reads the file under the read lock of the trigger's store.
HasExportedNever(s, j) == FALSE
HasExported(s, j) == \E e \in Of(s, j) : history[e] \in {"pending", "succeeded"}

\* The file cannot be parsed: it is torn, or the other store is writing it.
OtherAtWork(store) == \E s \in Stores \ {store} : instance[s].owner # NoExport
Unreadable(store) == torn \/ OtherAtWork(store)

NextExport == CHOOSE e \in Export : export[e].at = "none"

Launch(s, j) ==
  /\ \E e \in Export : export[e].at = "none"
  /\ export' = [export EXCEPT ![NextExport] =
       [at |-> "create", job |-> j, schedule |-> s, retries |-> 0]]
  /\ racing' = racing \cup {e \in {NextExport} : \E f \in Of(s, j) : Live(f)}

\* handleJobEvent, one schedule: it is disabled or does not match, the export
\* exists already, or a goroutine is started.  HasExported says no when it
\* cannot read the file.
Consider(s) ==
  /\ s \in todo.left /\ instance["trigger"].owner = NoExport
  /\ todo' = [todo EXCEPT !.left = @ \ {s}]
  /\ \/ UNCHANGED <<export, racing, overlapped>>
     \/ /\ ~HasExported(s, todo.job) /\ ~torn
        /\ Launch(s, todo.job) /\ UNCHANGED overlapped
     \/ /\ Unreadable("trigger")
        /\ Launch(s, todo.job) /\ overlapped' = (overlapped \/ OtherAtWork("trigger"))
  /\ UNCHANGED <<published, eventCh, history, instance, stopping, mishaps, torn>>

EndEvent ==
  /\ todo.job # Absent /\ todo.left = {}
  /\ todo' = NoTodo
  /\ UNCHANGED <<published, eventCh, export, history, instance, stopping, env>>

-----------------------------------------------------------------------------
(* The history: load, modify and save under the mutex of one store         *)

Writes(e) == e \in AllExports /\ export[e].at \in {"create", "succeed", "fail", "increment"}

Load(e) ==
  /\ Writes(e) /\ instance[StoreOf(e)].owner = NoExport /\ ~torn
  /\ instance' = [instance EXCEPT ![StoreOf(e)] = [owner |-> e, image |-> history]]
  /\ overlapped' = (overlapped \/ OtherAtWork(StoreOf(e)))
  /\ UNCHANGED <<published, eventCh, todo, export, history, stopping, mishaps, torn, racing>>

\* What the step writes, and whether the record is there to be changed.
StatusOf == [create |-> "pending", succeed |-> "succeeded", fail |-> "failed"]
Edited(e, image) ==
  IF export[e].at = "increment" THEN image
  ELSE [image EXCEPT ![e] = StatusOf[export[e].at]]
Found(e, image) == export[e].at = "create" \/ image[e] # Absent

\* Where the goroutine goes after the step.  An operator's export does not
\* retry; a record that cannot be created ends the export; a success that
\* cannot be recorded is a failure; a failure that cannot is only logged.
RetryAgain(e) ==
  IF e \in Export /\ export[e].retries < MaxExportRetries + 1 THEN "increment" ELSE "done"

Retry(e) ==
  IF e \in Export /\ export[e].retries < MaxExportRetries THEN "increment" ELSE "done"

AfterStep(e, ok) ==
  CASE export[e].at = "create" -> IF ok THEN "attempt" ELSE "done"
    [] export[e].at = "succeed" -> IF ok \/ e \in DirectExport THEN "done" ELSE "fail"
    [] export[e].at = "fail" -> Retry(e)
    [] export[e].at = "increment" -> "delay"

GoOn(e, ok) ==
  export' = [export EXCEPT ![e].at = AfterStep(e, ok),
               ![e].retries = IF AfterStep(e, ok) = "increment" THEN @ + 1 ELSE @]

LoadFails(e) ==
  /\ Writes(e) /\ instance[StoreOf(e)].owner = NoExport /\ Unreadable(StoreOf(e))
  /\ GoOn(e, FALSE)
  /\ overlapped' = (overlapped \/ OtherAtWork(StoreOf(e)))
  /\ UNCHANGED <<published, eventCh, todo, history, instance, stopping, mishaps, torn, racing>>

Save(e, ok) ==
  /\ instance[StoreOf(e)].owner = e
  /\ instance' = [instance EXCEPT ![StoreOf(e)] = Free]
  /\ GoOn(e, ok)

Commit(e) ==
  LET image == instance[StoreOf(e)].image IN
  /\ instance[StoreOf(e)].owner = e
  /\ Save(e, Found(e, image))
  /\ history' = IF Found(e, image) THEN Edited(e, image) ELSE history
  /\ torn' = (torn /\ ~Found(e, image))
  /\ UNCHANGED <<published, eventCh, todo, stopping, mishaps, overlapped, racing>>

\* os.WriteFile truncates the file before it writes it.
CommitFails(e) ==
  /\ instance[StoreOf(e)].owner = e /\ Mishap("disk")
  /\ Save(e, FALSE)
  /\ torn' \in {torn, TRUE}
  /\ UNCHANGED <<published, eventCh, todo, history, stopping, overlapped, racing>>

-----------------------------------------------------------------------------
(* The exports                                                             *)

\* destinationForSchedule fails: no record at all.
NoDestination(e) ==
  /\ e \in Export /\ export[e].at = "create" /\ instance["trigger"].owner # e
  /\ export' = [export EXCEPT ![e].at = "done"]
  /\ UNCHANGED <<published, eventCh, todo, history, instance, stopping, env>>

\* exportToLocal, exportToWebhook: read, render, and write or deliver.  What
\* DeliveryContract allows: "ok" for a delivery that was received, an error
\* for one that was not, or was all the same.
AttemptUnmarked(e) ==
  /\ export[e].at = "attempt"
  /\ \E verdict \in {"succeed", "done"} : export' = [export EXCEPT ![e].at = verdict]
  /\ UNCHANGED <<published, eventCh, todo, history, instance, stopping, env>>

Attempt(e) ==
  /\ export[e].at = "attempt"
  /\ \E verdict \in {"succeed", "fail"} : export' = [export EXCEPT ![e].at = verdict]
  /\ UNCHANGED <<published, eventCh, todo, history, instance, stopping, env>>

\* retryExport: the delay ends, or the context does.
Delay(e) ==
  /\ export[e].at = "delay"
  /\ \/ export' = [export EXCEPT ![e].at = "attempt"]
     \/ Stopped /\ export' = [export EXCEPT ![e].at = "done"]
  /\ UNCHANGED <<published, eventCh, todo, history, instance, stopping, env>>

\* An operator exports.  A request that is refused leaves no record; one that
\* is served takes the steps above, through a store of its own, with the
\* results read after the record is created.
DirectRequest(e) ==
  /\ export[e].at = "none" /\ instance["direct"].owner = NoExport
  /\ \E at \in {"create", "done"} : export' = [export EXCEPT ![e].at = at]
  /\ UNCHANGED <<published, eventCh, todo, history, instance, stopping, env>>

\* The API, the command line and MCP.
HandleJobExport(e) == DirectRequest(e)
RunExport(e) == DirectRequest(e)
HandleJobExportTool(e) == DirectRequest(e)

-----------------------------------------------------------------------------
Stop ==
  /\ stopping = "running" /\ stopping' = "stopping"
  /\ UNCHANGED <<published, eventCh, todo, export, history, instance, env>>

\* et.wg.Wait: the event loop and the exports it started.
StopReturns ==
  /\ stopping = "stopping" /\ todo = NoTodo
  /\ \A e \in Export : export[e].at \in {"none", "done"}
  /\ stopping' = "stopped"
  /\ UNCHANGED <<published, eventCh, todo, export, history, instance, env>>

\* The server dies and starts again: the file stays, torn if it was being
\* written, the goroutines do not, and no event is published a second time.
CrashTrigger ==
  /\ Mishap("crash") /\ stopping # "stopped"
  /\ eventCh' = <<>> /\ todo' = NoTodo
  /\ export' = [e \in AllExports |->
       IF export[e].at = "none" THEN export[e] ELSE [export[e] EXCEPT !.at = "done"]]
  /\ instance' = [s \in Stores |-> Free]
  /\ torn' \in {torn, torn \/ \E s \in Stores : instance[s].owner # NoExport}
  /\ stopping' = "running"
  /\ UNCHANGED <<published, history, overlapped, racing>>

-----------------------------------------------------------------------------
Goroutine(e) ==
  \/ Load(e) \/ LoadFails(e) \/ Commit(e) \/ CommitFails(e) \/ NoDestination(e)
  \/ Attempt(e) \/ Delay(e)

EventLoop == ProcessEvent \/ EndEvent \/ \E s \in Schedule : Consider(s)

TriggerNext ==
  \/ \E j \in Job : HandleJobEvent(j)
  \/ EventLoop
  \/ \E e \in AllExports : Goroutine(e)
  \/ \E e \in DirectExport :
       HandleJobExport(e) \/ RunExport(e) \/ HandleJobExportTool(e)
  \/ Stop \/ StopReturns \/ CrashTrigger

TriggerSpec == TriggerInit /\ [][TriggerNext]_triggerVars

\* Goroutines are scheduled, delays and deliveries end.
TriggerFairness ==
  /\ \A e \in AllExports : WF_triggerVars(Goroutine(e))
  /\ WF_triggerVars(EventLoop) /\ WF_triggerVars(StopReturns)

-----------------------------------------------------------------------------
(* Properties                                                              *)

\* A job that completes again is exported again by a schedule only if the first
\* export is still under way: it has no record yet, or its last attempt failed
\* and it is to be tried again.  An export that has ended well is never repeated,
\* however late the next event comes, unless the history was lost or misread
\* (handleJobEvent, HasExported, executeExport, retryExport).
NoLateDuplicate ==
  \A s \in Schedule, j \in Job : \A e, f \in Of(s, j) :
    e # f /\ history[e] = "succeeded" /\ history[f] = "succeeded"
      => e \in racing \/ f \in racing \/ mishaps # {} \/ overlapped

\* Two successful exports of one job by one schedule are what the trigger's
\* duplicate detection is there to prevent.
NoDuplicateExport ==
  \A s \in Schedule, j \in Job :
    Cardinality({e \in Of(s, j) : history[e] = "succeeded"}) <= 1

\* A pending record suppresses every later export of its job.  That record is
\* being worked on, unless a crash or a failed write left it behind or the
\* other store wrote an older history over a newer one: no path through an
\* export ends without settling its record.
BlockedOnlyByFault ==
  \A e \in AllExports :
    history[e] = "pending" /\ ~Live(e) => mishaps # {} \/ overlapped

\* Every export that was started comes to its end, the event loop gets through
\* the schedules of an event, and Stop returns: events are finite here, so all
\* is quiet in the end.
TriggerSettles ==
  <>[](/\ \A e \in AllExports : ~Live(e)
       /\ todo = NoTodo /\ stopping # "stopping")
=============================================================================
