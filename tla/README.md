# Verification of Spartan Scraper

TLA+ models of the concurrent core of Spartan Scraper, checked with TLC on small
instances, and theorems about them checked with TLAPS for every value of the
constants. `PROJECT.json` lists the components, runs, mutants, findings, hazards
and theorems, and maps every definition that models code to the lines it models.

    tlc -config JobManager_crash.cfg MCJobManager     # one run
    tlapm JobManagerProofs.tla                         # the proofs of a module

## 1. Inventory

Spartan Scraper is one Go program: a REST/CLI/MCP front end submits jobs (scrape,
crawl, research) to a job manager, whose workers fetch and extract pages and
write results; schedulers submit jobs on their own; webhooks and export triggers
follow the events of the job manager. The server, the command line and the MCP
server are processes of their own that share one data directory.

| Component (under `src/internal`) | State it keeps | Operations | What makes it hard, and what correct means |
|---|---|---|---|
| Job manager (`jobs`), jobs table (`store/store_jobs.go`) | rows (`status`, `dependency_status`), the queue channel, `activeJobs` | submit, run, cancel, resolve, fail dependents, recover, drain | No lock or transaction spans two accesses to the store. Jobs start only after their dependencies succeeded; each runs once; none is forgotten; failures propagate; shutdown ends |
| Circuit breaker (`fetch/circuit_breaker.go`) | per host: state, counters | Allow, RecordSuccess, RecordFailure, Reset | Answers come late or are never recorded. A broken host is spared, a healthy one is not locked out |
| Crawl orchestrator (`crawl/orchestrator.go`) | two channels, wait group, visited set, page counter | Run: enqueue, workers, closer, collector | Wait group against channels that are closed. Each page once, at most MaxPages, Run returns, nothing visited is lost |
| Webhook dispatcher and store (`webhook`) | queue, delivery records, JSON file | submit, deliver, retry, Close | submit against Close; records changed in place while a snapshot is saved; crash in a write. A caller is answered once and truly, records are settled, Close returns |
| Export trigger and history (`scheduler/export_*.go`) | event channel, history file | HandleJobEvent, execute, retry, Stop | Duplicate exports, dropped events, two stores on one file, crash between record and export |
| JSON collections (schedules, watches, export schedules, vault, tokens, templates, profiles, scripts, sessions, keys) | one file each | load, edit, save | Three processes edit the whole file without a common lock; a write may be torn. Edits are kept, files parse |
| Caches of those files (schedules, render profiles, API keys, the export trigger's schedules) | a copy in memory | reload by watcher, by modification time, by a call | A save between the read and the stamp. The copy follows the file |
| Interval scheduler (`scheduler/scheduler.go`) | cached schedules | tick, save, reload | Acts on a copy and saves it whole. Each time fires once |
| Watch scheduler (`watch`) | watches file, crawl states | runChecks, check by hand | Overlapping ticks, state read long before it is stored. A change is reported once |
| Retention (`retention`) | none | clean-up by age, count, size | Pages of a list that shrinks; rows still running. Deletes what is due, no more, and leaves no orphan |
| Batches (`jobs/manager_batch.go`, `model/batch.go`) | batch rows | submit, cancel, aggregate status | Half-enqueued batches; status after deletions. The status is true, and final in the end |
| WebSocket hub (`api/websocket.go`) | clients, their buffers | register, broadcast, quit | Unbuffered channels between the loop and two goroutines of each client. Who leaves is forgotten |
| Host limiter (`fetch/limiter.go`) | per host: tokens, rates, the end of the cooldown | Wait, RecordRateLimit, UpdateRateLimitInfo | The cooldown is read under the lock and waited for without it. Nobody is let through before the time it was told |
| Fetchers (`fetch/*_fetcher.go`) | attempts; one Playwright driver and browser per fetcher, under a mutex | Fetch, ensureInitialized, Close | Retries, escalation, a browser that crashes under several fetches. One browser, no driver leaked, every fetch returns |
| Proxy pool (`fetch/proxy_pool*.go`) | per proxy: health, consecutive failures | Select, RecordSuccess, RecordFailure, checkProxy | Overlapping checks that report late. A proxy is in the end known for what it is |
| Chain definitions (`model/chain.go`) | rows of chains | validate, submit, delete | Submission against deletion. Exactly the acyclic graphs are accepted; no jobs without their chain |
| Extraction, pipeline, exporters, captcha, AI, web UI | mostly none | sequential transformation and I/O | Left out: see section 8 |

How they interact. A worker of the job manager calls a fetcher or `crawl.Run`
synchronously; each fetch passes the host limiter, which asks the circuit breaker;
the worker writes rows of the store and publishes events to subscriber channels,
from which webhooks, export triggers, the WebSocket hub and metrics read. The
interval scheduler and the watch scheduler submit jobs like any caller. Callers
of the API and retention touch the same rows without going through the workers,
and every process edits the JSON collections that the schedulers act on.

## 2. The modules

| Module | What it is |
|---|---|
| `JobManager` | The manager, its workers, the chain submission, callers that cancel, deletion, shutdown, crash and restart |
| `ChainContract` | What a chain promises its submitter; `JobManager` implements it (`Contract`) |
| `JobManagerProofs` | Theorems about `JobManager`, the step simulation of `ChainContract` among them |
| `CircuitBreaker` | The breaker of one host, and the fetches that ask it and report to it |
| `CircuitBreakerProofs` | Theorems about `CircuitBreaker` |
| `Fetching` (extends `CircuitBreaker`) | The fetches in detail: engines, retries, cooldown, escalation, the shared browser. It implements `CircuitBreaker` |
| `FetchingProofs` (extends `MCFetching`, `CircuitBreakerProofs`) | Theorems about `Fetching`, the refinement among them, and the types of all that `MCFetching` composes |
| `ProxyPool` | One proxy: who selects it, reports on it and checks it |
| `CrawlOrchestrator` | One call of `crawl.Run`: caller, workers, closer |
| `CrawlOrchestratorProofs` | Theorems about `CrawlOrchestrator` |
| `WebhookDispatcher` | Callers, queue, workers, delivery records and their file, Close, crash |
| `WebhookDispatcherProofs` | Theorems about `WebhookDispatcher`, the step simulation of `DeliveryContract` among them |
| `DeliveryContract` | What a delivery promises its caller; `WebhookDispatcher` implements it, `ExportTrigger` relies on it |
| `ExportTrigger` | Events, duplicate suppression, export goroutines, the history file through two stores |
| `ExportTriggerProofs` (extends `MCDelivery`, `WebhookDispatcherProofs`) | Theorems about `ExportTrigger` and the composition `MCDelivery` |
| `JsonFile` | A collection in a JSON file and its clients: load, edit, save |
| `FrontEnds` (extends `JsonFile`) | Every request of the API, the command line and MCP that changes a collection |
| `FileCaches` (extends `JsonFile`) | What the server keeps in memory of a collection |
| `IntervalScheduler` (extends `FileCaches`) | The tick over `schedules.json` |
| `WatchScheduler` | Checks of watches, and what is known of a URL |
| `JobRows` | Rows and result directories as other components see them |
| `Retention`, `Batches` (extend `JobRows`) | A clean-up; a batch from submission to its final status |
| `WebSocketHub` | The event loop, and reader and writer of each connection |
| `ChainDefinition` | A chain definition: the search for cycles, storing, submission, deletion |
| `ChainDefinitionProofs` | Theorem about `ChainDefinition` |
| `AutomationProofs` (extends `MCAutomation`) | Theorems about the collections, schedulers, watches, batches, cleanups and the composition `MCAutomation` |
| `MC...` | Small instances: shapes of chains, a small site, symmetry; `MCFetching`, `MCDelivery` and `MCAutomation` put components side by side |

In the modules, some operators are preceded by a faulty variant that no action
uses (`EndedIsEnough`, `TakeSlotOffByOne`, `MarkForgotten`...). Put in the place
of the operator that follows, each makes a property fail; this shows that the
property depends on that piece of code.

### JobManager

A step is one access to something shared: a statement on the store, a receive or
send on the queue, a locked access to `activeJobs`. `pc[w]` says where worker `w`
is in `Manager.run`: `get` (is the row already terminal?), `mark` (write
`running`), `register` (store the cancel function), `exec` (the job itself, whose
outcome is one of `Outcomes`), then `succeed`/`fail`/`cancel`/`setupFail` (write
the final status), `resolve`... (`resolveDependencies` and `checkDependencies`),
`propagate`... (the recursion of `propagateFailure`, with one frame of `stack`
per level), and `cleanup` (the deferred unregistration). `status` and `dep` are
the columns of the table, `queue` the channel, `active` the map `activeJobs`,
`toCreate` and `toEnqueue` the progress of `SubmitChain`. `Snapshot` is a row that
a query returned, used after the table may have changed. A terminal status and its
event are two steps: `Finish` and `FailDependent` write the row and leave in
`saying[w]` what the worker is about to publish, and `Publish` publishes it; other
writers, or a crash, may come between them, and the worker does nothing else before
it. `told`, `silent`, `held` and `refused` are history: the outcome subscribers have
last heard of a job, the jobs whose outcome they will not hear of (a set-up that
failed, a process that died on it), the statuses a row has had, and the jobs left
behind: turned away by a full queue, inserted by a submission that failed later, or
run although the statement that marks them running failed, so that their rows may
stay queued.

Also part of the model: `StoreFault` (a statement fails: logged, and the code
goes on, as in `updateStatusWithEvent`), `DrainTimeout` (the 30 s context of the
drain), `CancelLookup`/`CancelRead`/`CancelWrite` (the three accesses of
`CancelJob`), `DeleteJob` (retention or an operator), `Shutdown`, and `Restart`
(a crash at any step, with the recovery of `recoverQueuedJobs`).

Not in it: the branch for an unknown job kind (`job_run.go:387`), which the
validation of specs keeps from being reached; panics of a run; batches, which are in
`Batches`; waiting contexts of single statements. Where the instance of a run has no
`setupError`, `FailurePropagates` holds; with it a dependent waits for ever.

### CircuitBreaker

Every method of the breaker holds its mutex, so each is one step. A fetch goes
`idle` - `Allow` - `waiting` (for the rate limiter) - `sent` - `idle`; between any
two of these others move. What comes back is recorded as a success or a failure,
or not at all: a 304, a 4xx, an oversized body and everything a browser fetcher
gets is not recorded, and neither is a wait whose context ended. `elapsed`
abstracts the clock: `ResetTimeout` has passed since the last failure.
`failureCount` stops at its threshold, above which no code tells values apart.
`healthy` says whether answers of the host are good, and changes at will.
`probes` and `leaked` are history: the fetches under way that the present half-open
period has let through, and how many of them ended without a record.

### Fetching and ProxyPool

`Fetching` has the variables of `CircuitBreaker` and those that it leaves out: `at[r]`
is where fetch `r` is in detail (`Place` says which place of `CircuitBreaker` that is),
`engine` and `attempt` its engine and its attempt there. It asks the breaker
(`AskBreaker`, `Refused`), reads the cooldown (`ReadCooldown`), waits and is let
through (`SendRequest`) or is given up (`StopWaiting`). On HTTP, what comes back is
recorded and then retried after a pause (`BackOff`), returned, or used: headers may
prolong the cooldown, and the adaptive fetcher may turn to a browser (`HttpUpdate`). A
429 sets the cooldown anew (`HttpRateLimited`). Time passes in ticks; `wait[r]` is what
is left of the cooldown that `r` found, `late` (history) are those who found one that
was prolonged afterwards.

Chromedp starts a browser for each fetch, so that its fetch is one step. Playwright
shares one: `ensureInitialized` checks it under the mutex. A browser that is connected
and was started in the headless setting that the fetch asks for (`headless`, `wanted`) is
kept (`Usable`). Any other is closed and its driver stopped (`CleanUp`), also a connected
one in which other fetches have pages, which then fail
(`playwright_fetcher.go:106-112`); then a new driver is started (`StartDriver`) and a
browser in it (`LaunchBrowser`), or the start fails and stops what it has started
(`LaunchFails`). The mutex is held throughout, so a fetch at `launch` or `open` excludes
others at `init` and `grab` (`Unlocked`). Between its release and `OpenPage` another fetch
may replace the browser: a fetch can get a page in the setting it did not ask for. The
browser may die at any time (`BrowserCrash`), and its pages with it.
`CloseFetcher` is deferred by the callers until their fetches have returned.

Each action contains the step of `CircuitBreaker` that it takes, if any; that every
step is one, or leaves the breaker alone, is proved (`Refines`).

`ProxyPool` is one proxy, as none has state in common with another. What a check or a
fetch has found, and not yet said, is in `checks` and `uses`: `runHealthChecks` starts
a check of each proxy every interval, whether or not the last one has come back.

`MCFetching` runs two fetches in detail, or four as `CircuitBreaker` has them, or a
proxy (`part`); the other two rest.

### CrawlOrchestrator

Actors are the caller (`Main`), which first enqueues the seeds alone and then
collects results, and the workers. `link`, `visit`, `send`, `add` are the four
points of `enqueue` at which others can come in (the counter, the visited mutex,
the channel, the wait group); `take`, `fetch`, `count`, `deliver` those of a
worker with a task. The closer goes through `wg.Wait` and the two `close`s. A
select with several ready cases may take any of them. The wait group is Go's: a
`Done` that brings it to zero wakes the closer, which panics when the group is in
use again by the time it runs; a send on a closed channel panics; a panic ends
the process (`Panic`). `lost` and `early` are history.

`processPage` is one step with two outcomes, a page or nothing. Links are those
of a page that lead to the same host; `Blocked` are the pages that robots.txt or
the URL patterns refuse.

### WebhookDispatcher, ExportTrigger and DeliveryContract

A call of `Deliver` is submitted to the queue, or refused; a worker takes it,
validates the target, creates a record, posts, counts the attempt, waits, posts
again, and answers through a channel of one place. `records` is the map of the
store, whose records a worker changes in place; `image` is what `Store.Save` has
marshalled under the lock and not yet written (`Write`), so two saves may end in
either order (`disturbed`); a write that fails may leave the file truncated. `Close` closes the stop channel, drains the queue
(`Drain`) and waits for the workers (`Join`). A crash may tear the file that is
being written; `Load` of a torn file starts with no records.

The trigger takes events from its channel, and for each schedule that matches asks
`HasExported` and starts a goroutine (`Consider`), which creates a record, attempts,
and records success or failure, with retries. Every change of the history is a
load and a save under the mutex of a store; the trigger has one store and the
handlers of the API, command line and MCP make their own (`StoreOf`), so that two
of them may overlap (`overlapped`). A failed write or a crash may leave the file
truncated (`torn`); then, or while the other store writes, it cannot be parsed, records
cannot be loaded (`LoadFails`) and `HasExported` answers no. `racing` is history: the
exports that began while another of their job and schedule was under way. What an attempt brings is either verdict:
`DeliveryContract` allows no more to be said of it.

`MCDelivery` runs the two components in one specification: they meet only in
`DeliveryContract`, so a behaviour is about one (`part`) and the other rests.

### The JSON collections: JsonFile, FrontEnds, FileCaches, IntervalScheduler

Every collection is edited in the same three steps: load the whole file, edit the
copy, save it. `span[c]` is what client `c` is in the middle of, with the copy it
has (`image`). `Plain` files are written with `os.WriteFile`, which empties the file
(`Truncate`) before it fills it (`Write`); in between, readers find JSON that does
not parse (`Torn`). `Atomic` ones are renamed into place (`Replace`). An entry is
reduced to who edited it last and when it is due. History: `latest` is the last
edit of each entry that was saved, `raced` says that an image was saved that was
made before another save.

`FrontEnds` has one action per handler, command or tool, at the collection that it
changes, with its form: some load once, some look at the entry first and load again
to change it (`Look`, `GoOn`), some replace the whole file (`HandleAuthImport`). It
has the cache of API keys too, whose validation writes the whole cached file back.
`FileCaches` has the others: the cached schedules (read, then stored), the render
profiles (entries and modification time, read one after the other) and the schedules
of the export trigger, which the server's handlers tell and other processes do not.
`IntervalScheduler` is the tick: a copy of the schedules, one job for each that is
due, the copy saved as the whole file and put back into memory. The row of a job is
inserted before the job is enqueued (`scheduler.go:231`): when the queue refuses it
(`unqueued`) the row stays, the schedule stays due, and the next tick inserts another.
`fired` and `refired` are history: the times that have a row, and those that have two.

### WatchScheduler

A check reads the stored state of its URL (`Read`), fetches (`Fetch`), stores if the
text is new (`Store`), notes the time (`Touch`) and reports (`Report`). Nothing
excludes a second check: a tick does not wait for the checks of the tick before, and
operators check by hand. `Lapse` bounds failed fetches and stores, deletions and
crashes. `told`, `toldTwice` and `beside` are history: what was reported, whether
twice, and whether two checks stood between reading and storing one state.

### JobRows, Retention and Batches

`row` is the status column, `run[j]` where a worker is with a job and `files` the
directories of results: a deletion removes the directory first and the row after it, and a run
that goes on makes the directory again. `stray` is the history of jobs deleted while
they were not final, `undone` of rows that were final and were written again. A clean-up goes through three phases: by age, status by status; by count; by
room. Each lists pages with an offset and deletes them, directories first
(`DeleteFiles`), then the rows in one transaction (`DeleteRows`); a query that fails ends
its part and the next one begins (`QueryFails`). `alone`, `full` and
`cut` remember whether somebody else deleted, a page was full, a page was cut.
A batch is created job by job, recorded with its size, and enqueued job by job;
`Verdict` is `CalculateBatchStatus`, evaluated in every state; a cancellation visits
the jobs one by one, with two accesses to each, either of which may fail: the error is
logged and the next job visited (`Miss`; `missed` are the jobs it failed for). A run that
was signalled may end in any way, since the signal may come too late to be noticed.

### WebSocketHub

`RegisterClient` and `UnregisterClient` are joint steps of the loop and of the
goroutine that offers a client, because the channels are unbuffered. `send` is the
buffer of a client, or `Closed`; `conn` the connections that are open. `Stop` closes
the quit channel; a `select` may take any other ready case before it sees that.

### ChainDefinition

`edges` is the definition, any graph on `Node`. The recursion of `hasCycle` is a walk:
`path` holds the calls of `dfs` under way, `rest[n]` the neighbors that the call for
`n` has not looked at yet, and the loops over nodes and neighbors take them in any
order, which covers every order of the definition's lists. `SelfReference`, `CycleFound`
and `StoreChain` are the ways the validation ends. A stored chain may be submitted once
(`GetChain`, then a row for each job, possibly not all) and deleted once (`CheckJobs`,
then `DeleteChain`); `overlapped` remembers that the two crossed.
"Only chains with no active jobs can be deleted" (`manager_chain.go:81`) holds but for
such a crossing, since the check and the deletion are two statements and no foreign key
ties a job to its chain.

`MCAutomation` puts the components of these sections side by side: they share no
state but the job rows, so a behaviour is about one of them (`part`).

## 3. The runs

| Run | Instance | What it checks and shows |
|---|---|---|
| `jobs_diamond` | diamond of 4 jobs, 2 workers, fair | `Clearance`, the inductive form of `DependencyOrder`: no worker holds a job before its dependencies succeeded. When quiet: `FailurePropagates`, `SuccessReleases`. Under fairness: `ChainSettles` |
| `jobs_cancel` | 2 jobs, 2 workers, queue of 2, every outcome, a caller, deletions, a shutdown, one store fault, one restart | `NoLostReadyJob` (a ready row that is queued is on its way to a worker or was turned away), `RegistryExact` (`activeJobs` holds exactly the runs between registration and clean-up), `SingleCustody` (a job with at most one dependency is in one place at a time) |
| `jobs_crash` | fork of 3 jobs, 2 workers, queue of 1, shutdown, 2 restarts, every outcome, fair | `TypeOK`, `NoLostReadyJob`, `OutcomeAnnounced` (`ToldIsStored`, `SaidOnce`, `StoredIsTold`: what subscribers hear of a job is in the store and stays there, once, and they miss only the outcome of a failed set-up or one that the process died on), `ShutdownCompletes`, `NeverRerun`, and `ImplementsContract`: every behaviour is one of `ChainContract` |
| `fetching` | 2 fetches with a retry, one of which has every engine and the other either headless setting; 4 fetches of one breaker, every outcome, resets, a host that changes; a proxy with 2 checks and 2 users; fair | `FetchingTypeOK`; fetches: `FetchersSound` (`CooldownKept`, `PageInBrowser`, `DriversAccounted` of every state, and of every step `BrowserKept`: nobody stops the browser under a page of another fetch but one that asks for the other headless setting); breaker: `ProbeLimit`, `LockoutNeedsLeak`, and `Recovers`: a host that is healthy for good, with no slot leaked, gets its circuit closed for good; `FetchesSettle`: every fetch returns (`FetchesReturn`), and a proxy that changes no more is known for what it is (`PoolSettles`) |
| `crawl_run` | 5 pages, 2 workers, limit 3, depth 1, cancellation, fair | `TypeOK`, `GroupExact`, `PageLimit`, `OnceEach`, `DiesOnlyEarly`, `Complete`, `Returns` |
| `delivery` | 2 deliveries, 2 workers, queue of 1, 2 attempts; a schedule, a job announced up to twice, 2 exports and an operator's, one retry; one fault each, fair | `DeliveryTypeOK`; dispatcher: `KeepsContract` (refines `DeliveryContract`), `RecordsSound` (`PendingIsOwned`, `SavedWhenQuiet`); trigger: `NoLateDuplicate` (two exports of a job by a schedule both end well only if the second began while the first was under way), `BlockedOnlyByFault`; both: `DeliverySettles` (`AllReturn`, `TriggerSettles`) |
| `automation` | see section 4, fair | `AutomationTypeOK`; `FilesSound` (`EditsKept`, `FileReadable`); `FiresOnce`; `ReportedOnce`; `CleanupSound` (`CutsNoDeeper`, `AgedAreGone`, `NoOrphans`); `VerdictSound`; `ChainsSound` (`ValidationExact`, `NoOrphanJobs`); `AutomationSettles` (`CacheCurrent`, `WatchedCurrent`, `GoneIsForgotten`, `BatchSettled`, `RetentionEnds`, `Validated`) |

Properties of `delivery` and `automation` name the exceptions the code has, and
claim that there are no others: an edit is lost only to a save that overlapped
another one (`raced`); a record stays pending only after a fault or two overlapping
stores; a result without a row belongs to a job that was not final when it was
deleted; a client of a hub that has stopped waits for ever; a schedule has two jobs for
one time only if the queue refused one of them, or a save failed or overlapped; a job of a
canceled batch is left only if its own cancellation failed or a worker was about to mark
it running. What the exceptions cost: `ReportedOnce` says nothing of checks that overlapped
on one URL, and `ChainsSound` nothing of the jobs of a submission that overlapped the
deletion of its chain. In `jobs_diamond` no run fails in its set-up, and `NeverRerun` is
checked in a run without store faults.

Five runs show where the code does not do what the repository says:

| Run | What TLC finds |
|---|---|
| `jobs_v_cancel` | `CancelJob` and `run` check a status and overwrite it later, unconditionally: succeeded becomes canceled (`TerminalIsFinal`) |
| `jobs_v_join` | Two dependencies end together, both workers enqueue the join, and it is marked running after it finished (`NeverRerun`) |
| `breaker_v_lockout` | Unrecorded answers use up the half-open slots: the host is refused for ever (`NoLockout`) |
| `crawl_v_hang` | A crawl canceled with pages queued never returns (`CancelReturns`) |
| `exports_v_duplicate` | `HasExported` is asked before the goroutine that creates the record runs (export_trigger.go:170, :251): two events in quick succession export the job twice (`NoDuplicateExport`) |

`NeverRerun` is in both tables: it holds where no join occurs (`NeverRerunHolds`,
section 6). `NoLockout` and `NoDuplicateExport` have their counterparts too: `LockoutNeedsLeak`,
that a lockout needs a slot that leaked, and `NoLateDuplicate`, that an export is repeated
only while the first one is under way.

Other disagreements met while modelling, which no run is spent on:

- A run that fails before its result file exists (`job_run.go:173`) tells no
  dependent; one that returns without a status at shutdown leaves the row running
  (`job_run.go:393`, stated by `TerminalAfterShutdown` of `JobManager`).
- When the queue is full, a schedule that is due gets another row of the jobs table each
  second: `CreateJob` has inserted it before `Enqueue` refuses it (`scheduler.go:231`,
  `manager.go:316`). `recoverQueuedJobs` (`manager.go:191`) enqueues all of them at the
  next start.
- `CancelBatch` logs the error of a `CancelJob` and goes on (`manager_batch.go:150-161`),
  and answers as if all were canceled: with the request's context gone, or a statement
  that fails, jobs stay queued or running.
- A fetch that asks for the other headless setting closes the browser in which other
  fetches have pages (`playwright_fetcher.go:106-112`); their attempts fail and are
  retried, in a browser that may have the wrong setting for them.
- A page reached first over a long path is visited with that depth
  (`orchestrator.go:148`); its links may be cut although a shorter path exists.
- The stores' headers say that the scheduler handles concurrent access and that an
  empty file is an empty list: no lock spans processes, and an empty file does not
  parse.
- The columns of the visual hash of a crawl state are neither read nor written: no
  check finds a visual change. A crawl state is keyed by URL, so that two watches of
  one URL overwrite each other's. A change whose job the full queue refuses loses it.
- Retention by count and room takes the oldest rows whatever their status; the
  offset moves on over a list that the deletion has made shorter, so rows are
  passed over until the next clean-up.
- A batch whose row was deleted from stays `processing`, because its count of jobs
  never changes. A full queue ends the submission with an error and no identifier.
- A shorter `Retry-After` replaces a longer cooldown (`limiter.go:411`, which says
  "always respected"), and one that becomes known while a fetch waits does not hold
  that fetch back (`late`); a request canceled by its caller counts as a failure of the
  host (`http_fetcher.go`).
- Reports of fetches count as failures of a proxy but never mark it unhealthy, nor does
  their success recover it: without health checks a broken proxy is selected for ever.

## 4. Bounds, and why they are enough

- Two workers: a third adds no new pair of conflicting accesses; every race
  found, and every race excluded, is between two holders of a snapshot.
- Chains: a pair for cancellation, a fork for crashes (two dependents compete for
  one place in the queue), a join and a diamond for concurrent release and for
  failure that travels over two levels and two paths.
- Queue of 1 where a full queue matters (`jobs_crash`, 2 in `jobs_cancel`),
  otherwise large enough (4) that it never is full.
- `MaxRestarts = 2` in `jobs_crash`: the second crash meets what the first recovery
  left. In `jobs_cancel` one fault and one restart: any one statement of the run
  fails, before or after the process has started anew.
- `ImplementsContract` is checked, and proved, without faults: a failed write of `running`
  lets a row go from queued to succeeded directly, which the code accepts and the
  contract does not. For the same reason it is a fork, not a join (`jobs_v_join`), and
  without cancellation (`jobs_v_cancel`): `Undisturbed` says so in the theorem.
- `fetching`: one retry, so that there are a first and a last attempt; a cooldown of two
  ticks is shortened and prolonged by others; two fetches of one browser find it absent,
  up, lost or in the other setting together, each at every step of the other. One of them
  changes between the two headless settings, which suffices to replace a browser under
  the other's page. Two checks overlap, and with
  `MaxFails = 2` neither report of a failure settles the matter alone.
- Breaker: thresholds of 2 make both the step below and the step at each
  threshold happen; 4 fetches are two more than the slots, so refused, late and
  admitted fetches meet.
- Crawl: `MaxPages = 3` with four pages that may be fetched lets workers pass the
  first check together, overflows the channel, and still leaves a complete crawl
  when fetches fail. The sitemap names one page besides the root.

- `delivery`: a queue of one place is full with two deliveries; the second of two
  attempts is the last one; `d1` waits for its answer and may be canceled, `d2` does
  neither. Two exports are what two events can start; a third comes from an
  operator. One fault (a crash or a failed write) at any point.
- `automation`, files: two entries, of which one is there at first, two requests
  from any mixture of processes: every race of load and save is one of two clients.
  Beside the scheduler, which writes too, there is one request. The clock takes two
  values: due and not. One failed write or crash. The server's own requests matter
  only where the server keeps something in memory (exports, keys).
- watches: two watches of one URL, two checks, one change of the page, one lapse
  (a failed fetch is in half of the initial states spent already, to let two watches
  meet).
- hub: two connections, a buffer of one and three messages: one that fits, one that
  fills, one that disconnects.
- retention: four rows in pages of two, so that full pages, last pages and empty
  ones occur; one job and one unit of room are allowed, so that each phase has
  something to delete; the `cutoff` takes in two rows or all; at most one row runs.
- batches: two jobs, a queue of one place, one fault.
- chains: every graph of four nodes with up to four edges (`MaxEdges`), from the forests
  to the diamond, in which a node is reached twice without a cycle, and the cycle
  through all four.

`CHECK_DEADLOCK FALSE` stands where the system may rest: an idle server, a crawl
that has returned (or hangs), deliveries and requests that are all served.

## 5. Fairness

Weak fairness of each goroutine's steps: the Go scheduler runs what can run. For
`JobManager` this includes that a run comes back, which each fetch's timeout
justifies for scrapes; a crawl whose context ends is the exception that
`crawl_v_hang` shows, and `ShutdownCompletes` speaks of the other runs. Nothing
makes a cancellation, a deletion, a shutdown, a fault, a timeout or a crash
happen. For `fetching`: fetches keep being made, requests, launches and pages come back, all
of which have a timeout, and time passes (`Tick`, `Elapse`); a fetch that waits for the
browser's mutex gets it in the end (strong fairness of `EnsureInitialized` and
`OpenPage`), since Go's mutexes do not starve a waiter. No context need end, no browser
crash. Health checks are enabled and have a timeout. `Recovers` and `PoolSettles` do not
assume that the host recovers or the proxy stays as it is, but conclude from it. For `delivery`: goroutines go on, posts, timers and delays end;
calls, Close, Stop and faults need not come. For `automation`: reloads happen and
the trigger is told, checks go on and watches become due, the hub's loop takes a
case that stays ready and the pumps go on, a submission, a cancellation, a run, a
clean-up and a validation that have begun go on. Requests, disconnections and changes of a page need
not come, and are finite here. For `CrawlOrchestrator`: the caller, the closer and each worker
go on; a worker's select may choose either ready case each time.

## 6. What is proved

Every safety property that a passing run checks, every type invariant, and the three
refinements are theorems, for every value of the constants.

Assumptions: the named `ASSUME`s of the modules, which TLC evaluates in the runs too, and
what a theorem names itself. They say that bounds are natural numbers and capacities
positive; that the values for "nothing" (`None`, `Absent`, `Torn`, `NoContent`...) are not
values of the things they stand beside; that clients, requests and nodes are finitely many,
which they are in a process; and that the scheduler is not one of the operators whose
requests it meets (`RequestAssumption`). Three premises are named in theorems or in the properties they are about:

- `Forest`: no job waits for several others. Without it a job may be under way twice, as
  `jobs_v_join` shows.
- `Undisturbed`: a forest, nobody cancels or deletes, no statement fails. The process may
  still stop, crash and start again.
- `Steady`: nobody cancels, deletes or stops anything, and every statement and every write
  of a result works. Chains have any shape.

The runs of section 3 are instances: `jobs_crash` of `Undisturbed`, `jobs_diamond` of
`Steady`, `jobs_cancel` of `Forest`.

`JobManagerProofs`:
- `TypeCorrect`: `Spec => []TypeOK`. `WorkerFits` is in the type invariant because
  a step that reads its job, its dependent or its top frame must find one.
- `ClearanceHolds`, `DependencyOrderHolds`: for any dependency relation, queue,
  number of workers, callers, faults and restarts no worker holds a job before
  each of its dependencies was stored as succeeded. `DependencyOrder` alone is not
  inductive: a worker takes what is in the queue. `Clearance` follows a job
  backwards: what is in the queue is cleared because whoever sends was at
  `enqueue` or in `SubmitChain` with a cleared job, or recovery read a row marked
  ready; a row is marked ready only after `checkDependencies` has read every
  dependency as succeeded, one at a time (`CheckSound`), and what was once
  stored stays in `held` even if the row changes later.
- `NoLostReadyJobHolds`, for everything that can happen: `Tracked` adds what the workers
  know of the jobs they hold (`JobsKnown`). A row that a snapshot says is not queued is
  never queued again, and a job that a worker has started is not queued unless its mark
  failed, so no queued row drops out of the four places where the property looks for it.
- `SingleCustodyHolds`, for forests: `OneCustody` says that the ways of being under way
  exclude each other, that a snapshot names a job once (`FrameDistinct`), and that a job
  that a worker may still release is nowhere yet. That no two workers release it is
  `OneReleaser`: it waits for one job, and one worker has that. The count of the property
  follows from uniqueness (`CustodyUnique`).
- `RegistryExactHolds`, for forests: since no two workers have the same job (`Apart`, from
  `OneCustody`), a registration overwrites no other and a clean-up removes no other.
- `ImplementsContractHolds`, `NeverRerunHolds`, where `Undisturbed`: `Lifecycle` relates
  statuses to the workers that hold the jobs. What has succeeded stays so (`RowsSettled`),
  what waits in the channel is queued (`Waiting`), and at each step of a worker its job has
  the status that the step presumes (`Stage`): whoever is about to mark a job running finds
  it queued, so each write of a status is a step of the contract (`ContractStep`).
- `FailurePropagatesHolds`, `SuccessReleasesHolds`, where `Steady`, for any shape of chain:
  at rest they say that nothing is left to do; `Owed` says at every moment who has yet to
  do it. A queued dependent of a failed job is on the list of a worker that is about to
  query, has it in a frame, or is at its rows (`WillFail`); one that is marked failed is
  at the next statement (`MarkedFailed`). A pending job whose dependencies have all
  succeeded is about to be found, or is being checked, by a worker that finished one of
  them (`WillCheck`); that check succeeds, since it reads statuses after the last success.
  A snapshot that says "not queued" stays true (`ListTrue`). This holds of a join that
  runs twice too. TLC checked `Owed` on the diamond before it was proved.
- `OutcomeAnnouncedHolds`, where `Undisturbed`: between the write of a status and its event
  nothing may overwrite the row. For the outcome of a run that is `Lifecycle`. For the
  failure of a dependent it needs that no second worker is about to fail the same job:
  `Spread` says that a failed row has a failed dependency or only succeeded ones, that the
  dependents a worker has in its frames are still queued (`HeldQueued`), that each is in one
  frame of one worker (`HeldOnce`), and that no two workers are about to query the
  dependents of one failed job (`SpreadOnce`, `NotYetHeld`). What a restart finds unsaid goes to `silent`.

`CircuitBreakerProofs`:
- `TypeCorrect`, `ProbeLimitHolds`: no half-open period has more than
  `HalfOpenMaxRequests` fetches under way, for all thresholds and any number of
  fetches, late answers and resets included. The invariant relates the probes to
  the slots taken and says that there are none outside a half-open period.
- `SlotsAccountedHolds`, `LockoutNeedsLeakHolds`: every slot taken is a fetch under
  way, a counted success, or a fetch that ended without a record (`leaked`). With
  `SuccessThreshold <= HalfOpenMaxRequests` fewer successes are counted than end the
  period, so a period that refuses everybody has a probe under way or has leaked.
  The premise on the thresholds is not enforced by the configuration, which accepts any
  positive ones; what leaks is what `breaker_v_lockout` shows.

`FetchingProofs`, for any set of fetches, engines, retries and cooldowns:
- `Refines`: `FetchSpec => Spec`, a step simulation (`StepRefines`) without a mapping,
  since the variables of `CircuitBreaker` are variables of `Fetching`. Its theorems
  thereby hold of the fetches in detail: `HostIsSpared` is `ProbeLimit` for them.
- `FetchersSoundHolds`: `BrowserInv` adds to `PageInBrowser` and `DriversAccounted` that at
  most one fetch is at `launch` or `open` (`OneLauncher`, the mutex) and that there is no
  browser while one is (`NothingYet`); without these, a launch could replace a browser in
  use. `BrowserKept` is about steps (`BrowserKeptStep`): of those that take the browser away
  while there is a page, a launch has none to take, `Close` comes after the fetches, and
  `EnsureInitialized` finds a browser that is up, so the settings differ.
  `CooldownKept` follows from what each step does to the pauses: nearly all leave those
  who wait alone (`NoNewWait`), `ReadCooldown` takes the cooldown as it is, and
  `SetCooldown` puts in `late` whoever it overtakes.
- `FetchTypesCorrect`: `Matched` (a fetch is where `CircuitBreaker` has it) and the bound
  on the attempts, which needs that whoever is in a pause has an attempt left.
- `FetchingTypeOKHolds`, for `MCFetching`: the types of the fetches, of the fetches as
  `CircuitBreaker` has them, whose lemmas are used through an instance (`HostProofs`),
  and of the proxy, each of which the steps of the other two leave alone (`SideBySide`).

`CrawlOrchestratorProofs`, for any site, limit, depth and number of workers:
- `TypeCorrect`, `GroupExactHolds`: the two need each other. That `wg.Done` never
  takes the counter below zero is part of the type invariant, and follows from
  `GroupExact`: a worker that calls `Done` is busy and not adding, and all who add
  are busy, so fewer add than are busy and the counter is at least one
  (`CountedInGroup`). The other way, the sum of `GroupExact` is over naturals. `Inv`
  adds `Phases` (the caller enqueues only before there are workers, and a worker
  that is not enqueuing has no URLs left) and `Dead` (nobody survives a panic).
- `PageLimitHolds`: results collected, in the channel and about to be delivered
  are at most `processed` and at most `MaxPages` (`Counted`): the check of the
  atomic counter admits each of the first `MaxPages` values once.
- `DiesOnlyEarlyHolds`: if the group never came to zero while somebody was adding,
  it is at zero only when nobody is adding, and once the closer has seen it there
  it stays (`Quiet`); so after the channels are closed nobody is busy who could
  send on them. The premise is the window between the send of a task and
  `wg.Add` (orchestrator.go:153-154), which `early` records.
- `OnceEachHolds`: the places where a page can be (the channel, with an actor, among the
  results) exclude each other, and a page in any of them is in the visited set (`Once`),
  which no actor passes twice.
- `CompleteHolds`: unless the crawl was canceled, died, or the group was early at zero,
  every visited page is in a place, delivered or lost (`Kept`). When `Run` has returned no
  place is left: the channels are closed and empty and nobody is busy (`NothingLeft`,
  `Ended`), so it was delivered or lost.

`WebhookDispatcherProofs`, for any number of deliveries, workers and attempts:
- `TypeCorrect`, `RecordsSoundHolds`: `Inv` says besides the types what an answer rests on
  (`Truthful`), that a delivery is in one place at a time (`OnePlace`), that a record is
  no longer pending when the work on it is over (`Settled`), that a pending one has a
  worker or was left by a process before (`PendingIsOwned`), and, as long as no saves
  overlapped and none failed (`disturbed`), that the one image on its way to the file, or
  else the file, has every record but those that a worker is about to save
  (`FileFollows`).
- `KeepsContractHolds`: the step simulation of `DeliveryContract` (`ContractStep`). An
  answer is one step of the contract because a worker answers for the one delivery that
  it has, which nobody else has (`OnePlace`), with what it has found (`Truthful`).

`ExportTriggerProofs`, for any jobs, schedules, exports and retries:
- `NoLateDuplicateHolds`: of two exports of a job by a schedule, unless one began while the
  other was under way, one is done with and its record does not keep the job from being
  exported again (`OneExported`). A later event that starts an export has read the history
  and found no record pending or succeeded, and that record is in the file as soon as its
  export is under way and not at its first step (`RecordsFit`).
- `BlockedOnlyByFaultHolds`: while nothing fails and the two stores do not overlap, one
  store at a time is between load and save, with the history as it is in the file, and the
  record of an export says how far its goroutine is (`RecordsFit`).
- `TriggerTypeCorrect`, for which whoever has a store must be at a step that writes
  (`Owners`), and `DeliveryTypeCorrect` for the composition `MCDelivery`.

`AutomationProofs`, about `MCAutomation`, in which each part has an invariant of its own:
- `FilesSoundHolds`: as long as no image was saved that was older than the file (`raced`),
  what a client is about to save says of every entry but its own what the file says, unless
  somebody has saved since it loaded (`Current`); and a file that was emptied has somebody
  who fills it (`Images`).
- `FiresOnceHolds`: a schedule that is due is submitted with the time in the scheduler's
  copy. Along the file, the memory and the images under way, entries only become later
  (`InOrder`, by `Later`), and the times that the queue took lie before all of them
  (`FiredPassed`): what is submitted again had been refused (`SubmitPasses`).
- `ReportedOnceHolds`, with the exceptions that `WatchScheduler` names: no two checks
  stand between reading and storing one state (`OneByOne`), and what is stored was told, or
  is about to be (`StoredIsTold`), in the order of the changes (`InTurn`).
- `VerdictSoundHolds`: members that were not yet created have no row, and those that the
  cancellation has passed have ended, are gone, are run by a worker that had taken them
  up before, or are those it failed for (`BatchInv`).
- `CleanupSoundHolds`: by count, what is still to be deleted lies above the limit
  (`Counting`), which rests on how many rows a page holds (`PageSizes`, `ShortFirstPage`);
  by age, each job that was due is in a status, or on a page, yet to come, unless a page
  was full or a deletion failed (`Aging`); no result outlives its row, but for jobs that
  were not final (`GoneIsOver`).
- `AutomationTypeCorrect`: the types of every part, the hub and the chains included.

`ChainDefinitionProofs`, for any finite set of nodes, any edges, in any order:
- `ChainsSoundHolds`: `ValidationExact` says that `hasCycle` refuses a definition only
  if it is cyclic, and lets none pass that is; cyclic means that there is a set of nodes
  from each of which an edge leads into the set. The invariant of the search: the stack
  is a path of edges with no node twice (`OnPath`), so an edge back into it closes a
  cycle; a neighbor of a node on the path is still to be looked at, done with, or next on
  the path (`LookedAt`); edges lead from what is done with to what is done with
  (`Closed`), and every set of nodes that are done with has one from which no edge leads
  into the set (`Ends`), which a node keeps true as it leaves the path. `NoOrphanJobs`
  follows from what submission and deletion have seen of each other (`UseInv`).

## 7. What is only model-checked

Liveness (`ChainSettles`, `ShutdownCompletes`, `Recovers`, `FetchesSettle`, `Returns`,
`DeliverySettles`, `AutomationSettles`), which rests on fairness and is out of the
prover's reach. Everything else that a passing run checks is proved; the five violations
are counterexamples, and need no proof. Of the caches, `CacheCurrent` is about schedules,
render profiles and the trigger's schedules; that of the API keys is modelled, and its
saves are among those of `FilesSound`, but that it follows its file is not claimed.

## 8. Not modelled

Extraction, diff, simhash, exporters and pipeline hooks transform data in
sequence: a model would restate them. Of the API, CLI and MCP server the requests
that change shared state are actions; parsing, pages that only read, and the web UI
are not modelled. `internal/queue` holds pluggable queue backends that the job
manager does not use. Captcha and AI packages are clients of external services. The
contents of auth profiles, tokens, templates and watches are data. The host
limiter's rates and token buckets are arithmetic on real time; what a browser renders
is left out. Which of several healthy proxies a
strategy selects, and their latencies, change the state of none.
Screenshots and the history of checks record what a check did and steer nothing.
Dry runs of retention only read. SQLite is modelled by the effect of each statement,
each atomic, as the store runs it.

## 9. Plan

1. The premises of the theorems, taken apart: which of the parts of `Steady` each of
   `FailurePropagates` and `SuccessReleases` needs, and what is left of `NeverRerun` and
   `SingleCustody` in chains with joins.
2. Theorems about the hub and the proxy pool beyond their types (`GoneIsForgotten` and
   `PoolSettles` are liveness, but the order in which a client is closed, and that it is
   closed once, is not).
3. Parts that are not modelled yet and keep state of their own: diagnostics and their
   repairs, the login flows of auth sessions.
