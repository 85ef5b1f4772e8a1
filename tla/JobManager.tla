----------------------------- MODULE JobManager -----------------------------
(***************************************************************************)
(* The job manager (internal/jobs) over the jobs table (internal/store):   *)
(* a chain of jobs is created and enqueued, workers take jobs from a       *)
(* bounded queue, run them and record the outcome, and the worker that     *)
(* finishes a job releases or fails the jobs that depend on it.  Callers   *)
(* cancel jobs, operators delete rows, the server shuts down, crashes and  *)
(* restarts.                                                               *)
(*                                                                         *)
(* Every access to the store is one step: nothing in the code holds a lock *)
(* or a transaction across two of them.                                    *)
(***************************************************************************)
EXTENDS Naturals, Sequences, FiniteSets

CONSTANTS
  Job,          \* the jobs of the submitted chain
  Worker,       \* the maxConcurrency goroutines of Start
  Caller,       \* concurrent callers of CancelJob
  None,         \* no job, no worker
  Deps,         \* Deps[j]: the jobs that j depends on (DependsOn)
  QueueCap,     \* capacity of the queue channel (128 in the code)
  Outcomes,     \* how a run may end, see the worker's actions
  Deletable,    \* jobs an operator or retention may delete
  CanStop,      \* whether the server is ever told to shut down
  MaxFaults,    \* bound: store statements that fail
  MaxRestarts   \* bound: restarts of the process

AllOutcomes == {"ok", "runError", "decodeError", "setupError", "writeError"}

ASSUME ConstantsAssumption ==
  /\ None \notin Job \cup Worker
  /\ Deps \in [Job -> SUBSET Job]
  /\ QueueCap \in Nat \ {0}
  /\ Outcomes \subseteq AllOutcomes
  /\ Deletable \subseteq Job
  /\ CanStop \in BOOLEAN
  /\ MaxFaults \in Nat /\ MaxRestarts \in Nat

Terminal == {"succeeded", "failed", "canceled"}
Status == {"absent", "queued", "running"} \cup Terminal
DepStatus == {"pending", "ready", "failed"}

VARIABLES
  status,      \* jobs.status of each row, "absent" when there is no row
  dep,         \* jobs.dependency_status of each row
  held,        \* history: every status the row of a job has had
  queue,       \* the channel m.queue
  active,      \* m.activeJobs: the worker whose cancel function is stored
  told,        \* the outcome of each job that subscribers have last heard of
  saying,      \* the outcome a worker has stored and is about to publish
  silent,      \* history: jobs whose outcome was stored and will not be published
  pc,          \* where each worker is in run
  cur,         \* the job a worker is running
  mode,        \* the context a worker passes to run
  canceled,    \* whether the cancel function of the current run was called
  stack,       \* snapshots of dependents, one frame per level of recursion
  item,        \* the dependent being handled, from the top frame
  need,        \* its dependencies that checkDependencies has yet to read
  toCreate,    \* SubmitChain: jobs still to insert
  toEnqueue,   \* SubmitChain: ready jobs still to enqueue
  refused,     \* jobs that a full queue, a failed submission or a failed mark left behind
  cpc, cjob,   \* where each caller is in CancelJob, and for which job
  stopping,    \* the context given to Start is done
  faults, restarts

rows == <<status, dep, held>>
events == <<told, saying, silent>>
worker == <<pc, cur, mode, canceled, stack, item, need>>
submitter == <<toCreate, toEnqueue>>
callers == <<cpc, cjob>>
env == <<stopping, faults, restarts>>
vars == <<rows, queue, active, events, worker, submitter, refused, callers, env>>

\* A row of a dependents query, cut to what its reader uses: the job, and
\* whether it was queued when the query ran.
Snapshot == [job : Job, queued : BOOLEAN]
NoItem == [job |-> None, queued |-> FALSE]

\* A JobEventCompleted.
Event == [job : Job, status : Terminal]
NoEvent == [job |-> None, status |-> "absent"]

BeforeOutcome == {"idle", "exited", "get", "mark", "register", "exec"}
Registered == {"exec", "setupFail", "succeed", "fail", "cancel", "resolve",
               "resolveNext", "check", "enqueue", "propagate", "propNext",
               "propDep", "propStatus", "cleanup"}
WorkerPC == {"idle", "get", "mark", "register", "exited"} \cup Registered

\* The status written at the three steps that end a run with an event.
FinalStatus == [succeed |-> "succeeded", fail |-> "failed", cancel |-> "canceled"]

RowsTypeOK ==
  /\ status \in [Job -> Status]
  /\ dep \in [Job -> DepStatus]
  /\ held \in [Job -> SUBSET Status]

QueueTypeOK ==
  /\ queue \in Seq(Job) /\ Len(queue) <= QueueCap
  /\ toCreate \subseteq Job /\ toEnqueue \subseteq Job /\ refused \subseteq Job

WorkerTypeOK ==
  /\ pc \in [Worker -> WorkerPC]
  /\ cur \in [Worker -> Job \cup {None}]
  /\ mode \in [Worker -> {"serve", "drain", "expired"}]
  /\ canceled \in [Worker -> BOOLEAN]
  /\ stack \in [Worker -> Seq(SUBSET Snapshot)]
  /\ item \in [Worker -> Snapshot \cup {NoItem}]
  /\ need \in [Worker -> SUBSET Job]

\* A worker has a job, a dependent and a frame where its next step reads one.
WorkerFits(w) ==
  /\ cur[w] = None <=> pc[w] \in {"idle", "exited"}
  /\ pc[w] \in {"check", "enqueue", "propDep", "propStatus"} => item[w].job # None
  /\ pc[w] \in {"resolveNext", "propNext", "check", "enqueue", "propDep", "propStatus"}
       => stack[w] # <<>>
  /\ pc[w] = "propagate" /\ stack[w] # <<>> => item[w].job # None
  /\ pc[w] \in {"succeed", "fail", "cancel", "resolve"} \cup BeforeOutcome
       => stack[w] = <<>>

RestTypeOK ==
  /\ active \in [Job -> Worker \cup {None}]
  /\ told \in [Job -> Terminal \cup {"nothing"}]
  /\ saying \in [Worker -> Event \cup {NoEvent}]
  /\ silent \subseteq Job
  /\ cpc \in [Caller -> {"idle", "get", "write"}]
  /\ cjob \in [Caller -> Job \cup {None}]
  /\ \A c \in Caller : cpc[c] # "idle" => cjob[c] # None
  /\ stopping \in BOOLEAN
  /\ faults \in 0 .. MaxFaults /\ restarts \in 0 .. MaxRestarts

TypeOK ==
  /\ RowsTypeOK /\ QueueTypeOK /\ WorkerTypeOK /\ RestTypeOK
  /\ \A w \in Worker : WorkerFits(w)

Init ==
  /\ status = [j \in Job |-> "absent"]
  /\ dep = [j \in Job |-> "pending"]
  /\ held = [j \in Job |-> {}]
  /\ queue = <<>>
  /\ active = [j \in Job |-> None]
  /\ told = [j \in Job |-> "nothing"]
  /\ saying = [w \in Worker |-> NoEvent]
  /\ silent = {}
  /\ pc = [w \in Worker |-> "idle"]
  /\ cur = [w \in Worker |-> None]
  /\ mode = [w \in Worker |-> "serve"]
  /\ canceled = [w \in Worker |-> FALSE]
  /\ stack = [w \in Worker |-> <<>>]
  /\ item = [w \in Worker |-> NoItem]
  /\ need = [w \in Worker |-> {}]
  /\ toCreate = Job /\ toEnqueue = {} /\ refused = {}
  /\ cpc = [c \in Caller |-> "idle"]
  /\ cjob = [c \in Caller |-> None]
  /\ stopping = FALSE /\ faults = 0 /\ restarts = 0

-----------------------------------------------------------------------------
(* The store and the queue                                                 *)
(*                                                                         *)
(* Some operators are preceded by a faulty variant of themselves that no   *)
(* action uses: with the variant in its place, a property must fail.       *)

Exists(j) == status[j] # "absent"

\* UPDATE jobs SET status = ... WHERE id = j: unconditional on the old status,
\* without effect on a row that is gone.
SetStatus(j, s) ==
  /\ status' = [k \in Job |-> IF k = j /\ Exists(j) THEN s ELSE status[k]]
  /\ held' = [k \in Job |-> IF k = j /\ Exists(j) THEN held[k] \cup {s} ELSE held[k]]

SetDep(j, d) ==
  dep' = [k \in Job |-> IF k = j /\ Exists(j) THEN d ELSE dep[k]]

\* The rows of the dependents query, and what its reader keeps of them.
SoleDependentsOf(j) == {d \in Job : Exists(d) /\ Deps[d] = {j}}
DependentsOf(j) == {d \in Job : Exists(d) /\ j \in Deps[d]}
Snapshots(jobs) == {[job |-> d, queued |-> status[d] = "queued"] : d \in jobs}

\* A non-blocking send: a full queue refuses the job, whose row stays queued.
EnqueueUnbounded(j) == queue' = Append(queue, j) /\ UNCHANGED refused
Enqueue(j) ==
  \/ /\ Len(queue) < QueueCap
     /\ queue' = Append(queue, j)
     /\ UNCHANGED refused
  \/ /\ Len(queue) >= QueueCap
     /\ refused' = refused \cup {j}
     /\ UNCHANGED queue

-----------------------------------------------------------------------------
(* SubmitChain: insert every job, then enqueue the ready ones *)

InitialDepOffByOne(j) == IF Cardinality(Deps[j]) > 1 THEN "pending" ELSE "ready"
InitialDep(j) == IF Deps[j] = {} THEN "ready" ELSE "pending"

EnqueuedInAnyCase(j) == {j}
EnqueuedOnSubmit(j) == IF InitialDep(j) = "ready" THEN {j} ELSE {}

CreateJob(j) ==
  /\ j \in toCreate
  /\ status' = [status EXCEPT ![j] = "queued"]
  /\ held' = [held EXCEPT ![j] = @ \cup {"queued"}]
  /\ dep' = [dep EXCEPT ![j] = InitialDep(j)]
  /\ toCreate' = toCreate \ {j}
  /\ toEnqueue' = toEnqueue \cup EnqueuedOnSubmit(j)
  /\ UNCHANGED <<queue, active, events, worker, refused, callers, env>>

\* An insert fails: SubmitChain returns, the rows already inserted stay.
CreateFails ==
  /\ toCreate # {} /\ faults < MaxFaults
  /\ faults' = faults + 1
  /\ refused' = refused \cup toEnqueue
  /\ toCreate' = {} /\ toEnqueue' = {}
  /\ UNCHANGED <<rows, queue, active, events, worker, callers, stopping, restarts>>

EnqueueCreated(j) ==
  /\ toCreate = {} /\ j \in toEnqueue
  /\ toEnqueue' = toEnqueue \ {j}
  /\ Enqueue(j)
  /\ UNCHANGED <<rows, active, events, worker, toCreate, callers, env>>

Submit == \E j \in Job : CreateJob(j) \/ EnqueueCreated(j)

-----------------------------------------------------------------------------
(* A worker: the loop of Start *)

\* The context that run was given is done: the server's context after a
\* shutdown, or the drain's own context after its 30 seconds.
CtxDone(w) == \/ mode[w] = "serve" /\ stopping
              \/ mode[w] = "expired"
JobCtxDone(w) == CtxDone(w) \/ canceled[w]

Goto(w, label) == pc' = [pc EXCEPT ![w] = label]

Return(w) ==
  /\ Goto(w, "idle")
  /\ cur' = [cur EXCEPT ![w] = None]

Pick(w) ==
  /\ pc[w] = "idle" /\ queue # <<>>
  /\ cur' = [cur EXCEPT ![w] = Head(queue)]
  /\ queue' = Tail(queue)
  /\ Goto(w, "get")
  /\ UNCHANGED <<rows, active, events, mode, canceled, stack, item, need,
                 submitter, refused, callers, env>>

StartDrainAfterReceive(w) ==
  /\ pc[w] = "idle" /\ mode[w] = "serve" /\ stopping /\ queue # <<>>
  /\ mode' = [mode EXCEPT ![w] = "drain"]
  /\ UNCHANGED <<rows, queue, active, events, pc, cur, canceled, stack, item,
                 need, submitter, refused, callers, env>>
StartDrain(w) ==
  /\ pc[w] = "idle" /\ mode[w] = "serve" /\ stopping
  /\ mode' = [mode EXCEPT ![w] = "drain"]
  /\ UNCHANGED <<rows, queue, active, events, pc, cur, canceled, stack, item,
                 need, submitter, refused, callers, env>>

Exit(w) ==
  /\ pc[w] = "idle" /\ mode[w] # "serve" /\ queue = <<>>
  /\ Goto(w, "exited")
  /\ UNCHANGED <<rows, queue, active, events, cur, mode, canceled, stack, item,
                 need, submitter, refused, callers, env>>

DrainTimeout(w) ==
  /\ mode[w] = "drain" /\ pc[w] # "exited"
  /\ mode' = [mode EXCEPT ![w] = "expired"]
  /\ UNCHANGED <<rows, queue, active, events, pc, cur, canceled, stack, item,
                 need, submitter, refused, callers, env>>

-----------------------------------------------------------------------------
(* A worker: run *)

SkipFinished(w) ==
  /\ pc[w] = "get" /\ ~CtxDone(w)
  /\ status[cur[w]] \in Terminal
  /\ Return(w)
  /\ UNCHANGED <<rows, queue, active, events, mode, canceled, stack, item, need,
                 submitter, refused, callers, env>>

\* A read that fails, as it does when the context is done, does not stop run.
LoadJob(w) ==
  /\ pc[w] = "get"
  /\ CtxDone(w) \/ status[cur[w]] \notin Terminal
  /\ Goto(w, "mark")
  /\ UNCHANGED <<rows, queue, active, events, cur, mode, canceled, stack, item,
                 need, submitter, refused, callers, env>>

MarkRunning(w) ==
  /\ pc[w] = "mark"
  /\ SetStatus(cur[w], "running")
  /\ Goto(w, "register")
  /\ UNCHANGED <<dep, queue, active, events, cur, mode, canceled, stack, item,
                 need, submitter, refused, callers, env>>

Register(w) ==
  /\ pc[w] = "register"
  /\ active' = [active EXCEPT ![cur[w]] = w]
  /\ canceled' = [canceled EXCEPT ![w] = FALSE]
  /\ Goto(w, "exec")
  /\ UNCHANGED <<rows, queue, events, cur, mode, stack, item, need, submitter,
                 refused, callers, env>>

\* The run comes back: the result directory or file cannot be created, the spec
\* cannot be decoded, the scrape, crawl or research fails, the result cannot be
\* written, or everything went well.
RunOutcome(w) ==
  \/ "setupError" \in Outcomes /\ Goto(w, "setupFail")
  \/ "decodeError" \in Outcomes /\ Goto(w, "fail")
  \/ "runError" \in Outcomes /\ Goto(w, IF JobCtxDone(w) THEN "cancel" ELSE "fail")
  \/ "writeError" \in Outcomes /\ Goto(w, "cleanup")
  \/ "ok" \in Outcomes /\ Goto(w, IF JobCtxDone(w) THEN "cleanup" ELSE "succeed")

Execute(w) ==
  /\ pc[w] = "exec"
  /\ RunOutcome(w)
  /\ UNCHANGED <<rows, queue, active, events, cur, mode, canceled, stack, item,
                 need, submitter, refused, callers, env>>

\* updateStatusWithTimeout: no event, no propagation.
RecordSetupFailure(w) ==
  /\ pc[w] = "setupFail"
  /\ SetStatus(cur[w], "failed")
  /\ silent' = silent \cup {cur[w]}
  /\ Goto(w, "cleanup")
  /\ UNCHANGED <<dep, queue, active, told, saying, cur, mode, canceled, stack, item,
                 need, submitter, refused, callers, env>>

\* The outcome is in the store; the worker builds the event from it.
ToSay(w, j, s) ==
  /\ saying' = [saying EXCEPT ![w] = [job |-> j, status |-> s]]
  /\ UNCHANGED <<told, silent>>

\* updateStatusWithEvent with a terminal status, as far as its UPDATE.
Finish(w) ==
  /\ pc[w] \in {"succeed", "fail", "cancel"}
  /\ SetStatus(cur[w], FinalStatus[pc[w]])
  /\ ToSay(w, cur[w], FinalStatus[pc[w]])
  /\ Goto(w, IF pc[w] = "succeed" THEN "resolve" ELSE "propagate")
  /\ UNCHANGED <<dep, queue, active, cur, mode, canceled, stack, item, need,
                 submitter, refused, callers, env>>

\* publishEvent: subscribers, the webhook and the export trigger get the event.
Publish(w) ==
  /\ saying[w] # NoEvent
  /\ told' = [told EXCEPT ![saying[w].job] = saying[w].status]
  /\ saying' = [saying EXCEPT ![w] = NoEvent]
  /\ UNCHANGED <<rows, queue, active, silent, worker, submitter, refused, callers,
                 env>>

\* The deferred function: whatever is registered under the job goes.
LeaveRegistered(w) == UNCHANGED active
Unregister(w) == active' = [active EXCEPT ![cur[w]] = None]

Cleanup(w) ==
  /\ pc[w] = "cleanup"
  /\ Unregister(w)
  /\ canceled' = [canceled EXCEPT ![w] = FALSE]
  /\ stack' = [stack EXCEPT ![w] = <<>>]
  /\ item' = [item EXCEPT ![w] = NoItem]
  /\ need' = [need EXCEPT ![w] = {}]
  /\ Return(w)
  /\ UNCHANGED <<rows, queue, events, mode, submitter, refused, callers, env>>

-----------------------------------------------------------------------------
(* A worker: resolveDependencies, on the context of run *)

Top(w) == Head(stack[w])
Below(w) == Tail(stack[w])

QueryPendingDependents(w) ==
  /\ pc[w] = "resolve" /\ saying[w] = NoEvent
  /\ IF CtxDone(w)
     THEN Goto(w, "cleanup") /\ UNCHANGED stack
     ELSE /\ stack' = [stack EXCEPT ![w] =
                         <<Snapshots({d \in DependentsOf(cur[w]) : dep[d] = "pending"})>>]
          /\ Goto(w, "resolveNext")
  /\ UNCHANGED <<rows, queue, active, events, cur, mode, canceled, item, need,
                 submitter, refused, callers, env>>

ResolveNext(w) ==
  /\ pc[w] = "resolveNext"
  /\ \/ \E i \in Top(w) :
          /\ item' = [item EXCEPT ![w] = i]
          /\ need' = [need EXCEPT ![w] = Deps[i.job]]
          /\ stack' = [stack EXCEPT ![w][1] = @ \ {i}]
          /\ Goto(w, "check")
     \/ /\ Top(w) = {}
        /\ Goto(w, "cleanup")
        /\ UNCHANGED <<item, need, stack>>
  /\ UNCHANGED <<rows, queue, active, events, cur, mode, canceled, submitter,
                 refused, callers, env>>

EndedIsEnough(p) == status[p] \in Terminal
DependencyMet(p) == status[p] = "succeeded"

\* checkDependencies reads one dependency; the first that has not succeeded,
\* or cannot be read, ends the check.
CheckDependency(w) ==
  /\ pc[w] = "check"
  /\ \E p \in need[w] :
       \/ /\ ~CtxDone(w) /\ DependencyMet(p)
          /\ need' = [need EXCEPT ![w] = @ \ {p}]
          /\ UNCHANGED pc
       \/ /\ CtxDone(w) \/ ~DependencyMet(p)
          /\ Goto(w, "resolveNext")
          /\ UNCHANGED need
  /\ UNCHANGED <<rows, queue, active, events, cur, mode, canceled, stack, item,
                 submitter, refused, callers, env>>

AfterReadyForgets(w) == "resolveNext"
AfterReady(w) == IF item[w].queued THEN "enqueue" ELSE "resolveNext"

MarkReady(w) ==
  /\ pc[w] = "check" /\ need[w] = {}
  /\ IF CtxDone(w)
     THEN Goto(w, "resolveNext") /\ UNCHANGED dep
     ELSE /\ SetDep(item[w].job, "ready")
          /\ Goto(w, AfterReady(w))
  /\ UNCHANGED <<status, held, queue, active, events, cur, mode, canceled, stack,
                 item, need, submitter, refused, callers, env>>

EnqueueDependent(w) ==
  /\ pc[w] = "enqueue"
  /\ Enqueue(item[w].job)
  /\ Goto(w, "resolveNext")
  /\ UNCHANGED <<rows, active, events, cur, mode, canceled, stack, item, need,
                 submitter, callers, env>>

-----------------------------------------------------------------------------
(* A worker: propagateFailure, on the manager's own context *)

\* The job whose failure this level of the recursion propagates.
FailedOrigin(w) == cur[w]
FailedJob(w) == IF stack[w] = <<>> THEN cur[w] ELSE item[w].job

QueryLiveDependents(w) ==
  /\ pc[w] = "propagate" /\ saying[w] = NoEvent
  /\ stack' = [stack EXCEPT ![w] =
       <<Snapshots({d \in DependentsOf(FailedJob(w)) : status[d] \notin Terminal})>>
         \o @]
  /\ Goto(w, "propNext")
  /\ UNCHANGED <<rows, queue, active, events, cur, mode, canceled, item, need,
                 submitter, refused, callers, env>>

PropagateNext(w) ==
  /\ pc[w] = "propNext"
  /\ \/ \E i \in Top(w) :
          /\ item' = [item EXCEPT ![w] = i]
          /\ stack' = [stack EXCEPT ![w][1] = @ \ {i}]
          /\ Goto(w, "propDep")
     \/ /\ Top(w) = {}
        /\ stack' = [stack EXCEPT ![w] = Below(w)]
        /\ Goto(w, IF Below(w) = <<>> THEN "cleanup" ELSE "propNext")
        /\ UNCHANGED item
  /\ UNCHANGED <<rows, queue, active, events, cur, mode, canceled, need,
                 submitter, refused, callers, env>>

FailDependency(w) ==
  /\ pc[w] = "propDep"
  /\ SetDep(item[w].job, "failed")
  /\ Goto(w, IF item[w].queued THEN "propStatus" ELSE "propNext")
  /\ UNCHANGED <<status, held, queue, active, events, cur, mode, canceled, stack,
                 item, need, submitter, refused, callers, env>>

FailDependent(w) ==
  /\ pc[w] = "propStatus"
  /\ SetStatus(item[w].job, "failed")
  /\ ToSay(w, item[w].job, "failed")
  /\ Goto(w, "propagate")
  /\ UNCHANGED <<dep, queue, active, cur, mode, canceled, stack, item, need,
                 submitter, refused, callers, env>>

-----------------------------------------------------------------------------
\* Where a worker goes on when the store statement it is at fails.  A job that
\* could not be marked running runs all the same, and its row may stay queued.
OnError(w) ==
  [get |-> "mark", mark |-> "register", setupFail |-> "cleanup",
   succeed |-> "resolve", fail |-> "propagate", cancel |-> "propagate",
   resolve |-> "cleanup", check |-> "resolveNext",
   propagate |-> IF stack[w] = <<>> THEN "cleanup" ELSE "propNext",
   propDep |-> "propNext", propStatus |-> "propNext"]

StoreFault(w) ==
  /\ pc[w] \in DOMAIN OnError(w) /\ saying[w] = NoEvent /\ faults < MaxFaults
  /\ faults' = faults + 1
  /\ refused' = IF pc[w] = "mark" THEN refused \cup {cur[w]} ELSE refused
  /\ Goto(w, OnError(w)[pc[w]])
  /\ UNCHANGED <<rows, queue, active, events, cur, mode, canceled, stack, item,
                 need, submitter, callers, stopping, restarts>>

Work(w) ==
  \/ Pick(w) \/ StartDrain(w) \/ Exit(w)
  \/ SkipFinished(w) \/ LoadJob(w) \/ MarkRunning(w) \/ Register(w)
  \/ Execute(w) \/ RecordSetupFailure(w) \/ Finish(w) \/ Publish(w)
  \/ Cleanup(w)
  \/ QueryPendingDependents(w) \/ ResolveNext(w) \/ CheckDependency(w)
  \/ MarkReady(w) \/ EnqueueDependent(w)
  \/ QueryLiveDependents(w) \/ PropagateNext(w) \/ FailDependency(w)
  \/ FailDependent(w)

-----------------------------------------------------------------------------
(* CancelJob, and the deletion of a row *)

\* The look-up under the mutex and the call of the function it found.
CancelLookup(c, j) ==
  /\ cpc[c] = "idle" /\ held[j] # {}
  /\ canceled' = [w \in Worker |-> canceled[w] \/ active[j] = w]
  /\ cpc' = [cpc EXCEPT ![c] = "get"]
  /\ cjob' = [cjob EXCEPT ![c] = j]
  /\ UNCHANGED <<rows, queue, active, events, pc, cur, mode, stack, item, need,
                 submitter, refused, env>>

CancelRead(c) ==
  /\ cpc[c] = "get"
  /\ \/ /\ Exists(cjob[c]) /\ status[cjob[c]] \notin Terminal
        /\ cpc' = [cpc EXCEPT ![c] = "write"]
        /\ UNCHANGED cjob
     \/ /\ ~Exists(cjob[c]) \/ status[cjob[c]] \in Terminal
        /\ cpc' = [cpc EXCEPT ![c] = "idle"]
        /\ cjob' = [cjob EXCEPT ![c] = None]
  /\ UNCHANGED <<rows, queue, active, events, worker, submitter, refused, env>>

CancelWrite(c) ==
  /\ cpc[c] = "write"
  /\ SetStatus(cjob[c], "canceled")
  /\ cpc' = [cpc EXCEPT ![c] = "idle"]
  /\ cjob' = [cjob EXCEPT ![c] = None]
  /\ UNCHANGED <<dep, queue, active, events, worker, submitter, refused, env>>

Cancel(c) == CancelRead(c) \/ CancelWrite(c)

DeleteJob(j) ==
  /\ j \in Deletable /\ Exists(j)
  /\ status' = [status EXCEPT ![j] = "absent"]
  /\ UNCHANGED <<dep, held, queue, active, events, worker, submitter, refused,
                 callers, env>>

-----------------------------------------------------------------------------
(* Shutdown, crash and restart *)

Shutdown ==
  /\ CanStop /\ ~stopping
  /\ stopping' = TRUE
  /\ UNCHANGED <<rows, queue, active, events, worker, submitter, refused,
                 callers, faults, restarts>>

\* The rows that recoverQueuedJobs picks.
RecoverableReady == {j \in Job : Exists(j) /\ dep[j] = "ready"}
Recoverable == {j \in Job : status[j] = "queued" /\ dep[j] = "ready"}

\* The process ends, wherever its goroutines are, and a new one starts: memory
\* is gone, and recoverQueuedJobs enqueues the queued rows that are ready, in
\* some order, until the queue is full.
Restart ==
  /\ restarts < MaxRestarts
  /\ restarts' = restarts + 1
  /\ \E n \in 0 .. QueueCap : \E q \in [1 .. n -> Recoverable] :
       LET recovered == {q[i] : i \in 1 .. n}
       IN /\ \A i, k \in 1 .. n : q[i] = q[k] => i = k
          /\ n = QueueCap \/ recovered = Recoverable
          /\ queue' = q
          /\ refused' = Recoverable \ recovered
  /\ stopping' = FALSE
  /\ active' = [j \in Job |-> None]
  /\ pc' = [w \in Worker |-> "idle"]
  /\ cur' = [w \in Worker |-> None]
  /\ mode' = [w \in Worker |-> "serve"]
  /\ canceled' = [w \in Worker |-> FALSE]
  /\ stack' = [w \in Worker |-> <<>>]
  /\ item' = [w \in Worker |-> NoItem]
  /\ need' = [w \in Worker |-> {}]
  /\ toCreate' = {} /\ toEnqueue' = {}
  /\ cpc' = [c \in Caller |-> "idle"]
  /\ cjob' = [c \in Caller |-> None]
  /\ silent' = silent \cup {saying[w].job : w \in {v \in Worker : saying[v] # NoEvent}}
  /\ saying' = [w \in Worker |-> NoEvent]
  /\ UNCHANGED <<rows, told, faults>>

Next ==
  \/ Submit \/ CreateFails
  \/ \E w \in Worker : Work(w) \/ DrainTimeout(w) \/ StoreFault(w)
  \/ \E c \in Caller : Cancel(c) \/ \E j \in Job : CancelLookup(c, j)
  \/ \E j \in Job : DeleteJob(j)
  \/ Shutdown \/ Restart

Spec == Init /\ [][Next]_vars

\* A goroutine that can take a step takes one; a run comes back, because every
\* fetch is bounded by its timeout.  (A crawl whose context ends may not come
\* back, see CrawlOrchestrator: liveness is that of the other runs.)  Nothing
\* forces a cancellation, a deletion, a shutdown, a fault, a timeout or a restart
\* to happen.
Fairness ==
  /\ WF_vars(Submit)
  /\ \A w \in Worker : WF_vars(Work(w))
  /\ \A c \in Caller : WF_vars(Cancel(c))

FairSpec == Spec /\ Fairness

-----------------------------------------------------------------------------
(* Properties *)

\* No job waits for several others.
Forest == \A j \in Job : \A p, q \in Deps[j] : p = q

\* Nobody cancels or deletes a job, and no statement of the store fails.
Undisturbed == Forest /\ Caller = {} /\ Deletable = {} /\ MaxFaults = 0

\* The contract of a chain: see ChainContract.  It is kept where the chain is a
\* forest and undisturbed; the process may still stop, crash and start again.
Contract == INSTANCE ChainContract WITH row <- status
ImplementsContract == Contract!Spec

\* Every dependency of j has at some moment been stored as succeeded.
Cleared(j) == \A p \in Deps[j] : "succeeded" \in held[p]

\* A worker holds a job only after each of its dependencies has succeeded,
\* whatever cancellations, deletions, faults and restarts come in between: the
\* header of manager_chain.go, "Jobs with dependencies are not enqueued until
\* dependencies are satisfied".
DependencyOrder == \A w \in Worker : cur[w] # None => Cleared(cur[w])

\* Why it holds: a job is cleared from the moment it is ready, and each step on
\* its way from there to a worker keeps hold of that; a check in progress has
\* seen the success of the dependencies it no longer needs to read.
RowHeld == \A j \in Job : Exists(j) => status[j] \in held[j]
ReadyCleared == \A j \in Job : dep[j] = "ready" => Cleared(j)
QueueCleared == \A i \in DOMAIN queue : Cleared(queue[i])
SubmitCleared == \A j \in toEnqueue : Cleared(j)
CheckSound ==
  \A w \in Worker : pc[w] = "check" =>
    \A p \in Deps[item[w].job] \ need[w] : "succeeded" \in held[p]
ReleaseCleared == \A w \in Worker : pc[w] = "enqueue" => Cleared(item[w].job)

Clearance ==
  /\ RowHeld /\ ReadyCleared /\ QueueCleared /\ SubmitCleared
  /\ CheckSound /\ ReleaseCleared /\ DependencyOrder

\* No wake-up is lost: a ready job that is still queued in the store waits in the
\* channel, is about to be sent to it, is held by a worker, or was turned away by
\* a full queue (Enqueue's error is only logged by resolveDependencies) or by a
\* statement that failed before the job ran (SubmitChain, run).
NoLostReadyJob ==
  \A j \in Job :
    status[j] = "queued" /\ dep[j] = "ready" =>
      \/ \E i \in DOMAIN queue : queue[i] = j
      \/ j \in toEnqueue \cup refused
      \/ \E w \in Worker : cur[w] = j \/ (pc[w] = "enqueue" /\ item[w].job = j)

\* The ways in which a job is under way: a place in the channel, a worker, or a
\* send about to happen.
Custody(j) ==
  {<<"queue", i>> : i \in {k \in DOMAIN queue : queue[k] = j}}
    \cup {<<"worker", w>> : w \in {v \in Worker : cur[v] = j}}
    \cup {<<"release", w>> : w \in {v \in Worker : pc[v] = "enqueue" /\ item[v].job = j}}
    \cup (IF j \in toEnqueue THEN {<<"submit">>} ELSE {})

\* Only where some job waits for several others can a job be under way twice: run
\* has no other protection against two workers taking it than its first read.
SingleCustody == Forest => \A j \in Job : Cardinality(Custody(j)) <= 1

\* There, activeJobs names exactly the workers between registration and the
\* deferred clean-up, so that CancelJob reaches every run it can still stop.
RegistryExact ==
  Forest => \A j \in Job, w \in Worker :
    active[j] = w <=> cur[w] = j /\ pc[w] \in Registered

\* When all is quiet, a failed job has left no dependent waiting: the header of
\* manager_chain.go, "Failed jobs propagate failure to all dependent jobs".
Quiescent ==
  /\ queue = <<>> /\ toCreate = {} /\ toEnqueue = {}
  /\ \A w \in Worker : pc[w] \in {"idle", "exited"}
  /\ \A c \in Caller : cpc[c] = "idle"
FailurePropagates ==
  Quiescent =>
    \A d \in Job : \A p \in Deps[d] :
      Exists(d) /\ status[p] = "failed" => status[d] \in Terminal

\* A job whose outcome was announced as its run's success has released its
\* dependents by the time all is quiet: none of them still waits for it alone.
SuccessReleases ==
  Quiescent =>
    \A d \in Job :
      status[d] = "queued" /\ (\A p \in Deps[d] : status[p] = "succeeded")
        => dep[d] = "ready" /\ d \in refused

\* A terminal status is final: CancelJob and run both look before they write
\* ("job already in terminal state, not overwriting", "not running").
TerminalIsFinal ==
  [][\A j \in Job : status[j] \in Terminal => status'[j] \in {status[j], "absent"}]_vars

\* A job that has a terminal status is never marked running again.
NeverRerun ==
  [][\A j \in Job : status[j] \in Terminal => status'[j] # "running"]_vars

\* Nothing is left running once the workers have drained the queue and exited.
TerminalAfterShutdown ==
  (\A w \in Worker : pc[w] = "exited") => \A j \in Job : status[j] # "running"

\* What webhooks and export triggers hear of a job (JobEventCompleted) is what the
\* store says and goes on saying: an outcome is published at most once, never
\* after a restart that ran the job again, and is missed only by a run that could
\* not set up its result and by a process that ended between the write and the
\* event.
ToldIsStored == \A j \in Job : told[j] # "nothing" => status[j] = told[j]
SaidOnce ==
  \A w \in Worker : saying[w] # NoEvent =>
    /\ pc[w] \in {"resolve", "propagate"}
    /\ told[saying[w].job] = "nothing"
    /\ status[saying[w].job] = saying[w].status
    /\ \A v \in Worker : saying[v].job = saying[w].job => v = w
StoredIsTold ==
  \A j \in Job : status[j] \in Terminal =>
    \/ told[j] = status[j] \/ j \in silent
    \/ \E w \in Worker : saying[w].job = j

OutcomeAnnounced == Undisturbed => ToldIsStored /\ SaidOnce /\ StoredIsTold

\* The whole chain settles: every job ends with a terminal status.
ChainSettles == <>[](\A j \in Job : status[j] \in Terminal)

\* A shutdown ends: every worker drains the queue and exits, unless the process
\* is killed and started anew before that.
ShutdownCompletes ==
  stopping ~> (\A w \in Worker : pc[w] = "exited") \/ ~stopping
=============================================================================
