------------------------- MODULE WebhookDispatcher --------------------------
(***************************************************************************)
(* The webhook dispatcher and its delivery store (internal/webhook).       *)
(*                                                                         *)
(* Callers submit deliveries to a bounded queue; workers take them, create *)
(* a record, post until the receiver accepts or the attempts are used up,  *)
(* and keep the record up to date.  The store holds pointers to the        *)
(* records: a worker changes the fields of its record in place and then    *)
(* saves them all to a file, outside the lock.  Close may come at any      *)
(* time, and so may a crash.                                               *)
(***************************************************************************)
EXTENDS Naturals, FiniteSets, Sequences

CONSTANTS
  Delivery,     \* calls of Dispatch and Deliver
  Sync,         \* those that wait for the answer
  Cancelable,   \* those whose context may end while they run
  Workers,      \* MaxConcurrentDispatches
  QueueCapacity, MaxRetries,
  NoDelivery, NoRecord, NoImage, TornFile,
  MaxFaults     \* bound on the crashes and failed writes explored

ASSUME DispatcherAssumption ==
  /\ Sync \subseteq Delivery /\ Cancelable \subseteq Delivery /\ NoDelivery \notin Delivery
  /\ QueueCapacity \in Nat \ {0} /\ MaxRetries \in Nat \ {0}
  /\ MaxFaults \in Nat

VARIABLES
  queue,      \* d.queue
  caller,     \* where each call is
  answer,     \* what it returned
  result,     \* task.result, a channel of one place
  cancelled,  \* calls whose context is done
  worker,     \* the workers: step, task, attempt, file image not yet written
  closing,    \* Dispatcher.Close: "open", "draining" (stopCh closed), "joining", "closed"
  received,   \* calls whose event the receiver is known to have accepted
  records,    \* Store.records
  file,       \* webhook_deliveries.json
  untracked,  \* deliveries that go on without a record
  faults,     \* the faults so far
  disturbed   \* history: two saves overlapped or a write failed in this life

callers == <<caller, answer, result, cancelled>>
store == <<records, file, untracked, disturbed>>
dispatcherVars ==
  <<queue, callers, worker, closing, received, store, faults>>

Record == [status : {"pending", "delivered", "failed"}, attempts : 0 .. MaxRetries]
Images == [Delivery -> Record \cup {NoRecord}]

ASSUME ImageAssumption == NoImage \notin Images

WorkerSteps ==
  {"idle", "validate", "attempt", "delivered", "missed", "backoff", "exhausted",
   "ok", "error", "exited"}
WorkerStates ==
  [at : WorkerSteps,
   task : Delivery \cup {NoDelivery},
   attempt : 0 .. MaxRetries,
   image : Images \cup {NoImage}]

DispatcherTypeOK ==
  /\ queue \in Seq(Delivery) /\ Len(queue) <= QueueCapacity
  /\ caller \in [Delivery -> {"idle", "submitting", "waiting", "returned", "lost"}]
  /\ answer \in [Delivery -> {"none", "ok", "error"}]
  /\ result \in [Delivery -> {"none", "ok", "error"}]
  /\ cancelled \subseteq Delivery
  /\ worker \in [Workers -> WorkerStates]
  /\ closing \in {"open", "draining", "joining", "closed"}
  /\ received \subseteq Delivery
  /\ records \in Images /\ file \in Images \cup {TornFile}
  /\ untracked \subseteq Delivery
  /\ faults \subseteq {"crash", "disk"} /\ Cardinality(faults) <= MaxFaults
  /\ disturbed \in BOOLEAN

Idle == [at |-> "idle", task |-> NoDelivery, attempt |-> 0, image |-> NoImage]
NoRecords == [d \in Delivery |-> NoRecord]

DispatcherInit ==
  /\ queue = <<>>
  /\ caller = [d \in Delivery |-> "idle"]
  /\ answer = [d \in Delivery |-> "none"]
  /\ result = [d \in Delivery |-> "none"]
  /\ cancelled = {}
  /\ worker = [w \in Workers |-> Idle]
  /\ closing = "open"
  /\ received = {}
  /\ records = NoRecords /\ file = NoRecords /\ untracked = {}
  /\ faults = {} /\ disturbed = FALSE

Stopping == closing # "open"

\* Each kind of fault at most once, and MaxFaults in all.
Fault(kind) ==
  /\ kind \notin faults /\ Cardinality(faults) < MaxFaults
  /\ faults' = faults \cup {kind}

-----------------------------------------------------------------------------
(* The callers                                                             *)
(*                                                                         *)
(* Some operators are preceded by a faulty variant of themselves that no   *)
(* action uses: with the variant in its place, a property must fail.       *)

Return(d, verdict) ==
  /\ caller' = [caller EXCEPT ![d] = "returned"]
  /\ answer' = [answer EXCEPT ![d] = verdict]

\* Dispatch, Deliver, DispatchExport and DeliverExport build the request.  A
\* payload that does not make one is an error.
Call(d) ==
  /\ caller[d] = "idle"
  /\ \/ caller' = [caller EXCEPT ![d] = "submitting"] /\ UNCHANGED answer
     \/ d \in Sync /\ Return(d, "error")
  /\ UNCHANGED <<queue, result, cancelled, worker, closing, received, store, faults>>

\* The context of a call: the manager's, the trigger's or the server's.
Cancel(d) ==
  /\ d \in Cancelable \ cancelled /\ caller[d] # "idle"
  /\ cancelled' = cancelled \cup {d}
  /\ UNCHANGED <<queue, caller, answer, result, worker, closing, received, store, faults>>

\* select picks any case that is ready: the queue may win although the
\* dispatcher is stopped or the context is done.
Enqueue(d) ==
  /\ caller[d] = "submitting" /\ Len(queue) < QueueCapacity
  /\ queue' = Append(queue, d)
  /\ caller' = [caller EXCEPT ![d] = IF d \in Sync THEN "waiting" ELSE "returned"]
  /\ UNCHANGED <<answer, result, cancelled, worker, closing, received, store, faults>>

\* stopCh, ctx.Done, or the queue stayed full for queueWaitTimeout.
Refuse(d) ==
  /\ caller[d] = "submitting"
  /\ Stopping \/ d \in cancelled \/ Len(queue) = QueueCapacity
  /\ Return(d, "error")
  /\ UNCHANGED <<queue, result, cancelled, worker, closing, received, store, faults>>

AwaitNoStop(d) ==
  /\ caller[d] = "waiting"
  /\ \/ d \in cancelled /\ Return(d, "error")
     \/ result[d] # "none" /\ Return(d, result[d])
  /\ UNCHANGED <<queue, result, cancelled, worker, closing, received, store, faults>>

Await(d) ==
  /\ caller[d] = "waiting"
  /\ \/ (Stopping \/ d \in cancelled) /\ Return(d, "error")
     \/ result[d] # "none" /\ Return(d, result[d])
  /\ UNCHANGED <<queue, result, cancelled, worker, closing, received, store, faults>>

-----------------------------------------------------------------------------
(* The delivery store                                                      *)

Tracked(d) == d \notin untracked

\* Store.Save: the records are marshalled now and written later.
Saves(w, image) == [w EXCEPT !.image = image]

\* Overlapping saves: another worker has an image of its own to write.
SavingBeside(w) ==
  disturbed' = (disturbed \/ \E v \in Workers \ {w} : worker[v].image # NoImage)

MarkField(rec, attempts) == [rec EXCEPT !.attempts = attempts]

-----------------------------------------------------------------------------
(* The workers                                                             *)

Take(w) ==
  /\ worker[w].at = "idle" /\ queue # <<>>
  /\ worker' = [worker EXCEPT ![w] = [Idle EXCEPT !.at = "validate", !.task = Head(queue)]]
  /\ queue' = Tail(queue)
  /\ UNCHANGED <<callers, closing, received, store, faults>>

Exit(w) ==
  /\ worker[w].at = "idle" /\ Stopping
  /\ worker' = [worker EXCEPT ![w].at = "exited"]
  /\ UNCHANGED <<queue, callers, closing, received, store, faults>>

\* The target is resolved, and checked again at the time of the delivery.
Reject(w) ==
  /\ worker[w].at = "validate"
  /\ worker' = [worker EXCEPT ![w].at = "error"]
  /\ untracked' = untracked \cup {worker[w].task}
  /\ UNCHANGED <<queue, callers, closing, received, records, file, disturbed, faults>>

\* The record is created, or the delivery goes on without one: no store, no
\* identifier.
Track(w) ==
  LET d == worker[w].task
      fresh == [records EXCEPT ![d] = [status |-> "pending", attempts |-> 0]] IN
  /\ worker[w].at = "validate"
  /\ records' = fresh
  /\ worker' = [worker EXCEPT ![w] = [Saves(@, fresh) EXCEPT !.at = "attempt", !.attempt = 1]]
  /\ SavingBeside(w)
  /\ UNCHANGED <<queue, callers, closing, received, file, untracked, faults>>

GoUntracked(w) ==
  /\ worker[w].at = "validate"
  /\ untracked' = untracked \cup {worker[w].task}
  /\ worker' = [worker EXCEPT ![w].at = "attempt", ![w].attempt = 1]
  /\ UNCHANGED <<queue, callers, closing, received, records, file, disturbed, faults>>

\* The last part of Save: os.WriteFile.
Write(w) ==
  /\ worker[w].image # NoImage
  /\ file' = worker[w].image
  /\ worker' = [worker EXCEPT ![w].image = NoImage]
  /\ UNCHANGED <<queue, callers, closing, received, records, untracked, disturbed, faults>>

\* A failed write is logged; os.WriteFile may have truncated the file by then.
\* When the record was being created, the delivery goes on without it; the
\* record stays in the map.
WriteFails(w) ==
  /\ worker[w].image # NoImage /\ Fault("disk")
  /\ worker' = [worker EXCEPT ![w].image = NoImage]
  /\ untracked' = IF worker[w].at = "attempt" THEN untracked \cup {worker[w].task}
                  ELSE untracked
  /\ file' \in {file, TornFile} /\ disturbed' = TRUE
  /\ UNCHANGED <<queue, callers, closing, received, records>>

Ready(w, at) == worker[w].at = at /\ worker[w].image = NoImage

\* Steps of dispatchWithRetry that change the status of the record in place.
SetStatus(d, status) ==
  records' = IF Tracked(d) THEN [records EXCEPT ![d].status = status] ELSE records

\* A post that the receiver accepts and answers.
Delivered(w) ==
  LET d == worker[w].task IN
  /\ Ready(w, "attempt") /\ d \notin cancelled
  /\ received' = received \cup {d}
  /\ worker' = [worker EXCEPT ![w].at = "delivered"]
  /\ SetStatus(d, "delivered")
  /\ UNCHANGED <<queue, callers, closing, file, untracked, disturbed, faults>>

\* A post that fails.  The receiver may have accepted it all the same: nothing
\* in the dispatcher can tell, so received holds what is known to be accepted.
Missed(w) ==
  /\ Ready(w, "attempt")
  /\ worker' = [worker EXCEPT ![w].at = "missed"]
  /\ UNCHANGED <<queue, callers, closing, received, store, faults>>

After(w) ==
  CASE worker[w].at = "delivered" -> "ok"
    [] worker[w].attempt < MaxRetries -> "backoff"
    [] OTHER -> "exhausted"

\* UpdateRecord after an attempt: the attempts so far, and a save.
CountAttemptNoSave(w) ==
  LET d == worker[w].task
      counted == [records EXCEPT ![d] = MarkField(@, worker[w].attempt)] IN
  /\ Ready(w, "delivered") \/ Ready(w, "missed")
  /\ IF Tracked(d)
     THEN /\ records' = counted
          /\ worker' = [worker EXCEPT ![w].at = After(w)]
          /\ SavingBeside(w)
     ELSE /\ worker' = [worker EXCEPT ![w].at = After(w)]
          /\ UNCHANGED <<records, disturbed>>
  /\ UNCHANGED <<queue, callers, closing, received, file, untracked, faults>>

CountAttempt(w) ==
  LET d == worker[w].task
      counted == [records EXCEPT ![d] = MarkField(@, worker[w].attempt)] IN
  /\ Ready(w, "delivered") \/ Ready(w, "missed")
  /\ IF Tracked(d)
     THEN /\ records' = counted
          /\ worker' = [worker EXCEPT ![w] = [Saves(@, counted) EXCEPT !.at = After(w)]]
          /\ SavingBeside(w)
     ELSE /\ worker' = [worker EXCEPT ![w].at = After(w)]
          /\ UNCHANGED <<records, disturbed>>
  /\ UNCHANGED <<queue, callers, closing, received, file, untracked, faults>>

Backoff(w) ==
  /\ Ready(w, "backoff")
  /\ worker' = [worker EXCEPT ![w].at = "attempt", ![w].attempt = @ + 1]
  /\ UNCHANGED <<queue, callers, closing, received, store, faults>>

\* The attempts are used up, or the context is done while waiting.
GiveUp(w) ==
  LET d == worker[w].task
      failed == [records EXCEPT ![d].status = "failed"] IN
  /\ Ready(w, "exhausted") \/ (Ready(w, "backoff") /\ d \in cancelled)
  /\ IF Tracked(d)
     THEN /\ records' = failed
          /\ worker' = [worker EXCEPT ![w] = [Saves(@, failed) EXCEPT !.at = "error"]]
          /\ SavingBeside(w)
     ELSE /\ worker' = [worker EXCEPT ![w].at = "error"]
          /\ UNCHANGED <<records, disturbed>>
  /\ UNCHANGED <<queue, callers, closing, received, file, untracked, faults>>

\* runWorker: the answer goes to task.result, if the caller waits for one.
FinishAlwaysOK(w) ==
  LET d == worker[w].task IN
  /\ Ready(w, "ok") \/ Ready(w, "error")
  /\ result' = [result EXCEPT ![d] = IF d \in Sync THEN "ok" ELSE @]
  /\ worker' = [worker EXCEPT ![w] = Idle]
  /\ UNCHANGED <<queue, caller, answer, cancelled, closing, received, store, faults>>

Finish(w) ==
  LET d == worker[w].task IN
  /\ Ready(w, "ok") \/ Ready(w, "error")
  /\ result' = [result EXCEPT ![d] = IF d \in Sync THEN worker[w].at ELSE @]
  /\ worker' = [worker EXCEPT ![w] = Idle]
  /\ UNCHANGED <<queue, caller, answer, cancelled, closing, received, store, faults>>

WorkerStep(w) ==
  \/ Take(w) \/ Exit(w) \/ Reject(w) \/ Track(w) \/ GoUntracked(w)
  \/ Write(w) \/ WriteFails(w) \/ Delivered(w) \/ Missed(w)
  \/ CountAttempt(w) \/ Backoff(w) \/ GiveUp(w) \/ Finish(w)

-----------------------------------------------------------------------------
(* Close, crash and restart                                                *)

Close ==
  /\ closing = "open" /\ closing' = "draining"
  /\ UNCHANGED <<queue, callers, worker, received, store, faults>>

Drain ==
  /\ closing = "draining"
  /\ IF queue = <<>>
     THEN closing' = "joining" /\ UNCHANGED <<queue, result>>
     ELSE /\ queue' = Tail(queue)
          /\ result' = [result EXCEPT ![Head(queue)] = IF Head(queue) \in Sync THEN "error" ELSE @]
          /\ UNCHANGED closing
  /\ UNCHANGED <<caller, answer, cancelled, worker, received, store, faults>>

Join ==
  /\ closing = "joining" /\ \A w \in Workers : worker[w].at = "exited"
  /\ closing' = "closed"
  /\ UNCHANGED <<queue, callers, worker, received, store, faults>>

\* The process dies, in the middle of os.WriteFile perhaps, and a new one
\* loads the file.  A file that does not parse is logged, and the store starts
\* empty.
Crash ==
  /\ Fault("crash") /\ closing # "closed"
  /\ queue' = <<>>
  /\ caller' = [d \in Delivery |->
       IF caller[d] \in {"submitting", "waiting"} THEN "lost" ELSE caller[d]]
  /\ worker' = [w \in Workers |-> Idle]
  /\ closing' = "open"
  /\ file' \in {file} \cup
       (IF \E w \in Workers : worker[w].image # NoImage THEN {TornFile} ELSE {})
  /\ records' = IF file' = TornFile THEN NoRecords ELSE file'
  /\ untracked' = {} /\ disturbed' = (file' = TornFile)
  /\ result' = [d \in Delivery |-> "none"]
  /\ UNCHANGED <<answer, cancelled, received>>

-----------------------------------------------------------------------------
Caller(d) == Enqueue(d) \/ Refuse(d) \/ Await(d)
Closer == Drain \/ Join

DispatcherNext ==
  \/ \E d \in Delivery : Call(d) \/ Cancel(d) \/ Caller(d)
  \/ \E w \in Workers : WorkerStep(w)
  \/ Close \/ Closer \/ Crash

DispatcherSpec == DispatcherInit /\ [][DispatcherNext]_dispatcherVars

\* Goroutines are scheduled; posts and timers end, by their timeouts.
DispatcherFairness ==
  /\ \A d \in Delivery : WF_dispatcherVars(Caller(d))
  /\ \A w \in Workers : WF_dispatcherVars(WorkerStep(w))
  /\ WF_dispatcherVars(Closer)

-----------------------------------------------------------------------------
(* Properties                                                              *)

\* The dispatcher keeps the contract with its callers: each is answered once,
\* and told "ok" only if the receiver accepted the event, whatever Close,
\* cancellations and retries do (submit, runWorker, dispatchWithRetry).
Contract == INSTANCE DeliveryContract WITH Calls <- Delivery
KeepsContract == Contract!ContractSpec

\* A delivery record that says pending is being worked on, unless the record
\* could not be saved when it was created or an earlier process left it
\* behind: no end of dispatchWithRetry forgets its record.
PendingIsOwned ==
  \A d \in Delivery :
    (records[d] # NoRecord /\ records[d].status = "pending" /\ Tracked(d))
      => \/ \E w \in Workers : worker[w].task = d
         \/ "crash" \in faults

\* When no save is under way, the file is what the store holds, unless two
\* saves overlapped or a write failed: the snapshots that Save writes outside
\* the lock are the only way to lose an update.
SavedWhenQuiet ==
  (/\ ~disturbed
   /\ \A w \in Workers : worker[w].image = NoImage /\ worker[w].at # "delivered")
    => file = records

\* No record is forgotten, in memory or in the file.
RecordsSound == PendingIsOwned /\ SavedWhenQuiet

\* Every call returns, also one that was queued behind Close, every delivery
\* that was taken comes to its end, and Close returns: calls are finite here,
\* so all is quiet in the end.
Quiet ==
  /\ \A d \in Delivery : caller[d] \notin {"submitting", "waiting"}
  /\ \A w \in Workers : worker[w].task = NoDelivery
  /\ closing \in {"open", "closed"}
AllReturn == <>[]Quiet
=============================================================================
