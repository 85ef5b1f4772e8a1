------------------------------ MODULE Batches -------------------------------
(***************************************************************************)
(* A batch (jobs/manager_batch.go): a request creates its jobs one by one, *)
(* then the record of the batch with the number of them, and enqueues them *)
(* one by one; its status is computed whenever somebody asks.  Another     *)
(* request cancels the jobs one by one.                                    *)
(*                                                                         *)
(* EndedInBatch is preceded by a faulty variant that no action uses: with  *)
(* it in place a property must fail.                                       *)
(***************************************************************************)
EXTENDS JobRows

CONSTANTS BatchSize    \* the jobs of the batch are the first rows

ASSUME BatchAssumption == BatchSize \in 1 .. LastRow

VARIABLES
  submit,     \* the request that submits the batch, and the job it is at
  recorded,   \* the record of the batch is there
  cancel,     \* the request that cancels it, and the job it is at
  canceled,   \* history: the cancellation came to its end
  escaped,    \* history: jobs that a worker was taking up as they were canceled
  missed,     \* history: jobs whose cancellation failed
  refused     \* history: the queue was full

batchVars == <<rowVars, submit, recorded, cancel, canceled, escaped, missed, refused>>

Members == 1 .. BatchSize

BatchTypeOK ==
  /\ submit \in [at : {"create", "record", "enqueue", "done"}, job : Members]
  /\ cancel \in [at : {"none", "signal", "write", "status"}, job : Members]
  /\ {recorded, canceled, refused} \subseteq BOOLEAN
  /\ escaped \subseteq Members /\ missed \subseteq Members

BatchInit ==
  /\ row = [j \in Job |-> "none"] /\ run = [j \in Job |-> "none"]
  /\ files = {} /\ undone = {} /\ stray = {} /\ faults = 0
  /\ submit = [at |-> "create", job |-> 1]
  /\ cancel = [at |-> "none", job |-> 1]
  /\ recorded = FALSE /\ canceled = FALSE /\ refused = FALSE
  /\ escaped = {} /\ missed = {}

-----------------------------------------------------------------------------
(* createAndEnqueueBatch                                                   *)

\* One step for each job, and then on to the next part.
Advance(next) ==
  submit' = IF submit.job = BatchSize THEN [at |-> next, job |-> 1]
            ELSE [submit EXCEPT !.job = @ + 1]

CreateJob ==
  /\ submit.at = "create"
  /\ Insert(submit.job) /\ Advance("record")
  /\ UNCHANGED <<files, run, undone, stray, faults, recorded, cancel, canceled,
                 escaped, missed, refused>>

CreateBatch ==
  /\ submit.at = "record"
  /\ recorded' = TRUE /\ submit' = [submit EXCEPT !.at = "enqueue"]
  /\ UNCHANGED <<rowVars, cancel, canceled, escaped, missed, refused>>

\* The database fails: the jobs created so far stay queued, and nobody runs
\* them before the next start.
SubmitFails ==
  /\ submit.at \in {"create", "record"} /\ Fault
  /\ submit' = [submit EXCEPT !.at = "done"]
  /\ UNCHANGED <<row, files, run, undone, stray, recorded, cancel, canceled,
                 escaped, missed, refused>>

\* A full queue ends it: this job and the ones after it stay queued in the table.
EnqueueBatch ==
  /\ submit.at = "enqueue"
  /\ \/ Enqueue(submit.job) /\ Advance("done") /\ UNCHANGED refused
     \/ /\ QueueFull /\ submit' = [submit EXCEPT !.at = "done"]
        /\ refused' = TRUE /\ UNCHANGED run
  /\ UNCHANGED <<row, files, undone, stray, faults, recorded, cancel, canceled, escaped, missed>>

-----------------------------------------------------------------------------
(* GetBatchStatus: CalculateBatchStatus of what CountJobsByBatchAndStatus  *)
(* finds, and of JobCount, which no deletion changes.                      *)

Count(statuses) == Cardinality({j \in Members : row[j] \in statuses})

EndedOrGoneInBatch == Count(Ended \cup {"gone"})
EndedInBatch == Count(Ended)

Verdict ==
  CASE EndedInBatch = 0 /\ Count({"running"}) > 0 -> "processing"
    [] EndedInBatch = 0 /\ Count({"running"}) = 0 -> "pending"
    [] EndedInBatch = BatchSize /\ Count({"succeeded"}) = BatchSize -> "completed"
    [] EndedInBatch = BatchSize /\ Count({"succeeded"}) = 0 -> "failed"
    [] EndedInBatch = BatchSize /\ Count({"succeeded"}) \in 1 .. BatchSize - 1 -> "partial"
    [] OTHER -> "processing"

Final == Verdict \in {"completed", "failed", "partial"}

-----------------------------------------------------------------------------
(* CancelBatch                                                             *)

HandleBatchCancel ==
  /\ recorded /\ cancel.at = "none" /\ ~canceled
  /\ cancel' = [at |-> "signal", job |-> 1]
  /\ UNCHANGED <<rowVars, submit, recorded, canceled, escaped, missed, refused>>

NextCancel ==
  cancel' = IF cancel.job = BatchSize THEN [at |-> "status", job |-> 1]
            ELSE [at |-> "signal", job |-> cancel.job + 1]

\* CancelJob fails, since the database does or the client that asked for it is
\* gone, and with it the request's context: the error is logged.
Miss(j) == missed' = missed \cup {j} /\ NextCancel

\* CancelJob signals the job if it runs, and reads the row, if it can: a final one
\* stays, and for one that is gone the error is logged.
CancelSignal ==
  LET j == cancel.job IN
  /\ cancel.at = "signal"
  /\ Signal(j)
  /\ \/ row[j] \in Live /\ cancel' = [cancel EXCEPT !.at = "write"] /\ UNCHANGED missed
     \/ row[j] \in Live /\ Miss(j)
     \/ row[j] \notin Live /\ NextCancel /\ UNCHANGED missed
  /\ UNCHANGED <<row, files, undone, stray, faults, submit, recorded, canceled,
                 escaped, refused>>

CancelWrite ==
  LET j == cancel.job IN
  /\ cancel.at = "write"
  /\ \/ /\ SetStatus(j, "canceled")
        /\ escaped' = IF run[j] = "loaded" THEN escaped \cup {j} ELSE escaped
        /\ NextCancel /\ UNCHANGED missed
     \/ Miss(j) /\ UNCHANGED <<row, undone, escaped>>
  /\ UNCHANGED <<files, run, stray, faults, submit, recorded, canceled, refused>>

\* UpdateBatchStatus writes a status that GetBatchStatus does not use.
CancelEnds ==
  /\ cancel.at = "status"
  /\ cancel' = [at |-> "none", job |-> 1] /\ canceled' = TRUE
  /\ UNCHANGED <<rowVars, submit, recorded, escaped, missed, refused>>

-----------------------------------------------------------------------------
(* Around the batch                                                        *)

RunJob(j) ==
  RunStep(j) /\ UNCHANGED <<submit, recorded, cancel, canceled, escaped, missed, refused>>
DeleteMember(j) ==
  /\ DeleteWithArtifacts(j, submit.at \in {"create", "record"}
                            \/ (submit.at = "enqueue" /\ submit.job <= j))
  /\ UNCHANGED <<submit, recorded, cancel, canceled, escaped, missed, refused>>

\* The requests end with the process.
RestartManager ==
  /\ Fault
  /\ \E recover \in SUBSET Members : Recovered(recover)
  /\ submit' = [at |-> "done", job |-> 1] /\ cancel' = [at |-> "none", job |-> 1]
  /\ UNCHANGED <<row, files, undone, stray, recorded, canceled, escaped, missed, refused>>

Submission == CreateJob \/ CreateBatch \/ EnqueueBatch
Cancellation == CancelSignal \/ CancelWrite \/ CancelEnds

BatchNext ==
  \/ Submission \/ SubmitFails \/ HandleBatchCancel \/ Cancellation \/ RestartManager
  \/ \E j \in Members : RunJob(j) \/ DeleteMember(j)

-----------------------------------------------------------------------------
(* Properties                                                              *)

\* The reported status is final exactly when every job of the batch has come to
\* its end and no row was deleted; and after a cancellation every job of it has,
\* unless a worker had already found the job not final, and marks it as running
\* afterwards, or the cancellation of that very job failed (CancelBatch, CancelJob,
\* CalculateBatchStatus).
VerdictSound ==
  /\ recorded /\ ~Final =>
       \E j \in Members : row[j] \in Live \cup {"gone"}
  /\ Final => \A j \in Members : row[j] \in Ended
  /\ canceled => \A j \in Members :
       row[j] \in Ended \cup {"gone"} \/ j \in escaped \cup missed

\* The batch comes to a final status, unless the queue refused a job of it, the
\* process or a run failed, a row was deleted (JobCount is never reached then), or
\* the cancellation of a job failed, which may have stopped the run all the same.
BatchSettled ==
  \/ ~recorded \/ refused \/ faults > 0 \/ Final
  \/ missed # {} \/ \E j \in Members : row[j] = "gone"
=============================================================================
