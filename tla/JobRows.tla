------------------------------ MODULE JobRows -------------------------------
(***************************************************************************)
(* The rows of the jobs table and the directories of their results, as     *)
(* retention and batches see them: a job is queued, run, canceled or       *)
(* deleted while its row is read by somebody else.  How a worker runs a    *)
(* job, and how chains start one another, is in JobManager.                *)
(***************************************************************************)
EXTENDS Naturals, FiniteSets

CONSTANTS
  LastRow,          \* the jobs are 1 .. LastRow, in the order of created_at
  QueueCap,         \* room in the manager's queue
  MaxFaults         \* bound on the failures and crashes explored

ASSUME RowsAssumption ==
  LastRow \in Nat /\ QueueCap \in Nat \ {0} /\ MaxFaults \in Nat

Job == 1 .. LastRow
Ended == {"succeeded", "failed", "canceled"}
Live == {"queued", "running"}
Status == {"none", "gone"} \cup Live \cup Ended

VARIABLES
  row,          \* jobs.status; "none" before the row is inserted, "gone" after
                \* it was deleted
  files,        \* the jobs with a result directory
  run,          \* where the manager is with a job
  undone,       \* history: jobs whose row was final and was written again
  stray,        \* history: jobs deleted while they were not final, or badly
  faults        \* failures and crashes so far

rowVars == <<row, files, run, undone, stray, faults>>

RowsTypeOK ==
  /\ row \in [Job -> Status]
  /\ files \subseteq Job /\ undone \subseteq Job /\ stray \subseteq Job
  /\ run \in [Job -> {"none", "waiting", "loaded", "marked", "running", "signalled"}]
  /\ faults \in 0 .. MaxFaults

Rows == {j \in Job : row[j] \in Live \cup Ended}
Fault == faults < MaxFaults /\ faults' = faults + 1

\* UPDATE jobs SET status = ...: nothing, for a row that is gone.
SetStatus(j, s) ==
  /\ row' = IF j \in Rows THEN [row EXCEPT ![j] = s] ELSE row
  /\ undone' = IF row[j] \in Ended \ {s} THEN undone \cup {j} ELSE undone

-----------------------------------------------------------------------------
(* The manager                                                             *)

Waiting == {j \in Job : run[j] = "waiting"}

Insert(j) == row' = [row EXCEPT ![j] = "queued"]
Enqueue(j) ==
  Cardinality(Waiting) < QueueCap /\ run' = [run EXCEPT ![j] = "waiting"]
QueueFull == Cardinality(Waiting) >= QueueCap

\* A row that is final is not run.  One that is gone is.
LoadJob(j) ==
  /\ run[j] = "waiting"
  /\ run' = [run EXCEPT ![j] = IF row[j] \in Ended THEN "none" ELSE "loaded"]
  /\ UNCHANGED <<row, files, undone, stray, faults>>

MarkRunning(j) ==
  /\ run[j] = "loaded" /\ run' = [run EXCEPT ![j] = "marked"]
  /\ SetStatus(j, "running")
  /\ UNCHANGED <<files, stray, faults>>

\* From here on the job can be canceled; its directory is made.
Register(j) ==
  /\ run[j] = "marked" /\ run' = [run EXCEPT ![j] = "running"]
  /\ files' = files \cup {j}
  /\ UNCHANGED <<row, undone, stray, faults>>

\* A canceled job writes canceled, nothing when its result came first, or what it
\* would have written when the signal comes too late to be noticed; when the result
\* cannot be written nothing is written to the row either.
EndRun(j) ==
  /\ \/ /\ run[j] = "running" /\ \E s \in {"succeeded", "failed"} : SetStatus(j, s)
        /\ UNCHANGED faults
     \/ /\ run[j] = "signalled" /\ \E s \in Ended : SetStatus(j, s)
        /\ UNCHANGED faults
     \/ run[j] = "signalled" /\ UNCHANGED <<row, undone, faults>>
     \/ run[j] = "running" /\ Fault /\ UNCHANGED <<row, undone>>
  /\ run' = [run EXCEPT ![j] = "none"]
  /\ UNCHANGED <<files, stray>>

\* CancelJob signals a job that runs, and reads its row ...
Signal(j) == run' = [run EXCEPT ![j] = IF @ = "running" THEN "signalled" ELSE @]

\* DELETE ?force=true: the row first, then the directory, which may fail.
\* awaited: somebody is going to enqueue the job.
DeleteWithArtifacts(j, awaited) ==
  /\ j \in Rows
  /\ row' = [row EXCEPT ![j] = "gone"]
  /\ \/ files' = files \ {j} /\ UNCHANGED faults
     \/ Fault /\ UNCHANGED files
  /\ stray' = IF awaited \/ row[j] \in Live \/ run[j] # "none" \/ j \in files'
              THEN stray \cup {j} ELSE stray
  /\ UNCHANGED <<run, undone>>

\* The rows that are queued are enqueued, as far as there is room for them; the
\* ones that ran are not.
Recovered(recover) ==
  /\ recover \subseteq {j \in Job : row[j] = "queued"}
  /\ Cardinality(recover) <= QueueCap
  /\ Cardinality(recover) = QueueCap \/ recover = {j \in Job : row[j] = "queued"}
  /\ run' = [j \in Job |-> IF j \in recover THEN "waiting" ELSE "none"]

RunStep(j) == LoadJob(j) \/ MarkRunning(j) \/ Register(j) \/ EndRun(j)
=============================================================================
