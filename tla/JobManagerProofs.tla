-------------------------- MODULE JobManagerProofs --------------------------
(***************************************************************************)
(* Theorems about JobManager, for every chain, queue capacity, number of   *)
(* workers and callers, and every number of faults and restarts.           *)
(*                                                                         *)
(* DependencyOrder is not inductive: a worker gets its job from the queue, *)
(* the queue from the submission, from recovery or from a worker that has  *)
(* just marked a dependent ready, and that worker has read the statuses of *)
(* the dependencies one at a time.  Clearance follows a job along that way *)
(* and is inductive together with the type invariant.                      *)
(*                                                                         *)
(* Five more invariants build on these: Tracked (where a ready job is),    *)
(* OneCustody (never twice, in a forest), Lifecycle (what a status says,   *)
(* where nothing interferes), Spread (that a failure reaches a dependent   *)
(* through one worker, once) and Owed (what a worker has yet to do for the *)
(* dependents of a job that has ended, where nothing stops it).            *)
(***************************************************************************)
EXTENDS JobManager, TLAPS, SequenceTheorems, FiniteSetTheorems

LEMMA SnapshotsType ==
  ASSUME NEW jobs \in SUBSET Job
  PROVE  Snapshots(jobs) \subseteq Snapshot
  <1> SUFFICES ASSUME NEW d \in jobs
               PROVE  [job |-> d, queued |-> status[d] = "queued"] \in Snapshot
    BY DEF Snapshots
  <1>1. (status[d] = "queued") \in BOOLEAN
    OBVIOUS
  <1> QED BY <1>1 DEF Snapshot

LEMMA FrameType ==
  ASSUME NEW s \in Seq(SUBSET Snapshot), s # <<>>
  PROVE  /\ Head(s) \in SUBSET Snapshot
         /\ Tail(s) \in Seq(SUBSET Snapshot)
         /\ \A i : /\ [s EXCEPT ![1] = @ \ {i}] \in Seq(SUBSET Snapshot)
                   /\ [s EXCEPT ![1] = @ \ {i}] # <<>>
  <1>1. Head(s) \in SUBSET Snapshot /\ Tail(s) \in Seq(SUBSET Snapshot)
    BY HeadTailProperties
  <1>2. Len(s) \in Nat \ {0} /\ 1 \in 1 .. Len(s)
    BY EmptySeq
  <1>3. s[1] \in SUBSET Snapshot
    BY <1>2, ElementOfSeq
  <1>4. ASSUME NEW i
        PROVE  /\ [s EXCEPT ![1] = @ \ {i}] \in Seq(SUBSET Snapshot)
               /\ [s EXCEPT ![1] = @ \ {i}] # <<>>
    <2> DEFINE e == s[1] \ {i}
    <2>1. e \in SUBSET Snapshot
      BY <1>3
    <2>2. [s EXCEPT ![1] = e] \in Seq(SUBSET Snapshot) /\ Len([s EXCEPT ![1] = e]) = Len(s)
      BY <1>2, <2>1, ExceptSeq
    <2> QED BY <1>2, <2>2, EmptySeq
  <1> QED BY <1>1, <1>4

LEMMA ItemIsSnapshot ==
  ASSUME TypeOK, NEW w \in Worker,
         pc[w] \in {"check", "enqueue", "propDep", "propStatus"}
  PROVE  item[w] \in Snapshot
  BY DEF TypeOK, WorkerTypeOK, WorkerFits, NoItem

LEMMA QueryPendingDependentsType ==
  ASSUME TypeOK, NEW w \in Worker, QueryPendingDependents(w)
  PROVE  WorkerTypeOK' /\ \A v \in Worker : WorkerFits(v)'
  <1> DEFINE frame == Snapshots({d \in DependentsOf(cur[w]) : dep[d] = "pending"})
  <1>a. frame \in SUBSET Snapshot
    BY SnapshotsType DEF DependentsOf
  <1>b. <<frame>> \in Seq(SUBSET Snapshot) /\ <<frame>> # <<>>
    BY <1>a
  <1> HIDE DEF frame
  <1>c. \/ pc' = [pc EXCEPT ![w] = "cleanup"] /\ UNCHANGED stack
        \/ pc' = [pc EXCEPT ![w] = "resolveNext"] /\ stack' = [stack EXCEPT ![w] = <<frame>>]
    BY DEF QueryPendingDependents, Goto, frame
  <1>d. pc[w] = "resolve" /\ UNCHANGED <<cur, mode, canceled, item, need>>
    BY DEF QueryPendingDependents
  <1>2. WorkerTypeOK'
    BY <1>b, <1>c, <1>d DEF TypeOK, WorkerTypeOK, WorkerPC, Registered
  <1>3. ASSUME NEW v \in Worker PROVE WorkerFits(v)'
    BY <1>b, <1>c, <1>d DEF TypeOK, WorkerTypeOK, WorkerFits, BeforeOutcome
  <1> QED BY <1>2, <1>3

LEMMA ResolveNextType ==
  ASSUME TypeOK, NEW w \in Worker, ResolveNext(w)
  PROVE  WorkerTypeOK' /\ \A v \in Worker : WorkerFits(v)'
  <1> USE ConstantsAssumption
  <1>a. stack[w] \in Seq(SUBSET Snapshot) /\ stack[w] # <<>>
    BY DEF ResolveNext, TypeOK, WorkerTypeOK, WorkerFits
  <1>b. pc[w] = "resolveNext" /\ UNCHANGED <<cur, mode, canceled>>
    BY DEF ResolveNext
  <1>1. CASE \E i \in Top(w) :
        /\ item' = [item EXCEPT ![w] = i]
        /\ need' = [need EXCEPT ![w] = Deps[i.job]]
        /\ stack' = [stack EXCEPT ![w][1] = @ \ {i}]
        /\ Goto(w, "check")
    <2>1. PICK i \in Top(w) :
        /\ item' = [item EXCEPT ![w] = i]
        /\ need' = [need EXCEPT ![w] = Deps[i.job]]
        /\ stack' = [stack EXCEPT ![w][1] = @ \ {i}]
        /\ Goto(w, "check")
      BY <1>1
    <2>2. i \in Snapshot /\ i.job \in Job /\ i.job # None
      BY <1>a, FrameType DEF Top, Snapshot
    <2> DEFINE rest == [stack[w] EXCEPT ![1] = @ \ {i}]
    <2>3. rest \in Seq(SUBSET Snapshot) /\ rest # <<>>
      BY <1>a, FrameType
    <2>4. stack' = [stack EXCEPT ![w] = rest]
      BY <2>1
    <2> HIDE DEF rest
    <2>5. WorkerTypeOK'
      BY <1>b, <2>1, <2>2, <2>3, <2>4 DEF TypeOK, WorkerTypeOK, WorkerPC, Registered, Goto
    <2>6. ASSUME NEW v \in Worker PROVE WorkerFits(v)'
      BY <1>b, <2>1, <2>2, <2>3, <2>4 DEF TypeOK, WorkerTypeOK, WorkerFits, BeforeOutcome, Goto
    <2> QED BY <2>5, <2>6
  <1>2. CASE Goto(w, "cleanup") /\ UNCHANGED <<item, need, stack>>
    <2>5. WorkerTypeOK'
      BY <1>b, <1>2 DEF TypeOK, WorkerTypeOK, WorkerPC, Registered, Goto
    <2>6. ASSUME NEW v \in Worker PROVE WorkerFits(v)'
      BY <1>b, <1>2 DEF TypeOK, WorkerTypeOK, WorkerFits, BeforeOutcome, Goto
    <2> QED BY <2>5, <2>6
  <1> QED BY <1>1, <1>2 DEF ResolveNext

LEMMA PropagateNextType ==
  ASSUME TypeOK, NEW w \in Worker, PropagateNext(w)
  PROVE  WorkerTypeOK' /\ \A v \in Worker : WorkerFits(v)'
  <1> USE ConstantsAssumption
  <1>a. stack[w] \in Seq(SUBSET Snapshot) /\ stack[w] # <<>>
    BY DEF PropagateNext, TypeOK, WorkerTypeOK, WorkerFits
  <1>b. pc[w] = "propNext" /\ UNCHANGED <<cur, mode, canceled, need>>
    BY DEF PropagateNext
  <1>1. CASE \E i \in Top(w) :
        /\ item' = [item EXCEPT ![w] = i]
        /\ stack' = [stack EXCEPT ![w][1] = @ \ {i}]
        /\ Goto(w, "propDep")
    <2>1. PICK i \in Top(w) :
        /\ item' = [item EXCEPT ![w] = i]
        /\ stack' = [stack EXCEPT ![w][1] = @ \ {i}]
        /\ Goto(w, "propDep")
      BY <1>1
    <2>2. i \in Snapshot /\ i.job \in Job /\ i.job # None
      BY <1>a, FrameType DEF Top, Snapshot
    <2> DEFINE rest == [stack[w] EXCEPT ![1] = @ \ {i}]
    <2>3. rest \in Seq(SUBSET Snapshot) /\ rest # <<>>
      BY <1>a, FrameType
    <2>4. stack' = [stack EXCEPT ![w] = rest]
      BY <2>1
    <2> HIDE DEF rest
    <2>5. WorkerTypeOK'
      BY <1>b, <2>1, <2>2, <2>3, <2>4 DEF TypeOK, WorkerTypeOK, WorkerPC, Registered, Goto
    <2>6. ASSUME NEW v \in Worker PROVE WorkerFits(v)'
      BY <1>b, <2>1, <2>2, <2>3, <2>4 DEF TypeOK, WorkerTypeOK, WorkerFits, BeforeOutcome, Goto
    <2> QED BY <2>5, <2>6
  <1>2. CASE /\ stack' = [stack EXCEPT ![w] = Below(w)]
             /\ Goto(w, IF Below(w) = <<>> THEN "cleanup" ELSE "propNext")
             /\ UNCHANGED item
    <2>1. Below(w) \in Seq(SUBSET Snapshot)
      BY <1>a, FrameType DEF Below
    <2>5. WorkerTypeOK'
      BY <1>b, <1>2, <2>1 DEF TypeOK, WorkerTypeOK, WorkerPC, Registered, Goto
    <2>6. ASSUME NEW v \in Worker PROVE WorkerFits(v)'
      BY <1>b, <1>2, <2>1 DEF TypeOK, WorkerTypeOK, WorkerFits, BeforeOutcome, Goto
    <2> QED BY <2>5, <2>6
  <1> QED BY <1>1, <1>2 DEF PropagateNext

LEMMA CheckDependencyType ==
  ASSUME TypeOK, NEW w \in Worker, CheckDependency(w)
  PROVE  WorkerTypeOK'
  <1>1. \A p : [need EXCEPT ![w] = @ \ {p}] \in [Worker -> SUBSET Job]
    BY DEF TypeOK, WorkerTypeOK
  <1>2. need' \in [Worker -> SUBSET Job]
    BY <1>1 DEF CheckDependency, TypeOK, WorkerTypeOK
  <1>3. pc' \in [Worker -> WorkerPC]
    BY DEF CheckDependency, TypeOK, WorkerTypeOK, Goto, WorkerPC, Registered
  <1>4. UNCHANGED <<cur, mode, canceled, stack, item>>
    BY DEF CheckDependency
  <1> QED BY <1>2, <1>3, <1>4 DEF TypeOK, WorkerTypeOK

LEMMA TypeStep == TypeOK /\ [Next]_vars => TypeOK'
  <1> USE ConstantsAssumption
  <1> SUFFICES ASSUME TypeOK, [Next]_vars PROVE TypeOK'
    OBVIOUS
  <1>1. ASSUME NEW j \in Job, CreateJob(j) PROVE TypeOK'
    <2>1. WorkerTypeOK' /\ RestTypeOK'
      BY <1>1 DEF TypeOK, WorkerTypeOK, RestTypeOK, CreateJob, rows, worker, submitter, callers, env, events
    <2>2. \A v \in Worker : WorkerFits(v)'
      BY <1>1 DEF TypeOK, WorkerFits, CreateJob, rows, worker, submitter, callers, env
    <2>3. RowsTypeOK'
      BY <1>1 DEF InitialDep, TypeOK, RowsTypeOK, Status, DepStatus, Terminal, CreateJob, rows, worker, submitter, callers, env
    <2>4. QueueTypeOK'
      BY <1>1 DEF EnqueuedOnSubmit, TypeOK, QueueTypeOK, CreateJob, rows, worker, submitter, callers, env
    <2> QED BY <2>1, <2>2, <2>3, <2>4 DEF TypeOK
  <1>2. ASSUME NEW j \in Job, EnqueueCreated(j) PROVE TypeOK'
    <2>1. RowsTypeOK' /\ WorkerTypeOK' /\ RestTypeOK'
      BY <1>2 DEF TypeOK, RowsTypeOK, WorkerTypeOK, RestTypeOK, EnqueueCreated, Enqueue, rows, worker, submitter, callers, env, events
    <2>2. \A v \in Worker : WorkerFits(v)'
      BY <1>2 DEF TypeOK, WorkerFits, EnqueueCreated, Enqueue, rows, worker, submitter, callers, env
    <2>3. QueueTypeOK'
      BY <1>2 DEF TypeOK, QueueTypeOK, EnqueueCreated, Enqueue, rows, worker, submitter, callers, env
    <2> QED BY <2>1, <2>2, <2>3 DEF TypeOK
  <1>3. ASSUME CreateFails PROVE TypeOK'
    <2>1. RowsTypeOK' /\ WorkerTypeOK'
      BY <1>3 DEF TypeOK, RowsTypeOK, WorkerTypeOK, CreateFails, rows, worker, submitter, callers, env
    <2>2. \A v \in Worker : WorkerFits(v)'
      BY <1>3 DEF TypeOK, WorkerFits, CreateFails, rows, worker, submitter, callers, env
    <2>3. QueueTypeOK'
      BY <1>3 DEF TypeOK, QueueTypeOK, CreateFails, rows, worker, submitter, callers, env
    <2>4. RestTypeOK'
      BY <1>3 DEF TypeOK, RestTypeOK, Terminal, CreateFails, rows, worker, submitter, callers, env, events
    <2> QED BY <2>1, <2>2, <2>3, <2>4 DEF TypeOK
  <1>4. ASSUME NEW w \in Worker, Pick(w) PROVE TypeOK'
    <2>a. Head(queue) \in Job /\ Tail(queue) \in Seq(Job) /\ Len(Tail(queue)) <= QueueCap
      BY <1>4, HeadTailProperties DEF TypeOK, QueueTypeOK, Pick
    <2>1. RowsTypeOK' /\ RestTypeOK'
      BY <1>4, <2>a DEF TypeOK, RowsTypeOK, RestTypeOK, Pick, Goto, rows, worker, submitter, callers, env, events
    <2>2. QueueTypeOK'
      BY <1>4, <2>a DEF TypeOK, QueueTypeOK, Pick, Goto, rows, worker, submitter, callers, env
    <2>3. WorkerTypeOK'
      BY <1>4, <2>a DEF TypeOK, WorkerTypeOK, WorkerPC, Registered, Pick, Goto, rows, worker, submitter, callers, env
    <2>4. ASSUME NEW v \in Worker PROVE WorkerFits(v)'
      BY <1>4, <2>a DEF TypeOK, WorkerTypeOK, WorkerFits, BeforeOutcome, Pick, Goto, rows, worker, submitter, callers, env
    <2> QED BY <2>1, <2>2, <2>3, <2>4 DEF TypeOK
  <1>5. ASSUME NEW w \in Worker, StartDrain(w) PROVE TypeOK'
    <2>1. RowsTypeOK' /\ QueueTypeOK' /\ RestTypeOK'
      BY <1>5 DEF TypeOK, RowsTypeOK, QueueTypeOK, RestTypeOK, StartDrain, Goto, rows, worker, submitter, callers, env, events
    <2>2. WorkerTypeOK'
      BY <1>5 DEF TypeOK, WorkerTypeOK, WorkerPC, Registered, StartDrain, Goto, rows, worker, submitter, callers, env
    <2>3. ASSUME NEW v \in Worker PROVE WorkerFits(v)'
      BY <1>5 DEF TypeOK, WorkerTypeOK, WorkerFits, BeforeOutcome, StartDrain, Goto, rows, worker, submitter, callers, env
    <2> QED BY <2>1, <2>2, <2>3 DEF TypeOK
  <1>6. ASSUME NEW w \in Worker, Exit(w) PROVE TypeOK'
    <2>1. RowsTypeOK' /\ QueueTypeOK' /\ RestTypeOK'
      BY <1>6 DEF TypeOK, RowsTypeOK, QueueTypeOK, RestTypeOK, Exit, Goto, rows, worker, submitter, callers, env, events
    <2>2. WorkerTypeOK'
      BY <1>6 DEF TypeOK, WorkerTypeOK, WorkerPC, Registered, Exit, Goto, rows, worker, submitter, callers, env
    <2>3. ASSUME NEW v \in Worker PROVE WorkerFits(v)'
      BY <1>6 DEF TypeOK, WorkerTypeOK, WorkerFits, BeforeOutcome, Exit, Goto, rows, worker, submitter, callers, env
    <2> QED BY <2>1, <2>2, <2>3 DEF TypeOK
  <1>7. ASSUME NEW w \in Worker, DrainTimeout(w) PROVE TypeOK'
    <2>1. RowsTypeOK' /\ QueueTypeOK' /\ RestTypeOK'
      BY <1>7 DEF TypeOK, RowsTypeOK, QueueTypeOK, RestTypeOK, DrainTimeout, Goto, rows, worker, submitter, callers, env, events
    <2>2. WorkerTypeOK'
      BY <1>7 DEF TypeOK, WorkerTypeOK, WorkerPC, Registered, DrainTimeout, Goto, rows, worker, submitter, callers, env
    <2>3. ASSUME NEW v \in Worker PROVE WorkerFits(v)'
      BY <1>7 DEF TypeOK, WorkerTypeOK, WorkerFits, BeforeOutcome, DrainTimeout, Goto, rows, worker, submitter, callers, env
    <2> QED BY <2>1, <2>2, <2>3 DEF TypeOK
  <1>8. ASSUME NEW w \in Worker, SkipFinished(w) PROVE TypeOK'
    <2>1. RowsTypeOK' /\ QueueTypeOK' /\ RestTypeOK'
      BY <1>8 DEF TypeOK, RowsTypeOK, QueueTypeOK, RestTypeOK, SkipFinished, Return, Goto, rows, worker, submitter, callers, env, events
    <2>2. WorkerTypeOK'
      BY <1>8 DEF TypeOK, WorkerTypeOK, WorkerPC, Registered, SkipFinished, Return, Goto, rows, worker, submitter, callers, env
    <2>3. ASSUME NEW v \in Worker PROVE WorkerFits(v)'
      BY <1>8 DEF TypeOK, WorkerTypeOK, WorkerFits, BeforeOutcome, SkipFinished, Return, Goto, rows, worker, submitter, callers, env
    <2> QED BY <2>1, <2>2, <2>3 DEF TypeOK
  <1>9. ASSUME NEW w \in Worker, LoadJob(w) PROVE TypeOK'
    <2>1. RowsTypeOK' /\ QueueTypeOK' /\ RestTypeOK'
      BY <1>9 DEF TypeOK, RowsTypeOK, QueueTypeOK, RestTypeOK, LoadJob, Goto, rows, worker, submitter, callers, env, events
    <2>2. WorkerTypeOK'
      BY <1>9 DEF TypeOK, WorkerTypeOK, WorkerPC, Registered, LoadJob, Goto, rows, worker, submitter, callers, env
    <2>3. ASSUME NEW v \in Worker PROVE WorkerFits(v)'
      BY <1>9 DEF TypeOK, WorkerTypeOK, WorkerFits, BeforeOutcome, LoadJob, Goto, rows, worker, submitter, callers, env
    <2> QED BY <2>1, <2>2, <2>3 DEF TypeOK
  <1>10. ASSUME NEW w \in Worker, MarkRunning(w) PROVE TypeOK'
    <2>1. QueueTypeOK' /\ RestTypeOK'
      BY <1>10 DEF TypeOK, QueueTypeOK, RestTypeOK, MarkRunning, SetStatus, Goto, rows, worker, submitter, callers, env, events
    <2>2. RowsTypeOK'
      BY <1>10 DEF TypeOK, RowsTypeOK, Status, DepStatus, Terminal, MarkRunning, SetStatus, Goto, rows, worker, submitter, callers, env
    <2>3. WorkerTypeOK'
      BY <1>10 DEF TypeOK, WorkerTypeOK, WorkerPC, Registered, MarkRunning, SetStatus, Goto, rows, worker, submitter, callers, env
    <2>4. ASSUME NEW v \in Worker PROVE WorkerFits(v)'
      BY <1>10 DEF TypeOK, WorkerTypeOK, WorkerFits, BeforeOutcome, MarkRunning, SetStatus, Goto, rows, worker, submitter, callers, env
    <2> QED BY <2>1, <2>2, <2>3, <2>4 DEF TypeOK
  <1>11. ASSUME NEW w \in Worker, Register(w) PROVE TypeOK'
    <2>1. RowsTypeOK' /\ QueueTypeOK'
      BY <1>11 DEF TypeOK, RowsTypeOK, QueueTypeOK, Register, Goto, rows, worker, submitter, callers, env
    <2>2. WorkerTypeOK'
      BY <1>11 DEF TypeOK, WorkerTypeOK, WorkerPC, Registered, Register, Goto, rows, worker, submitter, callers, env
    <2>3. RestTypeOK'
      BY <1>11 DEF TypeOK, RestTypeOK, Terminal, Register, Goto, rows, worker, submitter, callers, env, events
    <2>4. ASSUME NEW v \in Worker PROVE WorkerFits(v)'
      BY <1>11 DEF TypeOK, WorkerTypeOK, WorkerFits, BeforeOutcome, Register, Goto, rows, worker, submitter, callers, env
    <2> QED BY <2>1, <2>2, <2>3, <2>4 DEF TypeOK
  <1>12. ASSUME NEW w \in Worker, Execute(w) PROVE TypeOK'
    <2>1. RowsTypeOK' /\ QueueTypeOK' /\ RestTypeOK'
      BY <1>12 DEF TypeOK, RowsTypeOK, QueueTypeOK, RestTypeOK, Execute, RunOutcome, Goto, rows, worker, submitter, callers, env, events
    <2>2. WorkerTypeOK'
      BY <1>12 DEF TypeOK, WorkerTypeOK, WorkerPC, Registered, Execute, RunOutcome, Goto, rows, worker, submitter, callers, env
    <2>3. ASSUME NEW v \in Worker PROVE WorkerFits(v)'
      BY <1>12 DEF TypeOK, WorkerTypeOK, WorkerFits, BeforeOutcome, Execute, RunOutcome, Goto, rows, worker, submitter, callers, env
    <2> QED BY <2>1, <2>2, <2>3 DEF TypeOK
  <1>13. ASSUME NEW w \in Worker, RecordSetupFailure(w) PROVE TypeOK'
    <2>0. cur[w] \in Job
      BY <1>13 DEF TypeOK, WorkerTypeOK, WorkerFits, RecordSetupFailure
    <2>1. QueueTypeOK' /\ RestTypeOK'
      BY <1>13, <2>0 DEF TypeOK, QueueTypeOK, RestTypeOK, RecordSetupFailure, SetStatus, Goto, rows, worker, submitter, callers, env, events
    <2>2. RowsTypeOK'
      BY <1>13 DEF TypeOK, RowsTypeOK, Status, DepStatus, Terminal, RecordSetupFailure, SetStatus, Goto, rows, worker, submitter, callers, env
    <2>3. WorkerTypeOK'
      BY <1>13 DEF TypeOK, WorkerTypeOK, WorkerPC, Registered, RecordSetupFailure, SetStatus, Goto, rows, worker, submitter, callers, env
    <2>4. ASSUME NEW v \in Worker PROVE WorkerFits(v)'
      BY <1>13 DEF TypeOK, WorkerTypeOK, WorkerFits, BeforeOutcome, RecordSetupFailure, SetStatus, Goto, rows, worker, submitter, callers, env
    <2> QED BY <2>1, <2>2, <2>3, <2>4 DEF TypeOK
  <1>14. ASSUME NEW w \in Worker, Finish(w) PROVE TypeOK'
    <2>a. cur[w] \in Job /\ FinalStatus[pc[w]] \in Terminal
        <3>1. cur[w] \in Job
        BY <1>14 DEF TypeOK, WorkerTypeOK, WorkerFits, Finish
      <3>2. FinalStatus[pc[w]] \in Terminal
        BY <1>14 DEF Finish, FinalStatus, Terminal
      <3> QED BY <3>1, <3>2
    <2>1. QueueTypeOK'
      BY <1>14, <2>a DEF TypeOK, QueueTypeOK, Finish, SetStatus, Goto, rows, worker, submitter, callers, env
    <2>2. RowsTypeOK'
      BY <1>14, <2>a DEF TypeOK, RowsTypeOK, Status, DepStatus, Terminal, Finish, SetStatus, Goto, rows, worker, submitter, callers, env
    <2>3. WorkerTypeOK'
      BY <1>14, <2>a DEF TypeOK, WorkerTypeOK, WorkerPC, Registered, Finish, SetStatus, Goto, rows, worker, submitter, callers, env
    <2>4. RestTypeOK'
      BY <1>14, <2>a DEF ToSay, Event, TypeOK, RestTypeOK, Terminal, Finish, SetStatus, Goto, rows, worker, submitter, callers, env, events
    <2>5. ASSUME NEW v \in Worker PROVE WorkerFits(v)'
      BY <1>14, <2>a DEF TypeOK, WorkerTypeOK, WorkerFits, BeforeOutcome, Finish, SetStatus, Goto, rows, worker, submitter, callers, env
    <2> QED BY <2>1, <2>2, <2>3, <2>4, <2>5 DEF TypeOK
  <1>15. ASSUME NEW w \in Worker, Cleanup(w) PROVE TypeOK'
    <2>1. RowsTypeOK' /\ QueueTypeOK'
      BY <1>15 DEF TypeOK, RowsTypeOK, QueueTypeOK, Cleanup, Return, Goto, rows, worker, submitter, callers, env
    <2>2. WorkerTypeOK'
      BY <1>15 DEF TypeOK, WorkerTypeOK, WorkerPC, Registered, Cleanup, Return, Goto, rows, worker, submitter, callers, env
    <2>3. RestTypeOK'
      BY <1>15 DEF Unregister, TypeOK, RestTypeOK, Terminal, Cleanup, Return, Goto, rows, worker, submitter, callers, env, events
    <2>4. ASSUME NEW v \in Worker PROVE WorkerFits(v)'
      BY <1>15 DEF TypeOK, WorkerTypeOK, WorkerFits, BeforeOutcome, Cleanup, Return, Goto, rows, worker, submitter, callers, env
    <2> QED BY <2>1, <2>2, <2>3, <2>4 DEF TypeOK
  <1>16. ASSUME NEW w \in Worker, QueryPendingDependents(w) PROVE TypeOK'
    <2>1. RowsTypeOK' /\ QueueTypeOK' /\ RestTypeOK'
      BY <1>16 DEF TypeOK, RowsTypeOK, QueueTypeOK, RestTypeOK, QueryPendingDependents, Goto, rows, worker, submitter, callers, env, events
    <2>2. WorkerTypeOK' /\ \A v \in Worker : WorkerFits(v)'
      BY <1>16, QueryPendingDependentsType
    <2> QED BY <2>1, <2>2 DEF TypeOK
  <1>17. ASSUME NEW w \in Worker, ResolveNext(w) PROVE TypeOK'
    <2>1. RowsTypeOK' /\ QueueTypeOK' /\ RestTypeOK'
      BY <1>17 DEF TypeOK, RowsTypeOK, QueueTypeOK, RestTypeOK, ResolveNext, Goto, rows, worker, submitter, callers, env, events
    <2>2. WorkerTypeOK' /\ \A v \in Worker : WorkerFits(v)'
      BY <1>17, ResolveNextType
    <2> QED BY <2>1, <2>2 DEF TypeOK
  <1>18. ASSUME NEW w \in Worker, CheckDependency(w) PROVE TypeOK'
    <2>1. RowsTypeOK' /\ QueueTypeOK' /\ RestTypeOK'
      BY <1>18 DEF TypeOK, RowsTypeOK, QueueTypeOK, RestTypeOK, CheckDependency, Goto, rows, worker, submitter, callers, env, events
    <2>2. WorkerTypeOK'
      BY <1>18, CheckDependencyType
    <2>3. ASSUME NEW v \in Worker PROVE WorkerFits(v)'
      BY <1>18 DEF TypeOK, WorkerTypeOK, WorkerFits, BeforeOutcome, CheckDependency, Goto, rows, worker, submitter, callers, env
    <2> QED BY <2>1, <2>2, <2>3 DEF TypeOK
  <1>19. ASSUME NEW w \in Worker, MarkReady(w) PROVE TypeOK'
    <2>1. QueueTypeOK' /\ RestTypeOK'
      BY <1>19 DEF TypeOK, QueueTypeOK, RestTypeOK, MarkReady, AfterReady, SetDep, Goto, rows, worker, submitter, callers, env, events
    <2>2. RowsTypeOK'
      BY <1>19 DEF TypeOK, RowsTypeOK, Status, DepStatus, Terminal, MarkReady, AfterReady, SetDep, Goto, rows, worker, submitter, callers, env
    <2>3. WorkerTypeOK'
      BY <1>19 DEF TypeOK, WorkerTypeOK, WorkerPC, Registered, MarkReady, AfterReady, SetDep, Goto, rows, worker, submitter, callers, env
    <2>4. ASSUME NEW v \in Worker PROVE WorkerFits(v)'
      BY <1>19 DEF TypeOK, WorkerTypeOK, WorkerFits, BeforeOutcome, MarkReady, AfterReady, SetDep, Goto, rows, worker, submitter, callers, env
    <2> QED BY <2>1, <2>2, <2>3, <2>4 DEF TypeOK
  <1>20. ASSUME NEW w \in Worker, EnqueueDependent(w) PROVE TypeOK'
    <2>a. item[w].job \in Job
      BY <1>20, ItemIsSnapshot DEF EnqueueDependent, Snapshot
    <2>1. RowsTypeOK' /\ RestTypeOK'
      BY <1>20, <2>a DEF TypeOK, RowsTypeOK, RestTypeOK, EnqueueDependent, Enqueue, Goto, rows, worker, submitter, callers, env, events
    <2>2. QueueTypeOK'
      <3>1. CASE Len(queue) < QueueCap /\ queue' = Append(queue, item[w].job)
                 /\ UNCHANGED refused
        <4>1. queue' \in Seq(Job) /\ Len(queue') = Len(queue) + 1
          BY <2>a, <3>1 DEF TypeOK, QueueTypeOK
        <4> QED BY <1>20, <3>1, <4>1 DEF TypeOK, QueueTypeOK, EnqueueDependent, submitter
      <3>2. CASE refused' = refused \cup {item[w].job} /\ UNCHANGED queue
        BY <1>20, <2>a, <3>2 DEF TypeOK, QueueTypeOK, EnqueueDependent, submitter
      <3> QED BY <1>20, <3>1, <3>2 DEF EnqueueDependent, Enqueue
    <2>3. WorkerTypeOK'
      BY <1>20, <2>a DEF TypeOK, WorkerTypeOK, WorkerPC, Registered, EnqueueDependent, Enqueue, Goto, rows, worker, submitter, callers, env
    <2>4. ASSUME NEW v \in Worker PROVE WorkerFits(v)'
      BY <1>20, <2>a DEF TypeOK, WorkerTypeOK, WorkerFits, BeforeOutcome, EnqueueDependent, Enqueue, Goto, rows, worker, submitter, callers, env
    <2> QED BY <2>1, <2>2, <2>3, <2>4 DEF TypeOK
  <1>21. ASSUME NEW w \in Worker, QueryLiveDependents(w) PROVE TypeOK'
    <2>a. Snapshots({d \in DependentsOf(FailedJob(w)) : status[d] \notin Terminal}) \subseteq Snapshot
      BY SnapshotsType DEF DependentsOf
    <2>1. RowsTypeOK' /\ QueueTypeOK' /\ RestTypeOK'
      BY <1>21, <2>a DEF TypeOK, RowsTypeOK, QueueTypeOK, RestTypeOK, QueryLiveDependents, Goto, rows, worker, submitter, callers, env, events
    <2>2. WorkerTypeOK'
      BY <1>21, <2>a DEF TypeOK, WorkerTypeOK, WorkerPC, Registered, QueryLiveDependents, Goto, rows, worker, submitter, callers, env
    <2>3. ASSUME NEW v \in Worker PROVE WorkerFits(v)'
      BY <1>21, <2>a DEF TypeOK, WorkerTypeOK, WorkerFits, BeforeOutcome, QueryLiveDependents, Goto, rows, worker, submitter, callers, env
    <2> QED BY <2>1, <2>2, <2>3 DEF TypeOK
  <1>22. ASSUME NEW w \in Worker, PropagateNext(w) PROVE TypeOK'
    <2>1. RowsTypeOK' /\ QueueTypeOK' /\ RestTypeOK'
      BY <1>22 DEF TypeOK, RowsTypeOK, QueueTypeOK, RestTypeOK, PropagateNext, Goto, rows, worker, submitter, callers, env, events
    <2>2. WorkerTypeOK' /\ \A v \in Worker : WorkerFits(v)'
      BY <1>22, PropagateNextType
    <2> QED BY <2>1, <2>2 DEF TypeOK
  <1>23. ASSUME NEW w \in Worker, FailDependency(w) PROVE TypeOK'
    <2>1. QueueTypeOK' /\ RestTypeOK'
      BY <1>23 DEF TypeOK, QueueTypeOK, RestTypeOK, FailDependency, SetDep, Goto, rows, worker, submitter, callers, env, events
    <2>2. RowsTypeOK'
      BY <1>23 DEF TypeOK, RowsTypeOK, Status, DepStatus, Terminal, FailDependency, SetDep, Goto, rows, worker, submitter, callers, env
    <2>3. WorkerTypeOK'
      BY <1>23 DEF TypeOK, WorkerTypeOK, WorkerPC, Registered, FailDependency, SetDep, Goto, rows, worker, submitter, callers, env
    <2>4. ASSUME NEW v \in Worker PROVE WorkerFits(v)'
      BY <1>23 DEF TypeOK, WorkerTypeOK, WorkerFits, BeforeOutcome, FailDependency, SetDep, Goto, rows, worker, submitter, callers, env
    <2> QED BY <2>1, <2>2, <2>3, <2>4 DEF TypeOK
  <1>24. ASSUME NEW w \in Worker, FailDependent(w) PROVE TypeOK'
    <2>a. item[w].job \in Job
      BY <1>24, ItemIsSnapshot DEF FailDependent, Snapshot
    <2>1. QueueTypeOK'
      BY <1>24, <2>a DEF TypeOK, QueueTypeOK, FailDependent, SetStatus, Goto, rows, worker, submitter, callers, env
    <2>2. RowsTypeOK'
      BY <1>24, <2>a DEF TypeOK, RowsTypeOK, Status, DepStatus, Terminal, FailDependent, SetStatus, Goto, rows, worker, submitter, callers, env
    <2>3. WorkerTypeOK'
      BY <1>24, <2>a DEF TypeOK, WorkerTypeOK, WorkerPC, Registered, FailDependent, SetStatus, Goto, rows, worker, submitter, callers, env
    <2>4. RestTypeOK'
      BY <1>24, <2>a DEF ToSay, Event, TypeOK, RestTypeOK, Terminal, FailDependent, SetStatus, Goto, rows, worker, submitter, callers, env, events
    <2>5. ASSUME NEW v \in Worker PROVE WorkerFits(v)'
      BY <1>24, <2>a DEF TypeOK, WorkerTypeOK, WorkerFits, BeforeOutcome, FailDependent, SetStatus, Goto, rows, worker, submitter, callers, env
    <2> QED BY <2>1, <2>2, <2>3, <2>4, <2>5 DEF TypeOK
  <1>25. ASSUME NEW w \in Worker, StoreFault(w) PROVE TypeOK'
    <2>0. pc[w] = "mark" => cur[w] \in Job
      BY DEF TypeOK, WorkerTypeOK, WorkerFits
    <2>1. RowsTypeOK' /\ QueueTypeOK'
      BY <1>25, <2>0 DEF TypeOK, RowsTypeOK, QueueTypeOK, StoreFault, rows, submitter
    <2>2. WorkerTypeOK'
      BY <1>25 DEF TypeOK, WorkerTypeOK, WorkerPC, Registered, StoreFault, OnError, Goto, rows, worker, submitter, callers, env
    <2>3. RestTypeOK'
      BY <1>25 DEF TypeOK, RestTypeOK, Terminal, StoreFault, OnError, Goto, rows, worker, submitter, callers, env, events
    <2>4. ASSUME NEW v \in Worker PROVE WorkerFits(v)'
      BY <1>25 DEF TypeOK, WorkerTypeOK, WorkerFits, BeforeOutcome, StoreFault, OnError, Goto, rows, worker, submitter, callers, env
    <2> QED BY <2>1, <2>2, <2>3, <2>4 DEF TypeOK
  <1>26. ASSUME NEW c \in Caller, NEW j \in Job, CancelLookup(c, j) PROVE TypeOK'
    <2>1. RowsTypeOK' /\ QueueTypeOK'
      BY <1>26 DEF TypeOK, RowsTypeOK, QueueTypeOK, CancelLookup, rows, worker, submitter, callers, env
    <2>2. WorkerTypeOK'
      BY <1>26 DEF TypeOK, WorkerTypeOK, WorkerPC, Registered, CancelLookup, rows, worker, submitter, callers, env
    <2>3. RestTypeOK'
      BY <1>26 DEF TypeOK, RestTypeOK, Terminal, CancelLookup, rows, worker, submitter, callers, env, events
    <2>4. ASSUME NEW v \in Worker PROVE WorkerFits(v)'
      BY <1>26 DEF TypeOK, WorkerTypeOK, WorkerFits, BeforeOutcome, CancelLookup, rows, worker, submitter, callers, env
    <2> QED BY <2>1, <2>2, <2>3, <2>4 DEF TypeOK
  <1>27. ASSUME NEW c \in Caller, CancelRead(c) PROVE TypeOK'
    <2>1. RowsTypeOK' /\ QueueTypeOK' /\ WorkerTypeOK'
      BY <1>27 DEF TypeOK, RowsTypeOK, QueueTypeOK, WorkerTypeOK, CancelRead, rows, worker, submitter, callers, env
    <2>2. \A v \in Worker : WorkerFits(v)'
      BY <1>27 DEF TypeOK, WorkerFits, CancelRead, rows, worker, submitter, callers, env
    <2>3. RestTypeOK'
      BY <1>27 DEF TypeOK, RestTypeOK, Terminal, CancelRead, rows, worker, submitter, callers, env, events
    <2> QED BY <2>1, <2>2, <2>3 DEF TypeOK
  <1>28. ASSUME NEW c \in Caller, CancelWrite(c) PROVE TypeOK'
    <2>1. QueueTypeOK' /\ WorkerTypeOK'
      BY <1>28 DEF TypeOK, QueueTypeOK, WorkerTypeOK, CancelWrite, SetStatus, rows, worker, submitter, callers, env
    <2>2. \A v \in Worker : WorkerFits(v)'
      BY <1>28 DEF TypeOK, WorkerFits, CancelWrite, SetStatus, rows, worker, submitter, callers, env
    <2>3. RowsTypeOK'
      BY <1>28 DEF TypeOK, RowsTypeOK, Status, DepStatus, Terminal, CancelWrite, SetStatus, rows, worker, submitter, callers, env
    <2>4. RestTypeOK'
      BY <1>28 DEF TypeOK, RestTypeOK, Terminal, CancelWrite, SetStatus, rows, worker, submitter, callers, env, events
    <2> QED BY <2>1, <2>2, <2>3, <2>4 DEF TypeOK
  <1>29. ASSUME NEW j \in Job, DeleteJob(j) PROVE TypeOK'
    <2>1. QueueTypeOK' /\ WorkerTypeOK' /\ RestTypeOK'
      BY <1>29 DEF TypeOK, QueueTypeOK, WorkerTypeOK, RestTypeOK, DeleteJob, rows, worker, submitter, callers, env, events
    <2>2. \A v \in Worker : WorkerFits(v)'
      BY <1>29 DEF TypeOK, WorkerFits, DeleteJob, rows, worker, submitter, callers, env
    <2>3. RowsTypeOK'
      BY <1>29 DEF TypeOK, RowsTypeOK, Status, DepStatus, Terminal, DeleteJob, rows, worker, submitter, callers, env
    <2> QED BY <2>1, <2>2, <2>3 DEF TypeOK
  <1>30. ASSUME Shutdown PROVE TypeOK'
    <2>1. RowsTypeOK' /\ QueueTypeOK' /\ WorkerTypeOK'
      BY <1>30 DEF TypeOK, RowsTypeOK, QueueTypeOK, WorkerTypeOK, Shutdown, rows, worker, submitter, callers, env
    <2>2. \A v \in Worker : WorkerFits(v)'
      BY <1>30 DEF TypeOK, WorkerFits, Shutdown, rows, worker, submitter, callers, env
    <2>3. RestTypeOK'
      BY <1>30 DEF TypeOK, RestTypeOK, Terminal, Shutdown, rows, worker, submitter, callers, env, events
    <2> QED BY <2>1, <2>2, <2>3 DEF TypeOK
  <1>31. ASSUME Restart PROVE TypeOK'
    <2>1. RowsTypeOK'
      BY <1>31 DEF TypeOK, RowsTypeOK, Restart, rows, worker, submitter, callers, env
    <2>2. QueueTypeOK'
      BY <1>31 DEF Recoverable, TypeOK, QueueTypeOK, Restart, rows, worker, submitter, callers, env
    <2>3. WorkerTypeOK'
      BY <1>31 DEF TypeOK, WorkerTypeOK, WorkerPC, Registered, Restart, rows, worker, submitter, callers, env
    <2>4. RestTypeOK'
      <3>1. active' \in [Job -> Worker \cup {None}] /\ stopping' \in BOOLEAN
        BY <1>31 DEF Restart
      <3>2. /\ cpc' \in [Caller -> {"idle", "get", "write"}]
            /\ cjob' \in [Caller -> Job \cup {None}]
            /\ \A c \in Caller : cpc'[c] # "idle" => cjob'[c] # None
        BY <1>31 DEF Restart
      <3>3. restarts' \in 0 .. MaxRestarts
        BY <1>31 DEF Restart, TypeOK, RestTypeOK
      <3>4. \A v \in Worker : saying[v] # NoEvent => saying[v].job \in Job
        BY DEF TypeOK, RestTypeOK, Event
      <3>5. /\ told' \in [Job -> Terminal \cup {"nothing"}]
            /\ saying' \in [Worker -> Event \cup {NoEvent}]
            /\ silent' \subseteq Job
        BY <1>31, <3>4 DEF Restart, TypeOK, RestTypeOK
      <3> QED BY <1>31, <3>1, <3>2, <3>3, <3>5 DEF Restart, TypeOK, RestTypeOK
    <2>5. ASSUME NEW v \in Worker PROVE WorkerFits(v)'
      BY <1>31 DEF TypeOK, WorkerTypeOK, WorkerFits, BeforeOutcome, Restart, rows, worker, submitter, callers, env
    <2> QED BY <2>1, <2>2, <2>3, <2>4, <2>5 DEF TypeOK
  <1>33. ASSUME NEW w \in Worker, Publish(w) PROVE TypeOK'
    <2>1. saying[w].job \in Job /\ saying[w].status \in Terminal
      BY <1>33 DEF TypeOK, RestTypeOK, Event, Publish
    <2>2. RowsTypeOK' /\ QueueTypeOK' /\ WorkerTypeOK'
      BY <1>33 DEF TypeOK, RowsTypeOK, QueueTypeOK, WorkerTypeOK, Publish, rows, worker, submitter
    <2>3. \A v \in Worker : WorkerFits(v)'
      BY <1>33 DEF TypeOK, WorkerFits, Publish, worker
    <2>4. RestTypeOK'
      BY <1>33, <2>1 DEF TypeOK, RestTypeOK, Publish, callers, env
    <2> QED BY <2>2, <2>3, <2>4 DEF TypeOK
  <1>32. CASE UNCHANGED vars
    BY <1>32 DEF vars, rows, worker, submitter, callers, env, events, TypeOK, RowsTypeOK, QueueTypeOK,
                WorkerTypeOK, RestTypeOK, WorkerFits
  <1> QED
    BY <1>1, <1>2, <1>3, <1>4, <1>5, <1>6, <1>7, <1>8, <1>9, <1>10, <1>11, <1>12, <1>13, <1>14, <1>15, <1>16, <1>17, <1>18, <1>19, <1>20, <1>21, <1>22, <1>23, <1>24, <1>25, <1>26, <1>27, <1>28, <1>29, <1>30, <1>31, <1>32, <1>33
    DEF Next, Submit, Work, Cancel

(***************************************************************************)
(* Clearance.  The history of a row only grows, so that a job once cleared *)
(* stays cleared; what is left for each action is where a job may become   *)
(* ready, be sent, be taken or be checked.                                 *)
(***************************************************************************)

HistoryGrows == RowHeld' /\ \A j \in Job : held[j] \subseteq held'[j]

LEMMA HistoryOfUnchangedRows ==
  ASSUME RowHeld, UNCHANGED <<status, held>>
  PROVE  HistoryGrows
  BY DEF HistoryGrows, RowHeld, Exists

LEMMA HistoryOfSetStatus ==
  ASSUME TypeOK, RowHeld, NEW j, NEW s, SetStatus(j, s)
  PROVE  HistoryGrows
  BY DEF HistoryGrows, RowHeld, Exists, SetStatus, TypeOK, RowsTypeOK

LEMMA ClearedStays ==
  ASSUME HistoryGrows, NEW j \in Job, Cleared(j)
  PROVE  \A p \in Deps[j] : "succeeded" \in held'[p]
  BY ConstantsAssumption DEF Cleared, HistoryGrows

LEMMA ReadyStays ==
  ASSUME Clearance, HistoryGrows, \A j \in Job : dep'[j] = "ready" => dep[j] = "ready"
  PROVE  ReadyCleared'
  BY ClearedStays DEF Clearance, ReadyCleared, Cleared

LEMMA QueueStays ==
  ASSUME TypeOK, Clearance, HistoryGrows, UNCHANGED queue
  PROVE  QueueCleared'
  <1> SUFFICES ASSUME NEW i \in DOMAIN queue
               PROVE  \A p \in Deps[queue[i]] : "succeeded" \in held'[p]
    BY DEF QueueCleared, Cleared
  <1>1. queue[i] \in Job
    BY DEF TypeOK, QueueTypeOK
  <1> QED BY <1>1, ClearedStays DEF Clearance, QueueCleared

LEMMA SubmitStays ==
  ASSUME TypeOK, Clearance, HistoryGrows, toEnqueue' \subseteq toEnqueue
  PROVE  SubmitCleared'
  BY ClearedStays DEF Clearance, SubmitCleared, Cleared, TypeOK, QueueTypeOK

\* A worker moves without taking up a job, a check or a release.
Moves(w) ==
  /\ cur'[w] \in {cur[w], None}
  /\ pc'[w] = "check" => pc[w] = "check" /\ UNCHANGED <<item[w], need[w]>>
  /\ pc'[w] = "enqueue" => pc[w] = "enqueue" /\ UNCHANGED item[w]

\* What Clearance says of one worker, in the next state.
WorkerCleared(w) ==
  /\ cur[w] # None => Cleared(cur[w])
  /\ pc[w] = "check" => \A p \in Deps[item[w].job] \ need[w] : "succeeded" \in held[p]
  /\ pc[w] = "enqueue" => Cleared(item[w].job)

LEMMA WorkerStays ==
  ASSUME TypeOK, Clearance, HistoryGrows, NEW w \in Worker, Moves(w)
  PROVE  WorkerCleared(w)'
  <1>1. ASSUME cur'[w] # None
        PROVE  \A p \in Deps[cur'[w]] : "succeeded" \in held'[p]
    <2>1. cur'[w] = cur[w] /\ cur[w] \in Job
      BY <1>1 DEF Moves, TypeOK, WorkerTypeOK
    <2>2. Cleared(cur[w])
      BY <1>1, <2>1 DEF Clearance, DependencyOrder
    <2> QED BY <2>1, <2>2, ClearedStays
  <1>2. ASSUME pc'[w] = "check", NEW p \in Deps[item'[w].job] \ need'[w]
        PROVE  "succeeded" \in held'[p]
    <2>1. pc[w] = "check" /\ UNCHANGED <<item[w], need[w]>>
      BY <1>2 DEF Moves
    <2>2. item[w].job \in Job
      BY <2>1, ItemIsSnapshot DEF Snapshot
    <2>3. p \in Deps[item[w].job] \ need[w]
      BY <1>2, <2>1
    <2>4. p \in Job /\ "succeeded" \in held[p]
      BY ConstantsAssumption, <2>1, <2>2, <2>3 DEF Clearance, CheckSound
    <2> QED BY <2>4 DEF HistoryGrows
  <1>3. ASSUME pc'[w] = "enqueue"
        PROVE  \A p \in Deps[item'[w].job] : "succeeded" \in held'[p]
    <2>1. pc[w] = "enqueue" /\ UNCHANGED item[w]
      BY <1>3 DEF Moves
    <2>2. item[w].job \in Job
      BY <2>1, ItemIsSnapshot DEF Snapshot
    <2>3. Cleared(item[w].job)
      BY <2>1 DEF Clearance, ReleaseCleared
    <2> QED BY <2>1, <2>2, <2>3, ClearedStays
  <1> QED BY <1>1, <1>2, <1>3 DEF WorkerCleared, Cleared

LEMMA ClearanceFromParts ==
  ASSUME HistoryGrows, ReadyCleared', QueueCleared', SubmitCleared',
         \A w \in Worker : WorkerCleared(w)'
  PROVE  Clearance'
  BY DEF HistoryGrows, Clearance, WorkerCleared, CheckSound, ReleaseCleared,
         DependencyOrder

LEMMA ClearanceStays ==
  ASSUME TypeOK, Clearance, HistoryGrows, UNCHANGED <<dep, queue, toEnqueue>>,
         \A w \in Worker : Moves(w)
  PROVE  Clearance'
  BY ReadyStays, QueueStays, SubmitStays, WorkerStays, ClearanceFromParts

LEMMA EnqueueClears ==
  ASSUME TypeOK, Clearance, HistoryGrows, NEW j \in Job, Cleared(j), Enqueue(j)
  PROVE  QueueCleared'
  <1>1. CASE UNCHANGED queue
    BY <1>1, QueueStays
  <1>2. CASE queue' = Append(queue, j)
    <2> SUFFICES ASSUME NEW i \in DOMAIN queue'
                 PROVE  \A p \in Deps[queue'[i]] : "succeeded" \in held'[p]
      BY DEF QueueCleared, Cleared
    <2>1. \/ queue'[i] = j
          \/ i \in DOMAIN queue /\ queue'[i] = queue[i] /\ queue[i] \in Job
      BY <1>2 DEF TypeOK, QueueTypeOK
    <2> QED BY <2>1, ClearedStays DEF Clearance, QueueCleared
  <1> QED BY <1>1, <1>2 DEF Enqueue

LEMMA ClearanceStep == TypeOK /\ Clearance /\ [Next]_vars => Clearance'
  <1> SUFFICES ASSUME TypeOK, Clearance, [Next]_vars PROVE Clearance'
    OBVIOUS
  <1>row. RowHeld
    BY DEF Clearance
  <1>1. ASSUME NEW j \in Job, CreateJob(j) PROVE Clearance'
    <2>1. HistoryGrows
      BY <1>1, <1>row DEF CreateJob, HistoryGrows, RowHeld, Exists, TypeOK, RowsTypeOK
    <2>2. ReadyCleared'
      <3> SUFFICES ASSUME NEW k \in Job, dep'[k] = "ready", NEW p \in Deps[k]
                   PROVE  "succeeded" \in held'[p]
        BY DEF ReadyCleared, Cleared
      <3>1. k # j /\ dep[k] = "ready"
        BY <1>1 DEF InitialDep, CreateJob, TypeOK, RowsTypeOK
      <3> QED BY <2>1, <3>1, ClearedStays DEF Clearance, ReadyCleared
    <2>3. SubmitCleared'
      <3> SUFFICES ASSUME NEW k \in toEnqueue', NEW p \in Deps[k]
                   PROVE  "succeeded" \in held'[p]
        BY DEF SubmitCleared, Cleared
      <3>1. k \in Job /\ k \in toEnqueue
        BY <1>1 DEF EnqueuedOnSubmit, InitialDep, CreateJob, TypeOK, QueueTypeOK
      <3> QED BY <2>1, <3>1, ClearedStays DEF Clearance, SubmitCleared
    <2>4. QueueCleared' /\ \A w \in Worker : Moves(w)
      BY <1>1, <2>1, QueueStays DEF CreateJob, Moves, worker
    <2> QED BY <2>1, <2>2, <2>3, <2>4, WorkerStays, ClearanceFromParts
  <1>2. ASSUME NEW j \in Job, EnqueueCreated(j) PROVE Clearance'
    <2>1. HistoryGrows
      BY <1>2, <1>row, HistoryOfUnchangedRows DEF EnqueueCreated, rows
    <2>2. ReadyCleared' /\ SubmitCleared' /\ \A w \in Worker : Moves(w)
      BY <1>2, <2>1, ReadyStays, SubmitStays DEF EnqueueCreated, Moves, rows, worker
    <2>3. QueueCleared'
      BY <1>2, <2>1, EnqueueClears DEF EnqueueCreated, Clearance, SubmitCleared
    <2> QED BY <2>1, <2>2, <2>3, WorkerStays, ClearanceFromParts
  <1>3. ASSUME CreateFails PROVE Clearance'
    <2>1. HistoryGrows
      BY <1>3, <1>row, HistoryOfUnchangedRows DEF CreateFails, rows
    <2>2. UNCHANGED <<dep, queue>> /\ toEnqueue' \subseteq toEnqueue
      BY <1>3 DEF CreateFails, rows
    <2>3. \A w \in Worker : Moves(w)
      BY <1>3 DEF CreateFails, Moves, worker
    <2> QED BY <2>1, <2>2, <2>3, ReadyStays, QueueStays, SubmitStays, WorkerStays,
               ClearanceFromParts
  <1>4. ASSUME NEW w \in Worker, Pick(w) PROVE Clearance'
    <2>1. HistoryGrows
      BY <1>4, <1>row, HistoryOfUnchangedRows DEF Pick, rows
    <2>2. ReadyCleared' /\ SubmitCleared'
      BY <1>4, <2>1, ReadyStays, SubmitStays DEF Pick, rows, submitter
    <2>3. Head(queue) \in Job /\ Cleared(Head(queue))
      BY <1>4 DEF Pick, TypeOK, QueueTypeOK, Clearance, QueueCleared
    <2>4. QueueCleared'
      <3> SUFFICES ASSUME NEW i \in DOMAIN Tail(queue)
                   PROVE  \A p \in Deps[Tail(queue)[i]] : "succeeded" \in held'[p]
        BY <1>4 DEF Pick, QueueCleared, Cleared
      <3>1. i + 1 \in DOMAIN queue /\ Tail(queue)[i] = queue[i + 1] /\ queue[i + 1] \in Job
        BY <1>4 DEF Pick, TypeOK, QueueTypeOK
      <3> QED BY <2>1, <3>1, ClearedStays DEF Clearance, QueueCleared
    <2>5. ASSUME NEW v \in Worker PROVE WorkerCleared(v)'
      <3>1. CASE v = w
        <4>1. pc'[v] = "get" /\ cur'[v] = Head(queue)
          BY <1>4, <3>1 DEF Pick, Goto, TypeOK, WorkerTypeOK
        <4>2. \A p \in Deps[cur'[v]] : "succeeded" \in held'[p]
          BY <2>1, <2>3, <4>1, ClearedStays
        <4> QED BY <4>1, <4>2 DEF WorkerCleared, Cleared
      <3>2. CASE v # w
        BY <1>4, <2>1, <3>2, WorkerStays DEF Pick, Goto, Moves
      <3> QED BY <3>1, <3>2
    <2> QED BY <2>1, <2>2, <2>4, <2>5, ClearanceFromParts
  <1>5. ASSUME NEW w \in Worker, StartDrain(w) PROVE Clearance'
    <2>1. HistoryGrows
      BY <1>5, <1>row, HistoryOfUnchangedRows DEF StartDrain, rows
    <2>2. UNCHANGED <<dep, queue, toEnqueue>>
      BY <1>5 DEF StartDrain, rows, submitter
    <2>3. \A v \in Worker : Moves(v)
      BY <1>5 DEF StartDrain, Goto, Moves, TypeOK, WorkerTypeOK
    <2> QED BY <2>1, <2>2, <2>3, ClearanceStays
  <1>6. ASSUME NEW w \in Worker, Exit(w) PROVE Clearance'
    <2>1. HistoryGrows
      BY <1>6, <1>row, HistoryOfUnchangedRows DEF Exit, rows
    <2>2. UNCHANGED <<dep, queue, toEnqueue>>
      BY <1>6 DEF Exit, rows, submitter
    <2>3. \A v \in Worker : Moves(v)
      BY <1>6 DEF Exit, Goto, Moves, TypeOK, WorkerTypeOK
    <2> QED BY <2>1, <2>2, <2>3, ClearanceStays
  <1>7. ASSUME NEW w \in Worker, DrainTimeout(w) PROVE Clearance'
    <2>1. HistoryGrows
      BY <1>7, <1>row, HistoryOfUnchangedRows DEF DrainTimeout, rows
    <2>2. UNCHANGED <<dep, queue, toEnqueue>>
      BY <1>7 DEF DrainTimeout, rows, submitter
    <2>3. \A v \in Worker : Moves(v)
      BY <1>7 DEF DrainTimeout, Goto, Moves, TypeOK, WorkerTypeOK
    <2> QED BY <2>1, <2>2, <2>3, ClearanceStays
  <1>8. ASSUME NEW w \in Worker, SkipFinished(w) PROVE Clearance'
    <2>1. HistoryGrows
      BY <1>8, <1>row, HistoryOfUnchangedRows DEF SkipFinished, rows
    <2>2. UNCHANGED <<dep, queue, toEnqueue>>
      BY <1>8 DEF SkipFinished, rows, submitter
    <2>3. \A v \in Worker : Moves(v)
      BY <1>8 DEF SkipFinished, Return, Goto, Moves, TypeOK, WorkerTypeOK
    <2> QED BY <2>1, <2>2, <2>3, ClearanceStays
  <1>9. ASSUME NEW w \in Worker, LoadJob(w) PROVE Clearance'
    <2>1. HistoryGrows
      BY <1>9, <1>row, HistoryOfUnchangedRows DEF LoadJob, rows
    <2>2. UNCHANGED <<dep, queue, toEnqueue>>
      BY <1>9 DEF LoadJob, rows, submitter
    <2>3. \A v \in Worker : Moves(v)
      BY <1>9 DEF LoadJob, Goto, Moves, TypeOK, WorkerTypeOK
    <2> QED BY <2>1, <2>2, <2>3, ClearanceStays
  <1>10. ASSUME NEW w \in Worker, MarkRunning(w) PROVE Clearance'
    <2>1. HistoryGrows
      BY <1>10, <1>row, HistoryOfSetStatus DEF MarkRunning
    <2>2. UNCHANGED <<dep, queue, toEnqueue>>
      BY <1>10 DEF MarkRunning, rows, submitter
    <2>3. \A v \in Worker : Moves(v)
      BY <1>10 DEF MarkRunning, Goto, Moves, TypeOK, WorkerTypeOK
    <2> QED BY <2>1, <2>2, <2>3, ClearanceStays
  <1>11. ASSUME NEW w \in Worker, Register(w) PROVE Clearance'
    <2>1. HistoryGrows
      BY <1>11, <1>row, HistoryOfUnchangedRows DEF Register, rows
    <2>2. UNCHANGED <<dep, queue, toEnqueue>>
      BY <1>11 DEF Register, rows, submitter
    <2>3. \A v \in Worker : Moves(v)
      BY <1>11 DEF Register, Goto, Moves, TypeOK, WorkerTypeOK
    <2> QED BY <2>1, <2>2, <2>3, ClearanceStays
  <1>12. ASSUME NEW w \in Worker, Execute(w) PROVE Clearance'
    <2>1. HistoryGrows
      BY <1>12, <1>row, HistoryOfUnchangedRows DEF Execute, rows
    <2>2. UNCHANGED <<dep, queue, toEnqueue>>
      BY <1>12 DEF Execute, rows, submitter
    <2>3. \A v \in Worker : Moves(v)
      BY <1>12 DEF Execute, RunOutcome, Goto, Moves, TypeOK, WorkerTypeOK
    <2> QED BY <2>1, <2>2, <2>3, ClearanceStays
  <1>13. ASSUME NEW w \in Worker, RecordSetupFailure(w) PROVE Clearance'
    <2>1. HistoryGrows
      BY <1>13, <1>row, HistoryOfSetStatus DEF RecordSetupFailure
    <2>2. UNCHANGED <<dep, queue, toEnqueue>>
      BY <1>13 DEF RecordSetupFailure, rows, submitter
    <2>3. \A v \in Worker : Moves(v)
      BY <1>13 DEF RecordSetupFailure, Goto, Moves, TypeOK, WorkerTypeOK
    <2> QED BY <2>1, <2>2, <2>3, ClearanceStays
  <1>14. ASSUME NEW w \in Worker, Finish(w) PROVE Clearance'
    <2>1. HistoryGrows
      BY <1>14, <1>row, HistoryOfSetStatus DEF Finish
    <2>2. UNCHANGED <<dep, queue, toEnqueue>>
      BY <1>14 DEF Finish, rows, submitter
    <2>3. \A v \in Worker : Moves(v)
      BY <1>14 DEF Finish, Goto, Moves, TypeOK, WorkerTypeOK
    <2> QED BY <2>1, <2>2, <2>3, ClearanceStays
  <1>15. ASSUME NEW w \in Worker, Cleanup(w) PROVE Clearance'
    <2>1. HistoryGrows
      BY <1>15, <1>row, HistoryOfUnchangedRows DEF Cleanup, rows
    <2>2. UNCHANGED <<dep, queue, toEnqueue>>
      BY <1>15 DEF Cleanup, rows, submitter
    <2>3. \A v \in Worker : Moves(v)
      BY <1>15 DEF Cleanup, Return, Goto, Moves, TypeOK, WorkerTypeOK
    <2> QED BY <2>1, <2>2, <2>3, ClearanceStays
  <1>16. ASSUME NEW w \in Worker, QueryPendingDependents(w) PROVE Clearance'
    <2>1. HistoryGrows
      BY <1>16, <1>row, HistoryOfUnchangedRows DEF QueryPendingDependents, rows
    <2>2. UNCHANGED <<dep, queue, toEnqueue>>
      BY <1>16 DEF QueryPendingDependents, rows, submitter
    <2>3. \A v \in Worker : Moves(v)
      BY <1>16 DEF QueryPendingDependents, Goto, Moves, TypeOK, WorkerTypeOK
    <2> QED BY <2>1, <2>2, <2>3, ClearanceStays
  <1>17. ASSUME NEW w \in Worker, ResolveNext(w) PROVE Clearance'
    <2>1. HistoryGrows
      BY <1>17, <1>row, HistoryOfUnchangedRows DEF ResolveNext, rows
    <2>2. ReadyCleared' /\ QueueCleared' /\ SubmitCleared'
      BY <1>17, <2>1, ReadyStays, QueueStays, SubmitStays DEF ResolveNext, rows, submitter
    <2>3. ASSUME NEW v \in Worker PROVE WorkerCleared(v)'
      <3>1. CASE v # w \/ Goto(w, "cleanup")
        BY <1>17, <2>1, <3>1, WorkerStays DEF ResolveNext, Goto, Moves, TypeOK, WorkerTypeOK
      <3>2. CASE v = w /\ Goto(w, "check")
        <4>1. pc'[v] = "check" /\ need'[v] = Deps[item'[v].job]
          BY <1>17, <3>2 DEF ResolveNext, Goto, TypeOK, WorkerTypeOK
        <4>2. cur'[v] # None => \A p \in Deps[cur'[v]] : "succeeded" \in held'[p]
          BY <1>17, <2>1, ClearedStays
             DEF ResolveNext, Clearance, DependencyOrder, TypeOK, WorkerTypeOK
        <4> QED BY <4>1, <4>2 DEF WorkerCleared, Cleared
      <3> QED BY <1>17, <3>1, <3>2 DEF ResolveNext
    <2> QED BY <2>1, <2>2, <2>3, ClearanceFromParts
  <1>18. ASSUME NEW w \in Worker, CheckDependency(w) PROVE Clearance'
    <2>1. HistoryGrows
      BY <1>18, <1>row, HistoryOfUnchangedRows DEF CheckDependency, rows
    <2>2. ReadyCleared' /\ QueueCleared' /\ SubmitCleared'
      BY <1>18, <2>1, ReadyStays, QueueStays, SubmitStays DEF CheckDependency, rows, submitter
    <2>3. ASSUME NEW v \in Worker PROVE WorkerCleared(v)'
      <3>1. CASE v # w \/ Goto(w, "resolveNext")
        BY <1>18, <2>1, <3>1, WorkerStays DEF CheckDependency, Goto, Moves, TypeOK, WorkerTypeOK
      <3>2. ASSUME v = w, NEW q \in need[w], status[q] = "succeeded",
                   need' = [need EXCEPT ![w] = @ \ {q}], UNCHANGED pc
            PROVE  WorkerCleared(v)'
        <4>1. /\ pc[w] = "check" /\ UNCHANGED <<pc, cur, item>>
              /\ need'[w] = need[w] \ {q}
          BY <1>18, <3>2 DEF CheckDependency, TypeOK, WorkerTypeOK
        <4>2. q \in Job /\ "succeeded" \in held'[q]
          BY <2>1, <3>2 DEF TypeOK, WorkerTypeOK, Clearance, RowHeld, Exists, HistoryGrows
        <4>3. item[w].job \in Job
          BY <4>1, ItemIsSnapshot DEF Snapshot
        <4>4. \A p \in Deps[item[w].job] \ need[w] : p \in Job /\ "succeeded" \in held[p]
          BY ConstantsAssumption, <4>1, <4>3 DEF Clearance, CheckSound
        <4>5. \A p \in Deps[item'[v].job] \ need'[v] : "succeeded" \in held'[p]
          BY <2>1, <3>2, <4>1, <4>2, <4>4 DEF HistoryGrows
        <4>6. cur'[v] # None => \A p \in Deps[cur'[v]] : "succeeded" \in held'[p]
          BY <2>1, <4>1, ClearedStays DEF Clearance, DependencyOrder, TypeOK, WorkerTypeOK
        <4> QED BY <3>2, <4>1, <4>5, <4>6 DEF WorkerCleared, Cleared
      <3> QED BY <1>18, <3>1, <3>2 DEF DependencyMet, CheckDependency
    <2> QED BY <2>1, <2>2, <2>3, ClearanceFromParts
  <1>19. ASSUME NEW w \in Worker, MarkReady(w) PROVE Clearance'
    <2>1. HistoryGrows
      BY <1>19, <1>row, HistoryOfUnchangedRows DEF MarkReady, AfterReady
    <2>2. item[w].job \in Job /\ Cleared(item[w].job)
      BY <1>19, ItemIsSnapshot DEF MarkReady, AfterReady, Snapshot, Clearance, CheckSound, Cleared
    <2>3. ReadyCleared'
      <3> SUFFICES ASSUME NEW k \in Job, dep'[k] = "ready"
                   PROVE  \A p \in Deps[k] : "succeeded" \in held'[p]
        BY DEF ReadyCleared, Cleared
      <3>1. k = item[w].job \/ dep[k] = "ready"
        BY <1>19 DEF MarkReady, AfterReady, SetDep, TypeOK, RowsTypeOK
      <3> QED BY <2>1, <2>2, <3>1, ClearedStays DEF Clearance, ReadyCleared
    <2>4. QueueCleared' /\ SubmitCleared'
      BY <1>19, <2>1, QueueStays, SubmitStays DEF MarkReady, AfterReady, submitter
    <2>5. ASSUME NEW v \in Worker PROVE WorkerCleared(v)'
      <3>1. CASE pc'[v] # "enqueue" \/ v # w
        BY <1>19, <2>1, <3>1, WorkerStays DEF MarkReady, AfterReady, Goto, Moves, TypeOK, WorkerTypeOK
      <3>2. CASE pc'[v] = "enqueue" /\ v = w
        <4>1. \A p \in Deps[item'[v].job] : "succeeded" \in held'[p]
          BY <1>19, <2>1, <2>2, <3>2, ClearedStays DEF MarkReady, AfterReady
        <4>2. cur'[v] # None => \A p \in Deps[cur'[v]] : "succeeded" \in held'[p]
          BY <1>19, <2>1, ClearedStays
             DEF MarkReady, AfterReady, Clearance, DependencyOrder, TypeOK, WorkerTypeOK
        <4> QED BY <3>2, <4>1, <4>2 DEF WorkerCleared, Cleared
      <3> QED BY <3>1, <3>2
    <2> QED BY <2>1, <2>3, <2>4, <2>5, ClearanceFromParts
  <1>20. ASSUME NEW w \in Worker, EnqueueDependent(w) PROVE Clearance'
    <2>1. HistoryGrows
      BY <1>20, <1>row, HistoryOfUnchangedRows DEF EnqueueDependent, rows
    <2>2. ReadyCleared' /\ SubmitCleared'
      BY <1>20, <2>1, ReadyStays, SubmitStays DEF EnqueueDependent, rows, submitter
    <2>3. \A v \in Worker : Moves(v)
      BY <1>20 DEF EnqueueDependent, Goto, Moves, TypeOK, WorkerTypeOK
    <2>4. item[w].job \in Job /\ Cleared(item[w].job)
      BY <1>20, ItemIsSnapshot DEF EnqueueDependent, Snapshot, Clearance, ReleaseCleared
    <2>5. QueueCleared'
      BY <1>20, <2>1, <2>4, EnqueueClears DEF EnqueueDependent
    <2> QED BY <2>1, <2>2, <2>3, <2>5, WorkerStays, ClearanceFromParts
  <1>21. ASSUME NEW w \in Worker, QueryLiveDependents(w) PROVE Clearance'
    <2>1. HistoryGrows
      BY <1>21, <1>row, HistoryOfUnchangedRows DEF QueryLiveDependents, rows
    <2>2. UNCHANGED <<dep, queue, toEnqueue>>
      BY <1>21 DEF QueryLiveDependents, rows, submitter
    <2>3. \A v \in Worker : Moves(v)
      BY <1>21 DEF QueryLiveDependents, Goto, Moves, TypeOK, WorkerTypeOK
    <2> QED BY <2>1, <2>2, <2>3, ClearanceStays
  <1>22. ASSUME NEW w \in Worker, PropagateNext(w) PROVE Clearance'
    <2>1. HistoryGrows
      BY <1>22, <1>row, HistoryOfUnchangedRows DEF PropagateNext, rows
    <2>2. UNCHANGED <<dep, queue, toEnqueue>>
      BY <1>22 DEF PropagateNext, rows, submitter
    <2>3. \A v \in Worker : Moves(v)
      BY <1>22 DEF PropagateNext, Goto, Moves, TypeOK, WorkerTypeOK
    <2> QED BY <2>1, <2>2, <2>3, ClearanceStays
  <1>23. ASSUME NEW w \in Worker, FailDependency(w) PROVE Clearance'
    <2>1. HistoryGrows
      BY <1>23, <1>row, HistoryOfUnchangedRows DEF FailDependency
    <2>2. ReadyCleared'
      BY <1>23, <2>1, ReadyStays DEF FailDependency, SetDep, TypeOK, RowsTypeOK
    <2>3. QueueCleared' /\ SubmitCleared' /\ \A v \in Worker : Moves(v)
      BY <1>23, <2>1, QueueStays, SubmitStays
         DEF FailDependency, submitter, Goto, Moves, TypeOK, WorkerTypeOK
    <2> QED BY <2>1, <2>2, <2>3, WorkerStays, ClearanceFromParts
  <1>24. ASSUME NEW w \in Worker, FailDependent(w) PROVE Clearance'
    <2>1. HistoryGrows
      BY <1>24, <1>row, HistoryOfSetStatus DEF FailDependent
    <2>2. UNCHANGED <<dep, queue, toEnqueue>>
      BY <1>24 DEF FailDependent, rows, submitter
    <2>3. \A v \in Worker : Moves(v)
      BY <1>24 DEF FailDependent, Goto, Moves, TypeOK, WorkerTypeOK
    <2> QED BY <2>1, <2>2, <2>3, ClearanceStays
  <1>25. ASSUME NEW w \in Worker, StoreFault(w) PROVE Clearance'
    <2>1. HistoryGrows
      BY <1>25, <1>row, HistoryOfUnchangedRows DEF StoreFault, rows
    <2>2. UNCHANGED <<dep, queue, toEnqueue>>
      BY <1>25 DEF StoreFault, rows, submitter
    <2>3. \A v \in Worker : Moves(v)
      BY <1>25 DEF StoreFault, OnError, WorkerPC, Goto, Moves, TypeOK, WorkerTypeOK
    <2> QED BY <2>1, <2>2, <2>3, ClearanceStays
  <1>26. ASSUME NEW c \in Caller, NEW j \in Job, CancelLookup(c, j) PROVE Clearance'
    <2>1. HistoryGrows
      BY <1>26, <1>row, HistoryOfUnchangedRows DEF CancelLookup, rows
    <2>2. UNCHANGED <<dep, queue, toEnqueue>>
      BY <1>26 DEF CancelLookup, rows, submitter
    <2>3. \A v \in Worker : Moves(v)
      BY <1>26 DEF CancelLookup, Moves, worker
    <2> QED BY <2>1, <2>2, <2>3, ClearanceStays
  <1>27. ASSUME NEW c \in Caller, CancelRead(c) PROVE Clearance'
    <2>1. HistoryGrows
      BY <1>27, <1>row, HistoryOfUnchangedRows DEF CancelRead, rows
    <2>2. UNCHANGED <<dep, queue, toEnqueue>>
      BY <1>27 DEF CancelRead, rows, submitter
    <2>3. \A v \in Worker : Moves(v)
      BY <1>27 DEF CancelRead, Moves, worker
    <2> QED BY <2>1, <2>2, <2>3, ClearanceStays
  <1>28. ASSUME NEW c \in Caller, CancelWrite(c) PROVE Clearance'
    <2>1. HistoryGrows
      BY <1>28, <1>row, HistoryOfSetStatus DEF CancelWrite
    <2>2. UNCHANGED <<dep, queue, toEnqueue>>
      BY <1>28 DEF CancelWrite, rows, submitter
    <2>3. \A v \in Worker : Moves(v)
      BY <1>28 DEF CancelWrite, Moves, worker
    <2> QED BY <2>1, <2>2, <2>3, ClearanceStays
  <1>29. ASSUME NEW j \in Job, DeleteJob(j) PROVE Clearance'
    <2>1. HistoryGrows
      BY <1>29, <1>row DEF DeleteJob, HistoryGrows, RowHeld, Exists, TypeOK, RowsTypeOK
    <2>2. UNCHANGED <<dep, queue, toEnqueue>> /\ \A w \in Worker : Moves(w)
      BY <1>29 DEF DeleteJob, Moves, worker, submitter
    <2> QED BY <2>1, <2>2, ClearanceStays
  <1>30. ASSUME Shutdown PROVE Clearance'
    <2>1. HistoryGrows
      BY <1>30, <1>row, HistoryOfUnchangedRows DEF Shutdown, rows
    <2>2. UNCHANGED <<dep, queue, toEnqueue>>
      BY <1>30 DEF Shutdown, rows, submitter
    <2>3. \A v \in Worker : Moves(v)
      BY <1>30 DEF Shutdown, Moves, worker
    <2> QED BY <2>1, <2>2, <2>3, ClearanceStays
  <1>31. ASSUME Restart PROVE Clearance'
    <2>1. HistoryGrows
      BY <1>31, <1>row, HistoryOfUnchangedRows DEF Restart, rows
    <2>2. ReadyCleared' /\ SubmitCleared'
      BY <1>31, <2>1, ReadyStays, SubmitStays DEF Restart, rows
    <2>3. QueueCleared'
      <3> SUFFICES ASSUME NEW i \in DOMAIN queue'
                   PROVE  \A p \in Deps[queue'[i]] : "succeeded" \in held'[p]
        BY DEF QueueCleared, Cleared
      <3>1. queue'[i] \in Job /\ dep[queue'[i]] = "ready"
        BY <1>31 DEF Recoverable, Restart
      <3> QED BY <2>1, <3>1, ClearedStays DEF Clearance, ReadyCleared
    <2>4. \A w \in Worker : Moves(w)
      BY <1>31 DEF Restart, Moves
    <2> QED BY <2>1, <2>2, <2>3, <2>4, WorkerStays, ClearanceFromParts
  <1>33. ASSUME NEW w \in Worker, Publish(w) PROVE Clearance'
    <2>1. HistoryGrows
      BY <1>33, <1>row, HistoryOfUnchangedRows DEF Publish, rows
    <2> QED BY <1>33, <2>1, ClearanceStays DEF Publish, rows, worker, submitter, Moves
  <1>32. CASE UNCHANGED vars
    <2>1. HistoryGrows
      BY <1>32, <1>row, HistoryOfUnchangedRows DEF vars, rows
    <2> QED BY <1>32, <2>1, ClearanceStays DEF vars, rows, worker, submitter, Moves
  <1> QED
    BY <1>1, <1>2, <1>3, <1>4, <1>5, <1>6, <1>7, <1>8, <1>9, <1>10, <1>11, <1>12, <1>13, <1>14, <1>15,
       <1>16, <1>17, <1>18, <1>19, <1>20, <1>21, <1>22, <1>23, <1>24, <1>25, <1>26, <1>27, <1>28, <1>29, <1>30, <1>31, <1>32, <1>33
    DEF Next, Submit, Work, Cancel

(***************************************************************************)
(* The theorems                                                            *)
(***************************************************************************)

LEMMA TypeInit == Init => TypeOK
  <1> USE ConstantsAssumption
  <1> SUFFICES ASSUME Init PROVE TypeOK
    OBVIOUS
  <1>1. RowsTypeOK
    BY DEF Init, RowsTypeOK, Status, DepStatus
  <1>2. QueueTypeOK
    BY DEF Init, QueueTypeOK
  <1>3. WorkerTypeOK
    BY DEF Init, WorkerTypeOK, WorkerPC
  <1>4. RestTypeOK
    <2>1. /\ active \in [Job -> Worker \cup {None}]
          /\ told \in [Job -> Terminal \cup {"nothing"}]
          /\ saying \in [Worker -> Event \cup {NoEvent}] /\ silent = {}
      BY DEF Init
    <2>2. /\ cpc \in [Caller -> {"idle", "get", "write"}]
          /\ cjob \in [Caller -> Job \cup {None}]
          /\ \A c \in Caller : cpc[c] # "idle" => cjob[c] # None
      BY DEF Init
    <2>3. stopping \in BOOLEAN
      BY DEF Init
    <2>4. 0 \in 0 .. MaxFaults /\ 0 \in 0 .. MaxRestarts
      OBVIOUS
    <2>5. faults = 0 /\ restarts = 0
      BY DEF Init
    <2> QED BY <2>1, <2>2, <2>3, <2>4, <2>5 DEF RestTypeOK
  <1>5. ASSUME NEW w \in Worker PROVE WorkerFits(w)
    BY DEF Init, WorkerFits, BeforeOutcome
  <1> QED BY <1>1, <1>2, <1>3, <1>4, <1>5 DEF TypeOK

LEMMA ClearanceInit == Init => Clearance
  BY DEF Init, Clearance, RowHeld, ReadyCleared, QueueCleared, SubmitCleared,
         CheckSound, ReleaseCleared, DependencyOrder, Exists

\* The tables, the queue, the registry and every local variable of the workers
\* and callers keep to their values, the queue keeps to its capacity, and a
\* worker has a job, a dependent and a frame wherever its next step reads one
\* (run, resolveDependencies and propagateFailure never use one they lack).
THEOREM TypeCorrect == Spec => []TypeOK
  <1> QED BY TypeInit, TypeStep, PTL DEF Spec

\* A ready row, a queued job, a job about to be sent and a job a worker holds
\* have all their dependencies stored as succeeded at some earlier moment, and
\* checkDependencies has seen the success of those it no longer needs to read.
THEOREM ClearanceHolds == Spec => []Clearance
  <1> QED BY TypeInit, TypeStep, ClearanceInit, ClearanceStep, PTL DEF Spec

\* The promise of the header of manager_chain.go: no worker holds a job before
\* every one of its dependencies has succeeded, whatever is canceled, deleted,
\* lost with a crash or fails in the store in between.
THEOREM DependencyOrderHolds == Spec => []DependencyOrder
  <1>1. Clearance => DependencyOrder
    BY DEF Clearance
  <1> QED BY <1>1, ClearanceHolds, PTL
(***************************************************************************)
(* Where a job is.  A job is known from the moment its row is inserted; it *)
(* is under way while it waits in the submission or the queue, a worker    *)
(* has it, or a worker has marked it ready and is about to send it.        *)
(***************************************************************************)

Known(j) == held[j] # {}
StartedPC == Registered \cup {"register"}
ReleasingPC == {"resolveNext", "check", "enqueue"}

\* A dependent that worker w has read and may release.
Dependent(w, i) ==
  /\ Known(i.job) /\ cur[w] \in Deps[i.job]
  /\ i.queued \/ status[i.job] # "queued"

WorkerKnows(w) ==
  /\ cur[w] # None => Known(cur[w])
  /\ pc[w] \in StartedPC => status[cur[w]] # "queued" \/ cur[w] \in refused
  /\ pc[w] \in ReleasingPC => \A i \in Top(w) : Dependent(w, i)
  /\ pc[w] \in {"check", "enqueue"} => Dependent(w, item[w])

JobsKnown ==
  /\ \A j \in toCreate : ~Known(j)
  /\ \A i \in DOMAIN queue : Known(queue[i])
  /\ \A j \in toEnqueue : Known(j)
  /\ \A w \in Worker : WorkerKnows(w)

Tracked == JobsKnown /\ NoLostReadyJob

\* The part of the step that concerns the rows: none is queued again.
RowsCalm ==
  /\ \A j \in Job : held[j] \subseteq held'[j]
  /\ toCreate' \subseteq toCreate /\ \A j \in toCreate' : held'[j] = held[j]
  /\ \A j \in Job : status'[j] = "queued" => status[j] = "queued"
  /\ \A j \in Job : status[j] = "absent" => status'[j] = "absent"
  /\ \A j \in Job : dep'[j] # dep[j] => dep'[j] = "failed"

\* A worker goes on without taking up a job or a dependent, or drops its job.
WorkerCalm(w) ==
  /\ cur'[w] = cur[w] \/ (cur'[w] = None /\ (status'[cur[w]] # "queued" \/ cur[w] \in refused'))
  /\ pc'[w] \in StartedPC =>
       cur'[w] = cur[w] /\ (pc[w] \in StartedPC \/ status'[cur[w]] # "queued" \/ cur[w] \in refused')
  /\ pc'[w] \in ReleasingPC =>
       /\ cur'[w] = cur[w] /\ stack'[w] = stack[w] /\ item'[w] = item[w]
       /\ pc'[w] = pc[w] \/ (pc[w] = "check" /\ pc'[w] = "resolveNext")
  /\ pc[w] = "enqueue" => pc'[w] = "enqueue"

Calm ==
  /\ RowsCalm
  /\ queue' = queue /\ toEnqueue' \subseteq toEnqueue
  /\ toEnqueue \subseteq toEnqueue' \cup refused' /\ refused \subseteq refused'
  /\ \A w \in Worker : WorkerCalm(w)

LEMMA RowsUnchanged ==
  ASSUME UNCHANGED <<status, dep, held, toCreate>>
  PROVE  RowsCalm
  BY DEF RowsCalm

LEMMA StatusSet ==
  ASSUME TypeOK, JobsKnown, RowHeld, NEW j \in Job, NEW s \in Terminal \cup {"running"},
         SetStatus(j, s), UNCHANGED <<dep, toCreate>>
  PROVE  RowsCalm /\ status'[j] # "queued"
  <1>1. \A k \in toCreate : k \in Job /\ ~Exists(k)
    BY DEF JobsKnown, Known, RowHeld, TypeOK, QueueTypeOK
  <1>2. \A k \in Job : held[k] \subseteq held'[k] /\ (~Exists(k) => held'[k] = held[k])
    BY DEF SetStatus, Exists, TypeOK, RowsTypeOK
  <1>3. \A k \in Job : status'[k] = IF k = j /\ Exists(j) THEN s ELSE status[k]
    BY DEF SetStatus
  <1>4. s # "queued" /\ s # "absent"
    BY DEF Terminal
  <1> QED BY <1>1, <1>2, <1>3, <1>4 DEF RowsCalm, Exists

LEMMA CalmSteps ==
  ASSUME TypeOK, JobsKnown, RowHeld, [Next]_vars
  PROVE  \/ Calm
         \/ \E j \in Job : CreateJob(j) \/ EnqueueCreated(j)
         \/ \E w \in Worker : Pick(w) \/ QueryPendingDependents(w) \/ ResolveNext(w)
                              \/ MarkReady(w) \/ EnqueueDependent(w)
         \/ Restart
  <1> DEFINE Quiet == UNCHANGED <<queue, toCreate, toEnqueue, refused>>
  <1>0. /\ pc \in [Worker -> WorkerPC] /\ cur \in [Worker -> Job \cup {None}]
        /\ \A w \in Worker : WorkerFits(w)
    BY DEF TypeOK, WorkerTypeOK
  <1>a. ASSUME RowsCalm, Quiet, \A v \in Worker : WorkerCalm(v) PROVE Calm
    BY <1>a DEF Calm
  <1>b. ASSUME NEW w \in Worker, pc[w] \notin {"idle", "exited"} PROVE cur[w] \in Job
    BY <1>0, <1>b DEF WorkerFits
  <1>1. ASSUME NEW w \in Worker, StartDrain(w) PROVE Calm
    <2>1. RowsCalm /\ Quiet
      BY <1>1, RowsUnchanged DEF StartDrain, rows, submitter
    <2>2. \A v \in Worker : WorkerCalm(v)
      BY <1>1, <1>0, <2>1 DEF StartDrain, Goto, WorkerCalm, StartedPC, ReleasingPC, Registered
    <2> QED BY <2>1, <2>2, <1>a
  <1>2. ASSUME NEW w \in Worker, Exit(w) PROVE Calm
    <2>1. RowsCalm /\ Quiet
      BY <1>2, RowsUnchanged DEF Exit, rows, submitter
    <2>2. \A v \in Worker : WorkerCalm(v)
      BY <1>2, <1>0, <2>1 DEF Exit, Goto, WorkerCalm, StartedPC, ReleasingPC, Registered
    <2> QED BY <2>1, <2>2, <1>a
  <1>3. ASSUME NEW w \in Worker, DrainTimeout(w) PROVE Calm
    <2>1. RowsCalm /\ Quiet
      BY <1>3, RowsUnchanged DEF DrainTimeout, rows, submitter
    <2>2. \A v \in Worker : WorkerCalm(v)
      BY <1>3, <1>0, <2>1 DEF DrainTimeout, Goto, WorkerCalm, StartedPC, ReleasingPC, Registered
    <2> QED BY <2>1, <2>2, <1>a
  <1>4. ASSUME NEW w \in Worker, SkipFinished(w) PROVE Calm
    <2>1. RowsCalm /\ Quiet
      BY <1>4, RowsUnchanged DEF SkipFinished, rows, submitter
    <2>2. \A v \in Worker : WorkerCalm(v)
      BY <1>4, <1>0, <2>1 DEF SkipFinished, Goto, WorkerCalm, StartedPC, ReleasingPC, Registered, Return, Terminal, rows
    <2> QED BY <2>1, <2>2, <1>a
  <1>5. ASSUME NEW w \in Worker, LoadJob(w) PROVE Calm
    <2>1. RowsCalm /\ Quiet
      BY <1>5, RowsUnchanged DEF LoadJob, rows, submitter
    <2>2. \A v \in Worker : WorkerCalm(v)
      BY <1>5, <1>0, <2>1 DEF LoadJob, Goto, WorkerCalm, StartedPC, ReleasingPC, Registered
    <2> QED BY <2>1, <2>2, <1>a
  <1>6. ASSUME NEW w \in Worker, MarkRunning(w) PROVE Calm
    <2>0. cur[w] \in Job
      BY <1>6, <1>b, <1>0, ItemIsSnapshot DEF MarkRunning, Snapshot
    <2>1. RowsCalm /\ Quiet /\ status'[cur[w]] # "queued"
      BY <1>6, <2>0, StatusSet DEF MarkRunning, submitter, FinalStatus, Terminal
    <2>2. \A v \in Worker : WorkerCalm(v)
      BY <1>6, <1>0, <2>1 DEF MarkRunning, Goto, WorkerCalm, StartedPC, ReleasingPC, Registered
    <2> QED BY <2>1, <2>2, <1>a
  <1>7. ASSUME NEW w \in Worker, Register(w) PROVE Calm
    <2>1. RowsCalm /\ Quiet
      BY <1>7, RowsUnchanged DEF Register, rows, submitter
    <2>2. \A v \in Worker : WorkerCalm(v)
      BY <1>7, <1>0, <2>1 DEF Register, Goto, WorkerCalm, StartedPC, ReleasingPC, Registered
    <2> QED BY <2>1, <2>2, <1>a
  <1>8. ASSUME NEW w \in Worker, Execute(w) PROVE Calm
    <2>1. RowsCalm /\ Quiet
      BY <1>8, RowsUnchanged DEF Execute, rows, submitter
    <2>2. \A v \in Worker : WorkerCalm(v)
      BY <1>8, <1>0, <2>1 DEF Execute, Goto, WorkerCalm, StartedPC, ReleasingPC, Registered, RunOutcome
    <2> QED BY <2>1, <2>2, <1>a
  <1>9. ASSUME NEW w \in Worker, RecordSetupFailure(w) PROVE Calm
    <2>0. cur[w] \in Job
      BY <1>9, <1>b, <1>0, ItemIsSnapshot DEF RecordSetupFailure, Snapshot
    <2>1. RowsCalm /\ Quiet /\ status'[cur[w]] # "queued"
      BY <1>9, <2>0, StatusSet DEF RecordSetupFailure, submitter, FinalStatus, Terminal
    <2>2. \A v \in Worker : WorkerCalm(v)
      BY <1>9, <1>0, <2>1 DEF RecordSetupFailure, Goto, WorkerCalm, StartedPC, ReleasingPC, Registered
    <2> QED BY <2>1, <2>2, <1>a
  <1>10. ASSUME NEW w \in Worker, Finish(w) PROVE Calm
    <2>0. cur[w] \in Job
      BY <1>10, <1>b, <1>0, ItemIsSnapshot DEF Finish, Snapshot
    <2>1. RowsCalm /\ Quiet /\ status'[cur[w]] # "queued"
      BY <1>10, <2>0, StatusSet DEF Finish, submitter, FinalStatus, Terminal
    <2>2. \A v \in Worker : WorkerCalm(v)
      BY <1>10, <1>0, <2>1 DEF Finish, Goto, WorkerCalm, StartedPC, ReleasingPC, Registered
    <2> QED BY <2>1, <2>2, <1>a
  <1>11. ASSUME NEW w \in Worker, Cleanup(w) PROVE Calm
    <2>1. RowsCalm /\ Quiet
      BY <1>11, RowsUnchanged DEF Cleanup, rows, submitter
    <2>2. status[cur[w]] # "queued" \/ cur[w] \in refused
      BY <1>11 DEF Cleanup, JobsKnown, WorkerKnows, StartedPC, Registered
    <2>3. \A v \in Worker : WorkerCalm(v)
      BY <1>11, <1>0, <2>1, <2>2 DEF Cleanup, Goto, Return, WorkerCalm, StartedPC, ReleasingPC, Registered, rows
    <2> QED BY <2>1, <2>3, <1>a
  <1>12. ASSUME NEW w \in Worker, CheckDependency(w) PROVE Calm
    <2>1. RowsCalm /\ Quiet
      BY <1>12, RowsUnchanged DEF CheckDependency, rows, submitter
    <2>2. \A v \in Worker : WorkerCalm(v)
      BY <1>12, <1>0, <2>1 DEF CheckDependency, Goto, WorkerCalm, StartedPC, ReleasingPC, Registered
    <2> QED BY <2>1, <2>2, <1>a
  <1>13. ASSUME NEW w \in Worker, QueryLiveDependents(w) PROVE Calm
    <2>1. RowsCalm /\ Quiet
      BY <1>13, RowsUnchanged DEF QueryLiveDependents, rows, submitter
    <2>2. \A v \in Worker : WorkerCalm(v)
      BY <1>13, <1>0, <2>1 DEF QueryLiveDependents, Goto, WorkerCalm, StartedPC, ReleasingPC, Registered
    <2> QED BY <2>1, <2>2, <1>a
  <1>14. ASSUME NEW w \in Worker, PropagateNext(w) PROVE Calm
    <2>1. RowsCalm /\ Quiet
      BY <1>14, RowsUnchanged DEF PropagateNext, rows, submitter
    <2>a. /\ pc[w] = "propNext" /\ cur' = cur
          /\ \E s \in {"propDep", "propNext", "cleanup"} : pc' = [pc EXCEPT ![w] = s]
          /\ \A v \in Worker \ {w} : item'[v] = item[v] /\ stack'[v] = stack[v]
      BY <1>14 DEF PropagateNext, Goto, TypeOK, WorkerTypeOK
    <2>2. \A v \in Worker : WorkerCalm(v)
      BY <1>14, <1>0, <2>1, <2>a DEF WorkerCalm, StartedPC, ReleasingPC, Registered
    <2> QED BY <2>1, <2>2, <1>a
  <1>15. ASSUME NEW w \in Worker, FailDependency(w) PROVE Calm
    <2>1. RowsCalm /\ Quiet
      BY <1>15 DEF FailDependency, SetDep, RowsCalm, submitter, TypeOK, RowsTypeOK
    <2>2. \A v \in Worker : WorkerCalm(v)
      BY <1>15, <1>0, <2>1 DEF FailDependency, Goto, WorkerCalm, StartedPC, ReleasingPC, Registered
    <2> QED BY <2>1, <2>2, <1>a
  <1>16. ASSUME NEW w \in Worker, FailDependent(w) PROVE Calm
    <2>0. item[w].job \in Job
      BY <1>16, <1>b, <1>0, ItemIsSnapshot DEF FailDependent, Snapshot
    <2>1. RowsCalm /\ Quiet /\ status'[item[w].job] # "queued"
      BY <1>16, <2>0, StatusSet DEF FailDependent, submitter, FinalStatus, Terminal
    <2>2. \A v \in Worker : WorkerCalm(v)
      BY <1>16, <1>0, <2>1 DEF FailDependent, Goto, WorkerCalm, StartedPC, ReleasingPC, Registered
    <2> QED BY <2>1, <2>2, <1>a
  <1>17. ASSUME NEW w \in Worker, StoreFault(w) PROVE Calm
    <2>1. RowsCalm /\ UNCHANGED <<queue, toCreate, toEnqueue>> /\ refused \subseteq refused'
      BY <1>17, RowsUnchanged DEF StoreFault, rows, submitter
    <2>2. \A v \in Worker : WorkerCalm(v)
      <3>1. \A v \in Worker \ {w} : WorkerCalm(v)
        BY <1>17, <1>0, <2>1 DEF StoreFault, Goto, WorkerCalm, StartedPC, ReleasingPC, Registered
      <3>2. cur' = cur /\ stack' = stack /\ item' = item /\ (pc[w] = "mark" => cur[w] \in refused')
        BY <1>17 DEF StoreFault
      <3>3. /\ pc[w] \in {"get", "mark"} \cup Registered /\ pc[w] # "enqueue"
            /\ pc[w] = "get" => pc'[w] = "mark"
            /\ pc[w] = "mark" => pc'[w] = "register"
            /\ pc[w] \notin {"get", "mark", "check"} =>
                 pc'[w] \in {"cleanup", "resolve", "propagate", "propNext"}
            /\ pc[w] = "check" => pc'[w] = "resolveNext"
        BY <1>17, <1>0 DEF StoreFault, OnError, Goto, Registered
      <3>4. WorkerCalm(w)
        BY <3>2, <3>3 DEF WorkerCalm, StartedPC, ReleasingPC, Registered
      <3> QED BY <3>1, <3>4
    <2> QED BY <2>1, <2>2 DEF Calm
  <1>18. ASSUME NEW c \in Caller, NEW j \in Job, CancelLookup(c, j) PROVE Calm
    <2>1. RowsCalm /\ Quiet
      BY <1>18, RowsUnchanged DEF CancelLookup, rows, submitter
    <2>2. \A v \in Worker : WorkerCalm(v)
      BY <1>18 DEF CancelLookup, WorkerCalm, worker
    <2> QED BY <2>1, <2>2, <1>a
  <1>19. ASSUME NEW c \in Caller, CancelRead(c) PROVE Calm
    <2>1. RowsCalm /\ Quiet
      BY <1>19, RowsUnchanged DEF CancelRead, rows, submitter
    <2>2. \A v \in Worker : WorkerCalm(v)
      BY <1>19 DEF CancelRead, WorkerCalm, worker
    <2> QED BY <2>1, <2>2, <1>a
  <1>20. ASSUME Shutdown PROVE Calm
    <2>1. RowsCalm /\ Quiet
      BY <1>20, RowsUnchanged DEF Shutdown, rows, submitter
    <2>2. \A v \in Worker : WorkerCalm(v)
      BY <1>20 DEF Shutdown, WorkerCalm, worker
    <2> QED BY <2>1, <2>2, <1>a
  <1>21. ASSUME NEW c \in Caller, CancelWrite(c) PROVE Calm
    <2>1. cjob[c] \in Job
      BY <1>21 DEF CancelWrite, TypeOK, RestTypeOK
    <2>2. RowsCalm /\ Quiet
      BY <1>21, <2>1, StatusSet DEF CancelWrite, submitter, Terminal
    <2>3. \A v \in Worker : WorkerCalm(v)
      BY <1>21 DEF CancelWrite, WorkerCalm, worker
    <2> QED BY <2>2, <2>3, <1>a
  <1>22. ASSUME NEW j \in Job, DeleteJob(j) PROVE Calm
    <2>1. RowsCalm /\ Quiet
      BY <1>22 DEF DeleteJob, RowsCalm, submitter, TypeOK, RowsTypeOK
    <2>2. \A v \in Worker : WorkerCalm(v)
      BY <1>22 DEF DeleteJob, WorkerCalm, worker
    <2> QED BY <2>1, <2>2, <1>a
  <1>23. ASSUME CreateFails PROVE Calm
    <2>1. RowsCalm /\ queue' = queue /\ toEnqueue' \subseteq toEnqueue
          /\ toEnqueue \subseteq refused' /\ refused \subseteq refused'
      BY <1>23 DEF CreateFails, RowsCalm, rows
    <2>2. \A v \in Worker : WorkerCalm(v)
      BY <1>23 DEF CreateFails, WorkerCalm, worker
    <2> QED BY <2>1, <2>2 DEF Calm
  <1>25. ASSUME NEW w \in Worker, Publish(w) PROVE Calm
    <2>1. RowsCalm /\ Quiet
      BY <1>25, RowsUnchanged DEF Publish, rows, submitter
    <2>2. \A v \in Worker : WorkerCalm(v)
      BY <1>25 DEF Publish, WorkerCalm, worker
    <2> QED BY <2>1, <2>2, <1>a
  <1>24. ASSUME UNCHANGED vars PROVE Calm
    <2>1. RowsCalm /\ Quiet
      BY <1>24, RowsUnchanged DEF vars, rows, submitter
    <2>2. \A v \in Worker : WorkerCalm(v)
      BY <1>24 DEF vars, WorkerCalm, worker
    <2> QED BY <2>1, <2>2, <1>a
  <1> QED
    BY <1>1, <1>2, <1>3, <1>4, <1>5, <1>6, <1>7, <1>8, <1>9, <1>10, <1>11, <1>12, <1>13, <1>14, <1>15, <1>16,
       <1>17, <1>18, <1>19, <1>20, <1>21, <1>22, <1>23, <1>24, <1>25
    DEF Next, Submit, Work, Cancel

LEMMA KnownTypes ==
  ASSUME TypeOK
  PROVE  /\ \A i \in DOMAIN queue : queue[i] \in Job
         /\ toEnqueue \subseteq Job /\ toCreate \subseteq Job
         /\ \A w \in Worker :
              /\ cur[w] # None => cur[w] \in Job
              /\ pc[w] \in StartedPC => cur[w] \in Job
              /\ pc[w] \in ReleasingPC => \A i \in Top(w) : i.job \in Job
              /\ pc[w] \in {"check", "enqueue"} => item[w].job \in Job
  <1>1. \A i \in DOMAIN queue : queue[i] \in Job
    BY DEF TypeOK, QueueTypeOK
  <1>2. ASSUME NEW w \in Worker
        PROVE  /\ cur[w] # None => cur[w] \in Job
               /\ pc[w] \in StartedPC => cur[w] \in Job
    BY DEF TypeOK, WorkerTypeOK, WorkerFits, StartedPC, Registered
  <1>3. ASSUME NEW w \in Worker, pc[w] \in ReleasingPC, NEW i \in Top(w)
        PROVE  i.job \in Job
    <2>1. stack[w] \in Seq(SUBSET Snapshot) /\ stack[w] # <<>>
      BY <1>3 DEF TypeOK, WorkerTypeOK, WorkerFits, ReleasingPC
    <2>2. i \in Snapshot
      BY <1>3, <2>1, FrameType DEF Top
    <2> QED BY <2>2 DEF Snapshot
  <1>4. ASSUME NEW w \in Worker, pc[w] \in {"check", "enqueue"}
        PROVE  item[w].job \in Job
    BY <1>4, ItemIsSnapshot DEF Snapshot
  <1> QED BY <1>1, <1>2, <1>3, <1>4 DEF TypeOK, QueueTypeOK

LEMMA CalmTracks ==
  ASSUME TypeOK, TypeOK', Tracked, Calm
  PROVE  Tracked'
  <1> USE KnownTypes
  <1>0. JobsKnown /\ NoLostReadyJob /\ RowsCalm
    BY DEF Tracked, Calm
  <1>1. \A j \in Job : Known(j) => Known(j)'
    BY <1>0 DEF RowsCalm, Known
  <1>2. \A j \in toCreate' : ~Known(j)'
    BY <1>0 DEF RowsCalm, Known, JobsKnown
  <1>3. \A i \in DOMAIN queue' : Known(queue[i])'
    BY <1>0, <1>1 DEF Calm, JobsKnown, Known
  <1>4. \A j \in toEnqueue' : Known(j)'
    BY <1>0, <1>1 DEF Calm, JobsKnown
  <1>5. ASSUME NEW w \in Worker PROVE WorkerKnows(w)'
    <2>0. WorkerKnows(w) /\ WorkerCalm(w) /\ refused \subseteq refused'
      BY <1>0 DEF Calm, JobsKnown
    <2>1. cur'[w] # None => held'[cur'[w]] # {}
      BY <1>1, <2>0 DEF WorkerKnows, WorkerCalm, Known
    <2>2. pc'[w] \in StartedPC => status'[cur'[w]] # "queued" \/ cur'[w] \in refused'
      BY <1>0, <2>0 DEF WorkerKnows, WorkerCalm, RowsCalm
    <2>3. ASSUME NEW i, i.job \in Job, Dependent(w, i), cur'[w] = cur[w] PROVE Dependent(w, i)'
      BY <1>0, <1>1, <2>3 DEF Dependent, RowsCalm, Known
    <2>4. pc'[w] \in ReleasingPC => \A i \in Top(w)' : Dependent(w, i)'
      <3> SUFFICES ASSUME pc'[w] \in ReleasingPC, NEW i \in Top(w)' PROVE Dependent(w, i)'
        OBVIOUS
      <3>1. pc[w] \in ReleasingPC /\ stack'[w] = stack[w] /\ cur'[w] = cur[w]
        BY <2>0 DEF WorkerCalm, ReleasingPC
      <3>2. i \in Top(w)
        BY <3>1 DEF Top
      <3> QED BY <2>0, <2>3, <3>1, <3>2 DEF WorkerKnows
    <2>5. pc'[w] \in {"check", "enqueue"} => Dependent(w, item[w])'
      <3> SUFFICES ASSUME pc'[w] \in {"check", "enqueue"} PROVE Dependent(w, item[w])'
        OBVIOUS
      <3>1. pc[w] \in {"check", "enqueue"} /\ item'[w] = item[w] /\ cur'[w] = cur[w]
        BY <2>0 DEF WorkerCalm, ReleasingPC
      <3>2. Dependent(w, item[w])
        BY <2>0, <3>1 DEF WorkerKnows
      <3> QED BY <1>0, <1>1, <3>1, <3>2 DEF Dependent, RowsCalm, Known
    <2> QED BY <2>1, <2>2, <2>4, <2>5 DEF WorkerKnows, Known
  <1>6. NoLostReadyJob'
    <2> SUFFICES ASSUME NEW j \in Job, status'[j] = "queued", dep'[j] = "ready"
                 PROVE  \/ \E i \in DOMAIN queue' : queue'[i] = j
                        \/ j \in toEnqueue' \cup refused'
                        \/ \E w \in Worker : cur'[w] = j \/ (pc'[w] = "enqueue" /\ item'[w].job = j)
      BY DEF NoLostReadyJob
    <2>1. status[j] = "queued" /\ dep[j] = "ready"
      BY <1>0 DEF RowsCalm
    <2>2. CASE j \in toEnqueue \cup refused \/ \E i \in DOMAIN queue : queue[i] = j
      BY <2>2 DEF Calm
    <2>3. ASSUME NEW w \in Worker, cur[w] = j PROVE cur'[w] = j \/ j \in refused'
      BY <2>3, ConstantsAssumption DEF Calm, WorkerCalm
    <2>4. ASSUME NEW w \in Worker, pc[w] = "enqueue", item[w].job = j
          PROVE  pc'[w] = "enqueue" /\ item'[w].job = j
      BY <2>4 DEF Calm, WorkerCalm, ReleasingPC
    <2> QED BY <1>0, <2>1, <2>2, <2>3, <2>4 DEF NoLostReadyJob
  <1> QED BY <1>2, <1>3, <1>4, <1>5, <1>6 DEF Tracked, JobsKnown

LEMMA WorkerKnowsStays ==
  ASSUME JobsKnown, NEW w \in Worker, UNCHANGED <<status, held>>, refused \subseteq refused',
         UNCHANGED <<pc[w], cur[w], stack[w], item[w]>>
  PROVE  WorkerKnows(w)'
  BY DEF JobsKnown, WorkerKnows, Dependent, Known, Top

LEMMA Sent ==
  ASSUME TypeOK, NEW j \in Job, Enqueue(j)
  PROVE  /\ \A i \in DOMAIN queue : i \in DOMAIN queue' /\ queue'[i] = queue[i]
         /\ \A i \in DOMAIN queue' : (i \in DOMAIN queue /\ queue'[i] = queue[i]) \/ queue'[i] = j
         /\ j \in refused' \/ \E i \in DOMAIN queue' : queue'[i] = j
         /\ refused \subseteq refused'
  <1>1. queue \in Seq(Job) /\ Len(queue) \in Nat
    BY DEF TypeOK, QueueTypeOK
  <1>2. CASE queue' = Append(queue, j) /\ UNCHANGED refused
    <2>1. /\ Len(queue') = Len(queue) + 1 /\ queue'[Len(queue) + 1] = j
          /\ \A i \in 1 .. Len(queue) : queue'[i] = queue[i]
          /\ DOMAIN queue = 1 .. Len(queue) /\ DOMAIN queue' = 1 .. Len(queue')
      BY <1>1, <1>2
    <2> QED BY <1>1, <1>2, <2>1
  <1>3. CASE refused' = refused \cup {j} /\ UNCHANGED queue
    BY <1>3
  <1> QED BY <1>2, <1>3 DEF Enqueue

LEMMA Taken ==
  ASSUME TypeOK, NEW w \in Worker, Pick(w)
  PROVE  /\ Head(queue) \in Job /\ 1 \in DOMAIN queue /\ queue[1] = Head(queue)
         /\ \A i \in DOMAIN queue' : i + 1 \in DOMAIN queue /\ i + 1 # 1 /\ queue'[i] = queue[i + 1]
         /\ \A i \in DOMAIN queue \ {1} : i - 1 \in DOMAIN queue' /\ queue'[i - 1] = queue[i]
         /\ DOMAIN queue' \subseteq Nat
  <1>1. queue \in Seq(Job) /\ queue # <<>> /\ queue' = Tail(queue)
    BY DEF TypeOK, QueueTypeOK, Pick
  <1>2. /\ Head(queue) \in Job /\ Len(queue') = Len(queue) - 1
        /\ \A i \in 1 .. Len(queue') : queue'[i] = queue[i + 1]
        /\ queue' \in Seq(Job)
    BY <1>1, HeadTailProperties
  <1>3. /\ DOMAIN queue = 1 .. Len(queue) /\ DOMAIN queue' = 1 .. Len(queue')
        /\ Len(queue) \in Nat \ {0} /\ Head(queue) = queue[1]
    BY <1>1, <1>2, EmptySeq
  <1> QED BY <1>2, <1>3

LEMMA CreateTracks ==
  ASSUME TypeOK, TypeOK', RowHeld, Tracked, NEW j \in Job, CreateJob(j)
  PROVE  Tracked'
  <1> USE KnownTypes
  <1>0. JobsKnown /\ NoLostReadyJob
    BY DEF Tracked
  <1>1. /\ UNCHANGED <<queue, pc, cur, stack, item, refused>>
        /\ toCreate' = toCreate \ {j} /\ ~Known(j)
    BY <1>0 DEF CreateJob, JobsKnown, worker
  <1>2. \A k \in Job : /\ k = j => Known(k)' /\ status'[k] = "queued" /\ dep'[k] = InitialDep(k)
                       /\ k # j => held'[k] = held[k] /\ status'[k] = status[k] /\ dep'[k] = dep[k]
    BY DEF CreateJob, Known, TypeOK, RowsTypeOK
  <1>3. \A k \in Job : Known(k) => k # j /\ Known(k)'
    BY <1>1, <1>2 DEF Known
  <1>4. \A k \in toCreate' : ~Known(k)'
    BY <1>0, <1>1, <1>2 DEF JobsKnown, Known
  <1>5. toEnqueue \subseteq toEnqueue' /\ toEnqueue' \subseteq toEnqueue \cup {j}
    BY DEF CreateJob, EnqueuedOnSubmit
  <1>6. dep'[j] = "ready" => j \in toEnqueue'
    BY <1>2 DEF CreateJob, EnqueuedOnSubmit
  <1>7. ASSUME NEW w \in Worker PROVE WorkerKnows(w)'
    <2>0. WorkerKnows(w)
      BY <1>0 DEF JobsKnown
    <2>1. cur[w] # None => Known(cur[w])'
      BY <1>1, <1>3, <2>0 DEF WorkerKnows
    <2>2. pc[w] \in StartedPC => status'[cur[w]] # "queued" \/ cur[w] \in refused
      <3>1. pc[w] \in StartedPC => cur[w] # None
        BY DEF TypeOK, WorkerFits, StartedPC, Registered
      <3> QED BY <1>2, <1>3, <2>0, <3>1 DEF WorkerKnows
    <2>3. ASSUME NEW i, i.job \in Job, Dependent(w, i) PROVE Dependent(w, i)'
      BY <1>1, <1>2, <1>3, <2>3 DEF Dependent
    <2>4. pc[w] \in ReleasingPC => \A i \in Top(w) : Dependent(w, i)'
      BY <2>0, <2>3 DEF WorkerKnows
    <2>5. pc[w] \in {"check", "enqueue"} => Dependent(w, item[w])'
      <3>1. pc[w] \in {"check", "enqueue"} => Dependent(w, item[w]) /\ item[w].job \in Job
        BY <2>0 DEF WorkerKnows
      <3> QED BY <1>1, <1>2, <1>3, <3>1 DEF Dependent
    <2> QED BY <1>1, <2>1, <2>2, <2>4, <2>5 DEF WorkerKnows, Top
  <1>8. \A i \in DOMAIN queue' : Known(queue[i])'
    BY <1>0, <1>1, <1>3 DEF JobsKnown, Known
  <1>9. \A k \in toEnqueue' : Known(k)'
    BY <1>0, <1>2, <1>3, <1>5 DEF JobsKnown
  <1>10. NoLostReadyJob'
    BY <1>0, <1>1, <1>2, <1>5, <1>6 DEF NoLostReadyJob
  <1> QED BY <1>4, <1>7, <1>8, <1>9, <1>10 DEF Tracked, JobsKnown

LEMMA SendTracks ==
  ASSUME TypeOK, Tracked, NEW j \in Job, EnqueueCreated(j)
  PROVE  Tracked'
  <1>0. JobsKnown /\ NoLostReadyJob
    BY DEF Tracked
  <1>1. /\ UNCHANGED <<status, dep, held, pc, cur, stack, item, toCreate>>
        /\ toEnqueue' = toEnqueue \ {j} /\ Enqueue(j) /\ Known(j)
    BY <1>0 DEF EnqueueCreated, JobsKnown, rows, worker
  <1>2. \A w \in Worker : WorkerKnows(w)'
    BY <1>0, <1>1, Sent, WorkerKnowsStays
  <1>3. \A i \in DOMAIN queue' : Known(queue[i])'
    BY <1>0, <1>1, Sent DEF JobsKnown, Known
  <1>4. NoLostReadyJob'
    BY <1>0, <1>1, Sent DEF NoLostReadyJob
  <1> QED BY <1>0, <1>1, <1>2, <1>3, <1>4 DEF Tracked, JobsKnown, Known

LEMMA PickTracks ==
  ASSUME TypeOK, Tracked, NEW w \in Worker, Pick(w)
  PROVE  Tracked'
  <1>0. JobsKnown /\ NoLostReadyJob /\ pc \in [Worker -> WorkerPC] /\ cur \in [Worker -> Job \cup {None}]
    BY DEF Tracked, TypeOK, WorkerTypeOK
  <1>1. /\ UNCHANGED <<status, dep, held, stack, item, toCreate, toEnqueue, refused>>
        /\ cur' = [cur EXCEPT ![w] = Head(queue)] /\ pc' = [pc EXCEPT ![w] = "get"]
        /\ pc[w] = "idle" /\ cur[w] = None
    BY DEF Pick, Goto, rows, submitter, TypeOK, WorkerFits
  <1>2. Known(Head(queue))
    BY <1>0, Taken DEF JobsKnown
  <1>3. \A v \in Worker : WorkerKnows(v)'
    <2>1. \A v \in Worker \ {w} : WorkerKnows(v)'
      BY <1>0, <1>1, WorkerKnowsStays
    <2>2. WorkerKnows(w)'
      BY <1>0, <1>1, <1>2 DEF WorkerKnows, StartedPC, ReleasingPC, Registered, Known
    <2> QED BY <2>1, <2>2
  <1>4. \A i \in DOMAIN queue' : Known(queue[i])'
    BY <1>0, <1>1, Taken DEF JobsKnown, Known
  <1>5. NoLostReadyJob'
    <2> SUFFICES ASSUME NEW j \in Job, status[j] = "queued", dep[j] = "ready",
                        j \notin toEnqueue \cup refused
                 PROVE  \/ \E i \in DOMAIN queue' : queue'[i] = j
                        \/ \E v \in Worker : cur'[v] = j \/ (pc'[v] = "enqueue" /\ item'[v].job = j)
      BY <1>1 DEF NoLostReadyJob
    <2>1. ASSUME NEW i \in DOMAIN queue, queue[i] = j
          PROVE  cur'[w] = j \/ \E k \in DOMAIN queue' : queue'[k] = j
      BY <1>0, <1>1, <2>1, Taken
    <2>2. ASSUME NEW v \in Worker, cur[v] = j \/ (pc[v] = "enqueue" /\ item[v].job = j)
          PROVE  cur'[v] = j \/ (pc'[v] = "enqueue" /\ item'[v].job = j)
      BY <1>0, <1>1, <2>2, ConstantsAssumption
    <2> QED BY <1>0, <2>1, <2>2 DEF NoLostReadyJob
  <1> QED BY <1>0, <1>1, <1>3, <1>4, <1>5 DEF Tracked, JobsKnown, Known

\* A step of worker w alone that leaves the rows, the queue and every job where they are.
LEMMA OwnStepTracks ==
  ASSUME TypeOK, Tracked, NEW w \in Worker, UNCHANGED <<rows, queue, submitter, refused, cur>>,
         \A v \in Worker \ {w} : UNCHANGED <<pc[v], stack[v], item[v]>>,
         pc[w] # "enqueue", WorkerKnows(w)'
  PROVE  Tracked'
  <1>0. JobsKnown /\ NoLostReadyJob
    BY DEF Tracked
  <1>1. \A v \in Worker : WorkerKnows(v)'
    <2>1. \A v \in Worker \ {w} : WorkerKnows(v)'
      BY <1>0, WorkerKnowsStays DEF rows
    <2> QED BY <2>1
  <1>2. NoLostReadyJob'
    BY <1>0 DEF NoLostReadyJob, rows, submitter
  <1> QED BY <1>0, <1>1, <1>2 DEF Tracked, JobsKnown, Known, rows, submitter

LEMMA QueryTracks ==
  ASSUME TypeOK, TypeOK', RowHeld, Tracked, NEW w \in Worker, QueryPendingDependents(w)
  PROVE  Tracked'
  <1>0. JobsKnown /\ pc \in [Worker -> WorkerPC] /\ stack \in [Worker -> Seq(SUBSET Snapshot)]
    BY DEF Tracked, TypeOK, WorkerTypeOK
  <1>1. /\ UNCHANGED <<rows, queue, submitter, refused, cur, item>> /\ pc[w] = "resolve"
        /\ \A v \in Worker \ {w} : UNCHANGED <<pc[v], stack[v], item[v]>>
    BY <1>0 DEF QueryPendingDependents, Goto
  <1>2. WorkerKnows(w)
    BY <1>0 DEF JobsKnown
  <1>3. CASE CtxDone(w)
    <2>1. pc'[w] = "cleanup"
      BY <1>0, <1>3 DEF QueryPendingDependents, Goto
    <2>2. WorkerKnows(w)'
      BY <1>1, <1>2, <2>1 DEF WorkerKnows, StartedPC, ReleasingPC, Registered, Known, rows
    <2> QED BY <1>1, <2>2, OwnStepTracks
  <1>4. CASE ~CtxDone(w)
    <2> DEFINE frame == Snapshots({d \in DependentsOf(cur[w]) : dep[d] = "pending"})
    <2>1. pc'[w] = "resolveNext" /\ stack'[w] = <<frame>>
      BY <1>0, <1>4 DEF QueryPendingDependents, Goto
    <2>2. \A i \in frame : Dependent(w, i)
      <3> SUFFICES ASSUME NEW d \in DependentsOf(cur[w])
                   PROVE  Dependent(w, [job |-> d, queued |-> status[d] = "queued"])
        BY DEF Snapshots
      <3>1. held[d] # {} /\ cur[w] \in Deps[d]
        BY DEF DependentsOf, RowHeld
      <3> QED BY <3>1 DEF Dependent, Known
    <2>3. Top(w)' = frame
      BY <2>1 DEF Top
    <2> HIDE DEF frame
    <2>4. \A i \in Top(w)' : Dependent(w, i)'
      BY <1>1, <2>2, <2>3 DEF Dependent, Known, rows
    <2>5. WorkerKnows(w)'
      BY <1>1, <1>2, <2>1, <2>4 DEF WorkerKnows, StartedPC, ReleasingPC, Registered, Known, rows
    <2> QED BY <1>1, <2>5, OwnStepTracks
  <1> QED BY <1>3, <1>4

LEMMA FrameHead ==
  ASSUME NEW s \in Seq(SUBSET Snapshot), s # <<>>, NEW i
  PROVE  Head([s EXCEPT ![1] = @ \ {i}]) = Head(s) \ {i}
  <1>1. Len(s) \in Nat \ {0} /\ 1 \in DOMAIN s /\ Head(s) = s[1]
    BY EmptySeq
  <1> DEFINE t == [s EXCEPT ![1] = @ \ {i}]
  <1>2. t \in Seq(SUBSET Snapshot) /\ t # <<>> /\ t[1] = s[1] \ {i}
    BY <1>1, FrameType
  <1> HIDE DEF t
  <1>3. Head(t) = t[1]
    BY <1>2
  <1> QED BY <1>1, <1>2, <1>3 DEF t

\* What ResolveNext does to the frame of its worker.
LEMMA NextDependent ==
  ASSUME TypeOK, NEW w \in Worker, ResolveNext(w)
  PROVE  /\ UNCHANGED <<rows, queue, submitter, refused, cur, active>> /\ pc[w] = "resolveNext"
         /\ \A v \in Worker \ {w} : UNCHANGED <<pc[v], stack[v], item[v]>>
         /\ \/ /\ item'[w] \in Top(w) /\ pc'[w] = "check" /\ Top(w)' = Top(w) \ {item'[w]}
               /\ need'[w] = Deps[item'[w].job]
            \/ pc'[w] = "cleanup" /\ Top(w) = {}
  <1>0. /\ pc \in [Worker -> WorkerPC] /\ stack \in [Worker -> Seq(SUBSET Snapshot)]
        /\ item \in [Worker -> Snapshot \cup {NoItem}] /\ need \in [Worker -> SUBSET Job]
        /\ pc[w] = "resolveNext" /\ stack[w] # <<>>
    BY DEF ResolveNext, TypeOK, WorkerTypeOK, WorkerFits
  <1>1. \A v \in Worker \ {w} : UNCHANGED <<pc[v], stack[v], item[v]>>
    BY <1>0 DEF ResolveNext, Goto
  <1>2. UNCHANGED <<rows, queue, submitter, refused, cur, active>>
    BY DEF ResolveNext
  <1>3. CASE Top(w) = {} /\ Goto(w, "cleanup")
    BY <1>0, <1>1, <1>2, <1>3 DEF Goto
  <1>4. ASSUME NEW i \in Top(w), item' = [item EXCEPT ![w] = i],
               need' = [need EXCEPT ![w] = Deps[i.job]],
               stack' = [stack EXCEPT ![w][1] = @ \ {i}], Goto(w, "check")
        PROVE  /\ item'[w] \in Top(w) /\ pc'[w] = "check" /\ Top(w)' = Top(w) \ {item'[w]}
               /\ need'[w] = Deps[item'[w].job]
    <2>1. /\ item'[w] = i /\ pc'[w] = "check" /\ stack'[w] = [stack[w] EXCEPT ![1] = @ \ {i}]
          /\ need'[w] = Deps[i.job]
      BY <1>0, <1>4 DEF Goto
    <2> QED BY <1>0, <2>1, FrameHead DEF Top
  <1> QED BY <1>0, <1>1, <1>2, <1>3, <1>4 DEF ResolveNext

LEMMA ResolveTracks ==
  ASSUME TypeOK, Tracked, NEW w \in Worker, ResolveNext(w)
  PROVE  Tracked'
  <1> USE NextDependent
  <1>1. WorkerKnows(w)
    BY DEF Tracked, JobsKnown
  <1>2. \A i \in Top(w) : Dependent(w, i)'
    BY <1>1 DEF WorkerKnows, ReleasingPC, Dependent, Known, rows
  <1>3. pc'[w] = "check" => Dependent(w, item[w])'
    <2> SUFFICES ASSUME pc'[w] = "check" PROVE Dependent(w, item[w])'
      OBVIOUS
    <2>1. item'[w] \in Top(w)
      OBVIOUS
    <2>2. Dependent(w, item'[w])
      BY <1>1, <2>1 DEF WorkerKnows, ReleasingPC
    <2> QED BY <2>2 DEF Dependent, Known, rows
  <1>4. WorkerKnows(w)'
    BY <1>1, <1>2, <1>3 DEF WorkerKnows, StartedPC, ReleasingPC, Registered, Known, rows
  <1> QED BY <1>4, OwnStepTracks

LEMMA MarkReadyTracks ==
  ASSUME TypeOK, Tracked, NEW w \in Worker, MarkReady(w)
  PROVE  Tracked'
  <1>0. /\ JobsKnown /\ NoLostReadyJob /\ WorkerKnows(w)
        /\ pc \in [Worker -> WorkerPC] /\ dep \in [Job -> DepStatus]
    BY DEF Tracked, JobsKnown, TypeOK, WorkerTypeOK, RowsTypeOK
  <1>1. /\ UNCHANGED <<status, held, queue, submitter, refused, cur, stack, item>>
        /\ pc[w] = "check"
        /\ \A v \in Worker \ {w} : UNCHANGED <<pc[v], stack[v], item[v]>>
        /\ Dependent(w, item[w])
    BY <1>0 DEF MarkReady, Goto, WorkerKnows
  <1>2. \/ pc'[w] = "resolveNext" /\ dep' = dep
        \/ /\ pc'[w] = IF item[w].queued THEN "enqueue" ELSE "resolveNext"
           /\ \A j \in Job : j # item[w].job => dep'[j] = dep[j]
    BY <1>0 DEF MarkReady, Goto, AfterReady, SetDep
  <1>3. pc'[w] \in {"enqueue", "resolveNext"}
    BY <1>2
  <1>4. WorkerKnows(w)'
    BY <1>0, <1>1, <1>3 DEF WorkerKnows, StartedPC, ReleasingPC, Registered, Dependent, Known, Top
  <1>5. \A v \in Worker : WorkerKnows(v)'
    <2>1. \A v \in Worker \ {w} : WorkerKnows(v)'
      BY <1>0, <1>1, WorkerKnowsStays
    <2> QED BY <1>4, <2>1
  <1>6. NoLostReadyJob'
    <2> SUFFICES ASSUME NEW j \in Job, status[j] = "queued", dep'[j] = "ready"
                 PROVE  \/ \E i \in DOMAIN queue : queue[i] = j
                        \/ j \in toEnqueue \cup refused
                        \/ \E v \in Worker : cur[v] = j \/ (pc'[v] = "enqueue" /\ item[v].job = j)
      BY <1>1 DEF NoLostReadyJob, submitter
    <2>1. CASE dep[j] = "ready"
      BY <1>0, <1>1, <2>1 DEF NoLostReadyJob
    <2>2. CASE dep[j] # "ready"
      <3>1. j = item[w].job
        BY <1>2, <2>2
      <3>2. item[w].queued
        BY <1>1, <3>1 DEF Dependent
      <3> QED BY <1>2, <2>2, <3>1, <3>2
    <2> QED BY <2>1, <2>2
  <1> QED BY <1>0, <1>1, <1>5, <1>6 DEF Tracked, JobsKnown, Known, submitter

LEMMA ReleaseTracks ==
  ASSUME TypeOK, Tracked, NEW w \in Worker, EnqueueDependent(w)
  PROVE  Tracked'
  <1> DEFINE j == item[w].job
  <1>0. /\ JobsKnown /\ NoLostReadyJob /\ WorkerKnows(w) /\ pc \in [Worker -> WorkerPC]
    BY DEF Tracked, JobsKnown, TypeOK, WorkerTypeOK
  <1>1. /\ UNCHANGED <<status, held, dep, toCreate, toEnqueue, cur, stack, item>>
        /\ pc[w] = "enqueue" /\ pc' = [pc EXCEPT ![w] = "resolveNext"] /\ Enqueue(j)
    BY DEF EnqueueDependent, Goto, rows, submitter
  <1>2. j \in Job /\ Known(j)
    BY <1>0, <1>1, KnownTypes DEF WorkerKnows, Dependent
  <1>3. \A v \in Worker : WorkerKnows(v)'
    <2>1. \A v \in Worker \ {w} : WorkerKnows(v)'
      BY <1>0, <1>1, <1>2, Sent, WorkerKnowsStays
    <2>2. WorkerKnows(w)'
      BY <1>0, <1>1, <1>2, Sent
      DEF WorkerKnows, StartedPC, ReleasingPC, Registered, Dependent, Known, Top
    <2> QED BY <2>1, <2>2
  <1>4. \A i \in DOMAIN queue' : Known(queue[i])'
    BY <1>0, <1>1, <1>2, Sent DEF JobsKnown, Known
  <1>5. NoLostReadyJob'
    BY <1>0, <1>1, <1>2, Sent DEF NoLostReadyJob
  <1> QED BY <1>0, <1>1, <1>3, <1>4, <1>5 DEF Tracked, JobsKnown, Known

LEMMA RestartTracks ==
  ASSUME TypeOK, RowHeld, Restart
  PROVE  Tracked'
  <1>1. /\ UNCHANGED <<status, dep, held>> /\ toCreate' = {} /\ toEnqueue' = {}
        /\ \A w \in Worker : pc'[w] = "idle" /\ cur'[w] = None
    BY DEF Restart, rows
  <1>2. /\ \A i \in DOMAIN queue' : queue'[i] \in Recoverable
        /\ \A j \in Recoverable : j \in refused' \/ \E i \in DOMAIN queue' : queue'[i] = j
    BY DEF Restart
  <1>3. \A j \in Recoverable : Known(j)'
    BY <1>1 DEF Recoverable, RowHeld, Exists, Known
  <1>4. NoLostReadyJob'
    BY <1>1, <1>2 DEF NoLostReadyJob, Recoverable
  <1>5. \A i \in DOMAIN queue' : Known(queue[i])'
    BY <1>1, <1>2, <1>3 DEF Known
  <1>6. \A w \in Worker : WorkerKnows(w)'
    BY <1>1 DEF WorkerKnows, StartedPC, ReleasingPC, Registered
  <1> QED BY <1>1, <1>4, <1>5, <1>6 DEF Tracked, JobsKnown

LEMMA TrackedStep == TypeOK /\ TypeOK' /\ Clearance /\ Tracked /\ [Next]_vars => Tracked'
  <1> SUFFICES ASSUME TypeOK, TypeOK', Clearance, Tracked, [Next]_vars PROVE Tracked'
    OBVIOUS
  <1>1. RowHeld /\ JobsKnown
    BY DEF Clearance, Tracked
  <1> QED
    BY <1>1, CalmSteps, CalmTracks, CreateTracks, SendTracks, PickTracks, QueryTracks,
       ResolveTracks, MarkReadyTracks, ReleaseTracks, RestartTracks

LEMMA TrackedInit == Init => Tracked
  BY DEF Init, Tracked, JobsKnown, NoLostReadyJob, WorkerKnows, Known, StartedPC, ReleasingPC,
         Registered

LEMMA TrackedHolds == Spec => []Tracked
  BY TypeInit, TypeStep, ClearanceInit, ClearanceStep, TrackedInit, TrackedStep, PTL DEF Spec

\* No wake-up is lost, for any chain, with any queue: a row that is queued and
\* ready is on its way to a worker or was turned away by a full queue or a failed
\* statement, whatever cancellations, deletions, crashes and restarts come in
\* between (Enqueue, resolveDependencies, recoverQueuedJobs).
THEOREM NoLostReadyJobHolds == Spec => []NoLostReadyJob
  <1>1. Tracked => NoLostReadyJob
    BY DEF Tracked
  <1> QED BY <1>1, TrackedHolds, PTL

(***************************************************************************)
(* No job twice, where no job waits for several others.  A job is released *)
(* by the one job it waits for, which one worker has, once: from the       *)
(* snapshot in which that worker found it pending.                         *)
(***************************************************************************)

Queued(j) == \E i \in DOMAIN queue : queue[i] = j
Working(j) == \E w \in Worker : cur[w] = j
Releasing(j) == \E w \in Worker : pc[w] = "enqueue" /\ item[w].job = j
UnderWay(j) == Queued(j) \/ j \in toEnqueue \/ Working(j) \/ Releasing(j)

\* Worker w has still to check j.
Awaits(w, j) ==
  \/ pc[w] \in ReleasingPC /\ \E i \in Top(w) : i.job = j
  \/ pc[w] = "check" /\ item[w].job = j

FrameDistinct(w) ==
  /\ pc[w] \in ReleasingPC => \A i, k \in Top(w) : i.job = k.job => i = k
  /\ pc[w] \in {"check", "enqueue"} => \A i \in Top(w) : i.job # item[w].job

\* At most one of the ways in which j can be under way.
InOneWay(j) ==
  /\ Queued(j) => j \notin toEnqueue /\ ~Working(j) /\ ~Releasing(j)
  /\ j \in toEnqueue => ~Working(j) /\ ~Releasing(j)
  /\ Working(j) => ~Releasing(j)
  /\ UnderWay(j) => dep[j] # "pending" \/ ~Exists(j)

OneCustody ==
  /\ \A w \in Worker : FrameDistinct(w)
  /\ \A w \in Worker, j \in Job : Awaits(w, j) => ~UnderWay(j)
  /\ \A i, k \in DOMAIN queue : queue[i] = queue[k] => i = k
  /\ \A v, w \in Worker : cur[v] = cur[w] /\ cur[w] # None => v = w
  /\ \A j \in Job : InOneWay(j)

\* The workers that are about to release a job, or may do so, have the one it waits for.
LEMMA OneReleaser ==
  ASSUME Forest, TypeOK, JobsKnown, OneCustody, NEW v \in Worker, NEW w \in Worker, NEW j \in Job,
         Awaits(v, j) \/ (pc[v] = "enqueue" /\ item[v].job = j),
         Awaits(w, j) \/ (pc[w] = "enqueue" /\ item[w].job = j)
  PROVE  v = w
  <1>1. ASSUME NEW u \in Worker, Awaits(u, j) \/ (pc[u] = "enqueue" /\ item[u].job = j)
        PROVE  cur[u] \in Deps[j] /\ cur[u] # None
    <2>1. cur[u] # None
      BY <1>1 DEF Awaits, ReleasingPC, TypeOK, WorkerFits
    <2>2. cur[u] \in Deps[j]
      BY <1>1 DEF JobsKnown, WorkerKnows, Awaits, Dependent
    <2> QED BY <2>1, <2>2
  <1> QED BY <1>1 DEF Forest, OneCustody

\* Fewer jobs are under way, and no more are awaited.
LEMMA FewerUnderWay ==
  ASSUME OneCustody, queue' = queue, toEnqueue' \subseteq toEnqueue,
         \A w \in Worker : cur'[w] \in {cur[w], None},
         \A w \in Worker : pc'[w] = "enqueue" => pc[w] = "enqueue" /\ item'[w] = item[w],
         \A w \in Worker : FrameDistinct(w)',
         \A w \in Worker, j \in Job : Awaits(w, j)' => Awaits(w, j),
         \A j \in Job : dep'[j] = "pending" => dep[j] = "pending",
         \A j \in Job : status[j] = "absent" => status'[j] = "absent",
         None \notin Job
  PROVE  OneCustody'
  <1>1. \A j \in Job : /\ Queued(j)' <=> Queued(j)
                       /\ Working(j)' => Working(j)
                       /\ Releasing(j)' => Releasing(j)
    BY DEF Queued, Working, Releasing
  <1>2. \A j \in Job : UnderWay(j)' => UnderWay(j)
    BY <1>1 DEF UnderWay
  <1>3. \A j \in Job : InOneWay(j)'
    BY <1>1, <1>2 DEF OneCustody, InOneWay, Exists
  <1> QED BY <1>2, <1>3 DEF OneCustody

LEMMA CalmCustody ==
  ASSUME TypeOK, OneCustody, Calm
  PROVE  OneCustody'
  <1>1. ASSUME NEW w \in Worker
        PROVE  /\ cur'[w] \in {cur[w], None}
               /\ pc'[w] = "enqueue" => pc[w] = "enqueue" /\ item'[w] = item[w]
               /\ FrameDistinct(w)'
               /\ \A j \in Job : Awaits(w, j)' => Awaits(w, j)
    <2>1. WorkerCalm(w) /\ FrameDistinct(w)
      BY DEF Calm, OneCustody
    <2>2. pc'[w] \in ReleasingPC => Top(w)' = Top(w)
      BY <2>1 DEF WorkerCalm, Top
    <2> QED BY <2>1, <2>2 DEF WorkerCalm, FrameDistinct, Awaits, ReleasingPC
  <1>2. /\ \A j \in Job : dep'[j] = "pending" => dep[j] = "pending"
        /\ \A j \in Job : status[j] = "absent" => status'[j] = "absent"
        /\ queue' = queue /\ toEnqueue' \subseteq toEnqueue
    BY DEF Calm, RowsCalm
  <1> QED BY <1>1, <1>2, FewerUnderWay, ConstantsAssumption

LEMMA CreateCustody ==
  ASSUME TypeOK, JobsKnown, OneCustody, NEW j \in Job, CreateJob(j)
  PROVE  OneCustody'
  <1> USE KnownTypes
  <1>1. /\ UNCHANGED <<queue, pc, cur, stack, item>> /\ ~Known(j)
        /\ toEnqueue' \subseteq toEnqueue \cup {j}
        /\ j \in toEnqueue' \ toEnqueue => dep'[j] = "ready"
        /\ \A k \in Job \ {j} : dep'[k] = dep[k] /\ status'[k] = status[k]
    BY DEF CreateJob, JobsKnown, worker, EnqueuedOnSubmit, TypeOK, RowsTypeOK
  <1>2. \A k \in Job : /\ Queued(k)' <=> Queued(k)
                       /\ Working(k)' <=> Working(k)
                       /\ Releasing(k)' <=> Releasing(k)
                       /\ \A w \in Worker : Awaits(w, k)' <=> Awaits(w, k)
    BY <1>1 DEF Queued, Working, Releasing, Awaits, Top
  <1>3. ~UnderWay(j) /\ \A w \in Worker : ~Awaits(w, j)
    <2>1. ~Queued(j) /\ j \notin toEnqueue
      BY <1>1 DEF JobsKnown, Queued
    <2>2. \A w \in Worker : cur[w] # j
      BY <1>1, ConstantsAssumption DEF JobsKnown, WorkerKnows
    <2>3. \A w \in Worker : ~Awaits(w, j) /\ ~(pc[w] = "enqueue" /\ item[w].job = j)
      BY <1>1 DEF JobsKnown, WorkerKnows, Awaits, Dependent
    <2> QED BY <2>1, <2>2, <2>3 DEF UnderWay, Working, Releasing
  <1>4. \A k \in Job : UnderWay(k)' => UnderWay(k) \/ (k = j /\ dep'[j] = "ready")
    BY <1>1, <1>2 DEF UnderWay
  <1>5. \A k \in Job : InOneWay(k)'
    <2>1. ASSUME NEW k \in Job, k # j PROVE InOneWay(k)'
      BY <1>1, <1>2, <1>4, <2>1 DEF InOneWay, OneCustody, Exists
    <2>2. InOneWay(j)'
      BY <1>1, <1>2, <1>3, <1>4 DEF InOneWay, UnderWay
    <2> QED BY <2>1, <2>2
  <1>6. \A w \in Worker, k \in Job : Awaits(w, k)' => ~UnderWay(k)'
    BY <1>2, <1>3, <1>4 DEF OneCustody
  <1>7. \A w \in Worker : FrameDistinct(w)'
    BY <1>1 DEF OneCustody, FrameDistinct, Top
  <1> QED BY <1>1, <1>5, <1>6, <1>7 DEF OneCustody

\* A job goes to the queue, or is refused by it.
LEMMA SentCustody ==
  ASSUME TypeOK, OneCustody, NEW j \in Job, Enqueue(j), ~Queued(j)
  PROVE  /\ \A i, k \in DOMAIN queue' : queue'[i] = queue'[k] => i = k
         /\ \A k \in Job : Queued(k)' => Queued(k) \/ k = j
  <1>1. queue \in Seq(Job) /\ Len(queue) \in Nat
    BY DEF TypeOK, QueueTypeOK
  <1>2. CASE queue' = Append(queue, j)
    <2>1. /\ Len(queue') = Len(queue) + 1 /\ queue'[Len(queue) + 1] = j
          /\ \A i \in 1 .. Len(queue) : queue'[i] = queue[i]
          /\ DOMAIN queue = 1 .. Len(queue) /\ DOMAIN queue' = 1 .. Len(queue')
      BY <1>1, <1>2, AppendProperties
    <2>2. \A i \in DOMAIN queue' : i = Len(queue) + 1 \/ (i \in DOMAIN queue /\ queue'[i] = queue[i] /\ queue[i] # j)
      BY <1>1, <2>1 DEF Queued
    <2> QED BY <2>1, <2>2 DEF OneCustody, Queued
  <1>3. CASE UNCHANGED queue
    BY <1>3 DEF OneCustody, Queued
  <1> QED BY <1>2, <1>3 DEF Enqueue

LEMMA SendCustody ==
  ASSUME TypeOK, OneCustody, NEW j \in Job, EnqueueCreated(j)
  PROVE  OneCustody'
  <1>1. /\ UNCHANGED <<status, dep, pc, cur, stack, item>>
        /\ j \in toEnqueue /\ toEnqueue' = toEnqueue \ {j} /\ Enqueue(j)
    BY DEF EnqueueCreated, rows, worker
  <1>2. ~Queued(j) /\ UnderWay(j) /\ ~Working(j) /\ ~Releasing(j)
    BY <1>1 DEF OneCustody, InOneWay, UnderWay
  <1>3. \A k \in Job : /\ Queued(k)' => Queued(k) \/ k = j
                       /\ Working(k)' <=> Working(k)
                       /\ Releasing(k)' <=> Releasing(k)
                       /\ \A w \in Worker : Awaits(w, k)' <=> Awaits(w, k)
    BY <1>1, <1>2, SentCustody DEF Working, Releasing, Awaits, Top
  <1>4. \A k \in Job : UnderWay(k)' => UnderWay(k)
    BY <1>1, <1>2, <1>3 DEF UnderWay
  <1>5. \A k \in Job : InOneWay(k)'
    BY <1>1, <1>2, <1>3, <1>4 DEF OneCustody, InOneWay, Exists
  <1>6. \A w \in Worker : FrameDistinct(w)'
    BY <1>1 DEF OneCustody, FrameDistinct, Top
  <1> QED BY <1>1, <1>2, <1>3, <1>4, <1>5, <1>6, SentCustody DEF OneCustody

LEMMA PickCustody ==
  ASSUME TypeOK, OneCustody, NEW w \in Worker, Pick(w)
  PROVE  OneCustody'
  <1> DEFINE h == Head(queue)
  <1>0. pc \in [Worker -> WorkerPC] /\ cur \in [Worker -> Job \cup {None}]
    BY DEF TypeOK, WorkerTypeOK
  <1>1. /\ UNCHANGED <<status, dep, stack, item, toEnqueue>>
        /\ cur' = [cur EXCEPT ![w] = h] /\ pc' = [pc EXCEPT ![w] = "get"]
        /\ pc[w] = "idle" /\ cur[w] = None /\ h \in Job
    BY Taken DEF Pick, Goto, rows, submitter, TypeOK, WorkerFits
  <1>2. Queued(h) /\ UnderWay(h) /\ ~Working(h) /\ ~Releasing(h) /\ h \notin toEnqueue
    BY <1>1, Taken DEF Queued, OneCustody, InOneWay, UnderWay
  <1>3. \A i, k \in DOMAIN queue' : queue'[i] = queue'[k] => i = k
    <2> SUFFICES ASSUME NEW i \in DOMAIN queue', NEW k \in DOMAIN queue', queue'[i] = queue'[k]
                 PROVE  i = k
      OBVIOUS
    <2>1. i + 1 \in DOMAIN queue /\ k + 1 \in DOMAIN queue /\ queue[i + 1] = queue[k + 1]
          /\ i \in Nat /\ k \in Nat
      BY Taken
    <2>2. i + 1 = k + 1
      BY <2>1 DEF OneCustody
    <2> QED BY <2>1, <2>2
  <1>4. \A k \in Job : Queued(k)' => Queued(k) /\ k # h
    <2> SUFFICES ASSUME NEW i \in DOMAIN queue' PROVE Queued(queue'[i]) /\ queue'[i] # h
      BY DEF Queued
    <2>1. i + 1 \in DOMAIN queue /\ i + 1 # 1 /\ queue'[i] = queue[i + 1] /\ queue[1] = h /\ 1 \in DOMAIN queue
      BY Taken
    <2> QED BY <2>1 DEF Queued, OneCustody
  <1>5. \A k \in Job : /\ Working(k)' => Working(k) \/ k = h
                       /\ Releasing(k)' => Releasing(k)
                       /\ \A v \in Worker : Awaits(v, k)' => Awaits(v, k)
    BY <1>0, <1>1 DEF Working, Releasing, Awaits, Top, ReleasingPC
  <1>6. \A k \in Job : UnderWay(k)' => UnderWay(k)
    BY <1>1, <1>2, <1>4, <1>5 DEF UnderWay
  <1>7. \A k \in Job : InOneWay(k)'
    BY <1>1, <1>2, <1>4, <1>5, <1>6 DEF OneCustody, InOneWay, Exists
  <1>8. \A u, v \in Worker : cur'[u] = cur'[v] /\ cur'[v] # None => u = v
    BY <1>0, <1>1, <1>2 DEF OneCustody, Working
  <1>9. \A v \in Worker : FrameDistinct(v)'
    BY <1>0, <1>1 DEF OneCustody, FrameDistinct, Top, ReleasingPC
  <1> QED BY <1>3, <1>5, <1>6, <1>7, <1>8, <1>9 DEF OneCustody

LEMMA QueryCustody ==
  ASSUME TypeOK, OneCustody, NEW w \in Worker, QueryPendingDependents(w)
  PROVE  OneCustody'
  <1>0. pc \in [Worker -> WorkerPC] /\ stack \in [Worker -> Seq(SUBSET Snapshot)]
    BY DEF TypeOK, WorkerTypeOK
  <1>1. /\ UNCHANGED <<status, dep, queue, toEnqueue, cur, item>> /\ pc[w] = "resolve"
        /\ pc'[w] \in {"cleanup", "resolveNext"}
        /\ \A v \in Worker \ {w} : UNCHANGED <<pc[v], stack[v]>>
    BY <1>0 DEF QueryPendingDependents, Goto, rows, submitter
  <1> DEFINE frame == Snapshots({d \in DependentsOf(cur[w]) : dep[d] = "pending"})
  <1>2. pc'[w] = "resolveNext" => Top(w)' = frame
    BY <1>0, <1>1 DEF QueryPendingDependents, Goto, Top
  <1>3. /\ \A i, k \in frame : i.job = k.job => i = k
        /\ \A i \in frame : i.job \in Job /\ dep[i.job] = "pending" /\ Exists(i.job)
    BY DEF Snapshots, DependentsOf
  <1> HIDE DEF frame
  <1>4. \A k \in Job : /\ Queued(k)' <=> Queued(k)
                       /\ Working(k)' <=> Working(k)
                       /\ Releasing(k)' <=> Releasing(k)
    BY <1>1 DEF Queued, Working, Releasing
  <1>5. \A k \in Job : UnderWay(k)' <=> UnderWay(k)
    BY <1>1, <1>4 DEF UnderWay
  <1>6. \A k \in Job : InOneWay(k)'
    BY <1>1, <1>4, <1>5 DEF OneCustody, InOneWay, Exists
  <1>7. \A v \in Worker, k \in Job : Awaits(v, k)' => ~UnderWay(k)'
    <2>1. ASSUME NEW v \in Worker \ {w}, NEW k \in Job PROVE Awaits(v, k)' => Awaits(v, k)
      BY <1>1 DEF Awaits, Top
    <2>2. ASSUME NEW k \in Job PROVE Awaits(w, k)' => \E i \in frame : i.job = k
      BY <1>1, <1>2 DEF Awaits, ReleasingPC
    <2>3. \A k \in Job : dep[k] = "pending" /\ Exists(k) => ~UnderWay(k)
      BY DEF OneCustody, InOneWay
    <2> QED BY <1>3, <1>5, <2>1, <2>2, <2>3 DEF OneCustody
  <1>8. \A v \in Worker : FrameDistinct(v)'
    <2>1. FrameDistinct(w)'
      BY <1>1, <1>2, <1>3 DEF FrameDistinct, ReleasingPC
    <2>2. \A v \in Worker \ {w} : FrameDistinct(v)'
      BY <1>1 DEF OneCustody, FrameDistinct, Top
    <2> QED BY <2>1, <2>2
  <1> QED BY <1>1, <1>6, <1>7, <1>8 DEF OneCustody

LEMMA ResolveCustody ==
  ASSUME TypeOK, OneCustody, NEW w \in Worker, ResolveNext(w)
  PROVE  OneCustody'
  <1>1. /\ UNCHANGED <<status, dep, queue, toEnqueue, cur>> /\ pc[w] = "resolveNext"
        /\ \A v \in Worker \ {w} : UNCHANGED <<pc[v], stack[v], item[v]>>
        /\ \/ /\ item'[w] \in Top(w) /\ pc'[w] = "check" /\ Top(w)' = Top(w) \ {item'[w]}
           \/ pc'[w] = "cleanup"
    BY NextDependent DEF rows, submitter
  <1>2. ASSUME NEW v \in Worker PROVE FrameDistinct(v)' /\ \A j \in Job : Awaits(v, j)' => Awaits(v, j)
    <2>1. CASE v # w
      BY <1>1, <2>1 DEF OneCustody, FrameDistinct, Awaits, Top
    <2>2. CASE v = w
      <3>1. FrameDistinct(w)
        BY DEF OneCustody
      <3>2. FrameDistinct(w)'
        BY <1>1, <3>1 DEF FrameDistinct, ReleasingPC
      <3>3. \A j \in Job : Awaits(w, j)' => Awaits(w, j)
        BY <1>1 DEF Awaits, ReleasingPC
      <3> QED BY <2>2, <3>2, <3>3
    <2> QED BY <2>1, <2>2
  <1>3. \A v \in Worker : pc'[v] = "enqueue" => pc[v] = "enqueue" /\ item'[v] = item[v]
    BY <1>1
  <1> QED BY <1>1, <1>2, <1>3, FewerUnderWay, ConstantsAssumption

LEMMA MarkReadyCustody ==
  ASSUME Forest, TypeOK, JobsKnown, OneCustody, NEW w \in Worker, MarkReady(w)
  PROVE  OneCustody'
  <1> DEFINE j == item[w].job
  <1>0. /\ pc \in [Worker -> WorkerPC] /\ dep \in [Job -> DepStatus]
        /\ pc[w] = "check" /\ j \in Job
    BY KnownTypes DEF MarkReady, TypeOK, WorkerTypeOK, RowsTypeOK
  <1>1. /\ UNCHANGED <<status, queue, toEnqueue, cur, stack, item>>
        /\ \A v \in Worker \ {w} : UNCHANGED pc[v]
    BY <1>0 DEF MarkReady, Goto, submitter
  <1>2. \/ pc'[w] = "resolveNext" /\ dep' = dep
        \/ /\ pc'[w] \in {"enqueue", "resolveNext"}
           /\ Exists(j) => dep'[j] = "ready"
           /\ \A k \in Job : k # j => dep'[k] = dep[k]
    BY <1>0 DEF MarkReady, Goto, AfterReady, SetDep
  <1>3. Awaits(w, j) /\ ~UnderWay(j)
    BY <1>0 DEF Awaits, OneCustody
  <1>4. ASSUME NEW v \in Worker, NEW k \in Job, Awaits(v, k)'
        PROVE  Awaits(v, k) /\ (k = j => v = w /\ pc'[w] # "enqueue")
    <2>1. CASE v # w
      <3>1. Awaits(v, k)
        BY <1>1, <1>4, <2>1 DEF Awaits, Top
      <3> QED BY <1>3, <2>1, <3>1, OneReleaser
    <2>2. CASE v = w
      <3>1. FrameDistinct(w)
        BY DEF OneCustody
      <3>2. \E i \in Top(w) : i.job = k
        BY <1>0, <1>1, <1>2, <1>4, <2>2 DEF Awaits, Top
      <3> QED BY <1>0, <2>2, <3>1, <3>2 DEF Awaits, FrameDistinct, ReleasingPC
    <2> QED BY <2>1, <2>2
  <1>5. \A k \in Job : /\ Queued(k)' <=> Queued(k)
                       /\ Working(k)' <=> Working(k)
                       /\ Releasing(k)' => Releasing(k) \/ (k = j /\ pc'[w] = "enqueue")
    <2>1. \A k \in Job : (Queued(k)' <=> Queued(k)) /\ (Working(k)' <=> Working(k))
      BY <1>1 DEF Queued, Working
    <2>2. \A k \in Job : Releasing(k)' => Releasing(k) \/ (k = j /\ pc'[w] = "enqueue")
      BY <1>1 DEF Releasing
    <2> QED BY <2>1, <2>2
  <1>6. \A k \in Job : UnderWay(k)' => UnderWay(k) \/ (k = j /\ pc'[w] = "enqueue")
    BY <1>1, <1>5 DEF UnderWay
  <1>7. \A v \in Worker, k \in Job : Awaits(v, k)' => ~UnderWay(k)'
    BY <1>4, <1>6 DEF OneCustody
  <1>8. \A k \in Job : InOneWay(k)'
    <2>1. ASSUME NEW k \in Job, k # j PROVE InOneWay(k)'
      <3>1. dep'[k] = dep[k] /\ InOneWay(k)
        BY <1>2, <2>1 DEF OneCustody
      <3> QED BY <1>1, <1>5, <1>6, <2>1, <3>1 DEF InOneWay, Exists
    <2>2. ASSUME NEW k \in Job, k = j PROVE InOneWay(k)'
      <3>1. ~Queued(k) /\ k \notin toEnqueue /\ ~Working(k) /\ ~Releasing(k)
        BY <1>3, <2>2 DEF UnderWay
      <3>2. UnderWay(k)' => dep'[k] # "pending" \/ ~Exists(k)
        BY <1>2, <1>3, <1>6, <2>2
      <3> QED BY <1>1, <1>5, <3>1, <3>2 DEF InOneWay, Exists
    <2> QED BY <2>1, <2>2
  <1>9. \A v \in Worker : FrameDistinct(v)'
    BY <1>0, <1>1, <1>2 DEF OneCustody, FrameDistinct, Top, ReleasingPC
  <1> QED BY <1>1, <1>7, <1>8, <1>9 DEF OneCustody

LEMMA ReleaseCustody ==
  ASSUME Forest, TypeOK, JobsKnown, OneCustody, NEW w \in Worker, EnqueueDependent(w)
  PROVE  OneCustody'
  <1> DEFINE j == item[w].job
  <1>0. pc \in [Worker -> WorkerPC] /\ pc[w] = "enqueue" /\ j \in Job
    BY KnownTypes DEF EnqueueDependent, TypeOK, WorkerTypeOK
  <1>1. /\ UNCHANGED <<status, dep, toEnqueue, cur, stack, item>> /\ Enqueue(j)
        /\ pc'[w] = "resolveNext" /\ \A v \in Worker \ {w} : UNCHANGED pc[v]
    BY <1>0 DEF EnqueueDependent, Goto, rows, submitter
  <1>2. Releasing(j) /\ UnderWay(j) /\ ~Queued(j) /\ j \notin toEnqueue /\ ~Working(j)
    BY <1>0 DEF Releasing, UnderWay, OneCustody, InOneWay
  <1>3. ~Releasing(j)'
    <2>1. \A v \in Worker \ {w} : ~(pc[v] = "enqueue" /\ item[v].job = j)
      BY <1>0, OneReleaser
    <2> QED BY <1>1, <2>1 DEF Releasing
  <1>4. \A k \in Job : /\ Queued(k)' => Queued(k) \/ k = j
                       /\ Working(k)' <=> Working(k)
                       /\ Releasing(k)' => Releasing(k)
    BY <1>0, <1>1, <1>2, SentCustody DEF Working, Releasing
  <1>5. \A k \in Job : UnderWay(k)' => UnderWay(k)
    BY <1>1, <1>2, <1>4 DEF UnderWay
  <1>6. ASSUME NEW v \in Worker, NEW k \in Job, Awaits(v, k)' PROVE Awaits(v, k)
    BY <1>0, <1>1, <1>6 DEF Awaits, Top, ReleasingPC
  <1>7. \A k \in Job : InOneWay(k)'
    BY <1>1, <1>2, <1>3, <1>4, <1>5 DEF OneCustody, InOneWay, Exists
  <1>8. \A v \in Worker : FrameDistinct(v)'
    BY <1>0, <1>1 DEF OneCustody, FrameDistinct, Top, ReleasingPC
  <1>9. \A i, k \in DOMAIN queue' : queue'[i] = queue'[k] => i = k
    BY <1>0, <1>1, <1>2, SentCustody
  <1> QED BY <1>1, <1>5, <1>6, <1>7, <1>8, <1>9 DEF OneCustody

LEMMA RestartCustody ==
  ASSUME TypeOK, Restart
  PROVE  OneCustody'
  <1>1. /\ UNCHANGED <<status, dep>> /\ toEnqueue' = {}
        /\ \A w \in Worker : pc'[w] = "idle" /\ cur'[w] = None
    BY DEF Restart, rows
  <1>2. /\ \A i \in DOMAIN queue' : queue'[i] \in Recoverable
        /\ \A i, k \in DOMAIN queue' : queue'[i] = queue'[k] => i = k
    BY DEF Restart
  <1>3. \A j \in Job : ~Working(j)' /\ ~Releasing(j)'
    BY <1>1, ConstantsAssumption DEF Working, Releasing
  <1>4. \A j \in Job : Queued(j)' => dep'[j] = "ready"
    BY <1>1, <1>2 DEF Queued, Recoverable
  <1>5. \A j \in Job : InOneWay(j)'
    BY <1>1, <1>3, <1>4 DEF InOneWay, UnderWay
  <1>6. \A w \in Worker : FrameDistinct(w)' /\ \A j \in Job : ~Awaits(w, j)'
    BY <1>1 DEF FrameDistinct, Awaits, ReleasingPC
  <1> QED BY <1>1, <1>2, <1>5, <1>6 DEF OneCustody

LEMMA CustodyStep ==
  Forest /\ TypeOK /\ Clearance /\ JobsKnown /\ OneCustody /\ [Next]_vars => OneCustody'
  <1> SUFFICES ASSUME Forest, TypeOK, Clearance, JobsKnown, OneCustody, [Next]_vars
               PROVE  OneCustody'
    OBVIOUS
  <1>1. RowHeld
    BY DEF Clearance
  <1> QED
    BY <1>1, CalmSteps, CalmCustody, CreateCustody, SendCustody, PickCustody, QueryCustody,
       ResolveCustody, MarkReadyCustody, ReleaseCustody, RestartCustody

LEMMA CustodyInit == Init => OneCustody
  <1> SUFFICES ASSUME Init PROVE OneCustody
    OBVIOUS
  <1>1. \A j \in Job : ~Queued(j) /\ ~Working(j) /\ ~Releasing(j) /\ toEnqueue = {}
    BY ConstantsAssumption DEF Init, Queued, Working, Releasing
  <1> QED BY <1>1 DEF Init, OneCustody, InOneWay, UnderWay, FrameDistinct, Awaits, ReleasingPC

LEMMA CustodyHolds == Spec => [](Forest => OneCustody)
  <1>1. Init => (Forest => OneCustody)
    BY CustodyInit
  <1>2. /\ TypeOK /\ Clearance /\ Tracked /\ (Forest => OneCustody) /\ [Next]_vars
        => (Forest => OneCustody)'
    BY CustodyStep DEF Tracked, Forest
  <1> QED BY <1>1, <1>2, TypeCorrect, ClearanceHolds, TrackedHolds, PTL DEF Spec

\* All the ways in which a job is under way are one and the same.
LEMMA CustodyUnique ==
  ASSUME Forest, TypeOK, JobsKnown, OneCustody, NEW j \in Job
  PROVE  \A x, y \in Custody(j) : x = y
  <1> DEFINE inQueue == {<<"queue", i>> : i \in {k \in DOMAIN queue : queue[k] = j}}
             atWork == {<<"worker", w>> : w \in {v \in Worker : cur[v] = j}}
             inRelease == {<<"release", w>> : w \in {v \in Worker : pc[v] = "enqueue" /\ item[v].job = j}}
             inSubmit == IF j \in toEnqueue THEN {<<"submit">>} ELSE {}
  <1>1. Custody(j) = inQueue \cup atWork \cup inRelease \cup inSubmit
    BY DEF Custody
  <1>2. \A x, y \in inQueue : x = y
    BY DEF OneCustody
  <1>3. \A x, y \in atWork : x = y
    BY ConstantsAssumption DEF OneCustody
  <1>4. \A x, y \in inRelease : x = y
    <2> SUFFICES ASSUME NEW v \in Worker, NEW w \in Worker, pc[v] = "enqueue", item[v].job = j,
                        pc[w] = "enqueue", item[w].job = j
                 PROVE  v = w
      OBVIOUS
    <2> QED BY OneReleaser
  <1>5. /\ inQueue # {} => Queued(j)
        /\ atWork # {} => Working(j)
        /\ inRelease # {} => Releasing(j)
        /\ inSubmit # {} => j \in toEnqueue
    BY DEF Queued, Working, Releasing
  <1>6. InOneWay(j)
    BY DEF OneCustody
  <1>7. \A x, y \in inSubmit : x = y
    OBVIOUS
  <1> HIDE DEF inQueue, atWork, inRelease, inSubmit
  <1> QED BY <1>1, <1>2, <1>3, <1>4, <1>5, <1>6, <1>7 DEF InOneWay

\* A job is in one place at a time: in a chain where no job waits for several
\* others, two workers never have the same job and it is never queued twice,
\* though run checks nothing but the status it first reads.
THEOREM SingleCustodyHolds == Spec => []SingleCustody
  <1>1. ASSUME Forest, TypeOK, JobsKnown, OneCustody, NEW j \in Job
        PROVE  Cardinality(Custody(j)) <= 1
    <2>1. CASE Custody(j) = {}
      BY <2>1, FS_EmptySet
    <2>2. CASE Custody(j) # {}
      <3>1. PICK x : x \in Custody(j)
        BY <2>2
      <3>2. Custody(j) = {x}
        BY <1>1, <3>1, CustodyUnique
      <3> QED BY <3>2, FS_Singleton
    <2> QED BY <2>1, <2>2
  <1>2. TypeOK /\ Tracked /\ (Forest => OneCustody) => SingleCustody
    BY <1>1 DEF Tracked, SingleCustody
  <1> QED BY <1>2, TypeCorrect, TrackedHolds, CustodyHolds, PTL

(***************************************************************************)
(* The registry of running jobs.  Its entry for a job is that of the last  *)
(* worker to register under it, and the clean-up of any worker removes it: *)
(* it is exact because no two workers have the same job.                   *)
(***************************************************************************)

Registry == \A j \in Job, w \in Worker : active[j] = w <=> cur[w] = j /\ pc[w] \in Registered

Apart == \A v, w \in Worker : cur[v] = cur[w] /\ cur[w] # None => v = w

\* The registry and the workers in it stay as they are.
RegistryQuiet ==
  /\ active' = active
  /\ \A w \in Worker : /\ pc'[w] \in Registered <=> pc[w] \in Registered
                       /\ pc[w] \in Registered => cur'[w] = cur[w]

LEMMA RegistrySteps ==
  ASSUME TypeOK, [Next]_vars
  PROVE  \/ RegistryQuiet
         \/ \E w \in Worker : Register(w) \/ Cleanup(w)
         \/ Restart
  <1>0. pc \in [Worker -> WorkerPC] /\ cur \in [Worker -> Job \cup {None}]
    BY DEF TypeOK, WorkerTypeOK
  <1>1. ASSUME NEW w \in Worker, StartDrain(w) PROVE RegistryQuiet
    BY <1>0, <1>1 DEF StartDrain, Goto, RegistryQuiet, Registered
  <1>2. ASSUME NEW w \in Worker, Exit(w) PROVE RegistryQuiet
    BY <1>0, <1>2 DEF Exit, Goto, RegistryQuiet, Registered
  <1>3. ASSUME NEW w \in Worker, LoadJob(w) PROVE RegistryQuiet
    BY <1>0, <1>3 DEF LoadJob, Goto, RegistryQuiet, Registered
  <1>4. ASSUME NEW w \in Worker, MarkRunning(w) PROVE RegistryQuiet
    BY <1>0, <1>4 DEF MarkRunning, Goto, RegistryQuiet, Registered
  <1>5. ASSUME NEW w \in Worker, Execute(w) PROVE RegistryQuiet
    BY <1>0, <1>5 DEF Execute, Goto, RegistryQuiet, Registered, RunOutcome
  <1>6. ASSUME NEW w \in Worker, RecordSetupFailure(w) PROVE RegistryQuiet
    BY <1>0, <1>6 DEF RecordSetupFailure, Goto, RegistryQuiet, Registered
  <1>7. ASSUME NEW w \in Worker, Finish(w) PROVE RegistryQuiet
    BY <1>0, <1>7 DEF Finish, Goto, RegistryQuiet, Registered
  <1>8. ASSUME NEW w \in Worker, QueryPendingDependents(w) PROVE RegistryQuiet
    BY <1>0, <1>8 DEF QueryPendingDependents, Goto, RegistryQuiet, Registered
  <1>9. ASSUME NEW w \in Worker, ResolveNext(w) PROVE RegistryQuiet
    BY <1>0, <1>9 DEF ResolveNext, Goto, RegistryQuiet, Registered
  <1>10. ASSUME NEW w \in Worker, CheckDependency(w) PROVE RegistryQuiet
    BY <1>0, <1>10 DEF CheckDependency, Goto, RegistryQuiet, Registered
  <1>11. ASSUME NEW w \in Worker, MarkReady(w) PROVE RegistryQuiet
    BY <1>0, <1>11 DEF MarkReady, Goto, RegistryQuiet, Registered, AfterReady
  <1>12. ASSUME NEW w \in Worker, EnqueueDependent(w) PROVE RegistryQuiet
    BY <1>0, <1>12 DEF EnqueueDependent, Goto, RegistryQuiet, Registered
  <1>13. ASSUME NEW w \in Worker, QueryLiveDependents(w) PROVE RegistryQuiet
    BY <1>0, <1>13 DEF QueryLiveDependents, Goto, RegistryQuiet, Registered
  <1>14. ASSUME NEW w \in Worker, PropagateNext(w) PROVE RegistryQuiet
    BY <1>0, <1>14 DEF PropagateNext, Goto, RegistryQuiet, Registered
  <1>15. ASSUME NEW w \in Worker, FailDependency(w) PROVE RegistryQuiet
    BY <1>0, <1>15 DEF FailDependency, Goto, RegistryQuiet, Registered
  <1>16. ASSUME NEW w \in Worker, FailDependent(w) PROVE RegistryQuiet
    BY <1>0, <1>16 DEF FailDependent, Goto, RegistryQuiet, Registered
  <1>17. ASSUME NEW w \in Worker, DrainTimeout(w) PROVE RegistryQuiet
    BY <1>0, <1>17 DEF DrainTimeout, Goto, RegistryQuiet, Registered
  <1>18. ASSUME NEW w \in Worker, StoreFault(w) PROVE RegistryQuiet
    BY <1>0, <1>18 DEF StoreFault, Goto, RegistryQuiet, Registered, OnError
  <1>19. ASSUME NEW w \in Worker, Pick(w) PROVE RegistryQuiet
    BY <1>0, <1>19 DEF Pick, Goto, RegistryQuiet, Registered
  <1>20. ASSUME NEW w \in Worker, SkipFinished(w) PROVE RegistryQuiet
    BY <1>0, <1>20 DEF SkipFinished, Goto, RegistryQuiet, Registered, Return
  <1>21. ASSUME NEW c \in Caller, NEW j \in Job, CancelLookup(c, j) PROVE RegistryQuiet
    BY <1>21 DEF CancelLookup, RegistryQuiet
  <1>22. ASSUME NEW c \in Caller, CancelRead(c) PROVE RegistryQuiet
    BY <1>22 DEF CancelRead, RegistryQuiet, worker
  <1>23. ASSUME NEW c \in Caller, CancelWrite(c) PROVE RegistryQuiet
    BY <1>23 DEF CancelWrite, RegistryQuiet, worker
  <1>24. ASSUME NEW j \in Job, DeleteJob(j) PROVE RegistryQuiet
    BY <1>24 DEF DeleteJob, RegistryQuiet, worker
  <1>25. ASSUME NEW j \in Job, CreateJob(j) PROVE RegistryQuiet
    BY <1>25 DEF CreateJob, RegistryQuiet, worker
  <1>26. ASSUME NEW j \in Job, EnqueueCreated(j) PROVE RegistryQuiet
    BY <1>26 DEF EnqueueCreated, RegistryQuiet, worker
  <1>27. ASSUME CreateFails PROVE RegistryQuiet
    BY <1>27 DEF CreateFails, RegistryQuiet, worker
  <1>28. ASSUME Shutdown PROVE RegistryQuiet
    BY <1>28 DEF Shutdown, RegistryQuiet, worker
  <1>30. ASSUME NEW w \in Worker, Publish(w) PROVE RegistryQuiet
    BY <1>30 DEF Publish, worker, RegistryQuiet
  <1>29. ASSUME UNCHANGED vars PROVE RegistryQuiet
    BY <1>29 DEF vars, worker, RegistryQuiet
  <1> QED
    BY <1>1, <1>2, <1>3, <1>4, <1>5, <1>6, <1>7, <1>8, <1>9, <1>10, <1>11, <1>12, <1>13, <1>14, <1>15, <1>16, <1>17, <1>18, <1>19, <1>20, <1>21, <1>22, <1>23, <1>24, <1>25, <1>26, <1>27, <1>28, <1>29, <1>30
    DEF Next, Submit, Work, Cancel

LEMMA RegistryStep ==
  ASSUME TypeOK, Registry, Apart, [Next]_vars
  PROVE  Registry'
  <1>0. /\ pc \in [Worker -> WorkerPC] /\ cur \in [Worker -> Job \cup {None}]
        /\ active \in [Job -> Worker \cup {None}] /\ None \notin Worker /\ None \notin Job
    BY ConstantsAssumption DEF TypeOK, WorkerTypeOK, RestTypeOK
  <1>1. CASE RegistryQuiet
    BY <1>1 DEF RegistryQuiet, Registry
  <1>2. ASSUME NEW w \in Worker, Register(w) PROVE Registry'
    <2>1. /\ pc[w] = "register" /\ cur' = cur /\ pc' = [pc EXCEPT ![w] = "exec"]
          /\ active' = [active EXCEPT ![cur[w]] = w]
      BY <1>2 DEF Register, Goto
    <2>2. cur[w] \in Job
      BY <2>1 DEF TypeOK, WorkerTypeOK, WorkerFits
    <2>3. \A v \in Worker \ {w} : cur[v] # cur[w]
      BY <1>0, <2>2 DEF Apart
    <2> SUFFICES ASSUME NEW j \in Job, NEW v \in Worker
                 PROVE  active'[j] = v <=> cur'[v] = j /\ pc'[v] \in Registered
      BY DEF Registry
    <2>4. CASE j = cur[w]
      BY <1>0, <2>1, <2>2, <2>3, <2>4 DEF Registered
    <2>5. CASE j # cur[w]
      BY <1>0, <2>1, <2>2, <2>5 DEF Registry
    <2> QED BY <2>4, <2>5
  <1>3. ASSUME NEW w \in Worker, Cleanup(w) PROVE Registry'
    <2>1. /\ pc[w] = "cleanup" /\ cur' = [cur EXCEPT ![w] = None] /\ pc' = [pc EXCEPT ![w] = "idle"]
          /\ active' = [active EXCEPT ![cur[w]] = None]
      BY <1>3 DEF Cleanup, Return, Goto, Unregister
    <2>2. cur[w] \in Job
      BY <2>1 DEF TypeOK, WorkerTypeOK, WorkerFits
    <2>3. \A v \in Worker \ {w} : cur[v] # cur[w]
      BY <1>0, <2>2 DEF Apart
    <2> SUFFICES ASSUME NEW j \in Job, NEW v \in Worker
                 PROVE  active'[j] = v <=> cur'[v] = j /\ pc'[v] \in Registered
      BY DEF Registry
    <2>4. CASE j = cur[w]
      BY <1>0, <2>1, <2>2, <2>3, <2>4
    <2>5. CASE j # cur[w]
      BY <1>0, <2>1, <2>2, <2>5 DEF Registry
    <2> QED BY <2>4, <2>5
  <1>4. CASE Restart
    BY <1>0, <1>4 DEF Restart, Registry, Registered
  <1> QED BY <1>1, <1>2, <1>3, <1>4, RegistrySteps

\* CancelJob reaches every run it can still stop: in a chain where no job waits
\* for several others, activeJobs has an entry for a job exactly while a worker is
\* between registration and the deferred clean-up, and it is that worker's.
THEOREM RegistryExactHolds == Spec => []RegistryExact
  <1>1. RegistryExact <=> (Forest => Registry)
    BY DEF RegistryExact, Registry
  <1>2. Init => Registry
    BY ConstantsAssumption DEF Init, Registry, Registered
  <1>3. TypeOK /\ (Forest => OneCustody) /\ (Forest => Registry) /\ [Next]_vars
        => (Forest => Registry)'
    BY RegistryStep DEF OneCustody, Apart, Forest
  <1>4. Spec => [](Forest => Registry)
    BY <1>2, <1>3, TypeCorrect, CustodyHolds, PTL DEF Spec
  <1>5. (Forest => Registry) => RegistryExact
    BY <1>1
  <1> QED BY <1>4, <1>5, PTL

(***************************************************************************)
(* The life of a job, where nothing interferes with a chain: its status    *)
(* says how far it is on its way, and what holds it agrees.  A queued job  *)
(* is marked running once, by the one worker that has it; a job that a     *)
(* failure reaches is queued or has been failed already, because a job     *)
(* that ever started had its dependencies succeed.                         *)
(***************************************************************************)

Broken == {"failed", "canceled"}
RunningPC == {"register", "exec", "setupFail", "succeed", "fail", "cancel"}
PropagatingPC == {"propagate", "propNext", "propDep", "propStatus"}

\* A job that a failure has reached or will reach.
Doomed(j) == Exists(j) /\ \E p \in Deps[j] : status[p] \in Broken

RowsSettled ==
  /\ \A j \in Job : "succeeded" \in held[j] => status[j] = "succeeded"
  /\ \A j \in Job : Known(j) => Exists(j)
  /\ \A j \in Job : status[j] \in {"running", "succeeded", "canceled"} => Cleared(j)

\* What the statuses say of the job and the dependents that worker w handles.
Stage(w) ==
  /\ pc[w] \in {"get", "mark"} => status[cur[w]] = "queued"
  /\ pc[w] \in RunningPC => status[cur[w]] = "running"
  /\ pc[w] \in {"resolve"} \cup ReleasingPC => status[cur[w]] = "succeeded"
  /\ pc[w] \in ReleasingPC => \A i \in Top(w) : i.queued => status[i.job] = "queued"
  /\ pc[w] \in {"check", "enqueue"} /\ item[w].queued => status[item[w].job] = "queued"
  /\ pc[w] = "enqueue" => item[w].queued
  /\ pc[w] = "propagate" => status[FailedJob(w)] \in Broken
  /\ pc[w] \in PropagatingPC => \A k \in DOMAIN stack[w] : \A i \in stack[w][k] : Doomed(i.job)
  /\ pc[w] \in {"propDep", "propStatus"} => Doomed(item[w].job)

Waiting ==
  /\ \A i \in DOMAIN queue : status[queue[i]] = "queued"
  /\ \A j \in toEnqueue : status[j] = "queued"

Lifecycle == RowsSettled /\ Waiting /\ \A w \in Worker : Stage(w)

\* The invariants of the sections before, for a chain that is a forest.
Placed == TypeOK /\ Clearance /\ JobsKnown /\ OneCustody

LEMMA RowsKept ==
  ASSUME RowsSettled, UNCHANGED <<status, held>>
  PROVE  RowsSettled'
  BY DEF RowsSettled, Known, Exists, Cleared

LEMMA RowsWritten ==
  ASSUME TypeOK, RowHeld, RowsSettled, NEW j \in Job, NEW s, SetStatus(j, s), Exists(j),
         s # "absent", s # status[j] => status[j] # "succeeded",
         s \in {"running", "succeeded", "canceled"} => Cleared(j)
  PROVE  RowsSettled'
  <1>1. HistoryGrows
    BY HistoryOfSetStatus
  <1>2. \A k \in Job : /\ status'[k] = IF k = j THEN s ELSE status[k]
                       /\ held'[k] = IF k = j THEN held[k] \cup {s} ELSE held[k]
    BY DEF SetStatus
  <1>3. \A k \in Job : "succeeded" \in held'[k] => status'[k] = "succeeded"
    BY <1>2 DEF RowsSettled
  <1>4. \A k \in Job : Known(k)' => Exists(k)'
    BY <1>2 DEF RowsSettled, Known, Exists
  <1>5. ASSUME NEW k \in Job, status'[k] \in {"running", "succeeded", "canceled"}
        PROVE  Cleared(k)'
    <2>1. Cleared(k)
      BY <1>2, <1>5 DEF RowsSettled
    <2> QED BY <1>1, <2>1, ClearedStays DEF Cleared
  <1> QED BY <1>3, <1>4, <1>5 DEF RowsSettled

\* What is said of a worker stays true while others write rows that it does not handle.
LEMMA StageStays ==
  ASSUME Placed, NEW w \in Worker, Stage(w), UNCHANGED <<pc[w], cur[w], stack[w], item[w]>>,
         \A j \in Job : status[j] \in Terminal => status'[j] = status[j],
         \A j \in Job : Exists(j) => Exists(j)',
         cur[w] # None => status'[cur[w]] = status[cur[w]] \/ status[cur[w]] \in Terminal,
         \A j \in Job : Awaits(w, j) \/ (pc[w] = "enqueue" /\ item[w].job = j)
                          => status'[j] = status[j]
  PROVE  Stage(w)'
  <1> USE KnownTypes DEF Placed
  <1>1. pc[w] \notin {"idle", "exited"} => cur[w] \in Job
    BY DEF TypeOK, WorkerTypeOK, WorkerFits
  <1>2. /\ pc[w] \in {"get", "mark"} => status'[cur[w]] = "queued"
        /\ pc[w] \in RunningPC => status'[cur[w]] = "running"
        /\ pc[w] \in {"resolve"} \cup ReleasingPC => status'[cur[w]] = "succeeded"
    BY <1>1, ConstantsAssumption DEF Stage, RunningPC, ReleasingPC, Terminal
  <1>3. pc[w] \in ReleasingPC => \A i \in Top(w) : i.queued => status'[i.job] = "queued"
    BY DEF Stage, Awaits
  <1>4. pc[w] \in {"check", "enqueue"} /\ item[w].queued => status'[item[w].job] = "queued"
    BY DEF Stage, Awaits
  <1>5. ASSUME NEW j \in Job, Doomed(j) PROVE Doomed(j)'
    BY <1>5, ConstantsAssumption DEF Doomed, Broken, Terminal
  <1>6. ASSUME pc[w] = "propagate" PROVE status'[FailedJob(w)] \in Broken
    <2>1. FailedJob(w) \in Job
      BY <1>1, <1>6 DEF FailedJob, TypeOK, WorkerTypeOK, WorkerFits, Snapshot, NoItem
    <2> QED BY <1>6, <2>1 DEF Stage, Broken, Terminal
  <1>7. ASSUME pc[w] \in PropagatingPC, NEW k \in DOMAIN stack[w], NEW i \in stack[w][k]
        PROVE  Doomed(i.job)'
    <2>1. i.job \in Job
      BY <1>7 DEF TypeOK, WorkerTypeOK, Snapshot
    <2> QED BY <1>5, <1>7, <2>1 DEF Stage
  <1>8. ASSUME pc[w] \in {"propDep", "propStatus"} PROVE Doomed(item[w].job)'
    <2>1. item[w].job \in Job
      BY <1>8, ItemIsSnapshot DEF Snapshot
    <2> QED BY <1>5, <1>8, <2>1 DEF Stage
  <1>9. FailedJob(w)' = FailedJob(w) /\ Top(w)' = Top(w)
    BY DEF FailedJob, Top
  <1> QED BY <1>2, <1>3, <1>4, <1>6, <1>7, <1>8, <1>9 DEF Stage, Doomed, Exists

\* A step of worker w alone that writes no row.
LEMMA OwnStepLives ==
  ASSUME Placed, Lifecycle, NEW w \in Worker, UNCHANGED <<status, held>>,
         \A v \in Worker \ {w} : UNCHANGED <<pc[v], cur[v], stack[v], item[v]>>,
         Waiting', Stage(w)'
  PROVE  Lifecycle'
  <1>1. RowsSettled'
    BY RowsKept DEF Lifecycle
  <1>2. ASSUME NEW v \in Worker \ {w} PROVE Stage(v)'
    BY <1>2, StageStays DEF Lifecycle, Exists
  <1> QED BY <1>1, <1>2 DEF Lifecycle

\* A worker writes a row that nothing else holds.
LEMMA WriteLives ==
  ASSUME Placed, Lifecycle, NEW w \in Worker, NEW j \in Job, NEW s, SetStatus(j, s),
         UNCHANGED <<queue, toEnqueue>>,
         \A v \in Worker \ {w} : UNCHANGED <<pc[v], cur[v], stack[v], item[v]>>,
         Exists(j), s # "absent", status[j] \in Terminal => s = status[j],
         s \in {"running", "succeeded", "canceled"} => Cleared(j),
         ~Queued(j), j \notin toEnqueue,
         \A v \in Worker \ {w} : cur[v] # j,
         \A v \in Worker \ {w} : ~Awaits(v, j) /\ ~(pc[v] = "enqueue" /\ item[v].job = j),
         Stage(w)'
  PROVE  Lifecycle'
  <1>0. \A k \in Job : status'[k] = IF k = j THEN s ELSE status[k]
    BY DEF SetStatus
  <1>1. RowsSettled'
    BY RowsWritten DEF Lifecycle, Placed, Clearance, Terminal
  <1>2. ASSUME NEW v \in Worker \ {w} PROVE Stage(v)'
    <2>1. cur[v] # None => cur[v] \in Job
      BY KnownTypes DEF Placed
    <2> QED BY <1>0, <1>2, <2>1, StageStays DEF Lifecycle, Exists
  <1>3. Waiting'
    BY <1>0, KnownTypes DEF Lifecycle, Waiting, Queued, Placed
  <1> QED BY <1>1, <1>2, <1>3 DEF Lifecycle

\* The job of a worker is not in any other place.
LEMMA HeldAlone ==
  ASSUME Placed, NEW w \in Worker, cur[w] # None
  PROVE  /\ cur[w] \in Job /\ ~Queued(cur[w]) /\ cur[w] \notin toEnqueue
         /\ \A v \in Worker \ {w} : cur[v] # cur[w]
         /\ \A v \in Worker : ~Awaits(v, cur[w]) /\ ~(pc[v] = "enqueue" /\ item[v].job = cur[w])
  <1>1. cur[w] \in Job /\ Working(cur[w])
    BY KnownTypes DEF Placed, Working
  <1>2. UnderWay(cur[w]) /\ InOneWay(cur[w])
    BY <1>1 DEF UnderWay, Placed, OneCustody
  <1> QED BY <1>1, <1>2 DEF Placed, OneCustody, InOneWay, Releasing

\* A job that a failure has reached is in none: it has never been cleared, and the
\* worker that would release it has a job that succeeded.
LEMMA DoomedAlone ==
  ASSUME Forest, Placed, Lifecycle, NEW j \in Job, Doomed(j)
  PROVE  /\ ~Cleared(j) /\ ~Queued(j) /\ j \notin toEnqueue
         /\ \A v \in Worker : cur[v] # j
         /\ \A v \in Worker : ~Awaits(v, j) /\ ~(pc[v] = "enqueue" /\ item[v].job = j)
  <1>1. PICK p \in Deps[j] : p \in Job /\ status[p] \in Broken
    BY ConstantsAssumption DEF Doomed
  <1>2. ~Cleared(j)
    BY <1>1 DEF Cleared, Lifecycle, RowsSettled, Broken
  <1>3. ~Queued(j) /\ j \notin toEnqueue
    BY <1>2 DEF Placed, Clearance, QueueCleared, SubmitCleared, Queued
  <1>4. \A v \in Worker : cur[v] # j
    BY <1>2, ConstantsAssumption DEF Placed, Clearance, DependencyOrder
  <1>5. ASSUME NEW v \in Worker, Awaits(v, j) \/ (pc[v] = "enqueue" /\ item[v].job = j)
        PROVE  FALSE
    <2>1. cur[v] \in Deps[j] /\ pc[v] \in ReleasingPC
      BY <1>5 DEF Placed, JobsKnown, WorkerKnows, Awaits, Dependent, ReleasingPC
    <2>2. cur[v] = p
      BY <1>1, <2>1 DEF Forest
    <2> QED BY <1>1, <2>1, <2>2 DEF Lifecycle, Stage, Broken
  <1> QED BY <1>2, <1>3, <1>4, <1>5

\* A job that a failure has reached has not started: it is queued, or has failed.
LEMMA DoomedStatus ==
  ASSUME TypeOK, Lifecycle, NEW j \in Job, Doomed(j)
  PROVE  status[j] \in {"queued", "failed"}
  <1>1. PICK p \in Deps[j] : p \in Job /\ status[p] \in Broken
    BY ConstantsAssumption DEF Doomed
  <1>2. ~Cleared(j)
    BY <1>1 DEF Cleared, Lifecycle, RowsSettled, Broken
  <1>3. status[j] \in Status /\ status[j] # "absent"
    BY DEF TypeOK, RowsTypeOK, Doomed, Exists
  <1> QED BY <1>2, <1>3 DEF Lifecycle, RowsSettled, Status, Terminal

LEMMA QuietLives ==
  ASSUME Placed, Lifecycle, NEW w \in Worker, UNCHANGED <<status, held, queue, toEnqueue>>,
         \A v \in Worker \ {w} : UNCHANGED <<pc[v], cur[v], stack[v], item[v]>>,
         Stage(w)'
  PROVE  Lifecycle'
  <1>1. Waiting'
    BY DEF Lifecycle, Waiting
  <1> QED BY <1>1, OwnStepLives

LEMMA StillLives ==
  ASSUME Lifecycle, UNCHANGED <<status, held, queue, toEnqueue, pc, cur, stack, item>>
  PROVE  Lifecycle'
  BY DEF Lifecycle, RowsSettled, Waiting, Stage, Known, Exists, Cleared, Doomed, Top, FailedJob

\* The steps of a worker up to the outcome of its run that write no row.
LEMMA RunLives ==
  ASSUME Placed, Lifecycle, NEW w \in Worker,
         Exit(w) \/ SkipFinished(w) \/ LoadJob(w) \/ Register(w) \/ Execute(w) \/ Cleanup(w)
  PROVE  Lifecycle'
  <1>0. /\ pc \in [Worker -> WorkerPC] /\ cur \in [Worker -> Job \cup {None}]
        /\ stack \in [Worker -> Seq(SUBSET Snapshot)]
        /\ item \in [Worker -> Snapshot \cup {NoItem}] /\ Stage(w)
    BY DEF Placed, TypeOK, WorkerTypeOK, Lifecycle
  <1>1. CASE Exit(w) \/ SkipFinished(w) \/ Cleanup(w)
    <2>1. pc'[w] \in {"idle", "exited"} /\ UNCHANGED <<status, held, queue, toEnqueue>>
          /\ \A v \in Worker \ {w} : UNCHANGED <<pc[v], cur[v], stack[v], item[v]>>
      <3>1. CASE Exit(w)
        BY <1>0, <3>1 DEF Exit, Goto, rows, submitter
      <3>2. CASE SkipFinished(w)
        BY <1>0, <3>2 DEF SkipFinished, Return, Goto, rows, submitter
      <3>3. CASE Cleanup(w)
        BY <1>0, <3>3 DEF Cleanup, Return, Goto, rows, submitter
      <3> QED BY <1>1, <3>1, <3>2, <3>3
    <2>2. Stage(w)'
      BY <2>1 DEF Stage, RunningPC, ReleasingPC, PropagatingPC
    <2> QED BY <2>1, <2>2, QuietLives
  <1>2. CASE LoadJob(w) \/ Register(w) \/ Execute(w)
    <2>1. /\ UNCHANGED <<status, held, queue, toEnqueue, cur, stack, item>>
          /\ \A v \in Worker \ {w} : UNCHANGED pc[v]
          /\ \/ pc[w] = "get" /\ pc'[w] = "mark"
             \/ pc[w] \in RunningPC /\ pc'[w] \in (RunningPC \cup {"cleanup"})
      BY <1>0, <1>2 DEF LoadJob, Register, Execute, RunOutcome, Goto, rows, submitter, RunningPC
    <2>2. Stage(w)'
      BY <1>0, <2>1 DEF Stage, RunningPC, ReleasingPC, PropagatingPC
    <2> QED BY <2>1, <2>2, QuietLives
  <1> QED BY <1>1, <1>2

LEMMA QueryLives ==
  ASSUME Placed, Lifecycle, NEW w \in Worker, QueryPendingDependents(w)
  PROVE  Lifecycle'
  <1>0. /\ pc \in [Worker -> WorkerPC] /\ stack \in [Worker -> Seq(SUBSET Snapshot)] /\ Stage(w)
    BY DEF Placed, TypeOK, WorkerTypeOK, Lifecycle
  <1>1. /\ UNCHANGED <<status, held, queue, toEnqueue, cur, item>> /\ pc[w] = "resolve"
        /\ pc'[w] \in {"cleanup", "resolveNext"}
        /\ \A v \in Worker \ {w} : UNCHANGED <<pc[v], stack[v]>>
    BY <1>0 DEF QueryPendingDependents, Goto, rows, submitter
  <1> DEFINE frame == Snapshots({d \in DependentsOf(cur[w]) : dep[d] = "pending"})
  <1>2. pc'[w] = "resolveNext" => Top(w)' = frame
    BY <1>0, <1>1 DEF QueryPendingDependents, Goto, Top
  <1>3. \A i \in frame : i.queued => status[i.job] = "queued"
    <2> SUFFICES ASSUME NEW d \in DependentsOf(cur[w])
                 PROVE  LET i == [job |-> d, queued |-> status[d] = "queued"]
                        IN  i.queued => status[i.job] = "queued"
      BY DEF Snapshots
    <2> QED OBVIOUS
  <1> HIDE DEF frame
  <1>4. Stage(w)'
    BY <1>0, <1>1, <1>2, <1>3 DEF Stage, RunningPC, ReleasingPC, PropagatingPC
  <1> QED BY <1>1, <1>4, QuietLives

LEMMA ReleasingLives ==
  ASSUME Placed, Lifecycle, NEW w \in Worker, ResolveNext(w) \/ CheckDependency(w) \/ MarkReady(w)
  PROVE  Lifecycle'
  <1>0. pc \in [Worker -> WorkerPC] /\ Stage(w)
    BY DEF Placed, TypeOK, WorkerTypeOK, Lifecycle
  <1>1. CASE ResolveNext(w)
    <2>1. /\ UNCHANGED <<status, held, queue, toEnqueue, cur>> /\ pc[w] = "resolveNext"
          /\ \A v \in Worker \ {w} : UNCHANGED <<pc[v], stack[v], item[v]>>
          /\ \/ /\ item'[w] \in Top(w) /\ pc'[w] = "check" /\ Top(w)' = Top(w) \ {item'[w]}
             \/ pc'[w] = "cleanup"
      BY <1>1, NextDependent DEF Placed, rows, submitter
    <2>2. pc'[w] = "check" => \A i \in Top(w)' \cup {item'[w]} : i.queued => status[i.job] = "queued"
      BY <1>0, <2>1 DEF Stage, ReleasingPC
    <2>3. pc'[w] = "check" /\ item'[w].queued => status[item'[w].job] = "queued"
      BY <2>2
    <2>4. Stage(w)'
      BY <1>0, <2>1, <2>2, <2>3 DEF Stage, RunningPC, ReleasingPC, PropagatingPC
    <2> QED BY <2>1, <2>4, QuietLives
  <1>2. CASE CheckDependency(w) \/ MarkReady(w)
    <2>1. /\ UNCHANGED <<status, held, queue, toEnqueue, cur, stack, item>> /\ pc[w] = "check"
          /\ \A v \in Worker \ {w} : UNCHANGED pc[v]
          /\ \/ pc'[w] \in {"check", "resolveNext"}
             \/ pc'[w] = "enqueue" /\ item[w].queued
      BY <1>0, <1>2 DEF CheckDependency, MarkReady, AfterReady, Goto, rows, submitter
    <2>2. Top(w)' = Top(w)
      BY <2>1 DEF Top
    <2>3. Stage(w)'
      BY <1>0, <2>1, <2>2 DEF Stage, RunningPC, ReleasingPC, PropagatingPC
    <2> QED BY <2>1, <2>3, QuietLives
  <1> QED BY <1>1, <1>2

\* A job goes to the queue: one that is queued in the store.
LEMMA SentWaiting ==
  ASSUME TypeOK, Waiting, NEW j \in Job, Enqueue(j), status[j] = "queued", UNCHANGED status,
         toEnqueue' \subseteq toEnqueue
  PROVE  Waiting'
  <1>1. \A i \in DOMAIN queue' : (i \in DOMAIN queue /\ queue'[i] = queue[i]) \/ queue'[i] = j
    BY Sent
  <1> QED BY <1>1 DEF Waiting

LEMMA SendLives ==
  ASSUME Placed, Lifecycle, NEW j \in Job, EnqueueCreated(j)
  PROVE  Lifecycle'
  <1>1. /\ UNCHANGED <<status, held, pc, cur, stack, item>> /\ Enqueue(j) /\ j \in toEnqueue
        /\ toEnqueue' \subseteq toEnqueue
    BY DEF EnqueueCreated, rows, worker
  <1>2. Waiting'
    BY <1>1, SentWaiting DEF Lifecycle, Waiting, Placed
  <1>3. RowsSettled' /\ \A v \in Worker : Stage(v)'
    <2>1. \A v \in Worker : Stage(v)'
      BY <1>1 DEF Lifecycle, Stage, Exists, Doomed, Top, FailedJob
    <2> QED BY <1>1, <2>1, RowsKept DEF Lifecycle
  <1> QED BY <1>2, <1>3 DEF Lifecycle

LEMMA ReleaseLives ==
  ASSUME Placed, Lifecycle, NEW w \in Worker, EnqueueDependent(w)
  PROVE  Lifecycle'
  <1>0. pc \in [Worker -> WorkerPC] /\ Stage(w) /\ TypeOK
    BY DEF Placed, TypeOK, WorkerTypeOK, Lifecycle
  <1>1. /\ UNCHANGED <<status, held, cur, stack, item, toEnqueue>> /\ Enqueue(item[w].job)
        /\ pc[w] = "enqueue" /\ pc'[w] = "resolveNext"
        /\ \A v \in Worker \ {w} : UNCHANGED pc[v]
    BY <1>0 DEF EnqueueDependent, Goto, rows, submitter
  <1>2. item[w].job \in Job /\ status[item[w].job] = "queued"
    BY <1>0, <1>1, KnownTypes DEF Stage
  <1>3. Waiting'
    BY <1>0, <1>1, <1>2, SentWaiting DEF Lifecycle
  <1>4. Top(w)' = Top(w)
    BY <1>1 DEF Top
  <1>5. Stage(w)'
    BY <1>0, <1>1, <1>4 DEF Stage, RunningPC, ReleasingPC, PropagatingPC
  <1> QED BY <1>1, <1>3, <1>5, OwnStepLives

LEMMA PickLives ==
  ASSUME Placed, Lifecycle, NEW w \in Worker, Pick(w)
  PROVE  Lifecycle'
  <1>0. /\ pc \in [Worker -> WorkerPC] /\ cur \in [Worker -> Job \cup {None}] /\ TypeOK
        /\ Waiting
    BY DEF Placed, TypeOK, WorkerTypeOK, Lifecycle
  <1>1. /\ UNCHANGED <<status, held, stack, item, toEnqueue>>
        /\ cur'[w] = Head(queue) /\ pc'[w] = "get"
        /\ \A v \in Worker \ {w} : UNCHANGED <<pc[v], cur[v]>>
    BY <1>0 DEF Pick, Goto, rows, submitter
  <1>2. status[Head(queue)] = "queued"
    BY <1>0, Taken DEF Waiting
  <1>3. Waiting'
    BY <1>0, <1>1, Taken DEF Waiting
  <1>4. Stage(w)'
    BY <1>1, <1>2 DEF Stage, RunningPC, ReleasingPC, PropagatingPC
  <1> QED BY <1>1, <1>3, <1>4, OwnStepLives

LEMMA RestartLives ==
  ASSUME Lifecycle, Restart
  PROVE  Lifecycle'
  <1>1. /\ UNCHANGED <<status, held>> /\ toEnqueue' = {}
        /\ \A w \in Worker : pc'[w] = "idle"
    BY DEF Restart, rows
  <1>2. \A i \in DOMAIN queue' : queue'[i] \in Recoverable
    BY DEF Restart
  <1>3. Waiting'
    BY <1>1, <1>2 DEF Waiting, Recoverable
  <1>4. \A w \in Worker : Stage(w)'
    BY <1>1 DEF Stage, RunningPC, ReleasingPC, PropagatingPC
  <1> QED BY <1>1, <1>3, <1>4, RowsKept DEF Lifecycle

LEMMA CreateLives ==
  ASSUME Placed, Lifecycle, NEW j \in Job, CreateJob(j)
  PROVE  Lifecycle'
  <1> USE KnownTypes DEF Placed
  <1>0. ~Known(j) /\ ~Exists(j)
    BY DEF CreateJob, JobsKnown, Clearance, RowHeld, Known
  <1>1. /\ UNCHANGED <<queue, pc, cur, stack, item>>
        /\ toEnqueue' \subseteq toEnqueue \cup {j}
        /\ \A k \in Job : /\ status'[k] = IF k = j THEN "queued" ELSE status[k]
                          /\ held'[k] = IF k = j THEN held[k] \cup {"queued"} ELSE held[k]
    BY DEF CreateJob, EnqueuedOnSubmit, worker, TypeOK, RowsTypeOK
  <1>2. RowsSettled'
    <2>1. \A k \in Job : "succeeded" \in held'[k] => status'[k] = "succeeded"
      BY <1>0, <1>1 DEF Lifecycle, RowsSettled, Known
    <2>2. \A k \in Job : Known(k)' => Exists(k)'
      BY <1>1 DEF Lifecycle, RowsSettled, Known, Exists
    <2>3. ASSUME NEW k \in Job, status'[k] \in {"running", "succeeded", "canceled"}
          PROVE  Cleared(k)'
      BY <1>1, <2>3, ConstantsAssumption DEF Lifecycle, RowsSettled, Cleared
    <2> QED BY <2>1, <2>2, <2>3 DEF RowsSettled
  <1>3. ASSUME NEW w \in Worker PROVE Stage(w)'
    <2>1. cur[w] # None => cur[w] \in Job /\ cur[w] # j
      BY <1>0 DEF JobsKnown, WorkerKnows
    <2>2. ~Awaits(w, j) /\ ~(pc[w] = "enqueue" /\ item[w].job = j)
      BY <1>0 DEF JobsKnown, WorkerKnows, Awaits, Dependent
    <2> QED BY <1>0, <1>1, <2>1, <2>2, StageStays DEF Lifecycle, Exists, Terminal
  <1>4. Waiting'
    BY <1>1 DEF Lifecycle, Waiting
  <1> QED BY <1>2, <1>3, <1>4 DEF Lifecycle

\* A worker writes the status of its own job.
LEMMA OutcomeLives ==
  ASSUME Placed, Lifecycle, NEW w \in Worker, MarkRunning(w) \/ RecordSetupFailure(w) \/ Finish(w)
  PROVE  /\ Lifecycle'
         /\ cur[w] \in Job
         /\ \E s : /\ \A k \in Job : status'[k] = IF k = cur[w] THEN s ELSE status[k]
                   /\ \/ s = "running" /\ status[cur[w]] = "queued"
                      \/ s \in Terminal /\ status[cur[w]] = "running"
  <1> DEFINE j == cur[w]
  <1>0. /\ pc \in [Worker -> WorkerPC] /\ Stage(w) /\ TypeOK
        /\ j # None /\ (pc[w] \in {"fail", "cancel"} => stack[w] = <<>>)
    BY DEF Placed, TypeOK, WorkerTypeOK, WorkerFits, Lifecycle, MarkRunning, RecordSetupFailure,
           Finish
  <1> DEFINE s == IF pc[w] = "mark" THEN "running"
                  ELSE IF pc[w] = "setupFail" THEN "failed" ELSE FinalStatus[pc[w]]
  <1>1. /\ SetStatus(j, s) /\ UNCHANGED <<queue, toEnqueue, cur, stack, item>>
        /\ \A v \in Worker \ {w} : UNCHANGED pc[v]
        /\ \/ pc[w] = "mark" /\ pc'[w] = "register"
           \/ pc[w] = "setupFail" /\ pc'[w] = "cleanup"
           \/ pc[w] = "succeed" /\ pc'[w] = "resolve"
           \/ pc[w] \in {"fail", "cancel"} /\ pc'[w] = "propagate"
    <2>1. CASE MarkRunning(w)
      BY <1>0, <2>1 DEF MarkRunning, Goto, submitter
    <2>2. CASE RecordSetupFailure(w)
      BY <1>0, <2>2 DEF RecordSetupFailure, Goto, submitter
    <2>3. CASE Finish(w)
      BY <1>0, <2>3 DEF Finish, Goto, submitter
    <2> QED BY <2>1, <2>2, <2>3
  <1>2. /\ pc[w] = "mark" => s = "running"
        /\ pc[w] = "setupFail" => s = "failed"
        /\ pc[w] = "succeed" => s = "succeeded"
        /\ pc[w] = "fail" => s = "failed"
        /\ pc[w] = "cancel" => s = "canceled"
    BY DEF FinalStatus
  <1> HIDE DEF s
  <1>3. /\ j \in Job /\ ~Queued(j) /\ j \notin toEnqueue
        /\ \A v \in Worker \ {w} : cur[v] # j
        /\ \A v \in Worker : ~Awaits(v, j) /\ ~(pc[v] = "enqueue" /\ item[v].job = j)
    BY <1>0, HeldAlone
  <1>4. \/ s = "running" /\ status[j] = "queued"
        \/ s \in Terminal /\ status[j] = "running"
    BY <1>0, <1>1, <1>2 DEF Stage, RunningPC, Terminal
  <1>5. Exists(j) /\ status[j] \notin Terminal /\ s # "absent"
    BY <1>4 DEF Exists, Terminal
  <1>6. Cleared(j)
    BY <1>0 DEF Placed, Clearance, DependencyOrder
  <1>7. \A k \in Job : status'[k] = IF k = j THEN s ELSE status[k]
    BY <1>1, <1>5 DEF SetStatus
  <1>8. Stage(w)'
    <2>1. cur'[w] = cur[w] /\ status'[cur[w]] = s
      BY <1>1, <1>3, <1>7
    <2>2. CASE pc'[w] \in {"register", "cleanup", "resolve"}
      BY <1>1, <1>2, <2>1, <2>2 DEF Stage, RunningPC, ReleasingPC, PropagatingPC
    <2>3. CASE pc'[w] = "propagate"
      <3>1. pc[w] \in {"fail", "cancel"} /\ s \in Broken
        BY <1>1, <1>2, <2>3 DEF Broken
      <3>2. stack'[w] = <<>> /\ FailedJob(w)' = cur[w]
        BY <1>0, <1>1, <3>1 DEF FailedJob
      <3>3. DOMAIN stack'[w] = {}
        BY <3>2
      <3> QED BY <2>1, <2>3, <3>1, <3>2, <3>3 DEF Stage, RunningPC, ReleasingPC, PropagatingPC
    <2> QED BY <1>1, <2>2, <2>3
  <1>9. Lifecycle'
    BY <1>1, <1>3, <1>5, <1>6, <1>8, WriteLives
  <1> QED BY <1>3, <1>4, <1>7, <1>9

\* A worker fails a dependent, which may have been failed before.
LEMMA FailLives ==
  ASSUME Forest, Placed, Lifecycle, NEW w \in Worker, FailDependent(w)
  PROVE  /\ Lifecycle'
         /\ item[w].job \in Job /\ Doomed(item[w].job)
         /\ \A k \in Job : status'[k] = IF k = item[w].job THEN "failed" ELSE status[k]
  <1> DEFINE j == item[w].job
  <1>0. /\ pc \in [Worker -> WorkerPC] /\ Stage(w) /\ TypeOK
        /\ pc[w] = "propStatus" /\ stack[w] # <<>> /\ j \in Job
    BY ItemIsSnapshot DEF Placed, TypeOK, WorkerTypeOK, WorkerFits, Lifecycle, FailDependent, Snapshot
  <1>1. /\ SetStatus(j, "failed") /\ UNCHANGED <<queue, toEnqueue, cur, stack, item>>
        /\ pc'[w] = "propagate" /\ \A v \in Worker \ {w} : UNCHANGED pc[v]
    BY <1>0 DEF FailDependent, Goto, submitter
  <1>2. Doomed(j) /\ Exists(j)
    BY <1>0 DEF Stage, Doomed
  <1>3. /\ ~Queued(j) /\ j \notin toEnqueue
        /\ \A v \in Worker : cur[v] # j
        /\ \A v \in Worker : ~Awaits(v, j) /\ ~(pc[v] = "enqueue" /\ item[v].job = j)
    BY <1>0, <1>2, DoomedAlone
  <1>4. status[j] \in {"queued", "failed"}
    BY <1>0, <1>2, DoomedStatus
  <1>5. \A k \in Job : status'[k] = IF k = j THEN "failed" ELSE status[k]
    BY <1>1, <1>2 DEF SetStatus
  <1>6. ASSUME NEW k \in Job, Doomed(k) PROVE Doomed(k)'
    BY <1>5, <1>6, ConstantsAssumption DEF Doomed, Exists, Broken
  <1>7. Stage(w)'
    <2>1. FailedJob(w)' = j /\ status'[j] = "failed"
      BY <1>0, <1>1, <1>5 DEF FailedJob
    <2>2. ASSUME NEW k \in DOMAIN stack[w], NEW i \in stack[w][k] PROVE Doomed(i.job)'
      <3>1. i.job \in Job
        BY <1>0 DEF TypeOK, WorkerTypeOK, Snapshot
      <3>2. Doomed(i.job)
        BY <1>0 DEF Stage, PropagatingPC
      <3> QED BY <1>6, <3>1, <3>2
    <2>3. status'[FailedJob(w)'] \in Broken
      BY <2>1 DEF Broken
    <2> QED BY <1>1, <2>2, <2>3 DEF Stage, RunningPC, ReleasingPC, PropagatingPC, Doomed, Exists
  <1>8. Lifecycle'
    BY <1>0, <1>1, <1>2, <1>3, <1>4, <1>7, WriteLives DEF Terminal
  <1> QED BY <1>0, <1>2, <1>5, <1>8

LEMMA PropagateLives ==
  ASSUME Placed, Lifecycle, NEW w \in Worker,
         QueryLiveDependents(w) \/ PropagateNext(w) \/ FailDependency(w)
  PROVE  Lifecycle'
  <1>0. /\ pc \in [Worker -> WorkerPC] /\ Stage(w) /\ TypeOK
        /\ stack \in [Worker -> Seq(SUBSET Snapshot)]
        /\ item \in [Worker -> Snapshot \cup {NoItem}] /\ WorkerFits(w)
    BY DEF Placed, TypeOK, WorkerTypeOK, Lifecycle
  <1> DEFINE AllDoomed(s) == \A k \in DOMAIN s : \A i \in s[k] : Doomed(i.job)
  <1>a. pc[w] \in PropagatingPC => AllDoomed(stack[w])
    BY <1>0 DEF Stage
  <1>b. ASSUME UNCHANGED <<status, held, queue, toEnqueue>>, pc[w] \in PropagatingPC,
               \A v \in Worker \ {w} : UNCHANGED <<pc[v], cur[v], stack[v], item[v]>>,
               pc'[w] \in {"propNext", "propDep", "propStatus", "cleanup"},
               pc'[w] # "cleanup" => AllDoomed(stack'[w]),
               pc'[w] \in {"propDep", "propStatus"} => Doomed(item'[w].job)
        PROVE  Lifecycle'
    <2>1. Stage(w)'
      BY <1>b DEF Stage, RunningPC, ReleasingPC, PropagatingPC, Doomed, Exists
    <2> QED BY <1>b, <2>1, QuietLives
  <1> HIDE DEF AllDoomed
  <1>1. CASE QueryLiveDependents(w)
    <2> DEFINE frame == Snapshots({d \in DependentsOf(FailedJob(w)) : status[d] \notin Terminal})
    <2>1. \A i \in frame : Doomed(i.job)
      <3>1. \A i \in frame : i.job \in DependentsOf(FailedJob(w))
        BY DEF Snapshots
      <3>2. status[FailedJob(w)] \in Broken
        BY <1>0, <1>1 DEF QueryLiveDependents, Stage
      <3> QED BY <3>1, <3>2 DEF DependentsOf, Doomed
    <2>2. frame \in SUBSET Snapshot
      BY SnapshotsType DEF DependentsOf
    <2>3. /\ UNCHANGED <<status, held, queue, toEnqueue, cur, item>> /\ pc[w] = "propagate"
          /\ pc'[w] = "propNext" /\ stack'[w] = <<frame>> \o stack[w]
          /\ \A v \in Worker \ {w} : UNCHANGED <<pc[v], stack[v]>>
      BY <1>0, <1>1 DEF QueryLiveDependents, Goto, rows, submitter
    <2> HIDE DEF frame
    <2>4. ASSUME NEW k \in DOMAIN stack'[w]
          PROVE  stack'[w][k] = frame \/ (k - 1 \in DOMAIN stack[w] /\ stack'[w][k] = stack[w][k - 1])
      <3>1. stack[w] \in Seq(SUBSET Snapshot) /\ <<frame>> \in Seq(SUBSET Snapshot)
            /\ Len(<<frame>>) = 1 /\ <<frame>>[1] = frame
        BY <1>0, <2>2
      <3> QED BY <2>3, <2>4, <3>1, ConcatProperties
    <2>5. AllDoomed(stack'[w])
      BY <1>a, <2>1, <2>3, <2>4 DEF AllDoomed, PropagatingPC
    <2> QED BY <1>b, <2>3, <2>5 DEF PropagatingPC
  <1>2. CASE PropagateNext(w)
    <2>0. /\ UNCHANGED <<status, held, queue, toEnqueue, cur>> /\ pc[w] = "propNext"
          /\ stack[w] # <<>> /\ AllDoomed(stack[w])
          /\ 1 \in DOMAIN stack[w] /\ Top(w) = stack[w][1]
      BY <1>0, <1>2, <1>a, EmptySeq DEF PropagateNext, rows, submitter, WorkerFits, PropagatingPC, Top
    <2>1. ASSUME NEW i \in Top(w), item' = [item EXCEPT ![w] = i],
                 stack' = [stack EXCEPT ![w][1] = @ \ {i}], Goto(w, "propDep")
          PROVE  Lifecycle'
      <3>1. /\ pc'[w] = "propDep" /\ item'[w] = i
            /\ \A v \in Worker \ {w} : UNCHANGED <<pc[v], stack[v], item[v]>>
            /\ stack'[w] = [stack[w] EXCEPT ![1] = @ \ {i}]
        BY <1>0, <2>1 DEF Goto
      <3>2. Doomed(i.job)
        BY <2>0, <2>1 DEF AllDoomed
      <3>3. AllDoomed(stack'[w])
        BY <2>0, <3>1 DEF AllDoomed
      <3> QED BY <1>b, <2>0, <3>1, <3>2, <3>3 DEF PropagatingPC
    <2>2. ASSUME stack' = [stack EXCEPT ![w] = Below(w)],
                 Goto(w, IF Below(w) = <<>> THEN "cleanup" ELSE "propNext"), UNCHANGED item
          PROVE  Lifecycle'
      <3>1. /\ pc'[w] \in {"propNext", "cleanup"} /\ stack'[w] = Tail(stack[w])
            /\ \A v \in Worker \ {w} : UNCHANGED <<pc[v], stack[v], item[v]>>
        BY <1>0, <2>2 DEF Goto, Below
      <3>2. \A k \in DOMAIN stack'[w] : k + 1 \in DOMAIN stack[w] /\ stack'[w][k] = stack[w][k + 1]
        BY <1>0, <2>0, <3>1
      <3>3. AllDoomed(stack'[w])
        BY <2>0, <3>2 DEF AllDoomed
      <3> QED BY <1>b, <2>0, <3>1, <3>3 DEF PropagatingPC
    <2> QED BY <1>2, <2>1, <2>2 DEF PropagateNext
  <1>3. CASE FailDependency(w)
    <2>1. /\ UNCHANGED <<status, held, queue, toEnqueue, cur, stack, item>> /\ pc[w] = "propDep"
          /\ pc'[w] \in {"propStatus", "propNext"}
          /\ \A v \in Worker \ {w} : UNCHANGED pc[v]
      BY <1>0, <1>3 DEF FailDependency, Goto, submitter
    <2>2. Doomed(item[w].job) /\ AllDoomed(stack'[w])
      BY <1>0, <1>a, <2>1 DEF Stage, PropagatingPC
    <2> QED BY <1>b, <2>1, <2>2 DEF PropagatingPC
  <1> QED BY <1>1, <1>2, <1>3

\* Every step of an undisturbed forest, by what it does to the statuses.
LEMMA LifeSteps ==
  ASSUME Undisturbed, Placed, Lifecycle, [Next]_vars
  PROVE  /\ Lifecycle'
         /\ \/ status' = status
            \/ \E j \in Job : CreateJob(j)
            \/ \E w \in Worker : MarkRunning(w) \/ RecordSetupFailure(w) \/ Finish(w)
            \/ \E w \in Worker : FailDependent(w)
  <1>0. Forest /\ TypeOK /\ Caller = {} /\ Deletable = {} /\ ~(faults < MaxFaults)
    BY DEF Undisturbed, Placed, TypeOK, RestTypeOK
  <1>1. ~CreateFails /\ \A w \in Worker : ~StoreFault(w)
    BY <1>0 DEF CreateFails, StoreFault
  <1>2. \A j \in Job : ~DeleteJob(j)
    BY <1>0 DEF DeleteJob
  <1>3. ASSUME NEW j \in Job, CreateJob(j) PROVE Lifecycle'
    BY <1>3, CreateLives
  <1>4. ASSUME NEW j \in Job, EnqueueCreated(j) PROVE Lifecycle' /\ status' = status
    BY <1>4, SendLives DEF EnqueueCreated, rows
  <1>5. ASSUME NEW w \in Worker, Work(w) \/ DrainTimeout(w)
        PROVE  /\ Lifecycle'
               /\ \/ status' = status
                  \/ MarkRunning(w) \/ RecordSetupFailure(w) \/ Finish(w) \/ FailDependent(w)
    <2>1. CASE Pick(w)
      BY <2>1, PickLives DEF Pick, rows
    <2>2. CASE StartDrain(w) \/ DrainTimeout(w) \/ Publish(w)
      BY <2>2, StillLives DEF StartDrain, DrainTimeout, Publish, rows, submitter, worker
    <2>3. CASE Exit(w) \/ SkipFinished(w) \/ LoadJob(w) \/ Register(w) \/ Execute(w) \/ Cleanup(w)
      <3>1. status' = status
        BY <2>3 DEF Exit, SkipFinished, LoadJob, Register, Execute, Cleanup, rows
      <3> QED BY <2>3, <3>1, RunLives
    <2>4. CASE MarkRunning(w) \/ RecordSetupFailure(w) \/ Finish(w)
      BY <2>4, OutcomeLives
    <2>5. CASE QueryPendingDependents(w)
      BY <2>5, QueryLives DEF QueryPendingDependents, rows
    <2>6. CASE ResolveNext(w) \/ CheckDependency(w) \/ MarkReady(w)
      <3>1. status' = status
        BY <2>6 DEF ResolveNext, CheckDependency, MarkReady, rows
      <3> QED BY <2>6, <3>1, ReleasingLives
    <2>7. CASE EnqueueDependent(w)
      BY <2>7, ReleaseLives DEF EnqueueDependent, rows
    <2>8. CASE QueryLiveDependents(w) \/ PropagateNext(w) \/ FailDependency(w)
      <3>1. status' = status
        BY <2>8 DEF QueryLiveDependents, PropagateNext, FailDependency, rows
      <3> QED BY <2>8, <3>1, PropagateLives
    <2>9. CASE FailDependent(w)
      BY <1>0, <2>9, FailLives
    <2> QED BY <1>5, <2>1, <2>2, <2>3, <2>4, <2>5, <2>6, <2>7, <2>8, <2>9 DEF Work
  <1>6. CASE Shutdown \/ UNCHANGED vars
    BY <1>6, StillLives DEF Shutdown, vars, rows, submitter, worker
  <1>7. CASE Restart
    BY <1>7, RestartLives DEF Restart, rows
  <1> QED BY <1>0, <1>1, <1>2, <1>3, <1>4, <1>5, <1>6, <1>7 DEF Next, Submit

LEMMA LifeInit == Init => Lifecycle
  <1> SUFFICES ASSUME Init PROVE Lifecycle
    OBVIOUS
  <1>1. RowsSettled
    BY DEF Init, RowsSettled, Known
  <1>2. Waiting
    BY DEF Init, Waiting
  <1>3. \A w \in Worker : Stage(w)
    BY DEF Init, Stage, RunningPC, ReleasingPC, PropagatingPC
  <1> QED BY <1>1, <1>2, <1>3 DEF Lifecycle

LEMMA LifecycleHolds == Spec => [](Undisturbed => Placed /\ Lifecycle)
  <1>1. TypeOK /\ Clearance /\ Tracked /\ (Forest => OneCustody) => (Undisturbed => Placed)
    BY DEF Undisturbed, Placed, Tracked
  <1>2. Init => (Undisturbed => Lifecycle)
    BY LifeInit
  <1>3. (Undisturbed => Placed) /\ (Undisturbed => Lifecycle) /\ [Next]_vars
        => (Undisturbed => Lifecycle)'
    BY LifeSteps DEF Undisturbed, Forest
  <1>4. Spec => [](Undisturbed => Placed)
    BY <1>1, TypeCorrect, ClearanceHolds, TrackedHolds, CustodyHolds, PTL
  <1>5. Spec => [](Undisturbed => Lifecycle)
    BY <1>2, <1>3, <1>4, PTL DEF Spec
  <1> QED BY <1>4, <1>5, PTL

LEMMA ContractStep ==
  ASSUME Undisturbed, Placed, TypeOK', Lifecycle, [Next]_vars
  PROVE  Contract!Next \/ status' = status
  <1>0. /\ status \in [Job -> Status] /\ status' \in [Job -> Status] /\ Forest /\ TypeOK
        /\ JobsKnown /\ RowHeld /\ DependencyOrder
    BY DEF Placed, TypeOK, RowsTypeOK, Undisturbed, Clearance
  <1>1. ASSUME NEW j \in Job, CreateJob(j) PROVE Contract!Next
    <2>1. ~Known(j) /\ status[j] = "absent"
      BY <1>0, <1>1 DEF CreateJob, JobsKnown, RowHeld, Known, Exists
    <2>2. Contract!Create(j)
      BY <1>1, <2>1 DEF CreateJob, Contract!Create
    <2> QED BY <2>2 DEF Contract!Next
  <1>2. ASSUME NEW w \in Worker, MarkRunning(w) \/ RecordSetupFailure(w) \/ Finish(w)
        PROVE  Contract!Next
    <2>1. /\ cur[w] \in Job
          /\ \E s : /\ \A k \in Job : status'[k] = IF k = cur[w] THEN s ELSE status[k]
                    /\ \/ s = "running" /\ status[cur[w]] = "queued"
                       \/ s \in Terminal /\ status[cur[w]] = "running"
      BY <1>2, OutcomeLives
    <2>2. PICK s : /\ \A k \in Job : status'[k] = IF k = cur[w] THEN s ELSE status[k]
                   /\ \/ s = "running" /\ status[cur[w]] = "queued"
                      \/ s \in Terminal /\ status[cur[w]] = "running"
      BY <2>1
    <2>3. status' = [status EXCEPT ![cur[w]] = s]
      BY <1>0, <2>1, <2>2
    <2>4. \A p \in Deps[cur[w]] : status[p] = "succeeded"
      BY <1>0, <2>1, ConstantsAssumption DEF DependencyOrder, Cleared, Lifecycle, RowsSettled
    <2>5. Contract!Start(cur[w]) \/ Contract!End(cur[w])
      BY <2>2, <2>3, <2>4 DEF Contract!Start, Contract!End, Contract!Ended, Terminal
    <2> QED BY <2>1, <2>5 DEF Contract!Next
  <1>3. ASSUME NEW w \in Worker, FailDependent(w) PROVE Contract!Next \/ status' = status
    <2> DEFINE j == item[w].job
    <2>1. /\ j \in Job /\ Doomed(j)
          /\ \A k \in Job : status'[k] = IF k = j THEN "failed" ELSE status[k]
      BY <1>0, <1>3, FailLives
    <2>2. status[j] \in {"queued", "failed"}
      BY <1>0, <2>1, DoomedStatus
    <2> HIDE DEF j
    <2>3. status' = [status EXCEPT ![j] = "failed"]
      BY <1>0, <2>1
    <2>4. CASE status[j] = "queued"
      <3>1. Contract!Forsake(j)
        BY <2>1, <2>3, <2>4 DEF Contract!Forsake, Doomed, Broken
      <3> QED BY <2>1, <3>1 DEF Contract!Next
    <2>5. CASE status[j] = "failed"
      BY <1>0, <2>1, <2>3, <2>5
    <2> QED BY <2>2, <2>4, <2>5
  <1> QED BY <1>1, <1>2, <1>3, LifeSteps

\* The job manager implements the contract of a chain, where the chain is a forest,
\* nobody cancels or deletes and the store works: a job starts once, after its
\* dependencies succeeded, ends once, and fails without a start when a dependency
\* did not succeed, through any number of shutdowns, crashes and restarts.
THEOREM ImplementsContractHolds == Undisturbed => (Spec => ImplementsContract)
  <1>1. Init => Contract!Init
    BY DEF Init, Contract!Init
  <1>2. (Undisturbed => Placed /\ Lifecycle) /\ TypeOK' /\ [Next]_vars /\ Undisturbed
        => [Contract!Next]_status
    BY ContractStep
  <1>3. Undisturbed => Undisturbed'
    BY DEF Undisturbed, Forest
  <1> QED BY <1>1, <1>2, <1>3, TypeCorrect, LifecycleHolds, PTL
      DEF Spec, ImplementsContract, Contract!Spec

\* There, a job that has ended is never marked running again, however the process
\* stops and starts (run, recoverQueuedJobs).
THEOREM NeverRerunHolds == Undisturbed => (Spec => NeverRerun)
  <1>1. TypeOK /\ [Contract!Next]_status =>
          \A j \in Job : status[j] \in Terminal => status'[j] # "running"
    <2>1. ASSUME NEW j \in Job, status[j] \in Terminal, status \in [Job -> Status], Contract!Next
          PROVE  status'[j] # "running"
      <3>1. PICK k \in Job : Contract!Create(k) \/ Contract!Start(k) \/ Contract!End(k) \/ Contract!Forsake(k)
        BY <2>1 DEF Contract!Next
      <3>2. k # j /\ \E s : status' = [status EXCEPT ![k] = s]
        BY <2>1, <3>1 DEF Contract!Create, Contract!Start, Contract!End, Contract!Forsake, Terminal
      <3> QED BY <2>1, <3>2 DEF Terminal
    <2> QED BY <2>1 DEF Terminal, TypeOK, RowsTypeOK
  <1> QED BY <1>1, TypeCorrect, ImplementsContractHolds, PTL
      DEF ImplementsContract, Contract!Spec, NeverRerun

(***************************************************************************)
(* Outcomes and their events.  A status that has been published must still *)
(* be in the store, so a terminal row must be final, and nobody may be     *)
(* about to publish the outcome of the same job again.  A run ends once;   *)
(* that a failure is spread to a dependent once needs an argument of its   *)
(* own: a dependent is on at most one list, still queued, and it comes     *)
(* there from the one worker that spreads the failure of its dependency.   *)
(***************************************************************************)

\* Worker w has dependent i still to fail: at level k of its lists, or in hand (0).
Holds(w, k, i) ==
  /\ pc[w] \in PropagatingPC
  /\ \/ k \in DOMAIN stack[w] /\ i \in stack[w][k]
     \/ k = 0 /\ pc[w] \in {"propDep", "propStatus"} /\ i = item[w]

FailedForReason ==
  \A j \in Job : status[j] = "failed" => Doomed(j) \/ \A p \in Deps[j] : status[p] = "succeeded"
HeldQueued ==
  \A w \in Worker, k \in Nat, i \in Snapshot : Holds(w, k, i) => status[i.job] = "queued"
HeldOnce ==
  \A w, v \in Worker, k, l \in Nat, i, n \in Snapshot :
    Holds(w, k, i) /\ Holds(v, l, n) /\ i.job = n.job => w = v /\ k = l /\ i = n
NotYetHeld ==
  \A w \in Worker, d \in Job : pc[w] = "propagate" /\ FailedJob(w) \in Deps[d] =>
    /\ status[d] \in {"queued", "absent"}
    /\ \A v \in Worker, k \in Nat, i \in Snapshot : Holds(v, k, i) => i.job # d
SpreadOnce ==
  \A w, v \in Worker :
    pc[w] = "propagate" /\ pc[v] = "propagate" /\ FailedJob(w) = FailedJob(v) => w = v

Spread == FailedForReason /\ HeldQueued /\ HeldOnce /\ NotYetHeld /\ SpreadOnce

\* The contract, job by job.
LEMMA StatusesMove ==
  ASSUME Undisturbed, Placed, TypeOK', Lifecycle, [Next]_vars
  PROVE  /\ \A j \in Job : status[j] \in Terminal => status'[j] = status[j]
         /\ \A j \in Job : status[j] = "absent" => status'[j] \in {"absent", "queued"}
         /\ \A j \in Job : Exists(j) => Exists(j)'
         /\ \A j \in Job : status'[j] = "failed" =>
              status[j] \in {"failed", "running"} \/ Doomed(j)
  <1>0. status \in [Job -> Status]
    BY DEF Placed, TypeOK, RowsTypeOK
  <1>1. Contract!Next \/ status' = status
    BY ContractStep
  <1>2. ASSUME NEW j \in Job,
               Contract!Create(j) \/ Contract!Start(j) \/ Contract!End(j) \/ Contract!Forsake(j)
        PROVE  \A k \in Job :
                 /\ k # j => status'[k] = status[k]
                 /\ \/ status[j] = "absent" /\ status'[j] = "queued"
                    \/ status[j] = "queued" /\ status'[j] = "running"
                    \/ status[j] = "running" /\ status'[j] \in Terminal
                    \/ status[j] = "queued" /\ status'[j] = "failed" /\ Doomed(j)
    BY <1>0, <1>2 DEF Contract!Create, Contract!Start, Contract!End, Contract!Forsake,
                      Contract!Ended, Terminal, Doomed, Broken, Exists
  <1>3. CASE Contract!Next
    BY <1>2, <1>3 DEF Contract!Next, Terminal, Exists
  <1>4. CASE status' = status
    BY <1>4 DEF Exists
  <1> QED BY <1>1, <1>3, <1>4

LEMMA FailedForReasonStep ==
  ASSUME Undisturbed, Placed, TypeOK', Lifecycle, FailedForReason, [Next]_vars
  PROVE  FailedForReason'
  <1> SUFFICES ASSUME NEW j \in Job, status'[j] = "failed"
               PROVE  Doomed(j)' \/ \A p \in Deps[j] : status'[p] = "succeeded"
    BY DEF FailedForReason
  <1>1. Doomed(j) \/ \A p \in Deps[j] : status[p] = "succeeded"
    <2>1. CASE status[j] = "running"
      BY <2>1, ConstantsAssumption DEF Lifecycle, RowsSettled, Cleared
    <2> QED BY <2>1, StatusesMove DEF FailedForReason
  <1> QED BY <1>1, StatusesMove, ConstantsAssumption DEF Doomed, Broken, Terminal

\* A dependent on a list has a dependency that failed, and no worker has it.
LEMMA HeldDoomed ==
  ASSUME Forest, Placed, Lifecycle, NEW w \in Worker, NEW k \in Nat, NEW i \in Snapshot,
         Holds(w, k, i)
  PROVE  i.job \in Job /\ Doomed(i.job) /\ \A v \in Worker : cur[v] # i.job
  <1>1. i.job \in Job
    BY DEF Snapshot
  <1>2. Doomed(i.job)
    BY DEF Holds, Lifecycle, Stage
  <1> QED BY <1>1, <1>2, DoomedAlone

\* A step that puts no dependent on a list and starts to spread no failure.
LEMMA SpreadKept ==
  ASSUME Undisturbed, Placed, TypeOK', Lifecycle, Spread, [Next]_vars,
         \A j \in Job : Doomed(j) => status'[j] = status[j],
         \A v \in Worker, k \in Nat, i \in Snapshot : Holds(v, k, i)' => Holds(v, k, i),
         \A v \in Worker : pc'[v] = "propagate" => pc[v] = "propagate" /\ FailedJob(v)' = FailedJob(v)
  PROVE  Spread'
  <1>0. Forest
    BY DEF Undisturbed
  <1>1. FailedForReason'
    BY FailedForReasonStep DEF Spread
  <1>2. HeldQueued'
    BY <1>0, HeldDoomed DEF Spread, HeldQueued
  <1>3. HeldOnce'
    BY DEF Spread, HeldOnce
  <1>4. NotYetHeld'
    <2> SUFFICES ASSUME NEW w \in Worker, NEW d \in Job,
                        pc'[w] = "propagate", FailedJob(w)' \in Deps[d]
                 PROVE  /\ status'[d] \in {"queued", "absent"}
                        /\ \A v \in Worker, k \in Nat, i \in Snapshot : Holds(v, k, i)' => i.job # d
      BY DEF NotYetHeld
    <2>1. pc[w] = "propagate" /\ FailedJob(w) \in Deps[d]
      OBVIOUS
    <2>2. status[d] \in {"queued", "absent"}
      BY <2>1 DEF Spread, NotYetHeld
    <2>3. Exists(d) => Doomed(d)
      BY <2>1 DEF Lifecycle, Stage, Doomed
    <2> QED BY <2>1, <2>2, <2>3, StatusesMove DEF Spread, NotYetHeld, Exists
  <1>5. SpreadOnce'
    BY DEF Spread, SpreadOnce
  <1> QED BY <1>1, <1>2, <1>3, <1>4, <1>5 DEF Spread

\* A worker that is not, or no longer, at the spreading of a failure.
LEMMA OthersSpread ==
  ASSUME NEW w \in Worker, pc'[w] \notin PropagatingPC,
         \A v \in Worker \ {w} : UNCHANGED <<pc[v], cur[v], stack[v], item[v]>>
  PROVE  /\ \A v \in Worker, k \in Nat, i \in Snapshot : Holds(v, k, i)' => Holds(v, k, i)
         /\ \A v \in Worker : pc'[v] = "propagate" => pc[v] = "propagate" /\ FailedJob(v)' = FailedJob(v)
  <1>1. ASSUME NEW v \in Worker, NEW k \in Nat, NEW i \in Snapshot, Holds(v, k, i)'
        PROVE  Holds(v, k, i)
    BY <1>1 DEF Holds
  <1>2. ASSUME NEW v \in Worker, pc'[v] = "propagate"
        PROVE  pc[v] = "propagate" /\ FailedJob(v)' = FailedJob(v)
    BY <1>2 DEF FailedJob, PropagatingPC
  <1> QED BY <1>1, <1>2

\* What failing p now finds: its dependents wait, on no list yet.
LEMMA NotSpreadBefore ==
  ASSUME Forest, Placed, Lifecycle, Spread, NEW p \in Job, status[p] \in {"queued", "running"}
  PROVE  /\ \A v \in Worker : pc[v] = "propagate" => FailedJob(v) # p
         /\ \A d \in Job : p \in Deps[d] =>
              /\ status[d] \in {"queued", "absent"}
              /\ \A v \in Worker, k \in Nat, i \in Snapshot : Holds(v, k, i) => i.job # d
  <1>1. \A v \in Worker : pc[v] = "propagate" => FailedJob(v) # p
    BY DEF Lifecycle, Stage, Broken
  <1>2. ASSUME NEW d \in Job, p \in Deps[d]
        PROVE  /\ status[d] \in {"queued", "absent"}
               /\ \A v \in Worker, k \in Nat, i \in Snapshot : Holds(v, k, i) => i.job # d
    <2>1. ~Doomed(d)
      BY <1>2 DEF Doomed, Forest, Broken
    <2>2. ~Cleared(d)
      BY <1>2 DEF Cleared, Lifecycle, RowsSettled
    <2>3. status[d] # "failed"
      BY <1>2, <2>1 DEF Spread, FailedForReason
    <2>4. status[d] \in Status
      BY DEF Placed, TypeOK, RowsTypeOK
    <2>5. status[d] \in {"queued", "absent"}
      BY <2>2, <2>3, <2>4 DEF Lifecycle, RowsSettled, Status, Terminal
    <2> QED BY <2>1, <2>5, HeldDoomed
  <1> QED BY <1>1, <1>2

\* A worker stores that p failed, and starts to spread it.
LEMMA SpreadStarts ==
  ASSUME Undisturbed, Placed, TypeOK', Lifecycle, Spread, [Next]_vars,
         NEW w \in Worker, NEW p \in Job, status[p] \in {"queued", "running"},
         p \notin Deps[p], \A k \in Job \ {p} : status'[k] = status[k],
         \A v \in Worker \ {w} : UNCHANGED <<pc[v], cur[v], stack[v], item[v]>>,
         pc'[w] = "propagate", FailedJob(w)' = p,
         \A v \in Worker, k \in Nat, i \in Snapshot :
           Holds(v, k, i)' => Holds(v, k, i) /\ i.job # p,
         \A v \in Worker : pc[v] = "propagate" => FailedJob(v) \notin Deps[p]
  PROVE  Spread'
  <1>0. Forest
    BY DEF Undisturbed
  <1>a. \A v \in Worker \ {w} : FailedJob(v)' = FailedJob(v)
    BY DEF FailedJob
  <1>b. /\ \A v \in Worker : pc[v] = "propagate" => FailedJob(v) # p
        /\ \A d \in Job : p \in Deps[d] =>
             /\ status[d] \in {"queued", "absent"}
             /\ \A v \in Worker, k \in Nat, i \in Snapshot : Holds(v, k, i) => i.job # d
    BY <1>0, NotSpreadBefore
  <1>1. FailedForReason'
    BY FailedForReasonStep DEF Spread
  <1>2. HeldQueued'
    BY <1>0, HeldDoomed DEF Spread, HeldQueued
  <1>3. HeldOnce'
    BY DEF Spread, HeldOnce
  <1>4. NotYetHeld'
    <2> SUFFICES ASSUME NEW v \in Worker, NEW d \in Job,
                        pc'[v] = "propagate", FailedJob(v)' \in Deps[d]
                 PROVE  /\ status'[d] \in {"queued", "absent"}
                        /\ \A u \in Worker, k \in Nat, i \in Snapshot : Holds(u, k, i)' => i.job # d
      BY DEF NotYetHeld
    <2>1. CASE v = w
      <3>1. p \in Deps[d] /\ d # p
        BY <2>1
      <3> QED BY <1>b, <3>1
    <2>2. CASE v # w
      <3>1. pc[v] = "propagate" /\ FailedJob(v) \in Deps[d]
        BY <1>a, <2>2
      <3>2. d # p
        BY <3>1
      <3> QED BY <3>1, <3>2 DEF Spread, NotYetHeld
    <2> QED BY <2>1, <2>2
  <1>5. SpreadOnce'
    BY <1>a, <1>b DEF Spread, SpreadOnce
  <1> QED BY <1>1, <1>2, <1>3, <1>4, <1>5 DEF Spread

LEMMA FinishSpreads ==
  ASSUME Undisturbed, Placed, TypeOK', Lifecycle, Spread, [Next]_vars,
         NEW w \in Worker, Finish(w)
  PROVE  Spread'
  <1>0. /\ Forest /\ pc \in [Worker -> WorkerPC] /\ pc[w] \in {"succeed", "fail", "cancel"}
        /\ cur[w] \in Job /\ stack[w] = <<>> /\ TypeOK
    BY DEF Undisturbed, Placed, TypeOK, WorkerTypeOK, WorkerFits, Finish
  <1> DEFINE p == cur[w]
  <1>1. /\ UNCHANGED <<cur, stack, item>> /\ \A v \in Worker \ {w} : UNCHANGED pc[v]
        /\ pc'[w] = IF pc[w] = "succeed" THEN "resolve" ELSE "propagate"
        /\ \A k \in Job \ {p} : status'[k] = status[k]
    BY <1>0 DEF Finish, Goto, SetStatus
  <1>2. status[p] = "running"
    BY <1>0 DEF Lifecycle, Stage, RunningPC
  <1>3. ~Doomed(p) /\ p \notin Deps[p]
    BY <1>0, <1>2, ConstantsAssumption DEF Lifecycle, RowsSettled, Cleared, Doomed, Broken
  <1>4. CASE pc[w] = "succeed"
    <2>1. pc'[w] \notin PropagatingPC
      BY <1>1, <1>4 DEF PropagatingPC
    <2>2. \A j \in Job : Doomed(j) => status'[j] = status[j]
      BY <1>1, <1>3
    <2> QED BY <1>1, <2>1, <2>2, OthersSpread, SpreadKept
  <1>5. CASE pc[w] # "succeed"
    <2>1. pc'[w] = "propagate" /\ FailedJob(w)' = p
      BY <1>0, <1>1, <1>5 DEF FailedJob
    <2>2. ASSUME NEW v \in Worker, NEW k \in Nat, NEW i \in Snapshot, Holds(v, k, i)'
          PROVE  Holds(v, k, i) /\ i.job # p
      <3>1. v # w
        BY <1>0, <1>1, <2>1, <2>2 DEF Holds
      <3>2. Holds(v, k, i)
        BY <1>1, <2>2, <3>1 DEF Holds
      <3> QED BY <1>0, <3>2, HeldDoomed
    <2>3. \A v \in Worker : pc[v] = "propagate" => FailedJob(v) \notin Deps[p]
      BY <1>2, <1>3 DEF Lifecycle, Stage, Doomed, Exists
    <2> HIDE DEF p
    <2> QED BY <1>0, <1>1, <1>2, <1>3, <2>1, <2>2, <2>3, SpreadStarts DEF p
  <1> QED BY <1>4, <1>5

LEMMA FailDependentSpreads ==
  ASSUME Undisturbed, Placed, TypeOK', Lifecycle, Spread, [Next]_vars,
         NEW w \in Worker, FailDependent(w)
  PROVE  Spread' /\ status[item[w].job] = "queued"
  <1> DEFINE p == item[w].job
  <1>0. /\ Forest /\ pc \in [Worker -> WorkerPC] /\ pc[w] = "propStatus"
        /\ stack[w] # <<>> /\ TypeOK /\ stack \in [Worker -> Seq(SUBSET Snapshot)]
    BY DEF Undisturbed, Placed, TypeOK, WorkerTypeOK, WorkerFits, FailDependent
  <1>1. /\ UNCHANGED <<cur, stack, item>> /\ \A v \in Worker \ {w} : UNCHANGED pc[v]
        /\ pc'[w] = "propagate" /\ \A k \in Job \ {p} : status'[k] = status[k]
    BY <1>0 DEF FailDependent, Goto, SetStatus
  <1>2. item[w] \in Snapshot /\ p \in Job /\ Holds(w, 0, item[w])
    BY <1>0, ItemIsSnapshot DEF Holds, PropagatingPC, Snapshot
  <1>3. status[p] = "queued" /\ Doomed(p)
    BY <1>0, <1>2, HeldDoomed DEF Spread, HeldQueued
  <1>4. p \notin Deps[p]
    BY <1>0, <1>2, <1>3 DEF Doomed, Broken, Forest
  <1>5. FailedJob(w)' = p
    BY <1>0, <1>1 DEF FailedJob
  <1>6. ASSUME NEW v \in Worker, NEW k \in Nat, NEW i \in Snapshot, Holds(v, k, i)'
        PROVE  Holds(v, k, i) /\ i.job # p
    <2>1. Holds(v, k, i)
      BY <1>0, <1>1, <1>6 DEF Holds, PropagatingPC
    <2>2. v = w => k \in DOMAIN stack[w]
      BY <1>1, <1>6 DEF Holds
    <2>3. 0 \notin DOMAIN stack[w]
      BY <1>0
    <2> QED BY <1>2, <2>1, <2>2, <2>3 DEF Spread, HeldOnce
  <1>7. \A v \in Worker : pc[v] = "propagate" => FailedJob(v) \notin Deps[p]
    BY <1>2 DEF Spread, NotYetHeld
  <1> HIDE DEF p
  <1>8. Spread'
    BY <1>0, <1>1, <1>2, <1>3, <1>4, <1>5, <1>6, <1>7, SpreadStarts
  <1> QED BY <1>3, <1>8 DEF p

\* A worker lists the dependents of the job it has failed, all for the first time.
LEMMA QueryLiveSpreads ==
  ASSUME Undisturbed, Placed, TypeOK', Lifecycle, Spread, [Next]_vars,
         NEW w \in Worker, QueryLiveDependents(w)
  PROVE  Spread'
  <1> DEFINE p == FailedJob(w)
             frame == Snapshots({d \in DependentsOf(p) : status[d] \notin Terminal})
  <1>0. /\ Forest /\ pc \in [Worker -> WorkerPC] /\ pc[w] = "propagate" /\ TypeOK
        /\ stack \in [Worker -> Seq(SUBSET Snapshot)] /\ status \in [Job -> Status]
    BY DEF Undisturbed, Placed, TypeOK, RowsTypeOK, WorkerTypeOK, QueryLiveDependents
  <1>1. /\ UNCHANGED <<status, cur, item>> /\ \A v \in Worker \ {w} : UNCHANGED <<pc[v], stack[v]>>
        /\ pc'[w] = "propNext" /\ stack'[w] = <<frame>> \o stack[w]
    BY <1>0 DEF QueryLiveDependents, Goto, rows
  <1>2. frame \in SUBSET Snapshot
    BY SnapshotsType DEF DependentsOf
  <1>3. \A i \in frame : /\ i.job \in Job /\ p \in Deps[i.job] /\ status[i.job] = "queued"
                         /\ i = [job |-> i.job, queued |-> TRUE]
    <2> SUFFICES ASSUME NEW i \in frame
                 PROVE  /\ i.job \in Job /\ p \in Deps[i.job] /\ status[i.job] = "queued"
                        /\ i = [job |-> i.job, queued |-> TRUE]
      OBVIOUS
    <2>1. PICK d \in DependentsOf(p) : i = [job |-> d, queued |-> status[d] = "queued"]
      BY DEF Snapshots
    <2>2. d \in Job /\ p \in Deps[d] /\ Exists(d)
      BY DEF DependentsOf
    <2>3. status[d] = "queued"
      BY <1>0, <2>2 DEF Spread, NotYetHeld, Exists
    <2>4. i.job = d /\ i.queued = TRUE
      BY <2>1, <2>3
    <2> QED BY <2>1, <2>2, <2>3, <2>4
  <1>4. \A i \in frame, v \in Worker, k \in Nat, n \in Snapshot : Holds(v, k, n) => n.job # i.job
    BY <1>0, <1>3 DEF Spread, NotYetHeld
  <1> HIDE DEF frame
  <1>5. ASSUME NEW v \in Worker, NEW k \in Nat, NEW i \in Snapshot, Holds(v, k, i)'
        PROVE  \/ v = w /\ k = 1 /\ i \in frame
               \/ v = w /\ k > 1 /\ k - 1 \in Nat /\ Holds(w, k - 1, i)
               \/ v # w /\ Holds(v, k, i)
    <2>1. CASE v = w
      <3>1. k \in DOMAIN stack'[w] /\ i \in stack'[w][k]
        BY <1>0, <1>1, <1>5, <2>1 DEF Holds
      <3>2. stack[w] \in Seq(SUBSET Snapshot) /\ <<frame>> \in Seq(SUBSET Snapshot)
            /\ Len(<<frame>>) = 1 /\ <<frame>>[1] = frame
        BY <1>0, <1>2
      <3>3. \/ k = 1 /\ stack'[w][k] = frame
            \/ k > 1 /\ k - 1 \in DOMAIN stack[w] /\ stack'[w][k] = stack[w][k - 1]
        BY <1>1, <3>1, <3>2, ConcatProperties
      <3> QED BY <1>0, <2>1, <3>1, <3>3 DEF Holds, PropagatingPC
    <2>2. CASE v # w
      BY <1>1, <1>5, <2>2 DEF Holds
    <2> QED BY <2>1, <2>2
  <1>6. FailedForReason'
    BY FailedForReasonStep DEF Spread
  <1>7. HeldQueued'
    BY <1>1, <1>3, <1>5 DEF Spread, HeldQueued
  <1>8. HeldOnce'
    <2> SUFFICES ASSUME NEW u \in Worker, NEW v \in Worker, NEW k \in Nat, NEW l \in Nat,
                        NEW i \in Snapshot, NEW n \in Snapshot,
                        Holds(u, k, i)', Holds(v, l, n)', i.job = n.job
                 PROVE  u = v /\ k = l /\ i = n
      BY DEF HeldOnce
    <2>1. CASE u = w /\ k = 1 /\ i \in frame
      <3>1. v = w /\ l = 1 /\ n \in frame
        BY <1>4, <1>5, <2>1
      <3> QED BY <1>3, <2>1, <3>1
    <2>2. CASE v = w /\ l = 1 /\ n \in frame
      <3>1. u = w /\ k = 1 /\ i \in frame
        BY <1>4, <1>5, <2>2
      <3> QED BY <1>3, <2>2, <3>1
    <2>3. CASE /\ \/ u = w /\ k > 1 /\ k - 1 \in Nat /\ Holds(w, k - 1, i)
                  \/ u # w /\ Holds(u, k, i)
               /\ \/ v = w /\ l > 1 /\ l - 1 \in Nat /\ Holds(w, l - 1, n)
                  \/ v # w /\ Holds(v, l, n)
      BY <2>3 DEF Spread, HeldOnce
    <2> QED BY <1>5, <2>1, <2>2, <2>3
  <1>9. NotYetHeld'
    <2> SUFFICES ASSUME NEW v \in Worker, NEW d \in Job,
                        pc'[v] = "propagate", FailedJob(v)' \in Deps[d]
                 PROVE  /\ status'[d] \in {"queued", "absent"}
                        /\ \A u \in Worker, k \in Nat, i \in Snapshot : Holds(u, k, i)' => i.job # d
      BY DEF NotYetHeld
    <2>1. v # w /\ pc[v] = "propagate" /\ FailedJob(v) \in Deps[d] /\ FailedJob(v) # p
      BY <1>0, <1>1 DEF FailedJob, Spread, SpreadOnce
    <2>2. status[d] \in {"queued", "absent"}
      BY <2>1 DEF Spread, NotYetHeld
    <2>3. ASSUME NEW u \in Worker, NEW k \in Nat, NEW i \in Snapshot, Holds(u, k, i)'
          PROVE  i.job # d
      <3>1. CASE i \in frame
        BY <1>0, <1>3, <2>1, <3>1 DEF Forest
      <3>2. CASE Holds(u, k, i) \/ (k - 1 \in Nat /\ Holds(u, k - 1, i))
        BY <2>1, <3>2 DEF Spread, NotYetHeld
      <3> QED BY <1>5, <2>3, <3>1, <3>2
    <2> QED BY <1>1, <2>2, <2>3
  <1>10. SpreadOnce'
    BY <1>1 DEF Spread, SpreadOnce, FailedJob
  <1> QED BY <1>6, <1>7, <1>8, <1>9, <1>10 DEF Spread

\* A worker takes the next dependent of its list in hand, or leaves a list it is
\* through with.
LEMMA PropagateNextSpreads ==
  ASSUME Undisturbed, Placed, TypeOK', Lifecycle, Spread, [Next]_vars,
         NEW w \in Worker, PropagateNext(w)
  PROVE  Spread'
  <1>0. /\ Forest /\ pc \in [Worker -> WorkerPC] /\ pc[w] = "propNext" /\ TypeOK
        /\ stack \in [Worker -> Seq(SUBSET Snapshot)] /\ stack[w] # <<>>
        /\ item \in [Worker -> Snapshot \cup {NoItem}]
    BY DEF Undisturbed, Placed, TypeOK, WorkerTypeOK, WorkerFits, PropagateNext
  <1>5. 1 \in DOMAIN stack[w] /\ Top(w) = stack[w][1] /\ stack[w][1] \in SUBSET Snapshot
    BY <1>0, EmptySeq DEF Top
  <1>1. UNCHANGED <<status, cur>> /\ \A v \in Worker \ {w} : UNCHANGED <<pc[v], stack[v], item[v]>>
    BY <1>0 DEF PropagateNext, Goto, rows
  <1>2. pc'[w] \in {"propNext", "propDep", "cleanup"}
    BY <1>0 DEF PropagateNext, Goto
  <1>a. ASSUME \A v \in Worker, k \in Nat, i \in Snapshot : Holds(v, k, i)' =>
                 \E l \in Nat : Holds(v, l, i),
               HeldOnce'
        PROVE  Spread'
    <2>1. FailedForReason'
      BY FailedForReasonStep DEF Spread
    <2>2. HeldQueued'
      BY <1>1, <1>a DEF Spread, HeldQueued
    <2>3. NotYetHeld'
      BY <1>1, <1>2, <1>a DEF Spread, NotYetHeld, FailedJob
    <2>4. SpreadOnce'
      BY <1>1, <1>2 DEF Spread, SpreadOnce, FailedJob
    <2> QED BY <1>a, <2>1, <2>2, <2>3, <2>4 DEF Spread
  <1>3. ASSUME NEW n \in Top(w), item' = [item EXCEPT ![w] = n],
               stack' = [stack EXCEPT ![w][1] = @ \ {n}], Goto(w, "propDep")
        PROVE  Spread'
    <2>1. /\ pc'[w] = "propDep" /\ item'[w] = n
          /\ stack'[w] = [stack[w] EXCEPT ![1] = @ \ {n}]
      BY <1>0, <1>3, <1>5 DEF Goto
    <2>2. ASSUME NEW v \in Worker, NEW k \in Nat, NEW i \in Snapshot, Holds(v, k, i)'
          PROVE  \/ v = w /\ k = 0 /\ i = n /\ Holds(w, 1, n)
                 \/ v = w /\ k # 0 /\ Holds(w, k, i) /\ ~(k = 1 /\ i = n)
                 \/ v # w /\ Holds(v, k, i)
      <3>1. CASE v = w
        <4>1. CASE k \in DOMAIN stack'[w] /\ i \in stack'[w][k]
          BY <1>0, <1>5, <2>1, <3>1, <4>1 DEF Holds, PropagatingPC
        <4>2. CASE k = 0 /\ i = n
          BY <1>0, <1>3, <1>5, <3>1, <4>2 DEF Holds, PropagatingPC
        <4> QED BY <2>1, <2>2, <3>1, <4>1, <4>2 DEF Holds
      <3>2. CASE v # w
        BY <1>1, <2>2, <3>2 DEF Holds
      <3> QED BY <3>1, <3>2
    <2>3. n \in Snapshot
      BY <1>3, <1>5
    <2>4. HeldOnce'
      <3> SUFFICES ASSUME NEW u \in Worker, NEW v \in Worker, NEW k \in Nat, NEW l \in Nat,
                          NEW i \in Snapshot, NEW m \in Snapshot,
                          Holds(u, k, i)', Holds(v, l, m)', i.job = m.job
                   PROVE  u = v /\ k = l /\ i = m
        BY DEF HeldOnce
      <3>1. CASE u = w /\ k = 0 /\ i = n /\ Holds(w, 1, n)
        BY <2>2, <2>3, <3>1 DEF Spread, HeldOnce
      <3>2. CASE v = w /\ l = 0 /\ m = n /\ Holds(w, 1, n)
        BY <2>2, <2>3, <3>2 DEF Spread, HeldOnce
      <3>3. CASE Holds(u, k, i) /\ Holds(v, l, m)
        BY <3>3 DEF Spread, HeldOnce
      <3> QED BY <2>2, <3>1, <3>2, <3>3
    <2>5. \A v \in Worker, k \in Nat, i \in Snapshot : Holds(v, k, i)' => \E l \in Nat : Holds(v, l, i)
      BY <2>2
    <2> QED BY <1>a, <2>4, <2>5
  <1>4. ASSUME stack' = [stack EXCEPT ![w] = Below(w)],
               Goto(w, IF Below(w) = <<>> THEN "cleanup" ELSE "propNext"), UNCHANGED item
        PROVE  Spread'
    <2>1. stack'[w] = Tail(stack[w]) /\ pc'[w] \in {"cleanup", "propNext"}
      BY <1>0, <1>4 DEF Goto, Below
    <2>2. \A k \in DOMAIN stack'[w] : k + 1 \in DOMAIN stack[w] /\ stack'[w][k] = stack[w][k + 1]
      BY <1>0, <2>1
    <2>3. ASSUME NEW v \in Worker, NEW k \in Nat, NEW i \in Snapshot, Holds(v, k, i)'
          PROVE  \/ v = w /\ Holds(w, k + 1, i)
                 \/ v # w /\ Holds(v, k, i)
      BY <1>0, <1>1, <2>1, <2>2, <2>3 DEF Holds, PropagatingPC
    <2>4. HeldOnce'
      <3> SUFFICES ASSUME NEW u \in Worker, NEW v \in Worker, NEW k \in Nat, NEW l \in Nat,
                          NEW i \in Snapshot, NEW m \in Snapshot,
                          Holds(u, k, i)', Holds(v, l, m)', i.job = m.job
                   PROVE  u = v /\ k = l /\ i = m
        BY DEF HeldOnce
      <3> QED BY <2>3 DEF Spread, HeldOnce
    <2>5. \A v \in Worker, k \in Nat, i \in Snapshot : Holds(v, k, i)' => \E l \in Nat : Holds(v, l, i)
      BY <2>3
    <2> QED BY <1>a, <2>4, <2>5
  <1> QED BY <1>3, <1>4 DEF PropagateNext

LEMMA SpreadStep ==
  ASSUME Undisturbed, Placed, TypeOK', Lifecycle, Spread, [Next]_vars
  PROVE  Spread'
  <1>0. /\ Forest /\ TypeOK /\ Caller = {} /\ Deletable = {} /\ ~(faults < MaxFaults)
        /\ pc \in [Worker -> WorkerPC] /\ cur \in [Worker -> Job \cup {None}]
    BY DEF Undisturbed, Placed, TypeOK, RestTypeOK, WorkerTypeOK
  <1>1. ~CreateFails /\ (\A w \in Worker : ~StoreFault(w)) /\ \A j \in Job : ~DeleteJob(j)
    BY <1>0 DEF CreateFails, StoreFault, DeleteJob
  <1>a. \A w \in Worker : cur[w] # None => ~Doomed(cur[w])
    BY <1>0, DoomedAlone
  <1>b. ASSUME NEW w \in Worker, pc'[w] \notin PropagatingPC, status' = status,
               \A v \in Worker \ {w} : UNCHANGED <<pc[v], cur[v], stack[v], item[v]>>
        PROVE  Spread'
    BY <1>b, OthersSpread, SpreadKept
  <1>c. ASSUME UNCHANGED <<status, pc, cur, stack, item>> PROVE Spread'
    <2>1. \A v \in Worker, k \in Nat, i \in Snapshot : Holds(v, k, i)' => Holds(v, k, i)
      BY <1>c DEF Holds
    <2>2. \A v \in Worker : pc'[v] = "propagate" => pc[v] = "propagate" /\ FailedJob(v)' = FailedJob(v)
      BY <1>c DEF FailedJob
    <2> QED BY <1>c, <2>1, <2>2, SpreadKept
  <1>2. ASSUME NEW j \in Job, CreateJob(j) PROVE Spread'
    <2>1. UNCHANGED <<pc, cur, stack, item>> /\ \A k \in Job \ {j} : status'[k] = status[k]
      BY <1>2 DEF CreateJob, worker
    <2>2. ~Exists(j)
      BY <1>2 DEF CreateJob, Placed, JobsKnown, Known, Clearance, RowHeld
    <2>3. \A k \in Job : Doomed(k) => status'[k] = status[k]
      BY <2>1, <2>2 DEF Doomed
    <2>4. \A v \in Worker, k \in Nat, i \in Snapshot : Holds(v, k, i)' => Holds(v, k, i)
      BY <2>1 DEF Holds
    <2>5. \A v \in Worker : pc'[v] = "propagate" => pc[v] = "propagate" /\ FailedJob(v)' = FailedJob(v)
      BY <2>1 DEF FailedJob
    <2> QED BY <2>3, <2>4, <2>5, SpreadKept
  <1>3. ASSUME NEW w \in Worker, MarkRunning(w) \/ RecordSetupFailure(w) PROVE Spread'
    <2>1. /\ UNCHANGED <<cur, stack, item>> /\ pc'[w] \notin PropagatingPC
          /\ \A v \in Worker \ {w} : UNCHANGED pc[v]
          /\ \A k \in Job \ {cur[w]} : status'[k] = status[k]
      BY <1>0, <1>3 DEF MarkRunning, RecordSetupFailure, Goto, SetStatus, PropagatingPC
    <2>2. cur[w] # None
      BY <1>0, <1>3 DEF MarkRunning, RecordSetupFailure, TypeOK, WorkerFits
    <2>3. \A k \in Job : Doomed(k) => status'[k] = status[k]
      BY <1>a, <2>1, <2>2
    <2> QED BY <2>1, <2>3, OthersSpread, SpreadKept
  <1>4. ASSUME NEW w \in Worker, Finish(w) \/ FailDependent(w) \/ QueryLiveDependents(w) \/ PropagateNext(w)
        PROVE  Spread'
    BY <1>4, FinishSpreads, FailDependentSpreads, QueryLiveSpreads, PropagateNextSpreads
  <1>5. ASSUME NEW w \in Worker, StartDrain(w) \/ DrainTimeout(w) \/ Publish(w) PROVE Spread'
    BY <1>5, <1>c DEF StartDrain, DrainTimeout, Publish, rows, worker
  <1>6. ASSUME NEW w \in Worker,
               \/ Pick(w) \/ Exit(w) \/ SkipFinished(w) \/ LoadJob(w) \/ Register(w)
               \/ Execute(w) \/ Cleanup(w)
        PROVE  Spread'
    <2>1. status' = status /\ pc'[w] \notin PropagatingPC
      BY <1>0, <1>6 DEF Pick, Exit, SkipFinished, LoadJob, Register, Execute, RunOutcome, Cleanup,
                        Return, Goto, rows, PropagatingPC
    <2>2. \A v \in Worker \ {w} : UNCHANGED <<pc[v], cur[v]>>
      BY <1>0, <1>6 DEF Pick, Exit, SkipFinished, LoadJob, Register, Execute, RunOutcome, Cleanup,
                        Return, Goto
    <2>3. \A v \in Worker \ {w} : UNCHANGED <<stack[v], item[v]>>
      BY <1>0, <1>6 DEF Pick, Exit, SkipFinished, LoadJob, Register, Execute, Cleanup,
                        TypeOK, WorkerTypeOK
    <2> QED BY <1>b, <2>1, <2>2, <2>3
  <1>7. ASSUME NEW w \in Worker,
               \/ QueryPendingDependents(w) \/ ResolveNext(w) \/ CheckDependency(w)
               \/ MarkReady(w) \/ EnqueueDependent(w)
        PROVE  Spread'
    <2>1. UNCHANGED <<status, cur>> /\ pc'[w] \notin PropagatingPC
          /\ \A v \in Worker \ {w} : UNCHANGED pc[v]
      BY <1>0, <1>7 DEF QueryPendingDependents, ResolveNext, CheckDependency, MarkReady,
                        EnqueueDependent, AfterReady, Goto, rows, PropagatingPC
    <2>2. \A v \in Worker \ {w} : UNCHANGED <<stack[v], item[v]>>
      BY <1>0, <1>7 DEF QueryPendingDependents, ResolveNext, CheckDependency, MarkReady,
                        EnqueueDependent, TypeOK, WorkerTypeOK
    <2> QED BY <1>b, <2>1, <2>2
  <1>8. ASSUME NEW w \in Worker, FailDependency(w) PROVE Spread'
    <2>1. /\ UNCHANGED <<status, cur, stack, item>> /\ pc[w] = "propDep"
          /\ pc'[w] \in {"propStatus", "propNext"}
          /\ \A v \in Worker \ {w} : UNCHANGED pc[v]
      BY <1>0, <1>8 DEF FailDependency, Goto
    <2>2. \A v \in Worker, k \in Nat, i \in Snapshot : Holds(v, k, i)' => Holds(v, k, i)
      BY <2>1 DEF Holds, PropagatingPC
    <2>3. \A v \in Worker : pc'[v] = "propagate" => pc[v] = "propagate" /\ FailedJob(v)' = FailedJob(v)
      BY <2>1 DEF FailedJob
    <2> QED BY <2>1, <2>2, <2>3, SpreadKept
  <1>9. CASE Restart
    <2>1. status' = status /\ \A v \in Worker : pc'[v] = "idle"
      BY <1>9 DEF Restart, rows
    <2>2. \A v \in Worker, k \in Nat, i \in Snapshot : Holds(v, k, i)' => Holds(v, k, i)
      BY <2>1 DEF Holds, PropagatingPC
    <2> QED BY <2>1, <2>2, SpreadKept
  <1>10. CASE Shutdown \/ (\E j \in Job : EnqueueCreated(j)) \/ UNCHANGED vars
    BY <1>10, <1>c DEF Shutdown, EnqueueCreated, vars, rows, worker
  <1> QED
    BY <1>0, <1>1, <1>2, <1>3, <1>4, <1>5, <1>6, <1>7, <1>8, <1>9, <1>10 DEF Next, Work, Submit

\* What the steps that store or publish an outcome do to the events.
LEMMA OutcomeStored ==
  ASSUME Undisturbed, Placed, TypeOK', Lifecycle, OutcomeAnnounced, [Next]_vars,
         NEW w \in Worker, NEW j \in Job, NEW s \in Terminal,
         saying[w] = NoEvent, status[j] \in {"queued", "running"}, status'[j] = s,
         ToSay(w, j, s), pc'[w] \in {"resolve", "propagate"},
         \A k \in Job \ {j} : status'[k] = status[k],
         \A v \in Worker \ {w} : UNCHANGED pc[v]
  PROVE  OutcomeAnnounced'
  <1>0. ToldIsStored /\ SaidOnce /\ StoredIsTold /\ TypeOK
    BY DEF OutcomeAnnounced, Placed
  <1>1. /\ saying'[w] = [job |-> j, status |-> s] /\ UNCHANGED <<told, silent>>
        /\ \A v \in Worker \ {w} : UNCHANGED saying[v]
    BY <1>0 DEF ToSay, TypeOK, RestTypeOK
  <1>2. told[j] = "nothing" /\ \A v \in Worker : saying[v] # NoEvent => saying[v].job # j
    BY <1>0 DEF ToldIsStored, SaidOnce, TypeOK, RestTypeOK, Terminal, Event
  <1>3. saying'[w].job = j /\ saying'[w].status = s /\ NoEvent.job = None /\ None \notin Job
    BY <1>1, ConstantsAssumption DEF NoEvent
  <1>4. \A v \in Worker : saying[v] # NoEvent => saying[v].job \in Job /\ saying[v].job # None
    BY <1>0, ConstantsAssumption DEF TypeOK, RestTypeOK, Event
  <1>5. ToldIsStored'
    BY <1>0, <1>1, <1>2 DEF ToldIsStored
  <1>6. SaidOnce'
    <2> SUFFICES ASSUME NEW v \in Worker, saying'[v] # NoEvent
                 PROVE  /\ pc'[v] \in {"resolve", "propagate"}
                        /\ told'[saying'[v].job] = "nothing"
                        /\ status'[saying'[v].job] = saying'[v].status
                        /\ \A u \in Worker : saying'[u].job = saying'[v].job => u = v
      BY DEF SaidOnce
    <2>1. CASE v = w
      <3>1. \A u \in Worker : saying'[u].job = j => u = w
        BY <1>1, <1>2, <1>3
      <3> QED BY <1>1, <1>2, <1>3, <2>1, <3>1
    <2>2. CASE v # w
      <3>1. saying'[v] = saying[v] /\ saying[v].job # j /\ saying[v].job \in Job
        BY <1>1, <1>2, <1>4, <2>2
      <3> QED BY <1>0, <1>1, <1>3, <2>2, <3>1 DEF SaidOnce
    <2> QED BY <2>1, <2>2
  <1>7. StoredIsTold'
    <2> SUFFICES ASSUME NEW k \in Job, status'[k] \in Terminal
                 PROVE  \/ told'[k] = status'[k] \/ k \in silent'
                        \/ \E v \in Worker : saying'[v].job = k
      BY DEF StoredIsTold
    <2>1. CASE k = j
      BY <1>3, <2>1
    <2>2. CASE k # j
      BY <1>0, <1>1, <1>3, <2>2 DEF StoredIsTold
    <2> QED BY <2>1, <2>2
  <1> QED BY <1>5, <1>6, <1>7 DEF OutcomeAnnounced

LEMMA OutcomePublished ==
  ASSUME Undisturbed, Placed, OutcomeAnnounced, NEW w \in Worker, Publish(w)
  PROVE  OutcomeAnnounced'
  <1> DEFINE j == saying[w].job
  <1>0. /\ ToldIsStored /\ SaidOnce /\ StoredIsTold /\ TypeOK /\ saying[w] # NoEvent
        /\ NoEvent.job = None /\ None \notin Job
    BY ConstantsAssumption DEF OutcomeAnnounced, Placed, Publish, NoEvent
  <1>1. /\ j \in Job /\ saying[w].status = status[j]
        /\ \A v \in Worker : saying[v].job = j => v = w
    BY <1>0 DEF TypeOK, RestTypeOK, Event, SaidOnce
  <1>2. /\ saying' = [saying EXCEPT ![w] = NoEvent] /\ told' = [told EXCEPT ![j] = status[j]]
        /\ UNCHANGED <<status, pc, silent>>
    BY <1>1 DEF Publish, rows, worker
  <1>3. \A v \in Worker : saying'[v] = IF v = w THEN NoEvent ELSE saying[v]
    BY <1>0, <1>2 DEF TypeOK, RestTypeOK
  <1>4. \A k \in Job : told'[k] = IF k = j THEN status[j] ELSE told[k]
    BY <1>0, <1>2 DEF TypeOK, RestTypeOK
  <1> HIDE DEF j
  <1>5. ToldIsStored'
    BY <1>0, <1>2, <1>4 DEF ToldIsStored
  <1>6. SaidOnce'
    <2> SUFFICES ASSUME NEW v \in Worker, saying'[v] # NoEvent
                 PROVE  /\ pc'[v] \in {"resolve", "propagate"}
                        /\ told'[saying'[v].job] = "nothing"
                        /\ status'[saying'[v].job] = saying'[v].status
                        /\ \A u \in Worker : saying'[u].job = saying'[v].job => u = v
      BY DEF SaidOnce
    <2>1. v # w /\ saying'[v] = saying[v] /\ saying[v].job # j /\ saying[v].job \in Job
      BY <1>0, <1>1, <1>3 DEF TypeOK, RestTypeOK, Event
    <2>2. \A u \in Worker : saying'[u].job = saying[v].job => u = v
      BY <1>0, <1>3, <2>1 DEF SaidOnce
    <2> QED BY <1>0, <1>2, <1>4, <2>1, <2>2 DEF SaidOnce
  <1>7. StoredIsTold'
    <2> SUFFICES ASSUME NEW k \in Job, status'[k] \in Terminal
                 PROVE  \/ told'[k] = status'[k] \/ k \in silent'
                        \/ \E v \in Worker : saying'[v].job = k
      BY DEF StoredIsTold
    <2>1. CASE k = j
      BY <1>2, <1>4, <2>1
    <2>2. CASE k # j
      <3>1. told[k] = status[k] \/ k \in silent \/ \E v \in Worker : saying[v].job = k
        BY <1>0, <1>2 DEF StoredIsTold
      <3>2. \A v \in Worker : saying[v].job = k => saying'[v].job = k
        BY <1>3, <2>2 DEF j
      <3> QED BY <1>2, <1>4, <2>2, <3>1, <3>2
    <2> QED BY <2>1, <2>2
  <1> QED BY <1>5, <1>6, <1>7 DEF OutcomeAnnounced

\* A step that stores no outcome that is to be published.
LEMMA OutcomeKept ==
  ASSUME Undisturbed, Placed, TypeOK', Lifecycle, OutcomeAnnounced, [Next]_vars,
         UNCHANGED <<told, saying>>, \A j \in silent : j \in silent',
         \A j \in Job : status'[j] \in Terminal => status[j] \in Terminal \/ j \in silent',
         \A v \in Worker : saying[v] # NoEvent => UNCHANGED pc[v]
  PROVE  OutcomeAnnounced'
  <1>0. ToldIsStored /\ SaidOnce /\ StoredIsTold /\ TypeOK
    BY DEF OutcomeAnnounced, Placed
  <1>1. \A j \in Job : status[j] \in Terminal => status'[j] = status[j]
    BY StatusesMove
  <1>2. \A v \in Worker : saying[v] # NoEvent =>
          saying[v].job \in Job /\ saying[v].status \in Terminal
    BY <1>0 DEF TypeOK, RestTypeOK, Event
  <1>3. ToldIsStored'
    BY <1>0, <1>1 DEF ToldIsStored, TypeOK, RestTypeOK
  <1>4. SaidOnce'
    BY <1>0, <1>1, <1>2 DEF SaidOnce
  <1>5. StoredIsTold'
    BY <1>0, <1>1 DEF StoredIsTold
  <1> QED BY <1>3, <1>4, <1>5 DEF OutcomeAnnounced

LEMMA OutcomeLost ==
  ASSUME Undisturbed, Placed, OutcomeAnnounced, Restart
  PROVE  OutcomeAnnounced'
  <1>0. ToldIsStored /\ SaidOnce /\ StoredIsTold /\ TypeOK /\ None \notin Job /\ NoEvent.job = None
    BY ConstantsAssumption DEF OutcomeAnnounced, Placed, NoEvent
  <1>1. /\ UNCHANGED <<status, told>> /\ saying' = [w \in Worker |-> NoEvent]
        /\ silent' = silent \cup {saying[w].job : w \in {v \in Worker : saying[v] # NoEvent}}
    BY DEF Restart, rows
  <1>2. ToldIsStored' /\ SaidOnce'
    BY <1>0, <1>1 DEF ToldIsStored, SaidOnce
  <1>3. StoredIsTold'
    <2> SUFFICES ASSUME NEW j \in Job, status[j] \in Terminal
                 PROVE  told[j] = status[j] \/ j \in silent'
      BY <1>1 DEF StoredIsTold
    <2>1. CASE told[j] = status[j] \/ j \in silent
      BY <1>1, <2>1
    <2>2. ASSUME NEW v \in Worker, saying[v].job = j PROVE j \in silent'
      <3>1. saying[v] # NoEvent
        BY <1>0, <2>2
      <3> QED BY <1>1, <2>2, <3>1
    <2> QED BY <1>0, <2>1, <2>2 DEF StoredIsTold
  <1> QED BY <1>2, <1>3 DEF OutcomeAnnounced

LEMMA OutcomeStep ==
  ASSUME Undisturbed, Placed, TypeOK', Lifecycle, Spread, OutcomeAnnounced, [Next]_vars
  PROVE  OutcomeAnnounced'
  <1>0. /\ Forest /\ TypeOK /\ Caller = {} /\ Deletable = {} /\ ~(faults < MaxFaults)
        /\ pc \in [Worker -> WorkerPC] /\ cur \in [Worker -> Job \cup {None}]
    BY DEF Undisturbed, Placed, TypeOK, RestTypeOK, WorkerTypeOK
  <1>1. ~CreateFails /\ (\A w \in Worker : ~StoreFault(w)) /\ \A j \in Job : ~DeleteJob(j)
    BY <1>0 DEF CreateFails, StoreFault, DeleteJob
  <1>a. \A w \in Worker : saying[w] # NoEvent => pc[w] \in {"resolve", "propagate"}
    BY DEF OutcomeAnnounced, SaidOnce
  <1>b. ASSUME NEW w \in Worker, status' = status, UNCHANGED events,
               pc[w] \in {"resolve", "propagate"} => saying[w] = NoEvent,
               \A v \in Worker \ {w} : UNCHANGED pc[v]
        PROVE  OutcomeAnnounced'
    <2>1. \A v \in Worker : saying[v] # NoEvent => UNCHANGED pc[v]
      BY <1>a, <1>b
    <2> QED BY <1>b, <2>1, OutcomeKept DEF events
  <1>2. ASSUME NEW w \in Worker, Finish(w) PROVE OutcomeAnnounced'
    <2> DEFINE j == cur[w]
               s == FinalStatus[pc[w]]
    <2>1. pc[w] \in {"succeed", "fail", "cancel"} /\ j \in Job /\ saying[w] = NoEvent
      BY <1>0, <1>2, <1>a DEF Finish, TypeOK, WorkerFits
    <2>2. s \in Terminal
      BY <2>1 DEF FinalStatus, Terminal
    <2>3. status[j] = "running"
      BY <2>1 DEF Lifecycle, Stage, RunningPC
    <2>4. /\ ToSay(w, j, s) /\ pc'[w] \in {"resolve", "propagate"} /\ SetStatus(j, s)
          /\ \A v \in Worker \ {w} : UNCHANGED pc[v]
      BY <1>0, <1>2, <2>1 DEF Finish, Goto
    <2> HIDE DEF j, s
    <2>5. status'[j] = s /\ \A k \in Job \ {j} : status'[k] = status[k]
      BY <2>1, <2>3, <2>4 DEF SetStatus, Exists
    <2> QED BY <2>1, <2>2, <2>3, <2>4, <2>5, OutcomeStored
  <1>3. ASSUME NEW w \in Worker, FailDependent(w) PROVE OutcomeAnnounced'
    <2> DEFINE j == item[w].job
    <2>1. pc[w] = "propStatus" /\ j \in Job /\ saying[w] = NoEvent
      BY <1>0, <1>3, <1>a, ItemIsSnapshot DEF FailDependent, Snapshot
    <2>2. status[j] = "queued"
      BY <1>3, FailDependentSpreads
    <2>3. /\ ToSay(w, j, "failed") /\ pc'[w] = "propagate" /\ SetStatus(j, "failed")
          /\ \A v \in Worker \ {w} : UNCHANGED pc[v]
      BY <1>0, <1>3, <2>1 DEF FailDependent, Goto
    <2> HIDE DEF j
    <2>4. status'[j] = "failed" /\ \A k \in Job \ {j} : status'[k] = status[k]
      BY <2>1, <2>2, <2>3 DEF SetStatus, Exists
    <2> QED BY <2>1, <2>2, <2>3, <2>4, OutcomeStored DEF Terminal
  <1>4. ASSUME NEW w \in Worker, Publish(w) PROVE OutcomeAnnounced'
    BY <1>4, OutcomePublished
  <1>5. CASE Restart
    BY <1>5, OutcomeLost
  <1>6. ASSUME NEW w \in Worker, MarkRunning(w) \/ RecordSetupFailure(w) PROVE OutcomeAnnounced'
    <2>1. /\ UNCHANGED <<told, saying>> /\ saying[w] = NoEvent /\ \A j \in silent : j \in silent'
          /\ \A v \in Worker \ {w} : UNCHANGED pc[v]
      BY <1>0, <1>6, <1>a DEF MarkRunning, RecordSetupFailure, Goto, events
    <2>2. \A j \in Job : status'[j] \in Terminal => status[j] \in Terminal \/ j \in silent'
      BY <1>6 DEF MarkRunning, RecordSetupFailure, SetStatus, Terminal
    <2> QED BY <2>1, <2>2, OutcomeKept
  <1>7. ASSUME NEW j \in Job, CreateJob(j) PROVE OutcomeAnnounced'
    <2>1. UNCHANGED <<told, saying, silent, pc>>
      BY <1>7 DEF CreateJob, events, worker
    <2>2. \A k \in Job : status'[k] \in Terminal => status[k] \in Terminal
      BY <1>0, <1>7 DEF CreateJob, Terminal, TypeOK, RowsTypeOK
    <2> QED BY <2>1, <2>2, OutcomeKept
  <1>8. ASSUME NEW w \in Worker,
               \/ Pick(w) \/ StartDrain(w) \/ Exit(w) \/ SkipFinished(w) \/ LoadJob(w)
               \/ Register(w) \/ Execute(w) \/ Cleanup(w)
        PROVE  OutcomeAnnounced'
    <2>1. status' = status /\ UNCHANGED events /\ pc[w] \notin {"resolve", "propagate"}
      BY <1>8 DEF Pick, StartDrain, Exit, SkipFinished, LoadJob, Register, Execute, Cleanup, rows
    <2>2. \A v \in Worker \ {w} : UNCHANGED pc[v]
      BY <1>0, <1>8 DEF Pick, StartDrain, Exit, SkipFinished, LoadJob, Register, Execute,
                        RunOutcome, Cleanup, Return, Goto
    <2> QED BY <1>b, <2>1, <2>2
  <1>9. ASSUME NEW w \in Worker,
               \/ QueryPendingDependents(w) \/ ResolveNext(w) \/ CheckDependency(w)
               \/ MarkReady(w) \/ EnqueueDependent(w)
        PROVE  OutcomeAnnounced'
    <2>1. /\ status' = status /\ UNCHANGED events
          /\ pc[w] \in {"resolve", "propagate"} => saying[w] = NoEvent
      BY <1>9 DEF QueryPendingDependents, ResolveNext, CheckDependency, MarkReady,
                  EnqueueDependent, rows
    <2>2. \A v \in Worker \ {w} : UNCHANGED pc[v]
      BY <1>0, <1>9 DEF QueryPendingDependents, ResolveNext, CheckDependency, MarkReady,
                        EnqueueDependent, Goto
    <2> QED BY <1>b, <2>1, <2>2
  <1>10. ASSUME NEW w \in Worker,
                QueryLiveDependents(w) \/ PropagateNext(w) \/ FailDependency(w)
         PROVE  OutcomeAnnounced'
    <2>1. /\ status' = status /\ UNCHANGED events
          /\ pc[w] \in {"resolve", "propagate"} => saying[w] = NoEvent
      BY <1>10 DEF QueryLiveDependents, PropagateNext, FailDependency, rows
    <2>2. \A v \in Worker \ {w} : UNCHANGED pc[v]
      BY <1>0, <1>10 DEF QueryLiveDependents, PropagateNext, FailDependency, Goto
    <2> QED BY <1>b, <2>1, <2>2
  <1>11. CASE \/ Shutdown \/ (\E j \in Job : EnqueueCreated(j)) \/ UNCHANGED vars
              \/ \E w \in Worker : DrainTimeout(w)
    <2>1. UNCHANGED <<status, pc, told, saying, silent>>
      BY <1>11 DEF Shutdown, EnqueueCreated, DrainTimeout, vars, rows, worker, events
    <2> QED BY <2>1, OutcomeKept
  <1> QED
    BY <1>0, <1>1, <1>2, <1>3, <1>4, <1>5, <1>6, <1>7, <1>8, <1>9, <1>10, <1>11
       DEF Next, Work, Submit

\* What subscribers are told of a job is in the store and stays there, they are
\* told once, and they are told of every outcome but that of a failed set-up and
\* that which the process died on, between the write of the status and the event
\* (updateStatusWithEvent, propagateFailure, recoverQueuedJobs).
THEOREM OutcomeAnnouncedHolds == Spec => []OutcomeAnnounced
  <1>1. Init => Spread /\ OutcomeAnnounced
    <2> SUFFICES ASSUME Init PROVE Spread /\ OutcomeAnnounced
      OBVIOUS
    <2>1. Spread
      BY DEF Init, Spread, FailedForReason, HeldQueued, HeldOnce, NotYetHeld, SpreadOnce, Holds,
             PropagatingPC
    <2>2. ToldIsStored /\ SaidOnce /\ StoredIsTold
      BY DEF Init, ToldIsStored, SaidOnce, StoredIsTold, Terminal
    <2> QED BY <2>1, <2>2 DEF OutcomeAnnounced
  <1>2. TypeOK' /\ (Undisturbed => Placed /\ Lifecycle) /\ (Undisturbed => Spread)
        /\ OutcomeAnnounced /\ [Next]_vars
        => (Undisturbed => Spread)' /\ OutcomeAnnounced'
    <2>1. Undisturbed' => Undisturbed
      BY DEF Undisturbed, Forest
    <2>2. CASE Undisturbed
      BY <2>2, SpreadStep, OutcomeStep
    <2>3. CASE ~Undisturbed
      BY <2>1, <2>3 DEF OutcomeAnnounced
    <2> QED BY <2>2, <2>3
  <1> QED BY <1>1, <1>2, TypeCorrect, LifecycleHolds, PTL DEF Spec

(***************************************************************************)
(* What is still owed, where nothing stops the workers or the store: the   *)
(* dependents of a job that failed, and those of the last dependency to    *)
(* succeed, are on the list of a worker that has yet to come to them.  No  *)
(* shape of the chain is assumed, and a job may run twice.                 *)
(***************************************************************************)

\* Nobody cancels, deletes or stops anything, every statement of the store and
\* every write of a result works.
Steady ==
  /\ Caller = {} /\ Deletable = {} /\ ~CanStop /\ MaxFaults = 0 /\ MaxRestarts = 0
  /\ Outcomes \cap {"setupError", "writeError"} = {}

Serving ==
  /\ ~stopping
  /\ \A w \in Worker : /\ mode[w] = "serve" /\ ~canceled[w]
                       /\ pc[w] \notin {"setupFail", "cancel", "exited"}

\* While rows are being inserted no job is sent to the channel.
Inserting ==
  toCreate # {} =>
    /\ queue = <<>> /\ \A w \in Worker : pc[w] = "idle"
    /\ \A j \in Job : status[j] \in {"absent", "queued"}

Runs(w, j) == cur[w] = j /\ pc[w] \in RunningPC
RunningHeld == \A j \in Job : status[j] = "running" => \E w \in Worker : Runs(w, j)

\* A snapshot that says "not queued" stays true, and a check reads dependencies.
ListTrue(w) ==
  /\ pc[w] \in PropagatingPC =>
       \A k \in DOMAIN stack[w] : \A i \in stack[w][k] : i.queued \/ status[i.job] # "queued"
  /\ pc[w] = "propDep" => item[w].queued \/ status[item[w].job] # "queued"
  /\ pc[w] = "check" => need[w] \subseteq Deps[item[w].job]

\* Worker w will fail j, and will look at j's dependencies.
WillFail(w, j) ==
  \/ pc[w] = "propagate" /\ FailedJob(w) \in Deps[j]
  \/ /\ pc[w] \in PropagatingPC
     /\ \E k \in DOMAIN stack[w] : \E i \in stack[w][k] : i.job = j /\ i.queued
  \/ pc[w] = "propDep" /\ item[w].job = j /\ item[w].queued
  \/ pc[w] = "propStatus" /\ item[w].job = j
WillCheck(w, j) ==
  \/ pc[w] = "resolve" /\ cur[w] \in Deps[j]
  \/ pc[w] \in ReleasingPC /\ \E i \in Top(w) : i.job = j
  \/ pc[w] = "check" /\ item[w].job = j

FailureOwed ==
  \A j \in Job : \A p \in Deps[j] :
    status[p] = "failed" /\ status[j] = "queued" => \E w \in Worker : WillFail(w, j)
MarkedFailed ==
  \A j \in Job :
    dep[j] = "failed" /\ status[j] = "queued" =>
      \E w \in Worker : pc[w] = "propStatus" /\ item[w].job = j
ReleaseOwed ==
  \A j \in Job :
    status[j] = "queued" /\ dep[j] = "pending" =>
      /\ Deps[j] # {}
      /\ (\A p \in Deps[j] : status[p] = "succeeded") => \E w \in Worker : WillCheck(w, j)

Owed ==
  /\ Serving /\ Inserting /\ RunningHeld /\ \A w \in Worker : ListTrue(w)
  /\ FailureOwed /\ MarkedFailed /\ ReleaseOwed

\* What a step of worker w owes for the workers' lists to stay complete.
OwnStep(w) ==
  /\ \A v \in Worker \ {w} : UNCHANGED <<pc[v], cur[v], stack[v], item[v], need[v]>>
  /\ toCreate = {} /\ toCreate' = {}
  /\ \A j \in Job : status'[j] = "queued" => status[j] = "queued"
  /\ \A j \in Job : dep'[j] = "pending" => dep[j] = "pending"
  /\ ListTrue(w)'

Starts(w) ==
  \A j \in Job :
    /\ status'[j] = "running" => status[j] = "running" \/ Runs(w, j)'
    /\ status'[j] = "running" /\ Runs(w, j) => Runs(w, j)'

Fails(w) ==
  \A j \in Job :
    /\ status'[j] = "failed" => status[j] = "failed" \/ (pc'[w] = "propagate" /\ FailedJob(w)' = j)
    /\ status'[j] = "queued" /\ WillFail(w, j) => WillFail(w, j)'
    /\ status'[j] = "queued" /\ dep'[j] = "failed" =>
         dep[j] = "failed" \/ (pc'[w] = "propStatus" /\ item'[w].job = j)
    /\ status'[j] = "queued" /\ pc[w] = "propStatus" => item[w].job # j

Releases(w) ==
  \A j \in Job :
    /\ status'[j] = "succeeded" => status[j] = "succeeded" \/ (pc'[w] = "resolve" /\ cur'[w] = j)
    /\ /\ status[j] = "queued" /\ dep'[j] = "pending" /\ WillCheck(w, j)
       /\ \A p \in Deps[j] : status[p] = "succeeded"
       => WillCheck(w, j)'

LEMMA OwedStays ==
  ASSUME TypeOK, Owed, NEW w \in Worker, Serving', OwnStep(w), Starts(w), Fails(w), Releases(w)
  PROVE  Owed'
  <1> USE ConstantsAssumption
  <1>1. Inserting'
    BY DEF OwnStep, Inserting
  <1>2. RunningHeld'
    <2> SUFFICES ASSUME NEW j \in Job, status'[j] = "running"
                 PROVE  \E v \in Worker : Runs(v, j)'
      BY DEF RunningHeld
    <2>1. CASE Runs(w, j)'
      BY <2>1
    <2>2. CASE status[j] = "running"
      <3>1. PICK v \in Worker : Runs(v, j)
        BY <2>2 DEF Owed, RunningHeld
      <3>2. CASE v = w
        BY <3>1, <3>2 DEF Starts
      <3>3. CASE v # w
        BY <3>1, <3>3 DEF OwnStep, Runs
      <3> QED BY <3>2, <3>3
    <2> QED BY <2>1, <2>2 DEF Starts
  <1>3. \A v \in Worker : ListTrue(v)'
    <2> SUFFICES ASSUME NEW v \in Worker \ {w} PROVE ListTrue(v)'
      BY DEF OwnStep
    <2>1. ListTrue(v) /\ UNCHANGED <<pc[v], cur[v], stack[v], item[v], need[v]>>
      BY DEF Owed, OwnStep
    <2>2. \A i \in Snapshot : status[i.job] # "queued" => status'[i.job] # "queued"
      BY DEF OwnStep, Snapshot
    <2>3. /\ stack[v] \in Seq(SUBSET Snapshot)
          /\ pc[v] = "propDep" => item[v] \in Snapshot
      BY ItemIsSnapshot DEF TypeOK, WorkerTypeOK
    <2>4. \A k \in DOMAIN stack[v] : \A i \in stack[v][k] : i \in Snapshot
      BY <2>3
    <2>5. pc[v] \in PropagatingPC => \A k \in DOMAIN stack[v] : \A i \in stack[v][k] :
            i.queued \/ status'[i.job] # "queued"
      BY <2>1, <2>2, <2>4 DEF ListTrue
    <2>6. pc[v] = "propDep" => item[v].queued \/ status'[item[v].job] # "queued"
      BY <2>1, <2>2, <2>3 DEF ListTrue
    <2>7. pc[v] = "check" => need[v] \subseteq Deps[item[v].job]
      BY <2>1 DEF ListTrue
    <2> HIDE DEF PropagatingPC
    <2> QED BY <2>1, <2>5, <2>6, <2>7 DEF ListTrue
  <1>4. FailureOwed'
    <2> SUFFICES ASSUME NEW j \in Job, NEW p \in Deps[j],
                        status'[p] = "failed", status'[j] = "queued"
                 PROVE  \E v \in Worker : WillFail(v, j)'
      BY DEF FailureOwed
    <2>0. status[j] = "queued" /\ p \in Job
      BY DEF OwnStep
    <2>1. CASE status[p] = "failed"
      <3>1. PICK v \in Worker : WillFail(v, j)
        BY <2>0, <2>1 DEF Owed, FailureOwed
      <3>2. CASE v = w
        BY <3>1, <3>2 DEF Fails
      <3>3. CASE v # w
        <4>1. UNCHANGED <<pc[v], cur[v], stack[v], item[v], need[v]>>
          BY <3>3 DEF OwnStep
        <4> QED BY <3>1, <4>1 DEF WillFail, FailedJob
      <3> QED BY <3>2, <3>3
    <2>2. CASE pc'[w] = "propagate" /\ FailedJob(w)' = p
      BY <2>2 DEF WillFail
    <2> QED BY <2>0, <2>1, <2>2 DEF Fails
  <1>5. MarkedFailed'
    <2> SUFFICES ASSUME NEW j \in Job, dep'[j] = "failed", status'[j] = "queued"
                 PROVE  \E v \in Worker : pc'[v] = "propStatus" /\ item'[v].job = j
      BY DEF MarkedFailed
    <2>1. CASE dep[j] = "failed"
      <3>1. PICK v \in Worker : pc[v] = "propStatus" /\ item[v].job = j
        BY <2>1 DEF Owed, MarkedFailed, OwnStep
      <3> QED BY <3>1 DEF OwnStep, Fails
    <2> QED BY <2>1 DEF Fails
  <1>6. ReleaseOwed'
    <2> SUFFICES ASSUME NEW j \in Job, status'[j] = "queued", dep'[j] = "pending"
                 PROVE  /\ Deps[j] # {}
                        /\ (\A p \in Deps[j] : status'[p] = "succeeded")
                             => \E v \in Worker : WillCheck(v, j)'
      BY DEF ReleaseOwed
    <2>0. status[j] = "queued" /\ dep[j] = "pending"
      BY DEF OwnStep
    <2>1. Deps[j] # {}
      BY <2>0 DEF Owed, ReleaseOwed
    <2>2. ASSUME \A p \in Deps[j] : status'[p] = "succeeded"
          PROVE  \E v \in Worker : WillCheck(v, j)'
      <3>1. CASE \A p \in Deps[j] : status[p] = "succeeded"
        <4>1. PICK v \in Worker : WillCheck(v, j)
          BY <2>0, <3>1 DEF Owed, ReleaseOwed
        <4>2. CASE v = w
          BY <2>0, <3>1, <4>1, <4>2 DEF Releases
        <4>3. CASE v # w
          <5>1. UNCHANGED <<pc[v], cur[v], stack[v], item[v], need[v]>>
            BY <4>3 DEF OwnStep
          <5> QED BY <4>1, <5>1 DEF WillCheck, Top
        <4> QED BY <4>2, <4>3
      <3>2. CASE \E p \in Deps[j] : status[p] # "succeeded"
        <4>1. pc'[w] = "resolve" /\ cur'[w] \in Deps[j]
          BY <2>2, <3>2 DEF Releases
        <4> QED BY <4>1 DEF WillCheck
      <3> QED BY <3>1, <3>2
    <2> QED BY <2>1, <2>2
  <1> QED BY <1>1, <1>2, <1>3, <1>4, <1>5, <1>6 DEF Owed

LEMMA ServingStep ==
  ASSUME TypeOK, Steady, Serving, [Next]_vars
  PROVE  Serving'
  <1> USE DEF Steady, Serving
  <1>0. /\ pc \in [Worker -> WorkerPC] /\ mode \in [Worker -> {"serve", "drain", "expired"}]
        /\ canceled \in [Worker -> BOOLEAN] /\ faults \in 0 .. MaxFaults
        /\ restarts \in 0 .. MaxRestarts /\ cpc \in [Caller -> {"idle", "get", "write"}]
    BY DEF TypeOK, WorkerTypeOK, RestTypeOK
  <1>1. ASSUME NEW w \in Worker, Execute(w) PROVE Serving'
    BY <1>0, <1>1 DEF Execute, RunOutcome, JobCtxDone, CtxDone, Goto, env
  <1>2. ASSUME NEW w \in Worker,
               \/ Pick(w) \/ SkipFinished(w) \/ LoadJob(w) \/ MarkRunning(w) \/ Register(w)
               \/ Finish(w) \/ Cleanup(w)
        PROVE  Serving'
    BY <1>0, <1>2
       DEF Pick, SkipFinished, LoadJob, MarkRunning, Register, Finish, Cleanup, Goto, Return, env
  <1>3. ASSUME NEW w \in Worker,
               \/ QueryPendingDependents(w) \/ ResolveNext(w) \/ CheckDependency(w)
               \/ MarkReady(w) \/ EnqueueDependent(w)
        PROVE  Serving'
    BY <1>0, <1>3
       DEF QueryPendingDependents, ResolveNext, CheckDependency, MarkReady, EnqueueDependent,
           AfterReady, CtxDone, Goto, env
  <1>4. ASSUME NEW w \in Worker,
               QueryLiveDependents(w) \/ PropagateNext(w) \/ FailDependency(w) \/ FailDependent(w)
        PROVE  Serving'
    BY <1>0, <1>4
       DEF QueryLiveDependents, PropagateNext, FailDependency, FailDependent, Goto, env
  <1>5. ASSUME NEW w \in Worker,
               StartDrain(w) \/ Exit(w) \/ RecordSetupFailure(w) \/ DrainTimeout(w) \/ StoreFault(w)
        PROVE  FALSE
    BY <1>0, <1>5 DEF StartDrain, Exit, RecordSetupFailure, DrainTimeout, StoreFault
  <1>6. ASSUME CreateFails \/ Restart \/ Shutdown PROVE FALSE
    BY <1>0, <1>6 DEF CreateFails, Restart, Shutdown
  <1>7. ASSUME NEW j \in Job, CreateJob(j) \/ EnqueueCreated(j) PROVE Serving'
    BY <1>7 DEF CreateJob, EnqueueCreated, worker, env
  <1>8. ASSUME NEW j \in Job, DeleteJob(j) PROVE FALSE
    BY <1>8 DEF DeleteJob
  <1>9. CASE UNCHANGED vars \/ \E w \in Worker : Publish(w)
    BY <1>9 DEF vars, Publish, worker, env
  <1> QED
    BY <1>1, <1>2, <1>3, <1>4, <1>5, <1>6, <1>7, <1>8, <1>9 DEF Next, Work, Submit

LEMMA BusyWorker ==
  ASSUME Owed, NEW w \in Worker, pc[w] # "idle"
  PROVE  toCreate = {} /\ ~CtxDone(w)
  BY DEF Owed, Inserting, Serving, CtxDone

\* A step of a worker that has no dependents to see to, before it or after.
LEMMA StillOwed ==
  ASSUME TypeOK, Owed, Serving', NEW w \in Worker,
         \A v \in Worker \ {w} : UNCHANGED <<pc[v], cur[v], stack[v], item[v], need[v]>>,
         toCreate = {}, UNCHANGED <<status, dep, toCreate>>,
         pc[w] \notin PropagatingPC \cup ReleasingPC \cup {"resolve"},
         pc'[w] \notin PropagatingPC \cup {"check"},
         pc[w] \in RunningPC => pc'[w] \in RunningPC /\ cur'[w] = cur[w]
  PROVE  Owed'
  <1>1. ListTrue(w)'
    BY DEF ListTrue, PropagatingPC
  <1>2. \A j \in Job : ~WillFail(w, j) /\ ~WillCheck(w, j)
    BY DEF WillFail, WillCheck, PropagatingPC, ReleasingPC
  <1>3. Starts(w)
    BY DEF Starts, Runs
  <1>4. Fails(w)
    BY <1>2 DEF Fails, PropagatingPC
  <1>5. Releases(w)
    BY <1>2 DEF Releases
  <1>6. OwnStep(w)
    BY <1>1 DEF OwnStep
  <1> QED BY <1>3, <1>4, <1>5, <1>6, OwedStays

LEMMA RunOwes ==
  ASSUME TypeOK, Steady, Owed, Serving', NEW w \in Worker,
         \/ Pick(w) \/ SkipFinished(w) \/ LoadJob(w) \/ Register(w) \/ Execute(w) \/ Cleanup(w)
  PROVE  Owed'
  <1>0. pc \in [Worker -> WorkerPC] /\ cur \in [Worker -> Job \cup {None}]
        /\ stack \in [Worker -> Seq(SUBSET Snapshot)] /\ item \in [Worker -> Snapshot \cup {NoItem}]
        /\ need \in [Worker -> SUBSET Job]
    BY DEF TypeOK, WorkerTypeOK
  <1> USE DEF PropagatingPC, ReleasingPC, RunningPC
  <1>1. CASE Pick(w)
    <2>1. toCreate = {}
      BY <1>1 DEF Pick, Owed, Inserting
    <2> QED BY <1>0, <1>1, <2>1, StillOwed DEF Pick, Goto, rows, submitter
  <1>2. CASE SkipFinished(w) \/ LoadJob(w)
    <2>1. toCreate = {}
      BY <1>2, BusyWorker DEF SkipFinished, LoadJob
    <2> QED BY <1>0, <1>2, <2>1, StillOwed DEF SkipFinished, LoadJob, Goto, Return, rows, submitter
  <1>3. CASE Register(w)
    <2>1. toCreate = {}
      BY <1>3, BusyWorker DEF Register
    <2> QED BY <1>0, <1>3, <2>1, StillOwed DEF Register, Goto, rows, submitter
  <1>4. CASE Execute(w)
    <2>1. toCreate = {}
      BY <1>4, BusyWorker DEF Execute
    <2>2. pc'[w] \in {"fail", "succeed"}
      BY <1>0, <1>4 DEF Execute, RunOutcome, Goto, Serving, JobCtxDone, CtxDone, Owed, Steady
    <2> QED BY <1>0, <1>4, <2>1, <2>2, StillOwed DEF Execute, RunOutcome, Goto, rows, submitter
  <1>5. CASE Cleanup(w)
    <2>1. toCreate = {}
      BY <1>5, BusyWorker DEF Cleanup
    <2> QED BY <1>0, <1>5, <2>1, StillOwed DEF Cleanup, Goto, Return, rows, submitter
  <1> QED BY <1>1, <1>2, <1>3, <1>4, <1>5

\* Writing a status other than queued, and what each of the two callers of
\* SetStatus in run goes on to.
LEMMA StatusWritten ==
  ASSUME TypeOK, NEW k \in Job, NEW s \in Terminal \cup {"running"}, SetStatus(k, s)
  PROVE  /\ \A j \in Job : status'[j] = "queued" => status[j] = "queued" /\ j # k
         /\ \A j \in Job \ {k} : status'[j] = status[j]
         /\ status'[k] \in {s, "absent"}
  <1>1. status \in [Job -> Status] /\ s # "queued"
    BY DEF TypeOK, RowsTypeOK, Terminal
  <1> QED BY <1>1 DEF SetStatus, Exists

LEMMA MarkRunningOwes ==
  ASSUME TypeOK, Owed, Serving', NEW w \in Worker, MarkRunning(w)
  PROVE  Owed'
  <1>0. /\ pc \in [Worker -> WorkerPC] /\ cur[w] \in Job
        /\ pc[w] = "mark" /\ pc'[w] = "register" /\ cur' = cur /\ dep' = dep
    BY DEF MarkRunning, Goto, TypeOK, WorkerTypeOK, WorkerFits
  <1>1. toCreate = {} /\ toCreate' = {}
    BY <1>0, BusyWorker DEF MarkRunning, submitter
  <1>2. /\ \A j \in Job : status'[j] = "queued" => status[j] = "queued" /\ j # cur[w]
        /\ \A j \in Job \ {cur[w]} : status'[j] = status[j]
        /\ status'[cur[w]] \in {"running", "absent"}
    BY <1>0, StatusWritten DEF MarkRunning
  <1>3. ListTrue(w)' /\ \A j \in Job : ~WillFail(w, j) /\ ~WillCheck(w, j)
    BY <1>0 DEF ListTrue, WillFail, WillCheck, PropagatingPC, ReleasingPC
  <1>4. OwnStep(w)
    BY <1>0, <1>1, <1>2, <1>3 DEF OwnStep, MarkRunning, Goto
  <1>5. Starts(w)
    BY <1>0, <1>2 DEF Starts, Runs, RunningPC
  <1>6. Fails(w)
    BY <1>0, <1>2, <1>3 DEF Fails
  <1>7. Releases(w)
    BY <1>0, <1>2, <1>3 DEF Releases
  <1> QED BY <1>4, <1>5, <1>6, <1>7, OwedStays

LEMMA FinishOwes ==
  ASSUME TypeOK, Owed, Serving', NEW w \in Worker, Finish(w)
  PROVE  Owed'
  <1>0. /\ pc \in [Worker -> WorkerPC] /\ cur[w] \in Job /\ stack[w] = <<>>
        /\ pc[w] \in {"succeed", "fail"} /\ cur' = cur /\ dep' = dep /\ stack' = stack
        /\ pc'[w] = (IF pc[w] = "succeed" THEN "resolve" ELSE "propagate")
    BY DEF Finish, Goto, TypeOK, WorkerTypeOK, WorkerFits, BeforeOutcome, Owed, Serving
  <1>1. toCreate = {} /\ toCreate' = {}
    BY <1>0, BusyWorker DEF Finish, submitter
  <1> DEFINE s == FinalStatus[pc[w]]
  <1>2. s = (IF pc[w] = "succeed" THEN "succeeded" ELSE "failed") /\ s \in Terminal
    BY <1>0 DEF FinalStatus, Terminal
  <1>3. SetStatus(cur[w], s)
    BY DEF Finish
  <1> HIDE DEF s
  <1>4. /\ \A j \in Job : status'[j] = "queued" => status[j] = "queued" /\ j # cur[w]
        /\ \A j \in Job \ {cur[w]} : status'[j] = status[j]
        /\ status'[cur[w]] \in {s, "absent"}
    BY <1>0, <1>2, <1>3, StatusWritten
  <1>5. /\ ListTrue(w)'
        /\ \A j \in Job : ~WillFail(w, j) /\ ~WillCheck(w, j)
    BY <1>0 DEF ListTrue, WillFail, WillCheck, PropagatingPC, ReleasingPC
  <1>6. OwnStep(w)
    BY <1>0, <1>1, <1>4, <1>5 DEF OwnStep, Finish, Goto
  <1>7. Starts(w)
    BY <1>0, <1>2, <1>4 DEF Starts, Runs
  <1>8. Fails(w)
    BY <1>0, <1>2, <1>4, <1>5 DEF Fails, FailedJob
  <1>9. Releases(w)
    BY <1>0, <1>2, <1>4, <1>5 DEF Releases
  <1> QED BY <1>6, <1>7, <1>8, <1>9, OwedStays

\* A step of a worker that changes no status and is not at a run.
LEMMA WalkOwes ==
  ASSUME TypeOK, Owed, Serving', NEW w \in Worker, UNCHANGED status,
         OwnStep(w), Fails(w), Releases(w), pc[w] \notin RunningPC
  PROVE  Owed'
  <1>1. Starts(w)
    BY DEF Starts, Runs
  <1> QED BY <1>1, OwedStays

\* The worker is on its way through the pending dependents.
LEMMA ReleasingOwes ==
  ASSUME TypeOK, Owed, Serving', NEW w \in Worker, UNCHANGED <<status, toCreate>>,
         \A v \in Worker \ {w} : UNCHANGED <<pc[v], cur[v], stack[v], item[v], need[v]>>,
         \A j \in Job : dep'[j] # dep[j] => dep'[j] = "ready",
         pc[w] \in ReleasingPC \cup {"resolve"},
         pc'[w] \in ReleasingPC \cup {"cleanup"},
         pc'[w] = "check" => need'[w] \subseteq Deps[item'[w].job],
         \A j \in Job :
           /\ status[j] = "queued" /\ dep'[j] = "pending" /\ WillCheck(w, j)
           /\ \A p \in Deps[j] : status[p] = "succeeded"
           => WillCheck(w, j)'
  PROVE  Owed'
  <1>1. toCreate = {} /\ toCreate' = {}
    BY BusyWorker DEF ReleasingPC
  <1>2. ListTrue(w)' /\ \A j \in Job : ~WillFail(w, j)
    BY DEF ListTrue, WillFail, PropagatingPC, ReleasingPC
  <1>3. OwnStep(w)
    BY <1>1, <1>2 DEF OwnStep
  <1>4. Fails(w)
    BY <1>2 DEF Fails, ReleasingPC
  <1>5. Releases(w)
    BY DEF Releases
  <1> QED BY <1>3, <1>4, <1>5, WalkOwes DEF ReleasingPC, RunningPC

LEMMA ReleaseStepsOwe ==
  ASSUME TypeOK, Owed, Serving', NEW w \in Worker,
         \/ QueryPendingDependents(w) \/ ResolveNext(w) \/ CheckDependency(w)
         \/ MarkReady(w) \/ EnqueueDependent(w)
  PROVE  Owed'
  <1>0. /\ pc \in [Worker -> WorkerPC] /\ cur \in [Worker -> Job \cup {None}]
        /\ stack \in [Worker -> Seq(SUBSET Snapshot)] /\ item \in [Worker -> Snapshot \cup {NoItem}]
        /\ need \in [Worker -> SUBSET Job] /\ dep \in [Job -> DepStatus]
    BY DEF TypeOK, RowsTypeOK, WorkerTypeOK
  <1>a. pc[w] \in ReleasingPC \cup {"resolve"} /\ ~CtxDone(w) /\ ListTrue(w)
    BY BusyWorker
       DEF QueryPendingDependents, ResolveNext, CheckDependency, MarkReady, EnqueueDependent,
           ReleasingPC, Owed
  <1>1. CASE QueryPendingDependents(w)
    <2> DEFINE frame == Snapshots({d \in DependentsOf(cur[w]) : dep[d] = "pending"})
    <2>1. /\ pc[w] = "resolve" /\ pc'[w] = "resolveNext" /\ stack'[w] = <<frame>>
          /\ UNCHANGED <<status, dep, toCreate>>
      BY <1>0, <1>1, <1>a DEF QueryPendingDependents, Goto, rows, submitter
    <2>2. Top(w)' = frame
      BY <2>1 DEF Top
    <2>3. \A j \in Job : status[j] = "queued" /\ dep[j] = "pending" /\ cur[w] \in Deps[j] =>
            \E i \in frame : i.job = j
      <3> SUFFICES ASSUME NEW j \in Job, status[j] = "queued", dep[j] = "pending",
                          cur[w] \in Deps[j]
                   PROVE  \E i \in frame : i.job = j
        OBVIOUS
      <3>1. [job |-> j, queued |-> status[j] = "queued"] \in frame
        BY DEF Snapshots, DependentsOf, Exists
      <3> QED BY <3>1
    <2> HIDE DEF frame
    <2>4. \A j \in Job : status[j] = "queued" /\ dep'[j] = "pending" /\ WillCheck(w, j)
                         => WillCheck(w, j)'
      BY <2>1, <2>2, <2>3 DEF WillCheck, ReleasingPC
    <2>5. \A v \in Worker \ {w} : UNCHANGED <<pc[v], cur[v], stack[v], item[v], need[v]>>
      BY <1>0, <1>1 DEF QueryPendingDependents, Goto
    <2> QED BY <2>1, <2>4, <2>5, ReleasingOwes DEF ReleasingPC
  <1>2. CASE ResolveNext(w)
    <2>1. /\ \/ /\ item'[w] \in Top(w) /\ pc'[w] = "check" /\ Top(w)' = Top(w) \ {item'[w]}
                /\ need'[w] = Deps[item'[w].job]
             \/ pc'[w] = "cleanup" /\ Top(w) = {}
          /\ UNCHANGED <<status, dep, toCreate>> /\ pc[w] = "resolveNext"
      BY <1>2, NextDependent DEF rows, submitter
    <2>2. \A j \in Job : WillCheck(w, j) => WillCheck(w, j)'
      BY <2>1 DEF WillCheck, ReleasingPC
    <2>3. \A v \in Worker \ {w} : UNCHANGED <<pc[v], cur[v], stack[v], item[v], need[v]>>
      BY <1>0, <1>2 DEF ResolveNext, Goto
    <2> QED BY <2>1, <2>2, <2>3, ReleasingOwes DEF ReleasingPC
  <1>3. CASE CheckDependency(w)
    <2>1. /\ pc[w] = "check" /\ UNCHANGED <<status, dep, toCreate, stack, item>>
          /\ \/ pc'[w] = "check" /\ need'[w] \subseteq need[w]
             \/ pc'[w] = "resolveNext" /\ \E p \in need[w] : status[p] # "succeeded"
      BY <1>0, <1>3, <1>a DEF CheckDependency, DependencyMet, Goto, rows, submitter
    <2>2. need[w] \subseteq Deps[item[w].job]
      BY <1>a, <2>1 DEF ListTrue
    <2>3. \A j \in Job : WillCheck(w, j) /\ (\A p \in Deps[j] : status[p] = "succeeded")
                         => WillCheck(w, j)'
      BY <2>1, <2>2 DEF WillCheck, ReleasingPC, Top
    <2>4. \A v \in Worker \ {w} : UNCHANGED <<pc[v], cur[v], stack[v], item[v], need[v]>>
      BY <1>0, <1>3 DEF CheckDependency, Goto
    <2>5. pc'[w] = "check" => need'[w] \subseteq Deps[item'[w].job]
      BY <2>1, <2>2
    <2> QED BY <2>1, <2>3, <2>4, <2>5, ReleasingOwes DEF ReleasingPC
  <1>4. CASE MarkReady(w)
    <2>1. /\ pc[w] = "check" /\ UNCHANGED <<status, toCreate, stack, item>>
          /\ pc'[w] \in {"enqueue", "resolveNext"}
          /\ dep' = [k \in Job |-> IF k = item[w].job /\ Exists(k) THEN "ready" ELSE dep[k]]
      BY <1>0, <1>4, <1>a DEF MarkReady, SetDep, AfterReady, Goto, submitter
    <2>2. \A j \in Job : status[j] = "queued" /\ dep'[j] = "pending" /\ WillCheck(w, j)
                         => WillCheck(w, j)'
      BY <2>1 DEF WillCheck, ReleasingPC, Top, Exists
    <2>3. \A v \in Worker \ {w} : UNCHANGED <<pc[v], cur[v], stack[v], item[v], need[v]>>
      BY <1>0, <1>4 DEF MarkReady, Goto
    <2>4. \A j \in Job : dep'[j] # dep[j] => dep'[j] = "ready"
      BY <2>1
    <2> QED BY <2>1, <2>2, <2>3, <2>4, ReleasingOwes DEF ReleasingPC
  <1>5. CASE EnqueueDependent(w)
    <2>1. /\ pc[w] = "enqueue" /\ pc'[w] = "resolveNext"
          /\ UNCHANGED <<status, dep, toCreate, stack, item>>
      BY <1>0, <1>5 DEF EnqueueDependent, Goto, rows, submitter
    <2>2. \A j \in Job : WillCheck(w, j) => WillCheck(w, j)'
      BY <2>1 DEF WillCheck, ReleasingPC, Top
    <2>3. \A v \in Worker \ {w} : UNCHANGED <<pc[v], cur[v], stack[v], item[v], need[v]>>
      BY <1>0, <1>5 DEF EnqueueDependent, Goto
    <2> QED BY <2>1, <2>2, <2>3, ReleasingOwes DEF ReleasingPC
  <1> QED BY <1>1, <1>2, <1>3, <1>4, <1>5

\* The worker is on its way through the frames of propagateFailure.
LEMMA PropagatingOwes ==
  ASSUME TypeOK, Owed, Serving', NEW w \in Worker, UNCHANGED toCreate,
         \A v \in Worker \ {w} : UNCHANGED <<pc[v], cur[v], stack[v], item[v], need[v]>>,
         \A j \in Job : status'[j] # status[j] =>
           status'[j] = "failed" /\ pc'[w] = "propagate" /\ FailedJob(w)' = j,
         \A j \in Job : dep'[j] = "pending" => dep[j] = "pending",
         \A j \in Job : status[j] = "queued" /\ dep'[j] = "failed" =>
           dep[j] = "failed" \/ (pc'[w] = "propStatus" /\ item'[w].job = j),
         pc[w] \in PropagatingPC, pc'[w] \in PropagatingPC \cup {"cleanup"},
         pc[w] = "propStatus" => status'[item[w].job] # "queued",
         ListTrue(w)',
         \A j \in Job : status'[j] = "queued" /\ WillFail(w, j) => WillFail(w, j)'
  PROVE  Owed'
  <1>1. toCreate = {} /\ toCreate' = {}
    BY BusyWorker DEF PropagatingPC
  <1>2. \A j \in Job : ~WillCheck(w, j)
    BY DEF WillCheck, PropagatingPC, ReleasingPC
  <1>3. OwnStep(w)
    BY <1>1 DEF OwnStep
  <1>4. Fails(w)
    BY DEF Fails
  <1>5. Releases(w)
    BY <1>2 DEF Releases
  <1>6. Starts(w)
    BY DEF Starts, Runs, PropagatingPC, RunningPC
  <1> QED BY <1>3, <1>4, <1>5, <1>6, OwedStays

\* The frames after one is put on top, and after an item is taken from the top.
LEMMA FramePushed ==
  ASSUME NEW s \in Seq(SUBSET Snapshot), NEW f \in SUBSET Snapshot
  PROVE  /\ 1 \in DOMAIN (<<f>> \o s) /\ (<<f>> \o s)[1] = f
         /\ \A k \in DOMAIN s : k + 1 \in DOMAIN (<<f>> \o s) /\ (<<f>> \o s)[k + 1] = s[k]
         /\ \A k \in DOMAIN (<<f>> \o s) :
              (<<f>> \o s)[k] = f \/ \E l \in DOMAIN s : (<<f>> \o s)[k] = s[l]
  <1>1. \A k \in DOMAIN (<<f>> \o s) : k # 1 => k - 1 \in DOMAIN s /\ (<<f>> \o s)[k] = s[k - 1]
    OBVIOUS
  <1> QED BY <1>1

LEMMA FrameTaken ==
  ASSUME NEW s \in Seq(SUBSET Snapshot), s # <<>>, NEW i
  PROVE  LET t == [s EXCEPT ![1] = @ \ {i}]
         IN  /\ DOMAIN t = DOMAIN s /\ 1 \in DOMAIN s /\ t[1] = Head(s) \ {i}
             /\ \A k \in DOMAIN s : k # 1 => t[k] = s[k]
  <1>1. 1 \in DOMAIN s /\ Head(s) = s[1]
    BY EmptySeq
  <1> QED BY <1>1

LEMMA FramePopped ==
  ASSUME NEW s \in Seq(SUBSET Snapshot), s # <<>>
  PROVE  /\ \A k \in DOMAIN Tail(s) : \E l \in DOMAIN s : Tail(s)[k] = s[l]
         /\ \A k \in DOMAIN s : s[k] = Head(s) \/ \E l \in DOMAIN Tail(s) : Tail(s)[l] = s[k]
  <1>1. /\ Len(s) \in Nat \ {0} /\ Head(s) = s[1] /\ DOMAIN Tail(s) = 1 .. Len(s) - 1
        /\ \A k \in 1 .. Len(s) - 1 : Tail(s)[k] = s[k + 1]
    BY EmptySeq
  <1>2. \A k \in DOMAIN Tail(s) : k + 1 \in DOMAIN s /\ Tail(s)[k] = s[k + 1]
    BY <1>1
  <1>3. ASSUME NEW k \in DOMAIN s, k # 1
        PROVE  k - 1 \in DOMAIN Tail(s) /\ Tail(s)[k - 1] = s[k]
    BY <1>1, <1>3
  <1> QED BY <1>1, <1>2, <1>3

LEMMA QueryLiveOwes ==
  ASSUME TypeOK, Owed, Serving', NEW w \in Worker, QueryLiveDependents(w)
  PROVE  Owed'
  <1> DEFINE frame == Snapshots({d \in DependentsOf(FailedJob(w)) : status[d] \notin Terminal})
  <1>0. /\ pc \in [Worker -> WorkerPC] /\ stack \in [Worker -> Seq(SUBSET Snapshot)]
        /\ pc[w] = "propagate" /\ pc'[w] = "propNext" /\ stack'[w] = <<frame>> \o stack[w]
        /\ UNCHANGED <<status, dep, toCreate>>
    BY DEF QueryLiveDependents, Goto, rows, submitter, TypeOK, WorkerTypeOK
  <1>1. \A v \in Worker \ {w} : UNCHANGED <<pc[v], cur[v], stack[v], item[v], need[v]>>
    BY <1>0 DEF QueryLiveDependents, Goto
  <1>2. \A i \in frame : i.queued \/ status[i.job] # "queued"
    <2> SUFFICES ASSUME NEW i \in frame PROVE i.queued \/ status[i.job] # "queued"
      OBVIOUS
    <2>1. PICK d \in Job : i = [job |-> d, queued |-> status[d] = "queued"]
      BY DEF Snapshots, DependentsOf
    <2>2. i.job = d /\ i.queued = (status[d] = "queued")
      BY <2>1
    <2> QED BY <2>2
  <1>3. \A j \in Job : status[j] = "queued" /\ FailedJob(w) \in Deps[j] =>
          \E i \in frame : i.job = j /\ i.queued
    <2> SUFFICES ASSUME NEW j \in Job, status[j] = "queued", FailedJob(w) \in Deps[j]
                 PROVE  \E i \in frame : i.job = j /\ i.queued
      OBVIOUS
    <2>1. [job |-> j, queued |-> status[j] = "queued"] \in frame
      BY DEF Snapshots, DependentsOf, Exists, Terminal
    <2> QED BY <2>1
  <1>4. frame \in SUBSET Snapshot
    BY SnapshotsType DEF DependentsOf
  <1> HIDE DEF frame
  <1>5. stack[w] \in Seq(SUBSET Snapshot)
    BY <1>0
  <1>6. /\ 1 \in DOMAIN stack'[w] /\ stack'[w][1] = frame
        /\ \A k \in DOMAIN stack[w] : \E l \in DOMAIN stack'[w] : stack'[w][l] = stack[w][k]
        /\ \A k \in DOMAIN stack'[w] :
             stack'[w][k] = frame \/ \E l \in DOMAIN stack[w] : stack'[w][k] = stack[w][l]
    <2> DEFINE t == <<frame>> \o stack[w]
    <2>1. /\ 1 \in DOMAIN t /\ t[1] = frame
          /\ \A k \in DOMAIN stack[w] : k + 1 \in DOMAIN t /\ t[k + 1] = stack[w][k]
          /\ \A k \in DOMAIN t : t[k] = frame \/ \E l \in DOMAIN stack[w] : t[k] = stack[w][l]
      BY <1>4, <1>5, FramePushed
    <2>2. stack'[w] = t
      BY <1>0
    <2> HIDE DEF t
    <2> QED BY <2>1, <2>2
  <1>7. ListTrue(w)'
    <2>1. \A k \in DOMAIN stack[w] : \A i \in stack[w][k] : i.queued \/ status[i.job] # "queued"
      BY <1>0 DEF Owed, ListTrue, PropagatingPC
    <2>2. \A k \in DOMAIN stack'[w] : \A i \in stack'[w][k] : i.queued \/ status[i.job] # "queued"
      BY <1>2, <1>6, <2>1
    <2> QED BY <1>0, <2>2 DEF ListTrue
  <1>8. ASSUME NEW j \in Job, status[j] = "queued", WillFail(w, j)
        PROVE  WillFail(w, j)'
    <2>1. CASE FailedJob(w) \in Deps[j]
      BY <1>0, <1>3, <1>6, <1>8, <2>1 DEF WillFail, PropagatingPC
    <2>2. CASE \E k \in DOMAIN stack[w] : \E i \in stack[w][k] : i.job = j /\ i.queued
      BY <1>0, <1>6, <2>2 DEF WillFail, PropagatingPC
    <2> QED BY <1>0, <1>8, <2>1, <2>2 DEF WillFail
  <1> QED BY <1>0, <1>1, <1>7, <1>8, PropagatingOwes DEF PropagatingPC

LEMMA PropagateNextOwes ==
  ASSUME TypeOK, Owed, Serving', NEW w \in Worker, PropagateNext(w)
  PROVE  Owed'
  <1>0. /\ pc \in [Worker -> WorkerPC] /\ stack \in [Worker -> Seq(SUBSET Snapshot)]
        /\ item \in [Worker -> Snapshot \cup {NoItem}]
        /\ pc[w] = "propNext" /\ stack[w] \in Seq(SUBSET Snapshot) /\ stack[w] # <<>>
        /\ UNCHANGED <<status, dep, toCreate>>
    BY DEF PropagateNext, rows, submitter, TypeOK, WorkerTypeOK, WorkerFits
  <1>1. \A v \in Worker \ {w} : UNCHANGED <<pc[v], cur[v], stack[v], item[v], need[v]>>
    BY <1>0 DEF PropagateNext, Goto
  <1>2. \A k \in DOMAIN stack[w] : \A i \in stack[w][k] : i.queued \/ status[i.job] # "queued"
    BY <1>0 DEF Owed, ListTrue, PropagatingPC
  <1>3. \A j \in Job : WillFail(w, j) =>
          \E k \in DOMAIN stack[w] : \E i \in stack[w][k] : i.job = j /\ i.queued
    BY <1>0 DEF WillFail
  <1>4. ASSUME NEW i \in Top(w), item' = [item EXCEPT ![w] = i],
               stack' = [stack EXCEPT ![w][1] = @ \ {i}], Goto(w, "propDep")
        PROVE  Owed'
    <2>1. item'[w] = i /\ pc'[w] = "propDep" /\ stack'[w] = [stack[w] EXCEPT ![1] = @ \ {i}]
      BY <1>0, <1>4 DEF Goto
    <2>2. /\ DOMAIN stack'[w] = DOMAIN stack[w] /\ 1 \in DOMAIN stack[w]
          /\ stack'[w][1] = Top(w) \ {i}
          /\ \A k \in DOMAIN stack[w] : k # 1 => stack'[w][k] = stack[w][k]
      BY <1>0, <2>1, FrameTaken DEF Top
    <2>3. stack[w][1] = Top(w)
      BY <1>0, EmptySeq DEF Top
    <2>4. i.queued \/ status[i.job] # "queued"
      BY <1>2, <2>2, <2>3
    <2>5. \A k \in DOMAIN stack'[w] : \A x \in stack'[w][k] : x.queued \/ status[x.job] # "queued"
      BY <1>2, <2>2, <2>3
    <2>6. ListTrue(w)'
      BY <1>0, <2>1, <2>4, <2>5 DEF ListTrue
    <2>7. ASSUME NEW j \in Job, WillFail(w, j) PROVE WillFail(w, j)'
      <3>1. PICK k \in DOMAIN stack[w] : \E x \in stack[w][k] : x.job = j /\ x.queued
        BY <1>3, <2>7
      <3>2. PICK x \in stack[w][k] : x.job = j /\ x.queued
        BY <3>1
      <3>3. CASE x = i
        BY <2>1, <3>2, <3>3 DEF WillFail
      <3>4. CASE x # i
        BY <2>1, <2>2, <2>3, <3>2, <3>4 DEF WillFail, PropagatingPC
      <3> QED BY <3>3, <3>4
    <2> QED BY <1>0, <1>1, <2>1, <2>6, <2>7, PropagatingOwes DEF PropagatingPC
  <1>5. ASSUME Top(w) = {}, stack' = [stack EXCEPT ![w] = Below(w)],
               Goto(w, IF Below(w) = <<>> THEN "cleanup" ELSE "propNext")
        PROVE  Owed'
    <2>1. /\ stack'[w] = Below(w)
          /\ pc'[w] = (IF Below(w) = <<>> THEN "cleanup" ELSE "propNext")
      BY <1>0, <1>5 DEF Goto
    <2>2. /\ \A k \in DOMAIN Below(w) : \E l \in DOMAIN stack[w] : Below(w)[k] = stack[w][l]
          /\ \A k \in DOMAIN stack[w] :
               stack[w][k] = Top(w) \/ \E l \in DOMAIN Below(w) : Below(w)[l] = stack[w][k]
      BY <1>0, FramePopped DEF Top, Below
    <2>3. ListTrue(w)'
      <3>1. \A k \in DOMAIN Below(w) : \A x \in Below(w)[k] : x.queued \/ status[x.job] # "queued"
        BY <1>2, <2>2
      <3> QED BY <1>0, <2>1, <3>1 DEF ListTrue
    <2>4. ASSUME NEW j \in Job, WillFail(w, j) PROVE WillFail(w, j)'
      <3>1. PICK k \in DOMAIN stack[w] : \E x \in stack[w][k] : x.job = j /\ x.queued
        BY <1>3, <2>4
      <3>2. PICK l \in DOMAIN Below(w) : Below(w)[l] = stack[w][k]
        BY <1>5, <2>2, <3>1
      <3>3. Below(w) # <<>>
        BY <3>2
      <3> QED BY <2>1, <3>1, <3>2, <3>3 DEF WillFail, PropagatingPC
    <2> QED BY <1>0, <1>1, <2>1, <2>3, <2>4, PropagatingOwes DEF PropagatingPC
  <1> QED BY <1>4, <1>5 DEF PropagateNext

LEMMA FailDependencyOwes ==
  ASSUME TypeOK, Owed, Serving', NEW w \in Worker, FailDependency(w)
  PROVE  Owed'
  <1>0. /\ pc \in [Worker -> WorkerPC] /\ item[w].job \in Job
        /\ pc[w] = "propDep" /\ pc'[w] = (IF item[w].queued THEN "propStatus" ELSE "propNext")
        /\ dep' = [k \in Job |-> IF k = item[w].job /\ Exists(k) THEN "failed" ELSE dep[k]]
        /\ UNCHANGED <<status, toCreate, stack, item>>
    BY ItemIsSnapshot
       DEF FailDependency, SetDep, Goto, submitter, Snapshot, TypeOK, WorkerTypeOK
  <1>1. \A v \in Worker \ {w} : UNCHANGED <<pc[v], cur[v], stack[v], item[v], need[v]>>
    BY <1>0 DEF FailDependency, Goto
  <1>2. ListTrue(w)
    BY DEF Owed
  <1>3. ListTrue(w)'
    BY <1>0, <1>2 DEF ListTrue, PropagatingPC
  <1>4. \A j \in Job : WillFail(w, j) => WillFail(w, j)'
    BY <1>0 DEF WillFail, PropagatingPC
  <1>5. \A j \in Job : status[j] = "queued" /\ dep'[j] = "failed" =>
          dep[j] = "failed" \/ (pc'[w] = "propStatus" /\ item'[w].job = j)
    BY <1>0, <1>2 DEF ListTrue
  <1>6. \A j \in Job : dep'[j] = "pending" => dep[j] = "pending"
    BY <1>0
  <1> QED BY <1>0, <1>1, <1>3, <1>4, <1>5, <1>6, PropagatingOwes DEF PropagatingPC

LEMMA FailDependentOwes ==
  ASSUME TypeOK, Owed, Serving', NEW w \in Worker, FailDependent(w)
  PROVE  Owed'
  <1>0. /\ pc \in [Worker -> WorkerPC] /\ item[w].job \in Job /\ stack[w] # <<>>
        /\ stack[w] \in Seq(SUBSET Snapshot)
        /\ pc[w] = "propStatus" /\ pc'[w] = "propagate" /\ SetStatus(item[w].job, "failed")
        /\ UNCHANGED <<dep, toCreate, stack, item, cur>>
    BY ItemIsSnapshot
       DEF FailDependent, Goto, submitter, Snapshot, TypeOK, WorkerTypeOK, WorkerFits
  <1>1. \A v \in Worker \ {w} : UNCHANGED <<pc[v], cur[v], stack[v], item[v], need[v]>>
    BY <1>0 DEF FailDependent, Goto
  <1>2. /\ \A j \in Job : status'[j] = "queued" => status[j] = "queued" /\ j # item[w].job
        /\ \A j \in Job \ {item[w].job} : status'[j] = status[j]
    BY <1>0, StatusWritten DEF Terminal
  <1>3. FailedJob(w)' = item[w].job
    BY <1>0 DEF FailedJob
  <1>4. \A j \in Job : status'[j] # status[j] => status'[j] = "failed" /\ j = item[w].job
    BY <1>0 DEF SetStatus
  <1>5. ListTrue(w)'
    <2>1. \A k \in DOMAIN stack[w] : \A i \in stack[w][k] : i \in Snapshot
      BY <1>0
    <2>2. \A k \in DOMAIN stack[w] : \A i \in stack[w][k] : i.queued \/ status[i.job] # "queued"
      BY <1>0 DEF Owed, ListTrue, PropagatingPC
    <2>3. \A k \in DOMAIN stack[w] : \A i \in stack[w][k] : i.queued \/ status'[i.job] # "queued"
      BY <1>2, <2>1, <2>2 DEF Snapshot
    <2> QED BY <1>0, <2>3 DEF ListTrue
  <1>6. \A j \in Job : status'[j] = "queued" /\ WillFail(w, j) => WillFail(w, j)'
    BY <1>0, <1>2 DEF WillFail, PropagatingPC
  <1> QED BY <1>0, <1>1, <1>2, <1>3, <1>4, <1>5, <1>6, PropagatingOwes DEF PropagatingPC

LEMMA CreateOwes ==
  ASSUME TypeOK, Owed, Serving', NEW j \in Job, CreateJob(j)
  PROVE  Owed'
  <1>0. /\ status' = [status EXCEPT ![j] = "queued"] /\ dep' = [dep EXCEPT ![j] = InitialDep(j)]
        /\ toCreate' \subseteq toCreate /\ toCreate # {} /\ UNCHANGED <<queue, pc, cur, stack, item, need>>
        /\ status \in [Job -> Status] /\ dep \in [Job -> DepStatus]
    BY DEF CreateJob, worker, TypeOK, RowsTypeOK
  <1>1. /\ queue = <<>> /\ \A w \in Worker : pc[w] = "idle"
        /\ \A k \in Job : status'[k] \in {"absent", "queued"}
    BY <1>0 DEF Owed, Inserting
  <1>2. Inserting' /\ RunningHeld'
    BY <1>0, <1>1 DEF Inserting, RunningHeld
  <1>3. \A w \in Worker : ListTrue(w)'
    BY <1>0, <1>1 DEF ListTrue, PropagatingPC
  <1>4. FailureOwed'
    BY <1>1, ConstantsAssumption DEF FailureOwed
  <1>5. MarkedFailed'
    <2> SUFFICES ASSUME NEW k \in Job, dep'[k] = "failed", status'[k] = "queued" PROVE FALSE
      BY DEF MarkedFailed
    <2>1. k # j
      BY <1>0 DEF InitialDep
    <2>2. dep[k] = "failed" /\ status[k] = "queued"
      BY <1>0, <2>1
    <2> QED BY <1>1, <2>2 DEF Owed, MarkedFailed
  <1>6. ReleaseOwed'
    <2> SUFFICES ASSUME NEW k \in Job, status'[k] = "queued", dep'[k] = "pending"
                 PROVE  Deps[k] # {}
      BY <1>1, ConstantsAssumption DEF ReleaseOwed
    <2>1. CASE k = j
      BY <1>0, <2>1 DEF InitialDep
    <2>2. CASE k # j
      BY <1>0, <2>2 DEF Owed, ReleaseOwed
    <2> QED BY <2>1, <2>2
  <1> QED BY <1>2, <1>3, <1>4, <1>5, <1>6 DEF Owed

\* Sending a job of the submission to the channel, or an event to the subscribers,
\* disturbs nothing of this.
LEMMA SendOwes ==
  ASSUME TypeOK, Owed, Serving',
         \/ \E j \in Job : EnqueueCreated(j)
         \/ \E w \in Worker : Publish(w)
         \/ UNCHANGED vars
  PROVE  Owed'
  <1>1. UNCHANGED <<status, dep, pc, cur, stack, item, need, toCreate>>
    BY DEF EnqueueCreated, Publish, vars, rows, worker, submitter
  <1>2. toCreate = {} \/ UNCHANGED queue
    BY DEF EnqueueCreated, Publish, vars
  <1>3. Inserting' /\ RunningHeld'
    BY <1>1, <1>2 DEF Owed, Inserting, RunningHeld, Runs
  <1>4. \A w \in Worker : ListTrue(w)'
    BY <1>1 DEF Owed, ListTrue
  <1>5. FailureOwed' /\ MarkedFailed' /\ ReleaseOwed'
    BY <1>1 DEF Owed, FailureOwed, MarkedFailed, ReleaseOwed, WillFail, WillCheck, FailedJob, Top
  <1> QED BY <1>3, <1>4, <1>5 DEF Owed

LEMMA OwedStep == TypeOK /\ Steady /\ Owed /\ [Next]_vars => Owed'
  <1> SUFFICES ASSUME TypeOK, Steady, Owed, [Next]_vars PROVE Owed'
    OBVIOUS
  <1>0. Serving /\ Serving'
    BY ServingStep DEF Owed
  <1>1. ASSUME NEW w \in Worker, Work(w) PROVE Owed'
    <2>1. ~StartDrain(w) /\ ~Exit(w) /\ ~RecordSetupFailure(w)
      BY <1>0 DEF Serving, StartDrain, Exit, RecordSetupFailure
    <2> QED
      BY <1>0, <1>1, <2>1, RunOwes, MarkRunningOwes, FinishOwes, ReleaseStepsOwe, QueryLiveOwes,
         PropagateNextOwes, FailDependencyOwes, FailDependentOwes, SendOwes
         DEF Work
  <1>2. ASSUME NEW w \in Worker, DrainTimeout(w) \/ StoreFault(w) PROVE FALSE
    BY <1>0, <1>2 DEF DrainTimeout, StoreFault, Serving, Steady, TypeOK, RestTypeOK
  <1>3. ASSUME CreateFails \/ Shutdown \/ Restart PROVE FALSE
    BY <1>3 DEF CreateFails, Shutdown, Restart, Steady, TypeOK, RestTypeOK
  <1>4. ASSUME NEW j \in Job, DeleteJob(j) PROVE FALSE
    BY <1>4 DEF DeleteJob, Steady
  <1>5. ASSUME NEW c \in Caller PROVE FALSE
    BY <1>5 DEF Steady
  <1> QED BY <1>0, <1>1, <1>2, <1>3, <1>4, <1>5, CreateOwes, SendOwes DEF Next, Submit

LEMMA OwedHolds == Steady => (Spec => []Owed)
  <1>1. Steady /\ Init => Owed
    BY DEF Init, Owed, Serving, Inserting, RunningHeld, ListTrue, FailureOwed, MarkedFailed,
           ReleaseOwed, PropagatingPC
  <1>2. Steady => Steady'
    BY DEF Steady
  <1> QED BY <1>1, <1>2, OwedStep, TypeCorrect, PTL DEF Spec

\* When all is quiet nobody owes anything.
LEMMA QuietOwesNothing ==
  ASSUME TypeOK, Owed, Quiescent
  PROVE  \A w \in Worker, j \in Job : ~WillFail(w, j) /\ ~WillCheck(w, j) /\ ~Runs(w, j)
                                      /\ pc[w] # "propStatus"
  BY DEF Quiescent, WillFail, WillCheck, Runs, PropagatingPC, ReleasingPC, RunningPC

\* When all is quiet no dependent of a failed job is left waiting or running, for
\* every shape of chain and any number of workers, also where a job runs twice
\* (propagateFailure, and its recursion).
THEOREM FailurePropagatesHolds == Steady => (Spec => []FailurePropagates)
  <1>1. TypeOK /\ Owed => FailurePropagates
    <2> SUFFICES ASSUME TypeOK, Owed, Quiescent, NEW d \in Job, NEW p \in Deps[d], Exists(d),
                        status[p] = "failed"
                 PROVE  status[d] \in Terminal
      BY DEF FailurePropagates
    <2>1. status[d] # "queued" /\ status[d] # "running"
      BY QuietOwesNothing DEF Owed, FailureOwed, RunningHeld
    <2>2. status[d] \in Status
      BY DEF TypeOK, RowsTypeOK
    <2> QED BY <2>1, <2>2 DEF Status, Exists
  <1> QED BY <1>1, OwedHolds, TypeCorrect, PTL

\* When all is quiet a queued job whose dependencies have all succeeded is ready,
\* and was turned away by a full queue: the last worker to finish a dependency has
\* seen the success of the others (resolveDependencies, checkDependencies).
THEOREM SuccessReleasesHolds == Steady => (Spec => []SuccessReleases)
  <1>1. TypeOK /\ Owed /\ NoLostReadyJob => SuccessReleases
    <2> SUFFICES ASSUME TypeOK, Owed, NoLostReadyJob, Quiescent, NEW d \in Job,
                        status[d] = "queued", \A p \in Deps[d] : status[p] = "succeeded"
                 PROVE  dep[d] = "ready" /\ d \in refused
      BY DEF SuccessReleases
    <2>1. dep[d] # "pending" /\ dep[d] # "failed"
      BY QuietOwesNothing DEF Owed, ReleaseOwed, MarkedFailed
    <2>2. dep[d] = "ready"
      BY <2>1 DEF TypeOK, RowsTypeOK, DepStatus
    <2>3. \A w \in Worker : cur[w] = None /\ pc[w] # "enqueue"
      BY DEF Quiescent, TypeOK, WorkerFits
    <2>4. d # None /\ queue = <<>> /\ toEnqueue = {}
      BY ConstantsAssumption DEF Quiescent
    <2> QED BY <2>2, <2>3, <2>4 DEF NoLostReadyJob
  <1> QED BY <1>1, OwedHolds, TypeCorrect, NoLostReadyJobHolds, PTL
=============================================================================
