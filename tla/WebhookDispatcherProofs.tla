---------------------- MODULE WebhookDispatcherProofs -----------------------
(***************************************************************************)
(* Theorems about WebhookDispatcher, for any number of deliveries, workers *)
(* and attempts, any queue and any faults.                                 *)
(***************************************************************************)
EXTENDS WebhookDispatcher, TLAPS, FiniteSetTheorems, SequenceTheorems

-----------------------------------------------------------------------------
(* The invariant *)

Resting == {"idle", "exited"}
Saving(w) == worker[w].image # NoImage

\* A worker has a task, an attempt left and a record where its next step uses one.
WorkerFits(w) ==
  /\ worker[w].at \in Resting <=> worker[w].task = NoDelivery
  /\ worker[w].at \in Resting \cup {"validate"} => ~Saving(w)
  /\ worker[w].at = "backoff" => worker[w].attempt < MaxRetries
  /\ worker[w].at \notin Resting \cup {"validate"} /\ Tracked(worker[w].task)
       => records[worker[w].task] \in Record

Typed ==
  /\ DispatcherTypeOK
  /\ \A w \in Workers : WorkerFits(w)
  /\ ~disturbed => file \in Images

\* What an answer of "ok" rests on: a post that was accepted, a task.result.
Truthful ==
  /\ \A d \in Delivery : caller[d] # "returned" => answer[d] = "none"
  /\ \A d \in Delivery : result[d] = "ok" => d \in received
  /\ \A w \in Workers : worker[w].at \in {"delivered", "ok"} => worker[w].task \in received

\* A delivery is in one place: it is still its caller's, or once in the queue, or
\* with one worker, or done with.
InQueue(d) == \E i \in 1 .. Len(queue) : queue[i] = d
OnePlace ==
  /\ \A i, j \in 1 .. Len(queue) : queue[i] = queue[j] => i = j
  /\ \A d \in Delivery : InQueue(d) => caller[d] \notin {"idle", "submitting"}
  /\ \A w \in Workers : worker[w].at \notin Resting =>
       caller[worker[w].task] \notin {"idle", "submitting"} /\ ~InQueue(worker[w].task)
  /\ \A v, w \in Workers :
       worker[v].task = worker[w].task /\ worker[w].at \notin Resting => v = w

\* When the work on a delivery is over, its record says so.
Settled ==
  \A w \in Workers :
    worker[w].at \in {"delivered", "ok", "error"} /\ Tracked(worker[w].task)
      => records[worker[w].task].status # "pending"

\* A record changed in place that its worker is about to save.
Unsaved(d) ==
  \E w \in Workers : worker[w].at = "delivered" /\ worker[w].task = d /\ Tracked(d)

\* As long as saves have not overlapped and none has failed, the one image on its
\* way to the file, or else the file, has every record but those.
Follows(image) == \A d \in Delivery : image[d] = records[d] \/ Unsaved(d)
FileFollows ==
  ~disturbed =>
    /\ \A v, w \in Workers : Saving(v) /\ Saving(w) => v = w
    /\ \A w \in Workers : Saving(w) => Follows(worker[w].image)
    /\ (\A w \in Workers : ~Saving(w)) => Follows(file)

Inv == Typed /\ Truthful /\ OnePlace /\ Settled /\ PendingIsOwned /\ FileFollows
-----------------------------------------------------------------------------
(* Types *)

LEMMA InitInv == DispatcherInit => Inv
  <1> SUFFICES ASSUME DispatcherInit PROVE Inv
    OBVIOUS
  <1> USE DispatcherAssumption DEF DispatcherInit
  <1>0. NoRecords \in Images /\ Idle \in WorkerStates
    BY DEF NoRecords, Images, Idle, WorkerStates, WorkerSteps
  <1>1. DispatcherTypeOK
    <2>1. Cardinality(faults) = 0
      BY FS_EmptySet
    <2>2. queue \in Seq(Delivery) /\ Len(queue) = 0
      OBVIOUS
    <2>3. worker \in [Workers -> WorkerStates] /\ records \in Images /\ file \in Images
      BY <1>0
    <2>4. Len(queue) <= QueueCapacity /\ Cardinality(faults) <= MaxFaults
      BY <2>1, <2>2
    <2> QED BY <2>2, <2>3, <2>4 DEF DispatcherTypeOK
  <1>2. Typed
    BY <1>0, <1>1 DEF Typed, WorkerFits, Saving, Idle, Resting
  <1>3. Truthful /\ OnePlace /\ Settled
    BY DEF Truthful, OnePlace, Settled, InQueue, Idle, Resting
  <1>4. PendingIsOwned /\ FileFollows
    BY DEF PendingIsOwned, FileFollows, Follows, Saving, Idle, NoRecords
  <1> QED BY <1>2, <1>3, <1>4 DEF Inv

-----------------------------------------------------------------------------
(* What a step of a worker makes of it *)

Becomes(w, at, task, attempt, image) ==
  /\ worker' \in [Workers -> WorkerStates]
  /\ \A v \in Workers \ {w} : worker'[v] = worker[v]
  /\ worker'[w].at = at /\ worker'[w].task = task
  /\ worker'[w].attempt = attempt /\ worker'[w].image = image

LEMMA Moves ==
  ASSUME worker \in [Workers -> WorkerStates], NEW w \in Workers, NEW s \in WorkerStates,
         worker' = [worker EXCEPT ![w] = s]
  PROVE  Becomes(w, s.at, s.task, s.attempt, s.image)
  BY DEF Becomes

LEMMA States ==
  ASSUME NEW s \in WorkerStates, NEW at \in WorkerSteps, NEW attempt \in 0 .. MaxRetries,
         NEW image \in Images \cup {NoImage}
  PROVE  /\ [s EXCEPT !.at = at] \in WorkerStates
         /\ \A d \in Delivery : [s EXCEPT !.at = at, !.task = d] \in WorkerStates
         /\ [s EXCEPT !.image = image] \in WorkerStates
         /\ [s EXCEPT !.at = at, !.attempt = attempt] \in WorkerStates
         /\ [[s EXCEPT !.image = image] EXCEPT !.at = at] \in WorkerStates
         /\ [[s EXCEPT !.image = image] EXCEPT !.at = at, !.attempt = attempt] \in WorkerStates
  BY DEF WorkerStates

LEMMA RecordsMove ==
  ASSUME records \in Images, NEW d \in Delivery
  PROVE  /\ [records EXCEPT ![d] = [status |-> "pending", attempts |-> 0]] \in Images
         /\ records[d] \in Record =>
              /\ \A status \in {"delivered", "failed"} :
                   [records EXCEPT ![d].status = status] \in Images
              /\ \A n \in 0 .. MaxRetries : [records EXCEPT ![d] = MarkField(@, n)] \in Images
  BY DispatcherAssumption DEF Images, Record, MarkField

LEMMA StepsBecome ==
  ASSUME Typed, NEW w \in Workers
  PROVE  LET at == worker[w].at
             task == worker[w].task
             attempt == worker[w].attempt
             image == worker[w].image
         IN /\ Take(w) => Becomes(w, "validate", Head(queue), 0, NoImage)
            /\ Exit(w) => Becomes(w, "exited", task, attempt, image)
            /\ Reject(w) => Becomes(w, "error", task, attempt, image)
            /\ Track(w) => Becomes(w, "attempt", task, 1, records')
            /\ GoUntracked(w) => Becomes(w, "attempt", task, 1, image)
            /\ Write(w) \/ WriteFails(w) => Becomes(w, at, task, attempt, NoImage)
            /\ Delivered(w) => Becomes(w, "delivered", task, attempt, image)
            /\ Missed(w) => Becomes(w, "missed", task, attempt, image)
            /\ CountAttempt(w) =>
                 Becomes(w, After(w), task, attempt, IF Tracked(task) THEN records' ELSE image)
            /\ Backoff(w) => Becomes(w, "attempt", task, attempt + 1, image)
            /\ GiveUp(w) =>
                 Becomes(w, "error", task, attempt, IF Tracked(task) THEN records' ELSE image)
            /\ Finish(w) => Becomes(w, "idle", NoDelivery, 0, NoImage)
  <1> DEFINE at == worker[w].at
             task == worker[w].task
             attempt == worker[w].attempt
             image == worker[w].image
             s == worker[w]
  <1>0. /\ worker \in [Workers -> WorkerStates] /\ s \in WorkerStates
        /\ s.at \in WorkerSteps /\ s.attempt \in 0 .. MaxRetries
        /\ s.task \in Delivery \cup {NoDelivery}
        /\ NoImage \in Images \cup {NoImage} /\ s.image \in Images \cup {NoImage}
        /\ 0 \in 0 .. MaxRetries /\ 1 \in 0 .. MaxRetries
    BY DispatcherAssumption DEF Typed, DispatcherTypeOK, WorkerStates
  <1>1. Take(w) => Becomes(w, "validate", Head(queue), 0, NoImage)
    <2> SUFFICES ASSUME Take(w) PROVE Becomes(w, "validate", Head(queue), 0, NoImage)
      OBVIOUS
    <2> DEFINE n == [Idle EXCEPT !.at = "validate", !.task = Head(queue)]
    <2>0. Idle \in WorkerStates
      BY <1>0 DEF Idle, WorkerStates, WorkerSteps
    <2>1. Head(queue) \in Delivery
      BY HeadTailProperties DEF Take, Typed, DispatcherTypeOK
    <2>2. /\ n \in WorkerStates
          /\ n.at = "validate" /\ n.task = Head(queue) /\ n.attempt = 0 /\ n.image = NoImage
      <3>1. n \in WorkerStates
        BY <2>0, <2>1, <1>0, States DEF WorkerSteps
      <3>2. n.at = "validate" /\ n.task = Head(queue) /\ n.attempt = 0 /\ n.image = NoImage
        <4>1. Idle.attempt = 0 /\ Idle.image = NoImage
          BY DEF Idle
        <4> QED BY <2>0, <4>1 DEF WorkerStates
      <3> QED BY <3>1, <3>2
    <2>3. worker' = [worker EXCEPT ![w] = n]
      BY DEF Take
    <2> HIDE DEF n
    <2> QED BY <2>2, <2>3, <1>0, Moves
  <1>2. Exit(w) => Becomes(w, "exited", task, attempt, image)
    <2> SUFFICES ASSUME Exit(w) PROVE Becomes(w, "exited", task, attempt, image)
      OBVIOUS
    <2> DEFINE n == [s EXCEPT !.at = "exited"]
    <2>1. n \in WorkerStates
      BY <1>0, States DEF WorkerSteps
    <2>2. worker' = [worker EXCEPT ![w] = n]
      BY <1>0 DEF Exit
    <2>3. Becomes(w, n.at, n.task, n.attempt, n.image)
      BY <2>1, <2>2, <1>0, Moves
    <2> QED BY <2>3, <1>0 DEF WorkerStates
  <1>3. Reject(w) => Becomes(w, "error", task, attempt, image)
    <2> SUFFICES ASSUME Reject(w) PROVE Becomes(w, "error", task, attempt, image)
      OBVIOUS
    <2> DEFINE n == [s EXCEPT !.at = "error"]
    <2>1. n \in WorkerStates
      BY <1>0, States DEF WorkerSteps
    <2>2. worker' = [worker EXCEPT ![w] = n]
      BY <1>0 DEF Reject
    <2>3. Becomes(w, n.at, n.task, n.attempt, n.image)
      BY <2>1, <2>2, <1>0, Moves
    <2> QED BY <2>3, <1>0 DEF WorkerStates
  <1>5. GoUntracked(w) => Becomes(w, "attempt", task, 1, image)
    <2> SUFFICES ASSUME GoUntracked(w) PROVE Becomes(w, "attempt", task, 1, image)
      OBVIOUS
    <2> DEFINE n == [s EXCEPT !.at = "attempt", !.attempt = 1]
    <2>1. n \in WorkerStates
      BY <1>0, States DEF WorkerSteps
    <2>2. worker' = [worker EXCEPT ![w] = n]
      BY <1>0 DEF GoUntracked
    <2>3. Becomes(w, n.at, n.task, n.attempt, n.image)
      BY <2>1, <2>2, <1>0, Moves
    <2> QED BY <2>3, <1>0 DEF WorkerStates
  <1>7. Delivered(w) => Becomes(w, "delivered", task, attempt, image)
    <2> SUFFICES ASSUME Delivered(w) PROVE Becomes(w, "delivered", task, attempt, image)
      OBVIOUS
    <2> DEFINE n == [s EXCEPT !.at = "delivered"]
    <2>1. n \in WorkerStates
      BY <1>0, States DEF WorkerSteps
    <2>2. worker' = [worker EXCEPT ![w] = n]
      BY <1>0 DEF Delivered
    <2>3. Becomes(w, n.at, n.task, n.attempt, n.image)
      BY <2>1, <2>2, <1>0, Moves
    <2> QED BY <2>3, <1>0 DEF WorkerStates
  <1>8. Missed(w) => Becomes(w, "missed", task, attempt, image)
    <2> SUFFICES ASSUME Missed(w) PROVE Becomes(w, "missed", task, attempt, image)
      OBVIOUS
    <2> DEFINE n == [s EXCEPT !.at = "missed"]
    <2>1. n \in WorkerStates
      BY <1>0, States DEF WorkerSteps
    <2>2. worker' = [worker EXCEPT ![w] = n]
      BY <1>0 DEF Missed
    <2>3. Becomes(w, n.at, n.task, n.attempt, n.image)
      BY <2>1, <2>2, <1>0, Moves
    <2> QED BY <2>3, <1>0 DEF WorkerStates
  <1>4. Track(w) => Becomes(w, "attempt", task, 1, records')
    <2> SUFFICES ASSUME Track(w) PROVE Becomes(w, "attempt", task, 1, records')
      OBVIOUS
    <2> DEFINE n == [[s EXCEPT !.image = records'] EXCEPT !.at = "attempt", !.attempt = 1]
    <2>0. records' \in Images
      <3>1. task \in Delivery
        BY <1>0 DEF Track, Typed, WorkerFits, Resting
      <3> QED BY <3>1, RecordsMove DEF Track, Typed, DispatcherTypeOK
    <2>1. n \in WorkerStates
      BY <2>0, <1>0, States DEF WorkerSteps
    <2>2. worker' = [worker EXCEPT ![w] = n]
      BY <1>0 DEF Track, Saves
    <2>3. Becomes(w, n.at, n.task, n.attempt, n.image)
      BY <2>1, <2>2, <1>0, Moves
    <2> QED BY <2>3, <1>0 DEF WorkerStates
  <1>6. Write(w) \/ WriteFails(w) => Becomes(w, at, task, attempt, NoImage)
    <2> SUFFICES ASSUME Write(w) \/ WriteFails(w) PROVE Becomes(w, at, task, attempt, NoImage)
      OBVIOUS
    <2> DEFINE n == [s EXCEPT !.image = NoImage]
    <2>1. n \in WorkerStates
      BY <1>0, States DEF WorkerSteps
    <2>2. worker' = [worker EXCEPT ![w] = n]
      BY <1>0 DEF Write, WriteFails
    <2>3. Becomes(w, n.at, n.task, n.attempt, n.image)
      BY <2>1, <2>2, <1>0, Moves
    <2> QED BY <2>3, <1>0 DEF WorkerStates
  <1>9. CountAttempt(w) => Becomes(w, After(w), task, attempt, IF Tracked(task) THEN records' ELSE image)
    <2> SUFFICES ASSUME CountAttempt(w)
                 PROVE  Becomes(w, After(w), task, attempt, IF Tracked(task) THEN records' ELSE image)
      OBVIOUS
    <2>0. After(w) \in WorkerSteps
      BY DEF WorkerSteps, After
    <2>1. CASE Tracked(task)
      <3> DEFINE n == [[s EXCEPT !.image = records'] EXCEPT !.at = After(w)]
      <3>1. records' \in Images
        <4>1. task \in Delivery /\ records[task] \in Record
          BY <2>1, <1>0 DEF CountAttempt, Ready, Typed, WorkerFits, Resting
        <4>2. [records EXCEPT ![task] = MarkField(@, attempt)] \in Images
          BY <4>1, <1>0, RecordsMove DEF Typed, DispatcherTypeOK
        <4> QED BY <2>1, <4>2 DEF CountAttempt
      <3>2. n \in WorkerStates
        BY <2>0, <3>1, <1>0, States
      <3>3. worker' = [worker EXCEPT ![w] = n]
        BY <2>1, <1>0 DEF CountAttempt, Saves
      <3>4. Becomes(w, n.at, n.task, n.attempt, n.image)
        BY <3>2, <3>3, <1>0, Moves
      <3>5. n.at = After(w) /\ n.task = task /\ n.attempt = attempt /\ n.image = records'
        BY <1>0 DEF WorkerStates
      <3> QED BY <2>1, <3>4, <3>5
    <2>2. CASE ~Tracked(task)
      <3> DEFINE n == [s EXCEPT !.at = After(w)]
      <3>1. n \in WorkerStates
        BY <2>0, <1>0, States
      <3>2. worker' = [worker EXCEPT ![w] = n]
        BY <2>2, <1>0 DEF CountAttempt
      <3>3. Becomes(w, n.at, n.task, n.attempt, n.image)
        BY <3>1, <3>2, <1>0, Moves
      <3>4. n.at = After(w) /\ n.task = task /\ n.attempt = attempt /\ n.image = image
        BY <1>0 DEF WorkerStates
      <3> QED BY <2>2, <3>3, <3>4
    <2> QED BY <2>1, <2>2
  <1>10. Backoff(w) => Becomes(w, "attempt", task, attempt + 1, image)
    <2> SUFFICES ASSUME Backoff(w) PROVE Becomes(w, "attempt", task, attempt + 1, image)
      OBVIOUS
    <2> DEFINE n == [s EXCEPT !.at = "attempt", !.attempt = attempt + 1]
    <2>0. attempt + 1 \in 0 .. MaxRetries
      BY <1>0, DispatcherAssumption DEF Backoff, Ready, Typed, WorkerFits
    <2>1. n \in WorkerStates
      BY <2>0, <1>0, States DEF WorkerSteps
    <2>2. worker' = [worker EXCEPT ![w] = n]
      BY <1>0 DEF Backoff
    <2>3. Becomes(w, n.at, n.task, n.attempt, n.image)
      BY <2>1, <2>2, <1>0, Moves
    <2> QED BY <2>3, <1>0 DEF WorkerStates
  <1>11. GiveUp(w) => Becomes(w, "error", task, attempt, IF Tracked(task) THEN records' ELSE image)
    <2> SUFFICES ASSUME GiveUp(w)
                 PROVE  Becomes(w, "error", task, attempt, IF Tracked(task) THEN records' ELSE image)
      OBVIOUS
    <2>0. "error" \in WorkerSteps
      BY DEF WorkerSteps
    <2>1. CASE Tracked(task)
      <3> DEFINE n == [[s EXCEPT !.image = records'] EXCEPT !.at = "error"]
      <3>1. records' \in Images
        <4>1. task \in Delivery /\ records[task] \in Record
          BY <2>1, <1>0 DEF GiveUp, Ready, Typed, WorkerFits, Resting
        <4> QED BY <2>1, <4>1, <1>0, RecordsMove DEF GiveUp, Typed, DispatcherTypeOK
      <3>2. n \in WorkerStates
        BY <2>0, <3>1, <1>0, States
      <3>3. worker' = [worker EXCEPT ![w] = n]
        BY <2>1, <1>0 DEF GiveUp, Saves
      <3>4. Becomes(w, n.at, n.task, n.attempt, n.image)
        BY <3>2, <3>3, <1>0, Moves
      <3>5. n.at = "error" /\ n.task = task /\ n.attempt = attempt /\ n.image = records'
        BY <1>0 DEF WorkerStates
      <3> QED BY <2>1, <3>4, <3>5
    <2>2. CASE ~Tracked(task)
      <3> DEFINE n == [s EXCEPT !.at = "error"]
      <3>1. n \in WorkerStates
        BY <2>0, <1>0, States
      <3>2. worker' = [worker EXCEPT ![w] = n]
        BY <2>2, <1>0 DEF GiveUp
      <3>3. Becomes(w, n.at, n.task, n.attempt, n.image)
        BY <3>1, <3>2, <1>0, Moves
      <3>4. n.at = "error" /\ n.task = task /\ n.attempt = attempt /\ n.image = image
        BY <1>0 DEF WorkerStates
      <3> QED BY <2>2, <3>3, <3>4
    <2> QED BY <2>1, <2>2
  <1>12. Finish(w) => Becomes(w, "idle", NoDelivery, 0, NoImage)
    <2> SUFFICES ASSUME Finish(w) PROVE Becomes(w, "idle", NoDelivery, 0, NoImage)
      OBVIOUS
    <2> DEFINE n == Idle
    <2>1. n \in WorkerStates
      BY <1>0 DEF Idle, WorkerStates, WorkerSteps
    <2>2. worker' = [worker EXCEPT ![w] = n]
      BY <1>0 DEF Finish
    <2>3. Becomes(w, n.at, n.task, n.attempt, n.image)
      BY <2>1, <2>2, <1>0, Moves
    <2> QED BY <2>3 DEF Idle
  <1> QED BY <1>1, <1>2, <1>3, <1>4, <1>5, <1>6, <1>7, <1>8, <1>9, <1>10, <1>11, <1>12

-----------------------------------------------------------------------------
(* Types *)

LEMMA FaultKeeps ==
  ASSUME faults \subseteq {"crash", "disk"}, Cardinality(faults) <= MaxFaults,
         NEW kind \in {"crash", "disk"}, Fault(kind)
  PROVE  faults' \subseteq {"crash", "disk"} /\ Cardinality(faults') <= MaxFaults
  <1>1. IsFiniteSet({"crash", "disk"})
    <2>1. IsFiniteSet({"crash"})
      BY FS_Singleton
    <2>2. IsFiniteSet({"crash"} \cup {"disk"})
      BY <2>1, FS_AddElement
    <2>3. {"crash"} \cup {"disk"} = {"crash", "disk"}
      OBVIOUS
    <2> QED BY <2>2, <2>3
  <1>2. IsFiniteSet(faults) /\ Cardinality(faults) \in Nat
    BY <1>1, FS_Subset, FS_CardinalityType
  <1>3. Cardinality(faults \cup {kind}) = Cardinality(faults) + 1
    BY <1>2, FS_AddElement DEF Fault
  <1> QED BY <1>2, <1>3, DispatcherAssumption DEF Fault

\* Only its worker touches a record, and none is taken away.
LEMMA RecordSteps ==
  ASSUME Typed, NEW w \in Workers, WorkerStep(w)
  PROVE  /\ records' \in Images
         /\ \A d \in Delivery : d # worker[w].task => records'[d] = records[d]
         /\ \A d \in Delivery : records[d] \in Record => records'[d] \in Record
  <1> DEFINE task == worker[w].task
  <1>0. records \in Images /\ worker[w] \in WorkerStates
    BY DEF Typed, DispatcherTypeOK
  <1>1. CASE records' = records
    BY <1>0, <1>1
  <1>2. CASE Track(w)
    <2>1. task \in Delivery
      BY <1>0, <1>2 DEF Track, Typed, WorkerFits, Resting, WorkerStates
    <2>2. records' = [records EXCEPT ![task] = [status |-> "pending", attempts |-> 0]]
      BY <1>2 DEF Track
    <2>3. [status |-> "pending", attempts |-> 0] \in Record
      BY DispatcherAssumption DEF Record
    <2> QED BY <1>0, <2>1, <2>2, <2>3, RecordsMove DEF Images
  <1>3. CASE records' # records /\ (Delivered(w) \/ CountAttempt(w) \/ GiveUp(w))
    <2>1. Tracked(task)
      BY <1>3 DEF Delivered, SetStatus, CountAttempt, GiveUp
    <2>2. task \in Delivery /\ records[task] \in Record
      BY <1>0, <1>3, <2>1
      DEF Delivered, CountAttempt, GiveUp, Ready, Typed, WorkerFits, Resting, WorkerStates
    <2>3. \/ records' = [records EXCEPT ![task].status = "delivered"]
          \/ records' = [records EXCEPT ![task].status = "failed"]
          \/ records' = [records EXCEPT ![task] = MarkField(@, worker[w].attempt)]
      BY <1>3, <2>1 DEF Delivered, SetStatus, CountAttempt, GiveUp
    <2>4. records' \in Images
      BY <1>0, <2>2, <2>3, RecordsMove DEF WorkerStates
    <2>5. records'[task] \in Record
      BY <1>0, <2>2, <2>3 DEF Images, Record, MarkField, WorkerStates
    <2>6. \A d \in Delivery : d # task => records'[d] = records[d]
      BY <1>0, <2>2, <2>3 DEF Images
    <2> QED BY <2>4, <2>5, <2>6
  <1> QED BY <1>1, <1>2, <1>3
      DEF WorkerStep, Take, Exit, Reject, GoUntracked, Write, WriteFails, Missed, Backoff, Finish, store

LEMMA TypedWorkers ==
  ASSUME Typed, NEW w \in Workers, WorkerStep(w)
  PROVE  Typed'
  <1> DEFINE task == worker[w].task
  <1>0. /\ DispatcherTypeOK /\ worker[w] \in WorkerStates /\ WorkerFits(w)
        /\ records' \in Images
        /\ \A d \in Delivery : records[d] \in Record => records'[d] \in Record
    BY RecordSteps DEF Typed, DispatcherTypeOK
  <1>1. worker' \in [Workers -> WorkerStates] /\ \A v \in Workers \ {w} : worker'[v] = worker[v]
    BY StepsBecome DEF WorkerStep, Becomes
  <1>2. untracked \subseteq untracked' /\ untracked' \subseteq Delivery
    BY <1>0 DEF WorkerStep, Take, Exit, Reject, Track, GoUntracked, Write, WriteFails, Delivered,
       Missed, CountAttempt, Backoff, GiveUp, Finish, store, DispatcherTypeOK, WorkerFits, Resting, WorkerStates, Saving
  <1>3. \A v \in Workers \ {w} : WorkerFits(v)'
    BY <1>0, <1>1, <1>2 DEF Typed, WorkerFits, Saving, Tracked, DispatcherTypeOK, WorkerStates
  <1>4. queue' \in Seq(Delivery) /\ Len(queue') <= QueueCapacity
    <2>1. CASE Take(w)
      <3>1. Len(Tail(queue)) = Len(queue) - 1 /\ Tail(queue) \in Seq(Delivery) /\ Len(queue) \in Nat
        BY <1>0, <2>1, HeadTailProperties, LenProperties DEF Take, DispatcherTypeOK
      <3> QED BY <1>0, <2>1, <3>1, DispatcherAssumption DEF Take, DispatcherTypeOK
    <2>2. CASE queue' = queue
      BY <1>0, <2>2 DEF DispatcherTypeOK
    <2> QED BY <2>1, <2>2 DEF WorkerStep, Exit, Reject, Track, GoUntracked, Write, WriteFails,
         Delivered, Missed, CountAttempt, Backoff, GiveUp, Finish
  <1>5. /\ caller' = caller /\ answer' = answer /\ cancelled' = cancelled /\ closing' = closing
        /\ received' \subseteq Delivery
    BY <1>0 DEF WorkerStep, Take, Exit, Reject, Track, GoUntracked, Write, WriteFails, Delivered,
       Missed, CountAttempt, Backoff, GiveUp, Finish, callers, DispatcherTypeOK, WorkerFits,
       Resting, WorkerStates, Ready
  <1>6. result' \in [Delivery -> {"none", "ok", "error"}]
    <2>1. CASE Finish(w)
      BY <1>0, <2>1 DEF Finish, Ready, DispatcherTypeOK
    <2>2. CASE result' = result
      BY <1>0, <2>2 DEF DispatcherTypeOK
    <2> QED BY <2>1, <2>2 DEF WorkerStep, Take, Exit, Reject, Track, GoUntracked, Write, WriteFails,
         Delivered, Missed, CountAttempt, Backoff, GiveUp, callers
  <1>7. faults' \subseteq {"crash", "disk"} /\ Cardinality(faults') <= MaxFaults
    <2>1. CASE WriteFails(w)
      BY <1>0, <2>1, FaultKeeps DEF WriteFails, DispatcherTypeOK
    <2>2. CASE faults' = faults
      BY <1>0, <2>2 DEF DispatcherTypeOK
    <2> QED BY <2>1, <2>2 DEF WorkerStep, Take, Exit, Reject, Track, GoUntracked, Write, Finish,
         Delivered, Missed, CountAttempt, Backoff, GiveUp
  <1>8. disturbed' \in BOOLEAN /\ (~disturbed' => ~disturbed)
    BY <1>0 DEF WorkerStep, Take, Exit, Reject, Track, GoUntracked, Write, WriteFails, Delivered,
       Missed, CountAttempt, Backoff, GiveUp, Finish, store, SavingBeside, DispatcherTypeOK
  <1>9. file' \in Images \cup {TornFile} /\ (~disturbed' => file' \in Images)
    <2>1. CASE Write(w)
      BY <1>0, <2>1 DEF Write, WorkerStates
    <2>2. CASE file' = file
      BY <1>0, <1>8, <2>2 DEF DispatcherTypeOK, Typed
    <2>3. CASE WriteFails(w)
      BY <1>0, <2>3 DEF WriteFails, DispatcherTypeOK
    <2> QED BY <2>1, <2>2, <2>3 DEF WorkerStep, Take, Exit, Reject, Track, GoUntracked, Finish,
         Delivered, Missed, CountAttempt, Backoff, GiveUp, store
  <1>10. WorkerFits(w)'
    <2>4. CASE Track(w)
      <3>1. task \in Delivery
        BY <1>0, <2>4 DEF Track, Saves, WorkerStates, WorkerFits, Resting
      <3>2. worker'[w].at = "attempt" /\ worker'[w].task = task
        BY <2>4, StepsBecome DEF Becomes
      <3>3. records'[task] = [status |-> "pending", attempts |-> 0]
        BY <1>0, <2>4, <3>1 DEF Track, Saves, DispatcherTypeOK, Images
      <3>4. records'[task] \in Record
        BY <3>3, DispatcherAssumption DEF Record
      <3> QED BY <3>1, <3>2, <3>4, DispatcherAssumption DEF WorkerFits, Resting
    <2> USE <1>0, <1>2, StepsBecome DEF Becomes, WorkerFits, Saving, Tracked, Resting
    <2>1. CASE Take(w)
      <3>1. Head(queue) \in Delivery
        BY <2>1, HeadTailProperties DEF Take, DispatcherTypeOK
      <3> QED BY <2>1, <3>1, DispatcherAssumption
    <2>2. CASE Exit(w)
      BY <2>2 DEF Exit, Ready, WorkerStates, store
    <2>3. CASE Reject(w)
      BY <2>3 DEF Reject, Ready, WorkerStates, store
    <2>5. CASE GoUntracked(w)
      BY <2>5 DEF GoUntracked, Ready, WorkerStates, store
    <2>6. CASE Write(w)
      BY <2>6 DEF Write, Ready, WorkerStates, store
    <2>7. CASE WriteFails(w)
      BY <2>7 DEF WriteFails, Ready, WorkerStates, store
    <2>8. CASE Delivered(w)
      BY <2>8 DEF Delivered, Ready, WorkerStates, store
    <2>9. CASE Missed(w)
      BY <2>9 DEF Missed, Ready, WorkerStates, store
    <2>10. CASE CountAttempt(w)
      BY <2>10 DEF CountAttempt, Ready, After, WorkerStates
    <2>11. CASE Backoff(w)
      BY <2>11 DEF Backoff, Ready, WorkerStates, store
    <2>12. CASE GiveUp(w)
      BY <2>12 DEF GiveUp, Ready, WorkerStates, store
    <2>13. CASE Finish(w)
      BY <2>13 DEF Finish, Ready, WorkerStates, store
    <2> QED BY <2>1, <2>2, <2>3, <2>4, <2>5, <2>6, <2>7, <2>8, <2>9, <2>10, <2>11, <2>12, <2>13 DEF WorkerStep
  <1> QED BY <1>0, <1>1, <1>2, <1>3, <1>4, <1>5, <1>6, <1>7, <1>8, <1>9, <1>10 DEF Typed, DispatcherTypeOK

LEMMA TypedCallers ==
  ASSUME Typed, NEW d \in Delivery, Call(d) \/ Cancel(d) \/ Caller(d)
  PROVE  Typed'
  <1>0. DispatcherTypeOK
    BY DEF Typed
  <1>1. /\ worker' = worker /\ records' = records /\ file' = file /\ untracked' = untracked
        /\ faults' = faults /\ disturbed' = disturbed /\ closing' = closing
        /\ received' = received /\ result' = result
    BY DEF Call, Cancel, Caller, Enqueue, Refuse, Await, store
  <1>2. caller' \in [Delivery -> {"idle", "submitting", "waiting", "returned", "lost"}]
    BY <1>0 DEF Call, Cancel, Caller, Enqueue, Refuse, Await, Return, DispatcherTypeOK
  <1>3. answer' \in [Delivery -> {"none", "ok", "error"}]
    <2>1. \/ answer' = answer
          \/ answer' = [answer EXCEPT ![d] = "error"]
          \/ answer' = [answer EXCEPT ![d] = result[d]]
      BY DEF Call, Cancel, Caller, Enqueue, Refuse, Await, Return
    <2>2. result[d] \in {"none", "ok", "error"}
      BY <1>0 DEF DispatcherTypeOK
    <2> QED BY <1>0, <2>1, <2>2 DEF DispatcherTypeOK
  <1>4. queue' \in Seq(Delivery) /\ Len(queue') <= QueueCapacity
    <2>1. CASE Enqueue(d)
      <3>1. queue' = Append(queue, d) /\ queue \in Seq(Delivery) /\ Len(queue) < QueueCapacity
        BY <1>0, <2>1 DEF Enqueue, DispatcherTypeOK
      <3>2. Append(queue, d) \in Seq(Delivery) /\ Len(Append(queue, d)) = Len(queue) + 1
        BY <3>1, AppendProperties
      <3>3. Len(queue) \in Nat
        BY <3>1, LenProperties
      <3> QED BY <3>1, <3>2, <3>3, DispatcherAssumption
    <2>2. CASE queue' = queue
      BY <1>0, <2>2 DEF DispatcherTypeOK
    <2> QED BY <2>1, <2>2 DEF Call, Cancel, Caller, Refuse, Await
  <1>5. cancelled' \subseteq Delivery
    BY <1>0 DEF Call, Cancel, Caller, Enqueue, Refuse, Await, DispatcherTypeOK
  <1>6. DispatcherTypeOK'
    <2> HIDE DEF Caller
    <2> QED BY <1>0, <1>1, <1>2, <1>3, <1>4, <1>5 DEF DispatcherTypeOK
  <1> QED BY <1>1, <1>6 DEF Typed, WorkerFits, Saving, Tracked

LEMMA TypedClosing ==
  ASSUME Typed, Close \/ Closer
  PROVE  Typed'
  <1>0. DispatcherTypeOK
    BY DEF Typed
  <1>1. /\ worker' = worker /\ records' = records /\ file' = file /\ untracked' = untracked
        /\ faults' = faults /\ disturbed' = disturbed /\ received' = received
        /\ caller' = caller /\ answer' = answer /\ cancelled' = cancelled
    BY DEF Close, Closer, Drain, Join, store, callers
  <1>2. closing' \in {"open", "draining", "joining", "closed"}
    BY <1>0 DEF Close, Closer, Drain, Join, DispatcherTypeOK
  <1>3. queue' \in Seq(Delivery) /\ Len(queue') <= QueueCapacity
    <2>1. CASE queue' = Tail(queue) /\ queue # <<>>
      <3>1. Len(Tail(queue)) = Len(queue) - 1 /\ Tail(queue) \in Seq(Delivery) /\ Len(queue) \in Nat
        BY <1>0, <2>1, HeadTailProperties, LenProperties DEF DispatcherTypeOK
      <3> QED BY <1>0, <2>1, <3>1, DispatcherAssumption DEF DispatcherTypeOK
    <2>2. CASE queue' = queue
      BY <1>0, <2>2 DEF DispatcherTypeOK
    <2> QED BY <2>1, <2>2 DEF Close, Closer, Drain, Join
  <1>4. result' \in [Delivery -> {"none", "ok", "error"}]
    <2>1. \/ result' = result
          \/ result' = [result EXCEPT ![Head(queue)] = IF Head(queue) \in Sync THEN "error" ELSE @]
      BY DEF Close, Closer, Drain, Join, callers
    <2> QED BY <1>0, <2>1 DEF DispatcherTypeOK
  <1>5. DispatcherTypeOK'
    BY <1>0, <1>1, <1>2, <1>3, <1>4 DEF DispatcherTypeOK
  <1> QED BY <1>1, <1>5 DEF Typed, WorkerFits, Saving, Tracked

LEMMA TypedCrash ==
  ASSUME Typed, Crash
  PROVE  Typed'
  <1>0. DispatcherTypeOK
    BY DEF Typed
  <1>1. worker' = [w \in Workers |-> Idle] /\ Idle \in WorkerStates
    BY DispatcherAssumption DEF Crash, Idle, WorkerStates, WorkerSteps
  <1>2. NoRecords \in Images
    BY DEF NoRecords, Images
  <1>3. file' \in Images \cup {TornFile} /\ records' \in Images
    <2>1. file' \in {file, TornFile}
      BY DEF Crash
    <2>2. file' \in Images \cup {TornFile}
      BY <1>0, <2>1 DEF DispatcherTypeOK
    <2> QED BY <2>2, <1>2 DEF Crash
  <1>4. disturbed' = (file' = TornFile) /\ disturbed' \in BOOLEAN
    BY DEF Crash
  <1>5. queue' \in Seq(Delivery) /\ Len(queue') <= QueueCapacity
    <2>1. queue' = <<>>
      BY DEF Crash
    <2>2. <<>> \in Seq(Delivery) /\ Len(<<>>) = 0
      OBVIOUS
    <2> QED BY <2>1, <2>2, DispatcherAssumption
  <1>6. caller' \in [Delivery -> {"idle", "submitting", "waiting", "returned", "lost"}]
    BY <1>0 DEF Crash, DispatcherTypeOK
  <1>7. /\ result' \in [Delivery -> {"none", "ok", "error"}] /\ untracked' = {}
        /\ closing' \in {"open", "draining", "joining", "closed"}
    BY DEF Crash
  <1>8. faults' \subseteq {"crash", "disk"} /\ Cardinality(faults') <= MaxFaults
    BY <1>0, FaultKeeps DEF Crash, DispatcherTypeOK
  <1>9. answer' = answer /\ cancelled' = cancelled /\ received' = received
    BY DEF Crash
  <1>10. worker' \in [Workers -> WorkerStates]
    BY <1>1
  <1>11. DispatcherTypeOK'
    BY <1>0, <1>3, <1>4, <1>5, <1>6, <1>7, <1>8, <1>9, <1>10 DEF DispatcherTypeOK
  <1>12. \A w \in Workers : WorkerFits(w)'
    BY <1>1 DEF WorkerFits, Saving, Resting, Idle
  <1> QED BY <1>3, <1>4, <1>11, <1>12 DEF Typed

LEMMA TypedNext == Typed /\ [DispatcherNext]_dispatcherVars => Typed'
  <1> SUFFICES ASSUME Typed, [DispatcherNext]_dispatcherVars PROVE Typed'
    OBVIOUS
  <1>1. CASE UNCHANGED dispatcherVars
    BY <1>1 DEF Typed, dispatcherVars, callers, store, DispatcherTypeOK, WorkerFits, Saving, Tracked
  <1> QED BY <1>1, TypedCallers, TypedWorkers, TypedClosing, TypedCrash DEF DispatcherNext

-----------------------------------------------------------------------------
(* What the callers are told *)

LEMMA WorkerKeeps ==
  ASSUME Typed, NEW w \in Workers, WorkerStep(w)
  PROVE  /\ worker[w] \in WorkerStates /\ worker' \in [Workers -> WorkerStates]
         /\ \A v \in Workers \ {w} : worker'[v] = worker[v]
         /\ caller' = caller /\ answer' = answer /\ closing' = closing
         /\ received \subseteq received' /\ untracked \subseteq untracked'
         /\ faults \subseteq faults' /\ (disturbed => disturbed')
         /\ Take(w) \/ queue' = queue
         /\ Finish(w) \/ result' = result
         /\ Write(w) \/ WriteFails(w) \/ file' = file
  <1>1. worker[w] \in WorkerStates /\ worker' \in [Workers -> WorkerStates]
    BY TypedWorkers DEF Typed, DispatcherTypeOK
  <1>2. \A v \in Workers \ {w} : worker'[v] = worker[v]
    BY StepsBecome DEF WorkerStep, Becomes
  <1>3. caller' = caller /\ answer' = answer /\ closing' = closing
    BY DEF WorkerStep, Take, Exit, Reject, Track, GoUntracked, Write, WriteFails, Delivered,
       Missed, CountAttempt, Backoff, GiveUp, Finish, callers
  <1>4. received \subseteq received' /\ untracked \subseteq untracked'
    BY DEF WorkerStep, Take, Exit, Reject, Track, GoUntracked, Write, WriteFails, Delivered,
       Missed, CountAttempt, Backoff, GiveUp, Finish, store
  <1>5. faults \subseteq faults' /\ (disturbed => disturbed')
    <2>1. faults \subseteq faults'
      BY DEF WorkerStep, Take, Exit, Reject, Track, GoUntracked, Write, WriteFails, Delivered,
         Missed, CountAttempt, Backoff, GiveUp, Finish, Fault
    <2>2. ~disturbed' => ~disturbed
      <3>1. disturbed \in BOOLEAN
        BY DEF Typed, DispatcherTypeOK
      <3> QED BY <3>1 DEF WorkerStep, Take, Exit, Reject, Track, GoUntracked, Write, WriteFails,
             Delivered, Missed, CountAttempt, Backoff, GiveUp, Finish, store, SavingBeside
    <2> QED BY <2>1, <2>2
  <1>6. Take(w) \/ queue' = queue
    BY DEF WorkerStep, Exit, Reject, Track, GoUntracked, Write, WriteFails, Delivered,
       Missed, CountAttempt, Backoff, GiveUp, Finish
  <1>7. Finish(w) \/ result' = result
    BY DEF WorkerStep, Take, Exit, Reject, Track, GoUntracked, Write, WriteFails, Delivered,
       Missed, CountAttempt, Backoff, GiveUp, callers
  <1>8. Write(w) \/ WriteFails(w) \/ file' = file
    BY DEF WorkerStep, Take, Exit, Reject, Track, GoUntracked, Delivered,
       Missed, CountAttempt, Backoff, GiveUp, Finish, store
  <1> QED BY <1>1, <1>2, <1>3, <1>4, <1>5, <1>6, <1>7, <1>8

LEMMA CallerKeeps ==
  ASSUME NEW d \in Delivery, Call(d) \/ Cancel(d) \/ Caller(d)
  PROVE  /\ UNCHANGED <<result, worker, closing, received, records, file, untracked, disturbed, faults>>
         /\ Enqueue(d) \/ queue' = queue
  BY DEF Call, Cancel, Caller, Enqueue, Refuse, Await, store

LEMMA CloserKeeps ==
  ASSUME Close \/ Closer
  PROVE  /\ UNCHANGED <<caller, answer, worker, received, records, file, untracked, disturbed, faults>>
         /\ \/ queue # <<>> /\ queue' = Tail(queue)
               /\ result' = [result EXCEPT ![Head(queue)] = IF Head(queue) \in Sync THEN "error" ELSE @]
            \/ queue' = queue /\ result' = result
  BY DEF Close, Closer, Drain, Join, store, callers

LEMMA TruthfulNext == Typed /\ Truthful /\ [DispatcherNext]_dispatcherVars => Truthful'
  <1> SUFFICES ASSUME Typed, Truthful, [DispatcherNext]_dispatcherVars PROVE Truthful'
    OBVIOUS
  <1>0. DispatcherTypeOK
    BY DEF Typed
  <1>1. CASE UNCHANGED dispatcherVars
    BY <1>1 DEF Truthful, dispatcherVars, callers
  <1>2. ASSUME NEW d \in Delivery, Call(d) \/ Cancel(d) \/ Caller(d) PROVE Truthful'
    <2>1. \A c \in Delivery : caller'[c] # "returned" => answer'[c] = "none"
      BY <1>0, <1>2 DEF Truthful, Call, Cancel, Caller, Enqueue, Refuse, Await, Return, DispatcherTypeOK
    <2> QED BY <1>2, <2>1, CallerKeeps DEF Truthful
  <1>3. ASSUME NEW w \in Workers, WorkerStep(w) PROVE Truthful'
    <2> USE <1>3, WorkerKeeps
    <2>1. \A d \in Delivery : caller'[d] # "returned" => answer'[d] = "none"
      BY DEF Truthful
    <2>2. \A d \in Delivery : result'[d] = "ok" => d \in received'
      BY <1>0 DEF Truthful, Finish, Ready, DispatcherTypeOK
    <2>3. worker'[w].at \in {"delivered", "ok"} => worker'[w].task \in received'
      BY StepsBecome DEF Truthful, WorkerStep, Becomes, Delivered, CountAttempt, After, Write, WriteFails
    <2> QED BY <2>1, <2>2, <2>3 DEF Truthful
  <1>4. ASSUME Close \/ Closer PROVE Truthful'
    BY <1>0, <1>4, CloserKeeps DEF Truthful, DispatcherTypeOK
  <1>5. CASE Crash
    BY <1>0, <1>5 DEF Crash, Truthful, Idle, DispatcherTypeOK
  <1> QED BY <1>1, <1>2, <1>3, <1>4, <1>5 DEF DispatcherNext

-----------------------------------------------------------------------------
(* Where a delivery is *)

LEMMA Queued ==
  ASSUME NEW q \in Seq(Delivery)
  PROVE  /\ Len(q) \in Nat /\ \A i \in 1 .. Len(q) : q[i] \in Delivery
         /\ q # <<>> => /\ Len(Tail(q)) = Len(q) - 1 /\ Len(q) \in Nat \ {0}
                        /\ Head(q) = q[1]
                        /\ \A i \in 1 .. Len(Tail(q)) : Tail(q)[i] = q[i + 1]
  BY HeadTailProperties, LenProperties, ElementOfSeq

LEMMA OnePlaceWorker ==
  ASSUME Typed, OnePlace, NEW w \in Workers, WorkerStep(w)
  PROVE  OnePlace'
  <1> USE WorkerKeeps
  <1>0. worker \in [Workers -> WorkerStates] /\ queue \in Seq(Delivery) /\ NoDelivery \notin Delivery
    BY DispatcherAssumption DEF Typed, DispatcherTypeOK
  <1>1. CASE Take(w)
    <2> DEFINE h == Head(queue)
    <2>1. queue # <<>> /\ queue' = Tail(queue) /\ worker[w].at = "idle"
      BY <1>1 DEF Take
    <2>2. worker'[w].task = h /\ worker'[w].at = "validate"
      BY <1>1, StepsBecome DEF Becomes
    <2>3. /\ Len(queue) \in Nat \ {0} /\ Len(queue') = Len(queue) - 1 /\ h = queue[1] /\ h \in Delivery
          /\ \A i \in 1 .. Len(queue') : queue'[i] = queue[i + 1]
      BY <1>0, <2>1, Queued
    <2>4. InQueue(h)
      BY <2>3 DEF InQueue
    <2>5. \A d \in Delivery : InQueue(d)' => InQueue(d) /\ d # h
      <3> SUFFICES ASSUME NEW d \in Delivery, NEW i \in 1 .. Len(queue'), queue'[i] = d
                   PROVE  InQueue(d) /\ d # h
        BY DEF InQueue
      <3>1. i + 1 \in 1 .. Len(queue) /\ queue[i + 1] = d /\ 1 \in 1 .. Len(queue) /\ i + 1 # 1
        BY <2>3
      <3> QED BY <3>1, <2>3 DEF InQueue, OnePlace
    <2>6. \A i, j \in 1 .. Len(queue') : queue'[i] = queue'[j] => i = j
      <3> SUFFICES ASSUME NEW i \in 1 .. Len(queue'), NEW j \in 1 .. Len(queue'), queue'[i] = queue'[j]
                   PROVE  i = j
        OBVIOUS
      <3>1. i + 1 \in 1 .. Len(queue) /\ j + 1 \in 1 .. Len(queue) /\ queue[i + 1] = queue[j + 1]
        BY <2>3
      <3> QED BY <3>1 DEF OnePlace
    <2>7. \A d \in Delivery : InQueue(d)' => caller'[d] \notin {"idle", "submitting"}
      BY <2>5 DEF OnePlace
    <2>8. \A v \in Workers : worker'[v].at \notin Resting =>
            caller'[worker'[v].task] \notin {"idle", "submitting"} /\ ~InQueue(worker[v].task)'
      <3> SUFFICES ASSUME NEW v \in Workers, worker'[v].at \notin Resting
                   PROVE  caller'[worker'[v].task] \notin {"idle", "submitting"}
                          /\ ~InQueue(worker[v].task)'
        OBVIOUS
      <3>1. CASE v = w
        BY <3>1, <2>2, <2>3, <2>4, <2>5 DEF OnePlace
      <3>2. CASE v # w
        <4>1. worker'[v].task \in Delivery
          BY <3>2, <1>0 DEF Typed, WorkerFits, WorkerStates
        <4> QED BY <3>2, <4>1, <2>5 DEF OnePlace
      <3> QED BY <3>1, <3>2
    <2>9. \A u, v \in Workers : worker'[u].task = worker'[v].task /\ worker'[v].at \notin Resting => u = v
      <3> SUFFICES ASSUME NEW u \in Workers, NEW v \in Workers,
                          worker'[u].task = worker'[v].task, worker'[v].at \notin Resting
                   PROVE  u = v
        OBVIOUS
      <3>1. CASE u # w /\ v # w
        BY <3>1 DEF OnePlace
      <3>2. \A x \in Workers : worker[x].task # h
        BY <1>0, <2>3, <2>4 DEF OnePlace, Typed, WorkerFits
      <3> QED BY <3>1, <3>2, <2>2
    <2> QED BY <2>6, <2>7, <2>8, <2>9 DEF OnePlace
  <1>2. CASE ~Take(w)
    <2>1. queue' = queue
      BY <1>2
    <2>2. /\ worker'[w].at \notin Resting => worker[w].at \notin Resting /\ worker'[w].task = worker[w].task
          /\ worker'[w].task \in {worker[w].task, NoDelivery}
      BY <1>2, StepsBecome DEF WorkerStep, Becomes, Resting, Exit, Reject, Track, GoUntracked,
         Write, WriteFails, Delivered, Missed, CountAttempt, Backoff, GiveUp, Finish, Ready
    <2>3. \A v \in Workers : worker'[v].at \notin Resting => worker[v].at \notin Resting /\ worker'[v].task = worker[v].task
      BY <2>2
    <2>4. \A v \in Workers : worker[v].at \notin Resting => worker[v].task # NoDelivery
      BY DEF Typed, WorkerFits
    <2>5. \A u, v \in Workers : worker'[u].task = worker'[v].task /\ worker'[v].at \notin Resting => u = v
      BY <2>2, <2>3, <2>4 DEF OnePlace
    <2> QED BY <2>1, <2>3, <2>5 DEF OnePlace, InQueue
  <1> QED BY <1>1, <1>2

LEMMA OnePlaceNext == Typed /\ OnePlace /\ [DispatcherNext]_dispatcherVars => OnePlace'
  <1> SUFFICES ASSUME Typed, OnePlace, [DispatcherNext]_dispatcherVars PROVE OnePlace'
    OBVIOUS
  <1>0. /\ queue \in Seq(Delivery) /\ worker \in [Workers -> WorkerStates]
        /\ caller \in [Delivery -> {"idle", "submitting", "waiting", "returned", "lost"}]
    BY DEF Typed, DispatcherTypeOK
  <1>1. CASE UNCHANGED dispatcherVars
    BY <1>1 DEF OnePlace, InQueue, dispatcherVars, callers
  <1>2. ASSUME NEW d \in Delivery, Call(d) \/ Cancel(d) \/ Caller(d) PROVE OnePlace'
    <2>0. /\ worker' = worker
          /\ \A c \in Delivery : caller[c] \notin {"idle", "submitting"} =>
               caller'[c] \notin {"idle", "submitting"}
      BY <1>0, <1>2 DEF Call, Cancel, Caller, Enqueue, Refuse, Await, Return
    <2>1. \A w \in Workers : worker[w].at \notin Resting => worker[w].task \in Delivery
      BY <1>0 DEF Typed, WorkerFits, WorkerStates
    <2>2. CASE queue' = queue
      BY <1>0, <2>0, <2>1, <2>2, Queued DEF OnePlace, InQueue
    <2>3. CASE Enqueue(d)
      <3>1. /\ caller[d] = "submitting" /\ caller'[d] \notin {"idle", "submitting"}
            /\ Len(queue) \in Nat /\ Len(queue') = Len(queue) + 1
            /\ \A i \in 1 .. Len(queue) : queue'[i] = queue[i]
            /\ queue'[Len(queue) + 1] = d
        BY <1>0, <2>3, AppendProperties, LenProperties DEF Enqueue
      <3>2. ~InQueue(d)
        BY <3>1 DEF OnePlace
      <3>3. \A i \in 1 .. Len(queue') : i \in 1 .. Len(queue) \/ i = Len(queue) + 1
        BY <3>1
      <3>4. \A c \in Delivery : InQueue(c)' => InQueue(c) \/ c = d
        BY <3>1, <3>3 DEF InQueue
      <3>5. \A i, j \in 1 .. Len(queue') : queue'[i] = queue'[j] => i = j
        BY <3>1, <3>2, <3>3 DEF OnePlace, InQueue
      <3>6. \A w \in Workers : worker[w].at \notin Resting => worker[w].task # d
        BY <3>1 DEF OnePlace
      <3>7. \A w \in Workers : worker[w].at \notin Resting =>
              caller'[worker[w].task] \notin {"idle", "submitting"} /\ ~InQueue(worker[w].task)'
        <4> SUFFICES ASSUME NEW w \in Workers, worker[w].at \notin Resting
                     PROVE  caller'[worker[w].task] \notin {"idle", "submitting"}
                            /\ ~InQueue(worker[w].task)'
          OBVIOUS
        <4>1. worker[w].task \in Delivery /\ worker[w].task # d
          BY <2>1, <3>6
        <4>2. caller[worker[w].task] \notin {"idle", "submitting"} /\ ~InQueue(worker[w].task)
          BY DEF OnePlace
        <4>3. caller'[worker[w].task] \notin {"idle", "submitting"}
          BY <4>1, <4>2, <2>0
        <4>4. ~ \E i \in 1 .. Len(queue') : queue'[i] = worker[w].task
          BY <4>1, <4>2, <3>1, <3>3 DEF InQueue
        <4> QED BY <4>3, <4>4, <2>0 DEF InQueue
      <3> QED BY <2>0, <3>1, <3>4, <3>5, <3>7 DEF OnePlace
    <2> QED BY <1>2, <2>2, <2>3, CallerKeeps
  <1>3. ASSUME NEW w \in Workers, WorkerStep(w) PROVE OnePlace'
    BY <1>3, OnePlaceWorker
  <1>4. ASSUME Close \/ Closer PROVE OnePlace'
    <2>1. caller' = caller /\ worker' = worker
      BY <1>4, CloserKeeps
    <2>2. CASE queue' = queue
      BY <2>1, <2>2 DEF OnePlace, InQueue
    <2>3. CASE queue # <<>> /\ queue' = Tail(queue)
      <3>1. /\ Len(queue) \in Nat \ {0} /\ Len(queue') = Len(queue) - 1
            /\ \A i \in 1 .. Len(queue') : queue'[i] = queue[i + 1] /\ i + 1 \in 1 .. Len(queue)
        BY <1>0, <2>3, Queued
      <3>2. \A i, j \in 1 .. Len(queue') : queue'[i] = queue'[j] => i = j
        <4> SUFFICES ASSUME NEW i \in 1 .. Len(queue'), NEW j \in 1 .. Len(queue'), queue'[i] = queue'[j]
                     PROVE  i = j
          OBVIOUS
        <4>1. i + 1 \in 1 .. Len(queue) /\ j + 1 \in 1 .. Len(queue) /\ queue[i + 1] = queue[j + 1]
          BY <3>1
        <4> QED BY <4>1 DEF OnePlace
      <3>3. \A d : (\E i \in 1 .. Len(queue') : queue'[i] = d) => InQueue(d)
        BY <3>1 DEF InQueue
      <3> QED BY <2>1, <3>2, <3>3 DEF OnePlace, InQueue
    <2> QED BY <1>4, <2>2, <2>3, CloserKeeps
  <1>5. CASE Crash
    <2>1. queue' = <<>> /\ \A w \in Workers : worker'[w].at = "idle"
      BY <1>5 DEF Crash, Idle
    <2>2. \A d : ~InQueue(d)'
      BY <2>1 DEF InQueue
    <2> QED BY <2>1, <2>2 DEF OnePlace, Resting
  <1> QED BY <1>1, <1>2, <1>3, <1>4, <1>5 DEF DispatcherNext

-----------------------------------------------------------------------------
(* The records *)

\* A worker changes its task when it takes one and when it is done with it.
LEMMA TaskSteps ==
  ASSUME Typed, NEW w \in Workers, WorkerStep(w)
  PROVE  Take(w) \/ Finish(w) \/ worker'[w].task = worker[w].task
  BY StepsBecome DEF WorkerStep, Becomes

\* The task of a worker that is not resting belongs to no other.
LEMMA Alone ==
  ASSUME Typed, OnePlace, NEW w \in Workers, NEW v \in Workers, v # w,
         worker[w].at \notin Resting \/ worker[v].at \notin Resting
  PROVE  worker[v].task # worker[w].task
  BY DEF OnePlace, Typed, WorkerFits

LEMMA SettledNext == Typed /\ OnePlace /\ Settled /\ [DispatcherNext]_dispatcherVars => Settled'
  <1> SUFFICES ASSUME Typed, OnePlace, Settled, [DispatcherNext]_dispatcherVars PROVE Settled'
    OBVIOUS
  <1>0. worker \in [Workers -> WorkerStates]
    BY DEF Typed, DispatcherTypeOK
  <1>1. CASE worker' = worker /\ records' = records /\ untracked' = untracked
    BY <1>1 DEF Settled, Tracked
  <1>2. ASSUME NEW w \in Workers, WorkerStep(w) PROVE Settled'
    <2> DEFINE task == worker[w].task
               Done == {"delivered", "ok", "error"}
    <2>1. \A v \in Workers \ {w} : worker[v].at \in Done => records'[worker[v].task] = records[worker[v].task]
      <3> SUFFICES ASSUME NEW v \in Workers \ {w}, worker[v].at \in Done
                   PROVE  records'[worker[v].task] = records[worker[v].task]
        OBVIOUS
      <3>1. worker[v].task \in Delivery
        BY <1>0 DEF Typed, WorkerFits, Resting, WorkerStates
      <3>2. worker[v].task # task
        BY Alone DEF Resting
      <3> QED BY <1>2, <3>1, <3>2, RecordSteps
    <2>2. \A v \in Workers \ {w} :
            worker'[v].at \in Done /\ Tracked(worker[v].task)' => records'[worker'[v].task].status # "pending"
      BY <1>2, <2>1, WorkerKeeps DEF Settled, Tracked
    <2>3. worker'[w].at \in Done /\ Tracked(worker[w].task)' => records'[worker'[w].task].status # "pending"
      <3>0. worker'[w].at \in Done =>
              \/ Reject(w) \/ Delivered(w)
              \/ CountAttempt(w) /\ worker[w].at = "delivered"
              \/ GiveUp(w)
              \/ (Write(w) \/ WriteFails(w)) /\ worker[w].at \in Done
        BY <1>2, StepsBecome DEF WorkerStep, Becomes, After
      <3>1. CASE Reject(w)
        <4>1. worker'[w].task = task /\ task \in untracked'
          BY <3>1, StepsBecome DEF Becomes, Reject
        <4> QED BY <4>1 DEF Tracked
      <3>2. CASE Delivered(w)
        <4>1. worker'[w].task = task /\ untracked' = untracked
          BY <3>2, StepsBecome DEF Becomes, Delivered
        <4>2. CASE Tracked(task)
          <5>1. records' = [records EXCEPT ![task].status = "delivered"]
            BY <3>2, <4>2 DEF Delivered, SetStatus
          <5>2. task \in Delivery /\ records[task] \in Record /\ records \in Images
            BY <1>0, <3>2, <4>2 DEF Delivered, Ready, Typed, DispatcherTypeOK, WorkerFits, Resting, WorkerStates
          <5>3. records'[task].status = "delivered"
            BY <5>1, <5>2 DEF Images, Record
          <5> QED BY <4>1, <5>3
        <4> QED BY <4>1, <4>2 DEF Tracked
      <3>3. CASE CountAttempt(w) /\ worker[w].at = "delivered"
        <4>1. worker'[w].task = task /\ untracked' = untracked
          BY <3>3, StepsBecome DEF Becomes, CountAttempt
        <4>2. CASE Tracked(task)
          <5>1. records' = [records EXCEPT ![task] = MarkField(@, worker[w].attempt)]
            BY <3>3, <4>2 DEF CountAttempt
          <5>2. task \in Delivery /\ records[task] \in Record /\ records \in Images
            BY <1>0, <3>3, <4>2 DEF Typed, DispatcherTypeOK, WorkerFits, Resting, WorkerStates
          <5>3. records'[task].status = records[task].status
            BY <5>1, <5>2 DEF Images, Record, MarkField
          <5> QED BY <3>3, <4>1, <4>2, <5>3 DEF Settled
        <4> QED BY <4>1, <4>2 DEF Tracked
      <3>4. CASE GiveUp(w)
        <4>1. worker'[w].task = task /\ untracked' = untracked
          BY <3>4, StepsBecome DEF Becomes, GiveUp
        <4>2. CASE Tracked(task)
          <5>1. records' = [records EXCEPT ![task].status = "failed"]
            BY <3>4, <4>2 DEF GiveUp
          <5>2. task \in Delivery /\ records[task] \in Record /\ records \in Images
            BY <1>0, <3>4, <4>2 DEF GiveUp, Ready, Typed, DispatcherTypeOK, WorkerFits, Resting, WorkerStates
          <5>3. records'[task].status = "failed"
            BY <5>1, <5>2 DEF Images, Record
          <5> QED BY <4>1, <5>3
        <4> QED BY <4>1, <4>2 DEF Tracked
      <3>5. CASE (Write(w) \/ WriteFails(w)) /\ worker[w].at \in Done
        <4>1. worker'[w].task = task /\ records' = records /\ untracked \subseteq untracked'
          BY <1>2, <3>5, StepsBecome, WorkerKeeps DEF Becomes, Write, WriteFails
        <4> QED BY <3>5, <4>1 DEF Settled, Tracked
      <3> QED BY <3>0, <3>1, <3>2, <3>3, <3>4, <3>5
    <2> QED BY <2>2, <2>3 DEF Settled, Tracked
  <1>3. CASE Crash
    BY <1>3 DEF Crash, Settled, Idle
  <1> QED BY <1>1, <1>2, <1>3, CallerKeeps, CloserKeeps
      DEF DispatcherNext, dispatcherVars, store

LEMMA PendingNext ==
  Typed /\ Settled /\ PendingIsOwned /\ [DispatcherNext]_dispatcherVars => PendingIsOwned'
  <1> SUFFICES ASSUME Typed, Settled, PendingIsOwned, [DispatcherNext]_dispatcherVars
               PROVE  PendingIsOwned'
    OBVIOUS
  <1>0. worker \in [Workers -> WorkerStates]
    BY DEF Typed, DispatcherTypeOK
  <1>1. CASE worker' = worker /\ records' = records /\ untracked' = untracked /\ faults' = faults
    BY <1>1 DEF PendingIsOwned, Tracked
  <1>2. ASSUME NEW w \in Workers, WorkerStep(w) PROVE PendingIsOwned'
    <2> SUFFICES ASSUME NEW d \in Delivery, records'[d] # NoRecord, records'[d].status = "pending",
                        d \notin untracked', "crash" \notin faults'
                 PROVE  \E v \in Workers : worker'[v].task = d
      BY DEF PendingIsOwned, Tracked
    <2>1. d \notin untracked /\ "crash" \notin faults
      BY <1>2, WorkerKeeps
    <2>2. CASE d = worker[w].task
      <3>1. worker[w].at \notin Resting
        BY <2>2, DispatcherAssumption DEF Typed, WorkerFits
      <3>2. ~Take(w)
        BY <3>1 DEF Take, Resting
      <3>3. ~Finish(w)
        <4> SUFFICES ASSUME Finish(w) PROVE FALSE
          OBVIOUS
        <4>1. worker[w].at \in {"ok", "error"} /\ records' = records
          BY DEF Finish, Ready, store
        <4> QED BY <2>1, <2>2, <4>1 DEF Settled, Tracked
      <3> QED BY <1>2, <2>2, <3>2, <3>3, TaskSteps
    <2>3. CASE d # worker[w].task
      <3>1. records'[d] = records[d]
        BY <1>2, <2>3, RecordSteps
      <3>2. PICK v \in Workers : worker[v].task = d
        BY <2>1, <3>1 DEF PendingIsOwned, Tracked
      <3>3. worker'[v] = worker[v]
        BY <1>2, <2>3, <3>2, WorkerKeeps
      <3> QED BY <3>2, <3>3
    <2> QED BY <2>2, <2>3
  <1>3. CASE Crash
    BY <1>3 DEF Crash, Fault, PendingIsOwned
  <1> QED BY <1>1, <1>2, <1>3, CallerKeeps, CloserKeeps
      DEF DispatcherNext, dispatcherVars, store

\* A step that changes no record, writes no file and starts no save.
LEMMA FileStays ==
  ASSUME FileFollows, records' = records, file' = file, ~disturbed' => ~disturbed,
         \A w \in Workers : worker'[w].image = worker[w].image,
         \A d \in Delivery : Unsaved(d) => Unsaved(d)'
  PROVE  FileFollows'
  BY DEF FileFollows, Follows, Saving

LEMMA SaveStarts ==
  ASSUME Typed, NEW w \in Workers, SavingBeside(w), records' \in Images,
         worker'[w].image = records', \A v \in Workers \ {w} : worker'[v] = worker[v]
  PROVE  FileFollows'
  <1> SUFFICES ASSUME ~disturbed' PROVE FileFollows'
    BY DEF FileFollows
  <1>1. \A v \in Workers \ {w} : ~Saving(v)
    BY DEF SavingBeside, Saving
  <1>2. \A v \in Workers : Saving(v)' => v = w
    BY <1>1 DEF Saving
  <1>3. Saving(w)'
    BY ImageAssumption DEF Saving
  <1>4. Follows(worker[w].image)'
    BY DEF Follows
  <1> QED BY <1>2, <1>3, <1>4 DEF FileFollows

LEMMA FileWorker ==
  ASSUME Typed, OnePlace, FileFollows, NEW w \in Workers, WorkerStep(w)
  PROVE  FileFollows'
  <1> DEFINE task == worker[w].task
  <1>0. /\ worker \in [Workers -> WorkerStates] /\ worker[w] \in WorkerStates
        /\ records \in Images /\ records' \in Images
    BY RecordSteps DEF Typed, DispatcherTypeOK
  <1>1. /\ \A v \in Workers \ {w} : worker'[v] = worker[v]
        /\ untracked \subseteq untracked' /\ (~disturbed' => ~disturbed)
    BY WorkerKeeps
  <1>2. CASE Track(w)
    <2>1. worker'[w].image = records' /\ SavingBeside(w)
      BY <1>2, StepsBecome DEF Becomes, Track
    <2> QED BY <1>0, <1>1, <2>1, SaveStarts
  <1>3. CASE (CountAttempt(w) \/ GiveUp(w)) /\ Tracked(task)
    <2>1. worker'[w].image = records' /\ SavingBeside(w)
      BY <1>3, StepsBecome DEF Becomes, CountAttempt, GiveUp
    <2> QED BY <1>0, <1>1, <2>1, SaveStarts
  <1>4. CASE (CountAttempt(w) \/ GiveUp(w)) /\ ~Tracked(task)
    <2>1. /\ worker'[w].image = worker[w].image /\ records' = records /\ file' = file
          /\ untracked' = untracked
      BY <1>4, StepsBecome DEF Becomes, CountAttempt, GiveUp
    <2>2. \A d \in Delivery : Unsaved(d) => Unsaved(d)'
      BY <1>1, <1>4, <2>1 DEF Unsaved, Tracked
    <2> QED BY <1>1, <2>1, <2>2, FileStays
  <1>5. CASE Reject(w) \/ GoUntracked(w)
    <2>1. /\ worker'[w].image = worker[w].image /\ records' = records /\ file' = file
          /\ untracked' = untracked \cup {task} /\ worker[w].at = "validate"
      BY <1>5, StepsBecome DEF Becomes, Reject, GoUntracked
    <2>2. \A d \in Delivery : Unsaved(d) => Unsaved(d)'
      <3> SUFFICES ASSUME NEW d \in Delivery, NEW v \in Workers,
                          worker[v].at = "delivered", worker[v].task = d, d \notin untracked
                   PROVE  Unsaved(d)'
        BY DEF Unsaved, Tracked
      <3>1. v # w
        BY <2>1
      <3>2. d # task
        BY <3>1, Alone DEF Resting
      <3> QED BY <1>1, <2>1, <3>1, <3>2 DEF Unsaved, Tracked
    <2> QED BY <1>1, <2>1, <2>2, FileStays
  <1>6. CASE Take(w) \/ Exit(w) \/ Missed(w) \/ Backoff(w) \/ Finish(w)
    <2>1. /\ worker'[w].image = worker[w].image /\ records' = records /\ file' = file
          /\ untracked' = untracked /\ worker[w].at # "delivered"
      BY <1>6, StepsBecome DEF Becomes, Take, Exit, Missed, Backoff, Finish, Ready, store,
         Typed, WorkerFits, Saving, Resting
    <2>2. \A d \in Delivery : Unsaved(d) => Unsaved(d)'
      BY <1>1, <2>1 DEF Unsaved, Tracked
    <2> QED BY <1>1, <2>1, <2>2, FileStays
  <1>7. CASE Delivered(w)
    <2>1. /\ worker'[w].image = worker[w].image /\ worker'[w].at = "delivered"
          /\ worker'[w].task = task /\ file' = file
          /\ untracked' = untracked /\ disturbed' = disturbed /\ worker[w].at = "attempt"
      BY <1>7, StepsBecome DEF Becomes, Delivered, Ready
    <2>2. \A d \in Delivery : Unsaved(d) => Unsaved(d)'
      BY <1>1, <2>1 DEF Unsaved, Tracked
    <2>3. \A d \in Delivery : records'[d] = records[d] \/ Unsaved(d)'
      <3>1. CASE Tracked(task)
        <4>1. \A d \in Delivery : d = task => Unsaved(d)'
          BY <2>1, <3>1 DEF Unsaved, Tracked
        <4> QED BY <4>1, RecordSteps
      <3>2. CASE ~Tracked(task)
        BY <1>7, <3>2 DEF Delivered, SetStatus
      <3> QED BY <3>1, <3>2
    <2>4. \A v \in Workers : worker'[v].image = worker[v].image
      BY <1>1, <2>1
    <2> QED BY <2>1, <2>2, <2>3, <2>4 DEF FileFollows, Follows, Saving
  <1>8. CASE Write(w)
    <2>1. /\ worker'[w].image = NoImage /\ worker'[w].at = worker[w].at
          /\ worker'[w].task = task /\ records' = records /\ untracked' = untracked
          /\ disturbed' = disturbed /\ file' = worker[w].image /\ Saving(w)
      BY <1>8, StepsBecome DEF Becomes, Write, Saving
    <2> SUFFICES ASSUME ~disturbed' PROVE FileFollows'
      BY DEF FileFollows
    <2>2. \A v \in Workers : ~Saving(v)'
      BY <1>1, <2>1 DEF FileFollows, Saving
    <2>3. \A d \in Delivery : Unsaved(d) => Unsaved(d)'
      BY <1>1, <2>1 DEF Unsaved, Tracked
    <2>4. Follows(file)'
      BY <2>1, <2>3 DEF FileFollows, Follows
    <2> QED BY <2>2, <2>4 DEF FileFollows
  <1>9. CASE WriteFails(w)
    BY <1>9 DEF WriteFails, FileFollows
  <1> QED BY <1>2, <1>3, <1>4, <1>5, <1>6, <1>7, <1>8, <1>9 DEF WorkerStep

LEMMA FileNext ==
  Typed /\ OnePlace /\ FileFollows /\ [DispatcherNext]_dispatcherVars => FileFollows'
  <1> SUFFICES ASSUME Typed, OnePlace, FileFollows, [DispatcherNext]_dispatcherVars
               PROVE  FileFollows'
    OBVIOUS
  <1>1. CASE UNCHANGED <<worker, records, file, untracked, disturbed>>
    BY <1>1 DEF FileFollows, Follows, Saving, Unsaved, Tracked
  <1>2. CASE Crash
    <2>1. /\ disturbed' = (file' = TornFile) /\ \A w \in Workers : worker'[w].image = NoImage
          /\ file' # TornFile => records' = file'
      BY <1>2 DEF Crash, Idle
    <2> QED BY <2>1 DEF FileFollows, Follows, Saving
  <1> QED BY <1>1, <1>2, FileWorker, CallerKeeps, CloserKeeps
      DEF DispatcherNext, dispatcherVars, store

-----------------------------------------------------------------------------
(* Theorems *)

LEMMA InvNext == Inv /\ [DispatcherNext]_dispatcherVars => Inv'
  BY TypedNext, TruthfulNext, OnePlaceNext, SettledNext, PendingNext, FileNext DEF Inv

LEMMA Invariance == DispatcherSpec => []Inv
  BY InitInv, InvNext, PTL DEF DispatcherSpec

\* Every variable keeps to its values: the queue never holds more than its
\* capacity, no attempt is made beyond MaxRetries, a record that is changed
\* through its pointer is a record that exists (NewDispatcher, runWorker,
\* dispatchWithRetry).
THEOREM TypeCorrect == DispatcherSpec => []DispatcherTypeOK
  <1>1. Inv => DispatcherTypeOK
    BY DEF Inv, Typed
  <1> QED BY <1>1, Invariance, PTL

\* No record is forgotten, in memory or in the file: one that says pending has
\* a worker or was left by an earlier process, and a quiet store is on disk unless
\* saves overlapped or a write failed (dispatchWithRetry, Store.Save).
THEOREM RecordsSoundHolds == DispatcherSpec => []RecordsSound
  <1>1. Inv => RecordsSound
    <2> SUFFICES ASSUME Inv PROVE RecordsSound
      OBVIOUS
    <2>1. SavedWhenQuiet
      <3> SUFFICES ASSUME ~disturbed,
                          \A w \in Workers : worker[w].image = NoImage /\ worker[w].at # "delivered"
                   PROVE  file = records
        BY DEF SavedWhenQuiet
      <3>1. file \in Images /\ records \in Images
        BY DEF Inv, Typed, DispatcherTypeOK
      <3>2. \A d \in Delivery : file[d] = records[d]
        BY DEF Inv, FileFollows, Follows, Saving, Unsaved
      <3> QED BY <3>1, <3>2 DEF Images
    <2> QED BY <2>1 DEF Inv, RecordsSound
  <1> QED BY <1>1, Invariance, PTL

LEMMA ContractStep ==
  Inv /\ [DispatcherNext]_dispatcherVars => [Contract!ContractNext]_(Contract!contract)
  <1> SUFFICES ASSUME Inv, [DispatcherNext]_dispatcherVars
               PROVE  Contract!ContractNext \/ (answer' = answer /\ received' = received)
    BY DEF Contract!contract
  <1>0. Typed /\ Truthful /\ DispatcherTypeOK
    BY DEF Inv, Typed
  <1>1. CASE UNCHANGED dispatcherVars
    BY <1>1 DEF dispatcherVars, callers
  <1>2. ASSUME NEW d \in Delivery, Call(d) \/ Cancel(d) \/ Caller(d)
        PROVE  Contract!ContractNext \/ (answer' = answer /\ received' = received)
    <2>1. CASE answer' = answer
      BY <1>2, <2>1, CallerKeeps
    <2>2. ASSUME NEW verdict \in {"ok", "error"}, Return(d, verdict), caller[d] # "returned",
                 verdict = "ok" => d \in received
          PROVE  Contract!ContractNext
      <3>1. answer[d] = "none" /\ answer' = [answer EXCEPT ![d] = verdict] /\ received' = received
        BY <1>0, <1>2, <2>2, CallerKeeps DEF Truthful, Return
      <3> QED BY <2>2, <3>1 DEF Contract!ContractNext, Contract!AnswerOK, Contract!AnswerError,
             Contract!Answered
    <2>3. CASE Return(d, "error") /\ caller[d] # "returned"
      BY <2>2, <2>3
    <2>4. CASE Return(d, result[d]) /\ result[d] # "none" /\ caller[d] # "returned"
      <3>1. result[d] \in {"ok", "error"} /\ (result[d] = "ok" => d \in received)
        BY <1>0, <2>4 DEF Truthful, DispatcherTypeOK
      <3> QED BY <2>2, <2>4, <3>1
    <2> QED BY <1>2, <2>1, <2>3, <2>4 DEF Call, Cancel, Caller, Enqueue, Refuse, Await
  <1>3. ASSUME NEW w \in Workers, WorkerStep(w)
        PROVE  Contract!ContractNext \/ (answer' = answer /\ received' = received)
    <2>1. answer' = answer
      BY <1>0, <1>3, WorkerKeeps
    <2>2. CASE Delivered(w)
      <3>1. worker[w].task \in Delivery
        BY <1>0, <2>2 DEF Delivered, Ready, Typed, DispatcherTypeOK, WorkerFits, Resting, WorkerStates
      <3>2. Contract!Receive(worker[w].task)
        BY <2>1, <2>2 DEF Delivered, Contract!Receive
      <3> QED BY <3>1, <3>2 DEF Contract!ContractNext
    <2>3. Delivered(w) \/ received' = received
      BY <1>3 DEF WorkerStep, Take, Exit, Reject, Track, GoUntracked, Write, WriteFails,
         Missed, CountAttempt, Backoff, GiveUp, Finish
    <2> QED BY <2>1, <2>2, <2>3
  <1>4. CASE Close \/ Closer
    BY <1>4, CloserKeeps
  <1>5. CASE Crash
    BY <1>5 DEF Crash
  <1> QED BY <1>1, <1>2, <1>3, <1>4, <1>5 DEF DispatcherNext

\* The dispatcher implements the contract with its callers: each is answered
\* once, and told "ok" only if the receiver accepted the event, through any
\* retries, cancellations, Close and crashes (submit, runWorker,
\* dispatchWithRetry).
THEOREM KeepsContractHolds == DispatcherSpec => KeepsContract
  <1>1. DispatcherInit => Contract!ContractInit
    BY DEF DispatcherInit, Contract!ContractInit
  <1> QED BY <1>1, ContractStep, Invariance, PTL
      DEF DispatcherSpec, KeepsContract, Contract!ContractSpec

=============================================================================
