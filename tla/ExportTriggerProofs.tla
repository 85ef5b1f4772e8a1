------------------------ MODULE ExportTriggerProofs ------------------------
(***************************************************************************)
(* Theorems about ExportTrigger, for every number of jobs, schedules and   *)
(* exports, every capacity and every number of retries.                    *)
(*                                                                         *)
(* As long as nothing fails and the two stores do not overlap, a store     *)
(* that writes holds the history as it is: an export never leaves its      *)
(* record pending, and HasExported finds the record of every export of a   *)
(* job that ended well, so that only exports under way are doubled.        *)
(***************************************************************************)
EXTENDS MCDelivery, WebhookDispatcherProofs

-----------------------------------------------------------------------------
(* Types                                                                   *)

\* Who is between load and save is at a step that writes, in its own store.
Owners ==
  \A s \in Stores : instance[s].owner # NoExport =>
    /\ instance[s].owner \in AllExports /\ Writes(instance[s].owner)
    /\ StoreOf(instance[s].owner) = s
    /\ instance[s].image \in Histories

\* Nothing is to be done for no event, and an export that has not begun is
\* nobody's.
Unbegun ==
  /\ todo.job = Absent => todo.left = {}
  /\ \A e \in Export : export[e].at = "none" => export[e].job = Absent

ExportTyped == TriggerTypeOK /\ Owners /\ Unbegun

\* What most steps of an export do: it goes on to another step.
Goes(e, at) == export' = [export EXCEPT ![e].at = at]

LEMMA GoesTo ==
  ASSUME ExportTyped, NEW e \in AllExports,
         NEW at \in {"create", "attempt", "succeed", "fail", "delay", "done"}, Goes(e, at)
  PROVE  /\ export' \in [AllExports -> ExportStates]
         /\ export'[e].at = at /\ export'[e].job = export[e].job
         /\ export'[e].schedule = export[e].schedule
         /\ \A f \in AllExports \ {e} : export'[f] = export[f]
  BY DEF ExportTyped, TriggerTypeOK, ExportStates, Goes

\* An export that has its turn in the store.
SavedTo(e, at, retries) ==
  export' = [export EXCEPT ![e].at = at, ![e].retries = retries]

LEMMA SavedStep ==
  ASSUME ExportTyped, NEW e \in AllExports, NEW ok \in BOOLEAN, Writes(e), GoOn(e, ok)
  PROVE  /\ export' \in [AllExports -> ExportStates]
         /\ export'[e].at = AfterStep(e, ok) /\ export'[e].job = export[e].job
         /\ export'[e].at \in {"attempt", "fail", "increment", "delay", "done"}
         /\ export'[e].schedule = export[e].schedule
         /\ \A f \in AllExports \ {e} : export'[f] = export[f]
  <1> DEFINE at == AfterStep(e, ok)
             retries == IF at = "increment" THEN export[e].retries + 1 ELSE export[e].retries
  <1>1. export[e] \in ExportStates /\ export[e].at \in {"create", "succeed", "fail", "increment"}
    BY DEF ExportTyped, TriggerTypeOK, Writes
  <1>2. at \in {"attempt", "fail", "increment", "delay", "done"}
    BY <1>1 DEF AfterStep, Retry
  <1>3. at = "increment" => export[e].retries < MaxExportRetries
    BY <1>1 DEF AfterStep, Retry
  <1>4. retries \in 0 .. MaxExportRetries
    BY <1>1, <1>3, TriggerAssumption DEF ExportStates
  <1>5. SavedTo(e, at, retries)
    BY DEF GoOn, SavedTo
  <1> HIDE DEF at, retries
  <1>6. /\ export' \in [AllExports -> ExportStates]
        /\ export'[e].at = at /\ export'[e].job = export[e].job
        /\ export'[e].schedule = export[e].schedule
        /\ \A f \in AllExports \ {e} : export'[f] = export[f]
    BY <1>2, <1>4, <1>5 DEF ExportTyped, TriggerTypeOK, ExportStates, SavedTo
  <1> QED BY <1>2, <1>6 DEF at

LEMMA Launched ==
  ASSUME ExportTyped, NEW s \in Schedule, NEW j \in Job, Launch(s, j)
  PROVE  \E e \in Export :
           /\ export[e].at = "none"
           /\ export'[e] = [at |-> "create", job |-> j, schedule |-> s, retries |-> 0]
           /\ \A f \in AllExports \ {e} : export'[f] = export[f]
           /\ export' \in [AllExports -> ExportStates]
           /\ racing' = racing \cup {f \in {e} : \E g \in Of(s, j) : Live(g)}
  <1>1. NextExport \in Export /\ export[NextExport].at = "none"
    BY DEF Launch, NextExport
  <1> DEFINE e == NextExport
             fresh == [at |-> "create", job |-> j, schedule |-> s, retries |-> 0]
  <1>2. /\ export' = [export EXCEPT ![e] = fresh]
        /\ racing' = racing \cup {f \in {e} : \E g \in Of(s, j) : Live(g)}
    BY DEF Launch
  <1>3. fresh \in ExportStates
    BY TriggerAssumption DEF ExportStates
  <1> HIDE DEF e, fresh
  <1>4. e \in Export /\ e \in AllExports /\ export[e].at = "none"
    BY <1>1 DEF e, AllExports
  <1>5. /\ export'[e] = fresh /\ export' \in [AllExports -> ExportStates]
        /\ \A f \in AllExports \ {e} : export'[f] = export[f]
    BY <1>2, <1>3, <1>4 DEF ExportTyped, TriggerTypeOK
  <1> QED BY <1>2, <1>4, <1>5 DEF fresh

\* The steps of an export that do not write.
LEMMA GoOnSteps ==
  ASSUME NEW e \in AllExports,
         NoDestination(e) \/ Attempt(e) \/ Delay(e) \/ (e \in DirectExport /\ DirectRequest(e))
  PROVE  /\ UNCHANGED <<published, eventCh, todo, history, instance, stopping, env>>
         /\ \/ export[e].at = "create" /\ e \in Export /\ Goes(e, "done")
               /\ instance["trigger"].owner # e
            \/ export[e].at = "attempt" /\ (Goes(e, "succeed") \/ Goes(e, "fail"))
            \/ export[e].at = "delay" /\ (Goes(e, "attempt") \/ Goes(e, "done"))
            \/ export[e].at = "none" /\ e \in DirectExport /\ (Goes(e, "create") \/ Goes(e, "done"))
  BY DEF NoDestination, Attempt, Delay, DirectRequest, Goes

LEMMA GoOnKeepsTyped ==
  ASSUME ExportTyped, NEW e \in AllExports,
         NoDestination(e) \/ Attempt(e) \/ Delay(e) \/ (e \in DirectExport /\ DirectRequest(e))
  PROVE  ExportTyped'
  <1>1. PICK at \in {"create", "attempt", "succeed", "fail", "done"} : Goes(e, at)
    BY GoOnSteps
  <1>2. /\ export' \in [AllExports -> ExportStates]
        /\ export'[e].at = at /\ export'[e].job = export[e].job
        /\ \A f \in AllExports \ {e} : export'[f] = export[f]
    BY <1>1, GoesTo
  <1>3. UNCHANGED <<published, eventCh, todo, history, instance, stopping, env>>
    BY GoOnSteps
  <1>4. TriggerTypeOK'
    BY <1>2, <1>3 DEF ExportTyped, TriggerTypeOK, env
  <1>5. \A s \in Stores : instance[s].owner # e
    <2>1. CASE export[e].at = "create" /\ e \in Export /\ instance["trigger"].owner # e
      BY <2>1, TriggerAssumption DEF ExportTyped, Owners, StoreOf, AllExports
    <2>2. CASE export[e].at \in {"attempt", "delay", "none"}
      BY <2>2, TriggerAssumption DEF ExportTyped, Owners, Writes, AllExports
    <2> QED BY <2>1, <2>2, GoOnSteps
  <1>6. Owners'
    BY <1>2, <1>3, <1>5 DEF ExportTyped, Owners, Writes
  <1>7. Unbegun'
    BY <1>2, <1>3, TriggerAssumption DEF ExportTyped, Unbegun, AllExports
  <1> QED BY <1>4, <1>6, <1>7 DEF ExportTyped

LEMMA LoadKeepsTyped ==
  ASSUME ExportTyped, NEW e \in AllExports, Load(e)
  PROVE  ExportTyped'
  <1> DEFINE s == StoreOf(e)
             held == [owner |-> e, image |-> history]
  <1>1. s \in Stores /\ held \in StoreStates /\ history \in Histories
    BY DEF ExportTyped, TriggerTypeOK, StoreStates, StoreOf, Stores
  <1>2. instance' = [instance EXCEPT ![s] = held]
    BY DEF Load
  <1> HIDE DEF s
  <1>3. instance' \in [Stores -> StoreStates]
    BY <1>1, <1>2 DEF ExportTyped, TriggerTypeOK
  <1>4. overlapped' \in BOOLEAN
    BY DEF ExportTyped, TriggerTypeOK, Load, OtherAtWork
  <1>5. TriggerTypeOK'
    BY <1>3, <1>4 DEF ExportTyped, TriggerTypeOK, Load
  <1>6. Owners'
    <2>1. instance'[s] = held /\ \A r \in Stores \ {s} : instance'[r] = instance[r]
      BY <1>1, <1>2 DEF ExportTyped, TriggerTypeOK
    <2>2. Writes(e) /\ UNCHANGED export
      BY DEF Load
    <2> QED BY <1>1, <2>1, <2>2 DEF ExportTyped, Owners, Writes, s
  <1>7. Unbegun'
    BY DEF ExportTyped, Unbegun, Load
  <1> QED BY <1>5, <1>6, <1>7 DEF ExportTyped

LEMMA LoadFailsKeepsTyped ==
  ASSUME ExportTyped, NEW e \in AllExports, LoadFails(e)
  PROVE  ExportTyped'
  <1>1. /\ export' \in [AllExports -> ExportStates] /\ export'[e].job = export[e].job
        /\ export'[e].at \in {"attempt", "fail", "increment", "delay", "done"}
        /\ \A f \in AllExports \ {e} : export'[f] = export[f]
    BY SavedStep DEF LoadFails
  <1>2. overlapped' \in BOOLEAN
    BY DEF ExportTyped, TriggerTypeOK, LoadFails, OtherAtWork
  <1>3. TriggerTypeOK'
    BY <1>1, <1>2 DEF ExportTyped, TriggerTypeOK, LoadFails
  <1>4. \A s \in Stores : instance[s].owner # e
    BY TriggerAssumption DEF ExportTyped, Owners, LoadFails, AllExports
  <1>5. Owners'
    BY <1>1, <1>4 DEF ExportTyped, Owners, Writes, LoadFails
  <1>6. Unbegun'
    BY <1>1 DEF ExportTyped, Unbegun, AllExports, LoadFails
  <1> QED BY <1>3, <1>5, <1>6 DEF ExportTyped

\* What a save leaves of the two stores.
LEMMA SavedFrees ==
  ASSUME ExportTyped, NEW e \in AllExports, NEW ok \in BOOLEAN,
         instance[StoreOf(e)].owner = e, Save(e, ok)
  PROVE  /\ Writes(e) /\ instance' \in [Stores -> StoreStates]
         /\ instance'[StoreOf(e)] = Free
         /\ \A s \in Stores \ {StoreOf(e)} : instance'[s] = instance[s] /\ instance'[s].owner # e
         /\ instance[StoreOf(e)].image \in Histories
  <1>1. StoreOf(e) \in Stores /\ e # NoExport /\ Free \in StoreStates
    BY TriggerAssumption DEF StoreOf, Stores, Free, StoreStates, AllExports
  <1>2. Writes(e) /\ instance[StoreOf(e)].image \in Histories
    BY <1>1 DEF ExportTyped, Owners
  <1>3. instance' = [instance EXCEPT ![StoreOf(e)] = Free]
    BY DEF Save
  <1>4. /\ instance' \in [Stores -> StoreStates] /\ instance'[StoreOf(e)] = Free
        /\ \A s \in Stores \ {StoreOf(e)} : instance'[s] = instance[s]
    BY <1>1, <1>3 DEF ExportTyped, TriggerTypeOK
  <1>5. \A s \in Stores \ {StoreOf(e)} : instance[s].owner # e
    BY <1>1 DEF ExportTyped, Owners
  <1> QED BY <1>2, <1>4, <1>5

LEMMA EditedType ==
  ASSUME NEW e \in AllExports, NEW image \in Histories, Writes(e)
  PROVE  Edited(e, image) \in Histories
  <1>1. CASE export[e].at = "increment"
    BY <1>1 DEF Edited
  <1>2. CASE export[e].at \in {"create", "succeed", "fail"}
    <2>1. StatusOf[export[e].at] \in {"pending", "succeeded", "failed"}
      BY <1>2 DEF StatusOf
    <2> DEFINE status == StatusOf[export[e].at]
    <2>2. Edited(e, image) = [image EXCEPT ![e] = status]
      BY <1>2 DEF Edited
    <2> HIDE DEF status
    <2>3. status \in {"pending", "succeeded", "failed"}
      BY <2>1 DEF status
    <2> QED BY <2>2, <2>3 DEF Histories
  <1> QED BY <1>1, <1>2 DEF Writes

LEMMA CommitSteps ==
  ASSUME NEW e, Commit(e) \/ CommitFails(e)
  PROVE  /\ instance[StoreOf(e)].owner = e
         /\ \E ok \in BOOLEAN : Save(e, ok)
         /\ UNCHANGED <<published, eventCh, todo, stopping, overlapped, racing>>
  <1>1. Found(e, instance[StoreOf(e)].image) \in BOOLEAN
    BY DEF Found
  <1> QED BY <1>1 DEF Commit, CommitFails

LEMMA MishapBound ==
  ASSUME ExportTyped, NEW kind \in {"crash", "disk"}, Mishap(kind)
  PROVE  mishaps' \subseteq {"crash", "disk"} /\ Cardinality(mishaps') <= MaxMishaps
  <1>1. IsFiniteSet({"crash"} \cup {"disk"})
    BY FS_Singleton, FS_AddElement
  <1>2. mishaps \in SUBSET ({"crash"} \cup {"disk"})
    BY DEF ExportTyped, TriggerTypeOK
  <1>3. IsFiniteSet(mishaps) /\ Cardinality(mishaps) \in Nat
    BY <1>1, <1>2, FS_Subset, FS_CardinalityType
  <1>4. Cardinality(mishaps \cup {kind}) = Cardinality(mishaps) + 1
    BY <1>3, FS_AddElement DEF Mishap
  <1> QED BY <1>2, <1>3, <1>4, TriggerAssumption DEF Mishap

LEMMA CommitKeepsTyped ==
  ASSUME ExportTyped, NEW e \in AllExports, Commit(e) \/ CommitFails(e)
  PROVE  ExportTyped'
  <1>1. PICK ok \in BOOLEAN : Save(e, ok)
    BY CommitSteps
  <1>2. /\ instance[StoreOf(e)].owner = e
        /\ UNCHANGED <<published, eventCh, todo, stopping, overlapped, racing>>
    BY CommitSteps
  <1>3. /\ Writes(e) /\ instance' \in [Stores -> StoreStates]
        /\ instance'[StoreOf(e)] = Free
        /\ \A s \in Stores \ {StoreOf(e)} : instance'[s] = instance[s] /\ instance'[s].owner # e
        /\ instance[StoreOf(e)].image \in Histories
    BY <1>1, <1>2, SavedFrees
  <1>4. /\ export' \in [AllExports -> ExportStates] /\ export'[e].job = export[e].job
        /\ export'[e].at \in {"attempt", "fail", "increment", "delay", "done"}
        /\ \A f \in AllExports \ {e} : export'[f] = export[f]
    BY <1>1, <1>3, SavedStep DEF Save
  <1>5. history' \in Histories /\ mishaps' \subseteq {"crash", "disk"}
        /\ Cardinality(mishaps') <= MaxMishaps /\ torn' \in BOOLEAN
    <2>1. CASE Commit(e)
      <3>1. /\ UNCHANGED mishaps
            /\ history' = history \/ history' = Edited(e, instance[StoreOf(e)].image)
        BY <2>1 DEF Commit
      <3>2. Edited(e, instance[StoreOf(e)].image) \in Histories
        BY <1>3, EditedType
      <3>3. history' \in Histories
        BY <3>1, <3>2 DEF ExportTyped, TriggerTypeOK
      <3>4. torn' \in BOOLEAN
        BY <2>1 DEF ExportTyped, TriggerTypeOK, Commit, Found
      <3> QED BY <3>1, <3>3, <3>4 DEF ExportTyped, TriggerTypeOK
    <2>2. CASE CommitFails(e)
      BY <2>2, MishapBound DEF CommitFails, ExportTyped, TriggerTypeOK
    <2> QED BY <2>1, <2>2
  <1>6. TriggerTypeOK'
    BY <1>2, <1>3, <1>4, <1>5 DEF ExportTyped, TriggerTypeOK
  <1>7. Owners'
    <2> SUFFICES ASSUME NEW s \in Stores, NEW f, f = instance'[s].owner, f # NoExport
                 PROVE  /\ f \in AllExports /\ Writes(f)' /\ StoreOf(f) = s
                        /\ instance'[s].image \in Histories
      BY DEF Owners, Writes
    <2>1. s # StoreOf(e)
      BY <1>3 DEF Free
    <2>2. instance'[s] = instance[s] /\ instance[s].owner # e
      BY <1>3, <2>1
    <2>3. f \in AllExports /\ Writes(f) /\ StoreOf(f) = s /\ instance[s].image \in Histories
      BY <2>2 DEF ExportTyped, Owners
    <2>4. export'[f] = export[f]
      BY <1>4, <2>2, <2>3
    <2> QED BY <2>2, <2>3, <2>4 DEF Writes
  <1>8. Unbegun'
    BY <1>2, <1>4 DEF ExportTyped, Unbegun, AllExports
  <1> QED BY <1>6, <1>7, <1>8 DEF ExportTyped

LEMMA EventKeepsTyped ==
  ASSUME ExportTyped, (\E j \in Job : HandleJobEvent(j)) \/ ProcessEvent \/ EndEvent
  PROVE  ExportTyped'
  <1>0. /\ eventCh \in Seq(Job) /\ Len(eventCh) \in Nat /\ Len(eventCh) <= EventCapacity
        /\ EventCapacity \in Nat
    BY LenProperties, TriggerAssumption DEF ExportTyped, TriggerTypeOK
  <1>1. CASE \E j \in Job : HandleJobEvent(j)
    <2>1. PICK j \in Job : HandleJobEvent(j)
      BY <1>1
    <2>2. published' \in [Job -> 0 .. MaxEvents]
      BY <2>1, TriggerAssumption DEF HandleJobEvent, ExportTyped, TriggerTypeOK
    <2>3. eventCh' \in Seq(Job) /\ Len(eventCh') <= EventCapacity
      BY <1>0, <2>1, AppendProperties DEF HandleJobEvent
    <2> QED BY <2>1, <2>2, <2>3
            DEF HandleJobEvent, ExportTyped, TriggerTypeOK, Owners, Writes, Unbegun, env
  <1>2. CASE ProcessEvent
    <2>1. /\ Head(eventCh) \in Job /\ Tail(eventCh) \in Seq(Job)
          /\ Len(Tail(eventCh)) = Len(eventCh) - 1
      BY <1>0, <1>2, HeadTailProperties DEF ProcessEvent
    <2>2. todo' \in [job : Job \cup {Absent}, left : SUBSET Schedule] /\ todo'.job # Absent
      BY <1>2, <2>1, TriggerAssumption DEF ProcessEvent
    <2> QED BY <1>0, <1>2, <2>1, <2>2
            DEF ProcessEvent, ExportTyped, TriggerTypeOK, Owners, Writes, Unbegun, env
  <1>3. CASE EndEvent
    BY <1>3 DEF EndEvent, NoTodo, ExportTyped, TriggerTypeOK, Owners, Writes, Unbegun, env
  <1> QED BY <1>1, <1>2, <1>3

\* A schedule is looked at: it is taken from the list, and perhaps an export of
\* the job begins.
LEMMA ConsiderSteps ==
  ASSUME ExportTyped, NEW s \in Schedule, Consider(s)
  PROVE  /\ todo.job \in Job /\ s \in todo.left
         /\ todo' = [todo EXCEPT !.left = @ \ {s}]
         /\ todo'.job = todo.job /\ todo'.left = todo.left \ {s}
         /\ todo' \in [job : Job \cup {Absent}, left : SUBSET Schedule]
         /\ UNCHANGED <<published, eventCh, history, instance, stopping, mishaps, torn>>
         /\ overlapped' \in BOOLEAN /\ (overlapped => overlapped')
         /\ \/ UNCHANGED <<export, racing>>
            \/ /\ Launch(s, todo.job)
               /\ ~HasExported(s, todo.job) \/ torn \/ overlapped'
  <1>1. /\ todo' = [todo EXCEPT !.left = @ \ {s}] /\ s \in todo.left
        /\ UNCHANGED <<published, eventCh, history, instance, stopping, mishaps, torn>>
    BY DEF Consider
  <1>2. todo \in [job : Job \cup {Absent}, left : SUBSET Schedule] /\ todo.job \in Job
    BY <1>1 DEF ExportTyped, TriggerTypeOK, Unbegun
  <1>3. overlapped' \in BOOLEAN /\ (overlapped => overlapped')
    <2>1. overlapped \in BOOLEAN
      BY DEF ExportTyped, TriggerTypeOK
    <2>2. overlapped' = overlapped \/ overlapped' = (overlapped \/ OtherAtWork("trigger"))
      BY DEF Consider
    <2>3. OtherAtWork("trigger") \in BOOLEAN
      BY DEF OtherAtWork
    <2> QED BY <2>1, <2>2, <2>3
  <1>4. \/ UNCHANGED <<export, racing>>
        \/ /\ Launch(s, todo.job)
           /\ ~HasExported(s, todo.job) \/ torn \/ overlapped'
    BY DEF Consider, Unreadable
  <1> QED BY <1>1, <1>2, <1>3, <1>4

LEMMA ConsiderKeepsTyped ==
  ASSUME ExportTyped, NEW s \in Schedule, Consider(s)
  PROVE  ExportTyped'
  <1>1. /\ todo' \in [job : Job \cup {Absent}, left : SUBSET Schedule]
        /\ todo.job \in Job /\ todo'.job = todo.job
        /\ UNCHANGED <<published, eventCh, history, instance, stopping, mishaps, torn>>
        /\ overlapped' \in BOOLEAN
    BY ConsiderSteps
  <1>2. CASE UNCHANGED <<export, racing>>
    BY <1>1, <1>2, TriggerAssumption DEF ExportTyped, TriggerTypeOK, Owners, Writes, Unbegun
  <1>3. CASE Launch(s, todo.job)
    <2>1. PICK e \in Export :
           /\ export[e].at = "none"
           /\ export'[e] = [at |-> "create", job |-> todo.job, schedule |-> s, retries |-> 0]
           /\ \A f \in AllExports \ {e} : export'[f] = export[f]
           /\ export' \in [AllExports -> ExportStates]
           /\ racing' = racing \cup {f \in {e} : \E g \in Of(s, todo.job) : Live(g)}
      BY <1>1, <1>3, Launched
    <2>2. TriggerTypeOK'
      <3>1. racing' \subseteq Export
        BY <2>1 DEF ExportTyped, TriggerTypeOK
      <3> QED BY <1>1, <2>1, <3>1 DEF ExportTyped, TriggerTypeOK
    <2>3. Owners'
      BY <1>1, <2>1 DEF ExportTyped, Owners, Writes
    <2>4. Unbegun'
      BY <1>1, <2>1, TriggerAssumption DEF ExportTyped, Unbegun, AllExports
    <2> QED BY <2>2, <2>3, <2>4 DEF ExportTyped
  <1> QED BY <1>2, <1>3, ConsiderSteps

LEMMA CrashSteps ==
  ASSUME ExportTyped, CrashTrigger
  PROVE  /\ export' \in [AllExports -> ExportStates]
         /\ \A e \in AllExports :
              /\ export'[e].job = export[e].job /\ export'[e].schedule = export[e].schedule
              /\ export'[e].at = IF export[e].at = "none" THEN "none" ELSE "done"
         /\ eventCh' = <<>> /\ todo' = NoTodo /\ Mishap("crash") /\ torn' \in BOOLEAN
         /\ UNCHANGED <<published, history, overlapped, racing>>
  BY DEF CrashTrigger, ExportTyped, TriggerTypeOK, ExportStates

LEMMA RestKeepsTyped ==
  ASSUME ExportTyped, Stop \/ StopReturns \/ CrashTrigger \/ UNCHANGED triggerVars
  PROVE  ExportTyped'
  <1>1. CASE CrashTrigger
    <2>1. mishaps' \subseteq {"crash", "disk"} /\ Cardinality(mishaps') <= MaxMishaps
      BY <1>1, MishapBound DEF CrashTrigger
    <2>2. instance' \in [Stores -> StoreStates] /\ \A s \in Stores : instance'[s].owner = NoExport
      BY <1>1 DEF CrashTrigger, Free, StoreStates
    <2>3. eventCh' \in Seq(Job) /\ Len(eventCh') = 0
      BY <1>1, EmptySeq DEF CrashTrigger
    <2>4. TriggerTypeOK'
      BY <1>1, <2>1, <2>2, <2>3, CrashSteps, TriggerAssumption
      DEF ExportTyped, TriggerTypeOK, NoTodo, CrashTrigger
    <2>5. Owners' /\ Unbegun'
      BY <1>1, <2>2, CrashSteps DEF ExportTyped, Owners, Unbegun, NoTodo, AllExports
    <2> QED BY <2>4, <2>5 DEF ExportTyped
  <1>2. CASE Stop \/ StopReturns \/ UNCHANGED triggerVars
    <2>1. /\ UNCHANGED <<published, eventCh, todo, export, history, instance, env>>
          /\ stopping' \in {"running", "stopping", "stopped"}
      BY <1>2 DEF Stop, StopReturns, triggerVars, ExportTyped, TriggerTypeOK
    <2> QED BY <2>1 DEF ExportTyped, TriggerTypeOK, Owners, Writes, Unbegun, env
  <1> QED BY <1>1, <1>2

LEMMA TypedInit == TriggerInit => ExportTyped
  <1> SUFFICES ASSUME TriggerInit PROVE ExportTyped
    OBVIOUS
  <1>1. eventCh \in Seq(Job) /\ Len(eventCh) = 0
    BY EmptySeq DEF TriggerInit
  <1>2. Cardinality(mishaps) = 0
    BY FS_EmptySet DEF TriggerInit
  <1>3. export \in [AllExports -> ExportStates]
    BY TriggerAssumption DEF TriggerInit, NewExport, ExportStates
  <1>4. instance \in [Stores -> StoreStates] /\ \A s \in Stores : instance[s].owner = NoExport
    BY DEF TriggerInit, Free, StoreStates
  <1>5. TriggerTypeOK
    <2>1. published \in [Job -> 0 .. MaxEvents] /\ history \in Histories
      BY TriggerAssumption DEF TriggerInit, Histories
    <2>2. Len(eventCh) <= EventCapacity /\ Cardinality(mishaps) <= MaxMishaps
      BY <1>1, <1>2, TriggerAssumption
    <2>3. todo \in [job : Job \cup {Absent}, left : SUBSET Schedule] /\ mishaps = {}
      BY DEF TriggerInit, NoTodo
    <2> QED BY <1>1, <1>3, <1>4, <2>1, <2>2, <2>3 DEF TriggerInit, TriggerTypeOK
  <1>6. Owners /\ Unbegun
    BY <1>4 DEF TriggerInit, Owners, Unbegun, NoTodo, NewExport, AllExports
  <1> QED BY <1>5, <1>6 DEF ExportTyped

LEMMA ExportSteps ==
  ASSUME [TriggerNext]_triggerVars
  PROVE  \/ \E e \in AllExports :
              \/ NoDestination(e) \/ Attempt(e) \/ Delay(e) \/ (e \in DirectExport /\ DirectRequest(e))
              \/ Load(e) \/ LoadFails(e) \/ Commit(e) \/ CommitFails(e)
         \/ (\E j \in Job : HandleJobEvent(j)) \/ ProcessEvent \/ EndEvent
         \/ \E s \in Schedule : Consider(s)
         \/ Stop \/ StopReturns \/ CrashTrigger \/ UNCHANGED triggerVars
  BY DEF TriggerNext, Goroutine, EventLoop, HandleJobExport, RunExport, HandleJobExportTool,
         AllExports

LEMMA TypedStep == ExportTyped /\ [TriggerNext]_triggerVars => ExportTyped'
  BY ExportSteps, GoOnKeepsTyped, LoadKeepsTyped, LoadFailsKeepsTyped, CommitKeepsTyped, EventKeepsTyped,
     ConsiderKeepsTyped, RestKeepsTyped

\* The trigger's channel stays within its capacity, no export is tried more often
\* than its schedule asks for, and the two stores hold histories.
THEOREM TriggerTypeCorrect == TriggerSpec => []TriggerTypeOK
  <1>1. ExportTyped => TriggerTypeOK
    BY DEF ExportTyped
  <1> QED BY <1>1, TypedInit, TypedStep, PTL DEF TriggerSpec

-----------------------------------------------------------------------------
(* Records that stay pending                                               *)

\* Where an export is, and what its record says: only one that is being worked
\* on is pending.
RecordFits(e) ==
  /\ export[e].at \in {"none", "create"} => history[e] = Absent
  /\ export[e].at \in {"attempt", "succeed", "fail"} => history[e] # Absent
  /\ export[e].at \in {"increment", "delay"} => history[e] \in {"succeeded", "failed"}
  /\ export[e].at = "done" => history[e] # "pending"

\* What BlockedOnlyByFault needs to be inductive: one store at a time is between
\* load and save, and what it loaded is the history as it is.
RecordsFit ==
  mishaps = {} /\ ~overlapped =>
    /\ ~torn
    /\ \A s, t \in Stores : instance[s].owner # NoExport /\ instance[t].owner # NoExport => s = t
    /\ \A s \in Stores : instance[s].owner # NoExport => instance[s].image = history
    /\ \A e \in AllExports : RecordFits(e)

LEMMA GoOnKeepsRecords ==
  ASSUME ExportTyped, RecordsFit, NEW e \in AllExports,
         NoDestination(e) \/ Attempt(e) \/ Delay(e) \/ (e \in DirectExport /\ DirectRequest(e))
  PROVE  RecordsFit'
  <1>1. UNCHANGED <<history, instance, mishaps, overlapped, torn>>
    BY GoOnSteps DEF env
  <1>2. ASSUME NEW at \in {"create", "attempt", "succeed", "fail", "done"}, Goes(e, at),
               RecordFits(e) =>
                 /\ at = "create" => history[e] = Absent
                 /\ at \in {"attempt", "succeed", "fail"} => history[e] # Absent
                 /\ at = "done" => history[e] # "pending"
        PROVE  RecordsFit'
    <2>1. export'[e].at = at /\ \A f \in AllExports \ {e} : export'[f] = export[f]
      BY <1>2, GoesTo
    <2>2. RecordFits(e) => RecordFits(e)'
      BY <1>1, <1>2, <2>1 DEF RecordFits
    <2>3. \A f \in AllExports \ {e} : RecordFits(f) => RecordFits(f)'
      BY <1>1, <2>1 DEF RecordFits
    <2> QED BY <1>1, <2>2, <2>3 DEF RecordsFit
  <1>4. CASE export[e].at = "create" /\ Goes(e, "done")
    BY <1>2, <1>4, TriggerAssumption DEF RecordFits
  <1>5. CASE export[e].at = "attempt" /\ (Goes(e, "succeed") \/ Goes(e, "fail"))
    BY <1>2, <1>5, TriggerAssumption DEF RecordFits
  <1>6. CASE export[e].at = "delay" /\ (Goes(e, "attempt") \/ Goes(e, "done"))
    BY <1>2, <1>6, TriggerAssumption DEF RecordFits
  <1>7. CASE export[e].at = "none" /\ (Goes(e, "create") \/ Goes(e, "done"))
    BY <1>2, <1>7, TriggerAssumption DEF RecordFits
  <1> QED BY <1>4, <1>5, <1>6, <1>7, GoOnSteps

LEMMA LoadKeepsRecords ==
  ASSUME ExportTyped, RecordsFit, NEW e \in AllExports, Load(e)
  PROVE  RecordsFit'
  <1> SUFFICES ASSUME mishaps' = {}, ~overlapped'
               PROVE  /\ ~torn'
                      /\ \A s, t \in Stores :
                           instance'[s].owner # NoExport /\ instance'[t].owner # NoExport => s = t
                      /\ \A s \in Stores : instance'[s].owner # NoExport
                                           => instance'[s].image = history'
                      /\ \A f \in AllExports : RecordFits(f)'
    BY DEF RecordsFit
  <1>1. /\ UNCHANGED <<export, history, mishaps>> /\ StoreOf(e) \in Stores
        /\ instance' = [instance EXCEPT ![StoreOf(e)] = [owner |-> e, image |-> history]]
        /\ ~overlapped /\ \A s \in Stores \ {StoreOf(e)} : instance[s].owner = NoExport
        /\ ~torn'
    BY DEF Load, StoreOf, Stores, OtherAtWork
  <1>2. /\ instance'[StoreOf(e)].image = history'
        /\ \A s \in Stores \ {StoreOf(e)} : instance'[s].owner = NoExport
    BY <1>1 DEF ExportTyped, TriggerTypeOK
  <1>3. \A f \in AllExports : RecordFits(f)'
    BY <1>1 DEF RecordsFit, RecordFits
  <1> QED BY <1>1, <1>2, <1>3

\* Where a save that succeeds leaves an export and its record.
LEMMA CommitFitsRecord ==
  ASSUME ExportTyped, NEW e \in AllExports, Writes(e), RecordFits(e), Commit(e),
         instance[StoreOf(e)].image = history, Save(e, Found(e, history))
  PROVE  /\ RecordFits(e)'
         /\ \A f \in AllExports \ {e} : history'[f] = history[f]
  <1>1. history \in Histories /\ Found(e, history) \in BOOLEAN
    BY DEF ExportTyped, TriggerTypeOK, Found
  <1>2. export'[e].at = AfterStep(e, Found(e, history))
    BY <1>1, SavedStep DEF Save
  <1>3. history' = IF Found(e, history) THEN Edited(e, history) ELSE history
    BY DEF Commit
  <1>4. Found(e, history)
    BY TriggerAssumption DEF Found, Writes, RecordFits
  <1>5. CASE export[e].at = "increment"
    BY <1>2, <1>3, <1>4, <1>5, TriggerAssumption DEF AfterStep, Edited, RecordFits
  <1>6. CASE export[e].at \in {"create", "succeed", "fail"}
    <2>1. PICK status : status = StatusOf[export[e].at]
      OBVIOUS
    <2>2. history' = [history EXCEPT ![e] = status]
      BY <1>3, <1>4, <1>6, <2>1 DEF Edited
    <2>3. history'[e] = status /\ \A f \in AllExports \ {e} : history'[f] = history[f]
      BY <1>1, <2>2 DEF Histories
    <2>4. CASE export[e].at = "create"
      BY <1>2, <1>4, <2>1, <2>3, <2>4, TriggerAssumption DEF AfterStep, RecordFits, StatusOf
    <2>5. CASE export[e].at = "succeed"
      BY <1>2, <1>4, <2>1, <2>3, <2>5, TriggerAssumption DEF AfterStep, RecordFits, StatusOf
    <2>6. CASE export[e].at = "fail"
      BY <1>2, <1>4, <2>1, <2>3, <2>6, TriggerAssumption DEF AfterStep, Retry, RecordFits, StatusOf
    <2> QED BY <1>6, <2>3, <2>4, <2>5, <2>6
  <1> QED BY <1>5, <1>6 DEF Writes

LEMMA CommitKeepsRecords ==
  ASSUME ExportTyped, RecordsFit, NEW e \in AllExports, Commit(e) \/ CommitFails(e)
  PROVE  RecordsFit'
  <1>1. CASE CommitFails(e)
    BY <1>1 DEF CommitFails, Mishap, RecordsFit
  <1>2. CASE Commit(e)
    <2> SUFFICES ASSUME mishaps' = {}, ~overlapped'
                 PROVE  /\ ~torn' /\ \A s \in Stores : instance'[s].owner = NoExport
                        /\ \A f \in AllExports : RecordFits(f)'
      BY DEF RecordsFit
    <2>0. ~torn'
      BY <1>2 DEF Commit, RecordsFit
    <2>1. mishaps = {} /\ ~overlapped /\ instance[StoreOf(e)].owner = e
          /\ e # NoExport /\ StoreOf(e) \in Stores
      BY <1>2, TriggerAssumption DEF Commit, AllExports, StoreOf, Stores
    <2>2. /\ instance[StoreOf(e)].image = history
          /\ \A s \in Stores \ {StoreOf(e)} : instance[s].owner = NoExport
          /\ \A f \in AllExports : RecordFits(f)
      BY <2>1 DEF RecordsFit
    <2>3. Save(e, Found(e, history)) /\ Found(e, history) \in BOOLEAN
      BY <1>2, <2>2 DEF Commit, Found
    <2>4. /\ Writes(e) /\ instance'[StoreOf(e)] = Free
          /\ \A s \in Stores \ {StoreOf(e)} : instance'[s] = instance[s]
      BY <2>1, <2>3, SavedFrees
    <2>5. /\ RecordFits(e)'
          /\ \A f \in AllExports \ {e} : history'[f] = history[f]
      BY <1>2, <2>2, <2>3, <2>4, CommitFitsRecord
    <2>6. \A f \in AllExports \ {e} : export'[f] = export[f]
      BY <2>3, <2>4, SavedStep DEF Save
    <2>7. \A f \in AllExports \ {e} : RecordFits(f)'
      BY <2>2, <2>5, <2>6 DEF RecordFits
    <2> QED BY <2>0, <2>2, <2>4, <2>5, <2>7 DEF Free
  <1> QED BY <1>1, <1>2

LEMMA ConsiderKeepsRecords ==
  ASSUME ExportTyped, RecordsFit, NEW s \in Schedule, Consider(s)
  PROVE  RecordsFit'
  <1>1. /\ UNCHANGED <<history, instance, mishaps, torn>> /\ todo.job \in Job
        /\ overlapped' \in BOOLEAN /\ (overlapped => overlapped')
    BY ConsiderSteps
  <1>2. CASE UNCHANGED <<export, racing>>
    BY <1>1, <1>2 DEF RecordsFit, RecordFits
  <1>3. CASE Launch(s, todo.job)
    <2>1. PICK e \in Export :
           /\ export[e].at = "none"
           /\ export'[e] = [at |-> "create", job |-> todo.job, schedule |-> s, retries |-> 0]
           /\ \A f \in AllExports \ {e} : export'[f] = export[f]
      BY <1>1, <1>3, Launched
    <2>2. \A f \in AllExports : RecordFits(f) => RecordFits(f)'
      BY <1>1, <2>1 DEF RecordFits
    <2> QED BY <1>1, <2>2 DEF RecordsFit
  <1> QED BY <1>2, <1>3, ConsiderSteps

LEMMA RecordsStep ==
  ASSUME ExportTyped, RecordsFit, [TriggerNext]_triggerVars
  PROVE  RecordsFit'
  <1>1. CASE \/ (\E j \in Job : HandleJobEvent(j)) \/ ProcessEvent \/ EndEvent
             \/ Stop \/ StopReturns \/ UNCHANGED triggerVars
    <2>1. UNCHANGED <<export, history, instance, env>>
      BY <1>1 DEF HandleJobEvent, ProcessEvent, EndEvent, Stop, StopReturns, triggerVars
    <2> QED BY <2>1 DEF RecordsFit, RecordFits, env
  <1>2. CASE CrashTrigger
    BY <1>2 DEF CrashTrigger, Mishap, RecordsFit
  <1>3. ASSUME NEW e \in AllExports, LoadFails(e) PROVE RecordsFit'
    BY <1>3 DEF LoadFails, Unreadable, RecordsFit
  <1> QED BY <1>1, <1>2, <1>3, ExportSteps, GoOnKeepsRecords, LoadKeepsRecords, CommitKeepsRecords,
             ConsiderKeepsRecords

LEMMA RecordsInit == TriggerInit => RecordsFit
  <1> SUFFICES ASSUME TriggerInit PROVE RecordsFit
    OBVIOUS
  <1>1. \A s \in Stores : instance[s].owner = NoExport
    BY DEF TriggerInit, Free
  <1>2. \A e \in AllExports : RecordFits(e)
    BY DEF TriggerInit, NewExport, RecordFits
  <1> QED BY <1>1, <1>2 DEF RecordsFit, TriggerInit

\* A pending record, which suppresses every later export of its job, is being
\* worked on, unless a crash or a failed write left it behind or the other store
\* wrote an older history over a newer one: every path through an export settles
\* its record.
THEOREM BlockedOnlyByFaultHolds == TriggerSpec => []BlockedOnlyByFault
  <1>2. ExportTyped /\ RecordsFit /\ [TriggerNext]_triggerVars => RecordsFit'
    BY RecordsStep
  <1>3. ExportTyped /\ RecordsFit => BlockedOnlyByFault
    <2> SUFFICES ASSUME ExportTyped, RecordsFit, NEW e \in AllExports, history[e] = "pending",
                        ~Live(e), mishaps = {}, ~overlapped
                 PROVE  FALSE
      BY DEF BlockedOnlyByFault
    <2>1. RecordFits(e) /\ export[e].at \in {"none", "done"}
      BY DEF RecordsFit, Live
    <2> QED BY <2>1, TriggerAssumption DEF RecordFits
  <1> QED BY <1>2, <1>3, RecordsInit, TypedInit, TypedStep, PTL DEF TriggerSpec

-----------------------------------------------------------------------------
(* Exports of one job                                                      *)

\* An export that is done with and whose record does not keep its job from being
\* exported again.
Unexported(e) == export[e].at = "done" /\ history[e] \notin {"pending", "succeeded"}

Twins(e, f) ==
  /\ e # f /\ export[e].at # "none" /\ export[f].at # "none"
  /\ export[e].schedule = export[f].schedule /\ export[e].job = export[f].job

\* What NoLateDuplicate needs to be inductive: of two exports of a job, unless one
\* began while the other was under way, the first has ended badly for good.
OneExported ==
  mishaps = {} /\ ~overlapped =>
    \A e, f \in Export :
      Twins(e, f) => e \in racing \/ f \in racing \/ Unexported(e) \/ Unexported(f)

\* Steps of one export, or of none: the others and their records stay.
LEMMA OthersStay ==
  ASSUME OneExported, NEW e, export[e].at # "done" \/ UNCHANGED <<export, history>>,
         mishaps' = {} => mishaps = {}, ~overlapped' => ~overlapped, racing' = racing,
         e \in Export => /\ export[e].at # "none"
                         /\ export'[e].schedule = export[e].schedule
                         /\ export'[e].job = export[e].job,
         mishaps' = {} /\ ~overlapped' =>
           \A f \in Export \ {e} : export'[f] = export[f] /\ history'[f] = history[f]
  PROVE  OneExported'
  BY DEF OneExported, Twins, Unexported

LEMMA GoroutineKeepsOthers ==
  ASSUME ExportTyped, RecordsFit, OneExported, NEW e \in AllExports,
         \/ NoDestination(e) \/ Attempt(e) \/ Delay(e) \/ (e \in DirectExport /\ DirectRequest(e))
         \/ Load(e) \/ LoadFails(e) \/ Commit(e) \/ CommitFails(e)
  PROVE  OneExported'
  <1>1. CASE NoDestination(e) \/ Attempt(e) \/ Delay(e) \/ (e \in DirectExport /\ DirectRequest(e))
    <2>1. PICK at \in {"create", "attempt", "succeed", "fail", "done"} : Goes(e, at)
      BY <1>1, GoOnSteps
    <2>2. /\ export'[e].job = export[e].job /\ export'[e].schedule = export[e].schedule
          /\ \A f \in AllExports \ {e} : export'[f] = export[f]
      BY <2>1, GoesTo
    <2>3. /\ UNCHANGED <<history, mishaps, overlapped, racing>> /\ export[e].at # "done"
          /\ e \in Export => export[e].at # "none"
      BY <1>1, GoOnSteps, TriggerAssumption DEF env
    <2> QED BY <2>2, <2>3, OthersStay DEF AllExports
  <1>2. CASE Load(e)
    BY <1>2 DEF Load, OneExported, Twins, Unexported
  <1>3. CASE LoadFails(e)
    <2>1. /\ export'[e].job = export[e].job /\ export'[e].schedule = export[e].schedule
          /\ \A f \in AllExports \ {e} : export'[f] = export[f]
      BY <1>3, SavedStep DEF LoadFails
    <2>2. /\ UNCHANGED <<history, mishaps, racing>> /\ (~overlapped' => ~overlapped)
          /\ export[e].at \notin {"none", "done"}
      BY <1>3 DEF LoadFails, Writes
    <2> QED BY <2>1, <2>2, OthersStay DEF AllExports
  <1>4. CASE CommitFails(e)
    BY <1>4 DEF CommitFails, Mishap, OneExported
  <1>5. CASE Commit(e)
    <2>1. PICK ok \in BOOLEAN : Save(e, ok)
      BY <1>5, CommitSteps
    <2>2. UNCHANGED <<mishaps, overlapped, racing>> /\ instance[StoreOf(e)].owner = e
      BY <1>5 DEF Commit
    <2>3. Writes(e)
      BY <2>1, <2>2, SavedFrees
    <2>4. /\ export'[e].job = export[e].job /\ export'[e].schedule = export[e].schedule
          /\ \A f \in AllExports \ {e} : export'[f] = export[f]
      BY <2>1, <2>3, SavedStep DEF Save
    <2>5. mishaps = {} /\ ~overlapped => \A f \in AllExports \ {e} : history'[f] = history[f]
      <3> SUFFICES ASSUME mishaps = {}, ~overlapped
                   PROVE  \A f \in AllExports \ {e} : history'[f] = history[f]
        OBVIOUS
      <3>1. e # NoExport /\ StoreOf(e) \in Stores
        BY TriggerAssumption DEF AllExports, StoreOf, Stores
      <3>2. instance[StoreOf(e)].image = history /\ RecordFits(e)
        BY <2>2, <3>1 DEF RecordsFit
      <3>3. Save(e, Found(e, history))
        BY <1>5, <3>2 DEF Commit
      <3> QED BY <1>5, <2>3, <3>2, <3>3, CommitFitsRecord
    <2>6. export[e].at \notin {"none", "done"}
      BY <2>3 DEF Writes
    <2> QED BY <2>2, <2>4, <2>5, <2>6, OthersStay DEF AllExports
  <1> QED BY <1>1, <1>2, <1>3, <1>4, <1>5

LEMMA ConsiderKeepsOthers ==
  ASSUME ExportTyped, RecordsFit, OneExported, NEW s \in Schedule, Consider(s)
  PROVE  OneExported'
  <1>1. /\ UNCHANGED <<history, mishaps, torn>> /\ todo.job \in Job
        /\ overlapped' \in BOOLEAN /\ (overlapped => overlapped')
    BY ConsiderSteps
  <1>2. CASE UNCHANGED <<export, racing>>
    BY <1>1, <1>2 DEF OneExported, Twins, Unexported
  <1>3. CASE /\ Launch(s, todo.job)
             /\ ~HasExported(s, todo.job) \/ torn \/ overlapped'
    <2>1. PICK e \in Export :
           /\ export[e].at = "none"
           /\ export'[e] = [at |-> "create", job |-> todo.job, schedule |-> s, retries |-> 0]
           /\ \A f \in AllExports \ {e} : export'[f] = export[f]
           /\ racing' = racing \cup {f \in {e} : \E g \in Of(s, todo.job) : Live(g)}
      BY <1>1, <1>3, Launched
    <2> SUFFICES ASSUME mishaps = {}, ~overlapped', NEW f \in Export, NEW g \in Export,
                        Twins(f, g)', f \notin racing', g \notin racing'
                 PROVE  Unexported(f)' \/ Unexported(g)'
      BY <1>1 DEF OneExported
    <2>2. ~torn /\ ~overlapped
      BY <1>1 DEF RecordsFit
    <2>3. ASSUME NEW h \in Export, h # e, export'[h].at # "none", e \notin racing',
                 export'[h].schedule = s, export'[h].job = todo.job
          PROVE  Unexported(h)'
      <3>1. export'[h] = export[h] /\ h \in Of(s, todo.job)
        BY <2>1, <2>3 DEF AllExports, Of
      <3>2. ~Live(h) /\ history[h] \notin {"pending", "succeeded"}
        BY <1>3, <2>1, <2>2, <2>3, <3>1 DEF HasExported
      <3> QED BY <1>1, <2>3, <3>1, <3>2 DEF Live, Unexported
    <2>4. CASE f = e
      BY <2>1, <2>3, <2>4 DEF Twins
    <2>5. CASE g = e
      BY <2>1, <2>3, <2>5 DEF Twins
    <2>6. CASE f # e /\ g # e
      <3>1. export'[f] = export[f] /\ export'[g] = export[g] /\ f \notin racing /\ g \notin racing
        BY <2>1, <2>6 DEF AllExports
      <3> QED BY <1>1, <2>2, <3>1 DEF OneExported, Twins, Unexported
    <2> QED BY <2>4, <2>5, <2>6
  <1> QED BY <1>2, <1>3, ConsiderSteps

LEMMA OneExportedStep ==
  ASSUME ExportTyped, RecordsFit, OneExported, [TriggerNext]_triggerVars
  PROVE  OneExported'
  <1>1. CASE \/ (\E j \in Job : HandleJobEvent(j)) \/ ProcessEvent \/ EndEvent
             \/ Stop \/ StopReturns \/ UNCHANGED triggerVars
    <2>1. UNCHANGED <<export, history, env>>
      BY <1>1 DEF HandleJobEvent, ProcessEvent, EndEvent, Stop, StopReturns, triggerVars
    <2> QED BY <2>1 DEF OneExported, Twins, Unexported, env
  <1>2. CASE CrashTrigger
    BY <1>2 DEF CrashTrigger, Mishap, OneExported
  <1> QED BY <1>1, <1>2, ExportSteps, GoroutineKeepsOthers, ConsiderKeepsOthers

\* A job is exported twice by a schedule only if the second export began while the
\* first was under way, or the history was lost or misread: HasExported finds the
\* record of an export that ended well, however many events, retries and exports
\* beside it come in between.
THEOREM NoLateDuplicateHolds == TriggerSpec => []NoLateDuplicate
  <1> DEFINE Inductive == ExportTyped /\ RecordsFit /\ OneExported
  <1>1. TriggerInit => Inductive
    BY TypedInit, RecordsInit DEF TriggerInit, NewExport, OneExported, Twins, AllExports
  <1>2. Inductive /\ [TriggerNext]_triggerVars => Inductive'
    BY TypedStep, RecordsStep, OneExportedStep
  <1>3. Inductive => NoLateDuplicate
    <2> SUFFICES ASSUME ExportTyped, OneExported, mishaps = {}, ~overlapped,
                        NEW s \in Schedule, NEW j \in Job, NEW e \in Of(s, j), NEW f \in Of(s, j),
                        e # f, history[e] = "succeeded", history[f] = "succeeded"
                 PROVE  e \in racing \/ f \in racing
      BY DEF NoLateDuplicate
    <2>1. Twins(e, f) /\ e \in Export /\ f \in Export
      BY TriggerAssumption DEF Of, Twins, ExportTyped, Unbegun
    <2> QED BY <2>1 DEF OneExported, Unexported
  <1> HIDE DEF Inductive
  <1> QED BY <1>1, <1>2, <1>3, PTL DEF TriggerSpec

-----------------------------------------------------------------------------
(* Beside the dispatcher                                                   *)

\* Both delivery components keep their types, each while the other rests.
THEOREM DeliveryTypeCorrect == DeliverySpec => []DeliveryTypeOK
  <1> DEFINE Both == Inv /\ ExportTyped
  <1>1. DeliveryInit => Both
    BY InitInv, TypedInit DEF DeliveryInit
  <1>2. Both /\ [DeliveryNext]_DeliveryVars => Both'
    <2> SUFFICES ASSUME Inv, ExportTyped, [DeliveryNext]_DeliveryVars PROVE Inv' /\ ExportTyped'
      OBVIOUS
    <2>1. [DispatcherNext]_dispatcherVars /\ [TriggerNext]_triggerVars
      BY DEF DeliveryNext, DeliveryVars
    <2> QED BY <2>1, InvNext, TypedStep
  <1>3. Both => DeliveryTypeOK
    BY DEF DeliveryTypeOK, Inv, Typed, ExportTyped
  <1> HIDE DEF Both
  <1> QED BY <1>1, <1>2, <1>3, PTL DEF DeliverySpec
=============================================================================
