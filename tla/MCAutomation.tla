---------------------------- MODULE MCAutomation ----------------------------
(***************************************************************************)
(* What runs beside the jobs: the JSON collections with their front ends,  *)
(* caches and the interval scheduler; the checks of watches; retention;    *)
(* batches; the WebSocket hub; the definitions of chains.  They share no   *)
(* state except the table of jobs, so that a behaviour is about one of     *)
(* them, and the others rest.                                              *)
(***************************************************************************)
EXTENDS FrontEnds, IntervalScheduler, WatchScheduler, WebSocketHub, Retention, Batches,
        ChainDefinition

CONSTANT MaxEdges   \* bounds the definitions of chains

\* The interval scheduler is no request, and there is one.
ASSUME RequestAssumption == Ticker \notin Operator /\ Operator # {}

VARIABLE part     \* whom the behaviour is about

fileGroup == <<fileVars, keyCache, cacheVars, tickVars>>
jobGroup ==
  <<retentionVars, submit, recorded, cancel, canceled, escaped, missed, refused>>
vars == <<part, fileGroup, watchVars, hubVars, jobGroup, chainVars>>

Parts == {"files", "watches", "hub", "retention", "batches", "chains"}

\* One URL, on which there may be a second watch.
OneUrl == [w \in Watch |-> CHOOSE u \in Url : TRUE]

\* Requests to the server matter where the server keeps something in memory.
FilesInit ==
  /\ FileInit
  /\ server \subseteq Operator
  /\ collection \notin {"exports", "keys"} => server = {}
  /\ Cardinality({k \in Key : Has(file, k)}) = 1
  /\ CacheInit /\ TickInit /\ keyCache = Torn

FilesRest ==
  /\ collection = "scripts" /\ server = {}
  /\ file = [k \in Key |-> NoEntry]
  /\ span = [c \in Client |-> NoSpan]
  /\ latest = [k \in Key |-> Nobody]
  /\ version = 0 /\ raced = FALSE /\ failures = 0 /\ now = 0
  /\ CacheInit /\ TickInit /\ keyCache = Torn

\* The members of a batch rest where it has not begun.
BatchRest ==
  /\ submit = [at |-> "create", job |-> 1] /\ cancel = [at |-> "none", job |-> 1]
  /\ recorded = FALSE /\ canceled = FALSE /\ refused = FALSE
  /\ escaped = {} /\ missed = {}

\* Old jobs that have come to their end, and perhaps one that still runs.
SomeRows ==
  {r \in [Job -> {"failed", "running"}] : Cardinality({j \in Job : r[j] = "running"}) <= 1}

JobsInit ==
  IF part = "retention"
  THEN RetentionInit(SomeRows, {LastRow \div 2, LastRow}) /\ BatchRest
  ELSE BatchInit /\ cutoff = 0 /\ clean = [c \in Cleaner |-> NoCleanup]

Init ==
  /\ part \in Parts
  /\ IF part = "files" THEN FilesInit ELSE FilesRest
  /\ \/ WatchInit({}) /\ watches = {CHOOSE w \in Watch : TRUE}
     \/ part = "watches" /\ WatchInit({"fetch"}) /\ watches = Watch
  /\ HubInit
  /\ JobsInit
  /\ IF part = "chains"
     THEN edges \in {E \in SUBSET (Node \X Node) : Cardinality(E) <= MaxEdges}
     ELSE edges = {}
  /\ ChainInit

FrontEnd(c, k) ==
  \/ HandleCreateSchedule(c, k) \/ HandleSchedule(c, k) \/ RunSchedule(c, k)
  \/ HandleCreateWatch(c, k) \/ HandleUpdateWatch(c, k) \/ HandleDeleteWatch(c, k)
  \/ RunWatchAdd(c, k) \/ RunWatchDelete(c, k)
  \/ HandleWatchCreateTool(c, k) \/ HandleWatchUpdateTool(c, k)
  \/ HandleWatchDeleteTool(c, k)
  \/ HandleCheckWatch(c, k) \/ RunWatchCheck(c, k) \/ HandleWatchCheckTool(c, k)
  \/ CreateExportSchedule(c, k) \/ UpdateExportSchedule(c, k) \/ DeleteExportSchedule(c, k)
  \/ RunExportScheduleAdd(c, k) \/ RunExportScheduleDelete(c, k)
  \/ RunExportScheduleEnable(c, k) \/ HandleExportScheduleCreateTool(c, k)
  \/ HandleExportScheduleUpdateTool(c, k) \/ HandleExportScheduleDeleteTool(c, k)
  \/ HandleAuthProfile(c, k) \/ RunAuth(c, k) \/ RunAuthPreset(c, k)
  \/ RunOAuthConfigSet(c, k) \/ RunOAuthConfigClear(c, k) \/ RunOAuthDiscover(c, k)
  \/ HandleAuthImport(c, {k})
  \/ HandleOAuthInitiate(c, k) \/ RunOAuthInitiate(c, k)
  \/ HandleOAuthCallback(c, k) \/ RunOAuthCallback(c, k)
  \/ HandleOAuthRefresh(c, k) \/ RunOAuthRefresh(c, k)
  \/ HandleOAuthRevoke(c, k) \/ RunOAuthRevoke(c, k) \/ RunOAuthTokenDelete(c, k)
  \/ RunSessionSave(c, k) \/ RunSessionDelete(c, k)
  \/ RunKeysGenerate(c, k) \/ RunKeysRevoke(c, k)
  \/ ValidateAPIKey(c, k) \/ LoadAPIKeys(c)
  \/ HandleCreateTemplate(c, k) \/ HandleUpdateTemplate(c, k) \/ HandleDeleteTemplate(c, k)
  \/ HandleNamedResourceCollection(c, k) \/ HandleNamedResourceItem(c, k)
  \/ RunRenderProfilesCreate(c, k) \/ RunRenderProfilesUpdate(c, k)
  \/ RunRenderProfilesDelete(c, k)
  \/ RunPipelineJSCreate(c, k) \/ RunPipelineJSUpdate(c, k) \/ RunPipelineJSDelete(c, k)

\* Beside the interval scheduler, which writes too, there is one request.
Requests == IF collection = "schedules" THEN {CHOOSE c \in Operator : TRUE} ELSE Operator

FileSteps ==
  \/ /\ \E c \in Requests :
          (\E k \in Key : FrontEnd(c, k)) \/ (GoOn(c) /\ UNCHANGED keyCache)
     /\ UNCHANGED <<cacheVars, tickVars>>
  \/ KeyCacheExpires /\ UNCHANGED <<cacheVars, tickVars>>
  \/ \E c \in Client : SaveStep(c) /\ UNCHANGED <<keyCache, cacheVars, tickVars>>
  \/ \E c \in Operator : (TellTrigger(c) \/ TellNobody(c)) /\ UNCHANGED <<keyCache, tickVars>>
  \/ Reload /\ UNCHANGED <<keyCache, tickVars>>
  \/ (Tick \/ EndTick \/ RestartScheduler \/ TimePasses) /\ UNCHANGED keyCache

ForFiles(A) == part = "files" /\ A /\ UNCHANGED <<part, watchVars, hubVars, jobGroup, chainVars>>
ForWatches(A) ==
  part = "watches" /\ A /\ UNCHANGED <<part, fileGroup, hubVars, jobGroup, chainVars>>
ForHub(A) ==
  part = "hub" /\ A /\ UNCHANGED <<part, fileGroup, watchVars, jobGroup, chainVars>>
ForRetention(A) ==
  /\ part = "retention" /\ A
  /\ UNCHANGED <<part, fileGroup, watchVars, hubVars, submit, recorded, cancel,
                 canceled, escaped, missed, refused, chainVars>>
ForBatches(A) ==
  /\ part = "batches" /\ A
  /\ UNCHANGED <<part, fileGroup, watchVars, hubVars, cutoff, clean, chainVars>>
ForChains(A) ==
  part = "chains" /\ A /\ UNCHANGED <<part, fileGroup, watchVars, hubVars, jobGroup>>

Next ==
  \/ ForFiles(FileSteps) \/ ForWatches(WatchNext) \/ ForHub(HubNext)
  \/ ForRetention(RetentionNext) \/ ForBatches(BatchNext)
  \/ ForChains(ChainNext)

\* Loads of a cache, and the call that tells the trigger, are made; checks go
\* on, and watches become due; the hub's loop takes every case that stays ready;
\* a request that has begun comes to its end, and so do a job and a validation.
Fairness ==
  /\ WF_vars(ForFiles(Reload /\ UNCHANGED <<keyCache, tickVars>>))
  /\ \A c \in Operator :
       WF_vars(ForFiles((TellTrigger(c) \/ TellNobody(c)) /\ UNCHANGED <<keyCache, tickVars>>))
  /\ \A c \in Checker : WF_vars(ForWatches(CheckStep(c)))
  /\ \A w \in Watch :
       /\ WF_vars(ForWatches(\E c \in Checker : RunChecks(c, w)))
       /\ WF_vars(ForWatches(DueAgain(w)))
  /\ WF_vars(ForHub(Deliver)) /\ WF_vars(ForHub(Quit))
  /\ \A c \in Conn :
       /\ WF_vars(ForHub(RegisterClient(c))) /\ WF_vars(ForHub(UnregisterClient(c)))
       /\ WF_vars(ForHub(Pumps(c)))
  /\ WF_vars(ForBatches(Submission)) /\ WF_vars(ForBatches(Cancellation))
  /\ \A j \in Job : WF_vars(ForBatches(RunJob(j)))
  /\ \A c \in Cleaner : WF_vars(ForRetention(CleanStep(c)))
  /\ WF_vars(ForChains(CreateChain))

Spec == Init /\ [][Next]_vars /\ Fairness

\* Every part has states of its own kind.
AutomationTypeOK ==
  /\ part \in Parts
  /\ FileTypeOK /\ CacheTypeOK /\ TickTypeOK /\ keyCache \in Image \cup {Torn}
  /\ WatchTypeOK /\ HubTypeOK /\ RowsTypeOK /\ CleanTypeOK /\ BatchTypeOK
  /\ ChainTypeOK

\* When the requests have stopped: what is in memory of a collection is what is
\* in its file, a watched page is known as it is, connections that closed are
\* forgotten, a batch has its final status, a cleanup is over, and a chain is stored
\* or refused; each but for the reasons that its module names.
AutomationSettles ==
  <>[](CASE part = "files" -> CacheCurrent
         [] part = "watches" -> WatchedCurrent
         [] part = "hub" -> GoneIsForgotten
         [] part = "batches" -> BatchSettled
         [] part = "retention" -> RetentionEnds
         [] part = "chains" -> Validated)
=============================================================================
