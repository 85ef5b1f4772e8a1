----------------------------- MODULE FrontEnds ------------------------------
(***************************************************************************)
(* The requests that change a JSON collection: the handlers of the REST    *)
(* API, the commands of the command line, the tools of the MCP server, and *)
(* the checks of watches.  Each is a client of one file, for one request.  *)
(* A request that is invalid is refused with no effect.  What a handler    *)
(* does to a second file belongs to the behaviours of that file.           *)
(***************************************************************************)
EXTENDS JsonFile

CONSTANTS Operator    \* the clients that are requests

ASSUME OperatorAssumption == Operator \subseteq Client

VARIABLE keyCache     \* apiKeysCache of the server, or Torn: nothing cached

\* When a new schedule is due; the other collections have no times here.
Due == IF collection = "schedules" THEN now + 1 ELSE 0
Fields(c) == [by |-> c, due |-> Due]
At(f) == collection = f /\ UNCHANGED keyCache

\* The forms that requests take.
Add(c, k) == Load(c, "idle", "add", k, Fields(c)) \/ Refuse(c, "idle")
Upsert(c, k) == Load(c, "idle", "upsert", k, Fields(c)) \/ Refuse(c, "idle")
Delete(c, k) == Load(c, "idle", "delete", k, NoEntry) \/ Refuse(c, "idle")

\* Look whether it is there, and only then change it.
Present(k) == file # Torn /\ Has(file, k)
IfPresent(c, op, k, entry) == (Present(k) /\ Look(c, op, k, entry)) \/ Refuse(c, "idle")
IfAbsent(c, k) == (~Present(k) /\ Look(c, "upsert", k, Fields(c))) \/ Refuse(c, "idle")
Update(c, k) == IfPresent(c, "put", k, [file[k] EXCEPT !.by = c])

-----------------------------------------------------------------------------
(* schedules.json                                                          *)
HandleCreateSchedule(c, k) == At("schedules") /\ Add(c, k)
HandleSchedule(c, k) == At("schedules") /\ Delete(c, k)
RunSchedule(c, k) == At("schedules") /\ (Add(c, k) \/ Delete(c, k))

(* watches.json                                                            *)
HandleCreateWatch(c, k) == At("watches") /\ Add(c, k)
HandleUpdateWatch(c, k) == At("watches") /\ Update(c, k)
HandleDeleteWatch(c, k) == At("watches") /\ Delete(c, k)
RunWatchAdd(c, k) == At("watches") /\ Add(c, k)
RunWatchDelete(c, k) == At("watches") /\ Delete(c, k)
HandleWatchCreateTool(c, k) == At("watches") /\ Add(c, k)
HandleWatchUpdateTool(c, k) == At("watches") /\ Update(c, k)
HandleWatchDeleteTool(c, k) == At("watches") /\ Delete(c, k)

\* A check works on a copy of its watch; at its end it sets the check time of
\* the copy and puts all of it back.
Check(c, k) ==
  /\ At("watches") /\ file # Torn /\ Has(file, k)
  /\ Look(c, "touch", k, file[k])
HandleCheckWatch(c, k) == Check(c, k)
RunWatchCheck(c, k) == Check(c, k)
HandleWatchCheckTool(c, k) == Check(c, k)

(* export_schedules.json                                                   *)
CreateExportSchedule(c, k) == At("exports") /\ c \in server /\ Add(c, k)
UpdateExportSchedule(c, k) == At("exports") /\ c \in server /\ Update(c, k)
DeleteExportSchedule(c, k) == At("exports") /\ c \in server /\ Delete(c, k)
RunExportScheduleAdd(c, k) == At("exports") /\ c \notin server /\ Add(c, k)
RunExportScheduleDelete(c, k) == At("exports") /\ c \notin server /\ Delete(c, k)
RunExportScheduleEnable(c, k) == At("exports") /\ c \notin server /\ Update(c, k)
HandleExportScheduleCreateTool(c, k) == At("exports") /\ c \notin server /\ Add(c, k)
HandleExportScheduleUpdateTool(c, k) == At("exports") /\ c \notin server /\ Update(c, k)
HandleExportScheduleDeleteTool(c, k) == At("exports") /\ c \notin server /\ Delete(c, k)

(* auth_vault.json                                                         *)
HandleAuthProfile(c, k) == At("vault") /\ (Upsert(c, k) \/ Delete(c, k))
RunAuth(c, k) == At("vault") /\ (Upsert(c, k) \/ Delete(c, k))

\* auth set with a preset saves the profile first, and the preset after it.
RunAuthPreset(c, k) ==
  /\ At("vault") /\ span[c].op = "upsert" /\ span[c].key # k
  /\ Load(c, "saved", "upsert", k, Fields(c))

\* The OAuth commands look at the profile, change its OAuth part and put it
\* back; only the first one makes a profile that is not there.
RunOAuthConfigSet(c, k) ==
  At("vault") /\ (Look(c, "upsert", k, Fields(c)) \/ Refuse(c, "idle"))
RunOAuthConfigClear(c, k) == At("vault") /\ IfPresent(c, "upsert", k, Fields(c))
RunOAuthDiscover(c, k) == At("vault") /\ IfPresent(c, "upsert", k, Fields(c))

\* An imported vault takes the place of the whole file, whatever is in it.
HandleAuthImport(c, names) ==
  /\ At("vault")
  /\ LoadCopy(c, "import", [k \in Key |-> IF k \in names THEN Fields(c) ELSE NoEntry])

(* oauth_tokens.json and oauth_states.json.  The mutex is that of a store  *)
(* which every request makes for itself.                                   *)
HandleOAuthInitiate(c, k) == At("states") /\ Upsert(c, k)
RunOAuthInitiate(c, k) == At("states") /\ Upsert(c, k)

\* The callback saves a token, and in the end deletes the state it came with.
Callback(c, k) ==
  (At("states") /\ IfPresent(c, "delete", k, NoEntry)) \/ (At("tokens") /\ Upsert(c, k))
HandleOAuthCallback(c, k) == Callback(c, k)
RunOAuthCallback(c, k) == Callback(c, k)
HandleOAuthRefresh(c, k) == At("tokens") /\ IfPresent(c, "upsert", k, Fields(c))
RunOAuthRefresh(c, k) == At("tokens") /\ IfPresent(c, "upsert", k, Fields(c))
HandleOAuthRevoke(c, k) == At("tokens") /\ IfPresent(c, "delete", k, NoEntry)
RunOAuthRevoke(c, k) == At("tokens") /\ IfPresent(c, "delete", k, NoEntry)
RunOAuthTokenDelete(c, k) == At("tokens") /\ Delete(c, k)

(* sessions.json                                                           *)
RunSessionSave(c, k) == At("sessions") /\ Upsert(c, k)
RunSessionDelete(c, k) == At("sessions") /\ Delete(c, k)

(* api_keys.json                                                           *)
RunKeysGenerate(c, k) == At("keys") /\ c \notin server /\ Add(c, k)
RunKeysRevoke(c, k) == At("keys") /\ c \notin server /\ Delete(c, k)

\* A request with a key: the server has the keys in memory for five seconds, or
\* reads them.  A key that is there gets its time of use, and all are saved; a
\* request with another key only leaves the cache behind.
KeysSeen == IF keyCache = Torn THEN file ELSE keyCache
ValidateAPIKey(c, k) ==
  /\ collection = "keys" /\ c \in server
  /\ KeysSeen # Torn /\ Has(KeysSeen, k)
  /\ LoadCopy(c, "all", KeysSeen)
  /\ keyCache' = KeysSeen
LoadAPIKeys(c) ==
  /\ collection = "keys" /\ c \in server
  /\ Refuse(c, "idle")
  /\ keyCache' = KeysSeen

\* The cache is five seconds old, or a save has made it void.
KeyCacheExpires ==
  /\ keyCache # Torn /\ keyCache' = Torn
  /\ UNCHANGED fileVars

(* extract_templates.json                                                  *)
HandleCreateTemplate(c, k) == At("templates") /\ IfAbsent(c, k)
HandleUpdateTemplate(c, k) == At("templates") /\ IfPresent(c, "put", k, Fields(c))
HandleDeleteTemplate(c, k) == At("templates") /\ IfPresent(c, "delete", k, NoEntry)

(* render_profiles.json and pipeline_js.json                               *)
NamedResource == At("profiles") \/ At("scripts")
HandleNamedResourceCollection(c, k) == NamedResource /\ IfAbsent(c, k)
HandleNamedResourceItem(c, k) ==
  /\ NamedResource
  /\ IfPresent(c, "upsert", k, Fields(c)) \/ IfPresent(c, "delete", k, NoEntry)
RunRenderProfilesCreate(c, k) == At("profiles") /\ Upsert(c, k)
RunRenderProfilesUpdate(c, k) == At("profiles") /\ IfPresent(c, "upsert", k, Fields(c))
RunRenderProfilesDelete(c, k) == At("profiles") /\ Delete(c, k)
RunPipelineJSCreate(c, k) == At("scripts") /\ Upsert(c, k)
RunPipelineJSUpdate(c, k) == At("scripts") /\ IfPresent(c, "upsert", k, Fields(c))
RunPipelineJSDelete(c, k) == At("scripts") /\ Delete(c, k)
=============================================================================
