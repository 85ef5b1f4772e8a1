-------------------------- MODULE AutomationProofs --------------------------
(***************************************************************************)
(* Theorems about what runs beside the jobs, for MCAutomation's            *)
(* composition of it and every value of the constants.  Each part has an   *)
(* invariant of its own, which the steps of the others leave alone.        *)
(*                                                                         *)
(* Files (FileInv, MemoryTyped, TickInv): while nothing was raced, whoever *)
(* is about to save has loaded the file as it is; for the scheduler, the   *)
(* times that have been submitted lie before those in the file, in memory  *)
(* and in every image under way.                                           *)
(*                                                                         *)
(* Watches (WatchInv): one check of a URL at a time is between reading and *)
(* storing its state; what is stored was told, or its check is yet to tell *)
(* it; and the changes were told in turn.                                  *)
(*                                                                         *)
(* Batches (BatchInv): what is not yet created has no row, and what the    *)
(* cancellation has passed has ended, is gone, has escaped it or was       *)
(* missed.                                                                 *)
(*                                                                         *)
(* Cleanups (CleanInv): the rows left to delete by count lie above the     *)
(* limit (Counting), which rests on counting the rows of a page, and each  *)
(* job that was due is in a status, or on a page, yet to come (Aging).     *)
(***************************************************************************)
EXTENDS MCAutomation, FiniteSetTheorems, TLAPS

-----------------------------------------------------------------------------
(* The requests *)

Edits == {"add", "put", "upsert", "delete", "touch"}

\* What a client does to the file before it saves.  Only a check of a watch
\* touches, and it looks first; only a preset is saved after a profile.
Asks(c) ==
  \/ \E at \in {"idle", "got", "saved"}, op \in Edits, k \in Key, entry \in Entry :
       /\ Load(c, at, op, k, entry)
       /\ at = "saved" => collection = "vault"
       /\ op = "touch" =>
            at = "got" /\ span[c].op = op /\ span[c].key = k /\ span[c].entry = entry
  \/ \E at \in {"idle", "got"} : Refuse(c, at)
  \/ \E op \in Edits, k \in Key, entry \in Entry :
       Look(c, op, k, entry) /\ (op = "touch" => entry = file[k])
  \/ /\ collection \in {"vault", "keys", "schedules"}
     /\ \E op \in {"import", "all"}, image \in Image : LoadCopy(c, op, image)

\* Who has looked knows what to do.
Decided == \A c \in Client : span[c].at = "got" => span[c].op \in Edits /\ span[c].key \in Key

LEMMA EntryTypes ==
  ASSUME FileTypeOK, NEW c \in Client
  PROVE  Fields(c) \in Entry /\ NoEntry \in Entry
  BY FileAssumption DEF FileTypeOK, Fields, Due, Entry, Times

LEMMA ChangedEntry ==
  ASSUME FileTypeOK, NEW c \in Client, NEW k \in Key, file # Torn
  PROVE  [file[k] EXCEPT !.by = c] \in Entry
  <1>1. file[k] \in Entry
    BY DEF FileTypeOK, Image
  <1> QED BY <1>1, FileAssumption DEF Entry, NoEntry, Times

\* What most of the requests are.  Schedules are added and deleted.
Usual(c, k) ==
  /\ UNCHANGED keyCache
  /\ collection = "schedules" => Add(c, k) \/ Delete(c, k)
  /\ \/ Add(c, k) \/ Upsert(c, k) \/ Delete(c, k) \/ IfAbsent(c, k) \/ Update(c, k)
     \/ \E op \in {"put", "upsert"} : IfPresent(c, op, k, Fields(c))
     \/ IfPresent(c, "delete", k, NoEntry)
     \/ Look(c, "upsert", k, Fields(c)) \/ Refuse(c, "idle")
     \/ collection = "vault" /\ Load(c, "saved", "upsert", k, Fields(c))

LEMMA UsualAsks ==
  ASSUME FileTypeOK, NEW c \in Client, NEW k \in Key, Usual(c, k)
  PROVE  Asks(c)
  <1>1. Fields(c) \in Entry /\ NoEntry \in Entry
    BY EntryTypes
  <1>2. CASE Add(c, k) \/ Upsert(c, k) \/ Delete(c, k) \/ IfAbsent(c, k)
    BY <1>1, <1>2 DEF Add, Upsert, Delete, IfAbsent, Asks, Edits
  <1>3. CASE Update(c, k)
    <2>1. CASE Present(k) /\ Look(c, "put", k, [file[k] EXCEPT !.by = c])
      <3>1. [file[k] EXCEPT !.by = c] \in Entry
        BY <2>1, ChangedEntry DEF Present
      <3> QED BY <2>1, <3>1 DEF Asks, Edits
    <2>2. CASE Refuse(c, "idle")
      BY <2>2 DEF Asks
    <2> QED BY <1>3, <2>1, <2>2 DEF Update, IfPresent
  <1>4. ASSUME NEW op \in {"put", "upsert", "delete"}, NEW entry \in Entry,
               IfPresent(c, op, k, entry)
        PROVE  Asks(c)
    BY <1>4 DEF IfPresent, Asks, Edits
  <1>5. CASE Look(c, "upsert", k, Fields(c)) \/ Refuse(c, "idle")
             \/ (collection = "vault" /\ Load(c, "saved", "upsert", k, Fields(c)))
    BY <1>1, <1>5 DEF Asks, Edits
  <1> QED BY <1>1, <1>2, <1>3, <1>4, <1>5 DEF Usual

\* Every handler, command and tool asks for a change in one of these forms
\* (internal/api, internal/cli, internal/mcp).
LEMMA FrontEndAsks ==
  ASSUME FileTypeOK, keyCache \in Image \cup {Torn}, NEW c \in Operator, NEW k \in Key,
         FrontEnd(c, k)
  PROVE  /\ Asks(c) /\ keyCache' \in Image \cup {Torn}
         /\ collection = "schedules" => Add(c, k) \/ Delete(c, k)
  <1>0. c \in Client
    BY OperatorAssumption
  <1>1. CASE Usual(c, k)
    BY <1>0, <1>1, UsualAsks DEF Usual
  <1>2. CASE Check(c, k)
    <2>1. file[k] \in Entry
      BY <1>2 DEF Check, FileTypeOK, Image
    <2> QED BY <1>2, <2>1 DEF Check, At, Asks, Edits
  <1>3. CASE HandleAuthImport(c, {k})
    <2>1. [j \in Key |-> IF j \in {k} THEN Fields(c) ELSE NoEntry] \in Image
      BY <1>0, EntryTypes DEF Image
    <2> QED BY <1>3, <2>1 DEF HandleAuthImport, At, Asks
  <1>4. CASE ValidateAPIKey(c, k) \/ LoadAPIKeys(c)
    BY <1>4 DEF ValidateAPIKey, LoadAPIKeys, KeysSeen, FileTypeOK, Asks
  <1>5. HandleCreateSchedule(c, k) \/ HandleSchedule(c, k) \/ RunSchedule(c, k)
          \/ HandleCreateWatch(c, k) \/ HandleUpdateWatch(c, k) \/ HandleDeleteWatch(c, k)
          \/ RunWatchAdd(c, k) \/ RunWatchDelete(c, k) \/ HandleWatchCreateTool(c, k)
          \/ HandleWatchUpdateTool(c, k) \/ HandleWatchDeleteTool(c, k) => Usual(c, k)
    BY DEF HandleCreateSchedule, HandleSchedule, RunSchedule, HandleCreateWatch,
           HandleUpdateWatch, HandleDeleteWatch, RunWatchAdd, RunWatchDelete,
           HandleWatchCreateTool, HandleWatchUpdateTool, HandleWatchDeleteTool, Usual, At
  <1>6. HandleCheckWatch(c, k) \/ RunWatchCheck(c, k) \/ HandleWatchCheckTool(c, k)
          => Check(c, k)
    BY DEF HandleCheckWatch, RunWatchCheck, HandleWatchCheckTool
  <1>7. CreateExportSchedule(c, k) \/ UpdateExportSchedule(c, k) \/ DeleteExportSchedule(c, k)
          \/ RunExportScheduleAdd(c, k) \/ RunExportScheduleDelete(c, k)
          \/ RunExportScheduleEnable(c, k) \/ HandleExportScheduleCreateTool(c, k)
          \/ HandleExportScheduleUpdateTool(c, k) \/ HandleExportScheduleDeleteTool(c, k)
          => Usual(c, k)
    BY DEF CreateExportSchedule, UpdateExportSchedule, DeleteExportSchedule,
           RunExportScheduleAdd, RunExportScheduleDelete, RunExportScheduleEnable,
           HandleExportScheduleCreateTool, HandleExportScheduleUpdateTool,
           HandleExportScheduleDeleteTool, Usual, At
  <1>8. HandleAuthProfile(c, k) \/ RunAuth(c, k) \/ RunAuthPreset(c, k)
          \/ RunOAuthConfigSet(c, k) \/ RunOAuthConfigClear(c, k) \/ RunOAuthDiscover(c, k)
          => Usual(c, k)
    BY DEF HandleAuthProfile, RunAuth, RunAuthPreset, RunOAuthConfigSet,
           RunOAuthConfigClear, RunOAuthDiscover, Usual, At
  <1>9. HandleOAuthInitiate(c, k) \/ RunOAuthInitiate(c, k) \/ HandleOAuthCallback(c, k)
          \/ RunOAuthCallback(c, k) \/ HandleOAuthRefresh(c, k) \/ RunOAuthRefresh(c, k)
          \/ HandleOAuthRevoke(c, k) \/ RunOAuthRevoke(c, k) \/ RunOAuthTokenDelete(c, k)
          => Usual(c, k)
    BY DEF HandleOAuthInitiate, RunOAuthInitiate, HandleOAuthCallback, RunOAuthCallback,
           Callback, HandleOAuthRefresh, RunOAuthRefresh, HandleOAuthRevoke, RunOAuthRevoke,
           RunOAuthTokenDelete, Usual, At
  <1>10. RunSessionSave(c, k) \/ RunSessionDelete(c, k)
           \/ RunKeysGenerate(c, k) \/ RunKeysRevoke(c, k)
           \/ HandleCreateTemplate(c, k) \/ HandleUpdateTemplate(c, k)
           \/ HandleDeleteTemplate(c, k) \/ HandleNamedResourceCollection(c, k)
           \/ HandleNamedResourceItem(c, k) \/ RunRenderProfilesCreate(c, k)
           \/ RunRenderProfilesUpdate(c, k) \/ RunRenderProfilesDelete(c, k)
           \/ RunPipelineJSCreate(c, k) \/ RunPipelineJSUpdate(c, k)
           \/ RunPipelineJSDelete(c, k) => Usual(c, k)
    BY DEF RunSessionSave, RunSessionDelete, RunKeysGenerate, RunKeysRevoke,
           HandleCreateTemplate, HandleUpdateTemplate, HandleDeleteTemplate, NamedResource,
           HandleNamedResourceCollection, HandleNamedResourceItem, RunRenderProfilesCreate,
           RunRenderProfilesUpdate, RunRenderProfilesDelete, RunPipelineJSCreate,
           RunPipelineJSUpdate, RunPipelineJSDelete, Usual, At
  <1> QED BY <1>1, <1>2, <1>3, <1>4, <1>5, <1>6, <1>7, <1>8, <1>9, <1>10 DEF FrontEnd

\* A request that has looked goes on in one of these forms, too.
LEMMA GoOnAsks ==
  ASSUME FileTypeOK, Decided, NEW c \in Client, GoOn(c)
  PROVE  Asks(c)
  <1>1. CASE Refuse(c, "got")
    BY <1>1 DEF Asks
  <1>2. CASE Load(c, "got", span[c].op, span[c].key, span[c].entry)
    <2>1. span[c].op \in Edits /\ span[c].key \in Key /\ span[c].entry \in Entry
      BY <1>2 DEF Load, Decided, FileTypeOK, Spans
    <2> QED BY <1>2, <2>1 DEF Asks
  <1> QED BY <1>1, <1>2 DEF GoOn

-----------------------------------------------------------------------------
(* The file *)

\* A save counts, and there are no more of them than clients.
Savers == {c \in Client : span[c].at \in {"saved", "done"}}
Counted ==
  /\ version <= Cardinality(Savers)
  /\ collection # "profiles" => version = 0
  /\ collection # "schedules" => span[Ticker].at = "idle"

\* What will be saved is an image, and what the trigger will be told is an entry;
\* and whoever has emptied a file of the kind that is emptied fills it, unless
\* somebody did so meanwhile.
Images ==
  \A c \in Client :
    /\ span[c].at \in {"loaded", "writing", "saved"} =>
         span[c].image \in Image /\ (collection = "exports" => span[c].key \in Key)
    /\ span[c].at = "writing" =>
         collection \in Plain /\ (file # Torn => span[c].stale \/ raced)

\* What a client is going to save says of the entries, but its own, what the file
\* says, unless somebody has saved since the client loaded.
Brings(c) ==
  \/ span[c].op = "import"
  \/ \A k \in Key :
       \/ span[c].image[k].by = latest[k]
       \/ span[c].op \notin {"touch", "all"} /\ k = span[c].key
Current ==
  \A c \in Client : ~raced /\ ~span[c].stale =>
    /\ span[c].at \in {"loaded", "writing"} => Brings(c)
    /\ span[c].at = "got" /\ span[c].op = "touch" => span[c].entry.by = latest[span[c].key]

FileInv == FileTypeOK /\ Decided /\ Images /\ Current /\ FilesSound

\* One client's record changes.
LEMMA SpanTo ==
  ASSUME FileTypeOK, NEW c \in Client, NEW s \in Spans, span' = [span EXCEPT ![c] = s]
  PROVE  /\ span' \in [Client -> Spans]
         /\ span'[c] = s
         /\ \A d \in Client : d # c => span'[d] = span[d]
  BY DEF FileTypeOK

LEMMA NoSpans == NoSpan \in Spans /\ Over \in Spans /\ NoSpan.at = "idle" /\ Over.at = "done"
  BY DEF NoSpan, Over, Spans, Entry, NoEntry

\* A request changes nothing but where its client is.
LEMMA AsksKeepsFile ==
  ASSUME FileInv, NEW c \in Client, Asks(c)
  PROVE  FileInv'
  <1> USE DEF FileInv
  <1>0. /\ file \in Image \cup {Torn} /\ FileTypeOK /\ span[c] \in Spans
        /\ file # Torn => file \in Image
        /\ file # Torn /\ ~raced => \A k \in Key : file[k].by = latest[k]
    BY DEF FilesSound, EditsKept, FileTypeOK
  <1>1. /\ UNCHANGED <<collection, server, file, version, latest, raced, failures, now>>
        /\ span[c].at \notin {"writing", "loaded"}
    BY DEF Asks, Load, Refuse, Look, LoadCopy
  <1>2. ASSUME NEW s \in Spans, span' = [span EXCEPT ![c] = s],
               s.at \in {"got", "loaded", "done"},
               s.at = "got" => s.op \in Edits /\ s.key \in Key,
               s.at = "loaded" => s.image \in Image /\ (collection = "exports" => s.key \in Key),
               ~raced /\ ~s.stale /\ s.at = "loaded" =>
                 \/ s.op = "import"
                 \/ \A k \in Key :
                      s.image[k].by = latest[k] \/ (s.op \notin {"touch", "all"} /\ k = s.key),
               ~raced /\ ~s.stale /\ s.at = "got" /\ s.op = "touch" =>
                 s.entry.by = latest[s.key]
        PROVE  FileInv'
    <2>1. /\ span' \in [Client -> Spans]
          /\ span'[c] = s
          /\ \A d \in Client : d # c => span'[d] = span[d]
      BY <1>2, SpanTo
    <2>2. FileTypeOK'
      BY <1>1, <2>1 DEF FileTypeOK, Collections, Plain, Atomic
    <2>3. Decided'
      BY <1>2, <2>1 DEF Decided
    <2>4. Images'
      <3> SUFFICES ASSUME NEW d \in Client
                   PROVE  /\ span'[d].at \in {"loaded", "writing", "saved"} =>
                               /\ span'[d].image \in Image
                               /\ collection = "exports" => span'[d].key \in Key
                          /\ span'[d].at = "writing" =>
                               collection \in Plain /\ (file # Torn => span'[d].stale \/ raced)
        BY <1>1 DEF Images, Image, Entry, Times, NoEntry
      <3> QED BY <1>2, <2>1 DEF Images
    <2>5. Current'
      <3> SUFFICES ASSUME NEW d \in Client, ~raced, ~span'[d].stale
                   PROVE  /\ span'[d].at \in {"loaded", "writing"} => Brings(d)'
                          /\ span'[d].at = "got" /\ span'[d].op = "touch" =>
                               span'[d].entry.by = latest[span'[d].key]
        BY <1>1 DEF Current
      <3>1. CASE d = c
        BY <1>1, <1>2, <2>1, <3>1 DEF Brings
      <3>2. CASE d # c
        <4>1. span'[d] = span[d]
          BY <2>1, <3>2
        <4>2. Brings(d) => Brings(d)'
          BY <1>1, <4>1 DEF Brings
        <4> QED BY <4>1, <4>2 DEF Current
      <3> QED BY <3>1, <3>2
    <2>6. FilesSound'
      <3>1. EditsKept'
        BY <1>1 DEF FilesSound, EditsKept
      <3>2. FileReadable'
        BY <1>1, <2>1 DEF FilesSound, FileReadable, Atomic
      <3> QED BY <3>1, <3>2 DEF FilesSound
    <2> QED BY <2>2, <2>3, <2>4, <2>5, <2>6
  <1>3. ASSUME NEW at \in {"idle", "got", "saved"}, NEW op \in Edits, NEW k \in Key,
               NEW entry \in Entry, Load(c, at, op, k, entry),
               op = "touch" =>
                 at = "got" /\ span[c].op = op /\ span[c].key = k /\ span[c].entry = entry
        PROVE  FileInv'
    <2> DEFINE s == [at |-> "loaded", op |-> op, key |-> k, entry |-> NoEntry,
                     image |-> Edited(op, k, entry), stale |-> at = "got" /\ span[c].stale]
    <2>1. file \in Image /\ file # Torn /\ span[c].at = at /\ span' = [span EXCEPT ![c] = s]
      BY <1>0, <1>3 DEF Load
    <2>2. Edited(op, k, entry) \in Image
      BY <2>1 DEF Edited, Image, Entry, NoEntry
    <2>3. \A j \in Key : j # k => Edited(op, k, entry)[j] = file[j]
      BY <2>1 DEF Edited, Image
    <2>4. op = "touch" => Edited(op, k, entry)[k] = entry
      BY <2>1 DEF Edited, Image
    <2>5. s \in Spans
      BY <1>0, <2>2 DEF Spans, Edits, Entry, NoEntry
    <2>6. op = "touch" /\ ~raced /\ ~s.stale => entry.by = latest[k]
      BY <1>3, <2>1 DEF Current
    <2>7. ~raced /\ ~s.stale =>
            \A j \in Key : s.image[j].by = latest[j] \/ (op \notin {"touch", "all"} /\ j = k)
      BY <1>0, <2>1, <2>3, <2>4, <2>6 DEF Edits
    <2> QED BY <1>2, <2>1, <2>2, <2>5, <2>7
  <1>4. CASE \E at \in {"idle", "got"} : Refuse(c, at)
    <2>1. span' = [span EXCEPT ![c] = Over]
      BY <1>4 DEF Refuse
    <2> QED BY <1>2, <2>1, NoSpans
  <1>5. ASSUME NEW op \in Edits, NEW k \in Key, NEW entry \in Entry,
               Look(c, op, k, entry), op = "touch" => entry = file[k]
        PROVE  FileInv'
    <2> DEFINE s == [NoSpan EXCEPT !.at = "got", !.op = op, !.key = k, !.entry = entry]
    <2>1. span' = [span EXCEPT ![c] = s] /\ file # Torn
      BY <1>5 DEF Look
    <2>2. s.at = "got" /\ s.op = op /\ s.key = k /\ s.entry = entry /\ s \in Spans
      BY DEF NoSpan, Spans, Edits
    <2> QED BY <1>0, <1>2, <1>5, <2>1, <2>2
  <1>6. ASSUME NEW op \in {"import", "all"}, NEW image \in Image, LoadCopy(c, op, image),
               collection # "exports"
        PROVE  FileInv'
    <2> DEFINE s == [NoSpan EXCEPT !.at = "loaded", !.op = op, !.image = image,
                                   !.stale = op = "all" /\ Behind(image)]
    <2>1. span' = [span EXCEPT ![c] = s]
      BY <1>6 DEF LoadCopy
    <2>2. s.at = "loaded" /\ s.op = op /\ s.image = image /\ s.stale = (op = "all" /\ Behind(image))
      BY DEF NoSpan
    <2>3. s \in Spans
      BY DEF NoSpan, Spans, Entry, NoEntry, Behind
    <2>4. ~raced /\ ~Behind(image) => \A k \in Key : image[k].by = latest[k]
      BY <1>0 DEF Behind
    <2> QED BY <1>2, <1>6, <2>1, <2>2, <2>3, <2>4
  <1> QED BY <1>3, <1>4, <1>5, <1>6 DEF Asks

\* The file is emptied: whoever did so is writing.
LEMMA TruncateKeepsFile ==
  ASSUME FileInv, NEW c \in Client, Truncate(c)
  PROVE  FileInv'
  <1> USE DEF FileInv
  <1> DEFINE s == [span[c] EXCEPT !.at = "writing"]
  <1>1. /\ collection \in Plain /\ span[c].at = "loaded" /\ file' = Torn
        /\ span' = [span EXCEPT ![c].at = "writing"]
        /\ UNCHANGED <<collection, server, version, latest, raced, failures, now>>
    BY DEF Truncate
  <1>2. /\ s \in Spans /\ s.at = "writing" /\ s.op = span[c].op /\ s.key = span[c].key
        /\ s.image = span[c].image /\ s.stale = span[c].stale
    BY DEF FileTypeOK, Spans
  <1>3. /\ span' \in [Client -> Spans]
        /\ span'[c] = s
        /\ \A d \in Client : d # c => span'[d] = span[d]
    BY <1>1, <1>2, SpanTo DEF FileTypeOK
  <1> HIDE DEF s
  <1>4. FileTypeOK'
    BY <1>1, <1>3 DEF FileTypeOK
  <1>5. Decided'
    BY <1>2, <1>3 DEF Decided
  <1>6. Images'
    BY <1>1, <1>2, <1>3 DEF Images
  <1>7. Current'
    <2> SUFFICES ASSUME NEW d \in Client, ~raced, ~span'[d].stale
                 PROVE  /\ span'[d].at \in {"loaded", "writing"} => Brings(d)'
                        /\ span'[d].at = "got" /\ span'[d].op = "touch" =>
                             span'[d].entry.by = latest[span'[d].key]
      BY <1>1 DEF Current
    <2>1. CASE d = c
      <3>1. Brings(c)
        BY <1>1, <1>2, <1>3, <2>1 DEF Current
      <3> QED BY <1>1, <1>2, <1>3, <2>1, <3>1 DEF Brings
    <2>2. CASE d # c
      <3>1. Brings(d) => Brings(d)'
        BY <1>1, <1>3, <2>2 DEF Brings
      <3> QED BY <1>3, <2>2, <3>1 DEF Current
    <2> QED BY <2>1, <2>2
  <1>8. FilesSound'
    BY <1>1, <1>2, <1>3 DEF FilesSound, EditsKept, FileReadable, Plain, Atomic
  <1> QED BY <1>4, <1>5, <1>6, <1>7, <1>8

\* A save makes everybody else's image an old one.
LEMMA SavedKeepsFile ==
  ASSUME FileInv, NEW c \in Client, span[c].at \in {"loaded", "writing"}, Saved(c),
         \/ /\ span[c].at = "writing" /\ file' \in Outcomes(c)
         \/ collection \in Atomic /\ file' = span[c].image,
         version' \in 0 .. Cardinality(Client)
  PROVE  FileInv'
  <1> USE DEF FileInv
  <1>1. /\ span[c] \in Spans /\ span[c].image \in Image /\ span[c].image # Torn
        /\ span \in [Client -> Spans]
    BY TornAssumption DEF FileTypeOK, Images
  <1>2. /\ UNCHANGED <<collection, server, failures, now>>
        /\ latest' = Editors(c)
        /\ raced' = (raced \/ span[c].stale)
        /\ span' \in [Client -> Spans]
        /\ span'[c] = [span[c] EXCEPT !.at = "saved"]
        /\ \A d \in Client : d # c =>
             span'[d] = [span[d] EXCEPT !.stale = span[d].stale \/ Open(d)]
    BY <1>1 DEF Saved, Spans
  <1>3. /\ span'[c].at = "saved" /\ span'[c].image = span[c].image /\ span'[c].key = span[c].key
        /\ \A d \in Client : d # c =>
             /\ span'[d].at = span[d].at /\ span'[d].op = span[d].op
             /\ span'[d].key = span[d].key /\ span'[d].image = span[d].image
             /\ span'[d].stale = (span[d].stale \/ Open(d))
    BY <1>1, <1>2 DEF Spans
  <1>4. file' \in {span[c].image, Torn}
    BY DEF Outcomes
  <1>5. ~raced' => \A k \in Key : span[c].image[k].by = latest'[k]
    <2> SUFFICES ASSUME ~raced, ~span[c].stale, NEW k \in Key
                 PROVE  span[c].image[k].by = latest'[k]
      BY <1>2
    <2>1. Brings(c)
      BY DEF Current
    <2>2. latest \in [Key -> Client \cup {Initial, Nobody}]
      BY DEF FileTypeOK
    <2> QED BY <1>2, <2>1, <2>2 DEF Brings, Editors
  <1>6. FileTypeOK'
    <2>1. latest' \in [Key -> Client \cup {Initial, Nobody}]
      <3>1. \A k \in Key : span[c].image[k].by \in Client \cup {Initial, Nobody}
        BY <1>1 DEF Image, Entry, NoEntry
      <3>2. latest \in [Key -> Client \cup {Initial, Nobody}]
        BY DEF FileTypeOK
      <3>3. CASE span[c].op \in {"touch", "all"}
        BY <1>2, <3>2, <3>3 DEF Editors
      <3>4. CASE span[c].op = "import"
        BY <1>2, <3>1, <3>4 DEF Editors
      <3>5. CASE span[c].op \notin {"touch", "all", "import"}
        <4>1. latest' = [latest EXCEPT ![span[c].key] = span[c].image[span[c].key].by]
          BY <1>2, <3>5 DEF Editors
        <4> QED BY <3>1, <3>2, <4>1
      <3> QED BY <3>3, <3>4, <3>5
    <2>2. raced' \in BOOLEAN /\ file' \in Image \cup {Torn}
      BY <1>1, <1>2, <1>4 DEF FileTypeOK, Spans
    <2> QED BY <1>2, <2>1, <2>2 DEF FileTypeOK
  <1>7. Decided'
    BY <1>3 DEF Decided
  <1>8. Images'
    <2> SUFFICES ASSUME NEW d \in Client
                 PROVE  /\ span'[d].at \in {"loaded", "writing", "saved"} =>
                             /\ span'[d].image \in Image
                             /\ collection = "exports" => span'[d].key \in Key
                        /\ span'[d].at = "writing" =>
                             collection \in Plain /\ (file' # Torn => span'[d].stale \/ raced')
      BY <1>2 DEF Images
    <2>1. span'[d].at = "writing" => d # c /\ Open(d)
      BY <1>3 DEF Open
    <2>2. span'[d].key = span[d].key /\ span'[d].image = span[d].image
      BY <1>3
    <2>3. span'[d].at \in {"loaded", "writing", "saved"} =>
            span[d].at \in {"loaded", "writing", "saved"}
      BY <1>3
    <2> QED BY <1>2, <1>3, <2>1, <2>2, <2>3 DEF Images
  <1>9. Current'
    <2> SUFFICES ASSUME NEW d \in Client, ~raced', ~span'[d].stale,
                        span'[d].at \in {"got", "loaded", "writing"}
                 PROVE  FALSE
      BY DEF Current
    <2> QED BY <1>3 DEF Open
  <1>10. EditsKept'
    BY <1>4, <1>5 DEF EditsKept
  <1>11. FileReadable'
    <2> SUFFICES ASSUME file' = Torn
                 PROVE  collection \notin Atomic /\ raced'
      BY <1>2 DEF FileReadable
    <2>1. span[c].at = "writing" /\ file # Torn
      BY <1>1 DEF Outcomes
    <2> QED BY <1>2, <2>1 DEF Images, Plain, Atomic
  <1> QED BY <1>6, <1>7, <1>8, <1>9, <1>10, <1>11 DEF FilesSound

\* A client is done with the file, which it was not writing, or it fails.
LEMMA LeaveKeepsFile ==
  ASSUME FileInv, NEW c \in Client, NEW s \in {Over, NoSpan}, span' = [span EXCEPT ![c] = s],
         UNCHANGED <<collection, server, file, version, latest, raced, now>>,
         \/ failures' = failures /\ span[c].at # "writing"
         \/ Failure
  PROVE  FileInv'
  <1> USE DEF FileInv
  <1>1. s \in Spans /\ s.at \in {"idle", "done"}
    BY NoSpans
  <1>2. /\ span' \in [Client -> Spans]
        /\ span'[c] = s
        /\ \A d \in Client : d # c => span'[d] = span[d]
    BY <1>1, SpanTo
  <1>3. failures' \in 0 .. MaxFailures /\ failures' >= failures
    BY FileAssumption DEF FileTypeOK, Failure
  <1>4. FileTypeOK'
    BY <1>2, <1>3 DEF FileTypeOK
  <1>5. Decided' /\ Images'
    BY <1>1, <1>2 DEF Decided, Images
  <1>6. Current'
    <2> SUFFICES ASSUME NEW d \in Client, ~raced, ~span'[d].stale
                 PROVE  /\ span'[d].at \in {"loaded", "writing"} => Brings(d)'
                        /\ span'[d].at = "got" /\ span'[d].op = "touch" =>
                             span'[d].entry.by = latest[span'[d].key]
      BY DEF Current
    <2>1. d # c => (Brings(d) => Brings(d)')
      BY <1>2 DEF Brings
    <2> QED BY <1>1, <1>2, <2>1 DEF Current
  <1>7. FilesSound'
    <2>1. failures' > 0 \/ (failures' = failures /\ span[c].at # "writing")
      BY DEF Failure, FileTypeOK
    <2>2. FileReadable'
      BY <1>2, <1>3, <2>1 DEF FilesSound, FileReadable, FileTypeOK
    <2> QED BY <2>2 DEF FilesSound, EditsKept
  <1> QED BY <1>4, <1>5, <1>6, <1>7

-----------------------------------------------------------------------------
(* The caches *)

MemoryTyped ==
  /\ CacheTypeOK /\ TickTypeOK /\ keyCache \in Image \cup {Torn}
  /\ reading # NotReading => reading.image \in Image
  /\ Counted

-----------------------------------------------------------------------------
(* The interval scheduler *)

\* An entry by a may come after one by b: what the first schedules were is
\* deleted, and what the request makes is made once.
Later(a, b) == a = b \/ b = Initial \/ (b = Nobody /\ a # Initial)

Requester == CHOOSE c \in Operator : TRUE
Ticking == span[Ticker].at \in {"loaded", "writing", "saved"}

\* The one request adds or deletes a schedule; the ticker saves them all.
OneRequest ==
  IF collection = "schedules"
  THEN /\ \A c \in Client \ {Requester, Ticker} : span[c].at = "idle"
       /\ span[Requester].at # "got"
       /\ span[Requester].at \in {"loaded", "writing"} => span[Requester].op \in {"add", "delete"}
       /\ span[Ticker].at # "got" /\ (span[Ticker].at = "done" => failures > 0)
       /\ Ticking => span[Ticker].op = "all"
  ELSE refired = {}

\* What the memory of the scheduler says is not later than what a load under way
\* has read, and that not later than the file.
InOrder ==
  \A k \in Key :
    /\ Later(latest[k], cache[k].by)
    /\ reading # NotReading =>
         Later(latest[k], reading.image[k].by) /\ Later(reading.image[k].by, cache[k].by)
    /\ Ticking => Later(cache[k].by, span[Ticker].image[k].by)
    /\ span[Requester].at \notin {"saved", "done"} => latest[k] \in {Initial, Nobody}

\* What the request is going to save is later than what is there.
RequestIsLater ==
  LET s == span[Requester]
  IN  s.at \in {"loaded", "writing"} /\ ~s.stale => Later(s.image[s.key].by, latest[s.key])

\* What the memory of the scheduler says, or will say when the tick has ended, is
\* later than what the queue took a job for.
Passed(k, e, image) == Later(image[k].by, e.by) /\ (image[k].by = e.by => image[k].due > e.due)
FiredPassed ==
  \A k \in Key, e \in Entry :
    <<k, e>> \in fired \ unqueued => Passed(k, e, IF Ticking THEN span[Ticker].image ELSE cache)

TickInv ==
  /\ OneRequest
  /\ collection = "schedules" /\ failures = 0 /\ ~raced /\ ~crossed =>
       InOrder /\ RequestIsLater /\ FiredPassed /\ refired \subseteq unqueued

-----------------------------------------------------------------------------
(* Steps of the files keep their types *)

LEMMA SaversCount ==
  ASSUME NEW S, S \subseteq Client
  PROVE  /\ IsFiniteSet(S) /\ Cardinality(S) \in Nat /\ Cardinality(Client) \in Nat
         /\ Cardinality(S) <= Cardinality(Client)
         /\ \A T \in SUBSET S : Cardinality(T) <= Cardinality(S)
  BY FS_Subset, FS_CardinalityType, FileAssumption

\* Without a save the count is kept by whoever stays, and by everybody where
\* nothing is counted.
LEMMA CountedStays ==
  ASSUME FileInv, Counted, FileInv', version' = version, collection' = collection,
         version = 0 \/ \A c \in Client : span[c].at \in {"saved", "done"} =>
                                            span'[c].at \in {"saved", "done"},
         collection # "schedules" => span'[Ticker].at = "idle"
  PROVE  Counted'
  <1>1. Savers' \subseteq Client /\ Savers \subseteq Client
    BY DEF Savers
  <1>2. CASE version = 0
    BY <1>1, <1>2, SaversCount DEF Counted
  <1>3. CASE version # 0
    <2>1. Savers \subseteq Savers'
      BY <1>3 DEF Savers
    <2>2. version \in Nat
      BY <1>1, SaversCount DEF FileInv, FileTypeOK
    <2> QED BY <1>1, <2>1, <2>2, SaversCount DEF Counted
  <1> QED BY <1>2, <1>3

LEMMA AsksKeepsMemory ==
  ASSUME FileInv, MemoryTyped, FileInv', NEW c \in Client, Asks(c),
         c = Ticker => collection = "schedules",
         UNCHANGED cacheVars, TickTypeOK', keyCache' \in Image \cup {Torn}
  PROVE  MemoryTyped'
  <1>1. /\ version' = version /\ collection' = collection
        /\ span[c].at \in {"idle", "got", "saved"}
        /\ span[c].at = "saved" => collection = "vault"
        /\ \A d \in Client : d # c => span'[d] = span[d]
    BY DEF Asks, Load, Refuse, Look, LoadCopy, FileInv, FileTypeOK
  <1>2. Counted'
    BY <1>1, CountedStays, TickerAssumption DEF MemoryTyped, Counted
  <1> QED BY <1>2 DEF MemoryTyped, CacheTypeOK, cacheVars

\* A save adds its client to those who have saved.
LEMMA SavedCounts ==
  ASSUME FileInv, Counted, NEW c \in Client, span[c].at \in {"loaded", "writing"}, Saved(c)
  PROVE  /\ version' \in 0 .. Cardinality(Client)
         /\ Counted'
  <1>1. /\ \A d \in Client : span'[d].at = IF d = c THEN "saved" ELSE span[d].at
        /\ collection' = collection
        /\ version' = IF collection = "profiles" THEN version + 1 ELSE version
    BY DEF Saved, FileInv, FileTypeOK, Spans
  <1>2. Savers' = Savers \cup {c} /\ c \notin Savers
    BY <1>1 DEF Savers
  <1>3. Savers \subseteq Client /\ Savers' \subseteq Client
    BY DEF Savers
  <1>4. Cardinality(Savers') = Cardinality(Savers) + 1
    BY <1>2, <1>3, SaversCount, FS_AddElement
  <1>5. version \in Nat
    BY <1>3, SaversCount DEF FileInv, FileTypeOK
  <1>6. version' \in Nat /\ version' <= Cardinality(Savers')
    BY <1>1, <1>3, <1>4, <1>5, SaversCount DEF Counted
  <1>7. collection # "schedules" => span'[Ticker].at = "idle"
    BY <1>1, TickerAssumption DEF Counted
  <1> QED BY <1>1, <1>3, <1>6, <1>7, SaversCount DEF Counted

LEMMA SaveStepKeepsFile ==
  ASSUME FileInv, Counted, NEW c \in Client, SaveStep(c)
  PROVE  FileInv' /\ Counted'
  <1>1. CASE Truncate(c)
    <2>1. FileInv'
      BY <1>1, TruncateKeepsFile
    <2>2. \A d \in Client : span'[d].at = IF d = c THEN "writing" ELSE span[d].at
      BY <1>1 DEF Truncate, FileInv, FileTypeOK, Spans
    <2> QED BY <1>1, <2>1, <2>2, CountedStays, TickerAssumption DEF Truncate, Counted
  <1>2. CASE Write(c) \/ Replace(c)
    <2>1. span[c].at \in {"loaded", "writing"} /\ Saved(c)
      BY <1>2 DEF Write, Replace
    <2> QED BY <1>2, <2>1, SavedCounts, SavedKeepsFile DEF Write, Replace
  <1>3. CASE SaveFails(c)
    <2>1. FileInv'
      BY <1>3, LeaveKeepsFile DEF SaveFails
    <2>2. \A d \in Client : span'[d].at = IF d = c THEN "done" ELSE span[d].at
      BY <1>3, NoSpans DEF SaveFails, FileInv, FileTypeOK
    <2> QED BY <1>3, <2>1, <2>2, CountedStays, TickerAssumption DEF SaveFails, Counted
  <1> QED BY <1>1, <1>2, <1>3 DEF SaveStep

\* Who has saved is done with it.
LEMMA FinishKeepsFile ==
  ASSUME FileInv, Counted, NEW c \in Client, span[c].at = "saved", span' = [span EXCEPT ![c] = Over],
         UNCHANGED <<collection, server, file, version, latest, raced, failures, now>>
  PROVE  FileInv' /\ Counted'
  <1>1. FileInv'
    BY LeaveKeepsFile
  <1>2. \A d \in Client : span'[d].at = IF d = c THEN "done" ELSE span[d].at
    BY NoSpans DEF FileInv, FileTypeOK
  <1> QED BY <1>1, <1>2, CountedStays, TickerAssumption DEF Counted

LEMMA AdvancedImage ==
  ASSUME FileInv, MemoryTyped, NEW keys \in SUBSET {k \in Key : DueNow(k)}
  PROVE  /\ Advanced(keys) \in Image
         /\ {<<k, cache[k]>> : k \in keys} \subseteq Key \X Entry
         /\ \A k \in Key : /\ cache[k] \in Entry
                           /\ Advanced(keys)[k].by = cache[k].by
                           /\ k \in keys => Advanced(keys)[k].due = now + 1 /\ cache[k].due <= now
                           /\ k \notin keys => Advanced(keys)[k] = cache[k]
  <1>1. cache \in Image /\ \A k \in Key : cache[k] \in Entry
    BY DEF MemoryTyped, CacheTypeOK, Image
  <1>2. now + 1 \in Times
    BY FileAssumption DEF FileInv, FileTypeOK, Times
  <1>3. ASSUME NEW k \in keys
        PROVE  /\ [cache[k] EXCEPT !.due = now + 1] \in Entry
               /\ [cache[k] EXCEPT !.due = now + 1].by = cache[k].by
               /\ [cache[k] EXCEPT !.due = now + 1].due = now + 1
    <2>1. k \in Key /\ cache[k] # NoEntry
      BY DEF DueNow, Has
    <2> QED BY <1>1, <1>2, <2>1 DEF Entry, NoEntry
  <1> QED BY <1>1, <1>3 DEF Advanced, Image, DueNow

\* Only the clock goes on.
LEMMA RestKeepsFile ==
  ASSUME FileInv, MemoryTyped, now' \in 0 .. MaxTime,
         UNCHANGED <<collection, server, file, version, span, latest, raced, failures>>
  PROVE  FileInv' /\ Counted'
  <1>1. FileTypeOK' /\ Decided' /\ Images'
    BY DEF FileInv, FileTypeOK, Decided, Images
  <1>2. FilesSound'
    BY DEF FileInv, FilesSound, EditsKept, FileReadable
  <1>3. \A c \in Client : Brings(c)' <=> Brings(c)
    BY DEF Brings
  <1>4. Current'
    BY <1>3 DEF FileInv, Current
  <1>5. Counted'
    BY DEF MemoryTyped, Counted, Savers
  <1> QED BY <1>1, <1>2, <1>4, <1>5 DEF FileInv

\* The files, and what is in memory of them, keep their types and stay sound at
\* every step.
LEMMA FileStepsKeep ==
  ASSUME FileInv, MemoryTyped, FileSteps
  PROVE  FileInv' /\ MemoryTyped'
  <1>1. ASSUME NEW c \in Requests,
               (\E k \in Key : FrontEnd(c, k)) \/ (GoOn(c) /\ UNCHANGED keyCache),
               UNCHANGED <<cacheVars, tickVars>>
        PROVE  FileInv' /\ MemoryTyped'
    <2>1. c \in Operator /\ c \in Client /\ c # Ticker
      BY RequestAssumption, OperatorAssumption DEF Requests
    <2>2. Asks(c) /\ keyCache' \in Image \cup {Torn}
      BY <1>1, <2>1, FrontEndAsks, GoOnAsks DEF FileInv, MemoryTyped
    <2>3. TickTypeOK'
      BY <1>1 DEF MemoryTyped, TickTypeOK, tickVars, Entry, NoEntry, Times
    <2> QED BY <1>1, <2>1, <2>2, <2>3, AsksKeepsFile, AsksKeepsMemory
  <1>2. CASE KeyCacheExpires /\ UNCHANGED <<cacheVars, tickVars>>
    <2>1. UNCHANGED <<fileVars, cacheVars, tickVars>> /\ keyCache' = Torn
      BY <1>2 DEF KeyCacheExpires
    <2>2. now' \in 0 .. MaxTime
      BY <2>1 DEF fileVars, FileInv, FileTypeOK
    <2>3. FileInv' /\ Counted'
      BY <2>1, <2>2, RestKeepsFile DEF fileVars
    <2> QED BY <2>1, <2>3 DEF MemoryTyped, CacheTypeOK, TickTypeOK, cacheVars, tickVars
  <1>3. ASSUME NEW c \in Client, SaveStep(c), UNCHANGED <<keyCache, cacheVars, tickVars>>
        PROVE  FileInv' /\ MemoryTyped'
    <2>1. FileInv' /\ Counted'
      BY <1>3, SaveStepKeepsFile DEF MemoryTyped
    <2> QED BY <1>3, <2>1 DEF MemoryTyped, CacheTypeOK, TickTypeOK, cacheVars, tickVars
  <1>4. ASSUME NEW c \in Operator, TellTrigger(c) \/ TellNobody(c), UNCHANGED <<keyCache, tickVars>>
        PROVE  FileInv' /\ MemoryTyped'
    <2>1. /\ c \in Client /\ span[c].at = "saved" /\ span' = [span EXCEPT ![c] = Over]
          /\ UNCHANGED <<collection, server, file, version, latest, raced, failures, now>>
      BY <1>4, OperatorAssumption DEF TellTrigger, TellNobody, Finish
    <2>2. FileInv' /\ Counted'
      BY <2>1, FinishKeepsFile DEF MemoryTyped
    <2>3. /\ span[c].image \in Image /\ span[c].stale \in BOOLEAN
          /\ collection = "exports" => span[c].key \in Key
      BY <2>1 DEF FileInv, Images, FileTypeOK, Spans
    <2>4. CASE TellTrigger(c)
      <3>1. cache' \in Image
        BY <2>3, <2>4 DEF TellTrigger, MemoryTyped, CacheTypeOK, Image
      <3>2. crossed' \in BOOLEAN /\ outside' \subseteq Key /\ UNCHANGED <<seen, reading>>
        BY <2>3, <2>4 DEF TellTrigger, MemoryTyped, CacheTypeOK
      <3> QED BY <1>4, <2>2, <3>1, <3>2 DEF MemoryTyped, CacheTypeOK, TickTypeOK, tickVars
    <2>5. CASE TellNobody(c)
      <3>1. outside' \subseteq Key
        BY <2>3, <2>5 DEF TellNobody, MemoryTyped, CacheTypeOK
      <3>2. UNCHANGED <<cache, seen, reading, crossed>>
        BY <2>5 DEF TellNobody
      <3> QED BY <1>4, <2>2, <3>1, <3>2 DEF MemoryTyped, CacheTypeOK, TickTypeOK, tickVars
    <2> QED BY <1>4, <2>4, <2>5
  <1>5. CASE Reload /\ UNCHANGED <<keyCache, tickVars>>
    <2>1. UNCHANGED fileVars
      BY <1>5 DEF Reload, ReadSchedules, StoreSchedules, ReadProfiles, StoreProfiles
    <2>0. now' \in 0 .. MaxTime
      BY <2>1 DEF fileVars, FileInv, FileTypeOK
    <2>2. FileInv' /\ Counted'
      BY <2>0, <2>1, RestKeepsFile DEF fileVars
    <2>3. /\ CacheTypeOK'
          /\ reading' # NotReading => reading'.image \in Image
      <3>1. CASE ReadSchedules
        BY <3>1, SaversCount DEF ReadSchedules, MemoryTyped, CacheTypeOK, FileInv, FileTypeOK
      <3>2. CASE ReadProfiles
        <4>1. file \in Image /\ version \in 0 .. Cardinality(Client)
          BY <3>2 DEF ReadProfiles, FileInv, FileTypeOK, FilesSound, FileReadable, Atomic
        <4> QED BY <3>2, <4>1 DEF ReadProfiles, MemoryTyped, CacheTypeOK
      <3>3. CASE StoreSchedules \/ StoreProfiles
        <4>1. reading.image \in Image /\ version \in 0 .. Cardinality(Client)
          BY <3>3 DEF StoreSchedules, StoreProfiles, MemoryTyped, FileInv, FileTypeOK
        <4>2. /\ cache' = reading.image /\ reading' = NotReading /\ crossed' \in BOOLEAN
              /\ seen' \in 0 .. Cardinality(Client) /\ outside' = outside
          BY <3>3, <4>1 DEF StoreSchedules, StoreProfiles, MemoryTyped, CacheTypeOK, MovesBack
        <4>3. NotReading \in [image : Image \cup {Torn}, version : 0 .. Cardinality(Client)]
          BY SaversCount DEF NotReading
        <4> QED BY <4>1, <4>2, <4>3 DEF MemoryTyped, CacheTypeOK
      <3> QED BY <1>5, <3>1, <3>2, <3>3 DEF Reload
    <2> QED BY <1>5, <2>2, <2>3 DEF MemoryTyped, TickTypeOK, tickVars
  <1>6. CASE Tick /\ UNCHANGED keyCache
    <2>1. PICK keys \in SUBSET {k \in Key : DueNow(k)}, full \in SUBSET Key :
            /\ full \subseteq keys /\ Submit(keys, full)
            /\ IF full = keys THEN span[Ticker].at = "idle" /\ UNCHANGED fileVars
               ELSE LoadCopy(Ticker, "all", Advanced(keys \ full))
      BY <1>6 DEF Tick
    <2>2. /\ Advanced(keys \ full) \in Image
          /\ {<<k, cache[k]>> : k \in keys} \subseteq Time
          /\ {<<k, cache[k]>> : k \in full} \subseteq Time
      BY <2>1, AdvancedImage DEF Time
    <2>3. collection = "schedules" /\ UNCHANGED <<keyCache, cacheVars>>
      BY <1>6 DEF Tick
    <2>4. TickTypeOK'
      BY <2>1, <2>2 DEF MemoryTyped, TickTypeOK, Submit, Time, Entry, NoEntry, Times
    <2>5. CASE full = keys
      <3>1. UNCHANGED <<collection, server, file, version, span, latest, raced, failures, now>>
        BY <2>1, <2>5 DEF fileVars
      <3>2. now' \in 0 .. MaxTime
        BY <3>1 DEF FileInv, FileTypeOK
      <3>3. FileInv' /\ Counted'
        BY <3>1, <3>2, RestKeepsFile
      <3> QED BY <2>3, <2>4, <3>3 DEF MemoryTyped, CacheTypeOK, cacheVars
    <2>6. CASE full # keys
      <3>1. Asks(Ticker)
        BY <2>1, <2>2, <2>3, <2>6 DEF Asks
      <3>2. FileInv'
        BY <3>1, AsksKeepsFile, TickerAssumption
      <3> QED BY <2>3, <2>4, <3>1, <3>2, AsksKeepsMemory, TickerAssumption DEF MemoryTyped
    <2> QED BY <2>5, <2>6
  <1>7. CASE EndTick /\ UNCHANGED keyCache
    <2>1. FileInv' /\ span[Ticker].at \in {"saved", "done"}
      BY <1>7, LeaveKeepsFile, TickerAssumption DEF EndTick
    <2>2. collection = "schedules" /\ version = 0
      BY <2>1 DEF MemoryTyped, Counted
    <2>3. Counted'
      BY <1>7, <2>1, <2>2, CountedStays DEF EndTick, MemoryTyped
    <2>4. cache' \in Image
      BY <1>7, TickerAssumption DEF EndTick, FileInv, Images, MemoryTyped, CacheTypeOK
    <2> QED BY <1>7, <2>1, <2>3, <2>4 DEF EndTick, MemoryTyped, CacheTypeOK, TickTypeOK, tickVars
  <1>8. CASE RestartScheduler /\ UNCHANGED keyCache
    <2>1. FileInv'
      BY <1>8, LeaveKeepsFile, TickerAssumption DEF RestartScheduler
    <2>2. collection = "schedules" /\ version = 0
      BY <1>8 DEF RestartScheduler, MemoryTyped, Counted
    <2>3. Counted'
      BY <1>8, <2>1, <2>2, CountedStays DEF RestartScheduler, MemoryTyped
    <2>4. cache' \in Image
      BY <1>8 DEF RestartScheduler, FileInv, FileTypeOK
    <2>5. NotReading \in [image : Image \cup {Torn}, version : 0 .. Cardinality(Client)]
      BY SaversCount DEF NotReading
    <2>6. reading' = NotReading /\ UNCHANGED <<seen, outside, crossed, tickVars, keyCache>>
      BY <1>8 DEF RestartScheduler
    <2> QED BY <2>1, <2>3, <2>4, <2>5, <2>6 DEF MemoryTyped, CacheTypeOK, TickTypeOK, tickVars
  <1>9. CASE TimePasses /\ UNCHANGED keyCache
    <2>1. now' \in 0 .. MaxTime
      BY <1>9, FileAssumption DEF TimePasses, FileInv, FileTypeOK
    <2> QED BY <1>9, <2>1, RestKeepsFile DEF TimePasses, MemoryTyped, CacheTypeOK, TickTypeOK,
               cacheVars, tickVars
  <1>10. CASE \E c \in Operator :
                (TellTrigger(c) \/ TellNobody(c)) /\ UNCHANGED <<keyCache, tickVars>>
    BY <1>4, <1>10
  <1>11. CASE (Tick \/ EndTick \/ RestartScheduler \/ TimePasses) /\ UNCHANGED keyCache
    BY <1>6, <1>7, <1>8, <1>9, <1>11
  <1> QED BY <1>1, <1>2, <1>3, <1>5, <1>10, <1>11 DEF FileSteps

-----------------------------------------------------------------------------
(* Steps of the files keep what the scheduler relies on *)

LEMMA LaterOrders ==
  /\ \A a : Later(a, a)
  /\ \A a, b, c : Later(a, b) /\ Later(b, c) => Later(a, c)
  /\ \A a, b : Later(a, b) /\ Later(b, a) => a = b
  BY FileAssumption DEF Later

LEMMA RequesterIs == Requester \in Operator /\ Requester \in Client /\ Requester # Ticker
  BY RequestAssumption, OperatorAssumption DEF Requester

\* The request begins: what it will save is later than what is there.
LEMMA RequestTicks ==
  ASSUME FileInv, MemoryTyped, TickInv, collection = "schedules", NEW k \in Key, NEW op, NEW entry,
         Load(Requester, "idle", op, k, entry),
         (op = "add" /\ entry = Fields(Requester)) \/ (op = "delete" /\ entry = NoEntry),
         UNCHANGED <<cacheVars, tickVars>>
  PROVE  TickInv'
  <1> USE RequesterIs, TickerAssumption
  <1>1. /\ UNCHANGED <<collection, file, latest, raced, failures, now, cache, reading, crossed,
                       fired, unqueued, refired>>
        /\ file \in Image /\ Accepted(op, k) /\ span[Requester].at = "idle"
        /\ \A c \in Client : c # Requester => span'[c] = span[c]
        /\ span'[Requester].at = "loaded" /\ span'[Requester].op = op
        /\ span'[Requester].key = k /\ span'[Requester].image = Edited(op, k, entry)
    BY DEF Load, cacheVars, tickVars, FileInv, FileTypeOK
  <1>2. OneRequest'
    BY <1>1 DEF TickInv, OneRequest, Ticking
  <1>3. ASSUME failures = 0, ~raced, ~crossed
        PROVE  (InOrder /\ RequestIsLater /\ FiredPassed /\ refired \subseteq unqueued)'
    <2>1. InOrder /\ FiredPassed /\ refired \subseteq unqueued
      BY <1>3 DEF TickInv
    <2>2. InOrder' /\ FiredPassed' /\ refired' \subseteq unqueued'
      BY <1>1, <2>1 DEF InOrder, FiredPassed, Passed, Ticking
    <2>3. latest[k] = file[k].by /\ latest[k] \in {Initial, Nobody}
      BY <1>1, <1>3, <2>1, TornAssumption DEF InOrder, FileInv, FilesSound, EditsKept
    <2>4. Edited(op, k, entry)[k] = entry
      BY <1>1 DEF Edited, Image
    <2>5. Later(entry.by, latest[k])
      <3>1. CASE op = "add"
        <4>1. latest[k] = Nobody
          BY <1>1, <2>3, <3>1 DEF Accepted, Has, NoEntry
        <4> QED BY <3>1, <4>1, FileAssumption DEF Later, Fields
      <3>2. CASE op = "delete"
        BY <2>3, <3>2, FileAssumption DEF Later, NoEntry
      <3> QED BY <3>1, <3>2
    <2>6. RequestIsLater'
      BY <1>1, <2>4, <2>5 DEF RequestIsLater
    <2> QED BY <2>2, <2>6
  <1> QED BY <1>1, <1>2, <1>3 DEF TickInv

\* The request is over.
LEMMA OverTicks ==
  ASSUME FileInv, MemoryTyped, TickInv, collection = "schedules",
         span' = [span EXCEPT ![Requester] = Over],
         UNCHANGED <<collection, latest, raced, failures, cache, reading, crossed, fired,
                   unqueued, refired>>
  PROVE  TickInv'
  <1> USE RequesterIs, TickerAssumption
  <1>1. /\ \A c \in Client : c # Requester => span'[c] = span[c]
        /\ span'[Requester].at = "done"
    BY NoSpans DEF FileInv, FileTypeOK
  <1>2. OneRequest'
    BY <1>1 DEF TickInv, OneRequest, Ticking
  <1>3. ASSUME failures = 0, ~raced, ~crossed
        PROVE  (InOrder /\ RequestIsLater /\ FiredPassed /\ refired \subseteq unqueued)'
    <2>1. InOrder /\ FiredPassed /\ refired \subseteq unqueued
      BY <1>1, <1>3 DEF TickInv
    <2> QED BY <1>1, <2>1 DEF InOrder, FiredPassed, Passed, Ticking, RequestIsLater
  <1> QED BY <1>2, <1>3 DEF TickInv

\* The request, or the ticker, saves; nobody else does.
LEMMA SaveTicks ==
  ASSUME FileInv, MemoryTyped, TickInv, collection = "schedules", NEW c \in Client, SaveStep(c),
         UNCHANGED <<cacheVars, tickVars>>
  PROVE  TickInv'
  <1> USE RequesterIs, TickerAssumption
  <1>0. /\ span[c].at \in {"loaded", "writing"} /\ collection' = collection
        /\ UNCHANGED <<cache, reading, crossed, fired,
                   unqueued, refired>>
    BY DEF SaveStep, Truncate, Write, Replace, SaveFails, Saved, cacheVars, tickVars
  <1>1. c \in {Requester, Ticker}
    BY <1>0 DEF TickInv, OneRequest
  <1>2. CASE SaveFails(c)
    <2>1. /\ failures' > 0 /\ span'[c].at = "done"
          /\ \A d \in Client : d # c => span'[d] = span[d]
      BY <1>2, NoSpans DEF SaveFails, Failure, FileInv, FileTypeOK
    <2> QED BY <1>0, <1>1, <2>1 DEF TickInv, OneRequest, Ticking
  <1>3. CASE Truncate(c)
    <2>1. /\ UNCHANGED <<latest, raced, failures>>
          /\ \A d \in Client :
               /\ span'[d].at = (IF d = c THEN "writing" ELSE span[d].at)
               /\ span'[d].op = span[d].op /\ span'[d].key = span[d].key
               /\ span'[d].image = span[d].image /\ span'[d].stale = span[d].stale
      BY <1>3 DEF Truncate, FileInv, FileTypeOK, Spans
    <2>2. Ticking' = Ticking
      BY <1>0, <2>1 DEF Ticking
    <2>3. OneRequest'
      BY <1>0, <1>1, <2>1, <2>2 DEF TickInv, OneRequest
    <2>4. InOrder => InOrder'
      BY <1>0, <2>1, <2>2 DEF InOrder
    <2>5. RequestIsLater => RequestIsLater'
      BY <1>0, <2>1 DEF RequestIsLater
    <2>6. FiredPassed => FiredPassed'
      BY <1>0, <2>1, <2>2 DEF FiredPassed, Passed
    <2> QED BY <1>0, <2>1, <2>3, <2>4, <2>5, <2>6 DEF TickInv
  <1>4. CASE Write(c) \/ Replace(c)
    <2>1. /\ UNCHANGED failures /\ latest' = Editors(c) /\ raced' = (raced \/ span[c].stale)
          /\ \A d \in Client :
               /\ span'[d].at = (IF d = c THEN "saved" ELSE span[d].at)
               /\ span'[d].op = span[d].op /\ span'[d].key = span[d].key
               /\ span'[d].image = span[d].image
               /\ ~span'[d].stale => ~span[d].stale
      BY <1>4 DEF Write, Replace, Saved, FileInv, FileTypeOK, Spans
    <2>2. Ticking' = Ticking
      BY <1>0, <2>1 DEF Ticking
    <2>3. OneRequest'
      BY <1>0, <1>1, <2>1, <2>2 DEF TickInv, OneRequest
    <2>4. ASSUME failures' = 0, ~raced', ~crossed'
          PROVE  (InOrder /\ RequestIsLater /\ FiredPassed /\ refired \subseteq unqueued)'
      <3>1. InOrder /\ RequestIsLater /\ FiredPassed /\ refired \subseteq unqueued /\ ~span[c].stale
        BY <1>0, <2>1, <2>4 DEF TickInv
      <3>2. FiredPassed' /\ refired' \subseteq unqueued'
        BY <1>0, <2>1, <2>2, <3>1 DEF FiredPassed, Passed
      <3>3. CASE c = Requester
        <4>1. latest' = [latest EXCEPT ![span[c].key] = span[c].image[span[c].key].by]
          BY <1>0, <2>1, <3>3 DEF Editors, TickInv, OneRequest
        <4>2. Later(span[c].image[span[c].key].by, latest[span[c].key])
          BY <1>0, <3>1, <3>3 DEF RequestIsLater
        <4>3. \A k \in Key : Later(latest'[k], latest[k])
          BY <4>1, <4>2, LaterOrders DEF FileInv, FileTypeOK
        <4>4. InOrder'
          BY <1>0, <2>1, <2>2, <3>1, <3>3, <4>3, LaterOrders DEF InOrder
        <4>5. RequestIsLater'
          BY <2>1, <3>3 DEF RequestIsLater
        <4> QED BY <3>2, <4>4, <4>5
      <3>4. CASE c = Ticker
        <4>1. latest' = latest
          BY <1>0, <2>1, <3>4 DEF Editors, TickInv, OneRequest, Ticking
        <4>2. InOrder'
          BY <1>0, <2>1, <2>2, <3>1, <3>4, <4>1 DEF InOrder
        <4>3. RequestIsLater'
          BY <2>1, <3>1, <3>4, <4>1 DEF RequestIsLater
        <4> QED BY <3>2, <4>2, <4>3
      <3> QED BY <1>1, <3>3, <3>4
    <2> QED BY <1>0, <2>3, <2>4 DEF TickInv
  <1> QED BY <1>2, <1>3, <1>4 DEF SaveStep

\* The file is read, or what was read goes into memory.
LEMMA ReloadTicks ==
  ASSUME FileInv, MemoryTyped, TickInv, collection = "schedules", Reload, UNCHANGED tickVars
  PROVE  TickInv'
  <1>1. UNCHANGED <<collection, span, latest, raced, failures, fired, unqueued, refired>>
    BY DEF Reload, ReadSchedules, StoreSchedules, ReadProfiles, StoreProfiles, fileVars, tickVars
  <1>2. OneRequest'
    BY <1>1 DEF TickInv, OneRequest, Ticking
  <1>3. RequestIsLater => RequestIsLater'
    BY <1>1 DEF RequestIsLater
  <1>4. CASE ReadSchedules
    <2>1. /\ file \in Image /\ reading'.image = file /\ UNCHANGED <<cache, crossed>>
      BY <1>4 DEF ReadSchedules, FileInv, FileTypeOK
    <2>2. ~raced => \A k \in Key : file[k].by = latest[k]
      BY <1>4 DEF ReadSchedules, FileInv, FilesSound, EditsKept
    <2>3. ~raced /\ InOrder => InOrder'
      BY <1>1, <2>1, <2>2, LaterOrders DEF InOrder, Ticking
    <2>4. FiredPassed => FiredPassed'
      BY <1>1, <2>1 DEF FiredPassed, Passed, Ticking
    <2> QED BY <1>1, <1>2, <1>3, <2>1, <2>3, <2>4 DEF TickInv
  <1>5. CASE StoreSchedules
    <2>1. /\ reading # NotReading /\ cache' = reading.image /\ reading' = NotReading
          /\ crossed' = (crossed \/ MovesBack(reading.image))
          /\ reading.image \in Image /\ cache \in Image
      BY <1>5 DEF StoreSchedules, MemoryTyped, CacheTypeOK
    <2>2. InOrder => InOrder'
      BY <1>1, <2>1, LaterOrders DEF InOrder, Ticking
    <2>3. ASSUME FiredPassed, InOrder, ~MovesBack(reading.image)
          PROVE  FiredPassed'
      <3> SUFFICES ASSUME NEW k \in Key, NEW e \in Entry, <<k, e>> \in fired \ unqueued, ~Ticking
                   PROVE  Passed(k, e, reading.image)
        BY <1>1, <2>1, <2>3 DEF FiredPassed, Passed, Ticking
      <3>1. Passed(k, e, cache)
        BY <2>3 DEF FiredPassed
      <3>2. Later(reading.image[k].by, cache[k].by)
        BY <2>1, <2>3 DEF InOrder
      <3>3. /\ Later(reading.image[k].by, e.by)
            /\ reading.image[k].by = e.by => cache[k].by = e.by
        BY <3>1, <3>2, LaterOrders DEF Passed
      <3>4. cache[k].by = reading.image[k].by => ~(reading.image[k].due < cache[k].due)
        BY <2>3 DEF MovesBack
      <3>5. reading.image[k].due \in Nat /\ cache[k].due \in Nat /\ e.due \in Nat
        BY <2>1, FileAssumption DEF Image, Entry, NoEntry, Times
      <3> QED BY <3>1, <3>3, <3>4, <3>5 DEF Passed
    <2> QED BY <1>1, <1>2, <1>3, <2>1, <2>2, <2>3 DEF TickInv
  <1>6. CASE ReadProfiles \/ StoreProfiles
    BY <1>6 DEF ReadProfiles, StoreProfiles
  <1> QED BY <1>4, <1>5, <1>6 DEF Reload

\* A second job is submitted only for a time whose first the queue refused.
LEMMA SubmitPasses ==
  ASSUME FileInv, MemoryTyped, FiredPassed, refired \subseteq unqueued, ~Ticking,
         NEW keys \in SUBSET {k \in Key : DueNow(k)}, NEW full \in SUBSET keys,
         Submit(keys, full)
  PROVE  /\ refired' \subseteq unqueued'
         /\ \A k \in Key, e \in Entry :
              <<k, e>> \in fired' \ unqueued' =>
                \/ <<k, e>> \in fired \ unqueued /\ Passed(k, e, cache)
                \/ k \in keys \ full /\ e = cache[k]
  <1>1. \A k \in Key : cache[k] \in Entry /\ cache[k].due \in Nat
    BY AdvancedImage, FileAssumption DEF MemoryTyped, CacheTypeOK, Image, Entry, NoEntry, Times
  <1>2. \A k \in Key, e \in Entry : <<k, e>> \in fired \ unqueued => Passed(k, e, cache)
    BY DEF FiredPassed
  <1>3. \A k \in Key : <<k, cache[k]>> \notin fired \ unqueued
    BY <1>1, <1>2 DEF Passed
  <1>4. /\ fired' = fired \cup {<<k, cache[k]>> : k \in keys}
        /\ unqueued' = unqueued \cup {<<k, cache[k]>> : k \in full}
        /\ refired' = refired \cup (fired \cap {<<k, cache[k]>> : k \in keys})
    BY DEF Submit
  <1>5. refired' \subseteq unqueued'
    BY <1>3, <1>4
  <1>6. ASSUME NEW k \in Key, NEW e \in Entry, <<k, e>> \in fired', <<k, e>> \notin unqueued',
               <<k, e>> \notin fired
        PROVE  k \in keys \ full /\ e = cache[k]
    BY <1>4, <1>6
  <1> QED BY <1>2, <1>4, <1>5, <1>6

\* A job is submitted only for what is later than all that the queue took one for.
LEMMA TickTicks ==
  ASSUME FileInv, MemoryTyped, TickInv, Tick
  PROVE  TickInv'
  <1> USE RequesterIs, TickerAssumption
  <1>1. PICK keys \in SUBSET {k \in Key : DueNow(k)}, full \in SUBSET Key :
          /\ full \subseteq keys /\ Submit(keys, full)
          /\ IF full = keys THEN span[Ticker].at = "idle" /\ UNCHANGED fileVars
             ELSE LoadCopy(Ticker, "all", Advanced(keys \ full))
    BY DEF Tick
  <1>2. /\ collection = "schedules" /\ ~Ticking
        /\ UNCHANGED <<collection, latest, raced, failures, cache, reading, crossed>>
    BY <1>1 DEF Tick, cacheVars, fileVars, LoadCopy, Ticking
  <1>3. CASE full = keys
    <2>1. UNCHANGED span /\ Ticking' = Ticking
      BY <1>1, <1>3 DEF fileVars, Ticking
    <2>2. OneRequest'
      BY <1>2, <2>1 DEF TickInv, OneRequest
    <2>3. ASSUME failures = 0, ~raced, ~crossed
          PROVE  (InOrder /\ RequestIsLater /\ FiredPassed /\ refired \subseteq unqueued)'
      <3>1. InOrder /\ RequestIsLater /\ FiredPassed /\ refired \subseteq unqueued
        BY <1>2, <2>3 DEF TickInv
      <3>2. InOrder' /\ RequestIsLater'
        BY <1>2, <2>1, <3>1 DEF InOrder, RequestIsLater
      <3>3. refired' \subseteq unqueued'
        BY <1>1, <1>2, <3>1, SubmitPasses
      <3>4. FiredPassed'
        <4> SUFFICES ASSUME NEW k \in Key, NEW e \in Entry, <<k, e>> \in fired' \ unqueued'
                     PROVE  Passed(k, e, cache)
          BY <1>2, <2>1 DEF FiredPassed, Passed
        <4> QED BY <1>1, <1>2, <1>3, <3>1, SubmitPasses
      <3> QED BY <3>2, <3>3, <3>4
    <2> QED BY <1>2, <2>2, <2>3 DEF TickInv
  <1>4. CASE full # keys
    <2> DEFINE image == Advanced(keys \ full)
    <2>1. /\ \A c \in Client : c # Ticker => span'[c] = span[c]
          /\ span'[Ticker].at = "loaded" /\ span'[Ticker].op = "all"
          /\ span'[Ticker].image = image
          /\ Ticking'
      <3>1. span' = [span EXCEPT ![Ticker] =
                       [NoSpan EXCEPT !.at = "loaded", !.op = "all", !.image = image,
                                      !.stale = TRUE /\ Behind(image)]]
        BY <1>1, <1>4 DEF LoadCopy
      <3>2. span \in [Client -> Spans]
        BY DEF FileInv, FileTypeOK
      <3> QED BY <3>1, <3>2 DEF NoSpan, Ticking
    <2>2. \A k \in Key : /\ cache[k] \in Entry
                         /\ cache[k].due \in Nat /\ now \in Nat
                         /\ image[k].by = cache[k].by
                         /\ k \in keys \ full => image[k].due = now + 1 /\ cache[k].due <= now
                         /\ k \notin keys \ full => image[k] = cache[k]
      BY AdvancedImage, FileAssumption DEF Entry, NoEntry, Times, FileInv, FileTypeOK
    <2> HIDE DEF image
    <2>3. OneRequest'
      BY <1>2, <2>1 DEF TickInv, OneRequest
    <2>4. ASSUME failures = 0, ~raced, ~crossed
          PROVE  (InOrder /\ RequestIsLater /\ FiredPassed /\ refired \subseteq unqueued)'
      <3>1. InOrder /\ RequestIsLater /\ FiredPassed /\ refired \subseteq unqueued
        BY <1>2, <2>4 DEF TickInv
      <3>2. RequestIsLater'
        BY <1>2, <2>1, <3>1 DEF RequestIsLater
      <3>3. InOrder'
        BY <1>2, <2>1, <2>2, <3>1, LaterOrders DEF InOrder
      <3>4. refired' \subseteq unqueued'
        BY <1>1, <1>2, <3>1, SubmitPasses
      <3>5. FiredPassed'
        <4> SUFFICES ASSUME NEW k \in Key, NEW e \in Entry, <<k, e>> \in fired' \ unqueued'
                     PROVE  Passed(k, e, image)
          BY <2>1 DEF FiredPassed, Passed
        <4>1. \/ Passed(k, e, cache)
              \/ k \in keys \ full /\ e = cache[k]
          BY <1>1, <1>2, <3>1, SubmitPasses
        <4>2. e.due \in Nat
          BY FileAssumption DEF Entry, NoEntry, Times
        <4>3. CASE Passed(k, e, cache)
          BY <2>2, <4>2, <4>3 DEF Passed
        <4>4. CASE k \in keys \ full /\ e = cache[k]
          BY <2>2, <4>4, LaterOrders DEF Passed
        <4> QED BY <4>1, <4>3, <4>4
      <3> QED BY <3>2, <3>3, <3>4, <3>5
    <2> QED BY <1>2, <2>3, <2>4 DEF TickInv
  <1> QED BY <1>3, <1>4

\* What was saved goes back into memory.
LEMMA EndTickTicks ==
  ASSUME FileInv, MemoryTyped, TickInv, EndTick, collection = "schedules"
  PROVE  TickInv'
  <1> USE RequesterIs, TickerAssumption
  <1>1. /\ span[Ticker].at \in {"saved", "done"}
        /\ cache' = IF span[Ticker].at = "saved" THEN span[Ticker].image ELSE cache
        /\ \A c \in Client : c # Ticker => span'[c] = span[c]
        /\ span'[Ticker].at = "idle"
        /\ UNCHANGED <<collection, latest, raced, failures, reading, crossed, fired,
                   unqueued, refired>>
    BY NoSpans DEF EndTick, tickVars, FileInv, FileTypeOK
  <1>2. OneRequest'
    BY <1>1 DEF TickInv, OneRequest, Ticking
  <1>3. ASSUME failures = 0, ~raced, ~crossed
        PROVE  (InOrder /\ RequestIsLater /\ FiredPassed /\ refired \subseteq unqueued)'
    <2>1. InOrder /\ RequestIsLater /\ FiredPassed /\ refired \subseteq unqueued
      BY <1>3 DEF TickInv
    <2>2. Ticking /\ ~Ticking' /\ cache' = span[Ticker].image
      BY <1>1, <1>3 DEF TickInv, OneRequest, Ticking
    <2>3. InOrder'
      BY <1>1, <2>1, <2>2, LaterOrders DEF InOrder
    <2>4. FiredPassed'
      BY <1>1, <2>1, <2>2 DEF FiredPassed, Passed
    <2>5. RequestIsLater'
      BY <1>1, <2>1 DEF RequestIsLater
    <2> QED BY <1>1, <2>1, <2>3, <2>4, <2>5
  <1> QED BY <1>1, <1>2, <1>3 DEF TickInv

\* What the scheduler relies on stays as it was.
LEMMA StillTicks ==
  ASSUME TickInv,
         UNCHANGED <<collection, span, latest, raced, failures, cache, reading, crossed, fired,
                     unqueued, refired>>
  PROVE  TickInv'
  <1>1. /\ OneRequest => OneRequest'
        /\ InOrder => InOrder'
        /\ RequestIsLater => RequestIsLater'
        /\ FiredPassed => FiredPassed'
    BY DEF OneRequest, InOrder, RequestIsLater, FiredPassed, Passed, Ticking
  <1> QED BY <1>1 DEF TickInv

\* What the scheduler relies on is kept at every step.
LEMMA FileStepsTick ==
  ASSUME FileInv, MemoryTyped, TickInv, FileSteps
  PROVE  TickInv'
  <1> USE RequesterIs, TickerAssumption
  <1>1. CASE collection # "schedules"
    <2>1. collection' = collection /\ refired' = refired
      <3>1. ASSUME NEW c \in Client, Asks(c)
            PROVE  collection' = collection
        BY <3>1 DEF Asks, Load, Refuse, Look, LoadCopy
      <3>2. ASSUME NEW c \in Requests, NEW k \in Key, FrontEnd(c, k)
            PROVE  collection' = collection
        BY <3>1, <3>2, FrontEndAsks, OperatorAssumption, RequestAssumption
           DEF Requests, FileInv, MemoryTyped
      <3>3. ASSUME NEW c \in Requests, GoOn(c)
            PROVE  collection' = collection
        BY <3>3 DEF GoOn, Load, Refuse
      <3>4. ASSUME NEW c \in Client, SaveStep(c)
            PROVE  collection' = collection
        BY <3>4 DEF SaveStep, Truncate, Write, Replace, SaveFails, Saved
      <3>5. (KeyCacheExpires \/ Reload \/ EndTick \/ RestartScheduler \/ TimePasses
               \/ \E c \in Operator : TellTrigger(c) \/ TellNobody(c)) => collection' = collection
        BY DEF KeyCacheExpires, fileVars, Reload, ReadSchedules, StoreSchedules, ReadProfiles,
               StoreProfiles, EndTick, RestartScheduler, TimePasses, TellTrigger, TellNobody, Finish
      <3>6. ~Tick
        BY <1>1 DEF Tick
      <3>7. refired' = refired
        BY <3>6 DEF FileSteps, tickVars, EndTick, RestartScheduler, TimePasses
      <3> QED BY <3>2, <3>3, <3>4, <3>5, <3>6, <3>7 DEF FileSteps
    <2> QED BY <1>1, <2>1 DEF TickInv, OneRequest
  <1>2. CASE collection = "schedules"
    <2>1. ASSUME NEW c \in Requests,
                 (\E k \in Key : FrontEnd(c, k)) \/ GoOn(c), UNCHANGED <<cacheVars, tickVars>>
          PROVE  TickInv'
      <3>1. c = Requester
        BY <1>2 DEF Requests, Requester
      <3>2. ~GoOn(c)
        BY <1>2, <3>1 DEF GoOn, Load, Refuse, TickInv, OneRequest
      <3>3. PICK k \in Key : Add(c, k) \/ Delete(c, k)
        BY <1>2, <2>1, <3>1, <3>2, FrontEndAsks DEF FileInv, MemoryTyped
      <3>4. CASE Refuse(c, "idle")
        BY <1>2, <2>1, <3>1, <3>4, OverTicks DEF Refuse, cacheVars, tickVars
      <3>5. CASE ~Refuse(c, "idle")
        BY <1>2, <2>1, <3>1, <3>3, <3>5, RequestTicks DEF Add, Delete
      <3> QED BY <3>4, <3>5
    <2>2. CASE KeyCacheExpires /\ UNCHANGED <<cacheVars, tickVars>>
      <3>1. UNCHANGED <<collection, span, latest, raced, failures, cache, reading, crossed, fired,
                        unqueued, refired>>
        BY <2>2 DEF KeyCacheExpires, fileVars, cacheVars, tickVars
      <3> QED BY <3>1, StillTicks
    <2>3. CASE TimePasses
      <3>1. UNCHANGED <<collection, span, latest, raced, failures, cache, reading, crossed, fired,
                        unqueued, refired>>
        BY <2>3 DEF TimePasses, cacheVars, tickVars
      <3> QED BY <3>1, StillTicks
    <2>4. ASSUME NEW c \in Operator, TellTrigger(c) \/ TellNobody(c), UNCHANGED tickVars
          PROVE  TickInv'
      <3>1. TellNobody(c)
        BY <1>2, <2>4 DEF TellTrigger, Tells
      <3>2. c = Requester
        BY <1>2, <3>1, OperatorAssumption, RequestAssumption
           DEF TellNobody, Finish, TickInv, OneRequest
      <3> QED BY <1>2, <2>4, <3>1, <3>2, OverTicks
              DEF TellNobody, Finish, tickVars, FileInv, FileTypeOK
    <2>5. CASE RestartScheduler
      <3>1. /\ failures' > 0 /\ span'[Ticker].at = "idle" /\ UNCHANGED <<collection, refired>>
            /\ \A d \in Client : d # Ticker => span'[d] = span[d]
        BY <2>5, NoSpans DEF RestartScheduler, Failure, tickVars, FileInv, FileTypeOK
      <3> QED BY <1>2, <3>1 DEF TickInv, OneRequest, Ticking
    <2>6. CASE Tick \/ EndTick
      BY <1>2, <2>6, TickTicks, EndTickTicks
    <2>7. CASE Reload /\ UNCHANGED tickVars
      BY <1>2, <2>7, ReloadTicks
    <2>8. ASSUME NEW c \in Client, SaveStep(c), UNCHANGED <<cacheVars, tickVars>>
          PROVE  TickInv'
      BY <1>2, <2>8, SaveTicks
    <2> QED BY <2>1, <2>2, <2>3, <2>4, <2>5, <2>6, <2>7, <2>8 DEF FileSteps
  <1> QED BY <1>1, <1>2

-----------------------------------------------------------------------------
(* The files are sound, and a schedule fires once *)

FilesInv == FileInv /\ MemoryTyped /\ TickInv

LEMMA FilesBegin == FilesInit \/ FilesRest => FilesInv
  <1> SUFFICES ASSUME FilesInit \/ FilesRest
               PROVE  FilesInv
    OBVIOUS
  <1> USE DEF FilesInit, FilesRest, FileInit
  <1>1. /\ collection \in Collections /\ server \subseteq Client /\ file \in Image
        /\ span = [c \in Client |-> NoSpan]
        /\ latest \in [Key -> {Initial, Nobody}] /\ \A k \in Key : latest[k] = file[k].by
        /\ version = 0 /\ raced = FALSE /\ failures = 0 /\ now = 0
        /\ CacheInit /\ TickInit /\ keyCache = Torn
    <2>1. \A e \in {NoEntry, [by |-> Initial, due |-> 0]} :
            e \in Entry /\ e.by \in {Initial, Nobody}
      BY FileAssumption DEF Entry, NoEntry, Times
    <2>2. CASE FilesInit
      <3>1. \A k \in Key : file[k] \in {NoEntry, [by |-> Initial, due |-> 0]}
        BY <2>2
      <3>2. file = [k \in Key |-> file[k]]
        BY <2>2
      <3> QED BY <2>1, <2>2, <3>1, <3>2 DEF Image
    <2>3. CASE FilesRest
      BY <2>1, <2>3 DEF Image, Collections, Atomic, NoEntry
    <2> QED BY <2>2, <2>3
  <1> HIDE DEF FilesInit, FilesRest, FileInit
  <1>2. \A c \in Client : span[c] = NoSpan /\ span[c].at = "idle"
    BY <1>1, NoSpans
  <1>3. FileTypeOK
    <2>1. version \in 0 .. Cardinality(Client)
      BY <1>1, SaversCount
    <2>2. span \in [Client -> Spans]
      BY <1>1, NoSpans
    <2>3. latest \in [Key -> Client \cup {Initial, Nobody}]
      <3>1. latest \in [Key -> {Initial, Nobody}]
        BY <1>1
      <3> QED BY <3>1
    <2>4. failures \in 0 .. MaxFailures /\ now \in 0 .. MaxTime
      <3>1. failures = 0 /\ now = 0
        BY <1>1
      <3>2. MaxFailures \in Nat /\ MaxTime \in Nat
        BY FileAssumption
      <3> QED BY <3>1, <3>2
    <2>6. raced \in BOOLEAN
      <3>1. raced = FALSE
        BY <1>1
      <3> QED BY <3>1
    <2>5. collection \in Collections /\ server \subseteq Client /\ file \in Image \cup {Torn}
      BY <1>1
    <2> QED BY <2>1, <2>2, <2>3, <2>4, <2>5, <2>6 DEF FileTypeOK
  <1>4. FileInv
    <2>1. Decided /\ Images /\ Current
      BY <1>2 DEF Decided, Images, Current
    <2>2. FilesSound
      BY <1>1, TornAssumption DEF FilesSound, EditsKept, FileReadable
    <2> QED BY <1>3, <2>1, <2>2 DEF FileInv
  <1>5. MemoryTyped
    <2>1. 0 \in 0 .. Cardinality(Client)
      BY SaversCount
    <2>2. Counted
      BY <1>1, <1>2, TickerAssumption, SaversCount DEF Counted, Savers
    <2> QED BY <1>1, <2>1, <2>2
            DEF MemoryTyped, CacheInit, TickInit, CacheTypeOK, TickTypeOK, NotReading
  <1>6. TickInv
    <2>1. OneRequest
      BY <1>1, <1>2, RequesterIs, TickerAssumption DEF OneRequest, Ticking, TickInit
    <2>2. InOrder
      BY <1>1, <1>2, RequesterIs, TickerAssumption, LaterOrders DEF InOrder, Ticking, CacheInit
    <2>3. RequestIsLater
      BY <1>2, RequesterIs DEF RequestIsLater
    <2>4. FiredPassed /\ refired \subseteq unqueued
      BY <1>1 DEF FiredPassed, TickInit
    <2> QED BY <2>1, <2>2, <2>3, <2>4 DEF TickInv
  <1> QED BY <1>4, <1>5, <1>6 DEF FilesInv

LEMMA FilesKeep == FilesInv /\ [Next]_vars => FilesInv'
  <1> SUFFICES ASSUME FilesInv, [Next]_vars
               PROVE  FilesInv'
    OBVIOUS
  <1>1. CASE FileSteps
    BY <1>1, FileStepsKeep, FileStepsTick DEF FilesInv
  <1>2. CASE UNCHANGED fileGroup
    <2>1. UNCHANGED <<fileVars, keyCache, cacheVars, tickVars>>
      BY <1>2 DEF fileGroup
    <2>2. UNCHANGED <<collection, server, file, version, span, latest, raced, failures, now>>
      BY <2>1 DEF fileVars
    <2>3. now' \in 0 .. MaxTime
      BY <2>2 DEF FilesInv, FileInv, FileTypeOK
    <2>4. FileInv' /\ Counted'
      BY <2>2, <2>3, RestKeepsFile DEF FilesInv
    <2>5. MemoryTyped'
      BY <2>1, <2>4 DEF FilesInv, MemoryTyped, CacheTypeOK, TickTypeOK, cacheVars, tickVars
    <2>6. TickInv'
      BY <2>1, <2>2, StillTicks DEF FilesInv, cacheVars, tickVars
    <2> QED BY <2>4, <2>5, <2>6 DEF FilesInv
  <1>3. FileSteps \/ UNCHANGED fileGroup
    BY DEF Next, vars, ForFiles, ForWatches, ForHub, ForRetention, ForBatches, ForChains
  <1> QED BY <1>1, <1>2, <1>3

LEMMA FilesAlways == Spec => []FilesInv
  <1>1. Init => FilesInv
    BY FilesBegin DEF Init
  <1> QED BY <1>1, FilesKeep, PTL DEF Spec

\* No edit of a collection that was saved is lost, and no file stays unreadable, but
\* for the reasons the properties name (internal/scheduler, internal/watch,
\* internal/auth and the other stores): whatever the clients and the entries.
THEOREM FilesSoundHolds == Spec => []FilesSound
  <1>1. FilesInv => FilesSound
    BY DEF FilesInv, FileInv
  <1> QED BY <1>1, FilesAlways, PTL

\* No time of a schedule is submitted twice, whatever requests and loads of the file
\* come in between (scheduler.Run), but for the reasons the property names: the first
\* of the two jobs the queue refused is one of them.
THEOREM FiresOnceHolds == Spec => []FiresOnce
  <1>1. FilesInv => FiresOnce
    <2> SUFFICES ASSUME FilesInv, failures = 0, ~raced, ~crossed
                 PROVE  refired \subseteq unqueued
      BY DEF FilesInv, FileInv, FileTypeOK, FiresOnce
    <2> QED BY DEF FilesInv, TickInv, OneRequest
  <1> QED BY <1>1, FilesAlways, PTL

-----------------------------------------------------------------------------
(* Checks of watches *)

\* A check has a watch; what it has fetched is in hand from the store on.
CheckFits(c) ==
  /\ check[c].at # "none" => check[c].watch \in Watch
  /\ check[c].at \in {"none", "read", "fetch"} => check[c].got = NoContent
  /\ check[c].at \in {"store", "report"} => check[c].got # NoContent
  /\ check[c].got # NoContent =>
       /\ check[c].got # check[c].prev
       /\ check[c].got.view = check[c].watch
       /\ check[c].got.changes <= page[UrlOf[check[c].watch]]

\* A content of this page, as a watch that is there has seen it.
SeenOf(x, u) == x.view \in watches /\ UrlOf[x.view] = u /\ x.changes <= page[u]

\* What the checks of one URL have to do with each other: one at a time is between
\* reading and storing its state.
OneByOne ==
  /\ \A c \in Checker :
       LET u == UrlOf[check[c].watch] IN
       /\ check[c].at # "none" => check[c].watch \in watches
       /\ check[c].at # "none" /\ check[c].prev # NoContent => SeenOf(check[c].prev, u)
  /\ \A c, d \in Checker :
       /\ check[c].at \in {"fetch", "store"} /\ check[d].at \in {"fetch", "store"}
       /\ UrlOf[check[c].watch] = UrlOf[check[d].watch]
       => c = d
  /\ \A u \in Url : states[u] # NoContent => SeenOf(states[u], u)

\* What is stored was told of, or is about to be.
StoredIsTold ==
  \A u \in Url : states[u] # NoContent =>
    \/ states[u] \in told
    \/ \E c \in Checker : check[c].at \in {"touch", "report"} /\ check[c].got = states[u]

\* Not later than what is stored of its page.
NotPast(x) ==
  LET s == states[UrlOf[x.view]] IN s # NoContent /\ x.changes <= s.changes

\* What is stored of a page only goes forward, and who tells of it does so alone.
InTurn ==
  /\ \A c \in Checker :
       /\ check[c].at \in {"fetch", "store"} => check[c].prev = states[UrlOf[check[c].watch]]
       /\ check[c].at = "store" /\ check[c].prev # NoContent =>
            check[c].got.changes > check[c].prev.changes
       /\ check[c].at \in {"touch", "report"} /\ check[c].got # NoContent =>
            NotPast(check[c].got) /\ check[c].got \notin told
  /\ \A c, d \in Checker :
       /\ check[c].at \in {"touch", "report"} /\ check[d].at \in {"touch", "report"}
       /\ check[c].got # NoContent /\ check[c].got = check[d].got
       => c = d
  /\ \A x \in told : NotPast(x)
  /\ ~toldTwice

WatchInv ==
  /\ WatchTypeOK
  /\ \A c \in Checker : CheckFits(c)
  /\ Undisturbed => OneByOne /\ StoredIsTold /\ ("forget" \notin lapses => InTurn)

LEMMA Views ==
  ASSUME WatchTypeOK, NEW w \in Watch
  PROVE  /\ UrlOf[w] \in Url /\ page[UrlOf[w]] \in Nat
         /\ Sees(w) \in Content /\ Sees(w) # NoContent
         /\ Sees(w).view = w /\ Sees(w).changes = page[UrlOf[w]]
  BY WatchAssumption, ContentAssumption DEF WatchTypeOK, Sees, Content

LEMMA Contents ==
  /\ \A x \in Content : x # NoContent /\ x.view \in Watch /\ UrlOf[x.view] \in Url
                          /\ x.changes \in Nat
  /\ NoContent \notin Content
  BY WatchAssumption, ContentAssumption DEF Content

\* One checker goes on.
LEMMA CheckTo ==
  ASSUME WatchTypeOK, NEW c \in Checker, NEW s \in Checks, check' = [check EXCEPT ![c] = s]
  PROVE  /\ check' \in [Checker -> Checks]
         /\ check'[c] = s
         /\ \A d \in Checker : d # c => check'[d] = check[d]
  BY DEF WatchTypeOK

LEMMA CheckIs ==
  ASSUME WatchTypeOK, NEW c \in Checker
  PROVE  /\ check[c] \in Checks /\ NoCheck \in Checks
         /\ \A at \in {"none", "read", "fetch", "store", "touch", "report"},
               prev \in Content \cup {NoContent}, got \in Content \cup {NoContent} :
              [check[c] EXCEPT !.at = at, !.prev = prev, !.got = got] \in Checks
  BY DEF WatchTypeOK, Checks, NoCheck

\* A check takes one of its steps, and nobody else moves: what it is doing then.
LEMMA CheckMoves ==
  ASSUME WatchInv, NEW c \in Checker, CheckStep(c)
  PROVE  /\ UNCHANGED <<watches, page>> /\ check' \in [Checker -> Checks]
         /\ \A d \in Checker : d # c => check'[d] = check[d]
         /\ check[c].at \in {"read", "fetch", "store", "touch", "report"}
         /\ check[c].watch \in Watch
         /\ \/ check'[c] = NoCheck
            \/ check'[c] \in Checks /\ check'[c].watch = check[c].watch
         /\ Read(c) => /\ check'[c].at = "fetch" /\ check'[c].got = check[c].got
                       /\ check'[c].prev = states[UrlOf[check[c].watch]]
         /\ Fetch(c) => IF Sees(check[c].watch) = check[c].prev
                        THEN /\ check'[c].at = "touch" /\ check'[c].got = check[c].got
                             /\ check'[c].prev = NoContent
                        ELSE /\ check'[c].at = "store" /\ check'[c].got = Sees(check[c].watch)
                             /\ check'[c].prev = check[c].prev
         /\ FetchFails(c) \/ Store(c) => /\ check'[c].at = "touch" /\ check'[c].got = check[c].got
                                         /\ check'[c].prev = check[c].prev
         /\ Touch(c) => IF Changed(c)
                        THEN /\ check'[c].at = "report" /\ check'[c].got = check[c].got
                             /\ check'[c].prev = check[c].prev
                        ELSE check'[c] = NoCheck
         /\ Report(c) => check'[c] = NoCheck
  <1> USE DEF Goes, Ends
  <1>0. WatchTypeOK /\ check[c] \in Checks /\ check \in [Checker -> Checks] /\ NoCheck \in Checks
    BY CheckIs DEF WatchInv, WatchTypeOK
  <1>1. /\ check[c].at \in {"read", "fetch", "store", "touch", "report"}
        /\ UNCHANGED <<watches, page>>
    BY DEF CheckStep, Read, Fetch, FetchFails, Store, Touch, Report
  <1>2. check[c].watch \in Watch
    BY <1>1 DEF WatchInv, CheckFits
  <1> DEFINE Moved == /\ check' \in [Checker -> Checks]
                      /\ \A d \in Checker : d # c => check'[d] = check[d]
                      /\ \/ check'[c] = NoCheck
                         \/ check'[c] \in Checks /\ check'[c].watch = check[c].watch
  <1>3. ASSUME Read(c)
        PROVE  /\ Moved /\ check'[c].at = "fetch" /\ check'[c].got = check[c].got
               /\ check'[c].prev = states[UrlOf[check[c].watch]]
    <2> DEFINE s == [check[c] EXCEPT !.at = "fetch", !.prev = states[UrlOf[check[c].watch]]]
    <2>1. states[UrlOf[check[c].watch]] \in Content \cup {NoContent}
      BY <1>0, <1>2, Views DEF WatchTypeOK
    <2>2. s \in Checks /\ s.at = "fetch" /\ s.got = check[c].got /\ s.watch = check[c].watch
          /\ s.prev = states[UrlOf[check[c].watch]]
      BY <1>0, <2>1 DEF Checks
    <2>3. check' = [check EXCEPT ![c] = s]
      BY <1>0, <1>3 DEF Read, Checks
    <2> HIDE DEF s
    <2> QED BY <1>0, <2>2, <2>3, CheckTo
  <1>4. ASSUME Fetch(c)
        PROVE  /\ Moved
               /\ IF Sees(check[c].watch) = check[c].prev
                  THEN /\ check'[c].at = "touch" /\ check'[c].got = check[c].got
                       /\ check'[c].prev = NoContent
                  ELSE /\ check'[c].at = "store" /\ check'[c].got = Sees(check[c].watch)
                       /\ check'[c].prev = check[c].prev
    <2> DEFINE text == Sees(check[c].watch)
               s == IF text = check[c].prev
                    THEN [check[c] EXCEPT !.at = "touch", !.prev = NoContent]
                    ELSE [check[c] EXCEPT !.at = "store", !.got = text]
    <2>1. text \in Content
      BY <1>0, <1>2, Views
    <2>2. /\ s \in Checks /\ s.watch = check[c].watch
          /\ IF text = check[c].prev
             THEN s.at = "touch" /\ s.got = check[c].got /\ s.prev = NoContent
             ELSE s.at = "store" /\ s.got = text /\ s.prev = check[c].prev
      BY <1>0, <2>1 DEF Checks
    <2>3. check' = [check EXCEPT ![c] = s]
      BY <1>0, <1>4 DEF Fetch
    <2> HIDE DEF s
    <2> QED BY <1>0, <2>2, <2>3, CheckTo
  <1>5. ASSUME NEW at \in {"touch", "report"}, Goes(c, at)
        PROVE  /\ Moved /\ check'[c].at = at
               /\ check'[c].got = check[c].got /\ check'[c].prev = check[c].prev
    BY <1>0, <1>5 DEF Checks
  <1>6. Ends(c) => Moved /\ check'[c] = NoCheck
    BY <1>0
  <1> HIDE DEF Goes, Ends, Moved
  <1>7. FetchFails(c) \/ Store(c) => Goes(c, "touch")
    BY DEF FetchFails, Store
  <1>8. Touch(c) => IF Changed(c) THEN Goes(c, "report") ELSE Ends(c)
    BY DEF Touch
  <1>9. Report(c) => Ends(c)
    BY DEF Report
  <1>10. Moved
    BY <1>3, <1>4, <1>5, <1>6, <1>7, <1>8, <1>9 DEF CheckStep
  <1>11. Touch(c) => IF Changed(c)
                     THEN /\ check'[c].at = "report" /\ check'[c].got = check[c].got
                          /\ check'[c].prev = check[c].prev
                     ELSE check'[c] = NoCheck
    BY <1>5, <1>6, <1>8
  <1> QED BY <1>1, <1>2, <1>3, <1>4, <1>5, <1>6, <1>7, <1>9, <1>10, <1>11 DEF Moved

LEMMA CheckStepFits ==
  ASSUME WatchInv, NEW c \in Checker, CheckStep(c)
  PROVE  WatchTypeOK' /\ \A d \in Checker : CheckFits(d)'
  <1>0. WatchTypeOK /\ CheckFits(c) /\ check[c] \in Checks
    BY CheckIs DEF WatchInv
  <1>1. check[c].got \in Content \cup {NoContent} /\ UrlOf[check[c].watch] \in Url
    BY <1>0, CheckMoves, Views DEF Checks
  <1>2. WatchTypeOK'
    <2>1. states' \in [Url -> Content \cup {NoContent}]
      BY <1>0, <1>1 DEF CheckStep, Read, Fetch, FetchFails, Store, Touch, Report, WatchTypeOK
    <2>2. told' \subseteq Content
      BY <1>0, <1>1
         DEF CheckStep, Read, Fetch, FetchFails, Store, Touch, Report, WatchTypeOK, CheckFits, Baseline
    <2>3. due' \subseteq Watch
      BY <1>0 DEF CheckStep, Read, Fetch, FetchFails, Store, Touch, Report, WatchTypeOK
    <2>4. toldTwice' \in BOOLEAN /\ beside' \in BOOLEAN
      BY <1>0 DEF CheckStep, Read, Fetch, FetchFails, Store, Touch, Report, WatchTypeOK
    <2>5. lapses' \subseteq {"fetch", "store", "crash", "forget", "delete"}
      BY <1>0 DEF CheckStep, Read, Fetch, FetchFails, Store, Touch, Report, WatchTypeOK, Lapse
    <2> QED BY <1>0, <2>1, <2>2, <2>3, <2>4, <2>5, CheckMoves DEF WatchTypeOK
  <1>3. ASSUME NEW d \in Checker
        PROVE  CheckFits(d)'
    <2>1. CASE d # c
      BY <2>1, CheckMoves DEF WatchInv, CheckFits
    <2>2. CASE d = c /\ check'[c] = NoCheck
      BY <2>2 DEF CheckFits, NoCheck
    <2>3. CASE d = c /\ check'[c] # NoCheck
      <3>1. /\ check'[c].watch = check[c].watch /\ check[c].watch \in Watch /\ page' = page
            /\ page[UrlOf[check[c].watch]] \in Nat
        BY <1>0, <2>3, CheckMoves, Views
      <3>2. CASE Read(c)
        BY <1>0, <2>3, <3>1, <3>2, CheckMoves DEF CheckFits, Read
      <3>3. CASE Fetch(c)
        <4>1. check[c].got = NoContent
          BY <1>0, <3>3 DEF Fetch, CheckFits
        <4> QED BY <1>0, <2>3, <3>1, <3>3, <4>1, CheckMoves, Views DEF CheckFits
      <3>4. CASE FetchFails(c) \/ Store(c)
        BY <1>0, <2>3, <3>1, <3>4, CheckMoves DEF CheckFits
      <3>5. CASE Touch(c)
        BY <1>0, <2>3, <3>1, <3>5, CheckMoves DEF CheckFits, Changed
      <3>6. CASE Report(c)
        BY <2>3, <3>6, CheckMoves
      <3> QED BY <3>2, <3>3, <3>4, <3>5, <3>6 DEF CheckStep
    <2> QED BY <2>1, <2>2, <2>3
  <1> QED BY <1>2, <1>3

\* What a step of a check does to what is known of the pages.
LEMMA StepOnPages ==
  ASSUME WatchInv, NEW c \in Checker, CheckStep(c), Undisturbed'
  PROVE  /\ Undisturbed
         /\ lapses \subseteq lapses'
         /\ ("forget" \in lapses') = ("forget" \in lapses)
         /\ IF Store(c) THEN states' = [states EXCEPT ![UrlOf[check[c].watch]] = check[c].got]
            ELSE states' = states
         /\ told' = IF Report(c) \/ (Touch(c) /\ Baseline(c)) THEN told \cup {check[c].got}
                    ELSE told
         /\ toldTwice' = (toldTwice \/ (Report(c) /\ check[c].got \in told))
  <1>1. watches' = watches
    BY CheckMoves
  <1>2. CASE Read(c) \/ Fetch(c)
    <2>1. ~Store(c) /\ ~Touch(c) /\ ~Report(c)
      BY <1>2 DEF Read, Fetch, Store, Touch, Report
    <2> QED BY <1>1, <1>2, <2>1 DEF Read, Fetch, Undisturbed, Shared, WatchInv, WatchTypeOK
  <1>3. CASE FetchFails(c)
    <2>1. ~Store(c) /\ ~Touch(c) /\ ~Report(c)
      BY <1>3 DEF FetchFails, Store, Touch, Report
    <2> QED BY <1>1, <1>3, <2>1 DEF FetchFails, Lapse, Undisturbed, Shared, WatchInv, WatchTypeOK
  <1>4. CASE Store(c)
    <2>1. ~Touch(c) /\ ~Report(c)
      BY <1>4 DEF Store, Touch, Report
    <2>2. ~Lapse("store")
      BY DEF Lapse, Undisturbed
    <2> QED BY <1>1, <1>4, <2>1, <2>2 DEF Store, Undisturbed, Shared, WatchInv, WatchTypeOK
  <1>5. CASE Touch(c)
    <2>1. ~Store(c) /\ ~Report(c)
      BY <1>5 DEF Store, Touch, Report
    <2> QED BY <1>1, <1>5, <2>1 DEF Touch, Undisturbed, Shared, WatchInv, WatchTypeOK
  <1>6. CASE Report(c)
    <2>1. ~Store(c) /\ ~Touch(c)
      BY <1>6 DEF Store, Touch, Report
    <2> QED BY <1>1, <1>6, <2>1 DEF Report, Undisturbed, Shared, WatchInv, WatchTypeOK
  <1> QED BY <1>2, <1>3, <1>4, <1>5, <1>6 DEF CheckStep

\* A step of a check keeps one at a time between reading and storing.
LEMMA StepOneByOne ==
  ASSUME WatchInv, NEW c \in Checker, CheckStep(c), Undisturbed'
  PROVE  OneByOne'
  <1>0. /\ WatchTypeOK /\ CheckFits(c) /\ OneByOne /\ check[c].watch \in Watch
        /\ watches' = watches /\ page' = page /\ \A d \in Checker : d # c => check'[d] = check[d]
    BY StepOnPages, CheckMoves DEF WatchInv
  <1> DEFINE mine == UrlOf[check[c].watch]
  <1>1. mine \in Url /\ check[c].watch \in watches
    BY <1>0, Views, CheckMoves DEF OneByOne
  <1>2. \A x, u : SeenOf(x, u)' <=> SeenOf(x, u)
    BY <1>0 DEF SeenOf
  <1>3. ASSUME NEW d \in Checker
        PROVE  /\ (check[d].at # "none" => check[d].watch \in watches)'
               /\ (check[d].at # "none" /\ check[d].prev # NoContent
                     => SeenOf(check[d].prev, UrlOf[check[d].watch]))'
    <2>1. CASE d # c
      BY <1>0, <1>2, <2>1 DEF OneByOne, SeenOf
    <2>2. CASE d = c /\ check'[c] = NoCheck
      BY <2>2 DEF NoCheck
    <2>3. CASE d = c /\ check'[c] # NoCheck
      <3>1. check'[c].watch = check[c].watch
        BY <2>3, CheckMoves
      <3>2. check'[c].prev \in {check[c].prev, NoContent, states[mine]}
        BY <2>3, CheckMoves DEF CheckStep
      <3>3. check[c].prev # NoContent => SeenOf(check[c].prev, mine)
        BY <1>0, CheckMoves DEF OneByOne
      <3>4. states[mine] # NoContent => SeenOf(states[mine], mine)
        BY <1>0, <1>1 DEF OneByOne
      <3> QED BY <1>0, <1>1, <2>3, <3>1, <3>2, <3>3, <3>4 DEF SeenOf
    <2> QED BY <2>1, <2>2, <2>3
  <1>4. ASSUME NEW d \in Checker, d # c, check[d].at \in {"fetch", "store"},
               UrlOf[check[d].watch] = mine, check'[c].at \in {"fetch", "store"}
        PROVE  FALSE
    <2>1. CASE Read(c)
      BY <1>4, <2>1 DEF Read, Undisturbed
    <2>2. CASE Fetch(c)
      BY <1>0, <1>4, <2>2 DEF Fetch, OneByOne
    <2>3. CASE FetchFails(c) \/ Store(c) \/ Touch(c) \/ Report(c)
      BY <1>4, <2>3, CheckMoves DEF NoCheck
    <2> QED BY <2>1, <2>2, <2>3 DEF CheckStep
  <1>5. ASSUME NEW d \in Checker, NEW e \in Checker,
               check'[d].at \in {"fetch", "store"}, check'[e].at \in {"fetch", "store"},
               UrlOf[check'[d].watch] = UrlOf[check'[e].watch]
        PROVE  d = e
    <2>1. check'[c].at \in {"fetch", "store"} => check'[c].watch = check[c].watch
      BY CheckMoves DEF NoCheck
    <2>2. CASE d # c /\ e # c
      BY <1>0, <1>5, <2>2 DEF OneByOne
    <2>3. CASE d = c /\ e # c
      BY <1>0, <1>4, <1>5, <2>1, <2>3
    <2>4. CASE d # c /\ e = c
      BY <1>0, <1>4, <1>5, <2>1, <2>4
    <2> QED BY <2>2, <2>3, <2>4
  <1>6. ASSUME NEW u \in Url, states'[u] # NoContent
        PROVE  SeenOf(states'[u], u)
    <2>1. CASE Store(c) /\ u = mine
      <3>1. states'[u] = check[c].got
        BY <1>0, <1>1, <2>1, StepOnPages DEF WatchTypeOK
      <3>2. check[c].got # NoContent
        BY <1>0, <2>1 DEF CheckFits, Store
      <3> QED BY <1>0, <1>1, <2>1, <3>1, <3>2 DEF CheckFits, SeenOf
    <2>2. CASE ~(Store(c) /\ u = mine)
      <3>1. states'[u] = states[u]
        BY <1>0, <2>2, StepOnPages DEF WatchTypeOK
      <3> QED BY <1>0, <1>6, <3>1 DEF OneByOne
    <2> QED BY <2>1, <2>2
  <1>7. \A u \in Url : states'[u] # NoContent => SeenOf(states[u], u)'
    BY <1>0, <1>6 DEF SeenOf
  <1> QED BY <1>3, <1>5, <1>7 DEF OneByOne

\* What is stored stays told of, or about to be.
LEMMA StepStoredIsTold ==
  ASSUME WatchInv, NEW c \in Checker, CheckStep(c), Undisturbed'
  PROVE  StoredIsTold'
  <1>0. /\ WatchTypeOK /\ CheckFits(c) /\ StoredIsTold /\ check[c].watch \in Watch
        /\ \A d \in Checker : d # c => check'[d] = check[d]
    BY StepOnPages, CheckMoves DEF WatchInv
  <1> DEFINE mine == UrlOf[check[c].watch]
  <1>1. mine \in Url
    BY <1>0, Views
  <1>2. told \subseteq told'
    BY StepOnPages
  <1> SUFFICES ASSUME NEW u \in Url, states'[u] # NoContent
               PROVE  \/ states'[u] \in told'
                      \/ \E d \in Checker : check'[d].at \in {"touch", "report"}
                                              /\ check'[d].got = states'[u]
    BY DEF StoredIsTold
  <1>3. CASE Store(c) /\ u = mine
    BY <1>0, <1>1, <1>3, StepOnPages, CheckMoves DEF WatchTypeOK
  <1>4. CASE ~(Store(c) /\ u = mine)
    <2>1. states'[u] = states[u]
      BY <1>0, <1>4, StepOnPages DEF WatchTypeOK
    <2>2. CASE states[u] \in told
      BY <1>2, <2>1, <2>2
    <2>3. CASE states[u] \notin told
      <3>1. PICK d \in Checker : check[d].at \in {"touch", "report"} /\ check[d].got = states[u]
        BY <1>0, <2>1, <2>3 DEF StoredIsTold
      <3>2. CASE d # c
        BY <1>0, <2>1, <3>1, <3>2
      <3>3. CASE d = c
        <4>1. Touch(c) \/ Report(c)
          BY <3>1, <3>3 DEF CheckStep, Read, Fetch, FetchFails, Store
        <4>2. check[c].got # NoContent /\ check[c].got # check[c].prev
          BY <1>0, <2>1, <3>1, <3>3 DEF CheckFits
        <4>3. CASE Report(c)
          BY <2>1, <3>1, <3>3, <4>3, StepOnPages
        <4>4. CASE Touch(c) /\ Baseline(c)
          BY <2>1, <3>1, <3>3, <4>4, StepOnPages
        <4>5. CASE Touch(c) /\ ~Baseline(c)
          <5>1. Changed(c)
            BY <4>2, <4>5 DEF Baseline, Changed
          <5> QED BY <2>1, <3>1, <3>3, <4>5, <5>1, CheckMoves
        <4> QED BY <4>1, <4>3, <4>4, <4>5
      <3> QED BY <3>2, <3>3
    <2> QED BY <2>2, <2>3
  <1> QED BY <1>3, <1>4

\* What is stored of a page only goes forward.
LEMMA StepNotPast ==
  ASSUME WatchInv, InTurn, NEW c \in Checker, CheckStep(c), Undisturbed',
         NEW x \in Content, NotPast(x)
  PROVE  NotPast(x)'
  <1>0. WatchTypeOK /\ CheckFits(c) /\ OneByOne /\ check[c].watch \in Watch /\ check[c] \in Checks
    BY StepOnPages, CheckMoves, CheckIs DEF WatchInv
  <1> DEFINE mine == UrlOf[check[c].watch]
             u == UrlOf[x.view]
  <1>1. mine \in Url /\ u \in Url /\ x.changes \in Nat
    BY <1>0, Views, Contents
  <1>2. CASE Store(c) /\ u = mine
    <2>1. check[c].got # NoContent /\ check[c].prev = states[u] /\ states[u] # NoContent
      BY <1>0, <1>2 DEF CheckFits, Store, InTurn, NotPast
    <2>2. check[c].got.changes > states[u].changes
      BY <1>2, <2>1 DEF Store, InTurn
    <2>3. check[c].got \in Content /\ states[u] \in Content
      BY <1>0, <1>1, <2>1 DEF WatchTypeOK, Checks
    <2>4. states'[u] = check[c].got
      BY <1>0, <1>1, <1>2, StepOnPages DEF WatchTypeOK
    <2> QED BY <1>1, <2>1, <2>2, <2>3, <2>4, Contents DEF NotPast
  <1>3. CASE ~(Store(c) /\ u = mine)
    <2>1. states'[u] = states[u]
      BY <1>0, <1>1, <1>3, StepOnPages DEF WatchTypeOK
    <2> QED BY <2>1 DEF NotPast
  <1> QED BY <1>2, <1>3

\* What a check that stores has in hand is later than all that was told, or is about
\* to be, of its page.
LEMMA StoresLatest ==
  ASSUME WatchInv, InTurn, NEW c \in Checker, Store(c), Undisturbed,
         NEW x \in Content, NotPast(x)
  PROVE  x # check[c].got
  <1>0. /\ WatchTypeOK /\ CheckFits(c) /\ check[c] \in Checks /\ check[c].at = "store"
    BY CheckIs DEF WatchInv, Store
  <1>1. check[c].got # NoContent /\ check[c].got.view = check[c].watch /\ check[c].got \in Content
    BY <1>0 DEF CheckFits, Checks
  <1> SUFFICES ASSUME x = check[c].got
               PROVE  FALSE
    OBVIOUS
  <1>2. check[c].prev = states[UrlOf[x.view]] /\ check[c].prev # NoContent
    BY <1>0, <1>1 DEF InTurn, NotPast
  <1>3. check[c].got.changes > check[c].prev.changes /\ check[c].prev \in Content
    BY <1>0, <1>2 DEF InTurn, Checks
  <1>4. check[c].got.changes <= check[c].prev.changes
    BY <1>2 DEF NotPast
  <1> QED BY <1>1, <1>3, <1>4, Contents

\* A step of a check keeps the turns of those who tell.
LEMMA StepInTurn ==
  ASSUME WatchInv, InTurn, NEW c \in Checker, CheckStep(c), Undisturbed'
  PROVE  InTurn'
  <1>0. /\ WatchTypeOK /\ CheckFits(c) /\ OneByOne /\ Undisturbed /\ check[c] \in Checks
        /\ check[c].watch \in Watch /\ check[c].watch \in watches
        /\ \A d \in Checker : d # c => check'[d] = check[d]
    BY StepOnPages, CheckMoves, CheckIs DEF WatchInv, OneByOne
  <1> DEFINE mine == UrlOf[check[c].watch]
  <1>1. mine \in Url
    BY <1>0, Views
  <1>2. \A d \in Checker : check[d].got \in Content \cup {NoContent}
    BY <1>0, CheckIs DEF Checks
  <1>3. \A x \in Content : NotPast(x) => NotPast(x)'
    BY StepNotPast
  <1>4. \A x \in told : x \in Content /\ NotPast(x)
    BY <1>0 DEF WatchTypeOK, InTurn
  \* What is told of now was in the hand of this checker.
  <1>5. told' # told => /\ check[c].at \in {"touch", "report"} /\ check[c].got # NoContent
                        /\ told' = told \cup {check[c].got} /\ check'[c] = NoCheck
    BY <1>0, StepOnPages, CheckMoves DEF Touch, Report, Baseline, Changed, CheckFits
  <1>6. \A x \in told' : NotPast(x)'
    <2>1. CASE told' = told
      BY <1>3, <1>4, <2>1
    <2>2. CASE told' # told
      BY <1>2, <1>3, <1>4, <1>5, <2>2 DEF InTurn
    <2> QED BY <2>1, <2>2
  <1>7. ASSUME NEW d \in Checker, check'[d].at \in {"fetch", "store"}
        PROVE  check'[d].prev = states'[UrlOf[check'[d].watch]]
    <2>1. CASE d # c
      <3>1. check[d].prev = states[UrlOf[check[d].watch]]
        BY <1>0, <1>7, <2>1 DEF InTurn
      <3>2. ~(Store(c) /\ UrlOf[check[d].watch] = mine)
        BY <1>0, <1>7, <2>1 DEF OneByOne, Store
      <3>3. check[d].watch \in Watch /\ UrlOf[check[d].watch] \in Url
        BY <1>0, <1>7, <2>1, Views DEF WatchInv, CheckFits
      <3>4. states'[UrlOf[check[d].watch]] = states[UrlOf[check[d].watch]]
        BY <1>0, <1>1, <3>2, <3>3, StepOnPages DEF WatchTypeOK
      <3> QED BY <1>0, <2>1, <3>1, <3>4
    <2>2. CASE d = c
      <3>1. check'[c] # NoCheck
        BY <1>7, <2>2 DEF NoCheck
      <3>2. check'[c].watch = check[c].watch
        BY <3>1, CheckMoves
      <3>3. Read(c) \/ Fetch(c)
        BY <1>7, <2>2, <3>1, CheckMoves DEF CheckStep
      <3>4. states' = states
        BY <3>3, StepOnPages DEF Read, Fetch, Store
      <3>5. check[c].at = "fetch" => check[c].prev = states[mine]
        BY <1>0 DEF InTurn
      <3>6. check'[c].prev = states[mine]
        BY <1>7, <2>2, <3>3, <3>5, CheckMoves DEF Fetch
      <3> QED BY <2>2, <3>2, <3>4, <3>6
    <2> QED BY <2>1, <2>2
  <1>8. ASSUME NEW d \in Checker, check'[d].at = "store", check'[d].prev # NoContent
        PROVE  check'[d].got.changes > check'[d].prev.changes
    <2>1. CASE d # c
      BY <1>0, <1>8, <2>1 DEF InTurn
    <2>2. CASE d = c
      <3>1. Fetch(c)
        BY <1>8, <2>2, CheckMoves DEF CheckStep, NoCheck
      <3>2. /\ check'[c].got = Sees(check[c].watch) /\ check'[c].prev = check[c].prev
            /\ Sees(check[c].watch) # check[c].prev
        BY <1>8, <2>2, <3>1, CheckMoves
      <3>3. SeenOf(check[c].prev, mine) /\ check[c].prev \in Content
        BY <1>0, <1>8, <2>2, <3>1, <3>2 DEF Fetch, OneByOne, Checks
      <3>4. check[c].prev.view = check[c].watch
        BY <1>0, <3>3, Contents DEF SeenOf, Undisturbed, Shared, WatchTypeOK
      <3>5. /\ Sees(check[c].watch).changes = page[mine] /\ page[mine] \in Nat
            /\ Sees(check[c].watch) \in Content /\ Sees(check[c].watch).view = check[c].watch
        BY <1>0, Views
      <3>6. check[c].prev.changes # Sees(check[c].watch).changes
        BY <3>2, <3>3, <3>4, <3>5 DEF Content
      <3>7. check[c].prev.changes <= page[mine] /\ check[c].prev.changes \in Nat
        BY <3>3, Contents DEF SeenOf
      <3> QED BY <2>2, <3>2, <3>5, <3>6, <3>7
    <2> QED BY <2>1, <2>2
  \* Who stores gets into a turn that nobody else has.
  <1>9. ASSUME NEW d \in Checker, check'[d].at \in {"touch", "report"}, check'[d].got # NoContent
        PROVE  /\ check'[d].got = check[d].got
               /\ check[d].at \in {"touch", "report"} \/ (d = c /\ Store(c))
               /\ d = c => check'[c] # NoCheck
    <2>1. CASE d # c
      <3>1. check'[d] = check[d]
        BY <1>0, <2>1
      <3> QED BY <1>9, <2>1, <3>1
    <2>2. CASE d = c
      <3>1. check'[c] # NoCheck
        BY <1>9, <2>2 DEF NoCheck
      <3>2. CASE Fetch(c) \/ FetchFails(c)
        BY <1>0, <1>9, <2>2, <3>2, CheckMoves DEF Fetch, FetchFails, CheckFits
      <3>3. CASE Store(c) \/ Touch(c)
        <4>1. check'[c].got = check[c].got
          BY <3>1, <3>3, CheckMoves
        <4>2. Touch(c) => check[c].at = "touch"
          BY DEF Touch
        <4> QED BY <2>2, <3>1, <3>3, <4>1, <4>2
      <3> QED BY <1>9, <2>2, <3>1, <3>2, <3>3, CheckMoves DEF CheckStep
    <2> QED BY <2>1, <2>2
  <1>10. Store(c) => /\ \A x \in Content : NotPast(x) => x # check[c].got
                     /\ check[c].got \in Content /\ NotPast(check[c].got)' /\ told' = told
    <2> SUFFICES ASSUME Store(c)
                 PROVE  /\ \A x \in Content : NotPast(x) => x # check[c].got
                        /\ check[c].got \in Content /\ NotPast(check[c].got)' /\ told' = told
      OBVIOUS
    <2>1. check[c].got # NoContent /\ check[c].got.view = check[c].watch /\ check[c].got \in Content
      BY <1>0 DEF CheckFits, Store, Checks
    <2>2. states'[mine] = check[c].got
      BY <1>0, <1>1, StepOnPages DEF WatchTypeOK
    <2>3. check'[c].got = check[c].got
      BY CheckMoves
    <2>4. NotPast(check[c].got)'
      BY <2>1, <2>2, <2>3, Contents DEF NotPast
    <2> QED BY <1>0, <1>5, <2>1, <2>4, StoresLatest DEF Store
  <1>11. ASSUME NEW d \in Checker, check'[d].at \in {"touch", "report"}, check'[d].got # NoContent
         PROVE  check'[d].got \in Content /\ NotPast(check[d].got)' /\ check'[d].got \notin told'
    <2>1. CASE d = c /\ Store(c)
      BY <1>4, <1>9, <1>10, <1>11, <2>1
    <2>2. CASE check[d].at \in {"touch", "report"}
      <3>1. /\ check[d].got \in Content /\ check[d].got # NoContent /\ NotPast(check[d].got)
            /\ check[d].got \notin told
        BY <1>2, <1>9, <1>11, <2>2 DEF InTurn
      <3>2. told' # told => check[d].got # check[c].got
        BY <1>5, <1>9, <1>11, <2>2, <3>1 DEF InTurn
      <3> QED BY <1>3, <1>5, <1>9, <1>11, <3>1, <3>2
    <2> QED BY <1>9, <1>11, <2>1, <2>2
  <1>12. ASSUME NEW d \in Checker, NEW e \in Checker,
                check'[d].at \in {"touch", "report"}, check'[e].at \in {"touch", "report"},
                check'[d].got # NoContent, check'[d].got = check'[e].got
         PROVE  d = e
    <2>1. \A o \in Checker : check[o].at \in {"touch", "report"} /\ check[o].got # NoContent =>
            check[o].got \in Content /\ NotPast(check[o].got)
      BY <1>2 DEF InTurn
    <2>2. check[d].got = check[e].got /\ check[d].got # NoContent
      BY <1>9, <1>12
    <2>3. \/ check[d].at \in {"touch", "report"} /\ check[e].at \in {"touch", "report"}
          \/ d = c /\ Store(c) /\ check[e].at \in {"touch", "report"}
          \/ e = c /\ Store(c) /\ check[d].at \in {"touch", "report"}
          \/ d = e
      BY <1>9, <1>12
    <2> QED BY <1>10, <2>1, <2>2, <2>3 DEF InTurn
  <1>13. ~toldTwice'
    BY <1>0, StepOnPages DEF InTurn, Report, CheckFits
  <1>14. \A d \in Checker : check'[d].at \in {"touch", "report"} /\ check'[d].got # NoContent =>
           NotPast(check[d].got)' /\ check'[d].got \notin told'
    BY <1>9, <1>11
  <1> QED BY <1>6, <1>7, <1>8, <1>12, <1>13, <1>14 DEF InTurn

LEMMA CheckStepKeeps ==
  ASSUME WatchInv, NEW c \in Checker, CheckStep(c)
  PROVE  WatchInv'
  <1>1. Undisturbed' => Undisturbed /\ (("forget" \in lapses') = ("forget" \in lapses))
    BY StepOnPages
  <1>2. Undisturbed' => OneByOne' /\ StoredIsTold'
    BY StepOneByOne, StepStoredIsTold
  <1>3. Undisturbed' /\ "forget" \notin lapses' => InTurn'
    BY <1>1, StepInTurn DEF WatchInv
  <1> QED BY <1>2, <1>3, CheckStepFits DEF WatchInv

\* A check begins.
LEMMA BeginKeeps ==
  ASSUME WatchInv, NEW c \in Checker, NEW w \in Watch, Begin(c, w)
  PROVE  WatchInv'
  <1> DEFINE s == [NoCheck EXCEPT !.at = "read", !.watch = w]
  <1>1. s \in Checks /\ s.at = "read" /\ s.watch = w /\ s.prev = NoContent /\ s.got = NoContent
    BY DEF NoCheck, Checks
  <1>2. check' = [check EXCEPT ![c] = s] /\ w \in watches
        /\ UNCHANGED <<watches, page, states, due, told, toldTwice, beside, lapses>>
    BY DEF Begin
  <1> HIDE DEF s
  <1>3. check' \in [Checker -> Checks] /\ check'[c] = s
        /\ \A d \in Checker : d # c => check'[d] = check[d]
    BY <1>1, <1>2, CheckTo DEF WatchInv
  <1>4. WatchTypeOK'
    BY <1>2, <1>3 DEF WatchInv, WatchTypeOK
  <1>5. \A d \in Checker : CheckFits(d)'
    BY <1>1, <1>2, <1>3 DEF WatchInv, CheckFits
  <1>6. Undisturbed' = Undisturbed
    BY <1>2 DEF Undisturbed, Shared
  <1>7. OneByOne => OneByOne'
    BY <1>1, <1>2, <1>3 DEF OneByOne, SeenOf
  <1>8. StoredIsTold => StoredIsTold'
    <2>1. check[c].at = "none"
      BY DEF Begin
    <2> QED BY <1>2, <1>3, <2>1 DEF StoredIsTold
  <1>9. InTurn => InTurn'
    BY <1>1, <1>2, <1>3 DEF InTurn, NotPast
  <1> QED BY <1>2, <1>4, <1>5, <1>6, <1>7, <1>8, <1>9 DEF WatchInv

\* A page changes: what was seen of it is earlier still.
LEMMA PageChangesKeeps ==
  ASSUME WatchInv, NEW u \in Url, PageChanges(u)
  PROVE  WatchInv'
  <1>0. /\ WatchTypeOK /\ UNCHANGED <<watches, states, due, check, told, toldTwice, beside, lapses>>
        /\ page[u] < MaxChanges /\ page' = [page EXCEPT ![u] = @ + 1]
    BY DEF WatchInv, PageChanges
  <1>1. page[u] \in 0 .. MaxChanges /\ page[u] + 1 \in 0 .. MaxChanges
    BY <1>0, WatchAssumption DEF WatchTypeOK
  <1>2. page' \in [Url -> 0 .. MaxChanges]
    BY <1>0, <1>1 DEF WatchTypeOK
  <1>3. \A v \in Url : page[v] \in Nat /\ page'[v] \in Nat /\ page[v] <= page'[v]
    BY <1>0, <1>1, WatchAssumption DEF WatchTypeOK
  <1>4. WatchTypeOK'
    BY <1>0, <1>2 DEF WatchTypeOK
  <1>5. ASSUME NEW d \in Checker
        PROVE  CheckFits(d)'
    <2>1. check[d].got \in Content \cup {NoContent} /\ check'[d] = check[d]
      BY <1>0, CheckIs DEF Checks
    <2>2. check[d].got # NoContent =>
            /\ check[d].watch \in Watch /\ UrlOf[check[d].watch] \in Url
            /\ check[d].got.changes \in Nat
      BY <1>0, <2>1, Contents DEF WatchInv, CheckFits
    <2>3. check[d].got # NoContent => check[d].got.changes <= page'[UrlOf[check[d].watch]]
      BY <1>3, <2>2 DEF WatchInv, CheckFits
    <2> QED BY <2>1, <2>3 DEF WatchInv, CheckFits
  <1>6. \A x \in Content, v \in Url : SeenOf(x, v) => SeenOf(x, v)'
    BY <1>0, <1>3, Contents DEF SeenOf
  <1>7. Undisturbed' = Undisturbed
    BY <1>0 DEF Undisturbed, Shared
  <1>8. OneByOne => OneByOne'
    <2> SUFFICES ASSUME OneByOne
                 PROVE  OneByOne'
      OBVIOUS
    <2>1. ASSUME NEW d \in Checker, check[d].at # "none", check[d].prev # NoContent
          PROVE  SeenOf(check[d].prev, UrlOf[check[d].watch])'
      <3>1. check[d].prev \in Content /\ check[d].watch \in Watch /\ UrlOf[check[d].watch] \in Url
        BY <1>0, <2>1, CheckIs, Views DEF Checks, WatchInv, CheckFits
      <3> QED BY <1>0, <1>6, <2>1, <3>1 DEF OneByOne, SeenOf
    <2>2. ASSUME NEW v \in Url, states[v] # NoContent
          PROVE  SeenOf(states[v], v)'
      <3>1. states[v] \in Content
        BY <1>0, <2>2 DEF WatchTypeOK
      <3> QED BY <1>0, <1>6, <2>2, <3>1 DEF OneByOne, SeenOf
    <2> QED BY <1>0, <2>1, <2>2 DEF OneByOne
  <1>9. (StoredIsTold => StoredIsTold') /\ (InTurn => InTurn')
    BY <1>0 DEF StoredIsTold, InTurn, NotPast
  <1> QED BY <1>0, <1>4, <1>5, <1>7, <1>8, <1>9 DEF WatchInv

\* What the others do beside the checks.
LEMMA BesideKeeps ==
  ASSUME WatchInv,
         \/ \E u \in Url : DeleteCrawlState(u)
         \/ \E w \in Watch : DueAgain(w) \/ DeleteWatch(w)
         \/ ServerDies
  PROVE  WatchInv'
  <1>0. WatchTypeOK
    BY DEF WatchInv
  <1>1. ASSUME NEW u \in Url, DeleteCrawlState(u)
        PROVE  WatchInv'
    <2>1. /\ UNCHANGED <<watches, page, due, check, told, toldTwice, beside>>
          /\ "forget" \in lapses' /\ lapses' = lapses \cup {"forget"}
          /\ states' = [states EXCEPT ![u] = NoContent]
      BY <1>1 DEF DeleteCrawlState, Lapse
    <2>2. WatchTypeOK' /\ \A v \in Url : states'[v] = states[v] \/ states'[v] = NoContent
      BY <1>0, <2>1 DEF WatchTypeOK
    <2>3. Undisturbed' => Undisturbed
      BY <2>1 DEF Undisturbed, Shared
    <2>4. OneByOne => OneByOne'
      BY <2>1, <2>2 DEF OneByOne, SeenOf
    <2>5. StoredIsTold => StoredIsTold'
      BY <2>1, <2>2 DEF StoredIsTold
    <2>6. \A d \in Checker : CheckFits(d)'
      BY <2>1 DEF WatchInv, CheckFits
    <2> QED BY <2>1, <2>2, <2>3, <2>4, <2>5, <2>6 DEF WatchInv
  <1>2. ASSUME NEW w \in Watch, DueAgain(w)
        PROVE  WatchInv'
    BY <1>0, <1>2 DEF DueAgain, WatchInv, WatchTypeOK, CheckFits, OneByOne, SeenOf, StoredIsTold,
                      InTurn, NotPast, Undisturbed, Shared
  <1>3. ASSUME NEW w \in Watch, DeleteWatch(w)
        PROVE  WatchInv'
    <2>1. ~Undisturbed'
      BY <1>3 DEF DeleteWatch, Lapse, Undisturbed
    <2> QED BY <1>0, <1>3, <2>1 DEF DeleteWatch, Lapse, WatchInv, WatchTypeOK, CheckFits
  <1>4. ASSUME ServerDies
        PROVE  WatchInv'
    <2>1. ~Undisturbed'
      BY <1>4 DEF ServerDies, Lapse, Undisturbed
    <2>2. NoCheck \in Checks /\ NoCheck.at = "none" /\ NoCheck.got = NoContent
      BY DEF NoCheck, Checks
    <2>3. check' \in [Checker -> Checks] /\ \A d \in Checker : check'[d] = NoCheck
      BY <1>4, <2>2 DEF ServerDies
    <2> QED BY <1>0, <1>4, <2>1, <2>2, <2>3 DEF ServerDies, Lapse, WatchInv, WatchTypeOK, CheckFits
  <1> QED BY <1>1, <1>2, <1>3, <1>4

LEMMA WatchBegins ==
  ASSUME NEW before \in {{}, {"fetch"}}, WatchInit(before)
  PROVE  WatchInv
  <1>1. /\ NoCheck \in Checks /\ NoCheck.at = "none" /\ NoCheck.got = NoContent
        /\ NoCheck.prev = NoContent
    BY DEF NoCheck, Checks
  <1>2. check \in [Checker -> Checks] /\ \A c \in Checker : check[c] = NoCheck
    BY <1>1 DEF WatchInit
  <1>3. states \in [Url -> Content \cup {NoContent}] /\ \A u \in Url : states[u] = NoContent
    BY DEF WatchInit
  <1>4. page \in [Url -> 0 .. MaxChanges]
    BY WatchAssumption DEF WatchInit
  <1>5. WatchTypeOK
    BY <1>2, <1>3, <1>4 DEF WatchInit, WatchTypeOK
  <1>6. \A c \in Checker : CheckFits(c)
    BY <1>1, <1>2 DEF CheckFits
  <1>7. OneByOne /\ StoredIsTold
    BY <1>1, <1>2, <1>3 DEF OneByOne, StoredIsTold
  <1>8. InTurn
    BY <1>1, <1>2 DEF InTurn, WatchInit
  <1> QED BY <1>5, <1>6, <1>7, <1>8 DEF WatchInv

LEMMA WatchKeeps == WatchInv /\ [Next]_vars => WatchInv'
  <1> SUFFICES ASSUME WatchInv, [Next]_vars
               PROVE  WatchInv'
    OBVIOUS
  <1>1. CASE UNCHANGED watchVars
    BY <1>1 DEF watchVars, WatchInv, WatchTypeOK, CheckFits, OneByOne, SeenOf, StoredIsTold,
                InTurn, NotPast, Undisturbed, Shared
  <1>2. CASE WatchNext
    <2>1. ASSUME NEW c \in Checker, NEW w \in Watch,
                 \/ RunChecks(c, w) \/ CheckAll(c, w) \/ HandleWatchCheck(c, w)
                 \/ RunWatchCheckOnce(c, w) \/ WatchCheckTool(c, w)
          PROVE  WatchInv'
      <3>1. Begin(c, w)
        BY <2>1 DEF RunChecks, CheckAll, HandleWatchCheck, RunWatchCheckOnce, WatchCheckTool
      <3> QED BY <3>1, BeginKeeps
    <2>2. ASSUME NEW u \in Url, PageChanges(u)
          PROVE  WatchInv'
      BY <2>2, PageChangesKeeps
    <2> QED BY <1>2, <2>1, <2>2, CheckStepKeeps, BesideKeeps DEF WatchNext
  <1>3. WatchNext \/ UNCHANGED watchVars
    BY DEF Next, vars, ForFiles, ForWatches, ForHub, ForRetention, ForBatches, ForChains
  <1> QED BY <1>1, <1>2, <1>3

LEMMA WatchAlways == Spec => []WatchInv
  <1>1. Init => WatchInv
    <2> SUFFICES ASSUME Init
                 PROVE  WatchInv
      OBVIOUS
    <2>1. WatchInit({}) \/ WatchInit({"fetch"})
      BY DEF Init
    <2> QED BY <2>1, WatchBegins
  <1> QED BY <1>1, WatchKeeps, PTL DEF Spec

\* A change that a check finds is reported, and once: Begin to Report, in every
\* interleaving of checkers, watches and URLs.
THEOREM ReportedOnceHolds == Spec => []ReportedOnce
  <1>1. WatchInv => ReportedOnce
    BY DEF WatchInv, ReportedOnce, StoredIsTold, InTurn
  <1> QED BY <1>1, WatchAlways, PTL

-----------------------------------------------------------------------------
(* Batches *)

\* The jobs that are in the table already, and those that the cancellation is past.
Created(j) ==
  submit.at = "record" \/ recorded \/ (submit.at = "create" /\ j < submit.job)
Past(j) ==
  canceled \/ cancel.at = "status" \/ (cancel.at \in {"signal", "write"} /\ j < cancel.job)

BatchInv ==
  /\ RowsTypeOK /\ BatchTypeOK
  /\ recorded => submit.at \in {"enqueue", "done"}
  /\ cancel.at # "none" \/ canceled => recorded
  /\ \A j \in Members : Created(j) => row[j] # "none"
  /\ \A j \in Job : run[j] = "loaded" /\ row[j] \in Ended => j \in escaped
  /\ \A j \in Members : Past(j) => row[j] \in Ended \cup {"gone"} \/ j \in escaped \cup missed

\* What a step on the rows may do: no row is taken back to before its insertion, and
\* a final one is written again only by a worker that had taken the job up.
RowsGoOn ==
  \A i \in Job :
    /\ row[i] # "none" => row'[i] # "none"
    /\ row[i] \in Ended \cup {"gone"} =>
         row'[i] \in Ended \cup {"gone"} \/ (run[i] = "loaded" /\ row[i] \in Ended)
    /\ run'[i] = "loaded" /\ row'[i] \in Ended => run[i] = "loaded" /\ row[i] \in Ended

LEMMA MembersAreJobs == Members \subseteq Job /\ IsFiniteSet(Members) /\ Cardinality(Members) = BatchSize
  <1>1. BatchSize \in Nat /\ LastRow \in Nat /\ BatchSize <= LastRow
    BY BatchAssumption, RowsAssumption
  <1> QED BY <1>1, FS_Interval DEF Members, Job

LEMMA FaultStays ==
  ASSUME RowsTypeOK, Fault \/ UNCHANGED faults
  PROVE  faults' \in 0 .. MaxFaults
  BY RowsAssumption DEF Fault, RowsTypeOK

\* One row, and where the manager is with its job.
LEMMA SetStatusOn ==
  ASSUME RowsTypeOK, NEW j \in Job, NEW s \in Live \cup Ended, SetStatus(j, s)
  PROVE  /\ row' \in [Job -> Status] /\ undone' \subseteq Job
         /\ \A i \in Job : i # j => row'[i] = row[i]
         /\ IF row[j] \in Live \cup Ended THEN row'[j] = s ELSE row'[j] = row[j]
  BY DEF SetStatus, RowsTypeOK, Rows, Status

LEMMA RunTo ==
  ASSUME RowsTypeOK, NEW j \in Job,
         NEW at \in {"none", "waiting", "loaded", "marked", "running", "signalled"},
         run' = [run EXCEPT ![j] = at]
  PROVE  /\ run' \in [Job -> {"none", "waiting", "loaded", "marked", "running", "signalled"}]
         /\ run'[j] = at /\ \A i \in Job : i # j => run'[i] = run[i]
  BY DEF RowsTypeOK

LEMMA RunStepRows ==
  ASSUME RowsTypeOK, NEW j \in Job, RunStep(j)
  PROVE  RowsTypeOK' /\ RowsGoOn
  <1>1. CASE LoadJob(j)
    <2> DEFINE at == IF row[j] \in Ended THEN "none" ELSE "loaded"
    <2>1. /\ run' \in [Job -> {"none", "waiting", "loaded", "marked", "running", "signalled"}]
          /\ run'[j] = at /\ \A i \in Job : i # j => run'[i] = run[i]
      BY <1>1, RunTo DEF LoadJob
    <2> QED BY <1>1, <2>1 DEF LoadJob, RowsTypeOK, RowsGoOn
  <1>2. CASE MarkRunning(j)
    <2>1. /\ run' \in [Job -> {"none", "waiting", "loaded", "marked", "running", "signalled"}]
          /\ run'[j] = "marked" /\ \A i \in Job : i # j => run'[i] = run[i]
      BY <1>2, RunTo DEF MarkRunning
    <2>2. /\ row' \in [Job -> Status] /\ undone' \subseteq Job
          /\ \A i \in Job : i # j => row'[i] = row[i]
          /\ IF row[j] \in Live \cup Ended THEN row'[j] = "running" ELSE row'[j] = row[j]
      BY <1>2, SetStatusOn DEF MarkRunning, Live
    <2>3. RowsTypeOK'
      BY <1>2, <2>1, <2>2 DEF MarkRunning, RowsTypeOK
    <2>4. run[j] = "loaded" /\ "running" # "none"
      BY <1>2 DEF MarkRunning
    <2> QED BY <2>1, <2>2, <2>3, <2>4 DEF RowsGoOn, Ended, Live
  <1>3. CASE Register(j)
    <2>1. /\ run' \in [Job -> {"none", "waiting", "loaded", "marked", "running", "signalled"}]
          /\ run'[j] = "running" /\ \A i \in Job : i # j => run'[i] = run[i]
      BY <1>3, RunTo DEF Register
    <2> QED BY <1>3, <2>1 DEF Register, RowsTypeOK, RowsGoOn
  <1>4. CASE EndRun(j)
    <2>1. /\ run' \in [Job -> {"none", "waiting", "loaded", "marked", "running", "signalled"}]
          /\ run'[j] = "none" /\ \A i \in Job : i # j => run'[i] = run[i]
      BY <1>4, RunTo DEF EndRun
    <2>2. faults' \in 0 .. MaxFaults
      BY <1>4, FaultStays DEF EndRun
    <2>3. CASE \E s \in Ended : SetStatus(j, s)
      <3>1. PICK s \in Ended : SetStatus(j, s)
        BY <2>3
      <3>2. /\ row' \in [Job -> Status] /\ undone' \subseteq Job
            /\ \A i \in Job : i # j => row'[i] = row[i]
            /\ IF row[j] \in Live \cup Ended THEN row'[j] = s ELSE row'[j] = row[j]
        BY <3>1, SetStatusOn
      <3>3. RowsTypeOK'
        BY <1>4, <2>1, <2>2, <3>2 DEF EndRun, RowsTypeOK
      <3> QED BY <2>1, <3>2, <3>3 DEF RowsGoOn, Ended
    <2>4. CASE UNCHANGED <<row, undone>>
      BY <1>4, <2>1, <2>2, <2>4 DEF EndRun, RowsTypeOK, RowsGoOn
    <2> QED BY <1>4, <2>3, <2>4 DEF EndRun, Ended
  <1> QED BY <1>1, <1>2, <1>3, <1>4 DEF RunStep

LEMMA DeleteRowsOn ==
  ASSUME RowsTypeOK, NEW j \in Job, NEW awaited, DeleteWithArtifacts(j, awaited)
  PROVE  RowsTypeOK' /\ RowsGoOn
  <1>1. row' \in [Job -> Status] /\ row'[j] = "gone" /\ \A i \in Job : i # j => row'[i] = row[i]
    BY DEF DeleteWithArtifacts, RowsTypeOK, Status
  <1>2. faults' \in 0 .. MaxFaults
    BY FaultStays DEF DeleteWithArtifacts
  <1>3. files' \subseteq Job /\ stray' \subseteq Job /\ UNCHANGED <<run, undone>>
    BY DEF DeleteWithArtifacts, RowsTypeOK
  <1>4. RowsTypeOK'
    BY <1>1, <1>2, <1>3 DEF RowsTypeOK
  <1> QED BY <1>1, <1>3, <1>4 DEF RowsGoOn, Ended

\* The steps of retention, which a batch does not know of.
LEMMA RetentionRows ==
  ASSUME RowsTypeOK, RetentionNext
  PROVE  RowsTypeOK' /\ RowsGoOn
  <1>1. ASSUME UNCHANGED rowVars
        PROVE  RowsTypeOK' /\ RowsGoOn
    BY <1>1 DEF rowVars, RowsTypeOK, RowsGoOn
  <1>2. ASSUME NEW c \in Cleaner, NEW listed \in SUBSET Job, NEW passedOver,
               Listed(c, listed, passedOver)
        PROVE  RowsTypeOK' /\ RowsGoOn
    BY <1>2 DEF Listed, RowsTypeOK, RowsGoOn
  <1>3. ASSUME NEW c \in Cleaner, CleanStep(c)
        PROVE  RowsTypeOK' /\ RowsGoOn
    <2>1. CASE ListByAge(c)
      <3>1. Page(Aged(c), clean[c].offset, PageSize) \in SUBSET Job
        BY DEF Page, Aged, Rows
      <3> QED BY <1>2, <2>1, <3>1 DEF ListByAge
    <2>2. CASE ListOldest(c)
      <3>1. Page(Rows, clean[c].offset, Limit(c)) \in SUBSET Job
        BY DEF Page, Rows
      <3> QED BY <1>2, <2>2, <3>1 DEF ListOldest
    <2>3. CASE Measure(c)
      BY <1>1, <2>3 DEF Measure
    <2>6. CASE QueryFails(c)
      <3>1. faults' \in 0 .. MaxFaults
        BY <2>6, FaultStays DEF QueryFails
      <3> QED BY <2>6, <3>1 DEF QueryFails, RowsTypeOK, RowsGoOn
    <2>4. CASE DeleteFiles(c)
      <3>1. faults' \in 0 .. MaxFaults
        BY <2>4, FaultStays DEF DeleteFiles
      <3>2. files' \subseteq Job /\ UNCHANGED <<row, run, undone, stray>>
        BY <2>4 DEF DeleteFiles, RowsTypeOK
      <3> QED BY <3>1, <3>2 DEF RowsTypeOK, RowsGoOn
    <2>5. CASE DeleteRows(c)
      <3>1. faults' \in 0 .. MaxFaults
        BY <2>5, FaultStays DEF DeleteRows
      <3>2. UNCHANGED <<files, run, undone, stray>>
        BY <2>5 DEF DeleteRows
      <3>3. row' \in [Job -> Status] /\ \A i \in Job : row'[i] \in {row[i], "gone"}
        BY <2>5 DEF DeleteRows, RowsTypeOK, Status
      <3> QED BY <3>1, <3>2, <3>3 DEF RowsTypeOK, RowsGoOn, Ended
    <2> QED BY <1>3, <2>1, <2>2, <2>3, <2>4, <2>5, <2>6 DEF CleanStep
  <1>4. ASSUME NEW j \in Job, DeleteJob(j) \/ ManagerStep(j)
        PROVE  RowsTypeOK' /\ RowsGoOn
    BY <1>4, DeleteRowsOn, RunStepRows DEF DeleteJob, ManagerStep
  <1> QED BY <1>1, <1>3, <1>4
          DEF RetentionNext, HandleRetentionCleanup, RunRetentionCommand, RunScheduledCleanup,
              RunCleanup

\* The rows go on, and the requests of the batch rest.
LEMMA RowsKeepBatch ==
  ASSUME BatchInv, RowsTypeOK', RowsGoOn,
         UNCHANGED <<submit, recorded, cancel, canceled, escaped, missed, refused>>
  PROVE  BatchInv'
  <1>1. BatchTypeOK'
    BY DEF BatchInv, BatchTypeOK
  <1>2. \A j \in Members : (Created(j)' <=> Created(j)) /\ (Past(j)' <=> Past(j))
    BY DEF Created, Past
  <1>3. \A j \in Members : Created(j)' => row'[j] # "none"
    BY <1>2, MembersAreJobs DEF BatchInv, RowsGoOn
  <1>4. \A j \in Members :
          Past(j)' => row'[j] \in Ended \cup {"gone"} \/ j \in escaped \cup missed
    BY <1>2, MembersAreJobs DEF BatchInv, RowsGoOn
  <1>5. \A j \in Job : run'[j] = "loaded" /\ row'[j] \in Ended => j \in escaped
    BY DEF BatchInv, RowsGoOn
  <1> QED BY <1>1, <1>3, <1>4, <1>5 DEF BatchInv

LEMMA SubmissionKeeps ==
  ASSUME BatchInv, Submission \/ SubmitFails
  PROVE  BatchInv'
  <1>0. /\ RowsTypeOK /\ BatchTypeOK /\ BatchSize \in Nat /\ submit.job \in Members
        /\ submit.at \in {"create", "record", "enqueue", "done"} /\ Members \subseteq Job
        /\ Members = 1 .. BatchSize
    BY BatchAssumption, RowsAssumption, MembersAreJobs DEF BatchInv, BatchTypeOK, Members
  <1>1. ASSUME NEW next \in {"record", "done"}, Advance(next)
        PROVE  /\ submit' \in [at : {"create", "record", "enqueue", "done"}, job : Members]
               /\ \/ submit.job = BatchSize /\ submit'.at = next
                  \/ submit'.at = submit.at /\ submit'.job = submit.job + 1
    BY <1>0, <1>1 DEF Advance, BatchTypeOK
  <1>2. CASE CreateJob
    <2>1. /\ row' \in [Job -> Status] /\ row'[submit.job] = "queued"
          /\ \A j \in Job : j # submit.job => row'[j] = row[j]
          /\ submit.at = "create"
          /\ UNCHANGED <<files, run, undone, stray, faults, recorded, cancel, canceled,
                         escaped, missed, refused>>
      BY <1>0, <1>2 DEF CreateJob, Insert, RowsTypeOK, Status, Live
    <2>2. ~recorded /\ cancel.at = "none" /\ ~canceled
      BY <2>1 DEF BatchInv
    <2>3. /\ submit' \in [at : {"create", "record", "enqueue", "done"}, job : Members]
          /\ \/ submit.job = BatchSize /\ submit'.at = "record"
             \/ submit'.at = "create" /\ submit'.job = submit.job + 1
      BY <1>1, <1>2, <2>1 DEF CreateJob
    <2>4. ASSUME NEW j \in Members, Created(j)'
          PROVE  row'[j] # "none"
      <3>1. j = submit.job \/ j < submit.job
        BY <1>0, <2>1, <2>2, <2>3, <2>4 DEF Created
      <3> QED BY <1>0, <2>1, <3>1 DEF BatchInv, Created
    <2>5. BatchTypeOK' /\ RowsTypeOK'
      BY <1>0, <2>1, <2>3 DEF BatchTypeOK, RowsTypeOK
    <2>6. \A j \in Job : run'[j] = "loaded" /\ row'[j] \in Ended => j \in escaped'
      BY <2>1 DEF BatchInv, Ended
    <2>7. \A j \in Members : ~Past(j)'
      BY <2>1, <2>2 DEF Past
    <2> QED BY <2>1, <2>2, <2>4, <2>5, <2>6, <2>7 DEF BatchInv
  <1>3. CASE CreateBatch
    <2>1. /\ submit.at = "record" /\ recorded' = TRUE
          /\ UNCHANGED <<rowVars, cancel, canceled, escaped, missed, refused>>
          /\ submit' \in [at : {"create", "record", "enqueue", "done"}, job : Members]
          /\ submit'.at = "enqueue"
      BY <1>0, <1>3 DEF CreateBatch, BatchTypeOK
    <2>2. \A j \in Members : row'[j] # "none"
      BY <2>1 DEF BatchInv, Created, rowVars
    <2>3. BatchTypeOK' /\ RowsTypeOK'
      BY <1>0, <2>1 DEF BatchTypeOK, RowsTypeOK, rowVars
    <2> QED BY <2>1, <2>2, <2>3 DEF BatchInv, Past, rowVars
  <1>4. CASE SubmitFails
    <2>1. /\ submit.at \in {"create", "record"} /\ faults' \in 0 .. MaxFaults
          /\ UNCHANGED <<row, files, run, undone, stray, recorded, cancel, canceled,
                         escaped, missed, refused>>
          /\ submit' \in [at : {"create", "record", "enqueue", "done"}, job : Members]
          /\ submit'.at = "done"
      BY <1>0, <1>4, FaultStays DEF SubmitFails, BatchTypeOK
    <2>2. ~recorded
      BY <2>1 DEF BatchInv
    <2>3. BatchTypeOK' /\ RowsTypeOK'
      BY <1>0, <2>1 DEF BatchTypeOK, RowsTypeOK
    <2> QED BY <2>1, <2>2, <2>3 DEF BatchInv, Past, Created
  <1>5. CASE EnqueueBatch
    <2>1. /\ submit.at = "enqueue" /\ UNCHANGED <<row, files, undone, stray, faults, recorded, cancel, canceled, escaped, missed>>
          /\ refused' \in BOOLEAN
      BY <1>0, <1>5 DEF EnqueueBatch, BatchTypeOK
    <2>2. /\ submit' \in [at : {"create", "record", "enqueue", "done"}, job : Members]
          /\ submit'.at \in {"enqueue", "done"}
      BY <1>0, <1>1, <1>5, <2>1 DEF EnqueueBatch, BatchTypeOK
    <2>3. run' \in [Job -> {"none", "waiting", "loaded", "marked", "running", "signalled"}]
          /\ \A j \in Job : run'[j] \in {run[j], "waiting"}
      BY <1>0, <1>5 DEF EnqueueBatch, Enqueue, RowsTypeOK
    <2>4. BatchTypeOK' /\ RowsTypeOK'
      BY <1>0, <2>1, <2>2, <2>3 DEF BatchTypeOK, RowsTypeOK
    <2>5. \A j \in Job : run'[j] = "loaded" /\ row'[j] \in Ended => j \in escaped'
      BY <2>1, <2>3 DEF BatchInv
    <2>6. \A j \in Members : (Created(j)' => Created(j)) /\ (Past(j)' <=> Past(j))
      BY <2>1, <2>2 DEF Created, Past
    <2> QED BY <2>1, <2>2, <2>4, <2>5, <2>6 DEF BatchInv
  <1> QED BY <1>2, <1>3, <1>4, <1>5 DEF Submission

\* The cancellation goes on to the next job when this one has come to its end, or
\* was missed.
LEMMA NextCancelKeeps ==
  ASSUME BatchInv, recorded, RowsTypeOK', escaped \subseteq escaped', escaped' \subseteq Members,
         missed \subseteq missed', missed' \subseteq Members,
         cancel.at \in {"signal", "write"}, NextCancel,
         UNCHANGED <<submit, recorded, canceled, refused>>,
         \A j \in Job : j # cancel.job => row'[j] = row[j] /\ run'[j] = run[j],
         row'[cancel.job] # "none",
         row'[cancel.job] \in Ended \cup {"gone"} \/ cancel.job \in missed',
         run'[cancel.job] = "loaded" /\ row'[cancel.job] \in Ended => cancel.job \in escaped'
  PROVE  BatchInv'
  <1>0. /\ BatchTypeOK /\ BatchSize \in Nat /\ cancel.job \in Members /\ Members \subseteq Job
        /\ Members = 1 .. BatchSize
    BY BatchAssumption, RowsAssumption, MembersAreJobs DEF BatchInv, BatchTypeOK, Members
  <1>1. /\ cancel' \in [at : {"none", "signal", "write", "status"}, job : Members]
        /\ \/ cancel.job = BatchSize /\ cancel'.at = "status"
           \/ cancel'.at = "signal" /\ cancel'.job = cancel.job + 1
    BY <1>0 DEF NextCancel
  <1>2. ASSUME NEW j \in Members, Past(j)'
        PROVE  row'[j] \in Ended \cup {"gone"} \/ j \in escaped' \cup missed'
    <2>1. j = cancel.job \/ Past(j)
      BY <1>0, <1>1, <1>2 DEF Past
    <2> QED BY <1>0, <2>1 DEF BatchInv
  <1>3. BatchTypeOK'
    BY <1>0, <1>1 DEF BatchTypeOK
  <1>4. \A j \in Members : Created(j)' => row'[j] # "none"
    BY <1>0 DEF BatchInv, Created, Ended
  <1>5. \A j \in Job : run'[j] = "loaded" /\ row'[j] \in Ended => j \in escaped'
    BY <1>0 DEF BatchInv
  <1> QED BY <1>2, <1>3, <1>4, <1>5 DEF BatchInv

LEMMA CancellationKeeps ==
  ASSUME BatchInv, HandleBatchCancel \/ Cancellation
  PROVE  BatchInv'
  <1>0. /\ RowsTypeOK /\ BatchTypeOK /\ BatchSize \in Nat \ {0} /\ cancel.job \in Members
        /\ Members \subseteq Job /\ Members = 1 .. BatchSize
        /\ cancel.at \in {"none", "signal", "write", "status"}
    BY BatchAssumption, RowsAssumption, MembersAreJobs DEF BatchInv, BatchTypeOK, Members
  <1>1. CASE HandleBatchCancel
    <2>1. /\ recorded /\ UNCHANGED <<rowVars, submit, recorded, canceled, escaped, missed, refused>>
          /\ ~canceled /\ cancel' = [at |-> "signal", job |-> 1]
      BY <1>1 DEF HandleBatchCancel
    <2>2. 1 \in Members
      BY <1>0
    <2>3. RowsTypeOK' /\ BatchTypeOK'
      BY <1>0, <2>1, <2>2 DEF RowsTypeOK, BatchTypeOK, rowVars
    <2>4. \A j \in Members : ~Past(j)'
      BY <1>0, <2>1 DEF Past
    <2> QED BY <2>1, <2>3, <2>4 DEF BatchInv, Created, rowVars
  <1>2. CASE CancelSignal
    <2> DEFINE j == cancel.job
               at == IF run[j] = "running" THEN "signalled" ELSE run[j]
    <2>1. /\ cancel.at = "signal"
          /\ UNCHANGED <<row, files, undone, stray, faults, submit, recorded, canceled, escaped, refused>>
          /\ escaped \subseteq Members /\ missed \subseteq Members
      BY <1>0, <1>2 DEF CancelSignal, BatchTypeOK
    <2>2. recorded /\ row[j] # "none"
      BY <1>0, <2>1 DEF BatchInv, Created
    <2>3. /\ run' \in [Job -> {"none", "waiting", "loaded", "marked", "running", "signalled"}]
          /\ run'[j] = "loaded" => run[j] = "loaded"
          /\ \A i \in Job : i # j => run'[i] = run[i]
      BY <1>0, <1>2 DEF CancelSignal, Signal, RowsTypeOK
    <2>4. RowsTypeOK'
      BY <1>0, <2>1, <2>3 DEF RowsTypeOK
    <2>5. \A i \in Job : run'[i] = "loaded" /\ row'[i] \in Ended => i \in escaped'
      BY <2>1, <2>3 DEF BatchInv
    <2>6. CASE row[j] \in Live /\ cancel' = [cancel EXCEPT !.at = "write"] /\ UNCHANGED missed
      <3>1. /\ cancel' \in [at : {"none", "signal", "write", "status"}, job : Members]
            /\ cancel'.at = "write" /\ cancel'.job = j
        BY <1>0, <1>2, <2>6 DEF CancelSignal, BatchTypeOK
      <3>2. \A i \in Members : (Past(i)' => Past(i)) /\ (Created(i)' <=> Created(i))
        BY <2>1, <3>1 DEF Past, Created
      <3>3. BatchTypeOK'
        BY <1>0, <2>1, <2>6, <3>1 DEF BatchTypeOK
      <3> QED BY <2>1, <2>2, <2>4, <2>5, <2>6, <3>2, <3>3 DEF BatchInv
    <2>7. CASE row[j] \notin Live /\ NextCancel /\ UNCHANGED missed
      <3>1. row[j] \in Ended \cup {"gone"}
        BY <1>0, <2>2, <2>7 DEF RowsTypeOK, Status
      <3> QED BY <1>0, <2>1, <2>2, <2>3, <2>4, <2>5, <2>7, <3>1, NextCancelKeeps
    <2>8. CASE row[j] \in Live /\ Miss(j)
      <3>1. NextCancel /\ missed' = missed \cup {j} /\ escaped' = escaped /\ row' = row
        BY <2>1, <2>8 DEF Miss
      <3>2. missed \subseteq missed' /\ missed' \subseteq Members /\ j \in missed'
        BY <1>0, <2>1, <3>1
      <3> QED BY <1>0, <2>1, <2>2, <2>3, <2>4, <2>5, <3>1, <3>2, NextCancelKeeps
    <2>9. \/ row[j] \in Live /\ cancel' = [cancel EXCEPT !.at = "write"] /\ UNCHANGED missed
          \/ row[j] \in Live /\ Miss(j)
          \/ row[j] \notin Live /\ NextCancel /\ UNCHANGED missed
      BY <1>2, Zenon DEF CancelSignal
    <2> QED BY <2>6, <2>7, <2>8, <2>9
  <1>3. CASE CancelWrite
    <2> DEFINE j == cancel.job
    <2>1. /\ cancel.at = "write"
          /\ UNCHANGED <<files, run, stray, faults, submit, recorded, canceled, refused>>
          /\ escaped \subseteq Members /\ missed \subseteq Members
      BY <1>0, <1>3 DEF CancelWrite, BatchTypeOK
    <2>2. recorded /\ row[j] # "none"
      BY <1>0, <2>1 DEF BatchInv, Created
    <2>3. CASE /\ SetStatus(j, "canceled") /\ NextCancel /\ UNCHANGED missed
               /\ escaped' = IF run[j] = "loaded" THEN escaped \cup {j} ELSE escaped
      <3>1. /\ row' \in [Job -> Status] /\ undone' \subseteq Job
            /\ \A i \in Job : i # j => row'[i] = row[i]
            /\ IF row[j] \in Live \cup Ended THEN row'[j] = "canceled" ELSE row'[j] = row[j]
        BY <1>0, <2>3, SetStatusOn DEF Ended
      <3>2. row'[j] \in Ended \cup {"gone"} /\ row'[j] # "none"
        BY <1>0, <2>2, <3>1 DEF RowsTypeOK, Status, Ended
      <3>3. RowsTypeOK'
        BY <1>0, <2>1, <3>1 DEF RowsTypeOK
      <3>4. escaped \subseteq escaped' /\ escaped' \subseteq Members
        BY <1>0, <2>1, <2>3
      <3> QED BY <1>0, <2>1, <2>2, <2>3, <3>1, <3>2, <3>3, <3>4, NextCancelKeeps
    <2>4. CASE Miss(j) /\ UNCHANGED <<row, undone, escaped>>
      <3>1. RowsTypeOK'
        BY <1>0, <2>1, <2>4 DEF RowsTypeOK
      <3>2. run'[j] = "loaded" /\ row'[j] \in Ended => j \in escaped'
        BY <1>0, <2>1, <2>4 DEF BatchInv
      <3> QED BY <1>0, <2>1, <2>2, <2>4, <3>1, <3>2, NextCancelKeeps DEF Miss
    <2> QED BY <1>3, <2>3, <2>4 DEF CancelWrite
  <1>4. CASE CancelEnds
    <2>1. /\ cancel.at = "status" /\ cancel' = [at |-> "none", job |-> 1] /\ canceled' = TRUE
          /\ UNCHANGED <<rowVars, submit, recorded, escaped, missed, refused>>
      BY <1>4 DEF CancelEnds
    <2>2. 1 \in Members
      BY <1>0
    <2>3. RowsTypeOK' /\ BatchTypeOK'
      BY <1>0, <2>1, <2>2 DEF RowsTypeOK, BatchTypeOK, rowVars
    <2>4. \A j \in Members : Past(j)
      BY <2>1 DEF Past
    <2> QED BY <2>1, <2>3, <2>4 DEF BatchInv, Created, rowVars
  <1> QED BY <1>1, <1>2, <1>3, <1>4 DEF Cancellation

LEMMA RestartKeeps ==
  ASSUME BatchInv, RestartManager
  PROVE  BatchInv'
  <1>1. /\ faults' \in 0 .. MaxFaults /\ 1 \in Members
        /\ submit' = [at |-> "done", job |-> 1] /\ cancel' = [at |-> "none", job |-> 1]
        /\ UNCHANGED <<row, files, undone, stray, recorded, canceled, escaped, missed, refused>>
    BY BatchAssumption, FaultStays DEF RestartManager, BatchInv, Members
  <1>2. run' \in [Job -> {"none", "waiting"}]
    BY DEF RestartManager, Recovered
  <1>3. RowsTypeOK' /\ BatchTypeOK'
    BY <1>1, <1>2 DEF BatchInv, RowsTypeOK, BatchTypeOK
  <1>4. \A j \in Members : (Past(j)' => Past(j)) /\ (Created(j)' => Created(j))
    BY <1>1 DEF Past, Created
  <1>5. \A j \in Job : run'[j] # "loaded"
    BY <1>2
  <1> QED BY <1>1, <1>3, <1>4, <1>5 DEF BatchInv

LEMMA BatchKeeps == BatchInv /\ [Next]_vars => BatchInv'
  <1> SUFFICES ASSUME BatchInv, [Next]_vars
               PROVE  BatchInv'
    OBVIOUS
  <1> DEFINE Rest == UNCHANGED <<submit, recorded, cancel, canceled, escaped, missed, refused>>
  <1>1. CASE UNCHANGED jobGroup
    <2>1. Rest /\ UNCHANGED <<row, run>> /\ RowsTypeOK'
      BY <1>1 DEF jobGroup, retentionVars, rowVars, BatchInv, RowsTypeOK
    <2>2. RowsGoOn
      BY <2>1 DEF RowsGoOn
    <2> QED BY <2>1, <2>2, RowsKeepBatch
  <1>2. CASE RetentionNext /\ Rest
    BY <1>2, RetentionRows, RowsKeepBatch DEF BatchInv
  <1>3. CASE BatchNext
    <2>1. ASSUME NEW j \in Members, RunJob(j) \/ DeleteMember(j)
          PROVE  BatchInv'
      BY <2>1, MembersAreJobs, RunStepRows, DeleteRowsOn, RowsKeepBatch
         DEF RunJob, DeleteMember, BatchInv
    <2> QED BY <1>3, <2>1, SubmissionKeeps, CancellationKeeps, RestartKeeps DEF BatchNext
  <1>4. UNCHANGED jobGroup \/ (RetentionNext /\ Rest) \/ BatchNext
    BY DEF Next, vars, ForFiles, ForWatches, ForHub, ForRetention, ForBatches, ForChains
  <1> QED BY <1>1, <1>2, <1>3, <1>4

LEMMA BatchAtRest ==
  ASSUME submit = [at |-> "create", job |-> 1], cancel = [at |-> "none", job |-> 1],
         recorded = FALSE, canceled = FALSE, escaped = {}, missed = {}, refused = FALSE,
         RowsTypeOK, \A j \in Job : run[j] # "loaded"
  PROVE  BatchInv
  <1>1. 1 \in Members /\ \A j \in Members : ~(j < 1)
    BY BatchAssumption, RowsAssumption DEF Members
  <1>2. BatchTypeOK
    BY <1>1 DEF BatchTypeOK
  <1>3. \A j \in Members : ~Created(j) /\ ~Past(j)
    BY <1>1 DEF Created, Past
  <1> QED BY <1>2, <1>3 DEF BatchInv

LEMMA JobsBegin == JobsInit => BatchInv
  <1> SUFFICES ASSUME JobsInit
               PROVE  BatchInv
    OBVIOUS
  <1>1. 1 \in Members /\ 0 \in 0 .. MaxFaults
    BY BatchAssumption, RowsAssumption DEF Members
  <1>2. CASE part = "retention"
    <2>1. RetentionInit(SomeRows, {LastRow \div 2, LastRow}) /\ BatchRest
      BY <1>2 DEF JobsInit
    <2>2. row \in [Job -> {"failed", "running"}]
      BY <2>1 DEF RetentionInit, SomeRows
    <2>3. /\ run \in [Job -> {"none", "waiting", "loaded", "marked", "running", "signalled"}]
          /\ \A j \in Job : run[j] # "loaded"
      BY <2>1 DEF RetentionInit
    <2>4. files \subseteq Job /\ undone = {} /\ stray = {} /\ faults = 0
      BY <2>1 DEF RetentionInit
    <2>5. RowsTypeOK
      BY <1>1, <2>2, <2>3, <2>4 DEF RowsTypeOK, Status, Live, Ended
    <2>6. /\ submit = [at |-> "create", job |-> 1] /\ cancel = [at |-> "none", job |-> 1]
          /\ recorded = FALSE /\ canceled = FALSE /\ escaped = {} /\ missed = {} /\ refused = FALSE
      BY <2>1 DEF BatchRest
    <2> QED BY <2>3, <2>5, <2>6, BatchAtRest
  <1>3. CASE part # "retention"
    <2>1. BatchInit
      BY <1>3 DEF JobsInit
    <2>2. RowsTypeOK
      BY <1>1, <2>1 DEF BatchInit, RowsTypeOK, Status
    <2>3. \A j \in Job : run[j] # "loaded"
      BY <2>1 DEF BatchInit
    <2> QED BY <2>1, <2>2, <2>3, BatchAtRest DEF BatchInit
  <1> QED BY <1>2, <1>3

\* What the status says, in terms of the jobs.
LEMMA FinalIs ==
  ASSUME BatchTypeOK
  PROVE  Final <=> \A j \in Members : row[j] \in Ended
  <1>1. /\ IsFiniteSet(Members) /\ Cardinality(Members) = BatchSize
        /\ BatchSize \in Nat \ {0}
    BY MembersAreJobs, BatchAssumption, RowsAssumption
  <1>2. \A S \in SUBSET Members : Cardinality(S) \in 0 .. BatchSize
                                  /\ (Cardinality(S) = BatchSize => S = Members)
    BY <1>1, FS_Subset, FS_CardinalityType
  <1> DEFINE ended == {j \in Members : row[j] \in Ended}
             good == {j \in Members : row[j] \in {"succeeded"}}
  <1>3. /\ EndedInBatch = Cardinality(ended) /\ Count({"succeeded"}) = Cardinality(good)
        /\ Cardinality(ended) \in 0 .. BatchSize /\ Cardinality(good) \in 0 .. BatchSize
        /\ (Cardinality(ended) = BatchSize <=> ended = Members)
    BY <1>1, <1>2 DEF EndedInBatch, Count
  <1> HIDE DEF ended, good
  <1>4. Final <=> Cardinality(ended) = BatchSize
    BY <1>1, <1>3 DEF Final, Verdict
  <1> QED BY <1>3, <1>4 DEF ended

\* The status of a batch says what its jobs have come to, and a cancellation that
\* ended left no job queued or running but those that a worker was taking up then and
\* those whose own cancellation failed (CancelBatch, CancelJob).
THEOREM VerdictSoundHolds == Spec => []VerdictSound
  <1>1. Init => BatchInv
    BY JobsBegin DEF Init
  <1>2. BatchInv => VerdictSound
    <2> SUFFICES ASSUME BatchInv
                 PROVE  VerdictSound
      OBVIOUS
    <2>1. Final <=> \A j \in Members : row[j] \in Ended
      BY FinalIs DEF BatchInv
    <2>2. recorded => \A j \in Members : row[j] \in {"gone"} \cup Live \cup Ended
      BY MembersAreJobs DEF BatchInv, Created, RowsTypeOK, Status
    <2>3. canceled => recorded
                      /\ \A j \in Members :
                           row[j] \in Ended \cup {"gone"} \/ j \in escaped \cup missed
      BY DEF BatchInv, Past
    <2> QED BY <2>1, <2>2, <2>3 DEF VerdictSound
  <1> QED BY <1>1, <1>2, BatchKeeps, PTL DEF Spec

-----------------------------------------------------------------------------
(* Retention *)

\* Where a cleanup is, and how large the page is that it has in hand.
Placed(c) ==
  /\ clean[c].phase = "age" => clean[c].at \in {"list", "files", "rows"}
  /\ clean[c].phase \in {"count", "room"} => clean[c].at \in {"measure", "list", "files", "rows"}
  /\ clean[c].phase \in {"idle", "over"} => clean[c].at = "none"
  /\ clean[c].at \in {"files", "rows"} =>
       /\ Cardinality(clean[c].batch) <= clean[c].page
       /\ clean[c].offset + clean[c].page <= LastRow

\* What it deletes has no worker, and at last no files, or is marked as stray.
Settled(c) ==
  /\ clean[c].at \in {"files", "rows"} =>
       \A j \in clean[c].batch : j \in stray \/ run[j] = "none"
  /\ clean[c].at = "rows" =>
       \A j \in clean[c].batch \ clean[c].spared : j \in stray \/ j \notin files

\* What is left to delete by count is more than nothing only above the limit.
Counting(c) ==
  /\ clean[c].phase = "count" /\ clean[c].at \in {"files", "rows"} =>
       Cardinality(clean[c].batch) <= clean[c].left
  /\ clean[c].alone /\ clean[c].phase = "count" /\ clean[c].at # "measure" =>
       Cardinality(Rows) >= MaxJobs + clean[c].left
  /\ clean[c].cut =>
       \/ clean[c].phase = "count" /\ clean[c].at # "measure"
       \/ clean[c].phase = "room" /\ clean[c].at = "measure"
  /\ clean[c].alone /\ clean[c].cut /\ clean[c].phase = "room" => Cardinality(Rows) >= MaxJobs

\* A job that was due was written again, is gone, or has one of these statuses.
Waits(j, from) ==
  j \in undone \/ j \notin Rows \/ \E s \in from .. 3 : row[j] = AgeOrder[s]

\* By age, every status before this one is done with, and what a page that is not
\* full brings is all of this one.
Aging(c) ==
  /\ clean[c].due \subseteq clean[c].kind /\ \A j \in clean[c].due : j <= cutoff
  /\ ~clean[c].full /\ faults = 0 =>
       /\ clean[c].phase = "age" =>
            /\ clean[c].offset = 0
            /\ \A j \in clean[c].due : Waits(j, clean[c].status)
       /\ clean[c].phase = "age" /\ clean[c].at \in {"files", "rows"}
            /\ clean[c].page < PageSize =>
            \A j \in clean[c].due : j \in clean[c].batch \/ Waits(j, clean[c].status + 1)
       /\ clean[c].at = "rows" => clean[c].spared = {}
       /\ clean[c].phase = "count" /\ clean[c].at = "measure" =>
            \A j \in clean[c].due : Waits(j, 4)

\* A job that a request is going to enqueue.
Awaited(j) ==
  submit.at \in {"create", "record"} \/ (submit.at = "enqueue" /\ submit.job <= j)

CleanInv ==
  /\ RowsTypeOK /\ CleanTypeOK
  /\ \A c \in Cleaner : Placed(c) /\ Settled(c) /\ Counting(c) /\ Aging(c)
  /\ \A j \in Job : row[j] = "gone" => j \in stray \/ (j \notin files /\ run[j] = "none")
  /\ part # "retention" => \A c \in Cleaner : clean[c] = NoCleanup
  /\ part = "batches" => \A j \in Members : row[j] = "gone" /\ Awaited(j) => j \in stray

LEMMA JobsAreFinite ==
  /\ IsFiniteSet(Job) /\ Cardinality(Job) = LastRow /\ LastRow \in Nat
  /\ \A S \in SUBSET Job : IsFiniteSet(S) /\ Cardinality(S) \in 0 .. LastRow
  <1>1. IsFiniteSet(Job) /\ Cardinality(Job) = LastRow /\ LastRow \in Nat
    BY RowsAssumption, FS_Interval DEF Job
  <1>2. \A S \in SUBSET Job : /\ IsFiniteSet(S) /\ Cardinality(S) <= LastRow
                             /\ Cardinality(S) \in Nat
    BY <1>1, FS_Subset, FS_CardinalityType
  <1> QED BY <1>1, <1>2

\* A row has its own place in the list.
LEMMA Places ==
  ASSUME NEW rows \in SUBSET Job, NEW i \in rows, NEW j \in rows, i < j
  PROVE  /\ Cardinality(Before(rows, i)) < Cardinality(Before(rows, j))
         /\ Cardinality(Before(rows, j)) \in Nat
         /\ Cardinality(Before(rows, j)) < Cardinality(rows)
  <1> DEFINE B == Before(rows, i)
             C == Before(rows, j)
  <1>0. i \in Nat /\ j \in Nat /\ rows \subseteq Nat
    BY RowsAssumption DEF Job
  <1>1. IsFiniteSet(rows) /\ IsFiniteSet(B) /\ IsFiniteSet(C)
    BY JobsAreFinite DEF Before
  <1>2. i \notin B /\ B \cup {i} \subseteq C /\ j \notin C /\ C \cup {j} \subseteq rows
    <2>1. \A k \in rows : k \in Nat
      BY <1>0
    <2>2. i \notin B /\ j \notin C
      BY <1>0 DEF Before
    <2>3. B \cup {i} \subseteq C
      <3>1. \A k \in rows : k < i => k < j
        BY <1>0, <2>1
      <3>2. i \in C /\ \A k \in B : k \in C
        BY <3>1 DEF Before
      <3> QED BY <3>2
    <2>4. C \cup {j} \subseteq rows
      BY DEF Before
    <2> QED BY <2>2, <2>3, <2>4
  <1> HIDE DEF B, C
  <1>3. Cardinality(B \cup {i}) = Cardinality(B) + 1 /\ Cardinality(C \cup {j}) = Cardinality(C) + 1
    BY <1>1, <1>2, FS_AddElement
  <1>4. Cardinality(B \cup {i}) <= Cardinality(C) /\ Cardinality(C \cup {j}) <= Cardinality(rows)
    BY <1>1, <1>2, FS_Subset
  <1>5. Cardinality(B) \in Nat /\ Cardinality(C) \in Nat /\ Cardinality(rows) \in Nat
    BY <1>1, FS_CardinalityType
  <1>6. Cardinality(B) < Cardinality(C) /\ Cardinality(C) < Cardinality(rows)
    BY <1>3, <1>4, <1>5
  <1> QED BY <1>5, <1>6 DEF B, C

LEMMA LastPlace ==
  ASSUME NEW rows \in SUBSET Job, NEW j \in rows
  PROVE  /\ Cardinality(Before(rows, j)) \in Nat
         /\ Cardinality(Before(rows, j)) < Cardinality(rows)
  <1> DEFINE B == Before(rows, j)
  <1>0. j \in Nat
    BY RowsAssumption DEF Job
  <1>1. IsFiniteSet(rows) /\ IsFiniteSet(B) /\ j \notin B /\ B \cup {j} \subseteq rows
    BY <1>0, JobsAreFinite DEF Before
  <1> HIDE DEF B
  <1>2. Cardinality(B \cup {j}) = Cardinality(B) + 1 /\ Cardinality(B \cup {j}) <= Cardinality(rows)
    BY <1>1, FS_AddElement, FS_Subset
  <1>3. Cardinality(B) \in Nat /\ Cardinality(rows) \in Nat
    BY <1>1, FS_CardinalityType
  <1>4. Cardinality(B) < Cardinality(rows)
    BY <1>2, <1>3
  <1> QED BY <1>3, <1>4 DEF B

\* There are no more rows than places for them.
LEMMA RowsFitPlaces ==
  ASSUME NEW rows \in SUBSET Job, NEW S \in SUBSET rows, NEW a \in Int, NEW b \in Int,
         \A j \in S : Cardinality(Before(rows, j)) \in a .. b
  PROVE  /\ IsFiniteSet(S) /\ Cardinality(S) \in Nat
         /\ Cardinality(S) <= IF a > b THEN 0 ELSE b - a + 1
  <1>1. IsFiniteSet(S) /\ Cardinality(S) \in Nat
    BY JobsAreFinite
  <1>2. IsFiniteSet(a .. b) /\ Cardinality(a .. b) = IF a > b THEN 0 ELSE b - a + 1
    BY FS_Interval
  <1> DEFINE f == [j \in S |-> Cardinality(Before(rows, j))]
  <1>3. f \in [S -> a .. b]
    OBVIOUS
  <1>4. \A i, j \in S : i # j => f[i] # f[j]
    <2> TAKE i, j \in S
    <2>1. i \in Nat /\ j \in Nat /\ f[i] = Cardinality(Before(rows, i))
          /\ f[j] = Cardinality(Before(rows, j))
      BY RowsAssumption DEF Job
    <2>2. f[i] \in Nat /\ f[j] \in Nat
      BY <2>1, LastPlace
    <2>3. i < j => f[i] < f[j]
      BY <2>1, Places
    <2>4. j < i => f[j] < f[i]
      BY <2>1, Places
    <2> HIDE DEF f
    <2> QED BY <2>1, <2>2, <2>3, <2>4
  <1> HIDE DEF f
  <1>5. ~(Cardinality(a .. b) < Cardinality(S))
    BY <1>1, <1>2, <1>3, <1>4, FS_PigeonHole
  <1> QED BY <1>1, <1>2, <1>5

\* A page is no longer than it may be, and ends where the rows end.
LEMMA PageSizes ==
  ASSUME NEW rows \in SUBSET Job, NEW offset \in Nat, NEW limit \in Nat
  PROVE  LET page1 == Page(rows, offset, limit) IN
         /\ page1 \in SUBSET rows /\ page1 \in SUBSET Job
         /\ Cardinality(page1) \in 0 .. limit /\ Cardinality(page1) <= LastRow
         /\ page1 # {} => offset + Cardinality(page1) <= Cardinality(rows)
         /\ page1 # {} => offset + Cardinality(page1) <= LastRow
  <1> DEFINE P == Page(rows, offset, limit)
  <1>1. P \in SUBSET rows /\ P \in SUBSET Job /\ Cardinality(rows) \in 0 .. LastRow
        /\ Cardinality(P) \in 0 .. LastRow
    <2>1. P \subseteq rows
      BY DEF Page
    <2> QED BY <2>1, JobsAreFinite
  <1>2. \A j \in P : /\ Cardinality(Before(rows, j)) \in Nat
                     /\ Cardinality(Before(rows, j)) < Cardinality(rows)
                     /\ Cardinality(Before(rows, j)) \in offset .. offset + limit - 1
    BY <1>1, LastPlace DEF Page
  <1>3. Cardinality(P) <= limit
    <2>1. offset + limit - 1 \in Int /\ offset \in Int
      OBVIOUS
    <2>2. Cardinality(P) <= IF offset > offset + limit - 1 THEN 0
                            ELSE (offset + limit - 1) - offset + 1
      BY <1>1, <1>2, <2>1, RowsFitPlaces
    <2> HIDE DEF P
    <2> QED BY <1>1, <2>2
  <1>4. ASSUME P # {}
        PROVE  offset + Cardinality(P) <= Cardinality(rows)
    <2>1. Cardinality(rows) - 1 \in Int /\ offset \in Int
      BY <1>1
    <2>2. \A j \in P : Cardinality(Before(rows, j)) \in offset .. Cardinality(rows) - 1
      BY <1>1, <1>2
    <2>3. Cardinality(P) <= IF offset > Cardinality(rows) - 1 THEN 0
                            ELSE (Cardinality(rows) - 1) - offset + 1
      BY <1>1, <2>1, <2>2, RowsFitPlaces
    <2>4. offset <= Cardinality(rows) - 1
      BY <1>1, <1>4, <2>2
    <2> HIDE DEF P
    <2> QED BY <1>1, <2>3, <2>4
  <1>5. Cardinality(P) \in 0 .. limit
    BY <1>1, <1>3
  <1>6. LastRow \in Nat
    BY JobsAreFinite
  <1> HIDE DEF P
  <1>7. P # {} => offset + Cardinality(P) <= LastRow
    BY <1>1, <1>4, <1>6
  <1> QED BY <1>1, <1>4, <1>5, <1>7 DEF P

\* A first page that is not full has all the rows.
LEMMA ShortFirstPage ==
  ASSUME NEW rows \in SUBSET Job, NEW limit \in Nat, Cardinality(Page(rows, 0, limit)) < limit
  PROVE  Page(rows, 0, limit) = rows
  <1> DEFINE P == Page(rows, 0, limit)
             Q == rows \ P
  <1>1. P \in SUBSET rows /\ Q \in SUBSET rows /\ P \in SUBSET Job /\ IsFiniteSet(rows)
        /\ Cardinality(rows) \in Nat /\ Cardinality(P) \in Nat
    <2>1. P \in SUBSET rows /\ P \in SUBSET Job
      BY PageSizes
    <2> HIDE DEF P
    <2> QED BY <2>1, JobsAreFinite
  <1>2. \A j \in Q : Cardinality(Before(rows, j)) \in limit .. Cardinality(rows) - 1
    <2> TAKE j \in Q
    <2>1. /\ Cardinality(Before(rows, j)) \in Nat
          /\ Cardinality(Before(rows, j)) < Cardinality(rows)
          /\ Cardinality(Before(rows, j)) \notin 0 .. 0 + limit - 1
      BY LastPlace DEF Page
    <2> QED BY <1>1, <2>1
  <1>3. Cardinality(rows) - 1 \in Int /\ limit \in Int
    BY <1>1
  <1>4. /\ Cardinality(Q) \in Nat
        /\ Cardinality(Q) <= IF limit > Cardinality(rows) - 1 THEN 0
                             ELSE (Cardinality(rows) - 1) - limit + 1
    BY <1>1, <1>2, <1>3, RowsFitPlaces
  <1>5. Cardinality(Q) = Cardinality(rows) - Cardinality(P)
    <2>1. rows \cap P = P
      BY <1>1
    <2> QED BY <1>1, <2>1, FS_Difference
  <1>6. Cardinality(P) < limit
    OBVIOUS
  <1>7. Cardinality(Q) = 0
    <2> HIDE DEF P, Q
    <2> QED BY <1>1, <1>4, <1>5, <1>6
  <1>8. Q = {}
    <2>1. IsFiniteSet(Q)
      BY <1>1, JobsAreFinite
    <2> HIDE DEF Q
    <2> QED BY <1>7, <2>1, FS_EmptySet
  <1> QED BY <1>1, <1>8

LEMMA CleanIs ==
  ASSUME CleanTypeOK, NEW c \in Cleaner
  PROVE  /\ clean[c] \in Cleanups /\ cutoff \in 0 .. LastRow
         /\ clean[c].phase \in Phases /\ clean[c].kind \subseteq Job /\ clean[c].due \subseteq Job
         /\ clean[c].at \in {"none", "measure", "list", "files", "rows"}
         /\ clean[c].status \in 1 .. 3 /\ clean[c].offset \in 0 .. LastRow
         /\ clean[c].left \in 0 .. LastRow /\ clean[c].page \in 0 .. PageSize
         /\ clean[c].batch \subseteq Job /\ clean[c].spared \subseteq Job
         /\ clean[c].freed \in 0 .. PageSize /\ clean[c].full \in BOOLEAN
         /\ clean[c].alone \in BOOLEAN /\ clean[c].cut \in BOOLEAN
  <1>1. clean[c] \in Cleanups /\ cutoff \in 0 .. LastRow
    BY DEF CleanTypeOK
  <1> QED BY <1>1 DEF Cleanups

LEMMA Sizes == PageSize \in Nat \ {0} /\ MaxJobs \in Nat \ {0} /\ LastRow \in Nat
  BY RetentionAssumption, RowsAssumption

\* One cleanup goes on.
LEMMA CleanMoves ==
  ASSUME CleanTypeOK, cutoff' = cutoff, NEW c \in Cleaner, NEW r \in Cleanups, CleanTo(c, r)
  PROVE  CleanTypeOK' /\ clean'[c] = r /\ \A d \in Cleaner : d # c => clean'[d] = clean[d]
  BY DEF CleanTo, CleanTypeOK

\* What the next part of a cleanup keeps of the old one.
Kept(r, x) ==
  /\ r.kind = x.kind /\ r.due = x.due /\ r.full = x.full /\ r.alone = x.alone
  /\ r.cut = x.cut /\ r.spared = x.spared /\ r.freed = x.freed

LEMMA PhaseIs ==
  ASSUME CleanTypeOK, NEW c \in Cleaner, NEW phase \in {"age", "count", "room"}
  PROVE  /\ Phase(c, phase) \in Cleanups /\ Kept(Phase(c, phase), clean[c])
         /\ Phase(c, phase).phase = phase
         /\ Phase(c, phase).at = (IF phase = "age" THEN "list" ELSE "measure")
         /\ Phase(c, phase).status = 1 /\ Phase(c, phase).offset = 0 /\ Phase(c, phase).left = 0
         /\ Phase(c, phase).page = 0 /\ Phase(c, phase).batch = {}
  <1>1. clean[c] \in Cleanups /\ 1 \in 1 .. 3 /\ 0 \in 0 .. LastRow /\ 0 \in 0 .. PageSize
        /\ phase \in Phases
    BY CleanIs, Sizes DEF Phases
  <1> QED BY <1>1 DEF Phase, Cleanups, Kept

LEMMA NoCleanupIs ==
  /\ NoCleanup \in Cleanups /\ [NoCleanup EXCEPT !.phase = "over"] \in Cleanups
  /\ NoCleanup.phase = "idle" /\ NoCleanup.at = "none" /\ NoCleanup.cut = FALSE
  /\ NoCleanup.due = {} /\ NoCleanup.kind = {}
  /\ LET over == [NoCleanup EXCEPT !.phase = "over"] IN
     over.phase = "over" /\ over.at = "none" /\ over.cut = FALSE /\ over.due = {} /\ over.kind = {}
  <1>1. 1 \in 1 .. 3 /\ 0 \in 0 .. LastRow /\ 0 \in 0 .. PageSize
        /\ "idle" \in Phases /\ "over" \in Phases
    BY Sizes DEF Phases
  <1> QED BY <1>1 DEF NoCleanup, Cleanups

LEMMA AfterAgePageIs ==
  ASSUME CleanTypeOK, NEW c \in Cleaner, NEW size \in 0 .. PageSize,
         clean[c].offset + size <= LastRow \/ size < PageSize
  PROVE  LET r == AfterAgePage(c, size) IN
         /\ r \in Cleanups /\ r.kind = clean[c].kind /\ r.due = clean[c].due
         /\ r.cut = clean[c].cut /\ r.batch = {}
         /\ IF size < PageSize
            THEN /\ r.full = clean[c].full /\ r.offset = 0
                 /\ IF clean[c].status < 3
                    THEN r.phase = clean[c].phase /\ r.at = "list" /\ r.status = clean[c].status + 1
                    ELSE r.phase = "count" /\ r.at = "measure"
            ELSE r.phase = clean[c].phase /\ r.at = "list" /\ r.full = TRUE
  <1>1. Len(AgeOrder) = 3
    BY DEF AgeOrder
  <1>2. CASE size < PageSize /\ clean[c].status < 3
    <2> DEFINE r == [clean[c] EXCEPT !.status = @ + 1, !.offset = 0, !.page = 0, !.batch = {},
                                     !.at = "list"]
    <2>1. AfterAgePage(c, size) = r
      BY <1>1, <1>2 DEF AfterAgePage, NextStatus
    <2>2. clean[c] \in Cleanups /\ clean[c].status + 1 \in 1 .. 3 /\ 0 \in 0 .. LastRow
          /\ 0 \in 0 .. PageSize
      BY <1>2, CleanIs, Sizes
    <2>3. /\ r \in Cleanups /\ r.kind = clean[c].kind /\ r.due = clean[c].due
          /\ r.cut = clean[c].cut /\ r.batch = {} /\ r.full = clean[c].full /\ r.offset = 0
          /\ r.phase = clean[c].phase /\ r.at = "list" /\ r.status = clean[c].status + 1
      BY <2>2 DEF Cleanups
    <2> HIDE DEF r
    <2> QED BY <1>2, <2>1, <2>3
  <1>3. CASE size < PageSize /\ ~(clean[c].status < 3)
    <2>1. AfterAgePage(c, size) = Phase(c, "count")
      BY <1>1, <1>3 DEF AfterAgePage, NextStatus
    <2> QED BY <1>3, <2>1, PhaseIs DEF Kept
  <1>4. CASE ~(size < PageSize)
    <2> DEFINE r == [clean[c] EXCEPT !.at = "list", !.offset = @ + size, !.batch = {}, !.page = 0,
                                     !.full = TRUE]
    <2>1. AfterAgePage(c, size) = r
      BY <1>4 DEF AfterAgePage
    <2>2. clean[c] \in Cleanups /\ clean[c].offset + size \in 0 .. LastRow /\ 0 \in 0 .. PageSize
      BY <1>4, CleanIs, Sizes
    <2>3. /\ r \in Cleanups /\ r.kind = clean[c].kind /\ r.due = clean[c].due
          /\ r.cut = clean[c].cut /\ r.batch = {} /\ r.full = TRUE
          /\ r.phase = clean[c].phase /\ r.at = "list"
      BY <2>2 DEF Cleanups
    <2> HIDE DEF r
    <2> QED BY <1>4, <2>1, <2>3
  <1> QED BY <1>2, <1>3, <1>4

LEMMA AfterPhaseIs ==
  ASSUME CleanTypeOK, NEW c \in Cleaner, clean[c].phase \in {"count", "room"}
  PROVE  LET r == AfterPhase(c) IN
         /\ r \in Cleanups
         /\ IF clean[c].phase = "count"
            THEN r.phase = "room" /\ r.at = "measure" /\ Kept(r, clean[c])
            ELSE r.phase = "over" /\ r.at = "none" /\ r.due = {} /\ r.kind = {} /\ r.cut = FALSE
  BY PhaseIs, NoCleanupIs DEF AfterPhase

\* The page is done with, and the cleanup lists the next one.
LEMMA AfterPageIs ==
  ASSUME CleanTypeOK, NEW c \in Cleaner, NEW got \in Nat, NEW tried \in Nat, NEW freed \in Nat,
         got = (IF clean[c].phase = "count" THEN tried ELSE freed),
         ~(got >= clean[c].left), clean[c].offset + clean[c].page <= LastRow
  PROVE  LET r == AfterPage(c, tried, freed) IN
         /\ r \in Cleanups /\ r.phase = clean[c].phase /\ r.at = "list" /\ Kept(r, clean[c])
         /\ r.left = clean[c].left - got
  <1> DEFINE r == [clean[c] EXCEPT !.at = "list", !.left = @ - got, !.batch = {}, !.page = 0,
                                   !.offset = @ + clean[c].page]
  <1>1. AfterPage(c, tried, freed) = r
    BY DEF AfterPage
  <1>2. /\ clean[c] \in Cleanups /\ clean[c].left - got \in 0 .. LastRow /\ 0 \in 0 .. PageSize
        /\ clean[c].offset + clean[c].page \in 0 .. LastRow
    BY CleanIs, Sizes
  <1>3. /\ r \in Cleanups /\ r.phase = clean[c].phase /\ r.at = "list" /\ Kept(r, clean[c])
        /\ r.left = clean[c].left - got
    BY <1>2 DEF Cleanups, Kept
  <1> HIDE DEF r
  <1> QED BY <1>1, <1>3

\* What DeleteRows sets in the end, and what another's deletion does.
PageDone(x, cut1) == [x EXCEPT !.spared = {}, !.freed = 0, !.cut = cut1]

LEMMA PageDoneIs ==
  ASSUME NEW x \in Cleanups, NEW cut1 \in BOOLEAN, NEW r, r = PageDone(x, cut1)
  PROVE  /\ r \in Cleanups /\ r.phase = x.phase /\ r.at = x.at /\ r.kind = x.kind
         /\ r.due = x.due /\ r.full = x.full /\ r.alone = x.alone /\ r.status = x.status
         /\ r.offset = x.offset /\ r.left = x.left /\ r.cut = cut1
  <1>1. 0 \in 0 .. PageSize
    BY Sizes
  <1> QED BY <1>1 DEF Cleanups, PageDone

LEMMA AloneSet ==
  ASSUME NEW x \in Cleanups, NEW r, r = [x EXCEPT !.alone = FALSE]
  PROVE  /\ r \in Cleanups /\ r.phase = x.phase /\ r.at = x.at /\ r.kind = x.kind
         /\ r.due = x.due /\ r.full = x.full /\ r.alone = FALSE /\ r.status = x.status
         /\ r.offset = x.offset /\ r.left = x.left /\ r.page = x.page /\ r.batch = x.batch
         /\ r.spared = x.spared /\ r.cut = x.cut
  BY DEF Cleanups

\* What the steps of retention, of operators and of the manager have in common.
RowsOnlyGo ==
  /\ RowsTypeOK' /\ Rows' \subseteq Rows
  /\ stray \subseteq stray' /\ undone \subseteq undone' /\ (faults' = 0 => faults = 0)
  /\ \A j \in Job : /\ run[j] = "none" => run'[j] = "none"
                    /\ j \in files' => j \in files \/ run[j] # "none"
                    /\ row[j] = "gone" => row'[j] = "gone"
  /\ \A j \in Rows' : row[j] \in Ended => row'[j] = row[j] \/ j \in undone'

LEMMA FaultsCount ==
  ASSUME RowsTypeOK, Fault
  PROVE  faults' # 0
  BY RowsAssumption DEF Fault, RowsTypeOK

LEMMA RunStepOnly ==
  ASSUME RowsTypeOK, NEW j \in Job, RunStep(j)
  PROVE  /\ RowsOnlyGo /\ Rows' = Rows /\ stray' = stray
         /\ run[j] # "none" /\ \A i \in Job : i # j => run'[i] = run[i]
         /\ \A i \in Job : row'[i] = "gone" => row[i] = "gone"
  <1>0. RowsTypeOK'
    BY RunStepRows
  <1>1. /\ run[j] # "none" /\ stray' = stray /\ files' \subseteq files \cup {j}
        /\ \A i \in Job : i # j => run'[i] = run[i]
    BY DEF RunStep, LoadJob, MarkRunning, Register, EndRun, RowsTypeOK
  <1>2. faults' = 0 => faults = 0
    BY FaultsCount DEF RunStep, LoadJob, MarkRunning, Register, EndRun
  <1>3. UNCHANGED <<row, undone>> \/ \E s \in Live \cup Ended : SetStatus(j, s)
    BY DEF RunStep, LoadJob, MarkRunning, Register, EndRun, Live, Ended
  <1>4. CASE UNCHANGED <<row, undone>>
    BY <1>0, <1>1, <1>2, <1>4 DEF RowsOnlyGo, Rows
  <1>5. CASE \E s \in Live \cup Ended : SetStatus(j, s)
    <2>1. PICK s \in Live \cup Ended : SetStatus(j, s)
      BY <1>5
    <2>2. /\ \A i \in Job : i # j => row'[i] = row[i]
          /\ IF row[j] \in Live \cup Ended THEN row'[j] = s ELSE row'[j] = row[j]
      BY <2>1, SetStatusOn
    <2>3. Rows' = Rows /\ \A i \in Job : (row'[i] = "gone") <=> (row[i] = "gone")
      BY <2>1, <2>2 DEF Rows, Live, Ended
    <2>4. undone \subseteq undone' /\ (row[j] \in Ended => row'[j] = row[j] \/ j \in undone')
      BY <2>1, <2>2 DEF SetStatus
    <2>5. \A i \in Rows' : row[i] \in Ended => row'[i] = row[i] \/ i \in undone'
      BY <2>2, <2>4 DEF Rows
    <2> QED BY <1>0, <1>1, <1>2, <2>3, <2>4, <2>5 DEF RowsOnlyGo
  <1> QED BY <1>3, <1>4, <1>5

LEMMA DeleteOnly ==
  ASSUME RowsTypeOK, NEW j \in Job, NEW awaited \in BOOLEAN, DeleteWithArtifacts(j, awaited)
  PROVE  /\ RowsOnlyGo /\ run' = run /\ (awaited => j \in stray')
         /\ \A i \in Job : i # j /\ row'[i] = "gone" => row[i] = "gone"
         /\ j \in stray' \/ (j \notin files' /\ run'[j] = "none")
  <1>1. RowsTypeOK'
    BY DeleteRowsOn
  <1>2. row' = [row EXCEPT ![j] = "gone"] /\ UNCHANGED <<run, undone>>
    BY DEF DeleteWithArtifacts
  <1>3. files' \subseteq files /\ stray \subseteq stray' /\ (faults' = 0 => faults = 0)
    BY FaultsCount DEF DeleteWithArtifacts
  <1>4. \A i \in Job : row'[i] = IF i = j THEN "gone" ELSE row[i]
    BY <1>2 DEF RowsTypeOK
  <1>5. Rows' \subseteq Rows /\ j \notin Rows'
    BY <1>4 DEF Rows, Live, Ended
  <1>6. RowsOnlyGo
    BY <1>1, <1>2, <1>3, <1>4, <1>5 DEF RowsOnlyGo
  <1>7. awaited \/ run[j] # "none" \/ j \in files' => j \in stray'
    BY DEF DeleteWithArtifacts
  <1> QED BY <1>2, <1>4, <1>6, <1>7

\* What was due stays waiting for its status, or done with.
LEMMA WaitsStay ==
  ASSUME RowsOnlyGo, NEW j \in Job, NEW from \in 1 .. 4, Waits(j, from)
  PROVE  Waits(j, from)'
  <1>1. CASE j \in undone \/ j \notin Rows \/ j \notin Rows'
    BY <1>1 DEF RowsOnlyGo, Waits
  <1>2. CASE j \notin undone /\ j \in Rows'
    <2>1. PICK s \in from .. 3 : row[j] = AgeOrder[s]
      BY <1>2 DEF RowsOnlyGo, Waits
    <2>2. s \in 1 .. 3
      BY <2>1
    <2>3. row[j] \in Ended
      BY <2>1, <2>2 DEF AgeOrder, Ended
    <2>4. row'[j] = row[j] \/ j \in undone'
      BY <1>2, <2>3 DEF RowsOnlyGo
    <2> QED BY <2>1, <2>4 DEF Waits
  <1> QED BY <1>1, <1>2

LEMMA WaitsAreFewer ==
  ASSUME NEW j \in Job, NEW from \in Nat
  PROVE  Waits(j, from + 1) => Waits(j, from)
  BY DEF Waits

LEMMA AgeOrderIs == AgeOrder[1] = "failed" /\ AgeOrder[2] = "succeeded" /\ AgeOrder[3] = "canceled"
                    /\ Ended = {AgeOrder[s] : s \in 1 .. 3}
  BY DEF AgeOrder, Ended

Fits(c) == Placed(c) /\ Settled(c) /\ Counting(c) /\ Aging(c)

\* A cleanup that others go on beside.
LEMMA BystanderFits ==
  ASSUME RowsTypeOK, CleanTypeOK, RowsOnlyGo, cutoff' = cutoff, NEW d \in Cleaner, Fits(d),
         \/ clean'[d] = clean[d] /\ Rows' = Rows
         \/ clean'[d] = [clean[d] EXCEPT !.alone = FALSE]
  PROVE  Fits(d)'
  <1> DEFINE x == clean[d]
             y == clean'[d]
  <1>0. /\ y.phase = x.phase /\ y.at = x.at /\ y.kind = x.kind /\ y.due = x.due /\ y.full = x.full
        /\ y.status = x.status /\ y.offset = x.offset /\ y.left = x.left /\ y.page = x.page
        /\ y.batch = x.batch /\ y.spared = x.spared /\ y.cut = x.cut
        /\ (y.alone => Rows' = Rows /\ x.alone)
    <2>1. CASE y = x /\ Rows' = Rows
      BY <2>1
    <2>2. CASE y = [x EXCEPT !.alone = FALSE]
      <3>1. x \in Cleanups
        BY CleanIs
      <3> HIDE DEF x, y
      <3> QED BY <2>2, <3>1, AloneSet
    <2> QED BY <2>1, <2>2
  <1>1. x.due \subseteq Job /\ x.status \in 1 .. 3 /\ x.batch \subseteq Job
    BY CleanIs
  <1>2. Placed(d)'
    BY <1>0 DEF Fits, Placed
  <1>3. Settled(d)'
    BY <1>0, <1>1 DEF Fits, Settled, RowsOnlyGo
  <1>4. Counting(d)'
    BY <1>0 DEF Fits, Counting
  <1>5. Aging(d)'
    <2>1. \A j \in x.due, s \in 1 .. 4 : Waits(j, s) => Waits(j, s)'
      BY <1>1, WaitsStay
    <2>2. x.status \in 1 .. 4 /\ x.status + 1 \in 1 .. 4 /\ 4 \in 1 .. 4
      BY <1>1
    <2>3. faults' = 0 => faults = 0
      BY DEF RowsOnlyGo
    <2> DEFINE now1 == x.status
               next1 == x.status + 1
    <2>4. /\ x.due \subseteq x.kind /\ \A j \in x.due : j <= cutoff
          /\ ~x.full /\ faults = 0 =>
               /\ x.phase = "age" => x.offset = 0 /\ \A j \in x.due : Waits(j, now1)
               /\ x.phase = "age" /\ x.at \in {"files", "rows"} /\ x.page < PageSize =>
                    \A j \in x.due : j \in x.batch \/ Waits(j, next1)
               /\ x.at = "rows" => x.spared = {}
               /\ x.phase = "count" /\ x.at = "measure" => \A j \in x.due : Waits(j, 4)
      BY DEF Fits, Aging
    <2> HIDE DEF x, y
    <2> QED BY <1>0, <2>1, <2>2, <2>3, <2>4 DEF Aging, x, y, now1, next1
  <1> QED BY <1>2, <1>3, <1>4, <1>5 DEF Fits

LEMMA RowsStand ==
  ASSUME RowsTypeOK, UNCHANGED <<row, files, run, undone, faults>>, stray \subseteq stray',
         stray' \subseteq Job
  PROVE  RowsOnlyGo /\ Rows' = Rows
  BY DEF RowsTypeOK, RowsOnlyGo, Rows

LEMMA OverFits ==
  ASSUME NEW c \in Cleaner, clean'[c].phase \in {"idle", "over"}, clean'[c].at = "none",
         clean'[c].cut = FALSE, clean'[c].due = {}, clean'[c].kind = {}
  PROVE  Fits(c)'
  BY DEF Fits, Placed, Settled, Counting, Aging

\* A page by age is done with: the next page, the next status, or the next part.
LEMMA AgePageFits ==
  ASSUME CleanTypeOK, NEW c \in Cleaner, Fits(c), cutoff' = cutoff, clean[c].phase = "age",
         NEW size \in 0 .. PageSize, NEW s \in 1 .. 3, clean[c].status = s,
         clean'[c].kind = clean[c].kind, clean'[c].due = clean[c].due, clean'[c].cut = FALSE,
         IF size < PageSize
         THEN /\ clean'[c].full = clean[c].full /\ clean'[c].offset = 0
              /\ IF s < 3
                 THEN /\ clean'[c].phase = "age" /\ clean'[c].at = "list"
                      /\ clean'[c].status = s + 1
                 ELSE clean'[c].phase = "count" /\ clean'[c].at = "measure"
         ELSE clean'[c].phase = "age" /\ clean'[c].at = "list" /\ clean'[c].full = TRUE,
         size < PageSize /\ ~clean[c].full /\ faults' = 0 =>
           \A j \in clean'[c].due : Waits(j, s + 1)'
  PROVE  Fits(c)'
  <1>1. /\ clean'[c].phase \in {"age", "count"}
        /\ clean'[c].phase = "age" => clean'[c].at = "list"
        /\ clean'[c].phase = "count" => clean'[c].at = "measure"
    OBVIOUS
  <1>2. Placed(c)' /\ Settled(c)' /\ Counting(c)'
    BY <1>1 DEF Placed, Settled, Counting
  <1>3. clean'[c].due \subseteq clean'[c].kind /\ \A j \in clean'[c].due : j <= cutoff'
    BY DEF Fits, Aging
  <1>5. ~clean'[c].full => size < PageSize /\ ~clean[c].full
    OBVIOUS
  <1>6. ~clean'[c].full /\ faults' = 0 /\ clean'[c].phase = "age" =>
          /\ clean'[c].offset = 0 /\ clean'[c].status = s + 1
          /\ \A j \in clean'[c].due : Waits(j, s + 1)'
    BY <1>5
  <1>7. ~clean'[c].full /\ faults' = 0 /\ clean'[c].phase = "count" =>
          \A j \in clean'[c].due : Waits(j, 4)'
    <2>1. ~clean'[c].full /\ clean'[c].phase = "count" => s + 1 = 4
      BY <1>5
    <2> QED BY <1>5, <2>1
  <1>8. Aging(c)'
    BY <1>1, <1>3, <1>6, <1>7 DEF Aging
  <1> QED BY <1>2, <1>8 DEF Fits

\* A cleanup sets out.
LEMMA RunCleanupFits ==
  ASSUME RowsTypeOK, CleanTypeOK, NEW c \in Cleaner, Fits(c), NEW kind \in SUBSET Job,
         RunCleanup(c, kind)
  PROVE  /\ CleanTypeOK' /\ RowsOnlyGo /\ Rows' = Rows /\ stray' = stray /\ Fits(c)'
         /\ \A d \in Cleaner : d # c => clean'[d] = clean[d]
  <1> DEFINE due1 == {j \in kind : j <= cutoff /\ row[j] \in Ended}
             p == Phase(c, "age")
             r == [p EXCEPT !.kind = kind, !.due = due1]
  <1>1. UNCHANGED <<row, files, run, undone, stray, faults, cutoff>> /\ CleanTo(c, r)
        /\ clean[c].phase = "idle"
    BY DEF RunCleanup, rowVars
  <1>2. p \in Cleanups /\ p.cut = clean[c].cut /\ p.phase = "age" /\ p.at = "list"
        /\ p.status = 1 /\ p.offset = 0
    BY PhaseIs DEF Kept
  <1>3. due1 \subseteq Job /\ due1 \subseteq kind
    OBVIOUS
  <1>4. r \in Cleanups /\ r.cut = clean[c].cut /\ r.phase = "age" /\ r.at = "list"
        /\ r.status = 1 /\ r.offset = 0 /\ r.kind = kind /\ r.due = due1
    <2> HIDE DEF p, due1
    <2> QED BY <1>2, <1>3 DEF Cleanups
  <1>5. \A j \in due1 : j <= cutoff /\ Waits(j, 1)
    BY AgeOrderIs DEF Waits
  <1> HIDE DEF r, due1, p
  <1>6. CleanTypeOK' /\ clean'[c] = r /\ \A d \in Cleaner : d # c => clean'[d] = clean[d]
    BY <1>1, <1>4, CleanMoves
  <1>7. clean[c].cut = FALSE
    BY <1>1, CleanIs DEF Fits, Counting
  <1>8. RowsOnlyGo /\ Rows' = Rows
    BY <1>1, RowsStand DEF RowsTypeOK
  <1>9. \A j \in due1 : Waits(j, 1)'
    BY <1>1, <1>5, <1>8 DEF Waits
  <1>10. Placed(c)' /\ Settled(c)' /\ Counting(c)'
    BY <1>4, <1>6, <1>7 DEF Placed, Settled, Counting
  <1>11. Aging(c)'
    BY <1>1, <1>3, <1>4, <1>5, <1>6, <1>9 DEF Aging
  <1> QED BY <1>1, <1>6, <1>8, <1>10, <1>11 DEF Fits

\* A page was listed, with something to delete.
LEMMA FoundFits ==
  ASSUME RowsTypeOK, CleanTypeOK, NEW c \in Cleaner, Fits(c), NEW listed \in SUBSET Job,
         clean[c].phase \in {"age", "count", "room"}, clean[c].at = "list",
         listed \cap clean[c].kind # {},
         NEW passedOver, Listed(c, listed, passedOver),
         Cardinality(listed) <= PageSize, clean[c].offset + Cardinality(listed) <= LastRow,
         clean[c].phase = "count" => Cardinality(listed) <= clean[c].left,
         clean[c].phase = "age" /\ clean[c].offset = 0 /\ Cardinality(listed) < PageSize =>
           listed = Aged(c)
  PROVE  /\ CleanTypeOK' /\ RowsOnlyGo /\ Rows' = Rows /\ Fits(c)'
         /\ \A d \in Cleaner : d # c => clean'[d] = clean[d]
  <1> DEFINE got == listed \cap clean[c].kind
             n == Cardinality(listed)
             r == [clean[c] EXCEPT !.at = "files", !.batch = got, !.page = n]
  <1>1. CleanTo(c, r) /\ UNCHANGED <<row, files, run, undone, faults, cutoff>>
        /\ stray' = stray \cup {j \in got : row[j] \in Live \/ run[j] # "none"}
    BY DEF Listed
  <1>2. IsFiniteSet(listed) /\ n \in Nat /\ got \subseteq Job /\ Cardinality(got) \in Nat
        /\ Cardinality(got) <= n
    <2>1. got \in SUBSET listed /\ got \in SUBSET Job /\ IsFiniteSet(listed) /\ n \in Nat
      BY JobsAreFinite
    <2>2. Cardinality(got) \in Nat
      BY <2>1, JobsAreFinite
    <2> QED BY <2>1, <2>2, FS_Subset
  <1>3. n \in 0 .. PageSize
    BY <1>2, Sizes
  <1>4. /\ r \in Cleanups /\ r.at = "files" /\ r.batch = got /\ r.page = n
        /\ r.phase = clean[c].phase /\ r.kind = clean[c].kind /\ r.status = clean[c].status
        /\ r.offset = clean[c].offset /\ r.left = clean[c].left /\ r.due = clean[c].due
        /\ r.full = clean[c].full /\ r.alone = clean[c].alone /\ r.cut = clean[c].cut
    <2>1. clean[c] \in Cleanups
      BY CleanIs
    <2> HIDE DEF got, n
    <2> QED BY <1>2, <1>3, <2>1 DEF Cleanups
  <1> HIDE DEF r
  <1>5. CleanTypeOK' /\ clean'[c] = r /\ \A d \in Cleaner : d # c => clean'[d] = clean[d]
    BY <1>1, <1>4, CleanMoves
  <1>6. RowsOnlyGo /\ Rows' = Rows
    <2>1. stray \subseteq stray' /\ stray' \subseteq Job
      BY <1>1, <1>2 DEF RowsTypeOK
    <2> QED BY <1>1, <2>1, RowsStand
  <1>7. Placed(c)'
    BY <1>2, <1>4, <1>5 DEF Placed
  <1>8. Settled(c)'
    BY <1>1, <1>4, <1>5 DEF Settled
  <1>9. Counting(c)'
    <2>1. clean[c].phase = "count" => Cardinality(got) <= clean[c].left
      <3>1. clean[c].left \in Nat
        BY CleanIs
      <3> QED BY <1>2, <3>1
    <2> HIDE DEF got
    <2> QED BY <1>4, <1>5, <1>6, <2>1 DEF Fits, Counting
  <1>10. Aging(c)'
    <2>0. PICK s \in 1 .. 3, due1 \in SUBSET Job : clean[c].status = s /\ clean[c].due = due1
      BY CleanIs
    <2>1. \A j \in due1, t \in 1 .. 4 : Waits(j, t) => Waits(j, t)'
      BY <1>6, WaitsStay
    <2>2. s \in 1 .. 4 /\ s + 1 \in 1 .. 4
      OBVIOUS
    <2>3. due1 \subseteq clean[c].kind /\ \A j \in due1 : j <= cutoff
      BY <2>0 DEF Fits, Aging
    <2>4. ASSUME ~clean[c].full, faults = 0, clean[c].phase = "age"
          PROVE  /\ clean[c].offset = 0
                 /\ \A j \in due1 : Waits(j, s)'
                 /\ n < PageSize => \A j \in due1 : j \in got \/ Waits(j, s + 1)'
      <3>1. clean[c].offset = 0 /\ \A j \in due1 : Waits(j, s)
        BY <2>0, <2>4 DEF Fits, Aging
      <3>2. ASSUME n < PageSize, NEW j \in due1, j \notin got
            PROVE  Waits(j, s + 1)
        <4>1. j \notin Aged(c)
          BY <2>3, <2>4, <3>1, <3>2
        <4>2. j \in undone \/ j \notin Rows \/ row[j] # AgeOrder[s]
          BY <2>0, <2>3, <4>1 DEF Aged
        <4>3. Waits(j, s)
          BY <3>1
        <4>4. \A t \in s .. 3 : t = s \/ t \in s + 1 .. 3
          OBVIOUS
        <4> QED BY <4>2, <4>3, <4>4 DEF Waits
      <3> QED BY <2>1, <2>2, <3>1, <3>2
    <2> HIDE DEF got, n
    <2> QED BY <1>1, <1>4, <1>5, <2>0, <2>3, <2>4 DEF Aging
  <1> QED BY <1>5, <1>6, <1>7, <1>8, <1>9, <1>10 DEF Fits

LEMMA ListByAgeFits ==
  ASSUME RowsTypeOK, CleanTypeOK, NEW c \in Cleaner, Fits(c), ListByAge(c)
  PROVE  /\ CleanTypeOK' /\ RowsOnlyGo /\ Rows' = Rows /\ Fits(c)'
         /\ \A d \in Cleaner : d # c => clean'[d] = clean[d]
  <1> DEFINE P == Page(Aged(c), clean[c].offset, PageSize)
             n == Cardinality(P)
  <1>1. clean[c].phase = "age" /\ clean[c].at = "list" /\ Listed(c, P, AfterAgePage(c, n))
    BY DEF ListByAge
  <1>2. /\ Aged(c) \in SUBSET Job /\ clean[c].offset \in 0 .. LastRow /\ PageSize \in Nat \ {0}
        /\ LastRow \in Nat
    BY CleanIs, Sizes DEF Aged, Rows
  <1>3. /\ P \in SUBSET Job /\ P \in SUBSET Aged(c) /\ n \in 0 .. PageSize
        /\ P # {} => clean[c].offset + n <= LastRow
    <2> DEFINE rows == Aged(c)
               off == clean[c].offset
    <2>1. rows \in SUBSET Job /\ off \in Nat /\ PageSize \in Nat
      BY <1>2
    <2> HIDE DEF rows, off
    <2>2. LET page1 == Page(rows, off, PageSize) IN
          /\ page1 \in SUBSET rows /\ page1 \in SUBSET Job
          /\ Cardinality(page1) \in 0 .. PageSize
          /\ page1 # {} => off + Cardinality(page1) <= LastRow
      BY <2>1, PageSizes
    <2> QED BY <2>2 DEF rows, off
  <1>4. P = {} => n = 0
    BY FS_EmptySet
  <1>5. clean[c].offset = 0 /\ n < PageSize => P = Aged(c)
    BY <1>2, ShortFirstPage
  <1> HIDE DEF P
  <1>6. CASE P \cap clean[c].kind # {}
    <2>1. P # {} /\ n <= PageSize
      BY <1>3, <1>6
    <2> QED BY <1>1, <1>3, <1>5, <1>6, <2>1, FoundFits
  <1>7. CASE P \cap clean[c].kind = {}
    <2> DEFINE r == AfterAgePage(c, n)
    <2>1. CleanTo(c, r) /\ UNCHANGED <<row, files, run, undone, faults, cutoff>> /\ stray' = stray
      BY <1>1, <1>7 DEF Listed
    <2>2. clean[c].offset + n <= LastRow \/ n < PageSize
      BY <1>2, <1>3, <1>4
    <2>3. PICK s \in 1 .. 3, due1 \in SUBSET Job : clean[c].status = s /\ clean[c].due = due1
      BY CleanIs
    <2>4. /\ r \in Cleanups /\ r.kind = clean[c].kind /\ r.due = clean[c].due
          /\ r.cut = clean[c].cut /\ r.batch = {}
          /\ IF n < PageSize
             THEN /\ r.full = clean[c].full /\ r.offset = 0
                  /\ IF s < 3 THEN r.phase = clean[c].phase /\ r.at = "list" /\ r.status = s + 1
                     ELSE r.phase = "count" /\ r.at = "measure"
             ELSE r.phase = clean[c].phase /\ r.at = "list" /\ r.full = TRUE
      BY <1>3, <2>2, <2>3, AfterAgePageIs
    <2> HIDE DEF r
    <2>5. CleanTypeOK' /\ clean'[c] = r /\ \A d \in Cleaner : d # c => clean'[d] = clean[d]
      BY <2>1, <2>4, CleanMoves
    <2>6. RowsOnlyGo /\ Rows' = Rows
      BY <2>1, RowsStand DEF RowsTypeOK
    <2>7. ASSUME n < PageSize, ~clean[c].full, faults' = 0, NEW j \in due1
          PROVE  Waits(j, s + 1)'
      <3>1. clean[c].offset = 0 /\ Waits(j, s) /\ due1 \subseteq clean[c].kind /\ j <= cutoff
        BY <1>1, <2>1, <2>3, <2>7 DEF Fits, Aging
      <3>2. j \notin Aged(c)
        BY <1>5, <1>7, <2>7, <3>1
      <3>3. j \in undone \/ j \notin Rows \/ row[j] # AgeOrder[s]
        BY <2>3, <3>1, <3>2 DEF Aged
      <3>4. \A t \in s .. 3 : t = s \/ t \in s + 1 .. 3
        OBVIOUS
      <3>5. Waits(j, s + 1)
        BY <3>1, <3>3, <3>4 DEF Waits
      <3>6. s + 1 \in 1 .. 4
        OBVIOUS
      <3> QED BY <2>6, <3>5, <3>6, WaitsStay
    <2>8. clean[c].cut = FALSE
      BY <1>1, CleanIs DEF Fits, Counting
    <2>9. clean'[c].due = due1
      BY <2>3, <2>4, <2>5
    <2>10. n \in 0 .. PageSize
      BY <1>3
    <2> HIDE DEF n
    <2>11. Fits(c)'
      BY <1>1, <2>1, <2>3, <2>4, <2>5, <2>7, <2>8, <2>9, <2>10, AgePageFits
    <2> QED BY <2>5, <2>6, <2>11
  <1> QED BY <1>6, <1>7

\* A part by count or by room is over: the next one, or the end.
LEMMA PartOverFits ==
  ASSUME RowsTypeOK, CleanTypeOK, NEW c \in Cleaner, Fits(c), cutoff' = cutoff,
         clean[c].phase \in {"count", "room"},
         IF clean[c].phase = "count"
         THEN /\ clean'[c].phase = "room" /\ clean'[c].at = "measure"
              /\ clean'[c].due = clean[c].due /\ clean'[c].kind = clean[c].kind
         ELSE /\ clean'[c].phase = "over" /\ clean'[c].at = "none" /\ clean'[c].due = {}
              /\ clean'[c].kind = {} /\ clean'[c].cut = FALSE,
         clean'[c].alone /\ clean'[c].cut => Cardinality(Rows') >= MaxJobs
  PROVE  Fits(c)'
  <1>1. CASE clean[c].phase = "room"
    BY <1>1, OverFits
  <1>2. CASE clean[c].phase = "count"
    <2>1. Placed(c)' /\ Settled(c)'
      BY <1>2 DEF Placed, Settled
    <2>2. Counting(c)'
      BY <1>2 DEF Counting
    <2>3. Aging(c)'
      BY <1>2 DEF Fits, Aging
    <2> QED BY <2>1, <2>2, <2>3 DEF Fits
  <1> QED BY <1>1, <1>2

LEMMA MeasureFits ==
  ASSUME RowsTypeOK, CleanTypeOK, NEW c \in Cleaner, Fits(c), Measure(c)
  PROVE  /\ CleanTypeOK' /\ RowsOnlyGo /\ Rows' = Rows /\ Fits(c)'
         /\ \A d \in Cleaner : d # c => clean'[d] = clean[d]
  <1>1. /\ clean[c].phase \in {"count", "room"} /\ clean[c].at = "measure"
        /\ UNCHANGED <<row, files, run, undone, stray, faults, cutoff>>
    BY DEF Measure, rowVars
  <1>2. RowsOnlyGo /\ Rows' = Rows
    BY <1>1, RowsStand DEF RowsTypeOK
  <1>3. /\ Cardinality(Rows) \in 0 .. LastRow /\ Cardinality(files) \in 0 .. LastRow
        /\ MaxJobs \in Nat \ {0} /\ MaxRoom \in Nat \ {0} /\ LastRow \in Nat
    BY JobsAreFinite, RetentionAssumption DEF Rows, RowsTypeOK
  <1>4. CASE Excess(c) = 0
    <2> DEFINE r == AfterPhase(c)
    <2>1. CleanTo(c, r)
      BY <1>4 DEF Measure
    <2>2. /\ r \in Cleanups
          /\ IF clean[c].phase = "count"
             THEN r.phase = "room" /\ r.at = "measure" /\ Kept(r, clean[c])
             ELSE r.phase = "over" /\ r.at = "none" /\ r.due = {} /\ r.kind = {} /\ r.cut = FALSE
      BY <1>1, AfterPhaseIs
    <2> HIDE DEF r
    <2>3. CleanTypeOK' /\ clean'[c] = r /\ \A d \in Cleaner : d # c => clean'[d] = clean[d]
      BY <1>1, <2>1, <2>2, CleanMoves
    <2>4. clean[c].phase = "count" => clean[c].cut = FALSE
      BY <1>1, CleanIs DEF Fits, Counting
    <2>5. Fits(c)'
      BY <1>1, <2>2, <2>3, <2>4, PartOverFits DEF Kept
    <2> QED BY <1>2, <2>3, <2>5
  <1>5. CASE Excess(c) # 0
    <2> DEFINE e == Excess(c)
               r == [clean[c] EXCEPT !.at = "list", !.left = e, !.alone = TRUE, !.cut = FALSE]
    <2>1. CleanTo(c, r)
      BY <1>5 DEF Measure
    <2>2. e \in 0 .. LastRow /\ (clean[c].phase = "count" => Cardinality(Rows) >= MaxJobs + e)
      BY <1>1, <1>3, <1>5 DEF Excess
    <2>3. /\ r \in Cleanups /\ r.at = "list" /\ r.left = e /\ r.cut = FALSE
          /\ r.phase = clean[c].phase /\ r.kind = clean[c].kind /\ r.due = clean[c].due
      <3>1. clean[c] \in Cleanups
        BY CleanIs
      <3> HIDE DEF e
      <3> QED BY <2>2, <3>1 DEF Cleanups
    <2> HIDE DEF r, e
    <2>4. CleanTypeOK' /\ clean'[c] = r /\ \A d \in Cleaner : d # c => clean'[d] = clean[d]
      BY <1>1, <2>1, <2>3, CleanMoves
    <2>5. Placed(c)' /\ Settled(c)'
      BY <1>1, <2>3, <2>4 DEF Placed, Settled
    <2>6. Counting(c)'
      BY <1>1, <1>2, <2>2, <2>3, <2>4 DEF Counting
    <2>7. Aging(c)'
      BY <1>1, <2>3, <2>4 DEF Fits, Aging
    <2> QED BY <1>2, <2>4, <2>5, <2>6, <2>7 DEF Fits
  <1> QED BY <1>4, <1>5

LEMMA ListOldestFits ==
  ASSUME RowsTypeOK, CleanTypeOK, NEW c \in Cleaner, Fits(c), ListOldest(c)
  PROVE  /\ CleanTypeOK' /\ RowsOnlyGo /\ Rows' = Rows /\ Fits(c)'
         /\ \A d \in Cleaner : d # c => clean'[d] = clean[d]
  <1> DEFINE P == Page(Rows, clean[c].offset, Limit(c))
             n == Cardinality(P)
             passed == IF P = {} THEN AfterPhase(c) ELSE [clean[c] EXCEPT !.offset = @ + n]
  <1>1. clean[c].phase \in {"count", "room"} /\ clean[c].at = "list" /\ Listed(c, P, passed)
    BY DEF ListOldest
  <1>2. /\ Rows \in SUBSET Job /\ clean[c].offset \in 0 .. LastRow /\ clean[c].left \in 0 .. LastRow
        /\ PageSize \in Nat \ {0} /\ LastRow \in Nat /\ MaxJobs \in Nat \ {0}
        /\ Cardinality(Rows) \in Nat
    BY CleanIs, Sizes, JobsAreFinite DEF Rows
  <1>3. /\ Limit(c) \in Nat /\ Limit(c) <= PageSize
        /\ clean[c].phase = "count" => Limit(c) <= clean[c].left
    BY <1>2 DEF Limit
  <1>4. /\ P \in SUBSET Job /\ n \in Nat /\ n <= Limit(c)
        /\ P # {} => clean[c].offset + n <= LastRow
    <2> DEFINE off == clean[c].offset
               lim == Limit(c)
    <2>1. Rows \in SUBSET Job /\ off \in Nat /\ lim \in Nat
      BY <1>2, <1>3
    <2> HIDE DEF off, lim
    <2>2. LET page1 == Page(Rows, off, lim) IN
          /\ page1 \in SUBSET Job /\ Cardinality(page1) \in 0 .. lim
          /\ page1 # {} => off + Cardinality(page1) <= LastRow
      BY <2>1, PageSizes
    <2>3. Cardinality(Page(Rows, off, lim)) \in Nat /\ Cardinality(Page(Rows, off, lim)) <= lim
      BY <2>1, <2>2
    <2> QED BY <2>2, <2>3 DEF off, lim
  <1>5. n <= PageSize /\ (clean[c].phase = "count" => n <= clean[c].left)
    BY <1>2, <1>3, <1>4
  <1>6. CASE P \cap clean[c].kind # {}
    <2>1. P # {}
      BY <1>6
    <2> HIDE DEF P, passed
    <2> QED BY <1>1, <1>4, <1>5, <1>6, <2>1, FoundFits
  <1>7. CASE P \cap clean[c].kind = {}
    <2>1. CleanTo(c, passed) /\ UNCHANGED <<row, files, run, undone, faults, cutoff>>
          /\ stray' = stray
      BY <1>1, <1>7 DEF Listed
    <2>2. RowsOnlyGo /\ Rows' = Rows
      BY <2>1, RowsStand DEF RowsTypeOK
    <2>3. clean[c].alone /\ clean[c].phase = "count" => Cardinality(Rows) >= MaxJobs + clean[c].left
      BY <1>1 DEF Fits, Counting
    <2>4. CASE P = {}
      <3> DEFINE r == AfterPhase(c)
      <3>1. /\ r \in Cleanups
            /\ IF clean[c].phase = "count"
               THEN r.phase = "room" /\ r.at = "measure" /\ Kept(r, clean[c])
               ELSE r.phase = "over" /\ r.at = "none" /\ r.due = {} /\ r.kind = {} /\ r.cut = FALSE
        BY <1>1, AfterPhaseIs
      <3>2. CleanTo(c, r)
        BY <2>1, <2>4
      <3> HIDE DEF r, P, passed
      <3>3. CleanTypeOK' /\ clean'[c] = r /\ \A d \in Cleaner : d # c => clean'[d] = clean[d]
        BY <2>1, <3>1, <3>2, CleanMoves
      <3>4. clean[c].alone /\ clean[c].phase = "count" => Cardinality(Rows) >= MaxJobs
        BY <1>2, <2>3
      <3>5. Fits(c)'
        BY <1>1, <2>1, <2>2, <3>1, <3>3, <3>4, PartOverFits DEF Kept
      <3> QED BY <2>2, <3>3, <3>5
    <2>5. CASE P # {}
      <3> DEFINE r == [clean[c] EXCEPT !.offset = @ + n]
      <3>1. CleanTo(c, r)
        BY <2>1, <2>5
      <3>2. clean[c] \in Cleanups /\ clean[c].offset + n \in 0 .. LastRow
        BY <1>2, <1>4, <2>5, CleanIs
      <3> HIDE DEF P, passed
      <3>3. /\ r \in Cleanups /\ r.phase = clean[c].phase /\ r.at = clean[c].at
            /\ r.left = clean[c].left /\ r.cut = clean[c].cut /\ r.alone = clean[c].alone
            /\ r.kind = clean[c].kind /\ r.due = clean[c].due
        <4> HIDE DEF n
        <4> QED BY <3>2 DEF Cleanups
      <3> HIDE DEF r
      <3>4. CleanTypeOK' /\ clean'[c] = r /\ \A d \in Cleaner : d # c => clean'[d] = clean[d]
        BY <2>1, <3>1, <3>3, CleanMoves
      <3>5. Placed(c)' /\ Settled(c)'
        BY <1>1, <3>3, <3>4 DEF Placed, Settled
      <3>6. Counting(c)'
        BY <1>1, <2>2, <3>3, <3>4 DEF Fits, Counting
      <3>7. Aging(c)'
        BY <1>1, <2>1, <3>3, <3>4 DEF Fits, Aging
      <3> QED BY <2>2, <3>4, <3>5, <3>6, <3>7 DEF Fits
    <2> QED BY <2>4, <2>5
  <1> QED BY <1>6, <1>7

\* What cannot be listed or measured is given up, which counts as a failure.
LEMMA QueryFailsFits ==
  ASSUME RowsTypeOK, CleanTypeOK, NEW c \in Cleaner, Fits(c), QueryFails(c)
  PROVE  /\ CleanTypeOK' /\ RowsOnlyGo /\ Rows' = Rows /\ Fits(c)'
         /\ \A d \in Cleaner : d # c => clean'[d] = clean[d]
  <1>1. /\ clean[c].at \in {"list", "measure"} /\ faults' # 0 /\ faults' \in 0 .. MaxFaults
        /\ UNCHANGED <<row, files, run, undone, stray, cutoff>>
    BY FaultsCount, FaultStays DEF QueryFails
  <1>2. RowsOnlyGo /\ Rows' = Rows
    BY <1>1 DEF RowsTypeOK, RowsOnlyGo, Rows
  <1>3. clean[c].phase \in {"age", "count", "room"}
    BY <1>1, CleanIs DEF Fits, Placed, Phases
  <1>4. CASE clean[c].phase = "age"
    <2> DEFINE r == Phase(c, "count")
    <2>1. CleanTo(c, r)
      BY <1>4 DEF QueryFails
    <2>2. /\ r \in Cleanups /\ r.phase = "count" /\ r.at = "measure"
          /\ r.kind = clean[c].kind /\ r.due = clean[c].due /\ r.cut = clean[c].cut
      BY PhaseIs DEF Kept
    <2> HIDE DEF r
    <2>3. CleanTypeOK' /\ clean'[c] = r /\ \A d \in Cleaner : d # c => clean'[d] = clean[d]
      BY <1>1, <2>1, <2>2, CleanMoves
    <2>4. clean[c].cut = FALSE
      BY <1>4, CleanIs DEF Fits, Counting
    <2>5. Placed(c)' /\ Settled(c)' /\ Counting(c)'
      BY <2>2, <2>3, <2>4 DEF Placed, Settled, Counting
    <2>6. Aging(c)'
      BY <1>1, <2>2, <2>3 DEF Fits, Aging
    <2> QED BY <1>2, <2>3, <2>5, <2>6 DEF Fits
  <1>5. CASE clean[c].phase \in {"count", "room"}
    <2> DEFINE r == AfterPhase(c)
    <2>1. CleanTo(c, r)
      BY <1>5 DEF QueryFails
    <2>2. /\ r \in Cleanups
          /\ IF clean[c].phase = "count"
             THEN r.phase = "room" /\ r.at = "measure" /\ Kept(r, clean[c])
             ELSE r.phase = "over" /\ r.at = "none" /\ r.due = {} /\ r.kind = {} /\ r.cut = FALSE
      BY <1>5, AfterPhaseIs
    <2> HIDE DEF r
    <2>3. CleanTypeOK' /\ clean'[c] = r /\ \A d \in Cleaner : d # c => clean'[d] = clean[d]
      BY <1>1, <2>1, <2>2, CleanMoves
    <2>4. clean[c].alone /\ clean[c].cut /\ clean[c].phase = "count" => Cardinality(Rows) >= MaxJobs
      <3>1. clean[c].alone /\ clean[c].cut /\ clean[c].phase = "count" =>
              Cardinality(Rows) >= MaxJobs + clean[c].left
        BY DEF Fits, Counting
      <3>2. /\ Cardinality(Rows) \in Nat /\ MaxJobs \in Nat /\ clean[c].left \in Nat
        BY CleanIs, Sizes, JobsAreFinite DEF Rows
      <3> QED BY <3>1, <3>2
    <2>5. Fits(c)'
      BY <1>1, <1>2, <1>5, <2>2, <2>3, <2>4, PartOverFits DEF Kept
    <2> QED BY <1>2, <2>3, <2>5
  <1> QED BY <1>3, <1>4, <1>5

LEMMA DeleteFilesFits ==
  ASSUME RowsTypeOK, CleanTypeOK, NEW c \in Cleaner, Fits(c), DeleteFiles(c)
  PROVE  /\ CleanTypeOK' /\ RowsOnlyGo /\ Rows' = Rows /\ Fits(c)' /\ row' = row /\ run' = run
         /\ files' \subseteq files /\ stray' = stray
         /\ \A d \in Cleaner : d # c => clean'[d] = clean[d]
  <1>1. PICK failed \in SUBSET (clean[c].batch \cap files) :
          /\ IF failed = {} THEN UNCHANGED faults ELSE Fault
          /\ files' = files \ (clean[c].batch \ failed)
          /\ CleanTo(c, [clean[c] EXCEPT !.at = "rows", !.spared = failed,
                             !.freed = Cardinality((clean[c].batch \ failed) \cap files)])
    BY DEF DeleteFiles
  <1>2. clean[c].at = "files" /\ UNCHANGED <<row, run, undone, stray, cutoff>>
    BY DEF DeleteFiles
  <1> DEFINE n == Cardinality((clean[c].batch \ failed) \cap files)
             r == [clean[c] EXCEPT !.at = "rows", !.spared = failed, !.freed = n]
  <1>3. n \in 0 .. PageSize
    <2>1. clean[c].batch \in SUBSET Job /\ clean[c].page \in 0 .. PageSize /\ PageSize \in Nat
      BY CleanIs, Sizes
    <2>2. IsFiniteSet(clean[c].batch) /\ (clean[c].batch \ failed) \cap files \in SUBSET clean[c].batch
      BY <2>1, JobsAreFinite
    <2>3. n <= Cardinality(clean[c].batch) /\ n \in Nat /\ Cardinality(clean[c].batch) \in Nat
      BY <2>2, FS_Subset, FS_CardinalityType
    <2>4. Cardinality(clean[c].batch) <= clean[c].page
      BY <1>2 DEF Fits, Placed
    <2> HIDE DEF n
    <2> QED BY <2>1, <2>3, <2>4
  <1>4. /\ r \in Cleanups /\ r.at = "rows" /\ r.spared = failed
        /\ r.phase = clean[c].phase /\ r.kind = clean[c].kind /\ r.status = clean[c].status
        /\ r.offset = clean[c].offset /\ r.left = clean[c].left /\ r.due = clean[c].due
        /\ r.full = clean[c].full /\ r.alone = clean[c].alone /\ r.cut = clean[c].cut
        /\ r.batch = clean[c].batch /\ r.page = clean[c].page
    <2>1. clean[c] \in Cleanups /\ failed \in SUBSET Job
      BY CleanIs
    <2> HIDE DEF n
    <2> QED BY <1>3, <2>1 DEF Cleanups
  <1>5. CleanTo(c, r)
    BY <1>1
  <1> HIDE DEF r, n
  <1>6. CleanTypeOK' /\ clean'[c] = r /\ \A d \in Cleaner : d # c => clean'[d] = clean[d]
    BY <1>2, <1>4, <1>5, CleanMoves
  <1>7. /\ faults' \in 0 .. MaxFaults /\ files' \subseteq files
        /\ faults' = 0 => failed = {} /\ faults = 0
    BY <1>1, FaultStays, FaultsCount
  <1>8. RowsOnlyGo /\ Rows' = Rows
    BY <1>2, <1>7 DEF RowsTypeOK, RowsOnlyGo, Rows
  <1>9. clean[c].phase \in {"age", "count", "room"}
    BY <1>2, CleanIs DEF Fits, Placed, Phases
  <1>10. Placed(c)'
    BY <1>2, <1>4, <1>6, <1>9 DEF Fits, Placed
  <1>11. Settled(c)'
    BY <1>1, <1>2, <1>4, <1>6 DEF Fits, Settled
  <1>12. Counting(c)'
    BY <1>2, <1>4, <1>6, <1>8 DEF Fits, Counting
  <1>13. Aging(c)'
    <2>0. PICK s \in 1 .. 3, due1 \in SUBSET Job : clean[c].status = s /\ clean[c].due = due1
      BY CleanIs
    <2>1. \A j \in due1, t \in 1 .. 4 : Waits(j, t) => Waits(j, t)'
      BY <1>8, WaitsStay
    <2>2. s \in 1 .. 4 /\ s + 1 \in 1 .. 4
      OBVIOUS
    <2>3. /\ due1 \subseteq clean[c].kind /\ \A j \in due1 : j <= cutoff
          /\ ~clean[c].full /\ faults = 0 /\ clean[c].phase = "age" =>
               /\ clean[c].offset = 0 /\ \A j \in due1 : Waits(j, s)
               /\ clean[c].page < PageSize =>
                    \A j \in due1 : j \in clean[c].batch \/ Waits(j, s + 1)
      BY <1>2, <2>0 DEF Fits, Aging
    <2>4. ~clean[c].full /\ faults' = 0 /\ clean[c].phase = "age" =>
               /\ clean[c].offset = 0 /\ \A j \in due1 : Waits(j, s)'
               /\ clean[c].page < PageSize =>
                    \A j \in due1 : j \in clean[c].batch \/ Waits(j, s + 1)'
      BY <1>7, <2>1, <2>2, <2>3
    <2> QED BY <1>2, <1>4, <1>6, <1>7, <2>0, <2>3, <2>4 DEF Aging
  <1> QED BY <1>2, <1>6, <1>7, <1>8, <1>10, <1>11, <1>12, <1>13 DEF Fits

\* The rows that go, whether the transaction fails or not.
LEMMA DeleteRowsOnly ==
  ASSUME RowsTypeOK, CleanTypeOK, NEW c \in Cleaner, Fits(c), DeleteRows(c)
  PROVE  /\ RowsOnlyGo /\ run' = run /\ files' = files /\ stray' = stray /\ cutoff' = cutoff
         /\ Rows \ Rows' \subseteq clean[c].batch
         /\ \A j \in Job : row'[j] = "gone" =>
              row[j] = "gone" \/ j \in clean[c].batch \ clean[c].spared
         /\ faults' = 0 => /\ faults = 0
                           /\ \A j \in clean[c].batch \ clean[c].spared : j \notin Rows'
         /\ Cardinality(Rows) <= Cardinality(Rows') + Cardinality(clean[c].batch)
         /\ Cardinality(Rows) \in Nat /\ Cardinality(Rows') \in Nat
         /\ Cardinality(clean[c].batch) \in Nat
  <1> DEFINE B == clean[c].batch \ clean[c].spared
  <1>0. B \subseteq Job /\ clean[c].batch \subseteq Job
    BY CleanIs
  <1>1. UNCHANGED <<files, run, undone, stray, cutoff>> /\ faults' \in 0 .. MaxFaults
    BY FaultStays DEF DeleteRows
  <1>2. \/ /\ faults' = faults
           /\ row' = [j \in Job |-> IF j \in B \cap Rows THEN "gone" ELSE row[j]]
        \/ faults' # 0 /\ row' = row
    BY FaultsCount DEF DeleteRows
  <1>3. \A j \in Job : row'[j] = row[j] \/ (row'[j] = "gone" /\ j \in B)
    BY <1>2
  <1>4. row' \in [Job -> Status]
    BY <1>2 DEF RowsTypeOK, Status
  <1>5. RowsTypeOK'
    BY <1>1, <1>4 DEF RowsTypeOK
  <1>6. /\ Rows' \subseteq Rows /\ Rows \ Rows' \subseteq B
        /\ \A j \in Rows' : row'[j] = row[j]
    BY <1>3 DEF Rows, Live, Ended
  <1>7. faults' = 0 => faults = 0 /\ \A j \in B : j \notin Rows'
    BY <1>2 DEF Rows, Live, Ended
  <1>8. RowsOnlyGo
    BY <1>1, <1>3, <1>5, <1>6, <1>7 DEF RowsOnlyGo
  <1>9. /\ Cardinality(Rows) <= Cardinality(Rows') + Cardinality(clean[c].batch)
        /\ Cardinality(Rows) \in Nat /\ Cardinality(Rows') \in Nat
        /\ Cardinality(clean[c].batch) \in Nat
    <2> DEFINE G == Rows \ Rows'
    <2>1. Rows \in SUBSET Job /\ Rows' \in SUBSET Job /\ G \in SUBSET Job
          /\ clean[c].batch \in SUBSET Job
      BY <1>0, <1>6 DEF Rows
    <2>2. /\ IsFiniteSet(Rows) /\ IsFiniteSet(Rows') /\ IsFiniteSet(clean[c].batch)
          /\ Cardinality(Rows) \in Nat /\ Cardinality(Rows') \in Nat
          /\ Cardinality(G) \in Nat /\ Cardinality(clean[c].batch) \in Nat
      BY <2>1, JobsAreFinite
    <2>3. Cardinality(G) = Cardinality(Rows) - Cardinality(Rows')
      <3>1. Rows \cap Rows' = Rows'
        BY <1>6
      <3> QED BY <2>2, <3>1, FS_Difference
    <2>4. Cardinality(G) <= Cardinality(clean[c].batch)
      <3>1. G \in SUBSET clean[c].batch
        BY <1>6
      <3> QED BY <2>2, <3>1, FS_Subset
    <2> HIDE DEF G
    <2> QED BY <2>2, <2>3, <2>4
  <1> QED BY <1>1, <1>3, <1>6, <1>7, <1>8, <1>9

LEMMA DeleteRowsFits ==
  ASSUME RowsTypeOK, CleanTypeOK, NEW c \in Cleaner, Fits(c), DeleteRows(c)
  PROVE  /\ CleanTypeOK' /\ Fits(c)'
         /\ \A d \in Cleaner : d # c => clean'[d] = [clean[d] EXCEPT !.alone = FALSE]
  <1> DEFINE tried == Cardinality(clean[c].batch)
             after == IF clean[c].phase = "age" THEN AfterAgePage(c, clean[c].page)
                      ELSE AfterPage(c, tried, clean[c].freed)
             cut1 == clean[c].phase = "count"
             y == clean'[c]
  <1>1. /\ clean[c].at = "rows" /\ cutoff' = cutoff
        /\ clean' = [d \in Cleaner |->
             IF d = c THEN [after EXCEPT !.spared = {}, !.freed = 0, !.cut = cut1]
             ELSE [clean[d] EXCEPT !.alone = FALSE]]
    BY DEF DeleteRows
  <1>2. /\ clean[c].phase \in {"age", "count", "room"} /\ clean[c].offset + clean[c].page <= LastRow
        /\ clean[c].page \in 0 .. PageSize /\ clean[c].left \in 0 .. LastRow
        /\ clean[c].freed \in 0 .. PageSize /\ LastRow \in Nat /\ PageSize \in Nat /\ MaxJobs \in Nat
        /\ tried \in Nat
    BY <1>1, CleanIs, Sizes, DeleteRowsOnly DEF Fits, Placed, Phases
  <1> DEFINE got == IF clean[c].phase = "count" THEN tried ELSE clean[c].freed
  <1>3. got \in Nat
    BY <1>2
  <1>4. clean[c].phase # "age" /\ got >= clean[c].left => after = AfterPhase(c)
    BY DEF AfterPage
  <1>5. after \in Cleanups
    <2>1. CASE clean[c].phase = "age"
      BY <1>2, <2>1, AfterAgePageIs
    <2>2. CASE clean[c].phase # "age" /\ got >= clean[c].left
      BY <1>2, <1>4, <2>2, AfterPhaseIs
    <2>3. CASE clean[c].phase # "age" /\ ~(got >= clean[c].left)
      <3>1. clean[c].freed \in Nat
        BY <1>2
      <3>2. AfterPage(c, tried, clean[c].freed) \in Cleanups
        BY <1>2, <1>3, <2>3, <3>1, AfterPageIs
      <3> QED BY <2>3, <3>2
    <2> QED BY <2>1, <2>2, <2>3
  <1>6. cut1 \in BOOLEAN
    OBVIOUS
  <1>7. /\ y \in Cleanups /\ y.phase = after.phase /\ y.at = after.at /\ y.kind = after.kind
        /\ y.due = after.due /\ y.full = after.full /\ y.alone = after.alone
        /\ y.status = after.status /\ y.offset = after.offset /\ y.left = after.left /\ y.cut = cut1
    <2>1. y = PageDone(after, cut1)
      BY <1>1 DEF PageDone
    <2> HIDE DEF after, cut1, y
    <2> QED BY <1>5, <1>6, <2>1, PageDoneIs
  <1>8. \A d \in Cleaner : d # c => clean'[d] = [clean[d] EXCEPT !.alone = FALSE]
    BY <1>1
  <1>9. CleanTypeOK'
    <2>1. \A d \in Cleaner : clean'[d] \in Cleanups
      <3> TAKE d \in Cleaner
      <3>1. CASE d = c
        BY <1>7, <3>1
      <3>2. CASE d # c
        <4>1. clean[d] \in Cleanups
          BY CleanIs
        <4> QED BY <1>8, <3>2, <4>1, AloneSet
      <3> QED BY <3>1, <3>2
    <2>2. clean' \in [Cleaner -> Cleanups]
      <3>1. clean' = [d \in Cleaner |-> clean'[d]]
        BY <1>1
      <3> QED BY <2>1, <3>1
    <2> QED BY <1>1, <2>2 DEF CleanTypeOK
  <1>10. CASE clean[c].phase = "age"
    <2>0. PICK s \in 1 .. 3, due1 \in SUBSET Job : clean[c].status = s /\ clean[c].due = due1
      BY CleanIs
    <2> DEFINE n == clean[c].page
               r == AfterAgePage(c, n)
    <2>1. /\ r.kind = clean[c].kind /\ r.due = clean[c].due
          /\ IF n < PageSize
             THEN /\ r.full = clean[c].full /\ r.offset = 0
                  /\ IF s < 3 THEN r.phase = "age" /\ r.at = "list" /\ r.status = s + 1
                     ELSE r.phase = "count" /\ r.at = "measure"
             ELSE r.phase = "age" /\ r.at = "list" /\ r.full = TRUE
      BY <1>2, <1>10, <2>0, AfterAgePageIs
    <2>2. after = r
      BY <1>10
    <2>3. ASSUME n < PageSize, ~clean[c].full, faults' = 0, NEW j \in due1
          PROVE  Waits(j, s + 1)'
      <3>1. faults = 0 /\ \A i \in clean[c].batch \ clean[c].spared : i \notin Rows'
        BY <2>3, DeleteRowsOnly
      <3>2. /\ clean[c].spared = {}
            /\ j \in clean[c].batch \/ Waits(j, s + 1)
        BY <1>1, <1>10, <2>0, <2>3, <3>1 DEF Fits, Aging
      <3>3. CASE j \in clean[c].batch
        BY <3>1, <3>2, <3>3 DEF Waits
      <3>4. CASE Waits(j, s + 1)
        BY <3>4, WaitsStay, DeleteRowsOnly
      <3> QED BY <3>2, <3>3, <3>4
    <2>4. y.due = due1 /\ y.cut = FALSE /\ n \in 0 .. PageSize
      BY <1>2, <1>7, <1>10, <2>0, <2>1, <2>2
    <2> HIDE DEF r, after, n, cut1
    <2>5. /\ y.kind = clean[c].kind /\ y.due = clean[c].due
          /\ IF n < PageSize
             THEN /\ y.full = clean[c].full /\ y.offset = 0
                  /\ IF s < 3 THEN y.phase = "age" /\ y.at = "list" /\ y.status = s + 1
                     ELSE y.phase = "count" /\ y.at = "measure"
             ELSE y.phase = "age" /\ y.at = "list" /\ y.full = TRUE
      BY <1>7, <2>1, <2>2
    <2>6. Fits(c)'
      BY <1>1, <1>10, <2>0, <2>3, <2>4, <2>5, AgePageFits
    <2> QED BY <1>8, <1>9, <2>6
  <1>11. ASSUME clean[c].phase = "count", clean[c].alone
         PROVE  /\ clean[c].left <= tried => Cardinality(Rows') >= MaxJobs
                /\ ~(clean[c].left <= tried) =>
                     Cardinality(Rows') >= MaxJobs + (clean[c].left - tried)
    <2>1. Cardinality(Rows) >= MaxJobs + clean[c].left /\ tried <= clean[c].left
      BY <1>1, <1>11 DEF Fits, Counting
    <2>2. /\ Cardinality(Rows) <= Cardinality(Rows') + tried
          /\ Cardinality(Rows) \in Nat /\ Cardinality(Rows') \in Nat
      BY DeleteRowsOnly
    <2> HIDE DEF tried
    <2> QED BY <1>2, <2>1, <2>2
  <1>12. CASE clean[c].phase # "age" /\ got >= clean[c].left
    <2> DEFINE r == AfterPhase(c)
    <2>1. IF clean[c].phase = "count"
          THEN r.phase = "room" /\ r.at = "measure" /\ Kept(r, clean[c])
          ELSE r.phase = "over" /\ r.at = "none" /\ r.due = {} /\ r.kind = {} /\ r.cut = FALSE
      BY <1>2, <1>12, AfterPhaseIs
    <2>2. after = r
      BY <1>4, <1>12
    <2>3. clean[c].phase = "count" /\ clean[c].alone => Cardinality(Rows') >= MaxJobs
      BY <1>2, <1>11, <1>12
    <2> HIDE DEF r, after
    <2>4. Fits(c)'
      BY <1>1, <1>2, <1>7, <1>12, <2>1, <2>2, <2>3, PartOverFits DEF Kept
    <2> QED BY <1>8, <1>9, <2>4
  <1>13. CASE clean[c].phase # "age" /\ ~(got >= clean[c].left)
    <2> DEFINE r == AfterPage(c, tried, clean[c].freed)
    <2>1. /\ r.phase = clean[c].phase /\ r.at = "list" /\ Kept(r, clean[c])
          /\ r.left = clean[c].left - got
      BY <1>2, <1>3, <1>13, AfterPageIs
    <2>2. after = r
      BY <1>13
    <2>3. clean[c].phase = "count" /\ clean[c].alone =>
            Cardinality(Rows') >= MaxJobs + (clean[c].left - got)
      BY <1>2, <1>11, <1>13
    <2> HIDE DEF r, after, got
    <2>4. Placed(c)' /\ Settled(c)'
      BY <1>2, <1>7, <1>13, <2>1, <2>2 DEF Placed, Settled
    <2>5. Counting(c)'
      BY <1>2, <1>7, <1>13, <2>1, <2>2, <2>3 DEF Counting, Kept
    <2>6. Aging(c)'
      BY <1>1, <1>2, <1>7, <1>13, <2>1, <2>2 DEF Fits, Aging, Kept
    <2> QED BY <1>8, <1>9, <2>4, <2>5, <2>6 DEF Fits
  <1> QED BY <1>10, <1>12, <1>13

\* A row that is gone has neither files nor a worker, but for the strays.
GoneIsOver ==
  \A j \in Job : row[j] = "gone" => j \in stray \/ (j \notin files /\ run[j] = "none")

LEMMA GoneStays ==
  ASSUME GoneIsOver, RowsOnlyGo, \A j \in Job : row'[j] = "gone" => row[j] = "gone"
  PROVE  GoneIsOver'
  BY DEF GoneIsOver, RowsOnlyGo

LEMMA CleanStepOver ==
  ASSUME RowsTypeOK, CleanTypeOK, GoneIsOver, NEW c \in Cleaner, Fits(c), CleanStep(c)
  PROVE  /\ CleanTypeOK' /\ RowsOnlyGo /\ Fits(c)' /\ GoneIsOver' /\ cutoff' = cutoff
         /\ \A d \in Cleaner : d # c =>
              \/ clean'[d] = clean[d] /\ Rows' = Rows
              \/ clean'[d] = [clean[d] EXCEPT !.alone = FALSE]
  <1>1. CASE ListByAge(c)
    <2>1. UNCHANGED <<row, cutoff>>
      BY <1>1 DEF ListByAge, Listed
    <2> QED BY <1>1, <2>1, ListByAgeFits, GoneStays
  <1>2. CASE Measure(c)
    <2>1. UNCHANGED <<row, cutoff>>
      BY <1>2 DEF Measure, rowVars
    <2> QED BY <1>2, <2>1, MeasureFits, GoneStays
  <1>3. CASE ListOldest(c)
    <2>1. UNCHANGED <<row, cutoff>>
      BY <1>3 DEF ListOldest, Listed
    <2> QED BY <1>3, <2>1, ListOldestFits, GoneStays
  <1>4. CASE DeleteFiles(c)
    <2>1. UNCHANGED <<row, cutoff>>
      BY <1>4 DEF DeleteFiles
    <2> QED BY <1>4, <2>1, DeleteFilesFits, GoneStays
  <1>5. CASE DeleteRows(c)
    <2>1. /\ RowsOnlyGo /\ run' = run /\ files' = files /\ stray' = stray /\ cutoff' = cutoff
          /\ \A j \in Job : row'[j] = "gone" =>
               row[j] = "gone" \/ j \in clean[c].batch \ clean[c].spared
      BY <1>5, DeleteRowsOnly
    <2>2. \A j \in clean[c].batch \ clean[c].spared :
            (j \in stray \/ run[j] = "none") /\ (j \in stray \/ j \notin files)
      BY <1>5 DEF DeleteRows, Fits, Settled
    <2>3. GoneIsOver'
      BY <2>1, <2>2 DEF GoneIsOver
    <2> QED BY <1>5, <2>1, <2>3, DeleteRowsFits
  <1>6. CASE QueryFails(c)
    <2>1. UNCHANGED <<row, cutoff>>
      BY <1>6 DEF QueryFails
    <2> QED BY <1>6, <2>1, QueryFailsFits, GoneStays
  <1> QED BY <1>1, <1>2, <1>3, <1>4, <1>5, <1>6 DEF CleanStep

\* A deletion beside the cleanups, or a step of the manager.
LEMMA BesideClean ==
  ASSUME RowsTypeOK, CleanTypeOK, GoneIsOver, NEW j \in Job, DeleteJob(j) \/ ManagerStep(j)
  PROVE  /\ CleanTypeOK' /\ RowsOnlyGo /\ GoneIsOver' /\ cutoff' = cutoff
         /\ \A d \in Cleaner : \/ clean'[d] = clean[d] /\ Rows' = Rows
                               \/ clean'[d] = [clean[d] EXCEPT !.alone = FALSE]
  <1>1. CASE DeleteJob(j)
    <2>1. /\ DeleteWithArtifacts(j, FALSE) /\ cutoff' = cutoff
          /\ clean' = [d \in Cleaner |-> [clean[d] EXCEPT !.alone = FALSE]]
      BY <1>1 DEF DeleteJob
    <2>2. /\ RowsOnlyGo /\ run' = run
          /\ \A i \in Job : i # j /\ row'[i] = "gone" => row[i] = "gone"
          /\ j \in stray' \/ (j \notin files' /\ run'[j] = "none")
      BY <2>1, DeleteOnly
    <2>3. GoneIsOver'
      BY <2>2 DEF GoneIsOver, RowsOnlyGo
    <2>4. \A d \in Cleaner : [clean[d] EXCEPT !.alone = FALSE] \in Cleanups
      <3> TAKE d \in Cleaner
      <3>1. clean[d] \in Cleanups
        BY CleanIs
      <3> QED BY <3>1, AloneSet
    <2>5. CleanTypeOK'
      BY <2>1, <2>4 DEF CleanTypeOK
    <2> QED BY <2>1, <2>2, <2>3, <2>5
  <1>2. CASE ManagerStep(j)
    <2>1. RunStep(j) /\ UNCHANGED <<cutoff, clean>>
      BY <1>2 DEF ManagerStep
    <2>2. RowsOnlyGo /\ Rows' = Rows /\ \A i \in Job : row'[i] = "gone" => row[i] = "gone"
      BY <2>1, RunStepOnly
    <2> QED BY <2>1, <2>2, GoneStays DEF CleanTypeOK
  <1> QED BY <1>1, <1>2

LEMMA RetentionKeepsClean ==
  ASSUME BatchInv, CleanInv, part = "retention", part' = part, RetentionNext
  PROVE  CleanInv'
  <1>0. RowsTypeOK /\ CleanTypeOK /\ GoneIsOver /\ \A c \in Cleaner : Fits(c)
    BY DEF CleanInv, Fits, GoneIsOver
  <1> DEFINE Beside(d) == \/ clean'[d] = clean[d] /\ Rows' = Rows
                          \/ clean'[d] = [clean[d] EXCEPT !.alone = FALSE]
  <1>1. ASSUME CleanTypeOK', RowsOnlyGo, GoneIsOver', cutoff' = cutoff,
               \A d \in Cleaner : Fits(d)' \/ Beside(d)
        PROVE  CleanInv'
    <2>1. \A d \in Cleaner : Fits(d)'
      BY <1>0, <1>1, BystanderFits
    <2> QED BY <1>1, <2>1 DEF CleanInv, Fits, GoneIsOver, RowsOnlyGo
  <1>2. ASSUME NEW c \in Cleaner, NEW kind \in SUBSET Job, RunCleanup(c, kind)
        PROVE  CleanInv'
    <2>1. UNCHANGED <<row, cutoff>>
      BY <1>2 DEF RunCleanup, rowVars
    <2>2. /\ CleanTypeOK' /\ RowsOnlyGo /\ Rows' = Rows /\ Fits(c)'
          /\ \A d \in Cleaner : d # c => clean'[d] = clean[d]
      BY <1>0, <1>2, RunCleanupFits
    <2>3. GoneIsOver'
      BY <1>0, <2>1, <2>2, GoneStays
    <2>4. \A d \in Cleaner : Fits(d)' \/ Beside(d)
      BY <2>2
    <2> QED BY <1>1, <2>1, <2>2, <2>3, <2>4
  <1>3. ASSUME NEW c \in Cleaner, CleanStep(c)
        PROVE  CleanInv'
    <2>1. /\ CleanTypeOK' /\ RowsOnlyGo /\ Fits(c)' /\ GoneIsOver' /\ cutoff' = cutoff
          /\ \A d \in Cleaner : d # c => Beside(d)
      BY <1>0, <1>3, CleanStepOver
    <2>2. \A d \in Cleaner : Fits(d)' \/ Beside(d)
      BY <2>1
    <2> QED BY <1>1, <2>1, <2>2
  <1>4. ASSUME NEW j \in Job, DeleteJob(j) \/ ManagerStep(j)
        PROVE  CleanInv'
    <2>1. /\ CleanTypeOK' /\ RowsOnlyGo /\ GoneIsOver' /\ cutoff' = cutoff
          /\ \A d \in Cleaner : Beside(d)
      BY <1>0, <1>4, BesideClean
    <2> QED BY <1>1, <2>1
  <1>5. \A kind \in {Job, {j \in Job : j % 2 = 1}} : kind \in SUBSET Job
    OBVIOUS
  <1> HIDE DEF Beside
  <1> QED BY <1>2, <1>3, <1>4, <1>5
          DEF RetentionNext, HandleRetentionCleanup, RunRetentionCommand, RunScheduledCleanup

\* Whoever works on a batch leaves the cleanups at rest.
LEMMA BatchKeepsClean ==
  ASSUME BatchInv, CleanInv, part = "batches", part' = part, BatchNext, UNCHANGED <<cutoff, clean>>
  PROVE  CleanInv'
  <1>0. /\ RowsTypeOK /\ BatchTypeOK /\ GoneIsOver /\ submit.job \in Members
        /\ Members \subseteq Job /\ BatchSize \in Nat /\ Members = 1 .. BatchSize
    BY MembersAreJobs, BatchAssumption, RowsAssumption
       DEF CleanInv, GoneIsOver, BatchInv, BatchTypeOK, Members
  <1> DEFINE Strays == \A j \in Members : row[j] = "gone" /\ Awaited(j) => j \in stray
  <1>1. Strays
    BY DEF CleanInv
  <1>2. ASSUME RowsTypeOK', GoneIsOver', Strays'
        PROVE  CleanInv'
    <2>1. CleanTypeOK' /\ \A c \in Cleaner : clean'[c] = NoCleanup
      BY DEF CleanInv, CleanTypeOK
    <2>2. \A c \in Cleaner : Fits(c)'
      BY <2>1, NoCleanupIs, OverFits
    <2> QED BY <1>2, <2>1, <2>2 DEF CleanInv, Fits, GoneIsOver
  <1>3. ASSUME NEW j \in Members, RunJob(j)
        PROVE  GoneIsOver' /\ Strays'
    <2>1. RunStep(j) /\ submit' = submit /\ j \in Job
      BY <1>0, <1>3 DEF RunJob
    <2>2. RowsOnlyGo /\ stray' = stray /\ \A i \in Job : row'[i] = "gone" => row[i] = "gone"
      BY <1>0, <2>1, RunStepOnly
    <2> QED BY <1>0, <1>1, <2>1, <2>2, GoneStays DEF Awaited
  <1>4. ASSUME NEW j \in Members, DeleteMember(j)
        PROVE  GoneIsOver' /\ Strays'
    <2>1. DeleteWithArtifacts(j, Awaited(j)) /\ submit' = submit /\ j \in Job /\ Awaited(j) \in BOOLEAN
      BY <1>0, <1>4 DEF DeleteMember, Awaited
    <2>2. /\ RowsOnlyGo /\ run' = run /\ (Awaited(j) => j \in stray')
          /\ \A i \in Job : i # j /\ row'[i] = "gone" => row[i] = "gone"
          /\ j \in stray' \/ (j \notin files' /\ run'[j] = "none")
      BY <1>0, <2>1, DeleteOnly
    <2>3. GoneIsOver'
      BY <1>0, <2>2 DEF GoneIsOver, RowsOnlyGo
    <2>4. Strays'
      BY <1>0, <1>1, <2>1, <2>2 DEF RowsOnlyGo, Awaited
    <2> QED BY <2>3, <2>4
  <1>5. ASSUME Submission \/ SubmitFails
        PROVE  GoneIsOver' /\ Strays'
    <2>1. /\ UNCHANGED <<files, stray>>
          /\ \A j \in Job : row'[j] = "gone" => row[j] = "gone"
      BY <1>0, <1>5 DEF Submission, SubmitFails, CreateJob, Insert, CreateBatch, EnqueueBatch, rowVars,
                        RowsTypeOK
    <2>2. \A j \in Members : Awaited(j)' => Awaited(j)
      BY <1>0, <1>5 DEF Submission, SubmitFails, CreateJob, Advance, CreateBatch, EnqueueBatch,
                        Awaited, BatchTypeOK
    <2>3. \A j \in Job : run'[j] = run[j] \/ (j = submit.job /\ Awaited(j))
      BY <1>0, <1>5 DEF Submission, SubmitFails, CreateJob, CreateBatch, EnqueueBatch, Enqueue,
                        rowVars, RowsTypeOK, Awaited
    <2>4. Strays'
      BY <1>0, <1>1, <2>1, <2>2
    <2>5. GoneIsOver'
      BY <1>0, <1>1, <2>1, <2>3 DEF GoneIsOver
    <2> QED BY <2>4, <2>5
  <1>6. ASSUME HandleBatchCancel \/ Cancellation
        PROVE  GoneIsOver' /\ Strays'
    <2>1. UNCHANGED <<files, stray, submit>>
      BY <1>6 DEF HandleBatchCancel, Cancellation, CancelSignal, CancelWrite, CancelEnds, rowVars
    <2>2. cancel.job \in Job
      BY <1>0 DEF BatchTypeOK
    <2>3. row' = row \/ SetStatus(cancel.job, "canceled")
      BY <1>6 DEF HandleBatchCancel, Cancellation, CancelSignal, CancelWrite, CancelEnds, rowVars
    <2>4. \A j \in Job : row'[j] = "gone" => row[j] = "gone"
      BY <1>0, <2>2, <2>3, SetStatusOn DEF Ended
    <2>5. \A j \in Job : run[j] = "none" => run'[j] = "none"
      BY <1>0, <1>6, <2>2 DEF HandleBatchCancel, Cancellation, CancelSignal, CancelWrite, CancelEnds,
                              rowVars, Signal, RowsTypeOK
    <2> QED BY <1>0, <1>1, <2>1, <2>4, <2>5 DEF GoneIsOver, Awaited
  <1>7. ASSUME RestartManager
        PROVE  GoneIsOver' /\ Strays'
    <2>1. /\ UNCHANGED <<row, files, stray>> /\ submit'.at = "done"
          /\ \A j \in Job : run'[j] # "none" => row[j] = "queued"
      BY <1>7 DEF RestartManager, Recovered
    <2> QED BY <1>0, <2>1 DEF GoneIsOver, Awaited
  <1>8. RowsTypeOK'
    <2>1. ASSUME NEW j \in Members, RunJob(j) \/ DeleteMember(j)
          PROVE  RowsTypeOK'
      BY <1>0, <2>1, RunStepRows, DeleteRowsOn DEF RunJob, DeleteMember
    <2> QED BY <2>1, SubmissionKeeps, CancellationKeeps, RestartKeeps DEF BatchNext, BatchInv
  <1> HIDE DEF Strays
  <1>9. GoneIsOver' /\ Strays'
    BY <1>3, <1>4, <1>5, <1>6, <1>7 DEF BatchNext
  <1> QED BY <1>2, <1>8, <1>9

LEMMA CleanKeeps == BatchInv /\ CleanInv /\ [Next]_vars => CleanInv'
  <1> SUFFICES ASSUME BatchInv, CleanInv, [Next]_vars
               PROVE  CleanInv'
    OBVIOUS
  <1>1. CASE UNCHANGED <<part, rowVars, cutoff, clean, submit>>
    <2>1. /\ UNCHANGED <<part, row, files, run, undone, stray, faults, cutoff, clean, submit>>
          /\ RowsTypeOK /\ CleanTypeOK /\ GoneIsOver /\ \A c \in Cleaner : Fits(c)
      BY <1>1 DEF rowVars, CleanInv, Fits, GoneIsOver
    <2>2. RowsOnlyGo /\ Rows' = Rows
      BY <2>1, RowsStand DEF RowsTypeOK
    <2>3. RowsTypeOK' /\ CleanTypeOK' /\ GoneIsOver'
      BY <2>1, <2>2, GoneStays DEF RowsOnlyGo, CleanTypeOK
    <2>4. \A c \in Cleaner : Fits(c)'
      BY <2>1, <2>2, BystanderFits
    <2>5. /\ part' # "retention" => \A c \in Cleaner : clean'[c] = NoCleanup
          /\ part' = "batches" =>
               \A j \in Members : row'[j] = "gone" /\ Awaited(j)' => j \in stray'
      BY <2>1 DEF CleanInv, Awaited
    <2> QED BY <2>3, <2>4, <2>5 DEF CleanInv, Fits, GoneIsOver
  <1>2. CASE part = "retention" /\ part' = part /\ RetentionNext
    BY <1>2, RetentionKeepsClean
  <1>3. CASE part = "batches" /\ part' = part /\ BatchNext /\ UNCHANGED <<cutoff, clean>>
    BY <1>3, BatchKeepsClean
  <1>4. \/ UNCHANGED <<part, rowVars, cutoff, clean, submit>>
        \/ part = "retention" /\ part' = part /\ RetentionNext
        \/ part = "batches" /\ part' = part /\ BatchNext /\ UNCHANGED <<cutoff, clean>>
    BY DEF Next, vars, jobGroup, retentionVars, ForFiles, ForWatches, ForHub, ForRetention,
           ForBatches, ForChains
  <1> QED BY <1>1, <1>2, <1>3, <1>4

LEMMA CleanBegins == JobsInit => CleanInv
  <1> SUFFICES ASSUME JobsInit
               PROVE  CleanInv
    OBVIOUS
  <1>1. RowsTypeOK
    BY JobsBegin DEF BatchInv
  <1>2. clean = [c \in Cleaner |-> NoCleanup]
    BY DEF JobsInit, RetentionInit
  <1>3. cutoff \in 0 .. LastRow
    <2>1. LastRow \in Nat
      BY RowsAssumption
    <2>2. LastRow \div 2 \in 0 .. LastRow /\ 0 \in 0 .. LastRow
      BY <2>1
    <2>3. cutoff \in {LastRow \div 2, LastRow, 0}
      BY DEF JobsInit, RetentionInit
    <2> QED BY <2>1, <2>2, <2>3
  <1>4. CleanTypeOK
    BY <1>2, <1>3, NoCleanupIs DEF CleanTypeOK
  <1>5. \A j \in Job : row[j] # "gone"
    BY DEF JobsInit, RetentionInit, SomeRows, BatchInit
  <1>6. \A c \in Cleaner : Placed(c) /\ Settled(c) /\ Counting(c) /\ Aging(c)
    BY <1>2, NoCleanupIs DEF Placed, Settled, Counting, Aging
  <1> QED BY <1>1, <1>2, <1>4, <1>5, <1>6, MembersAreJobs DEF CleanInv

\* A cleanup that nobody disturbs cuts no deeper than to the limit, leaves nothing
\* that was due by age, and leaves no result without a row: ListByAge to DeleteRows,
\* in every interleaving of cleanups, deletions and workers.
THEOREM CleanupSoundHolds == Spec => []CleanupSound
  <1> DEFINE Inv == BatchInv /\ CleanInv
  <1>1. Init => Inv
    BY JobsBegin, CleanBegins DEF Init
  <1>2. Inv /\ [Next]_vars => Inv'
    BY BatchKeeps, CleanKeeps
  <1>3. Inv => CleanupSound
    <2> SUFFICES ASSUME CleanInv
                 PROVE  CleanupSound
      OBVIOUS
    <2>1. CutsNoDeeper
      <3> SUFFICES ASSUME NEW c \in Cleaner, clean[c].cut, clean[c].alone
                   PROVE  Cardinality(Rows) >= MaxJobs
        BY DEF CutsNoDeeper
      <3>1. clean[c].left \in Nat /\ MaxJobs \in Nat /\ Cardinality(Rows) \in Nat
        <4>1. Rows \in SUBSET Job /\ CleanTypeOK
          BY DEF Rows, CleanInv
        <4> QED BY <4>1, CleanIs, Sizes, JobsAreFinite
      <3>2. \/ Cardinality(Rows) >= MaxJobs + clean[c].left
            \/ Cardinality(Rows) >= MaxJobs
        BY DEF CleanInv, Counting
      <3> QED BY <3>1, <3>2
    <2>2. AgedAreGone
      BY CleanIs DEF AgedAreGone, CleanInv, Aging, Waits, RowsTypeOK
    <2>3. NoOrphans
      BY DEF NoOrphans, CleanInv, RowsTypeOK
    <2> QED BY <2>1, <2>2, <2>3 DEF CleanupSound
  <1> HIDE DEF Inv
  <1> QED BY <1>1, <1>2, <1>3, PTL DEF Spec

-----------------------------------------------------------------------------
(* The rest of the types *)

LEMMA HubKeepsType == HubTypeOK /\ HubNext => HubTypeOK'
  <1> SUFFICES ASSUME HubTypeOK, HubNext
               PROVE  HubTypeOK'
    OBVIOUS
  <1>1. SendCapacity \in Nat /\ BroadcastCapacity \in Nat /\ MaxMessages \in Nat
    BY HubAssumption
  <1>2. CASE Broadcast
    BY <1>1, <1>2 DEF Broadcast, HubTypeOK
  <1>3. CASE Deliver
    <2>1. ASSUME NEW c \in Conn
          PROVE  (IF c \in members /\ send[c] < SendCapacity THEN send[c] + 1 ELSE send[c])
                    \in 0 .. Closed
      BY <1>1 DEF HubTypeOK, Closed
    <2>2. send' \in [Conn -> 0 .. Closed]
      BY <1>3, <2>1 DEF Deliver
    <2> QED BY <1>1, <1>3, <2>2 DEF Deliver, HubTypeOK
  <1>4. CASE Stop \/ Quit
    BY <1>4 DEF Stop, Quit, HubTypeOK
  <1>5. ASSUME NEW c \in Conn, RegisterClient(c) \/ Connect(c) \/ Disconnect(c) \/ ReadFails(c)
        PROVE  HubTypeOK'
    BY <1>5 DEF RegisterClient, Connect, Disconnect, ReadFails, HubTypeOK
  <1>6. ASSUME NEW c \in Conn, UnregisterClient(c) \/ StopWriting(c)
        PROVE  HubTypeOK'
    BY <1>1, <1>6 DEF UnregisterClient, StopWriting, HubTypeOK, Closed
  <1>7. ASSUME NEW c \in Conn, WriteMessage(c)
        PROVE  HubTypeOK'
    <2>1. send[c] - 1 \in 0 .. Closed
      BY <1>1, <1>7 DEF WriteMessage, Closed
    <2> QED BY <1>7, <2>1 DEF WriteMessage, HubTypeOK
  <1> QED BY <1>2, <1>3, <1>4, <1>5, <1>6, <1>7 DEF HubNext, Loop, Pumps

LEMMA ChainKeepsType == ChainTypeOK /\ ChainNext => ChainTypeOK'
  <1> SUFFICES ASSUME ChainTypeOK, ChainNext
               PROVE  ChainTypeOK'
    OBVIOUS
  <1>1. path # << >> => Top \in Node
    BY DEF ChainTypeOK, Top
  <1>2. ASSUME NEW n \in Node, NEW r \in [Node -> SUBSET Node], Dfs(n, r)
        PROVE  ChainTypeOK'
    <2>1. Neighbors(n) \in SUBSET Node
      BY DEF Neighbors
    <2>2. path' \in Seq(Node) /\ rest' \in [Node -> SUBSET Node]
      BY <1>2, <2>1 DEF Dfs, ChainTypeOK
    <2> QED BY <1>2, <2>2 DEF Dfs, useVars, ChainTypeOK
  <1>3. ASSUME NEW m \in Node, path # << >>
        PROVE  Looked(m) \in [Node -> SUBSET Node]
    BY <1>1, <1>3 DEF Looked, ChainTypeOK
  <1>4. CASE SelfReference \/ CycleFound \/ StoreChain
    BY <1>4 DEF SelfReference, CycleFound, StoreChain, dfsVars, useVars, ChainTypeOK
  <1>5. CASE NextRoot
    BY <1>2, <1>5 DEF NextRoot, ChainTypeOK
  <1>6. CASE Descend
    <2>1. PICK m \in rest[Top] \ visited : Dfs(m, Looked(m))
      BY <1>6 DEF Descend
    <2>2. m \in Node /\ path # << >>
      BY <1>1, <1>6, <2>1 DEF Descend, ChainTypeOK
    <2> QED BY <1>2, <1>3, <2>1, <2>2
  <1>7. CASE SkipVisited
    BY <1>1, <1>3, <1>7 DEF SkipVisited, useVars, ChainTypeOK
  <1>8. CASE Leave
    <2>1. path' \in Seq(Node)
      BY <1>8 DEF Leave, ChainTypeOK
    <2> QED BY <1>8, <2>1 DEF Leave, useVars, ChainTypeOK
  <1>9. CASE UseChain
    <2>1. UNCHANGED <<edges, dfsVars>> /\ chain' \in {chain, "deleted"}
      BY <1>9 DEF UseChain, DeleteChain
    <2>2. CASE CreateChainJob \/ JobDeleted
      <3>1. created' \in Nat /\ jobs' \in Nat
        BY <2>2 DEF CreateChainJob, JobDeleted, ChainTypeOK
      <3> QED BY <2>1, <2>2, <3>1 DEF CreateChainJob, JobDeleted, dfsVars, ChainTypeOK
    <2>3. CASE DeleteChain \/ GetChain \/ EndSubmit \/ CheckJobs
      <3>1. UNCHANGED <<created, jobs>>
        BY <2>3 DEF DeleteChain, GetChain, EndSubmit, CheckJobs
      <3>2. /\ submitting' \in {"none", "creating", "done"}
            /\ delete' \in {"none", "checked", "done"}
        BY <2>3 DEF DeleteChain, GetChain, EndSubmit, CheckJobs, ChainTypeOK
      <3>3. overlapped' \in BOOLEAN
        BY <2>3 DEF DeleteChain, GetChain, EndSubmit, CheckJobs, ChainTypeOK
      <3> QED BY <2>1, <3>1, <3>2, <3>3 DEF dfsVars, ChainTypeOK
    <2> QED BY <1>9, <2>2, <2>3 DEF UseChain
  <1> QED BY <1>4, <1>5, <1>6, <1>7, <1>8, <1>9 DEF ChainNext, CreateChain

\* What no step of the other parts touches, and no step of its own part leaves.
LEMMA RestOfTypes ==
  part \in Parts /\ HubTypeOK /\ ChainTypeOK /\ [Next]_vars
    => (part \in Parts /\ HubTypeOK /\ ChainTypeOK)'
  <1> SUFFICES ASSUME part \in Parts, HubTypeOK, ChainTypeOK, [Next]_vars
               PROVE  (part \in Parts /\ HubTypeOK /\ ChainTypeOK)'
    OBVIOUS
  <1>1. part' = part
    BY DEF Next, vars, ForFiles, ForWatches, ForHub, ForRetention, ForBatches, ForChains
  <1>2. HubNext \/ UNCHANGED hubVars
    BY DEF Next, vars, ForFiles, ForWatches, ForHub, ForRetention, ForBatches, ForChains
  <1>3. ChainNext \/ UNCHANGED chainVars
    BY DEF Next, vars, ForFiles, ForWatches, ForHub, ForRetention, ForBatches, ForChains
  <1>4. HubTypeOK'
    BY <1>2, HubKeepsType DEF hubVars, HubTypeOK
  <1>5. ChainTypeOK'
    BY <1>3, ChainKeepsType DEF chainVars, dfsVars, useVars, ChainTypeOK
  <1> QED BY <1>1, <1>4, <1>5

LEMMA RestOfTypesBegins == Init => part \in Parts /\ HubTypeOK /\ ChainTypeOK
  <1> SUFFICES ASSUME Init
               PROVE  HubTypeOK /\ ChainTypeOK
    BY DEF Init
  <1>1. HubTypeOK
    BY HubAssumption DEF Init, HubInit, HubTypeOK, Closed
  <1>2. path \in Seq(Node) /\ rest \in [Node -> SUBSET Node] /\ edges \subseteq Node \X Node
    BY DEF Init, ChainInit
  <1> QED BY <1>1, <1>2 DEF Init, ChainInit, ChainTypeOK

\* Every variable of the files, watches, hub, rows, batches and chains keeps its type,
\* whichever of them a behaviour is about: the counters of the hub and of the pages of
\* a cleanup stay within what their channels and tables hold.
THEOREM AutomationTypeCorrect == Spec => []AutomationTypeOK
  <1> DEFINE Rest == part \in Parts /\ HubTypeOK /\ ChainTypeOK
             Inv == BatchInv /\ CleanInv
  <1>1. Spec => []Rest
    <2>1. Init => Rest
      BY RestOfTypesBegins
    <2>2. Rest /\ [Next]_vars => Rest'
      BY RestOfTypes
    <2> HIDE DEF Rest
    <2> QED BY <2>1, <2>2, PTL DEF Spec
  <1>2. Spec => []Inv
    <2>1. Init => Inv
      BY JobsBegin, CleanBegins DEF Init
    <2>2. Inv /\ [Next]_vars => Inv'
      BY BatchKeeps, CleanKeeps
    <2> HIDE DEF Inv
    <2> QED BY <2>1, <2>2, PTL DEF Spec
  <1>3. FilesInv /\ WatchInv /\ Rest /\ Inv => AutomationTypeOK
    BY DEF FilesInv, FileInv, MemoryTyped, WatchInv, BatchInv, CleanInv, AutomationTypeOK
  <1> HIDE DEF Rest, Inv
  <1> QED BY <1>1, <1>2, <1>3, FilesAlways, WatchAlways, PTL
=============================================================================
