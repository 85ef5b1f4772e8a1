----------------------------- MODULE Retention ------------------------------
(***************************************************************************)
(* The retention engine: a cleanup deletes jobs that are too old, then the *)
(* oldest ones while there are too many, then the oldest ones while they   *)
(* take too much room.  Each part takes the rows page by page, and several *)
(* cleanups (of the scheduler, the API, the command line) may run at once. *)
(* One unit of room stands for the size of one result.  A dry run changes  *)
(* nothing and is left out.                                                *)
(*                                                                         *)
(* Limit is preceded by a faulty variant that no action uses: with it in   *)
(* place a property must fail.                                             *)
(***************************************************************************)
EXTENDS JobRows, Sequences

CONSTANTS
  Cleaner,
  PageSize,         \* rows that one query returns
  MaxJobs,          \* RetentionMaxJobs
  MaxRoom           \* RetentionMaxStorageGB

ASSUME RetentionAssumption ==
  /\ PageSize \in Nat \ {0} /\ MaxJobs \in Nat \ {0} /\ MaxRoom \in Nat \ {0}

VARIABLES
  cutoff,     \* the jobs 1 .. cutoff are older than the limit
  clean       \* what each cleanup is doing

retentionVars == <<rowVars, cutoff, clean>>

AgeOrder == <<"failed", "succeeded", "canceled">>
Phases == {"idle", "age", "count", "room", "over"}

NoCleanup ==
  [phase |-> "idle", at |-> "none", kind |-> {}, status |-> 1, offset |-> 0,
   left |-> 0, page |-> 0, batch |-> {}, spared |-> {}, freed |-> 0,
   \* history: what was due in the beginning; whether a full page was listed;
   \* whether nobody else has deleted a row since; whether rows were deleted
   \* because they were too many
   due |-> {}, full |-> FALSE, alone |-> TRUE, cut |-> FALSE]

Cleanups ==
  [phase : Phases, at : {"none", "measure", "list", "files", "rows"}, kind : SUBSET Job,
   status : 1 .. 3, offset : 0 .. LastRow, left : 0 .. LastRow, page : 0 .. PageSize,
   batch : SUBSET Job, spared : SUBSET Job, freed : 0 .. PageSize, due : SUBSET Job,
   full : BOOLEAN, alone : BOOLEAN, cut : BOOLEAN]

CleanTypeOK ==
  /\ cutoff \in 0 .. LastRow
  /\ clean \in [Cleaner -> Cleanups]

\* Jobs whose results are there, in a table that nobody is cleaning.
RetentionInit(rows, cutoffs) ==
  /\ row \in rows
  /\ files = {j \in Job : row[j] \in {"succeeded", "running"}}
  /\ run = [j \in Job |-> CASE row[j] = "running" -> "running"
                            [] row[j] = "queued" -> "waiting" [] OTHER -> "none"]
  /\ undone = {} /\ stray = {} /\ faults = 0
  /\ cutoff \in cutoffs
  /\ clean = [c \in Cleaner |-> NoCleanup]

-----------------------------------------------------------------------------
(* What the steps of a cleanup have in common                              *)

CleanTo(c, change) == clean' = [clean EXCEPT ![c] = change]

\* The first rows of a set, after as many as the offset says.
Before(rows, j) == {i \in rows : i < j}
Page(rows, offset, limit) ==
  {j \in rows : Cardinality(Before(rows, j)) \in offset .. offset + limit - 1}

\* The next part of the cleanup, with nothing of the old one left.
Phase(c, phase) ==
  [clean[c] EXCEPT !.phase = phase, !.at = IF phase = "age" THEN "list" ELSE "measure",
                   !.status = 1, !.offset = 0, !.left = 0, !.page = 0, !.batch = {}]
NextStatus(c) ==
  IF clean[c].status < Len(AgeOrder)
  THEN [clean[c] EXCEPT !.status = @ + 1, !.offset = 0, !.page = 0, !.batch = {},
                        !.at = "list"]
  ELSE Phase(c, "count")

\* The handler, the command and the scheduler's timer.
RunCleanup(c, kind) ==
  /\ clean[c].phase = "idle"
  /\ CleanTo(c, [Phase(c, "age") EXCEPT !.kind = kind,
               !.due = {j \in kind : j <= cutoff /\ row[j] \in Ended}])
  /\ UNCHANGED <<rowVars, cutoff>>
HandleRetentionCleanup(c, kind) == RunCleanup(c, kind)
RunRetentionCommand(c, kind) == RunCleanup(c, kind)
RunScheduledCleanup(c) == RunCleanup(c, Job)

\* A page was listed: without a row of the kind asked for it is passed over.
Listed(c, page, passedOver) ==
  LET batch == page \cap clean[c].kind IN
  /\ batch = {} => CleanTo(c, passedOver)
  /\ batch # {} => CleanTo(c, [clean[c] EXCEPT !.at = "files", !.batch = batch,
                                            !.page = Cardinality(page)])
  /\ stray' = stray \cup {j \in batch : row[j] \in Live \/ run[j] # "none"}
  /\ UNCHANGED <<row, files, run, undone, faults, cutoff>>

-----------------------------------------------------------------------------
(* cleanupByAge                                                            *)

Aged(c) == {j \in Rows : row[j] = AgeOrder[clean[c].status] /\ j <= cutoff}

\* A page that is not full is the last one of its status.
AfterAgePage(c, size) ==
  IF size < PageSize THEN NextStatus(c)
  ELSE [clean[c] EXCEPT !.at = "list", !.offset = @ + size, !.batch = {}, !.page = 0,
                        !.full = TRUE]

ListByAge(c) ==
  /\ clean[c].phase = "age" /\ clean[c].at = "list"
  /\ LET page == Page(Aged(c), clean[c].offset, PageSize)
     IN Listed(c, page, AfterAgePage(c, Cardinality(page)))

-----------------------------------------------------------------------------
(* cleanupByCount and cleanupByStorage                                     *)

Excess(c) ==
  LET have == IF clean[c].phase = "count" THEN Cardinality(Rows) ELSE Cardinality(files)
      may == IF clean[c].phase = "count" THEN MaxJobs ELSE MaxRoom
  IN IF have > may THEN have - may ELSE 0

AfterPhase(c) == IF clean[c].phase = "count" THEN Phase(c, "room")
                 ELSE [NoCleanup EXCEPT !.phase = "over"]

\* GetStorageStats.
Measure(c) ==
  /\ clean[c].phase \in {"count", "room"} /\ clean[c].at = "measure"
  /\ CleanTo(c, IF Excess(c) = 0 THEN AfterPhase(c)
             ELSE [clean[c] EXCEPT !.at = "list", !.left = Excess(c),
                                   !.alone = TRUE, !.cut = FALSE])
  /\ UNCHANGED <<rowVars, cutoff>>

\* By count it asks for no more rows than it has to delete.
LimitByPage(c) == PageSize
Limit(c) ==
  IF clean[c].phase = "count" /\ clean[c].left < PageSize THEN clean[c].left ELSE PageSize

\* The oldest rows, whatever their status.
ListOldest(c) ==
  /\ clean[c].phase \in {"count", "room"} /\ clean[c].at = "list"
  /\ LET page == Page(Rows, clean[c].offset, Limit(c))
     IN Listed(c, page, IF page = {} THEN AfterPhase(c)
                        ELSE [clean[c] EXCEPT !.offset = @ + Cardinality(page)])

\* What a page has brought.  Tried counts, by count; room that was freed, by
\* room.
AfterPage(c, tried, freed) ==
  LET got == IF clean[c].phase = "count" THEN tried ELSE freed IN
  IF got >= clean[c].left THEN AfterPhase(c)
  ELSE [clean[c] EXCEPT !.at = "list", !.left = @ - got, !.batch = {}, !.page = 0,
                        !.offset = @ + clean[c].page]

\* The rows cannot be listed, or the table not measured: the error is noted, and
\* the next part begins.
QueryFails(c) ==
  /\ clean[c].at \in {"list", "measure"} /\ Fault
  /\ CleanTo(c, IF clean[c].phase = "age" THEN Phase(c, "count") ELSE AfterPhase(c))
  /\ UNCHANGED <<row, files, run, undone, stray, cutoff>>

-----------------------------------------------------------------------------
(* DeleteJobsWithArtifactsBatch                                            *)

\* The directories first: the rows of those that cannot be removed stay.
DeleteFiles(c) ==
  /\ clean[c].at = "files"
  /\ \E failed \in SUBSET (clean[c].batch \cap files) :
       /\ IF failed = {} THEN UNCHANGED faults ELSE Fault
       /\ files' = files \ (clean[c].batch \ failed)
       /\ CleanTo(c, [clean[c] EXCEPT !.at = "rows", !.spared = failed,
                          !.freed = Cardinality((clean[c].batch \ failed) \cap files)])
  /\ UNCHANGED <<row, run, undone, stray, cutoff>>

\* Rows in one transaction.  If it fails the rows outlive their results.
DeleteRows(c) ==
  LET batch == clean[c].batch \ clean[c].spared
      after == IF clean[c].phase = "age" THEN AfterAgePage(c, clean[c].page)
               ELSE AfterPage(c, Cardinality(clean[c].batch), clean[c].freed)
  IN
  /\ clean[c].at = "rows"
  /\ \/ /\ row' = [j \in Job |-> IF j \in batch \cap Rows THEN "gone" ELSE row[j]]
        /\ UNCHANGED faults
     \/ Fault /\ batch # {} /\ UNCHANGED row
  /\ clean' = [d \in Cleaner |->
       IF d = c THEN [after EXCEPT !.spared = {}, !.freed = 0, !.cut = clean[c].phase = "count"]
       ELSE [clean[d] EXCEPT !.alone = FALSE]]
  /\ UNCHANGED <<files, run, undone, stray, cutoff>>

\* An operator deletes a job beside it.
DeleteJob(j) ==
  /\ DeleteWithArtifacts(j, FALSE)
  /\ clean' = [c \in Cleaner |-> [clean[c] EXCEPT !.alone = FALSE]]
  /\ UNCHANGED cutoff

ManagerStep(j) == RunStep(j) /\ UNCHANGED <<cutoff, clean>>

CleanStep(c) ==
  \/ ListByAge(c) \/ Measure(c) \/ ListOldest(c) \/ QueryFails(c)
  \/ DeleteFiles(c) \/ DeleteRows(c)

RetentionNext ==
  \/ \E c \in Cleaner, kind \in {Job, {j \in Job : j % 2 = 1}} :
       HandleRetentionCleanup(c, kind) \/ RunRetentionCommand(c, kind)
  \/ \E c \in Cleaner : RunScheduledCleanup(c) \/ CleanStep(c)
  \/ \E j \in Job : DeleteJob(j) \/ ManagerStep(j)

-----------------------------------------------------------------------------
(* Properties                                                              *)

\* A cleanup that nobody disturbs does not delete more jobs than there are too
\* many, although it pages through a list that it makes shorter.
CutsNoDeeper ==
  \A c \in Cleaner :
    clean[c].cut /\ clean[c].alone => Cardinality(Rows) >= MaxJobs

\* The part that goes by age leaves nothing that was due, whoever deletes beside it,
\* unless a page was full (the next one is then taken further down than it begins),
\* a row was written again, or a deletion failed.
AgedAreGone ==
  \A c \in Cleaner :
    clean[c].phase = "count" /\ clean[c].at = "measure" =>
      \/ clean[c].full \/ faults > 0
      \/ clean[c].due \cap Rows \subseteq undone

\* A result without a row is that of a job which was not final when somebody
\* set out to delete it, or which an operator's deletion left behind.
NoOrphans == \A j \in files : row[j] = "gone" => j \in stray

\* A cleanup comes to its end, whatever others delete meanwhile.
RetentionEnds == \A c \in Cleaner : clean[c].phase \in {"idle", "over"}

CleanupSound == CutsNoDeeper /\ AgedAreGone /\ NoOrphans
=============================================================================
