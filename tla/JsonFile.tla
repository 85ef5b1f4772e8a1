------------------------------ MODULE JsonFile ------------------------------
(***************************************************************************)
(* The collections that the program keeps in JSON files of the data        *)
(* directory.  Whoever changes one loads the whole file, edits the copy    *)
(* and saves it: the server, the command line and the MCP server are       *)
(* processes of their own, and no lock spans the three steps.              *)
(*                                                                         *)
(* Some files are written with os.WriteFile, which empties the file before *)
(* it fills it; others go through a temporary file and a rename.  What an  *)
(* entry says is abstracted to who edited it last and when it is due.      *)
(*                                                                         *)
(* Edited is preceded by a faulty variant that no action uses: with it in  *)
(* place a property must fail.                                             *)
(***************************************************************************)
EXTENDS Naturals, FiniteSets

CONSTANTS
  Key, Client,
  MaxTime,          \* bound on the clock
  MaxFailures,      \* bound on the failed writes and crashes explored
  Initial,          \* who made the entries that are there in the beginning
  Nobody, Torn

ASSUME FileAssumption ==
  /\ IsFiniteSet(Client)
  /\ Initial \notin Client /\ Nobody \notin Client \cup {Initial}
  /\ MaxTime \in Nat /\ MaxFailures \in Nat

VARIABLES
  collection,  \* which of the files this is
  server,      \* the clients that are requests to the server
  file,        \* its entries, or Torn: JSON that does not parse
  version,     \* its modification time, where somebody looks at it
  span,        \* what each client is doing to it
  latest,      \* history: who made the last edit of each entry that was saved
  raced,       \* history: an image was saved that was made before another save
  failures,    \* failed writes and crashes so far
  now          \* the clock

fileVars ==
  <<collection, server, file, version, span, latest, raced, failures, now>>

Plain == {"schedules", "watches", "exports", "vault", "keys", "tokens", "states"}
Atomic == {"templates", "profiles", "scripts", "sessions"}
Collections == Plain \cup Atomic

\* These delete an entry that is not there without complaint.
Lenient == {"schedules", "vault", "tokens", "states"}

Times == 0 .. MaxTime + 1
NoEntry == [by |-> Nobody, due |-> 0]
Entry == [by : Client \cup {Initial}, due : Times] \cup {NoEntry}
Image == [Key -> Entry]
ASSUME TornAssumption == Torn \notin Image
Has(image, k) == image[k] # NoEntry

NoSpan ==
  [at |-> "idle", op |-> "none", key |-> Nobody, entry |-> NoEntry,
   image |-> Torn, stale |-> FALSE]
Over == [NoSpan EXCEPT !.at = "done"]

Spans ==
  [at : {"idle", "got", "loaded", "writing", "saved", "done"},
   op : {"none", "add", "put", "upsert", "delete", "touch", "import", "all"},
   key : Key \cup {Nobody}, entry : Entry, image : Image \cup {Torn}, stale : BOOLEAN]

FileTypeOK ==
  /\ collection \in Collections /\ server \subseteq Client
  /\ file \in Image \cup {Torn}
  /\ span \in [Client -> Spans]
  /\ version \in 0 .. Cardinality(Client)
  /\ latest \in [Key -> Client \cup {Initial, Nobody}]
  /\ raced \in BOOLEAN
  /\ failures \in 0 .. MaxFailures
  /\ now \in 0 .. MaxTime

\* LoadAll of a file that is missing is empty: a file without entries.
FileInit ==
  /\ collection \in Collections /\ server \in SUBSET Client
  /\ file \in [Key -> {NoEntry, [by |-> Initial, due |-> 0]}]
  /\ span = [c \in Client |-> NoSpan]
  /\ latest = [k \in Key |-> file[k].by]
  /\ version = 0 /\ raced = FALSE /\ failures = 0 /\ now = 0

Failure == failures < MaxFailures /\ failures' = failures + 1

\* The server tells its export trigger what it changed, after the save.
Tells(c) == collection = "exports" /\ c \in server

\* The client has read the file and is not done with it.
Open(c) ==
  span[c].at \in {"got", "loaded", "writing"} \/ (span[c].at = "saved" /\ Tells(c))

-----------------------------------------------------------------------------
(* Load                                                                    *)

\* What the client finds in the file lets it go on.  An entry that is added
\* gets an identifier of its own.
Accepted(op, k) ==
  CASE op = "add" -> ~Has(file, k) /\ \A d \in Client : span[d].key # k
    [] op = "upsert" -> TRUE
    [] op = "delete" -> Has(file, k) \/ collection \in Lenient
    [] OTHER -> Has(file, k)

EditedAlone(op, k, entry) ==
  [j \in Key |-> IF j = k /\ op # "delete" THEN entry ELSE NoEntry]

Edited(op, k, entry) ==
  [file EXCEPT ![k] = IF op = "delete" THEN NoEntry ELSE entry]

Load(c, at, op, k, entry) ==
  /\ span[c].at = at /\ file # Torn /\ Accepted(op, k)
  /\ span' = [span EXCEPT ![c] =
       [at |-> "loaded", op |-> op, key |-> k, entry |-> NoEntry,
        image |-> Edited(op, k, entry), stale |-> at = "got" /\ span[c].stale]]
  /\ UNCHANGED <<collection, server, file, version, latest, raced, failures, now>>

\* The request is invalid, the file does not parse, or the entry is missing or
\* there already: the client is told so and nothing changes.
Refuse(c, at) ==
  /\ span[c].at = at
  /\ span' = [span EXCEPT ![c] = Over]
  /\ UNCHANGED <<collection, server, file, version, latest, raced, failures, now>>

\* A request that looks at the entry first loads the file a second time to
\* change it: an update puts back what it read, with its own edits in it.
Look(c, op, k, entry) ==
  /\ span[c].at = "idle" /\ file # Torn
  /\ span' = [span EXCEPT ![c] =
       [NoSpan EXCEPT !.at = "got", !.op = op, !.key = k, !.entry = entry]]
  /\ UNCHANGED <<collection, server, file, version, latest, raced, failures, now>>

GoOn(c) == Load(c, "got", span[c].op, span[c].key, span[c].entry) \/ Refuse(c, "got")

\* The whole file is saved from a copy in memory, which may be an old one.
Behind(copy) == file = Torn \/ \E k \in Key : copy[k].by # file[k].by

LoadCopy(c, op, image) ==
  /\ span[c].at = "idle"
  /\ span' = [span EXCEPT ![c] =
       [NoSpan EXCEPT !.at = "loaded", !.op = op, !.image = image,
                      !.stale = op = "all" /\ Behind(image)]]
  /\ UNCHANGED <<collection, server, file, version, latest, raced, failures, now>>

-----------------------------------------------------------------------------
(* Save                                                                    *)

Truncate(c) ==
  /\ collection \in Plain /\ span[c].at = "loaded"
  /\ file' = Torn
  /\ span' = [span EXCEPT ![c].at = "writing"]
  /\ UNCHANGED <<collection, server, version, latest, raced, failures, now>>

\* Somebody else wrote after the file was emptied: what they wrote beyond the
\* length of the new text stays behind it.
Outcomes(c) == {span[c].image} \cup (IF file = Torn THEN {} ELSE {Torn})

\* The edits that a saved image brings.  The check time of a watch is none,
\* and neither are the next runs of the schedules.
Editors(c) ==
  CASE span[c].op \in {"touch", "all"} -> latest
    [] span[c].op = "import" -> [k \in Key |-> span[c].image[k].by]
    [] OTHER -> [latest EXCEPT ![span[c].key] = span[c].image[span[c].key].by]

Saved(c) ==
  /\ span' = [d \in Client |->
       IF d = c THEN [span[c] EXCEPT !.at = "saved"]
       ELSE [span[d] EXCEPT !.stale = @ \/ Open(d)]]
  /\ latest' = Editors(c)
  /\ version' = IF collection = "profiles" THEN version + 1 ELSE version
  /\ raced' = (raced \/ span[c].stale)
  /\ UNCHANGED <<collection, server, failures, now>>

Write(c) ==
  /\ span[c].at = "writing"
  /\ file' \in Outcomes(c)
  /\ Saved(c)

\* WriteFileAtomic: the text goes to a file of its own, then the name does.
Replace(c) ==
  /\ collection \in Atomic /\ span[c].at = "loaded"
  /\ file' = span[c].image
  /\ Saved(c)

\* The disk is full, or the process dies: before the file was touched or
\* after it was emptied.
SaveFails(c) ==
  /\ span[c].at \in {"loaded", "writing"} /\ Failure
  /\ span' = [span EXCEPT ![c] = Over]
  /\ UNCHANGED <<collection, server, file, version, latest, raced, now>>

Finish(c) ==
  /\ span[c].at = "saved" /\ ~Tells(c)
  /\ span' = [span EXCEPT ![c] = Over]
  /\ UNCHANGED <<collection, server, file, version, latest, raced, failures, now>>

SaveStep(c) == Truncate(c) \/ Write(c) \/ Replace(c) \/ SaveFails(c)

-----------------------------------------------------------------------------
(* Properties                                                              *)

\* An edit that was saved stays until the next edit of the same entry, unless
\* an image was saved that was made before the edit: somebody loaded, and
\* saved after another save (no store takes a lock over the two).
EditsKept ==
  (file # Torn /\ ~raced) => \A k \in Key : file[k].by = latest[k]

\* A file that does not parse is being written, or a writer died or met
\* another one; and the files that are renamed into place always parse.
FileReadable ==
  file = Torn =>
    /\ collection \notin Atomic
    /\ (\E c \in Client : span[c].at = "writing") \/ failures > 0 \/ raced

FilesSound == EditsKept /\ FileReadable
=============================================================================
