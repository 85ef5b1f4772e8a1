--------------------------- MODULE WatchScheduler ---------------------------
(***************************************************************************)
(* Checks of watches: those that the scheduler starts for watches that are *)
(* due, and those that an operator asks for.  A check reads what is known  *)
(* of the URL, fetches the page, stores what it found if that is new,      *)
(* notes the time, and reports a change.  Nothing keeps a second check of  *)
(* the same watch, or of another one on the same URL, from running beside  *)
(* it.  (What it does to watches.json is in FrontEnds.)                    *)
(*                                                                         *)
(* Changed is preceded by a faulty variant that no action uses: with it in *)
(* place a property must fail.                                             *)
(***************************************************************************)
EXTENDS Naturals, FiniteSets

CONSTANTS
  Watch, Url,
  UrlOf,          \* the URL of each watch
  Checker,        \* goroutines and requests that may run a check
  MaxChanges,     \* bound on the changes of a page
  MaxLapses,      \* bound on the faults and deletions explored
  NoWatch, NoContent

ASSUME WatchAssumption ==
  /\ UrlOf \in [Watch -> Url] /\ NoWatch \notin Watch
  /\ MaxChanges \in Nat /\ MaxLapses \in Nat

VARIABLES
  watches,    \* the watches there are
  page,       \* how often each page has changed
  states,     \* the table of crawl states: the content last stored for a URL
  due,        \* the watches whose interval has passed since LastCheckedAt
  check,      \* what each checker is doing
  told,       \* history: changes reported, and first contents, which are not
  toldTwice,  \* history: a change was reported again
  beside,     \* history: two checks were between reading and storing one state
  lapses      \* history: the faults and deletions so far

watchVars ==
  <<watches, page, states, due, check, told, toldTwice, beside, lapses>>

\* What a watch sees of a page: its selector makes it another text.
Content == [view : Watch, changes : 0 .. MaxChanges]
ASSUME ContentAssumption == NoContent \notin Content
Sees(w) == [view |-> w, changes |-> page[UrlOf[w]]]
NoCheck == [at |-> "none", watch |-> NoWatch, prev |-> NoContent, got |-> NoContent]

Checks ==
  [at : {"none", "read", "fetch", "store", "touch", "report"}, watch : Watch \cup {NoWatch},
   prev : Content \cup {NoContent}, got : Content \cup {NoContent}]

WatchTypeOK ==
  /\ watches \subseteq Watch /\ due \subseteq Watch
  /\ page \in [Url -> 0 .. MaxChanges]
  /\ states \in [Url -> Content \cup {NoContent}]
  /\ check \in [Checker -> Checks]
  /\ told \subseteq Content
  /\ toldTwice \in BOOLEAN /\ beside \in BOOLEAN
  /\ lapses \subseteq {"fetch", "store", "crash", "forget", "delete"}

WatchInit(before) ==
  /\ watches \in SUBSET Watch \ {{}} /\ due = watches
  /\ page = [u \in Url |-> 0]
  /\ states = [u \in Url |-> NoContent]
  /\ check = [c \in Checker |-> NoCheck]
  /\ told = {} /\ toldTwice = FALSE /\ beside = FALSE /\ lapses = before

Lapse(kind) ==
  /\ kind \notin lapses /\ Cardinality(lapses) < MaxLapses
  /\ lapses' = lapses \cup {kind}

\* The check goes on to its next step.
Goes(c, at) == check' = [check EXCEPT ![c].at = at]
Ends(c) == check' = [check EXCEPT ![c] = NoCheck]

-----------------------------------------------------------------------------
(* Checks begin                                                            *)

Begin(c, w) ==
  /\ check[c].at = "none" /\ w \in watches
  /\ check' = [check EXCEPT ![c] = [NoCheck EXCEPT !.at = "read", !.watch = w]]
  /\ UNCHANGED <<watches, page, states, due, told, toldTwice, beside, lapses>>

\* One goroutine for each watch that is due.  Run does not wait for them: a
\* watch stays due while it is checked, and the next tick starts another check.
\* The semaphore is one of a single tick.
RunChecks(c, w) == w \in due /\ Begin(c, w)
CheckAll(c, w) == w \in due /\ Begin(c, w)

\* An operator's check asks for nothing but the watch.
HandleWatchCheck(c, w) == Begin(c, w)
RunWatchCheckOnce(c, w) == Begin(c, w)
WatchCheckTool(c, w) == Begin(c, w)

-----------------------------------------------------------------------------
(* One check                                                               *)

\* GetCrawlState.  The columns of the visual hash are neither read nor written:
\* no check ever finds a visual change.
Read(c) ==
  LET u == UrlOf[check[c].watch] IN
  /\ check[c].at = "read"
  /\ check' = [check EXCEPT ![c].at = "fetch", ![c].prev = states[u]]
  /\ beside' = (beside \/ \E d \in Checker \ {c} :
       /\ check[d].at \in {"fetch", "store"}
       /\ UrlOf[check[d].watch] = u)
  /\ UNCHANGED <<watches, page, states, due, told, toldTwice, lapses>>

\* The page is compared with what was read before it was fetched.
Fetch(c) ==
  LET text == Sees(check[c].watch) IN
  /\ check[c].at = "fetch"
  /\ check' = [check EXCEPT ![c] =
       IF text = @.prev THEN [@ EXCEPT !.at = "touch", !.prev = NoContent]
       ELSE [@ EXCEPT !.at = "store", !.got = text]]
  /\ UNCHANGED <<watches, page, states, due, told, toldTwice, beside, lapses>>

FetchFails(c) ==
  /\ check[c].at = "fetch" /\ Lapse("fetch")
  /\ Goes(c, "touch")
  /\ UNCHANGED <<watches, page, states, due, told, toldTwice, beside>>

\* UpsertCrawlState.  An error is logged.
Store(c) ==
  /\ check[c].at = "store"
  /\ \/ /\ states' = [states EXCEPT ![UrlOf[check[c].watch]] = check[c].got]
        /\ UNCHANGED lapses
     \/ Lapse("store") /\ UNCHANGED states
  /\ Goes(c, "touch")
  /\ UNCHANGED <<watches, page, due, told, toldTwice, beside>>

ChangedOrNew(c) == check[c].got # NoContent
Changed(c) ==
  check[c].got # NoContent /\ check[c].prev \notin {NoContent, check[c].got}
Baseline(c) == check[c].got # NoContent /\ check[c].prev = NoContent

\* updateWatchCheckTime.  The first content of a page is not reported.
Touch(c) ==
  /\ check[c].at = "touch"
  /\ due' = due \ {check[c].watch}
  /\ IF Changed(c) THEN Goes(c, "report") ELSE Ends(c)
  /\ told' = IF Baseline(c) THEN told \cup {check[c].got} ELSE told
  /\ UNCHANGED <<watches, page, states, toldTwice, beside, lapses>>

\* triggerJobs and dispatchWebhook.
Report(c) ==
  /\ check[c].at = "report"
  /\ told' = told \cup {check[c].got}
  /\ toldTwice' = (toldTwice \/ check[c].got \in told)
  /\ Ends(c)
  /\ UNCHANGED <<watches, page, states, due, beside, lapses>>

CheckStep(c) ==
  Read(c) \/ Fetch(c) \/ FetchFails(c) \/ Store(c) \/ Touch(c) \/ Report(c)

-----------------------------------------------------------------------------
(* Around the checks                                                       *)

PageChanges(u) ==
  /\ page[u] < MaxChanges /\ page' = [page EXCEPT ![u] = @ + 1]
  /\ UNCHANGED <<watches, states, due, check, told, toldTwice, beside, lapses>>

DueAgain(w) ==
  /\ w \in watches \ due /\ due' = due \cup {w}
  /\ UNCHANGED <<watches, page, states, check, told, toldTwice, beside, lapses>>

\* An operator, or retention, deletes what is known of a URL.
DeleteCrawlState(u) ==
  /\ states[u] # NoContent /\ Lapse("forget")
  /\ states' = [states EXCEPT ![u] = NoContent]
  /\ UNCHANGED <<watches, page, due, check, told, toldTwice, beside>>

\* A check that is under way goes on with its copy.
DeleteWatch(w) ==
  /\ w \in watches /\ Lapse("delete")
  /\ watches' = watches \ {w} /\ due' = due \ {w}
  /\ UNCHANGED <<page, states, check, told, toldTwice, beside>>

ServerDies ==
  /\ Lapse("crash") /\ check' = [c \in Checker |-> NoCheck]
  /\ UNCHANGED <<watches, page, states, due, told, toldTwice, beside>>

WatchNext ==
  \/ \E c \in Checker, w \in Watch :
       RunChecks(c, w) \/ CheckAll(c, w) \/ HandleWatchCheck(c, w)
         \/ RunWatchCheckOnce(c, w) \/ WatchCheckTool(c, w)
  \/ \E c \in Checker : CheckStep(c)
  \/ \E u \in Url : PageChanges(u) \/ DeleteCrawlState(u)
  \/ \E w \in Watch : DueAgain(w) \/ DeleteWatch(w)
  \/ ServerDies

-----------------------------------------------------------------------------
(* Properties                                                              *)

\* Two watches on one URL keep overwriting each other's state.
Shared == \E v, w \in Watch : v # w /\ UrlOf[v] = UrlOf[w] /\ {v, w} \subseteq watches
Undisturbed == ~beside /\ ~Shared /\ lapses \cap {"store", "crash", "delete"} = {}

\* A change is reported once: not again, although checks are repeated, started
\* by hand or fail to fetch; and not never: what is stored for a URL has been
\* reported, or is the first content, or is about to be.  Except when two checks
\* of one URL read and store at the same time, and when a store or the server
\* fails half-way.
ReportedOnce ==
  Undisturbed =>
    /\ ~toldTwice \/ "forget" \in lapses
    /\ \A u \in Url : states[u] # NoContent =>
         \/ states[u] \in told
         \/ \E c \in Checker : check[c].got = states[u]

\* What is stored of a watched page is what the page says, once it has stopped
\* changing.
WatchedCurrent ==
  \A w \in watches : Shared \/ states[UrlOf[w]] = Sees(w)
=============================================================================
