------------------------- MODULE CrawlOrchestrator -------------------------
(***************************************************************************)
(* One call of crawl.Run: the caller's goroutine enqueues the seeds, starts *)
(* the workers and collects the results; the workers process pages and     *)
(* enqueue their links; a closer waits for the wait group and then closes  *)
(* both channels.  The context may end from outside at any time.           *)
(*                                                                         *)
(* Steps end where another goroutine can come in between: at atomics,      *)
(* mutexes, channels and the wait group.                                   *)
(***************************************************************************)
EXTENDS Integers, Sequences, FiniteSets

CONSTANTS
  Page,        \* normalized URLs of the host
  Worker,      \* the Concurrency goroutines
  Main,        \* the goroutine of the caller
  None,        \* no task
  Seeds,       \* URLs of the sitemap, then the root unless SitemapOnly
  Links,       \* Links[p]: the links of page p that lead to this host
  Blocked,     \* pages that robots.txt or the URL patterns keep out
  MaxPages, MaxDepth,
  CanCancel    \* whether the caller's context may end

ASSUME ConstantsAssumption ==
  /\ IsFiniteSet(Worker) /\ Main \notin Worker
  /\ Seeds \in Seq(Page) /\ Links \in [Page -> Seq(Page)]
  /\ Blocked \subseteq Page
  /\ MaxPages \in Nat \ {0} /\ MaxDepth \in Nat \ {0}
  /\ CanCancel \in BOOLEAN

Actor == Worker \cup {Main}
Task == [page : Page, depth : 0 .. MaxDepth]

VARIABLES
  tasks,      \* the channel tasks, capacity MaxPages
  results,    \* the pages in the channel results, capacity MaxPages
  collected,  \* the pages Run returns
  visited,    \* the map visited
  processed,  \* the atomic counter of pages counted
  wg,         \* the counter of the wait group
  pc,         \* where each goroutine is
  held,       \* the task a worker is processing
  todo,       \* the URLs an actor has yet to enqueue
  ctxDone,    \* Run's context is done
  stopped,    \* history: the caller's context ended
  closer,     \* where the goroutine is that waits for the wait group
  lost,       \* history: pages that failed, were over the limit, or found
              \* the channel full
  early       \* history: the wait group came to zero while a goroutine was
              \* between sending a task and adding it to the group

chans == <<tasks, results, collected>>
shared == <<visited, processed, wg>>
actors == <<pc, held, todo>>
context == <<ctxDone, stopped>>
history == <<lost, early>>
vars == <<chans, shared, actors, context, closer, history>>

\* The steps between receiving a task and delivering its page, and those that
\* enqueue URLs.
Delivering == {"take", "fetch", "count", "deliver"}
Enqueuing == {"link", "visit", "send", "add"}
Busy == {w \in Worker : pc[w] \in Delivering \cup Enqueuing}
Adding == {a \in Actor : pc[a] = "add"}
TasksClosed == closer \in {"results", "cancel", "end"}
ResultsClosed == closer \in {"cancel", "end"}

panicked == closer = "dead"

PagesTypeOK ==
  /\ results \subseteq Page /\ collected \subseteq Page
  /\ visited \subseteq Page /\ lost \subseteq Page

TasksTypeOK == tasks \in Seq(Task) /\ Len(tasks) <= MaxPages

\* A busy worker has a task, has URLs to enqueue only above the depth limit, and
\* a goroutine has a URL wherever its next step reads one.
ActorsTypeOK ==
  /\ pc \in [Actor -> {"new", "idle", "exited", "collect", "returned", "dead"}
                        \cup Delivering \cup Enqueuing]
  /\ pc[Main] \in Enqueuing \cup {"collect", "returned", "dead"}
  /\ held \in [Worker -> Task \cup {None}]
  /\ \A w \in Busy : held[w] \in Task
  /\ todo \in [Actor -> Seq(Page)]
  /\ \A a \in Actor : pc[a] \in {"visit", "send", "add"} => todo[a] # <<>>
  /\ \A w \in Busy : todo[w] # <<>> => held[w].depth < MaxDepth

RestTypeOK ==
  /\ ctxDone \in BOOLEAN /\ stopped \in BOOLEAN /\ early \in BOOLEAN
  /\ closer \in {"none", "start", "blocked", "woken", "tasks", "results", "cancel", "end",
                "dead"}

TypeOK ==
  /\ PagesTypeOK /\ TasksTypeOK /\ ActorsTypeOK /\ RestTypeOK
  /\ processed \in Nat /\ wg \in Nat

Init ==
  /\ tasks = <<>> /\ results = {} /\ collected = {}
  /\ visited = {} /\ processed = 0 /\ wg = 0
  /\ pc = [a \in Actor |-> IF a = Main THEN "link" ELSE "new"]
  /\ held = [w \in Worker |-> None]
  /\ todo = [a \in Actor |-> IF a = Main THEN Seeds ELSE <<>>]
  /\ ctxDone = FALSE /\ stopped = FALSE
  /\ lost = {} /\ early = FALSE
  /\ closer = "none"

Goto(a, label) == pc' = [pc EXCEPT ![a] = label]

\* A send on a closed channel, or a wait group that is in use again when its
\* waiter wakes, ends the process with all its goroutines.
Panic ==
  /\ pc' = [a \in Actor |-> "dead"] /\ closer' = "dead"
  /\ UNCHANGED <<chans, shared, held, todo, context, history>>

-----------------------------------------------------------------------------
(* enqueue                                                                 *)
(*                                                                         *)
(* Some operators are preceded by a faulty variant of themselves that no   *)
(* action uses: with the variant in its place, a property must fail.       *)

\* The enqueuing of one URL is over.
NextURL(a) ==
  /\ todo' = [todo EXCEPT ![a] = Tail(@)]
  /\ Goto(a, "link")

LimitReached == processed >= MaxPages

\* The limit, robots.txt and the patterns.
Filter(a) ==
  /\ pc[a] = "link" /\ todo[a] # <<>>
  /\ IF LimitReached \/ Head(todo[a]) \in Blocked
     THEN NextURL(a)
     ELSE Goto(a, "visit") /\ UNCHANGED todo
  /\ UNCHANGED <<chans, shared, held, context, closer, history>>

MarkForgotten(p) == UNCHANGED visited
Mark(p) == visited' = visited \cup {p}

Visit(a) ==
  /\ pc[a] = "visit"
  /\ IF Head(todo[a]) \in visited
     THEN NextURL(a) /\ UNCHANGED visited
     ELSE Mark(Head(todo[a])) /\ Goto(a, "send") /\ UNCHANGED todo
  /\ UNCHANGED <<chans, processed, wg, held, context, closer, history>>

TaskFor(a) ==
  [page |-> Head(todo[a]), depth |-> IF a = Main THEN 0 ELSE held[a].depth + 1]

\* The select: any of its cases that is ready.
SendTask(a) ==
  /\ ~TasksClosed /\ Len(tasks) < MaxPages
  /\ tasks' = Append(tasks, TaskFor(a))
  /\ Goto(a, "add")
  /\ UNCHANGED <<todo, lost>>
DropTask(a) ==
  /\ ~TasksClosed /\ Len(tasks) = MaxPages /\ ~ctxDone
  /\ lost' = lost \cup {Head(todo[a])}
  /\ NextURL(a)
  /\ UNCHANGED <<tasks>>
GiveUpSending(a) ==
  /\ ctxDone
  /\ NextURL(a)
  /\ UNCHANGED <<tasks, lost>>

Send(a) ==
  /\ pc[a] = "send"
  /\ \/ /\ SendTask(a) \/ DropTask(a) \/ GiveUpSending(a)
        /\ UNCHANGED <<results, collected, shared, held, context, closer, early>>
     \/ TasksClosed /\ Panic

Add(a) ==
  /\ pc[a] = "add"
  /\ wg' = wg + 1
  /\ NextURL(a)
  /\ UNCHANGED <<chans, visited, processed, held, context, closer, history>>

Enqueue(a) == Filter(a) \/ Visit(a) \/ Send(a) \/ Add(a)

\* The seeds are enqueued: the caller starts the workers and the closer.
Start ==
  /\ pc[Main] = "link" /\ todo[Main] = <<>>
  /\ pc' = [a \in Actor |-> IF a = Main THEN "collect" ELSE "idle"]
  /\ closer' = "start"
  /\ UNCHANGED <<chans, shared, held, todo, context, history>>

-----------------------------------------------------------------------------
(* The workers *)

\* wg.Done(): whoever brings the counter to zero wakes the closer.
LeaveGroup ==
  /\ wg' = wg - 1
  /\ closer' = IF wg = 1 /\ closer = "blocked" THEN "woken" ELSE closer
  /\ early' = (early \/ (wg = 1 /\ Adding # {}))

\* The worker is done with its task.
FinishSilently(w) ==
  /\ Goto(w, "idle")
  /\ held' = [held EXCEPT ![w] = None]
  /\ UNCHANGED <<wg, closer, early>>
Finish(w) ==
  /\ LeaveGroup
  /\ Goto(w, "idle")
  /\ held' = [held EXCEPT ![w] = None]

\* Nothing comes of the page.
LoseSilently(w) == lost' = lost \cup {held[w].page} /\ FinishSilently(w)
Lose(w) == lost' = lost \cup {held[w].page} /\ Finish(w)
Proceed(w, label) == Goto(w, label) /\ UNCHANGED <<held, wg, closer, history>>

\* The select of the loop: any of its cases that is ready.
Receive(w) ==
  /\ pc[w] = "idle"
  /\ \/ /\ tasks # <<>>
        /\ held' = [held EXCEPT ![w] = Head(tasks)]
        /\ tasks' = Tail(tasks)
        /\ Goto(w, "take")
     \/ /\ ctxDone \/ (TasksClosed /\ tasks = <<>>)
        /\ Goto(w, "exited")
        /\ UNCHANGED <<tasks, held>>
  /\ UNCHANGED <<results, collected, shared, todo, context, closer, history>>

Take(w) ==
  /\ pc[w] = "take"
  /\ IF LimitReached THEN Lose(w) ELSE Proceed(w, "fetch")
  /\ UNCHANGED <<chans, visited, processed, todo, context>>

\* processPage: the page, or nothing, because a step failed or it is unchanged.
Fetch(w) ==
  /\ pc[w] = "fetch"
  /\ Proceed(w, "count") \/ Lose(w)
  /\ UNCHANGED <<chans, visited, processed, todo, context>>

WithinLimitOffByOne == processed <= MaxPages
WithinLimit == processed + 1 <= MaxPages

Count(w) ==
  /\ pc[w] = "count"
  /\ processed' = processed + 1
  /\ IF WithinLimit THEN Proceed(w, "deliver") ELSE Lose(w)
  /\ UNCHANGED <<chans, visited, todo, context>>

LinksTooDeep(t) == IF t.depth <= MaxDepth THEN Links[t.page] ELSE <<>>
LinksToFollow(t) == IF t.depth < MaxDepth THEN Links[t.page] ELSE <<>>

Deliver(w) ==
  /\ pc[w] = "deliver"
  /\ \/ /\ ~ResultsClosed /\ Cardinality(results) < MaxPages
        /\ results' = results \cup {held[w].page}
        /\ todo' = [todo EXCEPT ![w] = LinksToFollow(held[w])]
        /\ Goto(w, "link")
        /\ UNCHANGED <<tasks, collected, shared, held, context, closer, history>>
     \/ ResultsClosed /\ Panic

FinishPage(w) ==
  /\ pc[w] = "link" /\ todo[w] = <<>>
  /\ Finish(w)
  /\ UNCHANGED <<chans, visited, processed, todo, context, lost>>

Work(w) ==
  \/ Receive(w) \/ Take(w) \/ Fetch(w) \/ Count(w) \/ Deliver(w)
  \/ Enqueue(w) \/ FinishPage(w)

-----------------------------------------------------------------------------
(* The closer and the caller *)

CloserGoto(from, to) ==
  /\ closer = from /\ closer' = to
  /\ UNCHANGED <<chans, shared, actors, history>>

\* wg.Wait(), which panics when the group is in use again as its waiter wakes.
WaitForNobody == CloserGoto("start", "tasks") /\ UNCHANGED context
Wait ==
  /\ CloserGoto("start", IF wg = 0 THEN "tasks" ELSE "blocked")
  /\ UNCHANGED context
Wake ==
  \/ wg = 0 /\ CloserGoto("woken", "tasks") /\ UNCHANGED context
  \/ wg # 0 /\ closer = "woken" /\ Panic

CloseTasks == CloserGoto("tasks", "results") /\ UNCHANGED context
CloseResults == CloserGoto("results", "cancel") /\ UNCHANGED context
CancelOwn == CloserGoto("cancel", "end") /\ ctxDone' = TRUE /\ UNCHANGED stopped

Close == Wait \/ Wake \/ CloseTasks \/ CloseResults \/ CancelOwn

EnoughOffByOne == Cardinality(collected) + 1 >= MaxPages
Enough == Cardinality(collected) >= MaxPages

\* The loop over results, until the channel is closed and empty.
Collect ==
  /\ pc[Main] = "collect"
  /\ \E p \in results :
       /\ results' = results \ {p}
       /\ IF Enough
          THEN Goto(Main, "returned") /\ ctxDone' = TRUE /\ UNCHANGED collected
          ELSE collected' = collected \cup {p} /\ UNCHANGED <<pc, ctxDone>>
  /\ UNCHANGED <<tasks, shared, held, todo, stopped, closer, history>>

\* Run returns; its deferred cancel ends the context.
Return ==
  /\ pc[Main] = "collect" /\ results = {} /\ ResultsClosed
  /\ Goto(Main, "returned")
  /\ ctxDone' = TRUE
  /\ UNCHANGED <<chans, shared, held, todo, stopped, closer, history>>

\* The caller's context ends: the job is canceled or the server stops.
ContextEnds ==
  /\ CanCancel /\ ~stopped /\ pc[Main] \notin {"returned", "dead"}
  /\ stopped' = TRUE /\ ctxDone' = TRUE
  /\ UNCHANGED <<chans, shared, actors, closer, history>>

Call == Enqueue(Main) \/ Start \/ Collect \/ Return

Next == Call \/ (\E w \in Worker : Work(w)) \/ Close \/ ContextEnds

Spec == Init /\ [][Next]_vars

\* Every goroutine that can run does; fetches come back because they have a
\* timeout.  Nothing forces the caller's context to end.
Fairness ==
  /\ WF_vars(Call) /\ WF_vars(Close)
  /\ \A w \in Worker : WF_vars(Work(w))
FairSpec == Spec /\ Fairness

-----------------------------------------------------------------------------
(* Properties *)

\* The wait group counts the tasks queued and in progress, short of those that
\* were sent and not yet added: it never goes below zero, and comes to zero with
\* work left only while every busy worker is at its wg.Add.
GroupExact ==
  panicked \/ wg + Cardinality(Adding) = Len(tasks) + Cardinality(Busy)

\* At most MaxPages results are ever delivered, so a worker that delivers finds
\* room in the channel: it never blocks, even when nobody collects any more.
PageLimit ==
  Cardinality(collected) + Cardinality(results)
    + Cardinality({w \in Worker : pc[w] = "deliver"}) <= MaxPages

\* No page is fetched twice in one crawl: it is in one place at a time, and what
\* was delivered is not queued again.
Places(p) ==
  {<<"task", i>> : i \in {k \in DOMAIN tasks : tasks[k].page = p}}
    \cup {<<"worker", w>> : w \in {v \in Worker : pc[v] \in Delivering /\ held[v].page = p}}
    \cup {<<"sender", a>> : a \in {b \in Actor : pc[b] = "send" /\ Head(todo[b]) = p}}
    \cup (IF p \in results \cup collected THEN {<<"delivered">>} ELSE {})
OnceEach == \A p \in Page : Cardinality(Places(p)) <= 1

\* The one thing that can kill the process is a task that another worker has
\* finished before its sender adds it to the group.
DiesOnlyEarly == panicked => early

\* When Run returns of its own accord, every page it has marked as visited is in
\* the result, unless its fetch failed, the limit was reached or the channel was
\* full at the time.
Complete ==
  pc[Main] = "returned" /\ ~early /\ ~stopped => visited \subseteq collected \cup lost

\* Run returns, unless it is canceled.
Returns == []~stopped => <>(pc[Main] = "returned" \/ panicked)

\* Run returns when it is canceled: "crawl/research execution that can be polled
\* or canceled later" (docs/mcp.md).
CancelReturns == stopped ~> (pc[Main] = "returned" \/ panicked)
=============================================================================
