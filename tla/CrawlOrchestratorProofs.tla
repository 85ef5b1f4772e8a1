---------------------- MODULE CrawlOrchestratorProofs ----------------------
(***************************************************************************)
(* Theorems about CrawlOrchestrator, for every site, limit, depth and      *)
(* number of workers.                                                      *)
(*                                                                         *)
(* The counter of the wait group is proved to be what GroupExact says, and *)
(* from that follows that wg.Done never takes it below zero: a worker that *)
(* calls Done is busy and not adding, so fewer are adding than are busy.   *)
(*                                                                         *)
(* Then, each on the ones before: the page limit, the panics, every page in *)
(* one place, and nothing forgotten when Run returns.                      *)
(***************************************************************************)
EXTENDS CrawlOrchestrator, TLAPS, FiniteSetTheorems, SequenceTheorems

\* The caller enqueues before there are workers, and a worker that is not
\* enqueuing has nothing left to enqueue.
Phases ==
  /\ pc[Main] \in Enqueuing => \A w \in Worker : pc[w] = "new"
  /\ \A w \in Worker : pc[w] \notin Enqueuing \cup {"dead"} => todo[w] = <<>>

\* Nobody survives a panic.
Dead == panicked => \A a \in Actor : pc[a] = "dead"

\* What GroupExact needs to be inductive.
Inv == TypeOK /\ Phases /\ Dead /\ GroupExact

-----------------------------------------------------------------------------
(* The actors *)

LEMMA QueueOfURLs ==
  ASSUME NEW s \in Seq(Page), s # <<>>
  PROVE  Head(s) \in Page /\ Tail(s) \in Seq(Page)
  BY HeadTailProperties

\* Enqueuing moves one actor among the four steps and may drop its first URL.
EnqueueMove(a) ==
  /\ pc[a] \in Enqueuing /\ todo[a] # <<>>
  /\ UNCHANGED held
  /\ \/ NextURL(a)
     \/ \E label \in {"visit", "send", "add"} : Goto(a, label) /\ UNCHANGED todo
     \/ Panic

LEMMA EnqueueMoves ==
  ASSUME TypeOK, NEW a \in Actor, Enqueue(a)
  PROVE  EnqueueMove(a)
  <1>1. CASE Filter(a)
    BY <1>1 DEF Filter, EnqueueMove, Enqueuing, NextURL, Goto
  <1>2. CASE Visit(a)
    BY <1>2 DEF Visit, EnqueueMove, Enqueuing, TypeOK, ActorsTypeOK, NextURL, Goto
  <1>3. CASE Send(a)
    BY <1>3 DEF Send, SendTask, DropTask, GiveUpSending, Panic, EnqueueMove, Enqueuing,
                TypeOK, ActorsTypeOK, NextURL, Goto
  <1>4. CASE Add(a)
    BY <1>4 DEF Add, EnqueueMove, Enqueuing, TypeOK, ActorsTypeOK, NextURL, Goto
  <1> QED BY <1>1, <1>2, <1>3, <1>4 DEF Enqueue

LEMMA PanicKeepsActors ==
  ASSUME TypeOK, Phases, Panic
  PROVE  ActorsTypeOK' /\ Phases'
  BY DEF Panic, TypeOK, ActorsTypeOK, Phases, Busy, Delivering, Enqueuing, Actor

LEMMA EnqueueKeepsActors ==
  ASSUME TypeOK, Phases, NEW a \in Actor, Enqueue(a)
  PROVE  ActorsTypeOK' /\ Phases'
  <1> USE ConstantsAssumption DEF Actor
  <1>0. EnqueueMove(a)
    BY EnqueueMoves
  <1>1. CASE NextURL(a)
    <2>1. Tail(todo[a]) \in Seq(Page)
      BY <1>0, QueueOfURLs DEF EnqueueMove, TypeOK, ActorsTypeOK
    <2>2. /\ pc' = [pc EXCEPT ![a] = "link"] /\ UNCHANGED held
          /\ todo' = [todo EXCEPT ![a] = Tail(todo[a])]
          /\ pc[a] \in Enqueuing /\ todo[a] # <<>>
      BY <1>0, <1>1 DEF EnqueueMove, NextURL, Goto
    <2> QED BY <2>1, <2>2 DEF TypeOK, ActorsTypeOK, Phases, Busy, Delivering, Enqueuing
  <1>2. CASE \E label \in {"visit", "send", "add"} : Goto(a, label) /\ UNCHANGED todo
    BY <1>0, <1>2 DEF EnqueueMove, Goto, TypeOK, ActorsTypeOK, Phases, Busy, Delivering,
                      Enqueuing
  <1>3. CASE Panic
    BY <1>3, PanicKeepsActors
  <1> QED BY <1>0, <1>1, <1>2, <1>3 DEF EnqueueMove

\* A worker that is not enqueuing takes a task, goes on, delivers, or is done.
WorkerMove(w) ==
  \/ /\ pc[w] = "idle" /\ tasks # <<>>
     /\ held' = [held EXCEPT ![w] = Head(tasks)]
     /\ Goto(w, "take") /\ UNCHANGED todo
  \/ pc[w] = "idle" /\ Goto(w, "exited") /\ UNCHANGED <<held, todo>>
  \/ /\ pc[w] \in Delivering
     /\ \E label \in Delivering : Goto(w, label)
     /\ UNCHANGED <<held, todo>>
  \/ /\ pc[w] \in Delivering \/ (pc[w] = "link" /\ todo[w] = <<>>)
     /\ Goto(w, "idle") /\ UNCHANGED todo
     /\ held' = [held EXCEPT ![w] = None]
  \/ /\ pc[w] = "deliver"
     /\ todo' = [todo EXCEPT ![w] = LinksToFollow(held[w])]
     /\ Goto(w, "link") /\ UNCHANGED held

LEMMA LinksToFollowType ==
  ASSUME NEW t \in Task
  PROVE  /\ LinksToFollow(t) \in Seq(Page)
         /\ LinksToFollow(t) # <<>> => t.depth < MaxDepth
  BY ConstantsAssumption DEF LinksToFollow, Task

LEMMA WorkerMoveKeepsActors ==
  ASSUME TypeOK, Phases, NEW w \in Worker, WorkerMove(w)
  PROVE  ActorsTypeOK' /\ Phases'
  <1> USE ConstantsAssumption DEF Actor, Goto
  <1>0. pc[Main] \notin Enqueuing
    BY DEF Phases, WorkerMove, Delivering, Enqueuing
  <1>1. CASE /\ pc[w] = "idle" /\ tasks # <<>>
             /\ held' = [held EXCEPT ![w] = Head(tasks)]
             /\ Goto(w, "take") /\ UNCHANGED todo
    <2>1. Head(tasks) \in Task
      BY <1>1, HeadTailProperties DEF TypeOK, TasksTypeOK
    <2>2. todo[w] = <<>>
      BY <1>1 DEF Phases, Enqueuing
    <2> QED BY <1>0, <1>1, <2>1, <2>2 DEF TypeOK, ActorsTypeOK, Phases, Busy, Delivering, Enqueuing
  <1>2. CASE pc[w] = "idle" /\ Goto(w, "exited") /\ UNCHANGED <<held, todo>>
    BY <1>0, <1>2 DEF TypeOK, ActorsTypeOK, Phases, Busy, Delivering, Enqueuing
  <1>3. CASE /\ pc[w] \in Delivering
             /\ \E label \in Delivering : Goto(w, label)
             /\ UNCHANGED <<held, todo>>
    BY <1>0, <1>3 DEF TypeOK, ActorsTypeOK, Phases, Busy, Delivering, Enqueuing
  <1>4. CASE /\ pc[w] \in Delivering \/ (pc[w] = "link" /\ todo[w] = <<>>)
             /\ Goto(w, "idle") /\ UNCHANGED todo
             /\ held' = [held EXCEPT ![w] = None]
    BY <1>0, <1>4 DEF TypeOK, ActorsTypeOK, Phases, Busy, Delivering, Enqueuing
  <1>5. CASE /\ pc[w] = "deliver"
             /\ todo' = [todo EXCEPT ![w] = LinksToFollow(held[w])]
             /\ Goto(w, "link") /\ UNCHANGED held
    <2>1. /\ LinksToFollow(held[w]) \in Seq(Page)
          /\ LinksToFollow(held[w]) # <<>> => held[w].depth < MaxDepth
      BY <1>5, LinksToFollowType DEF TypeOK, ActorsTypeOK, Busy, Delivering
    <2> DEFINE links == LinksToFollow(held[w])
    <2>2. todo' = [todo EXCEPT ![w] = links]
      BY <1>5
    <2> HIDE DEF links
    <2>3. links \in Seq(Page) /\ (links # <<>> => held[w].depth < MaxDepth)
      BY <2>1 DEF links
    <2> QED BY <1>0, <1>5, <2>2, <2>3 DEF TypeOK, ActorsTypeOK, Phases, Busy, Delivering, Enqueuing
  <1> QED BY <1>1, <1>2, <1>3, <1>4, <1>5 DEF WorkerMove

LEMMA WorkMoves ==
  ASSUME TypeOK, NEW w \in Worker, Work(w)
  PROVE  Enqueue(w) \/ WorkerMove(w) \/ Panic
  <1> USE DEF Lose, Finish, Proceed, Goto, Delivering
  <1>1. CASE Receive(w)
    BY <1>1 DEF Receive, WorkerMove
  <1>2. CASE Take(w)
    BY <1>2 DEF Take, WorkerMove
  <1>3. CASE Fetch(w)
    BY <1>3 DEF Fetch, WorkerMove
  <1>4. CASE Count(w)
    BY <1>4 DEF Count, WorkerMove
  <1>5. CASE Deliver(w)
    BY <1>5 DEF Deliver, WorkerMove
  <1>6. CASE FinishPage(w)
    BY <1>6 DEF FinishPage, WorkerMove
  <1> QED BY <1>1, <1>2, <1>3, <1>4, <1>5, <1>6 DEF Work

\* The caller and the closer leave the workers alone, but for the start.
LEMMA StartKeepsActors ==
  ASSUME TypeOK, Phases, Start
  PROVE  ActorsTypeOK' /\ Phases'
  BY ConstantsAssumption
  DEF Start, TypeOK, ActorsTypeOK, Phases, Busy, Delivering, Enqueuing, Actor

LEMMA RestKeepsActors ==
  ASSUME TypeOK, Phases, Collect \/ Return \/ Close \/ ContextEnds
  PROVE  ActorsTypeOK' /\ Phases'
  <1>1. CASE Panic
    BY <1>1, PanicKeepsActors
  <1>2. CASE UNCHANGED actors
    BY <1>2 DEF actors, TypeOK, ActorsTypeOK, Phases, Busy
  <1>3. CASE pc[Main] = "collect" /\ Goto(Main, "returned") /\ UNCHANGED <<held, todo>>
    BY <1>3, ConstantsAssumption
    DEF Goto, TypeOK, ActorsTypeOK, Phases, Busy, Delivering, Enqueuing, Actor
  <1>4. CASE Close
    <2>1. Panic \/ UNCHANGED actors
      BY <1>4 DEF Close, Wait, Wake, CloseTasks, CloseResults, CancelOwn, CloserGoto, actors
    <2> QED BY <2>1, <1>1, <1>2
  <1>5. CASE Collect \/ Return \/ ContextEnds
    <2>1. \/ UNCHANGED actors
          \/ pc[Main] = "collect" /\ Goto(Main, "returned") /\ UNCHANGED <<held, todo>>
      BY <1>5 DEF Collect, Return, ContextEnds, actors
    <2> QED BY <2>1, <1>2, <1>3
  <1> QED BY <1>4, <1>5

LEMMA ActorsStep ==
  ASSUME TypeOK, Phases, [Next]_vars
  PROVE  ActorsTypeOK' /\ Phases'
  <1>1. CASE Call
    BY <1>1, EnqueueKeepsActors, StartKeepsActors, RestKeepsActors DEF Call, Actor
  <1>2. ASSUME NEW w \in Worker, Work(w) PROVE ActorsTypeOK' /\ Phases'
    BY <1>2, WorkMoves, EnqueueKeepsActors, WorkerMoveKeepsActors, PanicKeepsActors DEF Actor
  <1>3. CASE Close \/ ContextEnds
    BY <1>3, RestKeepsActors
  <1>4. CASE UNCHANGED vars
    BY <1>4 DEF vars, actors, TypeOK, ActorsTypeOK, Phases, Busy
  <1> QED BY <1>1, <1>2, <1>3, <1>4 DEF Next

-----------------------------------------------------------------------------
(* The wait group *)

LEMMA DeadStep ==
  ASSUME TypeOK, Dead, [Next]_vars
  PROVE  Dead'
  <1> USE ConstantsAssumption DEF Dead, panicked, Actor
  <1>1. CASE panicked
    <2>1. pc' = pc
      BY <1>1 DEF Next, Call, Enqueue, Filter, Visit, Send, Add, Start, Collect, Return, Work,
             Receive, Take, Fetch, Count, Deliver, FinishPage, Close, Wait, Wake, CloseTasks,
             CloseResults, CancelOwn, CloserGoto, ContextEnds, actors, vars
    <2> QED BY <1>1, <2>1
  <1>2. CASE ~panicked
    <2>1. CASE Panic
      BY <2>1 DEF Panic, TypeOK, ActorsTypeOK
    <2>2. CASE closer' # "dead"
      BY <2>2
    <2>3. Panic \/ closer' # "dead"
      <3>1. ASSUME NEW a \in Actor, Enqueue(a) PROVE Panic \/ closer' # "dead"
        BY <1>2, <3>1 DEF Enqueue, Filter, Visit, Send, Add
      <3>2. ASSUME NEW w \in Worker, Work(w) PROVE Panic \/ closer' # "dead"
        BY <1>2, <3>1, <3>2 DEF Work, Receive, Take, Fetch, Count, Deliver, FinishPage, Lose,
                               Finish, LeaveGroup, Proceed
      <3>3. CASE Start \/ Collect \/ Return \/ ContextEnds \/ UNCHANGED vars
        BY <1>2, <3>3 DEF Start, Collect, Return, ContextEnds, vars
      <3>4. CASE Close
        BY <1>2, <3>4 DEF Close, Wait, Wake, CloseTasks, CloseResults, CancelOwn, CloserGoto
      <3> QED BY <3>1, <3>2, <3>3, <3>4 DEF Next, Call
    <2> QED BY <2>1, <2>2, <2>3
  <1> QED BY <1>1, <1>2

LEMMA FiniteGroups ==
  /\ IsFiniteSet(Busy) /\ Cardinality(Busy) \in Nat
  /\ IsFiniteSet(Adding) /\ Cardinality(Adding) \in Nat
  <1>1. IsFiniteSet(Worker) /\ IsFiniteSet(Worker \cup {Main})
    BY ConstantsAssumption, FS_AddElement
  <1>2. Busy \in SUBSET Worker /\ Adding \in SUBSET (Worker \cup {Main})
    BY DEF Busy, Adding, Actor
  <1>3. IsFiniteSet(Busy) /\ IsFiniteSet(Adding)
    BY <1>1, <1>2, FS_Subset
  <1> QED BY <1>3, FS_CardinalityType

\* A worker that is busy and not adding has a count of its own in the group.
LEMMA CountedInGroup ==
  ASSUME Inv, NEW w \in Busy, pc[w] # "add"
  PROVE  wg >= 1
  <1>1. ~panicked
    BY DEF Inv, Dead, Busy, Delivering, Enqueuing, Actor
  <1>2. Adding \in SUBSET (Busy \ {w})
    BY DEF Inv, Phases, Adding, Busy, Delivering, Enqueuing, Actor
  <1>3. IsFiniteSet(Busy \ {w}) /\ Cardinality(Busy \ {w}) = Cardinality(Busy) - 1
    BY FiniteGroups, FS_RemoveElement
  <1>4. Cardinality(Adding) <= Cardinality(Busy) - 1
    BY <1>2, <1>3, FS_Subset
  <1>5. Len(tasks) \in Nat /\ wg \in Nat
    BY LenProperties DEF Inv, TypeOK, TasksTypeOK
  <1>6. wg + Cardinality(Adding) = Len(tasks) + Cardinality(Busy)
    BY <1>1 DEF Inv, GroupExact
  <1> QED BY <1>4, <1>5, <1>6, FiniteGroups

\* Steps that leave the group, the queue and both sets as they are.
LEMMA SameGroup ==
  ASSUME Inv, ~panicked, UNCHANGED <<tasks, wg>>, Busy' = Busy, Adding' = Adding
  PROVE  GroupExact' /\ wg' \in Nat
  BY DEF Inv, GroupExact, TypeOK

\* What a step to another label does to the two sets.
LEMMA GotoGroups ==
  ASSUME TypeOK, NEW a \in Actor, NEW label, Goto(a, label)
  PROVE  /\ Busy' = IF a \in Worker /\ label \in Delivering \cup Enqueuing
                    THEN Busy \cup {a} ELSE Busy \ {a}
         /\ Adding' = IF label = "add" THEN Adding \cup {a} ELSE Adding \ {a}
  BY ConstantsAssumption DEF TypeOK, ActorsTypeOK, Goto, Busy, Adding, Actor

LEMMA EnqueueKeepsGroup ==
  ASSUME Inv, ~panicked, NEW a \in Actor, Enqueue(a)
  PROVE  GroupExact' /\ wg' \in Nat
  <1>0. TypeOK
    BY DEF Inv
  <1>1. CASE Panic
    BY <1>1 DEF Panic, GroupExact, panicked, Inv, TypeOK, shared
  <1>2. CASE /\ pc[a] \in {"link", "visit", "send"} /\ UNCHANGED <<tasks, wg>>
             /\ \E label \in {"link", "visit", "send"} : Goto(a, label)
    <2>1. Busy' = Busy /\ Adding' = Adding
      BY <1>0, <1>2, GotoGroups DEF Busy, Adding, Enqueuing
    <2> QED BY <1>2, <2>1, SameGroup
  <1>3. CASE pc[a] = "send" /\ SendTask(a) /\ UNCHANGED wg
    <2>1. Busy' = Busy /\ Adding' = Adding \cup {a} /\ a \notin Adding
      BY <1>0, <1>3, GotoGroups DEF SendTask, Busy, Adding, Enqueuing
    <2>2. Cardinality(Adding') = Cardinality(Adding) + 1
      BY <2>1, FiniteGroups, FS_AddElement
    <2>3. Len(tasks') = Len(tasks) + 1 /\ Len(tasks) \in Nat
      BY <1>0, <1>3, AppendProperties, LenProperties DEF SendTask, TypeOK, TasksTypeOK
    <2>4. wg + Cardinality(Adding) = Len(tasks) + Cardinality(Busy)
      BY DEF Inv, GroupExact
    <2>5. wg' = wg /\ wg \in Nat
      BY <1>0, <1>3 DEF TypeOK
    <2>6. wg' + Cardinality(Adding') = Len(tasks') + Cardinality(Busy')
      BY <2>1, <2>2, <2>3, <2>4, <2>5, FiniteGroups
    <2> QED BY <2>5, <2>6 DEF GroupExact
  <1>4. CASE Add(a)
    <2>1. Busy' = Busy /\ Adding' = Adding \ {a} /\ a \in Adding
      BY <1>0, <1>4, GotoGroups DEF Add, NextURL, Busy, Adding, Enqueuing
    <2>2. Cardinality(Adding') = Cardinality(Adding) - 1
      BY <2>1, FiniteGroups, FS_RemoveElement
    <2>3. tasks' = tasks /\ Len(tasks) \in Nat
      BY <1>0, <1>4, LenProperties DEF Add, chans, TypeOK, TasksTypeOK
    <2>4. wg + Cardinality(Adding) = Len(tasks) + Cardinality(Busy)
      BY DEF Inv, GroupExact
    <2>5. wg' = wg + 1 /\ wg \in Nat
      BY <1>0, <1>4 DEF Add, TypeOK
    <2>6. wg' + Cardinality(Adding') = Len(tasks') + Cardinality(Busy')
      BY <2>1, <2>2, <2>3, <2>4, <2>5, FiniteGroups
    <2> QED BY <2>5, <2>6 DEF GroupExact
  <1>5. CASE Filter(a) \/ Visit(a)
    <2>1. /\ pc[a] \in {"link", "visit", "send"} /\ UNCHANGED <<tasks, wg>>
          /\ \E label \in {"link", "visit", "send"} : Goto(a, label)
      BY <1>5 DEF Filter, Visit, NextURL, chans, shared
    <2> QED BY <2>1, <1>2
  <1>6. CASE Send(a)
    <2>1. \/ Panic
          \/ pc[a] = "send" /\ SendTask(a) /\ UNCHANGED wg
          \/ pc[a] = "send" /\ UNCHANGED <<tasks, wg>> /\ Goto(a, "link")
      BY <1>6 DEF Send, DropTask, GiveUpSending, NextURL, shared
    <2> QED BY <2>1, <1>1, <1>2, <1>3
  <1> QED BY <1>4, <1>5, <1>6 DEF Enqueue

\* A worker that is done with its task leaves the set of the busy and calls Done.
LEMMA FinishKeepsGroup ==
  ASSUME Inv, ~panicked, NEW w \in Busy, pc[w] # "add", Finish(w), UNCHANGED tasks
  PROVE  GroupExact' /\ wg' \in Nat
  <1>1. w \in Worker /\ TypeOK
    BY DEF Busy, Inv
  <1>2. Busy' = Busy \ {w} /\ Adding' = Adding
    BY <1>1, GotoGroups DEF Finish, Adding, Delivering, Enqueuing, Actor
  <1>3. Cardinality(Busy') = Cardinality(Busy) - 1
    BY <1>2, FiniteGroups, FS_RemoveElement
  <1>4. wg' = wg - 1 /\ wg \in Nat /\ wg >= 1
    BY <1>1, CountedInGroup DEF Finish, LeaveGroup, TypeOK
  <1>5. tasks' = tasks /\ Len(tasks) \in Nat
    BY <1>1, LenProperties DEF TypeOK, TasksTypeOK
  <1>6. wg + Cardinality(Adding) = Len(tasks) + Cardinality(Busy)
    BY DEF Inv, GroupExact
  <1>7. wg' + Cardinality(Adding') = Len(tasks') + Cardinality(Busy')
    BY <1>2, <1>3, <1>4, <1>5, <1>6, FiniteGroups
  <1> QED BY <1>4, <1>7 DEF GroupExact

LEMMA ReceiveKeepsGroup ==
  ASSUME Inv, ~panicked, NEW w \in Worker, Receive(w)
  PROVE  GroupExact' /\ wg' \in Nat
  <1>0. TypeOK /\ w \in Actor
    BY DEF Inv, Actor
  <1>1. CASE tasks # <<>> /\ tasks' = Tail(tasks) /\ Goto(w, "take")
    <2>1. Busy' = Busy \cup {w} /\ Adding' = Adding /\ w \notin Busy
      BY <1>0, <1>1, GotoGroups DEF Receive, Busy, Adding, Delivering, Enqueuing
    <2>2. Cardinality(Busy') = Cardinality(Busy) + 1
      BY <2>1, FiniteGroups, FS_AddElement
    <2>3. Len(tasks') = Len(tasks) - 1 /\ Len(tasks) \in Nat
      BY <1>0, <1>1, HeadTailProperties, LenProperties DEF TypeOK, TasksTypeOK
    <2>4. wg + Cardinality(Adding) = Len(tasks) + Cardinality(Busy)
      BY DEF Inv, GroupExact
    <2>5. wg' = wg /\ wg \in Nat
      BY <1>0 DEF Receive, shared, TypeOK
    <2>6. wg' + Cardinality(Adding') = Len(tasks') + Cardinality(Busy')
      BY <2>1, <2>2, <2>3, <2>4, <2>5, FiniteGroups
    <2> QED BY <2>5, <2>6 DEF GroupExact
  <1>2. CASE Goto(w, "exited") /\ UNCHANGED tasks
    <2>1. Busy' = Busy /\ Adding' = Adding
      BY <1>0, <1>2, GotoGroups DEF Receive, Busy, Adding, Delivering, Enqueuing
    <2> QED BY <1>2, <2>1, SameGroup DEF Receive, shared
  <1> QED BY <1>1, <1>2 DEF Receive

LEMMA WorkKeepsGroup ==
  ASSUME Inv, ~panicked, NEW w \in Worker, Work(w)
  PROVE  GroupExact' /\ wg' \in Nat
  <1>0. TypeOK /\ w \in Actor
    BY DEF Inv, Actor
  <1>1. CASE Panic
    BY <1>1 DEF Panic, GroupExact, panicked, Inv, TypeOK, shared
  <1>2. CASE /\ pc[w] \in Delivering /\ UNCHANGED <<tasks, wg>>
             /\ \E label \in {"fetch", "count", "deliver", "link"} : Goto(w, label)
    <2>1. Busy' = Busy /\ Adding' = Adding
      BY <1>0, <1>2, GotoGroups DEF Busy, Adding, Delivering, Enqueuing
    <2> QED BY <1>2, <2>1, SameGroup
  <1>3. CASE (pc[w] \in Delivering \/ pc[w] = "link") /\ Finish(w) /\ UNCHANGED tasks
    BY <1>3, FinishKeepsGroup DEF Busy, Delivering, Enqueuing
  <1>4. CASE Take(w) \/ Fetch(w) \/ Count(w)
    BY <1>2, <1>3, <1>4 DEF Take, Fetch, Count, Lose, Proceed, Delivering, chans
  <1>5. CASE Deliver(w)
    BY <1>1, <1>2, <1>5 DEF Deliver, Delivering, shared
  <1>6. CASE FinishPage(w)
    BY <1>3, <1>6 DEF FinishPage, chans
  <1> QED BY <1>0, <1>4, <1>5, <1>6, ReceiveKeepsGroup, EnqueueKeepsGroup DEF Work

LEMMA RestKeepsGroup ==
  ASSUME Inv, ~panicked, Start \/ Collect \/ Return \/ Close \/ ContextEnds
  PROVE  GroupExact' /\ wg' \in Nat
  <1>0. TypeOK /\ Phases
    BY DEF Inv
  <1>1. CASE Panic
    BY <1>1 DEF Panic, GroupExact, panicked, Inv, TypeOK, shared
  <1>2. CASE UNCHANGED <<pc, tasks, wg>>
    BY <1>2, SameGroup DEF Busy, Adding
  <1>3. CASE Start
    <2>1. Busy' = Busy /\ Adding' = Adding
      BY <1>0, <1>3, ConstantsAssumption
      DEF Start, Phases, Busy, Adding, Delivering, Enqueuing, Actor
    <2> QED BY <1>3, <2>1, SameGroup DEF Start, chans, shared
  <1>4. CASE pc[Main] = "collect" /\ Goto(Main, "returned") /\ UNCHANGED <<tasks, wg>>
    <2>1. Busy' = Busy /\ Adding' = Adding
      BY <1>0, <1>4, GotoGroups, ConstantsAssumption DEF Busy, Adding, Actor
    <2> QED BY <1>4, <2>1, SameGroup
  <1>5. CASE Collect \/ Return \/ ContextEnds
    <2>1. \/ UNCHANGED <<pc, tasks, wg>>
          \/ pc[Main] = "collect" /\ Goto(Main, "returned") /\ UNCHANGED <<tasks, wg>>
      BY <1>5 DEF Collect, Return, ContextEnds, chans, shared, actors
    <2> QED BY <2>1, <1>2, <1>4
  <1>6. CASE Close
    <2>1. Panic \/ UNCHANGED <<pc, tasks, wg>>
      BY <1>6 DEF Close, Wait, Wake, CloseTasks, CloseResults, CancelOwn, CloserGoto,
                  chans, shared, actors
    <2> QED BY <2>1, <1>1, <1>2
  <1> QED BY <1>3, <1>5, <1>6

LEMMA GroupStep ==
  ASSUME Inv, [Next]_vars
  PROVE  GroupExact' /\ wg' \in Nat
  <1>1. CASE panicked
    <2>1. UNCHANGED <<closer, wg>>
      BY <1>1, ConstantsAssumption
      DEF Inv, Dead, Actor, Next, Call, Enqueue, Filter, Visit, Send, Add, Start, Collect, Return,
          Work, Receive, Take, Fetch, Count, Deliver, FinishPage, Close, Wait, Wake, CloseTasks,
          CloseResults, CancelOwn, CloserGoto, ContextEnds, shared, vars, panicked
    <2> QED BY <1>1, <2>1 DEF panicked, GroupExact, Inv, TypeOK
  <1>2. CASE ~panicked /\ Call
    BY <1>2, EnqueueKeepsGroup, RestKeepsGroup DEF Call, Actor
  <1>3. CASE ~panicked /\ \E w \in Worker : Work(w)
    BY <1>3, WorkKeepsGroup
  <1>4. CASE ~panicked /\ (Close \/ ContextEnds)
    BY <1>4, RestKeepsGroup
  <1>5. CASE ~panicked /\ UNCHANGED vars
    BY <1>5, SameGroup DEF vars, chans, shared, actors, Busy, Adding
  <1> QED BY <1>1, <1>2, <1>3, <1>4, <1>5 DEF Next

-----------------------------------------------------------------------------
(* The rest of the state *)

LEMMA TaskForType ==
  ASSUME TypeOK, NEW a \in Actor, pc[a] = "send"
  PROVE  TaskFor(a) \in Task
  <1> USE ConstantsAssumption DEF Task
  <1>1. Head(todo[a]) \in Page
    BY QueueOfURLs DEF TypeOK, ActorsTypeOK
  <1>2. CASE a = Main
    BY <1>1, <1>2 DEF TaskFor
  <1>3. CASE a # Main
    <2>1. a \in Busy /\ todo[a] # <<>>
      BY <1>3 DEF TypeOK, ActorsTypeOK, Busy, Enqueuing, Actor
    <2>2. held[a] \in Task /\ held[a].depth < MaxDepth
      BY <2>1 DEF TypeOK, ActorsTypeOK
    <2>3. held[a].depth + 1 \in 0 .. MaxDepth
      BY <2>2
    <2> QED BY <1>1, <1>3, <2>3 DEF TaskFor
  <1> QED BY <1>2, <1>3

LEMMA TasksStep ==
  ASSUME TypeOK, [Next]_vars
  PROVE  TasksTypeOK'
  <1>1. CASE UNCHANGED tasks
    BY <1>1 DEF TypeOK, TasksTypeOK
  <1>2. ASSUME NEW a \in Actor, pc[a] = "send", SendTask(a)
        PROVE  TasksTypeOK'
    <2>1. TaskFor(a) \in Task
      BY <1>2, TaskForType
    <2> DEFINE t == TaskFor(a)
    <2>2. tasks' = Append(tasks, t) /\ Len(tasks) < MaxPages /\ t \in Task
      BY <1>2, <2>1 DEF SendTask
    <2> HIDE DEF t
    <2>3. tasks \in Seq(Task) /\ Len(tasks) \in Nat
      BY LenProperties DEF TypeOK, TasksTypeOK
    <2>4. tasks' \in Seq(Task) /\ Len(tasks') = Len(tasks) + 1
      BY <2>2, <2>3, AppendProperties
    <2> QED BY <2>2, <2>3, <2>4, ConstantsAssumption DEF TasksTypeOK
  <1>3. ASSUME tasks # <<>>, tasks' = Tail(tasks)
        PROVE  TasksTypeOK'
    <2>1. tasks \in Seq(Task) /\ Len(tasks) <= MaxPages /\ Len(tasks) \in Nat
      BY LenProperties DEF TypeOK, TasksTypeOK
    <2>2. tasks' \in Seq(Task) /\ Len(tasks') = Len(tasks) - 1
      BY <1>3, <2>1, HeadTailProperties
    <2> QED BY <2>1, <2>2, ConstantsAssumption DEF TasksTypeOK
  <1>4. ASSUME NEW a \in Actor, Enqueue(a)
        PROVE  TasksTypeOK'
    <2>1. UNCHANGED tasks \/ (pc[a] = "send" /\ SendTask(a))
      BY <1>4 DEF Enqueue, Filter, Visit, Send, DropTask, GiveUpSending, Add, Panic, chans
    <2> QED BY <2>1, <1>1, <1>2
  <1>5. ASSUME NEW w \in Worker, Work(w)
        PROVE  TasksTypeOK'
    <2>1. CASE Enqueue(w)
      BY <2>1, <1>4 DEF Actor
    <2>2. CASE ~Enqueue(w)
      <3>1. UNCHANGED tasks \/ (tasks # <<>> /\ tasks' = Tail(tasks))
        BY <1>5, <2>2 DEF Work, Receive, Take, Fetch, Count, Deliver, FinishPage, Panic, chans
      <3> QED BY <3>1, <1>1, <1>3
    <2> QED BY <2>1, <2>2
  <1>6. CASE Start \/ Collect \/ Return \/ Close \/ ContextEnds \/ UNCHANGED vars
    <2>1. UNCHANGED tasks
      BY <1>6 DEF Start, Collect, Return, Close, Wait, Wake, CloseTasks, CloseResults, CancelOwn,
                  CloserGoto, ContextEnds, Panic, chans, vars
    <2> QED BY <2>1, <1>1
  <1> QED BY <1>4, <1>5, <1>6 DEF Next, Call, Actor

\* What a step adds to the sets of pages is a page.
LEMMA PagesStep ==
  ASSUME TypeOK, [Next]_vars
  PROVE  PagesTypeOK'
  <1>0. PagesTypeOK
    BY DEF TypeOK
  <1>1. ASSUME NEW a \in Actor, Enqueue(a)
        PROVE  PagesTypeOK'
    <2>1. pc[a] \in {"visit", "send"} => Head(todo[a]) \in Page
      BY QueueOfURLs DEF TypeOK, ActorsTypeOK
    <2> QED BY <1>0, <1>1, <2>1 DEF Enqueue, Filter, Visit, Send, SendTask, DropTask, GiveUpSending,
                                    Add, Panic, Mark, PagesTypeOK, chans, shared, history
  <1>2. ASSUME NEW w \in Worker, Work(w)
        PROVE  PagesTypeOK'
    <2>1. pc[w] \in Delivering => held[w].page \in Page
      BY DEF TypeOK, ActorsTypeOK, Busy, Task
    <2>2. CASE Enqueue(w)
      BY <2>2, <1>1 DEF Actor
    <2>3. CASE ~Enqueue(w)
      BY <1>0, <1>2, <2>1, <2>3
      DEF Work, Receive, Take, Fetch, Count, Deliver, FinishPage, Lose, Proceed, Panic,
          Delivering, PagesTypeOK, chans, shared, history
    <2> QED BY <2>2, <2>3
  <1>3. CASE Start \/ Collect \/ Return \/ Close \/ ContextEnds \/ UNCHANGED vars
    BY <1>0, <1>3
    DEF Start, Collect, Return, Close, Wait, Wake, CloseTasks, CloseResults, CancelOwn, CloserGoto,
        ContextEnds, Panic, PagesTypeOK, chans, shared, history, vars
  <1> QED BY <1>1, <1>2, <1>3 DEF Next, Call, Actor

LEMMA ProcessedStep ==
  ASSUME TypeOK, [Next]_vars
  PROVE  processed' \in Nat
  <1>1. processed' \in {processed, processed + 1}
    BY DEF Next, Call, Enqueue, Filter, Visit, Send, Add, Start, Collect, Return, Work, Receive,
           Take, Fetch, Count, Deliver, FinishPage, Panic, Close, Wait, Wake, CloseTasks,
           CloseResults, CancelOwn, CloserGoto, ContextEnds, shared, vars
  <1> QED BY <1>1 DEF TypeOK

LEMMA RestStep ==
  ASSUME TypeOK, [Next]_vars
  PROVE  RestTypeOK'
  <1>0. RestTypeOK
    BY DEF TypeOK
  <1>1. CASE Panic
    BY <1>0, <1>1 DEF Panic, RestTypeOK, context, history
  <1>2. ASSUME NEW a \in Actor, Enqueue(a)
        PROVE  RestTypeOK'
    BY <1>0, <1>1, <1>2 DEF Enqueue, Filter, Visit, Send, Add, RestTypeOK, context, history
  <1>3. ASSUME NEW w \in Worker, Finish(w), UNCHANGED context
        PROVE  RestTypeOK'
    <2>1. closer' \in {closer, "woken"}
      BY <1>3 DEF Finish, LeaveGroup
    <2>2. early' \in BOOLEAN
      BY <1>3 DEF Finish, LeaveGroup
    <2>3. UNCHANGED <<ctxDone, stopped>>
      BY <1>3 DEF context
    <2> QED BY <1>0, <2>1, <2>2, <2>3 DEF RestTypeOK
  <1>4. ASSUME NEW w \in Worker, Work(w)
        PROVE  RestTypeOK'
    <2>1. \/ Enqueue(w) \/ Panic
          \/ Finish(w) /\ UNCHANGED context
          \/ UNCHANGED <<context, closer, history>>
          \/ UNCHANGED <<context, closer, early>>
      BY <1>4 DEF Work, Receive, Take, Fetch, Count, Deliver, FinishPage, Lose, Proceed
    <2>2. CASE UNCHANGED <<context, closer, history>> \/ UNCHANGED <<context, closer, early>>
      BY <1>0, <2>2 DEF RestTypeOK, context, history
    <2> QED BY <1>1, <1>2, <1>3, <2>1, <2>2 DEF Actor
  <1>5. CASE Close
    BY <1>0, <1>1, <1>5
    DEF Close, Wait, Wake, CloseTasks, CloseResults, CancelOwn, CloserGoto, RestTypeOK, context,
        history
  <1>6. CASE Start \/ Collect \/ Return \/ ContextEnds \/ UNCHANGED vars
    BY <1>0, <1>6 DEF Start, Collect, Return, ContextEnds, RestTypeOK, context, history, vars
  <1> QED BY <1>2, <1>4, <1>5, <1>6 DEF Next, Call, Actor

-----------------------------------------------------------------------------
(* The theorems *)

LEMMA InitInv == Init => Inv
  <1> SUFFICES ASSUME Init PROVE Inv
    OBVIOUS
  <1>1. Busy = {} /\ Adding = {}
    BY ConstantsAssumption DEF Init, Busy, Adding, Delivering, Enqueuing, Actor
  <1>2. GroupExact
    BY <1>1, FS_EmptySet DEF Init, GroupExact
  <1>3. ActorsTypeOK
    BY <1>1, ConstantsAssumption DEF Init, ActorsTypeOK, Delivering, Enqueuing, Actor
  <1>4. PagesTypeOK /\ TasksTypeOK /\ RestTypeOK /\ processed \in Nat /\ wg \in Nat
    <2>1. tasks \in Seq(Task) /\ Len(tasks) = 0
      BY EmptySeq DEF Init
    <2>2. TasksTypeOK
      BY <2>1, ConstantsAssumption DEF TasksTypeOK
    <2>3. PagesTypeOK /\ RestTypeOK
      BY DEF Init, PagesTypeOK, RestTypeOK
    <2> QED BY <2>2, <2>3 DEF Init
  <1>5. Phases /\ Dead
    BY ConstantsAssumption DEF Init, Phases, Dead, panicked, Enqueuing, Actor
  <1> QED BY <1>2, <1>3, <1>4, <1>5 DEF Inv, TypeOK

LEMMA InvStep == Inv /\ [Next]_vars => Inv'
  <1> SUFFICES ASSUME Inv, [Next]_vars PROVE Inv'
    OBVIOUS
  <1>1. TypeOK /\ Phases /\ Dead
    BY DEF Inv
  <1>2. ActorsTypeOK' /\ Phases'
    BY <1>1, ActorsStep
  <1>3. PagesTypeOK' /\ TasksTypeOK' /\ RestTypeOK' /\ processed' \in Nat
    BY <1>1, PagesStep, TasksStep, RestStep, ProcessedStep
  <1>4. Dead'
    BY <1>1, DeadStep
  <1>5. GroupExact' /\ wg' \in Nat
    BY GroupStep
  <1> QED BY <1>2, <1>3, <1>4, <1>5 DEF Inv, TypeOK

\* Run's channels never exceed their capacity, a goroutine never reads a task or
\* a URL that is not there, the depth of a task never exceeds MaxDepth, and
\* wg.Done never takes the counter of the wait group below zero.
THEOREM TypeCorrect == Spec => []TypeOK
  <1>1. Inv => TypeOK
    BY DEF Inv
  <1> QED BY <1>1, InitInv, InvStep, PTL DEF Spec

\* The counter of the wait group is the tasks queued and in progress, short of
\* those that enqueue has sent and not yet added.
THEOREM GroupExactHolds == Spec => []GroupExact
  <1>1. Inv => GroupExact
    BY DEF Inv
  <1> QED BY <1>1, InitInv, InvStep, PTL DEF Spec

-----------------------------------------------------------------------------
(* The page limit *)

Deliverers == {w \in Worker : pc[w] = "deliver"}
PagesOut == Cardinality(collected) + Cardinality(results) + Cardinality(Deliverers)

\* A page is counted before it is delivered, and delivered only within the limit.
Counted ==
  /\ IsFiniteSet(collected) /\ IsFiniteSet(results)
  /\ PagesOut <= processed /\ PagesOut <= MaxPages

LEMMA FiniteDeliverers == IsFiniteSet(Deliverers) /\ Cardinality(Deliverers) \in Nat
  <1>1. Deliverers \in SUBSET Worker
    BY DEF Deliverers
  <1> QED BY <1>1, ConstantsAssumption, FS_Subset, FS_CardinalityType

LEMMA AddToSet ==
  ASSUME NEW S, IsFiniteSet(S), NEW x
  PROVE  /\ IsFiniteSet(S \cup {x}) /\ Cardinality(S \cup {x}) \in Nat
         /\ Cardinality(S) \in Nat /\ Cardinality(S \cup {x}) <= Cardinality(S) + 1
  <1>1. IsFiniteSet(S \cup {x}) /\ Cardinality(S) \in Nat
        /\ (Cardinality(S \cup {x}) = Cardinality(S) \/ Cardinality(S \cup {x}) = Cardinality(S) + 1)
    BY FS_AddElement, FS_CardinalityType
  <1> QED BY <1>1

\* Steps after which no more workers are delivering than before.
LEMMA FewerDeliverers ==
  ASSUME Inv, Counted, UNCHANGED <<collected, results>>, processed' \in {processed, processed + 1},
         Deliverers' \subseteq Deliverers
  PROVE  Counted'
  <1>1. /\ IsFiniteSet(Deliverers') /\ Cardinality(Deliverers') \in Nat
        /\ Cardinality(Deliverers') <= Cardinality(Deliverers)
    BY FiniteDeliverers, FS_Subset, FS_CardinalityType
  <1>2. Cardinality(collected) \in Nat /\ Cardinality(results) \in Nat /\ processed \in Nat
    BY FS_CardinalityType DEF Counted, Inv, TypeOK
  <1>3. PagesOut' <= PagesOut /\ PagesOut \in Nat /\ PagesOut' \in Nat
    BY <1>1, <1>2, FiniteDeliverers DEF PagesOut
  <1>4. PagesOut' <= processed' /\ PagesOut' <= MaxPages
    BY <1>2, <1>3, ConstantsAssumption DEF Counted
  <1> QED BY <1>4 DEF Counted

LEMMA GotoDeliverers ==
  ASSUME TypeOK, NEW a \in Actor, NEW label, Goto(a, label)
  PROVE  Deliverers' = IF a \in Worker /\ label = "deliver"
                       THEN Deliverers \cup {a} ELSE Deliverers \ {a}
  BY ConstantsAssumption DEF TypeOK, ActorsTypeOK, Goto, Deliverers, Actor

LEMMA CountKeepsLimit ==
  ASSUME Inv, Counted, NEW w \in Worker, Count(w)
  PROVE  Counted'
  <1>0. TypeOK /\ w \in Actor
    BY DEF Inv, Actor
  <1>1. CASE WithinLimit
    <2>1. Deliverers' = Deliverers \cup {w} /\ w \notin Deliverers
      BY <1>0, <1>1, GotoDeliverers DEF Count, Proceed, Deliverers
    <2>2. Cardinality(Deliverers') = Cardinality(Deliverers) + 1
      BY <2>1, FiniteDeliverers, FS_AddElement
    <2>3. UNCHANGED <<collected, results>> /\ processed' = processed + 1 /\ processed \in Nat
      BY <1>0 DEF Count, chans, TypeOK
    <2>4. Cardinality(collected) \in Nat /\ Cardinality(results) \in Nat
      BY FS_CardinalityType DEF Counted
    <2>5. PagesOut' = PagesOut + 1 /\ PagesOut \in Nat
      BY <2>2, <2>3, <2>4, FiniteDeliverers DEF PagesOut
    <2>6. PagesOut' <= processed' /\ PagesOut' <= MaxPages
      BY <1>1, <2>3, <2>5, ConstantsAssumption DEF Counted, WithinLimit
    <2> QED BY <2>3, <2>6 DEF Counted
  <1>2. CASE ~WithinLimit
    <2>1. Deliverers' \subseteq Deliverers
      BY <1>0, <1>2, GotoDeliverers DEF Count, Lose, Finish
    <2> QED BY <2>1, FewerDeliverers DEF Count, chans
  <1> QED BY <1>1, <1>2

LEMMA DeliverKeepsLimit ==
  ASSUME Inv, Counted, NEW w \in Worker, Deliver(w), ~Panic
  PROVE  Counted'
  <1>0. TypeOK /\ w \in Actor
    BY DEF Inv, Actor
  <1>1. Deliverers' = Deliverers \ {w} /\ w \in Deliverers
    BY <1>0, GotoDeliverers DEF Deliver, Deliverers
  <1>2. Cardinality(Deliverers') = Cardinality(Deliverers) - 1
    BY <1>1, FiniteDeliverers, FS_RemoveElement
  <1>3. PICK p : results' = results \cup {p}
    BY DEF Deliver
  <1>4. UNCHANGED <<collected, processed>> /\ processed \in Nat
    BY <1>0 DEF Deliver, shared, TypeOK
  <1>5. /\ IsFiniteSet(results') /\ Cardinality(results') \in Nat /\ Cardinality(results) \in Nat
        /\ Cardinality(results') <= Cardinality(results) + 1
    BY <1>3, AddToSet DEF Counted
  <1>6. Cardinality(collected) \in Nat
    BY FS_CardinalityType DEF Counted
  <1>7. PagesOut' <= PagesOut /\ PagesOut' \in Int /\ PagesOut \in Int
    BY <1>2, <1>4, <1>5, <1>6, FiniteDeliverers DEF PagesOut
  <1>8. PagesOut' <= processed' /\ PagesOut' <= MaxPages
    BY <1>4, <1>7, ConstantsAssumption DEF Counted
  <1> QED BY <1>4, <1>5, <1>8 DEF Counted

LEMMA CollectKeepsLimit ==
  ASSUME Inv, Counted, Collect
  PROVE  Counted'
  <1>0. TypeOK /\ Main \in Actor /\ Main \notin Worker
    BY ConstantsAssumption DEF Inv, Actor
  <1>1. Deliverers' = Deliverers
    BY <1>0, GotoDeliverers DEF Collect, Deliverers
  <1>2. PICK p \in results : results' = results \ {p}
                             /\ (collected' = collected \/ collected' = collected \cup {p})
    BY DEF Collect
  <1>3. /\ IsFiniteSet(results') /\ Cardinality(results') = Cardinality(results) - 1
        /\ Cardinality(results) \in Nat
    BY <1>2, FS_RemoveElement, FS_CardinalityType DEF Counted
  <1>4. /\ IsFiniteSet(collected') /\ Cardinality(collected') \in Nat
        /\ Cardinality(collected) \in Nat /\ Cardinality(collected') <= Cardinality(collected) + 1
    <2>1. Cardinality(collected) \in Nat /\ IsFiniteSet(collected)
      BY FS_CardinalityType DEF Counted
    <2>2. CASE collected' = collected
      BY <2>1, <2>2
    <2>3. CASE collected' = collected \cup {p}
      BY <2>1, <2>3, AddToSet
    <2> QED BY <1>2, <2>2, <2>3
  <1>5. processed' = processed /\ processed \in Nat
    BY <1>0 DEF Collect, shared, TypeOK
  <1>6. PagesOut' <= PagesOut /\ PagesOut' \in Int /\ PagesOut \in Int
    BY <1>1, <1>3, <1>4, FiniteDeliverers DEF PagesOut
  <1>7. PagesOut' <= processed' /\ PagesOut' <= MaxPages
    BY <1>5, <1>6, ConstantsAssumption DEF Counted
  <1> QED BY <1>3, <1>4, <1>7 DEF Counted

LEMMA CountedStep ==
  ASSUME Inv, Counted, [Next]_vars
  PROVE  Counted'
  <1>0. TypeOK /\ Phases
    BY DEF Inv
  <1>1. CASE Panic
    <2>1. Deliverers' \subseteq Deliverers
      BY <1>1 DEF Panic, Deliverers, Actor
    <2> QED BY <1>1, <2>1, FewerDeliverers DEF Panic, chans, shared
  <1>2. ASSUME NEW a \in Actor, NEW label, Goto(a, label), label # "deliver",
               UNCHANGED <<collected, results, processed>>
        PROVE  Counted'
    <2>1. Deliverers' \subseteq Deliverers
      BY <1>0, <1>2, GotoDeliverers
    <2> QED BY <1>2, <2>1, FewerDeliverers
  <1>3. ASSUME NEW a \in Actor, Enqueue(a)
        PROVE  Counted'
    <2>1. \/ Panic
          \/ /\ \E label \in {"link", "visit", "send", "add"} : Goto(a, label)
             /\ UNCHANGED <<collected, results, processed>>
      BY <1>3 DEF Enqueue, Filter, Visit, Send, SendTask, DropTask, GiveUpSending, Add, NextURL,
                  chans, shared
    <2> QED BY <1>1, <1>2, <2>1
  <1>4. ASSUME NEW w \in Worker, Receive(w) \/ Take(w) \/ Fetch(w) \/ FinishPage(w)
        PROVE  Counted'
    <2>1. /\ \E label \in {"take", "exited", "idle", "fetch", "count"} : Goto(w, label)
          /\ UNCHANGED <<collected, results, processed>>
      BY <1>4 DEF Receive, Take, Fetch, FinishPage, Lose, Finish, Proceed, chans, shared
    <2> QED BY <1>2, <2>1 DEF Actor
  <1>5. ASSUME NEW w \in Worker, Work(w)
        PROVE  Counted'
    BY <1>1, <1>3, <1>4, <1>5, CountKeepsLimit, DeliverKeepsLimit DEF Work, Actor
  <1>6. CASE Start
    <2>1. Deliverers' \subseteq Deliverers
      BY <1>6, ConstantsAssumption DEF Start, Deliverers, Actor
    <2> QED BY <1>6, <2>1, FewerDeliverers DEF Start, chans, shared
  <1>7. CASE Return
    BY <1>2, <1>7, ConstantsAssumption DEF Return, chans, shared, Actor
  <1>8. CASE Close \/ ContextEnds \/ UNCHANGED vars
    <2>1. Panic \/ UNCHANGED <<pc, collected, results, processed>>
      BY <1>8 DEF Close, Wait, Wake, CloseTasks, CloseResults, CancelOwn, CloserGoto, ContextEnds,
                  chans, shared, actors, vars
    <2>2. CASE UNCHANGED <<pc, collected, results, processed>>
      BY <2>2, FewerDeliverers DEF Deliverers
    <2> QED BY <1>1, <2>1, <2>2
  <1> QED BY <1>3, <1>5, <1>6, <1>7, <1>8, CollectKeepsLimit DEF Next, Call, Actor

LEMMA CountedInit == Init => Counted
  <1> SUFFICES ASSUME Init PROVE Counted
    OBVIOUS
  <1>1. Deliverers = {}
    BY ConstantsAssumption DEF Init, Deliverers, Actor
  <1>2. /\ Cardinality(Deliverers) = 0 /\ Cardinality(collected) = 0 /\ Cardinality(results) = 0
        /\ IsFiniteSet(collected) /\ IsFiniteSet(results)
    BY <1>1, FS_EmptySet DEF Init
  <1>3. PagesOut = 0 /\ processed = 0
    BY <1>2 DEF PagesOut, Init
  <1> QED BY <1>2, <1>3, ConstantsAssumption DEF Counted

\* At most MaxPages results are ever delivered: a worker that delivers finds room
\* in the channel results, whether or not Run still collects.
THEOREM PageLimitHolds == Spec => []PageLimit
  <1>1. Inv /\ Counted /\ [Next]_vars => (Inv /\ Counted)'
    BY InvStep, CountedStep
  <1>2. Counted => PageLimit
    BY DEF Counted, PageLimit, PagesOut, Deliverers
  <1> QED BY <1>1, <1>2, InitInv, CountedInit, PTL DEF Spec

-----------------------------------------------------------------------------
(* The panics *)

\* As long as the group did not come to zero early: once there are workers, it
\* is at zero only when nobody is adding, and it stays at zero once the closer
\* has seen it there.
Quiet ==
  /\ pc[Main] \in Enqueuing => closer = "none"
  /\ ~early /\ closer # "none" /\ wg = 0 => Adding = {}
  /\ ~early /\ closer \in {"woken", "tasks", "results", "cancel", "end"} => wg = 0

LEMMA NothingAfterPanic ==
  ASSUME Inv, panicked, [Next]_vars
  PROVE  UNCHANGED vars
  BY ConstantsAssumption
  DEF Inv, Dead, Actor, Next, Call, Enqueue, Filter, Visit, Send, Add, Start, Collect, Return, Work,
      Receive, Take, Fetch, Count, Deliver, FinishPage, Close, Wait, Wake, CloseTasks,
      CloseResults, CancelOwn, CloserGoto, ContextEnds, panicked

\* With the channels closed, a busy worker means that the group was zero early.
LEMMA PanicIsEarly ==
  ASSUME Inv, Quiet, DiesOnlyEarly, Panic, early
  PROVE  Quiet' /\ DiesOnlyEarly'
  <1>1. pc'[Main] = "dead" /\ early'
    BY DEF Panic, history, Actor
  <1> QED BY <1>1 DEF Quiet, DiesOnlyEarly, Enqueuing

LEMMA ClosedIsEarly ==
  ASSUME Inv, Quiet, NEW w \in Busy, pc[w] # "add", TasksClosed
  PROVE  early
  <1>1. wg >= 1 /\ wg \in Nat
    BY CountedInGroup DEF Inv, TypeOK
  <1>2. early \in BOOLEAN
    BY DEF Inv, TypeOK, RestTypeOK
  <1> QED BY <1>1, <1>2 DEF Quiet, TasksClosed

\* Steps that leave the group, the closer and those who add as they are.
LEMMA QuietStays ==
  ASSUME Quiet, ~panicked, UNCHANGED <<wg, closer, early>>, Adding' = Adding,
         pc'[Main] \in Enqueuing => pc[Main] \in Enqueuing
  PROVE  Quiet' /\ DiesOnlyEarly'
  BY DEF Quiet, DiesOnlyEarly, panicked

LEMMA CallerKeepsQuiet ==
  ASSUME Inv, Quiet, ~panicked, DiesOnlyEarly, Enqueue(Main)
  PROVE  Quiet' /\ DiesOnlyEarly'
  <1>1. closer = "none"
    BY DEF Enqueue, Filter, Visit, Send, Add, Quiet, Enqueuing
  <1>2. closer' = "none"
    BY <1>1 DEF Enqueue, Filter, Visit, Send, Add, TasksClosed
  <1> QED BY <1>2 DEF Quiet, DiesOnlyEarly, panicked

LEMMA FinishKeepsQuiet ==
  ASSUME Inv, Quiet, ~panicked, NEW w \in Busy, pc[w] # "add", Finish(w)
  PROVE  Quiet' /\ DiesOnlyEarly'
  <1>0. /\ w \in Worker /\ w # Main /\ TypeOK /\ wg \in Nat
        /\ wg >= 1 /\ early \in BOOLEAN
    BY CountedInGroup, ConstantsAssumption DEF Inv, TypeOK, RestTypeOK, Busy
  <1>1. Adding' = Adding
    BY <1>0, GotoGroups DEF Finish, Adding, Actor
  <1>2. pc'[Main] = pc[Main]
    BY <1>0 DEF Finish, Goto, TypeOK, ActorsTypeOK
  <1>3. wg' = wg - 1 /\ early' = (early \/ (wg = 1 /\ Adding # {}))
        /\ closer' = IF wg = 1 /\ closer = "blocked" THEN "woken" ELSE closer
    BY DEF Finish, LeaveGroup
  <1>4. wg' = 0 <=> wg = 1
    BY <1>0, <1>3
  <1>5. wg # 0
    BY <1>0
  <1> HIDE DEF Finish
  <1>6. closer' # "none" => closer # "none"
    BY <1>3
  <1>7. closer' # "dead"
    BY <1>3 DEF panicked
  <1>8. ~early' => ~early /\ (wg' = 0 => Adding' = {})
    BY <1>1, <1>3, <1>4
  <1>9. ~early' /\ closer' \in {"woken", "tasks", "results", "cancel", "end"} => wg' = 0
    <2>1. CASE closer' = closer
      BY <1>5, <1>8, <2>1 DEF Quiet
    <2>2. CASE closer' # closer
      BY <1>3, <1>4, <2>2
    <2> QED BY <2>1, <2>2
  <1>10. pc'[Main] \in Enqueuing => closer' = "none"
    BY <1>2, <1>3 DEF Quiet
  <1> QED BY <1>7, <1>8, <1>9, <1>10 DEF Quiet, DiesOnlyEarly, panicked

LEMMA WorkKeepsQuiet ==
  ASSUME Inv, Quiet, ~panicked, DiesOnlyEarly, NEW w \in Worker, Work(w)
  PROVE  Quiet' /\ DiesOnlyEarly'
  <1>0. TypeOK /\ w \in Actor /\ w # Main /\ wg \in Nat /\ early \in BOOLEAN
    BY ConstantsAssumption DEF Inv, TypeOK, RestTypeOK, Actor
  <1>1. ASSUME pc[w] # "add", UNCHANGED <<wg, closer, early>>,
               NEW label, Goto(w, label), label # "add"
        PROVE  Quiet' /\ DiesOnlyEarly'
    <2>1. Adding' = Adding
      BY <1>0, <1>1, GotoGroups DEF Adding
    <2>2. pc'[Main] = pc[Main]
      BY <1>0, <1>1 DEF Goto, TypeOK, ActorsTypeOK
    <2> QED BY <1>1, <2>1, <2>2, QuietStays
  <1>2. ASSUME pc[w] \in Delivering \cup {"link"}, Finish(w)
        PROVE  Quiet' /\ DiesOnlyEarly'
    BY <1>2, FinishKeepsQuiet DEF Busy, Delivering, Enqueuing
  <1>3. ASSUME pc[w] \in {"send", "deliver"}, TasksClosed, Panic
        PROVE  Quiet' /\ DiesOnlyEarly'
    BY <1>3, ClosedIsEarly, PanicIsEarly DEF Busy, Delivering, Enqueuing
  <1>4. ASSUME pc[w] = "send", SendTask(w), UNCHANGED <<wg, closer, early>>
        PROVE  Quiet' /\ DiesOnlyEarly'
    <2>1. wg >= 1
      BY <1>0, <1>4, CountedInGroup DEF Busy, Enqueuing
    <2>2. wg # 0 /\ pc'[Main] = pc[Main]
      BY <1>0, <1>4, <2>1 DEF SendTask, Goto, TypeOK, ActorsTypeOK
    <2> QED BY <1>4, <2>2 DEF Quiet, DiesOnlyEarly, panicked
  <1>5. ASSUME Add(w)
        PROVE  Quiet' /\ DiesOnlyEarly'
    <2>1. Adding # {}
      BY <1>0, <1>5 DEF Add, Adding
    <2>2. wg' # 0
      BY <1>0, <1>5 DEF Add
    <2>3. /\ UNCHANGED <<closer, early>>
          /\ pc'[Main] = pc[Main]
      BY <1>0, <1>5 DEF Add, NextURL, Goto, TypeOK, ActorsTypeOK, history
    <2> QED BY <2>1, <2>2, <2>3 DEF Quiet, DiesOnlyEarly, panicked
  <1>6. CASE Filter(w) \/ Visit(w) \/ Receive(w)
    <2>1. /\ pc[w] # "add" /\ UNCHANGED <<wg, closer, early>>
          /\ \E label \in {"link", "visit", "send", "take", "exited"} : Goto(w, label)
      BY <1>6 DEF Filter, Visit, Receive, NextURL, shared, history
    <2> QED BY <1>1, <2>1
  <1>7. CASE Send(w)
    <2>1. \/ pc[w] = "send" /\ SendTask(w) /\ UNCHANGED <<wg, closer, early>>
          \/ pc[w] = "send" /\ Goto(w, "link") /\ UNCHANGED <<wg, closer, early>>
          \/ pc[w] = "send" /\ TasksClosed /\ Panic
      BY <1>7 DEF Send, DropTask, GiveUpSending, NextURL, shared
    <2> QED BY <1>1, <1>3, <1>4, <2>1
  <1>8. CASE Take(w) \/ Fetch(w) \/ Count(w) \/ FinishPage(w)
    <2>1. \/ pc[w] \in Delivering \cup {"link"} /\ Finish(w)
          \/ /\ pc[w] # "add" /\ UNCHANGED <<wg, closer, early>>
             /\ \E label \in {"fetch", "count", "deliver"} : Goto(w, label)
      BY <1>8 DEF Take, Fetch, Count, FinishPage, Lose, Proceed, Delivering, history
    <2> QED BY <1>1, <1>2, <2>1
  <1>9. CASE Deliver(w)
    <2>1. \/ pc[w] = "deliver" /\ Goto(w, "link") /\ UNCHANGED <<wg, closer, early>>
          \/ pc[w] = "deliver" /\ TasksClosed /\ Panic
      BY <1>9 DEF Deliver, shared, history, ResultsClosed, TasksClosed
    <2> QED BY <1>1, <1>3, <2>1
  <1> QED BY <1>5, <1>6, <1>7, <1>8, <1>9 DEF Work, Enqueue

LEMMA RestKeepsQuiet ==
  ASSUME Inv, Quiet, ~panicked, DiesOnlyEarly, Start \/ Collect \/ Return \/ Close \/ ContextEnds
  PROVE  Quiet' /\ DiesOnlyEarly'
  <1>0. TypeOK /\ Phases /\ Main \in Actor /\ Main \notin Worker /\ early \in BOOLEAN
    BY ConstantsAssumption DEF Inv, TypeOK, RestTypeOK, Actor
  <1>1. CASE Start
    <2>1. Adding' = {} /\ pc'[Main] = "collect" /\ closer' = "start"
      BY <1>0, <1>1 DEF Start, Adding
    <2> QED BY <2>1 DEF Quiet, DiesOnlyEarly, panicked, Enqueuing
  <1>2. CASE Collect \/ Return \/ ContextEnds
    <2>1. UNCHANGED <<wg, closer, early>>
      BY <1>2 DEF Collect, Return, ContextEnds, shared, history
    <2>2. pc' = pc \/ (pc[Main] = "collect" /\ Goto(Main, "returned"))
      BY <1>2 DEF Collect, Return, ContextEnds, actors
    <2>3. Adding' = Adding /\ (pc'[Main] \in Enqueuing => pc[Main] \in Enqueuing)
      BY <1>0, <2>2, GotoGroups DEF Adding, Goto, TypeOK, ActorsTypeOK, Enqueuing
    <2> QED BY <2>1, <2>3, QuietStays
  <1>3. CASE Wake /\ Panic
    <2>1. early
      BY <1>0, <1>3 DEF Wake, CloserGoto, Panic, Quiet
    <2> QED BY <1>3, <2>1, PanicIsEarly
  <1>4. CASE Close /\ ~(Wake /\ Panic)
    <2>1. UNCHANGED <<pc, wg, early>> /\ closer # "none" /\ closer' # "none" /\ closer' # "dead"
      BY <1>4 DEF Close, Wait, Wake, CloseTasks, CloseResults, CancelOwn, CloserGoto, shared, actors,
                  history
    <2>2. closer' = "blocked" \/ wg = 0 \/ closer \in {"tasks", "results", "cancel"}
      BY <1>4 DEF Close, Wait, Wake, CloseTasks, CloseResults, CancelOwn, CloserGoto
    <2>3. Adding' = Adding
      BY <2>1 DEF Adding
    <2> QED BY <2>1, <2>2, <2>3 DEF Quiet, DiesOnlyEarly, panicked
  <1> QED BY <1>1, <1>2, <1>3, <1>4

LEMMA QuietStep ==
  ASSUME Inv, Quiet, DiesOnlyEarly, [Next]_vars
  PROVE  Quiet' /\ DiesOnlyEarly'
  <1>1. CASE UNCHANGED vars
    BY <1>1 DEF vars, shared, actors, history, Quiet, DiesOnlyEarly, Adding, panicked
  <1>2. CASE panicked
    BY <1>1, <1>2, NothingAfterPanic
  <1>3. CASE ~panicked /\ Next
    BY <1>3, CallerKeepsQuiet, WorkKeepsQuiet, RestKeepsQuiet DEF Next, Call
  <1> QED BY <1>1, <1>2, <1>3

\* The process dies only when the wait group came to zero while a goroutine was
\* between sending a task and adding it to the group: a send that was added in
\* time never meets a closed channel, nor does a result.
THEOREM DiesOnlyEarlyHolds == Spec => []DiesOnlyEarly
  <1>1. Init => Quiet /\ DiesOnlyEarly
    BY DEF Init, Quiet, DiesOnlyEarly, panicked
  <1>2. Inv /\ (Quiet /\ DiesOnlyEarly) /\ [Next]_vars => (Inv /\ (Quiet /\ DiesOnlyEarly))'
    BY InvStep, QuietStep
  <1>3. Quiet /\ DiesOnlyEarly => DiesOnlyEarly
    OBVIOUS
  <1> QED BY <1>1, <1>2, InitInv, PTL DEF Spec

-----------------------------------------------------------------------------
(* Every page in one place *)

\* A page is on its way from its visit to its delivery: with an actor that sends
\* it or a worker that processes it, or in the channel.
Carriers == {a \in Actor : pc[a] \in Delivering \cup {"send"}}
Carried(a) == IF pc[a] = "send" THEN Head(todo[a]) ELSE held[a].page
Out == results \cup collected

\* What OnceEach needs to be inductive: a page in any place was visited before.
Once ==
  /\ \A i, j \in DOMAIN tasks : tasks[i].page = tasks[j].page => i = j
  /\ \A a, b \in Carriers : Carried(a) = Carried(b) => a = b
  /\ \A i \in DOMAIN tasks, a \in Carriers : tasks[i].page # Carried(a)
  /\ \A i \in DOMAIN tasks : tasks[i].page \in visited \ Out
  /\ \A a \in Carriers : Carried(a) \in visited \ Out
  /\ Out \subseteq visited

LEMMA OnceIsOnceEach ==
  ASSUME TypeOK, Once
  PROVE  OnceEach
  <1> SUFFICES ASSUME NEW p \in Page PROVE Cardinality(Places(p)) <= 1
    BY DEF OnceEach
  <1>1. \A x, y \in Places(p) : x = y
    <2>1. \A i, j \in DOMAIN tasks : tasks[i].page = p /\ tasks[j].page = p => i = j
      BY DEF Once
    <2>2. \A a, b \in Carriers : Carried(a) = p /\ Carried(b) = p => a = b
      BY DEF Once
    <2>3. \A w \in Worker : pc[w] \in Delivering /\ held[w].page = p
                            => w \in Carriers /\ Carried(w) = p /\ pc[w] # "send"
      BY DEF Carriers, Carried, Actor, Delivering
    <2>4. \A a \in Actor : pc[a] = "send" /\ Head(todo[a]) = p => a \in Carriers /\ Carried(a) = p
      BY DEF Carriers, Carried
    <2>5. \A i \in DOMAIN tasks : tasks[i].page = p
                                  => p \notin Out /\ \A a \in Carriers : Carried(a) # p
      BY DEF Once
    <2>6. \A a \in Carriers : Carried(a) = p => p \notin Out
      BY DEF Once
    <2> DEFINE T == {<<"task", i>> : i \in {k \in DOMAIN tasks : tasks[k].page = p}}
               W == {<<"worker", w>> : w \in {v \in Worker : pc[v] \in Delivering /\ held[v].page = p}}
               S == {<<"sender", a>> : a \in {b \in Actor : pc[b] = "send" /\ Head(todo[b]) = p}}
               D == IF p \in results \cup collected THEN {<<"delivered">>} ELSE {}
    <2>7. Places(p) = T \cup W \cup S \cup D
      BY DEF Places
    <2>8. \A x, y \in T : x = y
      BY <2>1
    <2>9. \A x, y \in W : x = y
      BY <2>2, <2>3
    <2>10. \A x, y \in S : x = y
      BY <2>2, <2>4
    <2>11. \A x, y \in D : x = y
      OBVIOUS
    <2>12. T # {} => W = {} /\ S = {} /\ D = {}
      BY <2>3, <2>4, <2>5 DEF Out
    <2>13. W # {} => S = {} /\ D = {}
      BY <2>2, <2>3, <2>4, <2>6 DEF Out
    <2>14. S # {} => D = {}
      BY <2>4, <2>6 DEF Out
    <2> HIDE DEF T, W, S, D
    <2> QED BY <2>7, <2>8, <2>9, <2>10, <2>11, <2>12, <2>13, <2>14
  <1>2. CASE Places(p) = {}
    BY <1>2, FS_EmptySet
  <1>3. CASE Places(p) # {}
    <2>1. PICK x : x \in Places(p)
      BY <1>3
    <2>2. Places(p) = {x}
      BY <1>1, <2>1
    <2> QED BY <2>2, FS_Singleton
  <1> QED BY <1>2, <1>3

\* What a step to another label does to the carriers.
LEMMA GotoCarriers ==
  ASSUME TypeOK, NEW a \in Actor, NEW label, Goto(a, label)
  PROVE  /\ Carriers' = IF label \in Delivering \cup {"send"} THEN Carriers \cup {a}
                                                              ELSE Carriers \ {a}
         /\ pc'[a] = label
         /\ \A b \in Actor \ {a} : pc'[b] = pc[b]
  BY DEF TypeOK, ActorsTypeOK, Goto, Carriers

\* Steps after which there are no places that there were not before.
LEMMA FewerPlaces ==
  ASSUME Once, UNCHANGED tasks, Carriers' \subseteq Carriers, Out' \subseteq Out,
         \A a \in Carriers' : Carried(a)' = Carried(a), visited \subseteq visited'
  PROVE  Once'
  BY DEF Once

\* A page may get lost on its way, but none is forgotten.
Known(p) ==
  \/ p \in Out \cup lost
  \/ \E i \in DOMAIN tasks : tasks[i].page = p
  \/ \E a \in Carriers : Carried(a) = p
NoneForgotten == \A p \in visited' : Known(p)' \/ (p \in visited /\ ~Known(p))

LEMMA StillKnown ==
  ASSUME UNCHANGED tasks, Out \cup lost \subseteq (Out \cup lost)',
         \A a \in Carriers : \/ a \in Carriers' /\ Carried(a)' = Carried(a)
                             \/ Carried(a) \in (Out \cup lost)',
         \A p \in visited' \ visited : Known(p)'
  PROVE  NoneForgotten
  BY DEF NoneForgotten, Known

LEMMA VisitKeepsOnce ==
  ASSUME Inv, Once, NEW a \in Actor, Visit(a)
  PROVE  Once' /\ NoneForgotten
  <1>0. TypeOK /\ pc[a] = "visit" /\ a \notin Carriers
    BY DEF Inv, Visit, Carriers, Delivering
  <1> DEFINE p == Head(todo[a])
  <1>1. UNCHANGED <<tasks, results, collected, held, lost>> /\ Out' = Out
    BY DEF Visit, chans, history, Out
  <1>2. CASE p \in visited
    <2>1. Carriers' = Carriers /\ \A b \in Carriers : Carried(b)' = Carried(b)
      <3>1. NextURL(a)
        BY <1>2 DEF Visit
      <3>2. Carriers' = Carriers \ {a} /\ \A b \in Actor \ {a} : pc'[b] = pc[b]
        BY <1>0, <3>1, GotoCarriers DEF NextURL, Delivering
      <3>3. \A b \in Actor \ {a} : todo'[b] = todo[b]
        BY <1>0, <3>1 DEF NextURL, TypeOK, ActorsTypeOK
      <3> QED BY <1>0, <1>1, <3>2, <3>3 DEF Carried, Carriers
    <2>2. visited' = visited
      BY <1>2 DEF Visit
    <2> QED BY <1>1, <2>1, <2>2, FewerPlaces, StillKnown
  <1>3. CASE p \notin visited
    <2>1. Goto(a, "send") /\ UNCHANGED todo /\ visited' = visited \cup {p}
      BY <1>3 DEF Visit, Mark
    <2>2. /\ Carriers' = Carriers \cup {a} /\ pc'[a] = "send"
          /\ \A b \in Actor \ {a} : pc'[b] = pc[b]
      BY <1>0, <2>1, GotoCarriers
    <2>3. Carried(a)' = p /\ \A b \in Carriers : Carried(b)' = Carried(b)
      BY <1>0, <1>1, <2>1, <2>2 DEF Carried, Carriers
    <2>4. NoneForgotten
      <3>1. \A q \in visited' \ visited : Known(q)'
        BY <2>1, <2>2, <2>3 DEF Known
      <3> QED BY <1>1, <2>2, <2>3, <3>1, StillKnown
    <2>5. Once'
      <3>1. \A b \in Carriers : Carried(b) # p
        BY <1>3 DEF Once
      <3>2. \A i \in DOMAIN tasks : tasks[i].page # p
        BY <1>3 DEF Once
      <3> HIDE DEF p
      <3>3. p \notin Out
        BY <1>3 DEF Once
      <3> QED BY <1>1, <2>1, <2>2, <2>3, <3>1, <3>2, <3>3 DEF Once
    <2> QED BY <2>4, <2>5
  <1> QED BY <1>2, <1>3

LEMMA SendKeepsOnce ==
  ASSUME Inv, Once, NEW a \in Actor, pc[a] = "send", SendTask(a),
         UNCHANGED <<results, collected, visited, held, lost>>
  PROVE  Once' /\ NoneForgotten
  <1>0. TypeOK /\ a \in Carriers
    BY DEF Inv, Carriers
  <1> DEFINE t == TaskFor(a)
             n == Len(tasks)
  <1>1. Carriers' = Carriers \ {a} /\ \A b \in Carriers' : Carried(b)' = Carried(b)
    <2>1. Carriers' = Carriers \ {a} /\ \A b \in Actor \ {a} : pc'[b] = pc[b]
      BY <1>0, GotoCarriers DEF SendTask, Delivering
    <2> QED BY <2>1 DEF SendTask, Carried, Carriers
  <1>2. t.page = Carried(a) /\ t \in Task
    BY <1>0, TaskForType DEF TaskFor, Carried, Inv
  <1> HIDE DEF t
  <1>3. /\ DOMAIN tasks = 1 .. n /\ DOMAIN tasks' = 1 .. n + 1 /\ n \in Nat
        /\ \A i \in 1 .. n : tasks'[i] = tasks[i]
        /\ tasks'[n + 1] = t
    <2>1. tasks' = Append(tasks, t) /\ tasks \in Seq(Task)
      BY <1>0 DEF SendTask, TypeOK, TasksTypeOK, t
    <2> QED BY <1>2, <2>1, AppendProperties, LenProperties
  <1> HIDE DEF n
  <1>4. Out' = Out /\ visited' = visited
    BY DEF Out
  <1>5. Carried(a) \in visited \ Out /\ \A i \in DOMAIN tasks : tasks[i].page # Carried(a)
    BY <1>0 DEF Once
  <1>6. Once'
    <2>1. \A i, j \in DOMAIN tasks' : tasks'[i].page = tasks'[j].page => i = j
      <3>1. \A i \in 1 .. n : tasks'[i].page # Carried(a)
        BY <1>3, <1>5
      <3>2. \A i, j \in 1 .. n : tasks'[i].page = tasks'[j].page => i = j
        BY <1>3 DEF Once
      <3>3. \A i \in DOMAIN tasks' : i \in 1 .. n \/ i = n + 1
        BY <1>3
      <3> QED BY <1>2, <1>3, <3>1, <3>2, <3>3
    <2>2. \A i \in DOMAIN tasks' : tasks'[i].page = Carried(a)
                                   \/ (i \in DOMAIN tasks /\ tasks'[i].page = tasks[i].page)
      BY <1>2, <1>3
    <2>3. \A i \in DOMAIN tasks', b \in Carriers' : tasks'[i].page # Carried(b)'
      BY <1>0, <1>1, <2>2 DEF Once
    <2>4. \A i \in DOMAIN tasks' : tasks'[i].page \in visited' \ Out'
      BY <1>4, <1>5, <2>2 DEF Once
    <2>5. \A b, c \in Carriers' : Carried(b)' = Carried(c)' => b = c
      BY <1>1 DEF Once
    <2>6. \A b \in Carriers' : Carried(b)' \in visited' \ Out'
      BY <1>1, <1>4 DEF Once
    <2> QED BY <1>4, <2>1, <2>3, <2>4, <2>5, <2>6 DEF Once
  <1>7. NoneForgotten
    <2> SUFFICES ASSUME NEW q \in visited, Known(q) PROVE Known(q)'
      BY <1>4 DEF NoneForgotten
    <2>1. CASE q \in Out \cup lost
      BY <1>4, <2>1 DEF Known
    <2>2. CASE \E i \in DOMAIN tasks : tasks[i].page = q
      BY <1>3, <2>2 DEF Known
    <2>3. CASE \E b \in Carriers : Carried(b) = q
      <3>1. CASE Carried(a) = q
        <4>1. n + 1 \in DOMAIN tasks' /\ tasks'[n + 1].page = q
          BY <1>2, <1>3, <3>1
        <4> QED BY <4>1 DEF Known
      <3>2. CASE Carried(a) # q
        BY <1>1, <2>3, <3>2 DEF Known
      <3> QED BY <3>1, <3>2
    <2> QED BY <2>1, <2>2, <2>3 DEF Known
  <1> QED BY <1>6, <1>7

\* Steps of an actor that do not add a place: it goes on with what it has, or its
\* page is delivered, is lost or is given up.
LEMMA GoOnKeepsOnce ==
  ASSUME Inv, Once, NEW a \in Actor, NEW label, Goto(a, label), label # "send",
         a \notin Carriers => label \notin Delivering,
         a \in Carriers /\ label \in Delivering => pc[a] # "send" /\ held'[a] = held[a],
         \A b \in Actor \ {a} : todo'[b] = todo[b],
         \A b \in Worker \ {a} : held'[b] = held[b],
         UNCHANGED <<tasks, visited, Out>>, lost \subseteq lost'
  PROVE  /\ Once'
         /\ \/ NoneForgotten
            \/ a \in Carriers /\ Carried(a) \notin lost' /\ label \notin Delivering
  <1>0. TypeOK
    BY DEF Inv
  <1>1. /\ Carriers' = IF label \in Delivering THEN Carriers \cup {a} ELSE Carriers \ {a}
        /\ pc'[a] = label /\ \A b \in Actor \ {a} : pc'[b] = pc[b]
    BY <1>0, GotoCarriers
  <1>2. \A b \in Carriers \ {a} : b \in Actor /\ (pc[b] # "send" => b \in Worker)
    BY <1>0 DEF TypeOK, ActorsTypeOK, Carriers, Actor, Delivering, Enqueuing
  <1>3. \A b \in Carriers \ {a} : Carried(b)' = Carried(b)
    BY <1>1, <1>2 DEF Carried
  <1>4. label \in Delivering => a \in Carriers /\ Carried(a)' = Carried(a)
    BY <1>1 DEF Carried
  <1>5. Carriers' \subseteq Carriers /\ \A b \in Carriers' : Carried(b)' = Carried(b)
    BY <1>1, <1>3, <1>4
  <1>6. Once'
    BY <1>5, FewerPlaces
  <1>7. ASSUME a \notin Carriers \/ Carried(a) \in lost' \/ label \in Delivering
        PROVE  NoneForgotten
    <2>1. \A b \in Carriers : b \in Carriers' \/ Carried(b) \in (Out \cup lost)'
      BY <1>1, <1>7
    <2>2. Out \cup lost \subseteq (Out \cup lost)'
      OBVIOUS
    <2> QED BY <1>5, <2>1, <2>2, StillKnown
  <1> QED BY <1>6, <1>7

LEMMA ReceiveKeepsOnce ==
  ASSUME Inv, Once, NEW w \in Worker, Receive(w)
  PROVE  Once' /\ NoneForgotten
  <1>0. TypeOK /\ w \in Actor /\ w \notin Carriers
    BY DEF Inv, Actor, Receive, Carriers, Delivering
  <1>1. UNCHANGED <<results, collected, visited, todo, lost>> /\ Out' = Out
    BY DEF Receive, shared, history, Out
  <1>2. CASE Goto(w, "exited") /\ UNCHANGED <<tasks, held>>
    BY <1>0, <1>1, <1>2, GoOnKeepsOnce DEF Delivering
  <1>3. CASE /\ tasks # <<>> /\ held' = [held EXCEPT ![w] = Head(tasks)]
             /\ tasks' = Tail(tasks) /\ Goto(w, "take")
    <2> DEFINE n == Len(tasks)
               p == tasks[1].page
    <2>1. /\ n \in Nat \ {0} /\ DOMAIN tasks = 1 .. n /\ DOMAIN tasks' = 1 .. n - 1
          /\ \A i \in 1 .. n - 1 : tasks'[i] = tasks[i + 1]
          /\ Head(tasks) = tasks[1]
      <3>1. tasks \in Seq(Task) /\ tasks # <<>>
        BY <1>0, <1>3 DEF TypeOK, TasksTypeOK
      <3>2. tasks \in Seq(Task) /\ n \in Nat /\ n # 0 /\ DOMAIN tasks = 1 .. n
        BY <3>1, EmptySeq, LenProperties
      <3>3. Tail(tasks) \in Seq(Task) /\ Len(Tail(tasks)) = n - 1
        BY <3>1, HeadTailProperties
      <3>4. DOMAIN tasks' = 1 .. n - 1
        BY <1>3, <3>3, LenProperties
      <3>5. \A i \in 1 .. n - 1 : tasks'[i] = tasks[i + 1]
        BY <1>3, <3>1, <3>2, HeadTailProperties
      <3> QED BY <3>1, <3>2, <3>4, <3>5, HeadTailProperties
    <2> HIDE DEF n
    <2>2. /\ Carriers' = Carriers \cup {w} /\ pc'[w] = "take"
          /\ \A b \in Actor \ {w} : pc'[b] = pc[b]
      BY <1>0, <1>3, GotoCarriers DEF Delivering
    <2>3. held'[w] = tasks[1] /\ \A b \in Worker \ {w} : held'[b] = held[b]
      BY <1>0, <1>3, <2>1 DEF TypeOK, ActorsTypeOK
    <2>4. Carried(w)' = p
      BY <2>2, <2>3 DEF Carried
    <2>5. \A b \in Carriers : Carried(b)' = Carried(b)
      <3>1. \A b \in Carriers : b \in Actor \ {w} /\ (pc[b] # "send" => b \in Worker)
        BY <1>0, ConstantsAssumption
        DEF TypeOK, ActorsTypeOK, Carriers, Actor, Delivering, Enqueuing
      <3> QED BY <1>1, <2>2, <2>3, <3>1 DEF Carried
    <2>6. p \in visited \ Out /\ \A b \in Carriers : Carried(b) # p
      BY <2>1 DEF Once
    <2>7. \A i \in DOMAIN tasks' : /\ i + 1 \in DOMAIN tasks /\ tasks'[i] = tasks[i + 1]
                                   /\ tasks'[i].page # p
      <3>1. \A i \in DOMAIN tasks' : i + 1 \in DOMAIN tasks /\ tasks'[i] = tasks[i + 1]
                                     /\ 1 \in DOMAIN tasks /\ i + 1 # 1
        BY <2>1
      <3> QED BY <3>1 DEF Once
    <2>8. Once'
      <3>1. \A i, j \in DOMAIN tasks' : tasks'[i].page = tasks'[j].page => i = j
        <4>1. \A i, j \in DOMAIN tasks' : tasks'[i].page = tasks'[j].page => i + 1 = j + 1
          BY <2>7 DEF Once
        <4>2. DOMAIN tasks' \subseteq Int
          BY <2>1
        <4> QED BY <4>1, <4>2
      <3>2. \A i \in DOMAIN tasks', b \in Carriers' : tasks'[i].page # Carried(b)'
        BY <2>2, <2>4, <2>5, <2>7 DEF Once
      <3>3. \A i \in DOMAIN tasks' : tasks'[i].page \in visited' \ Out'
        BY <1>1, <2>7 DEF Once
      <3>4. \A b, c \in Carriers' : Carried(b)' = Carried(c)' => b = c
        BY <2>2, <2>4, <2>5, <2>6 DEF Once
      <3>5. \A b \in Carriers' : Carried(b)' \in visited' \ Out'
        BY <1>1, <2>2, <2>4, <2>5, <2>6 DEF Once
      <3> QED BY <1>1, <3>1, <3>2, <3>3, <3>4, <3>5 DEF Once
    <2>9. NoneForgotten
      <3> SUFFICES ASSUME NEW q \in visited, Known(q) PROVE Known(q)'
        BY <1>1 DEF NoneForgotten
      <3>1. CASE q \in Out \cup lost
        BY <1>1, <3>1 DEF Known
      <3>2. CASE \E i \in DOMAIN tasks : tasks[i].page = q
        <4>1. PICK i \in DOMAIN tasks : tasks[i].page = q
          BY <3>2
        <4>2. CASE i = 1
          BY <2>2, <2>4, <4>1, <4>2 DEF Known
        <4>3. CASE i # 1
          <5>1. i - 1 \in DOMAIN tasks' /\ tasks'[i - 1] = tasks[i]
            BY <2>1, <4>3
          <5> QED BY <4>1, <5>1 DEF Known
        <4> QED BY <4>2, <4>3
      <3>3. CASE \E b \in Carriers : Carried(b) = q
        BY <2>2, <2>5, <3>3 DEF Known
      <3> QED BY <3>1, <3>2, <3>3 DEF Known
    <2> QED BY <2>8, <2>9
  <1> QED BY <1>2, <1>3 DEF Receive

LEMMA DeliverKeepsOnce ==
  ASSUME Inv, Once, NEW w \in Worker, Deliver(w), ~Panic
  PROVE  Once' /\ NoneForgotten
  <1>0. TypeOK /\ w \in Actor /\ w \in Carriers /\ Carried(w) = held[w].page
    BY DEF Inv, Actor, Deliver, Carriers, Carried, Delivering
  <1> DEFINE p == Carried(w)
             links == LinksToFollow(held[w])
  <1>1. /\ results' = results \cup {p} /\ todo' = [todo EXCEPT ![w] = links]
        /\ Goto(w, "link") /\ UNCHANGED <<tasks, collected, visited, held, lost>>
    BY <1>0 DEF Deliver, shared, history
  <1> HIDE DEF p, links
  <1>2. Out' = Out \cup {p}
    BY <1>1 DEF Out
  <1>3. Carriers' = Carriers \ {w} /\ \A b \in Carriers' : Carried(b)' = Carried(b)
    <2>1. Carriers' = Carriers \ {w} /\ \A b \in Actor \ {w} : pc'[b] = pc[b]
      BY <1>0, <1>1, GotoCarriers DEF Delivering
    <2>2. \A b \in Actor \ {w} : todo'[b] = todo[b]
      BY <1>0, <1>1 DEF TypeOK, ActorsTypeOK
    <2> QED BY <1>1, <2>1, <2>2 DEF Carried, Carriers
  <1>4. /\ p \in visited
        /\ \A i \in DOMAIN tasks : tasks[i].page # p
        /\ \A b \in Carriers \ {w} : Carried(b) # p
    BY <1>0 DEF Once, p
  <1>5. Once'
    BY <1>1, <1>2, <1>3, <1>4 DEF Once
  <1>6. NoneForgotten
    <2>1. \A b \in Carriers : b \in Carriers' \/ Carried(b) \in (Out \cup lost)'
      BY <1>2, <1>3 DEF p
    <2>2. Out \cup lost \subseteq (Out \cup lost)'
      BY <1>1, <1>2
    <2> QED BY <1>1, <1>3, <2>1, <2>2, StillKnown
  <1> QED BY <1>5, <1>6

LEMMA PanicKeepsOnce ==
  ASSUME Inv, Once, Panic
  PROVE  Once'
  <1>1. Carriers' = {} /\ UNCHANGED <<tasks, visited>> /\ Out' = Out
    BY DEF Panic, Carriers, Actor, Delivering, chans, shared, Out
  <1> QED BY <1>1, FewerPlaces

\* A page is given up only by a select that finds the context done.
GivesUp == ctxDone /\ \E a \in Actor : pc[a] = "send"

LEMMA EnqueueKeepsOnce ==
  ASSUME Inv, Once, NEW a \in Actor, Enqueue(a)
  PROVE  Once' /\ (NoneForgotten \/ GivesUp \/ Panic)
  <1>0. TypeOK /\ todo \in [Actor -> Seq(Page)]
    BY DEF Inv, TypeOK, ActorsTypeOK
  <1>1. CASE Filter(a)
    <2>1. /\ a \notin Carriers /\ UNCHANGED <<tasks, visited, held, lost>> /\ Out' = Out
          /\ \E label \in {"link", "visit"} : Goto(a, label)
          /\ \A b \in Actor \ {a} : todo'[b] = todo[b]
      BY <1>0, <1>1 DEF Filter, NextURL, Carriers, Delivering, chans, shared, history, Out
    <2> QED BY <2>1, GoOnKeepsOnce DEF Delivering
  <1>2. CASE Add(a)
    <2>1. /\ a \notin Carriers /\ UNCHANGED <<tasks, visited, held, lost>> /\ Out' = Out
          /\ Goto(a, "link")
          /\ \A b \in Actor \ {a} : todo'[b] = todo[b]
      BY <1>0, <1>2 DEF Add, NextURL, Carriers, Delivering, chans, history, Out
    <2> QED BY <2>1, GoOnKeepsOnce DEF Delivering
  <1>3. CASE Send(a) /\ ~Panic
    <2>1. /\ pc[a] = "send" /\ a \in Carriers /\ Carried(a) = Head(todo[a])
          /\ UNCHANGED <<results, collected, visited, held>> /\ Out' = Out
      BY <1>3 DEF Send, Carriers, Carried, shared, Out
    <2>2. CASE SendTask(a)
      BY <2>1, <2>2, SendKeepsOnce DEF SendTask
    <2>3. CASE DropTask(a)
      <3>1. /\ lost' = lost \cup {Carried(a)} /\ Goto(a, "link") /\ UNCHANGED tasks
            /\ \A b \in Actor \ {a} : todo'[b] = todo[b]
        BY <1>0, <2>1, <2>3 DEF DropTask, NextURL
      <3> QED BY <2>1, <3>1, GoOnKeepsOnce DEF Delivering
    <2>4. CASE GiveUpSending(a)
      <3>1. /\ ctxDone /\ Goto(a, "link") /\ UNCHANGED <<tasks, lost>>
            /\ \A b \in Actor \ {a} : todo'[b] = todo[b]
        BY <1>0, <2>4 DEF GiveUpSending, NextURL
      <3>2. Once'
        BY <2>1, <3>1, GoOnKeepsOnce DEF Delivering
      <3> QED BY <2>1, <3>1, <3>2 DEF GivesUp
    <2> QED BY <1>3, <2>2, <2>3, <2>4 DEF Send
  <1> QED BY <1>1, <1>2, <1>3, VisitKeepsOnce, PanicKeepsOnce DEF Enqueue

LEMMA WorkKeepsOnce ==
  ASSUME Inv, Once, NEW w \in Worker, Work(w)
  PROVE  Once' /\ (NoneForgotten \/ GivesUp \/ Panic)
  <1>0. w \in Actor /\ held \in [Worker -> Task \cup {None}]
    BY DEF Actor, Inv, TypeOK, ActorsTypeOK
  <1>1. CASE Take(w) \/ Fetch(w) \/ Count(w)
    <2>1. /\ w \in Carriers /\ Carried(w) = held[w].page /\ pc[w] # "send"
          /\ UNCHANGED <<tasks, visited, todo>> /\ Out' = Out
      BY <1>0, <1>1 DEF Take, Fetch, Count, Carriers, Carried, Delivering, chans, Out
    <2>2. CASE Lose(w)
      <3>1. /\ lost' = lost \cup {Carried(w)} /\ Goto(w, "idle")
            /\ \A b \in Worker \ {w} : held'[b] = held[b]
        BY <1>0, <2>1, <2>2 DEF Lose, Finish
      <3> QED BY <1>0, <2>1, <3>1, GoOnKeepsOnce DEF Delivering
    <2>3. CASE \E label \in {"fetch", "count", "deliver"} : Proceed(w, label)
      <3>1. /\ UNCHANGED <<held, lost>>
            /\ \E label \in {"fetch", "count", "deliver"} : Goto(w, label)
        BY <2>3 DEF Proceed, history
      <3> QED BY <1>0, <2>1, <3>1, GoOnKeepsOnce DEF Delivering
    <2> QED BY <1>1, <2>2, <2>3 DEF Take, Fetch, Count
  <1>2. CASE FinishPage(w)
    <2>1. /\ w \notin Carriers /\ Goto(w, "idle")
          /\ UNCHANGED <<tasks, visited, todo, lost>> /\ Out' = Out
          /\ \A b \in Worker \ {w} : held'[b] = held[b]
      BY <1>0, <1>2 DEF FinishPage, Finish, Carriers, Delivering, chans, Out
    <2> QED BY <1>0, <2>1, GoOnKeepsOnce DEF Delivering
  <1> QED BY <1>0, <1>1, <1>2, EnqueueKeepsOnce, ReceiveKeepsOnce, DeliverKeepsOnce, PanicKeepsOnce
          DEF Work

\* Run leaves its loop only through the closed channel: PageLimit leaves no page
\* in it when enough are collected.
LEMMA NeverEnough ==
  ASSUME Counted, Inv, results # {}
  PROVE  ~Enough
  <1>1. /\ Cardinality(results) \in Nat /\ Cardinality(results) # 0
        /\ Cardinality(collected) \in Nat /\ Cardinality(Deliverers) \in Nat
    BY FiniteDeliverers, FS_CardinalityType, FS_EmptySet DEF Counted
  <1> QED BY <1>1, ConstantsAssumption DEF Counted, PagesOut, Enough

LEMMA RestKeepsOnce ==
  ASSUME Inv, Counted, Once, Start \/ Collect \/ Return \/ Close \/ ContextEnds \/ UNCHANGED vars
  PROVE  Once' /\ (NoneForgotten \/ Panic)
  <1>0. TypeOK /\ Main \in Actor
    BY DEF Inv, Actor
  <1>1. ASSUME UNCHANGED <<tasks, visited, held, todo, lost>>, Out' = Out, Carriers' = Carriers,
               \A b \in Carriers : pc'[b] = pc[b]
        PROVE  Once' /\ NoneForgotten
    <2>1. \A b \in Carriers : Carried(b)' = Carried(b)
      BY <1>1 DEF Carried
    <2> QED BY <1>1, <2>1, FewerPlaces, StillKnown
  <1>2. CASE Start
    <2>1. Carriers = {} /\ Carriers' = {}
      BY <1>0, <1>2, ConstantsAssumption
      DEF Start, Carriers, Delivering, Enqueuing, Inv, Phases, Actor
    <2> QED BY <1>1, <1>2, <2>1 DEF Start, chans, shared, history, Out
  <1>3. CASE Collect
    <2>1. PICK p \in results : results' = results \ {p} /\ collected' = collected \cup {p}
                               /\ UNCHANGED pc
      BY <1>3, NeverEnough DEF Collect
    <2>2. Out' = Out /\ UNCHANGED <<tasks, visited, held, todo, lost>>
      BY <1>3, <2>1 DEF Collect, Out, shared, history
    <2> QED BY <1>1, <2>1, <2>2 DEF Carriers
  <1>4. CASE Return
    <2>1. Carriers' = Carriers /\ \A b \in Carriers : pc'[b] = pc[b]
      BY <1>0, <1>4, GotoCarriers DEF Return, Carriers, Delivering
    <2> QED BY <1>1, <1>4, <2>1 DEF Return, chans, shared, history, Out
  <1>5. CASE UNCHANGED <<chans, shared, actors, history>>
    BY <1>1, <1>5 DEF chans, shared, actors, history, Out, Carriers
  <1>6. Panic \/ UNCHANGED <<chans, shared, actors, history>> \/ Start \/ Collect \/ Return
    BY DEF Close, Wait, Wake, CloseTasks, CloseResults, CancelOwn, CloserGoto, ContextEnds, vars
  <1> QED BY <1>2, <1>3, <1>4, <1>5, <1>6, PanicKeepsOnce

LEMMA OnceStep ==
  ASSUME Inv, Counted, Once, [Next]_vars
  PROVE  Once' /\ (NoneForgotten \/ GivesUp \/ Panic)
  BY EnqueueKeepsOnce, WorkKeepsOnce, RestKeepsOnce DEF Next, Call, Actor

\* A page is only ever in one place: queued once, with one worker, with one
\* sender, or delivered, and what was delivered is never queued again.  So no
\* page is fetched twice in one crawl.
THEOREM OnceEachHolds == Spec => []OnceEach
  <1>1. Init => Once
    <2>1. Init => Carriers = {} /\ Out = {} /\ tasks = <<>>
      BY DEF Init, Carriers, Delivering, Out
    <2> QED BY <2>1 DEF Once
  <1>2. Inv /\ Counted /\ Once /\ [Next]_vars => (Inv /\ Counted /\ Once)'
    BY InvStep, CountedStep, OnceStep
  <1>3. Inv /\ Once => OnceEach
    BY OnceIsOnceEach DEF Inv
  <1> QED BY <1>1, <1>2, <1>3, InitInv, CountedInit, PTL DEF Spec

-----------------------------------------------------------------------------
(* Nothing forgotten *)

\* As long as Run is not canceled and the group not at zero early, every visited
\* page is in a place, delivered or lost.
Kept == ~stopped /\ ~early /\ ~panicked => \A p \in visited : Known(p)

\* Run's context ends from outside or when the crawl is over; Run returns when
\* its channels are closed and nothing is left in them.
Ended ==
  /\ ctxDone => stopped \/ closer \in {"end", "dead"} \/ pc[Main] = "returned"
  /\ pc[Main] = "returned" => ResultsClosed
  /\ pc[Main] = "returned" /\ ~early => results = {}

\* With the channels closed and the group not at zero early, all work is done.
LEMMA NothingLeft ==
  ASSUME Inv, Quiet, TasksClosed, ~early
  PROVE  tasks = <<>> /\ Busy = {} /\ Carriers = {}
  <1>1. ~panicked /\ closer # "none" /\ wg = 0 /\ Adding = {}
    BY DEF TasksClosed, panicked, Quiet
  <1>2. Len(tasks) + Cardinality(Busy) = 0
    BY <1>1, FS_EmptySet DEF Inv, GroupExact
  <1>3. Len(tasks) \in Nat /\ tasks \in Seq(Task)
    BY LenProperties DEF Inv, TypeOK, TasksTypeOK
  <1>4. Len(tasks) = 0 /\ Cardinality(Busy) = 0
    BY <1>2, <1>3, FiniteGroups
  <1>5. tasks = <<>> /\ Busy = {}
    BY <1>3, <1>4, EmptySeq, FiniteGroups, FS_EmptySet
  <1>6. pc[Main] \notin Delivering \cup {"send"}
    BY <1>1 DEF Quiet, Inv, TypeOK, ActorsTypeOK, Delivering, Enqueuing
  <1>7. Carriers = {}
    BY <1>5, <1>6 DEF Carriers, Busy, Actor, Enqueuing
  <1> QED BY <1>5, <1>7

LEMMA HistoryGrows ==
  ASSUME Inv, [Next]_vars
  PROVE  (stopped => stopped') /\ (early => early')
  <1>1. ASSUME NEW a \in Actor, Enqueue(a) PROVE stopped' = stopped /\ early' = early
    BY <1>1 DEF Enqueue, Filter, Visit, Send, Add, Panic, context, history
  <1>2. ASSUME NEW w \in Worker, Work(w) PROVE stopped' = stopped /\ (early => early')
    BY <1>1, <1>2 DEF Work, Receive, Take, Fetch, Count, Deliver, FinishPage, Lose, Finish,
                      LeaveGroup, Proceed, Panic, context, history, Actor
  <1>3. CASE Start \/ Collect \/ Return \/ Close \/ ContextEnds \/ UNCHANGED vars
    BY <1>3 DEF Start, Collect, Return, Close, Wait, Wake, CloseTasks, CloseResults, CancelOwn,
                CloserGoto, ContextEnds, Panic, context, history, vars
  <1> QED BY <1>1, <1>2, <1>3 DEF Next, Call, Actor

LEMMA KeptStep ==
  ASSUME Inv, Counted, Quiet, Once, Ended, Kept, [Next]_vars
  PROVE  Kept'
  <1> SUFFICES ASSUME ~stopped', ~early', ~panicked' PROVE \A p \in visited' : Known(p)'
    BY DEF Kept
  <1>1. ~stopped /\ ~early
    BY HistoryGrows
  <1>2. ~panicked
    BY NothingAfterPanic DEF panicked, vars
  <1>3. ~Panic
    BY DEF Panic, panicked
  <1>4. ~GivesUp
    <2> SUFFICES ASSUME ctxDone, NEW a \in Actor, pc[a] = "send" PROVE FALSE
      BY DEF GivesUp
    <2>1. closer = "end" \/ pc[Main] = "returned"
      BY <1>1, <1>2 DEF Ended, panicked
    <2>2. TasksClosed
      BY <2>1 DEF Ended, ResultsClosed, TasksClosed
    <2>3. a \in Carriers
      BY DEF Carriers
    <2> QED BY <1>1, <2>2, <2>3, NothingLeft
  <1>5. NoneForgotten
    BY <1>3, <1>4, OnceStep
  <1> QED BY <1>1, <1>2, <1>5 DEF NoneForgotten, Kept

\* Steps that leave the context, the closer and the caller as they are.
LEMMA EndedStays ==
  ASSUME Inv, Ended, UNCHANGED <<context, closer>>, pc'[Main] = pc[Main],
         pc[Main] = "returned" /\ ~early' => results' = results, early => early'
  PROVE  Ended'
  BY DEF Ended, ResultsClosed, context

LEMMA EndedStep ==
  ASSUME Inv, Counted, Quiet, Ended, [Next]_vars
  PROVE  Ended'
  <1>0. TypeOK /\ Main \in Actor /\ Main \notin Worker /\ (early => early')
    BY HistoryGrows, ConstantsAssumption DEF Inv, Actor
  <1>1. CASE Panic
    BY <1>0, <1>1 DEF Panic, Ended
  <1>2. CASE panicked
    BY <1>2, NothingAfterPanic DEF vars, chans, actors, context, history, Ended, ResultsClosed
  <1>3. CASE Enqueue(Main)
    <2>1. /\ pc[Main] \in Enqueuing /\ pc'[Main] # "returned"
          /\ UNCHANGED <<context, closer>> \/ Panic
      BY <1>0, <1>3
      DEF Enqueue, Filter, Visit, Send, SendTask, DropTask, GiveUpSending, Add, NextURL, Goto,
          Panic, Enqueuing, TypeOK, ActorsTypeOK
    <2>2. pc[Main] # "returned"
      BY <2>1 DEF Enqueuing
    <2> QED BY <1>1, <2>1, <2>2 DEF Ended, context
  <1>4. ASSUME NEW w \in Worker, Work(w), ~Panic, ~panicked
        PROVE  Ended'
    <2>1. pc'[Main] = pc[Main]
      BY <1>0, <1>4
      DEF Work, Receive, Take, Fetch, Count, Deliver, FinishPage, Lose, Finish, Proceed, Enqueue,
          Filter, Visit, Send, SendTask, DropTask, GiveUpSending, Add, NextURL, Goto, TypeOK,
          ActorsTypeOK
    <2>2. UNCHANGED context
      BY <1>4 DEF Work, Receive, Take, Fetch, Count, Deliver, FinishPage, Enqueue, Filter, Visit,
                  Send, Add
    <2>3. closer' = closer \/ (closer = "blocked" /\ closer' = "woken")
      BY <1>4 DEF Work, Receive, Take, Fetch, Count, Deliver, FinishPage, Lose, Finish, LeaveGroup,
                  Proceed, Enqueue, Filter, Visit, Send, Add
    <2>4. pc[Main] = "returned" => closer' = closer
      BY <2>3 DEF Ended, ResultsClosed
    <2>5. pc[Main] = "returned" /\ ~early' => results' = results
      <3> SUFFICES ASSUME pc[Main] = "returned", ~early' PROVE results' = results
        OBVIOUS
      <3>1. Busy = {}
        BY <1>0, NothingLeft DEF Ended, ResultsClosed, TasksClosed
      <3>2. ~Deliver(w)
        BY <3>1 DEF Deliver, Busy, Delivering
      <3> QED BY <1>4, <3>2 DEF Work, Receive, Take, Fetch, Count, FinishPage, Enqueue, Filter,
                  Visit, Send, Add, chans
    <2> QED BY <1>0, <2>1, <2>2, <2>3, <2>4, <2>5 DEF Ended, ResultsClosed, context
  <1>5. CASE Start
    <2>1. pc[Main] # "returned" /\ pc'[Main] = "collect" /\ UNCHANGED context /\ closer' = "start"
          /\ closer \in {"none"}
      BY <1>0, <1>5 DEF Start, Quiet, Enqueuing
    <2> QED BY <2>1 DEF Ended, context
  <1>6. CASE Collect
    <2>1. results # {}
      BY <1>6 DEF Collect
    <2>2. ~Enough
      BY <2>1, NeverEnough
    <2>3. UNCHANGED <<pc, context, closer>> /\ pc[Main] = "collect"
      BY <1>6, <2>2 DEF Collect, context
    <2> QED BY <2>3 DEF Ended, context
  <1>7. CASE Return
    <2>1. pc'[Main] = "returned" /\ ResultsClosed' /\ results' = {}
      BY <1>0, <1>7 DEF Return, Goto, chans, TypeOK, ActorsTypeOK, ResultsClosed
    <2> QED BY <2>1 DEF Ended
  <1>8. CASE Close /\ ~Panic
    <2>1. UNCHANGED <<pc, results>> /\ closer' # "none"
      BY <1>8 DEF Close, Wait, Wake, CloseTasks, CloseResults, CancelOwn, CloserGoto, chans, actors
    <2>2. \/ UNCHANGED context /\ closer \notin {"end", "dead"}
          \/ closer' = "end" /\ closer = "cancel"
      BY <1>8 DEF Close, Wait, Wake, CloseTasks, CloseResults, CancelOwn, CloserGoto
    <2>3. ResultsClosed => closer' = "end"
      BY <1>8 DEF Close, Wait, Wake, CloseTasks, CloseResults, CancelOwn, CloserGoto, ResultsClosed
    <2> QED BY <1>0, <2>1, <2>2, <2>3 DEF Ended, ResultsClosed, context
  <1>9. CASE ContextEnds
    BY <1>9 DEF ContextEnds, Ended, ResultsClosed, chans, actors, history
  <1>10. CASE UNCHANGED vars
    BY <1>10 DEF vars, chans, actors, context, history, Ended, ResultsClosed
  <1> QED BY <1>1, <1>2, <1>3, <1>4, <1>5, <1>6, <1>7, <1>8, <1>9, <1>10 DEF Next, Call

LEMMA KeptIsComplete ==
  ASSUME Inv, Quiet, Ended, Kept
  PROVE  Complete
  <1> SUFFICES ASSUME pc[Main] = "returned", ~early, ~stopped
               PROVE  visited \subseteq collected \cup lost
    BY DEF Complete
  <1>1. ResultsClosed /\ results = {} /\ ~panicked
    BY DEF Ended, Inv, Dead, Actor
  <1>2. tasks = <<>> /\ Carriers = {}
    BY <1>1, NothingLeft DEF ResultsClosed, TasksClosed
  <1>3. \A p \in visited : p \in Out \cup lost
    BY <1>1, <1>2 DEF Kept, Known
  <1> QED BY <1>1, <1>3 DEF Out

\* When Run returns without having been canceled, and the wait group was not at
\* zero early, every page it marked as visited is in the result or was lost on
\* its way: its fetch failed, the limit was reached or the channel was full.
THEOREM CompleteHolds == Spec => []Complete
  <1> DEFINE Whole == Inv /\ Counted /\ (Quiet /\ DiesOnlyEarly) /\ Once /\ Ended /\ Kept
  <1>1. Init => Whole
    <2> SUFFICES ASSUME Init PROVE Whole
      OBVIOUS
    <2>1. Quiet /\ DiesOnlyEarly
      BY DEF Init, Quiet, DiesOnlyEarly, panicked
    <2>2. Once
      <3>1. Carriers = {} /\ Out = {} /\ tasks = <<>>
        BY DEF Init, Carriers, Delivering, Out
      <3> QED BY <3>1 DEF Once
    <2>3. Ended /\ Kept
      BY DEF Init, Ended, Kept, Actor
    <2> QED BY <2>1, <2>2, <2>3, InitInv, CountedInit
  <1>2. Whole /\ [Next]_vars => Whole'
    BY InvStep, CountedStep, QuietStep, OnceStep, EndedStep, KeptStep
  <1>3. Whole => Complete
    BY KeptIsComplete
  <1> HIDE DEF Whole
  <1> QED BY <1>1, <1>2, <1>3, PTL DEF Spec
=============================================================================
