-------------------------- MODULE ChainDefinition ---------------------------
(***************************************************************************)
(* A chain from its definition to its deletion (internal/model/chain.go,   *)
(* internal/jobs/manager_chain.go).  CreateChain validates the definition: *)
(* the recursion of hasCycle is a walk with the calls of dfs on a stack.   *)
(* What is stored may be submitted and, while it has no jobs, deleted;     *)
(* each of the two goes to the store more than once.                       *)
(*                                                                         *)
(* The order of the nodes and edges in the definition is any order.  IDs   *)
(* that are empty, doubled or unknown are refused before the walk.         *)
(***************************************************************************)
EXTENDS Naturals, Sequences, FiniteSets

CONSTANT Node   \* the nodes of the definition

ASSUME NodeAssumption == IsFiniteSet(Node)

VARIABLES
  edges,      \* the edges of the definition
  visited, recStack,
  path,       \* the calls of dfs under way, the innermost last
  rest,       \* rest[n]: the neighbors that the call for n has still to look at
  chain,      \* "checking", "rejected", "stored" or "deleted"
  submitting,     \* where SubmitChain is
  created,    \* the jobs it has created
  jobs,       \* the rows of jobs with this chain
  delete,     \* where DeleteChain is
  overlapped  \* history: the chain was read by SubmitChain, or was being
              \* submitted, between the two accesses of DeleteChain

dfsVars == <<visited, recStack, path, rest>>
useVars == <<submitting, created, jobs, delete, overlapped>>
chainVars == <<edges, dfsVars, chain, useVars>>

ChainTypeOK ==
  /\ edges \subseteq Node \X Node
  /\ visited \subseteq Node /\ recStack \subseteq visited
  /\ path \in Seq(Node)
  /\ rest \in [Node -> SUBSET Node]
  /\ chain \in {"checking", "rejected", "stored", "deleted"}
  /\ submitting \in {"none", "creating", "done"} /\ delete \in {"none", "checked", "done"}
  /\ created \in Nat /\ jobs \in Nat /\ overlapped \in BOOLEAN

ChainInit ==
  /\ edges \in SUBSET (Node \X Node)
  /\ visited = {} /\ recStack = {} /\ path = << >>
  /\ rest = [n \in Node |-> {}]
  /\ chain = "checking"
  /\ submitting = "none" /\ created = 0 /\ jobs = 0 /\ delete = "none" /\ overlapped = FALSE

-----------------------------------------------------------------------------
(* CreateChain *)

Neighbors(n) == {m \in Node : <<n, m>> \in edges}
Top == path[Len(path)]

\* dfs(n) begins; r is what the calls under way have still to look at.
Dfs(n, r) ==
  /\ visited' = visited \cup {n} /\ recStack' = recStack \cup {n}
  /\ path' = Append(path, n)
  /\ rest' = [r EXCEPT ![n] = Neighbors(n)]
  /\ UNCHANGED <<edges, chain, useVars>>

\* The next neighbor of the innermost call is dealt with.
Looked(m) == [rest EXCEPT ![Top] = rest[Top] \ {m}]

SelfReference ==
  /\ visited = {} /\ \E n \in Node : <<n, n>> \in edges
  /\ chain' = "rejected" /\ UNCHANGED <<edges, dfsVars, useVars>>

NextRoot ==
  /\ path = << >> /\ \A n \in Node : <<n, n>> \notin edges
  /\ \E n \in Node \ visited : Dfs(n, rest)

Descend ==
  /\ path # << >>
  /\ \E m \in rest[Top] \ visited : Dfs(m, Looked(m))

SkipVisited ==
  /\ path # << >>
  /\ \E m \in (rest[Top] \cap visited) \ recStack : rest' = Looked(m)
  /\ UNCHANGED <<edges, visited, recStack, path, chain, useVars>>

\* The neighbor is a call under way: true is returned through all of them.
CycleFound ==
  /\ path # << >> /\ rest[Top] \cap recStack # {}
  /\ chain' = "rejected" /\ UNCHANGED <<edges, dfsVars, useVars>>

LeaveOnStack ==
  /\ path # << >> /\ rest[Top] = {}
  /\ path' = SubSeq(path, 1, Len(path) - 1)
  /\ UNCHANGED <<edges, visited, recStack, rest, chain, useVars>>
Leave ==
  /\ path # << >> /\ rest[Top] = {}
  /\ recStack' = recStack \ {Top} /\ path' = SubSeq(path, 1, Len(path) - 1)
  /\ UNCHANGED <<edges, visited, rest, chain, useVars>>

StoreChain ==
  /\ path = << >> /\ visited = Node /\ \A n \in Node : <<n, n>> \notin edges
  /\ chain' = "stored" /\ UNCHANGED <<edges, dfsVars, useVars>>

CreateChain ==
  /\ chain = "checking"
  /\ SelfReference \/ NextRoot \/ Descend \/ SkipVisited \/ CycleFound \/ Leave \/ StoreChain

-----------------------------------------------------------------------------
(* SubmitChain and DeleteChain *)

GetChain ==
  /\ chain = "stored" /\ submitting = "none"
  /\ submitting' = "creating"
  /\ overlapped' = (overlapped \/ delete = "checked")
  /\ UNCHANGED <<created, jobs, delete>>

CreateChainJob ==
  /\ submitting = "creating" /\ created < Cardinality(Node)
  /\ created' = created + 1 /\ jobs' = jobs + 1
  /\ UNCHANGED <<submitting, delete, overlapped>>

\* All jobs are created, or a request is not valid, or a statement fails.
EndSubmit ==
  /\ submitting = "creating" /\ submitting' = "done"
  /\ UNCHANGED <<created, jobs, delete, overlapped>>

\* Retention or an operator.
JobDeleted ==
  /\ jobs > 0 /\ jobs' = jobs - 1
  /\ UNCHANGED <<submitting, created, delete, overlapped>>

\* GetJobsByChain; a chain with jobs is left alone.
CheckJobs ==
  /\ chain = "stored" /\ delete = "none" /\ jobs = 0
  /\ delete' = "checked"
  /\ overlapped' = (submitting = "creating")
  /\ UNCHANGED <<submitting, created, jobs>>

DeleteChain ==
  /\ delete = "checked"
  /\ delete' = "done" /\ chain' = "deleted"
  /\ UNCHANGED <<edges, dfsVars, submitting, created, jobs, overlapped>>

UseChain ==
  \/ DeleteChain
  \/ /\ GetChain \/ CreateChainJob \/ EndSubmit \/ JobDeleted \/ CheckJobs
     /\ UNCHANGED <<edges, dfsVars, chain>>

ChainNext == CreateChain \/ UseChain

ChainSpec == ChainInit /\ [][ChainNext]_chainVars

-----------------------------------------------------------------------------
(* Properties *)

\* A definition is cyclic if one can go on for ever somewhere in it.
Cyclic == \E S \in SUBSET Node : S # {} /\ \A n \in S : \E m \in S : <<n, m>> \in edges

\* hasCycle is right about every definition: what is stored, and becomes the
\* dependencies of jobs, has no cycle, and only what has one is refused.
ValidationExact ==
  /\ chain = "rejected" => Cyclic
  /\ chain \in {"stored", "deleted"} => ~Cyclic

\* "Only chains with no active jobs can be deleted" (manager_chain.go:81): jobs of a
\* chain that is gone are there only if it was submitted while it was deleted.
NoOrphanJobs == chain = "deleted" /\ jobs > 0 => overlapped

ChainsSound == ValidationExact /\ NoOrphanJobs

\* The walk ends.
Validated == chain # "checking"
=============================================================================
