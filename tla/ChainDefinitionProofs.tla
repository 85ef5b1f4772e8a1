----------------------- MODULE ChainDefinitionProofs ------------------------
(* Theorems about ChainDefinition, for every finite set of nodes and edges. *)
EXTENDS ChainDefinition, SequenceTheorems, TLAPS

-----------------------------------------------------------------------------
(* The walk *)

Done == visited \ recStack

\* recStack is what is on the path, which has no node twice and follows edges.
OnPath ==
  /\ recStack = {path[i] : i \in 1 .. Len(path)}
  /\ \A i, j \in 1 .. Len(path) : path[i] = path[j] => i = j
  /\ \A i \in 1 .. Len(path) - 1 : <<path[i], path[i + 1]>> \in edges

\* A neighbor of a node on the path has yet to be looked at, or is done with, or is
\* the next one on the path.
LookedAt ==
  \A i \in 1 .. Len(path) : \A m \in Neighbors(path[i]) :
    m \in rest[path[i]] \/ m \in Done \/ (i < Len(path) /\ m = path[i + 1])

RestIsNeighbors == \A n \in Node : rest[n] \subseteq Neighbors(n)

\* Edges lead from what is done with to what is done with, and end there.
Closed == \A n \in Done : Neighbors(n) \subseteq Done
Ends == \A S \in SUBSET Done : S # {} => \E n \in S : \A m \in S : <<n, m>> \notin edges

WalkInv == ChainTypeOK /\ OnPath /\ LookedAt /\ RestIsNeighbors /\ Closed /\ Ends

\* What submission and deletion have seen of each other.
UseInv ==
  /\ chain = "deleted" <=> delete = "done"
  /\ delete = "checked" => chain = "stored"
  /\ ~overlapped /\ delete # "none" => submitting # "creating" /\ jobs = 0

Inv == WalkInv /\ ValidationExact /\ UseInv

LEMMA InitInv == ChainInit => Inv
  <1> SUFFICES ASSUME ChainInit PROVE Inv
    OBVIOUS
  <1>1. ChainTypeOK
    <2>1. path \in Seq(Node) /\ rest \in [Node -> SUBSET Node]
      BY DEF ChainInit
    <2> QED BY <2>1 DEF ChainInit, ChainTypeOK
  <1>2. OnPath /\ LookedAt
    BY DEF ChainInit, OnPath, LookedAt
  <1>3. RestIsNeighbors /\ Closed /\ Ends
    BY DEF ChainInit, RestIsNeighbors, Closed, Ends, Done
  <1>4. ValidationExact /\ UseInv
    BY DEF ChainInit, ValidationExact, UseInv
  <1> QED BY <1>1, <1>2, <1>3, <1>4 DEF Inv, WalkInv

\* The call for one more node: nothing is done with that was not.
LEMMA DfsKeeps ==
  ASSUME WalkInv, NEW n \in Node \ visited, NEW r \in [Node -> SUBSET Node],
         Dfs(n, r),
         \A k \in Node : r[k] \subseteq Neighbors(k),
         path # << >> => n \in Neighbors(Top),
         \A k \in Node : path = << >> \/ k # Top => r[k] = rest[k],
         path # << >> => \A m \in rest[Top] : m \in r[Top] \/ m = n
  PROVE  WalkInv'
  <1> USE DEF WalkInv, ChainTypeOK
  <1>0. chain' = chain /\ edges' = edges /\ UNCHANGED useVars
    BY DEF Dfs
  <1>1. ChainTypeOK'
    <2>1. path' \in Seq(Node) /\ visited' \subseteq Node /\ recStack' \subseteq visited'
      BY DEF Dfs
    <2>2. rest' \in [Node -> SUBSET Node]
      BY DEF Dfs, Neighbors
    <2> QED BY <1>0, <2>1, <2>2 DEF useVars
  <1>2. Done' = Done
    BY DEF Done, Dfs
  <1>3. /\ Len(path) \in Nat /\ Len(path') = Len(path) + 1
        /\ path'[Len(path) + 1] = n
        /\ \A i \in 1 .. Len(path) : path'[i] = path[i] /\ path[i] \in Node
    BY DEF Dfs
  <1>4. \A i \in 1 .. Len(path) : path[i] # n
    BY DEF OnPath
  <1>5. OnPath'
    <2>1. recStack' = {path'[i] : i \in 1 .. Len(path')}
      <3>1. recStack' = {path[i] : i \in 1 .. Len(path)} \cup {n}
        BY DEF OnPath, Dfs
      <3>2. \A x : (\E i \in 1 .. Len(path) + 1 : x = path'[i])
                     <=> x = n \/ \E i \in 1 .. Len(path) : x = path[i]
        BY <1>3
      <3> QED BY <3>1, <3>2, <1>3
    <2>2. \A i, j \in 1 .. Len(path') : path'[i] = path'[j] => i = j
      BY <1>3, <1>4 DEF OnPath
    <2>3. \A i \in 1 .. Len(path') - 1 : <<path'[i], path'[i + 1]>> \in edges'
      <3> SUFFICES ASSUME NEW i \in 1 .. Len(path)
                   PROVE  <<path'[i], path'[i + 1]>> \in edges
        BY <1>0, <1>3
      <3>1. CASE i = Len(path)
        BY <3>1, <1>3 DEF Top, Neighbors
      <3>2. CASE i < Len(path)
        BY <3>2, <1>3 DEF OnPath
      <3> QED BY <3>1, <3>2, <1>3
    <2> QED BY <2>1, <2>2, <2>3 DEF OnPath
  <1>6. Neighbors(n)' = Neighbors(n) /\ \A k \in Node : Neighbors(k)' = Neighbors(k)
    BY <1>0 DEF Neighbors
  <1>7. rest'[n] = Neighbors(n) /\ \A k \in Node : k # n => rest'[k] = r[k]
    BY DEF Dfs
  <1>8. RestIsNeighbors'
    BY <1>6, <1>7 DEF RestIsNeighbors
  <1>9. LookedAt'
    <2> SUFFICES ASSUME NEW i \in 1 .. Len(path'), NEW m \in Node,
                        <<path'[i], m>> \in edges
                 PROVE  \/ m \in rest'[path'[i]] \/ m \in Done'
                        \/ (i < Len(path') /\ m = path'[i + 1])
      BY <1>0 DEF LookedAt, Neighbors
    <2>1. CASE i = Len(path) + 1
      BY <2>1, <1>3, <1>7 DEF Neighbors
    <2>2. CASE i = Len(path)
      <3>1. path # << >> /\ path'[i] = Top /\ Top # n /\ Top \in Node
        BY <2>2, <1>3, <1>4 DEF Top
      <3>2. m \in Neighbors(Top)
        BY <3>1 DEF Neighbors
      <3>3. m \in rest[Top] \/ m \in Done
        BY <3>2, <2>2, <1>3 DEF LookedAt, Top
      <3> QED BY <3>1, <3>3, <2>2, <1>2, <1>3, <1>7
    <2>3. CASE i < Len(path)
      <3>1. path[i] \in Node /\ path[i] # n /\ path'[i] = path[i] /\ path'[i + 1] = path[i + 1]
        BY <2>3, <1>3, <1>4
      <3>2. path[i] # Top
        BY <2>3, <1>3 DEF OnPath, Top
      <3>3. m \in rest[path[i]] \/ m \in Done \/ m = path[i + 1]
        BY <3>1, <2>3, <1>3 DEF LookedAt, Neighbors
      <3> QED BY <3>1, <3>2, <3>3, <2>3, <1>2, <1>3, <1>7
    <2> QED BY <2>1, <2>2, <2>3, <1>3
  <1>10. Closed' /\ Ends'
    BY <1>0, <1>2 DEF Closed, Ends, Neighbors
  <1> QED BY <1>1, <1>5, <1>8, <1>9, <1>10

\* A node that is done with goes from the path to Done; what leads from it does
\* not lead back.
LEMMA LeaveKeeps == WalkInv /\ Leave => WalkInv'
  <1> SUFFICES ASSUME WalkInv, Leave PROVE WalkInv'
    OBVIOUS
  <1> USE DEF WalkInv, ChainTypeOK
  <1> DEFINE L == Len(path)
  <1>1. L \in Nat \ {0} /\ Top \in Node /\ Top = path[L] /\ rest[Top] = {}
    BY DEF Leave, Top
  <1>2. /\ Len(path') = L - 1
        /\ \A i \in 1 .. L - 1 : path'[i] = path[i]
    <2>1. path \in Seq(Node) /\ path' = SubSeq(path, 1, L - 1)
      BY DEF Leave
    <2>2. Len(SubSeq(path, 1, L - 1)) = L - 1
      <3>1. L - 1 \in Nat /\ \A i \in 1 .. L - 1 : path[i] \in Node
        BY <2>1, <1>1
      <3> HIDE DEF L
      <3> QED BY <3>1, SubSeqProperties
    <2>3. \A i \in 1 .. L - 1 : SubSeq(path, 1, L - 1)[i] = path[i]
      BY <2>1, <1>1
    <2> HIDE DEF L
    <2> QED BY <2>1, <2>2, <2>3
  <1>3. UNCHANGED <<edges, visited, rest, chain, useVars>> /\ recStack' = recStack \ {Top}
    BY DEF Leave
  <1>4. ChainTypeOK'
    <2>1. path' \in Seq(Node)
      BY <1>1 DEF Leave
    <2> QED BY <2>1, <1>3 DEF useVars
  <1>5. \A i \in 1 .. L - 1 : path[i] # Top
    BY <1>1 DEF OnPath
  <1>6. OnPath'
    <2>1. recStack' = {path'[i] : i \in 1 .. Len(path')}
      <3>1. \A x : x \in recStack <=> \E i \in 1 .. L : x = path[i]
        BY DEF OnPath
      <3>2. \A x : x \in recStack' <=> \E i \in 1 .. L - 1 : x = path[i]
        BY <1>1, <1>3, <1>5, <3>1
      <3> QED BY <3>2, <1>1, <1>2
    <2>2. \A i, j \in 1 .. Len(path') : path'[i] = path'[j] => i = j
      BY <1>1, <1>2 DEF OnPath
    <2>3. \A i \in 1 .. Len(path') - 1 : <<path'[i], path'[i + 1]>> \in edges'
      <3> SUFFICES ASSUME NEW i \in 1 .. Len(path') - 1
                   PROVE  <<path'[i], path'[i + 1]>> \in edges
        BY <1>3
      <3>1. i \in 1 .. L - 1 /\ i + 1 \in 1 .. L - 1
        BY <1>1, <1>2
      <3>2. path'[i] = path[i] /\ path'[i + 1] = path[i + 1]
        BY <3>1, <1>2
      <3> QED BY <3>1, <3>2 DEF OnPath
    <2> QED BY <2>1, <2>2, <2>3 DEF OnPath
  <1>7. Top \in recStack /\ Top \notin Done
    BY <1>1 DEF OnPath, Done
  <1>8. Done' = Done \cup {Top}
    BY <1>3, <1>7 DEF Done
  <1>9. Neighbors(Top) \subseteq Done
    BY <1>1 DEF LookedAt
  <1>10. \A k \in Node : Neighbors(k)' = Neighbors(k)
    BY <1>3 DEF Neighbors
  <1>11. Done \subseteq Node
    BY DEF Done
  <1>12. Closed' /\ RestIsNeighbors'
    BY <1>1, <1>3, <1>8, <1>9, <1>10, <1>11 DEF Closed, RestIsNeighbors
  <1>13. LookedAt'
    <2> SUFFICES ASSUME NEW i \in 1 .. L - 1, NEW m \in Neighbors(path[i])
                 PROVE  \/ m \in rest[path[i]] \/ m \in Done'
                        \/ (i < L - 1 /\ m = path'[i + 1])
      BY <1>1, <1>2, <1>3, <1>10 DEF LookedAt
    <2>1. m \in rest[path[i]] \/ m \in Done \/ m = path[i + 1]
      BY <1>1 DEF LookedAt
    <2>2. i = L - 1 => path[i + 1] = Top
      BY <1>1
    <2> QED BY <2>1, <2>2, <1>1, <1>2, <1>8
  <1>14. Ends'
    <2> SUFFICES ASSUME NEW S \in SUBSET (Done \cup {Top}), S # {}
                 PROVE  \E n \in S : \A m \in S : <<n, m>> \notin edges
      BY <1>3, <1>8 DEF Ends
    <2>1. CASE Top \notin S
      BY <2>1 DEF Ends
    <2>2. CASE S = {Top}
      BY <2>2, <1>1, <1>7, <1>9 DEF Neighbors
    <2>3. CASE Top \in S /\ S # {Top}
      <3>1. PICK n \in S \ {Top} : \A m \in S \ {Top} : <<n, m>> \notin edges
        BY <2>3 DEF Ends
      <3>2. <<n, Top>> \notin edges
        BY <3>1, <1>1, <1>7 DEF Closed, Neighbors
      <3> QED BY <3>1, <3>2
    <2> QED BY <2>1, <2>2, <2>3
  <1> QED BY <1>4, <1>6, <1>12, <1>13, <1>14

\* A call under way that is found again closes a cycle of the path from there on.
LEMMA CycleIsThere == WalkInv /\ CycleFound => Cyclic
  <1> SUFFICES ASSUME WalkInv, CycleFound PROVE Cyclic
    OBVIOUS
  <1> USE DEF WalkInv, ChainTypeOK
  <1> DEFINE L == Len(path)
  <1>1. L \in Nat \ {0} /\ Top \in Node /\ Top = path[L]
    BY DEF CycleFound, Top
  <1>2. PICK k \in 1 .. L : path[k] \in rest[Top]
    BY DEF CycleFound, OnPath
  <1>3. <<Top, path[k]>> \in edges
    BY <1>1, <1>2 DEF RestIsNeighbors, Neighbors
  <1> DEFINE S == {path[i] : i \in k .. L}
  <1>4. S \subseteq Node /\ S # {}
    BY <1>1
  <1>5. ASSUME NEW n \in S PROVE \E m \in S : <<n, m>> \in edges
    <2>1. PICK i \in k .. L : n = path[i]
      OBVIOUS
    <2>2. CASE i = L
      <3>1. path[k] \in S
        BY <1>1
      <3> QED BY <3>1, <2>1, <2>2, <1>1, <1>3
    <2>3. CASE i < L
      <3>1. i \in 1 .. L - 1 /\ i + 1 \in k .. L
        BY <2>3, <1>1
      <3>2. path[i + 1] \in S /\ <<path[i], path[i + 1]>> \in edges
        BY <3>1 DEF OnPath
      <3> QED BY <3>2, <2>1
    <2>4. i = L \/ i < L
      BY <1>1
    <2> QED BY <2>2, <2>3, <2>4
  <1> QED BY <1>4, <1>5 DEF Cyclic

\* Where every node is done with there is no cycle.
LEMMA StoredIsAcyclic == WalkInv /\ StoreChain => ~Cyclic
  <1> SUFFICES ASSUME WalkInv, StoreChain PROVE ~Cyclic
    OBVIOUS
  <1>1. recStack = {}
    BY DEF WalkInv, OnPath, StoreChain
  <1>2. Done = Node
    BY <1>1 DEF Done, StoreChain
  <1> QED BY <1>2 DEF WalkInv, Ends, Cyclic

\* Steps that leave the walk alone.
LEMMA WalkStays ==
  WalkInv /\ ChainTypeOK' /\ UNCHANGED <<edges, dfsVars>> => WalkInv'
  BY DEF WalkInv, dfsVars, OnPath, LookedAt, RestIsNeighbors, Closed, Ends, Done, Neighbors

LEMMA CreateKeeps == Inv /\ CreateChain => Inv'
  <1> SUFFICES ASSUME Inv, CreateChain PROVE Inv'
    OBVIOUS
  <1>0. chain = "checking" /\ chain' # "deleted" /\ UNCHANGED <<edges, useVars>>
    BY DEF CreateChain, SelfReference, NextRoot, Descend, SkipVisited, CycleFound, Leave,
           StoreChain, Dfs
  <1>1. Cyclic' <=> Cyclic
    BY <1>0 DEF Cyclic
  <1>2. UseInv'
    BY <1>0 DEF Inv, UseInv, useVars
  <1>3. CASE SelfReference
    <2>1. Cyclic
      <3>1. PICK n \in Node : <<n, n>> \in edges
        BY <1>3 DEF SelfReference
      <3>2. {n} \in SUBSET Node /\ {n} # {} /\ \A a \in {n} : \E b \in {n} : <<a, b>> \in edges
        BY <3>1
      <3> QED BY <3>2 DEF Cyclic
    <2>2. WalkInv'
      BY <1>3, WalkStays DEF SelfReference, Inv, WalkInv, ChainTypeOK, dfsVars, useVars
    <2> QED BY <2>1, <2>2, <1>1, <1>2, <1>3 DEF Inv, ValidationExact, SelfReference
  <1>4. CASE NextRoot
    <2>1. WalkInv'
      <3>1. PICK n \in Node \ visited : Dfs(n, rest)
        BY <1>4 DEF NextRoot
      <3>2. path = << >> /\ rest \in [Node -> SUBSET Node]
        BY <1>4 DEF NextRoot, Inv, WalkInv, ChainTypeOK
      <3>3. \A k \in Node : rest[k] \subseteq Neighbors(k)
        BY DEF Inv, WalkInv, RestIsNeighbors
      <3> QED BY <3>1, <3>2, <3>3, DfsKeeps DEF Inv
    <2>2. chain' = chain
      BY <1>4 DEF NextRoot, Dfs
    <2> QED BY <2>1, <2>2, <1>0, <1>2 DEF Inv, ValidationExact
  <1>5. CASE Descend \/ SkipVisited
    <2>0. path # << >> /\ path \in Seq(Node) /\ rest \in [Node -> SUBSET Node]
      BY <1>5 DEF Descend, SkipVisited, Inv, WalkInv, ChainTypeOK
    <2>1. Top \in Node /\ rest[Top] \subseteq Neighbors(Top) /\ Top = path[Len(path)]
          /\ Len(path) \in Nat \ {0}
      BY <2>0 DEF Top, Inv, WalkInv, RestIsNeighbors
    <2>2. \A m : /\ Looked(m) \in [Node -> SUBSET Node]
                 /\ Looked(m)[Top] = rest[Top] \ {m}
                 /\ \A k \in Node : k # Top => Looked(m)[k] = rest[k]
      BY <2>0, <2>1 DEF Looked
    <2>3. \A m : \A k \in Node : Looked(m)[k] \subseteq Neighbors(k)
      BY <2>1, <2>2 DEF Inv, WalkInv, RestIsNeighbors
    <2>4. WalkInv'
      <3>1. CASE Descend
        <4>1. PICK m \in rest[Top] \ visited : Dfs(m, Looked(m))
          BY <3>1 DEF Descend
        <4>2. m \in Node \ visited /\ m \in Neighbors(Top)
          BY <4>1, <2>1 DEF Neighbors
        <4>3. \A x \in rest[Top] : x \in Looked(m)[Top] \/ x = m
          BY <2>2
        <4> QED BY <4>1, <4>2, <4>3, <2>0, <2>2, <2>3, DfsKeeps DEF Inv
      <3>2. CASE SkipVisited
        <4>1. PICK m \in (rest[Top] \cap visited) \ recStack : rest' = Looked(m)
          BY <3>2 DEF SkipVisited
        <4>2. UNCHANGED <<edges, visited, recStack, path, chain, useVars>>
          BY <3>2 DEF SkipVisited
        <4>3. ChainTypeOK'
          BY <4>1, <4>2, <2>2 DEF Inv, WalkInv, ChainTypeOK, useVars
        <4>4. OnPath' /\ Closed' /\ Ends' /\ Done' = Done
          BY <4>2 DEF Inv, WalkInv, OnPath, Closed, Ends, Done, Neighbors
        <4>5. \A k \in Node : Neighbors(k)' = Neighbors(k)
          BY <4>2 DEF Neighbors
        <4>6. RestIsNeighbors'
          BY <4>1, <4>5, <2>3 DEF RestIsNeighbors
        <4>7. LookedAt'
          <5> SUFFICES ASSUME NEW i \in 1 .. Len(path), NEW x \in Neighbors(path[i])
                       PROVE  \/ x \in Looked(m)[path[i]] \/ x \in Done
                              \/ (i < Len(path) /\ x = path[i + 1])
            BY <4>1, <4>2, <4>4, <4>5, <2>0 DEF LookedAt
          <5>1. path[i] \in Node
            BY <2>0
          <5>2. m \in Done
            BY <4>1 DEF Done
          <5>3. \/ x \in rest[path[i]] \/ x \in Done
                \/ (i < Len(path) /\ x = path[i + 1])
            BY DEF Inv, WalkInv, LookedAt
          <5> QED BY <5>1, <5>2, <5>3, <2>2
        <4> QED BY <4>3, <4>4, <4>6, <4>7 DEF WalkInv
      <3> QED BY <3>1, <3>2, <1>5
    <2>5. chain' = chain
      BY <1>5 DEF Descend, SkipVisited, Dfs
    <2> QED BY <2>4, <2>5, <1>0, <1>2 DEF Inv, ValidationExact
  <1>6. CASE CycleFound
    <2>1. Cyclic
      BY <1>6, CycleIsThere DEF Inv
    <2>2. WalkInv'
      BY <1>6, WalkStays DEF CycleFound, Inv, WalkInv, ChainTypeOK, dfsVars, useVars
    <2> QED BY <2>1, <2>2, <1>1, <1>2, <1>6 DEF Inv, ValidationExact, CycleFound
  <1>7. CASE Leave
    <2>1. WalkInv' /\ chain' = chain
      BY <1>7, LeaveKeeps DEF Inv, Leave
    <2> QED BY <2>1, <1>0, <1>2 DEF Inv, ValidationExact
  <1>8. CASE StoreChain
    <2>1. ~Cyclic
      BY <1>8, StoredIsAcyclic DEF Inv
    <2>2. WalkInv'
      BY <1>8, WalkStays DEF StoreChain, Inv, WalkInv, ChainTypeOK, dfsVars, useVars
    <2> QED BY <2>1, <2>2, <1>1, <1>2, <1>8 DEF Inv, ValidationExact, StoreChain
  <1> QED BY <1>3, <1>4, <1>5, <1>6, <1>7, <1>8 DEF CreateChain

-----------------------------------------------------------------------------
(* Submission and deletion *)

LEMMA UseKeeps == Inv /\ UseChain => Inv'
  <1> SUFFICES ASSUME Inv, UseChain PROVE Inv'
    OBVIOUS
  <1> USE DEF Inv, UseInv, WalkInv, ChainTypeOK
  <1>1. UNCHANGED <<edges, dfsVars>>
    BY DEF UseChain, DeleteChain
  <1>2. ChainTypeOK'
    <2>1. created' \in Nat /\ jobs' \in Nat
      BY DEF UseChain, DeleteChain, GetChain, CreateChainJob, EndSubmit, JobDeleted, CheckJobs
    <2> QED BY <1>1, <2>1
        DEF UseChain, DeleteChain, GetChain, CreateChainJob, EndSubmit, JobDeleted, CheckJobs, dfsVars
  <1>3. WalkInv'
    BY <1>1, <1>2, WalkStays
  <1>4. ValidationExact'
    <2>1. Cyclic' <=> Cyclic
      BY <1>1 DEF Cyclic
    <2>2. chain' = chain \/ (chain' = "deleted" /\ delete = "checked")
      BY DEF UseChain, DeleteChain
    <2> QED BY <2>1, <2>2 DEF ValidationExact
  <1>5. UseInv'
    <2>1. CASE DeleteChain
      BY <2>1 DEF DeleteChain
    <2>2. CASE GetChain /\ chain' = chain
      BY <2>2 DEF GetChain
    <2>3. CASE (CreateChainJob \/ EndSubmit \/ JobDeleted) /\ chain' = chain
      BY <2>3 DEF CreateChainJob, EndSubmit, JobDeleted
    <2>4. CASE CheckJobs /\ chain' = chain
      BY <2>4 DEF CheckJobs
    <2> QED BY <2>1, <2>2, <2>3, <2>4 DEF UseChain
  <1> QED BY <1>3, <1>4, <1>5

LEMMA InvHolds == ChainSpec => []Inv
  <1>1. Inv /\ UNCHANGED chainVars => Inv'
    <2> SUFFICES ASSUME Inv, UNCHANGED chainVars PROVE Inv'
      OBVIOUS
    <2>1. WalkInv'
      BY WalkStays DEF Inv, WalkInv, chainVars, ChainTypeOK, dfsVars, useVars
    <2>2. ValidationExact' /\ UseInv'
      BY DEF Inv, chainVars, useVars, ValidationExact, Cyclic, UseInv
    <2> QED BY <2>1, <2>2 DEF Inv
  <1>2. Inv /\ [ChainNext]_chainVars => Inv'
    BY <1>1, CreateKeeps, UseKeeps DEF ChainNext
  <1> QED BY InitInv, <1>2, PTL DEF ChainSpec

\* hasCycle is right about every definition, whatever its nodes, its edges and their
\* order (chain.go), and the jobs of a chain that was deleted are those of a
\* submission that overlapped the deletion (manager_chain.go).
THEOREM ChainsSoundHolds == ChainSpec => []ChainsSound
  <1>1. Inv => ChainsSound
    BY DEF Inv, UseInv, WalkInv, ChainTypeOK, ChainsSound, NoOrphanJobs
  <1> QED BY <1>1, InvHolds, PTL
=============================================================================
