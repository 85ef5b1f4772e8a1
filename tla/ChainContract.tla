--------------------------- MODULE ChainContract ---------------------------
(***************************************************************************)
(* What a job chain promises to the client that submitted it, in terms of  *)
(* one status per job: a job starts once all its dependencies have         *)
(* succeeded, ends once, with a status that then stays, and fails without  *)
(* starting when a dependency did not succeed.                             *)
(***************************************************************************)
CONSTANTS Job, Deps

VARIABLE row   \* the status of each job, "absent" before it is created

Ended == {"succeeded", "failed", "canceled"}

Init == row = [j \in Job |-> "absent"]

Create(j) ==
  /\ row[j] = "absent"
  /\ row' = [row EXCEPT ![j] = "queued"]

Start(j) ==
  /\ row[j] = "queued"
  /\ \A p \in Deps[j] : row[p] = "succeeded"
  /\ row' = [row EXCEPT ![j] = "running"]

End(j) ==
  /\ row[j] = "running"
  /\ \E s \in Ended : row' = [row EXCEPT ![j] = s]

Forsake(j) ==
  /\ row[j] = "queued"
  /\ \E p \in Deps[j] : row[p] \in {"failed", "canceled"}
  /\ row' = [row EXCEPT ![j] = "failed"]

Next == \E j \in Job : Create(j) \/ Start(j) \/ End(j) \/ Forsake(j)

Spec == Init /\ [][Next]_row
=============================================================================
