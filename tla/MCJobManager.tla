--------------------------- MODULE MCJobManager ----------------------------
(* Small instances of JobManager: shapes of chains and symmetry. *)
EXTENDS JobManager, TLC

CONSTANTS a, b, c, d

\* a, then b and c, then d after both.
Diamond == [j \in {a, b, c, d} |->
              CASE j = a -> {} [] j \in {b, c} -> {a} [] j = d -> {b, c}]
\* a, then b and c independently.
Fork == [j \in {a, b, c} |-> IF j = a THEN {} ELSE {a}]
\* a and b, then c after both.
Join == [j \in {a, b, c} |-> IF j = c THEN {a, b} ELSE {}]
\* a, then b.
Pair == [j \in {a, b} |-> IF j = a THEN {} ELSE {a}]

WorkerSymmetry == Permutations(Worker)
=============================================================================
