--------------------------- MODULE MC_TaskManager ---------------------------
EXTENDS TaskManager
Symmetry == Permutations(Pids)

\* Once die has begun only these variables are read, by its steps, by the steps of the
\* programs and by the invariants: states that differ in the others alone are taken for one.
View == IF phase \in {"term", "kill", "last", "over"}
        THEN <<phase, proc, task, calllist, stops>>
        ELSE vars
=============================================================================
