----------------------------- MODULE MCTaskQueue -----------------------------
\* Constants for model-checking TaskQueue: all tasks belong to one shopping session.
EXTENDS TaskQueue, TLC

MCSessionOf == [t \in Task |-> CHOOSE s \in Session : TRUE]

Symmetry == Permutations(Handler) \cup Permutations(Msg) \cup Permutations(Task)
=============================================================================
