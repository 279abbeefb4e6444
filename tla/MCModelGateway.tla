--------------------------- MODULE MCModelGateway ---------------------------
\* Deployments for model-checking ModelGateway: one process with a token budget, behind its
\* own throttle or a shared one; two processes that share a quota, configured alike or not.
EXTENDS ModelGateway, TLC

CONSTANTS c1, c2, p1, p2

OneProcess == c1 :> p1 @@ c2 :> p1
TwoProcesses == c1 :> p1 @@ c2 :> p2
Limits(m, n) == p1 :> m @@ p2 :> n

MCDeployments == {
  [proc |-> OneProcess, limit |-> Limits(2, 1), shared |-> FALSE, fallback |-> TRUE, total |-> 20],
  [proc |-> TwoProcesses, limit |-> Limits(1, 1), shared |-> TRUE, fallback |-> TRUE, total |-> 0],
  [proc |-> TwoProcesses, limit |-> Limits(1, 2), shared |-> TRUE, fallback |-> FALSE, total |-> 0]}
=============================================================================
