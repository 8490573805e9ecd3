--------------------------- MODULE MCAgentRegistry ---------------------------
EXTENDS AgentRegistry, TLC

CONSTANTS w1, w2, t1, t2, k1

\* A call on each worker.
OneEach == t1 :> w1 @@ t2 :> w2
=============================================================================
