-------------------------- MODULE MCStreamingAgent --------------------------
EXTENDS StreamingAgent, TLC

CONSTANTS a1, a2, c1, c2, g1

\* Two calls to one agent, or to two agents whose consumers share a group.
OneAgent == c1 :> a1 @@ c2 :> a1
OneCall == c1 :> a1
OwnGroup == a1 :> g1
SharedGroup == a1 :> g1 @@ a2 :> g1
=============================================================================
