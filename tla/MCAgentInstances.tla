-------------------------- MODULE MCAgentInstances --------------------------
EXTENDS AgentInstances, TLC

CONSTANTS a1, a2, a3, k1, k2, q1, q2, q3, r1, r2

\* Two agents of one type and one of another; a call that loads agents of both
\* types, one that looks for an agent and one that loads the two of a type, of
\* which two registrations are for the same one.
TypesOf == a1 :> k1 @@ a2 :> k2 @@ a3 :> k2
Asked == q1 :> <<a1, a2>> @@ q2 :> <<a1>> @@ q3 :> <<a3, a2>>
Registered == r1 :> a2 @@ r2 :> a2
=============================================================================
