--------------------------- MODULE MCEventDelivery ---------------------------
EXTENDS EventDelivery, TLC

CONSTANTS a1, a2, k1, k2, q1, r1, e1, e2, s1, s2

\* One agent whose type has a factory, one that is registered; the first one
\* sends an event of the two.
OwnType == a1 :> k1 @@ a2 :> k2
AskFirst == q1 :> <<a1>>
SecondAgent == r1 :> a2
FromFirst == e1 :> a1 @@ e2 :> Nobody
OneEach == s1 :> a1 @@ s2 :> a2
=============================================================================
