------------------------ MODULE MCSubscriptionService ------------------------
EXTENDS SubscriptionService, TLC

CONSTANTS v1, s1, s2, p1, p2, x1, x2

\* Two ids of one service, for the same agent and topic types or for two.
SameOwner == s1 :> v1 @@ s2 :> v1
EqualOrDistinct == {s1 :> x1 @@ s2 :> x : x \in {x1, x2}}
=============================================================================
