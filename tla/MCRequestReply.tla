--------------------------- MODULE MCRequestReply ---------------------------
EXTENDS RequestReply, TLC

CONSTANTS r1, r2, c1, c2

\* One call of r1 to an agent of r2.
OneCaller == c1 :> r1
OneHost == c1 :> {r2}

\* Two calls of r1: to a type that both runtimes host, and to an agent of r2.
TwoCalls == c1 :> r1 @@ c2 :> r1
MixedHosts == c1 :> {r1, r2} @@ c2 :> {r2}
=============================================================================
