--------------------------- MODULE MCKafkaMemory ---------------------------
EXTENDS KafkaMemory, TLC

CONSTANTS i1, i2, x1, x2, g1, g2

\* Two adds, one on each instance, or only one.
OneEach == x1 :> i1 @@ x2 :> i2
OneAdd == x1 :> i1

OwnGroups == i1 :> g1 @@ i2 :> g2
=============================================================================
