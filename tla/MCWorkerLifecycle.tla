-------------------------- MODULE MCWorkerLifecycle --------------------------
EXTENDS WorkerLifecycle

CONSTANTS a1, a2, z1, z2, h1, c1
=============================================================================
