----------------------------- MODULE RemoteCall -----------------------------
(***************************************************************************)
(* What KafkaAgentRuntime.send_message promises an agent: a call ends once *)
(* at most, with the answer of an agent that served it or with a failure.  *)
(* How requests and responses travel is left to RequestReply.              *)
(***************************************************************************)
CONSTANT Calls

VARIABLES
    phase,  \* call -> "idle", "asked", "returned" or "failed"
    served  \* the calls some agent has served

vars == <<phase, served>>

Init ==
    /\ phase = [c \in Calls |-> "idle"]
    /\ served = {}

Ask(c) ==
    /\ phase[c] = "idle"
    /\ phase' = [phase EXCEPT ![c] = "asked"]
    /\ UNCHANGED served

Refuse(c) ==
    /\ phase[c] = "idle"
    /\ phase' = [phase EXCEPT ![c] = "failed"]
    /\ UNCHANGED served

\* An agent may serve a call whose caller has given up.
Serve(c) ==
    /\ phase[c] # "idle"
    /\ served' = served \cup {c}
    /\ UNCHANGED phase

Return(c) ==
    /\ phase[c] = "asked"
    /\ c \in served
    /\ phase' = [phase EXCEPT ![c] = "returned"]
    /\ UNCHANGED served

\* The failure of one process fails every call it had asked.
Fail(cs) ==
    /\ \A c \in cs : phase[c] = "asked"
    /\ phase' = [c \in Calls |-> IF c \in cs THEN "failed" ELSE phase[c]]
    /\ UNCHANGED served

Next ==
    \/ \E c \in Calls : Ask(c) \/ Refuse(c) \/ Serve(c) \/ Return(c)
    \/ \E cs \in SUBSET Calls : Fail(cs)

Spec == Init /\ [][Next]_vars
=============================================================================
