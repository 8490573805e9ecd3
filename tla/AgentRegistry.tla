---------------------------- MODULE AgentRegistry ----------------------------
(***************************************************************************)
(* Agent types across runtimes.                                            *)
(*                                                                         *)
(* Every runtime keeps in AgentRegistry._agents the types it believes to   *)
(* be registered anywhere, and in AgentManager._agent_factories those it   *)
(* can instantiate itself.  register_factory changes both and announces    *)
(* the type on the registry topic; register_agent and unregister_agent     *)
(* apply their change locally first, and every runtime, the announcer      *)
(* included, applies each announcement it consumes.  Announcements are     *)
(* keyed by the type, so those of one type are totally ordered; nothing    *)
(* relates the announcements of two types.                                 *)
(***************************************************************************)
EXTENDS Naturals, Sequences

CONSTANTS
    Workers,      \* the runtime processes
    Types,        \* the agent types
    Tasks,        \* coroutines, each making one call of the registry
    WorkerOf,     \* the worker a task runs on
    MaxRestarts,  \* bound: process restarts
    Faults        \* which of FaultKinds may happen

FaultKinds == {"send", "ack", "late", "redeliver", "stop", "unregister"}

ASSUME RegistryAssumption ==
    /\ WorkerOf \in [Tasks -> Workers]
    /\ MaxRestarts \in Nat
    /\ Faults \subseteq FaultKinds

VARIABLES
    started,    \* workers whose registry is_started is True
    running,    \* workers whose stream engine runs
    positioned, \* workers whose registry consumer has its position
    agents,     \* worker -> the keys of AgentRegistry._agents
    factories,  \* worker -> the keys of AgentManager._agent_factories
    task,       \* where each call is
    log,        \* type -> the announcements on the registry topic
    pos,        \* worker -> type -> announcements its consumer is past
    base,       \* worker -> type -> where its consumer started
    unsettled,  \* history: views a failure left to differ from the log
    restarts    \* restarts so far (bounded by MaxRestarts)

vars == <<started, running, positioned, agents, factories, task, log, pos, base,
          unsettled, restarts>>

consumerVars == <<running, positioned, pos, base>>

Kinds == {"REGISTER", "UNREGISTER"}

\* worker: the sender, which the event itself does not carry.
Event == [kind : Kinds, worker : Workers]

\* sending: the announcement is with the producer;  written: it is on the
\* topic and its acknowledgement is awaited.
Sends == [step : {"sending", "written"}, kind : Kinds, type : Types]
EndedCalls == {"done", "rejected", "raised", "died"}
Calls == Sends \cup [step : {"idle"} \cup EndedCalls]

\* The call has changed its worker's view of k and has yet to announce it.
Unannounced(t, k) == task[t].step = "sending" /\ task[t].type = k

Init ==
    /\ started = {}
    /\ running = {}
    /\ positioned = IF "late" \in Faults THEN {} ELSE Workers
    /\ agents = [w \in Workers |-> {}]
    /\ factories = [w \in Workers |-> {}]
    /\ task = [t \in Tasks |-> [step |-> "idle"]]
    /\ log = [k \in Types |-> <<>>]
    /\ pos = [w \in Workers |-> [k \in Types |-> 0]]
    /\ base = [w \in Workers |-> [k \in Types |-> 0]]
    /\ unsettled = {}
    /\ restarts = 0

-----------------------------------------------------------------------------
\* StreamingServiceManager.start and stop for a service they do not own.
Start(w) ==
    /\ w \notin started
    /\ started' = started \cup {w}
    /\ UNCHANGED <<agents, factories, task, log, consumerVars, unsettled,
                   restarts>>

Stop(w) ==
    /\ "stop" \in Faults
    /\ w \in started
    /\ started' = started \ {w}
    /\ UNCHANGED <<agents, factories, task, log, consumerVars, unsettled,
                   restarts>>

\* The runtime starts the engine after its services and stops it after them,
\* so a registry may consume announcements a little longer than it is started.
StartEngine(w) ==
    /\ w \in started \ running
    /\ running' = running \cup {w}
    /\ UNCHANGED <<started, positioned, agents, factories, task, log, pos, base,
                   unsettled, restarts>>

StopEngine(w) ==
    /\ w \in running \ started
    /\ running' = running \ {w}
    /\ UNCHANGED <<started, positioned, agents, factories, task, log, pos, base,
                   unsettled, restarts>>

\* Variants with a bug, for the mutation of the definitions below.
MayRegisterUnlessHosted(w, k) == k \notin factories[w]
AfterTheEnd(k) == Len(log[k]) + 1
AppliedButOwn(w, view, k, e) ==
    IF e.worker = w THEN view
    ELSE IF e.kind = "REGISTER" THEN view \cup {k} ELSE view \ {k}
AppliedRegistrationsOnly(w, view, k, e) ==
    IF e.kind = "REGISTER" THEN view \cup {k} ELSE view

EndOffset(k) == Len(log[k])

\* The consumer gets its partitions and starts at the end ("latest").
Position(w) ==
    /\ w \in running \ positioned
    /\ positioned' = positioned \cup {w}
    /\ pos' = [pos EXCEPT ![w] = [k \in Types |-> EndOffset(k)]]
    /\ base' = [base EXCEPT ![w] = [k \in Types |-> EndOffset(k)]]
    /\ unsettled' = unsettled \cup {<<w, k>> : k \in Types}
    /\ UNCHANGED <<started, running, agents, factories, task, log, restarts>>

-----------------------------------------------------------------------------
End(t, how) == task' = [task EXCEPT ![t] = [step |-> how]]

BeginSend(t, kind, k) ==
    task' = [task EXCEPT ![t] = [step |-> "sending", kind |-> kind, type |-> k]]

\* register_factory's two checks.
MayRegister(w, k) == k \notin factories[w] /\ k \notin agents[w]

\* register_factory: the factory is installed first and stays when the
\* registration fails, which a registry that is not started does at once.
RegisterFactory(t, k) ==
    LET w == WorkerOf[t]
    IN  /\ task[t].step = "idle"
        /\ \/ /\ ~MayRegister(w, k)
              /\ End(t, "rejected")
              /\ UNCHANGED <<agents, factories>>
           \/ /\ MayRegister(w, k)
              /\ factories' = [factories EXCEPT ![w] = @ \cup {k}]
              /\ \/ /\ w \in started
                    /\ agents' = [agents EXCEPT ![w] = @ \cup {k}]
                    /\ BeginSend(t, "REGISTER", k)
                 \/ /\ w \notin started
                    /\ End(t, "raised")
                    /\ UNCHANGED agents
        /\ UNCHANGED <<started, log, consumerVars, unsettled, restarts>>

\* unregister_agent of a type it knows (any other is ignored): local first;
\* nothing is announced by a registry that is not started.
Unregister(t, k) ==
    LET w == WorkerOf[t]
    IN  /\ "unregister" \in Faults
        /\ task[t].step = "idle"
        /\ k \in agents[w]
        /\ agents' = [agents EXCEPT ![w] = @ \ {k}]
        /\ \/ /\ w \in started
              /\ BeginSend(t, "UNREGISTER", k)
              /\ UNCHANGED unsettled
           \/ /\ w \notin started
              /\ End(t, "done")
              /\ unsettled' = unsettled \cup {<<w, k>>}
        /\ UNCHANGED <<started, factories, log, consumerVars, restarts>>

\* The broker appends the announcement.
Announce(t) ==
    /\ task[t].step = "sending"
    /\ log' = [log EXCEPT ![task[t].type] =
                  Append(@, [kind |-> task[t].kind, worker |-> WorkerOf[t]])]
    /\ task' = [task EXCEPT ![t].step = "written"]
    /\ UNCHANGED <<started, agents, factories, consumerVars, unsettled,
                   restarts>>

Acknowledged(t) ==
    /\ task[t].step = "written"
    /\ End(t, "done")
    /\ UNCHANGED <<started, agents, factories, log, consumerVars, unsettled,
                   restarts>>

\* register_agent rolls back with an unconditional pop; unregister_agent does
\* not roll back.
AfterFailure(view, kind, k) == IF kind = "REGISTER" THEN view \ {k} ELSE view

SendFailed(t) ==
    LET w == WorkerOf[t]
        k == task[t].type
    IN  /\ \/ task[t].step = "sending" /\ "send" \in Faults
           \/ task[t].step = "written" /\ "ack" \in Faults
        /\ agents' = [agents EXCEPT ![w] = AfterFailure(@, task[t].kind, k)]
        /\ End(t, IF task[t].kind = "REGISTER" THEN "raised" ELSE "done")
        /\ unsettled' = unsettled \cup {<<w, k>>}
        /\ UNCHANGED <<started, factories, log, consumerVars, restarts>>

\* _handle_remote_registration and _handle_remote_unregistration; nothing tells
\* a worker's own announcements from the others.
Applied(w, view, k, e) ==
    IF e.kind = "REGISTER" THEN view \cup {k} ELSE view \ {k}

HandleEvent(w, k) ==
    /\ w \in running \cap positioned
    /\ pos[w][k] < Len(log[k])
    /\ pos' = [pos EXCEPT ![w][k] = @ + 1]
    /\ agents' = [agents EXCEPT ![w] = Applied(w, @, k, log[k][pos[w][k] + 1])]
    /\ unsettled' = unsettled \ {<<w, k>>}
    /\ UNCHANGED <<started, running, positioned, factories, task, log, base,
                   restarts>>

-----------------------------------------------------------------------------
\* At-least-once delivery: the group goes back to a committed offset.
Redeliver(w, k) ==
    /\ "redeliver" \in Faults
    /\ pos[w][k] > base[w][k]
    /\ pos' = [pos EXCEPT ![w][k] = @ - 1]
    /\ UNCHANGED <<started, running, positioned, agents, factories, task, log,
                   base, unsettled, restarts>>

\* The process dies and is started again: the group keeps its position, the
\* dictionaries are gone.
Restart(w) ==
    /\ restarts < MaxRestarts
    /\ restarts' = restarts + 1
    /\ started' = started \ {w}
    /\ running' = running \ {w}
    /\ agents' = [agents EXCEPT ![w] = {}]
    /\ factories' = [factories EXCEPT ![w] = {}]
    /\ task' = [t \in Tasks |->
                  IF WorkerOf[t] = w /\ task[t].step \in {"sending", "written"}
                  THEN [step |-> "died"] ELSE task[t]]
    /\ unsettled' = unsettled \cup {<<w, k>> : k \in Types}
    /\ UNCHANGED <<log, positioned, pos, base>>

-----------------------------------------------------------------------------
WorkerStep(w) ==
    \/ Start(w) \/ Stop(w) \/ StartEngine(w) \/ StopEngine(w)
    \/ Position(w) \/ Restart(w)
    \/ \E k \in Types : HandleEvent(w, k) \/ Redeliver(w, k)

TaskStep(t) ==
    \/ \E k \in Types : RegisterFactory(t, k) \/ Unregister(t, k)
    \/ Announce(t) \/ Acknowledged(t) \/ SendFailed(t)

Next == (\E w \in Workers : WorkerStep(w)) \/ (\E t \in Tasks : TaskStep(t))

Spec == Init /\ [][Next]_vars

\* The producer ends every send, and the consumers of a started runtime poll.
\* Applications need not call anything, and a runtime need not be started.
Fairness ==
    /\ \A t \in Tasks : WF_vars(Announce(t)) /\ WF_vars(Acknowledged(t))
    /\ \A w \in Workers : WF_vars(Position(w))
    /\ \A w \in Workers, k \in Types : WF_vars(HandleEvent(w, k))

FairSpec == Spec /\ Fairness

-----------------------------------------------------------------------------
(* Properties                                                              *)

TypeOK ==
    /\ started \subseteq Workers
    /\ running \subseteq Workers
    /\ positioned \subseteq Workers
    /\ agents \in [Workers -> SUBSET Types]
    /\ factories \in [Workers -> SUBSET Types]
    /\ task \in [Tasks -> Calls]
    /\ log \in [Types -> Seq(Event)]
    /\ pos \in [Workers -> [Types -> Nat]]
    /\ base \in [Workers -> [Types -> Nat]]
    /\ \A w \in Workers, k \in Types : pos[w][k] <= Len(log[k])
    /\ unsettled \subseteq Workers \X Types
    /\ restarts \in 0..MaxRestarts

CaughtUp(w, k) == pos[w][k] = Len(log[k])

Announced(w, k) ==
    \A t \in Tasks : WorkerOf[t] = w => ~Unannounced(t, k)

\* What a consumer that reads every announcement of k ends with.
RegisteredByLog(k) ==
    log[k] # <<>> /\ log[k][Len(log[k])].kind = "REGISTER"

\* A registry that has consumed every announcement of a type, and has none of
\* its own still to be written, holds the type exactly if the last announcement
\* registers it, in whatever order its own calls and the others' announcements
\* met in _agents (agent_registry.py 97, 127, 218-223, 233-234).  So such
\* registries agree.  A failed send, a restart, a late start and a change made
\* while stopped are the exceptions, until the next announcement of the type.
ViewFollowsLog ==
    \A w \in Workers, k \in Types :
        <<w, k>> \notin unsettled /\ CaughtUp(w, k) /\ Announced(w, k) =>
            (k \in agents[w] <=> RegisteredByLog(k))

\* Nobody's removal of the type is on the topic, nor one of w's on its way.
NeverUnregistered(w, k) ==
    /\ \A i \in DOMAIN log[k] : log[k][i].kind = "REGISTER"
    /\ \A t \in Tasks : WorkerOf[t] = w /\ Unannounced(t, k) =>
                           task[t].kind = "REGISTER"

\* While nobody unregisters a type, a registry that has consumed or made a
\* registration of it keeps it, whoever's registration arrives or fails.
KnownStaysKnown ==
    \A w \in Workers, k \in Types :
        /\ <<w, k>> \notin unsettled
        /\ NeverUnregistered(w, k)
        /\ pos[w][k] > 0 \/ ~Announced(w, k)
        => k \in agents[w]

\* A runtime becomes the second host of a type only in a race: the earlier
\* registrations are all ones its consumer has not reached (or a failure
\* removed from its registry).  agent_manager.py 70-73.
NoKnowingDuplicate ==
    [][\A w \in Workers, k \in Types :
          /\ k \in factories'[w] \ factories[w]
          /\ <<w, k>> \notin unsettled
          /\ NeverUnregistered(w, k)
          => pos[w][k] = 0]_vars

\* If all runtimes run and nothing is delivered again from some point on, they
\* end up with the same view of a type, but for a type some registry's view of
\* which a failure has left unsettled for good.
EventuallyAgree ==
    /\ <>[](running = Workers)
    /\ <>[][\A w \in Workers, k \in Types : pos'[w][k] >= pos[w][k]]_pos
    => \A k \in Types :
          \/ <>[](\E w \in Workers : <<w, k>> \in unsettled)
          \/ <>[](\A v, w \in Workers : k \in agents[v] <=> k \in agents[w])

IInv == TypeOK /\ ViewFollowsLog /\ KnownStaysKnown
=============================================================================
