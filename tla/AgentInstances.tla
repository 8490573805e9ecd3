--------------------------- MODULE AgentInstances ---------------------------
(***************************************************************************)
(* The instances of the agents of one runtime: AgentManager, and the calls *)
(* of KafkaAgentRuntime that go through AgentManager.get_agent.            *)
(*                                                                         *)
(* get_agent looks into _instantiated_agents, suspends in the factory of   *)
(* the agent's type and stores what the factory returned.  An instance     *)
(* stands for the coroutine that created or registered it: a coroutine     *)
(* creates at most one instance of an agent, as what is stored stays.      *)
(***************************************************************************)
EXTENDS Naturals, Sequences

CONSTANTS
    Agents,         \* the agent ids
    Types,          \* the agent types
    TypeOf,         \* the type in an agent id
    Calls,          \* calls of the runtime that look agents up in turn
    Asks,           \* the agents that each of them looks up
    Handler,        \* the coroutine that handles events (EventDelivery)
    Registrations,  \* the register_instance calls
    InstanceOf,     \* the agent id each of them is for
    Nobody,         \* no instance
    ManagerFaults   \* which of ManagerFaultKinds may happen

ManagerFaultKinds == {"factory", "bind", "class", "state"}

Seekers == Calls \cup {Handler}
Coroutines == Seekers \cup Registrations

ASSUME ManagerAssumption ==
    /\ TypeOf \in [Agents -> Types]
    /\ Asks \in [Calls -> Seq(Agents)]
    /\ \A q \in Calls : Asks[q] # <<>>
    /\ Handler \notin Calls
    /\ InstanceOf \in [Registrations -> Agents]
    /\ Seekers \cap Registrations = {}
    /\ Nobody \notin Coroutines
    /\ ManagerFaults \subseteq ManagerFaultKinds

VARIABLES
    factory,   \* type -> what _agent_factories holds for it
    cached,    \* agent id -> its entry in _instantiated_agents
    reg,       \* where each register_instance call is
    seek,      \* where each coroutine that looks agents up is
    handed,    \* history: the instances that get_agent has returned
    contended  \* history: agents that two coroutines created at one time

managerVars == <<factory, cached, reg, seek, handed, contended>>

\* dummy: the factory that register_instance leaves, which only raises.
FactoryStates == {"none", "made", "dummy"}
RegStates == {"idle", "binding", "done", "raised"}
\* next: about to call get_agent;  creating: suspended in the factory;
\* found: holds the instance;  missing: get_agent returned None.
SeekStates == {"idle", "next", "creating", "found", "missing", "raised",
               "done"}

ManagerInit ==
    /\ factory = [k \in Types |-> "none"]
    /\ cached = [a \in Agents |-> Nobody]
    /\ reg = [r \in Registrations |-> "idle"]
    /\ seek = [q \in Seekers |-> [at |-> "idle", todo |-> <<>>]]
    /\ handed = {}
    /\ contended = {}

-----------------------------------------------------------------------------
(* Registration                                                            *)

\* register_factory stores the factory before it announces the type; the
\* registry and its refusals are those of AgentRegistry.
RegisterFactory(k) ==
    /\ factory[k] = "none"
    /\ factory' = [factory EXCEPT ![k] = "made"]
    /\ UNCHANGED <<cached, reg, seek, handed, contended>>

\* Variants with a bug, for the mutation of the definitions below.
MayRegisterAnyType(r) == cached[InstanceOf[r]] = Nobody
LookupIgnoresCache(a) ==
    IF factory[TypeOf[a]] = "made" THEN "creating" ELSE "missing"

MayRegister(r) ==
    /\ cached[InstanceOf[r]] = Nobody
    /\ factory[TypeOf[InstanceOf[r]]] # "made"

\* register_instance up to bind_id_and_runtime, in which an implementation of
\* the Agent protocol may suspend.
RegisterInstance(r) ==
    LET a == InstanceOf[r]
    IN  /\ reg[r] = "idle"
        /\ \/ /\ MayRegister(r)
              /\ reg' = [reg EXCEPT ![r] = "binding"]
              /\ factory' = [factory EXCEPT ![TypeOf[a]] = "dummy"]
              /\ contended' = IF \E o \in Registrations :
                                     reg[o] = "binding" /\ InstanceOf[o] = a
                              THEN contended \cup {a} ELSE contended
           \/ /\ \/ ~MayRegister(r)
                 \/ "class" \in ManagerFaults /\ factory[TypeOf[a]] = "dummy"
              /\ reg' = [reg EXCEPT ![r] = "raised"]
              /\ UNCHANGED <<factory, contended>>
        /\ UNCHANGED <<cached, seek, handed>>

\* The instance is stored without another look.  When binding raises, the dummy
\* factory stays.
FinishBind(r) ==
    /\ reg[r] = "binding"
    /\ \/ /\ reg' = [reg EXCEPT ![r] = "done"]
          /\ cached' = [cached EXCEPT ![InstanceOf[r]] = r]
       \/ /\ "bind" \in ManagerFaults
          /\ reg' = [reg EXCEPT ![r] = "raised"]
          /\ UNCHANGED cached
    /\ UNCHANGED <<factory, seek, handed, contended>>

-----------------------------------------------------------------------------
(* get_agent                                                               *)

Sought(q) == Head(seek[q].todo)

\* What get_agent does first: answers from the cache, finds no factory, runs a
\* dummy factory, or suspends in a real one.
Lookup(a) ==
    IF cached[a] # Nobody THEN "found"
    ELSE IF factory[TypeOf[a]] = "none" THEN "missing"
    ELSE IF factory[TypeOf[a]] = "dummy" THEN "raised"
    ELSE "creating"

HandOut(q, instance) ==
    handed' = handed \cup {[agent |-> Sought(q), instance |-> instance]}

GetAgent(q) ==
    LET a == Sought(q)
    IN  /\ seek[q].at = "next"
        /\ seek' = [seek EXCEPT ![q].at = Lookup(a)]
        /\ IF Lookup(a) = "found" THEN HandOut(q, cached[a])
           ELSE UNCHANGED handed
        /\ contended' = IF /\ Lookup(a) = "creating"
                           /\ \E p \in Seekers : seek[p].at = "creating"
                                                 /\ Sought(p) = a
                        THEN contended \cup {a} ELSE contended
        /\ UNCHANGED <<factory, cached, reg>>

\* The factory returns, and its instance is stored whatever is stored by now;
\* or it raises, also when its instance is not of the expected class.
FinishCreate(q) ==
    /\ seek[q].at = "creating"
    /\ \/ /\ cached' = [cached EXCEPT ![Sought(q)] = q]
          /\ seek' = [seek EXCEPT ![q].at = "found"]
          /\ HandOut(q, q)
       \/ /\ "factory" \in ManagerFaults
          /\ seek' = [seek EXCEPT ![q].at = "raised"]
          /\ UNCHANGED <<cached, handed>>
    /\ UNCHANGED <<factory, reg, contended>>

\* On to the next agent.
Advance(q) ==
    seek' = [seek EXCEPT ![q] =
                [at |-> IF Len(@.todo) = 1 THEN "done" ELSE "next",
                 todo |-> Tail(@.todo)]]

-----------------------------------------------------------------------------
(* Calls of the runtime                                                    *)

\* load_state walks through the saved agents; agent_metadata, agent_save_state,
\* agent_load_state and try_get_underlying_agent_instance look for one.
StartCall(q) ==
    /\ seek[q].at = "idle"
    /\ seek' = [seek EXCEPT ![q] = [at |-> "next", todo |-> Asks[q]]]
    /\ UNCHANGED <<factory, cached, reg, handed, contended>>

\* The agent's own method returns or raises.  An agent that get_agent does not
\* find ends the call with a ValueError.
UseAgent(q) ==
    /\ seek[q].at = "found"
    /\ \/ Advance(q)
       \/ /\ "state" \in ManagerFaults
          /\ seek' = [seek EXCEPT ![q].at = "raised"]
    /\ UNCHANGED <<factory, cached, reg, handed, contended>>

ManagerNext ==
    \/ \E k \in Types : RegisterFactory(k)
    \/ \E r \in Registrations : RegisterInstance(r) \/ FinishBind(r)
    \/ \E q \in Seekers : GetAgent(q) \/ FinishCreate(q)
    \/ \E q \in Calls : StartCall(q) \/ UseAgent(q)

ManagerSpec == ManagerInit /\ [][ManagerNext]_managerVars

-----------------------------------------------------------------------------
(* Properties                                                              *)

ManagerTypeOK ==
    /\ factory \in [Types -> FactoryStates]
    /\ cached \in [Agents -> Coroutines \cup {Nobody}]
    /\ reg \in [Registrations -> RegStates]
    /\ seek \in [Seekers -> [at : SeekStates, todo : Seq(Agents)]]
    /\ \A q \in Seekers : seek[q].at \in {"next", "creating", "found"} =>
                              seek[q].todo # <<>>
    /\ handed \subseteq [agent : Agents, instance : Coroutines]
    /\ contended \subseteq Agents

\* Everyone who has ever been handed an agent holds the instance the cache
\* holds, so its state is in one place, unless two coroutines were creating it
\* at the same time (agent_manager.py 150-163, 118-132).
OneInstance ==
    \A h \in handed :
        h.agent \in contended \/ h.instance = cached[h.agent]

\* From the moment register_instance has accepted an instance of a type, every
\* agent of that type, whatever its id, is a registered instance or there is
\* none: neither the cache nor anyone who was handed such an agent holds one
\* that a factory made, whatever suspended in a factory or in a binding in the
\* meantime (agent_manager.py 121-132 against 70-87 and 150-163).
RegisteredNeverMade ==
    \A r \in Registrations : reg[r] \in {"binding", "done"} =>
        /\ \A a \in Agents : TypeOf[a] = TypeOf[InstanceOf[r]] =>
               cached[a] \in Registrations \cup {Nobody}
        /\ \A h \in handed : TypeOf[h.agent] = TypeOf[InstanceOf[r]] =>
               h.instance \in Registrations
        /\ reg[r] = "done" => cached[InstanceOf[r]] # Nobody
=============================================================================
