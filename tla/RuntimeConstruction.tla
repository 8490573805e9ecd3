------------------------- MODULE RuntimeConstruction -------------------------
(***************************************************************************)
(* Constructing runtimes.  The constructor of a KafkaAgentRuntime makes    *)
(* its workers one after the other; each of them registers the schema of   *)
(* its events with the schema registry and creates its topic, by calls     *)
(* that block, while other processes do the same.  What a construction     *)
(* has registered and created before it fails stays, and the application   *)
(* may try again with the same configuration object or load a new one.     *)
(***************************************************************************)
EXTENDS Configuration, FiniteSets

CONSTANTS
    SchemaOf,    \* runtime -> worker -> the schema of its events
    Compatible,  \* pairs <<new, old>> of schemas that the registry accepts
    NoUtils,     \* a configuration object without KafkaUtils
    MaxBrokers,  \* bound: brokers of the cluster
    MaxFaults,   \* bound: failures of the registry or the broker
    Faults       \* which of FaultKinds may happen

FaultKinds == {"registry", "lost", "network", "broker"}
Excuses == FaultKinds \cup {"incompatible", "shrunk"}

ASSUME ConstructionAssumption ==
    /\ MaxBrokers \in Nat \ {0}
    /\ \A n \in 0..MaxBrokers : NoUtils # n
    /\ MaxFaults \in Nat
    /\ Faults \subseteq FaultKinds

VARIABLES
    brokers,   \* how many brokers there are
    topics,    \* the topics of the cluster, with their replication factor
    versions,  \* registry url -> topic -> the schemas of its subject
    cap,       \* runtime -> the replication factor its KafkaUtils has
    build,     \* where each construction is
    excuse,    \* history: what a construction may fail for
    faults     \* failures so far (bounded by MaxFaults)

clusterVars == <<topics, versions>>
vars == <<configVars, brokers, clusterVars, cap, build, excuse, faults>>

\* check, latest, register, again: the calls of register_or_upgrade_schema;
\* await: waiting for the topics in todo.
Steps == {"new", "loaded", "check", "latest", "register", "again", "await",
          "prepared", "built", "failed"}

\* none: nobody waits for the topic.
FutureStates == {"none", "pending", "made", "failed"}

\* The schemas of all releases.
Schemas == {SchemaOf[r][Workers[i]] : r \in Runtimes, i \in DOMAIN Workers}

Idle == [at |-> "new", worker |-> 0, todo |-> <<>>,
         future |-> [t \in Topics |-> "none"]]

Builds == [at : Steps, worker : 0..Len(Workers), todo : Seq(Topics),
           future : [Topics -> FutureStates]]

Init ==
    /\ ConfigInit
    /\ brokers \in 1..MaxBrokers
    /\ topics = <<>>
    /\ versions = [u \in Urls |-> [t \in Topics |-> <<>>]]
    /\ cap = [r \in Runtimes |-> NoUtils]
    /\ build = [r \in Runtimes |-> Idle]
    /\ excuse = [r \in Runtimes |-> {}]
    /\ faults = 0

-----------------------------------------------------------------------------
At(r, step) == build[r].at = step
Goto(r, step) == build' = [build EXCEPT ![r].at = step]

TopicOf(r, i) == Topic(config[r], Workers[i])
SchemaFor(r, i) == SchemaOf[r][Workers[i]]
Url(r) == config[r]["kafka.registry.url"]

\* Of the worker that is made.
OwnTopic(r) == TopicOf(r, build[r].worker)
Schema(r) == SchemaFor(r, build[r].worker)
Subject(r) == versions[Url(r)][OwnTopic(r)]
Latest(s) == s[Len(s)]
Accepts(s, x) == s # <<>> => x = Latest(s) \/ <<x, Latest(s)>> \in Compatible

\* create_topics asks for all topics at once, with a future for each of them, and
\* awaits the futures.  The broker refuses a topic that is asked for twice.
CreateTopics(r, names) ==
    LET places(t) == {i \in DOMAIN names : names[i] = t}
    IN  [build[r] EXCEPT
           !.at = "await", !.todo = names,
           !.future = [t \in Topics |->
                          IF places(t) = {} THEN "none"
                          ELSE IF \E i, j \in places(t) : i # j THEN "failed"
                          ELSE "pending"]]

\* A call of the registry or the broker fails.
Fault(r, kind) ==
    /\ kind \in Faults
    /\ faults < MaxFaults
    /\ faults' = faults + 1
    /\ excuse' = [excuse EXCEPT ![r] = @ \cup {kind}]
NoFault == UNCHANGED <<excuse, faults>>

-----------------------------------------------------------------------------
(* Loading, and the first use of the configuration                         *)

\* A new configuration object has no KafkaUtils yet.
LoadConfig(r) ==
    /\ At(r, "new") \/ At(r, "failed")
    /\ Load(r)
    /\ cap' = [cap EXCEPT ![r] = NoUtils]
    /\ build' = [build EXCEPT ![r] =
          [Idle EXCEPT !.at = IF config'[r] = NoConfig THEN "new" ELSE "loaded"]]
    /\ excuse' = [excuse EXCEPT ![r] = {}]
    /\ UNCHANGED <<brokers, clusterVars, faults>>

\* The application constructs another runtime from the object it has.
TryAgain(r) ==
    /\ At(r, "failed")
    /\ build' = [build EXCEPT ![r] = [Idle EXCEPT !.at = "loaded"]]
    /\ excuse' = [excuse EXCEPT ![r] = @ \cap {"shrunk"}]
    /\ UNCHANGED <<configVars, brokers, clusterVars, cap, faults>>

\* A variant with a bug, for the mutation of the definition below.
CappedNever(c) == c["kafka.replication"]

Capped(c) == IF c["kafka.replication"] <= brokers THEN c["kafka.replication"]
             ELSE brokers

\* The first call of utils() connects and caps the replication factor by the
\* brokers there are; the result is kept as long as the object.
Connected(r) ==
    /\ \/ /\ cap[r] = NoUtils
          /\ cap' = [cap EXCEPT ![r] = Capped(config[r])]
       \/ cap[r] # NoUtils /\ UNCHANGED cap
    /\ NoFault

ConnectFails(r) ==
    /\ cap[r] = NoUtils
    /\ Fault(r, "network")
    /\ Goto(r, "failed")
    /\ UNCHANGED cap

\* A configuration that did not validate is used like any other.
Construct(r) ==
    /\ At(r, "loaded") \/ At(r, "prepared")
    /\ \/ /\ Connected(r)
          /\ build' = [build EXCEPT ![r] =
                          [Idle EXCEPT !.at = "check", !.worker = 1]]
       \/ ConnectFails(r)
    /\ UNCHANGED <<configVars, brokers, clusterVars>>

\* create_topics of the application, with all topics of the configuration.
PrepareTopics(r) ==
    /\ At(r, "loaded")
    /\ \/ /\ Connected(r)
          /\ build' = [build EXCEPT ![r] = CreateTopics(r, AllTopics(config[r]))]
       \/ ConnectFails(r)
    /\ UNCHANGED <<configVars, brokers, clusterVars>>

-----------------------------------------------------------------------------
(* register_or_upgrade_schema                                              *)

\* A refusal inside the try is followed by a registration; one in the except
\* clause ends the construction.
AfterFailure == [check |-> "again", latest |-> "again", register |-> "again",
                 again |-> "failed"]

\* The registry answers with an error, which is taken for a refusal, or cannot
\* be reached, which no clause catches.
RequestFails(r, kind) ==
    /\ Fault(r, kind)
    /\ Goto(r, AfterFailure[build[r].at]) \/ Goto(r, "failed")

\* A subject without versions is an error as well.  An incompatible schema raises
\* a TypeError, as its error is built with one argument of three, and that is
\* caught by no clause either.
CheckSchema(r) ==
    /\ At(r, "check")
    /\ \/ /\ Subject(r) = <<>>
          /\ Goto(r, "again")
          /\ NoFault
       \/ /\ Subject(r) # <<>> /\ Accepts(Subject(r), Schema(r))
          /\ Goto(r, "latest")
          /\ NoFault
       \/ /\ ~Accepts(Subject(r), Schema(r))
          /\ Goto(r, "failed")
          /\ excuse' = [excuse EXCEPT ![r] = @ \cup {"incompatible"}]
          /\ UNCHANGED faults
       \/ RequestFails(r, "registry")
    /\ UNCHANGED <<configVars, brokers, clusterVars, cap>>

CreateTopic(r) == CreateTopics(r, <<OwnTopic(r)>>)

LatestSchema(r) ==
    /\ At(r, "latest")
    /\ \/ /\ Latest(Subject(r)) = Schema(r)
          /\ build' = [build EXCEPT ![r] = CreateTopic(r)]
          /\ NoFault
       \/ /\ Latest(Subject(r)) # Schema(r)
          /\ Goto(r, "register")
          /\ NoFault
       \/ RequestFails(r, "registry")
    /\ UNCHANGED <<configVars, brokers, clusterVars, cap>>

\* The registry knows the schema, or appends a compatible one.
Knows(s, x) == \E i \in DOMAIN s : s[i] = x
Registered(r) ==
    versions' = IF Knows(Subject(r), Schema(r)) THEN versions
                ELSE [versions EXCEPT ![Url(r)][OwnTopic(r)] =
                         Append(@, Schema(r))]

\* The version is read back after the registration; lost: that request fails.
RegisterSchema(r) ==
    /\ At(r, "register") \/ At(r, "again")
    /\ LET mayRegister == Knows(Subject(r), Schema(r))
                          \/ Accepts(Subject(r), Schema(r))
       IN  \/ /\ mayRegister
              /\ Registered(r)
              /\ build' = [build EXCEPT ![r] = CreateTopic(r)]
              /\ NoFault
           \/ mayRegister /\ Registered(r) /\ RequestFails(r, "lost")
           \/ /\ ~mayRegister
              /\ Goto(r, AfterFailure[build[r].at])
              /\ excuse' = [excuse EXCEPT ![r] = @ \cup {"incompatible"}]
              /\ UNCHANGED <<versions, faults>>
           \/ RequestFails(r, "registry") /\ UNCHANGED versions
    /\ UNCHANGED <<configVars, brokers, topics, cap>>

-----------------------------------------------------------------------------
(* TopicAdminService                                                       *)

\* The broker decides on one topic after the other, in any order; it makes no
\* topic with more replicas than brokers, or none.  A topic that exists counts
\* as made.
Decide(r, t, how) == build' = [build EXCEPT ![r].future[t] = how]

BrokerCreates(r, t) ==
    /\ At(r, "await")
    /\ build[r].future[t] = "pending"
    /\ \/ /\ t \in DOMAIN topics
          /\ Decide(r, t, "made")
          /\ UNCHANGED topics
          /\ NoFault
       \/ /\ t \notin DOMAIN topics /\ cap[r] \in 1..brokers
          /\ topics' = Over(Entry(t, cap[r]), topics)
          /\ Decide(r, t, "made")
          /\ NoFault
       \/ /\ t \notin DOMAIN topics /\ cap[r] \notin 1..brokers
          /\ Decide(r, t, "failed")
          /\ UNCHANGED topics
          /\ NoFault
       \/ /\ Fault(r, "broker")
          /\ Decide(r, t, "failed")
          /\ UNCHANGED topics
    /\ UNCHANGED <<configVars, brokers, versions, cap>>

\* When the topic of the last worker is there the runtime is.
NextWorker(r) ==
    IF build[r].worker = 0 THEN [Idle EXCEPT !.at = "prepared"]
    ELSE IF build[r].worker = Len(Workers) THEN [Idle EXCEPT !.at = "built"]
    ELSE [Idle EXCEPT !.at = "check", !.worker = build[r].worker + 1]

\* A variant with a bug, for the mutation of the definition below.
AwaitOnlyFirst(r) ==
    LET future == build[r].future[Head(build[r].todo)]
    IN  /\ At(r, "await")
        /\ future # "pending"
        /\ build' = [build EXCEPT ![r] =
              IF future = "failed" THEN [Idle EXCEPT !.at = "failed"]
              ELSE NextWorker(r)]
        /\ UNCHANGED <<configVars, brokers, clusterVars, cap, excuse, faults>>

\* The futures are looked at in the order of the request.  The first that has
\* failed raises, and nobody looks at those after it.
AwaitTopic(r) ==
    LET future == build[r].future[Head(build[r].todo)]
    IN  /\ At(r, "await")
        /\ future # "pending"
        /\ build' = [build EXCEPT ![r] =
              IF future = "failed" THEN [Idle EXCEPT !.at = "failed"]
              ELSE IF Len(@.todo) = 1 THEN NextWorker(r)
              ELSE [build[r] EXCEPT !.todo = Tail(@)]]
        /\ UNCHANGED <<configVars, brokers, clusterVars, cap, excuse, faults>>

-----------------------------------------------------------------------------
\* A broker joins or leaves.  A configuration object does not look again.
BrokersChange ==
    /\ changes < MaxChanges
    /\ changes' = changes + 1
    /\ \E n \in (1..MaxBrokers) \ {brokers} :
          /\ brokers' = n
          /\ excuse' = [r \in Runtimes |->
                IF cap[r] # NoUtils /\ cap[r] > n THEN excuse[r] \cup {"shrunk"}
                ELSE excuse[r]]
    /\ UNCHANGED <<given, base, file, env, config, verdict, intended, kept,
                   clusterVars, cap, build, faults>>

RuntimeStep(r) ==
    \/ LoadConfig(r) \/ TryAgain(r) \/ PrepareTopics(r) \/ Construct(r)
    \/ CheckSchema(r) \/ LatestSchema(r) \/ RegisterSchema(r)
    \/ AwaitTopic(r)
    \/ \E t \in Topics : BrokerCreates(r, t)
    \/ /\ At(r, "new") \/ At(r, "failed")
       /\ ChangeEnvironment(r)
       /\ UNCHANGED <<brokers, clusterVars, cap, build, excuse, faults>>

Next == BrokersChange \/ \E r \in Runtimes : RuntimeStep(r)

Spec == Init /\ [][Next]_vars

-----------------------------------------------------------------------------
\* The values of the variables of the loader, the objects and the services.  No
\* object keeps a replication factor that its cluster never had.
TypeOK ==
    /\ \A r \in Runtimes :
          /\ given[r] \in Bases[r] /\ DOMAIN base[r] \subseteq Places
          /\ file[r] \in Files[r]
          /\ env[r] \in Environments[r]
          /\ config[r] = NoConfig <=> intended[r] = NoConfig
          /\ config[r] = NoConfig <=> verdict[r] = <<>>
          /\ config[r] # NoConfig => DOMAIN config[r] = Places
    /\ kept \in [Runtimes -> Urls \cup {"none"}]
    /\ brokers \in 1..MaxBrokers
    /\ DOMAIN topics \subseteq Topics
    /\ \A t \in DOMAIN topics : topics[t] \in 1..MaxBrokers
    /\ versions \in [Urls -> [Topics -> Seq(Schemas)]]
    /\ cap \in [Runtimes -> {NoUtils} \cup 0..MaxBrokers]
    /\ build \in [Runtimes -> Builds]
    /\ excuse \in [Runtimes -> SUBSET Excuses]
    /\ changes \in 0..MaxChanges
    /\ faults \in 0..MaxFaults

\* A loaded configuration says at every place what the source of the highest
\* priority says there at that time, however often the same dictionary was loaded
\* before and under which environments (load_config, from_dict).  Loads of one
\* dictionary are independent but for the registry: one that a load has moved
\* into the application's own section 'kafka' stays for all later ones, also
\* where it came from the file or a variable that says something else by now.
LoadFollowsPriority ==
    \A r \in Runtimes : config[r] # NoConfig =>
        \A k \in Places \ {"registry.url"} :
            \/ config[r][k] = intended[r][k]
            \/ k = "kafka.registry.url" /\ config[r][k] = kept[r]

\* A runtime that is constructed finds everything it needs: the topics of all
\* its workers are there, and the registry it uses knows their schemas, whoever
\* made them and however many attempts it took (worker constructors).  So do
\* the topics after create_topics, whose futures are awaited in turn.
BuiltIsProvisioned ==
    \A r \in Runtimes :
        /\ At(r, "built") \/ At(r, "prepared") =>
              \A i \in DOMAIN Workers : TopicOf(r, i) \in DOMAIN topics
        /\ At(r, "built") =>
              \A i \in DOMAIN Workers :
                  Knows(versions[Url(r)][TopicOf(r, i)], SchemaFor(r, i))

\* A valid configuration fails to become a runtime only for a cause of this
\* attempt: a call that failed, a schema the registry refuses, or a cluster
\* with fewer brokers than it had when the configuration connected.  What
\* other processes do at the same time, and what earlier attempts have left
\* behind, is no cause.
FailsOnlyForCause ==
    \A r \in Runtimes :
        At(r, "failed") /\ verdict[r].runtime = "valid" => excuse[r] # {}
=============================================================================
