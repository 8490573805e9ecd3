---------------------------- MODULE Configuration ----------------------------
(***************************************************************************)
(* How a runtime comes by its configuration: ConfigLoader.load_config      *)
(* merges a dictionary of the application, a file and the environment,     *)
(* KafkaAgentRuntimeConfig.from_dict makes the three nested configuration  *)
(* objects of the result, and each of them validates itself as the last    *)
(* step of its construction and keeps the verdict.                         *)
(*                                                                         *)
(* A dictionary is a function from the places that are set in it to their  *)
(* values.  The nested dictionary 'kafka' is an object that a merge copies *)
(* only when two sources have it, so that from_dict, which writes to it,   *)
(* may write to the dictionary of the application.                         *)
(***************************************************************************)
EXTENDS Naturals, Sequences, Functions

CONSTANTS
    Runtimes,      \* the processes that load a configuration
    Bases,         \* runtime -> the base dictionaries its application may have
    Files,         \* runtime -> the contents its file may have
    Environments,  \* runtime -> the environments it may meet
    Unusable,      \* registries that do not validate: a key without its secret
    Workers,       \* the workers of a runtime, in the order of their topics
    MaxChanges     \* bound: changes of an environment or of the cluster

\* kafka.*: keys of the section 'kafka', the registry's url among them;
\* registry.url: the url in a section 'schema_registry' at the top level.
Places == {"kafka.group", "kafka.replication", "kafka.registry.url",
           "registry.url", "runtime.requests"}
InKafka == {"kafka.group", "kafka.replication", "kafka.registry.url"}

\* load_from_env splits a name at its first section only: no variable reaches
\* the registry inside 'kafka'.
EnvironmentPlaces == Places \ {"kafka.registry.url"}

Sources == UNION {Bases[r] \cup Files[r] \cup Environments[r] : r \in Runtimes}
ValuesAt(k) == {d[k] : d \in {x \in Sources : k \in DOMAIN x}}

Urls == ValuesAt("kafka.registry.url") \cup ValuesAt("registry.url")
Topics == {"requests"} \cup ValuesAt("runtime.requests") \cup
          {Workers[i] : i \in DOMAIN Workers}

\* A negative replication factor, which a broker takes for its own default, is
\* left out.
ASSUME ConfigurationAssumption ==
    /\ \A r \in Runtimes :
           /\ Bases[r] # {} /\ Files[r] # {} /\ Environments[r] # {}
           /\ \A d \in Bases[r] \cup Files[r] : DOMAIN d \subseteq Places
           /\ \A e \in Environments[r] : DOMAIN e \subseteq EnvironmentPlaces
    /\ ValuesAt("kafka.replication") \subseteq Nat
    /\ Workers \in Seq(STRING) /\ Workers # <<>>
    /\ MaxChanges \in Nat

VARIABLES
    given,     \* history: runtime -> what its application wrote to start with
    base,      \* runtime -> the dictionary object of its application
    file,      \* runtime -> the content of its file
    env,       \* runtime -> the variables of its environment
    config,    \* runtime -> the object it has loaded
    verdict,   \* runtime -> the results its three objects have cached
    intended,  \* history: what the sources said when it was loaded, by priority
    kept,      \* history: runtime -> the registry that a load has left in base
    changes    \* changes so far (bounded by MaxChanges)

configVars ==
    <<given, base, file, env, config, verdict, intended, kept, changes>>

\* No configuration object.
NoConfig == <<>>

ConfigInit ==
    /\ base \in [Runtimes -> UNION {Bases[r] : r \in Runtimes}]
    /\ file \in [Runtimes -> UNION {Files[r] : r \in Runtimes}]
    /\ env \in [Runtimes -> UNION {Environments[r] : r \in Runtimes}]
    /\ \A r \in Runtimes : /\ base[r] \in Bases[r]
                           /\ file[r] \in Files[r]
                           /\ env[r] \in Environments[r]
    /\ given = base
    /\ config = [r \in Runtimes |-> NoConfig]
    /\ verdict = [r \in Runtimes |-> <<>>]
    /\ intended = [r \in Runtimes |-> NoConfig]
    /\ kept = [r \in Runtimes |-> "none"]
    /\ changes = 0

-----------------------------------------------------------------------------
(* ConfigLoader                                                            *)

\* _parse_env_value turns what looks like a number into one, also a group id.
Parsed(place, value) ==
    IF place = "kafka.group" /\ value = "digits" THEN "number" ELSE value

FromEnvironment(e) == [k \in DOMAIN e |-> Parsed(k, e[k])]

\* f, and what g says where f says nothing.
Over(f, g) == [k \in DOMAIN f \cup DOMAIN g |->
                  IF k \in DOMAIN f THEN f[k] ELSE g[k]]
Entry(k, value) == [x \in {k} |-> value]

\* _deep_merge: what is set later wins, place by place.
Merged(lower, higher) == Over(higher, lower)

Loaded(r) == Merged(Merged(base[r], file[r]), FromEnvironment(env[r]))

\* The merge has made no copy of the application's dictionary 'kafka'.
SharesKafka(r) ==
    /\ DOMAIN base[r] \cap InKafka # {}
    /\ (DOMAIN file[r] \cup DOMAIN env[r]) \cap InKafka = {}

-----------------------------------------------------------------------------
(* KafkaAgentRuntimeConfig.from_dict and KafkaConfig.from_dict             *)

MovesRegistry(d) ==
    "registry.url" \in DOMAIN d /\ "kafka.registry.url" \notin DOMAIN d

WithRegistry(d) ==
    IF MovesRegistry(d) THEN Over(Entry("kafka.registry.url", d["registry.url"]), d)
    ELSE d

\* The rest of the code does not read the place "registry.url" any more.
Defaults ==
    [k \in Places |-> CASE k = "kafka.replication" -> 3
                        [] k = "runtime.requests" -> "requests"
                        [] OTHER -> "none"]

Complete(d) == {"kafka.group", "kafka.registry.url"} \subseteq DOMAIN d

Configured(d) == Over(WithRegistry(d), Defaults)

-----------------------------------------------------------------------------
(* Validation                                                              *)

\* Each object validates itself when it is made; one that is made of others
\* takes their cached results.  A group id that is a number raises something
\* else than a validation error, and nothing is cached; the same happens when
\* the base class of the runtime's configuration validates it before it has its
\* topics, so that the verdict is that of the second attempt.
RegistryVerdict(c) ==
    IF c["kafka.registry.url"] \in Unusable THEN "invalid" ELSE "valid"

KafkaVerdict(c, registry) ==
    IF c["kafka.group"] = "number" THEN "none"
    ELSE IF registry = "valid" /\ c["kafka.replication"] >= 1 THEN "valid"
    ELSE "invalid"

ServiceValid(kafka) == kafka = "valid"

\* The topic of a worker; only that of the requests is configurable here.
Topic(c, w) == IF w = "requests" THEN c["runtime.requests"] ELSE w
AllTopics(c) == [i \in DOMAIN Workers |-> Topic(c, Workers[i])]

\* A variant with a bug, for the mutation of the definition below.
RuntimeVerdictOfItself(c, kafka) ==
    IF IsInjective(AllTopics(c)) THEN "valid" ELSE "invalid"

\* All topics must be unique.
RuntimeVerdict(c, kafka) ==
    IF ServiceValid(kafka) /\ IsInjective(AllTopics(c)) THEN "valid"
    ELSE "invalid"

Validated(c) ==
    LET registry == RegistryVerdict(c)
        kafka == KafkaVerdict(c, registry)
    IN  [registry |-> registry, kafka |-> kafka,
         runtime |-> RuntimeVerdict(c, kafka)]

-----------------------------------------------------------------------------
\* What the sources say by the documented priority, whatever was loaded before:
\* the environment, then the file, then what the application wrote.  A registry
\* at the top level is one for 'kafka' where no source has one inside.
Intended(r) ==
    LET environment == FromEnvironment(env[r])
        said == DOMAIN environment \cup DOMAIN file[r] \cup DOMAIN given[r]
        highest(k) == IF k \in DOMAIN environment THEN environment[k]
                      ELSE IF k \in DOMAIN file[r] THEN file[r][k]
                      ELSE given[r][k]
    IN  [k \in Places |->
           IF k \in said THEN highest(k)
           ELSE IF k = "kafka.registry.url" /\ "registry.url" \in said
                THEN highest("registry.url")
           ELSE Defaults[k]]

\* A variant with a bug, for the mutation of the definition below.
WrittenMerged(r, d) == d

\* The application's dictionary after from_dict, which writes the registry into
\* the dictionary 'kafka' it was given before it reads it.
Written(r, d) ==
    IF SharesKafka(r) /\ MovesRegistry(d)
    THEN Over(Entry("kafka.registry.url", d["registry.url"]), base[r])
    ELSE base[r]

\* Without a group or a registry from_dict raises, when it has written.
Load(r) ==
    LET d == Loaded(r)
    IN  /\ base' = [base EXCEPT ![r] = Written(r, d)]
        /\ kept' = IF SharesKafka(r) /\ MovesRegistry(d)
                   THEN [kept EXCEPT ![r] = Intended(r)["kafka.registry.url"]]
                   ELSE kept
        /\ IF Complete(WithRegistry(d))
           THEN /\ config' = [config EXCEPT ![r] = Configured(d)]
                /\ verdict' = [verdict EXCEPT ![r] = Validated(Configured(d))]
                /\ intended' = [intended EXCEPT ![r] = Intended(r)]
           ELSE /\ config' = [config EXCEPT ![r] = NoConfig]
                /\ verdict' = [verdict EXCEPT ![r] = <<>>]
                /\ intended' = [intended EXCEPT ![r] = NoConfig]
        /\ UNCHANGED <<given, file, env, changes>>

\* Somebody sets the environment anew before the next load.
ChangeEnvironment(r) ==
    /\ changes < MaxChanges
    /\ changes' = changes + 1
    /\ \E e \in Environments[r] \ {env[r]} : env' = [env EXCEPT ![r] = e]
    /\ UNCHANGED <<given, base, file, config, verdict, intended, kept>>
=============================================================================
