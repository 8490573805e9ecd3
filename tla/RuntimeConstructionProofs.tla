---------------------- MODULE RuntimeConstructionProofs ----------------------
(***************************************************************************)
(* Proofs about Configuration and RuntimeConstruction, for any number of   *)
(* runtimes, sources, workers, schemas, brokers, changes and failures.     *)
(*                                                                         *)
(* A construction relies on what it has done and on what others do: topics *)
(* and schemas stay.  What is known of one runtime is the conjunction of   *)
(* Usable, CapIsKept, Advanced, Awaiting and HasCause, which the steps of  *)
(* the others keep because the services only gain, and its own steps one   *)
(* by one.                                                                 *)
(***************************************************************************)
EXTENDS RuntimeConstruction, SequenceTheorems, TLAPS

\* The values that a source may have at the places the construction reads.
Proper(d) ==
    /\ "kafka.registry.url" \in DOMAIN d => d["kafka.registry.url"] \in Urls
    /\ "registry.url" \in DOMAIN d => d["registry.url"] \in Urls
    /\ "runtime.requests" \in DOMAIN d => d["runtime.requests"] \in Topics
    /\ "kafka.replication" \in DOMAIN d => d["kafka.replication"] \in Nat

Usable(c) ==
    /\ c["kafka.registry.url"] \in Urls
    /\ c["runtime.requests"] \in Topics
    /\ c["kafka.replication"] \in Nat

\* The loader's variables are functions of the runtimes.
LoaderDomains ==
    /\ DOMAIN base = Runtimes /\ DOMAIN file = Runtimes /\ DOMAIN env = Runtimes
    /\ DOMAIN config = Runtimes /\ DOMAIN verdict = Runtimes
    /\ DOMAIN intended = Runtimes /\ DOMAIN kept = Runtimes

\* Sources have proper values, and objects that are made of them too; the
\* verdicts are of the object.
LoadedFromSources ==
    \A r \in Runtimes :
        /\ Proper(base[r])
        /\ config[r] # NoConfig =>
              Usable(config[r]) /\ verdict[r] = Validated(config[r])

\* A dictionary is what the application wrote but for a registry that was kept.
GivenOrKept(r) ==
    /\ DOMAIN given[r] \subseteq DOMAIN base[r]
    /\ DOMAIN base[r] \subseteq DOMAIN given[r] \cup {"kafka.registry.url"}
    /\ \A k \in DOMAIN base[r] :
          base[r][k] = IF k \in DOMAIN given[r] THEN given[r][k] ELSE kept[r]

BasesAreGiven == \A r \in Runtimes : GivenOrKept(r)

LoaderInv ==
    LoaderDomains /\ LoadedFromSources /\ BasesAreGiven /\ LoadFollowsPriority

Working == {"check", "latest", "register", "again"}

\* A replication factor was capped when its object connected: it is zero only
\* as configured, and more than the brokers only as some have left.
CapIsKept(r) ==
    /\ build[r].at # "new" => config[r] # NoConfig
    /\ build[r].at \in Working \cup {"await", "prepared", "built"} => cap[r] # NoUtils
    /\ cap[r] # NoUtils =>
          /\ config[r] # NoConfig
          /\ cap[r] = 0 => verdict[r].runtime # "valid"
          /\ cap[r] > brokers => "shrunk" \in excuse[r]

Known(r, i) == Knows(versions[Url(r)][TopicOf(r, i)], SchemaFor(r, i))
Provided(r, i) == TopicOf(r, i) \in DOMAIN topics /\ Known(r, i)

\* The workers before the one that is made have what they need, and that one
\* has its schema when it waits for its topic.
Advanced(r) ==
    /\ build[r].at = "loaded" => build[r].worker = 0
    /\ build[r].at \in Working => build[r].worker > 0
    /\ build[r].at \in Working \cup {"await"} =>
          \A i \in 1..(build[r].worker - 1) : Provided(r, i)
    /\ build[r].at = "latest" => Subject(r) # <<>>
    /\ build[r].at = "await" /\ build[r].worker > 0 => Known(r, build[r].worker)
    /\ build[r].at \in {"prepared", "built"} =>
          \A i \in DOMAIN Workers : TopicOf(r, i) \in DOMAIN topics
    /\ build[r].at = "built" => \A i \in DOMAIN Workers : Known(r, i)

\* Whose topics create_topics was asked for.
Asked(r) == IF build[r].worker = 0 THEN DOMAIN Workers ELSE {build[r].worker}

\* What is no longer waited for is there.
Awaiting(r) ==
    build[r].at = "await" =>
        /\ build[r].todo # <<>>
        /\ \A j \in DOMAIN build[r].todo : build[r].future[build[r].todo[j]] # "none"
        /\ \A t \in Topics : build[r].future[t] = "made" => t \in DOMAIN topics
        /\ \A i \in Asked(r) :
              \/ TopicOf(r, i) \in DOMAIN topics
              \/ \E j \in DOMAIN build[r].todo : build[r].todo[j] = TopicOf(r, i)

\* What has failed, or will when its future is looked at, has a cause.
HasCause(r) ==
    (\/ build[r].at = "failed"
     \/ build[r].at = "await" /\ \E t \in Topics : build[r].future[t] = "failed")
    => (excuse[r] # {} \/ verdict[r].runtime # "valid")

RuntimeInv(r) == CapIsKept(r) /\ Advanced(r) /\ Awaiting(r) /\ HasCause(r)

ConstructionInv == \A r \in Runtimes : RuntimeInv(r)

IInv == TypeOK /\ LoaderInv /\ ConstructionInv

-----------------------------------------------------------------------------
(* Dictionaries                                                            *)

\* What a merge gives, place by place.
LEMMA MergedPlaces ==
    ASSUME NEW lower, NEW higher
    PROVE  /\ DOMAIN Merged(lower, higher) = DOMAIN lower \cup DOMAIN higher
           /\ \A k \in DOMAIN Merged(lower, higher) :
                 Merged(lower, higher)[k] =
                    IF k \in DOMAIN higher THEN higher[k] ELSE lower[k]
  BY DEF Merged, Over

\* A merge of proper sources is one.
LEMMA MergedIsProper ==
    ASSUME NEW lower, NEW higher, Proper(lower), Proper(higher)
    PROVE  Proper(Merged(lower, higher))
<1> DEFINE merged == Merged(lower, higher)
<1>0. /\ DOMAIN merged = DOMAIN lower \cup DOMAIN higher
      /\ \A k \in DOMAIN merged :
            merged[k] = IF k \in DOMAIN higher THEN higher[k] ELSE lower[k]
  BY MergedPlaces
<1> HIDE DEF merged
<1>1. \A k \in DOMAIN merged :
         \/ k \in DOMAIN lower /\ merged[k] = lower[k]
         \/ k \in DOMAIN higher /\ merged[k] = higher[k]
  BY ONLY <1>0
<1>2. Proper(merged)
  BY <1>1 DEF Proper
<1> QED
  BY <1>2 DEF merged

\* The sources are proper.
LEMMA SourcesAreProper ==
    ASSUME NEW d \in Sources
    PROVE  Proper(d)
<1>1. \A k \in DOMAIN d : d[k] \in ValuesAt(k)
  BY DEF ValuesAt
<1>2. ValuesAt("kafka.replication") \subseteq Nat
  BY ConfigurationAssumption
<1> QED
  BY <1>1, <1>2 DEF Proper, Urls, Topics

\* What the environment says is proper where the construction reads it.
LEMMA EnvironmentIsProper ==
    ASSUME NEW e \in Sources
    PROVE  /\ Proper(FromEnvironment(e))
           /\ DOMAIN FromEnvironment(e) = DOMAIN e
  BY SourcesAreProper DEF Proper, FromEnvironment, Parsed

\* What is loaded is what the source of the highest priority says.
LEMMA LoadedPlaces ==
    ASSUME NEW r \in Runtimes
    PROVE  LET environment == FromEnvironment(env[r])
           IN  /\ DOMAIN Loaded(r) =
                     DOMAIN base[r] \cup DOMAIN file[r] \cup DOMAIN environment
               /\ \A k \in DOMAIN Loaded(r) :
                     Loaded(r)[k] = IF k \in DOMAIN environment THEN environment[k]
                                    ELSE IF k \in DOMAIN file[r] THEN file[r][k]
                                    ELSE base[r][k]
<1> DEFINE environment == FromEnvironment(env[r])
           both == Merged(base[r], file[r])
<1>1. /\ DOMAIN both = DOMAIN base[r] \cup DOMAIN file[r]
      /\ \A k \in DOMAIN both :
            both[k] = IF k \in DOMAIN file[r] THEN file[r][k] ELSE base[r][k]
  BY MergedPlaces
<1>2. /\ DOMAIN Loaded(r) = DOMAIN both \cup DOMAIN environment
      /\ \A k \in DOMAIN Loaded(r) :
            Loaded(r)[k] = IF k \in DOMAIN environment THEN environment[k] ELSE both[k]
  BY MergedPlaces DEF Loaded
<1> HIDE DEF environment, both
<1> QED
  BY <1>1, <1>2 DEF environment

\* What is loaded is proper.
LEMMA LoadedIsProper ==
    ASSUME TypeOK, LoaderInv, NEW r \in Runtimes
    PROVE  Proper(Loaded(r)) /\ DOMAIN Loaded(r) \subseteq Places
<1>1. file[r] \in Sources /\ env[r] \in Sources
  <2>1. file[r] \in Files[r] /\ env[r] \in Environments[r]
    BY DEF TypeOK
  <2> QED
    BY ONLY <2>1, r \in Runtimes DEF Sources
<1>2. Proper(Merged(base[r], file[r]))
  BY <1>1, SourcesAreProper, MergedIsProper DEF LoaderInv, LoadedFromSources
<1>3. Proper(FromEnvironment(env[r])) /\ DOMAIN FromEnvironment(env[r]) = DOMAIN env[r]
  BY <1>1, EnvironmentIsProper
<1>4. Proper(Loaded(r))
  BY <1>2, <1>3, MergedIsProper DEF Loaded
<1>5. /\ DOMAIN base[r] \subseteq Places /\ file[r] \in Files[r]
      /\ env[r] \in Environments[r]
  BY DEF TypeOK
<1>6. DOMAIN file[r] \subseteq Places /\ DOMAIN env[r] \subseteq Places
  BY <1>5, ConfigurationAssumption DEF EnvironmentPlaces
<1> QED
  BY <1>3, <1>4, <1>5, <1>6, LoadedPlaces

\* from_dict fills what is missing.
LEMMA ConfiguredPlaces ==
    ASSUME NEW d, DOMAIN d \subseteq Places, Complete(WithRegistry(d))
    PROVE  /\ DOMAIN Configured(d) = Places
           /\ \A k \in Places : Configured(d)[k] =
                 IF k = "kafka.registry.url"
                 THEN IF k \in DOMAIN d THEN d[k] ELSE d["registry.url"]
                 ELSE IF k \in DOMAIN d THEN d[k] ELSE Defaults[k]
           /\ "kafka.registry.url" \notin DOMAIN d => "registry.url" \in DOMAIN d
<1> DEFINE w == WithRegistry(d)
<1>1. /\ "kafka.registry.url" \in DOMAIN w
      /\ DOMAIN w \subseteq Places
      /\ \A k \in Places \ {"kafka.registry.url"} :
            /\ k \in DOMAIN w <=> k \in DOMAIN d
            /\ k \in DOMAIN d => w[k] = d[k]
  BY DEF Complete, WithRegistry, MovesRegistry, Places, Over, Entry
<1>2. /\ "kafka.registry.url" \notin DOMAIN d => "registry.url" \in DOMAIN d
      /\ w["kafka.registry.url"] = IF "kafka.registry.url" \in DOMAIN d
                                   THEN d["kafka.registry.url"] ELSE d["registry.url"]
  BY DEF Complete, WithRegistry, MovesRegistry, Places, Over, Entry
<1>3. DOMAIN Defaults = Places
  BY DEF Defaults
<1> HIDE DEF w
<1>4. /\ DOMAIN Over(w, Defaults) = Places
      /\ \A k \in Places : Over(w, Defaults)[k] = IF k \in DOMAIN w THEN w[k] ELSE Defaults[k]
  BY <1>1, <1>3 DEF Over
<1>5. Configured(d) = Over(w, Defaults)
  BY DEF Configured, w
<1> HIDE DEF Defaults
<1> QED
  BY <1>1, <1>2, <1>4, <1>5

\* An object that is made of proper values is usable.
LEMMA ConfiguredIsUsable ==
    ASSUME NEW d, Proper(d), DOMAIN d \subseteq Places, Complete(WithRegistry(d))
    PROVE  Usable(Configured(d))
<1>1. Defaults["kafka.replication"] \in Nat /\ Defaults["runtime.requests"] \in Topics
  BY DEF Defaults, Places, Topics
<1> QED
  BY <1>1, ConfiguredPlaces DEF Proper, Usable, Places

-----------------------------------------------------------------------------
(* Loading                                                                 *)

\* What the sources say, from what is loaded: the two differ where the dictionary
\* has a registry that was kept.
LEMMA IntendedPlaces ==
    ASSUME TypeOK, LoaderInv, NEW r \in Runtimes, NEW k \in Places,
           k \in DOMAIN Loaded(r)
    PROVE  \/ k = "kafka.registry.url" /\ Loaded(r)[k] = kept[r]
           \/ Intended(r)[k] = Loaded(r)[k]
<1> DEFINE d == Loaded(r)
           environment == FromEnvironment(env[r])
           f == file[r]
           b == base[r]
           g == given[r]
           said == DOMAIN environment \cup DOMAIN f \cup DOMAIN g
           highest(x) == IF x \in DOMAIN environment THEN environment[x]
                         ELSE IF x \in DOMAIN f THEN f[x] ELSE g[x]
<1>1. /\ DOMAIN d = DOMAIN b \cup DOMAIN f \cup DOMAIN environment
      /\ \A x \in DOMAIN d : d[x] = IF x \in DOMAIN environment THEN environment[x]
                                    ELSE IF x \in DOMAIN f THEN f[x]
                                    ELSE b[x]
  BY LoadedPlaces
<1>2. Intended(r)[k] = IF k \in said THEN highest(k)
                       ELSE IF k = "kafka.registry.url" /\ "registry.url" \in said
                            THEN highest("registry.url")
                       ELSE Defaults[k]
  BY DEF Intended
<1>3. /\ DOMAIN b \subseteq DOMAIN g \cup {"kafka.registry.url"}
      /\ \A x \in DOMAIN b : b[x] = IF x \in DOMAIN g THEN g[x] ELSE kept[r]
  BY DEF LoaderInv, BasesAreGiven, GivenOrKept
<1>4. k \in DOMAIN d
  OBVIOUS
<1>5. CASE k \in said
  <2>1. Intended(r)[k] = highest(k)
    BY <1>2, <1>5
  <2> HIDE DEF d, environment, f, b, g
  <2>2. d[k] = highest(k)
    BY ONLY <1>1, <1>3, <1>4, <1>5
  <2> QED
    BY <2>1, <2>2 DEF d
<1>6. CASE k \notin said
  <2> HIDE DEF d, environment, f, b, g
  <2>1. k = "kafka.registry.url" /\ d[k] = kept[r]
    BY ONLY <1>1, <1>3, <1>4, <1>6
  <2> QED
    BY <2>1 DEF d
<1> QED
  BY <1>5, <1>6

\* Where nothing is loaded the registry is that of the top level, if there is one.
LEMMA IntendedElsewhere ==
    ASSUME TypeOK, LoaderInv, NEW r \in Runtimes, NEW k \in Places,
           k \notin DOMAIN Loaded(r)
    PROVE  IF k = "kafka.registry.url" /\ "registry.url" \in DOMAIN Loaded(r)
           THEN Intended(r)[k] = Loaded(r)["registry.url"]
           ELSE k # "kafka.registry.url" => Intended(r)[k] = Defaults[k]
<1> DEFINE d == Loaded(r)
           environment == FromEnvironment(env[r])
           f == file[r]
           b == base[r]
           g == given[r]
           said == DOMAIN environment \cup DOMAIN f \cup DOMAIN g
           highest(x) == IF x \in DOMAIN environment THEN environment[x]
                         ELSE IF x \in DOMAIN f THEN f[x] ELSE g[x]
<1>1. /\ DOMAIN d = DOMAIN b \cup DOMAIN f \cup DOMAIN environment
      /\ \A x \in DOMAIN d : d[x] = IF x \in DOMAIN environment THEN environment[x]
                                    ELSE IF x \in DOMAIN f THEN f[x]
                                    ELSE b[x]
  BY LoadedPlaces
<1>2. Intended(r)[k] = IF k \in said THEN highest(k)
                       ELSE IF k = "kafka.registry.url" /\ "registry.url" \in said
                            THEN highest("registry.url")
                       ELSE Defaults[k]
  BY DEF Intended
<1>3. /\ DOMAIN g \subseteq DOMAIN b
      /\ DOMAIN b \subseteq DOMAIN g \cup {"kafka.registry.url"}
      /\ \A x \in DOMAIN b : b[x] = IF x \in DOMAIN g THEN g[x] ELSE kept[r]
  BY DEF LoaderInv, BasesAreGiven, GivenOrKept
<1>4. k \notin said
  BY <1>1, <1>3
<1>5. CASE k = "kafka.registry.url" /\ "registry.url" \in DOMAIN d
  <2>1. "registry.url" \in said /\ d["registry.url"] = highest("registry.url")
    <3> HIDE DEF d, environment, f, b, g
    <3> QED
      BY ONLY <1>1, <1>3, <1>5
  <2> QED
    BY <1>2, <1>4, <1>5, <2>1
<1> QED
  BY <1>2, <1>4, <1>5

\* An object says at every place what the sources say, but for a registry that
\* was kept.
LEMMA ConfiguredByPriority ==
    ASSUME TypeOK, LoaderInv, NEW r \in Runtimes,
           Complete(WithRegistry(Loaded(r))), NEW k \in Places \ {"registry.url"}
    PROVE  \/ Configured(Loaded(r))[k] = Intended(r)[k]
           \/ /\ k = "kafka.registry.url" /\ k \in DOMAIN Loaded(r)
              /\ Configured(Loaded(r))[k] = kept[r]
<1> DEFINE d == Loaded(r)
<1>1. DOMAIN d \subseteq Places
  BY LoadedIsProper
<1>2. /\ Configured(d)[k] = IF k = "kafka.registry.url"
                            THEN IF k \in DOMAIN d THEN d[k] ELSE d["registry.url"]
                            ELSE IF k \in DOMAIN d THEN d[k] ELSE Defaults[k]
      /\ "kafka.registry.url" \notin DOMAIN d => "registry.url" \in DOMAIN d
  BY <1>1, ConfiguredPlaces
<1>3. CASE k \in DOMAIN d
  <2>1. \/ k = "kafka.registry.url" /\ d[k] = kept[r]
        \/ Intended(r)[k] = d[k]
    BY <1>3, IntendedPlaces
  <2> HIDE DEF d
  <2>2. Configured(d)[k] = d[k]
    BY ONLY <1>2, <1>3
  <2> QED
    BY <1>3, <2>1, <2>2 DEF d
<1>4. CASE k \notin DOMAIN d
  <2>1. IF k = "kafka.registry.url" /\ "registry.url" \in DOMAIN d
        THEN Intended(r)[k] = d["registry.url"]
        ELSE k # "kafka.registry.url" => Intended(r)[k] = Defaults[k]
    BY <1>4, IntendedElsewhere
  <2> HIDE DEF d
  <2>2. Configured(d)[k] = Intended(r)[k]
    BY ONLY <1>2, <1>4, <2>1
  <2> QED
    BY <2>2 DEF d
<1> QED
  BY <1>3, <1>4

\* Loading keeps the loader's part of the invariant, and replaces the object.
LEMMA LoadInv ==
    ASSUME TypeOK, LoaderInv, NEW r \in Runtimes, Load(r)
    PROVE  /\ LoaderInv'
           /\ DOMAIN base'[r] \subseteq Places
           /\ config'[r] = NoConfig <=> intended'[r] = NoConfig
           /\ config'[r] = NoConfig <=> verdict'[r] = <<>>
           /\ config'[r] # NoConfig => DOMAIN config'[r] = Places
           /\ kept' \in [Runtimes -> Urls \cup {"none"}]
           /\ \A s \in Runtimes \ {r} :
                 /\ base'[s] = base[s] /\ config'[s] = config[s]
                 /\ verdict'[s] = verdict[s] /\ intended'[s] = intended[s]
<1> DEFINE d == Loaded(r)
           url == Entry("kafka.registry.url", d["registry.url"])
<1>1. LoaderDomains /\ LoadedFromSources /\ BasesAreGiven /\ LoadFollowsPriority
  BY DEF LoaderInv
<1>2. Proper(d) /\ DOMAIN d \subseteq Places
  BY LoadedIsProper
<1>3. /\ DOMAIN base' = Runtimes /\ \A s \in Runtimes \ {r} : base'[s] = base[s]
      /\ \/ base'[r] = base[r] /\ kept' = kept
         \/ /\ MovesRegistry(d) /\ base'[r] = Over(url, base[r])
            /\ kept' = [kept EXCEPT ![r] = Intended(r)["kafka.registry.url"]]
      /\ UNCHANGED <<given, file, env>>
  <2>1. /\ DOMAIN base' = Runtimes /\ \A s \in Runtimes \ {r} : base'[s] = base[s]
        /\ base'[r] = Written(r, d)
    BY <1>1 DEF LoaderDomains, Load
  <2> QED
    BY <2>1 DEF Load, Written
<1>16. MovesRegistry(d) =>
          /\ Intended(r)["kafka.registry.url"] = d["registry.url"]
          /\ d["registry.url"] \in Urls /\ "kafka.registry.url" \notin DOMAIN d
  BY <1>2, IntendedElsewhere DEF MovesRegistry, Proper, Places
<1>4. \/ /\ Complete(WithRegistry(d))
         /\ config' = [config EXCEPT ![r] = Configured(d)]
         /\ verdict' = [verdict EXCEPT ![r] = Validated(Configured(d))]
         /\ intended' = [intended EXCEPT ![r] = Intended(r)]
      \/ /\ config' = [config EXCEPT ![r] = NoConfig]
         /\ verdict' = [verdict EXCEPT ![r] = <<>>]
         /\ intended' = [intended EXCEPT ![r] = NoConfig]
  BY DEF Load
<1>5. MovesRegistry(d) => Proper(Over(url, base[r])) /\ DOMAIN Over(url, base[r]) \subseteq Places
  <2>1. SUFFICES ASSUME MovesRegistry(d)
                 PROVE  Proper(Over(url, base[r])) /\ DOMAIN Over(url, base[r]) \subseteq Places
    OBVIOUS
  <2>2. d["registry.url"] \in Urls
    BY <1>2, <2>1 DEF MovesRegistry, Proper
  <2>3. Proper(url) /\ DOMAIN url \subseteq Places
    BY <2>2 DEF Proper, Entry, Places
  <2>4. Proper(base[r]) /\ DOMAIN base[r] \subseteq Places
    BY <1>1 DEF LoadedFromSources, TypeOK
  <2> HIDE DEF url
  <2>5. Over(url, base[r]) = Merged(base[r], url)
    BY DEF Merged
  <2>6. Proper(Merged(base[r], url))
    BY <2>3, <2>4, MergedIsProper
  <2>7. DOMAIN Merged(base[r], url) = DOMAIN base[r] \cup DOMAIN url
    BY MergedPlaces
  <2> QED
    BY ONLY <2>3, <2>4, <2>5, <2>6, <2>7
<1> HIDE DEF d, url
<1>6. /\ LoaderDomains'
      /\ \A s \in Runtimes \ {r} :
            /\ base'[s] = base[s] /\ config'[s] = config[s]
            /\ verdict'[s] = verdict[s] /\ intended'[s] = intended[s]
  <2>1. DOMAIN base' = Runtimes /\ \A s \in Runtimes \ {r} : base'[s] = base[s]
    BY <1>3
  <2>2. /\ DOMAIN config' = Runtimes /\ DOMAIN verdict' = Runtimes
        /\ DOMAIN intended' = Runtimes
        /\ \A s \in Runtimes \ {r} : /\ config'[s] = config[s] /\ verdict'[s] = verdict[s]
                                     /\ intended'[s] = intended[s]
    BY <1>1, <1>4 DEF LoaderDomains
  <2>3. DOMAIN file' = Runtimes /\ DOMAIN env' = Runtimes /\ DOMAIN kept' = Runtimes
    BY <1>1, <1>3 DEF LoaderDomains
  <2> QED
    BY <2>1, <2>2, <2>3 DEF LoaderDomains
<1>7. Proper(base'[r]) /\ DOMAIN base'[r] \subseteq Places
  <2>1. CASE base'[r] = base[r]
    BY <1>1, <2>1 DEF LoadedFromSources, TypeOK
  <2>2. CASE MovesRegistry(d) /\ base'[r] = Over(url, base[r])
    BY <1>5, <2>2
  <2> QED
    BY <1>3, <2>1, <2>2
<1>8. \/ /\ Complete(WithRegistry(d))
         /\ config'[r] = Configured(d) /\ verdict'[r] = Validated(Configured(d))
         /\ intended'[r] = Intended(r)
      \/ config'[r] = NoConfig /\ verdict'[r] = <<>> /\ intended'[r] = NoConfig
  BY <1>1, <1>4 DEF LoaderDomains
<1>9. Complete(WithRegistry(d)) => DOMAIN Configured(d) = Places /\ Usable(Configured(d))
  BY <1>2, ConfiguredPlaces, ConfiguredIsUsable
<1>10. \A c : DOMAIN c = Places => c # NoConfig
  BY DEF Places, NoConfig
<1>11. \A c : Validated(c) # <<>>
  BY DEF Validated
<1>12. DOMAIN Intended(r) = Places
  BY DEF Intended
<1>13. LoadedFromSources'
  <2>1. \A s \in Runtimes : Proper(base'[s])
    BY <1>1, <1>6, <1>7 DEF LoadedFromSources
  <2>2. ASSUME NEW s \in Runtimes, config'[s] # NoConfig
        PROVE  Usable(config'[s]) /\ verdict'[s] = Validated(config'[s])
    BY <1>1, <1>6, <1>8, <1>9, <2>2 DEF LoadedFromSources
  <2> QED
    BY <2>1, <2>2 DEF LoadedFromSources
<1>15. /\ kept' \in [Runtimes -> Urls \cup {"none"}]
       /\ \A s \in Runtimes \ {r} : kept'[s] = kept[s]
  <2>1. kept \in [Runtimes -> Urls \cup {"none"}]
    BY DEF TypeOK
  <2>2. CASE kept' = kept
    BY ONLY <2>1, <2>2
  <2>3. CASE /\ MovesRegistry(d)
             /\ kept' = [kept EXCEPT ![r] = Intended(r)["kafka.registry.url"]]
    <3>1. Intended(r)["kafka.registry.url"] \in Urls
      BY <1>16, <2>3
    <3> QED
      BY ONLY <2>1, <2>3, <3>1
  <2> QED
    BY <1>3, <2>2, <2>3
<1>14. LoadFollowsPriority'
  <2>1. SUFFICES ASSUME NEW s \in Runtimes, config'[s] # NoConfig,
                        NEW k \in Places \ {"registry.url"}
                 PROVE  \/ config'[s][k] = intended'[s][k]
                        \/ k = "kafka.registry.url" /\ config'[s][k] = kept'[s]
    BY DEF LoadFollowsPriority
  <2>2. CASE s = r
    <3>1. k = "kafka.registry.url" /\ k \in DOMAIN d => kept' = kept
      BY <1>3, <1>16
    <3> QED
      BY <1>8, <2>1, <2>2, <3>1, ConfiguredByPriority DEF d
  <2>3. CASE s # r
    BY <1>1, <1>6, <1>15, <2>1, <2>3 DEF LoadFollowsPriority
  <2> QED
    BY <2>2, <2>3
<1>17. BasesAreGiven'
  <2>1. ASSUME NEW s \in Runtimes \ {r}
        PROVE  GivenOrKept(s)'
    BY <1>1, <1>3, <1>6, <1>15 DEF BasesAreGiven, GivenOrKept
  <2>2. GivenOrKept(r)'
    <3>1. CASE base'[r] = base[r] /\ kept' = kept
      BY <1>1, <1>3, <3>1 DEF BasesAreGiven, GivenOrKept
    <3>2. CASE /\ MovesRegistry(d) /\ base'[r] = Over(url, base[r])
               /\ kept' = [kept EXCEPT ![r] = Intended(r)["kafka.registry.url"]]
      <4>1. base'[r] = Over(url, base[r]) /\ kept'[r] = d["registry.url"]
        BY <1>1, <1>16, <3>2 DEF LoaderDomains
      <4>2. url = [x \in {"kafka.registry.url"} |-> d["registry.url"]]
        BY DEF url, Entry
      <4>3. "kafka.registry.url" \notin DOMAIN base[r]
        BY <1>16, <3>2, LoadedPlaces DEF d
      <4>4. GivenOrKept(r)
        BY <1>1 DEF BasesAreGiven
      <4>5. /\ DOMAIN base'[r] = DOMAIN base[r] \cup {"kafka.registry.url"}
            /\ base'[r]["kafka.registry.url"] = kept'[r]
            /\ \A x \in DOMAIN base[r] : base'[r][x] = base[r][x]
        BY ONLY <4>1, <4>2, <4>3 DEF Over
      <4> QED
        BY ONLY <1>3, <4>3, <4>4, <4>5 DEF GivenOrKept
    <3> QED
      BY <1>3, <3>1, <3>2
  <2> QED
    BY <2>1, <2>2 DEF BasesAreGiven
<1> QED
  BY <1>6, <1>7, <1>8, <1>9, <1>10, <1>11, <1>12, <1>13, <1>14, <1>15, <1>17
     DEF LoaderInv

-----------------------------------------------------------------------------
(* Topics and schemas                                                      *)

\* The services lose nothing.
Gains ==
    /\ DOMAIN topics \subseteq DOMAIN topics'
    /\ \A u \in Urls, t \in Topics :
          /\ \A x \in Schemas : Knows(versions[u][t], x) => Knows(versions'[u][t], x)
          /\ versions[u][t] # <<>> => versions'[u][t] # <<>>

\* The workers' names.
LEMMA WorkerNames ==
    /\ Len(Workers) \in Nat /\ Len(Workers) > 0
    /\ DOMAIN Workers = 1..Len(Workers)
    /\ \A i \in DOMAIN Workers : Workers[i] \in Topics
<1>1. Workers \in Seq(STRING) /\ Workers # <<>>
  BY ConfigurationAssumption
<1>2. /\ Len(Workers) \in Nat /\ Len(Workers) > 0 /\ DOMAIN Workers = 1..Len(Workers)
  BY <1>1
<1>3. \A i \in DOMAIN Workers : Workers[i] \in Topics
  BY DEF Topics
<1> QED
  BY <1>2, <1>3

\* A usable object names topics and a registry that the services know.
LEMMA ObjectNames ==
    ASSUME LoaderInv, NEW r \in Runtimes, config[r] # NoConfig
    PROVE  /\ Url(r) \in Urls
           /\ \A i \in DOMAIN Workers : TopicOf(r, i) \in Topics /\ SchemaFor(r, i) \in Schemas
<1>1. config[r]["kafka.registry.url"] \in Urls /\ config[r]["runtime.requests"] \in Topics
  BY DEF LoaderInv, LoadedFromSources, Usable
<1>2. ASSUME NEW i \in DOMAIN Workers
      PROVE  TopicOf(r, i) \in Topics /\ SchemaFor(r, i) \in Schemas
  BY <1>1, WorkerNames DEF TopicOf, Topic, SchemaFor, Schemas
<1> QED
  BY <1>1, <1>2 DEF Url

\* Names stay with the object.
LEMMA NamesStay ==
    ASSUME NEW r \in Runtimes, config'[r] = config[r]
    PROVE  /\ Url(r)' = Url(r)
           /\ \A i \in DOMAIN Workers : TopicOf(r, i)' = TopicOf(r, i)
  BY DEF Url, TopicOf

\* A runtime keeps what is known of it while others make the services gain.
LEMMA OthersKeep ==
    ASSUME TypeOK, LoaderInv, Gains, NEW r \in Runtimes, RuntimeInv(r),
           build'[r] = build[r], config'[r] = config[r], verdict'[r] = verdict[r],
           cap'[r] = cap[r], excuse[r] \subseteq excuse'[r],
           cap[r] # NoUtils /\ cap[r] > brokers' =>
               cap[r] > brokers \/ "shrunk" \in excuse'[r]
    PROVE  RuntimeInv(r)'
<1>1. CapIsKept(r)'
  BY DEF RuntimeInv, CapIsKept
<1>2. HasCause(r)'
  BY DEF RuntimeInv, HasCause
<1>3. CASE build[r].at = "new"
  BY <1>1, <1>2, <1>3 DEF RuntimeInv, Advanced, Awaiting, Working
<1>4. CASE build[r].at # "new"
  <2>1. /\ Url(r) \in Urls
        /\ \A i \in DOMAIN Workers : TopicOf(r, i) \in Topics /\ SchemaFor(r, i) \in Schemas
    BY <1>4, ObjectNames DEF RuntimeInv, CapIsKept
  <2>2. /\ Url(r)' = Url(r)
        /\ \A i \in DOMAIN Workers : TopicOf(r, i)' = TopicOf(r, i)
    BY NamesStay
  <2>3. /\ build[r].worker \in 0..Len(Workers) /\ DOMAIN Workers = 1..Len(Workers)
        /\ Len(Workers) \in Nat
    BY WorkerNames DEF TypeOK, Builds
  <2>4. \A i \in DOMAIN Workers : /\ Known(r, i) => Known(r, i)'
                                  /\ Provided(r, i) => Provided(r, i)'
    BY <2>1, <2>2 DEF Known, Provided, Gains, SchemaFor
  <2>5. build[r].worker > 0 /\ Subject(r) # <<>> => Subject(r)' # <<>>
    BY <2>1, <2>2, <2>3 DEF Subject, OwnTopic, Gains
  <2>6. DOMAIN topics \subseteq DOMAIN topics'
    BY DEF Gains
  <2>7. Advanced(r)'
    BY <2>2, <2>3, <2>4, <2>5, <2>6 DEF RuntimeInv, Advanced, Working
  <2>8. Asked(r)' = Asked(r) /\ Asked(r) \subseteq DOMAIN Workers
    BY <2>3 DEF Asked
  <2>9. Awaiting(r)'
    BY <2>2, <2>6, <2>8 DEF RuntimeInv, Awaiting
  <2> QED
    BY <1>1, <1>2, <2>7, <2>9 DEF RuntimeInv
<1> QED
  BY <1>3, <1>4

\* One more schema in one subject.
LEMMA OneMoreSchema ==
    ASSUME NEW s \in Seq(Schemas), NEW x \in Schemas
    PROVE  /\ Append(s, x) \in Seq(Schemas) /\ Append(s, x) # <<>>
           /\ Knows(Append(s, x), x)
           /\ \A y : Knows(s, y) => Knows(Append(s, x), y)
<1>1. /\ Append(s, x) \in Seq(Schemas) /\ DOMAIN s = 1..Len(s) /\ Len(s) \in Nat
      /\ DOMAIN Append(s, x) = 1..(Len(s) + 1)
      /\ Append(s, x)[Len(s) + 1] = x /\ \A n \in 1..Len(s) : Append(s, x)[n] = s[n]
  OBVIOUS
<1> QED
  BY <1>1 DEF Knows

\* The registry that registers a schema has it, and gains.
LEMMA RegisteredIsKnown ==
    ASSUME TypeOK, NEW r \in Runtimes, Registered(r), UNCHANGED topics,
           Url(r) \in Urls, OwnTopic(r) \in Topics, Schema(r) \in Schemas
    PROVE  /\ versions' \in [Urls -> [Topics -> Seq(Schemas)]]
           /\ Knows(versions'[Url(r)][OwnTopic(r)], Schema(r))
           /\ Gains
<1> DEFINE u == Url(r)
           t == OwnTopic(r)
           x == Schema(r)
<1>1. versions \in [Urls -> [Topics -> Seq(Schemas)]]
  BY DEF TypeOK
<1>2. CASE Knows(versions[u][t], x)
  <2>1. versions' = versions
    BY <1>2 DEF Registered, Subject
  <2> QED
    BY <1>1, <1>2, <2>1 DEF Gains
<1>3. CASE ~Knows(versions[u][t], x)
  <2>1. versions' = [versions EXCEPT ![u][t] = Append(@, x)]
    BY <1>3 DEF Registered, Subject
  <2>2. u \in Urls /\ t \in Topics /\ x \in Schemas
    OBVIOUS
  <2> HIDE DEF u, t, x
  <2>3. versions[u][t] \in Seq(Schemas)
    BY <1>1, <2>2
  <2>4. Append(versions[u][t], x) \in Seq(Schemas)
    BY <2>2, <2>3
  <2>5. /\ versions' \in [Urls -> [Topics -> Seq(Schemas)]]
        /\ \A v \in Urls, w \in Topics :
              versions'[v][w] = IF v = u /\ w = t THEN Append(versions[u][t], x)
                                ELSE versions[v][w]
    BY ONLY <1>1, <2>1, <2>2, <2>4
  <2>6. /\ Append(versions[u][t], x) # <<>> /\ Knows(Append(versions[u][t], x), x)
        /\ \A y : Knows(versions[u][t], y) => Knows(Append(versions[u][t], x), y)
    BY <2>2, <2>3, OneMoreSchema
  <2>7. Gains
    BY <2>5, <2>6 DEF Gains
  <2>8. Knows(versions'[u][t], x)
    BY <2>2, <2>5, <2>6
  <2> QED
    BY <2>5, <2>7, <2>8 DEF u, t, x
<1> QED
  BY <1>2, <1>3

\* A topic that is made.
LEMMA OneMoreTopic ==
    ASSUME TypeOK, NEW t \in Topics, NEW n \in 1..brokers,
           topics' = Over(Entry(t, n), topics), UNCHANGED versions
    PROVE  /\ DOMAIN topics' = DOMAIN topics \cup {t}
           /\ DOMAIN topics' \subseteq Topics
           /\ \A s \in DOMAIN topics' : topics'[s] \in 1..MaxBrokers
           /\ Gains
<1>1. /\ DOMAIN topics' = DOMAIN topics \cup {t}
      /\ \A s \in DOMAIN topics' : topics'[s] = IF s = t THEN n ELSE topics[s]
  BY DEF Over, Entry
<1>2. /\ DOMAIN topics \subseteq Topics /\ brokers \in 1..MaxBrokers
      /\ \A s \in DOMAIN topics : topics[s] \in 1..MaxBrokers
  BY DEF TypeOK
<1>3. n \in 1..MaxBrokers
  BY <1>2, ConstructionAssumption
<1>4. \A s \in DOMAIN topics' : topics'[s] \in 1..MaxBrokers
  BY <1>1, <1>2, <1>3
<1>5. Gains
  BY <1>1 DEF Gains
<1> QED
  BY <1>1, <1>2, <1>4, <1>5

-----------------------------------------------------------------------------
(* Steps of a construction                                                 *)

\* What a step of one runtime may do to the records of all.
BuildOf(r) ==
    /\ build' \in [Runtimes -> Builds]
    /\ \A s \in Runtimes \ {r} : build'[s] = build[s]
CapOf(r) ==
    /\ cap' \in [Runtimes -> {NoUtils} \cup 0..MaxBrokers]
    /\ \A s \in Runtimes \ {r} : cap'[s] = cap[s]
CauseOf(r) ==
    /\ excuse' \in [Runtimes -> SUBSET Excuses]
    /\ \A s \in Runtimes \ {r} : excuse'[s] = excuse[s]
    /\ faults' \in 0..MaxFaults

ServicesTyped ==
    /\ DOMAIN topics \subseteq Topics
    /\ \A t \in DOMAIN topics : topics[t] \in 1..MaxBrokers
    /\ versions \in [Urls -> [Topics -> Seq(Schemas)]]

\* A step of a runtime that keeps what is known of it, keeps the invariant.
LEMMA OwnStep ==
    ASSUME IInv, NEW r \in Runtimes, UNCHANGED <<configVars, brokers>>,
           Gains, ServicesTyped', BuildOf(r), CapOf(r), CauseOf(r), RuntimeInv(r)'
    PROVE  IInv'
<1>1. TypeOK'
  BY DEF IInv, TypeOK, configVars, ServicesTyped, BuildOf, CapOf, CauseOf
<1>2. LoaderInv'
  BY DEF IInv, LoaderInv, LoaderDomains, LoadedFromSources,
         BasesAreGiven, GivenOrKept, LoadFollowsPriority, configVars
<1>3. ASSUME NEW s \in Runtimes \ {r}
      PROVE  RuntimeInv(s)'
  <2>1. RuntimeInv(s) /\ TypeOK /\ LoaderInv
    BY DEF IInv, ConstructionInv
  <2>2. /\ build'[s] = build[s] /\ config'[s] = config[s] /\ verdict'[s] = verdict[s]
        /\ cap'[s] = cap[s] /\ excuse'[s] = excuse[s] /\ brokers' = brokers
    BY DEF BuildOf, CapOf, CauseOf, configVars
  <2> QED
    BY <2>1, <2>2, OthersKeep
<1>4. ConstructionInv'
  BY <1>3 DEF ConstructionInv
<1> QED
  BY <1>1, <1>2, <1>4 DEF IInv

\* A construction's record is replaced.
LEMMA Puts ==
    ASSUME TypeOK, NEW r \in Runtimes, NEW b \in Builds, build' = [build EXCEPT ![r] = b]
    PROVE  BuildOf(r) /\ build'[r] = b
  BY DEF TypeOK, BuildOf

\* A construction goes to another step.
LEMMA Goes ==
    ASSUME TypeOK, NEW r \in Runtimes, NEW step \in Steps, Goto(r, step)
    PROVE  /\ BuildOf(r)
           /\ build'[r].at = step /\ build'[r].worker = build[r].worker
<1> DEFINE b == [build[r] EXCEPT !.at = step]
<1>1. build[r] \in Builds /\ DOMAIN build = Runtimes
  BY DEF TypeOK
<1>2. b \in Builds /\ b.at = step /\ b.worker = build[r].worker
  BY <1>1 DEF Builds
<1>3. build' = [build EXCEPT ![r] = b]
  BY <1>1 DEF Goto
<1> HIDE DEF b
<1> QED
  BY <1>2, <1>3, Puts

\* A construction begins anew.
LEMMA IdleRecords ==
    ASSUME NEW step \in Steps
    PROVE  /\ [Idle EXCEPT !.at = step] \in Builds
           /\ [Idle EXCEPT !.at = step].at = step
           /\ [Idle EXCEPT !.at = step].worker = 0
           /\ \A w \in 0..Len(Workers) :
                 /\ [Idle EXCEPT !.at = step, !.worker = w] \in Builds
                 /\ [Idle EXCEPT !.at = step, !.worker = w].at = step
                 /\ [Idle EXCEPT !.at = step, !.worker = w].worker = w
<1>1. 0 \in 0..Len(Workers)
  BY WorkerNames
<1>2. [t \in Topics |-> "none"] \in [Topics -> FutureStates] /\ <<>> \in Seq(Topics)
  BY DEF FutureStates
<1> QED
  BY <1>1, <1>2 DEF Idle, Builds, Steps

\* Nothing fails.
LEMMA NothingFails ==
    ASSUME TypeOK, NEW r \in Runtimes, NoFault
    PROVE  CauseOf(r) /\ excuse'[r] = excuse[r]
  BY DEF TypeOK, NoFault, CauseOf

\* A failure is a cause.
LEMMA FailureIsCause ==
    ASSUME TypeOK, NEW r \in Runtimes, NEW kind \in FaultKinds, Fault(r, kind)
    PROVE  CauseOf(r) /\ excuse[r] \subseteq excuse'[r] /\ excuse'[r] # {}
<1>1. faults' \in 0..MaxFaults
  BY ConstructionAssumption DEF TypeOK, Fault
<1>2. kind \in Excuses /\ excuse \in [Runtimes -> SUBSET Excuses]
  BY DEF Excuses, TypeOK
<1> QED
  BY <1>1, <1>2 DEF Fault, CauseOf

\* A schema that is refused is a cause.
LEMMA RefusalIsCause ==
    ASSUME TypeOK, NEW r \in Runtimes, UNCHANGED faults,
           excuse' = [excuse EXCEPT ![r] = @ \cup {"incompatible"}]
    PROVE  CauseOf(r) /\ excuse[r] \subseteq excuse'[r] /\ excuse'[r] # {}
  BY DEF TypeOK, CauseOf, Excuses

\* Without a connection the record of the utilities stays.
LEMMA CapStays ==
    ASSUME TypeOK, NEW r \in Runtimes, UNCHANGED cap
    PROVE  CapOf(r) /\ cap'[r] = cap[r]
  BY DEF TypeOK, CapOf

\* Unchanged services are typed and have lost nothing.
LEMMA ServicesStay ==
    ASSUME TypeOK, UNCHANGED clusterVars
    PROVE  Gains /\ ServicesTyped'
  BY DEF TypeOK, clusterVars, Gains, ServicesTyped

\* What is known of a worker stays known.
LEMMA KnownStays ==
    ASSUME IInv, NEW r \in Runtimes, UNCHANGED <<configVars, brokers>>, Gains,
           build[r].at # "new", NEW i \in DOMAIN Workers
    PROVE  /\ Known(r, i) => Known(r, i)'
           /\ Provided(r, i) => Provided(r, i)'
           /\ TopicOf(r, i)' = TopicOf(r, i)
<1>1. config[r] # NoConfig /\ LoaderInv /\ config'[r] = config[r]
  BY DEF IInv, ConstructionInv, RuntimeInv, CapIsKept, configVars
<1>2. Url(r) \in Urls /\ TopicOf(r, i) \in Topics /\ SchemaFor(r, i) \in Schemas
  BY <1>1, ObjectNames
<1>3. Url(r)' = Url(r) /\ TopicOf(r, i)' = TopicOf(r, i)
  BY <1>1, NamesStay
<1> QED
  BY <1>2, <1>3 DEF Known, Provided, Gains, SchemaFor

-----------------------------------------------------------------------------
(* Where a step may lead                                                   *)

\* A connected object stays connected.
LEMMA CapKept ==
    ASSUME IInv, NEW r \in Runtimes, UNCHANGED <<configVars, brokers>>,
           build[r].at # "new", cap'[r] = cap[r], excuse[r] \subseteq excuse'[r],
           \/ cap[r] # NoUtils
           \/ build'[r].at \in {"loaded", "failed"}
    PROVE  CapIsKept(r)'
<1>1. CapIsKept(r)
  BY DEF IInv, ConstructionInv, RuntimeInv
<1> QED
  BY <1>1 DEF CapIsKept, configVars, Working

\* What a construction at work has.
LEMMA AtWork ==
    ASSUME IInv, NEW r \in Runtimes, build[r].at \in Working \cup {"await"}
    PROVE  /\ cap[r] # NoUtils /\ build[r].at # "new" /\ config[r] # NoConfig
           /\ build[r].worker \in 0..Len(Workers)
           /\ build[r].at \in Working => build[r].worker \in DOMAIN Workers
           /\ \A i \in 1..(build[r].worker - 1) : Provided(r, i) /\ i \in DOMAIN Workers
<1>1. CapIsKept(r) /\ Advanced(r) /\ build[r].worker \in 0..Len(Workers)
  BY DEF IInv, ConstructionInv, RuntimeInv, TypeOK, Builds
<1>2. DOMAIN Workers = 1..Len(Workers) /\ Len(Workers) \in Nat
  BY WorkerNames
<1> QED
  BY <1>1, <1>2 DEF CapIsKept, Advanced, Working

\* A construction fails for a cause.
LEMMA ToFailed ==
    ASSUME IInv, NEW r \in Runtimes, UNCHANGED <<configVars, brokers>>,
           build[r].at # "new", build'[r].at = "failed", cap'[r] = cap[r],
           excuse[r] \subseteq excuse'[r],
           excuse'[r] # {} \/ verdict[r].runtime # "valid"
    PROVE  RuntimeInv(r)'
<1>1. CapIsKept(r)'
  BY CapKept
<1>2. Advanced(r)' /\ Awaiting(r)'
  BY DEF Advanced, Awaiting, Working
<1>3. HasCause(r)'
  BY DEF HasCause, configVars
<1> QED
  BY <1>1, <1>2, <1>3 DEF RuntimeInv

\* A construction is at work on a worker's schema.
LEMMA ToWorking ==
    ASSUME IInv, NEW r \in Runtimes, UNCHANGED <<configVars, brokers>>, Gains,
           build[r].at # "new", build'[r].at \in Working, CapIsKept(r)',
           build'[r].worker \in 1..Len(Workers),
           \A i \in 1..(build'[r].worker - 1) : Provided(r, i),
           build'[r].at = "latest" => Subject(r)' # <<>>
    PROVE  RuntimeInv(r)'
<1>1. DOMAIN Workers = 1..Len(Workers) /\ Len(Workers) \in Nat
  BY WorkerNames
<1>2. \A i \in 1..(build'[r].worker - 1) : Provided(r, i)'
  BY <1>1, KnownStays
<1>3. Advanced(r)'
  BY <1>2 DEF Advanced, Working
<1>4. Awaiting(r)' /\ HasCause(r)'
  BY DEF Awaiting, HasCause, Working
<1> QED
  BY <1>3, <1>4 DEF RuntimeInv

\* create_topics asks for the topics in turn, and a topic is refused at once
\* only when it is asked for twice.
LEMMA Asks ==
    ASSUME TypeOK, NEW r \in Runtimes, NEW names \in Seq(Topics)
    PROVE  LET b == CreateTopics(r, names)
           IN  /\ b \in Builds /\ b.at = "await" /\ b.worker = build[r].worker
               /\ b.todo = names
               /\ \A t \in Topics : b.future[t] # "made"
               /\ \A j \in DOMAIN names : b.future[names[j]] # "none"
               /\ (\E t \in Topics : b.future[t] = "failed") => ~IsInjective(names)
<1> DEFINE places(t) == {i \in DOMAIN names : names[i] = t}
           future == [t \in Topics |->
                          IF places(t) = {} THEN "none"
                          ELSE IF \E i, j \in places(t) : i # j THEN "failed"
                          ELSE "pending"]
           b == CreateTopics(r, names)
<1>1. build[r] \in Builds
  BY DEF TypeOK
<1>2. future \in [Topics -> FutureStates]
  BY DEF FutureStates
<1>3. b = [build[r] EXCEPT !.at = "await", !.todo = names, !.future = future]
  BY DEF CreateTopics
<1>4. \A j \in DOMAIN names : names[j] \in Topics /\ j \in places(names[j])
  OBVIOUS
<1>5. \A t \in Topics : future[t] # "made"
  OBVIOUS
<1>6. \A j \in DOMAIN names : future[names[j]] # "none"
  BY <1>4
<1>7. ASSUME NEW t \in Topics, future[t] = "failed"
      PROVE  ~IsInjective(names)
  <2>1. \E i, j \in places(t) : i # j
    BY <1>7
  <2> QED
    BY <2>1 DEF IsInjective
<1> HIDE DEF b, future
<1>8. b \in Builds /\ b.at = "await" /\ b.worker = build[r].worker /\ b.todo = names
      /\ b.future = future
  BY <1>1, <1>2, <1>3 DEF Builds, Steps
<1> QED
  BY <1>5, <1>6, <1>7, <1>8 DEF b

\* A construction waits for the topics of create_topics, or of a worker whose
\* schema is registered.
LEMMA ToAwait ==
    ASSUME IInv, NEW r \in Runtimes, UNCHANGED <<configVars, brokers>>, Gains,
           build[r].at # "new", CapIsKept(r)', excuse[r] \subseteq excuse'[r],
           NEW names \in Seq(Topics), names # <<>>, build'[r] = CreateTopics(r, names),
           IsInjective(names) \/ verdict[r].runtime # "valid",
           \A i \in 1..(build[r].worker - 1) : Provided(r, i),
           build[r].worker > 0 => Known(r, build[r].worker)',
           \A i \in Asked(r) : \E j \in DOMAIN names : names[j] = TopicOf(r, i)
    PROVE  RuntimeInv(r)'
<1>1. DOMAIN Workers = 1..Len(Workers) /\ Len(Workers) \in Nat
      /\ build[r].worker \in 0..Len(Workers) /\ TypeOK
  BY WorkerNames DEF IInv, TypeOK, Builds
<1>2. /\ build'[r].at = "await" /\ build'[r].worker = build[r].worker
      /\ build'[r].todo = names
      /\ \A t \in Topics : build'[r].future[t] # "made"
      /\ \A j \in DOMAIN names : build'[r].future[names[j]] # "none"
      /\ (\E t \in Topics : build'[r].future[t] = "failed") => ~IsInjective(names)
  BY <1>1, Asks
<1>3. \A i \in 1..(build[r].worker - 1) : Provided(r, i)'
  BY <1>1, KnownStays
<1>4. Advanced(r)'
  BY <1>2, <1>3 DEF Advanced, Working
<1>5. Asked(r)' = Asked(r) /\ Asked(r) \subseteq DOMAIN Workers
  BY <1>1, <1>2 DEF Asked
<1>6. \A i \in Asked(r) : TopicOf(r, i)' = TopicOf(r, i)
  BY <1>5, KnownStays
<1>7. Awaiting(r)'
  BY <1>2, <1>5, <1>6 DEF Awaiting
<1>8. HasCause(r)'
  BY <1>2 DEF HasCause, configVars
<1> QED
  BY <1>4, <1>7, <1>8 DEF RuntimeInv

\* A valid object has distinct topics and at least one replica.
LEMMA ValidObject ==
    ASSUME IInv, NEW r \in Runtimes, config[r] # NoConfig, verdict[r].runtime = "valid"
    PROVE  IsInjective(AllTopics(config[r])) /\ config[r]["kafka.replication"] >= 1
<1> DEFINE c == config[r]
           registry == RegistryVerdict(c)
           kafka == KafkaVerdict(c, registry)
<1>1. verdict[r] = Validated(c)
  BY DEF IInv, LoaderInv, LoadedFromSources
<1>2. RuntimeVerdict(c, kafka) = "valid"
  BY <1>1 DEF Validated
<1>3. IsInjective(AllTopics(c)) /\ kafka = "valid"
  BY <1>2 DEF RuntimeVerdict, ServiceValid
<1>4. c["kafka.replication"] >= 1
  BY <1>3 DEF KafkaVerdict
<1> QED
  BY <1>3, <1>4

\* The first use connects the object, and caps its replication factor.
LEMMA Connects ==
    ASSUME IInv, NEW r \in Runtimes, UNCHANGED <<configVars, brokers>>,
           build[r].at # "new", Connected(r)
    PROVE  /\ CapOf(r) /\ CauseOf(r) /\ excuse'[r] = excuse[r]
           /\ CapIsKept(r)'
<1>1. TypeOK /\ CapIsKept(r) /\ config[r] # NoConfig
  BY DEF IInv, ConstructionInv, RuntimeInv, CapIsKept
<1>2. CauseOf(r) /\ excuse'[r] = excuse[r]
  BY <1>1, NothingFails DEF Connected
<1>3. CASE cap[r] = NoUtils /\ cap' = [cap EXCEPT ![r] = Capped(config[r])]
  <2>1. config[r]["kafka.replication"] \in Nat
    BY <1>1 DEF IInv, LoaderInv, LoadedFromSources, Usable
  <2>2. brokers \in 1..MaxBrokers /\ MaxBrokers \in Nat /\ \A n \in 0..MaxBrokers : NoUtils # n
    BY <1>1, ConstructionAssumption DEF TypeOK
  <2>3. /\ Capped(config[r]) \in 0..MaxBrokers /\ Capped(config[r]) <= brokers
        /\ Capped(config[r]) = 0 => config[r]["kafka.replication"] = 0
    BY <2>1, <2>2 DEF Capped
  <2> DEFINE n == Capped(config[r])
  <2> HIDE DEF n
  <2>4. cap' \in [Runtimes -> {NoUtils} \cup 0..MaxBrokers] /\ cap'[r] = n
        /\ \A s \in Runtimes \ {r} : cap'[s] = cap[s]
    BY <1>1, <1>3, <2>3 DEF TypeOK, n
  <2>5. n = 0 => verdict[r].runtime # "valid"
    BY <1>1, <2>1, <2>3, ValidObject DEF n
  <2>6. ~(n > brokers) /\ n # NoUtils
    BY <2>2, <2>3 DEF n
  <2>7. config'[r] = config[r] /\ verdict'[r] = verdict[r] /\ brokers' = brokers
    BY DEF configVars
  <2>8. CapIsKept(r)'
    BY <1>1, <2>4, <2>5, <2>6, <2>7 DEF CapIsKept
  <2> QED
    BY <1>2, <2>4, <2>8 DEF CapOf
<1>4. CASE cap[r] # NoUtils /\ UNCHANGED cap
  <2>1. CapOf(r) /\ cap'[r] = cap[r]
    BY <1>1, <1>4, CapStays
  <2> QED
    BY <1>2, <1>4, <2>1, CapKept
<1> QED
  BY <1>3, <1>4 DEF Connected

\* A connection that fails ends the construction.
LEMMA ConnectionFails ==
    ASSUME IInv, NEW r \in Runtimes, UNCHANGED <<configVars, brokers, clusterVars>>,
           build[r].at # "new", ConnectFails(r)
    PROVE  IInv'
<1>1. TypeOK /\ Gains /\ ServicesTyped'
  BY ServicesStay DEF IInv
<1>2. BuildOf(r) /\ build'[r].at = "failed"
  BY <1>1, Goes DEF ConnectFails, Steps
<1>3. CauseOf(r) /\ excuse[r] \subseteq excuse'[r] /\ excuse'[r] # {}
  BY <1>1, FailureIsCause DEF ConnectFails, FaultKinds
<1>4. CapOf(r) /\ cap'[r] = cap[r]
  BY <1>1, CapStays DEF ConnectFails
<1>5. RuntimeInv(r)'
  BY <1>2, <1>3, <1>4, ToFailed
<1> QED
  BY <1>1, <1>2, <1>3, <1>4, <1>5, OwnStep

-----------------------------------------------------------------------------
(* The actions                                                             *)

\* Loading begins with a new object.
LEMMA LoadConfigInv ==
    ASSUME IInv, NEW r \in Runtimes, LoadConfig(r)
    PROVE  IInv'
<1>1. TypeOK /\ LoaderInv /\ Load(r) /\ UNCHANGED <<brokers, clusterVars, faults>>
  BY DEF IInv, LoadConfig
<1>2. /\ LoaderInv'
      /\ DOMAIN base'[r] \subseteq Places
      /\ config'[r] = NoConfig <=> intended'[r] = NoConfig
      /\ config'[r] = NoConfig <=> verdict'[r] = <<>>
      /\ config'[r] # NoConfig => DOMAIN config'[r] = Places
      /\ kept' \in [Runtimes -> Urls \cup {"none"}]
      /\ \A s \in Runtimes \ {r} :
            /\ base'[s] = base[s] /\ config'[s] = config[s]
            /\ verdict'[s] = verdict[s] /\ intended'[s] = intended[s]
  BY <1>1, LoadInv
<1>3. UNCHANGED <<given, file, env, changes>>
  BY <1>1 DEF Load
<1> DEFINE step == IF config'[r] = NoConfig THEN "new" ELSE "loaded"
<1>4. BuildOf(r) /\ build'[r].at = step /\ build'[r].worker = 0
  <2>1. step \in Steps
    BY DEF Steps
  <2>2. build' = [build EXCEPT ![r] = [Idle EXCEPT !.at = step]]
    BY DEF LoadConfig
  <2> DEFINE b == [Idle EXCEPT !.at = step]
  <2> HIDE DEF step
  <2>3. b \in Builds /\ b.at = step /\ b.worker = 0
    BY <2>1, IdleRecords
  <2> HIDE DEF b
  <2>4. build' = [build EXCEPT ![r] = b]
    BY <2>2 DEF b
  <2> QED
    BY <1>1, <2>3, <2>4, Puts
<1>5. /\ cap' \in [Runtimes -> {NoUtils} \cup 0..MaxBrokers] /\ cap'[r] = NoUtils
      /\ \A s \in Runtimes \ {r} : cap'[s] = cap[s]
  BY <1>1 DEF LoadConfig, TypeOK
<1>6. /\ excuse' \in [Runtimes -> SUBSET Excuses]
      /\ \A s \in Runtimes \ {r} : excuse'[s] = excuse[s]
  BY <1>1 DEF LoadConfig, TypeOK
<1>7. Gains /\ ServicesTyped'
  BY <1>1, ServicesStay
<1>8. TypeOK'
  <2>1. \A s \in Runtimes :
          /\ given'[s] \in Bases[s] /\ DOMAIN base'[s] \subseteq Places
          /\ config'[s] = NoConfig <=> intended'[s] = NoConfig
          /\ config'[s] = NoConfig <=> verdict'[s] = <<>>
          /\ config'[s] # NoConfig => DOMAIN config'[s] = Places
    BY <1>1, <1>2, <1>3 DEF TypeOK
  <2> QED
    BY <1>1, <1>2, <1>3, <1>4, <1>5, <1>6, <1>7, <2>1 DEF TypeOK, BuildOf, ServicesTyped
<1>9. RuntimeInv(r)'
  <2>1. CapIsKept(r)' /\ Advanced(r)' /\ Awaiting(r)' /\ HasCause(r)'
    BY <1>4, <1>5 DEF CapIsKept, Advanced, Awaiting, HasCause, Working
  <2> QED
    BY <2>1 DEF RuntimeInv
<1>10. ASSUME NEW s \in Runtimes \ {r}
       PROVE  RuntimeInv(s)'
  <2>1. RuntimeInv(s)
    BY DEF IInv, ConstructionInv
  <2>2. build'[s] = build[s] /\ brokers' = brokers
    BY <1>1, <1>4 DEF BuildOf
  <2> QED
    BY <1>1, <1>2, <1>5, <1>6, <1>7, <2>1, <2>2, OthersKeep
<1> QED
  BY <1>2, <1>8, <1>9, <1>10 DEF IInv, ConstructionInv

\* The next attempt begins without the causes of the last.
LEMMA TryAgainInv ==
    ASSUME IInv, NEW r \in Runtimes, TryAgain(r)
    PROVE  IInv'
<1>1. /\ TypeOK /\ build[r].at = "failed" /\ CapIsKept(r)
      /\ UNCHANGED <<configVars, brokers, clusterVars, cap, faults>>
  BY DEF IInv, TryAgain, At, ConstructionInv, RuntimeInv
<1>2. Gains /\ ServicesTyped' /\ CapOf(r) /\ cap'[r] = cap[r]
  BY <1>1, ServicesStay, CapStays
<1>3. BuildOf(r) /\ build'[r].at = "loaded" /\ build'[r].worker = 0
  <2> DEFINE b == [Idle EXCEPT !.at = "loaded"]
  <2>1. b \in Builds /\ b.at = "loaded" /\ b.worker = 0
    BY IdleRecords DEF Steps
  <2>2. build' = [build EXCEPT ![r] = b]
    BY DEF TryAgain
  <2> HIDE DEF b
  <2> QED
    BY <1>1, <2>1, <2>2, Puts
<1>4. /\ CauseOf(r)
      /\ "shrunk" \in excuse[r] => "shrunk" \in excuse'[r]
  BY <1>1 DEF TryAgain, TypeOK, CauseOf
<1>5. CapIsKept(r)'
  BY <1>1, <1>2, <1>3, <1>4 DEF CapIsKept, configVars, Working
<1>6. Advanced(r)' /\ Awaiting(r)' /\ HasCause(r)'
  BY <1>3 DEF Advanced, Awaiting, HasCause, Working
<1>7. RuntimeInv(r)'
  BY <1>5, <1>6 DEF RuntimeInv
<1> QED
  BY <1>1, <1>2, <1>3, <1>4, <1>7, OwnStep

\* A construction begins with its first worker.
LEMMA ConstructInv ==
    ASSUME IInv, NEW r \in Runtimes, Construct(r)
    PROVE  IInv'
<1>1. /\ TypeOK /\ build[r].at # "new"
      /\ UNCHANGED <<configVars, brokers, clusterVars>>
  BY DEF IInv, Construct, At
<1>2. Gains /\ ServicesTyped'
  BY <1>1, ServicesStay
<1>3. CASE /\ Connected(r)
           /\ build' = [build EXCEPT ![r] = [Idle EXCEPT !.at = "check", !.worker = 1]]
  <2>1. CapOf(r) /\ CauseOf(r) /\ CapIsKept(r)'
    BY <1>1, <1>3, Connects
  <2>2. 1 \in 1..Len(Workers) /\ 1 \in 0..Len(Workers)
    BY WorkerNames
  <2>3. BuildOf(r) /\ build'[r].at = "check" /\ build'[r].worker = 1
    <3> DEFINE b == [Idle EXCEPT !.at = "check", !.worker = 1]
    <3>1. b \in Builds /\ b.at = "check" /\ b.worker = 1
      <4>1. "check" \in Steps
        BY DEF Steps
      <4>2. \A w \in 0..Len(Workers) :
               /\ [Idle EXCEPT !.at = "check", !.worker = w] \in Builds
               /\ [Idle EXCEPT !.at = "check", !.worker = w].at = "check"
               /\ [Idle EXCEPT !.at = "check", !.worker = w].worker = w
        BY ONLY <4>1, IdleRecords
      <4> QED
        BY ONLY <2>2, <4>2
    <3>2. build' = [build EXCEPT ![r] = b]
      BY <1>3
    <3> HIDE DEF b
    <3> QED
      BY <1>1, <3>1, <3>2, Puts
  <2>4. RuntimeInv(r)'
    <3>1. build'[r].at \in Working /\ build'[r].at # "latest"
      BY <2>3 DEF Working
    <3>2. \A i \in 1..(build'[r].worker - 1) : Provided(r, i)
      BY <2>3
    <3> QED
      BY <1>1, <1>2, <2>1, <2>2, <2>3, <3>1, <3>2, ToWorking
  <2> QED
    BY <1>1, <1>2, <2>1, <2>3, <2>4, OwnStep
<1>4. CASE ConnectFails(r)
  BY <1>1, <1>4, ConnectionFails
<1> QED
  BY <1>3, <1>4 DEF Construct

\* create_topics is asked for the topics of all workers.
LEMMA PrepareTopicsInv ==
    ASSUME IInv, NEW r \in Runtimes, PrepareTopics(r)
    PROVE  IInv'
<1>1. /\ TypeOK /\ build[r].at = "loaded" /\ CapIsKept(r) /\ Advanced(r) /\ LoaderInv
      /\ UNCHANGED <<configVars, brokers, clusterVars>>
  BY DEF IInv, PrepareTopics, At, ConstructionInv, RuntimeInv
<1>2. Gains /\ ServicesTyped'
  BY <1>1, ServicesStay
<1>3. config[r] # NoConfig /\ build[r].worker = 0
  BY <1>1 DEF CapIsKept, Advanced
<1> DEFINE names == AllTopics(config[r])
<1>4. /\ names \in Seq(Topics) /\ names # <<>> /\ DOMAIN names = DOMAIN Workers
      /\ \A i \in DOMAIN Workers : names[i] = TopicOf(r, i)
  <2>1. DOMAIN Workers = 1..Len(Workers) /\ Len(Workers) \in Nat /\ Len(Workers) > 0
    BY WorkerNames
  <2>2. \A i \in DOMAIN Workers : TopicOf(r, i) \in Topics
    BY <1>1, <1>3, ObjectNames
  <2>3. DOMAIN names = DOMAIN Workers /\ \A i \in DOMAIN Workers : names[i] = TopicOf(r, i)
    BY DEF AllTopics, TopicOf
  <2>4. names = [i \in 1..Len(Workers) |-> names[i]]
    BY <2>1 DEF AllTopics
  <2> HIDE DEF names
  <2>5. names \in Seq(Topics) /\ Len(names) = Len(Workers)
    BY <2>1, <2>2, <2>3, <2>4
  <2> QED
    BY <2>1, <2>3, <2>5
<1>5. CASE /\ Connected(r)
           /\ build' = [build EXCEPT ![r] = CreateTopics(r, names)]
  <2> HIDE DEF names
  <2>1. CapOf(r) /\ CauseOf(r) /\ CapIsKept(r)' /\ excuse'[r] = excuse[r]
    BY <1>1, <1>5, Connects
  <2>2. CreateTopics(r, names) \in Builds
    BY <1>1, <1>4, Asks
  <2>3. BuildOf(r) /\ build'[r] = CreateTopics(r, names)
    BY <1>1, <1>5, <2>2, Puts
  <2>4. IsInjective(names) \/ verdict[r].runtime # "valid"
    BY <1>3, ValidObject DEF names
  <2>5. Asked(r) = DOMAIN Workers
    BY <1>3 DEF Asked
  <2>6. RuntimeInv(r)'
    <3>1. \A i \in Asked(r) : \E j \in DOMAIN names : names[j] = TopicOf(r, i)
      BY <1>4, <2>5
    <3>2. /\ \A i \in 1..(build[r].worker - 1) : Provided(r, i)
          /\ ~(build[r].worker > 0)
      BY <1>3
    <3> QED
      BY <1>1, <1>2, <1>4, <2>1, <2>3, <2>4, <3>1, <3>2, ToAwait
  <2> QED
    BY <1>1, <1>2, <2>1, <2>3, <2>6, OwnStep
<1>6. CASE ConnectFails(r)
  BY <1>1, <1>6, ConnectionFails
<1> QED
  BY <1>5, <1>6 DEF PrepareTopics

\* What the constructor of a worker uses.
LEMMA OwnNames ==
    ASSUME IInv, NEW r \in Runtimes, build[r].at \in Working
    PROVE  /\ Url(r) \in Urls /\ OwnTopic(r) \in Topics /\ Schema(r) \in Schemas
           /\ Subject(r) \in Seq(Schemas)
           /\ OwnTopic(r) = TopicOf(r, build[r].worker)
<1>1. config[r] # NoConfig /\ build[r].worker \in DOMAIN Workers /\ LoaderInv
  BY AtWork DEF IInv
<1>2. Url(r) \in Urls /\ OwnTopic(r) \in Topics /\ Schema(r) \in Schemas
  BY <1>1, ObjectNames DEF OwnTopic, Schema
<1>3. versions \in [Urls -> [Topics -> Seq(Schemas)]]
  BY DEF IInv, TypeOK
<1>4. Subject(r) \in Seq(Schemas)
  BY <1>2, <1>3 DEF Subject
<1> QED
  BY <1>2, <1>4 DEF OwnTopic

\* A constructor that goes on with its worker's schema.
LEMMA GoesOn ==
    ASSUME IInv, NEW r \in Runtimes, UNCHANGED <<configVars, brokers, cap>>,
           Gains, ServicesTyped', build[r].at \in Working,
           NEW step \in Working, Goto(r, step), step = "latest" => Subject(r)' # <<>>,
           CauseOf(r), excuse[r] \subseteq excuse'[r]
    PROVE  IInv'
<1>1. /\ TypeOK /\ cap[r] # NoUtils /\ build[r].at # "new"
      /\ build[r].worker \in 1..Len(Workers)
      /\ \A i \in 1..(build[r].worker - 1) : Provided(r, i)
  BY AtWork, WorkerNames DEF IInv
<1>2. BuildOf(r) /\ build'[r].at = step /\ build'[r].worker = build[r].worker
  <2>1. step \in Steps
    BY DEF Working, Steps
  <2> QED
    BY <1>1, <2>1, Goes
<1>3. CapOf(r) /\ cap'[r] = cap[r]
  BY <1>1, CapStays
<1>4. CapIsKept(r)'
  BY <1>1, <1>3, CapKept
<1>5. RuntimeInv(r)'
  BY <1>1, <1>2, <1>4, ToWorking
<1> QED
  BY <1>2, <1>3, <1>5, OwnStep

\* A constructor that fails in a call of the registry.
LEMMA GivesUp ==
    ASSUME IInv, NEW r \in Runtimes, UNCHANGED <<configVars, brokers, cap>>,
           Gains, ServicesTyped', build[r].at \in Working, Goto(r, "failed"),
           CauseOf(r), excuse[r] \subseteq excuse'[r], excuse'[r] # {}
    PROVE  IInv'
<1>1. TypeOK /\ build[r].at # "new"
  BY AtWork DEF IInv
<1>2. BuildOf(r) /\ build'[r].at = "failed"
  BY <1>1, Goes DEF Steps
<1>3. CapOf(r) /\ cap'[r] = cap[r]
  BY <1>1, CapStays
<1>4. RuntimeInv(r)'
  BY <1>1, <1>2, <1>3, ToFailed
<1> QED
  BY <1>2, <1>3, <1>4, OwnStep

\* A constructor whose schema is registered creates its topic.
LEMMA CreatesTopic ==
    ASSUME IInv, NEW r \in Runtimes, UNCHANGED <<configVars, brokers, cap>>,
           Gains, ServicesTyped', build[r].at \in Working,
           build' = [build EXCEPT ![r] = CreateTopic(r)], NoFault,
           Known(r, build[r].worker)'
    PROVE  IInv'
<1>1. /\ TypeOK /\ cap[r] # NoUtils /\ build[r].at # "new"
      /\ build[r].worker \in DOMAIN Workers /\ build[r].worker \in 1..Len(Workers)
      /\ \A i \in 1..(build[r].worker - 1) : Provided(r, i)
  BY AtWork, WorkerNames DEF IInv
<1> DEFINE names == <<OwnTopic(r)>>
<1>2. /\ names \in Seq(Topics) /\ names # <<>> /\ IsInjective(names)
      /\ 1 \in DOMAIN names /\ names[1] = TopicOf(r, build[r].worker)
  BY OwnNames DEF IsInjective
<1>3. build' = [build EXCEPT ![r] = CreateTopics(r, names)]
  BY DEF CreateTopic
<1> HIDE DEF names
<1>4. BuildOf(r) /\ build'[r] = CreateTopics(r, names)
  <2>1. CreateTopics(r, names) \in Builds
    BY <1>1, <1>2, Asks
  <2> QED
    BY <1>1, <1>3, <2>1, Puts
<1>5. CapOf(r) /\ cap'[r] = cap[r] /\ CauseOf(r) /\ excuse'[r] = excuse[r]
  BY <1>1, CapStays, NothingFails
<1>6. CapIsKept(r)'
  BY <1>1, <1>5, CapKept
<1>7. \A i \in Asked(r) : \E j \in DOMAIN names : names[j] = TopicOf(r, i)
  BY <1>1, <1>2 DEF Asked
<1>8. RuntimeInv(r)'
  BY <1>1, <1>2, <1>4, <1>5, <1>6, <1>7, ToAwait
<1> QED
  BY <1>4, <1>5, <1>8, OwnStep

\* The first question: is the schema compatible with the latest.
LEMMA CheckSchemaInv ==
    ASSUME IInv, NEW r \in Runtimes, CheckSchema(r)
    PROVE  IInv'
<1>1. /\ TypeOK /\ build[r].at \in Working
      /\ UNCHANGED <<configVars, brokers, clusterVars, cap>>
  BY DEF IInv, CheckSchema, At, Working
<1>2. Gains /\ ServicesTyped' /\ Subject(r)' = Subject(r)
  <2>1. Subject(r)' = Subject(r)
    <3>1. build[r].worker' = build[r].worker
      BY <1>1, Goes DEF CheckSchema, RequestFails, AfterFailure, At, Steps
    <3> QED
      BY <1>1, <3>1 DEF Subject, Url, OwnTopic, TopicOf, configVars, clusterVars
  <2> QED
    BY <1>1, <2>1, ServicesStay
<1>3. CASE Goto(r, "again") /\ NoFault
  BY <1>1, <1>2, <1>3, NothingFails, GoesOn DEF Working
<1>4. CASE Subject(r) # <<>> /\ Goto(r, "latest") /\ NoFault
  BY <1>1, <1>2, <1>4, NothingFails, GoesOn DEF Working
<1>5. CASE /\ Goto(r, "failed") /\ UNCHANGED faults
           /\ excuse' = [excuse EXCEPT ![r] = @ \cup {"incompatible"}]
  BY <1>1, <1>2, <1>5, RefusalIsCause, GivesUp
<1>6. CASE Fault(r, "registry") /\ (Goto(r, "again") \/ Goto(r, "failed"))
  BY <1>1, <1>2, <1>6, FailureIsCause, GoesOn, GivesUp DEF Working, FaultKinds
<1> QED
  BY <1>3, <1>4, <1>5, <1>6 DEF CheckSchema, RequestFails, AfterFailure, At

\* The second: is it the latest itself.
LEMMA LatestSchemaInv ==
    ASSUME IInv, NEW r \in Runtimes, LatestSchema(r)
    PROVE  IInv'
<1>1. /\ TypeOK /\ build[r].at = "latest" /\ build[r].at \in Working
      /\ UNCHANGED <<configVars, brokers, clusterVars, cap>>
  BY DEF IInv, LatestSchema, At, Working
<1>2. Gains /\ ServicesTyped'
  BY <1>1, ServicesStay
<1>3. CASE /\ Latest(Subject(r)) = Schema(r)
           /\ build' = [build EXCEPT ![r] = CreateTopic(r)]
           /\ NoFault
  <2>1. Subject(r) # <<>> /\ Subject(r) \in Seq(Schemas)
    BY <1>1, OwnNames DEF IInv, ConstructionInv, RuntimeInv, Advanced
  <2>2. Len(Subject(r)) \in DOMAIN Subject(r)
    BY <2>1
  <2>3. Knows(Subject(r), Schema(r))
    BY <1>3, <2>2 DEF Knows, Latest
  <2>4. Known(r, build[r].worker)
    BY <2>3 DEF Known, Subject, OwnTopic, Schema
  <2>5. build[r].worker \in DOMAIN Workers /\ build[r].at # "new"
    BY <1>1, AtWork
  <2>6. build'[r].worker = build[r].worker
    <3>1. <<OwnTopic(r)>> \in Seq(Topics)
      BY <1>1, OwnNames
    <3>2. CreateTopic(r).worker = build[r].worker /\ CreateTopic(r) \in Builds
      BY <1>1, <3>1, Asks DEF CreateTopic
    <3> QED
      BY <1>1, <1>3, <3>2, Puts
  <2>7. Known(r, build[r].worker)'
    BY <1>1, <1>2, <2>4, <2>5, <2>6, KnownStays
  <2> QED
    BY <1>1, <1>2, <1>3, <2>7, CreatesTopic
<1>4. CASE Goto(r, "register") /\ NoFault
  BY <1>1, <1>2, <1>4, NothingFails, GoesOn DEF Working
<1>5. CASE Fault(r, "registry") /\ (Goto(r, "again") \/ Goto(r, "failed"))
  BY <1>1, <1>2, <1>5, FailureIsCause, GoesOn, GivesUp DEF Working, FaultKinds
<1> QED
  BY <1>1, <1>3, <1>4, <1>5 DEF LatestSchema, RequestFails, AfterFailure

\* A schema that is registered is known under the names of the worker.
LEMMA RegistrationIsKnown ==
    ASSUME IInv, NEW r \in Runtimes, build[r].at \in Working, Registered(r),
           UNCHANGED <<configVars, topics>>, build'[r].worker = build[r].worker
    PROVE  Gains /\ ServicesTyped' /\ Known(r, build[r].worker)'
<1>1. /\ Url(r) \in Urls /\ OwnTopic(r) \in Topics /\ Schema(r) \in Schemas
      /\ OwnTopic(r) = TopicOf(r, build[r].worker) /\ TypeOK
  BY OwnNames DEF IInv
<1>2. /\ versions' \in [Urls -> [Topics -> Seq(Schemas)]]
      /\ Knows(versions'[Url(r)][OwnTopic(r)], Schema(r))
      /\ Gains
  BY <1>1, RegisteredIsKnown
<1>3. config'[r] = config[r]
  BY DEF configVars
<1>4. Known(r, build[r].worker)'
  BY <1>1, <1>2, <1>3 DEF Known, Url, TopicOf, SchemaFor, Schema
<1>5. ServicesTyped'
  BY <1>1, <1>2 DEF TypeOK, ServicesTyped
<1> QED
  BY <1>2, <1>4, <1>5

\* The registration, the first or the one in the except clause.
LEMMA RegisterSchemaInv ==
    ASSUME IInv, NEW r \in Runtimes, RegisterSchema(r)
    PROVE  IInv'
<1>1. /\ TypeOK /\ build[r].at \in Working /\ build[r].at \in {"register", "again"}
      /\ UNCHANGED <<configVars, brokers, topics, cap>>
  BY DEF IInv, RegisterSchema, At, Working
<1> DEFINE next == AfterFailure[build[r].at]
<1>2. (next = "again" /\ next \in Working) \/ next = "failed"
  BY <1>1 DEF AfterFailure, Working
<1>3. CASE /\ Registered(r) /\ NoFault
           /\ build' = [build EXCEPT ![r] = CreateTopic(r)]
  <2>1. build'[r].worker = build[r].worker
    <3>1. <<OwnTopic(r)>> \in Seq(Topics)
      BY <1>1, OwnNames
    <3>2. CreateTopic(r).worker = build[r].worker /\ CreateTopic(r) \in Builds
      BY <1>1, <3>1, Asks DEF CreateTopic
    <3> QED
      BY <1>1, <1>3, <3>2, Puts
  <2>2. Gains /\ ServicesTyped' /\ Known(r, build[r].worker)'
    BY <1>1, <1>3, <2>1, RegistrationIsKnown
  <2> QED
    BY <1>1, <1>3, <2>2, CreatesTopic
<1> HIDE DEF next
<1>4. ASSUME Gains, ServicesTyped', Goto(r, next) \/ Goto(r, "failed"), CauseOf(r),
             excuse[r] \subseteq excuse'[r], excuse'[r] # {}
      PROVE  IInv'
  BY <1>1, <1>2, <1>4, GoesOn, GivesUp
<1>5. CASE /\ Registered(r) /\ Fault(r, "lost")
           /\ Goto(r, next) \/ Goto(r, "failed")
  <2>1. next \in Steps /\ "failed" \in Steps
    BY <1>2 DEF Steps
  <2>2. build'[r].worker = build[r].worker
    BY <1>1, <1>5, <2>1, Goes
  <2>3. Gains /\ ServicesTyped'
    BY <1>1, <1>5, <2>2, RegistrationIsKnown
  <2> QED
    BY <1>1, <1>4, <1>5, <2>3, FailureIsCause DEF FaultKinds
<1>6. CASE /\ Goto(r, next) /\ UNCHANGED <<versions, faults>>
           /\ excuse' = [excuse EXCEPT ![r] = @ \cup {"incompatible"}]
  BY <1>1, <1>4, <1>6, RefusalIsCause, ServicesStay DEF clusterVars
<1>7. CASE /\ Fault(r, "registry") /\ UNCHANGED versions
           /\ Goto(r, next) \/ Goto(r, "failed")
  BY <1>1, <1>4, <1>7, FailureIsCause, ServicesStay DEF clusterVars, FaultKinds
<1> QED
  BY <1>3, <1>5, <1>6, <1>7 DEF RegisterSchema, RequestFails, next

\* The broker decides on a topic; it refuses one for which it has too few
\* brokers, or that has no replicas.
LEMMA BrokerCreatesInv ==
    ASSUME IInv, NEW r \in Runtimes, NEW t \in Topics, BrokerCreates(r, t)
    PROVE  IInv'
<1>1. /\ TypeOK /\ build[r].at = "await" /\ build[r].future[t] = "pending"
      /\ UNCHANGED <<configVars, brokers, versions, cap>>
      /\ build[r] \in Builds /\ DOMAIN build = Runtimes
      /\ CapIsKept(r) /\ Advanced(r) /\ Awaiting(r) /\ HasCause(r)
  BY DEF IInv, BrokerCreates, At, ConstructionInv, RuntimeInv, TypeOK
<1>2. /\ cap[r] # NoUtils /\ build[r].at # "new" /\ build[r].worker \in 0..Len(Workers)
      /\ \A i \in 1..(build[r].worker - 1) : Provided(r, i) /\ i \in DOMAIN Workers
  BY <1>1, AtWork
<1>3. CapOf(r) /\ cap'[r] = cap[r]
  BY <1>1, CapStays
<1>4. ASSUME NEW how \in {"made", "failed"}, Decide(r, t, how), Gains, ServicesTyped',
             CauseOf(r), excuse[r] \subseteq excuse'[r],
             how = "made" => t \in DOMAIN topics',
             how = "failed" => excuse'[r] # {} \/ verdict[r].runtime # "valid"
      PROVE  IInv'
  <2> DEFINE b == [build[r] EXCEPT !.future[t] = how]
  <2>1. /\ b \in Builds /\ b.at = "await" /\ b.worker = build[r].worker
        /\ b.todo = build[r].todo
        /\ \A x \in Topics : b.future[x] = IF x = t THEN how ELSE build[r].future[x]
    BY <1>1 DEF Builds, FutureStates
  <2>2. build' = [build EXCEPT ![r] = b]
    BY <1>1, <1>4 DEF Decide
  <2> HIDE DEF b
  <2>3. BuildOf(r) /\ build'[r] = b
    BY <1>1, <2>1, <2>2, Puts
  <2>4. CapIsKept(r)'
    BY <1>1, <1>2, <1>3, <1>4, CapKept
  <2>5. Advanced(r)'
    <3>1. DOMAIN Workers = 1..Len(Workers) /\ Len(Workers) \in Nat
      BY WorkerNames
    <3>2. \A i \in 1..(b.worker - 1) : Provided(r, i)'
      BY <1>1, <1>2, <1>4, <2>1, KnownStays
    <3>3. build[r].worker > 0 => Known(r, build[r].worker)'
      <4>1. SUFFICES ASSUME build[r].worker > 0
                     PROVE  Known(r, build[r].worker)'
        OBVIOUS
      <4>2. Known(r, build[r].worker) /\ build[r].worker \in DOMAIN Workers
        BY <1>1, <1>2, <3>1, <4>1 DEF Advanced
      <4>3. build'[r].worker = build[r].worker
        BY <2>1, <2>3
      <4> QED
        BY <1>1, <1>2, <1>4, <4>2, <4>3, KnownStays
    <3>4. build'[r].at = "await" /\ build'[r].worker = b.worker
          /\ build'[r].worker = build[r].worker
      BY <2>1, <2>3
    <3> QED
      BY <3>2, <3>3, <3>4 DEF Advanced, Working
  <2>6. Awaiting(r)'
    <3>1. Asked(r)' = Asked(r) /\ Asked(r) \subseteq DOMAIN Workers
      <4>1. build[r].worker \in 0..Len(Workers) /\ build'[r].worker = build[r].worker
        BY <1>2, <2>1, <2>3
      <4>2. DOMAIN Workers = 1..Len(Workers) /\ Len(Workers) \in Nat
        BY WorkerNames
      <4> QED
        BY ONLY <4>1, <4>2 DEF Asked
    <3>2. \A i \in Asked(r) : TopicOf(r, i)' = TopicOf(r, i)
      BY <1>1, <1>2, <1>4, <3>1, KnownStays
    <3>3. DOMAIN topics \subseteq DOMAIN topics'
      BY <1>4 DEF Gains
    <3>4. build[r].todo \in Seq(Topics)
      BY <1>1 DEF Builds
    <3>5. \A j \in DOMAIN build[r].todo : b.future[build[r].todo[j]] # "none"
      BY <1>1, <2>1, <3>4 DEF Awaiting
    <3>6. \A x \in Topics : b.future[x] = "made" => x \in DOMAIN topics'
      BY <1>1, <1>4, <2>1, <3>3 DEF Awaiting
    <3>7. \A i \in Asked(r) : \/ TopicOf(r, i)' \in DOMAIN topics'
                              \/ \E j \in DOMAIN b.todo : b.todo[j] = TopicOf(r, i)'
      BY <1>1, <2>1, <3>2, <3>3 DEF Awaiting
    <3>8. b.todo # <<>>
      BY <1>1, <2>1 DEF Awaiting
    <3> QED
      BY <2>1, <2>3, <3>1, <3>5, <3>6, <3>7, <3>8 DEF Awaiting
  <2>7. HasCause(r)'
    <3>1. SUFFICES ASSUME NEW x \in Topics, b.future[x] = "failed"
                   PROVE  excuse'[r] # {} \/ verdict[r].runtime # "valid"
      BY <1>1, <2>1, <2>3 DEF HasCause, configVars
    <3>2. CASE x = t
      BY <1>4, <2>1, <3>1, <3>2
    <3>3. CASE x # t
      BY <1>1, <1>4, <2>1, <3>1, <3>3 DEF HasCause
    <3> QED
      BY <3>2, <3>3
  <2>8. RuntimeInv(r)'
    BY <2>4, <2>5, <2>6, <2>7 DEF RuntimeInv
  <2> QED
    BY <1>1, <1>3, <1>4, <2>3, <2>8, OwnStep
<1>5. CASE t \in DOMAIN topics /\ Decide(r, t, "made") /\ UNCHANGED topics /\ NoFault
  BY <1>1, <1>4, <1>5, NothingFails, ServicesStay DEF clusterVars
<1>6. CASE /\ cap[r] \in 1..brokers /\ topics' = Over(Entry(t, cap[r]), topics)
           /\ Decide(r, t, "made") /\ NoFault
  <2>1. Gains /\ ServicesTyped' /\ t \in DOMAIN topics'
    BY <1>1, <1>6, OneMoreTopic DEF ServicesTyped, TypeOK
  <2> QED
    BY <1>1, <1>4, <1>6, <2>1, NothingFails
<1>7. CASE /\ cap[r] \notin 1..brokers /\ Decide(r, t, "failed")
           /\ UNCHANGED topics /\ NoFault
  <2>1. excuse'[r] = excuse[r] /\ CauseOf(r)
    BY <1>1, <1>7, NothingFails
  <2>2. cap[r] \in Nat /\ brokers \in Nat
    BY <1>1, <1>2, ConstructionAssumption DEF TypeOK
  <2>3. cap[r] = 0 \/ cap[r] > brokers
    BY <1>7, <2>2
  <2>4. excuse[r] # {} \/ verdict[r].runtime # "valid"
    BY <1>1, <1>2, <2>3 DEF CapIsKept
  <2> QED
    BY <1>1, <1>4, <1>7, <2>1, <2>4, ServicesStay DEF clusterVars
<1>8. CASE Fault(r, "broker") /\ Decide(r, t, "failed") /\ UNCHANGED topics
  BY <1>1, <1>4, <1>8, FailureIsCause, ServicesStay DEF clusterVars, FaultKinds
<1> QED
  BY <1>1, <1>5, <1>6, <1>7, <1>8 DEF BrokerCreates

\* The first future of todo is made, or has failed.
LEMMA Awaited ==
    ASSUME IInv, NEW r \in Runtimes, build[r].at = "await"
    PROVE  LET t == Head(build[r].todo)
               f == build[r].future[t]
           IN  /\ build[r].todo \in Seq(Topics) /\ build[r].todo # <<>>
               /\ t \in Topics /\ t = build[r].todo[1]
               /\ f # "pending" => f = "failed" \/ (f = "made" /\ t \in DOMAIN topics)
<1> DEFINE t == Head(build[r].todo)
           f == build[r].future[t]
<1>1. build[r] \in Builds /\ Awaiting(r)
  BY DEF IInv, TypeOK, ConstructionInv, RuntimeInv
<1>2. /\ build[r].todo \in Seq(Topics) /\ build[r].todo # <<>>
      /\ build[r].future \in [Topics -> FutureStates]
      /\ \A j \in DOMAIN build[r].todo : build[r].future[build[r].todo[j]] # "none"
      /\ \A x \in Topics : build[r].future[x] = "made" => x \in DOMAIN topics
  BY <1>1 DEF Builds, Awaiting
<1>3. t \in Topics /\ t = build[r].todo[1] /\ 1 \in DOMAIN build[r].todo
  BY <1>2
<1> HIDE DEF t
<1>4. f \in FutureStates /\ f # "none"
  BY <1>2, <1>3
<1>5. f # "pending" => f = "failed" \/ (f = "made" /\ t \in DOMAIN topics)
  <2>1. f = "pending" \/ f = "made" \/ f = "failed"
    BY <1>4 DEF FutureStates
  <2>2. f = "made" => t \in DOMAIN topics
    BY <1>2, <1>3
  <2> HIDE DEF f
  <2> QED
    BY ONLY <2>1, <2>2
<1> QED
  BY <1>2, <1>3, <1>5 DEF t

\* With the last topic that it waits for, a worker has what it needs, or all
\* workers have their topics.
LEMMA NextWorkerInv ==
    ASSUME IInv, NEW r \in Runtimes, build[r].at = "await",
           UNCHANGED <<configVars, brokers, clusterVars, cap, excuse, faults>>,
           build[r].future[Head(build[r].todo)] = "made", Len(build[r].todo) = 1,
           build' = [build EXCEPT ![r] = NextWorker(r)]
    PROVE  IInv'
<1>1. TypeOK /\ Advanced(r) /\ Awaiting(r) /\ Gains /\ ServicesTyped'
  BY ServicesStay DEF IInv, ConstructionInv, RuntimeInv
<1>2. /\ cap[r] # NoUtils /\ build[r].at # "new" /\ build[r].worker \in 0..Len(Workers)
      /\ \A i \in 1..(build[r].worker - 1) : Provided(r, i) /\ i \in DOMAIN Workers
      /\ DOMAIN Workers = 1..Len(Workers) /\ Len(Workers) \in Nat
  BY AtWork, WorkerNames
<1>3. CapOf(r) /\ cap'[r] = cap[r] /\ CauseOf(r) /\ excuse'[r] = excuse[r]
  BY <1>1, CapStays, NothingFails DEF NoFault
<1>4. \A i \in Asked(r) : TopicOf(r, i) \in DOMAIN topics
  <2>1. /\ build[r].todo \in Seq(Topics) /\ build[r].todo[1] \in DOMAIN topics
    BY Awaited
  <2>2. \A j \in DOMAIN build[r].todo : j = 1
    BY <2>1
  <2> QED
    BY <1>1, <2>1, <2>2 DEF Awaiting
<1>5. CASE build[r].worker = 0
  <2> DEFINE b == [Idle EXCEPT !.at = "prepared"]
  <2>1. b \in Builds /\ b.at = "prepared"
    BY IdleRecords DEF Steps
  <2>2. NextWorker(r) = b
    BY <1>5 DEF NextWorker
  <2> HIDE DEF b
  <2>3. BuildOf(r) /\ build'[r].at = "prepared"
    BY <1>1, <2>1, <2>2, Puts
  <2>4. CapIsKept(r)'
    BY <1>2, <1>3, CapKept
  <2>5. \A i \in DOMAIN Workers : TopicOf(r, i)' \in DOMAIN topics'
    BY <1>1, <1>2, <1>4, <1>5, KnownStays DEF Asked, clusterVars
  <2>6. Advanced(r)' /\ Awaiting(r)' /\ HasCause(r)'
    BY <2>3, <2>5 DEF Advanced, Awaiting, HasCause, Working
  <2>7. RuntimeInv(r)'
    BY <2>4, <2>6 DEF RuntimeInv
  <2> QED
    BY <1>1, <1>3, <2>3, <2>7, OwnStep
<1>6. CASE build[r].worker # 0
  <2>1. /\ build[r].worker \in DOMAIN Workers
        /\ \A i \in 1..build[r].worker : Provided(r, i)
    <3>1. Known(r, build[r].worker)
      BY <1>1, <1>2, <1>6 DEF Advanced
    <3>2. Provided(r, build[r].worker)
      BY <1>4, <1>6, <3>1 DEF Asked, Provided
    <3> QED
      BY <1>2, <1>6, <3>2
  <2>2. CASE build[r].worker = Len(Workers)
    <3> DEFINE b == [Idle EXCEPT !.at = "built"]
    <3>1. b \in Builds /\ b.at = "built"
      BY IdleRecords DEF Steps
    <3>2. NextWorker(r) = b
      BY <1>6, <2>2 DEF NextWorker
    <3> HIDE DEF b
    <3>3. BuildOf(r) /\ build'[r].at = "built"
      BY <1>1, <3>1, <3>2, Puts
    <3>4. CapIsKept(r)'
      BY <1>2, <1>3, CapKept
    <3>5. \A i \in DOMAIN Workers : Provided(r, i)'
      BY <1>1, <1>2, <2>1, <2>2, KnownStays
    <3>6. Advanced(r)' /\ Awaiting(r)' /\ HasCause(r)'
      BY <3>3, <3>5 DEF Advanced, Awaiting, HasCause, Working, Provided
    <3>7. RuntimeInv(r)'
      BY <3>4, <3>6 DEF RuntimeInv
    <3> QED
      BY <1>1, <1>3, <3>3, <3>7, OwnStep
  <2>3. CASE build[r].worker # Len(Workers)
    <3> DEFINE w == build[r].worker + 1
               b == [Idle EXCEPT !.at = "check", !.worker = w]
    <3>1. w \in 1..Len(Workers) /\ w \in 0..Len(Workers) /\ w - 1 = build[r].worker
      BY <1>2, <2>3
    <3>2. NextWorker(r) = b
      BY <1>6, <2>3 DEF NextWorker
    <3> HIDE DEF w
    <3>3. b \in Builds /\ b.at = "check" /\ b.worker = w
      <4>1. "check" \in Steps
        BY DEF Steps
      <4>2. \A x \in 0..Len(Workers) :
               /\ [Idle EXCEPT !.at = "check", !.worker = x] \in Builds
               /\ [Idle EXCEPT !.at = "check", !.worker = x].at = "check"
               /\ [Idle EXCEPT !.at = "check", !.worker = x].worker = x
        BY ONLY <4>1, IdleRecords
      <4> QED
        BY ONLY <3>1, <4>2
    <3> HIDE DEF b
    <3>4. BuildOf(r) /\ build'[r] = b
      BY <1>1, <3>2, <3>3, Puts
    <3>5. CapIsKept(r)'
      BY <1>2, <1>3, CapKept
    <3>6. \A i \in 1..(build'[r].worker - 1) : Provided(r, i)
      BY <2>1, <3>1, <3>3, <3>4
    <3>7. build'[r].at \in Working /\ build'[r].at # "latest"
      BY <3>3, <3>4 DEF Working
    <3>8. RuntimeInv(r)'
      BY <1>1, <1>2, <3>1, <3>3, <3>4, <3>5, <3>6, <3>7, ToWorking
    <3> QED
      BY <1>1, <1>3, <3>4, <3>8, OwnStep
  <2> QED
    BY <2>2, <2>3
<1> QED
  BY <1>5, <1>6

\* The futures are awaited in turn.
LEMMA AwaitTopicInv ==
    ASSUME IInv, NEW r \in Runtimes, AwaitTopic(r)
    PROVE  IInv'
<1> DEFINE t == Head(build[r].todo)
           f == build[r].future[t]
<1>1. /\ TypeOK /\ build[r].at = "await" /\ f # "pending"
      /\ UNCHANGED <<configVars, brokers, clusterVars, cap, excuse, faults>>
      /\ build[r] \in Builds /\ DOMAIN build = Runtimes
      /\ CapIsKept(r) /\ Advanced(r) /\ Awaiting(r) /\ HasCause(r)
  BY DEF IInv, AwaitTopic, At, ConstructionInv, RuntimeInv, TypeOK
<1>2. Gains /\ ServicesTyped' /\ CauseOf(r) /\ excuse'[r] = excuse[r]
      /\ CapOf(r) /\ cap'[r] = cap[r]
  BY <1>1, ServicesStay, NothingFails, CapStays DEF NoFault
<1>3. /\ cap[r] # NoUtils /\ build[r].at # "new" /\ build[r].worker \in 0..Len(Workers)
      /\ \A i \in 1..(build[r].worker - 1) : Provided(r, i) /\ i \in DOMAIN Workers
  BY <1>1, AtWork
<1>4. /\ build[r].todo \in Seq(Topics) /\ build[r].todo # <<>>
      /\ t \in Topics /\ t = build[r].todo[1]
      /\ f = "failed" \/ (f = "made" /\ t \in DOMAIN topics)
  BY <1>1, Awaited
<1>5. CASE f = "failed"
  <2> DEFINE b == [Idle EXCEPT !.at = "failed"]
  <2>1. b \in Builds /\ b.at = "failed"
    BY IdleRecords DEF Steps
  <2>2. build' = [build EXCEPT ![r] = b]
    BY <1>1, <1>5 DEF AwaitTopic
  <2> HIDE DEF b
  <2>3. BuildOf(r) /\ build'[r].at = "failed"
    BY <1>1, <2>1, <2>2, Puts
  <2>4. excuse'[r] # {} \/ verdict[r].runtime # "valid"
    BY <1>1, <1>2, <1>4, <1>5 DEF HasCause
  <2>5. RuntimeInv(r)'
    BY <1>1, <1>2, <1>3, <2>3, <2>4, ToFailed
  <2> QED
    BY <1>1, <1>2, <2>3, <2>5, OwnStep
<1>6. CASE f = "made" /\ Len(build[r].todo) = 1
  <2>1. build' = [build EXCEPT ![r] = NextWorker(r)]
    BY <1>1, <1>6 DEF AwaitTopic
  <2> QED
    BY <1>1, <1>6, <2>1, NextWorkerInv
<1>7. CASE f = "made" /\ Len(build[r].todo) # 1
  <2> DEFINE rest == Tail(build[r].todo)
             b == [build[r] EXCEPT !.todo = rest]
  <2>1. /\ rest \in Seq(Topics) /\ rest # <<>>
        /\ \A j \in DOMAIN rest : j + 1 \in DOMAIN build[r].todo
                                  /\ rest[j] = build[r].todo[j + 1]
        /\ \A j \in DOMAIN build[r].todo : j = 1 \/ /\ j - 1 \in DOMAIN rest
                                                    /\ rest[j - 1] = build[r].todo[j]
    <3> DEFINE s == build[r].todo
    <3>1. s \in Seq(Topics) /\ s # <<>> /\ Len(s) # 1
      BY <1>4, <1>7
    <3> HIDE DEF s
    <3>2. Tail(s) \in Seq(Topics) /\ Len(Tail(s)) = Len(s) - 1
      BY ONLY <3>1
    <3>3. \A k \in 1..(Len(s) - 1) : Tail(s)[k] = s[k + 1]
      BY ONLY <3>1, <3>2, HeadTailProperties
    <3>4. Len(s) \in Nat /\ Len(s) > 1 /\ DOMAIN s = 1..Len(s)
      <4>1. Len(s) \in Nat /\ DOMAIN s = 1..Len(s) /\ Len(s) # 0
        BY <3>1
      <4> QED
        BY ONLY <3>1, <4>1
    <3>5. DOMAIN Tail(s) = 1..(Len(s) - 1)
      BY ONLY <3>2, <3>4
    <3>6. \A k \in DOMAIN s : k = 1 \/ /\ k - 1 \in DOMAIN Tail(s)
                                       /\ Tail(s)[k - 1] = s[k]
      <4>1. SUFFICES ASSUME NEW k \in 2..Len(s)
                     PROVE  k - 1 \in DOMAIN Tail(s) /\ Tail(s)[k - 1] = s[k]
        BY ONLY <3>4
      <4>2. k - 1 \in 1..(Len(s) - 1) /\ (k - 1) + 1 = k
        BY ONLY <3>4, <4>1
      <4> QED
        BY ONLY <3>3, <3>5, <4>2
    <3>7. \A k \in DOMAIN Tail(s) : k + 1 \in DOMAIN s /\ Tail(s)[k] = s[k + 1]
      BY ONLY <3>3, <3>4, <3>5
    <3>8. Tail(s) # <<>>
      BY ONLY <3>2, <3>4
    <3> QED
      BY ONLY <3>2, <3>6, <3>7, <3>8 DEF s
  <2>2. build' = [build EXCEPT ![r] = b]
    <3>1. build' = [build EXCEPT ![r] =
              IF f = "failed" THEN [Idle EXCEPT !.at = "failed"]
              ELSE IF Len(build[r].todo) = 1 THEN NextWorker(r)
              ELSE [build[r] EXCEPT !.todo = Tail(build[r].todo)]]
      BY DEF AwaitTopic
    <3> QED
      BY <1>7, <3>1
  <2> HIDE DEF rest
  <2>3. /\ b \in Builds /\ b.at = "await" /\ b.worker = build[r].worker
        /\ b.todo = rest /\ b.future = build[r].future
    BY <1>1, <2>1 DEF Builds
  <2> HIDE DEF b
  <2>4. BuildOf(r) /\ build'[r] = b
    BY <1>1, <2>2, <2>3, Puts
  <2>5. CapIsKept(r)'
    BY <1>1, <1>2, <1>3, CapKept
  <2>6. Advanced(r)'
    <3>1. DOMAIN Workers = 1..Len(Workers) /\ Len(Workers) \in Nat
      BY WorkerNames
    <3>2. \A i \in 1..(b.worker - 1) : Provided(r, i)'
      BY <1>1, <1>2, <1>3, <2>3, KnownStays
    <3>3. build[r].worker > 0 => Known(r, build[r].worker)'
      <4>1. SUFFICES ASSUME build[r].worker > 0
                     PROVE  Known(r, build[r].worker)'
        OBVIOUS
      <4>2. Known(r, build[r].worker) /\ build[r].worker \in DOMAIN Workers
        BY <1>1, <1>3, <3>1, <4>1 DEF Advanced
      <4>3. build'[r].worker = build[r].worker
        BY <2>3, <2>4
      <4> QED
        BY <1>1, <1>2, <1>3, <4>2, <4>3, KnownStays
    <3>4. build'[r].at = "await" /\ build'[r].worker = b.worker
          /\ build'[r].worker = build[r].worker
      BY <2>3, <2>4
    <3> QED
      BY <3>2, <3>3, <3>4 DEF Advanced, Working
  <2>7. Awaiting(r)'
    <3>1. Asked(r)' = Asked(r) /\ Asked(r) \subseteq DOMAIN Workers
      <4>1. build[r].worker \in 0..Len(Workers) /\ build'[r].worker = build[r].worker
        BY <1>3, <2>3, <2>4
      <4>2. DOMAIN Workers = 1..Len(Workers) /\ Len(Workers) \in Nat
        BY WorkerNames
      <4> QED
        BY ONLY <4>1, <4>2 DEF Asked
    <3>2. \A i \in Asked(r) : TopicOf(r, i)' = TopicOf(r, i)
      BY <1>1, <1>2, <1>3, <3>1, KnownStays
    <3>3. \A i \in Asked(r) : \/ TopicOf(r, i) \in DOMAIN topics
                              \/ \E j \in DOMAIN rest : rest[j] = TopicOf(r, i)
      <4>1. SUFFICES ASSUME NEW i \in Asked(r), NEW j \in DOMAIN build[r].todo,
                            build[r].todo[j] = TopicOf(r, i)
                     PROVE  \/ TopicOf(r, i) \in DOMAIN topics
                            \/ \E k \in DOMAIN rest : rest[k] = TopicOf(r, i)
        BY <1>1 DEF Awaiting
      <4>2. CASE j = 1
        BY <1>4, <1>7, <4>1, <4>2
      <4>3. CASE j # 1
        BY <2>1, <4>1, <4>3
      <4> QED
        BY <4>2, <4>3
    <3>4. \A j \in DOMAIN rest : build[r].future[rest[j]] # "none"
      BY <1>1, <2>1 DEF Awaiting
    <3>5. \A x \in Topics : build[r].future[x] = "made" => x \in DOMAIN topics
      BY <1>1 DEF Awaiting
    <3> QED
      BY <1>1, <2>1, <2>3, <2>4, <3>1, <3>2, <3>3, <3>4, <3>5 DEF Awaiting, clusterVars
  <2>8. HasCause(r)'
    BY <1>1, <1>2, <2>3, <2>4 DEF HasCause, configVars
  <2>9. RuntimeInv(r)'
    BY <2>5, <2>6, <2>7, <2>8 DEF RuntimeInv
  <2> QED
    BY <1>1, <1>2, <2>4, <2>9, OwnStep
<1> QED
  BY <1>4, <1>5, <1>6, <1>7

\* A change of the cluster leaves a mark on who has connected with more.
LEMMA BrokersChangeInv ==
    ASSUME IInv, BrokersChange
    PROVE  IInv'
<1>1. TypeOK /\ LoaderInv
  BY DEF IInv
<1>2. PICK n \in (1..MaxBrokers) \ {brokers} :
          /\ brokers' = n
          /\ excuse' = [r \in Runtimes |->
                IF cap[r] # NoUtils /\ cap[r] > n THEN excuse[r] \cup {"shrunk"}
                ELSE excuse[r]]
  BY DEF BrokersChange
<1>3. /\ UNCHANGED <<given, base, file, env, config, verdict, intended, kept,
                     clusterVars, cap, build, faults>>
      /\ changes' \in 0..MaxChanges
  BY <1>1, ConfigurationAssumption DEF BrokersChange, TypeOK
<1>4. Gains
  BY <1>1, <1>3, ServicesStay
<1>5. /\ excuse' \in [Runtimes -> SUBSET Excuses]
      /\ \A r \in Runtimes : /\ excuse[r] \subseteq excuse'[r]
                             /\ cap[r] # NoUtils /\ cap[r] > brokers' => "shrunk" \in excuse'[r]
  BY <1>1, <1>2 DEF TypeOK, Excuses
<1>6. TypeOK'
  BY <1>1, <1>2, <1>3, <1>5 DEF TypeOK, clusterVars
<1>7. LoaderInv'
  BY <1>1, <1>3 DEF LoaderInv, LoaderDomains, LoadedFromSources,
         BasesAreGiven, GivenOrKept, LoadFollowsPriority
<1>8. ASSUME NEW r \in Runtimes
      PROVE  RuntimeInv(r)'
  <2>1. RuntimeInv(r)
    BY DEF IInv, ConstructionInv
  <2>2. /\ build'[r] = build[r] /\ config'[r] = config[r] /\ verdict'[r] = verdict[r]
        /\ cap'[r] = cap[r] /\ excuse[r] \subseteq excuse'[r]
        /\ cap[r] # NoUtils /\ cap[r] > brokers' => "shrunk" \in excuse'[r]
    BY <1>3, <1>5
  <2> QED
    BY <1>1, <1>4, <2>1, <2>2, OthersKeep
<1> QED
  BY <1>6, <1>7, <1>8 DEF IInv, ConstructionInv

\* A change of an environment matters to the next load only.
LEMMA ChangeEnvironmentInv ==
    ASSUME IInv, NEW r \in Runtimes, ChangeEnvironment(r),
           UNCHANGED <<brokers, clusterVars, cap, build, excuse, faults>>
    PROVE  IInv'
<1>1. TypeOK /\ LoaderInv
  BY DEF IInv
<1>2. /\ \E e \in Environments[r] \ {env[r]} : env' = [env EXCEPT ![r] = e]
      /\ UNCHANGED <<given, base, file, config, verdict, intended, kept>>
      /\ changes' \in 0..MaxChanges
  <2>1. changes \in 0..MaxChanges /\ MaxChanges \in Nat
    BY <1>1, ConfigurationAssumption DEF TypeOK
  <2>2. changes' \in 0..MaxChanges
    BY <2>1 DEF ChangeEnvironment
  <2> QED
    BY <2>2 DEF ChangeEnvironment
<1>3. DOMAIN env' = Runtimes /\ \A s \in Runtimes : env'[s] \in Environments[s]
  BY <1>1, <1>2 DEF TypeOK, LoaderInv, LoaderDomains
<1>4. TypeOK'
  BY <1>1, <1>2, <1>3 DEF TypeOK, clusterVars
<1>5. LoaderInv'
  BY <1>1, <1>2, <1>3 DEF LoaderInv, LoaderDomains, LoadedFromSources,
         BasesAreGiven, GivenOrKept, LoadFollowsPriority
<1>6. Gains
  BY <1>1, ServicesStay
<1>7. ASSUME NEW s \in Runtimes
      PROVE  RuntimeInv(s)'
  <2>1. RuntimeInv(s)
    BY DEF IInv, ConstructionInv
  <2> QED
    BY <1>1, <1>2, <1>6, <2>1, OthersKeep
<1> QED
  BY <1>4, <1>5, <1>7 DEF IInv, ConstructionInv

-----------------------------------------------------------------------------
(* The theorems                                                            *)

\* The first state satisfies the invariant.
LEMMA InitIInv == Init => IInv
<1> SUFFICES ASSUME Init PROVE IInv
  OBVIOUS
<1>1. ConfigInit
  BY DEF Init
<1>2. LoaderDomains
  BY <1>1 DEF ConfigInit, LoaderDomains
<1>3. \A r \in Runtimes : /\ base[r] \in Bases[r] /\ file[r] \in Files[r]
                          /\ given[r] = base[r]
                          /\ env[r] \in Environments[r]
                          /\ config[r] = NoConfig /\ verdict[r] = <<>>
                          /\ intended[r] = NoConfig
  BY <1>1 DEF ConfigInit
<1>4. ASSUME NEW r \in Runtimes
      PROVE  Proper(base[r]) /\ DOMAIN base[r] \subseteq Places
  <2>1. base[r] \in Sources
    BY <1>3 DEF Sources
  <2> QED
    BY <1>3, <2>1, SourcesAreProper, ConfigurationAssumption
<1>5. LoaderInv
  BY <1>2, <1>3, <1>4 DEF LoaderInv, LoadedFromSources,
         BasesAreGiven, GivenOrKept, LoadFollowsPriority
<1>6. /\ brokers \in 1..MaxBrokers /\ topics = <<>>
      /\ versions = [u \in Urls |-> [t \in Topics |-> <<>>]]
      /\ cap = [r \in Runtimes |-> NoUtils]
      /\ build = [r \in Runtimes |-> Idle]
      /\ excuse = [r \in Runtimes |-> {}]
      /\ faults = 0 /\ kept = [r \in Runtimes |-> "none"] /\ changes = 0
  BY DEF Init, ConfigInit
<1>7. Idle \in Builds /\ Idle.at = "new"
  <2> DEFINE b == [Idle EXCEPT !.at = "new"]
  <2>1. Idle = b
    BY DEF Idle
  <2>2. b \in Builds /\ b.at = "new"
    BY IdleRecords DEF Steps
  <2> HIDE DEF b
  <2> QED
    BY <2>1, <2>2
<1>8. TypeOK
  <2>1. versions \in [Urls -> [Topics -> Seq(Schemas)]]
    BY <1>6
  <2>2. DOMAIN topics = {}
    BY <1>6
  <2>3. build \in [Runtimes -> Builds]
    BY <1>6, <1>7
  <2>4. 0 \in 0..MaxChanges /\ 0 \in 0..MaxFaults
    BY ConfigurationAssumption, ConstructionAssumption
  <2> QED
    BY <1>3, <1>4, <1>6, <2>1, <2>2, <2>3, <2>4 DEF TypeOK
<1>9. ASSUME NEW r \in Runtimes
      PROVE  RuntimeInv(r)
  BY <1>6, <1>7 DEF RuntimeInv, CapIsKept, Advanced, Awaiting, HasCause, Working
<1> QED
  BY <1>5, <1>8, <1>9 DEF IInv, ConstructionInv

\* Every step keeps it.
LEMMA NextIInv == IInv /\ [Next]_vars => IInv'
<1> SUFFICES ASSUME IInv, [Next]_vars PROVE IInv'
  OBVIOUS
<1>1. CASE BrokersChange
  BY <1>1, BrokersChangeInv
<1>2. ASSUME NEW r \in Runtimes, RuntimeStep(r)
      PROVE  IInv'
  <2>1. CASE LoadConfig(r)
    BY <2>1, LoadConfigInv
  <2>2. CASE TryAgain(r)
    BY <2>2, TryAgainInv
  <2>3. CASE PrepareTopics(r)
    BY <2>3, PrepareTopicsInv
  <2>4. CASE Construct(r)
    BY <2>4, ConstructInv
  <2>5. CASE CheckSchema(r)
    BY <2>5, CheckSchemaInv
  <2>6. CASE LatestSchema(r)
    BY <2>6, LatestSchemaInv
  <2>7. CASE RegisterSchema(r)
    BY <2>7, RegisterSchemaInv
  <2>8. CASE AwaitTopic(r)
    BY <2>8, AwaitTopicInv
  <2>9. CASE \E t \in Topics : BrokerCreates(r, t)
    BY <2>9, BrokerCreatesInv
  <2>10. CASE /\ ChangeEnvironment(r)
              /\ UNCHANGED <<brokers, clusterVars, cap, build, excuse, faults>>
    BY <2>10, ChangeEnvironmentInv
  <2> QED
    BY <1>2, <2>1, <2>2, <2>3, <2>4, <2>5, <2>6, <2>7, <2>8, <2>9, <2>10
       DEF RuntimeStep
<1>3. CASE UNCHANGED vars
  <2>1. TypeOK'
    BY <1>3 DEF vars, configVars, clusterVars, IInv, TypeOK
  <2>2. LoaderInv'
    BY <1>3 DEF vars, configVars, IInv, LoaderInv, LoaderDomains, LoadedFromSources,
                BasesAreGiven, GivenOrKept, LoadFollowsPriority
  <2>3. ASSUME NEW r \in Runtimes
        PROVE  RuntimeInv(r)'
    <3>1. /\ TypeOK /\ LoaderInv /\ RuntimeInv(r)
          /\ UNCHANGED <<clusterVars, brokers, build, config, verdict, cap, excuse>>
      BY <1>3 DEF IInv, ConstructionInv, vars, configVars
    <3>2. Gains
      BY <3>1, ServicesStay
    <3> QED
      BY <3>1, <3>2, OthersKeep
  <2> QED
    BY <2>1, <2>2, <2>3 DEF IInv, ConstructionInv
<1> QED
  BY <1>1, <1>2, <1>3 DEF Next

\* The invariant holds in every state.
THEOREM Inductive == Spec => []IInv
  BY InitIInv, NextIInv, PTL DEF Spec

\* The loader, the objects and the services have values of their types, for any
\* number of runtimes, workers, sources and failures; in particular no object
\* keeps a replication factor that its cluster never had.
THEOREM TypeCorrect == Spec => []TypeOK
<1>1. IInv => TypeOK
  BY DEF IInv
<1> QED
  BY <1>1, Inductive, PTL

\* An object says at every place what the source of the highest priority said
\* when it was loaded, however often and under which environments the same
\* dictionary was loaded before; only a registry that an earlier load had may
\* stay (load_config, from_dict).
THEOREM LoadFollows == Spec => []LoadFollowsPriority
<1>1. IInv => LoadFollowsPriority
  BY DEF IInv, LoaderInv
<1> QED
  BY <1>1, Inductive, PTL

\* A runtime that is constructed finds the topics and the schemas of all its
\* workers, and so does an application the topics after create_topics.
THEOREM BuiltProvisioned == Spec => []BuiltIsProvisioned
<1>1. IInv => BuiltIsProvisioned
  BY DEF IInv, ConstructionInv, RuntimeInv, Advanced, BuiltIsProvisioned, At, Known
<1> QED
  BY <1>1, Inductive, PTL

\* A valid configuration fails to become a runtime only for a cause of that
\* attempt.
THEOREM FailsForCause == Spec => []FailsOnlyForCause
<1>1. IInv => FailsOnlyForCause
  BY DEF IInv, ConstructionInv, RuntimeInv, HasCause, FailsOnlyForCause, At
<1> QED
  BY <1>1, Inductive, PTL
=============================================================================
