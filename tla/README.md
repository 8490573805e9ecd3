# Formal models of autogen-kafka

This directory holds TLA+ models of `autogen-kafka` (`src/python/packages/autogen-kafka`),
an agent runtime for AutoGen whose processes talk to each other through Kafka topics only.
The models are checked with TLC on small instances; all their safety properties, and that both
kinds of remote call implement one contract, are also proved with TLAPS for instances of every
size. Liveness is checked only.

Paths below are relative to `src/python/packages/autogen-kafka/src/autogen_kafka/`.

## 1. The system

| Part | State | Operations | Talks to |
|---|---|---|---|
| **Messaging client** `runtimes/messaging_client.py` | `_pending_requests` (request id -> future), the background send tasks, `is_started` | `send_message`, `publish_message`, response handler, start, stop | writes the request topic and the publish topic, consumes the response topic |
| **Message processor** `runtimes/services/message_processor.py` | none of its own; one coroutine per request | `process_request`, `process_event` | agent manager, subscription service, response topic |
| **Agent registry** `runtimes/services/agent_registry.py` | `_agents`: every type believed to be registered anywhere | `register_agent`, `unregister_agent`, `is_registered`, event handler | registry topic, both ways |
| **Agent manager** `runtimes/services/agent_manager.py` | `_agent_factories`, `_instantiated_agents` | `register_factory`, `register_instance`, `get_agent` | agent registry |
| **Subscription service** `runtimes/services/subscription_service.py` | `_local_subscriptions`, `_global_subscriptions` | `add_subscription`, `remove_subscription`, `unsubscribe_all`, `get_subscribed_recipients`, event handler | subscription topic, both ways |
| **Streaming agent** `agent/kafka_streaming_agent.py` | `_pending_requests`, background tasks, its own stream engine | `on_message_impl`, response handler, start, stop, close | an external stream processor, by two topics |
| **Kafka memory** `memory/kafka_memory.py` | an AutoGen memory (a list), `_instance_id` | `add`, `clear`, `query`, `update_context`, event handler, close | the session's topic, topic administration |
| **Streaming worker, service manager, task manager, streaming service** `shared/` | `is_started`, set of tasks, streams | start, stop, `send_message`, `add_task`, `wait_for_completion`, `wait_for_streams_to_start` | base of all parts above |
| **Runtime** `runtimes/kafka_agent_runtime.py` | the parts above | delegates; start and stop in a fixed order; save and load state | all |
| **Events** `shared/events/`, `agent/event/` | - | conversions to and from JSON | every topic |
| **Configuration** `config/` | values, cached validation result, its `KafkaUtils` | loading, merging, `from_dict`, validation | the application's dictionary, a file, the environment |
| **Topic and schema administration** `config/services/` | the capped replication factor | create, delete, list topics; register or upgrade schemas | broker, schema registry |

Every runtime is one asyncio event loop. Two coroutines interleave only where one of them
awaits something that suspends, so between two such points a handler is one atomic action of
a model. Processes share nothing but the topics.

### What is hard here, and what makes each part correct

* **Calls.** A call is a future in a dictionary, a request record, a task per host, a response
  record and a handler. There is no timeout anywhere, delivery is at least once, several
  runtimes may host a type, callers may be cancelled, stops and crashes may hit any point.
  Correct: a call ends as the first response to it says, and only with the answer to itself;
  `_pending_requests` loses an entry with its response and never before; a call waits for ever
  only after a failure one can name.
* **Registry and subscriptions.** Replicated sets without coordination: local changes and
  consumed announcements meet in any order. Correct: a replica that has consumed everything
  agrees with the topic, or with what the services hold; replicas converge; a type gets one host.
* **Memory.** Local additions, own and foreign events and a clear that deletes the topic under
  the others. Correct: nothing on the topic is missed, own contents are there once, clears end.
* **Instances and events.** A coroutine suspends in an agent's factory between the look into
  the cache and the store; the recipients of an event are fetched one after the other while
  subscriptions change, and the first that fails takes the stream with it. Correct: one instance
  per agent unless two creations overlapped; an event is run by all its recipients or by none.
* **Start and stop.** A start and a stop are chains of awaits over parts that share an engine or
  own one, guarded by flags that are read before a suspension and written after it; they overlap
  with each other, with failures and with handlers that call agents. Correct: at rest a runtime
  is whole or clean, a stop waits for the work it finds, and starts and stops end.
* **Construction.** Values come from three sources, validation results are cached and never
  raised, and a constructor makes schemas and topics in services that other processes use, any
  call of which may fail and leave its predecessors' work behind. Correct: the documented priority
  of sources; a runtime that exists has what it needs; a valid configuration fails only for a cause.
* **Streams.** An exception that leaves a handler or a deserializer stops the stream it
  belongs to, while `is_started` stays true. Correct: only inputs one can name do that.

The list of hazards in `PROJECT.json` names, for each, the line where it bites and the
properties that cover it.

## 2. Modules

| Module | Models | Kind |
|---|---|---|
| `RemoteCall` | what a remote call promises the agent that makes it | abstract specification |
| `RequestReply` | messaging client, request side of the message processor, runtime handler | implements `RemoteCall` |
| `RequestReplyProofs` | theorems about `RequestReply` | proofs |
| `StreamingAgent` | streaming agent and the processor behind it | implements `RemoteCall` |
| `StreamingAgentProofs` | theorems about `StreamingAgent` | proofs |
| `AgentRegistry` | agent registry and the factories of the agent manager | |
| `AgentRegistryProofs` | theorems about `AgentRegistry` | proofs |
| `SubscriptionService` | subscription service and its two managers | |
| `SubscriptionServiceProofs` | theorems about `SubscriptionService` | proofs |
| `KafkaMemory` | Kafka memory and the topic administration it uses | |
| `KafkaMemoryProofs` | theorems about `KafkaMemory` | proofs |
| `AgentInstances` | agent manager, and the calls of the runtime that look agents up | |
| `EventDelivery` | publishing, cloud event processor, event side of the message processor | extends `AgentInstances` |
| `EventDeliveryProofs` | theorems about `AgentInstances` and `EventDelivery` | proofs |
| `WorkerLifecycle` | start, stop and the wait for streams of a runtime with its workers and engines | |
| `WorkerLifecycleProofs` | theorems about `WorkerLifecycle` | proofs |
| `Configuration` | configuration loader, `from_dict`, validation and its cache | sequential |
| `RuntimeConstruction` | worker constructors, schema registration, topic creation | extends `Configuration` |
| `RuntimeConstructionProofs` | theorems about `Configuration` and `RuntimeConstruction` | proofs |
| `MC...` | constants for TLC | |

Each module has one action per operation, handler or part of one between two suspension
points. Environment behaviour is switched on by a constant `Faults`, a subset of the module's
`FaultKinds`, so that a run, and a theorem, can say which failures it allows. Variables that
exist only to state a property are marked *history* where they are declared.

### RequestReply

A call stands for its request id, a job for one delivery of a request record to one runtime.

| Model | Code |
|---|---|
| `Invoke` | `send_message` up to `await future`: the started check, the entry in `_pending_requests`, serialization, the background task |
| `BeginSend`, `EndSend` | the task: `_ensure_started`, then the producer's send, whose outcome is written or not and acknowledged or not (`SendOutcomes`) |
| `Resume`, `Cancel` | the coroutine wakes up; its task is cancelled (the entry stays) |
| `HandleReply`, `Outcome`, `Pop`, `Resolve` | the response handler: unknown id, error text, decoding failure, a future already done |
| `HandleRequest`, `LookupAgent`, `RunAgent`, `SendReply`, `SendError` | one background task per record: agent lookup, `on_message`, response inside the `try`, error response in the `except` |
| `StartClient`, `BeginStop`, `FinishStop` | `is_started`, and the snapshot of tasks that a stop waits for |
| `PositionRequests`, `PositionResponses` | a consumer gets its partitions and starts at the end (`latest`) |
| `RedeliverRequest`, `RedeliverReply`, `Crash` | the broker and the operating system |

### AgentRegistry

`agents` and `factories` are the key sets of the two dictionaries. A call is a task that
applies its change locally (`RegisterFactory`, `Unregister`), has its announcement written
(`Announce`) and acknowledged, or fails (`SendFailed`, with the rollback of `register_agent`).
Announcements are keyed by the type, so the log is one sequence per type. `HandleEvent` is the
handler, which cannot tell its own announcements. `StartEngine` and `StopEngine` stand for the
runtime, which starts the engine after its services and stops it after them.

### SubscriptionService

`AddSubscription`, `RemoveSubscription` and `SweepNext` (one turn of `unsubscribe_all`) begin
with the broadcast; `Acknowledged` changes the local manager, which may refuse; `HandleEvent`
changes the global one. Events have no key: `Broadcast` chooses the partition.

### StreamingAgent

As `RequestReply`, from the side of one agent: `OnMessage`, `BeginSend`, `EndSend`, `Resume`,
`Cancel`, `HandleEvent`, and `BeginStop`, `FinishStop`, `BeginClose`, `FinishClose` for the two
ways to end. `Answer` is the external processor. Every response passes the deserializer before the
handler sees it: a record that is no `AgentEvent` (`unreadable`) raises there
(`DeserializerRaises`) and stops the stream, while one whose message the response type refuses
reaches `HandleEvent`, which ends its call with the error. A send is written or not in one step
(`EndSend`). Consumers belong to groups, because the code uses the configured group id as it is.

### KafkaMemory

`BeginAdd`, `AddStarted`, `Broadcast`, `Acknowledged`, `AddFailed` are `add`; `BeginClear`,
`ClearStops`, `DeleteTopic`, `Poll`, `FinishClear` are `clear` with `delete_topics` and the
wait for the deletion, which `TopicGone` at the broker ends. `HandleEvent` is the
deserializer and the handler: what cannot be read stops the stream (`halted`). Memories are
bags of contents: their order is not the topic's, nor promised to be.

### AgentInstances and EventDelivery

An instance stands for the coroutine that created or registered it. `GetAgent` and
`FinishCreate` are `get_agent` before and after the suspension in the factory,
`RegisterInstance` and `FinishBind` the same for `register_instance`; `StartCall` and `UseAgent`
walk through the agents of a `load_state`, or of a call that needs one agent.

`EventDelivery` extends the module with the event handler as one more coroutine that looks
agents up: `TakeEvent` computes the recipients, `Collect` goes from one to the next (`GoOn`),
passing over the sender,
`CollectFails` is the exception that stops the stream, `Serve` one `on_message`, `FinishEvent`
the end of the `gather`. `Publish` and `EndSend` are the publisher, whose race with `stop()` is
that of `RequestReply` and shows here only as an event that is not written. Subscriptions change
as the local manager of `SubscriptionService` does.

### WorkerLifecycle

`started` holds the parts whose `is_started` is true: the services (subscription service,
messaging client and registry, which share the runtime's engine, so that their starts and stops
set flags one right after the other), the cloud event processor, which owns an engine, and the
runtime. A call of start or stop is a coroutine whose place is `call`:

| Model | Code |
|---|---|
| `BeginStart`, `OpenedEvents`, `Opened`, `WaitEnds` | `start` up to each engine start it awaits; `start_and_wait_for` with its polls, whose clock is not modelled |
| `BeginStop`, `Swept`, `Drained`, `ClosedEvents`, `Awaited`, `Closed` | `stop` after `unsubscribe_all`, the client's background sends, the events' engine, the runtime's handlers, its engine |
| `StreamStarts` | a consumer comes up in the background |
| `Arrive`, `Send`, `SendEnds`, `Answer`, `FinishHandler` | a request handler, with a call of another agent it may make; the application calls by the same actions |

`HandlersSeen` and `SendsSeen` say which stops have already taken their snapshot of the handlers
and of the background sends: what begins after that is `late` or `hasty`.

### Configuration and RuntimeConstruction

A dictionary is a function from *places* to values. There is a place for each way the code
treats a setting: one that is required and can be misread as a number (`kafka.group`), one with
a default and a bound (`kafka.replication`), the registry in its two positions, and one of the
runtime's own (`runtime.requests`). `Load` is `load_config` followed by `from_dict` and the
validation of the objects it makes; `Merged`, `Parsed`, `WithRegistry`, `Configured` and
`Validated` are its steps; a valid object has topics that are all different (`AllTopics`). What the
documentation promises is the separate definition `Intended`, which reads what the application
wrote to start with (`given`), while `Load` reads the dictionary object as it has become (`base`):
`Written` is what `from_dict` does to that object when the merge has not copied its section, and
`kept` remembers the registry it left there.

A construction walks through the workers: `CheckSchema`, `LatestSchema` and `RegisterSchema` are
the requests of `register_or_upgrade_schema` with its two `except` clauses (an error the registry
answers with leads to a registration, any other ends the construction: `RequestFails`), `AwaitTopic` and
`BrokerCreates` the two sides of `create_topic`. `PrepareTopics` is `create_topics` with all topics
of the configuration, called by an application. `Connected` is the first `utils()`. `TryAgain` and
`LoadConfig` start over with the same object or a new one.

## 3. Runs

All runs take from one second to a little over four minutes with two workers.

| Run | Shows |
|---|---|
| `RequestReply_redelivery` | one call to one host, records delivered up to twice, a payload that cannot be serialized, a cancelled caller, all failures of sends, agents and decoding: the answer is genuine, which calls have an entry in `_pending_requests`, a consumed response resolves, the first response decides, the contract `RemoteCall` is kept, an accepted call ends or meets a listed failure |
| `RequestReply_twocalls` | two calls of one client, one to a type with two hosts, a payload that cannot be serialized, late consumers, a stop and a crash: types, a call is stranded only by a listed failure |
| `AgentRegistry_faults` | calls of two runtimes on one type with every failure and a restart: a registry that caught up agrees with the topic, a second host only comes out of a race, and running registries converge |
| `SubscriptionService_all` | a service with two subscriptions, equal in half of the initial states and different in the others, which hears of them on two partitions: a view that caught up has every live subscription or an equal one, unless an equal one was removed, a removed one only stays if its events were on both partitions, and `unsubscribe_all` ends |
| `StreamingAgent_calls` | as for `RequestReply`, with close, stop, restart, repeated, late and unreadable responses: the stream stops only after a cancelled call or a record that is no event, and close ends the calls it finds |
| `KafkaMemory_sync` | two instances, one content of them unreadable, all failures, a clear, a crash, redelivery: an instance that has consumed the topic misses nothing readable; its own contents are there once |
| `KafkaMemory_clear` | two clears and an addition: clears end |
| `KafkaMemory_plain` | violation, section 6 |
| `AgentInstances_overlap` | three calls, two registrations of one id and the factories' in any order: one instance per agent unless two creations overlapped; once an instance of a type is registered no factory makes any agent of the type, the registered ones and others |
| `EventDelivery_all` | two events, two agents, subscriptions that come and go, redelivery: an event is run by all its recipients, or by none when it stops the stream, and reaches those who stay subscribed |
| `WorkerLifecycle_calls` | two starts, two stops, failing engines, one request handler that may call an agent and one call of the application: a runtime at rest is whole or clean, a stop waits for the requests and handlers it finds, starts and stops end |
| `RuntimeConstruction_all` | two processes of different releases load, construct and try again while a call fails, the environment or the cluster changes: priority of sources, also when a shared dictionary is loaded twice and a variable sets the registry in between; topics and schemas of every constructed runtime; no failure without a cause |

**Bounds.** Two processes are enough for every interaction in the code: handlers distinguish
only "mine" and "another's". Two calls, or two tasks on one registry, let two operations overlap
on one process while another acts; three calls in `AgentInstances` let two wait for one factory
while a third walks. `MaxDeliveries = 2`, `MaxRedeliveries = 1` and the redeliveries of the
registry, the subscriptions and the streaming agent let every handler see a record again, after
each state it may have left behind; with them `MaxAnswers = 1` gives repeated responses.
Two starts and two stops, one start waiting for the streams, let each of them meet another that
is suspended anywhere, and one more follow. One subscription service is enough, since each consumes the
whole topic by itself and does not tell its own events from those of others; its two
subscriptions are equal to the managers or not, as `content` says. In `RuntimeConstruction` two
workers, of which one has a new schema in the next release, make a construction fail before, between and after what it
leaves behind; one failure and one change are enough for an attempt to leave something that
the next meets; `MaxBrokers = 2` is below the default replication factor of 3, so that capping matters.
`MaxCrashes`, `MaxRestarts`, `MaxClears` and `MaxRetries` bound events after which the process is
back in an initial state with the topics of before. Logs are bounded by the number of calls. No
run replaces a definition, and no state constraint cuts a behaviour off.

**Deadlock** is not checked: a system whose calls have all ended rightly does nothing.

**Fairness.** The event loop runs every ready task, so the steps of tasks are weakly fair, each by
itself or, where every task has only finitely many, all together. A consumer that runs polls, so
each handler is. Sends end, because aiokafka bounds them with
`request_timeout_ms`; agents are assumed to return. The broker finishes a deletion it has
accepted. Nothing obliges an application to start, call, cancel, stop or close, and no failure
is obliged to happen: those actions have no fairness. Where a part must run, or redelivery must
end, for the property to make sense, the property says so (`EventuallyAgree`).

## 4. What is proved

TLAPS checks, for any number of processes, calls, types, agents, starts and stops, and any
bounds:

| Theorem | Statement |
|---|---|
| `RequestReplyProofs!TypeCorrect`, `PendingExact`, `Consumed`, `Stranding`, `FirstDecides` | `TypeOK`, `PendingIsExact`, `ConsumedReplyResolves`, `StrandedOnlyByFailure`, `FirstResponseDecides` |
| `RequestReplyProofs!Genuine`, `Implements` | `AnswerIsGenuine` and `ContractSpec`, if `"blank" \notin Faults` |
| `StreamingAgentProofs!TypeCorrect`, `PendingExact`, `FailsForCause`, `Implements` | `TypeOK`, `PendingIsExact`, `StreamFailsForCause`, `ContractSpec` |
| `AgentRegistryProofs!TypeCorrect`, `ViewsFollow`, `KnownStays`, `NoKnowingDuplicates` | `TypeOK`, `ViewFollowsLog`, `KnownStaysKnown`, `NoKnowingDuplicate` |
| `SubscriptionServiceProofs!TypeCorrect`, `GlobalFollowsLocal` | `TypeOK`, `GlobalViewFollowsLocal` |
| `KafkaMemoryProofs!TypeCorrect`, `OwnOnce` | `TypeOK`, `OwnAddOnce` |
| `KafkaMemoryProofs!ViewFollows` | `ViewFollowsTopic`, if each instance has a consumer group of its own (`OwnGroup`) |
| `EventDeliveryProofs!ManagerTypeCorrect`, `OneInstanceHolds`, `RegisteredStays` | of `AgentInstances`: `ManagerTypeOK`, `OneInstance`, `RegisteredNeverMade` |
| `EventDeliveryProofs!TypeCorrect`, `AllOrNone`, `InstancesUnderDelivery` | of `EventDelivery`: `TypeOK`, `AllOrNothing`, and both properties of the agents |
| `WorkerLifecycleProofs!TypeCorrect`, `EndsWhole`, `EndsClean`, `WorkIsWaitedFor` | `TypeOK`, `RunningIsWhole`, `StoppedIsClean`, `StopsWaitForWork` |
| `RuntimeConstructionProofs!TypeCorrect`, `LoadFollows`, `BuiltProvisioned`, `FailsForCause` | `TypeOK`, `LoadFollowsPriority`, `BuiltIsProvisioned`, `FailsOnlyForCause` |

These are the type invariant and every safety and action property that a run checks, and the
refinement of `RemoteCall` by both of its implementations. In each module none of the properties
is inductive by itself; the proof states the strengthening `IInv`, one lemma per action that it is
kept, and the theorems follow from `Spec => []IInv` (`Inductive`). TLC has checked each `IInv` on
an instance first.

*Assumptions.* Those of the modules on their constants (`ConstantsAssumption`,
`StreamingAssumption`, `RegistryAssumption`, `SubscriptionAssumption`, `MemoryAssumption`,
`ManagerAssumption`, `DeliveryAssumption`, `LifecycleAssumption`, `ConfigurationAssumption`,
`ConstructionAssumption`), which TLC evaluates on every run, and two conditions in theorems.
Neither is a convenience. With `"blank"`, an empty error text, `AnswerIsGenuine` is false
(section 6). With one group for two instances a record is given to one of them only, and
`ViewFollowsTopic` is false for the other; the configuration leaves that choice to the application.

*Argument for calls.* `IInv` adds that nothing exists of a call that is not made
(`NothingBeforeTheCall`, so that `Invoke` starts from an empty
topic), only hosts serve (`OnlyHostsServe`), a result on the topic comes from an agent that ran
for that call (`RepliesAreGenuine`), and an acknowledged response is on the topic
(`AnsweredIsWritten`, which is what makes a call with an answering host not stranded). That the
first response decides rests on the entry: it is there until the first response is read, and
nobody else resolves the future (`PendingIsExact`, with the responses read since the consumer
joined).
`StrandedOnlyByFailure` then follows from `IInv` in each state, without being inductive. The
refinement maps every step to a step of `RemoteCall` or to a stutter; a crash is `Fail` of all
calls the process had made.

*Argument for the streaming agent.* Again nothing exists of a call before it is made; the
processor answers only what it was asked (`AnswersAreAsked`), and a future with a result was
answered (`ResultsAreAnswers`). The case that needs care is a response that is read again after its
call has ended, or after a close has cancelled all futures: the entry is gone (`PendingIsExact`), so
that the handler ignores it. What stops the stream is recorded where
it happens: a cancelled call's entry that is still there, or an unreadable record beyond the
group's first position. A close ends the futures of all calls in one step, which is a stutter
of the contract; the calls return or fail one by one as their coroutines wake up.

*Argument for the registry.* `IInv` is typing with the two view properties, which are
inductive together: the case that needs them is the registry's own announcement, consumed
after another's of the same type has been applied. The proof splits by worker and type; each
action touches one of each.

*Argument for subscriptions.* The addition of a subscription is written once, before any of its
removals is (`RemovedAfterAdded`, `CallsFollowEvents`), since a removal begins only after the
addition has ended. So on one partition the addition comes first
(`AddedIsFirst`), and a view that is past an event has applied it, unless another partition
brought the later one before (`ViewFollowsTopic`, `Scattered`), or it holds an equal subscription,
which it keeps until that one is removed (`RivalRemoved`). A call that ended between its
announcement and its local change is the only other way to disagree (`TornIsMarked`).

*Argument for the memory.* A content that is not added yet is in no memory and not on the topic
(`UnaddedIsNowhere`), so that its first copy is the local one; from then on the instance holds it
until it clears (`OwnAddStays`) and its handler skips its own. What an instance's group is past is
in its memory (`PassedIsKept`): positions advance only with the handler, go back on
redelivery, and start at zero with the empty topic after a clear.

*Argument for agents.* What is being created or bound, and is not contended, has no instance yet
and one coroutine only that makes it (`CreatesAlone`, `BindsAlone`), so that the first to finish
stores the first instance; an agent that was handed out was in the cache (`HandedWasCached`). A
type belongs to factories or to registered instances from the moment the first of them suspends
(`MadeByFactory`, `RegisteredType`).

*Argument for events.* Nobody runs before the agents of all recipients are collected, and the
stream can fail only until then; afterwards who has run and who is running are together the
receivers (`RunTogether`). As the handler fetches agents by the manager's own actions, the
invariant of the manager is kept as a whole.

*Argument for the lifecycle.* As long as no start does its work beside another call, a start
that is opening is alone and has started what it has passed (`StartsInOrder`), a stop has
stopped what it has passed (`StopsInOrder`), a runtime that is stopped is empty unless a start
is opening it (`StoppedIsEmpty`), and one that is started is whole unless a stop is at work or
one has failed (`StartedIsWhole`, `FlagsHaveEngines`). That stops wait for work needs none of these:
no stop passes the services before the requests that were queued when it looked
(`QueuedIsAwaited`), or reaches the engine before the handlers (`HandledIsAwaited`), however
stops overlap or fail, because each waits for a snapshot that contains them. So the engine and
both consumers run as long as such a handler does, and its answer finds a consumer.

*Argument for construction.* The services only gain: no topic and no schema goes away
(`Gains`), which is why the steps of other processes keep what is known of one runtime
(`OthersKeep`). Of its own steps, the workers before the one at hand have their topics and schemas
(`Advanced`), what is no longer awaited has been made (`Awaiting`), and a future that has failed
has its cause already (`HasCause`): a topic asked for twice contradicts a valid verdict, and a
factor above the brokers was capped when there were more of them (`CapIsKept`). For loading,
merges of three sources are followed place by place (`ConfiguredByPriority`), and the dictionary of
an application is what it wrote to start with but for a registry that a load has left in it
(`GivenOrKept`), which is what the next loads find.

*Left to TLC*: liveness (`EveryCallEnds`, `CloseEndsCalls`, `EventuallyAgree`, `SweepTerminates`,
`ClearTerminates`, `EverySubscriberServed`, `LifecycleCallsEnd`), since
neither fairness nor `ENABLED` is within reach of the prover.

## 5. What is assumed of code outside the repository

* Kafka: a partition is a log; a group has a position per partition, which may go back; a
  record goes to one member of a group; records with a key keep their order, records without
  one may go to any partition; a topic that is written is created; a deleted topic loses its
  groups' positions; an unknown topic cannot be deleted.
* kstreams: the engine starts its consumers in the background; its start and stop suspend and
  may fail, a failed stop having stopped it or not; an exception that leaves a handler or a
  middleware stops that stream (the default policy), and its closing consumer commits its position.
* autogen_core: the subscription manager refuses a subscription equal to one it holds (same
  id, or same agent type and topic type) and the removal of an unknown id.
* Schema registry and brokers: a registration is checked against the latest version only, and a
  known schema keeps its id; a request may be carried out although its answer is lost; a topic
  needs at least one replica and no more than there are brokers; a request that names a topic
  twice is refused for it; topics and schemas are not deleted while runtimes are constructed.
* Groups: every runtime has a group of its own (the code does not make groups unique;
  section 6 says what happens otherwise), `auto_offset_reset` is `latest` but for
  the memory.

## 6. Findings

One run, `KafkaMemory_plain`, refutes a sentence of the repository, which `PROJECT.json` quotes:
a content without metadata stops the streams of all instances.

The models contain more behaviour that surprised us. The properties name it as the exception it
is, so each of them says what remains true:

* *Calls.* A payload that cannot be serialized leaves its entry in `_pending_requests` for the
  life of the process (`messaging_client.py` 145-153), and a cancelled call its entry until the
  response comes, if it comes: `PendingIsExact` lists these two. An exception without a text, as
  of a failed `assert`, reaches the caller as a result, as `messaging_client.py` 286 takes an empty
  error for none; the proofs exclude it. An agent that ends with `CancelledError` is never answered,
  and a request accepted
  while `stop()` waits may be dropped: both are among the failures of `StrandedOnlyByFailure`.
* *Registry.* Two runtimes that register a type at once both succeed (`NoKnowingDuplicate`), and
  the rollback of a failed registration removes the entry of another runtime (`KnownStaysKnown`).
  A type whose announcement failed stays in `_agent_factories`, so that a retry is refused.
* *Subscriptions.* On several partitions a removal may overtake its addition, and the
  subscription stays in the global views (`Scattered`); of two equal subscriptions the second is
  lost with the first (`RivalRemoved`).
* *Streaming agent.* The response to a cancelled call, and a record that is no `AgentEvent`, which
  the deserializer raises again (`events_serdes.py` 62-64), stop the stream of all calls
  (`StreamFailsForCause`); a call made while `close()` waits is neither ended nor waited
  for (`CloseEndsCalls` speaks of the calls that were there).
* *Memory.* `clear()` leaves the memories of the others as they are, of two simultaneous clears
  one fails, and a restarted instance does not rebuild its memory.
* *Instances.* Two lookups, or two registrations, of one id that overlap create two instances,
  and the second replaces the first (`contended`). `load_state` loads agents one after the other
  and stops at the first it does not find; `save_state` fails as soon as there is an agent.
* *Events.* A subscription whose agent cannot be had stops the event stream before the other
  recipients have run (`AllOrNothing`).
* *Groups.* Consumers made from one configuration share a group, and each record reaches only
  one of them; the models give each a group of its own.
* *Start and stop.* Overlapping starts both start the engines (`overlapped`); a failed start leaves
  the services' flags set, or the events' engine running, and a later `stop()` returns at once
  (`aborted`). A handler that calls another agent while the runtime stops may wait for the answer
  for ever, and the stop with it, also a handler that was there when the stop began: the client is
  stopped first (`kafka_agent_runtime.py` 205-211), and a request that is queued after the stop has
  looked at the sends is dropped (`hasty`, and the exception in `LifecycleCallsEnd`), although the
  docstring of the worker's `stop` says that this "ensures no messages are lost"
  (`streaming_worker_base.py` 252-254). A request that arrives after the stop has looked at the
  handlers loses its consumers under its handler (`late`). `start_and_wait_for` drops the
  result of its wait.
* *Configuration.* `load_config` documents that the environment comes first, but
  `AUTOGEN_KAFKA_SCHEMA_REGISTRY_URL` is ignored when the file or the base dictionary has the
  registry inside `kafka`: `from_dict` moves one from the top level only where none is inside, and
  `Intended` says so. And as `from_dict` moves it into a dictionary the merge may share with the
  application (`agent_runtime_config.py` 138), the registry of the first load stays for all later
  loads from one base dictionary, also when it came from a file or a variable that has changed
  since (`kept`, the exception of `LoadFollowsPriority`): the base then says what the application
  never wrote. A
  configuration that does not validate is constructed like any other, although
  `KafkaAgentRuntime.__init__` documents a `ValueError`; and `ensure_valid`, documented to raise,
  returns when the invalid verdict is cached. The default replication factor is 3 where
  `from_dict` documents 1, and its keys are `runtime_requests` in a section `runtime`, not the
  documented `request_topic` in `worker`.
* *Construction.* A replication factor capped by the brokers of the first call is not capped again:
  after a broker has left, the same configuration object fails until it is loaded anew. The
  refusal of an incompatible schema reaches the application as a `TypeError`.

## 7. Not modelled

What the models simplify, and what that leaves open:

* A runtime is stopped once at a time in `RequestReply` (`BeginStop`); stops that overlap are in
  `WorkerLifecycle`.
* No stream fails in `WorkerLifecycle`: what a handler loses then is in `StreamingAgent` and
  `EventDelivery`, where streams fail.
* The restart at the end of a `clear` does not fail in `KafkaMemory` (`FinishClear`).
* A send of the streaming agent ends when its record is written (`EndSend`); what a late
  acknowledgement changes is in `RequestReply`.
* The deserializers of the other parts raise on what is no event as that of the streaming agent
  does; their topics are written by the same code, so that only `KafkaMemory`, whose own events
  may be unreadable, has that step besides.
* Conversions of events that succeed have no module: they have no state, and a unit test reaches
  them.

Some hazards of `PROJECT.json` are real and their properties name them as exceptions, so that the
property confines the damage but would not report it: overlapping creations and registrations of
an instance (`contended`), the rollback of an own failed registration (`unsettled`), the event stream
that a missing agent stops, starts beside another call (`overlapped`), a start that failed
(`aborted`), and a cluster that has shrunk (`shrunk`). The hazard says so at each of them.

Left out for good: telemetry and logging, the wire format of the schema registry, connection
settings that the code hands on unread, the configurations of the streaming agent and the
memory (they load and validate as that of the runtime does), the example application,
`cancel_all_tasks`, `register_schema` and `get_schema`, which nothing calls, and the tombstone
branch of the memory's handler, as nothing in the repository sends a tombstone.
