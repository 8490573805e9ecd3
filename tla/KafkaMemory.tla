---------------------------- MODULE KafkaMemory ----------------------------
(***************************************************************************)
(* KafkaMemory: a memory shared by several instances of one session.       *)
(*                                                                         *)
(* add() puts the content into the instance's own memory and broadcasts it *)
(* on the session's topic, which has one partition; every instance adds    *)
(* what it consumes of the others.  clear() empties the instance's own     *)
(* memory, stops its consumer, deletes the topic, waits until the topic is *)
(* no longer listed and starts again.                                      *)
(*                                                                         *)
(* A content without metadata is written with "metadata": null, which no   *)
(* instance can read again: the deserializer raises a TypeError, which     *)
(* nothing catches, and kstreams stops the stream.                         *)
(*                                                                         *)
(* An add stands for its content; the memories are bags, as their order is *)
(* not the topic's.                                                        *)
(***************************************************************************)
EXTENDS Naturals, Sequences

CONSTANTS
    Instances,       \* the KafkaMemory instances of one session
    Adds,            \* the add calls
    AdderOf,         \* the instance an add is made on
    Plain,           \* the adds whose content has no metadata
    Groups,          \* the consumer groups on the topic
    GroupOf,         \* the group of an instance's consumer
    MaxRetries,      \* MAX_TOPIC_DELETION_RETRIES
    MaxClears,       \* bound: clear calls
    MaxCrashes,      \* bound: process crashes
    MaxRedeliveries, \* bound: records delivered again
    Faults           \* which of FaultKinds may happen

FaultKinds == {"start", "send", "ack", "close", "timeout"}

ASSUME MemoryAssumption ==
    /\ AdderOf \in [Adds -> Instances]
    /\ Plain \subseteq Adds
    /\ GroupOf \in [Instances -> Groups]
    /\ {MaxRetries, MaxClears, MaxCrashes, MaxRedeliveries} \subseteq Nat
    /\ Faults \subseteq FaultKinds

VARIABLES
    started, \* instances whose is_started is True and whose engine runs
    halted,  \* those of them whose stream has stopped with an error
    items,   \* instance -> content -> its copies in the underlying memory
    mine,    \* instance -> the adds made under its _instance_id
    add,     \* where each add call is
    clear,   \* where each instance's clear call is
    retries, \* instance -> polls of the topic list so far
    topic,   \* state of the topic at the broker
    log,     \* the contents on the topic
    pos,     \* group -> records it is past
    wiped,   \* history: contents a clear has removed from an instance
    amnesic, \* history: instances that crashed
    counts   \* clears, crashes and redeliveries so far

vars == <<started, halted, items, mine, add, clear, retries, topic, log, pos, wiped,
          amnesic, counts>>

memoryVars == <<items, mine>>
clearVars  == <<clear, retries>>
topicVars  == <<topic, log, pos>>
history    == <<wiped, amnesic>>

-----------------------------------------------------------------------------
AddStates == {"idle", "starting", "sending", "written", "done", "raised",
              "died"}
ActiveAdd == {"starting", "sending", "written"}
ActiveClear == {"stopping", "deleting", "waiting", "restarting"}
Resting == {"idle", "missing", "timedout"}

Init ==
    /\ started = {}
    /\ halted = {}
    /\ items = [i \in Instances |-> [x \in Adds |-> 0]]
    /\ mine = [i \in Instances |-> {}]
    /\ add = [x \in Adds |-> "idle"]
    /\ clear = [i \in Instances |-> "idle"]
    /\ retries = [i \in Instances |-> 0]
    /\ topic = "present"
    /\ log = <<>>
    /\ pos = [g \in Groups |-> 0]
    /\ wiped = {}
    /\ amnesic = {}
    /\ counts = [clears |-> 0, crashes |-> 0, redeliveries |-> 0]

-----------------------------------------------------------------------------
(* Starting and closing                                                    *)

\* __aenter__, query and start(): StreamingWorkerBase.start.
Start(i) ==
    /\ i \notin started
    /\ started' = started \cup {i}
    /\ UNCHANGED <<halted, memoryVars, add, clearVars, topicVars, history, counts>>

\* close(): the underlying ListMemory keeps its content.
Close(i) ==
    /\ "close" \in Faults
    /\ i \in started
    /\ started' = started \ {i}
    /\ halted' = halted \ {i}
    /\ UNCHANGED <<memoryVars, add, clearVars, topicVars, history, counts>>

-----------------------------------------------------------------------------
(* add                                                                     *)

\* Variants with a bug, for the mutation of the definitions below.
KeepsAlways(i, x) == TRUE
KeepsNone(i, x) == FALSE
CountedNot(n) == n
AddLocallyUnderOneId(x) ==
    LET i == AdderOf[x]
    IN  /\ items' = [items EXCEPT ![i][x] = @ + 1]
        /\ mine' = [j \in Instances |-> mine[j] \cup {x}]
        /\ add' = [add EXCEPT ![x] = "sending"]

\* The local add and the beginning of the broadcast: nothing suspends between.
AddLocally(x) ==
    LET i == AdderOf[x]
    IN  /\ items' = [items EXCEPT ![i][x] = @ + 1]
        /\ mine' = [mine EXCEPT ![i] = @ \cup {x}]
        /\ add' = [add EXCEPT ![x] = "sending"]

BeginAdd(x) ==
    /\ add[x] = "idle"
    /\ \/ AdderOf[x] \in started /\ AddLocally(x)
       \/ /\ AdderOf[x] \notin started
          /\ add' = [add EXCEPT ![x] = "starting"]
          /\ UNCHANGED memoryVars
    /\ UNCHANGED <<started, halted, clearVars, topicVars, history, counts>>

\* _ensure_started returns, or raises before anything is added.
AddStarted(x) ==
    /\ add[x] = "starting"
    /\ \/ started' = started \cup {AdderOf[x]} /\ AddLocally(x)
       \/ /\ "start" \in Faults
          /\ add' = [add EXCEPT ![x] = "raised"]
          /\ UNCHANGED <<started, memoryVars>>
    /\ UNCHANGED <<halted, clearVars, topicVars, history, counts>>

\* The broker appends the event; a topic that is gone is created again.
Broadcast(x) ==
    /\ add[x] = "sending"
    /\ AdderOf[x] \in started
    /\ topic # "deleting"
    /\ topic' = "present"
    /\ log' = Append(log, x)
    /\ add' = [add EXCEPT ![x] = "written"]
    /\ UNCHANGED <<started, halted, memoryVars, clearVars, pos, history, counts>>

Acknowledged(x) ==
    /\ add[x] = "written"
    /\ add' = [add EXCEPT ![x] = "done"]
    /\ UNCHANGED <<started, halted, memoryVars, clearVars, topicVars, history, counts>>

\* The caller is told, the local memory keeps the content.
AddFailed(x) ==
    /\ \/ /\ add[x] = "sending"
          /\ "send" \in Faults \/ AdderOf[x] \notin started \/ topic = "deleting"
       \/ add[x] = "written" /\ "ack" \in Faults
    /\ add' = [add EXCEPT ![x] = "raised"]
    /\ UNCHANGED <<started, halted, memoryVars, clearVars, topicVars, history, counts>>

-----------------------------------------------------------------------------
(* The consumer                                                            *)

\* _handle_memory_event skips what carries this instance's _instance_id.
Keeps(i, x) == x \notin mine[i]

\* MemoryEvent.__from_dict__ raises for what has no metadata.
Readable(x) == x \notin Plain

\* The record an instance's group is at is given to one of its members.  One
\* that cannot be read stops the stream, whose closing consumer commits its
\* position; the worker stays started.
HandleEvent(i) ==
    LET g == GroupOf[i]
        x == log[pos[g] + 1]
    IN  /\ i \in started \ halted
        /\ pos[g] < Len(log)
        /\ pos' = [pos EXCEPT ![g] = @ + 1]
        /\ \/ /\ Readable(x)
              /\ items' = IF Keeps(i, x) THEN [items EXCEPT ![i][x] = @ + 1]
                          ELSE items
              /\ UNCHANGED halted
           \/ /\ ~Readable(x)
              /\ halted' = halted \cup {i}
              /\ UNCHANGED items
        /\ UNCHANGED <<started, mine, add, clearVars, topic, log, history,
                       counts>>

\* At-least-once delivery: the group goes back to a committed offset.
Redeliver(g) ==
    /\ counts.redeliveries < MaxRedeliveries
    /\ pos[g] > 0
    /\ pos' = [pos EXCEPT ![g] = @ - 1]
    /\ counts' = [counts EXCEPT !.redeliveries = @ + 1]
    /\ UNCHANGED <<started, halted, memoryVars, add, clearVars, topic, log, history>>

-----------------------------------------------------------------------------
(* clear                                                                   *)

BeginClear(i) ==
    /\ clear[i] \in Resting
    /\ counts.clears < MaxClears
    /\ counts' = [counts EXCEPT !.clears = @ + 1]
    /\ items' = [items EXCEPT ![i] = [x \in Adds |-> 0]]
    /\ wiped' = wiped \cup {<<i, x>> : x \in {y \in Adds : items[i][y] > 0}}
    /\ clear' = [clear EXCEPT ![i] = IF i \in started THEN "stopping"
                                     ELSE "deleting"]
    /\ UNCHANGED <<started, halted, mine, add, retries, topicVars, amnesic>>

ClearStops(i) ==
    /\ clear[i] = "stopping"
    /\ started' = started \ {i}
    /\ halted' = halted \ {i}
    /\ clear' = [clear EXCEPT ![i] = "deleting"]
    /\ UNCHANGED <<memoryVars, add, retries, topicVars, history, counts>>

\* The broker refuses to delete a topic it does not have, and may refuse one
\* that is being deleted.
DeleteTopic(i) ==
    /\ clear[i] = "deleting"
    /\ \/ /\ topic # "absent"
          /\ topic' = "deleting"
          /\ clear' = [clear EXCEPT ![i] = "waiting"]
       \/ /\ topic # "present"
          /\ clear' = [clear EXCEPT ![i] = "missing"]
          /\ UNCHANGED topic
    /\ retries' = [retries EXCEPT ![i] = 0]
    /\ UNCHANGED <<started, halted, memoryVars, add, log, pos, history, counts>>

\* The broker is done: the records and the groups' positions are gone, and a
\* topic of the same name is read from its beginning.
TopicGone ==
    /\ topic = "deleting"
    /\ topic' = "absent"
    /\ log' = <<>>
    /\ pos' = [g \in Groups |-> 0]
    /\ UNCHANGED <<started, halted, memoryVars, add, clearVars, history, counts>>

GivesUp(i) == retries[i] >= MaxRetries
Counted(n) == n + 1

\* One turn of _wait_for_topic_deletion: the topic is listed as long as there
\* is one of that name, also one that somebody has created again.
Poll(i) ==
    /\ clear[i] = "waiting"
    /\ \/ /\ topic = "absent"
          /\ clear' = [clear EXCEPT ![i] = "restarting"]
          /\ UNCHANGED retries
       \/ /\ topic # "absent"
          /\ GivesUp(i) \/ "timeout" \in Faults
          /\ clear' = [clear EXCEPT ![i] = "timedout"]
          /\ UNCHANGED retries
       \/ /\ topic # "absent"
          /\ ~GivesUp(i)
          /\ retries' = [retries EXCEPT ![i] = Counted(@)]
          /\ UNCHANGED clear
    /\ UNCHANGED <<started, halted, memoryVars, add, topicVars, history, counts>>

\* start() again.  An add may have started the worker in the meantime.
FinishClear(i) ==
    /\ clear[i] = "restarting"
    /\ started' = started \cup {i}
    /\ clear' = [clear EXCEPT ![i] = "idle"]
    /\ UNCHANGED <<halted, memoryVars, add, retries, topicVars, history, counts>>

-----------------------------------------------------------------------------
\* The process dies and is started again with a new _instance_id; its group is
\* the configured one and keeps its position.
Crash(i) ==
    /\ counts.crashes < MaxCrashes
    /\ counts' = [counts EXCEPT !.crashes = @ + 1]
    /\ started' = started \ {i}
    /\ halted' = halted \ {i}
    /\ items' = [items EXCEPT ![i] = [x \in Adds |-> 0]]
    /\ mine' = [mine EXCEPT ![i] = {}]
    /\ add' = [x \in Adds |-> IF AdderOf[x] = i /\ add[x] \in ActiveAdd
                              THEN "died" ELSE add[x]]
    /\ clear' = [clear EXCEPT ![i] = "idle"]
    /\ amnesic' = amnesic \cup {i}
    /\ UNCHANGED <<retries, topicVars, wiped>>

-----------------------------------------------------------------------------
InstanceStep(i) ==
    \/ Start(i) \/ Close(i) \/ HandleEvent(i) \/ Crash(i)
    \/ BeginClear(i) \/ ClearStops(i) \/ DeleteTopic(i) \/ Poll(i)
    \/ FinishClear(i)

AddStep(x) ==
    BeginAdd(x) \/ AddStarted(x) \/ Broadcast(x) \/ Acknowledged(x)
    \/ AddFailed(x)

Next ==
    \/ \E i \in Instances : InstanceStep(i)
    \/ \E x \in Adds : AddStep(x)
    \/ \E g \in Groups : Redeliver(g)
    \/ TopicGone

Spec == Init /\ [][Next]_vars

\* Calls go on, sends end, started consumers poll and the broker deletes.
Fairness ==
    /\ \A x \in Adds : WF_vars(AddStarted(x) \/ Broadcast(x) \/ Acknowledged(x)
                               \/ AddFailed(x))
    /\ \A i \in Instances : /\ WF_vars(HandleEvent(i))
                            /\ WF_vars(ClearStops(i) \/ DeleteTopic(i)
                                       \/ Poll(i) \/ FinishClear(i))
    /\ WF_vars(TopicGone)

FairSpec == Spec /\ Fairness

-----------------------------------------------------------------------------
(* Properties                                                              *)

TypeOK ==
    /\ started \subseteq Instances
    /\ halted \subseteq started
    /\ items \in [Instances -> [Adds -> Nat]]
    /\ mine \in [Instances -> SUBSET Adds]
    /\ \A i \in Instances : \A x \in mine[i] : AdderOf[x] = i
    /\ add \in [Adds -> AddStates]
    /\ clear \in [Instances -> ActiveClear \cup Resting]
    /\ retries \in [Instances -> 0..MaxRetries]
    /\ topic \in {"present", "deleting", "absent"}
    /\ log \in Seq(Adds)
    /\ pos \in [Groups -> Nat]
    /\ \A g \in Groups : pos[g] <= Len(log)
    /\ wiped \subseteq Instances \X Adds
    /\ amnesic \subseteq Instances
    /\ counts \in [clears : 0..MaxClears, crashes : 0..MaxCrashes,
                    redeliveries : 0..MaxRedeliveries]

CaughtUp(i) == i \in started \ halted /\ pos[GroupOf[i]] = Len(log)

\* An instance's own content is in its memory once, however often its events
\* come back, also around a close, a clear or a failed broadcast
\* (kafka_memory.py 437-440, "to avoid duplicate processing").
OwnAddOnce ==
    \A i \in Instances : \A x \in mine[i] :
        items[i][x] = 0 \/ items[i][x] = 1

\* An instance that has consumed the topic misses nothing readable that is on
\* it, but for what a clear of its own has removed, also when its stream was
\* stopped by an unreadable record and started again: README 394, "Memory
\* state is automatically synchronized across instances".
ViewFollowsTopic ==
    \A i \in Instances \ amnesic : CaughtUp(i) =>
        \A n \in DOMAIN log : log[n] \notin Plain /\ <<i, log[n]>> \notin wiped
                              => items[i][log[n]] > 0

\* clear() ends: the broker deletes, refuses, or the retries run out, whoever
\* creates the topic again meanwhile (kafka_memory.py 365-383).
ClearTerminates ==
    \A i \in Instances : clear[i] \in ActiveClear ~> clear[i] \in Resting

\* README 394: "Memory state is automatically synchronized across instances".
\* Here: without failures, clears and crashes, instances that run end up with
\* the same contents.
SynchronizedAutomatically ==
    <>[](started = Instances) =>
        <>[](\A i, j \in Instances, x \in Adds :
                 items[i][x] > 0 <=> items[j][x] > 0)
=============================================================================
