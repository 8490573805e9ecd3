--------------------------- MODULE WorkerLifecycle ---------------------------
(***************************************************************************)
(* Starting and stopping one runtime.                                      *)
(*                                                                         *)
(* KafkaAgentRuntime owns a streaming engine and shares it with its        *)
(* subscription service, messaging client and registry, whose start and    *)
(* stop only set flags, one right after the other.  The cloud event        *)
(* processor owns an engine of its own.  A start or stop is a coroutine    *)
(* that suspends where an engine starts or stops, where it waits for       *)
(* background tasks, and where it unsubscribes; between two of these it    *)
(* runs through.  Any number of them may be under way together with the    *)
(* handlers of requests and with the calls that agents and applications    *)
(* make through the runtime.                                               *)
(***************************************************************************)
EXTENDS Naturals, FiniteSets

CONSTANTS
    Starts,         \* calls of start
    WaitingStarts,  \* those of them made by start_and_wait_for
    Stops,          \* calls of stop
    Handlers,       \* the tasks that handle requests, in the runtime
    Apps,           \* calls of send_message by the application
    Faults          \* which of FaultKinds may happen

FaultKinds == {"start", "stop"}
Calls == Starts \cup Stops
Callers == Handlers \cup Apps

ASSUME LifecycleAssumption ==
    /\ WaitingStarts \subseteq Starts
    /\ Starts \cap Stops = {}
    /\ Handlers \cap Apps = {}
    /\ Faults \subseteq FaultKinds

VARIABLES
    started,     \* the parts whose is_started is true
    engine,      \* the engines that run: the runtime's own, the events'
    running,     \* the streams of the own engine whose consumers run
    call,        \* where each start and stop is
    awaits,      \* stop -> the tasks it waits for
    caller,      \* where each request handler, or call of an application, is
    late,        \* history: handlers that began after a stop had looked at
                 \* the handlers there are, or before all streams ran
    hasty,       \* history: callers whose request was queued after a stop had
                 \* looked at the sends there are, or without an engine
    overlapped,  \* history: a start did its work beside another call
    aborted,     \* history: a start has failed, and none has succeeded since
    torn         \* history: a stop has failed, and none has succeeded since

vars == <<started, engine, running, call, awaits, caller, late, hasty,
          overlapped, aborted, torn>>

\* services: the subscription service, the messaging client and the registry.
Parts == {"services", "events", "runtime"}
Engines == {"own", "events"}
\* The streams by which calls depend on the engine.
Streams == {"requests", "responses"}

Ended == {"done", "raised"}
CallStates == Ended \cup
    {"idle", "openingEvents", "opening", "polling",
     "sweeping", "draining", "closingEvents", "awaiting", "closing"}

\* running: the handler runs, or the application may call;  queued: the
\* request is with a background task;  dropped: that task has failed;  sent:
\* waits for the answer;  lost: no consumer will see it.
CallerStates ==
    {"idle", "running", "queued", "dropped", "sent", "lost", "replying", "done"}

InProgress(c) == call[c] \notin Ended \cup {"idle"}
Queued == {c \in Callers : caller[c] = "queued"}
\* The tasks in the runtime's own task manager.
Handling == {h \in Handlers : caller[h] \notin {"idle", "done"}}

AllRunning == running = Streams

Init ==
    /\ started = {} /\ engine = {} /\ running = {}
    /\ call = [c \in Calls |-> "idle"]
    /\ awaits = [c \in Stops |-> {}]
    /\ caller = [c \in Callers |-> IF c \in Apps THEN "running" ELSE "idle"]
    /\ late = {} /\ hasty = {}
    /\ overlapped = FALSE /\ aborted = FALSE /\ torn = FALSE

\* Variants with a bug, for the mutation of the definitions below.
SnapshotForgotten(tasks) == {}
StopEventsOfNobody(c) ==
    /\ call' = [call EXCEPT ![c] = "closing"]
    /\ awaits' = [awaits EXCEPT ![c] = {}]
StartFailsFlagged(c) ==
    /\ "start" \in Faults
    /\ call' = [call EXCEPT ![c] = "raised"]
    /\ started' = started \cup {"events"}
    /\ aborted' = TRUE
    /\ UNCHANGED engine
StreamStartsLate(s) ==
    /\ "runtime" \in started
    /\ s \notin running
    /\ running' = running \cup {s}
    /\ UNCHANGED <<started, engine, call, awaits, caller, late, hasty,
                   overlapped, aborted, torn>>
WaitForStreams(c) ==
    /\ call[c] = "polling"
    /\ AllRunning
    /\ call' = [call EXCEPT ![c] = "done"]
    /\ UNCHANGED <<started, engine, running, awaits, caller, late, hasty,
                   overlapped, aborted, torn>>

-----------------------------------------------------------------------------
(* start                                                                   *)

\* What start_and_wait_for does when start has returned.
Returned(c) == IF c \in WaitingStarts THEN "polling" ELSE "done"

\* StreamingWorkerBase.start looks at the flag once more.
StartOwn(c) == IF "runtime" \in started THEN Returned(c) ELSE "opening"

StartEvents(c) == IF "events" \in started THEN StartOwn(c) ELSE "openingEvents"

\* A runtime that is started is not waited for.  Otherwise the flags of the
\* services are set, although their engine does not run yet.
BeginStart(c) ==
    /\ call[c] = "idle"
    /\ \/ /\ "runtime" \in started
          /\ call' = [call EXCEPT ![c] = "done"]
          /\ UNCHANGED <<started, overlapped>>
       \/ /\ "runtime" \notin started
          /\ call' = [call EXCEPT ![c] = StartEvents(c)]
          /\ started' = started \cup {"services"}
          /\ overlapped' = (overlapped \/ \E d \in Calls : InProgress(d))
    /\ UNCHANGED <<engine, running, awaits, caller, late, hasty, aborted, torn>>

StartFails(c) ==
    /\ "start" \in Faults
    /\ call' = [call EXCEPT ![c] = "raised"]
    /\ aborted' = TRUE
    /\ UNCHANGED <<started, engine>>

OpenedEvents(c) ==
    /\ call[c] = "openingEvents"
    /\ \/ /\ call' = [call EXCEPT ![c] = StartOwn(c)]
          /\ started' = started \cup {"events"}
          /\ engine' = engine \cup {"events"}
          /\ UNCHANGED aborted
       \/ StartFails(c)
    /\ UNCHANGED <<running, awaits, caller, late, hasty, overlapped, torn>>

Opened(c) ==
    /\ call[c] = "opening"
    /\ \/ /\ call' = [call EXCEPT ![c] = Returned(c)]
          /\ started' = started \cup {"runtime"}
          /\ engine' = engine \cup {"own"}
          /\ aborted' = FALSE
       \/ StartFails(c)
    /\ UNCHANGED <<running, awaits, caller, late, hasty, overlapped, torn>>

\* The clock is not modelled: the time may be up at any poll.
TimeIsUp == TRUE

\* The streams run or the time is up; start_and_wait_for does not say which.
WaitEnds(c) ==
    /\ call[c] = "polling"
    /\ AllRunning \/ TimeIsUp
    /\ call' = [call EXCEPT ![c] = "done"]
    /\ UNCHANGED <<started, engine, running, awaits, caller, late, hasty,
                   overlapped, aborted, torn>>

\* The engine starts its consumers in the background.
StreamStarts(s) ==
    /\ "own" \in engine
    /\ s \notin running
    /\ running' = running \cup {s}
    /\ UNCHANGED <<started, engine, call, awaits, caller, late, hasty,
                   overlapped, aborted, torn>>

-----------------------------------------------------------------------------
(* stop                                                                    *)

\* The tasks that wait_for_completion waits for: those there are.
Snapshot(tasks) == tasks

Suspend(c, where, tasks) ==
    /\ call' = [call EXCEPT ![c] = where]
    /\ awaits' = [awaits EXCEPT ![c] = tasks]

\* StreamingWorkerBase.stop of the runtime itself, which waits for the handlers
\* there are and looks at the flag again when it has waited.
StopOwn(c) ==
    IF "runtime" \notin started THEN Suspend(c, "done", {})
    ELSE IF Snapshot(Handling) = {} THEN Suspend(c, "closing", {})
    ELSE Suspend(c, "awaiting", Snapshot(Handling))

StopEvents(c) ==
    IF "events" \in started THEN Suspend(c, "closingEvents", {}) ELSE StopOwn(c)

\* The messaging client waits for the sends there are, unless it is stopped;
\* the registry and the subscription service have no tasks of their own.
StopServices(c) ==
    IF "services" \in started /\ Snapshot(Queued) # {}
    THEN Suspend(c, "draining", Snapshot(Queued)) /\ UNCHANGED started
    ELSE started' = started \ {"services"} /\ StopEvents(c)

\* unsubscribe_all suspends if there are subscriptions.
BeginStop(c) ==
    /\ call[c] = "idle"
    /\ \/ /\ "runtime" \notin started
          /\ Suspend(c, "done", {})
          /\ UNCHANGED started
       \/ /\ "runtime" \in started
          /\ Suspend(c, "sweeping", {})
          /\ UNCHANGED started
       \/ "runtime" \in started /\ StopServices(c)
    /\ UNCHANGED <<engine, running, caller, late, hasty, overlapped, aborted,
                   torn>>

Swept(c) ==
    /\ call[c] = "sweeping"
    /\ StopServices(c)
    /\ UNCHANGED <<engine, running, caller, late, hasty, overlapped, aborted,
                   torn>>

Drained(c) ==
    /\ call[c] = "draining"
    /\ awaits[c] \cap Queued = {}
    /\ started' = started \ {"services"}
    /\ StopEvents(c)
    /\ UNCHANGED <<engine, running, caller, late, hasty, overlapped, aborted,
                   torn>>

\* An engine that fails to stop may have stopped or not; its flag stays.
StopFails(c, e) ==
    /\ "stop" \in Faults
    /\ call' = [call EXCEPT ![c] = "raised"]
    /\ engine' \in {engine, engine \ {e}}
    /\ torn' = TRUE
    /\ UNCHANGED <<started, awaits>>

ClosedEvents(c) ==
    /\ call[c] = "closingEvents"
    /\ \/ /\ engine' = engine \ {"events"}
          /\ started' = started \ {"events"}
          /\ StopOwn(c)
          /\ UNCHANGED torn
       \/ StopFails(c, "events")
    /\ UNCHANGED <<running, caller, late, hasty, overlapped, aborted>>

Awaited(c) ==
    /\ call[c] = "awaiting"
    /\ awaits[c] \cap Handling = {}
    /\ Suspend(c, IF "runtime" \in started THEN "closing" ELSE "done", {})
    /\ UNCHANGED <<started, engine, running, caller, late, hasty, overlapped,
                   aborted, torn>>

FlagsClosed == started \ {"runtime"}

Closed(c) ==
    /\ call[c] = "closing"
    /\ \/ /\ call' = [call EXCEPT ![c] = "done"]
          /\ engine' = engine \ {"own"}
          /\ started' = FlagsClosed
          /\ torn' = FALSE
          /\ UNCHANGED awaits
       \/ StopFails(c, "own")
    /\ running' = IF "own" \in engine' THEN running ELSE {}
    /\ UNCHANGED <<caller, late, hasty, overlapped, aborted>>

-----------------------------------------------------------------------------
(* Requests and calls                                                      *)

Move(c, from, to) ==
    /\ caller[c] = from
    /\ caller' = [caller EXCEPT ![c] = to]
    /\ UNCHANGED <<started, engine, running, call, awaits, overlapped, aborted,
                   torn>>

\* A stop that no longer waits for a request or handler that begins now.
SendsSeen(z) == call[z] \in {"draining", "closingEvents", "awaiting", "closing"}
HandlersSeen(z) == call[z] \in {"awaiting", "closing"}

\* A request reaches _handle_event, which starts a task for it.
Arrive(h) ==
    /\ "requests" \in running
    /\ Move(h, "idle", "running")
    /\ late' = IF AllRunning /\ \A z \in Stops : ~HandlersSeen(z) THEN late
               ELSE late \cup {h}
    /\ UNCHANGED hasty

\* send_message of the messaging client: an agent calls another one, or the
\* application does.  The refusal ends the handler with an error reply.
Send(c) ==
    /\ \/ /\ "services" \in started
          /\ Move(c, "running", "queued")
          /\ hasty' = IF "own" \in engine /\ \A z \in Stops : ~SendsSeen(z)
                      THEN hasty ELSE hasty \cup {c}
       \/ /\ "services" \notin started
          /\ Move(c, "running", IF c \in Handlers THEN "replying" ELSE "done")
          /\ UNCHANGED hasty
    /\ UNCHANGED late

\* The background send needs the flag of the client and an engine that runs;
\* one that starts or stops may or may not take it.  A failure only ends the
\* task: nothing tells the caller, who awaits its future.
Taken(c) ==
    /\ "services" \in started
    /\ "own" \in engine \/ \E d \in Starts : call[d] = "opening"

Refused(c) ==
    \/ "services" \notin started
    \/ "own" \notin engine
    \/ \E d \in Stops : call[d] = "closing"

SendEnds(c) ==
    /\ \/ Taken(c) /\ Move(c, "queued", "sent")
       \/ Refused(c) /\ Move(c, "queued", "dropped")
    /\ UNCHANGED <<late, hasty>>

\* The agent that was called answers.  An answer that finds no consumer is lost
\* unless the group has a committed position that is before it.
Answer(c) ==
    /\ \/ /\ "responses" \in running
          /\ Move(c, "sent", IF c \in Handlers THEN "replying" ELSE "done")
       \/ "responses" \notin running /\ Move(c, "sent", "lost")
    /\ UNCHANGED <<late, hasty>>

\* The agent returns, with or without having called another.
FinishHandler(h) ==
    /\ Move(h, "running", "done") \/ Move(h, "replying", "done")
    /\ UNCHANGED <<late, hasty>>

-----------------------------------------------------------------------------
StartStep(c) == BeginStart(c) \/ OpenedEvents(c) \/ Opened(c) \/ WaitEnds(c)

StopStep(c) ==
    \/ BeginStop(c) \/ Swept(c) \/ Drained(c)
    \/ ClosedEvents(c) \/ Awaited(c) \/ Closed(c)

Next ==
    \/ \E c \in Starts : StartStep(c)
    \/ \E c \in Stops : StopStep(c)
    \/ \E s \in Streams : StreamStarts(s)
    \/ \E h \in Handlers : Arrive(h) \/ FinishHandler(h)
    \/ \E c \in Callers : Send(c) \/ SendEnds(c) \/ Answer(c)

Spec == Init /\ [][Next]_vars

\* Engines end their starts and stops, the event loop goes on with every task,
\* agents return and answer.  Nobody has to start, stop, call or send.
Fairness ==
    /\ \A c \in Starts :
           WF_vars(OpenedEvents(c)) /\ WF_vars(Opened(c)) /\ WF_vars(WaitEnds(c))
    /\ \A c \in Stops :
           /\ WF_vars(Swept(c)) /\ WF_vars(Drained(c))
           /\ WF_vars(ClosedEvents(c)) /\ WF_vars(Awaited(c))
           /\ WF_vars(Closed(c))
    /\ \A s \in Streams : WF_vars(StreamStarts(s))
    /\ \A h \in Handlers : WF_vars(FinishHandler(h))
    /\ \A c \in Callers : WF_vars(SendEnds(c)) /\ WF_vars(Answer(c))

FairSpec == Spec /\ Fairness

-----------------------------------------------------------------------------
(* Properties                                                              *)

TypeOK ==
    /\ started \subseteq Parts
    /\ engine \subseteq Engines
    /\ running \subseteq Streams
    /\ running # {} => "own" \in engine
    /\ call \in [Calls -> CallStates]
    /\ awaits \in [Stops -> SUBSET Callers]
    /\ caller \in [Callers -> CallerStates]
    /\ late \subseteq Handlers /\ hasty \subseteq Callers
    /\ overlapped \in BOOLEAN /\ aborted \in BOOLEAN /\ torn \in BOOLEAN

NobodyAtWork == \A c \in Calls : ~InProgress(c)

\* A runtime that says it is started has all its parts and both engines, also
\* after failed starts, retries and overlapping stops; but for a stop that has
\* failed halfway and for starts that overlapped (kafka_agent_runtime.py
\* 172-184).
RunningIsWhole ==
    NobodyAtWork /\ "runtime" \in started /\ ~torn /\ ~overlapped =>
        started = Parts /\ engine = Engines

\* A runtime that says it is stopped has left nothing running, unless a start
\* has failed since or starts overlapped (kafka_agent_runtime.py 199-211).
StoppedIsClean ==
    NobodyAtWork /\ "runtime" \notin started /\ ~aborted /\ ~overlapped =>
        started = {} /\ engine = {}

\* Whatever stops overlap or fail, each waits for the work there is when it
\* looks: a handler that was there keeps the engine and its consumers until it
\* has ended, also while it calls another agent during the stop, and a request
\* that was queued is sent.  As the client is stopped before the handlers are
\* waited for, what a handler queues between the two looks may be dropped; that,
\* and what is queued while the engine does not run yet, is all that is dropped
\* (kafka_agent_runtime.py 199-211, streaming_worker_base.py 264-267).
StopsWaitForWork ==
    /\ \A c \in Callers \ hasty : caller[c] # "dropped"
    /\ \A h \in Handlers \ late :
          /\ caller[h] # "lost"
          /\ h \in Handling => "own" \in engine /\ AllRunning

\* Every start and stop ends, in whatever order they come, unless a handler
\* waits for an answer to a request that was dropped or lost.
LifecycleCallsEnd ==
    []<>(NobodyAtWork \/ \E h \in Handlers : caller[h] \in {"dropped", "lost"})
=============================================================================
