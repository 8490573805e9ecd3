--------------------------- MODULE StreamingAgent ---------------------------
(***************************************************************************)
(* KafkaStreamingAgent: an agent whose answers come from an external       *)
(* stream processor.                                                       *)
(*                                                                         *)
(* on_message_impl writes an AgentEvent with a fresh id to a request topic *)
(* and awaits a future kept in _pending_requests; the processor writes     *)
(* events with the same id to the response topic, which the agent consumes *)
(* to resolve the future.  The agent owns its stream engine.  close() ends *)
(* the pending calls, and nothing else does but a response.                *)
(*                                                                         *)
(* A call stands for its request id.  The consumers of one group share the *)
(* response records, each of which is given to one of them.                *)
(***************************************************************************)
EXTENDS Naturals, FiniteSets

CONSTANTS
    Agents,      \* the KafkaStreamingAgent instances
    Calls,       \* the on_message_impl calls
    AgentOf,     \* the agent a call is made to
    Groups,      \* the consumer groups on the response topic
    GroupOf,     \* the group of an agent's consumer
    MaxAnswers,  \* bound: response records under one id
    Faults       \* which of FaultKinds may happen

FaultKinds == {"send", "unserializable", "garbled", "cancel", "stop",
               "close", "late", "redeliver", "unreadable"}

ASSUME StreamingAssumption ==
    /\ AgentOf \in [Calls -> Agents]
    /\ GroupOf \in [Agents -> Groups]
    /\ MaxAnswers \in Nat \ {0}
    /\ Faults \subseteq FaultKinds

VARIABLES
    started,  \* agents whose is_started is True
    stopping, \* agents inside stop()
    closing,  \* agent -> whether close() was called and has returned
    drain,    \* agent -> the send tasks stop() and close() wait for
    stream,   \* agent -> the state of its response consumer
    call,     \* where the on_message_impl coroutine is
    pending,  \* the keys of the agents' _pending_requests
    future,   \* the state of the future a call awaits
    sendTask, \* the background task that sends the request
    asked,    \* calls whose request is on the request topic
    answers,  \* call -> response records that answer it
    unreadable, \* <<call, n>> for the responses no AgentEvent is made of
    known,    \* groups that have a position
    read,     \* group -> call -> response records the group is past
    base,     \* group -> call -> where the group started
    early     \* history: calls pending when close() was called

vars == <<started, stopping, closing, drain, stream, call, pending, future,
          sendTask, asked, answers, unreadable, known, read, base, early>>

lifeVars  == <<started, stopping, closing, drain, early>>
callVars  == <<call, pending, future>>
topicVars == <<asked, answers, unreadable>>
groupVars == <<known, read, base>>

-----------------------------------------------------------------------------
StreamStates == {"starting", "running", "failed"}
CallStates == {"idle", "waiting", "returned", "raised", "cancelled",
               "malformed"}
FutureStates == {"none", "open", "result", "error", "cancelled"}
SendStates == {"none", "queued", "sending", "ended"}
ActiveSend == {"queued", "sending"}
Waits == {"stop", "close"}

ActiveSends(a) == {c \in Calls : AgentOf[c] = a /\ sendTask[c] \in ActiveSend}
Drained(a, wait) == \A c \in drain[a][wait] : sendTask[c] \notin ActiveSend

Init ==
    /\ started = {}
    /\ stopping = {}
    /\ closing = [a \in Agents |-> "open"]
    /\ drain = [a \in Agents |-> [w \in Waits |-> {}]]
    /\ stream = [a \in Agents |-> "starting"]
    /\ call = [c \in Calls |-> "idle"]
    /\ pending = {}
    /\ future = [c \in Calls |-> "none"]
    /\ sendTask = [c \in Calls |-> "none"]
    /\ asked = {}
    /\ answers = [c \in Calls |-> 0]
    /\ unreadable = {}
    /\ known = IF "late" \in Faults THEN {} ELSE Groups
    /\ read = [g \in Groups |-> [c \in Calls |-> 0]]
    /\ base = [g \in Groups |-> [c \in Calls |-> 0]]
    /\ early = {}

-----------------------------------------------------------------------------
(* Lifecycle                                                               *)

\* start() starts the engine the agent owns, then sets the flag.
Start(a) ==
    /\ a \notin started
    /\ started' = started \cup {a}
    /\ UNCHANGED <<stopping, closing, drain, early, stream, callVars, sendTask,
                   topicVars, groupVars>>

\* The consumer gets its partitions: at the end of the topic ("latest") if its
\* group has no position yet.
Position(a) ==
    LET g == GroupOf[a]
    IN  /\ a \in started
        /\ stream[a] = "starting"
        /\ stream' = [stream EXCEPT ![a] = "running"]
        /\ known' = known \cup {g}
        /\ \/ g \in known /\ UNCHANGED <<read, base>>
           \/ /\ g \notin known
              /\ read' = [read EXCEPT ![g] = answers]
              /\ base' = [base EXCEPT ![g] = answers]
        /\ UNCHANGED <<lifeVars, callVars, sendTask, topicVars>>

StopUnguarded(a) ==
    /\ "stop" \in Faults
    /\ stopping' = stopping \cup {a}
    /\ UNCHANGED <<started, closing, drain, early, stream, callVars, sendTask,
                   topicVars, groupVars>>

\* stop(): wait_for_completion gathers the tasks there are now.
BeginStop(a) ==
    /\ "stop" \in Faults
    /\ a \in started \ stopping
    /\ stopping' = stopping \cup {a}
    /\ drain' = [drain EXCEPT ![a]["stop"] = ActiveSends(a)]
    /\ UNCHANGED <<started, closing, early, stream, callVars, sendTask,
                   topicVars, groupVars>>

\* The gathered tasks are done: the engine and its consumer stop.
FinishStop(a) ==
    /\ a \in stopping
    /\ Drained(a, "stop")
    /\ stopping' = stopping \ {a}
    /\ started' = started \ {a}
    /\ stream' = [stream EXCEPT ![a] = "starting"]
    /\ drain' = [drain EXCEPT ![a]["stop"] = {}]
    /\ UNCHANGED <<closing, early, callVars, sendTask, topicVars, groupVars>>

\* Variants with a bug, for the mutation of the definitions below.
EndAllResolves(cs) == [c \in Calls |-> IF c \in cs THEN "result" ELSE future[c]]
EndAllForgotten(cs) == future
PopKeepsEntry(c) == UNCHANGED pending
OutcomesForgotten == {"result", "open"}

\* Every future of _pending_requests that is not done gets a CancelledError.
EndAll(cs) ==
    [c \in Calls |-> IF c \in cs /\ future[c] = "open" THEN "error"
                     ELSE future[c]]

\* close() up to its wait: the stream goes on.
BeginClose(a) ==
    LET mine == {c \in pending : AgentOf[c] = a}
    IN  /\ "close" \in Faults
        /\ closing[a] = "open"
        /\ closing' = [closing EXCEPT ![a] = "closing"]
        /\ future' = EndAll(mine)
        /\ pending' = pending \ mine
        /\ early' = early \cup mine
        /\ drain' = [drain EXCEPT ![a]["close"] = ActiveSends(a)]
        /\ UNCHANGED <<started, stopping, stream, call, sendTask, topicVars,
                       groupVars>>

FinishClose(a) ==
    /\ closing[a] = "closing"
    /\ Drained(a, "close")
    /\ closing' = [closing EXCEPT ![a] = "closed"]
    /\ drain' = [drain EXCEPT ![a]["close"] = {}]
    /\ UNCHANGED <<started, stopping, early, stream, callVars, sendTask,
                   topicVars, groupVars>>

-----------------------------------------------------------------------------
(* Calls                                                                   *)

\* on_message_impl up to "await future".  The message is serialized before the
\* future exists; neither start nor close is looked at.
OnMessage(c) ==
    /\ call[c] = "idle"
    /\ \/ /\ call' = [call EXCEPT ![c] = "waiting"]
          /\ pending' = pending \cup {c}
          /\ future' = [future EXCEPT ![c] = "open"]
          /\ sendTask' = [sendTask EXCEPT ![c] = "queued"]
       \/ /\ "unserializable" \in Faults
          /\ call' = [call EXCEPT ![c] = "malformed"]
          /\ UNCHANGED <<pending, future, sendTask>>
    /\ UNCHANGED <<lifeVars, stream, topicVars, groupVars>>

\* The background task runs _ensure_started when it is first scheduled, and ends
\* there if the agent is not started.
BeginSend(c) ==
    /\ sendTask[c] = "queued"
    /\ sendTask' = [sendTask EXCEPT ![c] =
                       IF AgentOf[c] \in started THEN "sending" ELSE "ended"]
    /\ UNCHANGED <<lifeVars, stream, callVars, topicVars, groupVars>>

\* A send fails, or writes the request, acknowledged or not: the task only logs
\* what it raises.  An engine that was stopped meanwhile fails it too.
EndSend(c) ==
    /\ sendTask[c] = "sending"
    /\ sendTask' = [sendTask EXCEPT ![c] = "ended"]
    /\ \/ asked' = asked \cup {c}
       \/ /\ "send" \in Faults \/ AgentOf[c] \notin started
          /\ UNCHANGED asked
    /\ UNCHANGED <<lifeVars, stream, callVars, answers, unreadable, groupVars>>

\* The coroutine resumes from its future.
Resume(c) ==
    /\ call[c] = "waiting"
    /\ future[c] \in {"result", "error"}
    /\ call' = [call EXCEPT ![c] = IF future[c] = "result" THEN "returned"
                                   ELSE "raised"]
    /\ UNCHANGED <<lifeVars, stream, pending, future, sendTask, topicVars,
                   groupVars>>

\* The caller's task is cancelled: its entry stays in _pending_requests.
Cancel(c) ==
    /\ "cancel" \in Faults
    /\ call[c] = "waiting"
    /\ call' = [call EXCEPT ![c] = "cancelled"]
    /\ future' = [future EXCEPT ![c] = IF @ = "open" THEN "cancelled" ELSE @]
    /\ UNCHANGED <<lifeVars, stream, pending, sendTask, topicVars, groupVars>>

-----------------------------------------------------------------------------
(* Responses                                                               *)

\* The external processor answers a request, once or more, and may write what
\* is not an AgentEvent or does not fit its schema.
Answer(c) ==
    /\ c \in asked
    /\ answers[c] < MaxAnswers
    /\ answers' = [answers EXCEPT ![c] = @ + 1]
    /\ \/ UNCHANGED unreadable
       \/ /\ "unreadable" \in Faults
          /\ unreadable' = unreadable \cup {<<c, answers[c] + 1>>}
    /\ UNCHANGED <<lifeVars, stream, callVars, sendTask, asked, groupVars>>

\* The next response to a call that a consumer of the group is given.
NextResponse(a, c) == <<c, read[GroupOf[a]][c] + 1>>
Given(a, c) ==
    /\ stream[a] = "running"
    /\ read[GroupOf[a]][c] < answers[c]
    /\ read' = [read EXCEPT ![GroupOf[a]][c] = @ + 1]

\* The middleware lets the deserializer's exception through, whoever the
\* response is for: kstreams stops the stream.
DeserializerRaises(a, c) ==
    /\ Given(a, c)
    /\ NextResponse(a, c) \in unreadable
    /\ stream' = [stream EXCEPT ![a] = "failed"]
    /\ UNCHANGED <<lifeVars, callVars, sendTask, topicVars, known, base>>

Pop(c) == pending' = pending \ {c}

\* The response type is built from the event's message, or raises.
Outcomes == {"result"} \cup (IF "garbled" \in Faults THEN {"error"} ELSE {})

\* _handle_event on the next response under this id that its group is given.
\* On a future that is done set_result raises, and so does the set_exception
\* of its handler: the exception leaves _handle_event and the stream stops.
HandleEvent(a, c) ==
    /\ Given(a, c)
    /\ NextResponse(a, c) \notin unreadable
    /\ \/ /\ c \notin pending \/ AgentOf[c] # a
          /\ UNCHANGED <<pending, future, stream>>
       \/ /\ c \in pending /\ AgentOf[c] = a
          /\ future[c] = "open"
          /\ Pop(c)
          /\ \E o \in Outcomes : future' = [future EXCEPT ![c] = o]
          /\ UNCHANGED stream
       \/ /\ c \in pending /\ AgentOf[c] = a
          /\ future[c] # "open"
          /\ Pop(c)
          /\ stream' = [stream EXCEPT ![a] = "failed"]
          /\ UNCHANGED future
    /\ UNCHANGED <<lifeVars, call, sendTask, topicVars, known, base>>

\* At-least-once delivery: the group goes back to a committed offset.
Redeliver(g, c) ==
    /\ "redeliver" \in Faults
    /\ read[g][c] > base[g][c]
    /\ read' = [read EXCEPT ![g][c] = @ - 1]
    /\ UNCHANGED <<lifeVars, stream, callVars, sendTask, topicVars, known, base>>

-----------------------------------------------------------------------------
AgentStep(a) ==
    \/ Start(a) \/ Position(a) \/ BeginStop(a) \/ FinishStop(a)
    \/ BeginClose(a) \/ FinishClose(a)

CallStep(c) ==
    \/ OnMessage(c) \/ BeginSend(c) \/ EndSend(c) \/ Resume(c) \/ Cancel(c)
    \/ Answer(c)
    \/ \E a \in Agents : HandleEvent(a, c) \/ DeserializerRaises(a, c)
    \/ \E g \in Groups : Redeliver(g, c)

Next ==
    \/ \E a \in Agents : AgentStep(a)
    \/ \E c \in Calls : CallStep(c)

Spec == Init /\ [][Next]_vars

\* The event loop runs the ready tasks of the calls, of which each has a few;
\* the producer ends its sends, the consumer of a started agent polls, and the
\* processor answers what it is asked.  Nobody has to start, stop, close, call or
\* cancel.
Fairness ==
    /\ WF_vars(\E a \in Agents : Position(a) \/ FinishStop(a))
    /\ WF_vars(\/ \E a \in Agents : FinishClose(a)
               \/ \E c \in Calls : BeginSend(c) \/ EndSend(c) \/ Resume(c)
                                   \/ Answer(c))
    /\ \A a \in Agents, c \in Calls :
           WF_vars(HandleEvent(a, c) \/ DeserializerRaises(a, c))

FairSpec == Spec /\ Fairness

-----------------------------------------------------------------------------
(* Properties                                                              *)

TypeOK ==
    /\ stopping \subseteq started /\ started \subseteq Agents
    /\ closing \in [Agents -> {"open", "closing", "closed"}]
    /\ drain \in [Agents -> [Waits -> SUBSET Calls]]
    /\ stream \in [Agents -> StreamStates]
    /\ call \in [Calls -> CallStates]
    /\ pending \subseteq Calls
    /\ future \in [Calls -> FutureStates]
    /\ sendTask \in [Calls -> SendStates]
    /\ asked \subseteq Calls
    /\ answers \in [Calls -> 0..MaxAnswers]
    /\ unreadable \subseteq Calls \X (1..MaxAnswers)
    /\ known \subseteq Groups
    /\ read \in [Groups -> [Calls -> 0..MaxAnswers]]
    /\ base \in [Groups -> [Calls -> 0..MaxAnswers]]
    /\ early \subseteq Calls

\* Every unresolved future is found by its response, every entry of
\* _pending_requests is unresolved or was cancelled, and a cancelled call's
\* entry is all that can stay: also across close() and repeated responses.
PendingIsExact ==
    /\ \A c \in Calls : future[c] = "open" => c \in pending
    /\ \A c \in pending : future[c] \in {"open", "cancelled"}
    /\ \A c \in pending : future[c] = "cancelled" => call[c] = "cancelled"

\* The stream of an agent fails only for a call of its own that its caller gave
\* up, or for a record that is no AgentEvent and that its group was given: never
\* on a repeated or late response, one whose message the response type refuses,
\* or one that close() has overtaken (kafka_streaming_agent.py 267-280,
\* events_serdes.py 54-64).
StreamFailsForCause ==
    \A a \in Agents : stream[a] = "failed" =>
        \/ \E c \in Calls : AgentOf[c] = a /\ call[c] = "cancelled"
        \/ \E r \in unreadable : base[GroupOf[a]][r[1]] < r[2]

\* What leaves a call of a started agent without an answer for good.
Excused(c) ==
    LET a == AgentOf[c]
    IN  \/ sendTask[c] = "ended" /\ c \notin asked
        \/ stream[a] = "failed"
        \/ \E r \in unreadable : r[1] = c
        \/ base[GroupOf[a]][c] > 0

\* If the agent runs from some point on, a call ends unless its request was not
\* written, its response cannot be read, or the stream has failed or began
\* too late: a response that arrived around a stop, a close, another call's end
\* or before a restart of the failed stream is not lost.
EveryCallEnds ==
    \A c \in Calls :
        <>[](AgentOf[c] \in started) =>
            (call[c] = "waiting" ~> (call[c] # "waiting" \/ Excused(c)))

\* close() ends all calls it finds pending, whatever their responses do.
CloseEndsCalls == \A c \in Calls : c \in early ~> call[c] # "waiting"

-----------------------------------------------------------------------------
\* To the agent's runtime a call is a RemoteCall that the processor serves.
PhaseOf(state) ==
    CASE state = "idle" -> "idle"
      [] state = "waiting" -> "asked"
      [] state = "returned" -> "returned"
      [] OTHER -> "failed"

Contract ==
    INSTANCE RemoteCall WITH phase <- [c \in Calls |-> PhaseOf(call[c])],
                             served <- {c \in Calls : answers[c] > 0}

\* A call ends once at most, and with a result only if it was answered.
ContractSpec == Contract!Spec
=============================================================================
