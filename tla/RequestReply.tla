---------------------------- MODULE RequestReply ----------------------------
(***************************************************************************)
(* Request/reply between agents over Kafka.                                *)
(*                                                                         *)
(* MessagingClient.send_message writes a RequestEvent to the request topic *)
(* from a background task and awaits a future kept in _pending_requests.   *)
(* Every runtime consumes the request topic in a consumer group of its own *)
(* and runs MessageProcessor.process_request in a background task; the     *)
(* runtime that hosts the recipient appends a ResponseEvent, keyed by the  *)
(* request id, to the response topic, and the client whose                 *)
(* _pending_requests knows that id resolves its future.                    *)
(*                                                                         *)
(* A call stands for its request id (a fresh uuid), a job for one delivery *)
(* of a request record to one runtime.  Nothing in the code times out, so  *)
(* no action of this module does.                                          *)
(***************************************************************************)
EXTENDS Naturals, Sequences, FiniteSets

CONSTANTS
    Runtimes,      \* the KafkaAgentRuntime processes
    Calls,         \* the send_message calls, each with its own request id
    Caller,        \* the runtime whose MessagingClient makes the call
    Hosts,         \* the runtimes whose AgentManager resolves the recipient
    MaxDeliveries, \* bound: deliveries of one request record to one runtime
    MaxCrashes,    \* bound: process crashes
    Faults         \* which of FaultKinds the environment may inject

FaultKinds == {"send", "ack", "unserializable", "garbled", "cancel",
               "raise", "blank", "abort", "stop", "late", "redeliver"}

ASSUME ConstantsAssumption ==
    /\ Caller \in [Calls -> Runtimes]
    /\ Hosts \in [Calls -> SUBSET Runtimes]
    /\ MaxDeliveries \in Nat \ {0}
    /\ MaxCrashes \in Nat
    /\ Faults \subseteq FaultKinds

VARIABLES
    started,  \* runtimes whose MessagingClient.is_started is True
    stopping, \* runtimes inside MessagingClient.stop()
    drain,    \* runtime -> send tasks that stop() gathered and waits for
    stream,   \* runtime -> its request and response consumers' state
    call,     \* where the send_message coroutine is
    pending,  \* the keys of every client's _pending_requests
    future,   \* state of the future the call awaits
    sendTask, \* the background task that sends the request
    job,      \* where each process_request task is
    executed, \* jobs whose agent's on_message returned
    replies,  \* call -> the ResponseEvents written under its request id
    read,     \* call -> how many of them the caller's consumer is past
    base,     \* call -> the offset where the caller's consumer started
    crashes   \* crashes so far (bounded by MaxCrashes)

vars == <<started, stopping, drain, stream, call, pending, future, sendTask,
          job, executed, replies, read, base, crashes>>

clientVars == <<started, stopping, drain>>
callVars   == <<call, pending, future>>
topicVars  == <<replies, read, base>>

-----------------------------------------------------------------------------
Jobs == Runtimes \X Calls \X (1..MaxDeliveries)
HostOf(j) == j[1]
CallOf(j) == j[2]
Delivery(j) == j[3]

Topics == {"requests", "responses"}
StreamStates == {"starting", "running", "stopped"}

CallStates == {"idle", "waiting", "returned", "raised", "cancelled",
               "malformed", "refused", "died"}
\* undecodable: an exception too, set because the payload could not be decoded.
Answered == {"result", "error", "undecodable"}
FutureStates == {"none", "open", "cancelled", "lost"} \cup Answered
SendStates == {"none", "queued", "sending", "sent", "failed", "dropped"}

ActiveJob == {"lookup", "handling", "replying", "failing"}
\* ignored: no agent here;  answered: a response was acknowledged;
\* mute: the error response failed too;  aborted: a CancelledError escaped;
\* lost: the process crashed.
EndedJob == {"ignored", "answered", "mute", "aborted", "lost"}
JobStates == {"none", "record"} \cup ActiveJob \cup EndedJob

\* blank: an error response whose text str(e) is the empty string.
Reply == [kind : {"result", "error", "blank"}, job : Jobs]

ActiveSend == {"queued", "sending"}

\* How an awaited producer send may end: written and acknowledged, failed
\* without being written, or written although the sender sees an exception.
SendOutcomes ==
    {o \in [written : BOOLEAN, acked : BOOLEAN] :
        /\ o.acked => o.written
        /\ ~o.written => "send" \in Faults
        /\ o.written /\ ~o.acked => "ack" \in Faults}

Init ==
    /\ started = {}
    /\ stopping = {}
    /\ drain = [r \in Runtimes |-> {}]
    /\ stream = [r \in Runtimes |-> [t \in Topics |->
                    IF "late" \in Faults THEN "starting" ELSE "running"]]
    /\ call = [c \in Calls |-> "idle"]
    /\ pending = {}
    /\ future = [c \in Calls |-> "none"]
    /\ sendTask = [c \in Calls |-> "none"]
    /\ job = [j \in Jobs |-> "none"]
    /\ executed = {}
    /\ replies = [c \in Calls |-> <<>>]
    /\ read = [c \in Calls |-> 0]
    /\ base = [c \in Calls |-> 0]
    /\ crashes = 0

-----------------------------------------------------------------------------
(* The client: lifecycle                                                   *)

\* StreamingServiceManager.start for a service it does not own: only a flag.
StartClient(r) ==
    /\ r \notin started
    /\ started' = started \cup {r}
    /\ UNCHANGED <<stopping, drain, stream, callVars, sendTask, job, executed,
                   topicVars, crashes>>

StopUnguarded(r) ==
    /\ "stop" \in Faults
    /\ stopping' = stopping \cup {r}
    /\ UNCHANGED <<started, drain, stream, callVars, sendTask, job, executed,
                   topicVars, crashes>>

\* stop(): wait_for_completion gathers the tasks there are now.
BeginStop(r) ==
    /\ "stop" \in Faults
    /\ r \in started \ stopping
    /\ stopping' = stopping \cup {r}
    /\ drain' = [drain EXCEPT ![r] =
                    {c \in Calls : Caller[c] = r /\ sendTask[c] \in ActiveSend}]
    /\ UNCHANGED <<started, stream, callVars, sendTask, job, executed,
                   topicVars, crashes>>

\* The gathered tasks are done: the flag drops.
FinishStop(r) ==
    /\ r \in stopping
    /\ \A c \in drain[r] : sendTask[c] \notin ActiveSend
    /\ stopping' = stopping \ {r}
    /\ started' = started \ {r}
    /\ drain' = [drain EXCEPT ![r] = {}]
    /\ UNCHANGED <<stream, callVars, sendTask, job, executed, topicVars,
                   crashes>>

\* A consumer gets its partitions.  With auto_offset_reset "latest" it starts
\* after the records that are already there.
PositionRequests(r) ==
    /\ stream[r]["requests"] = "starting"
    /\ stream' = [stream EXCEPT ![r]["requests"] = "running"]
    /\ UNCHANGED <<clientVars, callVars, sendTask, job, executed, topicVars,
                   crashes>>

PositionResponses(r) ==
    /\ stream[r]["responses"] = "starting"
    /\ stream' = [stream EXCEPT ![r]["responses"] = "running"]
    /\ read' = [c \in Calls |-> IF Caller[c] = r THEN Len(replies[c])
                                ELSE read[c]]
    /\ base' = [c \in Calls |-> IF Caller[c] = r THEN Len(replies[c])
                                ELSE base[c]]
    /\ UNCHANGED <<clientVars, callVars, sendTask, job, executed, replies,
                   crashes>>

-----------------------------------------------------------------------------
(* The client: send_message                                                *)

\* send_message up to "await future"; the id lock is never contended, so
\* nothing runs in between.  The future enters _pending_requests before the
\* payload is serialized, and a serializer that raises leaves it there.
Invoke(c) ==
    /\ call[c] = "idle"
    /\ \/ /\ Caller[c] \notin started
          /\ call' = [call EXCEPT ![c] = "refused"]
          /\ UNCHANGED <<pending, future, sendTask>>
       \/ /\ Caller[c] \in started
          /\ pending' = pending \cup {c}
          /\ future' = [future EXCEPT ![c] = "open"]
          /\ \/ /\ call' = [call EXCEPT ![c] = "waiting"]
                /\ sendTask' = [sendTask EXCEPT ![c] = "queued"]
             \/ /\ "unserializable" \in Faults
                /\ call' = [call EXCEPT ![c] = "malformed"]
                /\ UNCHANGED sendTask
    /\ UNCHANGED <<clientVars, stream, job, executed, topicVars, crashes>>

\* The background task runs _ensure_started when it is first scheduled.
BeginSend(c) ==
    /\ sendTask[c] = "queued"
    /\ sendTask' = [sendTask EXCEPT ![c] =
                       IF Caller[c] \in started THEN "sending" ELSE "dropped"]
    /\ UNCHANGED <<clientVars, stream, callVars, job, executed, topicVars,
                   crashes>>

\* A written request reaches every consumer that has its position.
EndSend(c) ==
    /\ sendTask[c] = "sending"
    /\ \E o \in SendOutcomes :
         /\ sendTask' = [sendTask EXCEPT ![c] =
                            IF o.acked THEN "sent" ELSE "failed"]
         /\ job' = IF o.written
                   THEN [j \in Jobs |->
                           IF /\ CallOf(j) = c
                              /\ Delivery(j) = 1
                              /\ stream[HostOf(j)]["requests"] # "starting"
                           THEN "record" ELSE job[j]]
                   ELSE job
    /\ UNCHANGED <<clientVars, stream, callVars, executed, topicVars, crashes>>

\* The coroutine resumes from its future.
Resume(c) ==
    /\ call[c] = "waiting"
    /\ future[c] \in Answered
    /\ call' = [call EXCEPT ![c] = IF future[c] = "result" THEN "returned"
                                   ELSE "raised"]
    /\ UNCHANGED <<clientVars, stream, pending, future, sendTask, job,
                   executed, topicVars, crashes>>

\* The caller's task is cancelled: so is the future it awaits, but its entry
\* stays in _pending_requests.
Cancel(c) ==
    /\ "cancel" \in Faults
    /\ call[c] = "waiting"
    /\ call' = [call EXCEPT ![c] = "cancelled"]
    /\ future' = [future EXCEPT ![c] = IF @ = "open" THEN "cancelled" ELSE @]
    /\ UNCHANGED <<clientVars, stream, pending, sendTask, job, executed,
                   topicVars, crashes>>

\* Variants with a bug, for the mutation of the definitions below.
OutcomeIgnoresError(m) == "result"
DecodeFailureForgotten == "open"
PopKeepsEntry(c) == UNCHANGED pending
PopClearsAll(c) == pending' = {}

\* "if response.error and len(response.error) > 0": an error response with an
\* empty text is taken for a result.
Outcome(m) == IF m.kind = "error" THEN "error" ELSE "result"

\* set_exception(e) when the payload cannot be decoded.
DecodeFailure == "undecodable"

\* set_result and set_exception raise on a future that is done.
Resolve(state, value) == IF state = "open" THEN value ELSE state

Pop(c) == pending' = pending \ {c}

\* MessagingClient._handle_event on the next response under this id.  On a
\* cancelled future the InvalidStateError of set_result is caught, but that of
\* set_exception after a decoding error leaves the handler, and the engine
\* stops the stream.
HandleReply(c) ==
    LET r == Caller[c]
        m == replies[c][read[c] + 1]
    IN  /\ stream[r]["responses"] = "running"
        /\ read[c] < Len(replies[c])
        /\ read' = [read EXCEPT ![c] = @ + 1]
        /\ \/ /\ c \notin pending
              /\ UNCHANGED <<pending, future, stream>>
           \/ /\ c \in pending
              /\ Pop(c)
              /\ future' = [future EXCEPT ![c] = Resolve(@, Outcome(m))]
              /\ UNCHANGED stream
           \/ /\ c \in pending
              /\ "garbled" \in Faults
              /\ m.kind = "result"
              /\ Pop(c)
              /\ future' = [future EXCEPT ![c] = Resolve(@, DecodeFailure)]
              /\ stream' = IF future[c] = "open" THEN stream
                           ELSE [stream EXCEPT ![r]["responses"] = "stopped"]
        /\ UNCHANGED <<clientVars, call, sendTask, job, executed, replies,
                       base, crashes>>

-----------------------------------------------------------------------------
(* The host: process_request                                               *)

\* KafkaAgentRuntime._handle_event spawns a task per record and returns.
HandleRequest(j) ==
    /\ job[j] = "record"
    /\ stream[HostOf(j)]["requests"] = "running"
    /\ job' = [job EXCEPT ![j] = "lookup"]
    /\ UNCHANGED <<clientVars, stream, callVars, sendTask, executed, topicVars,
                   crashes>>

\* get_agent, then the payload is decoded.  A host that has not registered its
\* agent yet ignores the request like any other runtime.
LookupAgent(j) ==
    /\ job[j] = "lookup"
    /\ \/ /\ HostOf(j) \in Hosts[CallOf(j)]
          /\ job' = [job EXCEPT ![j] = "handling"]
       \/ /\ HostOf(j) \in Hosts[CallOf(j)]
          /\ "raise" \in Faults
          /\ job' = [job EXCEPT ![j] = "failing"]
       \/ /\ HostOf(j) \notin Hosts[CallOf(j)] \/ "late" \in Faults
          /\ job' = [job EXCEPT ![j] = "ignored"]
    /\ UNCHANGED <<clientVars, stream, callVars, sendTask, executed, topicVars,
                   crashes>>

\* on_message ends.  "except Exception" does not see a CancelledError.
RunAgent(j) ==
    /\ job[j] = "handling"
    /\ \/ /\ job' = [job EXCEPT ![j] = "replying"]
          /\ executed' = executed \cup {j}
       \/ /\ "raise" \in Faults
          /\ job' = [job EXCEPT ![j] = "failing"]
          /\ executed' \in {executed, executed \cup {j}}
       \/ /\ "abort" \in Faults
          /\ job' = [job EXCEPT ![j] = "aborted"]
          /\ UNCHANGED executed
    /\ UNCHANGED <<clientVars, stream, callVars, sendTask, topicVars, crashes>>

Write(j, kind) ==
    replies' = [replies EXCEPT ![CallOf(j)] =
                   Append(@, [kind |-> kind, job |-> j])]

AfterReplySwallows(o) == "answered"

\* The response is sent inside the try: a failure is answered with an error.
AfterReply(o) == IF o.acked THEN "answered" ELSE "failing"

SendReply(j) ==
    /\ job[j] = "replying"
    /\ \E o \in SendOutcomes :
         /\ IF o.written THEN Write(j, "result") ELSE UNCHANGED replies
         /\ job' = [job EXCEPT ![j] = AfterReply(o)]
    /\ UNCHANGED <<clientVars, stream, callVars, sendTask, executed, read,
                   base, crashes>>

ErrorTextLost == {"error", "blank"}
ErrorKinds == IF "blank" \in Faults THEN {"error", "blank"} ELSE {"error"}

\* The error response is sent once; its failure is only logged.
SendError(j) ==
    /\ job[j] = "failing"
    /\ \E o \in SendOutcomes, kind \in ErrorKinds :
         /\ IF o.written THEN Write(j, kind) ELSE UNCHANGED replies
         /\ job' = [job EXCEPT ![j] = IF o.acked THEN "answered" ELSE "mute"]
    /\ UNCHANGED <<clientVars, stream, callVars, sendTask, executed, read,
                   base, crashes>>

-----------------------------------------------------------------------------
(* The environment: at-least-once delivery and crashes                     *)

\* A rebalance or restart rewinds a group to its committed offset.
RedeliverRequest(j) ==
    /\ "redeliver" \in Faults
    /\ job[j] \notin {"none", "record"}
    /\ \E n \in Jobs :
         /\ HostOf(n) = HostOf(j)
         /\ CallOf(n) = CallOf(j)
         /\ Delivery(n) = Delivery(j) + 1
         /\ job[n] = "none"
         /\ job' = [job EXCEPT ![n] = "record"]
    /\ UNCHANGED <<clientVars, stream, callVars, sendTask, executed, topicVars,
                   crashes>>

RedeliverReply(c) ==
    /\ "redeliver" \in Faults
    /\ stream[Caller[c]]["responses"] = "running"
    /\ read[c] > base[c]
    /\ read' = [read EXCEPT ![c] = @ - 1]
    /\ UNCHANGED <<clientVars, stream, callVars, sendTask, job, executed,
                   replies, base, crashes>>

\* The process dies and is started again.  Its tasks and futures are gone; its
\* consumer groups keep their positions; records not yet handled are kept.
Crash(r) ==
    /\ crashes < MaxCrashes
    /\ crashes' = crashes + 1
    /\ started' = started \ {r}
    /\ stopping' = stopping \ {r}
    /\ drain' = [drain EXCEPT ![r] = {}]
    /\ stream' = [stream EXCEPT ![r] =
                     [t \in Topics |-> IF @[t] = "stopped" THEN "running"
                                       ELSE @[t]]]
    /\ call' = [c \in Calls |->
                  IF Caller[c] = r /\ call[c] = "waiting"
                  THEN "died" ELSE call[c]]
    /\ pending' = {c \in pending : Caller[c] # r}
    /\ future' = [c \in Calls |-> IF Caller[c] = r /\ future[c] = "open"
                                  THEN "lost" ELSE future[c]]
    /\ sendTask' = [c \in Calls |->
                      IF Caller[c] = r /\ sendTask[c] \in ActiveSend
                      THEN "failed" ELSE sendTask[c]]
    /\ job' = [j \in Jobs |-> IF HostOf(j) = r /\ job[j] \in ActiveJob
                              THEN "lost" ELSE job[j]]
    /\ UNCHANGED <<executed, topicVars>>

-----------------------------------------------------------------------------
RuntimeStep(r) ==
    \/ StartClient(r) \/ BeginStop(r) \/ FinishStop(r)
    \/ PositionRequests(r) \/ PositionResponses(r) \/ Crash(r)

CallStep(c) ==
    \/ Invoke(c) \/ BeginSend(c) \/ EndSend(c) \/ Resume(c) \/ Cancel(c)
    \/ HandleReply(c) \/ RedeliverReply(c)

JobStep(j) ==
    \/ HandleRequest(j) \/ LookupAgent(j) \/ RunAgent(j) \/ SendReply(j)
    \/ SendError(j) \/ RedeliverRequest(j)

Next ==
    \/ \E r \in Runtimes : RuntimeStep(r)
    \/ \E c \in Calls : CallStep(c)
    \/ \E j \in Jobs : JobStep(j)

Spec == Init /\ [][Next]_vars

\* The event loop runs every ready task, the consumers poll, the producer's
\* sends end (aiokafka bounds them with request_timeout_ms) and agents return.
\* Nothing obliges an application to call, cancel or stop, or a fault to occur.
Fairness ==
    /\ \A r \in Runtimes : /\ WF_vars(PositionRequests(r))
                           /\ WF_vars(PositionResponses(r))
    /\ \A c \in Calls : /\ WF_vars(BeginSend(c))
                        /\ WF_vars(EndSend(c))
                        /\ WF_vars(Resume(c))
                        /\ WF_vars(HandleReply(c))
    /\ \A j \in Jobs : /\ WF_vars(HandleRequest(j))
                       /\ WF_vars(LookupAgent(j))
                       /\ WF_vars(RunAgent(j))
                       /\ WF_vars(SendReply(j))
                       /\ WF_vars(SendError(j))

FairSpec == Spec /\ Fairness
-----------------------------------------------------------------------------
(* Properties                                                              *)

TypeOK ==
    /\ started \subseteq Runtimes
    /\ stopping \subseteq started
    /\ drain \in [Runtimes -> SUBSET Calls]
    /\ stream \in [Runtimes -> [Topics -> StreamStates]]
    /\ call \in [Calls -> CallStates]
    /\ pending \subseteq Calls
    /\ future \in [Calls -> FutureStates]
    /\ sendTask \in [Calls -> SendStates]
    /\ job \in [Jobs -> JobStates]
    /\ executed \subseteq Jobs
    /\ replies \in [Calls -> Seq(Reply)]
    /\ read \in [Calls -> Nat]
    /\ base \in [Calls -> Nat]
    /\ crashes \in 0..MaxCrashes

\* A caller is only ever given the result of an agent that ran on its own
\* request and returned: never an answer made up by a failed delivery, an
\* error, another call's response or a runtime that does not host the agent
\* (messaging_client.py 284-289 against message_processor.py 189-204).
AnswerIsGenuine ==
    \A c \in Calls : future[c] = "result" =>
        \E j \in executed : CallOf(j) = c /\ HostOf(j) \in Hosts[c]

\* A waiting call has its entry in _pending_requests until a response resolves
\* its future, and no longer.  Of the calls that do not wait, an entry is left
\* by one that was cancelled before its response came, until it comes, and by
\* one whose payload could not be serialized (messaging_client.py 145-153), for
\* which nothing was sent and which keeps its entry for the life of the process.
PendingIsExact ==
    /\ \A c \in Calls : future[c] = "open" => c \in pending
    /\ \A c \in Calls : call[c] = "waiting" =>
                           future[c] \in {"open"} \cup Answered
    /\ \A c \in pending : read[c] = base[c]
    /\ \A c \in pending :
          \/ call[c] = "waiting" /\ future[c] = "open"
          \/ call[c] = "cancelled" /\ future[c] = "cancelled"
          \/ call[c] = "malformed" /\ sendTask[c] = "none"

\* The first response the caller's consumer meets decides how the call ends,
\* whatever follows it under the same id: the error response after a reply that
\* was written and not acknowledged, the answer of another host, those of a
\* redelivered request, or the same response once more (message_processor.py
\* 188-206, messaging_client.py 261-289).
FirstResponseDecides ==
    \A c \in Calls : future[c] \in Answered =>
        /\ base[c] < Len(replies[c])
        /\ future[c] = "error" <=> replies[c][base[c] + 1].kind = "error"

\* A response the caller's consumer was given never leaves the call waiting,
\* whatever was redelivered, reordered with a cancellation or undecodable.
ConsumedReplyResolves ==
    \A c \in Calls : read[c] > base[c] => future[c] # "open"

\* No step can make progress on this waiting call any more.
Stranded(c) ==
    /\ call[c] = "waiting"
    /\ future[c] = "open"
    /\ sendTask[c] \notin ActiveSend
    /\ \A j \in Jobs : CallOf(j) = c => job[j] \in {"none"} \cup EndedJob
    /\ \/ read[c] = Len(replies[c])
       \/ stream[Caller[c]]["responses"] = "stopped"

\* The failures the code leaves a caller to wait through forever.
Excused(c) ==
    \/ sendTask[c] \in {"failed", "dropped"}
    \/ stream[Caller[c]]["responses"] = "stopped"
    \/ base[c] > 0
    \/ \A j \in Jobs : CallOf(j) = c /\ HostOf(j) \in Hosts[c] =>
           job[j] \in {"none", "ignored", "mute", "aborted", "lost"}

\* send_message has no timeout; a call waits forever only when its request was
\* not acknowledged, the client's stream has stopped or started too late, or no
\* host got an acknowledged response out.
StrandedOnlyByFailure == \A c \in Calls : Stranded(c) => Excused(c)

\* Every accepted call ends, or meets one of those failures.
EveryCallEnds ==
    \A c \in Calls : call[c] = "waiting" ~> (call[c] # "waiting" \/ Excused(c))

-----------------------------------------------------------------------------
(* The inductive invariant behind the properties above                     *)

\* Nothing happens to a call before it is made.
NothingBeforeTheCall ==
    \A c \in Calls : call[c] = "idle" =>
        /\ future[c] = "none"
        /\ sendTask[c] = "none"
        /\ replies[c] = <<>> /\ read[c] = 0 /\ base[c] = 0
        /\ \A j \in Jobs : CallOf(j) = c => job[j] = "none"

\* Only a host runs the agent, and a result is on its way only if it returned.
OnlyHostsServe ==
    /\ \A j \in Jobs : job[j] \in {"handling", "replying"} =>
                        HostOf(j) \in Hosts[CallOf(j)]
    /\ \A j \in executed : /\ HostOf(j) \in Hosts[CallOf(j)]
                            /\ job[j] # "none"
    /\ \A j \in Jobs : job[j] = "replying" => j \in executed

\* A response under a call's id comes from a job of that call.
RepliesAreGenuine ==
    \A c \in Calls : \A i \in DOMAIN replies[c] :
        /\ replies[c][i].kind = "result" =>
              replies[c][i].job \in executed /\ CallOf(replies[c][i].job) = c
        /\ replies[c][i].kind = "blank" => "blank" \in Faults

\* An acknowledged response is on the topic.
AnsweredIsWritten ==
    \A j \in Jobs : job[j] = "answered" => replies[CallOf(j)] # <<>>

\* A consumer that has no position yet has handled nothing.
NothingReadBeforePosition ==
    \A c \in Calls : stream[Caller[c]]["responses"] = "starting" =>
        /\ read[c] = 0 /\ base[c] = 0
        /\ future[c] \notin Answered

IInv ==
    /\ TypeOK
    /\ PendingIsExact
    /\ NothingBeforeTheCall
    /\ OnlyHostsServe
    /\ RepliesAreGenuine
    /\ AnsweredIsWritten
    /\ ConsumedReplyResolves
    /\ NothingReadBeforePosition
    /\ FirstResponseDecides
    /\ "blank" \notin Faults => AnswerIsGenuine

-----------------------------------------------------------------------------
\* The contract of a remote call, as the agent that makes it sees it.
PhaseOf(state) ==
    CASE state = "idle" -> "idle"
      [] state = "waiting" -> "asked"
      [] state = "returned" -> "returned"
      [] OTHER -> "failed"

Phase == [c \in Calls |-> PhaseOf(call[c])]
Served == {CallOf(j) : j \in executed}

Contract == INSTANCE RemoteCall WITH phase <- Phase, served <- Served

\* send_message keeps RemoteCall's contract: at most one end per call, and a
\* result only from an agent that served that call.
ContractSpec == Contract!Spec
=============================================================================
