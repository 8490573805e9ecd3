------------------------- MODULE RequestReplyProofs -------------------------
(***************************************************************************)
(* Proofs about RequestReply for every set of runtimes, calls and faults.  *)
(***************************************************************************)
EXTENDS RequestReply, TLAPS

\* A job names a runtime and a call.
LEMMA JobParts == \A j \in Jobs : HostOf(j) \in Runtimes /\ CallOf(j) \in Calls
  BY DEF Jobs, HostOf, CallOf

\* Every outcome of a send is a pair of Booleans.
LEMMA OutcomeParts ==
    \A o \in SendOutcomes : o.written \in BOOLEAN /\ o.acked \in BOOLEAN
  BY DEF SendOutcomes

\* A step of the system is a step of one runtime, call or job, or a stutter.
LEMMA StepCases ==
    ASSUME [Next]_vars
    PROVE  \/ \E r \in Runtimes : RuntimeStep(r)
           \/ \E c \in Calls : CallStep(c)
           \/ \E j \in Jobs : JobStep(j)
           \/ UNCHANGED vars
  BY DEF Next

-----------------------------------------------------------------------------
(* Types                                                                   *)

\* Starting, stopping and crashing a runtime keeps the types.
LEMMA RuntimeStepType ==
    ASSUME TypeOK, NEW r \in Runtimes, RuntimeStep(r)
    PROVE  TypeOK'
<1> USE ConstantsAssumption DEF TypeOK, clientVars, callVars, topicVars
<1>1. CASE StartClient(r)
  BY <1>1 DEF StartClient
<1>2. CASE BeginStop(r)
  BY <1>2 DEF BeginStop
<1>3. CASE FinishStop(r)
  BY <1>3 DEF FinishStop
<1>4. CASE PositionRequests(r)
  BY <1>4 DEF PositionRequests, Topics, StreamStates
<1>5. CASE PositionResponses(r)
  <2>1. stream' \in [Runtimes -> [Topics -> StreamStates]]
    BY <1>5 DEF PositionResponses, Topics, StreamStates
  <2>2. \A c \in Calls : Len(replies[c]) \in Nat
    OBVIOUS
  <2>3. read' \in [Calls -> Nat] /\ base' \in [Calls -> Nat]
    BY <1>5, <2>2 DEF PositionResponses
  <2>4. QED
    BY <1>5, <2>1, <2>3 DEF PositionResponses
<1>6. CASE Crash(r)
  <2>1. stream' \in [Runtimes -> [Topics -> StreamStates]]
    BY <1>6 DEF Crash, Topics, StreamStates
  <2>2. /\ call' \in [Calls -> CallStates]
        /\ future' \in [Calls -> FutureStates]
        /\ sendTask' \in [Calls -> SendStates]
    BY <1>6 DEF Crash, CallStates, FutureStates, SendStates
  <2>3. job' \in [Jobs -> JobStates]
    BY <1>6 DEF Crash, JobStates, EndedJob
  <2>4. crashes' \in 0..MaxCrashes
    BY <1>6 DEF Crash
  <2>5. /\ started' \subseteq Runtimes /\ stopping' \subseteq started'
        /\ drain' \in [Runtimes -> SUBSET Calls] /\ pending' \subseteq Calls
    BY <1>6 DEF Crash
  <2>6. QED
    BY <1>6, <2>1, <2>2, <2>3, <2>4, <2>5 DEF Crash
<1>7. QED
  BY <1>1, <1>2, <1>3, <1>4, <1>5, <1>6 DEF RuntimeStep

\* So does a step of a call, or of what happens to its response.
LEMMA CallStepType ==
    ASSUME TypeOK, NEW c \in Calls, CallStep(c)
    PROVE  TypeOK'
<1> USE ConstantsAssumption DEF TypeOK, clientVars, callVars, topicVars
<1>1. CASE Invoke(c)
  <2>1. call' \in [Calls -> CallStates]
    BY <1>1 DEF Invoke, CallStates
  <2>2. pending' \subseteq Calls /\ future' \in [Calls -> FutureStates]
    BY <1>1 DEF Invoke, FutureStates
  <2>3. sendTask' \in [Calls -> SendStates]
    BY <1>1 DEF Invoke, SendStates
  <2>4. QED
    BY <1>1, <2>1, <2>2, <2>3 DEF Invoke
<1>2. CASE BeginSend(c)
  BY <1>2 DEF BeginSend, SendStates
<1>3. CASE EndSend(c)
  BY <1>3, OutcomeParts DEF EndSend, SendStates, JobStates
<1>4. CASE Resume(c)
  BY <1>4 DEF Resume, CallStates
<1>5. CASE Cancel(c)
  BY <1>5 DEF Cancel, CallStates, FutureStates
<1>6. CASE HandleReply(c)
  <2> DEFINE m == replies[c][read[c] + 1]
  <2>0. Outcome(m) \in FutureStates
    BY DEF Outcome, FutureStates, Answered
  <2>1. future' \in [Calls -> FutureStates]
    <3>1. CASE UNCHANGED future
      BY <3>1
    <3>2. CASE future' = [future EXCEPT ![c] = Resolve(@, Outcome(m))]
      BY <3>2, <2>0 DEF Resolve
    <3>3. CASE future' = [future EXCEPT ![c] = Resolve(@, DecodeFailure)]
      BY <3>3 DEF FutureStates, Answered, Resolve, DecodeFailure
    <3>4. QED
      BY <1>6, <3>1, <3>2, <3>3 DEF HandleReply
  <2>2. stream' \in [Runtimes -> [Topics -> StreamStates]]
    <3>1. CASE UNCHANGED stream
      BY <3>1
    <3>2. CASE stream' = [stream EXCEPT ![Caller[c]]["responses"] = "stopped"]
      BY <3>2 DEF Topics, StreamStates
    <3>3. \/ UNCHANGED stream
          \/ stream' = [stream EXCEPT ![Caller[c]]["responses"] = "stopped"]
      BY <1>6 DEF HandleReply
    <3>4. QED
      BY <3>1, <3>2, <3>3
  <2>3. /\ read' \in [Calls -> Nat] /\ pending' \subseteq Calls
        /\ UNCHANGED <<started, stopping, drain, call, sendTask, job,
                       executed, replies, base, crashes>>
    BY <1>6 DEF HandleReply, Pop
  <2>4. QED
    BY <2>1, <2>2, <2>3
<1>7. CASE RedeliverReply(c)
  BY <1>7 DEF RedeliverReply
<1>8. QED
  BY <1>1, <1>2, <1>3, <1>4, <1>5, <1>6, <1>7 DEF CallStep

\* So does a step of a host with one delivery of a request.
LEMMA JobStepType ==
    ASSUME TypeOK, NEW j \in Jobs, JobStep(j)
    PROVE  TypeOK'
<1> USE ConstantsAssumption, JobParts
    DEF TypeOK, clientVars, callVars, topicVars, JobStates, ActiveJob, EndedJob
<1>1. ASSUME NEW kind \in {"result", "error", "blank"}, Write(j, kind)
      PROVE  replies' \in [Calls -> Seq(Reply)]
  <2>1. [kind |-> kind, job |-> j] \in Reply
    BY DEF Reply
  <2>2. Append(replies[CallOf(j)], [kind |-> kind, job |-> j]) \in Seq(Reply)
    BY <2>1
  <2>3. QED
    BY <1>1, <2>2 DEF Write
<1>2. CASE HandleRequest(j)
  BY <1>2 DEF HandleRequest
<1>3. CASE LookupAgent(j)
  BY <1>3 DEF LookupAgent
<1>4. CASE RunAgent(j)
  BY <1>4 DEF RunAgent
<1>5. CASE SendReply(j)
  BY <1>5, <1>1 DEF SendReply, AfterReply
<1>6. CASE SendError(j)
  <2>1. ErrorKinds \subseteq {"result", "error", "blank"}
    BY DEF ErrorKinds
  <2>2. QED
    BY <1>6, <1>1, <2>1 DEF SendError
<1>7. CASE RedeliverRequest(j)
  BY <1>7 DEF RedeliverRequest
<1>8. QED
  BY <1>2, <1>3, <1>4, <1>5, <1>6, <1>7 DEF JobStep

\* Every variable keeps its type, whatever the constants are.
THEOREM TypeCorrect == Spec => []TypeOK
<1>1. Init => TypeOK
  <2>1. ConstantsAssumption
    BY ConstantsAssumption
  <2>2. QED
    BY ConstantsAssumption
    DEF Init, TypeOK, Topics, StreamStates, CallStates, FutureStates,
        SendStates, JobStates
<1>2. TypeOK /\ [Next]_vars => TypeOK'
  <2> SUFFICES ASSUME TypeOK, [Next]_vars PROVE TypeOK'
    OBVIOUS
  <2>1. CASE UNCHANGED vars
    BY <2>1 DEF vars, TypeOK
  <2>2. QED
    BY <2>1, StepCases, RuntimeStepType, CallStepType, JobStepType
<1>3. QED
  BY <1>1, <1>2, PTL DEF Spec

-----------------------------------------------------------------------------
(* The inductive invariant                                                 *)

\* Starting, stopping and crashing a runtime keeps the invariant.
LEMMA RuntimeStepInv ==
    ASSUME IInv, NEW r \in Runtimes, RuntimeStep(r)
    PROVE  IInv'
<1> USE ConstantsAssumption DEF clientVars, callVars, topicVars
<1>0. TypeOK'
  BY RuntimeStepType DEF IInv
<1>1. CASE \/ StartClient(r) \/ BeginStop(r) \/ FinishStop(r)
           \/ PositionRequests(r)
  <2>1. UNCHANGED <<call, pending, future, sendTask, job, executed, replies,
                    read, base>>
    BY <1>1 DEF StartClient, BeginStop, FinishStop, PositionRequests
  <2>2. \A c \in Calls :
           stream'[Caller[c]]["responses"] = stream[Caller[c]]["responses"]
    BY <1>1
    DEF StartClient, BeginStop, FinishStop, PositionRequests, IInv, TypeOK,
        Topics
  <2>3. NothingReadBeforePosition' /\ FirstResponseDecides'
    BY <2>1, <2>2 DEF IInv, NothingReadBeforePosition, FirstResponseDecides
  <2>4. QED
    BY <1>0, <2>1, <2>3
    DEF IInv, PendingIsExact, NothingBeforeTheCall, OnlyHostsServe,
        RepliesAreGenuine, AnsweredIsWritten, ConsumedReplyResolves,
        AnswerIsGenuine
<1>2. CASE PositionResponses(r)
  <2>1. UNCHANGED <<call, pending, future, sendTask, job, executed, replies>>
    BY <1>2 DEF PositionResponses
  <2>2. \A c \in Calls : \/ read'[c] = read[c] /\ base'[c] = base[c]
                         \/ /\ read'[c] = Len(replies[c])
                            /\ base'[c] = Len(replies[c])
    BY <1>2 DEF PositionResponses, IInv, TypeOK
  <2>3. NothingBeforeTheCall'
    BY <2>1, <2>2 DEF IInv, NothingBeforeTheCall
  <2>4. ConsumedReplyResolves'
    <3>1. \A c \in Calls : Len(replies[c]) \in Nat
      BY DEF IInv, TypeOK
    <3>2. QED
      BY <2>1, <2>2, <3>1 DEF IInv, ConsumedReplyResolves
  <2>5. \A c \in Calls :
           \/ /\ read'[c] = read[c] /\ base'[c] = base[c]
              /\ stream'[Caller[c]]["responses"] =
                    stream[Caller[c]]["responses"]
           \/ /\ stream[Caller[c]]["responses"] = "starting"
              /\ stream'[Caller[c]]["responses"] = "running"
    BY <1>2 DEF PositionResponses, IInv, TypeOK, Topics
  <2>6. NothingReadBeforePosition' /\ FirstResponseDecides'
    BY <2>1, <2>5 DEF IInv, NothingReadBeforePosition, FirstResponseDecides
  <2>7. PendingIsExact'
    <3>1. \A c \in Calls : read[c] = base[c] => read'[c] = base'[c]
      BY <2>2
    <3>2. pending \subseteq Calls
      BY DEF IInv, TypeOK
    <3>3. QED
      BY <2>1, <3>1, <3>2 DEF IInv, PendingIsExact
  <2>8. QED
    BY <1>0, <2>1, <2>3, <2>4, <2>6, <2>7
    DEF IInv, OnlyHostsServe, RepliesAreGenuine, AnsweredIsWritten,
        AnswerIsGenuine
<1>3. CASE Crash(r)
  <2>1. UNCHANGED <<executed, replies, read, base>>
    BY <1>3 DEF Crash
  <2>2. \A c \in Calls :
           /\ call'[c] = IF Caller[c] = r /\ call[c] = "waiting"
                         THEN "died" ELSE call[c]
           /\ future'[c] = IF Caller[c] = r /\ future[c] = "open"
                           THEN "lost" ELSE future[c]
           /\ sendTask'[c] \in {sendTask[c], "failed"}
           /\ sendTask[c] = "none" => sendTask'[c] = "none"
           /\ c \in pending' <=> c \in pending /\ Caller[c] # r
    BY <1>3 DEF Crash, ActiveSend, IInv, TypeOK
  <2>3. \A j \in Jobs : \/ job'[j] = job[j]
                        \/ job[j] \in ActiveJob /\ job'[j] = "lost"
    BY <1>3 DEF Crash, IInv, TypeOK
  <2>4. PendingIsExact'
    BY <1>0, <2>1, <2>2 DEF IInv, TypeOK, PendingIsExact, Answered
  <2>11. \A c \in Calls : stream'[Caller[c]]["responses"] = "starting" =>
                          stream[Caller[c]]["responses"] = "starting"
    BY <1>3 DEF Crash, IInv, TypeOK, Topics
  <2>12. NothingReadBeforePosition' /\ FirstResponseDecides'
    BY <2>1, <2>2, <2>11
    DEF IInv, NothingReadBeforePosition, FirstResponseDecides, Answered
  <2>5. NothingBeforeTheCall'
    BY <2>1, <2>2, <2>3 DEF IInv, NothingBeforeTheCall, ActiveJob
  <2>6. OnlyHostsServe'
    BY <2>1, <2>3 DEF IInv, TypeOK, OnlyHostsServe
  <2>7. AnsweredIsWritten'
    BY <2>1, <2>3 DEF IInv, AnsweredIsWritten
  <2>8. ConsumedReplyResolves'
    BY <2>1, <2>2 DEF IInv, ConsumedReplyResolves
  <2>9. ("blank" \notin Faults => AnswerIsGenuine)'
    BY <2>1, <2>2 DEF IInv, AnswerIsGenuine
  <2>10. QED
    BY <1>0, <2>1, <2>4, <2>5, <2>6, <2>7, <2>8, <2>9, <2>12
    DEF IInv, RepliesAreGenuine
<1>4. QED
  BY <1>1, <1>2, <1>3 DEF RuntimeStep

\* So does a step of a call, or of what happens to its response.
LEMMA CallStepInv ==
    ASSUME IInv, NEW c \in Calls, CallStep(c)
    PROVE  IInv'
<1> USE ConstantsAssumption DEF clientVars, callVars, topicVars
<1>0. TypeOK /\ TypeOK'
  BY CallStepType DEF IInv
<1>1. CASE Invoke(c)
  <2>1. UNCHANGED <<stream, job, executed, replies, read, base>>
    BY <1>1 DEF Invoke
  <2>2. /\ call[c] = "idle" /\ future[c] = "none" /\ sendTask[c] = "none"
        /\ read[c] = 0 /\ base[c] = 0
    BY <1>1 DEF Invoke, IInv, NothingBeforeTheCall
  <2>3. /\ call'[c] \in {"refused", "waiting", "malformed"}
        /\ call'[c] = "malformed" => sendTask'[c] = "none"
        /\ \A d \in Calls \ {c} : /\ call'[d] = call[d]
                                  /\ sendTask'[d] = sendTask[d]
    BY <1>0, <1>1, <2>2 DEF Invoke, TypeOK
  <2>9. \/ call'[c] = "refused" /\ UNCHANGED <<pending, future>>
        \/ /\ call'[c] # "refused"
           /\ pending' = pending \cup {c}
           /\ future' = [future EXCEPT ![c] = "open"]
    BY <1>0, <1>1 DEF Invoke, TypeOK
  <2>4. PendingIsExact'
    <3>1. CASE call'[c] = "refused" /\ UNCHANGED <<pending, future>>
      <4>1. c \notin pending
        BY <2>2 DEF IInv, PendingIsExact
      <4>2. \A d \in pending : /\ d \in Calls \ {c}
                               /\ call'[d] = call[d]
                               /\ sendTask'[d] = sendTask[d]
        BY <1>0, <2>3, <4>1 DEF TypeOK
      <4>3. \A d \in Calls : call'[d] = "waiting" => call[d] = "waiting"
        BY <2>3, <3>1
      <4>4. QED
        BY <2>1, <3>1, <4>2, <4>3 DEF IInv, PendingIsExact
    <3>2. CASE /\ call'[c] # "refused"
               /\ pending' = pending \cup {c}
               /\ future' = [future EXCEPT ![c] = "open"]
      <4>1. /\ future'[c] = "open" /\ c \in pending'
            /\ \A d \in Calls \ {c} : /\ future'[d] = future[d]
                                      /\ d \in pending' <=> d \in pending
        BY <1>0, <3>2 DEF TypeOK
      <4>2. pending' \subseteq Calls
        BY <1>0 DEF TypeOK
      <4>3. \A d \in pending' \ {c} :
               \/ call'[d] = "waiting" /\ future'[d] = "open"
               \/ call'[d] = "cancelled" /\ future'[d] = "cancelled"
               \/ call'[d] = "malformed" /\ sendTask'[d] = "none"
        BY <2>3, <4>1, <4>2 DEF IInv, PendingIsExact
      <4>4. \A d \in Calls \ {c} :
               /\ future'[d] = "open" => d \in pending'
               /\ call'[d] = "waiting" =>
                     future'[d] \in {"open"} \cup Answered
        BY <2>3, <4>1 DEF IInv, PendingIsExact
      <4>5. \A d \in pending' : read'[d] = base'[d]
        BY <2>1, <2>2, <4>1, <4>2 DEF IInv, PendingIsExact
      <4>6. QED
        BY <2>3, <3>2, <4>1, <4>2, <4>3, <4>4, <4>5 DEF PendingIsExact
    <3>3. QED
      BY <2>9, <3>1, <3>2
  <2>10. NothingReadBeforePosition' /\ FirstResponseDecides'
    BY <1>0, <2>1, <2>2, <2>9
    DEF IInv, TypeOK, NothingReadBeforePosition, FirstResponseDecides, Answered
  <2>5. NothingBeforeTheCall'
    BY <1>0, <2>1, <2>3, <2>9 DEF IInv, TypeOK, NothingBeforeTheCall
  <2>6. ConsumedReplyResolves'
    <3>1. read[c] = 0 /\ base[c] = 0
      BY <1>1 DEF Invoke, IInv, NothingBeforeTheCall
    <3>2. QED
      BY <1>0, <2>1, <2>9, <3>1 DEF IInv, TypeOK, ConsumedReplyResolves
  <2>7. ("blank" \notin Faults => AnswerIsGenuine)'
    BY <1>0, <2>1, <2>2, <2>9 DEF IInv, TypeOK, AnswerIsGenuine
  <2>8. QED
    BY <1>0, <2>1, <2>4, <2>5, <2>6, <2>7, <2>10
    DEF IInv, OnlyHostsServe, RepliesAreGenuine, AnsweredIsWritten
<1>2. CASE BeginSend(c)
  <2>1. /\ UNCHANGED <<stream, call, pending, future, job, executed, replies,
                       read, base>>
        /\ sendTask[c] = "queued"
        /\ \A d \in Calls \ {c} : sendTask'[d] = sendTask[d]
    BY <1>0, <1>2 DEF BeginSend, TypeOK
  <2>2. NothingBeforeTheCall'
    BY <2>1 DEF IInv, NothingBeforeTheCall
  <2>3. PendingIsExact'
    <3>1. \A d \in Calls : sendTask[d] = "none" => sendTask'[d] = "none"
      BY <2>1
    <3>2. pending \subseteq Calls
      BY <1>0 DEF TypeOK
    <3>3. QED
      BY <2>1, <3>1, <3>2 DEF IInv, PendingIsExact
  <2>4. NothingReadBeforePosition' /\ FirstResponseDecides'
    BY <2>1 DEF IInv, NothingReadBeforePosition, FirstResponseDecides
  <2>5. QED
    BY <1>0, <2>1, <2>2, <2>3, <2>4
    DEF IInv, OnlyHostsServe, RepliesAreGenuine, AnsweredIsWritten,
        ConsumedReplyResolves, AnswerIsGenuine
<1>3. CASE EndSend(c)
  <2>1. /\ UNCHANGED <<stream, call, pending, future, executed, replies, read,
                       base>>
        /\ sendTask[c] = "sending"
        /\ \A d \in Calls \ {c} : sendTask'[d] = sendTask[d]
    BY <1>0, <1>3 DEF EndSend, TypeOK
  <2>2. \A j \in Jobs : \/ job'[j] = job[j]
                        \/ CallOf(j) = c /\ job'[j] = "record"
    BY <1>0, <1>3 DEF EndSend, TypeOK
  <2>3. NothingBeforeTheCall'
    BY <2>1, <2>2 DEF IInv, NothingBeforeTheCall
  <2>4. OnlyHostsServe'
    BY <1>0, <2>1, <2>2 DEF IInv, OnlyHostsServe, TypeOK
  <2>5. AnsweredIsWritten'
    BY <2>1, <2>2 DEF IInv, AnsweredIsWritten
  <2>6. PendingIsExact'
    <3>1. \A d \in Calls : sendTask[d] = "none" => sendTask'[d] = "none"
      BY <2>1
    <3>2. pending \subseteq Calls
      BY <1>0 DEF TypeOK
    <3>3. QED
      BY <2>1, <3>1, <3>2 DEF IInv, PendingIsExact
  <2>7. NothingReadBeforePosition' /\ FirstResponseDecides'
    BY <2>1 DEF IInv, NothingReadBeforePosition, FirstResponseDecides
  <2>8. QED
    BY <1>0, <2>1, <2>3, <2>4, <2>5, <2>6, <2>7
    DEF IInv, RepliesAreGenuine, ConsumedReplyResolves, AnswerIsGenuine
<1>4. CASE Resume(c) \/ Cancel(c)
  <2>1. /\ UNCHANGED <<stream, pending, sendTask, job, executed, replies,
                       read, base>>
        /\ call[c] = "waiting"
        /\ \/ /\ call'[c] \in {"returned", "raised", "cancelled"}
              /\ future[c] # "open" /\ future'[c] = future[c]
           \/ /\ call'[c] = "cancelled"
              /\ future[c] = "open" /\ future'[c] = "cancelled"
        /\ \A d \in Calls \ {c} : call'[d] = call[d] /\ future'[d] = future[d]
    BY <1>0, <1>4 DEF Resume, Cancel, TypeOK, Answered
  <2>2. PendingIsExact'
    BY <1>0, <2>1 DEF IInv, PendingIsExact, TypeOK
  <2>7. NothingReadBeforePosition' /\ FirstResponseDecides'
    BY <2>1
    DEF IInv, NothingReadBeforePosition, FirstResponseDecides, Answered
  <2>3. NothingBeforeTheCall'
    BY <2>1 DEF IInv, NothingBeforeTheCall
  <2>4. ConsumedReplyResolves'
    BY <2>1 DEF IInv, ConsumedReplyResolves
  <2>5. ("blank" \notin Faults => AnswerIsGenuine)'
    BY <2>1 DEF IInv, AnswerIsGenuine
  <2>6. QED
    BY <1>0, <2>1, <2>2, <2>3, <2>4, <2>5, <2>7
    DEF IInv, OnlyHostsServe, RepliesAreGenuine, AnsweredIsWritten
<1>5. CASE HandleReply(c)
  <2> DEFINE i == read[c] + 1
             m == replies[c][i]
  <2>1. UNCHANGED <<call, sendTask, job, executed, replies, base>>
    BY <1>5 DEF HandleReply
  <2>2. i \in DOMAIN replies[c]
    BY <1>0, <1>5 DEF HandleReply, Pop, TypeOK
  <2>3. /\ \A d \in Calls \ {c} : future'[d] = future[d] /\ read'[d] = read[d]
        /\ pending' = pending \ {c}
        /\ read'[c] = read[c] + 1
    BY <1>0, <1>5 DEF HandleReply, Pop, TypeOK
  <2>4. \/ future'[c] = future[c] /\ future[c] # "open"
        \/ /\ future[c] = "open" /\ c \in pending
           /\ \/ future'[c] = Outcome(m)
              \/ future'[c] = DecodeFailure /\ m.kind = "result"
    BY <1>0, <1>5
    DEF HandleReply, Resolve, DecodeFailure, TypeOK, IInv, PendingIsExact
  <2>5. future'[c] # "open"
    BY <2>4 DEF Outcome, DecodeFailure
  <2>6. call[c] # "idle"
    BY <1>0, <2>2 DEF IInv, NothingBeforeTheCall
  <2>7. PendingIsExact'
    BY <1>0, <2>1, <2>3, <2>4
    DEF IInv, PendingIsExact, Outcome, DecodeFailure, Answered, TypeOK
  <2>12. stream[Caller[c]]["responses"] = "running"
    BY <1>5 DEF HandleReply
  <2>13. \A d \in Calls : stream'[Caller[d]]["responses"] = "starting" =>
                           /\ d # c
                           /\ stream[Caller[d]]["responses"] = "starting"
    <3>1. \/ stream' = stream
          \/ stream' = [stream EXCEPT ![Caller[c]]["responses"] = "stopped"]
      BY <1>5 DEF HandleReply
    <3>2. \A r \in Runtimes : stream'[r]["responses"] \in
                                  {stream[r]["responses"], "stopped"}
      <4>1. CASE stream' = stream
        BY <4>1
      <4>2. CASE stream' = [stream EXCEPT ![Caller[c]]["responses"] = "stopped"]
        <5>1. /\ stream \in [Runtimes -> [Topics -> StreamStates]]
              /\ Caller[c] \in Runtimes /\ "responses" \in Topics
          BY <1>0 DEF TypeOK, Topics
        <5>2. QED
          BY <4>2, <5>1
      <4>3. QED
        BY <3>1, <4>1, <4>2
    <3>3. QED
      BY <2>12, <3>2
  <2>14. NothingReadBeforePosition'
    BY <2>1, <2>3, <2>13 DEF IInv, NothingReadBeforePosition
  \* The entry is there only until the first response after the start.
  <2>15. FirstResponseDecides'
    <3> SUFFICES ASSUME NEW d \in Calls, future'[d] \in Answered
                 PROVE  /\ base[d] < Len(replies[d])
                        /\ future'[d] = "error" <=>
                              replies[d][base[d] + 1].kind = "error"
      BY <2>1 DEF FirstResponseDecides
    <3>1. CASE future'[d] = future[d]
      BY <3>1 DEF IInv, FirstResponseDecides
    <3>2. CASE future'[d] # future[d]
      <4>1. d = c /\ c \in pending
        BY <2>3, <2>4, <3>2
      <4>2. read[c] = base[c]
        BY <4>1 DEF IInv, PendingIsExact
      <4>3. read[c] < Len(replies[c])
        BY <1>5 DEF HandleReply
      <4>4. future'[c] = "error" <=> m.kind = "error"
        BY <2>4, <3>2, <4>1 DEF Outcome, DecodeFailure
      <4>5. QED
        BY <4>1, <4>2, <4>3, <4>4
    <3>3. QED
      BY <3>1, <3>2
  <2>8. NothingBeforeTheCall'
    BY <2>1, <2>3, <2>6 DEF IInv, NothingBeforeTheCall
  <2>9. ConsumedReplyResolves'
    BY <2>1, <2>3, <2>5 DEF IInv, ConsumedReplyResolves
  <2>10. ("blank" \notin Faults => AnswerIsGenuine)'
    <3> SUFFICES ASSUME "blank" \notin Faults, NEW d \in Calls,
                        future'[d] = "result"
                 PROVE  \E j \in executed' : CallOf(j) = d
                                             /\ HostOf(j) \in Hosts[d]
      BY DEF AnswerIsGenuine
    <3>1. CASE future[d] = "result"
      BY <2>1, <3>1 DEF IInv, AnswerIsGenuine
    <3>2. CASE future[d] # "result"
      <4>1. d = c /\ Outcome(m) = "result"
        BY <2>3, <2>4, <3>2 DEF DecodeFailure
      <4>2. m \in Reply
        BY <1>0, <2>2 DEF TypeOK
      <4>3. m.kind = "result"
        BY <2>2, <4>1, <4>2 DEF Outcome, Reply, IInv, RepliesAreGenuine
      <4>4. m.job \in executed /\ CallOf(m.job) = c
        BY <2>2, <4>3 DEF IInv, RepliesAreGenuine
      <4>5. QED
        BY <2>1, <4>1, <4>4 DEF IInv, OnlyHostsServe
    <3>3. QED
      BY <3>1, <3>2
  <2>11. QED
    BY <1>0, <2>1, <2>7, <2>8, <2>9, <2>10, <2>14, <2>15
    DEF IInv, OnlyHostsServe, RepliesAreGenuine, AnsweredIsWritten
<1>6. CASE RedeliverReply(c)
  <2>1. /\ UNCHANGED <<stream, call, pending, future, sendTask, job, executed,
                       replies, base>>
        /\ stream[Caller[c]]["responses"] = "running"
        /\ read[c] > base[c]
        /\ read'[c] = read[c] - 1
        /\ \A d \in Calls \ {c} : read'[d] = read[d]
    BY <1>0, <1>6 DEF RedeliverReply, TypeOK
  <2>2. NothingBeforeTheCall'
    BY <1>0, <2>1 DEF IInv, NothingBeforeTheCall, TypeOK
  <2>3. ConsumedReplyResolves'
    BY <1>0, <2>1 DEF IInv, ConsumedReplyResolves, TypeOK
  <2>4. NothingReadBeforePosition' /\ FirstResponseDecides'
    BY <2>1 DEF IInv, NothingReadBeforePosition, FirstResponseDecides
  <2>5. PendingIsExact'
    <3>1. c \notin pending
      BY <1>0, <2>1 DEF IInv, PendingIsExact, TypeOK
    <3>2. \A d \in pending : d # c /\ d \in Calls /\ read'[d] = read[d]
      BY <1>0, <2>1, <3>1 DEF TypeOK
    <3>3. QED
      BY <2>1, <3>2 DEF IInv, PendingIsExact
  <2>6. QED
    BY <1>0, <2>1, <2>2, <2>3, <2>4, <2>5
    DEF IInv, OnlyHostsServe, RepliesAreGenuine, AnsweredIsWritten,
        AnswerIsGenuine
<1>7. QED
  BY <1>1, <1>2, <1>3, <1>4, <1>5, <1>6 DEF CallStep

\* A job that writes a response appends one record under its call's id.
LEMMA WriteKeeps ==
    ASSUME IInv, NEW j \in Jobs, NEW kind \in {"result", "error", "blank"},
           kind = "result" => j \in executed,
           kind = "blank" => "blank" \in Faults,
           Write(j, kind), executed' = executed, UNCHANGED <<future, base>>
    PROVE  /\ RepliesAreGenuine'
           /\ replies'[CallOf(j)] # <<>>
           /\ \A d \in Calls \ {CallOf(j)} : replies'[d] = replies[d]
           /\ \A d \in Calls : replies[d] # <<>> => replies'[d] # <<>>
           /\ FirstResponseDecides'
<1> DEFINE c == CallOf(j)
           m == [kind |-> kind, job |-> j]
<1>1. c \in Calls
  BY JobParts
<1>2. m \in Reply
  BY DEF Reply
<1>3. replies \in [Calls -> Seq(Reply)]
  BY DEF IInv, TypeOK
<1>4. replies' = [replies EXCEPT ![c] = Append(replies[c], m)]
  BY DEF Write
<1>5. /\ replies'[c] = Append(replies[c], m)
      /\ \A d \in Calls \ {c} : replies'[d] = replies[d]
  BY <1>1, <1>3, <1>4
<1>6. /\ Len(Append(replies[c], m)) = Len(replies[c]) + 1
      /\ \A i \in DOMAIN Append(replies[c], m) :
            \/ i \in DOMAIN replies[c] /\ Append(replies[c], m)[i] = replies[c][i]
            \/ Append(replies[c], m)[i] = m
  BY <1>1, <1>2, <1>3
<1>7. replies'[c] # <<>>
  <2>1. Len(replies[c]) \in Nat
    BY <1>1, <1>3
  <2>2. Len(replies'[c]) # 0
    BY <1>5, <1>6, <2>1
  <2>3. QED
    BY <2>2
<1>8. RepliesAreGenuine'
  <2> SUFFICES ASSUME NEW d \in Calls, NEW i \in DOMAIN replies'[d]
               PROVE  /\ replies'[d][i].kind = "result" =>
                            /\ replies'[d][i].job \in executed
                            /\ CallOf(replies'[d][i].job) = d
                      /\ replies'[d][i].kind = "blank" => "blank" \in Faults
    BY DEF RepliesAreGenuine
  <2>1. CASE d = c /\ replies'[d][i] = m
    BY <2>1
  <2>2. CASE i \in DOMAIN replies[d] /\ replies'[d][i] = replies[d][i]
    BY <2>2 DEF IInv, RepliesAreGenuine
  <2>3. QED
    BY <1>5, <1>6, <2>1, <2>2
<1>9. FirstResponseDecides'
  <2> SUFFICES ASSUME NEW d \in Calls, future[d] \in Answered
               PROVE  /\ base[d] < Len(replies'[d])
                      /\ future[d] = "error" <=>
                            replies'[d][base[d] + 1].kind = "error"
    BY DEF FirstResponseDecides
  <2>1. base[d] < Len(replies[d]) /\ base[d] \in Nat
    BY DEF IInv, TypeOK, FirstResponseDecides
  <2>2. base[d] < Len(replies'[d])
        /\ replies'[d][base[d] + 1] = replies[d][base[d] + 1]
    <3>1. CASE d # c
      BY <1>5, <2>1, <3>1
    <3>2. CASE d = c
      <4>1. replies[c] \in Seq(Reply)
        BY <1>1, <1>3
      <4>2. base[d] + 1 \in 1..Len(replies[c])
        BY <2>1, <3>2, <4>1
      <4>3. Append(replies[c], m)[base[d] + 1] = replies[c][base[d] + 1]
        BY <1>2, <4>1, <4>2
      <4>4. QED
        BY <1>5, <1>6, <2>1, <3>2, <4>1, <4>2, <4>3
    <3>3. QED
      BY <3>1, <3>2
  <2>3. QED
    BY <2>2 DEF IInv, FirstResponseDecides
<1>10. QED
  BY <1>5, <1>7, <1>8, <1>9

\* So does a step of a host with one delivery of a request.
LEMMA JobStepInv ==
    ASSUME IInv, NEW j \in Jobs, JobStep(j)
    PROVE  IInv'
<1> USE ConstantsAssumption, JobParts DEF clientVars, callVars, topicVars
<1>0. TypeOK /\ TypeOK'
  BY JobStepType DEF IInv
\* What every step of a job but the writing ones has in common.
<1>1. ASSUME NEW n \in Jobs, call[CallOf(n)] # "idle",
             \A k \in Jobs \ {n} : job'[k] = job[k],
             job'[n] \notin {"none", "answered"},
             job'[n] \in {"handling", "replying"} =>
                 HostOf(n) \in Hosts[CallOf(n)],
             job'[n] = "replying" => n \in executed',
             executed \subseteq executed',
             executed' \subseteq executed \cup {n},
             n \in executed' => HostOf(n) \in Hosts[CallOf(n)],
             UNCHANGED <<stream, call, pending, future, sendTask, replies,
                         read, base>>
      PROVE  IInv'
  <2>1. NothingBeforeTheCall'
    BY <1>1 DEF IInv, NothingBeforeTheCall
  <2>2. OnlyHostsServe'
    BY <1>0, <1>1 DEF IInv, TypeOK, OnlyHostsServe
  <2>3. RepliesAreGenuine'
    BY <1>1 DEF IInv, RepliesAreGenuine
  <2>4. AnsweredIsWritten'
    BY <1>1 DEF IInv, AnsweredIsWritten
  <2>5. ("blank" \notin Faults => AnswerIsGenuine)'
    BY <1>1 DEF IInv, AnswerIsGenuine
  <2>6. QED
    BY <1>0, <1>1, <2>1, <2>2, <2>3, <2>4, <2>5
    DEF IInv, PendingIsExact, ConsumedReplyResolves, NothingReadBeforePosition,
        FirstResponseDecides
<1>2. ASSUME job[j] # "none" PROVE call[CallOf(j)] # "idle"
  BY <1>2 DEF IInv, NothingBeforeTheCall
<1>3. CASE HandleRequest(j)
  <2>1. /\ \A k \in Jobs \ {j} : job'[k] = job[k]
        /\ job'[j] = "lookup" /\ job[j] # "none"
        /\ UNCHANGED <<stream, call, pending, future, sendTask, executed,
                       replies, read, base>>
    BY <1>0, <1>3 DEF HandleRequest, TypeOK
  <2>2. QED
    BY <1>1, <1>2, <2>1 DEF IInv, OnlyHostsServe
<1>4. CASE LookupAgent(j)
  <2>1. /\ \A k \in Jobs \ {j} : job'[k] = job[k]
        /\ \/ job'[j] = "handling" /\ HostOf(j) \in Hosts[CallOf(j)]
           \/ job'[j] \in {"failing", "ignored"}
        /\ job[j] # "none"
        /\ UNCHANGED <<stream, call, pending, future, sendTask, executed,
                       replies, read, base>>
    BY <1>0, <1>4 DEF LookupAgent, TypeOK
  <2>2. QED
    BY <1>1, <1>2, <2>1 DEF IInv, OnlyHostsServe
<1>5. CASE RunAgent(j)
  <2>1. /\ \A k \in Jobs \ {j} : job'[k] = job[k]
        /\ job'[j] \in {"replying", "failing", "aborted"}
        /\ job[j] = "handling"
        /\ job'[j] = "replying" => j \in executed'
        /\ executed \subseteq executed' /\ executed' \subseteq executed \cup {j}
        /\ UNCHANGED <<stream, call, pending, future, sendTask, replies,
                         read, base>>
    BY <1>0, <1>5 DEF RunAgent, TypeOK
  <2>2. HostOf(j) \in Hosts[CallOf(j)]
    BY <2>1 DEF IInv, OnlyHostsServe
  <2>3. QED
    BY <1>1, <1>2, <2>1, <2>2
<1>6. CASE RedeliverRequest(j)
  <2>1. PICK n \in Jobs : /\ CallOf(n) = CallOf(j)
                          /\ job[n] = "none"
                          /\ job' = [job EXCEPT ![n] = "record"]
    BY <1>6 DEF RedeliverRequest
  <2>2. /\ \A k \in Jobs \ {n} : job'[k] = job[k]
        /\ job'[n] = "record"
        /\ job[j] # "none"
        /\ UNCHANGED <<stream, call, pending, future, sendTask, executed,
                       replies, read, base>>
    BY <1>0, <1>6, <2>1 DEF RedeliverRequest, TypeOK
  <2>3. QED
    BY <1>1, <1>2, <2>1, <2>2 DEF IInv, OnlyHostsServe
\* The steps that write a response.
<1>7. CASE SendReply(j) \/ SendError(j)
  <2>1. /\ \A k \in Jobs \ {j} : job'[k] = job[k]
        /\ job'[j] \in {"answered", "failing", "mute"}
        /\ job[j] \in {"replying", "failing"}
        /\ UNCHANGED <<stream, call, pending, future, sendTask, executed,
                       read, base>>
    BY <1>0, <1>7 DEF SendReply, AfterReply, SendError, TypeOK
  <2>2. \/ job'[j] # "answered" /\ UNCHANGED replies
        \/ \E kind \in {"result", "error", "blank"} :
              /\ Write(j, kind)
              /\ kind = "result" => job[j] = "replying"
              /\ kind = "blank" => "blank" \in Faults
    <3>1. CASE SendReply(j)
      BY <1>0, <3>1 DEF SendReply, AfterReply, SendOutcomes, TypeOK
    <3>2. CASE SendError(j)
      BY <1>0, <3>2 DEF SendError, SendOutcomes, ErrorKinds, TypeOK
    <3>3. QED
      BY <1>7, <3>1, <3>2
  <2>3. /\ RepliesAreGenuine' /\ FirstResponseDecides'
        /\ job'[j] = "answered" => replies'[CallOf(j)] # <<>>
        /\ \A d \in Calls \ {CallOf(j)} : replies'[d] = replies[d]
        /\ \A d \in Calls : replies[d] # <<>> => replies'[d] # <<>>
    <3>1. CASE job'[j] # "answered" /\ UNCHANGED replies
      BY <2>1, <3>1 DEF IInv, RepliesAreGenuine, FirstResponseDecides
    <3>2. CASE \E kind \in {"result", "error", "blank"} :
                 /\ Write(j, kind)
                 /\ kind = "result" => job[j] = "replying"
                 /\ kind = "blank" => "blank" \in Faults
      BY <2>1, <3>2, WriteKeeps DEF IInv, OnlyHostsServe
    <3>3. QED
      BY <2>2, <3>1, <3>2
  <2>4. NothingBeforeTheCall'
    BY <1>2, <2>1, <2>3 DEF IInv, NothingBeforeTheCall
  <2>5. OnlyHostsServe'
    BY <1>0, <2>1 DEF IInv, TypeOK, OnlyHostsServe
  <2>6. AnsweredIsWritten'
    BY <2>1, <2>3 DEF IInv, AnsweredIsWritten
  <2>7. ("blank" \notin Faults => AnswerIsGenuine)'
    BY <2>1 DEF IInv, AnswerIsGenuine
  <2>8. QED
    BY <1>0, <2>1, <2>3, <2>4, <2>5, <2>6, <2>7
    DEF IInv, PendingIsExact, ConsumedReplyResolves, NothingReadBeforePosition
<1>8. QED
  BY <1>3, <1>4, <1>5, <1>6, <1>7 DEF JobStep

\* The inductive invariant holds in every reachable state.
THEOREM Inductive == Spec => []IInv
<1>1. Init => IInv
  BY ConstantsAssumption
  DEF Init, IInv, TypeOK, Topics, StreamStates, CallStates, FutureStates,
      SendStates, JobStates, PendingIsExact, NothingBeforeTheCall,
      OnlyHostsServe, RepliesAreGenuine, AnsweredIsWritten, Answered,
      ConsumedReplyResolves, AnswerIsGenuine, NothingReadBeforePosition,
      FirstResponseDecides
<1>2. IInv /\ [Next]_vars => IInv'
  <2> SUFFICES ASSUME IInv, [Next]_vars PROVE IInv'
    OBVIOUS
  <2>1. CASE UNCHANGED vars
    BY <2>1
    DEF vars, IInv, TypeOK, PendingIsExact, NothingBeforeTheCall,
        OnlyHostsServe, RepliesAreGenuine, AnsweredIsWritten,
        ConsumedReplyResolves, AnswerIsGenuine, NothingReadBeforePosition,
        FirstResponseDecides
  <2>2. QED
    BY <2>1, StepCases, RuntimeStepInv, CallStepInv, JobStepInv
<1>3. QED
  BY <1>1, <1>2, PTL DEF Spec

-----------------------------------------------------------------------------
(* What follows from it                                                    *)

\* _pending_requests holds the entry of a waiting call until its future is
\* resolved, and otherwise only those of cancelled calls whose response has not
\* come and of calls whose payload could not be serialized.
THEOREM PendingExact == Spec => []PendingIsExact
<1>1. IInv => PendingIsExact
  BY DEF IInv
<1>2. QED
  BY <1>1, Inductive, PTL

\* Where no error text is empty, a call returns a result only if an agent on a
\* hosting runtime served this very call and returned.
THEOREM Genuine ==
    ASSUME "blank" \notin Faults
    PROVE  Spec => []AnswerIsGenuine
<1>1. IInv => AnswerIsGenuine
  BY DEF IInv
<1>2. QED
  BY <1>1, Inductive, PTL

\* A response that was consumed never leaves its call waiting.
THEOREM Consumed == Spec => []ConsumedReplyResolves
<1>1. IInv => ConsumedReplyResolves
  BY DEF IInv
<1>2. QED
  BY <1>1, Inductive, PTL

\* A call nothing can complete any more has met one of the listed failures.
THEOREM Stranding == Spec => []StrandedOnlyByFailure
<1>1. IInv => StrandedOnlyByFailure
  <2> SUFFICES ASSUME IInv, NEW c \in Calls, Stranded(c), ~Excused(c)
               PROVE  FALSE
    BY DEF StrandedOnlyByFailure
  <2>1. PICK j \in Jobs : /\ CallOf(j) = c
                          /\ job[j] \notin {"none", "ignored", "mute",
                                            "aborted", "lost"}
    BY DEF Excused
  <2>2. job[j] = "answered"
    BY <2>1 DEF Stranded, EndedJob
  <2>3. replies[c] # <<>>
    BY <2>1, <2>2 DEF IInv, AnsweredIsWritten
  <2>4. /\ replies[c] \in Seq(Reply) /\ read[c] = Len(replies[c])
        /\ base[c] = 0
    BY DEF Stranded, Excused, IInv, TypeOK
  <2>5. read[c] > base[c]
    BY <2>3, <2>4
  <2>6. QED
    BY <2>5 DEF IInv, ConsumedReplyResolves, Stranded
<1>2. QED
  BY <1>1, Inductive, PTL

\* The first response a caller's consumer meets decides how its call ends.
THEOREM FirstDecides == Spec => []FirstResponseDecides
<1>1. IInv => FirstResponseDecides
  BY DEF IInv
<1>2. QED
  BY <1>1, Inductive, PTL

-----------------------------------------------------------------------------
(* The contract                                                            *)

\* A step that changes no call's phase and serves nothing new is a stutter.
LEMMA SameCallStutters ==
    ASSUME UNCHANGED <<call, executed>>
    PROVE  UNCHANGED Contract!vars
  BY DEF Contract!vars, Phase, Served

\* Where no error text is empty, RequestReply implements RemoteCall.
THEOREM Implements ==
    ASSUME "blank" \notin Faults
    PROVE  Spec => ContractSpec
<1>1. Init => Contract!Init
  BY DEF Init, Contract!Init, Phase, PhaseOf, Served
<1>2. IInv /\ [Next]_vars => [Contract!Next]_(Contract!vars)
  <2> SUFFICES ASSUME IInv, [Next]_vars
               PROVE  Contract!Next \/ UNCHANGED Contract!vars
    OBVIOUS
  <2> USE DEF clientVars, callVars, topicVars
  <2>0. TypeOK
    BY DEF IInv
  <2>1. ASSUME NEW r \in Runtimes, RuntimeStep(r)
        PROVE  Contract!Next \/ UNCHANGED Contract!vars
    <3>1. CASE Crash(r)
      <4> DEFINE cs == {c \in Calls : Caller[c] = r /\ call[c] = "waiting"}
      <4>1. \A c \in cs : Phase[c] = "asked"
        BY DEF Phase, PhaseOf
      <4>2. Phase' = [c \in Calls |-> IF c \in cs THEN "failed" ELSE Phase[c]]
        BY <3>1 DEF Crash, Phase, PhaseOf
      <4>3. Served' = Served
        BY <3>1 DEF Crash, Served
      <4>4. Contract!Fail(cs)
        BY <4>1, <4>2, <4>3 DEF Contract!Fail
      <4>5. cs \in SUBSET Calls
        OBVIOUS
      <4>6. QED
        BY <4>4, <4>5 DEF Contract!Next
    <3>2. CASE ~Crash(r)
      <4>1. UNCHANGED <<call, executed>>
        BY <2>1, <3>2
        DEF RuntimeStep, StartClient, BeginStop, FinishStop, PositionRequests,
            PositionResponses
      <4>2. QED
        BY <4>1, SameCallStutters
    <3>3. QED
      BY <3>1, <3>2
  <2>2. ASSUME NEW c \in Calls, CallStep(c)
        PROVE  Contract!Next \/ UNCHANGED Contract!vars
    <3>1. CASE Invoke(c)
      <4>1. Served' = Served /\ Phase[c] = "idle"
        BY <3>1 DEF Invoke, Served, Phase, PhaseOf
      <4>2. call'[c] \in {"refused", "waiting", "malformed"}
            /\ \A d \in Calls \ {c} : call'[d] = call[d]
        BY <2>0, <3>1 DEF Invoke, TypeOK
      <4>3. \/ Phase' = [Phase EXCEPT ![c] = "asked"]
            \/ Phase' = [Phase EXCEPT ![c] = "failed"]
        BY <4>2 DEF Phase, PhaseOf
      <4>4. Contract!Ask(c) \/ Contract!Refuse(c)
        BY <4>1, <4>3 DEF Contract!Ask, Contract!Refuse
      <4>5. QED
        BY <4>4 DEF Contract!Next
    <3>2. CASE Resume(c) \/ Cancel(c)
      <4>1. Served' = Served /\ Phase[c] = "asked"
        BY <3>2 DEF Resume, Cancel, Served, Phase, PhaseOf
      <4>2. /\ \A d \in Calls \ {c} : call'[d] = call[d]
            /\ \/ call'[c] = "returned" /\ future[c] = "result"
               \/ call'[c] \in {"raised", "cancelled"}
        BY <2>0, <3>2 DEF Resume, Cancel, TypeOK
      <4>3. CASE call'[c] = "returned" /\ future[c] = "result"
        <5>1. Phase' = [Phase EXCEPT ![c] = "returned"]
          BY <4>2, <4>3 DEF Phase, PhaseOf
        <5>2. c \in Served
          BY <4>3 DEF IInv, AnswerIsGenuine, Served
        <5>3. QED
          BY <4>1, <5>1, <5>2 DEF Contract!Return, Contract!Next
      <4>4. CASE call'[c] \in {"raised", "cancelled"}
        <5>1. Phase' = [d \in Calls |-> IF d \in {c} THEN "failed" ELSE Phase[d]]
          BY <4>2, <4>4 DEF Phase, PhaseOf
        <5>2. Contract!Fail({c})
          BY <4>1, <5>1 DEF Contract!Fail
        <5>3. QED
          BY <5>2 DEF Contract!Next
      <4>5. QED
        BY <4>2, <4>3, <4>4
    <3>3. CASE BeginSend(c) \/ EndSend(c) \/ HandleReply(c) \/ RedeliverReply(c)
      <4>1. UNCHANGED <<call, executed>>
        BY <3>3 DEF BeginSend, EndSend, HandleReply, RedeliverReply
      <4>2. QED
        BY <4>1, SameCallStutters
    <3>4. QED
      BY <2>2, <3>1, <3>2, <3>3 DEF CallStep
  <2>3. ASSUME NEW j \in Jobs, JobStep(j)
        PROVE  Contract!Next \/ UNCHANGED Contract!vars
    <3>1. CASE RunAgent(j)
      <4>1. CASE executed' = executed
        BY <3>1, <4>1, SameCallStutters DEF RunAgent
      <4>2. CASE executed' = executed \cup {j}
        <5>1. CallOf(j) \in Calls /\ call[CallOf(j)] # "idle"
          BY <3>1, JobParts DEF RunAgent, IInv, NothingBeforeTheCall
        <5>2. Served' = Served \cup {CallOf(j)}
          BY <4>2 DEF Served
        <5>3. Phase[CallOf(j)] # "idle" /\ Phase' = Phase
          BY <3>1, <5>1 DEF RunAgent, Phase, PhaseOf
        <5>4. Contract!Serve(CallOf(j))
          BY <5>2, <5>3 DEF Contract!Serve
        <5>5. QED
          BY <5>1, <5>4 DEF Contract!Next
      <4>3. QED
        BY <3>1, <4>1, <4>2 DEF RunAgent
    <3>2. CASE ~RunAgent(j)
      <4>1. UNCHANGED <<call, executed>>
        BY <2>3, <3>2
        DEF JobStep, HandleRequest, LookupAgent, SendReply, SendError,
            RedeliverRequest
      <4>2. QED
        BY <4>1, SameCallStutters
    <3>3. QED
      BY <3>1, <3>2
  <2>4. CASE UNCHANGED vars
    BY <2>4, SameCallStutters DEF vars
  <2>5. QED
    BY <2>1, <2>2, <2>3, <2>4, StepCases
<1>3. QED
  BY <1>1, <1>2, Inductive, PTL DEF Spec, ContractSpec, Contract!Spec
=============================================================================
