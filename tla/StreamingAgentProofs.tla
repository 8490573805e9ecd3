------------------------- MODULE StreamingAgentProofs -------------------------
(***************************************************************************)
(* Proofs about StreamingAgent for every set of agents, calls, consumer    *)
(* groups and faults: _pending_requests is exact across closes and         *)
(* repeated responses, the stream of an agent only fails for a call that   *)
(* was cancelled or a record that cannot be read, and the agent implements *)
(* the contract of a remote call.                                          *)
(***************************************************************************)
EXTENDS StreamingAgent, TLAPS

\* A call that is not made has no request and nobody is asked for it.
NothingBeforeTheCall ==
    \A c \in Calls : call[c] = "idle" => sendTask[c] = "none" /\ c \notin asked

\* What the processor is asked, it answers after.
AnswersAreAsked == \A c \in Calls : answers[c] > 0 => c \in asked

\* A result is made of a response under the call's own id.
ResultsAreAnswers == \A c \in Calls : future[c] = "result" => answers[c] > 0

\* A consumer that runs, or has failed, is of a group with a position, and no
\* group is given what was written before it started.
GroupsGoOn ==
    /\ \A a \in Agents : stream[a] # "starting" => GroupOf[a] \in known
    /\ \A g \in Groups, c \in Calls : base[g][c] <= read[g][c]

IInv ==
    /\ TypeOK
    /\ GroupsGoOn
    /\ PendingIsExact
    /\ StreamFailsForCause
    /\ NothingBeforeTheCall
    /\ AnswersAreAsked
    /\ ResultsAreAnswers

-----------------------------------------------------------------------------
(* Types                                                                   *)

\* The sends an agent waits for are calls.
LEMMA SendsAreCalls == \A a \in Agents : ActiveSends(a) \in SUBSET Calls
  BY DEF ActiveSends

\* What a stop or a close waits for is well typed.
LEMMA DrainType ==
    ASSUME TypeOK, NEW a \in Agents, NEW w \in Waits, NEW cs \in SUBSET Calls,
           drain' = [drain EXCEPT ![a][w] = cs]
    PROVE  drain' \in [Agents -> [Waits -> SUBSET Calls]]
  BY DEF TypeOK

\* A group that takes its position at the end of the topic is well typed.
LEMMA PositionType ==
    ASSUME NEW Row, NEW f \in [Groups -> Row], NEW g \in Groups, NEW r \in Row
    PROVE  [f EXCEPT ![g] = r] \in [Groups -> Row]
  OBVIOUS

\* Starting, stopping and closing an agent keeps the types.
LEMMA AgentStepType ==
    ASSUME TypeOK, NEW a \in Agents, AgentStep(a)
    PROVE  TypeOK'
<1> USE StreamingAssumption
    DEF TypeOK, lifeVars, callVars, topicVars, groupVars
<1>1. CASE Start(a)
  BY <1>1 DEF Start
<1>2. CASE Position(a)
  <2>1. GroupOf[a] \in Groups
    OBVIOUS
  <2>2. stream' \in [Agents -> StreamStates] /\ known' \subseteq Groups
    BY <1>2, <2>1 DEF Position, StreamStates
  <2>3. \/ read' = read /\ base' = base
        \/ /\ read' = [read EXCEPT ![GroupOf[a]] = answers]
           /\ base' = [base EXCEPT ![GroupOf[a]] = answers]
    BY <1>2 DEF Position
  <2>4. /\ read' \in [Groups -> [Calls -> 0..MaxAnswers]]
        /\ base' \in [Groups -> [Calls -> 0..MaxAnswers]]
    <3>1. answers \in [Calls -> 0..MaxAnswers]
      OBVIOUS
    <3>2. /\ read \in [Groups -> [Calls -> 0..MaxAnswers]]
          /\ base \in [Groups -> [Calls -> 0..MaxAnswers]]
      OBVIOUS
    <3>3. /\ [read EXCEPT ![GroupOf[a]] = answers] \in [Groups -> [Calls -> 0..MaxAnswers]]
          /\ [base EXCEPT ![GroupOf[a]] = answers] \in [Groups -> [Calls -> 0..MaxAnswers]]
      BY ONLY <2>1, <3>1, <3>2, PositionType
    <3> QED
      BY ONLY <2>3, <3>2, <3>3
  <2> QED
    BY <1>2, <2>2, <2>4 DEF Position
<1>3. CASE BeginStop(a)
  <2>1. drain' \in [Agents -> [Waits -> SUBSET Calls]]
    BY <1>3, SendsAreCalls, DrainType DEF BeginStop, Waits
  <2> QED
    BY <1>3, <2>1 DEF BeginStop
<1>4. CASE FinishStop(a)
  <2>1. drain' \in [Agents -> [Waits -> SUBSET Calls]]
    BY <1>4, DrainType DEF FinishStop, Waits
  <2> QED
    BY <1>4, <2>1 DEF FinishStop, StreamStates
<1>5. CASE BeginClose(a)
  <2>1. drain' \in [Agents -> [Waits -> SUBSET Calls]]
    BY <1>5, SendsAreCalls, DrainType DEF BeginClose, Waits
  <2>2. future' \in [Calls -> FutureStates]
    BY <1>5 DEF BeginClose, EndAll, FutureStates
  <2> QED
    BY <1>5, <2>1, <2>2 DEF BeginClose
<1>6. CASE FinishClose(a)
  <2>1. drain' \in [Agents -> [Waits -> SUBSET Calls]]
    BY <1>6, DrainType DEF FinishClose, Waits
  <2> QED
    BY <1>6, <2>1 DEF FinishClose
<1> QED
  BY <1>1, <1>2, <1>3, <1>4, <1>5, <1>6 DEF AgentStep

\* So does a step of a call, or of what happens to its request and responses.
LEMMA CallStepType ==
    ASSUME TypeOK, NEW c \in Calls, CallStep(c)
    PROVE  TypeOK'
<1> USE StreamingAssumption
    DEF TypeOK, lifeVars, callVars, topicVars, groupVars
<1>1. CASE OnMessage(c)
  BY <1>1 DEF OnMessage, CallStates, FutureStates, SendStates
<1>2. CASE BeginSend(c)
  BY <1>2 DEF BeginSend, SendStates
<1>3. CASE EndSend(c)
  BY <1>3 DEF EndSend, SendStates
<1>4. CASE Resume(c)
  BY <1>4 DEF Resume, CallStates
<1>5. CASE Cancel(c)
  BY <1>5 DEF Cancel, CallStates, FutureStates
<1>6. CASE Answer(c)
  <2>1. answers[c] + 1 \in 1..MaxAnswers
    BY <1>6 DEF Answer
  <2>2. answers' \in [Calls -> 0..MaxAnswers]
    BY <1>6, <2>1 DEF Answer
  <2>3. unreadable' \subseteq Calls \X (1..MaxAnswers)
    BY <1>6, <2>1 DEF Answer
  <2> QED
    BY <1>6, <2>2, <2>3 DEF Answer
<1>7. ASSUME NEW a \in Agents, HandleEvent(a, c) \/ DeserializerRaises(a, c)
      PROVE  TypeOK'
  <2>1. GroupOf[a] \in Groups
    OBVIOUS
  <2>2. read' \in [Groups -> [Calls -> 0..MaxAnswers]]
    <3>1. Given(a, c)
      BY <1>7 DEF HandleEvent, DeserializerRaises
    <3>2. /\ read' = [read EXCEPT ![GroupOf[a]][c] = read[GroupOf[a]][c] + 1]
          /\ read[GroupOf[a]][c] < answers[c]
      BY <3>1 DEF Given
    <3>3. read[GroupOf[a]][c] + 1 \in 0..MaxAnswers
      BY <2>1, <3>2
    <3> QED
      BY <2>1, <3>2, <3>3
  <2>3. Outcomes \subseteq FutureStates
    BY DEF Outcomes, FutureStates
  <2>5. future' \in [Calls -> FutureStates]
    BY <1>7, <2>3 DEF HandleEvent, DeserializerRaises
  <2>6. stream' \in [Agents -> StreamStates]
    BY <1>7 DEF HandleEvent, DeserializerRaises, StreamStates
  <2>4. pending' \subseteq Calls
    BY <1>7 DEF HandleEvent, DeserializerRaises, Pop
  <2> QED
    BY <1>7, <2>2, <2>4, <2>5, <2>6 DEF HandleEvent, DeserializerRaises
<1>8. ASSUME NEW g \in Groups, Redeliver(g, c)
      PROVE  TypeOK'
  BY <1>8 DEF Redeliver
<1> QED
  BY <1>1, <1>2, <1>3, <1>4, <1>5, <1>6, <1>7, <1>8 DEF CallStep

-----------------------------------------------------------------------------
(* The invariant                                                           *)

\* Before anything is called there are no entries, streams or responses.
LEMMA InitIInv == Init => IInv
<1> SUFFICES ASSUME Init PROVE IInv
  OBVIOUS
<1> USE StreamingAssumption DEF Init
<1>1. TypeOK
  BY DEF TypeOK, Waits, StreamStates, CallStates, FutureStates, SendStates
<1> QED
  BY <1>1 DEF IInv, PendingIsExact, StreamFailsForCause, GroupsGoOn,
              NothingBeforeTheCall, AnswersAreAsked, ResultsAreAnswers

\* What a start, stop or close does to the calls: close() ends the pending ones
\* of its agent that nobody has cancelled, and takes them out of the table.
LEMMA AgentStepIInv ==
    ASSUME IInv, NEW a \in Agents, AgentStep(a)
    PROVE  IInv'
<1> USE DEF lifeVars, callVars, topicVars, groupVars
<1>1. TypeOK'
  BY AgentStepType DEF IInv
<1>2. UNCHANGED <<call, sendTask, asked, answers, unreadable>>
  BY DEF AgentStep, Start, Position, BeginStop, FinishStop, BeginClose, FinishClose
<1>3. NothingBeforeTheCall' /\ AnswersAreAsked'
  BY <1>2 DEF IInv, NothingBeforeTheCall, AnswersAreAsked
<1>4. StreamFailsForCause'
  <2>1. \A b \in Agents : stream'[b] = "failed" => stream[b] = "failed"
    BY DEF AgentStep, Start, Position, BeginStop, FinishStop, BeginClose,
           FinishClose, IInv, TypeOK
  <2>2. \A b \in Agents : stream[b] = "failed" => base'[GroupOf[b]] = base[GroupOf[b]]
    <3>1. CASE Position(a)
      <4>1. base' = base \/ (GroupOf[a] \notin known /\ base' = [base EXCEPT ![GroupOf[a]] = answers])
        BY <3>1 DEF Position
      <4> QED
        BY <4>1, StreamingAssumption DEF IInv, TypeOK, GroupsGoOn
    <3>2. CASE ~Position(a)
      BY <3>2 DEF AgentStep, Start, BeginStop, FinishStop, BeginClose, FinishClose
    <3> QED
      BY <3>1, <3>2
  <2> QED
    BY <1>2, <2>1, <2>2 DEF IInv, StreamFailsForCause
<1>7. GroupsGoOn'
  <2>1. CASE Position(a)
    <3>1. known' = known \cup {GroupOf[a]} /\ stream' = [stream EXCEPT ![a] = "running"]
      BY <2>1 DEF Position
    <3>2. \A b \in Agents : stream'[b] # "starting" => GroupOf[b] \in known'
      BY <3>1 DEF IInv, TypeOK, GroupsGoOn
    <3>3. \/ UNCHANGED <<read, base>>
          \/ /\ read' = [read EXCEPT ![GroupOf[a]] = answers]
             /\ base' = [base EXCEPT ![GroupOf[a]] = answers]
      BY <2>1 DEF Position
    <3>4. \A c \in Calls : answers[c] <= answers[c]
      BY StreamingAssumption DEF IInv, TypeOK
    <3>5. \A g \in Groups, c \in Calls : base'[g][c] <= read'[g][c]
      BY <3>3, <3>4 DEF IInv, TypeOK, GroupsGoOn
    <3> QED
      BY <3>2, <3>5 DEF GroupsGoOn
  <2>2. CASE ~Position(a)
    <3>1. UNCHANGED <<read, base, known>>
      BY <2>2 DEF AgentStep, Start, BeginStop, FinishStop, BeginClose, FinishClose
    <3>2. \A b \in Agents : stream'[b] # "starting" => stream[b] # "starting"
      BY <2>2 DEF AgentStep, Start, BeginStop, FinishStop, BeginClose,
                  FinishClose, IInv, TypeOK
    <3> QED
      BY <3>1, <3>2 DEF IInv, GroupsGoOn
  <2> QED
    BY <2>1, <2>2
<1>5. CASE BeginClose(a)
  <2>1. \A c \in Calls :
           future'[c] = IF c \in pending /\ AgentOf[c] = a /\ future[c] = "open"
                        THEN "error" ELSE future[c]
    BY <1>5 DEF BeginClose, EndAll
  <2>2. pending' = pending \ {c \in pending : AgentOf[c] = a}
    BY <1>5 DEF BeginClose
  <2>3. PendingIsExact' /\ ResultsAreAnswers'
    BY <1>2, <2>1, <2>2
       DEF IInv, TypeOK, PendingIsExact, ResultsAreAnswers
  <2> QED
    BY <1>1, <1>3, <1>4, <1>7, <2>3 DEF IInv
<1>6. CASE ~BeginClose(a)
  <2>1. UNCHANGED <<pending, future>>
    BY <1>6 DEF AgentStep, Start, Position, BeginStop, FinishStop, FinishClose
  <2>2. PendingIsExact' /\ ResultsAreAnswers'
    BY <1>2, <2>1 DEF IInv, PendingIsExact, ResultsAreAnswers
  <2> QED
    BY <1>1, <1>3, <1>4, <1>7, <2>2 DEF IInv
<1> QED
  BY <1>5, <1>6

\* What a call does to the table: it enters its future, and leaves it there when
\* it is cancelled.
LEMMA CallerIInv ==
    ASSUME IInv, NEW c \in Calls, OnMessage(c) \/ Resume(c) \/ Cancel(c)
    PROVE  IInv'
<1> USE DEF lifeVars, callVars, topicVars, groupVars
<1>1. TypeOK'
  BY CallStepType DEF IInv, CallStep
<1>2. UNCHANGED <<stream, asked, answers, unreadable, known, read, base>>
  BY DEF OnMessage, Resume, Cancel
<1>3. /\ call[c] \in {"idle", "waiting"}
      /\ \A d \in Calls : call[d] = "cancelled" => call'[d] = "cancelled"
  BY DEF IInv, TypeOK, OnMessage, Resume, Cancel
<1>4. NothingBeforeTheCall' /\ AnswersAreAsked'
  BY <1>2 DEF IInv, TypeOK, NothingBeforeTheCall, AnswersAreAsked, OnMessage,
              Resume, Cancel
<1>5. StreamFailsForCause'
  BY <1>2, <1>3 DEF IInv, StreamFailsForCause
<1>6. PendingIsExact'
  BY <1>3 DEF IInv, TypeOK, PendingIsExact, OnMessage, Resume, Cancel
<1>7. ResultsAreAnswers'
  BY <1>2 DEF IInv, TypeOK, ResultsAreAnswers, OnMessage, Resume, Cancel
<1>8. GroupsGoOn'
  BY <1>2 DEF IInv, GroupsGoOn
<1> QED
  BY <1>1, <1>4, <1>5, <1>6, <1>7, <1>8 DEF IInv

\* A request on its way, its answers and their redelivery leave the table alone.
LEMMA TransportIInv ==
    ASSUME IInv, NEW c \in Calls,
           BeginSend(c) \/ EndSend(c) \/ Answer(c) \/ \E g \in Groups : Redeliver(g, c)
    PROVE  IInv'
<1> USE DEF lifeVars, callVars, topicVars, groupVars
<1>1. TypeOK'
  BY CallStepType DEF IInv, CallStep
<1>2. UNCHANGED <<stream, call, pending, future>>
  BY DEF BeginSend, EndSend, Answer, Redeliver
<1>3. PendingIsExact' /\ StreamFailsForCause'
  <2>1. base' = base /\ unreadable \subseteq unreadable'
    BY DEF BeginSend, EndSend, Answer, Redeliver
  <2> QED
    BY <1>2, <2>1 DEF IInv, PendingIsExact, StreamFailsForCause
<1>7. GroupsGoOn'
  <2>1. base' = base /\ known' = known
    BY DEF BeginSend, EndSend, Answer, Redeliver
  <2>2. \/ read' = read
        \/ \E g \in Groups : /\ read[g][c] > base[g][c]
                             /\ read' = [read EXCEPT ![g][c] = read[g][c] - 1]
    BY DEF BeginSend, EndSend, Answer, Redeliver
  <2>3. \A g \in Groups, d \in Calls : base[g][d] <= read'[g][d]
    <3>1. /\ read \in [Groups -> [Calls -> 0..MaxAnswers]]
          /\ \A g \in Groups, d \in Calls :
                read[g][d] \in Nat /\ base[g][d] \in Nat /\ base[g][d] <= read[g][d]
      BY StreamingAssumption DEF IInv, TypeOK, GroupsGoOn
    <3>2. CASE read' = read
      BY <3>1, <3>2
    <3>3. ASSUME NEW g \in Groups, read[g][c] > base[g][c],
                 read' = [read EXCEPT ![g][c] = read[g][c] - 1]
          PROVE  \A h \in Groups, d \in Calls : base[h][d] <= read'[h][d]
      <4>1. \A h \in Groups, d \in Calls :
               read'[h][d] = IF h = g /\ d = c THEN read[g][c] - 1 ELSE read[h][d]
        BY ONLY <3>1, <3>3, c \in Calls
      <4> QED
        BY ONLY <3>1, <3>3, <4>1
    <3> QED
      BY <2>2, <3>2, <3>3
  <2> QED
    BY <1>2, <2>1, <2>3 DEF IInv, GroupsGoOn
<1>4. /\ asked \subseteq asked'
      /\ \A d \in Calls : answers'[d] >= answers[d]
      /\ \A d \in Calls : answers'[d] > 0 => answers[d] > 0 \/ d \in asked
  <2>1. CASE Answer(c)
    BY <2>1, StreamingAssumption DEF IInv, TypeOK, Answer
  <2>2. CASE ~Answer(c)
    <3>1. answers' = answers /\ asked \subseteq asked'
      BY <2>2 DEF BeginSend, EndSend, Redeliver
    <3>2. \A d \in Calls : answers[d] \in 0..MaxAnswers
      BY DEF IInv, TypeOK
    <3> QED
      BY <3>1, <3>2, StreamingAssumption
  <2> QED
    BY <2>1, <2>2
<1>5. AnswersAreAsked' /\ ResultsAreAnswers'
  BY <1>1, <1>2, <1>4, StreamingAssumption
     DEF IInv, TypeOK, AnswersAreAsked, ResultsAreAnswers
<1>6. NothingBeforeTheCall'
  BY <1>2 DEF IInv, TypeOK, NothingBeforeTheCall, AnswersAreAsked, BeginSend,
              EndSend, Answer, Redeliver
<1> QED
  BY <1>1, <1>3, <1>5, <1>6, <1>7 DEF IInv

\* A group that is given a response goes one further.
LEMMA GivenGroupsGoOn ==
    ASSUME IInv, NEW a \in Agents, NEW c \in Calls, Given(a, c),
           UNCHANGED <<known, base>>,
           \A b \in Agents : stream'[b] # "starting" => stream[b] # "starting"
    PROVE  /\ GroupsGoOn'
           /\ answers[c] > 0
           /\ base[GroupOf[a]][c] < read[GroupOf[a]][c] + 1
<1>1. /\ GroupOf[a] \in Groups
      /\ \A g \in Groups, d \in Calls :
            read[g][d] \in Nat /\ base[g][d] \in Nat /\ base[g][d] <= read[g][d]
      /\ \A d \in Calls : answers[d] \in Nat
  BY StreamingAssumption DEF IInv, TypeOK, GroupsGoOn
<1>2. read' = [read EXCEPT ![GroupOf[a]][c] = read[GroupOf[a]][c] + 1]
  BY DEF Given
<1>3. \A g \in Groups, d \in Calls : base[g][d] <= read'[g][d]
  BY <1>1, <1>2 DEF IInv, TypeOK
<1>4. GroupsGoOn'
  BY <1>3 DEF IInv, GroupsGoOn
<1> QED
  BY <1>1, <1>4 DEF Given

\* A response resolves an open future, and fails the stream on a cancelled one.
LEMMA HandleEventIInv ==
    ASSUME IInv, NEW a \in Agents, NEW c \in Calls, HandleEvent(a, c)
    PROVE  IInv'
<1> USE DEF lifeVars, callVars, topicVars, groupVars
<1>1. TypeOK'
  BY CallStepType DEF IInv, CallStep
<1>2. UNCHANGED <<call, sendTask, asked, answers, unreadable, known, base>>
  BY DEF HandleEvent
<1>3. NothingBeforeTheCall' /\ AnswersAreAsked'
  BY <1>2 DEF IInv, NothingBeforeTheCall, AnswersAreAsked
<1>5. \/ /\ UNCHANGED <<pending, future, stream>>
      \/ /\ future[c] = "open" /\ stream' = stream
         /\ pending' = pending \ {c}
         /\ \E o \in {"result", "error"} : future' = [future EXCEPT ![c] = o]
      \/ /\ c \in pending /\ future[c] # "open" /\ AgentOf[c] = a
         /\ pending' = pending \ {c} /\ future' = future
         /\ stream' = [stream EXCEPT ![a] = "failed"]
  BY DEF HandleEvent, Pop, Outcomes
<1>4. answers[c] > 0 /\ GroupsGoOn'
  <2>1. stream[a] = "running" /\ Given(a, c)
    BY DEF HandleEvent, Given
  <2>2. \A b \in Agents : stream'[b] # "starting" => stream[b] # "starting"
    BY <1>5, <2>1 DEF IInv, TypeOK
  <2> QED
    BY <1>2, <2>1, <2>2, GivenGroupsGoOn
<1>6. PendingIsExact'
  BY <1>2, <1>5 DEF IInv, TypeOK, PendingIsExact
<1>7. ResultsAreAnswers'
  BY <1>2, <1>4, <1>5 DEF IInv, TypeOK, ResultsAreAnswers
<1>8. StreamFailsForCause'
  <2>1. c \in pending /\ future[c] # "open" => call[c] = "cancelled"
    BY DEF IInv, PendingIsExact
  <2> QED
    BY <1>2, <1>5, <2>1 DEF IInv, TypeOK, StreamFailsForCause
<1> QED
  BY <1>1, <1>3, <1>4, <1>6, <1>7, <1>8 DEF IInv

\* A response that cannot be read fails the stream and leaves the table alone.
LEMMA DeserializerIInv ==
    ASSUME IInv, NEW a \in Agents, NEW c \in Calls, DeserializerRaises(a, c)
    PROVE  IInv'
<1> USE DEF lifeVars, callVars, topicVars, groupVars
<1>1. TypeOK'
  BY CallStepType DEF IInv, CallStep
<1>2. /\ UNCHANGED <<call, sendTask, asked, answers, pending, future>>
      /\ UNCHANGED <<unreadable, known, base>>
  BY DEF DeserializerRaises
<1>3. /\ NothingBeforeTheCall' /\ AnswersAreAsked' /\ PendingIsExact'
      /\ ResultsAreAnswers'
  BY <1>2 DEF IInv, NothingBeforeTheCall, AnswersAreAsked, PendingIsExact,
              ResultsAreAnswers
<1>4. /\ Given(a, c) /\ stream[a] = "running"
      /\ stream' = [stream EXCEPT ![a] = "failed"]
      /\ <<c, read[GroupOf[a]][c] + 1>> \in unreadable
  BY DEF DeserializerRaises, Given, NextResponse
<1>5. /\ GroupsGoOn' /\ base[GroupOf[a]][c] < read[GroupOf[a]][c] + 1
  <2>1. \A b \in Agents : stream'[b] # "starting" => stream[b] # "starting"
    BY <1>4 DEF IInv, TypeOK
  <2> QED
    BY <1>2, <1>4, <2>1, GivenGroupsGoOn
<1>6. \E r \in unreadable : base[GroupOf[a]][r[1]] < r[2]
  BY <1>4, <1>5
<1>7. StreamFailsForCause'
  BY <1>2, <1>4, <1>6 DEF IInv, TypeOK, StreamFailsForCause
<1> QED
  BY <1>1, <1>3, <1>5, <1>7 DEF IInv

\* Every step keeps the invariant.
LEMMA NextIInv == IInv /\ [Next]_vars => IInv'
<1> SUFFICES ASSUME IInv, [Next]_vars PROVE IInv'
  OBVIOUS
<1>1. CASE UNCHANGED vars
  BY <1>1 DEF vars, IInv, TypeOK, PendingIsExact, StreamFailsForCause,
              GroupsGoOn, NothingBeforeTheCall, AnswersAreAsked,
              ResultsAreAnswers
<1> QED
  BY <1>1, AgentStepIInv, CallerIInv, TransportIInv, HandleEventIInv,
     DeserializerIInv
     DEF Next, CallStep

\* The invariant the theorems below follow from holds in every reachable state.
THEOREM Inductive == Spec => []IInv
  BY InitIInv, NextIInv, PTL DEF Spec

-----------------------------------------------------------------------------
(* What follows from it                                                    *)

\* Every variable keeps its type, and no group is past the end of the responses
\* under an id (kafka_streaming_agent.py).
THEOREM TypeCorrect == Spec => []TypeOK
<1>1. IInv => TypeOK
  BY DEF IInv
<1> QED
  BY <1>1, Inductive, PTL

\* _pending_requests holds every unresolved future, and nothing but these and
\* the futures of cancelled calls, also across close() and repeated responses
\* (kafka_streaming_agent.py 114-169, 200-281).
THEOREM PendingExact == Spec => []PendingIsExact
<1>1. IInv => PendingIsExact
  BY DEF IInv
<1> QED
  BY <1>1, Inductive, PTL

\* The stream of an agent only fails if one of its calls was cancelled, or on a
\* record the deserializer raises for (kafka_streaming_agent.py 264-281,
\* events_serdes.py 54-64).
THEOREM FailsForCause == Spec => []StreamFailsForCause
<1>1. IInv => StreamFailsForCause
  BY DEF IInv
<1> QED
  BY <1>1, Inductive, PTL

-----------------------------------------------------------------------------
(* The contract                                                            *)

\* What the contract sees.
Phase == [c \in Calls |-> PhaseOf(call[c])]
Served == {c \in Calls : answers[c] > 0}

\* A step that leaves the calls where they are and answers none is a stutter of
\* the contract.
LEMMA SameCallStutters ==
    ASSUME UNCHANGED <<call, answers>>
    PROVE  UNCHANGED Contract!vars
  BY DEF Contract!vars

\* The step of a call that begins, returns, raises or is cancelled is one of the
\* contract.
LEMMA CallerImplements ==
    ASSUME IInv, NEW c \in Calls, OnMessage(c) \/ Resume(c) \/ Cancel(c)
    PROVE  Contract!Next
<1> USE DEF lifeVars, callVars, topicVars
<1>1. Served' = Served
  BY DEF OnMessage, Resume, Cancel, Served
<1>2. \A d \in Calls \ {c} : call'[d] = call[d]
  BY DEF IInv, TypeOK, OnMessage, Resume, Cancel
<1>3. CASE OnMessage(c)
  <2>1. call[c] = "idle" /\ call'[c] \in {"waiting", "malformed"}
    BY <1>3 DEF IInv, TypeOK, OnMessage
  <2>2. /\ Phase[c] = "idle"
        /\ \/ Phase' = [Phase EXCEPT ![c] = "asked"]
           \/ Phase' = [Phase EXCEPT ![c] = "failed"]
    BY <1>2, <2>1 DEF Phase, PhaseOf
  <2>3. Contract!Ask(c) \/ Contract!Refuse(c)
    BY <1>1, <2>2 DEF Contract!Ask, Contract!Refuse, Phase, Served
  <2> QED
    BY <2>3 DEF Contract!Next
<1>4. CASE Resume(c) /\ future[c] = "result"
  <2>1. call[c] = "waiting" /\ call'[c] = "returned" /\ c \in Served
    BY <1>4 DEF IInv, TypeOK, ResultsAreAnswers, Resume, Served
  <2>2. Phase[c] = "asked" /\ Phase' = [Phase EXCEPT ![c] = "returned"]
    BY <1>2, <2>1 DEF Phase, PhaseOf
  <2>3. Contract!Return(c)
    BY <1>1, <2>1, <2>2 DEF Contract!Return, Phase, Served
  <2> QED
    BY <2>3 DEF Contract!Next
<1>5. CASE Cancel(c) \/ (Resume(c) /\ future[c] # "result")
  <2>1. call[c] = "waiting" /\ call'[c] \in {"raised", "cancelled"}
    BY <1>5 DEF IInv, TypeOK, Resume, Cancel
  <2>2. /\ Phase[c] = "asked"
        /\ Phase' = [d \in Calls |-> IF d \in {c} THEN "failed" ELSE Phase[d]]
    BY <1>2, <2>1 DEF Phase, PhaseOf
  <2>3. Contract!Fail({c})
    BY <1>1, <2>2 DEF Contract!Fail, Phase, Served
  <2> QED
    BY <2>3 DEF Contract!Next
<1> QED
  BY <1>3, <1>4, <1>5

\* An answer serves a call that was made.
LEMMA AnswerImplements ==
    ASSUME IInv, NEW c \in Calls, Answer(c)
    PROVE  Contract!Serve(c)
<1>1. call[c] # "idle" /\ call' = call
  BY DEF IInv, NothingBeforeTheCall, Answer, callVars
<1>2. Phase[c] # "idle" /\ Phase' = Phase
  BY <1>1 DEF Phase, PhaseOf
<1>3. Served' = Served \cup {c}
  BY StreamingAssumption DEF IInv, TypeOK, Answer, Served
<1> QED
  BY <1>2, <1>3 DEF Contract!Serve, Phase, Served

\* The agent implements RemoteCall towards its runtime: a call ends once at most,
\* and with a result only if the processor has answered it
\* (kafka_streaming_agent.py 114-281).
THEOREM Implements == Spec => ContractSpec
<1>1. Init => Contract!Init
  BY DEF Init, Contract!Init, PhaseOf
<1>2. IInv /\ [Next]_vars => [Contract!Next]_(Contract!vars)
  <2> SUFFICES ASSUME IInv, [Next]_vars
               PROVE  Contract!Next \/ UNCHANGED Contract!vars
    OBVIOUS
  <2> USE DEF lifeVars, callVars, topicVars
  <2>1. ASSUME NEW a \in Agents, AgentStep(a)
               \/ \E c \in Calls : HandleEvent(a, c) \/ DeserializerRaises(a, c)
        PROVE  UNCHANGED Contract!vars
    BY <2>1, SameCallStutters
       DEF AgentStep, Start, Position, BeginStop, FinishStop, BeginClose,
           FinishClose, HandleEvent, DeserializerRaises
  <2>2. ASSUME NEW c \in Calls,
               BeginSend(c) \/ EndSend(c) \/ \E g \in Groups : Redeliver(g, c)
        PROVE  UNCHANGED Contract!vars
    BY <2>2, SameCallStutters DEF BeginSend, EndSend, Redeliver
  <2>3. ASSUME NEW c \in Calls, Answer(c)
        PROVE  Contract!Next
    BY <2>3, AnswerImplements DEF Contract!Next
  <2>4. CASE UNCHANGED vars
    BY <2>4, SameCallStutters DEF vars
  <2> QED
    BY <2>1, <2>2, <2>3, <2>4, CallerImplements DEF Next, CallStep
<1> QED
  BY <1>1, <1>2, Inductive, PTL DEF Spec, ContractSpec, Contract!Spec
=============================================================================
