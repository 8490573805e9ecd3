------------------------- MODULE AgentRegistryProofs -------------------------
(***************************************************************************)
(* Proofs about AgentRegistry for every set of workers, types, calls and   *)
(* faults.                                                                 *)
(***************************************************************************)
EXTENDS AgentRegistry, TLAPS

\* A step of the system is a step of one worker or call, or a stutter.
LEMMA StepCases ==
    ASSUME [Next]_vars
    PROVE  \/ \E w \in Workers : \/ Start(w) \/ Stop(w)
                                 \/ StartEngine(w) \/ StopEngine(w)
                                 \/ Position(w) \/ Restart(w)
           \/ \E w \in Workers, k \in Types : HandleEvent(w, k) \/ Redeliver(w, k)
           \/ \E t \in Tasks, k \in Types :
                 RegisterFactory(t, k) \/ Unregister(t, k)
           \/ \E t \in Tasks : Announce(t) \/ Acknowledged(t) \/ SendFailed(t)
           \/ UNCHANGED vars
  BY DEF Next, WorkerStep, TaskStep

\* A call that is sending or written names a kind and a type.
LEMMA SendParts ==
    ASSUME TypeOK, NEW t \in Tasks, task[t].step \in {"sending", "written"}
    PROVE  task[t] \in Sends /\ task[t].kind \in Kinds /\ task[t].type \in Types
<1>1. task[t] \in Calls
  BY DEF TypeOK
<1>2. task[t] \notin [step : {"idle"} \cup EndedCalls]
  BY DEF EndedCalls
<1>3. QED
  BY <1>1, <1>2 DEF Calls, Sends

\* Adding a type to one worker's set.
LEMMA AddOne ==
    ASSUME NEW f \in [Workers -> SUBSET Types], NEW w \in Workers,
           NEW k \in Types
    PROVE  [f EXCEPT ![w] = @ \cup {k}] \in [Workers -> SUBSET Types]
<1>1. f[w] \cup {k} \in SUBSET Types
  OBVIOUS
<1>2. QED
  BY <1>1

\* Ending or beginning a send keeps the calls' states well typed.
LEMMA EndType ==
    ASSUME TypeOK, NEW t \in Tasks, NEW how \in EndedCalls, End(t, how)
    PROVE  task' \in [Tasks -> Calls]
<1>1. [step |-> how] \in Calls
  BY DEF Calls
<1>2. QED
  BY <1>1 DEF End, TypeOK

\* A task that begins to send is well typed.
LEMMA BeginSendType ==
    ASSUME TypeOK, NEW t \in Tasks, NEW kind \in Kinds, NEW k \in Types,
           BeginSend(t, kind, k)
    PROVE  task' \in [Tasks -> Calls]
<1>1. [step |-> "sending", kind |-> kind, type |-> k] \in Calls
  BY DEF Calls, Sends
<1>2. QED
  BY <1>1 DEF BeginSend, TypeOK

-----------------------------------------------------------------------------
(* Types                                                                   *)

\* Every step keeps the types.
LEMMA TypeStep == TypeOK /\ [Next]_vars => TypeOK'
<1> SUFFICES ASSUME TypeOK, [Next]_vars
             PROVE  TypeOK'
  OBVIOUS
<1> USE RegistryAssumption DEF TypeOK, consumerVars
<1>0. \A t \in Tasks : WorkerOf[t] \in Workers
  OBVIOUS
<1>1. ASSUME NEW w \in Workers,
             Start(w) \/ Stop(w) \/ StartEngine(w) \/ StopEngine(w)
      PROVE  TypeOK'
  BY <1>1 DEF Start, Stop, StartEngine, StopEngine
<1>2. ASSUME NEW w \in Workers, Position(w)
      PROVE  TypeOK'
  <2>1. [k \in Types |-> EndOffset(k)] \in [Types -> Nat]
    BY DEF EndOffset
  <2>2. pos' \in [Workers -> [Types -> Nat]] /\ base' \in [Workers -> [Types -> Nat]]
    BY <1>2, <2>1 DEF Position
  <2>3. \A v \in Workers, k \in Types : pos'[v][k] <= Len(log'[k])
    BY <1>2 DEF Position, EndOffset
  <2>4. QED
    BY <1>2, <2>2, <2>3 DEF Position
<1>3. ASSUME NEW w \in Workers, Restart(w)
      PROVE  TypeOK'
  <2>1. task' \in [Tasks -> Calls]
    BY <1>3 DEF Restart, Calls, EndedCalls
  <2>2. restarts' \in 0..MaxRestarts
    BY <1>3 DEF Restart
  <2>3. QED
    BY <1>3, <2>1, <2>2 DEF Restart
<1>4. ASSUME NEW w \in Workers, NEW k \in Types, HandleEvent(w, k)
      PROVE  TypeOK'
  <2>1. agents' \in [Workers -> SUBSET Types]
    BY <1>4 DEF HandleEvent, Applied
  <2>2. pos' \in [Workers -> [Types -> Nat]]
    BY <1>4 DEF HandleEvent
  <2>3. \A v \in Workers, l \in Types : pos'[v][l] <= Len(log'[l])
    BY <1>4 DEF HandleEvent
  <2>4. QED
    BY <1>4, <2>1, <2>2, <2>3 DEF HandleEvent
<1>5. ASSUME NEW w \in Workers, NEW k \in Types, Redeliver(w, k)
      PROVE  TypeOK'
  <2>1. pos[w][k] - 1 \in Nat
    BY <1>5 DEF Redeliver
  <2>2. pos' \in [Workers -> [Types -> Nat]]
    BY <1>5, <2>1 DEF Redeliver
  <2>3. \A v \in Workers, l \in Types : pos'[v][l] <= Len(log'[l])
    BY <1>5, <2>1 DEF Redeliver
  <2>4. QED
    BY <1>5, <2>2, <2>3 DEF Redeliver
<1>6. ASSUME NEW t \in Tasks, NEW k \in Types, RegisterFactory(t, k)
      PROVE  TypeOK'
  <2>1. \/ BeginSend(t, "REGISTER", k) \/ End(t, "rejected") \/ End(t, "raised")
    BY <1>6 DEF RegisterFactory
  <2>2. task' \in [Tasks -> Calls]
    BY <2>1, EndType, BeginSendType DEF EndedCalls, Kinds
  <2> DEFINE w == WorkerOf[t]
  <2>3. agents' \in [Workers -> SUBSET Types]
    <3>1. \/ agents' = [agents EXCEPT ![w] = @ \cup {k}]
          \/ agents' = agents
      BY <1>6 DEF RegisterFactory
    <3>2. w \in Workers /\ agents \in [Workers -> SUBSET Types]
      BY <1>0
    <3>3. [agents EXCEPT ![w] = @ \cup {k}] \in [Workers -> SUBSET Types]
      BY <3>2, AddOne
    <3>4. QED
      BY <3>1, <3>2, <3>3
  <2>4. factories' \in [Workers -> SUBSET Types]
    <3>1. \/ factories' = [factories EXCEPT ![w] = @ \cup {k}]
          \/ factories' = factories
      BY <1>6 DEF RegisterFactory
    <3>2. w \in Workers /\ factories \in [Workers -> SUBSET Types]
      BY <1>0
    <3>3. [factories EXCEPT ![w] = @ \cup {k}] \in [Workers -> SUBSET Types]
      BY <3>2, AddOne
    <3>4. QED
      BY <3>1, <3>2, <3>3
  <2>5. QED
    BY <1>6, <2>2, <2>3, <2>4 DEF RegisterFactory
<1>7. ASSUME NEW t \in Tasks, NEW k \in Types, Unregister(t, k)
      PROVE  TypeOK'
  <2>0. BeginSend(t, "UNREGISTER", k) \/ End(t, "done")
    BY <1>7 DEF Unregister
  <2>1. task' \in [Tasks -> Calls]
    BY <2>0, EndType, BeginSendType DEF EndedCalls, Kinds
  <2>2. agents' \in [Workers -> SUBSET Types] /\ unsettled' \subseteq Workers \X Types
    BY <1>7 DEF Unregister
  <2>3. QED
    BY <1>7, <2>1, <2>2 DEF Unregister
<1>8. ASSUME NEW t \in Tasks, Announce(t)
      PROVE  TypeOK'
  <2> DEFINE k == task[t].type
             e == [kind |-> task[t].kind, worker |-> WorkerOf[t]]
  <2>1. k \in Types /\ e \in Event /\ task[t] \in Sends
    BY <1>8, SendParts DEF Announce, Event
  <2>2. /\ log'[k] = Append(log[k], e)
        /\ \A l \in Types \ {k} : log'[l] = log[l]
        /\ log' \in [Types -> Seq(Event)]
    BY <1>8, <2>1 DEF Announce
  <2>3. [task[t] EXCEPT !.step = "written"] \in Calls
    BY <2>1 DEF Calls, Sends
  <2>4. task' \in [Tasks -> Calls]
    BY <1>8, <2>3 DEF Announce
  <2>5. \A v \in Workers, l \in Types : pos'[v][l] <= Len(log'[l])
    BY <1>8, <2>1, <2>2 DEF Announce
  <2>6. QED
    BY <1>8, <2>2, <2>4, <2>5 DEF Announce
<1>9. ASSUME NEW t \in Tasks, Acknowledged(t)
      PROVE  TypeOK'
  BY <1>9, EndType DEF Acknowledged, EndedCalls
<1>10. ASSUME NEW t \in Tasks, SendFailed(t)
       PROVE  TypeOK'
  <2>1. task' \in [Tasks -> Calls]
    BY <1>10, EndType DEF SendFailed, EndedCalls
  <2>2. agents' \in [Workers -> SUBSET Types]
    BY <1>10 DEF SendFailed, AfterFailure
  <2>3. unsettled' \subseteq Workers \X Types
    BY <1>10, SendParts DEF SendFailed
  <2>4. QED
    BY <1>10, <2>1, <2>2, <2>3 DEF SendFailed
<1>11. CASE UNCHANGED vars
  BY <1>11 DEF vars
<1>12. QED
  BY <1>1, <1>2, <1>3, <1>4, <1>5, <1>6, <1>7, <1>8, <1>9, <1>10, <1>11, StepCases

\* Every variable keeps its type, and no consumer is past the end of a log.
THEOREM TypeCorrect == Spec => []TypeOK
<1>1. Init => TypeOK
  BY RegistryAssumption DEF Init, TypeOK, Calls
<1>2. QED
  BY <1>1, TypeStep, PTL DEF Spec

-----------------------------------------------------------------------------
(* Views follow the log                                                    *)

\* A worker's view of one type, in the words of IInv.
FollowsLog(w, k) ==
    <<w, k>> \notin unsettled /\ CaughtUp(w, k) /\ Announced(w, k) =>
        (k \in agents[w] <=> RegisteredByLog(k))

KeepsKnown(w, k) ==
    /\ <<w, k>> \notin unsettled
    /\ NeverUnregistered(w, k)
    /\ pos[w][k] > 0 \/ ~Announced(w, k)
    => k \in agents[w]

\* What a worker knows of a type only depends on what is listed here.
LEMMA SameKnowledge ==
    ASSUME NEW w, NEW k,
           UNCHANGED <<log[k], pos[w][k]>>,
           k \in agents'[w] <=> k \in agents[w],
           <<w, k>> \in unsettled' <=> <<w, k>> \in unsettled,
           \A t \in Tasks : WorkerOf[t] = w =>
               /\ Unannounced(t, k)' <=> Unannounced(t, k)
               /\ Unannounced(t, k) => task'[t].kind = task[t].kind,
           FollowsLog(w, k), KeepsKnown(w, k)
    PROVE  FollowsLog(w, k)' /\ KeepsKnown(w, k)'
  BY DEF FollowsLog, KeepsKnown, CaughtUp, Announced, RegisteredByLog,
         NeverUnregistered

\* Every step keeps what the registry of one worker knows of one type.
LEMMA KnowledgeStep ==
    ASSUME TypeOK, [Next]_vars, NEW w \in Workers, NEW k \in Types,
           FollowsLog(w, k), KeepsKnown(w, k)
    PROVE  FollowsLog(w, k)' /\ KeepsKnown(w, k)'
<1> USE DEF consumerVars
<1>0. /\ \A t \in Tasks : WorkerOf[t] \in Workers
      /\ pos[w][k] \in Nat /\ Len(log[k]) \in Nat /\ pos[w][k] <= Len(log[k])
  BY RegistryAssumption DEF TypeOK
<1>a. ASSUME <<w, k>> \in unsettled'
      PROVE  FollowsLog(w, k)' /\ KeepsKnown(w, k)'
  BY <1>a DEF FollowsLog, KeepsKnown
<1>1. ASSUME NEW x \in Workers,
             Start(x) \/ Stop(x) \/ StartEngine(x) \/ StopEngine(x)
      PROVE  FollowsLog(w, k)' /\ KeepsKnown(w, k)'
  BY <1>1, SameKnowledge DEF Start, Stop, StartEngine, StopEngine, Unannounced
<1>2. ASSUME NEW x \in Workers, Position(x)
      PROVE  FollowsLog(w, k)' /\ KeepsKnown(w, k)'
  <2>1. CASE x = w
    BY <1>2, <2>1, <1>a DEF Position
  <2>2. CASE x # w
    <3>1. /\ UNCHANGED <<log[k], pos[w][k], agents, task>>
          /\ <<w, k>> \in unsettled' <=> <<w, k>> \in unsettled
      BY <1>2, <2>2 DEF Position, TypeOK
    <3>2. QED
      BY <3>1, SameKnowledge DEF Unannounced
  <2>3. QED
    BY <2>1, <2>2
<1>3. ASSUME NEW x \in Workers, Restart(x)
      PROVE  FollowsLog(w, k)' /\ KeepsKnown(w, k)'
  <2>1. CASE x = w
    BY <1>3, <2>1, <1>a DEF Restart
  <2>2. CASE x # w
    <3>1. /\ UNCHANGED <<log[k], pos[w][k], agents[w]>>
          /\ <<w, k>> \in unsettled' <=> <<w, k>> \in unsettled
          /\ \A t \in Tasks : WorkerOf[t] = w => task'[t] = task[t]
      BY <1>3, <2>2 DEF Restart, TypeOK
    <3>2. QED
      BY <3>1, SameKnowledge DEF Unannounced
  <2>3. QED
    BY <2>1, <2>2
<1>4. ASSUME NEW x \in Workers, NEW l \in Types, HandleEvent(x, l)
      PROVE  FollowsLog(w, k)' /\ KeepsKnown(w, k)'
  <2>1. CASE x = w /\ l = k
    <3>1. /\ pos'[w][k] = pos[w][k] + 1
          /\ UNCHANGED <<log, task>>
          /\ agents'[w] = Applied(w, agents[w], k, log[k][pos[w][k] + 1])
      BY <1>4, <2>1 DEF HandleEvent, TypeOK
    <3>2. FollowsLog(w, k)'
      <4>1. CASE CaughtUp(w, k)'
        <5>1. pos[w][k] + 1 = Len(log[k]) /\ log[k] # <<>>
          BY <1>0, <3>1, <4>1 DEF CaughtUp, TypeOK
        <5>2. k \in agents'[w] <=> log[k][Len(log[k])].kind = "REGISTER"
          BY <3>1, <5>1 DEF Applied
        <5>3. QED
          BY <3>1, <5>1, <5>2 DEF FollowsLog, RegisteredByLog
      <4>2. CASE ~CaughtUp(w, k)'
        BY <4>2 DEF FollowsLog
      <4>3. QED
        BY <4>1, <4>2
    <3>3. KeepsKnown(w, k)'
      <4>1. pos[w][k] + 1 \in DOMAIN log[k]
        BY <1>0, <1>4, <2>1 DEF HandleEvent, TypeOK
      <4>2. NeverUnregistered(w, k)' => log[k][pos[w][k] + 1].kind = "REGISTER"
        BY <3>1, <4>1 DEF NeverUnregistered
      <4>3. QED
        BY <3>1, <4>2 DEF KeepsKnown, Applied
    <3>4. QED
      BY <3>2, <3>3
  <2>2. CASE ~(x = w /\ l = k)
    <3>1. /\ UNCHANGED <<log, pos[w][k], task>>
          /\ <<w, k>> \in unsettled' <=> <<w, k>> \in unsettled
          /\ k \in agents'[w] <=> k \in agents[w]
      BY <1>4, <2>2 DEF HandleEvent, Applied, TypeOK
    <3>2. QED
      BY <3>1, SameKnowledge DEF Unannounced
  <2>3. QED
    BY <2>1, <2>2
<1>5. ASSUME NEW x \in Workers, NEW l \in Types, Redeliver(x, l)
      PROVE  FollowsLog(w, k)' /\ KeepsKnown(w, k)'
  <2>0. UNCHANGED <<log, task, agents, unsettled>>
    BY <1>5 DEF Redeliver
  <2>1. CASE x = w /\ l = k
    <3>1. pos'[w][k] = pos[w][k] - 1
      BY <1>5, <2>1 DEF Redeliver, TypeOK
    <3>2. ~CaughtUp(w, k)' /\ (pos'[w][k] > 0 => pos[w][k] > 0)
      BY <1>0, <2>0, <3>1 DEF CaughtUp
    <3>3. QED
      BY <2>0, <3>2
      DEF FollowsLog, KeepsKnown, NeverUnregistered, Announced, Unannounced
  <2>2. CASE ~(x = w /\ l = k)
    <3>1. UNCHANGED pos[w][k]
      BY <1>5, <2>2 DEF Redeliver, TypeOK
    <3>2. QED
      BY <2>0, <3>1, SameKnowledge DEF Unannounced
  <2>3. QED
    BY <2>1, <2>2
<1>6. ASSUME NEW t \in Tasks, NEW l \in Types, RegisterFactory(t, l)
      PROVE  FollowsLog(w, k)' /\ KeepsKnown(w, k)'
  <2> DEFINE accepted == task' = [task EXCEPT ![t] =
                [step |-> "sending", kind |-> "REGISTER", type |-> l]]
  <2>0. /\ UNCHANGED <<log, pos, unsettled>>
        /\ task \in [Tasks -> Calls]
        /\ agents \in [Workers -> SUBSET Types]
        /\ task[t].step = "idle"
    BY <1>6 DEF RegisterFactory, TypeOK
  <2>1. \/ /\ accepted
           /\ agents' = [agents EXCEPT ![WorkerOf[t]] = @ \cup {l}]
        \/ /\ agents' = agents
           /\ \E how \in EndedCalls : task' = [task EXCEPT ![t] = [step |-> how]]
    BY <1>6 DEF RegisterFactory, BeginSend, End, EndedCalls
  <2>2. CASE accepted /\ agents' = [agents EXCEPT ![WorkerOf[t]] = @ \cup {l}]
             /\ WorkerOf[t] = w /\ l = k
    <3>1. Unannounced(t, k)' /\ k \in agents'[w]
      BY <2>0, <2>2 DEF Unannounced
    <3>2. ~Announced(w, k)'
      BY <2>2, <3>1 DEF Announced
    <3>3. QED
      BY <3>1, <3>2 DEF FollowsLog, KeepsKnown
  <2>3. CASE accepted /\ agents' = [agents EXCEPT ![WorkerOf[t]] = @ \cup {l}]
             /\ ~(WorkerOf[t] = w /\ l = k)
    <3>1. k \in agents'[w] <=> k \in agents[w]
      BY <2>0, <2>3, <1>0
    <3>2. ASSUME NEW u \in Tasks, WorkerOf[u] = w
          PROVE  /\ Unannounced(u, k)' <=> Unannounced(u, k)
                 /\ Unannounced(u, k) => task'[u].kind = task[u].kind
      BY <2>0, <2>3, <3>2 DEF Unannounced
    <3>3. QED
      BY <2>0, <3>1, <3>2, SameKnowledge
  <2>4. CASE agents' = agents
             /\ \E how \in EndedCalls : task' = [task EXCEPT ![t] = [step |-> how]]
    <3>1. ASSUME NEW u \in Tasks
          PROVE  /\ Unannounced(u, k)' <=> Unannounced(u, k)
                 /\ Unannounced(u, k) => task'[u].kind = task[u].kind
      BY <2>0, <2>4 DEF Unannounced, EndedCalls
    <3>2. QED
      BY <2>0, <2>4, <3>1, SameKnowledge
  <2>5. QED
    BY <2>1, <2>2, <2>3, <2>4
<1>7. ASSUME NEW t \in Tasks, NEW l \in Types, Unregister(t, l)
      PROVE  FollowsLog(w, k)' /\ KeepsKnown(w, k)'
  <2>0. /\ UNCHANGED <<log, pos>>
        /\ task \in [Tasks -> Calls]
        /\ agents \in [Workers -> SUBSET Types]
        /\ task[t].step = "idle"
        /\ agents' = [agents EXCEPT ![WorkerOf[t]] = @ \ {l}]
    BY <1>7 DEF Unregister, TypeOK
  <2>1. \/ /\ task' = [task EXCEPT ![t] =
                [step |-> "sending", kind |-> "UNREGISTER", type |-> l]]
           /\ unsettled' = unsettled
        \/ /\ task' = [task EXCEPT ![t] = [step |-> "done"]]
           /\ unsettled' = unsettled \cup {<<WorkerOf[t], l>>}
    BY <1>7 DEF Unregister, BeginSend, End
  <2>2. CASE WorkerOf[t] = w /\ l = k
    <3>1. CASE <<w, k>> \in unsettled'
      BY <3>1, <1>a
    <3>2. CASE <<w, k>> \notin unsettled'
      <4>1. task' = [task EXCEPT ![t] =
                [step |-> "sending", kind |-> "UNREGISTER", type |-> k]]
        BY <2>1, <2>2, <3>2
      <4>2. Unannounced(t, k)' /\ task'[t].kind = "UNREGISTER"
        BY <2>0, <4>1 DEF Unannounced
      <4>3. ~Announced(w, k)' /\ ~NeverUnregistered(w, k)'
        BY <2>2, <4>2 DEF Announced, NeverUnregistered
      <4>4. QED
        BY <4>3 DEF FollowsLog, KeepsKnown
    <3>3. QED
      BY <3>1, <3>2
  <2>3. CASE ~(WorkerOf[t] = w /\ l = k)
    <3>1. /\ k \in agents'[w] <=> k \in agents[w]
          /\ <<w, k>> \in unsettled' <=> <<w, k>> \in unsettled
      BY <2>0, <2>1, <2>3, <1>0
    <3>2. ASSUME NEW u \in Tasks, WorkerOf[u] = w
          PROVE  /\ Unannounced(u, k)' <=> Unannounced(u, k)
                 /\ Unannounced(u, k) => task'[u].kind = task[u].kind
      BY <2>0, <2>1, <2>3, <3>2 DEF Unannounced
    <3>3. QED
      BY <2>0, <3>1, <3>2, SameKnowledge
  <2>4. QED
    BY <2>2, <2>3
<1>8. ASSUME NEW t \in Tasks, Announce(t)
      PROVE  FollowsLog(w, k)' /\ KeepsKnown(w, k)'
  <2> DEFINE l == task[t].type
             e == [kind |-> task[t].kind, worker |-> WorkerOf[t]]
  <2>0. /\ UNCHANGED <<agents, pos, unsettled>>
        /\ task \in [Tasks -> Calls] /\ task[t] \in Sends
        /\ task[t].step = "sending" /\ l \in Types
        /\ task' = [task EXCEPT ![t].step = "written"]
        /\ log \in [Types -> Seq(Event)] /\ e \in Event
        /\ log' = [log EXCEPT ![l] = Append(@, e)]
    BY <1>8, SendParts, RegistryAssumption DEF Announce, TypeOK, Event
  <2>1. CASE l = k
    <3>1. log'[k] = Append(log[k], e) /\ Len(log'[k]) = Len(log[k]) + 1
      BY <2>0, <2>1
    <3>2. ~CaughtUp(w, k)'
      BY <1>0, <2>0, <3>1 DEF CaughtUp
    <3>3. ASSUME NeverUnregistered(w, k)'
          PROVE  NeverUnregistered(w, k)
      <4>1. e.kind = "REGISTER"
        <5>1. Len(log[k]) + 1 \in DOMAIN log'[k]
              /\ log'[k][Len(log[k]) + 1] = e
          BY <1>0, <2>0, <2>1, <3>1
        <5>2. QED
          BY <3>3, <5>1 DEF NeverUnregistered
      <4>2. \A i \in DOMAIN log[k] : log[k][i].kind = "REGISTER"
        <5>1. \A i \in DOMAIN log[k] : i \in DOMAIN log'[k] /\ log'[k][i] = log[k][i]
          BY <1>0, <2>0, <2>1, <3>1
        <5>2. QED
          BY <3>3, <5>1 DEF NeverUnregistered
      <4>3. \A u \in Tasks : WorkerOf[u] = w /\ Unannounced(u, k) =>
                                task[u].kind = "REGISTER"
        BY <2>0, <3>3, <4>1 DEF NeverUnregistered, Unannounced
      <4>4. QED
        BY <4>2, <4>3 DEF NeverUnregistered
    <3>4. ~Announced(w, k)' => ~Announced(w, k)
      BY <2>0 DEF Announced, Unannounced
    <3>5. QED
      BY <2>0, <3>2, <3>3, <3>4 DEF FollowsLog, KeepsKnown
  <2>2. CASE l # k
    <3>1. UNCHANGED log[k]
      BY <2>0, <2>2
    <3>2. ASSUME NEW u \in Tasks
          PROVE  /\ Unannounced(u, k)' <=> Unannounced(u, k)
                 /\ Unannounced(u, k) => task'[u].kind = task[u].kind
      BY <2>0, <2>2 DEF Unannounced
    <3>3. QED
      BY <2>0, <3>1, <3>2, SameKnowledge
  <2>3. QED
    BY <2>1, <2>2
<1>9. ASSUME NEW t \in Tasks, Acknowledged(t)
      PROVE  FollowsLog(w, k)' /\ KeepsKnown(w, k)'
  <2>1. /\ UNCHANGED <<agents, log, pos, unsettled>>
        /\ task[t].step = "written"
        /\ task' = [task EXCEPT ![t] = [step |-> "done"]]
        /\ task \in [Tasks -> Calls]
    BY <1>9 DEF Acknowledged, End, TypeOK
  <2>2. ASSUME NEW u \in Tasks
        PROVE  /\ Unannounced(u, k)' <=> Unannounced(u, k)
               /\ Unannounced(u, k) => task'[u].kind = task[u].kind
    BY <2>1 DEF Unannounced
  <2>3. QED
    BY <2>1, <2>2, SameKnowledge
<1>10. ASSUME NEW t \in Tasks, SendFailed(t)
       PROVE  FollowsLog(w, k)' /\ KeepsKnown(w, k)'
  <2> DEFINE l == task[t].type
  <2>0. /\ UNCHANGED <<log, pos>>
        /\ task \in [Tasks -> Calls]
        /\ agents \in [Workers -> SUBSET Types]
        /\ agents' = [agents EXCEPT ![WorkerOf[t]] =
                         AfterFailure(@, task[t].kind, l)]
        /\ unsettled' = unsettled \cup {<<WorkerOf[t], l>>}
        /\ \E how \in EndedCalls : task' = [task EXCEPT ![t] = [step |-> how]]
    BY <1>10 DEF SendFailed, End, EndedCalls, TypeOK
  <2>1. CASE WorkerOf[t] = w /\ l = k
    BY <2>0, <2>1, <1>a
  <2>2. CASE ~(WorkerOf[t] = w /\ l = k)
    <3>1. /\ k \in agents'[w] <=> k \in agents[w]
          /\ <<w, k>> \in unsettled' <=> <<w, k>> \in unsettled
      BY <2>0, <2>2, <1>0 DEF AfterFailure
    <3>2. ASSUME NEW u \in Tasks, WorkerOf[u] = w
          PROVE  /\ Unannounced(u, k)' <=> Unannounced(u, k)
                 /\ Unannounced(u, k) => task'[u].kind = task[u].kind
      BY <2>0, <2>2, <3>2 DEF Unannounced, EndedCalls
    <3>3. QED
      BY <2>0, <3>1, <3>2, SameKnowledge
  <2>3. QED
    BY <2>1, <2>2
<1>11. CASE UNCHANGED vars
  BY <1>11, SameKnowledge DEF vars, Unannounced
<1>12. QED
  BY <1>1, <1>2, <1>3, <1>4, <1>5, <1>6, <1>7, <1>8, <1>9, <1>10, <1>11,
     StepCases

\* The views follow the log, and what is known of a type that nobody
\* unregisters stays known: the inductive invariant of this module.
THEOREM Inductive == Spec => []IInv
<1>1. Init => IInv
  <2> SUFFICES ASSUME Init
               PROVE  IInv
    OBVIOUS
  <2>1. TypeOK
    BY RegistryAssumption DEF Init, TypeOK, Calls
  <2>2. ASSUME NEW w \in Workers, NEW k \in Types
        PROVE  FollowsLog(w, k) /\ KeepsKnown(w, k)
    <3>1. log[k] = <<>> /\ agents[w] = {} /\ pos[w][k] = 0
      BY DEF Init
    <3>2. \A t \in Tasks : ~Unannounced(t, k)
      BY DEF Init, Unannounced
    <3>3. QED
      BY <3>1, <3>2 DEF FollowsLog, KeepsKnown, RegisteredByLog, Announced
  <2>3. QED
    BY <2>1, <2>2
    DEF IInv, ViewFollowsLog, KnownStaysKnown, FollowsLog, KeepsKnown
<1>2. IInv /\ [Next]_vars => IInv'
  <2> SUFFICES ASSUME IInv, [Next]_vars
               PROVE  IInv'
    OBVIOUS
  <2>1. TypeOK /\ TypeOK'
    BY TypeStep DEF IInv
  <2>2. ASSUME NEW w \in Workers, NEW k \in Types
        PROVE  FollowsLog(w, k)' /\ KeepsKnown(w, k)'
    <3>1. FollowsLog(w, k) /\ KeepsKnown(w, k)
      BY DEF IInv, ViewFollowsLog, KnownStaysKnown, FollowsLog, KeepsKnown
    <3>2. QED
      BY <2>1, <3>1, KnowledgeStep
  <2>3. ViewFollowsLog'
    BY <2>2 DEF ViewFollowsLog, FollowsLog
  <2>4. KnownStaysKnown'
    BY <2>2 DEF KnownStaysKnown, KeepsKnown
  <2>5. QED
    BY <2>1, <2>3, <2>4 DEF IInv
<1>3. QED
  BY <1>1, <1>2, PTL DEF Spec

\* A registry that has consumed a type's announcements agrees with them.
THEOREM ViewsFollow == Spec => []ViewFollowsLog
<1>1. IInv => ViewFollowsLog
  BY DEF IInv
<1>2. QED
  BY <1>1, Inductive, PTL

\* What a registry knows of a type stays while nobody unregisters it.
THEOREM KnownStays == Spec => []KnownStaysKnown
<1>1. IInv => KnownStaysKnown
  BY DEF IInv
<1>2. QED
  BY <1>1, Inductive, PTL

\* No runtime becomes a second host of a type it has heard of.
THEOREM NoKnowingDuplicates == Spec => NoKnowingDuplicate
<1> DEFINE Step ==
      \A w \in Workers, k \in Types :
          /\ k \in factories'[w] \ factories[w]
          /\ <<w, k>> \notin unsettled
          /\ NeverUnregistered(w, k)
          => pos[w][k] = 0
<1>1. ASSUME IInv, Next, NEW w \in Workers, NEW k \in Types,
             k \in factories'[w] \ factories[w], <<w, k>> \notin unsettled,
             NeverUnregistered(w, k)
      PROVE  pos[w][k] = 0
  <2>1. TypeOK
    BY <1>1 DEF IInv
  <2>2. PICK t \in Tasks, l \in Types : RegisterFactory(t, l)
    <3>1. factories \in [Workers -> SUBSET Types]
      BY <2>1 DEF TypeOK
    <3>2. factories' # factories
      BY <1>1
    <3>3. ASSUME NEW x \in Workers, Restart(x)
          PROVE  FALSE
      BY <1>1, <3>1, <3>3 DEF Restart
    <3>4. ASSUME NEW x \in Workers,
                 \/ Start(x) \/ Stop(x) \/ StartEngine(x) \/ StopEngine(x)
                 \/ Position(x)
          PROVE  FALSE
      BY <3>2, <3>4 DEF Start, Stop, StartEngine, StopEngine, Position
    <3>5. ASSUME NEW x \in Workers, NEW y \in Types,
                 HandleEvent(x, y) \/ Redeliver(x, y)
          PROVE  FALSE
      BY <3>2, <3>5 DEF HandleEvent, Redeliver
    <3>6. ASSUME NEW u \in Tasks, NEW y \in Types, Unregister(u, y)
          PROVE  FALSE
      BY <3>2, <3>6 DEF Unregister
    <3>7. ASSUME NEW u \in Tasks, Announce(u) \/ Acknowledged(u) \/ SendFailed(u)
          PROVE  FALSE
      BY <3>2, <3>7 DEF Announce, Acknowledged, SendFailed
    <3>8. ~(UNCHANGED vars)
      BY <3>2 DEF vars
    <3>9. \/ \E x \in Workers : \/ Start(x) \/ Stop(x)
                               \/ StartEngine(x) \/ StopEngine(x)
                               \/ Position(x) \/ Restart(x)
          \/ \E x \in Workers, y \in Types : HandleEvent(x, y) \/ Redeliver(x, y)
          \/ \E u \in Tasks, y \in Types :
                RegisterFactory(u, y) \/ Unregister(u, y)
          \/ \E u \in Tasks : Announce(u) \/ Acknowledged(u) \/ SendFailed(u)
          \/ UNCHANGED vars
      BY <1>1, StepCases
    <3>10. QED
      BY <3>3, <3>4, <3>5, <3>6, <3>7, <3>8, <3>9
  <2>3. WorkerOf[t] = w /\ l = k /\ MayRegister(w, k)
    <3>1. factories' # factories
      BY <1>1
    <3>2. /\ MayRegister(WorkerOf[t], l)
          /\ factories' = [factories EXCEPT ![WorkerOf[t]] = @ \cup {l}]
      BY <2>2, <3>1 DEF RegisterFactory
    <3>3. factories \in [Workers -> SUBSET Types]
      BY <2>1 DEF TypeOK
    <3>4. WorkerOf[t] = w /\ l = k
      BY <1>1, <3>2, <3>3
    <3>5. QED
      BY <3>2, <3>4
  <2>4. k \notin agents[w]
    BY <2>3 DEF MayRegister
  <2>5. ~(pos[w][k] > 0)
    BY <1>1, <2>4 DEF IInv, KnownStaysKnown
  <2>6. QED
    BY <2>1, <2>5 DEF TypeOK
<1>2. IInv /\ [Next]_vars => [Step]_vars
  BY <1>1
<1>3. QED
  BY <1>2, Inductive, PTL DEF Spec, NoKnowingDuplicate
=============================================================================
