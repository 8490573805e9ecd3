---------------------- MODULE SubscriptionServiceProofs ----------------------
(***************************************************************************)
(* Proofs about SubscriptionService, for any number of services,           *)
(* subscriptions and partitions.                                           *)
(*                                                                         *)
(* The addition of a subscription is written once, before all of its       *)
(* removals.  So a view that has consumed the topic has whatever no        *)
(* removal was written of, or one equal to it whose removal was not        *)
(* written either, and holds nothing whose removal is behind its addition  *)
(* on the one partition that has them.                                     *)
(***************************************************************************)
EXTENDS SubscriptionService, TLAPS

Added(s) == [op |-> "ADDED", sub |-> s]
Removed(s) == [op |-> "REMOVED", sub |-> s]
Add(s) == <<"add", s>>
RemovalsOf(s) == {<<"remove", s>>, <<"sweep", s>>}

OnTopic == {e \in Event :
               \E p \in Partitions : \E n \in 1..Len(log[p]) : log[p][n] = e}

\* What a consumer is past.
Passed(v) == {e \in Event :
                 \E p \in Partitions : \E n \in 1..pos[v][p] : log[p][n] = e}

-----------------------------------------------------------------------------
(* The invariant                                                           *)

\* What is held was added, and what is removed was added before.
RemovedAfterAdded ==
    \A s \in Subs :
        /\ Live(s) => step[Add(s)] = "done"
        /\ \/ s \in sweep[OwnerOf[s]]
           \/ Removed(s) \in OnTopic
           \/ \E t \in RemovalsOf(s) : step[t] # "idle"
           => step[Add(s)] \in {"done", "died"}

\* Calls get no further than their events.
CallsFollowEvents ==
    /\ \A t \in Tasks : step[t] = "written" => EventOf(t) \in OnTopic
    /\ \A s \in Subs :
          /\ step[Add(s)] = "done" => Added(s) \in OnTopic
          /\ Added(s) \in OnTopic => step[Add(s)] \notin {"idle", "sending"}
          /\ step[Add(s)] = "done" /\ ~Live(s) => Removed(s) \in OnTopic

\* What was announced otherwise than it is, is torn.
TornIsMarked ==
    \A s \in Subs \ torn :
        /\ Added(s) \in OnTopic => step[Add(s)] \in {"written", "done"}
        /\ Live(s) /\ Removed(s) \in OnTopic =>
               \E t \in RemovalsOf(s) : step[t] = "written"

\* On one partition the addition comes first.
AddedIsFirst ==
    \A s \in Subs, p \in Partitions : \A m, n \in 1..Len(log[p]) :
        log[p][m] = Added(s) /\ log[p][n] = Removed(s) => m < n

\* A view has a subscription or one equal to it, or an equal one was removed.
RivalGone(s) ==
    \E r \in Subs \ {s} : content[r] = content[s] /\ Removed(r) \in OnTopic
HeldOrRival(v, s) == Holds(global[v], s) \/ RivalGone(s)

\* What a view holds was announced; it holds what it has passed the addition of
\* and nobody has removed, or one equal to it, and does not hold what it has
\* passed the removal of.
ViewFollowsTopic ==
    \A v \in Services, s \in Subs :
        /\ s \in global[v] => Added(s) \in OnTopic
        /\ v \notin amnesic =>
              /\ Added(s) \in Passed(v) /\ Removed(s) \notin OnTopic =>
                     HeldOrRival(v, s)
              /\ Removed(s) \in Passed(v) /\ s \in global[v] => Scattered(s)

CallInv == RemovedAfterAdded /\ CallsFollowEvents /\ TornIsMarked

ViewInv == AddedIsFirst /\ ViewFollowsTopic

IInv == TypeOK /\ CallInv /\ ViewInv

-----------------------------------------------------------------------------
(* Tasks and events                                                        *)

\* A task adds a subscription or is one of its two removals.
LEMMA TaskKinds ==
    /\ \A s \in Subs : /\ Add(s) \in Tasks /\ SubOf(Add(s)) = s
                       /\ EventOf(Add(s)) = Added(s)
                       /\ Added(s) \in Event /\ Removed(s) \in Event
                       /\ Added(s) # Removed(s)
    /\ \A s \in Subs : \A t \in RemovalsOf(s) :
          /\ t \in Tasks /\ SubOf(t) = s /\ EventOf(t) = Removed(s)
          /\ t # Add(s) /\ t[1] # "add"
    /\ \A t \in Tasks : /\ SubOf(t) \in Subs
                        /\ EventOf(t) \in Event
                        /\ \/ t = Add(SubOf(t)) /\ t[1] = "add"
                           \/ t \in RemovalsOf(SubOf(t)) /\ t[1] # "add"
  BY DEF Tasks, SubOf, Add, RemovalsOf, EventOf, Added, Removed, Event

\* Events of different subscriptions differ.
LEMMA EventsOfOne ==
    \A s, r \in Subs : /\ Added(s) = Added(r) => s = r
                       /\ Removed(s) = Removed(r) => s = r
                       /\ Added(s) # Removed(r)
                       /\ Add(s) = Add(r) => s = r
  BY DEF Added, Removed, Add

\* Every event is the addition or the removal of a subscription.
LEMMA EventKinds ==
    \A e \in Event : /\ e.sub \in Subs
                     /\ \/ e.op = "ADDED" /\ e = Added(e.sub)
                        \/ e.op # "ADDED" /\ e = Removed(e.sub)
  BY DEF Event, Added, Removed

\* Each task and each subscription has its place.
LEMMA OneTask ==
    ASSUME TypeOK, NEW t \in Tasks, NEW x \in Steps,
           step' = [step EXCEPT ![t] = x]
    PROVE  /\ step' \in [Tasks -> Steps]
           /\ \A u \in Tasks : step'[u] = IF u = t THEN x ELSE step[u]
  BY DEF TypeOK

\* The producer adds one event to what is on the topic, behind everything a
\* consumer is past.
LEMMA OneMoreEvent ==
    ASSUME TypeOK, NEW p \in Partitions, NEW e \in Event,
           log' = [log EXCEPT ![p] = Append(@, e)]
    PROVE  /\ log' \in [Partitions -> Seq(Event)]
           /\ Len(log'[p]) = Len(log[p]) + 1 /\ log'[p][Len(log[p]) + 1] = e
           /\ \A q \in Partitions :
                 /\ Len(log[q]) \in Nat
                 /\ q # p => log'[q] = log[q]
                 /\ \A n \in 1..Len(log[q]) : log'[q][n] = log[q][n]
<1>1. log \in [Partitions -> Seq(Event)]
  BY DEF TypeOK
<1>2. log[p] \in Seq(Event) /\ \A q \in Partitions : Len(log[q]) \in Nat
  BY <1>1
<1>3. log'[p] = Append(log[p], e)
  BY <1>1
<1>4. /\ Len(log'[p]) = Len(log[p]) + 1 /\ log'[p][Len(log[p]) + 1] = e
      /\ \A n \in 1..Len(log[p]) : log'[p][n] = log[p][n]
      /\ log'[p] \in Seq(Event)
  BY <1>2, <1>3
<1>5. \A q \in Partitions : q # p => log'[q] = log[q]
  BY <1>1
<1>6. log' \in [Partitions -> Seq(Event)]
  BY <1>1, <1>2
<1> QED
  BY <1>2, <1>4, <1>5, <1>6

\* What the topic has after a broadcast.
LEMMA OnTopicGrows ==
    ASSUME TypeOK, NEW p \in Partitions, NEW e \in Event,
           log' = [log EXCEPT ![p] = Append(@, e)]
    PROVE  OnTopic' = OnTopic \cup {e}
<1>1. /\ Len(log'[p]) = Len(log[p]) + 1 /\ log'[p][Len(log[p]) + 1] = e
      /\ \A q \in Partitions :
            /\ Len(log[q]) \in Nat
            /\ q # p => log'[q] = log[q]
            /\ \A n \in 1..Len(log[q]) : log'[q][n] = log[q][n]
  BY OneMoreEvent
<1>2. ASSUME NEW q \in Partitions
      PROVE  Len(log'[q]) \in Nat /\ 1..Len(log[q]) \subseteq 1..Len(log'[q])
  <2>1. CASE q = p
    BY <1>1, <2>1
  <2>2. CASE q # p
    BY <1>1, <2>2
  <2> QED
    BY <2>1, <2>2
<1>3. OnTopic \subseteq OnTopic'
  BY <1>1, <1>2 DEF OnTopic
<1>4. Len(log[p]) + 1 \in 1..Len(log'[p])
  BY <1>1
<1>5. e \in OnTopic'
  BY <1>1, <1>4 DEF OnTopic
<1>6. ASSUME NEW d \in OnTopic', d # e
      PROVE  d \in OnTopic
  <2>1. PICK q \in Partitions : \E n \in 1..Len(log'[q]) : log'[q][n] = d
    BY DEF OnTopic
  <2>2. PICK n \in 1..Len(log'[q]) : log'[q][n] = d
    BY <2>1
  <2>3. n \in 1..Len(log[q])
    BY <1>1, <1>6, <2>2
  <2> QED
    BY <1>1, <2>2, <2>3 DEF OnTopic
<1> QED
  BY <1>3, <1>5, <1>6

-----------------------------------------------------------------------------
(* Calls                                                                   *)

\* A call begins: nothing is written or applied yet.
LEMMA BeginCallInv ==
    ASSUME IInv, NEW s \in Subs, SubStep(s)
    PROVE  CallInv'
<1> USE TaskKinds, EventsOfOne
<1>1. UNCHANGED <<local, sweep, log, torn>> /\ OnTopic' = OnTopic
  BY DEF SubStep, AddSubscription, RemoveSubscription, SweepNext, OnTopic
<1>2. \A r \in Subs : Live(r)' = Live(r)
  BY <1>1 DEF Live
<1>3. PICK t \in Tasks :
         /\ step' = [step EXCEPT ![t] = "sending"]
         /\ SubOf(t) = s
         /\ \/ t = Add(s) /\ step[t] = "idle"
            \/ t \in RemovalsOf(s) /\ step[Add(s)] \in {"done", "died"}
                 /\ step[t] # "written"
  <2>1. CASE AddSubscription(s)
    BY <2>1 DEF AddSubscription, Add
  <2>2. CASE RemoveSubscription(s)
    BY <2>2 DEF RemoveSubscription, Add, RemovalsOf
  <2>3. CASE SweepNext(s)
    BY <2>3 DEF SweepNext, RemovalsOf, IInv, CallInv, RemovedAfterAdded, InFlight
  <2> QED
    BY <2>1, <2>2, <2>3 DEF SubStep
<1>4. \A u \in Tasks : step'[u] = IF u = t THEN "sending" ELSE step[u]
  BY <1>3, OneTask DEF IInv, Steps, InFlight
<1>5. RemovedAfterAdded'
  BY <1>1, <1>2, <1>3, <1>4 DEF IInv, CallInv, RemovedAfterAdded, CallsFollowEvents
<1>6. CallsFollowEvents'
  BY <1>1, <1>2, <1>3, <1>4 DEF IInv, CallInv, CallsFollowEvents
<1>7. TornIsMarked'
  BY <1>1, <1>2, <1>3, <1>4 DEF IInv, CallInv, CallsFollowEvents, TornIsMarked
<1> QED
  BY <1>5, <1>6, <1>7 DEF CallInv

\* The removals of unsubscribe_all are of what was added.
LEMMA UnsubscribeAllCallInv ==
    ASSUME IInv, NEW v \in Services, UnsubscribeAll(v)
    PROVE  CallInv'
<1> USE TaskKinds
<1>1. UNCHANGED <<local, step, log, torn>> /\ OnTopic' = OnTopic
  BY DEF UnsubscribeAll, OnTopic
<1>2. \A r \in Subs : Live(r)' = Live(r)
  BY <1>1 DEF Live
<1>3. \A r \in Subs : r \in sweep'[OwnerOf[r]] => Live(r) \/ r \in sweep[OwnerOf[r]]
  BY SubscriptionAssumption DEF UnsubscribeAll, Snapshot, Live, IInv, TypeOK
<1>4. RemovedAfterAdded'
  BY <1>1, <1>2, <1>3 DEF IInv, CallInv, RemovedAfterAdded
<1>5. CallsFollowEvents' /\ TornIsMarked'
  BY <1>1, <1>2 DEF IInv, CallInv, CallsFollowEvents, TornIsMarked
<1> QED
  BY <1>4, <1>5 DEF CallInv

\* An event is written: an addition before its removals.
LEMMA BroadcastCallInv ==
    ASSUME IInv, NEW t \in Tasks, Broadcast(t)
    PROVE  CallInv'
<1> USE TaskKinds, EventsOfOne
<1>1. UNCHANGED <<local, sweep, torn>>
  BY DEF Broadcast
<1>2. \A r \in Subs : Live(r)' = Live(r)
  BY <1>1 DEF Live
<1>3. OnTopic' = OnTopic \cup {EventOf(t)}
  BY OnTopicGrows DEF Broadcast, IInv
<1>4. step[t] = "sending" /\ \A u \in Tasks : step'[u] = IF u = t THEN "written" ELSE step[u]
  BY OneTask DEF Broadcast, IInv, Steps, InFlight
<1>5. RemovedAfterAdded'
  BY <1>1, <1>2, <1>3, <1>4 DEF IInv, CallInv, RemovedAfterAdded
<1>6. CallsFollowEvents'
  BY <1>1, <1>2, <1>3, <1>4 DEF IInv, CallInv, CallsFollowEvents
<1>7. TornIsMarked'
  BY <1>1, <1>2, <1>3, <1>4 DEF IInv, CallInv, CallsFollowEvents, TornIsMarked
<1> QED
  BY <1>5, <1>6, <1>7 DEF CallInv

\* What a call leaves of the sweeps.
LEMMA SweepShrinks ==
    ASSUME TypeOK, NEW t \in Tasks, SweepEnds(t)
    PROVE  /\ sweep' \in [Services -> SUBSET Subs]
           /\ \A v \in Services : sweep'[v] \subseteq sweep[v]
<1>1. sweep \in [Services -> SUBSET Subs]
  BY DEF TypeOK
<1>2. CASE t[1] = "sweep"
  BY <1>1, <1>2 DEF SweepEnds
<1>3. CASE t[1] # "sweep"
  BY <1>1, <1>3 DEF SweepEnds
<1> QED
  BY <1>2, <1>3

\* The local manager changes.
LEMMA LocalManager ==
    ASSUME TypeOK, NEW s \in Subs
    PROVE  /\ local' = [local EXCEPT ![OwnerOf[s]] = @ \cup {s}] =>
                /\ local' \in [Services -> SUBSET Subs]
                /\ \A v \in Services : \A r \in local'[v] : OwnerOf[r] = v
                /\ \A r \in Subs : Live(r)' <=> Live(r) \/ r = s
           /\ local' = [local EXCEPT ![OwnerOf[s]] = @ \ {s}] =>
                /\ local' \in [Services -> SUBSET Subs]
                /\ \A v \in Services : \A r \in local'[v] : OwnerOf[r] = v
                /\ \A r \in Subs : Live(r)' <=> Live(r) /\ r # s
<1>1. /\ local \in [Services -> SUBSET Subs] /\ OwnerOf \in [Subs -> Services]
      /\ \A v \in Services : \A r \in local[v] : OwnerOf[r] = v
  BY SubscriptionAssumption DEF TypeOK
<1>2. ASSUME local' = [local EXCEPT ![OwnerOf[s]] = @ \cup {s}]
      PROVE  /\ local' \in [Services -> SUBSET Subs]
             /\ \A v \in Services : \A r \in local'[v] : OwnerOf[r] = v
             /\ \A r \in Subs : Live(r)' <=> Live(r) \/ r = s
  BY <1>1, <1>2 DEF Live
<1>3. ASSUME local' = [local EXCEPT ![OwnerOf[s]] = @ \ {s}]
      PROVE  /\ local' \in [Services -> SUBSET Subs]
             /\ \A v \in Services : \A r \in local'[v] : OwnerOf[r] = v
             /\ \A r \in Subs : Live(r)' <=> Live(r) /\ r # s
  BY <1>1, <1>3 DEF Live
<1> QED
  BY <1>2, <1>3

\* A call ends: its event is written.
LEMMA AcknowledgedCallInv ==
    ASSUME IInv, NEW t \in Tasks, Acknowledged(t)
    PROVE  CallInv'
<1> USE TaskKinds, EventsOfOne
<1> DEFINE s == SubOf(t)
<1>1. log' = log /\ OnTopic' = OnTopic
  BY DEF Acknowledged, OnTopic
<1>2. s \in Subs /\ OwnerOf[s] \in Services /\ TypeOK /\ CallInv
  BY SubscriptionAssumption DEF IInv
<1>3. \A r \in Subs : r \in sweep'[OwnerOf[r]] => r \in sweep[OwnerOf[r]]
  BY <1>2, SweepShrinks, SubscriptionAssumption DEF Acknowledged
<1>4. step[t] = "written"
  BY DEF Acknowledged
<1>5. CASE t[1] = "add"
  <2>1. t = Add(s)
    BY <1>5
  <2>2. CASE /\ ~Holds(local[OwnerOf[s]], s)
             /\ step' = [step EXCEPT ![t] = "done"]
             /\ local' = [local EXCEPT ![OwnerOf[s]] = @ \cup {s}]
             /\ UNCHANGED torn
    <3>1. \A u \in Tasks : step'[u] = IF u = t THEN "done" ELSE step[u]
      BY <2>2, <1>2, OneTask DEF Steps
    <3>2. \A r \in Subs : Live(r)' <=> Live(r) \/ r = s
      BY <2>2, <1>2, LocalManager
    <3> HIDE DEF s
    <3>3. RemovedAfterAdded'
      BY <1>1, <1>2, <1>3, <1>4, <2>1, <3>1, <3>2 DEF CallInv, RemovedAfterAdded
    <3>4. CallsFollowEvents'
      BY <1>1, <1>2, <1>4, <2>1, <3>1, <3>2 DEF CallInv, CallsFollowEvents
    <3>5. TornIsMarked'
      BY <1>1, <1>2, <1>4, <2>1, <2>2, <3>1, <3>2
         DEF CallInv, RemovedAfterAdded, TornIsMarked
    <3> QED
      BY <3>3, <3>4, <3>5 DEF CallInv
  <2>3. CASE /\ Holds(local[OwnerOf[s]], s)
             /\ step' = [step EXCEPT ![t] = "raised"]
             /\ torn' = torn \cup {s}
             /\ UNCHANGED local
    <3>1. \A u \in Tasks : step'[u] = IF u = t THEN "raised" ELSE step[u]
      BY <2>3, <1>2, OneTask DEF Steps
    <3>2. \A r \in Subs : Live(r)' <=> Live(r)
      BY <2>3 DEF Live
    <3> HIDE DEF s
    <3>3. RemovedAfterAdded'
      BY <1>1, <1>2, <1>3, <1>4, <2>1, <3>1, <3>2 DEF CallInv, RemovedAfterAdded
    <3>4. CallsFollowEvents'
      BY <1>1, <1>2, <1>4, <2>1, <3>1, <3>2 DEF CallInv, CallsFollowEvents
    <3>5. TornIsMarked'
      BY <1>1, <1>2, <1>4, <2>1, <2>3, <3>1, <3>2 DEF CallInv, TornIsMarked
    <3> QED
      BY <3>3, <3>4, <3>5 DEF CallInv
  <2> QED
    BY <1>5, <2>2, <2>3 DEF Acknowledged, LocallyAdded
<1>6. CASE t[1] # "add"
  <2>1. t \in RemovalsOf(s) /\ Removed(s) \in OnTopic
    BY <1>2, <1>4, <1>6 DEF CallInv, CallsFollowEvents
  <2>2. CASE /\ s \in local[OwnerOf[s]]
             /\ step' = [step EXCEPT ![t] = "done"]
             /\ local' = [local EXCEPT ![OwnerOf[s]] = @ \ {s}]
             /\ torn' = torn \ {s}
    <3>1. \A u \in Tasks : step'[u] = IF u = t THEN "done" ELSE step[u]
      BY <2>2, <1>2, OneTask DEF Steps
    <3>2. \A r \in Subs : Live(r)' <=> Live(r) /\ r # s
      BY <2>2, <1>2, LocalManager
    <3>3. Live(s)
      BY <2>2 DEF Live
    <3> HIDE DEF s
    <3>4. RemovedAfterAdded'
      BY <1>1, <1>2, <1>3, <1>4, <2>1, <3>1, <3>2 DEF CallInv, RemovedAfterAdded
    <3>5. CallsFollowEvents'
      BY <1>1, <1>2, <1>4, <2>1, <3>1, <3>2 DEF CallInv, CallsFollowEvents
    <3>6. TornIsMarked'
      BY <1>1, <1>2, <1>4, <2>1, <2>2, <3>1, <3>2, <3>3
         DEF CallInv, RemovedAfterAdded, TornIsMarked
    <3> QED
      BY <3>4, <3>5, <3>6 DEF CallInv
  <2>3. CASE /\ s \notin local[OwnerOf[s]]
             /\ step' = [step EXCEPT ![t] = "raised"]
             /\ UNCHANGED <<local, torn>>
    <3>1. \A u \in Tasks : step'[u] = IF u = t THEN "raised" ELSE step[u]
      BY <2>3, <1>2, OneTask DEF Steps
    <3>2. ~Live(s) /\ \A r \in Subs : Live(r)' <=> Live(r)
      BY <2>3 DEF Live
    <3> HIDE DEF s
    <3>3. RemovedAfterAdded'
      BY <1>1, <1>2, <1>3, <1>4, <2>1, <3>1, <3>2 DEF CallInv, RemovedAfterAdded
    <3>4. CallsFollowEvents'
      BY <1>1, <1>2, <1>4, <2>1, <3>1, <3>2 DEF CallInv, CallsFollowEvents
    <3>5. TornIsMarked'
      BY <1>1, <1>2, <1>4, <2>1, <2>3, <3>1, <3>2 DEF CallInv, TornIsMarked
    <3> QED
      BY <3>3, <3>4, <3>5 DEF CallInv
  <2> QED
    BY <1>6, <2>2, <2>3 DEF Acknowledged, LocallyRemoved
<1> QED
  BY <1>5, <1>6

\* A call fails: if its event is written, and would have changed the local
\* manager, its subscription is torn.
LEMMA SendFailedCallInv ==
    ASSUME IInv, NEW t \in Tasks, SendFailed(t)
    PROVE  CallInv'
<1> USE TaskKinds, EventsOfOne
<1> DEFINE s == SubOf(t)
<1>1. log' = log /\ local' = local /\ OnTopic' = OnTopic
  BY DEF SendFailed, OnTopic
<1>2. s \in Subs /\ TypeOK /\ CallInv
  BY DEF IInv
<1>3. \A r \in Subs : r \in sweep'[OwnerOf[r]] => r \in sweep[OwnerOf[r]]
  BY <1>2, SweepShrinks, SubscriptionAssumption DEF SendFailed
<1>4. \A u \in Tasks : step'[u] = IF u = t THEN "raised" ELSE step[u]
  BY <1>2, OneTask DEF SendFailed, Steps
<1>5. \A r \in Subs : Live(r)' <=> Live(r)
  BY <1>1 DEF Live
<1>6. \/ step[t] = "sending" /\ torn' = torn
      \/ /\ step[t] = "written"
         /\ torn' = IF t[1] = "add" \/ Live(s) THEN torn \cup {s} ELSE torn
  BY DEF SendFailed, Live
<1>7. \/ t = Add(s) /\ t[1] = "add"
      \/ t \in RemovalsOf(s) /\ t[1] # "add"
  OBVIOUS
<1> HIDE DEF s
<1>8. RemovedAfterAdded'
  BY <1>1, <1>2, <1>3, <1>4, <1>5, <1>6, <1>7 DEF CallInv, RemovedAfterAdded
<1>9. CallsFollowEvents'
  BY <1>1, <1>2, <1>4, <1>5, <1>6, <1>7 DEF CallInv, CallsFollowEvents
<1>10. TornIsMarked'
  BY <1>1, <1>2, <1>4, <1>5, <1>6, <1>7
     DEF CallInv, RemovedAfterAdded, CallsFollowEvents, TornIsMarked
<1> QED
  BY <1>8, <1>9, <1>10 DEF CallInv

\* A crash tears what it has begun to announce.
LEMMA CrashCallInv ==
    ASSUME IInv, NEW v \in Services, Crash(v)
    PROVE  CallInv'
<1> USE TaskKinds, EventsOfOne
<1>1. log' = log /\ OnTopic' = OnTopic
  BY DEF Crash, OnTopic
<1>2. TypeOK /\ CallInv
  BY DEF IInv
<1>3. \A r \in Subs : r \in sweep'[OwnerOf[r]] => r \in sweep[OwnerOf[r]]
  BY <1>2, SubscriptionAssumption DEF Crash, TypeOK
<1>4. \A u \in Tasks : step'[u] = IF OwnerOf[SubOf(u)] = v /\ step[u] # "idle"
                                  THEN "died" ELSE step[u]
  BY DEF Crash
<1>5. \A r \in Subs : Live(r)' <=> Live(r) /\ OwnerOf[r] # v
  BY <1>2, SubscriptionAssumption DEF Crash, TypeOK, Live
<1>6. torn' = torn \cup {r \in Subs : OwnerOf[r] = v /\ step[Add(r)] # "idle"}
  BY DEF Crash, Add
<1>7. RemovedAfterAdded'
  BY <1>1, <1>2, <1>3, <1>4, <1>5 DEF CallInv, RemovedAfterAdded
<1>8. CallsFollowEvents'
  BY <1>1, <1>2, <1>4, <1>5 DEF CallInv, CallsFollowEvents
<1>9. TornIsMarked'
  BY <1>1, <1>2, <1>4, <1>5, <1>6 DEF CallInv, CallsFollowEvents, TornIsMarked
<1> QED
  BY <1>7, <1>8, <1>9 DEF CallInv

-----------------------------------------------------------------------------
(* Types                                                                   *)

\* Calls keep the types.
LEMMA CallTypes ==
    ASSUME TypeOK, \/ \E s \in Subs : SubStep(s)
                   \/ \E t \in Tasks : TaskStep(t)
    PROVE  TypeOK'
<1> USE TaskKinds DEF consumerVars
<1>1. ASSUME NEW s \in Subs, SubStep(s)
      PROVE  TypeOK'
  <2>1. Add(s) \in Tasks /\ RemovalsOf(s) \subseteq Tasks
    OBVIOUS
  <2>2. step' \in [Tasks -> Steps]
    <3>1. PICK t \in Tasks : step' = [step EXCEPT ![t] = "sending"]
      BY <1>1, <2>1 DEF SubStep, AddSubscription, RemoveSubscription, SweepNext,
                        Add, RemovalsOf
    <3> QED
      BY <3>1, OneTask DEF Steps, InFlight
  <2> QED
    BY <1>1, <2>2 DEF TypeOK, SubStep, AddSubscription, RemoveSubscription, SweepNext
<1>2. ASSUME NEW t \in Tasks, Broadcast(t)
      PROVE  TypeOK'
  <2>1. step' \in [Tasks -> Steps]
    BY <1>2 DEF TypeOK, Broadcast, Steps, InFlight
  <2>2. PICK p \in Partitions : log' = [log EXCEPT ![p] = Append(@, EventOf(t))]
    BY <1>2 DEF Broadcast
  <2>3. /\ log' \in [Partitions -> Seq(Event)]
        /\ Len(log'[p]) = Len(log[p]) + 1
        /\ \A q \in Partitions : Len(log[q]) \in Nat /\ (q # p => log'[q] = log[q])
    BY <2>2, OneMoreEvent
  <2>4. \A v \in Services, q \in Partitions : pos[v][q] \in Nat /\ pos[v][q] <= Len(log[q])
    BY DEF TypeOK
  <2>5. \A v \in Services, q \in Partitions : pos[v][q] <= Len(log'[q])
    BY <2>3, <2>4
  <2> QED
    BY <1>2, <2>1, <2>3, <2>5 DEF TypeOK, Broadcast
<1>3. ASSUME NEW t \in Tasks, Acknowledged(t) \/ SendFailed(t)
      PROVE  TypeOK'
  <2>1. SubOf(t) \in Subs
    OBVIOUS
  <2>2. step' \in [Tasks -> Steps]
    <3>1. PICK x \in {"done", "raised"} : step' = [step EXCEPT ![t] = x]
      BY <1>3 DEF Acknowledged, LocallyAdded, LocallyRemoved, SendFailed
    <3> QED
      BY <3>1, OneTask DEF Steps
  <2>3. torn' \subseteq Subs
    BY <1>3, <2>1 DEF TypeOK, Acknowledged, LocallyAdded, LocallyRemoved, SendFailed
  <2>4. /\ local' \in [Services -> SUBSET Subs]
        /\ \A v \in Services : \A s \in local'[v] : OwnerOf[s] = v
    <3>1. \/ local' = local
          \/ local' = [local EXCEPT ![OwnerOf[SubOf(t)]] = @ \cup {SubOf(t)}]
          \/ local' = [local EXCEPT ![OwnerOf[SubOf(t)]] = @ \ {SubOf(t)}]
      BY <1>3 DEF Acknowledged, LocallyAdded, LocallyRemoved, SendFailed
    <3>2. CASE local' = local
      BY <3>2 DEF TypeOK
    <3> QED
      BY <2>1, <3>1, <3>2, LocalManager
  <2>5. /\ sweep' \in [Services -> SUBSET Subs]
        /\ \A v \in Services : sweep'[v] \subseteq sweep[v]
    BY <1>3, SweepShrinks DEF Acknowledged, SendFailed
  <2>6. UNCHANGED <<log, consumerVars, crashes, content>>
    BY <1>3 DEF Acknowledged, SendFailed
  <2> QED
    BY <2>2, <2>3, <2>4, <2>5, <2>6 DEF TypeOK
<1> QED
  BY <1>1, <1>2, <1>3 DEF TaskStep

\* One row of a consumer's positions.
LEMMA OneRow ==
    ASSUME NEW f \in [Services -> [Partitions -> Nat]], NEW v \in Services,
           NEW r \in [Partitions -> Nat]
    PROVE  /\ [f EXCEPT ![v] = r] \in [Services -> [Partitions -> Nat]]
           /\ \A w \in Services : [f EXCEPT ![v] = r][w] = IF w = v THEN r ELSE f[w]
  OBVIOUS

\* One position of one consumer.
LEMMA OnePosition ==
    ASSUME NEW f \in [Services -> [Partitions -> Nat]], NEW v \in Services,
           NEW p \in Partitions, NEW n \in Nat
    PROVE  /\ [f EXCEPT ![v][p] = n] \in [Services -> [Partitions -> Nat]]
           /\ \A w \in Services, q \in Partitions :
                 [f EXCEPT ![v][p] = n][w][q] = IF w = v /\ q = p THEN n ELSE f[w][q]
  OBVIOUS

\* What a consumer handles is an event.
LEMMA HandledEvent ==
    ASSUME TypeOK, NEW v \in Services, NEW p \in Partitions, pos[v][p] < Len(log[p])
    PROVE  /\ pos[v][p] \in Nat /\ pos[v][p] + 1 \in 1..Len(log[p])
           /\ log[p][pos[v][p] + 1] \in Event
<1>1. pos[v][p] \in Nat /\ Len(log[p]) \in Nat /\ log[p] \in Seq(Event)
  BY DEF TypeOK
<1>2. pos[v][p] + 1 \in 1..Len(log[p])
  BY <1>1
<1> QED
  BY <1>1, <1>2

\* A view stays a set of subscriptions.
LEMMA AppliedType ==
    ASSUME NEW view \in SUBSET Subs, NEW e \in Event
    PROVE  Applied(view, e) \subseteq Subs
  BY EventKinds DEF Applied

\* The services keep the types.
LEMMA ServiceTypes ==
    ASSUME TypeOK, NEW v \in Services, ServiceStep(v)
    PROVE  TypeOK'
<1>0. /\ pos \in [Services -> [Partitions -> Nat]]
      /\ base \in [Services -> [Partitions -> Nat]]
      /\ \A w \in Services, q \in Partitions : pos[w][q] <= Len(log[q])
      /\ \A q \in Partitions : Len(log[q]) \in Nat
      /\ global \in [Services -> SUBSET Subs]
  BY DEF TypeOK
<1>1. CASE UnsubscribeAll(v)
  <2>1. /\ sweep' \in [Services -> SUBSET Subs]
        /\ \A w \in Services : \A s \in sweep'[w] : OwnerOf[s] = w
    BY <1>1 DEF TypeOK, UnsubscribeAll, Snapshot
  <2> QED
    BY <1>1, <2>1 DEF TypeOK, UnsubscribeAll, consumerVars
<1>2. CASE Position(v)
  <2> DEFINE ends == [p \in Partitions |-> Len(log[p])]
  <2>1. ends \in [Partitions -> Nat]
    BY <1>0
  <2>2. /\ pos' \in [Services -> [Partitions -> Nat]]
        /\ base' \in [Services -> [Partitions -> Nat]]
        /\ \A w \in Services : pos'[w] = IF w = v THEN ends ELSE pos[w]
    <3>1. pos' = [pos EXCEPT ![v] = ends] /\ base' = [base EXCEPT ![v] = ends]
      BY <1>2 DEF Position
    <3> HIDE DEF ends
    <3> QED
      BY ONLY <1>0, <2>1, <3>1, OneRow
  <2>3. \A w \in Services, q \in Partitions : pos'[w][q] <= Len(log[q])
    <3>1. \A q \in Partitions : ends[q] <= Len(log[q])
      BY <1>0
    <3> HIDE DEF ends
    <3> QED
      BY ONLY <1>0, <2>2, <3>1
  <2>4. positioned' \subseteq Services /\ amnesic' \subseteq Services
    BY <1>2 DEF Position, TypeOK
  <2> QED
    BY <1>2, <2>2, <2>3, <2>4 DEF TypeOK, Position
<1>3. CASE Crash(v)
  <2>1. step' \in [Tasks -> Steps]
    BY <1>3 DEF Crash, TypeOK, Steps
  <2>2. /\ local' \in [Services -> SUBSET Subs] /\ global' \in [Services -> SUBSET Subs]
        /\ sweep' \in [Services -> SUBSET Subs]
        /\ \A w \in Services : local'[w] \subseteq local[w] /\ sweep'[w] \subseteq sweep[w]
    BY <1>3 DEF Crash, TypeOK
  <2>3. torn' \subseteq Subs /\ amnesic' \subseteq Services /\ crashes' \in 0..MaxCrashes
    BY <1>3, SubscriptionAssumption DEF Crash, TypeOK
  <2> QED
    BY <1>3, <2>1, <2>2, <2>3 DEF TypeOK, Crash
<1>4. ASSUME NEW p \in Partitions, HandleEvent(v, p)
      PROVE  TypeOK'
  <2>1. pos[v][p] \in Nat /\ pos[v][p] < Len(log[p]) /\ log[p][pos[v][p] + 1] \in Event
    BY <1>4, HandledEvent DEF HandleEvent
  <2>2. pos' = [pos EXCEPT ![v][p] = pos[v][p] + 1]
    BY <1>4 DEF HandleEvent
  <2>3. /\ pos' \in [Services -> [Partitions -> Nat]]
        /\ \A w \in Services, q \in Partitions :
              pos'[w][q] = IF w = v /\ q = p THEN pos[v][p] + 1 ELSE pos[w][q]
    BY ONLY <1>0, <2>1, <2>2, OnePosition
  <2>4. \A w \in Services, q \in Partitions : pos'[w][q] <= Len(log[q])
    <3>1. pos[v][p] + 1 <= Len(log[p])
      BY <1>0, <2>1
    <3> QED
      BY ONLY <1>0, <2>3, <3>1
  <2>5. global' \in [Services -> SUBSET Subs]
    <3>1. Applied(global[v], log[p][pos[v][p] + 1]) \subseteq Subs
      BY <1>0, <2>1, AppliedType
    <3> QED
      BY <1>0, <1>4, <3>1 DEF HandleEvent
  <2> QED
    BY <1>4, <2>3, <2>4, <2>5 DEF TypeOK, HandleEvent
<1>5. ASSUME NEW p \in Partitions, Redeliver(v, p)
      PROVE  TypeOK'
  <2>1. pos[v][p] \in Nat /\ base[v][p] \in Nat /\ pos[v][p] > base[v][p]
    BY <1>0, <1>5 DEF Redeliver
  <2>2. pos[v][p] - 1 \in Nat /\ pos' = [pos EXCEPT ![v][p] = pos[v][p] - 1]
    BY <1>5, <2>1 DEF Redeliver
  <2>3. /\ pos' \in [Services -> [Partitions -> Nat]]
        /\ \A w \in Services, q \in Partitions :
              pos'[w][q] = IF w = v /\ q = p THEN pos[v][p] - 1 ELSE pos[w][q]
    BY ONLY <1>0, <2>1, <2>2, OnePosition
  <2>4. \A w \in Services, q \in Partitions : pos'[w][q] <= Len(log[q])
    <3>1. pos[v][p] - 1 <= Len(log[p])
      BY <1>0, <2>1
    <3> QED
      BY ONLY <1>0, <2>3, <3>1
  <2> QED
    BY <1>5, <2>3, <2>4 DEF TypeOK, Redeliver
<1> QED
  BY <1>1, <1>2, <1>3, <1>4, <1>5 DEF ServiceStep

-----------------------------------------------------------------------------
(* Views                                                                   *)

\* Steps that leave the topic and the views alone.
LEMMA ViewStutters ==
    ASSUME ViewInv, UNCHANGED <<log, global, pos, amnesic, content>>
    PROVE  ViewInv'
  BY DEF ViewInv, AddedIsFirst, ViewFollowsTopic, OnTopic, Passed, Scattered,
         HeldOrRival, RivalGone, Holds

\* A view that only grows keeps what stands for a subscription.
LEMMA HeldStays ==
    ASSUME NEW v \in Services, NEW s \in Subs, content' = content,
           global[v] \subseteq global'[v], OnTopic \subseteq OnTopic',
           HeldOrRival(v, s)
    PROVE  HeldOrRival(v, s)'
  BY DEF HeldOrRival, RivalGone, Holds

\* What is on the topic stays, and so do the subscriptions on several partitions.
LEMMA ScatteredStays ==
    ASSUME TypeOK, NEW p \in Partitions, NEW e \in Event,
           log' = [log EXCEPT ![p] = Append(@, e)], NEW s \in Subs, Scattered(s)
    PROVE  Scattered(s)'
<1>1. PICK q \in Partitions, r \in Partitions :
         /\ q # r
         /\ \E m \in DOMAIN log[q], n \in DOMAIN log[r] :
                log[q][m].sub = s /\ log[r][n].sub = s
  BY DEF Scattered
<1>2. ASSUME NEW k \in Partitions, NEW n \in DOMAIN log[k]
      PROVE  n \in DOMAIN log'[k] /\ log'[k][n] = log[k][n]
  <2>1. log[k] \in Seq(Event) /\ log'[k] \in Seq(Event)
    BY OneMoreEvent DEF TypeOK
  <2>2. n \in 1..Len(log[k]) /\ Len(log[k]) \in Nat
    BY <2>1
  <2>3. Len(log'[k]) >= Len(log[k]) /\ log'[k][n] = log[k][n]
    <3>1. CASE k = p
      BY <3>1, <2>2, OneMoreEvent
    <3>2. CASE k # p
      BY <3>2, <2>2, OneMoreEvent
    <3> QED
      BY <3>1, <3>2
  <2> QED
    BY ONLY <2>1, <2>2, <2>3
<1> QED
  BY <1>1, <1>2 DEF Scattered

\* A broadcast: no removal is on the topic before the addition, and nobody is
\* past what is written.
LEMMA BroadcastViewInv ==
    ASSUME IInv, NEW t \in Tasks, Broadcast(t)
    PROVE  ViewInv'
<1> DEFINE e == EventOf(t)
<1>1. PICK p \in Partitions : log' = [log EXCEPT ![p] = Append(@, e)]
  BY DEF Broadcast
<1>2. /\ e \in Event /\ TypeOK /\ CallInv /\ AddedIsFirst /\ ViewFollowsTopic
      /\ UNCHANGED <<global, pos, amnesic, content>> /\ step[t] = "sending"
  BY TaskKinds DEF IInv, ViewInv, Broadcast, consumerVars
<1>3. /\ Len(log'[p]) = Len(log[p]) + 1 /\ log'[p][Len(log[p]) + 1] = e
      /\ \A q \in Partitions :
            /\ Len(log[q]) \in Nat
            /\ q # p => log'[q] = log[q]
            /\ \A n \in 1..Len(log[q]) : log'[q][n] = log[q][n]
  BY <1>1, <1>2, OneMoreEvent
<1>4. OnTopic' = OnTopic \cup {e}
  BY <1>1, <1>2, OnTopicGrows
<1>5. ASSUME NEW v \in Services
      PROVE  Passed(v)' = Passed(v)
  <2>1. \A q \in Partitions : pos[v][q] \in Nat /\ pos[v][q] <= Len(log[q])
    BY <1>2 DEF TypeOK
  <2>2. \A q \in Partitions : \A n \in 1..pos[v][q] : log'[q][n] = log[q][n]
    BY ONLY <1>3, <2>1
  <2> QED
    BY <1>2, <2>2 DEF Passed
<1>6. \A s \in Subs : Added(s) = e => Removed(s) \notin OnTopic
  <2>1. SUFFICES ASSUME NEW s \in Subs, Added(s) = e
                 PROVE  Removed(s) \notin OnTopic
    OBVIOUS
  <2>2. t = Add(s)
    BY <2>1, TaskKinds, EventsOfOne
  <2> QED
    BY <1>2, <2>2 DEF CallInv, RemovedAfterAdded
<1>7. ASSUME NEW s \in Subs, Scattered(s)
      PROVE  Scattered(s)'
  BY <1>1, <1>2, <1>7, ScatteredStays
<1>8. \A s \in Subs : Added(s) \in Event /\ Removed(s) \in Event /\ Added(s) # Removed(s)
  BY TaskKinds
<1> HIDE DEF e
<1>9. AddedIsFirst'
  <2>1. SUFFICES ASSUME NEW s \in Subs, NEW q \in Partitions,
                        NEW m \in 1..Len(log'[q]), NEW n \in 1..Len(log'[q]),
                        log'[q][m] = Added(s), log'[q][n] = Removed(s)
                 PROVE  m < n
    BY DEF AddedIsFirst
  <2>2. CASE m \in 1..Len(log[q]) /\ n \in 1..Len(log[q])
    BY <1>2, <1>3, <2>1, <2>2 DEF AddedIsFirst
  <2>3. CASE m \notin 1..Len(log[q])
    <3>1. q = p /\ m = Len(log[p]) + 1
      BY <1>3, <2>3
    <3>2. e = Added(s) /\ n # m
      BY <1>3, <1>8, <2>1, <3>1
    <3>3. n \in 1..Len(log[p])
      BY <1>3, <3>1, <3>2
    <3>4. Removed(s) \in OnTopic
      BY <1>3, <1>8, <2>1, <3>1, <3>3 DEF OnTopic
    <3> QED
      BY <1>6, <3>2, <3>4
  <2>4. CASE m \in 1..Len(log[q]) /\ n \notin 1..Len(log[q])
    <3>1. Len(log[q]) \in Nat /\ Len(log'[q]) \in Nat
      <4>1. CASE q = p
        BY <1>3, <4>1
      <4>2. CASE q # p
        BY <1>3, <4>2
      <4> QED
        BY <4>1, <4>2
    <3> QED
      BY ONLY <3>1, <2>4, m \in 1..Len(log'[q]), n \in 1..Len(log'[q])
  <2> QED
    BY <2>2, <2>3, <2>4
<1>10. ViewFollowsTopic'
  BY <1>2, <1>4, <1>5, <1>7, HeldStays DEF ViewFollowsTopic
<1> QED
  BY <1>9, <1>10 DEF ViewInv

\* A consumer that takes its position is amnesic, or is past nothing.
LEMMA PositionViewInv ==
    ASSUME IInv, NEW v \in Services, Position(v)
    PROVE  ViewInv'
<1>1. /\ UNCHANGED <<log, global, content>> /\ TypeOK /\ AddedIsFirst /\ ViewFollowsTopic
      /\ amnesic \subseteq amnesic'
  BY DEF IInv, ViewInv, Position
<1>2. OnTopic' = OnTopic /\ AddedIsFirst' /\ \A s \in Subs : Scattered(s)' <=> Scattered(s)
  BY <1>1 DEF OnTopic, AddedIsFirst, Scattered
<1>3. ASSUME NEW w \in Services, w # v
      PROVE  Passed(w)' = Passed(w)
  <2>1. pos'[w] = pos[w]
    BY <1>1, <1>3 DEF Position, TypeOK
  <2> QED
    BY <1>1, <2>1 DEF Passed
<1>4. ASSUME v \notin amnesic'
      PROVE  Passed(v)' = {}
  <2>1. \A p \in Partitions : log[p] = <<>>
    BY <1>4 DEF Position
  <2>2. \A p \in Partitions : pos'[v][p] = 0
    BY <2>1 DEF Position, IInv, TypeOK
  <2> QED
    BY <2>2 DEF Passed
<1>5. ViewFollowsTopic'
  BY <1>1, <1>2, <1>3, <1>4, HeldStays DEF ViewFollowsTopic
<1> QED
  BY <1>2, <1>5 DEF ViewInv

\* A consumer that goes back is past less.
LEMMA RedeliverViewInv ==
    ASSUME IInv, NEW v \in Services, NEW p \in Partitions, Redeliver(v, p)
    PROVE  ViewInv'
<1>1. /\ UNCHANGED <<log, global, amnesic, content>> /\ TypeOK /\ AddedIsFirst /\ ViewFollowsTopic
  BY DEF IInv, ViewInv, Redeliver
<1>2. OnTopic' = OnTopic /\ AddedIsFirst' /\ \A s \in Subs : Scattered(s)' <=> Scattered(s)
  BY <1>1 DEF OnTopic, AddedIsFirst, Scattered
<1>3. ASSUME NEW w \in Services
      PROVE  Passed(w)' \subseteq Passed(w)
  <2>1. pos \in [Services -> [Partitions -> Nat]] /\ base[v][p] \in Nat
    BY <1>1 DEF TypeOK
  <2>2. pos[v][p] - 1 \in Nat /\ pos' = [pos EXCEPT ![v][p] = pos[v][p] - 1]
    BY <2>1 DEF Redeliver
  <2>3. \A q \in Partitions : /\ pos[w][q] \in Nat
                              /\ pos'[w][q] \in {pos[w][q], pos[w][q] - 1}
    BY ONLY <2>1, <2>2, OnePosition
  <2>4. \A q \in Partitions : 1..pos'[w][q] \subseteq 1..pos[w][q]
    BY ONLY <2>3
  <2> QED
    BY <1>1, <2>4 DEF Passed
<1>4. ViewFollowsTopic'
  BY <1>1, <1>2, <1>3, HeldStays DEF ViewFollowsTopic
<1> QED
  BY <1>2, <1>4 DEF ViewInv

\* A service that crashes is amnesic.
LEMMA CrashViewInv ==
    ASSUME IInv, NEW v \in Services, Crash(v)
    PROVE  ViewInv'
<1>1. /\ UNCHANGED <<log, pos, content>> /\ AddedIsFirst /\ ViewFollowsTopic
      /\ amnesic' = amnesic \cup {v} /\ \A w \in Services : global'[w] \subseteq global[w]
      /\ \A w \in Services : w # v => global'[w] = global[w]
  BY DEF IInv, ViewInv, Crash, TypeOK
<1>2. /\ OnTopic' = OnTopic /\ AddedIsFirst' /\ \A s \in Subs : Scattered(s)' <=> Scattered(s)
      /\ \A w \in Services : Passed(w)' = Passed(w)
  BY <1>1 DEF OnTopic, AddedIsFirst, Scattered, Passed
<1>3. ViewFollowsTopic'
  BY <1>1, <1>2, HeldStays DEF ViewFollowsTopic
<1> QED
  BY <1>2, <1>3 DEF ViewInv

\* An event is handled: an addition has no removal behind the consumer unless
\* that is on another partition, and no other event drops the subscription.
LEMMA HandleEventViewInv ==
    ASSUME IInv, NEW v \in Services, NEW p \in Partitions, HandleEvent(v, p)
    PROVE  ViewInv'
<1> DEFINE n == pos[v][p] + 1
           e == log[p][n]
<1>1. /\ UNCHANGED <<log, amnesic, content>> /\ TypeOK /\ AddedIsFirst /\ ViewFollowsTopic
      /\ global \in [Services -> SUBSET Subs] /\ pos \in [Services -> [Partitions -> Nat]]
  BY DEF IInv, ViewInv, HandleEvent, TypeOK
<1>2. /\ pos[v][p] \in Nat /\ n \in 1..Len(log[p]) /\ e \in Event
      /\ Len(log[p]) \in Nat
  BY <1>1, HandledEvent DEF HandleEvent, TypeOK
<1>3. \A w \in Services, q \in Partitions :
         pos'[w][q] = IF w = v /\ q = p THEN n ELSE pos[w][q]
  <2>1. n \in Nat /\ pos' = [pos EXCEPT ![v][p] = n]
    BY <1>2 DEF HandleEvent
  <2> HIDE DEF n
  <2> QED
    BY ONLY <1>1, <2>1, OnePosition
<1>4. \A w \in Services : global'[w] = IF w = v THEN Applied(global[v], e) ELSE global[w]
  BY <1>1 DEF HandleEvent
<1>5. OnTopic' = OnTopic /\ AddedIsFirst' /\ \A s \in Subs : Scattered(s)' <=> Scattered(s)
  BY <1>1 DEF OnTopic, AddedIsFirst, Scattered
<1>6. ASSUME NEW w \in Services, w # v
      PROVE  Passed(w)' = Passed(w) /\ global'[w] = global[w]
  BY <1>1, <1>3, <1>4, <1>6 DEF Passed
<1>7. Passed(v)' = Passed(v) \cup {e}
  <2>1. \A q \in Partitions : q # p => pos'[v][q] = pos[v][q]
    BY <1>3
  <2>2. pos'[v][p] = n /\ 1..n = (1..pos[v][p]) \cup {n}
    BY <1>2, <1>3
  <2>3. log' = log
    BY <1>1
  <2>4. e = log[p][n]
    OBVIOUS
  <2> HIDE DEF n, e
  <2>5. ASSUME NEW d \in Event
        PROVE  (\E q \in Partitions : \E k \in 1..pos'[v][q] : log[q][k] = d) <=>
               (\E q \in Partitions : \E k \in 1..pos[v][q] : log[q][k] = d) \/ d = e
    BY ONLY <2>1, <2>2, <2>4, p \in Partitions
  <2> QED
    BY <1>2, <2>3, <2>5 DEF Passed
<1>8. e \in OnTopic
  BY <1>2 DEF OnTopic
<1>9. ASSUME NEW s \in Subs
      PROVE  /\ s \in global'[v] => Added(s) \in OnTopic
             /\ v \notin amnesic =>
                   /\ /\ Added(s) \in Passed(v) \cup {e}
                      /\ Removed(s) \notin OnTopic
                      => HeldOrRival(v, s)'
                   /\ Removed(s) \in Passed(v) \cup {e} /\ s \in global'[v] => Scattered(s)
  <2>1. e.sub \in Subs /\ global[v] \subseteq Subs
    BY <1>1, <1>2, EventKinds
  <2>2. CASE e.op = "ADDED"
    <3>1. e = Added(e.sub) /\ \A r \in Subs : e # Removed(r)
      BY <1>2, <2>2, EventKinds, EventsOfOne
    <3>2. /\ \A r \in global[v] : r \in global'[v]
          /\ \A r \in global'[v] : r \in global[v] \/ r = e.sub
      BY <1>4, <2>2 DEF Applied
    <3>3. /\ s = e.sub => HeldOrRival(v, s)'
          /\ HeldOrRival(v, s) => HeldOrRival(v, s)'
      <4>1. global[v] \subseteq global'[v]
        BY <3>2
      <4>2. s = e.sub => Holds(global'[v], s)
        BY <1>4, <2>1, <2>2 DEF Applied, Holds
      <4>3. Holds(global'[v], s) => HeldOrRival(v, s)'
        BY <1>1 DEF HeldOrRival, Holds
      <4> QED
        BY <1>1, <1>5, <4>1, <4>2, <4>3, HeldStays
    <3>4. ASSUME Removed(s) \in Passed(v), s = e.sub
          PROVE  Scattered(s)
      <4>1. PICK q \in Partitions : \E k \in 1..pos[v][q] : log[q][k] = Removed(s)
        BY <3>4 DEF Passed
      <4>2. PICK k \in 1..pos[v][q] : log[q][k] = Removed(s)
        BY <4>1
      <4>3. pos[v][q] \in Nat /\ pos[v][q] <= Len(log[q]) /\ log[q] \in Seq(Event)
            /\ log[p] \in Seq(Event)
        BY <1>1 DEF TypeOK
      <4>4. k \in 1..Len(log[q])
        BY <4>3
      <4>5. q # p
        <5>1. SUFFICES ASSUME q = p PROVE FALSE
          OBVIOUS
        <5>2. n < k
          <6>1. log[p][n] = Added(s) /\ log[p][k] = Removed(s) /\ k \in 1..Len(log[p])
            BY <3>1, <3>4, <4>2, <4>4, <5>1
          <6> QED
            BY <1>1, <1>2, <6>1 DEF AddedIsFirst
        <5> QED
          BY <1>2, <5>1, <5>2
      <4>6. log[q][k].sub = s /\ log[p][n].sub = s
        BY <3>1, <3>4, <4>2 DEF Removed
      <4>7. k \in DOMAIN log[q] /\ n \in DOMAIN log[p]
        BY <1>2, <4>3, <4>4
      <4> HIDE DEF n
      <4> QED
        BY <4>5, <4>6, <4>7 DEF Scattered
    <3> HIDE DEF e
    <3>5. Added(s) = e => s = e.sub
      BY <2>1, <3>1, EventsOfOne
    <3> QED
      BY <1>1, <1>8, <3>1, <3>2, <3>3, <3>4, <3>5 DEF ViewFollowsTopic
  <2>3. CASE e.op # "ADDED"
    <3>1. e = Removed(e.sub) /\ \A r \in Subs : e # Added(r)
      BY <1>2, <2>3, EventKinds, EventsOfOne
    <3>2. global'[v] = global[v] \ {e.sub}
      BY <1>4, <2>3 DEF Applied
    <3> HIDE DEF e
    <3>3. Removed(s) = e <=> s = e.sub
      BY <2>1, <3>1, EventsOfOne
    <3>4. ASSUME HeldOrRival(v, s), Removed(s) \notin OnTopic
          PROVE  HeldOrRival(v, s)'
      <4>1. content' = content
        BY <1>1
      <4>2. CASE RivalGone(s)
        BY <1>5, <4>1, <4>2 DEF HeldOrRival, RivalGone
      <4>3. CASE Holds(global[v], s)
        <5>1. PICK h \in global[v] : h = s \/ content[h] = content[s]
          BY <4>3 DEF Holds
        <5>2. CASE h # e.sub
          BY <3>2, <4>1, <5>1, <5>2 DEF HeldOrRival, Holds
        <5>3. CASE h = e.sub
          <6>1. e.sub # s /\ content[e.sub] = content[s]
            BY <1>8, <3>3, <3>4, <5>1, <5>3
          <6> QED
            BY <1>5, <1>8, <2>1, <3>1, <4>1, <6>1 DEF HeldOrRival, RivalGone
        <5> QED
          BY <5>2, <5>3
      <4> QED
        BY <3>4, <4>2, <4>3 DEF HeldOrRival
    <3> QED
      BY <1>1, <1>8, <3>1, <3>2, <3>3, <3>4 DEF ViewFollowsTopic
  <2> QED
    BY <2>2, <2>3
<1> HIDE DEF e
<1>10. ViewFollowsTopic'
  <2>1. \A w \in Services, s \in Subs :
           w # v /\ HeldOrRival(w, s) => HeldOrRival(w, s)'
    BY <1>1, <1>5, <1>6, HeldStays
  <2> QED
    BY <1>1, <1>5, <1>6, <1>7, <1>9, <2>1 DEF ViewFollowsTopic
<1> QED
  BY <1>5, <1>10 DEF ViewInv

-----------------------------------------------------------------------------
(* The specification                                                       *)

\* Nothing is announced or held at first.
LEMMA InitIInv == Init => IInv
<1> SUFFICES ASSUME Init PROVE IInv
  OBVIOUS
<1>1. TypeOK
  BY SubscriptionAssumption DEF Init, TypeOK, Steps
<1>2. OnTopic = {} /\ \A v \in Services : Passed(v) = {}
  BY DEF Init, OnTopic, Passed
<1>3. \A t \in Tasks : step[t] = "idle"
  BY DEF Init
<1>4. /\ \A s \in Subs : ~Live(s) /\ s \notin sweep[OwnerOf[s]]
      /\ \A v \in Services : global[v] = {}
  BY SubscriptionAssumption DEF Init, Live
<1>5. CallInv
  BY <1>2, <1>3, <1>4, TaskKinds
     DEF CallInv, RemovedAfterAdded, CallsFollowEvents, TornIsMarked
<1>6. AddedIsFirst
  BY DEF Init, AddedIsFirst
<1>7. ViewFollowsTopic
  BY <1>2, <1>4 DEF ViewFollowsTopic
<1> QED
  BY <1>1, <1>5, <1>6, <1>7 DEF IInv, ViewInv

\* Steps of the consumer and stutters leave the calls alone.
LEMMA CallStutters ==
    ASSUME CallInv, UNCHANGED <<local, sweep, step, log, torn>>
    PROVE  CallInv'
<1>1. OnTopic' = OnTopic /\ \A s \in Subs : Live(s)' <=> Live(s)
  BY DEF OnTopic, Live
<1> QED
  BY <1>1 DEF CallInv, RemovedAfterAdded, CallsFollowEvents, TornIsMarked

\* Every step keeps the invariant.
LEMMA NextIInv == IInv /\ [Next]_vars => IInv'
<1> SUFFICES ASSUME IInv, [Next]_vars PROVE IInv'
  OBVIOUS
<1>0. TypeOK /\ CallInv /\ ViewInv
  BY DEF IInv
<1>1. ASSUME NEW s \in Subs, SubStep(s)
      PROVE  IInv'
  <2>1. UNCHANGED <<log, global, pos, amnesic, content>>
    BY <1>1 DEF SubStep, AddSubscription, RemoveSubscription, SweepNext, consumerVars
  <2> QED
    BY <1>0, <1>1, <2>1, CallTypes, BeginCallInv, ViewStutters DEF IInv
<1>2. ASSUME NEW t \in Tasks, TaskStep(t)
      PROVE  IInv'
  <2>1. TypeOK'
    BY <1>0, <1>2, CallTypes
  <2>2. CASE Broadcast(t)
    BY <2>1, <2>2, BroadcastCallInv, BroadcastViewInv DEF IInv
  <2>3. CASE Acknowledged(t) \/ SendFailed(t)
    <3>1. UNCHANGED <<log, global, pos, amnesic, content>>
      BY <2>3 DEF Acknowledged, SendFailed, consumerVars
    <3> QED
      BY <1>0, <2>1, <2>3, <3>1, AcknowledgedCallInv, SendFailedCallInv, ViewStutters DEF IInv
  <2> QED
    BY <1>2, <2>2, <2>3 DEF TaskStep
<1>3. ASSUME NEW v \in Services, ServiceStep(v)
      PROVE  IInv'
  <2>1. TypeOK'
    BY <1>0, <1>3, ServiceTypes
  <2>2. CASE UnsubscribeAll(v)
    <3>1. UNCHANGED <<log, global, pos, amnesic, content>>
      BY <2>2 DEF UnsubscribeAll, consumerVars
    <3> QED
      BY <1>0, <2>1, <2>2, <3>1, UnsubscribeAllCallInv, ViewStutters DEF IInv
  <2>3. CASE Position(v)
    <3>1. UNCHANGED <<local, sweep, step, log, torn>>
      BY <2>3 DEF Position
    <3> QED
      BY <1>0, <2>1, <2>3, <3>1, CallStutters, PositionViewInv DEF IInv
  <2>4. CASE Crash(v)
    BY <2>1, <2>4, CrashCallInv, CrashViewInv DEF IInv
  <2>5. ASSUME NEW p \in Partitions, HandleEvent(v, p) \/ Redeliver(v, p)
        PROVE  IInv'
    <3>1. UNCHANGED <<local, sweep, step, log, torn>>
      BY <2>5 DEF HandleEvent, Redeliver
    <3> QED
      BY <1>0, <2>1, <2>5, <3>1, CallStutters, HandleEventViewInv, RedeliverViewInv DEF IInv
  <2> QED
    BY <1>3, <2>2, <2>3, <2>4, <2>5 DEF ServiceStep
<1>4. CASE UNCHANGED vars
  <2>1. UNCHANGED <<local, sweep, step, log, torn, global, pos, amnesic, content>>
    BY <1>4 DEF vars
  <2>2. TypeOK'
    BY <1>0, <1>4 DEF vars, TypeOK
  <2> QED
    BY <1>0, <2>1, <2>2, CallStutters, ViewStutters DEF IInv
<1> QED
  BY <1>1, <1>2, <1>3, <1>4 DEF Next

\* The invariant the theorems below follow from holds in every reachable state.
THEOREM Inductive == Spec => []IInv
  BY InitIInv, NextIInv, PTL DEF Spec

\* Every variable keeps its type, subscriptions are only in the local manager
\* of their service, and no consumer is past the end of the topic
\* (subscription_service.py).
THEOREM TypeCorrect == Spec => []TypeOK
<1>1. IInv => TypeOK
  BY DEF IInv
<1> QED
  BY <1>1, Inductive, PTL

\* A global manager that has consumed the topic has every subscription that a
\* local one holds, or an equal one unless such a one was removed, and holds none
\* that was removed unless its events went to several partitions, for all
\* subscriptions whose calls have ended as announced
\* (subscription_service.py 153-190 against 272-282).
THEOREM GlobalFollowsLocal == Spec => []GlobalViewFollowsLocal
<1>1. ASSUME IInv
      PROVE  GlobalViewFollowsLocal
  <2>1. SUFFICES ASSUME NEW v \in Services \ amnesic, NEW s \in Subs \ torn,
                        CaughtUp(v), Settled(s)
                 PROVE  /\ Live(s) => Holds(global[v], s) \/ RivalRemoved(s)
                        /\ s \in global[v] => Live(s) \/ Scattered(s)
    BY DEF GlobalViewFollowsLocal
  <2>2. Passed(v) = OnTopic
    BY <2>1 DEF CaughtUp, Passed, OnTopic
  <2>3. /\ step[Add(s)] # "written"
        /\ \A t \in RemovalsOf(s) : step[t] # "written"
    BY <2>1, TaskKinds DEF Settled, InFlight
  <2>4. CallInv /\ ViewFollowsTopic
    BY <1>1 DEF IInv, ViewInv
  <2>5. ASSUME Live(s)
        PROVE  Holds(global[v], s) \/ RivalRemoved(s)
    <3>1. Added(s) \in OnTopic
      BY <2>4, <2>5 DEF CallInv, RemovedAfterAdded, CallsFollowEvents
    <3>2. Removed(s) \notin OnTopic
      BY <2>3, <2>4, <2>5 DEF CallInv, TornIsMarked
    <3>3. HeldOrRival(v, s)
      BY <2>2, <2>4, <3>1, <3>2 DEF ViewFollowsTopic
    <3>4. ASSUME NEW r \in Subs, Removed(r) \in OnTopic
          PROVE  \E p \in Partitions : \E n \in DOMAIN log[p] : log[p][n] = Removed(r)
      <4>1. PICK p \in Partitions : \E n \in 1..Len(log[p]) : log[p][n] = Removed(r)
        BY <3>4 DEF OnTopic
      <4>2. log[p] \in Seq(Event)
        BY <1>1 DEF IInv, TypeOK
      <4> QED
        BY <4>1, <4>2
    <3> QED
      BY <3>3, <3>4 DEF HeldOrRival, RivalGone, RivalRemoved, Removed
  <2>6. ASSUME s \in global[v], ~Live(s)
        PROVE  Scattered(s)
    <3>1. step[Add(s)] = "done"
      BY <2>3, <2>4, <2>6 DEF CallInv, TornIsMarked, ViewFollowsTopic
    <3>2. Removed(s) \in OnTopic
      BY <2>4, <2>6, <3>1 DEF CallInv, CallsFollowEvents
    <3> QED
      BY <2>2, <2>4, <2>6, <3>2 DEF ViewFollowsTopic
  <2> QED
    BY <2>5, <2>6
<1> QED
  BY <1>1, Inductive, PTL
=============================================================================
