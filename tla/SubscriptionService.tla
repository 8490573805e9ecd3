------------------------- MODULE SubscriptionService -------------------------
(***************************************************************************)
(* Subscriptions across runtimes.                                          *)
(*                                                                         *)
(* Every SubscriptionService keeps the subscriptions of its own runtime in *)
(* _local_subscriptions and what it has consumed of everybody's in         *)
(* _global_subscriptions.  Adding or removing one broadcasts an event on   *)
(* the subscription topic first and changes the local manager when the     *)
(* send is acknowledged; the global managers change only on consumption.   *)
(* The events carry no key, so each goes to any partition of the topic and *)
(* a consumer may meet the removal of a subscription before its addition.  *)
(*                                                                         *)
(* A subscription stands for its id, a fresh uuid made by its owner.       *)
(***************************************************************************)
EXTENDS Naturals, Sequences

CONSTANTS
    Services,    \* the SubscriptionService instances
    Subs,        \* the subscription ids
    OwnerOf,     \* the service a subscription is added to
    Contents,    \* what the ids may be given: agent type and topic type
    Removals,    \* the ids the application also removes one by one
    Partitions,  \* the partitions of the subscription topic
    MaxCrashes,  \* bound: process crashes
    Faults       \* which of FaultKinds may happen

FaultKinds == {"send", "ack", "late", "redeliver"}

ASSUME SubscriptionAssumption ==
    /\ OwnerOf \in [Subs -> Services]
    /\ Removals \subseteq Subs
    /\ MaxCrashes \in Nat
    /\ Faults \subseteq FaultKinds

VARIABLES
    local,      \* service -> the ids in _local_subscriptions
    global,     \* service -> the ids in _global_subscriptions
    step,       \* where each call that broadcasts an event is
    sweep,      \* service -> what unsubscribe_all has left of its snapshot
    log,        \* partition -> the events on it
    pos,        \* service -> partition -> events its consumer is past
    base,       \* service -> partition -> where its consumer started
    positioned, \* services whose consumer has its position
    torn,       \* history: subscriptions a failure left announced otherwise
                \* than they are
    amnesic,    \* history: services that have missed or forgotten events
    crashes,    \* crashes so far (bounded by MaxCrashes)
    content     \* what the application subscribes under each id: in Contents,
                \* and never changed

vars == <<local, global, step, sweep, log, pos, base, positioned, torn,
          amnesic, crashes, content>>

consumerVars == <<global, pos, base, positioned, amnesic>>

\* add_subscription, remove_subscription, and the removal that unsubscribe_all
\* makes.
Tasks == {"add", "remove", "sweep"} \X Subs
SubOf(t) == t[2]

\* sending: the event is with the producer;  written: it is on the topic and
\* its acknowledgement is awaited.
InFlight == {"sending", "written"}
Steps == {"idle", "done", "raised", "died"} \cup InFlight

Event == [op : {"ADDED", "REMOVED"}, sub : Subs]
EventOf(t) == [op |-> IF t[1] = "add" THEN "ADDED" ELSE "REMOVED",
               sub |-> SubOf(t)]

Init ==
    /\ local = [v \in Services |-> {}]
    /\ global = [v \in Services |-> {}]
    /\ step = [t \in Tasks |-> "idle"]
    /\ sweep = [v \in Services |-> {}]
    /\ log = [p \in Partitions |-> <<>>]
    /\ pos = [v \in Services |-> [p \in Partitions |-> 0]]
    /\ base = [v \in Services |-> [p \in Partitions |-> 0]]
    /\ positioned = IF "late" \in Faults THEN {} ELSE Services
    /\ torn = {}
    /\ amnesic = {}
    /\ crashes = 0
    /\ content \in Contents

-----------------------------------------------------------------------------
(* SubscriptionManager (autogen_core)                                      *)

\* Two subscriptions are equal if they have the same id or the same content.
Holds(manager, s) == \E h \in manager : h = s \/ content[h] = content[s]

\* Variants with a bug, for the mutation of the definitions below.
AddSubscriptionLocalFirst(s) ==
    /\ step[<<"add", s>>] = "idle"
    /\ ~Holds(local[OwnerOf[s]], s)
    /\ step' = [step EXCEPT ![<<"add", s>>] = "sending"]
    /\ local' = [local EXCEPT ![OwnerOf[s]] = @ \cup {s}]
    /\ UNCHANGED <<sweep, log, consumerVars, torn, crashes, content>>
PositionPastEnd(v) ==
    /\ v \notin positioned
    /\ positioned' = positioned \cup {v}
    /\ pos' = [pos EXCEPT ![v] = [p \in Partitions |-> Len(log[p]) + 1]]
    /\ base' = pos'
    /\ UNCHANGED <<local, global, step, sweep, log, torn, amnesic, crashes,
                   content>>
SweepNextUnlessFailed(s) ==
    /\ s \in sweep[OwnerOf[s]]
    /\ \A r \in Subs : OwnerOf[r] = OwnerOf[s] =>
          step[<<"sweep", r>>] \notin InFlight \cup {"raised"}
    /\ step' = [step EXCEPT ![<<"sweep", s>>] = "sending"]
    /\ UNCHANGED <<local, sweep, log, consumerVars, torn, crashes, content>>

-----------------------------------------------------------------------------
(* Calls                                                                   *)

AddSubscription(s) ==
    /\ step[<<"add", s>>] = "idle"
    /\ step' = [step EXCEPT ![<<"add", s>>] = "sending"]
    /\ UNCHANGED <<local, sweep, log, consumerVars, torn, crashes, content>>

\* Applications remove what add_subscription has returned.
RemoveSubscription(s) ==
    /\ s \in Removals
    /\ step[<<"add", s>>] = "done"
    /\ step[<<"remove", s>>] = "idle"
    /\ step' = [step EXCEPT ![<<"remove", s>>] = "sending"]
    /\ UNCHANGED <<local, sweep, log, consumerVars, torn, crashes, content>>

Snapshot(v) == local[v]

\* unsubscribe_all works on a snapshot of the local manager.
UnsubscribeAll(v) ==
    /\ sweep[v] = {}
    /\ sweep' = [sweep EXCEPT ![v] =
                    {s \in Snapshot(v) : step[<<"sweep", s>>] = "idle"}]
    /\ sweep'[v] # {}
    /\ UNCHANGED <<local, step, log, consumerVars, torn, crashes, content>>

\* It removes one subscription after the other.
SweepNext(s) ==
    /\ s \in sweep[OwnerOf[s]]
    /\ \A r \in sweep[OwnerOf[s]] : step[<<"sweep", r>>] \notin InFlight
    /\ step' = [step EXCEPT ![<<"sweep", s>>] = "sending"]
    /\ UNCHANGED <<local, sweep, log, consumerVars, torn, crashes, content>>

\* The producer's partitioner places an event without a key anywhere.
Broadcast(t) ==
    /\ step[t] = "sending"
    /\ \E p \in Partitions : log' = [log EXCEPT ![p] = Append(@, EventOf(t))]
    /\ step' = [step EXCEPT ![t] = "written"]
    /\ UNCHANGED <<local, sweep, consumerVars, torn, crashes, content>>

\* After a removal, failed or not, unsubscribe_all goes on with the others.
SweepEnds(t) ==
    sweep' = IF t[1] = "sweep"
             THEN [sweep EXCEPT ![OwnerOf[SubOf(t)]] = @ \ {SubOf(t)}]
             ELSE sweep

\* The acknowledged addition reaches the local manager, which refuses a
\* subscription equal to one it holds: the broadcast is not taken back.
LocallyAdded(t) ==
    LET v == OwnerOf[SubOf(t)]
    IN  \/ /\ ~Holds(local[v], SubOf(t))
           /\ step' = [step EXCEPT ![t] = "done"]
           /\ local' = [local EXCEPT ![v] = @ \cup {SubOf(t)}]
           /\ UNCHANGED torn
        \/ /\ Holds(local[v], SubOf(t))
           /\ step' = [step EXCEPT ![t] = "raised"]
           /\ torn' = torn \cup {SubOf(t)}
           /\ UNCHANGED local

\* The local manager refuses to remove an id it does not hold.
LocallyRemoved(t) ==
    LET v == OwnerOf[SubOf(t)]
    IN  \/ /\ SubOf(t) \in local[v]
           /\ step' = [step EXCEPT ![t] = "done"]
           /\ local' = [local EXCEPT ![v] = @ \ {SubOf(t)}]
           /\ torn' = torn \ {SubOf(t)}
        \/ /\ SubOf(t) \notin local[v]
           /\ step' = [step EXCEPT ![t] = "raised"]
           /\ UNCHANGED <<local, torn>>

Acknowledged(t) ==
    /\ step[t] = "written"
    /\ IF t[1] = "add" THEN LocallyAdded(t) ELSE LocallyRemoved(t)
    /\ SweepEnds(t)
    /\ UNCHANGED <<log, consumerVars, crashes, content>>

\* The send raises before the local manager is touched.
SendFailed(t) ==
    /\ \/ step[t] = "sending" /\ "send" \in Faults /\ UNCHANGED torn
       \/ /\ step[t] = "written"
          /\ "ack" \in Faults
          /\ torn' = IF t[1] = "add" \/ SubOf(t) \in local[OwnerOf[SubOf(t)]]
                     THEN torn \cup {SubOf(t)} ELSE torn
    /\ step' = [step EXCEPT ![t] = "raised"]
    /\ SweepEnds(t)
    /\ UNCHANGED <<local, log, consumerVars, crashes, content>>

-----------------------------------------------------------------------------
(* The consumer                                                            *)

\* A consumer that gets its partitions starts at their ends ("latest").
Position(v) ==
    /\ v \notin positioned
    /\ positioned' = positioned \cup {v}
    /\ pos' = [pos EXCEPT ![v] = [p \in Partitions |-> Len(log[p])]]
    /\ base' = [base EXCEPT ![v] = [p \in Partitions |-> Len(log[p])]]
    /\ amnesic' = IF \A p \in Partitions : log[p] = <<>> THEN amnesic
                  ELSE amnesic \cup {v}
    /\ UNCHANGED <<local, global, step, sweep, log, torn, crashes, content>>

\* What the global manager refuses is only logged.
Applied(view, e) ==
    IF e.op = "ADDED"
    THEN IF Holds(view, e.sub) THEN view ELSE view \cup {e.sub}
    ELSE view \ {e.sub}

HandleEvent(v, p) ==
    /\ v \in positioned
    /\ pos[v][p] < Len(log[p])
    /\ pos' = [pos EXCEPT ![v][p] = @ + 1]
    /\ global' = [global EXCEPT ![v] = Applied(@, log[p][pos[v][p] + 1])]
    /\ UNCHANGED <<local, step, sweep, log, base, positioned, torn, amnesic,
                   crashes, content>>

\* At-least-once delivery: the group goes back to a committed offset.
Redeliver(v, p) ==
    /\ "redeliver" \in Faults
    /\ pos[v][p] > base[v][p]
    /\ pos' = [pos EXCEPT ![v][p] = @ - 1]
    /\ UNCHANGED <<local, global, step, sweep, log, base, positioned, torn,
                   amnesic, crashes, content>>

\* The process dies without removing anything and is started again.
Crash(v) ==
    /\ crashes < MaxCrashes
    /\ crashes' = crashes + 1
    /\ local' = [local EXCEPT ![v] = {}]
    /\ global' = [global EXCEPT ![v] = {}]
    /\ step' = [t \in Tasks |->
                  IF OwnerOf[SubOf(t)] = v /\ step[t] # "idle" THEN "died"
                  ELSE step[t]]
    /\ sweep' = [sweep EXCEPT ![v] = {}]
    /\ torn' = torn \cup {s \in Subs : OwnerOf[s] = v
                                       /\ step[<<"add", s>>] # "idle"}
    /\ amnesic' = amnesic \cup {v}
    /\ UNCHANGED <<log, pos, base, positioned, content>>

-----------------------------------------------------------------------------
ServiceStep(v) ==
    \/ UnsubscribeAll(v) \/ Position(v) \/ Crash(v)
    \/ \E p \in Partitions : HandleEvent(v, p) \/ Redeliver(v, p)

SubStep(s) == AddSubscription(s) \/ RemoveSubscription(s) \/ SweepNext(s)

TaskStep(t) == Broadcast(t) \/ Acknowledged(t) \/ SendFailed(t)

Next ==
    \/ \E v \in Services : ServiceStep(v)
    \/ \E s \in Subs : SubStep(s)
    \/ \E t \in Tasks : TaskStep(t)

Spec == Init /\ [][Next]_vars

\* The producer ends its sends and the event loop goes on with the calls that
\* wait; for the walk of unsubscribe_all no consumer has to be fair.
Fairness ==
    WF_vars(\/ \E t \in Tasks : Broadcast(t) \/ Acknowledged(t)
            \/ \E s \in Subs : SweepNext(s))

FairSpec == Spec /\ Fairness

-----------------------------------------------------------------------------
(* Properties                                                              *)

TypeOK ==
    /\ local \in [Services -> SUBSET Subs]
    /\ \A v \in Services : \A s \in local[v] : OwnerOf[s] = v
    /\ global \in [Services -> SUBSET Subs]
    /\ step \in [Tasks -> Steps]
    /\ sweep \in [Services -> SUBSET Subs]
    /\ \A v \in Services : \A s \in sweep[v] : OwnerOf[s] = v
    /\ log \in [Partitions -> Seq(Event)]
    /\ pos \in [Services -> [Partitions -> Nat]]
    /\ base \in [Services -> [Partitions -> Nat]]
    /\ \A v \in Services, p \in Partitions : pos[v][p] <= Len(log[p])
    /\ positioned \subseteq Services
    /\ torn \subseteq Subs
    /\ amnesic \subseteq Services
    /\ crashes \in 0..MaxCrashes
    /\ content \in Contents

CaughtUp(v) == \A p \in Partitions : pos[v][p] = Len(log[p])
Settled(s) == \A t \in Tasks : SubOf(t) = s => step[t] \notin InFlight
Live(s) == s \in local[OwnerOf[s]]

\* Nothing but the order on one partition relates a removal to its addition.
Scattered(s) ==
    \E p, q \in Partitions :
        /\ p # q
        /\ \E m \in DOMAIN log[p], n \in DOMAIN log[q] :
               log[p][m].sub = s /\ log[q][n].sub = s

\* The managers take two ids of one content for the same subscription.  A view
\* that has refused the second for the first loses both with the first.
RivalRemoved(s) ==
    \E r \in Subs \ {s} :
        /\ content[r] = content[s]
        /\ \E p \in Partitions : \E n \in DOMAIN log[p] :
               log[p][n] = [op |-> "REMOVED", sub |-> r]

\* A service that has consumed everything has every subscription that its owner
\* holds, or an equal one in its place, whatever the partitions reorder: it
\* misses none unless an equal one was removed.  And it holds none that its
\* owner has removed, unless its events went to several partitions.  But for
\* those a failed send or a crash has torn apart, and for services that have
\* missed events (subscription_service.py 153-190 against 272-282).
GlobalViewFollowsLocal ==
    \A v \in Services \ amnesic, s \in Subs \ torn :
        CaughtUp(v) /\ Settled(s) =>
            /\ Live(s) => Holds(global[v], s) \/ RivalRemoved(s)
            /\ s \in global[v] => Live(s) \/ Scattered(s)

\* unsubscribe_all gets through its snapshot, whichever removals fail or race
\* with remove_subscription (subscription_service.py 202-207).
SweepTerminates == \A v \in Services : sweep[v] # {} ~> sweep[v] = {}
=============================================================================
