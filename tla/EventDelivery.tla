---------------------------- MODULE EventDelivery ----------------------------
(***************************************************************************)
(* Published events: MessagingClient.publish_message writes a CloudEvent   *)
(* from a background task; the CloudEventProcessor of a runtime, a stream  *)
(* engine of its own, hands each record to MessageProcessor.process_event, *)
(* which computes the recipients from the local subscriptions, gets their  *)
(* agents one after the other (AgentInstances) and runs all of them at     *)
(* once.  It waits for them before the next event.                         *)
(*                                                                         *)
(* The module has one topic id, whose events Kafka keeps in order, and the *)
(* runtime that publishes and consumes them.  Every other runtime consumes *)
(* the same log in a group of its own in the same way.                     *)
(***************************************************************************)
EXTENDS AgentInstances, FiniteSets

CONSTANTS
    Events,           \* the publish_message calls
    SenderOf,         \* the agent each is made for, or Nobody
    Subs,             \* subscriptions of the runtime that match the topic id
    AgentOf,          \* the agent that each of them maps the topic id to
    MaxRedeliveries,  \* bound: redeliveries
    Faults            \* which of FaultKinds may happen

FaultKinds == {"refuse", "send", "malformed", "late"}

ASSUME DeliveryAssumption ==
    /\ SenderOf \in [Events -> Agents \cup {Nobody}]
    /\ AgentOf \in [Subs -> Agents]
    /\ MaxRedeliveries \in Nat
    /\ Faults \subseteq FaultKinds

VARIABLES
    pub,          \* where each publish_message and its send task are
    log,          \* the events on the topic
    pos,          \* how many the consumer is past
    base,         \* where the consumer started
    subs,         \* the matching subscriptions in the local manager, in order
    phase,        \* what the consumer does
    recipients,   \* of the event in hand
    running,      \* those that have not ended their on_message yet
    served,       \* history: event -> the agents whose on_message has run
    servedNow,    \* history: those it has run for in this delivery
    redeliveries  \* redeliveries so far (bounded by MaxRedeliveries)

consumerVars == <<pos, base, phase, recipients, running, served, servedNow,
                  redeliveries>>
deliveryVars == <<pub, log, subs, consumerVars>>

vars == <<managerVars, deliveryVars>>

\* over: refused, or its background task has ended.
PubStates == {"idle", "sending", "over"}

\* collect: getting the recipients' agents;  serve: they run;  failed: an
\* exception has left the handler and kstreams has stopped the stream.
Phases == {"starting", "ready", "collect", "serve", "failed"}

Init ==
    /\ ManagerInit
    /\ pub = [e \in Events |-> "idle"]
    /\ log = <<>>
    /\ pos = 0
    /\ base = 0
    /\ subs = <<>>
    /\ phase = IF "late" \in Faults THEN "starting" ELSE "ready"
    /\ recipients = <<>>
    /\ running = {}
    /\ served = [e \in Events |-> {}]
    /\ servedNow = {}
    /\ redeliveries = 0

-----------------------------------------------------------------------------
(* publish_message                                                         *)

\* A message is refused when the client is not started or cannot serialize it.
\* Else the caller has its return before anything is sent.
Publish(e) ==
    /\ pub[e] = "idle"
    /\ \/ pub' = [pub EXCEPT ![e] = "sending"]
       \/ "refuse" \in Faults /\ pub' = [pub EXCEPT ![e] = "over"]
    /\ UNCHANGED <<log, subs, consumerVars, managerVars>>

\* The background task ends: the event is written, acknowledged or not, or it
\* is not, as the send failed or the client had stopped before the task began
\* (RequestReply has that race).  Nobody hears of it.
EndSend(e) ==
    /\ pub[e] = "sending"
    /\ pub' = [pub EXCEPT ![e] = "over"]
    /\ \/ log' = Append(log, e)
       \/ "send" \in Faults /\ UNCHANGED log
    /\ UNCHANGED <<subs, consumerVars, managerVars>>

-----------------------------------------------------------------------------
(* The local subscriptions (SubscriptionService)                           *)

Subscribed(s) == \E i \in DOMAIN subs : subs[i] = s

AddSubscription(s) ==
    /\ ~Subscribed(s)
    /\ subs' = Append(subs, s)
    /\ UNCHANGED <<pub, log, consumerVars, managerVars>>

Without(i) == SubSeq(subs, 1, i - 1) \o SubSeq(subs, i + 1, Len(subs))

RemoveSubscription(s) ==
    /\ \E i \in DOMAIN subs : subs[i] = s /\ subs' = Without(i)
    /\ UNCHANGED <<pub, log, consumerVars, managerVars>>

-----------------------------------------------------------------------------
(* process_event                                                           *)

\* A consumer that gets its partitions starts at their ends ("latest").
Position ==
    /\ phase = "starting"
    /\ phase' = "ready"
    /\ pos' = Len(log)
    /\ base' = Len(log)
    /\ UNCHANGED <<recipients, running, served, servedNow, redeliveries,
                   pub, log, subs, managerVars>>

Current == log[pos + 1]

\* Variants with a bug, for the mutation of the definitions below.
RecipientsOfFirst == IF subs = <<>> THEN <<>> ELSE <<AgentOf[Head(subs)]>>
RedeliverFromAnywhere ==
    /\ redeliveries < MaxRedeliveries
    /\ phase = "ready"
    /\ pos > 0
    /\ pos' = pos - 1
    /\ redeliveries' = redeliveries + 1
    /\ UNCHANGED <<base, phase, recipients, running, served, servedNow,
                   pub, log, subs, managerVars>>
ServeWhileCollecting(i) ==
    /\ phase \in {"collect", "serve"}
    /\ i \in running
    /\ running' = running \ {i}
    /\ served' = [served EXCEPT ![Current] = @ \cup {recipients[i]}]
    /\ servedNow' = servedNow \cup {recipients[i]}
    /\ UNCHANGED <<pos, base, phase, recipients, redeliveries, pub, log,
                   subs, managerVars>>

\* get_subscribed_recipients, in the order of the local manager.
Recipients == [i \in DOMAIN subs |-> AgentOf[subs[i]]]

\* The loop passes over the sender of the event, who does not get it back, to
\* the next agent that it has to get; after the last one all of them run.
GoOn(todo) ==
    LET Skipped(i) == todo[i] = SenderOf[Current]
    IN  \/ /\ \A i \in DOMAIN todo : Skipped(i)
           /\ phase' = "serve"
           /\ seek' = [seek EXCEPT ![Handler] = [at |-> "done", todo |-> <<>>]]
        \/ /\ phase' = "collect"
           /\ \E i \in DOMAIN todo :
                 /\ ~Skipped(i) /\ \A j \in 1..(i - 1) : Skipped(j)
                 /\ seek' = [seek EXCEPT ![Handler] =
                       [at |-> "next", todo |-> SubSeq(todo, i, Len(todo))]]

\* The handler takes the next event.  A payload that cannot be decoded, or of
\* a content type it does not know, raises before any agent is looked up.
TakeEvent ==
    /\ phase = "ready"
    /\ pos < Len(log)
    /\ \/ /\ recipients' = Recipients
          /\ GoOn(Recipients)
          /\ running' = {i \in DOMAIN Recipients :
                            Recipients[i] # SenderOf[Current]}
       \/ /\ "malformed" \in Faults
          /\ phase' = "failed"
          /\ UNCHANGED <<recipients, running, seek>>
    /\ UNCHANGED <<factory, cached, reg, handed, contended, pos, base,
                   served, servedNow, redeliveries, pub, log, subs>>

\* An agent is there: on with the next one.
Collect ==
    /\ phase = "collect"
    /\ seek[Handler].at = "found"
    /\ GoOn(Tail(seek[Handler].todo))
    /\ UNCHANGED <<factory, cached, reg, handed, contended, pos, base,
                   recipients, running, served, servedNow, redeliveries,
                   pub, log, subs>>

\* None has no id, and what the factory raised is not caught: the exception
\* leaves the handler before any recipient has run.
CollectFails ==
    /\ phase = "collect"
    /\ seek[Handler].at \in {"missing", "raised"}
    /\ phase' = "failed"
    /\ UNCHANGED <<pos, base, recipients, running, served, servedNow,
                   redeliveries, pub, log, subs, managerVars>>

\* An on_message ends; what it raises is only logged.
Serve(i) ==
    /\ phase = "serve"
    /\ i \in running
    /\ running' = running \ {i}
    /\ served' = [served EXCEPT ![Current] = @ \cup {recipients[i]}]
    /\ servedNow' = servedNow \cup {recipients[i]}
    /\ UNCHANGED <<pos, base, phase, recipients, redeliveries, pub, log,
                   subs, managerVars>>

FinishEvent ==
    /\ phase = "serve"
    /\ running = {}
    /\ phase' = "ready"
    /\ pos' = pos + 1
    /\ recipients' = <<>>
    /\ servedNow' = {}
    /\ UNCHANGED <<base, running, served, redeliveries, pub, log, subs,
                   managerVars>>

\* At-least-once delivery: the group goes back to a committed offset.
Redeliver ==
    /\ redeliveries < MaxRedeliveries
    /\ phase = "ready"
    /\ pos > base
    /\ pos' = pos - 1
    /\ redeliveries' = redeliveries + 1
    /\ UNCHANGED <<base, phase, recipients, running, served, servedNow,
                   pub, log, subs, managerVars>>

-----------------------------------------------------------------------------
ClientNext == \E e \in Events : Publish(e) \/ EndSend(e)

SubscriptionNext == \E s \in Subs : AddSubscription(s) \/ RemoveSubscription(s)

ConsumerNext ==
    \/ Position \/ TakeEvent \/ Collect \/ CollectFails \/ FinishEvent
    \/ Redeliver
    \/ \E i \in running : Serve(i)

Next ==
    \/ ClientNext \/ SubscriptionNext \/ ConsumerNext
    \/ ManagerNext /\ UNCHANGED deliveryVars

Spec == Init /\ [][Next]_vars

\* The event loop runs the handler and the agents, which return, as do the
\* factories; the consumer polls.
Fairness ==
    /\ WF_vars(Position) /\ WF_vars(TakeEvent) /\ WF_vars(Collect)
    /\ WF_vars(CollectFails) /\ WF_vars(FinishEvent)
    /\ WF_vars(\E i \in running : Serve(i))
    /\ WF_vars((GetAgent(Handler) \/ FinishCreate(Handler))
               /\ UNCHANGED deliveryVars)

FairSpec == Spec /\ Fairness

-----------------------------------------------------------------------------
(* Properties                                                              *)

Handling == phase \in {"collect", "serve"}

TypeOK ==
    /\ ManagerTypeOK
    /\ pub \in [Events -> PubStates]
    /\ log \in Seq(Events)
    /\ base \in Nat /\ pos \in base..Len(log)
    /\ subs \in Seq(Subs)
    /\ phase \in Phases
    /\ Handling => pos < Len(log)
    /\ recipients \in Seq(Agents)
    /\ running \subseteq DOMAIN recipients
    /\ served \in [Events -> SUBSET Agents]
    /\ servedNow \subseteq Agents
    /\ redeliveries \in 0..MaxRedeliveries

\* Who gets the event in hand: its recipients but its sender.
Receivers == {i \in DOMAIN recipients : recipients[i] # SenderOf[Current]}

\* An event whose handling stops the stream has run no agent at all, so that
\* its redelivery to a restarted runtime repeats nothing; one that is done has
\* run every recipient there was when the handler looked, the agents it
\* suspended for included (message_processor.py 95-150).
AllOrNothing ==
    /\ phase = "failed" => servedNow = {}
    /\ phase = "serve" /\ running = {} =>
           servedNow = {recipients[i] : i \in Receivers}

\* The consumer has its position and has yet to take the event.
Unread(e) ==
    /\ phase # "starting"
    /\ \E n \in DOMAIN log : log[n] = e /\ n > IF Handling THEN pos + 1 ELSE pos

\* An event on the topic reaches every agent that stays subscribed until the
\* consumer is past it, redeliveries and raising agents notwithstanding, or the
\* stream has stopped (message_processor.py 52-150).
EverySubscriberServed ==
    \A e \in Events, s \in Subs :
        Unread(e) /\ Subscribed(s) /\ SenderOf[e] # AgentOf[s] ~>
            \/ AgentOf[s] \in served[e]
            \/ ~Subscribed(s)
            \/ phase = "failed"
=============================================================================
