------------------------ MODULE WorkerLifecycleProofs ------------------------
(***************************************************************************)
(* That a runtime ends whole or clean, and that its stops wait for the     *)
(* work there is, for any number of starts, stops, handlers and callers.   *)
(* The invariant follows the order in which start and stop pass the parts, *)
(* as long as no start did its work beside another call, and says of what  *)
(* the stops wait for that no work begun before they looked is missing.    *)
(***************************************************************************)
EXTENDS WorkerLifecycle, TLAPS

\* A start has set the flags of the services and waits for an engine.
Opening(c) == call[c] \in {"openingEvents", "opening"}

\* The stops that have come to the runtime's own engine.
AtOwn(c) == call[c] \in {"awaiting", "closing"}

\* Those that have stopped the services.
PastServices(c) == call[c] = "closingEvents" \/ AtOwn(c)

\* No engine runs whose worker says that it is stopped.
EnginesAreFlagged ==
    /\ "events" \in engine => "events" \in started
    /\ "own" \in engine => "runtime" \in started

\* A start that is opening is the only call at work, and has started what it
\* has passed.
StartsInOrder ==
    ~overlapped =>
        \A s \in Starts : Opening(s) =>
            /\ "runtime" \notin started /\ "services" \in started
            /\ call[s] = "opening" => "events" \in started
            /\ \A d \in Calls : InProgress(d) => d = s

\* A stop has stopped what it has passed.
StopsInOrder ==
    ~overlapped =>
        \A c \in Stops :
            /\ PastServices(c) => "services" \notin started
            /\ AtOwn(c) => "events" \notin started

StoppedIsEmpty ==
    ~overlapped /\ ~aborted /\ "runtime" \notin started =>
        started = {} \/ \E s \in Starts : Opening(s)

FlagsHaveEngines ==
    ~overlapped /\ ~torn =>
        /\ "events" \in started => "events" \in engine
        /\ "runtime" \in started => "own" \in engine

StartedIsWhole ==
    ~overlapped /\ ~torn /\ "runtime" \in started =>
        started = Parts \/ \E c \in Stops : InProgress(c)

\* The stops there are wait for a request that was queued before they looked.
QueuedIsAwaited ==
    \A x \in Queued \ hasty :
        /\ "services" \in started /\ "own" \in engine
        /\ \A c \in Stops :
               ~PastServices(c) /\ (call[c] = "draining" => x \in awaits[c])

\* So they do for a handler.
HandledIsAwaited ==
    \A h \in Handling \ late :
        /\ running = Streams
        /\ \A c \in Stops : AtOwn(c) => call[c] = "awaiting" /\ h \in awaits[c]

NothingLost ==
    /\ \A x \in Callers \ hasty : caller[x] # "dropped"
    /\ \A h \in Handlers \ late : caller[h] # "lost"

IInv ==
    /\ TypeOK
    /\ EnginesAreFlagged
    /\ StartsInOrder
    /\ StopsInOrder
    /\ StoppedIsEmpty
    /\ FlagsHaveEngines
    /\ StartedIsWhole
    /\ QueuedIsAwaited
    /\ HandledIsAwaited
    /\ NothingLost

-----------------------------------------------------------------------------
\* The places and names the lemmas below compare are different strings.
LEMMA CallersAndCalls ==
    /\ Starts \subseteq Calls /\ Stops \subseteq Calls
    /\ \A c \in Stops : c \notin Starts
    /\ Handlers \subseteq Callers /\ Apps \subseteq Callers
  BY LifecycleAssumption DEF Calls, Callers

\* At the start nothing is started and nobody works.
LEMMA InitIInv == Init => IInv
<1> SUFFICES ASSUME Init PROVE IInv
  OBVIOUS
<1> USE LifecycleAssumption, CallersAndCalls DEF Init
<1>1. TypeOK
  BY DEF TypeOK, Parts, Engines, Streams, CallStates, CallerStates, Ended, Calls,
         Callers
<1>2. \A c \in Calls : ~InProgress(c) /\ ~Opening(c) /\ ~AtOwn(c)
  BY DEF InProgress, Opening, AtOwn
<1>3. Queued = {} /\ Handling = {}
  BY DEF Queued, Handling, Callers
<1>4. EnginesAreFlagged /\ StartsInOrder /\ StopsInOrder
  BY <1>2 DEF EnginesAreFlagged, StartsInOrder, StopsInOrder, Opening
<1>5. StoppedIsEmpty /\ FlagsHaveEngines /\ StartedIsWhole
  BY DEF StoppedIsEmpty, FlagsHaveEngines, StartedIsWhole
<1>6. QueuedIsAwaited /\ HandledIsAwaited
  BY <1>3 DEF QueuedIsAwaited, HandledIsAwaited
<1>7. NothingLost
  BY DEF NothingLost
<1> QED
  BY <1>1, <1>4, <1>5, <1>6, <1>7 DEF IInv

-----------------------------------------------------------------------------
(* start                                                                   *)

\* A start that begins with the runtime stopped sets the flags of the services.
LEMMA BeginStartIInv ==
    ASSUME IInv, NEW c \in Starts, BeginStart(c)
    PROVE  IInv'
<1> USE LifecycleAssumption, CallersAndCalls
<1>1. TypeOK'
  <2>1. StartEvents(c) \in CallStates
    BY DEF StartEvents, StartOwn, Returned, CallStates, Ended
  <2>2. /\ c \in Calls /\ "done" \in CallStates /\ "services" \in Parts
        /\ call \in [Calls -> CallStates] /\ started \subseteq Parts
    BY DEF IInv, TypeOK, CallStates, Ended, Parts
  <2>3. call' \in [Calls -> CallStates] /\ started' \subseteq Parts
    BY <2>1, <2>2 DEF BeginStart
  <2>4. overlapped' \in BOOLEAN
    BY DEF IInv, TypeOK, BeginStart
  <2> QED
    BY <2>3, <2>4 DEF IInv, TypeOK, BeginStart
<1>2. \A d \in Calls : d # c => call'[d] = call[d]
  BY DEF IInv, TypeOK, BeginStart
<1>3. /\ awaits' = awaits /\ caller' = caller /\ late' = late /\ hasty' = hasty
      /\ running' = running /\ engine' = engine /\ torn' = torn
      /\ aborted' = aborted /\ Queued' = Queued /\ Handling' = Handling
  BY DEF BeginStart, Queued, Handling
<1>4. EnginesAreFlagged'
  BY DEF IInv, EnginesAreFlagged, BeginStart
<1>5. \A d \in Stops : d # c /\ call'[d] = call[d] /\ InProgress(d)' = InProgress(d)
  BY <1>2 DEF InProgress
<1>6. NothingLost'
  BY <1>3 DEF IInv, NothingLost
<1>7. HandledIsAwaited'
  BY <1>3, <1>5 DEF IInv, HandledIsAwaited, AtOwn
<1>8. QueuedIsAwaited'
  BY <1>3, <1>5 DEF IInv, QueuedIsAwaited, BeginStart, PastServices, AtOwn
<1>9. CASE "runtime" \in started
  <2>1. /\ started' = started /\ overlapped' = overlapped
        /\ ~Opening(c)' /\ ~InProgress(c)'
    BY <1>9 DEF BeginStart, Opening, InProgress, Ended, IInv, TypeOK
  <2>2. \A d \in Calls : Opening(d)' => Opening(d)
    BY <1>2, <2>1 DEF Opening
  <2>3. StartsInOrder' /\ StoppedIsEmpty'
    BY <1>9, <2>1, <2>2 DEF IInv, StartsInOrder, StoppedIsEmpty
  <2>4. StopsInOrder' /\ FlagsHaveEngines' /\ StartedIsWhole'
    BY <1>3, <1>5, <2>1 DEF IInv, StopsInOrder, FlagsHaveEngines, StartedIsWhole,
                            AtOwn, PastServices
  <2> QED
    BY <1>1, <1>4, <1>6, <1>7, <1>8, <2>3, <2>4 DEF IInv
<1>10. CASE "runtime" \notin started
  <2>1. /\ started' = started \cup {"services"}
        /\ call' = [call EXCEPT ![c] = StartEvents(c)]
    BY <1>10 DEF BeginStart
  <2>2. \/ call'[c] = "openingEvents"
        \/ call'[c] = "opening" /\ "events" \in started
    <3>1. call \in [Calls -> CallStates] /\ c \in Calls
      BY DEF IInv, TypeOK
    <3> QED
      BY <1>10, <2>1, <3>1 DEF StartEvents, StartOwn
  <2>3. ~overlapped' => ~overlapped /\ \A d \in Calls : ~InProgress(d)
    BY <1>10 DEF BeginStart
  <2>4. ~overlapped' => \A d \in Calls : d # c => ~InProgress(d)'
    BY <1>2, <2>3 DEF InProgress
  <2>5. Opening(c)'
    BY <2>2 DEF Opening
  <2>6. \A d \in Calls : Opening(d)' => InProgress(d)'
    BY DEF Opening, InProgress, Ended
  <2>7. StartsInOrder' /\ StoppedIsEmpty'
    BY <1>10, <2>1, <2>2, <2>4, <2>5, <2>6 DEF StartsInOrder, StoppedIsEmpty
  <2>8. StopsInOrder'
    BY <1>5, <2>4 DEF StopsInOrder, InProgress, AtOwn, Ended, PastServices
  <2>9. FlagsHaveEngines' /\ StartedIsWhole'
    BY <1>3, <1>10, <2>1, <2>3 DEF IInv, FlagsHaveEngines, StartedIsWhole
  <2> QED
    BY <1>1, <1>4, <1>6, <1>7, <1>8, <2>7, <2>8, <2>9 DEF IInv
<1> QED
  BY <1>9, <1>10

\* A start that opens an engine, or fails to, beside no other call.
LEMMA OpenedIInv ==
    ASSUME IInv, NEW c \in Starts, OpenedEvents(c) \/ Opened(c)
    PROVE  IInv'
<1> USE LifecycleAssumption, CallersAndCalls
<1>1. TypeOK'
  <2>1. StartOwn(c) \in CallStates /\ Returned(c) \in CallStates
    BY DEF StartOwn, Returned, CallStates, Ended
  <2>2. /\ c \in Calls /\ "raised" \in CallStates
        /\ call \in [Calls -> CallStates] /\ started \subseteq Parts
        /\ engine \subseteq Engines
    BY DEF IInv, TypeOK, CallStates, Ended
  <2>3. /\ call' \in [Calls -> CallStates] /\ started' \subseteq Parts
        /\ engine' \subseteq Engines /\ engine \subseteq engine'
    BY <2>1, <2>2 DEF OpenedEvents, Opened, StartFails, Parts, Engines
  <2>4. aborted' \in BOOLEAN
    BY DEF IInv, TypeOK, OpenedEvents, Opened, StartFails
  <2> QED
    BY <2>3, <2>4 DEF IInv, TypeOK, OpenedEvents, Opened
<1>2. \A d \in Calls : d # c => call'[d] = call[d]
  BY DEF IInv, TypeOK, OpenedEvents, Opened, StartFails
<1>3. /\ awaits' = awaits /\ caller' = caller /\ late' = late /\ hasty' = hasty
      /\ running' = running /\ torn' = torn /\ overlapped' = overlapped
      /\ Queued' = Queued /\ Handling' = Handling
  BY DEF OpenedEvents, Opened, Queued, Handling
<1>4. EnginesAreFlagged' /\ started \subseteq started' /\ engine \subseteq engine'
  BY DEF IInv, EnginesAreFlagged, OpenedEvents, Opened, StartFails
<1>5. \A d \in Stops : d # c /\ call'[d] = call[d] /\ InProgress(d)' = InProgress(d)
  BY <1>2 DEF InProgress
<1>6. NothingLost'
  BY <1>3 DEF IInv, NothingLost
<1>7. HandledIsAwaited'
  BY <1>3, <1>5 DEF IInv, HandledIsAwaited, AtOwn
<1>8. QueuedIsAwaited'
  BY <1>3, <1>4, <1>5 DEF IInv, QueuedIsAwaited, PastServices, AtOwn
<1>9. Opening(c) /\ InProgress(c)
  BY DEF OpenedEvents, Opened, Opening, InProgress, Ended
<1>10. CASE overlapped
  BY <1>1, <1>3, <1>4, <1>6, <1>7, <1>8, <1>10
     DEF IInv, StartsInOrder, StopsInOrder, StoppedIsEmpty, FlagsHaveEngines,
         StartedIsWhole
<1>11. CASE ~overlapped
  <2>1. /\ "runtime" \notin started /\ "services" \in started
        /\ call[c] = "opening" => "events" \in started
        /\ \A d \in Calls : d # c => ~InProgress(d)
    BY <1>9, <1>11 DEF IInv, StartsInOrder
  <2>2. \A d \in Calls : d # c => ~InProgress(d)' /\ ~Opening(d)' /\ ~AtOwn(d)'
    BY <1>2, <2>1 DEF InProgress, Opening, AtOwn, Ended
  <2>3. StopsInOrder'
    BY <1>5, <2>2 DEF StopsInOrder, InProgress, Ended, PastServices
  <2>4. Opening(c)' => /\ call'[c] = "opening" /\ "events" \in started'
                       /\ "runtime" \notin started'
    BY <2>1
       DEF Opening, OpenedEvents, Opened, StartFails, StartOwn, Returned, IInv,
                TypeOK
  <2>5. StartsInOrder'
    BY <1>4, <2>1, <2>2, <2>4 DEF StartsInOrder
  <2>6. StoppedIsEmpty'
    BY <2>1
       DEF StoppedIsEmpty, Opening, OpenedEvents, Opened, StartFails, StartOwn,
                IInv, TypeOK
  <2>7. FlagsHaveEngines'
    BY <1>11, <2>1 DEF IInv, FlagsHaveEngines, OpenedEvents, Opened, StartFails
  <2>8. StartedIsWhole'
    BY <1>1, <2>1
       DEF StartedIsWhole, TypeOK, Parts, OpenedEvents, Opened, StartFails
  <2> QED
    BY <1>1, <1>4, <1>6, <1>7, <1>8, <2>3, <2>5, <2>6, <2>7, <2>8 DEF IInv
<1> QED
  BY <1>10, <1>11

\* The wait for the streams changes nothing the invariant is about.
LEMMA WaitEndsIInv ==
    ASSUME IInv, NEW c \in Starts, WaitEnds(c)
    PROVE  IInv'
<1> USE LifecycleAssumption, CallersAndCalls DEF WaitEnds
<1>1. TypeOK'
  BY DEF IInv, TypeOK, CallStates, Ended
<1>2. /\ \A d \in Calls : d # c => call'[d] = call[d]
      /\ \A d \in Stops : d # c
  BY DEF IInv, TypeOK
<1>3. \A d \in Stops : call'[d] = call[d] /\ InProgress(d)' = InProgress(d)
  BY <1>2 DEF InProgress
<1>4. \A d \in Calls : /\ Opening(d)' = Opening(d)
                       /\ InProgress(d)' => InProgress(d)
                       /\ call'[d] = "opening" => call[d] = "opening"
  BY <1>2 DEF IInv, TypeOK, Opening, InProgress, Ended
<1>5. EnginesAreFlagged' /\ FlagsHaveEngines' /\ NothingLost'
  BY DEF IInv, EnginesAreFlagged, FlagsHaveEngines, NothingLost
<1>6. StartsInOrder' /\ StoppedIsEmpty'
  BY <1>4 DEF IInv, StartsInOrder, StoppedIsEmpty
<1>7. StopsInOrder' /\ StartedIsWhole'
  BY <1>3 DEF IInv, StopsInOrder, StartedIsWhole, AtOwn, PastServices
<1>8. QueuedIsAwaited' /\ HandledIsAwaited'
  BY <1>3
     DEF IInv, QueuedIsAwaited, HandledIsAwaited, AtOwn, Queued, Handling,
         PastServices
<1> QED
  BY <1>1, <1>5, <1>6, <1>7, <1>8 DEF IInv

\* A stream that comes up comes up for those that handle a request, too.
LEMMA StreamStartsIInv ==
    ASSUME IInv, NEW s \in Streams, StreamStarts(s)
    PROVE  IInv'
<1> USE DEF StreamStarts
<1>1. TypeOK' /\ (running = Streams => running' = Streams)
  BY DEF IInv, TypeOK
<1>2. \A d \in Calls : /\ Opening(d)' = Opening(d) /\ InProgress(d)' = InProgress(d)
                       /\ AtOwn(d)' = AtOwn(d)
  BY DEF Opening, InProgress, AtOwn
<1>3. EnginesAreFlagged' /\ FlagsHaveEngines' /\ NothingLost'
  BY DEF IInv, EnginesAreFlagged, FlagsHaveEngines, NothingLost
<1>4. StartsInOrder' /\ StoppedIsEmpty' /\ StopsInOrder' /\ StartedIsWhole'
  BY <1>2, CallersAndCalls
     DEF IInv, StartsInOrder, StoppedIsEmpty, StopsInOrder, StartedIsWhole,
         PastServices
<1>5. QueuedIsAwaited' /\ HandledIsAwaited'
  BY <1>1, <1>2, CallersAndCalls
     DEF IInv, QueuedIsAwaited, HandledIsAwaited, Queued, Handling, PastServices
<1> QED
  BY <1>1, <1>3, <1>4, <1>5 DEF IInv

-----------------------------------------------------------------------------
(* stop                                                                    *)

\* Where starts do not overlap, none is opening while a stop is at work.
LEMMA NoStartBesideStop ==
    ASSUME IInv, ~overlapped, NEW c \in Stops,
           InProgress(c) \/ "runtime" \in started
    PROVE  \A s \in Starts : ~Opening(s)
  BY CallersAndCalls DEF IInv, StartsInOrder

\* What a stop does to its own place leaves the others where they are.
LEMMA SuspendFrame ==
    ASSUME IInv, NEW c \in Stops, NEW w, NEW tasks, Suspend(c, w, tasks)
    PROVE  /\ call'[c] = w /\ awaits'[c] = tasks
           /\ \A d \in Calls : d # c => call'[d] = call[d]
           /\ \A d \in Stops : d # c => awaits'[d] = awaits[d]
           /\ \A s \in Starts : Opening(s)' = Opening(s)
           /\ w \in CallStates /\ tasks \subseteq Callers =>
                  /\ call' \in [Calls -> CallStates]
                  /\ awaits' \in [Stops -> SUBSET Callers]
  BY CallersAndCalls DEF IInv, TypeOK, Suspend, Opening

\* A stop that goes on to its next wait, or has nothing left to stop.
LEMMA SuspendIInv ==
    ASSUME IInv, NEW c \in Stops, NEW tasks \in SUBSET Callers,
           NEW w \in {"done", "sweeping", "draining", "closing"},
           Suspend(c, w, tasks),
           UNCHANGED <<started, engine, running, caller, late, hasty, overlapped,
                       aborted, torn>>,
           IF w = "done" THEN "runtime" \notin started
           ELSE InProgress(c) \/ "runtime" \in started,
           w = "draining" => Queued \subseteq tasks,
           w = "closing" => AtOwn(c) /\ Handling \subseteq late
    PROVE  IInv'
<1>1. /\ call'[c] = w /\ awaits'[c] = tasks
      /\ \A d \in Stops : d # c => call'[d] = call[d] /\ awaits'[d] = awaits[d]
      /\ \A d \in Calls : d # c => call'[d] = call[d]
      /\ \A s \in Starts : Opening(s)' = Opening(s) /\ s # c
  BY SuspendFrame, CallersAndCalls
<1>2. TypeOK'
  <2>1. w \in CallStates
    BY DEF CallStates, Ended
  <2> QED
    BY <2>1, SuspendFrame DEF IInv, TypeOK
<1>3. /\ \A d \in Calls : d # c => InProgress(d)' = InProgress(d)
      /\ w # "done" => InProgress(c)'
      /\ w = "done" => ~InProgress(c)'
  BY <1>1 DEF InProgress, Ended
<1>4. EnginesAreFlagged' /\ FlagsHaveEngines' /\ NothingLost'
  BY DEF IInv, EnginesAreFlagged, FlagsHaveEngines, NothingLost
<1>5. StoppedIsEmpty'
  BY <1>1 DEF IInv, StoppedIsEmpty
<1>6. StartsInOrder'
  <2> SUFFICES ASSUME ~overlapped, NEW s \in Starts, Opening(s)
               PROVE  /\ "runtime" \notin started /\ "services" \in started
                      /\ call[s] = "opening" => "events" \in started
                      /\ \A d \in Calls : InProgress(d)' => d = s
    BY <1>1, CallersAndCalls DEF StartsInOrder
  <2>1. w = "done"
    BY NoStartBesideStop
  <2> QED
    BY <1>3, <2>1 DEF IInv, StartsInOrder
<1>7. StopsInOrder'
  BY <1>1 DEF IInv, StopsInOrder, AtOwn, PastServices
<1>8. StartedIsWhole'
  BY <1>3, CallersAndCalls DEF IInv, StartedIsWhole
<1>9. QueuedIsAwaited'
  <2>1. Queued' = Queued
    BY DEF Queued
  <2>2. AtOwn(c) => Queued \subseteq hasty
    BY DEF IInv, QueuedIsAwaited, InProgress, Ended, PastServices
  <2>3. w \in {"done", "sweeping"} => call'[c] = "sweeping" \/ ~InProgress(c)'
    BY <1>1, <1>3
  <2> QED
    BY <1>1, <1>3, <2>1, <2>2, <2>3, CallersAndCalls
       DEF IInv, QueuedIsAwaited, PastServices, AtOwn
<1>10. HandledIsAwaited'
  BY <1>1 DEF IInv, HandledIsAwaited, AtOwn, Handling
<1> QED
  BY <1>2, <1>4, <1>5, <1>6, <1>7, <1>8, <1>9, <1>10 DEF IInv

\* A stop that comes to the runtime's own engine, with the rest stopped.
LEMMA StopOwnIInv ==
    ASSUME IInv, NEW c \in Stops, StopOwn(c),
           InProgress(c) \/ "runtime" \in started,
           started' \in {started, started \ {"services"}, started \ {"events"}},
           ~overlapped => {"services", "events"} \cap started' = {},
           engine' = engine \ {"events"}, "events" \notin started',
           Queued \subseteq hasty,
           UNCHANGED <<running, caller, late, hasty, overlapped, aborted, torn>>
    PROVE  IInv'
<1>1. PICK w \in {"done", "awaiting", "closing"}, tasks \in SUBSET Callers :
          /\ Suspend(c, w, tasks)
          /\ w = "done" <=> "runtime" \notin started
          /\ w = "awaiting" => tasks = Handling
          /\ w = "closing" => Handling = {}
  BY CallersAndCalls DEF StopOwn, Snapshot, Handling
<1>2. /\ call'[c] = w /\ awaits'[c] = tasks
      /\ \A d \in Stops : d # c => call'[d] = call[d] /\ awaits'[d] = awaits[d]
      /\ \A s \in Starts : Opening(s)' = Opening(s)
  BY <1>1, SuspendFrame, CallersAndCalls
<1>3. TypeOK'
  <2>1. w \in CallStates
    BY DEF CallStates, Ended
  <2>2. /\ started' \subseteq Parts /\ engine' \subseteq Engines
        /\ running' # {} => "own" \in engine'
    BY DEF IInv, TypeOK
  <2> QED
    BY <1>1, <2>1, <2>2, SuspendFrame DEF IInv, TypeOK
<1>4. EnginesAreFlagged' /\ FlagsHaveEngines' /\ NothingLost'
  BY DEF IInv, EnginesAreFlagged, FlagsHaveEngines, NothingLost
<1>5. StoppedIsEmpty'
  BY DEF IInv, TypeOK, Parts, StoppedIsEmpty
<1>6. StartsInOrder'
  BY <1>2, NoStartBesideStop, CallersAndCalls DEF StartsInOrder
<1>7. StopsInOrder'
  BY DEF StopsInOrder
<1>8. StartedIsWhole'
  <2>1. "runtime" \in started => InProgress(c)'
    BY <1>1, <1>2 DEF InProgress, Ended
  <2> QED
    BY <2>1 DEF StartedIsWhole
<1>9. QueuedIsAwaited'
  BY DEF QueuedIsAwaited, Queued
<1>10. HandledIsAwaited'
  BY <1>1, <1>2 DEF IInv, TypeOK, EnginesAreFlagged, HandledIsAwaited, AtOwn,
                    Handling, Streams
<1> QED
  BY <1>3, <1>4, <1>5, <1>6, <1>7, <1>8, <1>9, <1>10 DEF IInv

\* A stop that has stopped the services goes on to the events' engine.
LEMMA StopEventsIInv ==
    ASSUME IInv, NEW c \in Stops, StopEvents(c),
           InProgress(c) \/ "runtime" \in started,
           started' = started \ {"services"},
           Queued \subseteq hasty,
           UNCHANGED <<engine, running, caller, late, hasty, overlapped, aborted,
                       torn>>
    PROVE  IInv'
<1>1. CASE "events" \notin started
  <2>1. StopOwn(c)
    BY <1>1 DEF StopEvents
  <2>2. engine' = engine \ {"events"} /\ "events" \notin started'
    BY <1>1 DEF IInv, EnginesAreFlagged
  <2> QED
    BY <2>1, <2>2, StopOwnIInv
<1>2. CASE "events" \in started
  <2>1. Suspend(c, "closingEvents", {})
    BY <1>2 DEF StopEvents
  <2>2. /\ call'[c] = "closingEvents"
        /\ \A d \in Stops : d # c => call'[d] = call[d] /\ awaits'[d] = awaits[d]
        /\ \A s \in Starts : Opening(s)' = Opening(s)
    BY <2>1, SuspendFrame, CallersAndCalls
  <2>3. TypeOK'
    <3>1. "closingEvents" \in CallStates
      BY DEF CallStates
    <3> QED
      BY <2>1, <3>1, SuspendFrame DEF IInv, TypeOK
  <2>4. EnginesAreFlagged' /\ FlagsHaveEngines' /\ NothingLost'
    BY DEF IInv, EnginesAreFlagged, FlagsHaveEngines, NothingLost
  <2>5. StartsInOrder'
    BY <2>2, NoStartBesideStop, CallersAndCalls DEF StartsInOrder
  <2>6. StoppedIsEmpty'
    BY <2>2, NoStartBesideStop DEF IInv, StoppedIsEmpty
  <2>7. StopsInOrder'
    BY <2>2 DEF IInv, StopsInOrder, AtOwn
  <2>8. StartedIsWhole'
    BY <2>2 DEF StartedIsWhole, InProgress, Ended
  <2>9. QueuedIsAwaited'
    BY DEF QueuedIsAwaited, Queued
  <2>10. HandledIsAwaited'
    BY <2>2 DEF IInv, HandledIsAwaited, AtOwn, Handling
  <2> QED
    BY <2>3, <2>4, <2>5, <2>6, <2>7, <2>8, <2>9, <2>10 DEF IInv
<1> QED
  BY <1>1, <1>2

\* A stop of the services waits for the sends there are.
LEMMA StopServicesIInv ==
    ASSUME IInv, NEW c \in Stops, StopServices(c),
           InProgress(c) \/ "runtime" \in started,
           UNCHANGED <<engine, running, caller, late, hasty, overlapped, aborted,
                       torn>>
    PROVE  IInv'
<1>1. CASE "services" \in started /\ Queued # {}
  <2>1. Suspend(c, "draining", Queued) /\ UNCHANGED started
    BY <1>1 DEF StopServices, Snapshot
  <2>2. Queued \in SUBSET Callers
    BY DEF Queued
  <2> QED
    BY <2>1, <2>2, SuspendIInv
<1>2. CASE ~("services" \in started /\ Queued # {})
  <2>1. started' = started \ {"services"} /\ StopEvents(c)
    BY <1>2 DEF StopServices, Snapshot
  <2>2. Queued \subseteq hasty
    BY <1>2 DEF IInv, QueuedIsAwaited
  <2> QED
    BY <2>1, <2>2, StopEventsIInv
<1> QED
  BY <1>1, <1>2

\* The steps of a stop that take it past the services.
LEMMA BeginStopIInv ==
    ASSUME IInv, NEW c \in Stops, BeginStop(c) \/ Swept(c) \/ Drained(c)
    PROVE  IInv'
<1>1. CASE BeginStop(c) /\ "runtime" \notin started
  <2>1. /\ Suspend(c, "done", {})
        /\ UNCHANGED <<started, engine, running, caller, late, hasty, overlapped,
                       aborted, torn>>
    BY <1>1 DEF BeginStop
  <2> QED
    BY <1>1, <2>1, SuspendIInv
<1>2. CASE BeginStop(c) /\ "runtime" \in started /\ ~StopServices(c)
  <2>1. /\ Suspend(c, "sweeping", {})
        /\ UNCHANGED <<started, engine, running, caller, late, hasty, overlapped,
                       aborted, torn>>
    BY <1>2 DEF BeginStop
  <2> QED
    BY <1>2, <2>1, SuspendIInv
<1>3. CASE BeginStop(c) /\ "runtime" \in started /\ StopServices(c)
  BY <1>3, StopServicesIInv DEF BeginStop
<1>4. CASE Swept(c)
  BY <1>4, StopServicesIInv DEF Swept, InProgress, Ended
<1>5. CASE Drained(c)
  <2>1. InProgress(c) /\ call[c] = "draining"
    BY <1>5 DEF Drained, InProgress, Ended
  <2>2. Queued \subseteq hasty
    BY <1>5, <2>1 DEF Drained, IInv, QueuedIsAwaited
  <2> QED
    BY <1>5, <2>1, <2>2, StopEventsIInv DEF Drained
<1> QED
  BY <1>1, <1>2, <1>3, <1>4, <1>5

\* An engine that fails to stop ends the call of stop.
LEMMA StopFailsIInv ==
    ASSUME IInv, NEW c \in Stops, NEW e \in Engines, StopFails(c, e),
           IF e = "own" THEN call[c] = "closing" ELSE call[c] = "closingEvents",
           running' = running \/ (e = "own" /\ running' = {}),
           "own" \in engine' \/ running' = {} \/ e # "own",
           UNCHANGED <<caller, late, hasty, overlapped, aborted>>
    PROVE  IInv'
<1>1. /\ InProgress(c) /\ ~InProgress(c)' /\ ~AtOwn(c)' /\ call'[c] = "raised"
      /\ call' \in [Calls -> CallStates]
      /\ \A d \in Calls : d # c => call'[d] = call[d]
  BY CallersAndCalls
     DEF IInv, TypeOK, StopFails, InProgress, AtOwn, Ended, CallStates
<1>2. /\ started' = started /\ awaits' = awaits /\ engine' \subseteq engine
      /\ torn' /\ (e # "own" /\ "own" \in engine => "own" \in engine')
      /\ torn' \in BOOLEAN
  BY DEF StopFails
<1>3. TypeOK'
  <2>1. running' # {} => "own" \in engine'
    BY <1>2 DEF IInv, TypeOK
  <2> QED
    BY <1>1, <1>2, <2>1 DEF IInv, TypeOK
<1>4. \A s \in Starts : Opening(s)' = Opening(s)
  BY <1>1, CallersAndCalls DEF Opening
<1>5. EnginesAreFlagged' /\ FlagsHaveEngines' /\ StartedIsWhole' /\ NothingLost'
  BY <1>2
     DEF IInv, EnginesAreFlagged, FlagsHaveEngines, StartedIsWhole, NothingLost
<1>6. StartsInOrder' /\ StoppedIsEmpty'
  BY <1>1, <1>2, <1>4, NoStartBesideStop DEF IInv, StartsInOrder, StoppedIsEmpty
<1>7. StopsInOrder'
  BY <1>1, <1>2, CallersAndCalls DEF IInv, StopsInOrder, AtOwn, PastServices
<1>8. QueuedIsAwaited'
  <2>1. Queued \subseteq hasty
    BY <1>1 DEF IInv, QueuedIsAwaited, PastServices, AtOwn
  <2> QED
    BY <2>1 DEF QueuedIsAwaited, Queued
<1>9. HandledIsAwaited'
  <2>1. e = "own" => Handling \subseteq late
    BY DEF IInv, HandledIsAwaited, AtOwn
  <2> QED
    BY <1>1, <1>2, <2>1, CallersAndCalls
       DEF IInv, HandledIsAwaited, AtOwn, Handling
<1> QED
  BY <1>3, <1>5, <1>6, <1>7, <1>8, <1>9 DEF IInv

\* The steps of a stop that take it past the events' engine and the handlers.
LEMMA ClosedEventsIInv ==
    ASSUME IInv, NEW c \in Stops, ClosedEvents(c) \/ Awaited(c)
    PROVE  IInv'
<1>1. CASE ClosedEvents(c) /\ StopFails(c, "events")
  BY <1>1, StopFailsIInv DEF ClosedEvents, Engines
<1>2. CASE ClosedEvents(c) /\ ~StopFails(c, "events")
  <2>1. /\ engine' = engine \ {"events"} /\ started' = started \ {"events"}
        /\ StopOwn(c) /\ call[c] = "closingEvents"
        /\ UNCHANGED <<running, caller, late, hasty, overlapped, aborted, torn>>
    BY <1>2 DEF ClosedEvents
  <2>2. InProgress(c)
    BY <2>1 DEF InProgress, Ended
  <2>3. Queued \subseteq hasty
    BY <2>1, <2>2 DEF IInv, QueuedIsAwaited, PastServices
  <2> QED
    BY <2>1, <2>2, <2>3, StopOwnIInv DEF IInv, StopsInOrder, PastServices
<1>3. CASE Awaited(c)
  <2>1. PICK w \in {"closing", "done"} :
            /\ Suspend(c, w, {})
            /\ w = "done" <=> "runtime" \notin started
    BY <1>3 DEF Awaited
  <2>2. AtOwn(c) /\ InProgress(c) /\ call[c] = "awaiting"
    BY <1>3 DEF Awaited, AtOwn, InProgress, Ended
  <2>3. Handling \subseteq late
    BY <1>3, <2>2 DEF Awaited, IInv, HandledIsAwaited
  <2> QED
    BY <1>3, <2>1, <2>2, <2>3, SuspendIInv DEF Awaited
<1> QED
  BY <1>1, <1>2, <1>3

\* The runtime's own engine is the last to stop.
LEMMA ClosedIInv ==
    ASSUME IInv, NEW c \in Stops, Closed(c)
    PROVE  IInv'
<1>1. CASE StopFails(c, "own")
  BY <1>1, StopFailsIInv DEF Closed, Engines
<1>2. CASE ~StopFails(c, "own")
  <2>1. /\ call[c] = "closing" /\ call' = [call EXCEPT ![c] = "done"]
        /\ engine' = engine \ {"own"} /\ started' = started \ {"runtime"}
        /\ torn' = FALSE /\ running' = {} /\ UNCHANGED awaits
        /\ UNCHANGED <<caller, late, hasty, overlapped, aborted>>
    BY <1>2 DEF Closed, FlagsClosed
  <2>2. /\ InProgress(c) /\ ~InProgress(c)' /\ ~AtOwn(c)' /\ call'[c] = "done"
        /\ call' \in [Calls -> CallStates]
        /\ \A d \in Calls : d # c => call'[d] = call[d]
    BY <2>1, CallersAndCalls
       DEF IInv, TypeOK, InProgress, AtOwn, Ended, CallStates
  <2>3. TypeOK'
    BY <2>1, <2>2 DEF IInv, TypeOK
  <2>4. \A s \in Starts : Opening(s)' = Opening(s)
    BY <2>2, CallersAndCalls DEF Opening
  <2>5. EnginesAreFlagged' /\ StartedIsWhole' /\ NothingLost'
    BY <2>1 DEF IInv, EnginesAreFlagged, StartedIsWhole, NothingLost
  <2>6. StartsInOrder'
    BY <2>1, <2>2, <2>4, NoStartBesideStop DEF StartsInOrder
  <2>7. ~overlapped => started' = {}
    BY <2>1 DEF IInv, TypeOK, StopsInOrder, AtOwn, Parts, PastServices
  <2>8. StoppedIsEmpty' /\ FlagsHaveEngines'
    BY <2>1, <2>7 DEF StoppedIsEmpty, FlagsHaveEngines
  <2>9. StopsInOrder'
    BY <2>1, <2>7 DEF StopsInOrder
  <2>10. Queued \subseteq hasty /\ Handling \subseteq late
    BY <2>1, <2>2 DEF IInv, QueuedIsAwaited, HandledIsAwaited, AtOwn, PastServices
  <2>11. QueuedIsAwaited' /\ HandledIsAwaited'
    BY <2>1, <2>10 DEF QueuedIsAwaited, HandledIsAwaited, Queued, Handling
  <2> QED
    BY <2>3, <2>5, <2>6, <2>8, <2>9, <2>11 DEF IInv
<1> QED
  BY <1>1, <1>2

-----------------------------------------------------------------------------
(* Requests and calls                                                      *)

\* What the steps of handlers and callers leave alone.
LEMMA CallerFrame ==
    ASSUME IInv,
           UNCHANGED <<started, engine, running, call, awaits, overlapped,
                       aborted, torn>>,
           caller' \in [Callers -> CallerStates], late' \subseteq Handlers,
           hasty' \subseteq Callers,
           QueuedIsAwaited', HandledIsAwaited', NothingLost'
    PROVE  IInv'
<1>1. TypeOK'
  BY DEF IInv, TypeOK
<1>2. \A d \in Calls : /\ Opening(d)' = Opening(d) /\ InProgress(d)' = InProgress(d)
                       /\ AtOwn(d)' = AtOwn(d)
  BY DEF Opening, InProgress, AtOwn
<1>3. EnginesAreFlagged' /\ FlagsHaveEngines'
  BY DEF IInv, EnginesAreFlagged, FlagsHaveEngines
<1>4. StartsInOrder' /\ StoppedIsEmpty' /\ StopsInOrder' /\ StartedIsWhole'
  BY <1>2, CallersAndCalls
     DEF IInv, StartsInOrder, StoppedIsEmpty, StopsInOrder, StartedIsWhole,
         PastServices
<1> QED
  BY <1>1, <1>3, <1>4 DEF IInv

\* What a caller that moves leaves alone.
LEMMA MoveFrame ==
    ASSUME IInv, NEW c \in Callers, NEW from, NEW to \in CallerStates,
           Move(c, from, to)
    PROVE  /\ caller[c] = from /\ caller'[c] = to
           /\ caller' \in [Callers -> CallerStates]
           /\ \A d \in Callers : d # c => caller'[d] = caller[d]
           /\ UNCHANGED <<started, engine, running, call, awaits, overlapped,
                          aborted, torn>>
  BY DEF IInv, TypeOK, Move

\* A request that is not late finds no stop that has looked at the handlers.
LEMMA ArriveIInv ==
    ASSUME IInv, NEW h \in Handlers, Arrive(h)
    PROVE  IInv'
<1>1. /\ Move(h, "idle", "running")
      /\ h \in Callers /\ "running" \in CallerStates
  BY CallersAndCalls DEF Arrive, CallerStates
<1> DEFINE moved == /\ caller[h] = "idle" /\ caller'[h] = "running"
                    /\ caller' \in [Callers -> CallerStates]
                    /\ \A d \in Callers : d # h => caller'[d] = caller[d]
                    /\ UNCHANGED <<started, engine, running, call, awaits,
                                   overlapped, aborted, torn>>
<1>2. moved
  BY <1>1, MoveFrame
<1>3. /\ late \subseteq late' /\ late' \subseteq Handlers
      /\ hasty' = hasty /\ hasty' \subseteq Callers
      /\ h \notin late' => running = Streams /\ \A d \in Stops : ~AtOwn(d)
  BY DEF Arrive, IInv, TypeOK, AllRunning, HandlersSeen, AtOwn
<1>4. QueuedIsAwaited'
  <2>1. Queued' \subseteq Queued
    BY <1>2 DEF Queued
  <2> QED
    BY <1>2, <1>3, <2>1 DEF IInv, QueuedIsAwaited, PastServices, AtOwn
<1>5. HandledIsAwaited'
  <2>1. Handling' = Handling \cup {h}
    BY <1>2, CallersAndCalls DEF Handling
  <2> QED
    BY <1>2, <1>3, <2>1 DEF IInv, HandledIsAwaited, AtOwn
<1>6. NothingLost'
  BY <1>2, <1>3, CallersAndCalls DEF IInv, NothingLost
<1> QED
  BY <1>2, <1>3, <1>4, <1>5, <1>6, CallerFrame

\* A request that is not hasty finds no stop that has looked at the sends.
LEMMA SendIInv ==
    ASSUME IInv, NEW c \in Callers, Send(c)
    PROVE  IInv'
<1>1. PICK to \in {"queued", "replying", "done"} :
          /\ Move(c, "running", to)
          /\ to = "queued" => "services" \in started
          /\ to = "done" => c \notin Handlers
  BY DEF Send
<1>2. /\ caller[c] = "running" /\ caller'[c] = to
      /\ caller' \in [Callers -> CallerStates]
      /\ \A d \in Callers : d # c => caller'[d] = caller[d]
      /\ UNCHANGED <<started, engine, running, call, awaits, overlapped, aborted,
                     torn>>
  <2>1. to \in CallerStates
    BY DEF CallerStates
  <2> QED
    BY <1>1, <2>1, MoveFrame
<1>3. /\ hasty \subseteq hasty' /\ hasty' \subseteq Callers
      /\ late' = late /\ late' \subseteq Handlers
      /\ to = "queued" /\ c \notin hasty' =>
             /\ "own" \in engine
             /\ \A d \in Stops : call[d] # "draining" /\ ~PastServices(d)
  <2>1. late' = late /\ (hasty' = hasty \/ hasty' = hasty \cup {c})
    BY DEF Send
  <2>2. ASSUME to = "queued", c \notin hasty'
        PROVE  "own" \in engine /\ \A d \in Stops : ~SendsSeen(d)
    BY <1>1, <2>2 DEF Send, Move, IInv, TypeOK
  <2> QED
    BY <2>1, <2>2 DEF IInv, TypeOK, SendsSeen, PastServices, AtOwn
<1>4. QueuedIsAwaited'
  <2>1. Queued' \subseteq Queued \cup {c} /\ (c \in Queued' => to = "queued")
    BY <1>2 DEF Queued
  <2> QED
    BY <1>1, <1>2, <1>3, <2>1 DEF IInv, QueuedIsAwaited, PastServices, AtOwn
<1>5. HandledIsAwaited'
  <2>1. Handling' = Handling
    BY <1>1, <1>2, CallersAndCalls DEF Handling
  <2> QED
    BY <1>2, <1>3, <2>1 DEF IInv, HandledIsAwaited, AtOwn
<1>6. NothingLost'
  <2>1. to # "dropped" /\ to # "lost"
    OBVIOUS
  <2>2. ASSUME NEW d \in Callers, d \notin hasty'
        PROVE  caller'[d] # "dropped"
    BY <1>2, <1>3, <2>1, <2>2 DEF IInv, NothingLost
  <2>3. ASSUME NEW h \in Handlers, h \notin late'
        PROVE  caller'[h] # "lost"
    BY <1>2, <1>3, <2>1, <2>3, CallersAndCalls DEF IInv, NothingLost
  <2> QED
    BY <2>2, <2>3 DEF NothingLost
<1> QED
  BY <1>2, <1>3, <1>4, <1>5, <1>6, CallerFrame

\* The other steps of a caller or handler queue nothing and begin no handler; a
\* send that is not hasty is not refused, and the answer finds the consumer of a
\* handler that is not late.
LEMMA WorkIInv ==
    ASSUME IInv, NEW c \in Callers,
           SendEnds(c) \/ Answer(c) \/ (c \in Handlers /\ FinishHandler(c))
    PROVE  IInv'
<1>1. PICK from \in CallerStates,
           to \in {"sent", "dropped", "replying", "done", "lost"} :
          /\ Move(c, from, to)
          /\ from # "idle" /\ from # "done"
          /\ to = "dropped" => from = "queued" /\ Refused(c)
          /\ to = "lost" => from = "sent" /\ running # Streams
          /\ UNCHANGED <<late, hasty>>
  BY DEF SendEnds, Answer, FinishHandler, CallerStates, Streams
<1>2. /\ caller[c] = from /\ caller'[c] = to
      /\ caller' \in [Callers -> CallerStates]
      /\ \A d \in Callers : d # c => caller'[d] = caller[d]
      /\ UNCHANGED <<started, engine, running, call, awaits, overlapped, aborted,
                     torn>>
  <2>1. to \in CallerStates
    BY DEF CallerStates
  <2> QED
    BY <1>1, <2>1, MoveFrame
<1>3. QueuedIsAwaited'
  <2>1. Queued' \subseteq Queued
    BY <1>2 DEF Queued
  <2> QED
    BY <1>1, <1>2, <2>1 DEF IInv, QueuedIsAwaited, PastServices, AtOwn
<1>4. HandledIsAwaited'
  <2>1. Handling' \subseteq Handling
    BY <1>1, <1>2, CallersAndCalls DEF Handling
  <2> QED
    BY <1>1, <1>2, <2>1 DEF IInv, HandledIsAwaited, AtOwn
<1>5. c \notin hasty /\ from = "queued" => ~Refused(c)
  BY <1>2 DEF IInv, QueuedIsAwaited, Queued, PastServices, AtOwn, Refused
<1>6. c \notin late /\ c \in Handlers /\ from = "sent" => running = Streams
  BY <1>2 DEF IInv, HandledIsAwaited, Handling
<1>7. NothingLost'
  <2>1. ASSUME NEW d \in Callers, d \notin hasty
        PROVE  caller'[d] # "dropped"
    BY <1>1, <1>2, <1>5, <2>1 DEF IInv, NothingLost
  <2>2. ASSUME NEW h \in Handlers, h \notin late
        PROVE  caller'[h] # "lost"
    BY <1>1, <1>2, <1>6, <2>2, CallersAndCalls DEF IInv, NothingLost
  <2> QED
    BY <1>1, <2>1, <2>2 DEF NothingLost
<1>8. late' \subseteq Handlers /\ hasty' \subseteq Callers
  BY <1>1 DEF IInv, TypeOK
<1> QED
  BY <1>2, <1>3, <1>4, <1>7, <1>8, CallerFrame

\* A stutter changes nothing the invariant is about.
LEMMA StutterIInv ==
    ASSUME IInv, UNCHANGED vars
    PROVE  IInv'
<1> USE DEF vars
<1>1. Queued' = Queued /\ Handling' = Handling
  BY DEF Queued, Handling
<1>2. \A d \in Calls : /\ Opening(d)' = Opening(d) /\ InProgress(d)' = InProgress(d)
                       /\ AtOwn(d)' = AtOwn(d)
                       /\ PastServices(d)' = PastServices(d)
  BY DEF Opening, InProgress, AtOwn, PastServices
<1>3. /\ late' \subseteq Handlers /\ hasty' \subseteq Callers
      /\ caller' \in [Callers -> CallerStates]
  BY DEF IInv, TypeOK
<1>4. QueuedIsAwaited' /\ HandledIsAwaited' /\ NothingLost'
  BY <1>1, <1>2, CallersAndCalls
     DEF IInv, QueuedIsAwaited, HandledIsAwaited, NothingLost
<1> QED
  BY <1>3, <1>4, CallerFrame

\* Every step keeps the invariant.
LEMMA NextIInv == IInv /\ [Next]_vars => IInv'
  BY BeginStartIInv, OpenedIInv, WaitEndsIInv, StreamStartsIInv, BeginStopIInv,
     ClosedEventsIInv, ClosedIInv, ArriveIInv, SendIInv, WorkIInv, StutterIInv,
     CallersAndCalls DEF Next, StartStep, StopStep

-----------------------------------------------------------------------------
\* The invariant the theorems below follow from holds in every reachable state.
THEOREM Inductive == Spec => []IInv
  BY InitIInv, NextIInv, PTL DEF Spec

\* The variables of the lifecycle keep their types, and streams only run while
\* their engine does (streaming_worker_base.py 81-118).
THEOREM TypeCorrect == Spec => []TypeOK
<1>1. IInv => TypeOK
  BY DEF IInv
<1> QED
  BY <1>1, Inductive, PTL

\* A runtime that is started and left alone has all its parts and engines, but
\* for a stop that failed and starts that overlapped (kafka_agent_runtime.py
\* 172-184).
THEOREM EndsWhole == Spec => []RunningIsWhole
<1>1. IInv => RunningIsWhole
  <2> SUFFICES ASSUME IInv, NobodyAtWork, "runtime" \in started, ~torn, ~overlapped
               PROVE  started = Parts /\ engine = Engines
    BY DEF RunningIsWhole
  <2>1. started = Parts
    BY CallersAndCalls DEF IInv, StartedIsWhole, NobodyAtWork
  <2>2. "own" \in engine /\ "events" \in engine
    BY <2>1 DEF IInv, FlagsHaveEngines, Parts
  <2> QED
    BY <2>1, <2>2 DEF IInv, TypeOK, Engines
<1> QED
  BY <1>1, Inductive, PTL

\* A runtime that is stopped and left alone has left nothing running, but for
\* starts that failed or overlapped (kafka_agent_runtime.py 199-211).
THEOREM EndsClean == Spec => []StoppedIsClean
<1>1. IInv => StoppedIsClean
  <2> SUFFICES ASSUME IInv, NobodyAtWork, "runtime" \notin started, ~aborted,
                      ~overlapped
               PROVE  started = {} /\ engine = {}
    BY DEF StoppedIsClean
  <2>1. \A s \in Starts : ~Opening(s)
    BY CallersAndCalls DEF NobodyAtWork, InProgress, Opening, Ended
  <2>2. started = {}
    BY <2>1 DEF IInv, StoppedIsEmpty
  <2> QED
    BY <2>2 DEF IInv, TypeOK, EnginesAreFlagged, Engines
<1> QED
  BY <1>1, Inductive, PTL

\* The stops of a runtime wait for the work there is when they look: a handler
\* keeps its engine and its answer, a queued request is sent, whatever stops
\* come, overlap or fail (kafka_agent_runtime.py 199-211,
\* streaming_worker_base.py 264-267).
THEOREM WorkIsWaitedFor == Spec => []StopsWaitForWork
<1>1. IInv => StopsWaitForWork
  <2> SUFFICES ASSUME IInv
               PROVE  StopsWaitForWork
    OBVIOUS
  <2>1. \A h \in Handlers \ late :
            /\ caller[h] # "lost"
            /\ h \in Handling => "own" \in engine /\ AllRunning
    BY DEF IInv, TypeOK, NothingLost, HandledIsAwaited, AllRunning, Streams
  <2> QED
    BY <2>1 DEF IInv, NothingLost, StopsWaitForWork
<1> QED
  BY <1>1, Inductive, PTL
=============================================================================
