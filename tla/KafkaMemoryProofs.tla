-------------------------- MODULE KafkaMemoryProofs --------------------------
(***************************************************************************)
(* Proofs about KafkaMemory for every set of instances, adds, consumer     *)
(* groups, faults and bounds: an instance holds its own content once, and  *)
(* the memory of one that has consumed the topic follows it.               *)
(***************************************************************************)
EXTENDS KafkaMemory, TLAPS

\* Before the local add of add() an add is in no memory and not on the topic.
UnaddedIsNowhere ==
    \A x \in Adds : add[x] \in {"idle", "starting"} =>
        /\ \A i \in Instances : items[i][x] = 0 /\ x \notin mine[i]
        /\ \A n \in 1..Len(log) : log[n] # x

\* What an instance has added itself stays in its memory until it is cleared.
OwnAddStays ==
    \A i \in Instances \ amnesic : \A x \in mine[i] :
        items[i][x] > 0 \/ <<i, x>> \in wiped

\* What an instance's group is past is in its memory.
PassedIsKept ==
    \A i \in Instances \ amnesic : \A n \in 1..pos[GroupOf[i]] :
        log[n] \notin Plain /\ <<i, log[n]>> \notin wiped => items[i][log[n]] > 0

IInv ==
    /\ TypeOK
    /\ UnaddedIsNowhere
    /\ OwnAddOnce
    /\ OwnAddStays

\* Each instance has a consumer group of its own.
OwnGroup == \A i, j \in Instances : GroupOf[i] = GroupOf[j] => i = j

-----------------------------------------------------------------------------
(* Types                                                                   *)

\* The bounds are naturals.
LEMMA BoundsAreNaturals ==
    /\ MaxRetries \in Nat /\ MaxClears \in Nat
    /\ MaxCrashes \in Nat /\ MaxRedeliveries \in Nat
  BY MemoryAssumption

\* Adds are made on instances, whose consumers have groups.
LEMMA AddersAndGroups ==
    /\ \A x \in Adds : AdderOf[x] \in Instances
    /\ \A i \in Instances : GroupOf[i] \in Groups
  BY MemoryAssumption

\* One more copy of a content in one memory.
LEMMA OneMore ==
    ASSUME NEW f \in [Instances -> [Adds -> Nat]], NEW i \in Instances, NEW x \in Adds
    PROVE  /\ [f EXCEPT ![i][x] = @ + 1] \in [Instances -> [Adds -> Nat]]
           /\ \A j \in Instances, y \in Adds :
                 [f EXCEPT ![i][x] = @ + 1][j][y] =
                    IF j = i /\ y = x THEN f[j][y] + 1 ELSE f[j][y]
  OBVIOUS

\* One memory without any content.
LEMMA Emptied ==
    ASSUME NEW f \in [Instances -> [Adds -> Nat]], NEW i \in Instances
    PROVE  /\ [f EXCEPT ![i] = [x \in Adds |-> 0]] \in [Instances -> [Adds -> Nat]]
           /\ \A j \in Instances, y \in Adds :
                 [f EXCEPT ![i] = [x \in Adds |-> 0]][j][y] =
                    IF j = i THEN 0 ELSE f[j][y]
  OBVIOUS

\* One more record on the topic.
LEMMA OneMoreRecord ==
    ASSUME NEW s \in Seq(Adds), NEW x \in Adds
    PROVE  /\ Append(s, x) \in Seq(Adds)
           /\ Len(Append(s, x)) = Len(s) + 1
           /\ \A n \in 1..Len(s) + 1 :
                 Append(s, x)[n] = IF n <= Len(s) THEN s[n] ELSE x
  OBVIOUS

\* One more clear, crash or redelivery within its bound.
Counts == [clears : 0..MaxClears, crashes : 0..MaxCrashes,
           redeliveries : 0..MaxRedeliveries]

\* A step that counts one more is within the bound.
LEMMA OneMoreCounted ==
    ASSUME NEW c \in Counts
    PROVE  /\ c.clears < MaxClears => [c EXCEPT !.clears = @ + 1] \in Counts
           /\ c.crashes < MaxCrashes => [c EXCEPT !.crashes = @ + 1] \in Counts
           /\ c.redeliveries < MaxRedeliveries =>
                 [c EXCEPT !.redeliveries = @ + 1] \in Counts
<1> USE BoundsAreNaturals
<1>1. c.clears < MaxClears => c.clears + 1 \in 0..MaxClears
  BY DEF Counts
<1>2. c.crashes < MaxCrashes => c.crashes + 1 \in 0..MaxCrashes
  BY DEF Counts
<1>3. c.redeliveries < MaxRedeliveries => c.redeliveries + 1 \in 0..MaxRedeliveries
  BY DEF Counts
<1> QED
  BY <1>1, <1>2, <1>3 DEF Counts

\* The types of what holds the contents.
LEMMA ContentTypes ==
    ASSUME TypeOK
    PROVE  /\ items \in [Instances -> [Adds -> Nat]]
           /\ mine \in [Instances -> SUBSET Adds]
           /\ add \in [Adds -> AddStates]
           /\ log \in Seq(Adds) /\ Len(log) \in Nat
           /\ pos \in [Groups -> Nat]
           /\ \A g \in Groups : pos[g] <= Len(log)
           /\ counts \in Counts
  BY DEF TypeOK, Counts

\* The local add is well typed.
LEMMA AddLocallyType ==
    ASSUME TypeOK, NEW x \in Adds, AddLocally(x)
    PROVE  /\ items' \in [Instances -> [Adds -> Nat]]
           /\ mine' \in [Instances -> SUBSET Adds]
           /\ \A i \in Instances : \A y \in mine'[i] : AdderOf[y] = i
           /\ add' \in [Adds -> AddStates]
<1>1. AdderOf[x] \in Instances
  BY AddersAndGroups
<1>2. items' \in [Instances -> [Adds -> Nat]]
  BY <1>1, ContentTypes, OneMore DEF AddLocally
<1>3. /\ mine' \in [Instances -> SUBSET Adds]
      /\ \A i \in Instances : \A y \in mine'[i] : AdderOf[y] = i
  BY <1>1 DEF AddLocally, TypeOK
<1>4. add' \in [Adds -> AddStates]
  BY DEF AddLocally, AddStates, TypeOK
<1> QED
  BY <1>2, <1>3, <1>4

\* The steps of an add keep the types.
LEMMA AddStepType ==
    ASSUME TypeOK, NEW x \in Adds, AddStep(x)
    PROVE  TypeOK'
<1> USE AddersAndGroups DEF memoryVars, clearVars, topicVars, history
<1>1. CASE BeginAdd(x)
  <2>1. CASE AddLocally(x)
    BY <1>1, <2>1, AddLocallyType DEF BeginAdd, TypeOK
  <2>2. CASE ~AddLocally(x)
    BY <1>1, <2>2 DEF BeginAdd, TypeOK, AddStates
  <2> QED
    BY <2>1, <2>2
<1>2. CASE AddStarted(x)
  <2>1. CASE AddLocally(x)
    <3>1. started \subseteq started' /\ started' \subseteq Instances
      BY <1>2 DEF AddStarted, TypeOK
    <3> QED
      BY <1>2, <2>1, <3>1, AddLocallyType DEF AddStarted, TypeOK
  <2>2. CASE ~AddLocally(x)
    BY <1>2, <2>2 DEF AddStarted, TypeOK, AddStates
  <2> QED
    BY <2>1, <2>2
<1>3. CASE Broadcast(x)
  <2>1. log' \in Seq(Adds) /\ Len(log') = Len(log) + 1
    BY <1>3, ContentTypes, OneMoreRecord DEF Broadcast
  <2>2. \A g \in Groups : pos'[g] <= Len(log')
    BY <1>3, <2>1, ContentTypes DEF Broadcast
  <2> QED
    BY <1>3, <2>1, <2>2 DEF Broadcast, TypeOK, AddStates
<1>4. CASE Acknowledged(x) \/ AddFailed(x)
  BY <1>4 DEF Acknowledged, AddFailed, TypeOK, AddStates
<1> QED
  BY <1>1, <1>2, <1>3, <1>4 DEF AddStep

\* What a consumer reads is an add.
LEMMA ConsumedRecord ==
    ASSUME TypeOK, NEW i \in Instances, HandleEvent(i)
    PROVE  /\ GroupOf[i] \in Groups
           /\ pos[GroupOf[i]] \in Nat
           /\ pos[GroupOf[i]] < Len(log)
           /\ pos[GroupOf[i]] + 1 \in 1..Len(log)
           /\ log[pos[GroupOf[i]] + 1] \in Adds
<1>1. GroupOf[i] \in Groups
  BY AddersAndGroups
<1>2. pos[GroupOf[i]] \in Nat /\ Len(log) \in Nat
  BY <1>1, ContentTypes
<1>3. pos[GroupOf[i]] < Len(log)
  BY DEF HandleEvent
<1>4. pos[GroupOf[i]] + 1 \in 1..Len(log)
  BY <1>2, <1>3
<1> QED
  BY <1>1, <1>2, <1>3, <1>4, ContentTypes

\* Consuming keeps the types.
LEMMA HandleEventType ==
    ASSUME TypeOK, NEW i \in Instances, HandleEvent(i)
    PROVE  TypeOK'
<1> DEFINE g == GroupOf[i]
           x == log[pos[g] + 1]
<1>1. g \in Groups /\ pos[g] \in Nat /\ pos[g] < Len(log) /\ x \in Adds
  BY ConsumedRecord
<1>2. pos' = [pos EXCEPT ![g] = @ + 1]
  BY DEF HandleEvent
<1>3. /\ pos' \in [Groups -> Nat]
      /\ \A h \in Groups : pos'[h] <= Len(log)
  BY <1>1, <1>2, ContentTypes
<1>4. items' = items \/ items' = [items EXCEPT ![i][x] = @ + 1]
  BY DEF HandleEvent
<1>5. items' \in [Instances -> [Adds -> Nat]]
  <2>1. items \in [Instances -> [Adds -> Nat]] /\ x \in Adds
    BY <1>1, ContentTypes
  <2> HIDE DEF x
  <2>2. [items EXCEPT ![i][x] = @ + 1] \in [Instances -> [Adds -> Nat]]
    BY ONLY <2>1, OneMore, i \in Instances
  <2> QED
    BY ONLY <1>4, <2>1, <2>2
<1>6. halted' \subseteq started
  BY DEF HandleEvent, TypeOK
<1> QED
  BY <1>3, <1>5, <1>6 DEF HandleEvent, clearVars, history, TypeOK

\* The steps of clear() keep the types.
LEMMA ClearStepType ==
    ASSUME TypeOK, NEW i \in Instances,
           \/ BeginClear(i) \/ ClearStops(i) \/ DeleteTopic(i) \/ Poll(i)
           \/ FinishClear(i)
    PROVE  TypeOK'
<1> USE BoundsAreNaturals
    DEF memoryVars, topicVars, history, ActiveClear, Resting
<1>1. CASE BeginClear(i)
  <2>1. items' \in [Instances -> [Adds -> Nat]]
    BY <1>1, ContentTypes, Emptied DEF BeginClear
  <2>2. wiped' \subseteq Instances \X Adds
    BY <1>1 DEF BeginClear, TypeOK
  <2>3. counts' \in Counts
    BY <1>1, ContentTypes, OneMoreCounted DEF BeginClear
  <2>4. clear' \in [Instances -> ActiveClear \cup Resting]
    BY <1>1 DEF BeginClear, TypeOK
  <2> QED
    BY <1>1, <2>1, <2>2, <2>3, <2>4 DEF BeginClear, TypeOK, Counts
<1>2. CASE ClearStops(i)
  BY <1>2 DEF ClearStops, TypeOK
<1>3. CASE DeleteTopic(i)
  <2>1. retries' \in [Instances -> 0..MaxRetries]
    BY <1>3 DEF DeleteTopic, TypeOK
  <2>2. clear' \in [Instances -> ActiveClear \cup Resting]
    BY <1>3 DEF DeleteTopic, TypeOK
  <2> QED
    BY <1>3, <2>1, <2>2 DEF DeleteTopic, TypeOK
<1>4. CASE Poll(i)
  <2>1. retries' \in [Instances -> 0..MaxRetries]
    <3>1. retries[i] \in 0..MaxRetries
      BY DEF TypeOK
    <3>2. ~GivesUp(i) => retries[i] + 1 \in 0..MaxRetries
      BY <3>1 DEF GivesUp
    <3> QED
      BY <1>4, <3>2 DEF Poll, Counted, TypeOK
  <2>2. clear' \in [Instances -> ActiveClear \cup Resting]
    BY <1>4 DEF Poll, TypeOK
  <2> QED
    BY <1>4, <2>1, <2>2 DEF Poll, TypeOK
<1>5. CASE FinishClear(i)
  BY <1>5 DEF FinishClear, TypeOK
<1> QED
  BY <1>1, <1>2, <1>3, <1>4, <1>5

\* A crash keeps the types.
LEMMA CrashType ==
    ASSUME TypeOK, NEW i \in Instances, Crash(i)
    PROVE  TypeOK'
<1>1. items' \in [Instances -> [Adds -> Nat]]
  BY ContentTypes, Emptied DEF Crash
<1>2. /\ mine' \in [Instances -> SUBSET Adds]
      /\ \A j \in Instances : \A x \in mine'[j] : AdderOf[x] = j
  BY DEF Crash, TypeOK
<1>3. add' \in [Adds -> AddStates]
  BY DEF Crash, AddStates, TypeOK
<1>4. counts' \in Counts
  BY ContentTypes, OneMoreCounted DEF Crash
<1> QED
  BY <1>1, <1>2, <1>3, <1>4 DEF Crash, topicVars, Resting, TypeOK, Counts

\* So does a redelivery.
LEMMA RedeliverType ==
    ASSUME TypeOK, NEW g \in Groups, Redeliver(g)
    PROVE  TypeOK'
<1>1. pos' \in [Groups -> Nat] /\ \A h \in Groups : pos'[h] <= Len(log)
  BY ContentTypes DEF Redeliver
<1>2. counts' \in Counts
  BY ContentTypes, OneMoreCounted DEF Redeliver
<1> QED
  BY <1>1, <1>2 DEF Redeliver, memoryVars, clearVars, history, TypeOK, Counts

\* So does every step.
LEMMA NextType == TypeOK /\ [Next]_vars => TypeOK'
<1> SUFFICES ASSUME TypeOK, [Next]_vars PROVE TypeOK'
  OBVIOUS
<1> USE DEF memoryVars, clearVars, topicVars, history
<1>1. CASE UNCHANGED vars
  BY <1>1 DEF vars, TypeOK
<1>2. ASSUME NEW i \in Instances, Start(i) \/ Close(i)
      PROVE  TypeOK'
  BY <1>2 DEF Start, Close, TypeOK
<1>3. CASE TopicGone
  BY <1>3 DEF TopicGone, TypeOK
<1> QED
  BY <1>1, <1>2, <1>3, AddStepType, HandleEventType, ClearStepType, CrashType,
     RedeliverType DEF Next, InstanceStep

-----------------------------------------------------------------------------
(* The invariant                                                           *)

\* Before anything is added every memory and the topic are empty.
LEMMA InitIInv == Init => IInv
<1> SUFFICES ASSUME Init PROVE IInv
  OBVIOUS
<1> USE BoundsAreNaturals DEF Init
<1>1. TypeOK
  BY DEF TypeOK, AddStates, ActiveClear, Resting
<1> QED
  BY <1>1, MemoryAssumption DEF IInv, UnaddedIsNowhere, OwnAddOnce, OwnAddStays

\* The local add puts a content into one memory, for the first time.
LEMMA AddLocallyIInv ==
    ASSUME IInv, TypeOK', NEW x \in Adds, add[x] \in {"idle", "starting"},
           AddLocally(x), UNCHANGED <<log, history>>
    PROVE  IInv'
<1> DEFINE a == AdderOf[x]
<1>1. a \in Instances
  BY AddersAndGroups
<1>2. items[a][x] = 0
  BY <1>1 DEF IInv, UnaddedIsNowhere
<1>3. \A i \in Instances, y \in Adds :
         items'[i][y] = IF i = a /\ y = x THEN 1 ELSE items[i][y]
  <2>1. items' = [items EXCEPT ![a][x] = @ + 1]
    BY DEF AddLocally
  <2>2. items \in [Instances -> [Adds -> Nat]]
    BY ContentTypes DEF IInv
  <2> HIDE DEF a
  <2>3. \A i \in Instances, y \in Adds :
           items'[i][y] = IF i = a /\ y = x THEN items[i][y] + 1 ELSE items[i][y]
    BY ONLY <1>1, <2>1, <2>2, OneMore, x \in Adds
  <2> QED
    BY ONLY <1>2, <2>3
<1>4. \A i \in Instances :
         mine'[i] = IF i = a THEN mine[i] \cup {x} ELSE mine[i]
  BY <1>1, ContentTypes DEF IInv, AddLocally
<1>5. \A y \in Adds : add'[y] = IF y = x THEN "sending" ELSE add[y]
  BY DEF IInv, TypeOK, AddLocally
<1>6. UnaddedIsNowhere'
  <2> SUFFICES ASSUME NEW y \in Adds, add'[y] \in {"idle", "starting"}
               PROVE  /\ \A i \in Instances : items'[i][y] = 0 /\ y \notin mine'[i]
                      /\ \A n \in 1..Len(log') : log'[n] # y
    BY DEF UnaddedIsNowhere
  <2>1. y # x /\ add[y] \in {"idle", "starting"}
    BY <1>5
  <2>2. UnaddedIsNowhere /\ log' = log
    BY DEF IInv
  <2>3. \A i \in Instances : items[i][y] = 0 /\ y \notin mine[i]
    BY <2>1, <2>2 DEF UnaddedIsNowhere
  <2>4. \A i \in Instances : items'[i][y] = 0 /\ y \notin mine'[i]
    <3>1. \A i \in Instances : items'[i][y] = items[i][y]
      BY ONLY <1>3, <2>1, y \in Adds
    <3>2. \A i \in Instances : y \notin mine[i] => y \notin mine'[i]
      BY ONLY <1>4, <2>1
    <3> QED
      BY ONLY <2>3, <3>1, <3>2
  <2> QED
    BY <2>1, <2>2, <2>4 DEF UnaddedIsNowhere
<1>7. OwnAddOnce' /\ OwnAddStays'
  <2> SUFFICES ASSUME NEW i \in Instances, NEW y \in mine'[i]
               PROVE  /\ items'[i][y] = 0 \/ items'[i][y] = 1
                      /\ i \notin amnesic' => items'[i][y] > 0 \/ <<i, y>> \in wiped'
    BY DEF OwnAddOnce, OwnAddStays
  <2>1. OwnAddOnce /\ OwnAddStays /\ wiped' = wiped /\ amnesic' = amnesic
    BY DEF IInv, history
  <2>2. CASE i = a /\ y = x
    BY <1>1, <1>3, <2>2
  <2>3. CASE ~(i = a /\ y = x)
    <3>1. y \in mine[i] /\ y \in Adds
      BY <1>4, <2>3, ContentTypes DEF IInv
    <3>2. items'[i][y] = items[i][y]
      BY <1>3, <2>3, <3>1
    <3> QED
      BY <2>1, <3>1, <3>2 DEF OwnAddOnce, OwnAddStays
  <2> QED
    BY <2>2, <2>3
<1> QED
  BY <1>6, <1>7 DEF IInv

\* An add touches its own memory once, before it is on the topic.
LEMMA AddStepIInv ==
    ASSUME IInv, NEW x \in Adds, AddStep(x)
    PROVE  IInv'
<1> USE DEF memoryVars, clearVars, topicVars, history
<1>1. TypeOK'
  BY AddStepType DEF IInv
<1>2. CASE AddLocally(x) /\ (BeginAdd(x) \/ AddStarted(x))
  BY <1>1, <1>2, AddLocallyIInv DEF BeginAdd, AddStarted
<1>3. CASE ~(AddLocally(x) /\ (BeginAdd(x) \/ AddStarted(x)))
  <2>1. UNCHANGED <<items, mine, wiped, amnesic>>
    BY <1>3 DEF AddStep, BeginAdd, AddStarted, Broadcast, Acknowledged, AddFailed
  <2>2. OwnAddOnce' /\ OwnAddStays'
    BY <2>1 DEF IInv, OwnAddOnce, OwnAddStays
  <2>3. \A y \in Adds : add'[y] \in {"idle", "starting"} =>
           add[y] \in {"idle", "starting"}
    BY <1>3 DEF IInv, TypeOK, AddStep, BeginAdd, AddStarted, Broadcast,
                Acknowledged, AddFailed
  <2>4. CASE Broadcast(x)
    <3>1. Len(log') = Len(log) + 1
      BY <2>4, ContentTypes, OneMoreRecord DEF IInv, Broadcast
    <3>2. \A n \in 1..Len(log') : log'[n] = IF n <= Len(log) THEN log[n] ELSE x
      BY <2>4, <3>1, ContentTypes, OneMoreRecord DEF IInv, Broadcast
    <3>3. add[x] = "sending" /\ add'[x] = "written"
      BY <2>4, ContentTypes DEF IInv, Broadcast
    <3>4. Len(log) \in Nat
      BY ContentTypes DEF IInv
    <3>5. UnaddedIsNowhere'
      BY <2>1, <2>3, <3>1, <3>2, <3>3, <3>4 DEF IInv, UnaddedIsNowhere
    <3> QED
      BY <1>1, <2>2, <3>5 DEF IInv
  <2>5. CASE ~Broadcast(x)
    <3>1. log' = log
      BY <1>3, <2>5 DEF AddStep, BeginAdd, AddStarted, Acknowledged, AddFailed
    <3> QED
      BY <1>1, <2>1, <2>2, <2>3, <3>1 DEF IInv, UnaddedIsNowhere
  <2> QED
    BY <2>4, <2>5
<1> QED
  BY <1>2, <1>3

\* A consumer adds what is on the topic, which somebody has added, and nothing of
\* its own.
LEMMA HandleEventIInv ==
    ASSUME IInv, NEW i \in Instances, HandleEvent(i)
    PROVE  IInv'
<1> DEFINE g == GroupOf[i]
           x == log[pos[g] + 1]
<1>1. TypeOK'
  BY HandleEventType DEF IInv
<1>2. pos[g] + 1 \in 1..Len(log) /\ x \in Adds
  BY ConsumedRecord DEF IInv
<1>3. add[x] \notin {"idle", "starting"}
  BY <1>2 DEF IInv, UnaddedIsNowhere
<1>4. UNCHANGED <<mine, add, log, wiped, amnesic>>
  BY DEF HandleEvent, history
<1>5. \/ items' = items
      \/ x \notin mine[i] /\ items' = [items EXCEPT ![i][x] = @ + 1]
  BY DEF HandleEvent, Keeps
<1>6. \A j \in Instances, y \in Adds :
         \/ items'[j][y] = items[j][y]
         \/ j = i /\ y = x /\ x \notin mine[i] /\ items'[j][y] = items[j][y] + 1
  <2>1. items \in [Instances -> [Adds -> Nat]]
    BY ContentTypes DEF IInv
  <2> HIDE DEF x
  <2> QED
    BY ONLY <1>2, <1>5, <2>1, OneMore, i \in Instances
<1>7. UnaddedIsNowhere'
  BY <1>3, <1>4, <1>6 DEF IInv, UnaddedIsNowhere
<1>8. OwnAddOnce' /\ OwnAddStays'
  <2> SUFFICES ASSUME NEW j \in Instances, NEW y \in mine[j]
               PROVE  /\ items'[j][y] = 0 \/ items'[j][y] = 1
                      /\ j \notin amnesic => items'[j][y] > 0 \/ <<j, y>> \in wiped
    BY <1>4 DEF OwnAddOnce, OwnAddStays
  <2>1. y \in Adds
    BY ContentTypes DEF IInv
  <2>2. items'[j][y] = items[j][y]
    BY <1>6, <2>1
  <2> QED
    BY <2>2 DEF IInv, OwnAddOnce, OwnAddStays
<1> QED
  BY <1>1, <1>7, <1>8 DEF IInv

\* A clear empties one memory and remembers what was in it.
LEMMA BeginClearIInv ==
    ASSUME IInv, NEW i \in Instances, BeginClear(i)
    PROVE  IInv'
<1>1. TypeOK'
  BY ClearStepType DEF IInv
<1>2. UNCHANGED <<mine, add, log, amnesic>>
  BY DEF BeginClear, topicVars
<1>3. \A j \in Instances, y \in Adds :
         items'[j][y] = IF j = i THEN 0 ELSE items[j][y]
  BY ContentTypes, Emptied DEF IInv, BeginClear
<1>4. /\ wiped \subseteq wiped'
      /\ \A y \in Adds : items[i][y] > 0 => <<i, y>> \in wiped'
  BY DEF BeginClear
<1>5. UnaddedIsNowhere'
  BY <1>2, <1>3 DEF IInv, UnaddedIsNowhere
<1>6. OwnAddOnce' /\ OwnAddStays'
  <2> SUFFICES ASSUME NEW j \in Instances, NEW y \in mine[j]
               PROVE  /\ items'[j][y] = 0 \/ items'[j][y] = 1
                      /\ j \notin amnesic => items'[j][y] > 0 \/ <<j, y>> \in wiped'
    BY <1>2 DEF OwnAddOnce, OwnAddStays
  <2>1. y \in Adds
    BY ContentTypes DEF IInv
  <2>2. OwnAddOnce /\ OwnAddStays
    BY DEF IInv
  <2>3. CASE j = i
    BY <1>3, <1>4, <2>1, <2>2, <2>3 DEF OwnAddStays
  <2>4. CASE j # i
    BY <1>3, <1>4, <2>1, <2>2, <2>4 DEF OwnAddOnce, OwnAddStays
  <2> QED
    BY <2>3, <2>4
<1> QED
  BY <1>1, <1>5, <1>6 DEF IInv

\* A crash forgets the memory and the _instance_id of one instance.
LEMMA CrashIInv ==
    ASSUME IInv, NEW i \in Instances, Crash(i)
    PROVE  IInv'
<1>1. TypeOK'
  BY CrashType DEF IInv
<1>2. UNCHANGED <<log, wiped>> /\ amnesic' = amnesic \cup {i}
  BY DEF Crash, topicVars
<1>3. \A j \in Instances :
         /\ mine'[j] = IF j = i THEN {} ELSE mine[j]
         /\ \A y \in Adds : items'[j][y] = IF j = i THEN 0 ELSE items[j][y]
  BY ContentTypes, Emptied DEF IInv, Crash
<1>4. \A y \in Adds : add'[y] \in {"idle", "starting"} =>
         add[y] \in {"idle", "starting"}
  BY DEF Crash
<1>5. UnaddedIsNowhere'
  BY <1>2, <1>3, <1>4 DEF IInv, UnaddedIsNowhere
<1>6. OwnAddOnce' /\ OwnAddStays'
  <2> SUFFICES ASSUME NEW j \in Instances, j # i, NEW y \in mine[j]
               PROVE  /\ items'[j][y] = 0 \/ items'[j][y] = 1
                      /\ j \notin amnesic => items'[j][y] > 0 \/ <<j, y>> \in wiped
    BY <1>2, <1>3 DEF OwnAddOnce, OwnAddStays
  <2>1. y \in Adds
    BY ContentTypes DEF IInv
  <2>2. items'[j][y] = items[j][y]
    BY <1>3, <2>1
  <2> QED
    BY <2>2 DEF IInv, OwnAddOnce, OwnAddStays
<1> QED
  BY <1>1, <1>5, <1>6 DEF IInv

\* The other steps touch no memory.
OtherStep ==
    \/ \E i \in Instances : \/ Start(i) \/ Close(i) \/ ClearStops(i)
                            \/ DeleteTopic(i) \/ Poll(i) \/ FinishClear(i)
    \/ \E g \in Groups : Redeliver(g)
    \/ TopicGone
    \/ UNCHANGED vars

\* They keep the invariant, which is about the memories.
LEMMA OtherStepIInv == IInv /\ OtherStep => IInv'
<1> SUFFICES ASSUME IInv, OtherStep PROVE IInv'
  OBVIOUS
<1>1. TypeOK'
  BY NextType DEF IInv, OtherStep, Next, InstanceStep
<1>2. /\ UNCHANGED <<items, mine, add, wiped, amnesic>>
      /\ log' = log \/ log' = <<>>
  BY DEF OtherStep, Start, Close, ClearStops, DeleteTopic, Poll, FinishClear,
         Redeliver, TopicGone, vars, memoryVars, clearVars, topicVars, history
<1>3. UnaddedIsNowhere'
  BY <1>2 DEF IInv, UnaddedIsNowhere
<1> QED
  BY <1>1, <1>2, <1>3 DEF IInv, OwnAddOnce, OwnAddStays

\* Every step keeps the invariant.
LEMMA NextIInv == IInv /\ [Next]_vars => IInv'
  BY AddStepIInv, HandleEventIInv, BeginClearIInv, CrashIInv, OtherStepIInv
     DEF Next, InstanceStep, OtherStep

\* The invariant the theorems below follow from holds in every reachable state.
THEOREM Inductive == Spec => []IInv
  BY InitIInv, NextIInv, PTL DEF Spec

-----------------------------------------------------------------------------
(* What follows from it                                                    *)

\* Every variable keeps its type, and no group is past the end of the topic,
\* also after the topic was deleted (kafka_memory.py).
THEOREM TypeCorrect == Spec => []TypeOK
<1>1. IInv => TypeOK
  BY DEF IInv
<1> QED
  BY <1>1, Inductive, PTL

\* An instance's own content is in its memory once at most, whatever groups the
\* instances share (kafka_memory.py 437-440).
THEOREM OwnOnce == Spec => []OwnAddOnce
<1>1. IInv => OwnAddOnce
  BY DEF IInv
<1> QED
  BY <1>1, Inductive, PTL

-----------------------------------------------------------------------------
(* The view of the topic                                                   *)

\* What a step leaves of the part of the topic that a group is past.
LEMMA PassedFrame ==
    ASSUME IInv, PassedIsKept, amnesic \subseteq amnesic', wiped \subseteq wiped',
           \A i \in Instances : \A n \in 1..pos'[GroupOf[i]] :
               /\ n \in 1..pos[GroupOf[i]]
               /\ log'[n] = log[n] /\ log[n] \in Adds,
           \A i \in Instances \ amnesic' : \A x \in Adds :
               items[i][x] > 0 => items'[i][x] > 0 \/ <<i, x>> \in wiped'
    PROVE  PassedIsKept'
  BY DEF PassedIsKept

\* What a group is past are adds.
LEMMA PassedAreAdds ==
    ASSUME TypeOK, NEW i \in Instances, NEW n \in 1..pos[GroupOf[i]]
    PROVE  n \in 1..Len(log) /\ log[n] \in Adds
<1>1. GroupOf[i] \in Groups
  BY MemoryAssumption
<1>2. pos[GroupOf[i]] <= Len(log) /\ Len(log) \in Nat /\ pos[GroupOf[i]] \in Nat
  BY <1>1 DEF TypeOK
<1>3. n \in 1..Len(log)
  BY <1>2
<1> QED
  BY <1>3 DEF TypeOK

\* A record that is consumed is in the memory of the consumer, the only one in
\* its group: it is added, or it is its own and was added before.
LEMMA HandleEventPassed ==
    ASSUME IInv, PassedIsKept, OwnGroup, NEW i \in Instances, HandleEvent(i)
    PROVE  PassedIsKept'
<1> DEFINE g == GroupOf[i]
           x == log[pos[g] + 1]
<1>1. g \in Groups /\ pos[g] \in Nat /\ pos[g] + 1 \in 1..Len(log) /\ x \in Adds
  BY ConsumedRecord DEF IInv
<1>2. UNCHANGED <<mine, log, wiped, amnesic>>
  BY DEF HandleEvent, history
<1>3. \A j \in Instances, y \in Adds : items[j][y] > 0 => items'[j][y] > 0
  <2>1. items' = items \/ items' = [items EXCEPT ![i][x] = @ + 1]
    BY DEF HandleEvent
  <2>2. items \in [Instances -> [Adds -> Nat]] /\ x \in Adds
    BY <1>1, ContentTypes DEF IInv
  <2> HIDE DEF x
  <2>3. \A j \in Instances, y \in Adds :
           items'[j][y] = items[j][y] \/ items'[j][y] = items[j][y] + 1
    BY ONLY <2>1, <2>2, OneMore, i \in Instances
  <2> QED
    BY ONLY <2>2, <2>3
<1>4. \A j \in Instances :
         pos'[GroupOf[j]] = IF j = i THEN pos[g] + 1 ELSE pos[GroupOf[j]]
  BY <1>1, MemoryAssumption DEF OwnGroup, HandleEvent, IInv, TypeOK
<1>5. i \notin amnesic /\ x \notin Plain /\ <<i, x>> \notin wiped => items'[i][x] > 0
  <2> SUFFICES ASSUME i \notin amnesic, x \notin Plain, <<i, x>> \notin wiped
               PROVE  items'[i][x] > 0
    OBVIOUS
  <2>1. CASE x \in mine[i]
    BY <1>1, <1>3, <2>1 DEF IInv, OwnAddStays
  <2>2. CASE x \notin mine[i]
    <3>1. items' = [items EXCEPT ![i][x] = @ + 1]
      BY <2>2 DEF HandleEvent, Keeps, Readable
    <3> QED
      BY <1>1, <3>1 DEF IInv, TypeOK
  <2> QED
    BY <2>1, <2>2
<1>6. ASSUME NEW j \in Instances \ amnesic, NEW n \in 1..pos'[GroupOf[j]],
             log[n] \notin Plain, <<j, log[n]>> \notin wiped
      PROVE  items'[j][log[n]] > 0
  <2>1. CASE n \in 1..pos[GroupOf[j]]
    <3>1. log[n] \in Adds
      BY <2>1, PassedAreAdds DEF IInv
    <3>2. items[j][log[n]] > 0
      BY <1>6, <2>1 DEF PassedIsKept
    <3> QED
      BY <1>3, <3>1, <3>2
  <2>2. CASE n \notin 1..pos[GroupOf[j]]
    <3>1. j = i /\ n = pos[g] + 1
      BY <1>1, <1>4, <2>2
    <3> QED
      BY <1>5, <1>6, <3>1
  <2> QED
    BY <2>1, <2>2
<1> QED
  BY <1>2, <1>6 DEF PassedIsKept

\* So a memory holds what its group is past, but for what was cleared.
LEMMA NextPassed ==
    ASSUME IInv, PassedIsKept, OwnGroup, [Next]_vars
    PROVE  PassedIsKept'
<1> USE DEF memoryVars, clearVars, topicVars, history
<1>1. CASE \E i \in Instances : HandleEvent(i)
  BY <1>1, HandleEventPassed
<1>2. CASE ~\E i \in Instances : HandleEvent(i)
  <2>1. amnesic \subseteq amnesic' /\ wiped \subseteq wiped'
    BY <1>2 DEF Next, InstanceStep, AddStep, Start, Close, Crash, BeginClear,
                ClearStops, DeleteTopic, Poll, FinishClear, BeginAdd, AddStarted,
                Broadcast, Acknowledged, AddFailed, Redeliver, TopicGone, vars
  <2>2. \A i \in Instances \ amnesic' : \A x \in Adds :
           items[i][x] > 0 => items'[i][x] > 0 \/ <<i, x>> \in wiped'
    <3>1. ASSUME NEW j \in Instances, Crash(j)
          PROVE  \A i \in Instances \ amnesic' : items'[i] = items[i]
      BY <3>1 DEF Crash, IInv, TypeOK
    <3>2. ASSUME NEW j \in Instances, BeginClear(j)
          PROVE  \A i \in Instances : \A x \in Adds :
                    items[i][x] > 0 => items'[i][x] > 0 \/ <<i, x>> \in wiped'
      BY <3>2 DEF BeginClear, IInv, TypeOK
    <3>3. ASSUME NEW y \in Adds, AddLocally(y)
          PROVE  \A i \in Instances : \A x \in Adds :
                    items[i][x] > 0 => items'[i][x] > 0
      <4>1. items \in [Instances -> [Adds -> Nat]] /\ AdderOf[y] \in Instances
        BY ContentTypes, AddersAndGroups DEF IInv
      <4>2. items' = [items EXCEPT ![AdderOf[y]][y] = @ + 1]
        BY <3>3 DEF AddLocally
      <4>3. \A i \in Instances, x \in Adds :
               items'[i][x] = items[i][x] \/ items'[i][x] = items[i][x] + 1
        BY ONLY <4>1, <4>2, OneMore, y \in Adds
      <4> QED
        BY ONLY <4>1, <4>3
    <3>4. CASE items' = items
      BY <3>4
    <3> QED
      BY <1>2, <3>1, <3>2, <3>3, <3>4
         DEF Next, InstanceStep, AddStep, Start, Close, ClearStops, DeleteTopic,
             Poll, FinishClear, BeginAdd, AddStarted, Broadcast, Acknowledged,
             AddFailed, Redeliver, TopicGone, vars
  <2>3. \A i \in Instances : \A n \in 1..pos'[GroupOf[i]] :
           /\ n \in 1..pos[GroupOf[i]]
           /\ log'[n] = log[n] /\ log[n] \in Adds
    <3> SUFFICES ASSUME NEW i \in Instances, NEW n \in 1..pos'[GroupOf[i]]
                 PROVE  /\ n \in 1..pos[GroupOf[i]]
                        /\ log'[n] = log[n] /\ log[n] \in Adds
      OBVIOUS
    <3>1. GroupOf[i] \in Groups /\ pos[GroupOf[i]] \in Nat
      BY MemoryAssumption DEF IInv, TypeOK
    <3>2. n \in 1..pos[GroupOf[i]] => n \in 1..Len(log) /\ log[n] \in Adds
      BY PassedAreAdds DEF IInv
    <3>3. CASE pos' = pos /\ log' = log
      BY <3>2, <3>3
    <3>4. ASSUME NEW x \in Adds, Broadcast(x)
          PROVE  n \in 1..pos[GroupOf[i]] /\ log'[n] = log[n]
      BY <3>2, <3>4 DEF Broadcast, IInv, TypeOK
    <3>5. ASSUME NEW g \in Groups, Redeliver(g)
          PROVE  n \in 1..pos[GroupOf[i]] /\ log' = log
      BY <3>1, <3>5 DEF Redeliver, IInv, TypeOK
    <3>6. CASE TopicGone
      BY <3>1, <3>6 DEF TopicGone
    <3>7. \/ pos' = pos /\ log' = log
          \/ (\E x \in Adds : Broadcast(x)) \/ (\E g \in Groups : Redeliver(g))
          \/ TopicGone
      BY <1>2 DEF Next, InstanceStep, AddStep, Start, Close, Crash, BeginClear,
                  ClearStops, DeleteTopic, Poll, FinishClear, BeginAdd,
                  AddStarted, Acknowledged, AddFailed, vars
    <3> QED
      BY <3>2, <3>3, <3>4, <3>5, <3>6, <3>7
  <2> QED
    BY <2>1, <2>2, <2>3, PassedFrame
<1> QED
  BY <1>1, <1>2

\* Where each instance has a group of its own, one that has consumed the topic
\* has everything readable on it in its memory, but for what a clear of its own
\* removed and unless it crashed (kafka_memory.py 213-249, 387-444).  Two
\* instances of one group share the records, so that this is not true of them.
THEOREM ViewFollows ==
    ASSUME OwnGroup
    PROVE  Spec => []ViewFollowsTopic
<1>1. Init => PassedIsKept
  BY MemoryAssumption DEF Init, PassedIsKept
<1>2. IInv /\ PassedIsKept /\ [Next]_vars => PassedIsKept'
  BY NextPassed, OwnGroup
<1>3. IInv /\ PassedIsKept => ViewFollowsTopic
  <2> SUFFICES ASSUME IInv, PassedIsKept, NEW i \in Instances \ amnesic,
                      CaughtUp(i), NEW n \in DOMAIN log
               PROVE  log[n] \notin Plain /\ <<i, log[n]>> \notin wiped
                         => items[i][log[n]] > 0
    BY DEF ViewFollowsTopic
  <2>1. DOMAIN log = 1..Len(log) /\ pos[GroupOf[i]] = Len(log)
    BY DEF IInv, TypeOK, CaughtUp
  <2> QED
    BY <2>1 DEF PassedIsKept
<1> QED
  BY <1>1, <1>2, <1>3, Inductive, PTL DEF Spec
=============================================================================
