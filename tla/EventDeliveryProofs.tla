------------------------- MODULE EventDeliveryProofs -------------------------
(***************************************************************************)
(* Proofs about AgentInstances, for any number of agents, types, calls and *)
(* registrations, and about EventDelivery, for any number of events and    *)
(* subscriptions, of which AgentInstances is a part.                       *)
(*                                                                         *)
(* That agents have one instance: what is being created or bound, and not  *)
(* contended, has no instance yet and one coroutine only that makes it;    *)
(* and a type is either one of factories or of registered instances, from  *)
(* the moment that the first of them suspends.                             *)
(*                                                                         *)
(* That an event is for all its receivers or for none: nobody has run      *)
(* before all of them are collected, and the stream fails only until then. *)
(***************************************************************************)
EXTENDS EventDelivery, SequenceTheorems, TLAPS

Creating(q) == seek[q].at = "creating"
Binding(r) == reg[r] = "binding"

\* Who holds an agent holds what is, or was, in the cache.
HandedWasCached == \A h \in handed : cached[h.agent] # Nobody

\* A coroutine is only suspended in a factory that stays.
MadeByFactory ==
    \A q \in Seekers : Creating(q) => factory[TypeOf[Sought(q)]] = "made"

RegisteredType ==
    \A r \in Registrations : reg[r] \in {"binding", "done"} =>
        factory[TypeOf[InstanceOf[r]]] = "dummy"

CreatesAlone ==
    \A q \in Seekers : Creating(q) /\ Sought(q) \notin contended =>
        /\ cached[Sought(q)] = Nobody
        /\ \A p \in Seekers : Creating(p) /\ Sought(p) = Sought(q) => p = q

BindsAlone ==
    \A r \in Registrations : Binding(r) /\ InstanceOf[r] \notin contended =>
        /\ cached[InstanceOf[r]] = Nobody
        /\ \A o \in Registrations :
               Binding(o) /\ InstanceOf[o] = InstanceOf[r] => o = r

RegisteredCached ==
    \A r \in Registrations :
        reg[r] = "done" => cached[InstanceOf[r]] \in Registrations

\* What a lookup has made is of a type whose factory stays.
FromFactory ==
    /\ \A a \in Agents : cached[a] \in Seekers => factory[TypeOf[a]] = "made"
    /\ \A h \in handed :
           h.instance \in Seekers => factory[TypeOf[h.agent]] = "made"

ManagerIInv ==
    /\ ManagerTypeOK
    /\ HandedWasCached
    /\ MadeByFactory
    /\ RegisteredType
    /\ CreatesAlone
    /\ BindsAlone
    /\ OneInstance
    /\ RegisteredCached
    /\ FromFactory

-----------------------------------------------------------------------------
\* A lookup that has an index left looks for an agent.
LEMMA SoughtType ==
    ASSUME ManagerTypeOK, NEW q \in Seekers,
           seek[q].at \in {"next", "creating", "found"}
    PROVE  /\ Sought(q) \in Agents
           /\ TypeOf[Sought(q)] \in Types
  BY ManagerAssumption DEF ManagerTypeOK, Sought

\* At the start there is neither a factory nor an instance.
LEMMA ManagerInitIInv == ManagerInit => ManagerIInv
<1> SUFFICES ASSUME ManagerInit PROVE ManagerIInv
  OBVIOUS
<1> USE ManagerAssumption DEF ManagerInit
<1>1. ManagerTypeOK
  BY DEF ManagerTypeOK, FactoryStates, RegStates, SeekStates
<1>2. /\ HandedWasCached /\ MadeByFactory /\ RegisteredType
      /\ CreatesAlone /\ BindsAlone
  BY DEF HandedWasCached, MadeByFactory, RegisteredType, CreatesAlone,
         BindsAlone, Creating, Binding
<1>3. OneInstance /\ RegisteredCached /\ FromFactory
  BY DEF OneInstance, RegisteredCached, FromFactory, Coroutines
<1> QED
  BY <1>1, <1>2, <1>3 DEF ManagerIInv

\* A new factory is one of a type that had none.
LEMMA RegisterFactoryIInv ==
    ASSUME ManagerIInv, NEW k \in Types, RegisterFactory(k)
    PROVE  ManagerIInv'
<1> USE ManagerAssumption DEF RegisterFactory
<1>1. ManagerTypeOK'
  BY DEF ManagerIInv, ManagerTypeOK, FactoryStates
<1>2. \A l \in Types : factory[l] # "none" => factory'[l] = factory[l]
  BY DEF ManagerIInv, ManagerTypeOK
<1>3. MadeByFactory'
  BY <1>2, SoughtType DEF ManagerIInv, MadeByFactory, Creating, Sought
<1>4. RegisteredType'
  BY <1>2 DEF ManagerIInv, RegisteredType
<1>5. HandedWasCached' /\ CreatesAlone' /\ BindsAlone'
  BY DEF ManagerIInv, HandedWasCached, CreatesAlone, BindsAlone, Creating, Binding, Sought
<1>6. OneInstance' /\ RegisteredCached'
  BY DEF ManagerIInv, OneInstance, RegisteredCached
<1>7. FromFactory'
  BY <1>2 DEF ManagerIInv, ManagerTypeOK, FromFactory
<1> QED
  BY <1>1, <1>3, <1>4, <1>5, <1>6, <1>7 DEF ManagerIInv

\* A registration that begins finds no instance, and contends with those that
\* are under way.
LEMMA RegisterInstanceIInv ==
    ASSUME ManagerIInv, NEW r \in Registrations, RegisterInstance(r)
    PROVE  ManagerIInv'
<1> USE ManagerAssumption DEF RegisterInstance
<1> DEFINE a == InstanceOf[r]
<1>1. a \in Agents /\ TypeOf[a] \in Types
  OBVIOUS
<1>2. ManagerTypeOK'
  BY <1>1 DEF ManagerIInv, ManagerTypeOK, FactoryStates, RegStates
<1>3. contended \subseteq contended'
  OBVIOUS
<1>4. UNCHANGED <<cached, seek, handed>>
  OBVIOUS
<1>5. \A k \in Types : factory[k] # "none" => factory'[k] = factory[k]
  BY <1>1 DEF ManagerIInv, ManagerTypeOK, FactoryStates, MayRegister
<1>6. HandedWasCached' /\ OneInstance' /\ CreatesAlone'
  BY <1>3, <1>4 DEF ManagerIInv, HandedWasCached, OneInstance, CreatesAlone, Creating, Sought
<1>7. MadeByFactory'
  BY <1>4, <1>5, SoughtType DEF ManagerIInv, MadeByFactory, Creating, Sought
<1>10. FromFactory'
  BY <1>4, <1>5 DEF ManagerIInv, ManagerTypeOK, FromFactory
<1>8. CASE MayRegister(r) /\ reg' = [reg EXCEPT ![r] = "binding"]
           /\ factory' = [factory EXCEPT ![TypeOf[a]] = "dummy"]
           /\ contended' = IF \E o \in Registrations :
                                  reg[o] = "binding" /\ InstanceOf[o] = a
                           THEN contended \cup {a} ELSE contended
  <2>1. RegisteredType'
    BY <1>1, <1>8 DEF ManagerIInv, ManagerTypeOK, RegisteredType
  <2>2. BindsAlone'
    BY <1>4, <1>8 DEF ManagerIInv, ManagerTypeOK, BindsAlone, Binding, MayRegister
  <2>3. RegisteredCached'
    BY <1>4, <1>8 DEF ManagerIInv, ManagerTypeOK, RegisteredCached
  <2> QED
    BY <1>2, <1>6, <1>7, <1>10, <2>1, <2>2, <2>3 DEF ManagerIInv
<1>9. CASE reg' = [reg EXCEPT ![r] = "raised"] /\ UNCHANGED <<factory, contended>>
  BY <1>2, <1>4, <1>6, <1>7, <1>9, <1>10
     DEF ManagerIInv, ManagerTypeOK, RegisteredType, BindsAlone, Binding, RegisteredCached
<1> QED
  BY <1>8, <1>9

\* An uncontended registration stores the first instance.
LEMMA FinishBindIInv ==
    ASSUME ManagerIInv, NEW r \in Registrations, FinishBind(r)
    PROVE  ManagerIInv'
<1> USE ManagerAssumption DEF FinishBind
<1> DEFINE a == InstanceOf[r]
<1>1. /\ a \in Agents /\ TypeOf[a] \in Types
      /\ r \in Coroutines /\ r # Nobody
  BY DEF Coroutines
<1>2. ManagerTypeOK'
  <2>1. reg' \in [Registrations -> RegStates]
    BY DEF ManagerIInv, ManagerTypeOK, RegStates
  <2>2. cached' \in [Agents -> Coroutines \cup {Nobody}]
    <3>1. cached \in [Agents -> Coroutines \cup {Nobody}]
      BY DEF ManagerIInv, ManagerTypeOK
    <3>2. cached' = [cached EXCEPT ![a] = r] \/ cached' = cached
      OBVIOUS
    <3> HIDE DEF a, FinishBind
    <3> QED
      BY <1>1, <3>1, <3>2
  <2> QED
    BY <2>1, <2>2 DEF ManagerIInv, ManagerTypeOK
<1>3. UNCHANGED <<factory, seek, handed, contended>>
  OBVIOUS
<1>4. MadeByFactory'
  BY <1>3 DEF ManagerIInv, MadeByFactory, Creating, Sought
<1>5. RegisteredType'
  BY <1>3 DEF ManagerIInv, ManagerTypeOK, RegisteredType
<1>8. FromFactory'
  <2>1. \A b \in Agents : cached'[b] \in Seekers => cached'[b] = cached[b]
    BY <1>1 DEF ManagerIInv, ManagerTypeOK
  <2> QED
    BY <1>3, <2>1 DEF ManagerIInv, FromFactory
<1>6. CASE reg' = [reg EXCEPT ![r] = "done"] /\ cached' = [cached EXCEPT ![a] = r]
  <2>1. factory[TypeOf[a]] = "dummy"
    BY DEF ManagerIInv, RegisteredType
  <2>2. a \in contended \/ cached[a] = Nobody
    BY DEF ManagerIInv, BindsAlone, Binding
  <2>3. HandedWasCached'
    BY <1>1, <1>3, <1>6 DEF ManagerIInv, ManagerTypeOK, HandedWasCached
  <2>4. OneInstance'
    BY <1>1, <1>3, <1>6, <2>2 DEF ManagerIInv, ManagerTypeOK, HandedWasCached, OneInstance
  <2>5. \A q \in Seekers : Creating(q) => Sought(q) # a
    BY <2>1 DEF ManagerIInv, MadeByFactory
  <2>6. CreatesAlone'
    BY <1>1, <1>3, <1>6, <2>5 DEF ManagerIInv, ManagerTypeOK, CreatesAlone, Creating, Sought
  <2>7. BindsAlone'
    BY <1>1, <1>3, <1>6 DEF ManagerIInv, ManagerTypeOK, BindsAlone, Binding
  <2>8. RegisteredCached'
    BY <1>1, <1>6 DEF ManagerIInv, ManagerTypeOK, RegisteredCached
  <2> QED
    BY <1>2, <1>4, <1>5, <1>8, <2>3, <2>4, <2>6, <2>7, <2>8 DEF ManagerIInv
<1>7. CASE reg' = [reg EXCEPT ![r] = "raised"] /\ UNCHANGED cached
  BY <1>2, <1>3, <1>4, <1>5, <1>7, <1>8
     DEF ManagerIInv, ManagerTypeOK, HandedWasCached, OneInstance, CreatesAlone, Creating,
         Sought, BindsAlone, Binding, RegisteredCached
<1> QED
  BY <1>6, <1>7

\* A lookup that suspends finds no instance, and contends with those under way.
LEMMA GetAgentIInv ==
    ASSUME ManagerIInv, NEW q \in Seekers, GetAgent(q)
    PROVE  ManagerIInv'
<1> USE ManagerAssumption DEF GetAgent
<1> DEFINE a == Sought(q)
<1>1. a \in Agents /\ TypeOf[a] \in Types
  BY SoughtType DEF ManagerIInv
<1>2. /\ UNCHANGED <<factory, cached, reg>>
      /\ contended \subseteq contended'
      /\ contended' \subseteq contended \cup {a}
      /\ seek' = [seek EXCEPT ![q].at = Lookup(a)]
  OBVIOUS
<1>3. /\ Lookup(a) \in {"found", "missing", "raised", "creating"}
      /\ Lookup(a) = "found" <=> cached[a] # Nobody
      /\ Lookup(a) = "creating" => cached[a] = Nobody /\ factory[TypeOf[a]] = "made"
  BY <1>1 DEF Lookup, ManagerIInv, ManagerTypeOK, FactoryStates
<1>4. \A h \in handed' : h \in handed \/ (h.agent = a /\ h.instance = cached[a]
                                           /\ cached[a] # Nobody)
  BY <1>3 DEF HandOut
<1>5. \A p \in Seekers : /\ seek'[p].todo = seek[p].todo
                         /\ p # q => seek'[p] = seek[p]
                         /\ p = q => seek'[p].at = Lookup(a)
  BY <1>2 DEF ManagerIInv, ManagerTypeOK
<1>6. ManagerTypeOK'
  <2>1. seek' \in [Seekers -> [at : SeekStates, todo : Seq(Agents)]]
    BY <1>2, <1>3 DEF ManagerIInv, ManagerTypeOK, SeekStates
  <2>2. handed' \subseteq [agent : Agents, instance : Coroutines]
    BY <1>1, <1>3 DEF HandOut, ManagerIInv, ManagerTypeOK
  <2>3. \A p \in Seekers : seek'[p].at \in {"next", "creating", "found"} =>
                               seek'[p].todo # <<>>
    BY <1>5 DEF ManagerIInv, ManagerTypeOK
  <2> QED
    BY <1>1, <1>2, <2>1, <2>2, <2>3 DEF ManagerIInv, ManagerTypeOK
<1>7. HandedWasCached' /\ OneInstance'
  BY <1>2, <1>4 DEF ManagerIInv, HandedWasCached, OneInstance
<1>8. MadeByFactory'
  BY <1>2, <1>3, <1>5 DEF ManagerIInv, MadeByFactory, Creating, Sought
<1>9. RegisteredType' /\ BindsAlone' /\ RegisteredCached'
  BY <1>2 DEF ManagerIInv, RegisteredType, BindsAlone, Binding, RegisteredCached
<1>11. FromFactory'
  BY <1>1, <1>2, <1>4 DEF ManagerIInv, FromFactory
<1>10. CreatesAlone'
  BY <1>2, <1>3, <1>5 DEF ManagerIInv, CreatesAlone, Creating, Sought
<1> QED
  BY <1>6, <1>7, <1>8, <1>9, <1>10, <1>11 DEF ManagerIInv

\* An uncontended creation stores the first instance.
LEMMA FinishCreateIInv ==
    ASSUME ManagerIInv, NEW q \in Seekers, FinishCreate(q)
    PROVE  ManagerIInv'
<1> USE ManagerAssumption DEF FinishCreate
<1> DEFINE a == Sought(q)
<1>1. /\ a \in Agents /\ TypeOf[a] \in Types
      /\ q \in Coroutines /\ q # Nobody
  BY SoughtType DEF ManagerIInv, Coroutines
<1>2. UNCHANGED <<factory, reg, contended>>
  OBVIOUS
<1>3. PICK s \in {"found", "raised"} : seek' = [seek EXCEPT ![q].at = s]
  OBVIOUS
<1>4. \A p \in Seekers : /\ seek'[p].todo = seek[p].todo
                         /\ p # q => seek'[p] = seek[p]
                         /\ p = q => seek'[p].at = s
  BY <1>3 DEF ManagerIInv, ManagerTypeOK
<1>5. \A p \in Seekers : Creating(p)' => /\ Creating(p) /\ p # q
                                         /\ Sought(p)' = Sought(p)
  BY <1>4 DEF Creating, Sought
<1>6. MadeByFactory' /\ RegisteredType'
  BY <1>2, <1>5 DEF ManagerIInv, MadeByFactory, RegisteredType
<1>7. /\ seek' \in [Seekers -> [at : SeekStates, todo : Seq(Agents)]]
      /\ \A p \in Seekers : seek'[p].at \in {"next", "creating", "found"} =>
                                seek'[p].todo # <<>>
  BY <1>3, <1>4 DEF ManagerIInv, ManagerTypeOK, SeekStates
<1>8. CASE cached' = [cached EXCEPT ![a] = q] /\ HandOut(q, q)
  <2>1. factory[TypeOf[a]] = "made"
    BY DEF ManagerIInv, MadeByFactory, Creating
  <2>2. a \in contended \/ cached[a] = Nobody
    BY DEF ManagerIInv, CreatesAlone, Creating
  <2>3. ManagerTypeOK'
    BY <1>1, <1>2, <1>7, <1>8 DEF ManagerIInv, ManagerTypeOK, HandOut
  <2>4. HandedWasCached'
    BY <1>1, <1>8 DEF ManagerIInv, ManagerTypeOK, HandedWasCached, HandOut
  <2>5. OneInstance'
    BY <1>1, <1>2, <1>8, <2>2
       DEF ManagerIInv, ManagerTypeOK, HandedWasCached, OneInstance, HandOut
  <2>6. CreatesAlone'
    <3> SUFFICES ASSUME NEW p \in Seekers, Creating(p)', Sought(p)' \notin contended'
                 PROVE  /\ cached'[Sought(p)'] = Nobody
                        /\ \A o \in Seekers : Creating(o)' /\ Sought(o)' = Sought(p)'
                               => o = p
      BY DEF CreatesAlone
    <3>1. Creating(p) /\ p # q /\ Sought(p)' = Sought(p) /\ Sought(p) \notin contended
      BY <1>2, <1>5
    <3>2. Sought(p) # a
      BY <3>1 DEF ManagerIInv, CreatesAlone, Creating
    <3> QED
      BY <1>5, <1>8, <3>1, <3>2 DEF ManagerIInv, CreatesAlone, ManagerTypeOK
  <2>7. \A r \in Registrations : reg[r] \in {"binding", "done"} => InstanceOf[r] # a
    BY <2>1 DEF ManagerIInv, RegisteredType
  <2>8. BindsAlone' /\ RegisteredCached'
    BY <1>1, <1>2, <1>8, <2>7
       DEF ManagerIInv, ManagerTypeOK, BindsAlone, Binding, RegisteredCached
  <2>9. FromFactory'
    BY <1>1, <1>2, <1>8, <2>1 DEF ManagerIInv, ManagerTypeOK, FromFactory, HandOut
  <2> QED
    BY <1>6, <2>3, <2>4, <2>5, <2>6, <2>8, <2>9 DEF ManagerIInv
<1>9. CASE UNCHANGED <<cached, handed>>
  <2>1. ManagerTypeOK'
    BY <1>2, <1>7, <1>9 DEF ManagerIInv, ManagerTypeOK
  <2>2. CreatesAlone'
    BY <1>2, <1>5, <1>9 DEF ManagerIInv, CreatesAlone
  <2>3. HandedWasCached' /\ OneInstance' /\ BindsAlone' /\ RegisteredCached'
    BY <1>2, <1>9 DEF ManagerIInv, HandedWasCached, OneInstance, BindsAlone, Binding,
                      RegisteredCached
  <2>4. FromFactory'
    BY <1>2, <1>9 DEF ManagerIInv, FromFactory
  <2> QED
    BY <1>6, <2>1, <2>2, <2>3, <2>4 DEF ManagerIInv
<1> QED
  BY <1>8, <1>9

\* A coroutine that is neither in a factory nor steps into one leaves the cache
\* alone, and so does one that begins anew.
LEMMA SeekIInv ==
    ASSUME ManagerIInv, NEW q \in Seekers,
           UNCHANGED <<factory, cached, reg, handed, contended>>,
           seek' \in [Seekers -> [at : SeekStates, todo : Seq(Agents)]],
           seek'[q].at \in {"next", "done", "raised"},
           seek'[q].at = "next" => seek'[q].todo # <<>>,
           \A p \in Seekers \ {q} : seek'[p] = seek[p]
    PROVE  ManagerIInv'
<1> USE ManagerAssumption
<1>1. ManagerTypeOK'
  BY DEF ManagerIInv, ManagerTypeOK
<1>2. \A p \in Seekers : Creating(p)' => Creating(p) /\ Sought(p)' = Sought(p)
  BY DEF Creating, Sought
<1>3. MadeByFactory' /\ CreatesAlone'
  BY <1>2 DEF ManagerIInv, MadeByFactory, CreatesAlone
<1>4. /\ HandedWasCached' /\ RegisteredType' /\ BindsAlone'
      /\ OneInstance' /\ RegisteredCached' /\ FromFactory'
  BY DEF ManagerIInv, HandedWasCached, RegisteredType, BindsAlone, Binding,
         OneInstance, RegisteredCached, FromFactory
<1> QED
  BY <1>1, <1>3, <1>4 DEF ManagerIInv

\* What a call does with its agents leaves the cache alone.
LEMMA CallIInv ==
    ASSUME ManagerIInv, NEW q \in Calls, StartCall(q) \/ UseAgent(q)
    PROVE  ManagerIInv'
<1> USE ManagerAssumption
<1>1. q \in Seekers
  BY DEF Seekers
<1>2. UNCHANGED <<factory, cached, reg, handed, contended>>
  BY DEF StartCall, UseAgent
<1>3. /\ seek' \in [Seekers -> [at : SeekStates, todo : Seq(Agents)]]
      /\ seek'[q].at \in {"next", "done", "raised"}
      /\ seek'[q].at = "next" => seek'[q].todo # <<>>
      /\ \A p \in Seekers \ {q} : seek'[p] = seek[p]
  <2>1. CASE StartCall(q)
    BY <1>1, <2>1 DEF ManagerIInv, ManagerTypeOK, SeekStates, StartCall
  <2>2. CASE UseAgent(q)
    <3>1. seek[q].todo \in Seq(Agents) /\ seek[q].todo # <<>>
      BY <1>1, <2>2 DEF ManagerIInv, ManagerTypeOK, UseAgent
    <3>2. CASE Advance(q)
      <4>1. Tail(seek[q].todo) \in Seq(Agents)
        BY <3>1
      <4>2. Len(seek[q].todo) # 1 => Tail(seek[q].todo) # <<>>
        <5>1. Len(seek[q].todo) \in Nat \ {0}
          BY <3>1
        <5>2. Len(Tail(seek[q].todo)) = Len(seek[q].todo) - 1
          BY <3>1
        <5> DEFINE rest == Tail(seek[q].todo)
        <5>3. rest = <<>> => Len(rest) = 0
          <6> HIDE DEF rest
          <6> QED
            OBVIOUS
        <5> QED
          BY <5>1, <5>2, <5>3
      <4>3. seek' = [seek EXCEPT ![q] =
                        [at |-> IF Len(seek[q].todo) = 1 THEN "done" ELSE "next",
                         todo |-> Tail(seek[q].todo)]]
        BY <1>1, <3>2 DEF Advance, ManagerIInv, ManagerTypeOK
      <4> DEFINE next == [at |-> IF Len(seek[q].todo) = 1 THEN "done" ELSE "next",
                          todo |-> Tail(seek[q].todo)]
      <4>4. next \in [at : SeekStates, todo : Seq(Agents)]
        BY <4>1 DEF SeekStates
      <4> HIDE DEF next
      <4>5. /\ seek'[q] = next
            /\ \A p \in Seekers \ {q} : seek'[p] = seek[p]
            /\ seek' \in [Seekers -> [at : SeekStates, todo : Seq(Agents)]]
        <5>1. seek \in [Seekers -> [at : SeekStates, todo : Seq(Agents)]]
          BY DEF ManagerIInv, ManagerTypeOK
        <5>2. seek' = [seek EXCEPT ![q] = next]
          BY <4>3 DEF next
        <5> QED
          BY <1>1, <4>4, <5>1, <5>2
      <4> QED
        BY <4>2, <4>5 DEF next
    <3>3. CASE seek' = [seek EXCEPT ![q].at = "raised"]
      BY <1>1, <3>3 DEF ManagerIInv, ManagerTypeOK, SeekStates
    <3> QED
      BY <2>2, <3>2, <3>3 DEF UseAgent
  <2> QED
    BY <2>1, <2>2
<1> QED
  BY <1>1, <1>2, <1>3, SeekIInv

\* A stutter changes nothing the invariant is about.
LEMMA ManagerStutterIInv == ASSUME ManagerIInv, UNCHANGED managerVars PROVE ManagerIInv'
  BY DEF managerVars, ManagerIInv, ManagerTypeOK, HandedWasCached, MadeByFactory,
         RegisteredType, CreatesAlone, BindsAlone, OneInstance, Creating, Binding,
         Sought, RegisteredCached, FromFactory

\* Every step keeps the invariant.
LEMMA ManagerNextIInv == ManagerIInv /\ [ManagerNext]_managerVars => ManagerIInv'
  BY RegisterFactoryIInv, RegisterInstanceIInv, FinishBindIInv, GetAgentIInv,
     FinishCreateIInv, CallIInv, ManagerStutterIInv DEF ManagerNext

\* A type is either one of factories or of registered instances, so that an
\* agent of the second kind of type cannot have been made.
LEMMA NeverMade == ManagerIInv => RegisteredNeverMade
<1> SUFFICES ASSUME ManagerIInv, NEW r \in Registrations,
                    reg[r] \in {"binding", "done"}
             PROVE  /\ \A a \in Agents : TypeOf[a] = TypeOf[InstanceOf[r]] =>
                           cached[a] \in Registrations \cup {Nobody}
                    /\ \A h \in handed : TypeOf[h.agent] = TypeOf[InstanceOf[r]] =>
                           h.instance \in Registrations
                    /\ reg[r] = "done" => cached[InstanceOf[r]] # Nobody
  BY DEF RegisteredNeverMade
<1>1. factory[TypeOf[InstanceOf[r]]] = "dummy"
  BY DEF ManagerIInv, RegisteredType
<1>2. \A a \in Agents : TypeOf[a] = TypeOf[InstanceOf[r]] =>
          cached[a] \in Registrations \cup {Nobody}
  BY <1>1 DEF ManagerIInv, ManagerTypeOK, FromFactory, Coroutines
<1>3. \A h \in handed : TypeOf[h.agent] = TypeOf[InstanceOf[r]] =>
          h.instance \in Registrations
  BY <1>1 DEF ManagerIInv, ManagerTypeOK, FromFactory, Coroutines
<1>4. reg[r] = "done" => cached[InstanceOf[r]] # Nobody
  BY ManagerAssumption DEF ManagerIInv, RegisteredCached, Coroutines
<1> QED
  BY <1>2, <1>3, <1>4

-----------------------------------------------------------------------------
\* The invariant the theorems below follow from holds in every reachable state.
THEOREM ManagerInductive == ManagerSpec => []ManagerIInv
  BY ManagerInitIInv, ManagerNextIInv, PTL DEF ManagerSpec

\* The variables of the agent manager keep their types (agent_manager.py).
THEOREM ManagerTypeCorrect == ManagerSpec => []ManagerTypeOK
<1>1. ManagerIInv => ManagerTypeOK
  BY DEF ManagerIInv
<1> QED
  BY <1>1, ManagerInductive, PTL

\* An agent that is handed out is the one in the cache, unless two coroutines
\* were making it at one time (agent_manager.py 118-163).
THEOREM OneInstanceHolds == ManagerSpec => []OneInstance
<1>1. ManagerIInv => OneInstance
  BY DEF ManagerIInv
<1> QED
  BY <1>1, ManagerInductive, PTL

\* Of a type with a registered instance there is no agent, of whatever id, that
\* a factory made, in the cache or in anyone's hands (agent_manager.py 121-163).
THEOREM RegisteredStays == ManagerSpec => []RegisteredNeverMade
  BY NeverMade, ManagerInductive, PTL

-----------------------------------------------------------------------------
(* The delivery of events                                                  *)

\* Until the last receiver is collected nobody has run; from then on those have
\* that run no more.
RunTogether ==
    /\ phase \in {"starting", "ready", "collect", "failed"} => servedNow = {}
    /\ phase = "collect" => running = Receivers
    /\ phase = "serve" =>
           /\ running \subseteq Receivers
           /\ servedNow = {recipients[i] : i \in Receivers \ running}

IInv ==
    /\ ManagerIInv
    /\ TypeOK
    /\ RunTogether

\* An event on the topic stays where it is when another one is appended.
LEMMA AppendedLog ==
    ASSUME NEW s \in Seq(Events), NEW e \in Events
    PROVE  /\ Append(s, e) \in Seq(Events)
           /\ Len(Append(s, e)) = Len(s) + 1
           /\ \A n \in 1..Len(s) : Append(s, e)[n] = s[n]
  OBVIOUS

\* A part of a sequence of agents is one.
LEMMA Suffix ==
    ASSUME NEW s \in Seq(Agents), NEW i \in DOMAIN s
    PROVE  SubSeq(s, i, Len(s)) \in Seq(Agents) /\ SubSeq(s, i, Len(s)) # <<>>
<1>1. DOMAIN s = 1..Len(s) /\ Len(s) \in Nat
  OBVIOUS
<1>2. i \in 1..(Len(s) + 1) /\ Len(s) \in (i - 1)..Len(s)
  BY <1>1
<1>3. \A j \in i..Len(s) : s[j] \in Agents
  BY <1>1
<1>4. /\ SubSeq(s, i, Len(s)) \in Seq(Agents)
      /\ Len(SubSeq(s, i, Len(s))) = IF i <= Len(s) THEN Len(s) - i + 1 ELSE 0
  BY <1>1, <1>3, SubSeqProperties
<1>5. Len(SubSeq(s, i, Len(s))) > 0
  BY <1>1, <1>4
<1> DEFINE t == SubSeq(s, i, Len(s))
<1>6. t = <<>> => Len(t) = 0
  <2> HIDE DEF t
  <2> QED
    OBVIOUS
<1> QED
  BY <1>4, <1>5, <1>6

\* The local manager without one of its subscriptions is one.
LEMMA WithoutType ==
    ASSUME TypeOK, NEW i \in DOMAIN subs
    PROVE  Without(i) \in Seq(Subs)
<1>1. subs \in Seq(Subs) /\ DOMAIN subs = 1..Len(subs) /\ Len(subs) \in Nat
  BY DEF TypeOK
<1>2. /\ \A j \in 1..(i - 1) : subs[j] \in Subs
      /\ \A j \in (i + 1)..Len(subs) : subs[j] \in Subs
  BY <1>1
<1>3. /\ SubSeq(subs, 1, i - 1) \in Seq(Subs)
      /\ SubSeq(subs, i + 1, Len(subs)) \in Seq(Subs)
  BY <1>1, <1>2, SubSeqProperties
<1> QED
  BY <1>3 DEF Without

\* At the start nobody has run.
LEMMA InitIInv == Init => IInv
<1> SUFFICES ASSUME Init PROVE IInv
  OBVIOUS
<1>1. ManagerIInv
  BY ManagerInitIInv DEF Init
<1>2. TypeOK
  BY <1>1, DeliveryAssumption
     DEF Init, TypeOK, ManagerIInv, PubStates, Phases, Handling
<1>3. RunTogether
  BY DEF Init, RunTogether
<1> QED
  BY <1>1, <1>2, <1>3 DEF IInv

\* Publishing and sending leave the consumer alone: the event in hand stays.
LEMMA ClientIInv ==
    ASSUME IInv, ClientNext
    PROVE  IInv'
<1> USE DEF consumerVars
<1>1. UNCHANGED <<managerVars, consumerVars, subs>>
  BY DEF ClientNext, Publish, EndSend
<1>2. /\ log' \in Seq(Events) /\ Len(log') >= Len(log)
      /\ \A n \in 1..Len(log) : log'[n] = log[n]
  <2>1. log \in Seq(Events) /\ Len(log) \in Nat
    BY DEF IInv, TypeOK
  <2>2. log' = log \/ \E e \in Events : log' = Append(log, e)
    BY DEF ClientNext, Publish, EndSend
  <2> QED
    BY <2>1, <2>2, AppendedLog
<1>3. pub' \in [Events -> PubStates]
  BY DEF IInv, TypeOK, ClientNext, Publish, EndSend, PubStates
<1>4. ManagerIInv'
  BY <1>1, ManagerStutterIInv DEF IInv
<1>5. TypeOK'
  <2>1. pos' \in base'..Len(log') /\ (Handling' => pos' < Len(log'))
    BY <1>1, <1>2 DEF IInv, TypeOK, Handling
  <2> QED
    BY <1>1, <1>2, <1>3, <1>4, <2>1 DEF IInv, TypeOK, ManagerIInv
<1>6. Handling => log'[pos + 1] = log[pos + 1]
  BY <1>2 DEF IInv, TypeOK
<1>7. RunTogether'
  BY <1>1, <1>6 DEF IInv, RunTogether, Receivers, Current, Handling
<1> QED
  BY <1>4, <1>5, <1>7 DEF IInv

\* So do the local subscriptions.
LEMMA SubscriptionIInv ==
    ASSUME IInv, SubscriptionNext
    PROVE  IInv'
<1> USE DEF consumerVars
<1>1. UNCHANGED <<managerVars, consumerVars, pub, log>>
  BY DEF SubscriptionNext, AddSubscription, RemoveSubscription
<1>2. subs' \in Seq(Subs)
  <2>1. subs \in Seq(Subs)
    BY DEF IInv, TypeOK
  <2>2. PICK s \in Subs : \/ subs' = Append(subs, s)
                         \/ \E i \in DOMAIN subs : subs' = Without(i)
    BY DEF SubscriptionNext, AddSubscription, RemoveSubscription
  <2>3. CASE subs' = Append(subs, s)
    BY ONLY <2>1, <2>2, <2>3
  <2>4. CASE \E i \in DOMAIN subs : subs' = Without(i)
    <3>1. TypeOK
      BY DEF IInv
    <3>2. \A i \in DOMAIN subs : Without(i) \in Seq(Subs)
      BY <3>1, WithoutType
    <3> QED
      BY ONLY <2>4, <3>2
  <2> QED
    BY <2>2, <2>3, <2>4
<1>3. ManagerIInv'
  BY <1>1, ManagerStutterIInv DEF IInv
<1>4. TypeOK'
  BY <1>1, <1>2, <1>3 DEF IInv, TypeOK, ManagerIInv, Handling
<1>5. RunTogether'
  BY <1>1 DEF IInv, RunTogether, Receivers, Current
<1> QED
  BY <1>3, <1>4, <1>5 DEF IInv

\* The agent manager works for other coroutines too.
LEMMA ManagerStepIInv ==
    ASSUME IInv, ManagerNext, UNCHANGED deliveryVars
    PROVE  IInv'
<1>1. ManagerIInv'
  BY ManagerNextIInv DEF IInv
<1>2. TypeOK' /\ RunTogether'
  BY <1>1 DEF IInv, TypeOK, ManagerIInv, Handling, RunTogether, Receivers, Current,
              deliveryVars, consumerVars
<1> QED
  BY <1>1, <1>2 DEF IInv

\* The handler goes on to an agent it has to get, or everyone runs.
LEMMA GoOnType ==
    ASSUME ManagerIInv, NEW todo \in Seq(Agents), GoOn(todo),
           UNCHANGED <<factory, cached, reg, handed, contended>>
    PROVE  ManagerIInv' /\ phase' \in {"collect", "serve"}
<1>1. Handler \in Seekers
  BY DEF Seekers
<1>2. seek \in [Seekers -> [at : SeekStates, todo : Seq(Agents)]]
  BY DEF ManagerIInv, ManagerTypeOK
<1>3. PICK next \in [at : {"done", "next"}, todo : Seq(Agents)] :
         /\ seek' = [seek EXCEPT ![Handler] = next]
         /\ next.at = "next" => next.todo # <<>>
  <2>1. CASE seek' = [seek EXCEPT ![Handler] = [at |-> "done", todo |-> <<>>]]
    <3>1. [at |-> "done", todo |-> <<>>] \in [at : {"done", "next"}, todo : Seq(Agents)]
      OBVIOUS
    <3> QED
      BY <2>1, <3>1
  <2>2. CASE \E i \in DOMAIN todo : seek' = [seek EXCEPT ![Handler] =
                [at |-> "next", todo |-> SubSeq(todo, i, Len(todo))]]
    <3>1. PICK i \in DOMAIN todo : seek' = [seek EXCEPT ![Handler] =
                [at |-> "next", todo |-> SubSeq(todo, i, Len(todo))]]
      BY <2>2
    <3> DEFINE rest == SubSeq(todo, i, Len(todo))
    <3>2. rest \in Seq(Agents) /\ rest # <<>>
      BY Suffix
    <3> HIDE DEF rest
    <3>3. [at |-> "next", todo |-> rest] \in [at : {"done", "next"}, todo : Seq(Agents)]
      BY <3>2
    <3> QED
      BY <3>1, <3>2, <3>3 DEF rest
  <2> QED
    BY <2>1, <2>2 DEF GoOn
<1>4. next \in [at : SeekStates, todo : Seq(Agents)]
  BY DEF SeekStates
<1>5. /\ seek' \in [Seekers -> [at : SeekStates, todo : Seq(Agents)]]
      /\ seek'[Handler] = next
      /\ \A p \in Seekers \ {Handler} : seek'[p] = seek[p]
  BY <1>1, <1>2, <1>3, <1>4
<1>6. ManagerIInv'
  BY <1>1, <1>3, <1>5, SeekIInv
<1> QED
  BY <1>6 DEF GoOn

\* What the handler has collected when it takes an event, or goes on, is for all
\* its receivers.
LEMMA TakeEventIInv ==
    ASSUME IInv, TakeEvent
    PROVE  IInv'
<1>1. UNCHANGED <<factory, cached, reg, handed, contended, pos, base, served,
                  servedNow, redeliveries, pub, log, subs>>
  BY DEF TakeEvent
<1>2. servedNow = {} /\ pos < Len(log)
  BY DEF TakeEvent, IInv, RunTogether
<1>3. CASE phase' = "failed" /\ UNCHANGED <<recipients, running, seek>>
  <2>1. ManagerIInv'
    BY <1>1, <1>3, ManagerStutterIInv DEF IInv, managerVars
  <2> QED
    BY <1>1, <1>2, <1>3, <2>1
       DEF IInv, TypeOK, ManagerIInv, Phases, Handling, RunTogether
<1>4. CASE /\ recipients' = Recipients
           /\ GoOn(Recipients)
           /\ running' = {i \in DOMAIN Recipients :
                            Recipients[i] # SenderOf[Current]}
  <2>1. Recipients \in Seq(Agents)
    <3>1. subs \in Seq(Subs) /\ DOMAIN subs = 1..Len(subs) /\ Len(subs) \in Nat
      BY DEF IInv, TypeOK
    <3>2. \A i \in 1..Len(subs) : AgentOf[subs[i]] \in Agents
      BY <3>1, DeliveryAssumption
    <3> QED
      BY <3>1, <3>2 DEF Recipients
  <2>2. ManagerIInv' /\ phase' \in {"collect", "serve"}
    BY <1>1, <1>4, <2>1, GoOnType DEF IInv
  <2>3. running' = Receivers' /\ running' \subseteq DOMAIN recipients'
    BY <1>1, <1>4 DEF Receivers, Current
  <2>4. TypeOK'
    BY <1>1, <1>2, <1>4, <2>1, <2>2, <2>3
       DEF IInv, TypeOK, ManagerIInv, Phases, Handling
  <2>5. RunTogether'
    BY <1>1, <1>2, <2>2, <2>3 DEF RunTogether
  <2> QED
    BY <2>2, <2>4, <2>5 DEF IInv
<1> QED
  BY <1>3, <1>4 DEF TakeEvent

\* An agent that is there lets the handler go on with the agents behind it.
LEMMA CollectIInv ==
    ASSUME IInv, Collect
    PROVE  IInv'
<1>1. UNCHANGED <<factory, cached, reg, handed, contended, pos, base, recipients,
                  running, served, servedNow, redeliveries, pub, log, subs>>
  BY DEF Collect
<1>2. Tail(seek[Handler].todo) \in Seq(Agents)
  <2>1. Handler \in Seekers
    BY DEF Seekers
  <2>2. seek[Handler].todo \in Seq(Agents) /\ seek[Handler].todo # <<>>
    BY <2>1 DEF Collect, IInv, ManagerIInv, ManagerTypeOK
  <2> QED
    BY <2>2
<1>3. ManagerIInv' /\ phase' \in {"collect", "serve"}
  BY <1>1, <1>2, GoOnType DEF Collect, IInv
<1>4. phase = "collect" /\ servedNow = {} /\ running = Receivers /\ pos < Len(log)
  BY DEF Collect, IInv, TypeOK, Handling, RunTogether
<1>5. TypeOK'
  BY <1>1, <1>3, <1>4 DEF IInv, TypeOK, ManagerIInv, Phases, Handling
<1>6. RunTogether'
  BY <1>1, <1>3, <1>4 DEF RunTogether, Receivers, Current
<1> QED
  BY <1>3, <1>5, <1>6 DEF IInv

\* A receiver that has run is one of those served.
LEMMA ServeIInv ==
    ASSUME IInv, NEW i \in running, Serve(i)
    PROVE  IInv'
<1>1. UNCHANGED <<pos, base, phase, recipients, redeliveries, pub, log, subs,
                  managerVars>>
  BY DEF Serve
<1>2. /\ phase = "serve" /\ i \in Receivers /\ i \in DOMAIN recipients
      /\ recipients[i] \in Agents
  <2>1. phase = "serve" /\ running \subseteq Receivers
    BY DEF Serve, IInv, RunTogether
  <2>2. recipients \in Seq(Agents)
    BY DEF IInv, TypeOK
  <2> QED
    BY <2>1, <2>2 DEF Receivers
<1>3. Current \in Events
  BY <1>2 DEF IInv, TypeOK, Handling, Current
<1>4. ManagerIInv'
  BY <1>1, ManagerStutterIInv DEF IInv
<1>5. TypeOK'
  <2>1. served' \in [Events -> SUBSET Agents]
    BY <1>2, <1>3 DEF Serve, IInv, TypeOK
  <2>2. servedNow' \subseteq Agents /\ running' \subseteq DOMAIN recipients
    BY <1>2 DEF Serve, IInv, TypeOK
  <2> QED
    BY <1>1, <1>4, <2>1, <2>2 DEF IInv, TypeOK, ManagerIInv, Handling
<1>6. RunTogether'
  <2>1. Receivers' = Receivers
    BY <1>1 DEF Receivers, Current
  <2>2. running' = running \ {i} /\ servedNow' = servedNow \cup {recipients[i]}
    BY DEF Serve
  <2>3. servedNow = {recipients[j] : j \in Receivers \ running}
    BY <1>2 DEF IInv, RunTogether
  <2>4. Receivers \ running' = (Receivers \ running) \cup {i}
    BY <1>2, <2>2
  <2>5. servedNow' = {recipients[j] : j \in Receivers \ running'}
    BY <2>2, <2>3, <2>4
  <2>6. running' \subseteq Receivers
    BY <1>2, <2>2 DEF IInv, RunTogether
  <2> QED
    BY <1>1, <1>2, <2>1, <2>5, <2>6 DEF RunTogether
<1> QED
  BY <1>4, <1>5, <1>6 DEF IInv

\* Positions, ends and redeliveries leave the agents alone.
LEMMA ConsumerIInv ==
    ASSUME IInv, Position \/ CollectFails \/ FinishEvent \/ Redeliver
    PROVE  IInv'
<1>1. UNCHANGED <<managerVars, running, served, pub, log, subs>>
  BY DEF Position, CollectFails, FinishEvent, Redeliver
<1>2. ManagerIInv'
  BY <1>1, ManagerStutterIInv DEF IInv
<1>3. servedNow' = {} /\ phase' \in {"ready", "failed"}
  BY DEF IInv, RunTogether, Position, CollectFails, FinishEvent, Redeliver
<1>4. RunTogether'
  BY <1>3 DEF RunTogether
<1>5. Len(log) \in Nat /\ base \in Nat /\ pos \in base..Len(log) /\ pos \in Nat
  BY DEF IInv, TypeOK
<1>6. /\ base' \in Nat /\ pos' \in base'..Len(log)
      /\ redeliveries' \in 0..MaxRedeliveries
  BY <1>5, DeliveryAssumption
     DEF IInv, TypeOK, Handling, Position, CollectFails, FinishEvent, Redeliver
<1>7. recipients' \in Seq(Agents) /\ running' \subseteq DOMAIN recipients'
  <2>1. recipients \in Seq(Agents) /\ running \subseteq DOMAIN recipients
    BY DEF IInv, TypeOK
  <2>2. \/ recipients' = recipients
        \/ recipients' = <<>> /\ running = {}
    BY DEF Position, CollectFails, FinishEvent, Redeliver
  <2>3. running' = running
    BY <1>1
  <2>4. <<>> \in Seq(Agents)
    OBVIOUS
  <2>5. CASE recipients' = recipients
    BY ONLY <2>1, <2>3, <2>5
  <2>6. CASE recipients' = <<>> /\ running = {}
    BY ONLY <2>3, <2>4, <2>6
  <2> QED
    BY ONLY <2>2, <2>5, <2>6
<1>8. TypeOK'
  BY <1>1, <1>2, <1>3, <1>6, <1>7 DEF IInv, TypeOK, ManagerIInv, Phases, Handling
<1> QED
  BY <1>2, <1>4, <1>8 DEF IInv

\* Every step keeps the invariant.
LEMMA NextIInv == IInv /\ [Next]_vars => IInv'
<1> SUFFICES ASSUME IInv, [Next]_vars PROVE IInv'
  OBVIOUS
<1>1. CASE UNCHANGED vars
  <2>1. ManagerIInv'
    BY <1>1, ManagerStutterIInv DEF IInv, vars
  <2> QED
    BY <1>1, <2>1 DEF vars, deliveryVars, consumerVars, IInv, TypeOK, ManagerIInv,
                      Handling, RunTogether, Receivers, Current
<1> QED
  BY <1>1, ClientIInv, SubscriptionIInv, ManagerStepIInv, TakeEventIInv, CollectIInv,
     ServeIInv, ConsumerIInv DEF Next, ConsumerNext

\* The invariant the theorems below follow from holds in every reachable state.
THEOREM Inductive == Spec => []IInv
  BY InitIInv, NextIInv, PTL DEF Spec

\* The variables keep their types, and a consumer is never past the end of the
\* topic or before its own start (message_processor.py, cloud_event_processor.py).
THEOREM TypeCorrect == Spec => []TypeOK
<1>1. IInv => TypeOK
  BY DEF IInv
<1> QED
  BY <1>1, Inductive, PTL

\* A handler that fails has run no agent, and one that ends has run all that
\* have to get the event (message_processor.py 95-150).
THEOREM AllOrNone == Spec => []AllOrNothing
<1>1. IInv => AllOrNothing
  BY DEF IInv, RunTogether, AllOrNothing
<1> QED
  BY <1>1, Inductive, PTL

\* Agents have one instance, and registered ones stay, also while events are
\* delivered and their handler makes agents (agent_manager.py 118-163).
THEOREM InstancesUnderDelivery == Spec => [](OneInstance /\ RegisteredNeverMade)
<1>1. IInv => OneInstance /\ RegisteredNeverMade
  BY NeverMade DEF IInv, ManagerIInv
<1> QED
  BY <1>1, Inductive, PTL
=============================================================================
