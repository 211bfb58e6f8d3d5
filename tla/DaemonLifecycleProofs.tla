----------------------- MODULE DaemonLifecycleProofs -----------------------
(***************************************************************************)
(* Theorems about DaemonLifecycle for any clients, any names and any       *)
(* number of sinks, starts, kills and commands.                            *)
(***************************************************************************)
EXTENDS DaemonLifecycle, FiniteSetTheorems, TLAPS

USE IdsAssumption, NamesAssumption, FallbackAssumption

-----------------------------------------------------------------------------
(* Sequences and minima *)

\* A queue without its head.
LEMMA TailIs ==
  ASSUME NEW S, NEW s \in Seq(S), s # << >>
  PROVE  /\ Head(s) = s[1] /\ s[1] \in S /\ 1 \in DOMAIN s
         /\ Tail(s) \in Seq(S)
         /\ \A i \in DOMAIN Tail(s) : i + 1 \in DOMAIN s /\ i + 1 > 1 /\ Tail(s)[i] = s[i + 1]
         /\ \A i \in DOMAIN s : i = 1 \/ (i - 1 \in DOMAIN Tail(s) /\ Tail(s)[i - 1] = s[i])
OBVIOUS

\* A queue with others appended.
LEMMA ConcatIs ==
  ASSUME NEW S, NEW s \in Seq(S), NEW t \in Seq(S)
  PROVE  /\ s \o t \in Seq(S)
         /\ \A i \in DOMAIN s : i \in DOMAIN (s \o t) /\ (s \o t)[i] = s[i] /\ i <= Len(s)
         /\ \A i \in DOMAIN t : i + Len(s) \in DOMAIN (s \o t) /\ (s \o t)[i + Len(s)] = t[i]
         /\ \A i \in DOMAIN (s \o t) :
              \/ i \in DOMAIN s
              \/ i > Len(s) /\ i - Len(s) \in DOMAIN t /\ (s \o t)[i] = t[i - Len(s)]
OBVIOUS

\* A set of ids that is not empty has a lowest one.
LEMMA MinIs ==
  ASSUME NEW S \in SUBSET Nat, IsFiniteSet(S), S # {}
  PROVE  Min(S) \in S
<1> DEFINE upTo(n) == {k \in S : k <= n}
           T       == {upTo(n) : n \in S}
<1>1. \A n \in S : upTo(n) \in FiniteSubsetsOf(S)
  BY FS_Subset DEF FiniteSubsetsOf
<1>2. T \subseteq FiniteSubsetsOf(S) /\ T # {}
  BY <1>1, ZenonT(30)
<1>3. IsWellFoundedOn(StrictSubsetOrdering(S), FiniteSubsetsOf(S))
  BY FS_StrictSubsetOrderingWellFounded
<1>4. PICK U \in T : \A V \in T : ~(<<V, U>> \in StrictSubsetOrdering(S))
  <2> HIDE DEF T
  <2>1. QED
    BY <1>2, <1>3, WFMin
<1>5. PICK n \in S : U = upTo(n)
  OBVIOUS
<1>6. ASSUME NEW k \in S, k < n  PROVE FALSE
  <2>0. \A a \in S : a \in Nat
    OBVIOUS
  <2>1. upTo(k) \subseteq upTo(n) /\ n \in upTo(n) /\ n \notin upTo(k)
    <3>1. k \in Nat /\ n \in Nat /\ n \in S
      BY <1>5, <2>0
    <3>2. \A a \in S : a <= k => a <= n
      BY <1>6, <2>0, <3>1
    <3>3. ~(n <= k) /\ n <= n
      BY <1>6, <3>1
    <3>4. QED
      BY <3>1, <3>2, <3>3, Zenon
  <2>2. upTo(k) \in SUBSET S /\ upTo(n) \in SUBSET S /\ upTo(k) # upTo(n)
    BY <2>1
  <2>3. <<upTo(k), U>> \in StrictSubsetOrdering(S)
    BY <1>5, <2>1, <2>2 DEF StrictSubsetOrdering
  <2>4. QED
    BY <1>4, <2>3
<1>7. \A k \in S : n =< k
  BY <1>6
<1>8. QED
  BY <1>7 DEF Min

\* The elements of a finite set, put into a sequence.
LEMMA SetToSeqIs ==
  ASSUME NEW S, IsFiniteSet(S)
  PROVE  /\ SetToSeq(S) \in Seq(S)
         /\ \A x \in S : \E i \in DOMAIN SetToSeq(S) : SetToSeq(S)[i] = x
<1> DEFINE n == Cardinality(S)
<1>1. n \in Nat /\ ExistsBijection(1 .. n, S)
  BY FS_CardinalityType
<1>2. \E f \in [1 .. n -> S] : IsInjective(f)
  BY <1>1 DEF ExistsBijection, Bijection, Injection
<1>3. SetToSeq(S) \in [1 .. n -> S] /\ IsInjective(SetToSeq(S))
  BY <1>2 DEF SetToSeq
<1>4. Cardinality(1 .. n) = n
  BY <1>1, FS_Interval
<1>5. SetToSeq(S) \in Surjection(1 .. n, S)
  BY <1>3, <1>4, FS_Injection DEF Injection
<1>6. QED
  BY <1>1, <1>3, <1>5 DEF Surjection

-----------------------------------------------------------------------------
(* Requests and events *)

\* DeviceRegistry's own instances of the library's operators are the library's.
LEMMA SameOperators ==
  /\ \A S : Registry!SetToSeq(S) = SetToSeq(S)
  /\ \A S : Registry!Min(S) = Min(S)
  /\ \A s : Registry!ToSet(s) = ToSet(s)
<1>1. \A S : Registry!SetToSeq(S) = SetToSeq(S)
  BY Zenon DEF Registry!SetToSeq, SetToSeq, Registry!IsInjective, IsInjective,
               Registry!Cardinality, Cardinality
<1>2. \A S : Registry!Min(S) = Min(S)
  BY Zenon DEF Registry!Min, Min
<1>3. \A s : Registry!ToSet(s) = ToSet(s)
  BY Zenon DEF Registry!ToSet, ToSet
<1>4. QED
  BY <1>1, <1>2, <1>3

\* What a request or an event holds is determined by its kind.
LEMMA RequestIs ==
  ASSUME NEW r \in Registry!Requests
  PROVE  /\ r.kind \in {"registry", "sync", "bind", "set"}
         /\ r.kind = "sync" => r.seq \in {1, 2}
         /\ r.kind = "set" => r.value \in Names \cup {Own}
BY DEF Registry!Requests, Registry!GetRegistry, Registry!Bind, Registry!Sync, Registry!Set,
       Registry!InitialSync, Registry!RestoreSync

\* The same for an event.
LEMMA EventIs ==
  ASSUME NEW e \in Registry!Events
  PROVE  /\ e.kind \in {"added", "removed", "metadata", "property", "done"}
         /\ e.kind = "added" => \/ e.id \in Ids /\ e.name \in Names
                                \/ e.id = OwnId /\ e.name = Own
         /\ e.kind = "removed" => e.id \in Ids
         /\ e.kind = "property" => e.value \in Names \cup {Own, None}
         /\ e.kind = "done" => e.seq \in {1, 2}
BY DEF Registry!Events, Registry!Added, Registry!Removed, Registry!Metadata, Registry!Property,
       Registry!Done, Registry!InitialSync, Registry!RestoreSync

\* A new registry is told of each sink the session has, and of nothing else.
LEMMA GlobalsAre ==
  ASSUME Registry!WireInv, graph \in [Registry!AllIds -> Names \cup {Own, None}]
  PROVE  /\ Registry!Globals \in Seq(Registry!Events)
         /\ \A i \in DOMAIN Registry!Globals :
              \/ Registry!Globals[i] = Registry!Metadata
              \/ \E id \in Registry!AllIds :
                   graph[id] # None /\ Registry!Globals[i] = Registry!Added(id, graph[id])
         /\ \A id \in Ids : graph[id] # None =>
              \E i \in DOMAIN Registry!Globals :
                Registry!Globals[i] = Registry!Added(id, graph[id])
<1> DEFINE present == {id \in Registry!AllIds : graph[id] # None}
           sinks   == SetToSeq(present)
           told    == [i \in DOMAIN sinks |-> Registry!Added(sinks[i], graph[sinks[i]])]
           object  == IF published THEN <<Registry!Metadata>> ELSE << >>
<1>1. IsFiniteSet(present)
  <2>1. IsFiniteSet(Ids \cup {OwnId})
    BY FS_AddElement
  <2>2. present \in SUBSET (Ids \cup {OwnId})
    BY DEF Registry!AllIds
  <2>3. QED
    BY <2>1, <2>2, FS_Subset
<1>2. sinks \in Seq(present) /\ \A id \in present : \E i \in DOMAIN sinks : sinks[i] = id
  BY <1>1, SetToSeqIs
<1>3. \A id \in present : Registry!Added(id, graph[id]) \in Registry!Events
  BY DEF Registry!WireInv, Registry!AllIds, Registry!Events
<1>4. /\ told \in Seq(Registry!Events) /\ DOMAIN told = DOMAIN sinks
      /\ \A i \in DOMAIN told :
           sinks[i] \in present /\ told[i] = Registry!Added(sinks[i], graph[sinks[i]])
  <2> HIDE DEF present, sinks
  <2>1. QED
    BY <1>2, <1>3
<1>5. /\ object \in Seq(Registry!Events)
      /\ \A i \in DOMAIN object : object[i] = Registry!Metadata
  <2>1. Registry!Metadata \in Registry!Events
    BY DEF Registry!Events
  <2>2. CASE published
    BY <2>1, <2>2
  <2>3. CASE ~published
    BY <2>3
  <2>4. QED
    BY <2>2, <2>3
<1>6. Registry!Globals = told \o object
  BY SameOperators DEF Registry!Globals
<1> HIDE DEF sinks, told, object
<1>7. /\ Registry!Globals \in Seq(Registry!Events)
      /\ \A i \in DOMAIN told :
           i \in DOMAIN Registry!Globals /\ Registry!Globals[i] = told[i]
      /\ \A i \in DOMAIN Registry!Globals :
           \/ i \in DOMAIN told /\ Registry!Globals[i] = told[i]
           \/ Registry!Globals[i] = Registry!Metadata
  BY <1>4, <1>5, <1>6, ConcatIs
<1>8. \A id \in Ids : graph[id] # None => id \in present
  BY DEF Registry!AllIds
<1>9. \A id \in present : id \in Registry!AllIds /\ graph[id] # None
  OBVIOUS
<1> HIDE DEF present
<1>10. QED
  BY <1>2, <1>4, <1>7, <1>8, <1>9

\* Every step is one of the registry's, in the phase that allows it.
LEMMA RegistrySteps ==
  ASSUME [Next]_vars
  PROVE  \/ UNCHANGED registryVars
         \/ \E id \in Ids, n \in Names : Registry!PlugIn(id, n)
         \/ \E id \in Ids : Registry!Unplug(id)
         \/ Registry!PublishMetadata \/ \E n \in Names : Registry!UserConfigures(n)
         \/ Registry!ServerStep \/ Registry!Dispatch \/ Registry!EndSync
         \/ Registry!OwnSinkAppears /\ phase = "sink"
         \/ Registry!Start /\ phase = "registry"
         \/ Registry!RestorePreviousDefaultSink /\ Registry!Restorable /\ phase = "restore"
         \/ Registry!Vanish
BY DEF Next, vars, Begin, Run, StartSink, StartRegistry, EndInitialSync, StartOutput, StartServer,
       StopServer, RestorePreviousDefaultSink, EndRestore, Release, Ended, LoopEvent, LoopInvoke,
       LoopSignal, Server, ClientBegins, ClientSwitches, ClientReturns, Kill, SessionChanges,
       Signal

\* Dispatch and ServerStep on the head of their queue.
LEMMA DispatchIs ==
  ASSUME Registry!WireInv, Registry!Dispatch
  PROVE  /\ core /\ 1 \in DOMAIN events /\ events[1] \in Registry!Events
         /\ events' \in Seq(Registry!Events)
         /\ \A i \in DOMAIN events' :
              i + 1 \in DOMAIN events /\ i + 1 > 1 /\ events'[i] = events[i + 1]
         /\ \A i \in DOMAIN events :
              i = 1 \/ (i - 1 \in DOMAIN events' /\ events'[i - 1] = events[i])
         /\ \/ /\ events[1].kind = "added" /\ Registry!AddSink(events[1].id, events[1].name)
               /\ UNCHANGED <<requests, defaultMetadata, captured, previous, done>>
            \/ /\ events[1].kind = "metadata" /\ Registry!BindAndClaim
               /\ UNCHANGED <<devices, captured, previous, done>>
            \/ /\ events[1].kind = "removed"
               /\ devices' = Registry!HandleGlobalRemoved(events[1].id)
               /\ UNCHANGED <<requests, defaultMetadata, captured, previous, done>>
            \/ /\ events[1].kind = "property"
               /\ Registry!HandleMetadataProperty(events[1].value)
               /\ UNCHANGED <<requests, devices, defaultMetadata, done>>
            \/ /\ events[1].kind = "done" /\ Registry!OnCoreDone(events[1].seq)
               /\ UNCHANGED <<requests, devices, defaultMetadata, captured, previous>>
         /\ UNCHANGED <<graph, configured, published, listening, bound, atBind, core, awaited>>
<1>1. events \in Seq(Registry!Events) /\ events # << >> /\ events' = Tail(events) /\ core
  BY DEF Registry!WireInv, Registry!Dispatch
<1>2. /\ Head(events) = events[1] /\ events[1] \in Registry!Events /\ 1 \in DOMAIN events
      /\ events' \in Seq(Registry!Events)
      /\ \A i \in DOMAIN events' :
           i + 1 \in DOMAIN events /\ i + 1 > 1 /\ events'[i] = events[i + 1]
      /\ \A i \in DOMAIN events :
           i = 1 \/ (i - 1 \in DOMAIN events' /\ events'[i - 1] = events[i])
  BY <1>1, TailIs
<1>3. QED
  BY <1>1, <1>2 DEF Registry!Dispatch, Registry!serverVars

\* The server's side of the same: one request, and what it leaves behind it.
LEMMA ServerStepIs ==
  ASSUME Registry!WireInv, Registry!ServerStep
  PROVE  /\ 1 \in DOMAIN requests /\ requests[1] \in Registry!Requests
         /\ requests' \in Seq(Registry!Requests)
         /\ \A i \in DOMAIN requests' :
              i + 1 \in DOMAIN requests /\ i + 1 > 1 /\ requests'[i] = requests[i + 1]
         /\ \A i \in DOMAIN requests :
              i = 1 \/ (i - 1 \in DOMAIN requests' /\ requests'[i - 1] = requests[i])
         /\ \/ /\ requests[1].kind = "registry"
               /\ listening' = TRUE /\ Registry!Told(Registry!Globals)
               /\ UNCHANGED <<configured, bound, atBind>>
            \/ /\ requests[1].kind = "sync"
               /\ Registry!Told(<<Registry!Done(requests[1].seq)>>)
               /\ UNCHANGED <<configured, listening, bound, atBind>>
            \/ /\ requests[1].kind = "bind"
               /\ bound' = TRUE /\ atBind' = configured
               /\ \E d \in Registry!Dump : Registry!Told(d)
               /\ UNCHANGED <<configured, listening>>
            \/ /\ requests[1].kind = "set"
               /\ Registry!Configure(requests[1].value)
               /\ UNCHANGED <<listening, bound, atBind>>
         /\ UNCHANGED <<graph, published, core, devices, defaultMetadata, captured, previous,
                        awaited, done>>
<1>1. /\ requests \in Seq(Registry!Requests) /\ requests # << >>
      /\ requests' = Tail(requests)
  BY DEF Registry!WireInv, Registry!ServerStep
<1>2. /\ Head(requests) = requests[1] /\ requests[1] \in Registry!Requests
      /\ 1 \in DOMAIN requests /\ requests' \in Seq(Registry!Requests)
      /\ \A i \in DOMAIN requests' :
           i + 1 \in DOMAIN requests /\ i + 1 > 1 /\ requests'[i] = requests[i + 1]
      /\ \A i \in DOMAIN requests :
           i = 1 \/ (i - 1 \in DOMAIN requests' /\ requests'[i - 1] = requests[i])
  BY <1>1, TailIs
<1>3. QED
  BY <1>1, <1>2 DEF Registry!ServerStep, Registry!registryVars, Registry!syncVars

\* What is told to the registry is appended, and consists of events.
LEMMA ToldIs ==
  ASSUME Registry!WireInv, NEW evs \in Seq(Registry!Events), Registry!Told(evs)
  PROVE  /\ events \in Seq(Registry!Events) /\ events' \in Seq(Registry!Events)
         /\ Len(events) \in Nat
         /\ \A i \in DOMAIN events :
              i \in DOMAIN events' /\ events'[i] = events[i] /\ i <= Len(events)
         /\ \A i \in DOMAIN evs :
              i + Len(events) \in DOMAIN events' /\ events'[i + Len(events)] = evs[i]
         /\ \A i \in DOMAIN events' :
              \/ i \in DOMAIN events
              \/ /\ i > Len(events) /\ i - Len(events) \in DOMAIN evs
                 /\ events'[i] = evs[i - Len(events)]
<1>1. events \in Seq(Registry!Events) /\ events' = events \o evs
  BY DEF Registry!WireInv, Registry!Told
<1>2. QED
  BY <1>1, ConcatIs

\* The events a step tells of, one by one.
LEMMA TellsEvents ==
  /\ \A id \in Ids, n \in Names : Registry!Added(id, n) \in Registry!Events
  /\ \A id \in Ids : Registry!Removed(id) \in Registry!Events
  /\ Registry!Metadata \in Registry!Events
  /\ \A v \in Names \cup {Own, None} : Registry!Property(v) \in Registry!Events
  /\ \A q \in {1, 2} : Registry!Done(q) \in Registry!Events
BY DEF Registry!Events, Registry!InitialSync, Registry!RestoreSync

-----------------------------------------------------------------------------
(* The connection: types, and what is asked for once *)

\* The registry's types, one variable at a time.
RegistryTypes ==
  /\ graph \in [Registry!AllIds -> Names \cup {Own, None}]
  /\ devices \in [Registry!AllIds -> Names \cup {None}]
  /\ configured \in Names \cup {Own, None} /\ previous \in Names \cup {Own, None}
  /\ atBind \in Names \cup {Own, None}
  /\ awaited \in {0, 1, 2}

RegistryFlags ==
  /\ published \in BOOLEAN /\ listening \in BOOLEAN /\ bound \in BOOLEAN
  /\ core \in BOOLEAN /\ defaultMetadata \in BOOLEAN /\ captured \in BOOLEAN
  /\ done \in BOOLEAN

\* DeviceRegistry's TypeOK is these two.
LEMMA RegistryTyped ==
  Registry!WireInv => (Registry!TypeOK <=> RegistryTypes /\ RegistryFlags)
<1> SUFFICES ASSUME Registry!WireInv
             PROVE  Registry!TypeOK <=> RegistryTypes /\ RegistryFlags
  OBVIOUS
<1>1. /\ \A i \in DOMAIN requests : requests[i].kind \in {"registry", "sync", "bind", "set"}
      /\ \A i \in DOMAIN events :
           events[i].kind \in {"added", "removed", "metadata", "property", "done"}
  BY RequestIs, EventIs DEF Registry!WireInv
<1>2. {published, listening, bound, core, defaultMetadata, captured, done} \subseteq BOOLEAN
        <=> RegistryFlags
  BY Zenon DEF RegistryFlags
<1>3. QED
  BY <1>1, <1>2 DEF Registry!TypeOK, RegistryTypes, Registry!InitialSync, Registry!RestoreSync

\* A flag keeps being one.
LEMMA FlagStep ==
  ASSUME RegistryFlags, [Next]_vars
  PROVE  RegistryFlags'
<1> USE DEF RegistryFlags
<1>1. CASE UNCHANGED registryVars
  BY <1>1 DEF registryVars
<1>2. ASSUME NEW id \in Ids, NEW n \in Names, Registry!PlugIn(id, n)  PROVE RegistryFlags'
  BY <1>2 DEF Registry!PlugIn, Registry!registryVars, Registry!syncVars
<1>3. ASSUME NEW id \in Ids, Registry!Unplug(id)  PROVE RegistryFlags'
  BY <1>3 DEF Registry!Unplug, Registry!registryVars, Registry!syncVars
<1>4. CASE Registry!PublishMetadata \/ \E n \in Names : Registry!UserConfigures(n)
  BY <1>4 DEF Registry!PublishMetadata, Registry!UserConfigures, Registry!registryVars,
              Registry!syncVars
<1>5. CASE Registry!ServerStep
  BY <1>5 DEF Registry!ServerStep, Registry!registryVars, Registry!syncVars
<1>6. CASE Registry!Dispatch
  <2>1. UNCHANGED <<published, listening, bound, core>>
    BY <1>6 DEF Registry!Dispatch, Registry!serverVars
  <2>2. defaultMetadata' \in BOOLEAN /\ captured' \in BOOLEAN
    BY <1>6 DEF Registry!Dispatch, Registry!BindAndClaim, Registry!HandleMetadataProperty
  <2>3. done' \in BOOLEAN
    <3>1. done' = done \/ \E q : done' = (done \/ q = awaited)
      BY <1>6, Zenon DEF Registry!Dispatch, Registry!OnCoreDone
    <3>2. QED
      BY <3>1, Zenon
  <2>4. QED
    BY <2>1, <2>2, <2>3
<1>7. CASE Registry!EndSync \/ Registry!OwnSinkAppears \/ Registry!Start
            \/ Registry!RestorePreviousDefaultSink \/ Registry!Vanish
  BY <1>7 DEF Registry!EndSync, Registry!OwnSinkAppears, Registry!Start,
              Registry!RestorePreviousDefaultSink, Registry!Vanish, Registry!Disconnected,
              Registry!AwaitCore, Registry!serverVars, Registry!wireVars, Registry!registryVars,
              Registry!syncVars
<1>8. QED
  BY <1>1, <1>2, <1>3, <1>4, <1>5, <1>6, <1>7, RegistrySteps

\* What IfListening tells is one event or none.
LEMMA IfListeningIs ==
  ASSUME Registry!WireInv, NEW e \in Registry!Events, Registry!IfListening(<<e>>)
  PROVE  /\ events' \in Seq(Registry!Events) /\ Len(events) \in Nat
         /\ \A i \in DOMAIN events :
              i \in DOMAIN events' /\ events'[i] = events[i] /\ i <= Len(events)
         /\ listening => Len(events) + 1 \in DOMAIN events' /\ events'[Len(events) + 1] = e
         /\ \A i \in DOMAIN events' :
              i \in DOMAIN events \/ (listening /\ i = Len(events) + 1 /\ events'[i] = e)
         /\ ~listening => events' = events
<1>1. CASE listening
  <2>1. Registry!Told(<<e>>) /\ <<e>> \in Seq(Registry!Events)
    BY <1>1 DEF Registry!IfListening
  <2>2. DOMAIN <<e>> = {1} /\ <<e>>[1] = e
    OBVIOUS
  <2> DEFINE evs == <<e>>
             n   == Len(events)
  <2> HIDE DEF evs
  <2>3. evs \in Seq(Registry!Events) /\ Registry!Told(evs) /\ DOMAIN evs = {1} /\ evs[1] = e
    BY <2>1, <2>2 DEF evs
  <2>4. /\ events' \in Seq(Registry!Events) /\ n \in Nat /\ events \in Seq(Registry!Events)
        /\ \A i \in DOMAIN events : i \in DOMAIN events' /\ events'[i] = events[i] /\ i <= n
        /\ 1 + n \in DOMAIN events' /\ events'[1 + n] = e
        /\ \A i \in DOMAIN events' : i \in DOMAIN events \/ (i - n = 1 /\ events'[i] = e)
    BY <2>3, ToldIs
  <2>5. \A i \in DOMAIN events' : i \in Nat
    BY <2>4
  <2> HIDE DEF n
  <2>6. 1 + n = n + 1 /\ \A i \in DOMAIN events' : i - n = 1 => i = n + 1
    BY <2>4, <2>5
  <2>7. QED
    BY <1>1, <2>4, <2>6 DEF n
<1>2. CASE ~listening
  <2>1. events' = events \o << >> /\ events \in Seq(Registry!Events)
    BY <1>2 DEF Registry!IfListening, Registry!Told, Registry!WireInv
  <2>2. events' = events
    BY <2>1
  <2>3. QED
    BY <1>2, <2>1, <2>2
<1>3. QED
  BY <1>1, <1>2

\* A property is told only through the bound object.
LEMMA ConfigureIs ==
  ASSUME Registry!WireInv, NEW v \in Names \cup {Own, None}, Registry!Configure(v)
  PROVE  /\ configured' = v
         /\ events' \in Seq(Registry!Events)
         /\ \A i \in DOMAIN events :
              i \in DOMAIN events' /\ events'[i] = events[i] /\ i <= Len(events)
         /\ \A i \in DOMAIN events' :
              \/ i \in DOMAIN events
              \/ bound /\ i > Len(events) /\ events'[i] = Registry!Property(v)
<1>1. CASE bound
  <2>1. /\ Registry!Told(<<Registry!Property(v)>>) /\ configured' = v
        /\ <<Registry!Property(v)>> \in Seq(Registry!Events)
    BY <1>1, TellsEvents DEF Registry!Configure
  <2>2. \A i \in DOMAIN <<Registry!Property(v)>> : <<Registry!Property(v)>>[i] = Registry!Property(v)
    OBVIOUS
  <2>3. QED
    BY <1>1, <2>1, <2>2, ToldIs
<1>2. CASE ~bound
  <2>1. events' = events \o << >> /\ events \in Seq(Registry!Events) /\ configured' = v
    BY <1>2 DEF Registry!Configure, Registry!Told, Registry!WireInv
  <2>2. events' = events
    BY <2>1
  <2>3. QED
    BY <1>2, <2>1, <2>2
<1>3. QED
  BY <1>1, <1>2

\* What travels, and what the map holds, keeps its type.
LEMMA WireStep ==
  ASSUME RegistryTypes, Registry!WireInv, Registry!ListenInv, PhaseInv, [Next]_vars
  PROVE  RegistryTypes' /\ Registry!WireInv'
<1> USE DEF RegistryTypes, Registry!WireInv
<1>0. /\ OwnId \in Registry!AllIds /\ \A id \in Ids : id \in Registry!AllIds /\ id # OwnId
      /\ Registry!AllIds' = Registry!AllIds
      /\ Registry!Requests' = Registry!Requests /\ Registry!Events' = Registry!Events
  BY DEF Registry!AllIds, Registry!Requests, Registry!Events
<1> DEFINE P == RegistryTypes' /\ Registry!WireInv'
<1>1. CASE UNCHANGED registryVars
  BY <1>0, <1>1 DEF registryVars
<1>2. ASSUME NEW id \in Ids, NEW n \in Names, Registry!PlugIn(id, n)  PROVE P
  <2>1. events' \in Seq(Registry!Events)
    BY <1>2, TellsEvents, IfListeningIs DEF Registry!PlugIn
  <2>2. QED
    BY <1>0, <1>2, <2>1 DEF Registry!PlugIn, Registry!registryVars, Registry!syncVars
<1>3. ASSUME NEW id \in Ids, Registry!Unplug(id)  PROVE P
  <2>1. events' \in Seq(Registry!Events)
    BY <1>3, TellsEvents, IfListeningIs DEF Registry!Unplug
  <2>2. QED
    BY <1>0, <1>3, <2>1 DEF Registry!Unplug, Registry!registryVars, Registry!syncVars
<1>4. CASE Registry!PublishMetadata
  <2>1. events' \in Seq(Registry!Events)
    BY <1>4, TellsEvents, IfListeningIs DEF Registry!PublishMetadata
  <2>2. QED
    BY <1>0, <1>4, <2>1 DEF Registry!PublishMetadata, Registry!registryVars, Registry!syncVars
<1>5. ASSUME NEW n \in Names, Registry!UserConfigures(n)  PROVE P
  <2>1. events' \in Seq(Registry!Events) /\ configured' = n
    BY <1>5, ConfigureIs DEF Registry!UserConfigures
  <2>2. QED
    BY <1>0, <1>5, <2>1 DEF Registry!UserConfigures, Registry!registryVars, Registry!syncVars
<1>6. CASE Registry!ServerStep
  <2>1. /\ requests[1] \in Registry!Requests /\ requests' \in Seq(Registry!Requests)
        /\ UNCHANGED <<graph, devices, previous, awaited>>
    BY <1>6, ServerStepIs
  <2>2. events' \in Seq(Registry!Events) /\ configured' \in Names \cup {Own, None}
        /\ atBind' \in Names \cup {Own, None}
    <3>1. CASE requests[1].kind = "registry"
      <4>1. Registry!Told(Registry!Globals) /\ UNCHANGED <<configured, atBind>>
        BY <1>6, <3>1, ServerStepIs
      <4>2. QED
        BY <4>1, GlobalsAre, ToldIs
    <3>2. CASE requests[1].kind = "sync"
      <4>1. /\ Registry!Told(<<Registry!Done(requests[1].seq)>>)
            /\ UNCHANGED <<configured, atBind>>
        BY <1>6, <3>2, ServerStepIs
      <4>2. <<Registry!Done(requests[1].seq)>> \in Seq(Registry!Events)
        BY <2>1, <3>2, RequestIs, TellsEvents
      <4>3. QED
        BY <4>1, <4>2, ToldIs
    <3>3. CASE requests[1].kind = "bind"
      <4>1. PICK d \in Registry!Dump : Registry!Told(d)
        BY <1>6, <3>3, ServerStepIs
      <4>2. d \in Seq(Registry!Events)
        <5>1. /\ Registry!Property(configured) \in Registry!Events
              /\ Registry!Property(None) \in Registry!Events
          BY TellsEvents
        <5>2. \A e \in Registry!Events : <<e>> \in Seq(Registry!Events)
          OBVIOUS
        <5>3. /\ <<Registry!Property(configured)>> \in Seq(Registry!Events)
              /\ <<Registry!Property(None)>> \in Seq(Registry!Events)
              /\ << >> \in Seq(Registry!Events)
          BY <5>1, <5>2
        <5>4. \/ d = <<Registry!Property(configured)>> \/ d = <<Registry!Property(None)>>
              \/ d = << >>
          BY Zenon DEF Registry!Dump
        <5>5. QED
          BY <5>3, <5>4
      <4>3. UNCHANGED configured /\ atBind' = configured
        BY <1>6, <3>3, ServerStepIs
      <4>4. QED
        BY <4>1, <4>2, <4>3, ToldIs
    <3>4. CASE requests[1].kind = "set"
      <4>1. Registry!Configure(requests[1].value) /\ UNCHANGED atBind
        BY <1>6, <3>4, ServerStepIs
      <4>2. requests[1].value \in Names \cup {Own, None}
        BY <2>1, <3>4, RequestIs
      <4>3. QED
        BY <4>1, <4>2, ConfigureIs
    <3>5. QED
      BY <1>6, <3>1, <3>2, <3>3, <3>4, ServerStepIs
  <2>3. QED
    BY <1>0, <2>1, <2>2
<1>7. CASE Registry!Dispatch
  <2>1. /\ events[1] \in Registry!Events /\ events' \in Seq(Registry!Events)
        /\ UNCHANGED <<graph, configured, atBind, awaited>>
    BY <1>7, DispatchIs
  <2>2. requests' \in Seq(Registry!Requests)
    <3>1. requests' = requests \/ Registry!BindAndClaim
      BY <1>7, DispatchIs
    <3>2. <<Registry!Bind, Registry!Set(Own)>> \in Seq(Registry!Requests)
      BY DEF Registry!Requests
    <3>3. requests \o <<Registry!Bind, Registry!Set(Own)>> \in Seq(Registry!Requests)
      BY <3>2, ConcatIs
    <3>4. QED
      BY <3>1, <3>3 DEF Registry!BindAndClaim
  <2>3. /\ devices' \in [Registry!AllIds -> Names \cup {None}] /\ devices'[OwnId] = None
    <3>1. CASE events[1].kind = "added"
      <4>1. Registry!AddSink(events[1].id, events[1].name)
        BY <1>7, <3>1, DispatchIs
      <4>2. \/ events[1].id \in Ids /\ events[1].name \in Names
            \/ events[1].id = OwnId /\ events[1].name = Own
        BY <2>1, <3>1, EventIs
      <4>3. QED
        BY <1>0, <4>1, <4>2 DEF Registry!AddSink
    <3>2. CASE events[1].kind = "removed"
      <4>1. devices' = Registry!HandleGlobalRemoved(events[1].id) /\ events[1].id \in Ids
        BY <1>7, <2>1, <3>2, DispatchIs, EventIs
      <4>2. QED
        BY <1>0, <4>1 DEF Registry!HandleGlobalRemoved
    <3>3. CASE events[1].kind \notin {"added", "removed"}
      BY <1>7, <3>3, DispatchIs
    <3>4. QED
      BY <3>1, <3>2, <3>3
  <2>4. previous' \in Names \cup {Own, None}
    <3>1. CASE events[1].kind = "property"
      <4>1. /\ Registry!HandleMetadataProperty(events[1].value)
            /\ events[1].value \in Names \cup {Own, None}
        BY <1>7, <2>1, <3>1, DispatchIs, EventIs
      <4>2. QED
        BY <4>1 DEF Registry!HandleMetadataProperty
    <3>2. CASE events[1].kind # "property"
      BY <1>7, <3>2, DispatchIs
    <3>3. QED
      BY <3>1, <3>2
  <2>5. QED
    BY <1>0, <2>1, <2>2, <2>3, <2>4
<1>8. CASE Registry!EndSync
  BY <1>0, <1>8 DEF Registry!EndSync, Registry!serverVars, Registry!wireVars, Registry!registryVars
<1>9. CASE Registry!OwnSinkAppears
  BY <1>0, <1>9 DEF Registry!OwnSinkAppears, Registry!wireVars, Registry!registryVars,
                    Registry!syncVars
<1>10. CASE Registry!Start
  <2>1. requests' \in Seq(Registry!Requests)
    BY <1>10 DEF Registry!Start, Registry!FirstRequests, Registry!Requests
  <2>2. QED
    BY <1>0, <1>10, <2>1 DEF Registry!Start, Registry!AwaitCore, Registry!serverVars,
                             Registry!InitialSync
<1>11. CASE Registry!RestorePreviousDefaultSink /\ Registry!Restorable
  <2>1. <<Registry!Set(previous), Registry!Sync(Registry!RestoreSync)>> \in Seq(Registry!Requests)
    <3>1. previous \in Names \cup {Own}
      BY <1>11 DEF Registry!Restorable
    <3>2. QED
      BY <3>1 DEF Registry!Requests
  <2>2. requests' \in Seq(Registry!Requests)
    BY <1>11, <2>1, ConcatIs DEF Registry!RestorePreviousDefaultSink
  <2>3. QED
    BY <1>0, <1>11, <2>2 DEF Registry!RestorePreviousDefaultSink, Registry!AwaitCore,
       Registry!serverVars, Registry!registryVars, Registry!RestoreSync
<1>12. CASE Registry!Vanish
  BY <1>0, <1>12 DEF Registry!Vanish, Registry!Disconnected, Registry!Empty
<1>13. QED
  BY <1>1, <1>2, <1>3, <1>4, <1>5, <1>6, <1>7, <1>8, <1>9, <1>10, <1>11, <1>12, RegistrySteps

\* Two requests at the end of the queue.
LEMMA AppendTwo ==
  ASSUME NEW S, NEW s \in Seq(S), NEW a \in S, NEW b \in S
  PROVE  /\ Len(s) \in Nat
         /\ \A i \in DOMAIN s :
              i \in DOMAIN (s \o <<a, b>>) /\ (s \o <<a, b>>)[i] = s[i] /\ i <= Len(s)
         /\ \A i \in DOMAIN (s \o <<a, b>>) :
              \/ i \in DOMAIN s
              \/ i = Len(s) + 1 /\ (s \o <<a, b>>)[i] = a
              \/ i = Len(s) + 2 /\ (s \o <<a, b>>)[i] = b
         /\ Len(s) + 1 \in DOMAIN (s \o <<a, b>>) /\ Len(s) + 2 \in DOMAIN (s \o <<a, b>>)
         /\ (s \o <<a, b>>)[Len(s) + 1] = a /\ (s \o <<a, b>>)[Len(s) + 2] = b
OBVIOUS

\* The requests the registry makes when it binds the object and when it restores.
LEMMA BindAndClaimIs ==
  ASSUME Registry!WireInv, Registry!BindAndClaim
  PROVE  /\ defaultMetadata' = TRUE
         /\ defaultMetadata => requests' = requests
         /\ Len(requests) \in Nat
         /\ \A i \in DOMAIN requests :
              i \in DOMAIN requests' /\ requests'[i] = requests[i] /\ i <= Len(requests)
         /\ \A i \in DOMAIN requests' :
              \/ i \in DOMAIN requests
              \/ ~defaultMetadata /\ i = Len(requests) + 1 /\ requests'[i] = Registry!Bind
              \/ ~defaultMetadata /\ i = Len(requests) + 2 /\ requests'[i] = Registry!Set(Own)
<1>1. requests \in Seq(Registry!Requests)
  BY DEF Registry!WireInv
<1>2. CASE defaultMetadata
  BY <1>1, <1>2 DEF Registry!BindAndClaim
<1>3. CASE ~defaultMetadata
  <2>1. Registry!Bind \in Registry!Requests /\ Registry!Set(Own) \in Registry!Requests
    BY DEF Registry!Requests
  <2>2. requests' = requests \o <<Registry!Bind, Registry!Set(Own)>> /\ defaultMetadata' = TRUE
    BY <1>3 DEF Registry!BindAndClaim
  <2>3. QED
    BY <1>1, <1>3, <2>1, <2>2, AppendTwo
<1>4. QED
  BY <1>2, <1>3

\* The restore sets the previous default and asks for an answer.
LEMMA RestoreIs ==
  ASSUME RegistryTypes, Registry!WireInv, Registry!Restorable,
         Registry!RestorePreviousDefaultSink
  PROVE  /\ Len(requests) \in Nat
         /\ \A i \in DOMAIN requests :
              i \in DOMAIN requests' /\ requests'[i] = requests[i] /\ i <= Len(requests)
         /\ \A i \in DOMAIN requests' :
              \/ i \in DOMAIN requests
              \/ i = Len(requests) + 1 /\ requests'[i] = Registry!Set(previous)
              \/ i = Len(requests) + 2 /\ requests'[i] = Registry!Sync(2)
         /\ Len(requests) + 1 \in DOMAIN requests'
         /\ requests'[Len(requests) + 1] = Registry!Set(previous)
         /\ awaited' = 2 /\ done' = FALSE
         /\ UNCHANGED <<graph, configured, published, listening, bound, events, atBind, core,
                        devices, defaultMetadata, captured, previous>>
<1>1. requests \in Seq(Registry!Requests)
  BY DEF Registry!WireInv
<1>2. Registry!Set(previous) \in Registry!Requests /\ Registry!Sync(2) \in Registry!Requests
  BY DEF Registry!Requests, Registry!Restorable, RegistryTypes, Registry!RestoreSync
<1>3. requests' = requests \o <<Registry!Set(previous), Registry!Sync(2)>>
  BY DEF Registry!RestorePreviousDefaultSink, Registry!RestoreSync
<1>4. QED
  BY <1>1, <1>2, <1>3, AppendTwo
     DEF Registry!RestorePreviousDefaultSink, Registry!AwaitCore, Registry!serverVars,
         Registry!registryVars, Registry!RestoreSync

\* The registry is asked for once, and nothing is known before it answers.
LEMMA ListenStep ==
  ASSUME RegistryTypes, Registry!WireInv, Registry!ListenInv, Registry!BindInv, PhaseInv,
         [Next]_vars
  PROVE  Registry!ListenInv'
<1> USE DEF Registry!ListenInv
<1>0. Registry!Empty' = Registry!Empty /\ Registry!FirstRequests' = Registry!FirstRequests
  BY DEF Registry!Empty, Registry!AllIds, Registry!FirstRequests
<1>1. CASE UNCHANGED registryVars
  BY <1>0, <1>1 DEF registryVars
<1>2. ASSUME NEW id \in Ids, NEW n \in Names, Registry!PlugIn(id, n)  PROVE Registry!ListenInv'
  BY <1>0, <1>2, TellsEvents, IfListeningIs
     DEF Registry!PlugIn, Registry!registryVars, Registry!syncVars
<1>3. ASSUME NEW id \in Ids, Registry!Unplug(id)  PROVE Registry!ListenInv'
  BY <1>0, <1>3, TellsEvents, IfListeningIs
     DEF Registry!Unplug, Registry!registryVars, Registry!syncVars
<1>4. CASE Registry!PublishMetadata
  BY <1>0, <1>4, TellsEvents, IfListeningIs
     DEF Registry!PublishMetadata, Registry!registryVars, Registry!syncVars
<1>5. ASSUME NEW n \in Names, Registry!UserConfigures(n)  PROVE Registry!ListenInv'
  <2>1. ~listening => events' = << >>
    <3> SUFFICES ASSUME ~listening  PROVE events' = << >>
      OBVIOUS
    <3>1. Registry!Configure(n) /\ ~bound /\ events = << >>
      BY <1>5 DEF Registry!UserConfigures, Registry!BindInv
    <3>2. events' = << >> \o << >>
      BY <3>1 DEF Registry!Configure, Registry!Told
    <3>3. QED
      BY <3>2
  <2>2. QED
    BY <1>0, <1>5, <2>1 DEF Registry!UserConfigures, Registry!registryVars, Registry!syncVars
<1>6. CASE Registry!ServerStep
  <2>1. CASE listening
    <3>1. listening' /\ core' = core
      BY <1>6, <2>1, ServerStepIs
    <3>2. core
      BY <1>6, ServerStepIs
    <3>3. \A i \in DOMAIN requests' : requests'[i].kind # "registry"
      BY <1>6, <2>1, ServerStepIs
    <3>4. QED
      BY <3>1, <3>2, <3>3
  <2>2. CASE ~listening
    <3>1. requests = Registry!FirstRequests /\ core
      BY <1>6, <2>2, ServerStepIs
    <3>2. /\ DOMAIN requests = {1, 2} /\ requests[1].kind = "registry"
          /\ requests[2].kind = "sync"
      BY <3>1 DEF Registry!FirstRequests, Registry!GetRegistry, Registry!Sync
    <3>3. listening' /\ core' = core
      BY <1>6, <3>2, ServerStepIs
    <3>4. \A i \in DOMAIN requests' : i + 1 \in {1, 2} /\ i + 1 > 1 /\ requests'[i] = requests[i + 1]
      BY <1>6, <3>2, ServerStepIs
    <3>5. \A i \in DOMAIN requests' : requests'[i].kind # "registry"
      BY <3>2, <3>4
    <3>6. QED
      BY <3>1, <3>3, <3>5
  <2>3. QED
    BY <2>1, <2>2
<1>7. CASE Registry!Dispatch
  <2>1. listening /\ core /\ UNCHANGED <<listening, core>>
    BY <1>7, DispatchIs
  <2>2. requests' = requests \/ Registry!BindAndClaim
    BY <1>7, DispatchIs
  <2>3. /\ Registry!Bind.kind = "bind" /\ Registry!Set(Own).kind = "set"
    BY DEF Registry!Bind, Registry!Set
  <2>4. \A i \in DOMAIN requests' : requests'[i].kind # "registry"
    BY <2>1, <2>2, <2>3, BindAndClaimIs
  <2>5. QED
    BY <2>1, <2>4
<1>8. CASE Registry!EndSync
  BY <1>0, <1>8 DEF Registry!EndSync, Registry!serverVars, Registry!wireVars, Registry!registryVars
<1>9. CASE Registry!OwnSinkAppears
  BY <1>0, <1>9 DEF Registry!OwnSinkAppears, Registry!wireVars, Registry!registryVars,
                    Registry!syncVars
<1>10. CASE Registry!Start /\ phase = "registry"
  BY <1>0, <1>10 DEF PhaseInv, Registry!Start, Registry!AwaitCore, Registry!serverVars
<1>11. CASE Registry!RestorePreviousDefaultSink /\ Registry!Restorable
  <2>1. listening /\ core
    BY <1>11 DEF Registry!Restorable
  <2>2. Registry!Set(previous).kind = "set" /\ Registry!Sync(2).kind = "sync"
    BY DEF Registry!Set, Registry!Sync
  <2>3. \A i \in DOMAIN requests' : requests'[i].kind # "registry"
    BY <1>11, <2>1, <2>2, RestoreIs
  <2>4. QED
    BY <1>11, <2>1, <2>3, RestoreIs
<1>12. CASE Registry!Vanish
  BY <1>0, <1>12 DEF Registry!Vanish, Registry!Disconnected
<1>13. QED
  BY <1>1, <1>2, <1>3, <1>4, <1>5, <1>6, <1>7, <1>8, <1>9, <1>10, <1>11, <1>12, RegistrySteps

\* What the server tells the registry about sinks, the object and the syncs is
\* no property.
LEMMA Kinds ==
  /\ \A id, n : Registry!Added(id, n).kind = "added"
  /\ \A id : Registry!Removed(id).kind = "removed"
  /\ Registry!Metadata.kind = "metadata"
  /\ \A v : Registry!Property(v).kind = "property" /\ Registry!Property(v).value = v
  /\ \A q : Registry!Done(q).kind = "done" /\ Registry!Done(q).seq = q
  /\ Registry!Bind.kind = "bind"
  /\ \A v : Registry!Set(v).kind = "set" /\ Registry!Set(v).value = v
  /\ \A q : Registry!Sync(q).kind = "sync" /\ Registry!Sync(q).seq = q
BY DEF Registry!Added, Registry!Removed, Registry!Metadata, Registry!Property, Registry!Done,
       Registry!Bind, Registry!Set, Registry!Sync

\* Events that are told are told behind the others.
EventsGrow ==
  /\ Len(events) \in Nat /\ DOMAIN events \subseteq Nat /\ DOMAIN events' \subseteq Nat
  /\ \A i \in DOMAIN events :
       i \in DOMAIN events' /\ events'[i] = events[i] /\ i <= Len(events)
  /\ \A i \in DOMAIN events' : i \in DOMAIN events \/ i > Len(events)

\* A step that adds no property, or adds one once the object is bound, leaves the
\* first one where it is.
LEMMA BindKept ==
  ASSUME Registry!BindInv, EventsGrow,
         UNCHANGED <<bound, atBind, defaultMetadata, captured, previous>>,
         \A i \in DOMAIN events' :
           i \in DOMAIN events \/ bound \/ events'[i].kind # "property",
         \A i \in DOMAIN requests' :
           \/ i \in DOMAIN requests /\ requests'[i] = requests[i]
           \/ requests'[i].kind # "bind" /\ (requests'[i].kind # "set" \/ defaultMetadata)
  PROVE  Registry!BindInv'
<1> USE DEF Registry!BindInv
<1>1. \A i \in DOMAIN events : Registry!FirstProperty(i) => Registry!FirstProperty(i)'
  <2> SUFFICES ASSUME NEW i \in DOMAIN events, Registry!FirstProperty(i)
               PROVE  /\ events'[i].kind = "property"
                      /\ \A j \in DOMAIN events' : j < i => events'[j].kind # "property"
    BY DEF Registry!FirstProperty
  <2>1. \A j \in DOMAIN events' : j < i => j \in DOMAIN events
    BY DEF EventsGrow
  <2>2. QED
    BY <2>1 DEF EventsGrow, Registry!FirstProperty
<1>2. atBind' # None =>
        IF captured' THEN previous' = atBind'
        ELSE \E i \in DOMAIN events' : Registry!FirstProperty(i)' /\ events'[i].value = atBind'
  BY <1>1 DEF EventsGrow
<1>3. ~bound' => /\ ~captured' /\ atBind' = None
                /\ \A i \in DOMAIN events' : events'[i].kind # "property"
  BY DEF EventsGrow
<1>4. QED
  BY <1>2, <1>3 DEF Registry!FirstProperty

\* The object is bound once; its first property, handled or on its way, is what it
\* held then.
LEMMA BindStep ==
  ASSUME RegistryTypes, RegistryTypes', Registry!WireInv, Registry!WireInv', Registry!ListenInv,
         Registry!BindInv, PhaseInv, [Next]_vars
  PROVE  Registry!BindInv'
<1>0. /\ Len(events) \in Nat /\ DOMAIN events \subseteq Nat /\ DOMAIN events' \subseteq Nat
      /\ DOMAIN requests \subseteq Nat /\ Len(requests) \in Nat
  BY DEF Registry!WireInv
<1>1. CASE UNCHANGED registryVars
  BY <1>1 DEF registryVars, Registry!BindInv, Registry!FirstProperty
<1>2. ASSUME NEW e \in Registry!Events, e.kind # "property", Registry!IfListening(<<e>>),
             UNCHANGED <<requests, bound, atBind, defaultMetadata, captured, previous>>
      PROVE  Registry!BindInv'
  <2>1. EventsGrow /\ \A i \in DOMAIN events' : i \in DOMAIN events \/ events'[i] = e
    <3>1. Registry!WireInv
      OBVIOUS
    <3>2. QED
      BY <1>0, <1>2, <3>1, IfListeningIs DEF EventsGrow
  <2>2. QED
    BY <1>2, <2>1, BindKept
<1>3. ASSUME NEW id \in Ids, NEW n \in Names, Registry!PlugIn(id, n)  PROVE Registry!BindInv'
  BY <1>2, <1>3, Kinds, TellsEvents DEF Registry!PlugIn, Registry!registryVars
<1>4. ASSUME NEW id \in Ids, Registry!Unplug(id)  PROVE Registry!BindInv'
  BY <1>2, <1>4, Kinds, TellsEvents DEF Registry!Unplug, Registry!registryVars
<1>5. CASE Registry!PublishMetadata
  BY <1>2, <1>5, Kinds, TellsEvents DEF Registry!PublishMetadata, Registry!registryVars
<1>6. ASSUME NEW n \in Names, Registry!UserConfigures(n)  PROVE Registry!BindInv'
  <2>1. EventsGrow /\ \A i \in DOMAIN events' : i \in DOMAIN events \/ bound
    BY <1>0, <1>6, ConfigureIs DEF Registry!UserConfigures, EventsGrow
  <2>2. QED
    BY <1>6, <2>1, BindKept DEF Registry!UserConfigures, Registry!registryVars
<1>7. CASE Registry!ServerStep
  <2>1. /\ 1 \in DOMAIN requests /\ requests[1] \in Registry!Requests
        /\ \A i \in DOMAIN requests' :
             i + 1 \in DOMAIN requests /\ i + 1 > 1 /\ requests'[i] = requests[i + 1]
        /\ UNCHANGED <<core, defaultMetadata, captured, previous>>
    BY <1>7, ServerStepIs
  <2>2. ASSUME NEW evs \in Seq(Registry!Events), Registry!Told(evs),
               bound \/ \A i \in DOMAIN evs : evs[i].kind # "property",
               UNCHANGED <<bound, atBind>>
        PROVE  Registry!BindInv'
    <3>1. EventsGrow /\ \A i \in DOMAIN events' :
                          i \in DOMAIN events \/ bound \/ events'[i].kind # "property"
      BY <1>0, <2>2, ToldIs DEF EventsGrow
    <3>2. ASSUME NEW i \in DOMAIN requests'
          PROVE  /\ requests'[i].kind = "bind" =>
                      ~bound /\ \A j \in DOMAIN requests' : requests'[j].kind = "bind" => i = j
                 /\ ~defaultMetadata => requests'[i].kind \notin {"bind", "set"}
      <4>1. ASSUME NEW j \in DOMAIN requests', requests'[i].kind = "bind",
                   requests'[j].kind = "bind"
            PROVE  i = j
        <5>1. i + 1 = j + 1
          BY <2>1, <4>1 DEF Registry!BindInv
        <5>2. i \in Nat /\ j \in Nat
          BY DEF Registry!WireInv
        <5>3. QED
          BY <5>1, <5>2
      <4>2. QED
        BY <2>1, <4>1 DEF Registry!BindInv
    <3>3. \A i \in DOMAIN events : Registry!FirstProperty(i) => Registry!FirstProperty(i)'
      <4> SUFFICES ASSUME NEW i \in DOMAIN events, Registry!FirstProperty(i)
                   PROVE  /\ events'[i].kind = "property"
                          /\ \A j \in DOMAIN events' : j < i => events'[j].kind # "property"
        BY DEF Registry!FirstProperty
      <4>1. \A j \in DOMAIN events' : j < i => j \in DOMAIN events
        BY <3>1 DEF EventsGrow
      <4>2. QED
        BY <3>1, <4>1 DEF EventsGrow, Registry!FirstProperty
    <3>4. atBind' # None =>
            IF captured' THEN previous' = atBind'
            ELSE \E i \in DOMAIN events' :
                   Registry!FirstProperty(i)' /\ events'[i].value = atBind'
      BY <2>1, <2>2, <3>1, <3>3 DEF EventsGrow, Registry!BindInv
    <3>5. ~bound' => /\ ~captured' /\ atBind' = None
                    /\ \A i \in DOMAIN events' : events'[i].kind # "property"
      BY <2>1, <2>2, <3>1 DEF EventsGrow, Registry!BindInv
    <3>6. ~captured' => previous' = None
      BY <2>1 DEF Registry!BindInv
    <3>7. /\ ~defaultMetadata' =>
               ~bound' /\ \A i \in DOMAIN requests' : requests'[i].kind \notin {"bind", "set"}
          /\ \A i \in DOMAIN requests' : requests'[i].kind = "bind" =>
               ~bound' /\ \A j \in DOMAIN requests' : requests'[j].kind = "bind" => i = j
      BY <2>1, <2>2, <3>2 DEF Registry!BindInv
    <3>8. QED
      BY <3>4, <3>5, <3>6, <3>7 DEF Registry!BindInv, Registry!FirstProperty
  <2>3. CASE requests[1].kind = "registry"
    <3>1. Registry!Told(Registry!Globals) /\ UNCHANGED <<bound, atBind>>
      BY <1>7, <2>3, ServerStepIs
    <3>2. /\ Registry!Globals \in Seq(Registry!Events)
          /\ \A i \in DOMAIN Registry!Globals : Registry!Globals[i].kind # "property"
      BY GlobalsAre, Kinds DEF RegistryTypes
    <3>3. QED
      BY <2>2, <3>1, <3>2
  <2>4. CASE requests[1].kind = "sync"
    <3> DEFINE e == Registry!Done(requests[1].seq)
    <3>1. Registry!Told(<<e>>) /\ UNCHANGED <<bound, atBind>>
      BY <1>7, <2>4, ServerStepIs
    <3>2. e \in Registry!Events /\ e.kind # "property"
      BY <2>1, <2>4, RequestIs, TellsEvents, Kinds
    <3> HIDE DEF e
    <3>3. <<e>> \in Seq(Registry!Events) /\ \A i \in DOMAIN <<e>> : <<e>>[i].kind # "property"
      BY <3>2
    <3>4. QED
      BY <2>2, <3>1, <3>3
  <2>5. CASE requests[1].kind = "set"
    <3> DEFINE v   == requests[1].value
               evs == IF bound THEN <<Registry!Property(v)>> ELSE << >>
    <3>1. Registry!Told(evs) /\ UNCHANGED <<bound, atBind>>
      BY <1>7, <2>5, ServerStepIs DEF Registry!Configure
    <3>2. Registry!Property(v) \in Registry!Events
      BY <2>1, <2>5, RequestIs, TellsEvents
    <3>3. evs \in Seq(Registry!Events) /\ (bound \/ \A i \in DOMAIN evs : evs[i].kind # "property")
      <4>1. CASE bound
        BY <3>2, <4>1
      <4>2. CASE ~bound
        BY <4>2
      <4>3. QED
        BY <4>1, <4>2
    <3> HIDE DEF evs
    <3>4. QED
      BY <2>2, <3>1, <3>3
  <2>6. CASE requests[1].kind = "bind"
    <3>1. /\ bound' = TRUE /\ atBind' = configured
          /\ \E d \in Registry!Dump : Registry!Told(d)
      BY <1>7, <2>6, ServerStepIs
    <3>2. defaultMetadata /\ ~bound /\ ~captured /\ previous = None
      BY <2>1, <2>6 DEF Registry!BindInv
    <3>3. \A i \in DOMAIN events : events[i].kind # "property"
      BY <3>2 DEF Registry!BindInv
    <3>4. \A i \in DOMAIN requests' : requests'[i].kind # "bind"
      <4> SUFFICES ASSUME NEW i \in DOMAIN requests', requests'[i].kind = "bind"  PROVE FALSE
        OBVIOUS
      <4>1. i + 1 \in DOMAIN requests /\ requests[i + 1].kind = "bind" /\ i + 1 > 1
        BY <2>1
      <4>2. i + 1 = 1
        BY <2>1, <2>6, <4>1 DEF Registry!BindInv
      <4>3. QED
        BY <4>1, <4>2
    <3>5. ASSUME atBind' # None
          PROVE  \E i \in DOMAIN events' :
                   Registry!FirstProperty(i)' /\ events'[i].value = atBind'
      <4> DEFINE e == Registry!Property(configured)
                 n == Len(events)
      <4>1. Registry!Told(<<e>>)
        BY <3>1, <3>5 DEF Registry!Dump
      <4>2. e \in Registry!Events /\ e.kind = "property" /\ e.value = configured
        BY Kinds, TellsEvents DEF RegistryTypes
      <4> HIDE DEF e
      <4>3. <<e>> \in Seq(Registry!Events) /\ 1 \in DOMAIN <<e>> /\ <<e>>[1] = e
        BY <4>2
      <4>4. /\ \A i \in DOMAIN events : events'[i] = events[i]
            /\ 1 + n \in DOMAIN events' /\ events'[1 + n] = e
            /\ \A i \in DOMAIN events' : i \in DOMAIN events \/ i > n
        BY <4>1, <4>3, ToldIs
      <4>5. \A j \in DOMAIN events' : j < 1 + n => events'[j].kind # "property"
        BY <1>0, <3>3, <4>4
      <4>6. PICK m \in DOMAIN events' : m = 1 + n
        BY <4>4
      <4>7. Registry!FirstProperty(m)' /\ events'[m].value = atBind'
        BY <3>1, <4>2, <4>4, <4>5, <4>6 DEF Registry!FirstProperty
      <4>8. QED
        BY <4>6, <4>7
    <3>6. QED
      BY <2>1, <3>1, <3>2, <3>4, <3>5 DEF Registry!BindInv
  <2>7. QED
    BY <1>7, <2>3, <2>4, <2>5, <2>6, ServerStepIs
<1>8. CASE Registry!Dispatch
  <2>1. /\ 1 \in DOMAIN events /\ events[1] \in Registry!Events
        /\ \A i \in DOMAIN events' :
             i + 1 \in DOMAIN events /\ i + 1 > 1 /\ events'[i] = events[i + 1]
        /\ \A i \in DOMAIN events :
             i = 1 \/ (i - 1 \in DOMAIN events' /\ events'[i - 1] = events[i])
        /\ UNCHANGED <<bound, atBind>>
    BY <1>8, DispatchIs
  <2>2. ~bound => \A i \in DOMAIN events' : events'[i].kind # "property"
    BY <2>1 DEF Registry!BindInv
  <2>3. CASE events[1].kind = "property"
    <3>1. /\ Registry!HandleMetadataProperty(events[1].value)
          /\ UNCHANGED <<requests, defaultMetadata>>
      BY <1>8, <2>3, DispatchIs
    <3>2. bound
      BY <2>1, <2>3 DEF Registry!BindInv
    <3>3. ASSUME atBind # None  PROVE previous' = atBind
      <4>1. CASE captured
        BY <3>1, <3>3, <4>1 DEF Registry!BindInv, Registry!HandleMetadataProperty
      <4>2. CASE ~captured
        <5>1. PICK i \in DOMAIN events : Registry!FirstProperty(i) /\ events[i].value = atBind
          BY <3>3, <4>2 DEF Registry!BindInv
        <5>2. ~(1 < i)
          BY <2>1, <2>3, <5>1 DEF Registry!FirstProperty
        <5>3. i \in Nat /\ i >= 1
          BY DEF Registry!WireInv
        <5>4. i = 1
          BY <5>2, <5>3
        <5>5. QED
          BY <3>1, <3>3, <4>2, <5>1, <5>4 DEF Registry!HandleMetadataProperty
      <4>3. QED
        BY <4>1, <4>2
    <3>4. QED
      BY <2>1, <3>1, <3>2, <3>3 DEF Registry!BindInv, Registry!HandleMetadataProperty
  <2>4. CASE events[1].kind # "property"
    <3>1. UNCHANGED <<captured, previous>>
      BY <1>8, <2>4, DispatchIs
    <3>2. ASSUME NEW i \in DOMAIN events, Registry!FirstProperty(i)
          PROVE  /\ i - 1 \in DOMAIN events' /\ events'[i - 1] = events[i]
                 /\ Registry!FirstProperty(i - 1)'
      <4>1. i # 1 /\ i \in Nat
        BY <1>0, <2>4, <3>2 DEF Registry!FirstProperty
      <4>2. i - 1 \in DOMAIN events' /\ events'[i - 1] = events[i]
        BY <2>1, <4>1
      <4>3. \A j \in DOMAIN events' : j < i - 1 => events'[j].kind # "property"
        <5> SUFFICES ASSUME NEW j \in DOMAIN events', j < i - 1
                     PROVE  events'[j].kind # "property"
          OBVIOUS
        <5>1. j + 1 \in DOMAIN events /\ j + 1 < i /\ events'[j] = events[j + 1]
          BY <1>0, <2>1, <4>1
        <5>2. QED
          BY <3>2, <5>1 DEF Registry!FirstProperty
      <4>4. QED
        BY <3>2, <4>2, <4>3 DEF Registry!FirstProperty
    <3>3. atBind' # None =>
            IF captured' THEN previous' = atBind'
            ELSE \E i \in DOMAIN events' :
                   Registry!FirstProperty(i)' /\ events'[i].value = atBind'
      BY <2>1, <3>1, <3>2 DEF Registry!BindInv
    <3>4. /\ ~defaultMetadata' =>
               ~bound' /\ \A i \in DOMAIN requests' : requests'[i].kind \notin {"bind", "set"}
          /\ \A i \in DOMAIN requests' : requests'[i].kind = "bind" =>
               ~bound' /\ \A j \in DOMAIN requests' : requests'[j].kind = "bind" => i = j
      <4>1. CASE UNCHANGED <<requests, defaultMetadata>>
        BY <2>1, <4>1 DEF Registry!BindInv
      <4>2. CASE Registry!BindAndClaim
        <5>1. CASE defaultMetadata
          BY <2>1, <4>2, <5>1, BindAndClaimIs DEF Registry!BindInv
        <5>2. CASE ~defaultMetadata
          <6>1. ~bound /\ \A i \in DOMAIN requests : requests[i].kind \notin {"bind", "set"}
            BY <5>2 DEF Registry!BindInv
          <6>2. \A i \in DOMAIN requests' :
                  requests'[i].kind = "bind" => i = Len(requests) + 1
            BY <4>2, <6>1, BindAndClaimIs, Kinds
          <6>3. defaultMetadata'
            BY <4>2, BindAndClaimIs
          <6>4. QED
            BY <2>1, <6>1, <6>2, <6>3
        <5>3. QED
          BY <5>1, <5>2
      <4>3. QED
        BY <1>8, <4>1, <4>2, DispatchIs
    <3>5. QED
      BY <2>1, <2>2, <3>1, <3>3, <3>4 DEF Registry!BindInv
  <2>5. QED
    BY <2>3, <2>4
<1>9. CASE Registry!EndSync \/ Registry!OwnSinkAppears
  BY <1>9 DEF Registry!EndSync, Registry!OwnSinkAppears, Registry!wireVars, Registry!registryVars,
              Registry!BindInv, Registry!FirstProperty
<1>10. CASE Registry!Start
  <2>1. /\ UNCHANGED <<bound, events, atBind, defaultMetadata, captured, previous>>
        /\ DOMAIN requests' = {1, 2}
        /\ requests'[1].kind = "registry" /\ requests'[2].kind = "sync"
    BY <1>10 DEF Registry!Start, Registry!FirstRequests, Registry!GetRegistry, Registry!Sync
  <2>2. \A i \in DOMAIN requests' : requests'[i].kind \notin {"bind", "set"}
    BY <2>1
  <2>3. EventsGrow
    BY <1>0, <2>1 DEF EventsGrow, Registry!WireInv
  <2>4. QED
    BY <2>1, <2>2, <2>3, BindKept
<1>11. CASE Registry!RestorePreviousDefaultSink /\ Registry!Restorable
  <2>1. /\ UNCHANGED <<bound, events, atBind, defaultMetadata, captured, previous>>
        /\ \A i \in DOMAIN requests' :
             \/ i \in DOMAIN requests /\ requests'[i] = requests[i]
             \/ requests'[i].kind # "bind"
    BY <1>11, RestoreIs, Kinds
  <2>2. EventsGrow
    BY <1>0, <2>1 DEF EventsGrow, Registry!WireInv
  <2>3. defaultMetadata
    BY <1>11 DEF Registry!Restorable
  <2>4. QED
    BY <2>1, <2>2, <2>3, BindKept
<1>12. CASE Registry!Vanish
  BY <1>12 DEF Registry!Vanish, Registry!Disconnected, Registry!BindInv
<1>13. QED
  BY <1>1, <1>3, <1>4, <1>5, <1>6, <1>7, <1>8, <1>9, <1>10, <1>11, <1>12, RegistrySteps

-----------------------------------------------------------------------------
(* The map of sinks *)

\* What event i says the session has, and what MapInv says of one id.
Tells(i) == IF events[i].kind = "added" THEN events[i].name ELSE None

MapOf(id) ==
  /\ Registry!Quiet(id) => devices[id] = graph[id]
  /\ \A i \in DOMAIN events :
       Registry!About(i, id) /\ (\A j \in DOMAIN events : j > i => ~Registry!About(j, id)) =>
         graph[id] = Tells(i)

\* MapInv says so of every id once the registry listens.
LEMMA MapParts == Registry!MapInv <=> (listening => \A id \in Ids : MapOf(id))
BY DEF Registry!MapInv, MapOf, Tells

\* The sink of an id changes only with an event that tells of it.
LEMMA MapKept ==
  ASSUME EventsGrow, NEW id \in Ids, MapOf(id), devices'[id] = devices[id],
         \A i \in DOMAIN events' :
           i \in DOMAIN events \/ (Registry!About(i, id)' => Tells(i)' = graph'[id]),
         \/ graph'[id] = graph[id]
         \/ \E i \in DOMAIN events' : i \notin DOMAIN events /\ Registry!About(i, id)'
  PROVE  MapOf(id)'
<1>1. \A i \in DOMAIN events : /\ Registry!About(i, id)' <=> Registry!About(i, id)
                               /\ Tells(i)' = Tells(i)
  BY DEF EventsGrow, Registry!About, Tells
<1>2. Registry!Quiet(id)' => devices'[id] = graph'[id]
  <2> SUFFICES ASSUME \A i \in DOMAIN events' : ~Registry!About(i, id)'
               PROVE  devices'[id] = graph'[id]
    BY DEF Registry!Quiet
  <2>1. Registry!Quiet(id)
    BY <1>1 DEF EventsGrow, Registry!Quiet
  <2>2. QED
    BY <2>1 DEF MapOf
<1>3. ASSUME NEW i \in DOMAIN events', Registry!About(i, id)',
             \A j \in DOMAIN events' : j > i => ~Registry!About(j, id)'
      PROVE  graph'[id] = Tells(i)'
  <2>1. CASE i \notin DOMAIN events
    BY <1>3, <2>1
  <2>2. CASE i \in DOMAIN events
    <3>1. \A j \in DOMAIN events : j > i => ~Registry!About(j, id)
      BY <1>1, <1>3 DEF EventsGrow
    <3>2. graph[id] = Tells(i)
      BY <1>1, <1>3, <2>2, <3>1 DEF MapOf
    <3>3. \A j \in DOMAIN events' : j \notin DOMAIN events => j > i
      BY <2>2 DEF EventsGrow
    <3>4. graph'[id] = graph[id]
      BY <1>3, <3>3
    <3>5. QED
      BY <1>1, <2>2, <3>2, <3>4
  <2>3. QED
    BY <2>1, <2>2
<1>4. QED
  BY <1>2, <1>3 DEF MapOf

\* With no event about an id left the map has what the session has there.
LEMMA MapStep ==
  ASSUME RegistryTypes, RegistryTypes', Registry!WireInv, Registry!WireInv', Registry!ListenInv,
         Registry!BindInv, Registry!MapInv, PhaseInv, [Next]_vars
  PROVE  Registry!MapInv'
<1> SUFFICES ASSUME listening', NEW id \in Ids  PROVE MapOf(id)'
  BY DEF Registry!MapInv, MapOf, Tells
<1>0. /\ Len(events) \in Nat /\ DOMAIN events \subseteq Nat /\ DOMAIN events' \subseteq Nat
      /\ \A i \in DOMAIN events : events[i] \in Registry!Events /\ 1 <= i
      /\ id # OwnId /\ id \in Registry!AllIds /\ graph[id] # Own
  BY DEF Registry!WireInv, Registry!AllIds
<1>1. ASSUME listening, UNCHANGED <<graph, devices, events>>  PROVE MapOf(id)'
  <2>1. MapOf(id)
    BY <1>1, MapParts
  <2>2. QED
    BY <1>1, <2>1 DEF MapOf, Tells, Registry!Quiet, Registry!About
<1>2. ASSUME NEW k \in Ids, NEW e \in Registry!Events, Registry!IfListening(<<e>>),
             UNCHANGED <<devices, listening>>,
             \A d \in Ids \ {k} : graph'[d] = graph[d],
             e.kind \in {"added", "removed"} /\ e.id = k,
             graph'[k] = IF e.kind = "added" THEN e.name ELSE None
      PROVE  MapOf(id)'
  <2>1. listening /\ MapOf(id)
    BY <1>2, MapParts
  <2>2. /\ Len(events) + 1 \in DOMAIN events' /\ events'[Len(events) + 1] = e
        /\ \A i \in DOMAIN events : i \in DOMAIN events' /\ events'[i] = events[i] /\ i <= Len(events)
        /\ \A i \in DOMAIN events' : i \in DOMAIN events \/ (i = Len(events) + 1 /\ events'[i] = e)
    BY <1>2, <2>1, IfListeningIs
  <2>3. EventsGrow
    BY <1>0, <2>2 DEF EventsGrow
  <2>4. Len(events) + 1 \notin DOMAIN events
    BY <1>0, <2>2
  <2>5. \A i \in DOMAIN events' :
          i \in DOMAIN events \/ (Registry!About(i, id)' => Tells(i)' = graph'[id])
    BY <1>2, <2>2 DEF Registry!About, Tells
  <2>6. PICK m \in DOMAIN events' : m = Len(events) + 1
    BY <2>2
  <2>7. id = k => m \notin DOMAIN events /\ Registry!About(m, id)'
    BY <1>2, <2>2, <2>4, <2>6 DEF Registry!About
  <2>8. QED
    BY <1>2, <2>1, <2>3, <2>5, <2>7, MapKept
<1>3. ASSUME NEW k \in Ids, NEW n \in Names, Registry!PlugIn(k, n)  PROVE MapOf(id)'
  <2> DEFINE e == Registry!Added(k, n)
  <2>1. e \in Registry!Events /\ e.kind = "added" /\ e.id = k /\ e.name = n
    BY TellsEvents DEF Registry!Added
  <2>2. /\ Registry!IfListening(<<e>>) /\ UNCHANGED <<devices, listening>>
        /\ graph' = [graph EXCEPT ![k] = n]
    BY <1>3 DEF Registry!PlugIn, Registry!registryVars
  <2> HIDE DEF e
  <2>3. (\A d \in Ids \ {k} : graph'[d] = graph[d]) /\ graph'[k] = n
    BY <2>2 DEF RegistryTypes, Registry!AllIds
  <2>4. QED
    BY <1>2, <2>1, <2>2, <2>3
<1>4. ASSUME NEW k \in Ids, Registry!Unplug(k)  PROVE MapOf(id)'
  <2> DEFINE e == Registry!Removed(k)
  <2>1. e \in Registry!Events /\ e.kind = "removed" /\ e.id = k
    BY TellsEvents DEF Registry!Removed
  <2>2. /\ Registry!IfListening(<<e>>) /\ UNCHANGED <<devices, listening>>
        /\ graph' = [graph EXCEPT ![k] = None]
    BY <1>4 DEF Registry!Unplug, Registry!registryVars
  <2> HIDE DEF e
  <2>3. (\A d \in Ids \ {k} : graph'[d] = graph[d]) /\ graph'[k] = None
    BY <2>2 DEF RegistryTypes, Registry!AllIds
  <2>4. QED
    BY <1>2, <2>1, <2>2, <2>3
<1>5. ASSUME listening, EventsGrow, UNCHANGED <<graph, devices>>,
             \A i \in DOMAIN events' :
               i \in DOMAIN events \/ events'[i].kind \notin {"added", "removed"}
      PROVE  MapOf(id)'
  <2>1. MapOf(id)
    BY <1>5, MapParts
  <2>2. \A i \in DOMAIN events' : i \in DOMAIN events \/ ~Registry!About(i, id)'
    BY <1>5 DEF Registry!About
  <2>3. QED
    BY <1>5, <2>1, <2>2, MapKept
<1>6. CASE Registry!PublishMetadata
  <2>1. /\ Registry!IfListening(<<Registry!Metadata>>)
        /\ UNCHANGED <<graph, devices, listening>>
    BY <1>6 DEF Registry!PublishMetadata, Registry!registryVars
  <2>2. EventsGrow /\ \A i \in DOMAIN events' :
                        i \in DOMAIN events \/ events'[i] = Registry!Metadata
    BY <1>0, <2>1, IfListeningIs, TellsEvents DEF EventsGrow
  <2>3. QED
    BY <1>5, <2>1, <2>2, Kinds
<1>7. ASSUME NEW v \in Names \cup {Own, None}, Registry!Configure(v),
             UNCHANGED <<graph, devices, listening>>
      PROVE  MapOf(id)'
  <2>1. EventsGrow /\ \A i \in DOMAIN events' :
                        i \in DOMAIN events \/ events'[i] = Registry!Property(v)
    BY <1>0, <1>7, ConfigureIs DEF EventsGrow
  <2>2. QED
    BY <1>5, <1>7, <2>1, Kinds
<1>8. CASE \E n \in Names : Registry!UserConfigures(n)
  BY <1>7, <1>8 DEF Registry!UserConfigures, Registry!registryVars
<1>9. CASE Registry!ServerStep
  <2>1. requests[1] \in Registry!Requests /\ 1 \in DOMAIN requests /\ UNCHANGED <<graph, devices>>
    BY <1>9, ServerStepIs
  <2>2. CASE requests[1].kind = "registry"
    <3>1. events = << >> /\ devices[id] = None
      BY <1>0, <2>1, <2>2 DEF Registry!ListenInv, Registry!Empty
    <3>2. events' = << >> \o Registry!Globals
      BY <1>9, <2>2, <3>1, ServerStepIs DEF Registry!Told
    <3>3. Registry!Globals \in Seq(Registry!Events)
      BY GlobalsAre DEF RegistryTypes
    <3>4. events' = Registry!Globals
      BY <3>2, <3>3
    <3>5. ASSUME NEW i \in DOMAIN events', Registry!About(i, id)'
          PROVE  events'[i] = Registry!Added(id, graph[id])
      <4>1. \/ events'[i] = Registry!Metadata
            \/ \E k \in Registry!AllIds : events'[i] = Registry!Added(k, graph[k])
        BY <3>4, GlobalsAre DEF RegistryTypes
      <4>2. events'[i].kind \in {"added", "removed"} /\ events'[i].id = id
        BY <3>5 DEF Registry!About
      <4>3. QED
        BY <4>1, <4>2, Kinds DEF Registry!Added
    <3>6. Registry!Quiet(id)' => graph[id] = None
      <4> SUFFICES ASSUME graph[id] # None
                   PROVE  \E i \in DOMAIN events' : Registry!About(i, id)'
        BY DEF Registry!Quiet
      <4>1. PICK i \in DOMAIN events' : events'[i] = Registry!Added(id, graph[id])
        BY <3>4, GlobalsAre DEF RegistryTypes
      <4>2. QED
        BY <4>1 DEF Registry!About, Registry!Added
    <3>7. \A i \in DOMAIN events' : Registry!About(i, id)' => Tells(i)' = graph[id]
      BY <3>5 DEF Tells, Registry!Added
    <3>8. QED
      BY <2>1, <3>1, <3>6, <3>7 DEF MapOf
  <2>3. CASE requests[1].kind # "registry"
    <3>1. UNCHANGED listening
      BY <1>9, <2>3, ServerStepIs
    <3>2. ASSUME NEW evs \in Seq(Registry!Events), Registry!Told(evs),
                 \A i \in DOMAIN evs : evs[i].kind \notin {"added", "removed"}
          PROVE  MapOf(id)'
      <4>1. EventsGrow /\ \A i \in DOMAIN events' :
                            i \in DOMAIN events \/ events'[i].kind \notin {"added", "removed"}
        BY <1>0, <3>2, ToldIs DEF EventsGrow
      <4>2. QED
        BY <1>5, <2>1, <3>1, <4>1
    <3>3. ASSUME NEW e \in Registry!Events, Registry!Told(<<e>>),
                 e.kind \notin {"added", "removed"}
          PROVE  MapOf(id)'
      <4>1. <<e>> \in Seq(Registry!Events) /\ \A i \in DOMAIN <<e>> : <<e>>[i] = e
        OBVIOUS
      <4>2. QED
        BY <3>2, <3>3, <4>1
    <3>4. CASE requests[1].kind = "sync"
      BY <1>9, <2>1, <3>3, <3>4, RequestIs, ServerStepIs, TellsEvents, Kinds
    <3>5. CASE requests[1].kind = "bind"
      <4>1. PICK d \in Registry!Dump : Registry!Told(d)
        BY <1>9, <3>5, ServerStepIs
      <4>2. \/ d = <<Registry!Property(configured)>> \/ d = <<Registry!Property(None)>>
            \/ d = << >>
        BY Zenon DEF Registry!Dump
      <4>3. CASE d = << >>
        <5>1. d \in Seq(Registry!Events) /\ DOMAIN d = {}
          BY <4>3
        <5>2. QED
          BY <3>2, <4>1, <5>1
      <4>4. CASE d # << >>
        BY <3>3, <4>1, <4>2, <4>4, TellsEvents, Kinds DEF RegistryTypes
      <4>5. QED
        BY <4>3, <4>4
    <3>6. CASE requests[1].kind = "set"
      <4>1. Registry!Configure(requests[1].value)
        BY <1>9, <3>6, ServerStepIs
      <4>2. requests[1].value \in Names \cup {Own, None}
        BY <2>1, <3>6, RequestIs
      <4>3. QED
        BY <1>7, <2>1, <3>1, <4>1, <4>2
    <3>7. QED
      BY <2>1, <2>3, <3>4, <3>5, <3>6, RequestIs
  <2>4. QED
    BY <2>2, <2>3
<1>10. CASE Registry!Dispatch
  <2>1. /\ 1 \in DOMAIN events /\ events[1] \in Registry!Events
        /\ \A i \in DOMAIN events' :
             i + 1 \in DOMAIN events /\ i + 1 > 1 /\ events'[i] = events[i + 1]
        /\ \A i \in DOMAIN events :
             i = 1 \/ (i - 1 \in DOMAIN events' /\ events'[i - 1] = events[i])
        /\ UNCHANGED <<graph, listening>>
    BY <1>10, DispatchIs
  <2>2. MapOf(id)
    BY <2>1, MapParts
  <2>3. \A i \in DOMAIN events' : /\ Registry!About(i, id)' <=> Registry!About(i + 1, id)
                                  /\ Tells(i)' = Tells(i + 1)
    BY <2>1 DEF Registry!About, Tells
  <2>4. ASSUME NEW i \in DOMAIN events', Registry!About(i, id)',
               \A j \in DOMAIN events' : j > i => ~Registry!About(j, id)'
        PROVE  graph'[id] = Tells(i)'
    <3>1. i + 1 \in DOMAIN events /\ Registry!About(i + 1, id)
      BY <2>1, <2>3, <2>4
    <3>2. ASSUME NEW j \in DOMAIN events, j > i + 1  PROVE ~Registry!About(j, id)
      <4>1. j # 1 /\ j - 1 \in DOMAIN events' /\ j - 1 > i /\ (j - 1) + 1 = j
        BY <1>0, <2>1, <3>2
      <4>2. QED
        BY <2>3, <2>4, <4>1
    <3>3. QED
      BY <2>1, <2>2, <2>3, <3>1, <3>2 DEF MapOf
  <2>5. ASSUME Registry!Quiet(id)'  PROVE devices'[id] = graph'[id]
    <3>1. \A j \in DOMAIN events : j # 1 => ~Registry!About(j, id)
      <4> SUFFICES ASSUME NEW j \in DOMAIN events, j # 1  PROVE ~Registry!About(j, id)
        OBVIOUS
      <4>1. j - 1 \in DOMAIN events' /\ (j - 1) + 1 = j
        BY <1>0, <2>1
      <4>2. QED
        BY <2>3, <2>5, <4>1 DEF Registry!Quiet
    <3>2. CASE Registry!About(1, id)
      <4>1. graph[id] = Tells(1)
        BY <1>0, <2>1, <2>2, <3>1, <3>2 DEF MapOf
      <4>2. devices'[id] = Tells(1)
        <5>1. CASE events[1].kind = "added"
          <6>1. events[1].id = id /\ events[1].name \in Names
            BY <1>0, <2>1, <3>2, <5>1, EventIs DEF Registry!About
          <6>2. Registry!AddSink(events[1].id, events[1].name)
            BY <1>10, <5>1, DispatchIs
          <6>3. devices' = [devices EXCEPT ![id] = events[1].name]
            BY <6>1, <6>2 DEF Registry!AddSink
          <6>4. QED
            BY <1>0, <5>1, <6>3 DEF Tells, RegistryTypes
        <5>2. CASE events[1].kind = "removed"
          <6>1. devices' = [devices EXCEPT ![id] = None]
            BY <1>10, <3>2, <5>2, DispatchIs DEF Registry!HandleGlobalRemoved, Registry!About
          <6>2. QED
            BY <1>0, <5>2, <6>1 DEF Tells, RegistryTypes
        <5>3. QED
          BY <3>2, <5>1, <5>2 DEF Registry!About
      <4>3. QED
        BY <2>1, <4>1, <4>2
    <3>3. CASE ~Registry!About(1, id)
      <4>1. devices[id] = graph[id]
        BY <2>2, <3>1, <3>3 DEF MapOf, Registry!Quiet
      <4>2. devices'[id] = devices[id]
        <5>1. CASE events[1].kind = "added"
          <6>1. Registry!AddSink(events[1].id, events[1].name) /\ events[1].id # id
            BY <1>10, <3>3, <5>1, DispatchIs DEF Registry!About
          <6>2. QED
            BY <1>0, <6>1 DEF Registry!AddSink, RegistryTypes
        <5>2. CASE events[1].kind = "removed"
          <6>1. devices' = [devices EXCEPT ![events[1].id] = None] /\ events[1].id # id
            BY <1>10, <3>3, <5>2, DispatchIs DEF Registry!HandleGlobalRemoved, Registry!About
          <6>2. QED
            BY <1>0, <6>1 DEF RegistryTypes
        <5>3. CASE events[1].kind \notin {"added", "removed"}
          BY <1>10, <5>3, DispatchIs
        <5>4. QED
          BY <5>1, <5>2, <5>3
      <4>3. QED
        BY <2>1, <4>1, <4>2
    <3>4. QED
      BY <3>2, <3>3
  <2>6. QED
    BY <2>4, <2>5 DEF MapOf
<1>11. CASE Registry!EndSync \/ Registry!OwnSinkAppears
  <2>1. UNCHANGED <<listening, devices, events>> /\ graph'[id] = graph[id]
    BY <1>0, <1>11 DEF Registry!EndSync, Registry!OwnSinkAppears, Registry!serverVars,
                       Registry!wireVars, Registry!registryVars, RegistryTypes
  <2>2. MapOf(id)
    BY <2>1, MapParts
  <2>3. QED
    BY <2>1, <2>2 DEF MapOf, Tells, Registry!Quiet, Registry!About
<1>12. CASE Registry!Start /\ phase = "registry"
  BY <1>12 DEF PhaseInv, Registry!ListenInv, Registry!Start
<1>13. CASE Registry!RestorePreviousDefaultSink /\ Registry!Restorable
  BY <1>1, <1>13, RestoreIs
<1>14. CASE Registry!Vanish
  BY <1>14 DEF Registry!Vanish, Registry!Disconnected
<1>15. CASE UNCHANGED registryVars
  BY <1>1, <1>15 DEF registryVars
<1>16. QED
  BY <1>3, <1>4, <1>6, <1>8, <1>9, <1>10, <1>11, <1>12, <1>13, <1>14, <1>15, RegistrySteps

-----------------------------------------------------------------------------
(* The output's switches *)

\* Every step is one of the output's.
LEMMA OutputSteps ==
  ASSUME [Next]_vars
  PROVE  \/ UNCHANGED outputVars
         \/ /\ phase = "output" /\ saved' = InitialOutputDevice
            /\ \E ok \in BOOLEAN : Output!Start(saved', ok)
         \/ \E ok \in BOOLEAN : Output!ReconnectOnLoopThread(ok)
         \/ \E c \in Clients, n \in Nameable : Output!Compare(c, n)
         \/ \E c \in Clients : Output!BeginAssign(c) \/ Output!EndAssign(c) \/ Output!Invoke(c)
         \/ \E c \in Clients : Output!Return(c)
         \/ Output!Gone
BY DEF Next, vars, Begin, Run, StartSink, StartRegistry, EndInitialSync, StartOutput, StartServer,
       StopServer, RestorePreviousDefaultSink, EndRestore, Release, Ended, LoopEvent, LoopInvoke,
       LoopSignal, Server, ClientBegins, ClientSwitches, ClientReturns, Kill, SessionChanges,
       Signal, Output!SetTargetNodeStep

\* The output's types, one variable at a time; who waits is who is queued.
OutputTypes ==
  /\ name \in Nameable \cup {Torn, None} /\ target \in Nameable \cup {Torn, None}
  /\ stream \in {"none", "connected", "disconnected"}

Queued == \A c \in Clients : Output!At(c, "wait") <=> \E i \in DOMAIN invokes : invokes[i] = c

OutputFlags == raced \in BOOLEAN /\ failed \in BOOLEAN

\* HardwareOutput's TypeOK is these three.
LEMMA OutputTyped ==
  Output!QueueInv => (Output!TypeOK <=> OutputTypes /\ Queued /\ OutputFlags)
<1> SUFFICES ASSUME Output!QueueInv
             PROVE  Output!TypeOK <=> OutputTypes /\ Queued /\ OutputFlags
  OBVIOUS
<1>1. \A c \in Clients :
        /\ switch[c].step \in {"idle", "begin", "assign", "invoke", "wait", "done"}
        /\ switch[c].name \in Nameable \cup {None}
  BY DEF Output!QueueInv
<1>2. {raced, failed} \subseteq BOOLEAN <=> OutputFlags
  BY Zenon DEF OutputFlags
<1>3. QED
  BY <1>1, <1>2 DEF Output!TypeOK, OutputTypes, Queued

\* A read of the string gives a name, or what tore.
LEMMA ReadsAre ==
  ASSUME OutputTypes, Output!QueueInv
  PROVE  /\ Output!Reads \subseteq Nameable \cup {Torn, None}
         /\ Output!Assigning = {} => Output!Reads = {name}
BY DEF OutputTypes, Output!QueueInv, Output!Reads, Output!Assigning, Output!At

\* A queue that grows by one who is not in it.
LEMMA AppendIs ==
  ASSUME NEW S, NEW s \in Seq(S), NEW e \in S
  PROVE  /\ Append(s, e) \in Seq(S) /\ Len(s) \in Nat
         /\ \A i \in DOMAIN s : i \in DOMAIN Append(s, e) /\ Append(s, e)[i] = s[i] /\ i # Len(s) + 1
         /\ Len(s) + 1 \in DOMAIN Append(s, e) /\ Append(s, e)[Len(s) + 1] = e
         /\ \A i \in DOMAIN Append(s, e) : i \in DOMAIN s \/ i = Len(s) + 1
OBVIOUS

\* Who waits is queued once, and the stream is pinned to the name once nobody
\* changes it.
LEMMA OutputStep ==
  ASSUME OutputTypes, Queued, Output!QueueInv, Output!PinInv, InitialOutputDevice \in Nameable,
         [Next]_vars
  PROVE  OutputTypes' /\ Queued' /\ Output!QueueInv' /\ Output!PinInv'
<1> DEFINE Switches == [step : {"idle", "begin", "assign", "invoke", "wait", "done"},
                        name : Nameable \cup {None}, ok : BOOLEAN]
           P        == OutputTypes' /\ Queued' /\ Output!QueueInv' /\ Output!PinInv'
<1>0. switch \in [Clients -> Switches] /\ invokes \in Seq(Clients)
  BY DEF Output!QueueInv
<1> USE DEF OutputTypes, Queued, Output!QueueInv, Output!PinInv, Output!At
<1>1. CASE UNCHANGED outputVars
  BY <1>1 DEF outputVars
<1>2. ASSUME saved' = InitialOutputDevice, NEW ok \in BOOLEAN, Output!Start(saved', ok)  PROVE P
  BY <1>2 DEF Output!Start, Output!Connect
<1>3. ASSUME NEW ok \in BOOLEAN, Output!ReconnectOnLoopThread(ok)  PROVE P
  <2> DEFINE c == Head(invokes)
  <2>1. /\ c = invokes[1] /\ c \in Clients /\ 1 \in DOMAIN invokes
        /\ invokes' \in Seq(Clients)
        /\ \A i \in DOMAIN invokes' :
             i + 1 \in DOMAIN invokes /\ i + 1 > 1 /\ invokes'[i] = invokes[i + 1]
        /\ \A i \in DOMAIN invokes :
             i = 1 \/ (i - 1 \in DOMAIN invokes' /\ invokes'[i - 1] = invokes[i])
    BY <1>0, <1>3, TailIs DEF Output!ReconnectOnLoopThread
  <2>2. /\ switch' = [switch EXCEPT ![c].step = "done", ![c].ok = ok]
        /\ target' \in Output!Reads /\ raced' = (raced \/ Output!Assigning # {})
        /\ stream' = IF ok THEN "connected" ELSE "disconnected"
        /\ failed' = ~ok /\ UNCHANGED name
    BY <1>3 DEF Output!ReconnectOnLoopThread, Output!Wake, Output!Connect, Output!Targets
  <2> HIDE DEF c
  <2>3. /\ \A d \in Clients : d # c => switch'[d] = switch[d]
        /\ switch'[c].step = "done" /\ switch'[c].name = switch[c].name
        /\ switch' \in [Clients -> Switches]
    <3> DEFINE marked == [switch EXCEPT ![c].step = "done"]
    <3>1. /\ marked \in [Clients -> Switches] /\ marked[c].step = "done"
          /\ marked[c].name = switch[c].name
          /\ \A d \in Clients : d # c => marked[d] = switch[d]
      <4> HIDE DEF P
      <4>1. c \in Clients
        BY <2>1
      <4>2. QED
        BY <1>0, <4>1
    <3>2. switch' = [marked EXCEPT ![c].ok = ok]
      BY <2>2
    <3> HIDE DEF marked
    <3>3. QED
      BY <2>1, <3>1, <3>2
  <2>4. switch[c].step = "wait"
    BY <2>1
  <2>5. /\ DOMAIN invokes' \subseteq Nat
        /\ \A i \in DOMAIN invokes' : invokes'[i] # c
        /\ \A i, j \in DOMAIN invokes' : invokes'[i] = invokes'[j] => i = j
    <3>1. \A i \in DOMAIN invokes' : i + 1 \in DOMAIN invokes /\ i + 1 # 1
      BY <2>1
    <3>2. \A i, j \in DOMAIN invokes' : invokes'[i] = invokes'[j] => i + 1 = j + 1
      BY <2>1, <3>1
    <3>3. DOMAIN invokes' \subseteq Nat
      BY <2>1
    <3>4. QED
      BY <2>1, <3>1, <3>2, <3>3
  <2>6. \A d \in Clients : switch'[d].step = "wait" <=> \E i \in DOMAIN invokes' : invokes'[i] = d
    <3>1. ASSUME NEW d \in Clients, d # c
          PROVE  (\E i \in DOMAIN invokes : invokes[i] = d)
                   <=> \E i \in DOMAIN invokes' : invokes'[i] = d
      <4>1. ASSUME NEW i \in DOMAIN invokes, invokes[i] = d
            PROVE  \E j \in DOMAIN invokes' : invokes'[j] = d
        BY <2>1, <3>1, <4>1
      <4>2. ASSUME NEW i \in DOMAIN invokes', invokes'[i] = d
            PROVE  \E j \in DOMAIN invokes : invokes[j] = d
        BY <2>1, <4>2
      <4>3. QED
        BY <4>1, <4>2
    <3>2. QED
      BY <2>1, <2>3, <2>5, <3>1
  <2>7. target' \in Nameable \cup {Torn, None} /\ (~raced' => target' = name')
    <3>1. ~raced' => Output!Assigning = {}
      BY <2>2, Zenon
    <3>2. QED
      BY <2>2, <3>1, ReadsAre
  <2>8. Output!PinInv'
    <3>1. stream' # "none" => stream' = "connected" \/ failed'
      BY <2>2, Zenon
    <3>2. QED
      BY <2>7, <3>1
  <2>9. \A d \in Clients : switch'[d].step # "idle" => switch'[d].name \in Nameable
    BY <2>3, <2>4
  <2>10. Output!QueueInv'
    BY <2>1, <2>3, <2>5, <2>9
  <2>11. QED
    BY <2>2, <2>6, <2>7, <2>8, <2>10
<1>4. ASSUME NEW c \in Clients, NEW n \in Nameable, Output!Compare(c, n)  PROVE P
  <2>1. PICK read \in Output!Reads :
          switch' = [switch EXCEPT ![c] = [step |-> IF read = n THEN "done" ELSE "begin",
                                           name |-> n, ok |-> read = n]]
    BY <1>4 DEF Output!Compare
  <2>2. /\ switch[c].step = "idle" /\ UNCHANGED <<name, stream, target, invokes, failed>>
        /\ raced' = (raced \/ Output!Assigning # {})
    BY <1>4 DEF Output!Compare
  <2>3. [step |-> IF read = n THEN "done" ELSE "begin", name |-> n, ok |-> read = n] \in Switches
    OBVIOUS
  <2>4. /\ \A d \in Clients : d # c => switch'[d] = switch[d]
        /\ switch'[c].step \in {"done", "begin"} /\ switch'[c].name = n
        /\ switch' \in [Clients -> Switches]
    BY <1>0, <2>1, <2>3
  <2>5. \A d \in Clients :
          /\ switch'[d].step = "wait" <=> switch[d].step = "wait"
          /\ switch'[d].step # "idle" => switch'[d].name \in Nameable
          /\ switch[d].step \in {"assign", "invoke", "wait"} =>
               switch'[d].step \in {"assign", "invoke", "wait"}
    BY <2>2, <2>4
  <2>6. ~raced' => ~raced
    BY <2>2, Zenon
  <2>7. Output!PinInv' /\ Output!QueueInv'
    BY <2>2, <2>4, <2>5, <2>6
  <2>8. Queued'
    BY <2>2, <2>5
  <2>9. QED
    BY <2>2, <2>7, <2>8
<1>5. ASSUME NEW c \in Clients, Output!BeginAssign(c)  PROVE P
  BY <1>0, <1>5 DEF Output!BeginAssign, Output!To
<1>6. ASSUME NEW c \in Clients, Output!EndAssign(c)  PROVE P
  <2>1. /\ switch[c].step = "assign" /\ switch' = [switch EXCEPT ![c].step = "invoke"]
        /\ name' \in {switch[c].name, Torn}
        /\ UNCHANGED <<stream, target, invokes, raced, failed>>
    BY <1>6 DEF Output!EndAssign, Output!To
  <2>2. name' \in Nameable \cup {Torn, None}
    BY <1>0, <2>1
  <2>3. /\ \A d \in Clients : d # c => switch'[d] = switch[d]
        /\ switch'[c].step = "invoke" /\ switch'[c].name = switch[c].name
        /\ switch' \in [Clients -> Switches]
    BY <1>0, <2>1
  <2>4. Queued' /\ Output!QueueInv'
    BY <2>1, <2>3
  <2>5. QED
    BY <2>1, <2>2, <2>3, <2>4
<1>7. ASSUME NEW c \in Clients, Output!Invoke(c)  PROVE P
  <2>1. /\ switch[c].step = "invoke" /\ switch' = [switch EXCEPT ![c].step = "wait"]
        /\ invokes' = Append(invokes, c)
        /\ UNCHANGED <<name, stream, target, raced, failed>>
    BY <1>7 DEF Output!Invoke, Output!To
  <2>2. /\ invokes' \in Seq(Clients)
        /\ \A i \in DOMAIN invokes :
             i \in DOMAIN invokes' /\ invokes'[i] = invokes[i] /\ i # Len(invokes) + 1
        /\ Len(invokes) + 1 \in DOMAIN invokes' /\ invokes'[Len(invokes) + 1] = c
        /\ \A i \in DOMAIN invokes' : i \in DOMAIN invokes \/ i = Len(invokes) + 1
    BY <1>0, <2>1, AppendIs
  <2>3. /\ \A d \in Clients : d # c => switch'[d] = switch[d]
        /\ switch'[c].step = "wait" /\ switch'[c].name = switch[c].name
        /\ switch' \in [Clients -> Switches]
    BY <1>0, <2>1
  <2>4. \A i \in DOMAIN invokes : invokes[i] # c
    BY <2>1
  <2>5. \A i, j \in DOMAIN invokes' : invokes'[i] = invokes'[j] => i = j
    BY <2>2, <2>4
  <2>6. ASSUME NEW d \in Clients
        PROVE  switch'[d].step = "wait" <=> \E i \in DOMAIN invokes' : invokes'[i] = d
    <3>1. CASE d = c
      BY <2>2, <2>3, <3>1
    <3>2. CASE d # c
      <4>1. (\E i \in DOMAIN invokes : invokes[i] = d)
              <=> \E i \in DOMAIN invokes' : invokes'[i] = d
        BY <2>2, <3>2
      <4>2. QED
        BY <2>3, <3>2, <4>1
    <3>3. QED
      BY <3>1, <3>2
  <2>7. QED
    BY <2>1, <2>2, <2>3, <2>5, <2>6
<1>8. ASSUME NEW c \in Clients, Output!Return(c)  PROVE P
  BY <1>0, <1>8 DEF Output!Return, Output!Idle
<1>9. CASE Output!Gone
  BY <1>9 DEF Output!Gone, Output!Idle
<1>10. QED
  BY <1>1, <1>2, <1>3, <1>4, <1>5, <1>6, <1>7, <1>8, <1>9, OutputSteps

-----------------------------------------------------------------------------
(* Run's own variables *)

\* The device the output is started on is a sink's name, and the saved one if it
\* is known.
LEMMA InitialDeviceIs ==
  ASSUME RegistryTypes
  PROVE  /\ InitialOutputDevice \in Names
         /\ saved # None /\ Registry!HasDevice(saved) => InitialOutputDevice = saved
<1> DEFINE known == {id \in Registry!AllIds : devices[id] # None}
<1>1. saved # None /\ Registry!HasDevice(saved) => saved \in Names
  BY SameOperators DEF Registry!HasDevice, ToSet, RegistryTypes
<1>2. Registry!PickAnyDevice # None => Registry!PickAnyDevice \in Names
  <2> SUFFICES ASSUME known # {}  PROVE devices[Min(known)] \in Names
    BY SameOperators DEF Registry!PickAnyDevice
  <2>1. IsFiniteSet(known) /\ known \in SUBSET Nat
    <3>1. IsFiniteSet(Ids \cup {OwnId})
      BY FS_AddElement
    <3>2. known \in SUBSET (Ids \cup {OwnId})
      BY DEF Registry!AllIds
    <3>3. QED
      BY <3>1, <3>2, FS_Subset
  <2>2. Min(known) \in known
    <3> HIDE DEF known
    <3>1. QED
      BY <2>1, MinIs
  <2>3. QED
    BY <2>2 DEF RegistryTypes
<1>3. QED
  BY <1>1, <1>2 DEF InitialOutputDevice

\* The types, one variable at a time.
LifeTypes ==
  /\ phase \in Phases
  /\ saved \in Nameable \cup {Torn, None} /\ wanted \in Names \cup {None}

LifeFlags ==
  /\ socketFile \in BOOLEAN /\ asked \in BOOLEAN /\ abandoned \in BOOLEAN /\ fault \in BOOLEAN
  /\ forgotten \in BOOLEAN /\ synced \in BOOLEAN /\ gaveUp \in BOOLEAN /\ meddled \in BOOLEAN
  /\ named \in BOOLEAN

\* TypeOK is its modules' types and these.
LEMMA LifeTyped ==
  TypeOK <=> Registry!TypeOK /\ Output!TypeOK /\ LifeTypes /\ LifeFlags
<1>1. {socketFile, asked, abandoned, fault, forgotten, synced, gaveUp, meddled, named}
        \subseteq BOOLEAN <=> LifeFlags
  BY Zenon DEF LifeFlags
<1>2. QED
  BY <1>1, Zenon DEF TypeOK, LifeTypes

\* The actions, one by one.
LEMMA Actions ==
  ASSUME [Next]_vars
  PROVE  \/ UNCHANGED vars
         \/ Begin \/ StartSink \/ StartRegistry \/ EndInitialSync \/ StartOutput \/ StartServer
         \/ LoopEvent \/ LoopInvoke \/ LoopSignal
         \/ StopServer \/ RestorePreviousDefaultSink \/ EndRestore \/ Release \/ Kill
         \/ Server \/ SessionChanges \/ Signal
         \/ \E c \in Clients : ClientBegins(c) \/ ClientSwitches(c) \/ ClientReturns(c)
BY DEF Next, Run

\* What Run keeps for itself keeps its type.
LEMMA LifeStep ==
  ASSUME RegistryTypes, Registry!WireInv, OutputTypes, Output!QueueInv, LifeTypes, LifeFlags,
         [Next]_vars
  PROVE  LifeTypes' /\ LifeFlags'
<1>1. LifeTypes'
  <2> USE DEF LifeTypes, Phases
  <2>1. CASE UNCHANGED vars \/ Begin \/ LoopEvent \/ LoopInvoke \/ LoopSignal \/ Server \/ Signal
    BY <2>1 DEF vars, bootVars, fileVars, Begin, LoopEvent, LoopInvoke, LoopSignal, Server, Signal
  <2>2. CASE StartSink \/ EndInitialSync \/ StartServer \/ StopServer
               \/ RestorePreviousDefaultSink \/ EndRestore
    BY <2>2 DEF bootVars, fileVars, StartSink, EndInitialSync, StartServer, StopServer,
                RestorePreviousDefaultSink, EndRestore, Broken, Fail
  <2>3. CASE StartRegistry
    <3>1. \A id \in Ids : graph[id] = saved => saved \in Names \cup {None}
      BY DEF RegistryTypes, Registry!WireInv
    <3>2. QED
      BY <2>3, <3>1 DEF fileVars, StartRegistry, Broken, Fail
  <2>4. CASE StartOutput
    BY <2>4, InitialDeviceIs DEF StartOutput, Broken, Fail, Nameable
  <2>5. CASE Release \/ Kill
    BY <2>5 DEF Release, Kill, Ended, fileVars
  <2>6. CASE SessionChanges
    BY <2>6 DEF SessionChanges, fileVars
  <2>7. CASE \E c \in Clients : ClientBegins(c) \/ ClientSwitches(c) \/ ClientReturns(c)
    BY <2>7, ReadsAre DEF ClientBegins, ClientSwitches, ClientReturns, bootVars, fileVars
  <2>8. QED
    BY <2>1, <2>2, <2>3, <2>4, <2>5, <2>6, <2>7, Actions
<1>2. LifeFlags'
  <2> USE DEF LifeFlags, bootVars, fileVars, signalVars, handVars
  <2>1. CASE UNCHANGED vars \/ Begin \/ LoopEvent \/ LoopInvoke \/ LoopSignal \/ Server \/ Signal
    BY <2>1 DEF vars, Begin, LoopEvent, LoopInvoke, LoopSignal, Server, Signal
  <2>2. CASE StartSink \/ StartRegistry \/ EndInitialSync \/ StartOutput \/ StartServer
    BY <2>2 DEF StartSink, StartRegistry, EndInitialSync, StartOutput, StartServer, Broken, Fail,
                Unlink
  <2>3. CASE StopServer \/ RestorePreviousDefaultSink \/ EndRestore \/ Release \/ Kill
    BY <2>3 DEF StopServer, RestorePreviousDefaultSink, EndRestore, Release, Kill, Ended
  <2>4. CASE SessionChanges
    <3>1. meddled' = meddled \/ meddled' = (meddled \/ phase \in {"handback", "release"})
      BY <2>4 DEF SessionChanges
    <3>2. meddled' \in BOOLEAN
      BY <3>1, Zenon
    <3>3. QED
      BY <2>4, <3>2 DEF SessionChanges
  <2>5. CASE \E c \in Clients : ClientBegins(c) \/ ClientSwitches(c) \/ ClientReturns(c)
    <3>1. named' \in BOOLEAN
      BY <2>5, Zenon DEF ClientBegins, ClientSwitches, ClientReturns
    <3>2. QED
      BY <2>5, <3>1 DEF ClientBegins, ClientSwitches, ClientReturns
  <2>6. QED
    BY <2>1, <2>2, <2>3, <2>4, <2>5, Actions
<1>3. QED
  BY <1>1, <1>2

\* What each phase stands on.
LEMMA PhaseStep ==
  ASSUME RegistryTypes, Registry!WireInv, LifeTypes, LifeFlags, Registry!ListenInv, PhaseInv,
         [Next]_vars
  PROVE  PhaseInv'
<1> USE DEF PhaseInv, bootVars, fileVars, signalVars, handVars, registryVars, outputVars
<1>1. CASE UNCHANGED vars \/ Begin \/ LoopSignal \/ Signal
  BY <1>1 DEF vars, Begin, LoopSignal, Signal, Registry!InitialSync, Registry!RestoreSync
<1>2. CASE StartSink
  BY <1>2 DEF StartSink, Broken, Fail, Registry!OwnSinkAppears, Registry!registryVars,
              Registry!syncVars
<1>3. CASE StartRegistry
  BY <1>3 DEF StartRegistry, Broken, Fail, Registry!Start, Registry!AwaitCore
<1>4. CASE EndInitialSync
  BY <1>4 DEF EndInitialSync, Registry!EndSync, Registry!registryVars
<1>5. CASE StartOutput
  BY <1>5 DEF StartOutput, Broken, Fail, Output!Start, Output!Connect
<1>6. CASE StartServer
  BY <1>6 DEF StartServer, Broken, Fail, Unlink
<1>7. CASE LoopEvent
  BY <1>7 DEF LoopEvent, Iterating, Registry!Dispatch
<1>8. CASE LoopInvoke
  BY <1>8 DEF LoopInvoke, Iterating, Output!ReconnectOnLoopThread, Output!Connect
<1>9. CASE StopServer
  BY <1>9 DEF StopServer
<1>10. CASE RestorePreviousDefaultSink
  BY <1>10 DEF RestorePreviousDefaultSink, Registry!RestorePreviousDefaultSink,
               Registry!AwaitCore, Registry!registryVars
<1>11. CASE EndRestore
  BY <1>11 DEF EndRestore, Registry!EndSync, Registry!registryVars
<1>12. CASE Release \/ Kill
  BY <1>12 DEF Release, Kill, Ended, Registry!Vanish, Registry!Disconnected
<1>13. CASE Server
  BY <1>13 DEF Server, Registry!ServerStep, Registry!registryVars, Registry!syncVars
<1>14. CASE SessionChanges
  <2>1. UNCHANGED <<core, awaited>>
    BY <1>14 DEF SessionChanges, Registry!PlugIn, Registry!Unplug, Registry!UserConfigures,
                 Registry!PublishMetadata, Registry!registryVars, Registry!syncVars
  <2>2. UNCHANGED <<phase, stream, synced, abandoned, fault>>
    BY <1>14 DEF SessionChanges
  <2>3. QED
    BY <2>1, <2>2
<1>15. CASE \E c \in Clients : ClientBegins(c) \/ ClientSwitches(c) \/ ClientReturns(c)
  BY <1>15 DEF ClientBegins, ClientSwitches, ClientReturns, Output!Compare, Output!BeginAssign,
               Output!EndAssign, Output!Invoke, Output!SetTargetNodeStep, Output!Return
<1>16. QED
  BY <1>1, <1>2, <1>3, <1>4, <1>5, <1>6, <1>7, <1>8, <1>9, <1>10, <1>11, <1>12, <1>13, <1>14,
     <1>15, Actions

\* Of the steps in which the registry has a part, those that leave the phase alone.
LEMMA StaySteps ==
  ASSUME [Next]_vars
  PROVE  \/ /\ UNCHANGED registryVars /\ UNCHANGED phase /\ UNCHANGED bootVars
            /\ UNCHANGED handVars
            /\ saved' = saved \/ phase \in {"running", "stop", "restore", "handback"}
         \/ phase = "down" /\ phase' = "sink" /\ UNCHANGED registryVars
         \/ StartSink \/ StartRegistry \/ EndInitialSync \/ StartOutput \/ StartServer
         \/ /\ LoopSignal /\ phase = "running" /\ phase' = "stop" /\ UNCHANGED registryVars
         \/ /\ phase = "stop" /\ phase' = "restore" /\ UNCHANGED registryVars
            /\ UNCHANGED bootVars
         \/ RestorePreviousDefaultSink \/ EndRestore
         \/ phase' = "down" /\ wanted' = None /\ Registry!Vanish
         \/ LoopEvent \/ Server \/ SessionChanges
<1> USE DEF bootVars, fileVars, signalVars, handVars
<1>1. CASE UNCHANGED vars \/ Begin \/ LoopSignal \/ Signal \/ LoopInvoke \/ StopServer
  BY <1>1 DEF vars, Begin, LoopSignal, Signal, LoopInvoke, StopServer
<1>2. CASE Release \/ Kill
  BY <1>2 DEF Release, Kill, Ended
<1>3. CASE \E c \in Clients : ClientBegins(c) \/ ClientSwitches(c) \/ ClientReturns(c)
  BY <1>3 DEF ClientBegins, ClientSwitches, ClientReturns, Served
<1>4. QED
  BY <1>1, <1>2, <1>3, Actions

-----------------------------------------------------------------------------
(* The saved device *)

\* New events and an answer that is awaited leave what was told before it before it.
LEMMA SyncKept ==
  ASSUME EventsGrow, NEW n, Registry!SyncInv(n), UNCHANGED done,
         \A id \in Ids : graph'[id] = n =>
           /\ graph[id] = n
           /\ \A i \in DOMAIN events' : i \in DOMAIN events \/ ~Registry!About(i, id)'
  PROVE  Registry!SyncInv(n)'
<1> SUFFICES ASSUME NEW id \in Ids, graph'[id] = n
             PROVE  /\ done' => Registry!Quiet(id)'
                    /\ \A i, j \in DOMAIN events' :
                         Registry!About(i, id)' /\ Registry!IsSync(events'[j], 1) => i < j
  BY DEF Registry!SyncInv, Registry!InitialSync
<1>1. \A i \in DOMAIN events : Registry!About(i, id)' <=> Registry!About(i, id)
  BY DEF EventsGrow, Registry!About
<1>2. /\ done => Registry!Quiet(id)
      /\ \A i, j \in DOMAIN events :
           Registry!About(i, id) /\ Registry!IsSync(events[j], 1) => i < j
  BY DEF Registry!SyncInv, Registry!InitialSync
<1>3. done' => Registry!Quiet(id)'
  BY <1>1, <1>2 DEF Registry!Quiet
<1>4. ASSUME NEW i \in DOMAIN events', NEW j \in DOMAIN events', Registry!About(i, id)',
             Registry!IsSync(events'[j], 1)
      PROVE  i < j
  <2>1. i \in DOMAIN events /\ Registry!About(i, id)
    BY <1>1, <1>4
  <2>2. CASE j \in DOMAIN events
    BY <1>2, <1>4, <2>1, <2>2 DEF EventsGrow
  <2>3. CASE j \notin DOMAIN events
    BY <2>1, <2>3 DEF EventsGrow
  <2>4. QED
    BY <2>2, <2>3
<1>5. QED
  BY <1>3, <1>4

\* A change of the session is about one sink, or about none.
OnlyAbout(k) ==
  /\ \A id \in Ids : id # k => graph'[id] = graph[id]
  /\ \A i \in DOMAIN events' :
       i \in DOMAIN events \/ events'[i].kind \notin {"added", "removed"} \/ events'[i].id = k

NoneAbout ==
  \A i \in DOMAIN events' : i \in DOMAIN events \/ events'[i].kind \notin {"added", "removed"}

\* What a change of the session does to the sinks, and what it tells of it.
LEMMA ChangesAre ==
  ASSUME RegistryTypes, Registry!WireInv, SessionChanges
  PROVE  /\ EventsGrow
         /\ UNCHANGED <<done, devices, captured, previous, atBind, requests, core, defaultMetadata,
                        listening>>
         /\ UNCHANGED <<phase, saved, synced, gaveUp>>
         /\ \A i \in DOMAIN events' : i \in DOMAIN events \/ events'[i].kind # "done"
         /\ \/ UNCHANGED <<graph, wanted>> /\ NoneAbout
            \/ /\ UNCHANGED wanted
               /\ \E k \in Ids : graph[k] = None /\ graph'[k] \notin ToSet(graph) /\ OnlyAbout(k)
            \/ \E k \in Ids : /\ graph'[k] = None /\ OnlyAbout(k)
                              /\ wanted' = IF graph[k] = wanted THEN None ELSE wanted
         /\ \/ UNCHANGED <<configured, meddled>>
            \/ meddled' = (meddled \/ phase \in {"handback", "release"})
<1>0. /\ Len(events) \in Nat /\ DOMAIN events \subseteq Nat
      /\ \A id \in Ids : id \in Registry!AllIds
  BY DEF Registry!WireInv, Registry!AllIds
<1>1. UNCHANGED <<phase, saved, synced, gaveUp>>
  BY DEF SessionChanges, fileVars
<1>2. ASSUME NEW e \in Registry!Events, Registry!IfListening(<<e>>)
      PROVE  /\ EventsGrow /\ \A i \in DOMAIN events' : i \in DOMAIN events \/ events'[i] = e
  BY <1>0, <1>2, IfListeningIs DEF EventsGrow
<1>3. ASSUME NEW k \in Ids, NEW n \in Names, Registry!PlugIn(k, n), UNCHANGED <<wanted, meddled>>
      PROVE  /\ EventsGrow /\ OnlyAbout(k)
             /\ graph[k] = None /\ graph'[k] = n /\ n \notin ToSet(graph)
             /\ \A i \in DOMAIN events' : i \in DOMAIN events \/ events'[i].kind # "done"
  <2> DEFINE e == Registry!Added(k, n)
  <2>1. e \in Registry!Events /\ e.kind = "added" /\ e.id = k
    BY TellsEvents DEF Registry!Added
  <2>2. /\ Registry!IfListening(<<e>>) /\ graph' = [graph EXCEPT ![k] = n]
        /\ graph[k] = None /\ n \notin ToSet(graph)
    BY <1>3, SameOperators DEF Registry!PlugIn
  <2> HIDE DEF e
  <2>3. EventsGrow /\ \A i \in DOMAIN events' : i \in DOMAIN events \/ events'[i] = e
    BY <1>2, <2>1, <2>2
  <2>4. QED
    BY <1>0, <2>1, <2>2, <2>3 DEF OnlyAbout, RegistryTypes
<1>4. ASSUME NEW k \in Ids, Registry!Unplug(k)
      PROVE  /\ EventsGrow /\ OnlyAbout(k) /\ graph'[k] = None
             /\ \A i \in DOMAIN events' : i \in DOMAIN events \/ events'[i].kind # "done"
  <2> DEFINE e == Registry!Removed(k)
  <2>1. e \in Registry!Events /\ e.kind = "removed" /\ e.id = k
    BY TellsEvents DEF Registry!Removed
  <2>2. Registry!IfListening(<<e>>) /\ graph' = [graph EXCEPT ![k] = None]
    BY <1>4 DEF Registry!Unplug
  <2> HIDE DEF e
  <2>3. EventsGrow /\ \A i \in DOMAIN events' : i \in DOMAIN events \/ events'[i] = e
    BY <1>2, <2>1, <2>2
  <2>4. QED
    BY <1>0, <2>1, <2>2, <2>3 DEF OnlyAbout, RegistryTypes
<1>5. ASSUME NEW n \in Names, Registry!UserConfigures(n)
      PROVE  /\ EventsGrow /\ NoneAbout /\ UNCHANGED graph
             /\ \A i \in DOMAIN events' : i \in DOMAIN events \/ events'[i].kind # "done"
  <2>1. Registry!Configure(n) /\ UNCHANGED graph
    BY <1>5 DEF Registry!UserConfigures
  <2>2. EventsGrow /\ \A i \in DOMAIN events' :
                        i \in DOMAIN events \/ events'[i] = Registry!Property(n)
    BY <1>0, <2>1, ConfigureIs DEF EventsGrow
  <2>3. QED
    BY <2>1, <2>2, Kinds DEF NoneAbout
<1>6. ASSUME Registry!PublishMetadata
      PROVE  /\ EventsGrow /\ NoneAbout /\ UNCHANGED <<graph, configured>>
             /\ \A i \in DOMAIN events' : i \in DOMAIN events \/ events'[i].kind # "done"
  <2>1. Registry!IfListening(<<Registry!Metadata>>) /\ UNCHANGED <<graph, configured>>
    BY <1>6 DEF Registry!PublishMetadata
  <2>2. EventsGrow /\ \A i \in DOMAIN events' :
                        i \in DOMAIN events \/ events'[i] = Registry!Metadata
    BY <1>2, <2>1, TellsEvents
  <2>3. QED
    BY <2>1, <2>2, Kinds DEF NoneAbout
<1>7. UNCHANGED <<done, devices, captured, previous, atBind, requests, core, defaultMetadata,
                  listening>>
  BY DEF SessionChanges, Registry!PlugIn, Registry!Unplug, Registry!UserConfigures,
         Registry!PublishMetadata, Registry!registryVars, Registry!syncVars
<1>8. \/ \E k \in Ids, n \in Names :
           Registry!PlugIn(k, n) /\ UNCHANGED <<configured, wanted, meddled>>
      \/ \E k \in Ids : /\ Registry!Unplug(k) /\ UNCHANGED <<configured, meddled>>
                        /\ wanted' = IF graph[k] = wanted THEN None ELSE wanted
      \/ \E n \in Names : /\ Registry!UserConfigures(n) /\ UNCHANGED wanted
                          /\ meddled' = (meddled \/ phase \in {"handback", "release"})
      \/ Registry!PublishMetadata /\ UNCHANGED <<wanted, meddled>>
  BY DEF SessionChanges, Registry!PlugIn, Registry!Unplug
<1>9. CASE \E k \in Ids, n \in Names :
             Registry!PlugIn(k, n) /\ UNCHANGED <<configured, wanted, meddled>>
  BY <1>1, <1>3, <1>7, <1>9
<1>10. CASE \E k \in Ids : /\ Registry!Unplug(k) /\ UNCHANGED <<configured, meddled>>
                           /\ wanted' = IF graph[k] = wanted THEN None ELSE wanted
  BY <1>1, <1>4, <1>7, <1>10
<1>11. CASE \E n \in Names : /\ Registry!UserConfigures(n) /\ UNCHANGED wanted
                             /\ meddled' = (meddled \/ phase \in {"handback", "release"})
  BY <1>1, <1>5, <1>7, <1>11
<1>12. CASE Registry!PublishMetadata /\ UNCHANGED <<wanted, meddled>>
  BY <1>1, <1>6, <1>7, <1>12
<1>13. QED
  BY <1>8, <1>9, <1>10, <1>11, <1>12

\* What the server tells an established registry is not about sinks.
LEMMA ServerTells ==
  ASSUME RegistryTypes, Registry!WireInv, Registry!ListenInv, Registry!ServerStep
  PROVE  /\ EventsGrow
         /\ listening => NoneAbout
         /\ ~listening => /\ events = << >> /\ ~done
                          /\ \A i \in DOMAIN events' : events'[i].kind \in {"added", "metadata"}
<1>0. /\ Len(events) \in Nat /\ DOMAIN events \subseteq Nat
      /\ requests[1] \in Registry!Requests /\ 1 \in DOMAIN requests
  <2>1. requests[1] \in Registry!Requests /\ 1 \in DOMAIN requests
    BY ServerStepIs
  <2>2. QED
    BY <2>1 DEF Registry!WireInv
<1>1. ASSUME NEW evs \in Seq(Registry!Events), Registry!Told(evs)
      PROVE  /\ EventsGrow
             /\ (\A i \in DOMAIN evs : evs[i].kind \notin {"added", "removed"}) => NoneAbout
  BY <1>0, <1>1, ToldIs DEF EventsGrow, NoneAbout
<1>2. ASSUME NEW e \in Registry!Events, Registry!Told(<<e>>), e.kind \notin {"added", "removed"}
      PROVE  EventsGrow /\ NoneAbout
  <2>1. <<e>> \in Seq(Registry!Events) /\ \A i \in DOMAIN <<e>> : <<e>>[i] = e
    OBVIOUS
  <2>2. QED
    BY <1>1, <1>2, <2>1
<1>3. CASE ~listening
  <2>1. events = << >> /\ ~done /\ requests = Registry!FirstRequests
    BY <1>0, <1>3 DEF Registry!ListenInv
  <2>2. requests[1].kind = "registry"
    BY <2>1 DEF Registry!FirstRequests, Registry!GetRegistry
  <2>3. Registry!Told(Registry!Globals)
    BY <2>2, ServerStepIs
  <2>4. Registry!Globals \in Seq(Registry!Events)
    BY GlobalsAre DEF RegistryTypes
  <2>5. events' = Registry!Globals
    BY <2>1, <2>3, <2>4 DEF Registry!Told
  <2>6. \A i \in DOMAIN events' : events'[i].kind \in {"added", "metadata"}
    BY <2>5, GlobalsAre, Kinds DEF RegistryTypes
  <2>7. QED
    BY <1>1, <1>3, <2>1, <2>3, <2>4, <2>6
<1>4. CASE listening
  <2>1. requests[1].kind # "registry"
    BY <1>0, <1>4 DEF Registry!ListenInv
  <2>2. CASE requests[1].kind = "sync"
    <3>1. /\ Registry!Told(<<Registry!Done(requests[1].seq)>>)
          /\ Registry!Done(requests[1].seq) \in Registry!Events
      BY <1>0, <2>2, RequestIs, ServerStepIs, TellsEvents
    <3>2. QED
      BY <1>2, <1>4, <3>1, Kinds
  <2>3. CASE requests[1].kind = "bind"
    <3>1. PICK d \in Registry!Dump : Registry!Told(d)
      BY <2>3, ServerStepIs
    <3>2. \/ d = <<Registry!Property(configured)>> \/ d = <<Registry!Property(None)>>
          \/ d = << >>
      BY Zenon DEF Registry!Dump
    <3>3. CASE d = << >>
      <4>1. d \in Seq(Registry!Events) /\ DOMAIN d = {}
        BY <3>3
      <4>2. QED
        BY <1>1, <1>4, <3>1, <4>1
    <3>4. CASE d # << >>
      BY <1>2, <1>4, <3>1, <3>2, <3>4, TellsEvents, Kinds DEF RegistryTypes
    <3>5. QED
      BY <3>3, <3>4
  <2>4. CASE requests[1].kind = "set"
    <3>1. /\ Registry!Configure(requests[1].value)
          /\ requests[1].value \in Names \cup {Own, None}
      BY <1>0, <2>4, RequestIs, ServerStepIs
    <3>2. EventsGrow /\ \A i \in DOMAIN events' :
            i \in DOMAIN events \/ events'[i] = Registry!Property(requests[1].value)
      BY <1>0, <3>1, ConfigureIs DEF EventsGrow
    <3>3. QED
      BY <1>4, <3>2, Kinds DEF NoneAbout
  <2>5. QED
    BY <1>0, <2>1, <2>2, <2>3, <2>4, RequestIs
<1>5. QED
  BY <1>3, <1>4

\* The saved device stays plugged in and told of before the answer, and is the one
\* the output is started on.
LEMMA WantedStep ==
  ASSUME RegistryTypes, Registry!WireInv, Registry!ListenInv, Registry!MapInv, PhaseInv,
         LifeTypes, WantedInv, SavedDeviceKept, [Next]_vars
  PROVE  WantedInv' /\ SavedDeviceKept'
<1> DEFINE P == WantedInv' /\ SavedDeviceKept'
<1>0. Registry!InitialSync = 1
  BY DEF Registry!InitialSync
<1>1. CASE phase' \notin {"sync", "output", "server"}
  BY <1>1 DEF WantedInv, SavedDeviceKept
<1>2. CASE /\ UNCHANGED registryVars /\ UNCHANGED phase /\ UNCHANGED bootVars
           /\ saved' = saved \/ phase \in {"running", "stop", "restore", "handback"}
  <2>1. phase \in {"sync", "output", "server"} => saved' = saved
    BY <1>2
  <2>2. QED
    BY <1>1, <1>2, <2>1 DEF registryVars, bootVars, WantedInv, SavedDeviceKept, Registry!SyncInv,
       Registry!Quiet, Registry!About, Registry!IsSync
<1>3. CASE StartRegistry
  <2>1. CASE phase' = "sync" /\ Registry!Start /\ saved' = saved
             /\ wanted' = IF \E id \in Ids : graph[id] = saved THEN saved ELSE None
    <3> SUFFICES ASSUME wanted' # None
                 PROVE  /\ saved' = wanted' /\ \E id \in Ids : graph'[id] = wanted'
                        /\ Registry!SyncInv(wanted)'
      BY <2>1 DEF WantedInv, SavedDeviceKept
    <3>1. wanted' = saved /\ saved # None
      BY <2>1
    <3>2. PICK id \in Ids : graph[id] = saved
      BY <2>1
    <3>3. ~done' /\ events' = << >> /\ UNCHANGED graph
      BY <1>3, <2>1 DEF StartRegistry, PhaseInv, Registry!ListenInv, Registry!Start,
                        Registry!AwaitCore, Registry!serverVars
    <3>4. QED
      BY <2>1, <3>1, <3>2, <3>3 DEF Registry!SyncInv
  <2>2. CASE phase' = "restore"
    BY <1>1, <2>2
  <2>3. QED
    BY <1>3, <2>1, <2>2 DEF StartRegistry, Broken, Fail, fileVars
<1>4. CASE EndInitialSync
  <2>1. /\ phase = "sync" /\ phase' = "output" /\ (synced' => done)
        /\ UNCHANGED <<graph, devices, wanted, saved>>
    BY <1>4 DEF EndInitialSync, fileVars, PhaseInv, Registry!EndSync, Registry!serverVars,
                Registry!registryVars
  <2>2. ASSUME wanted # None
        PROVE  /\ saved = wanted
               /\ \E id \in Ids : graph[id] = wanted /\ (synced' => devices[id] = wanted)
    <3>1. PICK id \in Ids : graph[id] = wanted
      BY <2>1, <2>2 DEF WantedInv
    <3>2. done => Registry!Quiet(id) /\ listening
      BY <2>1, <2>2, <3>1 DEF WantedInv, Registry!SyncInv, Registry!ListenInv
    <3>3. QED
      BY <2>1, <2>2, <3>1, <3>2, MapParts DEF MapOf, WantedInv
  <2>3. QED
    BY <2>1, <2>2 DEF WantedInv, SavedDeviceKept
<1>5. CASE StartOutput
  <2>1. phase = "output" /\ phase' \in {"server", "restore"} /\ UNCHANGED <<synced, wanted>>
        /\ saved' = InitialOutputDevice
    BY <1>5 DEF StartOutput, Broken, Fail
  <2>2. ASSUME synced, wanted # None  PROVE saved' = wanted
    <3>1. saved = wanted /\ \E id \in Ids : devices[id] = wanted
      BY <2>1, <2>2 DEF WantedInv
    <3>2. Registry!HasDevice(saved)
      BY <3>1, SameOperators DEF Registry!HasDevice, ToSet, RegistryTypes, Registry!AllIds
    <3>3. QED
      BY <2>1, <2>2, <3>1, <3>2, InitialDeviceIs
  <2>3. QED
    BY <2>1, <2>2 DEF WantedInv, SavedDeviceKept
<1>6. CASE LoopEvent
  <2>1. /\ phase' = phase /\ Registry!Dispatch /\ UNCHANGED <<saved, synced, wanted>>
        /\ phase \in {"sync", "running", "handback"}
    BY <1>6 DEF LoopEvent, Iterating, fileVars, bootVars
  <2>2. /\ UNCHANGED graph /\ 1 \in DOMAIN events
        /\ \A i \in DOMAIN events' :
             i + 1 \in DOMAIN events /\ i + 1 > 1 /\ events'[i] = events[i + 1]
        /\ done' => done \/ Registry!IsSync(events[1], awaited)
    <3>1. \/ done' = done
          \/ /\ events[1].kind = "done"
             /\ done' = (done \/ events[1].seq = awaited)
      BY <2>1, DispatchIs DEF Registry!OnCoreDone
    <3>2. done' => done \/ Registry!IsSync(events[1], awaited)
      BY <3>1, Zenon DEF Registry!IsSync
    <3>3. QED
      BY <2>1, <3>2, DispatchIs
  <2>3. ASSUME phase = "sync", wanted # None  PROVE Registry!SyncInv(wanted)'
    <3> SUFFICES ASSUME NEW id \in Ids, graph[id] = wanted
                 PROVE  /\ done' => Registry!Quiet(id)'
                        /\ \A i, j \in DOMAIN events' :
                             Registry!About(i, id)' /\ Registry!IsSync(events'[j], 1) => i < j
      BY <1>0, <2>1, <2>2 DEF Registry!SyncInv
    <3>1. \A i \in DOMAIN events' : Registry!About(i, id)' <=> Registry!About(i + 1, id)
      BY <2>2 DEF Registry!About
    <3>2. /\ done => Registry!Quiet(id)
          /\ \A i, j \in DOMAIN events :
               Registry!About(i, id) /\ Registry!IsSync(events[j], 1) => i < j
      BY <1>0, <2>3 DEF WantedInv, Registry!SyncInv
    <3>3. DOMAIN events \subseteq Nat /\ DOMAIN events' \subseteq Nat
      <4>1. events' \in Seq(Registry!Events)
        BY <2>1, DispatchIs
      <4>2. QED
        BY <4>1 DEF Registry!WireInv
    <3>4. ASSUME NEW i \in DOMAIN events', NEW j \in DOMAIN events', Registry!About(i, id)',
                 Registry!IsSync(events'[j], 1)
          PROVE  i < j
      <4>1. i + 1 < j + 1
        BY <2>2, <3>1, <3>2, <3>4
      <4>2. QED
        BY <3>3, <4>1
    <3>5. ASSUME done', NEW i \in DOMAIN events', Registry!About(i, id)'  PROVE FALSE
      <4>1. i + 1 \in DOMAIN events /\ i + 1 > 1 /\ Registry!About(i + 1, id)
        BY <2>2, <3>1, <3>5
      <4>2. ~done
        BY <3>2, <4>1 DEF Registry!Quiet
      <4>3. Registry!IsSync(events[1], 1)
        BY <1>0, <2>2, <2>3, <3>5, <4>2 DEF PhaseInv
      <4>4. i + 1 < 1
        BY <2>2, <3>2, <4>1, <4>3
      <4>5. QED
        BY <3>3, <4>1, <4>4
    <3>6. QED
      BY <3>4, <3>5 DEF Registry!Quiet
  <2>4. QED
    BY <2>1, <2>2, <2>3 DEF WantedInv, SavedDeviceKept
<1>7. CASE Server
  <2>1. Registry!ServerStep /\ UNCHANGED <<phase, saved, synced, wanted>>
    BY <1>7 DEF Server, fileVars, bootVars
  <2>2. UNCHANGED <<graph, devices, done>>
    BY <2>1, ServerStepIs
  <2>3. ASSUME NEW n, Registry!SyncInv(n)  PROVE Registry!SyncInv(n)'
    <3>1. CASE listening
      <4>1. EventsGrow /\ NoneAbout
        BY <2>1, <3>1, ServerTells
      <4>2. QED
        BY <2>2, <2>3, <4>1, SyncKept DEF NoneAbout, Registry!About
    <3>2. CASE ~listening
      BY <2>1, <2>2, <3>2, ServerTells DEF Registry!SyncInv, Registry!IsSync
    <3>3. QED
      BY <3>1, <3>2
  <2>4. phase = "sync" /\ wanted # None => Registry!SyncInv(wanted)'
    <3>1. PICK n : n = wanted
      OBVIOUS
    <3>2. Registry!SyncInv(wanted)' <=> Registry!SyncInv(n)'
      BY <2>1, <3>1 DEF Registry!SyncInv
    <3>3. QED
      BY <2>3, <3>1, <3>2 DEF WantedInv
  <2>5. QED
    BY <2>1, <2>2, <2>4 DEF WantedInv, SavedDeviceKept
<1>8. CASE SessionChanges
  <2>1. UNCHANGED <<phase, saved, synced, done, devices>>
    BY <1>8, ChangesAre
  <2>2. EventsGrow
    BY <1>8, ChangesAre
  <2>3. ASSUME wanted' # None, phase \in {"sync", "output"}
        PROVE  /\ wanted' = wanted
               /\ \A id \in Ids : graph[id] = wanted => graph'[id] = wanted
               /\ \A id \in Ids : graph'[id] = wanted =>
                    /\ graph[id] = wanted
                    /\ \A i \in DOMAIN events' : i \in DOMAIN events \/ ~Registry!About(i, id)'
    <3>1. CASE UNCHANGED <<graph, wanted>> /\ NoneAbout
      BY <3>1 DEF NoneAbout, Registry!About
    <3>2. CASE /\ UNCHANGED wanted
               /\ \E k \in Ids : graph[k] = None /\ graph'[k] \notin ToSet(graph) /\ OnlyAbout(k)
      <4>1. PICK k \in Ids : graph[k] = None /\ graph'[k] \notin ToSet(graph) /\ OnlyAbout(k)
        BY <3>2
      <4>2. wanted \in ToSet(graph)
        BY <2>3, <3>2 DEF WantedInv, ToSet, RegistryTypes, Registry!AllIds
      <4>3. graph[k] # wanted /\ graph'[k] # wanted /\ wanted' = wanted
        BY <2>3, <3>2, <4>1, <4>2
      <4>4. QED
        BY <4>1, <4>3 DEF OnlyAbout, Registry!About
    <3>3. CASE \E k \in Ids : /\ graph'[k] = None /\ OnlyAbout(k)
                              /\ wanted' = IF graph[k] = wanted THEN None ELSE wanted
      <4>1. PICK k \in Ids : /\ graph'[k] = None /\ OnlyAbout(k)
                             /\ wanted' = IF graph[k] = wanted THEN None ELSE wanted
        BY <3>3
      <4>2. graph[k] # wanted /\ wanted' = wanted /\ graph'[k] # wanted
        BY <2>3, <4>1
      <4>3. QED
        BY <4>1, <4>2 DEF OnlyAbout, Registry!About
    <3>4. QED
      BY <1>8, <3>1, <3>2, <3>3, ChangesAre
  <2>4. ASSUME phase = "sync", wanted' # None  PROVE Registry!SyncInv(wanted)'
    <3>1. PICK n : n = wanted
      OBVIOUS
    <3>2. wanted' = n /\ Registry!SyncInv(n)
      BY <2>3, <2>4, <3>1 DEF WantedInv
    <3>3. Registry!SyncInv(n)'
      BY <2>1, <2>2, <2>3, <2>4, <3>1, <3>2, SyncKept
    <3>4. QED
      BY <3>2, <3>3 DEF Registry!SyncInv
  <2>5. wanted' # None /\ phase = "server" => wanted' = wanted
    BY <1>8, ChangesAre
  <2>6. QED
    BY <2>1, <2>3, <2>4, <2>5 DEF WantedInv, SavedDeviceKept
<1>9. CASE StartSink \/ StartServer \/ RestorePreviousDefaultSink \/ EndRestore
  BY <1>1, <1>9 DEF StartSink, StartServer, RestorePreviousDefaultSink, EndRestore, Broken, Fail
<1>10. QED
  BY <1>1, <1>2, <1>3, <1>4, <1>5, <1>6, <1>7, <1>8, <1>9, StaySteps

-----------------------------------------------------------------------------
(* The default sink that was there before *)

\* What a restore sets, or has set, is what was configured before the claim.
LEMMA RestoreStep ==
  ASSUME RegistryTypes, Registry!WireInv, Registry!WireInv', Registry!ListenInv,
         Registry!BindInv, PhaseInv, RestoreInv, [Next]_vars
  PROVE  RestoreInv'
<1>0. /\ Registry!RestoreSync = 2
      /\ DOMAIN requests \subseteq Nat /\ DOMAIN events \subseteq Nat /\ Len(requests) \in Nat
  BY DEF Registry!RestoreSync, Registry!WireInv
<1>1. ASSUME phase \notin {"handback", "release"}, phase' \notin {"handback", "release"},
             Registry!Restoring' => Registry!Restoring
      PROVE  RestoreInv'
  BY <1>1 DEF RestoreInv
<1>2. CASE UNCHANGED registryVars /\ UNCHANGED phase /\ UNCHANGED handVars
  BY <1>2 DEF registryVars, handVars, RestoreInv, Registry!Restoring, Registry!Restorable,
              Registry!HandbackInv, Registry!NothingToSet
<1>3. CASE UNCHANGED registryVars /\ phase' \notin {"handback", "release"}
           /\ phase \notin {"handback", "release"}
  BY <1>1, <1>3 DEF registryVars, Registry!Restoring
<1>4. CASE StartSink \/ EndInitialSync \/ StartOutput \/ StartServer
  <2>1. UNCHANGED <<requests, events>>
    BY <1>4 DEF StartSink, EndInitialSync, StartOutput, StartServer, Broken, registryVars,
                Registry!OwnSinkAppears, Registry!EndSync, Registry!wireVars
  <2>2. phase \notin {"handback", "release"} /\ phase' \notin {"handback", "release"}
    BY <1>4 DEF StartSink, EndInitialSync, StartOutput, StartServer, Broken, Fail
  <2>3. QED
    BY <1>1, <2>1, <2>2 DEF Registry!Restoring
<1>5. CASE StartRegistry
  <2>1. phase = "registry" /\ phase' \in {"sync", "restore"}
    BY <1>5 DEF StartRegistry, Broken, Fail
  <2>2. UNCHANGED registryVars \/ (Registry!Start /\ UNCHANGED events)
    BY <1>5 DEF StartRegistry, Broken, Registry!Start
  <2>3. CASE Registry!Start /\ UNCHANGED events
    <3>1. \A i \in DOMAIN requests' : ~Registry!IsSync(requests'[i], 2)
      BY <2>3 DEF Registry!Start, Registry!FirstRequests, Registry!GetRegistry, Registry!Sync,
                  Registry!InitialSync, Registry!IsSync
    <3>2. QED
      BY <1>0, <1>1, <2>1, <2>3, <3>1 DEF Registry!Restoring
  <2>4. QED
    BY <1>3, <2>1, <2>2, <2>3
<1>6. CASE RestorePreviousDefaultSink
  <2>1. phase = "restore" /\ ~Registry!Restoring /\ UNCHANGED <<gaveUp, meddled>>
    BY <1>6 DEF RestorePreviousDefaultSink, handVars, RestoreInv
  <2>2. CASE Registry!Restorable /\ Registry!RestorePreviousDefaultSink /\ phase' = "handback"
    <3>1. /\ \A i \in DOMAIN requests :
               i \in DOMAIN requests' /\ requests'[i] = requests[i] /\ i <= Len(requests)
          /\ \A i \in DOMAIN requests' :
               \/ i \in DOMAIN requests
               \/ i = Len(requests) + 1 /\ requests'[i] = Registry!Set(previous)
               \/ i = Len(requests) + 2 /\ requests'[i] = Registry!Sync(2)
          /\ Len(requests) + 1 \in DOMAIN requests'
          /\ requests'[Len(requests) + 1] = Registry!Set(previous)
          /\ done' = FALSE
          /\ UNCHANGED <<configured, events, core, defaultMetadata, previous>>
      BY <2>2, RestoreIs
    <3>2. PICK k \in DOMAIN requests' : k = Len(requests) + 1
      BY <3>1
    <3>3. requests'[k].kind = "set" /\ requests'[k].value = previous
      BY <3>1, <3>2, Kinds
    <3>4. Registry!Restorable' /\ ~Registry!NothingToSet'
      BY <2>2, <3>1, <3>3 DEF Registry!Restorable, Registry!NothingToSet
    <3>5. ASSUME NEW i \in DOMAIN requests', requests'[i].kind = "set",
                 \A j \in DOMAIN requests' : j > i => requests'[j].kind # "set"
          PROVE  requests'[i].value = previous'
      <4>1. ~(k > i)
        BY <3>3, <3>5
      <4>2. i = k
        BY <1>0, <3>1, <3>2, <3>5, <4>1, Kinds
      <4>3. QED
        BY <3>1, <3>3, <4>2
    <3>6. ASSUME NEW i \in DOMAIN requests', NEW j \in DOMAIN requests',
                 Registry!IsSync(requests'[i], 2), requests'[j].kind = "set"
          PROVE  j < i
      <4>1. i \notin DOMAIN requests
        BY <1>0, <2>1, <3>1, <3>6 DEF Registry!Restoring
      <4>2. i = Len(requests) + 2
        BY <3>1, <3>3, <3>2, <3>6, <4>1 DEF Registry!IsSync
      <4>3. j \in DOMAIN requests \/ j = Len(requests) + 1
        BY <3>1, <3>6, Kinds
      <4>4. QED
        BY <1>0, <3>1, <4>2, <4>3
    <3>7. \A i \in DOMAIN events' : ~Registry!IsSync(events'[i], 2)
      BY <1>0, <2>1, <3>1 DEF Registry!Restoring
    <3>8. Registry!HandbackInv'
      BY <1>0, <3>1, <3>5, <3>6, <3>7 DEF Registry!HandbackInv
    <3>9. QED
      BY <2>2, <3>4, <3>8 DEF RestoreInv
  <2>3. CASE ~Registry!Restorable /\ phase' = "release" /\ UNCHANGED registryVars
    <3>1. ~(captured /\ atBind # None)
      BY <2>3 DEF Registry!Restorable, Registry!BindInv, Registry!ListenInv
    <3>2. QED
      BY <2>3, <3>1 DEF RestoreInv, registryVars
  <2>4. QED
    BY <1>6, <2>2, <2>3 DEF RestorePreviousDefaultSink
<1>7. CASE EndRestore
  <2>1. /\ phase = "handback" /\ phase' = "release" /\ UNCHANGED meddled /\ (done \/ gaveUp')
        /\ UNCHANGED <<configured, requests, captured, previous, atBind>>
    BY <1>7 DEF EndRestore, Registry!EndSync, Registry!serverVars, Registry!wireVars,
                Registry!registryVars
  <2>2. ASSUME captured, atBind # None, done
        PROVE  Registry!NothingToSet /\ (meddled \/ configured = atBind)
    <3>1. Registry!NothingToSet /\ (meddled \/ configured = previous)
      BY <2>1, <2>2 DEF RestoreInv, Registry!HandbackInv
    <3>2. previous = atBind
      BY <2>2 DEF Registry!BindInv
    <3>3. QED
      BY <3>1, <3>2
  <2>3. QED
    BY <2>1, <2>2 DEF RestoreInv, Registry!NothingToSet
<1>8. CASE phase' = "down" /\ Registry!Vanish
  BY <1>8 DEF RestoreInv, Registry!Vanish, Registry!Disconnected, Registry!Restoring
<1>9. CASE LoopEvent
  <2>1. /\ Registry!Dispatch /\ phase' = phase /\ phase \in {"sync", "running", "handback"}
        /\ UNCHANGED <<gaveUp, meddled>>
    BY <1>9 DEF LoopEvent, Iterating, handVars
  <2>2. /\ 1 \in DOMAIN events
        /\ \A i \in DOMAIN events' : i + 1 \in DOMAIN events /\ events'[i] = events[i + 1]
        /\ UNCHANGED <<configured, core, atBind>>
    BY <2>1, DispatchIs
  <2>3. Registry!Restoring' => Registry!Restoring
    <3>1. \A i \in DOMAIN requests' :
            \/ i \in DOMAIN requests /\ requests'[i] = requests[i]
            \/ requests'[i].kind \in {"bind", "set"}
      <4>1. CASE requests' = requests
        BY <4>1
      <4>2. CASE Registry!BindAndClaim
        BY <4>2, BindAndClaimIs, Kinds
      <4>3. QED
        BY <2>1, <4>1, <4>2, DispatchIs
    <3>2. QED
      BY <2>2, <3>1 DEF Registry!Restoring, Registry!IsSync
  <2>4. CASE phase = "handback"
    <3>1. /\ defaultMetadata /\ core /\ previous # None /\ captured /\ awaited = 2
          /\ Registry!HandbackInv /\ (Registry!NothingToSet => meddled \/ configured = previous)
      BY <1>0, <2>4 DEF RestoreInv, Registry!Restorable, Registry!BindInv, PhaseInv
    <3>2. requests' = requests /\ defaultMetadata' /\ previous' = previous
      <4>1. \/ UNCHANGED <<requests, defaultMetadata>> \/ Registry!BindAndClaim
        BY <2>1, DispatchIs
      <4>2. previous' = previous
        <5>1. \/ previous' = previous
              \/ \E v : previous' = IF ~captured /\ v # None THEN v ELSE previous
          BY <2>1, DispatchIs, Zenon DEF Registry!HandleMetadataProperty
        <5>2. QED
          BY <3>1, <5>1
      <4>3. QED
        BY <3>1, <4>1, <4>2, BindAndClaimIs
    <3>3. done' => done \/ Registry!IsSync(events[1], 2)
      <4>1. \/ done' = done
            \/ /\ events[1].kind = "done"
               /\ done' = (done \/ events[1].seq = awaited)
        BY <2>1, DispatchIs DEF Registry!OnCoreDone
      <4>2. QED
        BY <3>1, <4>1, Zenon DEF Registry!IsSync
    <3>4. done' \/ (\E i \in DOMAIN events' : Registry!IsSync(events'[i], 2)) =>
            Registry!NothingToSet
      BY <1>0, <2>2, <3>1, <3>3 DEF Registry!HandbackInv
    <3>5. Registry!HandbackInv'
      BY <1>0, <3>1, <3>2, <3>4 DEF Registry!HandbackInv, Registry!NothingToSet
    <3>6. QED
      BY <2>1, <2>2, <2>4, <3>1, <3>2, <3>5
         DEF RestoreInv, Registry!Restorable, Registry!NothingToSet
  <2>5. QED
    BY <1>1, <2>1, <2>3, <2>4
<1>10. CASE Server
  <2>1. Registry!ServerStep /\ UNCHANGED <<phase, gaveUp, meddled>>
    BY <1>10 DEF Server, handVars
  <2>2. /\ 1 \in DOMAIN requests /\ requests[1] \in Registry!Requests
        /\ \A i \in DOMAIN requests' :
             i + 1 \in DOMAIN requests /\ i + 1 > 1 /\ requests'[i] = requests[i + 1]
        /\ \A i \in DOMAIN requests :
             i = 1 \/ (i - 1 \in DOMAIN requests' /\ requests'[i - 1] = requests[i])
        /\ UNCHANGED <<core, defaultMetadata, captured, previous, done>>
    BY <2>1, ServerStepIs
  <2>3. ASSUME NEW i \in DOMAIN events', Registry!IsSync(events'[i], 2)
        PROVE  \/ i \in DOMAIN events /\ events'[i] = events[i]
               \/ Registry!IsSync(requests[1], 2)
    <3>1. ASSUME NEW evs \in Seq(Registry!Events), Registry!Told(evs),
                 \A k \in DOMAIN evs : Registry!IsSync(evs[k], 2) => Registry!IsSync(requests[1], 2)
          PROVE  \/ i \in DOMAIN events /\ events'[i] = events[i]
                 \/ Registry!IsSync(requests[1], 2)
      BY <2>3, <3>1, ToldIs
    <3>2. ASSUME NEW e \in Registry!Events, Registry!Told(<<e>>),
                 Registry!IsSync(e, 2) => Registry!IsSync(requests[1], 2)
          PROVE  \/ i \in DOMAIN events /\ events'[i] = events[i]
                 \/ Registry!IsSync(requests[1], 2)
      <4>1. <<e>> \in Seq(Registry!Events) /\ \A k \in DOMAIN <<e>> : <<e>>[k] = e
        OBVIOUS
      <4>2. QED
        BY <3>1, <3>2, <4>1
    <3>3. CASE requests[1].kind = "registry"
      <4>1. Registry!Told(Registry!Globals) /\ Registry!Globals \in Seq(Registry!Events)
        BY <2>1, <3>3, ServerStepIs, GlobalsAre DEF RegistryTypes
      <4>2. \A k \in DOMAIN Registry!Globals : ~Registry!IsSync(Registry!Globals[k], 2)
        BY GlobalsAre, Kinds DEF RegistryTypes, Registry!IsSync
      <4>3. QED
        BY <3>1, <4>1, <4>2
    <3>4. CASE requests[1].kind = "sync"
      <4> DEFINE e == Registry!Done(requests[1].seq)
      <4>1. Registry!Told(<<e>>) /\ e \in Registry!Events
        BY <2>1, <2>2, <3>4, RequestIs, ServerStepIs, TellsEvents
      <4>2. e.seq = requests[1].seq
        BY Kinds
      <4> HIDE DEF e
      <4>3. QED
        BY <3>2, <3>4, <4>1, <4>2 DEF Registry!IsSync
    <3>5. CASE requests[1].kind = "bind"
      <4>1. PICK d \in Registry!Dump : Registry!Told(d)
        BY <2>1, <3>5, ServerStepIs
      <4>2. \/ d = <<Registry!Property(configured)>> \/ d = <<Registry!Property(None)>>
            \/ d = << >>
        BY Zenon DEF Registry!Dump
      <4>3. CASE d = << >>
        <5>1. d \in Seq(Registry!Events) /\ DOMAIN d = {}
          BY <4>3
        <5>2. QED
          BY <3>1, <4>1, <5>1
      <4>4. CASE d # << >>
        <5>1. \A v : ~Registry!IsSync(Registry!Property(v), 2)
          BY Kinds DEF Registry!IsSync
        <5>2. QED
          BY <3>2, <4>1, <4>2, <4>4, <5>1, TellsEvents DEF RegistryTypes
      <4>5. QED
        BY <4>3, <4>4
    <3>6. CASE requests[1].kind = "set"
      <4>1. /\ Registry!Configure(requests[1].value)
            /\ requests[1].value \in Names \cup {Own, None}
        BY <2>1, <2>2, <3>6, RequestIs, ServerStepIs
      <4>2. i \in DOMAIN events \/ events'[i] = Registry!Property(requests[1].value)
        BY <4>1, ConfigureIs
      <4>3. i \in DOMAIN events => events'[i] = events[i]
        BY <4>1, ConfigureIs
      <4>4. QED
        BY <2>3, <4>2, <4>3, Kinds DEF Registry!IsSync
    <3>7. QED
      BY <2>2, <3>3, <3>4, <3>5, <3>6, RequestIs
  <2>4. Registry!Restoring' => Registry!Restoring
    BY <1>0, <2>2, <2>3 DEF Registry!Restoring
  <2>5. ASSUME captured
        PROVE  /\ requests[1].kind # "bind" /\ atBind' = atBind
               /\ configured' = IF requests[1].kind = "set" THEN requests[1].value
                                ELSE configured
    <3>1. requests[1].kind # "bind" /\ requests[1].kind # "registry"
      BY <2>2, <2>5 DEF Registry!BindInv, Registry!ListenInv
    <3>2. requests[1].kind = "sync" => UNCHANGED <<configured, atBind>>
      BY <2>1, ServerStepIs
    <3>3. requests[1].kind = "set" => configured' = requests[1].value /\ UNCHANGED atBind
      BY <2>1, ServerStepIs DEF Registry!Configure
    <3>4. QED
      BY <2>2, <3>1, <3>2, <3>3, RequestIs
  <2>6. CASE phase = "handback"
    <3>1. /\ captured /\ Registry!Restorable
          /\ Registry!HandbackInv /\ (Registry!NothingToSet => meddled \/ configured = previous)
      BY <2>6 DEF RestoreInv, Registry!Restorable, Registry!BindInv
    <3>2. DOMAIN requests' \subseteq Nat
      BY DEF Registry!WireInv
    <3>3. ASSUME NEW i \in DOMAIN requests', requests'[i].kind = "set",
                 \A j \in DOMAIN requests' : j > i => requests'[j].kind # "set"
          PROVE  requests'[i].value = previous
      <4>1. ASSUME NEW j \in DOMAIN requests, j > i + 1  PROVE requests[j].kind # "set"
        <5>1. j # 1 /\ j - 1 \in DOMAIN requests' /\ j - 1 > i /\ requests'[j - 1] = requests[j]
          BY <1>0, <2>2, <3>2, <4>1
        <5>2. QED
          BY <3>3, <5>1
      <4>2. QED
        BY <2>2, <3>1, <3>3, <4>1 DEF Registry!HandbackInv
    <3>4. ASSUME NEW i \in DOMAIN requests', NEW j \in DOMAIN requests',
                 Registry!IsSync(requests'[i], 2), requests'[j].kind = "set"
          PROVE  j < i
      <4>1. j + 1 < i + 1
        BY <1>0, <2>2, <3>1, <3>4 DEF Registry!HandbackInv
      <4>2. QED
        BY <3>2, <4>1
    <3>5. Registry!NothingToSet => Registry!NothingToSet'
      BY <2>2 DEF Registry!NothingToSet
    <3>6. Registry!IsSync(requests[1], 2) => Registry!NothingToSet
      <4> SUFFICES ASSUME Registry!IsSync(requests[1], 2), NEW j \in DOMAIN requests,
                          requests[j].kind = "set"
                   PROVE  FALSE
        BY DEF Registry!NothingToSet
      <4>1. j < 1
        BY <1>0, <2>2, <3>1 DEF Registry!HandbackInv
      <4>2. j \in 1 .. Len(requests)
        BY DEF Registry!WireInv
      <4>3. QED
        BY <1>0, <4>1, <4>2
    <3>7. done' \/ (\E i \in DOMAIN events' : Registry!IsSync(events'[i], 2)) =>
            Registry!NothingToSet'
      BY <1>0, <2>2, <2>3, <3>1, <3>5, <3>6 DEF Registry!HandbackInv
    <3>8. Registry!HandbackInv'
      BY <1>0, <2>2, <3>3, <3>4, <3>7 DEF Registry!HandbackInv
    <3>9. Registry!NothingToSet' => meddled' \/ configured' = previous'
      <4>1. CASE requests[1].kind = "set"
        <5> SUFFICES ASSUME Registry!NothingToSet'  PROVE configured' = previous
          BY <2>2
        <5>1. ASSUME NEW j \in DOMAIN requests, j > 1  PROVE requests[j].kind # "set"
          BY <2>2, <5>1 DEF Registry!NothingToSet
        <5>2. requests[1].value = previous
          BY <2>2, <3>1, <4>1, <5>1 DEF Registry!HandbackInv
        <5>3. QED
          BY <2>5, <3>1, <4>1, <5>2
      <4>2. CASE requests[1].kind # "set"
        <5>1. Registry!NothingToSet' => Registry!NothingToSet
          BY <2>2, <4>2 DEF Registry!NothingToSet
        <5>2. QED
          BY <2>1, <2>2, <2>5, <3>1, <4>2, <5>1
      <4>3. QED
        BY <4>1, <4>2
    <3>10. QED
      BY <2>1, <2>2, <2>6, <3>1, <3>8, <3>9 DEF RestoreInv, Registry!Restorable
  <2>7. CASE phase = "release"
    <3>1. ASSUME captured, atBind' # None, ~gaveUp
          PROVE  Registry!NothingToSet' /\ (meddled \/ configured' = atBind')
      <4>1. atBind' = atBind /\ Registry!NothingToSet /\ (meddled \/ configured = atBind)
        BY <2>5, <2>7, <3>1 DEF RestoreInv
      <4>2. requests[1].kind # "set" /\ Registry!NothingToSet'
        BY <2>2, <4>1 DEF Registry!NothingToSet
      <4>3. QED
        BY <2>5, <3>1, <4>1, <4>2
    <3>2. QED
      BY <2>1, <2>2, <2>7, <3>1 DEF RestoreInv
  <2>8. QED
    BY <1>1, <2>1, <2>4, <2>6, <2>7
<1>11. CASE SessionChanges
  <2>1. /\ EventsGrow
        /\ UNCHANGED <<done, captured, previous, atBind, requests, core, defaultMetadata>>
        /\ UNCHANGED <<phase, gaveUp>>
        /\ \A i \in DOMAIN events' : i \in DOMAIN events \/ events'[i].kind # "done"
        /\ \/ UNCHANGED <<configured, meddled>>
           \/ meddled' = (meddled \/ phase \in {"handback", "release"})
    BY <1>11, ChangesAre
  <2>2. \A i \in DOMAIN events' : Registry!IsSync(events'[i], 2) =>
          i \in DOMAIN events /\ Registry!IsSync(events[i], 2)
    <3>1. \A i \in DOMAIN events' : events'[i] \in Registry!Events
      BY DEF Registry!WireInv, Registry!Events
    <3>2. \A i \in DOMAIN events' : events'[i].kind # "sync"
      BY <3>1, EventIs
    <3>3. QED
      BY <2>1, <3>2 DEF EventsGrow, Registry!IsSync
  <2>3. Registry!Restoring' => Registry!Restoring
    BY <1>0, <2>1, <2>2 DEF Registry!Restoring
  <2>4. phase \in {"handback", "release"} => meddled' \/ UNCHANGED <<configured, meddled>>
    BY <2>1
  <2>5. CASE phase = "handback"
    <3>1. Registry!HandbackInv'
      BY <1>0, <2>1, <2>2, <2>5 DEF RestoreInv, Registry!HandbackInv, Registry!NothingToSet
    <3>2. QED
      BY <2>1, <2>4, <2>5, <3>1 DEF RestoreInv, Registry!Restorable, Registry!NothingToSet
  <2>6. CASE phase = "release"
    BY <2>1, <2>4, <2>6 DEF RestoreInv, Registry!NothingToSet
  <2>7. QED
    BY <1>1, <2>1, <2>3, <2>5, <2>6
<1>12. QED
  BY <1>2, <1>3, <1>4, <1>5, <1>6, <1>7, <1>8, <1>9, <1>10, <1>11, StaySteps

-----------------------------------------------------------------------------
(* The daemon's own sink *)

\* What a step of a switch does to the names.
LEMMA SwitchNames ==
  ASSUME Output!QueueInv, NEW c \in Clients,
         Output!BeginAssign(c) \/ Output!EndAssign(c) \/ Output!Invoke(c) \/ Output!Return(c)
  PROVE  /\ name' \in {name, switch[c].name, Torn} /\ UNCHANGED target
         /\ \A d \in Clients : switch'[d].name \in {switch[d].name, None}
BY DEF Output!QueueInv, Output!BeginAssign, Output!EndAssign, Output!Invoke, Output!Return,
       Output!To, Output!At, Output!Idle

\* What may be read of the name was put there by a client.
LEMMA ReadsNamed ==
  ASSUME ~named, OwnInv
  PROVE  Own \notin Output!Reads
BY DEF OwnInv, NeverFeedsBack, Output!Reads, Output!Assigning

\* The name of the daemon's own sink comes from a client, and goes with the start.
LEMMA OwnStep ==
  ASSUME RegistryTypes, Output!QueueInv, LifeTypes, OwnInv, [Next]_vars
  PROVE  OwnInv'
<1> USE DEF OwnInv, NeverFeedsBack
<1>1. CASE /\ UNCHANGED <<name, target, switch, saved, named>>
           /\ \/ phase' \in {"running", "stop", "restore", "handback", "release"}
              \/ phase \notin {"running", "stop", "restore", "handback", "release"}
  BY <1>1
<1>2. CASE StartOutput
  <2>1. /\ name' = InitialOutputDevice /\ target' = name' /\ saved' = name'
        /\ UNCHANGED switch /\ phase = "output"
    BY <1>2 DEF StartOutput, Output!Start, Output!Connect
  <2>2. InitialOutputDevice # Own
    BY InitialDeviceIs
  <2>3. QED
    BY <2>1, <2>2
<1>3. CASE LoopInvoke
  <2>1. PICK ok \in BOOLEAN : Output!ReconnectOnLoopThread(ok)
    BY <1>3 DEF LoopInvoke
  <2>2. /\ name' = name /\ target' \in Output!Reads
        /\ \A c \in Clients : switch'[c].name = switch[c].name
    BY <2>1 DEF Output!QueueInv, Output!ReconnectOnLoopThread, Output!Targets, Output!Connect,
                Output!Wake
  <2>3. UNCHANGED <<phase, saved, named>>
    BY <1>3 DEF LoopInvoke, fileVars
  <2>4. QED
    BY <2>2, <2>3, ReadsNamed
<1>4. ASSUME NEW c \in Clients, ClientBegins(c)  PROVE OwnInv'
  <2>1. PICK n \in Nameable : Output!Compare(c, n) /\ named' = (named \/ n = Own)
    BY <1>4 DEF ClientBegins
  <2>2. /\ UNCHANGED <<name, target, saved, phase>> /\ phase \in {"running", "handback"}
        /\ \A d \in Clients : switch'[d].name \in {switch[d].name, n}
    BY <1>4, <2>1 DEF ClientBegins, Output!Compare, Output!QueueInv
  <2>3. QED
    BY <2>1, <2>2
<1>5. ASSUME NEW c \in Clients, ClientSwitches(c)  PROVE OwnInv'
  <2>1. /\ Output!BeginAssign(c) \/ Output!EndAssign(c) \/ Output!Invoke(c)
        /\ UNCHANGED <<phase, saved, named>> /\ phase \in {"running", "stop", "restore", "handback"}
    BY <1>5 DEF ClientSwitches, Output!SetTargetNodeStep, fileVars, Served
  <2>2. QED
    BY <2>1, SwitchNames
<1>6. ASSUME NEW c \in Clients, ClientReturns(c)  PROVE OwnInv'
  <2>1. Output!Return(c) /\ saved' \in Output!Reads /\ UNCHANGED <<phase, named>>
    BY <1>6 DEF ClientReturns
  <2>2. UNCHANGED name
    BY <2>1 DEF Output!Return
  <2>3. QED
    BY <2>1, <2>2, SwitchNames, ReadsNamed
<1>7. CASE Release \/ Kill
  <2>1. name' = None /\ target' = None /\ \A c \in Clients : switch'[c].name = None
    BY <1>7 DEF Release, Kill, Ended, Output!Gone, Output!Idle
  <2>2. UNCHANGED <<saved, named>>
    BY <1>7 DEF Release, Kill, fileVars
  <2>3. QED
    BY <2>1, <2>2
<1>8. CASE UNCHANGED vars \/ Begin \/ LoopEvent \/ LoopSignal \/ Server \/ SessionChanges \/ Signal
  BY <1>1, <1>8 DEF vars, outputVars, fileVars, Begin, LoopEvent, LoopSignal, Server,
                    SessionChanges, Signal
<1>9. CASE StartSink \/ StartRegistry \/ EndInitialSync \/ StartServer
  BY <1>1, <1>9 DEF outputVars, fileVars, StartSink, StartRegistry, EndInitialSync, StartServer,
                    Broken, Fail
<1>10. CASE StopServer \/ RestorePreviousDefaultSink \/ EndRestore
  BY <1>1, <1>10 DEF outputVars, fileVars, StopServer, RestorePreviousDefaultSink, EndRestore
<1>11. QED
  BY <1>2, <1>3, <1>4, <1>5, <1>6, <1>7, <1>8, <1>9, <1>10, Actions

-----------------------------------------------------------------------------
(* The theorems *)

\* The output's flags keep being flags.
LEMMA OutputFlagStep ==
  ASSUME OutputFlags, [Next]_vars
  PROVE  OutputFlags'
<1> USE DEF OutputFlags
<1>1. CASE UNCHANGED outputVars
  BY <1>1 DEF outputVars
<1>2. ASSUME NEW t, NEW ok \in BOOLEAN, Output!Start(t, ok)  PROVE OutputFlags'
  BY <1>2, Zenon DEF Output!Start, Output!Connect
<1>3. ASSUME NEW ok \in BOOLEAN, Output!ReconnectOnLoopThread(ok)  PROVE OutputFlags'
  <2>1. failed' = ~ok /\ raced' = (raced \/ Output!Assigning # {})
    BY <1>3 DEF Output!ReconnectOnLoopThread, Output!Connect
  <2>2. QED
    BY <2>1, Zenon
<1>4. ASSUME NEW c \in Clients,
             Output!BeginAssign(c) \/ \E n \in Nameable : Output!Compare(c, n)
      PROVE  OutputFlags'
  <2>1. UNCHANGED failed /\ raced' = (raced \/ Output!Assigning # {})
    BY <1>4 DEF Output!BeginAssign, Output!Compare
  <2>2. QED
    BY <2>1, Zenon
<1>5. ASSUME NEW c \in Clients, Output!EndAssign(c) \/ Output!Invoke(c) \/ Output!Return(c)
      PROVE  OutputFlags'
  BY <1>5 DEF Output!EndAssign, Output!Invoke, Output!Return
<1>6. CASE Output!Gone
  BY <1>6 DEF Output!Gone
<1>7. QED
  BY <1>1, <1>2, <1>3, <1>4, <1>5, <1>6, OutputSteps

\* The inductive invariant, with its types one variable at a time.
AllParts ==
  /\ RegistryTypes /\ RegistryFlags
  /\ Registry!WireInv /\ Registry!ListenInv /\ Registry!MapInv /\ Registry!BindInv
  /\ OutputTypes /\ OutputFlags /\ Queued /\ Output!QueueInv /\ Output!PinInv
  /\ LifeTypes /\ LifeFlags
  /\ PhaseInv /\ WantedInv /\ RestoreInv /\ SavedDeviceKept /\ OwnInv

\* They are the same invariant.
LEMMA Parts == IInv <=> AllParts
<1>1. Registry!WireInv => (Registry!TypeOK <=> RegistryTypes /\ RegistryFlags)
  BY RegistryTyped
<1>2. Output!QueueInv => (Output!TypeOK <=> OutputTypes /\ Queued /\ OutputFlags)
  BY OutputTyped
<1>3. TypeOK <=> Registry!TypeOK /\ Output!TypeOK /\ LifeTypes /\ LifeFlags
  BY LifeTyped
<1>4. QED
  BY <1>1, <1>2, <1>3, Zenon DEF IInv, AllParts

\* Before the first start.
LEMMA InitParts == Init => AllParts
<1> SUFFICES ASSUME Init  PROVE AllParts
  OBVIOUS
<1>1. /\ graph \in [Registry!AllIds -> Names \cup {None}] /\ graph[OwnId] = None
      /\ configured \in Names \cup {None} /\ published \in BOOLEAN
      /\ listening = FALSE /\ bound = FALSE /\ requests = << >> /\ events = << >>
      /\ core = FALSE /\ devices = Registry!Empty
      /\ defaultMetadata = FALSE /\ captured = FALSE /\ previous = None
      /\ awaited = 0 /\ done = FALSE /\ atBind = None
  BY DEF Init, Registry!Init
<1>2. /\ OwnId \in Registry!AllIds /\ \A id \in Ids : id \in Registry!AllIds
      /\ devices \in [Registry!AllIds -> {None}]
      /\ requests \in Seq(Registry!Requests) /\ events \in Seq(Registry!Events)
      /\ DOMAIN requests = {} /\ DOMAIN events = {}
  BY <1>1 DEF Registry!AllIds, Registry!Empty
<1>3. RegistryTypes /\ RegistryFlags
  BY <1>1, <1>2 DEF RegistryTypes, RegistryFlags
<1>4. Registry!WireInv /\ Registry!ListenInv /\ Registry!MapInv
  BY <1>1, <1>2 DEF Registry!WireInv, Registry!ListenInv, Registry!MapInv
<1>5. Registry!BindInv /\ ~Registry!Restoring
  BY <1>1, <1>2 DEF Registry!BindInv, Registry!Restoring
<1>6. OutputTypes /\ OutputFlags /\ Queued /\ Output!QueueInv /\ Output!PinInv
  <2>1. /\ name = None /\ stream = "none" /\ target = None /\ invokes = << >>
        /\ switch = [c \in Clients |-> Output!Idle] /\ raced = FALSE /\ failed = FALSE
    BY DEF Init, Output!Init
  <2>2. /\ invokes \in Seq(Clients) /\ DOMAIN invokes = {}
        /\ \A c \in Clients : switch[c].step = "idle"
    BY <2>1 DEF Output!Idle
  <2>3. Output!Idle \in [step : {"idle", "begin", "assign", "invoke", "wait", "done"},
                        name : Nameable \cup {None}, ok : BOOLEAN]
    BY DEF Output!Idle
  <2>4. Output!QueueInv
    BY <2>1, <2>2, <2>3 DEF Output!QueueInv, Output!At
  <2>5. QED
    BY <2>1, <2>2, <2>4 DEF Output!At, OutputTypes, OutputFlags, Queued, Output!PinInv
<1>7. LifeTypes /\ LifeFlags
  <2>1. named \in BOOLEAN
    BY Zenon DEF Init
  <2>2. QED
    BY <2>1 DEF Init, LifeTypes, LifeFlags, Phases
<1>8. PhaseInv /\ WantedInv /\ RestoreInv /\ SavedDeviceKept
  BY <1>1, <1>5 DEF Init, PhaseInv, WantedInv, RestoreInv, SavedDeviceKept
<1>9. OwnInv
  BY DEF Init, Output!Init, Output!Idle, OwnInv, NeverFeedsBack
<1>10. QED
  BY <1>3, <1>4, <1>5, <1>6, <1>7, <1>8, <1>9 DEF AllParts

\* Every step keeps every part.
LEMMA StepParts == AllParts /\ [Next]_vars => AllParts'
<1> SUFFICES ASSUME AllParts, [Next]_vars  PROVE AllParts'
  OBVIOUS
<1>1. /\ RegistryTypes /\ RegistryFlags
      /\ Registry!WireInv /\ Registry!ListenInv /\ Registry!MapInv /\ Registry!BindInv
      /\ OutputTypes /\ OutputFlags /\ Queued /\ Output!QueueInv /\ Output!PinInv
      /\ LifeTypes /\ LifeFlags
      /\ PhaseInv /\ WantedInv /\ RestoreInv /\ SavedDeviceKept /\ OwnInv
  BY DEF AllParts
<1>2. RegistryTypes' /\ Registry!WireInv'
  BY <1>1, WireStep
<1>3. RegistryFlags' /\ OutputFlags'
  BY <1>1, FlagStep, OutputFlagStep
<1>4. Registry!ListenInv'
  BY <1>1, ListenStep
<1>5. Registry!BindInv'
  BY <1>1, <1>2, BindStep
<1>6. Registry!MapInv'
  BY <1>1, <1>2, MapStep
<1>7. OutputTypes' /\ Queued' /\ Output!QueueInv' /\ Output!PinInv'
  <2>1. InitialOutputDevice \in Nameable
    BY <1>1, InitialDeviceIs DEF Nameable
  <2>2. QED
    BY <1>1, <2>1, OutputStep
<1>8. LifeTypes' /\ LifeFlags'
  BY <1>1, LifeStep
<1>9. PhaseInv'
  BY <1>1, PhaseStep
<1>10. WantedInv' /\ SavedDeviceKept'
  BY <1>1, WantedStep
<1>11. RestoreInv'
  BY <1>1, <1>2, RestoreStep
<1>12. OwnInv'
  BY <1>1, OwnStep
<1>13. QED
  BY <1>2, <1>3, <1>4, <1>5, <1>6, <1>7, <1>8, <1>9, <1>10, <1>11, <1>12, Zenon DEF AllParts

\* The inductive invariant holds, however often the daemon is started, stopped and
\* killed and whatever the session does meanwhile.
THEOREM Invariance == Spec => []IInv
<1>1. Init => AllParts
  BY InitParts
<1>2. AllParts /\ [Next]_vars => AllParts'
  BY StepParts
<1>3. IInv <=> AllParts
  BY Parts
<1>4. QED
  BY <1>1, <1>2, <1>3, PTL DEF Spec

\* Every variable keeps its type, and the clients that wait are the ones queued.
THEOREM TypeCorrect == Spec => []TypeOK
<1>1. IInv => TypeOK
  BY DEF IInv
<1>2. QED
  BY <1>1, Invariance, PTL

\* HandleGlobalAdded and HandleGlobalRemoved: with no event left to dispatch the map
\* is the session's hardware sinks, whatever was plugged in and out and however often
\* an id was used again.
THEOREM MapIsCurrent == Spec => []DevicesCurrent
<1>1. IInv => DevicesCurrent
  <2> SUFFICES ASSUME AllParts, listening, events = << >>
               PROVE  devices = [id \in Registry!AllIds |->
                                   IF id = OwnId THEN None ELSE graph[id]]
    BY Parts DEF DevicesCurrent
  <2>1. /\ devices \in [Registry!AllIds -> Names \cup {None}] /\ devices[OwnId] = None
    BY DEF AllParts, RegistryTypes, Registry!WireInv
  <2>2. \A id \in Ids : devices[id] = graph[id]
    BY DEF AllParts, Registry!MapInv, Registry!Quiet
  <2>3. QED
    BY <2>1, <2>2 DEF Registry!AllIds
<1>2. QED
  BY <1>1, Invariance, PTL

\* Unless a client names it, the output is never pinned to the daemon's own sink, in this
\* run or in a later one that starts from the saved name; and a name one did give is
\* gone with the next start.
THEOREM NoFeedback == Spec => []NeverFeedsBack
<1>1. IInv => NeverFeedsBack
  BY DEF IInv, OwnInv
<1>2. QED
  BY <1>1, Invariance, PTL

\* RestorePreviousDefaultSink: an answered restore leaves the default the server had
\* when the object was bound, unless the user picked another one meanwhile.
THEOREM DefaultComesBack == Spec => []DefaultHandedBack
<1>1. IInv => DefaultHandedBack
  BY DEF IInv, RestoreInv, DefaultHandedBack
<1>2. QED
  BY <1>1, Invariance, PTL

\* ResolveInitialOutputDevice: a saved device that stays plugged in is the one used,
\* and saved again, if the initial sync is answered.
THEOREM SavedDeviceSurvives == Spec => []SavedDeviceKept
<1>1. IInv => SavedDeviceKept
  BY DEF IInv
<1>2. QED
  BY <1>1, Invariance, PTL

\* SetTargetNode: with no switch under way the stream is pinned to the node the status
\* names, for any number of clients that did not race on the string.
THEOREM SwitchesTakeForce == Spec => []OutputInForce
<1>1. IInv => OutputInForce
  <2> SUFFICES ASSUME IInv, phase = "running", ~raced, \A c \in Clients : Output!At(c, "idle")
               PROVE  target = name /\ (stream = "connected" \/ failed)
    BY DEF OutputInForce, IInv
  <2>1. stream # "none" /\ Output!PinInv
    BY DEF IInv, PhaseInv
  <2>2. \A c \in Clients : switch[c].step \notin {"assign", "invoke", "wait"}
    BY DEF Output!At
  <2>3. QED
    BY <2>1, <2>2 DEF Output!PinInv
<1>2. QED
  BY <1>1, Invariance, PTL

\* Run: what a killed run leaves behind does not keep the next one from starting.
THEOREM StartsAfterKill == Spec => []StartsUnlessFault
<1>1. IInv => StartsUnlessFault
  BY DEF IInv, PhaseInv, StartsUnlessFault
<1>2. QED
  BY <1>1, Invariance, PTL
=============================================================================
