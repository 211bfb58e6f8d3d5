--------------------------- MODULE DeviceRegistry ---------------------------
(***************************************************************************)
(* DeviceRegistry (daemon/src/device_registry.cpp) on its connection to    *)
(* the PipeWire server: the map of hardware sinks it keeps from the        *)
(* server's events, and the system's default sink, which it claims for the *)
(* daemon's own virtual sink and hands back at the end.                    *)
(*                                                                         *)
(* Requests and events are two queues.  The server, which is not part of   *)
(* the repository, carries the requests of a connection out in order; it   *)
(* answers a registry with one event for each global there is, a bound     *)
(* metadata object with the properties it holds, and tells of every change *)
(* from then on.  A global's id is free for another one once it is gone.   *)
(*                                                                         *)
(* Only what passes the tests of HandleGlobalAdded is a global here: the   *)
(* "default" metadata object and the sinks with a name, the daemon's own   *)
(* among them.  Only default.configured.audio.sink is a property.          *)
(***************************************************************************)
EXTENDS Integers, Sequences, SequencesExt, FiniteSetsExt

CONSTANTS
  Ids,        \* global ids of hardware sinks
  OwnId,      \* the id of the virtual sink's node
  Names,      \* node names of hardware sinks
  Own,        \* VirtualSink::NodeName
  None

VARIABLES
  graph,       \* server: per id, the name of the sink that has it
  configured,  \* server: default.configured.audio.sink
  published,   \* server: the session manager has put the metadata object there
  listening, bound,  \* server: the connection's registry, its metadata object
  requests, events,
  core,        \* Core, with Registry and its listener, is there
  devices,     \* DevicesById
  defaultMetadata, captured, previous,
                \* DefaultMetadata, bCapturedPreviousDefaultSink, PreviousDefaultSinkValue
  awaited, done,  \* CoreSyncState: the PendingSeq of the sync under way, and bDone
  atBind       \* history: what was configured when the server bound the object

serverVars   == <<graph, configured, published>>
wireVars     == <<listening, bound, requests, events, atBind>>
registryVars == <<core, devices, defaultMetadata, captured, previous>>
syncVars     == <<awaited, done>>
vars == <<serverVars, wireVars, registryVars, syncVars>>

AllIds == Ids \cup {OwnId}
InitialSync == 1
RestoreSync == 2

GetRegistry == [kind |-> "registry"]
Sync(seq)   == [kind |-> "sync", seq |-> seq]
Bind        == [kind |-> "bind"]
Set(v)      == [kind |-> "set", value |-> v]

Added(id, n)  == [kind |-> "added", id |-> id, name |-> n]
Removed(id)   == [kind |-> "removed", id |-> id]
Metadata      == [kind |-> "metadata"]
Property(v)   == [kind |-> "property", value |-> v]
Done(seq)     == [kind |-> "done", seq |-> seq]

Empty == [id \in AllIds |-> None]

\* The connection and the object as they are before Start and after the end.
Disconnected ==
  /\ listening' = FALSE /\ bound' = FALSE /\ requests' = << >> /\ events' = << >>
  /\ core' = FALSE /\ devices' = Empty
  /\ defaultMetadata' = FALSE /\ captured' = FALSE /\ previous' = None
  /\ awaited' = 0 /\ done' = FALSE /\ atBind' = None

Init ==
  /\ graph \in {g \in [AllIds -> Names \cup {None}] :
                  /\ g[OwnId] = None
                  /\ \A i, j \in Ids : i # j /\ g[i] # None => g[i] # g[j]}
  /\ configured \in Names \cup {None} /\ published \in BOOLEAN
  /\ listening = FALSE /\ bound = FALSE /\ requests = << >> /\ events = << >>
  /\ core = FALSE /\ devices = Empty
  /\ defaultMetadata = FALSE /\ captured = FALSE /\ previous = None
  /\ awaited = 0 /\ done = FALSE /\ atBind = None

-----------------------------------------------------------------------------
(* The server and the rest of the session *)

Told(evs) == events' = events \o evs

IfListening(evs) == Told(IF listening THEN evs ELSE << >>)

PlugIn(id, n) ==
  /\ graph[id] = None /\ n \notin ToSet(graph)
  /\ graph' = [graph EXCEPT ![id] = n]
  /\ IfListening(<<Added(id, n)>>)
  /\ UNCHANGED <<configured, published, listening, bound, requests, atBind, registryVars,
                 syncVars>>

Unplug(id) ==
  /\ graph[id] # None
  /\ graph' = [graph EXCEPT ![id] = None]
  /\ IfListening(<<Removed(id)>>)
  /\ UNCHANGED <<configured, published, listening, bound, requests, atBind, registryVars,
                 syncVars>>

PublishMetadata ==
  /\ ~published /\ published' = TRUE
  /\ IfListening(<<Metadata>>)
  /\ UNCHANGED <<graph, configured, listening, bound, requests, atBind, registryVars, syncVars>>

Configure(v) ==
  /\ configured' = v
  /\ Told(IF bound THEN <<Property(v)>> ELSE << >>)

\* The user picks another default sink, as a volume mixer does.
UserConfigures(n) ==
  /\ published /\ n # configured
  /\ Configure(n)
  /\ UNCHANGED <<graph, published, listening, bound, requests, atBind, registryVars, syncVars>>

\* In some order, which no property depends on.
Globals ==
  LET sinks == SetToSeq({id \in AllIds : graph[id] # None})
  IN  [i \in DOMAIN sinks |-> Added(sinks[i], graph[sinks[i]])]
        \o (IF published THEN <<Metadata>> ELSE << >>)

\* The properties the object holds.  None for a key without a value, or a
\* null value: HandleMetadataProperty is ready for both.
Dump == IF configured # None THEN {<<Property(configured)>>} ELSE {<< >>, <<Property(None)>>}

ServerStep ==
  /\ requests # << >>
  /\ requests' = Tail(requests)
  /\ LET r == Head(requests)
     IN  \/ /\ r.kind = "registry"
            /\ listening' = TRUE /\ Told(Globals)
            /\ UNCHANGED <<configured, bound, atBind>>
         \/ /\ r.kind = "sync"
            /\ Told(<<Done(r.seq)>>)
            /\ UNCHANGED <<configured, listening, bound, atBind>>
         \/ /\ r.kind = "bind"
            /\ bound' = TRUE /\ atBind' = configured
            /\ \E d \in Dump : Told(d)
            /\ UNCHANGED <<configured, listening>>
         \/ /\ r.kind = "set"
            /\ Configure(r.value)
            /\ UNCHANGED <<listening, bound, atBind>>
  /\ UNCHANGED <<graph, published, registryVars, syncVars>>

\* VirtualSink::Start's stream becomes a global, and leaves with the process.
OwnSinkAppears ==
  /\ graph' = [graph EXCEPT ![OwnId] = Own]
  /\ UNCHANGED <<configured, published, wireVars, registryVars, syncVars>>

\* The process is gone: the server closes its connection.  A claim that has not
\* been read is lost with it.
Vanish ==
  /\ graph' = [graph EXCEPT ![OwnId] = None]
  /\ Disconnected
  /\ UNCHANGED <<configured, published>>

-----------------------------------------------------------------------------
(* DeviceRegistry *)

\* Mutant: the sync is asked for before the registry.
FirstRequestsSwapped == <<Sync(InitialSync), GetRegistry>>

FirstRequests == <<GetRegistry, Sync(InitialSync)>>

\* The first half of WaitForInitialSync and of RestorePreviousDefaultSink.
AwaitCore(seq) == awaited' = seq /\ done' = FALSE

\* Start, and WaitForInitialSync up to the first iteration of the loop.
Start ==
  /\ core' = TRUE /\ requests' = FirstRequests /\ AwaitCore(InitialSync)
  /\ UNCHANGED <<serverVars, listening, bound, events, atBind, devices, defaultMetadata,
                 captured, previous>>

OnCoreDone(seq) == done' = (done \/ seq = awaited)

\* Mutant: the daemon's own sink is a device like the others.
AddAnySink(id, n) == devices' = [devices EXCEPT ![id] = n]

AddSink(id, n) == devices' = IF n = Own THEN devices ELSE [devices EXCEPT ![id] = n]

\* Binds the object, listens to it and claims the default, in this order.
BindAndClaim ==
  /\ defaultMetadata' = TRUE
  /\ requests' = IF defaultMetadata THEN requests ELSE requests \o <<Bind, Set(Own)>>

\* Mutant: a device that is gone stays known.
ForgetNothing(id) == devices

HandleGlobalRemoved(id) == [devices EXCEPT ![id] = None]

\* Mutant: the last value is kept, and not the first.
CaptureLast(v) == captured' = TRUE /\ previous' = IF v # None THEN v ELSE previous

HandleMetadataProperty(v) ==
  /\ captured' = TRUE
  /\ previous' = IF ~captured /\ v # None THEN v ELSE previous

\* One event, on whichever thread iterates the loop.
Dispatch ==
  /\ core /\ events # << >>
  /\ events' = Tail(events)
  /\ LET e == Head(events)
     IN  \/ /\ e.kind = "added" /\ AddSink(e.id, e.name)
            /\ UNCHANGED <<requests, defaultMetadata, captured, previous, done>>
         \/ /\ e.kind = "metadata" /\ BindAndClaim
            /\ UNCHANGED <<devices, captured, previous, done>>
         \/ /\ e.kind = "removed" /\ devices' = HandleGlobalRemoved(e.id)
            /\ UNCHANGED <<requests, defaultMetadata, captured, previous, done>>
         \/ /\ e.kind = "property" /\ HandleMetadataProperty(e.value)
            /\ UNCHANGED <<requests, devices, defaultMetadata, done>>
         \/ /\ e.kind = "done" /\ OnCoreDone(e.seq)
            /\ UNCHANGED <<requests, devices, defaultMetadata, captured, previous>>
  /\ UNCHANGED <<serverVars, listening, bound, atBind, core, awaited>>

\* The wait is over, with or without an answer: its listener is removed.
EndSync ==
  /\ awaited' = 0 /\ done' = FALSE
  /\ UNCHANGED <<serverVars, wireVars, registryVars>>

Restorable == defaultMetadata /\ core /\ previous # None

RestorePreviousDefaultSink ==
  /\ AwaitCore(RestoreSync)
  /\ requests' = requests \o <<Set(previous), Sync(RestoreSync)>>
  /\ UNCHANGED <<serverVars, listening, bound, events, atBind, registryVars>>

HasDevice(n) == n \in ToSet(devices)

\* The one with the lowest id.
PickAnyDevice ==
  LET known == {id \in AllIds : devices[id] # None}
  IN  IF known = {} THEN None ELSE devices[Min(known)]

-----------------------------------------------------------------------------
TypeOK ==
  /\ graph \in [AllIds -> Names \cup {Own, None}]
  /\ {configured, previous, atBind} \subseteq Names \cup {Own, None}
  /\ {published, listening, bound, core, defaultMetadata, captured, done} \subseteq BOOLEAN
  /\ devices \in [AllIds -> Names \cup {None}]
  /\ awaited \in {0, InitialSync, RestoreSync}
  /\ \A i \in DOMAIN requests : requests[i].kind \in {"registry", "sync", "bind", "set"}
  /\ \A i \in DOMAIN events :
       events[i].kind \in {"added", "removed", "metadata", "property", "done"}
-----------------------------------------------------------------------------
(* The inductive invariant's part about the connection *)

Requests ==
  {GetRegistry, Bind} \cup {Sync(q) : q \in {InitialSync, RestoreSync}}
    \cup {Set(v) : v \in Names \cup {Own}}

Events ==
  {Added(id, n) : id \in Ids, n \in Names} \cup {Added(OwnId, Own), Metadata}
    \cup {Removed(id) : id \in Ids}
    \cup {Property(v) : v \in Names \cup {Own, None}}
    \cup {Done(q) : q \in {InitialSync, RestoreSync}}

\* What the session has and what travels.
WireInv ==
  /\ graph[OwnId] \in {Own, None} /\ \A id \in Ids : graph[id] \in Names \cup {None}
  /\ requests \in Seq(Requests) /\ events \in Seq(Events)
  /\ devices[OwnId] = None

\* The registry is asked for first, and once.
ListenInv ==
  /\ ~core => ~listening /\ requests = << >>
  /\ IF listening
     THEN \A i \in DOMAIN requests : requests[i].kind # "registry"
     ELSE /\ events = << >> /\ devices = Empty
          /\ ~defaultMetadata /\ ~captured /\ ~done
          /\ requests \in {<< >>, FirstRequests}

\* Event i tells of the sink that has this id, or had it.
About(i, id) == events[i].kind \in {"added", "removed"} /\ events[i].id = id

Quiet(id) == \A i \in DOMAIN events : ~About(i, id)

\* The last event about an id tells what the session has there; with none left
\* the map has it.
MapInv ==
  listening =>
    \A id \in Ids :
      /\ Quiet(id) => devices[id] = graph[id]
      /\ \A i \in DOMAIN events :
           About(i, id) /\ (\A j \in DOMAIN events : j > i => ~About(j, id)) =>
             graph[id] = IF events[i].kind = "added" THEN events[i].name ELSE None

\* Event i is the first property of the object that is still to be handled.
FirstProperty(i) ==
  /\ events[i].kind = "property"
  /\ \A j \in DOMAIN events : j < i => events[j].kind # "property"

\* The object is bound once, and told first what it held then.
BindInv ==
  /\ ~defaultMetadata =>
       ~bound /\ \A i \in DOMAIN requests : requests[i].kind \notin {"bind", "set"}
  /\ \A i \in DOMAIN requests : requests[i].kind = "bind" =>
       ~bound /\ \A j \in DOMAIN requests : requests[j].kind = "bind" => i = j
  /\ ~bound => /\ ~captured /\ atBind = None
               /\ \A i \in DOMAIN events : events[i].kind # "property"
  /\ ~captured => previous = None
  /\ atBind # None => IF captured THEN previous = atBind
                      ELSE \E i \in DOMAIN events : FirstProperty(i) /\ events[i].value = atBind

IsSync(m, q) == m.kind \in {"sync", "done"} /\ m.seq = q

\* The restore's sync, asked for or answered.
Restoring ==
  \/ \E i \in DOMAIN requests : IsSync(requests[i], RestoreSync)
  \/ \E i \in DOMAIN events : IsSync(events[i], RestoreSync)

\* No claim and no restore is left for the server to carry out.
NothingToSet == \A i \in DOMAIN requests : requests[i].kind # "set"

\* While the answer is awaited the old default is set, or the last to be set.
HandbackInv ==
  /\ \A i \in DOMAIN requests :
       requests[i].kind = "set" /\ (\A j \in DOMAIN requests : j > i => requests[j].kind # "set")
         => requests[i].value = previous
  /\ \A i, j \in DOMAIN requests :
       IsSync(requests[i], RestoreSync) /\ requests[j].kind = "set" => j < i
  /\ (done \/ \E i \in DOMAIN events : IsSync(events[i], RestoreSync)) => NothingToSet

\* What was there before the registry was asked for is told before the answer.
SyncInv(n) ==
  \A id \in Ids : graph[id] = n =>
    /\ done => Quiet(id)
    /\ \A i, j \in DOMAIN events : About(i, id) /\ IsSync(events[j], InitialSync) => i < j
=============================================================================
