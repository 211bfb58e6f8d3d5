-------------------------- MODULE DaemonLifecycle --------------------------
(***************************************************************************)
(* The life of ramkolfxd as AudioEngine::Run, Stop and Teardown order it   *)
(* (daemon/src/audio_engine.cpp): the sink, the device registry, the       *)
(* output and the control server are started one after the other, the main *)
(* loop runs until a signal, and everything is taken down again.  It       *)
(* composes DeviceRegistry and HardwareOutput, whose callbacks run on the  *)
(* loop that WaitForInitialSync, the main loop and the restore of the      *)
(* default sink iterate, while client threads switch the output and the    *)
(* user plugs devices in and out and picks default sinks.                  *)
(*                                                                         *)
(* A second instance that finds daemon.lock taken exits before it touches  *)
(* anything; the lock is released with the process, so that at most one    *)
(* instance is past it and only that one is modelled.  Stages, settings    *)
(* other than the device, and the catalog are ControlCommands' and         *)
(* HrtfDeck's.  What a client thread does between the end of the restore   *)
(* and the end of the process, when the engine's parts are destroyed under *)
(* it, has no defined outcome and is left out.                             *)
(***************************************************************************)
EXTENDS Integers, Sequences, SequencesExt, FiniteSets

CONSTANTS
  Clients, Ids, OwnId, Names, Own, Fallback, Torn, None,
  MaxActs  \* bound: starts, commands, changes of the session, failures, timeouts, kills

ASSUME IdsAssumption ==
  Ids \cup {OwnId} \subseteq Nat /\ OwnId \notin Ids /\ IsFiniteSet(Ids)
ASSUME NamesAssumption ==
  {Own, Torn, None} \cap Names = {} /\ Own # None /\ Torn \notin {Own, None}
ASSUME FallbackAssumption == Fallback \in Names

VARIABLES
  graph, configured, published, listening, bound, requests, events, atBind,
  core, devices, defaultMetadata, captured, previous, awaited, done,
  name, stream, target, switch, invokes, raced, failed,
  phase,      \* where Run is
  socketFile, \* the control socket's path exists
  saved,      \* OutputDeviceName in the settings file
  asked,      \* a SIGINT or SIGTERM waits for the loop
  abandoned,  \* history: Run has given up on starting this time
  fault,      \* history: a call to PipeWire or the socket has failed in this run
  forgotten,  \* history: a signal was handled while the main loop did not run
  synced,     \* history: the initial sync was answered
  wanted,     \* history: the device saved when the registry was started,
              \* as long as it has stayed plugged in
  gaveUp,     \* history: the restore was not answered
  meddled,    \* history: the user picked a default sink during the restore
  named,      \* history: a client has named the daemon's own sink since the output
              \* was last started
  acts

\* SetOutputDevice checks no name: a client may send the daemon's own sink's too.
Nameable == Names \cup {Own}

Registry == INSTANCE DeviceRegistry
Output   == INSTANCE HardwareOutput WITH Names <- Nameable

registryVars == <<graph, configured, published, listening, bound, requests, events, atBind,
                  core, devices, defaultMetadata, captured, previous, awaited, done>>
outputVars  == <<name, stream, target, switch, invokes, raced, failed>>
fileVars    == <<socketFile, saved, named>>
bootVars    == <<abandoned, fault, synced, wanted>>
signalVars  == <<asked, forgotten>>
handVars    == <<gaveUp, meddled>>
vars == <<registryVars, outputVars, phase, fileVars, bootVars, signalVars, handVars, acts>>

Phases == {"down", "sink", "registry", "sync", "output", "server",
           "running", "stop", "restore", "handback", "release"}

Init ==
  /\ Registry!Init /\ Output!Init
  /\ phase = "down" /\ socketFile = FALSE /\ asked = FALSE
  /\ saved \in Nameable \cup {None} /\ named = (saved = Own)
  /\ abandoned = FALSE /\ fault = FALSE /\ forgotten = FALSE /\ synced = FALSE
  /\ wanted = None /\ gaveUp = FALSE /\ meddled = FALSE
  /\ acts = 0

-----------------------------------------------------------------------------
(* Run *)

\* What is asked of the daemon, or goes against it, counts.
Act == acts < MaxActs /\ acts' = acts + 1

\* The lock, pw_init, the main loop, the signals, the stages.
Begin ==
  /\ phase = "down" /\ Act
  /\ phase' = "sink"
  /\ UNCHANGED <<registryVars, outputVars, fileVars, bootVars, signalVars, handVars>>

\* A part has not started: Teardown, and exit code 1.
Fail == phase' = "restore" /\ abandoned' = TRUE

Broken == Act /\ Fail /\ fault' = TRUE

StartSink ==
  /\ phase = "sink"
  /\ \/ /\ phase' = "registry" /\ Registry!OwnSinkAppears
        /\ UNCHANGED <<acts, abandoned, fault>>
     \/ Broken /\ UNCHANGED registryVars
  /\ UNCHANGED <<outputVars, fileVars, synced, wanted, signalVars, handVars>>

\* Start, and the request WaitForInitialSync begins with.
StartRegistry ==
  /\ phase = "registry"
  /\ \/ /\ phase' = "sync" /\ Registry!Start
        /\ wanted' = IF \E id \in Ids : graph[id] = saved THEN saved ELSE None
        /\ UNCHANGED <<acts, abandoned, fault>>
     \/ Broken /\ UNCHANGED <<registryVars, wanted>>
  /\ UNCHANGED <<outputVars, fileVars, synced, signalVars, handVars>>

\* Answered, or after a second: the result of WaitForInitialSync is not looked at.
EndInitialSync ==
  /\ phase = "sync" /\ phase' = "output"
  /\ \/ done /\ synced' = TRUE /\ UNCHANGED acts
     \/ ~done /\ Act /\ UNCHANGED synced
  /\ Registry!EndSync
  /\ UNCHANGED <<outputVars, fileVars, abandoned, fault, wanted, signalVars, handVars>>

InitialOutputDevice ==
  IF saved # None /\ Registry!HasDevice(saved) THEN saved
  ELSE IF Registry!PickAnyDevice # None THEN Registry!PickAnyDevice
  ELSE Fallback

\* A device other than the saved one is saved in its place.
StartOutput ==
  /\ phase = "output"
  /\ saved' = InitialOutputDevice /\ named' = FALSE
  /\ \/ /\ phase' = "server" /\ Output!Start(saved', TRUE)
        /\ UNCHANGED <<acts, abandoned, fault>>
     \/ Broken /\ Output!Start(saved', FALSE)
  /\ UNCHANGED <<registryVars, socketFile, synced, wanted, signalVars, handVars>>

\* Mutant: a socket left by a killed run stays where it is.
NoUnlink(entry) == entry

\* What bind finds at the path once the stale socket has been removed.
Unlink(entry) == FALSE

StartServer ==
  /\ phase = "server"
  /\ \/ /\ socketFile' = TRUE
        /\ phase' = IF Unlink(socketFile) THEN "restore" ELSE "running"
        /\ abandoned' = Unlink(socketFile)
        /\ UNCHANGED <<acts, fault>>
     \/ Broken /\ socketFile' = Unlink(socketFile)
  /\ wanted' = None /\ synced' = FALSE
  /\ UNCHANGED <<registryVars, outputVars, saved, named, signalVars, handVars>>

-----------------------------------------------------------------------------
(* The loop, wherever it is iterated *)

Iterating == phase \in {"sync", "running", "handback"}

LoopEvent ==
  /\ Iterating /\ Registry!Dispatch
  /\ UNCHANGED <<outputVars, phase, fileVars, bootVars, signalVars, handVars, acts>>

LoopInvoke ==
  /\ Iterating
  /\ \/ Output!ReconnectOnLoopThread(TRUE) /\ UNCHANGED acts
     \/ Output!ReconnectOnLoopThread(FALSE) /\ Act
  /\ UNCHANGED <<registryVars, phase, fileVars, bootVars, signalVars, handVars>>

\* Stop quits the main loop.  pw_main_loop_run begins by making it run: a quit
\* from before leaves nothing behind.
LoopSignal ==
  /\ Iterating /\ asked /\ asked' = FALSE
  /\ \/ phase = "running" /\ phase' = "stop" /\ UNCHANGED forgotten
     \/ phase = "sync" /\ forgotten' = TRUE /\ UNCHANGED phase
  /\ UNCHANGED <<registryVars, outputVars, fileVars, bootVars, handVars, acts>>

-----------------------------------------------------------------------------
(* Teardown *)

\* Mutant: Stop joins the threads of the clients as well.
ClientsJoined == \A c \in Clients : Output!At(c, "idle")

Joined == TRUE

\* ControlServer::Stop: joins the accept thread; client threads are detached.
StopServer ==
  /\ phase = "stop" /\ Joined /\ phase' = "restore"
  /\ socketFile' = FALSE
  /\ UNCHANGED <<registryVars, outputVars, saved, named, bootVars, signalVars, handVars, acts>>

RestorePreviousDefaultSink ==
  /\ phase = "restore"
  /\ \/ Registry!Restorable /\ Registry!RestorePreviousDefaultSink /\ phase' = "handback"
     \/ ~Registry!Restorable /\ phase' = "release" /\ UNCHANGED registryVars
  /\ UNCHANGED <<outputVars, fileVars, bootVars, signalVars, handVars, acts>>

EndRestore ==
  /\ phase = "handback" /\ phase' = "release"
  /\ \/ done /\ UNCHANGED <<gaveUp, acts>>
     \/ ~done /\ gaveUp' = TRUE /\ Act
  /\ Registry!EndSync
  /\ UNCHANGED <<outputVars, fileVars, bootVars, signalVars, meddled>>

\* The process is gone, and what the model remembers of it.
Ended ==
  /\ phase' = "down" /\ asked' = FALSE
  /\ Registry!Vanish /\ Output!Gone
  /\ abandoned' = FALSE /\ fault' = FALSE /\ forgotten' = FALSE /\ synced' = FALSE
  /\ wanted' = None /\ gaveUp' = FALSE /\ meddled' = FALSE

\* The parts are destroyed and the process ends, with its threads and its lock.
Release ==
  /\ phase = "release" /\ Ended
  /\ UNCHANGED <<fileVars, acts>>

Kill ==
  /\ phase # "down" /\ Act /\ Ended
  /\ UNCHANGED fileVars

-----------------------------------------------------------------------------
(* Client threads, the server of PipeWire, the user *)

\* A connection outlives ControlServer::Stop.
Served == phase \in {"running", "stop", "restore", "handback"}

ClientBegins(c) ==
  /\ phase \in {"running", "handback"} /\ Act
  /\ \E n \in Nameable : Output!Compare(c, n) /\ named' = (named \/ n = Own)
  /\ UNCHANGED <<registryVars, phase, socketFile, saved, bootVars, signalVars, handVars>>

ClientSwitches(c) ==
  /\ Served /\ Output!SetTargetNodeStep(c)
  /\ UNCHANGED <<registryVars, phase, fileVars, bootVars, signalVars, handVars, acts>>

\* The status is read and saved, whether or not the switch has succeeded.
ClientReturns(c) ==
  /\ Served /\ Output!Return(c)
  /\ saved' \in Output!Reads
  /\ UNCHANGED <<registryVars, phase, socketFile, named, bootVars, signalVars, handVars, acts>>

Server ==
  /\ Registry!ServerStep
  /\ UNCHANGED <<outputVars, phase, fileVars, bootVars, signalVars, handVars, acts>>

SessionChanges ==
  /\ Act
  /\ \/ \E id \in Ids, n \in Names : Registry!PlugIn(id, n) /\ UNCHANGED <<wanted, meddled>>
     \/ \E id \in Ids :
          /\ Registry!Unplug(id)
          /\ wanted' = IF graph[id] = wanted THEN None ELSE wanted
          /\ UNCHANGED meddled
     \/ \E n \in Names :
          /\ Registry!UserConfigures(n)
          /\ meddled' = (meddled \/ phase \in {"handback", "release"})
          /\ UNCHANGED wanted
     \/ Registry!PublishMetadata /\ UNCHANGED <<wanted, meddled>>
  /\ UNCHANGED <<outputVars, phase, fileVars, abandoned, fault, synced, signalVars, gaveUp>>

\* One that arrives while the loop is not iterated waits until it is, and one
\* that comes later changes nothing.
Signal ==
  /\ phase \in {"sync", "running"} /\ ~asked /\ asked' = TRUE
  /\ UNCHANGED <<registryVars, outputVars, phase, fileVars, bootVars, forgotten, handVars, acts>>

Run ==
  \/ StartSink \/ StartRegistry \/ EndInitialSync \/ StartOutput \/ StartServer
  \/ StopServer \/ RestorePreviousDefaultSink \/ EndRestore \/ Release

Next ==
  \/ Begin \/ Run \/ LoopEvent \/ LoopInvoke \/ LoopSignal \/ Server
  \/ \E c \in Clients : ClientBegins(c) \/ ClientSwitches(c) \/ ClientReturns(c)
  \/ Kill \/ SessionChanges \/ Signal

\* The process is scheduled and the server answers; nobody has to start the
\* daemon, to stop it, to plug anything in or to send a command.
Fairness ==
  /\ WF_vars(Run) /\ WF_vars(LoopEvent) /\ WF_vars(LoopInvoke) /\ WF_vars(LoopSignal)
  /\ WF_vars(Server)
  /\ \A c \in Clients : WF_vars(ClientSwitches(c)) /\ WF_vars(ClientReturns(c))

Spec == Init /\ [][Next]_vars /\ Fairness

-----------------------------------------------------------------------------
TypeOK ==
  /\ Registry!TypeOK /\ Output!TypeOK
  /\ phase \in Phases
  /\ saved \in Nameable \cup {Torn, None} /\ wanted \in Names \cup {None}
  /\ {socketFile, asked, abandoned, fault, forgotten, synced, gaveUp, meddled, named}
       \subseteq BOOLEAN

\* HandleGlobalAdded, HandleGlobalRemoved: with no event left to dispatch the
\* map is the session's hardware sinks, however ids are reused, and never lists
\* the daemon's own sink.
DevicesCurrent ==
  listening /\ events = << >> =>
    devices = [id \in Registry!AllIds |-> IF id = OwnId THEN None ELSE graph[id]]

\* "Makes it safe to set the virtual sink as the default" (hardware_output.hpp:22-26),
\* as far as it holds: SetOutputDevice checks no name, so a client that names the
\* daemon's own sink has the output pinned to it, and the name saved.  Nothing else
\* does: not the listing of the devices, the choice at the start or a switch of other
\* clients; and the next start takes another device, and saves that, whatever is there.
NeverFeedsBack == ~named => Own \notin {name, target, saved}

\* RestorePreviousDefaultSink (device_registry.hpp:98-106): once the restore is
\* answered the default is what the server had when the object was bound, in
\* spite of the claim made at once and of what the user picked meanwhile.  It is
\* the daemon's own sink only if nothing, or that, was configured.  If the daemon
\* ended before the first property reached it nothing is restored at all.
DefaultHandedBack ==
  phase = "release" /\ captured /\ atBind # None /\ ~gaveUp /\ ~meddled =>
    configured = atBind

\* ResolveInitialOutputDevice: a saved device that is plugged in from before the
\* registry is started is the one used, and stays the one saved, if the initial
\* sync is answered.
SavedDeviceKept == phase = "server" /\ synced /\ wanted # None => saved = wanted

\* SetTargetNode: with no switch under way the stream is pinned to the node the
\* status names, and connected to it unless the last connect failed, whichever
\* way two clients' switches were interleaved, if they did not race on the string.
\* A client that waits is queued on the loop, once, as the types say.
OutputInForce ==
  /\ TypeOK
  /\ phase = "running" /\ ~raced /\ (\A c \in Clients : Output!At(c, "idle")) =>
       target = name /\ (stream = "connected" \/ failed)

\* Run: what a killed run leaves behind (the socket's path, the claimed default,
\* a saved device) does not keep the next from starting.
StartsUnlessFault == abandoned => fault

\* SetTargetNode blocks until the loop has run it: it returns, or the process
\* ends, also when the loop is left while a client waits.
SwitchReturns == \A c \in Clients : ~Output!At(c, "idle") ~> Output!At(c, "idle")

\* Stop and Teardown: a signal ends the process, unless the loop handled it in
\* WaitForInitialSync, before there was a run to quit.
StopsWhenAsked == asked ~> (phase = "down" \/ forgotten)
-----------------------------------------------------------------------------
(* The inductive invariant behind the safety properties *)

\* What each phase of Run stands on.
PhaseInv ==
  /\ phase \in {"down", "sink", "registry"} => ~core
  /\ awaited = CASE phase = "sync"     -> Registry!InitialSync
                 [] phase = "handback" -> Registry!RestoreSync
                 [] OTHER              -> 0
  /\ phase \in {"down", "sink", "registry", "sync"} => ~synced
  /\ phase \in {"server", "running"} => stream # "none"
  /\ abandoned => fault

\* The saved device from before the start is plugged in, and known once the
\* initial sync is answered.
WantedInv ==
  /\ phase \in {"sync", "output"} /\ wanted # None =>
       saved = wanted /\ \E id \in Ids : graph[id] = wanted
  /\ phase = "sync" /\ wanted # None => Registry!SyncInv(wanted)
  /\ phase = "output" /\ synced /\ wanted # None =>
       \E id \in Ids : graph[id] = wanted /\ devices[id] = wanted

\* The restore is asked for once, and what it sets stays until the user's choice.
RestoreInv ==
  /\ phase \notin {"handback", "release"} => ~Registry!Restoring
  /\ phase = "handback" =>
       /\ Registry!Restorable /\ Registry!HandbackInv
       /\ Registry!NothingToSet => meddled \/ configured = previous
  /\ phase = "release" /\ captured /\ atBind # None /\ ~gaveUp =>
       Registry!NothingToSet /\ (meddled \/ configured = atBind)

\* No client has begun a switch before the server is started, and as long as none has
\* named the daemon's own sink its name is nowhere a device is taken from.
OwnInv ==
  /\ phase \notin {"running", "stop", "restore", "handback", "release"} =>
       \A c \in Clients : switch[c].name = None
  /\ NeverFeedsBack
  /\ ~named => \A c \in Clients : switch[c].name # Own

IInv ==
  /\ TypeOK
  /\ Registry!WireInv /\ Registry!ListenInv /\ Registry!MapInv /\ Registry!BindInv
  /\ Output!QueueInv /\ Output!PinInv
  /\ PhaseInv /\ WantedInv /\ RestoreInv /\ SavedDeviceKept /\ OwnInv
=============================================================================
