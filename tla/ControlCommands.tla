-------------------------- MODULE ControlCommands --------------------------
(***************************************************************************)
(* The settings of the daemon on their way through AudioEngine             *)
(* (daemon/src/audio_engine.cpp): commands of several clients put them in  *)
(* force and save them (HandleControlCommand, PersistCurrentSettings), the *)
(* next start loads them (Run), and the HRTF among them is an index into a *)
(* catalog the main loop rebuilds whenever the user's directory changes    *)
(* (RebuildHrtfCatalog).  The file is module SettingsFile's.               *)
(*                                                                         *)
(* Three settings stand for all: "layout" for those stored in an atomic    *)
(* of their own (mode, near field, azimuths, distances, mutes), "eq" for   *)
(* the two kept under a mutex and handed to a stage (one band for ten, and *)
(* the bass enhancer), "hrtf" for the catalog entry in force.  What the    *)
(* deck does with a layout or an entry is module HrtfDeck's.  The output   *)
(* device shows only in whether the start finds the saved one.             *)
(*                                                                         *)
(* A layout or a curve is one at the six digits Save prints a number with, *)
(* with the distances SpeakerLayout clamps; an entry is its display name,  *)
(* which no two files share.  RAMKOLFX_HRTF_SOFA is not set.               *)
(***************************************************************************)
EXTENDS Integers, FiniteSets, Sequences, SequencesExt

CONSTANTS
  Clients,          \* threads of ControlServer::HandleClient
  Main,             \* the thread of the PipeWire main loop
  None,
  Layouts, BuiltinLayout, ZeroLayout,  \* SpeakerLayout's own; all zero
  Curves, DefaultCurve,                \* DefaultHwEqBands
  Bundled,          \* BuildHrtfCatalog's entries, the default one first
  UserFiles,        \* the .sofa files that come and go, in the order of their paths
  FirstFiles,       \* those there when the daemon first starts
  MaxCatalogEntries,
  MaxCommands, MaxKills, MaxChanges  \* bounds of the model

ASSUME CatalogAssumption ==
  /\ MaxCatalogEntries \in Nat /\ Bundled \in Seq(ToSet(Bundled))
  /\ Len(Bundled) \in 1 .. MaxCatalogEntries /\ ToSet(Bundled) \cap UserFiles = {}
ASSUME FilesAssumption ==
  FirstFiles \subseteq UserFiles /\ UserFiles \subseteq Int /\ IsFiniteSet(UserFiles)
ASSUME ThreadsAssumption == IsFiniteSet(Clients) /\ Main \notin Clients
ASSUME DefaultsAssumption ==
  {BuiltinLayout, ZeroLayout} \subseteq Layouts /\ DefaultCurve \in Curves

VARIABLES
  contents, settingsEntry, tempEntry, saving, text, descriptor, raced, refused, lost,
  phase,     \* of Run: "down", "watch", "device", "saved", "up"
  layout,    \* SharedLayout, Mode, bNearFieldEnabled
  eq, eqStage,  \* HwEqBandState, and the curve last published to HwEq
  loaded,    \* the entry last given to AdvancedStage
  catalog, activeIndex,  \* RuntimeHrtfCatalog and ActiveHrtfIndex
  from,      \* Run's LoadedSettings
  dir,       \* the user's files
  watched, event,  \* an inotify watch exists; it has something to read
  scan,      \* the main loop's NewCatalog, not yet in place
  cmd,       \* per client: where its command is, and its locals
  commands, kills, changes,
  promised,  \* history: the settings whose last command met no other, and was saved
  alone,     \* history: the command in progress has met no other so far
  missed,    \* history: the directory changed while there was no watch
  adrift     \* history: the active entry left the catalog, or was not alone

File == INSTANCE SettingsFile WITH Processes <- Clients \cup {Main}

saveVars    == <<contents, settingsEntry, tempEntry, saving, text, descriptor, raced,
                  refused, lost>>
forceVars   == <<layout, eq, eqStage, loaded>>
catalogVars == <<catalog, activeIndex, scan, adrift>>
dirVars     == <<dir, watched, event, missed, changes>>
bootVars    == <<phase, from, kills>>
cmdVars     == <<cmd, commands, promised, alone>>
vars == <<saveVars, forceVars, catalogVars, dirVars, bootVars, cmdVars>>

Entries  == ToSet(Bundled) \cup UserFiles
Settings == [layout: Layouts, eq: Curves, hrtf: Entries \cup {None}]
Ops      == {"layout", "eq", "hrtf"}

\* PersistedSettings{}: what a missing key loads as, and what the first start saves.
Defaults == [layout |-> ZeroLayout, eq |-> DefaultCurve, hrtf |-> None]

\* None is no inode, no text, no catalog and no kind of setting.
ASSUME NoneAssumption ==
  None \notin Int /\ None \notin Settings /\ None \notin Seq(Entries) /\ None \notin Ops

\* The files by path.
ScanUserHrtfDirectory(d) == CHOOSE s \in [1 .. Cardinality(d) -> d] : IsSorted(s, <)

\* BuildHrtfCatalog, then the user's files, then the limit.
Listing(d) ==
  LET all == Bundled \o ScanUserHrtfDirectory(d)
  IN  SubSeq(all, 1, IF Len(all) < MaxCatalogEntries THEN Len(all) ELSE MaxCatalogEntries)

NoCmd == [step |-> "idle", op |-> None, value |-> None, held |-> None, index |-> 0,
          snapshot |-> Defaults]

Nothing == [op \in Ops |-> None]

Init ==
  /\ File!Init
  /\ phase = "down" /\ from = None /\ kills = 0
  /\ layout = BuiltinLayout /\ eq = DefaultCurve /\ eqStage = DefaultCurve
  /\ loaded = Bundled[1]
  /\ catalog = << >> /\ activeIndex = 1 /\ scan = None /\ adrift = FALSE
  /\ dir = FirstFiles /\ watched = FALSE /\ event = FALSE /\ missed = FALSE
  /\ changes = 0
  /\ cmd = [c \in Clients |-> NoCmd] /\ commands = 0
  /\ promised = Nothing /\ alone = FALSE

-----------------------------------------------------------------------------
(* Run *)

\* Settings.Load, and RebuildHrtfCatalog on an empty catalog.  A file without
\* a single line is a file: every key falls back to PersistedSettings' default.
Load ==
  /\ phase = "down"
  /\ phase' = "watch"
  /\ LET stored == IF File!Exists THEN File!Stored ELSE None
         l == IF stored = None THEN Defaults ELSE stored
     IN  /\ from' = stored
         /\ layout' = IF File!Exists THEN l.layout ELSE BuiltinLayout
         /\ eq' = l.eq /\ eqStage' = l.eq
  /\ catalog' = Listing(dir)
  /\ UNCHANGED <<saveVars, loaded, activeIndex, scan, adrift, dirVars, kills, cmdVars>>

\* The watch, or none if inotify fails; then the saved entry by its name, or the
\* default one.
WatchAndResolve ==
  /\ phase = "watch"
  /\ phase' = "device"
  /\ watched' \in BOOLEAN
  /\ LET saved == {i \in DOMAIN catalog : from # None /\ from.hrtf = catalog[i]}
         i == IF saved = {} THEN 1 ELSE CHOOSE j \in saved : TRUE
     IN  activeIndex' = i /\ loaded' = catalog[i]
  /\ UNCHANGED <<saveVars, layout, eq, eqStage, catalog, scan, adrift, dir, event,
                 missed, changes, from, kills, cmdVars>>

\* Mutant: the new device is saved with the defaults, not with what was loaded.
ToSaveAfresh == Defaults

ToSave == IF from = None THEN Defaults ELSE from

\* Nothing saved, or the saved device not there: what was loaded is saved again
\* with another device.
SaveDevice ==
  /\ phase = "device" /\ scan = None
  /\ phase' = "saved"
  /\ File!BeginSave(Main, ToSave)
  /\ UNCHANGED <<forceVars, catalogVars, dirVars, from, kills, cmdVars>>

\* The server is started, and the main loop runs; LoadedSettings is not used again.
StartServer ==
  /\ \/ phase = "device" /\ scan = None /\ from # None
     \/ phase = "saved" /\ saving[Main] = "no"
  /\ phase' = "up" /\ from' = None
  /\ UNCHANGED <<saveVars, forceVars, catalogVars, dirVars, kills, cmdVars>>

\* The process ends, whatever its threads are doing, and its memory with it.
Ends ==
  /\ phase # "down" /\ kills < MaxKills
  /\ kills' = kills + 1
  /\ phase' = "down"
  /\ layout' = BuiltinLayout /\ eq' = DefaultCurve /\ eqStage' = DefaultCurve
  /\ loaded' = Bundled[1] /\ catalog' = << >> /\ activeIndex' = 1 /\ from' = None
  /\ scan' = None /\ watched' = FALSE /\ event' = FALSE
  /\ cmd' = [c \in Clients |-> NoCmd]
  /\ adrift' = FALSE /\ missed' = FALSE /\ alone' = FALSE
  /\ UNCHANGED <<dir, changes, commands>>

Kill == Ends /\ File!Kill /\ UNCHANGED promised

PowerLoss == Ends /\ File!PowerLoss /\ promised' = Nothing

-----------------------------------------------------------------------------
(* The user's directory and the rescan on the main loop *)

ChangeDirectory ==
  /\ changes < MaxChanges
  /\ changes' = changes + 1
  /\ \E f \in UserFiles : dir' = IF f \in dir THEN dir \ {f} ELSE dir \cup {f}
  /\ event' = watched
  /\ missed' = (missed \/ (phase # "down" /\ ~watched))
  /\ promised' = [promised EXCEPT !.hrtf = None]
  /\ alone' = (alone /\ \A c \in Clients : cmd[c].op # "hrtf")
  /\ UNCHANGED <<saveVars, forceVars, catalogVars, watched, bootVars, cmd, commands>>

\* Every event is read before the directory is.  WaitForInitialSync iterates the loop
\* as well as the main loop does.
OnHrtfDirectoryChanged ==
  /\ phase \in {"device", "up"} /\ event /\ scan = None
  /\ event' = FALSE
  /\ scan' = Listing(dir)
  /\ UNCHANGED <<saveVars, forceVars, catalog, activeIndex, adrift, dir, watched, missed,
                 changes, bootVars, cmdVars>>

\* A client has looked an entry up and has not yet stored its index.
Choosing(c) == cmd[c].op = "hrtf" /\ cmd[c].step \in {"switch", "index"}

\* Mutant: the index stays.
RelocatedNot(new) == activeIndex

\* The place the active entry's name has in the new catalog.
Relocated(new) ==
  LET same == {i \in DOMAIN new : activeIndex \in DOMAIN catalog
                                  /\ new[i] = catalog[activeIndex]}
  IN  IF same = {} THEN activeIndex ELSE CHOOSE i \in same : TRUE

\* Under HrtfCatalogMutex.
InstallScan ==
  /\ scan # None
  /\ scan' = None /\ catalog' = scan /\ activeIndex' = Relocated(scan)
  /\ adrift' = (adrift \/ catalog[activeIndex] \notin ToSet(scan)
                       \/ \E c \in Clients : Choosing(c))
  /\ UNCHANGED <<saveVars, forceVars, dir, watched, missed, changes, bootVars, cmdVars>>

\* Mutant: the events are read once the new catalog is in place.
SwapCatalogThenDrain == InstallScan /\ event' = FALSE

SwapCatalog == InstallScan /\ UNCHANGED event

-----------------------------------------------------------------------------
(* HandleControlCommand *)

At(c, step) == cmd[c].step = step

GoTo(c, step) == cmd' = [cmd EXCEPT ![c].step = step]

\* The daemon's replies to GetStatus and the lists change nothing.
GetStatus(c) == phase = "up" /\ At(c, "idle") /\ UNCHANGED vars

\* The first access of a command.  Alone, it takes its own setting's promise
\* back; two at a time may save an older snapshot last and take back all.
Begin(c, op, value, step) ==
  /\ phase = "up" /\ At(c, "idle") /\ commands < MaxCommands
  /\ commands' = commands + 1
  /\ cmd' = [cmd EXCEPT ![c] = [NoCmd EXCEPT !.step = step, !.op = op, !.value = value]]
  /\ alone' = \A d \in Clients : At(d, "idle")
  /\ promised' = IF alone' THEN [promised EXCEPT ![op] = None] ELSE Nothing
  /\ UNCHANGED <<saveVars, bootVars>>

\* SetSpatialMode, SetSpeakerAzimuth, SetSpeakerDistance, SetSpeakerMute,
\* SetNearFieldEnabled, ResetSpeakerPositions.
SetLayout(c, v) ==
  /\ Begin(c, "layout", v, "status")
  /\ layout' = v
  /\ UNCHANGED <<eq, eqStage, loaded, catalogVars, dirVars>>

\* SetHwEqBand, SetBassEnhancer: stored under the mutex, ...
SetEq(c, v) ==
  /\ Begin(c, "eq", v, "bands")
  /\ eq' = v
  /\ UNCHANGED <<layout, eqStage, loaded, catalogVars, dirVars>>

\* ... read without it, whatever another client has stored since, ...
ReadBands(c) ==
  /\ At(c, "bands")
  /\ cmd' = [cmd EXCEPT ![c] = [@ EXCEPT !.step = "publish", !.held = eq]]
  /\ UNCHANGED <<saveVars, forceVars, catalogVars, dirVars, bootVars, commands, promised,
                 alone>>

\* ... and published to the stage.
PublishBands(c) ==
  /\ At(c, "publish")
  /\ eqStage' = cmd[c].held
  /\ cmd' = [cmd EXCEPT ![c] = [@ EXCEPT !.step = "status", !.held = None]]
  /\ UNCHANGED <<saveVars, layout, eq, loaded, catalogVars, dirVars, bootVars, commands,
                 promised, alone>>

\* SetHrtfFile copies the entry under HrtfCatalogMutex; an index out of range is
\* answered with the status, and nothing is saved.
RefuseHrtf(c, i) == i \notin DOMAIN catalog /\ GetStatus(c)

SetHrtf(c, i) ==
  /\ i \in DOMAIN catalog
  /\ phase = "up" /\ At(c, "idle") /\ commands < MaxCommands
  /\ commands' = commands + 1
  /\ cmd' = [cmd EXCEPT ![c] = [NoCmd EXCEPT !.step = "switch", !.op = "hrtf", !.value = i,
                                            !.held = catalog[i]]]
  /\ LET idle == \A d \in Clients : At(d, "idle") IN
       /\ alone' = (idle /\ ~event /\ scan = None /\ ~missed)
       /\ promised' = IF idle THEN [promised EXCEPT !.hrtf = None] ELSE Nothing
  /\ adrift' = (adrift \/ \E d \in Clients : Choosing(d))
  /\ UNCHANGED <<saveVars, forceVars, catalog, activeIndex, scan, dirVars, bootVars>>

SwitchTo(c) ==
  /\ At(c, "switch")
  /\ loaded' = cmd[c].held
  /\ GoTo(c, "index")
  /\ UNCHANGED <<saveVars, layout, eq, eqStage, catalogVars, dirVars, bootVars, commands,
                 promised, alone>>

StoreIndex(c) ==
  /\ At(c, "index")
  /\ activeIndex' = cmd[c].value
  /\ GoTo(c, "status")
  /\ UNCHANGED <<saveVars, forceVars, catalog, scan, adrift, dirVars, bootVars, commands,
                 promised, alone>>

-----------------------------------------------------------------------------
(* The status at the end of every command, and PersistCurrentSettings *)

TakeStatus(c) ==
  /\ At(c, "status")
  /\ cmd' = [cmd EXCEPT ![c] = [@ EXCEPT !.step = "snapshotEq", !.snapshot.layout = layout,
                                       !.index = activeIndex]]
  /\ UNCHANGED <<saveVars, forceVars, catalogVars, dirVars, bootVars, commands, promised,
                 alone>>

SnapshotEq(c) ==
  /\ At(c, "snapshotEq")
  /\ cmd' = [cmd EXCEPT ![c] = [@ EXCEPT !.step = "snapshotName", !.snapshot.eq = eq]]
  /\ UNCHANGED <<saveVars, forceVars, catalogVars, dirVars, bootVars, commands, promised,
                 alone>>

\* The name the status's index has in the catalog of this moment; then Save.
SnapshotName(c) ==
  /\ At(c, "snapshotName")
  /\ cmd' = [cmd EXCEPT ![c] = [@ EXCEPT !.step = "save", !.snapshot = Defaults, !.index = 0]]
  /\ File!BeginSave(c, [cmd[c].snapshot EXCEPT
                          !.hrtf = IF cmd[c].index \in DOMAIN catalog
                                   THEN catalog[cmd[c].index] ELSE None])
  /\ UNCHANGED <<forceVars, catalogVars, dirVars, bootVars, commands, promised, alone>>

-----------------------------------------------------------------------------
(* Save, by a client or at the start *)

Continue(p) ==
  /\ File!OpenTemp(p) \/ File!WriteText(p)
  /\ UNCHANGED <<forceVars, catalogVars, dirVars, bootVars, cmdVars>>

\* The command is done: what it set is in force and, met by no other, promised.
FinishCommand(p) ==
  IF p \in Clients
  THEN /\ cmd' = [cmd EXCEPT ![p] = NoCmd]
       /\ promised' = IF ~alone THEN promised
                      ELSE [promised EXCEPT ![cmd[p].op] = IF cmd[p].op = "hrtf"
                                                           THEN cmd[p].held
                                                           ELSE cmd[p].value]
       /\ UNCHANGED <<commands, alone>>
  ELSE UNCHANGED cmdVars

RenameTemp(p) ==
  /\ File!RenameTemp(p)
  /\ FinishCommand(p)
  /\ UNCHANGED <<forceVars, catalogVars, dirVars, bootVars>>

\* Save only logs; nobody hears of it.
SaveFails(p) ==
  /\ File!OpenFails(p) \/ File!RenameFails(p)
  /\ cmd' = IF p \in Clients THEN [cmd EXCEPT ![p] = NoCmd] ELSE cmd
  /\ UNCHANGED <<forceVars, catalogVars, dirVars, bootVars, commands, promised, alone>>

WriteFails(p) ==
  /\ File!WriteFails(p)
  /\ promised' = Nothing /\ alone' = FALSE
  /\ UNCHANGED <<forceVars, catalogVars, dirVars, bootVars, cmd, commands>>

-----------------------------------------------------------------------------
Run == Load \/ WatchAndResolve \/ SaveDevice \/ StartServer

MainLoop == OnHrtfDirectoryChanged \/ SwapCatalog

HandleControlCommand(c) ==
  \/ GetStatus(c)
  \/ \E v \in Layouts : SetLayout(c, v)
  \/ \E v \in Curves : SetEq(c, v)
  \/ \E i \in 1 .. MaxCatalogEntries : SetHrtf(c, i) \/ RefuseHrtf(c, i)
  \/ ReadBands(c) \/ PublishBands(c) \/ SwitchTo(c) \/ StoreIndex(c)
  \/ TakeStatus(c) \/ SnapshotEq(c) \/ SnapshotName(c)

Save(p) == Continue(p) \/ RenameTemp(p) \/ SaveFails(p) \/ WriteFails(p)

Next ==
  \/ Run \/ MainLoop \/ Kill \/ PowerLoss \/ ChangeDirectory
  \/ \E c \in Clients : HandleControlCommand(c)
  \/ \E p \in Clients \cup {Main} : Save(p)

Spec == Init /\ [][Next]_vars

-----------------------------------------------------------------------------
\* Every variable keeps its type; above all the catalog stays within what the
\* one byte of an index on the wire can name.
TypeOK ==
  /\ File!TypeOK(Settings)
  /\ phase \in {"down", "watch", "device", "saved", "up"}
  /\ layout \in Layouts /\ {eq, eqStage} \subseteq Curves /\ loaded \in Entries
  /\ catalog \in BoundedSeq(Entries, MaxCatalogEntries)
  /\ scan = None \/ scan \in BoundedSeq(Entries, MaxCatalogEntries)
  /\ activeIndex \in 1 .. MaxCatalogEntries
  /\ from \in Settings \cup {None}
  /\ dir \subseteq UserFiles
  /\ {watched, event, alone, missed, adrift} \subseteq BOOLEAN
  /\ \A c \in Clients : cmd[c].snapshot \in Settings /\ cmd[c].op \in Ops \cup {None}

\* Restart and crash keep what a client set (PersistCurrentSettings, Save, Load):
\* a setting whose last command met no other and was saved is what is in force
\* as long as the daemon is up, in this session and in every later one, however
\* often it is killed, also in the middle of the save of another setting, and
\* although the start saves the settings again when their device is gone.  A power
\* loss that takes a text which was not synced, or a failed write, ends all promises,
\* and a change of the user's directory that of the entry.  The types come with it.
SettingsSurvive ==
  /\ TypeOK
  /\ phase = "up" =>
       \A op \in Ops : promised[op] \in
         {None, [layout |-> layout, eq |-> eqStage, hrtf |-> loaded][op]}

\* Save's promise for "a crash or power loss mid-write" (settings_store.cpp:183-185),
\* as far as it holds: the settings file has no text only if two threads saved at
\* once, a system call failed, or a power loss took what Save had not synced.
WholeUnlessRaced == File!Exists /\ File!Stored = None => raced \/ refused \/ lost

\* RebuildHrtfCatalog's promise (audio_engine.hpp:153-157), as far as it holds:
\* the index names the entry in force, unless that entry has left the catalog or
\* SetHrtfFile met a rescan or another SetHrtfFile.
IndexNamesLoaded ==
  phase = "up" /\ ~adrift /\ (\A c \in Clients : ~(cmd[c].op = "hrtf" /\ At(c, "index")))
    => activeIndex \in DOMAIN catalog /\ catalog[activeIndex] = loaded

\* No change of the directory is overlooked (OnHrtfDirectoryChanged): with no
\* event to read and no rescan under way the catalog lists the directory, unless
\* a file came or went while there was no watch: between the first scan and the
\* watch, or at any time if inotify has failed.
CatalogCurrent ==
  phase = "up" /\ ~event /\ scan = None /\ ~missed => catalog = Listing(dir)
=============================================================================
