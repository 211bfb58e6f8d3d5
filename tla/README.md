# RamkolFX: TLA+ specifications

RamkolFX (repository AudioBat) is a virtual 7.1 sound card for PipeWire: a
daemon takes what applications play into a virtual sink, spatialises it to
stereo and plays it on a hardware device, and a GUI steers the daemon over a
Unix socket. This directory holds TLA+ models of the parts in which threads,
callbacks, files and messages meet, the TLC runs that check them, and TLAPS
proofs, for every value of the constants, of the safety of the lock-free
structures, the deck, the audio path, the convolver, the stage, the daemon's life,
what it saves, and the GUI's session with it.
`PROJECT.json` lists components, runs, mutants, findings, hazards and
theorems, and maps every definition to the lines it models.

## 1. Inventory

| component | state | operations | talks to |
|---|---|---|---|
| `CrossfadingSlot<T>` (`dsp/crossfading_slot.hpp`) | `Pending`, `Live`, `Trash[2]` (atomic pointers), `FadingOut`, fade countdown | `Publish`, `CollectGarbage`, `ForwardToLive`, `Process` | used by deck, voices, EQ, bass stage |
| `HrtfDeck` (`dsp/hrtf_deck.cpp`) | a slot of `BinauralStage`s, near-field flag | `SwitchTo`, `SetNearFieldEnabled`, `RebuildVoiceForSpeaker`, `CollectGarbage`, `Process` | engine above, stages below |
| `RingBuffer` (`ring_buffer.hpp`) | cells, two atomic indices | `Push`, `Pop` | the two PipeWire callbacks |
| `VirtualSink`, `HardwareOutput` | streams, target device name | process callbacks, `SetTargetNode` | PipeWire, engine |
| `PartitionedConvolver` | window, pending input and output | `Load`, `ProcessAccumulate` | stages and voices |
| `BinauralStage`, `BinauralVoice` | two signal paths, toggle crossfade, voices | `Process`, `SetNearFieldEnabled`, `Rebuild...` | deck |
| `AudioEngine` | mode, flags, layout, EQ and bass state, HRTF catalog and index | `Run`, `HandleControlCommand`, `Teardown`, rescan callback | everything |
| `SettingsStore` | settings file and its temporary | `Load`, `Save` | engine |
| `DeviceRegistry` | known sinks, previous default sink | PipeWire registry events, restore at exit | PipeWire, engine |
| `ControlServer`, protocol | listening socket, one detached thread per client | `Start`, `Stop`, `AcceptLoop`, `HandleClient`, codecs | GUI, engine |
| `ControlClient`, `App` (GUI) | socket, mirrored status | requests with timeouts, reconnect, `Tick` | daemon |
| `SingleInstanceLock` | lock file | `TryAcquire` | `Run` |

Threads: the PipeWire main loop; one realtime thread per stream
(`pw_stream_new_simple` gives each stream a context, hence a data loop, of its
own, and both connect with `PW_STREAM_FLAG_RT_PROCESS`); the accept thread; one
detached thread per client. Hard behaviours: lock-free hand-over between these
threads; slow builds (a SOFA file) in the middle of a command; block sizes that
do not match; saves and rescans by several threads; replies that come late;
teardown under running clients. The hazards in `PROJECT.json` name the lines.

## 2. Modules

```
LatestValue  <--refines--  CrossfadingSlot  <--extends--  HrtfDeck
SampleChannel  <--refines--  RingBuffer  <--extends--  AudioPipeline
PartitionedConvolver
SettingsFile  <--instance--  ControlCommands
BinauralStage
Protocol  <--extends--  ControlWire            ControlSession
DeviceRegistry, HardwareOutput  <--instance--  DaemonLifecycle
```

`XProofs` extends X with its theorems (`HrtfDeckProofs` and `AudioPipelineProofs` hold
those of the slot and of the ring, too, which X extends), `MCX` extends X for TLC, `X.cfg`
is X's main run, `X_y.cfg` a run of its own question. Operators commented `Mutant:` are
plausible bugs used to test the properties (`PROJECT.json`, `mutants`); no
specification uses them.

**CrossfadingSlot** models the hand-over access by access: the exchange of
`Pending`, the store into `Live`, each mixed frame, the store into the trash.
An instance is the number of its publication, a frame the pair of instances in
it and the share of the new one. A pointer dropped last frees its instance.
`sweepAge`/`fadesUnswept` are history: crossfades finished since a sweep.

**HrtfDeck** composes the slot with the commands: each client runs
`CollectGarbage` (sweep, then forward), then one of the commands that touch the
deck. One speaker stands for seven. `settled` is history: whether the last change
of a setting met a switch or a rival change.

**RingBuffer** has one step per access to the other side's index and to a cell.
**AudioPipeline** puts it between the sink's and the device's callback (`PathSpec`) and
adds what the ring does not know: samples belong to frames, counts are rounded to
frames, the device's buffer is zero-filled.

**PartitionedConvolver** numbers the input samples; a convolved sample is the
map from taps to input samples, so the FFT is the circular convolution it computes
and overlap-save is a property, not an assumption. KissFFT's rounding of the
transform's size is the constant `Padding`.

**SettingsFile** is `SettingsStore::Save` by system calls over two directory
entries and the inodes they name: a thread keeps writing to the inode it opened
whatever becomes of its name. A kill keeps what was written; a power loss may take the
text of what a name leads to, as nothing is synced. **ControlCommands** puts it under the commands, the
start (`Run`) and the HRTF catalog: one setting kept in an atomic, one kept under a
mutex and published to a stage, and the catalog entry, which is an index into a list
the main loop rebuilds. inotify may refuse the watch, and the daemon runs on without.
`promised`, `alone`, `adrift` and `missed` are history: what a client was entitled to
rely on, and what spoils it (`missed`: the directory changed while there was no watch). What the deck does with a
layout or an entry is `HrtfDeck`'s, where a command is taken apart further; here the
store is one step.

**BinauralStage** is the Advanced mode's stage frame by frame, with the part of
`HandleVirtualSinkAudio` before it: each setting is read once per block, at a moment
of its own, while clients change them. A frame is the share of the near-field path
in it and, per path, how many of the input frames its convolvers remember are not the
latest (`tail`). A convolver that is not given whole blocks of its own (`BlockSamples`)
keeps stale output queued or drops input, so that a tail may outlast the frames
(`Remember`). `away`, `overlap` and `aligned` are history: the stage was out of use within
the last tail; two clients' toggles overlapped; every block was whole for the convolvers.

**Protocol** is `protocol.cpp` as operators over sequences of bytes: every request,
every response and every decoder, with their checks and cuts. A float is its two
halves (order and offsets are what can go wrong), a name a sequence of small numbers.
**ControlWire** is one connection: the byte streams, a client that may pipeline, and
`HandleClient`, whose `recv` returns any part of what was sent. A client of another
version may send what no encoder here produces.

**ControlSession** is the GUI over that connection, request by request: `Tick`
(connect, poll), then `DrawUI` (drags with their throttled sends and the flush, clicks,
equalizer edits). An answer replaces `LastStatus` as a whole. A timeout drops the
connection, and the daemon may still carry the request out, after later ones
(`HandleLate`). A device or an HRTF is picked from a list that may have changed: the
daemon then refuses it, or takes another entry, and answers all the same (`Outcomes`). A
restart brings back what was saved, which the test noise never is, and which may be an
older text, or none, if a late request and another were saved at once (`Start`). That a
system call fails or the power does is left to `ControlCommands`. `intent`, `overrun`,
`drifted` and `overlapped` are history: the user's last word, as far as it may be relied
on, the positions a poll took back in the middle of a drag, a late request since the
curve was fetched, two requests that may be saved at once. Two speakers, each the other's
mirror, stand for seven, and `Choice`, `Pick` and `Noise` for what a click sets by itself.

**DeviceRegistry** is the registry on its connection to the PipeWire server, two
queues of requests and events; the server and the session around it are external
definitions, in the order PipeWire promises. **HardwareOutput** is `SetTargetNode`
step by step: the unlocked string (`Reads` gives what a racing read may see, `Torn`
a value nobody wrote), the queue of `pw_loop_invoke`, the reconnect on the loop.
**DaemonLifecycle** composes both under `Run`, `Stop` and `Teardown`: `phase` is the
line the main thread is at, and the loop is iterated in three of them. A client may name
any device (`Nameable`), the daemon's own sink too. `wanted`, `synced`, `forgotten`,
`fault`, `abandoned`, `gaveUp`, `meddled` and `named` are history.


## 3. Runs

| run | shows | bounds |
|---|---|---|
| `slot` | ownership, no click, frees only unswept instances, refines the mailbox, what is published is heard | 2 clients, 3 publications (one more than crossfades fit the trash), fade of 2 frames, blocks of 1 and 3 frames: fades that end inside, at the end of, and after a block |
| `deck` | a change that meets no switch and no rival lasts | 2 clients, 2 switches, 3 commands, 2 coordinates |
| `ring` | no cell race, short calls only at the limit, FIFO channel, drains | capacity 3, calls of 0, 1, 2 and 5 elements, 9 elements: two full turns |
| `pipeline` | order; frames split only after a cut, cuts only when callbacks overlap | 2 frames of capacity, callbacks of 1 to 3 frames, 6 frames |
| `convolver` | linear convolution for calls of any size; zero latency and no loss for whole blocks | block 3, 4 taps, 14 samples |
| `convolver_dropped` | **violation**: input of small calls is dropped | calls of up to 2 samples |
| `settings` | what was set alone and saved stays in force, across kills and the saves the start makes; the file is never empty but by a race, a failed call or a power loss | 2 clients, 3 commands (an overlapping pair and one alone), 2 kills or power losses (a save at one start is seen by the next), 1 failing system call; no file comes or goes, so only starts with a watch are looked at (`Watching`) |
| `catalog` | the index names the entry in force, and the catalog the directory, but for the windows named | 2 clients, with a watch and without, 2 commands, 2 changes of the directory (one during a rescan), 3 files and a limit of 3 entries: the listing is cut |
| `stage` | the near-field toggle crossfades without a step, a stale tail comes in faded if blocks are whole for the convolvers, falloff and path agree once toggles are over, mute holds, the last toggle is reached | 2 clients, 3 commands (a toggle, one back during its fade, one more), fade of 3 and tail of 2 frames, convolver blocks of 2, blocks of 0, 1, 2 and (cut to 2) 9 frames: fades end inside and at the end of blocks, a path comes back with its tail whole, half gone or gone |
| `wire` | commands and answers arrive as meant and in order however the stream is cut; a list that does not fit loses whole entries; nothing stays in a buffer | every request and 4 foreign messages, 2 of them on the way at once, chunks of up to 8 bytes (headers, payloads and pairs of messages are cut), payloads of at most 31 bytes, which the status and the lists fill to the last byte and pass by one |
| `session` | no answer is taken for another's; the user's last word is in force and what is shown becomes what is, across polls, drags, timeouts, refused picks and a restart | 2 actions of the user, 2 timeouts (a late request and one more), 1 kill |
| `daemon` | the registry follows the session, the output is the daemon's own sink only if a client has named it, the default is handed back, the saved device kept, the stream pinned to what the status names, switches end, signals stop the daemon | 2 clients, 2 ids, 2 names and the daemon's own (all are used again), 3 in all of: starts, commands, changes of the session, failed calls, timed-out syncs, kills; `MCSpec` begins with at most the device plugged in that is not the fallback, and that, the daemon's own sink or nothing saved |

Every run checks its modules' type invariants too: `slot` and `ring` in `IInv`, the
others as the first conjunct of one of their properties (the deck's, for example, in
`IsolatedChangesLast`); `catalog` has its types from `settings`.

Deadlock is checked in every run but two (in most, bounded clients come to rest but may
always poll, or the audio side goes on): in `wire` a connection ends, in `daemon` the
daemon may stay down.

**Fairness.** `CrossfadingSlot` and `RingBuffer` assume weak fairness of the audio
side only: PipeWire keeps calling the process callback while a stream runs, and
no step of it waits. Nothing obliges a client to send a command or an application
to play, so control steps have none, and a crossfade's end never depends on a
sweep. (The deck's `Process` is called only in Advanced mode: in the others a
published stage waits.)

`BinauralStage` adds strong fairness of a block with frames in it: a client's toggle
is reached only if the stream is not forever empty, which PipeWire's cycle sees to
while anything plays; and a client thread finishes its command. `ControlSession`
assumes that frames are drawn, that the server's thread handles what it was sent, that
a stopped daemon is started again (systemd or the user), and strong fairness of
`Connect` and `Poll`: their timers run out in some of the frames in which they are
possible. Timeouts, kills and the user have none. `DaemonLifecycle` assumes that
the process is scheduled, that the loop dispatches what is queued while it is
iterated, and that the PipeWire server answers; nobody has to start the daemon, signal
it, send a command or plug anything in. `ControlCommands`, `AudioPipeline`,
`ControlWire` and the deck have none: what they say is safety.

## 4. Proofs

Each module `XProofs` holds theorems about every value of X's constants under X's
named assumptions: positive lengths, sizes and capacities, natural bounds, names and
ids that are told apart, settings that exist. More than types are only the finiteness
of ids (a registry tells of its globals in a sequence), of files (a directory is listed
in one) and of threads, that the bundled entries, of which the build names 32
(`daemon/CMakeLists.txt:59-77`), fit the catalog, that the ring holds a whole number of
frames (`audio_engine.hpp:243`), and the four about messages that *Wire* lists. The bounds of the models (`MaxActs`
and the like) are arbitrary naturals.

An invariant is seldom inductive as it stands: each module states the inductive one,
`IInv` (`PathInv` for the pipeline), as a conjunction of named parts, which TLC has
checked on the instance of the module's run before it was proved; `ControlWire`'s alone is
stated with its proof, as it speaks of some sequence of messages, which TLC cannot find.

*Slot.* Its theorems, whose specification is `Spec`, open `HrtfDeckProofs`; the deck's
follow, over `DeckSpec`. The slot's inductive invariant `IInv` adds
to the types: which locals are in use
at each point of `Process` (`PhaseInv`); that instances move on in the order of
their numbers (`OrderInv`), from which single ownership and the mailbox follow;
how far the last frame can be from the next (`OutputInv`), from which clickless
output follows; and that a filled trash slot has seen no sweep since it was filled
(`SweepInv`), from which the promise of the trash pair follows. None of these is
inductive without `PhaseInv` and `OrderInv`.

*Deck.* Of the slot only its types and `PhaseInv` are needed: every step of the deck is
one of its slot, or none. `AloneOK` says of a change that has met nothing where its value is so far, that no
stage is on its way and that nobody else changes the setting; its last step therefore
reaches the one stage there is. `ToggleOK` and `VoiceOK` say of a settled setting what
`IsolatedChangesLast` says, and the same of a stage that is still being built, which has
read the toggle, or one coordinate, before it can be seen. `RunsItsSlot` says that the
commands use the slot only as `CrossfadingSlot` allows, so what is proved of the slot
holds of the stages in the deck (`StagesGoLive`).

*Ring.* Its theorems, whose specification is `Spec`, open `AudioPipelineProofs`; the
pipeline's follow, over `PathSpec`. `CountInv` ties the distance between the indices to the elements held,
`ContentInv` says every cell in use holds the element its place says, `CallInv`
bounds the calls. Lemmas about `Distance` and `Advance` isolate the modular
arithmetic. Race freedom, exact full/empty verdicts and the refinement of the
channel follow.

*Pipeline.* `RingOrder` and `DeviceOrder` follow a sample's number from the render
callback through the ring's cells into the device's buffer, `FrameInv` the parity of
every place it can be at while no call was cut inside a frame, and `TurnInv` says that
callbacks which took turns so far were never cut. From them follow the order, that a
frame splits only after a cut, and that a cut takes two callbacks at once. Both proofs
rest on the same lemmas about the ring's arithmetic.

*Convolver.* `BlockInv` says what the window, both queues and the last output hold, in
terms of the samples accepted so far; `AlignedInv` adds that calls of whole blocks leave
both queues empty. That the circular convolution over the window is the linear one at
every place that is kept is the lemma `CircularConvolves`: the window's length is at
least a block and the filter's tail, whatever KissFFT rounds it to.

*Stage.* `FadeInv` ties the frame heard last to the next one, `TailInv` a path's stale
frames to its share of the next frame, `ToggleInv` a settled toggle to the stage's
request, `MuteInv` and `QuietInv` what a block has read to the settings. The action
property `ToggleIsSmooth` follows from `FadeInv` before and after the step.

*Daemon.* The invariant follows what travels between the registry and the server:
`WireInv` and `ListenInv` say which requests and events there can be before and after
the registry listens; `MapInv` that the last queued event about an id tells what the
session has there, and that with none left the map has it; `BindInv` that the object is
bound once and its first property, handled or queued, is what was configured then;
`RestoreInv` that behind the restore's `set` no other is queued, so that its answer
means it was carried out; `WantedInv` that a device told of before the initial sync's
answer is in the map after it. `QueueInv` and `PinInv` do the same for the switches:
who waits is queued once, and who has changed the name has yet to reconnect. `OwnInv`
follows the daemon's own sink: until a client names it, it is nowhere a device is taken
from, and as no client switches before the server is started, the start replaces it.
`Spec` has fairness, which no proof uses.

*Settings and catalog.* Each property has its own part of the invariant, over
`CommandsOK`, `PhasesOK` and `FileOK`, which say what a command, `Run` and a save hold at
each of their points. `Whole`: as long as no two threads saved at once, no call failed and no power loss took a
text, a save has the temporary file to itself, so what it renames is its whole text; a
kill at any point leaves one of the two texts. `IndexOK`: the index names the entry in force, or
the one client that changes both still has to store it. `ScanOK`: unless a change fell while there was no watch, an event is waiting or what lists
the directory is the catalog or the rescan that will replace it. `SettingsSurvive` says
least of what its proof needs: `KeptOK` follows a promised setting through every place
from which it can come back, which are the setting itself, the text any command or the
start has copied so far, the file, and the catalog in which the entry is looked up again;
`AloneOK` says the same, step by step, of a command that has met no other, and `QuietOK`
that there is then no second one. Two facts about data are needed: a save finds an inode
that nothing uses (`FreeInode`, by counting threads), and a directory has a listing in the
order of its paths (`SortExists`). The latter is an induction, which the library's
theorems about operators do not allow; it is carried out on a least counterexample,
which its theorem about well-founded relations gives for a set.

*Session.* `ChannelOK` says that the one request on its way is the first that is left
and that its answer is of its kind, from which `EmptyBetweenRequests` follows; `FrameOK`
says what can be left of each activity's requests. The rest follows the user's word: for
a setting that may be relied on, it is in force, or a request that is left carries it, or
the drag that will be flushed shows it (`LastWord`), and nothing that could overwrite it,
which are the requests left, the band the equalizer sends as a whole, the answer on its
way and the handle of a pending drag, says otherwise (`TodoSaid`, `CacheSaid`,
`AnswerSaid`, `DragSaid`). A pick that came out otherwise and a restart take from the user's
word exactly what they change (`OutcomeFacts`, `StartIs`). `IntentInForce` alone is not inductive: it says nothing while
requests are left, when all of this is at stake. `ShownOK` does the same for the curve
shown, and `ValuesOK` says that only settings the daemon may have are ever sent, since a
widget shows nothing that was not fetched: so no `Placeholder` reaches the daemon. What
an action does to the requests left is a lemma of its own (`HandleIs`, `DragIs`,
`ClickIs`, ...); each part of the invariant is then proved over these.

*Wire.* What is on its way in one direction is a number of whole messages put together,
wherever `recv` cuts the stream: `RequestsOK` says so of the server's buffer with what is
behind it, `RepliesOK` of the other stream. A step that handles a message therefore takes
the first of them (`FramingAll`), and finds one whenever all of it is there, from which
`NothingLeftOver` follows. `HandledOK` and `ReceivedOK` add what became of the messages so
far, which is `CommandsInOrder` and `RepliesMatch`. The rest are lemmas about `Protocol`:
for each kind of request and reply, what the decoder makes of what the encoder wrote. A
payload `Holds` what was appended to it at a place, and every `Read` returns what it finds
there; for a list, `Fitting` is the largest number of entries that fit, `Upto` the place
where each begins, and `ReadStrings` walks over them. A message of any length calls for
induction, which is carried out on sets of naturals (`Naturals0`), not on operators.

The assumptions: an application's name fits the payload with what is sent behind it, as it
came in a list's entry, and what another version sends is no message of this one
(`RequestsAssumption`); the status fits a payload, which its encoder leaves to the length
of the device's name (`RepliesAssumption`); `std::nullopt` is told apart from every value
(`NoneAssumption`); a payload's length fits its 16 bits (`ProtocolAssumption`). Requests
may be of any kind and number, names and lists of any length.

Only model-checked, and why: liveness (`EventuallyHeard`, `Drains`, `RequestHonoured`,
`MirrorConverges`, `SwitchReturns`, `StopsWhenAsked`), as fairness is out of the prover's
reach. Every safety and action property of a run that passes is a theorem.

## 5. Findings

`convolver_dropped`: the convolver loses input unless callbacks come in multiples
of 128 frames, which a PipeWire quantum need not be, although
`partitioned_convolver.hpp:26-30` promises any size.

**Departures the properties name.** Modelling met more behaviour that a comment or
a plan rules out. No run is spent on it: the properties that pass carve it out by a
history variable or a condition, and dropping that from the formula shows the trace.

| property | carve-out | what happens | says otherwise |
|---|---|---|---|
| `FreesOnlyUnswept` | an unswept slot | three HRTF switches whose builds outlast the crossfades fill both trash slots, and the audio thread frees a stage (`crossfading_slot.hpp:140`) | `crossfading_slot.hpp:31-32` |
| `SplitOnlyAfterCut`, `CutOnlyByOverlap` | overlapping callbacks | `Pop` stops between left and right, and the channels stay swapped (`audio_engine.cpp:631`) | `hardware_output.hpp:34-37` |
| `WholeUnlessRaced` | `raced`, `refused`: two saves at once, a failed write | one truncates what the other renames; a kill then leaves half a file (`settings_store.cpp:186`) | `settings_store.cpp:183-185` |
| `WholeUnlessRaced` | `lost` | neither the file nor the directory is synced (`settings_store.cpp:187-196`): after a power loss the name may lead to an empty file, and the settings are gone | `settings_store.cpp:183-185` |
| `SettingsSurvive` | nothing promised yet | the first start saves all-zero speaker positions, the second restores them (`audio_engine.cpp:436-438`) | `audio_engine.cpp:297-298` |
| `IsolatedChangesLast` | switches | a change made during a slow switch is undone when the new stage goes live (`hrtf_deck.cpp:28`) | |
| `IndexNamesLoaded` | `adrift` | when the active entry leaves the catalog the index names another, which is saved | `audio_engine.hpp:153-157` |
| `CatalogCurrent` | `missed` | if inotify fails the daemon runs on and never lists another file (`audio_engine.cpp:339-350`); one that comes between the first scan and the watch is listed with the next change | `audio_engine.cpp:331-335` |
| `NeverFeedsBack` | `named` | a client that sends the daemon's own sink's name has the output pinned to it, and the name saved (`audio_engine.cpp:727-735`), until a start replaces it; an empty name (`protocol.cpp:165-170`) pins to nothing and lets the session choose | `hardware_output.hpp:22-26` |
| `StopsWhenAsked` | `forgotten` | a SIGTERM handled inside `WaitForInitialSync` (`audio_engine.cpp:427`) quits a loop that does not run yet, and is lost | |
| `DefaultHandedBack` | `captured`, `atBind` | a start that fails before the first property comes leaves RamkolFX's sink as the default; after a crash the one captured is RamkolFX's own | `device_registry.hpp:98-106` |
| `OutputInForce` | `failed`, `raced` | a failed switch keeps the new name, reports and saves it, and a retry returns success; `TargetNodeName` is read while another thread assigns it | `hardware_output.cpp:111-115` |
| `SavedDeviceKept` | `synced` | if the initial sync times out the saved device is replaced by a fallback, and that is saved | |
| `IntentInForce` | late requests | a request that timed out is carried out after a newer one and overrides it; the equalizer then shows a stale curve until the next connect | |
| `IntentInForce` | `overrun` | a drag let go in the frame whose poll has moved the handle back sends the old position | `app.hpp:69-73` |
| `IntentInForce` | a changed list | an index out of range is refused and answered with the status all the same (`audio_engine.cpp:774-778`); one from an outdated list names another entry | |
| `IntentInForce` | restarts | the test noise is off again, as `settings_store.hpp:26-28` intends; a late request and another saved at once may bring back older settings, or none | |
| `CurveShown` | `serving` | a connect that fails after the status counts as one (`app.cpp:50-67`), and the equalizer shows its placeholder, which is never sent | `app.hpp:89-91` |
| `StaleTailIsFaded` | `aligned` | with blocks that are not whole for the convolvers stale output may stay queued beyond the tail, and input is dropped (`partitioned_convolver.cpp:100-113`) | `partitioned_convolver.hpp:26-30` |
| `StaleTailIsFaded` | `away` | a return to Advanced mode replays what the convolvers last heard, at full gain | |
| `LoudnessMatchesSettings` | `overlap` | two clients' toggles may leave the falloff on one setting and the path on the other | |

`DefaultHandedBack` states what `device_registry.hpp` says, not what a user may expect:
a default picked while the daemon runs is overwritten when it ends.

The falloff's gain (`audio_engine.cpp:582-604`) changes at a block's boundary at once
while the paths crossfade, though `docs/near-field-distance-plan.md:128-130` wants no
click in either direction; `ToggleIsSmooth` is about the paths only. What client
threads do once `Teardown` destroys the engine under them is undefined, and left out.

## 6. Not modelled, and the plan

Modelled: the lock-free structures, the deck and the stage, the audio path between
the streams, the convolver, settings, commands and catalog, the device registry, the
output, the daemon's life, the protocol, the connection, and the GUI's session.

Every safety property of a passing run is a theorem; liveness stays with TLC, for the
reason given in section 4.

Not modelled: the floating-point signal processing (ambisonics, biquads, the
near-field filter, the synthetic HRTF and the loader's gain normalisation), which is
arithmetic over one block without state shared between threads; `gui_prefs`, which one
thread reads once and rewrites; ImGui drawing and window set-up; the build files and
data; the engine's destruction under running client threads, which has no defined
outcome. PipeWire, the kernel and the user are modelled by how the code uses them, and
marked external.

