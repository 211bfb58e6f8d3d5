--------------------------- MODULE ControlSession ---------------------------
(***************************************************************************)
(* The GUI at work on the daemon (gui/src/app.cpp, position_dial.cpp,      *)
(* control_client.cpp).  The GUI is one thread that draws frames.  In each *)
(* it first connects or polls when a timer says so (App::Tick) and then    *)
(* lets the user act on its widgets (DrawSpatialTab, DrawEqTab); every     *)
(* request waits for its answer, 200 ms at most, and then the connection   *)
(* is dropped.  The daemon serves a connection until it has handled all    *)
(* that was sent on it, so a request the GUI has given up may still be     *)
(* carried out, after later ones.  The daemon may stop and be started      *)
(* again; it comes up with what it has saved (module ControlCommands,      *)
(* which has the system calls that fail and the loss of power), which two  *)
(* requests that were saved at once may have spoilt.                       *)
(*                                                                         *)
(* The widgets show LastStatus, which every answer replaces as a whole,    *)
(* and which the dial writes while a speaker is dragged; the equalizer     *)
(* shows a curve that is fetched at each connect and then kept by the GUI. *)
(* Two speakers, each the other's mirror, stand for all seven, one band    *)
(* for ten and the bass enhancer.  Of the settings a click sets by itself  *)
(* "choice" stands for the mode and near field, "pick" for the device and  *)
(* the HRTF, which are entries of lists that change, and "noise" for the   *)
(* test noise, which is not saved.  A value is the number of the user's    *)
(* action that gave it; 0 is the default or any the user has not given.    *)
(***************************************************************************)
EXTENDS Integers, Sequences, SequencesExt

CONSTANTS
  None,
  MaxActs, MaxTimeouts, MaxKills   \* bounds of the model

ASSUME SessionAssumption == {MaxActs, MaxTimeouts, MaxKills} \subseteq Nat

VARIABLES
  up, settings,      \* the daemon runs; what it has in force, or had when it stopped
  serving,           \* a thread of it is at the other end of the socket
  late,              \* the changes sent on sockets closed since, not yet handled
  socket,            \* the client's SocketFd is open
  toServer, toClient,
  phase,             \* of the frame: "network" (Tick), then "draw" (DrawUI)
  activity, todo, waiting,  \* what the frame is at, the requests left, one is sent
  connected,         \* bConnected
  mirror, cache,     \* LastStatus; HwEqBands
  dragging, pending, pendingMirror,  \* bPositionSendPending and PendingMirroredIndex
  acts, timeouts, kills,
  intent,            \* history: the user's last word on a setting, if it may be relied on
  overrun,           \* history: the positions a poll took back before they were sent
  drifted,           \* history: a late request changed the curve since it was fetched
  overlapped         \* history: two requests may have been saved at once in this run

daemonVars  == <<up, settings, serving, late>>
socketVars  == <<socket, toServer, toClient>>
frameVars   == <<phase, activity, todo, waiting, connected>>
dialVars    == <<dragging, pending, pendingMirror>>
shownVars   == <<mirror, cache>>
countVars   == <<acts, timeouts, kills>>
historyVars == <<intent, overrun, drifted, overlapped>>
vars == <<daemonVars, socketVars, frameVars, dialVars, shownVars, countVars, historyVars>>

Speakers == {"left", "right"}
Azimuth(s)  == <<"azimuth", s>>
Distance(s) == <<"distance", s>>
Muted(s)    == <<"muted", s>>

Positions == {Azimuth(s) : s \in Speakers} \cup {Distance(s) : s \in Speakers}
Choice == <<"choice", "kept">>
Pick   == <<"choice", "pick">>
Noise  == <<"choice", "noise">>
Chosen == {Choice, Pick, Noise}
Gain   == <<"band", "gain">>
Q      == <<"band", "q">>

InStatus  == Positions \cup {Muted(s) : s \in Speakers} \cup Chosen
InCurve   == {Gain, Q}
Fields    == InStatus \cup InCurve

Placeholder == -1    \* an EqBand no curve was fetched for

\* What a drag of the left speaker moves; MirrorPartnerIndex.
Moved(mirrored) == {f \in Positions : mirrored \/ f[2] = "left"}

\* s as a request that sets some fields leaves it, and what sets one field.
Update(s, sets) == [f \in DOMAIN s |-> IF f \in DOMAIN sets THEN sets[f] ELSE s[f]]
Only(f, value)  == [g \in {f} |-> value]

StatusOf(s) == [f \in InStatus |-> s[f]]
CurveOf(s)  == [f \in InCurve |-> s[f]]

Init ==
  /\ up \in BOOLEAN
  /\ settings = [f \in Fields |-> 0]
  /\ serving = FALSE /\ late = << >>
  /\ socket = FALSE /\ toServer = << >> /\ toClient = << >>
  /\ phase = "network" /\ activity = "none" /\ todo = << >> /\ waiting = FALSE
  /\ connected = FALSE
  /\ mirror = [f \in InStatus |-> Placeholder] /\ cache = [f \in InCurve |-> Placeholder]
  /\ dragging = FALSE /\ pending = FALSE /\ pendingMirror = FALSE
  /\ acts = 0 /\ timeouts = 0 /\ kills = 0
  /\ intent = [f \in Fields |-> None] /\ overrun = {} /\ drifted = FALSE
  /\ overlapped = FALSE

-----------------------------------------------------------------------------
(* Requests: what they set, and the kind of their answer *)

Get(kind) == [kind |-> kind, sets |-> << >>]
Set(sets) == [kind |-> "status", sets |-> sets]

GetStatus == Get("status")
Lists     == <<Get("list"), Get("list")>>    \* the devices, the HRTF catalog

\* Mutant: the curve is fetched at the first connect only.
CurvesOnce == IF cache[Q] = Placeholder THEN <<Get("curve"), Get("list")>> ELSE << >>

Curves == <<Get("curve"), Get("list")>>      \* the equalizer, the bass enhancer

Forget(fields) == [f \in Fields |-> IF f \in fields THEN None ELSE intent[f]]

SetBy(requests) == UNION {DOMAIN requests[i].sets : i \in DOMAIN requests}

-----------------------------------------------------------------------------
(* The daemon *)

\* What HandleControlCommand makes of a request: what it asks for, unless the list it
\* picks from has changed.  An index out of range is refused, and answered with the
\* status all the same; another may name another entry.
Outcomes(sets) ==
  LET asked == Update(settings, sets)
  IN  IF Pick \in DOMAIN sets
        THEN {[asked EXCEPT ![Pick] = value] : value \in {sets[Pick], settings[Pick], 0}}
        ELSE {asked}

\* HandleClient on the GUI's connection; HandleControlCommand, and its answer.
Handle ==
  /\ serving /\ toServer # << >>
  /\ LET r == Head(toServer)
     IN  /\ settings' \in Outcomes(r.sets)
         /\ toClient' = Append(toClient,
              [kind |-> r.kind,
               value |-> CASE r.kind = "status" -> StatusOf(settings')
                           [] r.kind = "curve"  -> CurveOf(settings')
                           [] OTHER             -> None])
         /\ drifted' = (drifted /\ r.kind # "curve")
         /\ intent' = IF settings' = Update(settings, r.sets) THEN intent
                                                              ELSE Forget({Pick})
  /\ toServer' = Tail(toServer)
  /\ UNCHANGED <<up, serving, late, socket, frameVars, dialVars, shownVars, countVars,
                 overrun, overlapped>>

\* HandleClient on a connection its client has closed.
HandleLate ==
  \E i \in DOMAIN late :
    LET sets == late[i].sets
    IN  /\ settings' \in Outcomes(sets)
        /\ late' = RemoveAt(late, i)
        /\ intent' = Forget(DOMAIN sets)
        /\ drifted' = (drifted \/ DOMAIN sets \cap InCurve # {})
        /\ UNCHANGED <<up, serving, socketVars, frameVars, dialVars, shownVars, countVars,
                       overrun, overlapped>>

\* Settings.Load, and what Run makes of it: the test noise is off, and a device or an
\* HRTF that is gone is replaced.  Of two saves at once the older may have stayed, or
\* no text at all: then nothing the user has said can be relied on.
Start ==
  /\ ~up
  /\ up' = TRUE
  /\ \/ \E unsaved \in {{Noise}, {Noise, Pick}} :
          /\ settings' = [f \in Fields |-> IF f \in unsaved THEN 0 ELSE settings[f]]
          /\ intent' = Forget(unsaved)
     \/ overlapped /\ settings' = [f \in Fields |-> 0] /\ intent' = Forget(Fields)
  /\ overlapped' = FALSE
  /\ UNCHANGED <<serving, late, socketVars, frameVars, dialVars, shownVars, countVars,
                 overrun, drifted>>

\* The daemon stops; answers already sent can still be read.
Kill ==
  /\ up /\ kills < MaxKills
  /\ kills' = kills + 1
  /\ up' = FALSE /\ serving' = FALSE /\ late' = << >>
  /\ toServer' = << >>
  /\ UNCHANGED <<settings, socket, toClient, frameVars, dialVars, shownVars, acts, timeouts,
                 historyVars>>

-----------------------------------------------------------------------------
(* The client: SendRawRequest *)

\* Mutant: the socket stays as it is when an answer does not come in time.
StayConnected == UNCHANGED <<socketVars, serving, late>>

Disconnect ==
  /\ socket' = FALSE /\ toServer' = << >> /\ toClient' = << >> /\ serving' = FALSE
  /\ late' = IF SetBy(toServer) = {} THEN late ELSE late \o toServer

\* Tick comes before DrawUI.
After(a) == IF a = "draw" THEN "network" ELSE "draw"

\* Mutant: a failure does not make the GUI connect again.
GiveUpQuietly ==
  /\ connected' = (connected \/ (activity = "connect" /\ Head(todo) # GetStatus))
  /\ phase' = After(activity) /\ activity' = "none" /\ todo' = << >> /\ waiting' = FALSE
  /\ intent' = Forget(SetBy(todo))
  /\ UNCHANGED <<mirror, cache, overrun, drifted, overlapped>>

\* A request has failed, and those after it are not sent.  While connecting only
\* the first one counts: without the lists the GUI is connected all the same.
GiveUp ==
  /\ connected' = (activity = "connect" /\ Head(todo) # GetStatus)
  /\ phase' = After(activity) /\ activity' = "none" /\ todo' = << >> /\ waiting' = FALSE
  /\ intent' = Forget(SetBy(todo))
  /\ UNCHANGED <<mirror, cache, overrun, drifted, overlapped>>

\* A change sent while one that was given up is not yet handled may be saved at the
\* same moment, each by the thread of its connection.
Send ==
  /\ todo # << >> /\ ~waiting /\ socket /\ serving
  /\ toServer' = Append(toServer, Head(todo))
  /\ waiting' = TRUE
  /\ overlapped' = (overlapped \/ (late # << >> /\ DOMAIN Head(todo).sets # {}))
  /\ UNCHANGED <<daemonVars, socket, toClient, phase, activity, todo, connected, dialVars,
                 shownVars, countVars, intent, overrun, drifted>>

\* There is no socket, or nobody at its other end: send or recv fails.
Fail ==
  /\ todo # << >> /\ ~serving
  /\ waiting => toClient = << >>
  /\ GiveUp
  /\ Disconnect
  /\ UNCHANGED <<up, settings, dialVars, countVars>>

\* RecvExact gives up after SO_RCVTIMEO.
Timeout ==
  /\ waiting /\ serving /\ toClient = << >> /\ timeouts < MaxTimeouts
  /\ timeouts' = timeouts + 1
  /\ GiveUp
  /\ Disconnect
  /\ UNCHANGED <<up, settings, dialVars, acts, kills>>

\* The answer replaces what is shown: LastStatus, or the equalizer's curve.
Receive ==
  /\ waiting /\ toClient # << >>
  /\ toClient' = Tail(toClient)
  /\ LET answer == Head(toClient)
         last   == Len(todo) = 1
     IN  IF answer.kind # Head(todo).kind
           THEN GiveUp
           ELSE /\ mirror' = IF answer.kind = "status" THEN answer.value ELSE mirror
                /\ cache' = IF answer.kind = "curve" THEN answer.value ELSE cache
                /\ overrun' = IF pending /\ activity # "draw"
                                THEN overrun \cup Moved(pendingMirror) ELSE overrun
                /\ todo' = Tail(todo) /\ waiting' = FALSE
                /\ activity' = IF last THEN "none" ELSE activity
                /\ phase' = IF last THEN After(activity) ELSE phase
                /\ connected' = (connected \/ last)
                /\ UNCHANGED <<intent, drifted, overlapped>>
  /\ UNCHANGED <<daemonVars, socket, toServer, dialVars, countVars>>

-----------------------------------------------------------------------------
(* Tick *)

InPhase(p) == phase = p /\ activity = "none"

\* No timer has run out.
NotDue ==
  /\ InPhase("network")
  /\ phase' = "draw"
  /\ UNCHANGED <<daemonVars, socketVars, activity, todo, waiting, connected, dialVars,
                 shownVars, countVars, historyVars>>

\* ControlClient::Connect.
Connect ==
  /\ InPhase("network") /\ ~connected
  /\ socket' = up /\ serving' = up /\ toServer' = << >> /\ toClient' = << >>
  /\ IF up
       THEN /\ activity' = "connect" /\ phase' = phase
            /\ todo' = <<GetStatus>> \o Lists \o Curves
       ELSE phase' = "draw" /\ UNCHANGED <<activity, todo>>
  /\ UNCHANGED <<up, settings, late, waiting, connected, dialVars, shownVars, countVars,
                 historyVars>>

\* The status, and now and then the lists.
Poll ==
  /\ InPhase("network") /\ connected
  /\ activity' = "poll"
  /\ todo' \in {<<GetStatus>>, <<GetStatus>> \o Lists}
  /\ UNCHANGED <<daemonVars, socketVars, phase, waiting, connected, dialVars, shownVars,
                 countVars, historyVars>>

-----------------------------------------------------------------------------
(* DrawUI *)

\* What the user has said, unless a request that was given up may yet undo it.
Say(sets) ==
  /\ intent' = [f \in Fields |-> IF f \in SetBy(late) \cap DOMAIN sets THEN None
                                 ELSE Update(intent, sets)[f]]
  /\ overrun' = overrun \ DOMAIN sets

\* SendSpeakerPositionValues.
PositionRequests(s, values) ==
  <<Set(Only(Azimuth(s), values[Azimuth(s)])), Set(Only(Distance(s), values[Distance(s)]))>>

\* SendSpeakerPosition: all the values are read before the first answer comes.
SendSpeakerPosition(values, mirrored) ==
  PositionRequests("left", values)
    \o (IF mirrored THEN PositionRequests("right", values) ELSE << >>)

\* The requests of this frame.
Do(requests) ==
  /\ todo' = requests
  /\ activity' = IF requests = << >> THEN "none" ELSE "draw"
  /\ phase' = IF requests = << >> THEN "network" ELSE "draw"
  /\ UNCHANGED <<daemonVars, socketVars, waiting, connected, timeouts, kills>>

\* The widgets are disabled unless the GUI is connected.
UserActs ==
  /\ InPhase("draw") /\ connected /\ acts < MaxActs
  /\ acts' = acts + 1

\* A frame of a drag, with or without the mirror: the first one is sent at once,
\* a later one when PositionSendTimerSeconds has run out.  The mouse that drags does
\* not switch the mirror.
Drag(mirrored) ==
  /\ UserActs
  /\ dragging => mirrored = pendingMirror
  /\ LET shown == [f \in InStatus |-> IF f \in Moved(mirrored) THEN acts' ELSE mirror[f]]
     IN  /\ mirror' = shown
         /\ Say([f \in Moved(mirrored) |-> acts'])
         /\ \/ Do(SendSpeakerPosition(shown, mirrored)) /\ pending' = FALSE
            \/ dragging /\ Do(<< >>) /\ pending' = TRUE
  /\ dragging' = TRUE /\ pendingMirror' = mirrored
  /\ UNCHANGED <<cache, drifted, overlapped>>

\* Mutant: what was dragged last is not sent when the drag ends.
NothingToFlush == << >>

ToFlush == IF pending THEN SendSpeakerPosition(mirror, pendingMirror) ELSE << >>

\* A frame without a drag, and without a click: what is pending is sent.
Release ==
  /\ InPhase("draw")
  /\ Do(ToFlush)
  /\ dragging' = FALSE /\ pending' = FALSE /\ pendingMirror' = FALSE
  /\ UNCHANGED <<shownVars, acts, historyVars>>

\* A click.  The mouse that clicks does not drag.
Clicks(sets, requests) ==
  /\ UserActs /\ ~dragging
  /\ Say(sets)
  /\ Do(requests)
  /\ UNCHANGED <<mirror, dialVars, drifted, overlapped>>

\* SetSpatialMode, SetNearFieldEnabled; SetOutputDevice, SetHrtfFile; SetTestNoise.
Choose(f) == Clicks(Only(f, acts'), <<Set(Only(f, acts'))>>) /\ UNCHANGED cache

\* ResetSpeakerPositions: the daemon's defaults.
Reset ==
  LET sets == [f \in Positions |-> 0]
  IN  Clicks(sets, <<Set(sets)>>) /\ UNCHANGED cache

\* SetSpeakerMuted, once for every speaker: Solo, Unmute all.
MuteEach(muted) ==
  /\ Clicks([f \in {Muted(s) : s \in Speakers} |-> muted[f[2]]],
            <<Set(Only(Muted("left"), muted["left"])), Set(Only(Muted("right"), muted["right"]))>>)
  /\ UNCHANGED cache

Solo(s) == MuteEach([t \in Speakers |-> IF t = s THEN 0 ELSE 1])
UnmuteAll == MuteEach([t \in Speakers |-> 0])

\* The opposite of what is shown.
ToggleMute(s) ==
  LET sets == Only(Muted(s), 1 - mirror[Muted(s)])
  IN  Clicks(sets, <<Set(sets)>>) /\ UNCHANGED cache

\* SendHwEqBand: one value of a band changes and the whole band is sent.
EditBand(f) ==
  LET band == [cache EXCEPT ![f] = acts']
  IN  /\ Clicks(Only(f, acts'), <<Set(band)>>)
      /\ cache' = band

Clicking ==
  \/ Reset \/ UnmuteAll
  \/ \E f \in Chosen : Choose(f)
  \/ \E s \in Speakers : Solo(s) \/ ToggleMute(s)
  \/ \E f \in InCurve : EditBand(f)

-----------------------------------------------------------------------------

Frame == NotDue \/ Connect \/ Poll \/ Release
Waits == Send \/ Fail \/ Receive

Next ==
  \/ Handle \/ HandleLate \/ Start \/ Kill
  \/ Send \/ Fail \/ Timeout \/ Receive
  \/ NotDue \/ Connect \/ Poll
  \/ \E mirrored \in BOOLEAN : Drag(mirrored)
  \/ Release \/ Clicking

\* Frames are drawn, requests answered and a daemon that stopped started again; the
\* timers of Tick run out over and over, if not in every frame.
Fairness ==
  /\ WF_vars(Frame) /\ WF_vars(Waits)
  /\ SF_vars(Connect) /\ SF_vars(Poll)
  /\ WF_vars(Handle) /\ WF_vars(HandleLate) /\ WF_vars(Start)

Spec == Init /\ [][Next]_vars /\ Fairness

-----------------------------------------------------------------------------
(* Properties *)

AtRest == activity = "none" /\ ~pending

TypeOK ==
  /\ settings \in [Fields -> 0 .. MaxActs] /\ cache \in [InCurve -> -1 .. MaxActs]
  /\ mirror \in [InStatus -> -1 .. MaxActs] /\ intent \in [Fields -> 0 .. MaxActs \cup {None}]
  /\ activity \in {"none", "connect", "poll", "draw"} /\ phase \in {"network", "draw"}
  /\ (activity = "none") <=> (todo = << >>)
  /\ waiting => todo # << >>
  /\ serving => up /\ socket
  /\ pending => dragging

\* Between two requests nothing is on the way: an answer that comes too late is never
\* taken for the next request's (SendRawRequest's Disconnect after a timeout, and
\* Connect's).  A request is one of the frame's, and only who is connected is served,
\* which the types include.
EmptyBetweenRequests ==
  /\ TypeOK
  /\ ~waiting => toServer = << >> /\ toClient = << >>
  /\ waiting => Len(toServer) + Len(toClient) <= 1

\* When the GUI is at rest the daemon has the user's last word on every setting,
\* however drags, clicks, polls and restarts followed one another, but for requests that
\* failed, settings a late request has changed, a drag a poll has overrun, a device or
\* an HRTF that was no longer listed, and what a restart does not bring back: the test
\* noise, a device or an HRTF that is gone, and anything if a late request and another
\* were saved at once (SendSpeakerPosition, the flush at the end of a drag,
\* SetSpeakerMuted; HandleControlCommand, PersistCurrentSettings, Run).
IntentInForce ==
  AtRest =>
    \A f \in Fields :
      \/ intent[f] = None
      \/ f \in overrun
      \/ settings[f] = intent[f]

\* The band the equalizer shows is the daemon's, whatever edits and reconnects came
\* before, but for a late request (HwEqBands, fetched only when connecting).  A band no
\* curve was fetched for is never sent: the widgets wait for bConnected, and a connect
\* that fails at the curve leaves no socket to send on (app.hpp:85-92).
CurveShown ==
  /\ connected /\ socket /\ serving /\ AtRest /\ ~drifted => cache = CurveOf(settings)
  /\ \A f \in InCurve : settings[f] # Placeholder

\* In the end the GUI is connected and shows what is in force, once there are no more
\* timeouts and restarts, and the user lets go.
MirrorConverges == <>[](connected /\ mirror = StatusOf(settings))
=============================================================================
