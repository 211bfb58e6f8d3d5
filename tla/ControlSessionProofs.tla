------------------------ MODULE ControlSessionProofs ------------------------
(***************************************************************************)
(* Theorems about ControlSession, for any number of user actions, timeouts *)
(* and restarts of the daemon: answers are never mistaken for one another, *)
(* the user's last word is in force and the equalizer shows what is.       *)
(*                                                                         *)
(* The inductive invariant says of every request that is left what it is   *)
(* about to do: a change carries what the user said last, and what the     *)
(* equalizer shows.  Its parts are proved one after the other, each from   *)
(* those before it.                                                        *)
(***************************************************************************)
EXTENDS ControlSession, SequenceTheorems, TLAPS

USE SessionAssumption

-----------------------------------------------------------------------------
(* The inductive invariant *)

Kinds  == {"status", "list", "curve"}
Values == -1 .. MaxActs

\* What the daemon may have been given; a speaker is muted or not.
Mutes      == {Muted(s) : s \in Speakers}
Allowed(f) == IF f \in Mutes THEN (0 .. 1) \cap (0 .. MaxActs) ELSE 0 .. MaxActs
Valid(v)   == \A f \in DOMAIN v : v[f] \in Allowed(f)

Sets     == UNION {[D -> Values] : D \in SUBSET Fields}
Requests == [kind: Kinds, sets: Sets]
Answers  == [kind: Kinds, value: [InStatus -> Values] \cup [InCurve -> Values] \cup {None}]

\* What TypeOK says, and more.
ValueTypes ==
  /\ settings \in [Fields -> 0 .. MaxActs] /\ cache \in [InCurve -> Values]
  /\ mirror \in [InStatus -> Values] /\ intent \in [Fields -> 0 .. MaxActs \cup {None}]

FrameTypes ==
  /\ activity \in {"none", "connect", "poll", "draw"} /\ phase \in {"network", "draw"}
  /\ (activity = "none") <=> (todo = << >>)
  /\ waiting => todo # << >>
  /\ serving => up /\ socket
  /\ pending => dragging

TypesOK ==
  /\ ValueTypes /\ FrameTypes
  /\ up \in BOOLEAN /\ serving \in BOOLEAN /\ socket \in BOOLEAN /\ waiting \in BOOLEAN
  /\ connected \in BOOLEAN /\ dragging \in BOOLEAN /\ pending \in BOOLEAN
  /\ pendingMirror \in BOOLEAN /\ drifted \in BOOLEAN
  /\ acts \in 0 .. MaxActs /\ overrun \subseteq Positions
  /\ todo \in Seq(Requests) /\ late \in Seq(Requests)
  /\ toServer \in Seq(Requests) /\ toClient \in Seq(Answers)

\* The one request that is sent is the first that is left, on one of its two ways.
ChannelOK ==
  /\ toServer # << >> =>
       /\ waiting /\ serving /\ toClient = << >>
       /\ Len(toServer) = 1 /\ Head(toServer) = Head(todo)
  /\ toClient # << >> =>
       waiting /\ Len(toClient) = 1 /\ Head(toClient).kind = Head(todo).kind

\* What is left of the requests of each activity.  Nothing is sent, and nobody is
\* served, without a connection.
ConnectRequests == <<GetStatus, Get("list"), Get("list"), Get("curve"), Get("list")>>

FrameOK ==
  /\ activity = "connect" =>
       /\ Len(todo) <= 5
       /\ \A i \in DOMAIN todo : todo[i] = ConnectRequests[5 - Len(todo) + i]
  /\ activity = "poll" => \A i \in DOMAIN todo : todo[i] \in {GetStatus, Get("list")}
  /\ activity = "draw" => ~pending /\ \A i \in DOMAIN todo : todo[i].kind = "status"
  /\ activity # "connect" /\ (serving \/ waiting) => connected

\* The status and the curve have come, of those the GUI asks for when it connects.
StatusCame == connected \/ (activity = "connect" /\ Len(todo) < 5)
CurveCame  == serving /\ (activity = "connect" => Len(todo) <= 1)

\* Only settings the daemon may have are sent to it, and nothing is shown that was
\* not fetched.
ValuesOK ==
  /\ Valid(settings)
  /\ \A i \in DOMAIN late : Valid(late[i].sets)
  /\ serving => \A i \in DOMAIN todo : Valid(todo[i].sets)
  /\ toClient # << >> /\ Head(todo).kind = "status" =>
       Head(toClient).value \in [InStatus -> Values] /\ Valid(Head(toClient).value)
  /\ toClient # << >> /\ Head(todo).kind = "curve" =>
       Head(toClient).value \in [InCurve -> Values] /\ Valid(Head(toClient).value)
  /\ StatusCame => Valid(mirror)
  /\ CurveCame => Valid(cache)

\* The user's last word on f counts.
Relies(f) == intent[f] # None /\ f \notin overrun

\* What is left, shown and on its way back agrees with it, and it is in force, or a
\* request that is left carries it, or it is still to be sent of the drag.
TodoSaid == \A i \in DOMAIN todo : \A f \in DOMAIN todo[i].sets :
              Relies(f) => todo[i].sets[f] = intent[f]

CacheSaid == \A f \in InCurve : Relies(f) => cache[f] = intent[f]

AnswerSaid ==
  toClient # << >> =>
    /\ \A f \in DOMAIN Head(todo).sets : Relies(f) => settings[f] = intent[f]
    /\ Head(todo).kind = "curve" =>
         \A f \in InCurve : Relies(f) => Head(toClient).value[f] = intent[f]

DragSaid == pending => \A f \in Moved(pendingMirror) : Relies(f) => mirror[f] = intent[f]

LastWord ==
  \A f \in Fields :
    Relies(f) => \/ settings[f] = intent[f]
                 \/ f \in SetBy(todo)
                 \/ pending /\ f \in Moved(pendingMirror)

IntentOK == TodoSaid /\ CacheSaid /\ AnswerSaid /\ DragSaid /\ LastWord

\* What the equalizer shows is in force, or a request that is left carries it.
TodoShown == \A i \in DOMAIN todo : \A f \in DOMAIN todo[i].sets \cap InCurve :
               todo[i].sets[f] = cache[f]

CurveInForce ==
  CurveCame /\ ~drifted => \A f \in InCurve : cache[f] = settings[f] \/ f \in SetBy(todo)

AnswerShown ==
  toClient # << >> /\ ~drifted =>
    /\ CurveCame => \A f \in InCurve \cap DOMAIN Head(todo).sets : cache[f] = settings[f]
    /\ Head(todo).kind = "curve" /\ serving => Head(toClient).value = CurveOf(settings)

ShownOK == TodoShown /\ CurveInForce /\ AnswerShown

IInv == TypesOK /\ ChannelOK /\ FrameOK /\ ValuesOK /\ IntentOK /\ ShownOK

-----------------------------------------------------------------------------
(* Fields and requests *)

LEMMA FieldFacts ==
  /\ Positions \cap Mutes = {} /\ Positions \cap InCurve = {} /\ Mutes \cap InCurve = {}
  /\ Chosen \cap (Positions \cup Mutes \cup InCurve) = {} /\ Pick \in Chosen
  /\ InStatus = Positions \cup Mutes \cup Chosen /\ Fields = InStatus \cup InCurve
  BY DEF Positions, Mutes, InStatus, InCurve, Fields, Chosen, Choice, Pick, Noise, Gain, Q,
         Azimuth, Distance, Muted, Speakers

LEMMA MovedFacts ==
  /\ Moved(TRUE) = {Azimuth("left"), Distance("left"), Azimuth("right"), Distance("right")}
  /\ Moved(FALSE) = {Azimuth("left"), Distance("left")}
  /\ \A m \in BOOLEAN : Moved(m) \subseteq Positions
  BY DEF Moved, Positions, Azimuth, Distance, Speakers

\* A request that sets the fields of D to what v holds.
LEMMA SetIsRequest ==
  ASSUME NEW D, D \subseteq Fields, NEW v \in [D -> Values]
  PROVE  /\ Set(v) \in Requests /\ Set(v).kind = "status" /\ Set(v).sets = v
         /\ DOMAIN Set(v).sets = D
<1>1. v \in Sets
  BY DEF Sets
<1>2. QED
  BY <1>1 DEF Set, Requests, Kinds

LEMMA GetIsRequest ==
  ASSUME NEW k \in Kinds
  PROVE  /\ Get(k) \in Requests /\ Get(k).kind = k /\ DOMAIN Get(k).sets = {}
         /\ Valid(Get(k).sets)
<1>1. << >> \in [{} -> Values] /\ DOMAIN << >> = {}
  OBVIOUS
<1>2. << >> \in Sets
  BY <1>1 DEF Sets
<1>3. QED
  BY <1>1, <1>2 DEF Get, Requests, Valid

LEMMA RequestFacts ==
  ASSUME NEW r \in Requests
  PROVE  /\ r.kind \in Kinds /\ DOMAIN r.sets \subseteq Fields
         /\ \A f \in DOMAIN r.sets : r.sets[f] \in Values
  BY DEF Requests, Sets

LEMMA UpdateFacts ==
  ASSUME NEW s, NEW sets
  PROVE  /\ DOMAIN Update(s, sets) = DOMAIN s
         /\ \A f \in DOMAIN s :
              Update(s, sets)[f] = IF f \in DOMAIN sets THEN sets[f] ELSE s[f]
  BY DEF Update

LEMMA TailFacts ==
  ASSUME NEW q \in Seq(Requests), q # << >>
  PROVE  /\ Tail(q) \in Seq(Requests) /\ Len(Tail(q)) = Len(q) - 1
         /\ 1 \in DOMAIN q /\ Head(q) = q[1] /\ Head(q) \in Requests
         /\ \A i \in DOMAIN Tail(q) : i + 1 \in DOMAIN q /\ Tail(q)[i] = q[i + 1]
<1>1. /\ Tail(q) \in Seq(Requests) /\ Len(Tail(q)) = Len(q) - 1 /\ Head(q) \in Requests
      /\ \A i \in 1 .. Len(Tail(q)) : Tail(q)[i] = q[i + 1]
  BY HeadTailProperties
<1>2. DOMAIN q = 1 .. Len(q) /\ DOMAIN Tail(q) = 1 .. Len(Tail(q)) /\ Len(q) \in Nat \ {0}
  BY <1>1, LenProperties, EmptySeq
<1>3. QED
  BY <1>1, <1>2

\* The fields a sequence of requests sets.
LEMMA SetByFacts ==
  /\ SetBy(<< >>) = {}
  /\ \A q \in Seq(Requests) \ {<< >>} :
       SetBy(q) = DOMAIN Head(q).sets \cup SetBy(Tail(q))
  /\ \A q \in Seq(Requests), i \in Nat : i \in DOMAIN q => DOMAIN q[i].sets \subseteq SetBy(q)
  /\ \A q \in Seq(Requests) : Len(q) = 1 => SetBy(q) = DOMAIN Head(q).sets
<1>1. SetBy(<< >>) = {}
  BY DEF SetBy
<1>2. ASSUME NEW q \in Seq(Requests) \ {<< >>}
      PROVE  SetBy(q) = DOMAIN Head(q).sets \cup SetBy(Tail(q))
  <2>1. DOMAIN q = 1 .. Len(q) /\ DOMAIN Tail(q) = 1 .. Len(q) - 1 /\ Len(q) \in Nat \ {0}
    OBVIOUS
  <2>2. Head(q) = q[1] /\ \A i \in 1 .. Len(q) - 1 : Tail(q)[i] = q[i + 1]
    OBVIOUS
  <2>3. ASSUME NEW f, f \in SetBy(q)  PROVE f \in DOMAIN Head(q).sets \cup SetBy(Tail(q))
    <3>1. PICK i \in 1 .. Len(q) : f \in DOMAIN q[i].sets
      BY <2>1, <2>3 DEF SetBy
    <3>2. CASE i = 1
      BY <3>1, <3>2, <2>2
    <3>3. CASE i # 1
      <4>1. i - 1 \in 1 .. Len(q) - 1 /\ Tail(q)[i - 1] = q[i]
        BY <2>1, <2>2, <3>1, <3>3
      <4>2. QED
        BY <2>1, <3>1, <4>1 DEF SetBy
    <3>4. QED
      BY <3>2, <3>3
  <2>4. ASSUME NEW f, f \in SetBy(Tail(q))  PROVE f \in SetBy(q)
    <3>1. PICK i \in 1 .. Len(q) - 1 : f \in DOMAIN Tail(q)[i].sets
      BY <2>1, <2>4 DEF SetBy
    <3>2. i + 1 \in 1 .. Len(q) /\ q[i + 1] = Tail(q)[i]
      BY <2>1, <2>2, <3>1
    <3>3. QED
      BY <2>1, <3>1, <3>2 DEF SetBy
  <2>5. DOMAIN Head(q).sets \subseteq SetBy(q)
    <3>1. 1 \in DOMAIN q
      BY <2>1
    <3>2. QED
      BY <3>1, <2>2 DEF SetBy
  <2>6. QED
    BY <2>3, <2>4, <2>5
<1>3. ASSUME NEW q \in Seq(Requests), NEW i \in Nat, i \in DOMAIN q
      PROVE  DOMAIN q[i].sets \subseteq SetBy(q)
  BY <1>3 DEF SetBy
<1>4. ASSUME NEW q \in Seq(Requests), Len(q) = 1  PROVE SetBy(q) = DOMAIN Head(q).sets
  <2>1. q # << >>
    <3>1. 1 \in DOMAIN q
      BY <1>4, LenProperties
    <3>2. QED
      BY <3>1
  <2>2. Tail(q) \in Seq(Requests) /\ Len(Tail(q)) = 0
    BY <1>4, <2>1, HeadTailProperties
  <2>3. Tail(q) = << >>
    BY <2>2, EmptySeq
  <2>4. QED
    BY <1>1, <1>2, <2>1, <2>3
<1>5. QED
  BY <1>1, <1>2, <1>3, <1>4

\* The requests of q set the fields of D to what v holds.
Carries(q, v, D) ==
  /\ q \in Seq(Requests) /\ q # << >> /\ SetBy(q) = D
  /\ \A i \in DOMAIN q :
       /\ q[i].kind = "status" /\ DOMAIN q[i].sets \subseteq D
       /\ \A f \in DOMAIN q[i].sets : q[i].sets[f] = v[f]

LEMMA OneCarries ==
  ASSUME NEW D, D \subseteq Fields, NEW v \in [D -> Values]
  PROVE  Carries(<<Set(v)>>, v, D)
<1>1. Set(v) \in Requests /\ Set(v).kind = "status" /\ Set(v).sets = v /\ DOMAIN v = D
  BY SetIsRequest
<1> DEFINE q == <<Set(v)>>
<1>2. q \in Seq(Requests) /\ q # << >> /\ DOMAIN q = {1} /\ q[1] = Set(v)
  BY <1>1
<1>3. QED
  BY <1>1, <1>2 DEF Carries, SetBy

\* Requests for one field each, one after the other.
LEMMA OnlyFacts ==
  ASSUME NEW f \in Fields, NEW x \in Values
  PROVE  /\ Only(f, x) \in [{f} -> Values] /\ DOMAIN Only(f, x) = {f} /\ Only(f, x)[f] = x
         /\ Set(Only(f, x)) \in Requests /\ Set(Only(f, x)).kind = "status"
         /\ Set(Only(f, x)).sets = Only(f, x)
<1>1. Only(f, x) \in [{f} -> Values] /\ DOMAIN Only(f, x) = {f} /\ Only(f, x)[f] = x
  BY DEF Only
<1>2. QED
  BY <1>1, SetIsRequest

LEMMA TwoCarry ==
  ASSUME NEW f \in Fields, NEW g \in Fields, NEW v, v[f] \in Values, v[g] \in Values
  PROVE  Carries(<<Set(Only(f, v[f])), Set(Only(g, v[g]))>>, v, {f, g})
<1> DEFINE q == <<Set(Only(f, v[f])), Set(Only(g, v[g]))>>
<1>1. /\ q[1] \in Requests /\ q[1].kind = "status" /\ q[1].sets = Only(f, v[f])
      /\ q[2] \in Requests /\ q[2].kind = "status" /\ q[2].sets = Only(g, v[g])
  BY OnlyFacts
<1>2. q \in Seq(Requests) /\ q # << >> /\ DOMAIN q = {1, 2}
  BY <1>1
<1>3. /\ DOMAIN Only(f, v[f]) = {f} /\ Only(f, v[f])[f] = v[f]
      /\ DOMAIN Only(g, v[g]) = {g} /\ Only(g, v[g])[g] = v[g]
  BY OnlyFacts
<1>4. SetBy(q) = {f, g}
  BY <1>1, <1>2, <1>3 DEF SetBy
<1>5. QED
  BY <1>1, <1>2, <1>3, <1>4 DEF Carries

LEMMA BothCarry ==
  ASSUME NEW v, NEW C, NEW D, NEW p, NEW q, Carries(p, v, C), Carries(q, v, D)
  PROVE  Carries(p \o q, v, C \cup D)
<1> DEFINE r == p \o q
<1>1. /\ r \in Seq(Requests) /\ r # << >> /\ Len(r) = Len(p) + Len(q)
      /\ Len(p) \in Nat /\ Len(q) \in Nat
      /\ DOMAIN p = 1 .. Len(p) /\ DOMAIN q = 1 .. Len(q) /\ DOMAIN r = 1 .. Len(r)
  BY DEF Carries
<1>2. /\ \A i \in DOMAIN p : i \in DOMAIN r /\ r[i] = p[i]
      /\ \A i \in DOMAIN q : i + Len(p) \in DOMAIN r /\ r[i + Len(p)] = q[i]
  BY <1>1, ConcatProperties DEF Carries
<1>3. \A i \in DOMAIN r : i \in DOMAIN p \/ (i - Len(p) \in DOMAIN q /\ r[i] = q[i - Len(p)])
  BY <1>1, <1>2
<1> HIDE DEF r
<1>4. SetBy(r) = C \cup D
  <2>1. SetBy(p) = C /\ SetBy(q) = D
    BY DEF Carries
  <2>2. ASSUME NEW f, f \in SetBy(r)  PROVE f \in C \cup D
    BY <1>2, <1>3, <2>1, <2>2 DEF SetBy
  <2>3. ASSUME NEW f, f \in C \cup D  PROVE f \in SetBy(r)
    BY <1>2, <2>1, <2>3 DEF SetBy
  <2>4. QED
    BY <2>2, <2>3
<1>5. ASSUME NEW i \in DOMAIN r
      PROVE  /\ r[i].kind = "status" /\ DOMAIN r[i].sets \subseteq C \cup D
             /\ \A f \in DOMAIN r[i].sets : r[i].sets[f] = v[f]
  BY <1>2, <1>3 DEF Carries
<1>6. QED
  BY <1>1, <1>4, <1>5 DEF Carries, r

\* The requests of a drag carry the positions it moves.
LEMMA PositionsCarry ==
  ASSUME NEW v \in [InStatus -> Values], NEW m \in BOOLEAN
  PROVE  Carries(SendSpeakerPosition(v, m), v, Moved(m))
<1>1. \A s \in Speakers : Azimuth(s) \in InStatus /\ Distance(s) \in InStatus
  BY DEF InStatus, Positions
<1>2. ASSUME NEW s \in Speakers
      PROVE  Carries(PositionRequests(s, v), v, {Azimuth(s), Distance(s)})
  <2>1. /\ Azimuth(s) \in Fields /\ Distance(s) \in Fields
        /\ v[Azimuth(s)] \in Values /\ v[Distance(s)] \in Values
    BY <1>1 DEF Fields
  <2>2. QED
    BY <2>1, TwoCarry DEF PositionRequests
<1>3. "left" \in Speakers /\ "right" \in Speakers
  BY DEF Speakers
<1>4. CASE m
  <2>1. Carries(PositionRequests("left", v) \o PositionRequests("right", v), v, Moved(TRUE))
    <3>1. Moved(TRUE) = {Azimuth("left"), Distance("left")} \cup {Azimuth("right"), Distance("right")}
      BY MovedFacts
    <3>2. /\ Carries(PositionRequests("left", v), v, {Azimuth("left"), Distance("left")})
          /\ Carries(PositionRequests("right", v), v, {Azimuth("right"), Distance("right")})
      BY <1>2, <1>3
    <3>3. Carries(PositionRequests("left", v) \o PositionRequests("right", v), v,
                  {Azimuth("left"), Distance("left")} \cup {Azimuth("right"), Distance("right")})
      BY <3>2, BothCarry
    <3>4. QED
      BY <3>1, <3>3
  <2>2. QED
    BY <1>4, <2>1 DEF SendSpeakerPosition
<1>5. CASE ~m
  <2>1. PositionRequests("left", v) \o << >> = PositionRequests("left", v)
    BY <1>2, <1>3 DEF Carries
  <2>2. QED
    BY <1>2, <1>3, <1>5, <2>1, MovedFacts DEF SendSpeakerPosition
<1>6. QED
  BY <1>4, <1>5

-----------------------------------------------------------------------------
(* What a step does *)

\* f's new value is known from v.
LEMMA AllowedFacts ==
  ASSUME NEW f
  PROVE  /\ Allowed(f) \subseteq 0 .. MaxActs /\ Allowed(f) \subseteq Values
         /\ 0 \in Allowed(f)
         /\ f \in Mutes => Allowed(f) \subseteq 0 .. 1
         /\ \A n \in 0 .. MaxActs : f \notin Mutes \/ n \in 0 .. 1 => n \in Allowed(f)
  BY DEF Allowed, Values

LEMMA ForgetFacts ==
  ASSUME TypesOK, NEW F, intent' = Forget(F)
  PROVE  /\ intent' \in [Fields -> 0 .. MaxActs \cup {None}]
         /\ \A f \in Fields : intent'[f] \in {intent[f], None} /\ (f \in F => intent'[f] = None)
  BY DEF TypesOK, ValueTypes, FrameTypes, Forget

LEMMA RemoveAtFacts ==
  ASSUME NEW S, NEW s \in Seq(S), NEW i \in DOMAIN s
  PROVE  /\ RemoveAt(s, i) \in Seq(S)
         /\ \A j \in DOMAIN RemoveAt(s, i) : \E k \in DOMAIN s : RemoveAt(s, i)[j] = s[k]
<1> DEFINE a == SubSeq(s, 1, i - 1)
           b == SubSeq(s, i + 1, Len(s))
<1>1. i \in 1 .. Len(s) /\ Len(s) \in Nat /\ DOMAIN s = 1 .. Len(s)
  OBVIOUS
<1>2. /\ a \in Seq(S) /\ Len(a) = i - 1 /\ \A j \in 1 .. i - 1 : a[j] = s[j]
      /\ b \in Seq(S) /\ Len(b) = Len(s) - i
      /\ \A j \in 1 .. Len(s) - i : b[j] = s[i + j]
  <2>1. /\ a \in Seq(S) /\ Len(a) = i - 1 /\ \A j \in 1 .. i - 1 : a[j] = s[j]
    <3>1. 1 .. i - 1 \subseteq 1 .. Len(s)
      BY <1>1
    <3>2. QED
      BY <1>1, <3>1, SubSeqProperties
  <2>2. /\ b \in Seq(S) /\ Len(b) = Len(s) - i
        /\ \A j \in 1 .. Len(s) - i : b[j] = s[i + j]
    <3>1. /\ i + 1 \in Int /\ Len(s) \in Int /\ \A k \in i + 1 .. Len(s) : s[k] \in S
          /\ Len(s) - (i + 1) + 1 = Len(s) - i
          /\ i + 1 <= Len(s) \/ Len(s) - i = 0
      BY <1>1
    <3>2. /\ b \in Seq(S)
          /\ Len(b) = IF i + 1 <= Len(s) THEN Len(s) - (i + 1) + 1 ELSE 0
          /\ \A j \in 1 .. Len(s) - (i + 1) + 1 : b[j] = s[i + 1 + j - 1]
      BY <3>1, SubSeqProperties
    <3>3. \A j \in 1 .. Len(s) - i : i + 1 + j - 1 = i + j
      BY <1>1
    <3>4. QED
      BY <3>1, <3>2, <3>3
  <2>3. QED
    BY <2>1, <2>2
<1> HIDE DEF a, b
<1>3. /\ a \o b \in Seq(S) /\ Len(a \o b) = Len(s) - 1
      /\ \A j \in 1 .. Len(s) - 1 : (a \o b)[j] = IF j <= i - 1 THEN a[j] ELSE b[j - (i - 1)]
  <2>1. Len(a) + Len(b) = Len(s) - 1
    BY <1>1, <1>2
  <2>2. /\ a \o b \in Seq(S) /\ Len(a \o b) = Len(a) + Len(b)
        /\ \A j \in 1 .. Len(a) + Len(b) :
             (a \o b)[j] = IF j <= Len(a) THEN a[j] ELSE b[j - Len(a)]
    BY <1>2, ConcatProperties
  <2>3. QED
    BY <1>2, <2>1, <2>2
<1>4. DOMAIN (a \o b) = 1 .. Len(s) - 1
  BY <1>3
<1>5. ASSUME NEW j \in 1 .. Len(s) - 1  PROVE \E k \in DOMAIN s : (a \o b)[j] = s[k]
  <2>1. CASE j <= i - 1
    <3>1. j \in 1 .. i - 1 /\ j \in DOMAIN s
      BY <1>1, <2>1
    <3>2. QED
      BY <1>2, <1>3, <2>1, <3>1
  <2>2. CASE ~(j <= i - 1)
    <3>1. j - (i - 1) \in 1 .. Len(s) - i /\ i + (j - (i - 1)) = j + 1 /\ j + 1 \in DOMAIN s
      BY <1>1, <2>2
    <3>2. QED
      BY <1>2, <1>3, <2>2, <3>1
  <2>3. QED
    BY <2>1, <2>2
<1>6. QED
  BY <1>3, <1>4, <1>5 DEF RemoveAt, a, b

\* A request changes what it sets, and that as it asks but for the pick.
LEMMA OutcomeFacts ==
  ASSUME TypesOK, ValuesOK, NEW r \in Requests, Valid(r.sets), settings' \in Outcomes(r.sets)
  PROVE  /\ settings' \in [Fields -> 0 .. MaxActs] /\ Valid(settings')
         /\ \A f \in Fields :
              f # Pick => settings'[f] = IF f \in DOMAIN r.sets THEN r.sets[f] ELSE settings[f]
         /\ Pick \notin DOMAIN r.sets => settings'[Pick] = settings[Pick]
         /\ settings' = Update(settings, r.sets) /\ Pick \in DOMAIN r.sets
              => settings'[Pick] = r.sets[Pick]
<1> DEFINE sets  == r.sets
           asked == Update(settings, sets)
<1>1. /\ settings \in [Fields -> 0 .. MaxActs] /\ DOMAIN settings = Fields /\ Valid(settings)
      /\ DOMAIN sets \subseteq Fields /\ Valid(sets) /\ Pick \in Fields
  BY RequestFacts, FieldFacts DEF TypesOK, ValueTypes, ValuesOK
<1> HIDE DEF sets
<1>2. /\ asked = [f \in Fields |-> asked[f]]
      /\ \A f \in Fields : asked[f] = IF f \in DOMAIN sets THEN sets[f] ELSE settings[f]
  BY <1>1 DEF Update
<1>3. \A f \in Fields : asked[f] \in Allowed(f)
  BY <1>1, <1>2 DEF Valid
<1>4. settings' \in IF Pick \in DOMAIN sets
                      THEN {[asked EXCEPT ![Pick] = value] :
                              value \in {sets[Pick], settings[Pick], 0}}
                      ELSE {asked}
  BY DEF Outcomes, sets
<1> HIDE DEF asked
<1>5. /\ settings' = [f \in Fields |-> settings'[f]]
      /\ \A f \in Fields : f # Pick => settings'[f] = asked[f]
      /\ Pick \notin DOMAIN sets => settings'[Pick] = asked[Pick]
      /\ settings'[Pick] \in Allowed(Pick)
  <2>1. CASE Pick \in DOMAIN sets
    <3>1. PICK value \in {sets[Pick], settings[Pick], 0} :
            settings' = [asked EXCEPT ![Pick] = value]
      BY <1>4, <2>1
    <3>2. value \in Allowed(Pick)
      BY <1>1, <2>1, AllowedFacts DEF Valid
    <3>3. QED
      BY <1>1, <1>2, <2>1, <3>1, <3>2
  <2>2. CASE Pick \notin DOMAIN sets
    BY <1>1, <1>2, <1>3, <1>4, <2>2
  <2>3. QED
    BY <2>1, <2>2
<1>6. \A f \in Fields : settings'[f] \in Allowed(f)
  BY <1>3, <1>5
<1>7. settings' \in [Fields -> 0 .. MaxActs] /\ Valid(settings')
  BY <1>5, <1>6, AllowedFacts DEF Valid
<1>8. settings' = Update(settings, r.sets) /\ Pick \in DOMAIN r.sets
        => settings'[Pick] = r.sets[Pick]
  BY <1>1, <1>2 DEF asked, sets
<1>9. QED
  BY <1>1, <1>2, <1>5, <1>7, <1>8 DEF sets

\* The request that is on its way is carried out and answered: what it asks for is in
\* force from then on, or is not relied on.
Handled ==
  LET r == Head(todo)
      a == Head(toClient')
  IN  /\ waiting /\ serving /\ todo # << >> /\ r \in Requests /\ Valid(r.sets)
      /\ settings' \in [Fields -> 0 .. MaxActs] /\ Valid(settings')
      /\ \A f \in Fields :
           IF f \in DOMAIN r.sets THEN settings'[f] = r.sets[f] \/ (f = Pick /\ ~Relies(f)')
                                  ELSE settings'[f] = settings[f]
      /\ intent' \in [Fields -> 0 .. MaxActs \cup {None}]
      /\ \A f \in Fields : Relies(f)' => Relies(f) /\ intent'[f] = intent[f]
      /\ toServer' = << >> /\ toClient' # << >> /\ Len(toClient') = 1
      /\ toClient' \in Seq(Answers) /\ a.kind = r.kind
      /\ r.kind = "status" => a.value \in [InStatus -> Values] /\ Valid(a.value)
      /\ r.kind = "curve" => a.value = CurveOf(settings')
      /\ drifted' \in BOOLEAN /\ (drifted' <=> drifted /\ r.kind # "curve")
      /\ UNCHANGED <<up, serving, late, socket, frameVars, dialVars, shownVars, countVars,
                     overrun>>

\* The daemon carries out the request that is on its way, which sets only what it may.
LEMMA HandleIs ==
  ASSUME TypesOK, ChannelOK, ValuesOK, Handle
  PROVE  Handled
<1> DEFINE r == Head(todo)
           answer == [kind |-> r.kind,
                      value |-> CASE r.kind = "status" -> StatusOf(settings')
                                  [] r.kind = "curve"  -> CurveOf(settings')
                                  [] OTHER             -> None]
<1>1. /\ toServer # << >> /\ waiting /\ serving /\ toClient = << >> /\ todo # << >>
      /\ Len(toServer) = 1 /\ Head(toServer) = r /\ r \in Requests
  BY DEF Handle, TypesOK, ValueTypes, FrameTypes, ChannelOK
<1>2. Valid(r.sets)
  <2>1. r = todo[1] /\ 1 \in DOMAIN todo
    BY <1>1 DEF TypesOK
  <2>2. QED
    BY <1>1, <2>1 DEF ValuesOK
<1>3. /\ settings' \in Outcomes(r.sets) /\ toServer' = Tail(toServer)
      /\ toClient' = Append(toClient, answer) /\ drifted' = (drifted /\ r.kind # "curve")
      /\ intent' = IF settings' = Update(settings, r.sets) THEN intent ELSE Forget({Pick})
      /\ overrun' = overrun
  BY <1>1 DEF Handle
<1> HIDE DEF r
<1>4. /\ settings' \in [Fields -> 0 .. MaxActs] /\ Valid(settings')
      /\ \A f \in Fields :
           f # Pick => settings'[f] = IF f \in DOMAIN r.sets THEN r.sets[f] ELSE settings[f]
      /\ Pick \notin DOMAIN r.sets => settings'[Pick] = settings[Pick]
      /\ settings' = Update(settings, r.sets) /\ Pick \in DOMAIN r.sets
           => settings'[Pick] = r.sets[Pick]
  BY <1>1, <1>2, <1>3, OutcomeFacts
<1>5. /\ intent' \in [Fields -> 0 .. MaxActs \cup {None}]
      /\ \A f \in Fields : Relies(f)' => Relies(f) /\ intent'[f] = intent[f]
      /\ settings' = Update(settings, r.sets) \/ ~Relies(Pick)'
  <2>1. CASE settings' = Update(settings, r.sets)
    BY <1>3, <2>1 DEF Relies, TypesOK, ValueTypes
  <2>2. CASE settings' # Update(settings, r.sets)
    <3>1. intent' = Forget({Pick}) /\ Pick \in Fields
      BY <1>3, <2>2, FieldFacts
    <3>2. QED
      BY <1>3, <3>1, ForgetFacts DEF Relies
  <2>3. QED
    BY <2>1, <2>2
<1>6. \A f \in Fields :
        IF f \in DOMAIN r.sets THEN settings'[f] = r.sets[f] \/ (f = Pick /\ ~Relies(f)')
                               ELSE settings'[f] = settings[f]
  BY <1>4, <1>5
<1>7. /\ StatusOf(settings') \in [InStatus -> Values] /\ Valid(StatusOf(settings'))
      /\ CurveOf(settings') \in [InCurve -> Values]
  <2>1. InStatus \subseteq Fields /\ InCurve \subseteq Fields
    BY FieldFacts
  <2>2. \A f \in Fields : settings'[f] \in Values /\ settings'[f] \in Allowed(f)
    BY <1>4, AllowedFacts DEF Valid, Values
  <2>3. QED
    BY <2>1, <2>2 DEF StatusOf, CurveOf, Valid
<1>8. answer \in Answers
  BY <1>1, <1>7, RequestFacts DEF Answers, Kinds
<1>9. toClient' = <<answer>>
  BY <1>1, <1>3
<1>10. /\ toClient' # << >> /\ Len(toClient') = 1 /\ Head(toClient') = answer
       /\ toClient' \in Seq(Answers)
  BY <1>8, <1>9
<1>11. answer.kind = r.kind /\ (r.kind = "status" => answer.value = StatusOf(settings'))
       /\ (r.kind = "curve" => answer.value = CurveOf(settings'))
  OBVIOUS
<1>12. toServer' = << >>
  BY <1>1, <1>3 DEF TypesOK
<1> HIDE DEF answer
<1>13. drifted' \in BOOLEAN /\ (drifted' <=> drifted /\ r.kind # "curve")
  BY <1>3, Zenon
<1>14. UNCHANGED <<up, serving, late, socket, frameVars, dialVars, shownVars, countVars,
                   overrun>>
  BY DEF Handle
<1>15. QED
  BY <1>1, <1>2, <1>4, <1>5, <1>6, <1>7, <1>10, <1>11, <1>12, <1>13, <1>14 DEF Handled, r

\* The daemon carries out a request whose sender is gone.
LEMMA HandleLateIs ==
  ASSUME TypesOK, ValuesOK, HandleLate
  PROVE  \E sets \in Sets :
           /\ settings' \in [Fields -> 0 .. MaxActs] /\ Valid(settings')
           /\ \A f \in Fields : f \notin DOMAIN sets => settings'[f] = settings[f]
           /\ intent' = Forget(DOMAIN sets)
           /\ drifted' = (drifted \/ DOMAIN sets \cap InCurve # {})
           /\ late' \in Seq(Requests) /\ \A i \in DOMAIN late' : Valid(late'[i].sets)
<1>1. PICK i \in DOMAIN late :
        /\ settings' \in Outcomes(late[i].sets) /\ late' = RemoveAt(late, i)
        /\ intent' = Forget(DOMAIN late[i].sets)
        /\ drifted' = (drifted \/ DOMAIN late[i].sets \cap InCurve # {})
  BY DEF HandleLate
<1>2. late[i] \in Requests /\ Valid(late[i].sets) /\ late[i].sets \in Sets
  <2>1. late[i] \in Requests /\ Valid(late[i].sets)
    BY <1>1 DEF TypesOK, ValuesOK
  <2>2. QED
    BY <2>1 DEF Requests
<1>3. late' \in Seq(Requests) /\ \A j \in DOMAIN late' : Valid(late'[j].sets)
  BY <1>1, RemoveAtFacts DEF TypesOK, ValuesOK
<1>4. /\ settings' \in [Fields -> 0 .. MaxActs] /\ Valid(settings')
      /\ \A f \in Fields : f \notin DOMAIN late[i].sets => settings'[f] = settings[f]
  BY <1>1, <1>2, OutcomeFacts
<1>5. QED
  BY <1>1, <1>2, <1>3, <1>4

\* The daemon comes up with what it has saved, and what it has not is not relied on.
LEMMA StartIs ==
  ASSUME TypesOK, ValuesOK, Start
  PROVE  /\ ~up /\ settings' \in [Fields -> 0 .. MaxActs] /\ Valid(settings')
         /\ intent' \in [Fields -> 0 .. MaxActs \cup {None}]
         /\ \A f \in Fields : Relies(f)' => /\ Relies(f) /\ intent'[f] = intent[f]
                                            /\ settings'[f] = settings[f]
<1>1. PICK unsaved \in SUBSET Fields :
        /\ settings' = [f \in Fields |-> IF f \in unsaved THEN 0 ELSE settings[f]]
        /\ intent' = Forget(unsaved)
  <2>1. CASE \E F \in {{Noise}, {Noise, Pick}} :
               /\ settings' = [f \in Fields |-> IF f \in F THEN 0 ELSE settings[f]]
               /\ intent' = Forget(F)
    BY <2>1, FieldFacts DEF Chosen
  <2>2. CASE settings' = [f \in Fields |-> 0] /\ intent' = Forget(Fields)
    <3>1. settings' = [f \in Fields |-> IF f \in Fields THEN 0 ELSE settings[f]]
      BY <2>2
    <3>2. QED
      BY <2>2, <3>1
  <2>3. QED
    BY <2>1, <2>2 DEF Start
<1>2. overrun' = overrun /\ ~up
  BY DEF Start
<1>3. /\ intent' \in [Fields -> 0 .. MaxActs \cup {None}]
      /\ \A f \in Fields : f \in unsaved => intent'[f] = None
      /\ \A f \in Fields : intent'[f] \in {intent[f], None}
  BY <1>1, ForgetFacts
<1>4. \A f \in Fields : settings[f] \in Allowed(f) /\ 0 \in Allowed(f)
  BY AllowedFacts DEF ValuesOK, Valid, TypesOK, ValueTypes
<1>5. \A f \in Fields : settings'[f] \in Allowed(f)
  BY <1>1, <1>4
<1>6. settings' \in [Fields -> 0 .. MaxActs] /\ Valid(settings')
  BY <1>1, <1>5, AllowedFacts DEF Valid
<1>7. QED
  BY <1>1, <1>2, <1>3, <1>6 DEF Relies

\* The requests of the frame are given up.
Lost ==
  /\ todo # << >> /\ todo' = << >> /\ activity' = "none" /\ phase' \in {"network", "draw"}
  /\ {waiting', socket', serving', connected'} \subseteq BOOLEAN
  /\ ~waiting' /\ ~socket' /\ ~serving'
  /\ connected' <=> activity = "connect" /\ Head(todo) # GetStatus
  /\ intent' = Forget(SetBy(todo))
  /\ toServer' = << >> /\ toClient' = << >>
  /\ late' \in Seq(Requests) /\ \A i \in DOMAIN late' : Valid(late'[i].sets)
  /\ UNCHANGED <<up, settings, dialVars, shownVars, acts, overrun, drifted>>

\* A request that gets no answer is given up with those after it, and the connection
\* with them.
LEMMA LostIs ==
  ASSUME TypesOK, ChannelOK, ValuesOK, Fail \/ Timeout
  PROVE  Lost
<1>1. /\ todo # << >> /\ GiveUp /\ Disconnect
      /\ UNCHANGED <<up, settings, dialVars, acts>>
  BY DEF Fail, Timeout, TypesOK, ValueTypes, FrameTypes, countVars
<1>2. late' \in Seq(Requests) /\ \A i \in DOMAIN late' : Valid(late'[i].sets)
  <2>1. late' \in {late, late \o toServer}
    BY <1>1 DEF Disconnect
  <2>2. late \in Seq(Requests) /\ toServer \in Seq(Requests) /\ todo \in Seq(Requests)
    BY DEF TypesOK
  <2>3. \A i \in DOMAIN toServer : Valid(toServer[i].sets)
    <3>1. CASE toServer = << >>
      BY <3>1
    <3>2. CASE toServer # << >>
      <4>1. DOMAIN toServer = {1} /\ toServer[1] = todo[1] /\ serving /\ 1 \in DOMAIN todo
        BY <1>1, <2>2, <3>2 DEF ChannelOK
      <4>2. QED
        BY <4>1 DEF ValuesOK
    <3>3. QED
      BY <3>1, <3>2
  <2>4. ASSUME NEW i \in DOMAIN (late \o toServer)
        PROVE  Valid((late \o toServer)[i].sets)
    <3>1. /\ Len(late) \in Nat /\ Len(toServer) \in Nat /\ i \in 1 .. Len(late) + Len(toServer)
          /\ DOMAIN late = 1 .. Len(late) /\ DOMAIN toServer = 1 .. Len(toServer)
      BY <2>2
    <3>2. CASE i <= Len(late)
      <4>1. (late \o toServer)[i] = late[i] /\ i \in DOMAIN late
        BY <2>2, <3>1, <3>2
      <4>2. QED
        BY <4>1 DEF ValuesOK
    <3>3. CASE ~(i <= Len(late))
      <4>1. (late \o toServer)[i] = toServer[i - Len(late)] /\ i - Len(late) \in DOMAIN toServer
        BY <2>2, <3>1, <3>3
      <4>2. QED
        BY <4>1, <2>3
    <3>4. QED
      BY <3>2, <3>3
  <2>5. late \o toServer \in Seq(Requests) /\ \A i \in DOMAIN late : Valid(late[i].sets)
    BY <2>2 DEF ValuesOK
  <2>6. CASE late' = late
    BY <2>2, <2>5, <2>6
  <2>7. CASE late' = late \o toServer
    BY <2>4, <2>5, <2>7
  <2>8. QED
    BY <2>1, <2>6, <2>7
<1>3. phase' \in {"network", "draw"}
  BY <1>1 DEF GiveUp, After
<1>4. /\ connected' \in BOOLEAN
      /\ connected' <=> activity = "connect" /\ Head(todo) # GetStatus
  <2>1. connected' = (activity = "connect" /\ Head(todo) # GetStatus)
    BY <1>1 DEF GiveUp
  <2>2. QED
    BY <2>1, Zenon
<1>5. QED
  BY <1>1, <1>2, <1>3, <1>4 DEF Lost, GiveUp, Disconnect, shownVars

\* The first request has its answer.
Received ==
  LET a == Head(toClient)
  IN  /\ waiting /\ toClient # << >> /\ todo # << >> /\ a.kind = Head(todo).kind
      /\ toServer = << >>
      /\ toClient' = << >> /\ waiting' \in BOOLEAN /\ ~waiting'
      /\ todo' = Tail(todo) /\ todo' \in Seq(Requests) /\ Len(todo') = Len(todo) - 1
      /\ mirror' = IF a.kind = "status" THEN a.value ELSE mirror
      /\ cache' = IF a.kind = "curve" THEN a.value ELSE cache
      /\ overrun' = IF pending /\ activity # "draw"
                      THEN overrun \cup Moved(pendingMirror) ELSE overrun
      /\ activity' = IF Len(todo) = 1 THEN "none" ELSE activity
      /\ phase' \in {"network", "draw"}
      /\ connected' \in BOOLEAN /\ (connected' <=> connected \/ Len(todo) = 1)
      /\ UNCHANGED <<daemonVars, socket, toServer, dialVars, countVars, intent, drifted>>

\* The answer that comes is the one to the first request that is left.
LEMMA ReceiveIs ==
  ASSUME TypesOK, ChannelOK, Receive
  PROVE  Received
<1> DEFINE a == Head(toClient)
<1>1. /\ waiting /\ toClient # << >> /\ todo # << >> /\ a.kind = Head(todo).kind
      /\ toServer = << >> /\ Len(toClient) = 1 /\ toClient' = Tail(toClient)
  BY DEF Receive, TypesOK, ValueTypes, FrameTypes, ChannelOK
<1>2. toClient' = << >>
  <2>1. toClient' \in Seq(Answers) /\ Len(toClient') = 0
    BY <1>1, HeadTailProperties DEF TypesOK
  <2>2. QED
    BY <2>1, EmptySeq
<1>3. todo' = Tail(todo) /\ todo' \in Seq(Requests) /\ Len(todo') = Len(todo) - 1
  <2>1. todo' = Tail(todo)
    BY <1>1 DEF Receive
  <2>2. QED
    BY <1>1, <2>1, HeadTailProperties DEF TypesOK
<1>4. phase' \in {"network", "draw"}
  BY <1>1 DEF Receive, After, TypesOK, ValueTypes, FrameTypes
<1>5. connected' \in BOOLEAN /\ (connected' <=> connected \/ Len(todo) = 1)
  <2>1. connected' = (connected \/ Len(todo) = 1)
    BY <1>1 DEF Receive
  <2>2. QED
    BY <2>1, Zenon
<1>6. QED
  BY <1>1, <1>2, <1>3, <1>4, <1>5 DEF Received, Receive

-----------------------------------------------------------------------------
(* What the user's actions do *)

\* The user's last word on the fields of D is what sets holds.
Said(D, sets) ==
  /\ intent' \in [Fields -> 0 .. MaxActs \cup {None}] /\ overrun' = overrun \ D
  /\ \A f \in D : intent'[f] \in {sets[f], None}
  /\ \A f \in Fields \ D : intent'[f] = intent[f]

\* Say writes it down.
LEMMA SayIs ==
  ASSUME TypesOK, NEW D, D \subseteq Fields, NEW sets \in [D -> 0 .. MaxActs], Say(sets)
  PROVE  Said(D, sets)
<1>1. DOMAIN sets = D /\ DOMAIN intent = Fields /\ intent \in [Fields -> 0 .. MaxActs \cup {None}]
  BY DEF TypesOK, ValueTypes, FrameTypes
<1>2. \A f \in Fields : Update(intent, sets)[f] = IF f \in D THEN sets[f] ELSE intent[f]
  BY <1>1, UpdateFacts
<1>3. /\ intent' = [f \in Fields |-> IF f \in SetBy(late) \cap D THEN None
                                    ELSE Update(intent, sets)[f]]
      /\ overrun' = overrun \ D
  BY <1>1 DEF Say
<1>4. \A f \in Fields : /\ f \in D => intent'[f] \in {sets[f], None}
                        /\ f \notin D => intent'[f] = intent[f]
  BY <1>2, <1>3
<1>5. \A f \in Fields : intent'[f] \in 0 .. MaxActs \cup {None}
  BY <1>1, <1>4
<1>6. intent' \in [Fields -> 0 .. MaxActs \cup {None}]
  BY <1>3, <1>5
<1>7. QED
  BY <1>3, <1>4, <1>6 DEF Said

\* The GUI draws, and no request is left of its last frame.
LEMMA AtDraw ==
  ASSUME TypesOK, InPhase("draw")
  PROVE  todo = << >> /\ activity = "none" /\ ~waiting
  BY DEF TypesOK, ValueTypes, FrameTypes, InPhase

\* A frame of a drag sends what is shown of the moved, or leaves it pending.
Dragged(m) ==
  /\ todo = << >> /\ activity = "none" /\ ~waiting /\ connected
  /\ acts' \in 1 .. MaxActs /\ (pending => m = pendingMirror)
  /\ Said(Moved(m), [f \in Moved(m) |-> acts'])
  /\ mirror' \in [InStatus -> Values]
  /\ \A f \in InStatus : mirror'[f] = IF f \in Moved(m) THEN acts' ELSE mirror[f]
  /\ dragging' = TRUE /\ pendingMirror' = m
  /\ \/ /\ Carries(todo', mirror', Moved(m)) /\ todo' # << >>
        /\ activity' = "draw" /\ phase' = "draw" /\ pending' = FALSE
     \/ todo' = << >> /\ activity' = "none" /\ phase' = "network" /\ pending' = TRUE
  /\ UNCHANGED <<daemonVars, socketVars, waiting, connected, cache, drifted>>

\* Drag does so.
LEMMA DragIs ==
  ASSUME TypesOK, NEW m \in BOOLEAN, Drag(m)
  PROVE  Dragged(m)
<1> DEFINE shown == [f \in InStatus |-> IF f \in Moved(m) THEN acts' ELSE mirror[f]]
<1>1. /\ todo = << >> /\ activity = "none" /\ ~waiting /\ connected
      /\ acts < MaxActs /\ acts' = acts + 1 /\ (dragging => m = pendingMirror)
  BY AtDraw DEF Drag, UserActs
<1>2. /\ mirror' = shown /\ Say([f \in Moved(m) |-> acts'])
      /\ \/ Do(SendSpeakerPosition(shown, m)) /\ pending' = FALSE
         \/ Do(<< >>) /\ pending' = TRUE
      /\ dragging' = TRUE /\ pendingMirror' = m /\ UNCHANGED <<cache, drifted>>
  BY DEF Drag
<1>3. acts' \in 1 .. MaxActs /\ acts' \in 0 .. MaxActs /\ acts' \in Values
  BY <1>1 DEF TypesOK, Values
<1>4. Moved(m) \subseteq InStatus /\ Moved(m) \subseteq Fields
  BY MovedFacts, FieldFacts
<1>5. Said(Moved(m), [f \in Moved(m) |-> acts'])
  BY <1>2, <1>3, <1>4, SayIs
<1>6. shown \in [InStatus -> Values]
  BY <1>3 DEF TypesOK, ValueTypes, FrameTypes, Values
<1>7. /\ mirror' \in [InStatus -> Values]
      /\ \A f \in InStatus : mirror'[f] = IF f \in Moved(m) THEN acts' ELSE mirror[f]
  BY <1>2, <1>6
<1> HIDE DEF shown
<1>8. Carries(SendSpeakerPosition(shown, m), shown, Moved(m))
  BY <1>6, PositionsCarry
<1>9. SendSpeakerPosition(shown, m) # << >>
  BY <1>8 DEF Carries
<1>10. pending => m = pendingMirror
  BY <1>1 DEF TypesOK, ValueTypes, FrameTypes
<1>11. QED
  BY <1>1, <1>2, <1>3, <1>5, <1>7, <1>8, <1>9, <1>10 DEF Dragged, Do

\* A frame without a drag sends what is pending.
Released ==
  /\ todo = << >> /\ activity = "none" /\ ~waiting
  /\ {dragging', pending', pendingMirror'} \subseteq BOOLEAN
  /\ ~dragging' /\ ~pending' /\ ~pendingMirror' /\ ~waiting'
  /\ \/ /\ pending /\ Carries(todo', mirror, Moved(pendingMirror)) /\ todo' # << >>
        /\ activity' = "draw" /\ phase' = "draw"
     \/ ~pending /\ todo' = << >> /\ activity' = "none" /\ phase' = "network"
  /\ UNCHANGED <<daemonVars, socketVars, waiting, connected, shownVars, acts, historyVars>>

LEMMA ReleaseIs ==
  ASSUME TypesOK, Release
  PROVE  Released
<1>1. todo = << >> /\ activity = "none" /\ ~waiting
  BY AtDraw DEF Release
<1>2. /\ dragging' = FALSE /\ pending' = FALSE /\ pendingMirror' = FALSE /\ Do(ToFlush)
      /\ UNCHANGED <<shownVars, acts, historyVars>>
  BY DEF Release
<1>3. CASE pending
  <2>1. Carries(ToFlush, mirror, Moved(pendingMirror))
    BY <1>3, PositionsCarry DEF ToFlush, TypesOK, ValueTypes, FrameTypes, Values
  <2>2. ToFlush # << >>
    BY <2>1 DEF Carries
  <2>3. QED
    BY <1>1, <1>2, <1>3, <2>1, <2>2 DEF Released, Do
<1>4. CASE ~pending
  BY <1>1, <1>2, <1>4 DEF Released, Do, ToFlush
<1>5. QED
  BY <1>3, <1>4

\* A click says sets of D, and sends v of E: more than D for a band only, and
\* then what the equalizer shows.
Sends(D, sets, E, v) ==
  /\ D \subseteq E /\ E \subseteq Fields /\ E \ D \subseteq InCurve
  /\ sets \in [D -> 0 .. MaxActs] /\ Valid(sets)
  /\ Carries(todo', v, E)
  /\ \A f \in E : v[f] = IF f \in D THEN sets[f] ELSE cache[f]
  /\ Said(D, sets)
  /\ cache' \in [InCurve -> Values]
  /\ \A f \in InCurve : cache'[f] = IF f \in D THEN sets[f] ELSE cache[f]

LEMMA ClicksIs ==
  ASSUME TypesOK, NEW D, D \subseteq Fields, NEW sets \in [D -> 0 .. MaxActs],
         NEW requests, Clicks(sets, requests)
  PROVE  /\ todo = << >> /\ activity = "none" /\ ~waiting /\ connected /\ ~dragging
         /\ acts' \in 1 .. MaxActs /\ Said(D, sets) /\ todo' = requests
         /\ activity' = IF requests = << >> THEN "none" ELSE "draw"
         /\ phase' = IF requests = << >> THEN "network" ELSE "draw"
         /\ UNCHANGED <<daemonVars, socketVars, waiting, connected, mirror, dialVars, drifted>>
<1>1. /\ todo = << >> /\ activity = "none" /\ ~waiting /\ connected /\ ~dragging
      /\ acts < MaxActs /\ acts' = acts + 1
  BY AtDraw DEF Clicks, UserActs
<1>2. acts' \in 1 .. MaxActs
  BY <1>1 DEF TypesOK
<1>3. Said(D, sets)
  BY SayIs DEF Clicks
<1>4. QED
  BY <1>1, <1>2, <1>3 DEF Clicks, Do

\* A click that leaves the equalizer alone sends what it says.
LEMMA PlainClick ==
  ASSUME TypesOK, NEW D, D \subseteq InStatus, NEW sets \in [D -> 0 .. MaxActs], Valid(sets),
         Said(D, sets), Carries(todo', sets, D), UNCHANGED cache
  PROVE  Sends(D, sets, D, sets)
<1>1. D \subseteq Fields /\ D \cap InCurve = {}
  BY FieldFacts
<1>2. cache \in [InCurve -> Values]
  BY DEF TypesOK, ValueTypes, FrameTypes, Values
<1>3. QED
  BY <1>1, <1>2 DEF Sends

\* So does each of the clicks.
LEMMA ChooseIs ==
  ASSUME TypesOK, NEW f \in Chosen, Choose(f)
  PROVE  \E D, sets, E, v : Sends(D, sets, E, v)
<1> DEFINE sets == Only(f, acts')
<1>1. acts \in 0 .. MaxActs /\ acts < MaxActs /\ acts' = acts + 1
  BY DEF Choose, Clicks, UserActs, TypesOK
<1>2. acts' \in 0 .. MaxActs /\ acts' \in Values /\ f \in Fields /\ f \in InStatus
      /\ f \notin Mutes
  BY <1>1, FieldFacts DEF Values
<1>3. sets \in [{f} -> 0 .. MaxActs] /\ Valid(sets) /\ sets \in [{f} -> Values]
  BY <1>2, AllowedFacts DEF Only, Valid
<1>4. Clicks(sets, <<Set(sets)>>) /\ UNCHANGED cache
  BY DEF Choose
<1> HIDE DEF sets
<1>5. Said({f}, sets) /\ todo' = <<Set(sets)>>
  BY <1>2, <1>3, <1>4, ClicksIs
<1>6. Carries(todo', sets, {f})
  BY <1>2, <1>3, <1>5, OneCarries
<1>7. QED
  BY <1>2, <1>3, <1>4, <1>5, <1>6, PlainClick

LEMMA ResetIs ==
  ASSUME TypesOK, Reset
  PROVE  \E D, sets, E, v : Sends(D, sets, E, v)
<1> DEFINE sets == [f \in Positions |-> 0]
<1>1. Positions \subseteq InStatus /\ Positions \subseteq Fields
  BY FieldFacts
<1>2. sets \in [Positions -> 0 .. MaxActs] /\ Valid(sets) /\ sets \in [Positions -> Values]
  BY AllowedFacts DEF Valid, Values
<1>3. Clicks(sets, <<Set(sets)>>) /\ UNCHANGED cache
  BY DEF Reset
<1> HIDE DEF sets
<1>4. Said(Positions, sets) /\ todo' = <<Set(sets)>>
  BY <1>1, <1>2, <1>3, ClicksIs
<1>5. Carries(todo', sets, Positions)
  BY <1>1, <1>2, <1>4, OneCarries
<1>6. QED
  BY <1>1, <1>2, <1>3, <1>4, <1>5, PlainClick

LEMMA MuteEachIs ==
  ASSUME TypesOK, NEW muted \in [Speakers -> {0, 1}], MuteEach(muted)
  PROVE  \E D, sets, E, v : Sends(D, sets, E, v)
<1> DEFINE sets == [f \in Mutes |-> muted[f[2]]]
<1>1. acts \in 0 .. MaxActs /\ acts < MaxActs
  BY DEF MuteEach, Clicks, UserActs, TypesOK
<1>2. {0, 1} \subseteq 0 .. MaxActs /\ {0, 1} \subseteq Values
  BY <1>1 DEF Values
<1>3. Mutes = {Muted("left"), Muted("right")} /\ Mutes \subseteq InStatus /\ Mutes \subseteq Fields
  BY FieldFacts DEF Mutes, Speakers
<1>4. \A s \in Speakers : Muted(s) \in Mutes /\ sets[Muted(s)] = muted[s] /\ muted[s] \in {0, 1}
  BY DEF Mutes, Muted
<1>5. "left" \in Speakers /\ "right" \in Speakers
  BY DEF Speakers
<1>6. sets \in [Mutes -> {0, 1}] /\ Clicks(sets, <<Set(Only(Muted("left"), muted["left"])),
                                                Set(Only(Muted("right"), muted["right"]))>>)
      /\ UNCHANGED cache
  <2>1. ASSUME NEW f \in Mutes  PROVE sets[f] \in {0, 1}
    <3>1. PICK s \in Speakers : f = Muted(s)
      BY DEF Mutes
    <3>2. QED
      BY <3>1, <1>4
  <2>2. QED
    BY <2>1 DEF MuteEach, Mutes
<1> HIDE DEF sets
<1>7. sets \in [Mutes -> 0 .. MaxActs] /\ Valid(sets)
  BY <1>2, <1>6, AllowedFacts DEF Valid
<1>8. /\ Said(Mutes, sets)
      /\ todo' = <<Set(Only(Muted("left"), sets[Muted("left")])),
                  Set(Only(Muted("right"), sets[Muted("right")]))>>
  BY <1>3, <1>4, <1>5, <1>6, <1>7, ClicksIs
<1>9. Carries(todo', sets, {Muted("left"), Muted("right")})
  <2>1. /\ Muted("left") \in Fields /\ Muted("right") \in Fields
        /\ sets[Muted("left")] \in Values /\ sets[Muted("right")] \in Values
    BY <1>2, <1>3, <1>4, <1>5
  <2>2. QED
    BY <1>8, <2>1, TwoCarry
<1>10. QED
  BY <1>3, <1>6, <1>7, <1>8, <1>9, PlainClick

LEMMA ToggleMuteIs ==
  ASSUME TypesOK, ValuesOK, NEW s \in Speakers, ToggleMute(s)
  PROVE  \E D, sets, E, v : Sends(D, sets, E, v)
<1> DEFINE sets == Only(Muted(s), 1 - mirror[Muted(s)])
<1>1. acts \in 0 .. MaxActs /\ acts < MaxActs /\ connected
  BY DEF ToggleMute, Clicks, UserActs, TypesOK
<1>2. Muted(s) \in Mutes /\ Muted(s) \in InStatus /\ Muted(s) \in Fields
  BY FieldFacts DEF Mutes
<1>3. 1 - mirror[Muted(s)] \in {0, 1}
  <2>1. Valid(mirror) /\ Muted(s) \in DOMAIN mirror
    BY <1>1, <1>2 DEF ValuesOK, StatusCame, TypesOK, ValueTypes, FrameTypes
  <2>2. mirror[Muted(s)] \in 0 .. 1
    BY <1>2, <2>1, AllowedFacts DEF Valid
  <2>3. QED
    BY <2>2
<1>4. 1 - mirror[Muted(s)] \in 0 .. MaxActs /\ 1 - mirror[Muted(s)] \in Values
  BY <1>1, <1>3 DEF Values
<1>5. /\ sets \in [{Muted(s)} -> 0 .. MaxActs] /\ sets \in [{Muted(s)} -> Values] /\ Valid(sets)
  BY <1>2, <1>3, <1>4, AllowedFacts DEF Only, Valid
<1>6. Clicks(sets, <<Set(sets)>>) /\ UNCHANGED cache
  BY DEF ToggleMute
<1> HIDE DEF sets
<1>7. Said({Muted(s)}, sets) /\ todo' = <<Set(sets)>>
  BY <1>2, <1>5, <1>6, ClicksIs
<1>8. Carries(todo', sets, {Muted(s)})
  BY <1>2, <1>5, <1>7, OneCarries
<1>9. QED
  BY <1>2, <1>5, <1>6, <1>7, <1>8, PlainClick

LEMMA EditBandIs ==
  ASSUME TypesOK, NEW f \in InCurve, EditBand(f)
  PROVE  \E D, sets, E, v : Sends(D, sets, E, v)
<1> DEFINE sets == Only(f, acts')
           band == [cache EXCEPT ![f] = acts']
<1>1. acts \in 0 .. MaxActs /\ acts < MaxActs /\ acts' = acts + 1
  BY DEF EditBand, Clicks, UserActs, TypesOK
<1>2. acts' \in 0 .. MaxActs /\ acts' \in Values
  BY <1>1 DEF Values
<1>3. f \in Fields /\ f \notin Mutes /\ InCurve \subseteq Fields
  BY FieldFacts
<1>4. sets \in [{f} -> 0 .. MaxActs] /\ Valid(sets) /\ sets[f] = acts'
  BY <1>2, <1>3, AllowedFacts DEF Only, Valid
<1>5. /\ band \in [InCurve -> Values] /\ band[f] = acts'
      /\ \A g \in InCurve : g # f => band[g] = cache[g]
  BY <1>2 DEF TypesOK, ValueTypes, FrameTypes, Values
<1>6. Clicks(sets, <<Set(band)>>) /\ cache' = band
  BY DEF EditBand
<1> HIDE DEF sets, band
<1>7. Said({f}, sets) /\ todo' = <<Set(band)>>
  BY <1>3, <1>4, <1>6, ClicksIs
<1>8. Carries(todo', band, InCurve)
  BY <1>3, <1>5, <1>7, OneCarries
<1>9. Sends({f}, sets, InCurve, band)
  BY <1>3, <1>4, <1>5, <1>6, <1>7, <1>8 DEF Sends
<1>10. QED
  BY <1>9

\* A click sends what it says.
Clicked ==
  /\ \E D, sets, E, v : Sends(D, sets, E, v)
  /\ todo = << >> /\ activity = "none" /\ ~waiting /\ connected
  /\ dragging = FALSE /\ pending = FALSE /\ acts' \in 1 .. MaxActs
  /\ todo' # << >> /\ activity' = "draw" /\ phase' = "draw"
  /\ UNCHANGED <<daemonVars, socketVars, waiting, connected, mirror, dialVars, drifted>>

LEMMA ClickIs ==
  ASSUME TypesOK, ValuesOK, Clicking
  PROVE  Clicked
<1>1. \E D, sets, E, v : Sends(D, sets, E, v)
  <2>1. ASSUME NEW s \in Speakers, Solo(s)  PROVE \E D, sets, E, v : Sends(D, sets, E, v)
    BY <2>1, MuteEachIs DEF Solo
  <2>2. CASE UnmuteAll
    BY <2>2, MuteEachIs DEF UnmuteAll
  <2>3. QED
    BY <2>1, <2>2, ChooseIs, ResetIs, ToggleMuteIs, EditBandIs DEF Clicking
<1>2. todo' # << >>
  BY <1>1 DEF Sends, Carries
<1>3. \E sets, requests : Clicks(sets, requests)
  BY DEF Clicking, Choose, Reset, UnmuteAll, Solo, MuteEach, ToggleMute, EditBand
<1>4. /\ todo = << >> /\ activity = "none" /\ ~waiting /\ connected
      /\ ~dragging /\ acts < MaxActs /\ acts' = acts + 1
      /\ activity' = IF todo' = << >> THEN "none" ELSE "draw"
      /\ phase' = IF todo' = << >> THEN "network" ELSE "draw"
      /\ UNCHANGED <<daemonVars, socketVars, waiting, connected, mirror, dialVars, drifted>>
  BY <1>3, AtDraw DEF Clicks, UserActs, Do
<1>5. QED
  BY <1>1, <1>2, <1>4 DEF Clicked, TypesOK, ValueTypes, FrameTypes

-----------------------------------------------------------------------------
(* Types *)

LEMMA Scripts ==
  /\ <<GetStatus>> \o Lists \o Curves = ConnectRequests
  /\ <<GetStatus>> \o Lists = <<GetStatus, Get("list"), Get("list")>>
  /\ ConnectRequests \in Seq(Requests) /\ Len(ConnectRequests) = 5
  /\ <<GetStatus>> \in Seq(Requests) /\ <<GetStatus>> \o Lists \in Seq(Requests)
  /\ \A r \in {GetStatus, Get("list"), Get("curve")} :
       r \in Requests /\ DOMAIN r.sets = {} /\ Valid(r.sets)
<1>1. \A k \in Kinds : /\ Get(k) \in Requests /\ DOMAIN Get(k).sets = {}
                       /\ Valid(Get(k).sets)
  BY GetIsRequest
<1>2. \A r \in {GetStatus, Get("list"), Get("curve")} :
        r \in Requests /\ DOMAIN r.sets = {} /\ Valid(r.sets)
  BY <1>1 DEF GetStatus, Kinds
<1> DEFINE status == <<GetStatus>>
           poll   == <<GetStatus, Get("list"), Get("list")>>
<1>3. /\ status \in Seq(Requests) /\ Len(status) = 1 /\ status[1] = GetStatus
      /\ Lists \in Seq(Requests) /\ Len(Lists) = 2
      /\ Lists[1] = Get("list") /\ Lists[2] = Get("list")
      /\ Curves \in Seq(Requests) /\ Len(Curves) = 2
      /\ Curves[1] = Get("curve") /\ Curves[2] = Get("list")
      /\ poll \in Seq(Requests) /\ Len(poll) = 3
      /\ poll[1] = GetStatus /\ poll[2] = Get("list") /\ poll[3] = Get("list")
      /\ ConnectRequests \in Seq(Requests) /\ Len(ConnectRequests) = 5
      /\ ConnectRequests[1] = GetStatus /\ ConnectRequests[2] = Get("list")
      /\ ConnectRequests[3] = Get("list") /\ ConnectRequests[4] = Get("curve")
      /\ ConnectRequests[5] = Get("list")
  BY <1>2 DEF Lists, Curves, ConnectRequests
<1> HIDE DEF status, poll
<1>4. status \o Lists = poll
  <2>1. /\ status \o Lists \in Seq(Requests) /\ Len(status \o Lists) = Len(status) + Len(Lists)
        /\ \A i \in 1 .. Len(status) + Len(Lists) :
             (status \o Lists)[i] = IF i <= Len(status) THEN status[i] ELSE Lists[i - Len(status)]
    BY <1>3, ConcatProperties
  <2> DEFINE both == status \o Lists
  <2>2. /\ both \in Seq(Requests) /\ Len(both) = 3
        /\ \A i \in 1 .. 3 : both[i] = IF i <= 1 THEN status[i] ELSE Lists[i - 1]
    BY <1>3, <2>1
  <2> HIDE DEF both
  <2>3. both[1] = poll[1] /\ both[2] = poll[2] /\ both[3] = poll[3]
    BY <1>3, <2>2
  <2>4. \A i \in 1 .. 3 : i = 1 \/ i = 2 \/ i = 3
    OBVIOUS
  <2>5. \A i \in 1 .. 3 : both[i] = poll[i]
    BY <2>3, <2>4, Zenon
  <2>6. both = poll
    BY <1>3, <2>2, <2>5, SeqEqual, SMTT(30)
  <2>7. QED
    BY <2>6 DEF both
<1>5. poll \o Curves = ConnectRequests
  <2>1. /\ poll \o Curves \in Seq(Requests) /\ Len(poll \o Curves) = Len(poll) + Len(Curves)
        /\ \A i \in 1 .. Len(poll) + Len(Curves) :
             (poll \o Curves)[i] = IF i <= Len(poll) THEN poll[i] ELSE Curves[i - Len(poll)]
    BY <1>3, ConcatProperties
  <2> DEFINE both == poll \o Curves
  <2>2. /\ both \in Seq(Requests) /\ Len(both) = 5
        /\ \A i \in 1 .. 5 : both[i] = IF i <= 3 THEN poll[i] ELSE Curves[i - 3]
    BY <1>3, <2>1
  <2> HIDE DEF both
  <2>3. /\ both[1] = ConnectRequests[1] /\ both[2] = ConnectRequests[2]
        /\ both[3] = ConnectRequests[3] /\ both[4] = ConnectRequests[4]
        /\ both[5] = ConnectRequests[5]
    <3>1. /\ both[1] = poll[1] /\ both[2] = poll[2] /\ both[3] = poll[3]
          /\ both[4] = Curves[1] /\ both[5] = Curves[2]
      BY <2>2
    <3>2. QED
      BY <1>3, <3>1
  <2>4. \A i \in 1 .. 5 : i = 1 \/ i = 2 \/ i = 3 \/ i = 4 \/ i = 5
    OBVIOUS
  <2>5. \A i \in 1 .. 5 : both[i] = ConnectRequests[i]
    BY <2>3, <2>4, Zenon
  <2>6. both = ConnectRequests
    BY <1>3, <2>2, <2>5, SeqEqual, ZenonT(30)
  <2>7. QED
    BY <2>6 DEF both
<1>6. QED
  BY <1>2, <1>3, <1>4, <1>5 DEF status, poll

\* Every variable keeps its type.
LEMMA TypesStep ==
  TypesOK /\ ChannelOK /\ ValuesOK /\ [Next]_vars => TypesOK'
<1> SUFFICES ASSUME TypesOK, ChannelOK, ValuesOK, [Next]_vars  PROVE TypesOK'
  OBVIOUS
<1> USE DEF daemonVars, socketVars, frameVars, dialVars, shownVars, countVars, historyVars
<1>1. CASE Handle
  <2>1. Handled
    BY <1>1, HandleIs
  <2>2. drifted' \in BOOLEAN
    BY <2>1 DEF Handled
  <2>3. ValueTypes'
    BY <2>1 DEF Handled, TypesOK, ValueTypes
  <2>4. FrameTypes'
    BY <2>1 DEF Handled, TypesOK, FrameTypes
  <2>5. toServer' \in Seq(Requests) /\ toClient' \in Seq(Answers)
    BY <2>1, EmptySeq DEF Handled
  <2>6. QED
    BY <2>1, <2>2, <2>3, <2>4, <2>5 DEF Handled, TypesOK
<1>2. CASE HandleLate
  <2>1. PICK sets \in Sets :
          /\ settings' \in [Fields -> 0 .. MaxActs] /\ intent' = Forget(DOMAIN sets)
          /\ drifted' = (drifted \/ DOMAIN sets \cap InCurve # {}) /\ late' \in Seq(Requests)
    BY <1>2, HandleLateIs
  <2>2. intent' \in [Fields -> 0 .. MaxActs \cup {None}]
    BY <2>1, ForgetFacts
  <2>3. drifted' \in BOOLEAN
    BY <2>1
  <2>4. UNCHANGED <<up, serving, socketVars, frameVars, dialVars, shownVars, countVars, overrun>>
    BY <1>2 DEF HandleLate
  <2>5. ValueTypes'
    BY <2>1, <2>2, <2>4 DEF TypesOK, ValueTypes
  <2>6. FrameTypes'
    BY <2>4 DEF TypesOK, FrameTypes
  <2>7. QED
    BY <2>1, <2>3, <2>4, <2>5, <2>6 DEF TypesOK
<1>3. CASE Start
  <2>1. /\ settings' \in [Fields -> 0 .. MaxActs]
        /\ intent' \in [Fields -> 0 .. MaxActs \cup {None}]
    BY <1>3, StartIs
  <2>2. /\ up' = TRUE
        /\ UNCHANGED <<serving, late, socketVars, frameVars, dialVars, shownVars, countVars,
                       overrun, drifted>>
    BY <1>3 DEF Start
  <2>3. ValueTypes'
    BY <2>1, <2>2 DEF TypesOK, ValueTypes
  <2>4. FrameTypes'
    BY <2>2 DEF TypesOK, FrameTypes
  <2>5. up' \in BOOLEAN
    BY <2>2, Zenon
  <2>6. QED
    BY <2>2, <2>3, <2>4, <2>5 DEF TypesOK
<1>4. CASE Kill
  BY <1>4, EmptySeq DEF Kill, TypesOK, ValueTypes, FrameTypes
<1>5. CASE Send
  <2>1. toServer' \in Seq(Requests) /\ todo # << >> /\ waiting'
    BY <1>5, AppendProperties, HeadTailProperties DEF Send, TypesOK
  <2>2. UNCHANGED <<daemonVars, socket, toClient, phase, activity, todo, connected, dialVars,
                    shownVars, countVars, intent, overrun, drifted>>
    BY <1>5 DEF Send
  <2>3. waiting' \in BOOLEAN
    BY <1>5 DEF Send
  <2>4. ValueTypes'
    BY <2>2 DEF TypesOK, ValueTypes
  <2>5. FrameTypes'
    BY <2>1, <2>2 DEF TypesOK, FrameTypes
  <2>6. QED
    BY <2>1, <2>2, <2>3, <2>4, <2>5 DEF TypesOK
<1>6. CASE Fail \/ Timeout
  <2>1. Lost
    BY <1>6, LostIs
  <2>2. intent' \in [Fields -> 0 .. MaxActs \cup {None}]
    BY <2>1, ForgetFacts DEF Lost
  <2>3. ValueTypes'
    BY <2>1, <2>2 DEF Lost, TypesOK, ValueTypes
  <2>4. FrameTypes'
    BY <2>1 DEF Lost, TypesOK, FrameTypes
  <2>5. /\ todo' \in Seq(Requests) /\ toServer' \in Seq(Requests) /\ toClient' \in Seq(Answers)
        /\ late' \in Seq(Requests)
    BY <2>1, EmptySeq DEF Lost
  <2>6. QED
    BY <2>1, <2>3, <2>4, <2>5 DEF Lost, TypesOK
<1>7. CASE Receive
  <2>1. Received
    BY <1>7, ReceiveIs
  <2>2. mirror' \in [InStatus -> Values] /\ cache' \in [InCurve -> Values]
    BY <2>1 DEF Received, ValuesOK, TypesOK, ValueTypes
  <2>3. overrun' \subseteq Positions
    BY <2>1, MovedFacts DEF Received, TypesOK
  <2>4. /\ todo' \in Seq(Requests) /\ todo' = << >> <=> Len(todo) = 1
        /\ toClient' \in Seq(Answers)
    <3>1. todo' \in Seq(Requests) /\ Len(todo') = Len(todo) - 1 /\ toClient' = << >>
      BY <2>1 DEF Received
    <3>2. todo' = << >> <=> Len(todo') = 0
      BY <3>1, EmptySeq
    <3>3. Len(todo) \in Nat
      BY LenProperties DEF TypesOK
    <3>4. QED
      BY <3>1, <3>2, <3>3, EmptySeq
  <2>5. ValueTypes'
    BY <2>1, <2>2 DEF Received, TypesOK, ValueTypes
  <2>6. FrameTypes'
    <3>1. activity' \in {"none", "connect", "poll", "draw"}
          /\ (activity' = "none" <=> todo' = << >>) /\ ~waiting'
      BY <2>1, <2>4 DEF Received, TypesOK, FrameTypes
    <3>2. phase' \in {"network", "draw"}
      BY <2>1 DEF Received
    <3>3. UNCHANGED <<serving, up, socket, pending, dragging>>
      BY <2>1 DEF Received
    <3>4. QED
      BY <3>1, <3>2, <3>3 DEF TypesOK, FrameTypes
  <2>7. QED
    BY <2>1, <2>3, <2>4, <2>5, <2>6 DEF Received, TypesOK
<1>8. CASE NotDue
  BY <1>8 DEF NotDue, TypesOK, ValueTypes, FrameTypes
<1>9. CASE Connect
  <2>1. ConnectRequests # << >> /\ ConnectRequests \in Seq(Requests)
    BY Scripts DEF ConnectRequests
  <2>2. /\ activity = "none" /\ todo = << >> /\ ~waiting
        /\ socket' = up /\ serving' = up /\ toServer' = << >> /\ toClient' = << >>
        /\ UNCHANGED <<up, settings, late, waiting, connected, dialVars, shownVars, countVars,
                       historyVars>>
    BY <1>9 DEF Connect, InPhase, TypesOK, FrameTypes
  <2>3. \/ activity' = "connect" /\ phase' = "network" /\ todo' = ConnectRequests
        \/ activity' = "none" /\ phase' = "draw" /\ todo' = << >>
    BY <1>9, <2>2, Scripts DEF Connect, InPhase
  <2>4. ValueTypes'
    BY <2>2 DEF TypesOK, ValueTypes
  <2>5. FrameTypes'
    BY <2>1, <2>2, <2>3 DEF TypesOK, FrameTypes
  <2>6. todo' \in Seq(Requests) /\ toServer' \in Seq(Requests) /\ toClient' \in Seq(Answers)
    BY <2>1, <2>2, <2>3, EmptySeq
  <2>7. QED
    BY <2>2, <2>4, <2>5, <2>6 DEF TypesOK
<1>10. CASE Poll
  <2>1. todo' \in Seq(Requests) /\ todo' # << >>
    <3>1. todo' \in {<<GetStatus>>, <<GetStatus>> \o Lists}
      BY <1>10 DEF Poll
    <3>2. <<GetStatus>> # << >> /\ <<GetStatus>> \o Lists # << >>
      BY Scripts
    <3>3. QED
      BY <3>1, <3>2, Scripts
  <2>2. activity' = "poll" /\ UNCHANGED <<daemonVars, socketVars, phase, waiting, connected,
                                          dialVars, shownVars, countVars, historyVars>>
    BY <1>10 DEF Poll
  <2>3. ValueTypes'
    BY <2>2 DEF TypesOK, ValueTypes
  <2>4. FrameTypes'
    BY <2>1, <2>2 DEF TypesOK, FrameTypes
  <2>5. QED
    BY <2>1, <2>2, <2>3, <2>4 DEF TypesOK
<1>11. ASSUME NEW m \in BOOLEAN, Drag(m)  PROVE TypesOK'
  <2>1. Dragged(m)
    BY <1>11, DragIs
  <2>2. todo' \in Seq(Requests)
    BY <2>1, EmptySeq DEF Dragged, Carries
  <2>3. /\ intent' \in [Fields -> 0 .. MaxActs \cup {None}] /\ overrun' \subseteq overrun
    BY <2>1 DEF Dragged, Said
  <2>4. ValueTypes'
    BY <2>1, <2>3 DEF Dragged, TypesOK, ValueTypes
  <2>5. FrameTypes'
    BY <2>1 DEF Dragged, TypesOK, FrameTypes
  <2>6. acts' \in 0 .. MaxActs /\ dragging' \in BOOLEAN /\ pending' \in BOOLEAN
        /\ pendingMirror' \in BOOLEAN
    <3>1. acts' \in 0 .. MaxActs
      BY <2>1 DEF Dragged
    <3>2. dragging' = TRUE /\ pendingMirror' = m /\ (pending' = TRUE \/ pending' = FALSE)
      BY <2>1 DEF Dragged
    <3>3. dragging' \in BOOLEAN /\ pending' \in BOOLEAN /\ pendingMirror' \in BOOLEAN
      BY <3>2, Zenon
    <3>4. QED
      BY <3>1, <3>3
  <2>7. UNCHANGED <<daemonVars, socketVars, waiting, connected, drifted>>
    BY <2>1 DEF Dragged
  <2>8. QED
    BY <2>2, <2>3, <2>4, <2>5, <2>6, <2>7 DEF TypesOK
<1>12. CASE Release
  <2>1. Released
    BY <1>12, ReleaseIs
  <2>2. todo' \in Seq(Requests)
    BY <2>1, EmptySeq DEF Released, Carries
  <2>3. ValueTypes'
    BY <2>1 DEF Released, TypesOK, ValueTypes
  <2>4. FrameTypes'
    BY <2>1 DEF Released, TypesOK, FrameTypes
  <2>5. QED
    BY <2>1, <2>2, <2>3, <2>4 DEF Released, TypesOK
<1>13. CASE Clicking
  <2>1. Clicked
    BY <1>13, ClickIs
  <2>2. PICK D, sets, E, v : Sends(D, sets, E, v)
    BY <2>1 DEF Clicked
  <2>3. todo' \in Seq(Requests)
    BY <2>2 DEF Sends, Carries
  <2>4. /\ intent' \in [Fields -> 0 .. MaxActs \cup {None}] /\ overrun' \subseteq overrun
        /\ cache' \in [InCurve -> Values]
    BY <2>2 DEF Sends, Said
  <2>5. /\ todo' # << >> /\ activity' = "draw" /\ phase' = "draw" /\ acts' \in 0 .. MaxActs
        /\ UNCHANGED <<daemonVars, socketVars, waiting, connected, mirror, dialVars, drifted>>
    BY <2>1 DEF Clicked
  <2>6. ValueTypes'
    BY <2>4, <2>5 DEF TypesOK, ValueTypes
  <2>7. FrameTypes'
    BY <2>5 DEF TypesOK, FrameTypes
  <2>8. QED
    BY <2>3, <2>4, <2>5, <2>6, <2>7 DEF TypesOK
<1>14. CASE UNCHANGED vars
  BY <1>14 DEF vars, TypesOK, ValueTypes, FrameTypes
<1>15. QED
  BY <1>1, <1>2, <1>3, <1>4, <1>5, <1>6, <1>7, <1>8, <1>9, <1>10, <1>11, <1>12, <1>13,
     <1>14 DEF Next

-----------------------------------------------------------------------------
(* The channel and the frame *)

\* One request at most is on its way, there or back.
LEMMA ChannelStep ==
  TypesOK /\ ChannelOK /\ ValuesOK /\ [Next]_vars => ChannelOK'
<1> SUFFICES ASSUME TypesOK, ChannelOK, ValuesOK, [Next]_vars  PROVE ChannelOK'
  OBVIOUS
<1> USE DEF daemonVars, socketVars, frameVars
<1>1. CASE Handle
  <2>1. Handled
    BY <1>1, HandleIs
  <2>2. QED
    BY <2>1 DEF Handled, ChannelOK
<1>2. CASE HandleLate
  BY <1>2 DEF HandleLate, ChannelOK
<1>3. CASE Start
  BY <1>3 DEF Start, ChannelOK
<1>4. CASE Kill
  BY <1>4 DEF Kill, ChannelOK
<1>5. CASE Send
  <2>1. toServer = << >> /\ toClient = << >>
    BY <1>5 DEF Send, ChannelOK
  <2>2. toServer' = <<Head(todo)>> /\ waiting' = TRUE /\ todo' = todo /\ serving' /\ toClient' = << >>
    BY <1>5, <2>1 DEF Send
  <2>3. QED
    BY <2>2 DEF ChannelOK
<1>6. CASE Fail \/ Timeout
  <2>1. Lost
    BY <1>6, LostIs
  <2>2. QED
    BY <2>1 DEF Lost, ChannelOK
<1>7. CASE Receive
  <2>1. Received
    BY <1>7, ReceiveIs
  <2>2. QED
    BY <2>1 DEF Received, ChannelOK
<1>8. CASE NotDue
  BY <1>8 DEF NotDue, ChannelOK
<1>9. CASE Connect
  BY <1>9 DEF Connect, ChannelOK
<1>10. CASE Poll
  <2>1. ~waiting
    BY <1>10 DEF Poll, InPhase, TypesOK, FrameTypes
  <2>2. QED
    BY <1>10, <2>1 DEF Poll, ChannelOK
<1>11. ASSUME NEW m \in BOOLEAN, Drag(m)  PROVE ChannelOK'
  <2>1. Dragged(m)
    BY <1>11, DragIs
  <2>2. QED
    BY <2>1 DEF Dragged, ChannelOK
<1>12. CASE Release
  <2>1. Released
    BY <1>12, ReleaseIs
  <2>2. QED
    BY <2>1 DEF Released, ChannelOK
<1>13. CASE Clicking
  <2>1. Clicked
    BY <1>13, ClickIs
  <2>2. QED
    BY <2>1 DEF Clicked, ChannelOK
<1>14. CASE UNCHANGED vars
  BY <1>14 DEF vars, ChannelOK
<1>15. QED
  BY <1>1, <1>2, <1>3, <1>4, <1>5, <1>6, <1>7, <1>8, <1>9, <1>10, <1>11, <1>12, <1>13,
     <1>14 DEF Next

\* What is left of a frame's requests.
LEMMA FrameStep ==
  TypesOK /\ ChannelOK /\ ValuesOK /\ FrameOK /\ [Next]_vars => FrameOK'
<1> SUFFICES ASSUME TypesOK, ChannelOK, ValuesOK, FrameOK, [Next]_vars  PROVE FrameOK'
  OBVIOUS
<1> USE DEF daemonVars, socketVars, frameVars, dialVars
<1>1. CASE Handle
  BY <1>1 DEF Handle, FrameOK
<1>2. CASE HandleLate
  BY <1>2 DEF HandleLate, FrameOK
<1>3. CASE Start
  BY <1>3 DEF Start, FrameOK
<1>4. CASE Kill
  BY <1>4 DEF Kill, FrameOK
<1>5. CASE Send
  BY <1>5 DEF Send, FrameOK
<1>6. CASE Fail \/ Timeout
  <2>1. Lost
    BY <1>6, LostIs
  <2>2. activity' = "none" /\ ~serving' /\ ~waiting'
    BY <2>1 DEF Lost
  <2>3. QED
    BY <2>2 DEF FrameOK
<1>7. CASE Receive
  <2>1. Received
    BY <1>7, ReceiveIs
  <2>2. /\ todo \in Seq(Requests) /\ todo # << >> /\ waiting /\ todo' = Tail(todo)
    BY <2>1 DEF Received, TypesOK
  <2>3. /\ todo' \in Seq(Requests) /\ Len(todo') = Len(todo) - 1
        /\ \A i \in DOMAIN todo' : i + 1 \in DOMAIN todo /\ todo'[i] = todo[i + 1]
    BY <2>2, TailFacts
  <2>4. /\ activity' = IF Len(todo) = 1 THEN "none" ELSE activity
        /\ connected' <=> connected \/ Len(todo) = 1
        /\ UNCHANGED <<serving, pending>> /\ ~waiting'
    BY <2>1 DEF Received
  <2>5. ASSUME activity' = "connect"
        PROVE  /\ Len(todo') <= 5
               /\ \A i \in DOMAIN todo' : todo'[i] = ConnectRequests[5 - Len(todo') + i]
    <3>1. activity = "connect"
      BY <2>4, <2>5
    <3>2. /\ Len(todo) \in Nat /\ Len(todo) <= 5 /\ Len(todo') <= 5
          /\ \A i \in DOMAIN todo : todo[i] = ConnectRequests[5 - Len(todo) + i]
      BY <2>2, <2>3, <3>1, LenProperties DEF FrameOK
    <3>3. ASSUME NEW i \in DOMAIN todo'
          PROVE  todo'[i] = ConnectRequests[5 - Len(todo') + i]
      <4>1. i \in Nat /\ 5 - Len(todo) + (i + 1) = 5 - Len(todo') + i
        BY <2>3, <3>2
      <4>2. QED
        BY <2>3, <3>2, <4>1
    <3>4. QED
      BY <3>2, <3>3
  <2>6. activity' = "poll" => \A i \in DOMAIN todo' : todo'[i] \in {GetStatus, Get("list")}
    BY <2>3, <2>4 DEF FrameOK
  <2>7. activity' = "draw" => ~pending' /\ \A i \in DOMAIN todo' : todo'[i].kind = "status"
    BY <2>3, <2>4 DEF FrameOK
  <2>8. activity' # "connect" /\ (serving' \/ waiting') => connected'
    BY <2>2, <2>4 DEF FrameOK
  <2>9. QED
    BY <2>5, <2>6, <2>7, <2>8 DEF FrameOK
<1>8. CASE NotDue
  BY <1>8 DEF NotDue, FrameOK
<1>9. CASE Connect
  <2>1. activity = "none" /\ todo = << >> /\ ~waiting /\ UNCHANGED <<waiting, connected, pending>>
    BY <1>9 DEF Connect, InPhase, TypesOK, FrameTypes
  <2>2. CASE up
    <3>1. activity' = "connect" /\ todo' = ConnectRequests
      BY <1>9, <2>2, Scripts DEF Connect
    <3>2. Len(todo') = 5 /\ \A i \in DOMAIN todo' : 5 - 5 + i = i
      BY <3>1, Scripts
    <3>3. QED
      BY <3>1, <3>2 DEF FrameOK
  <2>3. CASE ~up
    BY <1>9, <2>1, <2>3 DEF Connect, FrameOK
  <2>4. QED
    BY <2>2, <2>3
<1>10. CASE Poll
  <2>1. todo' \in {<<GetStatus>>, <<GetStatus, Get("list"), Get("list")>>}
    BY <1>10, Scripts DEF Poll
  <2>2. \A i \in DOMAIN todo' : todo'[i] \in {GetStatus, Get("list")}
    BY <2>1
  <2>3. activity' = "poll" /\ connected'
    BY <1>10 DEF Poll
  <2>4. QED
    BY <2>2, <2>3 DEF FrameOK
<1>11. ASSUME NEW m \in BOOLEAN, Drag(m)  PROVE FrameOK'
  <2>1. Dragged(m)
    BY <1>11, DragIs
  <2>2. \/ activity' = "draw" /\ ~pending' /\ \A i \in DOMAIN todo' : todo'[i].kind = "status"
        \/ activity' = "none"
    BY <2>1 DEF Dragged, Carries
  <2>3. connected'
    BY <2>1 DEF Dragged
  <2>4. QED
    BY <2>2, <2>3 DEF FrameOK
<1>12. CASE Release
  <2>1. Released
    BY <1>12, ReleaseIs
  <2>2. /\ \/ activity' = "draw" /\ \A i \in DOMAIN todo' : todo'[i].kind = "status"
           \/ activity' = "none"
        /\ ~pending'
    BY <2>1 DEF Released, Carries
  <2>3. activity # "connect" /\ UNCHANGED <<serving, waiting, connected>>
    BY <2>1 DEF Released
  <2>4. QED
    BY <2>2, <2>3 DEF FrameOK
<1>13. CASE Clicking
  <2>1. Clicked
    BY <1>13, ClickIs
  <2>2. PICK D, sets, E, v : Sends(D, sets, E, v)
    BY <2>1 DEF Clicked
  <2>3. \A i \in DOMAIN todo' : todo'[i].kind = "status"
    BY <2>2 DEF Sends, Carries
  <2>4. activity' = "draw" /\ ~pending' /\ connected'
    BY <2>1 DEF Clicked
  <2>5. QED
    BY <2>3, <2>4 DEF FrameOK
<1>14. CASE UNCHANGED vars
  BY <1>14 DEF vars, FrameOK
<1>15. QED
  BY <1>1, <1>2, <1>3, <1>4, <1>5, <1>6, <1>7, <1>8, <1>9, <1>10, <1>11, <1>12, <1>13,
     <1>14 DEF Next

-----------------------------------------------------------------------------
(* What is sent, fetched and shown *)

\* v's values are settings the daemon may have.
LEMMA CarriesValid ==
  ASSUME NEW q, NEW v, NEW D, Carries(q, v, D), \A f \in D : v[f] \in Allowed(f)
  PROVE  \A i \in DOMAIN q : Valid(q[i].sets)
  BY DEF Carries, Valid

\* What has been fetched, of the requests for a connection.
LEMMA ConnectFacts ==
  ASSUME TypesOK, FrameOK, activity = "connect"
  PROVE  /\ todo # << >> /\ Len(todo) \in 1 .. 5 /\ Head(todo) = ConnectRequests[6 - Len(todo)]
         /\ Head(todo).kind = "status" <=> Len(todo) = 5
         /\ Head(todo).kind = "curve" <=> Len(todo) = 2
         /\ Head(todo) = GetStatus <=> Len(todo) = 5
         /\ \A i \in DOMAIN todo : DOMAIN todo[i].sets = {} /\ Valid(todo[i].sets)
<1>1. /\ todo # << >> /\ todo \in Seq(Requests) /\ Len(todo) <= 5
      /\ \A i \in DOMAIN todo : todo[i] = ConnectRequests[5 - Len(todo) + i]
  BY DEF TypesOK, FrameTypes, FrameOK
<1>2. Len(todo) \in 1 .. 5 /\ DOMAIN todo = 1 .. Len(todo) /\ Head(todo) = todo[1]
  <2>1. Len(todo) \in Nat /\ DOMAIN todo = 1 .. Len(todo)
    BY <1>1, LenProperties
  <2>2. Len(todo) # 0
    BY <1>1, EmptySeq
  <2>3. Len(todo) <= 5 /\ Head(todo) = todo[1]
    BY <1>1
  <2>4. QED
    BY <2>1, <2>2, <2>3, SMTT(30)
<1>3. Head(todo) = ConnectRequests[6 - Len(todo)]
  <2>1. 5 - Len(todo) + 1 = 6 - Len(todo) /\ 1 \in DOMAIN todo
    BY <1>2
  <2>2. QED
    BY <1>1, <1>2, <2>1
<1>4. /\ \A n \in 1 .. 5 : /\ ConnectRequests[n].kind = "status" <=> n = 1
                           /\ ConnectRequests[n].kind = "curve" <=> n = 4
                           /\ ConnectRequests[n] = GetStatus <=> n = 1
      /\ \A n \in 1 .. 5 : ConnectRequests[n] \in {GetStatus, Get("list"), Get("curve")}
  <2>1. /\ ConnectRequests[1] = GetStatus /\ ConnectRequests[2] = Get("list")
        /\ ConnectRequests[3] = Get("list") /\ ConnectRequests[4] = Get("curve")
        /\ ConnectRequests[5] = Get("list")
    BY DEF ConnectRequests
  <2>2. GetStatus.kind = "status" /\ Get("list").kind = "list" /\ Get("curve").kind = "curve"
    BY DEF GetStatus, Get
  <2>3. \A n \in 1 .. 5 : n = 1 \/ n = 2 \/ n = 3 \/ n = 4 \/ n = 5
    OBVIOUS
  <2>4. QED
    BY <2>1, <2>2, <2>3
<1>5. ASSUME NEW i \in DOMAIN todo
      PROVE  DOMAIN todo[i].sets = {} /\ Valid(todo[i].sets)
  <2>1. 5 - Len(todo) + i \in 1 .. 5
    <3>1. i \in 1 .. Len(todo) /\ Len(todo) \in 1 .. 5
      BY <1>2
    <3>2. \A n \in 1 .. 5 : \A k \in 1 .. n : 5 - n + k \in 1 .. 5
      OBVIOUS
    <3>3. QED
      BY <3>1, <3>2
  <2>2. QED
    BY <1>1, <1>4, <2>1, Scripts
<1>6. 6 - Len(todo) \in 1 .. 5 /\ (6 - Len(todo) = 1 <=> Len(todo) = 5)
      /\ (6 - Len(todo) = 4 <=> Len(todo) = 2)
  <2>1. \A n \in 1 .. 5 : /\ 6 - n \in 1 .. 5 /\ (6 - n = 1 <=> n = 5)
                          /\ (6 - n = 4 <=> n = 2)
    OBVIOUS
  <2>2. QED
    BY <1>2, <2>1
<1>7. QED
  BY <1>1, <1>2, <1>3, <1>4, <1>5, <1>6, ZenonT(30)

\* Nothing but the curve's answer brings the curve.
LEMMA CurveComesOnce ==
  ASSUME TypesOK, FrameOK, Received, Head(todo).kind # "curve"
  PROVE  CurveCame' => CurveCame
<1>1. /\ activity' = IF Len(todo) = 1 THEN "none" ELSE activity
      /\ serving' = serving /\ Len(todo') = Len(todo) - 1
  BY DEF Received, daemonVars
<1>2. activity = "connect" => Len(todo) \in 1 .. 5 /\ Len(todo) # 2
  BY ConnectFacts
<1>3. \A n \in 1 .. 5 : n # 2 /\ n - 1 <= 1 => n <= 1
  OBVIOUS
<1>4. QED
  BY <1>1, <1>2, <1>3 DEF CurveCame

\* Nothing is sent that the daemon may not have, nor shown that was not fetched.
LEMMA ValuesStep ==
  TypesOK /\ ChannelOK /\ FrameOK /\ ValuesOK /\ [Next]_vars /\ TypesOK' => ValuesOK'
<1> SUFFICES ASSUME TypesOK, ChannelOK, FrameOK, ValuesOK, [Next]_vars, TypesOK'
             PROVE  ValuesOK'
  OBVIOUS
<1> USE DEF daemonVars, socketVars, frameVars, dialVars, shownVars
<1>1. CASE Handle
  <2>1. Handled
    BY <1>1, HandleIs
  <2>2. Valid(CurveOf(settings')) /\ CurveOf(settings') \in [InCurve -> Values]
    <3>1. /\ settings' \in [Fields -> 0 .. MaxActs] /\ Valid(settings')
          /\ InCurve \subseteq Fields
      BY <2>1, FieldFacts DEF Handled
    <3>2. QED
      BY <3>1 DEF CurveOf, Valid, Values
  <2>3. UNCHANGED <<late, serving, todo, activity, connected, mirror, cache>>
    BY <2>1 DEF Handled
  <2>4. StatusCame' = StatusCame /\ CurveCame' = CurveCame
    BY <2>3 DEF StatusCame, CurveCame
  <2>5. QED
    BY <2>1, <2>2, <2>3, <2>4 DEF Handled, ValuesOK
<1>2. CASE HandleLate
  <2>1. Valid(settings') /\ \A i \in DOMAIN late' : Valid(late'[i].sets)
    BY <1>2, HandleLateIs
  <2>2. UNCHANGED <<serving, toClient, todo, activity, connected, mirror, cache>>
    BY <1>2 DEF HandleLate
  <2>3. QED
    BY <2>1, <2>2 DEF ValuesOK, StatusCame, CurveCame
<1>3. CASE Start
  <2>1. Valid(settings')
    BY <1>3, StartIs
  <2>2. UNCHANGED <<late, serving, toClient, todo, activity, connected, mirror, cache>>
    BY <1>3 DEF Start
  <2>3. QED
    BY <2>1, <2>2 DEF ValuesOK, StatusCame, CurveCame
<1>4. CASE Kill
  <2>1. ~serving' /\ late' = << >>
        /\ UNCHANGED <<settings, toClient, todo, activity, connected, mirror, cache>>
    BY <1>4 DEF Kill
  <2>2. QED
    BY <2>1 DEF ValuesOK, StatusCame, CurveCame
<1>5. CASE Send
  BY <1>5 DEF Send, ValuesOK, StatusCame, CurveCame
<1>6. CASE Fail \/ Timeout
  <2>1. Lost
    BY <1>6, LostIs
  <2>2. StatusCame' => StatusCame
    <3>1. ASSUME activity = "connect", Head(todo) # GetStatus  PROVE Len(todo) < 5
      <4>1. Len(todo) \in 1 .. 5 /\ Len(todo) # 5
        BY <3>1, ConnectFacts
      <4>2. \A n \in 1 .. 5 : n # 5 => n < 5
        OBVIOUS
      <4>3. QED
        BY <4>1, <4>2
    <3>2. QED
      BY <2>1, <3>1 DEF Lost, StatusCame
  <2>3. ~CurveCame' /\ ~serving' /\ toClient' = << >>
    BY <2>1 DEF Lost, CurveCame
  <2>4. UNCHANGED <<settings, mirror>> /\ \A i \in DOMAIN late' : Valid(late'[i].sets)
    BY <2>1 DEF Lost
  <2>5. QED
    BY <2>2, <2>3, <2>4 DEF ValuesOK
<1>7. CASE Receive
  <2>1. Received
    BY <1>7, ReceiveIs
  <2>2. /\ todo \in Seq(Requests) /\ todo # << >> /\ waiting /\ todo' = Tail(todo)
        /\ toClient # << >> /\ Head(toClient).kind = Head(todo).kind
    BY <2>1 DEF Received, TypesOK
  <2>3. /\ Len(todo') = Len(todo) - 1
        /\ \A i \in DOMAIN todo' : i + 1 \in DOMAIN todo /\ todo'[i] = todo[i + 1]
    BY <2>2, TailFacts
  <2>4. serving' => \A i \in DOMAIN todo' : Valid(todo'[i].sets)
    BY <2>1, <2>3 DEF Received, ValuesOK
  <2>5. StatusCame' => Valid(mirror')
    <3>1. CASE Head(todo).kind = "status"
      BY <2>1, <2>2, <3>1 DEF Received, ValuesOK
    <3>2. CASE Head(todo).kind # "status"
      <4>1. StatusCame
        BY <2>2, <3>2, ConnectFacts DEF FrameOK, StatusCame
      <4>2. QED
        BY <2>1, <2>2, <3>2, <4>1 DEF Received, ValuesOK
    <3>3. QED
      BY <3>1, <3>2
  <2>6. CurveCame' => Valid(cache')
    <3>1. CASE Head(todo).kind = "curve"
      BY <2>1, <2>2, <3>1 DEF Received, ValuesOK
    <3>2. CASE Head(todo).kind # "curve"
      <4>1. CurveCame' => CurveCame
        BY <2>1, <3>2, CurveComesOnce
      <4>2. QED
        BY <2>1, <2>2, <3>2, <4>1 DEF Received, ValuesOK
    <3>3. QED
      BY <3>1, <3>2
  <2>7. QED
    BY <2>1, <2>4, <2>5, <2>6 DEF Received, ValuesOK
<1>8. CASE NotDue
  BY <1>8 DEF NotDue, ValuesOK, StatusCame, CurveCame
<1>9. CASE Connect
  <2>1. activity = "none" /\ todo = << >> /\ ~connected /\ toClient' = << >>
        /\ UNCHANGED <<settings, late, connected, mirror, cache>>
    BY <1>9 DEF Connect, InPhase, TypesOK, FrameTypes
  <2>2. CASE up
    <3>1. activity' = "connect" /\ todo' = ConnectRequests
      BY <1>9, <2>2, Scripts DEF Connect
    <3>2. Len(todo') = 5 /\ \A i \in DOMAIN todo' : Valid(todo'[i].sets)
      <4>1. Len(todo') = 5
        BY <3>1, Scripts
      <4>2. \A i \in DOMAIN todo' : todo'[i] \in {GetStatus, Get("list"), Get("curve")}
        BY <3>1 DEF ConnectRequests
      <4>3. QED
        BY <4>1, <4>2, Scripts
    <3>3. ~StatusCame' /\ ~CurveCame'
      BY <2>1, <3>1, <3>2 DEF StatusCame, CurveCame
    <3>4. QED
      BY <2>1, <3>2, <3>3 DEF ValuesOK
  <2>3. CASE ~up
    <3>1. ~serving' /\ activity' = "none"
      BY <1>9, <2>1, <2>3 DEF Connect
    <3>2. ~StatusCame' /\ ~CurveCame'
      BY <2>1, <3>1 DEF StatusCame, CurveCame
    <3>3. QED
      BY <2>1, <3>1, <3>2 DEF ValuesOK
  <2>4. QED
    BY <2>2, <2>3
<1>10. CASE Poll
  <2>1. todo' \in {<<GetStatus>>, <<GetStatus, Get("list"), Get("list")>>}
    BY <1>10, Scripts DEF Poll
  <2>2. \A i \in DOMAIN todo' : Valid(todo'[i].sets)
    <3>1. \A i \in DOMAIN todo' : todo'[i] \in {GetStatus, Get("list")}
      BY <2>1
    <3>2. QED
      BY <3>1, Scripts
  <2>3. activity = "none" /\ ~waiting /\ connected /\ activity' = "poll"
        /\ UNCHANGED <<settings, late, serving, toClient, connected, mirror, cache>>
    BY <1>10 DEF Poll, InPhase, TypesOK, FrameTypes
  <2>4. toClient' = << >>
    BY <2>3 DEF ChannelOK
  <2>5. QED
    BY <2>2, <2>3, <2>4 DEF ValuesOK, StatusCame, CurveCame
<1>11. ASSUME NEW m \in BOOLEAN, Drag(m)  PROVE ValuesOK'
  <2>1. Dragged(m)
    BY <1>11, DragIs
  <2>2. /\ activity = "none" /\ ~waiting /\ connected /\ activity' \in {"none", "draw"}
        /\ UNCHANGED <<settings, late, serving, toClient, connected, cache>>
    BY <2>1 DEF Dragged
  <2>3. toClient' = << >> /\ (CurveCame' => CurveCame) /\ StatusCame
    BY <2>2 DEF ChannelOK, CurveCame, StatusCame
  <2>4. \A f \in InStatus : mirror'[f] \in Allowed(f)
    <3>1. Valid(mirror) /\ DOMAIN mirror = InStatus
      BY <2>3 DEF ValuesOK, TypesOK, ValueTypes
    <3>2. \A f \in Moved(m) : acts' \in Allowed(f)
      BY <2>1, MovedFacts, FieldFacts, AllowedFacts DEF Dragged
    <3>3. QED
      BY <2>1, <3>1, <3>2 DEF Dragged, Valid
  <2>5. Valid(mirror')
    BY <2>1, <2>4 DEF Dragged, Valid
  <2>6. \A i \in DOMAIN todo' : Valid(todo'[i].sets)
    <3>1. Moved(m) \subseteq InStatus
      BY MovedFacts, FieldFacts
    <3>2. CASE Carries(todo', mirror', Moved(m))
      BY <2>4, <3>1, <3>2, CarriesValid
    <3>3. CASE todo' = << >>
      BY <3>3
    <3>4. QED
      BY <2>1, <3>2, <3>3 DEF Dragged
  <2>7. QED
    BY <2>2, <2>3, <2>5, <2>6 DEF ValuesOK
<1>12. CASE Release
  <2>1. Released
    BY <1>12, ReleaseIs
  <2>2. /\ activity = "none" /\ ~waiting /\ activity' \in {"none", "draw"}
        /\ UNCHANGED <<settings, late, serving, toClient, connected, mirror, cache>>
    BY <2>1 DEF Released
  <2>3. toClient' = << >> /\ CurveCame' = CurveCame /\ StatusCame' = StatusCame
        /\ (serving => StatusCame)
    BY <2>2 DEF ChannelOK, FrameOK, CurveCame, StatusCame
  <2>4. serving' => \A i \in DOMAIN todo' : Valid(todo'[i].sets)
    <3>1. ASSUME serving, Carries(todo', mirror, Moved(pendingMirror))
          PROVE  \A i \in DOMAIN todo' : Valid(todo'[i].sets)
      <4>1. Valid(mirror) /\ DOMAIN mirror = InStatus
        BY <2>3, <3>1 DEF ValuesOK, TypesOK, ValueTypes
      <4>2. Moved(pendingMirror) \subseteq InStatus
        BY MovedFacts, FieldFacts DEF TypesOK
      <4>3. \A f \in Moved(pendingMirror) : mirror[f] \in Allowed(f)
        BY <4>1, <4>2 DEF Valid
      <4>4. QED
        BY <3>1, <4>3, CarriesValid
    <3>2. \/ Carries(todo', mirror, Moved(pendingMirror))
          \/ todo' = << >>
      BY <2>1 DEF Released
    <3>3. QED
      BY <2>2, <3>1, <3>2
  <2>5. QED
    BY <2>2, <2>3, <2>4 DEF ValuesOK
<1>13. CASE Clicking
  <2>1. Clicked
    BY <1>13, ClickIs
  <2>2. PICK D, sets, E, v : Sends(D, sets, E, v)
    BY <2>1 DEF Clicked
  <2>3. /\ activity = "none" /\ ~waiting /\ connected /\ activity' = "draw"
        /\ UNCHANGED <<settings, late, serving, toClient, connected, mirror>>
    BY <2>1 DEF Clicked
  <2>4. toClient' = << >> /\ CurveCame' = CurveCame /\ StatusCame
        /\ (serving => CurveCame)
    BY <2>3 DEF ChannelOK, CurveCame, StatusCame
  <2>5. /\ D \subseteq E /\ E \subseteq Fields /\ E \ D \subseteq InCurve
        /\ DOMAIN sets = D /\ Valid(sets) /\ Carries(todo', v, E)
        /\ \A f \in E : v[f] = IF f \in D THEN sets[f] ELSE cache[f]
        /\ cache' \in [InCurve -> Values]
        /\ \A f \in InCurve : cache'[f] = IF f \in D THEN sets[f] ELSE cache[f]
    BY <2>2 DEF Sends
  <2>6. ASSUME serving
        PROVE  Valid(cache') /\ \A i \in DOMAIN todo' : Valid(todo'[i].sets)
    <3>1. \A f \in InCurve : cache[f] \in Allowed(f)
      BY <2>4, <2>6 DEF ValuesOK, Valid, TypesOK, ValueTypes
    <3>2. \A f \in D : sets[f] \in Allowed(f)
      BY <2>5 DEF Valid
    <3>3. Valid(cache')
      BY <2>5, <3>1, <3>2 DEF Valid
    <3>4. \A f \in E : v[f] \in Allowed(f)
      BY <2>5, <3>1, <3>2
    <3>5. QED
      BY <2>5, <3>3, <3>4, CarriesValid
  <2>7. QED
    BY <2>3, <2>4, <2>6 DEF ValuesOK, CurveCame
<1>14. CASE UNCHANGED vars
  BY <1>14 DEF vars, ValuesOK, StatusCame, CurveCame
<1>15. QED
  BY <1>1, <1>2, <1>3, <1>4, <1>5, <1>6, <1>7, <1>8, <1>9, <1>10, <1>11, <1>12, <1>13,
     <1>14 DEF Next

-----------------------------------------------------------------------------
(* The user's last word *)

\* Whoever forgets what the user said of some fields relies on it no more.
LEMMA ForgetsOnly ==
  ASSUME TypesOK, NEW F, intent' = Forget(F), overrun' = overrun
  PROVE  \A f \in Fields : Relies(f)' => Relies(f) /\ f \notin F /\ intent'[f] = intent[f]
  BY ForgetFacts DEF Relies

\* What the user says is relied on from then on, and nothing else is new.
LEMMA SaidRelies ==
  ASSUME NEW D, D \subseteq Fields, NEW sets, Said(D, sets)
  PROVE  /\ \A f \in D : Relies(f)' => intent'[f] = sets[f]
         /\ \A f \in Fields \ D : (Relies(f)' => Relies(f)) /\ intent'[f] = intent[f]
  BY DEF Said, Relies

\* The fields of a request that is left are settings.
LEMMA TodoFields ==
  ASSUME TypesOK
  PROVE  /\ \A i \in DOMAIN todo : DOMAIN todo[i].sets \subseteq Fields
         /\ todo # << >> => DOMAIN Head(todo).sets \subseteq Fields
<1>1. todo \in Seq(Requests)
  BY DEF TypesOK
<1>2. \A i \in DOMAIN todo : todo[i] \in Requests
  BY <1>1
<1>3. todo # << >> => Head(todo) \in Requests
  BY <1>1
<1>4. QED
  BY <1>2, <1>3, RequestFacts

\* A curve is asked for by who connects, and then nothing is set.
LEMMA CurveAlone ==
  ASSUME TypesOK, FrameOK, todo # << >>, Head(todo).kind = "curve"
  PROVE  /\ activity = "connect" /\ Len(todo) = 2 /\ SetBy(todo) = {}
         /\ \A i \in DOMAIN todo : DOMAIN todo[i].sets = {}
         /\ DOMAIN Head(todo).sets = {}
<1>1. todo \in Seq(Requests) /\ 1 \in DOMAIN todo /\ Head(todo) = todo[1]
  BY TailFacts DEF TypesOK
<1>2. GetStatus.kind = "status" /\ Get("list").kind = "list"
  BY DEF GetStatus, Get
<1>3. activity = "connect"
  BY <1>1, <1>2 DEF TypesOK, FrameTypes, FrameOK
<1>4. Len(todo) = 2 /\ \A i \in DOMAIN todo : DOMAIN todo[i].sets = {}
  BY <1>3, ConnectFacts
<1>5. SetBy(todo) = {}
  BY <1>4 DEF SetBy
<1>6. QED
  BY <1>1, <1>3, <1>4, <1>5

\* The scripts of Tick set nothing.
LEMMA TickSetsNothing ==
  ASSUME TypesOK, Connect \/ Poll
  PROVE  /\ todo = << >> /\ SetBy(todo) = {}
         /\ \A i \in DOMAIN todo' : DOMAIN todo'[i].sets = {}
<1>1. todo = << >>
  BY DEF Connect, Poll, InPhase, TypesOK, FrameTypes
<1>2. todo' \in {<< >>, ConnectRequests, <<GetStatus>>, <<GetStatus, Get("list"), Get("list")>>}
  BY <1>1, Scripts DEF Connect, Poll
<1>3. \A i \in DOMAIN todo' : todo'[i] \in {GetStatus, Get("list"), Get("curve")}
  BY <1>2 DEF ConnectRequests
<1>4. QED
  BY <1>1, <1>3, Scripts, SetByFacts

\* The user's last word stays in force or on its way.
LEMMA IntentStep ==
  TypesOK /\ ChannelOK /\ FrameOK /\ ValuesOK /\ IntentOK /\ [Next]_vars /\ TypesOK'
    => IntentOK'
<1> SUFFICES ASSUME TypesOK, ChannelOK, FrameOK, ValuesOK, IntentOK, [Next]_vars, TypesOK'
             PROVE  IntentOK'
  OBVIOUS
<1> USE DEF daemonVars, socketVars, frameVars, dialVars, shownVars, historyVars
<1>1. CASE Handle
  <2>1. Handled
    BY <1>1, HandleIs
  <2>2. UNCHANGED <<todo, cache, mirror, pending, pendingMirror>>
        /\ todo # << >> /\ Head(toClient').kind = Head(todo).kind
        /\ (Head(todo).kind = "curve" => Head(toClient').value = CurveOf(settings'))
    BY <2>1 DEF Handled
  <2>3. \A f \in Fields : IF f \in DOMAIN Head(todo).sets
                            THEN settings'[f] = Head(todo).sets[f] \/ ~Relies(f)'
                            ELSE settings'[f] = settings[f]
    BY <2>1 DEF Handled
  <2>4. \A f \in Fields : Relies(f)' => Relies(f) /\ intent'[f] = intent[f]
    BY <2>1 DEF Handled
  <2>5. TodoSaid' /\ CacheSaid' /\ DragSaid'
    <3>1. InCurve \subseteq Fields /\ (pending => Moved(pendingMirror) \subseteq Fields)
      BY FieldFacts, MovedFacts DEF TypesOK
    <3>2. QED
      BY <2>2, <2>4, <3>1, TodoFields DEF IntentOK, TodoSaid, CacheSaid, DragSaid
  <2>6. \A f \in DOMAIN Head(todo).sets :
          f \in Fields /\ (Relies(f)' => settings'[f] = intent'[f])
    <3>1. 1 \in DOMAIN todo /\ Head(todo) = todo[1]
      BY <2>2, TailFacts DEF TypesOK
    <3>2. QED
      BY <2>2, <2>3, <2>4, <3>1, TodoFields DEF IntentOK, TodoSaid
  <2>7. LastWord'
    <3>1. \A f \in Fields :
            settings'[f] = settings[f] \/ (Relies(f)' => settings'[f] = intent'[f])
      BY <2>3, <2>6
    <3>2. QED
      BY <2>2, <2>4, <3>1 DEF IntentOK, LastWord
  <2>8. AnswerSaid'
    <3>1. ASSUME Head(todo).kind = "curve", NEW f \in InCurve, Relies(f)'
          PROVE  Head(toClient').value[f] = intent'[f]
      <4>1. f \in Fields /\ f \notin Positions
        BY FieldFacts
      <4>2. SetBy(todo) = {} /\ DOMAIN Head(todo).sets = {}
        BY <2>2, <3>1, CurveAlone
      <4>3. pending => f \notin Moved(pendingMirror)
        BY <4>1, MovedFacts DEF TypesOK
      <4>4. settings[f] = intent'[f] /\ settings'[f] = settings[f]
        BY <2>3, <2>4, <3>1, <4>1, <4>2, <4>3 DEF IntentOK, LastWord
      <4>5. QED
        BY <2>2, <3>1, <4>4 DEF CurveOf
    <3>2. QED
      BY <2>2, <2>6, <3>1 DEF AnswerSaid
  <2>9. QED
    BY <2>5, <2>7, <2>8 DEF IntentOK
<1>2. CASE HandleLate \/ Start
  <2>1. UNCHANGED <<todo, toClient, cache, mirror, pending, pendingMirror, overrun>>
    BY <1>2 DEF HandleLate, Start
  <2>2. \A f \in Fields : Relies(f)' => /\ Relies(f) /\ intent'[f] = intent[f]
                                        /\ settings'[f] = settings[f]
    <3>1. CASE HandleLate
      <4>1. PICK sets \in Sets :
              /\ \A f \in Fields : f \notin DOMAIN sets => settings'[f] = settings[f]
              /\ intent' = Forget(DOMAIN sets)
        BY <3>1, HandleLateIs
      <4>2. QED
        BY <2>1, <4>1, ForgetsOnly
    <3>2. CASE Start
      BY <3>2, StartIs
    <3>3. QED
      BY <1>2, <3>1, <3>2
  <2>3. InCurve \subseteq Fields /\ (pending => Moved(pendingMirror) \subseteq Fields)
    BY FieldFacts, MovedFacts DEF TypesOK
  <2>4. TodoSaid' /\ CacheSaid' /\ DragSaid' /\ LastWord'
    BY <2>1, <2>2, <2>3, TodoFields DEF IntentOK, TodoSaid, CacheSaid, DragSaid, LastWord
  <2>5. AnswerSaid'
    <3>1. toClient # << >> => todo # << >>
      BY DEF ChannelOK, TypesOK, FrameTypes
    <3>2. QED
      BY <2>1, <2>2, <2>3, <3>1, TodoFields DEF IntentOK, AnswerSaid
  <2>6. QED
    BY <2>4, <2>5 DEF IntentOK
<1>3. CASE Kill \/ Send \/ NotDue \/ UNCHANGED vars
  <2>1. UNCHANGED <<settings, todo, toClient, cache, mirror, pending, pendingMirror, intent,
                    overrun>>
    BY <1>3 DEF Kill, Send, NotDue, vars
  <2>2. QED
    BY <2>1 DEF IntentOK, TodoSaid, CacheSaid, AnswerSaid, DragSaid, LastWord, Relies
<1>4. CASE Fail \/ Timeout
  <2>1. Lost
    BY <1>4, LostIs
  <2>2. /\ todo' = << >> /\ toClient' = << >> /\ intent' = Forget(SetBy(todo))
        /\ UNCHANGED <<settings, cache, mirror, pending, pendingMirror, overrun>>
    BY <2>1 DEF Lost
  <2>3. \A f \in Fields : Relies(f)' => Relies(f) /\ f \notin SetBy(todo)
                                        /\ intent'[f] = intent[f]
    BY <2>2, ForgetsOnly
  <2>4. InCurve \subseteq Fields /\ (pending => Moved(pendingMirror) \subseteq Fields)
    BY FieldFacts, MovedFacts DEF TypesOK
  <2>5. QED
    BY <2>2, <2>3, <2>4 DEF IntentOK, TodoSaid, CacheSaid, AnswerSaid, DragSaid, LastWord
<1>5. CASE Receive
  <2>1. Received
    BY <1>5, ReceiveIs
  <2>2. /\ todo \in Seq(Requests) /\ todo # << >> /\ todo' = Tail(todo)
        /\ toClient # << >> /\ Head(toClient).kind = Head(todo).kind /\ toClient' = << >>
        /\ cache' = IF Head(toClient).kind = "curve" THEN Head(toClient).value ELSE cache
        /\ UNCHANGED <<settings, pending, pendingMirror, intent>>
    BY <2>1 DEF Received, TypesOK
  <2>3. overrun \subseteq overrun'
        /\ (pending => Moved(pendingMirror) \subseteq overrun')
    <3>1. activity = "draw" => ~pending
      BY DEF FrameOK
    <3>2. QED
      BY <2>1, <3>1 DEF Received
  <2>4. \A f : Relies(f)' => Relies(f)
    BY <2>2, <2>3 DEF Relies
  <2>5. TodoSaid'
    <3>1. \A i \in DOMAIN todo' : i + 1 \in DOMAIN todo /\ todo'[i] = todo[i + 1]
      BY <2>2, TailFacts
    <3>2. QED
      BY <2>2, <2>4, <3>1 DEF IntentOK, TodoSaid
  <2>6. CacheSaid'
    BY <2>2, <2>4 DEF IntentOK, CacheSaid, AnswerSaid
  <2>7. AnswerSaid'
    BY <2>2 DEF AnswerSaid
  <2>8. DragSaid'
    BY <2>2, <2>3 DEF DragSaid, Relies
  <2>9. LastWord'
    <3>1. SetBy(todo) = DOMAIN Head(todo).sets \cup SetBy(todo')
      BY <2>2, SetByFacts
    <3>2. QED
      BY <2>2, <2>4, <3>1 DEF IntentOK, AnswerSaid, LastWord
  <2>10. QED
    BY <2>5, <2>6, <2>7, <2>8, <2>9 DEF IntentOK
<1>6. CASE Connect \/ Poll
  <2>1. /\ SetBy(todo) = {} /\ \A i \in DOMAIN todo' : DOMAIN todo'[i].sets = {}
    BY <1>6, TickSetsNothing
  <2>2. toClient' = << >>
        /\ UNCHANGED <<settings, cache, mirror, pending, pendingMirror, intent, overrun>>
    BY <1>6 DEF Connect, Poll, InPhase, ChannelOK, TypesOK, FrameTypes
  <2>3. QED
    BY <2>1, <2>2
    DEF IntentOK, TodoSaid, CacheSaid, AnswerSaid, DragSaid, LastWord, Relies
<1>7. ASSUME NEW m \in BOOLEAN, Drag(m)  PROVE IntentOK'
  <2>1. Dragged(m)
    BY <1>7, DragIs
  <2>2. Moved(m) \subseteq InStatus /\ Moved(m) \subseteq Fields /\ Moved(m) \cap InCurve = {}
        /\ InCurve \subseteq Fields /\ SetBy(todo) = {} /\ SetBy(<< >>) = {}
    BY <2>1, MovedFacts, FieldFacts, SetByFacts DEF Dragged
  <2>3. /\ \A f \in Moved(m) : Relies(f)' => mirror'[f] = intent'[f]
        /\ \A f \in Fields \ Moved(m) : (Relies(f)' => Relies(f)) /\ intent'[f] = intent[f]
    <3>1. Said(Moved(m), [f \in Moved(m) |-> acts'])
      BY <2>1 DEF Dragged
    <3>2. \A f \in Moved(m) : mirror'[f] = acts'
      BY <2>1, <2>2 DEF Dragged
    <3>3. QED
      BY <2>2, <3>1, <3>2, SaidRelies
  <2>4. /\ \/ Carries(todo', mirror', Moved(m))
           \/ todo' = << >> /\ pending'
        /\ pendingMirror' = m /\ (pending => m = pendingMirror)
        /\ ~waiting /\ UNCHANGED <<settings, cache, toClient>>
    BY <2>1 DEF Dragged
  <2>5. TodoSaid'
    BY <2>3, <2>4 DEF TodoSaid, Carries
  <2>6. CacheSaid'
    BY <2>2, <2>3, <2>4 DEF IntentOK, CacheSaid
  <2>7. AnswerSaid'
    BY <2>4 DEF ChannelOK, AnswerSaid
  <2>8. DragSaid'
    BY <2>3, <2>4 DEF DragSaid
  <2>9. LastWord'
    <3>1. \A f \in Moved(m) : f \in SetBy(todo') \/ (pending' /\ f \in Moved(pendingMirror'))
      BY <2>4 DEF Carries
    <3>2. \A f \in Fields \ Moved(m) : Relies(f)' => settings'[f] = intent'[f]
      BY <2>2, <2>3, <2>4 DEF IntentOK, LastWord
    <3>3. QED
      BY <3>1, <3>2 DEF LastWord
  <2>10. QED
    BY <2>5, <2>6, <2>7, <2>8, <2>9 DEF IntentOK
<1>8. CASE Release
  <2>1. Released
    BY <1>8, ReleaseIs
  <2>2. /\ \/ pending /\ Carries(todo', mirror, Moved(pendingMirror))
           \/ ~pending /\ todo' = << >>
        /\ todo = << >> /\ ~waiting /\ ~pending'
        /\ UNCHANGED <<settings, cache, mirror, toClient, intent, overrun>>
    BY <2>1 DEF Released
  <2>3. SetBy(todo) = {} /\ SetBy(<< >>) = {} /\ \A f : Relies(f)' <=> Relies(f)
    BY <2>2, SetByFacts DEF Relies
  <2>4. TodoSaid'
    BY <2>2, <2>3 DEF IntentOK, DragSaid, TodoSaid, Carries
  <2>5. LastWord'
    <3>1. pending => SetBy(todo') = Moved(pendingMirror)
      BY <2>2 DEF Carries
    <3>2. QED
      BY <2>2, <2>3, <3>1 DEF IntentOK, LastWord
  <2>6. CacheSaid' /\ AnswerSaid' /\ DragSaid'
    BY <2>2, <2>3 DEF IntentOK, CacheSaid, AnswerSaid, DragSaid, ChannelOK
  <2>7. QED
    BY <2>4, <2>5, <2>6 DEF IntentOK
<1>9. CASE Clicking
  <2>1. Clicked
    BY <1>9, ClickIs
  <2>2. PICK D, sets, E, v : Sends(D, sets, E, v)
    BY <2>1 DEF Clicked
  <2>3. /\ D \subseteq E /\ E \subseteq Fields /\ E \ D \subseteq InCurve /\ Said(D, sets)
        /\ Carries(todo', v, E)
        /\ \A f \in E : v[f] = IF f \in D THEN sets[f] ELSE cache[f]
        /\ \A f \in InCurve : cache'[f] = IF f \in D THEN sets[f] ELSE cache[f]
    BY <2>2 DEF Sends
  <2>4. /\ todo = << >> /\ ~waiting /\ ~pending /\ ~pending'
        /\ UNCHANGED <<settings, mirror, toClient>>
    BY <2>1 DEF Clicked
  <2>5. /\ \A f \in D : Relies(f)' => intent'[f] = sets[f]
        /\ \A f \in Fields \ D : (Relies(f)' => Relies(f)) /\ intent'[f] = intent[f]
    BY <2>3, SaidRelies
  <2>6. InCurve \subseteq Fields /\ SetBy(todo) = {}
    BY <2>4, FieldFacts, SetByFacts
  <2>7. \A f \in E : Relies(f)' => v[f] = intent'[f]
    BY <2>3, <2>5 DEF IntentOK, CacheSaid
  <2>8. TodoSaid'
    BY <2>3, <2>7 DEF TodoSaid, Carries
  <2>9. CacheSaid'
    BY <2>3, <2>5, <2>6 DEF IntentOK, CacheSaid
  <2>10. AnswerSaid' /\ DragSaid'
    BY <2>4 DEF AnswerSaid, DragSaid, ChannelOK
  <2>11. LastWord'
    <3>1. D \subseteq SetBy(todo')
      BY <2>3 DEF Carries
    <3>2. \A f \in Fields \ D : Relies(f)' => settings'[f] = intent'[f]
      BY <2>4, <2>5, <2>6 DEF IntentOK, LastWord
    <3>3. QED
      BY <3>1, <3>2 DEF LastWord
  <2>12. QED
    BY <2>8, <2>9, <2>10, <2>11 DEF IntentOK
<1>10. QED
  BY <1>1, <1>2, <1>3, <1>4, <1>5, <1>6, <1>7, <1>8, <1>9 DEF Next

-----------------------------------------------------------------------------
(* The equalizer *)

\* What it shows is in force or on its way.
LEMMA ShownStep ==
  TypesOK /\ ChannelOK /\ FrameOK /\ ValuesOK /\ ShownOK /\ [Next]_vars /\ TypesOK'
    => ShownOK'
<1> SUFFICES ASSUME TypesOK, ChannelOK, FrameOK, ValuesOK, ShownOK, [Next]_vars, TypesOK'
             PROVE  ShownOK'
  OBVIOUS
<1> USE DEF daemonVars, socketVars, frameVars, dialVars, shownVars, historyVars
<1>1. CASE Handle
  <2>1. Handled
    BY <1>1, HandleIs
  <2>2. /\ UNCHANGED <<todo, cache, serving, activity>> /\ todo # << >>
        /\ Head(todo).kind = "curve" => Head(toClient').value = CurveOf(settings')
        /\ drifted' <=> drifted /\ Head(todo).kind # "curve"
    BY <2>1 DEF Handled
  <2>3. \A f \in InCurve : settings'[f] = IF f \in DOMAIN Head(todo).sets
                                            THEN Head(todo).sets[f] ELSE settings[f]
    BY <2>1, FieldFacts DEF Handled
  <2>4. TodoShown' /\ CurveCame' = CurveCame /\ InCurve \subseteq Fields
    BY <2>2, FieldFacts DEF ShownOK, TodoShown, CurveCame
  <2>5. \A f \in InCurve \cap DOMAIN Head(todo).sets : cache'[f] = settings'[f]
    <3>1. 1 \in DOMAIN todo /\ Head(todo) = todo[1]
      BY <2>2, TailFacts DEF TypesOK
    <3>2. QED
      BY <2>2, <2>3, <2>4, <3>1 DEF ShownOK, TodoShown
  <2>6. CurveInForce'
    <3>1. CurveCame => Head(todo).kind # "curve"
      BY <2>2, CurveAlone DEF CurveCame
    <3>2. QED
      BY <2>2, <2>3, <2>4, <2>5, <3>1 DEF ShownOK, CurveInForce
  <2>7. AnswerShown'
    BY <2>2, <2>5 DEF AnswerShown
  <2>8. QED
    BY <2>4, <2>6, <2>7 DEF ShownOK
<1>2. CASE HandleLate
  <2>1. PICK sets \in Sets :
          /\ \A f \in Fields : f \notin DOMAIN sets => settings'[f] = settings[f]
          /\ drifted' = (drifted \/ DOMAIN sets \cap InCurve # {})
    BY <1>2, HandleLateIs
  <2>2. UNCHANGED <<todo, toClient, cache, serving, activity>>
    BY <1>2 DEF HandleLate
  <2>3. ~drifted' => ~drifted /\ \A f \in InCurve : settings'[f] = settings[f]
    BY <2>1, FieldFacts
  <2>4. ~drifted' => CurveOf(settings') = CurveOf(settings)
    BY <2>3 DEF CurveOf
  <2>5. CurveCame' = CurveCame
    BY <2>2 DEF CurveCame
  <2>6. QED
    BY <2>2, <2>3, <2>4, <2>5 DEF ShownOK, TodoShown, CurveInForce, AnswerShown
<1>3. CASE Send \/ NotDue \/ UNCHANGED vars
  <2>1. UNCHANGED <<settings, serving, todo, toClient, cache, activity, drifted>>
    BY <1>3 DEF Send, NotDue, vars
  <2>2. QED
    BY <2>1 DEF ShownOK, TodoShown, CurveInForce, AnswerShown, CurveCame
<1>4. CASE Kill \/ Start
  <2>1. ~serving' /\ UNCHANGED <<todo, cache>>
    BY <1>4 DEF Kill, Start, TypesOK, FrameTypes
  <2>2. QED
    BY <2>1 DEF ShownOK, TodoShown, CurveInForce, AnswerShown, CurveCame
<1>5. CASE Fail \/ Timeout
  <2>1. Lost
    BY <1>5, LostIs
  <2>2. todo' = << >> /\ toClient' = << >> /\ ~serving'
    BY <2>1 DEF Lost
  <2>3. QED
    BY <2>2 DEF ShownOK, TodoShown, CurveInForce, AnswerShown, CurveCame
<1>6. CASE Receive
  <2>1. Received
    BY <1>6, ReceiveIs
  <2>2. /\ todo \in Seq(Requests) /\ todo # << >> /\ todo' = Tail(todo)
        /\ toClient # << >> /\ Head(toClient).kind = Head(todo).kind /\ toClient' = << >>
        /\ cache' = IF Head(toClient).kind = "curve" THEN Head(toClient).value ELSE cache
        /\ UNCHANGED <<settings, serving, drifted>>
    BY <2>1 DEF Received, TypesOK
  <2>3. /\ \A i \in DOMAIN todo' : i + 1 \in DOMAIN todo /\ todo'[i] = todo[i + 1]
        /\ SetBy(todo) = DOMAIN Head(todo).sets \cup SetBy(todo')
    BY <2>2, TailFacts, SetByFacts
  <2>4. AnswerShown'
    BY <2>2 DEF AnswerShown
  <2>5. CASE Head(todo).kind = "curve"
    <3>1. \A i \in DOMAIN todo' : DOMAIN todo'[i].sets = {}
      BY <2>2, <2>3, <2>5, CurveAlone
    <3>2. serving' /\ ~drifted' => cache' = CurveOf(settings')
      BY <2>2, <2>5 DEF ShownOK, AnswerShown
    <3>3. CurveInForce'
      BY <3>2 DEF CurveInForce, CurveCame, CurveOf
    <3>4. QED
      BY <2>4, <3>1, <3>3 DEF ShownOK, TodoShown
  <2>6. CASE Head(todo).kind # "curve"
    <3>1. CurveCame' => CurveCame
      BY <2>1, <2>6, CurveComesOnce
    <3>2. cache' = cache
      BY <2>2, <2>6
    <3>3. TodoShown'
      BY <2>3, <3>2 DEF ShownOK, TodoShown
    <3>4. CurveInForce'
      BY <2>2, <2>3, <3>1, <3>2 DEF ShownOK, CurveInForce, AnswerShown
    <3>5. QED
      BY <2>4, <3>3, <3>4 DEF ShownOK
  <2>7. QED
    BY <2>5, <2>6
<1>7. CASE Connect \/ Poll
  <2>1. /\ SetBy(todo) = {} /\ \A i \in DOMAIN todo' : DOMAIN todo'[i].sets = {}
    BY <1>7, TickSetsNothing
  <2>2. toClient' = << >> /\ UNCHANGED <<settings, cache, drifted>>
    BY <1>7 DEF Connect, Poll, InPhase, ChannelOK, TypesOK, FrameTypes
  <2>3. CurveCame' => CurveCame
    <3>1. CASE Poll
      BY <3>1 DEF Poll, InPhase, CurveCame
    <3>2. CASE Connect
      <4>1. CASE up
        <5>1. activity' = "connect" /\ Len(todo') = 5
          BY <3>2, <4>1, Scripts DEF Connect
        <5>2. QED
          BY <5>1 DEF CurveCame
      <4>2. CASE ~up
        BY <3>2, <4>2 DEF Connect, CurveCame
      <4>3. QED
        BY <4>1, <4>2
    <3>3. QED
      BY <1>7, <3>1, <3>2
  <2>4. QED
    BY <2>1, <2>2, <2>3 DEF ShownOK, TodoShown, CurveInForce, AnswerShown
<1>8. ASSUME NEW D, D \cap InCurve = {},
             todo = << >>, \E v : Carries(todo', v, D) \/ todo' = << >>,
             ~waiting, activity = "none", UNCHANGED <<settings, serving, cache, toClient, drifted>>
      PROVE  ShownOK'
  <2>1. SetBy(todo) = {} /\ toClient' = << >>
    BY <1>8, SetByFacts DEF ChannelOK
  <2>2. TodoShown'
    BY <1>8 DEF TodoShown, Carries
  <2>3. CurveCame' => CurveCame
    BY <1>8 DEF CurveCame
  <2>4. QED
    BY <1>8, <2>1, <2>2, <2>3 DEF ShownOK, CurveInForce, AnswerShown
<1>9. ASSUME NEW m \in BOOLEAN, Drag(m)  PROVE ShownOK'
  <2>1. Dragged(m)
    BY <1>9, DragIs
  <2>2. /\ Moved(m) \cap InCurve = {} /\ todo = << >> /\ ~waiting /\ activity = "none"
        /\ Carries(todo', mirror', Moved(m)) \/ todo' = << >>
        /\ UNCHANGED <<settings, serving, cache, toClient, drifted>>
    BY <2>1, MovedFacts, FieldFacts DEF Dragged
  <2>3. QED
    BY <1>8, <2>2
<1>10. CASE Release
  <2>1. Released
    BY <1>10, ReleaseIs
  <2>2. /\ Moved(pendingMirror) \cap InCurve = {} /\ todo = << >> /\ ~waiting
        /\ activity = "none"
        /\ Carries(todo', mirror, Moved(pendingMirror)) \/ todo' = << >>
        /\ UNCHANGED <<settings, serving, cache, toClient, drifted>>
    BY <2>1, MovedFacts, FieldFacts DEF Released, TypesOK
  <2>3. QED
    BY <1>8, <2>2
<1>11. CASE Clicking
  <2>1. Clicked
    BY <1>11, ClickIs
  <2>2. PICK D, sets, E, v : Sends(D, sets, E, v)
    BY <2>1 DEF Clicked
  <2>3. /\ D \subseteq E /\ Carries(todo', v, E)
        /\ \A f \in E : v[f] = IF f \in D THEN sets[f] ELSE cache[f]
        /\ \A f \in InCurve : cache'[f] = IF f \in D THEN sets[f] ELSE cache[f]
    BY <2>2 DEF Sends
  <2>4. /\ todo = << >> /\ ~waiting /\ activity = "none"
        /\ UNCHANGED <<settings, serving, toClient, drifted>>
    BY <2>1 DEF Clicked
  <2>5. SetBy(todo) = {} /\ toClient' = << >> /\ (CurveCame' => CurveCame)
    BY <2>4, SetByFacts DEF ChannelOK, CurveCame
  <2>6. TodoShown'
    BY <2>3 DEF TodoShown, Carries
  <2>7. CurveInForce'
    <3>1. D \subseteq SetBy(todo')
      BY <2>3 DEF Carries
    <3>2. QED
      BY <2>3, <2>4, <2>5, <3>1 DEF ShownOK, CurveInForce
  <2>8. QED
    BY <2>5, <2>6, <2>7 DEF ShownOK, AnswerShown
<1>12. QED
  BY <1>1, <1>2, <1>3, <1>4, <1>5, <1>6, <1>7, <1>9, <1>10, <1>11 DEF Next

-----------------------------------------------------------------------------
(* The invariant, and what follows from it *)

LEMMA InitInvariant == Init => IInv
<1> SUFFICES ASSUME Init  PROVE IInv
  OBVIOUS
<1> USE DEF Init
<1>1. todo = << >> /\ toServer = << >> /\ toClient = << >> /\ late = << >> /\ SetBy(todo) = {}
  BY SetByFacts
<1>2. TypesOK
  <2>1. todo \in Seq(Requests) /\ late \in Seq(Requests) /\ toServer \in Seq(Requests)
        /\ toClient \in Seq(Answers)
    BY <1>1, EmptySeq
  <2>2. ValueTypes
    BY DEF ValueTypes, Values, Placeholder
  <2>3. FrameTypes
    BY DEF FrameTypes
  <2>4. /\ up \in BOOLEAN /\ serving \in BOOLEAN /\ socket \in BOOLEAN /\ waiting \in BOOLEAN
        /\ connected \in BOOLEAN /\ dragging \in BOOLEAN /\ pending \in BOOLEAN
        /\ pendingMirror \in BOOLEAN /\ drifted \in BOOLEAN
    BY Zenon
  <2>5. acts \in 0 .. MaxActs /\ overrun \subseteq Positions
    OBVIOUS
  <2>6. QED
    BY <2>1, <2>2, <2>3, <2>4, <2>5 DEF TypesOK
<1>3. ChannelOK /\ FrameOK
  BY <1>1 DEF ChannelOK, FrameOK
<1>4. ValuesOK
  BY <1>1, AllowedFacts DEF ValuesOK, Valid, StatusCame, CurveCame
<1>5. IntentOK
  <2>1. \A f \in Fields : ~Relies(f)
    BY DEF Relies
  <2>2. InCurve \subseteq Fields
    BY FieldFacts
  <2>3. QED
    BY <1>1, <2>1, <2>2
    DEF IntentOK, TodoSaid, CacheSaid, AnswerSaid, DragSaid, LastWord
<1>6. ShownOK
  BY <1>1 DEF ShownOK, TodoShown, CurveInForce, AnswerShown, CurveCame
<1>7. QED
  BY <1>2, <1>3, <1>4, <1>5, <1>6 DEF IInv

LEMMA NextInvariant == IInv /\ [Next]_vars => IInv'
<1> SUFFICES ASSUME IInv, [Next]_vars  PROVE IInv'
  OBVIOUS
<1>1. TypesOK /\ ChannelOK /\ FrameOK /\ ValuesOK /\ IntentOK /\ ShownOK
  BY DEF IInv
<1>2. TypesOK'
  BY <1>1, TypesStep
<1>3. ChannelOK' /\ FrameOK'
  BY <1>1, ChannelStep, FrameStep
<1>4. ValuesOK'
  BY <1>1, <1>2, ValuesStep
<1>5. IntentOK' /\ ShownOK'
  BY <1>1, <1>2, IntentStep, ShownStep
<1>6. QED
  BY <1>2, <1>3, <1>4, <1>5 DEF IInv

\* Every state that can be reached satisfies the invariant: what is left to be sent,
\* what is shown and what is in force go together (App::Tick, App::DrawUI, HandleClient).
THEOREM Invariance == Spec => []IInv
  BY InitInvariant, NextInvariant, PTL DEF Spec

\* Between two requests nothing is on the way, and one at most while the GUI waits: an
\* answer that comes too late is never taken for the next request's (SendRawRequest's
\* Disconnect after a timeout, and Connect's).
THEOREM AnswersMatch == Spec => []EmptyBetweenRequests
<1>1. IInv => EmptyBetweenRequests
  <2> SUFFICES ASSUME IInv  PROVE EmptyBetweenRequests
    OBVIOUS
  <2>1. TypesOK /\ ChannelOK
    BY DEF IInv
  <2>2. TypeOK
    BY <2>1 DEF TypesOK, ValueTypes, FrameTypes, TypeOK, Values
  <2>3. ~waiting => toServer = << >> /\ toClient = << >>
    BY <2>1 DEF ChannelOK
  <2>4. Len(toServer) + Len(toClient) <= 1
    <3>1. Len(<< >>) = 0
      OBVIOUS
    <3>2. Len(toServer) \in {0, 1} /\ Len(toClient) \in {0, 1}
          /\ (toServer # << >> => Len(toClient) = 0) /\ (toServer = << >> => Len(toServer) = 0)
      BY <2>1, <3>1 DEF ChannelOK
    <3>3. \A a \in {0, 1}, b \in {0, 1} : a = 0 \/ b = 0 => a + b <= 1
      OBVIOUS
    <3>4. QED
      BY <3>2, <3>3
  <2>5. QED
    BY <2>2, <2>3, <2>4 DEF EmptyBetweenRequests
<1>2. QED
  BY <1>1, Invariance, PTL

\* When the GUI is at rest the daemon has the user's last word on every setting, however
\* drags, clicks, polls and restarts followed one another, but for requests that failed,
\* settings a late request has changed, a drag a poll has overrun, a device or an HRTF
\* that was no longer listed, and what a restart does not bring back: the test noise, a
\* device or an HRTF that is gone, and anything if two requests were saved at once
\* (SendSpeakerPosition, the flush at the end of a drag; HandleControlCommand, Run).
THEOREM LastWordKept == Spec => []IntentInForce
<1>1. IInv => IntentInForce
  <2> SUFFICES ASSUME IInv, AtRest, NEW f \in Fields, intent[f] # None, f \notin overrun
               PROVE  settings[f] = intent[f]
    BY DEF IntentInForce
  <2>1. TypesOK /\ LastWord
    BY DEF IInv, IntentOK
  <2>2. SetBy(todo) = {} /\ ~pending
    BY <2>1, SetByFacts DEF AtRest, TypesOK, FrameTypes
  <2>3. QED
    BY <2>1, <2>2 DEF LastWord, Relies
<1>2. QED
  BY <1>1, Invariance, PTL

\* The band the equalizer shows is the daemon's, whatever edits and reconnects came
\* before, but for a late request; and a band no curve was fetched for is never sent
\* (HwEqBands, fetched only when connecting).
THEOREM EqualizerTrue == Spec => []CurveShown
<1>1. IInv => CurveShown
  <2> SUFFICES ASSUME IInv  PROVE CurveShown
    OBVIOUS
  <2>1. TypesOK /\ ShownOK
    BY DEF IInv
  <2>2. ASSUME connected, socket, serving, AtRest, ~drifted
        PROVE  cache = CurveOf(settings)
    <3>1. SetBy(todo) = {} /\ CurveCame
      BY <2>1, <2>2, SetByFacts DEF AtRest, TypesOK, FrameTypes, CurveCame
    <3>2. \A f \in InCurve : cache[f] = settings[f]
      BY <2>1, <2>2, <3>1 DEF ShownOK, CurveInForce
    <3>3. QED
      BY <2>1, <3>2 DEF TypesOK, ValueTypes, CurveOf
  <2>3. \A f \in InCurve : settings[f] # Placeholder
    BY <2>1, FieldFacts DEF TypesOK, ValueTypes, Placeholder
  <2>4. QED
    BY <2>2, <2>3 DEF CurveShown
<1>2. QED
  BY <1>1, Invariance, PTL
=============================================================================
