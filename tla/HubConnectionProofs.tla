------------------------- MODULE HubConnectionProofs -------------------------
(***************************************************************************)
(* Theorems about HubConnection, for every set of endpoints, number of     *)
(* sockets and size of chunks.                                             *)
(***************************************************************************)
EXTENDS HubConnection, TLAPS

\* Sockets and tokens agree: only the stream is open, the live connection is
\* to the configured endpoint, and a helper that is down has nothing.
Sockets ==
  /\ \A c \in Conn : conns[c] = "open" => c = stream
  /\ \A c \in Conn : c \in Live => config \in Endpoint /\ connOf[c] = config
  /\ ~Up => config = "disabled"

\* The type invariant by parts: the window, the pipes, the helper, its sockets.
UiTyped ==
  /\ endpoint \in Setting /\ configureLater \in BOOLEAN
  /\ uiRoster \in Roster /\ uiReachable \in BOOLEAN /\ uiConnected \in BOOLEAN
PipesTyped == toHub \in Seq(Setting) /\ toUi \in Seq(Lines)
HelperTyped ==
  /\ proc \in {"up", "dead", "gone"} /\ config \in Setting
  /\ hubConnected \in BOOLEAN /\ roster \in Roster
SocketsTyped ==
  /\ conns \in [Conn -> {"free", "handshake", "open", "drained"}]
  /\ connOf \in [Conn -> Roster]
  /\ current \in Conn \cup {None} /\ stream \in Conn \cup {None} /\ timer \in BOOLEAN
CountersTyped == configs \in 0..MaxConfigs /\ failures \in 0..MaxFailures
OverranTyped == overran \in BOOLEAN

IInv == TypeOK /\ OneAttempt /\ Sockets /\ RosterOfEndpoint

-----------------------------------------------------------------------------
LEMMA Slots == MaxConns \in Nat /\ Conn \subseteq Nat \ {None}
<1>1. MaxConns \in Nat
  BY HubAssumption
<1> QED BY <1>1 DEF Conn, None

LEMMA Words == Endpoint \cap {"disabled", "invalid", "nowhere"} = {}
BY HubAssumption

LEMMA TypeParts ==
  TypeOK <=> UiTyped /\ PipesTyped /\ HelperTyped /\ SocketsTyped /\ CountersTyped /\ OverranTyped
BY DEF TypeOK, UiTyped, PipesTyped, HelperTyped, SocketsTyped, CountersTyped, OverranTyped

\* A line fits the pipe to the window, a setting the pipe to the helper.
LEMMA PipesGrow ==
  ASSUME PipesTyped
  PROVE  /\ \A w \in {"", "disabled"} : Append(toUi, Line("status", w)) \in Seq(Lines)
         /\ \A s \in Setting : Append(toHub, s) \in Seq(Setting)
         /\ \A e \in Endpoint : Line("snapshot", e) \in Lines
         /\ Line("status", "") \in Lines
<1>1. \A w \in {"", "disabled"} : Line("status", w) \in Lines
  BY DEF Line, Lines
<1>2. \A e \in Endpoint : Line("snapshot", e) \in Lines
  BY DEF Line, Lines
<1>3. \A w \in {"", "disabled"} : Append(toUi, Line("status", w)) \in Seq(Lines)
  <2>1. \A l \in Lines : Append(toUi, l) \in Seq(Lines)
    BY DEF PipesTyped
  <2> QED BY <1>1, <2>1
<1>4. \A s \in Setting : Append(toHub, s) \in Seq(Setting)
  BY DEF PipesTyped
<1> QED BY <1>1, <1>2, <1>3, <1>4

\* Closing the stream frees its socket and leaves no socket open.
LEMMA ClosedTyped ==
  ASSUME SocketsTyped, OneAttempt, Sockets
  PROVE  /\ Closed \in [Conn -> {"free", "handshake", "open", "drained"}]
         /\ \A c \in Conn : Closed[c] # "open" /\ (Closed[c] # "free" => Closed[c] = conns[c])
BY Slots DEF SocketsTyped, Closed, Sockets, OneAttempt, None

\* A read is a sequence of frames.
LEMMA ReadTyped ==
  ASSUME NEW read \in Chunks
  PROVE  read \in Seq(Frame) /\ Len(read) \in Nat /\ Len(read) > 0
<1>1. PICK n \in 1..MaxChunk : read \in [1..n -> Frame]
  BY DEF Chunks
<1>2. n \in Nat /\ n > 0
  BY <1>1, HubAssumption
<1> QED BY <1>1, <1>2
-----------------------------------------------------------------------------
(* The steps of the window leave the helper alone, but for the pipes.       *)

HelperStep ==
  TakeConfigure \/ TimerFires \/ (\E c \in Conn : Accepted(c) \/ Ended(c))
  \/ (\E read \in Chunks : Chunk(read)) \/ Crash
WindowStep ==
  (\E s \in Setting : Configure(s)) \/ LateConfigure \/ ReadLine \/ SeeExit \/ RestartHelper

LEMMA NextSplit == Next => HelperStep \/ WindowStep
BY DEF Next, HelperStep, WindowStep

LEMMA WindowUi == UiTyped /\ PipesTyped /\ CountersTyped /\ WindowStep => UiTyped' /\ CountersTyped'
<1> SUFFICES ASSUME UiTyped, PipesTyped, CountersTyped, WindowStep PROVE UiTyped' /\ CountersTyped'
  OBVIOUS
<1>1. ASSUME NEW s \in Setting, Configure(s) PROVE UiTyped' /\ CountersTyped'
  <2>1. configs' \in 0..MaxConfigs /\ failures' \in 0..MaxFailures
    BY <1>1, HubAssumption DEF CountersTyped, Configure
  <2>2. endpoint' \in Setting
    BY <1>1 DEF Configure
  <2>3. uiRoster' \in Roster
    BY <1>1 DEF UiTyped, Configure, Roster
  <2>4. uiReachable' \in BOOLEAN
    BY <1>1, Zenon DEF UiTyped, Configure
  <2>5. configureLater' \in BOOLEAN /\ uiConnected' \in BOOLEAN
    BY <1>1, Zenon DEF UiTyped, Configure
  <2> QED BY <2>1, <2>2, <2>3, <2>4, <2>5 DEF UiTyped, CountersTyped
<1>2. CASE LateConfigure
  BY <1>2 DEF UiTyped, CountersTyped, LateConfigure
<1>3. CASE ReadLine
  <2>1. Head(toUi) \in Lines
    BY <1>3 DEF PipesTyped, ReadLine
  <2>2. Head(toUi).type = "snapshot" => Head(toUi).from \in Roster
    BY <2>1 DEF Lines, Roster
  <2> QED BY <1>3, <2>2 DEF UiTyped, CountersTyped, ReadLine, Roster
<1>4. CASE SeeExit
  BY <1>4 DEF UiTyped, CountersTyped, SeeExit
<1>5. CASE RestartHelper
  BY <1>5 DEF UiTyped, CountersTyped, RestartHelper, TellLater
<1> QED BY <1>1, <1>2, <1>3, <1>4, <1>5 DEF WindowStep

LEMMA WindowPipes == UiTyped /\ PipesTyped /\ WindowStep => PipesTyped'
<1> SUFFICES ASSUME UiTyped, PipesTyped, WindowStep PROVE PipesTyped'
  OBVIOUS
<1>1. ASSUME NEW s \in Setting, Configure(s) PROVE PipesTyped'
  BY <1>1, PipesGrow DEF PipesTyped, Configure
<1>2. CASE LateConfigure
  BY <1>2, PipesGrow DEF UiTyped, PipesTyped, LateConfigure
<1>3. CASE ReadLine
  BY <1>3 DEF PipesTyped, ReadLine
<1>4. CASE SeeExit
  BY <1>4 DEF PipesTyped, SeeExit
<1>5. CASE RestartHelper
  BY <1>5 DEF PipesTyped, RestartHelper
<1> QED BY <1>1, <1>2, <1>3, <1>4, <1>5 DEF WindowStep

\* The part of the state the other invariants speak of: a window's step at
\* most changes which kind of down the helper is, or starts it afresh.
LEMMA WindowSteps ==
  ASSUME WindowStep
  PROVE  UNCHANGED <<config, conns, connOf, current, stream, timer, overran, hubConnected, roster>>
         /\ (Up' => Up \/ proc = "gone")
         /\ (Up => Up')
         /\ proc' \in {"up", "dead", "gone"} \cup {proc}
<1>1. ASSUME NEW s \in Setting, Configure(s) PROVE UNCHANGED hubVars
  BY <1>1 DEF Configure
<1>2. LateConfigure \/ ReadLine => UNCHANGED hubVars
  BY DEF LateConfigure, ReadLine
<1>3. SeeExit => UNCHANGED <<config, netVars, hubConnected, roster>> /\ proc = "dead" /\ proc' = "gone"
  BY DEF SeeExit
<1>4. RestartHelper => UNCHANGED <<config, netVars, hubConnected, roster>> /\ proc = "gone" /\ proc' = "up"
  BY DEF RestartHelper
<1> QED BY <1>1, <1>2, <1>3, <1>4 DEF WindowStep, hubVars, netVars, Up
-----------------------------------------------------------------------------
(* The steps of the helper.                                                 *)

\* A new connection, after the stream was closed, is the only live one.
LEMMA Connected ==
  ASSUME SocketsTyped, OneAttempt, Sockets, Up', config' \in Endpoint,
         Connect(config', Closed), stream' = None, timer' = FALSE
  PROVE  SocketsTyped' /\ OneAttempt' /\ Sockets'
<1>1. PICK c \in Conn :
        /\ Closed[c] = "free"
        /\ conns' = [Closed EXCEPT ![c] = "handshake"]
        /\ connOf' = [connOf EXCEPT ![c] = config']
        /\ current' = c
  BY DEF Connect
<1>2. SocketsTyped'
  BY <1>1, ClosedTyped DEF SocketsTyped, Roster
<1>3. OneAttempt'
  BY DEF OneAttempt
<1>4. Sockets'
  <2>1. \A d \in Conn : conns'[d] # "open"
    BY <1>1, ClosedTyped
  <2>2. connOf'[c] = config'
    BY <1>1 DEF SocketsTyped
  <2>3. \A d \in Conn : d \in Live' => d = c
    BY <1>1 DEF Live, Token
  <2> QED BY <2>1, <2>2, <2>3 DEF Sockets
<1> QED BY <1>2, <1>3, <1>4

\* With the stream closed and no timer there is no way to the hub at all.
LEMMA Disconnected ==
  ASSUME SocketsTyped, OneAttempt, Sockets, Up', conns' = Closed, connOf' = connOf,
         stream' = None, timer' \in BOOLEAN,
         timer' => config' \in Endpoint,
         current' = None \/ (current' = current /\ config' = config /\ (timer' => current = stream))
  PROVE  SocketsTyped' /\ OneAttempt' /\ Sockets'
<1>1. SocketsTyped'
  BY ClosedTyped DEF SocketsTyped
<1>2. \A c \in Conn : conns'[c] # "open" /\ (conns'[c] # "free" => conns'[c] = conns[c])
  BY ClosedTyped
<1>3. \A c \in Conn : c \in Live' => c \in Live /\ config' = config /\ ~timer'
  <2>1. \A c \in Conn : c # None
    BY Slots
  <2>2. stream # None => Closed[stream] = "free"
    BY DEF Closed, SocketsTyped
  <2> QED BY <1>2, <2>1, <2>2 DEF Live, Token
<1>4. OneAttempt'
  BY <1>3 DEF OneAttempt, Live
<1>5. Sockets'
  BY <1>2, <1>3 DEF Sockets
<1> QED BY <1>1, <1>4, <1>5

LEMMA TakesConfigure ==
  ASSUME UiTyped, PipesTyped, HelperTyped, SocketsTyped, CountersTyped, OneAttempt, Sockets,
         TakeConfigure
  PROVE  (UiTyped /\ PipesTyped /\ HelperTyped /\ SocketsTyped /\ CountersTyped
           /\ OneAttempt /\ Sockets /\ RosterOfEndpoint)'
<1>1. UiTyped' /\ CountersTyped'
  BY DEF TakeConfigure, uiVars, UiTyped, CountersTyped
<1>2. Head(toHub) \in Setting /\ Tail(toHub) \in Seq(Setting)
  <2>1. toHub # <<>> /\ toHub \in Seq(Setting)
    BY DEF TakeConfigure, PipesTyped
  <2> QED BY <2>1
<1>3. HelperTyped' /\ RosterOfEndpoint'
  BY <1>2 DEF TakeConfigure, HelperTyped, RosterOfEndpoint, Roster
<1>4. PipesTyped'
  BY <1>2, PipesGrow DEF TakeConfigure, PipesTyped, Status
<1>5. SocketsTyped' /\ OneAttempt' /\ Sockets'
  <2>1. CASE config' \in Endpoint
    BY <2>1, Connected DEF TakeConfigure, Usable, ClearTimer, Up
  <2>2. CASE config' \notin Endpoint
    BY <2>2, Disconnected DEF TakeConfigure, Usable, ClearTimer, Up
  <2> QED BY <2>1, <2>2
<1> QED BY <1>1, <1>3, <1>4, <1>5

LEMMA FiresTimer ==
  ASSUME UiTyped, PipesTyped, HelperTyped, SocketsTyped, CountersTyped, OneAttempt, Sockets,
         RosterOfEndpoint, TimerFires
  PROVE  (UiTyped /\ PipesTyped /\ HelperTyped /\ SocketsTyped /\ CountersTyped
           /\ OneAttempt /\ Sockets /\ RosterOfEndpoint)'
<1>1. UiTyped' /\ CountersTyped'
  BY DEF TimerFires, uiVars, UiTyped, CountersTyped
<1>2. config \in Endpoint
  BY DEF TimerFires, OneAttempt
<1>3. HelperTyped' /\ RosterOfEndpoint'
  BY DEF TimerFires, HelperTyped, RosterOfEndpoint
<1>4. PipesTyped'
  BY <1>2 DEF TimerFires, PipesTyped, Usable
<1>5. SocketsTyped' /\ OneAttempt' /\ Sockets'
  BY <1>2, Connected DEF TimerFires, Usable, Up
<1> QED BY <1>1, <1>3, <1>4, <1>5

LEMMA Accepts ==
  ASSUME UiTyped, PipesTyped, HelperTyped, SocketsTyped, CountersTyped, OneAttempt, Sockets,
         RosterOfEndpoint, NEW c \in Conn, Accepted(c)
  PROVE  (UiTyped /\ PipesTyped /\ HelperTyped /\ SocketsTyped /\ CountersTyped
           /\ OneAttempt /\ Sockets /\ RosterOfEndpoint)'
<1>1. UiTyped' /\ CountersTyped'
  BY DEF Accepted, uiVars, UiTyped, CountersTyped
<1>2. HelperTyped' /\ RosterOfEndpoint'
  BY DEF Accepted, HelperTyped, RosterOfEndpoint
<1>3. PipesTyped'
  BY PipesGrow DEF Accepted, PipesTyped, Status
<1>4. SocketsTyped'
  BY DEF Accepted, SocketsTyped
<1>5. CASE c = current
  <2>1. c \in Live
    BY <1>5 DEF Accepted, Live, Token
  <2>2. ~timer /\ config \in Endpoint /\ connOf[c] = config
    BY <2>1 DEF OneAttempt, Sockets
  <2>3. stream = None
    BY <1>5 DEF Accepted, OneAttempt
  <2>4. /\ conns' = [conns EXCEPT ![c] = "open"] /\ stream' = c
        /\ UNCHANGED <<proc, config, connOf, current, timer>>
    BY <1>5 DEF Accepted, Token
  <2>5. c # None /\ conns'[c] = "open" /\ \A d \in Conn : d # c => conns'[d] = conns[d]
    BY <2>4, Slots DEF SocketsTyped
  <2>6. OneAttempt'
    BY <1>5, <2>2, <2>4, <2>5 DEF OneAttempt
  <2>7. Sockets'
    BY <1>5, <2>2, <2>3, <2>4, <2>5, Slots DEF Sockets, Accepted, Live, Token, Up
  <2> QED BY <2>6, <2>7, <1>1, <1>2, <1>3, <1>4
<1>6. CASE c # current
  <2>1. /\ conns' = [conns EXCEPT ![c] = "drained"]
        /\ UNCHANGED <<proc, config, connOf, current, timer, stream>>
    BY <1>6 DEF Accepted, Token
  <2>2. c # stream
    BY <1>6, Slots DEF Accepted, OneAttempt
  <2>3. \A d \in Conn : d # c => conns'[d] = conns[d]
    BY <2>1 DEF SocketsTyped
  <2>4. conns'[c] = "drained"
    BY <2>1 DEF SocketsTyped
  <2>5. Live' \subseteq Live
    BY <2>1, <2>3, <2>4 DEF Live, Token
  <2>6. OneAttempt'
    BY <2>1, <2>2, <2>3, <2>5, Slots DEF OneAttempt, SocketsTyped
  <2>7. Sockets'
    BY <2>1, <2>3, <2>4, <2>5 DEF Sockets, Up
  <2> QED BY <2>6, <2>7, <1>1, <1>2, <1>3, <1>4
<1> QED BY <1>5, <1>6

LEMMA Ends ==
  ASSUME UiTyped, PipesTyped, HelperTyped, SocketsTyped, CountersTyped, OneAttempt, Sockets,
         RosterOfEndpoint, NEW c \in Conn, Ended(c)
  PROVE  (UiTyped /\ PipesTyped /\ HelperTyped /\ SocketsTyped /\ CountersTyped
           /\ OneAttempt /\ Sockets /\ RosterOfEndpoint)'
<1>1. UiTyped'
  BY DEF Ended, uiVars, UiTyped
<1>2. CountersTyped'
  BY HubAssumption DEF Ended, Fails, CountersTyped
<1>3. HelperTyped'
  BY DEF Ended, HelperTyped
<1>4. PipesTyped'
  BY PipesGrow DEF Ended, PipesTyped, Status
<1>5. RosterOfEndpoint'
  BY DEF Ended, RosterOfEndpoint
<1>6. SocketsTyped'
  BY DEF Ended, SocketsTyped
<1>7. /\ \A d \in Conn : d # c => conns'[d] = conns[d]
      /\ conns'[c] = "free"
      /\ UNCHANGED <<proc, config, connOf, current>>
  BY DEF Ended, SocketsTyped
<1>8. Live' \subseteq Live \ {c}
  BY <1>7 DEF Live, Token
<1>9. CASE c = current
  <2>1. stream' = None /\ (timer' = timer \/ (timer' /\ config \in Endpoint))
    BY <1>9 DEF Ended, Token, Usable
  <2>2. Live' = {}
    BY <1>8, <1>9 DEF Live, Token
  <2>3. OneAttempt'
    BY <1>7, <2>1, <2>2 DEF OneAttempt
  <2>4. \A d \in Conn : conns'[d] # "open"
    BY <1>7, <1>9, Slots DEF Sockets, OneAttempt
  <2>5. Sockets'
    BY <1>7, <2>2, <2>4 DEF Sockets, Up
  <2> QED BY <2>3, <2>5, <1>1, <1>2, <1>3, <1>4, <1>5, <1>6
<1>10. CASE c # current
  <2>1. UNCHANGED <<stream, timer>>
    BY <1>10 DEF Ended, Token
  <2>2. c # stream
    BY <1>10, Slots DEF OneAttempt, None
  <2>3. OneAttempt'
    BY <1>7, <1>8, <2>1, <2>2, Slots DEF OneAttempt, SocketsTyped
  <2>4. Sockets'
    BY <1>7, <1>8, <2>1 DEF Sockets, Up
  <2> QED BY <2>3, <2>4, <1>1, <1>2, <1>3, <1>4, <1>5, <1>6
<1> QED BY <1>9, <1>10

LEMMA Crashes ==
  ASSUME UiTyped, PipesTyped, HelperTyped, SocketsTyped, CountersTyped, Crash
  PROVE  (UiTyped /\ PipesTyped /\ HelperTyped /\ SocketsTyped /\ CountersTyped
           /\ OneAttempt /\ Sockets /\ RosterOfEndpoint)'
<1>1. UiTyped' /\ PipesTyped'
  BY DEF Crash, uiVars, UiTyped, PipesTyped
<1>2. CountersTyped'
  BY HubAssumption DEF Crash, Fails, CountersTyped
<1>3. HelperTyped' /\ RosterOfEndpoint'
  BY DEF Crash, HelperTyped, RosterOfEndpoint, Roster, Setting
<1>4. SocketsTyped'
  BY DEF Crash, SocketsTyped, Roster
<1>5. OneAttempt' /\ Sockets'
  BY Slots DEF Crash, OneAttempt, Sockets, Live, Token, Up
<1> QED BY <1>1, <1>2, <1>3, <1>4, <1>5

LEMMA ReadsChunk ==
  ASSUME UiTyped, PipesTyped, HelperTyped, SocketsTyped, CountersTyped, OneAttempt, Sockets,
         RosterOfEndpoint, NEW read \in Chunks, Chunk(read)
  PROVE  (UiTyped /\ PipesTyped /\ HelperTyped /\ SocketsTyped /\ CountersTyped
           /\ OneAttempt /\ Sockets /\ RosterOfEndpoint)'
<1> DEFINE frames == IF Last(read) = "large" THEN Front(read) ELSE read
<1> DEFINE broken == ToSet(read) \cap {"bad", "large"} # {}
<1> DEFINE lines == [i \in 1..Len(read) |-> IF read[i] = "snapshot"
                                           THEN Line("snapshot", connOf[stream])
                                           ELSE Line("status", "")]
<1>1. /\ Up /\ stream # None /\ UNCHANGED <<uiVars, toHub, proc, config, connOf, current, configs>>
      /\ IF broken THEN Fails ELSE UNCHANGED failures
      /\ conns' = (IF broken THEN Closed ELSE conns)
      /\ stream' = (IF broken THEN None ELSE stream)
      /\ timer' = (timer \/ "bad" \in ToSet(read))
      /\ hubConnected' = (IF frames = <<>> THEN hubConnected ELSE Last(frames) = "snapshot")
      /\ roster' = (IF "snapshot" \in ToSet(read) THEN connOf[stream] ELSE roster)
      /\ toUi' = toUi \o lines
  BY DEF Chunk, RetryAfter, Authorize
<1>2. "bad" \in ToSet(read) => broken
  OBVIOUS
<1> HIDE DEF frames, broken
<1>3. stream \in Conn /\ stream = current /\ conns[stream] = "open"
  BY <1>1 DEF OneAttempt, SocketsTyped
<1>4. stream \in Live
  BY <1>3 DEF Live, Token
<1>5. ~timer /\ config \in Endpoint /\ connOf[stream] = config
  BY <1>3, <1>4 DEF OneAttempt, Sockets
<1>6. UiTyped'
  BY <1>1 DEF uiVars, UiTyped
<1>7. CountersTyped'
  <2>1. configs' = configs /\ (Fails \/ failures' = failures)
    BY <1>1
  <2> QED BY <2>1, HubAssumption DEF Fails, CountersTyped
<1>8. roster' \in Roster /\ RosterOfEndpoint'
  BY <1>1, <1>5 DEF HelperTyped, RosterOfEndpoint, Roster
<1>9. HelperTyped'
  <2>1. hubConnected' \in BOOLEAN
    BY <1>1, Zenon DEF HelperTyped
  <2> QED BY <1>1, <1>8, <2>1 DEF HelperTyped
<1>10. PipesTyped'
  <2>1. Len(read) \in Nat
    BY ReadTyped
  <2>2. Line("status", "") \in Lines /\ Line("snapshot", connOf[stream]) \in Lines
    BY <1>5, PipesGrow
  <2>3. lines \in Seq(Lines)
    <3>1. \A i \in 1..Len(read) : lines[i] \in Lines
      BY <2>2
    <3>2. lines = [i \in 1..Len(read) |-> lines[i]]
      OBVIOUS
    <3> HIDE DEF lines
    <3> QED BY <2>1, <3>1, <3>2
  <2> HIDE DEF lines
  <2>4. toUi \o lines \in Seq(Lines)
    BY <2>3 DEF PipesTyped
  <2> QED BY <1>1, <2>4 DEF PipesTyped
<1>11. CASE broken
  <2>1. conns' = Closed /\ stream' = None /\ timer' \in BOOLEAN
    BY <1>1, <1>11
  <2>2. SocketsTyped' /\ OneAttempt' /\ Sockets'
    BY <1>1, <1>3, <1>5, <2>1, Disconnected DEF Up
  <2> QED BY <2>2, <1>6, <1>7, <1>8, <1>9, <1>10
<1>12. CASE ~broken
  <2>1. conns' = conns /\ stream' = stream /\ ~timer'
    BY <1>1, <1>2, <1>5, <1>12
  <2>2. SocketsTyped' /\ OneAttempt' /\ Sockets'
    BY <1>1, <2>1 DEF SocketsTyped, OneAttempt, Sockets, Live, Token, Up
  <2> QED BY <2>2, <1>6, <1>7, <1>8, <1>9, <1>10
<1> QED BY <1>11, <1>12

LEMMA OverranStep == OverranTyped /\ Next => OverranTyped'
<1> SUFFICES ASSUME OverranTyped, Next PROVE OverranTyped'
  OBVIOUS
<1>1. ASSUME NEW read \in Chunks, Chunk(read) PROVE OverranTyped'
  <2>1. overran' = (overran \/ "large" \in ToSet(read))
    BY <1>1 DEF Chunk
  <2> QED BY <2>1, Zenon DEF OverranTyped
<1>2. ASSUME NEW c \in Conn, Accepted(c) \/ Ended(c) PROVE OverranTyped'
  BY <1>2 DEF Accepted, Ended, OverranTyped
<1>3. CASE TakeConfigure \/ TimerFires \/ Crash
  BY <1>3 DEF TakeConfigure, TimerFires, Crash, OverranTyped
<1>4. CASE WindowStep
  BY <1>4, WindowSteps DEF OverranTyped
<1> QED BY <1>1, <1>2, <1>3, <1>4, NextSplit DEF HelperStep

-----------------------------------------------------------------------------
LEMMA InitInvariant == Init => IInv
<1> SUFFICES ASSUME Init PROVE IInv
  OBVIOUS
<1>1. TypeOK
  <2>1. UiTyped
    BY DEF Init, UiTyped, Roster
  <2>4. PipesTyped
    BY DEF Init, PipesTyped
  <2>2. HelperTyped /\ SocketsTyped
    BY DEF Init, HelperTyped, SocketsTyped, Roster, Setting
  <2>3. CountersTyped
    BY HubAssumption DEF Init, CountersTyped
  <2>5. OverranTyped
    BY DEF Init, OverranTyped
  <2> QED BY <2>1, <2>2, <2>3, <2>4, <2>5, TypeParts
<1>2. OneAttempt /\ Sockets /\ RosterOfEndpoint
  BY Words, Slots DEF Init, OneAttempt, Sockets, RosterOfEndpoint, Live, Up
<1> QED BY <1>1, <1>2 DEF IInv

LEMMA StepInvariant == IInv /\ [Next]_vars => IInv'
<1> SUFFICES ASSUME IInv, [Next]_vars PROVE IInv'
  OBVIOUS
<1>1. /\ UiTyped /\ PipesTyped /\ HelperTyped /\ SocketsTyped /\ CountersTyped
      /\ OneAttempt /\ Sockets /\ RosterOfEndpoint /\ OverranTyped
  BY TypeParts DEF IInv
<1>2. (UiTyped /\ PipesTyped /\ HelperTyped /\ SocketsTyped /\ CountersTyped
         /\ OneAttempt /\ Sockets /\ RosterOfEndpoint)'
  <2>1. CASE HelperStep
    BY <1>1, <2>1, TakesConfigure, FiresTimer, Accepts, Ends, ReadsChunk, Crashes DEF HelperStep
  <2>2. CASE WindowStep
    <3>1. UiTyped' /\ CountersTyped' /\ PipesTyped'
      BY <1>1, <2>2, WindowUi, WindowPipes
    <3>2. HelperTyped' /\ SocketsTyped' /\ RosterOfEndpoint'
      BY <1>1, <2>2, WindowSteps DEF HelperTyped, SocketsTyped, RosterOfEndpoint
    <3>3. OneAttempt' /\ Sockets'
      BY <1>1, <2>2, WindowSteps DEF OneAttempt, Sockets, Live, Token
    <3> QED BY <3>1, <3>2, <3>3
  <2>3. CASE UNCHANGED vars
    <3>1. UiTyped' /\ CountersTyped' /\ PipesTyped'
      BY <1>1, <2>3 DEF vars, uiVars, UiTyped, CountersTyped, PipesTyped
    <3>2. HelperTyped' /\ SocketsTyped' /\ RosterOfEndpoint'
      BY <1>1, <2>3 DEF vars, hubVars, netVars, HelperTyped, SocketsTyped, RosterOfEndpoint
    <3>3. OneAttempt' /\ Sockets'
      BY <1>1, <2>3 DEF vars, hubVars, netVars, OneAttempt, Sockets, Live, Token, Up
    <3> QED BY <3>1, <3>2, <3>3
  <2> QED BY <2>1, <2>2, <2>3, NextSplit
<1>3. OverranTyped'
  BY <1>1, OverranStep DEF vars, hubVars, netVars, OverranTyped
<1>4. TypeOK'
  BY <1>2, <1>3 DEF TypeOK, UiTyped, PipesTyped, HelperTyped, SocketsTyped, CountersTyped, OverranTyped
<1> QED BY <1>2, <1>4 DEF IInv

LEMMA Invariant == Spec => []IInv
<1> QED BY InitInvariant, StepInvariant, PTL DEF Spec

\* Every variable keeps its type.
THEOREM TypeCorrect == Spec => []TypeOK
<1>1. IInv => TypeOK
  BY DEF IInv
<1> QED BY <1>1, Invariant, PTL

\* The agents an activation may use are those of the configured endpoint: no
\* late response of another hub gets in.
THEOREM RosterIsCurrent == Spec => []RosterOfEndpoint
<1>1. IInv => RosterOfEndpoint
  BY DEF IInv
<1> QED BY <1>1, Invariant, PTL

\* Reconnects and connections never run side by side.
THEOREM OneConnection == Spec => []OneAttempt
<1>1. IInv => OneAttempt
  BY DEF IInv
<1> QED BY <1>1, Invariant, PTL

\* A step leaves no endpoint without a connection, or a timer for one, but by
\* a frame that is too large.
LEMMA PersistStep ==
  ASSUME IInv, NeverGivesUp, Next PROVE NeverGivesUp'
<1>1. /\ UiTyped /\ PipesTyped /\ HelperTyped /\ SocketsTyped /\ CountersTyped
      /\ OneAttempt /\ Sockets /\ RosterOfEndpoint
  BY TypeParts DEF IInv
<1>2. ASSUME NEW s \in Endpoint, Connect(s, Closed) PROVE Live' # {}
  <2>1. PICK c \in Conn : conns' = [Closed EXCEPT ![c] = "handshake"] /\ current' = c
    BY <1>2 DEF Connect
  <2>2. conns'[c] = "handshake"
    BY <1>1, <2>1, ClosedTyped
  <2> QED BY <2>1, <2>2 DEF Live, Token
<1>3. CASE TakeConfigure
  BY <1>2, <1>3 DEF TakeConfigure, Usable, NeverGivesUp
<1>4. CASE TimerFires
  BY <1>2, <1>4 DEF TimerFires, Usable, NeverGivesUp
<1>5. ASSUME NEW c \in Conn, Accepted(c) PROVE NeverGivesUp'
  <2>1. \A d \in Conn : d \in Live => d \in Live'
    BY <1>1, <1>5 DEF Accepted, Live, Token, SocketsTyped
  <2> QED BY <1>5, <2>1 DEF Accepted, NeverGivesUp, Live, Up
<1>6. ASSUME NEW c \in Conn, Ended(c) PROVE NeverGivesUp'
  <2>1. CASE c = current
    BY <1>6, <2>1 DEF Ended, Token, Usable, NeverGivesUp
  <2>2. CASE c # current
    <3>1. \A d \in Conn : d \in Live => d \in Live'
      BY <1>1, <1>6, <2>2 DEF Ended, Live, Token, SocketsTyped
    <3> QED BY <1>6, <2>2, <3>1 DEF Ended, Token, NeverGivesUp, Live, Up
  <2> QED BY <2>1, <2>2
<1>7. ASSUME NEW read \in Chunks, Chunk(read) PROVE NeverGivesUp'
  <2>1. CASE "bad" \in ToSet(read)
    BY <1>7, <2>1 DEF Chunk, RetryAfter, NeverGivesUp
  <2>2. CASE "bad" \notin ToSet(read)
    <3>1. CASE "large" \in ToSet(read)
      BY <1>7, <3>1 DEF Chunk, NeverGivesUp
    <3>2. CASE "large" \notin ToSet(read)
      <4>1. /\ UNCHANGED <<proc, config, conns, current, stream>>
            /\ timer' = (timer \/ FALSE) /\ overran' = (overran \/ FALSE)
        BY <1>7, <2>2, <3>2 DEF Chunk, RetryAfter
      <4> QED BY <4>1 DEF NeverGivesUp, Live, Token, Up
    <3> QED BY <3>1, <3>2
  <2> QED BY <2>1, <2>2
<1>8. CASE Crash
  BY <1>8 DEF Crash, NeverGivesUp, Up
<1>9. CASE WindowStep
  <2>1. ~Up => config' \notin Endpoint
    BY <1>1, <1>9, WindowSteps, Words DEF Sockets
  <2> QED BY <1>9, <2>1, WindowSteps DEF NeverGivesUp, Live, Token
<1> QED BY <1>3, <1>4, <1>5, <1>6, <1>7, <1>8, <1>9, NextSplit DEF HelperStep

\* The helper does not give up on an endpoint while it is configured, unless
\* a frame was too large.
THEOREM Persists == Spec => []NeverGivesUp
<1>1. Init => NeverGivesUp
  BY Words DEF Init, NeverGivesUp
<1>2. IInv /\ NeverGivesUp /\ [Next]_vars => NeverGivesUp'
  <2> SUFFICES ASSUME IInv, NeverGivesUp, [Next]_vars PROVE NeverGivesUp'
    OBVIOUS
  <2>1. CASE Next
    BY <2>1, PersistStep
  <2>2. CASE UNCHANGED vars
    BY <2>2 DEF vars, hubVars, netVars, NeverGivesUp, Live, Token, Up
  <2> QED BY <2>1, <2>2
<1> QED BY <1>1, <1>2, Invariant, PTL DEF Spec

\* Exactly one connection or reconnect is on its way to the configured hub.
THEOREM OneWayAlways == Spec => []OneWay
<1>1. OneAttempt /\ NeverGivesUp => OneWay
  BY DEF OneWay
<1> QED BY <1>1, OneConnection, Persists, PTL
-----------------------------------------------------------------------------
(* The window follows the helper.                                           *)

\* The last setting sent is the one of the window, and once it has been taken
\* the helper has it.
Told ==
  Up => /\ toHub # <<>> => Last(toHub) = endpoint
        /\ toHub = <<>> /\ ~configureLater => config = endpoint

\* The last line sent, or what the window shows once all were read, says of the
\* helper only what is true.
Shown ==
  Up => IF toUi = <<>>
        THEN (uiConnected => hubConnected) /\ (uiReachable => uiRoster = config)
        ELSE Last(toUi).type = "snapshot" => hubConnected /\ Last(toUi).from = config

\* A window whose helper is gone shows no connection, and only a connection
\* makes agents reachable.
Cleared ==
  /\ proc = "gone" => toHub = <<>> /\ toUi = <<>> /\ ~uiConnected
  /\ uiReachable => uiConnected

\* Only a stale request is left to drain.
Undrained == current # None => conns[current] # "drained"

FInv == IInv /\ Told /\ Shown /\ Cleared /\ Undrained

\* The last element of a sequence that grows, shrinks or is continued.
LEMMA LastGrown ==
  ASSUME NEW S, NEW q \in Seq(S), NEW e \in S
  PROVE  Append(q, e) # <<>> /\ Last(Append(q, e)) = e
BY DEF Last

LEMMA NothingIn ==
  ASSUME NEW S, NEW t \in Seq(S)
  PROVE  t = <<>> <=> Len(t) = 0
OBVIOUS

LEMMA LastLeft ==
  ASSUME NEW S, NEW q \in Seq(S), q # <<>>
  PROVE  /\ Tail(q) = <<>> => Last(q) = Head(q)
         /\ Tail(q) # <<>> => Last(Tail(q)) = Last(q)
<1>1. Len(q) \in Nat /\ Len(q) > 0 /\ Tail(q) \in Seq(S) /\ Len(Tail(q)) = Len(q) - 1
  OBVIOUS
<1>2. Tail(q) = <<>> <=> Len(Tail(q)) = 0
  <2> DEFINE t == Tail(q)
  <2>1. t \in Seq(S)
    OBVIOUS
  <2> HIDE DEF t
  <2>2. t = <<>> <=> Len(t) = 0
    BY <2>1, NothingIn
  <2> QED BY <2>2 DEF t
<1>3. CASE Len(q) = 1
  <2>1. Tail(q) = <<>>
    BY <1>1, <1>3, <1>2
  <2> QED BY <1>3, <2>1 DEF Last
<1>4. CASE Len(q) > 1
  <2>1. Tail(q) # <<>>
    BY <1>1, <1>4, <1>2
  <2>2. Tail(q)[Len(q) - 1] = q[Len(q)]
    BY <1>1, <1>4
  <2> QED BY <1>1, <2>1, <2>2 DEF Last
<1> QED BY <1>1, <1>3, <1>4

LEMMA LastJoined ==
  ASSUME NEW S, NEW q \in Seq(S), NEW r \in Seq(S), r # <<>>
  PROVE  q \o r # <<>> /\ Last(q \o r) = r[Len(r)]
<1>1. Len(r) \in Nat /\ Len(r) > 0 /\ Len(q) \in Nat /\ Len(q \o r) = Len(q) + Len(r)
  OBVIOUS
<1>2. (q \o r)[Len(q) + Len(r)] = r[Len(r)]
  BY <1>1
<1> QED BY <1>1, <1>2 DEF Last

\* A status line comes last, and is no snapshot.
LEMMA LastStatus ==
  ASSUME PipesTyped, NEW w \in {"", "disabled"}
  PROVE  /\ Append(toUi, Line("status", w)) # <<>>
         /\ Last(Append(toUi, Line("status", w))).type # "snapshot"
<1>1. Line("status", w) \in Lines /\ Line("status", w).type # "snapshot"
  BY DEF Line, Lines
<1>2. toUi \in Seq(Lines)
  BY DEF PipesTyped
<1> QED BY <1>1, <1>2, LastGrown

LEMMA ToldStep ==
  ASSUME UiTyped, PipesTyped, Told, Cleared, Next
  PROVE  Told'
<1>1. ASSUME NEW s \in Setting, Configure(s) PROVE Told'
  <2>1. endpoint' = s /\ proc' = proc
    BY <1>1 DEF Configure, hubVars
  <2>2. proc = "gone" \/ toHub' = Append(toHub, s)
    BY <1>1 DEF Configure
  <2>3. Append(toHub, s) # <<>> /\ Last(Append(toHub, s)) = s
    BY LastGrown DEF PipesTyped
  <2> QED BY <2>1, <2>2, <2>3 DEF Told, Up
<1>2. CASE LateConfigure
  <2>1. endpoint' = endpoint /\ proc' = proc
    BY <1>2 DEF LateConfigure, hubVars
  <2>2. proc = "gone" \/ toHub' = Append(toHub, endpoint)
    BY <1>2 DEF LateConfigure
  <2>3. Append(toHub, endpoint) # <<>> /\ Last(Append(toHub, endpoint)) = endpoint
    BY LastGrown DEF PipesTyped, UiTyped
  <2> QED BY <2>1, <2>2, <2>3 DEF Told, Up
<1>3. CASE ReadLine
  BY <1>3 DEF ReadLine, hubVars, Told, Up
<1>4. CASE SeeExit
  BY <1>4 DEF SeeExit, Told, Up
<1>5. CASE RestartHelper
  BY <1>5 DEF RestartHelper, TellLater, Cleared, Told
<1>6. CASE TakeConfigure
  <2>1. /\ Up /\ toHub # <<>> /\ toHub' = Tail(toHub) /\ config' = Head(toHub)
        /\ endpoint' = endpoint
    BY <1>6 DEF TakeConfigure, uiVars
  <2>2. Last(toHub) = endpoint
    BY <2>1 DEF Told
  <2>3. /\ Tail(toHub) = <<>> => Last(toHub) = Head(toHub)
        /\ Tail(toHub) # <<>> => Last(Tail(toHub)) = Last(toHub)
    BY <2>1, LastLeft DEF PipesTyped
  <2> QED BY <2>1, <2>2, <2>3 DEF Told
<1>7. CASE TimerFires
  BY <1>7 DEF TimerFires, uiVars, Told, Up
<1>8. ASSUME NEW c \in Conn, Accepted(c) \/ Ended(c) PROVE Told'
  BY <1>8 DEF Accepted, Ended, uiVars, Told, Up
<1>9. ASSUME NEW read \in Chunks, Chunk(read) PROVE Told'
  <2>1. UNCHANGED <<uiVars, toHub, proc, config>>
    BY <1>9 DEF Chunk
  <2> QED BY <2>1 DEF uiVars, Told, Up
<1>10. CASE Crash
  BY <1>10 DEF Crash, Told, Up
<1> QED BY <1>1, <1>2, <1>3, <1>4, <1>5, <1>6, <1>7, <1>8, <1>9, <1>10
        DEF Next

\* The current request, if it is on the way, is not stale and is to a hub.
LEMMA CurrentLives ==
  ASSUME SocketsTyped, Sockets, Undrained, current # None, conns[current] # "free"
  PROVE  config \in Endpoint
<1>1. current \in Conn /\ conns[current] \in {"handshake", "open"}
  BY DEF SocketsTyped, Undrained
<1> QED BY <1>1 DEF Sockets, Live, Token

\* The last line of a read is a snapshot only if the hub counts as connected
\* after it.
LEMMA LastOfChunk ==
  ASSUME PipesTyped, SocketsTyped, OneAttempt, Sockets, NEW read \in Chunks, Chunk(read)
  PROVE  /\ toUi' # <<>>
         /\ Last(toUi').type = "snapshot" => hubConnected' /\ Last(toUi').from = config
<1> DEFINE lines == [i \in 1..Len(read) |-> IF read[i] = "snapshot"
                                           THEN Line("snapshot", connOf[stream])
                                           ELSE Line("status", "")]
<1>1. /\ stream # None
      /\ Authorize(IF Last(read) = "large" THEN Front(read) ELSE read)
      /\ toUi' = toUi \o lines
  BY DEF Chunk
<1>2. stream \in Live
  BY <1>1 DEF OneAttempt, SocketsTyped, Live, Token
<1>3. config \in Endpoint /\ connOf[stream] = config
  BY <1>2 DEF Sockets, Live
<1>4. Len(read) \in Nat /\ Len(read) > 0 /\ read \in Seq(Frame)
  BY ReadTyped
<1>5. Line("status", "") \in Lines /\ Line("snapshot", connOf[stream]) \in Lines
  BY <1>3, PipesGrow
<1>6. lines \in Seq(Lines) /\ Len(lines) = Len(read) /\ lines # <<>>
  <2>1. \A i \in 1..Len(read) : lines[i] \in Lines
    BY <1>5
  <2>2. lines = [i \in 1..Len(read) |-> lines[i]]
    OBVIOUS
  <2> HIDE DEF lines
  <2> QED BY <1>4, <2>1, <2>2
<1>7. lines[Len(read)] = IF read[Len(read)] = "snapshot"
                         THEN Line("snapshot", connOf[stream]) ELSE Line("status", "")
  <2>1. Len(read) \in 1..Len(read)
    BY <1>4
  <2> QED BY <2>1, Zenon
<1> HIDE DEF lines
<1>8. toUi' # <<>> /\ Last(toUi') = lines[Len(read)]
  BY <1>1, <1>6, LastJoined DEF PipesTyped
<1>9. CASE read[Len(read)] = "snapshot"
  <2>1. Last(read) = "snapshot" /\ read # <<>>
    BY <1>4, <1>9 DEF Last
  <2>2. hubConnected'
    BY <1>1, <2>1 DEF Authorize
  <2>3. Last(toUi').from = connOf[stream]
    BY <1>7, <1>8, <1>9 DEF Line
  <2> QED BY <1>3, <1>8, <2>2, <2>3
<1>10. CASE read[Len(read)] # "snapshot"
  <2>1. Last(toUi') = Line("status", "")
    BY <1>7, <1>8, <1>10
  <2>2. Line("status", "").type # "snapshot"
    BY DEF Line
  <2> QED BY <1>8, <2>1, <2>2
<1> QED BY <1>9, <1>10

LEMMA ShownStep ==
  ASSUME UiTyped, PipesTyped, SocketsTyped, OneAttempt, Sockets,
         Shown, Cleared, Undrained, Next
  PROVE  Shown'
<1>1. ASSUME NEW s \in Setting, Configure(s) PROVE Shown'
  BY <1>1 DEF Configure, hubVars, Shown, Up
<1>2. CASE LateConfigure
  BY <1>2 DEF LateConfigure, hubVars, Shown, Up
<1>3. CASE ReadLine
  <2>1. /\ toUi # <<>> /\ toUi' = Tail(toUi)
        /\ UNCHANGED <<proc, config, hubConnected>>
    BY <1>3 DEF ReadLine, hubVars
  <2>2. /\ Tail(toUi) = <<>> => Last(toUi) = Head(toUi)
        /\ Tail(toUi) # <<>> => Last(Tail(toUi)) = Last(toUi)
    BY <2>1, LastLeft DEF PipesTyped
  <2>3. Up => (Last(toUi).type = "snapshot" => hubConnected /\ Last(toUi).from = config)
    BY <2>1 DEF Shown
  <2>4. CASE Tail(toUi) = <<>>
    <3>1. CASE Head(toUi).type = "snapshot"
      <4>1. uiRoster' = Head(toUi).from
        BY <1>3, <3>1 DEF ReadLine
      <4> QED BY <2>1, <2>2, <2>3, <2>4, <3>1, <4>1 DEF Shown, Up
    <3>2. CASE Head(toUi).type # "snapshot"
      <4>1. ~uiConnected' /\ ~uiReachable'
        BY <1>3, <3>2 DEF ReadLine
      <4> QED BY <2>1, <2>4, <4>1 DEF Shown
    <3> QED BY <3>1, <3>2
  <2>5. CASE Tail(toUi) # <<>>
    BY <2>1, <2>2, <2>3, <2>5 DEF Shown, Up
  <2> QED BY <2>4, <2>5
<1>4. CASE SeeExit
  BY <1>4 DEF SeeExit, Shown, Up
<1>5. CASE RestartHelper
  BY <1>5 DEF RestartHelper, Cleared, Shown
<1>6. CASE TakeConfigure
  <2>1. \E w \in {"", "disabled"} : toUi' = Append(toUi, Line("status", w))
    BY <1>6 DEF TakeConfigure, Status
  <2> QED BY <2>1, LastStatus DEF Shown
<1>7. CASE TimerFires
  <2>1. config \in Endpoint
    BY <1>7 DEF TimerFires, OneAttempt
  <2>2. UNCHANGED <<uiVars, toUi, proc, config, hubConnected>>
    BY <1>7, <2>1 DEF TimerFires, Usable
  <2> QED BY <2>2 DEF uiVars, Shown, Up
<1>8. ASSUME NEW c \in Conn, Accepted(c) PROVE Shown'
  <2>1. CASE Token(c)
    <3>1. toUi' = Append(toUi, Line("status", ""))
      BY <1>8, <2>1 DEF Accepted, Status
    <3> QED BY <3>1, LastStatus DEF Shown
  <2>2. CASE ~Token(c)
    BY <1>8, <2>2 DEF Accepted, uiVars, Shown, Up
  <2> QED BY <2>1, <2>2
<1>9. ASSUME NEW c \in Conn, Ended(c) PROVE Shown'
  <2>1. CASE Token(c)
    <3>1. current # None /\ conns[current] # "free"
      BY <1>9, <2>1, Slots DEF Ended, Token
    <3>2. config \in Endpoint
      BY <3>1, CurrentLives
    <3>3. toUi' = Append(toUi, Line("status", ""))
      BY <1>9, <2>1, <3>2 DEF Ended, Usable, Status
    <3> QED BY <3>3, LastStatus DEF Shown
  <2>2. CASE ~Token(c)
    BY <1>9, <2>2 DEF Ended, uiVars, Shown, Up
  <2> QED BY <2>1, <2>2
<1>10. ASSUME NEW read \in Chunks, Chunk(read) PROVE Shown'
  <2>1. config' = config
    BY <1>10 DEF Chunk
  <2>2. /\ toUi' # <<>>
        /\ Last(toUi').type = "snapshot" => hubConnected' /\ Last(toUi').from = config
    BY <1>10, LastOfChunk
  <2> QED BY <2>1, <2>2 DEF Shown
<1>11. CASE Crash
  BY <1>11 DEF Crash, Shown, Up
<1> QED BY <1>1, <1>2, <1>3, <1>4, <1>5, <1>6, <1>7, <1>8, <1>9, <1>10, <1>11
        DEF Next

LEMMA ClearedStep ==
  ASSUME Cleared, Next
  PROVE  Cleared'
<1>1. ASSUME NEW s \in Setting, Configure(s) PROVE Cleared'
  BY <1>1 DEF Configure, hubVars, Cleared
<1>2. CASE LateConfigure
  BY <1>2 DEF LateConfigure, hubVars, Cleared
<1>3. CASE ReadLine
  BY <1>3 DEF ReadLine, hubVars, Cleared
<1>4. CASE SeeExit
  BY <1>4 DEF SeeExit, Cleared
<1>5. CASE RestartHelper
  BY <1>5 DEF RestartHelper, Cleared
<1>6. CASE HelperStep
  <2>1. proc' # "gone" /\ UNCHANGED uiVars
    <3>1. ASSUME NEW read \in Chunks, Chunk(read) PROVE proc' # "gone" /\ UNCHANGED uiVars
      BY <3>1 DEF Chunk, Up
    <3>2. ASSUME NEW c \in Conn, Accepted(c) \/ Ended(c) PROVE proc' # "gone" /\ UNCHANGED uiVars
      BY <3>2 DEF Accepted, Ended, Up
    <3>3. TakeConfigure \/ TimerFires \/ Crash => proc' # "gone" /\ UNCHANGED uiVars
      BY DEF TakeConfigure, TimerFires, Crash, Up
    <3> QED BY <1>6, <3>1, <3>2, <3>3 DEF HelperStep
  <2> QED BY <2>1 DEF uiVars, Cleared
<1> QED BY <1>1, <1>2, <1>3, <1>4, <1>5, <1>6, NextSplit DEF WindowStep

LEMMA UndrainedStep ==
  ASSUME SocketsTyped, OneAttempt, Sockets, Undrained, Next
  PROVE  Undrained'
<1>1. ASSUME NEW s \in Endpoint, Connect(s, Closed) PROVE Undrained'
  <2>1. PICK c \in Conn : conns' = [Closed EXCEPT ![c] = "handshake"] /\ current' = c
    BY <1>1 DEF Connect
  <2>2. conns'[c] = "handshake"
    BY <2>1, ClosedTyped
  <2> QED BY <2>1, <2>2 DEF Undrained
<1>2. CASE TakeConfigure
  BY <1>1, <1>2 DEF TakeConfigure, Usable, Undrained
<1>3. CASE TimerFires
  BY <1>1, <1>3 DEF TimerFires, OneAttempt, Usable
<1>4. ASSUME NEW c \in Conn, Accepted(c) PROVE Undrained'
  <2>1. CASE c = current
    BY <1>4, <2>1 DEF Accepted, Token, SocketsTyped, Undrained
  <2>2. CASE c # current
    BY <1>4, <2>2 DEF Accepted, Token, SocketsTyped, Undrained
  <2> QED BY <2>1, <2>2
<1>5. ASSUME NEW c \in Conn, Ended(c) PROVE Undrained'
  BY <1>5 DEF Ended, SocketsTyped, Undrained
<1>6. ASSUME NEW read \in Chunks, Chunk(read) PROVE Undrained'
  <2>1. current' = current /\ (conns' = Closed \/ conns' = conns)
    BY <1>6 DEF Chunk
  <2>2. current # None => (Closed[current] # "drained")
    BY ClosedTyped DEF SocketsTyped, Undrained
  <2> QED BY <2>1, <2>2 DEF Undrained
<1>7. CASE Crash
  BY <1>7 DEF Crash, Undrained
<1>8. CASE WindowStep
  BY <1>8, WindowSteps DEF Undrained
<1> QED BY <1>2, <1>3, <1>4, <1>5, <1>6, <1>7, <1>8, NextSplit DEF HelperStep

LEMMA FollowInit == Init => Told /\ Shown /\ Cleared /\ Undrained
BY DEF Init, Told, Shown, Cleared, Undrained

LEMMA FollowStep == FInv /\ [Next]_vars => FInv'
<1> SUFFICES ASSUME FInv, [Next]_vars PROVE FInv'
  OBVIOUS
<1>1. IInv'
  BY StepInvariant DEF FInv
<1>2. UiTyped /\ PipesTyped /\ SocketsTyped /\ OneAttempt /\ Sockets
  BY TypeParts DEF FInv, IInv
<1>3. CASE Next
  BY <1>1, <1>2, <1>3, ToldStep, ShownStep, ClearedStep, UndrainedStep DEF FInv
<1>4. CASE UNCHANGED vars
  <2>1. Told' /\ Shown' /\ Cleared' /\ Undrained'
    BY <1>4 DEF FInv, vars, uiVars, hubVars, netVars, Told, Shown, Cleared, Undrained, Up
  <2> QED BY <1>1, <2>1 DEF FInv
<1> QED BY <1>3, <1>4

\* Once everything sent between window and helper has been read, the two agree
\* on the endpoint, and the window claims no connection and no reachable agent
\* that the helper does not have: after every order of changes, late answers,
\* crashes and restarts.
THEOREM Follows == Spec => []WindowFollows
<1>1. Init => FInv
  BY InitInvariant, FollowInit DEF FInv
<1>2. FInv => WindowFollows
  BY DEF FInv, Told, Shown, Cleared, WindowFollows, Quiet
<1> QED BY <1>1, <1>2, FollowStep, PTL DEF Spec
=============================================================================
