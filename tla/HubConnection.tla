--------------------------- MODULE HubConnection ---------------------------
(***************************************************************************)
(* The subscription to the Agentd Hub: AgentdHub.qml in the window, the    *)
(* helper process bridge/agentd-hub.js it keeps running, the two pipes     *)
(* between them, and the HTTP connections of the helper to the hub.        *)
(*                                                                         *)
(* A roster is the endpoint it came from. The generation counter of the    *)
(* helper is the slot of the one connection whose token is current, or     *)
(* none. Of frames and lines what matters is whether they are valid and    *)
(* fit. The length of the reconnect delays is left out.                    *)
(***************************************************************************)
EXTENDS Integers, Sequences, FiniteSets, SequencesExt

CONSTANTS
  Endpoint,     \* addresses that name a hub
  MaxConns,     \* sockets of the helper at once       (these four bound the model)
  MaxConfigs,   \* changes of the settings
  MaxFailures,  \* failures of the network, the hub and the helper
  MaxLines,     \* lines in the pipe to the window
  MaxChunk      \* frames that may arrive in one read

Setting == Endpoint \cup {"disabled", "invalid"}
Conn == 1..MaxConns
None == 0

ASSUME HubAssumption ==
  /\ MaxConns \in Nat \ {0} /\ MaxConfigs \in Nat /\ MaxFailures \in Nat
  /\ MaxLines \in Nat /\ MaxChunk \in Nat \ {0}
  /\ Endpoint \cap {"disabled", "invalid", "nowhere"} = {}

Roster == Endpoint \cup {"nowhere"}      \* "nowhere": an empty roster
Frame == {"snapshot", "bad", "large"}    \* "large": over 4 MiB
Line(type, from) == [type |-> type, from |-> from]
Lines == [type : {"snapshot"}, from : Endpoint]
           \cup [type : {"status"}, from : {"", "disabled"}]

VARIABLES
  (* the window *)
  endpoint, configureLater, uiRoster, uiReachable, uiConnected,
  (* the pipes *)
  toHub, toUi,
  (* the helper *)
  proc, config, conns, connOf, current, stream, timer, hubConnected, roster,
  overran,    \* a frame that was too large ended the stream, and nothing has begun since
  (* counters of the bounds *)
  configs, failures

uiVars == <<endpoint, configureLater, uiRoster, uiReachable, uiConnected>>
netVars == <<conns, connOf, current, stream, timer, overran>>
hubVars == <<proc, config, netVars, hubConnected, roster>>
vars == <<uiVars, toHub, toUi, hubVars, configs, failures>>

Up == proc = "up"
Fails == failures < MaxFailures /\ failures' = failures + 1
-----------------------------------------------------------------------------
Init ==
  /\ endpoint \in Setting /\ configureLater = TRUE
  /\ uiRoster = "nowhere" /\ uiReachable = FALSE /\ uiConnected = FALSE
  /\ toHub = <<>> /\ toUi = <<>>
  /\ proc = "up" /\ config = "disabled"
  /\ conns = [c \in Conn |-> "free"] /\ connOf = [c \in Conn |-> "nowhere"]
  /\ current = None /\ stream = None /\ timer = FALSE /\ overran = FALSE
  /\ hubConnected = FALSE /\ roster = "nowhere"
  /\ configs = 0 /\ failures = 0
-----------------------------------------------------------------------------
(* The window.                                                              *)

\* configure() after a change of host, port or transport: a new endpoint
\* clears the roster; a helper that does not run is not told.
Configure(s) ==
  /\ configs < MaxConfigs /\ configs' = configs + 1
  /\ endpoint' = s
  /\ IF s # endpoint THEN uiRoster' = "nowhere" /\ uiReachable' = FALSE
     ELSE UNCHANGED <<uiRoster, uiReachable>>
  /\ toHub' = IF proc = "gone" THEN toHub ELSE Append(toHub, s)
  /\ UNCHANGED <<configureLater, uiConnected, toUi, hubVars, failures>>

\* configure() at startup and once a helper runs (Qt.callLater).
LateConfigure ==
  /\ configureLater /\ configureLater' = FALSE
  /\ toHub' = IF proc = "gone" THEN toHub ELSE Append(toHub, endpoint)
  /\ UNCHANGED <<endpoint, uiRoster, uiReachable, uiConnected, toUi, hubVars, configs, failures>>

\* A line of the helper: status lines are all of a lost connection.
ReadLine ==
  /\ toUi # <<>> /\ toUi' = Tail(toUi)
  /\ LET line == Head(toUi) IN
     IF line.type = "snapshot"
     THEN uiRoster' = line.from /\ uiReachable' = TRUE /\ uiConnected' = TRUE
     ELSE /\ uiConnected' = FALSE /\ uiReachable' = FALSE
          /\ uiRoster' = IF line.from = "disabled" THEN "nowhere" ELSE uiRoster
  /\ UNCHANGED <<endpoint, configureLater, toHub, hubVars, configs, failures>>

\* The helper's exit is seen after the lines it left.
SeeExit ==
  /\ proc = "dead" /\ toUi = <<>> /\ proc' = "gone"
  /\ uiConnected' = FALSE /\ uiReachable' = FALSE
  /\ toHub' = <<>>
  /\ UNCHANGED <<endpoint, configureLater, uiRoster, toUi, config, netVars, hubConnected, roster,
                 configs, failures>>

\* Mutant: a helper that is started again is not configured.
TellNothing == UNCHANGED configureLater

TellLater == configureLater' = TRUE

\* restartTimer
RestartHelper ==
  /\ proc = "gone" /\ proc' = "up" /\ TellLater
  /\ UNCHANGED <<endpoint, uiRoster, uiReachable, uiConnected, toHub, toUi, config, netVars,
                 hubConnected, roster, configs, failures>>
-----------------------------------------------------------------------------
(* The helper: one action per event of its loop.                            *)

Status == Append(toUi, Line("status", ""))
Free == {c \in Conn : conns[c] = "free"}

\* connect() with the address in s: at most one stream, and a new token.
Connect(s, others) ==
  \E c \in Conn :
    /\ others[c] = "free"
    /\ conns' = [others EXCEPT ![c] = "handshake"]
    /\ connOf' = [connOf EXCEPT ![c] = s]
    /\ current' = c

\* closeStream: what destroy() cuts off raises no event any more.
Closed == IF stream = None THEN conns ELSE [conns EXCEPT ![stream] = "free"]

\* endpoint()
Usable(s) == s \in Endpoint

\* Mutant: a pending reconnect outlives the configuration it is for.
KeepTimer == UNCHANGED timer

ClearTimer == timer' = FALSE

\* configure(): the pending request of the last endpoint goes on, but its
\* token is stale.
TakeConfigure ==
  /\ Up /\ toHub # <<>> /\ toHub' = Tail(toHub)
  /\ config' = Head(toHub)
  /\ stream' = None /\ overran' = FALSE /\ ClearTimer /\ hubConnected' = FALSE /\ roster' = "nowhere"
  /\ IF Usable(config')
     THEN Connect(config', Closed) /\ toUi' = Status
     ELSE /\ conns' = Closed /\ current' = None
          /\ toUi' = Append(toUi, Line("status", IF config' = "disabled" THEN "disabled" ELSE ""))
          /\ UNCHANGED connOf
  /\ UNCHANGED <<uiVars, proc, configs, failures>>

\* The reconnect timer fires.
TimerFires ==
  /\ Up /\ timer /\ timer' = FALSE
  /\ stream' = None /\ overran' = FALSE
  /\ IF Usable(config) THEN Connect(config, Closed) /\ UNCHANGED toUi
     ELSE conns' = Closed /\ toUi' = Status /\ UNCHANGED <<connOf, current>>
  /\ UNCHANGED <<uiVars, toHub, proc, config, hubConnected, roster, configs, failures>>

\* Mutant: a stale response or error counts.
AnyToken(c) == TRUE

\* token === generation
Token(c) == c = current

\* The hub accepts a request: a stale one is left to drain unread.
Accepted(c) ==
  /\ Up /\ conns[c] = "handshake" /\ Len(toUi) < MaxLines
  /\ IF Token(c)
     THEN /\ conns' = [conns EXCEPT ![c] = "open"] /\ stream' = c
          /\ toUi' = Status
     ELSE /\ conns' = [conns EXCEPT ![c] = "drained"] /\ UNCHANGED <<stream, toUi>>
  /\ UNCHANGED <<uiVars, toHub, proc, config, connOf, current, timer, overran, hubConnected, roster,
                 configs, failures>>

\* streamEnded: a stream that fails, a request that errs, times out or is
\* refused. The timer is set once, whoever asks.
Ended(c) ==
  /\ Up /\ conns[c] # "free" /\ Fails
  /\ conns' = [conns EXCEPT ![c] = "free"]
  /\ IF Token(c)
     THEN /\ stream' = None /\ hubConnected' = FALSE
          /\ IF Usable(config) THEN timer' = TRUE /\ toUi' = Status
             ELSE UNCHANGED <<timer, toUi>>
     ELSE UNCHANGED <<stream, hubConnected, timer, toUi>>
  /\ UNCHANGED <<uiVars, toHub, proc, config, connOf, current, overran, roster, configs>>

\* Mutant: an invalid frame closes the stream, and that is all.
RetryNever(read) == UNCHANGED timer

\* rejectSnapshot schedules a reconnect, a frame that is too large does not.
RetryAfter(read) == timer' = (timer \/ "bad" \in ToSet(read))

\* The last frame that is not too large decides whether the hub counts as
\* connected (acceptSnapshot, rejectSnapshot).
Authorize(frames) == hubConnected' = IF frames = <<>> THEN hubConnected ELSE Last(frames) = "snapshot"

\* One read of the stream, with the complete frames in it, up to one that is
\* too large if there is one: the rest is dropped.
Chunk(read) ==
  /\ Up /\ stream # None /\ Len(toUi) + Len(read) <= MaxLines
  /\ LET frames == IF Last(read) = "large" THEN Front(read) ELSE read
         broken == ToSet(read) \cap {"bad", "large"} # {}
     IN /\ IF broken THEN Fails ELSE UNCHANGED failures
        /\ conns' = IF broken THEN Closed ELSE conns
        /\ stream' = IF broken THEN None ELSE stream
        /\ RetryAfter(read) /\ overran' = (overran \/ "large" \in ToSet(read))
        /\ Authorize(frames)
        /\ roster' = IF "snapshot" \in ToSet(read) THEN connOf[stream] ELSE roster
        /\ toUi' = toUi \o [i \in 1..Len(read) |-> IF read[i] = "snapshot"
                                                     THEN Line("snapshot", connOf[stream])
                                                     ELSE Line("status", "")]
  /\ UNCHANGED <<uiVars, toHub, proc, config, connOf, current, configs>>

\* The helper dies, and its sockets and timers with it.
Crash ==
  /\ Up /\ Fails /\ proc' = "dead"
  /\ config' = "disabled"
  /\ conns' = [c \in Conn |-> "free"] /\ connOf' = [c \in Conn |-> "nowhere"]
  /\ current' = None /\ stream' = None /\ timer' = FALSE
  /\ overran' = FALSE /\ hubConnected' = FALSE /\ roster' = "nowhere"
  /\ UNCHANGED <<uiVars, toHub, toUi, configs>>
-----------------------------------------------------------------------------
Chunks ==
  {read \in UNION {[1..n -> Frame] : n \in 1..MaxChunk} :
     \A i \in 1..(Len(read) - 1) : read[i] # "large"}

Next ==
  \/ \E s \in Setting : Configure(s)
  \/ LateConfigure \/ ReadLine \/ SeeExit \/ RestartHelper
  \/ TakeConfigure \/ TimerFires
  \/ \E c \in Conn : Accepted(c) \/ Ended(c)
  \/ \E read \in Chunks : Chunk(read)
  \/ Crash

Spec == Init /\ [][Next]_vars

\* The loops of both processes run, timers fire, and a hub that is let be
\* accepts requests and sends snapshots.
Fairness ==
  /\ WF_vars(LateConfigure) /\ WF_vars(ReadLine) /\ WF_vars(SeeExit) /\ WF_vars(RestartHelper)
  /\ WF_vars(TakeConfigure) /\ WF_vars(TimerFires)
  /\ WF_vars(\E c \in Conn : Token(c) /\ Accepted(c))
  /\ WF_vars(Chunk(<<"snapshot">>))
FairSpec == Spec /\ Fairness
-----------------------------------------------------------------------------
TypeOK ==
  /\ endpoint \in Setting /\ configureLater \in BOOLEAN
  /\ uiRoster \in Roster /\ uiReachable \in BOOLEAN /\ uiConnected \in BOOLEAN
  /\ toHub \in Seq(Setting) /\ toUi \in Seq(Lines)
  /\ proc \in {"up", "dead", "gone"} /\ config \in Setting
  /\ conns \in [Conn -> {"free", "handshake", "open", "drained"}]
  /\ connOf \in [Conn -> Roster]
  /\ current \in Conn \cup {None} /\ stream \in Conn \cup {None} /\ timer \in BOOLEAN
  /\ overran \in BOOLEAN
  /\ hubConnected \in BOOLEAN /\ roster \in Roster
  /\ configs \in 0..MaxConfigs /\ failures \in 0..MaxFailures

\* An activation is never offered the agents of an endpoint that is no longer
\* configured, however late its responses come.
RosterOfEndpoint == roster # "nowhere" => roster = config

\* The helper never has two connections, or a connection and a reconnect, on
\* the way to the hub: stale ones are only drained.
Live == {c \in Conn : conns[c] \in {"handshake", "open"} /\ Token(c)}
OneAttempt ==
  /\ stream # None => stream = current /\ conns[stream] = "open"
  /\ timer => Live = {}
  /\ config \notin Endpoint => ~timer /\ stream = None

\* While an endpoint is configured the helper never gives up on it ("Do not
\* leave it quiet and connected forever", rejectSnapshot), but after a frame
\* that is too large it does, until it is configured again.
NeverGivesUp == Up /\ config \in Endpoint => timer \/ Live # {} \/ overran

\* The helper is always on exactly one way to a configured hub.
OneWay == OneAttempt /\ NeverGivesUp

\* Once everything sent has been read, the helper has the endpoint of the
\* window, through changes, crashes and restarts, and the window shows agents
\* as reachable only if the helper has them.
Quiet == Up /\ ~configureLater /\ toHub = <<>> /\ toUi = <<>>
WindowFollows ==
  Quiet => /\ config = endpoint
           /\ uiConnected => hubConnected
           /\ uiReachable => uiConnected /\ uiRoster = endpoint

\* When failures and changes stop, the window ends up with the roster of its
\* endpoint, reachable, unless the last failure was a frame that is too large.
Recovers == <>[](endpoint \in Endpoint =>
                     overran \/ (uiConnected /\ uiReachable /\ uiRoster = endpoint))
=============================================================================
