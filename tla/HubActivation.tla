--------------------------- MODULE HubActivation ---------------------------
(***************************************************************************)
(* Opening an agent from the menu: activate() of bridge/agentd-hub.js, over *)
(* the roster of the hub, the windows of the compositor and the window     *)
(* resolver (bridge/agent-window-resolver.js and the Python behind it).    *)
(*                                                                         *)
(* One action is the code from one await to the next. Between any two the  *)
(* roster, the windows and the processes may change. An agent keeps its    *)
(* identity; what may change about it is its tmux location (the target)    *)
(* and its health. A stable id says no less than the address, and is       *)
(* folded into it. Scores, focus history and names only order candidates.  *)
(***************************************************************************)
EXTENDS Integers, FiniteSets

CONSTANTS
  Agent,          \* agents a roster can name
  Activation,     \* clicks on an agent
  Address, Pid,   \* windows and processes
  MaxRoster,      \* changes of the roster           (these two bound the model)
  MaxDesktop      \* changes of the desktop

ASSUME ActivationAssumption ==
  /\ Agent # {} /\ Address # {} /\ Pid # {}
  /\ MaxRoster \in Nat /\ MaxDesktop \in Nat

Target == {"pane", "other pane", "no tmux"}
Gone == "gone"
Nobody == "nobody"                        \* a window that shows no agent
Ticks == 0..MaxDesktop                    \* start times of the processes of one pid
Client == [address : Address, pid : Pid]  \* a window as the compositor lists it
Window == [address : Address, pid : Pid, ticks : Ticks]
NoWindow == [address |-> "", pid |-> "", ticks |-> 0]

Stage == {"idle", "listing", "reading", "asking", "told", "choosing", "checking", "ticking",
          "focusing", "verifying", "finding", "launching", "noticing", "answered"}
\* What the resolver says: these windows show the agent; none does; or neither
\* (ambiguous, incomplete, past its deadline, not a valid response).
Finding == [status : {"matched", "none", "refused"}, candidates : SUBSET Window]
Refusal == [status |-> "refused", candidates |-> {}]

VARIABLES
  roster, healthy, connected,      \* currentAgents; reporting and present; hubConnected
  mapped, shows, ticks,            \* the desktop: windows, what they show, processes
  stage, agent, target,            \* per activation: where it awaits, and for which agent
  round, seen, found, prior,       \*   its match request, the answer, the window chosen
  rosterChanges, desktopChanges,
  steady, shown, lived             \* what was true meanwhile (see Witness)

hubVars == <<roster, healthy, connected, rosterChanges>>
desktopVars == <<mapped, shows, ticks, desktopChanges>>
matchVars == <<round, seen, found, prior>>
witnessVars == <<steady, shown, lived>>
vars == <<hubVars, desktopVars, stage, agent, target, matchVars, witnessVars>>

Goes(k, s) == stage' = [stage EXCEPT ![k] = s]

\* The window exists now, of this very process; and it shows the agent.
Exact(w) == [address |-> w.address, pid |-> w.pid] \in mapped /\ ticks[w.pid] = w.ticks
Showing(w, a) == Exact(w) /\ shows[w.address] = a

\* For the properties. steady: the windows that have shown the agent ever since
\* the click. shown: the window chosen has shown it since the second request
\* began. lived: it has existed, of its very process, since the second answer.
Witness ==
  /\ steady' = [k \in Activation |->
       IF stage'[k] = "idle" THEN {}
       ELSE {w \in IF stage[k] = "idle" THEN Window ELSE steady[k] : Showing(w, agent[k])'}]
  /\ shown' = [k \in Activation |-> round'[k] = 2 /\ (shown[k] \/ Showing(prior[k], agent[k])')]
  /\ lived' = [k \in Activation |->
       stage'[k] \in {"checking", "ticking", "focusing"} /\ (lived[k] \/ Exact(prior[k])')]
Same(k) == UNCHANGED <<hubVars, desktopVars, agent, target>> /\ Witness
-----------------------------------------------------------------------------
Init ==
  /\ roster \in [Agent -> {"pane", "no tmux"}] /\ healthy = [a \in Agent |-> TRUE]
  /\ connected = TRUE /\ rosterChanges = 0
  /\ mapped \in SUBSET Client /\ \A v, w \in mapped : v.address = w.address => v = w
  /\ shows \in [Address -> Agent \cup {Nobody}] /\ ticks = [p \in Pid |-> 0]
  /\ desktopChanges = 0
  /\ stage = [k \in Activation |-> "idle"]
  /\ agent = [k \in Activation |-> Nobody] /\ target = [k \in Activation |-> Gone]
  /\ round = [k \in Activation |-> 1] /\ seen = [k \in Activation |-> {}]
  /\ found = [k \in Activation |-> Refusal] /\ prior = [k \in Activation |-> NoWindow]
  /\ steady = [k \in Activation |-> {}] /\ shown = [k \in Activation |-> FALSE]
  /\ lived = [k \in Activation |-> FALSE]

\* lookupAgent
Known(a) == roster[a] # Gone

\* lookupAgent and sameAgentTarget, again after each await
UnchangedTarget(k) == roster[agent[k]] = target[k]

\* Source health is a policy for new connections, not for finding windows.
Attachable(k) == connected /\ healthy[agent[k]]

\* Mutant: the answer is lost.
AnswerLost(k) == UNCHANGED stage
Answer(k) == Goes(k, "answered")

\* reject(): a notice first, and then the answer.
Reject(k) == Goes(k, "noticing") /\ UNCHANGED matchVars

\* The click. An agent that is not known is answered at once.
Activate(k, a) ==
  /\ stage[k] = "idle"
  /\ agent' = [agent EXCEPT ![k] = a] /\ target' = [target EXCEPT ![k] = roster[a]]
  /\ \/ Known(a) /\ Goes(k, "listing")
     \/ Known(a) /\ Goes(k, "noticing")              \* no resolver can be made
     \/ ~Known(a) /\ Answer(k)
  /\ UNCHANGED <<hubVars, desktopVars, matchVars>> /\ Witness

\* compositorWindows: the list of clients, and then the start times of their
\* processes, each of which may be unreadable.
ListWindows(k) ==
  /\ stage[k] = "listing"
  /\ \/ Reject(k)
     \/ /\ Goes(k, "reading") /\ seen' = [seen EXCEPT ![k] = mapped]
        /\ UNCHANGED <<round, found, prior>>
  /\ Same(k)

ReadTicks(k) ==
  /\ stage[k] = "reading"
  /\ \/ Reject(k)
     \/ /\ Goes(k, "asking")
        /\ seen' = [seen EXCEPT ![k] = {[address |-> w.address, pid |-> w.pid,
                                         ticks |-> ticks[w.pid]] : w \in seen[k]}]
        /\ UNCHANGED <<round, found, prior>>
  /\ Same(k)

\* The resolver looks at the processes while the request is out. It vouches only
\* for what it could trace, and says "none" only when it traced every window.
ResolverLooks(k) ==
  /\ stage[k] = "asking" /\ Goes(k, "told")
  /\ LET there == {w \in seen[k] : Showing(w, agent[k])} IN
     \E answer \in {Refusal}
                     \cup [status : {"matched"}, candidates : SUBSET there \ {{}}]
                     \cup (IF there = {} THEN [status : {"none"}, candidates : {{}}] ELSE {}) :
       found' = [found EXCEPT ![k] = answer]
  /\ seen' = [seen EXCEPT ![k] = {}]
  /\ UNCHANGED <<round, prior>> /\ Same(k)

\* Mutant: anything but a match permits a new connection.
NotMatched(k) == found[k].status # "matched"
\* Ambiguity or a failed probe is not permission to create a connection.
NoneMatched(k) == found[k].status = "none"

\* The first answer: an existing window, a new connection, or neither. The name
\* of a machine may be no host to connect to.
TakeMatch(k) ==
  /\ stage[k] = "told" /\ round[k] = 1
  /\ \/ /\ UnchangedTarget(k) /\ found[k].status = "matched"
        /\ Goes(k, "choosing") /\ UNCHANGED matchVars
     \/ /\ UnchangedTarget(k) /\ NoneMatched(k) /\ Attachable(k) /\ target[k] # "no tmux"
        /\ Goes(k, "verifying")
        /\ found' = [found EXCEPT ![k] = Refusal] /\ UNCHANGED <<round, seen, prior>>
     \/ ~(UnchangedTarget(k) /\ found[k].status = "matched") /\ Reject(k)
  /\ Same(k)

\* resolveFocusAddress: by address and pid, not by the start time.
Focusable(w) == [address |-> w.address, pid |-> w.pid] \in mapped

\* chooseExistingCandidate; whichever ranks first is asked about once more.
Choose(k) ==
  /\ stage[k] = "choosing"
  /\ \/ Reject(k)
     \/ \E w \in found[k].candidates :
          /\ Focusable(w) /\ Goes(k, "listing")
          /\ prior' = [prior EXCEPT ![k] = w] /\ round' = [round EXCEPT ![k] = 2]
          /\ found' = [found EXCEPT ![k] = Refusal] /\ UNCHANGED seen
  /\ Same(k)

\* Mutant: any match confirms the window that was chosen.
MatchedAgain(k) == found[k].status = "matched"
\* sameWindowIdentity of the window chosen and one of the second answer.
Confirmed(k) == found[k].status = "matched" /\ prior[k] \in found[k].candidates

\* The second answer.
TakeRevalidation(k) ==
  /\ stage[k] = "told" /\ round[k] = 2
  /\ IF UnchangedTarget(k) /\ Confirmed(k)
     THEN Goes(k, "checking") /\ UNCHANGED matchVars ELSE Reject(k)
  /\ Same(k)

CheckClients(k) ==
  /\ stage[k] = "checking"
  /\ \/ Reject(k)
     \/ Focusable(prior[k]) /\ Goes(k, "ticking") /\ UNCHANGED matchVars
  /\ Same(k)

SameProcess(w) == ticks[w.pid] = w.ticks

\* The start time of the process, and the roster once more, before the focus.
CheckTicks(k) ==
  /\ stage[k] = "ticking"
  /\ IF SameProcess(prior[k]) /\ UnchangedTarget(k)
     THEN Goes(k, "focusing") /\ UNCHANGED matchVars ELSE Reject(k)
  /\ Same(k)

Focus(k) ==
  /\ stage[k] = "focusing"
  /\ \/ Answer(k) /\ UNCHANGED matchVars
     \/ Reject(k)
  /\ Same(k)

\* verify-target: the resolver finds the agent in its tmux pane, or does not;
\* what it says of the transports is recorded on the way.
Verify(k) ==
  /\ stage[k] = "verifying"
  /\ \/ UnchangedTarget(k) /\ Attachable(k) /\ Goes(k, "finding") /\ UNCHANGED matchVars
     \/ Reject(k)
  /\ Same(k)

\* The terminal and the clients of the transports are looked for; the roster is
\* read a last time; the terminal is spawned.
Launch(k) ==
  /\ stage[k] = "finding"
  /\ \/ UnchangedTarget(k) /\ Attachable(k) /\ Goes(k, "launching") /\ UNCHANGED matchVars
     \/ Reject(k)
  /\ Same(k)

Launched(k) ==
  /\ stage[k] = "launching"
  /\ \/ Answer(k) /\ UNCHANGED matchVars
     \/ Reject(k)
  /\ Same(k)

Noticed(k) == stage[k] = "noticing" /\ Answer(k) /\ UNCHANGED matchVars /\ Same(k)
-----------------------------------------------------------------------------
\* A snapshot, a lost connection or another endpoint.
RosterChanges ==
  /\ rosterChanges < MaxRoster /\ rosterChanges' = rosterChanges + 1
  /\ \E a \in Agent, t \in Target \cup {Gone}, h \in BOOLEAN :
       roster' = [roster EXCEPT ![a] = t] /\ healthy' = [healthy EXCEPT ![a] = h]
  /\ connected' \in BOOLEAN
  /\ UNCHANGED <<desktopVars, stage, agent, target, matchVars>> /\ Witness

\* A window opens, closes, or shows something else; a process ends with its
\* windows, and its pid is used again.
DesktopChanges ==
  /\ desktopChanges < MaxDesktop /\ desktopChanges' = desktopChanges + 1
  /\ \/ \E c \in Client, a \in Agent \cup {Nobody} :
          /\ \A w \in mapped : w.address = c.address => w = c
          /\ mapped' = mapped \cup {c} /\ shows' = [shows EXCEPT ![c.address] = a]
          /\ UNCHANGED ticks
     \/ \E c \in mapped : mapped' = mapped \ {c} /\ UNCHANGED <<shows, ticks>>
     \/ \E p \in Pid :
          /\ mapped' = {w \in mapped : w.pid # p} /\ ticks' = [ticks EXCEPT ![p] = @ + 1]
          /\ UNCHANGED shows
  /\ UNCHANGED <<hubVars, stage, agent, target, matchVars>> /\ Witness

Step(k) ==
  \/ ListWindows(k) \/ ReadTicks(k) \/ ResolverLooks(k) \/ TakeMatch(k) \/ Choose(k)
  \/ TakeRevalidation(k) \/ CheckClients(k) \/ CheckTicks(k) \/ Focus(k)
  \/ Verify(k) \/ Launch(k) \/ Launched(k) \/ Noticed(k)

Next ==
  \/ \E k \in Activation : Step(k) \/ \E a \in Agent : Activate(k, a)
  \/ RosterChanges \/ DesktopChanges

Spec == Init /\ [][Next]_vars

\* Every await ends: the resolver is killed at its deadline, commands have
\* time-outs, and a spawn succeeds or fails.
FairSpec == Spec /\ \A k \in Activation : WF_vars(Step(k))
-----------------------------------------------------------------------------
Busy(k) == stage[k] \notin {"idle", "answered"}

TypeOK ==
  /\ roster \in [Agent -> Target \cup {Gone}] /\ healthy \in [Agent -> BOOLEAN]
  /\ connected \in BOOLEAN /\ rosterChanges \in 0..MaxRoster
  /\ mapped \subseteq Client /\ shows \in [Address -> Agent \cup {Nobody}]
  /\ ticks \in [Pid -> Ticks] /\ desktopChanges \in 0..MaxDesktop
  /\ stage \in [Activation -> Stage]
  /\ agent \in [Activation -> Agent \cup {Nobody}]
  /\ target \in [Activation -> Target \cup {Gone}]
  /\ \A k \in Activation : Busy(k) => agent[k] \in Agent /\ target[k] \in Target
  /\ round \in [Activation -> 1..2] /\ found \in [Activation -> Finding]
  /\ seen \in [Activation -> (SUBSET Client) \cup (SUBSET Window)]
  /\ prior \in [Activation -> Window \cup {NoWindow}]
  /\ \A k \in Activation : round[k] = 2 => prior[k] \in Window
  /\ steady \in [Activation -> SUBSET Window]
  /\ shown \in [Activation -> BOOLEAN] /\ lived \in [Activation -> BOOLEAN]

\* The window about to be focused showed the agent at some time since it was
\* asked about again: neither the first answer, nor a match of another window,
\* is enough (sameWindowIdentity). It also existed, with its own process, at
\* some time since that answer, in spite of pids and addresses that are used
\* again: the code never sees the window and the start time at once, so this
\* rests on the order of the two looks.
FocusConfirmed == \A k \in Activation : stage[k] = "focusing" => shown[k] /\ lived[k]

\* A terminal is opened only for an agent that is in the roster as it was
\* clicked, reporting on a connected hub, and never while one window has shown
\* it all the time since the click.
LaunchJustified ==
  [][\A k \in Activation : stage[k] # "launching" /\ stage'[k] = "launching" =>
       /\ roster[agent[k]] = target[k] /\ healthy[agent[k]] /\ connected
       /\ steady[k] = {}]_vars

\* Every click is answered, by a focus, a new terminal or a refusal.
ActivationEnds == \A k \in Activation : Busy(k) ~> stage[k] = "answered"
=============================================================================
