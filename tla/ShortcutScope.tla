---------------------------- MODULE ShortcutScope ----------------------------
(***************************************************************************)
(* ShortcutScope.qml: each window of Ask tells the compositor's module     *)
(* which chords it wants now, with hyprctl, one call at a time.            *)
(*                                                                         *)
(* One action is one callback of QML, or one step of the hyprctl process   *)
(* or of the compositor. A window is admitted (ShortcutFocus may ask for   *)
(* the keyboard) once it is registered or has tried often enough.          *)
(***************************************************************************)
EXTENDS KeyRouting, Integers, Sequences

CONSTANTS
  Overlay,         \* the windows that are layers; they get focus when admitted
  Name,            \* Name[v]: what the compositor matches the window v by
  MaxAttempts      \* calls before a window gives up (the code's 5)

ASSUME ScopeAssumption ==
  /\ Overlay \subseteq View /\ DOMAIN Name = View
  /\ MaxAttempts \in Nat \ {0} /\ Elsewhere \notin Chord

VARIABLES
  visible, backing,       \* targetWindow.visible, backingWindowVisible
  focused,                \* windows that Qt knows to be active
  chords,                 \* chords[v]: what v wants (ShortcutPolicy)
  ready, admitted, dirty, \* windows
  attempts,
  timer,                  \* windows whose retry timer runs
  call,                   \* call[v]: the chords hyprctl was started with
  reply,                  \* reply[v]: what it will exit with, once it knows
  events                  \* lines of the compositor not read yet

NoCall == {Elsewhere}     \* no set of chords

windowVars == <<visible, backing, focused, chords>>
claimVars == <<ready, dirty, attempts, timer>>
callVars == <<call, reply>>
scopeVars == <<windowVars, claimVars, admitted, callVars, events>>

ScopeInit ==
  /\ visible = {} /\ backing = {} /\ focused = {} /\ chords = [v \in View |-> Chord]
  /\ ready = {} /\ admitted = {} /\ dirty = View /\ attempts = [v \in View |-> 0]
  /\ timer = {} /\ call = [v \in View |-> NoCall] /\ reply = [v \in View |-> "none"]
  /\ events = <<>>

\* schedule() of the windows S
Schedule(S) ==
  /\ ready' = ready \ S /\ dirty' = dirty \cup S
  /\ attempts' = [v \in View |-> IF v \in S THEN 0 ELSE attempts[v]]
  /\ timer' = timer \cup (S \cap visible')

\* What else a step of v does to the claims: the windows `gone` were hidden.
Rest(gone, v, tries, isReady) ==
  /\ ready' = isReady \ gone /\ dirty' = dirty \cup gone
  /\ attempts' = [u \in View |-> IF u \in gone THEN 0 ELSE IF u = v THEN tries ELSE attempts[u]]

\* The visible windows become S: what is hidden loses its surface and admission.
Reveal(S) ==
  /\ visible' = S /\ backing' = backing \cap S /\ focused' = focused \cap S

Turned(S) == (S \ visible) \cup (visible \ S)

Appear(S) ==
  /\ Reveal(S) /\ admitted' = admitted \cap S
  /\ Schedule(Turned(S))

\* Qt shows the surface, after the compositor has forgotten the one before.
Backing(v) ==
  /\ v \in visible \ (backing \cup mapped) /\ backing' = backing \cup {v}
  /\ UNCHANGED visible /\ Schedule({v})
  /\ UNCHANGED <<focused, chords, admitted, callVars, events, routingVars>>

ChordsChange(v, wanted) ==
  /\ chords[v] # wanted /\ chords' = [chords EXCEPT ![v] = wanted]
  /\ UNCHANGED visible /\ Schedule({v})
  /\ UNCHANGED <<backing, focused, admitted, callVars, events, routingVars>>

\* Qt hears of the focus.
FocusSeen(v) ==
  /\ focus = v /\ v \in visible \ focused /\ focused' = focused \cup {v}
  /\ UNCHANGED visible
  /\ IF v \in ready THEN UNCHANGED claimVars ELSE Schedule({v})
  /\ UNCHANGED <<backing, chords, admitted, callVars, events, routingVars>>

FocusLost(v) ==
  /\ focus # v /\ v \in focused /\ focused' = focused \ {v}
  /\ UNCHANGED <<visible, backing, chords, claimVars, admitted, callVars, events, routingVars>>

\* Mutant: a window that has tried in vain is not admitted.
AdmitsReady(v, isReady, tries, isDirty) == isReady

\* v is registered, or has tried often enough.
Admits(v, isReady, tries, isDirty) == isReady \/ (~isDirty /\ tries >= MaxAttempts)

\* v is admitted if `yes`; the windows `over`, shown until then, are hidden.
Admit(v, yes, over) ==
  LET gone == IF yes /\ v \notin admitted THEN over ELSE {}
  IN /\ Reveal(visible \ gone)
     /\ admitted' = (IF yes THEN admitted \cup {v} ELSE admitted) \ gone

\* onTriggered of the retry timer.
TimerFires(v, over) ==
  /\ v \in timer
  /\ \/ /\ v \notin visible \/ call[v] # NoCall
        /\ timer' = timer \ {v}
        /\ UNCHANGED <<visible, backing, focused, admitted, ready, dirty, attempts, callVars>>
     \/ /\ v \in visible \ backing /\ call[v] = NoCall
        /\ LET up == Admits(v, FALSE, attempts[v] + 1, FALSE) IN
             /\ Admit(v, up, over)
             /\ timer' = IF up THEN timer \ {v} ELSE timer
             /\ Rest(visible \ visible', v, attempts[v] + 1, ready)
        /\ UNCHANGED callVars
     \/ /\ v \in visible \cap backing /\ call[v] = NoCall
        /\ attempts' = [attempts EXCEPT ![v] = @ + 1]
        /\ timer' = timer \ {v} /\ dirty' = dirty \ {v}
        /\ call' = [call EXCEPT ![v] = chords[v]] /\ reply' = [reply EXCEPT ![v] = "none"]
        /\ UNCHANGED <<visible, backing, focused, admitted, ready>>
  /\ UNCHANGED <<chords, events, routingVars>>

\* mappedAskView: the one surface with the name of v.
Unique(v) == v \in mapped /\ \A u \in mapped : Name[u] = Name[v] => u = v

\* hyprctl reaches the compositor (configure).
CallReaches(v) ==
  /\ call[v] # NoCall /\ reply[v] = "none"
  /\ IF loaded /\ Unique(v)
     THEN Register(v, call[v]) /\ reply' = [reply EXCEPT ![v] = "ok"]
     ELSE UNCHANGED routingVars /\ reply' = [reply EXCEPT ![v] = "error"]
  /\ UNCHANGED <<windowVars, claimVars, admitted, call, events>>

\* hyprctl cannot be run, or fails.
CallFails(v) ==
  /\ call[v] # NoCall /\ reply[v] = "none"
  /\ reply' = [reply EXCEPT ![v] = "error"]
  /\ UNCHANGED <<windowVars, claimVars, admitted, call, events, routingVars>>

\* Mutant: what was registered is taken for what is wanted.
ConfirmedStale(v) == reply[v] = "ok"

\* What was registered is still what v wants.
Confirmed(v) == reply[v] = "ok" /\ v \notin dirty

Retries(v) == ~Confirmed(v) /\ (v \in dirty \/ attempts[v] < MaxAttempts)

\* registered(), when hyprctl has exited or could not start.
Registered(v, over) ==
  /\ reply[v] # "none"
  /\ call' = [call EXCEPT ![v] = NoCall] /\ reply' = [reply EXCEPT ![v] = "none"]
  /\ Admit(v, v \in visible /\ Admits(v, Confirmed(v), attempts[v], v \in dirty), over)
  /\ timer' = IF v \in visible /\ Retries(v) THEN timer \cup {v} ELSE timer
  /\ Rest(visible \ visible', v, attempts[v],
          IF Confirmed(v) THEN ready \cup {v} ELSE ready \ {v})
  /\ UNCHANGED <<chords, events, routingVars>>

\* The next line of the compositor's event socket; every window hears it.
Heard ==
  /\ events # <<>> /\ events' = Tail(events)
  /\ UNCHANGED visible /\ Schedule(View)
  /\ UNCHANGED <<backing, focused, chords, admitted, callVars, routingVars>>

\* The compositor on its own. The surfaces `asks` ask for the focus.
Compositor(asks) ==
  /\ \/ \E v \in asks \cup {Elsewhere} : Focus(v)
     \/ \E v \in backing : Map(v)
     \/ \E v \in View \ backing : Unmap(v)
  /\ UNCHANGED scopeVars
-----------------------------------------------------------------------------
ScopeTypeOK ==
  /\ visible \subseteq View /\ backing \subseteq visible /\ focused \subseteq visible
  /\ chords \in [View -> SUBSET Chord] /\ attempts \in [View -> 0..MaxAttempts]
  /\ ready \subseteq visible /\ admitted \subseteq visible /\ dirty \subseteq View
  /\ timer \subseteq View /\ call \in [View -> (SUBSET Chord) \cup {NoCall}]
  /\ reply \in [View -> {"none", "ok", "error"}] /\ events \in Seq({"ready", "unavailable"})

\* A window that says it is ready has, in the module, exactly the chords it
\* wants now: whatever changed while hyprctl ran, and unless the module has
\* just come or gone and the window has yet to hear of it.
Registration(v) == v \in mapped /\ events = <<>> => loaded /\ scopes[v] = chords[v]

\* The window has a call, a timer, or all its attempts behind it.
StillTrying(v) ==
  v \in timer \/ call[v] # NoCall \/ (v \in admitted /\ attempts[v] >= MaxAttempts)

\* A visible window has its shortcuts, or tries to get them, or has been let at
\* the keyboard without them: no change is lost, and none is taken for done.
ShortcutsFollow == \A v \in visible : IF v \in ready THEN Registration(v) ELSE StillTrying(v)
=============================================================================
