----------------------------- MODULE AskWindows -----------------------------
(***************************************************************************)
(* Ask.qml as the manager of conversations, and the windows of each: the   *)
(* overlay panel it opens with and the window it is pinned to              *)
(* (Conversation.qml), each with its ShortcutScope, over the compositor    *)
(* and its module. The module may come and go; ModuleLoader says how.      *)
(***************************************************************************)
EXTENDS ShortcutScope

CONSTANTS
  Conversation,
  Nobody,              \* no conversation
  MaxUser, MaxOther    \* what the user does, and what else happens (bounds)

Panel(c) == <<c, "panel">>
Window(c) == <<c, "window">>

ASSUME WindowsAssumption ==
  /\ Nobody \notin Conversation /\ MaxUser \in Nat /\ MaxOther \in Nat
  /\ View = Conversation \X {"panel", "window"} /\ Overlay = {Panel(c) : c \in Conversation}

VARIABLES
  opened, pinned, pinPending,   \* conversations
  preparing,                    \* preparing[c]: pinPrepare, "idle", "running", its answer
  prepares,                     \* pinPrepareAttempts
  activeOverlay,                \* Ask.qml
  settingsOpen,
  acts, others         \* how much the user did, how much else happened

pinVars == <<opened, pinned, pinPending, preparing, prepares>>
askVars == <<activeOverlay, settingsOpen>>
allVars == <<routingVars, scopeVars, pinVars, askVars, acts, others>>

\* The windows that are visible (panel.visible, pinnedWindow.visible).
Shown(open, pin, handing, settings) ==
  {Panel(c) : c \in {d \in open : (d \in pin => d \in handing) /\ ~settings}}
    \cup {Window(c) : c \in open \cap pin}

User == acts < MaxUser /\ acts' = acts + 1 /\ UNCHANGED others
Other == others < MaxOther /\ others' = others + 1 /\ UNCHANGED acts
Quiet == UNCHANGED <<acts, others>>

AskInit ==
  /\ RoutingInit /\ ScopeInit
  /\ opened = {} /\ pinned = {} /\ pinPending = {}
  /\ preparing = [c \in Conversation |-> "idle"] /\ prepares = [c \in Conversation |-> 0]
  /\ activeOverlay = Nobody /\ settingsOpen = FALSE /\ acts = 0 /\ others = 0

\* close() of the conversation c; its processes end with it.
CloseConversation(c) ==
  /\ opened' = opened \ {c} /\ pinned' = pinned \ {c} /\ pinPending' = pinPending \ {c}
  /\ preparing' = [preparing EXCEPT ![c] = "idle"] /\ prepares' = [prepares EXCEPT ![c] = 0]
  /\ activeOverlay' = IF activeOverlay = c THEN Nobody ELSE activeOverlay
  /\ settingsOpen' = (settingsOpen /\ opened' # {})
  /\ Appear(Shown(opened', pinned', pinPending', settingsOpen'))
  /\ call' = [v \in View |-> IF v \in {Panel(c), Window(c)} THEN NoCall ELSE call[v]]
  /\ reply' = [v \in View |-> IF v \in {Panel(c), Window(c)} THEN "none" ELSE reply[v]]
  /\ UNCHANGED <<chords, events, routingVars>>

\* Ask.qml.opened
OverlayOpen == activeOverlay # Nobody /\ activeOverlay \notin pinned

\* toggle(), once the loader is done: createConversation, with a conversation
\* none of whose surfaces is left, or the end of the overlay.
Summon ==
  /\ User
  /\ \/ OverlayOpen /\ CloseConversation(activeOverlay)
     \/ /\ ~OverlayOpen
        /\ \E c \in Conversation \ opened :
             /\ {Panel(c), Window(c)} \cap mapped = {}
             /\ opened' = opened \cup {c} /\ activeOverlay' = c
             /\ Appear(Shown(opened', pinned, pinPending, settingsOpen))
        /\ UNCHANGED <<pinned, pinPending, preparing, prepares, settingsOpen, chords, callVars,
                       events, routingVars>>

\* The close button of a pinned window, or Escape.
UserCloses(c) ==
  /\ User /\ c \in opened
  /\ CloseConversation(c)

\* Ctrl+, opens and closes the settings window; the panels step aside for it.
ToggleSettings ==
  /\ User /\ opened # {}
  /\ settingsOpen' = ~settingsOpen
  /\ Appear(Shown(opened, pinned, pinPending, settingsOpen'))
  /\ UNCHANGED <<chords, callVars, events, routingVars, pinVars, activeOverlay>>

\* pinConversation: the panel now holds the keyboard.
Pin(c) ==
  /\ User /\ c \in opened \ (pinned \cup pinPending)
  /\ pinPending' = pinPending \cup {c} /\ prepares' = [prepares EXCEPT ![c] = 0]
  /\ UNCHANGED <<opened, pinned, preparing, askVars, routingVars, scopeVars>>

\* The timer asks the compositor whether the panel has the keyboard (focus-ready).
PrepareStarts(c) ==
  /\ Quiet /\ c \in (opened \cap pinPending) \ pinned /\ preparing[c] = "idle"
  /\ prepares' = [prepares EXCEPT ![c] = IF @ < MaxAttempts THEN @ + 1 ELSE @]
  /\ preparing' = [preparing EXCEPT ![c] = "running"]
  /\ UNCHANGED <<opened, pinned, pinPending, askVars, routingVars, scopeVars>>

PrepareReaches(c) ==
  /\ Quiet /\ preparing[c] = "running"
  /\ preparing' = [preparing EXCEPT ![c] =
                     IF loaded /\ Unique(Panel(c)) /\ focus = Panel(c) THEN "ok" ELSE "error"]
  /\ UNCHANGED <<opened, pinned, pinPending, prepares, askVars, routingVars, scopeVars>>

PrepareFails(c) ==
  /\ Quiet /\ preparing[c] = "running" /\ preparing' = [preparing EXCEPT ![c] = "error"]
  /\ UNCHANGED <<opened, pinned, pinPending, prepares, askVars, routingVars, scopeVars>>

\* Mutant: without the module there is no pinning.
PinsConfirmed(c) == preparing[c] = "ok"

\* finishPinAttempt goes on, confirmed or not.
Pins(c) == preparing[c] = "ok" \/ prepares[c] >= MaxAttempts

\* finishPinAttempt: the pinned window is mapped.
Prepared(c) ==
  /\ Quiet /\ preparing[c] \in {"ok", "error"}
  /\ preparing' = [preparing EXCEPT ![c] = "idle"]
  /\ IF c \in (opened \cap pinPending) \ pinned /\ Pins(c)
     THEN /\ pinned' = pinned \cup {c}
          /\ activeOverlay' = IF activeOverlay = c THEN Nobody ELSE activeOverlay
          /\ Appear(Shown(opened, pinned', pinPending, settingsOpen))
          /\ UNCHANGED <<chords, callVars, events>>
     ELSE UNCHANGED <<pinned, activeOverlay, scopeVars>>
  /\ UNCHANGED <<opened, pinPending, prepares, settingsOpen, routingVars>>

\* The panel that is only shown until the window v is admitted.
Waiting(v) == {Panel(c) : c \in {d \in (pinPending \cap pinned) : v = Window(d)}} \cap visible

\* onAdmittedChanged of a pinned window ends the hand-over.
HandedOver(v) ==
  pinPending' = {c \in pinPending : ~(v = Window(c) /\ v \notin admitted /\ v \in admitted')}

ScopeTimer(v) ==
  /\ Quiet /\ TimerFires(v, Waiting(v)) /\ HandedOver(v)
  /\ UNCHANGED <<opened, pinned, preparing, prepares, askVars>>

ScopeRegistered(v) ==
  /\ Quiet /\ Registered(v, Waiting(v)) /\ HandedOver(v)
  /\ UNCHANGED <<opened, pinned, preparing, prepares, askVars>>

Hyprctl(v) ==
  /\ Quiet /\ (CallReaches(v) \/ CallFails(v))
  /\ UNCHANGED <<pinVars, askVars>>

RawEvent ==
  /\ Quiet /\ Heard
  /\ UNCHANGED <<pinVars, askVars>>

Surface(v) ==
  /\ Quiet /\ (Backing(v) \/ FocusSeen(v) \/ FocusLost(v))
  /\ UNCHANGED <<pinVars, askVars>>

\* What the window offers changes, with what the user does in it.
Context(v) ==
  /\ Other /\ \E wanted \in SUBSET Chord : ChordsChange(v, wanted)
  /\ UNCHANGED <<pinVars, askVars>>

CompositorActs ==
  /\ Quiet /\ Compositor((admitted \cap Overlay) \cup {Panel(c) : c \in pinPending})
  /\ UNCHANGED <<pinVars, askVars>>

UserFocuses(c) ==
  /\ Other /\ Focus(Window(c))
  /\ UNCHANGED <<scopeVars, pinVars, askVars>>

\* The module is loaded, unloaded or replaced; the compositor says so.
ModuleChanges ==
  /\ Other
  /\ \/ Unload /\ events' = Append(events, "unavailable")
     \/ \E m \in Module : Load(m) /\ events' = Append(events, "ready")
  /\ UNCHANGED <<windowVars, claimVars, admitted, callVars, pinVars, askVars>>

Prepare(c) == PrepareStarts(c) \/ PrepareReaches(c) \/ PrepareFails(c) \/ Prepared(c)

AskNext ==
  \/ Summon \/ ToggleSettings
  \/ \E c \in Conversation : UserCloses(c) \/ Pin(c) \/ Prepare(c) \/ UserFocuses(c)
  \/ \E v \in View : ScopeTimer(v) \/ ScopeRegistered(v) \/ Hyprctl(v) \/ Surface(v) \/ Context(v)
  \/ RawEvent \/ CompositorActs \/ ModuleChanges

\* Timers fire, processes end and what
\* they say is heard. Nothing is asked of the compositor: it may never map a
\* window, focus it or answer but with an error.
AskFairness ==
  /\ \A v \in View : WF_allVars(ScopeTimer(v)) /\ WF_allVars(ScopeRegistered(v)) /\ WF_allVars(Hyprctl(v))
  /\ \A c \in Conversation : WF_allVars(Prepare(c))
  /\ WF_allVars(RawEvent)

AskSpec == AskInit /\ [][AskNext]_allVars /\ AskFairness
-----------------------------------------------------------------------------
AskTypeOK ==
  /\ RoutingTypeOK /\ ScopeTypeOK
  /\ pinned \cup pinPending \subseteq opened /\ opened \subseteq Conversation
  /\ activeOverlay \in opened \cup {Nobody} /\ settingsOpen \in BOOLEAN
  /\ visible = Shown(opened, pinned, pinPending, settingsOpen)
  /\ preparing \in [Conversation -> {"idle", "running", "ok", "error"}]
  /\ prepares \in [Conversation -> 0..MaxAttempts]

\* Every window that is shown is let at the keyboard in the end, with or
\* without its shortcuts ("a failed loader must not strand the popup").
NotStranded == \A v \in View : (v \in visible) ~> (v \in admitted \/ v \notin visible)

\* A hand-over that has begun ends: the panel does not keep the keyboard to
\* itself for ever ("must not strand the popup or pin handoff").
PinCompletes == \A c \in Conversation : (c \in pinPending) ~> (c \notin pinPending)
=============================================================================
