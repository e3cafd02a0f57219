----------------------------- MODULE AskSession -----------------------------
(***************************************************************************)
(* One conversation: the window (Conversation.qml), its bridge process     *)
(* (bridge/bridge.js) and the agent behind it, joined by two pipes.        *)
(*                                                                         *)
(* One action is one event of one process: the user does something, the    *)
(* window reads a line or sees the bridge exit, the bridge reads a line or *)
(* goes on after an await, the agent asks or answers. The agent is what    *)
(* bridge.js sees of it through ACP: it may ask for permissions while it   *)
(* works on a prompt, answer or reject calls, and exit at any time.        *)
(***************************************************************************)
EXTENDS Integers, Sequences, FiniteSets, SequencesExt

CONSTANTS
  MaxPrompts,     \* prompts the user composes    (these five bound the model)
  MaxSteers,      \* corrections of a running turn; 0: steering not supported
  MaxToggles,     \* switches of the permission mode
  MaxPermissions, \* permission requests of one bridge
  MaxSessions     \* bridges of one conversation

ASSUME SessionAssumption ==
  /\ MaxPrompts \in Nat /\ MaxSteers \in Nat /\ MaxToggles \in Nat
  /\ MaxPermissions \in Nat /\ MaxSessions \in Nat \ {0}

Prompt == 1..MaxPrompts
Steer == 1..MaxSteers
Permission == 1..MaxPermissions
Nothing == 0                              \* no prompt, or no permission
Mode == {"permission", "yolo"}
Kind == {"standard", "full_access"}       \* kinds of session modes of agents
Option == {"allow_once", "reject_once"}
Saving == [id : 1..MaxToggles, mode : Mode, step : {"apply", "write"}]
Verdict == {"none", "allowed", "denied", "cancelled"}

\* Lines of the two pipes.
Line(type, id, what) == [type |-> type, id |-> id, what |-> what]
Ends == {"done", "error", "fatal"}

VARIABLES
  (* the window *)
  opened, running, bridgeReady, sessionLost,
  waiting, queued, composer, images, activeDraft, failedDrafts,
  activeReply, steeringPending, uiMode, modePending, shown, permissionQueue,
  (* the pipes *)
  toBridge, toUi,
  (* the bridge *)
  proc, permissionMode, turnRunning, open, saves, permissionSequence,
  (* requests whose prompt was rejected while they waited (for checking) *)
  left,
  (* the agent *)
  agentTurn, agentMode, modes, steers, verdict, offers,
  (* switches of the mode that went wrong: applied but not written; on its *)
  (* way to a bridge that exited                                           *)
  unsaved, stranded,
  (* counters of the bounds, and what the user meant: the prompt a steer *)
  (* corrects, the answer to a permission                               *)
  prompts, steered, toggles, sessions, aim, clicked

draftVars == <<composer, images, activeDraft, failedDrafts>>
turnVars == <<waiting, queued, activeReply, draftVars, steeringPending>>
modeVars == <<uiMode, modePending>>
dialogVars == <<shown, permissionQueue>>
lifeVars == <<opened, running, bridgeReady, sessionLost>>
uiVars == <<turnVars, modeVars, dialogVars, lifeVars>>
saveVars == <<permissionMode, saves>>
permissionVars == <<open, permissionSequence, left, verdict, offers>>
workVars == <<turnRunning, agentTurn, steers>>
lostVars == <<unsaved, stranded>>
agentModeVars == <<agentMode, modes, lostVars>>
bridgeVars == <<proc, saveVars, permissionVars, workVars, agentModeVars>>
userVars == <<prompts, steered, toggles, sessions, aim, clicked>>
vars == <<uiVars, toBridge, toUi, bridgeVars, userVars>>

Types(pipe) == {pipe[i].type : i \in DOMAIN pipe}
Ids(pipe, type) == {pipe[i].id : i \in {j \in DOMAIN pipe : pipe[j].type = type}}
-----------------------------------------------------------------------------
Init ==
  /\ opened = TRUE /\ running = TRUE /\ bridgeReady = FALSE /\ sessionLost = FALSE
  /\ waiting = FALSE /\ queued = Nothing /\ composer = Nothing /\ images = {}
  /\ activeDraft = Nothing /\ failedDrafts = {} /\ activeReply = Nothing
  /\ steeringPending = FALSE
  /\ uiMode = "permission" /\ modePending = FALSE
  /\ shown = Nothing /\ permissionQueue = <<>>
  /\ toBridge = <<>> /\ toUi = <<>>
  /\ proc = "starting" /\ permissionMode = "permission"
  /\ turnRunning = FALSE /\ open = {} /\ saves = {} /\ permissionSequence = 0 /\ left = {}
  /\ agentTurn = Nothing /\ agentMode = "own" /\ modes = {} /\ steers = {}
  /\ unsaved = FALSE /\ stranded = FALSE
  /\ verdict = [r \in Permission |-> "none"] /\ offers = [r \in Permission |-> {}]
  /\ prompts = 0 /\ steered = 0 /\ toggles = 0 /\ sessions = 1
  /\ aim = [n \in Steer |-> Nothing] /\ clicked = [r \in Permission |-> "none"]
-----------------------------------------------------------------------------
(* The user and the window.                                                 *)

\* The user writes a prompt; a pasted image can only be attached between
\* turns (pasteClipboard, receiveClipboard: the round trip is not modelled).
Compose(withImage) ==
  /\ opened /\ composer = Nothing /\ prompts < MaxPrompts
  /\ withImage => ~waiting /\ running
  /\ prompts' = prompts + 1 /\ composer' = prompts'
  /\ images' = IF withImage THEN images \cup {prompts'} ELSE images
  /\ UNCHANGED <<waiting, queued, activeDraft, failedDrafts, activeReply, steeringPending,
                 modeVars, dialogVars, lifeVars, toBridge, toUi, bridgeVars, steered, toggles,
                 sessions, aim, clicked>>

\* startPrompt and sendQueuedPrompt: the prompt goes out, or waits for ready.
StartPrompt(p) ==
  /\ waiting' = TRUE /\ activeReply' = p
  /\ IF bridgeReady /\ running
     THEN queued' = Nothing /\ toBridge' = Append(toBridge, Line("prompt", p, ""))
     ELSE queued' = p /\ UNCHANGED toBridge

\* submit() between turns.
Submit ==
  /\ opened /\ ~sessionLost /\ ~waiting /\ composer # Nothing
  /\ StartPrompt(composer)
  /\ composer' = Nothing
  /\ activeDraft' = IF composer \in images THEN composer ELSE activeDraft
  /\ UNCHANGED <<images, failedDrafts, steeringPending, modeVars, dialogVars, lifeVars, toUi,
                 bridgeVars, userVars>>

\* retryOriginal
Retry(p) ==
  /\ p \in failedDrafts
  /\ ~waiting /\ ~sessionLost /\ bridgeReady /\ running
  /\ StartPrompt(p)
  /\ failedDrafts' = failedDrafts \ {p} /\ activeDraft' = p
  /\ UNCHANGED <<composer, images, steeringPending, modeVars, dialogVars, lifeVars, toUi,
                 bridgeVars, userVars>>

\* submit() while a turn runs: the text goes out, attached images stay.
SubmitSteer ==
  /\ opened /\ ~sessionLost /\ waiting /\ steered < MaxSteers
  /\ ~steeringPending /\ bridgeReady /\ running
  /\ steeringPending' = TRUE /\ steered' = steered + 1
  /\ aim' = [aim EXCEPT ![steered'] = activeReply]
  /\ toBridge' = Append(toBridge, Line("steer", steered', ""))
  /\ composer' = IF composer \in images THEN composer ELSE Nothing
  /\ UNCHANGED <<waiting, queued, images, activeDraft, failedDrafts, activeReply, modeVars,
                 dialogVars, lifeVars, toUi, bridgeVars, prompts, toggles, sessions, clicked>>

\* setPermissionMode, from the control that shows the other mode.
Toggle ==
  /\ opened /\ ~modePending /\ running /\ bridgeReady /\ toggles < MaxToggles
  /\ modePending' = TRUE /\ toggles' = toggles + 1
  /\ \E mode \in Mode \ {uiMode} :
       toBridge' = Append(toBridge, Line("permission_mode", toggles', mode))
  /\ UNCHANGED <<uiMode, turnVars, dialogVars, lifeVars, toUi, bridgeVars, prompts, steered,
                 sessions, aim, clicked>>

\* showNextPermission
ShowNext ==
  IF permissionQueue = <<>> THEN shown' = Nothing /\ UNCHANGED permissionQueue
  ELSE shown' = Head(permissionQueue) /\ permissionQueue' = Tail(permissionQueue)

\* answerPermission of the window.
Answer(choice) ==
  /\ opened /\ shown # Nothing /\ running
  /\ toBridge' = Append(toBridge, Line("permission", shown, choice))
  /\ clicked' = [clicked EXCEPT ![shown] = choice]
  /\ ShowNext
  /\ UNCHANGED <<turnVars, modeVars, lifeVars, toUi, bridgeVars, prompts, steered, toggles,
                 sessions, aim>>

\* restartSession: another bridge for the same conversation.
Restart ==
  /\ opened /\ sessionLost /\ ~running /\ sessions < MaxSessions
  /\ sessions' = sessions + 1
  /\ sessionLost' = FALSE /\ queued' = Nothing /\ steeringPending' = FALSE
  /\ running' = TRUE /\ proc' = "starting"
  /\ permissionMode' = "permission" /\ permissionSequence' = 0 /\ left' = {}
  /\ verdict' = [r \in Permission |-> "none"] /\ offers' = [r \in Permission |-> {}]
  /\ clicked' = [r \in Permission |-> "none"]
  /\ agentMode' = "own" /\ modes' = {} /\ unsaved' = FALSE /\ stranded' = modePending
  /\ UNCHANGED <<opened, bridgeReady, waiting, draftVars, activeReply, modeVars, dialogVars,
                 toBridge, toUi, turnRunning, open, saves, agentTurn, steers, prompts,
                 steered, toggles, aim>>

\* shutdown() of the bridge: what is unresolved is cancelled first.
Shutdown ==
  /\ proc' = "closing"
  /\ verdict' = [r \in Permission |-> IF r \in open THEN "cancelled" ELSE verdict[r]]
  /\ open' = {}
  /\ UNCHANGED <<permissionSequence, left, offers>>

\* close() of the window: the bridge gets SIGTERM, and is let go.
CloseWindow ==
  /\ opened /\ opened' = FALSE
  /\ bridgeReady' = FALSE /\ sessionLost' = FALSE
  /\ waiting' = FALSE /\ queued' = Nothing /\ composer' = Nothing /\ images' = {}
  /\ activeDraft' = Nothing /\ failedDrafts' = {} /\ activeReply' = Nothing
  /\ steeringPending' = FALSE /\ shown' = Nothing /\ permissionQueue' = <<>>
  /\ IF proc \in {"starting", "up"} THEN Shutdown ELSE UNCHANGED <<proc, permissionVars>>
  /\ UNCHANGED <<running, modeVars, toBridge, toUi, saveVars, workVars, agentModeVars, userVars>>
-----------------------------------------------------------------------------
(* The window reads the lines of the bridge (handleAgentLine).              *)

\* Mutant: a draft that does not fit the composer is lost.
FinishPromptDrops(success) ==
  /\ queued' = Nothing /\ activeDraft' = Nothing
  /\ composer' = IF composer = Nothing /\ ~success THEN activeDraft ELSE composer
  /\ UNCHANGED failedDrafts

\* finishImagePrompt: a draft that was not answered goes back to the composer
\* if that is empty, and to the failed drafts otherwise.
FinishPrompt(success) ==
  /\ queued' = Nothing /\ activeDraft' = Nothing
  /\ LET kept == activeDraft # Nothing /\ ~success
     IN /\ composer' = IF kept /\ composer = Nothing THEN activeDraft ELSE composer
        /\ failedDrafts' = IF kept /\ composer # Nothing THEN failedDrafts \cup {activeDraft}
                           ELSE failedDrafts

ClearPermissions == shown' = Nothing /\ permissionQueue' = <<>>

Reads(types) ==
  /\ opened /\ toUi # <<>> /\ Head(toUi).type \in types
  /\ toUi' = Tail(toUi)
  /\ UNCHANGED <<opened, running, images, bridgeVars, userVars>>

Sent(p) == IF p = Nothing THEN toBridge ELSE Append(toBridge, Line("prompt", p, ""))

\* Mutant: the prompt that was sent stays queued.
SendQueuedTwice == toBridge' = Sent(queued) /\ UNCHANGED queued

\* sendQueuedPrompt: the prompt that waited for the bridge goes out.
SendQueued == toBridge' = Sent(queued) /\ queued' = Nothing

ReadReady ==
  /\ Reads({"ready"})
  /\ bridgeReady' = TRUE /\ uiMode' = Head(toUi).what
  /\ SendQueued
  /\ UNCHANGED <<sessionLost, waiting, composer, activeDraft, failedDrafts, activeReply,
                 steeringPending, modePending, dialogVars>>

\* The end of a turn: done, or an error that leaves the session usable.
ReadEnd ==
  /\ Reads({"done", "error"})
  /\ FinishPrompt(Head(toUi).what = "end_turn")
  /\ waiting' = FALSE /\ steeringPending' = FALSE /\ activeReply' = Nothing
  /\ ClearPermissions
  /\ UNCHANGED <<toBridge, bridgeReady, sessionLost, modeVars>>

ReadFatal ==
  /\ Reads({"fatal"})
  /\ FinishPrompt(FALSE)
  /\ bridgeReady' = FALSE /\ sessionLost' = TRUE
  /\ waiting' = FALSE /\ steeringPending' = FALSE /\ activeReply' = Nothing
  /\ ClearPermissions
  /\ UNCHANGED <<toBridge, modeVars>>

ReadSteered ==
  /\ Reads({"steered", "steering_error"})
  /\ steeringPending' = FALSE
  /\ UNCHANGED <<toBridge, bridgeReady, sessionLost, waiting, queued, composer, activeDraft,
                 failedDrafts, activeReply, modeVars, dialogVars>>

\* Mutant: a request takes the place of the one that is shown.
EnqueueOver(r) == shown' = r /\ UNCHANGED permissionQueue

\* enqueuePermission
Enqueue(r) ==
  IF shown = Nothing THEN shown' = r /\ UNCHANGED permissionQueue
  ELSE permissionQueue' = Append(permissionQueue, r) /\ UNCHANGED shown

ReadPermission ==
  /\ Reads({"permission"})
  /\ Enqueue(Head(toUi).id)
  /\ UNCHANGED <<toBridge, bridgeReady, sessionLost, waiting, queued, composer, activeDraft,
                 failedDrafts, activeReply, steeringPending, modeVars>>

ReadMode ==
  /\ Reads({"permission_mode", "permission_mode_error"})
  /\ uiMode' = Head(toUi).what /\ modePending' = FALSE
  /\ IF Head(toUi).type = "permission_mode" /\ uiMode' = "yolo"
     THEN ClearPermissions ELSE UNCHANGED dialogVars
  /\ UNCHANGED <<toBridge, bridgeReady, sessionLost, waiting, queued, composer, activeDraft,
                 failedDrafts, activeReply, steeringPending>>

\* A closed window reads nothing any more.
ReadIgnored ==
  /\ ~opened /\ toUi # <<>>
  /\ toUi' = Tail(toUi)
  /\ UNCHANGED <<uiVars, toBridge, bridgeVars, userVars>>

\* Mutant: the window goes on waiting for the bridge that is gone.
LoseSessionWaiting ==
  FinishPrompt(FALSE) /\ activeReply' = Nothing /\ sessionLost' = TRUE /\ UNCHANGED waiting

LoseSession ==
  FinishPrompt(FALSE) /\ activeReply' = Nothing /\ sessionLost' = TRUE /\ waiting' = FALSE

\* The window sees the bridge exit, after the lines it left (they were
\* written synchronously, and the pipe is drained first).
SeeExit ==
  /\ running /\ proc = "exited" /\ toUi = <<>>
  /\ running' = FALSE /\ proc' = "off" /\ toBridge' = <<>>
  /\ ClearPermissions /\ bridgeReady' = FALSE
  /\ IF opened /\ ~sessionLost
     THEN LoseSession
     ELSE UNCHANGED <<waiting, queued, composer, activeDraft, failedDrafts, activeReply, sessionLost>>
  /\ UNCHANGED <<opened, images, steeringPending, modeVars, toUi, saveVars, permissionVars,
                 workVars, agentModeVars, userVars>>
-----------------------------------------------------------------------------
(* The bridge.                                                              *)

Emit(type, id, what) == toUi' = Append(toUi, Line(type, id, what))
KindOf(mode) == IF mode = "yolo" THEN "full_access" ELSE "standard"

\* Mutant: a denial that was not offered takes the option there is.
SettleAnyhow(r, choice) ==
  CASE "allow_once" \in offers[r] /\ (choice = "allow" \/ "reject_once" \notin offers[r]) -> "allowed"
    [] choice = "deny" /\ "reject_once" \in offers[r] -> "denied"
    [] OTHER -> "cancelled"

\* The option a choice stands for, and a request that lacks it is cancelled.
Settle(r, choice) ==
  CASE choice = "allow" /\ "allow_once" \in offers[r] -> "allowed"
    [] choice = "deny" /\ "reject_once" \in offers[r] -> "denied"
    [] OTHER -> "cancelled"

\* The bridge and all it waited for are gone.
Exit ==
  /\ proc' = "exited"
  /\ turnRunning' = FALSE /\ open' = {} /\ saves' = {} /\ agentTurn' = Nothing /\ steers' = {}
  /\ UNCHANGED <<permissionMode, permissionSequence, left, verdict, offers, agentModeVars>>

\* start(): the mode the settings have by now, and a session, whose own mode is
\* set to match if the agent has such a mode and does not refuse.
Ready(mode, kinds, applied) ==
  /\ proc = "starting" /\ proc' = "up"
  /\ permissionMode' = mode /\ modes' = kinds
  /\ agentMode' = IF KindOf(mode) \notin kinds THEN "own"
                  ELSE IF applied THEN KindOf(mode) ELSE "refused"
  /\ Emit("ready", Nothing, mode)
  /\ UNCHANGED <<uiVars, toBridge, saves, permissionVars, workVars, lostVars, userVars>>

\* start() fails, the agent exits or cannot be spawned.
AgentExits ==
  /\ proc \in {"starting", "up"}
  /\ Exit /\ Emit("fatal", Nothing, "")
  /\ UNCHANGED <<uiVars, toBridge, userVars>>

\* shutdown() is done; or the bridge is killed, and says nothing.
BridgeExits ==
  /\ proc \in {"starting", "up", "closing"}
  /\ Exit
  /\ UNCHANGED <<uiVars, toBridge, toUi, userVars>>

Takes(type) ==
  /\ proc \in {"up", "closing"}
  /\ toBridge # <<>> /\ Head(toBridge).type = type
  /\ toBridge' = Tail(toBridge)
  /\ UNCHANGED <<uiVars, proc, agentModeVars, userVars, permissionMode>>

\* prompt(): refused while a turn runs, or because the agent takes no images;
\* the handler of a refusal says that no turn runs.
TakePrompt(refused) ==
  /\ Takes("prompt")
  /\ refused => Head(toBridge).id \in images
  /\ IF turnRunning \/ refused
     THEN /\ turnRunning' = FALSE /\ UNCHANGED agentTurn
          /\ Emit("error", Nothing, "")
     ELSE /\ turnRunning' = TRUE /\ agentTurn' = Head(toBridge).id
          /\ UNCHANGED toUi
  /\ UNCHANGED <<steers, saves, permissionVars>>

\* Mutant: a correction is passed on whether or not a turn runs.
SteerableAlways == TRUE

Steerable == turnRunning

\* The first part of steer().
TakeSteer ==
  /\ Takes("steer")
  /\ IF Steerable
     THEN steers' = steers \cup {Head(toBridge).id} /\ UNCHANGED toUi
     ELSE Emit("steering_error", Nothing, "") /\ UNCHANGED steers
  /\ UNCHANGED <<turnRunning, agentTurn, saves, permissionVars>>

\* answerPermission of the bridge.
TakeAnswer ==
  /\ Takes("permission")
  /\ LET r == Head(toBridge).id IN
     IF r \in open
     THEN /\ open' = open \ {r}
          /\ verdict' = [verdict EXCEPT ![r] = Settle(r, Head(toBridge).what)]
     ELSE UNCHANGED <<open, verdict>>
  /\ UNCHANGED <<toUi, saves, permissionSequence, left, offers, workVars>>

\* savePermissionMode begins.
TakeMode ==
  /\ Takes("permission_mode")
  /\ saves' = saves \cup {[id |-> Head(toBridge).id, mode |-> Head(toBridge).what,
                            step |-> "apply"]}
  /\ UNCHANGED <<toUi, permissionVars, workVars>>

\* Mutant: the window is not told of a switch that failed.
SaveFailsSilently == UNCHANGED toUi

SaveFails == Emit("permission_mode_error", Nothing, permissionMode)

\* applyAgentMode: setSessionMode is answered, if the agent has the mode.
ModeApplied(s, ok) ==
  /\ s \in saves /\ s.step = "apply"
  /\ IF ok \/ KindOf(s.mode) \notin modes
     THEN /\ saves' = (saves \ {s}) \cup {[s EXCEPT !.step = "write"]}
          /\ agentMode' = IF KindOf(s.mode) \in modes THEN KindOf(s.mode) ELSE agentMode
          /\ UNCHANGED toUi
     ELSE /\ saves' = saves \ {s} /\ SaveFails
          /\ UNCHANGED agentMode
  /\ UNCHANGED <<uiVars, toBridge, proc, permissionMode, permissionVars, workVars, modes,
                 lostVars, userVars>>

\* Mutant: the mode in memory is not the one that was written.
CommitFile(mode) == UNCHANGED permissionMode

Commit(mode) == permissionMode' = mode

\* The settings are written, and the mode committed; or they are not. In yolo
\* the requests that wait are allowed (allowAllPendingPermissions).
ModeWritten(s, ok) ==
  /\ s \in saves /\ s.step = "write"
  /\ saves' = saves \ {s} /\ unsaved' = ~ok
  /\ IF ok
     THEN /\ Commit(s.mode)
          /\ IF permissionMode' = "yolo"
             THEN /\ open' = {}
                  /\ verdict' = [r \in Permission |-> IF r \in open THEN Settle(r, "allow")
                                                      ELSE verdict[r]]
             ELSE UNCHANGED <<open, verdict>>
          /\ Emit("permission_mode", Nothing, permissionMode')
     ELSE /\ SaveFails
          /\ UNCHANGED <<permissionMode, open, verdict>>
  /\ UNCHANGED <<uiVars, toBridge, proc, permissionSequence, left, offers, workVars, agentMode, modes,
                 stranded, userVars>>
-----------------------------------------------------------------------------
(* The agent, as the bridge sees it.                                        *)

\* requestPermission, by an agent that works on a prompt.
AgentRequests(options) ==
  /\ proc \in {"up", "closing"} /\ agentTurn # Nothing
  /\ permissionSequence < MaxPermissions
  /\ permissionSequence' = permissionSequence + 1
  /\ offers' = [offers EXCEPT ![permissionSequence'] = options]
  /\ IF permissionMode = "yolo"
     THEN /\ verdict' = [verdict EXCEPT ![permissionSequence'] =
                           IF "allow_once" \in options THEN "allowed" ELSE "cancelled"]
          /\ UNCHANGED <<open, toUi>>
     ELSE /\ open' = open \cup {permissionSequence'}
          /\ Emit("permission", permissionSequence', "")
          /\ UNCHANGED verdict
  /\ UNCHANGED <<uiVars, toBridge, proc, left, saveVars, workVars, agentModeVars, userVars>>

\* The prompt is answered; an agent ends no turn in which it still waits for
\* a permission.
AgentEnds(reason) ==
  /\ agentTurn # Nothing /\ open \subseteq left
  /\ agentTurn' = Nothing /\ turnRunning' = FALSE
  /\ Emit("done", Nothing, reason)
  /\ UNCHANGED <<uiVars, toBridge, proc, saveVars, permissionVars, steers, agentModeVars,
                 userVars>>

\* The prompt is rejected, permissions it waits for or not: an error, which
\* leaves those pending in the bridge, or the loss of the session, after which
\* the bridge shuts down, or exits at once if it was shutting down already.
AgentFails(lost) ==
  /\ agentTurn # Nothing
  /\ Emit(IF lost THEN "fatal" ELSE "error", Nothing, "")
  /\ IF lost /\ proc = "closing" THEN Exit
     ELSE /\ agentTurn' = Nothing /\ turnRunning' = FALSE
          /\ IF lost THEN Shutdown
             ELSE left' = left \cup open
                  /\ UNCHANGED <<proc, open, permissionSequence, verdict, offers>>
          /\ UNCHANGED <<saveVars, steers, agentModeVars>>
  /\ UNCHANGED <<uiVars, toBridge, userVars>>

\* Mutant: a correction the agent refuses is dropped silently.
SteerReplyIfOk(ok) == IF ok THEN Emit("steered", Nothing, "") ELSE UNCHANGED toUi

SteerReply(ok) == Emit(IF ok THEN "steered" ELSE "steering_error", Nothing, "")

\* The rest of steer(): the agent answers.
AgentSteers(n, ok) ==
  /\ n \in steers /\ steers' = steers \ {n}
  /\ SteerReply(ok)
  /\ UNCHANGED <<uiVars, toBridge, proc, saveVars, permissionVars, turnRunning, agentTurn,
                 agentModeVars, userVars>>
-----------------------------------------------------------------------------
Users ==
  \/ \E withImage \in BOOLEAN : Compose(withImage)
  \/ Submit \/ SubmitSteer \/ Toggle \/ Restart \/ CloseWindow
  \/ \E p \in Prompt : Retry(p)
  \/ \E choice \in {"allow", "deny"} : Answer(choice)
WindowReads ==
  ReadReady \/ ReadEnd \/ ReadFatal \/ ReadSteered \/ ReadPermission \/ ReadMode \/ ReadIgnored
BridgeTakes == (\E refused \in BOOLEAN : TakePrompt(refused)) \/ TakeSteer \/ TakeAnswer \/ TakeMode
BridgeSaves ==
  \E s \in saves, ok \in BOOLEAN : ModeApplied(s, ok) \/ ModeWritten(s, ok)
AgentFinishes ==
  (\E reason \in {"end_turn", "stopped"} : AgentEnds(reason)) \/ (\E lost \in BOOLEAN : AgentFails(lost))

Next ==
  \/ Users \/ WindowReads \/ SeeExit
  \/ \E mode \in Mode, kinds \in SUBSET Kind, applied \in BOOLEAN : Ready(mode, kinds, applied)
  \/ AgentExits \/ BridgeExits \/ BridgeTakes \/ BridgeSaves \/ AgentFinishes
  \/ \E options \in SUBSET Option : AgentRequests(options)
  \/ \E n \in Steer, ok \in BOOLEAN : AgentSteers(n, ok)

Spec == Init /\ [][Next]_vars

\* Each process handles what is there for it; the agent ends its turns and
\* answers calls; the user answers the dialogs; a bridge shuts down in time
\* (shutdown bounds every await).
Fairness ==
  /\ WF_vars(WindowReads) /\ WF_vars(SeeExit) /\ WF_vars(BridgeTakes) /\ WF_vars(BridgeSaves)
  /\ WF_vars(AgentFinishes) /\ WF_vars(\E choice \in {"allow", "deny"} : Answer(choice))
  /\ WF_vars(\E mode \in Mode, kinds \in SUBSET Kind, applied \in BOOLEAN : Ready(mode, kinds, applied))
  /\ WF_vars(proc = "closing" /\ BridgeExits)
FairSpec == Spec /\ Fairness
-----------------------------------------------------------------------------
\* What the window writes to the bridge, and the bridge to the window.
FromWindow ==
  [type : {"prompt"}, id : Prompt, what : {""}] \cup [type : {"steer"}, id : Steer, what : {""}]
  \cup [type : {"permission"}, id : Permission, what : {"allow", "deny"}]
  \cup [type : {"permission_mode"}, id : 1..MaxToggles, what : Mode]
FromBridge ==
  [type : {"ready", "permission_mode", "permission_mode_error"}, id : {Nothing}, what : Mode]
  \cup [type : {"done"}, id : {Nothing}, what : {"end_turn", "stopped"}]
  \cup [type : {"error", "fatal", "steered", "steering_error"}, id : {Nothing}, what : {""}]
  \cup [type : {"permission"}, id : Permission, what : {""}]

TypeOK ==
  /\ opened \in BOOLEAN /\ running \in BOOLEAN /\ bridgeReady \in BOOLEAN
  /\ sessionLost \in BOOLEAN /\ waiting \in BOOLEAN /\ steeringPending \in BOOLEAN
  /\ {queued, composer, activeDraft, activeReply} \subseteq Prompt \cup {Nothing}
  /\ images \subseteq Prompt /\ failedDrafts \subseteq Prompt
  /\ uiMode \in Mode /\ modePending \in BOOLEAN
  /\ shown \in Permission \cup {Nothing} /\ permissionQueue \in Seq(Permission)
  /\ toBridge \in Seq(FromWindow) /\ toUi \in Seq(FromBridge)
  /\ proc \in {"starting", "up", "closing", "exited", "off"}
  /\ permissionMode \in Mode /\ turnRunning \in BOOLEAN
  /\ open \subseteq Permission /\ saves \subseteq Saving
  /\ permissionSequence \in 0..MaxPermissions /\ left \subseteq Permission
  /\ agentTurn \in Prompt \cup {Nothing} /\ agentMode \in Kind \cup {"own", "refused"}
  /\ modes \subseteq Kind /\ unsaved \in BOOLEAN /\ stranded \in BOOLEAN
  /\ steers \subseteq Steer
  /\ verdict \in [Permission -> Verdict] /\ offers \in [Permission -> SUBSET Option]
  /\ prompts \in 0..MaxPrompts /\ steered \in 0..MaxSteers /\ toggles \in 0..MaxToggles
  /\ sessions \in 1..MaxSessions /\ aim \in [Steer -> Prompt \cup {Nothing}]
  /\ clicked \in [Permission -> {"none", "allow", "deny"}]

Alive == proc \in {"starting", "up"}
Ended == Cardinality({i \in DOMAIN toUi : toUi[i].type \in {"done", "error"}})

\* The window and the bridge agree on whose turn it is, over two pipes: a
\* window that waits waits for exactly one prompt, which is queued, on its
\* way, with the agent, or answered; one that does not has none anywhere, so
\* the bridge never refuses a prompt because a turn runs.
TurnsInStep ==
  opened /\ Alive =>
    /\ turnRunning = (agentTurn # Nothing)
    /\ Cardinality(Ids(toBridge, "prompt")) + Ended
         + (IF queued # Nothing THEN 1 ELSE 0) + (IF turnRunning THEN 1 ELSE 0)
       = (IF waiting THEN 1 ELSE 0)

\* A correction never reaches a later turn than the one it was written in,
\* however the end of that turn and the next prompt cross it (steer).
SteersOwnTurn ==
  [][\A n \in Steer : n \notin steers /\ n \in steers' => aim[n] = agentTurn]_vars

\* The composer is never locked for a correction nobody will acknowledge.
SteerAcknowledged ==
  opened /\ Alive /\ steeringPending =>
    \/ Ids(toBridge, "steer") # {} \/ steers # {}
    \/ Types(toUi) \cap ({"steered", "steering_error"} \cup Ends) # {}

\* An image draft that was submitted is delivered by a turn that ends, or
\* comes back to the user: errors, a lost session and an exit lose none.
Held == {composer, activeDraft} \cup failedDrafts
Delivers == toUi # <<>> /\ toUi' = Tail(toUi) /\ Head(toUi) = Line("done", Nothing, "end_turn")
DraftsKept ==
  [][opened' => \A p \in images \cap Held : p \in Held' \/ (p = activeDraft /\ Delivers)]_vars

\* Every permission the running turn waits for is put to the user, and every
\* dialog is about a request that still waits, whatever switches of the mode and
\* rejected prompts cross it. A request whose prompt was rejected while it waited
\* (left) is the exception: the bridge keeps it, the window clears its dialog.
DialogsMatch ==
  opened /\ proc = "up" /\ ~sessionLost =>
    /\ open \ left \subseteq {shown} \cup ToSet(permissionQueue) \cup Ids(toUi, "permission")
                           \cup Ids(toBridge, "permission")
    /\ "permission_mode" \in Types(toUi)
       \/ (ToSet(permissionQueue) \cup {shown}) \ {Nothing} \subseteq open

\* A tool runs only with the user's consent: the user allowed this request, or
\* the bridge is in yolo and an open window shows that or has the line that says
\* it before it; and the agent offered to be allowed once.
YoloTold ==
  uiMode = "yolo"
  \/ \E i \in DOMAIN toUi :
       toUi[i].type \in {"ready", "permission_mode", "permission_mode_error"} /\ toUi[i].what = "yolo"
Consented ==
  [][\A r \in Permission :
       verdict[r] # "allowed" /\ verdict'[r] = "allowed" =>
         /\ "allow_once" \in offers'[r]
         /\ (clicked[r] = "allow" \/ (permissionMode' = "yolo" /\ (opened => YoloTold')))]_vars

\* With no switch of the mode under way, the window and the bridge agree on it,
\* whatever is written to the settings meanwhile, and so does an agent that has
\* such a mode; except one that refused it when the session started and has
\* not taken a switch since, and one that took a switch which could not be saved.
InMode == opened /\ proc = "up" /\ bridgeReady /\ ~modePending
ModesAgree ==
  InMode => /\ uiMode = permissionMode
            /\ KindOf(uiMode) \in modes /\ ~unsaved => agentMode \in {KindOf(uiMode), "refused"}

\* A turn does not run for ever, whatever fails on the way: the window that
\* waits is given an end.
TurnEnds == waiting ~> ~waiting

\* The mode button is never disabled for an answer nobody will give: the
\* switch is on its way, being saved, or answered; except one that was under
\* way when its bridge exited (setPermissionMode waits for it all the same).
SwitchAcknowledged ==
  opened /\ Alive /\ modePending /\ ~stranded =>
    \/ "permission_mode" \in Types(toBridge) \/ saves # {}
    \/ Types(toUi) \cap {"permission_mode", "permission_mode_error"} # {}
=============================================================================
