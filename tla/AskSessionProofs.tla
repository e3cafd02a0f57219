-------------------------- MODULE AskSessionProofs --------------------------
(***************************************************************************)
(* Theorems about AskSession, for every number of prompts, corrections,    *)
(* switches of the mode, permission requests and bridges.                  *)
(***************************************************************************)
EXTENDS AskSession, SequenceTheorems, FiniteSetTheorems, TLAPS

USE DEF draftVars, turnVars, modeVars, dialogVars, lifeVars, uiVars, saveVars, permissionVars,
        workVars, lostVars, agentModeVars, bridgeVars, userVars, Nothing

(* The type invariant by parts: the window, the pipes, the bridge and its    *)
(* agent, what the user did.                                                 *)
Flags ==
  /\ opened \in BOOLEAN /\ running \in BOOLEAN /\ bridgeReady \in BOOLEAN
  /\ sessionLost \in BOOLEAN /\ waiting \in BOOLEAN /\ steeringPending \in BOOLEAN
  /\ modePending \in BOOLEAN
Drafts ==
  /\ queued \in Prompt \cup {Nothing} /\ composer \in Prompt \cup {Nothing}
  /\ activeDraft \in Prompt \cup {Nothing} /\ activeReply \in Prompt \cup {Nothing}
  /\ images \subseteq Prompt /\ failedDrafts \subseteq Prompt
View ==
  /\ uiMode \in Mode
  /\ shown \in Permission \cup {Nothing} /\ permissionQueue \in Seq(Permission)
Pipes == toBridge \in Seq(FromWindow) /\ toUi \in Seq(FromBridge)
Bridge ==
  /\ proc \in {"starting", "up", "closing", "exited", "off"}
  /\ permissionMode \in Mode /\ turnRunning \in BOOLEAN
  /\ open \subseteq Permission /\ saves \subseteq Saving
  /\ permissionSequence \in 0..MaxPermissions /\ left \subseteq Permission
Agent ==
  /\ agentTurn \in Prompt \cup {Nothing} /\ agentMode \in Kind \cup {"own", "refused"}
  /\ modes \subseteq Kind /\ unsaved \in BOOLEAN /\ stranded \in BOOLEAN
  /\ steers \subseteq Steer
  /\ verdict \in [Permission -> Verdict] /\ offers \in [Permission -> SUBSET Option]
User ==
  /\ prompts \in 0..MaxPrompts /\ steered \in 0..MaxSteers /\ toggles \in 0..MaxToggles
  /\ sessions \in 1..MaxSessions /\ aim \in [Steer -> Prompt \cup {Nothing}]
  /\ clicked \in [Permission -> {"none", "allow", "deny"}]

LEMMA TypeParts == TypeOK <=> Flags /\ Drafts /\ View /\ Pipes /\ Bridge /\ Agent /\ User
BY DEF TypeOK, Flags, Drafts, View, Pipes, Bridge, Agent, User

LEMMA NextTypeParts ==
  Flags' /\ Drafts' /\ View' /\ Pipes' /\ Bridge' /\ Agent' /\ User' => TypeOK'
BY DEF TypeOK, Flags, Drafts, View, Pipes, Bridge, Agent, User

LEMMA Appended ==
  ASSUME NEW L, NEW s \in Seq(L), NEW e \in L
  PROVE  /\ Append(s, e) \in Seq(L) /\ Append(s, e) # <<>>
         /\ DOMAIN s \subseteq Nat /\ Len(s) + 1 \notin DOMAIN s
         /\ DOMAIN Append(s, e) = DOMAIN s \cup {Len(s) + 1}
         /\ \A i \in DOMAIN s : Append(s, e)[i] = s[i] /\ i < Len(s) + 1
         /\ Append(s, e)[Len(s) + 1] = e
OBVIOUS

LEMMA Removed ==
  ASSUME NEW L, NEW s \in Seq(L), s # <<>>
  PROVE  /\ Tail(s) \in Seq(L) /\ Head(s) \in L
         /\ DOMAIN s \subseteq Nat /\ 1 \in DOMAIN s /\ s[1] = Head(s)
         /\ \A i \in DOMAIN Tail(s) : i + 1 \in DOMAIN s /\ Tail(s)[i] = s[i + 1] /\ i \in Nat /\ i >= 1
         /\ \A i \in DOMAIN s : i # 1 => i - 1 \in DOMAIN Tail(s) /\ Tail(s)[i - 1] = s[i] /\ i > 1
OBVIOUS

\* A line of either kind fits its pipe, and what is taken from one is a line.
LEMMA PipesAppend ==
  ASSUME Pipes
  PROVE  /\ \A l \in FromWindow : Append(toBridge, l) \in Seq(FromWindow)
         /\ \A l \in FromBridge : Append(toUi, l) \in Seq(FromBridge)
BY Appended DEF Pipes

LEMMA PipesTail ==
  ASSUME Pipes
  PROVE  /\ toBridge # <<>> => Head(toBridge) \in FromWindow /\ Tail(toBridge) \in Seq(FromWindow)
         /\ toUi # <<>> => Head(toUi) \in FromBridge /\ Tail(toUi) \in Seq(FromBridge)
BY Removed DEF Pipes

\* The lines of each pipe.
LEMMA WindowLines ==
  /\ \A p \in Prompt : Line("prompt", p, "") \in FromWindow
  /\ \A n \in Steer : Line("steer", n, "") \in FromWindow
  /\ \A r \in Permission, choice \in {"allow", "deny"} : Line("permission", r, choice) \in FromWindow
  /\ \A t \in 1..MaxToggles, m \in Mode : Line("permission_mode", t, m) \in FromWindow
BY DEF Line, FromWindow

LEMMA BridgeLines ==
  /\ \A m \in Mode : /\ Line("ready", Nothing, m) \in FromBridge
                     /\ Line("permission_mode", Nothing, m) \in FromBridge
                     /\ Line("permission_mode_error", Nothing, m) \in FromBridge
  /\ \A reason \in {"end_turn", "stopped"} : Line("done", Nothing, reason) \in FromBridge
  /\ \A type \in {"error", "fatal", "steered", "steering_error"} :
       Line(type, Nothing, "") \in FromBridge
  /\ \A r \in Permission : Line("permission", r, "") \in FromBridge
BY DEF Line, FromBridge

\* What a line of a type carries.
LEMMA Payloads ==
  /\ \A l \in FromWindow :
       /\ l.type \in {"prompt", "steer", "permission", "permission_mode"}
       /\ l.type = "prompt" => l.id \in Prompt
       /\ l.type = "steer" => l.id \in Steer
       /\ l.type = "permission" => l.id \in Permission /\ l.what \in {"allow", "deny"}
       /\ l.type = "permission_mode" => l.id \in 1..MaxToggles /\ l.what \in Mode
  /\ \A l \in FromBridge :
       /\ l.type \in {"ready", "permission_mode", "permission_mode_error"} => l.what \in Mode
       /\ l.type = "permission" => l.id \in Permission
       /\ l.type # "permission" => l.id = Nothing
       /\ l.type = "error" => l.what = ""
BY DEF FromWindow, FromBridge

-----------------------------------------------------------------------------
(* The steps of the bridge and the agent leave the window alone, but for the *)
(* pipes; those of the window leave the bridge alone, unless it is started   *)
(* or stopped.                                                               *)
BridgeStep ==
  \/ \E mode \in Mode, kinds \in SUBSET Kind, applied \in BOOLEAN : Ready(mode, kinds, applied)
  \/ AgentExits \/ BridgeExits \/ BridgeTakes \/ BridgeSaves \/ AgentFinishes
  \/ \E options \in SUBSET Option : AgentRequests(options)
  \/ \E n \in Steer, ok \in BOOLEAN : AgentSteers(n, ok)
WindowStep ==
  \/ \E withImage \in BOOLEAN : Compose(withImage)
  \/ Submit \/ SubmitSteer \/ Toggle
  \/ \E p \in Prompt : Retry(p)
  \/ \E choice \in {"allow", "deny"} : Answer(choice)
  \/ WindowReads
Turnover == Restart \/ CloseWindow \/ SeeExit

LEMMA NextSplit == Next => WindowStep \/ Turnover \/ BridgeStep
BY DEF Next, WindowStep, Turnover, BridgeStep, Users

LEMMA BridgeSteps == BridgeStep => UNCHANGED <<uiVars, userVars>>
<1> SUFFICES ASSUME BridgeStep PROVE UNCHANGED <<uiVars, userVars>>
  OBVIOUS
<1>1. ASSUME NEW mode \in Mode, NEW kinds \in SUBSET Kind, NEW applied \in BOOLEAN,
             Ready(mode, kinds, applied)
      PROVE  UNCHANGED <<uiVars, userVars>>
  BY <1>1 DEF Ready
<1>2. CASE AgentExits
  BY <1>2 DEF AgentExits
<1>3. CASE BridgeExits
  BY <1>3 DEF BridgeExits
<1>4. CASE BridgeTakes
  BY <1>4 DEF BridgeTakes, TakePrompt, TakeSteer, TakeAnswer, TakeMode, Takes
<1>5. CASE BridgeSaves
  BY <1>5 DEF BridgeSaves, ModeApplied, ModeWritten
<1>6. CASE AgentFinishes
  BY <1>6 DEF AgentFinishes, AgentEnds, AgentFails
<1>7. ASSUME NEW options \in SUBSET Option, AgentRequests(options)
      PROVE  UNCHANGED <<uiVars, userVars>>
  BY <1>7 DEF AgentRequests
<1>8. ASSUME NEW n \in Steer, NEW ok \in BOOLEAN, AgentSteers(n, ok)
      PROVE  UNCHANGED <<uiVars, userVars>>
  BY <1>8 DEF AgentSteers
<1> QED BY <1>1, <1>2, <1>3, <1>4, <1>5, <1>6, <1>7, <1>8 DEF BridgeStep

LEMMA WindowSteps == WindowStep => UNCHANGED <<opened, running, bridgeVars, sessions>>
<1> SUFFICES ASSUME WindowStep PROVE UNCHANGED <<opened, running, bridgeVars, sessions>>
  OBVIOUS
<1>1. ASSUME NEW withImage \in BOOLEAN, Compose(withImage)
      PROVE  UNCHANGED <<opened, running, bridgeVars, sessions>>
  BY <1>1 DEF Compose
<1>2. ASSUME NEW p \in Prompt, Retry(p)
      PROVE  UNCHANGED <<opened, running, bridgeVars, sessions>>
  BY <1>2 DEF Retry
<1>3. ASSUME NEW choice \in {"allow", "deny"}, Answer(choice)
      PROVE  UNCHANGED <<opened, running, bridgeVars, sessions>>
  BY <1>3 DEF Answer
<1>4. CASE Submit
  BY <1>4 DEF Submit
<1>5. CASE SubmitSteer
  BY <1>5 DEF SubmitSteer
<1>6. CASE Toggle
  BY <1>6 DEF Toggle
<1>7. CASE WindowReads
  BY <1>7 DEF WindowReads, ReadReady, ReadEnd, ReadFatal, ReadSteered, ReadPermission,
              ReadMode, ReadIgnored, Reads
<1> QED BY <1>1, <1>2, <1>3, <1>4, <1>5, <1>6, <1>7 DEF WindowStep

\* The counters stay in their bounds.
LEMMA Bounds ==
  /\ \A k \in 0..MaxPrompts : k < MaxPrompts => k + 1 \in 0..MaxPrompts /\ k + 1 \in Prompt
  /\ \A k \in 0..MaxSteers : k < MaxSteers => k + 1 \in 0..MaxSteers /\ k + 1 \in Steer
  /\ \A k \in 0..MaxToggles : k < MaxToggles => k + 1 \in 0..MaxToggles /\ k + 1 \in 1..MaxToggles
  /\ \A k \in 0..MaxPermissions :
       k < MaxPermissions => k + 1 \in 0..MaxPermissions /\ k + 1 \in Permission
  /\ \A k \in 1..MaxSessions : k < MaxSessions => k + 1 \in 1..MaxSessions
  /\ 0 \in 0..MaxPrompts /\ 0 \in 0..MaxSteers /\ 0 \in 0..MaxToggles /\ 0 \in 0..MaxPermissions
  /\ 1 \in 1..MaxSessions
BY SessionAssumption DEF Prompt, Steer, Permission

LEMMA FlagsWindow == TypeOK /\ WindowStep => Flags'
<1> SUFFICES ASSUME TypeOK, WindowStep PROVE Flags'
  OBVIOUS
<1> USE TypeParts DEF Flags
<1>1. ASSUME NEW withImage \in BOOLEAN, Compose(withImage)
      PROVE  Flags'
  BY <1>1, Zenon DEF Compose
<1>2. CASE Submit
  BY <1>2, Zenon DEF Submit, StartPrompt
<1>3. ASSUME NEW p \in Prompt, Retry(p)
      PROVE  Flags'
  BY <1>3, Zenon DEF Retry, StartPrompt
<1>4. CASE SubmitSteer
  BY <1>4, Zenon DEF SubmitSteer
<1>5. CASE Toggle
  BY <1>5, Zenon DEF Toggle
<1>6. ASSUME NEW choice \in {"allow", "deny"}, Answer(choice)
      PROVE  Flags'
  BY <1>6, Zenon DEF Answer, ShowNext
<1>7. CASE ReadReady
  BY <1>7, Zenon DEF ReadReady, Reads, SendQueued, Sent
<1>8. CASE ReadEnd
  BY <1>8, Zenon DEF ReadEnd, Reads, FinishPrompt, ClearPermissions
<1>9. CASE ReadFatal
  BY <1>9, Zenon DEF ReadFatal, Reads, FinishPrompt, ClearPermissions
<1>10. CASE ReadSteered
  BY <1>10, Zenon DEF ReadSteered, Reads
<1>11. CASE ReadPermission
  BY <1>11, Zenon DEF ReadPermission, Reads, Enqueue
<1>12. CASE ReadMode
  BY <1>12, Zenon DEF ReadMode, Reads, ClearPermissions
<1>13. CASE ReadIgnored
  BY <1>13, Zenon DEF ReadIgnored
<1> QED
  BY <1>1, <1>2, <1>3, <1>4, <1>5, <1>6, <1>7, <1>8, <1>9, <1>10, <1>11, <1>12, <1>13 DEF
     WindowStep, WindowReads

LEMMA DraftsWindow == TypeOK /\ WindowStep => Drafts'
<1> SUFFICES ASSUME TypeOK, WindowStep PROVE Drafts'
  OBVIOUS
<1> USE TypeParts DEF Drafts
<1>1. ASSUME NEW withImage \in BOOLEAN, Compose(withImage)
      PROVE  Drafts'
  BY <1>1, Bounds DEF User, Compose
<1>2. CASE Submit
  BY <1>2 DEF Prompt, Submit, StartPrompt
<1>3. ASSUME NEW p \in Prompt, Retry(p)
      PROVE  Drafts'
  BY <1>3 DEF Prompt, Retry, StartPrompt
<1>4. CASE SubmitSteer
  BY <1>4, SessionAssumption DEF Prompt, SubmitSteer
<1>5. CASE Toggle
  BY <1>5, SessionAssumption DEF Prompt, Toggle
<1>6. ASSUME NEW choice \in {"allow", "deny"}, Answer(choice)
      PROVE  Drafts'
  BY <1>6 DEF Prompt, Answer, ShowNext
<1>7. CASE ReadReady
  BY <1>7 DEF Prompt, ReadReady, Reads, SendQueued, Sent
<1>8. CASE ReadEnd
  BY <1>8 DEF Prompt, ReadEnd, Reads, FinishPrompt, ClearPermissions
<1>9. CASE ReadFatal
  BY <1>9 DEF Prompt, ReadFatal, Reads, FinishPrompt, ClearPermissions
<1>10. CASE ReadSteered
  BY <1>10 DEF Prompt, ReadSteered, Reads
<1>11. CASE ReadPermission
  BY <1>11 DEF Prompt, ReadPermission, Reads, Enqueue
<1>12. CASE ReadMode
  BY <1>12 DEF Prompt, ReadMode, Reads, ClearPermissions
<1>13. CASE ReadIgnored
  BY <1>13 DEF Prompt, ReadIgnored
<1> QED
  BY <1>1, <1>2, <1>3, <1>4, <1>5, <1>6, <1>7, <1>8, <1>9, <1>10, <1>11, <1>12, <1>13 DEF
     WindowStep, WindowReads

LEMMA ViewWindow == TypeOK /\ WindowStep => View'
<1> SUFFICES ASSUME TypeOK, WindowStep PROVE View'
  OBVIOUS
<1> USE TypeParts DEF View
<1>1. ASSUME NEW withImage \in BOOLEAN, Compose(withImage)
      PROVE  View'
  BY <1>1 DEF Compose
<1>2. CASE Submit
  BY <1>2 DEF Submit, StartPrompt
<1>3. ASSUME NEW p \in Prompt, Retry(p)
      PROVE  View'
  BY <1>3 DEF Retry, StartPrompt
<1>4. CASE SubmitSteer
  BY <1>4 DEF SubmitSteer
<1>5. CASE Toggle
  BY <1>5 DEF Toggle
<1>6. ASSUME NEW choice \in {"allow", "deny"}, Answer(choice)
      PROVE  View'
  BY <1>6 DEF Answer, ShowNext
<1>7. CASE ReadReady
  BY <1>7, PipesTail, Payloads DEF ReadReady, Reads, SendQueued, Sent
<1>8. CASE ReadEnd
  BY <1>8 DEF ReadEnd, Reads, FinishPrompt, ClearPermissions
<1>9. CASE ReadFatal
  BY <1>9 DEF ReadFatal, Reads, FinishPrompt, ClearPermissions
<1>10. CASE ReadSteered
  BY <1>10 DEF ReadSteered, Reads
<1>11. CASE ReadPermission
  <2>1. Head(toUi) \in FromBridge /\ Head(toUi).type = "permission"
    BY <1>11, PipesTail DEF ReadPermission, Reads
  <2>2. Head(toUi).id \in Permission
    BY <2>1, Payloads
  <2> QED BY <1>11, <2>2 DEF ReadPermission, Enqueue
<1>12. CASE ReadMode
  <2>1. Head(toUi) \in FromBridge /\ Head(toUi).type \in {"permission_mode", "permission_mode_error"}
    BY <1>12, PipesTail DEF ReadMode, Reads
  <2>2. Head(toUi).what \in Mode
    BY <2>1, Payloads
  <2>3. \/ shown' = shown /\ permissionQueue' = permissionQueue
        \/ shown' = Nothing /\ permissionQueue' = <<>>
    BY <1>12 DEF ReadMode, ClearPermissions
  <2>4. shown \in Permission \cup {Nothing} /\ permissionQueue \in Seq(Permission)
    OBVIOUS
  <2>6. <<>> \in Seq(Permission) /\ Nothing \in Permission \cup {Nothing}
    OBVIOUS
  <2>5. uiMode' \in Mode
    BY <1>12, <2>2 DEF ReadMode
  <2> QED BY <2>3, <2>4, <2>5, <2>6
<1>13. CASE ReadIgnored
  BY <1>13 DEF ReadIgnored
<1> QED
  BY <1>1, <1>2, <1>3, <1>4, <1>5, <1>6, <1>7, <1>8, <1>9, <1>10, <1>11, <1>12, <1>13 DEF
     WindowStep, WindowReads

LEMMA UserWindow == TypeOK /\ WindowStep => User'
<1> SUFFICES ASSUME TypeOK, WindowStep PROVE User'
  OBVIOUS
<1> USE TypeParts DEF User
<1>1. ASSUME NEW withImage \in BOOLEAN, Compose(withImage)
      PROVE  User'
  BY <1>1, SessionAssumption DEF Steer, Prompt, Drafts, View, Compose
<1>2. CASE Submit
  BY <1>2 DEF Steer, Prompt, Drafts, View, Submit, StartPrompt
<1>3. ASSUME NEW p \in Prompt, Retry(p)
      PROVE  User'
  BY <1>3 DEF Steer, Prompt, Drafts, View, Retry, StartPrompt
<1>4. CASE SubmitSteer
  BY <1>4, Bounds DEF Drafts, SubmitSteer
<1>5. CASE Toggle
  BY <1>5, SessionAssumption DEF Steer, Prompt, Drafts, View, Toggle
<1>6. ASSUME NEW choice \in {"allow", "deny"}, Answer(choice)
      PROVE  User'
  BY <1>6 DEF Steer, Prompt, Drafts, View, Answer, ShowNext
<1>7. CASE ReadReady
  BY <1>7 DEF Steer, Prompt, Drafts, View, ReadReady, Reads, SendQueued, Sent
<1>8. CASE ReadEnd
  BY <1>8 DEF Steer, Prompt, Drafts, View, ReadEnd, Reads, FinishPrompt, ClearPermissions
<1>9. CASE ReadFatal
  BY <1>9 DEF Steer, Prompt, Drafts, View, ReadFatal, Reads, FinishPrompt, ClearPermissions
<1>10. CASE ReadSteered
  BY <1>10 DEF Steer, Prompt, Drafts, View, ReadSteered, Reads
<1>11. CASE ReadPermission
  BY <1>11 DEF Steer, Prompt, Drafts, View, ReadPermission, Reads, Enqueue
<1>12. CASE ReadMode
  BY <1>12 DEF Steer, Prompt, Drafts, View, ReadMode, Reads, ClearPermissions
<1>13. CASE ReadIgnored
  BY <1>13 DEF Steer, Prompt, Drafts, View, ReadIgnored
<1> QED
  BY <1>1, <1>2, <1>3, <1>4, <1>5, <1>6, <1>7, <1>8, <1>9, <1>10, <1>11, <1>12, <1>13 DEF
     WindowStep, WindowReads

LEMMA PipesWindow == TypeOK /\ WindowStep => Pipes'
<1> SUFFICES ASSUME TypeOK, WindowStep PROVE Pipes'
  OBVIOUS
<1> USE TypeParts, PipesTail DEF Pipes
<1>1. ASSUME NEW withImage \in BOOLEAN, Compose(withImage)
      PROVE  Pipes'
  BY <1>1 DEF Compose
<1>2. CASE Submit
  BY <1>2, PipesAppend, WindowLines DEF Submit, StartPrompt, Drafts
<1>3. ASSUME NEW p \in Prompt, Retry(p)
      PROVE  Pipes'
  BY <1>3, PipesAppend, WindowLines DEF Retry, StartPrompt
<1>4. CASE SubmitSteer
  BY <1>4, PipesAppend, WindowLines, Bounds DEF SubmitSteer, User
<1>5. CASE Toggle
  BY <1>5, PipesAppend, WindowLines, Bounds DEF Toggle, User
<1>6. ASSUME NEW choice \in {"allow", "deny"}, Answer(choice)
      PROVE  Pipes'
  BY <1>6, PipesAppend, WindowLines DEF Answer, ShowNext, View
<1>7. CASE ReadReady
  BY <1>7, PipesAppend, WindowLines DEF ReadReady, Reads, SendQueued, Sent, Drafts
<1>8. CASE ReadEnd
  BY <1>8 DEF ReadEnd, Reads, FinishPrompt, ClearPermissions
<1>9. CASE ReadFatal
  BY <1>9 DEF ReadFatal, Reads, FinishPrompt, ClearPermissions
<1>10. CASE ReadSteered
  BY <1>10 DEF ReadSteered, Reads
<1>11. CASE ReadPermission
  BY <1>11 DEF ReadPermission, Reads, Enqueue
<1>12. CASE ReadMode
  BY <1>12 DEF ReadMode, Reads, ClearPermissions
<1>13. CASE ReadIgnored
  BY <1>13 DEF ReadIgnored
<1> QED
  BY <1>1, <1>2, <1>3, <1>4, <1>5, <1>6, <1>7, <1>8, <1>9, <1>10, <1>11, <1>12, <1>13 DEF
     WindowStep, WindowReads

LEMMA PipesBridge == TypeOK /\ BridgeStep => Pipes'
<1> SUFFICES ASSUME TypeOK, BridgeStep PROVE Pipes'
  OBVIOUS
<1> USE TypeParts, PipesTail, PipesAppend, BridgeLines DEF Pipes
<1>1. ASSUME NEW mode \in Mode, NEW kinds \in SUBSET Kind, NEW applied \in BOOLEAN,
             Ready(mode, kinds, applied)
      PROVE  Pipes'
  BY <1>1 DEF Ready, Emit, Bridge
<1>2. CASE AgentExits
  BY <1>2 DEF AgentExits, Exit, Emit
<1>3. CASE BridgeExits
  BY <1>3 DEF BridgeExits, Exit
<1>4. ASSUME NEW refused \in BOOLEAN, TakePrompt(refused)
      PROVE  Pipes'
  BY <1>4 DEF TakePrompt, Takes, Emit
<1>5. CASE TakeSteer
  BY <1>5 DEF TakeSteer, Takes, Emit
<1>6. CASE TakeAnswer
  BY <1>6 DEF TakeAnswer, Takes
<1>7. CASE TakeMode
  BY <1>7 DEF TakeMode, Takes
<1>8. ASSUME NEW s \in saves, NEW ok \in BOOLEAN, ModeApplied(s, ok)
      PROVE  Pipes'
  BY <1>8 DEF ModeApplied, SaveFails, Emit, Bridge
<1>9. ASSUME NEW s \in saves, NEW ok \in BOOLEAN, ModeWritten(s, ok)
      PROVE  Pipes'
  BY <1>9 DEF ModeWritten, Commit, SaveFails, Emit, Bridge, Saving
<1>10. ASSUME NEW reason \in {"end_turn", "stopped"}, AgentEnds(reason)
      PROVE  Pipes'
  BY <1>10 DEF AgentEnds, Emit
<1>11. ASSUME NEW lost \in BOOLEAN, AgentFails(lost)
      PROVE  Pipes'
  BY <1>11 DEF AgentFails, Shutdown, Exit, Emit
<1>12. ASSUME NEW options \in SUBSET Option, AgentRequests(options)
      PROVE  Pipes'
  BY <1>12, Bounds DEF AgentRequests, Emit, Bridge
<1>13. ASSUME NEW n \in Steer, NEW ok \in BOOLEAN, AgentSteers(n, ok)
      PROVE  Pipes'
  BY <1>13 DEF AgentSteers, SteerReply, Emit
<1> QED
  BY <1>1, <1>2, <1>3, <1>4, <1>5, <1>6, <1>7, <1>8, <1>9, <1>10, <1>11, <1>12, <1>13 DEF
     BridgeStep, BridgeTakes, BridgeSaves, AgentFinishes

LEMMA BridgeBridge == TypeOK /\ BridgeStep => Bridge'
<1> SUFFICES ASSUME TypeOK, BridgeStep PROVE Bridge'
  OBVIOUS
<1> USE TypeParts, PipesTail, Payloads DEF Bridge
<1>1. ASSUME NEW mode \in Mode, NEW kinds \in SUBSET Kind, NEW applied \in BOOLEAN,
             Ready(mode, kinds, applied)
      PROVE  Bridge'
  BY <1>1 DEF Ready, Emit
<1>2. CASE AgentExits
  BY <1>2 DEF AgentExits, Exit, Emit
<1>3. CASE BridgeExits
  BY <1>3 DEF BridgeExits, Exit
<1>4. ASSUME NEW refused \in BOOLEAN, TakePrompt(refused)
      PROVE  Bridge'
  BY <1>4 DEF TakePrompt, Takes, Emit
<1>5. CASE TakeSteer
  BY <1>5 DEF TakeSteer, Takes, Emit
<1>6. CASE TakeAnswer
  BY <1>6 DEF TakeAnswer, Takes
<1>7. CASE TakeMode
  <2>1. Head(toBridge).id \in 1..MaxToggles /\ Head(toBridge).what \in Mode
    BY <1>7 DEF TakeMode, Takes
  <2>2. [id |-> Head(toBridge).id, mode |-> Head(toBridge).what, step |-> "apply"] \in Saving
    BY <2>1 DEF Saving
  <2> QED BY <1>7, <2>2 DEF TakeMode, Takes
<1>8. ASSUME NEW s \in saves, NEW ok \in BOOLEAN, ModeApplied(s, ok)
      PROVE  Bridge'
  <2>1. s \in Saving /\ [s EXCEPT !.step = "write"] \in Saving
    BY DEF Saving
  <2>2. saves' \subseteq saves \cup {[s EXCEPT !.step = "write"]}
    BY <1>8 DEF ModeApplied
  <2> QED BY <1>8, <2>1, <2>2 DEF ModeApplied
<1>9. ASSUME NEW s \in saves, NEW ok \in BOOLEAN, ModeWritten(s, ok)
      PROVE  Bridge'
  BY <1>9 DEF ModeWritten, Commit, SaveFails, Emit, Saving
<1>10. ASSUME NEW reason \in {"end_turn", "stopped"}, AgentEnds(reason)
      PROVE  Bridge'
  BY <1>10 DEF AgentEnds, Emit
<1>11. ASSUME NEW lost \in BOOLEAN, AgentFails(lost)
      PROVE  Bridge'
  BY <1>11 DEF AgentFails, Shutdown, Exit, Emit
<1>12. ASSUME NEW options \in SUBSET Option, AgentRequests(options)
      PROVE  Bridge'
  BY <1>12, Bounds DEF AgentRequests, Emit
<1>13. ASSUME NEW n \in Steer, NEW ok \in BOOLEAN, AgentSteers(n, ok)
      PROVE  Bridge'
  BY <1>13 DEF AgentSteers, SteerReply, Emit
<1> QED
  BY <1>1, <1>2, <1>3, <1>4, <1>5, <1>6, <1>7, <1>8, <1>9, <1>10, <1>11, <1>12, <1>13 DEF
     BridgeStep, BridgeTakes, BridgeSaves, AgentFinishes

LEMMA AgentBridge == TypeOK /\ BridgeStep => Agent'
<1> SUFFICES ASSUME TypeOK, BridgeStep PROVE Agent'
  OBVIOUS
<1> USE TypeParts, PipesTail, Payloads DEF Agent
<1>1. ASSUME NEW mode \in Mode, NEW kinds \in SUBSET Kind, NEW applied \in BOOLEAN,
             Ready(mode, kinds, applied)
      PROVE  Agent'
  BY <1>1 DEF Ready, KindOf, Kind
<1>2. CASE AgentExits
  BY <1>2 DEF AgentExits, Exit
<1>3. CASE BridgeExits
  BY <1>3 DEF BridgeExits, Exit
<1>4. ASSUME NEW refused \in BOOLEAN, TakePrompt(refused)
      PROVE  Agent'
  BY <1>4 DEF TakePrompt, Takes
<1>5. CASE TakeSteer
  BY <1>5 DEF TakeSteer, Takes
<1>6. CASE TakeAnswer
  BY <1>6 DEF TakeAnswer, Takes, Verdict, Settle
<1>7. CASE TakeMode
  BY <1>7 DEF TakeMode, Takes
<1>8. ASSUME NEW s \in saves, NEW ok \in BOOLEAN, ModeApplied(s, ok)
      PROVE  Agent'
  BY <1>8 DEF ModeApplied, SaveFails, KindOf, Kind
<1>9. ASSUME NEW s \in saves, NEW ok \in BOOLEAN, ModeWritten(s, ok)
      PROVE  Agent'
  BY <1>9 DEF ModeWritten, Commit, SaveFails, Verdict, Settle
<1>10. ASSUME NEW reason \in {"end_turn", "stopped"}, AgentEnds(reason)
      PROVE  Agent'
  BY <1>10 DEF AgentEnds
<1>11. ASSUME NEW lost \in BOOLEAN, AgentFails(lost)
      PROVE  Agent'
  <2>1. UNCHANGED <<steers, agentModeVars, offers>> \/ (steers' = {} /\ UNCHANGED <<agentModeVars, offers>>)
    BY <1>11 DEF AgentFails, Shutdown, Exit
  <2>2. verdict' = verdict
        \/ verdict' = [r \in Permission |-> IF r \in open THEN "cancelled" ELSE verdict[r]]
    BY <1>11 DEF AgentFails, Shutdown, Exit
  <2>3. verdict' \in [Permission -> Verdict]
    BY <2>2 DEF Verdict
  <2>4. agentTurn' = Nothing
    BY <1>11 DEF AgentFails, Exit
  <2> QED BY <2>1, <2>3, <2>4
<1>12. ASSUME NEW options \in SUBSET Option, AgentRequests(options)
      PROVE  Agent'
  BY <1>12, SessionAssumption DEF AgentRequests, Permission, Bridge, Verdict
<1>13. ASSUME NEW n \in Steer, NEW ok \in BOOLEAN, AgentSteers(n, ok)
      PROVE  Agent'
  BY <1>13 DEF AgentSteers, SteerReply
<1> QED
  BY <1>1, <1>2, <1>3, <1>4, <1>5, <1>6, <1>7, <1>8, <1>9, <1>10, <1>11, <1>12, <1>13 DEF
     BridgeStep, BridgeTakes, BridgeSaves, AgentFinishes

LEMMA TurnoverTyped == TypeOK /\ Turnover => TypeOK'
<1> SUFFICES ASSUME TypeOK, Turnover PROVE TypeOK'
  OBVIOUS
<1> USE TypeParts
<1>1. CASE Restart
  <2>1. Flags'
    BY <1>1, Zenon DEF Flags, Restart
  <2>2. Drafts'
    BY <1>1 DEF Drafts, Restart
  <2>3. View'
    BY <1>1 DEF View, Restart
  <2>4. Pipes'
    BY <1>1 DEF Pipes, Restart
  <2>5. Bridge'
    BY <1>1, SessionAssumption DEF Bridge, Restart, Mode
  <2>6. Agent'
    <3>1. verdict' \in [Permission -> Verdict] /\ offers' \in [Permission -> SUBSET Option]
      BY <1>1 DEF Restart, Verdict
    <3>2. stranded' \in BOOLEAN
      BY <1>1, Zenon DEF Flags, Restart
    <3> QED BY <1>1, <3>1, <3>2 DEF Agent, Restart
  <2>7. User'
    BY <1>1, Bounds DEF User, Restart
  <2> QED BY <2>1, <2>2, <2>3, <2>4, <2>5, <2>6, <2>7, NextTypeParts
<1>2. CASE CloseWindow
  <2>1. Flags'
    BY <1>2, Zenon DEF Flags, CloseWindow, Shutdown
  <2>2. Drafts'
    BY <1>2 DEF Drafts, CloseWindow, Shutdown
  <2>3. View'
    BY <1>2 DEF View, CloseWindow, Shutdown
  <2>4. Pipes'
    BY <1>2 DEF Pipes, CloseWindow, Shutdown
  <2>5. Bridge'
    BY <1>2, SessionAssumption DEF Bridge, CloseWindow, Shutdown, Mode
  <2>6. Agent'
    BY <1>2, SessionAssumption DEF Agent, CloseWindow, Shutdown, Kind, Verdict
  <2>7. User'
    BY <1>2 DEF User, CloseWindow
  <2> QED BY <2>1, <2>2, <2>3, <2>4, <2>5, <2>6, <2>7, NextTypeParts
<1>3. CASE SeeExit
  <2>1. Flags'
    BY <1>3, Zenon DEF Flags, SeeExit, ClearPermissions, LoseSession, FinishPrompt
  <2>2. Drafts'
    BY <1>3 DEF Drafts, SeeExit, ClearPermissions, LoseSession, FinishPrompt
  <2>3. View'
    BY <1>3 DEF View, SeeExit, ClearPermissions, LoseSession, FinishPrompt
  <2>4. Pipes'
    BY <1>3 DEF Pipes, SeeExit, ClearPermissions, LoseSession, FinishPrompt
  <2>5. Bridge'
    BY <1>3, SessionAssumption DEF Bridge, SeeExit, ClearPermissions, LoseSession, FinishPrompt,
       Mode
  <2>6. Agent'
    BY <1>3, SessionAssumption DEF Agent, SeeExit, ClearPermissions, LoseSession, FinishPrompt,
       Kind, Verdict
  <2>7. User'
    BY <1>3 DEF User, SeeExit
  <2> QED BY <2>1, <2>2, <2>3, <2>4, <2>5, <2>6, <2>7, NextTypeParts
<1> QED BY <1>1, <1>2, <1>3 DEF Turnover

LEMMA TypeInit == Init => TypeOK
<1> SUFFICES ASSUME Init PROVE TypeOK
  OBVIOUS
<1>1. Flags
  BY Zenon DEF Init, Flags
<1>2. Drafts /\ View
  BY DEF Init, Drafts, View, Mode
<1>3. Pipes
  BY DEF Init, Pipes
<1>4. Bridge
  BY Bounds DEF Init, Bridge, Mode
<1>5. Agent
  BY DEF Init, Agent, Kind, Verdict
<1>6. User
  BY Bounds DEF Init, User
<1> QED BY <1>1, <1>2, <1>3, <1>4, <1>5, <1>6, TypeParts

LEMMA TypeStep == TypeOK /\ [Next]_vars => TypeOK'
<1> SUFFICES ASSUME TypeOK, [Next]_vars PROVE TypeOK'
  OBVIOUS
<1>1. CASE WindowStep
  <2>1. Bridge' /\ Agent'
    BY <1>1, WindowSteps, TypeParts DEF Bridge, Agent
  <2> QED BY <1>1, <2>1, FlagsWindow, DraftsWindow, ViewWindow, UserWindow, PipesWindow,
     NextTypeParts
<1>2. CASE Turnover
  BY <1>2, TurnoverTyped
<1>3. CASE BridgeStep
  <2>1. Flags' /\ Drafts' /\ View' /\ User'
    BY <1>3, BridgeSteps, TypeParts DEF Flags, Drafts, View, User
  <2> QED BY <1>3, <2>1, PipesBridge, BridgeBridge, AgentBridge, NextTypeParts
<1>4. CASE UNCHANGED vars
  BY <1>4, TypeParts DEF vars, Flags, Drafts, View, Pipes, Bridge, Agent, User, TypeOK
<1> QED BY <1>1, <1>2, <1>3, <1>4, NextSplit

-----------------------------------------------------------------------------
(* What a pipe holds, by the types of its lines.                             *)
Has(pipe, types) == \E i \in DOMAIN pipe : pipe[i].type \in types
Single(pipe, types) ==
  \A i, j \in DOMAIN pipe : pipe[i].type \in types /\ pipe[j].type \in types => i = j

Carries(pipe, types, what) ==
  \A i \in DOMAIN pipe : pipe[i].type \in types => pipe[i].what = what

\* Appending a line, removing the first one.
Grows(pipe, next, type) ==
  /\ next # <<>>
  /\ \A T : Has(next, T) <=> Has(pipe, T) \/ type \in T
  /\ \A T : Single(pipe, T) /\ (type \in T => ~Has(pipe, T)) => Single(next, T)
Gains(pipe, next, type, id) ==
  /\ Ids(next, type) = Ids(pipe, type) \cup {id}
  /\ \A t : t # type => Ids(next, t) = Ids(pipe, t)
Shrinks(pipe, next, type) ==
  /\ \A T : Has(pipe, T) <=> type \in T \/ Has(next, T)
  /\ \A T : Single(pipe, T) => Single(next, T) /\ (type \in T => ~Has(next, T))

\* A line of another type changes nothing of what lines say.
Keeps(pipe, next, type) ==
  \A T, w : type \notin T => (Carries(pipe, T, w) <=> Carries(next, T, w))

LEMMA EmptyPipe == /\ \A T : ~Has(<<>>, T) /\ Single(<<>>, T)
                   /\ \A t : Ids(<<>>, t) = {}
                   /\ \A T, w : Carries(<<>>, T, w)
BY DEF Has, Single, Ids, Carries

LEMMA Growing ==
  ASSUME NEW L, NEW s \in Seq(L), NEW e \in L
  PROVE  /\ Grows(s, Append(s, e), e.type) /\ Gains(s, Append(s, e), e.type, e.id)
         /\ Keeps(s, Append(s, e), e.type)
         /\ \A T : ~Has(s, T) => Carries(Append(s, e), T, e.what)
<1>1. Append(s, e) # <<>>
  BY Appended
<1>2. ASSUME NEW T PROVE Has(Append(s, e), T) <=> Has(s, T) \/ e.type \in T
  BY Appended DEF Has
<1>3. ASSUME NEW T, Single(s, T), e.type \in T => ~Has(s, T) PROVE Single(Append(s, e), T)
  BY <1>3, Appended DEF Has, Single
<1>4. ASSUME NEW t
      PROVE  Ids(Append(s, e), t) = IF t = e.type THEN Ids(s, t) \cup {e.id} ELSE Ids(s, t)
  <2>1. ASSUME NEW x \in Ids(Append(s, e), t) PROVE x \in Ids(s, t) \/ (t = e.type /\ x = e.id)
    BY Appended DEF Ids
  <2>2. ASSUME NEW x \in Ids(s, t) PROVE x \in Ids(Append(s, e), t)
    BY Appended DEF Ids
  <2>3. t = e.type => e.id \in Ids(Append(s, e), t)
    BY Appended DEF Ids
  <2> QED BY <2>1, <2>2, <2>3
<1>5. Keeps(s, Append(s, e), e.type)
  BY Appended DEF Keeps, Carries
<1>6. ASSUME NEW T, ~Has(s, T) PROVE Carries(Append(s, e), T, e.what)
  BY <1>6, Appended DEF Has, Carries
<1> QED BY <1>1, <1>2, <1>3, <1>4, <1>5, <1>6 DEF Grows, Gains

LEMMA Shrinking ==
  ASSUME NEW L, NEW s \in Seq(L), s # <<>>
  PROVE  /\ Shrinks(s, Tail(s), Head(s).type) /\ Gains(Tail(s), s, Head(s).type, Head(s).id)
         /\ \A T, w : Carries(s, T, w) =>
              Carries(Tail(s), T, w) /\ (Head(s).type \in T => Head(s).what = w)
<1>1. ASSUME NEW T PROVE Has(s, T) <=> Head(s).type \in T \/ Has(Tail(s), T)
  BY Removed DEF Has
<1>2. ASSUME NEW T, Single(s, T) PROVE Single(Tail(s), T)
  BY <1>2, Removed DEF Single
<1>3. ASSUME NEW T, Single(s, T), Head(s).type \in T PROVE ~Has(Tail(s), T)
  BY <1>3, Removed DEF Single, Has
<1>4. ASSUME NEW t
      PROVE  Ids(s, t) = IF t = Head(s).type THEN Ids(Tail(s), t) \cup {Head(s).id} ELSE Ids(Tail(s), t)
  <2>1. ASSUME NEW x \in Ids(s, t) PROVE x \in Ids(Tail(s), t) \/ (t = Head(s).type /\ x = Head(s).id)
    <3>1. PICK i \in DOMAIN s : s[i].type = t /\ x = s[i].id
      BY DEF Ids
    <3>2. CASE i = 1
      BY <3>1, <3>2, Removed
    <3>3. CASE i # 1
      <4>1. i - 1 \in DOMAIN Tail(s) /\ Tail(s)[i - 1] = s[i]
        BY <3>3, Removed
      <4> QED BY <3>1, <4>1 DEF Ids
    <3> QED BY <3>2, <3>3
  <2>2. ASSUME NEW x \in Ids(Tail(s), t) PROVE x \in Ids(s, t)
    BY Removed DEF Ids
  <2>3. t = Head(s).type => Head(s).id \in Ids(s, t)
    BY Removed DEF Ids
  <2> QED BY <2>1, <2>2, <2>3
<1>5. ASSUME NEW T, NEW w, Carries(s, T, w)
      PROVE  Carries(Tail(s), T, w) /\ (Head(s).type \in T => Head(s).what = w)
  BY <1>5, Removed DEF Carries
<1> QED BY <1>1, <1>2, <1>3, <1>4, <1>5 DEF Shrinks, Gains

LEMMA HasIds == \A pipe, t : Has(pipe, {t}) <=> Ids(pipe, t) # {}
BY DEF Has, Ids

\* The requests in a pipe to the window: each is another one, and still waits
\* for an answer, or is followed by the switch to yolo that allowed it.
Distinct(pipe) ==
  \A i, j \in DOMAIN pipe : pipe[i].type = "permission" /\ pipe[j].type = "permission"
                            /\ pipe[i].id = pipe[j].id => i = j
YoloIn(pipe, i) ==
  \E j \in DOMAIN pipe : j > i /\ pipe[j].type = "permission_mode" /\ pipe[j].what = "yolo"
Covered(pipe, o) ==
  \A i \in DOMAIN pipe : pipe[i].type = "permission" => pipe[i].id \in o \/ YoloIn(pipe, i)

Requests(pipe, next, type, id) ==
  /\ Distinct(pipe) /\ (type = "permission" => id \notin Ids(pipe, "permission")) => Distinct(next)
  /\ \A o : Covered(pipe, o) /\ (type = "permission" => id \in o) => Covered(next, o)
  /\ YoloIn(pipe, 0) => YoloIn(next, 0)
Answers(pipe, next, type, id) ==
  /\ Distinct(pipe) => Distinct(next) /\ (type = "permission" => id \notin Ids(next, "permission"))
  /\ \A o : Covered(pipe, o) =>
       Covered(next, o) /\ (type = "permission" => id \in o \/ YoloIn(next, 0))

LEMMA CoveredBy ==
  /\ \A pipe, o, p : Covered(pipe, o) /\ o \subseteq p => Covered(pipe, p)
  /\ \A pipe, o, r : Covered(pipe, o) /\ r \notin Ids(pipe, "permission") => Covered(pipe, o \ {r})
  /\ \A o : Covered(<<>>, o)
  /\ Distinct(<<>>)
BY DEF Covered, Ids, Distinct

LEMMA Requesting ==
  ASSUME NEW L, NEW s \in Seq(L), NEW e \in L
  PROVE  /\ Requests(s, Append(s, e), e.type, e.id)
         /\ e.type = "permission_mode" /\ e.what = "yolo" =>
              YoloIn(Append(s, e), 0) /\ \A o : Covered(Append(s, e), o)
<1>1. ASSUME NEW i, YoloIn(s, i) PROVE YoloIn(Append(s, e), i)
  BY <1>1, Appended DEF YoloIn
<1>2. ASSUME NEW o, Covered(s, o), e.type = "permission" => e.id \in o PROVE Covered(Append(s, e), o)
  <2>1. ASSUME NEW i \in DOMAIN Append(s, e), Append(s, e)[i].type = "permission"
        PROVE  Append(s, e)[i].id \in o \/ YoloIn(Append(s, e), i)
    <3>1. CASE i \in DOMAIN s
      BY <1>1, <1>2, <2>1, <3>1, Appended DEF Covered
    <3>2. CASE i = Len(s) + 1
      BY <1>2, <2>1, <3>2, Appended
    <3> QED BY <2>1, <3>1, <3>2, Appended
  <2> QED BY <2>1 DEF Covered
<1>3. ASSUME Distinct(s), e.type = "permission" => e.id \notin Ids(s, "permission")
      PROVE  Distinct(Append(s, e))
  BY <1>3, Appended DEF Distinct, Ids
<1>4. ASSUME e.type = "permission_mode", e.what = "yolo"
      PROVE  YoloIn(Append(s, e), 0) /\ \A o : Covered(Append(s, e), o)
  <2>1. Len(s) \in Nat
    OBVIOUS
  <2>2. YoloIn(Append(s, e), 0)
    BY <1>4, <2>1, Appended DEF YoloIn
  <2>3. \A i \in DOMAIN s : YoloIn(Append(s, e), i)
    BY <1>4, Appended DEF YoloIn
  <2>4. \A i \in DOMAIN Append(s, e) : Append(s, e)[i].type = "permission" => i \in DOMAIN s
    BY <1>4, Appended
  <2> QED BY <2>2, <2>3, <2>4 DEF Covered
<1> QED BY <1>1, <1>2, <1>3, <1>4 DEF Requests

LEMMA Answering ==
  ASSUME NEW L, NEW s \in Seq(L), s # <<>>
  PROVE  /\ Answers(s, Tail(s), Head(s).type, Head(s).id)
         /\ YoloIn(s, 0) => \/ Head(s).type = "permission_mode" /\ Head(s).what = "yolo"
                            \/ YoloIn(Tail(s), 0)
<1>1. ASSUME NEW i \in Nat, YoloIn(s, i + 1) PROVE YoloIn(Tail(s), i)
  <2>1. PICK j \in DOMAIN s : j > i + 1 /\ s[j].type = "permission_mode" /\ s[j].what = "yolo"
    BY <1>1 DEF YoloIn
  <2>2. j - 1 \in DOMAIN Tail(s) /\ Tail(s)[j - 1] = s[j] /\ j \in Nat
    BY <2>1, Removed
  <2> QED BY <2>1, <2>2 DEF YoloIn
<1>2. ASSUME Distinct(s)
      PROVE  /\ Distinct(Tail(s))
             /\ Head(s).type = "permission" => Head(s).id \notin Ids(Tail(s), "permission")
  <2>1. Distinct(Tail(s))
    BY <1>2, Removed DEF Distinct
  <2>2. ASSUME NEW i \in DOMAIN Tail(s), Head(s).type = "permission", Tail(s)[i].type = "permission"
        PROVE  Tail(s)[i].id # Head(s).id
    BY <1>2, <2>2, Removed DEF Distinct
  <2> QED BY <2>1, <2>2 DEF Ids
<1>3. ASSUME NEW o, Covered(s, o) PROVE Covered(Tail(s), o)
  <2>1. ASSUME NEW i \in DOMAIN Tail(s), Tail(s)[i].type = "permission"
        PROVE  Tail(s)[i].id \in o \/ YoloIn(Tail(s), i)
    <3>1. i + 1 \in DOMAIN s /\ Tail(s)[i] = s[i + 1] /\ i \in Nat
      BY Removed
    <3> QED BY <1>1, <1>3, <2>1, <3>1 DEF Covered
  <2> QED BY <2>1 DEF Covered
<1>4. ASSUME NEW o, Covered(s, o), Head(s).type = "permission"
      PROVE  Head(s).id \in o \/ YoloIn(Tail(s), 0)
  BY <1>1, <1>4, Removed DEF Covered
<1>5. ASSUME YoloIn(s, 0)
      PROVE  (Head(s).type = "permission_mode" /\ Head(s).what = "yolo") \/ YoloIn(Tail(s), 0)
  <2>1. PICK j \in DOMAIN s : j > 0 /\ s[j].type = "permission_mode" /\ s[j].what = "yolo"
    BY <1>5 DEF YoloIn
  <2>2. CASE j = 1
    BY <2>1, <2>2, Removed
  <2>3. CASE j # 1
    <3>1. j - 1 \in DOMAIN Tail(s) /\ Tail(s)[j - 1] = s[j] /\ j \in Nat /\ j > 1
      BY <2>3, Removed
    <3> QED BY <2>1, <3>1 DEF YoloIn
  <2> QED BY <2>2, <2>3
<1> QED BY <1>2, <1>3, <1>4, <1>5 DEF Answers

UiAdds(type, id) ==
  /\ Grows(toUi, toUi', type) /\ Gains(toUi, toUi', type, id) /\ Keeps(toUi, toUi', type)
  /\ Requests(toUi, toUi', type, id)

LEMMA UiGrows ==
  ASSUME TypeOK
  PROVE  /\ \A m \in Mode : /\ Emit("ready", Nothing, m) => UiAdds("ready", Nothing)
                            /\ Emit("permission_mode", Nothing, m)
                                 => UiAdds("permission_mode", Nothing)
                            /\ Emit("permission_mode_error", Nothing, m)
                                 => UiAdds("permission_mode_error", Nothing)
         /\ \A reason \in {"end_turn", "stopped"} :
              Emit("done", Nothing, reason) => UiAdds("done", Nothing)
         /\ \A type \in {"error", "fatal", "steered", "steering_error"} :
              Emit(type, Nothing, "") => UiAdds(type, Nothing)
         /\ \A r \in Permission : Emit("permission", r, "") => UiAdds("permission", r)
<1>1. ASSUME NEW type, NEW id, NEW what, Emit(type, id, what), Line(type, id, what) \in FromBridge
      PROVE  UiAdds(type, id)
  BY <1>1, TypeParts, Growing, Requesting DEF Pipes, Emit, Line, UiAdds
<1> QED BY <1>1, BridgeLines

LEMMA UiCarries ==
  ASSUME TypeOK, NEW T, ~Has(toUi, T), NEW what \in Mode,
         NEW type \in {"ready", "permission_mode", "permission_mode_error"}, Emit(type, Nothing, what)
  PROVE  Carries(toUi', T, what)
<1>1. Line(type, Nothing, what) \in FromBridge
  BY BridgeLines
<1> QED BY <1>1, TypeParts, Growing DEF Pipes, Emit, Line

LEMMA UiShrinks ==
  ASSUME TypeOK, toUi # <<>>, toUi' = Tail(toUi)
  PROVE  /\ Shrinks(toUi, toUi', Head(toUi).type)
         /\ Gains(toUi', toUi, Head(toUi).type, Head(toUi).id)
         /\ \A T, w : Carries(toUi, T, w) =>
              Carries(toUi', T, w) /\ (Head(toUi).type \in T => Head(toUi).what = w)
         /\ Answers(toUi, toUi', Head(toUi).type, Head(toUi).id)
         /\ YoloIn(toUi, 0) => \/ Head(toUi).type = "permission_mode" /\ Head(toUi).what = "yolo"
                               \/ YoloIn(toUi', 0)
BY TypeParts, Shrinking, Answering DEF Pipes

Sends(type, id, what) == toBridge' = Append(toBridge, Line(type, id, what))
SentAdds(type, id) ==
  /\ Grows(toBridge, toBridge', type) /\ Gains(toBridge, toBridge', type, id)
  /\ \E l \in FromWindow : l.type = type /\ l.id = id /\ toBridge' = Append(toBridge, l)

LEMMA SentGrows ==
  ASSUME TypeOK
  PROVE  /\ \A p \in Prompt : Sends("prompt", p, "") => SentAdds("prompt", p)
         /\ \A n \in Steer : Sends("steer", n, "") => SentAdds("steer", n)
         /\ \A r \in Permission, choice \in {"allow", "deny"} :
              Sends("permission", r, choice) => SentAdds("permission", r)
         /\ \A t \in 1..MaxToggles, m \in Mode :
              Sends("permission_mode", t, m) => SentAdds("permission_mode", t)
<1>1. ASSUME NEW type, NEW id, NEW what, Sends(type, id, what), Line(type, id, what) \in FromWindow
      PROVE  SentAdds(type, id)
  BY <1>1, TypeParts, Growing DEF Pipes, Sends, Line, SentAdds
<1> QED BY <1>1, WindowLines

\* The lines the window's actions send.
LEMMA Sending ==
  ASSUME TypeOK
  PROVE  /\ \A p \in Prompt : StartPrompt(p) =>
              /\ waiting' = TRUE /\ activeReply' = p
              /\ IF bridgeReady /\ running THEN queued' = Nothing /\ SentAdds("prompt", p)
                                           ELSE queued' = p /\ toBridge' = toBridge
         /\ SubmitSteer => SentAdds("steer", steered + 1)
         /\ Toggle => SentAdds("permission_mode", toggles + 1)
         /\ \A choice \in {"allow", "deny"} : Answer(choice) => SentAdds("permission", shown)
         /\ SendQueued => /\ queued' = Nothing
                          /\ IF queued = Nothing THEN toBridge' = toBridge
                                                 ELSE SentAdds("prompt", queued)
<1>1. ASSUME NEW p \in Prompt, StartPrompt(p)
      PROVE  /\ waiting' = TRUE /\ activeReply' = p
             /\ IF bridgeReady /\ running THEN queued' = Nothing /\ SentAdds("prompt", p)
                                          ELSE queued' = p /\ toBridge' = toBridge
  BY <1>1, SentGrows DEF StartPrompt, Sends
<1>2. ASSUME SubmitSteer PROVE SentAdds("steer", steered + 1)
  <2>1. steered + 1 \in Steer
    BY <1>2, TypeParts, Bounds DEF SubmitSteer, User
  <2>2. Sends("steer", steered + 1, "")
    BY <1>2 DEF SubmitSteer, Sends
  <2> QED BY <2>1, <2>2, SentGrows
<1>3. ASSUME Toggle PROVE SentAdds("permission_mode", toggles + 1)
  <2>1. toggles + 1 \in 1..MaxToggles
    BY <1>3, TypeParts, Bounds DEF Toggle, User
  <2>2. PICK mode \in Mode : Sends("permission_mode", toggles + 1, mode)
    BY <1>3 DEF Toggle, Sends
  <2> QED BY <2>1, <2>2, SentGrows
<1>4. ASSUME NEW choice \in {"allow", "deny"}, Answer(choice) PROVE SentAdds("permission", shown)
  <2>1. shown \in Permission /\ Sends("permission", shown, choice)
    BY <1>4, TypeParts DEF Answer, Sends, View
  <2> QED BY <2>1, SentGrows
<1>5. ASSUME SendQueued
      PROVE  /\ queued' = Nothing
             /\ IF queued = Nothing THEN toBridge' = toBridge ELSE SentAdds("prompt", queued)
  <2>1. CASE queued = Nothing
    BY <1>5, <2>1 DEF SendQueued, Sent
  <2>2. CASE queued # Nothing
    <3>1. queued \in Prompt /\ Sends("prompt", queued, "")
      BY <1>5, <2>2, TypeParts DEF SendQueued, Sent, Sends, Drafts
    <3> QED BY <1>5, <2>2, <3>1, SentGrows DEF SendQueued
  <2> QED BY <2>1, <2>2
<1> QED BY <1>1, <1>2, <1>3, <1>4, <1>5

LEMMA TakenShrinks ==
  ASSUME TypeOK, NEW type, Takes(type)
  PROVE  /\ Shrinks(toBridge, toBridge', type)
         /\ Gains(toBridge', toBridge, type, Head(toBridge).id)
BY TypeParts, Shrinking DEF Pipes, Takes

LEMMA Taken ==
  ASSUME TypeOK
  PROVE  /\ Takes("prompt") => Head(toBridge).id \in Prompt
         /\ Takes("steer") => Head(toBridge).id \in Steer
         /\ Takes("permission") =>
              Head(toBridge).id \in Permission /\ Head(toBridge).what \in {"allow", "deny"}
         /\ Takes("permission_mode") =>
              Head(toBridge).id \in 1..MaxToggles /\ Head(toBridge).what \in Mode
<1>1. ASSUME NEW type, Takes(type) PROVE Head(toBridge) \in FromWindow /\ Head(toBridge).type = type
  BY <1>1, TypeParts, PipesTail DEF Takes
<1> QED BY <1>1, Payloads

LEMMA Numbers ==
  /\ Prompt \subseteq Nat \ {Nothing} /\ Steer \subseteq Nat \ {Nothing}
  /\ Permission \subseteq Nat \ {Nothing}
BY SessionAssumption DEF Prompt, Steer, Permission

\* The lines the bridge's actions write.
LEMMA Writing ==
  ASSUME TypeOK
  PROVE  /\ \A s \in saves, ok \in BOOLEAN : ModeApplied(s, ok) =>
              \/ toUi' = toUi /\ saves' # {}
              \/ UiAdds("permission_mode_error", Nothing)
         /\ \A s \in saves, ok \in BOOLEAN : ModeWritten(s, ok) =>
              UiAdds("permission_mode", Nothing) \/ UiAdds("permission_mode_error", Nothing)
         /\ \A n \in Steer, ok \in BOOLEAN : AgentSteers(n, ok) =>
              UiAdds("steered", Nothing) \/ UiAdds("steering_error", Nothing)
         /\ TakeSteer => \/ toUi' = toUi /\ steers' # {}
                         \/ UiAdds("steering_error", Nothing)
         /\ \A options \in SUBSET Option : AgentRequests(options) =>
              \/ toUi' = toUi
              \/ UiAdds("permission", permissionSequence + 1)
<1>1. ASSUME NEW s \in saves, NEW ok \in BOOLEAN, ModeApplied(s, ok)
      PROVE  (toUi' = toUi /\ saves' # {}) \/ UiAdds("permission_mode_error", Nothing)
  <2>1. permissionMode \in Mode
    BY TypeParts DEF Bridge
  <2> QED BY <1>1, <2>1, UiGrows DEF ModeApplied, SaveFails
<1>2. ASSUME NEW s \in saves, NEW ok \in BOOLEAN, ModeWritten(s, ok)
      PROVE  UiAdds("permission_mode", Nothing) \/ UiAdds("permission_mode_error", Nothing)
  <2>1. permissionMode \in Mode /\ s.mode \in Mode
    BY TypeParts DEF Bridge, Saving
  <2>2. CASE ok
    <3>1. Emit("permission_mode", Nothing, s.mode)
      BY <1>2, <2>2 DEF ModeWritten, Commit, Emit
    <3> QED BY <2>1, <3>1, UiGrows
  <2>3. CASE ~ok
    <3>1. Emit("permission_mode_error", Nothing, permissionMode)
      BY <1>2, <2>3 DEF ModeWritten, SaveFails
    <3> QED BY <2>1, <3>1, UiGrows
  <2> QED BY <2>2, <2>3
<1>3. ASSUME NEW n \in Steer, NEW ok \in BOOLEAN, AgentSteers(n, ok)
      PROVE  UiAdds("steered", Nothing) \/ UiAdds("steering_error", Nothing)
  <2>1. Emit("steered", Nothing, "") \/ Emit("steering_error", Nothing, "")
    BY <1>3 DEF AgentSteers, SteerReply, Emit
  <2> QED BY <2>1, UiGrows
<1>4. ASSUME TakeSteer PROVE (toUi' = toUi /\ steers' # {}) \/ UiAdds("steering_error", Nothing)
  BY <1>4, UiGrows DEF TakeSteer
<1>5. ASSUME NEW options \in SUBSET Option, AgentRequests(options)
      PROVE  toUi' = toUi \/ UiAdds("permission", permissionSequence + 1)
  <2>1. permissionSequence + 1 \in Permission
    BY <1>5, TypeParts, Bounds DEF AgentRequests, Bridge
  <2>2. toUi' = toUi \/ Emit("permission", permissionSequence + 1, "")
    BY <1>5 DEF AgentRequests, Emit
  <2> QED BY <2>1, <2>2, UiGrows
<1> QED BY <1>1, <1>2, <1>3, <1>4, <1>5
-----------------------------------------------------------------------------
(* The parts of the inductive invariant.                                     *)

EndTypes == {"done", "error"}
ModeTypes == {"permission_mode", "permission_mode_error"}
Dialogs == ({shown} \cup ToSet(permissionQueue)) \ {Nothing}

Life ==
  /\ proc = "off" <=> ~running
  /\ proc \in {"starting", "off"} => /\ toBridge = <<>> /\ toUi = <<>> /\ ~bridgeReady
                                    /\ shown = Nothing /\ permissionQueue = <<>>
  /\ Alive => ~sessionLost /\ ~Has(toUi, {"fatal"})
  /\ bridgeReady => opened
  /\ sessionLost => ~waiting
  /\ turnRunning <=> agentTurn # Nothing
  /\ proc \notin {"up", "closing"} => agentTurn = Nothing /\ open = {} /\ saves = {} /\ steers = {}
  /\ bridgeReady => ~Has(toUi, {"ready"})
  /\ opened /\ proc = "up" => (bridgeReady <=> ~Has(toUi, {"ready"}))
  /\ Single(toUi, {"ready"})

Turns ==
  /\ opened /\ Alive =>
       /\ Single(toUi, EndTypes)
       /\ waiting <=> Has(toBridge, {"prompt"}) \/ turnRunning \/ queued # Nothing \/ Has(toUi, EndTypes)
       /\ ~(queued # Nothing /\ turnRunning)
       /\ ~(queued # Nothing /\ Has(toBridge, {"prompt"}))
       /\ ~(Has(toUi, EndTypes) /\ turnRunning)
       /\ ~(Has(toUi, EndTypes) /\ Has(toBridge, {"prompt"}))
       /\ ~(Has(toUi, EndTypes) /\ queued # Nothing)
       /\ turnRunning => agentTurn = activeReply
       /\ queued # Nothing => queued = activeReply
       /\ Ids(toBridge, "prompt") \subseteq {activeReply}
  /\ proc \in {"up", "closing"} =>
       /\ Single(toBridge, {"prompt"})
       /\ ~(Has(toBridge, {"prompt"}) /\ turnRunning)
  /\ opened /\ proc = "closing" =>
       /\ ~Has(toBridge, {"prompt"}) /\ ~turnRunning /\ queued = Nothing /\ ~Has(toUi, EndTypes)
       /\ sessionLost \/ waiting
  /\ ~waiting => activeDraft = Nothing

\* The correction of line i still finds the prompt it corrects: that prompt is
\* before it in the pipe, or with the agent, or its turn is over.
Behind(i) ==
  LET n == toBridge[i].id IN
  \/ \E j \in DOMAIN toBridge : j < i /\ toBridge[j].type = "prompt" /\ toBridge[j].id = aim[n]
  \/ /\ \A j \in DOMAIN toBridge : j < i => toBridge[j].type # "prompt"
     /\ turnRunning => agentTurn = aim[n]
SteerOrder ==
  /\ Ids(toBridge, "steer") \subseteq 1..steered
  /\ proc \in {"up", "closing"} =>
       \A i \in DOMAIN toBridge : toBridge[i].type = "steer" => Behind(i)

\* One switch of the mode at most: on its way, being saved, or answered.
Switches ==
  /\ Single(toBridge, {"permission_mode"}) /\ Single(toUi, ModeTypes)
  /\ \A s, t \in saves : s = t
  /\ ~(saves # {} /\ Has(toBridge, {"permission_mode"}))
  /\ ~(saves # {} /\ Has(toUi, ModeTypes))
  /\ ~(Has(toBridge, {"permission_mode"}) /\ Has(toUi, ModeTypes))
  /\ saves # {} \/ Has(toBridge, {"permission_mode"}) \/ Has(toUi, ModeTypes) => modePending
  /\ Has(toUi, {"ready"}) => saves = {} /\ ~Has(toBridge, {"permission_mode"}) /\ ~Has(toUi, ModeTypes)

\* The mode of a bridge that runs is the one in its lines, and the one of the
\* window that has read them.
ModeLines == {"ready", "permission_mode", "permission_mode_error"}
ModeKnown ==
  proc \in {"up", "closing"} =>
    /\ Carries(toUi, ModeLines, permissionMode)
    /\ opened /\ ~Has(toUi, ModeLines) => uiMode = permissionMode

\* The agent's mode follows a switch that was applied.
AgentMatches ==
  /\ \A s \in saves : s.step = "write" /\ KindOf(s.mode) \in modes => agentMode = KindOf(s.mode)
  /\ proc = "up" /\ KindOf(permissionMode) \in modes /\ ~unsaved
       /\ (\A s \in saves : s.step = "apply") => agentMode \in {KindOf(permissionMode), "refused"}

\* The dialogs are different requests, in the order of the queue.
Queue ==
  /\ \A i, j \in DOMAIN permissionQueue : permissionQueue[i] = permissionQueue[j] => i = j
  /\ shown \notin ToSet(permissionQueue)
  /\ shown = Nothing => permissionQueue = <<>>

\* A request is put to the user once, and an answer in the pipe is the user's.
Asked == Ids(toUi, "permission") \cup Dialogs
Clicks ==
  \A i \in DOMAIN toBridge :
    toBridge[i].type = "permission" => clicked[toBridge[i].id] = toBridge[i].what
Consent ==
  /\ Asked \subseteq 1..permissionSequence /\ \A r \in Asked : clicked[r] = "none"
  /\ Ids(toUi, "permission") \cap Dialogs = {} /\ Distinct(toUi) /\ Queue
  /\ \A r \in Permission : r > permissionSequence => clicked[r] = "none"

\* What the agent waits for is asked of the user, and what is asked is what the
\* agent waits for, or was allowed by a switch to yolo whose line is on its way.
DialogOrder ==
  /\ open \ left # {} => agentTurn # Nothing
  /\ open # {} => permissionMode = "permission"
  /\ open \subseteq 1..permissionSequence /\ left \subseteq 1..permissionSequence
  /\ opened /\ proc = "up" =>
       /\ open \ left \subseteq Asked \cup Ids(toBridge, "permission")
       /\ Dialogs \subseteq open \/ YoloIn(toUi, 0)
       /\ Covered(toUi, open)
-----------------------------------------------------------------------------
(* The processes and whose turn it is.                                       *)

LEMMA LifeStep == TypeOK /\ Life /\ Turns /\ Next => Life'
<1> SUFFICES ASSUME TypeOK, Life, Turns, Next PROVE Life'
  OBVIOUS
<1> USE TypeParts, EmptyPipe DEF Life, Alive
<1>1. ASSUME NEW withImage \in BOOLEAN, Compose(withImage)
      PROVE  Life'
  BY <1>1 DEF Compose
<1>2. CASE Submit
  BY <1>2 DEF Submit, StartPrompt
<1>3. ASSUME NEW p \in Prompt, Retry(p)
      PROVE  Life'
  BY <1>3 DEF Retry, StartPrompt
<1>4. CASE SubmitSteer
  BY <1>4 DEF SubmitSteer
<1>5. CASE Toggle
  BY <1>5 DEF Toggle
<1>6. ASSUME NEW choice \in {"allow", "deny"}, Answer(choice)
      PROVE  Life'
  BY <1>6 DEF Answer, ShowNext
<1>7. CASE ReadReady
  BY <1>7, UiShrinks DEF ReadReady, Reads, SendQueued, Sent, Shrinks, Flags
<1>8. CASE ReadEnd
  BY <1>8, UiShrinks DEF ReadEnd, Reads, FinishPrompt, ClearPermissions, Shrinks, Flags
<1>9. CASE ReadFatal
  BY <1>9, UiShrinks DEF ReadFatal, Reads, FinishPrompt, ClearPermissions, Shrinks, Flags
<1>10. CASE ReadSteered
  BY <1>10, UiShrinks DEF ReadSteered, Reads, Shrinks, Flags
<1>11. CASE ReadPermission
  BY <1>11, UiShrinks DEF ReadPermission, Reads, Enqueue, Shrinks, Flags
<1>12. CASE ReadMode
  BY <1>12, UiShrinks DEF ReadMode, Reads, ClearPermissions, Shrinks, Flags
<1>13. CASE ReadIgnored
  BY <1>13, UiShrinks DEF ReadIgnored, Shrinks, Flags
<1>14. CASE Restart
  BY <1>14 DEF Restart
<1>15. CASE CloseWindow
  BY <1>15 DEF CloseWindow, Shutdown
<1>16. CASE SeeExit
  BY <1>16 DEF SeeExit, ClearPermissions, LoseSession, FinishPrompt
<1>17. ASSUME NEW mode \in Mode, NEW kinds \in SUBSET Kind, NEW applied \in BOOLEAN,
             Ready(mode, kinds, applied)
      PROVE  Life'
  BY <1>17, UiGrows DEF Ready, UiAdds, Grows, Bridge, Agent, Saving
<1>18. CASE AgentExits
  BY <1>18, UiGrows DEF AgentExits, Exit, UiAdds, Grows, Bridge, Agent, Saving
<1>19. CASE BridgeExits
  BY <1>19, UiGrows DEF BridgeExits, Exit, UiAdds, Grows, Bridge, Agent, Saving
<1>20. ASSUME NEW refused \in BOOLEAN, TakePrompt(refused)
      PROVE  Life'
  <2>1. Head(toBridge).id # Nothing /\ ~turnRunning
    BY <1>20, Taken, TakenShrinks, Numbers DEF TakePrompt, Takes, Turns, Shrinks
  <2>2. turnRunning' <=> agentTurn' # Nothing
    BY <1>20, <2>1 DEF TakePrompt
  <2> QED BY <1>20, <2>2, UiGrows DEF TakePrompt, Takes, UiAdds, Grows
<1>21. CASE TakeSteer
  BY <1>21, UiGrows DEF TakeSteer, Takes, UiAdds, Grows, Bridge, Agent, Saving
<1>22. CASE TakeAnswer
  BY <1>22, UiGrows DEF TakeAnswer, Takes, UiAdds, Grows, Bridge, Agent, Saving
<1>23. CASE TakeMode
  BY <1>23, UiGrows DEF TakeMode, Takes, UiAdds, Grows, Bridge, Agent, Saving
<1>24. ASSUME NEW s \in saves, NEW ok \in BOOLEAN, ModeApplied(s, ok)
      PROVE  Life'
  BY <1>24, UiGrows DEF ModeApplied, SaveFails, UiAdds, Grows, Bridge, Agent, Saving
<1>25. ASSUME NEW s \in saves, NEW ok \in BOOLEAN, ModeWritten(s, ok)
      PROVE  Life'
  BY <1>25, UiGrows DEF ModeWritten, Commit, SaveFails, UiAdds, Grows, Bridge, Agent, Saving
<1>26. ASSUME NEW reason \in {"end_turn", "stopped"}, AgentEnds(reason)
      PROVE  Life'
  BY <1>26, UiGrows DEF AgentEnds, UiAdds, Grows, Bridge, Agent, Saving
<1>27. ASSUME NEW lost \in BOOLEAN, AgentFails(lost)
      PROVE  Life'
  BY <1>27, UiGrows DEF AgentFails, Shutdown, Exit, UiAdds, Grows, Bridge, Agent, Saving
<1>28. ASSUME NEW options \in SUBSET Option, AgentRequests(options)
      PROVE  Life'
  BY <1>28, UiGrows, Bounds DEF AgentRequests, UiAdds, Grows, Bridge, Agent, Saving
<1>29. ASSUME NEW n \in Steer, NEW ok \in BOOLEAN, AgentSteers(n, ok)
      PROVE  Life'
  BY <1>29, UiGrows DEF AgentSteers, SteerReply, UiAdds, Grows, Bridge, Agent, Saving
<1> QED
  BY <1>1, <1>2, <1>3, <1>4, <1>5, <1>6, <1>7, <1>8, <1>9, <1>10, <1>11, <1>12, <1>13, <1>14,
     <1>15, <1>16, <1>17, <1>18, <1>19, <1>20, <1>21, <1>22, <1>23, <1>24, <1>25, <1>26, <1>27, <1>28,
     <1>29 DEF Next, Users, WindowReads, BridgeTakes, BridgeSaves, AgentFinishes

LEMMA TurnsStep == TypeOK /\ Life /\ Turns /\ Next => Turns'
<1> SUFFICES ASSUME TypeOK, Life, Turns, Next PROVE Turns'
  OBVIOUS
<1> USE TypeParts, EmptyPipe DEF Turns, Alive
<1>1. ASSUME NEW withImage \in BOOLEAN, Compose(withImage)
      PROVE  Turns'
  BY <1>1 DEF Compose, Life
<1>2. CASE Submit
  <2>1. composer \in Prompt /\ ~waiting /\ StartPrompt(composer)
    BY <1>2, TypeParts DEF Submit, Drafts
  <2>2. Ids(toBridge, "prompt") = {} \/ ~(opened /\ Alive)
    BY <2>1, HasIds DEF Turns
  <2> QED BY <1>2, <2>1, <2>2, Sending, Numbers DEF Submit, Life, SentAdds, Grows, Gains
<1>3. ASSUME NEW p \in Prompt, Retry(p)
      PROVE  Turns'
  <2>1. ~waiting /\ StartPrompt(p) /\ opened /\ bridgeReady /\ running /\ ~sessionLost
    BY <1>3 DEF Retry, Life
  <2>2. Ids(toBridge, "prompt") = {} \/ ~(opened /\ Alive)
    BY <2>1, HasIds DEF Turns
  <2> QED BY <1>3, <2>1, <2>2, Sending, Numbers DEF Retry, Life, SentAdds, Grows, Gains
<1>4. CASE SubmitSteer
  BY <1>4, Sending, Numbers DEF SubmitSteer, Life, SentAdds, Grows, Gains
<1>5. CASE Toggle
  BY <1>5, Sending, Numbers DEF Toggle, Life, SentAdds, Grows, Gains
<1>6. ASSUME NEW choice \in {"allow", "deny"}, Answer(choice)
      PROVE  Turns'
  BY <1>6, Sending, Numbers DEF Answer, ShowNext, Life, SentAdds, Grows, Gains
<1>7. CASE ReadReady
  BY <1>7, UiShrinks, Sending, Numbers DEF ReadReady, Reads, Life, Shrinks, EndTypes, SentAdds,
     Grows, Gains, Drafts
<1>8. CASE ReadEnd
  <2>1. Has(toUi, EndTypes) /\ (Single(toUi, EndTypes) => ~Has(toUi', EndTypes) /\ Single(toUi', EndTypes))
    BY <1>8, UiShrinks DEF ReadEnd, Reads, Shrinks, EndTypes
  <2>2. waiting' = FALSE /\ activeDraft' = Nothing /\ queued' = Nothing
    BY <1>8 DEF ReadEnd, FinishPrompt
  <2>3. UNCHANGED <<opened, proc, toBridge, turnRunning, agentTurn, sessionLost>>
    BY <1>8 DEF ReadEnd, Reads
  <2> QED BY <2>1, <2>2, <2>3, HasIds
<1>9. CASE ReadFatal
  BY <1>9, UiShrinks DEF ReadFatal, Reads, FinishPrompt, ClearPermissions, Life, Shrinks, EndTypes
<1>10. CASE ReadSteered
  BY <1>10, UiShrinks DEF ReadSteered, Reads, Life, Shrinks, EndTypes
<1>11. CASE ReadPermission
  BY <1>11, UiShrinks DEF ReadPermission, Reads, Enqueue, Life, Shrinks, EndTypes
<1>12. CASE ReadMode
  BY <1>12, UiShrinks DEF ReadMode, Reads, ClearPermissions, Life, Shrinks, EndTypes
<1>13. CASE ReadIgnored
  BY <1>13, UiShrinks DEF ReadIgnored, Life, Shrinks, EndTypes
<1>14. CASE Restart
  BY <1>14 DEF Restart, Life
<1>15. CASE CloseWindow
  BY <1>15 DEF CloseWindow, Shutdown, Life
<1>16. CASE SeeExit
  BY <1>16 DEF SeeExit, ClearPermissions, LoseSession, FinishPrompt, Life
<1>17. ASSUME NEW mode \in Mode, NEW kinds \in SUBSET Kind, NEW applied \in BOOLEAN,
             Ready(mode, kinds, applied)
      PROVE  Turns'
  <2>1. UiAdds("ready", Nothing)
    BY <1>17, UiGrows DEF Ready, Bridge
  <2> QED BY <1>17, <2>1 DEF Ready, Life, UiAdds, Grows, EndTypes
<1>18. CASE AgentExits
  BY <1>18, UiGrows DEF AgentExits, Exit, Life, UiAdds, Grows, EndTypes
<1>19. CASE BridgeExits
  BY <1>19, UiGrows DEF BridgeExits, Exit, Life, UiAdds, Grows, EndTypes
<1>20. ASSUME NEW refused \in BOOLEAN, TakePrompt(refused)
      PROVE  Turns'
  <2>0. Shrinks(toBridge, toBridge', "prompt") /\ Gains(toBridge', toBridge, "prompt", Head(toBridge).id)
    BY <1>20, TakenShrinks DEF TakePrompt
  <2>1. Head(toBridge).id \in Ids(toBridge, "prompt") /\ Has(toBridge, {"prompt"})
    BY <2>0, HasIds DEF Gains
  <2>2. /\ ~turnRunning /\ ~Has(toBridge', {"prompt"}) /\ Ids(toBridge', "prompt") = {}
        /\ Single(toBridge', {"prompt"})
    BY <1>20, <2>0, <2>1, HasIds DEF TakePrompt, Takes, Shrinks
  <2>3. UNCHANGED <<opened, proc, waiting, queued, activeReply, activeDraft, sessionLost>>
    BY <1>20 DEF TakePrompt, Takes
  <2>4. opened => proc = "up"
    BY <1>20, <2>1 DEF TakePrompt, Takes
  <2>5. CASE refused
    <3>1. UiAdds("error", Nothing) /\ turnRunning' = FALSE
      BY <1>20, <2>5, UiGrows DEF TakePrompt
    <3> QED BY <2>1, <2>2, <2>3, <2>4, <3>1 DEF UiAdds, Grows, EndTypes
  <2>6. CASE ~refused
    <3>1. turnRunning' = TRUE /\ agentTurn' = Head(toBridge).id /\ toUi' = toUi
      BY <1>20, <2>2, <2>6 DEF TakePrompt
    <3> QED BY <2>1, <2>2, <2>3, <2>4, <3>1
  <2> QED BY <2>5, <2>6
<1>21. CASE TakeSteer
  <2>1. toUi' = toUi \/ UiAdds("steering_error", Nothing)
    BY <1>21, UiGrows DEF TakeSteer
  <2> QED BY <1>21, <2>1, TakenShrinks DEF TakeSteer, Takes, UiAdds, Grows, EndTypes, Shrinks, Gains
<1>22. CASE TakeAnswer
  BY <1>22, UiGrows, TakenShrinks, Taken DEF TakeAnswer, Takes, Life, UiAdds, Grows, EndTypes,
     Shrinks, Gains
<1>23. CASE TakeMode
  BY <1>23, UiGrows, TakenShrinks, Taken DEF TakeMode, Takes, Life, UiAdds, Grows, EndTypes,
     Shrinks, Gains
<1>24. ASSUME NEW s \in saves, NEW ok \in BOOLEAN, ModeApplied(s, ok)
      PROVE  Turns'
  BY <1>24, UiGrows DEF ModeApplied, SaveFails, Life, UiAdds, Grows, EndTypes, Bridge
<1>25. ASSUME NEW s \in saves, NEW ok \in BOOLEAN, ModeWritten(s, ok)
      PROVE  Turns'
  BY <1>25, UiGrows DEF ModeWritten, Commit, SaveFails, Life, UiAdds, Grows, EndTypes, Bridge,
     Saving
<1>26. ASSUME NEW reason \in {"end_turn", "stopped"}, AgentEnds(reason)
      PROVE  Turns'
  BY <1>26, UiGrows DEF AgentEnds, Life, UiAdds, Grows, EndTypes
<1>27. ASSUME NEW lost \in BOOLEAN, AgentFails(lost)
      PROVE  Turns'
  BY <1>27, UiGrows DEF AgentFails, Shutdown, Exit, Life, UiAdds, Grows, EndTypes
<1>28. ASSUME NEW options \in SUBSET Option, AgentRequests(options)
      PROVE  Turns'
  BY <1>28, UiGrows, Bounds DEF AgentRequests, Life, UiAdds, Grows, EndTypes, Bridge
<1>29. ASSUME NEW n \in Steer, NEW ok \in BOOLEAN, AgentSteers(n, ok)
      PROVE  Turns'
  BY <1>29, UiGrows DEF AgentSteers, SteerReply, Life, UiAdds, Grows, EndTypes
<1> QED
  BY <1>1, <1>2, <1>3, <1>4, <1>5, <1>6, <1>7, <1>8, <1>9, <1>10, <1>11, <1>12, <1>13, <1>14,
     <1>15, <1>16, <1>17, <1>18, <1>19, <1>20, <1>21, <1>22, <1>23, <1>24, <1>25, <1>26, <1>27, <1>28,
     <1>29 DEF Next, Users, WindowReads, BridgeTakes, BridgeSaves, AgentFinishes
-----------------------------------------------------------------------------
(* The corrections of a running turn.                                        *)

\* Steps that leave the pipe, and start no turn.
SteerFrame ==
  /\ UNCHANGED <<toBridge, aim, steered>>
  /\ proc' \in {"up", "closing"} =>
       proc \in {"up", "closing"} /\ (turnRunning' => turnRunning /\ agentTurn' = agentTurn)

LEMMA SteersFramed == SteerOrder /\ SteerFrame => SteerOrder'
BY DEF SteerOrder, SteerFrame, Behind

LEMMA SteersEmpty == toBridge' = <<>> => SteerOrder'
BY EmptyPipe DEF SteerOrder

LEMMA SteersAppend ==
  ASSUME TypeOK, SteerOrder, NEW type, NEW id, SentAdds(type, id), type # "steer",
         UNCHANGED <<aim, steered, proc, turnRunning, agentTurn>>
  PROVE  SteerOrder'
<1>1. PICK l \in FromWindow : l.type = type /\ l.id = id /\ toBridge' = Append(toBridge, l)
  BY DEF SentAdds
<1>2. toBridge \in Seq(FromWindow)
  BY TypeParts DEF Pipes
<1>3. Ids(toBridge', "steer") = Ids(toBridge, "steer")
  BY DEF SentAdds, Gains
<1>4. ASSUME proc \in {"up", "closing"}, NEW i \in DOMAIN toBridge', toBridge'[i].type = "steer"
      PROVE  Behind(i)'
  <2>1. i \in DOMAIN toBridge /\ toBridge[i].type = "steer" /\ toBridge'[i] = toBridge[i]
    BY <1>1, <1>2, <1>4, Appended
  <2>2. Behind(i)
    BY <1>4, <2>1 DEF SteerOrder
  <2>3. \A j \in Nat : j < i /\ j \in DOMAIN toBridge' => j \in DOMAIN toBridge /\ toBridge'[j] = toBridge[j]
    BY <1>1, <1>2, <2>1, Appended
  <2>4. \A j \in DOMAIN toBridge : j \in DOMAIN toBridge' /\ toBridge'[j] = toBridge[j]
    BY <1>1, <1>2, Appended
  <2>5. DOMAIN toBridge' \subseteq Nat
    BY <1>1, <1>2, Appended
  <2> QED BY <2>1, <2>2, <2>3, <2>4, <2>5 DEF Behind
<1> QED BY <1>3, <1>4 DEF SteerOrder

\* A line that is no prompt leaves the pipe, and no turn starts.
LEMMA SteersShift ==
  ASSUME TypeOK, SteerOrder, NEW type, Takes(type), type # "prompt",
         UNCHANGED <<turnRunning, agentTurn>>
  PROVE  SteerOrder'
<1>1. toBridge \in Seq(FromWindow) /\ toBridge # <<>> /\ toBridge' = Tail(toBridge)
      /\ toBridge[1].type # "prompt"
  BY TypeParts, Removed DEF Pipes, Takes
<1>2. Ids(toBridge', "steer") \subseteq Ids(toBridge, "steer")
  BY TakenShrinks DEF Gains
<1>3. UNCHANGED <<aim, steered, proc>>
  BY DEF Takes
<1>4. ASSUME proc \in {"up", "closing"}, NEW i \in DOMAIN toBridge', toBridge'[i].type = "steer"
      PROVE  Behind(i)'
  <2>1. i + 1 \in DOMAIN toBridge /\ toBridge[i + 1] = toBridge'[i] /\ i \in Nat
    BY <1>1, Removed
  <2>2. Behind(i + 1)
    BY <1>4, <2>1 DEF SteerOrder
  <2>3. \A j \in DOMAIN toBridge : j # 1 =>
          j - 1 \in DOMAIN toBridge' /\ toBridge'[j - 1] = toBridge[j] /\ j \in Nat
    BY <1>1, Removed
  <2>4. \A j \in DOMAIN toBridge' :
          j + 1 \in DOMAIN toBridge /\ toBridge'[j] = toBridge[j + 1] /\ j \in Nat
    BY <1>1, Removed
  <2> DEFINE n == toBridge[i + 1].id
  <2>5. CASE \E j \in DOMAIN toBridge : /\ j < i + 1 /\ toBridge[j].type = "prompt"
                                        /\ toBridge[j].id = aim[n]
    <3>1. PICK j \in DOMAIN toBridge : j < i + 1 /\ toBridge[j].type = "prompt" /\ toBridge[j].id = aim[n]
      BY <2>5
    <3>2. j # 1
      BY <1>1, <3>1
    <3>3. /\ j - 1 \in DOMAIN toBridge' /\ j - 1 < i
          /\ toBridge'[j - 1].type = "prompt" /\ toBridge'[j - 1].id = aim[n]
      BY <2>1, <2>3, <3>1, <3>2
    <3> QED BY <1>3, <2>1, <3>3 DEF Behind
  <2>6. CASE /\ \A j \in DOMAIN toBridge : j < i + 1 => toBridge[j].type # "prompt"
             /\ turnRunning => agentTurn = aim[n]
    <3>1. \A j \in DOMAIN toBridge' : j < i => toBridge'[j].type # "prompt"
      BY <2>1, <2>4, <2>6
    <3> QED BY <1>3, <2>1, <2>6, <3>1 DEF Behind
  <2> QED BY <2>2, <2>5, <2>6 DEF Behind
<1> QED BY <1>2, <1>3, <1>4 DEF SteerOrder

LEMMA SteersSend == TypeOK /\ Life /\ Turns /\ SteerOrder /\ SubmitSteer => SteerOrder'
<1> SUFFICES ASSUME TypeOK, Life, Turns, SteerOrder, SubmitSteer PROVE SteerOrder'
  OBVIOUS
<1> DEFINE m == steered + 1
<1>1. PICK l \in FromWindow : l.type = "steer" /\ l.id = m /\ toBridge' = Append(toBridge, l)
  BY Sending DEF SentAdds
<1>2. toBridge \in Seq(FromWindow)
  BY TypeParts DEF Pipes
<1>3. /\ steered \in Nat /\ steered' = m /\ m \in Steer /\ aim \in [Steer -> Prompt \cup {Nothing}]
      /\ aim' = [aim EXCEPT ![m] = activeReply]
  <2>1. steered \in 0..MaxSteers /\ steered < MaxSteers /\ aim \in [Steer -> Prompt \cup {Nothing}]
    BY TypeParts DEF SubmitSteer, User
  <2>2. steered' = m /\ aim' = [aim EXCEPT ![m] = activeReply]
    BY DEF SubmitSteer
  <2> QED BY <2>1, <2>2, Bounds
<1>4. UNCHANGED <<proc, turnRunning, agentTurn>>
  BY DEF SubmitSteer
<1>5. Ids(toBridge', "steer") = Ids(toBridge, "steer") \cup {m}
  BY Sending DEF SentAdds, Gains
<1>6. \A n \in Steer : n # m => aim'[n] = aim[n]
  BY <1>3
<1>7. ASSUME proc \in {"up", "closing"}, NEW i \in DOMAIN toBridge', toBridge'[i].type = "steer"
      PROVE  Behind(i)'
  <2>1. /\ DOMAIN toBridge' = DOMAIN toBridge \cup {Len(toBridge) + 1}
        /\ \A j \in DOMAIN toBridge : toBridge'[j] = toBridge[j] /\ j < Len(toBridge) + 1
        /\ toBridge'[Len(toBridge) + 1] = l /\ DOMAIN toBridge \subseteq Nat /\ Len(toBridge) \in Nat
    BY <1>1, <1>2, Appended
  <2>2. CASE i \in DOMAIN toBridge
    <3>1. toBridge[i].id \in Ids(toBridge, "steer")
      BY <1>7, <2>1, <2>2 DEF Ids
    <3>2. toBridge[i].id \in 1..steered /\ toBridge[i] \in FromWindow /\ toBridge[i].type = "steer"
      BY <1>2, <1>7, <2>1, <2>2, <3>1 DEF SteerOrder
    <3>3. toBridge[i].id # m /\ toBridge[i].id \in Steer
      <4>1. toBridge[i].id # m
        BY <1>3, <3>2
      <4> QED BY <3>2, <4>1, Payloads
    <3>4. Behind(i)
      BY <1>7, <2>1, <2>2 DEF SteerOrder
    <3>5. \A j \in DOMAIN toBridge' : j < i => j \in DOMAIN toBridge
      BY <2>1, <2>2
    <3> QED BY <1>4, <1>6, <2>1, <2>2, <3>3, <3>4, <3>5 DEF Behind
  <2>3. CASE i = Len(toBridge) + 1
    <3>1. toBridge'[i].id = m /\ aim'[m] = activeReply
      BY <1>1, <1>3, <2>1, <2>3
    <3>2. CASE Has(toBridge, {"prompt"})
      <4>1. PICK j \in DOMAIN toBridge : toBridge[j].type = "prompt"
        BY <3>2 DEF Has
      <4>2. opened /\ waiting /\ ~sessionLost
        BY DEF SubmitSteer
      <4>3. toBridge[j].id \in Ids(toBridge, "prompt")
        BY <4>1 DEF Ids
      <4>4. toBridge[j].id = activeReply
        BY <1>7, <3>2, <4>2, <4>3 DEF Turns, Alive
      <4> QED BY <2>1, <2>3, <3>1, <4>1, <4>4 DEF Behind
    <3>3. CASE ~Has(toBridge, {"prompt"})
      <4>1. \A j \in DOMAIN toBridge' : j < i => toBridge'[j].type # "prompt"
        BY <2>1, <2>3, <3>3 DEF Has
      <4>2. turnRunning => agentTurn = activeReply
        BY <1>7 DEF Turns, Alive, SubmitSteer
      <4> QED BY <1>4, <3>1, <4>1, <4>2 DEF Behind
    <3> QED BY <3>2, <3>3
  <2> QED BY <2>1, <2>2, <2>3
<1> QED BY <1>3, <1>4, <1>5, <1>7 DEF SteerOrder

\* The prompt that is taken is the only one before the corrections in the pipe.
LEMMA SteersStart ==
  ASSUME TypeOK, Turns, SteerOrder, NEW refused \in BOOLEAN, TakePrompt(refused)
  PROVE  SteerOrder'
<1>1. /\ toBridge \in Seq(FromWindow) /\ toBridge # <<>> /\ toBridge' = Tail(toBridge)
      /\ toBridge[1] = Head(toBridge) /\ toBridge[1].type = "prompt"
  BY TypeParts, Removed DEF Pipes, Takes, TakePrompt
<1>2. Ids(toBridge', "steer") \subseteq Ids(toBridge, "steer")
  BY TakenShrinks DEF Gains, TakePrompt
<1>3. UNCHANGED <<aim, steered, proc>> /\ proc \in {"up", "closing"}
  BY DEF Takes, TakePrompt
<1>4. ASSUME NEW i \in DOMAIN toBridge', toBridge'[i].type = "steer"
      PROVE  Behind(i)'
  <2>1. i + 1 \in DOMAIN toBridge /\ toBridge[i + 1] = toBridge'[i] /\ i \in Nat /\ i >= 1
    BY <1>1, Removed
  <2>2. 1 \in DOMAIN toBridge /\ DOMAIN toBridge \subseteq Nat
    BY <1>1, Removed
  <2>3. \A j \in DOMAIN toBridge : toBridge[j].type = "prompt" => j = 1
    BY <1>1, <1>3, <2>2 DEF Turns, Single
  <2>4. Behind(i + 1)
    BY <1>3, <1>4, <2>1 DEF SteerOrder
  <2>5. Head(toBridge).id = aim[toBridge'[i].id]
    BY <1>1, <2>1, <2>2, <2>3, <2>4 DEF Behind
  <2>6. \A j \in DOMAIN toBridge' : toBridge'[j].type # "prompt"
    BY <1>1, <2>3, Removed
  <2>7. turnRunning' => agentTurn' = Head(toBridge).id
    BY DEF TakePrompt
  <2> QED BY <1>3, <2>5, <2>6, <2>7 DEF Behind
<1> QED BY <1>2, <1>3, <1>4 DEF SteerOrder

LEMMA SteerStep == TypeOK /\ Life /\ Turns /\ SteerOrder /\ Next => SteerOrder'
<1> SUFFICES ASSUME TypeOK, Life, Turns, SteerOrder, Next PROVE SteerOrder'
  OBVIOUS
<1>1. ASSUME NEW withImage \in BOOLEAN, Compose(withImage)
      PROVE  SteerOrder'
  BY <1>1, SteersFramed DEF Compose, SteerFrame
<1>2. CASE Submit
  BY <1>2, Sending, SteersAppend, SteersFramed, TypeParts DEF Submit, SteerFrame, Drafts
<1>3. ASSUME NEW p \in Prompt, Retry(p)
      PROVE  SteerOrder'
  BY <1>3, Sending, SteersAppend, SteersFramed DEF Retry, SteerFrame
<1>4. CASE SubmitSteer
  BY <1>4, SteersSend
<1>5. CASE Toggle
  BY <1>5, Sending, SteersAppend, SteersFramed DEF Toggle, SteerFrame
<1>6. ASSUME NEW choice \in {"allow", "deny"}, Answer(choice)
      PROVE  SteerOrder'
  BY <1>6, Sending, SteersAppend, SteersFramed DEF Answer, SteerFrame
<1>7. CASE ReadReady
  BY <1>7, Sending, SteersAppend, SteersFramed, TypeParts DEF ReadReady, Reads, SteerFrame, Drafts
<1>8. CASE ReadEnd
  BY <1>8, SteersFramed DEF ReadEnd, Reads, SteerFrame
<1>9. CASE ReadFatal
  BY <1>9, SteersFramed DEF ReadFatal, Reads, SteerFrame
<1>10. CASE ReadSteered
  BY <1>10, SteersFramed DEF ReadSteered, Reads, SteerFrame
<1>11. CASE ReadPermission
  BY <1>11, SteersFramed DEF ReadPermission, Reads, SteerFrame
<1>12. CASE ReadMode
  BY <1>12, SteersFramed DEF ReadMode, Reads, SteerFrame
<1>13. CASE ReadIgnored
  BY <1>13, SteersFramed DEF ReadIgnored, SteerFrame
<1>14. CASE Restart
  BY <1>14, SteersFramed DEF Restart, SteerFrame
<1>15. CASE CloseWindow
  BY <1>15, SteersFramed, SteersEmpty DEF CloseWindow, Shutdown, SteerFrame, Life
<1>16. CASE SeeExit
  BY <1>16, SteersEmpty DEF SeeExit
<1>17. ASSUME NEW mode \in Mode, NEW kinds \in SUBSET Kind, NEW applied \in BOOLEAN,
             Ready(mode, kinds, applied)
      PROVE  SteerOrder'
  BY <1>17, SteersEmpty DEF Ready, Life
<1>18. CASE AgentExits
  BY <1>18, SteersFramed DEF AgentExits, Exit, SteerFrame
<1>19. CASE BridgeExits
  BY <1>19, SteersFramed DEF BridgeExits, Exit, SteerFrame
<1>20. ASSUME NEW refused \in BOOLEAN, TakePrompt(refused)
      PROVE  SteerOrder'
  BY <1>20, SteersStart
<1>21. CASE TakeSteer
  BY <1>21, SteersShift DEF TakeSteer
<1>22. CASE TakeAnswer
  BY <1>22, SteersShift DEF TakeAnswer
<1>23. CASE TakeMode
  BY <1>23, SteersShift DEF TakeMode
<1>24. ASSUME NEW s \in saves, NEW ok \in BOOLEAN, ModeApplied(s, ok)
      PROVE  SteerOrder'
  BY <1>24, SteersFramed DEF ModeApplied, SteerFrame
<1>25. ASSUME NEW s \in saves, NEW ok \in BOOLEAN, ModeWritten(s, ok)
      PROVE  SteerOrder'
  BY <1>25, SteersFramed DEF ModeWritten, SteerFrame
<1>26. ASSUME NEW reason \in {"end_turn", "stopped"}, AgentEnds(reason)
      PROVE  SteerOrder'
  BY <1>26, SteersFramed DEF AgentEnds, SteerFrame
<1>27. ASSUME NEW lost \in BOOLEAN, AgentFails(lost)
      PROVE  SteerOrder'
  BY <1>27, SteersFramed DEF AgentFails, Shutdown, Exit, SteerFrame, Life
<1>28. ASSUME NEW options \in SUBSET Option, AgentRequests(options)
      PROVE  SteerOrder'
  BY <1>28, SteersFramed DEF AgentRequests, SteerFrame
<1>29. ASSUME NEW n \in Steer, NEW ok \in BOOLEAN, AgentSteers(n, ok)
      PROVE  SteerOrder'
  BY <1>29, SteersFramed DEF AgentSteers, SteerFrame
<1> QED
  BY <1>1, <1>2, <1>3, <1>4, <1>5, <1>6, <1>7, <1>8, <1>9, <1>10, <1>11, <1>12, <1>13, <1>14,
     <1>15, <1>16, <1>17, <1>18, <1>19, <1>20, <1>21, <1>22, <1>23, <1>24, <1>25, <1>26, <1>27, <1>28,
     <1>29 DEF Next, Users, WindowReads, BridgeTakes, BridgeSaves, AgentFinishes
-----------------------------------------------------------------------------
(* The switches of the mode, and what is acknowledged.                       *)

LEMMA SwitchesStep == TypeOK /\ Life /\ Switches /\ Next => Switches'
<1> SUFFICES ASSUME TypeOK, Life, Switches, Next PROVE Switches'
  OBVIOUS
<1> USE EmptyPipe DEF Switches
<1>1. ASSUME NEW withImage \in BOOLEAN, Compose(withImage)
      PROVE  Switches'
  BY <1>1 DEF Compose
<1>2. CASE Submit
  BY <1>2, Sending, TypeParts DEF Submit, SentAdds, Grows, Drafts
<1>3. ASSUME NEW p \in Prompt, Retry(p)
      PROVE  Switches'
  BY <1>3, Sending, TypeParts DEF Retry, SentAdds, Grows, Drafts
<1>4. CASE SubmitSteer
  BY <1>4, Sending, TypeParts DEF SubmitSteer, SentAdds, Grows, Drafts
<1>5. CASE Toggle
  BY <1>5, Sending, TypeParts DEF Toggle, SentAdds, Grows, Drafts, Life
<1>6. ASSUME NEW choice \in {"allow", "deny"}, Answer(choice)
      PROVE  Switches'
  BY <1>6, Sending, TypeParts DEF Answer, SentAdds, Grows, Drafts
<1>7. CASE ReadReady
  BY <1>7, UiShrinks, Sending, TypeParts DEF ReadReady, Reads, Shrinks, ModeTypes, SentAdds, Grows,
     Drafts
<1>8. CASE ReadEnd
  BY <1>8, UiShrinks DEF ReadEnd, Reads, Shrinks, ModeTypes
<1>9. CASE ReadFatal
  BY <1>9, UiShrinks DEF ReadFatal, Reads, Shrinks, ModeTypes
<1>10. CASE ReadSteered
  BY <1>10, UiShrinks DEF ReadSteered, Reads, Shrinks, ModeTypes
<1>11. CASE ReadPermission
  BY <1>11, UiShrinks DEF ReadPermission, Reads, Shrinks, ModeTypes
<1>12. CASE ReadMode
  BY <1>12, UiShrinks DEF ReadMode, Reads, Shrinks, ModeTypes
<1>13. CASE ReadIgnored
  BY <1>13, UiShrinks DEF ReadIgnored, Shrinks, ModeTypes
<1>14. CASE Restart
  BY <1>14 DEF Restart, Life
<1>15. CASE CloseWindow
  BY <1>15 DEF CloseWindow, Shutdown, Life
<1>16. CASE SeeExit
  BY <1>16 DEF SeeExit, Life
<1>17. ASSUME NEW mode \in Mode, NEW kinds \in SUBSET Kind, NEW applied \in BOOLEAN,
             Ready(mode, kinds, applied)
      PROVE  Switches'
  BY <1>17, UiGrows, TypeParts DEF Ready, UiAdds, Grows, ModeTypes, Life, Bridge, Saving
<1>18. CASE AgentExits
  BY <1>18, UiGrows DEF AgentExits, Exit, UiAdds, Grows, ModeTypes, Life
<1>19. CASE BridgeExits
  BY <1>19, UiGrows DEF BridgeExits, Exit, UiAdds, Grows, ModeTypes, Life
<1>20. ASSUME NEW refused \in BOOLEAN, TakePrompt(refused)
      PROVE  Switches'
  BY <1>20, UiGrows, TakenShrinks DEF TakePrompt, Takes, UiAdds, Grows, ModeTypes, Shrinks
<1>21. CASE TakeSteer
  BY <1>21, Writing, TakenShrinks DEF TakeSteer, Takes, UiAdds, Grows, ModeTypes, Shrinks
<1>22. CASE TakeAnswer
  BY <1>22, UiGrows, TakenShrinks DEF TakeAnswer, Takes, UiAdds, Grows, ModeTypes, Shrinks
<1>23. CASE TakeMode
  BY <1>23, UiGrows, TakenShrinks DEF TakeMode, Takes, UiAdds, Grows, ModeTypes, Shrinks
<1>24. ASSUME NEW s \in saves, NEW ok \in BOOLEAN, ModeApplied(s, ok)
      PROVE  Switches'
  BY <1>24, Writing DEF ModeApplied, UiAdds, Grows, ModeTypes
<1>25. ASSUME NEW s \in saves, NEW ok \in BOOLEAN, ModeWritten(s, ok)
      PROVE  Switches'
  BY <1>25, Writing DEF ModeWritten, UiAdds, Grows, ModeTypes
<1>26. ASSUME NEW reason \in {"end_turn", "stopped"}, AgentEnds(reason)
      PROVE  Switches'
  BY <1>26, UiGrows DEF AgentEnds, UiAdds, Grows, ModeTypes
<1>27. ASSUME NEW lost \in BOOLEAN, AgentFails(lost)
      PROVE  Switches'
  BY <1>27, UiGrows DEF AgentFails, Shutdown, Exit, UiAdds, Grows, ModeTypes
<1>28. ASSUME NEW options \in SUBSET Option, AgentRequests(options)
      PROVE  Switches'
  BY <1>28, Writing DEF AgentRequests, UiAdds, Grows, ModeTypes
<1>29. ASSUME NEW n \in Steer, NEW ok \in BOOLEAN, AgentSteers(n, ok)
      PROVE  Switches'
  BY <1>29, Writing DEF AgentSteers, SteerReply, UiAdds, Grows, ModeTypes
<1> QED
  BY <1>1, <1>2, <1>3, <1>4, <1>5, <1>6, <1>7, <1>8, <1>9, <1>10, <1>11, <1>12, <1>13, <1>14,
     <1>15, <1>16, <1>17, <1>18, <1>19, <1>20, <1>21, <1>22, <1>23, <1>24, <1>25, <1>26, <1>27, <1>28,
     <1>29 DEF Next, Users, WindowReads, BridgeTakes, BridgeSaves, AgentFinishes

LEMMA ModeKnownStep == TypeOK /\ Life /\ Switches /\ ModeKnown /\ Next => ModeKnown'
<1> SUFFICES ASSUME TypeOK, Life, Switches, ModeKnown, Next PROVE ModeKnown'
  OBVIOUS
<1> USE EmptyPipe DEF ModeKnown
<1>1. ASSUME NEW withImage \in BOOLEAN, Compose(withImage)
      PROVE  ModeKnown'
  BY <1>1 DEF Compose
<1>2. CASE Submit
  BY <1>2 DEF Submit
<1>3. ASSUME NEW p \in Prompt, Retry(p)
      PROVE  ModeKnown'
  BY <1>3 DEF Retry
<1>4. CASE SubmitSteer
  BY <1>4 DEF SubmitSteer
<1>5. CASE Toggle
  BY <1>5 DEF Toggle, Life
<1>6. ASSUME NEW choice \in {"allow", "deny"}, Answer(choice)
      PROVE  ModeKnown'
  BY <1>6 DEF Answer
<1>7. CASE ReadReady
  BY <1>7, UiShrinks DEF ReadReady, Reads, Shrinks, ModeTypes, ModeLines
<1>8. CASE ReadEnd
  BY <1>8, UiShrinks DEF ReadEnd, Reads, Shrinks, ModeTypes, ModeLines
<1>9. CASE ReadFatal
  BY <1>9, UiShrinks DEF ReadFatal, Reads, Shrinks, ModeTypes, ModeLines
<1>10. CASE ReadSteered
  BY <1>10, UiShrinks DEF ReadSteered, Reads, Shrinks, ModeTypes, ModeLines
<1>11. CASE ReadPermission
  BY <1>11, UiShrinks DEF ReadPermission, Reads, Shrinks, ModeTypes, ModeLines
<1>12. CASE ReadMode
  BY <1>12, UiShrinks DEF ReadMode, Reads, Shrinks, ModeTypes, ModeLines
<1>13. CASE ReadIgnored
  BY <1>13, UiShrinks DEF ReadIgnored, Shrinks, ModeTypes, ModeLines
<1>14. CASE Restart
  BY <1>14 DEF Restart, Life
<1>15. CASE CloseWindow
  BY <1>15 DEF CloseWindow, Shutdown, Life
<1>16. CASE SeeExit
  BY <1>16 DEF SeeExit, Life
<1>17. ASSUME NEW mode \in Mode, NEW kinds \in SUBSET Kind, NEW applied \in BOOLEAN,
             Ready(mode, kinds, applied)
      PROVE  ModeKnown'
  <2>1. toUi = <<>> /\ Emit("ready", Nothing, mode) /\ permissionMode' = mode
    BY <1>17 DEF Ready, Life
  <2>2. Carries(toUi', ModeLines, mode)
    <3>1. ~Has(toUi, ModeLines)
      BY <2>1
    <3> QED BY <2>1, <3>1, UiCarries
  <2>3. Has(toUi', ModeLines)
    <3>1. UiAdds("ready", Nothing)
      BY <2>1, UiGrows
    <3> QED BY <3>1 DEF UiAdds, Grows, ModeLines
  <2> QED BY <2>1, <2>2, <2>3
<1>18. CASE AgentExits
  BY <1>18, UiGrows DEF AgentExits, Exit, UiAdds, Grows, Keeps, ModeTypes, ModeLines, Life
<1>19. CASE BridgeExits
  BY <1>19, UiGrows DEF BridgeExits, Exit, UiAdds, Grows, Keeps, ModeTypes, ModeLines, Life
<1>20. ASSUME NEW refused \in BOOLEAN, TakePrompt(refused)
      PROVE  ModeKnown'
  BY <1>20, UiGrows DEF TakePrompt, Takes, UiAdds, Grows, Keeps, ModeTypes, ModeLines
<1>21. CASE TakeSteer
  BY <1>21, Writing DEF TakeSteer, Takes, UiAdds, Grows, Keeps, ModeTypes, ModeLines
<1>22. CASE TakeAnswer
  BY <1>22, UiGrows DEF TakeAnswer, Takes, UiAdds, Grows, Keeps, ModeTypes, ModeLines
<1>23. CASE TakeMode
  BY <1>23, UiGrows DEF TakeMode, Takes, UiAdds, Grows, Keeps, ModeTypes, ModeLines
<1>24. ASSUME NEW s \in saves, NEW ok \in BOOLEAN, ModeApplied(s, ok)
      PROVE  ModeKnown'
  <2>1. ~Has(toUi, ModeLines) /\ permissionMode \in Mode
    BY TypeParts DEF Switches, Has, ModeLines, ModeTypes, Bridge
  <2>2. UNCHANGED <<opened, proc, uiMode, permissionMode>>
    BY <1>24 DEF ModeApplied
  <2>3. CASE toUi' = toUi
    BY <2>2, <2>3
  <2>4. CASE SaveFails
    <3>1. Carries(toUi', ModeLines, permissionMode)
      BY <2>1, <2>4, UiCarries DEF SaveFails
    <3>2. Has(toUi', ModeLines)
      <4>1. UiAdds("permission_mode_error", Nothing)
        BY <2>1, <2>4, UiGrows DEF SaveFails
      <4> QED BY <4>1 DEF UiAdds, Grows, ModeLines
    <3> QED BY <2>2, <3>1, <3>2
  <2> QED BY <1>24, <2>3, <2>4 DEF ModeApplied
<1>25. ASSUME NEW s \in saves, NEW ok \in BOOLEAN, ModeWritten(s, ok)
      PROVE  ModeKnown'
  <2>1. ~Has(toUi, ModeLines) /\ permissionMode \in Mode /\ s.mode \in Mode
    BY TypeParts DEF Switches, Has, ModeLines, ModeTypes, Bridge, Saving
  <2>2. UNCHANGED <<opened, proc, uiMode>>
    BY <1>25 DEF ModeWritten
  <2>3. Has(toUi', ModeLines)
    BY <1>25, Writing DEF UiAdds, Grows, ModeLines
  <2>4. CASE ok
    <3>1. permissionMode' = s.mode /\ Emit("permission_mode", Nothing, s.mode)
      BY <1>25, <2>4 DEF ModeWritten, Commit, Emit
    <3>2. Carries(toUi', ModeLines, permissionMode')
      BY <2>1, <3>1, UiCarries
    <3> QED BY <2>2, <2>3, <3>1, <3>2
  <2>5. CASE ~ok
    <3>1. UNCHANGED permissionMode /\ SaveFails
      BY <1>25, <2>5 DEF ModeWritten
    <3>2. Carries(toUi', ModeLines, permissionMode)
      BY <2>1, <3>1, UiCarries DEF SaveFails
    <3> QED BY <2>2, <2>3, <3>1, <3>2
  <2> QED BY <2>4, <2>5
<1>26. ASSUME NEW reason \in {"end_turn", "stopped"}, AgentEnds(reason)
      PROVE  ModeKnown'
  BY <1>26, UiGrows DEF AgentEnds, UiAdds, Grows, Keeps, ModeTypes, ModeLines
<1>27. ASSUME NEW lost \in BOOLEAN, AgentFails(lost)
      PROVE  ModeKnown'
  <2>1. proc \in {"up", "closing"} /\ UNCHANGED <<opened, uiMode, permissionMode>>
    BY <1>27 DEF AgentFails, Exit, Life
  <2>2. UiAdds("fatal", Nothing) \/ UiAdds("error", Nothing)
    BY <1>27, UiGrows DEF AgentFails
  <2>3. /\ Carries(toUi, ModeLines, permissionMode) => Carries(toUi', ModeLines, permissionMode)
        /\ Has(toUi', ModeLines) <=> Has(toUi, ModeLines)
    BY <2>2 DEF UiAdds, Grows, Keeps, ModeLines
  <2> QED BY <2>1, <2>3
<1>28. ASSUME NEW options \in SUBSET Option, AgentRequests(options)
      PROVE  ModeKnown'
  BY <1>28, Writing DEF AgentRequests, UiAdds, Grows, Keeps, ModeTypes, ModeLines
<1>29. ASSUME NEW n \in Steer, NEW ok \in BOOLEAN, AgentSteers(n, ok)
      PROVE  ModeKnown'
  BY <1>29, Writing DEF AgentSteers, SteerReply, UiAdds, Grows, Keeps, ModeTypes, ModeLines
<1> QED
  BY <1>1, <1>2, <1>3, <1>4, <1>5, <1>6, <1>7, <1>8, <1>9, <1>10, <1>11, <1>12, <1>13, <1>14,
     <1>15, <1>16, <1>17, <1>18, <1>19, <1>20, <1>21, <1>22, <1>23, <1>24, <1>25, <1>26, <1>27, <1>28,
     <1>29 DEF Next, Users, WindowReads, BridgeTakes, BridgeSaves, AgentFinishes

LEMMA AgentMatchesStep == TypeOK /\ Life /\ Switches /\ AgentMatches /\ Next => AgentMatches'
<1> SUFFICES ASSUME TypeOK, Life, Switches, AgentMatches, Next PROVE AgentMatches'
  OBVIOUS
<1> USE DEF AgentMatches
<1>1. ASSUME NEW withImage \in BOOLEAN, Compose(withImage)
      PROVE  AgentMatches'
  BY <1>1 DEF Compose
<1>2. CASE Submit
  BY <1>2 DEF Submit
<1>3. ASSUME NEW p \in Prompt, Retry(p)
      PROVE  AgentMatches'
  BY <1>3 DEF Retry
<1>4. CASE SubmitSteer
  BY <1>4 DEF SubmitSteer
<1>5. CASE Toggle
  BY <1>5 DEF Toggle
<1>6. ASSUME NEW choice \in {"allow", "deny"}, Answer(choice)
      PROVE  AgentMatches'
  BY <1>6 DEF Answer
<1>7. CASE ReadReady
  BY <1>7 DEF ReadReady, Reads
<1>8. CASE ReadEnd
  BY <1>8 DEF ReadEnd, Reads
<1>9. CASE ReadFatal
  BY <1>9 DEF ReadFatal, Reads
<1>10. CASE ReadSteered
  BY <1>10 DEF ReadSteered, Reads
<1>11. CASE ReadPermission
  BY <1>11 DEF ReadPermission, Reads
<1>12. CASE ReadMode
  BY <1>12 DEF ReadMode, Reads
<1>13. CASE ReadIgnored
  BY <1>13 DEF ReadIgnored
<1>14. CASE Restart
  BY <1>14 DEF Restart
<1>15. CASE CloseWindow
  BY <1>15 DEF CloseWindow, Shutdown
<1>16. CASE SeeExit
  BY <1>16 DEF SeeExit
<1>17. ASSUME NEW mode \in Mode, NEW kinds \in SUBSET Kind, NEW applied \in BOOLEAN,
             Ready(mode, kinds, applied)
      PROVE  AgentMatches'
  BY <1>17, TypeParts DEF Ready, KindOf, Mode, Bridge, Life
<1>18. CASE AgentExits
  BY <1>18 DEF AgentExits, Exit
<1>19. CASE BridgeExits
  BY <1>19 DEF BridgeExits, Exit
<1>20. ASSUME NEW refused \in BOOLEAN, TakePrompt(refused)
      PROVE  AgentMatches'
  BY <1>20 DEF TakePrompt, Takes
<1>21. CASE TakeSteer
  BY <1>21 DEF TakeSteer, Takes
<1>22. CASE TakeAnswer
  BY <1>22 DEF TakeAnswer, Takes
<1>23. CASE TakeMode
  BY <1>23, TakenShrinks DEF TakeMode, Takes, Switches, Shrinks
<1>24. ASSUME NEW s \in saves, NEW ok \in BOOLEAN, ModeApplied(s, ok)
      PROVE  AgentMatches'
  BY <1>24, TypeParts DEF ModeApplied, KindOf, Saving, Bridge, Switches
<1>25. ASSUME NEW s \in saves, NEW ok \in BOOLEAN, ModeWritten(s, ok)
      PROVE  AgentMatches'
  BY <1>25, TypeParts DEF ModeWritten, Commit, KindOf, Saving, Bridge, Switches
<1>26. ASSUME NEW reason \in {"end_turn", "stopped"}, AgentEnds(reason)
      PROVE  AgentMatches'
  BY <1>26 DEF AgentEnds
<1>27. ASSUME NEW lost \in BOOLEAN, AgentFails(lost)
      PROVE  AgentMatches'
  <2>1. CASE lost /\ proc = "closing"
    BY <1>27, <2>1 DEF AgentFails, Exit
  <2>2. CASE ~(lost /\ proc = "closing")
    <3>1. UNCHANGED <<saves, permissionMode, agentModeVars>> /\ (proc' = proc \/ proc' = "closing")
      BY <1>27, <2>2 DEF AgentFails, Shutdown
    <3> QED BY <3>1
  <2> QED BY <2>1, <2>2
<1>28. ASSUME NEW options \in SUBSET Option, AgentRequests(options)
      PROVE  AgentMatches'
  BY <1>28 DEF AgentRequests
<1>29. ASSUME NEW n \in Steer, NEW ok \in BOOLEAN, AgentSteers(n, ok)
      PROVE  AgentMatches'
  BY <1>29 DEF AgentSteers, SteerReply
<1> QED
  BY <1>1, <1>2, <1>3, <1>4, <1>5, <1>6, <1>7, <1>8, <1>9, <1>10, <1>11, <1>12, <1>13, <1>14,
     <1>15, <1>16, <1>17, <1>18, <1>19, <1>20, <1>21, <1>22, <1>23, <1>24, <1>25, <1>26, <1>27, <1>28,
     <1>29 DEF Next, Users, WindowReads, BridgeTakes, BridgeSaves, AgentFinishes

LEMMA ModesFollow == Life /\ Switches /\ ModeKnown /\ AgentMatches => ModesAgree
<1> SUFFICES ASSUME Life, Switches, ModeKnown, AgentMatches, InMode
             PROVE  /\ uiMode = permissionMode
                    /\ KindOf(uiMode) \in modes /\ ~unsaved => agentMode \in {KindOf(uiMode), "refused"}
  BY DEF ModesAgree
<1>1. saves = {} /\ ~Has(toUi, ModeTypes) /\ ~Has(toUi, {"ready"})
  BY DEF Switches, Life, InMode
<1>2. ~Has(toUi, ModeLines)
  BY <1>1 DEF Has, ModeTypes, ModeLines
<1> QED BY <1>1, <1>2 DEF ModeKnown, AgentMatches, InMode

\* What the window waits for, a correction or a switch, is in a pipe or with
\* the bridge and its agent.
Acks == {"steered", "steering_error", "done", "error", "fatal"}
SteerHeard ==
  opened /\ Alive /\ steeringPending => Has(toBridge, {"steer"}) \/ steers # {} \/ Has(toUi, Acks)
SwitchHeard ==
  opened /\ Alive /\ modePending /\ ~stranded =>
    Has(toBridge, {"permission_mode"}) \/ saves # {} \/ Has(toUi, ModeTypes)

LEMMA Heard == /\ SteerHeard <=> SteerAcknowledged
               /\ SwitchHeard <=> SwitchAcknowledged
<1>1. ASSUME NEW pipe, NEW T PROVE Types(pipe) \cap T # {} <=> Has(pipe, T)
  BY DEF Types, Has
<1>2. ASSUME NEW pipe PROVE Ids(pipe, "steer") # {} <=> Has(pipe, {"steer"})
  BY HasIds
<1>3. ASSUME NEW pipe PROVE "permission_mode" \in Types(pipe) <=> Has(pipe, {"permission_mode"})
  BY DEF Types, Has
<1>4. Acks = {"steered", "steering_error"} \cup Ends
  BY DEF Acks, Ends
<1>5. SteerHeard <=> SteerAcknowledged
  BY <1>1, <1>2, <1>4 DEF SteerHeard, SteerAcknowledged
<1>6. SwitchHeard <=> SwitchAcknowledged
  BY <1>1, <1>3 DEF SwitchHeard, SwitchAcknowledged, ModeTypes
<1> QED BY <1>5, <1>6

LEMMA SteerHeardStep == TypeOK /\ Life /\ SteerHeard /\ Next => SteerHeard'
<1> SUFFICES ASSUME TypeOK, Life, SteerHeard, Next PROVE SteerHeard'
  OBVIOUS
<1> USE EmptyPipe DEF SteerHeard, Alive
<1>1. ASSUME NEW withImage \in BOOLEAN, Compose(withImage)
      PROVE  SteerHeard'
  BY <1>1 DEF Compose
<1>2. CASE Submit
  BY <1>2, Sending, TypeParts DEF Submit, SentAdds, Grows, Drafts
<1>3. ASSUME NEW p \in Prompt, Retry(p)
      PROVE  SteerHeard'
  BY <1>3, Sending, TypeParts DEF Retry, SentAdds, Grows, Drafts
<1>4. CASE SubmitSteer
  BY <1>4, Sending, TypeParts DEF SubmitSteer, SentAdds, Grows, Drafts
<1>5. CASE Toggle
  BY <1>5, Sending, TypeParts DEF Toggle, SentAdds, Grows, Drafts
<1>6. ASSUME NEW choice \in {"allow", "deny"}, Answer(choice)
      PROVE  SteerHeard'
  BY <1>6, Sending, TypeParts DEF Answer, SentAdds, Grows, Drafts
<1>7. CASE ReadReady
  BY <1>7, UiShrinks, Sending, TypeParts DEF ReadReady, Reads, Shrinks, Acks, SentAdds, Grows,
     Drafts
<1>8. CASE ReadEnd
  BY <1>8, UiShrinks DEF ReadEnd, Reads, Shrinks, Acks
<1>9. CASE ReadFatal
  BY <1>9, UiShrinks DEF ReadFatal, Reads, Shrinks, Acks
<1>10. CASE ReadSteered
  BY <1>10, UiShrinks DEF ReadSteered, Reads, Shrinks, Acks
<1>11. CASE ReadPermission
  BY <1>11, UiShrinks DEF ReadPermission, Reads, Shrinks, Acks
<1>12. CASE ReadMode
  BY <1>12, UiShrinks DEF ReadMode, Reads, Shrinks, Acks
<1>13. CASE ReadIgnored
  BY <1>13, UiShrinks DEF ReadIgnored, Shrinks, Acks
<1>14. CASE Restart
  BY <1>14 DEF Restart, Life
<1>15. CASE CloseWindow
  BY <1>15 DEF CloseWindow, Shutdown, Life
<1>16. CASE SeeExit
  BY <1>16 DEF SeeExit, Life
<1>17. ASSUME NEW mode \in Mode, NEW kinds \in SUBSET Kind, NEW applied \in BOOLEAN,
             Ready(mode, kinds, applied)
      PROVE  SteerHeard'
  BY <1>17, UiGrows, TypeParts DEF Ready, UiAdds, Grows, Acks, Bridge, Saving
<1>18. CASE AgentExits
  BY <1>18, UiGrows DEF AgentExits, Exit, UiAdds, Grows, Acks, Life
<1>19. CASE BridgeExits
  BY <1>19, UiGrows DEF BridgeExits, Exit, UiAdds, Grows, Acks, Life
<1>20. ASSUME NEW refused \in BOOLEAN, TakePrompt(refused)
      PROVE  SteerHeard'
  BY <1>20, UiGrows, TakenShrinks DEF TakePrompt, Takes, UiAdds, Grows, Acks, Shrinks
<1>21. CASE TakeSteer
  BY <1>21, Writing, TakenShrinks DEF TakeSteer, Takes, UiAdds, Grows, Acks, Shrinks
<1>22. CASE TakeAnswer
  BY <1>22, UiGrows, TakenShrinks DEF TakeAnswer, Takes, UiAdds, Grows, Acks, Shrinks
<1>23. CASE TakeMode
  BY <1>23, UiGrows, TakenShrinks DEF TakeMode, Takes, UiAdds, Grows, Acks, Shrinks
<1>24. ASSUME NEW s \in saves, NEW ok \in BOOLEAN, ModeApplied(s, ok)
      PROVE  SteerHeard'
  BY <1>24, Writing, TypeParts DEF ModeApplied, SaveFails, UiAdds, Grows, Acks, Bridge, Saving
<1>25. ASSUME NEW s \in saves, NEW ok \in BOOLEAN, ModeWritten(s, ok)
      PROVE  SteerHeard'
  BY <1>25, Writing, TypeParts DEF ModeWritten, SaveFails, UiAdds, Grows, Acks, Bridge, Saving
<1>26. ASSUME NEW reason \in {"end_turn", "stopped"}, AgentEnds(reason)
      PROVE  SteerHeard'
  BY <1>26, UiGrows DEF AgentEnds, UiAdds, Grows, Acks
<1>27. ASSUME NEW lost \in BOOLEAN, AgentFails(lost)
      PROVE  SteerHeard'
  BY <1>27, UiGrows DEF AgentFails, Shutdown, Exit, UiAdds, Grows, Acks
<1>28. ASSUME NEW options \in SUBSET Option, AgentRequests(options)
      PROVE  SteerHeard'
  BY <1>28, UiGrows, Bounds, TypeParts DEF AgentRequests, UiAdds, Grows, Acks, Bridge
<1>29. ASSUME NEW n \in Steer, NEW ok \in BOOLEAN, AgentSteers(n, ok)
      PROVE  SteerHeard'
  BY <1>29, Writing DEF AgentSteers, SteerReply, UiAdds, Grows, Acks
<1> QED
  BY <1>1, <1>2, <1>3, <1>4, <1>5, <1>6, <1>7, <1>8, <1>9, <1>10, <1>11, <1>12, <1>13, <1>14,
     <1>15, <1>16, <1>17, <1>18, <1>19, <1>20, <1>21, <1>22, <1>23, <1>24, <1>25, <1>26, <1>27, <1>28,
     <1>29 DEF Next, Users, WindowReads, BridgeTakes, BridgeSaves, AgentFinishes

LEMMA SwitchHeardStep == TypeOK /\ Life /\ SwitchHeard /\ Next => SwitchHeard'
<1> SUFFICES ASSUME TypeOK, Life, SwitchHeard, Next PROVE SwitchHeard'
  OBVIOUS
<1> USE EmptyPipe DEF SwitchHeard, Alive
<1>1. ASSUME NEW withImage \in BOOLEAN, Compose(withImage)
      PROVE  SwitchHeard'
  BY <1>1 DEF Compose
<1>2. CASE Submit
  BY <1>2, Sending, TypeParts DEF Submit, SentAdds, Grows, Drafts
<1>3. ASSUME NEW p \in Prompt, Retry(p)
      PROVE  SwitchHeard'
  BY <1>3, Sending, TypeParts DEF Retry, SentAdds, Grows, Drafts
<1>4. CASE SubmitSteer
  BY <1>4, Sending, TypeParts DEF SubmitSteer, SentAdds, Grows, Drafts
<1>5. CASE Toggle
  BY <1>5, Sending, TypeParts DEF Toggle, SentAdds, Grows, Drafts
<1>6. ASSUME NEW choice \in {"allow", "deny"}, Answer(choice)
      PROVE  SwitchHeard'
  BY <1>6, Sending, TypeParts DEF Answer, SentAdds, Grows, Drafts
<1>7. CASE ReadReady
  BY <1>7, UiShrinks, Sending, TypeParts DEF ReadReady, Reads, Shrinks, ModeTypes, SentAdds, Grows,
     Drafts
<1>8. CASE ReadEnd
  BY <1>8, UiShrinks DEF ReadEnd, Reads, Shrinks, ModeTypes
<1>9. CASE ReadFatal
  BY <1>9, UiShrinks DEF ReadFatal, Reads, Shrinks, ModeTypes
<1>10. CASE ReadSteered
  BY <1>10, UiShrinks DEF ReadSteered, Reads, Shrinks, ModeTypes
<1>11. CASE ReadPermission
  BY <1>11, UiShrinks DEF ReadPermission, Reads, Shrinks, ModeTypes
<1>12. CASE ReadMode
  BY <1>12, UiShrinks DEF ReadMode, Reads, Shrinks, ModeTypes
<1>13. CASE ReadIgnored
  BY <1>13, UiShrinks DEF ReadIgnored, Shrinks, ModeTypes
<1>14. CASE Restart
  BY <1>14 DEF Restart, Life
<1>15. CASE CloseWindow
  BY <1>15 DEF CloseWindow, Shutdown, Life
<1>16. CASE SeeExit
  BY <1>16 DEF SeeExit, Life
<1>17. ASSUME NEW mode \in Mode, NEW kinds \in SUBSET Kind, NEW applied \in BOOLEAN,
             Ready(mode, kinds, applied)
      PROVE  SwitchHeard'
  BY <1>17, UiGrows, TypeParts DEF Ready, UiAdds, Grows, ModeTypes, Bridge, Saving
<1>18. CASE AgentExits
  BY <1>18, UiGrows DEF AgentExits, Exit, UiAdds, Grows, ModeTypes, Life
<1>19. CASE BridgeExits
  BY <1>19, UiGrows DEF BridgeExits, Exit, UiAdds, Grows, ModeTypes, Life
<1>20. ASSUME NEW refused \in BOOLEAN, TakePrompt(refused)
      PROVE  SwitchHeard'
  BY <1>20, UiGrows, TakenShrinks DEF TakePrompt, Takes, UiAdds, Grows, ModeTypes, Shrinks
<1>21. CASE TakeSteer
  BY <1>21, Writing, TakenShrinks DEF TakeSteer, Takes, UiAdds, Grows, ModeTypes, Shrinks
<1>22. CASE TakeAnswer
  BY <1>22, UiGrows, TakenShrinks DEF TakeAnswer, Takes, UiAdds, Grows, ModeTypes, Shrinks
<1>23. CASE TakeMode
  BY <1>23, UiGrows, TakenShrinks DEF TakeMode, Takes, UiAdds, Grows, ModeTypes, Shrinks
<1>24. ASSUME NEW s \in saves, NEW ok \in BOOLEAN, ModeApplied(s, ok)
      PROVE  SwitchHeard'
  BY <1>24, Writing, TypeParts DEF ModeApplied, SaveFails, UiAdds, Grows, ModeTypes, Bridge, Saving
<1>25. ASSUME NEW s \in saves, NEW ok \in BOOLEAN, ModeWritten(s, ok)
      PROVE  SwitchHeard'
  BY <1>25, Writing, TypeParts DEF ModeWritten, SaveFails, UiAdds, Grows, ModeTypes, Bridge, Saving
<1>26. ASSUME NEW reason \in {"end_turn", "stopped"}, AgentEnds(reason)
      PROVE  SwitchHeard'
  BY <1>26, UiGrows DEF AgentEnds, UiAdds, Grows, ModeTypes
<1>27. ASSUME NEW lost \in BOOLEAN, AgentFails(lost)
      PROVE  SwitchHeard'
  BY <1>27, UiGrows DEF AgentFails, Shutdown, Exit, UiAdds, Grows, ModeTypes
<1>28. ASSUME NEW options \in SUBSET Option, AgentRequests(options)
      PROVE  SwitchHeard'
  BY <1>28, UiGrows, Bounds, TypeParts DEF AgentRequests, UiAdds, Grows, ModeTypes, Bridge
<1>29. ASSUME NEW n \in Steer, NEW ok \in BOOLEAN, AgentSteers(n, ok)
      PROVE  SwitchHeard'
  BY <1>29, Writing DEF AgentSteers, SteerReply, UiAdds, Grows, ModeTypes
<1> QED
  BY <1>1, <1>2, <1>3, <1>4, <1>5, <1>6, <1>7, <1>8, <1>9, <1>10, <1>11, <1>12, <1>13, <1>14,
     <1>15, <1>16, <1>17, <1>18, <1>19, <1>20, <1>21, <1>22, <1>23, <1>24, <1>25, <1>26, <1>27, <1>28,
     <1>29 DEF Next, Users, WindowReads, BridgeTakes, BridgeSaves, AgentFinishes
-----------------------------------------------------------------------------
(* The dialogs: one is shown, the others wait.                               *)
LEMMA QueueTail ==
  ASSUME permissionQueue \in Seq(Permission), permissionQueue # <<>>, Queue
  PROVE  /\ Head(permissionQueue) \in Permission
         /\ ToSet(permissionQueue) = ToSet(Tail(permissionQueue)) \cup {Head(permissionQueue)}
         /\ Head(permissionQueue) \notin ToSet(Tail(permissionQueue))
         /\ \A i, j \in DOMAIN Tail(permissionQueue) :
              Tail(permissionQueue)[i] = Tail(permissionQueue)[j] => i = j
<1> DEFINE q == permissionQueue
<1>1. Head(q) \in Permission /\ 1 \in DOMAIN q /\ q[1] = Head(q) /\ DOMAIN q \subseteq Nat
  BY Removed
<1>2. \A i \in DOMAIN Tail(q) : i + 1 \in DOMAIN q /\ Tail(q)[i] = q[i + 1] /\ i \in Nat /\ i >= 1
  BY Removed
<1>3. \A i \in DOMAIN q : i # 1 => i - 1 \in DOMAIN Tail(q) /\ Tail(q)[i - 1] = q[i]
  BY Removed
<1>4. \A i, j \in DOMAIN q : q[i] = q[j] => i = j
  BY DEF Queue
<1>5. ToSet(q) \subseteq ToSet(Tail(q)) \cup {Head(q)}
  BY <1>1, <1>3 DEF ToSet
<1>6. ToSet(Tail(q)) \cup {Head(q)} \subseteq ToSet(q)
  BY <1>1, <1>2 DEF ToSet
<1>7. Head(q) \notin ToSet(Tail(q))
  BY <1>1, <1>2, <1>4 DEF ToSet
<1>8. \A i, j \in DOMAIN Tail(q) : Tail(q)[i] = Tail(q)[j] => i = j
  BY <1>2, <1>4
<1> QED BY <1>1, <1>5, <1>6, <1>7, <1>8

LEMMA DialogsMove ==
  ASSUME View, Queue
  PROVE  /\ ClearPermissions => Queue' /\ Dialogs' = {}
         /\ shown # Nothing /\ ShowNext => Queue' /\ Dialogs' = Dialogs \ {shown}
         /\ \A r \in Permission : r \notin Dialogs /\ Enqueue(r) =>
              Queue' /\ Dialogs' = Dialogs \cup {r}
<1>1. ASSUME ClearPermissions PROVE Queue' /\ Dialogs' = {}
  BY <1>1 DEF ClearPermissions, Queue, Dialogs, ToSet
<1>2. ASSUME shown # Nothing, ShowNext PROVE Queue' /\ Dialogs' = Dialogs \ {shown}
  <2>1. CASE permissionQueue = <<>>
    BY <1>2, <2>1 DEF ShowNext, Queue, Dialogs, ToSet
  <2>2. CASE permissionQueue # <<>>
    <3>1. shown' = Head(permissionQueue) /\ permissionQueue' = Tail(permissionQueue)
      BY <1>2, <2>2 DEF ShowNext
    <3>2. shown' \in Permission
      BY <2>2, <3>1, QueueTail DEF View
    <3>3. Queue'
      BY <2>2, <3>1, <3>2, QueueTail, Numbers DEF View, Queue
    <3>4. ToSet(permissionQueue) \subseteq Permission
      BY DEF View, ToSet
    <3> QED BY <2>2, <3>1, <3>2, <3>3, <3>4, QueueTail, Numbers DEF View, Dialogs, Queue
  <2> QED BY <2>1, <2>2
<1>3. ASSUME NEW r \in Permission, r \notin Dialogs, Enqueue(r)
      PROVE  Queue' /\ Dialogs' = Dialogs \cup {r}
  <2>1. r # Nothing /\ r # shown /\ r \notin ToSet(permissionQueue)
    BY <1>3, Numbers DEF Dialogs
  <2>2. CASE shown = Nothing
    BY <1>3, <2>1, <2>2 DEF Enqueue, Queue, Dialogs, ToSet
  <2>3. CASE shown # Nothing
    <3>1. shown' = shown /\ permissionQueue' = Append(permissionQueue, r)
          /\ permissionQueue \in Seq(Permission)
      BY <1>3, <2>3 DEF Enqueue, View
    <3>2. ToSet(permissionQueue') = ToSet(permissionQueue) \cup {r}
      BY <3>1, Appended DEF ToSet
    <3>3. \A i \in DOMAIN permissionQueue : permissionQueue[i] # r
      BY <2>1 DEF ToSet
    <3>4. \A i, j \in DOMAIN permissionQueue' : permissionQueue'[i] = permissionQueue'[j] => i = j
      BY <3>1, <3>3, Appended DEF Queue
    <3>5. Queue'
      BY <2>1, <2>3, <3>1, <3>2, <3>4 DEF Queue
    <3> QED BY <2>1, <2>3, <3>1, <3>2, <3>5 DEF Dialogs
  <2> QED BY <2>2, <2>3
<1> QED BY <1>1, <1>2, <1>3

LEMMA DialogsSame == UNCHANGED <<shown, permissionQueue>> => Dialogs' = Dialogs /\ (Queue => Queue')
BY DEF Dialogs, Queue

\* A click is answered once: the request shown was not answered before.
LEMMA ClicksAppend ==
  ASSUME TypeOK, Clicks, NEW type, NEW id, SentAdds(type, id), type # "permission",
         clicked' = clicked
  PROVE  Clicks'
<1>1. PICK l \in FromWindow : l.type = type /\ l.id = id /\ toBridge' = Append(toBridge, l)
  BY DEF SentAdds
<1>2. toBridge \in Seq(FromWindow)
  BY TypeParts DEF Pipes
<1> QED BY <1>1, <1>2, Appended DEF Clicks

LEMMA ClicksTail == TypeOK /\ Clicks /\ toBridge # <<>> /\ toBridge' = Tail(toBridge) /\ clicked' = clicked
                      => Clicks'
<1> SUFFICES ASSUME TypeOK, Clicks, toBridge # <<>>, toBridge' = Tail(toBridge), clicked' = clicked
             PROVE  Clicks'
  OBVIOUS
<1>1. toBridge \in Seq(FromWindow)
  BY TypeParts DEF Pipes
<1> QED BY <1>1, Removed DEF Clicks

LEMMA ClicksAnswer ==
  ASSUME TypeOK, Clicks, Consent, NEW choice \in {"allow", "deny"}, Answer(choice)
  PROVE  Clicks'
<1>1. /\ shown \in Permission /\ clicked \in [Permission -> {"none", "allow", "deny"}]
      /\ clicked' = [clicked EXCEPT ![shown] = choice]
      /\ toBridge' = Append(toBridge, Line("permission", shown, choice))
  BY TypeParts DEF Answer, View, User
<1>2. clicked[shown] = "none"
  BY <1>1, Numbers DEF Consent, Asked, Dialogs
<1>3. toBridge \in Seq(FromWindow) /\ Line("permission", shown, choice) \in FromWindow
  BY <1>1, TypeParts, WindowLines DEF Pipes
<1>4. ASSUME NEW i \in DOMAIN toBridge', toBridge'[i].type = "permission"
      PROVE  clicked'[toBridge'[i].id] = toBridge'[i].what
  <2>1. CASE i \in DOMAIN toBridge
    <3>1. toBridge'[i] = toBridge[i]
      BY <1>1, <1>3, <2>1, Appended
    <3>2. toBridge[i] \in FromWindow /\ toBridge[i].type = "permission"
      BY <1>3, <1>4, <2>1, <3>1
    <3>3. toBridge[i].id \in Permission /\ toBridge[i].what \in {"allow", "deny"}
      BY <3>2, Payloads
    <3>4. clicked[toBridge[i].id] = toBridge[i].what
      BY <2>1, <3>2 DEF Clicks
    <3> QED BY <1>1, <1>2, <3>1, <3>3, <3>4
  <2>2. CASE i = Len(toBridge) + 1
    <3>1. toBridge'[i] = Line("permission", shown, choice)
      BY <1>1, <1>3, <2>2, Appended
    <3> QED BY <1>1, <3>1 DEF Line
  <2> QED BY <1>1, <1>3, <1>4, <2>1, <2>2, Appended
<1> QED BY <1>4 DEF Clicks

LEMMA ClicksFrame == UNCHANGED <<toBridge, clicked>> \/ toBridge' = <<>> => (Clicks => Clicks')
BY DEF Clicks

LEMMA ClicksStep == TypeOK /\ Life /\ Clicks /\ Consent /\ Next => Clicks'
<1> SUFFICES ASSUME TypeOK, Life, Clicks, Consent, Next PROVE Clicks'
  OBVIOUS
<1>1. ASSUME NEW withImage \in BOOLEAN, Compose(withImage)
      PROVE  Clicks'
  BY <1>1, ClicksFrame DEF Compose
<1>2. CASE Submit
  BY <1>2, Sending, ClicksAppend, ClicksFrame, TypeParts DEF Submit, Drafts
<1>3. ASSUME NEW p \in Prompt, Retry(p)
      PROVE  Clicks'
  BY <1>3, Sending, ClicksAppend, ClicksFrame, TypeParts DEF Retry, Drafts
<1>4. CASE SubmitSteer
  BY <1>4, Sending, ClicksAppend, ClicksFrame, TypeParts DEF SubmitSteer, Drafts
<1>5. CASE Toggle
  BY <1>5, Sending, ClicksAppend, ClicksFrame, TypeParts DEF Toggle, Drafts
<1>6. ASSUME NEW choice \in {"allow", "deny"}, Answer(choice)
      PROVE  Clicks'
  BY <1>6, ClicksAnswer
<1>7. CASE ReadReady
  BY <1>7, Sending, ClicksAppend, ClicksFrame, TypeParts DEF ReadReady, Reads, Drafts
<1>8. CASE ReadEnd
  BY <1>8, ClicksFrame DEF ReadEnd, Reads
<1>9. CASE ReadFatal
  BY <1>9, ClicksFrame DEF ReadFatal, Reads
<1>10. CASE ReadSteered
  BY <1>10, ClicksFrame DEF ReadSteered, Reads
<1>11. CASE ReadPermission
  BY <1>11, ClicksFrame DEF ReadPermission, Reads
<1>12. CASE ReadMode
  BY <1>12, ClicksFrame DEF ReadMode, Reads
<1>13. CASE ReadIgnored
  BY <1>13, ClicksFrame DEF ReadIgnored
<1>14. CASE Restart
  BY <1>14, ClicksFrame DEF Restart, Life
<1>15. CASE CloseWindow
  BY <1>15, ClicksFrame DEF CloseWindow, Shutdown
<1>16. CASE SeeExit
  BY <1>16, ClicksFrame DEF SeeExit
<1>17. ASSUME NEW mode \in Mode, NEW kinds \in SUBSET Kind, NEW applied \in BOOLEAN,
             Ready(mode, kinds, applied)
      PROVE  Clicks'
  BY <1>17, ClicksFrame DEF Ready
<1>18. CASE AgentExits
  BY <1>18, ClicksFrame DEF AgentExits, Exit
<1>19. CASE BridgeExits
  BY <1>19, ClicksFrame DEF BridgeExits, Exit
<1>20. ASSUME NEW refused \in BOOLEAN, TakePrompt(refused)
      PROVE  Clicks'
  BY <1>20, ClicksTail, TypeParts DEF TakePrompt, Takes
<1>21. CASE TakeSteer
  BY <1>21, ClicksTail, TypeParts DEF TakeSteer, Takes
<1>22. CASE TakeAnswer
  BY <1>22, ClicksTail, TypeParts DEF TakeAnswer, Takes
<1>23. CASE TakeMode
  BY <1>23, ClicksTail, TypeParts DEF TakeMode, Takes
<1>24. ASSUME NEW s \in saves, NEW ok \in BOOLEAN, ModeApplied(s, ok)
      PROVE  Clicks'
  BY <1>24, ClicksFrame DEF ModeApplied
<1>25. ASSUME NEW s \in saves, NEW ok \in BOOLEAN, ModeWritten(s, ok)
      PROVE  Clicks'
  BY <1>25, ClicksFrame DEF ModeWritten
<1>26. ASSUME NEW reason \in {"end_turn", "stopped"}, AgentEnds(reason)
      PROVE  Clicks'
  BY <1>26, ClicksFrame DEF AgentEnds
<1>27. ASSUME NEW lost \in BOOLEAN, AgentFails(lost)
      PROVE  Clicks'
  BY <1>27, ClicksFrame DEF AgentFails, Shutdown, Exit
<1>28. ASSUME NEW options \in SUBSET Option, AgentRequests(options)
      PROVE  Clicks'
  BY <1>28, ClicksFrame DEF AgentRequests
<1>29. ASSUME NEW n \in Steer, NEW ok \in BOOLEAN, AgentSteers(n, ok)
      PROVE  Clicks'
  BY <1>29, ClicksFrame DEF AgentSteers
<1> QED
  BY <1>1, <1>2, <1>3, <1>4, <1>5, <1>6, <1>7, <1>8, <1>9, <1>10, <1>11, <1>12, <1>13, <1>14,
     <1>15, <1>16, <1>17, <1>18, <1>19, <1>20, <1>21, <1>22, <1>23, <1>24, <1>25, <1>26, <1>27, <1>28,
     <1>29 DEF Next, Users, WindowReads, BridgeTakes, BridgeSaves, AgentFinishes

LEMMA ConsentStep == TypeOK /\ Life /\ Consent /\ Next => Consent'
<1> SUFFICES ASSUME TypeOK, Life, Consent, Next PROVE Consent'
  OBVIOUS
<1> USE DEF Consent, Asked
<1>1. ASSUME NEW withImage \in BOOLEAN, Compose(withImage)
      PROVE  Consent'
  BY <1>1, DialogsSame, TypeParts DEF Compose
<1>2. CASE Submit
  BY <1>2, DialogsSame, TypeParts DEF Submit
<1>3. ASSUME NEW p \in Prompt, Retry(p)
      PROVE  Consent'
  BY <1>3, DialogsSame, TypeParts DEF Retry
<1>4. CASE SubmitSteer
  BY <1>4, DialogsSame, TypeParts DEF SubmitSteer
<1>5. CASE Toggle
  BY <1>5, DialogsSame, TypeParts DEF Toggle
<1>6. ASSUME NEW choice \in {"allow", "deny"}, Answer(choice)
      PROVE  Consent'
  <2>1. shown \in Permission /\ shown # Nothing /\ clicked \in [Permission -> {"none", "allow", "deny"}]
    BY <1>6, TypeParts DEF Answer, View, User
  <2>2. Queue' /\ Dialogs' = Dialogs \ {shown}
    BY <1>6, <2>1, DialogsMove, TypeParts DEF Answer
  <2>3. shown \in Dialogs
    BY <2>1 DEF Dialogs
  <2>4. toUi' = toUi /\ permissionSequence' = permissionSequence
        /\ clicked' = [clicked EXCEPT ![shown] = choice]
    BY <1>6 DEF Answer
  <2>5. Asked \subseteq Permission /\ permissionSequence \in Nat
    BY TypeParts, SessionAssumption DEF Bridge, Permission
  <2>6. \A r \in Permission : r # shown => clicked'[r] = clicked[r]
    BY <2>1, <2>4
  <2>7. shown \in 1..permissionSequence
    BY <2>3
  <2> QED BY <2>2, <2>3, <2>4, <2>5, <2>6, <2>7
<1>7. CASE ReadReady
  BY <1>7, DialogsSame, TypeParts, UiShrinks DEF ReadReady, Reads, Answers, Gains
<1>8. CASE ReadEnd
  BY <1>8, DialogsSame, TypeParts, UiShrinks, DialogsMove DEF ReadEnd, Reads, Answers, Gains
<1>9. CASE ReadFatal
  BY <1>9, DialogsSame, TypeParts, UiShrinks, DialogsMove DEF ReadFatal, Reads, Answers, Gains
<1>10. CASE ReadSteered
  BY <1>10, DialogsSame, TypeParts, UiShrinks DEF ReadSteered, Reads, Answers, Gains
<1>11. CASE ReadPermission
  <2> DEFINE r == Head(toUi).id
  <2>1. Shrinks(toUi, toUi', "permission") /\ Gains(toUi', toUi, "permission", r)
        /\ Answers(toUi, toUi', "permission", r)
    BY <1>11, UiShrinks DEF ReadPermission, Reads
  <2>2. r \in Ids(toUi, "permission") /\ r \notin Ids(toUi', "permission") /\ Distinct(toUi')
    BY <2>1 DEF Gains, Answers
  <2>3. r \in Permission /\ r \notin Dialogs
    BY <2>2, TypeParts, SessionAssumption DEF Bridge, Permission
  <2>4. Queue' /\ Dialogs' = Dialogs \cup {r}
    BY <1>11, <2>3, DialogsMove, TypeParts DEF ReadPermission
  <2>5. Ids(toUi, "permission") = Ids(toUi', "permission") \cup {r}
    BY <2>1 DEF Gains
  <2>6. UNCHANGED <<permissionSequence, clicked>>
    BY <1>11 DEF ReadPermission, Reads
  <2> QED BY <2>2, <2>4, <2>5, <2>6
<1>12. CASE ReadMode
  BY <1>12, DialogsSame, TypeParts, UiShrinks, DialogsMove DEF ReadMode, Reads, Answers, Gains
<1>13. CASE ReadIgnored
  BY <1>13, DialogsSame, TypeParts, UiShrinks DEF ReadIgnored, Answers, Gains
<1>14. CASE Restart
  BY <1>14, DialogsSame, TypeParts, EmptyPipe, Numbers DEF Restart, Life, Dialogs, ToSet
<1>15. CASE CloseWindow
  BY <1>15, DialogsSame, TypeParts, DialogsMove DEF CloseWindow, Shutdown, ClearPermissions
<1>16. CASE SeeExit
  BY <1>16, DialogsSame, TypeParts, DialogsMove DEF SeeExit
<1>17. ASSUME NEW mode \in Mode, NEW kinds \in SUBSET Kind, NEW applied \in BOOLEAN,
             Ready(mode, kinds, applied)
      PROVE  Consent'
  <2>1. UiAdds("ready", Nothing)
    BY <1>17, UiGrows, TypeParts DEF Ready, Bridge
  <2> QED BY <1>17, <2>1, DialogsSame DEF Ready, UiAdds, Requests, Gains
<1>18. CASE AgentExits
  BY <1>18, DialogsSame, TypeParts, UiGrows DEF AgentExits, Exit, UiAdds, Requests, Gains
<1>19. CASE BridgeExits
  BY <1>19, DialogsSame, TypeParts, UiGrows DEF BridgeExits, Exit, UiAdds, Requests, Gains
<1>20. ASSUME NEW refused \in BOOLEAN, TakePrompt(refused)
      PROVE  Consent'
  BY <1>20, DialogsSame, TypeParts, UiGrows DEF TakePrompt, Takes, UiAdds, Requests, Gains
<1>21. CASE TakeSteer
  BY <1>21, DialogsSame, TypeParts, Writing DEF TakeSteer, Takes, UiAdds, Requests, Gains
<1>22. CASE TakeAnswer
  BY <1>22, DialogsSame, TypeParts, UiGrows DEF TakeAnswer, Takes, UiAdds, Requests, Gains
<1>23. CASE TakeMode
  BY <1>23, DialogsSame, TypeParts, UiGrows DEF TakeMode, Takes, UiAdds, Requests, Gains
<1>24. ASSUME NEW s \in saves, NEW ok \in BOOLEAN, ModeApplied(s, ok)
      PROVE  Consent'
  BY <1>24, DialogsSame, TypeParts, Writing DEF ModeApplied, UiAdds, Requests, Gains
<1>25. ASSUME NEW s \in saves, NEW ok \in BOOLEAN, ModeWritten(s, ok)
      PROVE  Consent'
  BY <1>25, DialogsSame, TypeParts, Writing DEF ModeWritten, UiAdds, Requests, Gains
<1>26. ASSUME NEW reason \in {"end_turn", "stopped"}, AgentEnds(reason)
      PROVE  Consent'
  BY <1>26, DialogsSame, TypeParts, UiGrows DEF AgentEnds, UiAdds, Requests, Gains
<1>27. ASSUME NEW lost \in BOOLEAN, AgentFails(lost)
      PROVE  Consent'
  BY <1>27, DialogsSame, TypeParts, UiGrows DEF AgentFails, Shutdown, Exit, UiAdds, Requests, Gains
<1>28. ASSUME NEW options \in SUBSET Option, AgentRequests(options)
      PROVE  Consent'
  <2> DEFINE n == permissionSequence + 1
  <2>1. permissionSequence \in Nat /\ n \in Permission /\ permissionSequence' = n
    <3>1. permissionSequence \in 0..MaxPermissions /\ permissionSequence < MaxPermissions
      BY <1>28, TypeParts DEF AgentRequests, Bridge
    <3>2. permissionSequence' = permissionSequence + 1
      BY <1>28 DEF AgentRequests
    <3> QED BY <3>1, <3>2, Bounds
  <2>2. UNCHANGED <<shown, permissionQueue, clicked>> /\ Queue' /\ Dialogs' = Dialogs
    BY <1>28, DialogsSame DEF AgentRequests
  <2>3. n \notin Asked /\ clicked[n] = "none"
    BY <2>1
  <2>4. \/ toUi' = toUi
        \/ Ids(toUi', "permission") = Ids(toUi, "permission") \cup {n} /\ Distinct(toUi')
    BY <1>28, <2>3, Writing DEF UiAdds, Gains, Requests
  <2>5. 1..permissionSequence \subseteq 1..n /\ n \in 1..n
    BY <2>1
  <2>6. \A r \in Permission : r > n => r > permissionSequence
    BY <2>1 DEF Permission
  <2> QED BY <2>1, <2>2, <2>3, <2>4, <2>5, <2>6
<1>29. ASSUME NEW n \in Steer, NEW ok \in BOOLEAN, AgentSteers(n, ok)
      PROVE  Consent'
  BY <1>29, DialogsSame, TypeParts, Writing DEF AgentSteers, UiAdds, Requests, Gains
<1> QED
  BY <1>1, <1>2, <1>3, <1>4, <1>5, <1>6, <1>7, <1>8, <1>9, <1>10, <1>11, <1>12, <1>13, <1>14,
     <1>15, <1>16, <1>17, <1>18, <1>19, <1>20, <1>21, <1>22, <1>23, <1>24, <1>25, <1>26, <1>27, <1>28,
     <1>29 DEF Next, Users, WindowReads, BridgeTakes, BridgeSaves, AgentFinishes

\* An answered request is not asked any more.
LEMMA AnsweredOnce == TypeOK /\ Clicks /\ Consent => Ids(toBridge, "permission") \cap Asked = {}
<1> SUFFICES ASSUME TypeOK, Clicks, Consent, NEW r \in Ids(toBridge, "permission") PROVE r \notin Asked
  OBVIOUS
<1>1. PICK i \in DOMAIN toBridge : toBridge[i].type = "permission" /\ toBridge[i].id = r
  BY DEF Ids
<1>2. toBridge[i] \in FromWindow
  BY TypeParts DEF Pipes
<1>3. clicked[r] \in {"allow", "deny"}
  BY <1>1, <1>2, Payloads DEF Clicks
<1> QED BY <1>3 DEF Consent

LEMMA DialogStep == TypeOK /\ Life /\ Turns /\ Clicks /\ Consent /\ ModeKnown /\ DialogOrder /\ Next => DialogOrder'
<1> SUFFICES ASSUME TypeOK, Life, Turns, Clicks, Consent, ModeKnown, DialogOrder, Next PROVE DialogOrder'
  OBVIOUS
<1> USE DEF DialogOrder
<1>1. ASSUME NEW withImage \in BOOLEAN, Compose(withImage)
      PROVE  DialogOrder'
  BY <1>1, DialogsSame DEF Compose, Asked
<1>2. CASE Submit
  BY <1>2, DialogsSame, Sending, TypeParts DEF Submit, Asked, SentAdds, Gains, Drafts
<1>3. ASSUME NEW p \in Prompt, Retry(p)
      PROVE  DialogOrder'
  BY <1>3, DialogsSame, Sending, TypeParts DEF Retry, Asked, SentAdds, Gains, Drafts
<1>4. CASE SubmitSteer
  BY <1>4, DialogsSame, Sending, TypeParts DEF SubmitSteer, Asked, SentAdds, Gains, Drafts
<1>5. CASE Toggle
  BY <1>5, DialogsSame, Sending, TypeParts DEF Toggle, Asked, SentAdds, Gains, Drafts
<1>6. ASSUME NEW choice \in {"allow", "deny"}, Answer(choice)
      PROVE  DialogOrder'
  <2>1. shown \in Permission /\ shown # Nothing /\ SentAdds("permission", shown)
    BY <1>6, TypeParts, Sending DEF Answer, View
  <2>2. Dialogs' = Dialogs \ {shown}
    BY <1>6, <2>1, DialogsMove, TypeParts DEF Answer, Consent
  <2>3. Ids(toBridge', "permission") = Ids(toBridge, "permission") \cup {shown}
    BY <2>1 DEF SentAdds, Gains
  <2>4. UNCHANGED <<toUi, open, left, agentTurn, permissionMode, permissionSequence, opened, proc>>
    BY <1>6 DEF Answer
  <2> QED BY <2>2, <2>3, <2>4 DEF Asked
<1>7. CASE ReadReady
  BY <1>7, DialogsSame, UiShrinks, Sending, TypeParts DEF ReadReady, Reads, Asked, Answers, Gains,
     SentAdds, Drafts
<1>8. CASE ReadEnd
  <2>1. Has(toUi, EndTypes) /\ Answers(toUi, toUi', Head(toUi).type, Head(toUi).id)
        /\ Head(toUi).type # "permission"
    BY <1>8, UiShrinks DEF ReadEnd, Reads, Shrinks, EndTypes
  <2>2. opened /\ proc = "up" => open \ left = {}
    BY <2>1 DEF Turns, Life, Alive
  <2>3. Dialogs' = {}
    BY <1>8, DialogsMove, TypeParts DEF ReadEnd, Consent
  <2>4. UNCHANGED <<toBridge, open, left, agentTurn, permissionMode, permissionSequence, opened, proc>>
    BY <1>8 DEF ReadEnd, Reads
  <2> QED BY <2>1, <2>2, <2>3, <2>4 DEF Answers
<1>9. CASE ReadFatal
  <2>1. opened /\ Has(toUi, {"fatal"})
    BY <1>9, UiShrinks DEF ReadFatal, Reads, Shrinks
  <2>2. proc # "up"
    BY <2>1 DEF Life, Alive
  <2>3. UNCHANGED <<open, left, agentTurn, permissionMode, permissionSequence, opened, proc>>
    BY <1>9 DEF ReadFatal, Reads
  <2> QED BY <2>2, <2>3
<1>10. CASE ReadSteered
  BY <1>10, DialogsSame, UiShrinks DEF ReadSteered, Reads, Asked, Answers, Gains
<1>11. CASE ReadPermission
  <2> DEFINE r == Head(toUi).id
  <2>1. Gains(toUi', toUi, "permission", r) /\ Answers(toUi, toUi', "permission", r)
        /\ (YoloIn(toUi, 0) => YoloIn(toUi', 0))
    BY <1>11, UiShrinks DEF ReadPermission, Reads
  <2>2. Ids(toUi, "permission") = Ids(toUi', "permission") \cup {r}
    BY <2>1 DEF Gains
  <2>3. r \in Permission /\ r \notin Dialogs
    BY <2>2, TypeParts, SessionAssumption DEF Bridge, Permission, Consent, Asked
  <2>4. Dialogs' = Dialogs \cup {r}
    BY <1>11, <2>3, DialogsMove, TypeParts DEF ReadPermission, Consent
  <2>5. UNCHANGED <<toBridge, open, left, agentTurn, permissionMode, permissionSequence, opened, proc>>
    BY <1>11 DEF ReadPermission, Reads
  <2>6. opened /\ proc = "up" => Covered(toUi', open) /\ (r \in open \/ YoloIn(toUi', 0))
    BY <2>1 DEF Answers
  <2> QED BY <2>1, <2>2, <2>4, <2>5, <2>6 DEF Asked
<1>12. CASE ReadMode
  <2>1. /\ Ids(toUi', "permission") = Ids(toUi, "permission")
        /\ Answers(toUi, toUi', Head(toUi).type, Head(toUi).id)
        /\ YoloIn(toUi, 0) => \/ Head(toUi).type = "permission_mode" /\ Head(toUi).what = "yolo"
                              \/ YoloIn(toUi', 0)
        /\ Carries(toUi, ModeLines, permissionMode) => Head(toUi).what = permissionMode
        /\ Head(toUi).type # "permission"
    BY <1>12, UiShrinks DEF ReadMode, Reads, Gains, ModeLines
  <2>2. UNCHANGED <<toBridge, open, left, agentTurn, permissionMode, permissionSequence, opened, proc>>
    BY <1>12 DEF ReadMode, Reads
  <2>3. opened /\ proc = "up" => Covered(toUi', open)
    BY <2>1 DEF Answers
  <2>4. CASE Head(toUi).type = "permission_mode" /\ Head(toUi).what = "yolo"
    <3>1. Dialogs' = {}
      BY <1>12, <2>4, DialogsMove, TypeParts DEF ReadMode, Consent
    <3>2. proc = "up" => open = {}
      BY <2>1, <2>4 DEF ModeKnown
    <3> QED BY <2>2, <2>3, <3>1, <3>2
  <2>5. CASE ~(Head(toUi).type = "permission_mode" /\ Head(toUi).what = "yolo")
    <3>1. Dialogs' = Dialogs
      BY <1>12, <2>5, DialogsSame DEF ReadMode
    <3> QED BY <2>1, <2>2, <2>3, <2>5, <3>1 DEF Asked
  <2> QED BY <2>4, <2>5
<1>13. CASE ReadIgnored
  BY <1>13, DialogsSame, UiShrinks DEF ReadIgnored, Asked, Answers, Gains
<1>14. CASE Restart
  BY <1>14, DialogsSame, EmptyPipe, Numbers DEF Restart, Asked, Life
<1>15. CASE CloseWindow
  BY <1>15, DialogsSame DEF CloseWindow, Shutdown, Asked, Life
<1>16. CASE SeeExit
  BY <1>16, DialogsSame, DialogsMove DEF SeeExit, Asked, Life
<1>17. ASSUME NEW mode \in Mode, NEW kinds \in SUBSET Kind, NEW applied \in BOOLEAN,
             Ready(mode, kinds, applied)
      PROVE  DialogOrder'
  <2>1. UiAdds("ready", Nothing) /\ toUi = <<>>
    BY <1>17, UiGrows, TypeParts DEF Ready, Bridge, Life
  <2>2. open' = {} /\ shown' = Nothing /\ permissionQueue' = <<>>
    BY <1>17 DEF Ready, Life
  <2>3. Dialogs' = {}
    BY <2>2 DEF Dialogs, ToSet
  <2>4. Covered(toUi', {})
    BY <2>1, CoveredBy DEF UiAdds, Requests
  <2>5. UNCHANGED <<left, permissionSequence>>
    BY <1>17 DEF Ready
  <2> QED BY <2>2, <2>3, <2>4, <2>5
<1>18. CASE AgentExits
  BY <1>18, DialogsSame, UiGrows DEF AgentExits, Exit, Asked, UiAdds, Requests, Gains
<1>19. CASE BridgeExits
  BY <1>19, DialogsSame, UiGrows DEF BridgeExits, Exit, Asked, UiAdds, Requests, Gains
<1>20. ASSUME NEW refused \in BOOLEAN, TakePrompt(refused)
      PROVE  DialogOrder'
  <2>1. Has(toBridge, {"prompt"}) /\ Ids(toBridge', "permission") = Ids(toBridge, "permission")
    BY <1>20, TakenShrinks DEF TakePrompt, Shrinks, Gains
  <2>2. open \ left = {} /\ open' = open /\ left' = left
    BY <1>20, <2>1 DEF TakePrompt, Takes, Turns, Life
  <2>3. toUi' = toUi \/ UiAdds("error", Nothing)
    BY <1>20, UiGrows DEF TakePrompt
  <2>4. Covered(toUi, open) => Covered(toUi', open)
    BY <2>3 DEF UiAdds, Requests
  <2>5. YoloIn(toUi, 0) => YoloIn(toUi', 0)
    BY <2>3 DEF UiAdds, Requests
  <2>6. UNCHANGED <<permissionMode, permissionSequence, opened, proc>> /\ Dialogs' = Dialogs
    BY <1>20, DialogsSame DEF TakePrompt, Takes
  <2> QED BY <2>2, <2>4, <2>5, <2>6
<1>21. CASE TakeSteer
  BY <1>21, DialogsSame, Writing, TakenShrinks DEF TakeSteer, Takes, Asked, UiAdds, Requests, Gains
<1>22. CASE TakeAnswer
  <2> DEFINE r == Head(toBridge).id
  <2>1. Ids(toBridge, "permission") = Ids(toBridge', "permission") \cup {r}
    BY <1>22, TakenShrinks DEF TakeAnswer, Gains
  <2>2. r \notin Asked
    BY <2>1, AnsweredOnce
  <2>3. open' = open \ {r}
    BY <1>22 DEF TakeAnswer
  <2>4. UNCHANGED <<toUi, left, agentTurn, permissionMode, permissionSequence, opened, proc>>
        /\ Dialogs' = Dialogs
    BY <1>22, DialogsSame DEF TakeAnswer, Takes
  <2>5. Covered(toUi, open) => Covered(toUi, open')
    BY <2>2, <2>3, CoveredBy DEF Asked
  <2> QED BY <2>1, <2>2, <2>3, <2>4, <2>5 DEF Asked
<1>23. CASE TakeMode
  BY <1>23, DialogsSame, UiGrows, TakenShrinks DEF TakeMode, Takes, Asked, UiAdds, Requests, Gains
<1>24. ASSUME NEW s \in saves, NEW ok \in BOOLEAN, ModeApplied(s, ok)
      PROVE  DialogOrder'
  BY <1>24, DialogsSame, Writing DEF ModeApplied, Asked, UiAdds, Requests, Gains
<1>25. ASSUME NEW s \in saves, NEW ok \in BOOLEAN, ModeWritten(s, ok)
      PROVE  DialogOrder'
  <2>1. UNCHANGED <<left, agentTurn, permissionSequence, opened, proc, toBridge>> /\ Dialogs' = Dialogs
    BY <1>25, DialogsSame DEF ModeWritten
  <2>2. CASE ok /\ s.mode = "yolo"
    <3>1. open' = {} /\ toUi' = Append(toUi, Line("permission_mode", Nothing, "yolo"))
      BY <1>25, <2>2 DEF ModeWritten, Commit, Emit
    <3>2. YoloIn(toUi', 0) /\ Covered(toUi', {})
      <4>1. Line("permission_mode", Nothing, "yolo") \in FromBridge /\ toUi \in Seq(FromBridge)
        BY TypeParts, BridgeLines DEF Pipes, Mode
      <4> QED BY <3>1, <4>1, Requesting DEF Line
    <3> QED BY <2>1, <3>1, <3>2
  <2>3. CASE ~(ok /\ s.mode = "yolo")
    <3>1. open' = open /\ (permissionMode' = permissionMode \/ permissionMode' = "permission")
      <4>1. s.mode \in Mode
        BY TypeParts DEF Bridge, Saving
      <4> QED BY <1>25, <2>3, <4>1 DEF ModeWritten, Commit, Mode
    <3>2. /\ Ids(toUi', "permission") = Ids(toUi, "permission")
          /\ Covered(toUi, open) => Covered(toUi', open)
          /\ YoloIn(toUi, 0) => YoloIn(toUi', 0)
      BY <1>25, Writing DEF UiAdds, Gains, Requests
    <3> QED BY <2>1, <3>1, <3>2 DEF Asked
  <2> QED BY <2>2, <2>3
<1>26. ASSUME NEW reason \in {"end_turn", "stopped"}, AgentEnds(reason)
      PROVE  DialogOrder'
  BY <1>26, DialogsSame, UiGrows DEF AgentEnds, Asked, UiAdds, Requests, Gains
<1>27. ASSUME NEW lost \in BOOLEAN, AgentFails(lost)
      PROVE  DialogOrder'
  <2>1. CASE lost
    <3>1. open' = {} /\ proc' # "up" /\ UNCHANGED <<left, permissionSequence>>
      BY <1>27, <2>1 DEF AgentFails, Shutdown, Exit, Shutdown
    <3> QED BY <3>1
  <2>2. CASE ~lost
    <3>1. /\ UNCHANGED <<open, permissionMode, permissionSequence, opened, proc, toBridge>>
          /\ left' = left \cup open /\ Dialogs' = Dialogs
      BY <1>27, <2>2, DialogsSame DEF AgentFails
    <3>2. /\ Ids(toUi', "permission") = Ids(toUi, "permission")
          /\ Covered(toUi, open) => Covered(toUi', open)
          /\ YoloIn(toUi, 0) => YoloIn(toUi', 0)
      <4>1. UiAdds("error", Nothing)
        BY <1>27, <2>2, UiGrows DEF AgentFails
      <4> QED BY <4>1 DEF UiAdds, Requests, Gains
    <3> QED BY <3>1, <3>2 DEF Asked
  <2> QED BY <2>1, <2>2
<1>28. ASSUME NEW options \in SUBSET Option, AgentRequests(options)
      PROVE  DialogOrder'
  <2> DEFINE n == permissionSequence + 1
  <2>1. permissionSequence \in Nat /\ permissionSequence' = n /\ proc \in {"up", "closing"}
        /\ agentTurn' = agentTurn /\ agentTurn # Nothing
    <3>1. permissionSequence \in Nat
      BY TypeParts, SessionAssumption DEF Bridge
    <3> QED BY <1>28, <3>1 DEF AgentRequests
  <2>2. UNCHANGED <<left, permissionMode, opened, proc, toBridge>> /\ Dialogs' = Dialogs
    BY <1>28, DialogsSame DEF AgentRequests
  <2>3. 1..permissionSequence \subseteq 1..n /\ n \in 1..n
    BY <2>1
  <2>4. CASE permissionMode = "yolo"
    <3>1. open' = open /\ toUi' = toUi
      BY <1>28, <2>4 DEF AgentRequests
    <3> QED BY <2>1, <2>2, <2>3, <3>1 DEF Asked
  <2>5. CASE permissionMode # "yolo"
    <3>1. open' = open \cup {n} /\ Emit("permission", n, "")
      BY <1>28, <2>1, <2>5 DEF AgentRequests, Emit
    <3>2. UiAdds("permission", n)
      <4>1. n \in Permission
        BY <1>28, TypeParts, Bounds DEF AgentRequests, Bridge
      <4> QED BY <3>1, <4>1, UiGrows
    <3>3. /\ Ids(toUi', "permission") = Ids(toUi, "permission") \cup {n}
          /\ Covered(toUi, open) => Covered(toUi', open \cup {n})
          /\ YoloIn(toUi, 0) => YoloIn(toUi', 0)
      BY <3>2, CoveredBy DEF UiAdds, Gains, Requests
    <3>4. permissionMode = "permission"
      BY <2>5, TypeParts DEF Bridge, Mode
    <3> QED BY <2>1, <2>2, <2>3, <3>1, <3>3, <3>4 DEF Asked
  <2> QED BY <2>4, <2>5
<1>29. ASSUME NEW n \in Steer, NEW ok \in BOOLEAN, AgentSteers(n, ok)
      PROVE  DialogOrder'
  BY <1>29, DialogsSame, Writing DEF AgentSteers, Asked, UiAdds, Requests, Gains
<1> QED
  BY <1>1, <1>2, <1>3, <1>4, <1>5, <1>6, <1>7, <1>8, <1>9, <1>10, <1>11, <1>12, <1>13, <1>14,
     <1>15, <1>16, <1>17, <1>18, <1>19, <1>20, <1>21, <1>22, <1>23, <1>24, <1>25, <1>26, <1>27, <1>28,
     <1>29 DEF Next, Users, WindowReads, BridgeTakes, BridgeSaves, AgentFinishes
-----------------------------------------------------------------------------
(* The properties.                                                           *)

\* Whose turn it is: the invariants' count of the places a turn can be in.
LEMMA CountHas ==
  /\ \A pipe, t, id : Ids(pipe, t) \subseteq {id} =>
       Cardinality(Ids(pipe, t)) = IF Has(pipe, {t}) THEN 1 ELSE 0
  /\ Single(toUi, EndTypes) => Ended = IF Has(toUi, EndTypes) THEN 1 ELSE 0
<1>1. ASSUME NEW pipe, NEW t, NEW id, Ids(pipe, t) \subseteq {id}
      PROVE  Cardinality(Ids(pipe, t)) = IF Has(pipe, {t}) THEN 1 ELSE 0
  <2>1. Ids(pipe, t) = {} \/ Ids(pipe, t) = {id}
    BY <1>1
  <2> QED BY <2>1, HasIds, FS_EmptySet, FS_Singleton
<1>2. ASSUME Single(toUi, EndTypes) PROVE Ended = IF Has(toUi, EndTypes) THEN 1 ELSE 0
  <2> DEFINE E == {i \in DOMAIN toUi : toUi[i].type \in {"done", "error"}}
  <2>1. CASE Has(toUi, EndTypes)
    <3>1. PICK i \in DOMAIN toUi : toUi[i].type \in EndTypes
      BY <2>1 DEF Has
    <3>2. E = {i}
      BY <1>2, <3>1 DEF Single, EndTypes
    <3> QED BY <2>1, <3>2, FS_Singleton DEF Ended
  <2>2. CASE ~Has(toUi, EndTypes)
    <3>1. E = {}
      BY <2>2 DEF Has, EndTypes
    <3> QED BY <2>2, <3>1, FS_EmptySet DEF Ended
  <2> QED BY <2>1, <2>2
<1> QED BY <1>1, <1>2

LEMMA TurnsCounted == TypeOK /\ Life /\ Turns => TurnsInStep
<1> SUFFICES ASSUME TypeOK, Life, Turns, opened, Alive
             PROVE  /\ turnRunning = (agentTurn # Nothing)
                    /\ Cardinality(Ids(toBridge, "prompt")) + Ended
                         + (IF queued # Nothing THEN 1 ELSE 0) + (IF turnRunning THEN 1 ELSE 0)
                       = (IF waiting THEN 1 ELSE 0)
  BY DEF TurnsInStep
<1>1. turnRunning = (agentTurn # Nothing)
  BY TypeParts DEF Bridge, Life
<1>2. Cardinality(Ids(toBridge, "prompt")) = IF Has(toBridge, {"prompt"}) THEN 1 ELSE 0
  BY CountHas DEF Turns
<1>3. Ended = IF Has(toUi, EndTypes) THEN 1 ELSE 0
  BY CountHas DEF Turns
<1>4. /\ waiting <=> Has(toBridge, {"prompt"}) \/ turnRunning \/ queued # Nothing \/ Has(toUi, EndTypes)
      /\ ~(queued # Nothing /\ turnRunning) /\ ~(queued # Nothing /\ Has(toBridge, {"prompt"}))
      /\ ~(Has(toUi, EndTypes) /\ turnRunning) /\ ~(Has(toUi, EndTypes) /\ queued # Nothing)
      /\ ~(Has(toUi, EndTypes) /\ Has(toBridge, {"prompt"}))
      /\ ~(Has(toBridge, {"prompt"}) /\ turnRunning)
  BY DEF Turns, Alive, Life
<1>5. CASE ~waiting
  BY <1>1, <1>2, <1>3, <1>4, <1>5
<1>6. CASE Has(toBridge, {"prompt"})
  BY <1>1, <1>2, <1>3, <1>4, <1>6
<1>7. CASE turnRunning
  BY <1>1, <1>2, <1>3, <1>4, <1>7
<1>8. CASE queued # Nothing
  BY <1>1, <1>2, <1>3, <1>4, <1>8
<1>9. CASE Has(toUi, EndTypes)
  BY <1>1, <1>2, <1>3, <1>4, <1>9
<1> QED BY <1>4, <1>5, <1>6, <1>7, <1>8, <1>9

\* Only the first part of steer() passes a correction on, and it takes the
\* first line of the pipe.
OwnTurn == \A n \in Steer : n \notin steers /\ n \in steers' => aim[n] = agentTurn
SteersCome == \/ steers' \subseteq steers
              \/ TakeSteer /\ steers' = steers \cup {Head(toBridge).id} /\ turnRunning

LEMMA OwnTurnStep == TypeOK /\ SteerOrder /\ [Next]_vars => OwnTurn
<1> SUFFICES ASSUME TypeOK, SteerOrder, [Next]_vars PROVE OwnTurn
  OBVIOUS
<1>1. SteersCome
  <2>1. CASE WindowStep
    BY <2>1, WindowSteps DEF SteersCome
  <2>2. CASE Turnover
    BY <2>2 DEF Turnover, Restart, CloseWindow, SeeExit, SteersCome
  <2>3. CASE BridgeStep
    <3>1. CASE TakeSteer
      BY <3>1 DEF TakeSteer, Steerable, SteersCome
    <3>2. CASE ~TakeSteer
      BY <2>3, <3>2 DEF SteersCome, BridgeStep, BridgeTakes, BridgeSaves, AgentFinishes, Ready,
         AgentExits, BridgeExits, Exit, TakePrompt, TakeAnswer, TakeMode, ModeApplied, ModeWritten,
         AgentEnds, AgentFails, AgentRequests, AgentSteers
    <3> QED BY <3>1, <3>2
  <2>4. CASE UNCHANGED vars
    BY <2>4 DEF vars, SteersCome
  <2> QED BY <2>1, <2>2, <2>3, <2>4, NextSplit
<1>2. ASSUME TakeSteer, turnRunning PROVE aim[Head(toBridge).id] = agentTurn
  <2>1. /\ toBridge \in Seq(FromWindow) /\ toBridge # <<>> /\ proc \in {"up", "closing"}
        /\ Head(toBridge).type = "steer"
    BY <1>2, TypeParts DEF TakeSteer, Takes, Pipes
  <2>2. 1 \in DOMAIN toBridge /\ toBridge[1] = Head(toBridge) /\ ~\E j \in DOMAIN toBridge : j < 1
    BY <2>1
  <2>3. Behind(1)
    BY <2>1, <2>2 DEF SteerOrder
  <2> QED BY <1>2, <2>2, <2>3 DEF Behind
<1> QED BY <1>1, <1>2 DEF OwnTurn, SteersCome

\* An image draft that was submitted leaves the composer, the running turn and
\* the failed drafts only with the turn that delivered it.
DraftStays == opened' => \A p \in images \cap Held : p \in Held' \/ (p = activeDraft /\ Delivers)
DraftFrame == images \cap Held \subseteq Held'

LEMMA DraftStep == TypeOK /\ Life /\ Turns /\ [Next]_vars => DraftStays
<1> SUFFICES ASSUME TypeOK, Life, Turns, [Next]_vars PROVE DraftStays
  OBVIOUS
<1> USE DEF Held
<1>1. ASSUME NEW withImage \in BOOLEAN, Compose(withImage) PROVE DraftStays
  BY <1>1, TypeParts, Numbers DEF Compose, DraftStays, Flags, Drafts
<1>2. CASE Submit
  BY <1>2, TypeParts, Numbers DEF Submit, DraftStays, Drafts, Turns
<1>3. ASSUME NEW p \in Prompt, Retry(p) PROVE DraftStays
  BY <1>3, TypeParts, Numbers DEF Retry, DraftStays, Drafts, Turns
<1>4. CASE SubmitSteer
  BY <1>4, TypeParts, Numbers DEF SubmitSteer, DraftStays, Drafts
<1>5. CASE ReadEnd
  <2>1. toUi # <<>> /\ Head(toUi) \in FromBridge /\ toUi' = Tail(toUi)
    BY <1>5, TypeParts, PipesTail DEF ReadEnd, Reads
  <2>2. Head(toUi).what = "end_turn" => Delivers
    BY <2>1 DEF Delivers, Line, FromBridge, Mode
  <2>3. CASE Head(toUi).what = "end_turn"
    BY <1>5, <2>2, <2>3, TypeParts, Numbers DEF ReadEnd, Reads, FinishPrompt, DraftStays, Drafts
  <2>4. CASE Head(toUi).what # "end_turn"
    BY <1>5, <2>4, TypeParts, Numbers DEF ReadEnd, Reads, FinishPrompt, DraftStays, Drafts
  <2> QED BY <2>3, <2>4
<1>6. CASE ReadFatal
  BY <1>6, TypeParts, Numbers DEF ReadFatal, Reads, FinishPrompt, DraftStays, Drafts
<1>7. CASE SeeExit
  BY <1>7, TypeParts, Numbers DEF SeeExit, LoseSession, FinishPrompt, DraftStays, Drafts
<1>8. CASE CloseWindow
  BY <1>8 DEF CloseWindow, DraftStays
<1>9. CASE BridgeStep
  BY <1>9, BridgeSteps DEF DraftStays
<1>10. CASE Toggle \/ Restart \/ (\E choice \in {"allow", "deny"} : Answer(choice)) \/ ReadReady
            \/ ReadSteered \/ ReadPermission \/ ReadMode \/ ReadIgnored
  BY <1>10 DEF Toggle, Restart, Answer, ReadReady, ReadSteered, ReadPermission, ReadMode,
     ReadIgnored,
     Reads, DraftStays
<1>11. CASE UNCHANGED vars
  BY <1>11 DEF vars, DraftStays
<1> QED BY <1>1, <1>2, <1>3, <1>4, <1>5, <1>6, <1>7, <1>8, <1>9, <1>10, <1>11, NextSplit
        DEF WindowStep, WindowReads, Turnover

LEMMA DialogsFollow == DialogOrder => DialogsMatch
<1> SUFFICES ASSUME DialogOrder, opened, proc = "up", ~sessionLost
             PROVE  /\ open \ left \subseteq {shown} \cup ToSet(permissionQueue) \cup Ids(toUi, "permission")
                                      \cup Ids(toBridge, "permission")
                    /\ \/ "permission_mode" \in Types(toUi)
                       \/ (ToSet(permissionQueue) \cup {shown}) \ {Nothing} \subseteq open
  BY DEF DialogsMatch
<1>1. open \ left \subseteq Asked \cup Ids(toBridge, "permission") /\ (Dialogs \subseteq open \/ YoloIn(toUi, 0))
  BY DEF DialogOrder
<1>2. YoloIn(toUi, 0) => "permission_mode" \in Types(toUi)
  BY DEF YoloIn, Types
<1> QED BY <1>1, <1>2 DEF Asked, Dialogs

\* An open window shows the yolo of its bridge, or has the line that says it
\* before it.
LEMMA Told ==
  ModeKnown' /\ permissionMode' = "yolo" /\ proc' \in {"up", "closing"} => (opened' => YoloTold')
<1> SUFFICES ASSUME ModeKnown', permissionMode' = "yolo", proc' \in {"up", "closing"}, opened'
             PROVE  YoloTold'
  OBVIOUS
<1>1. CASE Has(toUi', ModeLines)
  BY <1>1 DEF ModeKnown, Carries, Has, ModeLines, YoloTold
<1>2. CASE ~Has(toUi', ModeLines)
  BY <1>2 DEF ModeKnown, YoloTold
<1> QED BY <1>1, <1>2

\* What a step may do to a verdict.
Granted(r) ==
  /\ "allow_once" \in offers'[r]
  /\ clicked[r] = "allow" \/ (permissionMode' = "yolo" /\ (opened => YoloTold'))
ConsentGiven == \A r \in Permission : verdict[r] # "allowed" /\ verdict'[r] = "allowed" => Granted(r)

LEMMA ConsentGivenStep == TypeOK /\ Life /\ ModeKnown' /\ Clicks /\ [Next]_vars => ConsentGiven
<1> SUFFICES ASSUME TypeOK, Life, ModeKnown', Clicks, [Next]_vars,
                    NEW r \in Permission, verdict[r] # "allowed", verdict'[r] = "allowed"
             PROVE  Granted(r)
  BY DEF ConsentGiven
<1>1. verdict' # verdict
  OBVIOUS
<1>2. CASE WindowStep
  BY <1>1, <1>2, WindowSteps
<1>3. CASE Turnover
  BY <1>1, <1>3 DEF Turnover, Restart, CloseWindow, Shutdown, SeeExit
<1>4. CASE BridgeStep
  <2>1. CASE TakeAnswer
    <3>1. /\ toBridge \in Seq(FromWindow) /\ toBridge # <<>> /\ Head(toBridge).type = "permission"
          /\ verdict \in [Permission -> Verdict]
      BY <2>1, TypeParts DEF TakeAnswer, Takes, Pipes, Agent
    <3>2. Head(toBridge).id = r
      BY <1>1, <2>1, <3>1 DEF TakeAnswer
    <3>3. verdict'[r] = Settle(r, Head(toBridge).what) /\ offers' = offers
      BY <1>1, <2>1, <3>1, <3>2 DEF TakeAnswer
    <3>4. Head(toBridge).what = "allow" /\ "allow_once" \in offers[r]
      BY <3>3 DEF Settle
    <3>5. 1 \in DOMAIN toBridge /\ toBridge[1] = Head(toBridge)
      BY <3>1
    <3> QED BY <3>1, <3>2, <3>3, <3>4, <3>5 DEF Granted, Clicks
  <2>2. ASSUME NEW s \in saves, NEW ok \in BOOLEAN, ModeWritten(s, ok) PROVE Granted(r)
    <3>1. ok /\ permissionMode' = "yolo" /\ UNCHANGED <<offers, opened, proc>>
      BY <1>1, <2>2 DEF ModeWritten, Commit
    <3>4. proc \in {"up", "closing"}
      BY <2>2 DEF Life
    <3>2. verdict' = [x \in Permission |-> IF x \in open THEN Settle(x, "allow") ELSE verdict[x]]
      BY <1>1, <2>2 DEF ModeWritten, Commit
    <3>3. Settle(r, "allow") = "allowed"
      BY <3>2
    <3> QED BY <3>1, <3>3, <3>4, Told DEF Settle, Granted
  <2>3. ASSUME NEW options \in SUBSET Option, AgentRequests(options) PROVE Granted(r)
    <3> DEFINE n == permissionSequence + 1
    <3>1. permissionSequence' = n /\ offers' = [offers EXCEPT ![n] = options]
          /\ UNCHANGED <<permissionMode, opened, proc>> /\ proc \in {"up", "closing"}
      BY <2>3 DEF AgentRequests
    <3>2. permissionMode = "yolo"
          /\ verdict' = [verdict EXCEPT ![n] = IF "allow_once" \in options THEN "allowed" ELSE "cancelled"]
      BY <1>1, <2>3, <3>1 DEF AgentRequests
    <3>3. verdict \in [Permission -> Verdict] /\ offers \in [Permission -> SUBSET Option]
      BY TypeParts DEF Agent
    <3>4. r = n /\ "allow_once" \in options
      BY <3>2, <3>3
    <3> QED BY <3>1, <3>2, <3>3, <3>4, Told DEF Granted
  <2>4. CASE AgentExits \/ BridgeExits \/ AgentFinishes \/ (\E refused \in BOOLEAN : TakePrompt(refused))
             \/ TakeSteer \/ TakeMode \/ (\E s \in saves, ok \in BOOLEAN : ModeApplied(s, ok))
             \/ (\E mode \in Mode, kinds \in SUBSET Kind, applied \in BOOLEAN : Ready(mode, kinds, applied))
             \/ (\E n \in Steer, ok \in BOOLEAN : AgentSteers(n, ok))
    BY <1>1, <2>4 DEF AgentExits, BridgeExits, Exit, AgentFinishes, AgentEnds, AgentFails,
       Shutdown, TakePrompt,
       TakeSteer, TakeMode, ModeApplied, Ready, AgentSteers
  <2> QED BY <1>4, <2>1, <2>2, <2>3, <2>4 DEF BridgeStep, BridgeTakes, BridgeSaves
<1>5. CASE UNCHANGED vars
  BY <1>1, <1>5 DEF vars
<1> QED BY <1>2, <1>3, <1>4, <1>5, NextSplit
-----------------------------------------------------------------------------
(* The inductive invariant.                                                  *)

IInv == /\ TypeOK /\ Life /\ Turns /\ SteerOrder /\ Switches /\ ModeKnown /\ AgentMatches
        /\ Clicks /\ Consent /\ DialogOrder /\ SteerHeard /\ SwitchHeard

LEMMA InitInv == Init => IInv
<1> SUFFICES ASSUME Init PROVE IInv
  OBVIOUS
<1> USE EmptyPipe DEF Init
<1>1. TypeOK
  BY TypeInit
<1>2. Dialogs = {} /\ Queue /\ Distinct(toUi) /\ Covered(toUi, {})
  BY CoveredBy DEF Dialogs, ToSet, Queue
<1>3. Life /\ Turns
  BY DEF Life, Turns, Alive
<1>4. SteerOrder /\ Clicks
  BY DEF SteerOrder, Clicks
<1>5. Switches /\ ModeKnown /\ AgentMatches
  BY DEF Switches, ModeKnown, AgentMatches
<1>6. Consent /\ DialogOrder
  BY <1>2 DEF Consent, DialogOrder, Asked
<1>7. SteerHeard /\ SwitchHeard
  BY DEF SteerHeard, SwitchHeard
<1> QED BY <1>1, <1>3, <1>4, <1>5, <1>6, <1>7 DEF IInv

LEMMA InvStep == IInv /\ [Next]_vars => IInv'
<1> SUFFICES ASSUME IInv, [Next]_vars PROVE IInv'
  OBVIOUS
<1>1. TypeOK'
  BY TypeStep DEF IInv
<1>2. CASE Next
  BY <1>1, <1>2, LifeStep, TurnsStep, SteerStep, SwitchesStep, ModeKnownStep, AgentMatchesStep,
     ClicksStep, ConsentStep, DialogStep, SteerHeardStep, SwitchHeardStep DEF IInv
<1>3. CASE UNCHANGED vars
  <2>1. Life' /\ Turns' /\ SteerOrder'
    BY <1>3 DEF IInv, vars, Life, Turns, SteerOrder, Behind, Alive
  <2>2. Switches' /\ ModeKnown' /\ AgentMatches' /\ SteerHeard' /\ SwitchHeard'
    BY <1>3 DEF IInv, vars, Switches, ModeKnown, AgentMatches, SteerHeard, SwitchHeard, Alive
  <2>3. Clicks' /\ Consent' /\ DialogOrder'
    BY <1>3, DialogsSame DEF IInv, vars, Clicks, Consent, DialogOrder, Asked
  <2> QED BY <1>1, <2>1, <2>2, <2>3 DEF IInv
<1> QED BY <1>2, <1>3

\* The inductive invariant holds throughout: the theorems below are its
\* consequences, for the lines of bridge.js and Conversation.qml they name.
THEOREM SpecIInv == Spec => []IInv
BY InitInv, InvStep, PTL DEF Spec

\* Every variable keeps its type, and every line of the pipes is one that the
\* window or the bridge writes, with what it carries.
THEOREM SpecTypeOK == Spec => []TypeOK
<1>1. IInv => TypeOK
  BY DEF IInv
<1> QED BY <1>1, SpecIInv, PTL

\* A window that waits waits for one prompt, and one that does not for none
\* (submit, handleAgentLine; prompt and its answer in bridge.js), however many
\* prompts, errors and restarts there are.
THEOREM SpecTurnsInStep == Spec => []TurnsInStep
<1>1. IInv => TurnsInStep
  BY TurnsCounted DEF IInv
<1> QED BY <1>1, SpecIInv, PTL

\* The composer is never locked for a correction that nobody acknowledges
\* (steeringPending; steer).
THEOREM SpecSteerAcknowledged == Spec => []SteerAcknowledged
<1>1. IInv => SteerAcknowledged
  BY Heard DEF IInv
<1> QED BY <1>1, SpecIInv, PTL

\* A correction reaches the turn it was written in, or none (steer).
THEOREM SpecSteersOwnTurn == Spec => SteersOwnTurn
<1>1. IInv /\ [Next]_vars => [OwnTurn]_vars
  BY OwnTurnStep DEF IInv
<1> QED BY <1>1, SpecIInv, PTL DEF Spec, SteersOwnTurn, OwnTurn

\* An image draft is delivered by a turn that ends well or comes back to the
\* user (finishImagePrompt, retryOriginal, loseSession).
THEOREM SpecDraftsKept == Spec => DraftsKept
<1>1. IInv /\ [Next]_vars => [DraftStays]_vars
  BY DraftStep DEF IInv
<1> QED BY <1>1, SpecIInv, PTL DEF Spec, DraftsKept, DraftStays

\* The dialogs and the requests the agent waits for are the same, but for a
\* switch to yolo whose line is on its way (enqueuePermission, answerPermission,
\* allowAllPendingPermissions).
THEOREM SpecDialogsMatch == Spec => []DialogsMatch
<1>1. IInv => DialogsMatch
  BY DialogsFollow DEF IInv
<1> QED BY <1>1, SpecIInv, PTL

\* A tool runs only with the user's consent (answerPermission of the window and
\* of the bridge, requestPermission, savePermissionMode).
THEOREM SpecConsented == Spec => Consented
<1>1. IInv /\ [Next]_vars => [ConsentGiven]_vars
  BY ConsentGivenStep, InvStep DEF IInv
<1> QED BY <1>1, SpecIInv, PTL DEF Spec, Consented, ConsentGiven, Granted

\* The window and the bridge, and the agent unless it refused its mode at the
\* start or a switch could not be saved, agree on the mode whenever no
\* switch is under way (savePermissionMode, applyAgentMode).
THEOREM SpecModesAgree == Spec => []ModesAgree
<1>1. IInv => ModesAgree
  BY ModesFollow DEF IInv
<1> QED BY <1>1, SpecIInv, PTL

\* The mode button is never disabled for an answer that nobody gives, but for a
\* switch that was on its way to a bridge that exited (setPermissionMode).
THEOREM SpecSwitchAcknowledged == Spec => []SwitchAcknowledged
<1>1. IInv => SwitchAcknowledged
  BY Heard DEF IInv
<1> QED BY <1>1, SpecIInv, PTL
=============================================================================
