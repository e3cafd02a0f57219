--------------------------- MODULE AskWindowsProofs ---------------------------
(***************************************************************************)
(* Theorems about AskWindows, for every set of conversations, chords and   *)
(* builds, and any number of attempts.                                     *)
(***************************************************************************)
EXTENDS AskWindows, KeyRoutingProofs

\* What holds of a window's registration at any time. A change makes it dirty
\* before anything else can take what is registered, or asked for, as right.
Kept(u) == u \in mapped /\ Registration(u)
Claim(u) ==
  /\ u \in ready => u \notin dirty /\ u \in backing /\ Kept(u)
  /\ call[u] # NoCall /\ u \notin dirty => u \in backing /\ call[u] = chords[u]
  /\ reply[u] = "ok" /\ u \notin dirty => Kept(u)
  /\ reply[u] # "none" => call[u] # NoCall
  /\ u \in timer => attempts[u] < MaxAttempts
  /\ call[u] # NoCall /\ u \in dirty => attempts[u] < MaxAttempts
  /\ u \in visible \ ready => StillTrying(u)

\* The step leaves the window alone, or schedules its registration afresh.
Untouched(u) ==
  /\ u \in visible' <=> u \in visible
  /\ u \in backing' <=> u \in backing
  /\ u \in ready' <=> u \in ready
  /\ u \in admitted' <=> u \in admitted
  /\ u \in dirty' <=> u \in dirty
  /\ u \in timer' <=> u \in timer
  /\ attempts'[u] = attempts[u] /\ call'[u] = call[u] /\ reply'[u] = reply[u]
  /\ chords'[u] = chords[u]
Restarted(u) ==
  /\ u \notin ready' /\ u \in dirty' /\ attempts'[u] = 0
  /\ u \in visible' => u \in timer'
  /\ \/ call'[u] = call[u] /\ reply'[u] = reply[u]
     \/ call'[u] = NoCall /\ reply'[u] = "none" /\ u \notin visible'

Claims == \A u \in View : Claim(u)

-----------------------------------------------------------------------------
LEMMA Attempts == MaxAttempts \in Nat /\ 0 < MaxAttempts
BY ScopeAssumption

LEMMA RestartedClaims ==
  ASSUME NEW u \in View, Claim(u), Restarted(u) PROVE Claim(u)'
BY Attempts DEF Claim, Restarted, StillTrying, Kept

\* The surroundings of a window stay, or change without making it wrong.
Compatible(u) ==
  /\ u \in mapped /\ u \in backing => u \in mapped'
  /\ events' = <<>> => events = <<>>
  /\ u \in backing /\ events' = <<>> => loaded' = loaded /\ scopes'[u] = scopes[u]

LEMMA UntouchedClaims ==
  ASSUME NEW u \in View, Claim(u), Untouched(u), Compatible(u) PROVE Claim(u)'
<1>1. (u \in ready)' => (u \notin dirty /\ u \in backing /\ Kept(u))'
  BY DEF Claim, Untouched, Compatible, Kept, Registration
<1>2. (reply[u] = "ok" /\ u \notin dirty)' => Kept(u)'
  BY DEF Claim, Untouched, Compatible, Kept, Registration
<1> QED BY <1>1, <1>2 DEF Claim, Untouched, StillTrying
-----------------------------------------------------------------------------
(* The steps that schedule registrations.                                   *)

Afresh(u) ==
  /\ u \notin ready' /\ u \in dirty' /\ attempts'[u] = 0
  /\ u \in visible' => u \in timer'
SameClaim(u) ==
  /\ u \in ready' <=> u \in ready
  /\ u \in dirty' <=> u \in dirty
  /\ u \in timer' <=> u \in timer
  /\ attempts'[u] = attempts[u]
ClaimsTyped ==
  /\ ready \subseteq View /\ dirty \subseteq View /\ timer \subseteq View
  /\ attempts \in [View -> 0..MaxAttempts]

\* What schedule() does to the windows S, and to the others.
LEMMA Schedules ==
  ASSUME ScopeTypeOK, NEW S, S \subseteq View, Schedule(S), visible' \subseteq View
  PROVE  /\ ClaimsTyped' /\ ready' \subseteq ready
         /\ \A u \in S : Afresh(u)
         /\ \A u \in View \ S : SameClaim(u)
<1>1. attempts' = [v \in View |-> IF v \in S THEN 0 ELSE attempts[v]]
  BY DEF Schedule
<1>2. attempts' \in [View -> 0..MaxAttempts]
  BY <1>1, Attempts DEF ScopeTypeOK
<1>3. \A u \in View : attempts'[u] = IF u \in S THEN 0 ELSE attempts[u]
  BY <1>1
<1>4. ready' = ready \ S /\ dirty' = dirty \cup S /\ timer' = timer \cup (S \cap visible')
  BY DEF Schedule
<1>5. ClaimsTyped' /\ ready' \subseteq ready
  BY <1>2, <1>4 DEF ClaimsTyped, ScopeTypeOK
<1>6. \A u \in S : Afresh(u)
  BY <1>3, <1>4 DEF Afresh
<1>7. \A u \in View \ S : SameClaim(u)
  BY <1>3, <1>4 DEF SameClaim
<1> QED BY <1>5, <1>6, <1>7

\* One window is scheduled; what else changes is its surface, chords or focus.
Reschedules(v) ==
  /\ Schedule({v}) /\ UNCHANGED <<visible, admitted, callVars, events, routingVars>>
  /\ backing \subseteq backing' /\ backing' \subseteq visible /\ focused' \subseteq visible
  /\ chords' \in [View -> SUBSET Chord]
  /\ \A u \in View \ {v} : /\ u \in backing' <=> u \in backing
                           /\ chords'[u] = chords[u]

LEMMA RescheduleStep ==
  ASSUME ScopeTypeOK, Claims, NEW v \in View, Reschedules(v)
  PROVE  ScopeTypeOK' /\ Claims'
<1>1. /\ Schedule({v}) /\ visible' = visible /\ visible' \subseteq View /\ {v} \subseteq View
      /\ UNCHANGED <<admitted, call, reply, events, module, scopes, mapped>>
  BY DEF Reschedules, ScopeTypeOK, callVars, routingVars, viewVars
<1>2. ScopeTypeOK'
  BY <1>1, Schedules DEF ScopeTypeOK, ClaimsTyped, Reschedules
<1>3. Restarted(v)
  <2>1. Afresh(v)
    BY <1>1, Schedules
  <2> QED BY <1>1, <2>1 DEF Restarted, Afresh
<1>4. ASSUME NEW u \in View, u # v PROVE Untouched(u) /\ Compatible(u)
  <2>1. SameClaim(u)
    BY <1>1, <1>4, Schedules
  <2> QED BY <1>1, <1>4, <2>1 DEF Untouched, SameClaim, Compatible, Reschedules, loaded
<1>5. Claims'
  <2> SUFFICES ASSUME NEW u \in View PROVE Claim(u)'
    BY DEF Claims
  <2> QED BY <1>3, <1>4, RestartedClaims, UntouchedClaims DEF Claims
<1> QED BY <1>2, <1>5

LEMMA SurfaceStep ==
  ASSUME ScopeTypeOK, Claims, NEW v \in View,
         Backing(v) \/ FocusSeen(v) \/ FocusLost(v) \/ (\E wanted \in SUBSET Chord : ChordsChange(v, wanted))
  PROVE  ScopeTypeOK' /\ Claims'
<1>1. CASE Backing(v)
  <2>1. Reschedules(v)
    BY <1>1 DEF Backing, Reschedules, ScopeTypeOK
  <2> QED BY <2>1, RescheduleStep
<1>2. ASSUME NEW wanted \in SUBSET Chord, ChordsChange(v, wanted) PROVE ScopeTypeOK' /\ Claims'
  <2>1. Reschedules(v)
    BY <1>2 DEF ChordsChange, Reschedules, ScopeTypeOK
  <2> QED BY <2>1, RescheduleStep
<1>3. CASE FocusSeen(v) /\ v \notin ready
  <2>1. Reschedules(v)
    BY <1>3 DEF FocusSeen, Reschedules, ScopeTypeOK
  <2> QED BY <2>1, RescheduleStep
<1>4. CASE (FocusSeen(v) /\ v \in ready) \/ FocusLost(v)
  <2>1. /\ UNCHANGED <<visible, backing, chords, ready, dirty, attempts, timer, admitted, call, reply>>
        /\ UNCHANGED <<events, module, scopes, mapped>> /\ focused' \subseteq visible
    BY <1>4 DEF FocusSeen, FocusLost, claimVars, callVars, routingVars, viewVars, ScopeTypeOK
  <2>2. ScopeTypeOK'
    BY <2>1 DEF ScopeTypeOK
  <2>3. \A u \in View : Untouched(u) /\ Compatible(u)
    BY <2>1 DEF Untouched, Compatible, loaded
  <2> QED BY <2>2, <2>3, UntouchedClaims DEF Claims
<1> QED BY <1>1, <1>2, <1>3, <1>4

LEMMA HeardStep ==
  ASSUME ScopeTypeOK, Claims, Heard
  PROVE  ScopeTypeOK' /\ Claims'
<1>1. Schedule(View) /\ visible' = visible /\ View \subseteq View /\ visible' \subseteq View
      /\ UNCHANGED <<backing, focused, chords, admitted, call, reply>>
  BY DEF Heard, callVars, ScopeTypeOK
<1>2. events' \in Seq({"ready", "unavailable"})
  BY DEF Heard, ScopeTypeOK
<1>3. ScopeTypeOK'
  <2>1. ready' \subseteq visible'
    BY <1>1, Schedules DEF ScopeTypeOK
  <2> QED BY <1>1, <1>2, <2>1, Schedules DEF ScopeTypeOK, ClaimsTyped
<1>4. ASSUME NEW u \in View PROVE Restarted(u)
  <2>1. Afresh(u)
    BY <1>1, Schedules
  <2> QED BY <1>1, <2>1 DEF Restarted, Afresh
<1> QED BY <1>3, <1>4, RestartedClaims DEF Claims

\* Windows appear and disappear; the calls of some that disappear may end.
LEMMA AppearStep ==
  ASSUME ScopeTypeOK, Claims, NEW S, S \subseteq View, Appear(S),
         UNCHANGED <<chords, events, module, scopes, mapped>>,
         call' \in [View -> (SUBSET Chord) \cup {NoCall}], reply' \in [View -> {"none", "ok", "error"}],
         \A u \in View :
           \/ call'[u] = call[u] /\ reply'[u] = reply[u]
           \/ call'[u] = NoCall /\ reply'[u] = "none" /\ u \notin S
  PROVE  ScopeTypeOK' /\ Claims'
<1>1. /\ visible' = S /\ backing' = backing \cap S /\ focused' = focused \cap S
      /\ admitted' = admitted \cap S /\ Schedule(Turned(S)) /\ visible' \subseteq View
      /\ Turned(S) \subseteq View
  BY DEF Appear, Reveal, Turned, ScopeTypeOK
<1>2. \A u \in View \ Turned(S) : u \in S <=> u \in visible
  BY DEF Turned
<1>3. ScopeTypeOK'
  <2>1. ready' \subseteq visible'
    <3> SUFFICES ASSUME NEW u \in ready' PROVE u \in S
      BY <1>1
    <3>1. u \in ready /\ u \in View
      BY <1>1, Schedules DEF ScopeTypeOK
    <3>2. u \notin Turned(S)
      BY <1>1, Schedules DEF Afresh
    <3> QED BY <1>2, <3>1, <3>2 DEF ScopeTypeOK
  <2>2. ClaimsTyped'
    BY <1>1, Schedules
  <2> QED BY <1>1, <2>1, <2>2 DEF ScopeTypeOK, ClaimsTyped
<1>4. ASSUME NEW u \in Turned(S) PROVE Restarted(u)
  <2>1. Afresh(u) /\ u \in View
    BY <1>1, Schedules
  <2> QED BY <1>1, <2>1 DEF Restarted, Afresh
<1>5. ASSUME NEW u \in View, u \notin Turned(S) PROVE SameClaim(u)
  BY <1>1, <1>5, Schedules
<1>6. ASSUME NEW u \in View, u \notin Turned(S), call'[u] = call[u], reply'[u] = reply[u]
      PROVE  Untouched(u) /\ Compatible(u)
  BY <1>1, <1>2, <1>5, <1>6 DEF Untouched, SameClaim, Compatible, ScopeTypeOK, loaded
<1>8. ASSUME NEW u \in View, u \notin Turned(S), call'[u] = NoCall, reply'[u] = "none", u \notin S
      PROVE  Claim(u)'
  <2>1. u \notin visible' /\ u \notin ready' /\ (u \in timer' <=> u \in timer) /\ attempts'[u] = attempts[u]
    BY <1>1, <1>2, <1>5, <1>8 DEF ScopeTypeOK, SameClaim
  <2> QED BY <1>8, <2>1 DEF Claim, Claims
<1>7. Claims'
  <2> SUFFICES ASSUME NEW u \in View PROVE Claim(u)'
    BY DEF Claims
  <2> QED BY <1>1, <1>4, <1>6, <1>8, RestartedClaims, UntouchedClaims DEF Claims
<1> QED BY <1>3, <1>7
-----------------------------------------------------------------------------
(* The steps of the calls.                                                  *)

\* A window that steps on its own, and hides others.
Hides(v, gone) ==
  /\ visible' = visible \ gone /\ backing' = backing \cap visible' /\ focused' = focused \cap visible'
  /\ gone \subseteq visible
  /\ UNCHANGED <<chords, events, module, scopes, mapped>>
  /\ \A u \in View \ {v} :
       /\ u \in ready' <=> u \in ready /\ u \notin gone
       /\ u \in dirty' <=> u \in dirty \/ u \in gone
       /\ u \in timer' <=> u \in timer
       /\ attempts'[u] = IF u \in gone THEN 0 ELSE attempts[u]
       /\ call'[u] = call[u] /\ reply'[u] = reply[u]
       /\ u \in admitted' <=> u \in admitted /\ u \notin gone

LEMMA HiddenClaims ==
  ASSUME ScopeTypeOK, Claims, NEW v \in View, NEW gone, Hides(v, gone), NEW u \in View, u # v
  PROVE  Claim(u)'
<1>1. CASE u \in gone
  <2>1. u \notin visible' /\ u \notin ready' /\ u \in dirty' /\ attempts'[u] = 0
    BY <1>1 DEF Hides
  <2>2. call'[u] = call[u] /\ reply'[u] = reply[u]
    BY DEF Hides
  <2>3. Restarted(u)
    BY <2>1, <2>2 DEF Restarted
  <2> QED BY <2>3, RestartedClaims DEF Claims
<1>2. CASE u \notin gone
  <2>1. Untouched(u)
    BY <1>2 DEF Hides, Untouched, ScopeTypeOK
  <2>2. Compatible(u)
    BY DEF Hides, Compatible, loaded
  <2> QED BY <2>1, <2>2, UntouchedClaims DEF Claims
<1> QED BY <1>1, <1>2

LEMMA TimerStep ==
  ASSUME ScopeTypeOK, Claims, NEW v \in View, NEW over, over \subseteq visible, TimerFires(v, over)
  PROVE  ScopeTypeOK' /\ Claims'
<1>1. /\ v \in timer /\ attempts[v] \in Nat /\ attempts[v] < MaxAttempts
      /\ UNCHANGED <<chords, events, module, scopes, mapped>>
  BY Attempts DEF TimerFires, Claims, Claim, routingVars, viewVars, ScopeTypeOK
<1>2. CASE /\ v \notin visible \/ call[v] # NoCall
           /\ timer' = timer \ {v}
           /\ UNCHANGED <<visible, backing, focused, admitted, ready, dirty, attempts, callVars>>
  <2>1. ScopeTypeOK'
    BY <1>1, <1>2 DEF ScopeTypeOK, callVars
  <2>2. Hides(v, {})
    BY <1>1, <1>2 DEF Hides, callVars, ScopeTypeOK
  <2>3. Claim(v)'
    BY <1>1, <1>2 DEF Claims, Claim, Kept, Registration, StillTrying, callVars, loaded
  <2> QED BY <2>1, <2>2, <2>3, HiddenClaims DEF Claims
<1>3. ASSUME v \in visible \ backing, call[v] = NoCall,
             NEW up, up = Admits(v, FALSE, attempts[v] + 1, FALSE),
             Admit(v, up, over),
             timer' = (IF up THEN timer \ {v} ELSE timer),
             Rest(visible \ visible', v, attempts[v] + 1, ready),
             UNCHANGED callVars
      PROVE  ScopeTypeOK' /\ Claims'
  <2> DEFINE gone == IF up /\ v \notin admitted THEN over ELSE {}
  <2>1. /\ visible' = visible \ gone /\ backing' = backing \cap visible' /\ focused' = focused \cap visible'
        /\ admitted' = (IF up THEN admitted \cup {v} ELSE admitted) \ gone
        /\ gone \subseteq visible
    BY <1>3 DEF Admit, Reveal
  <2> HIDE DEF gone
  <2>2. visible \ visible' = gone
    BY <2>1
  <2>3. /\ ready' = ready \ gone /\ dirty' = dirty \cup gone
        /\ attempts' = [u \in View |-> IF u \in gone THEN 0 ELSE IF u = v THEN attempts[v] + 1 ELSE attempts[u]]
    BY <1>3, <2>2 DEF Rest
  <2>4. /\ attempts' \in [View -> 0..MaxAttempts]
        /\ \A u \in View \ {v} : attempts'[u] = IF u \in gone THEN 0 ELSE attempts[u]
        /\ attempts'[v] = IF v \in gone THEN 0 ELSE attempts[v] + 1
    BY <1>1, <2>3, Attempts DEF ScopeTypeOK
  <2>5. ScopeTypeOK'
    BY <1>1, <1>3, <2>1, <2>3, <2>4 DEF ScopeTypeOK, callVars
  <2>6. Hides(v, gone)
    BY <1>1, <1>3, <2>1, <2>3, <2>4 DEF Hides, callVars
  <2>7. up <=> attempts[v] + 1 >= MaxAttempts
    BY <1>3 DEF Admits
  <2>8. Claim(v)'
    <3>1. v \notin ready' /\ reply'[v] = "none" /\ call'[v] = NoCall
      BY <1>3, <2>3 DEF Claims, Claim, callVars, ScopeTypeOK
    <3>2. v \in timer' => attempts'[v] < MaxAttempts
      <4>1. CASE up
        BY <1>3, <4>1
      <4>2. CASE ~up
        BY <1>1, <2>4, <2>7, <4>2, Attempts
      <4> QED BY <4>1, <4>2
    <3>3. v \in visible' => v \in timer' \/ (v \in admitted' /\ attempts'[v] >= MaxAttempts)
      BY <1>1, <1>3, <2>1, <2>4, <2>7
    <3> QED BY <3>1, <3>2, <3>3 DEF Claim, StillTrying
  <2> QED BY <2>5, <2>6, <2>8, HiddenClaims DEF Claims
<1>4. CASE /\ v \in visible \cap backing /\ call[v] = NoCall
           /\ attempts' = [attempts EXCEPT ![v] = @ + 1]
           /\ timer' = timer \ {v} /\ dirty' = dirty \ {v}
           /\ call' = [call EXCEPT ![v] = chords[v]] /\ reply' = [reply EXCEPT ![v] = "none"]
           /\ UNCHANGED <<visible, backing, focused, admitted, ready>>
  <2>1. attempts' \in [View -> 0..MaxAttempts]
    BY <1>1, <1>4, Attempts DEF ScopeTypeOK
  <2>2. ScopeTypeOK'
    BY <1>1, <1>4, <2>1 DEF ScopeTypeOK
  <2>3. Hides(v, {})
    BY <1>1, <1>4 DEF Hides, ScopeTypeOK
  <2>4. call'[v] = chords[v] /\ reply'[v] = "none" /\ v \notin dirty' /\ v \notin timer'
    BY <1>4 DEF ScopeTypeOK
  <2>5. call'[v] # NoCall
    BY <2>4, ScopeAssumption DEF ScopeTypeOK, NoCall
  <2>6. Claim(v)'
    BY <1>1, <1>4, <2>4, <2>5 DEF Claims, Claim, Kept, Registration, StillTrying, loaded
  <2> QED BY <2>2, <2>3, <2>6, HiddenClaims DEF Claims
<1> QED BY <1>2, <1>3, <1>4 DEF TimerFires

LEMMA RegisteredStep ==
  ASSUME ScopeTypeOK, Claims, NEW v \in View, NEW over, over \subseteq visible, Registered(v, over)
  PROVE  ScopeTypeOK' /\ Claims'
<1> DEFINE up == v \in visible /\ Admits(v, Confirmed(v), attempts[v], v \in dirty)
<1> DEFINE gone == IF up /\ v \notin admitted THEN over ELSE {}
<1> DEFINE isReady == IF Confirmed(v) THEN ready \cup {v} ELSE ready \ {v}
<1>1. /\ reply[v] # "none" /\ call[v] # NoCall /\ UNCHANGED <<chords, events, module, scopes, mapped>>
      /\ call' = [call EXCEPT ![v] = NoCall] /\ reply' = [reply EXCEPT ![v] = "none"]
      /\ timer' = (IF v \in visible /\ Retries(v) THEN timer \cup {v} ELSE timer)
      /\ attempts[v] \in Nat /\ attempts[v] <= MaxAttempts
  BY Attempts DEF Registered, Claims, Claim, routingVars, viewVars, ScopeTypeOK
<1>2. /\ visible' = visible \ gone /\ backing' = backing \cap visible' /\ focused' = focused \cap visible'
      /\ admitted' = (IF up THEN admitted \cup {v} ELSE admitted) \ gone
      /\ gone \subseteq visible
  BY DEF Registered, Admit, Reveal
<1>3. up <=> v \in visible /\ (Confirmed(v) \/ (v \notin dirty /\ attempts[v] >= MaxAttempts))
  BY DEF Admits
<1> HIDE DEF up
<1>4. Rest(visible \ visible', v, attempts[v], isReady)
  BY DEF Registered
<1> HIDE DEF gone
<1>5. visible \ visible' = gone
  BY <1>2
<1>6. /\ ready' = isReady \ gone /\ dirty' = dirty \cup gone
      /\ attempts' = [u \in View |-> IF u \in gone THEN 0 ELSE IF u = v THEN attempts[v] ELSE attempts[u]]
  BY <1>4, <1>5 DEF Rest
<1>7. /\ attempts' \in [View -> 0..MaxAttempts]
      /\ \A u \in View : attempts'[u] = IF u \in gone THEN 0 ELSE attempts[u]
  BY <1>1, <1>6, Attempts DEF ScopeTypeOK
<1>8. Confirmed(v) => v \notin dirty /\ v \in backing /\ Kept(v)
  BY <1>1 DEF Confirmed, Claims, Claim
<1>9. /\ call' \in [View -> (SUBSET Chord) \cup {NoCall}] /\ reply' \in [View -> {"none", "ok", "error"}]
      /\ \A u \in View \ {v} : call'[u] = call[u] /\ reply'[u] = reply[u]
      /\ call'[v] = NoCall /\ reply'[v] = "none"
  <2>1. call \in [View -> (SUBSET Chord) \cup {NoCall}] /\ reply \in [View -> {"none", "ok", "error"}]
    BY DEF ScopeTypeOK
  <2>2. NoCall \in (SUBSET Chord) \cup {NoCall}
    OBVIOUS
  <2>3. call' \in [View -> (SUBSET Chord) \cup {NoCall}]
    BY <1>1, <2>1, <2>2
  <2>4. reply' \in [View -> {"none", "ok", "error"}]
    BY <1>1, <2>1
  <2>5. call'[v] = NoCall /\ reply'[v] = "none"
    BY <1>1, <2>1
  <2> QED BY <1>1, <2>1, <2>3, <2>4, <2>5
<1>10. ScopeTypeOK'
  <2>1. isReady \subseteq visible
    BY <1>8 DEF ScopeTypeOK
  <2> HIDE DEF isReady
  <2>2. ready' \subseteq visible' /\ admitted' \subseteq visible'
    BY <1>2, <1>3, <1>6, <2>1 DEF ScopeTypeOK
  <2>3. visible' \subseteq View /\ backing' \subseteq visible' /\ focused' \subseteq visible'
    BY <1>2 DEF ScopeTypeOK
  <2>4. dirty' \subseteq View /\ timer' \subseteq View
    BY <1>1, <1>2, <1>6 DEF ScopeTypeOK
  <2> QED BY <1>1, <1>7, <1>9, <2>2, <2>3, <2>4 DEF ScopeTypeOK
<1>11. Hides(v, gone)
  BY <1>1, <1>2, <1>6, <1>7, <1>9 DEF Hides
<1>12. Claim(v)'
  <2>1. CASE v \in gone
    <3>1. Restarted(v)
      BY <1>2, <1>6, <1>7, <1>9, <2>1 DEF Restarted
    <3> QED BY <3>1, RestartedClaims DEF Claims
  <2>2. CASE v \notin gone
    <3>1. (v \in visible' <=> v \in visible) /\ (v \in backing' <=> v \in backing) /\ (v \in dirty' <=> v \in dirty)
          /\ (v \in ready' <=> Confirmed(v)) /\ attempts'[v] = attempts[v]
          /\ (up => v \in admitted')
      BY <1>2, <1>6, <1>7, <2>2 DEF ScopeTypeOK
    <3>2. v \in ready' => (v \notin dirty /\ v \in backing /\ Kept(v))'
      BY <1>1, <1>8, <3>1 DEF Kept, Registration, loaded
    <3>3. v \in timer' => attempts'[v] < MaxAttempts
      <4>1. Retries(v) => attempts[v] < MaxAttempts
        BY <1>1 DEF Retries, Claims, Claim
      <4>2. v \in timer => attempts[v] < MaxAttempts
        BY DEF Claims, Claim
      <4> QED BY <1>1, <3>1, <4>1, <4>2
    <3>4. v \in visible' \ ready' => v \in timer' \/ (v \in admitted' /\ attempts'[v] >= MaxAttempts)
      BY <1>1, <1>3, <3>1, Attempts DEF Retries
    <3> QED BY <1>9, <3>2, <3>3, <3>4 DEF Claim, StillTrying
  <2> QED BY <2>1, <2>2
<1> QED BY <1>10, <1>11, <1>12, HiddenClaims DEF Claims

\* hyprctl reaches the compositor, or fails.
LEMMA CallStep ==
  ASSUME ScopeTypeOK, RoutingTypeOK, Claims, NEW v \in View, CallReaches(v) \/ CallFails(v)
  PROVE  ScopeTypeOK' /\ Claims'
<1>1. /\ call[v] # NoCall /\ reply[v] = "none" /\ UNCHANGED <<windowVars, claimVars, admitted, call, events>>
      /\ UNCHANGED <<module, mapped>>
      /\ \/ reply' = [reply EXCEPT ![v] = "ok"] /\ loaded /\ Unique(v)
            /\ scopes' = [scopes EXCEPT ![v] = call[v]]
         \/ reply' = [reply EXCEPT ![v] = "error"] /\ scopes' = scopes
  BY DEF CallReaches, CallFails, Register, routingVars, viewVars
<1>2. /\ reply' \in [View -> {"none", "ok", "error"}]
      /\ \A u \in View \ {v} : reply'[u] = reply[u] /\ scopes'[u] = scopes[u]
      /\ reply'[v] = "ok" => loaded /\ v \in mapped /\ scopes'[v] = call[v]
      /\ reply'[v] # "ok" => scopes'[v] = scopes[v]
  BY <1>1 DEF ScopeTypeOK, RoutingTypeOK, Unique
<1>3. ScopeTypeOK'
  BY <1>1, <1>2 DEF ScopeTypeOK, windowVars, claimVars
<1>4. ASSUME NEW u \in View, u # v PROVE Claim(u)'
  <2>1. Untouched(u) /\ Compatible(u)
    BY <1>1, <1>2, <1>4 DEF Untouched, Compatible, windowVars, claimVars, loaded
  <2> QED BY <2>1, UntouchedClaims DEF Claims
<1>5. Claim(v)'
  <2>1. call[v] = chords[v] \/ v \in dirty
    BY <1>1 DEF Claims, Claim
  <2>2. Claim(v)
    BY DEF Claims
  <2>3. v \in ready => (v \notin dirty /\ v \in backing /\ Kept(v))'
    BY <1>1, <1>2, <2>1, <2>2 DEF Claim, Kept, Registration, windowVars, claimVars, loaded
  <2>4. reply'[v] = "ok" /\ v \notin dirty => Kept(v)'
    BY <1>1, <1>2, <2>1 DEF Kept, Registration, windowVars, claimVars, loaded
  <2> QED BY <1>1, <2>2, <2>3, <2>4 DEF Claim, StillTrying, windowVars, claimVars
<1> QED BY <1>3, <1>4, <1>5 DEF Claims

\* The compositor and its module change on their own: what a window relies on
\* goes only with its surface, or with an event it has yet to hear.
LEMMA AroundStep ==
  ASSUME ScopeTypeOK, Claims, UNCHANGED <<windowVars, claimVars, admitted, callVars>>,
         events' \in Seq({"ready", "unavailable"}),
         \A u \in View : Compatible(u)
  PROVE  ScopeTypeOK' /\ Claims'
<1>1. ScopeTypeOK'
  BY DEF ScopeTypeOK, windowVars, claimVars, callVars
<1>2. ASSUME NEW u \in View PROVE Claim(u)'
  <2>1. Untouched(u)
    BY DEF Untouched, windowVars, claimVars, callVars
  <2> QED BY <1>2, <2>1, UntouchedClaims DEF Claims
<1> QED BY <1>1, <1>2 DEF Claims

LEMMA CompositorStep ==
  ASSUME ScopeTypeOK, RoutingTypeOK, Claims, NEW asks, Compositor(asks)
  PROVE  ScopeTypeOK' /\ Claims'
<1>1. UNCHANGED <<windowVars, claimVars, admitted, callVars, events, module>>
  BY DEF Compositor, scopeVars, Focus, Map, Unmap
<1>2. \A u \in View : Compatible(u)
  <2>1. CASE (\E v \in asks \cup {Elsewhere} : Focus(v)) \/ (\E v \in backing : Map(v))
    BY <1>1, <2>1 DEF Focus, Map, Compatible, loaded
  <2>2. ASSUME NEW v \in View \ backing, Unmap(v) PROVE \A u \in View : Compatible(u)
    BY <1>1, <2>2 DEF Unmap, Compatible, loaded, RoutingTypeOK
  <2> QED BY <2>1, <2>2 DEF Compositor
<1> QED BY <1>1, <1>2, AroundStep DEF ScopeTypeOK
-----------------------------------------------------------------------------
(* The steps of the manager and its conversations.                          *)

PinTyped ==
  /\ pinned \cup pinPending \subseteq opened /\ opened \subseteq Conversation
  /\ activeOverlay \in opened \cup {Nobody} /\ settingsOpen \in BOOLEAN
  /\ visible = Shown(opened, pinned, pinPending, settingsOpen)
PreparesTyped ==
  /\ preparing \in [Conversation -> {"idle", "running", "ok", "error"}]
  /\ prepares \in [Conversation -> 0..MaxAttempts]

AIInv == RIInv /\ ScopeTypeOK /\ Claims /\ PinTyped /\ PreparesTyped

LEMMA Surfaces ==
  /\ \A c \in Conversation : Panel(c) \in View /\ Window(c) \in View
  /\ \A c, d : Panel(c) # Window(d) /\ (Panel(c) = Panel(d) => c = d) /\ (Window(c) = Window(d) => c = d)
BY WindowsAssumption DEF Panel, Window

LEMMA ShownViews ==
  ASSUME NEW open, open \subseteq Conversation, NEW pin, NEW handing, NEW settings
  PROVE  Shown(open, pin, handing, settings) \subseteq View
BY Surfaces DEF Shown

\* A step in which windows appear and disappear, and no call ends.
LEMMA AppearsStep ==
  ASSUME ScopeTypeOK, Claims, NEW S, S \subseteq View, Appear(S),
         UNCHANGED <<chords, callVars, events, routingVars>>
  PROVE  ScopeTypeOK' /\ Claims' /\ visible' = S
<1>1. UNCHANGED <<chords, events, module, scopes, mapped, call, reply>>
  BY DEF callVars, routingVars, viewVars
<1>2. visible' = S
  BY DEF Appear, Reveal
<1> QED BY <1>1, <1>2, AppearStep DEF ScopeTypeOK

LEMMA CloseStep ==
  ASSUME AIInv, NEW c \in opened, CloseConversation(c)
  PROVE  ScopeTypeOK' /\ Claims' /\ PinTyped' /\ PreparesTyped'
<1> DEFINE S == Shown(opened', pinned', pinPending', settingsOpen')
<1>1. /\ opened' = opened \ {c} /\ pinned' = pinned \ {c} /\ pinPending' = pinPending \ {c}
      /\ opened' \subseteq Conversation /\ c \in Conversation
      /\ preparing' = [preparing EXCEPT ![c] = "idle"] /\ prepares' = [prepares EXCEPT ![c] = 0]
      /\ activeOverlay' = IF activeOverlay = c THEN Nobody ELSE activeOverlay
      /\ settingsOpen' = (settingsOpen /\ opened' # {})
      /\ Appear(S) /\ visible' = S /\ UNCHANGED <<chords, events, module, scopes, mapped>>
  BY DEF CloseConversation, AIInv, PinTyped, Appear, Reveal, routingVars, viewVars
<1>2. S \subseteq View
  BY <1>1, ShownViews
<1>3. Panel(c) \notin S /\ Window(c) \notin S
  BY <1>1, Surfaces DEF Shown
<1> HIDE DEF S
<1>4. /\ call' = [v \in View |-> IF v \in {Panel(c), Window(c)} THEN NoCall ELSE call[v]]
      /\ reply' = [v \in View |-> IF v \in {Panel(c), Window(c)} THEN "none" ELSE reply[v]]
  BY DEF CloseConversation
<1>5. \A u \in View :
        \/ call'[u] = call[u] /\ reply'[u] = reply[u]
        \/ call'[u] = NoCall /\ reply'[u] = "none" /\ u \notin S
  BY <1>3, <1>4
<1>6. call' \in [View -> (SUBSET Chord) \cup {NoCall}] /\ reply' \in [View -> {"none", "ok", "error"}]
  BY <1>4 DEF AIInv, ScopeTypeOK
<1>7. ScopeTypeOK' /\ Claims'
  BY <1>1, <1>2, <1>5, <1>6, AppearStep DEF AIInv
<1>8. settingsOpen' \in BOOLEAN
  BY <1>1, Zenon DEF AIInv, PinTyped
<1>9. PinTyped'
  BY <1>1, <1>8 DEF AIInv, PinTyped, S
<1>10. PreparesTyped'
  BY <1>1, Attempts DEF AIInv, PreparesTyped
<1> QED BY <1>7, <1>9, <1>10

LEMMA SummonStep == AIInv /\ Summon => ScopeTypeOK' /\ Claims' /\ PinTyped' /\ PreparesTyped'
<1> SUFFICES ASSUME AIInv, Summon PROVE ScopeTypeOK' /\ Claims' /\ PinTyped' /\ PreparesTyped'
  OBVIOUS
<1>1. CASE OverlayOpen /\ CloseConversation(activeOverlay)
  <2>1. activeOverlay \in opened
    BY <1>1 DEF OverlayOpen, AIInv, PinTyped
  <2> QED BY <1>1, <2>1, CloseStep
<1>2. ASSUME NEW c \in Conversation \ opened,
             opened' = opened \cup {c}, activeOverlay' = c,
             Appear(Shown(opened', pinned, pinPending, settingsOpen)),
             UNCHANGED <<pinned, pinPending, preparing, prepares, settingsOpen, chords, callVars,
                         events, routingVars>>
      PROVE  ScopeTypeOK' /\ Claims' /\ PinTyped' /\ PreparesTyped'
  <2>1. Shown(opened', pinned, pinPending, settingsOpen) \subseteq View
    BY <1>2, ShownViews DEF AIInv, PinTyped
  <2>2. ScopeTypeOK' /\ Claims' /\ visible' = Shown(opened', pinned, pinPending, settingsOpen)
    BY <1>2, <2>1, AppearsStep DEF AIInv
  <2>3. PinTyped'
    BY <1>2, <2>2 DEF AIInv, PinTyped
  <2>4. PreparesTyped'
    BY <1>2 DEF AIInv, PreparesTyped
  <2> QED BY <2>2, <2>3, <2>4
<1> QED BY <1>1, <1>2 DEF Summon

LEMMA ToggleStep == AIInv /\ ToggleSettings => ScopeTypeOK' /\ Claims' /\ PinTyped' /\ PreparesTyped'
<1> SUFFICES ASSUME AIInv, ToggleSettings PROVE ScopeTypeOK' /\ Claims' /\ PinTyped' /\ PreparesTyped'
  OBVIOUS
<1>1. /\ settingsOpen' = ~settingsOpen /\ Appear(Shown(opened, pinned, pinPending, settingsOpen'))
      /\ UNCHANGED <<opened, pinned, pinPending, preparing, prepares, activeOverlay>>
      /\ UNCHANGED <<chords, callVars, events, routingVars>>
  BY DEF ToggleSettings, pinVars
<1>2. Shown(opened, pinned, pinPending, settingsOpen') \subseteq View
  BY ShownViews DEF AIInv, PinTyped
<1>3. ScopeTypeOK' /\ Claims' /\ visible' = Shown(opened, pinned, pinPending, settingsOpen')
  BY <1>1, <1>2, AppearsStep DEF AIInv
<1>4. settingsOpen' \in BOOLEAN
  BY <1>1, Zenon
<1>5. PinTyped' /\ PreparesTyped'
  BY <1>1, <1>3, <1>4 DEF AIInv, PinTyped, PreparesTyped
<1> QED BY <1>3, <1>5

\* The steps of the pin hand-over before the window is mapped touch no window.
LEMMA PinStep ==
  ASSUME AIInv, NEW c \in Conversation, Pin(c) \/ PrepareStarts(c) \/ PrepareReaches(c) \/ PrepareFails(c)
  PROVE  ScopeTypeOK' /\ Claims' /\ PinTyped' /\ PreparesTyped'
<1>1. UNCHANGED <<scopeVars, routingVars, opened, pinned, askVars>>
  BY DEF Pin, PrepareStarts, PrepareReaches, PrepareFails
<1>2. ScopeTypeOK' /\ Claims'
  <2>1. \A u \in View : Compatible(u)
    BY <1>1 DEF Compatible, loaded, scopeVars, routingVars, viewVars
  <2> QED BY <1>1, <2>1, AroundStep DEF scopeVars, ScopeTypeOK, AIInv
<1>3. PinTyped'
  <2>1. pinPending' = pinPending \/ (pinPending' = pinPending \cup {c} /\ c \in opened \ pinned)
    BY DEF Pin, PrepareStarts, PrepareReaches, PrepareFails
  <2>2. Shown(opened, pinned, pinPending', settingsOpen) = Shown(opened, pinned, pinPending, settingsOpen)
    BY <2>1 DEF Shown
  <2> QED BY <1>1, <2>1, <2>2 DEF AIInv, PinTyped, askVars, scopeVars, windowVars
<1>4. PreparesTyped'
  <2>1. CASE Pin(c)
    BY <2>1, Attempts DEF Pin, AIInv, PreparesTyped
  <2>2. CASE PrepareStarts(c)
    BY <2>2, Attempts DEF PrepareStarts, AIInv, PreparesTyped
  <2>3. CASE PrepareReaches(c) \/ PrepareFails(c)
    BY <2>3 DEF PrepareReaches, PrepareFails, AIInv, PreparesTyped
  <2> QED BY <2>1, <2>2, <2>3
<1> QED BY <1>2, <1>3, <1>4

LEMMA PreparedStep ==
  ASSUME AIInv, NEW c \in Conversation, Prepared(c)
  PROVE  ScopeTypeOK' /\ Claims' /\ PinTyped' /\ PreparesTyped'
<1>1. PreparesTyped'
  BY DEF Prepared, AIInv, PreparesTyped
<1>2. CASE c \in (opened \cap pinPending) \ pinned /\ Pins(c)
  <2>1. /\ pinned' = pinned \cup {c} /\ c \in opened
        /\ activeOverlay' = (IF activeOverlay = c THEN Nobody ELSE activeOverlay)
        /\ Appear(Shown(opened, pinned', pinPending, settingsOpen))
        /\ UNCHANGED <<chords, callVars, events, routingVars>>
        /\ UNCHANGED <<opened, pinPending, settingsOpen>>
    BY <1>2 DEF Prepared
  <2>2. Shown(opened, pinned', pinPending, settingsOpen) \subseteq View
    BY ShownViews DEF AIInv, PinTyped
  <2>3. ScopeTypeOK' /\ Claims' /\ visible' = Shown(opened, pinned', pinPending, settingsOpen)
    BY <2>1, <2>2, AppearsStep DEF AIInv
  <2>4. PinTyped'
    BY <2>1, <2>3 DEF AIInv, PinTyped
  <2> QED BY <1>1, <2>3, <2>4
<1>3. CASE ~(c \in (opened \cap pinPending) \ pinned /\ Pins(c))
  <2>1. UNCHANGED <<scopeVars, routingVars, opened, pinned, pinPending, activeOverlay, settingsOpen>>
    BY <1>3 DEF Prepared
  <2>2. \A u \in View : Compatible(u)
    BY <2>1 DEF Compatible, loaded, scopeVars, routingVars, viewVars
  <2>3. ScopeTypeOK' /\ Claims'
    BY <2>1, <2>2, AroundStep DEF scopeVars, ScopeTypeOK, AIInv
  <2>4. PinTyped'
    BY <2>1 DEF AIInv, PinTyped, scopeVars, windowVars
  <2> QED BY <1>1, <2>3, <2>4
<1> QED BY <1>2, <1>3

\* Where a pinned window is admitted, its panel goes: what is shown stays in step.
LEMMA HandOver ==
  ASSUME AIInv, NEW v \in View, HandedOver(v), UNCHANGED <<opened, pinned, activeOverlay, settingsOpen>>,
         NEW up, up => v \in visible, Admit(v, up, Waiting(v))
  PROVE  PinTyped'
<1>1. pinPending' \subseteq pinPending
  BY DEF HandedOver
<1>2. visible' = Shown(opened, pinned, pinPending', settingsOpen)
  <2>1. visible = Shown(opened, pinned, pinPending, settingsOpen)
    BY DEF AIInv, PinTyped
  <2>2. CASE up /\ v \notin admitted
    <3>1. visible' = visible \ Waiting(v)
      BY <2>2 DEF Admit, Reveal
    <3>2. v \in visible'
      BY <2>1, <2>2, <3>1, Surfaces DEF Waiting, Shown
    <3>3. v \in admitted'
      BY <2>1, <2>2, Surfaces DEF Admit, Waiting, Shown
    <3>4. pinPending' = {c \in pinPending : v # Window(c)}
      BY <2>2, <3>3 DEF HandedOver
    <3>5. \A c \in pinPending : v = Window(c) => c \in pinned
      BY <2>1, <2>2, Surfaces DEF Shown, AIInv, PinTyped
    <3>6. \A c \in opened : Panel(c) \in visible' <=> Panel(c) \in Shown(opened, pinned, pinPending', settingsOpen)
      BY <2>1, <3>1, <3>4, <3>5, Surfaces DEF Shown, Waiting, AIInv, PinTyped
    <3>7. \A c \in opened : Window(c) \in visible' <=> Window(c) \in Shown(opened, pinned, pinPending', settingsOpen)
      BY <2>1, <3>1, Surfaces DEF Shown, Waiting
    <3>8. /\ \A u \in visible' : \E c \in opened : u = Panel(c) \/ u = Window(c)
          /\ \A u \in Shown(opened, pinned, pinPending', settingsOpen) :
               \E c \in opened : u = Panel(c) \/ u = Window(c)
      BY <2>1, <3>1 DEF Shown
    <3> QED BY <3>6, <3>7, <3>8
  <2>3. CASE ~(up /\ v \notin admitted)
    <3>1. visible' = visible /\ (v \in admitted' => v \in admitted)
      BY <2>3 DEF Admit, Reveal
    <3>2. pinPending' = pinPending
      BY <3>1 DEF HandedOver
    <3> QED BY <2>1, <3>1, <3>2
  <2> QED BY <2>2, <2>3
<1> QED BY <1>1, <1>2 DEF AIInv, PinTyped

LEMMA TimersStep ==
  ASSUME AIInv, NEW v \in View, ScopeTimer(v)
  PROVE  ScopeTypeOK' /\ Claims' /\ PinTyped' /\ PreparesTyped'
<1>1. TimerFires(v, Waiting(v)) /\ HandedOver(v) /\ UNCHANGED <<opened, pinned, preparing, prepares, askVars>>
  BY DEF ScopeTimer
<1>2. ScopeTypeOK' /\ Claims'
  BY <1>1, TimerStep DEF AIInv, Waiting
<1>3. PinTyped'
  <2>1. \/ visible' = visible /\ admitted' = admitted
        \/ v \in visible /\ Admit(v, Admits(v, FALSE, attempts[v] + 1, FALSE), Waiting(v))
    BY <1>1 DEF TimerFires
  <2>2. CASE visible' = visible /\ admitted' = admitted
    <3>1. pinPending' = pinPending
      BY <1>1, <2>2 DEF HandedOver
    <3> QED BY <1>1, <2>2, <3>1 DEF AIInv, PinTyped, askVars
  <2>3. CASE v \in visible /\ Admit(v, Admits(v, FALSE, attempts[v] + 1, FALSE), Waiting(v))
    BY <1>1, <2>3, HandOver DEF askVars
  <2> QED BY <2>1, <2>2, <2>3
<1>4. PreparesTyped'
  BY <1>1 DEF AIInv, PreparesTyped
<1> QED BY <1>2, <1>3, <1>4

LEMMA AnswersStep ==
  ASSUME AIInv, NEW v \in View, ScopeRegistered(v)
  PROVE  ScopeTypeOK' /\ Claims' /\ PinTyped' /\ PreparesTyped'
<1>1. Registered(v, Waiting(v)) /\ HandedOver(v) /\ UNCHANGED <<opened, pinned, preparing, prepares, askVars>>
  BY DEF ScopeRegistered
<1>2. ScopeTypeOK' /\ Claims'
  BY <1>1, RegisteredStep DEF AIInv, Waiting
<1>3. PinTyped'
  <2>1. Admit(v, v \in visible /\ Admits(v, Confirmed(v), attempts[v], v \in dirty), Waiting(v))
    BY <1>1 DEF Registered
  <2> QED BY <1>1, <2>1, HandOver DEF askVars
<1>4. PreparesTyped'
  BY <1>1 DEF AIInv, PreparesTyped
<1> QED BY <1>2, <1>3, <1>4

\* Steps that leave the conversations alone.
LEMMA ScopeSteps ==
  ASSUME AIInv, NEW v \in View, Hyprctl(v) \/ Surface(v) \/ Context(v) \/ RawEvent
  PROVE  ScopeTypeOK' /\ Claims' /\ PinTyped' /\ PreparesTyped'
<1>1. UNCHANGED <<pinVars, askVars>>
  BY DEF Hyprctl, Surface, Context, RawEvent
<1>2. visible' = visible
  BY DEF Hyprctl, Surface, Context, RawEvent, CallReaches, CallFails, Backing, FocusSeen, FocusLost,
         ChordsChange, Heard, windowVars
<1>3. ScopeTypeOK' /\ Claims'
  <2>1. CASE Hyprctl(v)
    BY <2>1, CallStep DEF Hyprctl, AIInv, RIInv
  <2>2. CASE Surface(v) \/ Context(v)
    BY <2>2, SurfaceStep DEF Surface, Context, AIInv
  <2>3. CASE RawEvent
    BY <2>3, HeardStep DEF RawEvent, AIInv
  <2> QED BY <2>1, <2>2, <2>3
<1>4. PinTyped' /\ PreparesTyped'
  BY <1>1, <1>2 DEF AIInv, PinTyped, PreparesTyped, pinVars, askVars
<1> QED BY <1>3, <1>4

LEMMA OutsideStep ==
  ASSUME AIInv, CompositorActs \/ (\E c \in Conversation : UserFocuses(c)) \/ ModuleChanges
  PROVE  ScopeTypeOK' /\ Claims' /\ PinTyped' /\ PreparesTyped'
<1>1. UNCHANGED <<pinVars, askVars, windowVars, claimVars, admitted, callVars>>
  BY DEF CompositorActs, UserFocuses, ModuleChanges, Compositor, scopeVars
<1>2. ASSUME CompositorActs PROVE ScopeTypeOK' /\ Claims'
  BY <1>2, CompositorStep DEF CompositorActs, AIInv, RIInv
<1>3. ASSUME NEW c \in Conversation, UserFocuses(c) PROVE ScopeTypeOK' /\ Claims'
  <2>1. UNCHANGED scopeVars /\ mapped' = mapped /\ scopes' = scopes /\ module' = module
    BY <1>3 DEF UserFocuses, Focus
  <2>2. \A u \in View : Compatible(u)
    BY <2>1 DEF scopeVars, Compatible, loaded
  <2> QED BY <1>1, <2>1, <2>2, AroundStep DEF scopeVars, AIInv, ScopeTypeOK
<1>4. ASSUME ModuleChanges PROVE ScopeTypeOK' /\ Claims'
  <2>1. PICK line \in {"ready", "unavailable"} : events' = Append(events, line)
    BY <1>4 DEF ModuleChanges
  <2>2. events' \in Seq({"ready", "unavailable"}) /\ events' # <<>>
    <3>1. events \in Seq({"ready", "unavailable"})
      BY DEF AIInv, ScopeTypeOK
    <3> QED BY <2>1, <3>1
  <2>3. mapped' = mapped
    BY <1>4 DEF ModuleChanges, Load, Unload, viewVars
  <2>4. \A u \in View : Compatible(u)
    BY <2>2, <2>3 DEF Compatible
  <2> QED BY <1>1, <2>2, <2>4, AroundStep DEF AIInv
<1>5. PinTyped' /\ PreparesTyped'
  BY <1>1 DEF AIInv, PinTyped, PreparesTyped, pinVars, askVars, windowVars
<1> QED BY <1>2, <1>3, <1>4, <1>5
-----------------------------------------------------------------------------
\* What the windows do to the compositor is what KeyRouting allows.
LEMMA AskStepRoutes == AIInv /\ [AskNext]_allVars => [RoutingNext]_routingVars
<1> SUFFICES ASSUME AIInv, [AskNext]_allVars PROVE [RoutingNext]_routingVars
  OBVIOUS
<1>1. CASE Summon \/ ToggleSettings
  BY <1>1 DEF Summon, ToggleSettings, CloseConversation
<1>2. ASSUME NEW c \in Conversation, UserCloses(c) \/ Pin(c) \/ Prepare(c)
      PROVE  [RoutingNext]_routingVars
  BY <1>2 DEF UserCloses, CloseConversation, Pin, Prepare, PrepareStarts, PrepareReaches, PrepareFails, Prepared
<1>3. ASSUME NEW c \in Conversation, UserFocuses(c) PROVE [RoutingNext]_routingVars
  BY <1>3, Surfaces DEF UserFocuses, RoutingNext
<1>4. ASSUME NEW v \in View, ScopeTimer(v) \/ ScopeRegistered(v) \/ Surface(v) \/ Context(v) \/ RawEvent
      PROVE  [RoutingNext]_routingVars
  BY <1>4 DEF ScopeTimer, TimerFires, ScopeRegistered, Registered, Surface, Backing, FocusSeen, FocusLost,
              Context, ChordsChange, RawEvent, Heard
<1>5. ASSUME NEW v \in View, Hyprctl(v) PROVE [RoutingNext]_routingVars
  <2>1. CASE CallFails(v) \/ UNCHANGED routingVars
    BY <2>1 DEF CallFails
  <2>2. CASE Register(v, call[v]) /\ call[v] # NoCall
    <3>1. call[v] \in SUBSET Chord
      BY <2>2 DEF AIInv, ScopeTypeOK
    <3> QED BY <2>2, <3>1 DEF RoutingNext
  <2> QED BY <1>5, <2>1, <2>2 DEF Hyprctl, CallReaches
<1>6. CASE CompositorActs
  <2>1. (admitted \cap Overlay) \cup {Panel(c) : c \in pinPending} \subseteq View
    BY Surfaces, ScopeAssumption DEF AIInv, PinTyped
  <2>2. backing \subseteq View
    BY DEF AIInv, ScopeTypeOK
  <2> QED BY <1>6, <2>1, <2>2 DEF CompositorActs, Compositor, RoutingNext
<1>7. CASE ModuleChanges
  BY <1>7 DEF ModuleChanges, RoutingNext
<1>8. CASE UNCHANGED allVars
  BY <1>8 DEF allVars
<1>9. CASE RawEvent
  BY <1>9 DEF RawEvent, Heard
<1> QED BY <1>1, <1>2, <1>3, <1>4, <1>5, <1>6, <1>7, <1>8, <1>9 DEF AskNext

LEMMA AskStart == AskInit => AIInv
<1> SUFFICES ASSUME AskInit PROVE AIInv
  OBVIOUS
<1>1. RIInv
  BY RoutingStart DEF AskInit
<1>2. ScopeTypeOK
  <2>1. attempts \in [View -> 0..MaxAttempts]
    BY Attempts DEF AskInit, ScopeInit
  <2>2. call \in [View -> (SUBSET Chord) \cup {NoCall}] /\ chords \in [View -> SUBSET Chord]
    BY DEF AskInit, ScopeInit
  <2> QED BY <2>1, <2>2 DEF AskInit, ScopeInit, ScopeTypeOK
<1>3. Claims
  BY DEF AskInit, ScopeInit, Claims, Claim
<1>4. PinTyped
  BY DEF AskInit, ScopeInit, PinTyped, Shown
<1>5. PreparesTyped
  BY Attempts DEF AskInit, PreparesTyped
<1> QED BY <1>1, <1>2, <1>3, <1>4, <1>5 DEF AIInv

LEMMA AskStep == AIInv /\ [AskNext]_allVars => AIInv'
<1> SUFFICES ASSUME AIInv, [AskNext]_allVars PROVE AIInv'
  OBVIOUS
<1>1. RIInv'
  BY AskStepRoutes, RoutingStep DEF AIInv
<1>2. ScopeTypeOK' /\ Claims' /\ PinTyped' /\ PreparesTyped'
  <2>1. CASE Summon \/ ToggleSettings
    BY <2>1, SummonStep, ToggleStep
  <2>2. ASSUME NEW c \in Conversation, UserCloses(c) \/ Pin(c) \/ Prepare(c)
        PROVE  ScopeTypeOK' /\ Claims' /\ PinTyped' /\ PreparesTyped'
    BY <2>2, CloseStep, PinStep, PreparedStep DEF UserCloses, Prepare
  <2>3. ASSUME NEW v \in View, ScopeTimer(v) \/ ScopeRegistered(v)
        PROVE  ScopeTypeOK' /\ Claims' /\ PinTyped' /\ PreparesTyped'
    BY <2>3, TimersStep, AnswersStep
  <2>4. ASSUME NEW v \in View, Hyprctl(v) \/ Surface(v) \/ Context(v)
        PROVE  ScopeTypeOK' /\ Claims' /\ PinTyped' /\ PreparesTyped'
    BY <2>4, ScopeSteps
  <2>5. CASE RawEvent
    <3>1. ScopeTypeOK' /\ Claims'
      BY <2>5, HeardStep DEF RawEvent, AIInv
    <3>2. PinTyped' /\ PreparesTyped'
      BY <2>5 DEF RawEvent, Heard, AIInv, PinTyped, PreparesTyped, pinVars, askVars
    <3> QED BY <3>1, <3>2
  <2>6. CASE CompositorActs \/ (\E c \in Conversation : UserFocuses(c)) \/ ModuleChanges
    BY <2>6, OutsideStep
  <2>7. CASE UNCHANGED allVars
    <3>1. \A u \in View : Compatible(u)
      BY <2>7 DEF allVars, scopeVars, routingVars, viewVars, Compatible, loaded
    <3>2. ScopeTypeOK' /\ Claims'
      BY <2>7, <3>1, AroundStep DEF allVars, scopeVars, AIInv, ScopeTypeOK
    <3>3. PinTyped' /\ PreparesTyped'
      BY <2>7 DEF allVars, scopeVars, windowVars, pinVars, askVars, AIInv, PinTyped, PreparesTyped
    <3> QED BY <3>2, <3>3
  <2> QED BY <2>1, <2>2, <2>3, <2>4, <2>5, <2>6, <2>7 DEF AskNext
<1> QED BY <1>1, <1>2 DEF AIInv

LEMMA AskInvariant == AskSpec => []AIInv
BY AskStart, AskStep, PTL DEF AskSpec

\* Every variable keeps its type, and the windows that are visible are always
\* those that the state of the conversations asks for.
THEOREM WindowsTyped == AskSpec => []AskTypeOK
<1>1. AIInv => AskTypeOK
  BY DEF AIInv, RIInv, PinTyped, PreparesTyped, AskTypeOK
<1> QED BY <1>1, AskInvariant, PTL

\* However windows, hyprctl and the module change while others are waited for,
\* a window that counts as registered is, and one that is not still tries or
\* was let at the keyboard.
THEOREM ShortcutsAlwaysFollow == AskSpec => []ShortcutsFollow
<1>1. AIInv => ShortcutsFollow
  BY DEF AIInv, Claims, Claim, Kept, ShortcutsFollow, ScopeTypeOK
<1> QED BY <1>1, AskInvariant, PTL

\* To the compositor's module the windows of Ask are clients as KeyRouting has
\* them, so that keys are routed rightly here too.
THEOREM WindowsRoute == AskSpec => RoutingSpec /\ []KeysRouted
<1>1. AskInit => RoutingInit
  BY DEF AskInit
<1>2. AskSpec => RoutingSpec
  BY <1>1, AskInvariant, AskStepRoutes, PTL DEF AskSpec, RoutingSpec
<1> QED BY <1>2, KeysAlwaysRouted, PTL
=============================================================================
