--------------------------- MODULE KeyRoutingProofs ---------------------------
(***************************************************************************)
(* Theorems about KeyRouting, for every set of keys, chords, surfaces and  *)
(* builds of the module.                                                   *)
(***************************************************************************)
EXTENDS KeyRouting, TLAPS

\* The module forwards the releases of exactly the presses it has forwarded
\* since it was loaded, and a hotkey client those of the presses it took.
Tracked ==
  /\ presses = {k \in down \ orphans : went[k] = "client"}
  /\ hotkeyPresses = {k \in down \ orphans : went[k] = "client"}
  /\ orphans \subseteq {k \in down : went[k] = "client"}
  /\ claimed = {k \in down : went[k] = "hotkey"}
  /\ ~loaded => presses = {}
  /\ eclipsed \subseteq down

RIInv == RoutingTypeOK /\ Tracked /\ NoStuckKeys

-----------------------------------------------------------------------------
LEMMA RoutingStart == RoutingInit => RIInv
<1> SUFFICES ASSUME RoutingInit PROVE RIInv
  OBVIOUS
<1>1. RoutingTypeOK
  BY DEF RoutingInit, RoutingTypeOK, Recipient
<1>2. Tracked /\ NoStuckKeys
  BY DEF RoutingInit, Tracked, NoStuckKeys
<1> QED BY <1>1, <1>2 DEF RIInv

\* Where a release goes follows from what is tracked.
LEMMA TrackedReleases == RoutingTypeOK /\ Tracked => ReleaseFollowsPress
BY DEF RoutingTypeOK, Tracked, ReleaseFollowsPress, ReleaseTo, Recipient

LEMMA PressStep ==
  ASSUME RIInv, NEW k \in Key, NEW c \in Chord, Press(k, c)
  PROVE  RIInv'
<1>1. PICK to \in Recipient :
        /\ went' = [went EXCEPT ![k] = to]
        /\ hotkeyPresses' = IF to = "client" THEN hotkeyPresses \cup {k} ELSE hotkeyPresses \ {k}
        /\ claimed' = IF to = "hotkey" THEN claimed \cup {k} ELSE claimed \ {k}
        /\ presses' = Remember(k, to)
        /\ held' = Hold(k, to)
        /\ to = "client" => loaded
  BY DEF Press, Recipient, Owns
<1>2. /\ k \notin down /\ down' = down \cup {k}
      /\ UNCHANGED <<module, scopes, mapped, focus, locked, orphans, eclipsed>>
  BY DEF Press, viewVars
<1>3. /\ went' \in [Key -> Recipient] /\ went'[k] = to
      /\ \A j \in Key \ {k} : went'[j] = went[j]
  BY <1>1 DEF RIInv, RoutingTypeOK
<1>4. RoutingTypeOK'
  <2>1. presses' \subseteq Key /\ hotkeyPresses' \subseteq Key /\ claimed' \subseteq Key
    BY <1>1 DEF RIInv, RoutingTypeOK, Remember
  <2>2. held' \subseteq Key /\ down' \subseteq Key
    BY <1>1, <1>2 DEF RIInv, RoutingTypeOK, Hold
  <2> QED BY <1>2, <1>3, <2>1, <2>2 DEF RIInv, RoutingTypeOK
<1>4a. k \notin orphans
  BY <1>2 DEF RIInv, Tracked
<1>5. \A w \in Recipient :
        /\ {j \in down' : went'[j] = w} = {j \in down : went[j] = w} \cup (IF w = to THEN {k} ELSE {})
        /\ {j \in down' \ orphans' : went'[j] = w} =
             {j \in down \ orphans : went[j] = w} \cup (IF w = to THEN {k} ELSE {})
  BY <1>2, <1>3, <1>4a DEF RIInv, RoutingTypeOK
<1>6. Tracked'
  <2>1. k \notin presses /\ k \notin hotkeyPresses /\ k \notin claimed
    BY <1>2 DEF RIInv, Tracked
  <2>2. presses' = {j \in down' \ orphans' : went'[j] = "client"}
    BY <1>1, <1>5, <2>1 DEF RIInv, Tracked, Remember, Recipient
  <2>3. hotkeyPresses' = {j \in down' \ orphans' : went'[j] = "client"}
    BY <1>1, <1>5, <2>1 DEF RIInv, Tracked, Recipient
  <2>4. claimed' = {j \in down' : went'[j] = "hotkey"}
    BY <1>1, <1>5, <2>1 DEF RIInv, Tracked, Recipient
  <2>5. ~loaded' => presses' = {}
    BY <1>1, <1>2, <2>1 DEF RIInv, Tracked, Remember, Recipient, loaded
  <2>6. orphans' \subseteq {j \in down' : went'[j] = "client"} /\ eclipsed' \subseteq down'
    BY <1>2, <1>3, <1>4a DEF RIInv, RoutingTypeOK, Tracked
  <2> QED BY <2>2, <2>3, <2>4, <2>5, <2>6 DEF Tracked
<1>7. NoStuckKeys'
  <2>1. k \notin held
    BY <1>2 DEF RIInv, NoStuckKeys
  <2> QED BY <1>1, <1>2, <1>3, <2>1 DEF RIInv, RoutingTypeOK, NoStuckKeys, Hold
<1> QED BY <1>4, <1>6, <1>7 DEF RIInv

LEMMA ReleaseStep ==
  ASSUME RIInv, NEW k \in Key, Releasing(k)
  PROVE  RIInv'
<1>1. PICK alike \in SUBSET (held \ {k}) : Release(k, alike)
  BY DEF Releasing
<1>2. /\ k \in down /\ down' = down \ {k}
      /\ hotkeyPresses' = hotkeyPresses \ {k} /\ claimed' = claimed \ {k}
      /\ orphans' = orphans \ {k} /\ went' = [went EXCEPT ![k] = "bindings"]
      /\ UNCHANGED <<module, scopes, mapped, focus, locked>>
  BY <1>1 DEF Release, viewVars
<1>3. \/ /\ ReleaseTo(k) = "hotkey"
         /\ presses' = presses /\ held' = held /\ eclipsed' = eclipsed \ {k}
      \/ /\ ReleaseTo(k) # "hotkey"
         /\ presses' = presses \ {k} /\ held' = held \ ({k} \cup alike)
         /\ eclipsed' = (eclipsed \cup alike) \ {k}
  BY <1>1 DEF Release
<1>4. ReleaseTo(k) = "hotkey" <=> went[k] = "hotkey"
  BY <1>2, TrackedReleases DEF RIInv, ReleaseFollowsPress
<1>5. /\ went' \in [Key -> Recipient]
      /\ \A j \in down' : went'[j] = went[j]
  BY <1>2 DEF RIInv, RoutingTypeOK, Recipient
<1>6. alike \subseteq down /\ alike \subseteq Key
  BY DEF RIInv, NoStuckKeys, RoutingTypeOK
<1>7. RoutingTypeOK'
  BY <1>2, <1>3, <1>5, <1>6 DEF RIInv, RoutingTypeOK
<1>8. Tracked'
  <2>1. presses' = {j \in down' \ orphans' : went'[j] = "client"}
    BY <1>2, <1>3, <1>4, <1>5 DEF RIInv, Tracked
  <2>2. hotkeyPresses' = {j \in down' \ orphans' : went'[j] = "client"}
    BY <1>2, <1>5 DEF RIInv, Tracked
  <2>3. claimed' = {j \in down' : went'[j] = "hotkey"}
    BY <1>2, <1>5 DEF RIInv, Tracked
  <2>4. orphans' \subseteq {j \in down' : went'[j] = "client"}
    BY <1>2, <1>5 DEF RIInv, Tracked
  <2>5. ~loaded' => presses' = {}
    BY <1>2, <1>3 DEF RIInv, Tracked, loaded
  <2>6. eclipsed' \subseteq down'
    BY <1>2, <1>3, <1>6 DEF RIInv, Tracked
  <2> QED BY <2>1, <2>2, <2>3, <2>4, <2>5, <2>6 DEF Tracked
<1>9. NoStuckKeys'
  BY <1>2, <1>3, <1>4, <1>5 DEF RIInv, NoStuckKeys
<1> QED BY <1>7, <1>8, <1>9 DEF RIInv

\* What happens to focus, locks, surfaces and registrations touches no key.
ViewStep ==
  \/ Lock
  \/ \E v \in View \cup {Elsewhere} : Focus(v)
  \/ \E v \in View : Map(v) \/ Unmap(v) \/ (\E chords \in SUBSET Chord : Register(v, chords))

ViewTyped ==
  /\ scopes \in [View -> SUBSET Chord] /\ mapped \subseteq View
  /\ focus \in mapped \cup {Elsewhere} /\ locked \in BOOLEAN

LEMMA ViewSteps == RIInv /\ ViewStep => RIInv'
<1> SUFFICES ASSUME RIInv, ViewStep PROVE RIInv'
  OBVIOUS
<1>1. UNCHANGED <<module, presses, hotkeyPresses, claimed, held, down, went, orphans, eclipsed>>
  BY DEF ViewStep, Lock, Focus, Map, Unmap, Register, keyVars, historyVars
<1>2. ViewTyped'
  <2>1. ViewTyped
    BY DEF RIInv, RoutingTypeOK, ViewTyped
  <2>2. CASE Lock
    BY <2>1, <2>2 DEF ViewTyped, Lock
  <2>3. ASSUME NEW v \in View \cup {Elsewhere}, Focus(v) PROVE ViewTyped'
    BY <2>1, <2>3 DEF ViewTyped, Focus
  <2>4. ASSUME NEW v \in View, Map(v) PROVE ViewTyped'
    BY <2>1, <2>4 DEF ViewTyped, Map
  <2>5. ASSUME NEW v \in View, Unmap(v) PROVE ViewTyped'
    BY <2>1, <2>5, RoutingAssumption DEF ViewTyped, Unmap
  <2>6. ASSUME NEW v \in View, NEW chords \in SUBSET Chord, Register(v, chords) PROVE ViewTyped'
    BY <2>1, <2>6 DEF ViewTyped, Register, viewVars
  <2> QED BY <2>2, <2>3, <2>4, <2>5, <2>6 DEF ViewStep
<1> QED BY <1>1, <1>2 DEF RIInv, RoutingTypeOK, ViewTyped, Tracked, NoStuckKeys, loaded

LEMMA LoadStep ==
  ASSUME RIInv, NEW m \in Module, Load(m)
  PROVE  RIInv'
BY DEF RIInv, RoutingTypeOK, Tracked, NoStuckKeys, Load, loaded, viewVars, keyVars, historyVars

LEMMA UnloadStep == RIInv /\ Unload => RIInv'
<1> SUFFICES ASSUME RIInv, Unload PROVE RIInv'
  OBVIOUS
<1>1. /\ module' = NoModule /\ presses' = {} /\ hotkeyPresses' = {}
      /\ scopes' = [v \in View |-> {}]
      /\ orphans' = orphans \cup {k \in down : went[k] = "client"}
      /\ UNCHANGED <<mapped, focus, locked, claimed, held, down, went, eclipsed>>
  BY DEF Unload, Forget, viewVars
<1>2. orphans' = {k \in down : went[k] = "client"}
  BY <1>1 DEF RIInv, Tracked
<1>3. RoutingTypeOK'
  BY <1>1, <1>2 DEF RIInv, RoutingTypeOK
<1>4. Tracked'
  BY <1>1, <1>2 DEF RIInv, Tracked, loaded
<1>5. NoStuckKeys'
  BY <1>1 DEF RIInv, NoStuckKeys
<1> QED BY <1>3, <1>4, <1>5 DEF RIInv

LEMMA RoutingStep == RIInv /\ [RoutingNext]_routingVars => RIInv'
<1> SUFFICES ASSUME RIInv, [RoutingNext]_routingVars PROVE RIInv'
  OBVIOUS
<1>1. ASSUME NEW k \in Key, NEW c \in Chord, Press(k, c) PROVE RIInv'
  BY <1>1, PressStep
<1>2. ASSUME NEW k \in Key, Releasing(k) PROVE RIInv'
  BY <1>2, ReleaseStep
<1>3. CASE ViewStep
  BY <1>3, ViewSteps
<1>4. ASSUME NEW m \in Module, Load(m) PROVE RIInv'
  BY <1>4, LoadStep
<1>5. CASE Unload
  BY <1>5, UnloadStep
<1>6. CASE UNCHANGED routingVars
  BY <1>6 DEF routingVars, viewVars, keyVars, historyVars, RIInv, RoutingTypeOK, Tracked, NoStuckKeys, loaded
<1> QED BY <1>1, <1>2, <1>3, <1>4, <1>5, <1>6 DEF RoutingNext, ViewStep

LEMMA RoutingInvariant == RoutingSpec => []RIInv
BY RoutingStart, RoutingStep, PTL DEF RoutingSpec

\* The module's sets hold keys and its scopes chords.
THEOREM RoutingTyped == RoutingSpec => []RoutingTypeOK
<1>1. RIInv => RoutingTypeOK
  BY DEF RIInv
<1> QED BY <1>1, RoutingInvariant, PTL

\* The release of a key goes to whoever got its press, whatever happened to
\* focus, surfaces and registrations in between, and to the bindings if a lock
\* screen is up or the module that forwarded the press is gone.
THEOREM ReleasesFollow == RoutingSpec => []ReleaseFollowsPress
<1>1. RIInv => ReleaseFollowsPress
  BY TrackedReleases DEF RIInv
<1> QED BY <1>1, RoutingInvariant, PTL

\* The compositor never holds a key that is up, and loses one that is down
\* only to the release of another that shares its entry.
THEOREM NothingStuck == RoutingSpec => []NoStuckKeys
<1>1. RIInv => NoStuckKeys
  BY DEF RIInv
<1> QED BY <1>1, RoutingInvariant, PTL

\* Both at once.
THEOREM KeysAlwaysRouted == RoutingSpec => []KeysRouted
<1>1. ReleaseFollowsPress /\ NoStuckKeys => KeysRouted
  BY DEF KeysRouted
<1> QED BY <1>1, ReleasesFollow, NothingStuck, PTL
=============================================================================
