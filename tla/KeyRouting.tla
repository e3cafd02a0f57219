----------------------------- MODULE KeyRouting -----------------------------
(***************************************************************************)
(* hyprland/shortcut-scope.cpp: the module that gives the focused Ask      *)
(* surface precedence for the chords it has registered.                    *)
(*                                                                         *)
(* One action is one call into the compositor: a key pressed or released   *)
(* (the hotkey protocol first, then the bindings), a request of hyprctl, a *)
(* change of focus, lock or surfaces, the module loaded or unloaded. A key *)
(* is a keycode of a device; the chord of a press is what the client will  *)
(* receive for it (clientSymbol). The keys that share a keycode (on other  *)
(* devices) or the symbol of an event are any: which ones do is the        *)
(* keyboards' affair, and changes with the modifiers.                      *)
(***************************************************************************)
CONSTANTS
  Key,
  Chord,
  View,            \* surfaces that may be Ask's
  Elsewhere,       \* any other focus
  Module,          \* builds of the module
  NoModule

ASSUME RoutingAssumption == Elsewhere \notin View /\ NoModule \notin Module

VARIABLES
  module,          \* the build that is loaded
  scopes,          \* scopes[v]: the chords registered for the surface v
  mapped,          \* surfaces that are alive and visible
  focus, locked,
  presses,         \* keys whose press was forwarded
  hotkeyPresses,   \* keys whose press was kept from the hotkey protocol
  claimed,         \* keys whose press a hotkey client took
  held,            \* keys with an entry in m_mkKeys or m_mkMods of the compositor
  down,            \* keys that are pressed
  went,            \* went[k]: where the press of k went (for the properties)
  orphans,         \* keys whose press went through a module unloaded since (same)
  eclipsed         \* keys that one released since shares its entry with (same)

historyVars == <<went, orphans, eclipsed>>
keyVars == <<presses, hotkeyPresses, claimed, held, down, historyVars>>
viewVars == <<mapped, focus, locked>>
routingVars == <<module, scopes, viewVars, keyVars>>

Recipient == {"client", "hotkey", "bindings"}
loaded == module # NoModule

RoutingInit ==
  /\ module \in Module \cup {NoModule}
  /\ scopes = [v \in View |-> {}] /\ mapped = {} /\ focus = Elsewhere /\ locked = FALSE
  /\ presses = {} /\ hotkeyPresses = {} /\ claimed = {} /\ held = {} /\ down = {}
  /\ went = [k \in Key |-> "bindings"] /\ orphans = {} /\ eclipsed = {}

\* The focused surface has registered the chord, and the session is not locked.
Owns(c) == loaded /\ ~locked /\ focus \in mapped /\ c \in scopes[focus]

\* A key that passes the hotkey protocol is held for later bindings, whoever gets it.
Hold(k, to) == IF to = "hotkey" THEN held ELSE held \cup {k}

\* route() of a press; it sees none that a hotkey client took.
Remember(k, to) ==
  CASE to = "client" -> presses \cup {k}
    [] to = "bindings" /\ loaded -> presses \ {k}
    [] OTHER -> presses

\* routeHotkey and route for a press. A hotkey client may take any chord that
\* is not Ask's.
Press(k, c) ==
  /\ k \notin down /\ down' = down \cup {k}
  /\ \E to \in IF Owns(c) THEN {"client"} ELSE {"hotkey", "bindings"} :
       /\ went' = [went EXCEPT ![k] = to]
       /\ hotkeyPresses' = IF to = "client" THEN hotkeyPresses \cup {k} ELSE hotkeyPresses \ {k}
       /\ claimed' = IF to = "hotkey" THEN claimed \cup {k} ELSE claimed \ {k}
       /\ presses' = Remember(k, to)
       /\ held' = Hold(k, to)
  /\ UNCHANGED <<module, scopes, viewVars, orphans, eclipsed>>

\* Mutant: a release goes where a press would go now.
ReleaseToOwner(k) ==
  CASE k \in claimed -> "hotkey"
    [] loaded /\ ~locked /\ focus \in mapped /\ scopes[focus] # {} -> "client"
    [] OTHER -> "bindings"

\* Where a release of k goes. A hotkey client takes the releases of its presses.
ReleaseTo(k) ==
  CASE k \in claimed /\ ~(k \in hotkeyPresses /\ ~locked) -> "hotkey"
    [] k \in presses /\ ~locked -> "client"
    [] OTHER -> "bindings"

\* routeHotkey and route for a release. The entries with its keycode, or with
\* the symbol it has now, go: those of the keys `alike` too, though these are
\* down. Entries keep no device.
Release(k, alike) ==
  /\ k \in down /\ down' = down \ {k}
  /\ hotkeyPresses' = hotkeyPresses \ {k} /\ claimed' = claimed \ {k}
  /\ IF ReleaseTo(k) = "hotkey"
     THEN UNCHANGED <<presses, held>> /\ eclipsed' = eclipsed \ {k}
     ELSE /\ presses' = presses \ {k}
          /\ held' = held \ ({k} \cup alike)
          /\ eclipsed' = (eclipsed \cup alike) \ {k}
  /\ orphans' = orphans \ {k} /\ went' = [went EXCEPT ![k] = "bindings"]
  /\ UNCHANGED <<module, scopes, viewVars>>

Releasing(k) == \E alike \in SUBSET (held \ {k}) : Release(k, alike)

\* The session is locked or unlocked.
Lock == locked' = ~locked /\ UNCHANGED <<module, scopes, mapped, focus, keyVars>>

Focus(v) ==
  /\ v \in mapped \cup {Elsewhere} /\ v # focus
  /\ focus' = v
  /\ UNCHANGED <<module, scopes, mapped, locked, keyVars>>

Map(v) ==
  /\ v \notin mapped /\ mapped' = mapped \cup {v}
  /\ UNCHANGED <<module, scopes, focus, locked, keyVars>>

\* The registration of a surface ends with it (Scope holds a weak pointer).
Unmap(v) ==
  /\ v \in mapped /\ mapped' = mapped \ {v}
  /\ focus' = IF focus = v THEN Elsewhere ELSE focus
  /\ scopes' = [scopes EXCEPT ![v] = {}]
  /\ UNCHANGED <<module, locked, keyVars>>

\* configure: the chords replace those registered before.
Register(v, chords) ==
  /\ loaded /\ v \in mapped
  /\ scopes' = [scopes EXCEPT ![v] = chords]
  /\ UNCHANGED <<module, viewVars, keyVars>>

\* A module starts with no scopes and no presses (PLUGIN_EXIT).
Forget ==
  /\ scopes' = [v \in View |-> {}] /\ presses' = {} /\ hotkeyPresses' = {}

\* PLUGIN_INIT. It does not take part in the presses there are.
Load(m) ==
  /\ ~loaded /\ module' = m
  /\ UNCHANGED <<scopes, viewVars, keyVars>>

\* PLUGIN_EXIT, whatever keys are down.
Unload ==
  /\ loaded /\ module' = NoModule
  /\ Forget
  /\ orphans' = orphans \cup {k \in down : went[k] = "client"}
  /\ UNCHANGED <<viewVars, claimed, held, down, went, eclipsed>>

RoutingNext ==
  \/ \E k \in Key, c \in Chord : Press(k, c)
  \/ \E k \in Key : Releasing(k)
  \/ Lock
  \/ \E v \in View \cup {Elsewhere} : Focus(v)
  \/ \E v \in View : Map(v)
  \/ \E v \in View : Unmap(v)
  \/ \E v \in View : \E chords \in SUBSET Chord : Register(v, chords)
  \/ \E m \in Module : Load(m)
  \/ Unload

RoutingSpec == RoutingInit /\ [][RoutingNext]_routingVars
-----------------------------------------------------------------------------
RoutingTypeOK ==
  /\ module \in Module \cup {NoModule} /\ scopes \in [View -> SUBSET Chord]
  /\ mapped \subseteq View /\ focus \in mapped \cup {Elsewhere} /\ locked \in BOOLEAN
  /\ presses \subseteq Key /\ hotkeyPresses \subseteq Key /\ claimed \subseteq Key
  /\ held \subseteq Key /\ down \subseteq Key /\ went \in [Key -> Recipient]
  /\ orphans \subseteq Key /\ eclipsed \subseteq Key

\* A release goes where its press went, whatever happened to the focus, the
\* surfaces and the registrations in between ("Release belongs to the recipient
\* of the press, even if focus changes in between"). Two things keep it from
\* the client: a lock screen, and that the module which forwarded the press was
\* unloaded since, even if one is loaded again; the bindings get it then. What
\* a hotkey client took it releases too, across locks and loads.
ReleaseFollowsPress ==
  \A k \in down :
    ReleaseTo(k) = IF went[k] = "client" /\ (locked \/ k \in orphans) THEN "bindings" ELSE went[k]

\* No key sticks: the compositor holds no key that is up, nor one that a hotkey
\* client took, across locks, loads and keys released on other keyboards. And
\* it holds every key that is down, those given to Ask included ("a subsequent
\* distinct multi-key shortcut may depend on this key being held"), until a key
\* with the same keycode or symbol is released.
NoStuckKeys ==
  LET Passed == {k \in down : went[k] # "hotkey"}
  IN held \subseteq Passed /\ Passed \ eclipsed \subseteq held

\* Both at once: each key is pressed and released in one place, and for the
\* compositor too.
KeysRouted == ReleaseFollowsPress /\ NoStuckKeys
=============================================================================
