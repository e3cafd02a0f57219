---------------------------- MODULE ModuleLoader ----------------------------
(***************************************************************************)
(* hyprland/manage.mjs load, the process that builds the compositor's      *)
(* module and loads it, or replaces an older build of it, while others may *)
(* load and unload modules too; ShortcutRuntime.qml, which runs it; and    *)
(* Ask.qml, which waits for it before it opens a conversation.             *)
(*                                                                         *)
(* One action is one command that manage.mjs runs and waits for. A command *)
(* may fail, or take effect and fail (its timeout).                        *)
(***************************************************************************)
EXTENDS KeyRouting, Integers

CONSTANTS
  New, Old,            \* this build; the one build it recognizes as an earlier one
  MaxMeddling, MaxSummons  \* what others do to the modules, and the user to Ask (bounds)

ASSUME LoaderAssumption ==
  /\ New \in Module /\ Old \in Module /\ New # Old
  /\ MaxMeddling \in Nat /\ MaxSummons \in Nat

VARIABLES
  pending, available,  \* ShortcutRuntime
  opening, overlay,    \* Ask.qml: a request waits; an unpinned conversation is open
  events,              \* lines "unavailable" of the compositor not read yet, how many
  loader,              \* "off", or the command manage.mjs runs next; its exit
  listed, info,        \* what it read: a module is loaded; which
  before,              \* the module when it started (for the properties)
  excused,             \* since it started, others meddled, or a command took effect and failed
  meddling, summons    \* how often

readVars == <<listed, info>>
askVars == <<opening, overlay, summons>>
moduleVars == <<routingVars, pending, available, askVars, events, loader, readVars, before,
                excused, meddling>>

Command == {"list", "info", "version", "build", "recheck", "unload", "load", "verify",
            "rollback", "restore"}
Running == loader # "off"

\* Component.onCompleted
ModuleInit ==
  /\ RoutingInit
  /\ pending = TRUE /\ available = FALSE /\ opening = FALSE /\ overlay = FALSE /\ events = 0
  /\ loader = "list" /\ listed = FALSE /\ info = NoModule /\ before = module /\ excused = FALSE
  /\ meddling = 0 /\ summons = 0

\* ensure(), where module support is not there and nobody is loading it.
Ensure ==
  /\ pending' = TRUE /\ loader' = "list" /\ before' = module /\ excused' = FALSE
  /\ UNCHANGED <<available, readVars>>

Step(from, to) == loader = from /\ loader' = to
Silent == UNCHANGED <<routingVars, events>>

\* What the compositor does for a command, and says on its event socket: a line
\* "ready" tells ShortcutRuntime nothing, it waits for the exit of manage.mjs.
LoadModule(m) == Load(m) /\ UNCHANGED events
UnloadModule == Unload /\ events' = events + 1

\* plugin list
List ==
  /\ Step("list", IF loaded THEN "info" ELSE "version")
  /\ listed' = loaded /\ info' = NoModule
  /\ Silent /\ UNCHANGED excused

\* askshortcuts info; it may fail.
ReadInfo ==
  /\ Step("info", "version")
  /\ info' \in {module, NoModule}
  /\ Silent /\ UNCHANGED <<listed, excused>>

\* Mutant: whatever module is there makes way for this build.
ReplaceableAny == TRUE

\* previousArtifact: an earlier build of this cache.
Replaceable == info = Old

\* checkVersion, then the loaded module: this build, an earlier one, or none of ours.
Decide ==
  /\ \/ /\ info = New /\ Step("version", "done")
     \/ /\ info # New /\ listed /\ ~Replaceable /\ Step("version", "failed")
     \/ /\ info # New /\ (listed => Replaceable) /\ Step("version", "build")
  /\ Silent /\ UNCHANGED <<readVars, excused>>

\* make, or nothing if the build is in the cache.
Build ==
  /\ Step("build", IF listed THEN "recheck" ELSE "load")
  /\ Silent /\ UNCHANGED <<readVars, excused>>

Recheck ==
  /\ Step("recheck", IF module = info THEN "unload" ELSE "failed")
  /\ Silent /\ UNCHANGED <<readVars, excused>>

\* plugin unload of the exact path.
UnloadPrevious ==
  /\ \/ /\ module = info /\ Step("unload", "load") /\ UnloadModule /\ UNCHANGED excused
     \/ /\ module = info /\ Step("unload", "failed") /\ UnloadModule /\ excused' = TRUE
     \/ /\ module # info /\ Step("unload", "failed") /\ Silent /\ UNCHANGED excused
  /\ UNCHANGED readVars

\* plugin load of this build.
LoadNew ==
  /\ \/ /\ ~loaded /\ LoadModule(New)
        /\ loader = "load" /\ loader' \in {"verify", "rollback"}
     \/ /\ Silent
        /\ loader = "load" /\ loader' = "rollback"
  /\ UNCHANGED <<readVars, excused>>

Verify ==
  /\ \/ module = New /\ Step("verify", "done")
     \/ Step("verify", "rollback")
  /\ Silent /\ UNCHANGED <<readVars, excused>>

\* Mutant: what failed to load is not cleared away first.
ClearNothing == Silent /\ UNCHANGED excused

\* This build goes, if it is there at all.
Clear ==
  \/ module = New /\ UnloadModule /\ UNCHANGED excused
  \/ module = New /\ Silent /\ excused' = TRUE
  \/ module # New /\ Silent /\ UNCHANGED excused

\* The catch clause; after an upgrade it goes on to restore the earlier build.
Rollback ==
  /\ \/ listed /\ Step("rollback", "restore") /\ Clear
     \/ ~listed /\ Step("rollback", "failed") /\ Silent /\ UNCHANGED excused
  /\ UNCHANGED readVars

\* The earlier build is loaded again, if possible.
Restore ==
  /\ Step("restore", "failed")
  /\ \/ ~loaded /\ LoadModule(info) /\ UNCHANGED excused
     \/ ~loaded /\ Silent /\ excused' = TRUE
     \/ loaded /\ Silent /\ UNCHANGED excused
  /\ UNCHANGED readVars

\* A command that fails ends the process where no catch clause waits for it.
CommandFails ==
  /\ loader \in {"list", "version", "build", "recheck", "unload"} /\ loader' = "failed"
  /\ Silent /\ UNCHANGED <<readVars, excused>>

ManageStep ==
  /\ \/ List \/ ReadInfo \/ Decide \/ Build \/ Recheck \/ UnloadPrevious \/ LoadNew
     \/ Verify \/ Rollback \/ Restore \/ CommandFails
  /\ UNCHANGED <<pending, available, askVars, before, meddling>>

\* Mutant: only a module that loaded lets a request go on.
SettledLoaded ==
  /\ opening' = (opening /\ loader # "done") /\ overlay' = (overlay \/ (opening /\ loader = "done"))

\* onSettled opens what waits.
Settled == opening' = FALSE /\ overlay' = (overlay \/ opening)

\* finish(), on the exit of manage.mjs.
LoaderExits ==
  /\ loader \in {"done", "failed"} /\ loader' = "off"
  /\ pending' = FALSE /\ available' = (loader = "done")
  /\ Settled
  /\ listed' = FALSE /\ info' = NoModule /\ before' = NoModule
  /\ UNCHANGED <<routingVars, events, excused, meddling, summons>>

\* Mutant: the module is believed to stay.
HeardAlways == UNCHANGED available

\* onRawEvent
Heard == available' = FALSE

RawEvent ==
  /\ events > 0 /\ events' = events - 1 /\ Heard
  /\ UNCHANGED <<routingVars, pending, askVars, loader, readVars, before, excused, meddling>>

\* toggle(): the hotkey.
Summon ==
  /\ summons < MaxSummons /\ summons' = summons + 1
  /\ \/ /\ opening \/ overlay
        /\ opening' = FALSE /\ overlay' = FALSE
        /\ UNCHANGED <<pending, available, loader, readVars, before, excused>>
     \/ /\ ~opening /\ ~overlay
        /\ IF available \/ Running
           THEN UNCHANGED <<pending, available, loader, readVars, before, excused>>
           ELSE Ensure
        /\ opening' = pending' /\ overlay' = ~pending'
  /\ UNCHANGED <<routingVars, events, meddling>>

\* The conversation closes itself, or is pinned.
OverlayEnds ==
  /\ overlay /\ overlay' = FALSE
  /\ UNCHANGED <<routingVars, pending, available, opening, summons, events, loader, readVars,
                 before, excused, meddling>>

\* Another process, or the user, loads or unloads a module.
Meddle ==
  /\ meddling < MaxMeddling /\ meddling' = meddling + 1
  /\ UnloadModule \/ \E m \in Module : LoadModule(m)
  /\ excused' = (excused \/ Running)
  /\ UNCHANGED <<pending, available, askVars, loader, readVars, before>>

\* Keys, focus, locks and registrations.
Keyboard ==
  /\ \/ \E k \in Key, c \in Chord : Press(k, c)
     \/ \E k \in Key : Releasing(k)
     \/ Lock
     \/ \E v \in View \cup {Elsewhere} : Focus(v)
     \/ \E v \in View : Map(v) \/ Unmap(v)
     \/ \E v \in View : \E chords \in SUBSET Chord : Register(v, chords)
  /\ UNCHANGED <<pending, available, askVars, events, loader, readVars, before, excused, meddling>>

ModuleNext ==
  \/ ManageStep \/ LoaderExits \/ RawEvent
  \/ Summon \/ OverlayEnds \/ Meddle \/ Keyboard

\* Each command ends, by its timeout, and the exit of manage.mjs is noticed.
LoaderFairness == WF_moduleVars(ManageStep) /\ WF_moduleVars(LoaderExits)

ModuleSpec == ModuleInit /\ [][ModuleNext]_moduleVars /\ LoaderFairness
-----------------------------------------------------------------------------
ModuleTypeOK ==
  /\ RoutingTypeOK
  /\ opening \in BOOLEAN /\ overlay \in BOOLEAN /\ events \in Nat
  /\ meddling \in 0..MaxMeddling /\ summons \in 0..MaxSummons
  /\ pending \in BOOLEAN /\ available \in BOOLEAN /\ excused \in BOOLEAN /\ listed \in BOOLEAN
  /\ loader \in Command \cup {"off", "done", "failed"}
  /\ info \in Module \cup {NoModule} /\ before \in Module \cup {NoModule}

\* A load that fails leaves the module that was there before, or puts it back,
\* at whatever command it failed (docs/shortcut-module.md: "If loading the
\* replacement fails, it attempts to restore the previous module").
FailedLoadRestores ==
  loader = "failed" /\ ~excused /\ before # NoModule => module = before

\* manage.mjs never unloads a module that is not its own, even one that took
\* the place of its own between two commands ("It never unloads unrelated
\* compositor modules").
ForeignKept ==
  [][module \notin {New, Old, NoModule} /\ loader' # loader => module' = module]_moduleVars

\* Ask believes in a module that is gone only until it reads the event that
\* says so, and then the next open loads it again ("The next open retries
\* unavailable support"), unless, since manage.mjs was last started, another
\* process changed the modules while it was at work, or a command of its took
\* effect and failed: Ask then believes its exit until it starts it again.
AvailableTruth ==
  available /\ ~loaded /\ ~excused => events > 0

\* A request to open does not wait for ever, whatever becomes of the loader
\* ("a failed loader must not strand the popup").
OpenEnds == opening ~> ~opening
=============================================================================
