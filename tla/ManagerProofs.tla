---------------------------- MODULE ManagerProofs ----------------------------
(***************************************************************************)
(* Theorems about two jobs of the manager, Ask.qml: the compositor module  *)
(* that it has loaded (ModuleLoader) and the settings file it shares with  *)
(* the bridges (SettingsFile), for every set of keys, chords, surfaces,    *)
(* builds and bridges. Whatever the loader and others do to the module,    *)
(* the routing of keys stays that of KeyRouting; a failed load restores    *)
(* what it replaced; the modules of others are never unloaded. However the *)
(* writers of the file interleave, they keep what is none of theirs.       *)
(***************************************************************************)
EXTENDS ModuleLoader, SettingsFile, KeyRoutingProofs

\* From the decision on, manage.mjs replaces only an earlier build of its own.
Replacing == {"build", "recheck", "unload", "load", "verify", "rollback", "restore"}
OwnOnly ==
  /\ loader \in Replacing /\ listed => info = Old
  /\ loader \in {"recheck", "unload", "restore"} => listed

\* What manage.mjs knows of the module it found, as long as nobody meddles and
\* no command deceives it, and where that module is.
Known ==
  /\ loader \in {"info", "version"} \cup Replacing => listed
  /\ loader = "version" => info \in {before, NoModule}
  /\ loader \in Replacing => info = before
  /\ loader \in {"list", "info", "version", "build", "recheck", "unload", "failed"} => module = before
  /\ loader \in {"load", "restore"} => module = NoModule
  /\ loader = "verify" => module = New
  /\ loader = "rollback" => module \in {New, NoModule}
Traced == ~excused /\ before # NoModule => Known

\* A loader that says "done" found or left a module, as long as nobody meddles
\* and no command deceives it; while it runs, Ask believes in none.
Found ==
  /\ Running => ~available
  /\ ~excused /\ loader = "version" /\ info = New => loaded
  /\ ~excused /\ loader = "done" => loaded

\* The types of what ModuleLoader adds to KeyRouting.
LoaderTypes ==
  /\ opening \in BOOLEAN /\ overlay \in BOOLEAN /\ events \in Nat
  /\ meddling \in 0..MaxMeddling /\ summons \in 0..MaxSummons
  /\ pending \in BOOLEAN /\ available \in BOOLEAN /\ excused \in BOOLEAN /\ listed \in BOOLEAN
  /\ loader \in Command \cup {"off", "done", "failed"}
  /\ info \in Module \cup {NoModule} /\ before \in Module \cup {NoModule}

-----------------------------------------------------------------------------
LEMMA Builds == Old \in Module /\ New \in Module /\ New # Old /\ NoModule \notin Module
BY LoaderAssumption, RoutingAssumption

LEMMA OwnInit == ModuleInit => OwnOnly /\ Traced
BY DEF ModuleInit, OwnOnly, Traced, Known, Replacing

LEMMA OwnStep == OwnOnly /\ [ModuleNext]_moduleVars => OwnOnly'
<1> SUFFICES ASSUME OwnOnly, [ModuleNext]_moduleVars PROVE OwnOnly'
  OBVIOUS
<1>1. CASE ManageStep
  <2>1. CASE List
    BY <2>1 DEF List, Step, OwnOnly, Replacing
  <2>2. CASE ReadInfo
    BY <2>2 DEF ReadInfo, Step, OwnOnly, Replacing
  <2>3. CASE Decide
    BY <2>3 DEF Decide, Step, OwnOnly, Replacing, Replaceable, readVars
  <2>4. CASE Build
    BY <2>4 DEF Build, Step, OwnOnly, Replacing, readVars
  <2>5. CASE Recheck
    BY <2>5 DEF Recheck, Step, OwnOnly, Replacing, readVars
  <2>6. CASE UnloadPrevious
    BY <2>6 DEF UnloadPrevious, Step, OwnOnly, Replacing, readVars
  <2>7. CASE LoadNew
    BY <2>7 DEF LoadNew, OwnOnly, Replacing, readVars
  <2>8. CASE Verify
    BY <2>8 DEF Verify, Step, OwnOnly, Replacing, readVars
  <2>9. CASE Rollback
    BY <2>9 DEF Rollback, Step, OwnOnly, Replacing, readVars
  <2>10. CASE Restore \/ CommandFails
    BY <2>10 DEF Restore, CommandFails, Step, OwnOnly, Replacing, readVars
  <2> QED BY <1>1, <2>1, <2>2, <2>3, <2>4, <2>5, <2>6, <2>7, <2>8, <2>9, <2>10 DEF ManageStep
<1>2. CASE LoaderExits
  BY <1>2 DEF LoaderExits, OwnOnly, Replacing
<1>3. CASE Summon
  BY <1>3 DEF Summon, Ensure, OwnOnly, Replacing, readVars
<1>4. CASE RawEvent \/ OverlayEnds \/ Meddle \/ Keyboard \/ UNCHANGED moduleVars
  BY <1>4 DEF RawEvent, OverlayEnds, Meddle, Keyboard, moduleVars, readVars, OwnOnly
<1> QED BY <1>1, <1>2, <1>3, <1>4 DEF ModuleNext

\* A command either leaves the compositor alone or is one of its requests.
LEMMA ManageRoutes == OwnOnly /\ ManageStep => [RoutingNext]_routingVars
<1> SUFFICES ASSUME OwnOnly, ManageStep PROVE [RoutingNext]_routingVars
  OBVIOUS
<1>1. \A m \in Module : LoadModule(m) => RoutingNext
  BY DEF LoadModule, RoutingNext
<1>2. UnloadModule => RoutingNext
  BY DEF UnloadModule, RoutingNext
<1>3. CASE List \/ ReadInfo \/ Decide \/ Build \/ Recheck \/ Verify \/ CommandFails
  BY <1>3 DEF List, ReadInfo, Decide, Build, Recheck, Verify, CommandFails, Silent
<1>4. CASE UnloadPrevious \/ LoadNew \/ Rollback
  BY <1>1, <1>2, <1>4, Builds DEF UnloadPrevious, LoadNew, Rollback, Clear, Silent
<1>5. CASE Restore
  BY <1>1, <1>5, Builds DEF Restore, Silent, Step, OwnOnly, Replacing
<1> QED BY <1>3, <1>4, <1>5 DEF ManageStep

LEMMA LoaderStepRoutes == OwnOnly /\ [ModuleNext]_moduleVars => [RoutingNext]_routingVars
<1> SUFFICES ASSUME OwnOnly, [ModuleNext]_moduleVars PROVE [RoutingNext]_routingVars
  OBVIOUS
<1>1. CASE ManageStep
  BY <1>1, ManageRoutes
<1>2. CASE LoaderExits \/ RawEvent \/ Summon \/ OverlayEnds
  BY <1>2 DEF LoaderExits, RawEvent, Summon, OverlayEnds
<1>3. CASE Meddle
  BY <1>3 DEF Meddle, LoadModule, UnloadModule, RoutingNext
<1>4. CASE Keyboard
  BY <1>4 DEF Keyboard, RoutingNext
<1>5. CASE UNCHANGED moduleVars
  BY <1>5 DEF moduleVars
<1> QED BY <1>1, <1>2, <1>3, <1>4, <1>5 DEF ModuleNext

\* The compositor's module behaves as KeyRouting says, whatever manage.mjs,
\* other processes and the user make of it: loaded, replaced and rolled back
\* while keys are down.
THEOREM LoaderRoutes == ModuleSpec => RoutingSpec
<1>1. ModuleInit => RoutingInit
  BY DEF ModuleInit
<1> QED BY <1>1, OwnInit, OwnStep, LoaderStepRoutes, PTL DEF ModuleSpec, RoutingSpec

\* Hence no key sticks when a build is loaded, unloaded or replaced while keys
\* are down; and a release goes where its press went, but for the keys whose
\* press the build that is gone had forwarded: those go to the bindings.
THEOREM KeysSurviveLoads == ModuleSpec => []KeysRouted
BY LoaderRoutes, KeysAlwaysRouted, PTL

-----------------------------------------------------------------------------
LEMMA LoadsAndUnloads ==
  /\ \A m : LoadModule(m) => ~loaded /\ module' = m
  /\ UnloadModule => module' = NoModule
  /\ Silent => module' = module
BY DEF LoadModule, UnloadModule, Load, Unload, Silent, routingVars

LEMMA ManageTraced ==
  ASSUME OwnOnly, Traced, ManageStep PROVE Traced'
<1> SUFFICES ASSUME ~excused', before # NoModule PROVE Known'
  BY DEF Traced, ManageStep
<1>1. before' = before
  BY DEF ManageStep
<1>2. ~excused
  BY DEF ManageStep, List, ReadInfo, Decide, Build, Recheck, UnloadPrevious, LoadNew, Verify,
         Rollback, Clear, Restore, CommandFails
<1>3. Known
  BY <1>2 DEF Traced
<1>4. CASE List
  <2>1. module = before /\ module # NoModule
    BY <1>3, <1>4 DEF List, Step, Known
  <2>2. listed' /\ loader' = "info" /\ module' = module
    BY <1>4, <2>1, LoadsAndUnloads DEF List, Step, loaded
  <2> QED BY <1>1, <2>1, <2>2 DEF Known, Replacing
<1>5. CASE ReadInfo
  BY <1>1, <1>3, <1>5, LoadsAndUnloads DEF ReadInfo, Step, Known, Replacing
<1>6. CASE Decide
  BY <1>1, <1>3, <1>6, LoadsAndUnloads, Builds DEF Decide, Step, Known, Replacing, Replaceable, readVars
<1>7. CASE Build
  BY <1>1, <1>3, <1>7, LoadsAndUnloads DEF Build, Step, Known, Replacing, readVars
<1>8. CASE Recheck
  BY <1>1, <1>3, <1>8, LoadsAndUnloads DEF Recheck, Step, Known, Replacing, readVars
<1>9. CASE UnloadPrevious
  BY <1>1, <1>2, <1>3, <1>9, LoadsAndUnloads DEF UnloadPrevious, Step, Known, Replacing, readVars
<1>10. CASE LoadNew
  BY <1>1, <1>3, <1>10, LoadsAndUnloads DEF LoadNew, Known, Replacing, readVars
<1>11. CASE Verify
  BY <1>1, <1>3, <1>11, LoadsAndUnloads DEF Verify, Step, Known, Replacing, readVars
<1>12. CASE Rollback
  BY <1>1, <1>3, <1>12, LoadsAndUnloads DEF Rollback, Clear, Step, Known, Replacing, readVars
<1>13. CASE Restore
  BY <1>1, <1>3, <1>13, LoadsAndUnloads DEF Restore, Step, Known, Replacing, readVars, loaded
<1>14. CASE CommandFails
  BY <1>1, <1>3, <1>14, LoadsAndUnloads DEF CommandFails, Known, Replacing, readVars
<1> QED BY <1>4, <1>5, <1>6, <1>7, <1>8, <1>9, <1>10, <1>11, <1>12, <1>13, <1>14 DEF ManageStep

LEMMA TracedStep == OwnOnly /\ Traced /\ [ModuleNext]_moduleVars => Traced'
<1> SUFFICES ASSUME OwnOnly, Traced, [ModuleNext]_moduleVars PROVE Traced'
  OBVIOUS
<1>1. CASE ManageStep
  BY <1>1, ManageTraced
<1>2. CASE LoaderExits
  BY <1>2 DEF LoaderExits, Traced
<1>3. CASE Summon
  BY <1>3 DEF Summon, Ensure, Traced, Known, Replacing, readVars, routingVars
<1>4. CASE Meddle
  BY <1>4 DEF Meddle, Traced, Known, Replacing, readVars, Running
<1>5. CASE RawEvent \/ OverlayEnds \/ UNCHANGED moduleVars
  BY <1>5 DEF RawEvent, OverlayEnds, moduleVars, routingVars, readVars, Traced, Known
<1>6. CASE Keyboard
  <2>1. module' = module
    BY <1>6 DEF Keyboard, Press, Releasing, Release, Lock, Focus, Map, Unmap, Register
  <2> QED BY <1>6, <2>1 DEF Keyboard, readVars, Traced, Known
<1> QED BY <1>1, <1>2, <1>3, <1>4, <1>5, <1>6 DEF ModuleNext

LEMMA LoaderInvariant == ModuleSpec => [](OwnOnly /\ Traced)
BY OwnInit, OwnStep, TracedStep, PTL DEF ModuleSpec

\* Wherever a load fails, the module that was there is there again.
THEOREM LoadFailuresRestore == ModuleSpec => []FailedLoadRestores
<1>1. Traced => FailedLoadRestores
  BY DEF Traced, Known, FailedLoadRestores
<1> QED BY <1>1, LoaderInvariant, PTL

\* No command of manage.mjs unloads a module of somebody else.
THEOREM ForeignSafe == ModuleSpec => ForeignKept
<1>1. ASSUME OwnOnly, [ModuleNext]_moduleVars, module \notin {New, Old, NoModule}, loader' # loader
      PROVE  module' = module
  <2>1. CASE ManageStep
    <3>1. CASE List \/ ReadInfo \/ Decide \/ Build \/ Recheck \/ Verify \/ CommandFails
      BY <3>1, LoadsAndUnloads DEF List, ReadInfo, Decide, Build, Recheck, Verify, CommandFails
    <3>2. CASE UnloadPrevious
      BY <1>1, <3>2, LoadsAndUnloads DEF UnloadPrevious, Step, OwnOnly, Replacing
    <3>3. CASE LoadNew \/ Restore
      BY <1>1, <3>3, LoadsAndUnloads DEF LoadNew, Restore, loaded
    <3>4. CASE Rollback
      BY <1>1, <3>4, LoadsAndUnloads DEF Rollback, Clear
    <3> QED BY <2>1, <3>1, <3>2, <3>3, <3>4 DEF ManageStep
  <2>2. CASE LoaderExits \/ RawEvent \/ Summon \/ OverlayEnds \/ UNCHANGED moduleVars
    BY <2>2 DEF LoaderExits, RawEvent, Summon, OverlayEnds, moduleVars, routingVars
  <2>3. CASE Meddle \/ Keyboard
    BY <1>1, <2>3 DEF Meddle, Keyboard
  <2> QED BY <1>1, <2>1, <2>2, <2>3 DEF ModuleNext
<1>2. OwnOnly /\ [ModuleNext]_moduleVars
        => [module \notin {New, Old, NoModule} /\ loader' # loader => module' = module]_moduleVars
  BY <1>1
<1> QED BY <1>2, LoaderInvariant, PTL DEF ModuleSpec, ForeignKept

-----------------------------------------------------------------------------
(* Types, and what Ask believes.                                            *)

LEMMA CommandTypes ==
  ASSUME LoaderTypes, module \in Module \cup {NoModule}, ManageStep PROVE LoaderTypes'
<1>1. /\ pending' \in BOOLEAN /\ available' \in BOOLEAN /\ opening' \in BOOLEAN /\ overlay' \in BOOLEAN
      /\ meddling' \in 0..MaxMeddling /\ summons' \in 0..MaxSummons
      /\ before' \in Module \cup {NoModule}
  BY DEF ManageStep, askVars, LoaderTypes
<1>2. loader' \in Command \cup {"off", "done", "failed"}
  BY DEF ManageStep, List, ReadInfo, Decide, Build, Recheck, UnloadPrevious, LoadNew, Verify, Rollback,
         Restore, CommandFails, Step, Command
<1>3. excused' \in BOOLEAN
  <2>1. excused' = excused \/ excused' = TRUE
    BY DEF ManageStep, List, ReadInfo, Decide, Build, Recheck, UnloadPrevious, LoadNew, Verify, Rollback,
           Clear, Restore, CommandFails
  <2> QED BY <2>1 DEF LoaderTypes
<1>4. listed' \in BOOLEAN
  <2>1. listed' = listed \/ listed' = loaded
    BY DEF ManageStep, List, ReadInfo, Decide, Build, Recheck, UnloadPrevious, LoadNew, Verify, Rollback,
           Restore, CommandFails, readVars
  <2> QED BY <2>1 DEF LoaderTypes, loaded
<1>5. info' \in Module \cup {NoModule}
  BY DEF ManageStep, List, ReadInfo, Decide, Build, Recheck, UnloadPrevious, LoadNew, Verify, Rollback,
         Restore, CommandFails, readVars, LoaderTypes
<1>6. events' \in Nat
  <2>1. events' = events \/ events' = events + 1
    BY DEF ManageStep, List, ReadInfo, Decide, Build, Recheck, UnloadPrevious, LoadNew, Verify, Rollback,
           Clear, Restore, CommandFails, Silent, LoadModule, UnloadModule
  <2>2. events \in Nat
    BY DEF LoaderTypes
  <2> QED BY <2>1, <2>2
<1> QED BY <1>1, <1>2, <1>3, <1>4, <1>5, <1>6 DEF LoaderTypes

LEMMA LoaderTypesStep ==
  ASSUME LoaderTypes, module \in Module \cup {NoModule}, [ModuleNext]_moduleVars PROVE LoaderTypes'
<1>1. CASE ManageStep
  BY <1>1, CommandTypes
<1>2. CASE LoaderExits
  <2>1. available' \in BOOLEAN /\ overlay' \in BOOLEAN
    BY <1>2 DEF LoaderExits, Settled, LoaderTypes
  <2> QED BY <1>2, <2>1 DEF LoaderExits, Settled, LoaderTypes
<1>3. CASE RawEvent
  <2>1. events' \in Nat
    BY <1>3 DEF RawEvent, LoaderTypes
  <2>2. available' \in BOOLEAN
    BY <1>3 DEF RawEvent, Heard, LoaderTypes
  <2> QED BY <1>3, <2>1, <2>2 DEF RawEvent, LoaderTypes, askVars, readVars
<1>4. CASE Summon
  <2>1. summons' \in 0..MaxSummons
    BY <1>4, LoaderAssumption DEF Summon, LoaderTypes
  <2>2. opening' \in BOOLEAN /\ overlay' \in BOOLEAN /\ pending' \in BOOLEAN
    BY <1>4 DEF Summon, Ensure, LoaderTypes
  <2>3. /\ loader' \in Command \cup {"off", "done", "failed"} /\ excused' \in BOOLEAN
        /\ before' \in Module \cup {NoModule} /\ UNCHANGED <<available, readVars>>
    BY <1>4 DEF Summon, Ensure, LoaderTypes, Command
  <2> QED BY <1>4, <2>1, <2>2, <2>3 DEF Summon, LoaderTypes, readVars
<1>5. CASE Meddle
  <2>1. events' = events \/ events' = events + 1
    BY <1>5 DEF Meddle, LoadModule, UnloadModule
  <2>2. events' \in Nat
    <3>1. events \in Nat
      BY DEF LoaderTypes
    <3> QED BY <2>1, <3>1
  <2>3. meddling' \in 0..MaxMeddling
    BY <1>5, LoaderAssumption DEF Meddle, LoaderTypes
  <2>4. excused' \in BOOLEAN
    BY <1>5 DEF Meddle
  <2> QED BY <1>5, <2>2, <2>3, <2>4 DEF Meddle, LoaderTypes, askVars, readVars
<1>6. CASE OverlayEnds \/ Keyboard \/ UNCHANGED moduleVars
  BY <1>6 DEF OverlayEnds, Keyboard, moduleVars, askVars, readVars, LoaderTypes
<1> QED BY <1>1, <1>2, <1>3, <1>4, <1>5, <1>6 DEF ModuleNext

LEMMA LoaderTyped == ModuleSpec => [](RoutingTypeOK /\ LoaderTypes)
<1>1. ASSUME ModuleInit, RoutingTypeOK PROVE LoaderTypes
  <2>1. 0 \in 0..MaxMeddling /\ 0 \in 0..MaxSummons
    BY LoaderAssumption
  <2>2. before \in Module \cup {NoModule}
    BY <1>1 DEF ModuleInit, RoutingTypeOK
  <2>3. events \in Nat
    BY <1>1 DEF ModuleInit
  <2> QED BY <1>1, <2>1, <2>2, <2>3 DEF ModuleInit, LoaderTypes, Command
<1>2. RoutingTypeOK /\ LoaderTypes /\ [ModuleNext]_moduleVars => LoaderTypes'
  BY LoaderTypesStep DEF RoutingTypeOK
<1> QED BY <1>1, <1>2, LoaderRoutes, RoutingTyped, PTL DEF ModuleSpec

\* Every variable keeps its type.
THEOREM ModuleTyped == ModuleSpec => []ModuleTypeOK
<1>1. RoutingTypeOK /\ LoaderTypes => ModuleTypeOK
  BY DEF LoaderTypes, ModuleTypeOK
<1> QED BY <1>1, LoaderTyped, PTL

LEMMA FoundStep == LoaderTypes /\ Found /\ [ModuleNext]_moduleVars => Found'
<1> SUFFICES ASSUME LoaderTypes, Found, [ModuleNext]_moduleVars PROVE Found'
  OBVIOUS
<1>1. CASE ManageStep
  <2>1. available' = available /\ Running
    BY <1>1 DEF ManageStep, List, ReadInfo, Decide, Build, Recheck, UnloadPrevious, LoadNew, Verify,
                Rollback, Restore, CommandFails, Step, Running
  <2>2. ASSUME ~excused', loader' = "version", info' = New PROVE loaded'
    BY <1>1, <2>2, Builds, LoadsAndUnloads
    DEF ManageStep, List, ReadInfo, Decide, Build, Recheck, UnloadPrevious, LoadNew, Verify, Rollback,
        Restore, CommandFails, Step, loaded
  <2>3. ASSUME ~excused', loader' = "done" PROVE loaded'
    <3>1. Decide \/ Verify
      BY <1>1, <2>3 DEF ManageStep, List, ReadInfo, Build, Recheck, UnloadPrevious, LoadNew, Rollback,
                        Restore, CommandFails, Step
    <3> QED BY <2>3, <3>1, Builds, LoadsAndUnloads DEF Decide, Verify, Step, Found, loaded
  <2> QED BY <2>1, <2>2, <2>3 DEF Found
<1>2. CASE LoaderExits
  BY <1>2 DEF LoaderExits, Found, Running
<1>3. CASE Summon
  BY <1>3 DEF Summon, Ensure, Found, Running, loaded, routingVars, readVars
<1>4. CASE Meddle
  BY <1>4 DEF Meddle, Found, Running, readVars
<1>5. CASE RawEvent \/ OverlayEnds \/ UNCHANGED moduleVars
  <2>1. /\ module' = module /\ loader' = loader /\ info' = info /\ excused' = excused
        /\ available' => available
    BY <1>5 DEF RawEvent, Heard, OverlayEnds, moduleVars, routingVars, readVars, LoaderTypes
  <2> QED BY <2>1 DEF Found, Running, loaded
<1>6. CASE Keyboard
  <2>1. module' = module
    BY <1>6 DEF Keyboard, Press, Releasing, Release, Lock, Focus, Map, Unmap, Register
  <2> QED BY <1>6, <2>1 DEF Keyboard, readVars, Found, Running, loaded
<1> QED BY <1>1, <1>2, <1>3, <1>4, <1>5, <1>6 DEF ModuleNext

LEMMA TruthStep ==
  LoaderTypes /\ Found /\ AvailableTruth /\ [ModuleNext]_moduleVars => AvailableTruth'
<1> SUFFICES ASSUME LoaderTypes, Found, AvailableTruth, [ModuleNext]_moduleVars,
                    available', ~loaded', ~excused'
             PROVE  events' > 0
  BY DEF AvailableTruth
<1>1. available /\ ~loaded /\ ~excused => events > 0
  BY DEF AvailableTruth
<1>2. events \in Nat
  BY DEF LoaderTypes
<1>3. CASE ManageStep
  BY <1>3 DEF ManageStep, Found, Running, List, ReadInfo, Decide, Build, Recheck, UnloadPrevious,
              LoadNew, Verify, Rollback, Restore, CommandFails, Step
<1>4. CASE LoaderExits
  BY <1>4 DEF LoaderExits, Found, loaded, routingVars
<1>5. CASE RawEvent
  BY <1>5 DEF RawEvent, Heard
<1>6. CASE Summon
  BY <1>1, <1>6 DEF Summon, Ensure, loaded, routingVars
<1>7. CASE Meddle
  <2>1. CASE UnloadModule
    BY <1>2, <2>1 DEF UnloadModule
  <2>2. ASSUME NEW m \in Module, LoadModule(m) PROVE FALSE
    BY <2>2, LoadsAndUnloads, RoutingAssumption DEF loaded
  <2> QED BY <1>7, <2>1, <2>2 DEF Meddle
<1>8. CASE OverlayEnds \/ UNCHANGED moduleVars
  <2>1. module' = module /\ available' = available /\ excused' = excused /\ events' = events
    BY <1>8 DEF OverlayEnds, moduleVars, routingVars
  <2> QED BY <1>1, <2>1 DEF loaded
<1>9. CASE Keyboard
  <2>1. module' = module
    BY <1>9 DEF Keyboard, Press, Releasing, Release, Lock, Focus, Map, Unmap, Register
  <2> QED BY <1>1, <1>9, <2>1 DEF Keyboard, loaded
<1> QED BY <1>3, <1>4, <1>5, <1>6, <1>7, <1>8, <1>9 DEF ModuleNext

\* Ask never believes in a module that is gone and whose end it has heard of,
\* unless others meddled while manage.mjs was at work.
THEOREM BelievesTrue == ModuleSpec => []AvailableTruth
<1>1. ModuleInit => Found /\ AvailableTruth
  BY DEF ModuleInit, Found, AvailableTruth, Running
<1> QED BY <1>1, FoundStep, TruthStep, LoaderTyped, PTL DEF ModuleSpec

-----------------------------------------------------------------------------
(* The settings file and its writers.                                       *)

LEMMA SettingsTyped == SettingsSpec => []SettingsTypeOK
<1>1. SettingsInit => SettingsTypeOK
  <2>1. Empty \in Contents
    BY DEF Empty, Contents
  <2> SUFFICES ASSUME SettingsInit PROVE SettingsTypeOK
    OBVIOUS
  <2>2. disk \in Contents
    BY <2>1 DEF SettingsInit
  <2>3. "permission" \in Mode
    BY DEF Mode
  <2>4. /\ step \in [Bridge -> {"idle", "read", "open", "fill", "confirm"}]
        /\ wanted \in [Bridge -> Mode] /\ data \in [Bridge -> Contents]
    BY <2>1, <2>3 DEF SettingsInit
  <2>5. /\ fds \subseteq Bridge /\ changed \in BOOLEAN /\ settingsLoaded \in BOOLEAN
        /\ saving \in BOOLEAN /\ asked \in BOOLEAN /\ spoilt \in BOOLEAN /\ overtaken \in BOOLEAN
    BY DEF SettingsInit
  <2>6. acts \in 0..MaxUser
    BY SettingsAssumption DEF SettingsInit
  <2>7. /\ kept \in Contents /\ keptMode \in Mode /\ font \in Font
        /\ writing \in Contents \cup {Nothing} /\ text \in Contents \cup {Nothing}
    BY <2>1, <2>3, SettingsAssumption DEF SettingsInit
  <2> QED BY <2>2, <2>4, <2>5, <2>6, <2>7 DEF SettingsTypeOK
<1>2. SettingsTypeOK /\ [SettingsNext]_settingsVars => SettingsTypeOK'
  <2> SUFFICES ASSUME SettingsTypeOK, [SettingsNext]_settingsVars PROVE SettingsTypeOK'
    OBVIOUS
  <2> USE SettingsAssumption DEF SettingsTypeOK, bridgeVars, ghostVars
  <2>e. Empty \in Contents /\ \A c \in Contents : Ruin(c) \in Contents
    BY DEF Empty, Contents, Ruin
  <2>1. CASE Manager
    <3>1. CASE Flush
      <4>1. Merged \in Contents
        BY DEF Merged, Contents
      <4> QED BY <3>1, <4>1 DEF Flush
    <3>2. CASE WriteLands
      BY <3>2 DEF WriteLands, managerVars
    <3>3. CASE Reload
      BY <3>3 DEF Reload, Reread, managerVars
    <3>4. CASE ReadFile
      BY <3>4 DEF ReadFile, managerVars
    <3>5. CASE Loaded
      <4>1. text \in Contents /\ FontOf(text) \in Font
        BY <3>5 DEF Loaded, FontOf, Contents
      <4>2. keptMode' \in Mode
        BY <3>5 DEF Loaded, ModeOf, Mode
      <4> QED BY <3>5, <4>1, <4>2 DEF Loaded, Unsaved
    <3> QED BY <2>1, <3>1, <3>2, <3>3, <3>4, <3>5 DEF Manager
  <2>2. ASSUME NEW b \in Bridge, BridgeStep(b) PROVE SettingsTypeOK'
    <3>1. CASE BridgeReads(b)
      <4>1. WithMode(disk, wanted[b]) \in Contents
        BY DEF WithMode, Contents
      <4> QED BY <3>1, <4>1 DEF BridgeReads, managerVars
    <3>2. CASE Truncate(b)
      BY <3>2, <2>e DEF Truncate, managerVars
    <3>3. CASE Fill(b)
      BY <3>3, <2>e DEF Fill, managerVars
    <3>4. CASE Confirmed(b)
      <4>1. overtaken' \in BOOLEAN
        BY <3>4, Zenon DEF Confirmed
      <4> QED BY <3>4, <4>1 DEF Confirmed, Mode
    <3> QED BY <2>2, <3>1, <3>2, <3>3, <3>4 DEF BridgeStep
  <2>3. ASSUME NEW b \in Bridge, NEW mode \in Mode, Switch(b, mode) PROVE SettingsTypeOK'
    BY <2>3 DEF Switch, User, managerVars
  <2>4. ASSUME NEW f \in Font, SetFont(f) PROVE SettingsTypeOK'
    <3>1. saving' \in BOOLEAN
      <4>1. saving' \in {saving \/ settingsLoaded, TRUE}
        BY <2>4 DEF SetFont
      <4>2. (saving \/ settingsLoaded) \in BOOLEAN
        OBVIOUS
      <4> QED BY <4>1, <4>2
    <3> QED BY <2>4, <3>1 DEF SetFont, User
  <2>5. ASSUME NEW value \in Other, NEW size \in Font, Edit(value, size) PROVE SettingsTypeOK'
    <3>1. [disk EXCEPT !.other = value, !.font = size] \in Contents
      BY DEF Contents
    <3> QED BY <2>5, <3>1 DEF Edit, User, managerVars
  <2>6. CASE UNCHANGED settingsVars
    BY <2>6 DEF settingsVars, managerVars
  <2>7. ASSUME NEW b \in Bridge, Stops(b) PROVE SettingsTypeOK'
    <3>1. spoilt' \in BOOLEAN
      BY <2>7, Zenon DEF Stops
    <3> QED BY <2>7, <2>e, <3>1 DEF Stops, Mode, managerVars
  <2> QED BY <2>1, <2>2, <2>3, <2>4, <2>5, <2>6, <2>7 DEF SettingsNext
<1> QED BY <1>1, <1>2, PTL DEF SettingsSpec

\* A user without the unrelated fields never gets any: nobody writes them anew.
Never ==
  /\ disk.other = Absent /\ kept.other = Absent
  /\ writing # Nothing => writing.other = Absent
  /\ text # Nothing => text.other = Absent
  /\ \A b \in Bridge : data[b].other = Absent

\* Whoever is about to write or to remember the file has the unrelated fields,
\* as the file itself has them, or has a copy of its ruin.
Everywhere ==
  /\ disk.other # Absent
  /\ writing # Nothing => writing.other # Absent
  /\ text # Nothing => text.other # Absent
  /\ settingsLoaded => kept.other # Absent
  /\ \A b \in Bridge : step[b] \in {"open", "fill"} => data[b].other # Absent

\* Nobody is about to write a copy of a ruin, and none is left behind.
Sound ==
  /\ fds = {} => disk.other # Torn
  /\ writing # Nothing => writing.other # Torn
  /\ \A b \in Bridge : data[b].other # Torn

OtherKept == (Never \/ Everywhere) /\ (spoilt \/ Sound)

LEMMA OtherOf ==
  /\ Empty.other = Absent /\ Torn # Absent /\ Torn \notin Other /\ Absent \notin Other
  /\ \A c \in Contents : /\ Ruin(c).other = Absent <=> c.other = Absent
                         /\ \A mode \in Mode : WithMode(c, mode).other = c.other
  /\ kept \in Contents => Merged.other = kept.other
BY SettingsAssumption DEF Empty, Ruin, Contents, WithMode, Merged

LEMMA NeverStep ==
  ASSUME SettingsTypeOK, Never, [SettingsNext]_settingsVars
  PROVE  Never'
<1> USE OtherOf DEF Never, bridgeVars, SettingsTypeOK
<1>1. CASE Manager
  <2>1. CASE Flush
    BY <2>1 DEF Flush
  <2>2. CASE WriteLands
    BY <2>2 DEF WriteLands, managerVars
  <2>3. CASE Reload
    BY <2>3 DEF Reload, Reread, managerVars
  <2>4. CASE ReadFile
    BY <2>4 DEF ReadFile, managerVars
  <2>5. CASE Loaded
    BY <2>5 DEF Loaded
  <2> QED BY <1>1, <2>1, <2>2, <2>3, <2>4, <2>5 DEF Manager
<1>2. ASSUME NEW b \in Bridge, BridgeStep(b) PROVE Never'
  <2>1. CASE BridgeReads(b)
    BY <2>1 DEF BridgeReads, managerVars
  <2>2. CASE Truncate(b)
    BY <2>2 DEF Truncate, managerVars
  <2>3. CASE Fill(b)
    BY <2>3 DEF Fill, managerVars
  <2>4. CASE Confirmed(b)
    BY <2>4 DEF Confirmed
  <2> QED BY <1>2, <2>1, <2>2, <2>3, <2>4 DEF BridgeStep
<1>3. ASSUME NEW b \in Bridge, NEW mode \in Mode, Switch(b, mode) PROVE Never'
  BY <1>3 DEF Switch, managerVars
<1>4. ASSUME NEW f \in Font, SetFont(f) PROVE Never'
  BY <1>4 DEF SetFont
<1>5. ASSUME NEW value \in Other, NEW size \in Font, Edit(value, size) PROVE Never'
  BY <1>5 DEF Edit
<1>6. CASE UNCHANGED settingsVars
  BY <1>6 DEF settingsVars, managerVars
<1>7. ASSUME NEW b \in Bridge, Stops(b) PROVE Never'
  BY <1>7 DEF Stops, managerVars
<1> QED BY <1>1, <1>2, <1>3, <1>4, <1>5, <1>6, <1>7 DEF SettingsNext

LEMMA EverywhereStep ==
  ASSUME SettingsTypeOK, Everywhere, [SettingsNext]_settingsVars
  PROVE  Everywhere'
<1> USE OtherOf DEF Everywhere, bridgeVars, SettingsTypeOK
<1>1. CASE Manager
  <2>1. CASE Flush
    BY <2>1 DEF Flush, Saves
  <2>2. CASE WriteLands
    BY <2>2 DEF WriteLands, managerVars
  <2>3. CASE Reload
    BY <2>3 DEF Reload, Reread, managerVars
  <2>4. CASE ReadFile
    BY <2>4 DEF ReadFile, managerVars
  <2>5. CASE Loaded
    BY <2>5 DEF Loaded
  <2> QED BY <1>1, <2>1, <2>2, <2>3, <2>4, <2>5 DEF Manager
<1>2. ASSUME NEW b \in Bridge, BridgeStep(b) PROVE Everywhere'
  <2>1. CASE BridgeReads(b)
    BY <2>1 DEF BridgeReads, managerVars
  <2>2. CASE Truncate(b)
    BY <2>2 DEF Truncate, managerVars
  <2>3. CASE Fill(b)
    BY <2>3 DEF Fill, managerVars
  <2>4. CASE Confirmed(b)
    BY <2>4 DEF Confirmed
  <2> QED BY <1>2, <2>1, <2>2, <2>3, <2>4 DEF BridgeStep
<1>3. ASSUME NEW b \in Bridge, NEW mode \in Mode, Switch(b, mode) PROVE Everywhere'
  BY <1>3 DEF Switch, managerVars
<1>4. ASSUME NEW f \in Font, SetFont(f) PROVE Everywhere'
  BY <1>4 DEF SetFont
<1>5. ASSUME NEW value \in Other, NEW size \in Font, Edit(value, size) PROVE Everywhere'
  BY <1>5 DEF Edit, Contents, managerVars
<1>6. CASE UNCHANGED settingsVars
  BY <1>6 DEF settingsVars, managerVars
<1>7. ASSUME NEW b \in Bridge, Stops(b) PROVE Everywhere'
  BY <1>7 DEF Stops, managerVars
<1> QED BY <1>1, <1>2, <1>3, <1>4, <1>5, <1>6, <1>7 DEF SettingsNext

LEMMA SoundStep ==
  ASSUME SettingsTypeOK, spoilt \/ Sound, [SettingsNext]_settingsVars
  PROVE  spoilt' \/ Sound'
<1> USE OtherOf DEF Sound, bridgeVars, ghostVars, SettingsTypeOK
<1>1. CASE Manager
  <2>1. CASE Flush
    BY <2>1 DEF Flush, Saves
  <2>2. CASE WriteLands
    BY <2>2 DEF WriteLands, managerVars
  <2>3. CASE Reload
    BY <2>3 DEF Reload, Reread, managerVars
  <2>4. CASE ReadFile
    BY <2>4 DEF ReadFile, managerVars
  <2>5. CASE Loaded
    BY <2>5 DEF Loaded
  <2> QED BY <1>1, <2>1, <2>2, <2>3, <2>4, <2>5 DEF Manager
<1>2. ASSUME NEW b \in Bridge, BridgeStep(b) PROVE spoilt' \/ Sound'
  <2>1. CASE BridgeReads(b)
    BY <2>1 DEF BridgeReads, managerVars
  <2>2. CASE Truncate(b)
    BY <2>2 DEF Truncate, managerVars
  <2>3. CASE Fill(b)
    BY <2>3 DEF Fill, managerVars
  <2>4. CASE Confirmed(b)
    BY <2>4 DEF Confirmed
  <2> QED BY <1>2, <2>1, <2>2, <2>3, <2>4 DEF BridgeStep
<1>3. ASSUME NEW b \in Bridge, NEW mode \in Mode, Switch(b, mode) PROVE spoilt' \/ Sound'
  BY <1>3 DEF Switch, managerVars
<1>4. ASSUME NEW f \in Font, SetFont(f) PROVE spoilt' \/ Sound'
  BY <1>4 DEF SetFont
<1>5. ASSUME NEW value \in Other, NEW size \in Font, Edit(value, size) PROVE spoilt' \/ Sound'
  BY <1>5 DEF Edit, Contents, managerVars
<1>6. CASE UNCHANGED settingsVars
  BY <1>6 DEF settingsVars, managerVars
<1>7. ASSUME NEW b \in Bridge, Stops(b) PROVE spoilt' \/ Sound'
  BY <1>7 DEF Stops, managerVars
<1> QED BY <1>1, <1>2, <1>3, <1>4, <1>5, <1>6, <1>7 DEF SettingsNext

\* However the saves of the manager and of any number of bridges fall between
\* each other's reads and writes (flushSettings, savePermissionMode), wherever
\* bridges stop, and whatever the user edits, no save drops the fields that none
\* of them owns, and a ruined file is not left behind but in the three ways that
\* OtherSurvives names.
THEOREM UnrelatedSurvive == SettingsSpec => OtherSurvives
<1>1. SettingsInit => OtherKept
  <2> SUFFICES ASSUME SettingsInit PROVE OtherKept
    OBVIOUS
  <2>1. Sound
    BY OtherOf DEF SettingsInit, Sound
  <2>2. CASE disk = Empty
    BY OtherOf, <2>1, <2>2 DEF SettingsInit, OtherKept, Never
  <2>3. CASE disk # Empty
    BY OtherOf, <2>1, <2>3 DEF SettingsInit, OtherKept, Everywhere
  <2> QED BY <2>2, <2>3
<1>2. SettingsTypeOK /\ OtherKept /\ [SettingsNext]_settingsVars => OtherKept'
  BY NeverStep, EverywhereStep, SoundStep DEF OtherKept
<1>3. SettingsTypeOK /\ OtherKept /\ [SettingsNext]_settingsVars =>
        [/\ disk.other # Absent => disk'.other # Absent
         /\ disk'.other = Torn => fds' # {} \/ spoilt']_settingsVars
  <2> SUFFICES ASSUME SettingsTypeOK, OtherKept, [SettingsNext]_settingsVars
               PROVE  /\ disk.other # Absent => disk'.other # Absent
                      /\ disk'.other = Torn => fds' # {} \/ spoilt'
    OBVIOUS
  <2>1. disk.other # Absent => disk'.other # Absent
    BY EverywhereStep DEF OtherKept, Never, Everywhere
  <2>2. spoilt' \/ Sound'
    BY SoundStep DEF OtherKept
  <2> QED BY <2>1, <2>2 DEF Sound
<1> QED BY <1>1, <1>2, <1>3, SettingsTyped, PTL DEF SettingsSpec, OtherSurvives
=============================================================================
