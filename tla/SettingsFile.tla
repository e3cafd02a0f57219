----------------------------- MODULE SettingsFile -----------------------------
(***************************************************************************)
(* ~/.config/omarchy/ask.json and its writers: the manager (Ask.qml, which *)
(* rewrites it atomically with what it knows), the bridge of each          *)
(* conversation (bridge.js, which rewrites it in place to save the mode)   *)
(* and the user's editor.                                                  *)
(*                                                                         *)
(* One action is one callback, one operation on the file or one await. Of  *)
(* the fields, `mode` is the bridge's, `font` stands for the manager's and *)
(* `other` for those that neither of them changes.                         *)
(***************************************************************************)
EXTENDS Integers

CONSTANTS
  Bridge,
  Font, DefaultFont,
  Other,            \* values of the unrelated fields
  Absent,           \* a field that is not there
  Torn,             \* the unrelated fields of a file that was truncated: not there
  Nothing,          \* nothing to write, nothing read
  MaxUser           \* what the user does (a bound)

ASSUME SettingsAssumption ==
  /\ DefaultFont \in Font /\ Absent \notin Font \cup Other /\ MaxUser \in Nat
  /\ Torn \notin Other \cup {Absent}

Mode == {"permission", "yolo"}
Contents ==
  [mode : Mode \cup {Absent}, font : Font \cup {Absent}, other : Other \cup {Absent, Torn}]

\* A file that is missing, empty or no JSON parses as no settings at all.
Empty == [mode |-> Absent, font |-> Absent, other |-> Absent]

\* What is left of a file that is truncated or garbled; Torn marks the copies of it.
Ruin(contents) ==
  [Empty EXCEPT !.other = IF contents.other = Absent THEN Absent ELSE Torn]

VARIABLES
  disk,             \* ask.json
  fds,              \* bridges that have truncated it and not filled it yet
  changed,          \* the manager has yet to hear that it changed
  settingsLoaded,
  kept, keptMode,   \* persistedSettings, persistedPermissionMode
  font,             \* fontScale
  saving,           \* settingsSaveTimer runs
  writing,          \* what setText is writing
  asked, text,      \* a reload is asked for; what it read
  step, wanted, data, \* of each bridge: its step, the mode to save, what it read
  spoilt,           \* see OtherSurvives (for the properties)
  overtaken,        \* see MemoryIsFile (for the properties)
  acts

managerVars == <<settingsLoaded, kept, keptMode, font, saving>>
bridgeVars == <<step, wanted, data>>
ghostVars == <<spoilt, overtaken>>
settingsVars == <<disk, fds, changed, managerVars, writing, asked, text, bridgeVars, ghostVars, acts>>

SettingsInit ==
  /\ disk \in {c \in Contents : c.other \in Other /\ c.font # Absent} \cup {Empty}
  /\ fds = {} /\ changed = FALSE
  /\ settingsLoaded = FALSE /\ kept = Empty /\ keptMode = "permission" /\ font = DefaultFont
  /\ saving = FALSE /\ writing = Nothing /\ asked = TRUE /\ text = Nothing
  /\ step = [b \in Bridge |-> "idle"] /\ wanted = [b \in Bridge |-> "permission"]
  /\ data = [b \in Bridge |-> Empty] /\ spoilt = FALSE /\ overtaken = FALSE /\ acts = 0

User == acts < MaxUser /\ acts' = acts + 1

\* setFontScale, setKeyboardMotion and setAgentdHub start the timer once the
\* settings are loaded, onAgentApplied always.
SetFont(f) ==
  /\ User /\ f # font /\ font' = f
  /\ saving' \in {saving \/ settingsLoaded, TRUE}
  /\ UNCHANGED <<disk, fds, changed, settingsLoaded, kept, keptMode, writing, asked, text,
                 bridgeVars, ghostVars>>

\* What the manager writes: all it has read, with its own fields.
Merged == [kept EXCEPT !.mode = keptMode, !.font = font]

Saves == settingsLoaded

\* flushSettings, on the timer.
Flush ==
  /\ saving /\ saving' = FALSE
  /\ IF Saves
     THEN kept' = Merged /\ writing' = Merged /\ spoilt' = (spoilt \/ kept.other = Torn)
     ELSE UNCHANGED <<kept, writing, spoilt>>
  /\ UNCHANGED <<disk, fds, changed, settingsLoaded, keptMode, font, asked, text, bridgeVars,
                 overtaken, acts>>

\* setText's write replaces the file; a bridge that has the old one open fills that.
WriteLands ==
  /\ writing # Nothing /\ writing' = Nothing
  /\ disk' = writing /\ fds' = {} /\ changed' = TRUE
  /\ UNCHANGED <<managerVars, asked, text, bridgeVars, ghostVars, acts>>

\* Mutant: a reload that is under way will do.
RereadUnlessReading == IF text = Nothing THEN asked' = TRUE /\ UNCHANGED text ELSE UNCHANGED <<asked, text>>

Reread == asked' = TRUE /\ text' = Nothing

\* onFileChanged: reload(), of Ask's own changes too.
Reload ==
  /\ changed /\ changed' = FALSE /\ Reread
  /\ UNCHANGED <<disk, fds, managerVars, writing, bridgeVars, ghostVars, acts>>

ReadFile ==
  /\ asked /\ asked' = FALSE /\ text' = disk
  /\ UNCHANGED <<disk, fds, changed, managerVars, writing, bridgeVars, ghostVars, acts>>

\* A save that waits still runs after the settings are read.
Unsaved == UNCHANGED saving

ModeOf(contents) == IF contents.mode = "yolo" THEN "yolo" ELSE "permission"
FontOf(contents) == IF contents.font = Absent THEN DefaultFont ELSE contents.font

\* loadSettings
Loaded ==
  /\ text # Nothing /\ text' = Nothing
  /\ settingsLoaded' = TRUE /\ kept' = text
  /\ keptMode' = ModeOf(text) /\ font' = FontOf(text) /\ overtaken' = FALSE
  /\ Unsaved
  /\ UNCHANGED <<disk, fds, changed, asked, writing, bridgeVars, spoilt, acts>>

\* The user switches the mode of a conversation, and its bridge has applied it.
Switch(b, mode) ==
  /\ User /\ step[b] = "idle"
  /\ step' = [step EXCEPT ![b] = "read"] /\ wanted' = [wanted EXCEPT ![b] = mode]
  /\ UNCHANGED <<disk, fds, changed, managerVars, writing, asked, text, data, ghostVars>>

\* Mutant: the file is replaced by the mode alone.
ModeAlone(contents, mode) == [Empty EXCEPT !.mode = mode]

WithMode(contents, mode) == [contents EXCEPT !.mode = mode]

\* savePermissionMode: readFile
BridgeReads(b) ==
  /\ step[b] = "read" /\ step' = [step EXCEPT ![b] = "open"]
  /\ data' = [data EXCEPT ![b] = WithMode(disk, wanted[b])]
  /\ spoilt' = (spoilt \/ disk.other = Torn)
  /\ UNCHANGED <<disk, fds, changed, managerVars, writing, asked, text, wanted, overtaken, acts>>

\* writeFile opens the file, which truncates it, ...
Truncate(b) ==
  /\ step[b] = "open" /\ step' = [step EXCEPT ![b] = "fill"]
  /\ disk' = Ruin(disk) /\ fds' = fds \cup {b} /\ changed' = TRUE
  /\ UNCHANGED <<managerVars, writing, asked, text, wanted, data, ghostVars, acts>>

\* Another bridge has filled the file meanwhile, with something else: what is
\* longer in it stays behind what b writes.
Overlaps(b) == disk \notin {Ruin(disk), data[b]}

\* ... and writes it from its start, if it is still that file.
Fill(b) ==
  /\ step[b] = "fill" /\ step' = [step EXCEPT ![b] = "confirm"]
  /\ \/ b \in fds /\ disk' = data[b] /\ UNCHANGED spoilt
     \/ b \in fds /\ Overlaps(b) /\ disk' = Ruin(data[b]) /\ spoilt' = TRUE
     \/ b \notin fds /\ UNCHANGED <<disk, spoilt>>
  /\ changed' = (changed \/ b \in fds) /\ fds' = fds \ {b}
  /\ data' = [data EXCEPT ![b] = Empty]
  /\ UNCHANGED <<managerVars, writing, asked, text, wanted, overtaken, acts>>

\* permissionModeConfirmed
Confirmed(b) ==
  /\ step[b] = "confirm" /\ step' = [step EXCEPT ![b] = "idle"]
  /\ keptMode' = wanted[b] /\ wanted' = [wanted EXCEPT ![b] = "permission"]
  /\ overtaken' = (wanted[b] # ModeOf(disk))
  /\ UNCHANGED <<disk, fds, changed, settingsLoaded, kept, font, saving, writing, asked, text,
                 data, spoilt, acts>>

\* The bridge exits (a shutdown does not wait for a save), or a step of the save
\* fails; another conversation may start in its place.
Stops(b) ==
  /\ step[b] # "idle" /\ step' = [step EXCEPT ![b] = "idle"]
  /\ wanted' = [wanted EXCEPT ![b] = "permission"] /\ data' = [data EXCEPT ![b] = Empty]
  /\ fds' = fds \ {b} /\ spoilt' = (spoilt \/ b \in fds)
  /\ UNCHANGED <<disk, changed, managerVars, writing, asked, text, overtaken, acts>>

\* The user edits fields of the file, "which is watched, so an edit applies
\* without a restart".
Edit(value, size) ==
  /\ User /\ fds = {} /\ disk.other \in Other
  /\ disk' = [disk EXCEPT !.other = value, !.font = size] /\ disk' # disk
  /\ changed' = TRUE
  /\ UNCHANGED <<fds, managerVars, writing, asked, text, bridgeVars, ghostVars>>

Manager == Flush \/ WriteLands \/ Reload \/ ReadFile \/ Loaded
BridgeStep(b) == BridgeReads(b) \/ Truncate(b) \/ Fill(b) \/ Confirmed(b)

SettingsNext ==
  \/ Manager
  \/ \E b \in Bridge : BridgeStep(b) \/ Stops(b) \/ (\E mode \in Mode : Switch(b, mode))
  \/ \E f \in Font : SetFont(f)
  \/ \E value \in Other, size \in Font : Edit(value, size)

\* The timer fires, and what is written, read or reported ends.
SettingsFairness ==
  /\ WF_settingsVars(Flush) /\ WF_settingsVars(WriteLands) /\ WF_settingsVars(Reload)
  /\ WF_settingsVars(ReadFile) /\ WF_settingsVars(Loaded)
  /\ \A b \in Bridge : WF_settingsVars(BridgeStep(b))

SettingsSpec == SettingsInit /\ [][SettingsNext]_settingsVars /\ SettingsFairness
-----------------------------------------------------------------------------
SettingsTypeOK ==
  /\ disk \in Contents /\ fds \subseteq Bridge /\ changed \in BOOLEAN
  /\ settingsLoaded \in BOOLEAN /\ kept \in Contents /\ keptMode \in Mode /\ font \in Font
  /\ saving \in BOOLEAN
  /\ writing \in Contents \cup {Nothing} /\ asked \in BOOLEAN /\ text \in Contents \cup {Nothing}
  /\ step \in [Bridge -> {"idle", "read", "open", "fill", "confirm"}]
  /\ wanted \in [Bridge -> Mode] /\ data \in [Bridge -> Contents]
  /\ spoilt \in BOOLEAN /\ overtaken \in BOOLEAN /\ acts \in 0..MaxUser

\* Nothing about the file is under way.
Quiet ==
  /\ settingsLoaded /\ ~saving /\ ~changed /\ writing = Nothing /\ ~asked /\ text = Nothing
  /\ \A b \in Bridge : step[b] = "idle"

\* "unrelated settings fields must survive an Ask settings save": no save of the
\* manager or of a bridge leaves them out, in whatever order these read and
\* write; and a file that nobody rewrites is no ruin of a truncated one, unless
\* (`spoilt`) a bridge stopped between truncation and rewrite, the rewrites of
\* two bridges overlapped, or the ruin was read and that copy saved. A ruin that
\* the manager reads and reads again before it saves does no harm.
OtherSurvives ==
  [][/\ disk.other # Absent => disk'.other # Absent
     /\ disk'.other = Torn => fds' # {} \/ spoilt']_settingsVars

\* Once the user stops, saves and reloads do not cause each other for ever, and
\* what the manager shows, and would write, is what the file says: a change that
\* it did not see, or one that it saw and overwrote, leaves no difference. Only
\* the mode may differ, if a bridge confirmed it after the manager had read that
\* the file says something else again (`overtaken`); the next save writes it.
MemoryIsFile ==
  <>[](/\ Quiet /\ kept = disk /\ (disk.font # Absent => font = disk.font)
       /\ keptMode = ModeOf(disk) \/ overtaken)
=============================================================================
