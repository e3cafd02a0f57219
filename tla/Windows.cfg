SPECIFICATION AskSpec
CONSTANTS
  c1 = c1
  Conversation <- OneConversation
  View <- Windows
  Overlay <- Panels
  Name <- Names
  Key = {}
  Chord = {escape}
  Module = {new}
  NoModule = none
  Elsewhere = elsewhere
  Nobody = nobody
  MaxAttempts = 2
  MaxUser = 4
  MaxOther = 1
INVARIANTS
  ShortcutsFollow
PROPERTIES
  NotStranded
  PinCompletes
CHECK_DEADLOCK FALSE
