----------------------------- MODULE MCAskWindows -----------------------------
\* Small instances of AskWindows: one conversation.
EXTENDS AskWindows
CONSTANT c1
OneConversation == {c1}
Windows == OneConversation \X {"panel", "window"}
Panels == OneConversation \X {"panel"}
Names == [v \in Windows |-> v[2]]
===============================================================================
