---------------------------- MODULE MCAskSession ----------------------------
(***************************************************************************)
(* AskSession for TLC. The pipes need no bound of their own: the counters  *)
(* of prompts, steers, switches and permissions bound them.                *)
(***************************************************************************)
EXTENDS AskSession

(***************************************************************************)
(* The view of the runs whose properties are about permissions and modes.  *)
(* What was offered and clicked matters while a request is open, and not   *)
(* after; how it was decided matters in the step that decides it. No guard *)
(* and none of those properties reads more, so states that differ in       *)
(* nothing else have the same future.                                      *)
(***************************************************************************)
WhileOpen(f, none) == [r \in Permission |-> IF r \in open THEN f[r] ELSE none]

Present ==
  <<uiVars, toBridge, toUi, proc, saveVars, open, permissionSequence, left, workVars,
    agentModeVars, WhileOpen(offers, {}), WhileOpen(clicked, "none"), prompts, steered, toggles,
    sessions, aim>>
=============================================================================
