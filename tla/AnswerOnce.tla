----------------------------- MODULE AnswerOnce -----------------------------
(***************************************************************************)
(* What a client of an index worker is promised (the callbacks onRows and  *)
(* onUnavailable of IndexWorker in bridge/file-search.js): only the latest *)
(* query is ever open, each query is answered at most once, with its own   *)
(* rows or with none, and a withdrawn query is never answered.             *)
(***************************************************************************)
EXTENDS Integers

CONSTANT MaxTokens

Token == 1..MaxTokens
None == 0

VARIABLES latest, pending, told, rowsFor
vars == <<latest, pending, told, rowsFor>>

Tell(before, S) == [t \in Token |-> before[t] + IF t \in S THEN 1 ELSE 0]

Init ==
  /\ latest = 0 /\ pending = None
  /\ told = [t \in Token |-> 0] /\ rowsFor = [t \in Token |-> None]

\* A new query: the one before is answered if it was still open; the new one
\* is open, or answered at once.
Ask ==
  /\ latest < MaxTokens
  /\ latest' = latest + 1
  /\ \/ pending' = latest' /\ told' = Tell(told, {pending})
     \/ pending' = None /\ told' = Tell(told, {pending, latest'})
  /\ UNCHANGED rowsFor

Answer ==
  /\ pending # None /\ pending' = None
  /\ told' = Tell(told, {pending})
  /\ rowsFor' = rowsFor \/ rowsFor' = [rowsFor EXCEPT ![pending] = pending]
  /\ UNCHANGED latest

Withdraw ==
  /\ pending # None /\ pending' = None
  /\ UNCHANGED <<latest, told, rowsFor>>

Next == Ask \/ Answer \/ Withdraw
Spec == Init /\ [][Next]_vars
=============================================================================
