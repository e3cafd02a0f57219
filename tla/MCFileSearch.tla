---------------------------- MODULE MCFileSearch ----------------------------
(***************************************************************************)
(* FileSearch for TLC. The configurations give the constants: small        *)
(* numbers of queries, mounts, lanes and paths.                            *)
(***************************************************************************)
EXTENDS FileSearch

\* The more relevant path is the older one.
NewerIsWorse == [p \in Path |-> p]

\* The view of the runs that check no liveness. What a snapshot shows matters
\* only while none is on its way; of the others, OnlyCurrentQuery reads the
\* generations. Once the search is closed nothing reads what was found. States
\* that differ in nothing else have the same future.
ShownNow ==
  IF emitTimer \/ closed
  THEN <<shown.gen, {f.gen : f \in shown.rows \cup shown.repos}>>
  ELSE <<shown>>

FindingsNow == IF closed THEN <<>> ELSE findingVars

Present ==
  <<laneVars, scanVars, queryVars, indexVars, incompleteVars, helpers, closed, emitTimer,
    FindingsNow, ShownNow>>

NoPath == {}
OnePath == {1}
TwoPaths == 1..2
=============================================================================
