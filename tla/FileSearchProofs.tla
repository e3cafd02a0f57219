-------------------------- MODULE FileSearchProofs --------------------------
(***************************************************************************)
(* Theorems about FileSearch: type correctness, the accounting, the bounds *)
(* and the work conservation of the lanes; what a query keeps of what was  *)
(* found, what it says about its coverage and what the window is shown;    *)
(* for every number of queries, mounts, paths and lanes that the           *)
(* assumptions of FileSearch allow.                                        *)
(***************************************************************************)
EXTENDS FileSearch, FiniteSetTheorems, TLAPS

-----------------------------------------------------------------------------
(* Finite sets of sources and of live children.                             *)

\* A plan has finitely many possible sources.
LEMMA SourceFinite == IsFiniteSet(Source)
<1> DEFINE D == Partition \X BOOLEAN
           f == [d \in D |-> [part |-> d[1], repo |-> d[2]]]
<1>1. IsFiniteSet(Partition)
  BY FS_Interval, BoundsAssumption DEF Partition
<1>2. IsFiniteSet(BOOLEAN)
  <2>1. BOOLEAN = {TRUE} \cup {FALSE}
    OBVIOUS
  <2>2. IsFiniteSet({TRUE})
    BY FS_Singleton
  <2>3. QED BY <2>1, <2>2, FS_AddElement
<1>3. IsFiniteSet(D)
  BY <1>1, <1>2, FS_Product
<1>4. f \in Surjection(D, Source)
  <2>1. f \in [D -> Source]
    BY DEF Source
  <2>2. \A s \in Source : \E d \in D : f[d] = s
    <3> TAKE s \in Source
    <3>1. <<s.part, s.repo>> \in D /\ f[<<s.part, s.repo>>] = s
      BY DEF Source
    <3> QED BY <3>1
  <2> QED BY <2>1, <2>2 DEF Surjection
<1> QED BY <1>3, <1>4, FS_Surjection

\* The live children of a set of sources are finitely many.
LEMMA LiveFinite ==
  ASSUME NEW str, NEW K \in SUBSET Source
  PROVE  /\ IsFiniteSet(LiveIn(str, K))
         /\ Cardinality(LiveIn(str, K)) \in Nat
<1>1. IsFiniteSet(Gen)
  BY FS_Interval, BoundsAssumption DEF Gen
<1>2. IsFiniteSet(K)
  BY SourceFinite, FS_Subset
<1>3. IsFiniteSet(Gen \X K)
  BY <1>1, <1>2, FS_Product
<1>4. LiveIn(str, K) \in SUBSET (Gen \X K)
  BY DEF LiveIn
<1> QED BY <1>3, <1>4, FS_Subset, FS_CardinalityType

\* The children str2 are str and those of `run`, sources of the current query
\* that had none.
Started(str, str2, run) ==
  /\ run \in SUBSET Source
  /\ \A s \in run : str[generation][s] = "none"
  /\ \A j \in Gen, s \in Source :
       str2[j][s] # "none" <=> str[j][s] # "none" \/ (j = generation /\ s \in run)

\* Starting the children `run` of the current query adds exactly those to the live ones.
LEMMA LiveStart ==
  ASSUME NEW str, NEW str2, generation \in Gen,
         NEW K \in SUBSET Source, NEW run, Started(str, str2, run)
  PROVE  Cardinality(LiveIn(str2, K)) = Cardinality(LiveIn(str, K)) + Cardinality(run \cap K)
<1> DEFINE new == {generation} \X (run \cap K)
<1>1. LiveIn(str2, K) = LiveIn(str, K) \cup new
  BY DEF LiveIn, Started
<1>2. LiveIn(str, K) \cap new = {}
  BY DEF LiveIn, Started
<1>3. IsFiniteSet(run \cap K)
  BY SourceFinite, FS_Subset DEF Started
<1>4. IsFiniteSet({generation}) /\ Cardinality({generation}) = 1
  BY FS_Singleton
<1>5. IsFiniteSet(new) /\ Cardinality(new) = 1 * Cardinality(run \cap K)
  BY <1>3, <1>4, FS_Product
<1>6. Cardinality(run \cap K) \in Nat
  BY <1>3, FS_CardinalityType
<1>7. Cardinality(LiveIn(str, K) \cup new)
        = Cardinality(LiveIn(str, K)) + Cardinality(new) - Cardinality({})
  BY <1>2, <1>5, LiveFinite, FS_Union
<1>8. Cardinality({}) = 0
  BY FS_EmptySet
<1>9. Cardinality(LiveIn(str, K)) \in Nat
  BY LiveFinite
<1>10. Cardinality(new) = Cardinality(run \cap K)
  BY <1>5, <1>6
<1> HIDE DEF new
<1>11. Cardinality(LiveIn(str, K) \cup new)
         = Cardinality(LiveIn(str, K)) + Cardinality(run \cap K)
  BY <1>6, <1>7, <1>8, <1>9, <1>10
<1> QED BY <1>1, <1>11

\* The children str2 are str but the child of source s of query g.
Ended(str, str2, g, s) ==
  /\ g \in Gen /\ s \in Source /\ str[g][s] # "none"
  /\ \A j \in Gen, t \in Source :
       str2[j][t] # "none" <=> str[j][t] # "none" /\ <<j, t>> # <<g, s>>

\* Closing one child removes exactly that one from the live ones.
LEMMA LiveClose ==
  ASSUME NEW str, NEW str2, NEW g, NEW s, Ended(str, str2, g, s), NEW K \in SUBSET Source
  PROVE  Cardinality(LiveIn(str2, K))
           = IF s \in K THEN Cardinality(LiveIn(str, K)) - 1 ELSE Cardinality(LiveIn(str, K))
<1>1. LiveIn(str2, K) = LiveIn(str, K) \ {<<g, s>>}
  BY DEF LiveIn, Ended
<1>2. <<g, s>> \in LiveIn(str, K) <=> s \in K
  BY DEF LiveIn, Ended
<1>3. IsFiniteSet(LiveIn(str, K))
  BY LiveFinite
<1>4. Cardinality(LiveIn(str, K) \ {<<g, s>>})
        = IF <<g, s>> \in LiveIn(str, K) THEN Cardinality(LiveIn(str, K)) - 1
                                         ELSE Cardinality(LiveIn(str, K))
  BY <1>3, FS_RemoveElement
<1> QED BY <1>1, <1>2, <1>4

-----------------------------------------------------------------------------
(* Type correctness.                                                        *)

\* Removing lesser findings leaves findings.
LEMMA BestSubset == \A S, n : Best(S, n) \subseteq S
BY DEF Best

\* insertBounded invents nothing.
LEMMA MergedSubset == \A S, T : Merged(S, T) \subseteq S \cup T
BY BestSubset DEF Merged, Known

\* pump, called with well-typed values, leaves well-typed variables and takes
\* what it starts from the queue it was given.
LEMMA PumpTypes ==
  ASSUME NEW q \in SUBSET Source, NEW st \in [Source -> Status],
         NEW str \in [Gen -> [Source -> Stop]],
         NEW total \in Nat, NEW local \in Nat, NEW mounted \in Nat, NEW act \in Nat,
         NEW fileInc, NEW repoInc, NEW scheduled,
         TypeOK, generation \in Gen, generation' = generation,
         rows' \subseteq Finding, repos' \subseteq Finding,
         Pump(q, st, str, total, local, mounted, act, fileInc, repoInc, scheduled)
  PROVE  /\ queued' \subseteq q /\ status' \in [Source -> Status]
         /\ stream' \in [Gen -> [Source -> Stop]]
         /\ runningTotal' \in Nat /\ runningLocal' \in Nat /\ runningMounted' \in Nat
         /\ active' \in Nat
         /\ fileIncomplete' \in BOOLEAN /\ repoIncomplete' \in BOOLEAN
         /\ fileDone' \in BOOLEAN /\ repoDone' \in BOOLEAN
         /\ emitTimer' \in BOOLEAN /\ shown' \in Snapshots
<1>1. PICK A \in SUBSET q : \E F \in SUBSET A :
        PumpStarting(A, F, q, st, str, total, local, mounted, act, fileInc, repoInc, scheduled)
  BY DEF Pump
<1>2. PICK F \in SUBSET A :
        PumpStarting(A, F, q, st, str, total, local, mounted, act, fileInc, repoInc, scheduled)
  BY <1>1
<1> DEFINE run == A \ F
           loc == Cardinality(run \cap Local)
           mnt == Cardinality(run \cap Mounted)
<1>3. loc \in Nat /\ mnt \in Nat
  BY SourceFinite, FS_Subset, FS_CardinalityType DEF Local, Mounted
<1>4. queued' \subseteq q /\ status' \in [Source -> Status]
  BY <1>2 DEF PumpStarting, Status
<1>5. stream' \in [Gen -> [Source -> Stop]]
  BY <1>2 DEF PumpStarting, Stop
<1>6. /\ runningTotal' = total + loc + mnt /\ runningLocal' = local + loc
      /\ runningMounted' = mounted + mnt /\ active' = act + loc + mnt
  BY <1>2 DEF PumpStarting
<1>7. /\ runningTotal' \in Nat /\ runningLocal' \in Nat /\ runningMounted' \in Nat
      /\ active' \in Nat
  BY <1>3, <1>6
<1>8. /\ fileIncomplete' \in BOOLEAN /\ repoIncomplete' \in BOOLEAN
      /\ fileDone' \in BOOLEAN /\ repoDone' \in BOOLEAN /\ emitTimer' \in BOOLEAN
  BY <1>2 DEF PumpStarting, TypeOK
<1>9. shown' \in Snapshots
  <2>1. CASE shown' = shown
    BY <2>1 DEF TypeOK
  <2>2. CASE shown' = Snapshot(TRUE)'
    <3>1. generation' \in 0..MaxRequests
      BY DEF TypeOK
    <3>2. Best(rows, MaxResults)' \subseteq Finding /\ Best(repos, MaxResults)' \subseteq Finding
      BY DEF Best
    <3>3. FileComplete(TRUE)' \in BOOLEAN /\ RepoComplete(TRUE)' \in BOOLEAN
      BY DEF FileComplete, RepoComplete
    <3> QED BY <2>2, <3>1, <3>2, <3>3 DEF Snapshot, Snapshots
  <2> QED BY <1>2, <2>1, <2>2 DEF PumpStarting
<1> QED BY <1>4, <1>5, <1>7, <1>8, <1>9

\* The snapshot of a well-typed query is one of Snapshots.
LEMMA SnapshotType ==
  ASSUME TypeOK, NEW terminal \in BOOLEAN
  PROVE  Snapshot(terminal) \in Snapshots
<1>1. Best(rows, MaxResults) \subseteq Finding /\ Best(repos, MaxResults) \subseteq Finding
  BY BestSubset DEF TypeOK
<1>2. FileComplete(terminal) \in BOOLEAN /\ RepoComplete(terminal) \in BOOLEAN
  BY DEF FileComplete, RepoComplete
<1> QED BY <1>1, <1>2 DEF Snapshot, Snapshots, TypeOK

\* TypeOK is not inductive by itself: what the steps of a query do to
\* stream[generation] is typed only because a query has a generation.
\* And a startRequest at its await belongs to a query made before, to the
\* current one only while that is being planned.
Begun ==
  /\ generation = 0 <=> phase = "none"
  /\ \A g \in awaiting : g <= generation
  /\ generation \in awaiting => phase = "planning"

\* startRequest goes on for the current query.
LEMMA GoingOn ==
  ASSUME TypeOK, Begun, NEW g \in Gen, NEW M \in SUBSET (Partition \ {Base}), NEW R \in SUBSET M,
         NEW partial \in BOOLEAN, NEW refused \in BOOLEAN,
         StartSources(g, M, R, partial, refused)
  PROVE  /\ isCurrent(g) /\ g = generation /\ isCurrent(generation) /\ generation \in Gen
         /\ phase = "planning" /\ phase' = "scanning" /\ ~closed /\ closed' = closed
         /\ generation' = generation /\ awaiting' = awaiting \ {g}
         /\ UNCHANGED <<findingVars, generation, focused, answer, helpers, closed>>
         /\ answer["mountinfo"] = "failed" => partial
         /\ answer["mountinfo"] # "waiting"
<1>1. isCurrent(g) /\ g \in awaiting
  BY DEF StartSources, GoesOn, Planned
<1>2. g = generation /\ ~closed /\ phase = "planning"
  BY <1>1 DEF isCurrent, Begun
<1>3. phase' = "scanning"
  BY <1>1 DEF StartSources
<1>4. UNCHANGED <<findingVars, generation, focused, answer, helpers, closed>> /\ awaiting' = awaiting \ {g}
  BY DEF StartSources
<1>5. (answer["mountinfo"] = "failed" => partial) /\ answer["mountinfo"] # "waiting"
  BY <1>1 DEF StartSources, Planned
<1> QED BY <1>1, <1>2, <1>3, <1>4, <1>5

\* A step that is neither a request nor the start of the scans keeps the
\* query and its phase.
LEMMA QueryStep ==
  ASSUME [Next]_vars
  PROVE  \/ generation' = generation /\ phase' = phase /\ awaiting' \subseteq awaiting
         \/ \E short, focus \in BOOLEAN, ok \in SUBSET Helper : Request(short, focus, ok)
         \/ Starting
<1>1. CASE Settling
  BY <1>1 DEF Settling, HelperSettles
<1>2. CASE \E g \in Gen, h \in Helper : HelperReaped(g, h)
  BY <1>2 DEF HelperReaped, queryVars
<1>3. CASE \E g \in Gen, s \in Source : SourceFails(g, s)
  BY <1>3 DEF SourceFails, queryVars
<1>4. CASE \E g \in Gen, s \in Source : SourceTimesOut(g, s)
  BY <1>4 DEF SourceTimesOut, queryVars
<1>5. CASE \E s \in Source, p \in Path, dated \in BOOLEAN : AcceptRecord(s, p, dated)
  BY <1>5 DEF AcceptRecord, queryVars
<1>6. CASE \E g \in Gen, s \in Source : Closing(g, s)
  BY <1>6 DEF Closing, SourceCloses, queryVars
<1>7. CASE \E g \in Gen, w \in Worker, P \in SUBSET Path, ok \in BOOLEAN :
             IndexAnswers(g, w, P, ok)
  BY <1>7 DEF IndexAnswers, queryVars
<1>8. CASE EmitTimer
  BY <1>8 DEF EmitTimer, queryVars
<1>9. CASE Close
  BY <1>9 DEF Close, queryVars
<1>10. CASE UNCHANGED vars
  BY <1>10 DEF vars, queryVars
<1>11. CASE \E g \in Gen : Abandons(g)
  BY <1>11 DEF Abandons
<1> QED
  BY <1>1, <1>2, <1>3, <1>4, <1>5, <1>6, <1>7, <1>8, <1>9, <1>10, <1>11 DEF Next

\* Every variable keeps its type, and the query its generation.
THEOREM Typed == Spec => [](TypeOK /\ Begun)
<1>1. Init => TypeOK /\ Begun
  <2> SUFFICES ASSUME Init PROVE TypeOK /\ Begun
    OBVIOUS
  <2>1. /\ stream \in [Gen -> [Source -> Stop]] /\ status \in [Source -> Status]
        /\ answer \in [Helper -> Answer] /\ evidence \in [Source -> SUBSET Path]
    BY DEF Init, Stop, Status, Answer
  <2>2. shown \in Snapshots /\ generation \in 0..MaxRequests
    BY BoundsAssumption DEF Init, Snapshots
  <2>3. /\ runningTotal \in Nat /\ runningLocal \in Nat /\ runningMounted \in Nat
        /\ active \in Nat
    BY DEF Init
  <2> QED BY <2>1, <2>2, <2>3 DEF Init, TypeOK, Begun
<1>2. TypeOK /\ Begun /\ [Next]_vars => TypeOK'
  <2> SUFFICES ASSUME TypeOK, Begun, [Next]_vars PROVE TypeOK'
    OBVIOUS
  <2>1. ASSUME NEW short \in BOOLEAN, NEW focus \in BOOLEAN, NEW ok \in SUBSET Helper,
               Request(short, focus, ok)
        PROVE  TypeOK'
    <3>1. generation' \in Gen
      BY <2>1, BoundsAssumption DEF Request, TypeOK, Gen
    <3>2. stream' \in [Gen -> [Source -> Stop]]
      <4>1. CASE generation = 0
        BY <2>1, <4>1 DEF Request, TypeOK
      <4>2. CASE generation # 0
        BY <2>1, <4>2 DEF Request, TypeOK, Canceled, Stop
      <4> QED BY <4>1, <4>2
    <3>3. helpers' \subseteq Gen \X Helper /\ answer' \in [Helper -> Answer]
      BY <2>1, <3>1 DEF Request, TypeOK, Answer
    <3>4. shown' \in Snapshots
      <4>1. rows' = {} /\ repos' = {} /\ shown' = Snapshot(short)'
        BY <2>1 DEF Request
      <4>2. Best(rows, MaxResults)' \subseteq Finding /\ Best(repos, MaxResults)' \subseteq Finding
        BY <4>1 DEF Best
      <4>3. FileComplete(short)' \in BOOLEAN /\ RepoComplete(short)' \in BOOLEAN
        BY DEF FileComplete, RepoComplete
      <4> QED BY <4>1, <4>2, <4>3, <3>1 DEF Snapshot, Snapshots, Gen
    <3>5. phase' \in {"none", "short", "planning", "scanning"} /\ focused' \in BOOLEAN
      BY <2>1 DEF Request
    <3>6. plan' = {} /\ queued' = {} /\ active' = 0 /\ status' \in [Source -> Status]
          /\ evidence' \in [Source -> SUBSET Path] /\ rows' = {} /\ repos' = {}
      BY <2>1 DEF Request, FreshScans, Status
    <3>7. /\ planIncomplete' \in BOOLEAN /\ fileIncomplete' \in BOOLEAN
          /\ repoIncomplete' \in BOOLEAN /\ fileDone' \in BOOLEAN /\ repoDone' \in BOOLEAN
          /\ emitTimer' \in BOOLEAN /\ indexPending' \in BOOLEAN
          /\ indexUnavailable' \in BOOLEAN /\ capped' \in BOOLEAN /\ repoCapped' \in BOOLEAN
      BY <2>1 DEF Request
    <3>8. /\ UNCHANGED <<runningTotal, runningLocal, runningMounted, asked, closed>>
          /\ awaiting' \subseteq Gen /\ seen' = {} /\ seenRepos' = {}
      BY <2>1, <3>1 DEF Request, TypeOK
    <3> QED BY <3>1, <3>2, <3>3, <3>4, <3>5, <3>6, <3>7, <3>8 DEF TypeOK, Gen
  <2>2. ASSUME NEW h \in Helper, NEW v \in Answer, NEW e \in BOOLEAN, HelperSettles(h, v, e)
        PROVE  TypeOK'
    BY <2>2 DEF HelperSettles, TypeOK, Answer, laneVars, scanVars, indexVars, findingVars,
                incompleteVars
  <2>3. ASSUME NEW g \in Gen, NEW h \in Helper, HelperReaped(g, h)
        PROVE  TypeOK'
    BY <2>3 DEF HelperReaped, TypeOK, laneVars, scanVars, queryVars, indexVars, findingVars,
                incompleteVars
  <2>4. ASSUME NEW j \in Gen, NEW M \in SUBSET (Partition \ {Base}), NEW R \in SUBSET M,
               NEW partial \in BOOLEAN, NEW refused \in BOOLEAN,
               StartSources(j, M, R, partial, refused)
        PROVE  TypeOK'
    <3> DEFINE st == [s \in Source |-> IF s \in plan' THEN "queued" ELSE "absent"]
    <3>1. isCurrent(j) /\ generation \in Gen /\ generation' = generation
      BY <2>4, GoingOn
    <3>2. plan' \in SUBSET Source
      <4>1. plan' = [part : M \cup {Base}, repo : {FALSE}] \cup [part : R \cup {Base}, repo : {TRUE}]
        BY <2>4, <3>1 DEF StartSources
      <4>2. M \cup {Base} \subseteq Partition /\ R \cup {Base} \subseteq Partition
        BY BoundsAssumption DEF Partition, Base
      <4> HIDE DEF Source
      <4>3. \A x \in plan' : x \in Source
        BY <4>1, <4>2 DEF Source
      <4> QED BY <4>3
    <3>3. st \in [Source -> Status]
      BY DEF Status
    <3>4. UNCHANGED <<findingVars, generation, focused, answer, helpers, closed>>
      BY <2>4, GoingOn
    <3>5. Pump(plan', st, stream, runningTotal, runningLocal, runningMounted, 0,
               fileIncomplete, repoIncomplete, refused)
      BY <2>4, <3>1 DEF StartSources
    <3> HIDE DEF st
    <3>6. /\ queued' \subseteq plan' /\ status' \in [Source -> Status]
          /\ stream' \in [Gen -> [Source -> Stop]]
          /\ runningTotal' \in Nat /\ runningLocal' \in Nat /\ runningMounted' \in Nat
          /\ active' \in Nat
          /\ fileIncomplete' \in BOOLEAN /\ repoIncomplete' \in BOOLEAN
          /\ fileDone' \in BOOLEAN /\ repoDone' \in BOOLEAN
          /\ emitTimer' \in BOOLEAN /\ shown' \in Snapshots
      <4>1. rows' \subseteq Finding /\ repos' \subseteq Finding
        BY <3>4 DEF TypeOK, findingVars
      <4>2. /\ stream \in [Gen -> [Source -> Stop]]
            /\ runningTotal \in Nat /\ runningLocal \in Nat /\ runningMounted \in Nat
            /\ 0 \in Nat /\ fileIncomplete \in BOOLEAN /\ repoIncomplete \in BOOLEAN
        BY DEF TypeOK
      <4> QED BY <3>1, <3>2, <3>3, <3>5, <4>1, <4>2, PumpTypes
    <3>7. /\ phase' \in {"none", "short", "planning", "scanning"}
          /\ planIncomplete' \in BOOLEAN
          /\ indexPending' \in BOOLEAN /\ indexUnavailable' \in BOOLEAN
      <4>1. /\ phase' = "scanning" /\ planIncomplete' = (partial \/ answer["realpath"] # "ok")
            /\ indexPending' = (indexPending /\ ~refused)
            /\ indexUnavailable' = (indexUnavailable \/ refused)
        BY <2>4, <3>1 DEF StartSources
      <4>2. indexPending \in BOOLEAN /\ indexUnavailable \in BOOLEAN
        BY DEF TypeOK
      <4> QED BY <4>1, <4>2, Zenon
    <3>8. asked' \subseteq Gen \X Worker
      BY <2>4 DEF StartSources, TypeOK, Worker
    <3>9. awaiting' \subseteq Gen
      BY <2>4, GoingOn DEF TypeOK
    <3> QED BY <3>1, <3>2, <3>4, <3>6, <3>7, <3>8, <3>9 DEF TypeOK, findingVars
  <2>5. ASSUME NEW g \in Gen, NEW s \in Source, SourceFails(g, s)
        PROVE  TypeOK'
    BY <2>5 DEF SourceFails, TypeOK, Stop, scanVars, queryVars, indexVars, findingVars,
                incompleteVars
  <2>6. ASSUME NEW g \in Gen, NEW s \in Source, SourceTimesOut(g, s)
        PROVE  TypeOK'
    <3>1. /\ stream' \in [Gen -> [Source -> Stop]]
          /\ status' \in [Source -> Status]
          /\ fileIncomplete' \in BOOLEAN /\ repoIncomplete' \in BOOLEAN
          /\ emitTimer' \in BOOLEAN /\ shown' = shown
      BY <2>6 DEF SourceTimesOut, TypeOK, Stop, Status, SchedulePublish, incompleteVars
    <3> QED BY <2>6, <3>1 DEF SourceTimesOut, TypeOK, queryVars, indexVars, findingVars
  <2>7. ASSUME NEW s \in Source, NEW p \in Path, NEW dated \in BOOLEAN,
              AcceptRecord(s, p, dated)
        PROVE  TypeOK'
    <3>1. Found(generation, {p}, dated) \subseteq Finding
      BY <2>7 DEF AcceptRecord, isCurrent, Found, Finding, TypeOK, Begun, Gen
    <3>2. /\ rows' \subseteq Finding /\ repos' \subseteq Finding
          /\ capped' \in BOOLEAN /\ repoCapped' \in BOOLEAN
          /\ seen' \subseteq Finding /\ seenRepos' \subseteq Finding
      <4>1. CASE s.repo
        <5>1. repos' = Merged(repos, Found(generation, {p}, dated)) /\ rows' = rows /\ capped' = capped
          BY <2>7, <4>1 DEF AcceptRecord
        <5>2. /\ repoCapped' \in BOOLEAN /\ seen' = seen
              /\ seenRepos' = seenRepos \cup Found(generation, {p}, dated)
          BY <2>7, <4>1 DEF AcceptRecord
        <5>3. repos' \subseteq repos \cup Found(generation, {p}, dated)
          BY <5>1, MergedSubset
        <5> QED BY <3>1, <5>1, <5>2, <5>3 DEF TypeOK
      <4>2. CASE ~s.repo
        <5>1. rows' = Merged(rows, Found(generation, {p}, dated))
              /\ repos' = repos /\ repoCapped' = repoCapped
          BY <2>7, <4>2 DEF AcceptRecord
        <5>2. /\ capped' \in BOOLEAN /\ seenRepos' = seenRepos
              /\ seen' = seen \cup Found(generation, {p}, dated)
          BY <2>7, <4>2 DEF AcceptRecord
        <5>3. rows' \subseteq rows \cup Found(generation, {p}, dated)
          BY <5>1, MergedSubset
        <5> QED BY <3>1, <5>1, <5>2, <5>3 DEF TypeOK
      <4> QED BY <4>1, <4>2
    <3>3. evidence' \in [Source -> SUBSET Path]
      BY <2>7 DEF AcceptRecord, TypeOK
    <3> QED BY <2>7, <3>2, <3>3
         DEF AcceptRecord, TypeOK, SchedulePublish, laneVars, scanVars, queryVars, indexVars,
             incompleteVars
  <2>8. ASSUME NEW g \in Gen, NEW s \in Source, NEW terminal \in Status,
               SourceCloses(g, s, terminal)
        PROVE  TypeOK'
    <3> DEFINE str == [stream EXCEPT ![g][s] = "none"]
               total == AtLeast0(runningTotal - 1)
               local == IF s \in Local THEN AtLeast0(runningLocal - 1) ELSE runningLocal
               mounted == IF s \in Local THEN runningMounted ELSE AtLeast0(runningMounted - 1)
               own == isCurrent(g)
               broken == own /\ terminal \in {"timed-out", "failed"}
               st == IF own THEN [status EXCEPT ![s] = terminal] ELSE status
               act == IF own THEN AtLeast0(active - 1) ELSE active
               fi == fileIncomplete \/ (broken /\ ~s.repo)
               ri == repoIncomplete \/ (broken /\ s.repo)
    <3>1. UNCHANGED <<plan, queryVars, indexVars, findingVars, helpers, closed>>
      BY <2>8 DEF SourceCloses
    <3>2. str \in [Gen -> [Source -> Stop]] /\ st \in [Source -> Status]
      BY DEF TypeOK, Stop
    <3>3. total \in Nat /\ local \in Nat /\ mounted \in Nat /\ act \in Nat
      BY DEF TypeOK, AtLeast0
    <3>4. fi \in BOOLEAN /\ ri \in BOOLEAN /\ own \in BOOLEAN
      BY DEF isCurrent
    <3>5. CASE isCurrent(generation)
      <4>1. generation \in Gen
        BY <3>5 DEF TypeOK, Begun, Gen, isCurrent
      <4>2. Pump(queued, st, str, total, local, mounted, act, fi, ri, own)
        BY <2>8, <3>5 DEF SourceCloses
      <4>3. queued \in SUBSET Source
        BY DEF TypeOK
      <4> HIDE DEF str, total, local, mounted, own, broken, st, act, fi, ri
      <4>4. /\ queued' \subseteq queued /\ status' \in [Source -> Status]
            /\ stream' \in [Gen -> [Source -> Stop]]
            /\ runningTotal' \in Nat /\ runningLocal' \in Nat /\ runningMounted' \in Nat
            /\ active' \in Nat
            /\ fileIncomplete' \in BOOLEAN /\ repoIncomplete' \in BOOLEAN
            /\ fileDone' \in BOOLEAN /\ repoDone' \in BOOLEAN
            /\ emitTimer' \in BOOLEAN /\ shown' \in Snapshots
        <5>1. rows' \subseteq Finding /\ repos' \subseteq Finding /\ generation' = generation
          BY <3>1 DEF TypeOK, findingVars, queryVars
        <5> QED BY <3>2, <3>3, <3>4, <4>1, <4>2, <4>3, <5>1, PumpTypes
      <4> QED BY <3>1, <4>4 DEF TypeOK, findingVars, queryVars, indexVars
    <3>6. CASE ~isCurrent(generation)
      <4> HIDE DEF total, local, mounted, own, broken, st, act, fi, ri
      <4>1. /\ stream' = str /\ runningTotal' = total
            /\ runningLocal' = local /\ runningMounted' = mounted
            /\ UNCHANGED <<queued, active, status, fileDone, repoDone, incompleteVars,
                           emitTimer, shown>>
        BY <2>8, <3>6 DEF SourceCloses, total, local, mounted
      <4> HIDE DEF str
      <4> QED BY <3>1, <3>2, <3>3, <4>1
           DEF TypeOK, findingVars, queryVars, indexVars, incompleteVars
    <3> QED BY <3>5, <3>6
  <2>9. ASSUME NEW g \in Gen, NEW w \in Worker, NEW P \in SUBSET Path, NEW ok \in BOOLEAN,
               IndexAnswers(g, w, P, ok)
        PROVE  TypeOK'
    <3>1. /\ rows' \subseteq Finding /\ seen' \subseteq Finding /\ capped' \in BOOLEAN
          /\ indexPending' \in BOOLEAN /\ indexUnavailable' \in BOOLEAN
          /\ emitTimer' \in BOOLEAN /\ shown' = shown
      <4>1. CASE isCurrent(g)
        <5>1. Found(g, P, TRUE) \subseteq Finding
          BY <4>1 DEF Found, Finding, isCurrent
        <5>2. rows' = Merged(rows, Found(g, P, TRUE))
          BY <2>9, <4>1 DEF IndexAnswers
        <5>3. rows' \subseteq Finding
          <6>1. rows' \subseteq rows \cup Found(g, P, TRUE)
            BY <5>2, MergedSubset
          <6> QED BY <5>1, <6>1 DEF TypeOK
        <5>4. /\ seen' = seen \cup Found(g, P, TRUE)
              /\ capped' \in BOOLEAN /\ indexPending' \in BOOLEAN
              /\ indexUnavailable' \in BOOLEAN /\ emitTimer' \in BOOLEAN /\ shown' = shown
          BY <2>9, <4>1 DEF IndexAnswers, SchedulePublish
        <5>5. seen' \subseteq Finding
          BY <5>1, <5>4 DEF TypeOK
        <5> QED BY <5>3, <5>4, <5>5
      <4>2. CASE ~isCurrent(g)
        BY <2>9, <4>2 DEF IndexAnswers, TypeOK
      <4> QED BY <4>1, <4>2
    <3> QED BY <2>9, <3>1
         DEF IndexAnswers, TypeOK, laneVars, scanVars, queryVars, incompleteVars
  <2>10. CASE EmitTimer
    <3>1. shown' \in Snapshots /\ emitTimer' \in BOOLEAN
      BY <2>10, SnapshotType DEF EmitTimer
    <3>2. UNCHANGED <<laneVars, scanVars, queryVars, indexVars, findingVars, incompleteVars,
                      helpers, closed>>
      BY <2>10 DEF EmitTimer
    <3> QED BY <3>1, <3>2
         DEF TypeOK, laneVars, scanVars, queryVars, indexVars, findingVars, incompleteVars
  <2>11. CASE Close
    <3>1. stream' \in [Gen -> [Source -> Stop]]
      BY <2>11 DEF Close, TypeOK, Canceled, Stop
    <3>2. closed' \in BOOLEAN /\ queued' \subseteq plan' /\ emitTimer' \in BOOLEAN
      BY <2>11 DEF Close
    <3>3. UNCHANGED <<runningTotal, runningLocal, runningMounted, plan, active, status,
                      fileDone, repoDone, helpers, shown>>
      BY <2>11 DEF Close
    <3>4. UNCHANGED <<queryVars, indexVars, findingVars, incompleteVars>>
      BY <2>11 DEF Close
    <3> QED BY <3>1, <3>2, <3>3, <3>4
         DEF TypeOK, queryVars, indexVars, findingVars, incompleteVars
  <2>12. CASE UNCHANGED vars
    BY <2>12 DEF vars, TypeOK, laneVars, scanVars, queryVars, indexVars, findingVars,
                 incompleteVars
  <2>13. ASSUME NEW g \in Gen, Abandons(g)
         PROVE  TypeOK'
    BY <2>13 DEF Abandons, TypeOK, laneVars, scanVars, indexVars, findingVars, incompleteVars
  <2> QED BY <2>1, <2>2, <2>3, <2>4, <2>5, <2>6, <2>7, <2>8, <2>9, <2>10, <2>11, <2>12, <2>13
       DEF Next, Settling, Starting, Closing
<1>3. TypeOK /\ Begun /\ [Next]_vars => Begun'
  <2> SUFFICES ASSUME TypeOK, Begun, [Next]_vars PROVE Begun'
    OBVIOUS
  <2>1. CASE generation' = generation /\ phase' = phase /\ awaiting' \subseteq awaiting
    BY <2>1 DEF Begun
  <2>2. CASE \E short, focus \in BOOLEAN, ok \in SUBSET Helper : Request(short, focus, ok)
    BY <2>2 DEF Begun, Request, TypeOK, Gen
  <2>3. ASSUME NEW j \in Gen, NEW M \in SUBSET (Partition \ {Base}), NEW R \in SUBSET M,
               NEW partial \in BOOLEAN, NEW refused \in BOOLEAN,
               StartSources(j, M, R, partial, refused)
        PROVE  Begun'
    <3>1. /\ j = generation /\ generation' = generation /\ phase' = "scanning"
          /\ awaiting' = awaiting \ {j}
      BY <2>3, GoingOn
    <3>2. generation # 0 /\ \A g \in awaiting' : g <= generation
      BY <3>1, GoingOn, <2>3 DEF Begun
    <3> QED BY <3>1, <3>2 DEF Begun
  <2>4. Starting => Begun'
    BY <2>3 DEF Starting
  <2> QED BY <2>1, <2>2, <2>4, QueryStep
<1> QED BY <1>1, <1>2, <1>3, PTL DEF Spec

\* FileSearch: every variable keeps its type.
THEOREM TypeCorrect == Spec => []TypeOK
BY Typed, PTL
-----------------------------------------------------------------------------
(* The lanes.                                                               *)

\* What a query leaves to the lanes: later queries have no children; the
\* queue holds sources without a child, is empty before the scans start, and
\* after close().
QueueShape ==
  /\ \A g \in Gen : g > generation => \A s \in Source : stream[g][s] = "none"
  /\ generation \in Gen => \A s \in queued : stream[generation][s] = "none"
  /\ phase # "scanning" => /\ queued = {}
                           /\ generation \in Gen => LiveOf(generation) = {}
  /\ closed => queued = {}

\* The counters, as LaneAccounting and LaneBounds have them.
Counters ==
  /\ LaneAccounting
  /\ runningLocal <= MaxLocal /\ runningMounted <= MaxMounted

\* The initial state has no children, and no child is live in it.
LEMMA NothingLive ==
  ASSUME NEW str, NEW K \in SUBSET Source, \A g \in Gen, s \in K : str[g][s] = "none"
  PROVE  Cardinality(LiveIn(str, K)) = 0
<1>1. LiveIn(str, K) = {}
  BY DEF LiveIn
<1> QED BY <1>1, FS_EmptySet

\* A subset of the sources, and its local part, are finite.
LEMMA SourceSubset ==
  ASSUME NEW S \in SUBSET Source
  PROVE  IsFiniteSet(S) /\ Cardinality(S) \in Nat
BY SourceFinite, FS_Subset, FS_CardinalityType

\* LiveStart, for the children of the query itself.
LEMMA LiveStartOf ==
  ASSUME NEW str, NEW str2, generation \in Gen, NEW run, Started(str, str2, run)
  PROVE  Cardinality(LiveAt(str2, generation))
           = Cardinality(LiveAt(str, generation)) + Cardinality(run)
<1> DEFINE old == LiveAt(str, generation)
<1>1. LiveAt(str2, generation) = old \cup run
  BY DEF LiveAt, Started
<1>2. old \cap run = {}
  BY DEF LiveAt, Started
<1>. old \in SUBSET Source /\ run \in SUBSET Source
  BY DEF LiveAt, Started
<1>3. IsFiniteSet(old) /\ IsFiniteSet(run) /\ Cardinality(old) \in Nat /\ Cardinality(run) \in Nat
  BY SourceSubset
<1> HIDE DEF old
<1>4. Cardinality(old \cup run) = Cardinality(old) + Cardinality(run) - Cardinality({})
  BY <1>2, <1>3, FS_Union
<1>5. Cardinality({}) = 0
  BY FS_EmptySet
<1>6. Cardinality(old \cup run) = Cardinality(old) + Cardinality(run)
  BY <1>3, <1>4, <1>5
<1> QED BY <1>1, <1>6 DEF old

\* pump, called with counters that count the live children and a queue of
\* sources without a child, leaves counters that count them, within the
\* bounds, and a source waiting only behind full lanes.
LEMMA PumpLanes ==
  ASSUME NEW q \in SUBSET Source, NEW st,
         NEW str \in [Gen -> [Source -> Stop]],
         NEW total, NEW local, NEW mounted, NEW act, NEW fileInc, NEW repoInc, NEW scheduled,
         generation \in Gen, generation' = generation,
         \A s \in q : str[generation][s] = "none",
         local = Cardinality(LiveIn(str, Local)), mounted = Cardinality(LiveIn(str, Mounted)),
         total = local + mounted, local <= MaxLocal, mounted <= MaxMounted,
         act = Cardinality(LiveAt(str, generation)),
         Pump(q, st, str, total, local, mounted, act, fileInc, repoInc, scheduled)
  PROVE  /\ queued' \subseteq q
         /\ q = {} => stream' = str
         /\ \A g \in Gen : g # generation => stream'[g] = str[g]
         /\ \A s \in queued' : stream'[generation][s] = "none"
         /\ runningLocal' = Cardinality(LiveIn(stream', Local))
         /\ runningMounted' = Cardinality(LiveIn(stream', Mounted))
         /\ runningTotal' = runningLocal' + runningMounted'
         /\ runningLocal' <= MaxLocal /\ runningMounted' <= MaxMounted
         /\ active' = Cardinality(LiveAt(stream', generation))
         /\ queued' \cap Local # {} => runningLocal' >= MaxLocal
         /\ queued' \cap Mounted # {} => runningMounted' >= MaxMounted
<1>1. PICK A \in SUBSET q : \E F \in SUBSET A :
        PumpStarting(A, F, q, st, str, total, local, mounted, act, fileInc, repoInc, scheduled)
  BY DEF Pump
<1>2. PICK F \in SUBSET A :
        PumpStarting(A, F, q, st, str, total, local, mounted, act, fileInc, repoInc, scheduled)
  BY <1>1
<1> DEFINE run == A \ F
           loc == Cardinality(run \cap Local)
           mnt == Cardinality(run \cap Mounted)
           roomL == Lesser(MaxLocal - local, MaxConcurrent - total)
           roomM == Lesser(MaxMounted - mounted, MaxConcurrent - total - loc)
<1>3. /\ Starts(q \cap Local, roomL, A \cap Local, F \cap Local)
      /\ Starts(q \cap Mounted, roomM, A \cap Mounted, F \cap Mounted)
  BY <1>2 DEF PumpStarting
<1>4. /\ queued' = q \ A
      /\ stream' = [str EXCEPT ![generation] =
                      [s \in Source |-> IF s \in run THEN "running" ELSE @[s]]]
      /\ runningTotal' = total + loc + mnt /\ runningLocal' = local + loc
      /\ runningMounted' = mounted + mnt /\ active' = act + loc + mnt
  BY <1>2 DEF PumpStarting
<1>5. Local \in SUBSET Source /\ Mounted \in SUBSET Source
  BY DEF Local, Mounted
<1>6. /\ local \in Nat /\ mounted \in Nat /\ act \in Nat /\ loc \in Nat /\ mnt \in Nat
      /\ IsFiniteSet(q)
  <2>1. LiveAt(str, generation) \in SUBSET Source /\ run \in SUBSET Source
    BY DEF LiveAt
  <2> QED BY <1>5, <2>1, LiveFinite, SourceSubset
<1>7. /\ MaxLocal \in Nat /\ MaxMounted \in Nat /\ MaxConcurrent \in Nat
      /\ MaxLocal + MaxMounted <= MaxConcurrent
  BY LaneAssumption
<1>8. roomL = MaxLocal - local /\ roomL \in Nat
  BY <1>6, <1>7 DEF Lesser
<1>9. loc <= MaxLocal - local /\ (queued' \cap Local # {} => loc = MaxLocal - local)
  <2> HIDE DEF roomL
  <2>1. (A \cap Local) \ (F \cap Local) = (A \ F) \cap Local
    OBVIOUS
  <2>2. (q \ A) \cap Local # {} => A \cap Local # q \cap Local
    OBVIOUS
  <2>3. /\ Cardinality((A \ F) \cap Local) <= roomL
        /\ (q \ A) \cap Local # {} => Cardinality((A \ F) \cap Local) = roomL
    BY <1>3, <2>1, <2>2 DEF Starts
  <2> QED BY <2>3, <1>4, <1>8
<1> HIDE DEF mnt, run
<1>10. roomM = MaxMounted - mounted /\ roomM \in Nat
  BY <1>6, <1>7, <1>9 DEF Lesser
<1>11. mnt <= MaxMounted - mounted /\ (queued' \cap Mounted # {} => mnt = MaxMounted - mounted)
  <2> HIDE DEF roomM
  <2>1. (A \cap Mounted) \ (F \cap Mounted) = (A \ F) \cap Mounted
    OBVIOUS
  <2>2. (q \ A) \cap Mounted # {} => A \cap Mounted # q \cap Mounted
    OBVIOUS
  <2>3. /\ Cardinality((A \ F) \cap Mounted) <= roomM
        /\ (q \ A) \cap Mounted # {} => Cardinality((A \ F) \cap Mounted) = roomM
    BY <1>3, <2>1, <2>2 DEF Starts
  <2> QED BY <2>3, <1>4, <1>10 DEF mnt, run
<1>12. run \in SUBSET Source /\ \A s \in run : str[generation][s] = "none"
  BY DEF run
<1>13. /\ Cardinality(LiveIn(stream', Local)) = local + loc
       /\ Cardinality(LiveIn(stream', Mounted)) = mounted + mnt
  <2>1. Started(str, stream', run)
    BY <1>4, <1>12 DEF Started
  <2>2. \A K \in SUBSET Source : Cardinality(LiveIn(stream', K))
             = Cardinality(LiveIn(str, K)) + Cardinality(run \cap K)
    BY <2>1, LiveStart
  <2> QED BY <2>2, <1>5 DEF loc, mnt
<1>14. Cardinality(run) = loc + mnt
  <2>1. /\ run = (run \cap Local) \cup (run \cap Mounted)
        /\ (run \cap Local) \cap (run \cap Mounted) = {}
    BY <1>12 DEF Mounted
  <2>2. IsFiniteSet(run \cap Local) /\ IsFiniteSet(run \cap Mounted)
    BY <1>12, SourceSubset
  <2>3. Cardinality((run \cap Local) \cup (run \cap Mounted)) = loc + mnt - Cardinality({})
    BY <2>1, <2>2, FS_Union DEF loc, mnt
  <2>4. Cardinality({}) = 0
    BY FS_EmptySet
  <2>5. Cardinality((run \cap Local) \cup (run \cap Mounted)) = loc + mnt
    BY <2>3, <2>4, <1>6
  <2> QED BY <2>1, <2>5
<1>15. active' = Cardinality(LiveAt(stream', generation))
  <2>1. Cardinality(LiveAt(stream', generation)) = act + Cardinality(run)
    <3>1. Started(str, stream', run)
      BY <1>4, <1>12 DEF Started
    <3> QED BY <3>1, LiveStartOf
  <2> QED BY <2>1, <1>4, <1>6, <1>14
<1>16. queued' \subseteq q /\ \A g \in Gen : g # generation => stream'[g] = str[g]
  BY <1>4
<1>17. \A s \in queued' : stream'[generation][s] = "none"
  BY <1>4 DEF run
<1>18. /\ runningLocal' = Cardinality(LiveIn(stream', Local))
       /\ runningMounted' = Cardinality(LiveIn(stream', Mounted))
       /\ runningTotal' = runningLocal' + runningMounted'
  BY <1>4, <1>6, <1>13
<1>19. runningLocal' <= MaxLocal /\ (queued' \cap Local # {} => runningLocal' >= MaxLocal)
  BY <1>4, <1>6, <1>7, <1>9
<1>20. runningMounted' <= MaxMounted /\ (queued' \cap Mounted # {} => runningMounted' >= MaxMounted)
  BY <1>4, <1>6, <1>7, <1>11
<1>21. q = {} => stream' = str
  BY <1>4 DEF run
<1> QED BY <1>15, <1>16, <1>17, <1>18, <1>19, <1>20, <1>21

\* The children that live on when one of them closes: LiveClose, for LiveAt.
LEMMA LiveCloseAt ==
  ASSUME NEW str, NEW str2, NEW g, NEW s, Ended(str, str2, g, s), NEW n \in Gen
  PROVE  Cardinality(LiveAt(str2, n))
           = IF g = n THEN Cardinality(LiveAt(str, n)) - 1 ELSE Cardinality(LiveAt(str, n))
<1>1. LiveAt(str, n) \in SUBSET Source
  BY DEF LiveAt
<1>2. IsFiniteSet(LiveAt(str, n))
  BY <1>1, SourceSubset
<1>3. CASE g = n
  <2>1. LiveAt(str2, n) = LiveAt(str, n) \ {s}
    BY <1>3 DEF LiveAt, Ended
  <2>2. s \in LiveAt(str, n)
    BY <1>3 DEF LiveAt, Ended
  <2> QED BY <1>2, <1>3, <2>1, <2>2, FS_RemoveElement
<1>4. CASE g # n
  <2>1. LiveAt(str2, n) = LiveAt(str, n)
    BY <1>4 DEF LiveAt, Ended
  <2> QED BY <1>4, <2>1
<1> QED BY <1>3, <1>4

\* What a step must keep for the lanes, besides the types.
Lanes == QueueShape /\ Counters /\ NoIdleLane

\* A step that marks children without ending or starting one, and keeps the
\* counters and the queue of an open query, keeps the lanes as they are.
LEMMA LanesMarked ==
  ASSUME Lanes, TypeOK, Begun,
         \A g \in Gen, s \in Source : stream'[g][s] = "none" <=> stream[g][s] = "none",
         UNCHANGED <<runningTotal, runningLocal, runningMounted, queued, active,
                     generation, phase, closed>>
  PROVE  Lanes'
<1>1. Local \in SUBSET Source /\ Mounted \in SUBSET Source
  BY DEF Local, Mounted
<1>2. LiveIn(stream', Local) = LiveIn(stream, Local)
      /\ LiveIn(stream', Mounted) = LiveIn(stream, Mounted)
  BY <1>1 DEF LiveIn
<1>3. generation \in Gen => LiveAt(stream', generation) = LiveAt(stream, generation)
  BY DEF LiveAt
<1>4. queued \subseteq Source
  BY DEF TypeOK
<1>5. QueueShape'
  BY <1>3, <1>4 DEF Lanes, QueueShape, LiveOf
<1>6. Counters'
  <2>1. isCurrent(generation)' => active' = Cardinality(LiveOf(generation))'
    <3>1. CASE generation \in Gen
      BY <1>3, <3>1 DEF Lanes, Counters, LaneAccounting, isCurrent, LiveOf
    <3>2. CASE generation \notin Gen
      BY <3>2 DEF Begun, TypeOK, Gen, isCurrent
    <3> QED BY <3>1, <3>2
  <2> QED BY <1>2, <2>1 DEF Lanes, Counters, LaneAccounting, LiveLocal, LiveMounted
<1>7. NoIdleLane'
  BY <1>2 DEF Lanes, NoIdleLane, LiveLocal, LiveMounted
<1> QED BY <1>5, <1>6, <1>7 DEF Lanes

\* No step of the coordinator breaks the lanes.
LEMMA LanesStep ==
  ASSUME TypeOK, Begun, TypeOK', Begun', Lanes, [Next]_vars
  PROVE  Lanes'
<1> USE DEF Base
<1> DEFINE same == UNCHANGED <<runningTotal, runningLocal, runningMounted, queued, active,
                               generation, phase, closed>>
<1>0. Local \in SUBSET Source /\ Mounted \in SUBSET Source
  BY DEF Local, Mounted
<1>1. ASSUME NEW short \in BOOLEAN, NEW focus \in BOOLEAN, NEW ok \in SUBSET Helper,
             Request(short, focus, ok)
      PROVE  Lanes'
  <2>1. generation' = generation + 1 /\ generation' \in Gen /\ generation \in Nat
    BY <1>1, BoundsAssumption DEF Request, TypeOK, Gen
  <2>2. \A g \in Gen, s \in Source : stream'[g][s] = "none" <=> stream[g][s] = "none"
    <3>1. CASE generation = 0
      BY <1>1, <3>1 DEF Request
    <3>2. CASE generation # 0
      <4>1. generation \in Gen
        BY <3>2, BoundsAssumption DEF TypeOK, Gen
      <4>2. stream' = [stream EXCEPT ![generation] = [s \in Source |-> Canceled(@[s])]]
        BY <1>1, <3>2 DEF Request
      <4>3. \A s \in Source : Canceled(stream[generation][s]) = "none"
                              <=> stream[generation][s] = "none"
        BY DEF Canceled
      <4> QED BY <4>1, <4>2, <4>3 DEF TypeOK
    <3> QED BY <3>1, <3>2
  <2>3. /\ queued' = {} /\ active' = 0
        /\ UNCHANGED <<runningTotal, runningLocal, runningMounted, closed>>
    BY <1>1 DEF Request, FreshScans
  <2>4. \A g \in Gen : g > generation => \A s \in Source : stream'[g][s] = "none"
    BY <2>2 DEF Lanes, QueueShape
  <2>5. LiveAt(stream', generation') = {}
    BY <2>1, <2>4 DEF LiveAt
  <2>6. QueueShape'
    BY <2>1, <2>3, <2>4, <2>5 DEF QueueShape, Gen, LiveOf, TypeOK
  <2>7. LiveIn(stream', Local) = LiveIn(stream, Local)
        /\ LiveIn(stream', Mounted) = LiveIn(stream, Mounted)
    BY <1>0, <2>2 DEF LiveIn
  <2>8. Cardinality({}) = 0
    BY FS_EmptySet
  <2>9. Counters'
    BY <2>3, <2>5, <2>7, <2>8 DEF Lanes, Counters, LaneAccounting, LiveLocal, LiveMounted, LiveOf
  <2>10. NoIdleLane'
    BY <2>3 DEF NoIdleLane
  <2> QED BY <2>6, <2>9, <2>10 DEF Lanes
<1>2. CASE Settling
  <2>1. same /\ stream' = stream
    BY <1>2 DEF Settling, HelperSettles, laneVars, scanVars
  <2> QED BY <2>1, LanesMarked
<1>3. ASSUME NEW g \in Gen, NEW h \in Helper, HelperReaped(g, h) PROVE Lanes'
  <2>1. same /\ stream' = stream
    BY <1>3 DEF HelperReaped, laneVars, scanVars, queryVars
  <2> QED BY <2>1, LanesMarked
<1>4. ASSUME NEW j \in Gen, NEW M \in SUBSET (Partition \ {Base}), NEW R \in SUBSET M,
             NEW partial \in BOOLEAN, NEW refused \in BOOLEAN,
             StartSources(j, M, R, partial, refused)
      PROVE  Lanes'
  <2> DEFINE st == [s \in Source |-> IF s \in plan' THEN "queued" ELSE "absent"]
  <2>1. /\ phase = "planning" /\ ~closed /\ phase' = "scanning" /\ closed' = closed
        /\ generation' = generation /\ generation \in Gen /\ isCurrent(j)
    BY <1>4, GoingOn
  <2>2. Pump(plan', st, stream, runningTotal, runningLocal, runningMounted, 0,
             fileIncomplete, repoIncomplete, refused)
    BY <1>4, <2>1 DEF StartSources
  <2>3. LiveAt(stream, generation) = {}
    BY <2>1 DEF Lanes, QueueShape, LiveOf
  <2>4. plan' \in SUBSET Source /\ stream \in [Gen -> [Source -> Stop]]
    BY DEF TypeOK
  <2>5. \A s \in plan' : stream[generation][s] = "none"
    BY <2>3, <2>4 DEF LiveAt
  <2>6. 0 = Cardinality(LiveAt(stream, generation))
    BY <2>3, FS_EmptySet
  <2>7. /\ runningLocal = Cardinality(LiveIn(stream, Local))
        /\ runningMounted = Cardinality(LiveIn(stream, Mounted))
        /\ runningTotal = runningLocal + runningMounted
        /\ runningLocal <= MaxLocal /\ runningMounted <= MaxMounted
    BY DEF Lanes, Counters, LaneAccounting, LiveLocal, LiveMounted
  <2> HIDE DEF st
  <2>8. /\ \A g \in Gen : g # generation => stream'[g] = stream[g]
        /\ \A s \in queued' : stream'[generation][s] = "none"
        /\ runningLocal' = Cardinality(LiveIn(stream', Local))
        /\ runningMounted' = Cardinality(LiveIn(stream', Mounted))
        /\ runningTotal' = runningLocal' + runningMounted'
        /\ runningLocal' <= MaxLocal /\ runningMounted' <= MaxMounted
        /\ active' = Cardinality(LiveAt(stream', generation))
        /\ queued' \cap Local # {} => runningLocal' >= MaxLocal
        /\ queued' \cap Mounted # {} => runningMounted' >= MaxMounted
    BY <2>1, <2>2, <2>4, <2>5, <2>6, <2>7, PumpLanes, ZenonT(60)
  <2>9. QueueShape'
    BY <2>1, <2>8 DEF Lanes, QueueShape, Gen
  <2>10. Counters' /\ NoIdleLane'
    BY <2>1, <2>8 DEF Counters, LaneAccounting, NoIdleLane, LiveLocal, LiveMounted, LiveOf
  <2> QED BY <2>9, <2>10 DEF Lanes
<1>5. ASSUME NEW g \in Gen, NEW s \in Source, SourceFails(g, s) PROVE Lanes'
  <2>1. same
    BY <1>5 DEF SourceFails, scanVars, queryVars
  <2>2. \A j \in Gen, t \in Source : stream'[j][t] = "none" <=> stream[j][t] = "none"
    BY <1>5 DEF SourceFails, TypeOK
  <2> QED BY <2>1, <2>2, LanesMarked
<1>6. ASSUME NEW g \in Gen, NEW s \in Source, SourceTimesOut(g, s) PROVE Lanes'
  <2>1. same
    BY <1>6 DEF SourceTimesOut, queryVars
  <2>2. \A j \in Gen, t \in Source : stream'[j][t] = "none" <=> stream[j][t] = "none"
    BY <1>6 DEF SourceTimesOut, TypeOK
  <2> QED BY <2>1, <2>2, LanesMarked
<1>7. ASSUME NEW s \in Source, NEW p \in Path, NEW dated \in BOOLEAN,
              AcceptRecord(s, p, dated) PROVE Lanes'
  <2>1. same /\ stream' = stream
    BY <1>7 DEF AcceptRecord, laneVars, scanVars, queryVars
  <2> QED BY <2>1, LanesMarked
<1>8. ASSUME NEW g \in Gen, NEW s \in Source, NEW terminal \in Status,
             SourceCloses(g, s, terminal)
      PROVE  Lanes'
  <2> DEFINE str == [stream EXCEPT ![g][s] = "none"]
             total == AtLeast0(runningTotal - 1)
             local == IF s \in Local THEN AtLeast0(runningLocal - 1) ELSE runningLocal
             mounted == IF s \in Local THEN runningMounted ELSE AtLeast0(runningMounted - 1)
             own == isCurrent(g)
             broken == own /\ terminal \in {"timed-out", "failed"}
             st == IF own THEN [status EXCEPT ![s] = terminal] ELSE status
             act == IF own THEN AtLeast0(active - 1) ELSE active
             fi == fileIncomplete \/ (broken /\ ~s.repo)
             ri == repoIncomplete \/ (broken /\ s.repo)
  <2>1. stream[g][s] # "none" /\ UNCHANGED <<generation, phase, closed>>
    BY <1>8 DEF SourceCloses, queryVars
  <2>2. str \in [Gen -> [Source -> Stop]] /\ stream \in [Gen -> [Source -> Stop]]
    BY DEF TypeOK, Stop
  <2>3. /\ runningLocal = Cardinality(LiveIn(stream, Local)) /\ runningLocal \in Nat
        /\ runningMounted = Cardinality(LiveIn(stream, Mounted)) /\ runningMounted \in Nat
        /\ runningTotal = runningLocal + runningMounted
        /\ runningLocal <= MaxLocal /\ runningMounted <= MaxMounted
        /\ MaxLocal \in Nat /\ MaxMounted \in Nat
    BY LaneAssumption DEF Lanes, Counters, LaneAccounting, LiveLocal, LiveMounted, TypeOK
  <2>4. /\ Cardinality(LiveIn(str, Local)) \in Nat
        /\ Cardinality(LiveIn(str, Mounted)) \in Nat
    BY <1>0, LiveFinite
  <2>0. Ended(stream, str, g, s)
    BY <2>1, <2>2 DEF Ended
  <2>5. Cardinality(LiveIn(str, Local))
          = IF s \in Local THEN runningLocal - 1 ELSE runningLocal
    <3> HIDE DEF str
    <3> QED BY <1>0, <2>0, <2>3, LiveClose
  <2>6. Cardinality(LiveIn(str, Mounted))
          = IF s \in Mounted THEN runningMounted - 1 ELSE runningMounted
    <3> HIDE DEF str
    <3> QED BY <1>0, <2>0, <2>3, LiveClose
  <2>7. s \in Mounted <=> s \notin Local
    BY DEF Mounted
  <2>8. /\ local = Cardinality(LiveIn(str, Local)) /\ mounted = Cardinality(LiveIn(str, Mounted))
        /\ total = local + mounted /\ local <= MaxLocal /\ mounted <= MaxMounted
    <3> HIDE DEF str
    <3> QED BY <2>3, <2>4, <2>5, <2>6, <2>7 DEF AtLeast0
  <2>9. \A j \in Gen, t \in Source : stream[j][t] = "none" => str[j][t] = "none"
    BY <2>2
  <2>10. CASE isCurrent(generation)
    <3>1. generation \in Gen /\ generation' = generation /\ ~closed
      BY <2>1, <2>10 DEF TypeOK, Begun, Gen, isCurrent
    <3>2. Pump(queued, st, str, total, local, mounted, act, fi, ri, own)
      BY <1>8, <2>10 DEF SourceCloses
    <3>3. queued \in SUBSET Source /\ \A t \in queued : str[generation][t] = "none"
      BY <2>9, <3>1 DEF TypeOK, Lanes, QueueShape
    <3>4. act = Cardinality(LiveAt(str, generation))
      <4>1. active = Cardinality(LiveAt(stream, generation)) /\ active \in Nat
        BY <2>10 DEF Lanes, Counters, LaneAccounting, LiveOf, TypeOK
      <4>2. own <=> g = generation
        BY <2>10 DEF isCurrent
      <4>3. Cardinality(LiveAt(str, generation))
              = IF g = generation THEN active - 1 ELSE active
        <5> HIDE DEF str
        <5> QED BY <2>0, <3>1, <4>1, LiveCloseAt
      <4>4. LiveAt(str, generation) \in SUBSET Source
        BY DEF LiveAt
      <4>5. Cardinality(LiveAt(str, generation)) \in Nat
        BY <4>4, SourceSubset
      <4> HIDE DEF str, own
      <4> QED BY <4>1, <4>2, <4>3, <4>5 DEF AtLeast0
    <3> HIDE DEF str, total, local, mounted, own, broken, st, act, fi, ri
    <3>5. /\ queued' \subseteq queued
          /\ queued = {} => stream' = str
          /\ \A j \in Gen : j # generation => stream'[j] = str[j]
          /\ \A t \in queued' : stream'[generation][t] = "none"
          /\ runningLocal' = Cardinality(LiveIn(stream', Local))
          /\ runningMounted' = Cardinality(LiveIn(stream', Mounted))
          /\ runningTotal' = runningLocal' + runningMounted'
          /\ runningLocal' <= MaxLocal /\ runningMounted' <= MaxMounted
          /\ active' = Cardinality(LiveAt(stream', generation))
          /\ queued' \cap Local # {} => runningLocal' >= MaxLocal
          /\ queued' \cap Mounted # {} => runningMounted' >= MaxMounted
      BY <2>2, <2>8, <3>1, <3>2, <3>3, <3>4, PumpLanes
    <3>6. phase # "scanning" => LiveAt(stream', generation) = {}
      BY <2>9, <3>1, <3>5 DEF Lanes, QueueShape, LiveAt, LiveOf
    <3>7. QueueShape'
      BY <2>1, <2>9, <3>1, <3>5, <3>6 DEF Lanes, QueueShape, Gen, LiveOf
    <3>8. Counters' /\ NoIdleLane'
      BY <2>1, <3>1, <3>5 DEF Counters, LaneAccounting, NoIdleLane, LiveLocal, LiveMounted, LiveOf
    <3> QED BY <3>7, <3>8 DEF Lanes
  <2>11. CASE ~isCurrent(generation)
    <3> HIDE DEF total, local, mounted
    <3>1. /\ stream' = str /\ runningTotal' = total
          /\ runningLocal' = local /\ runningMounted' = mounted
          /\ UNCHANGED <<queued, active>>
      BY <1>8, <2>11 DEF SourceCloses, total, local, mounted
    <3>2. queued = {}
      BY <2>11 DEF isCurrent, Lanes, QueueShape
    <3>3. phase # "scanning" /\ generation \in Gen => LiveAt(stream', generation) = {}
      BY <2>9, <3>1 DEF Lanes, QueueShape, LiveAt, LiveOf
    <3>4. QueueShape'
      BY <2>1, <2>9, <3>1, <3>2, <3>3 DEF Lanes, QueueShape, LiveOf
    <3> HIDE DEF str
    <3>5. Counters'
      BY <2>1, <2>8, <2>11, <3>1 DEF Counters, LaneAccounting, isCurrent, LiveLocal, LiveMounted
    <3>6. NoIdleLane'
      BY <3>1, <3>2 DEF NoIdleLane
    <3> QED BY <3>4, <3>5, <3>6 DEF Lanes
  <2> QED BY <2>10, <2>11
<1>9. ASSUME NEW g \in Gen, NEW w \in Worker, NEW P \in SUBSET Path, NEW ok \in BOOLEAN,
             IndexAnswers(g, w, P, ok)
      PROVE  Lanes'
  <2>1. same /\ stream' = stream
    BY <1>9 DEF IndexAnswers, laneVars, scanVars, queryVars
  <2> QED BY <2>1, LanesMarked
<1>10. CASE EmitTimer
  <2>1. same /\ stream' = stream
    BY <1>10 DEF EmitTimer, laneVars, scanVars, queryVars
  <2> QED BY <2>1, LanesMarked
<1>11. CASE Close
  <2>1. /\ queued' = {}
        /\ UNCHANGED <<runningTotal, runningLocal, runningMounted, generation, phase>>
    BY <1>11 DEF Close, queryVars
  <2>2. closed' = TRUE
    BY <1>11 DEF Close
  <2>3. \A g \in Gen, s \in Source : stream'[g][s] = "none" <=> stream[g][s] = "none"
    <3>1. stream' = [g \in Gen |-> [s \in Source |-> Canceled(stream[g][s])]]
      BY <1>11 DEF Close
    <3>2. \A g \in Gen, s \in Source :
            Canceled(stream[g][s]) = "none" <=> stream[g][s] = "none"
      BY DEF Canceled
    <3> QED BY <3>1, <3>2
  <2>4. LiveIn(stream', Local) = LiveIn(stream, Local)
        /\ LiveIn(stream', Mounted) = LiveIn(stream, Mounted)
    BY <1>0, <2>3 DEF LiveIn
  <2>5. generation \in Gen => LiveAt(stream', generation) = LiveAt(stream, generation)
    BY <2>3 DEF LiveAt
  <2>6. QueueShape'
    BY <2>1, <2>3, <2>5 DEF Lanes, QueueShape, LiveOf
  <2>7. Counters'
    BY <2>1, <2>2, <2>4 DEF Lanes, Counters, LaneAccounting, isCurrent, LiveLocal, LiveMounted
  <2>8. NoIdleLane'
    BY <2>1 DEF NoIdleLane
  <2> QED BY <2>6, <2>7, <2>8 DEF Lanes
<1>12. CASE UNCHANGED vars
  <2>1. same /\ stream' = stream
    BY <1>12 DEF vars, laneVars, scanVars, queryVars
  <2> QED BY <2>1, LanesMarked
<1>13. CASE \E g \in Gen : Abandons(g)
  <2>1. same /\ stream' = stream
    BY <1>13 DEF Abandons, laneVars, scanVars
  <2> QED BY <2>1, LanesMarked
<1> QED BY <1>1, <1>2, <1>3, <1>4, <1>5, <1>6, <1>7, <1>8, <1>9, <1>10, <1>11, <1>12, <1>13
        DEF Next, Starting, Closing

\* The lanes hold in the initial state and in every later one.
THEOREM LanesCorrect == Spec => []Lanes
<1>1. Init => Lanes
  <2> SUFFICES ASSUME Init PROVE Lanes
    OBVIOUS
  <2>1. Local \in SUBSET Source /\ Mounted \in SUBSET Source
    BY DEF Local, Mounted
  <2>2. \A g \in Gen, s \in Source : stream[g][s] = "none"
    BY DEF Init
  <2>3. Cardinality(LiveIn(stream, Local)) = 0 /\ Cardinality(LiveIn(stream, Mounted)) = 0
    BY <2>1, <2>2, NothingLive
  <2>4. runningLocal = 0 /\ runningMounted = 0 /\ runningTotal = 0 /\ queued = {}
        /\ generation = 0 /\ phase = "none" /\ generation \notin Gen
    BY DEF Init, Gen
  <2>5. Counters
    BY <2>3, <2>4, LaneAssumption DEF Counters, LaneAccounting, LiveLocal, LiveMounted, isCurrent
  <2>6. QueueShape /\ NoIdleLane
    BY <2>2, <2>4 DEF QueueShape, NoIdleLane
  <2> QED BY <2>5, <2>6 DEF Lanes
<1>2. TypeOK /\ Begun /\ TypeOK' /\ Begun' /\ Lanes /\ [Next]_vars => Lanes'
  BY LanesStep
<1> QED BY <1>1, <1>2, Typed, PTL DEF Spec

\* LaneAccounting for every number of queries, mounts and lanes: the counters
\* of the lanes count the live children.
THEOREM Accounting == Spec => []LaneAccounting
<1>1. Lanes => LaneAccounting
  BY DEF Lanes, Counters
<1> QED BY <1>1, LanesCorrect, PTL

\* NoIdleLane for every number of queries, mounts and lanes: a source waits
\* only behind lanes that are all taken.
THEOREM WorkConserving == Spec => []NoIdleLane
<1>1. Lanes => NoIdleLane
  BY DEF Lanes
<1> QED BY <1>1, LanesCorrect, PTL

\* One element more makes a finite set larger by at most one.
LEMMA AddOne ==
  ASSUME NEW S, IsFiniteSet(S), NEW x
  PROVE  /\ IsFiniteSet(S \cup {x}) /\ Cardinality(S \cup {x}) \in Nat
         /\ Cardinality(S \cup {x}) <= Cardinality(S) + 1
<1>1. IsFiniteSet(S \cup {x})
  BY FS_AddElement
<1>2. Cardinality(S) \in Nat /\ Cardinality(S \cup {x}) \in Nat
  BY <1>1, FS_CardinalityType
<1>3. \/ Cardinality(S \cup {x}) = Cardinality(S)
      \/ Cardinality(S \cup {x}) = Cardinality(S) + 1
  BY FS_AddElement
<1> QED BY <1>1, <1>2, <1>3

\* No step exceeds the limit on helpers: only a request starts them, and it
\* counts the ones that are still alive, its own first one included.
LEMMA HelpersStep ==
  ASSUME TypeOK, Begun, Cardinality(helpers) <= MaxHelpers, [Next]_vars
  PROVE  Cardinality(helpers') <= MaxHelpers
<1>1. IsFiniteSet(helpers) /\ Cardinality(helpers) \in Nat
  <2>1. IsFiniteSet(Gen)
    BY FS_Interval, BoundsAssumption DEF Gen
  <2>2. IsFiniteSet(Helper)
    <3>1. Helper = {"mountinfo"} \cup {"realpath"}
      BY DEF Helper
    <3>2. IsFiniteSet({"mountinfo"})
      BY FS_Singleton
    <3> QED BY <3>1, <3>2, FS_AddElement
  <2>3. IsFiniteSet(Gen \X Helper)
    BY <2>1, <2>2, FS_Product
  <2> QED BY <2>3, FS_Subset, FS_CardinalityType DEF TypeOK
<1>2. MaxHelpers \in Nat
  BY BoundsAssumption
<1>3. ASSUME NEW x, helpers' = helpers \ {x}
      PROVE  Cardinality(helpers') <= MaxHelpers
  <2>1. Cardinality(helpers \ {x}) <= Cardinality(helpers)
    BY <1>1, FS_RemoveElement
  <2>2. Cardinality(helpers \ {x}) \in Nat
    BY <1>1, FS_RemoveElement, FS_CardinalityType
  <2> QED BY <1>1, <1>2, <1>3, <2>1, <2>2
<1>4. ASSUME NEW short \in BOOLEAN, NEW focus \in BOOLEAN, NEW ok \in SUBSET Helper,
             Request(short, focus, ok)
      PROVE  Cardinality(helpers') <= MaxHelpers
  <2> DEFINE free == MaxHelpers - Cardinality(helpers)
             spawned == IF short THEN {}
                        ELSE {h \in ok : h = "realpath" /\ "mountinfo" \in ok => free > 1}
             started == IF free > 0 THEN spawned ELSE {}
             m == <<generation + 1, "mountinfo">>
             r == <<generation + 1, "realpath">>
  <2>1. helpers' = helpers \cup {<<generation + 1, h>> : h \in started}
    BY <1>4 DEF Request
  <2>2. free \in Int /\ started \subseteq {"mountinfo", "realpath"}
        /\ (started # {} => free > 0)
        /\ ("mountinfo" \in started /\ "realpath" \in started => free > 1)
    <3>1. free \in Int
      BY <1>1, <1>2
    <3> HIDE DEF free
    <3>2. started \subseteq {"mountinfo", "realpath"} /\ (started # {} => free > 0)
      BY DEF Helper
    <3>3. "mountinfo" \in started /\ "realpath" \in started => free > 1
      OBVIOUS
    <3> QED BY <3>1, <3>2, <3>3
  <2> HIDE DEF started
  <2>3. CASE started = {}
    <3>1. helpers' = helpers
      BY <2>1, <2>3
    <3> QED BY <3>1
  <2>4. CASE started = {"mountinfo"}
    <3>1. helpers' = helpers \cup {m}
      BY <2>1, <2>4
    <3>2. /\ Cardinality(helpers \cup {m}) <= Cardinality(helpers) + 1
          /\ Cardinality(helpers \cup {m}) \in Nat
      BY <1>1, AddOne
    <3>3. free > 0
      BY <2>2, <2>4
    <3> QED BY <1>1, <1>2, <3>1, <3>2, <3>3
  <2>5. CASE started = {"realpath"}
    <3>1. helpers' = helpers \cup {r}
      BY <2>1, <2>5
    <3>2. /\ Cardinality(helpers \cup {r}) <= Cardinality(helpers) + 1
          /\ Cardinality(helpers \cup {r}) \in Nat
      BY <1>1, AddOne
    <3>3. free > 0
      BY <2>2, <2>5
    <3> QED BY <1>1, <1>2, <3>1, <3>2, <3>3
  <2>6. CASE started = {"mountinfo", "realpath"}
    <3>1. helpers' = (helpers \cup {m}) \cup {r}
      BY <2>1, <2>6
    <3>2. /\ IsFiniteSet(helpers \cup {m}) /\ Cardinality(helpers \cup {m}) \in Nat
          /\ Cardinality(helpers \cup {m}) <= Cardinality(helpers) + 1
      BY <1>1, AddOne
    <3>3. /\ Cardinality((helpers \cup {m}) \cup {r}) \in Nat
          /\ Cardinality((helpers \cup {m}) \cup {r}) <= Cardinality(helpers \cup {m}) + 1
      BY <3>2, AddOne
    <3>4. free > 1
      BY <2>2, <2>6
    <3> QED BY <1>1, <1>2, <3>1, <3>2, <3>3, <3>4
  <2>7. \/ started = {} \/ started = {"mountinfo"} \/ started = {"realpath"}
        \/ started = {"mountinfo", "realpath"}
    BY <2>2
  <2> QED BY <2>3, <2>4, <2>5, <2>6, <2>7
<1>5. CASE Settling
  <2>1. PICK h \in Helper, v \in Answer, e \in BOOLEAN : HelperSettles(h, v, e)
    BY <1>5 DEF Settling
  <2>2. CASE helpers' = helpers
    BY <2>2
  <2>3. CASE helpers' = helpers \ {<<generation, h>>}
    BY <1>3, <2>3
  <2> QED BY <2>1, <2>2, <2>3 DEF HelperSettles
<1>6. ASSUME NEW g \in Gen, NEW h \in Helper, HelperReaped(g, h)
      PROVE  Cardinality(helpers') <= MaxHelpers
  BY <1>3, <1>6 DEF HelperReaped
<1>7. \/ helpers' = helpers
      \/ \E short, focus \in BOOLEAN, ok \in SUBSET Helper : Request(short, focus, ok)
      \/ Settling
      \/ \E g \in Gen, h \in Helper : HelperReaped(g, h)
  <2>1. CASE Starting \/ \E g \in Gen : Abandons(g)
    BY <2>1 DEF Starting, StartSources, Abandons
  <2>2. CASE \E g \in Gen, s \in Source : SourceFails(g, s) \/ SourceTimesOut(g, s)
    BY <2>2 DEF SourceFails, SourceTimesOut
  <2>3. CASE \E s \in Source, p \in Path, dated \in BOOLEAN : AcceptRecord(s, p, dated)
    BY <2>3 DEF AcceptRecord
  <2>4. CASE \E g \in Gen, s \in Source : Closing(g, s)
    BY <2>4 DEF Closing, SourceCloses
  <2>5. CASE \E g \in Gen, w \in Worker, P \in SUBSET Path, ok \in BOOLEAN :
               IndexAnswers(g, w, P, ok)
    BY <2>5 DEF IndexAnswers
  <2>6. CASE EmitTimer \/ Close
    BY <2>6 DEF EmitTimer, Close
  <2>7. CASE UNCHANGED vars
    BY <2>7 DEF vars
  <2> QED BY <2>1, <2>2, <2>3, <2>4, <2>5, <2>6, <2>7 DEF Next
<1> QED BY <1>4, <1>5, <1>6, <1>7

\* LaneBounds for every number of queries, mounts and lanes: however fast
\* queries are replaced, the process limits hold.
THEOREM Bounds == Spec => []LaneBounds
<1>1. Init => Cardinality(helpers) <= MaxHelpers
  <2>1. Cardinality({}) = 0
    BY FS_EmptySet
  <2> QED BY <2>1, BoundsAssumption DEF Init
<1>2. TypeOK /\ Begun /\ Cardinality(helpers) <= MaxHelpers /\ [Next]_vars
        => (Cardinality(helpers) <= MaxHelpers)'
  BY HelpersStep
<1>3. Lanes /\ Cardinality(helpers) <= MaxHelpers => LaneBounds
  BY DEF Lanes, Counters, LaneAccounting, LaneBounds
<1> QED BY <1>1, <1>2, <1>3, Typed, LanesCorrect, PTL DEF Spec

\* LanesHold for every number of queries, mounts and lanes.
THEOREM LanesRight == Spec => []LanesHold
<1>1. LaneAccounting /\ LaneBounds => LanesHold
  BY DEF LanesHold
<1> QED BY <1>1, Accounting, Bounds, PTL

\* Only pump starts children, and pump serves the current query.
LEMMA StartsStep ==
  ASSUME TypeOK, Begun, Lanes, TypeOK', [Next]_vars,
         NEW g \in Gen, NEW s \in Source, stream[g][s] = "none", stream'[g][s] # "none"
  PROVE  g = generation' /\ ~closed'
<1>1. ASSUME NEW short \in BOOLEAN, NEW focus \in BOOLEAN, NEW ok \in SUBSET Helper,
             Request(short, focus, ok)
      PROVE  FALSE
  <2>1. CASE generation = 0
    BY <1>1, <2>1 DEF Request
  <2>2. CASE generation # 0
    <3>1. stream' = [stream EXCEPT ![generation] = [t \in Source |-> Canceled(@[t])]]
      BY <1>1, <2>2 DEF Request
    <3> QED BY <3>1 DEF TypeOK, Canceled
  <2> QED BY <2>1, <2>2
<1>2. CASE Settling \/ (\E j \in Gen, h \in Helper : HelperReaped(j, h)) \/ EmitTimer
           \/ (\E t \in Source, p \in Path, dated \in BOOLEAN : AcceptRecord(t, p, dated))
           \/ \E j \in Gen : Abandons(j)
  BY <1>2 DEF Settling, HelperSettles, HelperReaped, EmitTimer, AcceptRecord, Abandons, laneVars
<1>3. CASE \E j \in Gen, w \in Worker, P \in SUBSET Path, ok \in BOOLEAN :
             IndexAnswers(j, w, P, ok)
  BY <1>3 DEF IndexAnswers, laneVars
<1>4. ASSUME NEW j \in Gen, NEW M \in SUBSET (Partition \ {Base}), NEW R \in SUBSET M,
             NEW partial \in BOOLEAN, NEW refused \in BOOLEAN,
             StartSources(j, M, R, partial, refused)
      PROVE  g = generation' /\ ~closed'
  <2>1. /\ phase = "planning" /\ ~closed /\ closed' = closed
        /\ generation' = generation /\ generation \in Gen /\ isCurrent(j)
    BY <1>4, GoingOn
  <2> DEFINE st == [t \in Source |-> IF t \in plan' THEN "queued" ELSE "absent"]
  <2>2. Pump(plan', st, stream, runningTotal, runningLocal, runningMounted, 0, fileIncomplete,
             repoIncomplete, refused)
    BY <1>4, <2>1 DEF StartSources
  <2>3. PICK A, F : /\ PumpStarting(A, F, plan', st, stream, runningTotal, runningLocal,
                                    runningMounted, 0, fileIncomplete, repoIncomplete, refused)
    BY <2>2 DEF Pump
  <2>4. \A n \in Gen : n # generation => stream'[n] = stream[n]
    BY <2>3 DEF PumpStarting, TypeOK
  <2> QED BY <2>1, <2>4
<1>5. ASSUME NEW j \in Gen, NEW t \in Source,
             SourceFails(j, t) \/ SourceTimesOut(j, t)
      PROVE  FALSE
  BY <1>5 DEF SourceFails, SourceTimesOut, TypeOK
<1>6. ASSUME NEW j \in Gen, NEW t \in Source, NEW terminal \in Status,
             SourceCloses(j, t, terminal)
      PROVE  g = generation' /\ ~closed'
  <2> DEFINE str == [stream EXCEPT ![j][t] = "none"]
  <2>1. UNCHANGED <<generation, closed>>
    BY <1>6 DEF SourceCloses, queryVars
  <2>2. str \in [Gen -> [Source -> Stop]] /\ str[g][s] = "none"
    BY DEF TypeOK, Stop
  <2>3. CASE isCurrent(generation)
    <3>1. \E st, total, local, mounted, act, fi, ri, own :
            Pump(queued, st, str, total, local, mounted, act, fi, ri, own)
      BY <1>6, <2>3 DEF SourceCloses
    <3>2. PICK A, F, st, total, local, mounted, act, fi, ri, own :
            PumpStarting(A, F, queued, st, str, total, local, mounted, act, fi, ri, own)
      BY <3>1 DEF Pump
    <3> HIDE DEF str
    <3>3. \A n \in Gen : n # generation => stream'[n] = str[n]
      BY <2>2, <3>2 DEF PumpStarting
    <3> QED BY <2>1, <2>2, <2>3, <3>3 DEF isCurrent
  <2>4. CASE ~isCurrent(generation)
    <3>1. stream' = str
      BY <1>6, <2>4 DEF SourceCloses
    <3> QED BY <2>2, <3>1
  <2> QED BY <2>3, <2>4
<1>7. CASE Close
  <2>1. stream' = [n \in Gen |-> [t \in Source |-> Canceled(stream[n][t])]]
    BY <1>7 DEF Close
  <2> QED BY <2>1 DEF Canceled
<1>8. CASE UNCHANGED vars
  BY <1>8 DEF vars, laneVars
<1> QED BY <1>1, <1>2, <1>3, <1>4, <1>5, <1>6, <1>7, <1>8 DEF Next, Starting, Closing

\* Only a startRequest that goes on asks the index workers.
LEMMA AsksStep ==
  ASSUME TypeOK, Begun, [Next]_vars,
         NEW g \in Gen, NEW w \in Worker, <<g, w>> \in asked' \ asked
  PROVE  g = generation' /\ ~closed'
<1>1. ASSUME NEW j \in Gen, NEW M \in SUBSET (Partition \ {Base}), NEW R \in SUBSET M,
             NEW partial \in BOOLEAN, NEW refused \in BOOLEAN,
             StartSources(j, M, R, partial, refused)
      PROVE  g = generation' /\ ~closed'
  <2>1. j = generation /\ generation' = generation /\ ~closed /\ closed' = closed
    BY <1>1, GoingOn
  <2>2. asked' \subseteq asked \cup {<<j, v>> : v \in Worker}
    BY <1>1 DEF StartSources, Worker
  <2> QED BY <2>1, <2>2
<1>2. CASE Settling \/ (\E j \in Gen, h \in Helper : HelperReaped(j, h)) \/ EmitTimer \/ Close
           \/ \E j \in Gen : Abandons(j)
  BY <1>2 DEF Settling, HelperSettles, HelperReaped, EmitTimer, Close, Abandons, indexVars
<1>3. CASE \E short, focus \in BOOLEAN, ok \in SUBSET Helper : Request(short, focus, ok)
  BY <1>3 DEF Request
<1>4. CASE \/ \E j \in Gen, s \in Source : SourceFails(j, s) \/ SourceTimesOut(j, s)
           \/ \E s \in Source, p \in Path, dated \in BOOLEAN : AcceptRecord(s, p, dated)
  BY <1>4 DEF SourceFails, SourceTimesOut, AcceptRecord, indexVars
<1>5. CASE \E j \in Gen, s \in Source : Closing(j, s)
  BY <1>5 DEF Closing, SourceCloses, indexVars
<1>6. CASE \E j \in Gen, v \in Worker, P \in SUBSET Path, ok \in BOOLEAN : IndexAnswers(j, v, P, ok)
  BY <1>6 DEF IndexAnswers
<1>7. CASE UNCHANGED vars
  BY <1>7 DEF vars, indexVars
<1> QED BY <1>1, <1>2, <1>3, <1>4, <1>5, <1>6, <1>7 DEF Next, Starting

-----------------------------------------------------------------------------
(* The results.                                                             *)

\* ResultsCurrent is inductive: pump, the index and the records add findings
\* of the current query, and a request drops all others.
LEMMA ResultsStep ==
  ASSUME TypeOK, Begun, ResultsCurrent, [Next]_vars
  PROVE  ResultsCurrent'
<1> DEFINE Own(S, n) == \A f \in S : f.gen = n
<1>1. /\ shown.gen = generation /\ Own(rows, generation) /\ Own(repos, generation)
      /\ Own(shown.rows, generation) /\ Own(shown.repos, generation)
  BY DEF ResultsCurrent
<1>2. ASSUME Own(rows', generation'), Own(repos', generation'),
             \/ \E terminal \in BOOLEAN : shown' = Snapshot(terminal)'
             \/ shown' = shown /\ generation' = generation
      PROVE  ResultsCurrent'
  <2>1. CASE shown' = shown /\ generation' = generation
    BY <1>1, <1>2, <2>1 DEF ResultsCurrent
  <2>2. ASSUME NEW terminal \in BOOLEAN, shown' = Snapshot(terminal)'
        PROVE  ResultsCurrent'
    <3>1. /\ shown'.gen = generation' /\ shown'.rows = Best(rows', MaxResults)
          /\ shown'.repos = Best(repos', MaxResults)
      BY <2>2 DEF Snapshot, Best
    <3>2. shown'.rows \subseteq rows' /\ shown'.repos \subseteq repos'
      BY <3>1, BestSubset
    <3> QED BY <1>2, <3>1, <3>2 DEF ResultsCurrent
  <2> QED BY <1>2, <2>1, <2>2
<1>3. ASSUME NEW q, NEW st, NEW str, NEW total, NEW local, NEW mounted, NEW act, NEW fileInc,
             NEW repoInc, NEW scheduled, UNCHANGED <<rows, repos, generation>>,
             Pump(q, st, str, total, local, mounted, act, fileInc, repoInc, scheduled)
      PROVE  ResultsCurrent'
  <2>1. shown' = Snapshot(TRUE)' \/ shown' = shown
    BY <1>3 DEF Pump, PumpStarting
  <2> QED BY <1>1, <1>2, <1>3, <2>1
<1>4. ASSUME NEW short \in BOOLEAN, NEW focus \in BOOLEAN, NEW ok \in SUBSET Helper,
             Request(short, focus, ok)
      PROVE  ResultsCurrent'
  <2>1. rows' = {} /\ repos' = {} /\ shown' = Snapshot(short)'
    BY <1>4 DEF Request
  <2> QED BY <1>2, <2>1
<1>5. ASSUME UNCHANGED <<rows, repos, shown, generation>>
      PROVE  ResultsCurrent'
  BY <1>1, <1>2, <1>5
<1>6. CASE Settling
  BY <1>5, <1>6 DEF Settling, HelperSettles, findingVars
<1>7. CASE \E g \in Gen, h \in Helper : HelperReaped(g, h)
  BY <1>5, <1>7 DEF HelperReaped, findingVars, queryVars
<1>8. ASSUME NEW j \in Gen, NEW M \in SUBSET (Partition \ {Base}), NEW R \in SUBSET M,
             NEW partial \in BOOLEAN, NEW refused \in BOOLEAN,
             StartSources(j, M, R, partial, refused)
      PROVE  ResultsCurrent'
  <2>1. UNCHANGED <<rows, repos, generation>> /\ isCurrent(j)
    BY <1>8, GoingOn DEF findingVars
  <2>2. \E q, st, str, total, local, mounted, act, fileInc, repoInc, scheduled :
          Pump(q, st, str, total, local, mounted, act, fileInc, repoInc, scheduled)
    BY <1>8, <2>1 DEF StartSources
  <2> QED BY <1>3, <2>1, <2>2
<1>9. CASE \E g \in Gen, s \in Source : SourceFails(g, s)
  BY <1>5, <1>9 DEF SourceFails, findingVars, queryVars
<1>10. CASE \E g \in Gen, s \in Source : SourceTimesOut(g, s)
  BY <1>5, <1>10 DEF SourceTimesOut, findingVars, queryVars, SchedulePublish
<1>11. ASSUME NEW s \in Source, NEW p \in Path, NEW dated \in BOOLEAN,
              AcceptRecord(s, p, dated)
       PROVE  ResultsCurrent'
  <2>1. shown' = shown /\ generation' = generation
    BY <1>11 DEF AcceptRecord, SchedulePublish, queryVars
  <2>2. Own(Found(generation, {p}, dated), generation)
    BY DEF Found
  <2>3. \/ rows' = Merged(rows, Found(generation, {p}, dated)) /\ repos' = repos
        \/ rows' = rows /\ repos' = Merged(repos, Found(generation, {p}, dated))
    BY <1>11 DEF AcceptRecord
  <2>4. rows' \subseteq rows \cup Found(generation, {p}, dated) /\ repos' \subseteq repos \cup Found(generation, {p}, dated)
    BY <2>3, MergedSubset
  <2>5. Own(rows', generation') /\ Own(repos', generation')
    BY <1>1, <2>1, <2>2, <2>4
  <2> QED BY <1>2, <2>1, <2>5
<1>12. ASSUME NEW g \in Gen, NEW s \in Source, NEW terminal \in Status,
              SourceCloses(g, s, terminal)
       PROVE  ResultsCurrent'
  <2>1. UNCHANGED <<rows, repos, generation>>
    BY <1>12 DEF SourceCloses, findingVars, queryVars
  <2>2. CASE isCurrent(generation)
    <3>1. \E q, st, str, total, local, mounted, act, fileInc, repoInc, scheduled :
            Pump(q, st, str, total, local, mounted, act, fileInc, repoInc, scheduled)
      BY <1>12, <2>2 DEF SourceCloses
    <3> QED BY <1>3, <2>1, <3>1
  <2>3. CASE ~isCurrent(generation)
    <3>1. shown' = shown
      BY <1>12, <2>3 DEF SourceCloses
    <3> QED BY <1>5, <2>1, <3>1
  <2> QED BY <2>2, <2>3
<1>13. ASSUME NEW g \in Gen, NEW w \in Worker, NEW P \in SUBSET Path, NEW ok \in BOOLEAN,
              IndexAnswers(g, w, P, ok)
       PROVE  ResultsCurrent'
  <2>1. UNCHANGED <<repos, generation, shown>>
    BY <1>13 DEF IndexAnswers, SchedulePublish, queryVars
  <2>2. Own(rows', generation)
    <3>1. CASE isCurrent(g)
      <4>1. rows' = Merged(rows, Found(g, P, TRUE))
        BY <1>13, <3>1 DEF IndexAnswers
      <4>2. rows' \subseteq rows \cup Found(g, P, TRUE)
        BY <4>1, MergedSubset
      <4>3. Own(Found(g, P, TRUE), generation)
        BY <3>1 DEF Found, isCurrent
      <4> QED BY <1>1, <4>2, <4>3
    <3>2. CASE ~isCurrent(g)
      BY <1>1, <1>13, <3>2 DEF IndexAnswers
    <3> QED BY <3>1, <3>2
  <2> QED BY <1>1, <1>2, <2>1, <2>2
<1>14. CASE EmitTimer
  <2>1. UNCHANGED <<rows, repos, generation>>
    BY <1>14 DEF EmitTimer, findingVars, queryVars
  <2>2. shown' = Snapshot(FALSE)
    BY <1>14 DEF EmitTimer
  <2>3. /\ shown'.gen = generation /\ shown'.rows = Best(rows, MaxResults)
        /\ shown'.repos = Best(repos, MaxResults)
    BY <2>2 DEF Snapshot
  <2>4. shown'.rows \subseteq rows /\ shown'.repos \subseteq repos
    BY <2>3, BestSubset
  <2> QED BY <1>1, <2>1, <2>3, <2>4 DEF ResultsCurrent
<1>15. CASE Close
  BY <1>5, <1>15 DEF Close, findingVars, queryVars
<1>16. CASE UNCHANGED vars
  BY <1>5, <1>16 DEF vars, findingVars, queryVars
<1>17. CASE \E g \in Gen : Abandons(g)
  BY <1>5, <1>17 DEF Abandons, findingVars
<1> QED BY <1>4, <1>6, <1>7, <1>8, <1>9, <1>10, <1>11, <1>12, <1>13, <1>14, <1>15, <1>16, <1>17
        DEF Next, Starting, Closing

\* What is kept and shown belongs to the current query.
THEOREM ResultsAlways == Spec => []ResultsCurrent
<1>1. Init => ResultsCurrent
  BY DEF Init, ResultsCurrent
<1>2. TypeOK /\ Begun /\ ResultsCurrent /\ [Next]_vars => ResultsCurrent'
  BY ResultsStep
<1> QED BY <1>1, <1>2, Typed, PTL DEF Spec

\* OnlyCurrentQuery for every number of queries, mounts, lanes and paths: no
\* result of an old query is kept for, or shown to, a newer one, and neither
\* the startRequest of an old query nor any callback after close() asks the
\* index workers or starts a child.
THEOREM NoOldResults == Spec => OnlyCurrentQuery
<1>1. TypeOK /\ Begun /\ Lanes /\ TypeOK' /\ [Next]_vars => [AsksForCurrent]_vars
  <2> SUFFICES ASSUME TypeOK, Begun, Lanes, TypeOK', [Next]_vars PROVE AsksForCurrent
    OBVIOUS
  <2>1. \A g \in Gen, w \in Worker : <<g, w>> \in asked' \ asked => g = generation' /\ ~closed'
    BY AsksStep
  <2>2. \A g \in Gen, s \in Source :
          stream[g][s] = "none" /\ stream'[g][s] # "none" => g = generation' /\ ~closed'
    BY StartsStep
  <2> QED BY <2>1, <2>2 DEF AsksForCurrent
<1> QED BY <1>1, ResultsAlways, Typed, LanesCorrect, PTL DEF Spec, OnlyCurrentQuery

-----------------------------------------------------------------------------
(* The coverage a query claims.                                             *)

\* What a query's queue q, statuses st, children kids and plan p have to do
\* with each other while it is current: a source waits, runs or has timed out
\* as its child says, and only sources of the plan have a child.
Agreeing(q, st, kids, p) ==
  \A s \in Source :
    /\ kids[s] \in {"none", "running", "failing", "timed-out"}
    /\ kids[s] \in {"running", "failing"} => st[s] = "running"
    /\ kids[s] = "timed-out" => st[s] = "timed-out"
    /\ kids[s] # "none" => s \in p
    /\ s \in q => st[s] = "queued" /\ kids[s] = "none"

\* Scans are called incomplete only because of one that timed out or failed.
Spoilt(S, st) == \E s \in S : st[s] \in {"timed-out", "failed"}
Faulted(fi, ri, st, p) ==
  (fi => Spoilt(FileSources(p), st)) /\ (ri => Spoilt(RepoSources(p), st))

Tracked ==
  isCurrent(generation) =>
    /\ Agreeing(queued, status, stream[generation], plan)
    /\ Faulted(fileIncomplete, repoIncomplete, status, plan)
    /\ phase # "scanning" => plan = {}

\* A settled query knows which of its scans were all exhausted.
Summed ==
  isCurrent(generation) /\ Settled =>
    /\ fileDone = Exhausted(FileSources(plan))
    /\ repoDone = Exhausted(RepoSources(plan))

\* A current query has a generation.
LEMMA CurrentGen == TypeOK /\ Begun /\ isCurrent(generation) => generation \in Gen
BY DEF TypeOK, Begun, Gen, isCurrent

\* pump keeps sources, children and faults in agreement: what it starts runs,
\* what it loses has failed and spoils its kind.
LEMMA PumpTracks ==
  ASSUME NEW q \in SUBSET Source, NEW st \in [Source -> Status],
         NEW str \in [Gen -> [Source -> Stop]],
         NEW total, NEW local, NEW mounted, NEW act,
         NEW fileInc, NEW repoInc, NEW scheduled,
         generation \in Gen, generation' = generation,
         plan' \in SUBSET Source, q \subseteq plan',
         Agreeing(q, st, str[generation], plan'), Faulted(fileInc, repoInc, st, plan'),
         Pump(q, st, str, total, local, mounted, act, fileInc, repoInc, scheduled)
  PROVE  /\ Agreeing(queued', status', stream'[generation], plan')
         /\ Faulted(fileIncomplete', repoIncomplete', status', plan')
         /\ \/ /\ queued' = {} /\ active' = 0
               /\ fileDone' = (\A s \in FileSources(plan') : status'[s] = "exhausted")
               /\ repoDone' = (\A s \in RepoSources(plan') : status'[s] = "exhausted")
               /\ shown' = Snapshot(TRUE)'
            \/ ~(queued' = {} /\ active' = 0)
<1>0. PICK A \in SUBSET q : \E F \in SUBSET A :
        PumpStarting(A, F, q, st, str, total, local, mounted, act, fileInc, repoInc, scheduled)
  BY DEF Pump
<1>1. PICK F \in SUBSET A :
        PumpStarting(A, F, q, st, str, total, local, mounted, act, fileInc, repoInc, scheduled)
  BY <1>0
<1>2. /\ queued' = q \ A
      /\ status' = [s \in Source |-> IF s \in F THEN "failed"
                                     ELSE IF s \in A \ F THEN "running" ELSE st[s]]
      /\ stream' = [str EXCEPT ![generation] =
                      [s \in Source |-> IF s \in A \ F THEN "running" ELSE @[s]]]
      /\ fileIncomplete' = (fileInc \/ FileSources(F) # {})
      /\ repoIncomplete' = (repoInc \/ RepoSources(F) # {})
  BY <1>1 DEF PumpStarting
<1>3. \A s \in Source :
        /\ status'[s] = (IF s \in F THEN "failed"
                         ELSE IF s \in A \ F THEN "running" ELSE st[s])
        /\ stream'[generation][s] = (IF s \in A \ F THEN "running" ELSE str[generation][s])
  BY <1>2
<1>4. Agreeing(queued', status', stream'[generation], plan')
  <2> SUFFICES ASSUME NEW s \in Source
               PROVE  /\ stream'[generation][s] \in {"none", "running", "failing", "timed-out"}
                      /\ stream'[generation][s] \in {"running", "failing"} => status'[s] = "running"
                      /\ stream'[generation][s] = "timed-out" => status'[s] = "timed-out"
                      /\ stream'[generation][s] # "none" => s \in plan'
                      /\ s \in queued' => status'[s] = "queued" /\ stream'[generation][s] = "none"
    BY DEF Agreeing
  <2>1. /\ str[generation][s] \in {"none", "running", "failing", "timed-out"}
        /\ str[generation][s] \in {"running", "failing"} => st[s] = "running"
        /\ str[generation][s] = "timed-out" => st[s] = "timed-out"
        /\ str[generation][s] # "none" => s \in plan'
        /\ s \in q => st[s] = "queued" /\ str[generation][s] = "none"
    BY DEF Agreeing
  <2>2. CASE s \in F
    BY <1>2, <1>3, <2>1, <2>2
  <2>3. CASE s \in A \ F
    BY <1>2, <1>3, <2>3
  <2>4. CASE s \notin A
    BY <1>2, <1>3, <2>1, <2>4
  <2> QED BY <2>2, <2>3, <2>4
<1>5. Faulted(fileIncomplete', repoIncomplete', status', plan')
  <2>1. \A s \in Source : st[s] \in {"timed-out", "failed"} => status'[s] \in {"timed-out", "failed"}
    BY <1>3 DEF Agreeing
  <2>2. \A s \in F : s \in plan' /\ s \in Source /\ status'[s] = "failed"
    BY <1>3
  <2>3. ASSUME fileIncomplete' PROVE Spoilt(FileSources(plan'), status')
    <3>1. CASE fileInc
      BY <2>1, <3>1 DEF Faulted, Spoilt, FileSources
    <3>2. CASE FileSources(F) # {}
      BY <2>2, <3>2 DEF Spoilt, FileSources
    <3> QED BY <1>2, <2>3, <3>1, <3>2
  <2>4. ASSUME repoIncomplete' PROVE Spoilt(RepoSources(plan'), status')
    <3>1. CASE repoInc
      BY <2>1, <3>1 DEF Faulted, Spoilt, RepoSources
    <3>2. CASE RepoSources(F) # {}
      BY <2>2, <3>2 DEF Spoilt, RepoSources
    <3> QED BY <1>2, <2>4, <3>1, <3>2
  <2> QED BY <2>3, <2>4 DEF Faulted
<1>6. IF queued' = {} /\ active' = 0
      THEN /\ fileDone' = (\A s \in FileSources(plan') : status'[s] = "exhausted")
           /\ repoDone' = (\A s \in RepoSources(plan') : status'[s] = "exhausted")
           /\ shown' = Snapshot(TRUE)'
      ELSE TRUE
  BY <1>1 DEF PumpStarting
<1> QED BY <1>4, <1>5, <1>6

\* What the scans of a settled query did.
FileCoverage ==
  /\ Exhausted(FileSources(plan)) /\ ~planIncomplete
  /\ focused => ~indexPending /\ ~indexUnavailable
RepoCoverage == Exhausted(RepoSources(plan)) /\ ~planIncomplete

\* What a snapshot taken of a settled query says of its coverage.
LEMMA SnapshotTrue ==
  ASSUME Faulted(fileIncomplete, repoIncomplete, status, plan),
         fileDone = Exhausted(FileSources(plan)), repoDone = Exhausted(RepoSources(plan)),
         NEW t \in BOOLEAN
  PROVE  Snapshot(t).complete = FileCoverage /\ Snapshot(t).repoComplete = RepoCoverage
<1>1. Exhausted(FileSources(plan)) => ~fileIncomplete
  BY DEF Faulted, Spoilt, Exhausted
<1>2. Exhausted(RepoSources(plan)) => ~repoIncomplete
  BY DEF Faulted, Spoilt, Exhausted
<1>3. FileComplete(t) = FileCoverage
  BY <1>1 DEF FileComplete, FileCoverage, Exhausted
<1>4. RepoComplete(t) = RepoCoverage
  BY <1>2 DEF RepoComplete, RepoCoverage, Exhausted
<1> QED BY <1>3, <1>4 DEF Snapshot

\* A query with no active source has no child.
LEMMA Childless ==
  ASSUME TypeOK, Begun, Lanes, isCurrent(generation), active = 0
  PROVE  \A s \in Source : stream[generation][s] = "none"
<1>1. Cardinality(LiveAt(stream, generation)) = 0
  BY DEF Lanes, Counters, LaneAccounting, LiveOf
<1>2. LiveAt(stream, generation) \in SUBSET Source
  BY DEF LiveAt
<1>3. LiveAt(stream, generation) = {}
  BY <1>1, <1>2, SourceSubset, FS_EmptySet
<1> QED BY <1>3 DEF LiveAt

\* What SettledTruth says of the scans.
ScansTold ==
  isCurrent(generation) /\ Settled /\ ~emitTimer =>
    shown.complete = FileCoverage /\ shown.repoComplete = RepoCoverage

Coverage == Tracked /\ Summed /\ ScansTold

\* A step that leaves the scans of the query alone, and does not touch what it
\* claims unless a snapshot is due, keeps its coverage true.
LEMMA CoverageKept ==
  ASSUME Coverage,
         UNCHANGED <<generation, phase, closed, queued, active, status, plan, stream,
                     fileIncomplete, repoIncomplete, fileDone, repoDone>>,
         emitTimer' \/ UNCHANGED <<emitTimer, shown, planIncomplete, focused, indexPending,
                                   indexUnavailable>>
  PROVE  Coverage'
<1>1. Tracked'
  BY DEF Coverage, Tracked, isCurrent
<1>2. Summed'
  BY DEF Coverage, Summed, Settled, Exhausted, isCurrent
<1>3. ScansTold'
  <2>1. CASE emitTimer'
    BY <2>1 DEF ScansTold
  <2>2. CASE UNCHANGED <<emitTimer, shown, planIncomplete, focused, indexPending,
                         indexUnavailable>>
    <3>1. /\ isCurrent(generation)' <=> isCurrent(generation)
          /\ Settled' <=> Settled
          /\ Exhausted(FileSources(plan))' = Exhausted(FileSources(plan))
          /\ Exhausted(RepoSources(plan))' = Exhausted(RepoSources(plan))
      BY DEF isCurrent, Settled, Exhausted
    <3> QED BY <2>2, <3>1 DEF Coverage, ScansTold, FileCoverage, RepoCoverage
  <2> QED BY <2>1, <2>2
<1> QED BY <1>1, <1>2, <1>3 DEF Coverage

\* After pump the coverage of the current query is true.
LEMMA CoveragePumped ==
  ASSUME isCurrent(generation)',
         Agreeing(queued', status', stream'[generation], plan'),
         Faulted(fileIncomplete', repoIncomplete', status', plan'),
         generation' = generation, phase' # "scanning" => plan' = {},
         \/ /\ queued' = {} /\ active' = 0
            /\ fileDone' = (\A s \in FileSources(plan') : status'[s] = "exhausted")
            /\ repoDone' = (\A s \in RepoSources(plan') : status'[s] = "exhausted")
            /\ shown' = Snapshot(TRUE)'
         \/ ~(queued' = {} /\ active' = 0)
  PROVE  Coverage'
<1>1. Tracked'
  BY DEF Tracked
<1>2. CASE ~(queued' = {} /\ active' = 0)
  BY <1>1, <1>2 DEF Coverage, Summed, ScansTold, Settled
<1>3. CASE /\ fileDone' = (\A s \in FileSources(plan') : status'[s] = "exhausted")
           /\ repoDone' = (\A s \in RepoSources(plan') : status'[s] = "exhausted")
           /\ shown' = Snapshot(TRUE)'
  <2>1. (fileDone = Exhausted(FileSources(plan)) /\ repoDone = Exhausted(RepoSources(plan)))'
    BY <1>3 DEF Exhausted
  <2>2. (Exhausted(FileSources(plan)) => ~fileIncomplete)'
        /\ (Exhausted(RepoSources(plan)) => ~repoIncomplete)'
    BY DEF Faulted, Spoilt, Exhausted
  <2>3. FileComplete(TRUE)' = FileCoverage'
    BY <1>3, <2>1, <2>2 DEF FileComplete, FileCoverage, Exhausted
  <2>4. RepoComplete(TRUE)' = RepoCoverage'
    BY <1>3, <2>1, <2>2 DEF RepoComplete, RepoCoverage, Exhausted
  <2>5. shown'.complete = FileComplete(TRUE)' /\ shown'.repoComplete = RepoComplete(TRUE)'
    BY <1>3 DEF Snapshot
  <2>6. ScansTold'
    BY <2>3, <2>4, <2>5 DEF ScansTold, FileCoverage, RepoCoverage
  <2> QED BY <1>1, <2>1, <2>6 DEF Coverage, Summed
<1> QED BY <1>2, <1>3

\* No step makes a settled query claim what its scans did not do.
LEMMA CoverageStep ==
  ASSUME TypeOK, Begun, Lanes, TypeOK', Coverage, [Next]_vars
  PROVE  Coverage'
<1> DEFINE same == UNCHANGED <<generation, phase, closed, queued, active, status, plan, stream,
                               fileIncomplete, repoIncomplete, fileDone, repoDone>>
           calm == UNCHANGED <<emitTimer, shown, planIncomplete, focused, indexPending,
                               indexUnavailable>>
<1>0. ASSUME ~isCurrent(generation)' PROVE Coverage'
  BY <1>0 DEF Coverage, Tracked, Summed, ScansTold
<1>1. ASSUME NEW short \in BOOLEAN, NEW focus \in BOOLEAN, NEW ok \in SUBSET Helper,
             Request(short, focus, ok)
      PROVE  Coverage'
  <2>1. /\ generation' = generation + 1 /\ generation \in Nat /\ generation' \in Gen
        /\ phase' # "scanning" /\ plan' = {} /\ queued' = {}
        /\ ~fileIncomplete' /\ ~repoIncomplete'
    BY <1>1, BoundsAssumption DEF Request, FreshScans, TypeOK, Gen
  <2>2. \A s \in Source : stream'[generation'][s] = "none"
    <3>1. \A s \in Source : stream[generation'][s] = "none"
      BY <2>1 DEF Lanes, QueueShape
    <3>2. CASE generation = 0
      BY <1>1, <3>1, <3>2 DEF Request
    <3>3. CASE generation # 0
      <4>1. stream' = [stream EXCEPT ![generation] = [s \in Source |-> Canceled(@[s])]]
        BY <1>1, <3>3 DEF Request
      <4>2. stream'[generation'] = stream[generation']
        BY <2>1, <4>1 DEF TypeOK
      <4> QED BY <3>1, <4>2
    <3> QED BY <3>2, <3>3
  <2>3. Agreeing(queued, status, stream[generation], plan)'
    BY <2>1, <2>2 DEF Agreeing
  <2>4. Faulted(fileIncomplete, repoIncomplete, status, plan)'
    BY <2>1 DEF Faulted
  <2> QED BY <2>1, <2>3, <2>4 DEF Coverage, Tracked, Summed, ScansTold, Settled
<1>2. CASE Settling
  <2>1. same /\ calm
    BY <1>2 DEF Settling, HelperSettles, laneVars, scanVars, indexVars, incompleteVars
  <2> QED BY <2>1, CoverageKept
<1>3. ASSUME NEW g \in Gen, NEW h \in Helper, HelperReaped(g, h) PROVE Coverage'
  <2>1. same /\ calm
    BY <1>3 DEF HelperReaped, laneVars, scanVars, queryVars, indexVars, incompleteVars
  <2> QED BY <2>1, CoverageKept
<1>4. ASSUME NEW j \in Gen, NEW M \in SUBSET (Partition \ {Base}), NEW R \in SUBSET M,
             NEW partial \in BOOLEAN, NEW refused \in BOOLEAN,
             StartSources(j, M, R, partial, refused)
      PROVE  Coverage'
  <2> DEFINE st == [s \in Source |-> IF s \in plan' THEN "queued" ELSE "absent"]
  <2>1. /\ phase = "planning" /\ ~closed /\ phase' = "scanning" /\ closed' = closed
        /\ generation' = generation /\ generation \in Gen /\ isCurrent(j)
    BY <1>4, GoingOn
  <2>2. isCurrent(generation) /\ isCurrent(generation)'
    BY <2>1 DEF isCurrent
  <2>3. Pump(plan', st, stream, runningTotal, runningLocal, runningMounted, 0,
             fileIncomplete, repoIncomplete, refused)
    BY <1>4, <2>1 DEF StartSources
  <2>4. /\ plan' \in SUBSET Source /\ stream \in [Gen -> [Source -> Stop]]
        /\ st \in [Source -> Status]
    BY DEF TypeOK, Status
  <2>5. Agreeing(plan', st, stream[generation], plan')
    <3>1. \A s \in Source : stream[generation][s] = "none"
      BY <2>1 DEF Lanes, QueueShape, LiveOf, LiveAt
    <3> QED BY <2>4, <3>1 DEF Agreeing
  <2>6. ~fileIncomplete /\ ~repoIncomplete
    <3>1. plan = {} /\ Faulted(fileIncomplete, repoIncomplete, status, plan)
      BY <2>1, <2>2 DEF Coverage, Tracked
    <3> QED BY <3>1 DEF Faulted, Spoilt, FileSources, RepoSources
  <2>7. Faulted(fileIncomplete, repoIncomplete, st, plan')
    BY <2>6 DEF Faulted
  <2> HIDE DEF st
  <2>8. /\ Agreeing(queued', status', stream'[generation], plan')
        /\ Faulted(fileIncomplete', repoIncomplete', status', plan')
        /\ \/ /\ queued' = {} /\ active' = 0
              /\ fileDone' = (\A s \in FileSources(plan') : status'[s] = "exhausted")
              /\ repoDone' = (\A s \in RepoSources(plan') : status'[s] = "exhausted")
              /\ shown' = Snapshot(TRUE)'
           \/ ~(queued' = {} /\ active' = 0)
    BY <2>1, <2>3, <2>4, <2>5, <2>7, PumpTracks
  <2> QED BY <2>1, <2>2, <2>8, CoveragePumped
<1>5. ASSUME NEW g \in Gen, NEW s \in Source, SourceFails(g, s) PROVE Coverage'
  <2>1. /\ UNCHANGED <<generation, phase, closed, queued, active, status, plan,
                       fileIncomplete, repoIncomplete, fileDone, repoDone>>
        /\ calm
    BY <1>5 DEF SourceFails, scanVars, queryVars, indexVars, incompleteVars
  <2>2. /\ stream[g][s] = "running" /\ stream'[g][s] = "failing"
        /\ \A j \in Gen, t \in Source : <<j, t>> # <<g, s>> => stream'[j][t] = stream[j][t]
    BY <1>5 DEF SourceFails, TypeOK
  <2>3. Tracked'
    <3> SUFFICES ASSUME isCurrent(generation) PROVE Agreeing(queued, status, stream[generation], plan)'
      BY <2>1 DEF Coverage, Tracked, isCurrent
    <3>1. generation \in Gen
      BY CurrentGen
    <3>2. Agreeing(queued, status, stream[generation], plan)
      BY DEF Coverage, Tracked
    <3> QED BY <2>1, <2>2, <3>1, <3>2 DEF Agreeing
  <2>4. /\ isCurrent(generation)' <=> isCurrent(generation)
        /\ Settled' <=> Settled
        /\ Exhausted(FileSources(plan))' = Exhausted(FileSources(plan))
        /\ Exhausted(RepoSources(plan))' = Exhausted(RepoSources(plan))
    BY <2>1 DEF isCurrent, Settled, Exhausted
  <2>5. Summed'
    BY <2>1, <2>4 DEF Coverage, Summed
  <2>6. ScansTold'
    <3>1. FileCoverage' = FileCoverage /\ RepoCoverage' = RepoCoverage
      BY <2>1, <2>4 DEF FileCoverage, RepoCoverage
    <3>2. isCurrent(generation) /\ Settled /\ ~emitTimer
            => shown.complete = FileCoverage /\ shown.repoComplete = RepoCoverage
      BY DEF Coverage, ScansTold, FileCoverage, RepoCoverage
    <3>3. (isCurrent(generation) /\ Settled /\ ~emitTimer
             => shown.complete = FileCoverage /\ shown.repoComplete = RepoCoverage)'
      BY <2>1, <2>4, <3>1, <3>2
    <3> QED BY <3>3 DEF ScansTold, FileCoverage, RepoCoverage
  <2> QED BY <2>3, <2>5, <2>6 DEF Coverage
<1>6. ASSUME NEW g \in Gen, NEW s \in Source, SourceTimesOut(g, s) PROVE Coverage'
  <2>1. UNCHANGED <<generation, phase, closed, queued, active, plan, fileDone, repoDone,
                    planIncomplete, focused, indexPending, indexUnavailable>>
    BY <1>6 DEF SourceTimesOut, queryVars, indexVars
  <2>2. /\ stream[g][s] \in {"running", "failing", "canceled"} /\ stream'[g][s] = "timed-out"
        /\ \A j \in Gen, t \in Source : <<j, t>> # <<g, s>> => stream'[j][t] = stream[j][t]
    BY <1>6 DEF SourceTimesOut, TypeOK
  <2>3. CASE isCurrent(g)
    <3>1. isCurrent(generation) /\ g = generation /\ isCurrent(generation)'
      BY <2>1, <2>3 DEF isCurrent
    <3>2. /\ Agreeing(queued, status, stream[generation], plan)
          /\ Faulted(fileIncomplete, repoIncomplete, status, plan)
          /\ phase # "scanning" => plan = {}
      BY <3>1 DEF Coverage, Tracked
    <3>3. status[s] = "running" /\ s \in plan /\ s \notin queued
      BY <2>2, <3>1, <3>2 DEF Agreeing
    <3>4. /\ status' = [status EXCEPT ![s] = "timed-out"] /\ emitTimer' = TRUE
          /\ fileIncomplete' = (fileIncomplete \/ ~s.repo)
          /\ repoIncomplete' = (repoIncomplete \/ s.repo)
      BY <1>6, <2>3, <3>3 DEF SourceTimesOut, SchedulePublish
    <3>5. status'[s] = "timed-out" /\ \A t \in Source : t # s => status'[t] = status[t]
      BY <3>4 DEF TypeOK
    <3>6. Agreeing(queued, status, stream[generation], plan)'
      BY <2>1, <2>2, <3>1, <3>2, <3>3, <3>5 DEF Agreeing
    <3>7. Faulted(fileIncomplete, repoIncomplete, status, plan)'
      <4>1. \A t \in plan : status[t] \in {"timed-out", "failed"} => status'[t] \in {"timed-out", "failed"}
        BY <3>5 DEF TypeOK
      <4>2. fileIncomplete' => Spoilt(FileSources(plan), status')
        BY <3>2, <3>3, <3>4, <3>5, <4>1 DEF Faulted, Spoilt, FileSources
      <4>3. repoIncomplete' => Spoilt(RepoSources(plan), status')
        BY <3>2, <3>3, <3>4, <3>5, <4>1 DEF Faulted, Spoilt, RepoSources
      <4> QED BY <2>1, <4>2, <4>3 DEF Faulted
    <3>8. active # 0
      BY <2>2, <3>1, Childless
    <3> QED BY <2>1, <3>2, <3>4, <3>6, <3>7, <3>8
            DEF Coverage, Tracked, Summed, ScansTold, Settled
  <2>4. CASE ~isCurrent(g)
    <3>1. UNCHANGED <<status, fileIncomplete, repoIncomplete, emitTimer, shown>>
      BY <1>6, <2>4 DEF SourceTimesOut, incompleteVars
    <3>2. isCurrent(generation) => g # generation
      BY <2>4
    <3>3. Tracked'
      <4> SUFFICES ASSUME isCurrent(generation) PROVE Agreeing(queued, status, stream[generation], plan)'
        BY <2>1, <3>1 DEF Coverage, Tracked, isCurrent
      <4>1. generation \in Gen
        BY CurrentGen
      <4>2. Agreeing(queued, status, stream[generation], plan)
        BY DEF Coverage, Tracked
      <4> QED BY <2>1, <2>2, <3>1, <3>2, <4>1, <4>2 DEF Agreeing
    <3>4. /\ isCurrent(generation)' <=> isCurrent(generation)
          /\ Settled' <=> Settled
          /\ Exhausted(FileSources(plan))' = Exhausted(FileSources(plan))
          /\ Exhausted(RepoSources(plan))' = Exhausted(RepoSources(plan))
      BY <2>1, <3>1 DEF isCurrent, Settled, Exhausted
    <3>5. Summed'
      BY <2>1, <3>1, <3>4 DEF Coverage, Summed
    <3>6. ScansTold'
      <4>1. FileCoverage' = FileCoverage /\ RepoCoverage' = RepoCoverage
        BY <2>1, <3>1, <3>4 DEF FileCoverage, RepoCoverage
      <4>2. isCurrent(generation) /\ Settled /\ ~emitTimer
              => shown.complete = FileCoverage /\ shown.repoComplete = RepoCoverage
        BY DEF Coverage, ScansTold, FileCoverage, RepoCoverage
      <4>3. (isCurrent(generation) /\ Settled /\ ~emitTimer
               => shown.complete = FileCoverage /\ shown.repoComplete = RepoCoverage)'
        BY <2>1, <3>1, <3>4, <4>1, <4>2
      <4> QED BY <4>3 DEF ScansTold, FileCoverage, RepoCoverage
    <3> QED BY <3>3, <3>5, <3>6 DEF Coverage
  <2> QED BY <2>3, <2>4
<1>7. ASSUME NEW s \in Source, NEW p \in Path, NEW dated \in BOOLEAN,
              AcceptRecord(s, p, dated) PROVE Coverage'
  <2>1. same /\ emitTimer'
    BY <1>7 DEF AcceptRecord, laneVars, scanVars, queryVars, incompleteVars, SchedulePublish
  <2> QED BY <2>1, CoverageKept
<1>8. ASSUME NEW g \in Gen, NEW s \in Source, NEW terminal \in Status,
             SourceCloses(g, s, terminal)
      PROVE  Coverage'
  <2>1. UNCHANGED <<plan, generation, phase, closed, planIncomplete>>
    BY <1>8 DEF SourceCloses, queryVars
  <2>2. CASE isCurrent(generation)
    <3> DEFINE str == [stream EXCEPT ![g][s] = "none"]
               own == isCurrent(g)
               broken == own /\ terminal \in {"timed-out", "failed"}
               st == IF own THEN [status EXCEPT ![s] = terminal] ELSE status
               fi == fileIncomplete \/ (broken /\ ~s.repo)
               ri == repoIncomplete \/ (broken /\ s.repo)
    <3>1. generation \in Gen /\ isCurrent(generation)' /\ (own <=> g = generation)
      BY <2>1, <2>2, CurrentGen DEF isCurrent
    <3>2. \E total, local, mounted, act :
            Pump(queued, st, str, total, local, mounted, act, fi, ri, own)
      BY <1>8, <2>2 DEF SourceCloses
    <3>3. /\ Agreeing(queued, status, stream[generation], plan)
          /\ Faulted(fileIncomplete, repoIncomplete, status, plan)
          /\ phase # "scanning" => plan = {}
      BY <2>2 DEF Coverage, Tracked
    <3>4. /\ str \in [Gen -> [Source -> Stop]] /\ st \in [Source -> Status]
          /\ queued \in SUBSET Source /\ queued \subseteq plan' /\ plan' \in SUBSET Source
      BY <2>1 DEF TypeOK, Stop
    <3>5. stream[g][s] # "none" /\ terminal \in Terminal(stream[g][s])
      BY <1>8 DEF SourceCloses
    <3>6. /\ \A t \in Source : str[generation][t] =
               IF own /\ t = s THEN "none" ELSE stream[generation][t]
          /\ \A t \in Source : st[t] = IF own /\ t = s THEN terminal ELSE status[t]
      BY <3>1 DEF TypeOK
    <3>7. own => /\ stream[generation][s] # "none" /\ s \in plan /\ s \notin queued
                 /\ status[s] \in {"timed-out", "failed"} => terminal \in {"timed-out", "failed"}
      <4> SUFFICES ASSUME own
                   PROVE  /\ stream[generation][s] # "none" /\ s \in plan /\ s \notin queued
                          /\ status[s] \in {"timed-out", "failed"} => terminal \in {"timed-out", "failed"}
        OBVIOUS
      <4>1. stream[generation][s] # "none" /\ terminal \in Terminal(stream[generation][s])
        BY <3>1, <3>5
      <4>2. /\ s \in plan /\ s \notin queued
            /\ stream[generation][s] \in {"none", "running", "failing", "timed-out"}
            /\ stream[generation][s] \in {"running", "failing"} => status[s] = "running"
            /\ stream[generation][s] = "timed-out" => status[s] = "timed-out"
        BY <3>3, <4>1 DEF Agreeing
      <4>3. stream[generation][s] = "timed-out" => terminal = "timed-out"
        BY <4>1 DEF Terminal
      <4> QED BY <4>1, <4>2, <4>3
    <3> HIDE DEF str, st, own
    <3>8. Agreeing(queued, st, str[generation], plan')
      BY <2>1, <3>3, <3>6, <3>7 DEF Agreeing
    <3>9. Faulted(fi, ri, st, plan')
      <4>1. \A t \in plan : status[t] \in {"timed-out", "failed"} => st[t] \in {"timed-out", "failed"}
        BY <3>4, <3>6, <3>7, <2>1
      <4>2. broken => s \in plan /\ st[s] \in {"timed-out", "failed"}
        BY <3>6, <3>7
      <4> HIDE DEF broken
      <4>3. fi => Spoilt(FileSources(plan), st)
        BY <3>3, <4>1, <4>2 DEF Faulted, Spoilt, FileSources
      <4>4. ri => Spoilt(RepoSources(plan), st)
        BY <3>3, <4>1, <4>2 DEF Faulted, Spoilt, RepoSources
      <4> QED BY <2>1, <4>3, <4>4 DEF Faulted
    <3> HIDE DEF fi, ri
    <3>10. /\ Agreeing(queued', status', stream'[generation], plan')
           /\ Faulted(fileIncomplete', repoIncomplete', status', plan')
           /\ \/ /\ queued' = {} /\ active' = 0
                 /\ fileDone' = (\A t \in FileSources(plan') : status'[t] = "exhausted")
                 /\ repoDone' = (\A t \in RepoSources(plan') : status'[t] = "exhausted")
                 /\ shown' = Snapshot(TRUE)'
              \/ ~(queued' = {} /\ active' = 0)
      BY <2>1, <3>1, <3>2, <3>4, <3>8, <3>9, PumpTracks
    <3> QED BY <2>1, <3>1, <3>3, <3>10, CoveragePumped
  <2>3. CASE ~isCurrent(generation)
    BY <1>0, <2>1, <2>3 DEF isCurrent
  <2> QED BY <2>2, <2>3
<1>9. ASSUME NEW g \in Gen, NEW w \in Worker, NEW P \in SUBSET Path, NEW ok \in BOOLEAN,
             IndexAnswers(g, w, P, ok)
      PROVE  Coverage'
  <2>1. same /\ UNCHANGED <<planIncomplete, focused>>
    BY <1>9 DEF IndexAnswers, laneVars, scanVars, queryVars, incompleteVars
  <2>2. emitTimer' \/ UNCHANGED <<emitTimer, shown, indexPending, indexUnavailable>>
    BY <1>9 DEF IndexAnswers, SchedulePublish
  <2> QED BY <2>1, <2>2, CoverageKept
<1>10. CASE EmitTimer
  <2>1. same /\ UNCHANGED <<planIncomplete, focused, indexPending, indexUnavailable>>
    BY <1>10 DEF EmitTimer, laneVars, scanVars, queryVars, indexVars, incompleteVars
  <2>2. isCurrent(generation) /\ shown' = Snapshot(FALSE)
    BY <1>10 DEF EmitTimer
  <2>3. Tracked' /\ Summed'
    BY <2>1 DEF Coverage, Tracked, Summed, Settled, Exhausted, isCurrent
  <2>4. ScansTold'
    <3> SUFFICES ASSUME Settled
                 PROVE  shown'.complete = FileCoverage /\ shown'.repoComplete = RepoCoverage
      <4>1. Settled' <=> Settled
        BY <2>1 DEF Settled
      <4>2. FileCoverage' = FileCoverage /\ RepoCoverage' = RepoCoverage
        BY <2>1 DEF FileCoverage, RepoCoverage, Exhausted
      <4> QED BY <4>1, <4>2 DEF ScansTold, FileCoverage, RepoCoverage
    <3>1. /\ Faulted(fileIncomplete, repoIncomplete, status, plan)
          /\ fileDone = Exhausted(FileSources(plan)) /\ repoDone = Exhausted(RepoSources(plan))
      BY <2>2 DEF Coverage, Tracked, Summed
    <3> QED BY <2>2, <3>1, SnapshotTrue
  <2> QED BY <2>3, <2>4 DEF Coverage
<1>11. CASE Close
  BY <1>0, <1>11 DEF Close, isCurrent
<1>12. CASE UNCHANGED vars
  <2>1. same /\ calm
    BY <1>12 DEF vars, laneVars, scanVars, queryVars, indexVars, incompleteVars
  <2> QED BY <2>1, CoverageKept
<1>13. CASE \E g \in Gen : Abandons(g)
  <2>1. same /\ calm
    BY <1>13 DEF Abandons, laneVars, scanVars, indexVars, incompleteVars
  <2> QED BY <2>1, CoverageKept
<1> QED BY <1>1, <1>2, <1>3, <1>4, <1>5, <1>6, <1>7, <1>8, <1>9, <1>10, <1>11, <1>12, <1>13
        DEF Next, Starting, Closing

\* The plan of a query is known only when both its helpers were heard of, and
\* one that failed leaves it incomplete.
Answered ==
  /\ phase = "planning" => \A h \in Helper : answer[h] # "idle"
  /\ phase = "scanning" => planIncomplete \/ \A h \in Helper : answer[h] = "ok"

LEMMA AnsweredStep ==
  ASSUME TypeOK, Begun, Answered, [Next]_vars
  PROVE  Answered'
<1>1. CASE \E short, focus \in BOOLEAN, ok \in SUBSET Helper : Request(short, focus, ok)
  BY <1>1 DEF Request, Answered
<1>2. ASSUME NEW h \in Helper, NEW v \in Answer, NEW e \in BOOLEAN, HelperSettles(h, v, e)
      PROVE  Answered'
  <2>1. answer' = [answer EXCEPT ![h] = v] /\ v # "idle" /\ answer[h] = "waiting"
        /\ UNCHANGED <<phase, planIncomplete>>
    BY <1>2 DEF HelperSettles
  <2>2. \A k \in Helper : answer'[k] = IF k = h THEN v ELSE answer[k]
    BY <2>1 DEF TypeOK
  <2> QED BY <2>1, <2>2 DEF Answered
<1>3. ASSUME NEW j \in Gen, NEW M \in SUBSET (Partition \ {Base}), NEW R \in SUBSET M,
             NEW partial \in BOOLEAN, NEW refused \in BOOLEAN,
             StartSources(j, M, R, partial, refused)
      PROVE  Answered'
  <2>1. /\ isCurrent(j) /\ phase = "planning" /\ phase' = "scanning" /\ answer' = answer
        /\ answer["mountinfo"] = "failed" => partial
        /\ answer["mountinfo"] # "waiting"
    BY <1>3, GoingOn
  <2>3. planIncomplete' = (partial \/ answer["realpath"] # "ok")
    BY <1>3, <2>1 DEF StartSources
  <2>2. answer["mountinfo"] \in Answer \ {"idle"}
    BY <2>1 DEF Answered, TypeOK, Helper
  <2> QED BY <2>1, <2>2, <2>3 DEF Answered, Helper, Answer
<1>4. CASE UNCHANGED <<phase, answer, planIncomplete>>
  BY <1>4 DEF Answered
<1>5. CASE \/ \E g \in Gen, h \in Helper : HelperReaped(g, h)
           \/ \E g \in Gen : Abandons(g)
           \/ \E g \in Gen, s \in Source : SourceFails(g, s) \/ SourceTimesOut(g, s)
           \/ EmitTimer \/ Close \/ UNCHANGED vars
  BY <1>4, <1>5 DEF HelperReaped, Abandons, SourceFails, SourceTimesOut, EmitTimer, Close, vars,
                    queryVars
<1>6. CASE \/ \E s \in Source, p \in Path, dated \in BOOLEAN : AcceptRecord(s, p, dated)
           \/ \E g \in Gen, s \in Source : Closing(g, s)
           \/ \E g \in Gen, w \in Worker, P \in SUBSET Path, ok \in BOOLEAN : IndexAnswers(g, w, P, ok)
  BY <1>4, <1>6 DEF AcceptRecord, Closing, SourceCloses, IndexAnswers, queryVars
<1> QED BY <1>1, <1>2, <1>3, <1>5, <1>6 DEF Next, Settling, Starting

\* SettledTruth for every number of queries, mounts, lanes and paths: what a
\* settled query last said of its coverage is what its scans did, whatever
\* timed out, failed, was refused a process, or answered late.
THEOREM CoverageTrue == Spec => []SettledTruth
<1>1. Init => Coverage /\ Answered
  BY DEF Init, Coverage, Tracked, Summed, ScansTold, isCurrent, Answered
<1>2. TypeOK /\ Begun /\ Lanes /\ TypeOK' /\ Coverage /\ [Next]_vars => Coverage'
  BY CoverageStep
<1>3. TypeOK /\ Begun /\ Answered /\ [Next]_vars => Answered'
  BY AnsweredStep
<1>4. Coverage /\ Answered => SettledTruth
  BY DEF Coverage, Answered, ScansTold, SettledTruth, FileCoverage, RepoCoverage, Settled
<1> QED BY <1>1, <1>2, <1>3, <1>4, Typed, LanesCorrect, PTL DEF Spec

-----------------------------------------------------------------------------
(* What the window is shown.                                                *)

\* pump writes a snapshot of its own, or asks for no less than was due.
LEMMA PumpShows ==
  ASSUME NEW q, NEW st, NEW str, NEW total, NEW local, NEW mounted, NEW act,
         NEW fileInc, NEW repoInc, NEW scheduled,
         Pump(q, st, str, total, local, mounted, act, fileInc, repoInc, scheduled)
  PROVE  shown' = Snapshot(TRUE)' \/ (shown' = shown /\ (emitTimer => emitTimer'))
BY DEF Pump, PumpStarting

\* What ShownIsUpToDate says, when it has to.
UpToDate ==
  /\ shown.rows = Best(rows, MaxResults) /\ shown.repos = Best(repos, MaxResults)
  /\ shown.capped = (capped \/ Cardinality(rows) > MaxResults)

LEMMA UpToDateStep ==
  ASSUME TypeOK, Begun, ShownIsUpToDate, [Next]_vars
  PROVE  ShownIsUpToDate'
<1>0. (isCurrent(generation) /\ ~emitTimer => UpToDate) <=> ShownIsUpToDate
  BY DEF ShownIsUpToDate, UpToDate
<1>1. ASSUME NEW t, shown' = Snapshot(t)' PROVE ShownIsUpToDate'
  <2>1. UpToDate'
    BY <1>1 DEF Snapshot, UpToDate
  <2> QED BY <2>1 DEF ShownIsUpToDate, UpToDate
<1>2. ASSUME emitTimer' \/ closed' PROVE ShownIsUpToDate'
  BY <1>2 DEF ShownIsUpToDate, isCurrent
<1>3. ASSUME UNCHANGED <<rows, repos, capped, shown, generation, phase, closed>>,
             emitTimer => emitTimer'
      PROVE  ShownIsUpToDate'
  <2>1. isCurrent(generation)' <=> isCurrent(generation)
    BY <1>3 DEF isCurrent
  <2>2. UpToDate' <=> UpToDate
    BY <1>3 DEF UpToDate
  <2>3. (isCurrent(generation) /\ ~emitTimer => UpToDate)'
    BY <1>0, <1>3, <2>1, <2>2
  <2> QED BY <2>3 DEF ShownIsUpToDate, UpToDate
<1>4. CASE \E short, focus \in BOOLEAN, ok \in SUBSET Helper : Request(short, focus, ok)
  BY <1>1, <1>4 DEF Request
<1>5. CASE Settling
  BY <1>3, <1>5 DEF Settling, HelperSettles, findingVars
<1>6. CASE \E g \in Gen, h \in Helper : HelperReaped(g, h)
  BY <1>3, <1>6 DEF HelperReaped, findingVars, queryVars
<1>7. ASSUME NEW j \in Gen, NEW M \in SUBSET (Partition \ {Base}), NEW R \in SUBSET M,
             NEW partial \in BOOLEAN, NEW refused \in BOOLEAN,
             StartSources(j, M, R, partial, refused)
      PROVE  ShownIsUpToDate'
  <2>2. /\ UNCHANGED <<rows, repos, capped, generation, closed>> /\ isCurrent(j)
        /\ phase = "planning" /\ phase' = "scanning"
    BY <1>7, GoingOn DEF findingVars
  <2>5. \E q, st, str, total, local, mounted, act, fileInc, repoInc, scheduled :
          Pump(q, st, str, total, local, mounted, act, fileInc, repoInc, scheduled)
    BY <1>7, <2>2 DEF StartSources
  <2>3. shown' = Snapshot(TRUE)' \/ (shown' = shown /\ (emitTimer => emitTimer'))
    BY <2>5, PumpShows
  <2>4. CASE shown' = shown /\ (emitTimer => emitTimer')
    <3>1. isCurrent(generation)' <=> isCurrent(generation)
      BY <2>2 DEF isCurrent
    <3>2. UpToDate' <=> UpToDate
      BY <2>2, <2>4 DEF UpToDate
    <3>3. (isCurrent(generation) /\ ~emitTimer => UpToDate)'
      BY <1>0, <2>4, <3>1, <3>2
    <3> QED BY <3>3 DEF ShownIsUpToDate, UpToDate
  <2> QED BY <1>1, <2>3, <2>4
<1>8. CASE \E g \in Gen, s \in Source : SourceFails(g, s)
  BY <1>3, <1>8 DEF SourceFails, findingVars, queryVars
<1>9. CASE \E g \in Gen, s \in Source : SourceTimesOut(g, s)
  BY <1>3, <1>9 DEF SourceTimesOut, SchedulePublish, findingVars, queryVars
<1>10. CASE \E s \in Source, p \in Path, dated \in BOOLEAN : AcceptRecord(s, p, dated)
  BY <1>2, <1>10 DEF AcceptRecord, SchedulePublish
<1>11. CASE \E g \in Gen, s \in Source : Closing(g, s)
  <2>1. PICK g \in Gen, s \in Source, terminal \in Status : SourceCloses(g, s, terminal)
    BY <1>11 DEF Closing
  <2>2. UNCHANGED <<rows, repos, capped, generation, phase, closed>>
    BY <2>1 DEF SourceCloses, findingVars, queryVars
  <2>3. shown' = Snapshot(TRUE)' \/ (shown' = shown /\ (emitTimer => emitTimer'))
    BY <2>1, PumpShows DEF SourceCloses
  <2> QED BY <1>1, <1>3, <2>2, <2>3
<1>12. CASE \E g \in Gen, w \in Worker, P \in SUBSET Path, ok \in BOOLEAN :
              IndexAnswers(g, w, P, ok)
  <2>1. PICK g \in Gen, w \in Worker, P \in SUBSET Path, ok \in BOOLEAN :
          IndexAnswers(g, w, P, ok)
    BY <1>12
  <2>2. CASE isCurrent(g)
    BY <1>2, <2>1, <2>2 DEF IndexAnswers, SchedulePublish
  <2>3. CASE ~isCurrent(g)
    BY <1>3, <2>1, <2>3 DEF IndexAnswers, queryVars
  <2> QED BY <2>2, <2>3
<1>13. CASE EmitTimer
  <2>1. UNCHANGED <<rows, repos, capped>> /\ shown' = Snapshot(FALSE)
    BY <1>13 DEF EmitTimer, findingVars
  <2>2. UpToDate'
    BY <2>1 DEF Snapshot, UpToDate
  <2> QED BY <2>2 DEF ShownIsUpToDate, UpToDate
<1>14. CASE Close
  BY <1>2, <1>14 DEF Close
<1>15. CASE UNCHANGED vars
  BY <1>3, <1>15 DEF vars, findingVars, queryVars
<1>16. CASE \E g \in Gen : Abandons(g)
  BY <1>3, <1>16 DEF Abandons, findingVars
<1> QED BY <1>4, <1>5, <1>6, <1>7, <1>8, <1>9, <1>10, <1>11, <1>12, <1>13, <1>14, <1>15, <1>16
        DEF Next, Starting

\* ShownIsUpToDate for every number of queries, mounts, lanes and paths: no
\* finding is lost between the records and the window.
THEOREM ShownAlways == Spec => []ShownIsUpToDate
<1>1. Init => ShownIsUpToDate
  BY DEF Init, ShownIsUpToDate, isCurrent
<1>2. TypeOK /\ Begun /\ ShownIsUpToDate /\ [Next]_vars => ShownIsUpToDate'
  BY UpToDateStep
<1> QED BY <1>1, <1>2, Typed, PTL DEF Spec

-----------------------------------------------------------------------------
(* The findings that are kept.                                              *)

\* The findings of K that rank before x.
Ahead(x, K) == {y \in K : Before(y, x)}

LEMMA FindingFinite == IsFiniteSet(Finding)
<1> DEFINE D == Gen \X (Path \X BOOLEAN)
           f == [d \in D |-> [gen |-> d[1], path |-> d[2][1], dated |-> d[2][2]]]
<1>1. IsFiniteSet(Gen) /\ IsFiniteSet(Path)
  BY FS_Interval, BoundsAssumption DEF Gen
<1>2. IsFiniteSet(BOOLEAN)
  <2>1. BOOLEAN = {TRUE} \cup {FALSE}
    OBVIOUS
  <2>2. IsFiniteSet({TRUE})
    BY FS_Singleton
  <2>3. QED BY <2>1, <2>2, FS_AddElement
<1>3. IsFiniteSet(D)
  <2>1. IsFiniteSet(Path \X BOOLEAN)
    BY <1>1, <1>2, FS_Product
  <2> QED BY <1>1, <2>1, FS_Product
<1>4. f \in Surjection(D, Finding)
  <2>1. f \in [D -> Finding]
    BY DEF Finding
  <2>2. \A s \in Finding : \E d \in D : f[d] = s
    <3> TAKE s \in Finding
    <3>1. <<s.gen, <<s.path, s.dated>>>> \in D /\ f[<<s.gen, <<s.path, s.dated>>>>] = s
      BY DEF Finding
    <3> QED BY <3>1
  <2> QED BY <2>1, <2>2 DEF Surjection
<1> QED BY <1>3, <1>4, FS_Surjection

LEMMA FindingSubset ==
  ASSUME NEW K \in SUBSET Finding
  PROVE  IsFiniteSet(K) /\ Cardinality(K) \in Nat
BY FindingFinite, FS_Subset, FS_CardinalityType

\* A subset of the findings is no larger.
LEMMA FindingLess ==
  ASSUME NEW K \in SUBSET Finding, NEW J \in SUBSET K
  PROVE  Cardinality(J) <= Cardinality(K)
BY FindingSubset, FS_Subset

\* compareFiles is a strict order.
LEMMA BeforeOrder ==
  /\ \A x \in Finding : ~Before(x, x)
  /\ \A x, y, z \in Finding : Before(x, y) /\ Before(y, z) => Before(x, z)
<1>1. \A x \in Finding : x.path \in Int /\ x.dated \in BOOLEAN /\ Modified[x.path] \in Int
  BY BoundsAssumption DEF Finding
<1> QED BY <1>1 DEF Before

\* A finding that is not among the best has at least n of them before it.
LEMMA BestFills ==
  ASSUME NEW K \in SUBSET Finding, NEW n \in Nat, NEW f \in K \ Best(K, n)
  PROVE  Cardinality(Best(K, n)) >= n /\ Cardinality(K) > n
<1>0. \A x \in K : Ahead(x, K) \in SUBSET K /\ Ahead(x, K) \in SUBSET Finding
                   /\ IsFiniteSet(Ahead(x, K)) /\ Cardinality(Ahead(x, K)) \in Nat
  <2> TAKE x \in K
  <2>1. Ahead(x, K) \in SUBSET K
    BY DEF Ahead
  <2> QED BY <2>1, FindingSubset
<1>1. \A x \in K : x \in Best(K, n) <=> Cardinality(Ahead(x, K)) < n
  BY DEF Best, Ahead
<1> DEFINE T == {Ahead(x, K) : x \in K \ Best(K, n)}
<1>2. T \subseteq FiniteSubsetsOf(K) /\ T # {}
  BY <1>0 DEF FiniteSubsetsOf
<1>3. PICK a \in T : \A b \in T : <<b, a>> \notin StrictSubsetOrdering(K)
  <2>1. IsWellFoundedOn(StrictSubsetOrdering(K), FiniteSubsetsOf(K))
    BY FS_StrictSubsetOrderingWellFounded
  <2> HIDE DEF T
  <2> QED BY <1>2, <2>1, WFMin
<1>4. PICK x \in K \ Best(K, n) : a = Ahead(x, K)
  OBVIOUS
<1>5. Ahead(x, K) \subseteq Best(K, n)
  <2> SUFFICES ASSUME NEW y \in K, Before(y, x), y \notin Best(K, n) PROVE FALSE
    BY DEF Ahead
  <2>1. Ahead(y, K) \in T
    OBVIOUS
  <2>2. Ahead(y, K) \subseteq Ahead(x, K) /\ Ahead(y, K) # Ahead(x, K)
    BY BeforeOrder DEF Ahead
  <2>3. <<Ahead(y, K), Ahead(x, K)>> \in StrictSubsetOrdering(K)
    BY <1>0, <2>2 DEF StrictSubsetOrdering
  <2> QED BY <1>3, <1>4, <2>1, <2>3
<1>6. Best(K, n) \in SUBSET K
  BY BestSubset
<1>7. Cardinality(Ahead(x, K)) >= n
  BY <1>0, <1>1
<1>8. Cardinality(Ahead(x, K)) <= Cardinality(Best(K, n)) /\ Cardinality(Best(K, n)) \in Nat
  BY <1>5, <1>6, FindingSubset, FindingLess
<1>9. Cardinality(K) > n
  <2>1. Ahead(x, K) \subseteq K \ {x}
    BY BeforeOrder DEF Ahead
  <2>2. Cardinality(K \ {x}) = Cardinality(K) - 1 /\ Cardinality(K) \in Nat
    BY FindingSubset, FS_RemoveElement
  <2>3. Cardinality(Ahead(x, K)) <= Cardinality(K \ {x})
    BY <2>1, FindingLess
  <2> QED BY <1>0, <1>7, <2>2, <2>3
<1> QED BY <1>0, <1>7, <1>8, <1>9

\* What is dropped ranks before nothing that is kept.
LEMMA BestFirst ==
  ASSUME NEW K \in SUBSET Finding, NEW n \in Nat, NEW f \in K \ Best(K, n), NEW g \in Best(K, n)
  PROVE  ~Before(f, g)
<1> SUFFICES ASSUME Before(f, g) PROVE FALSE
  OBVIOUS
<1>1. g \in K /\ f \in Finding /\ g \in Finding
  BY BestSubset
<1>2. Ahead(f, K) \subseteq Ahead(g, K)
  BY <1>1, BeforeOrder DEF Ahead
<1>3. Ahead(f, K) \in SUBSET Finding /\ Ahead(g, K) \in SUBSET Finding
  BY DEF Ahead
<1>4. Cardinality(Ahead(f, K)) <= Cardinality(Ahead(g, K))
  BY <1>2, <1>3, FindingLess
<1>5. Cardinality(Ahead(f, K)) \in Nat /\ Cardinality(Ahead(g, K)) \in Nat
  BY <1>3, FindingSubset
<1>6. Cardinality(Ahead(g, K)) < n /\ ~(Cardinality(Ahead(f, K)) < n)
  BY DEF Best, Ahead
<1> QED BY <1>4, <1>5, <1>6

\* Of a path that was found something is known: the finding itself, or a
\* better one with a date.
LEMMA PathKnown ==
  ASSUME NEW S \in SUBSET Finding, NEW f \in S
  PROVE  \E g \in Known(S) : g.path = f.path /\ (g = f \/ g.dated)
BY DEF Known

\* One finding of each path.
Unique(S) == \A f, g \in S : f.path = g.path => f = g

LEMMA KnownUnique ==
  ASSUME NEW S \in SUBSET Finding, NEW n, \A f \in S : f.gen = n
  PROVE  Unique(Known(S))
<1> SUFFICES ASSUME NEW f \in Known(S), NEW g \in Known(S), f.path = g.path PROVE f = g
  BY DEF Unique
<1>1. f \in S /\ g \in S /\ f.dated \in BOOLEAN /\ g.dated \in BOOLEAN
  BY DEF Known, Finding
<1>2. f.dated = g.dated
  BY <1>1 DEF Known
<1>3. f.gen = g.gen
  BY <1>1
<1> QED BY <1>1, <1>2, <1>3 DEF Finding

\* Every finding of a set with one of each path survives in what is known, as
\* it is or with a date: the others do not crowd it out.
LEMMA Survivors ==
  ASSUME NEW S \in SUBSET Finding, NEW R \in SUBSET S, Unique(R)
  PROVE  \E e \in Injection(R, Known(S)) :
           \A f \in R : e[f].path = f.path /\ (e[f] = f \/ e[f].dated)
<1> DEFINE e == [f \in R |-> CHOOSE g \in Known(S) : g.path = f.path /\ (g = f \/ g.dated)]
<1>1. \A f \in R : e[f] \in Known(S) /\ e[f].path = f.path /\ (e[f] = f \/ e[f].dated)
  <2> TAKE f \in R
  <2>1. \E g \in Known(S) : g.path = f.path /\ (g = f \/ g.dated)
    BY PathKnown
  <2> QED BY <2>1
<1>2. e \in [R -> Known(S)]
  BY <1>1
<1>3. \A f, g \in R : e[f] = e[g] => f = g
  BY <1>1 DEF Unique
<1> HIDE DEF e
<1>4. e \in Injection(R, Known(S))
  BY <1>2, <1>3 DEF Injection, IsInjective
<1> QED BY <1>1, <1>4

\* A path has a better finding among the known ones, which ranks before
\* whatever the finding itself ranks before.
LEMMA KnownBefore ==
  ASSUME NEW x \in Finding, NEW y \in Finding, NEW z \in Finding,
         y.path = x.path, y = x \/ y.dated, Before(x, z)
  PROVE  Before(y, z)
<1>1. /\ x.dated \in BOOLEAN /\ y.dated \in BOOLEAN /\ z.dated \in BOOLEAN
  BY DEF Finding
<1>2. CASE y = x
  BY <1>2
<1>3. CASE y # x /\ y.dated /\ x.dated
  BY <1>1, <1>3 DEF Before
<1>4. CASE y.dated /\ ~x.dated
  BY <1>1, <1>4 DEF Before
<1> QED BY <1>1, <1>2, <1>3, <1>4

\* What n findings, one of each path, rank before has n known findings ahead
\* of it, whatever else was found: being beaten is never undone.
LEMMA StaysBeaten ==
  ASSUME NEW X \in SUBSET Finding, NEW S \in SUBSET X, Unique(S), NEW z \in Finding,
         \A x \in S : Before(x, z), NEW n \in Nat, Cardinality(S) >= n
  PROVE  Cardinality(Ahead(z, Known(X))) >= n
<1>1. PICK e \in Injection(S, Known(X)) :
        \A x \in S : e[x].path = x.path /\ (e[x] = x \/ e[x].dated)
  BY Survivors
<1>2. Known(X) \in SUBSET Finding
  BY DEF Known
<1>3. \A x \in S : e[x] \in Known(X) /\ Before(e[x], z)
  <2> TAKE x \in S
  <2>1. e[x] \in Known(X)
    BY <1>1 DEF Injection
  <2> QED BY <1>1, <1>2, <2>1, KnownBefore
<1>4. e \in Injection(S, Ahead(z, Known(X)))
  BY <1>1, <1>3 DEF Injection, Ahead
<1>5. Ahead(z, Known(X)) \in SUBSET Finding
  BY <1>2 DEF Ahead
<1>6. Cardinality(S) <= Cardinality(Ahead(z, Known(X)))
  BY <1>4, <1>5, FindingSubset, FS_Injection
<1> QED BY <1>5, <1>6, FindingSubset

\* Two findings of different paths, or of the same query, are ordered.
LEMMA BeforeTotal ==
  ASSUME NEW x \in Finding, NEW y \in Finding, x.path # y.path
  PROVE  Before(x, y) \/ Before(y, x)
<1>1. /\ x.path \in Int /\ y.path \in Int /\ x.dated \in BOOLEAN /\ y.dated \in BOOLEAN
      /\ Modified[x.path] \in Int /\ Modified[y.path] \in Int
  BY BoundsAssumption DEF Finding
<1> QED BY <1>1 DEF Before

\* What is kept ranks before all that is dropped.
LEMMA BestAhead ==
  ASSUME NEW K \in SUBSET Finding, Unique(K), NEW n \in Nat, NEW f \in K \ Best(K, n)
  PROVE  \A g \in Best(K, n) : Before(g, f)
<1> TAKE g \in Best(K, n)
<1>1. g \in K /\ ~Before(f, g)
  BY BestSubset, BestFirst
<1>2. g.path # f.path
  BY <1>1 DEF Unique
<1> QED BY <1>1, <1>2, BeforeTotal

\* No more than n are kept.
LEMMA BestSmall ==
  ASSUME NEW K \in SUBSET Finding, Unique(K), NEW n \in Nat
  PROVE  Cardinality(Best(K, n)) <= n
<1> DEFINE B == Best(K, n)
           After(x) == {y \in B : Before(x, y)}
           T == {After(x) : x \in B}
<1>1. B \in SUBSET K /\ B \in SUBSET Finding /\ Cardinality(B) \in Nat
  BY BestSubset, FindingSubset
<1>2. CASE B = {}
  BY <1>2, FS_EmptySet
<1>3. CASE B # {}
  <2>1. \A x \in B : After(x) \in SUBSET B /\ IsFiniteSet(After(x))
    BY <1>1, FindingSubset
  <2>2. T \subseteq FiniteSubsetsOf(B) /\ T # {}
    BY <1>3, <2>1 DEF FiniteSubsetsOf
  <2>3. PICK a \in T : \A b \in T : <<b, a>> \notin StrictSubsetOrdering(B)
    <3>1. IsWellFoundedOn(StrictSubsetOrdering(B), FiniteSubsetsOf(B))
      BY FS_StrictSubsetOrderingWellFounded
    <3> HIDE DEF T
    <3> QED BY <2>2, <3>1, WFMin
  <2>4. PICK x \in B : a = After(x)
    OBVIOUS
  <2>5. After(x) = {}
    <3> SUFFICES ASSUME NEW y \in After(x) PROVE FALSE
      OBVIOUS
    <3>1. y \in B /\ Before(x, y) /\ x \in Finding /\ y \in Finding
      BY <1>1
    <3>2. After(y) \subseteq After(x) /\ After(y) # After(x)
      BY <1>1, <3>1, BeforeOrder
    <3>3. <<After(y), After(x)>> \in StrictSubsetOrdering(B)
      BY <2>1, <3>1, <3>2 DEF StrictSubsetOrdering
    <3> QED BY <2>3, <2>4, <3>1, <3>3
  <2>6. B \ {x} \subseteq Ahead(x, K)
    <3> SUFFICES ASSUME NEW y \in B, y # x PROVE y \in K /\ Before(y, x)
      BY DEF Ahead
    <3>1. y \in K /\ y.path # x.path /\ ~Before(x, y)
      BY <1>1, <2>5 DEF Unique
    <3> QED BY <1>1, <3>1, BeforeTotal
  <2>7. Cardinality(B \ {x}) = Cardinality(B) - 1
    BY <1>1, FindingSubset, FS_RemoveElement
  <2>8. Ahead(x, K) \in SUBSET Finding /\ Cardinality(Ahead(x, K)) < n
    BY DEF Ahead, Best
  <2>9. Cardinality(B \ {x}) <= Cardinality(Ahead(x, K)) /\ Cardinality(Ahead(x, K)) \in Nat
    BY <2>6, <2>8, FindingLess, FindingSubset
  <2> HIDE DEF B
  <2>10. Cardinality(B) <= n
    BY <1>1, <2>7, <2>8, <2>9
  <2> QED BY <2>10 DEF B
<1> QED BY <1>2, <1>3

\* insertBounded forgets nothing that matters: to insert `new` into the best
\* of what was found is to take the best of everything, and an overflow was
\* reported before or is now, exactly when everything is too much.
LEMMA MergedBest ==
  ASSUME NEW old \in SUBSET Finding, NEW new \in SUBSET Finding, NEW g,
         \A f \in old \cup new : f.gen = g
  PROVE  /\ Merged(Best(Known(old), MaxEvidence), new) = Best(Known(old \cup new), MaxEvidence)
         /\ Cardinality(Known(old \cup new)) > MaxEvidence <=>
              \/ Cardinality(Known(old)) > MaxEvidence
              \/ Overflows(Best(Known(old), MaxEvidence), new)
<1> DEFINE n == MaxEvidence
           K == Known(old)
           B == Best(K, n)
           K1 == Known(B \cup new)
           K2 == Known(old \cup new)
<1>1. /\ n \in Nat /\ K \in SUBSET old /\ K \in SUBSET Finding
      /\ B \in SUBSET K /\ B \in SUBSET old /\ B \in SUBSET Finding
      /\ K1 \in SUBSET (B \cup new) /\ K1 \in SUBSET Finding
      /\ K2 \in SUBSET (old \cup new) /\ K2 \in SUBSET Finding
      /\ B \cup new \in SUBSET (old \cup new)
  BY BoundsAssumption, BestSubset DEF Known
<1>2. Unique(K) /\ Unique(K1) /\ Unique(K2) /\ Unique(B)
  <2>1. Unique(K) /\ Unique(K1) /\ Unique(K2)
    BY <1>1, KnownUnique
  <2> QED BY <1>1, <2>1 DEF Unique
<1>3. \A f \in Finding : f.dated \in BOOLEAN
  BY DEF Finding
<1>4. ASSUME NEW y \in K \ B
      PROVE  Cardinality(B) >= n /\ \A b \in B : Before(b, y)
  BY <1>1, <1>2, BestFills, BestAhead
<1>5. ASSUME NEW x \in K2 \ K1 PROVE x \in K \ B
  <2>1. x \in old \cup new /\ (x.dated \/ \A f \in old \cup new : f.path = x.path => ~f.dated)
    BY DEF Known
  <2>2. x \notin B \cup new
    BY <1>1, <2>1 DEF Known
  <2> QED BY <2>1, <2>2 DEF Known
<1>6. ASSUME NEW x \in K1 \ K2 PROVE \E d \in K \ B : d.dated /\ ~x.dated
  <2>1. x \in B \cup new /\ ~x.dated
    BY <1>1 DEF Known
  <2>2. PICK d \in old \cup new : d.path = x.path /\ d.dated
    BY <1>1, <2>1 DEF Known
  <2>3. d \notin B \cup new
    BY <2>1, <2>2 DEF Known
  <2>4. d \in K \ B
    BY <2>2, <2>3 DEF Known
  <2> QED BY <2>1, <2>2, <2>4
<1>7. /\ \A x \in K1 : Cardinality(Ahead(x, K1)) \in Nat
      /\ \A x \in K2 : Cardinality(Ahead(x, K2)) \in Nat
      /\ \A x \in K1 : x \in Best(K1, n) <=> Cardinality(Ahead(x, K1)) < n
      /\ \A x \in K2 : x \in Best(K2, n) <=> Cardinality(Ahead(x, K2)) < n
  <2>1. \A x : Ahead(x, K1) \in SUBSET Finding /\ Ahead(x, K2) \in SUBSET Finding
    BY <1>1 DEF Ahead
  <2> QED BY <2>1, FindingSubset DEF Best, Ahead
<1>8. Best(K1, n) \in SUBSET K1 /\ Best(K2, n) \in SUBSET K2
  BY BestSubset
<1> HIDE DEF K1, K2, B, K, n
<1>9. ASSUME NEW z \in Finding, Cardinality(B) >= n, \A b \in B : Before(b, z)
      PROVE  Cardinality(Ahead(z, K1)) >= n /\ Cardinality(Ahead(z, K2)) >= n
  <2>1. B \in SUBSET (B \cup new) /\ B \cup new \in SUBSET Finding
        /\ B \in SUBSET (old \cup new) /\ old \cup new \in SUBSET Finding
    BY <1>1
  <2> QED BY <1>1, <1>2, <1>9, <2>1, StaysBeaten DEF K1, K2
<1>10. ASSUME NEW x \in K1, x \in K2
       PROVE  Cardinality(Ahead(x, K1)) >= n <=> Cardinality(Ahead(x, K2)) >= n
  <2>1. ASSUME Cardinality(Ahead(x, K1)) >= n PROVE Cardinality(Ahead(x, K2)) >= n
    <3>1. /\ Ahead(x, K1) \in SUBSET (old \cup new) /\ old \cup new \in SUBSET Finding
          /\ \A y \in Ahead(x, K1) : Before(y, x)
      BY <1>1 DEF Ahead
    <3>2. Unique(Ahead(x, K1))
      BY <1>2 DEF Unique, Ahead
    <3> QED BY <1>1, <2>1, <3>1, <3>2, StaysBeaten DEF K2
  <2>2. ASSUME Cardinality(Ahead(x, K2)) >= n PROVE Cardinality(Ahead(x, K1)) >= n
    <3>1. CASE Ahead(x, K2) \subseteq K1
      <4>1. Ahead(x, K2) \in SUBSET Ahead(x, K1) /\ Ahead(x, K1) \in SUBSET Finding
        BY <1>1, <3>1 DEF Ahead
      <4>2. Cardinality(Ahead(x, K2)) <= Cardinality(Ahead(x, K1))
        BY <4>1, FindingLess
      <4> QED BY <1>1, <1>7, <1>10, <2>2, <4>2
    <3>2. CASE ~(Ahead(x, K2) \subseteq K1)
      <4>1. PICK y \in Ahead(x, K2) : y \notin K1
        BY <3>2
      <4>2. y \in K2 \ K1 /\ Before(y, x)
        BY <4>1 DEF Ahead
      <4>3. y \in K \ B
        BY <1>5, <4>2
      <4>4. Cardinality(B) >= n /\ \A b \in B : Before(b, y)
        BY <1>4, <4>3
      <4>5. \A b \in B : Before(b, x)
        BY <1>1, <4>2, <4>4, BeforeOrder
      <4> QED BY <1>1, <1>9, <4>4, <4>5
    <3> QED BY <3>1, <3>2
  <2> QED BY <2>1, <2>2
<1>11. ASSUME NEW x \in K1 \ K2 PROVE x \notin Best(K1, n)
  <2>1. PICK d \in K \ B : d.dated /\ ~x.dated
    BY <1>6
  <2>2. Cardinality(B) >= n /\ \A b \in B : Before(b, d)
    BY <1>4
  <2>3. \A b \in B : Before(b, x)
    BY <1>1, <1>3, <2>1, <2>2 DEF Before
  <2>4. Cardinality(Ahead(x, K1)) >= n
    BY <1>1, <1>9, <2>2, <2>3
  <2> QED BY <1>1, <1>7, <2>4
<1>12. ASSUME NEW x \in K2 \ K1 PROVE x \notin Best(K2, n)
  <2>1. x \in K \ B
    BY <1>5
  <2>2. Cardinality(B) >= n /\ \A b \in B : Before(b, x)
    BY <1>4, <2>1
  <2>3. Cardinality(Ahead(x, K2)) >= n
    BY <1>1, <1>9, <2>2
  <2> QED BY <1>1, <1>7, <2>3
<1>13. Best(K1, n) = Best(K2, n)
  <2>1. ASSUME NEW x \in Best(K1, n) PROVE x \in Best(K2, n)
    <3>1. x \in K1 /\ x \in K2
      BY <1>8, <1>11
    <3> QED BY <1>1, <1>7, <1>10, <3>1
  <2>2. ASSUME NEW x \in Best(K2, n) PROVE x \in Best(K1, n)
    <3>1. x \in K1 /\ x \in K2
      BY <1>8, <1>12
    <3> QED BY <1>1, <1>7, <1>10, <3>1
  <2> QED BY <2>1, <2>2
<1>14. Cardinality(K2) > n <=> Cardinality(K) > n \/ Cardinality(K1) > n
  <2>1. /\ Cardinality(K) \in Nat /\ Cardinality(K1) \in Nat /\ Cardinality(K2) \in Nat
        /\ IsFiniteSet(K2)
    BY <1>1, FindingSubset
  <2>2. ASSUME NEW S \in SUBSET (old \cup new), Unique(S)
        PROVE  Cardinality(S) <= Cardinality(K2)
    <3>1. PICK e \in Injection(S, K2) : TRUE
      BY <2>2, Survivors DEF K2
    <3> QED BY <1>1, <2>1, <3>1, FS_Injection
  <2>3. Cardinality(K) <= Cardinality(K2) /\ Cardinality(K1) <= Cardinality(K2)
    BY <1>1, <1>2, <2>2
  <2>4. CASE K = B
    <3>1. K2 \in SUBSET K1
      BY <1>5, <2>4
    <3>2. Cardinality(K2) <= Cardinality(K1)
      BY <1>1, <3>1, FindingLess
    <3> QED BY <1>1, <2>1, <2>3, <3>2
  <2>5. CASE K # B
    <3>1. PICK y \in K : y \notin B
      BY <1>1, <2>5
    <3>2. Cardinality(K) > n
      BY <1>1, <3>1, BestFills DEF B
    <3> QED BY <1>1, <2>1, <2>3, <3>2
  <2> QED BY <2>4, <2>5
<1> QED BY <1>13, <1>14 DEF Merged, Overflows, K, K1, K2, B, n

\* What is kept of everything that was found, in the code's own terms.
Holds(kept, found, said) ==
  /\ kept = Best(Known(found), MaxEvidence)
  /\ said <=> Cardinality(Known(found)) > MaxEvidence

\* To keep the best of Known is what KeepsBest asks for.
LEMMA HoldsKeeps ==
  ASSUME NEW found \in SUBSET Finding, NEW g, \A f \in found : f.gen = g,
         NEW kept, NEW said \in BOOLEAN, Holds(kept, found, said)
  PROVE  KeepsBest(kept, found, said)
<1> DEFINE K == Known(found)
           n == MaxEvidence
<1>1. n \in Nat /\ K \in SUBSET Finding /\ kept \in SUBSET K /\ kept = Best(K, n)
  BY BoundsAssumption, BestSubset DEF Known, Holds
<1>2. \A f \in Finding : /\ f.path \in Int /\ f.dated \in BOOLEAN /\ Modified[f.path] \in Int
  BY BoundsAssumption DEF Finding
<1>3. K = {f \in found : \A h \in found : h.path = f.path => ~Newer(h, f)}
  BY <1>2 DEF Known, Newer
<1>4. Unique(K)
  BY KnownUnique
<1>5. \A f \in kept, h \in K \ kept : Preferred(f, h)
  <2> TAKE f \in kept, h \in K \ kept
  <2>1. Before(f, h)
    BY <1>1, <1>4, BestAhead
  <2> QED BY <1>1, <1>2, <2>1 DEF Before, Preferred, Newer
<1>6. Cardinality(kept) \in Nat /\ Cardinality(K) \in Nat
  BY <1>1, FindingSubset
<1>7. Cardinality(kept) <= n
  BY <1>1, <1>4, BestSmall
<1>8. kept # K => Cardinality(kept) = n /\ said
  <2> SUFFICES ASSUME NEW f \in K, f \notin kept PROVE Cardinality(kept) = n /\ said
    BY <1>1
  <2>1. Cardinality(kept) >= n /\ Cardinality(K) > n
    BY <1>1, BestFills
  <2> QED BY <1>1, <1>6, <1>7, <2>1 DEF Holds
<1>9. kept = K => ~said
  BY <1>1, <1>6, <1>7 DEF Holds
<1> HIDE DEF K
<1> QED BY <1>1, <1>3, <1>5, <1>7, <1>8, <1>9 DEF KeepsBest

\* What the query keeps, with the history it is kept from.
Kept ==
  /\ Holds(rows, seen, capped) /\ Holds(repos, seenRepos, repoCapped)
  /\ \A f \in seen \cup seenRepos : f.gen = generation

LEMMA KeptSame == Kept /\ UNCHANGED <<findingVars, generation>> => Kept'
BY DEF Kept, Holds, findingVars

\* An insertion keeps it so.
LEMMA HoldsStep ==
  ASSUME NEW old \in SUBSET Finding, NEW new \in SUBSET Finding, NEW g,
         \A f \in old \cup new : f.gen = g,
         NEW kept, NEW said \in BOOLEAN, Holds(kept, old, said)
  PROVE  Holds(Merged(kept, new), old \cup new, said \/ Overflows(kept, new))
BY MergedBest DEF Holds

LEMMA NothingKept == Known({}) = {} /\ Best({}, MaxEvidence) = {} /\ Holds({}, {}, FALSE)
<1>1. Known({}) = {} /\ Best({}, MaxEvidence) = {}
  BY DEF Known, Best
<1> QED BY <1>1, FS_EmptySet, BoundsAssumption DEF Holds

LEMMA KeptStep ==
  ASSUME TypeOK, Begun, Kept, [Next]_vars
  PROVE  Kept'
<1>1. ASSUME NEW g \in Gen, NEW P \in SUBSET Path, NEW dated \in BOOLEAN
      PROVE  /\ Found(g, P, dated) \in SUBSET Finding
             /\ \A f \in Found(g, P, dated) : f.gen = g
  BY DEF Found, Finding
<1>2. /\ seen \in SUBSET Finding /\ seenRepos \in SUBSET Finding
      /\ capped \in BOOLEAN /\ repoCapped \in BOOLEAN
      /\ \A f \in seen : f.gen = generation
      /\ \A f \in seenRepos : f.gen = generation
      /\ Holds(rows, seen, capped) /\ Holds(repos, seenRepos, repoCapped)
  BY DEF TypeOK, Kept
<1>3. ASSUME NEW s \in Source, NEW p \in Path, NEW dated \in BOOLEAN,
             AcceptRecord(s, p, dated)
      PROVE  Kept'
  <2> DEFINE new == Found(generation, {p}, dated)
  <2>1. generation \in Gen /\ generation' = generation
    BY <1>3, CurrentGen DEF AcceptRecord, queryVars
  <2>2. new \in SUBSET Finding /\ \A f \in new : f.gen = generation
    BY <1>1, <2>1
  <2>3. CASE s.repo
    <3>1. /\ repos' = Merged(repos, new) /\ repoCapped' = (repoCapped \/ Overflows(repos, new))
          /\ seenRepos' = seenRepos \cup new
          /\ UNCHANGED <<rows, capped, seen>>
      BY <1>3, <2>3 DEF AcceptRecord
    <3> HIDE DEF new
    <3>2. Holds(repos', seenRepos', repoCapped')
      BY <1>2, <2>2, <3>1, HoldsStep
    <3> QED BY <1>2, <2>1, <2>2, <3>1, <3>2 DEF Kept
  <2>4. CASE ~s.repo
    <3>1. /\ rows' = Merged(rows, new) /\ capped' = (capped \/ Overflows(rows, new))
          /\ seen' = seen \cup new
          /\ UNCHANGED <<repos, repoCapped, seenRepos>>
      BY <1>3, <2>4 DEF AcceptRecord
    <3> HIDE DEF new
    <3>2. Holds(rows', seen', capped')
      BY <1>2, <2>2, <3>1, HoldsStep
    <3> QED BY <1>2, <2>1, <2>2, <3>1, <3>2 DEF Kept
  <2> QED BY <2>3, <2>4
<1>4. ASSUME NEW g \in Gen, NEW w \in Worker, NEW P \in SUBSET Path, NEW ok \in BOOLEAN,
             IndexAnswers(g, w, P, ok)
      PROVE  Kept'
  <2>1. UNCHANGED <<repos, repoCapped, seenRepos, generation>>
    BY <1>4 DEF IndexAnswers, queryVars
  <2>2. CASE isCurrent(g)
    <3> DEFINE new == Found(g, P, TRUE)
    <3>1. /\ rows' = Merged(rows, new) /\ capped' = (capped \/ Overflows(rows, new))
          /\ seen' = seen \cup new /\ g = generation
      BY <1>4, <2>2 DEF IndexAnswers, isCurrent
    <3>2. new \in SUBSET Finding /\ \A f \in new : f.gen = generation
      BY <1>1, <3>1
    <3> HIDE DEF new
    <3>3. Holds(rows', seen', capped')
      BY <1>2, <3>1, <3>2, HoldsStep
    <3> QED BY <1>2, <2>1, <3>1, <3>2, <3>3 DEF Kept
  <2>3. CASE ~isCurrent(g)
    <3>1. UNCHANGED <<rows, capped, seen>>
      BY <1>4, <2>3 DEF IndexAnswers
    <3> QED BY <2>1, <3>1 DEF Kept, Holds
  <2> QED BY <2>2, <2>3
<1>5. CASE \E short, focus \in BOOLEAN, ok \in SUBSET Helper : Request(short, focus, ok)
  <2>1. /\ rows' = {} /\ repos' = {} /\ seen' = {} /\ seenRepos' = {}
        /\ capped' = FALSE /\ repoCapped' = FALSE
    BY <1>5 DEF Request
  <2> QED BY <2>1, NothingKept DEF Kept
<1>6. CASE Settling \/ (\E g \in Gen, h \in Helper : HelperReaped(g, h)) \/ EmitTimer \/ Close
           \/ \E g \in Gen : Abandons(g)
  <2>1. UNCHANGED <<findingVars, generation>>
    BY <1>6 DEF Settling, HelperSettles, HelperReaped, EmitTimer, Close, Abandons, queryVars
  <2> QED BY <2>1, KeptSame
<1>7. CASE Starting
  <2>1. UNCHANGED <<findingVars, generation>>
    BY <1>7 DEF Starting, StartSources
  <2> QED BY <2>1, KeptSame
<1>8. CASE \E g \in Gen, s \in Source : SourceFails(g, s) \/ SourceTimesOut(g, s)
  <2>1. UNCHANGED <<findingVars, generation>>
    BY <1>8 DEF SourceFails, SourceTimesOut, queryVars
  <2> QED BY <2>1, KeptSame
<1>9. CASE \E g \in Gen, s \in Source : Closing(g, s)
  <2>1. UNCHANGED <<findingVars, generation>>
    BY <1>9 DEF Closing, SourceCloses, queryVars
  <2> QED BY <2>1, KeptSame
<1>10. CASE UNCHANGED vars
  <2>1. UNCHANGED <<findingVars, generation>>
    BY <1>10 DEF vars, queryVars
  <2> QED BY <2>1, KeptSame
<1> QED BY <1>3, <1>4, <1>5, <1>6, <1>7, <1>8, <1>9, <1>10 DEF Next, Starting

\* BestKept for every number of queries, mounts, lanes and paths, every limit
\* and all modification times: whatever the order of the records, whichever
\* source brings the date of a path and however early a finding was evicted,
\* the newest and then the most relevant are kept, and the query is capped
\* exactly when others had to go.
THEOREM BestAlwaysKept == Spec => []BestKept
<1>1. Init => Kept
  BY NothingKept DEF Init, Kept
<1>2. TypeOK /\ Begun /\ Kept /\ [Next]_vars => Kept'
  BY KeptStep
<1>3. TypeOK /\ Kept => BestKept
  <2> SUFFICES ASSUME TypeOK, Kept PROVE BestKept
    OBVIOUS
  <2>1. /\ seen \in SUBSET Finding /\ seenRepos \in SUBSET Finding
        /\ capped \in BOOLEAN /\ repoCapped \in BOOLEAN
        /\ \A f \in seen : f.gen = generation
        /\ \A f \in seenRepos : f.gen = generation
    BY DEF TypeOK, Kept
  <2> QED BY <2>1, HoldsKeeps DEF Kept, BestKept
<1> QED BY <1>1, <1>2, <1>3, Typed, PTL DEF Spec
=============================================================================
