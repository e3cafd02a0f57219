----------------------------- MODULE FileSearch -----------------------------
(***************************************************************************)
(* The file-search coordinator of bridge/file-search.js                    *)
(* (FileSearchCoordinator) with the child processes it owns.               *)
(*                                                                         *)
(* One action is one callback of the JavaScript event loop: a protocol     *)
(* line, the continuation of startRequest after its await, a child's       *)
(* close, timer or record, an index answer, the coalescing timer.          *)
(*                                                                         *)
(* Lanes (running counters, live children) belong to the coordinator and   *)
(* outlive a query, and so does a startRequest that is still at its await; *)
(* everything listed under "the current request" is the request object of  *)
(* the latest query, rebuilt by every call of request(). The request       *)
(* objects of superseded queries are not kept: what their callbacks write  *)
(* to them is not read again.                                              *)
(***************************************************************************)
EXTENDS Integers, FiniteSets

CONSTANTS
  MaxRequests,    \* queries of one behaviour (a bound of the model)
  NMounts,        \* mounts that can be found under the search root
  Path,           \* candidate paths, integers: the smaller is more relevant
  Modified,       \* the modification time of a path
  MaxLocal,       \* maxLocalConcurrent
  MaxMounted,     \* maxMountedConcurrent
  MaxConcurrent,  \* maxConcurrent
  MaxHelpers,     \* metadata helpers alive at once
  MaxEvidence,    \* maxEvidence
  MaxResults,     \* maxResults
  EnableIndex     \* enableIndex

ASSUME BoundsAssumption ==
  /\ MaxRequests \in Nat /\ NMounts \in Nat
  /\ Path \subseteq Int /\ IsFiniteSet(Path)
  /\ Modified \in [Path -> Int]
  /\ MaxHelpers \in Nat /\ MaxEvidence \in Nat /\ MaxResults \in Nat
  /\ EnableIndex \in BOOLEAN

\* Two local and four mounted lanes out of six: the local lanes are reserved.
ASSUME LaneAssumption ==
  /\ MaxLocal \in Nat \ {0} /\ MaxMounted \in Nat \ {0} /\ MaxConcurrent \in Nat
  /\ MaxLocal + MaxMounted <= MaxConcurrent

Base == 0                       \* the partition of the search root itself
Partition == 0..NMounts
Gen == 1..MaxRequests
Source == [part : Partition, repo : BOOLEAN]
Local == {s \in Source : s.part = Base}
Mounted == Source \ Local
FileSources(S) == {s \in S : ~s.repo}
RepoSources(S) == {s \in S : s.repo}

\* startRequest enqueues the file scans, base first, and then the repo scans.
Position(s) == IF s.repo THEN s.part + NMounts + 1 ELSE s.part

Status == {"absent", "queued", "running", "timed-out", "exhausted", "failed", "canceled"}

\* Why a live child is being stopped; "late": canceled after its own timeout.
Stop == {"none", "running", "failing", "timed-out", "canceled", "late"}
Helper == {"mountinfo", "realpath"}
Worker == {"fff", "plocate"}
Answer == {"idle", "waiting", "ok", "failed"}

\* An entry of request.rows or repos; dated: its modification time is known.
\* The files do not change while they are searched.
Finding == [gen : Gen, path : Path, dated : BOOLEAN]

Snapshots == [gen : 0..MaxRequests, rows : SUBSET Finding, repos : SUBSET Finding,
              complete : BOOLEAN, repoComplete : BOOLEAN,
              capped : BOOLEAN, repoCapped : BOOLEAN]

VARIABLES
  stream,           \* stream[g][s]: the child of source s of query g
  runningTotal, runningLocal, runningMounted,
  helpers,          \* metadata helpers alive, with the query that started them
  awaiting,         \* the queries whose startRequest is at its await
  asked,            \* tokens the index workers may still answer
  closed,           \* close() was called
  (* the current request *)
  generation, phase, focused, answer, plan, queued, active, status,
  planIncomplete, fileIncomplete, repoIncomplete, fileDone, repoDone,
  indexPending, indexUnavailable,
  rows, repos, capped, repoCapped, evidence, emitTimer,
  shown,            \* the last snapshot written to the protocol
  seen, seenRepos   \* all that was found for the query: history, for the properties only

laneVars == <<stream, runningTotal, runningLocal, runningMounted>>
scanVars == <<plan, queued, active, status, fileDone, repoDone>>
queryVars == <<generation, phase, focused, answer, planIncomplete, awaiting>>
indexVars == <<asked, indexPending, indexUnavailable>>
findingVars == <<rows, repos, capped, repoCapped, evidence, seen, seenRepos>>
incompleteVars == <<fileIncomplete, repoIncomplete>>
vars == <<laneVars, scanVars, queryVars, indexVars, findingVars, incompleteVars,
          helpers, closed, emitTimer, shown>>

AtLeast0(n) == IF n < 0 THEN 0 ELSE n
\* Mutant: a pump that reads the shared limit alone.
TotalOnly(m, n) == n
Lesser(m, n) == IF m < n THEN m ELSE n

isCurrent(g) == ~closed /\ g = generation /\ phase # "none"

\* Mutant: startRequest going on unless the coordinator was closed.
GoesOnUnlessClosed(g) == ~closed

\* The check startRequest makes when its await is over.
GoesOn(g) == isCurrent(g)

\* activeSources: the children of the sources K that have not closed.
LiveIn(str, K) == {j \in Gen \X K : str[j[1]][j[2]] # "none"}
LiveLocal == LiveIn(stream, Local)
LiveMounted == LiveIn(stream, Mounted)
LiveAt(str, g) == {s \in Source : str[g][s] # "none"}
LiveOf(g) == LiveAt(stream, g)
-----------------------------------------------------------------------------
(* Findings.                                                                *)

\* Mutant: the oldest first.
OldestFirst(x, y) ==
  \/ x.dated /\ ~y.dated
  \/ x.dated /\ y.dated /\ Modified[x.path] < Modified[y.path]
  \/ /\ x.dated = y.dated
     /\ x.dated => Modified[x.path] = Modified[y.path]
     /\ x.path < y.path

\* compareFiles: the findings of known date first, newest first; then
\* comparePaths, by relevance.
Before(x, y) ==
  \/ x.dated /\ ~y.dated
  \/ x.dated /\ y.dated /\ Modified[x.path] > Modified[y.path]
  \/ /\ x.dated = y.dated
     /\ x.dated => Modified[x.path] = Modified[y.path]
     /\ x.path < y.path

\* The n best ranked findings.
Best(S, n) == {x \in S : Cardinality({y \in S : Before(y, x)}) < n}

\* What was found for query g.
Found(g, P, dated) == [gen : {g}, path : P, dated : {dated}]

\* insertBounded: a path keeps the date it has ("a metadata-less observation
\* must not erase a known timestamp"), and the best MaxEvidence are kept.
Known(S) == {f \in S : f.dated \/ \A g \in S : g.path = f.path => ~g.dated}
Merged(old, new) == Best(Known(old \cup new), MaxEvidence)
Overflows(old, new) == Cardinality(Known(old \cup new)) > MaxEvidence

\* Mutant: completion that ignores the index of a focused query.
CompleteAnyway(terminal) ==
  /\ ~planIncomplete /\ ~fileIncomplete
  /\ fileDone \/ (terminal /\ \A s \in FileSources(plan) : status[s] = "exhausted")

\* publish
FileComplete(terminal) ==
  /\ ~planIncomplete /\ ~fileIncomplete
  /\ focused => ~indexPending /\ ~indexUnavailable
  /\ \/ fileDone
     \/ /\ terminal
        /\ FileSources(plan) # {}
        /\ \A s \in FileSources(plan) : status[s] = "exhausted"

RepoComplete(terminal) ==
  /\ ~planIncomplete /\ ~repoIncomplete
  /\ \/ repoDone
     \/ /\ terminal
        /\ RepoSources(plan) # {}
        /\ \A s \in RepoSources(plan) : status[s] = "exhausted"

Snapshot(terminal) ==
  [gen |-> generation, rows |-> Best(rows, MaxResults), repos |-> Best(repos, MaxResults),
   complete |-> FileComplete(terminal), repoComplete |-> RepoComplete(terminal),
   capped |-> capped \/ Cardinality(rows) > MaxResults,
   repoCapped |-> repoCapped \/ Cardinality(repos) > MaxResults]

\* Mutant: an update that schedules no snapshot.
NoPublish == UNCHANGED <<emitTimer, shown>>

\* schedulePublish(request, false)
SchedulePublish == emitTimer' = TRUE /\ UNCHANGED shown
-----------------------------------------------------------------------------
(* Lanes.                                                                   *)

\* Mutant: one source started per pump, where the loop starts all it can.
StartsOne(q, room, A, F) ==
  /\ A \subseteq q /\ F \subseteq A
  /\ \A a \in A, b \in q \ A : Position(a) < Position(b)
  /\ Cardinality(A) = IF q # {} /\ room > 0 THEN 1 ELSE 0

\* The sources the loops of pump start when `room` lanes are free: A are
\* taken off the queue in its order while a lane is free, and F of them fail
\* inside spawn, which gives their lane back at once.
Starts(q, room, A, F) ==
  /\ A \subseteq q /\ F \subseteq A
  /\ \A a \in A, b \in q \ A : Position(a) < Position(b)
  /\ Cardinality(A \ F) <= room
  /\ \A a \in F : Cardinality({b \in A \ F : Position(b) < Position(a)}) < room
  /\ A = q \/ Cardinality(A \ F) = room

\* pump for the current query, which starts the sources A and loses the F
\* among them, after the caller brought the queue q, the statuses st, the
\* children str, the counters and the query's number of active sources up to
\* date. scheduled: the caller also asks for a snapshot.
PumpStarting(A, F, q, st, str, total, local, mounted, act, fileInc, repoInc, scheduled) ==
  LET run == A \ F
      loc == Cardinality(run \cap Local)
      mnt == Cardinality(run \cap Mounted)
  IN
  /\ Starts(q \cap Local, Lesser(MaxLocal - local, MaxConcurrent - total),
            A \cap Local, F \cap Local)
  /\ Starts(q \cap Mounted, Lesser(MaxMounted - mounted, MaxConcurrent - total - loc),
            A \cap Mounted, F \cap Mounted)
  /\ queued' = q \ A
  /\ status' = [s \in Source |-> IF s \in F THEN "failed"
                                 ELSE IF s \in run THEN "running" ELSE st[s]]
  /\ stream' = [str EXCEPT ![generation] =
                  [s \in Source |-> IF s \in run THEN "running" ELSE @[s]]]
  /\ runningTotal' = total + loc + mnt
  /\ runningLocal' = local + loc
  /\ runningMounted' = mounted + mnt
  /\ active' = act + loc + mnt
  /\ fileIncomplete' = (fileInc \/ FileSources(F) # {})
  /\ repoIncomplete' = (repoInc \/ RepoSources(F) # {})
  /\ IF queued' = {} /\ active' = 0
     THEN /\ fileDone' = (\A s \in FileSources(plan') : status'[s] = "exhausted")
          /\ repoDone' = (\A s \in RepoSources(plan') : status'[s] = "exhausted")
          /\ emitTimer' = FALSE
          /\ shown' = Snapshot(TRUE)'
     ELSE /\ emitTimer' = (emitTimer \/ scheduled \/ F # {})
          /\ UNCHANGED <<fileDone, repoDone, shown>>

Pump(q, st, str, total, local, mounted, act, fileInc, repoInc, scheduled) ==
  \E A \in SUBSET q : \E F \in SUBSET A :
    PumpStarting(A, F, q, st, str, total, local, mounted, act, fileInc, repoInc, scheduled)

\* Mutant: a canceled child counted as gone before it closes.
CanceledAndGone(stop) == "none"

\* StreamSource.cancel
Canceled(stop) ==
  CASE stop = "none" -> "none"
    [] stop \in {"timed-out", "late"} -> "late"
    [] OTHER -> "canceled"
-----------------------------------------------------------------------------
Init ==
  /\ stream = [g \in Gen |-> [s \in Source |-> "none"]]
  /\ runningTotal = 0 /\ runningLocal = 0 /\ runningMounted = 0
  /\ helpers = {} /\ awaiting = {} /\ asked = {} /\ closed = FALSE
  /\ generation = 0 /\ phase = "none" /\ focused = FALSE
  /\ answer = [h \in Helper |-> "idle"]
  /\ plan = {} /\ queued = {} /\ active = 0
  /\ status = [s \in Source |-> "absent"]
  /\ planIncomplete = FALSE /\ fileIncomplete = FALSE /\ repoIncomplete = FALSE
  /\ fileDone = FALSE /\ repoDone = FALSE
  /\ indexPending = FALSE /\ indexUnavailable = FALSE
  /\ rows = {} /\ repos = {} /\ capped = FALSE /\ repoCapped = FALSE
  /\ evidence = [s \in Source |-> {}] /\ emitTimer = FALSE
  /\ seen = {} /\ seenRepos = {}
  /\ shown = [gen |-> 0, rows |-> {}, repos |-> {}, complete |-> FALSE,
              repoComplete |-> FALSE, capped |-> FALSE, repoCapped |-> FALSE]

\* The request object of a new query has no sources.
FreshScans ==
  /\ plan' = {} /\ queued' = {} /\ active' = 0
  /\ status' = [s \in Source |-> "absent"]

\* request() up to the await of startRequest: cancelCurrent for the previous
\* query, a fresh request object, its first snapshot. A query of fewer than
\* two characters ends there; another one starts the helpers that read the
\* mount table and resolve the root. A helper over the limit, or one spawn
\* refuses (ok), has failed at once.
Request(short, focus, ok) ==
  /\ generation < MaxRequests /\ ~closed
  /\ generation' = generation + 1
  /\ stream' = IF generation = 0 THEN stream
               ELSE [stream EXCEPT ![generation] = [s \in Source |-> Canceled(@[s])]]
  /\ phase' = IF short THEN "short" ELSE "planning"
  /\ focused' = focus
  /\ awaiting' = IF short THEN awaiting ELSE awaiting \cup {generation + 1}
  /\ LET free == MaxHelpers - Cardinality(helpers)
         spawned == IF short THEN {}
                    ELSE {h \in ok : h = "realpath" /\ "mountinfo" \in ok => free > 1}
         started == IF free > 0 THEN spawned ELSE {}
     IN /\ helpers' = helpers \cup {<<generation + 1, h>> : h \in started}
        /\ answer' = [h \in Helper |-> IF short THEN "idle"
                                       ELSE IF h \in started THEN "waiting" ELSE "failed"]
  /\ FreshScans
  /\ planIncomplete' = FALSE /\ fileIncomplete' = FALSE /\ repoIncomplete' = FALSE
  /\ fileDone' = short /\ repoDone' = short
  /\ indexPending' = (EnableIndex /\ focus /\ ~short)
  /\ indexUnavailable' = (~EnableIndex /\ focus /\ ~short)
  /\ rows' = {} /\ repos' = {} /\ capped' = FALSE /\ repoCapped' = FALSE
  /\ evidence' = [s \in Source |-> {}] /\ emitTimer' = FALSE
  /\ seen' = {} /\ seenRepos' = {}
  /\ shown' = Snapshot(short)'
  /\ UNCHANGED <<runningTotal, runningLocal, runningMounted, asked, closed>>

\* readOwnedOutput: the answer a helper gives, or its deadline. A helper that
\* answers has exited; one that is given up on is killed and lives on until
\* it is reaped, and holds its place among the helpers until then.
HelperSettles(h, value, exits) ==
  /\ answer[h] = "waiting" /\ ~closed
  /\ value \in {"ok", "failed"} /\ (value = "ok" => exits)
  /\ answer' = [answer EXCEPT ![h] = value]
  /\ helpers' = IF exits THEN helpers \ {<<generation, h>>} ELSE helpers
  /\ UNCHANGED <<laneVars, scanVars, indexVars, findingVars, incompleteVars,
                 generation, phase, focused, planIncomplete, awaiting, closed, emitTimer,
                 shown>>

\* A helper given up on, or canceled with its query, is reaped.
HelperReaped(g, h) ==
  /\ <<g, h>> \in helpers
  /\ g # generation \/ answer[h] # "waiting" \/ closed
  /\ helpers' = helpers \ {<<g, h>>}
  /\ UNCHANGED <<laneVars, scanVars, queryVars, indexVars, findingVars, incompleteVars,
                 closed, emitTimer, shown>>

\* The await of startRequest is over: its plan is known. The helpers of a
\* query that was replaced, or of a coordinator that was closed, are killed,
\* which ends its await as well.
Planned(g) ==
  /\ g \in awaiting
  /\ isCurrent(g) =>
       /\ answer["mountinfo"] # "waiting"
       /\ answer["mountinfo"] = "failed" \/ answer["realpath"] # "waiting"

\* startRequest returns: its query is not the current one any more.
Abandons(g) ==
  /\ Planned(g) /\ ~GoesOn(g)
  /\ awaiting' = awaiting \ {g}
  /\ UNCHANGED <<laneVars, scanVars, generation, phase, focused, answer, planIncomplete,
                 indexVars, findingVars, incompleteVars, helpers, closed, emitTimer, shown>>

\* startRequest goes on: without the mount table only the base is scanned;
\* without the root's real path coverage stays incomplete. Mounts M were
\* found, R of them within the repository depth; partial: the table was
\* malformed, truncated or over the partition ceiling. refused: the index
\* worker cannot take the query and says so at once. The workers are asked
\* whichever query this is; pump, and the token that indexUnavailable looks
\* at, serve the current one.
StartSources(g, M, R, partial, refused) ==
  /\ Planned(g) /\ GoesOn(g)
  /\ answer["mountinfo"] = "failed" => M = {} /\ partial
  /\ refused => EnableIndex
  /\ awaiting' = awaiting \ {g}
  /\ asked' = IF EnableIndex
              THEN asked \cup {<<g, w>> : w \in IF refused THEN {"plocate"} ELSE Worker}
              ELSE asked
  /\ UNCHANGED <<findingVars, generation, focused, answer, helpers, closed>>
  /\ IF isCurrent(g)
     THEN /\ phase' = "scanning"
          /\ planIncomplete' = (partial \/ answer["realpath"] # "ok")
          /\ plan' = [part : M \cup {Base}, repo : {FALSE}]
                        \cup [part : R \cup {Base}, repo : {TRUE}]
          /\ indexPending' = (indexPending /\ ~refused)
          /\ indexUnavailable' = (indexUnavailable \/ refused)
          /\ Pump(plan', [s \in Source |-> IF s \in plan' THEN "queued" ELSE "absent"], stream,
                  runningTotal, runningLocal, runningMounted, 0, fileIncomplete,
                  repoIncomplete, refused)
     ELSE UNCHANGED <<laneVars, scanVars, phase, planIncomplete, indexPending,
                      indexUnavailable, incompleteVars, emitTimer, shown>>

\* StreamSource: an error of the child or its pipes, or output over a limit.
\* The child is killed; it holds its lane until it closes.
SourceFails(g, s) ==
  /\ stream[g][s] = "running"
  /\ stream' = [stream EXCEPT ![g][s] = "failing"]
  /\ UNCHANGED <<runningTotal, runningLocal, runningMounted, scanVars, queryVars, indexVars,
                 findingVars, incompleteVars, helpers, closed, emitTimer, shown>>

\* The timer of a StreamSource, and statusSource for the current query. The
\* timer is not cleared by cancel, and overrides the cancellation.
SourceTimesOut(g, s) ==
  /\ stream[g][s] \in {"running", "failing", "canceled"}
  /\ stream' = [stream EXCEPT ![g][s] = "timed-out"]
  /\ IF isCurrent(g) /\ status[s] = "running"
     THEN /\ status' = [status EXCEPT ![s] = "timed-out"]
          /\ fileIncomplete' = (fileIncomplete \/ ~s.repo)
          /\ repoIncomplete' = (repoIncomplete \/ s.repo)
          /\ SchedulePublish
     ELSE UNCHANGED <<status, incompleteVars, emitTimer, shown>>
  /\ UNCHANGED <<runningTotal, runningLocal, runningMounted, plan, queued, active, fileDone,
                 repoDone, queryVars, indexVars, findingVars, helpers, closed>>

\* acceptRecord and insertBounded: a validated record of a scan of the
\* current query, dated unless its stat failed (file-scan-worker.js). The
\* record of a superseded query is dropped.
AcceptRecord(s, p, dated) ==
  /\ isCurrent(generation)
  /\ stream[generation][s] # "none" /\ status[s] = "running"
  /\ p \in Path \ evidence[s] /\ (s.repo => ~dated)
  /\ evidence' = IF Cardinality(evidence[s]) < MaxEvidence
                 THEN [evidence EXCEPT ![s] = @ \cup {p}] ELSE evidence
  /\ IF s.repo
     THEN /\ repos' = Merged(repos, Found(generation, {p}, dated))
          /\ repoCapped' = (repoCapped \/ Overflows(repos, Found(generation, {p}, dated)))
          /\ seenRepos' = seenRepos \cup Found(generation, {p}, dated)
          /\ UNCHANGED <<rows, capped, seen>>
     ELSE /\ rows' = Merged(rows, Found(generation, {p}, dated))
          /\ capped' = (capped \/ Overflows(rows, Found(generation, {p}, dated)))
          /\ seen' = seen \cup Found(generation, {p}, dated)
          /\ UNCHANGED <<repos, repoCapped, seenRepos>>
  /\ SchedulePublish
  /\ UNCHANGED <<laneVars, scanVars, queryVars, indexVars, incompleteVars, helpers, closed>>

\* What finish reports when the child of a source closes.
Terminal(stop) ==
  CASE stop \in {"canceled", "late"} -> {"canceled"}
    [] stop = "timed-out" -> {"timed-out"}
    [] stop = "failing" -> {"failed"}
    [] OTHER -> {"exhausted", "failed"}

\* The child closes: finishSource gives its lane back, whichever query it
\* belonged to, and pumps the current one.
SourceCloses(g, s, terminal) ==
  /\ stream[g][s] # "none" /\ terminal \in Terminal(stream[g][s])
  /\ UNCHANGED <<plan, queryVars, indexVars, findingVars, helpers, closed>>
  /\ LET str == [stream EXCEPT ![g][s] = "none"]
         total == AtLeast0(runningTotal - 1)
         local == IF s \in Local THEN AtLeast0(runningLocal - 1) ELSE runningLocal
         mounted == IF s \in Local THEN runningMounted ELSE AtLeast0(runningMounted - 1)
         own == isCurrent(g)
         broken == own /\ terminal \in {"timed-out", "failed"}
     IN IF isCurrent(generation)
        THEN Pump(queued, IF own THEN [status EXCEPT ![s] = terminal] ELSE status,
                  str, total, local, mounted,
                  IF own THEN AtLeast0(active - 1) ELSE active,
                  fileIncomplete \/ (broken /\ ~s.repo),
                  repoIncomplete \/ (broken /\ s.repo), own)
        ELSE /\ stream' = str /\ runningTotal' = total
             /\ runningLocal' = local /\ runningMounted' = mounted
             /\ UNCHANGED <<queued, active, status, fileDone, repoDone, incompleteVars,
                            emitTimer, shown>>

\* acceptIndex, acceptPlocate and indexUnavailable. A worker answers the token
\* of a query; only a token of the current query is accepted. What the workers
\* do when a query is canceled is left open: the answer may still come. An
\* answer of the index (fff) also settles indexPending; ok: the worker was
\* available and its answer not truncated. Their candidates have been stat'ed.
IndexAnswers(g, worker, P, ok) ==
  /\ <<g, worker>> \in asked
  /\ asked' = asked \ {<<g, worker>>}
  /\ IF isCurrent(g)
     THEN /\ rows' = Merged(rows, Found(g, P, TRUE))
          /\ capped' = (capped \/ Overflows(rows, Found(g, P, TRUE)))
          /\ seen' = seen \cup Found(g, P, TRUE)
          /\ indexPending' = (indexPending /\ worker # "fff")
          /\ indexUnavailable' = (indexUnavailable \/ (worker = "fff" /\ ~ok))
          /\ SchedulePublish
     ELSE UNCHANGED <<rows, capped, seen, indexPending, indexUnavailable, emitTimer, shown>>
  /\ UNCHANGED <<laneVars, scanVars, queryVars, repos, repoCapped, evidence, seenRepos,
                 incompleteVars, helpers, closed>>

\* The coalescing timer of schedulePublish.
EmitTimer ==
  /\ emitTimer /\ isCurrent(generation)
  /\ emitTimer' = FALSE
  /\ shown' = Snapshot(FALSE)
  /\ UNCHANGED <<laneVars, scanVars, queryVars, indexVars, findingVars, incompleteVars,
                 helpers, closed>>

\* close(): every live child and helper is told to stop.
Close ==
  /\ ~closed
  /\ closed' = TRUE
  /\ stream' = [g \in Gen |-> [s \in Source |-> Canceled(stream[g][s])]]
  /\ queued' = {} /\ emitTimer' = FALSE
  /\ UNCHANGED <<runningTotal, runningLocal, runningMounted, plan, active, status, fileDone,
                 repoDone, queryVars, indexVars, findingVars, incompleteVars, helpers, shown>>

Closing(g, s) == \E terminal \in Status : SourceCloses(g, s, terminal)
Settling == \E h \in Helper, v \in Answer, e \in BOOLEAN : HelperSettles(h, v, e)
Starting == \E g \in Gen, M \in SUBSET (Partition \ {Base}) : \E R \in SUBSET M :
              \E partial, refused \in BOOLEAN : StartSources(g, M, R, partial, refused)

Next ==
  \/ \E short, focus \in BOOLEAN, ok \in SUBSET Helper : Request(short, focus, ok)
  \/ Settling
  \/ \E g \in Gen, h \in Helper : HelperReaped(g, h)
  \/ Starting
  \/ \E g \in Gen : Abandons(g)
  \/ \E g \in Gen, s \in Source : SourceFails(g, s)
  \/ \E g \in Gen, s \in Source : SourceTimesOut(g, s)
  \/ \E s \in Source, p \in Path, dated \in BOOLEAN : AcceptRecord(s, p, dated)
  \/ \E g \in Gen, s \in Source : Closing(g, s)
  \/ \E g \in Gen, w \in Worker, P \in SUBSET Path, ok \in BOOLEAN : IndexAnswers(g, w, P, ok)
  \/ EmitTimer
  \/ Close

Spec == Init /\ [][Next]_vars

\* A child answers SIGKILL, and a timer fires: true of the children of the
\* base partition and of the coordinator's own steps. Nothing is assumed of
\* the children that scan a mount: a stalled mount can hold them forever.
LocalClosing == \E g \in Gen, s \in Local : Closing(g, s)
LocalFairness ==
  WF_vars(Starting) /\ WF_vars(Settling) /\ WF_vars(EmitTimer) /\ WF_vars(LocalClosing)

StalledMountSpec == Spec /\ LocalFairness

\* With every mount responding, the children that scan them close as well.
MountsRespond == WF_vars(\E g \in Gen, s \in Mounted : Closing(g, s))
-----------------------------------------------------------------------------
TypeOK ==
  /\ stream \in [Gen -> [Source -> Stop]]
  /\ runningTotal \in Nat /\ runningLocal \in Nat /\ runningMounted \in Nat
  /\ helpers \subseteq Gen \X Helper /\ asked \subseteq Gen \X Worker
  /\ awaiting \subseteq Gen
  /\ closed \in BOOLEAN
  /\ generation \in 0..MaxRequests /\ phase \in {"none", "short", "planning", "scanning"}
  /\ focused \in BOOLEAN /\ answer \in [Helper -> Answer]
  /\ plan \subseteq Source /\ queued \subseteq plan /\ active \in Nat
  /\ status \in [Source -> Status]
  /\ planIncomplete \in BOOLEAN /\ fileIncomplete \in BOOLEAN /\ repoIncomplete \in BOOLEAN
  /\ fileDone \in BOOLEAN /\ repoDone \in BOOLEAN /\ emitTimer \in BOOLEAN
  /\ indexPending \in BOOLEAN /\ indexUnavailable \in BOOLEAN
  /\ capped \in BOOLEAN /\ repoCapped \in BOOLEAN
  /\ rows \subseteq Finding /\ repos \subseteq Finding
  /\ seen \subseteq Finding /\ seenRepos \subseteq Finding
  /\ evidence \in [Source -> SUBSET Path] /\ shown \in Snapshots

\* The counters of the lanes count the children that are really alive, those
\* of superseded queries included, and active those of the current query
\* (startSource, releaseSourceLane).
LaneAccounting ==
  /\ runningLocal = Cardinality(LiveLocal)
  /\ runningMounted = Cardinality(LiveMounted)
  /\ runningTotal = runningLocal + runningMounted
  /\ isCurrent(generation) => active = Cardinality(LiveOf(generation))

\* However fast queries are replaced, and however long the children of the
\* old ones take to die, the process limits hold.
LaneBounds ==
  /\ Cardinality(LiveLocal) <= MaxLocal
  /\ Cardinality(LiveMounted) <= MaxMounted
  /\ Cardinality(helpers) <= MaxHelpers

\* The accounts of the lanes are right, however queries and children overlap.
LanesHold == LaneAccounting /\ LaneBounds

\* No wakeup of the queue is lost: a source waits only while every lane of
\* its kind is taken by a live child, possibly one of an older query.
NoIdleLane ==
  /\ queued \cap Local # {} => Cardinality(LiveLocal) >= MaxLocal
  /\ queued \cap Mounted # {} => Cardinality(LiveMounted) >= MaxMounted

\* A step that asks an index worker, or starts a child, does so for the query
\* that is current once the step is done.
AsksForCurrent ==
  /\ \A g \in Gen, w \in Worker :
       <<g, w>> \in asked' \ asked => g = generation' /\ ~closed'
  /\ \A g \in Gen, s \in Source :
       stream[g][s] = "none" /\ stream'[g][s] # "none" => g = generation' /\ ~closed'

ResultsCurrent ==
  /\ shown.gen = generation
  /\ \A f \in rows \cup repos \cup shown.rows \cup shown.repos : f.gen = generation

\* Nothing is done for a query that was replaced: no finding of it is kept or
\* shown under the id of the next ("no old-query result ... may affect the new
\* query"), and a startRequest whose query was replaced, or whose coordinator
\* was closed, at its await does not ask the index workers, which would take
\* them away from the new query; no child is started after close().
OnlyCurrentQuery == []ResultsCurrent /\ [][AsksForCurrent]_vars

\* The finding x is to be kept rather than y: it is newer, or no older and
\* more relevant.
Newer(x, y) == x.dated /\ (y.dated => Modified[x.path] > Modified[y.path])
Preferred(x, y) == Newer(x, y) \/ (~Newer(y, x) /\ x.path < y.path)

\* The findings `kept` are the MaxEvidence preferred ones of all that was
\* found, and it is reported (said) exactly when others had to go.
KeepsBest(kept, found, said) ==
  LET known == {f \in found : \A g \in found : g.path = f.path => ~Newer(g, f)}
  IN /\ kept \subseteq known /\ Cardinality(kept) <= MaxEvidence
     /\ \A f \in kept, g \in known \ kept : Preferred(f, g)
     /\ kept # known => Cardinality(kept) = MaxEvidence
     /\ said <=> kept # known

\* insertBounded keeps the same findings whichever source delivers them first
\* and whichever delivers the date of a path ("the same observed candidate set
\* must yield the same ranking regardless of source delivery order"), and the
\* query is capped exactly when some had to go ("capped requires positive
\* evidence"): evicting early never costs a better finding later.
BestKept == KeepsBest(rows, seen, capped) /\ KeepsBest(repos, seenRepos, repoCapped)

\* No update is lost between acceptRecord and the wire: when no snapshot is
\* due, the last one shows the best findings of the query.
ShownIsUpToDate ==
  isCurrent(generation) /\ ~emitTimer =>
    /\ shown.rows = Best(rows, MaxResults) /\ shown.repos = Best(repos, MaxResults)
    /\ shown.capped = (capped \/ Cardinality(rows) > MaxResults)

Settled == phase = "scanning" /\ queued = {} /\ active = 0
Exhausted(S) == \A s \in S : status[s] = "exhausted"

\* What the last snapshot of a settled query says of its coverage is exactly
\* what its scans did, and a query one of whose helpers failed or was refused
\* does not say that it is complete.
SettledTruth ==
  isCurrent(generation) /\ Settled /\ ~emitTimer =>
    /\ shown.complete = /\ Exhausted(FileSources(plan)) /\ ~planIncomplete
                        /\ focused => ~indexPending /\ ~indexUnavailable
    /\ shown.repoComplete = (Exhausted(RepoSources(plan)) /\ ~planIncomplete)
    /\ shown.complete \/ shown.repoComplete => \A h \in Helper : answer[h] = "ok"

\* docs/architecture-file-search.md: "complete means all relevant coverage
\* scans exhausted successfully".
CompleteMeansExhausted ==
  isCurrent(generation) /\ shown.complete /\ phase # "short" =>
    phase = "scanning" /\ Exhausted(FileSources(plan))

\* The local lanes are reserved: even with every mount stalled for good, the
\* scans of the base partition of the latest query are all started.
LocalScansStart ==
  \A g \in Gen :
    isCurrent(g) /\ queued \cap Local # {} ~> ~isCurrent(g) \/ queued \cap Local = {}

\* With every mount responding, a query that is not replaced gets its last
\* snapshot, and no helper or scan is waited for any more.
QuerySettles ==
  MountsRespond =>
    \A g \in Gen : isCurrent(g) ~>
      \/ (Settled \/ phase = "short") /\ ~emitTimer
      \/ ~isCurrent(g)
=============================================================================
