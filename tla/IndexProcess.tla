---------------------------- MODULE IndexProcess ----------------------------
(***************************************************************************)
(* bridge/file-index-worker.js: the process at the other end of            *)
(* IndexWorker. It reads queries from a pipe and writes answers to one.    *)
(*                                                                         *)
(* As fff it scans first, then answers each query at once. As plocate it   *)
(* runs one plocate at a time: a query that comes meanwhile replaces the   *)
(* one that waits, and has the one that runs killed, which gives no answer *)
(* then. A query stands for its plocate run. An answer says what its rows  *)
(* are: all of them ("whole"), as many as fit ("capped"), or possibly not  *)
(* all ("unavailable").                                                    *)
(***************************************************************************)
EXTENDS Integers, Sequences

CONSTANTS MaxTokens, Spawns      \* as in IndexWorker; here of plocate

Token == 1..MaxTokens
None == 0
Quality == {"whole", "capped", "unavailable"}

VARIABLES
  mode,               \* ASK_FILE_INDEX_MODE
  stdin, stdout,      \* the pipes: queries not read; lines the client has not read
  phase,              \* "ending": shutdown() was called
  warming,            \* warmingMessage
  active, queued,     \* activePlocate, queuedPlocate
  plocates,           \* the runs whose process has not closed
  stop,               \* stop[t]: why t was stopped: "capped", or "bad" (time, error, overflow)
  canceled,           \* runs that are to give no answer
  lost                \* runs that lost rows otherwise than by the cap (for the properties)

processVars == <<stdin, stdout, phase, warming, active, queued, plocates, stop, canceled, lost>>
runVars == <<plocates, stop, canceled, lost>>

ReadyLine(available) == [token |-> None, answer |-> IF available THEN "whole" ELSE "unavailable"]
Answer(t, quality) == [token |-> t, answer |-> quality]

\* The process just spawned. plocate is ready at once.
Greeting == IF mode = "plocate" THEN <<ReadyLine(TRUE)>> ELSE <<>>
FirstPhase == IF mode = "plocate" THEN "ready" ELSE "starting"
Unstopped == [t \in Token |-> "no"]

Init ==
  /\ stdin = <<>> /\ stdout = Greeting /\ phase = FirstPhase
  /\ warming = None /\ active = None /\ queued = None
  /\ plocates = {} /\ stop = Unstopped /\ canceled = {} /\ lost = {}

Start ==
  /\ stdin' = <<>> /\ stdout' = Greeting /\ phase' = FirstPhase
  /\ warming' = None /\ active' = None /\ queued' = None
  /\ plocates' = {} /\ stop' = Unstopped /\ canceled' = {} /\ lost' = {}

\* startPlocate(t), where the lines `said` are written before.
StartPlocate(t, said, others) ==
  \/ /\ active' = t /\ plocates' = others \cup {t} /\ stdout' = said
     /\ UNCHANGED stop
  \/ /\ "throws" \in Spawns
     /\ active' = None /\ plocates' = others /\ stdout' = Append(said, Answer(t, "unavailable"))
     /\ UNCHANGED stop
  \/ /\ "no stdio" \in Spawns              \* an error event, and never a close
     /\ active' = t /\ plocates' = others /\ stdout' = said
     /\ stop' = [stop EXCEPT ![t] = "bad"]

\* queuePlocate finds a run.
Busy == active # None

\* Mutant: a query that comes while one runs is ignored.
IgnoreWhileBusy(t) == UNCHANGED <<queued, canceled>>

\* queuePlocate then: the run is killed and silenced.
Replace(t) == queued' = t /\ canceled' = canceled \cup {active}

\* One line of stdin.
ReadLine ==
  /\ stdin # <<>> /\ phase # "ending"
  /\ stdin' = Tail(stdin)
  /\ LET t == Head(stdin) IN
     \/ /\ mode = "plocate" /\ ~Busy
        /\ StartPlocate(t, stdout, plocates)
        /\ UNCHANGED <<warming, queued, canceled, lost>>
     \/ /\ mode = "plocate" /\ Busy
        /\ Replace(t)
        /\ UNCHANGED <<stdout, warming, active, plocates, stop, lost>>
     \/ /\ mode = "fff" /\ phase = "ready"
        /\ \E quality \in Quality : stdout' = Append(stdout, Answer(t, quality))
        /\ UNCHANGED <<warming, active, queued, runVars>>
     \/ /\ mode = "fff" /\ phase # "ready"
        /\ warming' = t
        /\ UNCHANGED <<stdout, active, queued, runVars>>
  /\ UNCHANGED phase

\* The finder could not be made, or its scan ended.
ScanEnds(ok) ==
  /\ mode = "fff" /\ phase = "starting"
  /\ phase' = IF ok THEN "ready" ELSE "failed"
  /\ \E quality \in Quality :
       stdout' = Append(stdout, ReadyLine(ok))
                   \o IF ok /\ warming # None THEN <<Answer(warming, quality)>> ELSE <<>>
  /\ warming' = IF ok THEN None ELSE warming
  /\ UNCHANGED <<stdin, active, queued, runVars>>

\* consumePlocate has 180 rows and finds another. After a stop it reads no more.
Caps(t) ==
  /\ t \in plocates /\ stop[t] = "no" /\ t \notin canceled
  /\ stop' = [stop EXCEPT ![t] = "capped"]
  /\ UNCHANGED <<stdin, stdout, phase, warming, active, queued, plocates, canceled, lost>>

\* An error of plocate or its pipe, too much output, or the timer of 1.2 s. The
\* latest reason counts, and none for a run that is to give no answer.
Stops(t) ==
  /\ t \in plocates \ canceled
  /\ stop' = [stop EXCEPT ![t] = "bad"] /\ lost' = lost \cup {t}
  /\ UNCHANGED <<stdin, stdout, phase, warming, active, queued, plocates, canceled>>

\* Mutant: what a failed plocate printed is taken for all there is.
QualityIfStopped(t, clean) ==
  CASE stop[t] = "capped" -> "capped" [] stop[t] = "bad" -> "unavailable" [] OTHER -> "whole"

\* The answer of finishPlocate; clean: exit code 0, and no record cut short.
QualityOf(t, clean) ==
  CASE stop[t] = "capped" -> "capped"
    [] stop[t] = "no" /\ clean -> "whole"
    [] OTHER -> "unavailable"

\* Mutant: the query that waits is forgotten.
NextIfAny(said, others) == active' = None /\ stdout' = said /\ plocates' = others /\ UNCHANGED <<queued, stop>>

\* finishPlocate goes on with the query that waits.
NextQueued(said, others) ==
  IF queued # None /\ phase # "ending"
  THEN queued' = None /\ StartPlocate(queued, said, others)
  ELSE active' = None /\ stdout' = said /\ plocates' = others /\ UNCHANGED <<queued, stop>>

\* finishPlocate of the run t. A run that is killed, or fails, is not clean.
PlocateCloses(t, clean) ==
  /\ t \in plocates
  /\ lost' = IF clean \/ t \in canceled THEN lost ELSE lost \cup {t}
  /\ NextQueued(IF t \in canceled THEN stdout ELSE Append(stdout, Answer(t, QualityOf(t, clean))),
                plocates \ {t})
  /\ canceled' = canceled \ {t}
  /\ UNCHANGED <<stdin, phase, warming>>

\* shutdown(): a signal. It reads no more queries and ends with its plocate,
\* or 600 ms later.
Shutdown ==
  /\ phase # "ending" /\ phase' = "ending"
  /\ queued' = None
  /\ canceled' = IF active = None THEN canceled ELSE canceled \cup {active}
  /\ UNCHANGED <<stdin, stdout, warming, active, plocates, stop, lost>>

\* The process is gone, and with it the queries it has not answered. What it
\* wrote can still be read.
Gone ==
  /\ stdin' = <<>> /\ warming' = None /\ active' = None /\ queued' = None
  /\ plocates' = {} /\ phase' = "ending" /\ stop' = Unstopped /\ canceled' = {}
  /\ UNCHANGED <<stdout, lost>>

\* The queries it has, at whatever stage, and still means to answer.
Held ==
  {stdin[i] : i \in 1..Len(stdin)} \cup {stdout[i].token : i \in 1..Len(stdout)}
    \cup ({warming, queued, active} \ (canceled \cup {None}))

\* Rows are called complete only if the plocate that printed them was never
\* stopped, ended well, and had all its output read (finishPlocate).
Truthful ==
  \A i \in 1..Len(stdout) : stdout[i].answer = "whole" => stdout[i].token \notin lost
=============================================================================
