----------------------------- MODULE IndexLane -----------------------------
(***************************************************************************)
(* IndexWorker and the process it owns, over two pipes. Each step of the   *)
(* client is its action in IndexWorker together with what it does to the   *)
(* pipes; a spawn makes a new process; the close of a child is reported    *)
(* when its output has been read.                                          *)
(***************************************************************************)
EXTENDS IndexWorker, Sequences

VARIABLES stdin, stdout, phase, warming, active, queued, plocates, stop, canceled, lost

P == INSTANCE IndexProcess

otherVars == <<phase, warming, active, queued, plocates, stop, canceled, lost>>
processVars == <<stdin, stdout, otherVars>>
laneVars == <<vars, processVars>>

\* What a step of the client does to the pipes, `rest` being what is left of
\* the process's output: sendPending writes a line, ensure makes a process.
Wire(rest) ==
  IF child' = "alive" /\ child # "alive" THEN P!Start
  ELSE /\ stdin' = IF sent' /\ ~(sent /\ pending' = pending) THEN Append(stdin, pending') ELSE stdin
       /\ stdout' = rest
       /\ UNCHANGED otherVars

LaneInit == Init /\ P!Init

LaneRequest(base) == Request(base) /\ Wire(stdout)
HearReady ==
  /\ stdout # <<>> /\ Head(stdout).token = None
  /\ Ready(Head(stdout).answer = "whole") /\ Wire(Tail(stdout))

HearReply ==
  /\ stdout # <<>> /\ Head(stdout).token # None
  /\ Reply(Head(stdout).token) /\ Wire(Tail(stdout))

LaneExit == ChildExits /\ P!Gone
LaneClose == stdout = <<>> /\ ChildCloses /\ Wire(stdout)

\* The process on its own.
Alive == child = "alive" /\ UNCHANGED vars

LaneNext ==
  \/ RequestRefused /\ UNCHANGED processVars
  \/ \E base \in Root : LaneRequest(base)
  \/ \E t \in Token : Cancel(t) /\ UNCHANGED processVars
  \/ Close /\ UNCHANGED processVars
  \/ ChildError /\ UNCHANGED processVars
  \/ StartupTimeout /\ UNCHANGED processVars
  \/ QueryTimeout /\ UNCHANGED processVars
  \/ BackoffEnds /\ UNCHANGED processVars
  \/ HearReady \/ HearReply \/ LaneExit \/ LaneClose
  \/ Alive /\ P!ReadLine
  \/ \E ok \in BOOLEAN : Alive /\ P!ScanEnds(ok)
  \/ \E t \in Token : Alive /\ P!Caps(t)
  \/ \E t \in Token : Alive /\ P!Stops(t)
  \/ \E t \in Token, clean \in BOOLEAN : Alive /\ P!PlocateCloses(t, clean)
  \/ Alive /\ P!Shutdown

LaneSafety == LaneInit /\ [][LaneNext]_laneVars

LaneSpec == LaneSafety /\ TimerFairness

\* Both ends read what there is to read; a plocate is stopped in 1.2 s if it
\* does not end, and one that is stopped is killed and closes; a process that
\* shuts down exits.
LaneFairness ==
  /\ WF_laneVars(HearReady) /\ WF_laneVars(HearReply) /\ WF_laneVars(Alive /\ P!ReadLine)
  /\ \A t \in Token :
       /\ WF_laneVars(stop[t] = "no" /\ Alive /\ P!Stops(t))
       /\ WF_laneVars((stop[t] # "no" \/ t \in canceled) /\ Alive
                        /\ \E clean \in BOOLEAN : P!PlocateCloses(t, clean))
  /\ WF_laneVars(phase = "ending" /\ LaneExit)
-----------------------------------------------------------------------------
\* The query the client waits for is always on its way to an answer: queued,
\* running and not canceled, or in a pipe. A process drops only queries that
\* the client has given up (queuePlocate, warmingMessage).
NeverDropped ==
  sent /\ child = "alive" /\ ~retiring /\ phase # "ending" => pending \in P!Held

\* No answer says it is complete that is not.
Truthful == P!Truthful

\* The process answers of itself, without the timers of the client: a query it
\* has is answered, replaced, or gone with the process.
ProcessAnswers == LaneFairness => \A t \in Token : t \in P!Held ~> t \notin P!Held
=============================================================================
