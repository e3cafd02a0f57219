---------------------------- MODULE IndexWorker ----------------------------
(***************************************************************************)
(* IndexWorker of bridge/file-search.js: the client of one optional        *)
(* accelerator process (fff or plocate), which it spawns, queries, retires *)
(* and restarts.                                                           *)
(*                                                                         *)
(* One action is one callback: a call of the coordinator (request, cancel, *)
(* close), a line the process wrote, an event of the child, a timer. The   *)
(* process itself is what the client sees of it: it says once whether it   *)
(* is available, answers queries written to it in any order, or does       *)
(* neither, and it may die at any time.                                    *)
(***************************************************************************)
EXTENDS Integers

CONSTANTS
  MaxTokens,      \* queries of one behaviour (a bound of the model)
  Root,           \* base paths a query can ask for
  Modes,          \* the accelerators: "fff", "plocate"
  Spawns          \* what spawn may do besides starting a child

\* "throws": spawn raises. "no stdio": the process is out of descriptors; the
\* child has no pipes, and an error event follows, but never a close.
ASSUME WorkerAssumption ==
  /\ MaxTokens \in Nat /\ Root # {}
  /\ Modes \subseteq {"fff", "plocate"} /\ Spawns \subseteq {"throws", "no stdio"}

Token == 1..MaxTokens
None == 0                         \* no query pending
Child == {"none", "alive", "exited", "stillborn"}

VARIABLES
  latest,         \* the last token the coordinator made
  pending, sent,  \* the pending query, and whether it was written to the child
  deadline,       \* the query timer of the pending query is armed
  mode,           \* the accelerator of this worker
  root, closed,
  child,          \* the lifecycle; "exited": its close event is still to come
  childRoot,      \* ASK_FILE_ROOT of the child
  ready, startupTimer, retiring, restartAfterClose, intentional, failureNoted,
  backoff,        \* Date.now() < nextRetryAt
  hello,          \* the child has said whether it is available
  inbox,          \* queries written to the child and not answered by it
  told,           \* told[t]: how often a callback was called for t
  rowsFor         \* rowsFor[t]: the query whose rows t was given

queryVars == <<pending, sent, deadline>>
childVars == <<child, childRoot, ready, startupTimer, intentional, failureNoted, hello, inbox>>
answerVars == <<told, rowsFor>>
vars == <<latest, queryVars, mode, root, closed, childVars, retiring, restartAfterClose,
          backoff, answerVars>>

\* A callback for each of the tokens S.
Tell(before, S) == [t \in Token |-> before[t] + IF t \in S THEN 1 ELSE 0]

\* The pending query becomes t, not written yet; None: there is none any more.
Pend(t) == pending' = t /\ sent' = FALSE /\ deadline' = FALSE

\* unavailablePending
Unavailable == Pend(None) /\ told' = Tell(told, {pending}) /\ UNCHANGED rowsFor

\* terminate() of the child, for a reason of the client's own or a failure.
Retire(own) == retiring' = TRUE /\ intentional' = (intentional \/ own)

\* close() ends the child, if there is one.
RetireChild == IF child # "none" THEN Retire(TRUE) ELSE UNCHANGED <<retiring, intentional>>

\* ensure() for the query t where no child is alive; paced: the backoff runs.
\* before: what was told so far; asked: called by request(), which asks for a
\* restart of a child that is being retired.
Ensure(t, before, paced, asked) ==
  \/ /\ paced \/ "throws" \in Spawns
     /\ child' = "none" /\ Pend(None) /\ told' = Tell(before, {t})
     /\ backoff' = TRUE
     /\ ready' = FALSE /\ startupTimer' = FALSE /\ retiring' = FALSE
     /\ restartAfterClose' = FALSE /\ intentional' = FALSE /\ failureNoted' = FALSE
     /\ UNCHANGED childRoot
  \/ /\ ~paced
     /\ child' = "alive" /\ Pend(t) /\ told' = before
     /\ backoff' = FALSE
     /\ ready' = FALSE /\ startupTimer' = TRUE /\ retiring' = FALSE
     /\ restartAfterClose' = FALSE /\ intentional' = FALSE /\ failureNoted' = FALSE
     /\ childRoot' = root'
  \/ /\ ~paced /\ "no stdio" \in Spawns
     /\ child' = "stillborn" /\ Pend(None) /\ told' = Tell(before, {t})
     /\ backoff' = TRUE
     /\ ready' = FALSE /\ startupTimer' = FALSE /\ retiring' = TRUE
     /\ restartAfterClose' = asked /\ intentional' = FALSE /\ failureNoted' = TRUE
     /\ childRoot' = root'

\* Mutant: the query timer is not started.
SendUntimed(t, before) ==
  /\ pending' = IF ready' /\ child # "alive" THEN None ELSE t
  /\ sent' = (ready' /\ child = "alive")
  /\ deadline' = FALSE
  /\ inbox' = IF sent' THEN inbox \cup {t} ELSE inbox
  /\ told' = IF pending' = None THEN Tell(before, {t}) ELSE before

\* sendPending for the query t, to a child that is not being retired.
Send(t, before) ==
  /\ pending' = IF ready' /\ child # "alive" THEN None ELSE t
  /\ sent' = (ready' /\ child = "alive")
  /\ deadline' = sent'
  /\ inbox' = IF sent' THEN inbox \cup {t} ELSE inbox
  /\ told' = IF pending' = None THEN Tell(before, {t}) ELSE before

\* sendPending has something to send.
Unsent == pending # None /\ ~sent

\* The query t waits for the end of the child, which is being retired.
Wait(t, before) == Pend(t) /\ told' = before /\ restartAfterClose' = TRUE

\* Mutant: an answer is taken for the pending query, whatever it answers.
ExpectedAny(t) == pending # None

\* The pending query is the one the child answers.
Expected(t) == pending = t
-----------------------------------------------------------------------------
Init ==
  /\ latest = 0 /\ pending = None /\ sent = FALSE /\ deadline = FALSE
  /\ mode \in Modes /\ root \in Root /\ closed = FALSE
  /\ child = "none" /\ childRoot = root /\ ready = FALSE /\ startupTimer = FALSE
  /\ retiring = FALSE /\ restartAfterClose = FALSE /\ intentional = FALSE
  /\ failureNoted = FALSE /\ backoff = FALSE /\ hello = FALSE /\ inbox = {}
  /\ told = [t \in Token |-> 0] /\ rowsFor = [t \in Token |-> None]

\* request() of a closed worker.
RequestRefused ==
  /\ closed /\ latest < MaxTokens
  /\ latest' = latest + 1
  /\ told' = Tell(told, {latest'})
  /\ UNCHANGED <<queryVars, mode, root, closed, childVars, retiring, restartAfterClose, backoff, rowsFor>>

\* Mutant: another root does not need another child.
NeedsFreshWhenBusy(base) ==
  /\ child # "none"
  /\ pending # None /\ sent /\ mode = "fff"

\* A query under another root, or one that replaces a query fff works on
\* (its search is synchronous), needs a fresh child.
NeedsFreshChild(base) ==
  /\ child # "none"
  /\ base # root \/ (pending # None /\ sent /\ mode = "fff")

\* request() with setBasePath: the query before it is told it is unavailable.
Request(base) ==
  /\ ~closed /\ latest < MaxTokens
  /\ latest' = latest + 1 /\ root' = base
  /\ LET t == latest + 1
         before == Tell(told, {pending})
     IN \/ /\ NeedsFreshChild(base)
           /\ Wait(t, before) /\ Retire(TRUE)
           /\ UNCHANGED <<child, childRoot, ready, startupTimer, failureNoted, backoff, hello, inbox>>
        \/ /\ child = "none"
           /\ Ensure(t, before, backoff, TRUE)
           /\ hello' = FALSE /\ inbox' = {}
        \/ /\ child # "none" /\ ~NeedsFreshChild(base) /\ retiring
           /\ Wait(t, before)
           /\ UNCHANGED <<childVars, retiring, backoff>>
        \/ /\ child # "none" /\ ~NeedsFreshChild(base) /\ ~retiring
           /\ ready' = ready
           /\ Send(t, before)
           /\ UNCHANGED <<child, childRoot, startupTimer, intentional, failureNoted, hello,
                          retiring, restartAfterClose, backoff>>
  /\ UNCHANGED <<mode, closed, rowsFor>>

\* cancel(token): a query the child works on costs the child.
Cancel(t) ==
  /\ pending = t /\ t # None
  /\ Pend(None)
  /\ IF sent /\ child # "none"
     THEN Retire(TRUE) /\ restartAfterClose' = FALSE
     ELSE UNCHANGED <<retiring, intentional, restartAfterClose>>
  /\ UNCHANGED <<latest, mode, root, closed, child, childRoot, ready, startupTimer, failureNoted,
                 hello, inbox, backoff, answerVars>>

Close ==
  /\ ~closed /\ closed' = TRUE
  /\ Pend(None) /\ restartAfterClose' = FALSE /\ startupTimer' = FALSE
  /\ RetireChild
  /\ UNCHANGED <<latest, mode, root, child, childRoot, ready, failureNoted, hello, inbox, backoff,
                 answerVars>>

\* failAndRetire
FailAndRetire ==
  /\ backoff' = (backoff \/ ~failureNoted) /\ failureNoted' = TRUE
  /\ Retire(FALSE) /\ Unavailable
  /\ UNCHANGED <<latest, mode, root, closed, child, childRoot, ready, hello, inbox, restartAfterClose>>

\* An error of the child or its pipes, or too much output.
ChildError ==
  /\ child # "none"
  /\ FailAndRetire /\ UNCHANGED startupTimer

StartupTimeout ==
  /\ startupTimer /\ ~ready /\ child # "none"
  /\ FailAndRetire /\ startupTimer' = FALSE

\* The ready line of the child; a child being retired is not listened to.
Ready(available) ==
  /\ child \in {"alive", "exited"} /\ ~hello
  /\ hello' = TRUE
  /\ \/ /\ retiring
        /\ UNCHANGED <<queryVars, ready, startupTimer, intentional, inbox, retiring, backoff, told>>
     \/ /\ ~retiring /\ ~available
        /\ startupTimer' = FALSE /\ backoff' = TRUE
        /\ Pend(None) /\ told' = Tell(told, {pending}) /\ Retire(FALSE)
        /\ UNCHANGED <<ready, inbox>>
     \/ /\ ~retiring /\ available
        /\ startupTimer' = FALSE /\ backoff' = FALSE /\ ready' = TRUE
        /\ IF Unsent
           THEN Send(pending, told)
           ELSE UNCHANGED <<queryVars, inbox, told>>
        /\ UNCHANGED <<intentional, retiring>>
  /\ UNCHANGED <<latest, mode, root, closed, child, childRoot, failureNoted, restartAfterClose, rowsFor>>

\* consumeLine for the answer to the query t.
Reply(t) ==
  /\ child \in {"alive", "exited"} /\ t \in inbox
  /\ inbox' = inbox \ {t}
  /\ IF Expected(t)
     THEN /\ Pend(None)
          /\ told' = Tell(told, {pending}) /\ rowsFor' = [rowsFor EXCEPT ![pending] = t]
     ELSE UNCHANGED <<queryVars, answerVars>>
  /\ UNCHANGED <<latest, mode, root, closed, child, childRoot, ready, startupTimer, intentional,
                 failureNoted, hello, retiring, restartAfterClose, backoff>>

QueryTimeout ==
  /\ deadline
  /\ backoff' = TRUE /\ Retire(FALSE) /\ Unavailable
  /\ UNCHANGED <<latest, mode, root, closed, child, childRoot, ready, startupTimer, failureNoted,
                 hello, inbox, restartAfterClose>>

\* The process is gone, by itself or by a signal: its stdin is not writable.
ChildExits ==
  /\ child = "alive" /\ child' = "exited"
  /\ UNCHANGED <<latest, queryVars, mode, root, closed, childRoot, ready, startupTimer, intentional,
                 failureNoted, hello, inbox, retiring, restartAfterClose, backoff, answerVars>>

\* The close event: a query that came while the child was being retired gets
\* a new child, after an intentional end at once; any other is unavailable.
ChildCloses ==
  /\ child = "exited"
  /\ UNCHANGED <<latest, mode, root, closed, rowsFor>>
  /\ LET failed == ~intentional /\ ~failureNoted
     IN IF restartAfterClose /\ ~closed /\ pending # None
        THEN Ensure(pending, told, (backoff \/ failed) /\ ~intentional, FALSE)
        ELSE /\ child' = "none" /\ ready' = FALSE /\ startupTimer' = FALSE
             /\ retiring' = FALSE /\ restartAfterClose' = FALSE
             /\ intentional' = FALSE /\ failureNoted' = FALSE
             /\ backoff' = (backoff \/ failed)
             /\ Pend(None) /\ told' = Tell(told, {pending})
             /\ UNCHANGED childRoot
  /\ hello' = FALSE /\ inbox' = {}

BackoffEnds ==
  /\ backoff /\ backoff' = FALSE
  /\ UNCHANGED <<latest, queryVars, mode, root, closed, childVars, retiring, restartAfterClose, answerVars>>

Next ==
  \/ RequestRefused
  \/ \E base \in Root : Request(base)
  \/ \E t \in Token : Cancel(t)
  \/ Close
  \/ ChildError
  \/ StartupTimeout
  \/ \E available \in BOOLEAN : Ready(available)
  \/ \E t \in Token : Reply(t)
  \/ QueryTimeout
  \/ ChildExits
  \/ ChildCloses
  \/ BackoffEnds

Spec == Init /\ [][Next]_vars

\* The timers fire, whatever the child does.
TimerFairness == WF_vars(StartupTimeout) /\ WF_vars(QueryTimeout)
TimerSpec == Spec /\ TimerFairness

\* A child sent SIGTERM and then SIGKILL (terminate) exits, and one that
\* exited closes.
ChildrenEnd == WF_vars(retiring /\ ChildExits) /\ WF_vars(ChildCloses)
-----------------------------------------------------------------------------
TypeOK ==
  /\ latest \in 0..MaxTokens /\ pending \in 0..latest
  /\ sent \in BOOLEAN /\ deadline \in BOOLEAN /\ closed \in BOOLEAN
  /\ mode \in Modes /\ root \in Root /\ childRoot \in Root /\ child \in Child
  /\ ready \in BOOLEAN /\ startupTimer \in BOOLEAN /\ retiring \in BOOLEAN
  /\ restartAfterClose \in BOOLEAN /\ intentional \in BOOLEAN /\ failureNoted \in BOOLEAN
  /\ backoff \in BOOLEAN /\ hello \in BOOLEAN /\ inbox \subseteq 1..latest
  /\ told \in [Token -> Nat] /\ rowsFor \in [Token -> 0..MaxTokens]

\* Each query is answered at most once, only with its own rows, and not while
\* it is still open: whatever replies, timers, errors and closes of this child
\* and the one before it come in which order (consumeLine, unavailablePending).
AnsweredOnce ==
  \A t \in Token :
    /\ told[t] <= IF t = pending THEN 0 ELSE 1
    /\ rowsFor[t] \in {None, t} /\ (rowsFor[t] = t => told[t] = 1)

\* No query is forgotten, and none is answered from another root than its own
\* (setBasePath): one that waits is at a child of its root that listens, with
\* its deadline armed; or waits for such a child to start, with the startup
\* timer armed; or for a child that ends, whose close will start another.
Attended ==
  pending # None =>
    \/ /\ sent /\ deadline /\ pending \in inbox
       /\ child \in {"alive", "exited"} /\ ~retiring /\ childRoot = root
    \/ /\ ~sent /\ startupTimer /\ ~ready
       /\ child \in {"alive", "exited"} /\ ~retiring /\ childRoot = root
    \/ ~sent /\ restartAfterClose /\ child # "none" /\ retiring

\* The callbacks keep the promise made to the coordinator.
Promise == INSTANCE AnswerOnce WITH latest <- latest, pending <- pending, told <- told, rowsFor <- rowsFor
KeepsPromise == Promise!Spec

\* Every query is answered or withdrawn ("unavailable never leaves a query
\* pending forever", tests/search-streaming-acceptance.test.mjs).
EveryQueryAnswered ==
  ChildrenEnd => \A t \in Token : pending = t ~> pending # t
=============================================================================
