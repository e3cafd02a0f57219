-------------------------- MODULE IndexWorkerProofs --------------------------
(***************************************************************************)
(* Theorems about IndexWorker, and then about IndexLane: the promise to    *)
(* the coordinator is kept, and the process keeps to it, for every number  *)
(* of queries and roots, in both modes and whatever spawn does.            *)
(***************************************************************************)
EXTENDS IndexLane, TLAPS

\* The lifecycle of the child: one that is not being retired searches the
\* current root and has answered or its startup timer armed; a closed worker
\* retires its child and has no query.
Lifecycle ==
  /\ child \in {"none", "stillborn"} => ~ready /\ ~startupTimer
  /\ child = "none" => ~retiring
  /\ child = "stillborn" => retiring
  /\ child \in {"alive", "exited"} /\ ~retiring => childRoot = root /\ (ready \/ startupTimer)
  /\ closed => pending = None /\ (child # "none" => retiring)

\* Tokens not made yet have no answer, and a child has only been written the
\* pending query while it is marked as sent.
Fresh ==
  /\ \A t \in Token : t > latest => told[t] = 0 /\ rowsFor[t] = None
  /\ pending \in inbox => sent
  /\ sent => pending # None
  /\ deadline => sent

\* Attended, but for the root, which follows from Lifecycle.
Watched ==
  pending # None =>
    \/ sent /\ deadline /\ child \in {"alive", "exited"} /\ ~retiring /\ pending \in inbox
    \/ ~sent /\ startupTimer /\ child \in {"alive", "exited"} /\ ~retiring /\ ~ready
    \/ ~sent /\ restartAfterClose /\ child # "none" /\ retiring

IInv == TypeOK /\ AnsweredOnce /\ Watched /\ Lifecycle /\ Fresh

-----------------------------------------------------------------------------
(* The promise.                                                             *)

\* A callback for the tokens S counts one for each of them.
LEMMA TellOnce ==
  ASSUME NEW f \in [Token -> Nat], NEW S
  PROVE  /\ Tell(f, S) \in [Token -> Nat]
         /\ \A t \in Token : Tell(f, S)[t] = IF t \in S THEN f[t] + 1 ELSE f[t]
BY DEF Tell

LEMMA TokenNumbers == MaxTokens \in Nat /\ Token \subseteq Nat \ {None}
<1>1. MaxTokens \in Nat
  BY WorkerAssumption
<1> QED BY <1>1 DEF Token, None

\* Nobody is told when no query is pending.
LEMMA TellNobody ==
  ASSUME NEW f \in [Token -> Nat]
  PROVE  Tell(f, {None}) = f
<1>1. \A t \in Token : Tell(f, {None})[t] = f[t]
  <2>1. \A t \in Token : Tell(f, {None})[t] = IF t \in {None} THEN f[t] + 1 ELSE f[t]
    BY TellOnce
  <2>2. \A t \in Token : t \notin {None}
    BY TokenNumbers
  <2> QED BY <2>1, <2>2
<1>2. Tell(f, {None}) \in [Token -> Nat]
  BY TellOnce
<1> QED BY <1>1, <1>2

\* Two callbacks for different tokens are one for both.
LEMMA TellBoth ==
  ASSUME NEW f \in [Token -> Nat], NEW a, NEW b, a # b
  PROVE  Tell(Tell(f, {a}), {b}) = Tell(f, {a, b})
<1> DEFINE g == Tell(f, {a})
<1>1. g \in [Token -> Nat]
  BY TellOnce
<1>2. Tell(g, {b}) \in [Token -> Nat] /\ Tell(f, {a, b}) \in [Token -> Nat]
  BY <1>1, TellOnce
<1>3. \A t \in Token : g[t] = IF t \in {a} THEN f[t] + 1 ELSE f[t]
  BY TellOnce
<1>4. \A t \in Token : Tell(g, {b})[t] = IF t \in {b} THEN g[t] + 1 ELSE g[t]
  BY <1>1, TellOnce
<1>5. \A t \in Token : Tell(f, {a, b})[t] = IF t \in {a, b} THEN f[t] + 1 ELSE f[t]
  BY TellOnce
<1>6. \A t \in Token : Tell(g, {b})[t] = Tell(f, {a, b})[t]
  BY <1>3, <1>4, <1>5
<1> HIDE DEF g
<1>7. ASSUME NEW x \in [Token -> Nat], NEW y \in [Token -> Nat], \A t \in Token : x[t] = y[t]
      PROVE  x = y
  BY <1>7
<1> QED BY <1>2, <1>6, <1>7 DEF g

\* The two modules count callbacks alike.
LEMMA SameTell == \A f, S : Promise!Tell(f, S) = Tell(f, S)
BY DEF Tell, Promise!Tell, Token, Promise!Token

\* What a step may do to the answers, as the promise has it.
Asks ==
  /\ latest < MaxTokens /\ latest' = latest + 1 /\ UNCHANGED rowsFor
  /\ \/ pending' = latest' /\ told' = Tell(told, {pending})
     \/ pending' = None /\ told' = Tell(told, {pending, latest'})
Answers ==
  /\ pending # None /\ pending' = None /\ told' = Tell(told, {pending}) /\ UNCHANGED latest
  /\ rowsFor' = rowsFor \/ rowsFor' = [rowsFor EXCEPT ![pending] = pending]
Withdraws == pending # None /\ pending' = None /\ UNCHANGED <<latest, told, rowsFor>>
Keeps == UNCHANGED <<latest, pending, told, rowsFor>>

\* A step that tells the pending query, if any, and forgets it, is allowed.
LEMMA TellPending ==
  ASSUME TypeOK, pending' = None, told' = Tell(told, {pending}), UNCHANGED <<latest, rowsFor>>
  PROVE  Answers \/ Keeps
<1>1. CASE pending = None
  BY <1>1, TellNobody DEF TypeOK, Keeps
<1>2. CASE pending # None
  BY <1>2 DEF Answers
<1> QED BY <1>1, <1>2

\* A call of request() asks: it tells the query before it, and perhaps itself.
LEMMA RequestAsks ==
  ASSUME IInv, NEW base \in Root, Request(base)
  PROVE  Asks
<1> DEFINE t == latest + 1
           before == Tell(told, {pending})
<1>1. latest < MaxTokens /\ latest' = t /\ UNCHANGED rowsFor
  BY DEF Request
<1>2. pending # t /\ told \in [Token -> Nat]
  BY DEF IInv, TypeOK
<1>3. Tell(before, {t}) = Tell(told, {pending, t})
  BY <1>2, TellBoth
<1>4. \/ pending' = t /\ told' = before
      \/ pending' = None /\ told' = Tell(before, {t})
  <2>1. CASE NeedsFreshChild(base)
    BY <2>1 DEF Request, Wait, Pend, NeedsFreshChild
  <2>2. CASE child = "none"
    BY <2>2 DEF Request, Ensure, Pend, NeedsFreshChild
  <2>3. CASE child # "none" /\ ~NeedsFreshChild(base) /\ retiring
    BY <2>3 DEF Request, Wait, Pend
  <2>4. CASE child # "none" /\ ~NeedsFreshChild(base) /\ ~retiring
    <3>1. Send(t, before)
      BY <2>4 DEF Request
    <3>2. pending' = None \/ pending' = t
      BY <3>1 DEF Send
    <3>3. t # None
      BY DEF IInv, TypeOK, None
    <3> QED BY <3>1, <3>2, <3>3 DEF Send
  <2> QED BY <2>1, <2>2, <2>3, <2>4
<1> QED BY <1>1, <1>3, <1>4 DEF Asks

\* Every step does to the answers what the promise allows.
LEMMA StepAnswers == IInv /\ [Next]_vars => Asks \/ Answers \/ Withdraws \/ Keeps
<1> SUFFICES ASSUME IInv, [Next]_vars PROVE Asks \/ Answers \/ Withdraws \/ Keeps
  OBVIOUS
<1>1. CASE RequestRefused
  <2>1. pending = None /\ pending' = None
    BY <1>1 DEF RequestRefused, queryVars, IInv, Lifecycle
  <2>2. Tell(told, {latest'}) = Tell(Tell(told, {pending}), {latest'})
    BY <2>1, TellNobody DEF IInv, TypeOK
  <2>3. pending # latest' /\ told \in [Token -> Nat]
    BY <1>1, <2>1 DEF RequestRefused, IInv, TypeOK, None
  <2> QED BY <1>1, <2>1, <2>2, <2>3, TellBoth DEF RequestRefused, Asks
<1>2. CASE \E base \in Root : Request(base)
  BY <1>2, RequestAsks
<1>3. CASE \E t \in Token : Cancel(t)
  BY <1>3 DEF Cancel, Pend, answerVars, Withdraws
<1>4. CASE Close
  BY <1>4 DEF Close, Pend, answerVars, Withdraws, Keeps
<1>5. CASE ChildError \/ StartupTimeout \/ QueryTimeout
  BY <1>5, TellPending DEF ChildError, StartupTimeout, QueryTimeout, FailAndRetire, Unavailable,
     Pend, IInv
<1>6. ASSUME NEW available \in BOOLEAN, Ready(available)
      PROVE  Answers \/ Keeps
  <2>1. CASE retiring \/ ~available
    BY <1>6, <2>1, TellPending DEF Ready, Unsent, Pend, queryVars, IInv, Keeps
  <2>2. CASE ~retiring /\ available /\ pending # None /\ ~sent
    <3>1. Send(pending, told) /\ UNCHANGED <<latest, rowsFor>>
      BY <1>6, <2>2 DEF Ready, Unsent
    <3> QED BY <2>2, <3>1 DEF Send, Answers, Keeps
  <2>3. CASE ~retiring /\ available /\ ~(pending # None /\ ~sent)
    BY <1>6, <2>3 DEF Ready, Unsent, queryVars, Keeps
  <2> QED BY <2>1, <2>2, <2>3
<1>7. CASE \E t \in Token : Reply(t)
  <2>1. PICK t \in Token : Reply(t)
    BY <1>7
  <2>2. CASE pending = t
    BY <2>1, <2>2 DEF Reply, Expected, Pend, Answers, Token, None
  <2>3. CASE pending # t
    BY <2>1, <2>3 DEF Reply, Expected, queryVars, answerVars, Keeps
  <2> QED BY <2>2, <2>3
<1>8. CASE ChildExits \/ BackoffEnds \/ UNCHANGED vars
  BY <1>8 DEF ChildExits, BackoffEnds, vars, queryVars, answerVars, Keeps
<1>9. CASE ChildCloses
  <2>1. UNCHANGED <<latest, rowsFor>>
    BY <1>9 DEF ChildCloses
  <2>2. CASE restartAfterClose /\ ~closed /\ pending # None
    <3>1. \E paced \in BOOLEAN : Ensure(pending, told, paced, FALSE)
      BY <1>9, <2>2 DEF ChildCloses, IInv, TypeOK
    <3> QED BY <2>1, <2>2, <3>1 DEF Ensure, Pend, Answers, Keeps
  <2>3. CASE ~(restartAfterClose /\ ~closed /\ pending # None)
    <3>1. pending' = None /\ told' = Tell(told, {pending})
      BY <1>9, <2>3 DEF ChildCloses, Pend
    <3> QED BY <2>1, <3>1, TellPending DEF IInv
  <2> QED BY <2>2, <2>3
<1> QED BY <1>1, <1>2, <1>3, <1>4, <1>5, <1>6, <1>7, <1>8, <1>9 DEF Next

\* A query is answered at most once: asking answers the one before and starts
\* a token that was never told; answering ends the open one.
LEMMA AnswersStep ==
  ASSUME IInv, Asks \/ Answers \/ Withdraws \/ Keeps
  PROVE  /\ latest' \in 0..MaxTokens /\ pending' \in 0..latest'
         /\ told' \in [Token -> Nat] /\ rowsFor' \in [Token -> 0..MaxTokens]
         /\ AnsweredOnce'
         /\ \A t \in Token : t > latest' => told'[t] = 0 /\ rowsFor'[t] = None
<1>1. /\ MaxTokens \in Nat /\ latest \in 0..MaxTokens /\ pending \in 0..latest
      /\ told \in [Token -> Nat] /\ rowsFor \in [Token -> 0..MaxTokens]
  BY TokenNumbers DEF IInv, TypeOK
<1>2. \A t \in Token : /\ told[t] <= IF t = pending THEN 0 ELSE 1
                       /\ rowsFor[t] \in {None, t} /\ (rowsFor[t] = t => told[t] = 1)
  BY DEF IInv, AnsweredOnce
<1>3. \A t \in Token : t > latest => told[t] = 0 /\ rowsFor[t] = None
  BY DEF IInv, Fresh
<1>4. \A S : /\ Tell(told, S) \in [Token -> Nat]
             /\ \A t \in Token : Tell(told, S)[t] = IF t \in S THEN told[t] + 1 ELSE told[t]
  BY <1>1, TellOnce
<1>5. CASE Asks
  <2>1. /\ latest' = latest + 1 /\ latest' \in 0..MaxTokens /\ rowsFor' = rowsFor
        /\ pending' \in {None, latest'} /\ pending' \in 0..latest'
    BY <1>1, <1>5 DEF Asks, None
  <2>2. told' \in [Token -> Nat]
    BY <1>4, <1>5 DEF Asks
  <2>3. ASSUME NEW t \in Token
        PROVE  told'[t] = IF t = pending \/ (t = latest' /\ pending' = None)
                          THEN told[t] + 1 ELSE told[t]
    <3>1. CASE pending' = latest' /\ told' = Tell(told, {pending})
      <4>1. latest' # None
        BY <1>1, <2>1 DEF None
      <4> QED BY <1>4, <3>1, <4>1
    <3>2. CASE pending' = None /\ told' = Tell(told, {pending, latest'})
      BY <1>4, <3>2
    <3> QED BY <1>5, <3>1, <3>2 DEF Asks
  <2>4. AnsweredOnce'
    <3> SUFFICES ASSUME NEW t \in Token
                 PROVE  /\ told'[t] <= IF t = pending' THEN 0 ELSE 1
                        /\ rowsFor'[t] \in {None, t} /\ (rowsFor'[t] = t => told'[t] = 1)
      BY DEF AnsweredOnce
    <3>1. /\ t \in Nat /\ t # None /\ told[t] \in Nat
          /\ told[t] <= IF t = pending THEN 0 ELSE 1
          /\ rowsFor[t] \in {None, t} /\ (rowsFor[t] = t => told[t] = 1)
          /\ (t > latest => told[t] = 0 /\ rowsFor[t] = None)
      BY <1>1, <1>2, <1>3, TokenNumbers
    <3> QED BY <1>1, <2>1, <2>3, <3>1 DEF None
  <2>5. \A t \in Token : t > latest' => told'[t] = 0 /\ rowsFor'[t] = None
    BY <1>1, <1>3, <2>1, <2>3, TokenNumbers DEF None
  <2> QED BY <1>1, <2>1, <2>2, <2>4, <2>5
<1>6. CASE Answers
  <2>1. /\ latest' \in 0..MaxTokens /\ pending' \in 0..latest'
        /\ told' \in [Token -> Nat] /\ rowsFor' \in [Token -> 0..MaxTokens]
    <3>1. rowsFor' \in [Token -> 0..MaxTokens]
      BY <1>1, <1>6 DEF Answers, None
    <3> QED BY <1>1, <1>4, <1>6, <3>1 DEF Answers, None
  <2>2. ASSUME NEW t \in Token PROVE told'[t] = IF t = pending THEN told[t] + 1 ELSE told[t]
    BY <1>4, <1>6 DEF Answers
  <2>3. ASSUME NEW t \in Token
        PROVE  rowsFor'[t] = rowsFor[t] \/ (t = pending /\ rowsFor'[t] = t)
    BY <1>1, <1>6 DEF Answers
  <2>4. ASSUME NEW t \in Token
        PROVE  /\ told'[t] <= IF t = pending' THEN 0 ELSE 1
               /\ rowsFor'[t] \in {None, t} /\ (rowsFor'[t] = t => told'[t] = 1)
               /\ (t > latest' => told'[t] = 0 /\ rowsFor'[t] = None)
    <3>1. /\ t \in Nat /\ t # None /\ told[t] \in Nat
          /\ told[t] <= IF t = pending THEN 0 ELSE 1
          /\ rowsFor[t] \in {None, t} /\ (rowsFor[t] = t => told[t] = 1)
          /\ (t > latest => told[t] = 0 /\ rowsFor[t] = None)
      BY <1>1, <1>2, <1>3, TokenNumbers
    <3>2. pending' = None /\ latest' = latest
      BY <1>6 DEF Answers
    <3> QED BY <1>1, <2>2, <2>3, <3>1, <3>2 DEF None
  <2> QED BY <2>1, <2>4 DEF AnsweredOnce
<1>7. CASE Withdraws \/ Keeps
  BY <1>1, <1>2, <1>3, <1>7 DEF Withdraws, Keeps, AnsweredOnce, Token, None
<1> QED BY <1>5, <1>6, <1>7
-----------------------------------------------------------------------------
(* The lifecycle of the child.                                              *)

\* The part of TypeOK that is not about queries.
ControlTypes ==
  /\ sent \in BOOLEAN /\ deadline \in BOOLEAN /\ closed \in BOOLEAN
  /\ root \in Root /\ childRoot \in Root /\ child \in Child
  /\ ready \in BOOLEAN /\ startupTimer \in BOOLEAN /\ retiring \in BOOLEAN
  /\ restartAfterClose \in BOOLEAN /\ intentional \in BOOLEAN /\ failureNoted \in BOOLEAN
  /\ backoff \in BOOLEAN /\ hello \in BOOLEAN

\* Every step keeps the types of the control variables.
LEMMA ControlTypesStep == ControlTypes /\ [Next]_vars => ControlTypes'
<1> SUFFICES ASSUME ControlTypes, [Next]_vars PROVE ControlTypes'
  OBVIOUS
<1> USE DEF ControlTypes
<1>1. ASSUME NEW t, NEW before, NEW paced \in BOOLEAN, NEW asked \in BOOLEAN,
             Ensure(t, before, paced, asked), root' \in Root
      PROVE  /\ sent' \in BOOLEAN /\ deadline' \in BOOLEAN /\ childRoot' \in Root /\ child' \in Child
             /\ ready' \in BOOLEAN /\ startupTimer' \in BOOLEAN /\ retiring' \in BOOLEAN
             /\ restartAfterClose' \in BOOLEAN /\ intentional' \in BOOLEAN
             /\ failureNoted' \in BOOLEAN /\ backoff' \in BOOLEAN
  BY <1>1 DEF Ensure, Pend, Child
<1>2. ASSUME NEW t, NEW before, Send(t, before)
      PROVE  sent' \in BOOLEAN /\ deadline' \in BOOLEAN
  BY <1>2 DEF Send
<1>3. CASE RequestRefused
  BY <1>3 DEF RequestRefused, queryVars, childVars
<1>4. ASSUME NEW base \in Root, Request(base) PROVE ControlTypes'
  <2> DEFINE before == Tell(told, {pending})
  <2>1. root' \in Root /\ closed' \in BOOLEAN
    BY <1>4 DEF Request
  <2>2. CASE NeedsFreshChild(base)
    BY <1>4, <2>1, <2>2 DEF Request, NeedsFreshChild, Wait, Pend, Retire
  <2>3. CASE child = "none"
    <3>1. Ensure(latest + 1, before, backoff, TRUE) /\ hello' = FALSE
      BY <1>4, <2>3 DEF Request, NeedsFreshChild
    <3> QED BY <1>1, <2>1, <3>1
  <2>4. CASE child # "none" /\ ~NeedsFreshChild(base) /\ retiring
    BY <1>4, <2>1, <2>4 DEF Request, Wait, Pend, childVars
  <2>5. CASE child # "none" /\ ~NeedsFreshChild(base) /\ ~retiring
    <3>1. /\ Send(latest + 1, before) /\ ready' = ready
          /\ UNCHANGED <<child, childRoot, startupTimer, intentional, failureNoted, hello,
                         retiring, restartAfterClose, backoff>>
      BY <1>4, <2>5 DEF Request
    <3> QED BY <1>2, <2>1, <3>1
  <2> QED BY <2>2, <2>3, <2>4, <2>5
<1>5. CASE \E t \in Token : Cancel(t)
  BY <1>5 DEF Cancel, Pend, Retire
<1>6. CASE Close
  BY <1>6 DEF Close, RetireChild, Pend, Retire
<1>7. CASE ChildError \/ StartupTimeout \/ QueryTimeout
  BY <1>7 DEF ChildError, StartupTimeout, QueryTimeout, FailAndRetire, Unavailable, Pend, Retire
<1>8. ASSUME NEW available \in BOOLEAN, Ready(available) PROVE ControlTypes'
  <2>1. CASE retiring \/ ~available
    BY <1>8, <2>1 DEF Ready, Unsent, Pend, Retire, queryVars
  <2>2. CASE ~retiring /\ available
    <3>1. sent' \in BOOLEAN /\ deadline' \in BOOLEAN
      BY <1>2, <1>8, <2>2 DEF Ready, Unsent, queryVars
    <3> QED BY <1>8, <2>2, <3>1 DEF Ready, Unsent
  <2> QED BY <2>1, <2>2
<1>9. ASSUME NEW t \in Token, Reply(t) PROVE ControlTypes'
  <2>1. Pend(None) \/ UNCHANGED queryVars
    BY <1>9 DEF Reply
  <2>2. sent' \in BOOLEAN /\ deadline' \in BOOLEAN
    BY <2>1 DEF Pend, queryVars
  <2> QED BY <1>9, <2>2 DEF Reply
<1>10. CASE ChildExits \/ BackoffEnds \/ UNCHANGED vars
  <2>1. CASE ChildExits
    BY <2>1 DEF ChildExits, queryVars, Child
  <2>2. CASE BackoffEnds
    BY <2>2 DEF BackoffEnds, queryVars, childVars
  <2>3. CASE UNCHANGED vars
    BY <2>3 DEF vars, queryVars, childVars
  <2> QED BY <1>10, <2>1, <2>2, <2>3
<1>11. CASE ChildCloses
  <2>1. root' \in Root /\ closed' \in BOOLEAN /\ hello' \in BOOLEAN
    BY <1>11 DEF ChildCloses
  <2>2. CASE restartAfterClose /\ ~closed /\ pending # None
    <3>1. \E paced \in BOOLEAN : Ensure(pending, told, paced, FALSE)
      BY <1>11, <2>2 DEF ChildCloses
    <3> QED BY <1>1, <2>1, <3>1
  <2>3. CASE ~(restartAfterClose /\ ~closed /\ pending # None)
    BY <1>11, <2>1, <2>3 DEF ChildCloses, Pend, Child
  <2> QED BY <2>2, <2>3
<1> QED BY <1>3, <1>4, <1>5, <1>6, <1>7, <1>8, <1>9, <1>10, <1>11 DEF Next

\* Outside of the answers, every step keeps the types.
LEMMA TypeStep == IInv /\ [Next]_vars => TypeOK'
<1> SUFFICES ASSUME IInv, [Next]_vars PROVE TypeOK'
  OBVIOUS
<1>1. /\ latest' \in 0..MaxTokens /\ pending' \in 0..latest'
      /\ told' \in [Token -> Nat] /\ rowsFor' \in [Token -> 0..MaxTokens]
  BY StepAnswers, AnswersStep
<1>2. /\ latest \in Nat /\ latest' \in Nat /\ latest <= latest' /\ inbox \subseteq 1..latest
  <2>1. latest \in 0..MaxTokens /\ inbox \subseteq 1..latest
    BY DEF IInv, TypeOK
  <2>2. latest' = latest \/ latest' = latest + 1
    BY StepAnswers DEF Asks, Answers, Withdraws, Keeps
  <2> QED BY <2>1, <2>2
<1>3. \A x \in inbox' : x \in inbox \/ (x = pending' /\ x # None)
  <2>1. ASSUME NEW base \in Root, Request(base)
        PROVE  \A x \in inbox' : x \in inbox \/ (x = pending' /\ x # None)
    <3>1. latest + 1 # None
      BY <1>2 DEF None
    <3>2. \/ inbox' \in {inbox, {}}
          \/ Send(latest + 1, Tell(told, {pending}))
      BY <2>1 DEF Request, childVars
    <3> QED BY <3>1, <3>2 DEF Send
  <2>2. ASSUME NEW available \in BOOLEAN, Ready(available)
        PROVE  \A x \in inbox' : x \in inbox \/ (x = pending' /\ x # None)
    BY <2>2 DEF Ready, Unsent, Send
  <2>3. CASE ~(\E base \in Root : Request(base)) /\ ~(\E available \in BOOLEAN : Ready(available))
    BY <2>3 DEF Next, RequestRefused, Cancel, Close, ChildError, StartupTimeout, Reply,
         QueryTimeout, ChildExits, ChildCloses, BackoffEnds, vars, childVars, FailAndRetire
  <2> QED BY <2>1, <2>2, <2>3
<1>4. inbox' \subseteq 1..latest'
  <2> SUFFICES ASSUME NEW x \in inbox' PROVE x \in 1..latest'
    OBVIOUS
  <2>1. CASE x \in inbox
    BY <1>2, <2>1
  <2>2. CASE x = pending' /\ x # None
    BY <1>1, <1>2, <2>2 DEF None
  <2> QED BY <1>3, <2>1, <2>2
<1>5. ControlTypes'
  BY ControlTypesStep DEF IInv, TypeOK, ControlTypes
<1>6. mode' \in Modes
  <2>1. mode' = mode
    BY DEF Next, RequestRefused, Request, Cancel, Close, ChildError, StartupTimeout, FailAndRetire,
         Ready, Reply, QueryTimeout, ChildExits, ChildCloses, BackoffEnds, vars
  <2> QED BY <2>1 DEF IInv, TypeOK
<1> QED BY <1>1, <1>4, <1>5, <1>6 DEF TypeOK, ControlTypes

\* The old query's place in the child is free again when a query is new, and
\* a query that is open keeps its mark.
LEMMA FreshStep == IInv /\ [Next]_vars => Fresh'
<1> SUFFICES ASSUME IInv, [Next]_vars PROVE Fresh'
  OBVIOUS
<1>1. \A t \in Token : t > latest' => told'[t] = 0 /\ rowsFor'[t] = None
  BY StepAnswers, AnswersStep
<1>2. /\ pending \in inbox => sent
      /\ (sent => pending # None) /\ (deadline => sent)
      /\ None \notin inbox /\ latest + 1 \notin inbox /\ latest + 1 # None
  BY DEF IInv, Fresh, TypeOK, None
<1>3. ASSUME NEW t, NEW before, Send(t, before), t # None, t \notin inbox
      PROVE  (pending' \in inbox' => sent') /\ (sent' => pending' # None) /\ (deadline' => sent')
  BY <1>2, <1>3 DEF Send
<1>4. (pending' \in inbox' => sent') /\ (sent' => pending' # None) /\ (deadline' => sent')
  <2>1. CASE RequestRefused
    BY <1>2, <2>1 DEF RequestRefused, queryVars, childVars
  <2>9. CASE ChildError \/ StartupTimeout \/ QueryTimeout
    BY <1>2, <2>9 DEF ChildError, StartupTimeout, QueryTimeout, FailAndRetire, Unavailable, Pend
  <2>2. ASSUME NEW base \in Root, Request(base)
        PROVE  (pending' \in inbox' => sent') /\ (sent' => pending' # None) /\ (deadline' => sent')
    <3>1. CASE NeedsFreshChild(base)
      BY <1>2, <2>2, <3>1 DEF Request, NeedsFreshChild, Wait, Pend
    <3>2. CASE child = "none"
      BY <2>2, <3>2 DEF Request, NeedsFreshChild, Ensure, Pend
    <3>3. CASE child # "none" /\ ~NeedsFreshChild(base) /\ retiring
      BY <1>2, <2>2, <3>3 DEF Request, Wait, Pend, childVars
    <3>4. CASE child # "none" /\ ~NeedsFreshChild(base) /\ ~retiring
      BY <1>2, <1>3, <2>2, <3>4 DEF Request
    <3> QED BY <3>1, <3>2, <3>3, <3>4
  <2>3. CASE \E t \in Token : Cancel(t)
    BY <1>2, <2>3 DEF Cancel, Pend
  <2>4. CASE Close
    BY <1>2, <2>4 DEF Close, Pend
  <2>5. ASSUME NEW available \in BOOLEAN, Ready(available)
        PROVE  (pending' \in inbox' => sent') /\ (sent' => pending' # None) /\ (deadline' => sent')
    <3>1. CASE ~retiring /\ available /\ pending # None /\ ~sent
      <4>1. Send(pending, told) /\ pending \notin inbox
        BY <1>2, <2>5, <3>1 DEF Ready, Unsent
      <4> QED BY <1>3, <3>1, <4>1
    <3>2. CASE retiring \/ ~available \/ ~(pending # None /\ ~sent)
      <4>1. \/ UNCHANGED <<pending, sent, deadline, inbox>>
            \/ pending' = None /\ sent' = FALSE /\ deadline' = FALSE /\ inbox' = inbox
        BY <2>5, <3>2 DEF Ready, Unsent, Pend, queryVars
      <4> QED BY <1>2, <4>1
    <3> QED BY <3>1, <3>2
  <2>6. CASE \E t \in Token : Reply(t)
    BY <1>2, <2>6 DEF Reply, Expected, Pend, queryVars
  <2>7. CASE ChildExits \/ BackoffEnds \/ UNCHANGED vars
    BY <1>2, <2>7 DEF ChildExits, BackoffEnds, vars, queryVars, childVars
  <2>8. CASE ChildCloses
    BY <2>8 DEF ChildCloses, Ensure, Pend
  <2> QED BY <2>1, <2>2, <2>3, <2>4, <2>5, <2>6, <2>7, <2>8, <2>9 DEF Next
<1> QED BY <1>1, <1>4 DEF Fresh

\* What ensure() leaves, whoever called it: a query that waits has a child
\* that starts, and a child that cannot start is being retired.
LEMMA EnsureAttends ==
  ASSUME NEW t, NEW before, NEW paced \in BOOLEAN, NEW asked \in BOOLEAN,
         Ensure(t, before, paced, asked), closed' = FALSE
  PROVE  Watched' /\ Lifecycle'
<1>1. CASE child' = "none"
  BY <1>1 DEF Ensure, Pend, Watched, Lifecycle
<1>2. CASE child' = "alive"
  BY <1>2 DEF Ensure, Pend, Watched, Lifecycle
<1>3. CASE child' = "stillborn"
  BY <1>3 DEF Ensure, Pend, Watched, Lifecycle
<1> QED BY <1>1, <1>2, <1>3 DEF Ensure

\* What sendPending leaves at a child that is not being retired.
LEMMA SendAttends ==
  ASSUME NEW t, NEW before, Send(t, before), t # None, closed' = FALSE,
         child \in {"alive", "exited"}, ~retiring', childRoot' = root', UNCHANGED child,
         ready' \in BOOLEAN, ready' \/ startupTimer'
  PROVE  Watched' /\ Lifecycle'
<1>1. Lifecycle'
  BY DEF Lifecycle
<1>2. CASE ready' /\ child # "alive"
  <2>1. pending' = None
    BY <1>2 DEF Send
  <2> QED BY <1>1, <2>1 DEF Watched
<1>3. CASE ready' /\ child = "alive"
  <2>1. pending' = t /\ sent' /\ deadline' /\ inbox' = inbox \cup {t}
    BY <1>3 DEF Send
  <2> QED BY <1>1, <2>1 DEF Watched
<1>4. CASE ~ready'
  <2>1. ~sent'
    BY <1>4 DEF Send
  <2> QED BY <1>1, <1>4, <2>1 DEF Watched
<1> QED BY <1>1, <1>2, <1>3, <1>4

\* No step leaves a query without somebody who will answer it.
LEMMA WatchedStep == IInv /\ [Next]_vars => Watched' /\ Lifecycle'
<1> SUFFICES ASSUME IInv, [Next]_vars PROVE Watched' /\ Lifecycle'
  OBVIOUS
<1>1. Watched /\ Lifecycle
  BY DEF IInv
<1>2. child \in Child /\ closed \in BOOLEAN /\ ready \in BOOLEAN /\ backoff \in BOOLEAN
  BY DEF IInv, TypeOK
<1>3. CASE RequestRefused
  BY <1>1, <1>3 DEF RequestRefused, queryVars, childVars, Watched, Lifecycle
<1>4. ASSUME NEW base \in Root, Request(base) PROVE Watched' /\ Lifecycle'
  <2> DEFINE before == Tell(told, {pending})
  <2>1. ~closed /\ closed' = FALSE /\ root' = base /\ latest + 1 # None
    BY <1>2, <1>4 DEF Request, IInv, TypeOK, None
  <2>2. CASE NeedsFreshChild(base)
    <3>1. /\ child # "none" /\ retiring' /\ restartAfterClose' /\ ~sent'
          /\ UNCHANGED <<child, ready, startupTimer>>
      BY <1>4, <2>2 DEF Request, NeedsFreshChild, Wait, Pend, Retire
    <3> QED BY <1>1, <2>1, <3>1 DEF Watched, Lifecycle
  <2>3. CASE child = "none"
    <3>1. Ensure(latest + 1, before, backoff, TRUE)
      BY <1>4, <2>3 DEF Request, NeedsFreshChild
    <3> QED BY <1>2, <2>1, <3>1, EnsureAttends
  <2>4. CASE child # "none" /\ ~NeedsFreshChild(base) /\ retiring
    <3>1. /\ restartAfterClose' /\ ~sent'
          /\ UNCHANGED <<child, ready, startupTimer, retiring>>
      BY <1>4, <2>4 DEF Request, Wait, Pend, childVars
    <3> QED BY <1>1, <2>1, <2>4, <3>1 DEF Watched, Lifecycle
  <2>5. CASE child # "none" /\ ~NeedsFreshChild(base) /\ ~retiring
    <3>1. Send(latest + 1, before) /\ UNCHANGED <<child, childRoot, startupTimer, retiring>>
      BY <1>4, <2>5 DEF Request
    <3>2. child \in {"alive", "exited"} /\ childRoot = root /\ (ready \/ startupTimer)
      BY <1>1, <1>2, <2>5 DEF Lifecycle, Child
    <3>3. base = root /\ ready' = ready
      BY <1>4, <2>5 DEF Request, NeedsFreshChild
    <3> QED BY <1>2, <2>1, <2>5, <3>1, <3>2, <3>3, SendAttends
  <2> QED BY <2>2, <2>3, <2>4, <2>5
<1>5. CASE \E t \in Token : Cancel(t)
  BY <1>1, <1>5 DEF Cancel, Pend, Retire, Watched, Lifecycle
<1>6. CASE Close
  BY <1>1, <1>6 DEF Close, RetireChild, Pend, Retire, Watched, Lifecycle
<1>7. CASE ChildError
  BY <1>1, <1>7 DEF ChildError, FailAndRetire, Unavailable, Pend, Retire, Watched, Lifecycle
<1>8. CASE StartupTimeout
  BY <1>1, <1>8 DEF StartupTimeout, FailAndRetire, Unavailable, Pend, Retire, Watched, Lifecycle
<1>9. CASE QueryTimeout
  <2>1. pending # None => child # "none"
    BY <1>1 DEF Watched, Lifecycle
  <2>2. pending' = None /\ retiring' /\ UNCHANGED <<closed, child, ready, startupTimer>>
    BY <1>9 DEF QueryTimeout, Unavailable, Pend, Retire
  <2>3. child = "none" => ~deadline
    BY <2>1 DEF IInv, Fresh
  <2> QED BY <1>1, <1>9, <2>2, <2>3 DEF QueryTimeout, Watched, Lifecycle
<1>10. ASSUME NEW available \in BOOLEAN, Ready(available) PROVE Watched' /\ Lifecycle'
  <2>1. CASE retiring
    BY <1>1, <1>10, <2>1 DEF Ready, Unsent, queryVars, Watched, Lifecycle
  <2>2. CASE ~retiring /\ ~available
    BY <1>1, <1>10, <2>2 DEF Ready, Unsent, Pend, Retire, Watched, Lifecycle
  <2>3. CASE ~retiring /\ available
    <3>1. /\ child \in {"alive", "exited"} /\ ready' = TRUE /\ ~retiring' /\ childRoot' = root'
          /\ UNCHANGED <<child, closed, retiring, restartAfterClose>> /\ startupTimer' = FALSE
      BY <1>1, <1>10, <2>3 DEF Ready, Unsent, Lifecycle
    <3>2. CASE pending # None /\ ~sent
      <4>1. ~closed /\ Send(pending, told)
        BY <1>1, <1>10, <2>3, <3>2 DEF Ready, Unsent, Lifecycle
      <4> QED BY <1>2, <3>1, <3>2, <4>1, SendAttends
    <3>3. CASE ~(pending # None /\ ~sent)
      <4>1. UNCHANGED <<pending, sent, deadline, inbox>>
        BY <1>10, <2>3, <3>3 DEF Ready, Unsent, queryVars
      <4> QED BY <1>1, <2>3, <3>1, <3>3, <4>1 DEF Watched, Lifecycle
    <3> QED BY <3>2, <3>3
  <2> QED BY <2>1, <2>2, <2>3
<1>11. CASE \E t \in Token : Reply(t)
  BY <1>1, <1>11 DEF Reply, Expected, Pend, queryVars, Watched, Lifecycle
<1>12. CASE ChildExits
  BY <1>1, <1>12 DEF ChildExits, queryVars, Watched, Lifecycle
<1>13. CASE BackoffEnds \/ UNCHANGED vars
  BY <1>1, <1>13 DEF BackoffEnds, vars, queryVars, childVars, Watched, Lifecycle
<1>14. CASE ChildCloses
  <2>1. CASE restartAfterClose /\ ~closed /\ pending # None
    <3>1. \E paced \in BOOLEAN : Ensure(pending, told, paced, FALSE)
      BY <1>14, <2>1 DEF ChildCloses, IInv, TypeOK
    <3>2. closed' = FALSE
      BY <1>2, <1>14, <2>1 DEF ChildCloses
    <3> QED BY <3>1, <3>2, EnsureAttends
  <2>2. CASE ~(restartAfterClose /\ ~closed /\ pending # None)
    BY <1>1, <1>14, <2>2 DEF ChildCloses, Pend, Watched, Lifecycle
  <2> QED BY <2>1, <2>2
<1> QED BY <1>3, <1>4, <1>5, <1>6, <1>7, <1>8, <1>9, <1>10, <1>11, <1>12, <1>13, <1>14 DEF Next
-----------------------------------------------------------------------------
(* The theorems.                                                            *)

LEMMA InitInvariant == Init => IInv
<1> SUFFICES ASSUME Init PROVE IInv
  OBVIOUS
<1>1. TypeOK
  <2>1. MaxTokens \in Nat
    BY TokenNumbers
  <2>2. told \in [Token -> Nat] /\ rowsFor \in [Token -> 0..MaxTokens]
    BY <2>1 DEF Init, None
  <2>3. latest \in 0..MaxTokens /\ pending \in 0..latest /\ inbox \subseteq 1..latest
    BY <2>1 DEF Init, None
  <2> QED BY <2>2, <2>3 DEF Init, TypeOK, Child
<1>2. AnsweredOnce /\ Fresh
  BY TokenNumbers DEF Init, AnsweredOnce, Fresh, Token, None
<1>3. Watched /\ Lifecycle
  BY DEF Init, Watched, Lifecycle
<1> QED BY <1>1, <1>2, <1>3 DEF IInv

LEMMA StepInvariant == IInv /\ [Next]_vars => IInv'
<1> SUFFICES ASSUME IInv, [Next]_vars PROVE IInv'
  OBVIOUS
<1>1. AnsweredOnce'
  BY StepAnswers, AnswersStep
<1> QED BY <1>1, TypeStep, WatchedStep, FreshStep DEF IInv

LEMMA Invariant == Spec => []IInv
<1> QED BY InitInvariant, StepInvariant, PTL DEF Spec

\* Every variable keeps its type.
THEOREM TypeCorrect == Spec => []TypeOK
<1>1. IInv => TypeOK
  BY DEF IInv
<1> QED BY <1>1, Invariant, PTL

\* Whatever the child and the timers do, no query is answered twice, with the
\* rows of another, or while it is still open.
THEOREM AnswersOnce == Spec => []AnsweredOnce
<1>1. IInv => AnsweredOnce
  BY DEF IInv
<1> QED BY <1>1, Invariant, PTL

\* No interleaving leaves an open query that no child, no timer and no close
\* event will ever answer, or leaves it with a child of another root.
THEOREM NoQueryForgotten == Spec => []Attended
<1>1. IInv => Attended
  BY DEF IInv, Watched, Lifecycle, Attended
<1> QED BY <1>1, Invariant, PTL

\* The callbacks of the worker implement the abstract promise: a step is one
\* of its steps or leaves what the coordinator sees unchanged.
THEOREM ImplementsPromise == Spec => KeepsPromise
<1>1. Init => Promise!Init
  BY DEF Init, Promise!Init, Token, Promise!Token, None, Promise!None
<1>2. IInv /\ [Next]_vars => [Promise!Next]_(Promise!vars)
  <2> SUFFICES ASSUME IInv, [Next]_vars PROVE [Promise!Next]_(Promise!vars)
    OBVIOUS
  <2>1. CASE Asks
    BY <2>1, SameTell DEF Asks, Promise!Ask, Promise!Next, None, Promise!None
  <2>2. CASE Answers
    BY <2>2, SameTell DEF Answers, Promise!Answer, Promise!Next, None, Promise!None
  <2>3. CASE Withdraws
    BY <2>3 DEF Withdraws, Promise!Withdraw, Promise!Next, None, Promise!None
  <2>4. CASE Keeps
    BY <2>4 DEF Keeps, Promise!vars
  <2> QED BY <2>1, <2>2, <2>3, <2>4, StepAnswers
<1> QED BY <1>1, <1>2, Invariant, PTL DEF Spec, KeepsPromise, Promise!Spec
-----------------------------------------------------------------------------
(* The worker and its process (IndexLane).                                  *)

\* The queries in a pipe, the newest of them, and whether they came in order.
Queries(s) == {s[i] : i \in 1..Len(s)}
Newest(s) == s[Len(s)]
InOrder(s) == \A i, j \in 1..Len(s) : i < j => s[i] < s[j]

\* The queries that lines answer, and those whose rows they call complete.
Answered(s) == {s[i].token : i \in 1..Len(s)}
Complete(s) == {s[i].token : i \in {j \in 1..Len(s) : s[j].answer = "whole"}}

\* The types of the process.
ProcessTypes ==
  /\ stdin \in Seq(Token) /\ stdout \in Seq([token : Token \cup {None}, answer : P!Quality])
  /\ phase \in {"starting", "ready", "failed", "ending"}
  /\ warming \in Token \cup {None} /\ active \in Token \cup {None} /\ queued \in Token \cup {None}
  /\ plocates \subseteq Token /\ stop \in [Token -> {"no", "capped", "bad"}]
  /\ canceled \subseteq Token /\ lost \subseteq Token

\* One plocate runs, and it alone may be silenced; fff runs none.
OneRun ==
  /\ plocates \subseteq {active} \ {None} /\ canceled \subseteq {active} \ {None}
  /\ queued # None => active # None /\ phase # "ending"
  /\ mode = "fff" => active = None /\ queued = None /\ lost = {}

\* Queries come in the order in which they were made: first those answered and
\* the one that runs, then the one that waits, then those not read.
Handled == Answered(stdout) \cup lost \cup {active}
Sequenced ==
  /\ InOrder(stdin) /\ \A t \in Queries(stdin), u \in Handled \cup {queued, warming} : u < t
  /\ queued # None => \A u \in Handled : u < queued
  /\ plocates \cap Answered(stdout) = {}

\* Only the latest query is open, and all others are older than one that is not
\* written yet.
Newer ==
  /\ pending \in {None, latest}
  /\ \A t \in Queries(stdin) \cup Handled \cup {queued, warming} :
       t <= latest /\ (Unsent => t < latest)

\* A run that lost rows, and is to answer, knows it; so no line lies.
Honest ==
  /\ \A t \in plocates \ canceled : t \in lost => stop[t] = "bad"
  /\ Complete(stdout) \cap lost = {}

\* The query the client waits for is the newest of those not read; or it was
\* read, and is kept or answered.
Awaited ==
  sent /\ child = "alive" /\ ~retiring /\ phase # "ending" =>
    IF stdin # <<>> THEN Newest(stdin) = pending
    ELSE pending \in Answered(stdout) \cup ({warming, queued, active} \ (canceled \cup {None}))

LaneInv ==
  /\ IInv
  /\ ProcessTypes /\ OneRun /\ Sequenced /\ Newer /\ Honest /\ Awaited

\* What sending and reading a query does to a pipe of queries.
LEMMA Sends ==
  ASSUME NEW s \in Seq(Token), NEW t \in Token
  PROVE  /\ Append(s, t) \in Seq(Token) /\ Append(s, t) # <<>> /\ Newest(Append(s, t)) = t
         /\ Queries(Append(s, t)) = Queries(s) \cup {t}
         /\ InOrder(s) /\ (\A u \in Queries(s) : u < t) => InOrder(Append(s, t))
<1>1. /\ Append(s, t) \in Seq(Token) /\ Len(Append(s, t)) = Len(s) + 1 /\ Len(s) \in Nat
      /\ Append(s, t)[Len(s) + 1] = t /\ \A i \in 1..Len(s) : Append(s, t)[i] = s[i]
  OBVIOUS
<1> DEFINE q == Append(s, t)
<1> HIDE DEF q
<1>2. q \in Seq(Token) /\ q # <<>> /\ Newest(q) = t
  BY <1>1 DEF Newest, q
<1>3. Queries(q) = Queries(s) \cup {t}
  <2>1. 1..Len(q) = 1..Len(s) \cup {Len(s) + 1}
    BY <1>1 DEF q
  <2>2. \A i \in 1..Len(s) : q[i] = s[i]
    BY <1>1 DEF q
  <2>3. q[Len(s) + 1] = t
    BY <1>1 DEF q
  <2>4. QED BY <2>1, <2>2, <2>3 DEF Queries
<1>4. ASSUME InOrder(s), \A u \in Queries(s) : u < t PROVE InOrder(q)
  BY <1>1, <1>4 DEF InOrder, Queries, q
<1>5. QED BY <1>2, <1>3, <1>4 DEF q

LEMMA Reads ==
  ASSUME NEW s \in Seq(Token), s # <<>>
  PROVE  /\ Tail(s) \in Seq(Token) /\ Head(s) \in Token
         /\ Queries(s) = Queries(Tail(s)) \cup {Head(s)}
         /\ Tail(s) # <<>> => Newest(Tail(s)) = Newest(s)
         /\ Tail(s) = <<>> => Newest(s) = Head(s)
         /\ InOrder(s) => InOrder(Tail(s)) /\ \A u \in Queries(Tail(s)) : Head(s) < u
<1>1. /\ Len(s) \in Nat /\ Len(s) # 0 /\ Tail(s) \in Seq(Token) /\ Len(Tail(s)) = Len(s) - 1
      /\ Head(s) = s[1] /\ Head(s) \in Token
      /\ \A i \in 1..(Len(s) - 1) : Tail(s)[i] = s[i + 1]
  OBVIOUS
<1> DEFINE q == Tail(s)
<1> HIDE DEF q
<1>2. /\ Len(q) = Len(s) - 1 /\ q \in Seq(Token)
      /\ \A i \in 1..Len(q) : i + 1 \in 1..Len(s) /\ q[i] = s[i + 1]
  BY <1>1 DEF q
<1>3. Queries(s) = Queries(q) \cup {Head(s)}
  <2>1. ASSUME NEW i \in 1..Len(s) PROVE s[i] = Head(s) \/ s[i] \in Queries(q)
    <3>1. CASE i = 1
      BY <1>1, <3>1
    <3>2. CASE i # 1
      <4>1. i - 1 \in 1..Len(q) /\ q[i - 1] = s[i]
        BY <1>1, <1>2, <3>2
      <4>2. QED BY <4>1 DEF Queries
    <3>3. QED BY <3>1, <3>2
  <2>2. Queries(q) \subseteq Queries(s) /\ Head(s) \in Queries(s)
    BY <1>1, <1>2 DEF Queries
  <2>3. QED BY <2>1, <2>2 DEF Queries
<1>4. (q # <<>> => Newest(q) = Newest(s)) /\ (q = <<>> => Newest(s) = Head(s))
  BY <1>1, <1>2 DEF Newest
<1>5. ASSUME InOrder(s) PROVE InOrder(q) /\ \A u \in Queries(q) : Head(s) < u
  <2>1. \A i \in 1..Len(q) : 1 \in 1..Len(s) /\ s[1] < s[i + 1]
    BY <1>1, <1>2, <1>5 DEF InOrder
  <2>2. InOrder(q)
    BY <1>1, <1>2, <1>5 DEF InOrder
  <2>3. QED BY <1>1, <1>2, <2>1, <2>2 DEF Queries
<1>6. QED BY <1>1, <1>3, <1>4, <1>5 DEF q

\* What writing and hearing a line does to the output.
OutputLine == [token : Token \cup {None}, answer : P!Quality]

LEMMA Writes ==
  ASSUME NEW s \in Seq(OutputLine), NEW line \in OutputLine
  PROVE  /\ Append(s, line) \in Seq(OutputLine)
         /\ Answered(Append(s, line)) = Answered(s) \cup {line.token}
         /\ Complete(Append(s, line)) =
              Complete(s) \cup IF line.answer = "whole" THEN {line.token} ELSE {}
<1>1. /\ Append(s, line) \in Seq(OutputLine) /\ Len(Append(s, line)) = Len(s) + 1 /\ Len(s) \in Nat
      /\ Append(s, line)[Len(s) + 1] = line /\ \A i \in 1..Len(s) : Append(s, line)[i] = s[i]
  OBVIOUS
<1> DEFINE q == Append(s, line)
<1> HIDE DEF q
<1>2. /\ 1..Len(q) = 1..Len(s) \cup {Len(s) + 1} /\ q[Len(s) + 1] = line
      /\ \A i \in 1..Len(s) : q[i] = s[i]
  BY <1>1 DEF q
<1>3. Answered(q) = Answered(s) \cup {line.token}
  BY <1>2 DEF Answered
<1>4. Complete(q) = Complete(s) \cup IF line.answer = "whole" THEN {line.token} ELSE {}
  BY <1>2 DEF Complete
<1>5. QED BY <1>1, <1>3, <1>4 DEF q

LEMMA Hears ==
  ASSUME NEW s \in Seq(OutputLine), s # <<>>
  PROVE  /\ Tail(s) \in Seq(OutputLine) /\ Head(s) \in OutputLine
         /\ Answered(s) = Answered(Tail(s)) \cup {Head(s).token}
         /\ Complete(Tail(s)) \subseteq Complete(s)
<1>1. /\ Len(s) \in Nat /\ Len(s) # 0 /\ Tail(s) \in Seq(OutputLine) /\ Len(Tail(s)) = Len(s) - 1
      /\ Head(s) = s[1] /\ Head(s) \in OutputLine
      /\ \A i \in 1..(Len(s) - 1) : Tail(s)[i] = s[i + 1]
  OBVIOUS
<1> DEFINE q == Tail(s)
<1> HIDE DEF q
<1>2. /\ Len(q) = Len(s) - 1
      /\ \A i \in 1..Len(q) : i + 1 \in 1..Len(s) /\ q[i] = s[i + 1]
  BY <1>1 DEF q
<1>3. Answered(s) = Answered(q) \cup {Head(s).token}
  <2>1. ASSUME NEW i \in 1..Len(s)
        PROVE  s[i].token = Head(s).token \/ s[i].token \in Answered(q)
    <3>1. CASE i = 1
      BY <1>1, <3>1
    <3>2. CASE i # 1
      <4>1. i - 1 \in 1..Len(q) /\ q[i - 1] = s[i]
        BY <1>1, <1>2, <3>2
      <4>2. QED BY <4>1 DEF Answered
    <3>3. QED BY <3>1, <3>2
  <2>2. Answered(q) \subseteq Answered(s) /\ Head(s).token \in Answered(s)
    BY <1>1, <1>2 DEF Answered
  <2>3. QED BY <2>1, <2>2 DEF Answered
<1>4. Complete(q) \subseteq Complete(s)
  BY <1>2 DEF Complete
<1>5. QED BY <1>1, <1>3, <1>4 DEF q

\* Pipes of a new process.
LEMMA NewPipes ==
  /\ <<>> \in Seq(Token) /\ Queries(<<>>) = {} /\ InOrder(<<>>)
  /\ P!Greeting \in Seq(OutputLine) /\ Answered(P!Greeting) \subseteq {None}
  /\ Answered(<<>>) = {}
<1>1. <<>> \in Seq(Token) /\ Queries(<<>>) = {} /\ InOrder(<<>>) /\ Answered(<<>>) = {}
  BY DEF Queries, InOrder, Answered
<1>2. P!ReadyLine(TRUE) \in OutputLine /\ P!ReadyLine(TRUE).token = None
  BY DEF P!ReadyLine, OutputLine, P!Quality, P!None, None
<1>3. P!Greeting = <<P!ReadyLine(TRUE)>> \/ P!Greeting = <<>>
  BY DEF P!Greeting
<1>4. ASSUME NEW line \in OutputLine, line.token = None
      PROVE  <<line>> \in Seq(OutputLine) /\ Answered(<<line>>) \subseteq {None}
  BY <1>4 DEF Answered
<1>5. <<>> \in Seq(OutputLine)
  OBVIOUS
<1>6. QED BY <1>1, <1>2, <1>3, <1>4, <1>5
-----------------------------------------------------------------------------
\* A step of the client, and what it may do to the process.
ClientStep ==
  \/ RequestRefused /\ UNCHANGED processVars
  \/ \E base \in Root : LaneRequest(base)
  \/ \E t \in Token : Cancel(t) /\ UNCHANGED processVars
  \/ Close /\ UNCHANGED processVars
  \/ ChildError /\ UNCHANGED processVars
  \/ StartupTimeout /\ UNCHANGED processVars
  \/ QueryTimeout /\ UNCHANGED processVars
  \/ BackoffEnds /\ UNCHANGED processVars
  \/ HearReady \/ HearReply \/ LaneExit \/ LaneClose

\* Queries only get newer, and one that waits to be written is the newest.
NewerStep ==
  /\ mode' = mode /\ latest' \in Nat /\ latest <= latest'
  /\ Unsent' => latest < latest' \/ Unsent \/ P!Start

Heard == stdout' = stdout \/ (stdout # <<>> /\ stdout' = Tail(stdout))

\* Nothing is written; if a query is still awaited, its answer is not lost.
Quiet ==
  /\ stdin' = stdin /\ Heard /\ UNCHANGED otherVars
  /\ sent' /\ child' = "alive" /\ ~retiring' =>
       /\ sent /\ child = "alive" /\ ~retiring /\ pending' = pending
       /\ pending \in Answered(stdout) => pending \in Answered(stdout')

\* The newest query is written to a child.
Posts ==
  /\ stdin' = Append(stdin, pending') /\ Heard /\ UNCHANGED otherVars
  /\ sent' /\ pending' = latest' /\ pending' \in Token
  /\ latest < latest' \/ Unsent

Shape == Quiet \/ Posts \/ (P!Start /\ ~sent') \/ (P!Gone /\ child' # "alive")

\* Wire, in these terms.
LEMMA WireShape ==
  ASSUME NEW rest, Wire(rest), rest = stdout \/ (stdout # <<>> /\ rest = Tail(stdout)),
         child' = "alive" /\ child # "alive" => ~sent',
         sent' /\ ~(sent /\ pending' = pending) =>
           pending' = latest' /\ pending' \in Token /\ (latest < latest' \/ Unsent),
         sent' /\ sent /\ pending' = pending /\ child' = "alive" /\ ~retiring' =>
           ~retiring /\ (pending \in Answered(stdout) => pending \in Answered(rest))
  PROVE  Shape
<1>1. CASE child' = "alive" /\ child # "alive"
  BY <1>1 DEF Wire, Shape
<1>2. CASE ~(child' = "alive" /\ child # "alive") /\ sent' /\ ~(sent /\ pending' = pending)
  BY <1>2 DEF Wire, Shape, Posts, Heard
<1>3. CASE ~(child' = "alive" /\ child # "alive") /\ ~sent'
  BY <1>3 DEF Wire, Shape, Quiet, Heard
<1>4. CASE ~(child' = "alive" /\ child # "alive") /\ sent' /\ sent /\ pending' = pending
  <2>1. stdin' = stdin /\ stdout' = rest /\ UNCHANGED otherVars
    BY <1>4 DEF Wire
  <2>2. QED BY <1>4, <2>1 DEF Shape, Quiet, Heard
<1>5. QED BY <1>1, <1>2, <1>3, <1>4

\* Every step of the client has one of these shapes.
LEMMA ClientShape ==
  ASSUME IInv, pending \in {None, latest}, stdout \in Seq(OutputLine), ClientStep
  PROVE  Shape
<1> USE DEF IInv
<1>1. CASE (RequestRefused \/ (\E t \in Token : Cancel(t)) \/ Close \/ ChildError
              \/ StartupTimeout \/ QueryTimeout \/ BackoffEnds) /\ UNCHANGED processVars
  <2>1. stdin' = stdin /\ stdout' = stdout /\ UNCHANGED otherVars
    BY <1>1 DEF processVars, otherVars
  <2>2. ~sent' \/ UNCHANGED <<pending, sent, child, retiring>>
    BY <1>1 DEF RequestRefused, Cancel, Close, ChildError, StartupTimeout, QueryTimeout,
                BackoffEnds, FailAndRetire, Unavailable, Pend, queryVars, childVars
  <2>3. QED BY <2>1, <2>2 DEF Shape, Quiet, Heard
<1>2. ASSUME NEW base \in Root, LaneRequest(base) PROVE Shape
  <2> DEFINE before == Tell(told, {pending})
  <2> Request(base) /\ Wire(stdout)
    BY <1>2 DEF LaneRequest
  <2> latest < MaxTokens /\ latest' = latest + 1
    BY DEF Request
  <2>0. latest \in Nat /\ pending \in 0..latest /\ MaxTokens \in Nat
    BY TokenNumbers DEF TypeOK
  <2>1. CASE NeedsFreshChild(base)
    <3>1. ~sent'
      BY <2>0, <2>1 DEF Request, Wait, Pend, NeedsFreshChild
    <3>2. QED BY <2>0, <3>1, WireShape
  <2>2. CASE child = "none"
    <3>1. ~sent'
      BY <2>0, <2>2 DEF Request, Ensure, Pend, NeedsFreshChild
    <3>2. QED BY <2>0, <3>1, WireShape
  <2>3. CASE child # "none" /\ ~NeedsFreshChild(base) /\ retiring
    <3>1. ~sent'
      BY <2>0, <2>3 DEF Request, Wait, Pend
    <3>2. QED BY <2>0, <3>1, WireShape
  <2>4. CASE child # "none" /\ ~NeedsFreshChild(base) /\ ~retiring
    <3>1. Send(latest + 1, before) /\ child' = child
      BY <2>0, <2>4 DEF Request
    <3>2. sent' => pending' = latest + 1
      BY <3>1 DEF Send
    <3>3. latest + 1 \in Token /\ latest < latest + 1 /\ pending # latest + 1
      BY <2>0 DEF Token
    <3>4. QED BY <2>0, <3>1, <3>2, <3>3, WireShape
  <2>5. QED BY <2>1, <2>2, <2>3, <2>4
<1>3. CASE HearReady
  <2>1. /\ stdout # <<>> /\ Head(stdout).token = None /\ Wire(Tail(stdout))
        /\ \E available \in BOOLEAN : Ready(available)
    BY <1>3 DEF HearReady
  <2>2. PICK available \in BOOLEAN : Ready(available)
    BY <2>1
  <2>3. child' = child /\ latest' = latest
    BY <2>2 DEF Ready
  <2>4. Answered(stdout) = Answered(Tail(stdout)) \cup {None}
    BY <2>1, Hears
  <2>5. sent => pending # None
    BY DEF Fresh
  <2>6. \/ UNCHANGED queryVars /\ retiring' = retiring
        \/ ~sent'
        \/ pending' = pending /\ Unsent
    BY <2>2 DEF Ready, Pend, Send, Unsent
  <2>7. pending # None => pending = latest /\ pending \in Token
    BY TokenNumbers DEF TypeOK, None, Token
  <2>8. sent' /\ ~(sent /\ pending' = pending) =>
          pending' = latest' /\ pending' \in Token /\ (latest < latest' \/ Unsent)
    BY <2>3, <2>6, <2>7 DEF Unsent, queryVars
  <2>9. sent' /\ sent /\ pending' = pending /\ child' = "alive" /\ ~retiring' =>
          ~retiring /\ (pending \in Answered(stdout) => pending \in Answered(Tail(stdout)))
    BY <2>4, <2>5, <2>6 DEF Unsent, queryVars
  <2>10. QED BY <2>1, <2>3, <2>8, <2>9, WireShape
<1>4. CASE HearReply
  <2>1. /\ stdout # <<>> /\ Reply(Head(stdout).token) /\ Wire(Tail(stdout))
    BY <1>4 DEF HearReply
  <2>2. child' = child /\ retiring' = retiring
    BY <2>1 DEF Reply
  <2>3. Answered(stdout) = Answered(Tail(stdout)) \cup {Head(stdout).token}
    BY <2>1, Hears
  <2>4. ~sent' \/ (UNCHANGED queryVars /\ pending # Head(stdout).token)
    BY <2>1 DEF Reply, Pend, Expected
  <2>5. sent' => sent' = sent /\ pending' = pending
    BY <2>4 DEF queryVars
  <2>6. sent' => (pending \in Answered(stdout) => pending \in Answered(Tail(stdout)))
    BY <2>3, <2>4
  <2>7. sent' /\ ~(sent /\ pending' = pending) =>
          pending' = latest' /\ pending' \in Token /\ (latest < latest' \/ Unsent)
    BY <2>5
  <2>8. sent' /\ sent /\ pending' = pending /\ child' = "alive" /\ ~retiring' =>
          ~retiring /\ (pending \in Answered(stdout) => pending \in Answered(Tail(stdout)))
    BY <2>2, <2>6
  <2>9. child' = "alive" /\ child # "alive" => ~sent'
    BY <2>2
  <2>10. QED BY <2>1, <2>7, <2>8, <2>9, WireShape
<1>5. CASE LaneExit
  BY <1>5 DEF LaneExit, ChildExits, Shape
<1>6. CASE LaneClose
  <2>1. ~sent' /\ Wire(stdout)
    BY <1>6 DEF LaneClose, ChildCloses, Ensure, Pend
  <2>2. QED BY <2>1, WireShape
<1>7. QED BY <1>1, <1>2, <1>3, <1>4, <1>5, <1>6 DEF ClientStep

\* A step of the client is one of IndexWorker; it does not make queries older.
LEMMA ClientNext ==
  ASSUME stdout \in Seq(OutputLine), ClientStep
  PROVE  Next
<1>1. CASE HearReady
  BY <1>1 DEF HearReady, Next
<1>2. CASE HearReply
  <2>1. Head(stdout).token \in Token
    BY <1>2, Hears DEF HearReply, OutputLine
  <2>2. QED BY <1>2, <2>1 DEF HearReply, Next
<1>3. CASE ClientStep /\ ~HearReady /\ ~HearReply
  BY <1>3 DEF ClientStep, Next, LaneRequest, LaneExit, LaneClose
<1>4. QED BY <1>1, <1>2, <1>3

LEMMA ClientNewer ==
  ASSUME IInv, pending \in {None, latest}, stdout \in Seq(OutputLine), ClientStep
  PROVE  NewerStep /\ pending' \in {None, latest'}
<1>1. mode' = mode
  BY DEF ClientStep, LaneRequest, HearReady, HearReply, LaneExit, LaneClose, RequestRefused,
         Request, Cancel, Close, ChildError, StartupTimeout, QueryTimeout, BackoffEnds,
         FailAndRetire, Ready, Reply, ChildExits, ChildCloses
<1>2. Asks \/ Answers \/ Withdraws \/ Keeps
  BY ClientNext, StepAnswers
<1>3. /\ latest \in Nat /\ pending \in 0..latest
  BY DEF IInv, TypeOK
<1>4. latest' \in Nat /\ latest <= latest' /\ pending' \in {None, latest'}
        /\ (latest' = latest => pending' = None \/ pending' = pending)
  BY <1>2, <1>3 DEF Asks, Answers, Withdraws, Keeps
<1>5. CASE \E base \in Root : LaneRequest(base)
  <2>1. latest' = latest + 1
    BY <1>5 DEF LaneRequest, Request
  <2>2. QED BY <1>1, <1>3, <1>4, <2>1 DEF NewerStep
<1>6. CASE LaneClose
  <2>1. pending' = None \/ (child' = "alive" /\ child # "alive")
    BY <1>6 DEF LaneClose, ChildCloses, Ensure, Pend
  <2>2. Unsent' => P!Start
    BY <1>6, <2>1 DEF LaneClose, Wire, Unsent
  <2>3. QED BY <1>1, <1>4, <2>2 DEF NewerStep
<1>7. CASE ClientStep /\ ~LaneClose /\ ~\E base \in Root : LaneRequest(base)
  <2>1. pending' = None \/ sent' \/ UNCHANGED <<pending, sent>>
    <3>1. CASE HearReady
      <4>1. PICK available \in BOOLEAN : Ready(available)
        BY <3>1 DEF HearReady
      <4>2. QED BY <4>1 DEF Ready, Pend, Send, Unsent, queryVars
    <3>2. CASE HearReply
      BY <3>2 DEF HearReply, Reply, Pend, queryVars
    <3>3. CASE LaneExit \/ RequestRefused \/ BackoffEnds
      BY <3>3 DEF LaneExit, ChildExits, RequestRefused, BackoffEnds, queryVars
    <3>4. CASE (\E t \in Token : Cancel(t)) \/ Close \/ ChildError \/ StartupTimeout \/ QueryTimeout
      BY <3>4 DEF Cancel, Close, ChildError, StartupTimeout, QueryTimeout, FailAndRetire,
                  Unavailable, Pend
    <3>5. QED BY <1>7, <3>1, <3>2, <3>3, <3>4 DEF ClientStep
  <2>2. Unsent' => Unsent
    BY <2>1 DEF Unsent
  <2>3. QED BY <1>1, <1>4, <2>2 DEF NewerStep
<1>8. QED BY <1>5, <1>6, <1>7
-----------------------------------------------------------------------------
\* All of the invariant but what is about the client alone.
ProcessInv == ProcessTypes /\ OneRun /\ Sequenced /\ Newer /\ Honest /\ Awaited

LEMMA HeardLess ==
  ASSUME stdout \in Seq(OutputLine), Heard
  PROVE  /\ stdout' \in Seq(OutputLine) /\ Answered(stdout') \subseteq Answered(stdout)
         /\ Complete(stdout') \subseteq Complete(stdout)
<1>1. CASE stdout' = stdout
  BY <1>1
<1>2. CASE stdout # <<>> /\ stdout' = Tail(stdout)
  BY <1>2, Hears
<1>3. QED BY <1>1, <1>2 DEF Heard

\* The operators, of a pipe after a step.
LEMMA Primes ==
  /\ Queries(stdin)' = Queries(stdin') /\ InOrder(stdin)' = InOrder(stdin')
  /\ Newest(stdin)' = Newest(stdin') /\ Answered(stdout)' = Answered(stdout')
  /\ Complete(stdout)' = Complete(stdout')
BY DEF Queries, InOrder, Newest, Answered, Complete

LEMMA SameSets ==
  /\ P!Token = Token /\ P!None = None /\ None \notin Token /\ None = 0
  /\ Token \subseteq Nat /\ Seq(OutputLine) = Seq([token : Token \cup {None}, answer : P!Quality])
<1>1. Token \subseteq Nat \ {None} /\ None = 0
  BY TokenNumbers DEF None
<1>2. P!Token = Token /\ P!None = None
  BY DEF P!Token, Token, P!None, None
<1>3. QED BY <1>1, <1>2 DEF OutputLine

LEMMA InTokens ==
  ASSUME ProcessTypes
  PROVE  /\ Queries(stdin) \subseteq Token /\ Answered(stdout) \subseteq Token \cup {None}
         /\ Queries(stdin) \cup Handled \cup {queued, warming} \subseteq Nat
<1>1. Queries(stdin) \subseteq Token
  BY DEF ProcessTypes, Queries
<1>2. Answered(stdout) \subseteq Token \cup {None}
  <2>1. stdout \in Seq(OutputLine)
    BY DEF ProcessTypes, OutputLine
  <2>2. \A i \in 1..Len(stdout) : stdout[i] \in OutputLine
    BY <2>1
  <2>3. QED BY <2>2 DEF Answered, OutputLine
<1>3. Token \cup {None} \subseteq Nat
  BY SameSets
<1>4. Handled \cup {queued, warming} \subseteq Token \cup {None}
  BY <1>2 DEF Handled, ProcessTypes
<1>5. QED BY <1>1, <1>2, <1>3, <1>4

LEMMA QuietStep ==
  ASSUME ProcessInv, NewerStep, pending' \in {None, latest'}, Quiet,
         latest \in Nat
  PROVE  ProcessInv' \/ (P!Start /\ ~sent')
<1> USE DEF ProcessInv
<1>1. stdout \in Seq(OutputLine)
  BY DEF ProcessTypes, OutputLine
<1>2. /\ stdout' \in Seq(OutputLine) /\ Answered(stdout') \subseteq Answered(stdout)
      /\ Complete(stdout') \subseteq Complete(stdout)
  BY <1>1, HeardLess DEF Quiet
<1>3. /\ stdin' = stdin /\ phase' = phase /\ warming' = warming /\ active' = active
      /\ queued' = queued /\ plocates' = plocates /\ stop' = stop /\ canceled' = canceled
      /\ lost' = lost /\ mode' = mode
  BY DEF Quiet, otherVars, NewerStep
<1>4. Answered(stdout)' = Answered(stdout') /\ Complete(stdout)' = Complete(stdout')
  BY Primes
<1>5. /\ Queries(stdin)' = Queries(stdin) /\ InOrder(stdin)' = InOrder(stdin)
      /\ Newest(stdin)' = Newest(stdin)
  BY <1>3, Primes
<1>6. ProcessTypes'
  BY <1>2, <1>3 DEF ProcessTypes, OutputLine
<1>7. OneRun'
  BY <1>3 DEF OneRun
<1>8. Handled' \subseteq Handled
  BY <1>2, <1>3, <1>4 DEF Handled
<1>9. Sequenced'
  BY <1>2, <1>3, <1>4, <1>5, <1>8 DEF Sequenced
<1>10. Newer' \/ (P!Start /\ ~sent')
  <2>1. SUFFICES ASSUME ~(P!Start /\ ~sent'),
                        NEW t \in Queries(stdin) \cup Handled \cup {queued, warming}
                 PROVE  t <= latest' /\ (Unsent' => t < latest')
    BY <1>3, <1>5, <1>8 DEF Newer
  <2>2. t \in Nat
    BY InTokens
  <2>3. t <= latest /\ (Unsent => t < latest) /\ latest' \in Nat /\ latest <= latest'
          /\ (Unsent' => latest < latest' \/ Unsent)
    BY <2>1 DEF Newer, NewerStep, Unsent
  <2>4. QED BY <2>2, <2>3
<1>11. Honest'
  BY <1>2, <1>3, <1>4 DEF Honest
<1>12. Awaited'
  <2>1. SUFFICES ASSUME sent', child' = "alive", ~retiring', phase' # "ending"
                 PROVE  IF stdin # <<>> THEN Newest(stdin) = pending'
                        ELSE pending' \in Answered(stdout') \cup
                               ({warming, queued, active} \ (canceled \cup {None}))
    BY <1>3, <1>4, <1>5 DEF Awaited
  <2>2. /\ sent /\ child = "alive" /\ ~retiring /\ pending' = pending
        /\ pending \in Answered(stdout) => pending \in Answered(stdout')
    BY <2>1 DEF Quiet
  <2>3. QED BY <1>3, <2>1, <2>2 DEF Awaited
<1>13. QED BY <1>6, <1>7, <1>9, <1>10, <1>11, <1>12

LEMMA PostStep ==
  ASSUME ProcessInv, NewerStep, pending' \in {None, latest'}, Posts, latest \in Nat
  PROVE  ProcessInv'
<1> USE DEF ProcessInv
<1> DEFINE t == pending'
<1>0. t \in Token /\ t = latest' /\ (latest < t \/ Unsent) /\ ~Unsent' /\ t \in Nat /\ latest <= t
  BY SameSets DEF Posts, Unsent, NewerStep
<1>1. stdout \in Seq(OutputLine) /\ stdin \in Seq(Token)
  BY DEF ProcessTypes, OutputLine
<1>2. /\ stdout' \in Seq(OutputLine) /\ Answered(stdout') \subseteq Answered(stdout)
      /\ Complete(stdout') \subseteq Complete(stdout)
  BY <1>1, HeardLess DEF Posts
<1>3. /\ stdin' = Append(stdin, t) /\ phase' = phase /\ warming' = warming /\ active' = active
      /\ queued' = queued /\ plocates' = plocates /\ stop' = stop /\ canceled' = canceled
      /\ lost' = lost /\ mode' = mode
  BY DEF Posts, otherVars, NewerStep
<1> HIDE DEF t
<1>4. Answered(stdout)' = Answered(stdout') /\ Complete(stdout)' = Complete(stdout')
  BY Primes
<1>5. \A u \in Queries(stdin) \cup Handled \cup {queued, warming} : u < t
  <2>1. ASSUME NEW u \in Queries(stdin) \cup Handled \cup {queued, warming} PROVE u < t
    <3>1. u \in Nat /\ u <= latest /\ (Unsent => u < latest)
      BY InTokens DEF Newer
    <3>2. QED BY <1>0, <3>1
  <2>2. QED BY <2>1
<1>6. /\ Queries(stdin)' = Queries(stdin) \cup {t} /\ InOrder(stdin)' /\ Newest(stdin)' = t
      /\ stdin' \in Seq(Token) /\ stdin' # <<>>
  <2>1. InOrder(stdin)
    BY DEF Sequenced
  <2>2. QED BY <1>0, <1>1, <1>3, <1>5, <2>1, Sends, Primes
<1>7. ProcessTypes'
  BY <1>2, <1>3, <1>6 DEF ProcessTypes, OutputLine
<1>8. OneRun'
  BY <1>3 DEF OneRun
<1>9. Handled' \subseteq Handled
  BY <1>2, <1>3, <1>4 DEF Handled
<1>10. Sequenced'
  BY <1>2, <1>3, <1>4, <1>5, <1>6, <1>9 DEF Sequenced
<1>11. Newer'
  <2>1. ASSUME NEW u \in Queries(stdin) \cup Handled \cup {queued, warming, t}
        PROVE  u <= latest' /\ (Unsent' => u < latest')
    BY <1>0, <1>5, InTokens
  <2>2. QED BY <1>3, <1>6, <1>9, <2>1 DEF Newer
<1>12. Honest'
  BY <1>2, <1>3, <1>4 DEF Honest
<1>13. Awaited'
  BY <1>6 DEF Awaited, t
<1>14. QED BY <1>7, <1>8, <1>10, <1>11, <1>12, <1>13

LEMMA StartStep ==
  ASSUME NewerStep, pending' \in {None, latest'}, P!Start, ~sent'
  PROVE  ProcessInv'
<1>1. /\ stdin' = <<>> /\ stdout' = P!Greeting /\ phase' \in {"starting", "ready"}
      /\ warming' = None /\ active' = None /\ queued' = None
      /\ plocates' = {} /\ stop' = [t \in Token |-> "no"] /\ canceled' = {} /\ lost' = {}
  BY SameSets DEF P!Start, P!FirstPhase, P!Unstopped
<1>2. /\ Queries(stdin)' = {} /\ InOrder(stdin)' /\ Answered(stdout)' \subseteq {None}
      /\ stdin' \in Seq(Token) /\ stdout' \in Seq(OutputLine)
  BY <1>1, NewPipes, Primes
<1>3. Handled' \subseteq {None}
  BY <1>1, <1>2 DEF Handled
<1>4. ProcessTypes'
  BY <1>1, <1>2 DEF ProcessTypes, OutputLine
<1>5. OneRun' /\ Honest'
  BY <1>1 DEF OneRun, Honest
<1>6. Sequenced'
  BY <1>1, <1>2 DEF Sequenced
<1>7. Newer'
  <2>1. latest' \in Nat /\ (Unsent' => pending' # None /\ pending' = latest')
    BY DEF NewerStep, Unsent
  <2>2. None <= latest' /\ (Unsent' => None < latest')
    BY <2>1, SameSets
  <2>3. QED BY <1>1, <1>2, <1>3, <2>2 DEF Newer
<1>8. Awaited'
  BY DEF Awaited
<1>9. QED BY <1>4, <1>5, <1>6, <1>7, <1>8 DEF ProcessInv

LEMMA GoneStep ==
  ASSUME ProcessInv, NewerStep, pending' \in {None, latest'}, P!Gone, child' # "alive",
         latest \in Nat
  PROVE  ProcessInv' \/ (P!Start /\ ~sent')
<1> USE DEF ProcessInv
<1>1. /\ stdin' = <<>> /\ stdout' = stdout /\ phase' = "ending"
      /\ warming' = None /\ active' = None /\ queued' = None /\ mode' = mode
      /\ plocates' = {} /\ stop' = [t \in Token |-> "no"] /\ canceled' = {} /\ lost' = lost
  BY SameSets DEF P!Gone, P!Unstopped, NewerStep
<1>2. /\ Queries(stdin)' = {} /\ InOrder(stdin)' /\ Answered(stdout)' = Answered(stdout)
      /\ Complete(stdout)' = Complete(stdout) /\ stdin' \in Seq(Token)
  BY <1>1, NewPipes, Primes
<1>3. Handled' \subseteq Handled \cup {None}
  BY <1>1, <1>2 DEF Handled
<1>4. ProcessTypes'
  BY <1>1, <1>2 DEF ProcessTypes
<1>5. OneRun' /\ Honest'
  BY <1>1, <1>2 DEF OneRun, Honest
<1>6. Sequenced'
  BY <1>1, <1>2 DEF Sequenced
<1>7. Newer' \/ (P!Start /\ ~sent')
  <2>1. SUFFICES ASSUME ~(P!Start /\ ~sent'), NEW t \in Handled \cup {None}
                 PROVE  t <= latest' /\ (Unsent' => t < latest')
    BY <1>1, <1>2, <1>3 DEF Newer
  <2>2. t \in Nat
    BY InTokens, SameSets
  <2>3. /\ latest' \in Nat /\ latest <= latest'
        /\ Unsent' => (latest < latest' \/ Unsent) /\ pending' # None /\ pending' = latest'
    BY <2>1 DEF NewerStep, Unsent
  <2>4. t = None \/ (t <= latest /\ (Unsent => t < latest))
    BY DEF Newer
  <2>5. QED BY <2>2, <2>3, <2>4, SameSets
<1>8. Awaited'
  BY DEF Awaited
<1>9. QED BY <1>4, <1>5, <1>6, <1>7, <1>8

\* A step of the client keeps the parts about the process.
LEMMA ClientKeeps ==
  ASSUME LaneInv, ClientStep
  PROVE  ProcessInv'
<1>1. /\ IInv /\ ProcessInv /\ pending \in {None, latest} /\ stdout \in Seq(OutputLine)
      /\ latest \in Nat
  BY DEF LaneInv, ProcessInv, Newer, ProcessTypes, OutputLine, IInv, TypeOK
<1>2. NewerStep /\ pending' \in {None, latest'} /\ Shape
  BY <1>1, ClientNewer, ClientShape
<1>3. CASE P!Start /\ ~sent'
  BY <1>2, <1>3, StartStep
<1>4. CASE Quiet
  BY <1>1, <1>2, <1>3, <1>4, QuietStep
<1>5. CASE Posts
  BY <1>1, <1>2, <1>5, PostStep
<1>6. CASE P!Gone /\ child' # "alive"
  BY <1>1, <1>2, <1>3, <1>6, GoneStep
<1>7. QED BY <1>2, <1>3, <1>4, <1>5, <1>6 DEF Shape
-----------------------------------------------------------------------------
(* The steps of the process.                                                *)

\* A step of the process does not change the client, nor the accelerator; what
\* it reads and writes changes the pipes as follows.
ReadsOne == stdin # <<>> /\ stdin' = Tail(stdin)
WritesOne(t, quality) == stdout' = Append(stdout, P!Answer(t, quality))

LEMMA AnswerLine ==
  ASSUME NEW t \in Token \cup {None}, NEW quality \in P!Quality
  PROVE  /\ P!Answer(t, quality) \in OutputLine /\ P!Answer(t, quality).token = t
         /\ P!Answer(t, quality).answer = quality
BY DEF P!Answer, OutputLine

\* While the client stands still, Newer and Awaited only have to hold of what is new.
LEMMA StillNewer ==
  ASSUME Newer, UNCHANGED vars,
         (Queries(stdin) \cup Handled \cup {queued, warming})' \subseteq
            Queries(stdin) \cup Handled \cup {queued, warming} \cup plocates \cup {None},
         latest \in Nat, plocates \subseteq {active} \ {None}
  PROVE  Newer'
<1>1. /\ pending' = pending /\ latest' = latest /\ Unsent' = Unsent
  BY DEF vars, queryVars, Unsent
<1>2. Unsent => pending # None /\ pending = latest /\ pending \in {None, latest}
  BY DEF Newer, Unsent
<1>3. None <= latest /\ (Unsent => None < latest)
  BY <1>2, SameSets
<1>4. plocates \subseteq Handled
  BY DEF Handled
<1>5. QED BY <1>1, <1>3, <1>4 DEF Newer

\* A run starts, or fails to.
LEMMA RunStarts ==
  ASSUME NEW t \in Token, NEW said, P!StartPlocate(t, said, {})
  PROVE  /\ active' \in {t, None} /\ plocates' \subseteq {active'} \ {None}
         /\ \/ active' = t /\ stdout' = said
            \/ active' = None /\ stdout' = Append(said, P!Answer(t, "unavailable"))
         /\ stop' = stop \/ (plocates' = {} /\ stop' = [stop EXCEPT ![t] = "bad"])
BY SameSets DEF P!StartPlocate

\* What a step of the process changes: reads of the oldest query, and lines.
ProcessStep ==
  /\ child = "alive" /\ UNCHANGED vars
  /\ \/ P!ReadLine \/ P!Shutdown
     \/ \E ok \in BOOLEAN : P!ScanEnds(ok)
     \/ \E t \in Token : P!Caps(t) \/ P!Stops(t)
     \/ \E t \in Token, clean \in BOOLEAN : P!PlocateCloses(t, clean)

LEMMA LaneSteps == LaneNext => ClientStep \/ ProcessStep
BY DEF LaneNext, ClientStep, ProcessStep, Alive

LEMMA ShutdownStep ==
  ASSUME ProcessInv, latest \in Nat, UNCHANGED vars, P!Shutdown
  PROVE  ProcessInv'
<1> USE DEF ProcessInv
<1>1. /\ stdin' = stdin /\ stdout' = stdout /\ phase' = "ending" /\ warming' = warming
      /\ active' = active /\ queued' = None /\ plocates' = plocates /\ stop' = stop
      /\ lost' = lost /\ mode' = mode
      /\ canceled' = canceled \cup ({active} \ {None})
  BY SameSets DEF P!Shutdown, vars
<1>2. /\ Queries(stdin)' = Queries(stdin) /\ InOrder(stdin)' = InOrder(stdin)
      /\ Answered(stdout)' = Answered(stdout) /\ Complete(stdout)' = Complete(stdout)
  BY <1>1, Primes
<1>3. Handled' = Handled
  BY <1>1, <1>2 DEF Handled
<1>4. ProcessTypes'
  BY <1>1 DEF ProcessTypes
<1>5. OneRun' /\ Honest'
  BY <1>1, <1>2 DEF OneRun, Honest
<1>6. Sequenced'
  <2>1. \A u \in Queries(stdin) : None < u
    BY InTokens, SameSets
  <2>2. QED BY <1>1, <1>2, <1>3, <2>1 DEF Sequenced
<1>7. Newer'
  BY <1>1, <1>2, <1>3, StillNewer DEF OneRun
<1>8. Awaited'
  BY <1>1 DEF Awaited
<1>9. QED BY <1>4, <1>5, <1>6, <1>7, <1>8

LEMMA StopStep ==
  ASSUME ProcessInv, latest \in Nat, UNCHANGED vars, NEW t \in Token, P!Caps(t) \/ P!Stops(t)
  PROVE  ProcessInv'
<1> USE DEF ProcessInv
<1>1. /\ stdin' = stdin /\ stdout' = stdout /\ phase' = phase /\ warming' = warming
      /\ active' = active /\ queued' = queued /\ plocates' = plocates /\ canceled' = canceled
      /\ mode' = mode /\ t \in plocates \ canceled
      /\ \/ stop[t] = "no" /\ stop' = [stop EXCEPT ![t] = "capped"] /\ lost' = lost
         \/ stop' = [stop EXCEPT ![t] = "bad"] /\ lost' = lost \cup {t}
  BY DEF P!Caps, P!Stops, vars
<1>2. /\ Queries(stdin)' = Queries(stdin) /\ InOrder(stdin)' = InOrder(stdin)
      /\ Answered(stdout)' = Answered(stdout) /\ Complete(stdout)' = Complete(stdout)
      /\ Newest(stdin)' = Newest(stdin)
  BY <1>1, Primes
<1>3. t = active /\ t \notin Answered(stdout) /\ mode # "fff"
  BY <1>1, SameSets DEF OneRun, Sequenced
<1>4. Handled' = Handled
  BY <1>1, <1>2, <1>3 DEF Handled
<1>5. ProcessTypes'
  BY <1>1 DEF ProcessTypes
<1>6. OneRun'
  BY <1>1, <1>3 DEF OneRun
<1>7. Honest'
  <2>1. Complete(stdout) \subseteq Answered(stdout)
    BY DEF Complete, Answered
  <2>2. \A u \in plocates' \ canceled' : u = t /\ (u \in lost' => stop'[u] = "bad")
    BY <1>1, <1>3 DEF OneRun, Honest, ProcessTypes
  <2>3. QED BY <1>1, <1>2, <1>3, <2>1, <2>2 DEF Honest
<1>8. Sequenced'
  BY <1>1, <1>2, <1>4 DEF Sequenced
<1>9. Newer'
  BY <1>1, <1>2, <1>4, StillNewer DEF OneRun
<1>10. Awaited'
  BY <1>1, <1>2 DEF Awaited, vars, queryVars, childVars
<1>11. QED BY <1>5, <1>6, <1>7, <1>8, <1>9, <1>10

\* The scan ends: fff says whether it is ready, and answers the query that waits.
LEMMA ScanStep ==
  ASSUME ProcessInv, latest \in Nat, UNCHANGED vars, NEW ok \in BOOLEAN, P!ScanEnds(ok)
  PROVE  ProcessInv'
<1> USE DEF ProcessInv
<1>1. /\ stdin' = stdin /\ phase' \in {"ready", "failed"} /\ phase # "ending"
      /\ active' = active /\ queued' = queued /\ plocates' = plocates /\ canceled' = canceled
      /\ stop' = stop /\ lost' = lost /\ mode = "fff" /\ mode' = mode
      /\ warming' = IF ok THEN None ELSE warming
  BY SameSets DEF P!ScanEnds, P!runVars, vars
<1>2. PICK quality \in P!Quality :
        stdout' = Append(stdout, P!ReadyLine(ok))
                    \o IF ok /\ warming # None THEN <<P!Answer(warming, quality)>> ELSE <<>>
  BY SameSets DEF P!ScanEnds
<1>3. P!ReadyLine(ok) \in OutputLine /\ P!ReadyLine(ok).token = None
  BY SameSets DEF P!ReadyLine, OutputLine, P!Quality
<1>4. stdout \in Seq(OutputLine) /\ warming \in Token \cup {None}
  BY DEF ProcessTypes, OutputLine
<1> DEFINE line == P!Answer(warming, quality)
           said == Append(stdout, P!ReadyLine(ok))
<1>5. line \in OutputLine /\ line.token = warming
  BY <1>4, AnswerLine
<1>6. said \in Seq(OutputLine) /\ Answered(said) = Answered(stdout) \cup {None}
  BY <1>3, <1>4, Writes
<1>7. \/ ok /\ warming # None /\ stdout' = said \o <<line>>
      \/ ~(ok /\ warming # None) /\ stdout' = said \o <<>>
  BY <1>2
<1> HIDE DEF line, said
<1>8. said \o <<line>> = Append(said, line) /\ said \o <<>> = said
  BY <1>5, <1>6
<1>9. /\ stdout' \in Seq(OutputLine)
      /\ Answered(stdout)' = Answered(stdout) \cup {None} \cup IF ok THEN {warming, None} ELSE {}
  <2>1. Answered(Append(said, line)) = Answered(said) \cup {warming}
          /\ Append(said, line) \in Seq(OutputLine)
    BY <1>5, <1>6, Writes
  <2>2. QED BY <1>6, <1>7, <1>8, <2>1, Primes
<1>10. /\ Queries(stdin)' = Queries(stdin) /\ InOrder(stdin)' = InOrder(stdin)
       /\ Newest(stdin)' = Newest(stdin)
  BY <1>1, Primes
<1>11. active = None /\ queued = None /\ lost = {} /\ plocates = {} /\ canceled = {}
  BY <1>1 DEF OneRun
<1>12. ProcessTypes'
  BY <1>1, <1>9 DEF ProcessTypes, OutputLine
<1>13. OneRun' /\ Honest'
  BY <1>1, <1>11 DEF OneRun, Honest
<1>14. Handled' \cup {queued', warming'} \subseteq Handled \cup {queued, warming, None}
  BY <1>1, <1>9 DEF Handled
<1>15. Sequenced'
  <2>1. \A u \in Queries(stdin) : None < u
    BY InTokens, SameSets
  <2>2. QED BY <1>1, <1>10, <1>11, <1>14, <2>1 DEF Sequenced
<1>16. Newer'
  <2>1. (Queries(stdin) \cup Handled \cup {queued, warming})' \subseteq
            Queries(stdin) \cup Handled \cup {queued, warming} \cup plocates \cup {None}
    BY <1>10, <1>14
  <2>2. QED BY <1>11, <2>1, StillNewer
<1>17. Awaited'
  BY <1>1, <1>9, <1>10, <1>11 DEF Awaited, vars, queryVars, childVars
<1>18. QED BY <1>12, <1>13, <1>15, <1>16, <1>17

\* What becomes of a query that is read: it runs, waits for the run to end, is
\* answered, or waits for the scan.
Runs(t) ==
  /\ mode = "plocate" /\ active = None /\ P!StartPlocate(t, stdout, {})
  /\ UNCHANGED <<warming, queued, canceled, lost>>
Queues(t) ==
  /\ mode = "plocate" /\ active # None /\ queued' = t /\ canceled' = canceled \cup {active}
  /\ UNCHANGED <<stdout, warming, active, plocates, stop, lost>>
IsAnswered(t) ==
  /\ mode = "fff" /\ \E quality \in P!Quality : WritesOne(t, quality)
  /\ UNCHANGED <<warming, active, queued, plocates, stop, canceled, lost>>
Warms(t) ==
  /\ mode = "fff" /\ warming' = t
  /\ UNCHANGED <<stdout, active, queued, plocates, stop, canceled, lost>>

LEMMA ReadCases ==
  ASSUME OneRun, P!ReadLine
  PROVE  LET t == Head(stdin) IN Runs(t) \/ Queues(t) \/ IsAnswered(t) \/ Warms(t)
<1> DEFINE t == Head(stdin)
<1>1. CASE mode = "plocate" /\ active = None
  <2>1. plocates = {}
    BY <1>1 DEF OneRun
  <2>2. QED BY <1>1, <2>1, SameSets DEF P!ReadLine, P!Busy, Runs
<1>2. CASE mode = "plocate" /\ active # None
  BY <1>2, SameSets DEF P!ReadLine, P!Busy, P!Replace, Queues
<1>3. CASE mode = "fff" /\ phase = "ready"
  BY <1>3 DEF P!ReadLine, P!runVars, IsAnswered, WritesOne
<1>4. CASE mode = "fff" /\ phase # "ready"
  BY <1>4 DEF P!ReadLine, P!runVars, Warms
<1>5. QED BY <1>1, <1>2, <1>3, <1>4 DEF P!ReadLine

LEMMA ReadStep ==
  ASSUME ProcessInv, latest \in Nat, UNCHANGED vars, P!ReadLine
  PROVE  ProcessInv'
<1> USE DEF ProcessInv
<1> DEFINE t == Head(stdin)
<1>1. stdin # <<>> /\ stdin' = Tail(stdin) /\ phase # "ending" /\ phase' = phase
        /\ stdin \in Seq(Token) /\ stdout \in Seq(OutputLine) /\ InOrder(stdin)
  BY DEF P!ReadLine, ProcessTypes, OutputLine, Sequenced
<1>2. /\ stdin' \in Seq(Token) /\ t \in Token
      /\ Queries(stdin) = Queries(stdin)' \cup {t} /\ InOrder(stdin)'
      /\ \A u \in Queries(stdin)' : t < u
      /\ stdin' # <<>> => Newest(stdin)' = Newest(stdin)
      /\ stdin' = <<>> => Newest(stdin) = t
  BY <1>1, Reads, Primes
<1>3. \A u \in Handled \cup {queued, warming} : u < t
  BY <1>2 DEF Sequenced
<1>4. t # None /\ t \in Nat /\ ~(t < t) /\ None < t
  <2>1. t \in Nat /\ t # 0 /\ None = 0
    BY <1>2, SameSets
  <2>2. QED BY <2>1
<1>5. Runs(t) \/ Queues(t) \/ IsAnswered(t) \/ Warms(t)
  BY ReadCases
<1> HIDE DEF t
\* The lines.
<1>6. \A quality \in P!Quality : WritesOne(t, quality) =>
        /\ stdout' \in Seq(OutputLine) /\ Answered(stdout)' = Answered(stdout) \cup {t}
        /\ quality # "whole" => Complete(stdout)' = Complete(stdout)
  <2>1. ASSUME NEW quality \in P!Quality, WritesOne(t, quality)
        PROVE  /\ stdout' \in Seq(OutputLine) /\ Answered(stdout)' = Answered(stdout) \cup {t}
               /\ quality # "whole" => Complete(stdout)' = Complete(stdout)
    <3>1. /\ P!Answer(t, quality) \in OutputLine /\ P!Answer(t, quality).token = t
          /\ P!Answer(t, quality).answer = quality
      BY <1>2, AnswerLine
    <3>2. QED BY <1>1, <2>1, <3>1, Writes, Primes DEF WritesOne
  <2>2. QED BY <2>1
<1>7. stdout' = stdout => /\ Answered(stdout)' = Answered(stdout)
                          /\ Complete(stdout)' = Complete(stdout)
  BY Primes
\* The run, if one starts.
<1>8. Runs(t) =>
        /\ active' \in {t, None} /\ plocates' \subseteq {active'} \ {None}
        /\ \/ active' = t /\ stdout' = stdout
           \/ active' = None /\ WritesOne(t, "unavailable")
        /\ stop' = stop \/ (plocates' = {} /\ stop' = [stop EXCEPT ![t] = "bad"])
        /\ queued = None /\ canceled = {}
  BY <1>2, RunStarts DEF Runs, WritesOne, OneRun
<1>9. "unavailable" \in P!Quality
  BY DEF P!Quality
<1>10. /\ stdout' \in Seq(OutputLine) /\ Answered(stdout)' \subseteq Answered(stdout) \cup {t}
       /\ Handled' \cup {queued', warming'} \subseteq Handled \cup {queued, warming, t, None}
  BY <1>1, <1>5, <1>6, <1>7, <1>8, <1>9 DEF Queues, IsAnswered, Warms, Runs, Handled
<1>11. mode' = mode
  BY DEF vars
<1>12. ProcessTypes'
  <2>1. /\ warming' \in Token \cup {None} /\ active' \in Token \cup {None}
        /\ queued' \in Token \cup {None} /\ plocates' \subseteq Token
        /\ stop' \in [Token -> {"no", "capped", "bad"}]
        /\ canceled' \subseteq Token /\ lost' \subseteq Token
    BY <1>2, <1>5, <1>8 DEF Queues, IsAnswered, Warms, Runs, ProcessTypes
  <2>2. QED BY <1>1, <1>2, <1>10, <2>1 DEF ProcessTypes, OutputLine
<1>13. OneRun'
  BY <1>1, <1>4, <1>5, <1>8, <1>11 DEF Queues, IsAnswered, Warms, Runs, OneRun
<1>14. Sequenced'
  <2>1. \A u \in Queries(stdin)', v \in Handled' \cup {queued', warming'} : v < u
    <3>1. ASSUME NEW u \in Queries(stdin)', NEW v \in Handled \cup {queued, warming, t, None}
          PROVE  v < u
      <4>1. t < u /\ u \in Nat /\ v \in Nat
        BY <1>2, <1>4, InTokens, SameSets
      <4>2. v < t \/ v = t
        BY <1>3, <1>4
      <4>3. QED BY <1>4, <4>1, <4>2
    <3>2. QED BY <1>10, <3>1
  <2>2. queued' # None => \A u \in Handled' : u < queued'
    <3>1. CASE Runs(t)
      BY <1>8, <3>1 DEF Runs
    <3>2. CASE Queues(t)
      BY <1>3, <1>7, <3>2 DEF Queues, Handled
    <3>3. CASE IsAnswered(t) \/ Warms(t)
      BY <3>3 DEF IsAnswered, Warms, OneRun
    <3>4. QED BY <1>5, <3>1, <3>2, <3>3
  <2>3. plocates' \cap Answered(stdout)' = {}
    <3>1. t \notin Answered(stdout)
      BY <1>3, <1>4 DEF Handled
    <3>2. CASE Runs(t)
      BY <1>6, <1>7, <1>8, <3>1, <3>2
    <3>3. CASE Queues(t)
      BY <1>7, <3>3 DEF Queues, Sequenced
    <3>4. CASE IsAnswered(t) \/ Warms(t)
      BY <3>4 DEF IsAnswered, Warms, OneRun
    <3>5. QED BY <1>5, <3>2, <3>3, <3>4
  <2>4. QED BY <1>2, <2>1, <2>2, <2>3 DEF Sequenced
<1>15. Newer'
  <2>1. (Queries(stdin) \cup Handled \cup {queued, warming})' \subseteq
            Queries(stdin) \cup Handled \cup {queued, warming} \cup plocates \cup {None}
    BY <1>2, <1>10
  <2>2. QED BY <2>1, StillNewer DEF OneRun
<1>16. Honest'
  <2>1. CASE Runs(t)
    <3>1. t \notin lost /\ lost' = lost
      BY <1>3, <1>4, <2>1 DEF Runs, Handled
    <3>2. Complete(stdout)' = Complete(stdout)
      BY <1>6, <1>7, <1>8, <1>9, <2>1
    <3>3. QED BY <1>8, <2>1, <3>1, <3>2 DEF Honest
  <2>2. CASE Queues(t)
    BY <1>7, <2>2 DEF Queues, Honest
  <2>3. CASE IsAnswered(t) \/ Warms(t)
    BY <2>3 DEF IsAnswered, Warms, OneRun, Honest
  <2>4. QED BY <1>5, <2>1, <2>2, <2>3
<1>17. Awaited'
  <2>1. UNCHANGED <<sent, child, retiring, pending>>
    BY DEF vars, queryVars, childVars
  <2>2. CASE stdin' # <<>>
    BY <1>1, <1>2, <2>1, <2>2 DEF Awaited
  <2>3. CASE stdin' = <<>>
    <3>1. t \in Answered(stdout)' \cup ({warming', queued', active'} \ (canceled' \cup {None}))
      <4>1. CASE Runs(t)
        BY <1>4, <1>6, <1>8, <1>9, <4>1 DEF Runs
      <4>2. CASE Queues(t)
        <5>1. active \in Handled /\ canceled \subseteq {active}
          BY DEF Handled, OneRun
        <5>2. t # active
          BY <1>3, <1>4, <5>1
        <5>3. QED BY <1>4, <4>2, <5>1, <5>2 DEF Queues
      <4>3. CASE IsAnswered(t)
        BY <1>6, <4>3 DEF IsAnswered
      <4>4. CASE Warms(t)
        BY <1>4, <4>4 DEF Warms, OneRun
      <4>5. QED BY <1>5, <4>1, <4>2, <4>3, <4>4
    <3>2. QED BY <1>1, <1>2, <2>1, <2>3, <3>1 DEF Awaited
  <2>4. QED BY <2>2, <2>3
<1>18. QED BY <1>12, <1>13, <1>14, <1>15, <1>16, <1>17

\* A plocate closes: it is answered for, unless it was silenced, and the query
\* that waits runs next.
LEMMA CloseStep ==
  ASSUME ProcessInv, latest \in Nat, UNCHANGED vars,
         NEW t \in Token, NEW clean \in BOOLEAN, P!PlocateCloses(t, clean)
  PROVE  ProcessInv'
<1> USE DEF ProcessInv
<1> DEFINE quality == P!QualityOf(t, clean)
           said == IF t \in canceled THEN stdout ELSE Append(stdout, P!Answer(t, quality))
<1>1. /\ stdin' = stdin /\ phase' = phase /\ warming' = warming /\ mode' = mode
      /\ lost' = (IF clean \/ t \in canceled THEN lost ELSE lost \cup {t})
      /\ canceled' = canceled \ {t} /\ t \in plocates
      /\ P!NextQueued(said, plocates \ {t})
  BY DEF P!PlocateCloses, vars
<1>2. /\ t = active /\ t # None /\ plocates = {t} /\ canceled' = {} /\ mode # "fff"
      /\ t \notin Answered(stdout)
  BY <1>1, SameSets DEF OneRun, Sequenced
<1>3. /\ stdout \in Seq(OutputLine) /\ stop[t] \in {"no", "capped", "bad"}
      /\ queued \in Token \cup {None}
  BY DEF ProcessTypes, OutputLine
<1>4. quality \in P!Quality /\ (quality = "whole" <=> stop[t] = "no" /\ clean)
  BY <1>3 DEF P!QualityOf, P!Quality
<1>5. P!Answer(t, quality) \in OutputLine /\ P!Answer(t, quality).token = t
        /\ P!Answer(t, quality).answer = quality
  BY <1>4, AnswerLine
\* What has been said when the next run starts.
<1>6. /\ said \in Seq(OutputLine)
      /\ Answered(said) = Answered(stdout) \cup IF t \in canceled THEN {} ELSE {t}
      /\ Complete(said) = Complete(stdout)
            \cup IF t \notin canceled /\ stop[t] = "no" /\ clean THEN {t} ELSE {}
  <2>1. CASE t \in canceled
    BY <1>3, <2>1
  <2>2. CASE t \notin canceled
    BY <1>3, <1>4, <1>5, <2>2, Writes
  <2>3. QED BY <2>1, <2>2
<1> HIDE DEF quality, said
\* The next run.
<1>7. \/ /\ queued # None /\ phase # "ending" /\ queued' = None
         /\ P!StartPlocate(queued, said, {})
      \/ /\ ~(queued # None /\ phase # "ending") /\ active' = None /\ stdout' = said
         /\ plocates' = {} /\ queued' = queued /\ stop' = stop
  BY <1>1, <1>2, SameSets DEF P!NextQueued
<1>8. "unavailable" \in P!Quality /\ "unavailable" # "whole"
  BY DEF P!Quality
<1>9. queued # None => /\ P!Answer(queued, "unavailable") \in OutputLine
                       /\ P!Answer(queued, "unavailable").token = queued
                       /\ P!Answer(queued, "unavailable").answer = "unavailable"
  BY <1>3, <1>8, AnswerLine
<1>10. \/ /\ queued # None /\ phase # "ending" /\ queued' = None
          /\ active' \in {queued, None} /\ plocates' \subseteq {active'} \ {None}
          /\ stop' = stop \/ (plocates' = {} /\ stop' = [stop EXCEPT ![queued] = "bad"])
          /\ \/ active' = queued /\ stdout' = said
             \/ active' = None /\ stdout' = Append(said, P!Answer(queued, "unavailable"))
       \/ /\ ~(queued # None /\ phase # "ending") /\ active' = None /\ stdout' = said
          /\ plocates' = {} /\ queued' = queued /\ stop' = stop
  BY <1>3, <1>7, RunStarts
<1>11. /\ stdout' \in Seq(OutputLine) /\ Complete(stdout)' = Complete(said)
       /\ \/ Answered(stdout)' = Answered(said)
          \/ /\ Answered(stdout)' = Answered(said) \cup {queued} /\ queued # None
             /\ active' = None /\ plocates' = {}
  <2>1. CASE stdout' = said
    BY <1>6, <2>1, Primes
  <2>2. CASE /\ stdout' = Append(said, P!Answer(queued, "unavailable"))
             /\ queued # None /\ active' = None
    <3>1. /\ Append(said, P!Answer(queued, "unavailable")) \in Seq(OutputLine)
          /\ Answered(Append(said, P!Answer(queued, "unavailable"))) = Answered(said) \cup {queued}
          /\ Complete(Append(said, P!Answer(queued, "unavailable"))) = Complete(said)
      BY <1>6, <1>8, <1>9, <2>2, Writes
    <3>2. plocates' = {}
      BY <1>10, <2>2
    <3>3. QED BY <2>2, <3>1, <3>2, Primes
  <2>3. QED BY <1>10, <2>1, <2>2
<1>12. /\ Queries(stdin)' = Queries(stdin) /\ InOrder(stdin)' = InOrder(stdin)
       /\ Newest(stdin)' = Newest(stdin)
  BY <1>1, Primes
<1>13. queued # None => queued \notin Handled
  <2>1. \A u \in Handled : queued # None => u < queued
    BY DEF Sequenced
  <2>2. queued # None => queued \in Nat
    BY <1>3, SameSets
  <2>3. QED BY <2>1, <2>2
<1>14. Handled' \subseteq Handled \cup {queued, None}
  BY <1>1, <1>2, <1>6, <1>10, <1>11 DEF Handled
<1>15. ProcessTypes'
  <2>1. /\ active' \in Token \cup {None} /\ queued' \in Token \cup {None}
        /\ stop' \in [Token -> {"no", "capped", "bad"}]
    BY <1>3, <1>10 DEF ProcessTypes
  <2>2. plocates' \subseteq Token /\ canceled' \subseteq Token /\ lost' \subseteq Token
    BY <1>1, <1>2, <1>10, <2>1 DEF ProcessTypes
  <2>3. QED BY <1>1, <1>11, <2>1, <2>2 DEF ProcessTypes, OutputLine
<1>16. queued # None => phase # "ending"
  BY DEF OneRun
<1>17. OneRun'
  BY <1>1, <1>2, <1>10, <1>16 DEF OneRun
<1>18. Sequenced'
  <2>1. \A u \in Queries(stdin) : None < u
    BY InTokens, SameSets
  <2>2. plocates' \cap Answered(stdout)' = {}
    BY <1>2, <1>6, <1>10, <1>11, <1>13 DEF Handled
  <2>3. queued' # None => \A u \in Handled' : u < queued'
    BY <1>10, <1>17 DEF OneRun
  <2>4. \A q \in Queries(stdin)', u \in Handled' \cup {queued', warming'} : u < q
    BY <1>1, <1>10, <1>12, <1>14, <2>1 DEF Sequenced
  <2>5. QED BY <1>12, <2>2, <2>3, <2>4 DEF Sequenced
<1>19. Newer'
  <2>1. (Queries(stdin) \cup Handled \cup {queued, warming})' \subseteq
            Queries(stdin) \cup Handled \cup {queued, warming} \cup plocates \cup {None}
    BY <1>1, <1>10, <1>12, <1>14
  <2>2. QED BY <2>1, StillNewer DEF OneRun
<1>20. Honest'
  <2>1. \A u \in plocates' \ canceled' : u = queued /\ u # None
    BY <1>10
  <2>2. queued # None => queued \notin lost'
    BY <1>1, <1>2, <1>13 DEF Handled
  <2>3. stop[t] = "no" /\ t \notin canceled => t \notin lost
    BY <1>2 DEF Honest
  <2>4. Complete(stdout) \subseteq Answered(stdout)
    BY DEF Complete, Answered
  <2>5. Complete(stdout)' \cap lost' = {}
    BY <1>1, <1>2, <1>6, <1>11, <2>3, <2>4 DEF Honest
  <2>6. QED BY <2>1, <2>2, <2>5 DEF Honest
<1>21. Awaited'
  <2>1. SUFFICES ASSUME sent, child = "alive", ~retiring, phase # "ending", stdin = <<>>
                 PROVE  pending \in Answered(stdout)'
                                     \cup ({warming', queued', active'} \ (canceled' \cup {None}))
    BY <1>1, <1>12 DEF Awaited, vars, queryVars, childVars
  <2>2. pending \in Answered(stdout) \cup ({warming, queued, active} \ (canceled \cup {None}))
    BY <2>1 DEF Awaited
  <2>3. CASE pending \in Answered(stdout) \/ (pending = active /\ t \notin canceled)
    BY <1>2, <1>6, <1>11, <2>3
  <2>4. CASE pending = warming /\ pending # None
    BY <1>1, <1>2, <2>4
  <2>5. CASE pending = queued /\ pending # None
    <3>1. active' = queued \/ queued \in Answered(stdout)'
      <4>1. CASE stdout' = Append(said, P!Answer(queued, "unavailable"))
        BY <1>6, <1>9, <2>5, <4>1, Writes, Primes
      <4>2. QED BY <1>10, <2>1, <2>5, <4>1
    <3>2. QED BY <1>2, <2>5, <3>1
  <2>6. QED BY <1>2, <2>2, <2>3, <2>4, <2>5
<1>22. QED BY <1>15, <1>17, <1>18, <1>19, <1>20, <1>21

-----------------------------------------------------------------------------
(* The theorems about the two.                                              *)

LEMMA ProcessSteps ==
  ASSUME ProcessInv, latest \in Nat, ProcessStep
  PROVE  ProcessInv'
BY ShutdownStep, StopStep, ScanStep, ReadStep, CloseStep DEF ProcessStep

LEMMA LaneInitInv == LaneInit => LaneInv
<1> SUFFICES ASSUME LaneInit PROVE LaneInv
  OBVIOUS
<1>1. Init /\ P!Init
  BY DEF LaneInit
<1>2. IInv
  BY <1>1, InitInvariant
<1>3. latest = 0 /\ pending = None /\ sent = FALSE
  BY <1>1 DEF Init
<1>4. /\ stdin = <<>> /\ stdout = P!Greeting /\ phase \in {"starting", "ready"}
      /\ warming = None /\ active = None /\ queued = None
      /\ plocates = {} /\ stop = [t \in Token |-> "no"] /\ canceled = {} /\ lost = {}
  BY <1>1, SameSets DEF P!Init, P!FirstPhase, P!Unstopped
<1>5. /\ Queries(stdin) = {} /\ InOrder(stdin) /\ Answered(stdout) \subseteq {None}
      /\ stdin \in Seq(Token) /\ stdout \in Seq(OutputLine)
  BY <1>4, NewPipes
<1>6. ProcessTypes
  BY <1>4, <1>5 DEF ProcessTypes, OutputLine
<1>7. OneRun /\ Honest
  BY <1>4 DEF OneRun, Honest
<1>8. Sequenced
  BY <1>4, <1>5 DEF Sequenced
<1>9. Newer
  <2>1. Queries(stdin) \cup Handled \cup {queued, warming} \subseteq {None}
    BY <1>4, <1>5 DEF Handled
  <2>2. ~Unsent /\ None <= latest
    BY <1>3, SameSets DEF Unsent
  <2>3. QED BY <1>3, <2>1, <2>2 DEF Newer
<1>10. Awaited
  BY <1>3 DEF Awaited
<1>11. QED BY <1>2, <1>6, <1>7, <1>8, <1>9, <1>10 DEF LaneInv

LEMMA LaneStepInv == LaneInv /\ [LaneNext]_laneVars => LaneInv'
<1> SUFFICES ASSUME LaneInv, [LaneNext]_laneVars PROVE LaneInv'
  OBVIOUS
<1>1. /\ IInv /\ ProcessInv /\ latest \in Nat /\ stdout \in Seq(OutputLine)
  BY DEF LaneInv, ProcessInv, ProcessTypes, OutputLine, IInv, TypeOK
<1>2. CASE ClientStep
  <2>1. IInv'
    BY <1>1, <1>2, ClientNext, StepInvariant
  <2>2. QED BY <1>2, <2>1, ClientKeeps DEF LaneInv, ProcessInv
<1>3. CASE ProcessStep
  <2>1. IInv'
    BY <1>1, <1>3, StepInvariant DEF ProcessStep
  <2>2. QED BY <1>1, <1>3, <2>1, ProcessSteps DEF LaneInv, ProcessInv
<1>4. CASE UNCHANGED laneVars
  <2>1. UNCHANGED vars /\ UNCHANGED <<stdin, stdout, phase, warming, active, queued, plocates,
                                      stop, canceled, lost>>
    BY <1>4 DEF laneVars, processVars, otherVars
  <2>2. IInv'
    BY <1>1, <2>1, StepInvariant
  <2>3. UNCHANGED <<mode, latest, pending, sent, child, retiring>>
    BY <2>1 DEF vars, queryVars, childVars
  <2>4. ProcessInv'
    BY <1>1, <2>1, <2>3 DEF ProcessInv, ProcessTypes, OneRun, Sequenced, Newer, Unsent, Honest,
                            Awaited, Handled, Queries, Newest, InOrder, Answered, Complete
  <2>5. QED BY <2>2, <2>4 DEF LaneInv, ProcessInv
<1>5. QED BY <1>2, <1>3, <1>4, LaneSteps

\* The invariant of the client and its process together.
THEOREM LaneInvariant == LaneSafety => []LaneInv
BY LaneInitInv, LaneStepInv, PTL DEF LaneSafety

\* With its process at the other end of the pipes, the client takes no step
\* that IndexWorker does not allow: what was proved of it holds of the pair.
THEOREM LaneImplementsWorker == LaneSafety => Spec
<1>1. LaneInit => Init
  BY DEF LaneInit
<1>2. LaneInv /\ [LaneNext]_laneVars => [Next]_vars
  <2>1. ASSUME LaneInv, ClientStep PROVE Next
    BY <2>1, ClientNext DEF LaneInv, ProcessTypes, OutputLine
  <2>2. QED BY <2>1, LaneSteps DEF ProcessStep, laneVars
<1>3. QED BY <1>1, <1>2, LaneInvariant, PTL DEF LaneSafety, Spec

\* The pair keeps the promise to the coordinator, and forgets no query.
THEOREM LaneKeepsPromise == LaneSafety => KeepsPromise /\ []Attended
BY LaneImplementsWorker, ImplementsPromise, NoQueryForgotten, PTL

\* The process drops no query that the client still waits for, in whatever
\* order the queries, the ends of the plocates and the client's cancellations
\* come (queuePlocate, finishPlocate, warmingMessage).
THEOREM LaneNeverDrops == LaneSafety => []NeverDropped
<1>1. LaneInv => NeverDropped
  <2> SUFFICES ASSUME LaneInv, sent, child = "alive", ~retiring, phase # "ending"
               PROVE  pending \in P!Held
    BY DEF NeverDropped
  <2>1. P!Held = Queries(stdin) \cup Answered(stdout)
                   \cup ({warming, queued, active} \ (canceled \cup {None}))
    BY SameSets DEF P!Held, Queries, Answered
  <2>2. CASE stdin # <<>>
    <3>1. stdin \in Seq(Token) /\ Newest(stdin) = pending
      BY <2>2 DEF LaneInv, ProcessTypes, Awaited
    <3>2. Len(stdin) \in 1..Len(stdin)
      BY <2>2, <3>1
    <3>3. QED BY <2>1, <3>1, <3>2 DEF Queries, Newest
  <2>3. CASE stdin = <<>>
    BY <2>1, <2>3 DEF LaneInv, Awaited
  <2>4. QED BY <2>2, <2>3
<1>2. QED BY <1>1, LaneInvariant, PTL

\* Rows are called complete only if their plocate was never stopped, ended well
\* and had all its output read.
THEOREM LaneTruthful == LaneSafety => []Truthful
<1>1. LaneInv => Truthful
  BY DEF LaneInv, Honest, Complete, Truthful, P!Truthful
<1>2. QED BY <1>1, LaneInvariant, PTL
=============================================================================
