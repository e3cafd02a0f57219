------------------------ MODULE HubActivationProofs ------------------------
(***************************************************************************)
(* Proofs about HubActivation, for any agents, windows, processes and      *)
(* clicks: a focus and a launch rest on what was true, in spite of all     *)
(* that changes between one await of activate() and the next.              *)
(***************************************************************************)
EXTENDS HubActivation, TLAPS

\* The start time of a pid only grows, with the changes of the desktop.
Counted == \A p \in Pid : ticks[p] <= desktopChanges

\* What was listed: clients first, and windows once the start times were read.
Listed(k) ==
  /\ stage[k] = "reading" => seen[k] \subseteq Client
  /\ stage[k] = "asking" => seen[k] \subseteq Window

\* A window that has shown the agent ever since the click shows it now, ...
SteadyShows(k) == \A w \in steady[k] : Showing(w, agent[k])

\* ... so it was among the clients listed, so it was among the windows that the
\* resolver looked at, so there is none when the answer is "none", and none on
\* the way to a launch.
SteadyListed(k) ==
  /\ stage[k] = "reading" =>
       \A w \in steady[k] : [address |-> w.address, pid |-> w.pid] \in seen[k]
  /\ stage[k] = "asking" => steady[k] \subseteq seen[k]
  /\ stage[k] = "told" /\ found[k].status = "none" => steady[k] = {}
  /\ stage[k] \in {"verifying", "finding", "launching"} => steady[k] = {}

\* The window is chosen once, between the two rounds.
Rounds(k) ==
  /\ stage[k] = "choosing" => round[k] = 1
  /\ shown[k] => round[k] = 2

\* The second answer vouches for the window chosen.
Vouched(k) ==
  /\ stage[k] = "told" /\ round[k] = 2 /\ Confirmed(k) => shown[k]
  /\ stage[k] \in {"checking", "ticking", "focusing"} => shown[k]

\* Its process cannot be older than the one it was seen with. So once the client
\* has been found and the start time is still that one, both were there at once.
Aged(k) == shown[k] => prior[k].ticks <= ticks[prior[k].pid]
Lived(k) ==
  /\ stage[k] = "ticking" /\ SameProcess(prior[k]) => lived[k]
  /\ stage[k] = "focusing" => lived[k]

Held(k) ==
  /\ Listed(k) /\ SteadyShows(k) /\ SteadyListed(k)
  /\ Rounds(k) /\ Vouched(k) /\ Aged(k) /\ Lived(k)

IInv == TypeOK /\ Counted /\ \A k \in Activation : Held(k)

-----------------------------------------------------------------------------
\* What the witnesses say of one click after a step.
LEMMA Witnessed ==
  ASSUME NEW k \in Activation, Witness
  PROVE  /\ stage[k] # "idle" => steady'[k] \subseteq steady[k]
         /\ SteadyShows(k)'
         /\ shown'[k] = (round'[k] = 2 /\ (shown[k] \/ Showing(prior[k], agent[k])'))
         /\ lived'[k] = (stage'[k] \in {"checking", "ticking", "focusing"}
                           /\ (lived[k] \/ Exact(prior[k])'))
<1>1. /\ stage[k] # "idle" => steady'[k] \subseteq steady[k]
      /\ SteadyShows(k)'
  BY DEF Witness, SteadyShows
<1>2. shown'[k] = (round'[k] = 2 /\ (shown[k] \/ Showing(prior[k], agent[k])'))
  BY DEF Witness
<1>3. lived'[k] = (stage'[k] \in {"checking", "ticking", "focusing"}
                    /\ (lived[k] \/ Exact(prior[k])'))
  BY DEF Witness
<1>4. QED BY <1>1, <1>2, <1>3

\* The witnesses keep their types.
LEMMA WitnessType ==
  ASSUME steady \in [Activation -> SUBSET Window], Witness
  PROVE  /\ steady' \in [Activation -> SUBSET Window]
         /\ shown' \in [Activation -> BOOLEAN] /\ lived' \in [Activation -> BOOLEAN]
<1>1. steady' \in [Activation -> SUBSET Window]
  BY DEF Witness
<1>2. shown' \in [Activation -> BOOLEAN]
  BY DEF Witness, Showing, Exact
<1>3. lived' \in [Activation -> BOOLEAN]
  BY DEF Witness, Exact
<1>4. QED BY <1>1, <1>2, <1>3

\* Start times never go back.
Aging == \A p \in Pid : ticks[p] <= ticks'[p]

\* The process of the window chosen cannot become older than it was seen to be.
LEMMA AgedHeld ==
  ASSUME NEW k \in Activation, TypeOK, TypeOK', Witness, Aging, Rounds(k), Aged(k),
         shown[k] => prior'[k] = prior[k]
  PROVE  Aged(k)'
<1> USE Witnessed
<1>1. CASE shown[k]
  <2>1. prior[k] \in Window
    BY <1>1 DEF Rounds, TypeOK
  <2>2. prior[k].ticks <= ticks[prior[k].pid] /\ prior[k].pid \in Pid
          /\ prior[k].ticks \in Int
    BY <1>1, <2>1 DEF Aged, Window, Ticks
  <2>3. ticks[prior[k].pid] <= ticks'[prior[k].pid]
    BY <2>2 DEF Aging
  <2>4. ticks[prior[k].pid] \in Int /\ ticks'[prior[k].pid] \in Int
    BY <2>2 DEF TypeOK, Ticks
  <2>5. QED BY <1>1, <2>2, <2>3, <2>4 DEF Aged
<1>2. CASE ~shown[k] /\ shown'[k]
  <2>1. prior'[k] \in Window /\ ticks'[prior'[k].pid] = prior'[k].ticks
    BY <1>2 DEF Showing, Exact, TypeOK
  <2>2. QED BY <2>1 DEF Aged, Window, Ticks
<1>3. QED BY <1>1, <1>2 DEF Aged

\* Whatever the desktop does meanwhile, a click that stands still keeps its part.
LEMMA Bystander ==
  ASSUME NEW k \in Activation, TypeOK, TypeOK', Held(k), Witness, Aging,
         stage'[k] = stage[k], agent'[k] = agent[k], round'[k] = round[k],
         seen'[k] = seen[k], found'[k] = found[k], prior'[k] = prior[k]
  PROVE  Held(k)'
<1> USE Witnessed DEF Held
<1>1. Listed(k)'
  BY DEF Listed
<1>2. SteadyListed(k)'
  BY DEF SteadyListed, SteadyShows
<1>3. Rounds(k)'
  BY DEF Rounds
<1>4. Vouched(k)'
  <2>1. shown[k] => shown'[k]
    BY DEF Rounds
  <2>2. Confirmed(k)' <=> Confirmed(k)
    BY DEF Confirmed
  <2>3. QED BY <2>1, <2>2 DEF Vouched
<1>5. Aged(k)'
  BY AgedHeld DEF TypeOK, Rounds
<1>6. Lived(k)'
  <2>1. CASE stage[k] = "focusing"
    BY <2>1 DEF Lived
  <2>2. CASE stage[k] = "ticking" /\ SameProcess(prior[k])'
    <3>1. shown[k] /\ prior[k] \in Window
      BY <2>2 DEF Vouched, Rounds, TypeOK
    <3>2. /\ prior[k].pid \in Pid /\ prior[k].ticks \in Int
          /\ ticks[prior[k].pid] \in Int /\ ticks'[prior[k].pid] \in Int
      BY <3>1 DEF Window, Ticks, TypeOK
    <3>3. prior[k].ticks <= ticks[prior[k].pid] /\ ticks[prior[k].pid] <= ticks'[prior[k].pid]
      BY <3>1, <3>2 DEF Aged, Aging
    <3>4. SameProcess(prior[k])
      BY <2>2, <3>2, <3>3 DEF SameProcess
    <3>5. QED BY <2>2, <3>4 DEF Lived
  <2>3. QED BY <2>1, <2>2 DEF Lived
<1>7. QED BY <1>1, <1>2, <1>3, <1>4, <1>5, <1>6


-----------------------------------------------------------------------------
\* A step of one click, and the click itself, leave the desktop and every other
\* click alone.
OneClick(k) == Step(k) \/ \E a \in Agent : Activate(k, a)

LEMMA Apart ==
  ASSUME NEW k \in Activation, TypeOK, OneClick(k)
  PROVE  /\ UNCHANGED desktopVars /\ Witness
         /\ \A j \in Activation \ {k} :
              /\ stage'[j] = stage[j] /\ agent'[j] = agent[j] /\ round'[j] = round[j]
              /\ seen'[j] = seen[j] /\ found'[j] = found[j] /\ prior'[j] = prior[j]
<1> USE DEF TypeOK, Same, Goes, Reject, Answer, desktopVars, matchVars
<1>1. CASE ListWindows(k)
  BY <1>1 DEF ListWindows
<1>2. CASE ReadTicks(k)
  BY <1>2 DEF ReadTicks
<1>3. CASE ResolverLooks(k)
  BY <1>3 DEF ResolverLooks
<1>4. CASE TakeMatch(k)
  BY <1>4 DEF TakeMatch
<1>5. CASE Choose(k)
  BY <1>5 DEF Choose
<1>6. CASE TakeRevalidation(k)
  BY <1>6 DEF TakeRevalidation
<1>7. CASE CheckClients(k)
  BY <1>7 DEF CheckClients
<1>8. CASE CheckTicks(k)
  BY <1>8 DEF CheckTicks
<1>9. CASE Focus(k)
  BY <1>9 DEF Focus
<1>10. CASE Verify(k)
  BY <1>10 DEF Verify
<1>11. CASE Launch(k)
  BY <1>11 DEF Launch
<1>12. CASE Launched(k)
  BY <1>12 DEF Launched
<1>13. CASE Noticed(k)
  BY <1>13 DEF Noticed
<1>14. ASSUME NEW a \in Agent, Activate(k, a) PROVE UNCHANGED desktopVars /\ Witness
         /\ \A j \in Activation \ {k} :
              /\ stage'[j] = stage[j] /\ agent'[j] = agent[j] /\ round'[j] = round[j]
              /\ seen'[j] = seen[j] /\ found'[j] = found[j] /\ prior'[j] = prior[j]
  BY <1>14 DEF Activate
<1>15. QED BY <1>1, <1>2, <1>3, <1>4, <1>5, <1>6, <1>7, <1>8, <1>9, <1>10, <1>11, <1>12, <1>13,
              <1>14 DEF OneClick, Step

\* A step of a click keeps the types.
LEMMA StepType ==
  ASSUME NEW k \in Activation, TypeOK, Listed(k), Step(k)
  PROVE  TypeOK'
<1>1. Witness
  BY Apart DEF OneClick
<1>2. /\ steady' \in [Activation -> SUBSET Window]
      /\ shown' \in [Activation -> BOOLEAN] /\ lived' \in [Activation -> BOOLEAN]
  BY <1>1, WitnessType DEF TypeOK
<1> USE <1>2 DEF TypeOK, Busy, Stage, Same, Goes, Reject, Answer, hubVars, desktopVars, matchVars
<1>3. CASE ListWindows(k)
  BY <1>3 DEF ListWindows
<1>4. CASE ReadTicks(k)
  <2>1. \A w \in seen[k] : [address |-> w.address, pid |-> w.pid, ticks |-> ticks[w.pid]] \in Window
    BY <1>4 DEF ReadTicks, Listed, Client, Window
  <2>2. QED BY <1>4, <2>1 DEF ReadTicks
<1>5. CASE ResolverLooks(k)
  <2>1. found'[k] \in Finding /\ found' = [found EXCEPT ![k] = found'[k]]
    BY <1>5 DEF ResolverLooks, Listed, Finding, Refusal
  <2>2. QED BY <1>5, <2>1 DEF ResolverLooks
<1>6. CASE TakeMatch(k)
  <2>1. Refusal \in Finding
    BY DEF Refusal, Finding
  <2>2. /\ stage' \in [Activation -> Stage] /\ found' \in [Activation -> Finding]
        /\ UNCHANGED <<round, seen, prior>>
    BY <1>6, <2>1 DEF TakeMatch
  <2>3. \A j \in Activation : Busy(j)' => Busy(j)
    BY <1>6 DEF TakeMatch
  <2>4. QED BY <1>6, <2>2, <2>3 DEF TakeMatch
<1>7. CASE Choose(k)
  <2>1. Refusal \in Finding /\ found[k].candidates \subseteq Window
    BY DEF Refusal, Finding
  <2>2. stage' \in [Activation -> Stage] /\ seen' = seen /\ UNCHANGED <<agent, target>>
    BY <1>7 DEF Choose
  <2>3. found' \in [Activation -> Finding]
    BY <1>7, <2>1 DEF Choose
  <2>4. /\ round' \in [Activation -> 1..2] /\ prior' \in [Activation -> Window \cup {NoWindow}]
        /\ \A j \in Activation : round'[j] = 2 => prior'[j] \in Window
    BY <1>7, <2>1 DEF Choose
  <2>5. \A j \in Activation : Busy(j)' => Busy(j)
    BY <1>7 DEF Choose
  <2>6. QED BY <1>7, <2>2, <2>3, <2>4, <2>5 DEF Choose
<1>8. CASE TakeRevalidation(k)
  BY <1>8 DEF TakeRevalidation
<1>9. CASE CheckClients(k)
  BY <1>9 DEF CheckClients
<1>10. CASE CheckTicks(k)
  BY <1>10 DEF CheckTicks
<1>11. CASE Focus(k)
  BY <1>11 DEF Focus
<1>12. CASE Verify(k)
  BY <1>12 DEF Verify
<1>13. CASE Launch(k)
  BY <1>13 DEF Launch
<1>14. CASE Launched(k)
  BY <1>14 DEF Launched
<1>15. CASE Noticed(k)
  BY <1>15 DEF Noticed
<1>16. QED BY <1>3, <1>4, <1>5, <1>6, <1>7, <1>8, <1>9, <1>10, <1>11, <1>12, <1>13, <1>14, <1>15
              DEF Step

\* A step of a click keeps its own part.
LEMMA StepHeld ==
  ASSUME NEW k \in Activation, TypeOK, TypeOK', Held(k), Step(k)
  PROVE  Held(k)'
<1>1. Witness /\ UNCHANGED desktopVars
  BY Apart DEF OneClick
<1>2. /\ stage[k] # "idle" => steady'[k] \subseteq steady[k]
      /\ SteadyShows(k)'
      /\ shown'[k] = (round'[k] = 2 /\ (shown[k] \/ Showing(prior[k], agent[k])'))
      /\ lived'[k] = (stage'[k] \in {"checking", "ticking", "focusing"}
                        /\ (lived[k] \/ Exact(prior[k])'))
  BY <1>1, Witnessed
<1> USE <1>1, <1>2 DEF Held, Same, Goes, Reject, Answer, hubVars, desktopVars, matchVars
<1>3. Aging
  BY DEF Aging, TypeOK, Ticks
<1>4. CASE ListWindows(k)
  <2>1. Listed(k)'
    BY <1>4 DEF ListWindows, Listed, TypeOK
  <2>2. SteadyListed(k)'
    BY <1>4 DEF ListWindows, SteadyListed, SteadyShows, Showing, Exact, TypeOK
  <2>3. Rounds(k)'
    BY <1>4 DEF ListWindows, Rounds, TypeOK
  <2>4. Vouched(k)'
    BY <1>4 DEF ListWindows, Vouched, TypeOK
  <2>5. Aged(k)'
    BY <1>4, <1>3, AgedHeld DEF ListWindows, Rounds, TypeOK
  <2>6. Lived(k)'
    BY <1>4 DEF ListWindows, Lived, TypeOK
  <2>7. QED BY <2>1, <2>2, <2>3, <2>4, <2>5, <2>6
<1>5. CASE ReadTicks(k)
  <2>1. Listed(k)'
    BY <1>5 DEF ReadTicks, Listed, Client, Window, TypeOK
  <2>2. SteadyListed(k)'
    <3>1. CASE stage'[k] = "asking"
      <4>1. seen'[k] = {[address |-> w.address, pid |-> w.pid, ticks |-> ticks[w.pid]] :
                          w \in seen[k]}
        BY <1>5, <3>1 DEF ReadTicks, TypeOK
      <4>2. ASSUME NEW v \in steady'[k] PROVE v \in seen'[k]
        <5>1. v \in steady[k] /\ v \in Window
          BY <1>5, <4>2 DEF ReadTicks, TypeOK
        <5>2. [address |-> v.address, pid |-> v.pid] \in seen[k]
          BY <1>5, <5>1 DEF ReadTicks, SteadyListed
        <5>3. ticks[v.pid] = v.ticks
          BY <4>2 DEF SteadyShows, Showing, Exact
        <5>4. v = [address |-> v.address, pid |-> v.pid, ticks |-> ticks[v.pid]]
          BY <5>1, <5>3 DEF Window
        <5>5. QED BY <4>1, <5>2, <5>4
      <4>3. QED BY <3>1, <4>2 DEF SteadyListed
    <3>2. CASE stage'[k] = "noticing"
      BY <3>2 DEF SteadyListed
    <3>3. QED BY <1>5, <3>1, <3>2 DEF ReadTicks, TypeOK
  <2>3. Rounds(k)'
    BY <1>5 DEF ReadTicks, Rounds, TypeOK
  <2>4. Vouched(k)'
    BY <1>5 DEF ReadTicks, Vouched, TypeOK
  <2>5. Aged(k)'
    BY <1>5, <1>3, AgedHeld DEF ReadTicks, Rounds, TypeOK
  <2>6. Lived(k)'
    BY <1>5 DEF ReadTicks, Lived, TypeOK
  <2>7. QED BY <2>1, <2>2, <2>3, <2>4, <2>5, <2>6
<1>6. CASE ResolverLooks(k)
  <2>1. Listed(k)'
    BY <1>6 DEF ResolverLooks, Listed, TypeOK
  <2>2. SteadyListed(k)'
    <3>1. CASE found'[k].status = "none"
      <4>1. {w \in seen[k] : Showing(w, agent[k])} = {}
        BY <1>6, <3>1 DEF ResolverLooks, Refusal, TypeOK
      <4>2. steady[k] \subseteq seen[k] /\ stage'[k] = "told"
        BY <1>6 DEF ResolverLooks, SteadyListed, TypeOK
      <4>3. steady'[k] = {}
        BY <1>6, <4>1, <4>2 DEF ResolverLooks, SteadyShows
      <4>4. QED BY <4>2, <4>3 DEF SteadyListed
    <3>2. CASE found'[k].status # "none"
      BY <1>6, <3>2 DEF ResolverLooks, SteadyListed, TypeOK
    <3>3. QED BY <3>1, <3>2
  <2>3. Rounds(k)'
    BY <1>6 DEF ResolverLooks, Rounds, TypeOK
  <2>4. Vouched(k)'
    <3>1. stage'[k] = "told"
      BY <1>6 DEF ResolverLooks, TypeOK
    <3>2. CASE round'[k] = 2 /\ Confirmed(k)'
      <4>1. prior[k] \in {w \in seen[k] : Showing(w, agent[k])} /\ round[k] = 2
        BY <1>6, <3>2 DEF ResolverLooks, Confirmed, Refusal, TypeOK
      <4>2. Showing(prior[k], agent[k])'
        BY <1>6, <4>1 DEF ResolverLooks, Showing, Exact
      <4>3. QED BY <3>1, <3>2, <4>2 DEF Vouched
    <3>3. QED BY <3>1, <3>2 DEF Vouched
  <2>5. Aged(k)'
    BY <1>6, <1>3, AgedHeld DEF ResolverLooks, Rounds, TypeOK
  <2>6. Lived(k)'
    BY <1>6 DEF ResolverLooks, Lived, TypeOK
  <2>7. QED BY <2>1, <2>2, <2>3, <2>4, <2>5, <2>6
<1>7. CASE TakeMatch(k)
  <2>1. Listed(k)'
    BY <1>7 DEF TakeMatch, Listed, TypeOK
  <2>2. SteadyListed(k)'
    <3>1. CASE NoneMatched(k) /\ stage'[k] = "verifying"
      BY <1>7, <3>1 DEF TakeMatch, NoneMatched, SteadyListed
    <3>2. CASE stage'[k] \in {"choosing", "noticing"}
      BY <3>2 DEF SteadyListed
    <3>3. QED BY <1>7, <3>1, <3>2 DEF TakeMatch, TypeOK
  <2>3. Rounds(k)'
    BY <1>7 DEF TakeMatch, Rounds, TypeOK
  <2>4. Vouched(k)'
    BY <1>7 DEF TakeMatch, Vouched, TypeOK
  <2>5. Aged(k)'
    BY <1>7, <1>3, AgedHeld DEF TakeMatch, Rounds, TypeOK
  <2>6. Lived(k)'
    BY <1>7 DEF TakeMatch, Lived, TypeOK
  <2>7. QED BY <2>1, <2>2, <2>3, <2>4, <2>5, <2>6
<1>8. CASE Choose(k)
  <2>1. Listed(k)'
    BY <1>8 DEF Choose, Listed, TypeOK
  <2>2. SteadyListed(k)'
    BY <1>8 DEF Choose, SteadyListed, TypeOK
  <2>3. Rounds(k)'
    BY <1>8 DEF Choose, Rounds, TypeOK
  <2>4. Vouched(k)'
    BY <1>8 DEF Choose, Vouched, TypeOK
  <2>5. Aged(k)'
    BY <1>8, <1>3, AgedHeld DEF Choose, Rounds, TypeOK
  <2>6. Lived(k)'
    BY <1>8 DEF Choose, Lived, TypeOK
  <2>7. QED BY <2>1, <2>2, <2>3, <2>4, <2>5, <2>6
<1>9. CASE TakeRevalidation(k)
  <2>1. Listed(k)'
    BY <1>9 DEF TakeRevalidation, Listed, TypeOK
  <2>2. SteadyListed(k)'
    BY <1>9 DEF TakeRevalidation, SteadyListed, TypeOK
  <2>3. Rounds(k)'
    BY <1>9 DEF TakeRevalidation, Rounds, TypeOK
  <2>4. Vouched(k)'
    BY <1>9 DEF TakeRevalidation, Vouched, TypeOK
  <2>5. Aged(k)'
    BY <1>9, <1>3, AgedHeld DEF TakeRevalidation, Rounds, TypeOK
  <2>6. Lived(k)'
    BY <1>9 DEF TakeRevalidation, Lived, TypeOK
  <2>7. QED BY <2>1, <2>2, <2>3, <2>4, <2>5, <2>6
<1>10. CASE CheckClients(k)
  <2>1. Listed(k)'
    BY <1>10 DEF CheckClients, Listed, TypeOK
  <2>2. SteadyListed(k)'
    BY <1>10 DEF CheckClients, SteadyListed, TypeOK
  <2>3. Rounds(k)'
    BY <1>10 DEF CheckClients, Rounds, TypeOK
  <2>4. Vouched(k)'
    <3>1. stage[k] = "checking" /\ round'[k] = round[k]
      BY <1>10 DEF CheckClients
    <3>2. shown'[k] /\ stage'[k] # "told"
      BY <1>10, <3>1 DEF CheckClients, Vouched, Rounds, TypeOK
    <3>3. QED BY <3>2 DEF Vouched
  <2>5. Aged(k)'
    BY <1>10, <1>3, AgedHeld DEF CheckClients, Rounds, TypeOK
  <2>6. Lived(k)'
    <3>1. CASE stage'[k] = "ticking" /\ SameProcess(prior[k])'
      <4>1. Focusable(prior[k]) /\ prior'[k] = prior[k]
        BY <1>10, <3>1 DEF CheckClients, TypeOK
      <4>2. Exact(prior[k])'
        BY <3>1, <4>1 DEF Focusable, SameProcess, Exact
      <4>3. QED BY <3>1, <4>2 DEF Lived
    <3>2. stage'[k] # "focusing"
      BY <1>10 DEF CheckClients, TypeOK
    <3>3. QED BY <3>1, <3>2 DEF Lived
  <2>7. QED BY <2>1, <2>2, <2>3, <2>4, <2>5, <2>6
<1>11. CASE CheckTicks(k)
  <2>1. Listed(k)'
    BY <1>11 DEF CheckTicks, Listed, TypeOK
  <2>2. SteadyListed(k)'
    BY <1>11 DEF CheckTicks, SteadyListed, TypeOK
  <2>3. Rounds(k)'
    BY <1>11 DEF CheckTicks, Rounds, TypeOK
  <2>4. Vouched(k)'
    <3>1. stage[k] = "ticking" /\ round'[k] = round[k]
      BY <1>11 DEF CheckTicks
    <3>2. shown'[k] /\ stage'[k] # "told"
      BY <1>11, <3>1 DEF CheckTicks, Vouched, Rounds, TypeOK
    <3>3. QED BY <3>2 DEF Vouched
  <2>5. Aged(k)'
    BY <1>11, <1>3, AgedHeld DEF CheckTicks, Rounds, TypeOK
  <2>6. Lived(k)'
    BY <1>11 DEF CheckTicks, Lived, TypeOK
  <2>7. QED BY <2>1, <2>2, <2>3, <2>4, <2>5, <2>6
<1>12. CASE Focus(k)
  <2>1. Listed(k)'
    BY <1>12 DEF Focus, Listed, TypeOK
  <2>2. SteadyListed(k)'
    BY <1>12 DEF Focus, SteadyListed, TypeOK
  <2>3. Rounds(k)'
    BY <1>12 DEF Focus, Rounds, TypeOK
  <2>4. Vouched(k)'
    BY <1>12 DEF Focus, Vouched, TypeOK
  <2>5. Aged(k)'
    BY <1>12, <1>3, AgedHeld DEF Focus, Rounds, TypeOK
  <2>6. Lived(k)'
    BY <1>12 DEF Focus, Lived, TypeOK
  <2>7. QED BY <2>1, <2>2, <2>3, <2>4, <2>5, <2>6
<1>13. CASE Verify(k)
  <2>1. Listed(k)'
    BY <1>13 DEF Verify, Listed, TypeOK
  <2>2. SteadyListed(k)'
    BY <1>13 DEF Verify, SteadyListed, TypeOK
  <2>3. Rounds(k)'
    BY <1>13 DEF Verify, Rounds, TypeOK
  <2>4. Vouched(k)'
    BY <1>13 DEF Verify, Vouched, TypeOK
  <2>5. Aged(k)'
    BY <1>13, <1>3, AgedHeld DEF Verify, Rounds, TypeOK
  <2>6. Lived(k)'
    BY <1>13 DEF Verify, Lived, TypeOK
  <2>7. QED BY <2>1, <2>2, <2>3, <2>4, <2>5, <2>6
<1>14. CASE Launch(k)
  <2>1. Listed(k)'
    BY <1>14 DEF Launch, Listed, TypeOK
  <2>2. SteadyListed(k)'
    BY <1>14 DEF Launch, SteadyListed, TypeOK
  <2>3. Rounds(k)'
    BY <1>14 DEF Launch, Rounds, TypeOK
  <2>4. Vouched(k)'
    BY <1>14 DEF Launch, Vouched, TypeOK
  <2>5. Aged(k)'
    BY <1>14, <1>3, AgedHeld DEF Launch, Rounds, TypeOK
  <2>6. Lived(k)'
    BY <1>14 DEF Launch, Lived, TypeOK
  <2>7. QED BY <2>1, <2>2, <2>3, <2>4, <2>5, <2>6
<1>15. CASE Launched(k)
  <2>1. Listed(k)'
    BY <1>15 DEF Launched, Listed, TypeOK
  <2>2. SteadyListed(k)'
    BY <1>15 DEF Launched, SteadyListed, TypeOK
  <2>3. Rounds(k)'
    BY <1>15 DEF Launched, Rounds, TypeOK
  <2>4. Vouched(k)'
    BY <1>15 DEF Launched, Vouched, TypeOK
  <2>5. Aged(k)'
    BY <1>15, <1>3, AgedHeld DEF Launched, Rounds, TypeOK
  <2>6. Lived(k)'
    BY <1>15 DEF Launched, Lived, TypeOK
  <2>7. QED BY <2>1, <2>2, <2>3, <2>4, <2>5, <2>6
<1>16. CASE Noticed(k)
  <2>1. Listed(k)'
    BY <1>16 DEF Noticed, Listed, TypeOK
  <2>2. SteadyListed(k)'
    BY <1>16 DEF Noticed, SteadyListed, TypeOK
  <2>3. Rounds(k)'
    BY <1>16 DEF Noticed, Rounds, TypeOK
  <2>4. Vouched(k)'
    BY <1>16 DEF Noticed, Vouched, TypeOK
  <2>5. Aged(k)'
    BY <1>16, <1>3, AgedHeld DEF Noticed, Rounds, TypeOK
  <2>6. Lived(k)'
    BY <1>16 DEF Noticed, Lived, TypeOK
  <2>7. QED BY <2>1, <2>2, <2>3, <2>4, <2>5, <2>6
<1>17. QED BY <1>4, <1>5, <1>6, <1>7, <1>8, <1>9, <1>10, <1>11, <1>12, <1>13, <1>14, <1>15,
              <1>16 DEF Step

\* The click: nothing was seen or chosen yet.
LEMMA ActivateType ==
  ASSUME NEW k \in Activation, NEW a \in Agent, TypeOK, Activate(k, a)
  PROVE  TypeOK'
<1>1. Witness
  BY DEF Activate
<1>2. /\ steady' \in [Activation -> SUBSET Window]
      /\ shown' \in [Activation -> BOOLEAN] /\ lived' \in [Activation -> BOOLEAN]
  BY <1>1, WitnessType DEF TypeOK
<1>3. QED BY <1>2 DEF Activate, Known, Goes, Answer, hubVars, desktopVars, matchVars, TypeOK,
                 Busy, Stage, Target

LEMMA ActivateHeld ==
  ASSUME NEW k \in Activation, NEW a \in Agent, TypeOK, TypeOK', Held(k), Activate(k, a)
  PROVE  Held(k)'
<1>1. Witness /\ UNCHANGED desktopVars /\ UNCHANGED matchVars
  BY DEF Activate
<1>2. stage'[k] \in {"listing", "noticing", "answered"}
  BY DEF Activate, Goes, Answer, TypeOK
<1>3. Aging
  BY <1>1 DEF Aging, desktopVars, TypeOK, Ticks
<1>4. /\ SteadyShows(k)'
      /\ shown'[k] => round'[k] = 2
  BY <1>1, Witnessed
<1>5. Aged(k)'
  BY <1>1, <1>3, AgedHeld DEF Held, matchVars
<1>6. QED BY <1>2, <1>4, <1>5 DEF Held, Listed, SteadyListed, Rounds, Vouched, Lived

\* What happens around the clicks: the types hold and the start times grow.
LEMMA AroundType ==
  ASSUME TypeOK, Counted, RosterChanges \/ DesktopChanges
  PROVE  TypeOK' /\ Counted' /\ Aging /\ Witness /\ UNCHANGED <<stage, agent, target, matchVars>>
<1>1. Witness /\ UNCHANGED <<stage, agent, target, matchVars>>
  BY DEF RosterChanges, DesktopChanges
<1>2. /\ steady' \in [Activation -> SUBSET Window]
      /\ shown' \in [Activation -> BOOLEAN] /\ lived' \in [Activation -> BOOLEAN]
  BY <1>1, WitnessType DEF TypeOK
<1>3. CASE RosterChanges
  <2>1. /\ roster' \in [Agent -> Target \cup {Gone}] /\ healthy' \in [Agent -> BOOLEAN]
        /\ connected' \in BOOLEAN /\ rosterChanges' \in 0..MaxRoster
    BY <1>3, ActivationAssumption DEF RosterChanges, TypeOK
  <2>2. UNCHANGED desktopVars
    BY <1>3 DEF RosterChanges
  <2>3. TypeOK'
    BY <1>1, <1>2, <2>1, <2>2 DEF TypeOK, desktopVars, matchVars, Busy
  <2>4. Counted' /\ Aging
    BY <2>2 DEF Counted, Aging, desktopVars, TypeOK, Ticks
  <2>5. QED BY <1>1, <2>3, <2>4
<1>4. CASE DesktopChanges
  <2>1. /\ desktopChanges \in Nat /\ desktopChanges' = desktopChanges + 1
        /\ desktopChanges' \in 0..MaxDesktop
    BY <1>4, ActivationAssumption DEF DesktopChanges, TypeOK
  <2>2. /\ mapped' \subseteq Client /\ shows' \in [Address -> Agent \cup {Nobody}]
        /\ ticks' = ticks \/ \E p \in Pid : ticks' = [ticks EXCEPT ![p] = @ + 1]
    BY <1>4 DEF DesktopChanges, TypeOK, Client
  <2>3. ticks \in [Pid -> Nat] /\ \A p \in Pid : ticks[p] <= desktopChanges
    BY DEF TypeOK, Ticks, Counted
  <2>4. ticks' \in [Pid -> Nat] /\ Aging /\ Counted'
    BY <2>1, <2>2, <2>3 DEF Aging, Counted
  <2>5. ticks' \in [Pid -> Ticks]
    BY <2>1, <2>4, ActivationAssumption DEF Counted, Ticks
  <2>6. UNCHANGED hubVars
    BY <1>4 DEF DesktopChanges
  <2>7. TypeOK'
    BY <1>1, <1>2, <2>1, <2>2, <2>5, <2>6 DEF TypeOK, hubVars, matchVars, Busy
  <2>8. QED BY <1>1, <2>4, <2>7
<1>5. QED BY <1>3, <1>4
-----------------------------------------------------------------------------
LEMMA InitIInv == Init => IInv
<1> SUFFICES ASSUME Init PROVE IInv
  OBVIOUS
<1>1. Refusal \in Finding /\ {} \in (SUBSET Client) \cup (SUBSET Window)
  BY DEF Refusal, Finding
<1>2. TypeOK
  <2>1. /\ roster \in [Agent -> Target \cup {Gone}] /\ healthy \in [Agent -> BOOLEAN]
        /\ connected \in BOOLEAN /\ rosterChanges \in 0..MaxRoster
    <3>0. rosterChanges = 0
      BY DEF Init
    <3>1. rosterChanges \in 0..MaxRoster
      BY <3>0, ActivationAssumption
    <3>2. healthy \in [Agent -> BOOLEAN] /\ connected \in BOOLEAN
      BY DEF Init
    <3>3. roster \in [Agent -> Target \cup {Gone}]
      BY DEF Init, Target
    <3>4. QED BY <3>1, <3>2, <3>3
  <2>2. /\ mapped \subseteq Client /\ shows \in [Address -> Agent \cup {Nobody}]
        /\ ticks \in [Pid -> Ticks] /\ desktopChanges \in 0..MaxDesktop
    <3>0. desktopChanges = 0
      BY DEF Init
    <3>1. desktopChanges \in 0..MaxDesktop /\ 0 \in 0..MaxDesktop
      BY <3>0, ActivationAssumption
    <3>2. mapped \subseteq Client /\ shows \in [Address -> Agent \cup {Nobody}]
      BY DEF Init
    <3>3. ticks = [p \in Pid |-> 0]
      BY DEF Init
    <3>4. QED BY <3>1, <3>2, <3>3 DEF Ticks
  <2>3. /\ stage \in [Activation -> Stage] /\ \A k \in Activation : ~Busy(k)
        /\ agent \in [Activation -> Agent \cup {Nobody}]
        /\ target \in [Activation -> Target \cup {Gone}]
    BY DEF Init, Stage, Busy
  <2>4. /\ round \in [Activation -> 1..2] /\ \A k \in Activation : round[k] = 1
        /\ found \in [Activation -> Finding]
        /\ seen \in [Activation -> (SUBSET Client) \cup (SUBSET Window)]
        /\ prior \in [Activation -> Window \cup {NoWindow}]
    <3>1. round = [k \in Activation |-> 1] /\ prior = [k \in Activation |-> NoWindow]
      BY DEF Init
    <3>2. found = [k \in Activation |-> Refusal] /\ seen = [k \in Activation |-> {}]
      BY DEF Init
    <3>3. QED BY <1>1, <3>1, <3>2
  <2>5. /\ steady \in [Activation -> SUBSET Window]
        /\ shown \in [Activation -> BOOLEAN] /\ lived \in [Activation -> BOOLEAN]
    BY DEF Init
  <2>6. QED BY <2>1, <2>2, <2>3, <2>4, <2>5 DEF TypeOK
<1>3. Counted
  <2>1. ticks = [p \in Pid |-> 0] /\ desktopChanges = 0
    BY DEF Init
  <2>2. QED BY <2>1 DEF Counted
<1>4. ASSUME NEW k \in Activation PROVE Held(k)
  BY DEF Init, Held, Listed, SteadyShows, SteadyListed, Rounds, Vouched, Aged, Lived
<1>5. QED BY <1>2, <1>3, <1>4 DEF IInv

LEMMA StepIInv == IInv /\ [Next]_vars => IInv'
<1> SUFFICES ASSUME IInv, [Next]_vars PROVE IInv'
  OBVIOUS
<1> USE DEF IInv
<1>1. ASSUME NEW k \in Activation, OneClick(k) PROVE IInv'
  <2>1. UNCHANGED desktopVars /\ Witness
    BY <1>1, Apart
  <2>2. TypeOK'
    BY <1>1, StepType, ActivateType DEF OneClick, Held
  <2>3. Counted' /\ Aging
    BY <2>1 DEF Counted, Aging, desktopVars, TypeOK, Ticks
  <2>4. Held(k)'
    BY <1>1, <2>2, StepHeld, ActivateHeld DEF OneClick
  <2>5. ASSUME NEW j \in Activation \ {k} PROVE Held(j)'
    BY <1>1, <2>1, <2>2, <2>3, Apart, Bystander
  <2>6. QED BY <2>2, <2>3, <2>4, <2>5
<1>2. CASE RosterChanges \/ DesktopChanges
  <2>1. TypeOK' /\ Counted' /\ Aging /\ Witness /\ UNCHANGED <<stage, agent, target, matchVars>>
    BY <1>2, AroundType
  <2>2. ASSUME NEW k \in Activation PROVE Held(k)'
    BY <2>1, Bystander DEF matchVars
  <2>3. QED BY <2>1, <2>2
<1>3. CASE UNCHANGED vars
  BY <1>3 DEF vars, hubVars, desktopVars, matchVars, witnessVars, TypeOK, Busy, Counted, Held,
              Listed, SteadyShows, SteadyListed, Showing, Exact, Rounds, Vouched, Confirmed,
              Aged, Lived, SameProcess
<1>4. QED BY <1>1, <1>2, <1>3 DEF Next, OneClick

\* The inductive invariant holds of every click, however the desktop and the
\* roster change between its awaits.
THEOREM SpecIInv == Spec => []IInv
BY InitIInv, StepIInv, PTL DEF Spec

\* The types hold.
THEOREM SpecTypeOK == Spec => []TypeOK
<1>1. IInv => TypeOK
  BY DEF IInv
<1>2. QED BY <1>1, SpecIInv, PTL

\* A window is focused only when the resolver saw the agent in it after it was
\* chosen, and the window and its very process were there together afterwards
\* (sameWindowIdentity, the clients and the start time, looked at in turn).
THEOREM SpecFocusConfirmed == Spec => []FocusConfirmed
<1>1. IInv => FocusConfirmed
  BY DEF IInv, Held, Vouched, Lived, FocusConfirmed
<1>2. QED BY <1>1, SpecIInv, PTL

\* Only Launch starts a terminal.
LEMMA OnlyLaunch ==
  ASSUME NEW k \in Activation, TypeOK, Step(k), stage'[k] = "launching"
  PROVE  stage[k] = "launching" \/ Launch(k)
<1> USE DEF Same, Goes, Reject, Answer, TypeOK
<1>1. CASE ListWindows(k)
  BY <1>1 DEF ListWindows
<1>2. CASE ReadTicks(k)
  BY <1>2 DEF ReadTicks
<1>3. CASE ResolverLooks(k)
  BY <1>3 DEF ResolverLooks
<1>4. CASE TakeMatch(k)
  BY <1>4 DEF TakeMatch
<1>5. CASE Choose(k)
  BY <1>5 DEF Choose
<1>6. CASE TakeRevalidation(k)
  BY <1>6 DEF TakeRevalidation
<1>7. CASE CheckClients(k)
  BY <1>7 DEF CheckClients
<1>8. CASE CheckTicks(k)
  BY <1>8 DEF CheckTicks
<1>9. CASE Focus(k)
  BY <1>9 DEF Focus
<1>10. CASE Verify(k)
  BY <1>10 DEF Verify
<1>11. CASE Launched(k)
  BY <1>11 DEF Launched
<1>12. CASE Noticed(k)
  BY <1>12 DEF Noticed
<1>13. QED BY <1>1, <1>2, <1>3, <1>4, <1>5, <1>6, <1>7, <1>8, <1>9, <1>10, <1>11, <1>12 DEF Step

\* A terminal is started only for an agent that the roster names as it was
\* clicked, which reports on a connected hub, and while no window has shown it
\* ever since the click: the last look at the roster and the start are one step,
\* and "none" covers every window that was there from the click on (activate).
THEOREM SpecLaunchJustified == Spec => LaunchJustified
<1> DEFINE Justified(k) ==
      stage[k] # "launching" /\ stage'[k] = "launching" =>
        /\ roster[agent[k]] = target[k] /\ healthy[agent[k]] /\ connected
        /\ steady[k] = {}
<1>1. ASSUME NEW k \in Activation, IInv, Step(k) PROVE Justified(k)
  <2>1. CASE Launch(k)
    <3>1. stage[k] = "finding" /\ stage'[k] \in {"launching", "noticing"}
      BY <1>1, <2>1 DEF Launch, Goes, Reject, IInv, TypeOK
    <3>2. steady[k] = {}
      BY <1>1, <3>1 DEF IInv, Held, SteadyListed
    <3>3. stage'[k] = "launching" => UnchangedTarget(k) /\ Attachable(k)
      BY <1>1, <2>1, <3>1 DEF Launch, Goes, Reject, IInv, TypeOK
    <3>4. QED BY <3>2, <3>3 DEF UnchangedTarget, Attachable
  <2>2. QED BY <1>1, <2>1, OnlyLaunch DEF IInv
<1>2. ASSUME NEW k \in Activation, NEW a \in Agent, IInv, Activate(k, a) PROVE Justified(k)
  BY <1>2 DEF Activate, Goes, Answer, IInv, TypeOK
<1>3. ASSUME NEW k \in Activation, IInv, [Next]_vars PROVE Justified(k)
  <2>1. CASE \E j \in Activation : OneClick(j)
    <3>1. PICK j \in Activation : OneClick(j)
      BY <2>1
    <3>2. CASE j = k
      BY <1>1, <1>2, <1>3, <3>1, <3>2 DEF OneClick
    <3>3. CASE j # k
      BY <1>3, <3>1, <3>3, Apart DEF IInv
    <3>4. QED BY <3>2, <3>3
  <2>2. CASE RosterChanges \/ DesktopChanges
    BY <2>2 DEF RosterChanges, DesktopChanges
  <2>3. CASE UNCHANGED vars
    BY <2>3 DEF vars
  <2>4. QED BY <1>3, <2>1, <2>2, <2>3 DEF Next, OneClick
<1>4. IInv /\ [Next]_vars =>
        [\A k \in Activation : stage[k] # "launching" /\ stage'[k] = "launching" =>
           /\ roster[agent[k]] = target[k] /\ healthy[agent[k]] /\ connected
           /\ steady[k] = {}]_vars
  BY <1>3
<1>5. QED BY <1>4, SpecIInv, PTL DEF Spec, LaunchJustified
=============================================================================
