------------------------- MODULE MessageTurnsProofs -------------------------
(***************************************************************************)
(* Proofs about the turns of the Drivers on the Observer's ledger, for     *)
(* every set of requests, conversations, Drivers and tokens and every kind *)
(* and number of faults.                                                   *)
(***************************************************************************)
EXTENDS MessageReceiptsProofs

-----------------------------------------------------------------------------
(* The inductive invariant *)

\* A lease is held under an epoch that was issued, within the bound.
LeaseIsIssued ==
    /\ lease.epoch <= MaxEpoch
    /\ lease.holder # NoDriver => lease.epoch # 0

\* What the dispatcher works on has been posted.
DeliveryIsPosted ==
    /\ \A i \in DOMAIN posted : receipts[posted[i]].state # "none"
    /\ disp.at # "idle" => /\ disp.request \in Requests
                           /\ receipts[disp.request].state # "none"

\* What a Driver works on has been posted.
TaskIsPosted ==
    \A d \in Drivers, r \in Requests :
        tasks[d][r].stage # "idle" => receipts[r].state # "none"

\* Only a Driver that is up has turns, and its queue holds each queued turn
\* once.
DownIsIdle ==
    \A d \in Drivers, r \in Requests : status[d] # "up" => tasks[d][r].stage = "idle"

TaskHasToken ==
    \A d \in Drivers, r \in Requests :
        LET x == tasks[d][r] IN
        IF x.stage \in Claimless
        THEN x.token = NoToken
        ELSE /\ x.token \in Tokens
             /\ claims[x.token].request = r
             /\ claims[x.token].epoch \in 1 .. lease.epoch

TokensAreApart ==
    \A d, e \in Drivers, r \in Requests :
        tasks[d][r].token = tasks[e][r].token /\ tasks[d][r].token # NoToken => d = e

StartedIsSubmitted ==
    \A d \in Drivers, r \in Requests :
        tasks[d][r].stage \in Started => submitted[r] > 0

\* The Codex lane of a Driver has room for one turn.
LaneIsExclusive ==
    \A d \in Drivers, r, q \in Requests :
        tasks[d][r].stage \in Running /\ tasks[d][q].stage \in Running => r = q

TurnsInv ==
    /\ TurnsTypeOK /\ LedgerInv
    /\ LeaseIsIssued /\ DeliveryIsPosted /\ TaskIsPosted
    /\ DownIsIdle /\ QueueIsQueued /\ TaskHasToken /\ TokensAreApart
    /\ StartedIsSubmitted /\ LaneIsExclusive /\ BindingIsKnown
    /\ TurnHoldsClaim /\ CompletedHadTurn

-----------------------------------------------------------------------------
(* The ledger's steps *)

\* Whatever a turn tells the ledger is one of the ledger's operations.
LEMMA MovesLedger ==
    ASSUME TurnsTypeOK, LeaseIsIssued, TaskHasToken, NEW d \in Drivers,
           NEW r \in Requests, Moves(d, r)
    PROVE  [Next]_vars
<1>0. NoDriver # d
  BY Zenon, LedgerAssumption
<1>1. Fenced(d, epoch[d]) => epoch[d] \in Epochs
  BY SMTT(20), <1>0, LedgerAssumption DEF Fenced, LeaseIsIssued, Epochs,
     TurnsTypeOK, TypeOK
<1>2. ASSUME NEW t \in Tokens, Claim(d, epoch[d], r, t)
      PROVE  Next
  BY ZenonT(30), <1>1, <1>2 DEF Next, Claim
<1>3. ASSUME NEW s \in UpdateStates, Tells(d, r, s), tasks[d][r].stage \notin Claimless
      PROVE  Next
  <2>1. tasks[d][r].token \in Tokens
    BY ZenonT(30), <1>3 DEF TaskHasToken
  <2>2. epoch[d] \in Epochs /\ Update(d, epoch[d], r, tasks[d][r].token, s)
    BY ZenonT(30), <1>1, <1>3 DEF Tells, Update
  <2> QED
    BY ZenonT(30), <2>1, <2>2 DEF Next
<1>4. tasks[d][r].stage \in Running => tasks[d][r].stage \notin Claimless
  BY Zenon DEF Running, Claimless
<1> QED
  BY ZenonT(30), <1>2, <1>3, <1>4 DEF Moves, Claims, Leaves, Waits, Enters, Advances

\* Every step of the dispatcher, the Drivers and the API is one of the
\* ledger's operations, or leaves the ledger alone.
LEMMA LedgerStep ==
    ASSUME TurnsInv, [TurnsNext]_turnVars
    PROVE  [Next]_vars
<1> USE DEF TurnsInv
<1>0. ConvOf \in [Requests -> Conversations]
  BY Zenon, TurnsAssumption
<1>1. ASSUME NEW r \in Requests, PostMessage(r)
      PROVE  Next
  BY ZenonT(30), <1>0, <1>1 DEF PostMessage, Next
<1>2. ASSUME NEW r \in Requests, Backoff(r)
      PROVE  Next
  BY Zenon, <1>2 DEF Backoff, Next
<1>3. ASSUME NEW c \in Conversations, InterruptUnclaimed(c)
      PROVE  Next
  BY Zenon, <1>3 DEF InterruptUnclaimed, Next
<1>4. ASSUME Take
      PROVE  [Next]_vars
  <2>1. PICK i \in DOMAIN posted : QueueReceipt(posted[i]) \/ UNCHANGED vars
    BY Zenon, <1>4 DEF Take
  <2>2. posted[i] \in Requests
    BY SMTT(20) DEF TurnsTypeOK
  <2> QED
    BY Zenon, <2>1, <2>2 DEF Next
<1>5. ASSUME Settle
      PROVE  [Next]_vars
  <2>1. disp.request \in Requests
    BY ZenonT(30), <1>5 DEF Settle, DeliveryIsPosted
  <2>2. RetryReceipt(disp.request) \/ UNCHANGED vars
    BY Zenon, <1>5 DEF Settle
  <2> QED
    BY Zenon, <2>1, <2>2 DEF Next
<1>6. ASSUME LeaseExpires
      PROVE  Next
  BY Zenon, <1>6 DEF LeaseExpires, Next
<1>7. ASSUME NEW d \in Drivers, RegisterDriver(d)
      PROVE  Next
  BY Zenon, <1>7 DEF RegisterDriver, Next
<1>8. ASSUME NEW d \in Drivers, StopDriver(d)
      PROVE  [Next]_vars
  <2>1. ReleaseLease(d, epoch[d]) \/ UNCHANGED vars
    BY Zenon, <1>8 DEF StopDriver
  <2>2. Fenced(d, epoch[d]) => epoch[d] \in Epochs
    BY SMTT(20), LedgerAssumption DEF Fenced, LeaseIsIssued, Epochs,
       TurnsTypeOK, TypeOK
  <2> QED
    BY Zenon, <2>1, <2>2 DEF Next, ReleaseLease
<1>9. ASSUME NEW d \in Drivers, NEW r \in Requests,
             TurnStep(d, r) \/ InterruptActive(d, r) \/ InterruptPending(d, r)
      PROVE  [Next]_vars
  BY ZenonT(30), <1>9, TurnStepMoves, MovesLedger
<1>10. ASSUME NEW d \in Drivers,
              Forward(d) \/ StartDriver(d) \/ LearnEpoch(d) \/ CrashDriver(d)
       PROVE  UNCHANGED vars
  BY Zenon, <1>10 DEF Forward, StartDriver, LearnEpoch, CrashDriver, observer,
     vars
<1>11. ASSUME ForwardFails \/ ConnectionLost \/ ObserverRestarts
       PROVE  UNCHANGED vars
  BY Zenon, <1>11 DEF ForwardFails, ConnectionLost, ObserverRestarts, observer,
     vars
<1>12. CASE UNCHANGED turnVars
  BY Zenon, <1>12 DEF turnVars, observer, vars
<1> QED
  BY ZenonT(30), <1>1, <1>2, <1>3, <1>4, <1>5, <1>6, <1>7, <1>8, <1>9, <1>10, <1>11, <1>12
  DEF TurnsNext, DispatcherStep

-----------------------------------------------------------------------------
(* What the steps of a turn keep *)

\* The state after a step of a turn has its types.
LEMMA TurnStepTypes ==
    ASSUME TurnsTypeOK, TypeOK', QueueIsQueued, NEW d \in Drivers, NEW r \in Requests,
           NEW y \in Task, Step(d, r, y), RestKept
    PROVE  TurnsTypeOK'
<1>1. /\ tasks' \in [Drivers -> [Requests -> Task]]
      /\ queue' \in [Drivers -> Seq(Requests)]
      /\ submitted' \in [Requests -> Nat]
  BY Zenon, StepTypes
<1> QED
  BY Zenon, <1>1 DEF TurnsTypeOK, RestKept, DispKept, BindingsKept

\* What no operation of the ledger undoes: a posted request stays posted, and
\* a lease is held under an issued epoch.
LEMMA LedgerMoves ==
    ASSUME TypeOK, LeaseIsIssued, [Next]_vars
    PROVE  /\ LeaseIsIssued'
           /\ \A q \in Requests : receipts[q].state # "none" => receipts'[q].state # "none"
<1> DEFINE Posted == \A q \in Requests : receipts[q].state # "none" =>
                                          receipts'[q].state # "none"
<1>0. /\ \A q \in Requests : receipts[q] \in Receipt
      /\ lease.epoch \in Nat /\ MaxEpoch \in Nat
  BY Zenon, LedgerAssumption DEF TypeOK
<1>l. UNCHANGED lease => LeaseIsIssued'
  BY Zenon DEF LeaseIsIssued
<1>w. ASSUME NEW r \in Requests, NEW x, Put(r, x), x.state # "none"
      PROVE  LeaseIsIssued' /\ Posted
  BY Zenon, <1>l, <1>w DEF Put, TypeOK
<1>1. ASSUME NEW r \in Requests, NEW c \in Conversations, Post(r, c)
      PROVE  LeaseIsIssued' /\ Posted
  BY ZenonT(30), <1>0, <1>1, <1>w, AcceptedReceipt, QueuedReceipt DEF Post
<1>2. ASSUME NEW r \in Requests, InterruptReceipt(r)
      PROVE  LeaseIsIssued' /\ Posted
  BY Zenon, <1>0, <1>2, <1>w, InterruptedReceipt DEF InterruptReceipt
<1>3. ASSUME NEW r \in Requests, QueueReceipt(r)
      PROVE  LeaseIsIssued' /\ Posted
  BY Zenon, <1>0, <1>3, <1>w, QueuedReceipt DEF QueueReceipt
<1>4. ASSUME NEW r \in Requests, RetryReceipt(r)
      PROVE  LeaseIsIssued' /\ Posted
  BY Zenon, <1>0, <1>4, <1>w, RetriedReceipt DEF RetryReceipt
<1>5. ASSUME NEW r \in Requests, BackoffElapses(r)
      PROVE  LeaseIsIssued' /\ Posted
  BY Zenon, <1>0, <1>5, <1>w, DueReceipt DEF BackoffElapses, Dispatchable
<1>6. ASSUME NEW d \in Drivers, Register(d)
      PROVE  LeaseIsIssued' /\ Posted
  <2>1. LeaseIsIssued'
    BY SMTT(20), <1>0, <1>6 DEF Register, LeaseIsIssued
  <2>2. Posted
    BY Zenon, <1>0, <1>6, RecoveredReceipt DEF Register
  <2> QED
    BY Zenon, <2>1, <2>2
<1>7. ASSUME UNCHANGED receipts, lease' = [lease EXCEPT !.holder = NoDriver]
      PROVE  LeaseIsIssued' /\ Posted
  BY Zenon, <1>0, <1>7 DEF LeaseIsIssued, TypeOK
<1>8. ASSUME NEW d \in Drivers, NEW e \in Epochs, ReleaseLease(d, e)
      PROVE  LeaseIsIssued' /\ Posted
  BY Zenon, <1>7, <1>8 DEF ReleaseLease
<1>9. CASE ExpireLease
  BY Zenon, <1>7, <1>9 DEF ExpireLease
<1>10. ASSUME NEW d \in Drivers, NEW e \in Epochs, NEW r \in Requests,
              NEW t \in Tokens, Claim(d, e, r, t)
       PROVE  LeaseIsIssued' /\ Posted
  <2>1. Claimed(receipts[r], t).state # "none"
    BY Zenon, <1>0, ClaimedReceipt
  <2> QED
    BY Zenon, <1>0, <1>l, <1>10, <2>1 DEF Claim, TypeOK
<1>11. ASSUME NEW d \in Drivers, NEW e \in Epochs, NEW r \in Requests,
              NEW t \in Tokens, NEW s \in UpdateStates, Update(d, e, r, t, s)
       PROVE  LeaseIsIssued' /\ Posted
  <2>1. Updated(receipts[r], s).state # "none"
    BY Zenon, <1>0, UpdatedReceipt DEF UpdateStates, Terminal
  <2> QED
    BY Zenon, <1>w, <1>11, <2>1 DEF Update
<1>12. CASE UNCHANGED vars
  BY Zenon, <1>l, <1>12 DEF vars
<1> QED
  BY ZenonT(30), <1>1, <1>2, <1>3, <1>4, <1>5, <1>6, <1>8, <1>9, <1>10, <1>11, <1>12 DEF Next

\* The lane, the submissions and what the turns have seen.
LEMMA StepLane ==
    ASSUME TurnsTypeOK, LaneIsExclusive, StartedIsSubmitted, NEW d \in Drivers,
           NEW r \in Requests, NEW y \in Task, Step(d, r, y)
    PROVE  LaneIsExclusive' /\ StartedIsSubmitted'
<1>1. \A e \in Drivers, q \in Requests :
         tasks'[e][q] = IF e = d /\ q = r THEN y ELSE tasks[e][q]
  <2>1. OneTask(d, r, y)
    BY Zenon, StepTask
  <2> QED
    BY Zenon, <2>1 DEF OneTask
<1>2. LaneIsExclusive'
  <2>1. y.stage \in Running =>
           \A q \in Requests : tasks[d][q].stage \in Running => q = r
    BY ZenonT(30) DEF Step, LaneStep, LaneIsExclusive
  <2> QED
    BY SMTT(20), <1>1, <2>1 DEF LaneIsExclusive
<1>3. /\ submitted \in [Requests -> Nat]
      /\ UNCHANGED submitted \/ Submits(r)
      /\ y.stage \in Started => tasks[d][r].stage \in Started \/ Submits(r)
  BY ZenonT(30) DEF TurnsTypeOK, Step, LaneStep
<1>4. \A q \in Requests : submitted[q] > 0 => submitted'[q] > 0
  BY SMTT(20), <1>3 DEF Submits
<1>5. Submits(r) => submitted'[r] > 0
  BY SMTT(20), <1>3 DEF Submits
<1>6. StartedIsSubmitted'
  BY ZenonT(30), <1>1, <1>3, <1>4, <1>5 DEF StartedIsSubmitted
<1> QED
  BY Zenon, <1>2, <1>6

\* Every turn past its claim has a token of its own.
LEMMA StepTokens ==
    ASSUME TurnsTypeOK, LeaseIsIssued, TaskHasToken, TokensAreApart, NEW d \in Drivers,
           NEW r \in Requests, NEW y \in Task, Step(d, r, y)
    PROVE  TaskHasToken' /\ TokensAreApart'
<1> DEFINE Token(x, q) == IF x.stage \in Claimless
                          THEN x.token = NoToken
                          ELSE /\ x.token \in Tokens
                               /\ claims[x.token].request = q
                               /\ claims[x.token].epoch \in 1 .. lease.epoch
           NewToken(x, q) == IF x.stage \in Claimless
                             THEN x.token = NoToken
                             ELSE /\ x.token \in Tokens
                                  /\ claims'[x.token].request = q
                                  /\ claims'[x.token].epoch \in 1 .. lease'.epoch
<1>0. /\ "idle" \in Claimless /\ "claim" \in Claimless /\ "queued" \notin Claimless
      /\ NoToken \notin Tokens
      /\ \A t \in Tokens : claims[t].epoch \in Nat
      /\ lease.epoch \in Nat
  BY Zenon, ReceiptsAssumption DEF Claimless, TurnsTypeOK, TypeOK
<1>1. \A e \in Drivers, q \in Requests :
         tasks'[e][q] = IF e = d /\ q = r THEN y ELSE tasks[e][q]
  <2>1. OneTask(d, r, y)
    BY Zenon, StepTask
  <2> QED
    BY Zenon, <2>1 DEF OneTask
<1>2. \A e \in Drivers, q \in Requests : Token(tasks[e][q], q)
  BY Zenon DEF TaskHasToken
<1>f. ASSUME \A e \in Drivers, q \in Requests : NewToken(tasks'[e][q], q),
             \A e \in Drivers :
                tasks'[e][r].token = y.token /\ y.token # NoToken => e = d
      PROVE  TaskHasToken' /\ TokensAreApart'
  <2>1. TaskHasToken'
    BY Zenon, <1>f DEF TaskHasToken
  <2>2. TokensAreApart'
    BY SMTT(20), <1>1, <1>f DEF TokensAreApart
  <2> QED
    BY Zenon, <2>1, <2>2
<1>3. ASSUME NEW t \in Tokens, Claim(d, epoch[d], r, t),
             \/ y.stage = "queued" /\ y.token = t
             \/ y.stage = "idle" /\ y.token = NoToken
      PROVE  TaskHasToken' /\ TokensAreApart'
  <2>1. /\ \A u \in Tokens : claims'[u] = IF u = t THEN [request |-> r, epoch |-> epoch[d]]
                                                   ELSE claims[u]
        /\ lease' = lease /\ epoch[d] = lease.epoch /\ lease.epoch \in 1 .. lease.epoch
    BY SMTT(20), <1>0, <1>3, LedgerAssumption
    DEF Claim, Fenced, LeaseIsIssued, TurnsTypeOK, TypeOK
  <2>2. claims[t].epoch \notin 1 .. lease.epoch
    <3>1. claims[t].epoch = 0 /\ lease.epoch \in Nat
      BY Zenon, <1>0, <1>3 DEF Claim
    <3> QED
      BY SMTT(20), <3>1
  <2>3. ASSUME NEW e \in Drivers, NEW q \in Requests
        PROVE  tasks[e][q].token # t /\ NewToken(tasks[e][q], q)
    <3>1. Token(tasks[e][q], q)
      BY Zenon, <1>2
    <3>2. tasks[e][q].token # t
      BY Zenon, <1>0, <2>2, <3>1
    <3>3. tasks[e][q].token \in Tokens =>
            claims'[tasks[e][q].token] = claims[tasks[e][q].token]
      BY Zenon, <2>1, <3>2
    <3> QED
      BY Zenon, <2>1, <3>1, <3>2, <3>3
  <2>4. NewToken(y, r)
    <3>1. claims'[t].request = r /\ claims'[t].epoch = lease.epoch
      BY SMTT(20), <2>1
    <3>2. CASE y.stage = "queued" /\ y.token = t
      BY Zenon, <1>0, <2>1, <3>1, <3>2
    <3>3. CASE y.stage = "idle" /\ y.token = NoToken
      BY Zenon, <1>0, <3>3
    <3> QED
      BY Zenon, <1>3, <3>2, <3>3
  <2> HIDE DEF NewToken
  <2> QED
    BY ZenonT(30), <1>1, <1>3, <1>f, <2>3, <2>4
<1>4. ASSUME UNCHANGED <<lease, claims>>,
             \/ y.stage = "idle" /\ y.token = NoToken
             \/ /\ y.stage \notin Claimless /\ tasks[d][r].stage \notin Claimless
                /\ y.token = tasks[d][r].token
      PROVE  TaskHasToken' /\ TokensAreApart'
  <2>1. Token(y, r)
    <3>1. CASE y.stage = "idle" /\ y.token = NoToken
      BY Zenon, <1>0, <3>1
    <3>2. CASE /\ y.stage \notin Claimless /\ tasks[d][r].stage \notin Claimless
               /\ y.token = tasks[d][r].token
      <4>1. Token(tasks[d][r], r)
        BY Zenon, <1>2
      <4> QED
        BY Zenon, <3>2, <4>1
    <3> QED
      BY Zenon, <1>4, <3>1, <3>2
  <2>2. ASSUME NEW e \in Drivers, NEW q \in Requests
        PROVE  NewToken(tasks'[e][q], q)
    <3>1. Token(tasks'[e][q], q)
      <4>1. tasks'[e][q] = tasks[e][q] \/ (q = r /\ tasks'[e][q] = y)
        BY Zenon, <1>1
      <4>2. Token(tasks[e][q], q)
        BY Zenon, <1>2
      <4> HIDE DEF Token
      <4> QED
        BY Zenon, <2>1, <4>1, <4>2
    <3> QED
      BY Zenon, <1>4, <3>1
  <2>3. \A e \in Drivers : tasks'[e][r].token = y.token /\ y.token # NoToken => e = d
    BY SMTT(20), <1>1, <1>4 DEF TokensAreApart
  <2> QED
    BY Zenon, <1>f, <2>2, <2>3
<1>5. \A s : Tells(d, r, s) => UNCHANGED <<lease, claims>>
  BY Zenon DEF Tells, Update, Put
<1>6. UNCHANGED vars => UNCHANGED <<lease, claims>>
  BY Zenon DEF vars
<1> QED
  BY Zenon, <1>3, <1>4, <1>5, <1>6 DEF Step, ClaimStep

\* A turn loses its receipt only to a new epoch, or by its own report.
LEMMA StepHolds ==
    ASSUME TurnsTypeOK, TaskHasToken, TokensAreApart, TurnHoldsClaim,
           NEW d \in Drivers, NEW r \in Requests, NEW y \in Task, Step(d, r, y)
    PROVE  TurnHoldsClaim'
<1> DEFINE Holds(x, q) ==
               x.stage \in Holding /\ claims[x.token].epoch = lease.epoch =>
                   receipts[q].state = "in_flight" /\ receipts[q].token = x.token
           NewHolds(x, q) ==
               x.stage \in Holding /\ claims'[x.token].epoch = lease'.epoch =>
                   receipts'[q].state = "in_flight" /\ receipts'[q].token = x.token
<1>0. /\ "idle" \notin Holding
      /\ \A q \in Requests : receipts[q] \in Receipt
      /\ NoToken \notin Tokens
  BY Zenon, ReceiptsAssumption DEF Holding, TurnsTypeOK, TypeOK
<1>1. \A e \in Drivers, q \in Requests :
         tasks'[e][q] = IF e = d /\ q = r THEN y ELSE tasks[e][q]
  <2>1. OneTask(d, r, y)
    BY Zenon, StepTask
  <2> QED
    BY Zenon, <2>1 DEF OneTask
<1>2. \A e \in Drivers, q \in Requests : Holds(tasks[e][q], q)
  BY Zenon DEF TurnHoldsClaim, Holding
<1>f. ASSUME \A e \in Drivers, q \in Requests : NewHolds(tasks'[e][q], q)
      PROVE  TurnHoldsClaim'
  BY Zenon, <1>f DEF TurnHoldsClaim, Holding
<1>3. ASSUME NEW t \in Tokens, Claim(d, epoch[d], r, t),
             \/ y.stage = "queued" /\ y.token = t
             \/ y.stage = "idle" /\ y.token = NoToken
      PROVE  TurnHoldsClaim'
  <2>1. /\ \A u \in Tokens : u # t => claims'[u] = claims[u]
        /\ claims[t].epoch = 0
        /\ lease' = lease
        /\ \A q \in Requests : q # r => receipts'[q] = receipts[q]
        /\ receipts'[r] = Claimed(receipts[r], t)
        /\ receipts[r].state # "in_flight"
    BY Zenon, <1>3 DEF Claim, CanClaim, Dispatchable, TurnsTypeOK, TypeOK
  <2>2. ASSUME NEW e \in Drivers, NEW q \in Requests, tasks[e][q].stage \in Holding
        PROVE  tasks[e][q].token \in Tokens \ {t}
    <3>1. tasks[e][q].stage \notin Claimless
      BY Zenon, <2>2 DEF Holding, Claimless
    <3>2. tasks[e][q].token \in Tokens /\ claims[tasks[e][q].token].epoch # 0
      BY SMTT(20), <3>1 DEF TaskHasToken
    <3> QED
      BY Zenon, <2>1, <3>2
  <2>3. ASSUME NEW e \in Drivers, NEW q \in Requests
        PROVE  NewHolds(tasks[e][q], q)
    <3>1. Holds(tasks[e][q], q)
      BY Zenon, <1>2
    <3>2. ASSUME tasks[e][q].stage \in Holding,
                 claims'[tasks[e][q].token].epoch = lease'.epoch
          PROVE  /\ receipts'[q].state = "in_flight"
                 /\ receipts'[q].token = tasks[e][q].token
      <4>1. tasks[e][q].token \in Tokens \ {t}
        BY Zenon, <2>2, <3>2
      <4>2. claims[tasks[e][q].token].epoch = lease.epoch
        BY Zenon, <2>1, <3>2, <4>1
      <4>3. receipts[q].state = "in_flight" /\ receipts[q].token = tasks[e][q].token
        BY Zenon, <3>1, <3>2, <4>2
      <4>4. q # r
        BY Zenon, <2>1, <4>3
      <4> QED
        BY Zenon, <2>1, <4>3, <4>4
    <3> QED
      BY Zenon, <3>2
  <2>4. NewHolds(y, r)
    <3>1. Claimed(receipts[r], t).state = "in_flight" /\ Claimed(receipts[r], t).token = t
      BY Zenon, <1>0, ClaimedReceipt
    <3>2. CASE y.stage = "queued" /\ y.token = t
      BY Zenon, <2>1, <3>1, <3>2
    <3>3. CASE y.stage = "idle"
      BY Zenon, <1>0, <3>3
    <3> QED
      BY Zenon, <1>3, <3>2, <3>3
  <2> HIDE DEF NewHolds
  <2> QED
    BY Zenon, <1>1, <1>f, <2>3, <2>4
<1>4. ASSUME UNCHANGED vars,
             \/ y.stage = "idle"
             \/ /\ y.token = tasks[d][r].token
                /\ y.stage \in Holding => tasks[d][r].stage \in Holding
      PROVE  TurnHoldsClaim'
  <2>1. Holds(y, r)
    BY Zenon, <1>0, <1>2, <1>4
  <2>2. ASSUME NEW e \in Drivers, NEW q \in Requests
        PROVE  NewHolds(tasks'[e][q], q)
    <3>1. Holds(tasks'[e][q], q)
      <4>1. tasks'[e][q] = tasks[e][q] \/ (q = r /\ tasks'[e][q] = y)
        BY Zenon, <1>1
      <4>2. Holds(tasks[e][q], q)
        BY Zenon, <1>2
      <4> HIDE DEF Holds
      <4> QED
        BY Zenon, <2>1, <4>1, <4>2
    <3>2. claims' = claims /\ lease' = lease /\ receipts' = receipts
      BY Zenon, <1>4 DEF vars
    <3> QED
      BY Zenon, <3>1, <3>2
  <2> QED
    BY Zenon, <1>f, <2>2
<1>5. ASSUME NEW s \in UpdateStates, Tells(d, r, s), tasks[d][r].stage \notin Claimless,
             s = "in_flight" \/ y.stage \notin Holding,
             y.stage = "idle" \/ y.token = tasks[d][r].token
      PROVE  TurnHoldsClaim'
  <2>1. /\ UNCHANGED <<lease, claims>>
        /\ \A q \in Requests : q # r => receipts'[q] = receipts[q]
        /\ receipts'[r] = Updated(receipts[r], s)
        /\ receipts[r].token = tasks[d][r].token
    BY Zenon, <1>5 DEF Tells, Update, CanUpdate, Put, TurnsTypeOK, TypeOK
  <2>2. tasks[d][r].token # NoToken
    BY Zenon, <1>0, <1>5 DEF TaskHasToken
  <2>3. ASSUME NEW e \in Drivers, NEW q \in Requests, ~(e = d /\ q = r)
        PROVE  NewHolds(tasks[e][q], q)
    <3>1. CASE q # r
      BY Zenon, <1>2, <2>1, <3>1
    <3>2. CASE q = r /\ e # d
      <4>1. tasks[e][r].token # tasks[d][r].token
        BY Zenon, <2>2, <3>2 DEF TokensAreApart
      <4> QED
        BY Zenon, <1>2, <2>1, <3>2, <4>1
    <3> QED
      BY Zenon, <2>3, <3>1, <3>2
  <2>4. NewHolds(y, r)
    <3>1. CASE y.stage \notin Holding
      BY Zenon, <3>1
    <3>2. CASE y.stage \in Holding
      <4>1. s = "in_flight" /\ y.token = receipts[r].token
        BY Zenon, <1>0, <1>5, <2>1, <3>2
      <4>2. /\ Updated(receipts[r], s).state = "in_flight"
            /\ Updated(receipts[r], s).token = receipts[r].token
        BY Zenon, <1>0, <4>1, UpdatedReceipt
      <4> QED
        BY Zenon, <2>1, <4>1, <4>2
    <3> QED
      BY Zenon, <3>1, <3>2
  <2> HIDE DEF NewHolds
  <2> QED
    BY Zenon, <1>1, <1>f, <2>3, <2>4
<1> QED
  BY Zenon, <1>3, <1>4, <1>5 DEF Step, ClaimStep

\* Only a turn that was submitted completes a receipt.
LEMMA StepCompleted ==
    ASSUME TurnsTypeOK, StartedIsSubmitted, CompletedHadTurn,
           NEW d \in Drivers, NEW r \in Requests, NEW y \in Task, Step(d, r, y)
    PROVE  CompletedHadTurn'
<1>0. \A q \in Requests : receipts[q] \in Receipt
  BY Zenon DEF TurnsTypeOK, TypeOK
<1>1. \A q \in Requests : submitted[q] > 0 => submitted'[q] > 0
  <2>1. /\ submitted \in [Requests -> Nat]
        /\ UNCHANGED submitted \/ Submits(r)
    BY ZenonT(30) DEF TurnsTypeOK, Step, LaneStep
  <2> QED
    BY SMTT(20), <2>1 DEF Submits
<1>2. ASSUME \A q \in Requests : receipts'[q].state = "completed" =>
                receipts[q].state = "completed" \/ submitted[q] > 0
      PROVE  CompletedHadTurn'
  BY Zenon, <1>1, <1>2 DEF CompletedHadTurn
<1>3. ASSUME NEW t \in Tokens, Claim(d, epoch[d], r, t)
      PROVE  CompletedHadTurn'
  <2>1. Claimed(receipts[r], t).state # "completed"
    BY Zenon, <1>0, ClaimedReceipt
  <2> QED
    BY ZenonT(30), <1>2, <1>3, <2>1 DEF Claim, TurnsTypeOK, TypeOK
<1>4. CASE UNCHANGED vars
  BY Zenon, <1>2, <1>4 DEF vars
<1>5. ASSUME NEW s \in UpdateStates, Tells(d, r, s),
             s = "completed" => tasks[d][r].stage \in Started
      PROVE  CompletedHadTurn'
  <2>1. /\ \A q \in Requests : q # r => receipts'[q] = receipts[q]
        /\ receipts'[r] = Updated(receipts[r], s)
    BY Zenon, <1>5 DEF Tells, Update, Put, TurnsTypeOK, TypeOK
  <2>2. Updated(receipts[r], s).state = s
    BY Zenon, <1>0, UpdatedReceipt
  <2>3. s = "completed" => submitted[r] > 0
    BY Zenon, <1>5 DEF StartedIsSubmitted
  <2> QED
    BY ZenonT(30), <1>2, <2>1, <2>2, <2>3
<1> QED
  BY Zenon, <1>3, <1>4, <1>5 DEF Step, ClaimStep

\* A step of a turn, or an interrupt of one, keeps the invariant.
LEMMA TurnStepKeeps ==
    ASSUME TurnsInv, [Next]_vars, NEW d \in Drivers, NEW r \in Requests,
           TurnStep(d, r) \/ InterruptActive(d, r) \/ InterruptPending(d, r)
    PROVE  TurnsInv'
<1> USE DEF TurnsInv
<1>1. PICK y \in Task : Step(d, r, y)
  BY Zenon, TurnStepMoves, MovesStep
<1>2. RestKept
  BY Zenon, TurnStepRest
<1>3. TypeOK' /\ LedgerInv'
  <2>1. TypeOK
    BY Zenon DEF TurnsTypeOK
  <2> QED
    BY ZenonT(30), <2>1, TypeStep, LedgerInvStep
<1>4. TurnsTypeOK'
  BY Zenon, <1>1, <1>2, <1>3, TurnStepTypes
<1>5. /\ LeaseIsIssued'
      /\ \A q \in Requests : receipts[q].state # "none" => receipts'[q].state # "none"
  <2>1. TypeOK
    BY Zenon DEF TurnsTypeOK
  <2> QED
    BY Zenon, <2>1, LedgerMoves
<1>6. \A e \in Drivers, q \in Requests :
         tasks'[e][q] = IF e = d /\ q = r THEN y ELSE tasks[e][q]
  <2>1. OneTask(d, r, y)
    BY Zenon, <1>1, StepTask
  <2> QED
    BY Zenon, <2>1 DEF OneTask
<1>7. tasks[d][r].stage # "idle"
  BY Zenon, <1>1, StepTask
<1>8. DeliveryIsPosted'
  <2>1. \A i \in DOMAIN posted : posted[i] \in Requests
    BY SMTT(20) DEF TurnsTypeOK
  <2> QED
    BY Zenon, <1>2, <1>5, <2>1 DEF RestKept, DispKept, DeliveryIsPosted
<1>9. TaskIsPosted'
  BY SMTT(20), <1>5, <1>6, <1>7 DEF TaskIsPosted
<1>10. DownIsIdle'
  <2>1. status' = status
    BY Zenon, <1>2 DEF RestKept
  <2>2. ASSUME NEW e \in Drivers, NEW q \in Requests, status[e] # "up"
        PROVE  tasks'[e][q].stage = "idle"
    <3>1. tasks[e][q].stage = "idle" /\ status[d] = "up"
      BY Zenon, <1>7, <2>2 DEF DownIsIdle
    <3> QED
      BY Zenon, <1>6, <2>2, <3>1
  <2> QED
    BY Zenon, <2>1, <2>2 DEF DownIsIdle
<1>11. LaneIsExclusive' /\ StartedIsSubmitted'
  BY Zenon, <1>1, StepLane
<1>12. BindingIsKnown'
  BY Zenon, <1>1, <1>2, StepBindings DEF RestKept
<1>13. QueueIsQueued'
  BY Zenon, <1>1, StepQueue
<1>14. TaskHasToken' /\ TokensAreApart'
  BY Zenon, <1>1, StepTokens
<1>15. TurnHoldsClaim' /\ CompletedHadTurn'
  BY ZenonT(30), <1>1, StepHolds, StepCompleted
<1> QED
  BY ZenonT(30), <1>3, <1>4, <1>5, <1>8, <1>9, <1>10, <1>11, <1>12, <1>13, <1>14, <1>15

-----------------------------------------------------------------------------
(* What the other steps keep *)

\* The API, the dispatcher and the end of a lease leave every claim alone.
Quiet ==
    /\ UNCHANGED claims
    /\ lease'.epoch = lease.epoch
    /\ \A q \in Requests :
          /\ receipts[q].state = "in_flight" => receipts'[q] = receipts[q]
          /\ receipts'[q].state = "completed" => receipts[q].state = "completed"

\* A write of a receipt that is not in flight ends no claim.
LEMMA QuietPut ==
    ASSUME TypeOK, NEW r \in Requests, NEW x, Put(r, x),
           receipts[r].state # "in_flight", x.state # "completed"
    PROVE  Quiet
BY Zenon DEF TypeOK, Put, Quiet

\* A step that leaves the ledger alone is quiet.
LEMMA QuietUnchanged ==
    ASSUME UNCHANGED vars
    PROVE  Quiet
BY Zenon DEF vars, Quiet

\* The steps of the Observer on receipts that are not in flight.
LEMMA QuietReceipts ==
    ASSUME TypeOK, ClaimIntegrity, NEW r \in Requests,
           \/ \E c \in Conversations : Post(r, c)
           \/ InterruptReceipt(r) \/ QueueReceipt(r) \/ RetryReceipt(r)
           \/ BackoffElapses(r)
    PROVE  Quiet
<1>0. receipts[r] \in Receipt
  BY Zenon DEF TypeOK
<1>1. ASSUME NEW c \in Conversations, Post(r, c)
      PROVE  Quiet
  BY ZenonT(30), <1>0, <1>1, QuietPut, AcceptedReceipt, QueuedReceipt DEF Post
<1>2. CASE InterruptReceipt(r)
  BY ZenonT(30), <1>0, <1>2, QuietPut, InterruptedReceipt DEF InterruptReceipt, CanInterrupt, Dispatchable
<1>3. CASE QueueReceipt(r)
  BY ZenonT(30), <1>0, <1>3, QuietPut, QueuedReceipt DEF QueueReceipt, CanQueue
<1>4. CASE RetryReceipt(r)
  <2>1. receipts[r].state # "in_flight"
    BY Zenon, <1>4 DEF RetryReceipt, CanRetry, ClaimIntegrity
  <2> QED
    BY Zenon, <1>0, <1>4, <2>1, QuietPut, RetriedReceipt DEF RetryReceipt
<1>5. CASE BackoffElapses(r)
  BY Zenon, <1>0, <1>5, QuietPut, DueReceipt DEF BackoffElapses, Dispatchable
<1> QED
  BY ZenonT(30), <1>1, <1>2, <1>3, <1>4, <1>5

\* A lease that expires.
LEMMA QuietLease ==
    ASSUME TypeOK, UNCHANGED <<receipts, claims>>,
           lease' = [lease EXCEPT !.holder = NoDriver]
    PROVE  Quiet
BY Zenon DEF TypeOK, Quiet

\* Outside the turns a task stays, is created, or is forgotten with its queue.
Calm ==
    /\ UNCHANGED submitted
    /\ \A e \in Drivers, q \in Requests :
          \/ tasks'[e][q] = tasks[e][q]
          \/ /\ tasks'[e][q].stage \in Claimless
             /\ tasks'[e][q].token = NoToken
             /\ tasks'[e][q].seen \in {tasks[e][q].seen, NoBinding}
    /\ \A e \in Drivers :
          \/ queue'[e] = <<>>
          \/ /\ queue'[e] = queue[e]
             /\ \A q \in Requests :
                   tasks[e][q].stage = "queued" => tasks'[e][q] = tasks[e][q]

\* A step that leaves the tasks and the lanes alone is calm.
LEMMA CalmUnchanged ==
    ASSUME UNCHANGED <<tasks, queue, submitted>>
    PROVE  Calm
BY Zenon DEF Calm

\* A registration hands out a new epoch, under which no token was claimed.
LEMMA RegisterRecovers ==
    ASSUME TypeOK, NEW d \in Drivers, Register(d)
    PROVE  /\ UNCHANGED claims
           /\ lease'.epoch = lease.epoch + 1
           /\ \A q \in Requests :
                 receipts'[q].state = "completed" => receipts[q].state = "completed"
<1>1. \A q \in Requests : /\ receipts[q] \in Receipt
                          /\ receipts'[q] = Recovered(receipts[q])
  BY Zenon DEF TypeOK, Register
<1>2. \A q \in Requests :
         receipts'[q].state = "completed" => receipts[q].state = "completed"
  BY Zenon, <1>1, RecoveredReceipt
<1> QED
  BY Zenon, <1>2 DEF Register

\* What a step that starts and ends no turn leaves of the claims, the lanes
\* and the turns.
LEMMA CalmKeeps ==
    ASSUME TurnsInv, Calm, Quiet \/ \E d \in Drivers : Register(d)
    PROVE  /\ QueueIsQueued' /\ TaskHasToken' /\ TokensAreApart'
           /\ StartedIsSubmitted' /\ LaneIsExclusive'
           /\ TurnHoldsClaim' /\ CompletedHadTurn'
<1> USE DEF TurnsInv
<1>0. /\ TypeOK /\ lease.epoch \in Nat /\ NoToken \notin Tokens
      /\ \A e \in Drivers : \A i \in DOMAIN queue[e] : queue[e][i] \in Requests
      /\ Claimless \cap Running = {} /\ Claimless \cap Holding = {}
      /\ Claimless \cap Started = {}
  BY SMTT(20), ReceiptsAssumption DEF TurnsTypeOK, TypeOK, Claimless, Running,
     Holding, Started
<1>1. /\ UNCHANGED claims
      /\ lease'.epoch \in {lease.epoch, lease.epoch + 1}
      /\ \A q \in Requests :
            receipts'[q].state = "completed" => receipts[q].state = "completed"
  BY Zenon, <1>0, RegisterRecovers DEF Quiet
<1>2. QueueIsQueued'
  <2>1. ASSUME NEW e \in Drivers
        PROVE  /\ \A i \in DOMAIN queue'[e] : tasks'[e][queue'[e][i]].stage = "queued"
               /\ \A i, j \in DOMAIN queue'[e] : queue'[e][i] = queue'[e][j] => i = j
    <3>1. CASE queue'[e] = <<>>
      BY SMTT(20), <3>1
    <3>2. CASE /\ queue'[e] = queue[e]
               /\ \A q \in Requests :
                     tasks[e][q].stage = "queued" => tasks'[e][q] = tasks[e][q]
      BY SMTT(20), <1>0, <3>2 DEF QueueIsQueued
    <3> QED
      BY Zenon, <3>1, <3>2 DEF Calm
  <2> QED
    BY Zenon, <2>1 DEF QueueIsQueued
<1>3. TaskHasToken'
  <2>1. ASSUME NEW e \in Drivers, NEW q \in Requests
        PROVE  LET x == tasks'[e][q] IN
               IF x.stage \in Claimless
               THEN x.token = NoToken
               ELSE /\ x.token \in Tokens
                    /\ claims'[x.token].request = q
                    /\ claims'[x.token].epoch \in 1 .. lease'.epoch
    <3>1. CASE tasks'[e][q].stage \in Claimless /\ tasks'[e][q].token = NoToken
      BY Zenon, <3>1
    <3>2. CASE tasks'[e][q] = tasks[e][q]
      <4>1. 1 .. lease.epoch \subseteq 1 .. lease'.epoch
        BY SMTT(20), <1>0, <1>1
      <4> DEFINE x == tasks[e][q]
      <4>2. IF x.stage \in Claimless
            THEN x.token = NoToken
            ELSE /\ x.token \in Tokens
                 /\ claims[x.token].request = q
                 /\ claims[x.token].epoch \in 1 .. lease.epoch
        BY Zenon DEF TaskHasToken
      <4> HIDE DEF x
      <4>3. tasks'[e][q] = x /\ claims' = claims
        BY Zenon, <1>1, <3>2 DEF x
      <4> QED
        BY Zenon, <4>1, <4>2, <4>3
    <3> QED
      BY ZenonT(30), <3>1, <3>2 DEF Calm
  <2> QED
    BY Zenon, <2>1 DEF TaskHasToken
<1>4. TokensAreApart'
  BY SMTT(20) DEF Calm, TokensAreApart
<1>5. StartedIsSubmitted' /\ LaneIsExclusive'
  BY ZenonT(30), <1>0 DEF Calm, StartedIsSubmitted, LaneIsExclusive
<1>6. CompletedHadTurn'
  BY ZenonT(30), <1>1 DEF Calm, CompletedHadTurn
<1>7. TurnHoldsClaim'
  <2>1. ASSUME NEW e \in Drivers, NEW q \in Requests, tasks'[e][q].stage \in Holding,
               claims'[tasks'[e][q].token].epoch = lease'.epoch
        PROVE  /\ receipts'[q].state = "in_flight"
               /\ receipts'[q].token = tasks'[e][q].token
    <3>1. tasks'[e][q] = tasks[e][q] /\ tasks[e][q].stage \notin Claimless
      BY ZenonT(30), <1>0, <2>1 DEF Calm
    <3>2. claims[tasks[e][q].token].epoch \in 1 .. lease.epoch
      BY ZenonT(30), <3>1 DEF TaskHasToken
    <3>3. lease'.epoch # lease.epoch + 1
      BY SMTT(20), <1>0, <1>1, <2>1, <3>1, <3>2
    <3>4. Quiet
      BY Zenon, <1>0, <3>3, RegisterRecovers
    <3>5. receipts[q].state = "in_flight" /\ receipts[q].token = tasks[e][q].token
      BY Zenon, <2>1, <3>1, <3>4 DEF Quiet, TurnHoldsClaim, Holding
    <3> QED
      BY ZenonT(30), <3>1, <3>4, <3>5 DEF Quiet
  <2> QED
    BY ZenonT(30), <2>1 DEF TurnHoldsClaim, Holding
<1> QED
  BY ZenonT(30), <1>2, <1>3, <1>4, <1>5, <1>6, <1>7

\* The invariant after a step outside the turns, from its parts.
OtherTypes ==
    /\ posted \in Seq(Requests)
    /\ bindings \in [Conversations -> Binding]
    /\ answered \subseteq Conversations \X TurnStates \X Requests
    /\ disp \in Dispatch
    /\ status \in [Drivers -> {"up", "down"}]
    /\ epoch \in [Drivers -> Nat]
    /\ offered \in [Drivers -> Nat]
    /\ tasks \in [Drivers -> [Requests -> Task]]
    /\ queue \in [Drivers -> Seq(Requests)]
    /\ done \in [Drivers -> SUBSET Requests]
    /\ submitted \in [Requests -> Nat]
    /\ faults \in 0 .. MaxFaults

\* The steps that are no steps of turns keep the invariant.
LEMMA OtherStepKeeps ==
    ASSUME TurnsInv, [Next]_vars, Calm, Quiet \/ \E d \in Drivers : Register(d),
           OtherTypes', DeliveryIsPosted', TaskIsPosted', DownIsIdle', BindingIsKnown'
    PROVE  TurnsInv'
<1>0. TypeOK /\ LeaseIsIssued /\ LedgerInv
  BY Zenon DEF TurnsInv, TurnsTypeOK
<1>1. TypeOK' /\ LedgerInv'
  BY ZenonT(30), <1>0, TypeStep, LedgerInvStep
<1>2. TurnsTypeOK'
  BY ZenonT(30), <1>1 DEF OtherTypes, TurnsTypeOK
<1>3. LeaseIsIssued'
  BY ZenonT(30), <1>0, LedgerMoves
<1> QED
  BY Zenon, <1>1, <1>2, <1>3, CalmKeeps DEF TurnsInv

\* A step that the Drivers do not notice: the API's, the dispatcher's, or the
\* end of a lease.
LEMMA ObserverStepKeeps ==
    ASSUME TurnsInv, [Next]_vars, Quiet,
           UNCHANGED <<bindings, answered, status, epoch, offered, tasks, queue, done,
                       submitted>>,
           posted' \in Seq(Requests), disp' \in Dispatch, faults' \in 0 .. MaxFaults,
           DeliveryIsPosted'
    PROVE  TurnsInv'
<1>1. \A q \in Requests : receipts[q].state # "none" => receipts'[q].state # "none"
  BY Zenon, LedgerMoves DEF TurnsInv, TurnsTypeOK
<1>2. OtherTypes'
  BY Zenon DEF TurnsInv, TurnsTypeOK, OtherTypes
<1>3. TaskIsPosted' /\ DownIsIdle' /\ BindingIsKnown'
  BY Zenon, <1>1 DEF TurnsInv, TaskIsPosted, DownIsIdle, BindingIsKnown
<1> QED
  BY ZenonT(30), <1>2, <1>3, CalmUnchanged, OtherStepKeeps

\* What was posted stays posted.
LEMMA DeliveryStays ==
    ASSUME TurnsInv, [Next]_vars, UNCHANGED posted, disp' \in Dispatch,
           \/ disp'.at = "idle"
           \/ disp.at # "idle" /\ disp'.request = disp.request
           \/ \E i \in DOMAIN posted : disp'.request = posted[i]
    PROVE  DeliveryIsPosted'
<1>1. \A q \in Requests : receipts[q].state # "none" => receipts'[q].state # "none"
  BY Zenon, LedgerMoves DEF TurnsInv, TurnsTypeOK
<1>2. \A i \in DOMAIN posted : posted[i] \in Requests
  BY SMTT(20) DEF TurnsInv, TurnsTypeOK
<1> QED
  BY ZenonT(30), <1>1, <1>2 DEF TurnsInv, DeliveryIsPosted

\* The faults stay within their bound.
LEMMA FaultStays ==
    ASSUME TurnsTypeOK, NEW k, Fault(k) \/ UNCHANGED faults
    PROVE  faults' \in 0 .. MaxFaults
BY SMTT(20), TurnsAssumption DEF TurnsTypeOK, Fault

\* A message that is posted.
LEMMA PostKeeps ==
    ASSUME TurnsInv, [Next]_vars, NEW r \in Requests, PostMessage(r)
    PROVE  TurnsInv'
<1>0. /\ TypeOK /\ ClaimIntegrity /\ TurnsTypeOK /\ DeliveryIsPosted
      /\ ConvOf[r] \in Conversations
      /\ \A q \in Requests : receipts[q] \in Receipt
  BY ZenonT(30), TurnsAssumption DEF TurnsInv, LedgerInv, TurnsTypeOK, TypeOK
<1>1. /\ Post(r, ConvOf[r])
      /\ UNCHANGED <<bindings, answered, disp, tasks, queue, done, status, epoch, offered,
                     submitted, faults>>
      /\ posted' \in {posted, Append(posted, r)}
  BY ZenonT(30) DEF PostMessage, driver, process
<1>2. Quiet
  BY ZenonT(30), <1>0, <1>1, QuietReceipts
<1>3. receipts'[r].state # "none"
  <2>1. /\ Accepted(ConvOf[r]).state = "accepted"
        /\ Queued(receipts[r]).state = "queued"
    BY ZenonT(30), <1>0, AcceptedReceipt, QueuedReceipt
  <2> QED
    BY ZenonT(30), <1>0, <1>1, <2>1 DEF Post, Put, TypeOK
<1>4. \A q \in Requests : receipts[q].state # "none" => receipts'[q].state # "none"
  BY Zenon, LedgerMoves DEF TurnsInv, TurnsTypeOK
<1>5. posted' \in Seq(Requests)
  <2>1. posted \in Seq(Requests)
    BY Zenon, <1>0 DEF TurnsTypeOK
  <2> QED
    BY ZenonT(30), <1>1, <2>1, Appended
<1>6. \A i \in DOMAIN posted' : posted'[i] = r \/ \E j \in DOMAIN posted : posted'[i] = posted[j]
  <2>1. posted \in Seq(Requests)
    BY Zenon, <1>0 DEF TurnsTypeOK
  <2>2. CASE posted' = posted
    BY Zenon, <2>2
  <2>3. CASE posted' = Append(posted, r)
    <3>1. /\ DOMAIN posted' = 1 .. Len(posted) + 1 /\ DOMAIN posted = 1 .. Len(posted)
          /\ \A i \in 1 .. Len(posted) : posted'[i] = posted[i]
          /\ posted'[Len(posted) + 1] = r
      BY ZenonT(30), <2>1, <2>3, Appended
    <3>2. Len(posted) \in Nat
      BY SMTT(20), <2>1
    <3>3. \A n \in Nat : \A i \in 1 .. n + 1 : i \in 1 .. n \/ i = n + 1
      BY SMTT(20)
    <3> QED
      BY ZenonT(30), <3>1, <3>2, <3>3
  <2> QED
    BY Zenon, <1>1, <2>2, <2>3
<1>7. DeliveryIsPosted'
  <2>1. \A j \in DOMAIN posted : posted[j] \in Requests
    BY SMTT(20), <1>0 DEF TurnsTypeOK
  <2> QED
    BY Zenon, <1>0, <1>1, <1>3, <1>4, <1>6, <2>1 DEF DeliveryIsPosted
<1> QED
  BY ZenonT(30), <1>0, <1>1, <1>2, <1>5, <1>7, ObserverStepKeeps DEF TurnsTypeOK

\* The API's other steps, and the clock's.
LEMMA ReceiptStepKeeps ==
    ASSUME TurnsInv, [Next]_vars,
           \/ \E r \in Requests : Backoff(r)
           \/ \E c \in Conversations : InterruptUnclaimed(c)
           \/ LeaseExpires
    PROVE  TurnsInv'
<1>0. /\ TypeOK /\ ClaimIntegrity /\ TurnsTypeOK
      /\ posted \in Seq(Requests) /\ disp \in Dispatch
  BY Zenon DEF TurnsInv, LedgerInv, TurnsTypeOK
<1>1. Quiet
  <2>1. ASSUME NEW r \in Requests, Backoff(r)
        PROVE  Quiet
    BY Zenon, <1>0, <2>1, QuietReceipts DEF Backoff
  <2>2. ASSUME NEW c \in Conversations, InterruptUnclaimed(c)
        PROVE  Quiet
    BY Zenon, <1>0, <2>2, QuietReceipts DEF InterruptUnclaimed
  <2>3. CASE LeaseExpires
    BY ZenonT(30), <1>0, <2>3, QuietLease DEF LeaseExpires, ExpireLease
  <2> QED
    BY Zenon, <2>1, <2>2, <2>3
<1>2. /\ UNCHANGED <<bindings, answered, disp, tasks, queue, done, status, epoch, offered,
                     submitted, posted>>
      /\ UNCHANGED faults \/ Fault("heartbeat")
  BY ZenonT(30) DEF Backoff, InterruptUnclaimed, LeaseExpires, driver, process
<1>3. faults' \in 0 .. MaxFaults
  BY ZenonT(30), <1>0, <1>2, FaultStays
<1>4. DeliveryIsPosted'
  <2>1. disp' \in Dispatch /\ (disp'.at = "idle" \/ (disp.at # "idle" /\ disp'.request = disp.request))
    BY ZenonT(30), <1>0, <1>2
  <2> QED
    BY ZenonT(30), <1>2, <2>1, DeliveryStays
<1> QED
  BY Zenon, <1>0, <1>1, <1>2, <1>3, <1>4, ObserverStepKeeps

\* The dispatcher's steps.
LEMMA DispatcherStepKeeps ==
    ASSUME TurnsInv, [Next]_vars,
           Take \/ ForwardFails \/ Settle \/ ConnectionLost \/ ObserverRestarts
    PROVE  TurnsInv'
<1>0. /\ TypeOK /\ ClaimIntegrity /\ TurnsTypeOK
      /\ posted \in Seq(Requests) /\ disp \in Dispatch
  BY Zenon DEF TurnsInv, LedgerInv, TurnsTypeOK
<1>1. /\ UNCHANGED <<bindings, answered, tasks, queue, done, status, epoch, offered,
                     submitted, posted>>
      /\ UNCHANGED faults \/ Fault("forward") \/ Fault("observer")
  BY Zenon DEF Take, ForwardFails, Settle, ConnectionLost, ObserverRestarts, driver, process,
         observer
<1>2. faults' \in 0 .. MaxFaults
  BY Zenon, <1>0, <1>1, FaultStays
<1>3. Quiet
  <2>1. CASE Take
    <3>1. PICK i \in DOMAIN posted : QueueReceipt(posted[i]) \/ UNCHANGED vars
      BY Zenon, <2>1 DEF Take
    <3>2. posted[i] \in Requests
      BY SMTT(20), <1>0
    <3> QED
      BY ZenonT(30), <1>0, <3>1, <3>2, QuietReceipts, QuietUnchanged
  <2>2. CASE Settle
    <3>1. disp.request \in Requests
      BY ZenonT(30), <2>2 DEF Settle, TurnsInv, DeliveryIsPosted
    <3>2. RetryReceipt(disp.request) \/ UNCHANGED vars
      BY Zenon, <2>2 DEF Settle
    <3> QED
      BY ZenonT(30), <1>0, <3>1, <3>2, QuietReceipts, QuietUnchanged
  <2>3. CASE ForwardFails \/ ConnectionLost \/ ObserverRestarts
    <3>1. UNCHANGED vars
      BY Zenon, <2>3 DEF ForwardFails, ConnectionLost, ObserverRestarts, observer, vars
    <3> QED
      BY Zenon, <3>1, QuietUnchanged
  <2> QED
    BY ZenonT(30), <2>1, <2>2, <2>3
<1>4. /\ disp' \in Dispatch
      /\ \/ disp'.at = "idle"
         \/ disp.at # "idle" /\ disp'.request = disp.request
         \/ \E i \in DOMAIN posted : disp'.request = posted[i]
  <2>1. CASE Take
    <3>1. PICK i \in DOMAIN posted :
            disp' = [Resting EXCEPT !.at = "sending", !.request = posted[i]]
      BY Zenon, <2>1 DEF Take
    <3>2. posted[i] \in Requests
      BY SMTT(20), <1>0
    <3> QED
      BY ZenonT(30), <3>1, <3>2 DEF Resting, Dispatch
  <2>2. CASE Settle \/ ObserverRestarts
    <3>1. disp' = Resting
      BY Zenon, <2>2 DEF Settle, ObserverRestarts
    <3>2. Resting \in Dispatch /\ Resting.at = "idle"
      BY Zenon DEF Resting, Dispatch
    <3> QED
      BY Zenon, <3>1, <3>2
  <2>3. CASE ForwardFails \/ ConnectionLost
    <3>1. disp' = [disp EXCEPT !.at = "error"] /\ disp.at # "idle"
      BY Zenon, <2>3 DEF ForwardFails, ConnectionLost
    <3> QED
      BY Zenon, <1>0, <3>1 DEF Dispatch
  <2> QED
    BY Zenon, <2>1, <2>2, <2>3
<1>5. DeliveryIsPosted'
  BY ZenonT(30), <1>1, <1>4, DeliveryStays
<1> QED
  BY Zenon, <1>0, <1>1, <1>2, <1>3, <1>4, <1>5, ObserverStepKeeps

\* A message reaches a Driver: an idle task becomes a claim.
LEMMA ForwardKeeps ==
    ASSUME TurnsInv, [Next]_vars, NEW d \in Drivers, Forward(d)
    PROVE  TurnsInv'
<1> DEFINE r == disp.request
<1>0. /\ TypeOK /\ TurnsTypeOK /\ disp \in Dispatch /\ status[d] = "up"
      /\ disp.at = "sending" /\ r \in Requests /\ receipts[r].state # "none"
  BY ZenonT(30) DEF Forward, TurnsInv, TurnsTypeOK, DeliveryIsPosted
<1>1. /\ UNCHANGED vars
      /\ UNCHANGED <<bindings, answered, posted, queue, done, status, epoch, offered,
                     submitted, faults>>
  BY Zenon DEF Forward, observer, process, vars
<1>2. Quiet
  BY Zenon, <1>1, QuietUnchanged
<1>3. /\ disp' \in Dispatch /\ disp'.request = r
      /\ UNCHANGED tasks \/ (/\ tasks[d][r].stage = "idle"
                             /\ tasks' = [tasks EXCEPT ![d][r].stage = "claim"])
  BY Zenon, <1>0 DEF Forward, Dispatch
<1> HIDE DEF r
<1>4. DeliveryIsPosted'
  BY ZenonT(30), <1>0, <1>1, <1>3, DeliveryStays DEF r
<1>5. CASE UNCHANGED tasks
  BY ZenonT(30), <1>1, <1>2, <1>3, <1>4, <1>5, ObserverStepKeeps DEF TurnsInv, TurnsTypeOK
<1>6. CASE tasks[d][r].stage = "idle" /\ tasks' = [tasks EXCEPT ![d][r].stage = "claim"]
  <2> DEFINE y == [tasks[d][r] EXCEPT !.stage = "claim"]
  <2>1. y \in Task /\ y.stage = "claim" /\ y.token = tasks[d][r].token
        /\ y.seen = tasks[d][r].seen
    BY ZenonT(30), <1>0, TaskOf, TaskAtStage DEF Stages
  <2>2. Moved(d, r, y)
    BY Zenon, <1>0, <1>6 DEF Moved, TurnsTypeOK
  <2> HIDE DEF y
  <2>3. \A e \in Drivers, q \in Requests :
           tasks'[e][q] = IF e = d /\ q = r THEN y ELSE tasks[e][q]
    BY ZenonT(30), <1>0, <2>2 DEF TurnsTypeOK, Moved
  <2>4. y.token = NoToken
    BY Zenon, <1>0, <1>6, <2>1 DEF TurnsInv, TaskHasToken, Claimless
  <2>5. Calm
    <3>1. y.stage \in Claimless
      BY Zenon, <2>1 DEF Claimless
    <3>2. \A e \in Drivers, q \in Requests :
             \/ tasks'[e][q] = tasks[e][q]
             \/ /\ tasks'[e][q].stage \in Claimless
                /\ tasks'[e][q].token = NoToken
                /\ tasks'[e][q].seen \in {tasks[e][q].seen, NoBinding}
      BY Zenon, <2>1, <2>3, <2>4, <3>1
    <3>3. tasks[d][r].stage # "queued"
      BY Zenon, <1>6
    <3>4. \A e \in Drivers, q \in Requests :
             tasks[e][q].stage = "queued" => tasks'[e][q] = tasks[e][q]
      BY Zenon, <2>3, <3>3
    <3> QED
      BY Zenon, <1>1, <3>2, <3>4 DEF Calm
  <2>6. OtherTypes'
    <3>1. tasks' \in [Drivers -> [Requests -> Task]]
      BY ZenonT(30), <1>0, <2>1, <2>2 DEF Moved, TurnsTypeOK
    <3> QED
      BY ZenonT(30), <1>0, <1>1, <1>3, <3>1 DEF OtherTypes, TurnsTypeOK
  <2>7. TaskIsPosted'
    BY ZenonT(30), <1>0, <1>1, <2>3 DEF TurnsInv, TaskIsPosted, vars
  <2>8. DownIsIdle'
    <3> SUFFICES ASSUME NEW e \in Drivers, NEW q \in Requests, status'[e] # "up"
                 PROVE  tasks'[e][q].stage = "idle"
      BY Zenon DEF DownIsIdle
    <3>1. e # d /\ status[e] # "up"
      BY Zenon, <1>0, <1>1
    <3>2. tasks[e][q].stage = "idle"
      BY Zenon, <3>1 DEF TurnsInv, DownIsIdle
    <3> QED
      BY Zenon, <2>3, <3>1, <3>2
  <2>9. BindingIsKnown'
    <3>1. y.stage # "recover"
      BY Zenon, <2>1
    <3>2. BindingIsKnown
      BY Zenon DEF TurnsInv
    <3>3. ASSUME NEW e \in Drivers, NEW q \in Requests
          PROVE  /\ tasks'[e][q].seen = tasks[e][q].seen
                 /\ tasks'[e][q].stage = "recover" => tasks[e][q].stage = "recover"
      <4>1. CASE e = d /\ q = r
        BY Zenon, <2>1, <2>3, <3>1, <4>1
      <4>2. CASE ~ (e = d /\ q = r)
        BY Zenon, <2>3, <4>2
      <4> QED
        BY Zenon, <4>1, <4>2
    <3>4. ASSUME NEW c \in Conversations, bindings'[c].turn # "idle"
          PROVE  bindings'[c].active \in Requests
      <4>1. bindings'[c] = bindings[c]
        BY Zenon, <1>1
      <4> QED
        BY Zenon, <3>2, <3>4, <4>1 DEF BindingIsKnown
    <3>5. ASSUME NEW e \in Drivers, NEW q \in Requests
          PROVE  /\ tasks'[e][q].seen.turn # "idle"
                      => tasks'[e][q].seen.active \in Requests
                 /\ tasks'[e][q].stage = "recover"
                      => tasks'[e][q].seen.turn = "recovery_pending"
      <4>1. /\ tasks[e][q].seen.turn # "idle" => tasks[e][q].seen.active \in Requests
            /\ tasks[e][q].stage = "recover"
                 => tasks[e][q].seen.turn = "recovery_pending"
        BY Zenon, <3>2 DEF BindingIsKnown
      <4> QED
        BY Zenon, <3>3, <4>1
    <3> QED
      BY Zenon, <3>4, <3>5 DEF BindingIsKnown
  <2> QED
    BY ZenonT(30), <1>2, <1>4, <2>5, <2>6, <2>7, <2>8, <2>9, OtherStepKeeps
<1> QED
  BY ZenonT(30), <1>3, <1>5, <1>6

\* A Driver starts, registers and learns its epoch.
LEMMA ProcessStepKeeps ==
    ASSUME TurnsInv, [Next]_vars, NEW d \in Drivers,
           StartDriver(d) \/ RegisterDriver(d) \/ LearnEpoch(d)
    PROVE  TurnsInv'
<1>0. /\ TypeOK /\ TurnsTypeOK /\ disp \in Dispatch /\ TypeOK' /\ BindingIsKnown
  BY Zenon, TypeStep DEF TurnsInv, TurnsTypeOK
<1>1. /\ UNCHANGED <<answered, posted, disp, tasks, queue, done, submitted>>
      /\ UNCHANGED faults \/ Fault("second") \/ Fault("heartbeat")
      /\ status' = status \/ status' = [status EXCEPT ![d] = "up"]
      /\ epoch' = epoch \/ epoch' = [epoch EXCEPT ![d] = offered[d]]
      /\ \/ offered' \in {offered, [offered EXCEPT ![d] = 0]}
         \/ offered' = [offered EXCEPT ![d] = lease'.epoch]
  BY Zenon DEF StartDriver, RegisterDriver, LearnEpoch, observer, driver, process
<1>2. Quiet \/ Register(d)
  <2>1. CASE StartDriver(d) \/ LearnEpoch(d)
    <3>1. UNCHANGED vars
      BY ZenonT(30), <2>1 DEF StartDriver, LearnEpoch, observer, vars
    <3> QED
      BY ZenonT(30), <3>1, QuietUnchanged
  <2>2. CASE RegisterDriver(d)
    BY ZenonT(30), <2>2 DEF RegisterDriver
  <2> QED
    BY Zenon, <2>1, <2>2
<1>3. /\ bindings' \in [Conversations -> Binding]
      /\ \A c \in Conversations :
            bindings'[c].turn # "idle" => bindings'[c].active \in Requests
  <2>1. CASE StartDriver(d) \/ LearnEpoch(d)
    BY ZenonT(30), <1>0, <2>1 DEF StartDriver, LearnEpoch, observer, TurnsTypeOK, BindingIsKnown
  <2>2. CASE RegisterDriver(d)
    <3> DEFINE P(b) == [b EXCEPT !.turn = "recovery_pending"]
    <3>1. \A b \in Binding : P(b) \in Binding /\ P(b).active = b.active
      BY Zenon DEF Binding, TurnStates
    <3>2. \A c \in Conversations :
             /\ bindings[c] \in Binding
             /\ bindings[c].turn # "idle" => bindings[c].active \in Requests
      BY Zenon, <1>0 DEF TurnsTypeOK, BindingIsKnown
    <3>3. bindings' = [c \in Conversations |->
                          IF bindings[c].turn \in {"starting", "in_progress"}
                          THEN P(bindings[c]) ELSE bindings[c]]
      BY Zenon, <2>2 DEF RegisterDriver
    <3> HIDE DEF P
    <3> QED
      BY ZenonT(30), <3>1, <3>2, <3>3
  <2> QED
    BY Zenon, <2>1, <2>2
<1>4. OtherTypes'
  <2>1. lease'.epoch \in Nat
    BY Zenon, <1>0 DEF TypeOK
  <2>2. faults' \in 0 .. MaxFaults
    BY ZenonT(30), <1>0, <1>1, FaultStays
  <2>3. /\ status' \in [Drivers -> {"up", "down"}]
        /\ epoch' \in [Drivers -> Nat] /\ offered' \in [Drivers -> Nat]
    <3>1. /\ status \in [Drivers -> {"up", "down"}]
          /\ epoch \in [Drivers -> Nat] /\ offered \in [Drivers -> Nat]
      BY ZenonT(30), <1>0 DEF TurnsTypeOK
    <3>2. offered' \in [Drivers -> Nat]
      BY SMTT(20), <1>1, <2>1, <3>1
    <3>3. epoch' \in [Drivers -> Nat]
      <4>1. offered[d] \in Nat
        BY Zenon, <3>1
      <4> QED
        BY Zenon, <1>1, <3>1, <4>1
    <3> QED
      BY ZenonT(30), <1>1, <3>1, <3>2, <3>3
  <2> QED
    BY ZenonT(30), <1>0, <1>1, <1>3, <2>2, <2>3 DEF TurnsTypeOK, OtherTypes
<1>5. DeliveryIsPosted'
  BY ZenonT(30), <1>0, <1>1, DeliveryStays
<1>6. TaskIsPosted'
  <2>1. \A q \in Requests : receipts[q].state # "none" => receipts'[q].state # "none"
    BY ZenonT(30), LedgerMoves DEF TurnsInv, TurnsTypeOK
  <2> QED
    BY Zenon, <1>1, <2>1 DEF TurnsInv, TaskIsPosted
<1>7. DownIsIdle'
  BY ZenonT(30), <1>0, <1>1 DEF TurnsInv, DownIsIdle, TurnsTypeOK
<1>8. BindingIsKnown'
  BY ZenonT(30), <1>0, <1>1, <1>3 DEF BindingIsKnown
<1> QED
  BY Zenon, <1>1, <1>2, <1>4, <1>5, <1>6, <1>7, <1>8, CalmUnchanged, OtherStepKeeps

\* A Driver stops or crashes: its turns are forgotten.
LEMMA ForgetKeeps ==
    ASSUME TurnsInv, [Next]_vars, NEW d \in Drivers, StopDriver(d) \/ CrashDriver(d)
    PROVE  TurnsInv'
<1>0. TypeOK /\ TurnsTypeOK /\ disp \in Dispatch
  BY Zenon DEF TurnsInv, TurnsTypeOK
<1>1. /\ Forget(d)
      /\ UNCHANGED <<bindings, answered, posted, submitted>>
      /\ Fault("stop") \/ Fault("crash")
      /\ \/ UNCHANGED disp
         \/ disp.at = "driver" /\ disp' = [disp EXCEPT !.at = "error"]
  BY Zenon DEF StopDriver, CrashDriver, observer
<1>2. Quiet
  <2>1. CASE StopDriver(d)
    BY ZenonT(30), <1>0, <2>1, QuietLease, QuietUnchanged DEF StopDriver, ReleaseLease
  <2>2. CASE CrashDriver(d)
    <3>1. UNCHANGED vars
      BY Zenon, <2>2 DEF CrashDriver, observer, vars
    <3> QED
      BY Zenon, <3>1, QuietUnchanged
  <2> QED
    BY Zenon, <2>1, <2>2
<1>3. /\ \A e \in Drivers, q \in Requests :
            tasks'[e][q] = IF e = d THEN Idle ELSE tasks[e][q]
      /\ \A e \in Drivers : queue'[e] = IF e = d THEN <<>> ELSE queue[e]
      /\ \A e \in Drivers : status'[e] = IF e = d THEN "down" ELSE status[e]
  BY ZenonT(30), <1>0, <1>1 DEF Forget, TurnsTypeOK
<1>4. Calm
  <2>1. "idle" \in Claimless
    BY Zenon DEF Claimless
  <2> QED
    BY SMTT(20), <1>1, <1>3, <2>1, IdleTask DEF Calm
<1>5. /\ disp' \in Dispatch
      /\ disp'.at = "idle" \/ (disp.at # "idle" /\ disp'.request = disp.request)
  BY Zenon, <1>0, <1>1 DEF Dispatch
<1>6. OtherTypes'
  <2>1. faults' \in 0 .. MaxFaults
    BY ZenonT(30), <1>0, <1>1, FaultStays
  <2>2. /\ status' \in [Drivers -> {"up", "down"}]
        /\ epoch' \in [Drivers -> Nat] /\ offered' \in [Drivers -> Nat]
    BY ZenonT(30), <1>0, <1>1 DEF TurnsTypeOK, Forget
  <2>3. tasks' \in [Drivers -> [Requests -> Task]]
    BY ZenonT(30), <1>0, <1>1, IdleTask DEF TurnsTypeOK, Forget
  <2>4. /\ queue' \in [Drivers -> Seq(Requests)]
        /\ done' \in [Drivers -> SUBSET Requests]
    BY SMTT(20), <1>0, <1>1 DEF TurnsTypeOK, Forget
  <2> QED
    BY Zenon, <1>0, <1>1, <1>5, <2>1, <2>2, <2>3, <2>4 DEF TurnsTypeOK, OtherTypes
<1>7. DeliveryIsPosted'
  BY Zenon, <1>1, <1>5, DeliveryStays
<1>8. TaskIsPosted'
  <2>1. \A q \in Requests : receipts[q].state # "none" => receipts'[q].state # "none"
    BY ZenonT(30), LedgerMoves DEF TurnsInv, TurnsTypeOK
  <2> QED
    BY SMTT(20), <1>3, <2>1, IdleTask DEF TurnsInv, TaskIsPosted
<1>9. DownIsIdle'
  <2> SUFFICES ASSUME NEW e \in Drivers, NEW q \in Requests, status'[e] # "up"
               PROVE  tasks'[e][q].stage = "idle"
    BY Zenon DEF DownIsIdle
  <2>1. CASE e = d
    BY Zenon, <1>3, <2>1, IdleTask
  <2>2. CASE e # d
    <3>1. status[e] # "up" /\ tasks'[e][q] = tasks[e][q]
      BY Zenon, <1>3, <2>2
    <3> QED
      BY Zenon, <3>1 DEF TurnsInv, DownIsIdle
  <2> QED
    BY Zenon, <2>1, <2>2
<1>10. BindingIsKnown'
  <2>1. Idle.seen.turn = "idle" /\ Idle.stage # "recover"
    BY Zenon DEF Idle, NoBinding
  <2> QED
    BY SMTT(20), <1>1, <1>3, <2>1 DEF TurnsInv, BindingIsKnown
<1> QED
  BY ZenonT(30), <1>2, <1>4, <1>6, <1>7, <1>8, <1>9, <1>10, OtherStepKeeps

-----------------------------------------------------------------------------
(* The invariant, and what follows from it *)

\* At first no message is posted, and no Driver runs.
LEMMA TurnsInvInit == TurnsInit => TurnsInv
<1> SUFFICES ASSUME TurnsInit
             PROVE  TurnsInv
  BY Zenon
<1>1. LedgerInv /\ TypeOK /\ lease.epoch = 0 /\ lease.holder = NoDriver
      /\ \A r \in Requests : receipts[r].state # "completed"
  BY Zenon, LedgerInit DEF TurnsInit, Init, LedgerInv, Absent
<1>2. \A d \in Drivers, r \in Requests : tasks[d][r] = Idle
  BY Zenon DEF TurnsInit
<1>3. Resting \in Dispatch /\ Resting.at = "idle"
  BY Zenon DEF Resting, Dispatch
<1>4. \A d \in Drivers : queue[d] = <<>>
  BY Zenon DEF TurnsInit
<1>5. \A c \in Conversations : bindings[c] = NoBinding
  BY Zenon DEF TurnsInit
<1>6. TurnsTypeOK
  BY SMTT(20), <1>1, <1>3, IdleTask, TurnsAssumption DEF TurnsInit, TurnsTypeOK
<1>7. LeaseIsIssued
  BY SMTT(20), <1>1, LedgerAssumption DEF LeaseIsIssued
<1>8. DeliveryIsPosted
  <2>1. disp = Resting /\ posted = <<>>
    BY Zenon DEF TurnsInit
  <2>2. \A i : i \notin DOMAIN posted
    BY SMTT(20), <2>1
  <2> QED
    BY Zenon, <1>3, <2>1, <2>2 DEF DeliveryIsPosted
<1>9. TaskIsPosted /\ DownIsIdle /\ TokensAreApart
  BY ZenonT(30), <1>2, IdleTask DEF TaskIsPosted, DownIsIdle, TokensAreApart
<1>10. QueueIsQueued
  BY SMTT(20), <1>4 DEF QueueIsQueued
<1>11. TaskHasToken
  BY ZenonT(30), <1>2, IdleTask DEF TaskHasToken, Claimless
<1>12. StartedIsSubmitted /\ LaneIsExclusive
  BY ZenonT(30), <1>2, IdleTask DEF StartedIsSubmitted, Started, LaneIsExclusive, Running
<1>13. BindingIsKnown
  <2>1. NoBinding.turn = "idle"
    BY Zenon DEF NoBinding
  <2> QED
    BY ZenonT(30), <1>2, <1>5, <2>1, IdleTask DEF BindingIsKnown
<1>14. TurnHoldsClaim
  BY ZenonT(30), <1>2, IdleTask DEF TurnHoldsClaim
<1>15. CompletedHadTurn
  BY ZenonT(30), <1>1 DEF CompletedHadTurn
<1> QED
  BY Zenon, <1>1, <1>6, <1>7, <1>8, <1>9, <1>10, <1>11, <1>12, <1>13, <1>14, <1>15
  DEF TurnsInv

\* A step of none of the processes.
LEMMA TurnsInvStutters ==
    ASSUME TurnsInv, UNCHANGED turnVars
    PROVE  TurnsInv'
<1>1. UNCHANGED <<bindings, answered, status, epoch, offered, tasks, queue, done,
                  submitted, posted, disp, faults>>
  BY Zenon DEF turnVars, observer, driver, process
<1>2. UNCHANGED vars
  BY Zenon DEF turnVars, observer, vars
<1>3. Quiet /\ [Next]_vars
  BY ZenonT(30), <1>2, QuietUnchanged
<1>4. DeliveryIsPosted'
  BY ZenonT(30), <1>1, <1>2 DEF TurnsInv, DeliveryIsPosted, vars
<1> QED
  BY ZenonT(30), <1>1, <1>3, <1>4, ObserverStepKeeps DEF TurnsInv, TurnsTypeOK

\* Every step of the Observer, the dispatcher and the Drivers keeps the
\* invariant.
LEMMA TurnsInvStep ==
    ASSUME TurnsInv, [TurnsNext]_turnVars
    PROVE  TurnsInv'
<1>0. [Next]_vars
  BY Zenon, LedgerStep
<1>1. ASSUME NEW r \in Requests, PostMessage(r)
      PROVE  TurnsInv'
  BY Zenon, <1>0, <1>1, PostKeeps
<1>2. CASE \/ \E r \in Requests : Backoff(r)
           \/ \E c \in Conversations : InterruptUnclaimed(c)
           \/ LeaseExpires
  BY Zenon, <1>0, <1>2, ReceiptStepKeeps
<1>3. CASE Take \/ ForwardFails \/ Settle \/ ConnectionLost \/ ObserverRestarts
  BY ZenonT(30), <1>0, <1>3, DispatcherStepKeeps
<1>4. ASSUME NEW d \in Drivers, Forward(d)
      PROVE  TurnsInv'
  BY Zenon, <1>0, <1>4, ForwardKeeps
<1>5. ASSUME NEW d \in Drivers, StartDriver(d) \/ RegisterDriver(d) \/ LearnEpoch(d)
      PROVE  TurnsInv'
  BY ZenonT(30), <1>0, <1>5, ProcessStepKeeps
<1>6. ASSUME NEW d \in Drivers, StopDriver(d) \/ CrashDriver(d)
      PROVE  TurnsInv'
  BY ZenonT(30), <1>0, <1>6, ForgetKeeps
<1>7. ASSUME NEW d \in Drivers, NEW r \in Requests,
             TurnStep(d, r) \/ InterruptActive(d, r) \/ InterruptPending(d, r)
      PROVE  TurnsInv'
  BY ZenonT(30), <1>0, <1>7, TurnStepKeeps
<1>8. CASE UNCHANGED turnVars
  BY Zenon, <1>8, TurnsInvStutters
<1> QED
  BY ZenonT(30), <1>1, <1>2, <1>3, <1>4, <1>5, <1>6, <1>7, <1>8 DEF TurnsNext, DispatcherStep

\* The claims, the queues, the lane and the turns of the Drivers stay as the
\* coordinator and the Observer expect them, for any number of Drivers,
\* messages and faults.
THEOREM TurnsInvariant == TurnsSpec => []TurnsInv
<1>1. TurnsInit => TurnsInv
  BY Zenon, TurnsInvInit
<1>2. TurnsInv /\ [TurnsNext]_turnVars => TurnsInv'
  BY Zenon, TurnsInvStep
<1> QED
  BY <1>1, <1>2, PTL DEF TurnsSpec

\* The ledger, the bindings, the lanes and the tasks always have their types.
THEOREM TurnsTypeCorrect == TurnsSpec => []TurnsTypeOK
<1>1. TurnsInv => TurnsTypeOK
  BY Zenon DEF TurnsInv
<1> QED
  BY <1>1, TurnsInvariant, PTL

\* Whatever the dispatcher, the Drivers and their turns do, crash and lose,
\* the ledger takes only its own steps, each under its own guard.
THEOREM TurnsImplementLedger == TurnsSpec => LedgerSpec
<1>1. TurnsInit => Init
  BY Zenon DEF TurnsInit
<1>2. TurnsInv /\ [TurnsNext]_turnVars => [Next]_vars
  BY Zenon, LedgerStep
<1> QED
  BY <1>1, <1>2, TurnsInvariant, PTL DEF TurnsSpec, LedgerSpec, Spec

\* Between its claim and its report a turn keeps its claim, unless the
\* Observer has handed out a new epoch.
THEOREM TurnsHoldTheirClaims == TurnsSpec => []TurnHoldsClaim
<1>1. TurnsInv => TurnHoldsClaim
  BY ZenonT(30) DEF TurnsInv
<1> QED
  BY <1>1, TurnsInvariant, PTL

\* No early return, retry or recovery of _run_prompt_remote reports a message
\* as completed that never went to Codex.
THEOREM CompletedMessagesHadTurns == TurnsSpec => []CompletedHadTurn
<1>1. TurnsInv => CompletedHadTurn
  BY ZenonT(30) DEF TurnsInv
<1> QED
  BY <1>1, TurnsInvariant, PTL

-----------------------------------------------------------------------------
(* A single-Driver deployment *)

\* In a single-Driver deployment no second Driver is up.
OneUp == \A d, e \in Drivers : status[d] = "up" /\ status[e] = "up" => d = e

\* r is the only request of its conversation.
Alone(r) ==
    \A q \in Requests \ {r} : ConvOf[q] = ConvOf[r] => receipts[q].state = "none"

\* The binding of a conversation with a single request remembers whether that
\* was marked as starting, and every turn that has not come that far knows it.
Remembered(r) ==
    LET b == bindings[ConvOf[r]] IN
    /\ b.active \in {NoRequest, r}
    /\ submitted[r] <= 1
    /\ submitted[r] > 0 => b.active = r
    /\ <<ConvOf[r], "starting", r>> \in answered => b.active = r
    /\ \A d \in Drivers :
          /\ tasks[d][r].stage \in {"begin", "bind", "recover", "starting"} =>
                b.active = NoRequest /\ tasks[d][r].seen.active = NoRequest
          /\ tasks[d][r].stage = "send" => b.active = r /\ submitted[r] = 0

AloneIsRemembered == \A r \in Requests : Alone(r) => Remembered(r)

\* What is not about the conversation of r does not disturb its binding.
LEMMA RememberedStays ==
    ASSUME NEW r \in Requests, Remembered(r),
           bindings'[ConvOf[r]].active = bindings[ConvOf[r]].active,
           submitted'[r] = submitted[r],
           <<ConvOf[r], "starting", r>> \in answered'
               => <<ConvOf[r], "starting", r>> \in answered,
           \A d \in Drivers : tasks'[d][r].stage \in Early =>
               /\ tasks'[d][r].stage = tasks[d][r].stage
               /\ tasks'[d][r].seen.active = tasks[d][r].seen.active
    PROVE  Remembered(r)'
BY ZenonT(30) DEF Remembered, Early

\* The turn of r itself: it goes early only where the binding does not know
\* r, marks it before turn/start, and never sends turn/start again.
LEMMA CourseRemembers ==
    ASSUME TurnsTypeOK, BindingIsKnown, NEW d \in Drivers, NEW r \in Requests,
           Course(d, r), Remembered(r),
           \A e \in Drivers \ {d} : tasks'[e][r].stage = "idle"
    PROVE  Remembered(r)'
<1> DEFINE c == ConvOf[r]
           b == bindings[c].active
           w == bindings'[c].active
           n == submitted[r]
           m == submitted'[r]
           x == tasks[d][r]
           y == tasks'[d][r]
           marked == <<c, "starting", r>> \in answered
<1>0. /\ c \in Conversations /\ n \in Nat /\ NoRequest # r /\ bindings[c] \in Binding
      /\ submitted \in [Requests -> Nat] /\ bindings \in [Conversations -> Binding]
  BY ZenonT(30), TurnsAssumption, LedgerAssumption DEF TurnsTypeOK
<1>1. /\ b \in {NoRequest, r} /\ n <= 1
      /\ n > 0 => b = r
      /\ marked => b = r
      /\ x.stage \in {"begin", "bind", "recover", "starting"} =>
            b = NoRequest /\ x.seen.active = NoRequest
      /\ x.stage = "send" => b = r /\ n = 0
  BY ZenonT(30) DEF Remembered
<1>2. SUFFICES
        /\ w \in {NoRequest, r} /\ m <= 1
        /\ m > 0 => w = r
        /\ marked' => w = r
        /\ y.stage \in {"begin", "bind", "recover", "starting"} =>
              w = NoRequest /\ y.seen.active = NoRequest
        /\ y.stage = "send" => w = r /\ m = 0
  BY ZenonT(30), <1>2 DEF Remembered
<1>3. CASE Passes(d, r)
  <2>1. w = b /\ m = n /\ marked' = marked
    BY ZenonT(30), <1>3 DEF Passes, Unmarked
  <2>2. \/ y.stage \notin Early
        \/ /\ y.stage = x.stage \/ x.stage = "begin"
           /\ y.stage = "send" => x.stage = "send"
           /\ y.seen = x.seen
    BY ZenonT(30), <1>3 DEF Passes
  <2> HIDE DEF b, w, n, m, x, y, marked
  <2> QED
    BY ZenonT(30), <1>1, <2>1, <2>2 DEF Early
<1>4. CASE Looks(d, r)
  <2>1. w = b /\ m = n /\ marked' = marked
    BY ZenonT(30), <1>4 DEF Looks, Unmarked
  <2>2. b # r /\ y.stage = "begin" /\ y.seen.active = b
    BY ZenonT(30), <1>4 DEF Looks
  <2> HIDE DEF b, w, n, m, x, y, marked
  <2> QED
    BY ZenonT(30), <1>1, <2>1, <2>2
<1>5. CASE Binds(d, r)
  <2>1. m = n /\ marked' = marked
    BY Zenon, <1>5 DEF Binds
  <2>2. w = NoRequest
    <3>1. [NoBinding EXCEPT !.thread = "bound"].active = NoRequest
      BY Zenon DEF NoBinding
    <3> QED
      BY ZenonT(30), <1>0, <1>5, <3>1 DEF Binds
  <2>3. /\ x.stage = "bind"
        /\ \/ y.stage \notin Early
           \/ y.stage = "starting" /\ y.seen = x.seen
    BY ZenonT(30), <1>5 DEF Binds
  <2> HIDE DEF b, w, n, m, x, y, marked
  <2> QED
    BY ZenonT(30), <1>0, <1>1, <2>1, <2>2, <2>3 DEF Early
<1>6. CASE Recovers(d, r)
  <2>1. x.stage = "recover"
    BY Zenon, <1>6 DEF Recovers
  <2>2. x.seen.active \in Requests
    BY ZenonT(30), <2>1 DEF BindingIsKnown
  <2> QED
    BY ZenonT(30), <1>1, <2>1, <2>2, LedgerAssumption
<1>7. ASSUME NEW s \in TurnStates, Marks(r, s, r)
      PROVE  w = r /\ m = n
  <2>1. bindings'[c] = Marked(bindings[c], s, r)
    BY ZenonT(30), <1>0, <1>7 DEF Marks
  <2>2. Marked(bindings[c], s, r).active = r
    BY SMTT(20), <1>0, MarkedBinding
  <2> QED
    BY ZenonT(30), <1>7, <2>1, <2>2 DEF Marks
<1>8. CASE Begins(d, r)
  <2>1. x.stage = "starting" /\ y.stage \notin Early \ {"send"}
    BY Zenon, <1>8 DEF Begins
  <2>2. b = NoRequest /\ n = 0 /\ ~marked
    <3> HIDE DEF b, n, x, marked
    <3>1. b = NoRequest /\ ~(n > 0) /\ ~marked
      BY Zenon, <1>0, <1>1, <2>1
    <3>2. n = 0
      BY SMTT(20), <1>0, <3>1
    <3> QED
      BY Zenon, <3>1, <3>2
  <2>3. Marks(r, "starting", r)
    BY Zenon, <1>8, <2>2 DEF Begins
  <2>4. w = r /\ m = n
    BY Zenon, <1>7, <2>3 DEF TurnStates
  <2> HIDE DEF b, w, n, m, x, y, marked
  <2>5. m = 0 /\ m <= 1
    BY SMTT(20), <2>2, <2>4
  <2>6. y.stage \notin {"begin", "bind", "recover", "starting"}
    BY Zenon, <2>1 DEF Early
  <2> QED
    BY ZenonT(30), <2>4, <2>5, <2>6
<1>9. CASE Sends(d, r)
  <2>1. x.stage = "send" /\ y.stage = "events" /\ w = b /\ marked' = marked
    BY Zenon, <1>9 DEF Sends
  <2>2. m = n + 1
    BY ZenonT(30), <1>0, <1>9 DEF Sends, Submits
  <2> HIDE DEF b, w, n, m, x, y, marked
  <2> QED
    BY SMTT(20), <1>0, <1>1, <2>1, <2>2
<1>10. CASE Runs(d, r)
  <2>1. x.stage \in Started /\ y.stage \notin Early
    BY Zenon, <1>10 DEF Runs
  <2>2. PICK s \in TurnStates : Marks(r, s, r)
    BY Zenon, <1>10 DEF Runs
  <2>3. w = r /\ m = n
    BY ZenonT(30), <1>7, <2>2
  <2> HIDE DEF b, w, n, m, x, y, marked
  <2> QED
    BY ZenonT(30), <1>0, <1>1, <2>1, <2>3 DEF Early
<1> QED
  BY ZenonT(30), <1>3, <1>4, <1>5, <1>6, <1>8, <1>9, <1>10 DEF Course

\* The steps of nobody's turn.
LEMMA OthersRemember ==
    ASSUME TurnsTypeOK, NEW r \in Requests, Remembered(r),
           \/ \E q \in Requests : PostMessage(q) \/ Backoff(q)
           \/ \E c \in Conversations : InterruptUnclaimed(c)
           \/ Take \/ ForwardFails \/ Settle \/ ConnectionLost \/ ObserverRestarts
           \/ LeaseExpires \/ UNCHANGED turnVars
           \/ \E d \in Drivers : \/ Forward(d) \/ StartDriver(d) \/ LearnEpoch(d)
                                 \/ RegisterDriver(d) \/ StopDriver(d) \/ CrashDriver(d)
    PROVE  Remembered(r)'
<1> DEFINE Kept == UNCHANGED <<bindings, answered, submitted>>
           Task1(e) == \/ tasks'[e][r] = tasks[e][r]
                       \/ tasks'[e][r].stage \in Claimless
<1>0. ConvOf[r] \in Conversations
  BY Zenon, TurnsAssumption
<1>k. ASSUME Kept, \A e \in Drivers : Task1(e)
      PROVE  Remembered(r)'
  <2>1. Claimless \cap Early = {}
    BY Zenon DEF Claimless, Early
  <2> QED
    BY ZenonT(30), <1>k, <2>1, RememberedStays
<1>1. ASSUME NEW q \in Requests, PostMessage(q) \/ Backoff(q)
      PROVE  Remembered(r)'
  <2>1. Kept /\ UNCHANGED tasks
    BY ZenonT(30), <1>1 DEF PostMessage, Backoff, driver
  <2> QED
    BY Zenon, <1>k, <2>1
<1>2. ASSUME NEW c \in Conversations, InterruptUnclaimed(c)
      PROVE  Remembered(r)'
  BY Zenon, <1>2, <1>k DEF InterruptUnclaimed, driver
<1>3. CASE Take \/ Settle \/ LeaseExpires
  <2>1. Kept /\ UNCHANGED tasks
    BY ZenonT(30), <1>3 DEF Take, Settle, LeaseExpires, driver
  <2> QED
    BY Zenon, <1>k, <2>1
<1>4. CASE ForwardFails \/ ConnectionLost \/ ObserverRestarts \/ UNCHANGED turnVars
  <2>1. Kept /\ UNCHANGED tasks
    BY Zenon, <1>4 DEF ForwardFails, ConnectionLost, ObserverRestarts, turnVars, observer, driver
  <2> QED
    BY Zenon, <1>k, <2>1
<1>5. ASSUME NEW d \in Drivers, StartDriver(d) \/ LearnEpoch(d)
      PROVE  Remembered(r)'
  <2>1. Kept /\ UNCHANGED tasks
    BY Zenon, <1>5 DEF StartDriver, LearnEpoch, observer, driver
  <2> QED
    BY ZenonT(30), <1>k, <2>1
<1>6. ASSUME NEW d \in Drivers, Forward(d)
      PROVE  Remembered(r)'
  <2> DEFINE q == disp.request
             y == [tasks[d][q] EXCEPT !.stage = "claim"]
  <2>1. Kept /\ (UNCHANGED tasks \/ tasks' = [tasks EXCEPT ![d][q].stage = "claim"])
    BY Zenon, <1>6 DEF Forward, observer
  <2>2. CASE UNCHANGED tasks
    BY ZenonT(30), <1>k, <2>1, <2>2
  <2>3. CASE tasks' = [tasks EXCEPT ![d][q].stage = "claim"]
    <3>1. \A e \in Drivers : tasks'[e][r] = IF e = d /\ r = q THEN y ELSE tasks[e][r]
      BY Zenon, <2>3 DEF TurnsTypeOK
    <3>2. r = q => y.stage = "claim"
      <4>1. r = q => tasks[d][q] \in Task
        BY ZenonT(30), TaskOf
      <4>2. "claim" \in Stages
        BY Zenon DEF Stages
      <4> QED
        BY ZenonT(30), <4>1, <4>2, TaskAtStage
    <3> HIDE DEF y
    <3> QED
      BY ZenonT(30), <1>k, <2>1, <3>1, <3>2 DEF Claimless
  <2> QED
    BY ZenonT(30), <2>1, <2>2, <2>3
<1>7. ASSUME NEW d \in Drivers, RegisterDriver(d)
      PROVE  Remembered(r)'
  <2>1. UNCHANGED <<answered, submitted, tasks>>
    BY ZenonT(30), <1>7 DEF RegisterDriver, driver
  <2>2. \/ bindings'[ConvOf[r]] = bindings[ConvOf[r]]
        \/ bindings'[ConvOf[r]] = [bindings[ConvOf[r]] EXCEPT !.turn = "recovery_pending"]
    BY Zenon, <1>0, <1>7 DEF RegisterDriver
  <2>3. bindings[ConvOf[r]] \in Binding
    BY ZenonT(30), <1>0 DEF TurnsTypeOK
  <2>4. bindings'[ConvOf[r]].active = bindings[ConvOf[r]].active
    BY Zenon, <2>2, <2>3 DEF Binding
  <2> QED
    BY ZenonT(30), <2>1, <2>4, RememberedStays
<1>8. ASSUME NEW d \in Drivers, StopDriver(d) \/ CrashDriver(d)
      PROVE  Remembered(r)'
  <2>1. Kept /\ Forget(d)
    BY Zenon, <1>8 DEF StopDriver, CrashDriver, observer
  <2>2. \A e \in Drivers : tasks'[e][r] = IF e = d THEN Idle ELSE tasks[e][r]
    BY ZenonT(30), <2>1 DEF Forget, TurnsTypeOK
  <2> QED
    BY ZenonT(30), <1>k, <2>1, <2>2, IdleTask DEF Claimless
<1> QED
  BY ZenonT(30), <1>1, <1>2, <1>3, <1>4, <1>5, <1>6, <1>7, <1>8

\* The steps of a turn: only the one Driver that is up has turns, and only of
\* r in the conversation of r.
LEMMA TurnStepRemembers ==
    ASSUME TurnsInv, [Next]_vars, OneUp, NEW r \in Requests, Alone(r), Remembered(r),
           NEW d \in Drivers, NEW q \in Requests,
           TurnStep(d, q) \/ InterruptActive(d, q) \/ InterruptPending(d, q)
    PROVE  Remembered(r)'
<1>0. /\ TurnsTypeOK /\ QueueIsQueued /\ TaskIsPosted /\ DownIsIdle /\ BindingIsKnown
  BY Zenon DEF TurnsInv
<1>1. Course(d, q)
  BY ZenonT(30), <1>0, TurnStepCourse
<1>2. Moves(d, q)
  BY Zenon, TurnStepMoves DEF TurnsInv
<1>3. tasks[d][q].stage # "idle"
  BY Zenon, <1>2 DEF Moves, Claims, Leaves, Waits, Enters, Advances, Running
<1>4. PICK y : Moved(d, q, y)
  BY ZenonT(30), <1>2 DEF Moves, Claims, Leaves, Waits, Enters, Advances
<1>p. \A e \in Drivers, p \in Requests :
         tasks'[e][p] = IF e = d /\ p = q THEN y ELSE tasks[e][p]
  BY Zenon, <1>0, <1>4 DEF TurnsTypeOK, Moved
<1>5. \A e \in Drivers : tasks'[e][r] = IF e = d /\ r = q THEN y ELSE tasks[e][r]
  BY Zenon, <1>p
<1>6. CASE q = r
  <2>1. \A e \in Drivers \ {d} : tasks[e][r].stage = "idle"
    BY ZenonT(30), <1>0, <1>3, <1>6 DEF DownIsIdle, OneUp
  <2>2. \A e \in Drivers \ {d} : tasks'[e][r].stage = "idle"
    BY Zenon, <1>5, <2>1
  <2> QED
    BY Zenon, <1>0, <1>1, <1>6, <2>2, CourseRemembers
<1>7. CASE q # r
  <2>1. receipts[q].state # "none"
    BY Zenon, <1>0, <1>3 DEF TaskIsPosted
  <2>2. ConvOf[q] # ConvOf[r]
    BY Zenon, <1>7, <2>1 DEF Alone
  <2>3. \A e \in Drivers : tasks'[e][r] = tasks[e][r]
    BY ZenonT(30), <1>5, <1>7
  <2>4. /\ bindings'[ConvOf[r]] = bindings[ConvOf[r]]
        /\ submitted'[r] = submitted[r]
        /\ <<ConvOf[r], "starting", r>> \in answered'
              => <<ConvOf[r], "starting", r>> \in answered
    BY ZenonT(30), <1>0, <1>1, <2>2, CourseElsewhere
  <2> QED
    BY ZenonT(30), <2>3, <2>4, RememberedStays
<1> QED
  BY ZenonT(30), <1>6, <1>7

\* Without a second Driver process one Driver runs at most.
LEMMA OneUpStep ==
    ASSUME TurnsTypeOK, BindingIsKnown, OneUp, "second" \notin FaultKinds,
           [TurnsNext]_turnVars
    PROVE  OneUp'
<1>0. status \in [Drivers -> {"up", "down"}]
  BY Zenon DEF TurnsTypeOK
<1>1. ASSUME NEW d \in Drivers, StartDriver(d)
      PROVE  OneUp'
  <2>1. /\ \A o \in Drivers : status[o] # "up"
        /\ status' = [status EXCEPT ![d] = "up"]
    BY Zenon, <1>1 DEF StartDriver, Fault
  <2>2. \A o \in Drivers : status'[o] = "up" => o = d
    BY ZenonT(30), <1>0, <2>1
  <2> QED
    BY Zenon, <2>2 DEF OneUp
<1>2. ASSUME NEW d \in Drivers, Forget(d)
      PROVE  OneUp'
  <2>1. \A o \in Drivers : status'[o] = "up" => status[o] = "up"
    BY Zenon, <1>0, <1>2 DEF Forget
  <2> QED
    BY Zenon, <2>1 DEF OneUp
<1>3. CASE UNCHANGED status
  BY Zenon, <1>3 DEF OneUp
<1>4. ASSUME NEW d \in Drivers, NEW r \in Requests,
             TurnStep(d, r) \/ InterruptActive(d, r) \/ InterruptPending(d, r)
      PROVE  UNCHANGED status
  BY ZenonT(30), <1>4, TurnStepRest DEF RestKept
<1>5. ASSUME NEW r \in Requests, PostMessage(r) \/ Backoff(r)
      PROVE  UNCHANGED status
  BY ZenonT(30), <1>5 DEF PostMessage, Backoff, process
<1>6. ASSUME NEW c \in Conversations, InterruptUnclaimed(c)
      PROVE  UNCHANGED status
  BY Zenon, <1>6 DEF InterruptUnclaimed, process
<1>7. ASSUME Take \/ Settle \/ LeaseExpires \/ ForwardFails \/ ConnectionLost
             \/ ObserverRestarts \/ UNCHANGED turnVars
      PROVE  UNCHANGED status
  BY ZenonT(30), <1>7 DEF Take, Settle, LeaseExpires, ForwardFails, ConnectionLost,
              ObserverRestarts, turnVars, process
<1>8. ASSUME NEW d \in Drivers, Forward(d) \/ RegisterDriver(d) \/ LearnEpoch(d)
      PROVE  UNCHANGED status
  BY Zenon, <1>8 DEF Forward, RegisterDriver, LearnEpoch, process
<1>9. ASSUME NEW d \in Drivers, StopDriver(d) \/ CrashDriver(d)
      PROVE  OneUp'
  BY ZenonT(30), <1>2, <1>9 DEF StopDriver, CrashDriver
<1> QED
  BY ZenonT(30), <1>1, <1>3, <1>4, <1>5, <1>6, <1>7, <1>8, <1>9 DEF TurnsNext, DispatcherStep

\* The binding of a conversation with one message remembers its turn: however
\* the Driver crashes and the message is delivered again, it is recovered and
\* not submitted a second time.
LEMMA AloneStep ==
    ASSUME TurnsInv, OneUp, AloneIsRemembered, [TurnsNext]_turnVars
    PROVE  AloneIsRemembered'
<1>0. [Next]_vars /\ TurnsTypeOK /\ TypeOK /\ LeaseIsIssued
  BY Zenon, LedgerStep DEF TurnsInv, TurnsTypeOK
<1> SUFFICES ASSUME NEW r \in Requests, Alone(r)'
             PROVE  Remembered(r)'
  BY Zenon DEF AloneIsRemembered
<1>1. \A q \in Requests : receipts[q].state # "none" => receipts'[q].state # "none"
  BY ZenonT(30), <1>0, LedgerMoves
<1>2. Alone(r)
  BY Zenon, <1>1 DEF Alone
<1>3. Remembered(r)
  BY ZenonT(30), <1>2 DEF AloneIsRemembered
<1>4. CASE \E d \in Drivers, q \in Requests :
             TurnStep(d, q) \/ InterruptActive(d, q) \/ InterruptPending(d, q)
  BY ZenonT(30), <1>0, <1>2, <1>3, <1>4, TurnStepRemembers
<1>5. CASE ~\E d \in Drivers, q \in Requests :
              TurnStep(d, q) \/ InterruptActive(d, q) \/ InterruptPending(d, q)
  <2>1. \/ \E q \in Requests : PostMessage(q) \/ Backoff(q)
        \/ \E c \in Conversations : InterruptUnclaimed(c)
        \/ Take \/ ForwardFails \/ Settle \/ ConnectionLost \/ ObserverRestarts
        \/ LeaseExpires \/ UNCHANGED turnVars
        \/ \E d \in Drivers : \/ Forward(d) \/ StartDriver(d) \/ LearnEpoch(d)
                              \/ RegisterDriver(d) \/ StopDriver(d) \/ CrashDriver(d)
    BY Zenon, <1>5 DEF TurnsNext, DispatcherStep
  <2> QED
    BY ZenonT(30), <1>0, <1>3, <2>1, OthersRemember
<1> QED
  BY ZenonT(30), <1>4, <1>5

\* In a single-Driver deployment no second Driver is up, and a conversation
\* with one request remembers that it was marked as starting.
LEMMA SingleDriver ==
    ASSUME "second" \notin FaultKinds
    PROVE  TurnsSpec => [](OneUp /\ AloneIsRemembered)
<1>1. TurnsInit => OneUp /\ AloneIsRemembered
  <2> SUFFICES ASSUME TurnsInit
               PROVE  OneUp /\ AloneIsRemembered
    BY ZenonT(30)
  <2>1. \A d \in Drivers : status[d] = "down"
    BY Zenon DEF TurnsInit
  <2>2. OneUp
    BY Zenon, <2>1 DEF OneUp
  <2>3. ASSUME NEW r \in Requests
        PROVE  Remembered(r)
    <3>1. ConvOf[r] \in Conversations
      BY Zenon, TurnsAssumption
    <3>2. /\ bindings[ConvOf[r]] = NoBinding /\ submitted[r] = 0 /\ answered = {}
          /\ \A d \in Drivers : tasks[d][r] = Idle
      BY ZenonT(30), <3>1 DEF TurnsInit
    <3>3. NoBinding.active = NoRequest
      BY Zenon DEF NoBinding
    <3>4. \A d \in Drivers : tasks[d][r].stage = "idle"
      BY Zenon, <3>2, IdleTask
    <3>5. submitted[r] <= 1 /\ ~ submitted[r] > 0
      BY SMTT(20), <3>2
    <3> QED
      BY Zenon, <3>2, <3>3, <3>4, <3>5 DEF Remembered
  <2> QED
    BY ZenonT(30), <2>2, <2>3 DEF AloneIsRemembered
<1>2. TurnsInv /\ OneUp /\ AloneIsRemembered /\ [TurnsNext]_turnVars
        => (OneUp /\ AloneIsRemembered)'
  BY ZenonT(30), OneUpStep, AloneStep DEF TurnsInv
<1> QED
  BY <1>1, <1>2, TurnsInvariant, PTL DEF TurnsSpec

\* In a single-Driver deployment no conversation has two running Codex turns:
\* one Driver is up, and its lane holds one turn.
THEOREM ConversationsHaveOneTurn ==
    ASSUME "second" \notin FaultKinds
    PROVE  TurnsSpec => []OneTurnPerConversation
<1>1. ASSUME TurnsInv, OneUp
      PROVE  OneTurnPerConversation
  <2> SUFFICES ASSUME NEW d \in Drivers, NEW e \in Drivers,
                      NEW r \in Requests, NEW q \in Requests,
                      tasks[d][r].stage = "events", tasks[e][q].stage = "events",
                      ConvOf[r] = ConvOf[q]
               PROVE  d = e /\ r = q
    BY SMTT(20) DEF OneTurnPerConversation
  <2>0. DownIsIdle /\ OneUp
    BY Zenon, <1>1 DEF TurnsInv
  <2>1. d = e
    <3>1. "events" # "idle"
      BY Zenon
    <3> QED
      BY Zenon, <2>0, <3>1 DEF DownIsIdle, OneUp
  <2>2. r = q
    BY Zenon, <1>1, <2>1 DEF TurnsInv, LaneIsExclusive, Running
  <2> QED
    BY ZenonT(30), <2>1, <2>2
<1>2. TurnsInv /\ OneUp /\ AloneIsRemembered => OneTurnPerConversation
  BY Zenon, <1>1
<1> QED
  BY <1>2, SingleDriver, TurnsInvariant, PTL

\* In a single-Driver deployment the only message of a conversation goes to
\* Codex once, however often it is delivered and the Driver fails: the binding
\* is marked with the request before turn/start, and thread.get of a later
\* delivery sees that mark.
THEOREM LoneMessagesGoOnce ==
    ASSUME "second" \notin FaultKinds
    PROVE  TurnsSpec => []AtMostOneTurnAlone
<1>1. AloneIsRemembered => AtMostOneTurnAlone
  BY Zenon DEF AloneIsRemembered, Alone, Remembered, AtMostOneTurnAlone
<1>2. OneUp /\ AloneIsRemembered => AtMostOneTurnAlone
  BY Zenon, <1>1
<1> QED
  BY <1>2, SingleDriver, PTL

-----------------------------------------------------------------------------
(* Who may change a claimed receipt *)

\* The API, the dispatcher and the Driver processes leave every claim alone,
\* except that a registration recovers the receipts in flight.
LEMMA OthersAreQuiet ==
    ASSUME TurnsInv, TurnsNext
    PROVE  \/ Quiet
           \/ \E d \in Drivers : Register(d)
           \/ \E d \in Drivers, r \in Requests : Moves(d, r)
<1> USE DEF TurnsInv
<1>0. /\ TypeOK /\ ClaimIntegrity /\ ConvOf \in [Requests -> Conversations]
  BY Zenon, TurnsAssumption DEF TurnsTypeOK, LedgerInv
<1>1. ASSUME NEW r \in Requests, PostMessage(r)
      PROVE  Quiet
  <2>1. ConvOf[r] \in Conversations /\ Post(r, ConvOf[r])
    BY Zenon, <1>0, <1>1 DEF PostMessage
  <2> QED
    BY Zenon, <1>0, <2>1, QuietReceipts
<1>2. ASSUME NEW r \in Requests, Backoff(r)
      PROVE  Quiet
  BY Zenon, <1>0, <1>2, QuietReceipts DEF Backoff
<1>3. ASSUME NEW c \in Conversations, InterruptUnclaimed(c)
      PROVE  Quiet
  BY Zenon, <1>0, <1>3, QuietReceipts DEF InterruptUnclaimed
<1>4. ASSUME Take
      PROVE  Quiet
  <2>1. PICK i \in DOMAIN posted : QueueReceipt(posted[i]) \/ UNCHANGED vars
    BY Zenon, <1>4 DEF Take
  <2>2. posted[i] \in Requests
    BY SMTT(20) DEF TurnsTypeOK
  <2> QED
    BY Zenon, <1>0, <2>1, <2>2, QuietReceipts, QuietUnchanged
<1>5. ASSUME Settle
      PROVE  Quiet
  <2>1. disp.request \in Requests
    BY ZenonT(30), <1>5 DEF Settle, DeliveryIsPosted
  <2>2. RetryReceipt(disp.request) \/ UNCHANGED vars
    BY Zenon, <1>5 DEF Settle
  <2> QED
    BY Zenon, <1>0, <2>1, <2>2, QuietReceipts, QuietUnchanged
<1>6. ASSUME LeaseExpires
      PROVE  Quiet
  BY Zenon, <1>0, <1>6, QuietLease DEF LeaseExpires, ExpireLease
<1>7. ASSUME NEW d \in Drivers, RegisterDriver(d)
      PROVE  Register(d)
  BY Zenon, <1>7 DEF RegisterDriver
<1>8. ASSUME NEW d \in Drivers, StopDriver(d)
      PROVE  Quiet
  <2>1. ReleaseLease(d, epoch[d]) \/ UNCHANGED vars
    BY Zenon, <1>8 DEF StopDriver
  <2> QED
    BY Zenon, <1>0, <2>1, QuietLease, QuietUnchanged DEF ReleaseLease
<1>9. ASSUME NEW d \in Drivers, NEW r \in Requests,
             TurnStep(d, r) \/ InterruptActive(d, r) \/ InterruptPending(d, r)
      PROVE  Moves(d, r)
  BY ZenonT(30), <1>9, TurnStepMoves
<1>10. ASSUME NEW d \in Drivers,
              Forward(d) \/ StartDriver(d) \/ LearnEpoch(d) \/ CrashDriver(d)
       PROVE  Quiet
  <2>1. UNCHANGED vars
    BY Zenon, <1>10 DEF Forward, StartDriver, LearnEpoch, CrashDriver, observer,
       vars
  <2> QED
    BY Zenon, <2>1, QuietUnchanged
<1>11. ASSUME ForwardFails \/ ConnectionLost \/ ObserverRestarts
       PROVE  Quiet
  <2>1. UNCHANGED vars
    BY Zenon, <1>11 DEF ForwardFails, ConnectionLost, ObserverRestarts, observer,
       vars
  <2> QED
    BY Zenon, <2>1, QuietUnchanged
<1> QED
  BY ZenonT(30), <1>1, <1>2, <1>3, <1>4, <1>5, <1>6, <1>7, <1>8, <1>9, <1>10, <1>11
  DEF TurnsNext, DispatcherStep

\* A turn changes a claimed receipt only when it has the receipt's token, its
\* Driver passes the Observer's fence, and the turn goes on to another stage.
LEMMA TurnTakesItsOwn ==
    ASSUME TurnsTypeOK, NEW d \in Drivers, NEW r \in Requests, Moves(d, r),
           NEW q \in Requests, receipts[q].state = "in_flight",
           receipts'[q] # receipts[q]
    PROVE  /\ Fenced(d, epoch[d])
           /\ tasks[d][q].token = receipts[q].token
           /\ tasks'[d][q].stage # tasks[d][q].stage
<1>0. receipts[q] \in Receipt /\ receipts \in [Requests -> Receipt]
  BY Zenon DEF TurnsTypeOK, TypeOK
<1>1. PICK y \in Task : Step(d, r, y)
  BY Zenon, MovesStep
<1>2. OneTask(d, r, y) /\ ClaimStep(d, r, y)
  BY Zenon, <1>1, StepTask DEF Step
<1>3. ASSUME NEW t \in Tokens, Claim(d, epoch[d], r, t)
      PROVE  FALSE
  BY Zenon, <1>0, <1>3 DEF Claim, CanClaim, Dispatchable
<1>4. ~ UNCHANGED vars
  BY Zenon DEF vars
<1>5. PICK s \in UpdateStates :
        /\ Tells(d, r, s)
        /\ s = "in_flight" \/ y.stage # tasks[d][r].stage
        /\ y.stage = "idle" \/ y.stage \notin Claimless
  BY Zenon, <1>2, <1>3, <1>4 DEF ClaimStep
<1>6. /\ Fenced(d, epoch[d])
      /\ receipts[r].token = tasks[d][r].token
      /\ receipts' = [receipts EXCEPT ![r] = Updated(receipts[r], s)]
  BY Zenon, <1>5 DEF Tells, Update, CanUpdate, Put
<1>7. q = r /\ receipts'[q] = Updated(receipts[q], s)
  BY Zenon, <1>0, <1>6
<1>8. s # "in_flight"
  <2>1. ASSUME s = "in_flight"
        PROVE  Updated(receipts[q], s) = receipts[q]
    BY Zenon, <1>0, <2>1 DEF Updated, Receipt
  <2> QED
    BY Zenon, <1>7, <2>1
<1>9. tasks'[d][q] = y
  BY Zenon, <1>2, <1>7 DEF OneTask
<1> QED
  BY Zenon, <1>5, <1>6, <1>7, <1>8, <1>9

\* A claimed receipt is changed by a registration, or by the turn that has its
\* claim in a step of that turn: no retry of the dispatcher, user interrupt,
\* expiry or turn of a replaced Driver takes it, whatever faults happen.
THEOREM ClaimsAreRespected == TurnsSpec => ClaimIsRespected
<1>1. ASSUME TurnsInv, TurnsNext
      PROVE  ClaimedStep
  <2> SUFFICES ASSUME NEW q \in Requests, receipts[q].state = "in_flight",
                      receipts'[q] # receipts[q]
               PROVE  \/ /\ lease'.epoch = lease.epoch + 1
                         /\ receipts'[q] = Recovered(receipts[q])
                      \/ \E d \in Drivers :
                            /\ Fenced(d, epoch[d])
                            /\ tasks[d][q].token = receipts[q].token
                            /\ tasks'[d][q].stage # tasks[d][q].stage
    BY Zenon DEF ClaimedStep
  <2>1. TurnsTypeOK
    BY Zenon, <1>1 DEF TurnsInv
  <2>2. ~ Quiet
    BY Zenon DEF Quiet
  <2>3. ASSUME NEW d \in Drivers, Register(d)
        PROVE  /\ lease'.epoch = lease.epoch + 1
               /\ receipts'[q] = Recovered(receipts[q])
    BY Zenon, <2>3 DEF Register
  <2>4. ASSUME NEW d \in Drivers, NEW r \in Requests, Moves(d, r)
        PROVE  /\ Fenced(d, epoch[d])
               /\ tasks[d][q].token = receipts[q].token
               /\ tasks'[d][q].stage # tasks[d][q].stage
    BY Zenon, <2>1, <2>4, TurnTakesItsOwn
  <2> QED
    BY Zenon, <1>1, <2>2, <2>3, <2>4, OthersAreQuiet
<1>2. TurnsInv /\ [TurnsNext]_turnVars => [ClaimedStep]_turnVars
  BY Zenon, <1>1
<1> QED
  BY <1>2, TurnsInvariant, PTL DEF TurnsSpec, ClaimIsRespected

\* What the ledger promises holds while the Drivers run their turns on it,
\* whatever faults interrupt them: a claim is exclusive, attempt_count counts
\* the claims, and a finished request stays finished.
THEOREM LedgerUnderTurns ==
    TurnsSpec => /\ [](ClaimIntegrity /\ AttemptsCountClaims)
                 /\ TerminalIsFinal
BY TurnsImplementLedger, ClaimsAreExclusive, AttemptsAreCounted,
   TerminalReceiptsAreFinal, PTL DEF LedgerSpec
=============================================================================
