----------------------- MODULE MessageReceiptsProofs -----------------------
(***************************************************************************)
(* Proofs about the message ledger, for every set of requests, Drivers and *)
(* tokens and every bound on registrations.                                *)
(*                                                                         *)
(* The second part says what one step of a turn does, for each of its      *)
(* twenty actions: to the ledger, the queue and the Codex lane (Moves,     *)
(* Step), to the dispatcher, the results and the faults (RestKept), and to *)
(* the binding of its conversation (Course).  The invariants of the turns  *)
(* need no more of the actions than that.                                  *)
(***************************************************************************)
EXTENDS MessageTurns, FiniteSetTheorems, TLAPS

-----------------------------------------------------------------------------
(* What the repository methods do to one receipt *)

\* A receipt freshly accepted is a receipt without a claim.
LEMMA AcceptedReceipt ==
    ASSUME NEW c \in Conversations
    PROVE  /\ Accepted(c) \in Receipt
           /\ Accepted(c).state = "accepted"
           /\ Accepted(c).token = NoToken
           /\ Accepted(c).attempts = 0
BY Zenon DEF Accepted, Absent, Receipt, States, Dispatchable

\* Queueing touches the state only.
LEMMA QueuedReceipt ==
    ASSUME NEW x \in Receipt
    PROVE  /\ Queued(x) \in Receipt
           /\ Queued(x).state = "queued"
           /\ Queued(x).token = x.token
           /\ Queued(x).attempts = x.attempts
BY Zenon DEF Queued, Receipt, States, Dispatchable

\* A retry keeps the token it finds.
LEMMA RetriedReceipt ==
    ASSUME NEW x \in Receipt
    PROVE  /\ Retried(x) \in Receipt
           /\ Retried(x).state = "retryable"
           /\ Retried(x).token = x.token
           /\ Retried(x).attempts = x.attempts
BY Zenon DEF Retried, Receipt, States, Dispatchable

\* The end of the back-off touches next_attempt_at only.
LEMMA DueReceipt ==
    ASSUME NEW x \in Receipt
    PROVE  LET y == [x EXCEPT !.next = "due"]
           IN  /\ y \in Receipt
               /\ y.state = x.state
               /\ y.token = x.token
               /\ y.attempts = x.attempts
BY Zenon DEF Receipt

\* An interrupt clears the claim.
LEMMA InterruptedReceipt ==
    ASSUME NEW x \in Receipt
    PROVE  /\ Interrupted(x) \in Receipt
           /\ Interrupted(x).state = "interrupted"
           /\ Interrupted(x).token = NoToken
           /\ Interrupted(x).attempts = x.attempts
BY Zenon DEF Interrupted, Receipt, States, Terminal

\* A claim sets the token and counts one attempt.
LEMMA ClaimedReceipt ==
    ASSUME NEW x \in Receipt, NEW t \in Tokens
    PROVE  /\ Claimed(x, t) \in Receipt
           /\ Claimed(x, t).state = "in_flight"
           /\ Claimed(x, t).token = t
           /\ Claimed(x, t).attempts = x.attempts + 1
<1>1. x.attempts + 1 \in Nat
  BY SMTT(20) DEF Receipt
<1> QED
  BY Zenon, <1>1 DEF Claimed, Receipt, States

\* An update keeps the token exactly when it leaves the receipt in flight.
LEMMA UpdatedReceipt ==
    ASSUME NEW x \in Receipt, NEW s \in UpdateStates
    PROVE  /\ Updated(x, s) \in Receipt
           /\ Updated(x, s).state = s
           /\ Updated(x, s).token = IF s = "in_flight" THEN x.token ELSE NoToken
           /\ Updated(x, s).attempts = x.attempts
BY Zenon DEF Updated, Receipt, States, UpdateStates, Dispatchable, Terminal

\* Recovery takes the claim of a receipt in flight and leaves any other alone.
LEMMA RecoveredReceipt ==
    ASSUME NEW x \in Receipt
    PROVE  /\ Recovered(x) \in Receipt
           /\ Recovered(x).state # "in_flight"
           /\ Recovered(x).attempts = x.attempts
           /\ x.state # "in_flight" => Recovered(x) = x
           /\ x.state = "in_flight" => /\ Recovered(x).state = "retryable"
                                       /\ Recovered(x).token = NoToken
BY Zenon DEF Recovered, Receipt, States, Dispatchable, Terminal

-----------------------------------------------------------------------------
(* Type correctness *)

\* Writing one receipt keeps the types.
LEMMA PutType ==
    ASSUME TypeOK, NEW r \in Requests, NEW x \in Receipt, Put(r, x)
    PROVE  TypeOK'
BY Zenon DEF TypeOK, Put

\* Every operation of the ledger keeps receipts, lease and claims in their
\* types.
LEMMA TypeStep ==
    ASSUME TypeOK, [Next]_vars
    PROVE  TypeOK'
<1>0. \A r \in Requests : receipts[r] \in Receipt
  BY Zenon DEF TypeOK
<1>1. ASSUME NEW r \in Requests, NEW c \in Conversations, Post(r, c)
      PROVE  TypeOK'
  BY Zenon, <1>0, <1>1, PutType, AcceptedReceipt, QueuedReceipt DEF Post
<1>2. ASSUME NEW r \in Requests, InterruptReceipt(r)
      PROVE  TypeOK'
  BY Zenon, <1>0, <1>2, PutType, InterruptedReceipt DEF InterruptReceipt
<1>3. ASSUME NEW r \in Requests, QueueReceipt(r)
      PROVE  TypeOK'
  BY Zenon, <1>0, <1>3, PutType, QueuedReceipt DEF QueueReceipt
<1>4. ASSUME NEW r \in Requests, RetryReceipt(r)
      PROVE  TypeOK'
  BY Zenon, <1>0, <1>4, PutType, RetriedReceipt DEF RetryReceipt
<1>5. ASSUME NEW r \in Requests, BackoffElapses(r)
      PROVE  TypeOK'
  BY Zenon, <1>0, <1>5, PutType, DueReceipt DEF BackoffElapses
<1>6. ASSUME NEW d \in Drivers, Register(d)
      PROVE  TypeOK'
  BY SMTT(20), <1>0, <1>6, RecoveredReceipt DEF Register, TypeOK
<1>7. ASSUME NEW d \in Drivers, NEW e \in Epochs, ReleaseLease(d, e)
      PROVE  TypeOK'
  BY Zenon, <1>7 DEF ReleaseLease, TypeOK
<1>8. CASE ExpireLease
  BY Zenon, <1>8 DEF ExpireLease, TypeOK
<1>9. ASSUME NEW d \in Drivers, NEW e \in Epochs, NEW r \in Requests,
             NEW t \in Tokens, Claim(d, e, r, t)
      PROVE  TypeOK'
  BY SMTT(20), <1>0, <1>9, ClaimedReceipt, LedgerAssumption DEF Claim, Epochs,
     TypeOK
<1>10. ASSUME NEW d \in Drivers, NEW e \in Epochs, NEW r \in Requests,
              NEW t \in Tokens, NEW s \in UpdateStates, Update(d, e, r, t, s)
       PROVE  TypeOK'
  BY Zenon, <1>0, <1>10, PutType, UpdatedReceipt DEF Update
<1>11. CASE UNCHANGED vars
  BY Zenon, <1>11 DEF vars, TypeOK
<1> QED
  BY Zenon, <1>1, <1>2, <1>3, <1>4, <1>5, <1>6, <1>7, <1>8, <1>9, <1>10, <1>11
  DEF Next

\* Every operation of the ledger keeps receipts, lease and claims in their
\* types; attempts and epochs stay natural numbers.
THEOREM TypeCorrect == Spec => []TypeOK
<1>1. Init => TypeOK
  <2>1. Absent \in Receipt
    BY Zenon DEF Absent, Receipt, States
  <2> QED
    BY SMTT(20), <2>1 DEF Init, TypeOK
<1>2. TypeOK /\ [Next]_vars => TypeOK'
  BY Zenon, TypeStep
<1> QED
  BY <1>1, <1>2, PTL DEF Spec

-----------------------------------------------------------------------------
(* The inductive invariant: the claim discipline *)

\* A token that claimed a request has been used.
TokensUsed ==
    \A t \in Tokens : claims[t].epoch = 0 => claims[t].request = NoRequest

LedgerInv == TypeOK /\ TokensUsed /\ ClaimIntegrity

\* ClaimIntegrity is about one receipt at a time: it survives the write of a
\* receipt that has a token only if it keeps the one it had in flight.
LEMMA PutClaimIntegrity ==
    ASSUME TypeOK, ClaimIntegrity, NEW r \in Requests, NEW x \in Receipt,
           Put(r, x),
           \/ x.state # "in_flight" /\ x.token = NoToken
           \/ /\ x.state = "in_flight" /\ receipts[r].state = "in_flight"
              /\ x.token = receipts[r].token
    PROVE  ClaimIntegrity'
BY Zenon DEF TypeOK, Put, ClaimIntegrity

\* A claim keeps the claim discipline: its token is on no other receipt.
LEMMA ClaimKeepsIntegrity ==
    ASSUME LedgerInv, NEW d \in Drivers, NEW e \in Epochs, NEW r \in Requests,
           NEW t \in Tokens, Claim(d, e, r, t)
    PROVE  TokensUsed' /\ ClaimIntegrity'
<1>0. receipts[r] \in Receipt
  BY Zenon DEF LedgerInv, TypeOK
<1>1. \A q \in Requests : receipts'[q] = IF q = r THEN Claimed(receipts[r], t)
                                                 ELSE receipts[q]
  BY Zenon DEF LedgerInv, TypeOK, Claim
<1>2. \A u \in Tokens : claims'[u] = IF u = t THEN [request |-> r, epoch |-> e]
                                            ELSE claims[u]
  BY Zenon DEF LedgerInv, TypeOK, Claim
<1>3. claims[t].request = NoRequest
  BY Zenon DEF LedgerInv, TokensUsed, Claim
<1>4. lease'.epoch = e
  BY Zenon DEF Claim, Fenced
<1>5. ASSUME NEW q \in Requests
      PROVE  /\ receipts'[q].token # NoToken <=> receipts'[q].state = "in_flight"
             /\ receipts'[q].state = "in_flight" =>
                   claims'[receipts'[q].token] = [request |-> q, epoch |-> lease'.epoch]
  <2>1. CASE q = r
    BY SMTT(20), <1>0, <1>1, <1>2, <1>4, <2>1, ClaimedReceipt, ReceiptsAssumption
  <2>2. CASE q # r
    <3>1. receipts[q].state = "in_flight" =>
             /\ receipts[q].token \in Tokens \ {t}
             /\ claims[receipts[q].token] = [request |-> q, epoch |-> lease.epoch]
      BY SMTT(20), <1>3, LedgerAssumption DEF LedgerInv, TypeOK, Receipt,
         ClaimIntegrity
    <3> QED
      BY SMTT(20), <1>1, <1>2, <2>2, <3>1 DEF LedgerInv, ClaimIntegrity, Claim
  <2> QED
    BY Zenon, <2>1, <2>2
<1>6. TokensUsed'
  BY SMTT(20), <1>2, LedgerAssumption DEF LedgerInv, TokensUsed, Epochs
<1> QED
  BY Zenon, <1>5, <1>6 DEF ClaimIntegrity

\* A registration voids every claim.
LEMMA RegisterKeepsInv ==
    ASSUME LedgerInv, TypeOK', NEW d \in Drivers, Register(d)
    PROVE  LedgerInv'
<1>1. \A q \in Requests : /\ receipts[q] \in Receipt
                          /\ receipts'[q] = Recovered(receipts[q])
  BY Zenon DEF LedgerInv, TypeOK, Register
<1>2. claims' = claims
  BY Zenon DEF Register
<1>3. ASSUME NEW q \in Requests
      PROVE  /\ receipts'[q].state # "in_flight"
             /\ receipts'[q].token = NoToken
  <2>1. receipts[q].state # "in_flight" => receipts[q].token = NoToken
    BY Zenon DEF LedgerInv, ClaimIntegrity
  <2> QED
    BY Zenon, <1>1, <2>1, RecoveredReceipt
<1> QED
  BY Zenon, <1>2, <1>3 DEF LedgerInv, TokensUsed, ClaimIntegrity

\* The invariant is inductive: one case per operation.
LEMMA LedgerInvStep ==
    ASSUME LedgerInv, TypeOK', [Next]_vars
    PROVE  LedgerInv'
<1>0. /\ TypeOK /\ TokensUsed /\ ClaimIntegrity
      /\ \A r \in Requests :
            /\ receipts[r] \in Receipt
            /\ receipts[r].state # "in_flight" => receipts[r].token = NoToken
  BY Zenon DEF LedgerInv, TypeOK, ClaimIntegrity
<1>w. ASSUME NEW r \in Requests, NEW x \in Receipt, Put(r, x),
             \/ x.state # "in_flight" /\ x.token = NoToken
             \/ /\ x.state = "in_flight" /\ receipts[r].state = "in_flight"
                /\ x.token = receipts[r].token
      PROVE  LedgerInv'
  <2>1. TokensUsed'
    BY Zenon, <1>0, <1>w DEF Put, TokensUsed
  <2> QED
    BY Zenon, <1>0, <1>w, <2>1, PutClaimIntegrity DEF LedgerInv
<1>1. ASSUME NEW r \in Requests, NEW c \in Conversations, Post(r, c)
      PROVE  LedgerInv'
  <2>1. CASE receipts[r].state = "none" /\ Put(r, Accepted(c))
    BY Zenon, <1>w, <2>1, AcceptedReceipt
  <2>2. CASE receipts[r].state = "accepted" /\ Put(r, Queued(receipts[r]))
    BY Zenon, <1>0, <1>w, <2>2, QueuedReceipt
  <2> QED
    BY Zenon, <1>1, <2>1, <2>2 DEF Post
<1>2. ASSUME NEW r \in Requests, InterruptReceipt(r)
      PROVE  LedgerInv'
  BY Zenon, <1>0, <1>2, <1>w, InterruptedReceipt DEF InterruptReceipt
<1>3. ASSUME NEW r \in Requests, QueueReceipt(r)
      PROVE  LedgerInv'
  BY Zenon, <1>0, <1>3, <1>w, QueuedReceipt DEF QueueReceipt, CanQueue
<1>4. ASSUME NEW r \in Requests, RetryReceipt(r)
      PROVE  LedgerInv'
  BY Zenon, <1>0, <1>4, <1>w, RetriedReceipt DEF RetryReceipt, CanRetry
<1>5. ASSUME NEW r \in Requests, BackoffElapses(r)
      PROVE  LedgerInv'
  BY Zenon, <1>0, <1>5, <1>w, DueReceipt DEF BackoffElapses, Dispatchable
<1>6. ASSUME NEW d \in Drivers, Register(d)
      PROVE  LedgerInv'
  BY Zenon, <1>6, RegisterKeepsInv
<1>7. ASSUME lease'.epoch = lease.epoch, UNCHANGED <<receipts, claims>>
      PROVE  LedgerInv'
  BY Zenon, <1>0, <1>7 DEF LedgerInv, TokensUsed, ClaimIntegrity
<1>8. ASSUME NEW d \in Drivers, NEW e \in Epochs, ReleaseLease(d, e)
      PROVE  LedgerInv'
  BY Zenon, <1>0, <1>7, <1>8 DEF ReleaseLease, TypeOK
<1>9. CASE ExpireLease
  BY Zenon, <1>0, <1>7, <1>9 DEF ExpireLease, TypeOK
<1>10. ASSUME NEW d \in Drivers, NEW e \in Epochs, NEW r \in Requests,
              NEW t \in Tokens, Claim(d, e, r, t)
       PROVE  LedgerInv'
  BY Zenon, <1>10, ClaimKeepsIntegrity DEF LedgerInv
<1>11. ASSUME NEW d \in Drivers, NEW e \in Epochs, NEW r \in Requests,
              NEW t \in Tokens, NEW s \in UpdateStates, Update(d, e, r, t, s)
       PROVE  LedgerInv'
  <2>1. /\ Put(r, Updated(receipts[r], s))
        /\ receipts[r].token = t
        /\ receipts[r].state = "in_flight"
    BY Zenon, <1>0, <1>11, ReceiptsAssumption DEF Update, CanUpdate
  <2> QED
    BY SMTT(20), <1>0, <1>w, <2>1, UpdatedReceipt
<1>12. CASE UNCHANGED vars
  BY Zenon, <1>7, <1>12 DEF vars
<1> QED
  BY Zenon, <1>1, <1>2, <1>3, <1>4, <1>5, <1>6, <1>8, <1>9, <1>10, <1>11,
     <1>12 DEF Next

-----------------------------------------------------------------------------
(* The ledger's guarantees *)

\* The empty ledger satisfies the invariant.
LEMMA LedgerInit == Init => LedgerInv
<1> SUFFICES ASSUME Init
             PROVE  LedgerInv
  BY Zenon
<1>1. TypeOK
  BY Zenon DEF Init, TypeOK, Absent, Receipt, States
<1>2. TokensUsed /\ ClaimIntegrity
  BY Zenon DEF Init, Absent, TokensUsed, ClaimIntegrity
<1> QED
  BY Zenon, <1>1, <1>2 DEF LedgerInv

\* The claim discipline and the facts it rests on hold of every reachable
\* state of the ledger.
THEOREM LedgerInvariant == Spec => []LedgerInv
<1>1. Init => LedgerInv
  BY Zenon, LedgerInit
<1>2. LedgerInv /\ TypeOK' /\ [Next]_vars => LedgerInv'
  BY Zenon, LedgerInvStep
<1> QED
  BY <1>1, <1>2, TypeCorrect, PTL DEF Spec

\* At most one valid claim per receipt, held under the current epoch: what
\* claim_message_receipt, update_message_receipt and register_agent's
\* recovery together keep.
THEOREM ClaimsAreExclusive == Spec => []ClaimIntegrity
<1>1. LedgerInv => ClaimIntegrity
  BY Zenon DEF LedgerInv
<1> QED
  BY <1>1, LedgerInvariant, PTL

\* A terminal receipt is final: no operation's guard admits one.
THEOREM TerminalReceiptsAreFinal == Spec => TerminalIsFinal
<1>1. ASSUME TypeOK, Next
      PROVE  TerminalStep
  <2> SUFFICES ASSUME NEW q \in Requests, receipts[q].state \in Terminal
               PROVE  receipts'[q] = receipts[q]
    BY Zenon DEF TerminalStep
  <2>w. ASSUME NEW r \in Requests, NEW x, Put(r, x), receipts[r].state \notin Terminal
        PROVE  receipts'[q] = receipts[q]
    BY Zenon, <1>1, <2>w DEF Put, TypeOK
  <2>1. ASSUME NEW r \in Requests, NEW c \in Conversations, Post(r, c)
        PROVE  receipts'[q] = receipts[q]
    BY Zenon, <2>1, <2>w DEF Post, Terminal
  <2>2. ASSUME NEW r \in Requests, InterruptReceipt(r)
        PROVE  receipts'[q] = receipts[q]
    BY Zenon, <2>2, <2>w DEF InterruptReceipt, CanInterrupt, Dispatchable,
       Terminal
  <2>3. ASSUME NEW r \in Requests, QueueReceipt(r)
        PROVE  receipts'[q] = receipts[q]
    BY Zenon, <2>3, <2>w DEF QueueReceipt, CanQueue, Terminal
  <2>4. ASSUME NEW r \in Requests, RetryReceipt(r)
        PROVE  receipts'[q] = receipts[q]
    BY Zenon, <2>4, <2>w DEF RetryReceipt, CanRetry
  <2>5. ASSUME NEW r \in Requests, BackoffElapses(r)
        PROVE  receipts'[q] = receipts[q]
    BY Zenon, <2>5, <2>w DEF BackoffElapses, Dispatchable, Terminal
  <2>6. ASSUME NEW d \in Drivers, Register(d)
        PROVE  receipts'[q] = receipts[q]
    BY Zenon, <1>1, <2>6 DEF Register, Recovered, Terminal, TypeOK
  <2>7. ASSUME NEW d \in Drivers, NEW e \in Epochs, ReleaseLease(d, e)
        PROVE  receipts'[q] = receipts[q]
    BY Zenon, <2>7 DEF ReleaseLease
  <2>8. CASE ExpireLease
    BY Zenon, <2>8 DEF ExpireLease
  <2>9. ASSUME NEW d \in Drivers, NEW e \in Epochs, NEW r \in Requests,
               NEW t \in Tokens, Claim(d, e, r, t)
        PROVE  receipts'[q] = receipts[q]
    BY Zenon, <1>1, <2>9 DEF Claim, CanClaim, Dispatchable, Terminal, TypeOK
  <2>10. ASSUME NEW d \in Drivers, NEW e \in Epochs, NEW r \in Requests,
                NEW t \in Tokens, NEW s \in UpdateStates, Update(d, e, r, t, s)
         PROVE  receipts'[q] = receipts[q]
    BY Zenon, <2>10, <2>w DEF Update, CanUpdate
  <2> QED
    BY Zenon, <1>1, <2>1, <2>2, <2>3, <2>4, <2>5, <2>6, <2>7, <2>8, <2>9,
       <2>10 DEF Next
<1>2. TypeOK /\ [Next]_vars => [TerminalStep]_vars
  BY Zenon, <1>1
<1> QED
  BY <1>2, TypeCorrect, PTL DEF Spec, TerminalIsFinal

-----------------------------------------------------------------------------
(* attempt_count counts the claims on a request *)

\* A request nobody posted was never claimed.
AbsentUnclaimed ==
    \A r \in Requests : receipts[r].state = "none" => receipts[r].attempts = 0

AttemptsInv == LedgerInv /\ AbsentUnclaimed /\ AttemptsCountClaims

\* The counter does not see a write that keeps the attempt count, and no
\* write makes a request absent.
LEMMA PutCounts ==
    ASSUME TypeOK, AbsentUnclaimed, AttemptsCountClaims,
           NEW r \in Requests, NEW x \in Receipt, Put(r, x),
           x.attempts = receipts[r].attempts, x.state # "none"
    PROVE  AbsentUnclaimed' /\ AttemptsCountClaims'
BY Zenon DEF TypeOK, Put, AbsentUnclaimed, AttemptsCountClaims

\* A claim counts: the set of tokens that claimed r grows by the new one.
LEMMA ClaimCounts ==
    ASSUME AttemptsInv, NEW d \in Drivers, NEW e \in Epochs, NEW r \in Requests,
           NEW t \in Tokens, Claim(d, e, r, t)
    PROVE  AbsentUnclaimed' /\ AttemptsCountClaims'
<1> DEFINE Of(q) == {u \in Tokens : claims[u].request = q}
<1>0. /\ \A u \in Tokens : claims'[u] = IF u = t THEN [request |-> r, epoch |-> e]
                                               ELSE claims[u]
      /\ claims[t].request = NoRequest
  BY Zenon DEF AttemptsInv, LedgerInv, TypeOK, TokensUsed, Claim
<1>1. \A q \in Requests :
         /\ receipts[q] \in Receipt
         /\ receipts'[q] = IF q = r THEN Claimed(receipts[r], t) ELSE receipts[q]
  BY Zenon DEF AttemptsInv, LedgerInv, TypeOK, Claim
<1>c. \A q \in Requests : receipts[q].attempts = Cardinality(Of(q))
  BY Zenon DEF AttemptsInv, AttemptsCountClaims
<1>2. ASSUME NEW q \in Requests
      PROVE  receipts'[q].attempts
               = Cardinality({u \in Tokens : claims'[u].request = q})
  <2>1. CASE q = r
    <3>1. {u \in Tokens : claims'[u].request = q} = Of(r) \cup {t}
      BY SMTT(20), <1>0, <2>1
    <3>2. t \notin Of(r)
      BY Zenon, <1>0, LedgerAssumption
    <3>3. IsFiniteSet(Of(r))
      <4>1. Of(r) \subseteq Tokens
        BY Zenon
      <4> QED
        BY Zenon, <4>1, FS_Subset, ReceiptsAssumption
    <3>4. Cardinality(Of(r) \cup {t}) = Cardinality(Of(r)) + 1
      BY Zenon, <3>2, <3>3, FS_AddElement
    <3>5. receipts'[r].attempts = receipts[r].attempts + 1
      BY SMTT(20), <1>1, ClaimedReceipt
    <3> QED
      BY Zenon, <1>c, <2>1, <3>1, <3>4, <3>5
  <2>2. CASE q # r
    <3>1. {u \in Tokens : claims'[u].request = q} = Of(q)
      BY SMTT(20), <1>0, <2>2, LedgerAssumption
    <3> QED
      BY Zenon, <1>1, <1>c, <2>2, <3>1
  <2> QED
    BY Zenon, <2>1, <2>2
<1>3. AbsentUnclaimed'
  BY Zenon, <1>1, ClaimedReceipt DEF AttemptsInv, AbsentUnclaimed
<1> QED
  BY Zenon, <1>2, <1>3 DEF AttemptsCountClaims

\* The counter is right after every operation of the ledger: only a claim
\* changes it.
LEMMA AttemptsStep ==
    ASSUME AttemptsInv, LedgerInv', [Next]_vars
    PROVE  AttemptsInv'
<1>0. /\ TypeOK /\ AbsentUnclaimed /\ AttemptsCountClaims
      /\ \A r \in Requests : receipts[r] \in Receipt
  BY Zenon DEF AttemptsInv, LedgerInv, TypeOK
<1>w. ASSUME NEW r \in Requests, NEW x \in Receipt, Put(r, x),
             x.attempts = receipts[r].attempts, x.state # "none"
      PROVE  AttemptsInv'
  BY Zenon, <1>0, <1>w, PutCounts DEF AttemptsInv
<1>1. ASSUME NEW r \in Requests, NEW c \in Conversations, Post(r, c)
      PROVE  AttemptsInv'
  <2>1. CASE receipts[r].state = "none" /\ Put(r, Accepted(c))
    <3>1. receipts[r].attempts = 0
      BY Zenon, <1>0, <2>1 DEF AbsentUnclaimed
    <3> QED
      BY Zenon, <1>w, <2>1, <3>1, AcceptedReceipt
  <2>2. CASE receipts[r].state = "accepted" /\ Put(r, Queued(receipts[r]))
    BY Zenon, <1>0, <1>w, <2>2, QueuedReceipt
  <2> QED
    BY Zenon, <1>1, <2>1, <2>2 DEF Post
<1>2. ASSUME NEW r \in Requests, InterruptReceipt(r)
      PROVE  AttemptsInv'
  BY Zenon, <1>0, <1>2, <1>w, InterruptedReceipt DEF InterruptReceipt
<1>3. ASSUME NEW r \in Requests, QueueReceipt(r)
      PROVE  AttemptsInv'
  BY Zenon, <1>0, <1>3, <1>w, QueuedReceipt DEF QueueReceipt
<1>4. ASSUME NEW r \in Requests, RetryReceipt(r)
      PROVE  AttemptsInv'
  BY Zenon, <1>0, <1>4, <1>w, RetriedReceipt DEF RetryReceipt
<1>5. ASSUME NEW r \in Requests, BackoffElapses(r)
      PROVE  AttemptsInv'
  BY Zenon, <1>0, <1>5, <1>w, DueReceipt DEF BackoffElapses, Dispatchable
<1>6. ASSUME NEW d \in Drivers, Register(d)
      PROVE  AttemptsInv'
  <2>1. \A r \in Requests : /\ receipts[r] \in Receipt
                            /\ receipts'[r] = Recovered(receipts[r])
    BY Zenon, <1>0, <1>6 DEF Register
  <2>2. \A r \in Requests :
           /\ receipts'[r].attempts = receipts[r].attempts
           /\ receipts'[r].state = "none" => receipts[r].state = "none"
    BY Zenon, <2>1, RecoveredReceipt
  <2> QED
    BY Zenon, <1>0, <1>6, <2>2 DEF Register, AttemptsInv, AbsentUnclaimed, AttemptsCountClaims
<1>7. ASSUME UNCHANGED <<receipts, claims>>
      PROVE  AttemptsInv'
  BY Zenon, <1>0, <1>7 DEF AttemptsInv, AbsentUnclaimed, AttemptsCountClaims
<1>8. ASSUME NEW d \in Drivers, NEW e \in Epochs, NEW r \in Requests,
             NEW t \in Tokens, Claim(d, e, r, t)
      PROVE  AttemptsInv'
  BY Zenon, <1>8, ClaimCounts DEF AttemptsInv
<1>9. ASSUME NEW d \in Drivers, NEW e \in Epochs, NEW r \in Requests,
             NEW t \in Tokens, NEW s \in UpdateStates, Update(d, e, r, t, s)
      PROVE  AttemptsInv'
  <2>1. s # "none"
    BY Zenon DEF UpdateStates, Terminal
  <2> QED
    BY Zenon, <1>0, <1>9, <1>w, <2>1, UpdatedReceipt DEF Update
<1> QED
  BY Zenon, <1>1, <1>2, <1>3, <1>4, <1>5, <1>6, <1>7, <1>8, <1>9
  DEF Next, vars, ReleaseLease, ExpireLease

\* attempt_count never misses or invents a claim, and a request nobody posted
\* has none.
THEOREM AttemptsAreCounted == Spec => []AttemptsCountClaims
<1>1. Init => AbsentUnclaimed /\ AttemptsCountClaims
  <2> SUFFICES ASSUME Init
               PROVE  AbsentUnclaimed /\ AttemptsCountClaims
    BY Zenon
  <2>1. \A r \in Requests : {t \in Tokens : claims[t].request = r} = {}
    BY Zenon, LedgerAssumption DEF Init
  <2> QED
    BY Zenon, <2>1, FS_EmptySet DEF Init, Absent, AbsentUnclaimed,
       AttemptsCountClaims
<1>2. LedgerInv /\ AbsentUnclaimed /\ AttemptsCountClaims <=> AttemptsInv
  BY Zenon DEF AttemptsInv
<1>3. AttemptsInv /\ LedgerInv' /\ [Next]_vars => AttemptsInv'
  BY Zenon, AttemptsStep
<1> QED
  BY <1>1, <1>2, <1>3, LedgerInvariant, PTL DEF Spec

-----------------------------------------------------------------------------
(* What the steps of a turn rely on *)

QueueIsQueued ==
    \A d \in Drivers :
        /\ \A i \in DOMAIN queue[d] : tasks[d][queue[d][i]].stage = "queued"
        /\ \A i, j \in DOMAIN queue[d] : queue[d][i] = queue[d][j] => i = j

\* A binding knows its active request unless its thread is idle.
BindingIsKnown ==
    /\ \A c \in Conversations : bindings[c].turn # "idle" => bindings[c].active \in Requests
    /\ \A d \in Drivers, r \in Requests :
          LET b == tasks[d][r].seen IN
          /\ b.turn # "idle" => b.active \in Requests
          /\ tasks[d][r].stage = "recover" => b.turn = "recovery_pending"

-----------------------------------------------------------------------------
(* A step of a turn, as the ledger, the queue and the lane see it *)

\* From its claim on a turn has a token of its own, claimed for its request
\* in an epoch already issued.
Claimless == {"idle", "claim"}

\* The stages after turn/start.
Started == {"events", "finished", "reportCompleted", "stopped",
            "reportInterrupted", "failed", "reportRun", "reportFailed"}

\* The stages in which a turn must still have its claim.
Holding == {"queued", "waiting", "get", "begin", "bind", "recover", "starting",
            "send", "events", "finished", "reportCompleted"}

\* Only the turn of r in d changes, to y.
Moved(d, r, y) == tasks' = [tasks EXCEPT ![d][r] = y]

\* The receipt is left alone, or updated with the turn's token.
Tells(d, r, s) == Update(d, epoch[d], r, tasks[d][r].token, s)

\* turn/start is sent to Codex.
Submits(r) == submitted' = [submitted EXCEPT ![r] = @ + 1]

\* The turn is claimed and queued.
Claims(d, r) ==
    /\ tasks[d][r].stage = "claim"
    /\ \E t \in Tokens :
          /\ Claim(d, epoch[d], r, t)
          /\ Moved(d, r, [tasks[d][r] EXCEPT !.stage = "queued", !.token = t])
    /\ queue' = [queue EXCEPT ![d] = Append(@, r)]
    /\ UNCHANGED submitted

\* The turn is over, whatever the ledger heard of it last.
Leaves(d, r) ==
    /\ tasks[d][r].stage # "idle"
    /\ Moved(d, r, Idle)
    /\ \/ tasks[d][r].stage # "queued" /\ UNCHANGED queue
       \/ queue' = [queue EXCEPT ![d] = Without(@, r)]
    /\ \/ UNCHANGED vars
       \/ tasks[d][r].stage = "claim" /\ \E t \in Tokens : Claim(d, epoch[d], r, t)
       \/ /\ tasks[d][r].stage \notin Claimless
          /\ \E s \in UpdateStates :
                Tells(d, r, s) /\ (s = "completed" => tasks[d][r].stage \in Started)
    /\ UNCHANGED submitted

\* The conversation's worker, then the lane, takes the turn.
Waits(d, r) ==
    /\ tasks[d][r].stage = "queued"
    /\ Moved(d, r, [tasks[d][r] EXCEPT !.stage = "waiting"])
    /\ queue' = [queue EXCEPT ![d] = Without(@, r)]
    /\ UNCHANGED <<vars, submitted>>

Enters(d, r) ==
    /\ tasks[d][r].stage = "waiting"
    /\ \A q \in Requests : tasks[d][q].stage \notin Running
    /\ Moved(d, r, [tasks[d][r] EXCEPT !.stage = "get", !.epoch = epoch[d]])
    /\ UNCHANGED <<vars, queue, submitted>>

\* The turn goes on in the lane: it tells the ledger of an end only when it
\* gives its claim up.
Advances(d, r) ==
    /\ tasks[d][r].stage \in Running
    /\ \E y \in Task :
          /\ Moved(d, r, y)
          /\ y.stage \in Running
          /\ y.token = tasks[d][r].token
          /\ y.seen \in {tasks[d][r].seen, bindings[ConvOf[r]]}
          /\ y.stage = "recover" => y.seen.turn = "recovery_pending"
          /\ y.stage \in Holding => tasks[d][r].stage \in Holding
          /\ y.stage \in Started => tasks[d][r].stage \in Started \/ Submits(r)
          /\ \/ UNCHANGED vars
             \/ \E s \in UpdateStates :
                   /\ Tells(d, r, s)
                   /\ s = "in_flight" \/ y.stage \notin Holding
                   /\ s = "in_flight" \/ y.stage # tasks[d][r].stage
                   /\ s = "completed" => tasks[d][r].stage \in Started
    /\ UNCHANGED queue
    /\ UNCHANGED submitted \/ Submits(r)

Moves(d, r) ==
    Claims(d, r) \/ Leaves(d, r) \/ Waits(d, r) \/ Enters(d, r) \/ Advances(d, r)

\* The task of a turn, and the next one when it moves.
LEMMA TaskOf ==
    ASSUME TurnsTypeOK, NEW d \in Drivers, NEW r \in Requests
    PROVE  tasks[d][r] \in Task
BY Zenon DEF TurnsTypeOK

\* A task that enters another stage keeps its token, its epoch and the
\* binding it has seen.
LEMMA TaskAtStage ==
    ASSUME NEW x \in Task, NEW s \in Stages
    PROVE  /\ [x EXCEPT !.stage = s] \in Task
           /\ [x EXCEPT !.stage = s].stage = s
           /\ [x EXCEPT !.stage = s].token = x.token
           /\ [x EXCEPT !.stage = s].epoch = x.epoch
           /\ [x EXCEPT !.stage = s].seen = x.seen
BY Zenon DEF Task

\* A task that is over, and a conversation without a thread.
LEMMA IdleTask ==
    /\ Idle \in Task
    /\ NoBinding \in Binding
    /\ Idle.stage = "idle" /\ Idle.token = NoToken /\ Idle.seen = NoBinding
BY Zenon DEF Idle, Task, Stages, NoBinding, Binding, TurnStates

\* A step of one task leaves the others.
LEMMA MovedTask ==
    ASSUME TurnsTypeOK, NEW d \in Drivers, NEW r \in Requests, NEW y, Moved(d, r, y)
    PROVE  \A e \in Drivers, q \in Requests :
              tasks'[e][q] = IF e = d /\ q = r THEN y ELSE tasks[e][q]
BY Zenon DEF TurnsTypeOK, Moved

\* A handler that goes on to its next await.
LEMMA GoToMoves ==
    ASSUME TurnsTypeOK, NEW d \in Drivers, NEW r \in Requests, NEW s \in Stages,
           GoTo(d, r, s)
    PROVE  /\ Moved(d, r, [tasks[d][r] EXCEPT !.stage = s])
           /\ UNCHANGED <<queue, done, disp>>
BY Zenon DEF TurnsTypeOK, GoTo, Moved

\* A handler that ends.
LEMMA FinishMoves ==
    ASSUME NEW d \in Drivers, NEW r \in Requests, NEW a, Finish(d, r, a)
    PROVE  Moved(d, r, Idle) /\ UNCHANGED queue
BY Zenon DEF Finish, Moved

\* A turn that goes on to stage s advances; one whose handler ends leaves.
LEMMA GoingOn ==
    ASSUME TurnsTypeOK, NEW d \in Drivers, NEW r \in Requests, NEW s \in Running,
           GoTo(d, r, s), tasks[d][r].stage \in Running,
           s = "recover" => tasks[d][r].seen.turn = "recovery_pending",
           s \in Holding => tasks[d][r].stage \in Holding,
           s \in Started => tasks[d][r].stage \in Started \/ Submits(r),
           \/ UNCHANGED vars
           \/ \E u \in UpdateStates :
                 /\ Tells(d, r, u)
                 /\ u = "in_flight" \/ s \notin Holding
                 /\ u = "in_flight" \/ s # tasks[d][r].stage
                 /\ u = "completed" => tasks[d][r].stage \in Started,
           UNCHANGED submitted \/ Submits(r)
    PROVE  Moves(d, r)
<1> DEFINE y == [tasks[d][r] EXCEPT !.stage = s]
<1>1. s \in Stages
  BY Zenon DEF Stages
<1>2. Moved(d, r, y) /\ UNCHANGED queue
  BY Zenon, <1>1, GoToMoves
<1>3. /\ y \in Task /\ y.stage = s
      /\ y.token = tasks[d][r].token /\ y.seen = tasks[d][r].seen
  BY Zenon, <1>1, TaskOf, TaskAtStage
<1> HIDE DEF y
<1>4. Advances(d, r)
  BY Zenon, <1>2, <1>3 DEF Advances
<1> QED
  BY Zenon, <1>4 DEF Moves

\* A handler that ends has told the Observer at most once, and reports a
\* completion only for a turn it has started.
LEMMA Ending ==
    ASSUME NEW d \in Drivers, NEW r \in Requests, NEW a, Finish(d, r, a),
           tasks[d][r].stage \in Running \cup {"claim"},
           \/ UNCHANGED vars
           \/ tasks[d][r].stage = "claim" /\ \E t \in Tokens : Claim(d, epoch[d], r, t)
           \/ /\ tasks[d][r].stage \notin Claimless
              /\ \E s \in UpdateStates :
                    Tells(d, r, s) /\ (s = "completed" => tasks[d][r].stage \in Started),
           UNCHANGED submitted
    PROVE  Moves(d, r)
<1>1. tasks[d][r].stage \notin {"idle", "queued"}
  BY Zenon DEF Running
<1>2. Leaves(d, r)
  BY Zenon, <1>1, FinishMoves DEF Leaves
<1> QED
  BY Zenon, <1>2 DEF Moves

\* The steps of a turn before the lane.
LEMMA ClaimMessageMoves ==
    ASSUME TurnsTypeOK, NEW d \in Drivers, NEW r \in Requests, ClaimMessage(d, r)
    PROVE  Moves(d, r)
<1>0. tasks[d][r].stage = "claim" /\ UNCHANGED submitted
  BY Zenon DEF ClaimMessage
<1>1. PICK t \in Tokens :
        \/ /\ Claim(d, epoch[d], r, t)
           /\ tasks' = [tasks EXCEPT ![d][r].stage = "queued", ![d][r].token = t]
           /\ queue' = [queue EXCEPT ![d] = Append(@, r)]
        \/ /\ UNCHANGED vars \/ Claim(d, epoch[d], r, t)
           /\ \E a \in {"answered", "error"} : Finish(d, r, a)
  <2>1. PICK t \in Tokens :
          Call(d, TRUE,
                  /\ \/ Claim(d, epoch[d], r, t)
                     \/ ~CanClaim(receipts[r]) /\ UNCHANGED vars
                  /\ UNCHANGED <<bindings, answered>>,
                  \/ /\ CanClaim(receipts[r])
                     /\ tasks' = [tasks EXCEPT ![d][r].stage = "queued",
                                               ![d][r].token = t]
                     /\ queue' = [queue EXCEPT ![d] = Append(@, r)]
                     /\ UNCHANGED <<done, disp>>
                  \/ receipts[r].state \in Terminal /\ Return(d, r)
                  \/ /\ receipts[r].state = "in_flight"
                     /\ Finish(d, r, "answered") /\ UNCHANGED done,
                  Raise(d, r))
    BY Zenon DEF ClaimMessage
  <2> QED
    BY Zenon, <2>1 DEF Call, Return, Raise, observer, vars, Claim
<1>2. CASE /\ Claim(d, epoch[d], r, t)
           /\ tasks' = [tasks EXCEPT ![d][r].stage = "queued", ![d][r].token = t]
           /\ queue' = [queue EXCEPT ![d] = Append(@, r)]
  <2>1. Moved(d, r, [tasks[d][r] EXCEPT !.stage = "queued", !.token = t])
    BY Zenon, <1>2 DEF Moved, TurnsTypeOK
  <2> QED
    BY Zenon, <1>0, <1>2, <2>1 DEF Claims, Moves
<1>3. CASE /\ UNCHANGED vars \/ Claim(d, epoch[d], r, t)
           /\ \E a \in {"answered", "error"} : Finish(d, r, a)
  BY Zenon, <1>0, <1>3, Ending
<1> QED
  BY Zenon, <1>1, <1>2, <1>3

\* The worker of a conversation takes its next turn from the queue.
LEMMA TakeFromQueueMoves ==
    ASSUME TurnsTypeOK, QueueIsQueued, NEW d \in Drivers, NEW r \in Requests,
           TakeFromQueue(d, r)
    PROVE  Moves(d, r)
<1>1. tasks[d][r].stage = "queued"
  BY Zenon DEF TakeFromQueue, NextInConversation, QueueIsQueued
<1>2. Moved(d, r, [tasks[d][r] EXCEPT !.stage = "waiting"])
  BY Zenon DEF TakeFromQueue, Moved, TurnsTypeOK
<1> QED
  BY Zenon, <1>1, <1>2 DEF TakeFromQueue, Waits, Moves, observer, vars

\* A turn gets the Codex lane.
LEMMA EnterLaneMoves ==
    ASSUME TurnsTypeOK, NEW d \in Drivers, NEW r \in Requests, EnterLane(d, r)
    PROVE  Moves(d, r)
<1>1. Moved(d, r, [tasks[d][r] EXCEPT !.stage = "get", !.epoch = epoch[d]])
  BY Zenon DEF EnterLane, Moved, TurnsTypeOK
<1> QED
  BY Zenon, <1>1 DEF EnterLane, Enters, Moves, observer, vars

\* The steps of a turn in the lane.
LEMMA GetThreadMoves ==
    ASSUME TurnsTypeOK, NEW d \in Drivers, NEW r \in Requests, GetThread(d, r)
    PROVE  Moves(d, r)
<1> DEFINE y == [tasks[d][r] EXCEPT !.stage = "begin", !.seen = bindings[ConvOf[r]]]
<1>0. tasks[d][r].stage = "get" /\ UNCHANGED submitted
  BY Zenon DEF GetThread
<1>1. /\ UNCHANGED vars
      /\ \/ \E a \in {"answered", "error"} : Finish(d, r, a)
         \/ /\ tasks' = [tasks EXCEPT ![d][r].stage = "begin",
                                      ![d][r].seen = bindings[ConvOf[r]]]
            /\ UNCHANGED queue
  BY Zenon DEF GetThread, Call, Return, Raise, observer, vars
<1>2. CASE \E a \in {"answered", "error"} : Finish(d, r, a)
  BY Zenon, <1>0, <1>1, <1>2, Ending DEF Running
<1>3. CASE /\ tasks' = [tasks EXCEPT ![d][r].stage = "begin",
                                     ![d][r].seen = bindings[ConvOf[r]]]
           /\ UNCHANGED queue
  <2>1. Moved(d, r, y)
    BY Zenon, <1>3 DEF Moved, TurnsTypeOK
  <2>2. bindings[ConvOf[r]] \in Binding
    BY Zenon, TurnsAssumption DEF TurnsTypeOK
  <2>3. /\ y \in Task /\ y.stage = "begin"
        /\ y.token = tasks[d][r].token /\ y.seen = bindings[ConvOf[r]]
    BY ZenonT(30), <2>2, TaskOf DEF Task, Stages, Running
  <2> HIDE DEF y
  <2>4. Advances(d, r)
    BY Zenon, <1>0, <1>1, <1>3, <2>1, <2>3 DEF Advances, Running, Holding, Started
  <2> QED
    BY Zenon, <2>4 DEF Moves
<1> QED
  BY Zenon, <1>1, <1>2, <1>3

\* _begin_context of a turn, and its failure.
LEMMA BeginMoves ==
    ASSUME TurnsTypeOK, NEW d \in Drivers, NEW r \in Requests,
           BeginTurn(d, r) \/ BeginFails(d, r)
    PROVE  Moves(d, r)
<1>1. /\ tasks[d][r].stage = "begin"
      /\ UNCHANGED vars /\ UNCHANGED submitted
      /\ \/ \E s \in {"bind", "starting", "giveBack", "giveUp"} : GoTo(d, r, s)
         \/ tasks[d][r].seen.turn = "recovery_pending" /\ GoTo(d, r, "recover")
  BY Zenon DEF BeginTurn, BeginFails, observer, vars
<1> QED
  BY ZenonT(30), <1>1, GoingOn DEF Running, Holding, Started

\* The report of a turn that could not begin.
LEMMA ReportBeginFailureMoves ==
    ASSUME NEW d \in Drivers, NEW r \in Requests, ReportBeginFailure(d, r)
    PROVE  Moves(d, r)
<1>1. /\ tasks[d][r].stage \in {"giveBack", "giveUp"}
      /\ UNCHANGED submitted
      /\ Finish(d, r, "error")
      /\ UNCHANGED vars \/ Tells(d, r, "retryable") \/ Tells(d, r, "failed")
  BY ZenonT(30) DEF ReportBeginFailure, Report, Call, Raise, Tells, observer, vars
<1> QED
  BY SMTT(20), <1>1, Ending DEF Running, Claimless, UpdateStates, Terminal

\* The thread of the conversation is started, resumed or read.
LEMMA BindMoves ==
    ASSUME TurnsTypeOK, NEW d \in Drivers, NEW r \in Requests,
           BindThread(d, r) \/ RecoverThread(d, r) \/ ReadThreadFails(d, r)
    PROVE  Moves(d, r)
<1>1. /\ tasks[d][r].stage \in {"bind", "recover"}
      /\ UNCHANGED vars /\ UNCHANGED submitted
      /\ GoTo(d, r, "starting") \/ Finish(d, r, "error")
  BY Zenon DEF BindThread, RecoverThread, ReadThreadFails, Call, TurnState,
     Raise, observer, vars
<1> QED
  BY ZenonT(30), <1>1, GoingOn, Ending DEF Running, Holding, Started

\* The turn is marked as starting, and sent to the model.
LEMMA StartMoves ==
    ASSUME TurnsTypeOK, NEW d \in Drivers, NEW r \in Requests,
           MarkStarting(d, r) \/ SendTurn(d, r)
    PROVE  Moves(d, r)
<1>1. CASE MarkStarting(d, r)
  <2>1. /\ tasks[d][r].stage = "starting"
        /\ UNCHANGED vars /\ UNCHANGED submitted
        /\ GoTo(d, r, "send") \/ Finish(d, r, "error")
    BY Zenon, <1>1 DEF MarkStarting, Call, TurnState, Raise, observer, vars
  <2> QED
    BY ZenonT(30), <2>1, GoingOn, Ending DEF Running, Holding, Started
<1>2. CASE SendTurn(d, r)
  <2>1. /\ tasks[d][r].stage = "send"
        /\ UNCHANGED vars
        /\ Submits(r)
        /\ GoTo(d, r, "events")
    BY Zenon, <1>2 DEF SendTurn, Submits, observer, vars
  <2> QED
    BY ZenonT(30), <2>1, GoingOn DEF Running, Holding, Started
<1> QED
  BY Zenon, <1>1, <1>2

\* The events of a turn.
LEMMA EventMoves ==
    ASSUME TurnsTypeOK, NEW d \in Drivers, NEW r \in Requests,
           TurnEvent(d, r) \/ StaleEvent(d, r) \/ TurnEnds(d, r) \/ TurnBreaks(d, r)
    PROVE  Moves(d, r)
<1>1. /\ tasks[d][r].stage = "events"
      /\ UNCHANGED submitted
      /\ \E s \in {"events", "failed", "finished", "stopped"} : GoTo(d, r, s)
      /\ UNCHANGED vars \/ Tells(d, r, "in_flight")
  <2>1. CASE TurnEvent(d, r)
    BY Zenon, <2>1 DEF TurnEvent, Report, Call, TurnState, Tells, observer, vars
  <2>2. CASE StaleEvent(d, r) \/ TurnEnds(d, r) \/ TurnBreaks(d, r)
    BY Zenon, <2>2 DEF StaleEvent, TurnEnds, TurnBreaks, observer, vars
  <2> QED
    BY Zenon, <2>1, <2>2
<1> QED
  BY Zenon, <1>1, GoingOn DEF Running, Holding, Started, UpdateStates

\* The completion of a turn.
LEMMA FinishTurnMoves ==
    ASSUME TurnsTypeOK, NEW d \in Drivers, NEW r \in Requests, FinishTurn(d, r)
    PROVE  Moves(d, r)
<1>0. UNCHANGED submitted
  BY Zenon DEF FinishTurn
<1>1. CASE tasks[d][r].stage \in {"finished", "stopped"}
  <2>1. /\ UNCHANGED vars
        /\ \/ tasks[d][r].stage = "finished" /\ GoTo(d, r, "reportCompleted")
           \/ tasks[d][r].stage = "stopped" /\ GoTo(d, r, "reportInterrupted")
           \/ GoTo(d, r, "failed")
    BY Zenon, <1>1 DEF FinishTurn, Call, TurnState, observer, vars
  <2> QED
    BY ZenonT(30), <1>0, <1>1, <2>1, GoingOn DEF Running, Holding, Started
<1>2. CASE tasks[d][r].stage \in {"reportCompleted", "reportInterrupted"}
  <2>1. /\ \/ UNCHANGED vars
           \/ Tells(d, r, "completed") \/ Tells(d, r, "interrupted")
        /\ Finish(d, r, "answered") \/ GoTo(d, r, "failed")
    BY ZenonT(30), <1>2 DEF FinishTurn, Report, Call, Return, Tells, observer, vars
  <2> QED
    BY ZenonT(30), <1>0, <1>2, <2>1, GoingOn, Ending
    DEF Running, Holding, Started, Claimless, UpdateStates, Terminal
<1> QED
  BY ZenonT(30), <1>1, <1>2 DEF FinishTurn

\* The failure of a turn.
LEMMA FailTurnMoves ==
    ASSUME TurnsTypeOK, NEW d \in Drivers, NEW r \in Requests, FailTurn(d, r)
    PROVE  Moves(d, r)
<1>0. UNCHANGED submitted
  BY Zenon DEF FailTurn
<1>1. CASE tasks[d][r].stage = "failed"
  <2>1. UNCHANGED vars /\ \E s \in {"reportRun", "reportFailed"} : GoTo(d, r, s)
    BY Zenon, <1>1 DEF FailTurn, Call, TurnState, observer, vars
  <2> QED
    BY ZenonT(30), <1>0, <1>1, <2>1, GoingOn DEF Running, Holding, Started
<1>2. CASE tasks[d][r].stage \in {"reportRun", "reportFailed"}
  <2>1. /\ UNCHANGED vars \/ Tells(d, r, "completed") \/ Tells(d, r, "failed")
        /\ \/ tasks[d][r].stage = "reportRun" /\ GoTo(d, r, "reportFailed")
           \/ \E a \in {"answered", "error"} : Finish(d, r, a)
    BY ZenonT(30), <1>2 DEF FailTurn, Report, Call, Return, Raise, Tells, observer, vars
  <2> QED
    BY ZenonT(30), <1>0, <1>2, <2>1, GoingOn, Ending
    DEF Running, Holding, Started, Claimless, UpdateStates, Terminal
<1> QED
  BY Zenon, <1>1, <1>2 DEF FailTurn

\* An interrupt marks a running turn, or takes out one that is not running.
LEMMA InterruptActiveMoves ==
    ASSUME TurnsTypeOK, BindingIsKnown, NEW d \in Drivers, NEW r \in Requests,
           InterruptActive(d, r)
    PROVE  Moves(d, r)
<1> DEFINE a == IF CoordinatorContext(r) = ProviderContext(r) THEN "sent" ELSE "refused"
           y == [tasks[d][r] EXCEPT !.asked = a]
<1>1. a \in {"no", "refused", "sent"}
  BY Zenon
<1>2. tasks' = [tasks EXCEPT ![d][r].asked = a]
  BY Zenon DEF InterruptActive
<1> HIDE DEF a
<1>3. Moved(d, r, y)
  BY Zenon, <1>2 DEF Moved, TurnsTypeOK
<1>4. /\ y \in Task /\ y.stage = tasks[d][r].stage
      /\ y.token = tasks[d][r].token /\ y.seen = tasks[d][r].seen
  BY Zenon, <1>1, TaskOf DEF Task
<1> HIDE DEF y
<1>5. /\ tasks[d][r].stage \in Running
      /\ UNCHANGED vars /\ UNCHANGED queue /\ UNCHANGED submitted
  BY Zenon DEF InterruptActive, observer, vars
<1> QED
  BY ZenonT(30), <1>3, <1>4, <1>5 DEF Advances, Moves, BindingIsKnown

\* The interrupt of a turn that waits.
LEMMA InterruptPendingMoves ==
    ASSUME TurnsTypeOK, QueueIsQueued, NEW d \in Drivers, NEW r \in Requests,
           InterruptPending(d, r)
    PROVE  Moves(d, r)
<1>1. tasks[d][r].stage \in {"queued", "waiting"}
  BY Zenon DEF InterruptPending, NextInConversation, QueueIsQueued
<1>2. /\ UNCHANGED vars \/ Tells(d, r, "interrupted")
      /\ tasks' = [tasks EXCEPT ![d][r] = Idle]
      /\ queue' = [queue EXCEPT ![d] = Without(@, r)]
      /\ UNCHANGED submitted
  BY Zenon DEF InterruptPending, Report, Call, Tells, observer, vars
<1>3. Leaves(d, r)
  BY SMTT(20), <1>1, <1>2 DEF Leaves, Moved, Claimless, UpdateStates, Terminal
<1> QED
  BY Zenon, <1>3 DEF Moves

\* Whatever a turn does between two awaits is one of these moves.
LEMMA TurnStepMoves ==
    ASSUME TurnsTypeOK, QueueIsQueued, BindingIsKnown, NEW d \in Drivers,
           NEW r \in Requests,
           TurnStep(d, r) \/ InterruptActive(d, r) \/ InterruptPending(d, r)
    PROVE  Moves(d, r)
BY Zenon, ClaimMessageMoves, TakeFromQueueMoves, EnterLaneMoves,
   GetThreadMoves, BeginMoves,
   ReportBeginFailureMoves, BindMoves, StartMoves, EventMoves, FinishTurnMoves,
   FailTurnMoves, InterruptActiveMoves, InterruptPendingMoves
DEF TurnStep

-----------------------------------------------------------------------------
(* The parts of a step that the queue, the lane and the ledger do not see *)

\* The parts of a step that the queue, the lane and the ledger do not see.
DispKept ==
    /\ disp' \in Dispatch
    /\ disp'.request = disp.request
    /\ disp'.at = "idle" <=> disp.at = "idle"

\* A handler that ends answers the dispatch.
LEMMA FinishTypes ==
    ASSUME TurnsTypeOK, NEW d \in Drivers, NEW r \in Requests,
           NEW a \in {"answered", "error"}, Finish(d, r, a)
    PROVE  DispKept
BY Zenon DEF TurnsTypeOK, Finish, Dispatch, DispKept

\* What a call to the Observer does to the bindings keeps them known.
BindingsKept ==
    /\ bindings' \in [Conversations -> Binding]
    /\ answered' \subseteq Conversations \X TurnStates \X Requests
    /\ \A c \in Conversations :
          bindings'[c].turn # "idle" => bindings'[c].active \in Requests

\* A step that leaves the bindings alone.
LEMMA UnchangedBindings ==
    ASSUME TurnsTypeOK, BindingIsKnown, UNCHANGED <<bindings, answered>>
    PROVE  BindingsKept
BY Zenon DEF TurnsTypeOK, BindingIsKnown, BindingsKept

Marked(b, s, q) == [b EXCEPT !.turn = s, !.active = q]

\* A binding that is given a turn state and an active request.
LEMMA MarkedBinding ==
    ASSUME NEW b \in Binding, NEW s \in TurnStates, NEW q \in Requests \cup {NoRequest}
    PROVE  /\ Marked(b, s, q) \in Binding
           /\ Marked(b, s, q).turn = s
           /\ Marked(b, s, q).active = q
           /\ Marked(b, s, q).thread = b.thread
BY Zenon DEF Binding, Marked

\* turn.state marks the binding of its conversation, unless it is repeated.
LEMMA TurnStateMarks ==
    ASSUME TurnsTypeOK, NEW c \in Conversations, NEW s \in TurnStates,
           NEW q \in Requests \cup {NoRequest}, TurnState(c, s, q)
    PROVE  \/ <<c, s, q>> \in answered /\ UNCHANGED <<bindings, answered>>
           \/ /\ bindings' = [bindings EXCEPT ![c] = Marked(bindings[c], s, q)]
              /\ answered' = answered \cup {<<c, s, q>>}
BY Zenon DEF TurnState, Marked, TurnsTypeOK

\* turn.state writes the binding of the conversation.
LEMMA TurnStateBindings ==
    ASSUME TurnsTypeOK, BindingIsKnown, NEW c \in Conversations, NEW s \in TurnStates,
           NEW q \in Requests, TurnState(c, s, q)
    PROVE  BindingsKept
<1> DEFINE m == Marked(bindings[c], s, q)
<1>0. q \in Requests \cup {NoRequest} /\ bindings[c] \in Binding
  BY Zenon DEF TurnsTypeOK
<1>1. CASE UNCHANGED <<bindings, answered>>
  BY Zenon, <1>1, UnchangedBindings
<1>2. CASE /\ bindings' = [bindings EXCEPT ![c] = m]
           /\ answered' = answered \cup {<<c, s, q>>}
  <2>1. m \in Binding /\ m.active = q
    BY Zenon, <1>0, MarkedBinding
  <2> HIDE DEF m
  <2> QED
    BY SMTT(20), <1>2, <2>1 DEF BindingsKept, BindingIsKnown, TurnsTypeOK
<1> QED
  BY ZenonT(30), <1>0, <1>1, <1>2, TurnStateMarks

\* thread.bind gives the conversation a thread with no active request.
LEMMA BindThreadBindings ==
    ASSUME TurnsTypeOK, BindingIsKnown, NEW c \in Conversations,
           bindings' = [bindings EXCEPT ![c] = [NoBinding EXCEPT !.thread = "bound"]],
           UNCHANGED answered
    PROVE  BindingsKept
<1>1. /\ [NoBinding EXCEPT !.thread = "bound"] \in Binding
      /\ [NoBinding EXCEPT !.thread = "bound"].turn = "idle"
  BY Zenon DEF NoBinding, Binding, TurnStates
<1> QED
  BY Zenon, <1>1 DEF TurnsTypeOK, BindingIsKnown, BindingsKept

\* A turn's step changes neither posted nor the Drivers' processes, and keeps
\* the types of the dispatcher, the results, the bindings and the faults.
RestKept ==
    /\ UNCHANGED <<posted, status, epoch, offered>>
    /\ DispKept
    /\ done' \in [Drivers -> SUBSET Requests]
    /\ faults' \in 0 .. MaxFaults
    /\ BindingsKept

\* However a handler ends, the dispatch and the finished requests stay
\* what they are.
LEMMA HandlerTypes ==
    ASSUME TurnsTypeOK, NEW d \in Drivers, NEW r \in Requests,
           \/ UNCHANGED <<done, disp>>
           \/ Return(d, r) \/ Raise(d, r)
           \/ Finish(d, r, "answered") /\ UNCHANGED done
    PROVE  DispKept /\ done' \in [Drivers -> SUBSET Requests]
<1>1. CASE UNCHANGED <<done, disp>>
  BY Zenon, <1>1 DEF TurnsTypeOK, DispKept
<1>2. CASE Return(d, r)
  BY Zenon, <1>2, FinishTypes DEF Return, TurnsTypeOK
<1>3. CASE Raise(d, r)
  BY Zenon, <1>3, FinishTypes DEF Raise, TurnsTypeOK
<1>4. CASE Finish(d, r, "answered") /\ UNCHANGED done
  BY Zenon, <1>4, FinishTypes DEF TurnsTypeOK
<1> QED
  BY Zenon, <1>1, <1>2, <1>3, <1>4

\* What no step of a turn changes.
LEMMA TurnStepRest ==
    ASSUME TurnsTypeOK, BindingIsKnown, NEW d \in Drivers, NEW r \in Requests,
           TurnStep(d, r) \/ InterruptActive(d, r) \/ InterruptPending(d, r)
    PROVE  RestKept
<1> DEFINE c == ConvOf[r]
           Handler == \/ UNCHANGED <<done, disp>>
                      \/ Return(d, r) \/ Raise(d, r)
                      \/ Finish(d, r, "answered") /\ UNCHANGED done
           Faulty == UNCHANGED faults \/ (faults < MaxFaults /\ faults' = faults + 1)
           Still == UNCHANGED <<posted, status, epoch, offered>>
           Calls == \/ UNCHANGED <<bindings, answered>>
                    \/ \E s \in TurnStates : TurnState(c, s, r)
<1>0. c \in Conversations
  BY Zenon, TurnsAssumption
<1> HIDE DEF c
<1>k. ASSUME Handler, Faulty, Still, BindingsKept
      PROVE  RestKept
  <2>1. faults' \in 0 .. MaxFaults
    BY SMTT(20), <1>k, TurnsAssumption DEF TurnsTypeOK
  <2> QED
    BY Zenon, <1>k, <2>1, HandlerTypes DEF RestKept
<1>q. ASSUME Handler, Faulty, Still, Calls
      PROVE  RestKept
  BY Zenon, <1>0, <1>k, <1>q, UnchangedBindings, TurnStateBindings
<1> USE DEF process, GoTo, Fault
<1>1. CASE ClaimMessage(d, r)
  <2>1. Handler /\ Faulty /\ Still /\ UNCHANGED <<bindings, answered>>
    BY Zenon, <1>1 DEF ClaimMessage, Call, observer
  <2> QED
    BY Zenon, <2>1, <1>q
<1>2. CASE TakeFromQueue(d, r) \/ EnterLane(d, r) \/ InterruptActive(d, r)
  BY Zenon, <1>2, <1>q DEF TakeFromQueue, EnterLane, InterruptActive, observer
<1>3. CASE GetThread(d, r)
  <2>1. Handler /\ Faulty /\ Still /\ UNCHANGED <<bindings, answered>>
    BY Zenon, <1>3 DEF GetThread, Call, observer
  <2> QED
    BY Zenon, <2>1, <1>q
<1>4. CASE BeginTurn(d, r) \/ BeginFails(d, r) \/ ReadThreadFails(d, r)
  BY Zenon, <1>4, <1>q DEF BeginTurn, BeginFails, ReadThreadFails, observer
<1>5. CASE ReportBeginFailure(d, r)
  BY Zenon, <1>5, <1>q DEF ReportBeginFailure, Report, Call, observer
<1>6. CASE BindThread(d, r)
  <2>1. Handler /\ Faulty /\ Still
    BY Zenon, <1>6 DEF BindThread, Call
  <2>2. \/ UNCHANGED <<bindings, answered>>
        \/ /\ bindings' = [bindings EXCEPT ![c] = [NoBinding EXCEPT !.thread = "bound"]]
           /\ UNCHANGED answered
    BY Zenon, <1>6 DEF BindThread, Call, observer, c
  <2>3. BindingsKept
    BY Zenon, <1>0, <2>2, UnchangedBindings, BindThreadBindings
  <2> QED
    BY Zenon, <1>k, <2>1, <2>3
<1>7. CASE RecoverThread(d, r)
  <2>1. Handler /\ Faulty /\ Still
    BY Zenon, <1>7 DEF RecoverThread, Call
  <2>2. \/ UNCHANGED <<bindings, answered>>
        \/ TurnState(c, "interrupted", tasks[d][r].seen.active)
    BY Zenon, <1>7 DEF RecoverThread, Call, observer, c
  <2>3. tasks[d][r].seen.active \in Requests /\ "interrupted" \in TurnStates
    BY Zenon, <1>7 DEF RecoverThread, BindingIsKnown, TurnStates
  <2>4. BindingsKept
    BY Zenon, <1>0, <2>2, <2>3, UnchangedBindings, TurnStateBindings
  <2> QED
    BY Zenon, <1>k, <2>1, <2>4
<1>8. CASE MarkStarting(d, r)
  BY Zenon, <1>8, <1>q DEF MarkStarting, Call, observer, TurnStates, c
<1>9. CASE SendTurn(d, r) \/ StaleEvent(d, r) \/ TurnEnds(d, r) \/ TurnBreaks(d, r)
  BY Zenon, <1>9, <1>q DEF SendTurn, StaleEvent, TurnEnds, TurnBreaks, observer
<1>10. CASE TurnEvent(d, r)
  BY Zenon, <1>10, <1>q DEF TurnEvent, Report, Call, observer, TurnStates, c
<1>11. CASE FinishTurn(d, r)
  BY ZenonT(30), <1>11, <1>q DEF FinishTurn, Report, Call, observer, TurnStates, c
<1>12. CASE FailTurn(d, r)
  BY ZenonT(30), <1>12, <1>q DEF FailTurn, Report, Call, observer, TurnStates, c
<1>13. CASE InterruptPending(d, r)
  <2>1. /\ \/ disp' = disp
           \/ disp.at = "driver" /\ disp' = [disp EXCEPT !.at = "answered"]
        /\ UNCHANGED done /\ Faulty /\ Still /\ UNCHANGED <<bindings, answered>>
    BY Zenon, <1>13 DEF InterruptPending, Report, Call, observer
  <2>2. DispKept /\ done' \in [Drivers -> SUBSET Requests]
    BY Zenon, <2>1 DEF TurnsTypeOK, Dispatch, DispKept
  <2>3. faults' \in 0 .. MaxFaults
    BY SMTT(20), <2>1, TurnsAssumption DEF TurnsTypeOK
  <2> QED
    BY Zenon, <2>1, <2>2, <2>3, UnchangedBindings DEF RestKept
<1> QED
  BY Zenon, <1>1, <1>2, <1>3, <1>4, <1>5, <1>6, <1>7, <1>8, <1>9, <1>10, <1>11,
     <1>12, <1>13
  DEF TurnStep

-----------------------------------------------------------------------------
(* A step of a turn, as the binding of its conversation sees it *)

\* A turn's step, as the binding of its conversation sees it.  Early stages
\* are those whose right to go on depends on what the binding says.
Early == {"begin", "bind", "recover", "starting", "send"}

Unmarked == UNCHANGED <<bindings, answered, submitted>>

Marks(r, s, q) ==
    /\ bindings' = [bindings EXCEPT ![ConvOf[r]] = Marked(bindings[ConvOf[r]], s, q)]
    /\ answered' = answered \cup {<<ConvOf[r], s, q>>}
    /\ UNCHANGED submitted

Passes(d, r) ==
    /\ Unmarked
    /\ \/ tasks'[d][r].stage \notin Early
       \/ /\ tasks'[d][r].stage = tasks[d][r].stage \/ tasks[d][r].stage = "begin"
          /\ tasks'[d][r].stage = "send" => tasks[d][r].stage = "send"
          /\ tasks'[d][r].seen = tasks[d][r].seen

Looks(d, r) ==
    /\ Unmarked
    /\ bindings[ConvOf[r]].active # r
    /\ tasks'[d][r].stage = "begin" /\ tasks'[d][r].seen = bindings[ConvOf[r]]

Binds(d, r) ==
    /\ tasks[d][r].stage = "bind"
    /\ bindings' = [bindings EXCEPT ![ConvOf[r]] = [NoBinding EXCEPT !.thread = "bound"]]
    /\ UNCHANGED <<answered, submitted>>
    /\ \/ tasks'[d][r].stage \notin Early
       \/ tasks'[d][r].stage = "starting" /\ tasks'[d][r].seen = tasks[d][r].seen

Recovers(d, r) ==
    /\ tasks[d][r].stage = "recover"
    /\ Unmarked \/ \E q \in Requests : Marks(r, "interrupted", q)

Begins(d, r) ==
    /\ tasks[d][r].stage = "starting"
    /\ tasks'[d][r].stage \notin Early \ {"send"}
    /\ Marks(r, "starting", r) \/ (Unmarked /\ <<ConvOf[r], "starting", r>> \in answered)

Sends(d, r) ==
    /\ tasks[d][r].stage = "send" /\ tasks'[d][r].stage = "events"
    /\ UNCHANGED <<bindings, answered>>
    /\ Submits(r)

Runs(d, r) ==
    /\ tasks[d][r].stage \in Started /\ tasks'[d][r].stage \notin Early
    /\ \E s \in TurnStates \ {"starting"} : Marks(r, s, r)

Course(d, r) ==
    \/ Passes(d, r) \/ Looks(d, r) \/ Binds(d, r) \/ Recovers(d, r)
    \/ Begins(d, r) \/ Sends(d, r) \/ Runs(d, r)

\* The task after it has entered a stage.
LEMMA GoToTask ==
    ASSUME TurnsTypeOK, NEW d \in Drivers, NEW r \in Requests, NEW s \in Stages,
           GoTo(d, r, s)
    PROVE  tasks'[d][r].stage = s /\ tasks'[d][r].seen = tasks[d][r].seen
<1>1. tasks'[d][r] = [tasks[d][r] EXCEPT !.stage = s]
  BY SMTT(20), GoToMoves, MovedTask
<1> QED
  BY SMTT(20), <1>1, TaskOf, TaskAtStage

\* The task after its handler has ended.
LEMMA FinishTask ==
    ASSUME TurnsTypeOK, NEW d \in Drivers, NEW r \in Requests,
           Return(d, r) \/ Raise(d, r)
    PROVE  tasks'[d][r].stage \notin Early
<1>1. tasks'[d][r] = Idle
  BY SMTT(20), FinishMoves, MovedTask DEF Return, Raise
<1> QED
  BY Zenon, <1>1, IdleTask DEF Early

\* Before the lane a turn neither reads nor writes the binding.
LEMMA QueuedPasses ==
    ASSUME TurnsTypeOK, NEW d \in Drivers, NEW r \in Requests, Moves(d, r),
           tasks[d][r].stage \notin Running, UNCHANGED <<bindings, answered>>
    PROVE  Passes(d, r)
<1>1. tasks[d][r] \in Task
  BY Zenon, TaskOf
<1>2. ~Advances(d, r)
  BY Zenon DEF Advances
<1>3. CASE Claims(d, r)
  <2>1. PICK t \in Tokens :
          Moved(d, r, [tasks[d][r] EXCEPT !.stage = "queued", !.token = t])
    BY Zenon, <1>3 DEF Claims
  <2>2. tasks'[d][r] = [tasks[d][r] EXCEPT !.stage = "queued", !.token = t]
    BY SMTT(20), <2>1, MovedTask
  <2>3. tasks'[d][r].stage = "queued"
    BY Zenon, <1>1, <2>2 DEF Task
  <2> QED
    BY Zenon, <1>3, <2>3 DEF Claims, Passes, Unmarked, Early
<1>4. CASE Leaves(d, r)
  <2>1. tasks'[d][r] = Idle
    BY SMTT(20), <1>4, MovedTask DEF Leaves
  <2> QED
    BY ZenonT(30), <1>4, <2>1, IdleTask DEF Leaves, Passes, Unmarked, Early
<1>5. CASE Waits(d, r)
  <2>0. tasks'[d][r] = [tasks[d][r] EXCEPT !.stage = "waiting"]
    BY SMTT(20), <1>5, MovedTask DEF Waits
  <2>1. tasks'[d][r].stage = "waiting"
    BY Zenon, <1>1, <2>0 DEF Task
  <2> QED
    BY Zenon, <1>5, <2>1 DEF Waits, Passes, Unmarked, Early
<1>6. CASE Enters(d, r)
  <2>0. tasks'[d][r] = [tasks[d][r] EXCEPT !.stage = "get", !.epoch = epoch[d]]
    BY SMTT(20), <1>6, MovedTask DEF Enters
  <2>1. tasks'[d][r].stage = "get"
    BY Zenon, <1>1, <2>0 DEF Task
  <2> QED
    BY Zenon, <1>6, <2>1 DEF Enters, Passes, Unmarked, Early
<1> QED
  BY Zenon, <1>2, <1>3, <1>4, <1>5, <1>6 DEF Moves

\* A call of turn.state marks the binding with a request the Observer knows.
LEMMA TurnStateCourse ==
    ASSUME TurnsTypeOK, NEW r \in Requests, NEW s \in TurnStates,
           NEW q \in Requests, TurnState(ConvOf[r], s, q), UNCHANGED submitted
    PROVE  Marks(r, s, q) \/ (Unmarked /\ <<ConvOf[r], s, q>> \in answered)
<1>1. ConvOf[r] \in Conversations
  BY Zenon, TurnsAssumption
<1> QED
  BY Zenon, <1>1, TurnStateMarks DEF Marks, Unmarked

\* Each step of a turn is one of the course of a turn.
LEMMA TurnStepCourse ==
    ASSUME TurnsTypeOK, QueueIsQueued, BindingIsKnown, NEW d \in Drivers,
           NEW r \in Requests,
           TurnStep(d, r) \/ InterruptActive(d, r) \/ InterruptPending(d, r)
    PROVE  Course(d, r)
<1>0. TurnsTypeOK /\ Moves(d, r) /\ QueueIsQueued /\ BindingIsKnown
  BY Zenon, TurnStepMoves
<1> DEFINE Ends == Return(d, r) \/ Raise(d, r)
           On(s) == GoTo(d, r, s)
<1>e. Ends => tasks'[d][r].stage \notin Early
  BY Zenon, <1>0, FinishTask
<1>g. \A s \in Stages : On(s) =>
         tasks'[d][r].stage = s /\ tasks'[d][r].seen = tasks[d][r].seen
  BY Zenon, <1>0, GoToTask
<1> HIDE DEF Ends, On
<1>1. CASE ClaimMessage(d, r)
  <2>1. UNCHANGED <<bindings, answered>>
    BY Zenon, <1>1 DEF ClaimMessage, Call, observer
  <2>2. tasks[d][r].stage \notin Running
    BY Zenon, <1>1 DEF ClaimMessage, Running
  <2> QED
    BY Zenon, <1>0, <2>1, <2>2, QueuedPasses DEF Course
<1>2. CASE TakeFromQueue(d, r) \/ EnterLane(d, r)
  <2>1. UNCHANGED <<bindings, answered>>
    BY Zenon, <1>2 DEF TakeFromQueue, EnterLane, observer
  <2>2. tasks[d][r].stage \notin Running
    BY Zenon, <1>2 DEF TakeFromQueue, EnterLane
  <2> QED
    BY Zenon, <1>0, <2>1, <2>2, QueuedPasses DEF Course
<1>3. CASE InterruptPending(d, r)
  <2>1. UNCHANGED <<bindings, answered>>
    BY Zenon, <1>3 DEF InterruptPending, Report, Call, observer
  <2>2. tasks[d][r].stage \notin Running
    BY Zenon, <1>3 DEF InterruptPending
  <2> QED
    BY Zenon, <1>0, <2>1, <2>2, QueuedPasses DEF Course
<1>4. CASE InterruptActive(d, r)
  <2>1. Unmarked
    BY Zenon, <1>4 DEF InterruptActive, observer, Unmarked
  <2>2. /\ tasks'[d][r].stage = tasks[d][r].stage
        /\ tasks'[d][r].seen = tasks[d][r].seen
    <3>1. tasks[d][r] \in Task
      BY Zenon, <1>0, TaskOf
    <3>2. PICK a : tasks' = [tasks EXCEPT ![d][r].asked = a]
      BY Zenon, <1>4 DEF InterruptActive
    <3>3. tasks'[d][r] = [tasks[d][r] EXCEPT !.asked = a]
      BY ZenonT(30), <1>0, <3>2 DEF TurnsTypeOK
    <3> QED
      BY Zenon, <3>1, <3>3 DEF Task
  <2> QED
    BY Zenon, <2>1, <2>2 DEF Passes, Course
<1>5. CASE GetThread(d, r)
  <2>1. /\ Unmarked
        /\ \/ Ends
           \/ /\ bindings[ConvOf[r]].active # r
              /\ tasks' = [tasks EXCEPT ![d][r].stage = "begin",
                                        ![d][r].seen = bindings[ConvOf[r]]]
    BY Zenon, <1>5 DEF GetThread, Call, observer, Unmarked, Ends
  <2>2. CASE Ends
    BY Zenon, <1>e, <2>1, <2>2 DEF Passes, Course
  <2>3. CASE /\ bindings[ConvOf[r]].active # r
             /\ tasks' = [tasks EXCEPT ![d][r].stage = "begin",
                                       ![d][r].seen = bindings[ConvOf[r]]]
    <3>1. tasks[d][r] \in Task
      BY Zenon, <1>0, TaskOf
    <3>2. tasks'[d][r] = [tasks[d][r] EXCEPT !.stage = "begin", !.seen = bindings[ConvOf[r]]]
      BY Zenon, <1>0, <2>3 DEF TurnsTypeOK
    <3>3. tasks'[d][r].stage = "begin" /\ tasks'[d][r].seen = bindings[ConvOf[r]]
      BY Zenon, <3>1, <3>2 DEF Task
    <3> QED
      BY Zenon, <2>1, <2>3, <3>3 DEF Looks, Course
  <2> QED
    BY Zenon, <2>1, <2>2, <2>3
<1>6. CASE BeginTurn(d, r) \/ BeginFails(d, r)
  <2>1. /\ Unmarked /\ tasks[d][r].stage = "begin"
        /\ \E s \in {"bind", "recover", "starting", "giveBack", "giveUp"} : On(s)
    BY ZenonT(30), <1>6 DEF BeginTurn, BeginFails, observer, Unmarked, On
  <2>2. {"bind", "recover", "starting", "giveBack", "giveUp"} \subseteq Stages \ {"send"}
    BY Zenon DEF Stages, Running
  <2>3. tasks'[d][r].stage # "send" /\ tasks'[d][r].seen = tasks[d][r].seen
    BY Zenon, <1>g, <2>1, <2>2
  <2> QED
    BY Zenon, <2>1, <2>3 DEF Passes, Course
<1>7. CASE ReportBeginFailure(d, r) \/ ReadThreadFails(d, r)
  <2>1. Ends
    BY ZenonT(30), <1>7 DEF ReportBeginFailure, ReadThreadFails, Report, Call, Ends
  <2>2. Unmarked
    BY Zenon, <1>7 DEF ReportBeginFailure, ReadThreadFails, Report, Call, observer, Unmarked
  <2> QED
    BY ZenonT(30), <1>e, <2>1, <2>2 DEF Passes, Course
<1>8. CASE BindThread(d, r)
  <2>1. /\ tasks[d][r].stage = "bind" /\ UNCHANGED <<answered, submitted>>
        /\ \/ Unmarked /\ Ends
           \/ /\ bindings' = [bindings EXCEPT ![ConvOf[r]] =
                                [NoBinding EXCEPT !.thread = "bound"]]
              /\ On("starting") \/ Ends
    BY Zenon, <1>8 DEF BindThread, Call, observer, Unmarked, Ends, On
  <2>2. "starting" \in Stages
    BY Zenon DEF Stages, Running
  <2>3. CASE Unmarked /\ Ends
    BY Zenon, <1>e, <2>3 DEF Passes, Course
  <2>4. CASE /\ bindings' = [bindings EXCEPT ![ConvOf[r]] =
                                [NoBinding EXCEPT !.thread = "bound"]]
             /\ On("starting") \/ Ends
    <3>1. \/ tasks'[d][r].stage \notin Early
          \/ tasks'[d][r].stage = "starting" /\ tasks'[d][r].seen = tasks[d][r].seen
      BY Zenon, <1>e, <1>g, <2>2, <2>4
    <3>2. Binds(d, r)
      BY Zenon, <2>1, <2>4, <3>1 DEF Binds
    <3> QED
      BY Zenon, <3>2 DEF Course
  <2> QED
    BY Zenon, <2>1, <2>3, <2>4
<1>9. CASE RecoverThread(d, r)
  <2>1. /\ tasks[d][r].stage = "recover" /\ UNCHANGED submitted
        /\ Unmarked \/ TurnState(ConvOf[r], "interrupted", tasks[d][r].seen.active)
    BY ZenonT(30), <1>9 DEF RecoverThread, Call, observer, Unmarked
  <2>2. tasks[d][r].seen.active \in Requests /\ "interrupted" \in TurnStates
    BY ZenonT(30), <1>0, <2>1 DEF BindingIsKnown, TurnStates
  <2>3. Unmarked \/ Marks(r, "interrupted", tasks[d][r].seen.active)
    BY ZenonT(30), <1>0, <2>1, <2>2, TurnStateCourse
  <2> QED
    BY ZenonT(30), <2>1, <2>2, <2>3 DEF Recovers, Course
<1>10. CASE MarkStarting(d, r)
  <2>1. /\ tasks[d][r].stage = "starting" /\ UNCHANGED submitted
        /\ \/ Unmarked /\ Ends
           \/ TurnState(ConvOf[r], "starting", r) /\ (On("send") \/ Ends)
    BY ZenonT(30), <1>10 DEF MarkStarting, Call, observer, Unmarked, Ends, On
  <2>2. "send" \in Stages /\ "starting" \in TurnStates
    BY Zenon DEF Stages, Running, TurnStates
  <2>3. CASE Unmarked /\ Ends
    BY Zenon, <1>e, <2>3 DEF Passes, Course
  <2>4. CASE TurnState(ConvOf[r], "starting", r) /\ (On("send") \/ Ends)
    <3>1. Marks(r, "starting", r) \/ (Unmarked /\ <<ConvOf[r], "starting", r>> \in answered)
      BY ZenonT(30), <1>0, <2>1, <2>2, <2>4, TurnStateCourse
    <3>2. tasks'[d][r].stage \notin Early \ {"send"}
      BY Zenon, <1>e, <1>g, <2>2, <2>4
    <3>3. Begins(d, r)
      BY Zenon, <2>1, <3>1, <3>2 DEF Begins
    <3> QED
      BY Zenon, <3>3 DEF Course
  <2> QED
    BY ZenonT(30), <2>1, <2>3, <2>4
<1>11. CASE SendTurn(d, r)
  <2>1. /\ tasks[d][r].stage = "send" /\ UNCHANGED <<bindings, answered>>
        /\ Submits(r) /\ On("events")
    BY Zenon, <1>11 DEF SendTurn, observer, Submits, On
  <2>2. "events" \in Stages
    BY Zenon DEF Stages, Running
  <2>3. Sends(d, r)
    BY Zenon, <1>g, <2>1, <2>2 DEF Sends
  <2> QED
    BY Zenon, <2>3 DEF Course
<1>12. CASE StaleEvent(d, r) \/ TurnEnds(d, r) \/ TurnBreaks(d, r)
  <2>1. Unmarked /\ \E s \in {"failed", "finished", "stopped"} : On(s)
    BY Zenon, <1>12 DEF StaleEvent, TurnEnds, TurnBreaks, observer, Unmarked, On
  <2>2. {"failed", "finished", "stopped"} \subseteq Stages \ Early
    BY Zenon DEF Stages, Running, Early
  <2>3. tasks'[d][r].stage \notin Early
    BY Zenon, <1>g, <2>1, <2>2
  <2> QED
    BY Zenon, <2>1, <2>3 DEF Passes, Course
<1>13. CASE TurnEvent(d, r) \/ FinishTurn(d, r) \/ FailTurn(d, r)
  <2> DEFINE Later == {"events", "failed", "reportCompleted", "reportInterrupted",
                       "reportRun", "reportFailed"}
             Calls == \E s \in TurnStates \ {"starting"} : TurnState(ConvOf[r], s, r)
             Same == UNCHANGED <<bindings, answered>>
             Goes == Ends \/ \E s \in Later : On(s)
  <2>0. /\ "in_progress" \in TurnStates \ {"starting"}
        /\ "completed" \in TurnStates \ {"starting"}
        /\ "interrupted" \in TurnStates \ {"starting"}
    BY Zenon DEF TurnStates
  <2>1. tasks[d][r].stage \in Started /\ UNCHANGED submitted
    BY ZenonT(30), <1>13 DEF TurnEvent, FinishTurn, FailTurn, Started
  <2>2. Goes
    <3>1. CASE TurnEvent(d, r)
      BY Zenon, <3>1 DEF TurnEvent, Report, Call, On
    <3>2. CASE FinishTurn(d, r)
      BY ZenonT(30), <3>2 DEF FinishTurn, Report, Call, On, Ends
    <3>3. CASE FailTurn(d, r)
      BY Zenon, <3>3 DEF FailTurn, Report, Call, On, Ends
    <3> QED
      BY Zenon, <1>13, <3>1, <3>2, <3>3
  <2>3. Same \/ Calls
    <3>1. CASE TurnEvent(d, r)
      BY ZenonT(30), <2>0, <3>1 DEF TurnEvent, Report, Call, observer
    <3>2. CASE FinishTurn(d, r)
      BY ZenonT(30), <2>0, <3>2 DEF FinishTurn, Report, Call, observer
    <3>3. CASE FailTurn(d, r)
      BY ZenonT(30), <2>0, <3>3 DEF FailTurn, Report, Call, observer
    <3> QED
      BY Zenon, <1>13, <3>1, <3>2, <3>3
  <2>4. Later \subseteq Stages /\ Later \cap Early = {}
    BY Zenon DEF Stages, Running, Early
  <2>5. tasks'[d][r].stage \notin Early
    <3> HIDE DEF Later
    <3> QED
      BY Zenon, <1>e, <1>g, <2>2, <2>4
  <2>6. CASE Same
    BY Zenon, <2>1, <2>5, <2>6 DEF Passes, Unmarked, Course
  <2>7. CASE Calls
    <3>1. PICK s \in TurnStates \ {"starting"} : TurnState(ConvOf[r], s, r)
      BY Zenon, <2>7
    <3>2. Marks(r, s, r) \/ Unmarked
      BY Zenon, <1>0, <2>1, <3>1, TurnStateCourse
    <3> QED
      BY ZenonT(30), <2>1, <2>5, <3>2 DEF Passes, Runs, Course
  <2> QED
    BY Zenon, <2>3, <2>6, <2>7
<1> QED
  BY Zenon, <1>1, <1>2, <1>3, <1>4, <1>5, <1>6, <1>7, <1>8, <1>9, <1>10, <1>11,
     <1>12, <1>13
  DEF TurnStep

\* A turn changes the binding of its own conversation only, and submits its
\* own request only.
LEMMA CourseElsewhere ==
    ASSUME TurnsTypeOK, NEW d \in Drivers, NEW q \in Requests, Course(d, q),
           NEW r \in Requests, ConvOf[q] # ConvOf[r]
    PROVE  /\ bindings'[ConvOf[r]] = bindings[ConvOf[r]]
           /\ submitted'[r] = submitted[r]
           /\ <<ConvOf[r], "starting", r>> \in answered'
                 => <<ConvOf[r], "starting", r>> \in answered
<1> DEFINE c == ConvOf[r]
<1>0. c \in Conversations /\ ConvOf[q] \in Conversations /\ r # q
  BY Zenon, TurnsAssumption
<1>1. CASE Unmarked
  BY Zenon, <1>1 DEF Unmarked
<1>2. CASE \E s \in TurnStates, p \in Requests : Marks(q, s, p)
  <2>1. PICK s \in TurnStates, p \in Requests : Marks(q, s, p)
    BY Zenon, <1>2
  <2>2. bindings'[c] = bindings[c] /\ submitted'[r] = submitted[r]
    BY Zenon, <1>0, <2>1 DEF Marks, TurnsTypeOK
  <2>3. <<c, "starting", r>> # <<ConvOf[q], s, p>>
    BY Zenon
  <2>4. <<c, "starting", r>> \in answered' => <<c, "starting", r>> \in answered
    BY Zenon, <2>1, <2>3 DEF Marks
  <2> QED
    BY ZenonT(30), <2>2, <2>4
<1>3. CASE Binds(d, q)
  BY Zenon, <1>0, <1>3 DEF Binds, TurnsTypeOK
<1>4. CASE Sends(d, q)
  BY Zenon, <1>0, <1>4 DEF Sends, Submits, TurnsTypeOK
<1>5. "starting" \in TurnStates /\ "interrupted" \in TurnStates
  BY Zenon DEF TurnStates
<1> QED
  BY ZenonT(30), <1>1, <1>2, <1>3, <1>4, <1>5 DEF Course, Passes, Looks, Recovers, Begins, Runs

-----------------------------------------------------------------------------
(* The queue, and what the kinds of move have in common *)

\* What the sequence operators do, one fact at a time.
LEMMA Appended ==
    ASSUME NEW q \in Seq(Requests), NEW e \in Requests
    PROVE  /\ Append(q, e) \in Seq(Requests)
           /\ DOMAIN q = 1 .. Len(q) /\ DOMAIN Append(q, e) = 1 .. Len(q) + 1
           /\ \A i \in 1 .. Len(q) : Append(q, e)[i] = q[i]
           /\ Append(q, e)[Len(q) + 1] = e
BY SMTT(20)

\* What a sequence of two parts has at its places.
LEMMA Joined ==
    ASSUME NEW S, NEW a \in Seq(S), NEW b \in Seq(S)
    PROVE  /\ a \o b \in Seq(S)
           /\ Len(a \o b) = Len(a) + Len(b)
           /\ \A i \in 1 .. Len(a) + Len(b) :
                 (a \o b)[i] = IF i <= Len(a) THEN a[i] ELSE b[i - Len(a)]
BY SMTT(20)

\* What a part of a sequence has at its places.
LEMMA Cut ==
    ASSUME NEW S, NEW q \in Seq(S), NEW m \in 1 .. Len(q) + 1, NEW n \in m - 1 .. Len(q)
    PROVE  /\ SubSeq(q, m, n) \in Seq(S)
           /\ Len(SubSeq(q, m, n)) = n - m + 1
           /\ \A i \in 1 .. n - m + 1 : SubSeq(q, m, n)[i] = q[m + i - 1]
BY SMTT(20)

\* Taking a request out of a queue that holds it at most once.
LEMMA WithoutProperties ==
    ASSUME NEW S, NEW q \in Seq(S), NEW r, \A i, j \in DOMAIN q : q[i] = q[j] => i = j
    PROVE  /\ Without(q, r) \in Seq(S)
           /\ \A i \in DOMAIN Without(q, r) :
                 Without(q, r)[i] # r /\ \E j \in DOMAIN q : Without(q, r)[i] = q[j]
           /\ \A i, j \in DOMAIN Without(q, r) :
                 Without(q, r)[i] = Without(q, r)[j] => i = j
<1> DEFINE k == CHOOSE i \in DOMAIN q : q[i] = r
           w == Without(q, r)
<1>1. CASE \E i \in DOMAIN q : q[i] = r
  <2>1. k \in DOMAIN q /\ q[k] = r
    BY Zenon, <1>1
  <2>2. w = SubSeq(q, 1, k - 1) \o SubSeq(q, k + 1, Len(q))
    BY Zenon, <1>1 DEF Without
  <2> HIDE DEF k
  <2> DEFINE a == SubSeq(q, 1, k - 1)
             b == SubSeq(q, k + 1, Len(q))
  <2>3. /\ k \in 1 .. Len(q) /\ Len(q) \in Nat
        /\ \A i \in 1 .. Len(q) : q[i] \in S
    BY SMTT(20), <2>1
  <2>4. /\ a \in Seq(S) /\ Len(a) = k - 1
        /\ \A i \in 1 .. k - 1 : a[i] = q[i]
    <3>1. 1 \in 1 .. Len(q) + 1 /\ k - 1 \in 1 - 1 .. Len(q)
      BY SMTT(20), <2>3
    <3>2. /\ a \in Seq(S) /\ Len(a) = (k - 1) - 1 + 1
          /\ \A i \in 1 .. (k - 1) - 1 + 1 : a[i] = q[1 + i - 1]
      BY SMTT(20), <3>1, Cut
    <3> HIDE DEF a
    <3> QED
      BY SMTT(20), <2>3, <3>2
  <2>5. /\ b \in Seq(S) /\ Len(b) = Len(q) - k
        /\ \A i \in 1 .. Len(q) - k : b[i] = q[k + i]
    <3>1. k + 1 \in 1 .. Len(q) + 1 /\ Len(q) \in (k + 1) - 1 .. Len(q)
      BY SMTT(20), <2>3
    <3>2. /\ b \in Seq(S) /\ Len(b) = Len(q) - (k + 1) + 1
          /\ \A i \in 1 .. Len(q) - (k + 1) + 1 : b[i] = q[(k + 1) + i - 1]
      BY SMTT(20), <3>1, Cut
    <3> HIDE DEF b
    <3> QED
      BY SMTT(20), <2>3, <3>2
  <2>6. /\ w \in Seq(S) /\ Len(w) = Len(a) + Len(b)
        /\ \A i \in 1 .. Len(a) + Len(b) :
              w[i] = IF i <= Len(a) THEN a[i] ELSE b[i - Len(a)]
    BY SMTT(20), <2>2, <2>4, <2>5, Joined
  <2> DEFINE n == Len(q)
  <2> HIDE DEF a, b, w
  <2>7. /\ n \in Nat /\ k \in 1 .. n /\ DOMAIN q = 1 .. n /\ DOMAIN w = 1 .. n - 1
        /\ \A i \in 1 .. n - 1 : w[i] = IF i <= k - 1 THEN a[i] ELSE b[i - (k - 1)]
    <3>1. /\ DOMAIN w = 1 .. Len(w) /\ Len(w) = n - 1 /\ DOMAIN q = 1 .. n
      BY SMTT(20), <2>3, <2>4, <2>5, <2>6
    <3>2. Len(a) = k - 1 /\ Len(a) + Len(b) = n - 1
      BY SMTT(20), <2>3, <2>4, <2>5
    <3> QED
      BY Zenon, <2>3, <2>6, <3>1, <3>2
  <2>8. ASSUME NEW i \in 1 .. n - 1
        PROVE  w[i] = IF i < k THEN q[i] ELSE q[i + 1]
    <3>1. CASE i < k
      <4>1. i \in 1 .. k - 1 /\ i <= k - 1
        BY SMTT(20), <2>7, <3>1
      <4> QED
        BY Zenon, <2>4, <2>7, <3>1, <4>1
    <3>2. CASE ~(i < k)
      <4>1. i - (k - 1) \in 1 .. n - k /\ k + (i - (k - 1)) = i + 1 /\ ~(i <= k - 1)
        BY SMTT(20), <2>7, <3>2
      <4>2. b[i - (k - 1)] = q[i + 1]
        BY Zenon, <2>5, <4>1
      <4> QED
        BY Zenon, <2>7, <3>2, <4>1, <4>2
    <3> QED
      BY Zenon, <3>1, <3>2
  <2> DEFINE at(i) == IF i < k THEN i ELSE i + 1
  <2>9. \A i \in 1 .. n - 1 : at(i) \in 1 .. n /\ at(i) # k
    BY SMTT(20), <2>7
  <2>10. \A i, j \in 1 .. n - 1 : at(i) = at(j) => i = j
    BY SMTT(20), <2>7
  <2>11. \A i \in 1 .. n - 1 : w[i] = q[at(i)]
    BY Zenon, <2>8
  <2> HIDE DEF n, at
  <2>12. \A i \in DOMAIN w : w[i] # r /\ \E j \in DOMAIN q : w[i] = q[j]
    BY SMTT(20), <2>1, <2>7, <2>9, <2>11
  <2>13. \A i, j \in DOMAIN w : w[i] = w[j] => i = j
    BY SMTT(20), <2>7, <2>9, <2>10, <2>11
  <2> QED
    BY ZenonT(30), <2>6, <2>12, <2>13 DEF w
<1>2. CASE ~\E i \in DOMAIN q : q[i] = r
  BY Zenon, <1>2 DEF Without
<1> QED
  BY ZenonT(30), <1>1, <1>2

\* What the five kinds of move have in common, for a turn that becomes y.
LaneStep(d, r, y) ==
    /\ Moved(d, r, y)
    /\ tasks[d][r].stage # "idle"
    /\ y.stage \in Running => \/ tasks[d][r].stage \in Running
                              \/ \A q \in Requests : tasks[d][q].stage \notin Running
    /\ y.stage \in Started => tasks[d][r].stage \in Started \/ Submits(r)
    /\ UNCHANGED submitted \/ Submits(r)
    /\ y.seen \in {tasks[d][r].seen, bindings[ConvOf[r]], NoBinding}
    /\ y.stage = "recover" => y.seen.turn = "recovery_pending"

QueueStep(d, r, y) ==
    \/ tasks[d][r].stage # "queued" /\ y.stage # "queued" /\ UNCHANGED queue
    \/ y.stage # "queued" /\ queue' = [queue EXCEPT ![d] = Without(@, r)]
    \/ /\ tasks[d][r].stage = "claim" /\ y.stage = "queued"
       /\ queue' = [queue EXCEPT ![d] = Append(@, r)]

ClaimStep(d, r, y) ==
    \/ /\ tasks[d][r].stage = "claim"
       /\ \E t \in Tokens : /\ Claim(d, epoch[d], r, t)
                            /\ \/ y.stage = "queued" /\ y.token = t
                               \/ y.stage = "idle" /\ y.token = NoToken
    \/ /\ UNCHANGED vars
       /\ \/ y.stage = "idle" /\ y.token = NoToken
          \/ /\ tasks[d][r].stage \notin Claimless /\ y.stage \notin Claimless
             /\ y.token = tasks[d][r].token
             /\ y.stage \in Holding => tasks[d][r].stage \in Holding
    \/ /\ tasks[d][r].stage \notin Claimless
       /\ \/ y.stage = "idle" /\ y.token = NoToken
          \/ /\ y.stage \notin Claimless
             /\ y.token = tasks[d][r].token
             /\ y.stage \in Holding => tasks[d][r].stage \in Holding
       /\ \E s \in UpdateStates :
             /\ Tells(d, r, s)
             /\ s = "in_flight" \/ y.stage \notin Holding
             /\ s = "in_flight" \/ y.stage # tasks[d][r].stage
             /\ s = "completed" => tasks[d][r].stage \in Started

Step(d, r, y) == LaneStep(d, r, y) /\ QueueStep(d, r, y) /\ ClaimStep(d, r, y)

\* The task of r gets a next state, the others are left alone.
OneTask(d, r, y) ==
    \A e \in Drivers, q \in Requests :
        tasks'[e][q] = IF e = d /\ q = r THEN y ELSE tasks[e][q]

\* A step of a turn moves one task, which is not idle.
LEMMA StepTask ==
    ASSUME TurnsTypeOK, NEW d \in Drivers, NEW r \in Requests, NEW y \in Task,
           Step(d, r, y)
    PROVE  OneTask(d, r, y) /\ tasks[d][r].stage # "idle"
<1>1. Moved(d, r, y) /\ tasks[d][r].stage # "idle"
  BY Zenon DEF Step, LaneStep
<1> QED
  BY SMTT(20), <1>1, MovedTask DEF OneTask

\* Each move of a task gives it a next state.
LEMMA MovesStep ==
    ASSUME TurnsTypeOK, NEW d \in Drivers, NEW r \in Requests, Moves(d, r)
    PROVE  \E y \in Task : Step(d, r, y)
<1> DEFINE x == tasks[d][r]
<1>0. x \in Task
  BY Zenon, TaskOf
<1>1. CASE Claims(d, r)
  <2>1. PICK t \in Tokens : /\ Claim(d, epoch[d], r, t)
                            /\ Moved(d, r, [x EXCEPT !.stage = "queued", !.token = t])
    BY Zenon, <1>1 DEF Claims
  <2> DEFINE y == [x EXCEPT !.stage = "queued", !.token = t]
  <2>2. y \in Task /\ y.stage = "queued" /\ y.token = t /\ y.seen = x.seen
    BY Zenon, <1>0 DEF Task, Stages
  <2> HIDE DEF y
  <2>3. Step(d, r, y)
    BY Zenon, <1>1, <2>1, <2>2
    DEF Step, LaneStep, QueueStep, ClaimStep, Claims, Running, Started, y
  <2> QED
    BY Zenon, <2>2, <2>3
<1>2. CASE Leaves(d, r)
  <2>1. Step(d, r, Idle)
    BY ZenonT(30), <1>2, IdleTask
    DEF Step, LaneStep, QueueStep, ClaimStep, Leaves, Running, Started, Holding, Claimless
  <2> QED
    BY Zenon, <2>1, IdleTask
<1>3. CASE Waits(d, r)
  <2> DEFINE y == [x EXCEPT !.stage = "waiting"]
  <2>2. y \in Task /\ y.stage = "waiting" /\ y.token = x.token /\ y.seen = x.seen
    BY Zenon, <1>0, TaskAtStage DEF Stages
  <2> HIDE DEF y
  <2>3. Step(d, r, y)
    BY Zenon, <1>3, <2>2
    DEF Step, LaneStep, QueueStep, ClaimStep, Waits, Running, Started, Holding, Claimless, y
  <2> QED
    BY Zenon, <2>2, <2>3
<1>4. CASE Enters(d, r)
  <2> DEFINE y == [x EXCEPT !.stage = "get", !.epoch = epoch[d]]
  <2>1. epoch[d] \in Nat
    BY Zenon DEF TurnsTypeOK
  <2>2. y \in Task /\ y.stage = "get" /\ y.token = x.token /\ y.seen = x.seen
    BY ZenonT(30), <1>0, <2>1 DEF Task, Stages, Running
  <2> HIDE DEF y
  <2>3. Step(d, r, y)
    BY Zenon, <1>4, <2>2
    DEF Step, LaneStep, QueueStep, ClaimStep, Enters, Started, Holding, Claimless, y
  <2> QED
    BY Zenon, <2>2, <2>3
<1>5. CASE Advances(d, r)
  <2>1. PICK y \in Task :
          /\ Moved(d, r, y)
          /\ y.stage \in Running
          /\ y.token = x.token
          /\ y.seen \in {x.seen, bindings[ConvOf[r]]}
          /\ y.stage = "recover" => y.seen.turn = "recovery_pending"
          /\ y.stage \in Holding => x.stage \in Holding
          /\ y.stage \in Started => x.stage \in Started \/ Submits(r)
          /\ \/ UNCHANGED vars
             \/ \E s \in UpdateStates :
                   /\ Tells(d, r, s)
                   /\ s = "in_flight" \/ y.stage \notin Holding
                   /\ s = "in_flight" \/ y.stage # x.stage
                   /\ s = "completed" => x.stage \in Started
    BY Zenon, <1>5 DEF Advances
  <2>2. /\ x.stage \in Running /\ UNCHANGED queue
        /\ UNCHANGED submitted \/ Submits(r)
    BY ZenonT(30), <1>5 DEF Advances
  <2>3. /\ x.stage \notin Claimless /\ y.stage \notin Claimless
        /\ x.stage \notin {"idle", "queued"} /\ y.stage \notin {"idle", "queued"}
    BY ZenonT(30), <2>1, <2>2 DEF Running, Claimless
  <2>4. LaneStep(d, r, y)
    BY ZenonT(30), <2>1, <2>2, <2>3 DEF LaneStep
  <2>5. QueueStep(d, r, y) /\ ClaimStep(d, r, y)
    BY ZenonT(30), <2>1, <2>2, <2>3 DEF QueueStep, ClaimStep
  <2> QED
    BY Zenon, <2>4, <2>5 DEF Step
<1> QED
  BY Zenon, <1>1, <1>2, <1>3, <1>4, <1>5 DEF Moves

\* The types of the parts a move changes.
LEMMA StepTypes ==
    ASSUME TurnsTypeOK, QueueIsQueued, NEW d \in Drivers, NEW r \in Requests,
           NEW y \in Task, Step(d, r, y)
    PROVE  /\ tasks' \in [Drivers -> [Requests -> Task]]
           /\ queue' \in [Drivers -> Seq(Requests)]
           /\ submitted' \in [Requests -> Nat]
<1>1. tasks' \in [Drivers -> [Requests -> Task]]
  BY ZenonT(30) DEF Step, LaneStep, Moved, TurnsTypeOK
<1>2. queue' \in [Drivers -> Seq(Requests)]
  <2>1. queue[d] \in Seq(Requests)
    BY Zenon DEF TurnsTypeOK
  <2>2. Append(queue[d], r) \in Seq(Requests)
    BY Zenon, <2>1, Appended
  <2>3. \A i, j \in DOMAIN queue[d] : queue[d][i] = queue[d][j] => i = j
    BY Zenon DEF QueueIsQueued
  <2>4. Without(queue[d], r) \in Seq(Requests)
    BY Zenon, <2>1, <2>3, WithoutProperties
  <2> QED
    BY ZenonT(30), <2>2, <2>4 DEF Step, QueueStep, TurnsTypeOK
<1>3. submitted' \in [Requests -> Nat]
  <2>1. submitted \in [Requests -> Nat]
    BY Zenon DEF TurnsTypeOK
  <2>2. UNCHANGED submitted \/ Submits(r)
    BY Zenon DEF Step, LaneStep
  <2> QED
    BY SMTT(20), <2>1, <2>2 DEF Submits
<1> QED
  BY Zenon, <1>1, <1>2, <1>3

\* The bindings that tasks have seen are ones that conversations had.
LEMMA StepBindings ==
    ASSUME TurnsTypeOK, BindingIsKnown, NEW d \in Drivers,
           NEW r \in Requests, NEW y \in Task, Step(d, r, y), BindingsKept
    PROVE  BindingIsKnown'
<1>1. OneTask(d, r, y)
  BY Zenon, StepTask
<1>2. /\ y.seen.turn # "idle" => y.seen.active \in Requests
      /\ y.stage = "recover" => y.seen.turn = "recovery_pending"
  <2>1. ConvOf[r] \in Conversations /\ NoBinding.turn = "idle"
    BY Zenon, TurnsAssumption DEF NoBinding
  <2> QED
    BY ZenonT(30), <2>1 DEF Step, LaneStep, BindingIsKnown
<1>3. ASSUME NEW e \in Drivers, NEW q \in Requests
      PROVE  /\ tasks'[e][q].seen.turn # "idle" => tasks'[e][q].seen.active \in Requests
             /\ tasks'[e][q].stage = "recover" =>
                  tasks'[e][q].seen.turn = "recovery_pending"
  <2>1. tasks'[e][q] = y \/ tasks'[e][q] = tasks[e][q]
    BY Zenon, <1>1 DEF OneTask
  <2> QED
    BY ZenonT(30), <1>2, <2>1 DEF BindingIsKnown
<1> QED
  BY ZenonT(30), <1>3 DEF BindingIsKnown, BindingsKept

\* The queue holds each queued turn once.
LEMMA StepQueue ==
    ASSUME TurnsTypeOK, QueueIsQueued, NEW d \in Drivers,
           NEW r \in Requests, NEW y \in Task, Step(d, r, y)
    PROVE  QueueIsQueued'
<1>1. /\ tasks'[d][r] = y
      /\ \A q \in Requests : q # r => tasks'[d][q] = tasks[d][q]
      /\ \A e \in Drivers, q \in Requests : e # d => tasks'[e][q] = tasks[e][q]
  <2>1. OneTask(d, r, y)
    BY Zenon, StepTask
  <2> QED
    BY ZenonT(30), <2>1 DEF OneTask
<1>2. /\ queue[d] \in Seq(Requests)
      /\ \A i \in DOMAIN queue[d] : tasks[d][queue[d][i]].stage = "queued"
      /\ \A i, j \in DOMAIN queue[d] : queue[d][i] = queue[d][j] => i = j
  BY ZenonT(30) DEF TurnsTypeOK, QueueIsQueued
<1>e. \A e \in Drivers : \A i \in DOMAIN queue[e] : queue[e][i] \in Requests
  <2>1. \A e \in Drivers : queue[e] \in Seq(Requests)
    BY Zenon DEF TurnsTypeOK
  <2> QED
    BY SMTT(20), <2>1
<1> DEFINE Good(e, w) == /\ \A i \in DOMAIN w : tasks'[e][w[i]].stage = "queued"
                         /\ \A i, j \in DOMAIN w : w[i] = w[j] => i = j
           Fine(w) == Good(d, w)
<1>3. ASSUME NEW w, Fine(w), queue' = [queue EXCEPT ![d] = w]
      PROVE  QueueIsQueued'
  <2>0. queue'[d] = w /\ \A e \in Drivers : e # d => queue'[e] = queue[e]
    BY Zenon, <1>3 DEF TurnsTypeOK
  <2>1. ASSUME NEW e \in Drivers, e # d PROVE Good(e, queue[e])
    <3>1. \A i, j \in DOMAIN queue[e] : queue[e][i] = queue[e][j] => i = j
      BY Zenon DEF QueueIsQueued
    <3>2. ASSUME NEW i \in DOMAIN queue[e]
          PROVE  tasks'[e][queue[e][i]].stage = "queued"
      <4>1. tasks'[e][queue[e][i]] = tasks[e][queue[e][i]]
        BY Zenon, <1>1, <1>e, <2>1
      <4>2. tasks[e][queue[e][i]].stage = "queued"
        BY Zenon DEF QueueIsQueued
      <4> QED
        BY Zenon, <4>1, <4>2
    <3> QED
      BY Zenon, <3>1, <3>2
  <2>2. \A e \in Drivers : Good(e, queue'[e])
    <3>1. Good(d, w)
      BY Zenon, <1>3
    <3> HIDE DEF Good
    <3> QED
      BY Zenon, <2>0, <2>1, <3>1
  <2> QED
    BY ZenonT(30), <2>2 DEF QueueIsQueued
<1>4. CASE tasks[d][r].stage # "queued" /\ y.stage # "queued" /\ UNCHANGED queue
  <2>0. ASSUME NEW i \in DOMAIN queue[d]
        PROVE  tasks'[d][queue[d][i]].stage = "queued"
    <3>1. tasks[d][queue[d][i]].stage = "queued" /\ queue[d][i] \in Requests
      BY Zenon, <1>2, <1>e
    <3>2. queue[d][i] # r
      BY Zenon, <1>4, <3>1
    <3>3. tasks'[d][queue[d][i]] = tasks[d][queue[d][i]]
      BY Zenon, <1>1, <3>1, <3>2
    <3> QED
      BY Zenon, <3>1, <3>3
  <2>1. Fine(queue[d])
    BY Zenon, <1>2, <2>0
  <2>2. queue' = [queue EXCEPT ![d] = queue[d]]
    BY Zenon, <1>4 DEF TurnsTypeOK
  <2> QED
    BY ZenonT(30), <1>3, <2>1, <2>2
<1>5. CASE y.stage # "queued" /\ queue' = [queue EXCEPT ![d] = Without(@, r)]
  <2> DEFINE w == Without(queue[d], r)
  <2>1. /\ \A i \in DOMAIN w : w[i] # r /\ \E j \in DOMAIN queue[d] : w[i] = queue[d][j]
        /\ \A i, j \in DOMAIN w : w[i] = w[j] => i = j
    BY ZenonT(30), <1>2, WithoutProperties
  <2>2. queue' = [queue EXCEPT ![d] = w]
    BY Zenon, <1>5
  <2> HIDE DEF w
  <2>3. ASSUME NEW i \in DOMAIN w
        PROVE  tasks'[d][w[i]].stage = "queued"
    <3>1. PICK j \in DOMAIN queue[d] : w[i] = queue[d][j]
      BY Zenon, <2>1
    <3>2. queue[d][j] \in Requests /\ queue[d][j] # r
      BY Zenon, <1>e, <2>1, <3>1
    <3>3. tasks[d][queue[d][j]].stage = "queued"
      BY Zenon, <1>2
    <3> QED
      BY Zenon, <1>1, <3>1, <3>2, <3>3
  <2>4. Fine(w)
    BY Zenon, <2>1, <2>3
  <2> QED
    BY ZenonT(30), <1>3, <2>2, <2>4
<1>6. CASE /\ tasks[d][r].stage = "claim" /\ y.stage = "queued"
           /\ queue' = [queue EXCEPT ![d] = Append(@, r)]
  <2> DEFINE w == Append(queue[d], r)
             n == Len(queue[d])
  <2>1. /\ n \in Nat /\ DOMAIN queue[d] = 1 .. n /\ DOMAIN w = 1 .. n + 1
        /\ \A i \in 1 .. n : w[i] = queue[d][i]
        /\ w[n + 1] = r
    <3>1. n \in Nat
      BY SMTT(20), <1>2
    <3> QED
      BY ZenonT(30), <1>2, <3>1, Appended
  <2>a. queue' = [queue EXCEPT ![d] = w]
    BY Zenon, <1>6
  <2> HIDE DEF w, n
  <2>2. \A i \in 1 .. n : queue[d][i] \in Requests /\ queue[d][i] # r
    <3>1. "claim" # "queued"
      BY Zenon
    <3> QED
      BY Zenon, <1>2, <1>6, <1>e, <2>1, <3>1
  <2>3. \A i \in 1 .. n + 1 : i \in 1 .. n \/ i = n + 1
    BY SMTT(20), <2>1
  <2>4. ASSUME NEW i \in 1 .. n + 1
        PROVE  tasks'[d][w[i]].stage = "queued"
    <3>1. CASE i \in 1 .. n
      <4>1. tasks[d][queue[d][i]].stage = "queued" /\ w[i] = queue[d][i]
        BY Zenon, <1>2, <2>1, <3>1
      <4> QED
        BY Zenon, <1>1, <2>2, <3>1, <4>1
    <3>2. CASE i = n + 1
      BY Zenon, <1>1, <1>6, <2>1, <3>2
    <3> QED
      BY Zenon, <2>3, <3>1, <3>2
  <2>5. \A i, j \in 1 .. n : queue[d][i] = queue[d][j] => i = j
    BY Zenon, <1>2, <2>1
  <2>6. \A i, j \in 1 .. n + 1 : w[i] = w[j] => i = j
    BY ZenonT(30), <2>1, <2>2, <2>3, <2>5
  <2>7. Fine(w)
    BY Zenon, <2>1, <2>4, <2>6
  <2> QED
    BY ZenonT(30), <1>3, <2>a, <2>7
<1> QED
  BY ZenonT(30), <1>4, <1>5, <1>6 DEF Step, QueueStep
=============================================================================
