--------------------------- MODULE MessageReceipts ---------------------------
(***************************************************************************)
(* The Observer's message ledger as its in-memory repository runs it: the  *)
(* durable receipt of every user message, the fenced lease of the single   *)
(* Driver, and the operations on both (observer/repository.py).  With      *)
(* sessions = None none of these methods gives up the event loop between   *)
(* its first read and its last write, so each is one step.  Commands carry *)
(* the epoch the sender believes it holds; a command of another epoch than *)
(* the lease's is rejected (stale_driver_epoch) and changes nothing.       *)
(***************************************************************************)
EXTENDS Receipts

CONSTANTS
    Drivers,         \* Driver instances (instance_id)
    NoDriver, NoRequest,
    MaxEpoch         \* bound on registrations; the code has none

ASSUME LedgerAssumption ==
    /\ NoDriver \notin Drivers
    /\ NoRequest \notin Requests
    /\ MaxEpoch \in Nat

VARIABLES
    receipts,   \* receipts[r]: the MessageReceipt of request r
    lease,      \* the active Driver lease, and the highest epoch ever issued
    claims      \* history: the request and the epoch each token claimed

vars == <<receipts, lease, claims>>

Epochs == 1 .. MaxEpoch

TypeOK ==
    /\ receipts \in [Requests -> Receipt]
    /\ lease \in [holder : Drivers \cup {NoDriver}, epoch : Nat]
    /\ claims \in [Tokens -> [request : Requests \cup {NoRequest}, epoch : Nat]]

Init ==
    /\ receipts = [r \in Requests |-> Absent]
    /\ lease = [holder |-> NoDriver, epoch |-> 0]
    /\ claims = [t \in Tokens |-> [request |-> NoRequest, epoch |-> 0]]

\* Only the receipt of r changes, to x.
Put(r, x) ==
    /\ receipts' = [receipts EXCEPT ![r] = x]
    /\ UNCHANGED <<lease, claims>>

-----------------------------------------------------------------------------
(* The public API *)

\* POST /api/v1/messages in the split deployment.  A new request id is
\* accepted; an id known with the same conversation is answered with its
\* receipt, which moves on to queued when it was still only accepted;
\* another conversation is answered 409 request_id_reused.
Post(r, c) ==
    \/ receipts[r].state = "none" /\ Put(r, Accepted(c))
    \/ /\ receipts[r].state = "accepted"
       /\ receipts[r].conversation = c
       /\ Put(r, Queued(receipts[r]))

InterruptReceipt(r) == CanInterrupt(receipts[r]) /\ Put(r, Interrupted(receipts[r]))

-----------------------------------------------------------------------------
(* The dispatcher *)

QueueReceipt(r) == CanQueue(receipts[r]) /\ Put(r, Queued(receipts[r]))

RetryReceipt(r) == CanRetry(receipts[r]) /\ Put(r, Retried(receipts[r]))

\* The back-off delay of a retry is over.
BackoffElapses(r) ==
    /\ receipts[r].state \in Dispatchable
    /\ receipts[r].next = "later"
    /\ Put(r, [receipts[r] EXCEPT !.next = "due"])

-----------------------------------------------------------------------------
(* Driver leases *)

\* register_agent of role driver: every older lease is expired, the epoch
\* grows, and what was in flight becomes deliverable again.
Register(d) ==
    /\ lease.epoch < MaxEpoch
    /\ lease' = [holder |-> d, epoch |-> lease.epoch + 1]
    /\ receipts' = [r \in Requests |-> Recovered(receipts[r])]
    /\ UNCHANGED claims

\* list_agents finds the lease older than its TTL.
ExpireLease ==
    /\ lease.holder # NoDriver
    /\ lease' = [lease EXCEPT !.holder = NoDriver]
    /\ UNCHANGED <<receipts, claims>>

FencedByHolder(d, e) == lease.holder = d   \* mutant

\* The fence of execute_driver_command, heartbeat_agent and release_agent.
Fenced(d, e) == lease.holder = d /\ lease.epoch = e

ReleaseLease(d, e) ==
    /\ Fenced(d, e)
    /\ lease' = [lease EXCEPT !.holder = NoDriver]
    /\ UNCHANGED <<receipts, claims>>

-----------------------------------------------------------------------------
(* Driver commands *)

\* message.claim, with a token generated for this claim.
Claim(d, e, r, t) ==
    /\ Fenced(d, e)
    /\ claims[t].epoch = 0
    /\ CanClaim(receipts[r])
    /\ receipts' = [receipts EXCEPT ![r] = Claimed(receipts[r], t)]
    /\ claims' = [claims EXCEPT ![t] = [request |-> r, epoch |-> e]]
    /\ UNCHANGED lease

\* message.update and message.release
Update(d, e, r, t, s) ==
    /\ Fenced(d, e)
    /\ CanUpdate(receipts[r], t, s)
    /\ Put(r, Updated(receipts[r], s))

-----------------------------------------------------------------------------
Next ==
    \/ \E r \in Requests, c \in Conversations : Post(r, c)
    \/ \E r \in Requests : InterruptReceipt(r)
    \/ \E r \in Requests : QueueReceipt(r)
    \/ \E r \in Requests : RetryReceipt(r)
    \/ \E r \in Requests : BackoffElapses(r)
    \/ \E d \in Drivers : Register(d)
    \/ \E d \in Drivers, e \in Epochs : ReleaseLease(d, e)
    \/ ExpireLease
    \/ \E d \in Drivers, e \in Epochs, r \in Requests, t \in Tokens :
          Claim(d, e, r, t)
    \/ \E d \in Drivers, e \in Epochs, r \in Requests, t \in Tokens,
          s \in UpdateStates : Update(d, e, r, t, s)

Spec == Init /\ [][Next]_vars

-----------------------------------------------------------------------------
(* Properties *)

\* A receipt carries a claim token exactly while it is in flight, and that
\* token was issued for this request in the current Driver epoch: a receipt
\* has at most one valid claim, and no claim survives a registration
\* (register_agent's recovery; claim, update and retry's token handling).
ClaimIntegrity ==
    \A r \in Requests :
        /\ receipts[r].token # NoToken <=> receipts[r].state = "in_flight"
        /\ receipts[r].state = "in_flight" =>
              claims[receipts[r].token] = [request |-> r, epoch |-> lease.epoch]

\* attempt_count is the number of claims ever granted on the request: no
\* retry, recovery or replayed command grants one unrecorded.
AttemptsCountClaims ==
    \A r \in Requests :
        receipts[r].attempts = Cardinality({t \in Tokens : claims[t].request = r})

\* A completed, failed or interrupted receipt never changes again, whatever
\* arrives late: retries, interrupts, updates, registrations.
TerminalStep ==
    \A r \in Requests : receipts[r].state \in Terminal => receipts'[r] = receipts[r]

TerminalIsFinal == [][TerminalStep]_vars
=============================================================================
