------------------------------ MODULE Receipts ------------------------------
(***************************************************************************)
(* The MessageReceipt value and what each repository method does to one:   *)
(* the model_copy(update = ...) of every method of observer/repository.py, *)
(* with the states in which the method leaves the receipt alone.           *)
(***************************************************************************)
EXTENDS Naturals, FiniteSets

CONSTANTS
    Requests,        \* client-chosen request ids of one workspace
    Conversations,   \* conversation_ref and prompt, which are compared together
    Tokens,          \* claim tokens: uuid4 values, each generated once
    NoToken, NoConversation

ASSUME ReceiptsAssumption ==
    /\ NoToken \notin Tokens
    /\ NoConversation \notin Conversations
    /\ IsFiniteSet(Tokens)

Terminal == {"completed", "failed", "interrupted"}
Dispatchable == {"accepted", "queued", "retryable"}
States == Dispatchable \cup Terminal \cup {"none", "in_flight"}

\* What an update may write: the states update_message_receipt admits.
UpdateStates == Terminal \cup {"in_flight", "retryable"}

Receipt == [state        : States,
            conversation : Conversations \cup {NoConversation},
            token        : Tokens \cup {NoToken},
            attempts     : Nat,
            next         : {"due", "later"}]   \* next_attempt_at against now

Absent == [state |-> "none", conversation |-> NoConversation,
           token |-> NoToken, attempts |-> 0, next |-> "due"]

\* create_or_get_message_receipt of an unknown request id.
Accepted(c) == [Absent EXCEPT !.state = "accepted", !.conversation = c]

\* queue_message_receipt
CanQueue(x) == x.state \in {"accepted", "retryable"}
Queued(x) == [x EXCEPT !.state = "queued"]

CanRetryClaimed(x) == x.state \notin Terminal \cup {"none"}   \* mutant

\* retry_message_receipt backs off, except from a terminal or a claimed
\* receipt.  It does not clear the claim token.
CanRetry(x) == /\ x.state \notin Terminal \cup {"none"}
               /\ ~(x.state = "in_flight" /\ x.token # NoToken)
Retried(x) == [x EXCEPT !.state = "retryable", !.next = "later"]

CanInterruptClaimed(x) == x.state \notin Terminal \cup {"none"}   \* mutant

\* interrupt_message_receipt: only a receipt nobody has claimed.
CanInterrupt(x) == x.state \in Dispatchable
Interrupted(x) == [x EXCEPT !.state = "interrupted", !.token = NoToken,
                            !.next = "due"]

\* claim_message_receipt: a claimed or terminal receipt is returned as it is.
CanClaim(x) == x.state \in Dispatchable
ClaimedAsFirst(x, t) ==   \* mutant
    [x EXCEPT !.state = "in_flight", !.token = t, !.attempts = 1, !.next = "due"]
Claimed(x, t) == [x EXCEPT !.state = "in_flight", !.token = t,
                           !.attempts = x.attempts + 1, !.next = "due"]

\* update_message_receipt, and release_message_receipt with s = "retryable".
CanUpdate(x, t, s) == /\ x.state \notin Terminal \cup {"none"}
                      /\ x.token = t
                      /\ s \in UpdateStates
Updated(x, s) == [x EXCEPT !.state = s,
                           !.token = IF s = "in_flight" THEN @ ELSE NoToken,
                           !.next = IF s = "retryable" THEN "due" ELSE @]

\* What the registration of a Driver, and
\* recover_message_receipts_for_driver, do to a receipt.
Recovered(x) ==
    IF x.state = "in_flight"
    THEN [x EXCEPT !.state = "retryable", !.token = NoToken, !.next = "due"]
    ELSE x
=============================================================================
