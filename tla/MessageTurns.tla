---------------------------- MODULE MessageTurns ----------------------------
(***************************************************************************)
(* A user message from the Observer's ledger to a Codex turn and back: the *)
(* Observer's dispatcher (observer/dispatcher.py), the Driver's turn       *)
(* coordinator (driver/coordinator.py), the turn of DriverService          *)
(* (_run_prompt_remote of driver/service.py) and the thread bindings of    *)
(* the Observer, on top of the operations of MessageReceipts.              *)
(*                                                                         *)
(* A Driver is one asyncio process: it runs from await to await, and every *)
(* await on the Observer is a call that may be executed, rejected, or      *)
(* lost on its way there or back.  Drivers may crash, stop, or lose their  *)
(* lease while still running.                                              *)
(***************************************************************************)
EXTENDS MessageReceipts, Sequences

CONSTANTS
    ConvOf,          \* the conversation each request is posted to
    FaultKinds,      \* the kinds of fault that may happen
    MaxFaults        \* bound on their number

ASSUME TurnsAssumption ==
    /\ ConvOf \in [Requests -> Conversations]
    /\ Tokens \subseteq Nat   \* the first unused one stands for a fresh uuid4
    /\ MaxFaults \in Nat

VARIABLES
    posted,      \* the requests in order of creation (created_at)
    bindings,    \* driver_threads: the Codex thread of each conversation
    answered,    \* _driver_requests: the turn.state commands already executed
    disp,        \* the dispatcher: where it is, with which request and Driver
    status,      \* status[d]: whether a process runs at the endpoint d
    epoch,       \* epoch[d]: the epoch d believes it holds, 0 before the first
    offered,     \* offered[d]: the epoch of a registration answer on its way
    tasks,       \* tasks[d][r]: the turn of r in Driver d
    queue,       \* queue[d]: the coordinator's queues, in order of arrival
    done,        \* done[d]: the coordinator's _completed results
    submitted,   \* history: how often turn/start was sent to Codex for r
    faults       \* how many faults have happened

observer == <<receipts, lease, claims, bindings, answered>>
driver == <<tasks, queue, done>>
process == <<status, epoch, offered>>
turnVars == <<observer, posted, disp, driver, process, submitted, faults>>

-----------------------------------------------------------------------------
TurnStates == {"idle", "starting", "in_progress", "completed", "interrupted",
               "recovery_pending"}

\* thread tells whether a thread id is recorded; active is active_request_id.
Binding == [thread : {"none", "bound"}, turn : TurnStates,
            active : Requests \cup {NoRequest}]

NoBinding == [thread |-> "none", turn |-> "idle", active |-> NoRequest]

RunningButStreaming ==   \* mutant
    {"get", "begin", "giveBack", "giveUp", "bind", "recover", "starting", "send",
     "finished", "reportCompleted", "stopped", "reportInterrupted", "failed",
     "reportRun", "reportFailed"}

\* The stages of a turn that holds the Codex lane, by the await they are at.
Running == {"get", "begin", "giveBack", "giveUp", "bind", "recover", "starting",
            "send", "events", "finished", "reportCompleted", "stopped",
            "reportInterrupted", "failed", "reportRun", "reportFailed"}

\* Before them: claiming, in the queue, taken by the conversation's worker.
Stages == Running \cup {"idle", "claim", "queued", "waiting"}

Task == [stage : Stages, token : Tokens \cup {NoToken}, epoch : Nat,
         seen : Binding, asked : {"no", "refused", "sent"}]

Idle == [stage |-> "idle", token |-> NoToken, epoch |-> 0,
         seen |-> NoBinding, asked |-> "no"]

Dispatch == [at : {"idle", "sending", "driver", "answered", "error"},
             request : Requests \cup {NoRequest}, driver : Drivers \cup {NoDriver}]

Resting == [at |-> "idle", request |-> NoRequest, driver |-> NoDriver]

TurnsTypeOK ==
    /\ TypeOK
    /\ posted \in Seq(Requests)
    /\ bindings \in [Conversations -> Binding]
    /\ answered \subseteq Conversations \X TurnStates \X Requests
    /\ disp \in Dispatch
    /\ status \in [Drivers -> {"up", "down"}]
    /\ epoch \in [Drivers -> Nat]
    /\ offered \in [Drivers -> Nat]
    /\ tasks \in [Drivers -> [Requests -> Task]]
    /\ queue \in [Drivers -> Seq(Requests)]
    /\ done \in [Drivers -> SUBSET Requests]
    /\ submitted \in [Requests -> Nat]
    /\ faults \in 0 .. MaxFaults

TurnsInit ==
    /\ Init
    /\ posted = <<>>
    /\ bindings = [c \in Conversations |-> NoBinding]
    /\ answered = {}
    /\ disp = Resting
    /\ status = [d \in Drivers |-> "down"]
    /\ epoch = [d \in Drivers |-> 0]
    /\ offered = [d \in Drivers |-> 0]
    /\ tasks = [d \in Drivers |-> [r \in Requests |-> Idle]]
    /\ queue = [d \in Drivers |-> <<>>]
    /\ done = [d \in Drivers |-> {}]
    /\ submitted = [r \in Requests |-> 0]
    /\ faults = 0

Fault(kind) ==
    /\ kind \in FaultKinds
    /\ faults < MaxFaults
    /\ faults' = faults + 1

-----------------------------------------------------------------------------
(* The public API *)

PostMessage(r) ==
    /\ Post(r, ConvOf[r])
    /\ posted' = IF receipts[r].state = "none" THEN Append(posted, r) ELSE posted
    /\ UNCHANGED <<bindings, answered, disp, driver, process, submitted, faults>>

\* The newest receipt of c that is not terminal, which is the one the
\* interrupt endpoint acts on.
Newest(c, r) ==
    \E i \in DOMAIN posted :
        /\ posted[i] = r /\ ConvOf[r] = c
        /\ receipts[r].state \notin Terminal
        /\ \A j \in i + 1 .. Len(posted) :
              ConvOf[posted[j]] = c => receipts[posted[j]].state \in Terminal

\* Not yet claimed: the endpoint settles the receipt itself.
InterruptUnclaimed(c) ==
    /\ \E r \in Requests : Newest(c, r) /\ InterruptReceipt(r)
    /\ UNCHANGED <<bindings, answered, posted, disp, driver, process, submitted, faults>>

-----------------------------------------------------------------------------
(* The dispatcher *)

Due(r) == receipts[r].state \in Dispatchable /\ receipts[r].next = "due"

\* The first receipt of list_dispatchable_message_receipts, queued.
Take ==
    /\ disp.at = "idle"
    /\ \E i \in DOMAIN posted :
          /\ Due(posted[i])
          /\ \A j \in 1 .. i - 1 : ~Due(posted[j])
          /\ disp' = [Resting EXCEPT !.at = "sending", !.request = posted[i]]
          /\ \/ QueueReceipt(posted[i])
             \/ ~CanQueue(receipts[posted[i]]) /\ UNCHANGED vars
    /\ UNCHANGED <<bindings, answered, posted, driver, process, submitted, faults>>

\* gateway.forward finds no Driver to send to.
ForwardFails ==
    /\ disp.at = "sending"
    /\ \A d \in Drivers : lease.holder = d => status[d] # "up"
    /\ disp' = [disp EXCEPT !.at = "error"]
    /\ UNCHANGED <<observer, posted, driver, process, submitted, faults>>

\* POST /driver/v1/messages arrives, and coordinator.submit runs to its
\* first await: a result it remembers is the answer, a turn already pending
\* is joined, and any other request is claimed.
Forward(d) ==
    /\ disp.at = "sending"
    /\ lease.holder = d /\ status[d] = "up"
    /\ LET r == disp.request IN
       \/ /\ r \in done[d]
          /\ disp' = [disp EXCEPT !.at = "answered"]
          /\ UNCHANGED tasks
       \/ /\ r \notin done[d]
          /\ disp' = [disp EXCEPT !.at = "driver", !.driver = d]
          /\ tasks' = IF tasks[d][r].stage = "idle"
                      THEN [tasks EXCEPT ![d][r].stage = "claim"]
                      ELSE tasks
    /\ UNCHANGED <<observer, posted, queue, done, process, submitted, faults>>

\* The connection breaks or times out before or after the Driver got the
\* message; the Driver goes on.
ConnectionLost ==
    /\ disp.at \in {"sending", "driver"}
    /\ Fault("forward")
    /\ disp' = [disp EXCEPT !.at = "error"]
    /\ UNCHANGED <<observer, posted, driver, process, submitted>>

SettleBlindly ==   \* mutant
    /\ disp.at \in {"answered", "error"}
    /\ Put(disp.request, Retried(receipts[disp.request]))
    /\ disp' = Resting
    /\ UNCHANGED <<bindings, answered, posted, driver, process, submitted, faults>>

\* The end of _deliver: what is still queued after an answer, and anything
\* unclaimed after an error, is retried later.
Settle ==
    /\ disp.at \in {"answered", "error"}
    /\ LET x == receipts[disp.request]
           retry == CanRetry(x) /\ (disp.at = "answered" => x.state = "queued")
       IN  \/ retry /\ RetryReceipt(disp.request)
           \/ ~retry /\ UNCHANGED vars
    /\ disp' = Resting
    /\ UNCHANGED <<bindings, answered, posted, driver, process, submitted, faults>>

Backoff(r) ==
    /\ BackoffElapses(r)
    /\ UNCHANGED <<bindings, answered, posted, disp, driver, process, submitted, faults>>

\* The Observer restarts: what it persisted is kept, the delivery is not.
ObserverRestarts ==
    /\ disp.at # "idle"
    /\ Fault("observer")
    /\ disp' = Resting
    /\ UNCHANGED <<observer, posted, driver, process, submitted>>

-----------------------------------------------------------------------------
(* Driver processes *)

\* A Driver starts, or starts again, where none runs.  A single-Driver
\* deployment has no other one up; a second one beside it is a fault.  The
\* Observer reaches it under the lease of its predecessor at the same
\* endpoint, if that has not expired yet.
StartDriver(d) ==
    /\ status[d] = "down"
    /\ \/ (\A o \in Drivers : status[o] # "up") /\ UNCHANGED faults
       \/ (\E o \in Drivers : status[o] = "up") /\ Fault("second")
    /\ status' = [status EXCEPT ![d] = "up"]
    /\ UNCHANGED <<observer, posted, disp, driver, epoch, offered, submitted>>

\* registration_loop: the first registration, or a new one after a
\* heartbeat the Observer rejected (or that did not come through).  The
\* Observer also marks the turns it thinks are running as recovery_pending.
RegisterDriver(d) ==
    /\ status[d] = "up"
    /\ offered[d] = 0
    /\ \/ ~Fenced(d, epoch[d]) /\ UNCHANGED faults
       \/ Fenced(d, epoch[d]) /\ Fault("heartbeat")
    /\ Register(d)
    /\ bindings' = [c \in Conversations |->
                       IF bindings[c].turn \in {"starting", "in_progress"}
                       THEN [bindings[c] EXCEPT !.turn = "recovery_pending"]
                       ELSE bindings[c]]
    /\ offered' = [offered EXCEPT ![d] = lease'.epoch]
    /\ UNCHANGED <<answered, posted, disp, driver, status, epoch, submitted>>

\* The answer to the registration reaches the Driver.
LearnEpoch(d) ==
    /\ status[d] = "up"
    /\ offered[d] # 0
    /\ epoch' = [epoch EXCEPT ![d] = offered[d]]
    /\ offered' = [offered EXCEPT ![d] = 0]
    /\ UNCHANGED <<observer, posted, disp, driver, status, submitted, faults>>

\* The lease outlives its TTL: its holder is gone, or its heartbeats were late.
LeaseExpires ==
    /\ ExpireLease
    /\ \/ status[lease.holder] # "up" /\ UNCHANGED faults
       \/ status[lease.holder] = "up" /\ Fault("heartbeat")
    /\ UNCHANGED <<bindings, answered, posted, disp, driver, process, submitted>>

\* A Driver process loses its memory.
Forget(d) ==
    /\ status' = [status EXCEPT ![d] = "down"]
    /\ epoch' = [epoch EXCEPT ![d] = 0]
    /\ offered' = [offered EXCEPT ![d] = 0]
    /\ tasks' = [tasks EXCEPT ![d] = [r \in Requests |-> Idle]]
    /\ queue' = [queue EXCEPT ![d] = <<>>]
    /\ done' = [done EXCEPT ![d] = {}]

\* The server stops once its handlers have returned, and the lifespan
\* handler releases the lease.
StopDriver(d) ==
    /\ status[d] = "up"
    /\ \A r \in Requests : tasks[d][r].stage = "idle"
    /\ Fault("stop")
    /\ Forget(d)
    /\ \/ ReleaseLease(d, epoch[d])
       \/ ~Fenced(d, epoch[d]) /\ UNCHANGED vars
    /\ UNCHANGED <<bindings, answered, posted, disp, submitted>>

\* The Driver dies; the dispatcher's connection breaks with it.
CrashDriver(d) ==
    /\ status[d] = "up"
    /\ Fault("crash")
    /\ Forget(d)
    /\ disp' = IF disp.at = "driver" /\ disp.driver = d
               THEN [disp EXCEPT !.at = "error"] ELSE disp
    /\ UNCHANGED <<observer, posted, submitted>>

-----------------------------------------------------------------------------
(* Calls of a Driver to the Observer *)

\* A command is executed when it comes from the holder of the lease and the
\* repository accepts it (guard); it is rejected otherwise; and it, or its
\* answer, may be lost.  The Driver goes on with Then or with Else.
Call(d, guard, Effect, Then, Else) ==
    \/ /\ Fenced(d, epoch[d]) /\ guard
       /\ Effect /\ Then
       /\ UNCHANGED faults
    \/ /\ ~(Fenced(d, epoch[d]) /\ guard)
       /\ UNCHANGED observer /\ Else
       /\ UNCHANGED faults
    \/ /\ Fault("call")
       /\ UNCHANGED observer /\ Else
    \/ /\ Fault("answer")
       /\ Fenced(d, epoch[d]) /\ guard
       /\ Effect /\ Else

\* turn.state: its command id is made of its arguments, so that a repetition
\* is answered from _driver_requests without being executed.
TurnState(c, s, r) ==
    /\ \/ /\ <<c, s, r>> \in answered
          /\ UNCHANGED <<bindings, answered>>
       \/ /\ <<c, s, r>> \notin answered
          /\ bindings' = [bindings EXCEPT ![c].turn = s, ![c].active = r]
          /\ answered' = answered \cup {<<c, s, r>>}
    /\ UNCHANGED vars

\* message.update with the token of the turn; repeating the terminal state
\* the receipt already has is accepted and changes nothing.
Report(d, r, s, Then, Else) ==
    LET t == tasks[d][r].token
        same == receipts[r].state = s /\ s \in Terminal
    IN  Call(d, CanUpdate(receipts[r], t, s) \/ same,
             /\ Update(d, epoch[d], r, t, s) \/ (same /\ UNCHANGED vars)
             /\ UNCHANGED <<bindings, answered>>,
             Then, Else)

-----------------------------------------------------------------------------
(* The coordinator and the turn of DriverService *)

\* Task (d, r) moves on to stage s.
GoTo(d, r, s) ==
    /\ tasks' = [tasks EXCEPT ![d][r].stage = s]
    /\ UNCHANGED <<queue, done, disp>>

\* The handler of r returns or raises (answer "answered" or "error"): the
\* turn leaves the lane, and the dispatcher hears of it if it still waits.
Finish(d, r, answer) ==
    /\ tasks' = [tasks EXCEPT ![d][r] = Idle]
    /\ disp' = IF disp.at = "driver" /\ disp.driver = d /\ disp.request = r
               THEN [disp EXCEPT !.at = answer] ELSE disp
    /\ UNCHANGED queue

Return(d, r) == Finish(d, r, "answered") /\ done' = [done EXCEPT ![d] = @ \cup {r}]

RaiseUnknown(d, r) == Finish(d, r, "failed") /\ UNCHANGED done   \* mutant
Raise(d, r) == Finish(d, r, "error") /\ UNCHANGED done

\* submit: message.claim.  A terminal receipt is remembered and returned; one
\* that somebody else has claimed is returned; otherwise the turn is queued.
ClaimMessage(d, r) ==
    /\ tasks[d][r].stage = "claim"
    /\ \E t \in Tokens :
          /\ claims[t].epoch = 0
          /\ \A u \in Tokens : claims[u].epoch = 0 => t <= u
          /\ Call(d, TRUE,
                  /\ \/ Claim(d, epoch[d], r, t)
                     \/ ~CanClaim(receipts[r]) /\ UNCHANGED vars
                  /\ UNCHANGED <<bindings, answered>>,
                  \/ /\ CanClaim(receipts[r])
                     /\ tasks' = [tasks EXCEPT ![d][r].stage = "queued",
                                               ![d][r].token = t]
                     /\ queue' = [queue EXCEPT ![d] = Append(@, r)]
                     /\ UNCHANGED <<done, disp>>
                  \/ receipts[r].state \in Terminal /\ Return(d, r)
                  \/ /\ receipts[r].state = "in_flight"
                     /\ Finish(d, r, "answered") /\ UNCHANGED done,
                  Raise(d, r))
    /\ UNCHANGED <<posted, process, submitted>>

\* The worker of a conversation takes the next turn when its last is over.
NextInConversation(d, r) ==
    \E i \in DOMAIN queue[d] :
        /\ queue[d][i] = r
        /\ \A j \in 1 .. i - 1 : ConvOf[queue[d][j]] # ConvOf[r]

\* The queue without r, which is in it once or not at all.
Without(q, r) ==
    IF \E i \in DOMAIN q : q[i] = r
    THEN LET i == CHOOSE i \in DOMAIN q : q[i] = r
         IN  SubSeq(q, 1, i - 1) \o SubSeq(q, i + 1, Len(q))
    ELSE q

TakeFromQueue(d, r) ==
    /\ NextInConversation(d, r)
    /\ \A q \in Requests : ConvOf[q] = ConvOf[r] =>
          tasks[d][q].stage \notin Running \cup {"waiting"}
    /\ queue' = [queue EXCEPT ![d] = Without(@, r)]
    /\ tasks' = [tasks EXCEPT ![d][r].stage = "waiting"]
    /\ UNCHANGED <<observer, posted, disp, done, process, submitted, faults>>

\* The lane is free; the turn's context takes the epoch of this moment.
EnterLane(d, r) ==
    /\ tasks[d][r].stage = "waiting"
    /\ \A q \in Requests : tasks[d][q].stage \notin Running
    /\ tasks' = [tasks EXCEPT ![d][r].stage = "get", ![d][r].epoch = epoch[d]]
    /\ UNCHANGED <<observer, posted, disp, queue, done, process, submitted, faults>>

GetThreadUnchecked(d, r) ==   \* mutant
    /\ tasks[d][r].stage = "get"
    /\ Call(d, TRUE, UNCHANGED observer,
            /\ tasks' = [tasks EXCEPT ![d][r].stage = "begin",
                                      ![d][r].seen = bindings[ConvOf[r]]]
            /\ UNCHANGED <<queue, done, disp>>,
            Raise(d, r))
    /\ UNCHANGED <<posted, process, submitted>>

GetThreadReporting(d, r) ==   \* mutant
    /\ tasks[d][r].stage = "get"
    /\ LET b == bindings[ConvOf[r]] IN
       Call(d, TRUE, UNCHANGED observer,
            \/ b.active = r /\ GoTo(d, r, "reportCompleted")
            \/ /\ b.active # r
               /\ tasks' = [tasks EXCEPT ![d][r].stage = "begin", ![d][r].seen = b]
               /\ UNCHANGED <<queue, done, disp>>,
            Raise(d, r))
    /\ UNCHANGED <<posted, process, submitted>>

\* thread.get: a binding whose last turn is this request's ends it here.
GetThread(d, r) ==
    /\ tasks[d][r].stage = "get"
    /\ LET b == bindings[ConvOf[r]] IN
       Call(d, TRUE, UNCHANGED observer,
            \/ b.active = r /\ Return(d, r)
            \/ /\ b.active # r
               /\ tasks' = [tasks EXCEPT ![d][r].stage = "begin", ![d][r].seen = b]
               /\ UNCHANGED <<queue, done, disp>>,
            Raise(d, r))
    /\ UNCHANGED <<posted, process, submitted>>

\* provider.begin_turn starts Codex and its thread, or resumes the thread.
BeginTurn(d, r) ==
    /\ tasks[d][r].stage = "begin"
    /\ LET b == tasks[d][r].seen IN
       \/ b.thread = "none" /\ GoTo(d, r, "bind")
       \/ b.turn = "recovery_pending" /\ GoTo(d, r, "recover")
       \/ b.thread = "bound" /\ b.turn # "recovery_pending" /\ GoTo(d, r, "starting")
    /\ UNCHANGED <<observer, posted, process, submitted, faults>>

\* It fails: the claim is given back, or the receipt fails with
\* codex_thread_unavailable when a thread could not be resumed.
BeginFails(d, r) ==
    /\ tasks[d][r].stage = "begin"
    /\ Fault("codex")
    /\ \/ GoTo(d, r, "giveBack")
       \/ tasks[d][r].seen.thread = "bound" /\ GoTo(d, r, "giveUp")
    /\ UNCHANGED <<observer, posted, process, submitted>>

BeginFailureUnreported(d, r) ==   \* mutant
    /\ tasks[d][r].stage \in {"giveBack", "giveUp"}
    /\ Raise(d, r)
    /\ UNCHANGED <<observer, posted, process, submitted, faults>>

ReportBeginFailure(d, r) ==
    /\ \/ /\ tasks[d][r].stage = "giveBack"
          /\ Report(d, r, "retryable", Raise(d, r), Raise(d, r))
       \/ /\ tasks[d][r].stage = "giveUp"
          /\ Report(d, r, "failed", Raise(d, r), Raise(d, r))
    /\ UNCHANGED <<posted, process, submitted>>

\* thread.bind of a new thread forgets the conversation's active request.
BindThread(d, r) ==
    /\ tasks[d][r].stage = "bind"
    /\ Call(d, TRUE,
            /\ bindings' = [bindings EXCEPT ![ConvOf[r]] =
                               [NoBinding EXCEPT !.thread = "bound"]]
            /\ UNCHANGED <<vars, answered>>,
            GoTo(d, r, "starting"), Raise(d, r))
    /\ UNCHANGED <<posted, process, submitted>>

\* A turn a former Driver left running: it is recorded as interrupted.
RecoverThread(d, r) ==
    /\ tasks[d][r].stage = "recover"
    /\ Call(d, TRUE, TurnState(ConvOf[r], "interrupted", tasks[d][r].seen.active),
            GoTo(d, r, "starting"), Raise(d, r))
    /\ UNCHANGED <<posted, process, submitted>>

\* provider.read_thread fails.
ReadThreadFails(d, r) ==
    /\ tasks[d][r].stage = "recover"
    /\ Fault("codex")
    /\ Raise(d, r)
    /\ UNCHANGED <<observer, posted, process, submitted>>

MarkStarting(d, r) ==
    /\ tasks[d][r].stage = "starting"
    /\ Call(d, TRUE, TurnState(ConvOf[r], "starting", r),
            GoTo(d, r, "send"), Raise(d, r))
    /\ UNCHANGED <<posted, process, submitted>>

\* send_turn submits the user message to Codex.
SendTurn(d, r) ==
    /\ tasks[d][r].stage = "send"
    /\ submitted' = [submitted EXCEPT ![r] = @ + 1]
    /\ GoTo(d, r, "events")
    /\ UNCHANGED <<observer, posted, process, faults>>

\* _assert_turn_epoch, before the handling of every event.
EpochHolds(d, r) == tasks[d][r].epoch = epoch[d]

\* An event of the turn: turn_started, or progress that is reported.
TurnEvent(d, r) ==
    /\ tasks[d][r].stage = "events"
    /\ EpochHolds(d, r)
    /\ \/ Call(d, TRUE, TurnState(ConvOf[r], "in_progress", r),
               GoTo(d, r, "events"), GoTo(d, r, "failed"))
       \/ Report(d, r, "in_flight", GoTo(d, r, "events"), GoTo(d, r, "failed"))
    /\ UNCHANGED <<posted, process, submitted>>

\* An event after the instance has registered again.
StaleEvent(d, r) ==
    /\ tasks[d][r].stage = "events"
    /\ ~EpochHolds(d, r)
    /\ GoTo(d, r, "failed")
    /\ UNCHANGED <<observer, posted, process, submitted, faults>>

\* The stream ends with turn/completed, which is no event: the epoch is not
\* checked again.
TurnEnds(d, r) ==
    /\ tasks[d][r].stage = "events"
    /\ GoTo(d, r, "finished")
    /\ UNCHANGED <<observer, posted, process, submitted, faults>>

\* Codex reports an error, or that the turn was cancelled.
TurnBreaks(d, r) ==
    /\ tasks[d][r].stage = "events"
    /\ Fault("codex")
    /\ \/ GoTo(d, r, "failed")
       \/ EpochHolds(d, r) /\ GoTo(d, r, "stopped")
    /\ UNCHANGED <<observer, posted, process, submitted>>

FinishTurn(d, r) ==
    /\ \/ /\ tasks[d][r].stage = "finished"
          /\ Call(d, TRUE, TurnState(ConvOf[r], "completed", r),
                  GoTo(d, r, "reportCompleted"), GoTo(d, r, "failed"))
       \/ /\ tasks[d][r].stage = "reportCompleted"
          /\ Report(d, r, "completed", Return(d, r), GoTo(d, r, "failed"))
       \/ /\ tasks[d][r].stage = "stopped"
          /\ Call(d, TRUE, TurnState(ConvOf[r], "interrupted", r),
                  GoTo(d, r, "reportInterrupted"), GoTo(d, r, "failed"))
       \/ /\ tasks[d][r].stage = "reportInterrupted"
          /\ Report(d, r, "interrupted", Return(d, r), GoTo(d, r, "failed"))
    /\ UNCHANGED <<posted, process, submitted>>

\* The exception handler of the turn, in which every error is suppressed: a
\* Run that has come to its end makes the receipt completed after all.
FailTurn(d, r) ==
    /\ \/ /\ tasks[d][r].stage = "failed"
          /\ \E s \in {"reportRun", "reportFailed"} :
                Call(d, TRUE, TurnState(ConvOf[r], "interrupted", r),
                     GoTo(d, r, s), GoTo(d, r, s))
       \/ /\ tasks[d][r].stage = "reportRun"
          /\ Report(d, r, "completed", Return(d, r), GoTo(d, r, "reportFailed"))
       \/ /\ tasks[d][r].stage = "reportFailed"
          /\ Report(d, r, "failed", Raise(d, r), Raise(d, r))
    /\ UNCHANGED <<posted, process, submitted>>

-----------------------------------------------------------------------------
(* The interrupt endpoint, for a conversation whose newest receipt is in   *)
(* flight: coordinator.interrupt in the Driver that holds the lease.       *)

Interruptible(c, d) ==
    /\ \E r \in Requests : Newest(c, r) /\ receipts[r].state = "in_flight"
    /\ lease.holder = d /\ status[d] = "up"

\* A TurnContext is an object, known by who made it and for which request.
\* The coordinator makes one per turn (manage_provider_context is off), and
\* begin_turn of the Codex provider makes its own.
CoordinatorContext(r) == [maker |-> "coordinator", request |-> r]

ProviderContext(r) ==
    [maker |-> "provider", request |-> r]

\* A turn is running: the coordinator hands its context to the provider,
\* which sends turn/interrupt for its own active context only and raises
\* stale_turn_context for any other.
InterruptActive(d, r) ==
    /\ Interruptible(ConvOf[r], d)
    /\ tasks[d][r].stage \in Running
    /\ EpochHolds(d, r)
    /\ tasks' = [tasks EXCEPT ![d][r].asked =
                    IF CoordinatorContext(r) = ProviderContext(r)
                    THEN "sent" ELSE "refused"]
    /\ UNCHANGED <<observer, posted, disp, queue, done, process, submitted, faults>>

InterruptKeepingTurn(d, r) ==   \* mutant
    /\ Interruptible(ConvOf[r], d)
    /\ NextInConversation(d, r)
    /\ Report(d, r, "interrupted", UNCHANGED <<tasks, queue, done, disp>>,
              UNCHANGED <<tasks, queue, done, disp>>)
    /\ UNCHANGED <<posted, process, submitted>>

\* None is running: the first queued turn, or else the one waiting for the
\* lane, is taken out and reported interrupted; errors are suppressed.
InterruptPending(d, r) ==
    /\ Interruptible(ConvOf[r], d)
    /\ \A q \in Requests : ConvOf[q] = ConvOf[r] => tasks[d][q].stage \notin Running
    /\ \/ NextInConversation(d, r)
       \/ /\ tasks[d][r].stage = "waiting"
          /\ \A i \in DOMAIN queue[d] : ConvOf[queue[d][i]] # ConvOf[r]
    /\ LET Stop == /\ tasks' = [tasks EXCEPT ![d][r] = Idle]
                   /\ queue' = [queue EXCEPT ![d] = Without(@, r)]
                   /\ disp' = IF disp.at = "driver" /\ disp.driver = d /\ disp.request = r
                              THEN [disp EXCEPT !.at = "answered"] ELSE disp
                   /\ UNCHANGED done
       IN  Report(d, r, "interrupted", Stop, Stop)
    /\ UNCHANGED <<posted, process, submitted>>

-----------------------------------------------------------------------------
TurnStep(d, r) ==
    \/ ClaimMessage(d, r) \/ TakeFromQueue(d, r) \/ EnterLane(d, r)
    \/ GetThread(d, r) \/ BeginTurn(d, r) \/ BeginFails(d, r)
    \/ ReportBeginFailure(d, r) \/ BindThread(d, r) \/ RecoverThread(d, r)
    \/ ReadThreadFails(d, r) \/ MarkStarting(d, r) \/ SendTurn(d, r)
    \/ TurnEvent(d, r) \/ StaleEvent(d, r) \/ TurnEnds(d, r) \/ TurnBreaks(d, r)
    \/ FinishTurn(d, r) \/ FailTurn(d, r)

DispatcherStep ==
    Take \/ ForwardFails \/ (\E d \in Drivers : Forward(d)) \/ Settle

TurnsNext ==
    \/ \E r \in Requests : PostMessage(r) \/ Backoff(r)
    \/ \E c \in Conversations : InterruptUnclaimed(c)
    \/ DispatcherStep \/ ConnectionLost \/ ObserverRestarts \/ LeaseExpires
    \/ \E d \in Drivers : \/ StartDriver(d) \/ RegisterDriver(d) \/ LearnEpoch(d)
                          \/ StopDriver(d) \/ CrashDriver(d)
    \/ \E d \in Drivers, r \in Requests :
          TurnStep(d, r) \/ InterruptActive(d, r) \/ InterruptPending(d, r)

TurnsSpec == TurnsInit /\ [][TurnsNext]_turnVars

\* The event loops run: the dispatcher, each Driver's registration loop and
\* each turn go on as long as they can, back-offs and dead leases run out,
\* and a Codex turn that has started ends (its protocol health check ends one
\* that hangs).  Nobody is obliged to post, to interrupt or to fail.
Fairness ==
    /\ WF_turnVars(DispatcherStep)
    /\ WF_turnVars(LeaseExpires /\ UNCHANGED faults)
    /\ \A r \in Requests : WF_turnVars(Backoff(r))
    /\ \A d \in Drivers :
          /\ WF_turnVars(StartDriver(d) /\ UNCHANGED faults)
          /\ WF_turnVars(RegisterDriver(d) /\ UNCHANGED faults)
          /\ WF_turnVars(LearnEpoch(d))
          /\ \A r \in Requests :
                /\ WF_turnVars(TurnStep(d, r) /\ UNCHANGED faults)

FairTurnsSpec == TurnsSpec /\ Fairness

-----------------------------------------------------------------------------
(* Properties *)

\* Whatever the dispatcher, the Drivers and their turns do, the ledger sees
\* only its own operations, each under its own guard.
LedgerSpec == Spec

\* A receipt is completed only after its message went to Codex: no early
\* return, retry or recovery answers a user with a turn that never began.
CompletedHadTurn ==
    \A r \in Requests : receipts[r].state = "completed" => submitted[r] > 0

\* Between its claim and its report a turn keeps its claim, unless the
\* Observer has handed out a new epoch: no retry of the dispatcher, redelivery
\* or interrupt of another request takes the receipt from under it.
TurnHoldsClaim ==
    \A d \in Drivers, r \in Requests :
        LET x == tasks[d][r] IN
        x.stage \in {"queued", "waiting", "get", "begin", "bind", "recover",
                     "starting", "send", "events", "finished", "reportCompleted"}
        /\ claims[x.token].epoch = lease.epoch
            => receipts[r].state = "in_flight" /\ receipts[r].token = x.token

\* A claimed receipt is changed by a registration, which recovers it, or by
\* the turn that has its claim token, in the Driver that holds the lease, in a
\* step of that turn: not by a retry of the dispatcher, a repeated post, a user
\* interrupt, the end of a lease, a turn of another Driver or of another epoch.
ClaimedStep ==
    \A r \in Requests :
        receipts[r].state = "in_flight" /\ receipts'[r] # receipts[r] =>
            \/ /\ lease'.epoch = lease.epoch + 1
               /\ receipts'[r] = Recovered(receipts[r])
            \/ \E d \in Drivers :
                  /\ Fenced(d, epoch[d])
                  /\ tasks[d][r].token = receipts[r].token
                  /\ tasks'[d][r].stage # tasks[d][r].stage

ClaimIsRespected == [][ClaimedStep]_turnVars

\* As long as a request is the only one of its conversation, it is submitted
\* to Codex once, however often it is delivered and the Driver fails.
AtMostOneTurnAlone ==
    \A r \in Requests :
        (\A q \in Requests \ {r} :
            ConvOf[q] = ConvOf[r] => receipts[q].state = "none")
        => submitted[r] <= 1

\* No conversation has two running Codex turns.
OneTurnPerConversation ==
    \A d, e \in Drivers, r, q \in Requests :
        /\ tasks[d][r].stage = "events" /\ tasks[e][q].stage = "events"
        /\ ConvOf[r] = ConvOf[q]
        => d = e /\ r = q

\* Every accepted message comes to its end.
EveryReceiptSettles ==
    \A r \in Requests :
        receipts[r].state # "none" ~> receipts[r].state \in Terminal
=============================================================================
