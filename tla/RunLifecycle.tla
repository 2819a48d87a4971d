---------------------------- MODULE RunLifecycle ----------------------------
(***************************************************************************)
(* One Run of the Observer and the requests that work on it at the same    *)
(* time: the public API, the tools of the coding agent and the Driver's    *)
(* executions all call the methods of ObserverRepository, and nothing but  *)
(* the single thread of asyncio keeps their calls apart.  A method that    *)
(* awaits (apply_patch while it validates a package and while it evaluates *)
(* readiness, commit and start while they evaluate readiness,              *)
(* record_result while it loads contracts and runs validators) leaves the  *)
(* Run to the other calls and then continues with what it had checked.     *)
(*                                                                         *)
(* A handler is one such call in progress.  A Begin action is a method up  *)
(* to its await, with its checks.  The matching action that ends the call  *)
(* is the rest of it.  The methods that never await are single actions.    *)
(* A call that raises before it writes anything is a stuttering step.      *)
(***************************************************************************)
EXTENDS Runs

CONSTANTS
  Handlers,        \* the calls that may be in progress at once
  Operations,      \* the operation_ids of patches; each is answered once
  Kinds,           \* the kinds of program that drafts may have
  MaxAttempts,     \* resource_budget.max_attempts of the closure contract
  MaxExecutions    \* bound on the executions a behaviour starts

ASSUME ConstantsAreSound ==
  /\ Kinds \subseteq ProgramKinds
  /\ MaxAttempts \in Nat
  /\ MaxExecutions \in Nat

VARIABLES
  run,         \* the RunRecord
  calls,       \* what each handler holds across its await
  answered,    \* repository.idempotency: the operations with a receipt
  overlapped   \* history: a call has begun while another was in progress

lifecycleVars == <<run, calls, answered, overlapped>>

Idle == [op |-> "none"]

\* op names the continuation: the rest of apply_patch before (patch) and
\* after (answer) the draft is replaced, of commit, start and record_result.
Call ==
  {Idle}
    \cup [op : {"patch"}, operation : Operations, draft : Draft, from : RunStates]
    \cup [op : {"answer"}, operation : Operations]
    \cup [op : {"commit"}]
    \cup [op : {"start"}]
    \cup [op : {"result"}, attempt : Nat]

LifecycleInit ==
  /\ \E kind \in Kinds : run = OpenedRun(kind)
  /\ calls = [h \in Handlers |-> Idle]
  /\ answered = {}
  /\ overlapped = FALSE

NoteOverlap ==
  overlapped' = (overlapped \/ \E h \in Handlers : calls[h] # Idle)

Enter(h, call) ==
  /\ calls[h] = Idle
  /\ calls' = [calls EXCEPT ![h] = call]
  /\ NoteOverlap

Leave(h) ==
  /\ calls' = [calls EXCEPT ![h] = Idle]
  /\ UNCHANGED overlapped

\* A method that never awaits runs at once, in a handler that is free.
AtOnce ==
  /\ \E h \in Handlers : calls[h] = Idle
  /\ NoteOverlap
  /\ UNCHANGED <<calls, answered>>

\* The await ends in an error or in a verdict that refuses the call: a
\* package, a contract or evidence that does not validate, a version that
\* is not ready.  The Run keeps its state.
Refuse(h) ==
  /\ calls[h].op \in {"patch", "commit", "start", "result"}
  /\ Leave(h)
  /\ UNCHANGED <<run, answered>>

---------------------------------------------------------------------------
\* Refinement

\* Mutant: the event is taken for the state it leads to.
BeginRefinementByEvent ==
  /\ run.state = "opened"
  /\ run' = [run EXCEPT !.state = "refinement_started"]
  /\ AtOnce

BeginRefinement ==
  /\ run.state = "opened"
  /\ run' = Transition(run, "refinement_started")
  /\ AtOnce

\* The caller names the current draft as the base of its patch; another
\* base is a version_conflict.
BeginPatch(h, o) ==
  /\ o \notin answered
  /\ run.state \in {"opened", "thinking", "awaiting_decision"}
  /\ run.state = "awaiting_decision" => run.outcome.decision = "repair"
  /\ Enter(h, [op |-> "patch", operation |-> o, draft |-> run.draft,
               from |-> run.state])
  /\ UNCHANGED <<run, answered>>

\* The operations of a patch make a program orchestrated when they
\* materialise an orchestrator package, and never direct again.
ApplyPatch(h) ==
  /\ calls[h].op = "patch"
  /\ \E kind \in Kinds \cap {calls[h].draft.kind, "orchestrated"} :
       run' = Patched(run, calls[h].draft.version, calls[h].from, kind)
  /\ calls' = [calls EXCEPT ![h] =
       IF calls[h].from = "thinking" \/ Allows(run, "refinement_started")
       THEN [op |-> "answer", operation |-> calls[h].operation]
       ELSE Idle]
  /\ UNCHANGED <<answered, overlapped>>

AnswerPatch(h) ==
  /\ calls[h].op = "answer"
  /\ answered' = answered \cup {calls[h].operation}
  /\ Leave(h)
  /\ UNCHANGED run

BeginCommit(h) ==
  /\ run.state = "thinking"
  /\ Enter(h, [op |-> "commit"])
  /\ UNCHANGED <<run, answered>>

EndCommit(h) ==
  /\ calls[h].op = "commit"
  /\ run' = Committed(run)
  /\ Leave(h)
  /\ UNCHANGED answered

---------------------------------------------------------------------------
\* Execution

\* A start of the committed version that is already running returns the
\* execution in progress and changes nothing.
BeginStart(h) ==
  /\ run.state = "committed"
  /\ run.execution < MaxExecutions
  /\ Enter(h, [op |-> "start"])
  /\ UNCHANGED <<run, answered>>

WithinBudget(x) == Len(x.attempts) < MaxAttempts

EndStart(h) ==
  /\ calls[h].op = "start"
  /\ run.committed.kind = "direct" => WithinBudget(run)
  /\ run' = Started(run)
  /\ Leave(h)
  /\ UNCHANGED answered

\* The Driver reports an attempt once: its executions are tasks under the
\* key (run, execution, epoch), so no second report of an attempt is made
\* while one is in progress.
BeginResult(h, i) ==
  /\ run.state = "running"
  /\ i \in DOMAIN run.attempts
  /\ run.attempts[i].node = 0
  /\ Live(run.attempts[i])
  /\ run.attempts[i].epoch = run.epoch
  /\ \A g \in Handlers : calls[g] # [op |-> "result", attempt |-> i]
  /\ Enter(h, [op |-> "result", attempt |-> i])
  /\ UNCHANGED <<run, answered>>

EndResult(h) ==
  /\ calls[h].op = "result"
  /\ \E terminal \in {"completed", "failed", "decision_required"} :
       run' = Resulted(run, calls[h].attempt, terminal)
  /\ Leave(h)
  /\ UNCHANGED answered

---------------------------------------------------------------------------
\* Decisions and ends

CancelRun ==
  /\ run.state \notin Ended
  /\ run' = Cancelled(run)
  /\ AtOnce

FailRun ==
  /\ run.state \notin Ended
  /\ run' = Failed(run)
  /\ AtOnce

ResolveRun(decision) ==
  /\ run.state = "awaiting_decision"
  /\ run.outcome # NoOutcome
  /\ decision = "accept" => run.outcome.decision = "attestation"
  /\ run' = Resolved(run, decision)
  /\ AtOnce

CloseRun ==
  /\ run.state \in Terminal
  /\ run' = Transition(run, "run_closed")
  /\ AtOnce

\* The command run.recovery.mark.
RecoverStaleRun(replayable) ==
  /\ run.state \in {"thinking", "running"}
  /\ run.epoch <= MaxExecutions
  /\ run' = Recovered(run, replayable)
  /\ AtOnce

LifecycleNext ==
  \/ BeginRefinement
  \/ \E h \in Handlers :
       \/ \E o \in Operations : BeginPatch(h, o)
       \/ ApplyPatch(h)
       \/ AnswerPatch(h)
       \/ BeginCommit(h)
       \/ EndCommit(h)
       \/ BeginStart(h)
       \/ EndStart(h)
       \/ \E i \in 1 .. Len(run.attempts) : BeginResult(h, i)
       \/ EndResult(h)
       \/ Refuse(h)
  \/ CancelRun
  \/ FailRun
  \/ \E decision \in {"accept", "abandon"} : ResolveRun(decision)
  \/ CloseRun
  \/ \E replayable \in BOOLEAN : RecoverStaleRun(replayable)

LifecycleSpec == LifecycleInit /\ [][LifecycleNext]_lifecycleVars
---------------------------------------------------------------------------
\* Properties

\* The record, the calls in progress and the histories have their types.
LifecycleTypeOK ==
  /\ run \in RunRecord
  /\ calls \in [Handlers -> Call]
  /\ answered \subseteq Operations

\* A Run that is completed, failed or cancelled is only ever closed, and a
\* closed Run stays closed, whatever calls were in progress when it ended.
EndedIsFinal ==
  [][run.state \in Ended => run'.state \in {run.state, "closed"}]_lifecycleVars

\* No two attempts of a direct program belong to the same epoch, however
\* many starts overlap: an epoch names the attempt whose report it admits.
AttemptsHaveTheirEpoch ==
  \A i, j \in DOMAIN run.attempts :
    run.attempts[i].epoch = run.attempts[j].epoch => i = j

\* A completed Run has an attempt that succeeded: record_result ended it
\* with a value that passed its checks, or an attested value was accepted.
CompletedWasEarned ==
  run.state = "completed" =>
    \E i \in DOMAIN run.attempts :
      run.attempts[i].state \in {"completed", "decision_required"}

\* The remaining properties are about calls that do not overlap.  Two calls
\* that overlap at an await can break each of them: the code checks before
\* the await and does not check again after it.

\* A pending decision is in the outcome of a Run that awaits one, and the
\* outcome of a Run that ended says how.
OutcomeMatchesState ==
  ~overlapped =>
    /\ run.state = "awaiting_decision" =>
         /\ run.outcome.disposition = "awaiting_decision"
         /\ run.outcome.decision \in {"repair", "attestation"}
    /\ run.state \in Terminal => run.outcome = Final(run.state)

\* A running direct program has exactly one attempt that can still report,
\* and it is the attempt of the current epoch.
RunningIsAnswerable ==
  run.state = "running" /\ run.committed.kind = "direct" =>
    \E i \in DOMAIN run.attempts :
      /\ Live(run.attempts[i]) /\ run.attempts[i].epoch = run.epoch
      /\ \A j \in DOMAIN run.attempts : Live(run.attempts[j]) => j = i

\* record_result always has an attempt to admit: through repairs, reruns and
\* stale-run recovery a running direct program can be answered, as long as
\* start is not called twice at once.
RerunIsAnswerable == ~overlapped => RunningIsAnswerable
=============================================================================
