-------------------------------- MODULE Runs --------------------------------
(***************************************************************************)
(* The record of one Run in the Observer and the operations on it: the     *)
(* RunRecord of observer/repository.py, its transition table, and the part *)
(* of each repository method that changes the record, as operators from    *)
(* records to records.  When the operations run, and what may happen       *)
(* between two parts of one, is the business of RunLifecycle.              *)
(*                                                                         *)
(* Versions, executions and attempts have random identifiers in the code.  *)
(* They are numbered here in the order in which the Run receives them.     *)
(* Number 0 is None.                                                       *)
(***************************************************************************)
EXTENDS Naturals, Sequences

RunStates ==
  {"opened", "thinking", "committed", "running", "awaiting_decision",
   "completed", "failed", "cancelled", "closed"}

Terminal == {"completed", "failed", "cancelled"}

Ended == Terminal \cup {"closed"}

RUN_TRANSITIONS ==
  {<<"opened", "refinement_started", "thinking">>,
   <<"opened", "run_cancelled", "cancelled">>,
   <<"thinking", "committed", "committed">>,
   <<"thinking", "run_failed", "failed">>,
   <<"thinking", "run_cancelled", "cancelled">>,
   <<"committed", "execution_started", "running">>,
   <<"committed", "run_cancelled", "cancelled">>,
   <<"running", "run_succeeded", "completed">>,
   <<"running", "run_needs_decision", "awaiting_decision">>,
   <<"running", "run_failed", "failed">>,
   <<"running", "run_cancelled", "cancelled">>,
   <<"awaiting_decision", "decision_accepted", "completed">>,
   <<"awaiting_decision", "decision_abandoned", "failed">>,
   <<"awaiting_decision", "refinement_started", "thinking">>,
   <<"awaiting_decision", "run_cancelled", "cancelled">>,
   <<"completed", "run_closed", "closed">>,
   <<"failed", "run_closed", "closed">>,
   <<"cancelled", "run_closed", "closed">>}

\* A program is executed by one Slave ("direct") or by the Driver's
\* orchestration runtime, which runs it as dynamic nodes ("orchestrated").
ProgramKinds == {"direct", "orchestrated"}

Dispositions == {"none", "awaiting_decision"} \cup Terminal

Decisions == {"none", "repair", "attestation"}

Outcome == [disposition : Dispositions, decision : Decisions]

NoOutcome == [disposition |-> "none", decision |-> "none"]

Final(disposition) == [disposition |-> disposition, decision |-> "none"]

Pending(decision) ==
  [disposition |-> "awaiting_decision", decision |-> decision]

\* A draft and the version its contents were derived from.
Draft == [version : Nat, base : Nat, kind : ProgramKinds]

\* A committed version and the draft it is a copy of.
Closure == [version : Nat, draft : Nat, kind : ProgramKinds]

AttemptStates ==
  {"created", "completed", "failed", "decision_required", "lost"}

\* node is 0 for the attempt of a direct program.  worker and instance are
\* the Slave and its instance that the attempt was given to, heir is the
\* attempt that replaced it.  The states created and running of the code are
\* one: no code sets running and every check accepts both.
Attempt ==
  [node : Nat, epoch : Nat, state : AttemptStates,
   worker : Nat, instance : Nat, heir : Nat]

RunRecord ==
  [state : RunStates, draft : Draft, committed : Closure, execution : Nat,
   epoch : Nat, outcome : Outcome, attempts : Seq(Attempt)]

OpenedRun(kind) ==
  [state     |-> "opened",
   draft     |-> [version |-> 1, base |-> 0, kind |-> kind],
   committed |-> [version |-> 0, draft |-> 0, kind |-> kind],
   execution |-> 0,
   epoch     |-> 1,
   outcome   |-> NoOutcome,
   attempts  |-> <<>>]

---------------------------------------------------------------------------
\* The transition function.  Where the code raises, the record keeps what
\* was written before the call.

Allows(x, event) ==
  /\ \E target \in RunStates : <<x.state, event, target>> \in RUN_TRANSITIONS
  /\ event = "refinement_started" /\ x.state = "awaiting_decision"
       => x.outcome.decision = "repair"
  /\ event = "decision_accepted" => x.outcome.decision = "attestation"

TargetOf(state, event) ==
  CHOOSE target \in RunStates : <<state, event, target>> \in RUN_TRANSITIONS

\* Mutant: the state the Run is in is not looked up in the table.
TransitionAnyway(x, event) ==
  [x EXCEPT !.state = CHOOSE target \in RunStates :
     \E state \in RunStates : <<state, event, target>> \in RUN_TRANSITIONS]

Transition(x, event) ==
  IF Allows(x, event) THEN [x EXCEPT !.state = TargetOf(x.state, event)] ELSE x

\* A transition followed by the assignment of the outcome, which a refused
\* transition never reaches.
Settle(x, event, outcome) ==
  IF Allows(x, event)
  THEN [Transition(x, event) EXCEPT !.outcome = outcome]
  ELSE x

\* An assignment of the outcome followed by a transition, which may refuse.
Report(x, outcome, event) ==
  Transition([x EXCEPT !.outcome = outcome], event)

---------------------------------------------------------------------------
\* The operations.

\* Attempts that may still report.
Live(attempt) == attempt.state = "created"

\* The tail of apply_patch: the draft derived from version base replaces
\* the current one.  from is the state the Run had when the call began.
Patched(x, base, from, kind) ==
  LET y == [x EXCEPT !.draft = [version |-> x.draft.version + 1,
                                base |-> base, kind |-> kind]]
  IN CASE from = "opened" -> Transition(y, "refinement_started")
       [] from = "awaiting_decision" ->
            Settle(y, "refinement_started", NoOutcome)
       [] OTHER -> y

\* The tail of commit.
Committed(x) ==
  Transition([x EXCEPT !.committed = [version |-> x.committed.version + 1,
                                      draft |-> x.draft.version,
                                      kind |-> x.draft.kind]],
             "committed")

\* Mutant: a new execution keeps the epoch of the one before.
NewExecutionSameEpoch(x) ==
  [x EXCEPT !.execution = @ + 1, !.outcome = NoOutcome]

\* start counts the execution before the transition and adds the attempt of
\* a direct program after it.
NewExecution(x) ==
  [x EXCEPT !.execution = @ + 1,
            !.epoch = IF x.execution = 0 THEN 1 ELSE @ + 1,
            !.outcome = NoOutcome]

AddAttempt(x, node, worker, instance) ==
  [x EXCEPT !.attempts =
     Append(@, [node |-> node, epoch |-> x.epoch, state |-> "created",
                worker |-> worker, instance |-> instance, heir |-> 0])]

\* Mutant: the attempt is made before the execution gets its epoch.
StartedEarly(x) ==
  LET y == Transition(x, "execution_started")
  IN NewExecution(IF Allows(x, "execution_started") /\ y.committed.kind = "direct"
                  THEN AddAttempt(y, 0, 0, 0)
                  ELSE y)

Started(x) ==
  LET y == NewExecution(x)
      z == Transition(y, "execution_started")
  IN IF Allows(y, "execution_started") /\ z.committed.kind = "direct"
     THEN AddAttempt(z, 0, 0, 0)
     ELSE z

SetAttempt(x, i, state) == [x EXCEPT !.attempts[i].state = state]

\* Mutant: the terminal state of the report is not looked at.
ResultedWell(x, i, terminal) ==
  Report(SetAttempt(x, i, terminal), Final("completed"), "run_succeeded")

\* The tail of record_result, by the terminal state that the checks of the
\* value left.
Resulted(x, i, terminal) ==
  LET y == SetAttempt(x, i, terminal)
  IN CASE terminal = "completed" ->
            Report(y, Final("completed"), "run_succeeded")
       [] terminal = "failed" ->
            Report(y, Pending("repair"), "run_needs_decision")
       [] terminal = "decision_required" ->
            Report(y, Pending("attestation"), "run_needs_decision")

\* Mutant: a cancelled Run keeps its outcome.
CancelledBare(x) == Transition(x, "run_cancelled")

Cancelled(x) == Settle(x, "run_cancelled", Final("cancelled"))

Failed(x) == Settle(x, "run_failed", Final("failed"))

Resolved(x, decision) ==
  IF decision = "accept"
  THEN Settle(x, "decision_accepted", Final("completed"))
  ELSE Settle(x, "decision_abandoned", Final("failed"))

\* The attempts that recover_stale_runs fences.
Fenced(attempts) ==
  [i \in DOMAIN attempts |->
     IF Live(attempts[i]) THEN [attempts[i] EXCEPT !.state = "failed"]
                          ELSE attempts[i]]

\* recover_stale_runs: an orchestration that can be replayed gets a new
\* epoch, every other leased Run fails.
Recovered(x, replayable) ==
  LET y == [x EXCEPT !.attempts = Fenced(x.attempts)]
  IN IF x.state = "running" /\ x.committed.kind = "orchestrated" /\ replayable
     THEN [y EXCEPT !.epoch = @ + 1]
     ELSE Failed(y)

=============================================================================
