----------------------------- MODULE AgentTools -----------------------------
(***************************************************************************)
(* The tools through which the coding agent works on its Run in one turn   *)
(* of a Driver that is separate from the Observer (DriverMCP.call with a   *)
(* control client), and the receipts of Driver commands in the Observer    *)
(* (execute_driver_command).                                               *)
(*                                                                         *)
(* A command carries a request_id.  The Observer stores the answer of a    *)
(* command that succeeded under its request_id and gives the stored answer *)
(* to every command that comes with the same one, so that a command whose  *)
(* answer was lost can be sent again.  The tools derive the request_id     *)
(* from the id of the user's message: one id for opening the Run, one for  *)
(* committing it, one for starting it.  The message keeps its id when it   *)
(* is delivered again after the Driver crashed, and the agent then works   *)
(* on it again if another turn of the conversation came in between.        *)
(*                                                                         *)
(* The agent makes one call at a time, and nobody else works on the Run:   *)
(* overlapping calls are the subject of RunLifecycle.                      *)
(***************************************************************************)
EXTENDS Runs

CONSTANTS
  MaxPatches,      \* bound on the patches of a behaviour
  MaxDeliveries    \* bound on the deliveries of the message

ASSUME BoundsAreNatural == MaxPatches \in Nat /\ MaxDeliveries \in Nat

VARIABLES
  opened,       \* how many Runs the message has opened
  run,          \* the RunRecord of the last one
  stored,       \* _driver_requests: the stored answers
  answer,       \* the answer of the last command
  turn,         \* what the Driver does for the agent
  deliveries    \* how often the message was delivered

toolVars == <<opened, run, stored, answer, turn, deliveries>>

\* An answer and, for a commit, the version it names.
Answer(tool, version) == [tool |-> tool, version |-> version]

NoAnswer == Answer("none", 0)

Error == Answer("error", 0)

\* The turn is detached before its loom_open_run (active_run_id is None), then
\* attached, executing while loom_start_run waits for the execution, and over.
ToolsInit ==
  /\ opened = 0
  /\ run = OpenedRun("direct")
  /\ stored = {}
  /\ answer = NoAnswer
  /\ turn = "detached"
  /\ deliveries = 1

IsStored(command) == \E a \in stored : a.tool = command

StoredAnswer(command) == CHOOSE a \in stored : a.tool = command

\* _execute_driver_command: what was answered before is answered again, and
\* nothing is executed.  Otherwise the command is executed, and a command
\* that raises stores nothing.  Its answer may be lost on the way back.
Repeat(command) ==
  /\ IsStored(command)
  /\ answer' \in {StoredAnswer(command), Error}
  /\ UNCHANGED <<run, stored>>

Execute(command, mayRun, result, version) ==
  /\ ~IsStored(command)
  /\ mayRun
  /\ run' = result
  /\ stored' = stored \cup {Answer(command, version)}
  /\ answer' \in {Answer(command, version), Error}

Raise(command, mayRun) ==
  /\ ~IsStored(command)
  /\ ~mayRun
  /\ answer' = Error
  /\ UNCHANGED <<run, stored>>

Command(command, mayRun, result, version) ==
  \/ Repeat(command)
  \/ Execute(command, mayRun, result, version)
  \/ Raise(command, mayRun)

---------------------------------------------------------------------------
\* The tools

\* Mutant: run.open is sent with a fresh request_id.
OpenRunAnew ==
  /\ turn \in {"detached", "attached"}
  /\ run' = OpenedRun("direct")
  /\ opened' = opened + 1
  /\ answer' \in {Answer("open", 0), Error}
  /\ turn' = IF answer' = Error THEN turn ELSE "attached"
  /\ UNCHANGED <<stored, deliveries>>

\* loom_open_run.  Each open_run makes a Run with an identifier of its own,
\* and the agent goes on with the Run of the answer.
OpenRun ==
  /\ turn \in {"detached", "attached"}
  /\ \/ Repeat("open") /\ UNCHANGED opened
     \/ Execute("open", TRUE, OpenedRun("direct"), 0) /\ opened' = opened + 1
  /\ turn' = IF answer' = Error THEN turn ELSE "attached"
  /\ UNCHANGED deliveries

\* The Driver sends run.begin when it sees that the Run is opened.
BeginRefinement ==
  /\ turn = "attached"
  /\ run.state = "opened"
  /\ Command("begin", TRUE, Transition(run, "refinement_started"), 0)
  /\ UNCHANGED <<opened, turn, deliveries>>

\* Each patch has an operation_id of its own and uses it as request_id.
ApplyPlanPatch ==
  /\ turn = "attached"
  /\ run.draft.version <= MaxPatches
  /\ run.state \in {"opened", "thinking", "awaiting_decision"}
  /\ run.state = "awaiting_decision" => run.outcome.decision = "repair"
  /\ run' = Patched(run, run.draft.version, run.state, "direct")
  /\ answer' = Answer("patch", run'.draft.version)
  /\ UNCHANGED <<opened, stored, turn, deliveries>>

\* A commit whose version is not ready raises.
CommitPlan ==
  /\ turn = "attached"
  /\ \E ready \in BOOLEAN :
       Command("commit", run.state = "thinking" /\ ready, Committed(run),
               run.committed.version + 1)
  /\ UNCHANGED <<opened, turn, deliveries>>

\* Mutant: every loom_start_run makes a new execution.
StartRunAgain ==
  /\ turn = "attached"
  /\ run.committed.version # 0
  /\ run.state \in {"committed", "running"}
  /\ run.execution <= MaxDeliveries
  /\ run' = Started(run)
  /\ answer' \in {Answer("start", run.committed.version), Error}
  /\ turn' = IF answer' # Error THEN "executing" ELSE turn
  /\ UNCHANGED <<opened, stored, deliveries>>

\* loom_start_run sends run.start and then executes the Run, if it runs.
StartRun ==
  /\ turn = "attached"
  /\ run.committed.version # 0
  /\ \E ready \in BOOLEAN :
       Command("start",
               run.state = "running" \/ (run.state = "committed" /\ ready),
               IF run.state = "running" THEN run ELSE Started(run),
               run.committed.version)
  /\ turn' = IF answer' # Error /\ run'.state = "running"
             THEN "executing" ELSE turn
  /\ UNCHANGED <<opened, deliveries>>

LiveAttempts(x) == {i \in DOMAIN x.attempts : Live(x.attempts[i])}

\* The execution reports its result, or it raises and the Run fails.
ReportResult ==
  /\ turn = "executing"
  /\ run' \in {Resulted(run, i, terminal) :
                 i \in LiveAttempts(run),
                 terminal \in {"completed", "failed", "decision_required"}}
              \cup {Failed(run)}
  /\ answer' = Answer("start", run.committed.version)
  /\ turn' = "attached"
  /\ UNCHANGED <<opened, stored, deliveries>>

ResolveRun(decision) ==
  /\ turn = "attached"
  /\ Command(decision,
             /\ run.state = "awaiting_decision"
             /\ decision = "accept" => run.outcome.decision = "attestation",
             Resolved(run, decision), 0)
  /\ UNCHANGED <<opened, turn, deliveries>>

CloseRun ==
  /\ turn = "attached"
  /\ run.state \in Terminal
  /\ run' = Transition(run, "run_closed")
  /\ answer' = Answer("close", 0)
  /\ UNCHANGED <<opened, stored, turn, deliveries>>

\* The turn ends: by itself, by an error, which fails a Run that is being
\* refined or executed, or by an interrupt, which cancels the Run.
EndTurn ==
  /\ turn # "over"
  /\ run' \in IF turn = "detached" THEN {run}
              ELSE {run, Failed(run), Cancelled(run)}
  /\ turn' = "over"
  /\ UNCHANGED <<opened, stored, answer, deliveries>>

\* The Driver crashes and the message is delivered again.
Redeliver ==
  /\ turn # "over"
  /\ deliveries < MaxDeliveries
  /\ deliveries' = deliveries + 1
  /\ turn' = "detached"
  /\ answer' = NoAnswer
  /\ UNCHANGED <<opened, run, stored>>

ToolsNext ==
  \/ OpenRun
  \/ BeginRefinement
  \/ ApplyPlanPatch
  \/ CommitPlan
  \/ StartRun
  \/ ReportResult
  \/ \E decision \in {"accept", "abandon"} : ResolveRun(decision)
  \/ CloseRun
  \/ EndTurn
  \/ Redeliver

ToolsSpec == ToolsInit /\ [][ToolsNext]_toolVars

---------------------------------------------------------------------------
\* Properties

\* However often the message is delivered and loom_open_run is called, the
\* message has one Run, and a Run it has worked on is never replaced by a
\* new one.
OneRunPerMessage == opened <= 1

\* However often a start is repeated because its answer was lost or the
\* message came again, an execution that runs is not superseded: it keeps
\* the attempt that can report it.
RunningKeepsItsAttempt ==
  run.state = "running" =>
    \E i \in LiveAttempts(run) : run.attempts[i].epoch = run.epoch

\* A commit that is answered with a version has made it: the version is the
\* committed one, and it is a copy of the draft the agent asked to commit.
CommitTakesEffect ==
  answer.tool = "commit" =>
    /\ run.committed.version = answer.version
    /\ run.committed.draft = run.draft.version
=============================================================================
