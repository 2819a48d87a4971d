---------------------------- MODULE DynamicNodes ----------------------------
(***************************************************************************)
(* One execution of an orchestrated Run.  The Driver runs the program of   *)
(* the orchestration package; the program emits intents, and for each of   *)
(* them a task of the Driver has a dynamic node accepted by the Observer,  *)
(* dispatches it to a Slave, reports its result, and gives it to another   *)
(* Slave when the first is lost (DynamicOrchestrationRuntime and the node  *)
(* operations of ObserverRepository).                                      *)
(*                                                                         *)
(* The Observer's methods await in between: each is split where it does,   *)
(* and a method in progress is a call.  A call keeps the RunRecord object  *)
(* it loaded.  reassign_dynamic_node writes into a deep copy, saves it and *)
(* then puts the copy in the place of the object, so a call that loaded    *)
(* the object before goes on with a record nobody reads any more.  The     *)
(* objects are kept in a sequence; the last one is the Run.                *)
(*                                                                         *)
(* Intents and Slaves are numbered from 1.  A node has the number of its   *)
(* intent: the program is deterministic, and its replay emits the same     *)
(* intents in the same order.                                              *)
(***************************************************************************)
EXTENDS Runs, FiniteSets

CONSTANTS
  NumIntents,      \* the intents the program emits
  NumSlaves,       \* the Slaves that support the packages of the nodes
  MaxNodes,        \* max_nodes of the orchestration package
  MaxLiveNodes,    \* max_live_nodes of the orchestration package
  MaxAttempts,     \* max_attempts of the resource budget
  AllowReassignment,  \* allow_reassignment of the recovery policy
  MaxRuntimes,     \* bound on the orchestration runtimes that are started
  MaxFaults        \* bound on the faults, see Fault

ASSUME NodeConstantsAreSound ==
  /\ NumIntents \in Nat \ {0} /\ NumSlaves \in Nat \ {0}
  /\ MaxNodes \in Nat /\ MaxLiveNodes \in Nat /\ MaxAttempts \in Nat
  /\ AllowReassignment \in BOOLEAN
  /\ MaxRuntimes \in Nat /\ MaxFaults \in Nat

VARIABLES
  objects,     \* the RunRecord objects; the last one is runs[run_id]
  calls,       \* the Observer's node operations in progress
  tasks,       \* the Driver's task for each intent
  driver,      \* the orchestration runtime, 0 for none
  leases,      \* the lease of each Slave
  faults       \* the faults that have happened

nodeVars == <<objects, calls, tasks, driver, leases, faults>>

Intents == 1 .. NumIntents

Slaves == 1 .. NumSlaves

NodeStates ==
  {"none", "accepted", "dispatched", "completed", "failed", "decision_required"}

LiveNode(state) == state \in {"accepted", "dispatched"}

\* selected is the target that the last node_accepted or node_reassigned
\* event names.
Object ==
  [run : RunRecord, nodes : [Intents -> NodeStates],
   selected : [Intents -> Slaves \cup {0}]]

\* accept, dispatch: about to ask the Observer for it; accepting and the
\* like: the call is in progress.  continue: the node had been dispatched
\* before this runtime.  work: the Slave executes the attempt.  confirm: the
\* report has been answered, the result is about to be read back.  fail: the
\* task has raised and is about to fail its node.
Stages ==
  {"none", "accept", "accepting", "continue", "dispatch", "dispatching", "work",
   "reporting", "confirm", "recover", "reassigning", "fail",
   "failed", "done"}

Task == [stage : Stages, target : Slaves \cup {0}, attempt : Nat]

NoTask == [stage |-> "none", target |-> 0, attempt |-> 0]

\* The Run has just been started with an orchestrated program.
RunningRun ==
  [OpenedRun("orchestrated") EXCEPT
     !.state = "running", !.committed.version = 1, !.committed.draft = 1,
     !.execution = 1]

NewObject ==
  [run |-> RunningRun, nodes |-> [i \in Intents |-> "none"],
   selected |-> [i \in Intents |-> 0]]

NodesInit ==
  /\ objects = <<NewObject>>
  /\ calls = {}
  /\ tasks = [i \in Intents |-> NoTask]
  /\ driver = [runtime |-> 1, started |-> 1, nodes |-> NewObject.nodes,
               selected |-> NewObject.selected]
  /\ leases = [s \in Slaves |-> [instance |-> 1, active |-> TRUE]]
  /\ faults = 0

---------------------------------------------------------------------------
\* Auxiliary operators

Current == objects[Len(objects)]

Write(o, object) == objects' = [objects EXCEPT ![o] = object]

NodeAttempts(x, i) == {k \in DOMAIN x.run.attempts : x.run.attempts[k].node = i}

LiveAttempts(x, i) == {k \in NodeAttempts(x, i) : Live(x.run.attempts[k])}

LastOf(indexes) == CHOOSE k \in indexes : \A j \in indexes : j <= k

\* The attempt a task works on, looked up in an object by its identifier.
\* Two objects may have different attempts at the same place.
Has(x, i, k, target) ==
  k \in NodeAttempts(x, i) /\ x.run.attempts[k].worker = target

\* The lease of the instance that an attempt was given to is over.
InstanceLost(attempt) ==
  LET lease == leases[attempt.worker]
  IN lease.instance # attempt.instance \/ ~lease.active

\* Mutant: off by one.
WithinBudgetPlusOne(x) == Len(x.run.attempts) <= MaxAttempts

WithinBudget(x) == Len(x.run.attempts) < MaxAttempts

\* Mutant: the limit of live nodes is off by one.
WithinLimitsPlusOne(x) ==
  /\ Cardinality({i \in Intents : x.nodes[i] # "none"}) < MaxNodes
  /\ Cardinality({i \in Intents : LiveNode(x.nodes[i])}) <= MaxLiveNodes

WithinLimits(x) ==
  /\ Cardinality({i \in Intents : x.nodes[i] # "none"}) < MaxNodes
  /\ Cardinality({i \in Intents : LiveNode(x.nodes[i])}) < MaxLiveNodes

\* _dynamic_intent_locks: held by accept_node_intent and reassign_dynamic_node.
Locked == \E c \in calls : c.op \in {"accept", "reassign", "swap"}

GoTo(i, stage) == tasks' = [tasks EXCEPT ![i].stage = stage]

\* A request of a task reaches the Observer and begins.
Begin(op, i, target, stage) ==
  /\ calls' = calls \cup
       {[op |-> op, runtime |-> driver.runtime, intent |-> i,
         object |-> Len(objects), attempt |-> tasks[i].attempt,
         target |-> target]}
  /\ GoTo(i, stage)

Refuse(i, stage) == GoTo(i, stage) /\ UNCHANGED calls

\* A call ends.  Its answer reaches the task if the runtime still exists.
Answer(c, task) ==
  /\ calls' = calls \ {c}
  /\ tasks' = IF c.runtime = driver.runtime
              THEN [tasks EXCEPT ![c.intent] = task]
              ELSE tasks

AnswerStage(c, stage) == Answer(c, [tasks[c.intent] EXCEPT !.stage = stage])

\* The loss or the restart of a Slave, a crash of the Driver, an error of the
\* program or a cancellation.
Fault == faults < MaxFaults /\ faults' = faults + 1

DriverOff ==
  /\ driver' = [driver EXCEPT !.runtime = 0]
  /\ tasks' = [i \in Intents |-> NoTask]

---------------------------------------------------------------------------
\* Acceptance

\* The targets emit_node chooses from: _select_target, or the target the
\* node had when the runtime started.
Targets(i) ==
  IF driver.nodes[i] # "none" /\ ~AllowReassignment
  THEN {driver.selected[i]}
  ELSE {s \in Slaves : leases[s].active}

\* emit_node: a node that was completed when the runtime started has its
\* result at once; for another one a target is chosen.  The program waits
\* for the handle of an intent before it emits the next one.
EmitNode(i) ==
  /\ driver.runtime # 0
  /\ tasks[i].stage = "none"
  /\ \A j \in 1 .. (i - 1) : tasks[j].stage \notin {"none", "accept", "accepting"}
  /\ IF driver.nodes[i] = "completed"
     THEN GoTo(i, "done")
     ELSE IF Targets(i) = {}
     THEN GoTo(i, "failed")
     ELSE \E s \in Targets(i) :
            tasks' = [tasks EXCEPT ![i].stage = "accept", ![i].target = s]
  /\ UNCHANGED <<objects, calls, driver, leases, faults>>

\* What the Driver does with a node it was given.
NextStage(state) ==
  CASE state = "accepted"   -> "dispatch"
    [] state = "dispatched" -> "continue"
    [] state = "completed"  -> "done"
    [] OTHER                -> "fail"

\* accept_node_intent, up to its awaits.  A replayed intent gets the node it
\* already has.
BeginAccept(i) ==
  /\ tasks[i].stage = "accept"
  /\ ~Locked
  /\ IF Current.run.state # "running"
     THEN Refuse(i, "failed")
     ELSE IF Current.nodes[i] # "none"
     THEN GoTo(i, NextStage(Current.nodes[i])) /\ UNCHANGED calls
     ELSE IF ~WithinLimits(Current)
     THEN Refuse(i, "failed")
     ELSE Begin("accept", i, tasks[i].target, "accepting")
  /\ UNCHANGED <<objects, driver, leases, faults>>

\* The rest of it.  The intent is refused when its package, its inputs or
\* its target do not pass; the state of the Run is not looked at again.
EndAccept(c) ==
  /\ c.op = "accept"
  /\ \/ /\ AnswerStage(c, "failed")
        /\ UNCHANGED objects
     \/ /\ leases[c.target].active
        /\ WithinLimits(objects[c.object])
        /\ Write(c.object, [objects[c.object] EXCEPT
                              !.nodes[c.intent] = "accepted",
                              !.selected[c.intent] = c.target])
        /\ AnswerStage(c, NextStage("accepted"))
  /\ UNCHANGED <<driver, leases, faults>>

---------------------------------------------------------------------------
\* Dispatch and execution

\* _execute_node for a node that a former runtime dispatched: it goes on
\* with the active attempt.
ContinueNode(i) ==
  LET live == LiveAttempts(Current, i)
      k == LastOf(live)
      a == Current.run.attempts[k]
  IN /\ tasks[i].stage = "continue"
     /\ IF live = {}
        THEN GoTo(i, "fail")
        ELSE tasks' = [tasks EXCEPT ![i] =
               [stage |-> IF InstanceLost(a) THEN "recover" ELSE "work",
                target |-> a.worker, attempt |-> k]]
     /\ UNCHANGED <<objects, calls, driver, leases, faults>>

BeginDispatch(i) ==
  /\ tasks[i].stage = "dispatch"
  /\ IF Current.run.state = "running" /\ Current.nodes[i] = "accepted"
     THEN Begin("dispatch", i, tasks[i].target, "dispatching")
     ELSE Refuse(i, "fail")
  /\ UNCHANGED <<objects, driver, leases, faults>>

\* The node's state is not looked at again after the await.
EndDispatch(c) ==
  LET x == objects[c.object]
      y == [x EXCEPT !.run = AddAttempt(x.run, c.intent, c.target,
                                        leases[c.target].instance),
                     !.nodes[c.intent] = "dispatched"]
  IN /\ c.op = "dispatch"
     /\ IF /\ x.selected[c.intent] = c.target
           /\ leases[c.target].active
           /\ WithinBudget(x)
        THEN /\ Write(c.object, y)
             /\ Answer(c, [tasks[c.intent] EXCEPT
                             !.stage = "work",
                             !.attempt = Len(y.run.attempts)])
        ELSE AnswerStage(c, "fail") /\ UNCHANGED objects
     /\ UNCHANGED <<driver, leases, faults>>

\* The Slave cannot be provisioned or answers with an error, or it cannot be
\* reached.
WorkFails(i) ==
  /\ tasks[i].stage = "work"
  /\ \E stage \in {"recover", "fail"} : GoTo(i, stage)
  /\ UNCHANGED <<objects, calls, driver, leases, faults>>

\* The Slave has executed the attempt, and record_dynamic_node_result begins:
\* the report must be for a live attempt of the node.
BeginReport(i) ==
  LET k == tasks[i].attempt
  IN /\ tasks[i].stage = "work"
     /\ IF /\ Current.run.state = "running"
           /\ Has(Current, i, k, tasks[i].target)
           /\ Live(Current.run.attempts[k])
        THEN Begin("report", i, tasks[i].target, "reporting")
        ELSE Refuse(i, "fail")
     /\ UNCHANGED <<objects, driver, leases, faults>>

\* Mutant: the report is written into the record of the time after the
\* awaits, without a second look at the attempt.
EndReportReloaded(c) ==
  /\ c.op = "report"
  /\ Write(Len(objects), [Current EXCEPT
       !.run = SetAttempt(@, c.attempt, "completed"),
       !.nodes[c.intent] = "completed"])
  /\ AnswerStage(c, "confirm")
  /\ UNCHANGED <<driver, leases, faults>>

\* The value is validated across awaits, and an error of its evidence
\* raises.  Then the attempt, the node and, if it is no success, the Run are
\* written; terminal is what the Slave reported and the validation left of it.
EndReport(c) ==
  LET x == objects[c.object]
      Written(terminal) ==
        [x EXCEPT !.run = SetAttempt(@, c.attempt, terminal),
                  !.nodes[c.intent] = terminal]
      Undecided(y, decision) ==
        [y EXCEPT !.run = Report(@, Pending(decision), "run_needs_decision")]
  IN /\ c.op = "report"
     /\ \/ Write(c.object, Written("completed")) /\ AnswerStage(c, "confirm")
        \/ /\ Write(c.object, Undecided(Written("failed"), "repair"))
           /\ AnswerStage(c, "fail")
        \/ /\ Write(c.object, Undecided(Written("decision_required"), "attestation"))
           /\ AnswerStage(c, "fail")
        \/ UNCHANGED objects /\ AnswerStage(c, "fail")
     /\ UNCHANGED <<driver, leases, faults>>

\* The Driver reads the Run back to return the result of the attempt.
ConfirmResult(i) ==
  LET k == tasks[i].attempt
  IN /\ tasks[i].stage = "confirm"
     /\ GoTo(i, IF /\ Has(Current, i, k, tasks[i].target)
                   /\ Current.run.attempts[k].state = "completed"
                THEN "done" ELSE "fail")
     /\ UNCHANGED <<objects, calls, driver, leases, faults>>

---------------------------------------------------------------------------
\* Recovery from the loss of a Slave

\* Mutant: the wait for the lease has no deadline.
GiveUpNever(i) == FALSE /\ UNCHANGED nodeVars

\* _recover_attempt gives up at its deadline.
GiveUp(i) ==
  /\ tasks[i].stage = "recover"
  /\ GoTo(i, "fail")
  /\ UNCHANGED <<objects, calls, driver, leases, faults>>

MayReassign(x, i, k, target) ==
  /\ x.run.state = "running"
  /\ Has(x, i, k, target)
  /\ x.nodes[i] = "dispatched"
  /\ LiveAttempts(x, i) = {k}
  /\ AllowReassignment
  /\ WithinBudget(x)

\* _recover_attempt: once the lease is over and another Slave is active, the
\* attempt is to be replaced.  One that has been replaced already is
\* continued with its replacement.
BeginReassign(i, s) ==
  LET k == tasks[i].attempt
      from == tasks[i].target
      a == Current.run.attempts[k]
  IN /\ tasks[i].stage = "recover"
     /\ Has(Current, i, k, from) => InstanceLost(a)
     /\ s # from /\ leases[s].active
     /\ ~Locked
     /\ IF Has(Current, i, k, from) /\ a.heir # 0
        THEN /\ tasks' = [tasks EXCEPT ![i] = [@ EXCEPT
                  !.stage = "work", !.attempt = a.heir,
                  !.target = Current.run.attempts[a.heir].worker]]
             /\ UNCHANGED calls
        ELSE IF MayReassign(Current, i, k, from)
        THEN Begin("reassign", i, s, "reassigning")
        ELSE Refuse(i, "fail")
     /\ UNCHANGED <<objects, driver, leases, faults>>

\* Mutant: the attempt that is replaced is not fenced.
ReassignedUnfenced(x, i, k, s) ==
  LET n == Len(x.run.attempts) + 1
      y == AddAttempt(x.run, i, s, leases[s].instance)
  IN [x EXCEPT !.run = [y EXCEPT !.attempts[k].heir = n],
               !.nodes[i] = "dispatched",
               !.selected[i] = s]

\* Mutant: the node gets the state of its attempt.
ReassignedNode(x, i, k, s) ==
  LET n == Len(x.run.attempts) + 1
      y == AddAttempt(x.run, i, s, leases[s].instance)
  IN [x EXCEPT !.run = [y EXCEPT !.attempts[k].state = "lost",
                                 !.attempts[k].heir = n],
               !.nodes[i] = "lost",
               !.selected[i] = s]

\* The record with the attempt lost and its replacement in its place.
Reassigned(x, i, k, s) ==
  LET n == Len(x.run.attempts) + 1
      y == AddAttempt(x.run, i, s, leases[s].instance)
  IN [x EXCEPT !.run = [y EXCEPT !.attempts[k].state = "lost",
                                 !.attempts[k].heir = n],
               !.nodes[i] = "dispatched",
               !.selected[i] = s]

\* The rest of reassign_dynamic_node up to the save.  It raises when an input
\* of the node cannot be read; of what the record said only the leases are
\* looked at again after the awaits.
CopyRecord(c) ==
  LET x == objects[c.object]
      lost == InstanceLost(x.run.attempts[c.attempt])
  IN /\ c.op = "reassign"
     /\ \/ AnswerStage(c, "fail")
        \/ lost /\ ~leases[c.target].active /\ AnswerStage(c, "recover")
        \/ /\ lost /\ leases[c.target].active
           /\ calls' = (calls \ {c}) \cup
                {[op |-> "swap", runtime |-> c.runtime, intent |-> c.intent,
                  target |-> c.target,
                  copy |-> Reassigned(x, c.intent, c.attempt, c.target)]}
           /\ UNCHANGED tasks
     /\ UNCHANGED <<objects, driver, leases, faults>>

\* The copy is saved and becomes the Run.
SwapRecord(c) ==
  /\ c.op = "swap"
  /\ objects' = Append(objects, c.copy)
  /\ Answer(c, [tasks[c.intent] EXCEPT
                  !.stage = "work",
                  !.attempt = Len(c.copy.run.attempts),
                  !.target = c.target])
  /\ UNCHANGED <<driver, leases, faults>>

---------------------------------------------------------------------------
\* Failure and completion

\* fail_dynamic_node with the last attempt of the node, as the Driver sees
\* it; an attempt that is not live makes it raise.
FailNode(i) ==
  LET x == Current
      all == NodeAttempts(x, i)
      failed == [x EXCEPT
        !.run = Settle([x.run EXCEPT !.attempts = [k \in DOMAIN @ |->
                          IF all # {} /\ k = LastOf(all)
                          THEN [@[k] EXCEPT !.state = "failed"] ELSE @[k]]],
                       "run_needs_decision", Pending("repair")),
        !.nodes[i] = "failed"]
  IN /\ tasks[i].stage = "fail"
     /\ IF x.nodes[i] # "none" /\ (all # {} => Live(x.run.attempts[LastOf(all)]))
        THEN Write(Len(objects), failed)
        ELSE UNCHANGED objects
     /\ GoTo(i, "failed")
     /\ UNCHANGED <<calls, driver, leases, faults>>

\* The program raises: the tasks that are not done are cancelled, not so
\* their calls in the Observer, and a Run that still runs fails.
EndProgram ==
  /\ Write(Len(objects), [Current EXCEPT !.run =
       IF Current.run.state \in {"awaiting_decision", "failed", "cancelled"}
       THEN @ ELSE Failed(@)])
  /\ DriverOff
  /\ UNCHANGED calls

NodeFailed ==
  /\ \E i \in Intents : tasks[i].stage = "failed"
  /\ EndProgram
  /\ UNCHANGED <<leases, faults>>

ProgramFailed ==
  /\ driver.runtime # 0
  /\ EndProgram
  /\ Fault
  /\ UNCHANGED leases

AllDone == \A i \in Intents : tasks[i].stage = "done"

\* Mutant: the states of the nodes are not looked at.
BeginCompleteUnchecked ==
  /\ driver.runtime # 0
  /\ AllDone
  /\ \A c \in calls : ~(c.op = "complete" /\ c.runtime = driver.runtime)
  /\ Current.run.state = "running"
  /\ calls' = calls \cup {[op |-> "complete", runtime |-> driver.runtime,
                           object |-> Len(objects)]}
  /\ UNCHANGED <<objects, tasks, driver, leases, faults>>

\* complete_orchestration, up to its awaits.  When it raises, the Driver
\* fails a Run that still runs.
BeginComplete ==
  /\ driver.runtime # 0
  /\ AllDone
  /\ \A c \in calls : ~(c.op = "complete" /\ c.runtime = driver.runtime)
  /\ IF /\ Current.run.state = "running"
        /\ \A i \in Intents : Current.nodes[i] \in {"none", "completed"}
     THEN /\ calls' = calls \cup {[op |-> "complete", runtime |-> driver.runtime,
                                   object |-> Len(objects)]}
          /\ UNCHANGED <<objects, tasks, driver>>
     ELSE EndProgram
  /\ UNCHANGED <<leases, faults>>

HasResult(x) ==
  \E k \in DOMAIN x.run.attempts : x.run.attempts[k].state = "completed"

\* The final value must be the result of a node of the record; it may have to
\* be attested.
EndComplete(c) ==
  LET x == objects[c.object]
  IN /\ c.op = "complete"
     /\ \/ /\ HasResult(x)
           /\ Write(c.object, [x EXCEPT !.run =
                  Settle(@, "run_succeeded", Final("completed"))])
        \/ /\ HasResult(x)
           /\ Write(c.object, [x EXCEPT !.run =
                  Settle(@, "run_needs_decision", Pending("attestation"))])
        \/ Write(c.object, [x EXCEPT !.run =
                  Settle(@, "run_needs_decision", Pending("repair"))])
     /\ calls' = calls \ {c}
     /\ IF c.runtime = driver.runtime THEN DriverOff ELSE UNCHANGED <<driver, tasks>>
     /\ UNCHANGED <<leases, faults>>

---------------------------------------------------------------------------
\* The user, the Driver process and the Slaves

CancelRun ==
  /\ Current.run.state \notin Ended
  /\ Write(Len(objects), [Current EXCEPT !.run = Cancelled(@)])
  /\ Fault
  /\ UNCHANGED <<calls, tasks, driver, leases>>

\* _wait_for_execution_or_cancel
NoticeCancel ==
  /\ driver.runtime # 0
  /\ Current.run.state = "cancelled"
  /\ DriverOff
  /\ UNCHANGED <<objects, calls, leases, faults>>

\* The Driver crashes; loom_start_run of the redelivered message finds the
\* Run running and starts a runtime that replays the program.
Crash ==
  /\ driver.runtime # 0
  /\ DriverOff
  /\ Fault
  /\ UNCHANGED <<objects, calls, leases>>

Resume ==
  /\ driver.runtime = 0
  /\ driver.started < MaxRuntimes
  /\ Current.run.state = "running"
  /\ driver' = [runtime |-> driver.started + 1, started |-> driver.started + 1,
                nodes |-> Current.nodes, selected |-> Current.selected]
  /\ UNCHANGED <<objects, calls, tasks, leases, faults>>

LoseLease(s) ==
  /\ leases[s].active
  /\ leases' = [leases EXCEPT ![s].active = FALSE]
  /\ Fault
  /\ UNCHANGED <<objects, calls, tasks, driver>>

\* An instance registers again, or a new one does and expires the lease of
\* the one before.
RegisterSlave(s) ==
  /\ \/ /\ ~leases[s].active
        /\ leases' = [leases EXCEPT ![s].active = TRUE]
        /\ UNCHANGED faults
     \/ /\ Fault
        /\ leases' = [leases EXCEPT ![s] = [instance |-> @.instance + 1,
                                            active |-> TRUE]]
  /\ UNCHANGED <<objects, calls, tasks, driver>>

TaskStep(i) ==
  \/ EmitNode(i)
  \/ BeginAccept(i)
  \/ ContinueNode(i)
  \/ BeginDispatch(i)
  \/ WorkFails(i)
  \/ BeginReport(i)
  \/ ConfirmResult(i)
  \/ GiveUp(i)
  \/ \E s \in Slaves : BeginReassign(i, s)
  \/ FailNode(i)

CallStep ==
  \E c \in calls :
    \/ EndAccept(c)
    \/ EndDispatch(c)
    \/ EndReport(c)
    \/ CopyRecord(c)
    \/ SwapRecord(c)
    \/ EndComplete(c)

NodesNext ==
  \/ \E i \in Intents : TaskStep(i)
  \/ CallStep
  \/ NodeFailed
  \/ ProgramFailed
  \/ BeginComplete
  \/ CancelRun
  \/ NoticeCancel
  \/ Crash
  \/ Resume
  \/ \E s \in Slaves : LoseLease(s) \/ RegisterSlave(s)

NodesSpec == NodesInit /\ [][NodesNext]_nodeVars

\* The event loops of the Driver and the Observer run their tasks.
FairNodesSpec ==
  /\ NodesSpec
  /\ \A i \in Intents : WF_nodeVars(TaskStep(i))
  /\ \A i \in Intents : SF_nodeVars(GiveUp(i))
  /\ WF_nodeVars(CallStep)
  /\ WF_nodeVars(NodeFailed)
  /\ WF_nodeVars(BeginComplete)
---------------------------------------------------------------------------
\* Properties

\* The objects, the tasks and the leases have their types.
NodesTypeOK ==
  /\ \A o \in DOMAIN objects : objects[o] \in Object
  /\ tasks \in [Intents -> Task]
  /\ driver.runtime \in 0 .. driver.started

\* An attempt that was given up as lost stays lost: a report of it that was
\* being validated for a crashed runtime while its successor replaced the
\* attempt does not bring it back.
LostStaysLost ==
  [][\A k \in DOMAIN Current.run.attempts :
       Current.run.attempts[k].state = "lost" =>
         Current'.run.attempts[k].state = "lost"]_nodeVars

\* A node has at most one attempt that may report, as long as one runtime
\* works on the Run: reassign_dynamic_node fences the attempt it replaces.
OneLiveAttempt ==
  driver.started = 1 =>
    \A i \in Intents : Cardinality(LiveAttempts(Current, i)) <= 1

\* A node never has two results, however the reports of lost Slaves, of a
\* crashed runtime and of its replacement are ordered.  A third runtime can
\* make a second one: dispatches of two runtimes leave a node two attempts,
\* and it reports the one while the report of the other is on its way.
OneResult ==
  driver.started <= 2 =>
    \A i \in Intents :
      Cardinality({k \in NodeAttempts(Current, i) :
                     Current.run.attempts[k].state = "completed"}) <= 1

\* The budget of attempts is overrun by one at most: a reassignment compares
\* it before its last await, and dispatches do not wait for its lock.
BudgetIsNearlyKept == Len(Current.run.attempts) <= MaxAttempts + 1

\* A Run that completed under one runtime has a completed attempt for each
\* of its nodes, even though a reassignment may have taken results away:
\* complete_orchestration looks at the nodes again.
CompletedRunHasResults ==
  driver.started = 1 /\ Current.run.state = "completed" =>
    \A i \in Intents : Current.nodes[i] # "none" =>
      \E k \in NodeAttempts(Current, i) :
        Current.run.attempts[k].state = "completed"

\* The live nodes of the Run stay within max_live_nodes as long as one
\* runtime works on it.
LiveNodesAreLimited ==
  driver.started = 1 =>
    Cardinality({i \in Intents : LiveNode(Current.nodes[i])}) <= MaxLiveNodes

\* Whatever becomes of the Slaves, of the nodes and of the locks it waits
\* for, a runtime comes to its end.
RuntimeEnds == driver.runtime # 0 ~> driver.runtime = 0

\* The reassignment of one node leaves the other nodes of the Run alone
\* (reassign_dynamic_node puts a copy in the place of the record).
ReassignmentIsLocal ==
  [][\A c \in calls \ calls' :
       c.op = "swap" =>
         \A j \in Intents \ {c.intent} :
           Current'.nodes[j] = Current.nodes[j]]_nodeVars
=============================================================================
