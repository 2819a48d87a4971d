---------------------------- MODULE SlaveRuntime ----------------------------
(***************************************************************************)
(* A Slave with its database row, its runtime plugin process and the       *)
(* containers of the packages it serves (SlaveService, RuntimePluginClient *)
(* and DockerContainerHTTPRuntimeV1).                                      *)
(*                                                                         *)
(* A provision or deprovision request, the health loop and the start-up    *)
(* are clients of the plugin; each is a call with a stage.  A call holds   *)
(* the lock of its coordinate from the moment it is accepted.  The stages  *)
(* are the awaits of the code: _persist_activation reads the row and       *)
(* commits it later, and a request to the plugin is answered later, or     *)
(* times out while the plugin goes on with it.                             *)
(***************************************************************************)
EXTENDS ContainerProvider

CONSTANTS
  Handlers,     \* requests the Slave serves at the same time
  Package,      \* the coordinate each attempt runs on
  MaxWorks,     \* bound on the executions of an attempt
  MaxRevision,  \* bound on the revisions the Observer assigns
  FreeRevisions,\* the revisions that do not count in Load
  FaultKinds,   \* the kinds of fault that may happen, see Fault
  Weight,       \* what a fault of each kind counts in Load
  Main,         \* the coordinates that do not count in Load
  MaxLoad       \* bound on what a behaviour combines, see Load

ASSUME SlaveConstantsAreSound ==
  /\ Handlers \cap {"health", "startup", "replay"} = {}
  /\ Package \in [Attempts -> Refs] /\ Main \subseteq Refs
  /\ MaxRevision \in Nat /\ FreeRevisions \in Nat
  /\ MaxLoad \in Nat /\ MaxWorks \in Nat
  /\ Weight \in [FaultKinds -> Nat]

VARIABLES
  process,      \* the Slave process: down, starting or serving
  activations,  \* self.activations
  pending,      \* _pending_health_reports
  reported,     \* _last_reported_health
  replica,      \* SlaveReplicaRow.capability_activations
  attempts,     \* self.attempts, the SlaveAttemptRows and the work done
  calls,        \* the requests, the health loop and the start-up
  provider,     \* the plugin process and its _desired_activations
  ops,          \* the operation the plugin performs for each client
  strays,       \* operations whose client has timed out
  containers,   \* the container of each digest
  faults,       \* what the faults so far count
  happened      \* history: their kinds; "raced" for a row update that was
                \* lost, "overlap" for an attempt that ran twice at once,
                \* "dispatch", "other" and "again" for what Load counts

books == <<pending, reported>>

plugin == <<provider, ops, strays>>

slaveVars == <<process, activations, books, replica, attempts, calls, plugin,
               containers, faults, happened>>

Clients == Handlers \cup {"health", "startup"}

Servants == Clients \cup {"replay"}

\* A list with one record for each coordinate: their order, and what they say.
Row == [order : Seq(Refs), of : [Refs -> MaybeActivation]]

NoActivations == [r \in Refs |-> NoActivation]

EmptyRow == [order |-> <<>>, of |-> NoActivations]

Report == [revision : Nat, state : ReportStates, seen : BOOLEAN]

NoReport == [revision |-> 0, state |-> "none", seen |-> FALSE]

NotReported == <<0, "none">>

Idle == [stage |-> "idle"]

\* next is the stage after the commit; answer is what the client is told.
Call ==
  [kind : {"provision", "deprovision", "inspect", "invoke", "start"},
   ref : Refs, attempt : Attempts \cup {NoAttempt},
   stage : {"read", "commit", "decide", "lookup", "admit", "ask", "replay",
            "wait", "store", "insert", "done"},
   next : {"ask", "decide", "done"},
   retry : BOOLEAN, snapshot : Row,
   answer : ReportStates \cup {"none", "value", "error"}, value : Nat]

\* The health loop sends a report; it holds no lock meanwhile.
Posting(r, report) == [stage |-> "post", ref |-> r, report |-> report]

NoFault == UNCHANGED <<faults, happened>>

Busy(c) == calls[c].stage \notin {"idle", "post", "done"}

\* _activation_locks; a dispatch takes none.
LockFree(r) ==
  \A c \in Clients : Busy(c) /\ calls[c].kind # "invoke" => calls[c].ref # r

Serving == process = "serving"

-----------------------------------------------------------------------------
(***************************************************************************)
(* The row.                                                                *)
(***************************************************************************)

Without(order, r) == SelectSeq(order, LAMBDA s : s # r)

\* Mutant: a record that is in the list already is kept.
PersistedOnce(row, r, activation) ==
  IF row.of[r] # NoActivation THEN row
  ELSE [order |-> Append(row.order, r), of |-> [row.of EXCEPT ![r] = activation]]

\* The records of the other keys as they were read, then the own record.
Persisted(row, r, activation) ==
  [order |-> Append(Without(row.order, r), r),
   of |-> [row.of EXCEPT ![r] = activation]]

Saved(r) == replica.of[r]

Entries(row) ==
  [i \in DOMAIN row.order |->
     [ref |-> row.order[i], desired |-> row.of[row.order[i]].desired]]

\* The records of the other keys are not the same in the two rows.
OthersDiffer(row1, row2, r) ==
  \/ Without(row1.order, r) # Without(row2.order, r)
  \/ \E s \in Refs \ {r} : row1.of[s] # row2.of[s]

ReadRow(c) ==
  /\ calls[c].stage = "read"
  /\ calls' = [calls EXCEPT ![c].stage = "commit", ![c].snapshot = replica]
  /\ NoFault
  /\ UNCHANGED <<process, activations, books, replica, attempts, plugin,
                 containers>>

\* A commit over a row that another call has committed since it was read
\* undoes that commit.
CommitRow(c) ==
  /\ calls[c].stage = "commit"
  /\ LET r == calls[c].ref IN
     /\ replica' = Persisted(calls[c].snapshot, r, activations[r])
     /\ happened' = IF OthersDiffer(calls[c].snapshot, replica, r)
                    THEN happened \cup {"raced"} ELSE happened
     /\ calls' = [calls EXCEPT ![c] =
          IF c = "health" THEN Posting(r, pending[r])
          ELSE [calls[c] EXCEPT !.stage = calls[c].next, !.snapshot = EmptyRow]]
  /\ UNCHANGED <<process, activations, books, attempts, plugin, containers,
                 faults>>

-----------------------------------------------------------------------------
(***************************************************************************)
(* Faults, and the bound on what one behaviour combines: coordinates       *)
(* outside Main count twice, revisions after FreeRevisions and dispatches  *)
(* once and a fault by its kind.  A kind that counts nothing is free to    *)
(* happen before the others.                                               *)
(***************************************************************************)

Load ==
  faults + (IF "dispatch" \in happened THEN 1 ELSE 0)
         + (IF "other" \in happened THEN 2 ELSE 0)
         + (IF "again" \in happened THEN 1 ELSE 0)

InBounds == happened' = happened \/ Load' <= MaxLoad

Fault(kind) ==
  /\ kind \in FaultKinds
  /\ IF Weight[kind] = 0 THEN faults = 0 /\ NoFault
     ELSE /\ Load + Weight[kind] <= MaxLoad
          /\ faults' = faults + Weight[kind]
          /\ happened' = happened \cup {kind}

-----------------------------------------------------------------------------
(***************************************************************************)
(* provision and deprovision.                                              *)
(***************************************************************************)

DesiredBy(kind) == IF kind = "provision" THEN "running" ELSE "stopped"

NewCall(kind, r, stage, next, retry, answer) ==
  [kind |-> kind, ref |-> r, attempt |-> NoAttempt, stage |-> stage,
   next |-> next, retry |-> retry, snapshot |-> EmptyRow, answer |-> answer,
   value |-> 0]

\* The request gets the lock.  A refused command is answered with an error, a
\* retry of an established running state with ready; any other writes the
\* desired state and saves it before the runtime is touched.
Accept(h, kind, r, revision, key) ==
  /\ Serving /\ calls[h] = Idle /\ LockFree(r)
  /\ LET existing == activations[r]
         desired == DesiredBy(kind)
         verdict == LifecycleVerdict(existing, desired, revision, key)
         ready == /\ verdict = "retry" /\ kind = "provision"
                  /\ existing.state = "ready"
     IN
     /\ calls' = [calls EXCEPT ![h] =
          IF verdict = "refused"
          THEN NewCall(kind, r, "done", "done", FALSE, "error")
          ELSE IF ready THEN NewCall(kind, r, "done", "done", TRUE, "ready")
          ELSE NewCall(kind, r, "read",
                       IF kind = "provision" THEN "ask" ELSE "decide",
                       verdict = "retry", "none")]
     /\ activations' = IF verdict = "refused" \/ ready THEN activations
          ELSE [activations EXCEPT
                  ![r] = Commanded(existing, desired, revision, key)]
     /\ pending' = IF verdict = "new" THEN [pending EXCEPT ![r] = NoReport]
                   ELSE pending
     /\ reported' = IF ready
                    THEN [reported EXCEPT ![r] = <<revision, "ready">>]
                    ELSE reported
  /\ happened' = happened \cup (IF r \in Main THEN {} ELSE {"other"})
                          \cup (IF revision <= FreeRevisions THEN {}
                                ELSE {"again"})
  /\ UNCHANGED <<process, replica, attempts, plugin, containers, faults>>

\* Mutant: also a coordinate that is being stopped keeps the container.
SharedReadyByState(r) ==
  \E s \in Refs \ {r} :
    /\ Digest[s] = Digest[r]
    /\ activations[s].state \in {"ready", "degraded", "provisioning"}

\* shared_ready
SharedReady(r) ==
  \E s \in Refs \ {r} :
    /\ Digest[s] = Digest[r]
    /\ activations[s].desired = "running"
    /\ activations[s].state \in {"ready", "degraded", "provisioning"}

\* Mutant: the new state is not saved.
SettleUnsaved(c, state) ==
  LET r == calls[c].ref IN
  /\ activations' = [activations EXCEPT ![r].state = state]
  /\ reported' = [reported EXCEPT ![r] = <<activations[r].revision, state>>]
  /\ calls' = [calls EXCEPT ![c].stage = "done", ![c].answer = state]

\* The lifecycle call of c ends in state: it is saved, and the answer counts as
\* reported.
Settle(c, state) ==
  LET r == calls[c].ref IN
  /\ activations' = [activations EXCEPT ![r].state = state]
  /\ reported' = [reported EXCEPT ![r] = <<activations[r].revision, state>>]
  /\ calls' = [calls EXCEPT ![c].stage = "read", ![c].next = "done",
                            ![c].answer = state]


\* A provision that raised is saved as failed; nothing was reported.
Fail(c) ==
  /\ activations' = [activations EXCEPT ![calls[c].ref].state = "failed"]
  /\ calls' = [calls EXCEPT ![c].stage = "read", ![c].next = "done",
                            ![c].answer = "error"]
  /\ UNCHANGED reported

\* After the desired state is saved, deprovision finds the runtime already
\* stopped, keeps the container another coordinate uses, or asks the plugin.
Decide(h) ==
  /\ calls[h].stage = "decide"
  /\ LET r == calls[h].ref IN
     \/ /\ calls[h].retry /\ activations[r].state = "stopped"
        /\ calls' = [calls EXCEPT ![h].stage = "done",
                                  ![h].answer = "stopped"]
        /\ reported' =
             [reported EXCEPT ![r] = <<activations[r].revision, "stopped">>]
        /\ UNCHANGED activations
     \/ /\ ~ (calls[h].retry /\ activations[r].state = "stopped")
        /\ SharedReady(r)
        /\ Settle(h, "stopped")
     \/ /\ ~ (calls[h].retry /\ activations[r].state = "stopped")
        /\ ~ SharedReady(r)
        /\ calls' = [calls EXCEPT ![h].stage = "ask"]
        /\ UNCHANGED <<activations, reported>>
  /\ NoFault
  /\ UNCHANGED <<process, pending, replica, attempts, plugin, containers>>

-----------------------------------------------------------------------------
(***************************************************************************)
(* The health loop.                                                        *)
(***************************************************************************)

\* An inspection found state.  What was reported last for this revision is
\* passed over; anything else is stored, saved and kept as a report to send.
Inspected(r, state) ==
  LET activation == activations[r] IN
  IF reported[r] = <<activation.revision, state>>
  THEN /\ calls' = [calls EXCEPT !["health"] = Idle]
       /\ UNCHANGED <<activations, pending>>
  ELSE LET report == [revision |-> activation.revision, state |-> state,
                      seen |-> FALSE]
       IN  /\ activations' = [activations EXCEPT ![r].state = state]
           /\ pending' = [pending EXCEPT ![r] = report]
           /\ calls' = [calls EXCEPT !["health"] =
                IF state = activation.state THEN Posting(r, report)
                ELSE NewCall("inspect", r, "read", "done", FALSE, "none")]

HealthInspect(r) ==
  /\ Serving /\ calls["health"] = Idle /\ LockFree(r)
  /\ activations[r].desired = "running"
  /\ pending[r] = NoReport
  /\ \/ /\ activations[r].state = "failed"
        /\ Inspected(r, "failed")
     \/ /\ activations[r].state # "failed"
        /\ calls' = [calls EXCEPT !["health"] =
                       NewCall("inspect", r, "ask", "done", FALSE, "none")]
        /\ UNCHANGED <<activations, pending>>
  /\ NoFault
  /\ UNCHANGED <<process, reported, replica, attempts, plugin, containers>>

\* A report that has not been acknowledged is sent again, unless it is of an
\* older revision or of an activation that should stop.
Resend(r) ==
  /\ Serving /\ calls["health"] = Idle /\ LockFree(r)
  /\ pending[r] # NoReport
  /\ IF /\ activations[r].desired = "running"
        /\ activations[r].revision = pending[r].revision
     THEN /\ calls' = [calls EXCEPT !["health"] = Posting(r, pending[r])]
          /\ UNCHANGED pending
     ELSE /\ pending' = [pending EXCEPT ![r] = NoReport]
          /\ UNCHANGED calls
  /\ NoFault
  /\ UNCHANGED <<process, activations, reported, replica, attempts, plugin,
                 containers>>

\* The Observer's answer: acknowledge_health_report, if the report is still
\* the pending one; a refusal or no answer leaves it pending.
Posted(acknowledged) ==
  /\ calls["health"].stage = "post"
  /\ LET r == calls["health"].ref
         report == pending[r]
     IN  IF acknowledged /\ report # NoReport
         THEN /\ reported' =
                   [reported EXCEPT ![r] = <<report.revision, report.state>>]
              /\ pending' = [pending EXCEPT ![r] = NoReport]
         ELSE UNCHANGED <<reported, pending>>
  /\ calls' = [calls EXCEPT !["health"] = Idle]
  /\ NoFault
  /\ UNCHANGED <<process, activations, replica, attempts, plugin, containers>>

-----------------------------------------------------------------------------
(***************************************************************************)
(* run: a dispatched attempt.  The n-th execution of an attempt returns n; *)
(* memory and row are the execution whose result is kept, 0 for none.      *)
(***************************************************************************)

Attempt == [memory : Nat, row : Nat, works : Nat]

Executing(c) ==
  calls[c].stage \in {"admit", "ask", "replay", "wait", "store", "insert"}

Done(call, answer, value) ==
  [call EXCEPT !.stage = "done", !.answer = answer, !.value = value]

\* The package is in the cache when it has an activation.  A result in memory
\* is the answer.
Dispatch(h, a) ==
  /\ Serving /\ calls[h] = Idle
  /\ LET call == [NewCall("invoke", Package[a], "lookup", "done", FALSE, "none")
                   EXCEPT !.attempt = a]
     IN  calls' = [calls EXCEPT ![h] =
           IF activations[Package[a]] = NoActivation THEN Done(call, "error", 0)
           ELSE IF attempts[a].memory # 0
                THEN Done(call, "value", attempts[a].memory)
           ELSE call]
  /\ happened' = happened \cup {"dispatch"}
  /\ UNCHANGED <<process, activations, books, replica, attempts, plugin,
                 containers, faults>>

\* Mutants: the table is not read; what it has is not remembered.
RowIgnored(a) == attempts[a].memory

RememberedNot(a, row) == attempts

\* SlaveAttemptRow
Kept(a) == attempts[a].row

Remembered(a, row) == [attempts EXCEPT ![a].memory = row]

\* A result in the table is the answer and is remembered.
Lookup(h) ==
  /\ calls[h].stage = "lookup"
  /\ LET a == calls[h].attempt
         row == Kept(a)
     IN  \/ /\ row # 0
           /\ calls' = [calls EXCEPT ![h] = Done(calls[h], "value", row)]
           /\ attempts' = Remembered(a, row)
           /\ UNCHANGED happened
        \/ /\ row = 0
           /\ calls' = [calls EXCEPT ![h].stage = "admit"]
           /\ happened' =
                IF \E c \in Handlers : Executing(c) /\ calls[c].attempt = a
                THEN happened \cup {"overlap"} ELSE happened
           /\ UNCHANGED attempts
  /\ UNCHANGED <<process, activations, books, replica, plugin, containers,
                 faults>>

\* The payload is complete; the activation must be ready by now.
Admit(h) ==
  /\ calls[h].stage = "admit"
  /\ calls' = [calls EXCEPT ![h] =
       IF activations[calls[h].ref].state = "ready"
       THEN [calls[h] EXCEPT !.stage = "ask"]
       ELSE Done(calls[h], "error", 0)]
  /\ NoFault
  /\ UNCHANGED <<process, activations, books, replica, attempts, plugin,
                 containers>>

\* The result is in the content store, and in memory.
Store(h) ==
  /\ calls[h].stage = "store"
  /\ attempts' = Remembered(calls[h].attempt, calls[h].value)
  /\ calls' = [calls EXCEPT ![h].stage = "insert"]
  /\ NoFault
  /\ UNCHANGED <<process, activations, books, replica, plugin, containers>>

ContentFails(h) ==
  /\ Fault("content")
  /\ calls' = [calls EXCEPT ![h] = Done(calls[h], "error", 0)]
  /\ UNCHANGED <<process, activations, books, replica, attempts, plugin,
                 containers>>

\* The input cannot be loaded, or does not fit its schema.
AdmitFails(h) == calls[h].stage = "admit" /\ ContentFails(h)

\* The contract or the validator cannot be loaded, or the result not stored.  A
\* result that fails its validation is kept like any other.
StoreFails(h) == calls[h].stage = "store" /\ ContentFails(h)

\* The primary key is the attempt: a second insert fails.
Insert(h) ==
  /\ calls[h].stage = "insert"
  /\ LET a == calls[h].attempt IN
     IF attempts[a].row = 0
     THEN /\ attempts' = [attempts EXCEPT ![a].row = calls[h].value]
          /\ calls' = [calls EXCEPT ![h] =
               Done(calls[h], "value", calls[h].value)]
     ELSE /\ calls' = [calls EXCEPT ![h] = Done(calls[h], "error", 0)]
          /\ UNCHANGED attempts
  /\ NoFault
  /\ UNCHANGED <<process, activations, books, replica, plugin, containers>>

-----------------------------------------------------------------------------
(***************************************************************************)
(* Requests to the plugin.                                                 *)
(***************************************************************************)

NoOps == [s \in Servants |-> NoOp]

Wanted(c) == NewOp(calls[c].kind, calls[c].ref, calls[c].attempt)

\* The clients of a plugin that died have their error by the time the next one
\* is up: a restart begins with a delay.  _restart_lock: one at a time.
RestartFree ==
  \A c \in Clients : /\ calls[c].stage # "replay"
                     /\ calls[c].stage = "wait" => ops[c] # NoOp

\* _request.  A plugin that is not there is started first; it is given the
\* list of the last reconcile before the request that found it missing.
Ask(c) ==
  /\ calls[c].stage = "ask"
  /\ provider.up \/ RestartFree
  /\ \/ /\ provider.up \/ provider.desired = <<>>
        /\ ops' = [ops EXCEPT ![c] = Wanted(c)]
        /\ calls' = [calls EXCEPT ![c].stage = "wait"]
     \/ /\ ~ provider.up /\ provider.desired # <<>>
        /\ ops' = [ops EXCEPT !["replay"] = NewReconcile(provider.desired)]
        /\ calls' = [calls EXCEPT ![c].stage = "replay"]
  /\ provider' = [provider EXCEPT !.up = TRUE]
  /\ NoFault
  /\ UNCHANGED <<process, activations, books, replica, attempts, strays,
                 containers>>

Replayed(c) ==
  /\ calls[c].stage = "replay"
  /\ ops["replay"].stage = "answered"
  /\ ops' = [ops EXCEPT !["replay"] = NoOp, ![c] = Wanted(c)]
  /\ calls' = [calls EXCEPT ![c].stage = "wait"]
  /\ NoFault
  /\ UNCHANGED <<process, activations, books, replica, attempts, provider,
                 strays, containers>>

\* What the client does with the answer of the plugin.  A deprovision that
\* raised keeps the state it had.
Handle(c, result, value) ==
  LET r == calls[c].ref IN
  \/ /\ calls[c].kind = "provision" /\ result # "error"
     /\ Settle(c, result)
     /\ UNCHANGED pending
  \/ /\ calls[c].kind = "provision" /\ result = "error"
     /\ Fail(c)
     /\ UNCHANGED pending
  \/ /\ calls[c].kind = "deprovision" /\ result # "error"
     /\ Settle(c, "stopped")
     /\ UNCHANGED pending
  \/ /\ calls[c].kind = "deprovision" /\ result = "error"
     /\ calls' = [calls EXCEPT ![c].stage = "read", ![c].next = "done",
                               ![c].answer = "error"]
     /\ UNCHANGED <<activations, pending, reported>>
  \/ /\ calls[c].kind = "inspect"
     /\ Inspected(r, IF result = "error" THEN "failed" ELSE result)
     /\ UNCHANGED reported
  \/ /\ calls[c].kind = "invoke"
     /\ calls' = [calls EXCEPT ![c] =
          IF result = "error" THEN Done(calls[c], "error", 0)
          ELSE [calls[c] EXCEPT !.stage = "store", !.value = value]]
     /\ UNCHANGED <<activations, pending, reported>>

Answered(c) ==
  /\ calls[c].stage = "wait" /\ c # "startup"
  /\ ops[c].stage = "answered"
  /\ Handle(c, ops[c].answer, ops[c].value)
  /\ ops' = [ops EXCEPT ![c] = NoOp]
  /\ NoFault
  /\ UNCHANGED <<process, replica, attempts, provider, strays, containers>>

\* The plugin is gone: the request that waits for it, or for the replay, fails.
ConnectionLost(c) ==
  /\ c # "startup"
  /\ \/ calls[c].stage = "wait" /\ ops[c] = NoOp
     \/ calls[c].stage = "replay" /\ ops["replay"] = NoOp
  /\ Handle(c, "error", 0)
  /\ NoFault
  /\ UNCHANGED <<process, replica, attempts, plugin, containers>>

\* Of an inspection, and of a provision that only waits for the service to
\* answer, nothing comes once nobody waits for them.
LeftBehind(op) ==
  IF \/ ~ Live(op) \/ op.kind = "inspect"
     \/ op.kind = "provision" /\ op.stage = "await"
  THEN {} ELSE {op}

\* runtime_plugin_timeout: the client goes on, and so does the operation.
TimesOut(c) ==
  /\ calls[c].stage = "wait" /\ c # "startup" /\ Live(ops[c])
  /\ Fault("timeout")
  /\ Handle(c, "error", 0)
  /\ strays' = strays \cup LeftBehind(ops[c])
  /\ ops' = [ops EXCEPT ![c] = NoOp]
  /\ UNCHANGED <<process, replica, attempts, provider, containers>>

\* A replay that times out closes the plugin with all it was doing.
ReplayTimesOut(c) ==
  /\ calls[c].stage = "replay" /\ Live(ops["replay"])
  /\ Fault("timeout")
  /\ Handle(c, "error", 0)
  /\ ops' = NoOps /\ strays' = {}
  /\ provider' = [provider EXCEPT !.up = FALSE]
  /\ UNCHANGED <<process, replica, attempts, containers>>

-----------------------------------------------------------------------------
(***************************************************************************)
(* The plugin at work.                                                     *)
(***************************************************************************)

\* An invoke that reaches the service is the next execution of its attempt.
Worked(op, container) ==
  IF Works(op, container)
  THEN [attempts EXCEPT ![op.attempt].works = @ + 1]
  ELSE attempts

Stepped(op, container) ==
  LET step == OpStep(op, container) IN
  IF Works(op, container)
  THEN [step EXCEPT !.op.value = attempts[op.attempt].works + 1]
  ELSE step

Bounded(op, container) ==
  Works(op, container) => attempts[op.attempt].works < MaxWorks

ProviderStep(s) ==
  /\ Live(ops[s])
  /\ LET d == Digest[ops[s].ref]
         step == Stepped(ops[s], containers[d])
     IN  /\ Bounded(ops[s], containers[d])
         /\ ops' = [ops EXCEPT ![s] = step.op]
         /\ containers' = [containers EXCEPT ![d] = step.container]
         /\ attempts' = Worked(ops[s], containers[d])
  /\ NoFault
  /\ UNCHANGED <<process, activations, books, replica, calls, provider, strays>>

\* Nobody reads the answer of a stray.
StrayStep(op) ==
  /\ op \in strays
  /\ LET d == Digest[op.ref]
         step == Stepped(op, containers[d])
     IN  /\ Bounded(op, containers[d])
         /\ strays' = (strays \ {op}) \cup LeftBehind(step.op)
         /\ containers' = [containers EXCEPT ![d] = step.container]
         /\ attempts' = Worked(op, containers[d])
  /\ NoFault
  /\ UNCHANGED <<process, activations, books, replica, calls, provider, ops>>

DockerFails(s) ==
  /\ Live(ops[s]) /\ DockerCommand(ops[s])
  /\ Fault("docker")
  /\ LET d == Digest[ops[s].ref] IN
     \E step \in OpFailures(ops[s], containers[d]) :
       /\ ops' = [ops EXCEPT ![s] = step.op]
       /\ containers' = [containers EXCEPT ![d] = step.container]
  /\ UNCHANGED <<process, activations, books, replica, attempts, calls,
                 provider, strays>>

\* The service in a container stops answering, or answers again.
ContainerChanges(d) ==
  /\ Fault("sick")
  /\ \/ /\ containers[d] = "running"
        /\ containers' = [containers EXCEPT ![d] = "sick"]
     \/ /\ containers[d] = "sick"
        /\ containers' = [containers EXCEPT ![d] = "running"]
  /\ UNCHANGED <<process, activations, books, replica, attempts, calls,
                 plugin>>

ProviderCrash ==
  /\ process # "down" /\ provider.up
  /\ Fault("provider")
  /\ provider' = [provider EXCEPT !.up = FALSE]
  /\ ops' = NoOps /\ strays' = {}
  /\ UNCHANGED <<process, activations, books, replica, attempts, calls,
                 containers>>

-----------------------------------------------------------------------------
(***************************************************************************)
(* Crash and start-up.                                                     *)
(***************************************************************************)

Crash ==
  /\ process # "down"
  /\ Fault("crash")
  /\ process' = "down"
  /\ activations' = NoActivations
  /\ pending' = [r \in Refs |-> NoReport]
  /\ reported' = [r \in Refs |-> NotReported]
  /\ calls' = [c \in Clients |-> Idle]
  /\ ops' = NoOps /\ strays' = {}
  /\ provider' = [up |-> FALSE, desired |-> <<>>]
  /\ attempts' = [a \in Attempts |-> [attempts[a] EXCEPT !.memory = 0]]
  /\ UNCHANGED <<replica, containers>>

\* init_db: the activations are loaded, the plugin is started and told what is
\* desired.  Requests and the health loop come after its answer.
Boot ==
  /\ process = "down"
  /\ activations' = replica.of
  /\ provider' = [up |-> TRUE, desired |-> Entries(replica)]
  /\ IF replica.order = <<>>
     THEN process' = "serving" /\ UNCHANGED <<calls, ops>>
     ELSE /\ process' = "starting"
          /\ ops' = [ops EXCEPT !["startup"] = NewReconcile(Entries(replica))]
          /\ calls' = [calls EXCEPT !["startup"] =
               NewCall("start", Head(replica.order), "wait", "done", FALSE,
                       "none")]
  /\ NoFault
  /\ UNCHANGED <<books, replica, attempts, strays, containers>>

\* Each activation takes the state the plugin found, and is saved.
Reconciled ==
  /\ calls["startup"].stage = "wait"
  /\ ops["startup"].stage = "answered"
  /\ LET found == ops["startup"].found
         updated == [r \in Refs |->
           IF found[r] = "none" \/ activations[r] = NoActivation
           THEN activations[r]
           ELSE [activations[r] EXCEPT !.state = found[r]]]
     IN  /\ activations' = updated
         /\ replica' = [replica EXCEPT !.of = updated]
  /\ ops' = [ops EXCEPT !["startup"] = NoOp]
  /\ calls' = [calls EXCEPT !["startup"] = Idle]
  /\ process' = "serving"
  /\ NoFault
  /\ UNCHANGED <<books, attempts, provider, strays, containers>>

\* The plugin could not be asked: what should run is lost, and is saved
\* behind the records that are not touched.
NotReconciled ==
  /\ calls["startup"].stage = "wait"
  /\ \/ ops["startup"] = NoOp /\ NoFault /\ UNCHANGED strays
     \/ /\ Live(ops["startup"])
        /\ Fault("timeout")
        /\ strays' = strays \cup LeftBehind(ops["startup"])
  /\ LET lost == [r \in Refs |->
           IF activations[r].desired = "running"
           THEN [activations[r] EXCEPT !.state = "lost"]
           ELSE activations[r]]
         Runs(r) == activations[r].desired = "running"
         Stops(r) == ~ Runs(r)
     IN  /\ activations' = lost
         /\ replica' = [order |-> SelectSeq(replica.order, Stops)
                                    \o SelectSeq(replica.order, Runs),
                        of |-> lost]
  /\ ops' = [ops EXCEPT !["startup"] = NoOp]
  /\ calls' = [calls EXCEPT !["startup"] = Idle]
  /\ process' = "serving"
  /\ UNCHANGED <<books, attempts, provider, containers>>

-----------------------------------------------------------------------------
(***************************************************************************)
(* The Slave among its clients.  The Observer numbers the desired states   *)
(* from 1 and the state alternates, so the number of a command says which  *)
(* state it asks for.  Commands may arrive late, again and out of order; a *)
(* refused one changes nothing and is no step here.                        *)
(***************************************************************************)

Init ==
  /\ process = "serving"
  /\ activations = NoActivations
  /\ replica = EmptyRow
  /\ pending = [r \in Refs |-> NoReport]
  /\ reported = [r \in Refs |-> NotReported]
  /\ attempts = [a \in Attempts |-> [memory |-> 0, row |-> 0, works |-> 0]]
  /\ calls = [c \in Clients |-> Idle]
  /\ ops = NoOps /\ strays = {}
  /\ provider = [up |-> TRUE, desired |-> <<>>]
  /\ containers = [d \in Digests |-> "absent"]
  /\ faults = 0 /\ happened = {}

\* The answer has been given.
Leave(h) ==
  /\ calls[h].stage = "done"
  /\ calls' = [calls EXCEPT ![h] = Idle]
  /\ NoFault
  /\ UNCHANGED <<process, activations, books, replica, attempts, plugin,
                 containers>>

Internal ==
  \/ \E c \in Clients :
       ReadRow(c) \/ CommitRow(c) \/ Ask(c) \/ Replayed(c) \/ Answered(c)
         \/ ConnectionLost(c) \/ TimesOut(c) \/ ReplayTimesOut(c)
  \/ \E h \in Handlers :
       Decide(h) \/ Lookup(h) \/ Admit(h) \/ Store(h) \/ Insert(h)
         \/ AdmitFails(h) \/ StoreFails(h)
  \/ \E r \in Refs : HealthInspect(r) \/ Resend(r)
  \/ \E s \in Servants : ProviderStep(s) \/ DockerFails(s)
  \/ \E op \in strays : StrayStep(op)
  \/ \E d \in Digests : ContainerChanges(d)
  \/ ProviderCrash \/ Crash \/ Boot \/ Reconciled \/ NotReconciled

Next ==
  \/ Internal
  \/ \E h \in Handlers, r \in Refs, n \in 1 .. MaxRevision, k \in Keys :
       /\ LET kind == IF n % 2 = 1 THEN "provision" ELSE "deprovision" IN
          /\ Accept(h, kind, r, n, k) /\ InBounds
          /\ LifecycleVerdict(activations[r], DesiredBy(kind), n, k) # "refused"
  \/ \E h \in Handlers, a \in Attempts :
       /\ "overlap" \notin happened
       /\ Dispatch(h, a) /\ InBounds
  \/ \E h \in Handlers : Leave(h)
  \/ \E acknowledged \in BOOLEAN : Posted(acknowledged)

Spec == Init /\ [][Next]_slaveVars

-----------------------------------------------------------------------------
(***************************************************************************)
(* Properties.                                                             *)
(***************************************************************************)

\* The program's state has the shape the code gives it: one record for each
\* coordinate, at most one call for each client, at most one operation of the
\* plugin for each client.
SlaveTypeOK ==
  /\ process \in {"down", "starting", "serving"}
  /\ activations \in [Refs -> MaybeActivation]
  /\ pending \in [Refs -> Report \cup {NoReport}]
  /\ replica \in Row
  /\ attempts \in [Attempts -> Attempt]
  /\ \A c \in Clients :
       \/ calls[c] = Idle
       \/ calls[c].stage = "post" /\ calls[c].report \in Report
       \/ calls[c] \in Call
  /\ \A op \in {ops[s] : s \in Servants} \cup strays :
       op = NoOp \/ [op EXCEPT !.list = <<>>] \in Op
  /\ containers \in [Digests -> ContainerStates]

Happened(kinds) == happened \cap kinds # {}

\* provision and deprovision write the desired state before they touch the
\* runtime: while the plugin works for a lifecycle call, the row holds the
\* desired state, revision and key of that call, so that a restart recovers it.
\* Excepted is a row update lost to a concurrent save of another coordinate.
DesiredIsSavedFirst ==
  \A h \in Handlers :
    /\ calls[h] # Idle
    /\ calls[h].kind \in {"provision", "deprovision"}
    /\ calls[h].stage \in {"ask", "replay", "wait"}
    /\ ~ Happened({"raced"})
    => LET saved == Saved(calls[h].ref)
           current == activations[calls[h].ref]
       IN  /\ saved.desired = DesiredBy(calls[h].kind)
           /\ saved.revision = current.revision
           /\ saved.key = current.key

\* Between its calls the Slave's row says what its memory says, the state
\* included: every branch of provision, deprovision, the health inspection and
\* the start-up saves what it has changed, with the same exception.
RowIsCurrent ==
  Serving /\ ~ Happened({"raced"}) =>
    \A r \in Refs :
      \/ Saved(r) = activations[r]
      \/ \E c \in Clients : Busy(c) /\ calls[c].ref = r
                              /\ calls[c].stage \in {"read", "commit"}

\* A health report waiting to be acknowledged is of the current revision of
\* an activation that should run: a new command drops the older report.
PendingIsCurrent ==
  \A r \in Refs :
    pending[r] # NoReport =>
      /\ activations[r].desired = "running"
      /\ activations[r].revision = pending[r].revision

\* Nobody works on the digest.
Quiet(d) ==
  /\ Serving /\ strays = {}
  /\ \A c \in Clients : Busy(c) => Digest[calls[c].ref] # d

Coordinates(d) ==
  {r \in Refs : Digest[r] = d
                 /\ (activations[r] # NoActivation \/ Saved(r) # NoActivation)}

\* When every coordinate of a digest is stopped, its container is gone, also
\* when deprovision of one kept it for another that was stopped later, and
\* across restarts.  Excepted are requests to the plugin that timed out or
\* broke off, docker errors and lost row updates.
StoppedIsGone ==
  \A d \in Digests :
    /\ Quiet(d)
    /\ ~ Happened({"timeout", "provider", "docker", "raced"})
    /\ \A r \in Coordinates(d) : activations[r].state = "stopped"
    => containers[d] = "absent"

\* A ready activation whose digest no other coordinate shares has its
\* container running, across restarts of the Slave.
ReadyRuns ==
  \A r \in Refs :
    /\ Quiet(Digest[r])
    /\ ~ Happened({"timeout", "provider", "docker", "sick"})
    /\ Coordinates(Digest[r]) = {r}
    /\ activations[r].state = "ready"
    => containers[Digest[r]] = "running"

\* The results a Slave gives for an attempt are one: what it remembers and
\* what it answers is what the table has or is about to have, also after a
\* restart, a lost plugin or a result that came too late.  Excepted is an
\* attempt dispatched again while it runs.
AttemptsAgree ==
  ~ Happened({"overlap"}) =>
    /\ \A a \in Attempts :
         attempts[a].memory # attempts[a].row =>
           \/ attempts[a].memory = 0
           \/ \E h \in Handlers : /\ calls[h].stage = "insert"
                                   /\ calls[h].attempt = a
    /\ \A h \in Handlers :
         /\ calls[h].stage = "done" /\ calls[h].kind = "invoke"
         /\ calls[h].answer = "value"
         => LET kept == attempts[calls[h].attempt] IN
            kept.memory = calls[h].value /\ kept.row \in {0, calls[h].value}

\* An attempt whose result is kept is not executed again, with the same
\* exception: whoever is about to ask the plugin found neither memory nor row.
KeptIsNotRerun ==
  ~ Happened({"overlap"}) =>
    \A h \in Handlers :
      calls[h].stage \in {"admit", "ask", "replay", "wait", "store"}
        /\ calls[h].kind = "invoke"
      => /\ attempts[calls[h].attempt].memory = 0
         /\ attempts[calls[h].attempt].row = 0

=============================================================================
