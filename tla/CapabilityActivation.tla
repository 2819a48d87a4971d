------------------------ MODULE CapabilityActivation ------------------------
(***************************************************************************)
(* The life cycle of capability packages on one Slave, end to end: the     *)
(* Observer assigns the desired state (capability.desire), the Driver      *)
(* takes the number to the Slave (provision_capability,                    *)
(* deprovision_capability, _dispatch_remote_execution), the Slave carries  *)
(* it out (SlaveRuntime), the Driver takes the answer back                 *)
(* (capability.health), and the Slave's health loop reports what changes   *)
(* later.                                                                  *)
(*                                                                         *)
(* Each operation of the Driver is served by the Slave's handler of the    *)
(* same name.  The Observer answers a Driver command it has already        *)
(* answered from its record of the request id, whatever the arguments: the *)
(* ids the Driver builds are part of the model.                            *)
(***************************************************************************)
EXTENDS SlaveRuntime, FiniteSets

CONSTANTS
  Requests,  \* the lifecycle requests of Runs and of users
  Spare      \* the requests that count in the bound on what is combined

VARIABLES
  shown,     \* the Observer's capability_activations
  desires,   \* the Observer's answers to capability.desire commands
  healths,   \* the request ids of the capability.health commands answered
  driver     \* the Driver's operations in progress

activationVars == <<slaveVars, shown, desires, healths, driver>>

observerVars == <<shown, desires, healths>>

\* key is the idempotency key; by_run tells the requests of a Run from those
\* of the promote and deactivate endpoints.
Request ==
  [kind : {"provision", "deprovision"}, ref : Refs, key : Keys,
   by_run : BOOLEAN]

ASSUME RequestsAreSound == Requests \subseteq Request /\ Spare \subseteq Requests

\* capability-desire:{target}:{desired}:{key}
DesireId(q) == <<DesiredBy(q.kind), q.key>>

\* health:{execution}:{target}:{digest} for a Run, health:{digest}:{slave} or
\* health:{digest}:{slave}:stopped for the endpoints.
HealthId(q) ==
  IF q.by_run THEN <<q.key, Digest[q.ref]>>
  ELSE <<DesiredBy(q.kind), Digest[q.ref]>>

\* An operation has sent a command, is called while the Slave works on it, and
\* has a report to make; it is lost when the Driver no longer waits.
NoOperation == [stage |-> "idle"]

-----------------------------------------------------------------------------

\* Mutant: the revision of a report is not compared.
AcceptsAnyRevision(r, revision, state) ==
  shown[r] # NoActivation /\ state \in AllowedTransitions(shown[r].state)

\* record_capability_health
Accepts(r, revision, state) == ReportAccepted(shown[r], revision, state)

\* The Driver has the desired state assigned.  A request id the Observer knows
\* is answered with the activation it was answered with the first time.
Desire(h, q) ==
  /\ driver[h] = NoOperation /\ calls[h] = Idle
  /\ LET known == {a \in desires : a.id = DesireId(q)}
         current == SetDesired(shown[q.ref], DesiredBy(q.kind), q.key)
         answer == IF known # {} THEN (CHOOSE a \in known : TRUE).activation
                   ELSE current
     IN  /\ known # {} \/ ~ DesireRefused(shown[q.ref], DesiredBy(q.kind), q.key)
         /\ shown' = IF known # {} THEN shown
                     ELSE [shown EXCEPT ![q.ref] = current]
         /\ desires' = IF known # {} THEN desires
              ELSE desires \cup {[id |-> DesireId(q), activation |-> current]}
         /\ driver' = [driver EXCEPT ![h] =
              [stage |-> "sent", request |-> q, revision |-> answer.revision,
               key |-> answer.key, state |-> "none"]]
  /\ UNCHANGED <<slaveVars, healths>>

\* The command reaches the Slave.
Deliver(h) ==
  /\ driver[h].stage = "sent"
  /\ LET q == driver[h].request
     IN  Accept(h, q.kind, q.ref, driver[h].revision, driver[h].key)
  /\ driver' = [driver EXCEPT ![h].stage = "called"]
  /\ UNCHANGED observerVars

\* The Slave's answer reaches the Driver; after an error the operation ends.
Return(h) ==
  /\ driver[h].stage \in {"called", "lost"}
  /\ calls[h].stage = "done"
  /\ driver' = [driver EXCEPT ![h] =
       IF driver[h].stage = "lost" \/ calls[h].answer = "error"
       THEN NoOperation
       ELSE [driver[h] EXCEPT !.stage = "report", !.state = calls[h].answer]]
  /\ Leave(h)
  /\ UNCHANGED observerVars

\* The Slave is down, or died with the request.
Unavailable(h) ==
  /\ \/ driver[h].stage = "sent" /\ ~ Serving
     \/ driver[h].stage \in {"called", "lost"} /\ calls[h] = Idle
  /\ driver' = [driver EXCEPT ![h] = NoOperation]
  /\ UNCHANGED <<slaveVars, observerVars>>

\* The Driver's operation ends early: worker_operation_timeout_seconds, or the
\* Driver process is gone.  What it has sent goes on.
GiveUp(h) ==
  /\ driver[h].stage \in {"sent", "called", "report"}
  /\ Fault("driver")
  /\ driver' = [driver EXCEPT ![h] =
       IF driver[h].stage = "called" THEN [driver[h] EXCEPT !.stage = "lost"]
       ELSE NoOperation]
  /\ UNCHANGED <<process, activations, books, replica, attempts, calls, plugin,
                 containers, observerVars>>

\* The Driver reports the Slave's answer.  A refused report is an error of the
\* operation and is not recorded.
Tell(h) ==
  /\ driver[h].stage = "report"
  /\ LET q == driver[h].request
         accepted == Accepts(q.ref, driver[h].revision, driver[h].state)
     IN  IF HealthId(q) \in healths \/ ~ accepted
         THEN UNCHANGED <<shown, healths>>
         ELSE /\ shown' = [shown EXCEPT ![q.ref].state = driver[h].state]
              /\ healths' = healths \cup {HealthId(q)}
  /\ driver' = [driver EXCEPT ![h] = NoOperation]
  /\ UNCHANGED <<slaveVars, desires>>

\* The Observer gets a report of the health loop.  A report id it has recorded
\* is accepted again without effect.
Receive(answered) ==
  /\ calls["health"].stage = "post"
  /\ LET r == calls["health"].ref
         report == calls["health"].report
         again == report.seen /\ report.revision = shown[r].revision
         accepted == again \/ Accepts(r, report.revision, report.state)
     IN  /\ shown' = IF accepted /\ ~ again
                     THEN [shown EXCEPT ![r].state = report.state] ELSE shown
         /\ IF answered
            THEN Posted(accepted)
            ELSE /\ Fault("lost")
                 /\ calls' = [calls EXCEPT !["health"] = Idle]
                 /\ pending' = IF pending[r] = NoReport THEN pending
                      ELSE [pending EXCEPT ![r].seen = @ \/ accepted]
                 /\ UNCHANGED <<process, activations, reported, replica,
                                attempts, plugin, containers>>
  /\ UNCHANGED <<desires, healths, driver>>

-----------------------------------------------------------------------------

ActivationInit ==
  /\ Init
  /\ shown = NoActivations
  /\ desires = {} /\ healths = {}
  /\ driver = [h \in Handlers |-> NoOperation]

ActivationStep ==
  \/ Internal /\ UNCHANGED <<observerVars, driver>>
  \/ \E h \in Handlers :
       \/ \E q \in Requests : Desire(h, q)
       \/ Deliver(h) \/ Return(h) \/ Unavailable(h) \/ GiveUp(h) \/ Tell(h)
  \/ \E answered \in BOOLEAN : Receive(answered)

\* The bound: a spare request that was made counts like a fault.
Spares ==
  Cardinality({a \in desires : a.id \in {DesireId(q) : q \in Spare}})

ActivationNext == ActivationStep /\ faults' + Spares' <= MaxLoad

ActivationSpec == ActivationInit /\ [][ActivationNext]_activationVars

\* The event loops, the plugin and the connections go on, and asyncio.Lock is
\* first come, first served: who waits for an activation's lock gets it.
\* Nothing is assumed of faults and of new requests.
Alone(action) == action /\ UNCHANGED <<observerVars, driver>>

Fairness ==
  /\ \A c \in Clients :
       WF_activationVars(Alone(\/ ReadRow(c) \/ CommitRow(c) \/ Ask(c)
                               \/ Replayed(c) \/ Answered(c)
                               \/ ConnectionLost(c)))
  /\ \A h \in Handlers :
       /\ WF_activationVars(Alone(Decide(h)))
       /\ SF_activationVars(Deliver(h))
       /\ WF_activationVars(Return(h) \/ Unavailable(h) \/ Tell(h))
  /\ \A r \in Refs : SF_activationVars(Alone(HealthInspect(r) \/ Resend(r)))
  /\ \A s \in Servants : WF_activationVars(Alone(ProviderStep(s)))
  /\ WF_activationVars(Alone(\E op \in strays : StrayStep(op)))
  /\ WF_activationVars(Alone(Boot \/ Reconciled))
  /\ WF_activationVars(Receive(TRUE))

FairActivationSpec == ActivationSpec /\ Fairness

-----------------------------------------------------------------------------
(***************************************************************************)
(* Properties.                                                             *)
(***************************************************************************)

\* The reports on their way: the answers of the Slave's handlers, what the
\* Driver is about to report, and what the health loop keeps or sends.
Reports ==
  {[ref |-> driver[h].request.ref, revision |-> driver[h].revision,
    state |-> driver[h].state] :
      h \in {i \in Handlers : driver[i].stage = "report"}}
  \cup
  {[ref |-> calls[h].ref, revision |-> driver[h].revision,
    state |-> calls[h].answer] :
      h \in {i \in Handlers : /\ calls[i] # Idle
                              /\ calls[i].answer \in ReportStates}}
  \cup
  {[ref |-> r, revision |-> pending[r].revision, state |-> pending[r].state] :
      r \in {s \in Refs : pending[s] # NoReport}}
  \cup
  (IF calls["health"].stage = "post"
   THEN {[ref |-> calls["health"].ref,
          revision |-> calls["health"].report.revision,
          state |-> calls["health"].report.state]}
   ELSE {})

\* The coordinates none of whose commands has the id of a command for another
\* coordinate.  The ids name the key and not the coordinate: the keys the Driver
\* makes up for users name digest and target only, and users may send any key.
Own ==
  {r \in Refs : \A q1, q2 \in Requests :
                  DesireId(q1) = DesireId(q2) /\ q1.ref = r => q2.ref = r}

Contract == INSTANCE ActivationContract
              WITH shown <- shown, actual <- activations, mail <- Reports

\* The Observer, the Driver and the Slave keep the contract: the number and
\* the state a coordinate has at the Observer come from capability.desire and
\* from a report the Slave made at that number, and the Slave is never ahead of
\* the Observer unless two coordinates share a command id.
KeepsContract == Contract!ContractSpec

\* The Slave has an activation failed and the Observer, at the same revision,
\* does not show it.
Unseen(r) ==
  /\ activations[r].desired = "running"
  /\ activations[r].state = "failed"
  /\ shown[r].revision = activations[r].revision
  /\ shown[r].state # "failed"
  /\ ~ Happened({"sick"})


=============================================================================
