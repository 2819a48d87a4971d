--------------------- MODULE CapabilityActivationProofs ---------------------
(***************************************************************************)
(* Observer, Driver and Slave together implement their contract, for every *)
(* set of coordinates, keys and handlers and whatever crashes, times out   *)
(* or gets lost: the proof that KeepsContract holds, and what follows from *)
(* the contract for the composed system.                                   *)
(*                                                                         *)
(* Each action keeps ContractInv.  It either keeps the Observer's records  *)
(* and the reports it adds are what the Slave has now (MailKept): a Move   *)
(* of the contract; or it is capability.desire, an Assign, or takes a      *)
(* report, a Project.  The steps of the Slave alone are dealt with in      *)
(* SlaveRuntimeProofs.                                                     *)
(***************************************************************************)
EXTENDS SlaveRuntimeProofs

-----------------------------------------------------------------------------
(* The steps of the Driver and of the Observer *)

\* The Observer's table changes by a new number, or in a state.
ShownGoesOn ==
  /\ shown' = [r \in Refs |-> shown'[r]]
  /\ \A r \in Refs :
       /\ shown'[r] \in MaybeActivation
       /\ \/ /\ shown'[r].revision = shown[r].revision
             /\ shown'[r].desired = shown[r].desired
          \/ shown'[r].revision = shown[r].revision + 1

\* What lagged behind the Observer still does.
LEMMA StillTrails ==
  ASSUME ContractInv, ShownGoesOn, NEW r \in Refs, NEW a, Trails(r, a, shown[r])
  PROVE  Trails(r, a, shown'[r])
<1>1. shown[r] \in MaybeActivation /\ shown'[r] \in MaybeActivation
      BY Zenon DEF ContractInv, TablesTrail, ShownGoesOn
<1>2. \/ shown'[r].revision = shown[r].revision /\ shown'[r].desired = shown[r].desired
      \/ shown'[r].revision = shown[r].revision + 1
      BY Zenon DEF ShownGoesOn
<1> QED BY Zenon, <1>1, <1>2, TrailsOn

\* An operation of the Driver still carries a number the Observer assigned.
LEMMA StillCarries ==
  ASSUME ContractInv, ShownGoesOn, NEW d, d.request \in Requests,
         d.revision \in Nat, Carries(d, shown[d.request.ref])
  PROVE  Carries(d, shown'[d.request.ref])
<1>1. d.request.ref \in Refs
      BY Zenon, RequestsAreSound DEF Request
<1> DEFINE s == shown[d.request.ref]
           t == shown'[d.request.ref]
<1>2. s \in MaybeActivation /\ t \in MaybeActivation
      BY Zenon, <1>1 DEF ContractInv, TablesTrail, ShownGoesOn
<1>3. \/ t.revision = s.revision /\ t.desired = s.desired
      \/ t.revision = s.revision + 1
      BY Zenon, <1>1 DEF ShownGoesOn
<1>4. s.revision \in Nat /\ Carries(d, s)
      BY SMTT(20), <1>2 DEF MaybeActivation, Activation, NoActivation
<1> HIDE DEF s, t
<1>5. Carries(d, t)
      BY SMTT(20), <1>3, <1>4 DEF Carries
<1> QED BY Zenon, <1>5 DEF t

\* The answers the Observer has given are still at most the current ones.
LEMMA AnswersStillTrail ==
  ASSUME ContractInv, ShownGoesOn, UNCHANGED desires
  PROVE  AnswersTrail'
<1> SUFFICES ASSUME NEW a \in desires, NEW q \in Requests, a.id = DesireId(q)
             PROVE  /\ a.activation \in Activation
                    /\ a.activation.desired = DesiredBy(q.kind)
                    /\ Trails(q.ref, a.activation, shown'[q.ref])
    BY Zenon DEF AnswersTrail
<1>1. q.ref \in Refs
      BY Zenon, RequestsAreSound DEF Request
<1>2. /\ a.activation \in Activation
      /\ a.activation.desired = DesiredBy(q.kind)
      /\ Trails(q.ref, a.activation, shown[q.ref])
      BY Zenon DEF ContractInv, AnswersTrail
<1> QED BY Zenon, <1>1, <1>2, StillTrails

\* The Driver and the Slave's client c take a step together.
LEMMA OneMoves ==
  ASSUME ContractInv, SlaveInv', HealthReports', PluginAnswers', AnswersTrail',
         ShownGoesOn, UNCHANGED replica, NEW c \in Workers,
         \A k \in Clients \ {c} : calls'[k] = calls[k],
         calls'[c].stage = "commit" =>
           \A r \in Refs : Trails(r, calls'[c].snapshot.of[r], shown[r]),
         DOMAIN driver' = Handlers,
         \A g \in Handlers \ {c} : driver'[g] = driver[g],
         c \in Handlers =>
           /\ \/ driver'[c] = NoOperation
              \/ /\ IsOperation(driver'[c])
                 /\ Carries(driver'[c], shown'[driver'[c].request.ref])
           /\ calls'[c] = Idle \/ Serves(calls'[c], driver'[c], activations'),
         \A r \in Refs : Trails(r, activations'[r], shown'[r]),
         \A k \in Workers \ {c} : Holds(calls[k]) =>
           activations'[calls[k].ref].revision
             = activations[calls[k].ref].revision
  PROVE  ContractInv'
<1>1. TablesTrail'
  <2>1. \A r \in Refs : shown'[r] \in MaybeActivation
        BY Zenon DEF ShownGoesOn
  <2>2. \A r \in Refs : Trails(r, replica.of[r], shown'[r])
    <3>1. \A r \in Refs : Trails(r, replica.of[r], shown[r])
          BY Zenon DEF ContractInv, TablesTrail, AllTrail
    <3> QED BY Zenon, <3>1, StillTrails
  <2>3. ASSUME NEW k \in Workers, calls'[k].stage = "commit", NEW r \in Refs
        PROVE  Trails(r, calls'[k].snapshot.of[r], shown'[r])
    <3>1. Trails(r, calls'[k].snapshot.of[r], shown[r])
      <4>1. CASE k = c
            BY Zenon, <2>3, <4>1
      <4>2. CASE k # c
        <5>1. calls'[k] = calls[k]
              BY ZenonT(30), <4>2, ClientNames
        <5> QED BY Zenon, <2>3, <5>1 DEF ContractInv, TablesTrail, AllTrail
      <4> QED BY Zenon, <4>1, <4>2
    <3> QED BY Zenon, <3>1, StillTrails
  <2>4. shown' = [r \in Refs |-> shown'[r]]
        BY Zenon DEF ShownGoesOn
  <2> QED BY Zenon, <2>1, <2>2, <2>3, <2>4 DEF TablesTrail, AllTrail
<1>2. DriverTrails'
  <2> SUFFICES ASSUME NEW g \in Handlers
               PROVE  \/ driver'[g] = NoOperation
                      \/ /\ IsOperation(driver'[g])
                         /\ Carries(driver'[g], shown'[driver'[g].request.ref])
      BY Zenon DEF DriverTrails
  <2>1. CASE g = c
        BY Zenon, <2>1
  <2>2. CASE g # c /\ driver[g] # NoOperation
    <3>1. /\ driver'[g] = driver[g] /\ IsOperation(driver[g])
          /\ Carries(driver[g], shown[driver[g].request.ref])
          BY ZenonT(30), <2>2 DEF ContractInv, DriverTrails
    <3>2. driver[g].request \in Requests /\ driver[g].revision \in Nat
          BY ZenonT(30), <3>1 DEF IsOperation
    <3>3. Carries(driver[g], shown'[driver[g].request.ref])
          BY ZenonT(30), <3>1, <3>2, StillCarries
    <3> QED BY Zenon, <3>1, <3>3
  <2>3. CASE g # c /\ driver[g] = NoOperation
        BY Zenon, <2>3
  <2> QED BY Zenon, <2>1, <2>2, <2>3
<1>3. HandlersServe'
  <2> SUFFICES ASSUME NEW g \in Handlers
               PROVE  calls'[g] = Idle
                        \/ Serves(calls'[g], driver'[g], activations')
      BY Zenon DEF HandlersServe
  <2>0. g \in Clients /\ g \in Workers
        BY Zenon, ClientNames
  <2>1. CASE g = c
        BY Zenon, <2>0, <2>1
  <2>2. CASE g # c /\ calls[g] # Idle
    <3>1. calls'[g] = calls[g] /\ driver'[g] = driver[g]
          BY Zenon, <2>0, <2>2
    <3>2. Serves(calls[g], driver[g], activations)
          BY Zenon, <2>2 DEF ContractInv, HandlersServe
    <3>3. Holds(calls[g]) => activations'[calls[g].ref].revision
                               = activations[calls[g].ref].revision
          BY ZenonT(30), <2>0, <2>2
    <3> QED BY Zenon, <3>1, <3>2, <3>3 DEF Serves
  <2>3. CASE g # c /\ calls[g] = Idle
        BY ZenonT(30), <2>0, <2>3
  <2> QED BY Zenon, <2>1, <2>2, <2>3
<1> QED BY Zenon, <1>1, <1>2, <1>3 DEF ContractInv

\* The reports of the Driver's operation d that the Slave serves with x.
OwnReports(d, x) ==
  {m \in {[ref |-> d.request.ref, revision |-> d.revision, state |-> d.state]} :
     d.stage = "report"}
  \cup
  {m \in {[ref |-> x.ref, revision |-> d.revision, state |-> x.answer]} :
     x # Idle /\ x.answer \in ReportStates}

\* The reports of the health loop, which keeps p and does x.
HealthMail(p, x) ==
  {[ref |-> r, revision |-> p[r].revision, state |-> p[r].state] :
     r \in {s \in Refs : p[s] # NoReport}}
  \cup
  {m \in {[ref |-> x.ref, revision |-> x.report.revision,
           state |-> x.report.state]} : x.stage = "post"}

\* Operation by operation.
LEMMA ReportsByOwner ==
  ASSUME NEW m
  PROVE  /\ m \in Reports <=>
              \/ \E g \in Handlers : m \in OwnReports(driver[g], calls[g])
              \/ m \in HealthMail(pending, calls["health"])
         /\ m \in Reports' <=>
              \/ \E g \in Handlers : m \in OwnReports(driver'[g], calls'[g])
              \/ m \in HealthMail(pending', calls'["health"])
<1>1. m \in Reports <=>
        \/ \E g \in Handlers : m \in OwnReports(driver[g], calls[g])
        \/ m \in HealthMail(pending, calls["health"])
      BY ZenonT(30) DEF Reports, OwnReports, HealthMail
<1>2. m \in Reports' <=>
        \/ \E g \in Handlers : m \in OwnReports(driver'[g], calls'[g])
        \/ m \in HealthMail(pending', calls'["health"])
      BY ZenonT(30) DEF Reports, OwnReports, HealthMail
<1> QED BY Zenon, <1>1, <1>2

\* A step of one operation of the Driver sends what that operation sends; the
\* health loop may drop a report.
LEMMA OneSends ==
  ASSUME NEW h \in Handlers,
         \A k \in Clients \ {h} : calls'[k] = calls[k],
         \A g \in Handlers \ {h} : driver'[g] = driver[g],
         \A r \in Refs : pending'[r] \in {pending[r], NoReport},
         \A m \in OwnReports(driver'[h], calls'[h]) :
           m \in Reports \/ \E r \in Refs : m = Now(r)'
  PROVE  MailKept
<1> SUFFICES ASSUME NEW m \in Reports'
             PROVE  m \in Reports \/ \E r \in Refs : m = Now(r)'
    BY Zenon DEF MailKept
<1>1. /\ calls'["health"] = calls["health"]
      /\ \A g \in Handlers : g # h => calls'[g] = calls[g] /\ driver'[g] = driver[g]
      BY Zenon, ClientNames
<1>2. CASE \E g \in Handlers : m \in OwnReports(driver'[g], calls'[g])
      BY Zenon, <1>1, <1>2, ReportsByOwner
<1>3. CASE m \in HealthMail(pending', calls'["health"])
  <2>1. \A r \in Refs : pending'[r] # NoReport => pending'[r] = pending[r]
        BY Zenon
  <2>2. m \in HealthMail(pending, calls["health"])
        BY Zenon, <1>1, <1>3, <2>1 DEF HealthMail
  <2> QED BY Zenon, <2>2, ReportsByOwner
<1> QED BY Zenon, <1>2, <1>3, ReportsByOwner

\* If it sends nothing new and takes at most the reports gone away, so do all.
LEMMA OneWithdraws ==
  ASSUME NEW h \in Handlers, NEW gone, UNCHANGED pending,
         \A k \in Clients \ {h} : calls'[k] = calls[k],
         \A g \in Handlers \ {h} : driver'[g] = driver[g],
         OwnReports(driver'[h], calls'[h]) \subseteq OwnReports(driver[h], calls[h]),
         OwnReports(driver[h], calls[h]) \ gone
           \subseteq OwnReports(driver'[h], calls'[h])
  PROVE  Reports' \subseteq Reports /\ Reports \ gone \subseteq Reports'
<1>1. /\ calls'["health"] = calls["health"]
      /\ \A g \in Handlers : g # h => calls'[g] = calls[g] /\ driver'[g] = driver[g]
      BY Zenon, ClientNames
<1>2. ASSUME NEW m \in Reports' PROVE m \in Reports
      BY Zenon, <1>1, <1>2, ReportsByOwner
<1>3. ASSUME NEW m \in Reports, m \notin gone PROVE m \in Reports'
      BY Zenon, <1>1, <1>3, ReportsByOwner
<1> QED BY Zenon, <1>2, <1>3

\* A report on its way has a number of the Observer and a state.
LEMMA ReportsAreMail == ContractInv => Reports \subseteq Contract!Mail
<1> SUFFICES ASSUME ContractInv, NEW m \in Reports
             PROVE  m \in [ref : Refs, revision : Nat \ {0}, state : ReportStates]
    BY Zenon DEF Contract!Mail, Contract!ReportStates, ReportStates
<1>1. ASSUME NEW h \in Handlers, driver[h] # NoOperation
      PROVE  IsOperation(driver[h]) /\ driver[h].request.ref \in Refs
  <2>1. IsOperation(driver[h])
        BY Zenon, <1>1 DEF ContractInv, DriverTrails
  <2> QED BY Zenon, <2>1, RequestsAreSound DEF IsOperation, Request
<1>2. ASSUME NEW h \in Handlers, driver[h].stage = "report",
             m = [ref |-> driver[h].request.ref,
                  revision |-> driver[h].revision, state |-> driver[h].state]
      PROVE  m \in [ref : Refs, revision : Nat \ {0}, state : ReportStates]
  <2>1. driver[h] # NoOperation
        BY SMTT(20), <1>2 DEF NoOperation
  <2>2. IsOperation(driver[h]) /\ driver[h].request.ref \in Refs
        BY Zenon, <1>1, <2>1
  <2> QED BY Zenon, <1>2, <2>2 DEF IsOperation
<1>3. ASSUME NEW h \in Handlers, calls[h] # Idle, calls[h].answer \in ReportStates,
             m = [ref |-> calls[h].ref, revision |-> driver[h].revision,
                  state |-> calls[h].answer]
      PROVE  m \in [ref : Refs, revision : Nat \ {0}, state : ReportStates]
  <2>1. Serves(calls[h], driver[h], activations)
        BY Zenon, <1>3 DEF ContractInv, HandlersServe
  <2>2. driver[h] # NoOperation /\ calls[h].ref = driver[h].request.ref
        BY SMTT(20), <2>1 DEF NoOperation, Serves
  <2>3. IsOperation(driver[h]) /\ driver[h].request.ref \in Refs
        BY Zenon, <1>1, <2>2
  <2> QED BY Zenon, <1>3, <2>2, <2>3 DEF IsOperation
<1>4. ASSUME NEW r \in Refs, pending[r] # NoReport,
             m = [ref |-> r, revision |-> pending[r].revision,
                  state |-> pending[r].state]
      PROVE  m \in [ref : Refs, revision : Nat \ {0}, state : ReportStates]
  <2>1. pending[r] \in Report /\ pending[r].revision # 0
        BY Zenon, <1>4, KeptIsNumbered
  <2> QED BY Zenon, <1>4, <2>1 DEF Report
<1>5. ASSUME calls["health"].stage = "post",
             m = [ref |-> calls["health"].ref,
                  revision |-> calls["health"].report.revision,
                  state |-> calls["health"].report.state]
      PROVE  m \in [ref : Refs, revision : Nat \ {0}, state : ReportStates]
  <2>1. calls["health"].ref \in Refs
        BY SMTT(20), <1>5, ClientNames DEF ContractInv, SlaveInv, Shapes,
           IsDoing, Idle,
                                 IsCall, BusyStages
  <2>2. /\ calls["health"].report \in Report
        /\ calls["health"].report.revision # 0
        BY Zenon, <1>5 DEF ContractInv, HealthReports
  <2> QED BY Zenon, <1>5, <2>1, <2>2 DEF Report
<1> QED BY Zenon, <1>2, <1>3, <1>4, <1>5, ReportsAre

\* A step of the Slave, with or without the Driver, is a move of the contract.
LEMMA MoveStep ==
  ASSUME ContractInv', MailKept, UNCHANGED shown
  PROVE  Contract!Move
<1>1. (Reports \subseteq Contract!Mail)'
      BY ReportsAreMail, PTL
<1>2. \A r \in Refs : Trails(r, activations'[r], shown[r])
      BY Zenon DEF ContractInv, TablesTrail, AllTrail
<1>3. activations' \in [Refs -> MaybeActivation]
  <2>1. activations' = [r \in Refs |-> activations'[r]]
        BY Zenon DEF ContractInv, SlaveInv, Shapes, IsTable
  <2> QED BY Zenon, <1>2, <2>1 DEF Trails
<1>4. \A r \in Refs \cap Own : Contract!Behind(activations'[r], shown[r])
      BY Zenon, <1>2 DEF Trails, Contract!Behind
<1>5. Reports' \subseteq Reports \cup
        {[ref |-> r, revision |-> activations'[r].revision,
          state |-> activations'[r].state] : r \in Refs}
      BY Zenon DEF MailKept, Now
<1>6. MaybeActivation = Contract!MaybeActivation
      BY Zenon DEF MaybeActivation, Contract!MaybeActivation, Activation,
         Contract!Activation, NoActivation, Contract!NoActivation,
         Desires, Contract!Desires, ActivationStates, Contract!ActivationStates,
         NoKey, Contract!NoKey
<1> QED BY Zenon, <1>1, <1>3, <1>4, <1>5, <1>6 DEF Contract!Move

\* The Slave serves an operation while the Driver waits for its answer.
LEMMA NotServed ==
  ASSUME ContractInv, NEW h \in Handlers, driver[h].stage \notin {"called", "lost"}
  PROVE  calls[h] = Idle
  BY Zenon DEF ContractInv, HandlersServe, Serves

\* The Observer's table stays as it is.
LEMMA ShownStays ==
  ASSUME ContractInv, UNCHANGED shown
  PROVE  ShownGoesOn
  BY Zenon DEF ContractInv, TablesTrail, ShownGoesOn

\* A step of the Driver and the Observer leaves the Slave alone.
SlaveStays ==
  /\ UNCHANGED <<process, activations, replica, calls, pending, ops>>
  /\ happened \subseteq happened'

\* The operation of h becomes d.
LEMMA OperationMoves ==
  ASSUME ContractInv, SlaveStays, ShownGoesOn, AnswersTrail', NEW h \in Handlers,
         NEW d, driver' = [driver EXCEPT ![h] = d],
         \/ d = NoOperation
         \/ IsOperation(d) /\ Carries(d, shown'[d.request.ref]),
         calls[h] = Idle \/ Serves(calls[h], d, activations)
  PROVE  ContractInv'
<1>1. UNCHANGED <<process, activations, replica, calls, pending, ops>>
      BY Zenon DEF SlaveStays
<1>2. SlaveInv'
  <2>1. PendingKept
        BY Zenon, <1>1 DEF PendingKept, ContractInv, SlaveInv, Shapes
  <2> QED BY Zenon, <1>1, <2>1, CallsUnmoved DEF ContractInv, SlaveStays
<1>3. HealthReports' /\ PluginAnswers'
      BY Zenon, <1>1 DEF ContractInv, HealthReports, PluginAnswers
<1>4. /\ h \in Workers
      /\ \A k \in Clients \ {h} : calls'[k] = calls[k]
      BY Zenon, <1>1, ClientNames
<1>5. /\ DOMAIN driver' = Handlers /\ driver'[h] = d
      /\ \A g \in Handlers \ {h} : driver'[g] = driver[g]
      BY Zenon DEF ContractInv, DriverTrails
<1>6. calls'[h].stage = "commit" =>
        \A r \in Refs : Trails(r, calls'[h].snapshot.of[r], shown[r])
      BY Zenon, <1>1, <1>4 DEF ContractInv, TablesTrail, AllTrail
<1>7. \A r \in Refs : Trails(r, activations'[r], shown'[r])
  <2>1. \A r \in Refs : Trails(r, activations[r], shown[r])
        BY Zenon DEF ContractInv, TablesTrail, AllTrail
  <2> QED BY Zenon, <1>1, <2>1, StillTrails
<1>8. \A k \in Workers \ {h} : Holds(calls[k]) =>
        activations'[calls[k].ref].revision = activations[calls[k].ref].revision
      BY Zenon, <1>1
<1>9. calls'[h] = Idle \/ Serves(calls'[h], driver'[h], activations')
      BY Zenon, <1>1, <1>5
<1>10. UNCHANGED replica
       BY Zenon, <1>1
<1> QED BY Zenon, <1>2, <1>3, <1>4, <1>5, <1>6, <1>7, <1>8, <1>9, <1>10, OneMoves

\* An operation that has ended, or waits for no answer, sends nothing.
LEMMA OperationEnds ==
  ASSUME ContractInv, SlaveStays, UNCHANGED <<shown, desires>>,
         NEW h \in Handlers, NEW d, driver' = [driver EXCEPT ![h] = d],
         \/ d = NoOperation /\ calls[h] = Idle
         \/ /\ driver[h].stage = "called"
            /\ d = [driver[h] EXCEPT !.stage = "lost"]
  PROVE  ContractInv' /\ MailKept
<1>1. ShownGoesOn
      BY Zenon, ShownStays
<1>2. AnswersTrail'
      BY Zenon, <1>1, AnswersStillTrail
<1>3. /\ \A k \in Clients \ {h} : calls'[k] = calls[k]
      /\ calls' = calls
      /\ \A r \in Refs : pending'[r] \in {pending[r], NoReport}
      BY Zenon DEF SlaveStays
<1>4. /\ DOMAIN driver' = Handlers /\ driver'[h] = d
      /\ \A g \in Handlers \ {h} : driver'[g] = driver[g]
      BY Zenon DEF ContractInv, DriverTrails
<1>5. CASE d = NoOperation /\ calls[h] = Idle
  <2>1. ContractInv'
        BY Zenon, <1>1, <1>2, <1>5, OperationMoves
  <2>2. OwnReports(driver'[h], calls'[h]) = {}
    <3>1. NoOperation.stage # "report"
          BY Zenon DEF NoOperation
    <3>2. driver'[h].stage # "report" /\ calls'[h] = Idle
          BY Zenon, <1>3, <1>4, <1>5, <3>1
    <3> QED BY ZenonT(30), <3>2 DEF OwnReports
  <2> QED BY Zenon, <1>3, <1>4, <2>1, <2>2, OneSends
<1>6. CASE /\ driver[h].stage = "called"
           /\ d = [driver[h] EXCEPT !.stage = "lost"]
  <2>1. /\ IsOperation(driver[h])
        /\ Carries(driver[h], shown[driver[h].request.ref])
    <3>1. driver[h] # NoOperation
          BY SMTT(20), <1>6 DEF NoOperation
    <3> QED BY Zenon, <3>1 DEF ContractInv, DriverTrails
  <2>2. /\ DOMAIN d = DOMAIN driver[h]
        /\ d.stage = "lost" /\ d.request = driver[h].request
        /\ d.revision = driver[h].revision /\ d.key = driver[h].key
        BY Zenon, <1>6, <2>1 DEF IsOperation
  <2>3. IsOperation(d) /\ Carries(d, shown'[d.request.ref])
        BY Zenon, <2>1, <2>2 DEF IsOperation, Carries
  <2>4. calls[h] = Idle \/ Serves(calls[h], d, activations)
        BY Zenon, <2>2 DEF ContractInv, HandlersServe, Serves
  <2>5. ContractInv'
        BY Zenon, <1>1, <1>2, <2>3, <2>4, OperationMoves
  <2>6. \A m \in OwnReports(driver'[h], calls'[h]) : m \in Reports
    <3>1. OwnReports(driver'[h], calls'[h]) \subseteq OwnReports(driver[h], calls[h])
          BY Zenon, <1>3, <1>4, <2>2 DEF OwnReports
    <3> QED BY Zenon, <3>1, ReportsByOwner
  <2> QED BY Zenon, <1>3, <1>4, <2>5, <2>6, OneSends
<1> QED BY Zenon, <1>5, <1>6

\* The Slave is down, or died with the request; or the Driver gives up.
LEMMA EndFollows ==
  ASSUME ContractInv, NEW h \in Handlers, Unavailable(h) \/ GiveUp(h)
  PROVE  ContractInv' /\ MailKept
<1>1. SlaveStays /\ UNCHANGED <<shown, desires>>
  <2>1. CASE Unavailable(h)
        BY Zenon, <2>1 DEF Unavailable, slaveVars, books, plugin, observerVars,
                           SlaveStays
  <2>2. CASE GiveUp(h)
        BY Zenon, <2>2, FaultGrows DEF GiveUp, books, plugin, observerVars,
                                       SlaveStays
  <2> QED BY Zenon, <2>1, <2>2
<1>2. CASE Unavailable(h)
  <2>1. calls[h] = Idle
        BY Zenon, <1>2, ClientNames
        DEF Unavailable, ContractInv, SlaveInv, NobodyWorks
  <2> QED BY Zenon, <1>1, <1>2, <2>1, OperationEnds DEF Unavailable
<1>3. CASE GiveUp(h)
  <2>1. CASE driver[h].stage = "called"
        BY ZenonT(30), <1>1, <1>3, <2>1, OperationEnds DEF GiveUp
  <2>2. CASE driver[h].stage \in {"sent", "report"}
    <3>1. calls[h] = Idle
          BY Zenon, <2>2, NotServed
    <3> QED BY ZenonT(30), <1>1, <1>3, <2>2, <3>1, OperationEnds DEF GiveUp
  <2> QED BY Zenon, <1>3, <2>1, <2>2 DEF GiveUp
<1> QED BY Zenon, <1>2, <1>3

\* The Slave's answer reaches the Driver, which is about to report it.
LEMMA ReturnFollows ==
  ASSUME ContractInv, NEW h \in Handlers, Return(h)
  PROVE  ContractInv' /\ MailKept
<1> DEFINE d == driver'[h]
           x == calls[h]
<1>0. SlaveInv'
      BY Zenon, DispatchBegins DEF ContractInv, Return
<1>1. /\ UNCHANGED <<shown, desires, activations, pending, replica, ops>>
      /\ x.stage = "done" /\ driver[h].stage \in {"called", "lost"}
      /\ calls' = [calls EXCEPT ![h] = Idle]
      BY Zenon DEF Return, Leave, observerVars, books, plugin
<1>2. /\ DOMAIN driver' = Handlers
      /\ \A g \in Handlers \ {h} : driver'[g] = driver[g]
      /\ d = IF driver[h].stage = "lost" \/ x.answer = "error"
             THEN NoOperation
             ELSE [driver[h] EXCEPT !.stage = "report", !.state = x.answer]
      BY Zenon DEF Return, ContractInv, DriverTrails
<1>3. /\ h \in Workers /\ h # "health"
      /\ \A k \in Clients \ {h} : calls'[k] = calls[k]
      /\ calls'[h] = Idle
      BY Zenon, <1>1, ClientNames DEF ContractInv, SlaveInv, Shapes
<1>4. ShownGoesOn
      BY Zenon, <1>1, ShownStays
<1>5. AnswersTrail'
      BY Zenon, <1>1, <1>4, AnswersStillTrail
<1>6. HealthReports'
  <2>1. calls'["health"] = calls["health"]
        BY Zenon, <1>3, ClientNames
  <2> QED BY Zenon, <1>1, <2>1, HealthUntouched
<1>7. Idle.stage # "wait" /\ Idle.stage # "commit"
      BY Zenon DEF Idle
<1>8. PluginAnswers'
  <2>1. OpsStay(h)
        BY Zenon, <1>1, OpsUntouched
  <2> QED BY Zenon, <1>1, <1>3, <1>7, <2>1, PluginGoesOn
<1>9. /\ IsOperation(driver[h]) /\ Carries(driver[h], shown[driver[h].request.ref])
      /\ Serves(x, driver[h], activations)
  <2>1. x # Idle /\ driver[h] # NoOperation
        BY SMTT(20), <1>1 DEF Idle, NoOperation
  <2> QED BY Zenon, <2>1 DEF ContractInv, DriverTrails, HandlersServe
<1>10. \/ d = NoOperation
       \/ /\ d = [driver[h] EXCEPT !.stage = "report", !.state = x.answer]
          /\ x.answer \in ReportStates
  <2>1. x.answer \in ReportStates \cup {"error"}
        BY Zenon, <1>1, <1>9 DEF Serves, Concluded
  <2> QED BY Zenon, <1>2, <2>1
<1> HIDE DEF d
<1>11. ASSUME d # NoOperation
       PROVE  /\ IsOperation(d) /\ Carries(d, shown[d.request.ref])
              /\ d.request = driver[h].request /\ d.revision = driver[h].revision
              /\ d.state = x.answer /\ x.answer \in ReportStates
   <2>1. /\ DOMAIN d = DOMAIN driver[h] /\ d.stage = "report"
         /\ d.request = driver[h].request /\ d.revision = driver[h].revision
         /\ d.key = driver[h].key /\ d.state = x.answer
         BY ZenonT(30), <1>9, <1>10, <1>11 DEF IsOperation
   <2> QED BY Zenon, <1>9, <1>10, <1>11, <2>1 DEF IsOperation, Carries
<1>12. ContractInv'
  <2>1. \/ driver'[h] = NoOperation
        \/ /\ IsOperation(driver'[h])
           /\ Carries(driver'[h], shown'[driver'[h].request.ref])
        BY Zenon, <1>1, <1>11 DEF d
  <2>2. \A r \in Refs : Trails(r, activations'[r], shown'[r])
        BY Zenon, <1>1 DEF ContractInv, TablesTrail, AllTrail
  <2>3. \A k \in Workers \ {h} : Holds(calls[k]) =>
          activations'[calls[k].ref].revision = activations[calls[k].ref].revision
        BY Zenon, <1>1
  <2>4. calls'[h].stage # "commit" /\ UNCHANGED replica
        BY Zenon, <1>1, <1>3, <1>7
  <2> QED BY Zenon, <1>0, <1>2, <1>3, <1>4, <1>5, <1>6, <1>8, <2>1, <2>2, <2>3,
             <2>4, OneMoves
<1>13. MailKept
  <2>1. \A m \in OwnReports(driver'[h], calls'[h]) : m \in Reports
    <3> SUFFICES ASSUME NEW m \in OwnReports(d, calls'[h])
                 PROVE  m \in OwnReports(driver[h], x)
        BY Zenon, ReportsByOwner DEF d
    <3>0. NoOperation.stage # "report" /\ calls'[h] = Idle
          BY Zenon, <1>3 DEF NoOperation
    <3>1. /\ d # NoOperation
          /\ m = [ref |-> d.request.ref, revision |-> d.revision, state |-> d.state]
          BY ZenonT(30), <3>0 DEF OwnReports
    <3>2. m = [ref |-> x.ref, revision |-> driver[h].revision, state |-> x.answer]
          BY ZenonT(30), <1>9, <1>11, <3>1 DEF Serves
    <3>3. x # Idle /\ x.answer \in ReportStates
      <4>1. x # Idle
            BY SMTT(20), <1>1 DEF Idle
      <4> QED BY Zenon, <1>11, <3>1, <4>1
    <3> QED BY Zenon, <3>2, <3>3 DEF OwnReports
  <2>2. \A r \in Refs : pending'[r] \in {pending[r], NoReport}
        BY Zenon, <1>1
  <2> QED BY Zenon, <1>2, <1>3, <2>1, <2>2, OneSends
<1> QED BY Zenon, <1>12, <1>13

\* A report the health loop keeps may be dropped while it does not work on it.
LEMMA HealthForgets ==
  ASSUME ContractInv, NEW r \in Refs, calls'["health"] = calls["health"],
         \A c \in Workers : Holds(calls[c]) => calls[c].ref # r,
         \A s \in Refs \ {r} : pending'[s] = pending[s],
         pending'[r] \in {pending[r], NoReport}
  PROVE  HealthReports'
<1> DEFINE y == calls["health"]
<1>1. /\ "health" \in Workers
      /\ IsDoing("health", y)
      BY ZenonT(30), ClientNames DEF ContractInv, SlaveInv, Shapes
<1>2. y.stage \in {"read", "commit", "post"} => y.ref \in Refs
      BY SMTT(20), <1>1 DEF IsDoing, IsCall, Idle
<1>3. \A s \in Refs : pending[s] = NoReport \/ pending[s] \in Report
      BY Zenon DEF ContractInv, HealthReports
<1>4. \A s \in Refs : pending'[s] = NoReport \/ pending'[s] = pending[s]
      BY Zenon
<1>5. ASSUME y.stage \in {"read", "commit"} PROVE pending'[y.ref] # NoReport
  <2>1. y.ref # r
        BY SMTT(20), <1>1, <1>5 DEF IsDoing, IsCall, Idle, Holds, BusyStages
  <2>2. pending[y.ref] # NoReport
        BY Zenon, <1>5 DEF ContractInv, HealthReports
  <2> QED BY Zenon, <1>2, <1>5, <2>1, <2>2
<1>6. ASSUME y.stage = "post"
      PROVE  /\ y.report \in Report /\ y.report.revision # 0
             /\ pending'[y.ref] # NoReport => SameReport(pending'[y.ref], y.report)
  <2>1. /\ y.report \in Report /\ y.report.revision # 0
        /\ pending[y.ref] # NoReport => SameReport(pending[y.ref], y.report)
        BY Zenon, <1>6 DEF ContractInv, HealthReports
  <2>2. y.ref \in Refs
        BY Zenon, <1>2, <1>6
  <2> QED BY Zenon, <1>4, <2>1, <2>2
<1>7. \A s \in Refs : pending'[s] = NoReport \/ pending'[s] \in Report
      BY Zenon, <1>3, <1>4
<1> QED BY Zenon, <1>5, <1>6, <1>7 DEF HealthReports

\* The Driver's command reaches the Slave.
LEMMA DeliverFollows ==
  ASSUME ContractInv, NEW h \in Handlers, Deliver(h)
  PROVE  ContractInv' /\ MailKept
<1> DEFINE o == driver[h]
           q == o.request
           r == q.ref
           d == [o EXCEPT !.stage = "called"]
           x == calls'[h]
<1>1. /\ Accept(h, q.kind, r, o.revision, o.key)
      /\ driver' = [driver EXCEPT ![h] = d]
      /\ UNCHANGED <<shown, desires, replica, ops>>
      /\ o.stage = "sent" /\ calls[h] = Idle /\ LockFree(r)
      BY ZenonT(30) DEF Deliver, Accept, observerVars, plugin
<1>2. IsOperation(o) /\ Carries(o, shown[r])
  <2>1. o # NoOperation
        BY SMTT(20), <1>1 DEF NoOperation
  <2> QED BY Zenon, <2>1 DEF ContractInv, DriverTrails
<1>3. r \in Refs /\ q.kind \in {"provision", "deprovision"}
      BY Zenon, <1>2, RequestsAreSound DEF IsOperation, Request
<1>4. SlaveInv /\ SlaveInv'
      BY Zenon, <1>1, <1>3, AcceptKeeps DEF ContractInv
<1>5. /\ DOMAIN driver' = Handlers /\ driver'[h] = d
      /\ \A g \in Handlers \ {h} : driver'[g] = driver[g]
      BY Zenon, <1>1 DEF ContractInv, DriverTrails
<1>6. /\ DOMAIN d = DOMAIN o /\ d.stage = "called" /\ d.request = q
      /\ d.revision = o.revision /\ d.key = o.key
      BY Zenon, <1>2 DEF IsOperation
<1>a. Accepted(h, q.kind, r, o.revision, o.key)
      BY Zenon, <1>1, <1>3, <1>4, AcceptIs
<1>7. \E y : calls' = [calls EXCEPT ![h] = y]
      BY Zenon, <1>a DEF Accepted
<1>8. /\ x.kind = q.kind /\ x.ref = r
      /\ \A s \in Refs \ {r} : pending'[s] = pending[s]
      /\ pending'[r] \in {pending[r], NoReport}
      BY Zenon, <1>a DEF Accepted
<1>9. \/ /\ UNCHANGED activations /\ x.stage = "done"
         /\ \/ x.answer = "error"
            \/ /\ x.answer = "ready" /\ activations[r].revision = o.revision
               /\ activations[r].state = "ready"
      \/ /\ activations' = [activations EXCEPT ![r] =
              Commanded(activations[r], DesiredBy(q.kind), o.revision, o.key)]
         /\ x.stage = "read" /\ x.answer = "none" /\ x.next # "done"
      BY Zenon, <1>a DEF Accepted
<1>10. /\ h \in Workers /\ h # "health" /\ "health" \in Clients
       /\ \A k \in Clients \ {h} : calls'[k] = calls[k]
       BY Zenon, <1>4, <1>7, ClientNames DEF SlaveInv, Shapes
<1> HIDE DEF o, q, r, d, x
<1>11. \A k \in Workers : Holds(calls[k]) => calls[k].ref # r
  <2>1. \A k \in Workers : Holds(calls[k]) => Busy(k) /\ k \in Clients
        BY Zenon, ClientNames DEF Holds, Busy, BusyStages
  <2> QED BY Zenon, <1>1, <2>1 DEF LockFree, Holds
<1>12. HealthReports'
  <2>1. calls'["health"] = calls["health"]
        BY Zenon, <1>10
  <2> QED BY Zenon, <1>3, <1>8, <1>11, <2>1, HealthForgets
<1>13. PluginAnswers'
  <2>1. OpsStay(h)
        BY Zenon, <1>1, OpsUntouched
  <2>2. calls' = [calls EXCEPT ![h] = x]
        BY ZenonT(30), <1>4, <1>7, <1>10 DEF x, SlaveInv, Shapes
  <2>3. x.stage # "wait"
        BY Zenon, <1>9
  <2> QED BY Zenon, <1>10, <2>1, <2>2, <2>3, PluginGoesOn
<1>14. ShownGoesOn
       BY Zenon, <1>1, ShownStays
<1>15. AnswersTrail'
       BY Zenon, <1>1, <1>14, AnswersStillTrail
<1>16. /\ \A s \in Refs : Trails(s, activations[s], shown[s])
       /\ DOMAIN activations = Refs
       BY Zenon, <1>4 DEF ContractInv, TablesTrail, AllTrail, SlaveInv, Shapes,
          IsTable
<1> DEFINE a == Commanded(activations[r], DesiredBy(q.kind), o.revision, o.key)
<1>17. Trails(r, a, shown[r]) /\ a.revision = o.revision
  <2>1. /\ activations[r] \in MaybeActivation /\ o.key \in Keys
        /\ o.revision \in Nat \ {0}
        BY Zenon, <1>2, <1>3, <1>16 DEF Trails, IsOperation
  <2>2. DesiredBy(q.kind) \in Desires
        BY Zenon DEF DesiredBy, Desires
  <2>3. activations[r] # NoActivation => activations[r].state \in ActivationStates
        BY Zenon, <2>1 DEF MaybeActivation, Activation
  <2>4. a \in Activation
        BY ZenonT(30), <2>1, <2>2, <2>3 DEF Commanded, Activation, ActivationStates
  <2>5. a.revision = o.revision /\ a.desired = DesiredBy(q.kind)
        BY ZenonT(30) DEF Commanded
  <2> HIDE DEF a
  <2> QED BY Zenon, <1>2, <2>4, <2>5 DEF Trails, Carries, MaybeActivation, q, r
<1> HIDE DEF a
<1>18. \/ UNCHANGED activations /\ x.stage = "done"
       \/ /\ activations'[r] = a /\ x.stage = "read" /\ x.next # "done"
          /\ \A s \in Refs \ {r} : activations'[s] = activations[s]
       BY ZenonT(30), <1>3, <1>9, <1>16 DEF a
<1>19. \A s \in Refs : Trails(s, activations'[s], shown'[s])
       BY Zenon, <1>1, <1>16, <1>17, <1>18
<1>20. ASSUME NEW k \in Workers \ {h}, Holds(calls[k])
       PROVE  activations'[calls[k].ref].revision
                = activations[calls[k].ref].revision
  <2>1. calls[k].ref \in Refs /\ calls[k].ref # r
        BY Zenon, <1>4, <1>11, <1>20, BusyIsCall DEF Holds, IsCall
  <2> QED BY Zenon, <1>18, <2>1
<1>21. Serves(x, d, activations')
  <2>1. Holds(x) => activations'[x.ref].revision = d.revision
        BY Zenon, <1>6, <1>8, <1>17, <1>18 DEF Holds, BusyStages
  <2>2. x.answer \in ReportStates \cup {"none", "error"}
        BY Zenon, <1>9 DEF ReportStates
  <2>3. Concluded(x) => x.answer # "none"
        BY Zenon, <1>9 DEF Concluded
  <2> QED BY ZenonT(30), <1>6, <1>8, <2>1, <2>2, <2>3 DEF Serves, r, q
<1>22. IsOperation(d) /\ Carries(d, shown'[d.request.ref])
       BY ZenonT(30), <1>1, <1>2, <1>6 DEF IsOperation, Carries, q, r
<1>23. ContractInv'
  <2>1. x.stage # "commit" /\ UNCHANGED replica
        BY ZenonT(30), <1>1, <1>9
  <2> QED BY Zenon, <1>4, <1>5, <1>10, <1>12, <1>13, <1>14, <1>15, <1>19, <1>20,
             <1>21, <1>22, <2>1, OneMoves DEF x
<1>24. MailKept
  <2>1. ASSUME NEW m \in OwnReports(driver'[h], calls'[h])
        PROVE  \E s \in Refs : m = Now(s)'
    <3>1. /\ x.answer \in ReportStates
          /\ m = [ref |-> r, revision |-> o.revision, state |-> x.answer]
          BY ZenonT(30), <1>5, <1>6, <1>8 DEF OwnReports, x
    <3>2. /\ UNCHANGED activations /\ x.answer = "ready"
          /\ activations[r].revision = o.revision /\ activations[r].state = "ready"
          BY Zenon, <1>9, <3>1 DEF ReportStates
    <3>3. m = [ref |-> r, revision |-> activations'[r].revision,
               state |-> activations'[r].state]
          BY Zenon, <3>1, <3>2
    <3> QED BY Zenon, <1>3, <3>3 DEF Now
  <2>2. \A s \in Refs : pending'[s] \in {pending[s], NoReport}
        BY Zenon, <1>8
  <2> QED BY Zenon, <1>3, <1>5, <1>10, <2>1, <2>2, OneSends
<1> QED BY Zenon, <1>23, <1>24

\* A new entry of the Observer's table.
LEMMA NextShown ==
  ASSUME ContractInv, NEW r \in Refs, NEW t \in MaybeActivation,
         shown' = [shown EXCEPT ![r] = t],
         \/ t.revision = shown[r].revision /\ t.desired = shown[r].desired
         \/ t.revision = shown[r].revision + 1
  PROVE  ShownGoesOn /\ shown'[r] = t
<1>1. /\ DOMAIN shown = Refs
      /\ \A s \in Refs : shown[s] \in MaybeActivation
      BY Zenon DEF ContractInv, TablesTrail
<1>2. /\ shown' = [s \in Refs |-> shown'[s]]
      /\ shown'[r] = t
      /\ \A s \in Refs \ {r} : shown'[s] = shown[s]
      BY ZenonT(30), <1>1
<1> QED BY Zenon, <1>1, <1>2 DEF ShownGoesOn

\* A command the Driver is about to send carries the number of the answer.
LEMMA OperationBegins ==
  ASSUME ContractInv, SlaveStays, ShownGoesOn, AnswersTrail',
         NEW h \in Handlers, driver[h] = NoOperation, calls[h] = Idle,
         NEW q \in Requests, NEW a \in Activation,
         a.desired = DesiredBy(q.kind), Trails(q.ref, a, shown'[q.ref]),
         driver' = [driver EXCEPT ![h] =
           [stage |-> "sent", request |-> q, revision |-> a.revision,
            key |-> a.key, state |-> "none"]]
  PROVE  ContractInv' /\ Reports' = Reports
<1> DEFINE d == [stage |-> "sent", request |-> q, revision |-> a.revision,
                 key |-> a.key, state |-> "none"]
<1>1. /\ DOMAIN d = {"stage", "request", "revision", "key", "state"}
      /\ d.stage = "sent" /\ d.request = q /\ d.revision = a.revision
      /\ d.key = a.key
      BY ZenonT(30)
<1>2. driver' = [driver EXCEPT ![h] = d]
      BY Zenon
<1> HIDE DEF d
<1>3. IsOperation(d) /\ Carries(d, shown'[d.request.ref])
      BY ZenonT(30), <1>1 DEF IsOperation, Carries, Trails, Activation
<1>4. ContractInv'
      BY Zenon, <1>2, <1>3, OperationMoves
<1>5. /\ driver'[h] = d
      /\ \A g \in Handlers \ {h} : driver'[g] = driver[g]
      BY ZenonT(30), <1>2 DEF ContractInv, DriverTrails
<1>6. calls' = calls /\ UNCHANGED pending
      BY Zenon DEF SlaveStays
<1>7. /\ OwnReports(driver[h], calls[h]) = {}
      /\ OwnReports(driver'[h], calls'[h]) = {}
  <2>1. NoOperation.stage # "report"
        BY Zenon DEF NoOperation
  <2>2. /\ driver[h].stage # "report" /\ calls[h] = Idle
        /\ driver'[h].stage # "report" /\ calls'[h] = Idle
        BY Zenon, <1>1, <1>5, <1>6, <2>1
  <2>3. OwnReports(driver[h], calls[h]) = {}
        BY ZenonT(30), <2>2 DEF OwnReports
  <2>4. OwnReports(driver'[h], calls'[h]) = {}
        BY ZenonT(30), <2>2 DEF OwnReports
  <2> QED BY Zenon, <2>3, <2>4
<1>8. Reports' \subseteq Reports /\ Reports \ {} \subseteq Reports'
  <2>1. \A k \in Clients \ {h} : calls'[k] = calls[k]
        BY Zenon, <1>6
  <2> QED BY Zenon, <1>5, <1>6, <1>7, <2>1, OneWithdraws
<1> QED BY ZenonT(30), <1>4, <1>8

\* A step that sends nothing new.
LEMMA NothingSent ==
  ASSUME Reports' \subseteq Reports PROVE MailKept
  BY Zenon DEF MailKept

\* The Driver has the desired state assigned, or gets the answer of the first
\* time again.
LEMMA DesireFollows ==
  ASSUME ContractInv, NEW h \in Handlers, NEW q \in Requests, Desire(h, q)
  PROVE  ContractInv' /\ (Contract!Move \/ \E r \in Refs : Contract!Assign(r))
<1> DEFINE known == {a \in desires : a.id = DesireId(q)}
           r == q.ref
           desired == DesiredBy(q.kind)
           new == SetDesired(shown[r], desired, q.key)
<1>1. /\ driver[h] = NoOperation /\ calls[h] = Idle
      /\ SlaveStays
      BY ZenonT(30) DEF Desire, slaveVars, books, plugin, SlaveStays
<1>2. r \in Refs /\ desired \in Desires /\ q.key \in Keys
      BY Zenon, RequestsAreSound DEF Request, DesiredBy, Desires
<1>3. CASE known # {}
  <2> DEFINE a == (CHOOSE b \in known : TRUE).activation
  <2>1. \E b \in desires : b.id = DesireId(q) /\ b.activation = a
        BY ZenonT(30), <1>3
  <2>2. /\ a \in Activation /\ a.desired = desired /\ Trails(r, a, shown[r])
        BY Zenon, <2>1 DEF ContractInv, AnswersTrail
  <2>3. /\ UNCHANGED <<shown, desires>>
        /\ driver' = [driver EXCEPT ![h] =
             [stage |-> "sent", request |-> q, revision |-> a.revision,
              key |-> a.key, state |-> "none"]]
        BY ZenonT(30), <1>3 DEF Desire
  <2> HIDE DEF a
  <2>4. ShownGoesOn
        BY Zenon, <2>3, ShownStays
  <2>5. AnswersTrail'
        BY Zenon, <2>3, <2>4, AnswersStillTrail
  <2>6. ContractInv' /\ Reports' = Reports
        BY Zenon, <1>1, <2>2, <2>3, <2>4, <2>5, OperationBegins
  <2> QED BY Zenon, <2>3, <2>6, NothingSent, MoveStep
<1>4. CASE known = {}
  <2>1. /\ ~ DesireRefused(shown[r], desired, q.key)
        /\ shown' = [shown EXCEPT ![r] = new]
        /\ desires' = desires \cup {[id |-> DesireId(q), activation |-> new]}
        /\ driver' = [driver EXCEPT ![h] =
             [stage |-> "sent", request |-> q, revision |-> new.revision,
              key |-> new.key, state |-> "none"]]
        BY ZenonT(30), <1>4 DEF Desire
  <2>2. shown[r] \in MaybeActivation
        BY Zenon, <1>2 DEF ContractInv, TablesTrail
  <2>3. /\ new \in Activation /\ new.desired = desired
        /\ new = shown[r] \/ new.revision = shown[r].revision + 1
        BY ZenonT(30), <1>2, <2>1, <2>2, AssignedIs
  <2>4. Contract!Assign(r) \/ Reports' # Reports
    <3>1. \E e \in Desires, k \in Keys :
            shown' = [shown EXCEPT ![r] = SetDesired(shown[r], e, k)]
          BY Zenon, <1>2, <2>1
    <3>2. UNCHANGED activations
          BY Zenon, <1>1 DEF SlaveStays
    <3> QED BY Zenon, <3>1, <3>2
            DEF Contract!Assign, Contract!SetDesired, SetDesired, Contract!Desires,
                Desires, Contract!NoActivation, NoActivation, Contract!NoKey, NoKey
  <2> HIDE DEF new
  <2>5. ShownGoesOn /\ shown'[r] = new
    <3>1. new \in MaybeActivation
          BY Zenon, <2>3 DEF MaybeActivation
    <3>2. \/ new.revision = shown[r].revision /\ new.desired = shown[r].desired
          \/ new.revision = shown[r].revision + 1
          BY Zenon, <2>3
    <3> QED BY Zenon, <1>2, <2>1, <3>1, <3>2, NextShown
  <2>6. Trails(r, new, shown'[r])
    <3>1. new \in MaybeActivation
          BY Zenon, <2>3 DEF MaybeActivation
    <3>2. new.revision \in Nat
          BY ZenonT(30), <2>3 DEF Activation
    <3>3. \A n \in Nat : n <= n /\ ~ n < n
          OBVIOUS
    <3> QED BY ZenonT(30), <2>5, <3>1, <3>2, <3>3 DEF Trails
  <2>7. AnswersTrail'
    <3> SUFFICES ASSUME NEW a \in desires', NEW p \in Requests, a.id = DesireId(p)
                 PROVE  /\ a.activation \in Activation
                        /\ a.activation.desired = DesiredBy(p.kind)
                        /\ Trails(p.ref, a.activation, shown'[p.ref])
        BY Zenon DEF AnswersTrail
    <3>1. CASE a \in desires
      <4>1. /\ a.activation \in Activation
            /\ a.activation.desired = DesiredBy(p.kind)
            /\ Trails(p.ref, a.activation, shown[p.ref])
            BY Zenon, <3>1 DEF ContractInv, AnswersTrail
      <4>2. p.ref \in Refs
            BY Zenon, RequestsAreSound DEF Request
      <4> QED BY Zenon, <2>5, <4>1, <4>2, StillTrails
    <3>2. CASE a = [id |-> DesireId(q), activation |-> new]
      <4>1. a.id = DesireId(q) /\ a.activation = new
            BY Zenon, <3>2
      <4>2. DesireId(p) = DesireId(q)
            BY Zenon, <4>1
      <4>3. p.ref \in Own => p.ref = r
            BY Zenon, <4>2 DEF Own
      <4>4. DesiredBy(p.kind) = desired
            BY Zenon, <4>2 DEF DesireId
      <4>5. new \in MaybeActivation
            BY Zenon, <2>3 DEF MaybeActivation
      <4>6. CASE p.ref = r
            BY Zenon, <2>3, <2>6, <4>1, <4>4, <4>6
      <4>7. CASE p.ref \notin Own
            BY Zenon, <2>3, <4>1, <4>4, <4>5, <4>7 DEF Trails
      <4> QED BY Zenon, <4>3, <4>6, <4>7
    <3> QED BY Zenon, <2>1, <3>1, <3>2
  <2>8. ContractInv' /\ Reports' = Reports
        BY Zenon, <1>1, <2>1, <2>3, <2>5, <2>6, <2>7, OperationBegins
  <2> QED BY Zenon, <1>2, <2>4, <2>8
<1> QED BY Zenon, <1>3, <1>4

\* The Observer takes a report: a step of the contract.
LEMMA ProjectStep ==
  ASSUME NEW m \in Reports,
         ReportAccepted(shown[m.ref], m.revision, m.state),
         shown' = [shown EXCEPT ![m.ref].state = m.state],
         UNCHANGED activations,
         Reports' \subseteq Reports, Reports \ {m} \subseteq Reports'
  PROVE  \E p \in Reports : Contract!Project(p)
<1>2. Reports' \in {Reports, Reports \ {m}}
  <2>1. CASE m \in Reports'
    <3>1. Reports' = Reports
          BY Zenon, <2>1
    <3> QED BY Zenon, <3>1
  <2>2. CASE m \notin Reports'
    <3>1. Reports' = Reports \ {m}
          BY Zenon, <2>2
    <3> QED BY Zenon, <3>1
  <2> QED BY Zenon, <2>1, <2>2
<1>3. Contract!ReportAccepted(shown[m.ref], m.revision, m.state)
      BY Zenon DEF ReportAccepted, Contract!ReportAccepted,
         AllowedTransitions, Contract!AllowedTransitions, ReportStates,
         Contract!ReportStates, NoActivation, Contract!NoActivation,
         NoKey, Contract!NoKey
<1>4. Contract!Project(m)
      BY Zenon, <1>2, <1>3 DEF Contract!Project
<1> QED BY Zenon, <1>4

\* The Observer's table after a report.
LEMMA ProjectedShown ==
  ASSUME ContractInv, NEW r \in Refs, NEW state \in ReportStates,
         shown[r] # NoActivation, shown' = [shown EXCEPT ![r].state = state]
  PROVE  ShownGoesOn
<1> DEFINE t == [shown[r] EXCEPT !.state = state]
<1>1. shown[r] \in Activation
      BY Zenon DEF ContractInv, TablesTrail, MaybeActivation
<1>2. /\ t \in Activation /\ t.revision = shown[r].revision
      /\ t.desired = shown[r].desired
      BY Zenon, <1>1 DEF Activation, ReportStates, ActivationStates
<1>3. t \in MaybeActivation
      BY Zenon, <1>2 DEF MaybeActivation
<1>4. shown' = [shown EXCEPT ![r] = t]
      BY Zenon
<1> HIDE DEF t
<1> QED BY Zenon, <1>2, <1>3, <1>4, NextShown

\* The Driver reports the Slave's answer.
LEMMA TellFollows ==
  ASSUME ContractInv, NEW h \in Handlers, Tell(h)
  PROVE  /\ ContractInv'
         /\ Contract!Move \/ \E m \in Reports : Contract!Project(m)
<1> DEFINE o == driver[h]
           r == o.request.ref
           m == [ref |-> r, revision |-> o.revision, state |-> o.state]
<1>1. /\ o.stage = "report" /\ SlaveStays /\ UNCHANGED desires
      /\ driver' = [driver EXCEPT ![h] = NoOperation]
      BY ZenonT(30) DEF Tell, slaveVars, books, plugin, SlaveStays
<1>2. calls[h] = Idle
      BY Zenon, <1>1, NotServed
<1>3. /\ IsOperation(o) /\ r \in Refs
  <2>1. o # NoOperation
        BY SMTT(20), <1>1 DEF NoOperation
  <2>2. IsOperation(o)
        BY Zenon, <2>1 DEF ContractInv, DriverTrails
  <2> QED BY Zenon, <2>2, RequestsAreSound DEF IsOperation, Request
<1>4. CASE UNCHANGED shown
  <2>1. ContractInv' /\ MailKept
        BY Zenon, <1>1, <1>2, <1>4, OperationEnds
  <2> QED BY Zenon, <1>4, <2>1, MoveStep
<1>5. CASE /\ ReportAccepted(shown[r], o.revision, o.state)
           /\ shown' = [shown EXCEPT ![r].state = o.state]
  <2>1. o.state \in ReportStates /\ shown[r] # NoActivation
        BY Zenon, <1>1, <1>3, <1>5 DEF IsOperation, ReportAccepted
  <2>2. ShownGoesOn
        BY Zenon, <1>3, <1>5, <2>1, ProjectedShown
  <2>3. AnswersTrail'
        BY Zenon, <1>1, <2>2, AnswersStillTrail
  <2>4. ContractInv'
        BY Zenon, <1>1, <1>2, <2>2, <2>3, OperationMoves
  <2>5. /\ driver'[h] = NoOperation
        /\ \A g \in Handlers \ {h} : driver'[g] = driver[g]
        BY ZenonT(30), <1>1 DEF ContractInv, DriverTrails
  <2>6. calls' = calls /\ UNCHANGED <<pending, activations>>
        BY Zenon, <1>1 DEF SlaveStays
  <2>7. OwnReports(o, calls[h]) = {m}
        BY ZenonT(30), <1>1, <1>2 DEF OwnReports
  <2>8. OwnReports(driver'[h], calls'[h]) = {}
    <3>1. NoOperation.stage # "report"
          BY Zenon DEF NoOperation
    <3>2. driver'[h].stage # "report" /\ calls'[h] = Idle
          BY Zenon, <1>2, <2>5, <2>6, <3>1
    <3> QED BY ZenonT(30), <3>2 DEF OwnReports
  <2> HIDE DEF m
  <2>9. Reports' \subseteq Reports /\ Reports \ {m} \subseteq Reports'
    <3>1. \A k \in Clients \ {h} : calls'[k] = calls[k]
          BY Zenon, <2>6
    <3>2. /\ OwnReports(driver'[h], calls'[h]) \subseteq OwnReports(driver[h], calls[h])
          /\ OwnReports(driver[h], calls[h]) \ {m}
               \subseteq OwnReports(driver'[h], calls'[h])
          BY Zenon, <2>7, <2>8
    <3> QED BY Zenon, <2>5, <2>6, <3>1, <3>2, OneWithdraws
  <2>10. m \in Reports
         BY Zenon, <2>7, ReportsByOwner
  <2>11. m.ref = r /\ m.revision = o.revision /\ m.state = o.state
         BY Zenon DEF m
  <2>a. /\ ReportAccepted(shown[m.ref], m.revision, m.state)
        /\ shown' = [shown EXCEPT ![m.ref].state = m.state]
        BY Zenon, <1>5, <2>11
  <2>12. \E p \in Reports : Contract!Project(p)
         BY Zenon, <2>a, <2>6, <2>9, <2>10, ProjectStep
  <2> QED BY Zenon, <2>4, <2>12
<1>6. \/ UNCHANGED shown
      \/ /\ ReportAccepted(shown[r], o.revision, o.state)
         /\ shown' = [shown EXCEPT ![r].state = o.state]
      BY ZenonT(30) DEF Tell, Accepts
<1> QED BY Zenon, <1>4, <1>5, <1>6

\* What the health loop keeps after the Observer's answer.
LEMMA ReceivedIs ==
  ASSUME ContractInv, NEW answered, Receive(answered)
  PROVE  LET r == calls["health"].ref IN
         /\ \A s \in Refs \ {r} : pending'[s] = pending[s]
         /\ DOMAIN pending' = Refs
         /\ pending'[r] # NoReport =>
              /\ pending[r] # NoReport /\ SameReport(pending'[r], pending[r])
              /\ pending'[r] \in Report
<1> DEFINE r == calls["health"].ref
           report == calls["health"].report
           again == report.seen /\ report.revision = shown[r].revision
           accepted == again \/ Accepts(r, report.revision, report.state)
<1>1. /\ r \in Refs /\ DOMAIN pending = Refs
      BY SMTT(20), ClientNames DEF Receive, ContractInv, SlaveInv, Shapes,
         IsDoing, Idle,
                         IsCall, BusyStages
<1>2. pending[r] = NoReport \/ pending[r] \in Report
      BY Zenon, <1>1 DEF ContractInv, HealthReports
<1>3. \/ pending' \in {pending, [pending EXCEPT ![r] = NoReport]}
      \/ /\ pending[r] # NoReport
         /\ pending' = [pending EXCEPT ![r].seen = @ \/ accepted]
  <2>1. CASE answered
        BY ZenonT(30), <2>1 DEF Receive, Posted
  <2>2. CASE ~ answered
        BY ZenonT(30), <2>2 DEF Receive
  <2> QED BY Zenon, <2>1, <2>2
<1> HIDE DEF accepted
<1>4. CASE pending' \in {pending, [pending EXCEPT ![r] = NoReport]}
      BY Zenon, <1>1, <1>2, <1>4 DEF SameReport
<1>5. CASE /\ pending[r] # NoReport
           /\ pending' = [pending EXCEPT ![r].seen = @ \/ accepted]
  <2> DEFINE p == [pending[r] EXCEPT !.seen = pending[r].seen \/ accepted]
  <2>1. pending' = [pending EXCEPT ![r] = p]
        BY Zenon, <1>5
  <2>2. pending[r] \in Report
        BY Zenon, <1>2, <1>5
  <2>3. p \in Report /\ SameReport(p, pending[r])
        BY ZenonT(30), <2>2 DEF Report, SameReport
  <2> HIDE DEF p
  <2>4. DOMAIN pending' = Refs /\ pending'[r] = p
        BY Zenon, <1>1, <2>1
  <2>5. \A s \in Refs \ {r} : pending'[s] = pending[s]
        BY Zenon, <1>1, <2>1
  <2> QED BY ZenonT(30), <1>5, <2>3, <2>4, <2>5
<1> QED BY Zenon, <1>3, <1>4, <1>5

\* The Observer gets a report of the health loop, and its answer may get lost.
LEMMA ReceiveFollows ==
  ASSUME ContractInv, NEW answered, Receive(answered)
  PROVE  /\ ContractInv'
         /\ Contract!Move \/ \E m \in Reports : Contract!Project(m)
<1> DEFINE y == calls["health"]
           r == y.ref
           report == y.report
           m == [ref |-> r, revision |-> report.revision, state |-> report.state]
<1>1. /\ y.stage = "post" /\ calls' = [calls EXCEPT !["health"] = Idle]
      /\ UNCHANGED <<process, activations, replica, ops, desires, driver>>
      BY ZenonT(30) DEF Receive, Posted, plugin
<1>2. happened \subseteq happened'
      BY Zenon, FaultGrows DEF Receive, Posted
<1>3. /\ r \in Refs /\ "health" \in Workers /\ "health" \notin Handlers
      /\ calls'["health"] = Idle
      /\ \A k \in Clients \ {"health"} : calls'[k] = calls[k]
      BY SMTT(20), <1>1, ClientNames DEF ContractInv, SlaveInv, Shapes,
         IsDoing, Idle,
                               IsCall, BusyStages
<1>4. /\ \A s \in Refs \ {r} : pending'[s] = pending[s]
      /\ DOMAIN pending' = Refs
      /\ pending'[r] # NoReport =>
           /\ pending[r] # NoReport /\ SameReport(pending'[r], pending[r])
           /\ pending'[r] \in Report
      BY Zenon, ReceivedIs
<1>5. /\ report \in Report
      /\ pending[r] # NoReport => SameReport(pending[r], report)
      BY Zenon, <1>1 DEF ContractInv, HealthReports
<1>6. SlaveInv'
  <2>1. PendingKept
    <3>1. pending[r] # NoReport =>
            /\ activations[r].desired = "running"
            /\ activations[r].revision = pending[r].revision
          BY Zenon, <1>3 DEF ContractInv, SlaveInv, PendingIsCurrent
    <3> QED BY ZenonT(30), <1>3, <1>4, <3>1 DEF PendingKept, SameReport
  <2>2. Serving
        BY SMTT(20), <1>1, <1>3, WorkersServe DEF Idle, ContractInv
  <2>3. IsDoing("health", Idle) /\ ~ Holds(Idle)
        BY Zenon DEF IsDoing, Holds, Idle, BusyStages
  <2>4. y.stage \notin {"read", "commit"}
        BY Zenon, <1>1
  <2> QED BY Zenon, <1>1, <1>2, <1>3, <2>1, <2>2, <2>3, <2>4, CallMoves
             DEF ContractInv
<1>7. HealthReports'
  <2>1. \A s \in Refs : pending[s] = NoReport \/ pending[s] \in Report
        BY Zenon DEF ContractInv, HealthReports
  <2>2. \A s \in Refs : pending'[s] = NoReport \/ pending'[s] \in Report
        BY Zenon, <1>4, <2>1
  <2> QED BY SMTT(20), <1>3, <2>2 DEF HealthReports, Idle
<1>8. Idle.stage # "wait" /\ Idle.stage # "commit" /\ Idle.stage # "post"
      BY Zenon DEF Idle
<1>9. PluginAnswers'
  <2>1. OpsStay("health")
        BY Zenon, <1>1, OpsUntouched
  <2> QED BY Zenon, <1>1, <1>3, <1>8, <2>1, PluginGoesOn
<1> HIDE DEF y, r, report
<1>10. Reports' \subseteq Reports /\ Reports \ {m} \subseteq Reports' /\ m \in Reports
  <2>1. \A g \in Handlers : calls'[g] = calls[g] /\ driver'[g] = driver[g]
        BY Zenon, <1>1, <1>3, ClientNames
  <2>2. HealthMail(pending, y) =
          {[ref |-> s, revision |-> pending[s].revision, state |-> pending[s].state] :
             s \in {t \in Refs : pending[t] # NoReport}} \cup {m}
        BY Zenon, <1>1 DEF HealthMail, r, report
  <2>3. HealthMail(pending', Idle) =
          {[ref |-> s, revision |-> pending'[s].revision, state |-> pending'[s].state] :
             s \in {t \in Refs : pending'[t] # NoReport}}
        BY Zenon, <1>8 DEF HealthMail
  <2>4. \A s \in Refs : pending'[s] # NoReport =>
          /\ pending[s] # NoReport
          /\ pending'[s].revision = pending[s].revision
          /\ pending'[s].state = pending[s].state
        BY Zenon, <1>4 DEF SameReport
  <2>5. HealthMail(pending', Idle) \subseteq HealthMail(pending, y)
        BY Zenon, <2>2, <2>3, <2>4
  <2>6. \A s \in Refs : pending[s] # NoReport =>
          \/ s # r
          \/ pending[s].revision = report.revision /\ pending[s].state = report.state
        BY Zenon, <1>5 DEF SameReport
  <2>7. HealthMail(pending, y) \ {m} \subseteq HealthMail(pending', Idle)
    <3>1. \A s \in Refs : s # r => pending'[s] = pending[s]
          BY Zenon, <1>4
    <3> QED BY ZenonT(30), <2>2, <2>3, <2>6, <3>1
  <2>8. m \in HealthMail(pending, y)
        BY Zenon, <2>2
  <2> HIDE DEF m
  <2>9. ASSUME NEW p \in Reports' PROVE p \in Reports
        BY Zenon, <1>3, <2>1, <2>5, <2>9, ReportsByOwner DEF y
  <2>10. ASSUME NEW p \in Reports, p # m PROVE p \in Reports'
        BY Zenon, <1>3, <2>1, <2>7, <2>10, ReportsByOwner DEF y
  <2>11. m \in Reports
        BY Zenon, <2>8, ReportsByOwner DEF y
  <2> QED BY Zenon, <2>9, <2>10, <2>11
<1>11. \/ UNCHANGED shown
       \/ /\ ReportAccepted(shown[r], report.revision, report.state)
          /\ shown' = [shown EXCEPT ![r].state = report.state]
       BY ZenonT(30) DEF Receive, Accepts, r, report, y
<1>12. ShownGoesOn
  <2>1. CASE UNCHANGED shown
        BY Zenon, <2>1, ShownStays
  <2>2. CASE /\ ReportAccepted(shown[r], report.revision, report.state)
             /\ shown' = [shown EXCEPT ![r].state = report.state]
    <3>1. shown[r] # NoActivation /\ report.state \in ReportStates
          BY Zenon, <1>5, <2>2 DEF ReportAccepted, Report
    <3> QED BY Zenon, <1>3, <2>2, <3>1, ProjectedShown
  <2> QED BY Zenon, <1>11, <2>1, <2>2
<1>13. AnswersTrail'
       BY Zenon, <1>1, <1>12, AnswersStillTrail
<1>14. ContractInv'
  <2>1. \A s \in Refs : Trails(s, activations'[s], shown'[s])
    <3>1. \A s \in Refs : Trails(s, activations[s], shown[s])
          BY Zenon DEF ContractInv, TablesTrail, AllTrail
    <3> QED BY Zenon, <1>1, <1>12, <3>1, StillTrails
  <2>2. \A k \in Workers \ {"health"} : Holds(calls[k]) =>
          activations'[calls[k].ref].revision = activations[calls[k].ref].revision
        BY Zenon, <1>1
  <2>3. calls'["health"].stage # "commit" /\ UNCHANGED replica
        BY Zenon, <1>1, <1>3, <1>8
  <2>4. /\ DOMAIN driver' = Handlers
        /\ \A g \in Handlers \ {"health"} : driver'[g] = driver[g]
        BY Zenon, <1>1 DEF ContractInv, DriverTrails
  <2> QED BY Zenon, <1>3, <1>6, <1>7, <1>9, <1>12, <1>13, <2>1, <2>2, <2>3, <2>4,
             OneMoves
<1>15. CASE UNCHANGED shown
       BY Zenon, <1>10, <1>14, <1>15, NothingSent, MoveStep
<1>16. CASE /\ ReportAccepted(shown[r], report.revision, report.state)
            /\ shown' = [shown EXCEPT ![r].state = report.state]
  <2>1. m.ref = r /\ m.revision = report.revision /\ m.state = report.state
        BY Zenon
  <2> HIDE DEF m
  <2>2. /\ ReportAccepted(shown[m.ref], m.revision, m.state)
        /\ shown' = [shown EXCEPT ![m.ref].state = m.state]
        BY Zenon, <1>16, <2>1
  <2>3. \E p \in Reports : Contract!Project(p)
        BY Zenon, <1>1, <1>10, <2>2, ProjectStep
  <2> QED BY Zenon, <1>14, <2>3
<1> QED BY Zenon, <1>11, <1>15, <1>16

\* Nothing is deployed and nothing is on its way.
LEMMA ContractInvInit ==
  ActivationInit => ContractInv /\ Contract!ContractInit
<1> SUFFICES ASSUME ActivationInit
             PROVE  ContractInv /\ Contract!ContractInit
    BY Zenon
<1>1. SlaveInv /\ Init
      BY Zenon, SlaveInvInit DEF ActivationInit
<1>2. /\ shown = NoActivations /\ activations = NoActivations
      /\ replica.of = NoActivations /\ desires = {}
      /\ \A h \in Handlers : driver[h] = NoOperation
      /\ DOMAIN driver = Handlers
      BY Zenon DEF ActivationInit, Init, EmptyRow
<1>3. \A c \in Clients : calls[c] = Idle
      BY Zenon DEF ActivationInit, Init
<1>4. \A r \in Refs : pending[r] = NoReport
      BY ZenonT(30) DEF ActivationInit, Init
<1>5. /\ Idle.stage \notin {"commit", "wait", "read", "post"}
      /\ NoOperation.stage # "report"
      BY Zenon DEF Idle, NoOperation
<1>6. TablesTrail
  <2>1. \A r \in Refs : Trails(r, NoActivations[r], NoActivations[r])
        BY DEF Trails, NoActivations, NoActivation, MaybeActivation
  <2>2. /\ NoActivations = [r \in Refs |-> NoActivations[r]]
        /\ \A r \in Refs : NoActivations[r] \in MaybeActivation
        BY Zenon DEF NoActivations, MaybeActivation
  <2>3. \A c \in Workers : calls[c].stage # "commit"
        BY Zenon, <1>3, <1>5, ClientNames
  <2> QED BY Zenon, <1>2, <2>1, <2>2, <2>3 DEF TablesTrail, AllTrail
<1>7. AnswersTrail /\ DriverTrails
      BY Zenon, <1>2 DEF AnswersTrail, DriverTrails
<1>8. HandlersServe
      BY Zenon, <1>3, ClientNames DEF HandlersServe
<1>9. HealthReports
      BY Zenon, <1>3, <1>4, <1>5, ClientNames DEF HealthReports
<1>10. PluginAnswers
  <2>1. DOMAIN ops = Servants
        BY Zenon DEF ActivationInit, Init, NoOps
  <2> QED BY Zenon, <1>3, <1>5, <2>1, ClientNames DEF PluginAnswers
<1>11. Reports = {}
  <2>1. \A h \in Handlers : calls[h] = Idle /\ driver[h].stage # "report"
        BY Zenon, <1>2, <1>3, <1>5, ClientNames
  <2>2. calls["health"].stage # "post"
        BY Zenon, <1>3, <1>5, ClientNames
  <2>3. \A m : m \notin Reports
        BY Zenon, <1>4, <2>1, <2>2, ReportsAre
  <2> QED BY Zenon, <2>3
<1>12. Contract!ContractInit
       BY Zenon, <1>2, <1>11 DEF Contract!ContractInit, NoActivations,
          NoActivation, Contract!NoActivation, NoKey, Contract!NoKey
<1> QED BY Zenon, <1>1, <1>6, <1>7, <1>8, <1>9, <1>10, <1>12 DEF ContractInv

\* Every step of Observer, Driver and Slave keeps the invariant and is a step
\* of the contract.
LEMMA ContractStep ==
  ContractInv /\ [ActivationNext]_activationVars =>
    ContractInv' /\ [Contract!ContractNext]_(Contract!contractVars)
<1> SUFFICES ASSUME ContractInv, [ActivationNext]_activationVars
             PROVE  ContractInv' /\ [Contract!ContractNext]_(Contract!contractVars)
    BY Zenon
<1>1. CASE Internal /\ UNCHANGED <<observerVars, driver>>
  <2>1. ContractInv' /\ MailKept
        BY Zenon, <1>1, InternalFollows
  <2>2. UNCHANGED shown
        BY Zenon, <1>1 DEF observerVars
  <2> QED BY Zenon, <2>1, <2>2, MoveStep DEF Contract!ContractNext
<1>2. ASSUME NEW h \in Handlers, NEW q \in Requests, Desire(h, q)
      PROVE  ContractInv' /\ Contract!ContractNext
      BY Zenon, <1>2, DesireFollows DEF Contract!ContractNext
<1>3. ASSUME NEW h \in Handlers,
             Deliver(h) \/ Return(h) \/ Unavailable(h) \/ GiveUp(h)
      PROVE  ContractInv' /\ Contract!ContractNext
  <2>1. ContractInv' /\ MailKept
        BY Zenon, <1>3, DeliverFollows, ReturnFollows, EndFollows
  <2>2. UNCHANGED shown
        BY Zenon, <1>3 DEF Deliver, Return, Unavailable, GiveUp, observerVars
  <2> QED BY Zenon, <2>1, <2>2, MoveStep DEF Contract!ContractNext
<1>4. ASSUME NEW h \in Handlers, Tell(h)
      PROVE  ContractInv' /\ Contract!ContractNext
      BY Zenon, <1>4, TellFollows DEF Contract!ContractNext
<1>5. ASSUME NEW answered, Receive(answered)
      PROVE  ContractInv' /\ Contract!ContractNext
      BY Zenon, <1>5, ReceiveFollows DEF Contract!ContractNext
<1>6. CASE UNCHANGED activationVars
  <2>1. /\ UNCHANGED <<process, activations, replica, calls, pending, ops>>
        /\ UNCHANGED <<shown, desires, driver, happened>>
        BY Zenon, <1>6 DEF activationVars, slaveVars, books, plugin
  <2>2. ContractInv'
    <3>1. SlaveInv'
      <4>1. PendingKept
            BY Zenon, <2>1 DEF PendingKept, ContractInv, SlaveInv, Shapes
      <4>2. happened \subseteq happened'
            BY Zenon, <2>1
      <4> QED BY Zenon, <2>1, <4>1, <4>2, CallsUnmoved DEF ContractInv
    <3> QED BY Zenon, <2>1, <3>1 DEF ContractInv, TablesTrail,
               AllTrail, AnswersTrail, DriverTrails, HandlersServe,
               HealthReports, PluginAnswers
  <2>3. Reports' = Reports
        BY Zenon, <2>1 DEF Reports
  <2> QED BY Zenon, <2>1, <2>2, <2>3 DEF Contract!contractVars
<1>7. CASE ActivationNext
      BY Zenon, <1>1, <1>2, <1>3, <1>4, <1>5, <1>7
      DEF ActivationNext, ActivationStep
<1> QED BY Zenon, <1>6, <1>7

\* The invariant holds in every state of the composed system.
LEMMA ContractInvAlways == ActivationSpec => []ContractInv
  BY ContractInvInit, ContractStep, PTL DEF ActivationSpec

\* Whatever the order of requests, commands, answers and reports, and whatever
\* crashes, times out or gets lost, Observer, Driver and Slave keep their
\* contract: the Observer shows a state only if the Slave had it at that number,
\* and the Slave is never ahead of the Observer on a coordinate that shares no
\* command id with another.
THEOREM ContractIsKept == ActivationSpec => KeepsContract
  BY ContractInvInit, ContractStep, PTL
  DEF ActivationSpec, KeepsContract, Contract!ContractSpec

\* The three properties of the Slave also hold under the Driver's commands.
THEOREM SlaveUnderDriver ==
  ActivationSpec =>
    [](DesiredIsSavedFirst /\ RowIsCurrent /\ PendingIsCurrent)
<1>1. ContractInv => DesiredIsSavedFirst /\ RowIsCurrent /\ PendingIsCurrent
      BY Zenon, SlaveInvMeans DEF ContractInv
<1> QED BY <1>1, ContractInvAlways, PTL

-----------------------------------------------------------------------------
(***************************************************************************)
(* What the contract says.                                                 *)
(***************************************************************************)

\* set_capability_desired leaves the record as it is or gives it the next
\* number; only then does the desired state change.
LEMMA AssignedResult ==
  ASSUME NEW a \in Contract!MaybeActivation, NEW d \in Contract!Desires,
         NEW k \in Keys
  PROVE  /\ Contract!SetDesired(a, d, k) \in Contract!MaybeActivation
         /\ \/ Contract!SetDesired(a, d, k) = a
            \/ Contract!SetDesired(a, d, k).revision = a.revision + 1
  BY SMTT(20) DEF Contract!SetDesired, Contract!MaybeActivation,
     Contract!Activation,
     Contract!NoActivation, Contract!Desires, Contract!ActivationStates

\* The record of a report the Observer has taken.
LEMMA ProjectedResult ==
  ASSUME NEW a \in Contract!MaybeActivation, NEW n,
         NEW s \in Contract!ReportStates, Contract!ReportAccepted(a, n, s)
  PROVE  LET b == [a EXCEPT !.state = s] IN
         /\ b \in Contract!MaybeActivation
         /\ b.desired = a.desired /\ b.revision = a.revision /\ b.state = s
  BY Zenon DEF Contract!ReportAccepted, Contract!MaybeActivation,
     Contract!Activation,
     Contract!NoActivation, Contract!ReportStates, Contract!ActivationStates

\* Every step of the contract keeps the order of the two sides.
LEMMA SlaveFollowsStep ==
  Contract!SlaveFollows /\ [Contract!ContractNext]_(Contract!contractVars)
        => Contract!SlaveFollows'
<1> SUFFICES ASSUME Contract!SlaveFollows,
                    [Contract!ContractNext]_(Contract!contractVars)
             PROVE  Contract!SlaveFollows'
    BY Zenon
<1>1. ASSUME NEW r \in Refs, Contract!Assign(r) PROVE Contract!SlaveFollows'
  <2>1. PICK d \in Contract!Desires, k \in Keys :
          shown' = [shown EXCEPT ![r] = Contract!SetDesired(shown[r], d, k)]
        BY ZenonT(30), <1>1 DEF Contract!Assign
  <2> DEFINE new == Contract!SetDesired(shown[r], d, k)
  <2>2. /\ new \in Contract!MaybeActivation
        /\ new = shown[r] \/ new.revision = shown[r].revision + 1
        BY Zenon, AssignedResult DEF Contract!SlaveFollows
  <2> HIDE DEF new
  <2>3. shown' \in [Refs -> Contract!MaybeActivation]
        BY Zenon, <2>1, <2>2 DEF Contract!SlaveFollows, new
  <2>4. \A s \in Refs : shown'[s] = IF s = r THEN new ELSE shown[s]
        BY Zenon, <2>1 DEF Contract!SlaveFollows, new
  <2>5. \A s \in Refs : /\ activations[s].revision \in Nat
                        /\ shown[s].revision \in Nat
    <3>1. ASSUME NEW a \in Contract!MaybeActivation
          PROVE  a.revision \in Nat
      <4>1. CASE a \in Contract!Activation
            BY ZenonT(30), <4>1 DEF Contract!Activation
      <4>2. CASE a = Contract!NoActivation
            BY SMTT(20), <4>2 DEF Contract!NoActivation
      <4> QED BY Zenon, <4>1, <4>2 DEF Contract!MaybeActivation
    <3>2. \A s \in Refs : /\ activations[s] \in Contract!MaybeActivation
                          /\ shown[s] \in Contract!MaybeActivation
          BY ZenonT(30) DEF Contract!SlaveFollows
    <3> QED BY Zenon, <3>1, <3>2
  <2>6. \A s \in Refs \cap Own : Contract!Behind(activations[s], shown'[s])
        BY SMTT(20), <2>2, <2>4, <2>5 DEF Contract!SlaveFollows, Contract!Behind
  <2>7. \A m \in Reports : m.ref \in Own => m.revision <= shown'[m.ref].revision
        BY SMTT(20), <2>2, <2>4, <2>5 DEF Contract!SlaveFollows, Contract!Mail
  <2> QED BY Zenon, <1>1, <2>3, <2>6, <2>7 DEF Contract!SlaveFollows,
             Contract!Assign
<1>2. CASE Contract!Move
  <2>1. \A r \in Refs \cap Own : activations'[r].revision <= shown[r].revision
        BY Zenon, <1>2 DEF Contract!Move, Contract!Behind
  <2>2. \A m \in Reports' : m.ref \in Own => m.revision <= shown[m.ref].revision
        BY SMTT(20), <1>2, <2>1 DEF Contract!Move, Contract!SlaveFollows
  <2> QED BY ZenonT(30), <1>2, <2>2 DEF Contract!Move, Contract!SlaveFollows
<1>3. ASSUME NEW m \in Reports, Contract!Project(m) PROVE Contract!SlaveFollows'
  <2> DEFINE new == [shown[m.ref] EXCEPT !.state = m.state]
  <2>1. m.ref \in Refs /\ m.state \in Contract!ReportStates
        BY Zenon DEF Contract!SlaveFollows, Contract!Mail
  <2>2. /\ new \in Contract!MaybeActivation
        /\ new.desired = shown[m.ref].desired
        /\ new.revision = shown[m.ref].revision
        BY SMTT(20), <1>3, <2>1, ProjectedResult DEF Contract!Project,
           Contract!SlaveFollows
  <2>3. shown' = [shown EXCEPT ![m.ref] = new]
        BY Zenon, <1>3 DEF Contract!Project
  <2> HIDE DEF new
  <2>4. shown' \in [Refs -> Contract!MaybeActivation]
        BY ZenonT(30), <2>2, <2>3 DEF Contract!SlaveFollows
  <2>5. \A s \in Refs : /\ shown'[s].revision = shown[s].revision
                        /\ shown'[s].desired = shown[s].desired
        BY Zenon, <2>1, <2>2, <2>3 DEF Contract!SlaveFollows
  <2>6. Reports' \subseteq Reports /\ UNCHANGED activations
        BY Zenon, <1>3 DEF Contract!Project
  <2> QED BY Zenon, <2>4, <2>5, <2>6 DEF Contract!SlaveFollows, Contract!Behind,
             Contract!Mail
<1>4. CASE UNCHANGED Contract!contractVars
      BY Zenon, <1>4 DEF Contract!contractVars, Contract!SlaveFollows
<1> QED BY Zenon, <1>1, <1>2, <1>3, <1>4 DEF Contract!ContractNext

\* Under the contract, at a coordinate that shares no command id with another,
\* the Slave is never ahead of the Observer, has the same desired state at the
\* same number, and no report is ahead either.
THEOREM SlaveStaysBehind == Contract!ContractSpec => []Contract!SlaveFollows
<1>1. Contract!ContractInit => Contract!SlaveFollows
      BY DEF Contract!ContractInit, Contract!SlaveFollows, Contract!Behind,
         Contract!MaybeActivation, Contract!NoActivation
<1> QED BY <1>1, SlaveFollowsStep, PTL DEF Contract!ContractSpec

\* set_capability_desired and record_capability_health under any order of
\* requests and reports.
THEOREM ObserverIsOrderly == Contract!ContractSpec => Contract!RevivedByNumber
<1> DEFINE Orderly(r) ==
       /\ shown[r].revision <= shown'[r].revision
       /\ shown'[r].revision = shown[r].revision =>
            /\ shown'[r].desired = shown[r].desired
            /\ shown[r].state = "stopped" => shown'[r].state = "stopped"
            /\ shown[r].state = "failed"
                  => shown'[r].state \in {"failed", "stopped"}
<1>1. ASSUME Contract!SlaveFollows, Contract!ContractNext, NEW s \in Refs
      PROVE Orderly(s)
  <2>0. shown[s].revision \in Nat
        BY SMTT(20), <1>1 DEF Contract!SlaveFollows, Contract!MaybeActivation,
           Contract!Activation, Contract!NoActivation
  <2>1. ASSUME NEW r \in Refs, Contract!Assign(r) PROVE Orderly(s)
    <3>1. PICK d \in Contract!Desires, k \in Keys :
            shown' = [shown EXCEPT ![r] = Contract!SetDesired(shown[r], d, k)]
          BY ZenonT(30), <2>1 DEF Contract!Assign
    <3>2. Contract!SetDesired(shown[r], d, k) = shown[r]
            \/ Contract!SetDesired(shown[r], d, k).revision
                 = shown[r].revision + 1
          BY Zenon, <1>1, AssignedResult DEF Contract!SlaveFollows
    <3>3. shown'[s]
          = IF s = r THEN Contract!SetDesired(shown[r], d, k) ELSE shown[s]
          BY Zenon, <1>1, <3>1 DEF Contract!SlaveFollows
    <3> QED BY SMTT(20), <2>0, <3>2, <3>3
  <2>2. ASSUME Contract!Move PROVE Orderly(s)
        BY SMTT(20), <2>0, <2>2 DEF Contract!Move
  <2>3. ASSUME NEW m \in Reports, Contract!Project(m) PROVE Orderly(s)
    <3>1. m.ref \in Refs /\ m.state \in Contract!ReportStates
          BY Zenon, <1>1 DEF Contract!SlaveFollows, Contract!Mail
    <3>2. m.state \in Contract!AllowedTransitions(shown[m.ref].state)
          BY Zenon, <2>3 DEF Contract!Project, Contract!ReportAccepted
    <3>3. shown'[s] = IF s = m.ref THEN [shown[s] EXCEPT !.state = m.state]
                      ELSE shown[s]
          BY Zenon, <1>1, <2>3, <3>1 DEF Contract!Project, Contract!SlaveFollows
    <3>4. s = m.ref => /\ shown'[s].desired = shown[s].desired
                       /\ shown'[s].revision = shown[s].revision
                       /\ shown'[s].state = m.state
          BY SMTT(20), <1>1, <2>3, <3>1, <3>3, ProjectedResult
             DEF Contract!Project,
             Contract!SlaveFollows
    <3>5. shown[s].state = "stopped" /\ s = m.ref => m.state = "stopped"
          BY Zenon, <3>2 DEF Contract!AllowedTransitions
    <3>6. shown[s].state = "failed" /\ s = m.ref
            => m.state \in {"failed", "stopped"}
          BY Zenon, <3>2 DEF Contract!AllowedTransitions
    <3> QED BY SMTT(20), <2>0, <3>3, <3>4, <3>5, <3>6
  <2> QED BY Zenon, <1>1, <2>1, <2>2, <2>3 DEF Contract!ContractNext
<1>2. Contract!SlaveFollows /\ [Contract!ContractNext]_(Contract!contractVars)
        => [\A r \in Refs : Orderly(r)]_(Contract!contractVars)
      BY Zenon, <1>1
<1> QED BY <1>2, SlaveStaysBehind, PTL DEF Contract!ContractSpec,
           Contract!RevivedByNumber

\* In the composed system, then, the Slave is never ahead of the Observer on a
\* coordinate that shares no command id, and what the Observer shows of any
\* coordinate is revived by a new number only.
THEOREM ActivationIsOrderly ==
  ActivationSpec =>
    []Contract!SlaveFollows /\ Contract!RevivedByNumber
  BY ContractIsKept, SlaveStaysBehind, ObserverIsOrderly, PTL DEF KeepsContract
=============================================================================
