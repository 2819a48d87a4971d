------------------------- MODULE SlaveRuntimeProofs -------------------------
(***************************************************************************)
(* The Slave saves the desired state first, its row follows its memory and *)
(* its health reports are current.  The results it gives for an attempt    *)
(* are one, and an attempt whose result is kept is not executed again.     *)
(* All this for any number of coordinates, keys, handlers, revisions,      *)
(* attempts, requests and executions, and any faults.                      *)
(*                                                                         *)
(* The last part is about the Slave under a Driver.  ContractInv is        *)
(* SlaveInv with what relates Observer, Driver and Slave: every copy of an *)
(* activation, every command and every report under way is no later than   *)
(* the Observer's record (Trails, Carries).  The Slave's own steps keep    *)
(* it, and the reports they add are what the Slave has now (MailKept).     *)
(***************************************************************************)
EXTENDS CapabilityActivation, TLAPS

\* The clients that take part in the life cycle; the start-up is alone.
Workers == Clients \ {"startup"}

IsActivation(a) ==
  a = [desired |-> a.desired, revision |-> a.revision, key |-> a.key,
       state |-> a.state]

IsTable(t) ==
  t = [r \in Refs |-> t[r]] /\ \A r \in Refs : IsActivation(t[r])

IsRow(row) == DOMAIN row = {"order", "of"} /\ IsTable(row.of)

KindsOf(c) ==
  IF c = "health" THEN {"inspect"} ELSE {"provision", "deprovision", "invoke"}

BusyStages ==
  {"read", "commit", "decide", "lookup", "admit", "ask", "replay", "wait",
   "store", "insert"}

IsCall(c, x) ==
  /\ DOMAIN x = {"kind", "ref", "attempt", "stage", "next", "retry",
                 "snapshot", "answer", "value"}
  /\ x.kind \in KindsOf(c)
  /\ x.ref \in Refs
  /\ x.stage \in BusyStages \cup {"done"}
  /\ x.next \in {"ask", "decide", "done"}
  /\ x.stage = "commit" => IsRow(x.snapshot)
  /\ x.stage \in {"read", "commit", "decide"} => x.kind # "invoke"
  /\ x.stage \in {"lookup", "admit", "store", "insert"} => x.kind = "invoke"

\* What a client may be doing.
IsDoing(c, x) ==
  \/ x = Idle
  \/ c = "health" /\ x.stage = "post" /\ x.ref \in Refs
  \/ IsCall(c, x)

Shapes ==
  /\ IsTable(activations)
  /\ DOMAIN pending = Refs
  /\ IsRow(replica)
  /\ DOMAIN calls = Clients
  /\ \A c \in Workers : IsDoing(c, calls[c])
  /\ calls["startup"] = Idle \/ calls["startup"].stage = "wait"

\* Nobody works before the start-up is over, and nothing is pending.
NobodyWorks ==
  /\ ~ Serving => /\ \A c \in Workers : calls[c] = Idle
                  /\ \A r \in Refs : pending[r] = NoReport
  /\ calls["startup"] # Idle => process = "starting"

\* The desired state a call works towards.
Towards(kind) == IF kind = "deprovision" THEN "stopped" ELSE "running"

Holds(x) == x.stage \in BusyStages /\ x.kind # "invoke"

\* Who holds the lock of a coordinate finds the desired state it works towards.
LockedIsDesired ==
  \A c \in Workers :
    Holds(calls[c]) =>
      activations[calls[c].ref].desired = Towards(calls[c].kind)

\* The stages of a command after its desired state has been saved.
Informed == {"decide", "ask", "replay", "wait"}

Agrees(saved, current) ==
  /\ saved.desired = current.desired
  /\ saved.revision = current.revision
  /\ saved.key = current.key

LockedIsSaved ==
  ~ Happened({"raced"}) =>
    \A c \in Workers \ {"health"} :
      Holds(calls[c]) /\ calls[c].stage \in Informed =>
        Agrees(replica.of[calls[c].ref], activations[calls[c].ref])

\* The row is current, or who changed the activation is about to save it.
RowFollows ==
  Serving /\ ~ Happened({"raced"}) =>
    \A r \in Refs :
      \/ replica.of[r] = activations[r]
      \/ \E c \in Workers : calls[c].ref = r
                              /\ calls[c].stage \in {"read", "commit"}

SlaveInv ==
  /\ Shapes
  /\ NobodyWorks
  /\ LockedIsDesired
  /\ LockedIsSaved
  /\ RowFollows
  /\ PendingIsCurrent

-----------------------------------------------------------------------------

\* The names of the clients are different.
LEMMA ClientNames ==
  /\ "health" \in Workers /\ "startup" \in Clients
  /\ \A h \in Handlers : h \in Workers /\ h # "health" /\ h # "startup"
  /\ \A c \in Workers : c \in Clients /\ c # "startup"
  BY Zenon, SlaveConstantsAreSound DEF Workers, Clients

\* The history of races never forgets.
LEMMA StillUnraced ==
  ASSUME happened \subseteq happened', ~ Happened({"raced"})'
  PROVE  ~ Happened({"raced"})
  BY Zenon DEF Happened

\* Who works, works while the Slave serves.
LEMMA WorkersServe ==
  ASSUME SlaveInv, NEW c \in Workers, calls[c] # Idle
  PROVE  Serving
  BY Zenon DEF SlaveInv, NobodyWorks

\* The pending reports after a step are current.
PendingKept ==
  /\ DOMAIN pending' = Refs
  /\ \A r \in Refs :
       \/ pending'[r] \in {pending[r], NoReport}
       \/ /\ activations[r].desired = "running"
          /\ activations[r].revision = pending'[r].revision

\* A step that only moves the call of c on keeps the invariant, if it skips
\* no save.
LEMMA CallMoves ==
  ASSUME SlaveInv, Serving,
         UNCHANGED <<process, activations, replica>>,
         PendingKept,
         happened \subseteq happened',
         NEW c \in Workers, NEW x,
         calls' = [calls EXCEPT ![c] = x],
         IsDoing(c, x),
         calls[c].stage \in {"read", "commit"} =>
           x.stage \in {"read", "commit"} /\ x.ref = calls[c].ref,
         Holds(x) =>
           \/ /\ Holds(calls[c]) /\ x.ref = calls[c].ref
              /\ x.kind = calls[c].kind
              /\ x.stage \in Informed => calls[c].stage \in Informed
           \/ /\ c = "health"
              /\ activations[x.ref].desired = "running"
  PROVE  SlaveInv'
<1> USE DEF SlaveInv
<1>1. \A d \in Clients : calls'[d] = IF d = c THEN x ELSE calls[d]
      BY Zenon, ClientNames DEF Shapes
<1>2. Shapes'
  <2>1. DOMAIN calls' = Clients
        BY Zenon DEF Shapes
  <2>2. \A d \in Workers : IsDoing(d, calls'[d])
        BY Zenon, <1>1, ClientNames DEF Shapes
  <2> QED BY Zenon, <1>1, <2>1, <2>2, ClientNames DEF Shapes, PendingKept
<1>3. NobodyWorks'
      BY Zenon, <1>1, ClientNames DEF NobodyWorks, Serving
<1>4. LockedIsDesired'
  <2>1. Holds(x) => activations[x.ref].desired = Towards(x.kind)
    <3>1. Holds(x) => x.kind \in KindsOf(c)
          BY DEF IsDoing, Holds, BusyStages, Idle, IsCall
    <3> QED BY Zenon, <3>1 DEF LockedIsDesired, KindsOf, Towards
  <2> QED BY <1>1, <2>1, ClientNames DEF LockedIsDesired
<1>5. LockedIsSaved'
      BY <1>1, ClientNames, StillUnraced DEF LockedIsSaved
<1>6. RowFollows'
      BY <1>1, ClientNames, StillUnraced DEF RowFollows, Serving
<1>7. PendingIsCurrent'
      BY Zenon DEF PendingIsCurrent, PendingKept
<1> QED BY Zenon, <1>2, <1>3, <1>4, <1>5, <1>6, <1>7

\* A step that writes an activation keeps the invariant, if its call goes on to
\* save it, and if it holds the lock or changes the state only.
LEMMA CallWrites ==
  ASSUME SlaveInv, Serving,
         UNCHANGED <<process, replica>>,
         happened \subseteq happened',
         NEW c \in Workers, NEW x, NEW r \in Refs, NEW a,
         IsActivation(a),
         activations' = [activations EXCEPT ![r] = a],
         DOMAIN pending' = Refs,
         \A s \in Refs \ {r} : pending'[s] = pending[s],
         pending'[r] # NoReport =>
           a.desired = "running" /\ a.revision = pending'[r].revision,
         calls' = [calls EXCEPT ![c] = x],
         IsCall(c, x), x.stage = "read", x.ref = r,
         a.desired = Towards(x.kind),
         calls[c].stage \notin {"read", "commit"},
         \/ Agrees(a, activations[r])
         \/ \A d \in Workers : Holds(calls[d]) => calls[d].ref # r
  PROVE  SlaveInv'
<1> USE DEF SlaveInv
<1>1. \A d \in Clients : calls'[d] = IF d = c THEN x ELSE calls[d]
      BY Zenon, ClientNames DEF Shapes
<1>2. \A s \in Refs : activations'[s] = IF s = r THEN a ELSE activations[s]
      BY Zenon DEF Shapes, IsTable
<1>3. Shapes'
  <2>1. DOMAIN calls' = Clients
        BY Zenon DEF Shapes
  <2>2. \A d \in Workers : IsDoing(d, calls'[d])
        BY Zenon, <1>1, ClientNames DEF Shapes, IsDoing
  <2>3. IsTable(activations')
        BY Zenon, <1>2 DEF Shapes, IsTable
  <2> QED BY Zenon, <1>1, <2>1, <2>2, <2>3, ClientNames DEF Shapes
<1>4. NobodyWorks'
      BY ZenonT(30), <1>1, ClientNames DEF NobodyWorks, Serving
<1>5. \A d \in Workers : Holds(calls[d]) => calls[d].ref \in Refs
      BY DEF Shapes, IsDoing, IsCall, Holds, BusyStages, Idle
<1>6. LockedIsDesired'
  <2> SUFFICES ASSUME NEW d \in Workers, Holds(calls'[d])
               PROVE  activations'[calls'[d].ref].desired
                        = Towards(calls'[d].kind)
      BY Zenon DEF LockedIsDesired
  <2>1. CASE d = c
        BY <1>1, <1>2, <2>1, ClientNames
  <2>2. CASE d # c
    <3>1. calls'[d] = calls[d]
          BY Zenon, <1>1, <2>2, ClientNames
    <3>2. /\ calls[d].ref \in Refs
          /\ activations[calls[d].ref].desired = Towards(calls[d].kind)
          BY Zenon, <1>5, <3>1 DEF LockedIsDesired
    <3> QED BY Zenon, <1>2, <3>1, <3>2 DEF Agrees
  <2> QED BY Zenon, <2>1, <2>2
<1>7. LockedIsSaved'
  <2> SUFFICES ASSUME ~ Happened({"raced"})', NEW d \in Workers \ {"health"},
                      Holds(calls'[d]), calls'[d].stage \in Informed
               PROVE  Agrees(replica.of[calls'[d].ref],
                             activations'[calls'[d].ref])
      BY Zenon DEF LockedIsSaved
  <2>1. d # c /\ calls'[d] = calls[d]
        BY Zenon, <1>1, ClientNames DEF Informed
  <2>2. /\ calls[d].ref \in Refs
        /\ Agrees(replica.of[calls[d].ref], activations[calls[d].ref])
        BY Zenon, <1>5, <2>1, StillUnraced DEF LockedIsSaved
  <2> QED BY SMTT(20), <1>2, <2>1, <2>2 DEF Agrees
<1>8. RowFollows'
      BY <1>1, <1>2, ClientNames, StillUnraced DEF RowFollows, Serving
<1>9. PendingIsCurrent'
      BY <1>2 DEF PendingIsCurrent
<1> QED BY Zenon, <1>3, <1>4, <1>6, <1>7, <1>8, <1>9

\* Giving an activation another state changes nothing else of it.
LEMMA OtherState ==
  ASSUME NEW a, IsActivation(a), NEW s
  PROVE  LET b == [a EXCEPT !.state = s] IN
         /\ IsActivation(b) /\ Agrees(b, a)
         /\ s = a.state => b = a
  BY DEF IsActivation, Agrees

\* A call at an await is a record of its client.
LEMMA BusyIsCall ==
  ASSUME SlaveInv, NEW c \in Workers, calls[c].stage \in BusyStages
  PROVE  /\ IsCall(c, calls[c]) /\ Serving
         /\ calls[c].kind # "invoke" =>
              activations[calls[c].ref].desired = Towards(calls[c].kind)
<1>1. IsCall(c, calls[c])
      BY DEF SlaveInv, Shapes, IsDoing, Idle, BusyStages
<1> QED BY <1>1, WorkersServe
        DEF SlaveInv, LockedIsDesired, Holds, Idle, BusyStages

\* The health inspection takes note of a state; its call holds the lock of r,
\* or is about to begin.
LEMMA InspectedKeeps ==
  ASSUME SlaveInv, Serving, NEW r \in Refs, NEW state,
         Inspected(r, state),
         UNCHANGED <<process, replica>>,
         happened \subseteq happened',
         activations[r].desired = "running",
         calls["health"].stage \notin {"read", "commit"}
  PROVE  SlaveInv'
<1>0. "health" \in Workers /\ IsActivation(activations[r])
      BY Zenon, ClientNames DEF SlaveInv, Shapes, IsTable
<1> DEFINE report == [revision |-> activations[r].revision, state |-> state,
                      seen |-> FALSE]
           b == [activations[r] EXCEPT !.state = state]
<1>1. CASE reported[r] = <<activations[r].revision, state>>
  <2>1. /\ calls' = [calls EXCEPT !["health"] = Idle]
        /\ UNCHANGED <<activations, pending>>
        BY Zenon, <1>1 DEF Inspected
  <2>2. PendingKept
        BY Zenon, <2>1 DEF PendingKept, SlaveInv, Shapes
  <2>3. IsDoing("health", Idle) /\ ~ Holds(Idle)
        BY Zenon DEF IsDoing, Holds, Idle, BusyStages
  <2> QED BY Zenon, <1>0, <2>1, <2>2, <2>3, CallMoves
<1>2. CASE reported[r] # <<activations[r].revision, state>>
  <2>1. /\ activations' = [activations EXCEPT ![r] = b]
        /\ pending' = [pending EXCEPT ![r] = report]
        /\ calls' = [calls EXCEPT !["health"] =
             IF state = activations[r].state THEN Posting(r, report)
             ELSE NewCall("inspect", r, "read", "done", FALSE, "none")]
        BY Zenon, <1>2 DEF Inspected
  <2>2. /\ IsActivation(b) /\ Agrees(b, activations[r])
        /\ state = activations[r].state => b = activations[r]
        BY Zenon, <1>0, OtherState
  <2>3. /\ DOMAIN pending' = Refs
        /\ pending'[r].revision = activations[r].revision
        /\ \A s \in Refs \ {r} : pending'[s] = pending[s]
        BY Zenon, <2>1 DEF SlaveInv, Shapes
  <2> HIDE DEF b, report
  <2>4. CASE state = activations[r].state
    <3>1. activations' = activations
          BY Zenon, <2>1, <2>2, <2>4 DEF SlaveInv, Shapes, IsTable
    <3>2. PendingKept
          BY Zenon, <2>3 DEF PendingKept
    <3>3. /\ IsDoing("health", Posting(r, report))
          /\ ~ Holds(Posting(r, report))
          BY Zenon DEF IsDoing, Posting, Holds, BusyStages
    <3> QED BY Zenon, <1>0, <2>1, <2>4, <3>1, <3>2, <3>3, CallMoves
  <2>5. CASE state # activations[r].state
    <3> DEFINE x == NewCall("inspect", r, "read", "done", FALSE, "none")
    <3>1. /\ IsCall("health", x) /\ x.stage = "read" /\ x.ref = r
          /\ Towards(x.kind) = "running"
          BY Zenon DEF IsCall, NewCall, KindsOf, BusyStages, Towards
    <3>2. /\ b.desired = Towards(x.kind)
          /\ pending'[r] # NoReport =>
               b.desired = "running" /\ b.revision = pending'[r].revision
          BY Zenon, <2>2, <2>3, <3>1 DEF Agrees
    <3>3. calls' = [calls EXCEPT !["health"] = x]
          BY Zenon, <2>1, <2>5
    <3> HIDE DEF x
    <3> QED BY ZenonT(30), <1>0, <2>1, <2>2, <2>3, <3>1, <3>2, <3>3, CallWrites
  <2> QED BY Zenon, <2>4, <2>5
<1> QED BY Zenon, <1>1, <1>2

\* The answer of the plugin, or its failure.
LEMMA HandleKeeps ==
  ASSUME SlaveInv, NEW c \in Workers, NEW result, NEW value,
         calls[c].stage \in {"wait", "replay"},
         Handle(c, result, value),
         UNCHANGED <<process, replica>>,
         happened \subseteq happened'
  PROVE  SlaveInv'
<1> DEFINE y == calls[c]
           r == y.ref
<1>1. /\ IsCall(c, y) /\ Serving /\ r \in Refs
      /\ y.kind # "invoke" => activations[r].desired = Towards(y.kind)
      BY Zenon, BusyIsCall DEF BusyStages, IsCall
<1>2. IsActivation(activations[r])
      BY Zenon, <1>1 DEF SlaveInv, Shapes, IsTable
<1>3. UNCHANGED pending => PendingKept
      BY SMTT(30) DEF PendingKept, SlaveInv, Shapes
<1>4. ASSUME NEW answer, NEW state,
             y.kind # "invoke",
             activations' = [activations EXCEPT ![r].state = state],
             calls' = [calls EXCEPT ![c].stage = "read", ![c].next = "done",
                                    ![c].answer = answer],
             UNCHANGED pending
      PROVE  SlaveInv'
  <2> DEFINE x == [y EXCEPT !.stage = "read", !.next = "done",
                            !.answer = answer]
             a == [activations[r] EXCEPT !.state = state]
  <2>1. /\ IsCall(c, x) /\ x.stage = "read" /\ x.ref = r /\ x.kind = y.kind
        BY Zenon, <1>1, <1>4 DEF IsCall, BusyStages
  <2>2. IsActivation(a) /\ Agrees(a, activations[r])
        BY Zenon, <1>2, OtherState
  <2>3. calls' = [calls EXCEPT ![c] = x]
        BY Zenon, <1>4
  <2>4. activations' = [activations EXCEPT ![r] = a]
        BY Zenon, <1>4
  <2> HIDE DEF x, a
  <2>5. a.desired = Towards(x.kind)
        BY ZenonT(30), <1>1, <1>4, <2>1, <2>2 DEF Agrees
  <2>6. pending'[r] # NoReport =>
          a.desired = "running" /\ a.revision = pending'[r].revision
        BY Zenon, <1>1, <1>4, <2>2 DEF SlaveInv, PendingIsCurrent, Agrees
  <2>7. DOMAIN pending' = Refs
        BY Zenon, <1>4 DEF SlaveInv, Shapes
  <2> QED BY Zenon, <1>1, <1>4, <2>1, <2>2, <2>3, <2>4, <2>5, <2>6, <2>7,
             CallWrites
<1>5. ASSUME y.kind = "deprovision",
             calls' = [calls EXCEPT ![c].stage = "read", ![c].next = "done",
                                    ![c].answer = "error"],
             UNCHANGED <<activations, pending>>
      PROVE  SlaveInv'
  <2> DEFINE x == [y EXCEPT !.stage = "read", !.next = "done",
                            !.answer = "error"]
  <2>1. /\ IsCall(c, x) /\ x.stage = "read" /\ x.ref = r /\ x.kind = y.kind
        BY Zenon, <1>1, <1>5 DEF IsCall, BusyStages
  <2>2. calls' = [calls EXCEPT ![c] = x]
        BY Zenon, <1>5
  <2> HIDE DEF x
  <2>3. IsDoing(c, x) /\ Holds(calls[c]) /\ "read" \notin Informed
        BY Zenon, <1>5, <2>1 DEF IsDoing, Holds, BusyStages, Informed
  <2> QED BY Zenon, <1>1, <1>3, <1>5, <2>1, <2>2, <2>3, CallMoves
<1>6. ASSUME y.kind = "inspect", NEW state, Inspected(r, state)
      PROVE  SlaveInv'
  <2>1. c = "health"
        BY Zenon, <1>1, <1>6 DEF IsCall, KindsOf
  <2> QED BY ZenonT(30), <1>1, <1>6, <2>1, InspectedKeeps DEF Towards
<1>7. ASSUME y.kind = "invoke",
             calls' = [calls EXCEPT ![c] =
               IF result = "error" THEN Done(calls[c], "error", 0)
               ELSE [calls[c] EXCEPT !.stage = "store", !.value = value]],
             UNCHANGED <<activations, pending>>
      PROVE  SlaveInv'
  <2> DEFINE x == IF result = "error" THEN Done(y, "error", 0)
                  ELSE [y EXCEPT !.stage = "store", !.value = value]
  <2>1. IsCall(c, x) /\ x.kind = "invoke"
        BY Zenon, <1>1, <1>7 DEF IsCall, BusyStages, Done
  <2>2. calls' = [calls EXCEPT ![c] = x]
        BY Zenon, <1>7
  <2> HIDE DEF x
  <2>3. IsDoing(c, x) /\ ~ Holds(x)
        BY Zenon, <2>1 DEF IsDoing, Holds
  <2> QED BY Zenon, <1>1, <1>3, <1>7, <2>2, <2>3, CallMoves
<1> QED BY ZenonT(30), <1>4, <1>5, <1>6, <1>7 DEF Handle, Settle, Fail

\* Only the start-up waits without being one of the workers.
LEMMA AtWork ==
  ASSUME SlaveInv, NEW c \in Clients,
         calls[c].stage \in BusyStages \ {"wait"} \/ c # "startup"
  PROVE  c \in Workers
  BY DEF SlaveInv, Shapes, Workers, Idle, BusyStages

\* _persist_activation reads the row.
LEMMA ReadRowKeeps ==
  ASSUME SlaveInv, NEW c \in Clients, ReadRow(c)
  PROVE  SlaveInv'
<1> DEFINE x == [calls[c] EXCEPT !.stage = "commit", !.snapshot = replica]
<1>1. c \in Workers
      BY Zenon, AtWork DEF ReadRow, BusyStages
<1>2. IsCall(c, calls[c]) /\ Serving /\ calls[c].stage = "read"
      BY Zenon, <1>1, BusyIsCall DEF ReadRow, BusyStages
<1>3. /\ IsCall(c, x) /\ x.stage = "commit" /\ x.ref = calls[c].ref
      /\ x.kind = calls[c].kind
      BY Zenon, <1>2 DEF IsCall, BusyStages, SlaveInv, Shapes
<1>4. calls' = [calls EXCEPT ![c] = x]
      BY ZenonT(30) DEF ReadRow
<1> HIDE DEF x
<1>5. /\ IsDoing(c, x) /\ "commit" \notin Informed
      /\ Holds(x) => Holds(calls[c])
      BY Zenon, <1>2, <1>3 DEF IsDoing, Holds, BusyStages, Informed
<1>6. PendingKept /\ happened' = happened
      BY Zenon DEF PendingKept, SlaveInv, Shapes, ReadRow, NoFault, books
<1> QED BY Zenon, <1>1, <1>2, <1>3, <1>4, <1>5, <1>6, CallMoves
        DEF ReadRow, books

\* _persist_activation commits the row it has read with its own record: the
\* record is current, and the others are as they were unless there was a race.
LEMMA CommitRowKeeps ==
  ASSUME SlaveInv, NEW c \in Clients, CommitRow(c)
  PROVE  SlaveInv'
<1> DEFINE y == calls[c]
           r == y.ref
           x == IF c = "health" THEN Posting(r, pending[r])
                ELSE [y EXCEPT !.stage = y.next, !.snapshot = EmptyRow]
<1>1. c \in Workers
      BY Zenon, AtWork DEF CommitRow, BusyStages
<1>2. /\ IsCall(c, y) /\ Serving /\ y.stage = "commit" /\ r \in Refs
      /\ IsRow(y.snapshot) /\ y.kind # "invoke"
      /\ activations[r].desired = Towards(y.kind)
      BY Zenon, <1>1, BusyIsCall DEF CommitRow, BusyStages, IsCall
<1>3. /\ calls' = [calls EXCEPT ![c] = x]
      /\ replica' = Persisted(y.snapshot, r, activations[r])
      /\ happened' = IF OthersDiffer(y.snapshot, replica, r)
                     THEN happened \cup {"raced"} ELSE happened
      /\ UNCHANGED <<process, activations, pending>>
      BY Zenon DEF CommitRow, books
<1>4. /\ IsDoing(c, x)
      /\ x.stage \in {"post", "ask", "decide", "done"}
      /\ x.stage # "post" => x.ref = r /\ x.kind = y.kind
      BY Zenon, <1>2 DEF IsDoing, IsCall, Posting, BusyStages
<1> HIDE DEF x
<1>5. \A d \in Clients : calls'[d] = IF d = c THEN x ELSE calls[d]
      BY Zenon, <1>3, ClientNames DEF SlaveInv, Shapes
<1>6. /\ IsRow(replica')
      /\ \A s \in Refs : replica'.of[s] =
           IF s = r THEN activations[r] ELSE y.snapshot.of[s]
      BY ZenonT(30), <1>2, <1>3 DEF Persisted, IsRow, IsTable, SlaveInv, Shapes
<1>7. ~ Happened({"raced"})' =>
        /\ ~ Happened({"raced"})
        /\ \A s \in Refs \ {r} : replica'.of[s] = replica.of[s]
      BY ZenonT(30), <1>3, <1>6 DEF Happened, OthersDiffer
<1>8. Shapes'
  <2>1. DOMAIN calls' = Clients
        BY Zenon, <1>3 DEF SlaveInv, Shapes
  <2>2. \A d \in Workers : IsDoing(d, calls'[d])
        BY ZenonT(30), <1>4, <1>5, ClientNames DEF SlaveInv, Shapes
  <2> QED BY Zenon, <1>1, <1>3, <1>5, <1>6, <2>1, <2>2, ClientNames
          DEF SlaveInv, Shapes
<1>9. NobodyWorks'
      BY ZenonT(30), <1>1, <1>2, <1>3, <1>5, ClientNames
      DEF SlaveInv, NobodyWorks, Serving
<1>10. LockedIsDesired'
       BY SMTT(20), <1>2, <1>3, <1>4, <1>5, ClientNames
       DEF SlaveInv, LockedIsDesired, Holds, BusyStages
<1>11. LockedIsSaved'
  <2>1. \A d \in Workers : Holds(calls[d]) => calls[d].ref \in Refs
        BY DEF SlaveInv, Shapes, IsDoing, IsCall, Holds, BusyStages, Idle
  <2>2. Holds(x) => x.ref = r
        BY ZenonT(30), <1>4 DEF Holds, BusyStages
  <2>3. SUFFICES ASSUME ~ Happened({"raced"})',
                        NEW d \in Workers \ {"health"},
                        Holds(calls'[d]), calls'[d].stage \in Informed
                 PROVE  Agrees(replica'.of[calls'[d].ref],
                               activations[calls'[d].ref])
        BY Zenon, <1>3 DEF LockedIsSaved
  <2>4. calls'[d] = IF d = c THEN x ELSE calls[d]
        BY ZenonT(30), <1>5, ClientNames
  <2>5. CASE calls'[d].ref = r
        BY Zenon, <1>2, <1>6, <2>5 DEF Agrees
  <2>6. CASE calls'[d].ref # r
    <3>1. calls'[d] = calls[d] /\ calls[d].ref \in Refs \ {r}
          BY Zenon, <2>1, <2>2, <2>3, <2>4, <2>6
    <3>2. Agrees(replica.of[calls[d].ref], activations[calls[d].ref])
          BY ZenonT(30), <1>7, <2>3, <3>1 DEF SlaveInv, LockedIsSaved
    <3> QED BY Zenon, <1>7, <2>3, <3>1, <3>2
  <2> QED BY Zenon, <2>5, <2>6
<1>12. RowFollows'
       BY SMTT(20), <1>1, <1>3, <1>5, <1>6, <1>7, ClientNames
       DEF SlaveInv, RowFollows, Serving
<1>13. PendingIsCurrent'
       BY Zenon, <1>3 DEF SlaveInv, PendingIsCurrent
<1> QED BY Zenon, <1>8, <1>9, <1>10, <1>11, <1>12, <1>13 DEF SlaveInv

\* A provision or deprovision command is taken.
LEMMA AcceptKeeps ==
  ASSUME SlaveInv, NEW h \in Handlers,
         NEW kind \in {"provision", "deprovision"}, NEW r \in Refs,
         NEW n, NEW k, Accept(h, kind, r, n, k)
  PROVE  SlaveInv'
<1> DEFINE old == activations[r]
           verdict == LifecycleVerdict(old, DesiredBy(kind), n, k)
           ready == /\ verdict = "retry" /\ kind = "provision"
                    /\ old.state = "ready"
           a == Commanded(old, DesiredBy(kind), n, k)
<1>1. /\ h \in Workers /\ h # "health" /\ Serving /\ calls[h] = Idle
      /\ UNCHANGED <<process, replica>> /\ happened \subseteq happened'
      BY Zenon, ClientNames DEF Accept
<1>2. \A d \in Workers : Holds(calls[d]) => calls[d].ref # r
  <2>1. \A d \in Workers : Holds(calls[d]) => Busy(d) /\ d \in Clients
        BY Zenon, ClientNames DEF Holds, Busy, BusyStages
  <2> QED BY Zenon, <2>1 DEF Accept, LockFree, Holds
<1>3. CASE verdict = "refused" \/ ready
  <2>1. UNCHANGED <<activations, pending>>
        BY ZenonT(30), <1>3 DEF Accept
  <2>2. PendingKept
        BY Zenon, <2>1 DEF PendingKept, SlaveInv, Shapes
  <2>3. ASSUME NEW retry, NEW answer,
               calls' =
                 [calls EXCEPT
                    ![h] = NewCall(kind, r, "done", "done", retry, answer)]
        PROVE  SlaveInv'
    <3> DEFINE x == NewCall(kind, r, "done", "done", retry, answer)
    <3>1. IsCall(h, x) /\ x.stage = "done"
          BY Zenon, <1>1 DEF IsCall, NewCall, BusyStages, KindsOf
    <3>2. calls' = [calls EXCEPT ![h] = x]
          BY Zenon, <2>3
    <3> HIDE DEF x
    <3>3. IsDoing(h, x) /\ ~ Holds(x)
          BY ZenonT(30), <3>1 DEF IsDoing, Holds, BusyStages
    <3>4. calls[h].stage \notin {"read", "commit"}
          BY <1>1 DEF Idle
    <3> QED BY Zenon, <1>1, <2>1, <2>2, <3>2, <3>3, <3>4, CallMoves
  <2>4. CASE verdict = "refused"
        BY Zenon, <2>3, <2>4 DEF Accept
  <2>5. CASE verdict # "refused" /\ ready
        BY Zenon, <2>3, <2>5 DEF Accept
  <2> QED BY Zenon, <1>3, <2>4, <2>5
<1>4. CASE ~ (verdict = "refused" \/ ready)
  <2>1. PICK next \in {"ask", "decide"}, retry \in BOOLEAN :
          calls' = [calls EXCEPT ![h] =
                      NewCall(kind, r, "read", next, retry, "none")]
        BY Zenon, <1>4 DEF Accept
  <2> DEFINE x == NewCall(kind, r, "read", next, retry, "none")
  <2>2. activations' = [activations EXCEPT ![r] = a]
        BY ZenonT(30), <1>4 DEF Accept
  <2>3. /\ IsActivation(a) /\ a.desired = DesiredBy(kind) /\ a.revision = n
        BY ZenonT(30) DEF IsActivation, Commanded
  <2>4. /\ IsCall(h, x) /\ x.stage = "read" /\ x.ref = r /\ x.kind = kind
        BY Zenon, <1>1 DEF IsCall, NewCall, BusyStages, KindsOf
  <2>5. DesiredBy(kind) = Towards(kind)
        BY Zenon DEF DesiredBy, Towards
  <2>6. /\ DOMAIN pending' = Refs
        /\ \A s \in Refs \ {r} : pending'[s] = pending[s]
        BY SMTT(30) DEF Accept, SlaveInv, Shapes
  <2>7. pending'[r] # NoReport => old.desired = DesiredBy(kind)
                                    /\ old.revision = n
                                    /\ pending'[r] = pending[r]
    <3>1. verdict \in {"new", "retry"}
          BY ZenonT(30), <1>4 DEF LifecycleVerdict
    <3>2. verdict = "new" => pending'[r] = NoReport
          BY ZenonT(30) DEF Accept, SlaveInv, Shapes
    <3>3. verdict = "retry" => old.desired = DesiredBy(kind) /\ old.revision = n
          BY ZenonT(30) DEF LifecycleVerdict
    <3>4. verdict = "retry" => pending' = pending
          BY ZenonT(30) DEF Accept
    <3> QED BY ZenonT(30), <3>1, <3>2, <3>3, <3>4
  <2> HIDE DEF x, a
  <2>8. pending'[r] # NoReport =>
          a.desired = "running" /\ a.revision = pending'[r].revision
    <3>1. pending[r] # NoReport =>
            old.desired = "running" /\ old.revision = pending[r].revision
          BY Zenon DEF SlaveInv, PendingIsCurrent
    <3> QED BY ZenonT(30), <2>3, <2>7, <3>1
  <2>9. calls[h].stage \notin {"read", "commit"}
        BY <1>1 DEF Idle
  <2>10. calls' = [calls EXCEPT ![h] = x]
         BY Zenon, <2>1 DEF x
  <2> QED BY ZenonT(30), <1>1, <1>2, <2>2, <2>3, <2>4, <2>5, <2>6, <2>8,
             <2>9, <2>10,
             CallWrites
<1> QED BY Zenon, <1>3, <1>4

\* No fault is forgotten.
LEMMA FaultGrows ==
  ASSUME NoFault \/ \E kind : Fault(kind)
  PROVE  happened \subseteq happened'
  BY Zenon DEF NoFault, Fault

\* A call that is past the save and goes on to another stage.
LEMMA StageMoves ==
  ASSUME SlaveInv, NEW c \in Workers, NEW x,
         calls[c].stage \in BusyStages \ {"read", "commit"},
         calls' = [calls EXCEPT ![c] = x],
         IsCall(c, x), x.ref = calls[c].ref, x.kind = calls[c].kind,
         \/ x.stage = "done"
         \/ x.kind = "invoke"
         \/ calls[c].stage \in Informed,
         UNCHANGED <<process, activations, pending, replica>>,
         happened \subseteq happened'
  PROVE  SlaveInv'
<1>1. Serving
      BY Zenon, BusyIsCall
<1>2. PendingKept
      BY Zenon DEF PendingKept, SlaveInv, Shapes
<1>3. IsDoing(c, x)
      BY Zenon DEF IsDoing
<1>4. Holds(x) => Holds(calls[c]) /\ calls[c].stage \in Informed
      BY Zenon DEF Holds, BusyStages
<1> QED BY Zenon, <1>1, <1>2, <1>3, <1>4, CallMoves

\* A request goes to the plugin, or waits for the replay of the last list.
LEMMA AskKeeps ==
  ASSUME SlaveInv, NEW c \in Clients, Ask(c) \/ Replayed(c)
  PROVE  SlaveInv'
<1>1. calls[c].stage \in {"ask", "replay"}
      BY Zenon DEF Ask, Replayed
<1>2. c \in Workers
      BY Zenon, <1>1, AtWork DEF BusyStages
<1>3. IsCall(c, calls[c])
      BY Zenon, <1>1, <1>2, BusyIsCall DEF BusyStages
<1>4. PICK stage \in {"wait", "replay"} :
        calls' = [calls EXCEPT ![c].stage = stage]
      BY Zenon DEF Ask, Replayed
<1> DEFINE x == [calls[c] EXCEPT !.stage = stage]
<1>5. IsCall(c, x) /\ x.ref = calls[c].ref /\ x.kind = calls[c].kind
      BY Zenon, <1>3 DEF IsCall, BusyStages
<1>6. calls' = [calls EXCEPT ![c] = x]
      BY Zenon, <1>4
<1> HIDE DEF x
<1>7. /\ UNCHANGED <<process, activations, pending, replica>>
      /\ happened \subseteq happened'
      BY Zenon DEF Ask, Replayed, NoFault, books
<1>8. calls[c].stage \in (BusyStages \ {"read", "commit"}) \cap Informed
      BY Zenon, <1>1 DEF BusyStages, Informed
<1> QED BY Zenon, <1>2, <1>5, <1>6, <1>7, <1>8, StageMoves

\* The plugin answers, its connection is lost or the request times out.
LEMMA AnswersKeep ==
  ASSUME SlaveInv, NEW c \in Clients,
         Answered(c) \/ ConnectionLost(c) \/ TimesOut(c) \/ ReplayTimesOut(c)
  PROVE  SlaveInv'
<1>1. calls[c].stage \in {"wait", "replay"}
      BY Zenon DEF Answered, ConnectionLost, TimesOut, ReplayTimesOut
<1>2. calls[c].stage = "wait" => c # "startup"
      BY Zenon DEF Answered, ConnectionLost, TimesOut, ReplayTimesOut
<1>3. c \in Workers
      BY Zenon, <1>1, <1>2, AtWork DEF BusyStages
<1>4. PICK result, value : Handle(c, result, value)
      BY Zenon DEF Answered, ConnectionLost, TimesOut, ReplayTimesOut
<1>5. UNCHANGED <<process, replica>>
      BY Zenon DEF Answered, ConnectionLost, TimesOut, ReplayTimesOut
<1>6. happened \subseteq happened'
      BY Zenon, FaultGrows DEF Answered, ConnectionLost, TimesOut, ReplayTimesOut
<1> QED BY <1>1, <1>3, <1>4, <1>5, <1>6, HandleKeeps

\* deprovision decides whether it asks the plugin.
LEMMA DecideKeeps ==
  ASSUME SlaveInv, NEW h \in Handlers, Decide(h)
  PROVE  SlaveInv'
<1> DEFINE y == calls[h]
           r == y.ref
<1>1. /\ h \in Workers /\ h # "health" /\ y.stage = "decide"
      /\ y.stage \in (BusyStages \ {"read", "commit"}) \cap Informed
      BY ZenonT(30), ClientNames DEF Decide, BusyStages, Informed
<1>2. /\ IsCall(h, y) /\ Serving /\ r \in Refs
      /\ y.kind # "invoke" /\ activations[r].desired = Towards(y.kind)
      BY Zenon, <1>1, BusyIsCall DEF IsCall
<1>3. /\ UNCHANGED <<process, pending, replica>>
      /\ happened \subseteq happened'
      BY Zenon DEF Decide, NoFault
<1>4. ASSUME NEW x,
             x \in {[y EXCEPT !.stage = "done", !.answer = "stopped"],
                    [y EXCEPT !.stage = "ask"]},
             calls' = [calls EXCEPT ![h] = x],
             UNCHANGED activations
      PROVE  SlaveInv'
  <2>1. IsCall(h, x) /\ x.ref = r /\ x.kind = y.kind
        BY ZenonT(30), <1>2, <1>4 DEF IsCall, BusyStages
  <2> QED BY Zenon, <1>1, <1>3, <1>4, <2>1, StageMoves
<1>5. CASE Settle(h, "stopped")
  <2> DEFINE x == [y EXCEPT !.stage = "read", !.next = "done",
                            !.answer = "stopped"]
             a == [activations[r] EXCEPT !.state = "stopped"]
  <2>1. /\ IsCall(h, x) /\ x.stage = "read" /\ x.ref = r /\ x.kind = y.kind
        BY Zenon, <1>1, <1>2 DEF IsCall, BusyStages
  <2>2. IsActivation(a) /\ Agrees(a, activations[r])
        BY Zenon, <1>2, OtherState DEF SlaveInv, Shapes, IsTable
  <2>3. calls' = [calls EXCEPT ![h] = x]
        BY Zenon, <1>5 DEF Settle
  <2>4. activations' = [activations EXCEPT ![r] = a]
        BY ZenonT(30), <1>5 DEF Settle
  <2> HIDE DEF x, a
  <2>5. a.desired = Towards(x.kind)
        BY ZenonT(30), <1>2, <2>1, <2>2 DEF Agrees
  <2>6. pending'[r] # NoReport =>
          a.desired = "running" /\ a.revision = pending'[r].revision
        BY Zenon, <1>2, <1>3, <2>2 DEF SlaveInv, PendingIsCurrent, Agrees
  <2>7. DOMAIN pending' = Refs
        BY Zenon, <1>3 DEF SlaveInv, Shapes
  <2> QED BY Zenon, <1>1, <1>2, <1>3, <2>1, <2>2, <2>3, <2>4, <2>5, <2>6, <2>7,
             CallWrites
<1>6. CASE /\ calls' = [calls EXCEPT ![h].stage = "done",
                                     ![h].answer = "stopped"]
           /\ UNCHANGED activations
      BY Zenon, <1>4, <1>6
<1>7. CASE /\ calls' = [calls EXCEPT ![h].stage = "ask"]
           /\ UNCHANGED activations
      BY Zenon, <1>4, <1>7
<1> QED BY Zenon, <1>5, <1>6, <1>7 DEF Decide

\* A dispatch on its way; it holds no lock and writes no activation.
LEMMA DispatchKeeps ==
  ASSUME SlaveInv, NEW h \in Handlers,
         \/ Lookup(h) \/ Admit(h) \/ Store(h) \/ Insert(h)
         \/ AdmitFails(h) \/ StoreFails(h)
  PROVE  SlaveInv'
<1> DEFINE y == calls[h]
<1>1. /\ h \in Workers
      /\ y.stage \in {"lookup", "admit", "store", "insert"}
      BY ZenonT(30), ClientNames
      DEF Lookup, Admit, Store, Insert, AdmitFails, StoreFails
<1>2. IsCall(h, y) /\ y.stage \in BusyStages \ {"read", "commit"}
      BY Zenon, <1>1, BusyIsCall DEF BusyStages
<1>3. /\ UNCHANGED <<process, activations, pending, replica>>
      /\ happened \subseteq happened'
      BY ZenonT(30), FaultGrows
      DEF Lookup, Admit, Store, Insert, AdmitFails, StoreFails, ContentFails,
          books, NoFault
<1>4. y.kind = "invoke"
      BY SMTT(30), <1>1, <1>2 DEF IsCall
<1>5. ASSUME NEW answer, NEW value,
             calls' = [calls EXCEPT ![h] = Done(y, answer, value)]
      PROVE  SlaveInv'
  <2> DEFINE x == Done(y, answer, value)
  <2>1. IsCall(h, x) /\ x.ref = y.ref /\ x.kind = "invoke"
        BY Zenon, <1>2, <1>4 DEF IsCall, BusyStages, Done
  <2> HIDE DEF x
  <2>2. calls' = [calls EXCEPT ![h] = x]
        BY Zenon, <1>5 DEF x
  <2> QED BY ZenonT(30), <1>1, <1>2, <1>3, <1>4, <2>1, <2>2, StageMoves
<1>6. ASSUME NEW stage \in {"admit", "ask", "insert"},
             calls' = [calls EXCEPT ![h] = [y EXCEPT !.stage = stage]]
      PROVE  SlaveInv'
  <2> DEFINE x == [y EXCEPT !.stage = stage]
  <2>1. IsCall(h, x) /\ x.ref = y.ref /\ x.kind = "invoke"
        BY Zenon, <1>2, <1>4 DEF IsCall, BusyStages
  <2> HIDE DEF x
  <2>2. calls' = [calls EXCEPT ![h] = x]
        BY Zenon, <1>6 DEF x
  <2> QED BY Zenon, <1>1, <1>2, <1>3, <1>4, <2>1, <2>2, StageMoves
<1>7. CASE Lookup(h)
      BY Zenon, <1>5, <1>6, <1>7 DEF Lookup
<1>8. CASE Admit(h)
      BY Zenon, <1>5, <1>6, <1>8 DEF Admit
<1>9. CASE Store(h)
      BY Zenon, <1>6, <1>9 DEF Store
<1>10. CASE Insert(h)
       BY Zenon, <1>5, <1>10 DEF Insert
<1>11. CASE AdmitFails(h) \/ StoreFails(h)
       BY Zenon, <1>5, <1>11 DEF AdmitFails, StoreFails, ContentFails
<1> QED BY Zenon, <1>7, <1>8, <1>9, <1>10, <1>11

\* A dispatch begins, or a request is over.
LEMMA DispatchBegins ==
  ASSUME SlaveInv, NEW h \in Handlers,
         Leave(h) \/ \E a \in Attempts : Dispatch(h, a)
  PROVE  SlaveInv'
<1>1. /\ h \in Workers /\ h # "health"
      /\ UNCHANGED <<process, activations, pending, replica>>
      /\ happened \subseteq happened'
      BY Zenon, ClientNames DEF Leave, Dispatch, books, NoFault
<1>2. PendingKept
      BY Zenon, <1>1 DEF PendingKept, SlaveInv, Shapes
<1>3. ASSUME NEW x, calls' = [calls EXCEPT ![h] = x], Serving,
             IsDoing(h, x), ~ Holds(x),
             calls[h].stage \notin {"read", "commit"}
      PROVE  SlaveInv'
      BY Zenon, <1>1, <1>2, <1>3, CallMoves
<1>4. CASE Leave(h)
  <2>1. calls[h].stage = "done"
        BY Zenon, <1>4 DEF Leave
  <2>2. Serving
        BY <1>1, <2>1, WorkersServe DEF Idle
  <2>3. IsDoing(h, Idle) /\ ~ Holds(Idle)
        BY SMTT(30) DEF IsDoing, Holds, Idle, BusyStages
  <2> QED BY Zenon, <1>3, <1>4, <2>1, <2>2, <2>3 DEF Leave
<1>5. ASSUME NEW a \in Attempts, Dispatch(h, a)
      PROVE  SlaveInv'
  <2> DEFINE call == [NewCall("invoke", Package[a], "lookup", "done", FALSE,
                              "none") EXCEPT !.attempt = a]
  <2>1. IsCall(h, call) /\ call.kind = "invoke"
        BY Zenon, <1>1, SlaveConstantsAreSound
        DEF IsCall, NewCall, BusyStages, KindsOf
  <2>2. PICK x : /\ calls' = [calls EXCEPT ![h] = x]
                 /\ \/ x = Done(call, "error", 0)
                    \/ x = Done(call, "value", attempts[a].memory)
                    \/ x = call
        BY Zenon, <1>5 DEF Dispatch
  <2> HIDE DEF call
  <2>3. IsCall(h, x) /\ x.kind = "invoke"
        BY ZenonT(30), <2>1, <2>2 DEF IsCall, Done, BusyStages
  <2>4. Serving /\ calls[h].stage \notin {"read", "commit"}
        BY <1>5 DEF Dispatch, Idle
  <2>5. IsDoing(h, x) /\ ~ Holds(x)
        BY Zenon, <2>3 DEF IsDoing, Holds
  <2> QED BY Zenon, <1>3, <2>2, <2>4, <2>5
<1> QED BY Zenon, <1>4, <1>5

\* A step that moves no call keeps the invariant.
LEMMA CallsUnmoved ==
  ASSUME SlaveInv, UNCHANGED <<process, activations, replica, calls>>,
         PendingKept, Serving \/ UNCHANGED pending,
         happened \subseteq happened'
  PROVE  SlaveInv'
<1> USE DEF SlaveInv
<1>1. Shapes'
      BY Zenon DEF Shapes, PendingKept
<1>2. NobodyWorks'
      BY Zenon DEF NobodyWorks, Serving
<1>3. LockedIsDesired'
      BY Zenon DEF LockedIsDesired
<1>4. LockedIsSaved'
      BY Zenon, StillUnraced DEF LockedIsSaved
<1>5. RowFollows'
      BY Zenon, StillUnraced DEF RowFollows, Serving
<1>6. PendingIsCurrent'
      BY Zenon DEF PendingIsCurrent, PendingKept
<1> QED BY Zenon, <1>1, <1>2, <1>3, <1>4, <1>5, <1>6

\* The health loop begins an inspection or sends a report, and is answered.
LEMMA HealthKeeps ==
  ASSUME SlaveInv,
         \/ \E r \in Refs : HealthInspect(r) \/ Resend(r)
         \/ \E acknowledged : Posted(acknowledged)
  PROVE  SlaveInv'
<1>1. /\ UNCHANGED <<process, replica>> /\ happened \subseteq happened'
      BY Zenon DEF HealthInspect, Resend, Posted, NoFault
<1>2. /\ "health" \in Workers /\ Serving
      /\ calls["health"].stage \notin {"read", "commit"}
  <2>1. "health" \in Workers
        BY Zenon, ClientNames
  <2>2. \/ Serving /\ calls["health"] = Idle
        \/ calls["health"].stage = "post"
        BY Zenon DEF HealthInspect, Resend, Posted
  <2> QED BY <2>1, <2>2, WorkersServe DEF Idle
<1>3. ASSUME NEW r \in Refs, HealthInspect(r)
      PROVE  SlaveInv'
  <2>1. activations[r].desired = "running"
        BY Zenon, <1>3 DEF HealthInspect
  <2>2. CASE Inspected(r, "failed")
        BY Zenon, <1>1, <1>2, <2>1, <2>2, InspectedKeeps
  <2> DEFINE x == NewCall("inspect", r, "ask", "done", FALSE, "none")
  <2>3. CASE /\ calls' = [calls EXCEPT !["health"] = x]
             /\ UNCHANGED <<activations, pending>>
    <3>1. PendingKept
          BY ZenonT(30), <2>3 DEF PendingKept, SlaveInv, Shapes
    <3>2. IsCall("health", x) /\ x.ref = r
          BY Zenon DEF IsCall, NewCall, BusyStages, KindsOf
    <3>3. IsDoing("health", x)
          BY ZenonT(30), <3>2 DEF IsDoing
    <3> HIDE DEF x
    <3> QED BY ZenonT(30), <1>1, <1>2, <2>1, <2>3, <3>1, <3>2, <3>3, CallMoves
  <2> QED BY ZenonT(30), <1>3, <2>2, <2>3 DEF HealthInspect
<1>4. ASSUME NEW r \in Refs, Resend(r)
      PROVE  SlaveInv'
  <2>1. PendingKept /\ UNCHANGED activations
        BY ZenonT(30), <1>4 DEF PendingKept, SlaveInv, Shapes, Resend
  <2> DEFINE x == Posting(r, pending[r])
  <2>2. IsDoing("health", x) /\ ~ Holds(x)
        BY ZenonT(30) DEF IsDoing, Holds, Posting, BusyStages
  <2>3. calls' = calls \/ calls' = [calls EXCEPT !["health"] = x]
        BY SMTT(30), <1>4 DEF Resend
  <2> HIDE DEF x
  <2> QED BY ZenonT(30), <1>1, <1>2, <2>1, <2>2, <2>3, CallMoves, CallsUnmoved
<1>5. ASSUME NEW acknowledged, Posted(acknowledged)
      PROVE  SlaveInv'
  <2>1. /\ UNCHANGED activations
        /\ pending' \in {pending,
                         [pending EXCEPT ![calls["health"].ref] = NoReport]}
        BY ZenonT(30), <1>5 DEF Posted
  <2>4. PendingKept
        BY Zenon, <2>1 DEF PendingKept, SlaveInv, Shapes
  <2>2. IsDoing("health", Idle) /\ ~ Holds(Idle)
        BY SMTT(30) DEF IsDoing, Holds, Idle, BusyStages
  <2>3. calls' = [calls EXCEPT !["health"] = Idle]
        BY Zenon, <1>5 DEF Posted
  <2> QED BY ZenonT(30), <1>1, <1>2, <2>1, <2>2, <2>3, <2>4, CallMoves
<1> QED BY SMTT(30), <1>3, <1>4, <1>5

\* The plugin at work, and its end, change nothing of the Slave.
LEMMA PluginKeeps ==
  ASSUME SlaveInv,
         \/ \E t \in Servants : ProviderStep(t) \/ DockerFails(t)
         \/ \E op \in strays : StrayStep(op)
         \/ \E d \in Digests : ContainerChanges(d)
         \/ ProviderCrash
  PROVE  SlaveInv'
<1>1. UNCHANGED <<process, activations, replica, calls, pending>>
      BY ZenonT(30) DEF ProviderStep, DockerFails, StrayStep, ContainerChanges,
             ProviderCrash, books
<1>2. happened \subseteq happened'
      BY ZenonT(30), FaultGrows
      DEF ProviderStep, DockerFails, StrayStep, ContainerChanges, ProviderCrash
<1>3. PendingKept
      BY ZenonT(30), <1>1 DEF PendingKept, SlaveInv, Shapes
<1> QED BY SMTT(30), <1>1, <1>2, <1>3, CallsUnmoved

\* Around a restart nobody works and nothing is pending; what is served
\* afterwards is what the row says.
LEMMA RestartKeeps ==
  ASSUME SlaveInv,
         \A c \in Workers : calls'[c] = Idle,
         DOMAIN calls' = Clients,
         calls'["startup"] # Idle =>
           calls'["startup"].stage = "wait" /\ process' = "starting",
         DOMAIN pending' = Refs,
         \A r \in Refs : pending'[r] = NoReport,
         IsTable(activations'), IsRow(replica'),
         process' = "serving" => replica'.of = activations'
  PROVE  SlaveInv'
<1>1. \A c \in Workers : IsDoing(c, calls'[c]) /\ ~ Holds(calls'[c])
      BY DEF IsDoing, Holds, Idle, BusyStages
<1>2. Shapes'
      BY Zenon, <1>1 DEF Shapes
<1>3. NobodyWorks'
      BY ZenonT(30) DEF NobodyWorks
<1>4. LockedIsDesired' /\ LockedIsSaved'
      BY ZenonT(30), <1>1 DEF LockedIsDesired, LockedIsSaved
<1>5. RowFollows'
      BY ZenonT(30) DEF RowFollows, Serving
<1>6. PendingIsCurrent'
      BY Zenon DEF PendingIsCurrent
<1> QED BY ZenonT(30), <1>2, <1>3, <1>4, <1>5, <1>6 DEF SlaveInv

\* The Slave crashes.
LEMMA CrashKeeps ==
  ASSUME SlaveInv, Crash
  PROVE  SlaveInv'
<1>1. /\ activations' = NoActivations /\ UNCHANGED replica
      /\ pending' = [r \in Refs |-> NoReport]
      /\ calls' = [c \in Clients |-> Idle] /\ process' = "down"
      BY SMTT(30) DEF Crash
<1>2. IsTable(activations') /\ IsRow(replica')
      BY Zenon, <1>1 DEF SlaveInv, Shapes, IsTable, IsActivation, NoActivations,
                  NoActivation
<1> QED BY Zenon, <1>1, <1>2, ClientNames, RestartKeeps

\* The Slave starts.
LEMMA BootKeeps ==
  ASSUME SlaveInv, Boot
  PROVE  SlaveInv'
<1> DEFINE x == NewCall("start", Head(replica.order), "wait", "done", FALSE,
                        "none")
<1>1. /\ activations' = replica.of /\ UNCHANGED <<replica, pending>>
      /\ \/ process' = "serving" /\ UNCHANGED calls
         \/ /\ process' = "starting"
            /\ calls' = [calls EXCEPT !["startup"] = x]
      BY ZenonT(30) DEF Boot, books
<1>2. x.stage = "wait"
      BY ZenonT(30) DEF NewCall
<1> HIDE DEF x
<1>3. /\ \A c \in Workers : calls[c] = Idle
      /\ \A r \in Refs : pending[r] = NoReport
      /\ calls["startup"] = Idle
      BY Zenon DEF SlaveInv, NobodyWorks, Boot, Serving
<1>4. DOMAIN calls = Clients /\ DOMAIN pending = Refs /\ IsRow(replica)
      BY Zenon DEF SlaveInv, Shapes
<1>5. DOMAIN calls' = Clients /\ \A c \in Workers : calls'[c] = Idle
      BY Zenon, <1>1, <1>3, <1>4, ClientNames
<1>6. calls'["startup"] # Idle =>
        calls'["startup"].stage = "wait" /\ process' = "starting"
      BY Zenon, <1>1, <1>2, <1>3, <1>4, ClientNames
<1>7. IsTable(activations') /\ IsRow(replica')
      BY Zenon, <1>1, <1>4 DEF IsRow
<1> QED BY SMTT(30), <1>1, <1>3, <1>4, <1>5, <1>6, <1>7, RestartKeeps

\* The start-up ends: what the plugin found, or what is lost, is saved.
LEMMA StartUpEnds ==
  ASSUME SlaveInv, Reconciled \/ NotReconciled
  PROVE  SlaveInv'
<1>1. /\ calls' = [calls EXCEPT !["startup"] = Idle] /\ process' = "serving"
      /\ UNCHANGED pending /\ calls["startup"].stage = "wait"
      BY Zenon DEF Reconciled, NotReconciled, books
<1>2. ~ Serving
      BY <1>1 DEF SlaveInv, NobodyWorks, Serving, Idle
<1>3. /\ \A c \in Workers : calls[c] = Idle
      /\ \A r \in Refs : pending[r] = NoReport
      BY Zenon, <1>2 DEF SlaveInv, NobodyWorks
<1>4. DOMAIN calls = Clients /\ DOMAIN pending = Refs /\ IsRow(replica)
      BY Zenon DEF SlaveInv, Shapes
<1>5. /\ DOMAIN calls' = Clients /\ calls'["startup"] = Idle
      /\ \A c \in Workers : calls'[c] = Idle
      BY Zenon, <1>1, <1>3, <1>4, ClientNames
<1>6. \A r \in Refs : IsActivation(activations[r])
      BY Zenon DEF SlaveInv, Shapes, IsTable
<1>7. CASE Reconciled
  <2> DEFINE found == ops["startup"].found
             updated == [r \in Refs |->
               IF found[r] = "none" \/ activations[r] = NoActivation
               THEN activations[r]
               ELSE [activations[r] EXCEPT !.state = found[r]]]
  <2>1. /\ activations' = updated /\ replica' = [replica EXCEPT !.of = updated]
        BY Zenon, <1>7 DEF Reconciled
  <2>2. \A r \in Refs : IsActivation(updated[r])
        BY Zenon, <1>6 DEF IsActivation
  <2>3. updated = [r \in Refs |-> updated[r]]
        BY Zenon
  <2> HIDE DEF updated
  <2>4. IsTable(activations') /\ IsRow(replica') /\ replica'.of = activations'
        BY Zenon, <1>4, <2>1, <2>2, <2>3 DEF IsTable, IsRow
  <2> QED BY Zenon, <1>1, <1>3, <1>4, <1>5, <2>4, RestartKeeps
<1>8. CASE NotReconciled
  <2> DEFINE lost == [r \in Refs |->
               IF activations[r].desired = "running"
               THEN [activations[r] EXCEPT !.state = "lost"]
               ELSE activations[r]]
  <2>1. /\ activations' = lost /\ replica'.of = lost
        /\ DOMAIN replica' = {"order", "of"}
        BY Zenon, <1>8 DEF NotReconciled
  <2>2. \A r \in Refs : IsActivation(lost[r])
        BY Zenon, <1>6 DEF IsActivation
  <2>3. lost = [r \in Refs |-> lost[r]]
        BY Zenon
  <2> HIDE DEF lost
  <2>4. IsTable(activations') /\ IsRow(replica') /\ replica'.of = activations'
        BY Zenon, <2>1, <2>2, <2>3 DEF IsTable, IsRow
  <2> QED BY Zenon, <1>1, <1>3, <1>4, <1>5, <2>4, RestartKeeps
<1> QED BY SMTT(30), <1>7, <1>8

-----------------------------------------------------------------------------

\* A Slave with nothing deployed begins in the invariant.
LEMMA SlaveInvInit == Init => SlaveInv
<1> SUFFICES ASSUME Init PROVE SlaveInv
    BY Zenon
<1>1. \A c \in Clients : calls[c] = Idle
      BY SMTT(30) DEF Init
<1>2. \A c \in Workers : IsDoing(c, calls[c]) /\ ~ Holds(calls[c])
      BY <1>1, ClientNames DEF IsDoing, Holds, Idle, BusyStages
<1>3. IsTable(NoActivations)
      BY ZenonT(30) DEF IsTable, IsActivation, NoActivations, NoActivation
<1>4. Shapes
      BY ZenonT(30), <1>1, <1>2, <1>3, ClientNames
      DEF Shapes, Init, IsRow, EmptyRow
<1>5. NobodyWorks /\ PendingIsCurrent
      BY ZenonT(30), <1>1, ClientNames
      DEF NobodyWorks, PendingIsCurrent, Init, Serving
<1>6. LockedIsDesired /\ LockedIsSaved
      BY SMTT(30), <1>2 DEF LockedIsDesired, LockedIsSaved
<1>7. RowFollows
      BY ZenonT(30) DEF RowFollows, Init, EmptyRow
<1> QED BY Zenon, <1>4, <1>5, <1>6, <1>7 DEF SlaveInv

\* Every step of the Slave, its clients and its plugin keeps the invariant.
LEMMA SlaveInvStep == SlaveInv /\ [Next]_slaveVars => SlaveInv'
<1> SUFFICES ASSUME SlaveInv, [Next]_slaveVars PROVE SlaveInv'
    BY Zenon
<1>1. CASE Internal
  <2>1. ASSUME NEW c \in Clients, ReadRow(c) PROVE SlaveInv'
        BY Zenon, <2>1, ReadRowKeeps
  <2>2. ASSUME NEW c \in Clients, CommitRow(c) PROVE SlaveInv'
        BY Zenon, <2>2, CommitRowKeeps
  <2>3. ASSUME NEW c \in Clients, Ask(c) \/ Replayed(c) PROVE SlaveInv'
        BY Zenon, <2>3, AskKeeps
  <2>4. ASSUME NEW c \in Clients,
               \/ Answered(c) \/ ConnectionLost(c)
               \/ TimesOut(c) \/ ReplayTimesOut(c)
        PROVE  SlaveInv'
        BY Zenon, <2>4, AnswersKeep
  <2>5. ASSUME NEW h \in Handlers, Decide(h) PROVE SlaveInv'
        BY Zenon, <2>5, DecideKeeps
  <2>6. ASSUME NEW h \in Handlers,
               \/ Lookup(h) \/ Admit(h) \/ Store(h) \/ Insert(h)
               \/ AdmitFails(h) \/ StoreFails(h)
        PROVE  SlaveInv'
        BY Zenon, <2>6, DispatchKeeps
  <2>7. ASSUME NEW r \in Refs, HealthInspect(r) \/ Resend(r) PROVE SlaveInv'
        BY Zenon, <2>7, HealthKeeps
  <2>8. CASE \/ \E t \in Servants : ProviderStep(t) \/ DockerFails(t)
             \/ \E op \in strays : StrayStep(op)
             \/ \E d \in Digests : ContainerChanges(d)
             \/ ProviderCrash
        BY Zenon, <2>8, PluginKeeps
  <2>9. CASE Crash
        BY Zenon, <2>9, CrashKeeps
  <2>10. CASE Boot
         BY Zenon, <2>10, BootKeeps
  <2>11. CASE Reconciled \/ NotReconciled
         BY Zenon, <2>11, StartUpEnds
  <2> QED BY Zenon, <1>1, <2>1, <2>2, <2>3, <2>4, <2>5, <2>6, <2>7, <2>8, <2>9,
             <2>10, <2>11 DEF Internal
<1>2. ASSUME NEW h \in Handlers, NEW r \in Refs, NEW n \in 1 .. MaxRevision,
             NEW k \in Keys,
             Accept(h, IF n % 2 = 1 THEN "provision" ELSE "deprovision",
                    r, n, k)
      PROVE  SlaveInv'
      BY Zenon, <1>2, AcceptKeeps
<1>3. ASSUME NEW h \in Handlers,
             Leave(h) \/ \E a \in Attempts : Dispatch(h, a)
      PROVE  SlaveInv'
      BY Zenon, <1>3, DispatchBegins
<1>4. ASSUME NEW acknowledged, Posted(acknowledged) PROVE SlaveInv'
      BY Zenon, <1>4, HealthKeeps
<1>5. CASE UNCHANGED slaveVars
  <2>1. UNCHANGED <<process, activations, replica, calls, pending, happened>>
        BY SMTT(30), <1>5 DEF slaveVars, books
  <2>2. PendingKept
        BY Zenon, <2>1 DEF PendingKept, SlaveInv, Shapes
  <2> QED BY Zenon, <2>1, <2>2, CallsUnmoved
<1> QED BY Zenon, <1>1, <1>2, <1>3, <1>4, <1>5 DEF Next

\* The invariant says what the three properties say.
LEMMA SlaveInvMeans ==
  ASSUME SlaveInv
  PROVE  DesiredIsSavedFirst /\ RowIsCurrent /\ PendingIsCurrent
<1>1. DesiredIsSavedFirst
  <2> SUFFICES ASSUME NEW h \in Handlers,
                      calls[h].kind \in {"provision", "deprovision"},
                      calls[h].stage \in {"ask", "replay", "wait"},
                      ~ Happened({"raced"})
               PROVE  LET saved == Saved(calls[h].ref)
                          current == activations[calls[h].ref]
                      IN  /\ saved.desired = DesiredBy(calls[h].kind)
                          /\ saved.revision = current.revision
                          /\ saved.key = current.key
      BY SMTT(30) DEF DesiredIsSavedFirst
  <2>1. /\ h \in Workers \ {"health"} /\ Holds(calls[h])
        /\ calls[h].stage \in Informed
        BY SMTT(30), ClientNames DEF Holds, BusyStages, Informed
  <2>2. activations[calls[h].ref].desired = Towards(calls[h].kind)
        BY ZenonT(30), <2>1 DEF SlaveInv, LockedIsDesired
  <2>3. Agrees(replica.of[calls[h].ref], activations[calls[h].ref])
        BY SMTT(30), <2>1 DEF SlaveInv, LockedIsSaved
  <2> QED BY ZenonT(30), <2>2, <2>3 DEF Agrees, Saved, Towards, DesiredBy
<1>2. RowIsCurrent
  <2>1. \A c \in Workers : calls[c].stage \in {"read", "commit"} =>
          c \in Clients /\ Busy(c)
        BY Zenon, ClientNames DEF Busy
  <2> QED BY ZenonT(30), <2>1 DEF SlaveInv, RowFollows, RowIsCurrent, Saved
<1> QED BY ZenonT(30), <1>1, <1>2 DEF SlaveInv

\* The invariant holds in every state of the Slave.
LEMMA SlaveInvAlways == Spec => []SlaveInv
  BY SlaveInvInit, SlaveInvStep, PTL DEF Spec

\* While the plugin works for a provision or deprovision, the row holds the
\* desired state, revision and key of that call, for any number of coordinates
\* and requests, whatever fails.
THEOREM SavedBeforeAsked == Spec => []DesiredIsSavedFirst
<1>1. SlaveInv => DesiredIsSavedFirst
      BY Zenon, SlaveInvMeans
<1> QED BY <1>1, SlaveInvAlways, PTL

\* While the Slave serves, the row of a coordinate says what its memory says,
\* unless someone is about to save it.
THEOREM RowFollowsMemory == Spec => []RowIsCurrent
<1>1. SlaveInv => RowIsCurrent
      BY Zenon, SlaveInvMeans
<1> QED BY <1>1, SlaveInvAlways, PTL

\* A pending health report is of the current revision of an activation that
\* should run.
THEOREM ReportsAreCurrent == Spec => []PendingIsCurrent
<1>1. SlaveInv => PendingIsCurrent
      BY Zenon, SlaveInvMeans
<1> QED BY <1>1, SlaveInvAlways, PTL

-----------------------------------------------------------------------------
\* The results of attempts

\* A dispatched attempt that is not yet answered, or that has just been.
Runs(x) == x.stage \in BusyStages \cup {"done"} /\ x.kind = "invoke"

\* The stages of an execution before and after its result is in memory.
Unkept == {"admit", "ask", "replay", "wait", "store"}

Underway(x) == Runs(x) /\ x.stage \in Unkept \cup {"insert"}

\* An invoke for attempt a in the plugin; only an execution gives a result.
IsInvoke(op, a) ==
  /\ DOMAIN op = {"kind", "doing", "ref", "attempt", "stage", "list", "found",
                  "answer", "value"}
  /\ op.kind = "invoke" /\ op.doing = "invoke" /\ op.attempt = a
  /\ op.stage \in {"look", "work", "answered"}
  /\ op.stage = "answered" => op.answer = "error" \/ op.value # 0

IsKept(attempt) ==
  DOMAIN attempt = {"memory", "row", "works"} /\ attempt.works \in Nat

RunShapes ==
  /\ DOMAIN attempts = Attempts
  /\ \A a \in Attempts : IsKept(attempts[a])
  /\ DOMAIN ops = Servants
  /\ \A h \in Handlers :
       Runs(calls[h]) =>
         /\ calls[h].attempt \in Attempts
         /\ calls[h].stage = "wait" =>
              ops[h] = NoOp \/ IsInvoke(ops[h], calls[h].attempt)
         /\ calls[h].stage = "store" => calls[h].value # 0

\* Before its result is in memory, nothing is kept of an attempt.
NothingKept ==
  \A h \in Handlers :
    Runs(calls[h]) /\ calls[h].stage \in Unkept =>
      /\ attempts[calls[h].attempt].memory = 0
      /\ attempts[calls[h].attempt].row = 0

\* Then it is in memory, and its row is to be inserted.
InMemory ==
  \A h \in Handlers :
    Runs(calls[h]) /\ calls[h].stage = "insert" =>
      /\ calls[h].value # 0
      /\ attempts[calls[h].attempt].memory = calls[h].value
      /\ attempts[calls[h].attempt].row = 0

OneExecutes ==
  \A g, h \in Handlers :
    Underway(calls[g]) /\ Underway(calls[h]) /\ g # h =>
      calls[g].attempt # calls[h].attempt

\* A result that is only in memory is about to be inserted.
RowComes ==
  \A a \in Attempts :
    \/ attempts[a].memory \in {0, attempts[a].row}
    \/ \E h \in Handlers : /\ Runs(calls[h]) /\ calls[h].stage = "insert"
                            /\ calls[h].attempt = a

AnswersAgree ==
  \A h \in Handlers :
    /\ Runs(calls[h]) /\ calls[h].stage = "done"
    /\ calls[h].answer = "value"
    => /\ calls[h].value # 0
       /\ attempts[calls[h].attempt].memory = calls[h].value
       /\ attempts[calls[h].attempt].row \in {0, calls[h].value}

RunsAgree ==
  NothingKept /\ InMemory /\ OneExecutes /\ RowComes /\ AnswersAgree

AttemptInv ==
  /\ RunShapes
  /\ ~ Happened({"overlap"}) => RunsAgree

-----------------------------------------------------------------------------

\* The history of overlaps never forgets.
LEMMA StillAlone ==
  ASSUME happened \subseteq happened', ~ Happened({"overlap"})'
  PROVE  ~ Happened({"overlap"})
  BY Zenon DEF Happened

\* What is kept of the attempts is the same after a step.
AttemptsKept ==
  /\ DOMAIN attempts' = Attempts
  /\ \A a \in Attempts : /\ IsKept(attempts'[a])
                          /\ attempts'[a].memory = attempts[a].memory
                          /\ attempts'[a].row = attempts[a].row

\* A handler's run goes on in a way that needs nothing of what is kept.
RunGoesOn(h) ==
  /\ Runs(calls'[h]) =>
       /\ Runs(calls[h]) /\ calls'[h].attempt = calls[h].attempt
       /\ \/ calls'[h] = calls[h]
          \/ calls'[h].stage = "done" /\ calls'[h].answer # "value"
          \/ calls'[h].stage \in Unkept /\ calls[h].stage \in Unkept
       /\ calls'[h].stage = "wait" =>
            ops'[h] = NoOp \/ IsInvoke(ops'[h], calls[h].attempt)
       /\ calls'[h].stage = "store" => calls'[h].value # 0
  /\ Runs(calls[h]) /\ calls[h].stage = "insert" => calls'[h] = calls[h]

\* A step in which every run goes on keeps the invariant.
LEMMA AllGoOn ==
  ASSUME AttemptInv, AttemptsKept, happened \subseteq happened',
         DOMAIN ops' = Servants, \A h \in Handlers : RunGoesOn(h)
  PROVE  AttemptInv'
<1>1. RunShapes'
      BY ZenonT(30) DEF AttemptInv, RunShapes, AttemptsKept, RunGoesOn
<1>2. ASSUME ~ Happened({"overlap"})'
      PROVE  RunsAgree'
  <2>1. RunsAgree
        BY Zenon, <1>2, StillAlone DEF AttemptInv
  <2>2. \A h \in Handlers : Runs(calls[h]) => calls[h].attempt \in Attempts
        BY Zenon DEF AttemptInv, RunShapes
  <2>3. NothingKept'
        BY SMTT(20), <2>1, <2>2
        DEF RunsAgree, NothingKept, AttemptsKept, RunGoesOn, Unkept
  <2>4. InMemory'
        BY SMTT(20), <2>1, <2>2 DEF RunsAgree, InMemory, AttemptsKept,
           RunGoesOn, Unkept
  <2>5. OneExecutes'
        BY SMTT(20), <2>1 DEF RunsAgree, OneExecutes, Underway, RunGoesOn, Unkept
  <2>6. RowComes'
        BY SMTT(20), <2>1 DEF RunsAgree, RowComes, AttemptsKept, RunGoesOn
  <2>7. AnswersAgree'
        BY SMTT(20), <2>1, <2>2 DEF RunsAgree, AnswersAgree, AttemptsKept,
           RunGoesOn,
                          Unkept
  <2> QED BY Zenon, <2>3, <2>4, <2>5, <2>6, <2>7 DEF RunsAgree
<1> QED BY Zenon, <1>1, <1>2 DEF AttemptInv

\* The attempts are not touched.
LEMMA AttemptsUntouched ==
  ASSUME AttemptInv, UNCHANGED attempts
  PROVE  AttemptsKept
  BY Zenon DEF AttemptInv, RunShapes, AttemptsKept

\* A step that moves the call of c and leaves the operations of the others
\* alone, or drops them.
LEMMA OneGoesOn ==
  ASSUME SlaveInv, AttemptInv, UNCHANGED attempts,
         happened \subseteq happened',
         NEW c \in Clients, NEW x, calls' = [calls EXCEPT ![c] = x],
         DOMAIN ops' = Servants,
         \A h \in Handlers \ {c} : ops'[h] \in {ops[h], NoOp},
         c \in Handlers =>
           /\ ~ (Runs(calls[c]) /\ calls[c].stage = "insert")
           /\ Runs(x) =>
                /\ Runs(calls[c]) /\ x.attempt = calls[c].attempt
                /\ \/ x.stage = "done" /\ x.answer # "value"
                   \/ x.stage \in Unkept /\ calls[c].stage \in Unkept
                /\ x.stage = "wait" =>
                     ops'[c] = NoOp \/ IsInvoke(ops'[c], x.attempt)
                /\ x.stage = "store" => x.value # 0
  PROVE  AttemptInv'
<1>1. \A h \in Handlers : calls'[h] = IF h = c THEN x ELSE calls[h]
      BY Zenon, ClientNames DEF SlaveInv, Shapes
<1>2. \A h \in Handlers : RunGoesOn(h)
  <2> TAKE h \in Handlers
  <2>1. CASE h = c
        BY Zenon, <1>1, <2>1 DEF RunGoesOn
  <2>2. CASE h # c
        BY Zenon, <1>1, <2>2 DEF RunGoesOn, AttemptInv, RunShapes
  <2> QED BY Zenon, <2>1, <2>2
<1> QED BY Zenon, <1>2, AttemptsUntouched, AllGoOn

\* A call that is no dispatch, before and after.
LEMMA NoRunMoves ==
  ASSUME SlaveInv, AttemptInv, UNCHANGED attempts,
         happened \subseteq happened',
         NEW c \in Clients, NEW x, calls' = [calls EXCEPT ![c] = x],
         DOMAIN ops' = Servants,
         \A h \in Handlers \ {c} : ops'[h] \in {ops[h], NoOp},
         c \in Handlers => ~ Runs(calls[c]) /\ ~ Runs(x)
  PROVE  AttemptInv'
  BY Zenon, OneGoesOn

\* A handler's call, what it may be.
LEMMA HandlerCall ==
  ASSUME SlaveInv, NEW h \in Handlers
  PROVE  /\ h \in Workers /\ h \in Clients /\ h \in Servants /\ h # "health"
         /\ h # "startup" /\ h # "replay"
         /\ calls[h] = Idle \/ IsCall(h, calls[h])
<1>1. /\ h \in Workers /\ h \in Clients /\ h \in Servants /\ h # "health"
      /\ h # "startup" /\ h # "replay"
      BY Zenon, ClientNames, SlaveConstantsAreSound DEF Servants
<1> QED BY Zenon, <1>1 DEF SlaveInv, Shapes, IsDoing

\* The row is read and committed for lifecycle calls only.
LEMMA SavesAgree ==
  ASSUME SlaveInv, AttemptInv, NEW c \in Clients, ReadRow(c) \/ CommitRow(c)
  PROVE  AttemptInv'
<1>1. /\ UNCHANGED <<attempts, ops>> /\ happened \subseteq happened'
      /\ calls[c].stage \in {"read", "commit"}
      BY Zenon DEF ReadRow, CommitRow, plugin, NoFault
<1>2. PICK x :
        /\ calls' = [calls EXCEPT ![c] = x]
        /\ \/ x = [calls[c] EXCEPT !.stage = "commit", !.snapshot = replica]
           \/ c = "health"
           \/ x = [calls[c] EXCEPT !.stage = calls[c].next,
                                   !.snapshot = EmptyRow]
      BY ZenonT(30) DEF ReadRow, CommitRow
<1>3. c \in Handlers => ~ Runs(calls[c]) /\ ~ Runs(x)
  <2> SUFFICES ASSUME c \in Handlers PROVE ~ Runs(calls[c]) /\ ~ Runs(x)
      BY Zenon
  <2>1. c # "health" /\ IsCall(c, calls[c])
        BY SMTT(20), <1>1, HandlerCall DEF Idle
  <2> QED BY Zenon, <1>1, <1>2, <2>1 DEF Runs, IsCall
<1>4. DOMAIN ops' = Servants
      BY Zenon, <1>1 DEF AttemptInv, RunShapes
<1> QED BY Zenon, <1>1, <1>2, <1>3, <1>4, NoRunMoves

\* An attempt asks the plugin.
LEMMA AsksAgree ==
  ASSUME SlaveInv, AttemptInv, NEW c \in Clients, Ask(c) \/ Replayed(c)
  PROVE  AttemptInv'
<1>1. /\ UNCHANGED attempts /\ happened \subseteq happened'
      /\ calls[c].stage \in {"ask", "replay"}
      BY Zenon DEF Ask, Replayed, NoFault
<1>2. PICK stage \in {"wait", "replay"} :
        /\ calls' = [calls EXCEPT ![c].stage = stage]
        /\ stage = "wait" => \/ ops' = [ops EXCEPT ![c] = Wanted(c)]
                             \/ ops' = [ops EXCEPT !["replay"] = NoOp,
                                                   ![c] = Wanted(c)]
        /\ stage = "replay" => \E op : ops' = [ops EXCEPT !["replay"] = op]
      BY Zenon DEF Ask, Replayed
<1> DEFINE x == [calls[c] EXCEPT !.stage = stage]
<1>3. /\ DOMAIN ops' = Servants
      /\ \A h \in Handlers \ {c} : ops'[h] \in {ops[h], NoOp}
      BY Zenon, <1>2, HandlerCall DEF AttemptInv, RunShapes
<1>4. ASSUME c \in Handlers, Runs(x)
      PROVE  /\ Runs(calls[c]) /\ x.attempt = calls[c].attempt
             /\ x.stage \in Unkept \ {"store"} /\ calls[c].stage \in Unkept
             /\ x.stage = "wait" => IsInvoke(ops'[c], x.attempt)
  <2>1. IsCall(c, calls[c]) /\ c \in Servants /\ c # "replay"
        BY <1>1, <1>4, HandlerCall DEF Idle
  <2>2. /\ x.stage = stage /\ x.kind = calls[c].kind
        /\ x.attempt = calls[c].attempt
        BY Zenon, <2>1 DEF IsCall
  <2>3. Runs(calls[c]) /\ calls[c].kind = "invoke"
        BY Zenon, <1>1, <1>4, <2>2 DEF Runs, BusyStages
  <2>4. stage = "wait" => ops'[c] = Wanted(c)
        BY Zenon, <1>2, <2>1 DEF AttemptInv, RunShapes
  <2>5. IsInvoke(Wanted(c), x.attempt)
        BY Zenon, <2>2, <2>3 DEF Wanted, NewOp, IsInvoke
  <2> QED BY Zenon, <1>1, <1>2, <2>2, <2>3, <2>4, <2>5 DEF Unkept
<1>5. calls' = [calls EXCEPT ![c] = x]
      BY Zenon, <1>2
<1> HIDE DEF x
<1>6. x.stage = "store" => ~ (c \in Handlers /\ Runs(x))
      BY Zenon, <1>4
<1> QED BY Zenon, <1>1, <1>3, <1>4, <1>5, <1>6, OneGoesOn

\* What a client does with an answer, or with none.
LEMMA HandledAgree ==
  ASSUME SlaveInv, AttemptInv, NEW c \in Workers, NEW result, NEW value,
         calls[c].stage \in {"wait", "replay"},
         Handle(c, result, value),
         c \in Handlers /\ Runs(calls[c]) => result = "error" \/ value # 0,
         UNCHANGED attempts, happened \subseteq happened',
         DOMAIN ops' = Servants,
         \A h \in Handlers \ {c} : ops'[h] \in {ops[h], NoOp}
  PROVE  AttemptInv'
<1> DEFINE y == calls[c]
<1>1. c \in Clients /\ IsCall(c, y)
      BY Zenon, BusyIsCall, ClientNames DEF BusyStages
<1>2. CASE y.kind \in {"provision", "deprovision"}
  <2>1. PICK answer \in {result, "error", "stopped"} :
          calls' = [calls EXCEPT ![c].stage = "read", ![c].next = "done",
                                 ![c].answer = answer]
        BY Zenon, <1>2 DEF Handle, Settle, Fail
  <2> DEFINE x == [y EXCEPT !.stage = "read", !.next = "done",
                            !.answer = answer]
  <2>2. ~ Runs(y) /\ ~ Runs(x)
        BY Zenon, <1>1, <1>2 DEF Runs, IsCall
  <2>3. calls' = [calls EXCEPT ![c] = x]
        BY Zenon, <2>1
  <2> HIDE DEF x
  <2> QED BY Zenon, <1>1, <2>2, <2>3, NoRunMoves
<1>3. ASSUME y.kind = "inspect", NEW state, Inspected(y.ref, state)
      PROVE  AttemptInv'
  <2>1. c = "health" /\ c \notin Handlers
        BY Zenon, <1>1, <1>3, ClientNames DEF IsCall, KindsOf
  <2>2. PICK x : calls' = [calls EXCEPT ![c] = x]
        BY Zenon, <1>3, <2>1 DEF Inspected
  <2> QED BY Zenon, <1>1, <2>1, <2>2, NoRunMoves
<1>4. ASSUME y.kind = "invoke", NEW x,
             calls' = [calls EXCEPT ![c] = x],
             \/ x = Done(y, "error", 0)
             \/ result # "error" /\ x = [y EXCEPT !.stage = "store",
                                                  !.value = value]
      PROVE  AttemptInv'
  <2>1. Runs(y) /\ y.stage \in Unkept /\ y.stage # "insert"
        BY Zenon, <1>4 DEF Runs, BusyStages, Unkept
  <2>2. x = Done(y, "error", 0) =>
          /\ x.attempt = y.attempt
          /\ x.stage = "done" /\ x.answer = "error"
        BY Zenon, <1>1 DEF IsCall, Done
  <2>3. x = [y EXCEPT !.stage = "store", !.value = value] =>
          /\ x.attempt = y.attempt
          /\ x.stage = "store" /\ x.value = value
        BY Zenon, <1>1 DEF IsCall
  <2>4. /\ x.attempt = y.attempt
        /\ \/ x.stage = "done" /\ x.answer = "error"
           \/ x.stage = "store" /\ x.value = value /\ result # "error"
        BY Zenon, <1>4, <2>2, <2>3
  <2> QED BY Zenon, <1>1, <1>4, <2>1, <2>4, OneGoesOn DEF Unkept
<1>5. CASE y.kind = "inspect"
      BY Zenon, <1>3, <1>5 DEF Handle
<1>6. CASE y.kind = "invoke"
  <2>1. calls' = [calls EXCEPT ![c] =
          IF result = "error" THEN Done(y, "error", 0)
          ELSE [y EXCEPT !.stage = "store", !.value = value]]
        BY Zenon, <1>6 DEF Handle
  <2>2. CASE result = "error"
        BY Zenon, <1>4, <1>6, <2>1, <2>2
  <2>3. CASE result # "error"
        BY ZenonT(30), <1>4, <1>6, <2>1, <2>3
  <2> QED BY Zenon, <2>2, <2>3
<1> QED BY Zenon, <1>2, <1>5, <1>6 DEF Handle

\* The plugin answers, its connection is lost or the request times out.
LEMMA AnsweredAgree ==
  ASSUME SlaveInv, AttemptInv, NEW c \in Clients,
         Answered(c) \/ ConnectionLost(c) \/ TimesOut(c) \/ ReplayTimesOut(c)
  PROVE  AttemptInv'
<1>1. calls[c].stage \in {"wait", "replay"}
      BY Zenon DEF Answered, ConnectionLost, TimesOut, ReplayTimesOut
<1>2. calls[c].stage = "wait" => c # "startup"
      BY Zenon DEF Answered, ConnectionLost, TimesOut, ReplayTimesOut
<1>3. c \in Workers
      BY Zenon, <1>1, <1>2, AtWork DEF BusyStages
<1>4. UNCHANGED attempts /\ happened \subseteq happened'
      BY Zenon, FaultGrows DEF Answered, ConnectionLost, TimesOut, ReplayTimesOut
<1>5. /\ DOMAIN ops' = Servants
      /\ \A h \in Handlers \ {c} : ops'[h] \in {ops[h], NoOp}
      BY Zenon, HandlerCall
      DEF Answered, ConnectionLost, TimesOut, ReplayTimesOut, AttemptInv,
          RunShapes, NoOps, plugin
<1>6. PICK result, value :
        /\ Handle(c, result, value)
        /\ \/ result = "error"
           \/ /\ result = ops[c].answer /\ value = ops[c].value
              /\ calls[c].stage = "wait" /\ ops[c].stage = "answered"
      BY Zenon DEF Answered, ConnectionLost, TimesOut, ReplayTimesOut
<1>7. c \in Handlers /\ Runs(calls[c]) => result = "error" \/ value # 0
  <2> SUFFICES ASSUME c \in Handlers, Runs(calls[c]), result # "error"
               PROVE  value # 0
      BY Zenon
  <2>1. ops[c] # NoOp
        BY SMTT(20), <1>6 DEF NoOp
  <2>2. IsInvoke(ops[c], calls[c].attempt)
        BY Zenon, <1>6, <2>1 DEF AttemptInv, RunShapes
  <2> QED BY Zenon, <1>6, <2>2 DEF IsInvoke
<1> QED BY SMTT(20), <1>1, <1>3, <1>4, <1>5, <1>6, <1>7, HandledAgree

\* Calls that are no dispatch begin and go on.
LEMMA LifecycleAgrees ==
  ASSUME SlaveInv, AttemptInv, NEW h \in Handlers,
         \/ Decide(h)
         \/ \E kind \in {"provision", "deprovision"}, r \in Refs :
              \E n, k : Accept(h, kind, r, n, k)
  PROVE  AttemptInv'
<1>1. UNCHANGED <<attempts, ops>> /\ happened \subseteq happened'
  <2>1. CASE Decide(h)
        BY ZenonT(30), <2>1 DEF Decide, plugin, NoFault
  <2>2. ASSUME NEW kind \in {"provision", "deprovision"}, NEW r \in Refs,
               NEW n, NEW k, Accept(h, kind, r, n, k)
        PROVE  UNCHANGED <<attempts, ops>> /\ happened \subseteq happened'
        BY ZenonT(30), <2>2 DEF Accept, plugin
  <2> QED BY ZenonT(30), <2>1, <2>2
<1>2. DOMAIN ops' = Servants /\ h \in Clients
      BY ZenonT(30), <1>1, HandlerCall DEF AttemptInv, RunShapes
<1>3. ASSUME NEW x, calls' = [calls EXCEPT ![h] = x],
             ~ Runs(calls[h]), ~ Runs(x)
      PROVE  AttemptInv'
      BY Zenon, <1>1, <1>2, <1>3, NoRunMoves
<1>4. CASE Decide(h)
  <2>1. /\ IsCall(h, calls[h]) /\ calls[h].kind # "invoke"
        BY <1>4, HandlerCall DEF Decide, Idle, IsCall
  <2>2. PICK x :
          /\ calls' = [calls EXCEPT ![h] = x]
          /\ \/ x = [calls[h] EXCEPT !.stage = "done", !.answer = "stopped"]
             \/ x = [calls[h] EXCEPT !.stage = "read", !.next = "done",
                                     !.answer = "stopped"]
             \/ x = [calls[h] EXCEPT !.stage = "ask"]
        BY ZenonT(30), <1>4 DEF Decide, Settle
  <2>3. ~ Runs(calls[h]) /\ ~ Runs(x)
        BY Zenon, <2>1, <2>2 DEF Runs, IsCall
  <2> QED BY ZenonT(30), <1>3, <2>2, <2>3
<1>5. ASSUME NEW kind \in {"provision", "deprovision"}, NEW r \in Refs,
             NEW n, NEW k, Accept(h, kind, r, n, k)
      PROVE  AttemptInv'
  <2>1. ASSUME NEW stage, NEW next, NEW retry, NEW answer,
               calls' = [calls EXCEPT
                           ![h] = NewCall(kind, r, stage, next, retry, answer)]
        PROVE  AttemptInv'
    <3> DEFINE x == NewCall(kind, r, stage, next, retry, answer)
    <3>1. ~ Runs(calls[h]) /\ ~ Runs(x)
      <4>1. calls[h] = Idle /\ x.kind = kind
            BY Zenon, <1>5 DEF Accept, NewCall
      <4>2. Idle.stage \notin BusyStages \cup {"done"}
            BY Zenon DEF Idle, BusyStages
      <4>3. kind # "invoke"
            BY Zenon
      <4> QED BY Zenon, <4>1, <4>2, <4>3 DEF Runs
    <3> HIDE DEF x
    <3>2. calls' = [calls EXCEPT ![h] = x]
          BY Zenon, <2>1 DEF x
    <3> QED BY Zenon, <1>3, <3>1, <3>2
  <2>2. CASE calls' =
          [calls EXCEPT ![h] = NewCall(kind, r, "done", "done", FALSE, "error")]
        BY Zenon, <2>1, <2>2
  <2>3. CASE calls' =
          [calls EXCEPT ![h] = NewCall(kind, r, "done", "done", TRUE, "ready")]
        BY Zenon, <2>1, <2>3
  <2>4. CASE \E next, retry : calls' = [calls EXCEPT
                ![h] = NewCall(kind, r, "read", next, retry, "none")]
        BY Zenon, <2>1, <2>4
  <2> QED BY Zenon, <1>5, <2>2, <2>3, <2>4 DEF Accept
<1> QED BY Zenon, <1>4, <1>5

\* The health loop is no dispatch.
LEMMA HealthAgrees ==
  ASSUME SlaveInv, AttemptInv,
         \/ \E r \in Refs : HealthInspect(r) \/ Resend(r)
         \/ \E acknowledged : Posted(acknowledged)
  PROVE  AttemptInv'
<1>1. UNCHANGED <<attempts, ops>> /\ happened \subseteq happened'
      BY Zenon DEF HealthInspect, Resend, Posted, plugin, NoFault
<1>2. calls' = calls \/ \E x : calls' = [calls EXCEPT !["health"] = x]
      BY Zenon DEF HealthInspect, Inspected, Resend, Posted
<1>3. \A h \in Handlers : calls'[h] = calls[h]
      BY Zenon, <1>2, ClientNames DEF SlaveInv, Shapes
<1>4. DOMAIN ops' = Servants /\ \A h \in Handlers : RunGoesOn(h)
      BY Zenon, <1>1, <1>3 DEF AttemptInv, RunShapes, RunGoesOn
<1> QED BY Zenon, <1>1, <1>4, AttemptsUntouched, AllGoOn

\* A step of an invoke: it is looked up, or it is executed and counted.
LEMMA InvokeSteps ==
  ASSUME AttemptInv, NEW op, NEW a \in Attempts, IsInvoke(op, a), Live(op),
         NEW container
  PROVE  /\ IsInvoke(Stepped(op, container).op, a)
         /\ DockerCommand(op) =>
              \A step \in OpFailures(op, container) : IsInvoke(step.op, a)
<1>1. op.stage \in {"look", "work"} /\ op.kind # "reconcile"
      BY Zenon DEF IsInvoke, Live
<1>2. IsInvoke(Conclude(op, "error"), a)
      BY Zenon, <1>1 DEF IsInvoke, Conclude
<1>3. \A c : IsInvoke(Look(op, c), a)
      BY Zenon, <1>1, <1>2 DEF IsInvoke, Look
<1>4. CASE op.stage = "look"
  <2>1. Stepped(op, container).op = Look(op, container)
        BY Zenon, <1>4 DEF Stepped, OpStep, Works
  <2>2. \A step \in OpFailures(op, container) :
          step.op \in {Conclude(op, "error"), Look(op, "absent")}
        BY SMTT(20), <1>4 DEF OpFailures
  <2> QED BY Zenon, <1>2, <1>3, <2>1, <2>2
<1>5. CASE op.stage = "work" /\ container # "running"
  <2>1. Stepped(op, container).op = Conclude(op, "error")
        BY Zenon, <1>5 DEF Stepped, OpStep, Works
  <2> QED BY Zenon, <1>2, <1>5, <2>1 DEF DockerCommand
<1>6. CASE op.stage = "work" /\ container = "running"
  <2>1. Stepped(op, container).op =
          [Conclude(op, "value") EXCEPT !.value = attempts[a].works + 1]
        BY Zenon, <1>6 DEF Stepped, OpStep, Works, IsInvoke
  <2>2. attempts[a].works + 1 # 0
        BY DEF AttemptInv, RunShapes, IsKept
  <2>3. IsInvoke(Stepped(op, container).op, a)
        BY Zenon, <1>1, <2>1, <2>2 DEF IsInvoke, Conclude
  <2> QED BY Zenon, <1>6, <2>3 DEF DockerCommand
<1> QED BY Zenon, <1>1, <1>4, <1>5, <1>6

\* Where no operation is, none is in progress.
LEMMA NoOpIsNotLive == ~ Live(NoOp)
BY Zenon DEF Live, NoOp

\* Counting an execution changes nothing of what is kept.
LEMMA WorkedKeeps ==
  ASSUME AttemptInv, NEW op, NEW container, attempts' = Worked(op, container)
  PROVE  AttemptsKept
<1>1. \A a \in Attempts : IsKept(attempts[a])
      BY Zenon DEF AttemptInv, RunShapes
<1> QED BY SMTT(20), <1>1 DEF Worked, AttemptsKept, IsKept, AttemptInv, RunShapes

\* The plugin at work.
LEMMA PluginAgrees ==
  ASSUME SlaveInv, AttemptInv,
         \/ \E t \in Servants : ProviderStep(t) \/ DockerFails(t)
         \/ \E op \in strays : StrayStep(op)
         \/ \E d \in Digests : ContainerChanges(d)
         \/ ProviderCrash
  PROVE  AttemptInv'
<1>1. UNCHANGED calls
      BY ZenonT(30) DEF ProviderStep, DockerFails, StrayStep, ContainerChanges,
             ProviderCrash
<1>2. happened \subseteq happened'
      BY ZenonT(30), FaultGrows
      DEF ProviderStep, DockerFails, StrayStep, ContainerChanges, ProviderCrash
<1>3. ASSUME AttemptsKept, DOMAIN ops' = Servants,
             \A h \in Handlers :
               \/ ops'[h] \in {ops[h], NoOp}
               \/ \A a \in Attempts :
                    IsInvoke(ops[h], a) => IsInvoke(ops'[h], a),
             \A h \in Handlers : ops[h] = NoOp => ops'[h] = NoOp
      PROVE  AttemptInv'
  <2>1. \A h \in Handlers : RunGoesOn(h)
        BY ZenonT(30), <1>1, <1>3 DEF RunGoesOn, AttemptInv, RunShapes
  <2> QED BY ZenonT(30), <1>2, <1>3, <2>1, AllGoOn
<1>4. DOMAIN ops = Servants /\ Handlers \subseteq Servants
      BY Zenon, HandlerCall DEF AttemptInv, RunShapes
<1>5. ASSUME NEW t \in Servants, NEW op, ops' = [ops EXCEPT ![t] = op],
             Live(ops[t]), AttemptsKept,
             \A a \in Attempts : IsInvoke(ops[t], a) => IsInvoke(op, a)
      PROVE  AttemptInv'
  <2>1. \A h \in Handlers : ops'[h] = IF h = t THEN op ELSE ops[h]
        BY Zenon, <1>4, <1>5
  <2>2. ops[t] # NoOp
        BY Zenon, <1>5, NoOpIsNotLive
  <2> QED BY Zenon, <1>3, <1>4, <1>5, <2>1, <2>2
<1>6. ASSUME NEW t \in Servants, ProviderStep(t)
      PROVE  AttemptInv'
  <2> DEFINE container == containers[Digest[ops[t].ref]]
             op == Stepped(ops[t], container).op
  <2>1. /\ Live(ops[t]) /\ ops' = [ops EXCEPT ![t] = op]
        /\ attempts' = Worked(ops[t], container)
        BY ZenonT(30), <1>6 DEF ProviderStep
  <2>2. \A a \in Attempts : IsInvoke(ops[t], a) => IsInvoke(op, a)
        BY ZenonT(30), <2>1, InvokeSteps
  <2> HIDE DEF op, container
  <2>3. AttemptsKept
        BY ZenonT(30), <2>1, WorkedKeeps
  <2> QED BY ZenonT(30), <1>5, <2>1, <2>2, <2>3
<1>7. ASSUME NEW t \in Servants, DockerFails(t)
      PROVE  AttemptInv'
  <2> DEFINE container == containers[Digest[ops[t].ref]]
  <2>1. PICK step \in OpFailures(ops[t], container) :
          ops' = [ops EXCEPT ![t] = step.op]
        BY ZenonT(30), <1>7 DEF DockerFails
  <2>2. Live(ops[t]) /\ DockerCommand(ops[t]) /\ UNCHANGED attempts
        BY ZenonT(30), <1>7 DEF DockerFails
  <2> HIDE DEF container
  <2>3. \A a \in Attempts : IsInvoke(ops[t], a) => IsInvoke(step.op, a)
        BY Zenon, <2>1, <2>2, InvokeSteps
  <2> QED BY Zenon, <1>5, <2>1, <2>2, <2>3, AttemptsUntouched
<1>8. ASSUME NEW op \in strays, StrayStep(op)
      PROVE  AttemptInv'
  <2>1. attempts' = Worked(op, containers[Digest[op.ref]]) /\ UNCHANGED ops
        BY Zenon, <1>8 DEF StrayStep
  <2> QED BY ZenonT(30), <1>3, <1>4, <2>1, WorkedKeeps
<1>9. CASE (\E d \in Digests : ContainerChanges(d)) \/ ProviderCrash
  <2>1. UNCHANGED attempts /\ (UNCHANGED ops \/ ops' = NoOps)
        BY ZenonT(30), <1>9 DEF ContainerChanges, ProviderCrash, plugin
  <2> QED BY Zenon, <1>3, <1>4, <2>1, AttemptsUntouched DEF NoOps
<1> QED BY ZenonT(30), <1>6, <1>7, <1>8, <1>9

-----------------------------------------------------------------------------

\* The own steps of a dispatched attempt: h moves to x, the result of attempt a
\* may be kept, and the others' runs stay.  What is claimed of a step:
RunStep(h, x, a) ==
  /\ calls' = [calls EXCEPT ![h] = x]
  /\ UNCHANGED ops
  /\ DOMAIN attempts' = Attempts
  /\ \A b \in Attempts : IsKept(attempts'[b])
  /\ \A b \in Attempts \ {a} : attempts'[b] = attempts[b]
  /\ happened \subseteq happened'

\* The shapes after such a step.
LEMMA RunStepShapes ==
  ASSUME SlaveInv, AttemptInv, NEW h \in Handlers, NEW x, NEW a \in Attempts,
         RunStep(h, x, a),
         Runs(x) => x.attempt = a /\ x.stage \notin {"wait", "store"}
  PROVE  /\ RunShapes'
         /\ \A g \in Handlers : calls'[g] = IF g = h THEN x ELSE calls[g]
         /\ \A g \in Handlers : Runs(calls[g]) => calls[g].attempt \in Attempts
<1>1. \A g \in Handlers : calls'[g] = IF g = h THEN x ELSE calls[g]
      BY ZenonT(30), HandlerCall DEF RunStep, SlaveInv, Shapes
<1> QED BY ZenonT(30), <1>1 DEF RunStep, AttemptInv, RunShapes

\* The executions agree after h has moved, if the others' have not been touched.
LEMMA UnderwayAgree ==
  ASSUME RunsAgree, NEW h \in Handlers,
         \A g \in Handlers \ {h} : Underway(calls'[g]) =>
           /\ calls'[g] = calls[g]
           /\ attempts'[calls[g].attempt] = attempts[calls[g].attempt],
         Underway(calls'[h]) =>
           /\ \A g \in Handlers \ {h} :
                Underway(calls[g]) => calls[g].attempt # calls'[h].attempt
           /\ attempts'[calls'[h].attempt].row = 0
           /\ calls'[h].stage \in Unkept =>
                attempts'[calls'[h].attempt].memory = 0
           /\ calls'[h].stage = "insert" =>
                /\ calls'[h].value # 0
                /\ attempts'[calls'[h].attempt].memory = calls'[h].value
  PROVE  NothingKept' /\ InMemory' /\ OneExecutes'
<1>1. NothingKept'
  <2> SUFFICES ASSUME NEW g \in Handlers, Runs(calls'[g]),
                      calls'[g].stage \in Unkept
               PROVE  /\ attempts'[calls'[g].attempt].memory = 0
                      /\ attempts'[calls'[g].attempt].row = 0
      BY Zenon DEF NothingKept
  <2>1. CASE g = h
        BY Zenon, <2>1 DEF Underway
  <2>2. CASE g # h
        BY SMTT(20), <2>2 DEF RunsAgree, NothingKept, Underway
  <2> QED BY Zenon, <2>1, <2>2
<1>2. InMemory'
  <2> SUFFICES ASSUME NEW g \in Handlers, Runs(calls'[g]),
                      calls'[g].stage = "insert"
               PROVE  /\ calls'[g].value # 0
                      /\ attempts'[calls'[g].attempt].memory = calls'[g].value
                      /\ attempts'[calls'[g].attempt].row = 0
      BY Zenon DEF InMemory
  <2>1. CASE g = h
        BY Zenon, <2>1 DEF Underway
  <2>2. CASE g # h
        BY SMTT(20), <2>2 DEF RunsAgree, InMemory, Underway
  <2> QED BY Zenon, <2>1, <2>2
<1>3. OneExecutes'
  <2> SUFFICES ASSUME NEW f \in Handlers, NEW g \in Handlers, f # g,
                      Underway(calls'[f]), Underway(calls'[g])
               PROVE  calls'[f].attempt # calls'[g].attempt
      BY Zenon DEF OneExecutes
  <2>1. CASE f # h /\ g # h
        BY <2>1 DEF RunsAgree, OneExecutes
  <2>2. CASE f = h
        BY ZenonT(30), <2>2
  <2>3. CASE g = h
        BY ZenonT(30), <2>3
  <2> QED BY Zenon, <2>1, <2>2, <2>3
<1> QED BY ZenonT(30), <1>1, <1>2, <1>3

\* The insertions of other attempts are still to come, and a's is, or is not
\* needed.
LEMMA RowStillComes ==
  ASSUME RunsAgree, NEW a \in Attempts,
         \A b \in Attempts \ {a} : attempts'[b] = attempts[b],
         \A g \in Handlers :
           Runs(calls[g]) /\ calls[g].stage = "insert" =>
             calls[g].attempt = a \/ calls'[g] = calls[g],
         \/ attempts'[a].memory \in {0, attempts'[a].row}
         \/ \E g \in Handlers : /\ Runs(calls'[g]) /\ calls'[g].stage = "insert"
                                 /\ calls'[g].attempt = a
         \/ /\ attempts'[a] = attempts[a]
            /\ \A g \in Handlers :
                 Runs(calls[g]) /\ calls[g].stage = "insert" =>
                   calls'[g] = calls[g]
  PROVE  RowComes'
<1> SUFFICES ASSUME NEW b \in Attempts
             PROVE  \/ attempts'[b].memory \in {0, attempts'[b].row}
                    \/ \E g \in Handlers : /\ Runs(calls'[g])
                                            /\ calls'[g].stage = "insert"
                                            /\ calls'[g].attempt = b
    BY Zenon DEF RowComes
<1>1. \/ attempts[b].memory \in {0, attempts[b].row}
      \/ \E g \in Handlers : /\ Runs(calls[g]) /\ calls[g].stage = "insert"
                              /\ calls[g].attempt = b
      BY Zenon DEF RunsAgree, RowComes
<1>2. CASE b = a
      BY Zenon, <1>1, <1>2
<1>3. CASE b # a
      BY Zenon, <1>1, <1>3
<1> QED BY Zenon, <1>2, <1>3

\* The answers given still agree with what is kept, if h's does and what was
\* kept of a has not been replaced.
LEMMA AnswersStillAgree ==
  ASSUME RunsAgree, NEW h \in Handlers, NEW a \in Attempts,
         \A g \in Handlers \ {h} : calls'[g] = calls[g],
         \A g \in Handlers : Runs(calls[g]) => calls[g].attempt \in Attempts,
         \A b \in Attempts \ {a} : attempts'[b] = attempts[b],
         attempts[a].memory # 0 =>
           /\ attempts'[a].memory = attempts[a].memory
           /\ attempts'[a].row \in {attempts[a].row, attempts[a].memory},
         Runs(calls'[h]) /\ calls'[h].stage = "done"
           /\ calls'[h].answer = "value" =>
             /\ calls'[h].value # 0
             /\ attempts'[calls'[h].attempt].memory = calls'[h].value
             /\ attempts'[calls'[h].attempt].row \in {0, calls'[h].value}
  PROVE  AnswersAgree'
<1> SUFFICES ASSUME NEW g \in Handlers \ {h}, Runs(calls'[g]),
                    calls'[g].stage = "done", calls'[g].answer = "value"
             PROVE  /\ calls'[g].value # 0
                    /\ attempts'[calls'[g].attempt].memory = calls'[g].value
                    /\ attempts'[calls'[g].attempt].row \in {0, calls'[g].value}
    BY Zenon DEF AnswersAgree
<1>1. /\ calls'[g] = calls[g] /\ calls[g].attempt \in Attempts
      /\ calls[g].value # 0
      /\ attempts[calls[g].attempt].memory = calls[g].value
      /\ attempts[calls[g].attempt].row \in {0, calls[g].value}
      BY Zenon DEF RunsAgree, AnswersAgree
<1>2. CASE calls[g].attempt = a
      BY Zenon, <1>1, <1>2
<1>3. CASE calls[g].attempt # a
      BY SMTT(20), <1>1, <1>3
<1> QED BY Zenon, <1>2, <1>3

\* A dispatch begins: what is in memory is its answer.
LEMMA DispatchAgrees ==
  ASSUME SlaveInv, AttemptInv, NEW h \in Handlers, NEW a \in Attempts,
         Dispatch(h, a)
  PROVE  AttemptInv'
<1> DEFINE call == [NewCall("invoke", Package[a], "lookup", "done", FALSE,
                            "none") EXCEPT !.attempt = a]
<1>1. PICK x :
        /\ calls' = [calls EXCEPT ![h] = x]
        /\ \/ x = Done(call, "error", 0)
           \/ /\ attempts[a].memory # 0
              /\ x = Done(call, "value", attempts[a].memory)
           \/ x = call
      BY Zenon DEF Dispatch
<1>2. /\ x.attempt = a
      /\ \/ x.stage = "lookup"
         \/ x.stage = "done" /\ x.answer = "error"
         \/ /\ x.stage = "done" /\ attempts[a].memory # 0
            /\ x.value = attempts[a].memory
  <2>1. x = call => x.attempt = a /\ x.stage = "lookup"
        BY Zenon DEF NewCall
  <2>2. x = Done(call, "error", 0) =>
          x.attempt = a /\ x.stage = "done" /\ x.answer = "error"
        BY Zenon DEF NewCall, Done
  <2>3. x = Done(call, "value", attempts[a].memory) =>
          x.attempt = a /\ x.stage = "done" /\ x.value = attempts[a].memory
        BY Zenon DEF NewCall, Done
  <2> QED BY Zenon, <1>1, <2>1, <2>2, <2>3
<1> HIDE DEF call
<1>3. UNCHANGED <<attempts, ops>> /\ happened \subseteq happened'
      BY ZenonT(30) DEF Dispatch, plugin
<1>4. RunStep(h, x, a)
      BY ZenonT(30), <1>1, <1>3 DEF RunStep, AttemptInv, RunShapes
<1>5. /\ RunShapes'
      /\ \A g \in Handlers : calls'[g] = IF g = h THEN x ELSE calls[g]
      /\ \A g \in Handlers : Runs(calls[g]) => calls[g].attempt \in Attempts
      BY Zenon, <1>2, <1>4, RunStepShapes
<1>6. calls[h] = Idle /\ ~ Runs(calls[h]) /\ ~ Underway(x)
      BY <1>2 DEF Dispatch, Idle, Runs, Underway, BusyStages, Unkept
<1>7. ASSUME ~ Happened({"overlap"})'
      PROVE  RunsAgree'
  <2>1. RunsAgree
        BY ZenonT(30), <1>3, <1>7, StillAlone DEF AttemptInv
  <2>2. NothingKept' /\ InMemory' /\ OneExecutes'
        BY ZenonT(30), <1>3, <1>5, <1>6, <2>1, UnderwayAgree
  <2>3. RowComes'
    <3>1. \A g \in Handlers : Runs(calls[g]) => calls'[g] = calls[g]
          BY Zenon, <1>5, <1>6
    <3> QED BY ZenonT(30), <1>3, <2>1, <3>1, RowStillComes
  <2>4. attempts[a].memory # 0 => attempts[a].row \in {0, attempts[a].memory}
    <3>1. \/ attempts[a].memory \in {0, attempts[a].row}
          \/ \E g \in Handlers : /\ Runs(calls[g]) /\ calls[g].stage = "insert"
                                  /\ calls[g].attempt = a
          BY Zenon, <2>1 DEF RunsAgree, RowComes
    <3>2. \A g \in Handlers :
            Runs(calls[g]) /\ calls[g].stage = "insert" =>
              attempts[calls[g].attempt].row = 0
          BY Zenon, <2>1 DEF RunsAgree, InMemory
    <3> QED BY Zenon, <3>1, <3>2
  <2>5. AnswersAgree'
    <3>1. x.stage = "done" /\ x.answer = "value" =>
            /\ x.value # 0 /\ attempts'[x.attempt].memory = x.value
            /\ attempts'[x.attempt].row \in {0, x.value}
          BY ZenonT(30), <1>2, <1>3, <2>4
    <3> QED BY ZenonT(30), <1>3, <1>5, <2>1, <3>1, AnswersStillAgree
  <2> QED BY Zenon, <2>2, <2>3, <2>5 DEF RunsAgree
<1> QED BY Zenon, <1>5, <1>7 DEF AttemptInv

\* A run in the stages of its own steps.
LEMMA OwnSteps ==
  ASSUME SlaveInv, AttemptInv, NEW h \in Handlers,
         calls[h].stage \in {"lookup", "admit", "store", "insert"}
  PROVE  /\ Runs(calls[h]) /\ IsCall(h, calls[h])
         /\ calls[h].attempt \in Attempts
<1>1. Runs(calls[h]) /\ IsCall(h, calls[h])
      BY SMTT(20), HandlerCall DEF Idle, IsCall, Runs, BusyStages
<1> QED BY ZenonT(30), <1>1 DEF AttemptInv, RunShapes

\* The table has a result: it is the answer and is remembered.
LEMMA FoundAgrees ==
  ASSUME SlaveInv, AttemptInv, NEW h \in Handlers, Lookup(h),
         Kept(calls[h].attempt) # 0
  PROVE  AttemptInv'
<1> DEFINE y == calls[h]
           a == y.attempt
           row == attempts[a].row
           x == Done(y, "value", row)
<1>1. Runs(y) /\ IsCall(h, y) /\ a \in Attempts /\ y.stage = "lookup"
      BY Zenon, OwnSteps DEF Lookup
<1>2. /\ calls' = [calls EXCEPT ![h] = x]
      /\ attempts' = [attempts EXCEPT ![a].memory = row] /\ row # 0
      /\ UNCHANGED <<happened, ops>>
      BY Zenon DEF Lookup, Kept, Remembered, plugin
<1>3. x.attempt = a /\ x.stage = "done" /\ x.value = row
      BY ZenonT(30), <1>1 DEF Done, IsCall
<1> HIDE DEF x
<1>4. /\ DOMAIN attempts' = Attempts
      /\ \A b \in Attempts \ {a} : attempts'[b] = attempts[b]
      /\ IsKept(attempts'[a])
      /\ attempts'[a].memory = row /\ attempts'[a].row = row
      BY ZenonT(30), <1>1, <1>2 DEF AttemptInv, RunShapes, IsKept
<1>5. RunStep(h, x, a)
      BY ZenonT(30), <1>2, <1>4 DEF RunStep, AttemptInv, RunShapes
<1>6. /\ RunShapes'
      /\ \A g \in Handlers : calls'[g] = IF g = h THEN x ELSE calls[g]
      /\ \A g \in Handlers : Runs(calls[g]) => calls[g].attempt \in Attempts
      BY ZenonT(30), <1>1, <1>3, <1>5, RunStepShapes
<1>7. ~ Underway(x) /\ ~ Underway(y)
      BY Zenon, <1>1, <1>3 DEF Underway, Unkept
<1>8. ASSUME ~ Happened({"overlap"})'
      PROVE  RunsAgree'
  <2>1. RunsAgree
        BY Zenon, <1>2, <1>8, StillAlone DEF AttemptInv
  <2>2. \A g \in Handlers : Underway(calls[g]) => calls[g].attempt # a
        BY ZenonT(30), <1>2, <2>1 DEF RunsAgree, NothingKept, InMemory, Underway
  <2>3. \A g \in Handlers : Underway(calls'[g]) =>
          /\ g # h /\ calls'[g] = calls[g] /\ calls[g].attempt # a
          /\ attempts'[calls[g].attempt] = attempts[calls[g].attempt]
        BY ZenonT(30), <1>4, <1>6, <1>7, <2>2 DEF Underway
  <2>4. NothingKept' /\ InMemory' /\ OneExecutes'
        BY ZenonT(30), <2>1, <2>3, UnderwayAgree
  <2>5. RowComes'
    <3>1. \A g \in Handlers :
            Runs(calls[g]) /\ calls[g].stage = "insert" => calls'[g] = calls[g]
          BY Zenon, <1>1, <1>6
    <3> QED BY ZenonT(30), <1>1, <1>4, <2>1, <3>1, RowStillComes
  <2>6. AnswersAgree'
    <3>1. attempts[a].memory # 0 => attempts[a].memory = row
          BY ZenonT(30), <1>1, <2>1, <2>2 DEF RunsAgree, RowComes, Underway
    <3>2. /\ calls'[h] = x /\ x.value # 0
          /\ attempts'[x.attempt].memory = x.value
          /\ attempts'[x.attempt].row = x.value
          BY Zenon, <1>2, <1>3, <1>4, <1>6
    <3>3. attempts[a].memory # 0 =>
            /\ attempts'[a].memory = attempts[a].memory
            /\ attempts'[a].row \in {attempts[a].row, attempts[a].memory}
          BY Zenon, <1>4, <3>1
    <3>4. /\ calls'[h].value # 0
          /\ attempts'[calls'[h].attempt].memory = calls'[h].value
          /\ attempts'[calls'[h].attempt].row \in {0, calls'[h].value}
          BY Zenon, <3>2
    <3>5. \A g \in Handlers \ {h} : calls'[g] = calls[g]
          BY Zenon, <1>6
    <3> QED BY ZenonT(30), <1>1, <1>4, <1>6, <2>1, <3>3, <3>4, <3>5,
               AnswersStillAgree
  <2> QED BY Zenon, <2>4, <2>5, <2>6 DEF RunsAgree
<1> QED BY Zenon, <1>6, <1>8 DEF AttemptInv

\* The table has none: the attempt is executed, and an overlap is noted.
LEMMA MissedAgrees ==
  ASSUME SlaveInv, AttemptInv, NEW h \in Handlers, Lookup(h),
         Kept(calls[h].attempt) = 0
  PROVE  AttemptInv'
<1> DEFINE y == calls[h]
           a == y.attempt
           x == [y EXCEPT !.stage = "admit"]
<1>1. Runs(y) /\ IsCall(h, y) /\ a \in Attempts /\ y.stage = "lookup"
      BY Zenon, OwnSteps DEF Lookup
<1>2. /\ calls' = [calls EXCEPT ![h] = x] /\ attempts[a].row = 0
      /\ happened' = IF \E c \in Handlers : Executing(c) /\ calls[c].attempt = a
                     THEN happened \cup {"overlap"} ELSE happened
      /\ UNCHANGED <<attempts, ops>>
      BY Zenon DEF Lookup, Kept, plugin
<1>3. x.attempt = a /\ x.stage = "admit"
      BY ZenonT(30), <1>1 DEF IsCall
<1> HIDE DEF x
<1>4. RunStep(h, x, a)
      BY ZenonT(30), <1>2 DEF RunStep, AttemptInv, RunShapes
<1>5. /\ RunShapes'
      /\ \A g \in Handlers : calls'[g] = IF g = h THEN x ELSE calls[g]
      /\ \A g \in Handlers : Runs(calls[g]) => calls[g].attempt \in Attempts
      BY Zenon, <1>1, <1>3, <1>4, RunStepShapes
<1>6. ASSUME ~ Happened({"overlap"})'
      PROVE  RunsAgree'
  <2>1. RunsAgree
        BY ZenonT(30), <1>2, <1>6, StillAlone DEF AttemptInv
  <2>2. ~ \E c \in Handlers : Executing(c) /\ calls[c].attempt = a
        BY ZenonT(30), <1>2, <1>6 DEF Happened
  <2>3. \A g \in Handlers : Underway(calls[g]) => calls[g].attempt # a
        BY ZenonT(30), <2>2 DEF Underway, Unkept, Executing
  <2>4. attempts[a].memory = 0
        BY ZenonT(30), <1>1, <1>2, <2>1, <2>3 DEF RunsAgree, RowComes, Underway
  <2>5. NothingKept' /\ InMemory' /\ OneExecutes'
    <3>1. /\ calls'[h] = x /\ x.stage # "insert"
          /\ attempts'[x.attempt].row = 0 /\ attempts'[x.attempt].memory = 0
          BY Zenon, <1>2, <1>3, <1>5, <2>4
    <3> QED BY ZenonT(30), <1>2, <1>3, <1>5, <2>1, <2>3, <3>1, UnderwayAgree
  <2>6. RowComes'
    <3>1. \A g \in Handlers :
            Runs(calls[g]) /\ calls[g].stage = "insert" => calls'[g] = calls[g]
          BY Zenon, <1>1, <1>5
    <3> QED BY ZenonT(30), <1>1, <1>2, <2>1, <3>1, RowStillComes
  <2>7. AnswersAgree'
    <3>1. calls'[h].stage # "done"
          BY Zenon, <1>3, <1>5
    <3> QED BY ZenonT(30), <1>1, <1>2, <1>5, <2>1, <2>4, <3>1, AnswersStillAgree
  <2> QED BY ZenonT(30), <2>5, <2>6, <2>7 DEF RunsAgree
<1> QED BY Zenon, <1>5, <1>6 DEF AttemptInv

\* The result goes to memory.
LEMMA StoreAgrees ==
  ASSUME SlaveInv, AttemptInv, NEW h \in Handlers, Store(h)
  PROVE  AttemptInv'
<1> DEFINE y == calls[h]
           a == y.attempt
           x == [y EXCEPT !.stage = "insert"]
<1>1. /\ Runs(y) /\ IsCall(h, y) /\ a \in Attempts /\ y.stage = "store"
      /\ y.value # 0
      BY Zenon, OwnSteps DEF Store, AttemptInv, RunShapes
<1>2. /\ calls' = [calls EXCEPT ![h] = x]
      /\ attempts' = [attempts EXCEPT ![a].memory = y.value]
      /\ UNCHANGED <<happened, ops>>
      BY Zenon DEF Store, Remembered, plugin, NoFault
<1>3. x.attempt = a /\ x.stage = "insert" /\ x.value = y.value
      BY Zenon, <1>1 DEF IsCall
<1>4. /\ DOMAIN attempts' = Attempts
      /\ \A b \in Attempts \ {a} : attempts'[b] = attempts[b]
      /\ IsKept(attempts'[a])
      /\ attempts'[a].memory = y.value /\ attempts'[a].row = attempts[a].row
      BY Zenon, <1>1, <1>2 DEF AttemptInv, RunShapes, IsKept
<1>5. Runs(x) /\ Underway(y)
      BY ZenonT(30), <1>1 DEF Runs, IsCall, BusyStages, Underway, Unkept
<1> HIDE DEF x
<1>6. RunStep(h, x, a)
      BY ZenonT(30), <1>2, <1>4 DEF RunStep, AttemptInv, RunShapes
<1>7. /\ RunShapes'
      /\ \A g \in Handlers : calls'[g] = IF g = h THEN x ELSE calls[g]
      /\ \A g \in Handlers : Runs(calls[g]) => calls[g].attempt \in Attempts
      BY Zenon, <1>1, <1>3, <1>6, RunStepShapes
<1>8. ASSUME ~ Happened({"overlap"})'
      PROVE  RunsAgree'
  <2>1. RunsAgree
        BY ZenonT(30), <1>2, <1>8, StillAlone DEF AttemptInv
  <2>2. attempts[a].memory = 0 /\ attempts[a].row = 0
        BY ZenonT(30), <1>1, <2>1 DEF RunsAgree, NothingKept, Unkept
  <2>3. \A g \in Handlers \ {h} : Underway(calls[g]) => calls[g].attempt # a
        BY ZenonT(30), <1>5, <2>1 DEF RunsAgree, OneExecutes
  <2>4. NothingKept' /\ InMemory' /\ OneExecutes'
    <3>1. /\ calls'[h] = x /\ x.stage \notin Unkept /\ x.value # 0
          /\ attempts'[x.attempt].row = 0
          /\ attempts'[x.attempt].memory = x.value
          BY ZenonT(30), <1>1, <1>3, <1>4, <1>7, <2>2 DEF Unkept
    <3>2. \A g \in Handlers \ {h} : Underway(calls'[g]) =>
            /\ calls'[g] = calls[g]
            /\ attempts'[calls[g].attempt] = attempts[calls[g].attempt]
          BY Zenon, <1>4, <1>7, <2>3 DEF Underway
    <3>3. /\ \A g \in Handlers \ {h} :
               Underway(calls[g]) => calls[g].attempt # calls'[h].attempt
          /\ attempts'[calls'[h].attempt].row = 0
          /\ calls'[h].stage \notin Unkept /\ calls'[h].value # 0
          /\ attempts'[calls'[h].attempt].memory = calls'[h].value
          BY Zenon, <1>3, <2>3, <3>1
    <3> QED BY ZenonT(30), <2>1, <3>2, <3>3, UnderwayAgree
  <2>5. RowComes'
    <3>1. \A g \in Handlers :
            Runs(calls[g]) /\ calls[g].stage = "insert" => calls'[g] = calls[g]
          BY Zenon, <1>1, <1>7
    <3>2. Runs(calls'[h]) /\ calls'[h].stage = "insert" /\ calls'[h].attempt = a
          BY Zenon, <1>3, <1>5, <1>7
    <3> QED BY ZenonT(30), <1>1, <1>4, <2>1, <3>1, <3>2, RowStillComes
  <2>6. AnswersAgree'
    <3>1. calls'[h].stage # "done"
          BY Zenon, <1>3, <1>7
    <3> QED BY ZenonT(30), <1>1, <1>4, <1>7, <2>1, <2>2, <3>1, AnswersStillAgree
  <2> QED BY Zenon, <2>4, <2>5, <2>6 DEF RunsAgree
<1> QED BY Zenon, <1>7, <1>8 DEF AttemptInv

\* The result goes to the table; only after an overlap there is one already.
LEMMA InsertAgrees ==
  ASSUME SlaveInv, AttemptInv, NEW h \in Handlers, Insert(h)
  PROVE  AttemptInv'
<1> DEFINE y == calls[h]
           a == y.attempt
<1>1. /\ Runs(y) /\ IsCall(h, y) /\ a \in Attempts /\ y.stage = "insert"
      BY Zenon, OwnSteps DEF Insert
<1>2. UNCHANGED <<happened, ops>>
      BY Zenon DEF Insert, plugin, NoFault
<1>3. PICK x :
        /\ calls' = [calls EXCEPT ![h] = x]
        /\ \/ /\ attempts[a].row = 0 /\ x = Done(y, "value", y.value)
              /\ attempts' = [attempts EXCEPT ![a].row = y.value]
           \/ /\ attempts[a].row # 0 /\ x = Done(y, "error", 0)
              /\ UNCHANGED attempts
      BY Zenon DEF Insert
<1>4. /\ x.attempt = a /\ x.stage = "done"
      /\ attempts[a].row = 0 => x.value = y.value
  <2>1. \A answer, value : /\ Done(y, answer, value).attempt = a
                           /\ Done(y, answer, value).stage = "done"
                           /\ Done(y, answer, value).value = value
        BY Zenon, <1>1 DEF Done, IsCall
  <2> QED BY <1>3, <2>1
<1>5. /\ DOMAIN attempts' = Attempts
      /\ \A b \in Attempts \ {a} : attempts'[b] = attempts[b]
      /\ IsKept(attempts'[a])
      /\ attempts'[a].memory = attempts[a].memory
      /\ attempts[a].row = 0 => attempts'[a].row = y.value
      BY SMTT(20), <1>1, <1>3 DEF AttemptInv, RunShapes, IsKept
<1>6. RunStep(h, x, a)
      BY Zenon, <1>2, <1>3, <1>5 DEF RunStep, AttemptInv, RunShapes
<1>7. /\ RunShapes'
      /\ \A g \in Handlers : calls'[g] = IF g = h THEN x ELSE calls[g]
      /\ \A g \in Handlers : Runs(calls[g]) => calls[g].attempt \in Attempts
      BY ZenonT(30), <1>1, <1>4, <1>6, RunStepShapes
<1>8. Underway(y) /\ ~ Underway(x)
      BY Zenon, <1>1, <1>4 DEF Underway, Unkept
<1>9. ASSUME ~ Happened({"overlap"})'
      PROVE  RunsAgree'
  <2>1. RunsAgree
        BY ZenonT(30), <1>2, <1>9, StillAlone DEF AttemptInv
  <2>2. /\ attempts[a].memory = y.value /\ attempts[a].row = 0
        /\ y.value # 0
        BY ZenonT(30), <1>1, <2>1 DEF RunsAgree, InMemory
  <2>3. attempts'[a].row = y.value /\ attempts'[a].memory = y.value
        BY ZenonT(30), <1>5, <2>2
  <2>4. \A g \in Handlers : Underway(calls'[g]) =>
          /\ g # h /\ calls'[g] = calls[g] /\ calls[g].attempt # a
          /\ attempts'[calls[g].attempt] = attempts[calls[g].attempt]
    <3> SUFFICES ASSUME NEW g \in Handlers, Underway(calls'[g])
                 PROVE  /\ g # h /\ calls'[g] = calls[g]
                        /\ calls[g].attempt # a
                        /\ attempts'[calls[g].attempt]
                             = attempts[calls[g].attempt]
        BY ZenonT(30)
    <3>1. g # h /\ calls'[g] = calls[g]
          BY ZenonT(30), <1>7, <1>8
    <3>2. calls[g].attempt # a
          BY ZenonT(30), <1>8, <2>1, <3>1 DEF RunsAgree, OneExecutes
    <3> QED BY ZenonT(30), <1>5, <1>7, <3>1, <3>2 DEF Underway
  <2>5. NothingKept' /\ InMemory' /\ OneExecutes'
        BY ZenonT(30), <2>1, <2>4, UnderwayAgree
  <2>6. RowComes'
    <3>1. \A g \in Handlers : calls[g].attempt = a \/ calls'[g] = calls[g]
          BY Zenon, <1>7
    <3> QED BY ZenonT(30), <1>1, <1>5, <2>1, <2>3, <3>1, RowStillComes
  <2>7. AnswersAgree'
    <3>1. /\ calls'[h] = x /\ x.value # 0
          /\ attempts'[x.attempt].memory = x.value
          /\ attempts'[x.attempt].row = x.value
          BY ZenonT(30), <1>4, <1>7, <2>2, <2>3
    <3>2. attempts[a].memory # 0 =>
            /\ attempts'[a].memory = attempts[a].memory
            /\ attempts'[a].row \in {attempts[a].row, attempts[a].memory}
          BY Zenon, <2>2, <2>3
    <3>3. /\ calls'[h].value # 0
          /\ attempts'[calls'[h].attempt].memory = calls'[h].value
          /\ attempts'[calls'[h].attempt].row \in {0, calls'[h].value}
          BY Zenon, <3>1
    <3>4. \A g \in Handlers \ {h} : calls'[g] = calls[g]
          BY Zenon, <1>7
    <3> QED BY Zenon, <1>1, <1>5, <1>7, <2>1, <3>2, <3>3, <3>4,
               AnswersStillAgree
  <2> QED BY Zenon, <2>5, <2>6, <2>7 DEF RunsAgree
<1> QED BY Zenon, <1>7, <1>9 DEF AttemptInv

\* An attempt is admitted, or fails before a result is kept; a request is over.
LEMMA AdmissionAgrees ==
  ASSUME SlaveInv, AttemptInv, NEW h \in Handlers,
         Admit(h) \/ AdmitFails(h) \/ StoreFails(h) \/ Leave(h)
  PROVE  AttemptInv'
<1>1. UNCHANGED <<attempts, ops>> /\ happened \subseteq happened'
      BY ZenonT(30), FaultGrows
      DEF Admit, AdmitFails, StoreFails, Leave, ContentFails, plugin, NoFault
<1>2. DOMAIN ops' = Servants /\ h \in Clients
      BY ZenonT(30), <1>1, HandlerCall DEF AttemptInv, RunShapes
<1>3. CASE Leave(h)
  <2>1. /\ calls' = [calls EXCEPT ![h] = Idle] /\ calls[h].stage = "done"
        BY Zenon, <1>3 DEF Leave
  <2>2. ~ Runs(Idle)
        BY Zenon DEF Runs, Idle, BusyStages
  <2> QED BY ZenonT(30), <1>1, <1>2, <2>1, <2>2, OneGoesOn
<1>4. CASE Admit(h) \/ AdmitFails(h) \/ StoreFails(h)
  <2>1. calls[h].stage \in {"admit", "store"}
        BY ZenonT(30), <1>4 DEF Admit, AdmitFails, StoreFails
  <2>2. Runs(calls[h]) /\ IsCall(h, calls[h])
        BY ZenonT(30), <2>1, OwnSteps
  <2>3. ASSUME NEW x, calls' = [calls EXCEPT ![h] = x],
               x.attempt = calls[h].attempt,
               \/ x.stage = "ask"
               \/ x.stage = "done" /\ x.answer = "error"
        PROVE  AttemptInv'
    <3>1. calls[h].stage \in Unkept /\ "ask" \in Unkept
          BY Zenon, <2>1 DEF Unkept
    <3> QED BY Zenon, <1>1, <1>2, <2>1, <2>2, <2>3, <3>1, OneGoesOn
  <2>4. CASE calls' = [calls EXCEPT ![h] = Done(calls[h], "error", 0)]
    <3> DEFINE x == Done(calls[h], "error", 0)
    <3>1. /\ x.attempt = calls[h].attempt
          /\ x.stage = "done" /\ x.answer = "error"
          BY Zenon, <2>2 DEF Done, IsCall
    <3>2. calls' = [calls EXCEPT ![h] = x]
          BY Zenon, <2>4
    <3> HIDE DEF x
    <3> QED BY Zenon, <2>3, <3>1, <3>2
  <2>5. CASE calls' = [calls EXCEPT ![h] = [calls[h] EXCEPT !.stage = "ask"]]
    <3>1. PICK x : x = [calls[h] EXCEPT !.stage = "ask"]
          BY Zenon
    <3>2. x.attempt = calls[h].attempt /\ x.stage = "ask"
          BY Zenon, <2>2, <3>1 DEF IsCall
    <3>3. calls' = [calls EXCEPT ![h] = x]
          BY Zenon, <2>5, <3>1
    <3> QED BY Zenon, <2>3, <3>2, <3>3
  <2> QED BY Zenon, <1>4, <2>4, <2>5 DEF Admit, AdmitFails, StoreFails,
             ContentFails
<1> QED BY Zenon, <1>3, <1>4

\* Memory is lost in a crash; nobody is answered.
LEMMA CrashAgrees ==
  ASSUME SlaveInv, AttemptInv, Crash
  PROVE  AttemptInv'
<1>1. /\ calls' = [c \in Clients |-> Idle] /\ ops' = NoOps
      /\ attempts' = [a \in Attempts |-> [attempts[a] EXCEPT !.memory = 0]]
      BY Zenon DEF Crash
<1>2. \A h \in Handlers : ~ Runs(calls'[h])
      BY Zenon, <1>1, ClientNames DEF Runs, Idle, BusyStages
<1>3. \A a \in Attempts : IsKept(attempts'[a]) /\ attempts'[a].memory = 0
      BY Zenon, <1>1 DEF AttemptInv, RunShapes, IsKept
<1>4. RunShapes'
      BY ZenonT(30), <1>1, <1>2, <1>3 DEF RunShapes, NoOps
<1>5. RunsAgree'
      BY Zenon, <1>2, <1>3 DEF RunsAgree, NothingKept, InMemory, OneExecutes,
         Underway,
                        RowComes, AnswersAgree
<1> QED BY Zenon, <1>4, <1>5 DEF AttemptInv

\* The start-up is no dispatch.
LEMMA StartAgrees ==
  ASSUME SlaveInv, AttemptInv, Boot \/ Reconciled \/ NotReconciled
  PROVE  AttemptInv'
<1>1. UNCHANGED attempts /\ happened \subseteq happened'
      BY Zenon, FaultGrows DEF Boot, Reconciled, NotReconciled
<1>2. /\ calls' = calls \/ \E x : calls' = [calls EXCEPT !["startup"] = x]
      /\ ops' = ops \/ \E op : ops' = [ops EXCEPT !["startup"] = op]
      BY ZenonT(30) DEF Boot, Reconciled, NotReconciled
<1>3. \A h \in Handlers : calls'[h] = calls[h] /\ ops'[h] = ops[h]
      BY Zenon, <1>2, HandlerCall DEF SlaveInv, Shapes, AttemptInv, RunShapes
<1>4. DOMAIN ops' = Servants /\ \A h \in Handlers : RunGoesOn(h)
      BY Zenon, <1>2, <1>3 DEF AttemptInv, RunShapes, RunGoesOn
<1> QED BY ZenonT(30), <1>1, <1>4, AttemptsUntouched, AllGoOn

-----------------------------------------------------------------------------

\* Nothing has been dispatched at the beginning.
LEMMA AttemptInvInit == Init => AttemptInv
<1> SUFFICES ASSUME Init PROVE AttemptInv
    BY ZenonT(30)
<1>1. \A h \in Handlers : ~ Runs(calls[h])
      BY ZenonT(30), ClientNames DEF Init, Runs, Idle, BusyStages
<1>2. \A a \in Attempts : IsKept(attempts[a]) /\ attempts[a].memory = 0
      BY ZenonT(30) DEF Init, IsKept
<1>3. RunShapes
      BY ZenonT(30), <1>1, <1>2 DEF RunShapes, Init, NoOps
<1>4. RunsAgree
      BY ZenonT(30), <1>1, <1>2
      DEF RunsAgree, NothingKept, InMemory, OneExecutes, Underway,
                        RowComes, AnswersAgree
<1> QED BY Zenon, <1>3, <1>4 DEF AttemptInv

\* Every step keeps the invariant.
LEMMA AttemptInvStep ==
  SlaveInv /\ AttemptInv /\ [Next]_slaveVars => AttemptInv'
<1> SUFFICES ASSUME SlaveInv, AttemptInv, [Next]_slaveVars PROVE AttemptInv'
    BY ZenonT(30)
<1>1. CASE Internal
  <2>1. ASSUME NEW c \in Clients, ReadRow(c) \/ CommitRow(c) PROVE AttemptInv'
        BY Zenon, <2>1, SavesAgree
  <2>2. ASSUME NEW c \in Clients, Ask(c) \/ Replayed(c) PROVE AttemptInv'
        BY Zenon, <2>2, AsksAgree
  <2>3. ASSUME NEW c \in Clients,
               \/ Answered(c) \/ ConnectionLost(c)
               \/ TimesOut(c) \/ ReplayTimesOut(c)
        PROVE  AttemptInv'
        BY Zenon, <2>3, AnsweredAgree
  <2>4. ASSUME NEW h \in Handlers, Decide(h) PROVE AttemptInv'
        BY ZenonT(30), <2>4, LifecycleAgrees
  <2>5. ASSUME NEW h \in Handlers, Lookup(h) PROVE AttemptInv'
        BY ZenonT(30), <2>5, FoundAgrees, MissedAgrees
  <2>6. ASSUME NEW h \in Handlers,
               Admit(h) \/ AdmitFails(h) \/ StoreFails(h)
        PROVE  AttemptInv'
        BY Zenon, <2>6, AdmissionAgrees
  <2>7. ASSUME NEW h \in Handlers, Store(h) PROVE AttemptInv'
        BY Zenon, <2>7, StoreAgrees
  <2>8. ASSUME NEW h \in Handlers, Insert(h) PROVE AttemptInv'
        BY Zenon, <2>8, InsertAgrees
  <2>9. ASSUME NEW r \in Refs, HealthInspect(r) \/ Resend(r) PROVE AttemptInv'
        BY Zenon, <2>9, HealthAgrees
  <2>10. CASE \/ \E t \in Servants : ProviderStep(t) \/ DockerFails(t)
              \/ \E op \in strays : StrayStep(op)
              \/ \E d \in Digests : ContainerChanges(d)
              \/ ProviderCrash
         BY Zenon, <2>10, PluginAgrees
  <2>11. CASE Crash
         BY Zenon, <2>11, CrashAgrees
  <2>12. CASE Boot \/ Reconciled \/ NotReconciled
         BY Zenon, <2>12, StartAgrees
  <2> QED BY ZenonT(30), <1>1, <2>1, <2>2, <2>3, <2>4, <2>5, <2>6, <2>7,
             <2>8, <2>9,
             <2>10, <2>11, <2>12 DEF Internal
<1>2. ASSUME NEW h \in Handlers, NEW r \in Refs, NEW n \in 1 .. MaxRevision,
             NEW k \in Keys,
             Accept(h, IF n % 2 = 1 THEN "provision" ELSE "deprovision",
                    r, n, k)
      PROVE  AttemptInv'
      BY Zenon, <1>2, LifecycleAgrees
<1>3. ASSUME NEW h \in Handlers, NEW a \in Attempts, Dispatch(h, a)
      PROVE  AttemptInv'
      BY Zenon, <1>3, DispatchAgrees
<1>4. ASSUME NEW h \in Handlers, Leave(h) PROVE AttemptInv'
      BY Zenon, <1>4, AdmissionAgrees
<1>5. ASSUME NEW acknowledged, Posted(acknowledged) PROVE AttemptInv'
      BY Zenon, <1>5, HealthAgrees
<1>6. CASE UNCHANGED slaveVars
  <2>1. UNCHANGED <<attempts, calls, ops, happened>>
        BY ZenonT(30), <1>6 DEF slaveVars, plugin
  <2>2. DOMAIN ops' = Servants /\ \A h \in Handlers : RunGoesOn(h)
        BY Zenon, <2>1 DEF AttemptInv, RunShapes, RunGoesOn
  <2> QED BY ZenonT(30), <2>1, <2>2, AttemptsUntouched, AllGoOn
<1> QED BY Zenon, <1>1, <1>2, <1>3, <1>4, <1>5, <1>6 DEF Next

\* The invariant holds in every state of the Slave.
LEMMA AttemptInvAlways == Spec => []AttemptInv
  BY AttemptInvInit, AttemptInvStep, SlaveInvAlways, PTL DEF Spec

\* What the Slave remembers and answers for an attempt is what the table has or
\* is about to have, for any number of attempts, requests, crashes and lost
\* plugins, as long as no attempt is dispatched while it runs.
THEOREM ResultsAgree == Spec => []AttemptsAgree
<1>1. SlaveInv /\ AttemptInv => AttemptsAgree
  <2> SUFFICES ASSUME SlaveInv, AttemptInv, ~ Happened({"overlap"})
               PROVE  AttemptsAgree
      BY Zenon DEF AttemptsAgree
  <2>1. RunsAgree
        BY Zenon DEF AttemptInv
  <2>2. \A h \in Handlers :
          calls[h].stage = "done" /\ calls[h].kind = "invoke" => Runs(calls[h])
        BY Zenon DEF Runs
  <2> QED BY ZenonT(30), <2>1, <2>2
          DEF RunsAgree, RowComes, AnswersAgree, AttemptsAgree
<1> QED BY <1>1, SlaveInvAlways, AttemptInvAlways, PTL

\* Whoever is about to ask the plugin for an attempt found neither memory nor
\* row, with the same exception.
THEOREM KeptRunsOnce == Spec => []KeptIsNotRerun
<1>1. AttemptInv => KeptIsNotRerun
      BY Zenon DEF AttemptInv, RunsAgree, NothingKept, Runs, Unkept, BusyStages,
             KeptIsNotRerun
<1> QED BY <1>1, AttemptInvAlways, PTL

-----------------------------------------------------------------------------
(***************************************************************************)
(* What the plugin's operations, a command and a desired state come to.    *)
(***************************************************************************)

OpStages ==
  {"look", "create", "launch", "start", "await", "probe", "remove", "answered"}

Lifecycle == {"provision", "deprovision", "inspect"}

OpFields ==
  {"kind", "doing", "ref", "attempt", "stage", "list", "found", "answer",
   "value"}

\* An operation of the plugin for a request of the life cycle.
IsPlain(op, kind) ==
  /\ DOMAIN op = OpFields
  /\ op.kind = kind /\ op.doing = kind /\ op.stage \in OpStages
  /\ op.stage = "answered" => op.answer \in ReportStates \cup {"error"}

IsReconcile(op) ==
  /\ DOMAIN op = OpFields
  /\ op.kind = "reconcile" /\ op.doing \in Lifecycle /\ op.stage \in OpStages
  /\ op.found \in [Refs -> ReportStates \cup {"none"}]

\* A new operation of the plugin for a request of the life cycle.
LEMMA NewOpIsPlain ==
  ASSUME NEW kind, NEW r, NEW a
  PROVE  IsPlain(NewOp(kind, r, a), kind)
  BY ZenonT(30) DEF IsPlain, NewOp, OpFields, OpStages

\* A list of what is desired is the start of a reconcile.
LEMMA NewReconcileIs ==
  ASSUME NEW list
  PROVE  IsReconcile(NewReconcile(list))
<1>1. EntryDoing(Head(list)) \in Lifecycle
      BY Zenon DEF EntryDoing, Lifecycle
<1> QED BY Zenon, <1>1 DEF NewReconcile, NewOp, IsReconcile, OpFields, OpStages

\* An operation of the plugin for a request of the life cycle, or for the
\* start-up.
IsOf(op, kind) ==
  IF kind = "reconcile" THEN IsReconcile(op) ELSE IsPlain(op, kind)

\* An operation goes on to another docker command or probe.
LEMMA StageIsOf ==
  ASSUME NEW kind \in Lifecycle \cup {"reconcile"}, NEW op, IsOf(op, kind),
         NEW stage \in OpStages \ {"answered"}
  PROVE  IsOf([op EXCEPT !.stage = stage], kind)
<1>1. CASE kind = "reconcile"
      BY Zenon, <1>1 DEF IsOf, IsReconcile, OpFields
<1>2. CASE kind # "reconcile"
      BY Zenon, <1>2 DEF IsOf, IsPlain, OpFields
<1> QED BY Zenon, <1>1, <1>2

\* An operation ends with a state or an error; reconcile goes on to its next
\* entry and takes note of a state.
LEMMA ConcludeIsOf ==
  ASSUME NEW kind \in Lifecycle \cup {"reconcile"}, NEW op, IsOf(op, kind),
         NEW answer \in ReportStates \cup {"error"}
  PROVE  IsOf(Conclude(op, answer), kind)
<1>1. CASE kind = "reconcile"
  <2>0. IsReconcile(op) /\ op.kind = "reconcile"
        BY Zenon, <1>1 DEF IsOf, IsReconcile
  <2>1. CASE op.doing = "inspect" /\ answer \notin {"ready", "error"}
    <3>1. Conclude(op, answer) = [op EXCEPT !.doing = "provision", !.stage = "look"]
          BY Zenon, <2>0, <2>1 DEF Conclude
    <3> QED BY Zenon, <1>1, <2>0, <3>1
            DEF IsOf, IsReconcile, OpFields, OpStages, Lifecycle
  <2>2. CASE ~ (op.doing = "inspect" /\ answer \notin {"ready", "error"})
    <3> DEFINE rest == Tail(op.list)
               value == IF answer = "error" THEN "failed" ELSE answer
               found == [op.found EXCEPT ![op.ref] = value]
               done == [op EXCEPT !.list = rest, !.found = found]
    <3>1. found \in [Refs -> ReportStates \cup {"none"}]
      <4>1. value \in ReportStates
            BY Zenon DEF ReportStates
      <4> QED BY ZenonT(30), <2>0, <4>1 DEF IsReconcile
    <3>2. /\ EntryDoing(Head(rest)) \in Lifecycle
          BY Zenon DEF EntryDoing, Lifecycle
    <3>3. Conclude(op, answer) =
            IF rest = <<>> THEN [done EXCEPT !.stage = "answered"]
            ELSE [done EXCEPT !.stage = "look", !.ref = Head(rest).ref,
                              !.doing = EntryDoing(Head(rest))]
          BY Zenon, <2>0, <2>2 DEF Conclude
    <3> HIDE DEF rest, found
    <3>4. /\ DOMAIN done = OpFields /\ done.kind = "reconcile"
          /\ done.doing \in Lifecycle /\ done.found = found
          BY Zenon, <2>0 DEF IsReconcile, OpFields
    <3> HIDE DEF done
    <3>5. IsReconcile([done EXCEPT !.stage = "answered"])
          BY Zenon, <3>1, <3>4 DEF IsReconcile, OpFields, OpStages
    <3>6. IsReconcile([done EXCEPT !.stage = "look", !.ref = Head(rest).ref,
                                   !.doing = EntryDoing(Head(rest))])
          BY Zenon, <3>1, <3>2, <3>4 DEF IsReconcile, OpFields, OpStages
    <3> QED BY Zenon, <1>1, <3>3, <3>5, <3>6 DEF IsOf
  <2> QED BY Zenon, <2>1, <2>2
<1>2. CASE kind # "reconcile"
  <2>1. Conclude(op, answer) = [op EXCEPT !.stage = "answered", !.answer = answer]
        BY Zenon, <1>2 DEF IsOf, IsPlain, Conclude
  <2> QED BY Zenon, <1>2, <2>1 DEF IsOf, IsPlain, OpFields, OpStages
<1> QED BY Zenon, <1>1, <1>2

\* docker inspect
LEMMA LookIsOf ==
  ASSUME NEW kind \in Lifecycle \cup {"reconcile"}, NEW op, IsOf(op, kind),
         NEW container
  PROVE  IsOf(Look(op, container), kind)
<1>1. op.doing \in Lifecycle
      BY Zenon DEF IsOf, IsReconcile, IsPlain
<1>2. /\ {"create", "await", "start", "remove", "probe"}
           \subseteq OpStages \ {"answered"}
      /\ {"stopped", "failed"} \subseteq ReportStates \cup {"error"}
      BY Zenon DEF OpStages, ReportStates
<1>3. CASE op.doing = "provision"
  <2>1. PICK stage \in {"create", "await", "start"} :
          Look(op, container) = [op EXCEPT !.stage = stage]
        BY Zenon, <1>3 DEF Look
  <2> QED BY SMTT(20), <1>2, <2>1, StageIsOf
<1>4. CASE op.doing = "deprovision"
  <2>1. Look(op, container) = IF container = "absent" THEN Conclude(op, "stopped")
                              ELSE [op EXCEPT !.stage = "remove"]
        BY Zenon, <1>4 DEF Look
  <2> QED BY SMTT(20), <1>2, <2>1, StageIsOf, ConcludeIsOf
<1>5. CASE op.doing = "inspect"
  <2>1. Look(op, container) = IF container \in {"running", "sick"}
                              THEN [op EXCEPT !.stage = "probe"]
                              ELSE Conclude(op, "failed")
        BY Zenon, <1>5 DEF Look
  <2> QED BY SMTT(20), <1>2, <2>1, StageIsOf, ConcludeIsOf
<1> QED BY Zenon, <1>1, <1>3, <1>4, <1>5 DEF Lifecycle

\* One docker command or probe, or its failure.
LEMMA StepIsOf ==
  ASSUME NEW kind \in Lifecycle \cup {"reconcile"}, NEW op, IsOf(op, kind),
         Live(op), NEW container
  PROVE  /\ IsOf(Stepped(op, container).op, kind)
         /\ \A step \in OpFailures(op, container) : IsOf(step.op, kind)
<1>1. op.stage \in OpStages \ {"answered"}
      BY Zenon DEF IsOf, IsReconcile, IsPlain, Live
<1>2. /\ {"launch", "await"} \subseteq OpStages \ {"answered"}
      /\ {"ready", "stopped", "degraded", "failed", "error"}
           \subseteq ReportStates \cup {"error"}
      BY Zenon DEF OpStages, ReportStates
<1>3. ~ Works(op, container)
      BY Zenon, <1>1 DEF Works, OpStages
<1>4. IsOf(OpStep(op, container).op, kind)
  <2>1. CASE op.stage = "look"
    <3>1. OpStep(op, container).op = Look(op, container)
          BY Zenon, <2>1 DEF OpStep
    <3> QED BY Zenon, <3>1, LookIsOf
  <2>2. CASE op.stage \in {"create", "launch", "start", "await", "probe", "remove"}
    <3>1. \/ OpStep(op, container).op = [op EXCEPT !.stage = "launch"]
          \/ OpStep(op, container).op = [op EXCEPT !.stage = "await"]
          \/ \E answer \in {"ready", "stopped", "degraded", "failed", "error"} :
               OpStep(op, container).op = Conclude(op, answer)
          BY Zenon, <2>2 DEF OpStep
    <3> QED BY SMTT(20), <1>2, <3>1, StageIsOf, ConcludeIsOf
  <2> QED BY Zenon, <1>1, <2>1, <2>2 DEF OpStages
<1>5. ASSUME NEW step \in OpFailures(op, container)
      PROVE  IsOf(step.op, kind)
  <2>1. step.op = Conclude(op, "error") \/ step.op = Look(op, "absent")
    <3>1. \/ \E c \in {container, OpStep(op, container).container} :
               step = [op |-> Conclude(op, "error"), container |-> c]
          \/ step = [op |-> Look(op, "absent"), container |-> container]
          \/ step = [op |-> Conclude(op, "error"), container |-> "absent"]
          BY ZenonT(30), <1>5 DEF OpFailures
    <3> QED BY SMTT(20), <3>1
  <2> QED BY Zenon, <1>2, <2>1, LookIsOf, ConcludeIsOf
<1>6. Stepped(op, container) = OpStep(op, container)
      BY Zenon, <1>3 DEF Stepped
<1> QED BY Zenon, <1>4, <1>5, <1>6

\* What the Slave makes of a command: it refuses it, is ready already, or takes
\* the number over.
Accepted(h, kind, r, n, k) ==
  /\ \E x : calls' = [calls EXCEPT ![h] = x]
  /\ calls'[h].kind = kind /\ calls'[h].ref = r
  /\ \A s \in Refs \ {r} : pending'[s] = pending[s]
  /\ pending'[r] \in {pending[r], NoReport}
  /\ \/ /\ UNCHANGED activations
        /\ calls'[h].stage = "done"
        /\ \/ calls'[h].answer = "error"
           \/ /\ calls'[h].answer = "ready"
              /\ activations[r].revision = n
              /\ activations[r].state = "ready"
     \/ /\ activations' = [activations EXCEPT
             ![r] = Commanded(activations[r], DesiredBy(kind), n, k)]
        /\ calls'[h].stage = "read" /\ calls'[h].answer = "none"
        /\ calls'[h].next # "done"

\* provision and deprovision do one of these once they have the lock.
LEMMA AcceptIs ==
  ASSUME SlaveInv, NEW h \in Handlers, NEW kind \in {"provision", "deprovision"},
         NEW r \in Refs, NEW n, NEW k, Accept(h, kind, r, n, k)
  PROVE  Accepted(h, kind, r, n, k)
<1> DEFINE old == activations[r]
           verdict == LifecycleVerdict(old, DesiredBy(kind), n, k)
           ready == /\ verdict = "retry" /\ kind = "provision"
                    /\ old.state = "ready"
<1>1. \A x : calls' = [calls EXCEPT ![h] = x] => calls'[h] = x
      BY Zenon, ClientNames DEF SlaveInv, Shapes
<1>2. /\ pending' \in {pending, [pending EXCEPT ![r] = NoReport]}
      /\ DOMAIN pending = Refs
      BY Zenon DEF Accept, SlaveInv, Shapes
<1>3. /\ \A s \in Refs \ {r} : pending'[s] = pending[s]
      /\ pending'[r] \in {pending[r], NoReport}
      BY Zenon, <1>2
<1>4. CASE verdict = "refused"
  <2> DEFINE x == NewCall(kind, r, "done", "done", FALSE, "error")
  <2>1. calls' = [calls EXCEPT ![h] = x] /\ UNCHANGED activations
        BY Zenon, <1>4 DEF Accept
  <2>2. calls'[h] = x
        BY Zenon, <1>1, <2>1
  <2>3. /\ x.kind = kind /\ x.ref = r /\ x.stage = "done" /\ x.answer = "error"
        BY Zenon DEF NewCall
  <2> HIDE DEF x
  <2> QED BY Zenon, <1>3, <2>1, <2>2, <2>3 DEF Accepted
<1>5. CASE verdict # "refused" /\ ready
  <2> DEFINE x == NewCall(kind, r, "done", "done", TRUE, "ready")
  <2>1. calls' = [calls EXCEPT ![h] = x] /\ UNCHANGED activations
        BY Zenon, <1>5 DEF Accept
  <2>2. calls'[h] = x
        BY Zenon, <1>1, <2>1
  <2>3. /\ x.kind = kind /\ x.ref = r /\ x.stage = "done" /\ x.answer = "ready"
        BY Zenon DEF NewCall
  <2>4. old.revision = n /\ old.state = "ready"
        BY ZenonT(30), <1>5 DEF LifecycleVerdict
  <2> HIDE DEF x
  <2> QED BY Zenon, <1>3, <2>1, <2>2, <2>3, <2>4 DEF Accepted
<1>6. CASE ~ (verdict = "refused" \/ ready)
  <2>1. PICK next \in {"ask", "decide"}, retry \in BOOLEAN :
          calls' = [calls EXCEPT ![h] =
                      NewCall(kind, r, "read", next, retry, "none")]
        BY Zenon, <1>6 DEF Accept
  <2> DEFINE x == NewCall(kind, r, "read", next, retry, "none")
  <2>2. activations' = [activations EXCEPT
                 ![r] = Commanded(activations[r], DesiredBy(kind), n, k)]
        BY ZenonT(30), <1>6 DEF Accept
  <2>3. /\ x.kind = kind /\ x.ref = r /\ x.stage = "read" /\ x.answer = "none"
        /\ x.next # "done"
        BY Zenon DEF NewCall
  <2>4. calls' = [calls EXCEPT ![h] = x]
        BY Zenon, <2>1
  <2> HIDE DEF x
  <2>5. calls'[h] = x
        BY Zenon, <1>1, <2>4
  <2> QED BY Zenon, <1>3, <2>2, <2>3, <2>4, <2>5 DEF Accepted
<1> QED BY Zenon, <1>4, <1>5, <1>6

\* No later than what the Observer shows, if the coordinate shares no command id.
Trails(r, a, s) ==
  /\ a \in MaybeActivation
  /\ r \in Own =>
       /\ a.revision <= s.revision
       /\ a.revision = s.revision => a.desired = s.desired

\* Revisions are numbers; that of an absent activation is 0.
LEMMA RevisionIsNumber ==
  ASSUME NEW a \in MaybeActivation
  PROVE  a.revision \in Nat
<1>1. CASE a \in Activation
      BY ZenonT(30), <1>1 DEF Activation
<1>2. CASE a = NoActivation
      BY SMTT(20), <1>2 DEF NoActivation
<1> QED BY Zenon, <1>1, <1>2 DEF MaybeActivation

\* What lags behind an activation lags behind its successor.
LEMMA TrailsOn ==
  ASSUME NEW r, NEW a, NEW s \in MaybeActivation, NEW t \in MaybeActivation,
         Trails(r, a, s),
         \/ t.revision = s.revision /\ t.desired = s.desired
         \/ t.revision = s.revision + 1
  PROVE  Trails(r, a, t)
<1>1. a \in MaybeActivation /\ a.revision \in Nat /\ s.revision \in Nat
      BY Zenon, RevisionIsNumber DEF Trails
<1> QED BY SMTT(20), <1>1 DEF Trails

\* An activation with another state lags as the old one does.
LEMMA StateTrails ==
  ASSUME NEW r, NEW a, NEW s, Trails(r, a, s), a # NoActivation,
         NEW state \in ActivationStates
  PROVE  LET b == [a EXCEPT !.state = state] IN
         /\ Trails(r, b, s) /\ b # NoActivation
         /\ b.revision = a.revision /\ b.desired = a.desired
         /\ b.state = state /\ b.key = a.key
<1>1. a \in Activation
      BY Zenon DEF Trails, MaybeActivation
<1> QED BY Zenon, <1>1 DEF Trails, MaybeActivation, Activation, NoActivation

\* What the Observer makes of a desired state it does not refuse.
LEMMA AssignedIs ==
  ASSUME NEW s \in MaybeActivation, NEW desired \in Desires, NEW key \in Keys,
         ~ DesireRefused(s, desired, key)
  PROVE  LET t == SetDesired(s, desired, key) IN
         /\ t \in Activation /\ t.desired = desired
         /\ t = s \/ t.revision = s.revision + 1
<1>1. CASE s.key = key \/ s.desired = desired
  <2>1. SetDesired(s, desired, key) = s
        BY Zenon, <1>1 DEF SetDesired
  <2>2. s # NoActivation
        BY SMTT(20), <1>1, NoKeyIsNone DEF NoActivation, Desires
  <2>3. s \in Activation /\ s.desired = desired
        BY Zenon, <1>1, <2>2 DEF MaybeActivation, DesireRefused
  <2> QED BY Zenon, <2>1, <2>3
<1>2. CASE ~ (s.key = key \/ s.desired = desired)
  <2> DEFINE state == IF desired = "running" THEN "provisioning"
                      ELSE IF s = NoActivation THEN "stopped" ELSE s.state
  <2>1. SetDesired(s, desired, key) =
          [desired |-> desired, revision |-> s.revision + 1, key |-> key,
           state |-> state]
        BY Zenon, <1>2 DEF SetDesired
  <2>2. s.revision \in Nat
        BY SMTT(20) DEF MaybeActivation, Activation, NoActivation
  <2>3. state \in ActivationStates
        BY Zenon DEF MaybeActivation, Activation, ActivationStates
  <2> HIDE DEF state
  <2> QED BY SMTT(20), <2>1, <2>2, <2>3 DEF Activation
<1> QED BY Zenon, <1>1, <1>2

-----------------------------------------------------------------------------
(***************************************************************************)
(* The Slave's own steps and the contract of the Observer and the Slave.   *)
(***************************************************************************)

AllTrail(t) == \A r \in Refs : Trails(r, t[r], shown[r])

\* The three places an activation is kept in, and what a save is based on.
TablesTrail ==
  /\ shown = [r \in Refs |-> shown[r]]
  /\ \A r \in Refs : shown[r] \in MaybeActivation
  /\ AllTrail(activations)
  /\ AllTrail(replica.of)
  /\ \A c \in Workers : calls[c].stage = "commit" => AllTrail(calls[c].snapshot.of)

\* An answered command was at most the current one.
AnswersTrail ==
  \A a \in desires, q \in Requests :
    a.id = DesireId(q) =>
      /\ a.activation \in Activation
      /\ a.activation.desired = DesiredBy(q.kind)
      /\ Trails(q.ref, a.activation, shown[q.ref])

\* The operations of the Driver carry a number the Observer assigned.
IsOperation(d) ==
  /\ DOMAIN d = {"stage", "request", "revision", "key", "state"}
  /\ d.stage \in {"sent", "called", "lost", "report"}
  /\ d.request \in Requests
  /\ d.key \in Keys
  /\ d.revision \in Nat \ {0}
  /\ d.stage = "report" => d.state \in ReportStates

Carries(d, s) ==
  d.request.ref \in Own =>
    /\ d.revision <= s.revision
    /\ d.revision = s.revision => s.desired = DesiredBy(d.request.kind)

DriverTrails ==
  /\ DOMAIN driver = Handlers
  /\ \A h \in Handlers :
       \/ driver[h] = NoOperation
       \/ IsOperation(driver[h]) /\ Carries(driver[h], shown[driver[h].request.ref])

Concluded(x) ==
  x.stage = "done" \/ (x.stage \in {"read", "commit"} /\ x.next = "done")

\* The Slave's handler x serves the operation d with the table t.
Serves(x, d, t) ==
  /\ d.stage \in {"called", "lost"}
  /\ x.kind = d.request.kind /\ x.ref = d.request.ref
  /\ x.answer \in ReportStates \cup {"none", "error"}
  /\ Holds(x) => t[x.ref].revision = d.revision
  /\ Concluded(x) => x.answer # "none"

HandlersServe ==
  \A h \in Handlers :
    calls[h] = Idle \/ Serves(calls[h], driver[h], activations)

\* What the health loop sends is what it keeps, unless it was dropped since.
SameReport(p, q) == p.revision = q.revision /\ p.state = q.state

HealthReports ==
  /\ \A r \in Refs : pending[r] = NoReport \/ pending[r] \in Report
  /\ calls["health"].stage \in {"read", "commit"} =>
       pending[calls["health"].ref] # NoReport
  /\ calls["health"].stage = "post" =>
       LET report == calls["health"].report
           kept == pending[calls["health"].ref]
       IN  /\ report \in Report /\ report.revision # 0
           /\ kept # NoReport => SameReport(kept, report)

PluginAnswers ==
  /\ DOMAIN ops = Servants
  /\ \A c \in Workers :
       calls[c].stage = "wait" => ops[c] = NoOp \/ IsPlain(ops[c], calls[c].kind)
  /\ calls["startup"].stage = "wait" =>
       ops["startup"] = NoOp \/ IsReconcile(ops["startup"])

ContractInv ==
  /\ SlaveInv
  /\ TablesTrail
  /\ AnswersTrail
  /\ DriverTrails
  /\ HandlersServe
  /\ HealthReports
  /\ PluginAnswers

\* What the Slave sends after a step it sent before, or has now.
Now(r) ==
  [ref |-> r, revision |-> activations[r].revision,
   state |-> activations[r].state]

MailKept == \A m \in Reports' : m \in Reports \/ \E r \in Refs : m = Now(r)'

-----------------------------------------------------------------------------

\* The reports on their way, place by place.
LEMMA ReportsAre ==
  ASSUME NEW m
  PROVE  m \in Reports <=>
    \/ \E h \in Handlers :
         /\ driver[h].stage = "report"
         /\ m = [ref |-> driver[h].request.ref,
                 revision |-> driver[h].revision, state |-> driver[h].state]
    \/ \E h \in Handlers :
         /\ calls[h] # Idle /\ calls[h].answer \in ReportStates
         /\ m = [ref |-> calls[h].ref, revision |-> driver[h].revision,
                 state |-> calls[h].answer]
    \/ \E r \in Refs :
         /\ pending[r] # NoReport
         /\ m = [ref |-> r, revision |-> pending[r].revision,
                 state |-> pending[r].state]
    \/ /\ calls["health"].stage = "post"
       /\ m = [ref |-> calls["health"].ref,
               revision |-> calls["health"].report.revision,
               state |-> calls["health"].report.state]
  BY ZenonT(30) DEF Reports

\* The step of one worker keeps the contract: it only writes states, answers
\* with a state its coordinate has, and keeps a report the coordinate has.
LEMMA WorkerMoves ==
  ASSUME ContractInv, SlaveInv', HealthReports', PluginAnswers',
         UNCHANGED <<shown, desires, driver>>,
         NEW c \in Workers, NEW x,
         calls' = [calls EXCEPT ![c] = x],
         \A r \in Refs :
           /\ Trails(r, activations'[r], shown[r])
           /\ activations'[r].revision = activations[r].revision
           /\ Trails(r, replica'.of[r], shown[r])
           /\ x.stage = "commit" => Trails(r, x.snapshot.of[r], shown[r]),
         c \in Handlers =>
           x = Idle \/ Serves(x, driver[c], activations')
  PROVE  ContractInv'
<1>1. \A d \in Clients : calls'[d] = IF d = c THEN x ELSE calls[d]
      BY Zenon, ClientNames DEF ContractInv, SlaveInv, Shapes
<1>2. TablesTrail'
  <2>1. \A d \in Workers : calls'[d].stage = "commit" =>
          \A r \in Refs : Trails(r, calls'[d].snapshot.of[r], shown[r])
        BY SMTT(20), <1>1, ClientNames DEF ContractInv, TablesTrail, AllTrail
  <2> QED BY Zenon, <2>1 DEF ContractInv, TablesTrail, AllTrail
<1>3. AnswersTrail' /\ DriverTrails'
      BY Zenon DEF ContractInv, AnswersTrail, DriverTrails
<1>4. HandlersServe'
  <2> SUFFICES ASSUME NEW h \in Handlers
               PROVE  calls'[h] = Idle
                        \/ Serves(calls'[h], driver[h], activations')
      BY Zenon DEF HandlersServe
  <2>1. CASE h = c
        BY Zenon, <1>1, <2>1, ClientNames
  <2>2. CASE h # c
    <3>1. calls'[h] = calls[h] /\ h \in Workers
          BY Zenon, <1>1, <2>2, ClientNames
    <3>2. CASE calls[h] = Idle
          BY Zenon, <3>1, <3>2
    <3>3. CASE calls[h] # Idle
      <4>1. Serves(calls[h], driver[h], activations)
            BY Zenon, <3>3 DEF ContractInv, HandlersServe
      <4>2. Holds(calls[h]) => calls[h].ref \in Refs
            BY Zenon, <3>1, BusyIsCall DEF ContractInv, Holds, IsCall
      <4> QED BY Zenon, <3>1, <4>1, <4>2 DEF Serves
    <3> QED BY Zenon, <3>2, <3>3
  <2> QED BY Zenon, <2>1, <2>2
<1> QED BY Zenon, <1>2, <1>3, <1>4 DEF ContractInv

\* A report of the health loop: kept before, or what the coordinate has now.
Sent(r, revision, state) ==
  \/ /\ pending[r] # NoReport
     /\ pending[r].revision = revision /\ pending[r].state = state
  \/ activations'[r].revision = revision /\ activations'[r].state = state

\* What a worker's step adds to the reports on their way.
LEMMA WorkerSends ==
  ASSUME ContractInv, UNCHANGED driver, NEW c \in Workers, NEW x,
         calls' = [calls EXCEPT ![c] = x],
         c \in Handlers /\ x # Idle /\ x.answer \in ReportStates =>
           \/ calls[c] # Idle /\ x.answer = calls[c].answer /\ x.ref = calls[c].ref
           \/ /\ x.ref \in Refs /\ activations'[x.ref].revision = driver[c].revision
              /\ activations'[x.ref].state = x.answer,
         \A r \in Refs : pending'[r] # NoReport =>
           Sent(r, pending'[r].revision, pending'[r].state),
         c = "health" /\ x.stage = "post" =>
           /\ x.ref \in Refs
           /\ \/ calls["health"].stage = "post" /\ x = calls["health"]
              \/ Sent(x.ref, x.report.revision, x.report.state)
  PROVE  MailKept
<1>1. \A d \in Clients : calls'[d] = IF d = c THEN x ELSE calls[d]
      BY Zenon, ClientNames DEF ContractInv, SlaveInv, Shapes
<1> SUFFICES ASSUME NEW m \in Reports'
             PROVE  m \in Reports \/ \E r \in Refs : m = Now(r)'
    BY Zenon DEF MailKept
<1>2. ASSUME NEW r \in Refs,
             m = [ref |-> r, revision |-> m.revision, state |-> m.state],
             Sent(r, m.revision, m.state)
      PROVE  m \in Reports \/ \E q \in Refs : m = Now(q)'
  <2>1. CASE /\ pending[r] # NoReport
             /\ pending[r].revision = m.revision
             /\ pending[r].state = m.state
        BY Zenon, <1>2, <2>1, ReportsAre
  <2>2. CASE /\ activations'[r].revision = m.revision
             /\ activations'[r].state = m.state
        BY Zenon, <1>2, <2>2 DEF Now
  <2> QED BY Zenon, <1>2, <2>1, <2>2 DEF Sent
<1>3. ASSUME NEW h \in Handlers, driver[h].stage = "report",
             m = [ref |-> driver[h].request.ref,
                  revision |-> driver[h].revision, state |-> driver[h].state]
      PROVE  m \in Reports
      BY Zenon, <1>3, ReportsAre
<1>4. ASSUME NEW h \in Handlers,
             calls'[h] # Idle, calls'[h].answer \in ReportStates,
             m = [ref |-> calls'[h].ref, revision |-> driver[h].revision,
                  state |-> calls'[h].answer]
      PROVE  m \in Reports \/ \E r \in Refs : m = Now(r)'
  <2>1. CASE calls[h] # Idle /\ calls'[h].answer = calls[h].answer
               /\ calls'[h].ref = calls[h].ref
        BY Zenon, <1>4, <2>1, ReportsAre
  <2>2. CASE h = c /\ ~ (calls[h] # Idle /\ x.answer = calls[h].answer
                           /\ x.ref = calls[h].ref)
    <3>1. calls'[h] = x
          BY Zenon, <1>1, <2>2, ClientNames
    <3> QED BY Zenon, <1>4, <2>2, <3>1 DEF Now
  <2>3. h # c => calls'[h] = calls[h]
        BY Zenon, <1>1, ClientNames
  <2>4. h = c => calls'[h] = x
        BY Zenon, <1>1, ClientNames
  <2> QED BY Zenon, <1>4, <2>1, <2>2, <2>3, <2>4
<1>5. ASSUME NEW r \in Refs, pending'[r] # NoReport,
             m = [ref |-> r, revision |-> pending'[r].revision,
                  state |-> pending'[r].state]
      PROVE  m \in Reports \/ \E q \in Refs : m = Now(q)'
  <2>1. m.revision = pending'[r].revision /\ m.state = pending'[r].state
        BY Zenon, <1>5
  <2> QED BY Zenon, <1>2, <1>5, <2>1
<1>6. ASSUME calls'["health"].stage = "post",
             m = [ref |-> calls'["health"].ref,
                  revision |-> calls'["health"].report.revision,
                  state |-> calls'["health"].report.state]
      PROVE  m \in Reports \/ \E r \in Refs : m = Now(r)'
  <2>1. CASE calls'["health"] = calls["health"]
        BY Zenon, <1>6, <2>1, ReportsAre
  <2>2. CASE calls'["health"] # calls["health"]
    <3>1. c = "health" /\ calls'["health"] = x
          BY Zenon, <1>1, <2>2, ClientNames
    <3>2. /\ m = [ref |-> x.ref, revision |-> x.report.revision,
                  state |-> x.report.state]
          /\ m.revision = x.report.revision /\ m.state = x.report.state
          BY Zenon, <1>6, <3>1
    <3>3. x.ref \in Refs /\ Sent(x.ref, m.revision, m.state)
          BY Zenon, <1>6, <2>2, <3>1, <3>2
    <3> QED BY Zenon, <1>2, <3>2, <3>3
  <2> QED BY Zenon, <2>1, <2>2
<1>7. \/ \E h \in Handlers :
           /\ driver[h].stage = "report"
           /\ m = [ref |-> driver[h].request.ref,
                   revision |-> driver[h].revision, state |-> driver[h].state]
      \/ \E h \in Handlers :
           /\ calls'[h] # Idle /\ calls'[h].answer \in ReportStates
           /\ m = [ref |-> calls'[h].ref, revision |-> driver[h].revision,
                   state |-> calls'[h].answer]
      \/ \E r \in Refs :
           /\ pending'[r] # NoReport
           /\ m = [ref |-> r, revision |-> pending'[r].revision,
                   state |-> pending'[r].state]
      \/ /\ calls'["health"].stage = "post"
         /\ m = [ref |-> calls'["health"].ref,
                 revision |-> calls'["health"].report.revision,
                 state |-> calls'["health"].report.state]
      BY ZenonT(30) DEF Reports
<1> QED BY Zenon, <1>3, <1>4, <1>5, <1>6, <1>7

\* A worker at an await holds the lock of its coordinate, which has an
\* activation; a handler serves a life cycle operation of the Driver.
LEMMA WorkerCall ==
  ASSUME ContractInv, NEW c \in Workers, calls[c].stage \in BusyStages
  PROVE  /\ IsCall(c, calls[c]) /\ Holds(calls[c]) /\ Serving
         /\ calls[c].ref \in Refs
         /\ activations[calls[c].ref] # NoActivation
         /\ Trails(calls[c].ref, activations[calls[c].ref], shown[calls[c].ref])
         /\ activations[calls[c].ref].desired = Towards(calls[c].kind)
         /\ c = "health" => calls[c].kind = "inspect" /\ c \notin Handlers
         /\ c # "health" => /\ c \in Handlers
                            /\ calls[c].kind \in {"provision", "deprovision"}
                            /\ Serves(calls[c], driver[c], activations)
<1>1. /\ IsCall(c, calls[c]) /\ Serving
      /\ calls[c].kind # "invoke" =>
           activations[calls[c].ref].desired = Towards(calls[c].kind)
      BY Zenon, BusyIsCall DEF ContractInv
<1>2. calls[c] # Idle
      BY DEF Idle, BusyStages
<1>3. ASSUME c = "health"
      PROVE  calls[c].kind = "inspect" /\ c \notin Handlers
      BY Zenon, <1>1, <1>3, ClientNames DEF IsCall, KindsOf
<1>4. ASSUME c # "health"
      PROVE  /\ c \in Handlers
             /\ calls[c].kind \in {"provision", "deprovision"}
             /\ Serves(calls[c], driver[c], activations)
  <2>1. c \in Handlers
        BY Zenon, <1>4 DEF Workers, Clients
  <2>2. Serves(calls[c], driver[c], activations)
        BY Zenon, <1>2, <2>1 DEF ContractInv, HandlersServe
  <2>3. driver[c] # NoOperation
        BY <2>2 DEF Serves, NoOperation
  <2>4. driver[c].request \in Request
        BY Zenon, <2>1, <2>3, RequestsAreSound
        DEF ContractInv, DriverTrails, IsOperation
  <2>5. calls[c].kind \in {"provision", "deprovision"}
        BY Zenon, <2>2, <2>4 DEF Request, Serves
  <2> QED BY Zenon, <2>1, <2>2, <2>5
<1>5. calls[c].kind # "invoke" /\ calls[c].ref \in Refs
      BY Zenon, <1>1, <1>3, <1>4 DEF IsCall
<1>6. activations[calls[c].ref].desired # "none"
      BY Zenon, <1>1, <1>5 DEF Towards
<1>7. /\ activations[calls[c].ref] # NoActivation
      /\ Trails(calls[c].ref, activations[calls[c].ref], shown[calls[c].ref])
      BY <1>5, <1>6 DEF ContractInv, TablesTrail, AllTrail, NoActivation
<1> QED BY Zenon, <1>1, <1>3, <1>4, <1>5, <1>7 DEF Holds

\* A step of one worker leaves the operations of the others alone, or ends
\* them.
OpsStay(c) ==
  /\ DOMAIN ops' = Servants
  /\ \A s \in Servants \ {c, "replay"} : ops'[s] \in {ops[s], NoOp}

\* The plugin works for whoever waits.
LEMMA PluginGoesOn ==
  ASSUME ContractInv, NEW c \in Workers, NEW x,
         calls' = [calls EXCEPT ![c] = x],
         OpsStay(c),
         x.stage = "wait" => ops'[c] = NoOp \/ IsPlain(ops'[c], x.kind)
  PROVE  PluginAnswers'
<1>1. \A d \in Clients : calls'[d] = IF d = c THEN x ELSE calls[d]
      BY Zenon, ClientNames DEF ContractInv, SlaveInv, Shapes
<1>2. \A d \in Clients : d \in Servants /\ d # "replay"
      BY Zenon, SlaveConstantsAreSound DEF Servants, Clients
<1>3. ASSUME NEW d \in Workers, calls'[d].stage = "wait"
      PROVE  ops'[d] = NoOp \/ IsPlain(ops'[d], calls'[d].kind)
  <2>1. CASE d = c
        BY Zenon, <1>1, <1>3, <2>1, ClientNames
  <2>2. CASE d # c
    <3>1. calls'[d] = calls[d] /\ ops'[d] \in {ops[d], NoOp}
          BY Zenon, <1>1, <1>2, <2>2, ClientNames DEF OpsStay
    <3>2. ops[d] = NoOp \/ IsPlain(ops[d], calls[d].kind)
          BY Zenon, <1>3, <3>1 DEF ContractInv, PluginAnswers
    <3> QED BY Zenon, <3>1, <3>2
  <2> QED BY Zenon, <2>1, <2>2
<1>4. ASSUME calls'["startup"].stage = "wait"
      PROVE  ops'["startup"] = NoOp \/ IsReconcile(ops'["startup"])
  <2>1. calls'["startup"] = calls["startup"]
          /\ ops'["startup"] \in {ops["startup"], NoOp}
        BY Zenon, <1>1, <1>2, ClientNames DEF OpsStay
  <2>2. ops["startup"] = NoOp \/ IsReconcile(ops["startup"])
        BY Zenon, <1>4, <2>1 DEF ContractInv, PluginAnswers
  <2> QED BY Zenon, <2>1, <2>2
<1> QED BY Zenon, <1>3, <1>4 DEF PluginAnswers, OpsStay

\* A step that does not touch the operations.
LEMMA OpsUntouched ==
  ASSUME ContractInv, UNCHANGED ops, NEW c
  PROVE  OpsStay(c)
  BY Zenon DEF ContractInv, PluginAnswers, OpsStay

\* The health loop and its reports are left alone.
LEMMA HealthUntouched ==
  ASSUME ContractInv, UNCHANGED pending, calls'["health"] = calls["health"]
  PROVE  HealthReports'
  BY Zenon DEF ContractInv, HealthReports

\* Tables and reports that nobody touches stay as they are.
LEMMA TablesUntouched ==
  ASSUME ContractInv
  PROVE  \A r \in Refs : /\ Trails(r, activations[r], shown[r])
                         /\ Trails(r, replica.of[r], shown[r])
                         /\ activations[r].revision = activations[r].revision
  BY Zenon DEF ContractInv, TablesTrail, AllTrail

\* The Slave reads its row.
LEMMA ReadRowFollows ==
  ASSUME ContractInv, NEW c \in Clients, ReadRow(c),
         UNCHANGED <<observerVars, driver>>
  PROVE  ContractInv' /\ MailKept
<1> DEFINE x == [calls[c] EXCEPT !.stage = "commit", !.snapshot = replica]
<1>0. SlaveInv'
      BY Zenon, ReadRowKeeps DEF ContractInv
<1>1. /\ UNCHANGED <<shown, desires, driver, activations, pending, replica, ops>>
      /\ calls[c].stage = "read" /\ calls[c].stage \in BusyStages
      BY Zenon DEF ReadRow, observerVars, books, plugin, BusyStages
<1>2. c \in Workers
      BY Zenon, <1>1, AtWork DEF ContractInv, BusyStages
<1>3. /\ IsCall(c, calls[c]) /\ Holds(calls[c])
      /\ c = "health" => c \notin Handlers
      /\ c # "health" => Serves(calls[c], driver[c], activations)
      BY Zenon, <1>1, <1>2, WorkerCall
<1>4. calls' = [calls EXCEPT ![c] = x]
      BY ZenonT(30) DEF ReadRow
<1>5. /\ x.stage = "commit" /\ x.snapshot = replica /\ x.ref = calls[c].ref
      /\ x.kind = calls[c].kind /\ x.answer = calls[c].answer
      /\ x.next = calls[c].next
      BY Zenon, <1>3 DEF IsCall
<1> HIDE DEF x
<1>6. c # "health" => Serves(x, driver[c], activations)
      BY Zenon, <1>1, <1>3, <1>5 DEF Serves, Holds, Concluded
<1>7. HealthReports'
  <2>1. \/ /\ calls'["health"].stage = "commit"
           /\ calls'["health"].ref = calls["health"].ref
           /\ calls["health"].stage = "read"
        \/ calls'["health"] = calls["health"]
        BY Zenon, <1>1, <1>2, <1>4, <1>5, ClientNames DEF ContractInv,
           SlaveInv, Shapes
  <2> QED BY Zenon, <1>1, <2>1 DEF ContractInv, HealthReports
<1>8. PluginAnswers'
      BY ZenonT(30), <1>1, <1>2, <1>4, <1>5, OpsUntouched,
         PluginGoesOn
<1>9. calls[c] # Idle
      BY SMTT(20), <1>1 DEF Idle
<1>10. ContractInv'
       BY ZenonT(30), <1>0, <1>1, <1>2, <1>3, <1>4, <1>5, <1>6, <1>7, <1>8,
          TablesUntouched, WorkerMoves
<1>11. MailKept
       BY ZenonT(30), <1>1, <1>2, <1>4, <1>5, <1>9, WorkerSends DEF Sent
<1> QED BY Zenon, <1>10, <1>11

\* A report the health loop keeps has a number of the Observer.
LEMMA KeptIsNumbered ==
  ASSUME ContractInv, NEW r \in Refs, pending[r] # NoReport
  PROVE  pending[r] \in Report /\ pending[r].revision # 0
<1>1. /\ activations[r].desired = "running" /\ activations[r] \in MaybeActivation
      /\ activations[r].revision = pending[r].revision
      BY Zenon DEF ContractInv, SlaveInv, PendingIsCurrent, TablesTrail, AllTrail,
                   Trails
<1>2. activations[r].revision # 0
      BY <1>1 DEF MaybeActivation, Activation, NoActivation
<1>3. pending[r] \in Report
      BY Zenon DEF ContractInv, HealthReports
<1> QED BY Zenon, <1>1, <1>2, <1>3

\* The health loop sends the report it keeps.
LEMMA PostingKept ==
  ASSUME ContractInv, NEW r \in Refs, pending[r] # NoReport, UNCHANGED pending,
         calls' = [calls EXCEPT !["health"] = Posting(r, pending[r])]
  PROVE  HealthReports'
<1>1. calls'["health"] = Posting(r, pending[r])
      BY Zenon, ClientNames DEF ContractInv, SlaveInv, Shapes
<1>2. /\ calls'["health"].stage = "post" /\ calls'["health"].ref = r
      /\ calls'["health"].report = pending[r]
      BY SMTT(20), <1>1 DEF Posting
<1>3. pending[r] \in Report /\ pending[r].revision # 0
      BY Zenon, KeptIsNumbered
<1>4. \A q \in Refs : pending'[q] = NoReport \/ pending'[q] \in Report
      BY Zenon DEF ContractInv, HealthReports
<1> QED BY Zenon, <1>2, <1>3, <1>4 DEF HealthReports, SameReport

\* The Slave commits its row: what it has read, with its own record.
LEMMA CommitRowFollows ==
  ASSUME ContractInv, NEW c \in Clients, CommitRow(c),
         UNCHANGED <<observerVars, driver>>
  PROVE  ContractInv' /\ MailKept
<1> DEFINE y == calls[c]
           r == y.ref
           x == IF c = "health" THEN Posting(r, pending[r])
                ELSE [y EXCEPT !.stage = y.next, !.snapshot = EmptyRow]
<1>0. SlaveInv'
      BY Zenon, CommitRowKeeps DEF ContractInv
<1>1. /\ UNCHANGED <<shown, desires, driver, activations, pending, ops>>
      /\ y.stage = "commit" /\ y.stage \in BusyStages
      /\ replica' = Persisted(y.snapshot, r, activations[r])
      /\ calls' = [calls EXCEPT ![c] = x]
      BY Zenon DEF CommitRow, observerVars, books, plugin, BusyStages
<1>2. c \in Workers
      BY Zenon, <1>1, AtWork DEF ContractInv, BusyStages
<1>3. /\ IsCall(c, y) /\ Holds(y) /\ r \in Refs
      /\ Trails(r, activations[r], shown[r])
      /\ c = "health" => c \notin Handlers
      /\ c # "health" => Serves(y, driver[c], activations)
      BY Zenon, <1>1, <1>2, WorkerCall
<1>4. \A q \in Refs : Trails(q, replica'.of[q], shown[q])
  <2>1. replica'.of = [y.snapshot.of EXCEPT ![r] = activations[r]]
        BY Zenon, <1>1 DEF Persisted
  <2>2. /\ IsTable(y.snapshot.of)
        /\ \A q \in Refs : Trails(q, y.snapshot.of[q], shown[q])
        BY Zenon, <1>1, <1>2, <1>3
        DEF IsCall, IsRow, ContractInv, TablesTrail, AllTrail
  <2> QED BY Zenon, <1>3, <2>1, <2>2 DEF IsTable
<1>5. CASE c = "health"
  <2>1. x = Posting(r, pending[r]) /\ pending[r] # NoReport
        BY Zenon, <1>1, <1>5 DEF ContractInv, HealthReports
  <2>2. HealthReports'
        BY Zenon, <1>1, <1>3, <1>5, <2>1, PostingKept
  <2>3. /\ x.stage = "post" /\ x.ref = r /\ x.report = pending[r]
        BY ZenonT(30), <2>1 DEF Posting
  <2> HIDE DEF x
  <2>4. PluginAnswers'
        BY ZenonT(30), <1>1, <1>2, <2>3, OpsUntouched,
         PluginGoesOn
  <2>5. ContractInv'
        BY ZenonT(30), <1>0, <1>1, <1>2, <1>3, <1>4, <1>5, <2>2, <2>3, <2>4,
           TablesUntouched, WorkerMoves
  <2>6. MailKept
        BY ZenonT(30), <1>1, <1>2, <1>3, <1>5, <2>1, <2>3, WorkerSends DEF Sent
  <2> QED BY Zenon, <2>5, <2>6
<1>6. CASE c # "health"
  <2>1. /\ x.stage = y.next /\ x.ref = r
        /\ x.kind = y.kind /\ x.answer = y.answer
        /\ x.next = y.next /\ y.next \in {"ask", "decide", "done"}
        BY Zenon, <1>3, <1>6 DEF IsCall
  <2> HIDE DEF x
  <2>2. calls[c] # Idle
        BY <1>1 DEF Idle
  <2>3. Serves(x, driver[c], activations)
        BY ZenonT(30), <1>1, <1>3, <1>6, <2>1 DEF Serves, Holds, Concluded
  <2>4. HealthReports'
    <3>1. calls'["health"] = calls["health"]
          BY Zenon, <1>1, <1>6, ClientNames DEF ContractInv, SlaveInv, Shapes
    <3> QED BY Zenon, <1>1, <3>1, HealthUntouched
  <2>5. PluginAnswers'
        BY ZenonT(30), <1>1, <1>2, <2>1, OpsUntouched,
         PluginGoesOn
  <2>6. ContractInv'
        BY ZenonT(30), <1>0, <1>1, <1>2, <1>4, <2>1, <2>3, <2>4, <2>5,
           TablesUntouched, WorkerMoves
  <2>7. MailKept
        BY ZenonT(30), <1>1, <1>2, <1>6, <2>1, <2>2, WorkerSends DEF Sent
  <2> QED BY Zenon, <2>6, <2>7
<1> QED BY Zenon, <1>5, <1>6

\* A worker that only changes its stage before it is answered.
LEMMA StageFollows ==
  ASSUME ContractInv, SlaveInv', NEW c \in Workers,
         calls[c].stage \in BusyStages,
         NEW stage \in BusyStages \ {"read", "commit"},
         calls' = [calls EXCEPT ![c].stage = stage],
         UNCHANGED <<shown, desires, driver, activations, pending, replica>>,
         PluginAnswers'
  PROVE  ContractInv' /\ MailKept
<1> DEFINE x == [calls[c] EXCEPT !.stage = stage]
<1>1. calls' = [calls EXCEPT ![c] = x]
      BY Zenon
<1>2. /\ IsCall(c, calls[c]) /\ Holds(calls[c])
      /\ c = "health" => c \notin Handlers
      /\ c # "health" => Serves(calls[c], driver[c], activations)
      BY Zenon, WorkerCall
<1>3. /\ x.stage = stage /\ x.ref = calls[c].ref /\ x.kind = calls[c].kind
      /\ x.answer = calls[c].answer /\ x.next = calls[c].next
      BY Zenon, <1>2 DEF IsCall
<1>4. /\ stage \notin {"read", "commit", "done", "post", "idle"}
      /\ calls[c] # Idle
      BY DEF BusyStages, Idle
<1> HIDE DEF x
<1>5. c # "health" => Serves(x, driver[c], activations)
      BY Zenon, <1>2, <1>3, <1>4 DEF Serves, Holds, Concluded
<1>6. HealthReports'
  <2>1. \/ calls'["health"].stage \notin {"read", "commit", "post"}
        \/ calls'["health"] = calls["health"]
        BY Zenon, <1>1, <1>3, <1>4, ClientNames DEF ContractInv, SlaveInv, Shapes
  <2> QED BY Zenon, <2>1 DEF ContractInv, HealthReports
<1>7. ContractInv'
      BY ZenonT(30), <1>1, <1>2, <1>3, <1>4, <1>5, <1>6, TablesUntouched, WorkerMoves
<1>8. MailKept
      BY ZenonT(30), <1>1, <1>3, <1>4, WorkerSends DEF Sent
<1> QED BY Zenon, <1>7, <1>8

\* A request goes to the plugin, or waits for the replay.
LEMMA AskFollows ==
  ASSUME ContractInv, NEW c \in Clients, Ask(c) \/ Replayed(c),
         UNCHANGED <<observerVars, driver>>
  PROVE  ContractInv' /\ MailKept
<1>0. SlaveInv'
      BY Zenon, AskKeeps DEF ContractInv
<1>1. /\ calls[c].stage \in {"ask", "replay"}
      /\ UNCHANGED <<shown, desires, driver, activations, pending, replica>>
      BY Zenon DEF Ask, Replayed, observerVars, books
<1>2. c \in Workers /\ calls[c].stage \in BusyStages
      BY Zenon, <1>1, AtWork DEF ContractInv, BusyStages
<1>3. IsCall(c, calls[c])
      BY Zenon, <1>2, WorkerCall
<1>4. /\ DOMAIN ops = Servants /\ c \in Servants /\ c # "replay"
      /\ "replay" \in Servants
      BY Zenon, <1>2, SlaveConstantsAreSound
      DEF ContractInv, PluginAnswers, Servants, Clients, Workers
<1>w. IsPlain(Wanted(c), calls[c].kind)
      BY Zenon, NewOpIsPlain DEF Wanted
<1>5. ASSUME NEW stage \in {"wait", "replay"},
             calls' = [calls EXCEPT ![c].stage = stage],
             DOMAIN ops' = Servants,
             \A s \in Servants \ {c, "replay"} : ops'[s] = ops[s],
             stage = "wait" => ops'[c] = Wanted(c)
      PROVE  ContractInv' /\ MailKept
  <2> DEFINE x == [calls[c] EXCEPT !.stage = stage]
  <2>1. calls' = [calls EXCEPT ![c] = x] /\ stage \in BusyStages \ {"read", "commit"}
        BY Zenon, <1>5 DEF BusyStages
  <2>2. x.stage = stage /\ x.kind = calls[c].kind
        BY Zenon, <1>3 DEF IsCall
  <2>3. stage = "wait" => IsPlain(ops'[c], x.kind)
        BY Zenon, <1>5, <2>2, <1>w
  <2> HIDE DEF x
  <2>5. OpsStay(c)
        BY Zenon, <1>5 DEF OpsStay
  <2>6. x.stage = "wait" => ops'[c] = NoOp \/ IsPlain(ops'[c], x.kind)
        BY Zenon, <2>2, <2>3
  <2>4. PluginAnswers'
        BY Zenon, <1>2, <1>5, <2>1, <2>5, <2>6, PluginGoesOn
  <2> QED BY Zenon, <1>0, <1>1, <1>2, <1>5, <2>1, <2>4, StageFollows
<1>6. CASE /\ ops' = [ops EXCEPT ![c] = Wanted(c)]
           /\ calls' = [calls EXCEPT ![c].stage = "wait"]
  <2>1. /\ DOMAIN ops' = Servants /\ ops'[c] = Wanted(c)
        /\ \A s \in Servants \ {c, "replay"} : ops'[s] = ops[s]
        BY Zenon, <1>4, <1>6
  <2> QED BY Zenon, <1>5, <1>6, <2>1
<1>7. CASE /\ ops' = [ops EXCEPT !["replay"] = NewReconcile(provider.desired)]
           /\ calls' = [calls EXCEPT ![c].stage = "replay"]
  <2>1. /\ DOMAIN ops' = Servants
        /\ \A s \in Servants \ {c, "replay"} : ops'[s] = ops[s]
        BY Zenon, <1>4, <1>7
  <2>2. "replay" # "wait"
        BY Zenon
  <2> QED BY Zenon, <1>5, <1>7, <2>1, <2>2
<1>8. CASE /\ ops' = [ops EXCEPT !["replay"] = NoOp, ![c] = Wanted(c)]
           /\ calls' = [calls EXCEPT ![c].stage = "wait"]
  <2>1. /\ DOMAIN ops' = Servants /\ ops'[c] = Wanted(c)
        /\ \A s \in Servants \ {c, "replay"} : ops'[s] = ops[s]
        BY Zenon, <1>4, <1>8
  <2> QED BY Zenon, <1>5, <1>8, <2>1
<1> QED BY Zenon, <1>6, <1>7, <1>8 DEF Ask, Replayed

\* A life cycle call ends with an answer; an answer that is a state is the
\* state its coordinate has then.
LEMMA SettledFollows ==
  ASSUME ContractInv, SlaveInv', NEW h \in Handlers, OpsStay(h),
         calls[h].stage \in BusyStages,
         NEW x, calls' = [calls EXCEPT ![h] = x],
         x.stage \in {"read", "done"}, x.stage = "read" => x.next = "done",
         x.ref = calls[h].ref, x.kind = calls[h].kind,
         x.answer \in ReportStates \cup {"error"},
         NEW state \in ActivationStates,
         x.answer \in ReportStates => state = x.answer,
         activations' = [activations EXCEPT ![calls[h].ref] =
           [activations[calls[h].ref] EXCEPT !.state = state]],
         UNCHANGED <<shown, desires, driver, pending, replica>>
  PROVE  ContractInv' /\ MailKept
<1> DEFINE y == calls[h]
           r == y.ref
           b == [activations[r] EXCEPT !.state = state]
<1>1. h \in Workers /\ h # "health"
      BY Zenon, ClientNames
<1>2. /\ IsCall(h, y) /\ Holds(y) /\ r \in Refs
      /\ activations[r] # NoActivation
      /\ Trails(r, activations[r], shown[r])
      /\ Serves(y, driver[h], activations)
      BY Zenon, <1>1, WorkerCall
<1>3. /\ Trails(r, b, shown[r]) /\ b.revision = activations[r].revision
      /\ b.state = state
      BY SMTT(20), <1>2, StateTrails
<1> HIDE DEF b
<1>6. \A q \in Refs : activations'[q] = IF q = r THEN b ELSE activations[q]
      BY Zenon DEF b, ContractInv, SlaveInv, Shapes, IsTable
<1>7. HealthReports'
  <2>1. calls'["health"] = calls["health"]
        BY Zenon, <1>1, ClientNames DEF ContractInv, SlaveInv, Shapes
  <2> QED BY Zenon, <2>1, HealthUntouched
<1>8. Serves(x, driver[h], activations')
  <2>1. activations'[r].revision = driver[h].revision
        BY Zenon, <1>2, <1>3, <1>6 DEF Serves
  <2>2. x.answer # "none"
        BY Zenon DEF ReportStates
  <2> QED BY Zenon, <1>2, <2>1, <2>2 DEF Serves
<1>9. \A q \in Refs :
        /\ Trails(q, activations'[q], shown[q])
        /\ activations'[q].revision = activations[q].revision
        /\ Trails(q, replica'.of[q], shown[q])
        /\ x.stage = "commit" => Trails(q, x.snapshot.of[q], shown[q])
      BY Zenon, <1>3, <1>6, TablesUntouched
<1>4. PluginAnswers'
  <2>1. x.stage # "wait"
        BY Zenon
  <2> QED BY Zenon, <1>1, <2>1, PluginGoesOn
<1>10. ContractInv'
       BY Zenon, <1>1, <1>4, <1>7, <1>8, <1>9, WorkerMoves
<1>11. x.answer \in ReportStates =>
         /\ activations'[x.ref].revision = driver[h].revision
         /\ activations'[x.ref].state = x.answer
       BY Zenon, <1>2, <1>3, <1>6 DEF Serves
<1>12. \A q \in Refs : pending'[q] # NoReport =>
         Sent(q, pending'[q].revision, pending'[q].state)
       BY Zenon DEF Sent
<1>13. MailKept
       BY Zenon, <1>1, <1>2, <1>11, <1>12, WorkerSends
<1> QED BY Zenon, <1>10, <1>13

\* A table whose records keep their states is the same table.
LEMMA SameStates ==
  ASSUME ContractInv, NEW r \in Refs
  PROVE  activations = [activations EXCEPT ![r] =
                          [activations[r] EXCEPT !.state = activations[r].state]]
<1>1. IsTable(activations) /\ IsActivation(activations[r])
      BY Zenon DEF ContractInv, SlaveInv, Shapes, IsTable
<1>2. [activations[r] EXCEPT !.state = activations[r].state] = activations[r]
      BY Zenon, <1>1, OtherState
<1> QED BY ZenonT(30), <1>1, <1>2 DEF IsTable

\* deprovision decides whether it asks the plugin.
LEMMA DecideFollows ==
  ASSUME ContractInv, NEW h \in Handlers, Decide(h),
         UNCHANGED <<observerVars, driver>>
  PROVE  ContractInv' /\ MailKept
<1> DEFINE y == calls[h]
           r == y.ref
<1>0. SlaveInv'
      BY Zenon, DecideKeeps DEF ContractInv
<1>1. /\ h \in Workers /\ h # "health" /\ y.stage = "decide"
      /\ y.stage \in BusyStages
      /\ UNCHANGED <<shown, desires, driver, pending, replica, ops>>
      BY ZenonT(30), ClientNames DEF Decide, BusyStages, observerVars, plugin
<1>2. IsCall(h, y) /\ r \in Refs /\ OpsStay(h)
      BY Zenon, <1>1, WorkerCall, OpsUntouched
<1>3. "stopped" \in ReportStates /\ "stopped" \in ActivationStates
      BY Zenon DEF ReportStates, ActivationStates
<1>4. CASE /\ y.retry /\ activations[r].state = "stopped"
           /\ calls' = [calls EXCEPT ![h].stage = "done",
                                     ![h].answer = "stopped"]
           /\ UNCHANGED activations
  <2> DEFINE x == [y EXCEPT !.stage = "done", !.answer = "stopped"]
  <2>1. calls' = [calls EXCEPT ![h] = x]
        BY Zenon, <1>4
  <2>2. /\ x.stage = "done" /\ x.answer = "stopped" /\ x.ref = r
        /\ x.kind = y.kind
        BY Zenon, <1>2 DEF IsCall
  <2>3. x.stage \in {"read", "done"} /\ ~ x.stage = "read"
        BY Zenon, <2>2
  <2> HIDE DEF x
  <2>4. activations' = [activations EXCEPT ![r] =
                          [activations[r] EXCEPT !.state = "stopped"]]
        BY Zenon, <1>2, <1>4, SameStates
  <2> QED BY Zenon, <1>0, <1>1, <1>2, <1>3, <2>1, <2>2, <2>3, <2>4,
             SettledFollows
<1>5. CASE Settle(h, "stopped")
  <2> DEFINE x == [y EXCEPT !.stage = "read", !.next = "done",
                            !.answer = "stopped"]
  <2>1. /\ calls' = [calls EXCEPT ![h] = x]
        /\ activations' = [activations EXCEPT ![r] =
                             [activations[r] EXCEPT !.state = "stopped"]]
        BY Zenon, <1>5 DEF Settle
  <2>2. /\ x.stage = "read" /\ x.answer = "stopped" /\ x.ref = r
        /\ x.kind = y.kind /\ x.next = "done"
        BY Zenon, <1>2 DEF IsCall
  <2>3. x.stage \in {"read", "done"}
        BY Zenon, <2>2
  <2> HIDE DEF x
  <2> QED BY Zenon, <1>0, <1>1, <1>2, <1>3, <2>1, <2>2, <2>3, SettledFollows
<1>6. CASE calls' = [calls EXCEPT ![h].stage = "ask"] /\ UNCHANGED activations
  <2>1. "ask" \in BusyStages \ {"read", "commit"}
        BY Zenon DEF BusyStages
  <2>2. PluginAnswers'
    <3> DEFINE x == [y EXCEPT !.stage = "ask"]
    <3>1. calls' = [calls EXCEPT ![h] = x] /\ x.stage # "wait"
          BY Zenon, <1>2, <1>6 DEF IsCall
    <3> HIDE DEF x
    <3> QED BY Zenon, <1>1, <1>2, <3>1, PluginGoesOn
  <2> QED BY Zenon, <1>0, <1>1, <1>6, <2>1, <2>2, StageFollows
<1> QED BY Zenon, <1>4, <1>5, <1>6 DEF Decide

\* The health inspection takes note of a state: it is stored, kept as a report
\* and sent, at once or after the row is saved.
LEMMA InspectedFollows ==
  ASSUME ContractInv, SlaveInv', NEW r \in Refs, NEW state \in ReportStates,
         Inspected(r, state), activations[r].desired = "running",
         OpsStay("health"),
         UNCHANGED <<shown, desires, driver, replica>>
  PROVE  ContractInv' /\ MailKept
<1> DEFINE a == activations[r]
           report == [revision |-> a.revision, state |-> state, seen |-> FALSE]
           b == [a EXCEPT !.state = state]
<1>1. /\ "health" \in Workers /\ "health" \notin Handlers
      /\ \A h \in Handlers : h # "health"
      BY Zenon, ClientNames
<1>2. a \in Activation /\ a # NoActivation /\ Trails(r, a, shown[r])
  <2>1. Trails(r, a, shown[r])
        BY Zenon DEF ContractInv, TablesTrail, AllTrail
  <2> QED BY SMTT(20), <2>1 DEF Trails, MaybeActivation, NoActivation
<1>3. /\ \A q \in Refs : pending[q] # NoReport =>
           Sent(q, pending[q].revision, pending[q].state)
      /\ \A q \in Refs : pending[q] = NoReport \/ pending[q] \in Report
      BY Zenon DEF Sent, ContractInv, HealthReports
<1>4. CASE reported[r] = <<a.revision, state>>
  <2>1. /\ calls' = [calls EXCEPT !["health"] = Idle]
        /\ UNCHANGED <<activations, pending>>
        BY Zenon, <1>4 DEF Inspected
  <2>2. Idle.stage \notin {"wait", "commit", "read", "post"}
        BY Zenon DEF Idle
  <2>3. calls'["health"] = Idle
        BY Zenon, <2>1, <1>1, ClientNames DEF ContractInv, SlaveInv, Shapes
  <2>4. HealthReports'
        BY Zenon, <1>3, <2>1, <2>2, <2>3 DEF HealthReports
  <2>5. PluginAnswers'
        BY Zenon, <1>1, <2>1, <2>2, PluginGoesOn
  <2>6. ContractInv'
        BY Zenon, <1>1, <2>1, <2>2, <2>4, <2>5, TablesUntouched, WorkerMoves
  <2>7. MailKept
        BY Zenon, <1>1, <1>3, <2>1, <2>2, WorkerSends
  <2> QED BY Zenon, <2>6, <2>7
<1>5. CASE reported[r] # <<a.revision, state>>
  <2> DEFINE x == IF state = a.state THEN Posting(r, report)
                  ELSE NewCall("inspect", r, "read", "done", FALSE, "none")
  <2>1. /\ activations' = [activations EXCEPT ![r] = b]
        /\ pending' = [pending EXCEPT ![r] = report]
        /\ calls' = [calls EXCEPT !["health"] = x]
        BY Zenon, <1>5 DEF Inspected
  <2>2. /\ Trails(r, b, shown[r]) /\ b.revision = a.revision /\ b.state = state
    <3>1. state \in ActivationStates
          BY Zenon DEF ReportStates, ActivationStates
    <3> QED BY SMTT(20), <1>2, <3>1, StateTrails
  <2>3. /\ report \in Report /\ report.revision # 0 /\ report # NoReport
        /\ report.revision = a.revision /\ report.state = state
        BY Zenon, <1>2 DEF Report, Activation, NoReport
  <2>4. /\ x.stage \in {"post", "read"} /\ x.ref = r
        /\ x.stage = "post" => x.report = report
        BY Zenon DEF Posting, NewCall
  <2> HIDE DEF x, report, b
  <2>5. /\ \A q \in Refs : activations'[q] = IF q = r THEN b ELSE activations[q]
        /\ \A q \in Refs : pending'[q] = IF q = r THEN report ELSE pending[q]
        /\ calls'["health"] = x
        BY Zenon, <2>1, <1>1, ClientNames DEF ContractInv, SlaveInv, Shapes,
           IsTable
  <2>6. HealthReports'
    <3>1. \A q \in Refs : pending'[q] = NoReport \/ pending'[q] \in Report
          BY Zenon, <1>3, <2>3, <2>5
    <3>2. pending'[calls'["health"].ref] = report
          BY Zenon, <2>4, <2>5
    <3> QED BY Zenon, <2>3, <2>4, <2>5, <3>1, <3>2 DEF HealthReports, SameReport
  <2>7. x.stage # "wait" /\ x.stage # "commit"
        BY Zenon, <2>4
  <2>8. PluginAnswers'
        BY Zenon, <1>1, <2>1, <2>7, PluginGoesOn
  <2>9. \A q \in Refs :
          /\ Trails(q, activations'[q], shown[q])
          /\ activations'[q].revision = activations[q].revision
          /\ Trails(q, replica'.of[q], shown[q])
        BY Zenon, <2>2, <2>5, TablesUntouched
  <2>10. ContractInv'
         BY Zenon, <1>1, <2>1, <2>6, <2>7, <2>8, <2>9, WorkerMoves
  <2>11. Sent(r, report.revision, report.state)
         BY Zenon, <2>2, <2>3, <2>5 DEF Sent
  <2>12. \A q \in Refs : pending'[q] # NoReport =>
           Sent(q, pending'[q].revision, pending'[q].state)
         BY Zenon, <1>3, <2>5, <2>11
  <2>13. MailKept
         BY Zenon, <1>1, <2>1, <2>4, <2>11, <2>12, WorkerSends
  <2> QED BY Zenon, <2>10, <2>13
<1> QED BY Zenon, <1>4, <1>5

\* The answer of the plugin, or its failure.
LEMMA HandleFollows ==
  ASSUME ContractInv, SlaveInv', NEW c \in Workers,
         NEW result \in ReportStates \cup {"error"}, NEW value,
         calls[c].stage \in {"wait", "replay"},
         Handle(c, result, value), OpsStay(c),
         UNCHANGED <<shown, desires, driver, replica>>
  PROVE  ContractInv' /\ MailKept
<1> DEFINE y == calls[c]
           r == y.ref
<1>1. /\ IsCall(c, y) /\ r \in Refs /\ y.stage \in BusyStages
      /\ activations[r].desired = Towards(y.kind)
      /\ activations[r] # NoActivation /\ Trails(r, activations[r], shown[r])
      /\ c = "health" => y.kind = "inspect"
      /\ c # "health" => c \in Handlers
                           /\ y.kind \in {"provision", "deprovision"}
  <2>1. y.stage \in BusyStages
        BY Zenon DEF BusyStages
  <2> QED BY ZenonT(30), <2>1, WorkerCall
<1>2. ASSUME c \in Handlers, UNCHANGED pending,
             NEW answer \in ReportStates \cup {"error"},
             NEW state \in ActivationStates,
             answer \in ReportStates => state = answer,
             calls' = [calls EXCEPT ![c].stage = "read", ![c].next = "done",
                                    ![c].answer = answer],
             activations' = [activations EXCEPT ![r] =
                               [activations[r] EXCEPT !.state = state]]
      PROVE  ContractInv' /\ MailKept
  <2> DEFINE x == [y EXCEPT !.stage = "read", !.next = "done",
                            !.answer = answer]
  <2>1. calls' = [calls EXCEPT ![c] = x]
        BY Zenon, <1>2
  <2>2. /\ x.stage = "read" /\ x.answer = answer /\ x.ref = r
        /\ x.kind = y.kind /\ x.next = "done"
        BY Zenon, <1>1 DEF IsCall
  <2>3. x.stage \in {"read", "done"}
        BY Zenon, <2>2
  <2> HIDE DEF x
  <2> QED BY ZenonT(30), <1>1, <1>2, <2>1, <2>2, <2>3, SettledFollows
<1>3. /\ ReportStates \subseteq ActivationStates
      /\ {"failed", "stopped"} \subseteq ReportStates
      /\ "error" \notin ReportStates
      BY Zenon DEF ReportStates, ActivationStates
<1>4. CASE y.kind = "provision" /\ result # "error" /\ Settle(c, result)
             /\ UNCHANGED pending
  <2>1. c \in Handlers /\ result \in ReportStates /\ result \in ActivationStates
        BY Zenon, <1>1, <1>3, <1>4
  <2>2. /\ calls' = [calls EXCEPT ![c].stage = "read", ![c].next = "done",
                                  ![c].answer = result]
        /\ activations' = [activations EXCEPT ![r] =
                             [activations[r] EXCEPT !.state = result]]
        BY Zenon, <1>4 DEF Settle
  <2> QED BY Zenon, <1>2, <1>4, <2>1, <2>2
<1>5. CASE y.kind = "provision" /\ Fail(c) /\ UNCHANGED pending
  <2>1. /\ c \in Handlers /\ "failed" \in ActivationStates
        /\ "error" \in ReportStates \cup {"error"}
        BY Zenon, <1>1, <1>3, <1>5
  <2>2. /\ calls' = [calls EXCEPT ![c].stage = "read", ![c].next = "done",
                                  ![c].answer = "error"]
        /\ activations' = [activations EXCEPT ![r] =
                             [activations[r] EXCEPT !.state = "failed"]]
        BY Zenon, <1>5 DEF Fail
  <2> QED BY Zenon, <1>2, <1>3, <1>5, <2>1, <2>2
<1>6. CASE y.kind = "deprovision" /\ Settle(c, "stopped") /\ UNCHANGED pending
  <2>1. /\ c \in Handlers /\ "stopped" \in ActivationStates
        /\ "stopped" \in ReportStates \cup {"error"}
        BY Zenon, <1>1, <1>3, <1>6
  <2>2. /\ calls' = [calls EXCEPT ![c].stage = "read", ![c].next = "done",
                                  ![c].answer = "stopped"]
        /\ activations' = [activations EXCEPT ![r] =
                             [activations[r] EXCEPT !.state = "stopped"]]
        BY Zenon, <1>6 DEF Settle
  <2> QED BY Zenon, <1>2, <1>6, <2>1, <2>2
<1>7. CASE /\ y.kind = "deprovision"
           /\ calls' = [calls EXCEPT ![c].stage = "read", ![c].next = "done",
                                     ![c].answer = "error"]
           /\ UNCHANGED <<activations, pending>>
  <2>1. /\ c \in Handlers /\ "error" \in ReportStates \cup {"error"}
        BY Zenon, <1>1, <1>7
  <2>2. activations[r].state \in ActivationStates
        BY ZenonT(30), <1>1 DEF Trails, MaybeActivation, Activation
  <2>3. activations' = [activations EXCEPT ![r] =
                          [activations[r] EXCEPT !.state = activations[r].state]]
        BY Zenon, <1>1, <1>7, SameStates
  <2> QED BY Zenon, <1>2, <1>3, <1>7, <2>1, <2>2, <2>3
<1>8. CASE /\ y.kind = "inspect"
           /\ Inspected(r, IF result = "error" THEN "failed" ELSE result)
  <2>1. c = "health" /\ Towards(y.kind) = "running"
        BY Zenon, <1>1, <1>8 DEF Towards
  <2> DEFINE state == IF result = "error" THEN "failed" ELSE result
  <2>2. state \in ReportStates
        BY Zenon, <1>3
  <2> HIDE DEF state
  <2>3. Inspected(r, state)
        BY Zenon, <1>8 DEF state
  <2> QED BY Zenon, <1>1, <2>1, <2>2, <2>3, InspectedFollows
<1>9. y.kind # "invoke"
      BY Zenon, <1>1
<1> QED BY Zenon, <1>4, <1>5, <1>6, <1>7, <1>8, <1>9 DEF Handle

\* The plugin answers, its connection is lost or the request times out.
LEMMA AnswersFollow ==
  ASSUME ContractInv, NEW c \in Clients,
         Answered(c) \/ ConnectionLost(c) \/ TimesOut(c) \/ ReplayTimesOut(c),
         UNCHANGED <<observerVars, driver>>
  PROVE  ContractInv' /\ MailKept
<1>0. SlaveInv'
      BY Zenon, AnswersKeep DEF ContractInv
<1>1. /\ calls[c].stage \in {"wait", "replay"}
      /\ calls[c].stage = "wait" => c # "startup"
      BY Zenon DEF Answered, ConnectionLost, TimesOut, ReplayTimesOut
<1>2. c \in Workers
      BY Zenon, <1>1, AtWork DEF ContractInv, BusyStages
<1>3. UNCHANGED <<shown, desires, driver, replica>>
      BY Zenon DEF Answered, ConnectionLost, TimesOut, ReplayTimesOut, observerVars
<1>4. DOMAIN ops = Servants
      BY Zenon DEF ContractInv, PluginAnswers
<1>5. OpsStay(c)
  <2>1. \/ ops' = ops \/ ops' = [ops EXCEPT ![c] = NoOp]
        \/ ops' = [s \in Servants |-> NoOp]
        BY Zenon DEF Answered, ConnectionLost, TimesOut, ReplayTimesOut, NoOps,
                     plugin
  <2> QED BY Zenon, <1>4, <2>1 DEF OpsStay
<1>6. CASE Answered(c)
  <2>1. /\ calls[c].stage = "wait" /\ ops[c].stage = "answered"
        /\ Handle(c, ops[c].answer, ops[c].value)
        BY Zenon, <1>6 DEF Answered
  <2>2. ops[c] # NoOp
        BY <2>1 DEF NoOp
  <2>3. IsPlain(ops[c], calls[c].kind)
        BY Zenon, <1>2, <2>1, <2>2 DEF ContractInv, PluginAnswers
  <2>4. ops[c].answer \in ReportStates \cup {"error"}
        BY Zenon, <2>1, <2>3 DEF IsPlain
  <2> QED BY SMTT(20), <1>0, <1>1, <1>2, <1>3, <1>5, <2>1, <2>4, HandleFollows
<1>7. CASE ConnectionLost(c) \/ TimesOut(c) \/ ReplayTimesOut(c)
  <2>1. Handle(c, "error", 0) /\ "error" \in ReportStates \cup {"error"}
        BY Zenon, <1>7 DEF ConnectionLost, TimesOut, ReplayTimesOut
  <2> QED BY SMTT(20), <1>0, <1>1, <1>2, <1>3, <1>5, <2>1, HandleFollows
<1> QED BY Zenon, <1>6, <1>7

\* No operation of the Driver here is a dispatch.
LEMMA NoDispatch ==
  ASSUME ContractInv, NEW h \in Handlers
  PROVE  calls[h].stage \notin {"lookup", "admit", "store", "insert"}
<1> SUFFICES ASSUME calls[h].stage \in {"lookup", "admit", "store", "insert"}
             PROVE  FALSE
    BY Zenon
<1>1. calls[h].stage \in BusyStages /\ h \in Workers /\ h # "health"
      BY Zenon, ClientNames DEF BusyStages
<1>2. IsCall(h, calls[h]) /\ calls[h].kind \in {"provision", "deprovision"}
      BY Zenon, <1>1, WorkerCall
<1> QED BY Zenon, <1>2 DEF IsCall

\* Nobody's call moves; a report that is kept may be dropped.
LEMMA StillFollows ==
  ASSUME ContractInv, SlaveInv', PluginAnswers',
         UNCHANGED <<shown, desires, driver, activations, replica, calls>>,
         \A q \in Refs : pending'[q] \in {pending[q], NoReport},
         calls["health"].stage \in {"read", "commit"} => UNCHANGED pending
  PROVE  ContractInv' /\ MailKept
<1>1. /\ TablesTrail' /\ AnswersTrail' /\ DriverTrails'
      /\ HandlersServe'
      BY Zenon DEF ContractInv, TablesTrail, AllTrail, AnswersTrail, DriverTrails,
             HandlersServe
<1>2. HealthReports'
  <2>1. \A q \in Refs : pending'[q] = NoReport \/ pending'[q] \in Report
    <3>1. ASSUME NEW q \in Refs
          PROVE  pending'[q] = NoReport \/ pending'[q] \in Report
      <4>1. pending'[q] = pending[q] \/ pending'[q] = NoReport
            BY Zenon
      <4>2. pending[q] = NoReport \/ pending[q] \in Report
            BY Zenon DEF ContractInv, HealthReports
      <4> QED BY Zenon, <4>1, <4>2
    <3> QED BY Zenon, <3>1
  <2>2. calls["health"].stage = "post" => calls["health"].ref \in Refs
        BY ClientNames DEF ContractInv, SlaveInv, Shapes, IsDoing, Idle, IsCall,
                           BusyStages
  <2> QED BY ZenonT(30), <2>1, <2>2 DEF ContractInv, HealthReports
<1>3. MailKept
  <2> SUFFICES ASSUME NEW m \in Reports'
               PROVE  m \in Reports
      BY Zenon DEF MailKept
  <2>1. \A r \in Refs : pending'[r] # NoReport => pending'[r] = pending[r]
        BY Zenon
  <2>2. m \in Reports' => m \in Reports
        BY ZenonT(30), <2>1 DEF Reports
  <2> QED BY Zenon, <2>2
<1> QED BY Zenon, <1>1, <1>2, <1>3 DEF ContractInv

\* The health loop begins an inspection, or sends a report again.
LEMMA HealthFollows ==
  ASSUME ContractInv, NEW r \in Refs, HealthInspect(r) \/ Resend(r),
         UNCHANGED <<observerVars, driver>>
  PROVE  ContractInv' /\ MailKept
<1>0. SlaveInv'
      BY Zenon, HealthKeeps DEF ContractInv
<1>1. /\ UNCHANGED <<shown, desires, driver, replica, ops>>
      /\ calls["health"] = Idle
      BY Zenon DEF HealthInspect, Resend, observerVars, plugin
<1>2. /\ "health" \in Workers /\ "health" \notin Handlers
      BY Zenon, ClientNames
<1>3. OpsStay("health")
      BY Zenon, <1>1, OpsUntouched
<1>4. \A q \in Refs : pending[q] # NoReport =>
           Sent(q, pending[q].revision, pending[q].state)
      BY Zenon DEF Sent
<1>5. \A q \in Refs : pending[q] = NoReport \/ pending[q] \in Report
      BY Zenon DEF ContractInv, HealthReports
<1>6. ASSUME NEW x, calls' = [calls EXCEPT !["health"] = x],
             UNCHANGED <<activations, pending>>,
             x.stage \notin {"wait", "commit"}, HealthReports',
             x.stage = "post" => /\ x.ref \in Refs
                                 /\ Sent(x.ref, x.report.revision, x.report.state)
      PROVE  ContractInv' /\ MailKept
  <2>1. x.stage # "wait" /\ x.stage # "commit"
        BY Zenon, <1>6
  <2>2. PluginAnswers'
        BY Zenon, <1>2, <1>3, <1>6, <2>1, PluginGoesOn
  <2>3. ContractInv'
        BY Zenon, <1>0, <1>1, <1>2, <1>6, <2>1, <2>2, TablesUntouched,
           WorkerMoves
  <2>4. MailKept
        BY Zenon, <1>1, <1>2, <1>4, <1>6, WorkerSends
  <2> QED BY Zenon, <2>3, <2>4
<1>7. CASE HealthInspect(r)
  <2>1. CASE Inspected(r, "failed")
    <3>1. activations[r].desired = "running" /\ "failed" \in ReportStates
          BY Zenon, <1>7 DEF HealthInspect, ReportStates
    <3> QED BY Zenon, <1>0, <1>1, <1>3, <2>1, <3>1, InspectedFollows
  <2> DEFINE x == NewCall("inspect", r, "ask", "done", FALSE, "none")
  <2>2. CASE /\ calls' = [calls EXCEPT !["health"] = x]
             /\ UNCHANGED <<activations, pending>>
    <3>1. x.stage = "ask" /\ x.stage \notin {"wait", "commit"} /\ x.stage # "post"
          BY Zenon DEF NewCall
    <3> HIDE DEF x
    <3>2. calls'["health"] = x
          BY Zenon, <2>2, ClientNames DEF ContractInv, SlaveInv, Shapes
    <3>3. HealthReports'
          BY Zenon, <1>5, <2>2, <3>1, <3>2 DEF HealthReports
    <3> QED BY Zenon, <1>6, <2>2, <3>1, <3>3
  <2> QED BY Zenon, <1>7, <2>1, <2>2 DEF HealthInspect
<1>8. CASE Resend(r)
  <2> DEFINE x == Posting(r, pending[r])
  <2>1. CASE calls' = [calls EXCEPT !["health"] = x] /\ UNCHANGED pending
    <3>1. x.stage = "post" /\ x.ref = r /\ x.report = pending[r]
          BY Zenon DEF Posting
    <3>2. pending[r] # NoReport /\ UNCHANGED activations
          BY Zenon, <1>8 DEF Resend
    <3>3. HealthReports'
          BY Zenon, <2>1, <3>2, PostingKept
    <3> HIDE DEF x
    <3>4. Sent(x.ref, x.report.revision, x.report.state)
          BY Zenon, <1>4, <3>1, <3>2
    <3>5. x.stage \notin {"wait", "commit"}
          BY Zenon, <3>1
    <3> QED BY Zenon, <1>6, <2>1, <3>1, <3>2, <3>3, <3>4, <3>5
  <2>2. CASE pending' = [pending EXCEPT ![r] = NoReport] /\ UNCHANGED calls
    <3>1. UNCHANGED activations /\ Idle.stage \notin {"read", "commit"}
          BY Zenon, <1>8 DEF Resend, Idle
    <3>2. \A q \in Refs : pending'[q] \in {pending[q], NoReport}
          BY Zenon, <2>2 DEF ContractInv, SlaveInv, Shapes
    <3>3. PluginAnswers'
          BY Zenon, <1>1, <2>2 DEF ContractInv, PluginAnswers
    <3> QED BY Zenon, <1>0, <1>1, <2>2, <3>1, <3>2, <3>3, StillFollows
  <2> QED BY Zenon, <1>8, <2>1, <2>2 DEF Resend
<1> QED BY Zenon, <1>7, <1>8

\* An operation of the plugin goes one step further.
LEMMA OperationGoesOn ==
  ASSUME ContractInv, NEW s \in Servants, Live(ops[s]), NEW op,
         UNCHANGED calls, ops' = [ops EXCEPT ![s] = op],
         \A kind \in Lifecycle \cup {"reconcile"} :
           IsOf(ops[s], kind) => IsOf(op, kind)
  PROVE  PluginAnswers'
<1>1. /\ DOMAIN ops = Servants /\ DOMAIN ops' = Servants /\ ops'[s] = op
      /\ \A t \in Servants : t # s => ops'[t] = ops[t]
      BY Zenon DEF ContractInv, PluginAnswers
<1>2. ops[s] # NoOp
      BY Zenon, NoOpIsNotLive
<1>3. /\ \A c \in Workers : c \in Servants /\ c # "startup"
      /\ "startup" \in Servants
      BY Zenon, ClientNames DEF Servants, Clients
<1>4. ASSUME NEW c \in Workers, calls[c].stage = "wait"
      PROVE  ops'[c] = NoOp \/ IsPlain(ops'[c], calls[c].kind)
  <2>1. ops[c] = NoOp \/ IsPlain(ops[c], calls[c].kind)
        BY Zenon, <1>4 DEF ContractInv, PluginAnswers
  <2>2. CASE c # s
        BY Zenon, <1>1, <1>3, <2>1, <2>2
  <2>3. CASE c = s
    <3>1. calls[c].kind \in Lifecycle
      <4>1. calls[c].stage \in BusyStages
            BY Zenon, <1>4 DEF BusyStages
      <4>2. CASE c = "health"
        <5>1. IsCall(c, calls[c])
              BY Zenon, <4>1, BusyIsCall DEF ContractInv
        <5> QED BY Zenon, <4>2, <5>1 DEF IsCall, KindsOf, Lifecycle
      <4>3. CASE c # "health"
        <5>1. calls[c].kind \in {"provision", "deprovision"}
              BY Zenon, <4>1, <4>3, WorkerCall
        <5> QED BY Zenon, <5>1 DEF Lifecycle
      <4> QED BY Zenon, <4>2, <4>3
    <3>2. calls[c].kind # "reconcile"
          BY Zenon, <3>1 DEF Lifecycle
    <3>3. IsOf(ops[s], calls[c].kind)
          BY Zenon, <1>2, <2>1, <2>3, <3>2 DEF IsOf
    <3>4. IsOf(op, calls[c].kind)
          BY Zenon, <3>1, <3>3
    <3> QED BY Zenon, <1>1, <2>3, <3>2, <3>4 DEF IsOf
  <2> QED BY Zenon, <2>2, <2>3
<1>5. ASSUME calls["startup"].stage = "wait"
      PROVE  ops'["startup"] = NoOp \/ IsReconcile(ops'["startup"])
  <2>1. ops["startup"] = NoOp \/ IsReconcile(ops["startup"])
        BY Zenon, <1>5 DEF ContractInv, PluginAnswers
  <2>2. IsReconcile(ops["startup"]) <=> IsOf(ops["startup"], "reconcile")
        BY Zenon DEF IsOf
  <2>3. IsReconcile(op) <=> IsOf(op, "reconcile")
        BY Zenon DEF IsOf
  <2> QED BY Zenon, <1>1, <1>2, <1>3, <2>1, <2>2, <2>3
<1> QED BY Zenon, <1>1, <1>4, <1>5 DEF PluginAnswers

\* The steps of the plugin and of the containers are none of the Slave's.
LEMMA PluginFollows ==
  ASSUME ContractInv,
         \/ \E t \in Servants : ProviderStep(t) \/ DockerFails(t)
         \/ \E op \in strays : StrayStep(op)
         \/ \E d \in Digests : ContainerChanges(d)
         \/ ProviderCrash,
         UNCHANGED <<observerVars, driver>>
  PROVE  ContractInv' /\ MailKept
<1>0. SlaveInv'
      BY Zenon, PluginKeeps DEF ContractInv
<1>1. UNCHANGED <<shown, desires, driver, activations, replica, calls, pending>>
      BY ZenonT(30) DEF ProviderStep, DockerFails, StrayStep, ContainerChanges,
                        ProviderCrash, books, observerVars
<1>2. PluginAnswers'
  <2>1. ASSUME NEW t \in Servants, ProviderStep(t) PROVE PluginAnswers'
    <3> DEFINE op == Stepped(ops[t], containers[Digest[ops[t].ref]]).op
    <3>1. Live(ops[t]) /\ ops' = [ops EXCEPT ![t] = op] /\ UNCHANGED calls
          BY Zenon, <2>1 DEF ProviderStep
    <3>2. \A kind \in Lifecycle \cup {"reconcile"} :
             IsOf(ops[t], kind) => IsOf(op, kind)
          BY Zenon, <3>1, StepIsOf
    <3> HIDE DEF op
    <3> QED BY ZenonT(30), <3>1, <3>2, OperationGoesOn
  <2>2. ASSUME NEW t \in Servants, DockerFails(t) PROVE PluginAnswers'
    <3>1. PICK step \in OpFailures(ops[t], containers[Digest[ops[t].ref]]) :
             ops' = [ops EXCEPT ![t] = step.op]
          BY Zenon, <2>2 DEF DockerFails
    <3>2. Live(ops[t]) /\ UNCHANGED calls
          BY Zenon, <2>2 DEF DockerFails
    <3>3. \A kind \in Lifecycle \cup {"reconcile"} :
             IsOf(ops[t], kind) => IsOf(step.op, kind)
          BY Zenon, <3>2, StepIsOf
    <3> QED BY ZenonT(30), <3>1, <3>2, <3>3, OperationGoesOn
  <2>3. CASE \/ \E op \in strays : StrayStep(op)
             \/ \E d \in Digests : ContainerChanges(d)
    <3>1. UNCHANGED <<ops, calls>>
          BY Zenon, <2>3 DEF StrayStep, ContainerChanges, plugin
    <3> QED BY Zenon, <3>1 DEF ContractInv, PluginAnswers
  <2>4. CASE ProviderCrash
    <3>1. ops' = [s \in Servants |-> NoOp]
          BY Zenon, <2>4 DEF ProviderCrash, NoOps
    <3>2. \A c \in Workers : c \in Servants
          BY Zenon, ClientNames DEF Servants
    <3> QED BY Zenon, <3>1, <3>2 DEF PluginAnswers, Servants, Clients
  <2> QED BY Zenon, <2>1, <2>2, <2>3, <2>4
<1>3. \A q \in Refs : pending'[q] \in {pending[q], NoReport}
      BY Zenon, <1>1
<1> QED BY Zenon, <1>0, <1>1, <1>2, <1>3, StillFollows

\* A Slave whose clients are gone keeps the contract: it knows no more than
\* before, and sends nothing.
LEMMA EmptyFollows ==
  ASSUME ContractInv, SlaveInv', PluginAnswers',
         UNCHANGED <<shown, desires, driver>>,
         \A c \in Workers : calls'[c] = Idle,
         \A r \in Refs : pending'[r] = NoReport,
         \A r \in Refs : Trails(r, activations'[r], shown[r]),
         \A r \in Refs : Trails(r, replica'.of[r], shown[r])
  PROVE  ContractInv' /\ MailKept
<1>1. Idle.stage \notin {"read", "commit", "post"}
      BY Zenon DEF Idle
<1>2. /\ \A h \in Handlers : calls'[h] = Idle
      /\ calls'["health"] = Idle
      BY Zenon, ClientNames
<1>3. TablesTrail'
  <2>1. \A c \in Workers : calls'[c].stage # "commit"
        BY Zenon, <1>1
  <2> QED BY Zenon, <2>1 DEF ContractInv, TablesTrail, AllTrail
<1>4. AnswersTrail' /\ DriverTrails'
      BY Zenon DEF ContractInv, AnswersTrail, DriverTrails
<1>5. HandlersServe'
      BY Zenon, <1>2 DEF HandlersServe
<1>6. HealthReports'
  <2>1. calls'["health"].stage \notin {"read", "commit"}
          /\ calls'["health"].stage # "post"
        BY Zenon, <1>1, <1>2
  <2> QED BY Zenon, <2>1 DEF HealthReports
<1>7. MailKept
  <2> SUFFICES ASSUME NEW m \in Reports'
               PROVE  m \in Reports
      BY Zenon DEF MailKept
  <2>1. calls'["health"].stage # "post"
        BY Zenon, <1>1, <1>2
  <2>2. \E h \in Handlers :
          /\ driver[h].stage = "report"
          /\ m = [ref |-> driver[h].request.ref,
                  revision |-> driver[h].revision, state |-> driver[h].state]
        BY ZenonT(30), <1>2, <2>1 DEF Reports
  <2> QED BY Zenon, <2>2, ReportsAre
<1> QED BY Zenon, <1>3, <1>4, <1>5, <1>6, <1>7 DEF ContractInv

\* The Slave crashes: it forgets what was not saved.
LEMMA CrashFollows ==
  ASSUME ContractInv, Crash, UNCHANGED <<observerVars, driver>>
  PROVE  ContractInv' /\ MailKept
<1>0. SlaveInv'
      BY Zenon, CrashKeeps DEF ContractInv
<1>1. /\ UNCHANGED <<shown, desires, driver, replica>>
      /\ activations' = NoActivations
      /\ pending' = [r \in Refs |-> NoReport]
      /\ calls' = [c \in Clients |-> Idle]
      /\ ops' = [s \in Servants |-> NoOp]
      BY Zenon DEF Crash, observerVars, NoOps
<1>2. /\ \A c \in Workers : calls'[c] = Idle /\ c \in Servants
      /\ \A r \in Refs : pending'[r] = NoReport
      BY Zenon, <1>1, ClientNames DEF Servants
<1>3. \A r \in Refs : Trails(r, activations'[r], shown[r])
  <2>1. \A r \in Refs : activations'[r] = NoActivation /\ shown[r] \in MaybeActivation
        BY Zenon, <1>1 DEF NoActivations, ContractInv, TablesTrail
  <2> QED BY SMTT(20), <2>1 DEF Trails, MaybeActivation, Activation, NoActivation
<1>4. \A r \in Refs : Trails(r, replica'.of[r], shown[r])
      BY Zenon, <1>1 DEF ContractInv, TablesTrail, AllTrail
<1>5. PluginAnswers'
  <2>1. ops'["startup"] = NoOp
        BY Zenon, <1>1, ClientNames DEF Servants
  <2> QED BY Zenon, <1>1, <1>2, <2>1 DEF PluginAnswers
<1> QED BY Zenon, <1>0, <1>1, <1>2, <1>3, <1>4, <1>5, EmptyFollows

\* The Slave starts from what it has saved.
LEMMA BootFollows ==
  ASSUME ContractInv, Boot, UNCHANGED <<observerVars, driver>>
  PROVE  ContractInv' /\ MailKept
<1> DEFINE x == NewCall("start", Head(replica.order), "wait", "done", FALSE,
                        "none")
           op == NewReconcile(Entries(replica))
<1>0. SlaveInv'
      BY Zenon, BootKeeps DEF ContractInv
<1>1. /\ UNCHANGED <<shown, desires, driver, replica, pending>>
      /\ activations' = replica.of
      /\ \/ UNCHANGED <<calls, ops>>
         \/ /\ calls' = [calls EXCEPT !["startup"] = x]
            /\ ops' = [ops EXCEPT !["startup"] = op]
      /\ process = "down"
      BY ZenonT(30) DEF Boot, observerVars, books
<1>2. IsReconcile(op)
      BY Zenon, NewReconcileIs
<1> HIDE DEF x, op
<1>3. /\ \A c \in Workers : calls[c] = Idle
      /\ \A r \in Refs : pending'[r] = NoReport
      /\ calls["startup"] = Idle
      BY Zenon, <1>1 DEF ContractInv, SlaveInv, NobodyWorks, Serving
<1>4. \A c \in Workers : calls'[c] = Idle
      BY Zenon, <1>1, <1>3, ClientNames DEF ContractInv, SlaveInv, Shapes
<1>5. \A r \in Refs : Trails(r, replica.of[r], shown[r])
      BY Zenon DEF ContractInv, TablesTrail, AllTrail
<1>6. PluginAnswers'
  <2>1. Idle.stage # "wait" /\ "startup" \in Servants
        BY Zenon, ClientNames DEF Idle, Servants
  <2>2. DOMAIN ops = Servants
        BY Zenon DEF ContractInv, PluginAnswers
  <2>3. CASE UNCHANGED <<calls, ops>>
        BY Zenon, <2>3 DEF ContractInv, PluginAnswers
  <2>4. CASE ops' = [ops EXCEPT !["startup"] = op]
    <3>1. ops'["startup"] = op /\ DOMAIN ops' = Servants
          BY Zenon, <2>1, <2>2, <2>4
    <3>2. \A c \in Workers : calls'[c].stage # "wait"
          BY Zenon, <1>4, <2>1
    <3> QED BY Zenon, <1>2, <3>1, <3>2 DEF PluginAnswers
  <2> QED BY Zenon, <1>1, <2>3, <2>4
<1> QED BY Zenon, <1>0, <1>1, <1>3, <1>4, <1>5, <1>6, EmptyFollows

\* The start-up ends: each activation takes the state that was found, or is
\* lost, and keeps its number.
LEMMA StartUpFollows ==
  ASSUME ContractInv, Reconciled \/ NotReconciled,
         UNCHANGED <<observerVars, driver>>
  PROVE  ContractInv' /\ MailKept
<1>0. SlaveInv'
      BY Zenon, StartUpEnds DEF ContractInv
<1>1. /\ UNCHANGED <<shown, desires, driver, pending>>
      /\ calls' = [calls EXCEPT !["startup"] = Idle]
      /\ ops' = [ops EXCEPT !["startup"] = NoOp]
      /\ calls["startup"].stage = "wait"
      BY Zenon DEF Reconciled, NotReconciled, observerVars, books
<1>2. ~ Serving
      BY SMTT(20), <1>1 DEF ContractInv, SlaveInv, NobodyWorks, Serving, Idle
<1>3. /\ \A c \in Workers : calls[c] = Idle
      /\ \A r \in Refs : pending'[r] = NoReport
      BY Zenon, <1>1, <1>2 DEF ContractInv, SlaveInv, NobodyWorks
<1>4. \A c \in Workers : calls'[c] = Idle
      BY Zenon, <1>1, <1>3, ClientNames DEF ContractInv, SlaveInv, Shapes
<1>5. PluginAnswers'
  <2>1. /\ Idle.stage # "wait" /\ "startup" \in Servants
        /\ DOMAIN ops = Servants
        BY Zenon, ClientNames DEF Idle, Servants, ContractInv, PluginAnswers
  <2>2. ops'["startup"] = NoOp /\ DOMAIN ops' = Servants
        BY Zenon, <1>1, <2>1
  <2>3. \A c \in Workers : calls'[c].stage # "wait"
        BY Zenon, <1>4, <2>1
  <2> QED BY Zenon, <2>2, <2>3 DEF PluginAnswers
<1>6. \A r \in Refs : Trails(r, activations[r], shown[r])
      BY Zenon DEF ContractInv, TablesTrail, AllTrail
<1>7. /\ ReportStates \subseteq ActivationStates /\ "lost" \in ActivationStates
      BY Zenon DEF ReportStates, ActivationStates
<1>8. \A r \in Refs, state \in ActivationStates :
        activations[r] # NoActivation =>
          Trails(r, [activations[r] EXCEPT !.state = state], shown[r])
      BY Zenon, <1>6, StateTrails
<1>9. CASE Reconciled
  <2> DEFINE found == ops["startup"].found
             updated == [r \in Refs |->
               IF found[r] = "none" \/ activations[r] = NoActivation
               THEN activations[r]
               ELSE [activations[r] EXCEPT !.state = found[r]]]
  <2>1. /\ activations' = updated /\ replica' = [replica EXCEPT !.of = updated]
        /\ ops["startup"].stage = "answered"
        BY Zenon, <1>9 DEF Reconciled
  <2>2. IsReconcile(ops["startup"])
    <3>1. ops["startup"] # NoOp
          BY SMTT(20), <2>1 DEF NoOp
    <3> QED BY Zenon, <1>1, <3>1 DEF ContractInv, PluginAnswers
  <2>3. \A r \in Refs : found[r] # "none" => found[r] \in ActivationStates
        BY Zenon, <1>7, <2>2 DEF IsReconcile
  <2>4. \A r \in Refs : Trails(r, updated[r], shown[r])
    <3> HIDE DEF found
    <3> QED BY Zenon, <1>6, <1>8, <2>3
  <2> HIDE DEF updated
  <2>5. replica'.of = updated
        BY Zenon, <2>1 DEF ContractInv, SlaveInv, Shapes, IsRow
  <2> QED BY Zenon, <1>0, <1>1, <1>3, <1>4, <1>5, <2>1, <2>4, <2>5, EmptyFollows
<1>10. CASE NotReconciled
  <2> DEFINE lost == [r \in Refs |->
               IF activations[r].desired = "running"
               THEN [activations[r] EXCEPT !.state = "lost"]
               ELSE activations[r]]
  <2>1. activations' = lost /\ replica'.of = lost
        BY Zenon, <1>10 DEF NotReconciled
  <2>2. \A r \in Refs :
          activations[r].desired = "running" => activations[r] # NoActivation
        BY DEF NoActivation
  <2>3. \A r \in Refs : Trails(r, lost[r], shown[r])
        BY Zenon, <1>6, <1>7, <1>8, <2>2
  <2> HIDE DEF lost
  <2> QED BY Zenon, <1>0, <1>1, <1>3, <1>4, <1>5, <2>1, <2>3, EmptyFollows
<1> QED BY Zenon, <1>9, <1>10

\* No step of the Slave alone, or of its plugin, breaks the contract.
LEMMA InternalFollows ==
  ASSUME ContractInv, Internal, UNCHANGED <<observerVars, driver>>
  PROVE  ContractInv' /\ MailKept
<1>1. ASSUME NEW c \in Clients, ReadRow(c) PROVE ContractInv' /\ MailKept
      BY Zenon, <1>1, ReadRowFollows
<1>2. ASSUME NEW c \in Clients, CommitRow(c) PROVE ContractInv' /\ MailKept
      BY Zenon, <1>2, CommitRowFollows
<1>3. ASSUME NEW c \in Clients, Ask(c) \/ Replayed(c)
      PROVE  ContractInv' /\ MailKept
      BY Zenon, <1>3, AskFollows
<1>4. ASSUME NEW c \in Clients,
             Answered(c) \/ ConnectionLost(c) \/ TimesOut(c) \/ ReplayTimesOut(c)
      PROVE  ContractInv' /\ MailKept
      BY Zenon, <1>4, AnswersFollow
<1>5. ASSUME NEW h \in Handlers, Decide(h) PROVE ContractInv' /\ MailKept
      BY Zenon, <1>5, DecideFollows
<1>6. ASSUME NEW h \in Handlers,
             \/ Lookup(h) \/ Admit(h) \/ Store(h) \/ Insert(h)
             \/ AdmitFails(h) \/ StoreFails(h)
      PROVE  FALSE
  <2>1. calls[h].stage \in {"lookup", "admit", "store", "insert"}
        BY Zenon, <1>6 DEF Lookup, Admit, Store, Insert, AdmitFails, StoreFails
  <2> QED BY Zenon, <2>1, NoDispatch
<1>7. ASSUME NEW r \in Refs, HealthInspect(r) \/ Resend(r)
      PROVE  ContractInv' /\ MailKept
      BY Zenon, <1>7, HealthFollows
<1>8. CASE \/ \E t \in Servants : ProviderStep(t) \/ DockerFails(t)
           \/ \E op \in strays : StrayStep(op)
           \/ \E d \in Digests : ContainerChanges(d)
           \/ ProviderCrash
      BY Zenon, <1>8, PluginFollows
<1>9. CASE Crash
      BY Zenon, <1>9, CrashFollows
<1>10. CASE Boot
       BY Zenon, <1>10, BootFollows
<1>11. CASE Reconciled \/ NotReconciled
       BY Zenon, <1>11, StartUpFollows
<1> QED BY ZenonT(30), <1>1, <1>2, <1>3, <1>4, <1>5, <1>6, <1>7, <1>8, <1>9,
           <1>10, <1>11 DEF Internal
=============================================================================
