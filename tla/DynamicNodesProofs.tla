------------------------ MODULE DynamicNodesProofs -------------------------
(***************************************************************************)
(* Proofs about the dynamic nodes of a Run, for any number of intents,     *)
(* Slaves, runtimes and faults and any limits of the orchestration.        *)
(*                                                                         *)
(* Of the record objects a step leaves all alone, edits one, or appends a  *)
(* copy; of the calls it ends some or begins one.  StepKinds says this of  *)
(* all the actions, with what an edit may change (Edit) and what a call    *)
(* has checked when it begins (CallOK).  The invariants are then proved of *)
(* five kinds of steps and not of each action.                             *)
(***************************************************************************)
EXTENDS DynamicNodes, WellFoundedInduction, TLAPS

Size(x) == Len(x.run.attempts)

Lost(x, k) == k \in 1 .. Size(x) /\ x.run.attempts[k].state = "lost"

\* An object that the methods of the Observer can work on.
Good(x) ==
  /\ x \in Object
  /\ \A i \in Intents : x.nodes[i] # "none" => x.selected[i] \in Slaves
  /\ \A k \in 1 .. Size(x) :
       /\ x.run.attempts[k].node \in Intents
       /\ x.nodes[x.run.attempts[k].node] # "none"
       /\ x.run.attempts[k].worker \in Slaves
       /\ x.run.attempts[k].heir \in 0 .. Size(x)

\* What an edit for node i leaves of an attempt: none becomes lost, is found
\* again or becomes live, and one of another node does not lose its result.
Kept(i, a, b) ==
  /\ b \in Attempt
  /\ b.node = a.node /\ b.worker = a.worker /\ b.heir = a.heir
  /\ b.state = "lost" <=> a.state = "lost"
  /\ b.state = "created" => a.state = "created"
  /\ a.node # i /\ a.state = "completed" => b.state = "completed"

\* What a method may change for node i in the object it has loaded: it
\* forgets no node, takes no attempt away, and adds one only within the
\* budget.
Edit(i, x, y) ==
  /\ Good(y)
  /\ \A j \in Intents \ {i} : y.nodes[j] = x.nodes[j]
  /\ \A j \in Intents : x.nodes[j] # "none" => y.nodes[j] # "none"
  /\ \A k \in 1 .. Size(x) : Kept(i, x.run.attempts[k], y.run.attempts[k])
  /\ \/ Size(y) = Size(x)
     \/ /\ Size(y) = Size(x) + 1 /\ Size(x) < MaxAttempts
        /\ y.run.attempts[Size(y)].node = i
        /\ y.run.attempts[Size(y)].state = "created"

HoldsLock(c) == c.op \in {"accept", "reassign", "swap"}

\* A call that has begun, with what it has checked.
CallOK(c) ==
  /\ c.op \in {"accept", "dispatch", "report", "reassign", "swap", "complete"}
  /\ c.op # "swap" => c.object \in 1 .. Len(objects)
  /\ c.op # "complete" => c.intent \in Intents
  /\ HoldsLock(c) => c.target \in Slaves
  /\ c.op = "dispatch" => objects[c.object].nodes[c.intent] # "none"
  /\ c.op = "report" =>
       /\ c.attempt \in 1 .. Size(objects[c.object])
       /\ objects[c.object].run.attempts[c.attempt].node = c.intent
       /\ ~Lost(objects[c.object], c.attempt)
  /\ c.op = "reassign" =>
       /\ c.object = Len(objects)
       /\ c.attempt \in 1 .. Size(Current)
       /\ Current.run.attempts[c.attempt].node = c.intent
       /\ Size(Current) <= MaxAttempts
  /\ c.op = "swap" =>
       /\ Good(c.copy)
       /\ Size(c.copy) <= MaxAttempts + 1
       /\ \A k \in 1 .. Size(Current) : Lost(Current, k) => Lost(c.copy, k)

\* The objects, the calls and the lock.
RecordsInv ==
  /\ Len(objects) \in Nat \ {0} /\ DOMAIN objects = 1 .. Len(objects)
  /\ objects \in Seq(Object)
  /\ \A o \in 1 .. Len(objects) :
       Good(objects[o]) /\ Size(objects[o]) <= MaxAttempts + 1
  /\ \A c \in calls : CallOK(c)
  /\ \A b, c \in calls : HoldsLock(b) /\ HoldsLock(c) => b = c

Driver ==
  [runtime : Nat, started : Nat, nodes : [Intents -> NodeStates],
   selected : [Intents -> Slaves \cup {0}]]

\* The Driver and the Slaves.
OthersInv ==
  /\ tasks \in [Intents -> Task]
  /\ \A i \in Intents : tasks[i].stage = "accept" => tasks[i].target \in Slaves
  /\ driver \in Driver /\ driver.runtime <= driver.started
  /\ \A i \in Intents : driver.nodes[i] # "none" => driver.selected[i] \in Slaves
  /\ leases \in [Slaves -> [instance : Nat, active : BOOLEAN]]

NodesInv == RecordsInv /\ OthersInv

---------------------------------------------------------------------------
\* The operations on the record of the Run

\* A record with the same attempts.
Keeps(x, y) == y \in RunRecord /\ y.attempts = x.attempts

\* The outcomes that the methods assign are outcomes.
LEMMA NodeOutcomes ==
  /\ \A d \in {"completed", "failed", "cancelled"} : Final(d) \in Outcome
  /\ \A d \in {"repair", "attestation"} : Pending(d) \in Outcome
BY Zenon DEF Final, Pending, Outcome, Dispositions, Decisions, Terminal

\* Only run_succeeded and decision_accepted complete a Run.
LEMMA TableSucceeds ==
  ASSUME NEW state, NEW event,
         <<state, event, "completed">> \in RUN_TRANSITIONS
  PROVE  event \in {"run_succeeded", "decision_accepted"}
BY Zenon DEF RUN_TRANSITIONS

\* _transition changes the state of the record and nothing else.
LEMMA TransitionKeeps ==
  ASSUME NEW x \in RunRecord, NEW event
  PROVE  /\ Keeps(x, Transition(x, event))
         /\ /\ event \notin {"run_succeeded", "decision_accepted"}
            /\ Transition(x, event).state = "completed"
            => x.state = "completed"
<1>1. CASE Allows(x, event)
  <2> DEFINE t == TargetOf(x.state, event)
             y == [x EXCEPT !.state = t]
  <2>0. \E target \in RunStates : <<x.state, event, target>> \in RUN_TRANSITIONS
    BY Zenon, <1>1 DEF Allows
  <2>1. t \in RunStates /\ <<x.state, event, t>> \in RUN_TRANSITIONS
    BY Zenon, <2>0 DEF TargetOf
  <2>2. Transition(x, event) = y
    BY Zenon, <1>1 DEF Transition
  <2> HIDE DEF t
  <2>3. y \in RunRecord /\ y.state = t /\ y.attempts = x.attempts
    BY Zenon, <2>1 DEF RunRecord
  <2> QED
    BY Zenon, <2>1, <2>2, <2>3, TableSucceeds DEF Keeps
<1>2. CASE ~Allows(x, event)
  BY Zenon, <1>2 DEF Transition, Keeps
<1> QED
  BY Zenon, <1>1, <1>2

\* The assignment of an outcome is no change of state.
LEMMA OutcomeKeeps ==
  ASSUME NEW x \in RunRecord, NEW outcome \in Outcome
  PROVE  /\ Keeps(x, [x EXCEPT !.outcome = outcome])
         /\ [x EXCEPT !.outcome = outcome].state = x.state
BY Zenon DEF RunRecord, Keeps

\* A transition that then assigns the outcome (cancel, fail, complete).
LEMMA SettleKeeps ==
  ASSUME NEW x \in RunRecord, NEW event, NEW outcome \in Outcome
  PROVE  /\ Keeps(x, Settle(x, event, outcome))
         /\ /\ event \notin {"run_succeeded", "decision_accepted"}
            /\ Settle(x, event, outcome).state = "completed"
            => x.state = "completed"
<1> DEFINE y == Transition(x, event)
           z == [y EXCEPT !.outcome = outcome]
<1>1. /\ Keeps(x, y)
      /\ event \notin {"run_succeeded", "decision_accepted"} /\ y.state = "completed"
           => x.state = "completed"
  BY Zenon, TransitionKeeps
<1> HIDE DEF y
<1>2. Keeps(y, z) /\ z.state = y.state
  BY Zenon, <1>1, OutcomeKeeps DEF Keeps
<1>3. Settle(x, event, outcome) \in {x, z}
  BY Zenon DEF Settle, y
<1> HIDE DEF z
<1> QED
  BY Zenon, <1>1, <1>2, <1>3 DEF Keeps

\* An outcome assigned before its transition, as a report of a node does.
LEMMA ReportKeeps ==
  ASSUME NEW x \in RunRecord, NEW event, NEW outcome \in Outcome
  PROVE  /\ Keeps(x, Report(x, outcome, event))
         /\ /\ event \notin {"run_succeeded", "decision_accepted"}
            /\ Report(x, outcome, event).state = "completed"
            => x.state = "completed"
<1> DEFINE y == [x EXCEPT !.outcome = outcome]
<1>1. Keeps(x, y) /\ y.state = x.state
  BY Zenon, OutcomeKeeps
<1>2. Report(x, outcome, event) = Transition(y, event)
  BY Zenon DEF Report
<1> HIDE DEF y
<1> QED
  BY Zenon, <1>1, <1>2, TransitionKeeps DEF Keeps

---------------------------------------------------------------------------
\* The edits of an object

\* The parts of an object.
LEMMA GoodParts ==
  ASSUME NEW x, Good(x)
  PROVE  /\ x \in Object /\ x.run \in RunRecord
         /\ x.run.attempts \in Seq(Attempt)
         /\ Size(x) \in Nat /\ DOMAIN x.run.attempts = 1 .. Size(x)
         /\ \A k \in 1 .. Size(x) : x.run.attempts[k] \in Attempt
         /\ x.nodes \in [Intents -> NodeStates]
         /\ x.selected \in [Intents -> Slaves \cup {0}]
<1>1. x \in Object
  BY Zenon DEF Good
<1>2. /\ x.run \in RunRecord /\ x.nodes \in [Intents -> NodeStates]
      /\ x.selected \in [Intents -> Slaves \cup {0}]
  BY Zenon, <1>1 DEF Object
<1>3. x.run.attempts \in Seq(Attempt)
  BY Zenon, <1>2 DEF RunRecord
<1> QED
  BY SMTT(20), <1>1, <1>2, <1>3 DEF Size

\* An attempt is kept by an edit that leaves it alone.
LEMMA SameIsKept ==
  ASSUME NEW i, NEW a \in Attempt
  PROVE  Kept(i, a, a)
BY Zenon DEF Kept

\* The object with another record and another state of a node.
Marked(x, r, i, state) == [x EXCEPT !.run = r, !.nodes[i] = state]

\* Each method loads the object, and what it does not assign stays.
LEMMA WrittenParts ==
  ASSUME NEW x \in Object, NEW r \in RunRecord, NEW i \in Intents,
         NEW state \in NodeStates
  PROVE  LET y == Marked(x, r, i, state)
         IN /\ y \in Object /\ y.run = r /\ y.selected = x.selected
            /\ y.nodes = [x.nodes EXCEPT ![i] = state]
<1> DEFINE n == [x.nodes EXCEPT ![i] = state]
           y == Marked(x, r, i, state)
<1>1. n \in [Intents -> NodeStates]
  BY Zenon DEF Object
<1>2. y = [x EXCEPT !.run = r, !.nodes = n]
  BY Zenon DEF Object, Marked
<1> HIDE DEF n, y
<1>3. y \in Object /\ y.run = r /\ y.nodes = n /\ y.selected = x.selected
  BY Zenon, <1>1, <1>2 DEF Object
<1> QED
  BY Zenon, <1>3 DEF n, y

\* A change of the Run's state is an edit for any node.
LEMMA RunEdit ==
  ASSUME NEW x, Good(x), NEW r, Keeps(x.run, r), NEW i
  PROVE  LET y == [x EXCEPT !.run = r]
         IN /\ Edit(i, x, y) /\ y.nodes = x.nodes
            /\ y.run = r /\ Size(y) = Size(x)
<1> DEFINE y == [x EXCEPT !.run = r]
<1>1. /\ x \in Object /\ Size(x) \in Nat
      /\ \A k \in 1 .. Size(x) : x.run.attempts[k] \in Attempt
  BY Zenon, GoodParts
<1>2. /\ y \in Object /\ y.run = r /\ y.nodes = x.nodes
      /\ y.selected = x.selected
  BY Zenon, <1>1 DEF Object, Keeps
<1> HIDE DEF y
<1>3. y.run.attempts = x.run.attempts /\ Size(y) = Size(x)
  BY Zenon, <1>2 DEF Keeps, Size
<1>4. Good(y)
  BY Zenon, <1>2, <1>3 DEF Good
<1>5. \A k \in 1 .. Size(x) : Kept(i, x.run.attempts[k], y.run.attempts[k])
  BY Zenon, <1>1, <1>3, SameIsKept
<1> QED
  BY Zenon, <1>2, <1>3, <1>4, <1>5 DEF Edit, y

\* The end of attempts of a node, with the state of the node.
LEMMA MarkEdit ==
  ASSUME NEW x, Good(x), NEW r \in RunRecord, NEW i \in Intents,
         NEW state \in NodeStates, state # "none", x.nodes[i] # "none",
         Len(r.attempts) = Size(x),
         \A k \in 1 .. Size(x) : Kept(i, x.run.attempts[k], r.attempts[k])
  PROVE  LET y == Marked(x, r, i, state)
         IN /\ Edit(i, x, y) /\ y.nodes = [x.nodes EXCEPT ![i] = state]
            /\ y.run = r /\ Size(y) = Size(x)
<1> DEFINE y == Marked(x, r, i, state)
<1>1. /\ x \in Object /\ Size(x) \in Nat
      /\ \A k \in 1 .. Size(x) : x.run.attempts[k] \in Attempt
      /\ x.nodes \in [Intents -> NodeStates]
  BY Zenon, GoodParts
<1>2. /\ y \in Object /\ y.run = r /\ y.selected = x.selected
      /\ y.nodes = [x.nodes EXCEPT ![i] = state]
  BY SMTT(20), <1>1, WrittenParts
<1> HIDE DEF y
<1>3. Size(y) = Size(x)
  BY Zenon, <1>2 DEF Size
<1>4. /\ \A j \in Intents : x.nodes[j] # "none" => y.nodes[j] # "none"
      /\ \A j \in Intents \ {i} : y.nodes[j] = x.nodes[j]
  BY Zenon, <1>1, <1>2
<1>5. \A j \in Intents : y.nodes[j] # "none" => x.nodes[j] # "none"
  BY Zenon, <1>1, <1>2
<1>6. ASSUME NEW k \in 1 .. Size(y)
      PROVE  /\ y.run.attempts[k].node \in Intents
             /\ y.nodes[y.run.attempts[k].node] # "none"
             /\ y.run.attempts[k].worker \in Slaves
             /\ y.run.attempts[k].heir \in 0 .. Size(y)
  BY ZenonT(30), <1>2, <1>3, <1>4 DEF Kept, Good
<1>7. \A j \in Intents : y.nodes[j] # "none" => y.selected[j] \in Slaves
  BY Zenon, <1>2, <1>5 DEF Good
<1>8. Good(y)
  BY Zenon, <1>2, <1>6, <1>7 DEF Good
<1> QED
  BY Zenon, <1>2, <1>3, <1>4, <1>8 DEF Edit, y

\* The object with a node accepted for a target.
AcceptedIn(x, i, s) == [x EXCEPT !.nodes[i] = "accepted", !.selected[i] = s]

\* accept_node_intent gives the node its state and its target.
LEMMA AcceptEdit ==
  ASSUME NEW x, Good(x), NEW i \in Intents, NEW s \in Slaves
  PROVE  LET y == AcceptedIn(x, i, s)
         IN /\ Edit(i, x, y) /\ y.nodes = [x.nodes EXCEPT ![i] = "accepted"]
            /\ y.run = x.run /\ Size(y) = Size(x)
<1> DEFINE n == [x.nodes EXCEPT ![i] = "accepted"]
           t == [x.selected EXCEPT ![i] = s]
           y == AcceptedIn(x, i, s)
<1>1. /\ x \in Object /\ Size(x) \in Nat
      /\ \A k \in 1 .. Size(x) : x.run.attempts[k] \in Attempt
      /\ x.nodes \in [Intents -> NodeStates]
      /\ x.selected \in [Intents -> Slaves \cup {0}]
  BY Zenon, GoodParts
<1>2. /\ n \in [Intents -> NodeStates] /\ t \in [Intents -> Slaves \cup {0}]
  BY Zenon, <1>1 DEF NodeStates
<1>3. y = [x EXCEPT !.nodes = n, !.selected = t]
  BY Zenon, <1>1 DEF Object, AcceptedIn
<1> HIDE DEF n, t, y
<1>4. y \in Object /\ y.run = x.run /\ y.nodes = n /\ y.selected = t
  BY Zenon, <1>1, <1>2, <1>3 DEF Object
<1>5. Size(y) = Size(x) /\ y.run.attempts = x.run.attempts
  BY Zenon, <1>4 DEF Size
<1>6. /\ \A j \in Intents : x.nodes[j] # "none" => y.nodes[j] # "none"
      /\ \A j \in Intents \ {i} : y.nodes[j] = x.nodes[j]
  BY Zenon, <1>1, <1>4 DEF n
<1>7. \A j \in Intents : y.nodes[j] # "none" => y.selected[j] \in Slaves
  BY Zenon, <1>1, <1>4 DEF n, t, Good
<1>8. Good(y)
  BY Zenon, <1>4, <1>5, <1>6, <1>7 DEF Good
<1>9. \A k \in 1 .. Size(x) : Kept(i, x.run.attempts[k], y.run.attempts[k])
  BY Zenon, <1>1, <1>5, SameIsKept
<1> QED
  BY Zenon, <1>4, <1>5, <1>6, <1>8, <1>9 DEF Edit, y, n

\* A new attempt comes last and is live.
LEMMA AddParts ==
  ASSUME NEW x, Good(x), NEW i \in Intents, NEW s \in Slaves, NEW instance \in Nat
  PROVE  LET r == AddAttempt(x.run, i, s, instance)
             n == Size(x) + 1
         IN /\ r \in RunRecord /\ r.state = x.run.state
            /\ r.attempts \in Seq(Attempt) /\ Len(r.attempts) = n
            /\ \A k \in 1 .. Size(x) : r.attempts[k] = x.run.attempts[k]
            /\ r.attempts[n].node = i /\ r.attempts[n].state = "created"
            /\ r.attempts[n].worker = s /\ r.attempts[n].heir = 0
<1> DEFINE a == [node |-> i, epoch |-> x.run.epoch, state |-> "created",
                 worker |-> s, instance |-> instance, heir |-> 0]
           q == x.run.attempts
           r == AddAttempt(x.run, i, s, instance)
<1>1. /\ x.run \in RunRecord /\ q \in Seq(Attempt) /\ Size(x) = Len(q)
      /\ Size(x) \in Nat
  BY Zenon, GoodParts DEF Size
<1>2. /\ i \in Nat /\ s \in Nat /\ x.run.epoch \in Nat
  BY SMTT(20), <1>1 DEF Intents, Slaves, RunRecord
<1>3. /\ a \in Attempt /\ a.node = i /\ a.state = "created"
      /\ a.worker = s /\ a.heir = 0
  BY Zenon, <1>2 DEF Attempt, AttemptStates
<1>4. r = [x.run EXCEPT !.attempts = Append(q, a)]
  BY Zenon DEF AddAttempt
<1> HIDE DEF a, r
<1>5. Append(q, a) \in Seq(Attempt)
  BY SMTT(20), <1>1, <1>3
<1>6. /\ r \in RunRecord /\ r.state = x.run.state
      /\ r.attempts = Append(q, a)
  BY Zenon, <1>1, <1>4, <1>5 DEF RunRecord
<1>7. /\ Len(Append(q, a)) = Size(x) + 1
      /\ \A k \in 1 .. Size(x) : Append(q, a)[k] = q[k]
      /\ Append(q, a)[Size(x) + 1] = a
  BY SMTT(20), <1>1, <1>3
<1> QED
  BY Zenon, <1>3, <1>5, <1>6, <1>7 DEF r

\* dispatch_dynamic_node adds an attempt for the target of the node.
LEMMA DispatchEdit ==
  ASSUME NEW x, Good(x), NEW i \in Intents, NEW s \in Slaves, NEW instance \in Nat,
         x.nodes[i] # "none", Size(x) < MaxAttempts
  PROVE  LET y == Marked(x, AddAttempt(x.run, i, s, instance), i, "dispatched")
         IN /\ Edit(i, x, y) /\ y.nodes = [x.nodes EXCEPT ![i] = "dispatched"]
            /\ y.run = AddAttempt(x.run, i, s, instance)
            /\ Size(y) = Size(x) + 1
<1> DEFINE r == AddAttempt(x.run, i, s, instance)
           y == Marked(x, r, i, "dispatched")
<1>0. /\ r \in RunRecord
      /\ Len(r.attempts) = Size(x) + 1
      /\ \A k \in 1 .. Size(x) : r.attempts[k] = x.run.attempts[k]
      /\ r.attempts[Size(x) + 1].node = i
      /\ r.attempts[Size(x) + 1].state = "created"
      /\ r.attempts[Size(x) + 1].worker = s /\ r.attempts[Size(x) + 1].heir = 0
  BY SMTT(20), AddParts
<1> HIDE DEF r
<1>1. /\ x \in Object /\ Size(x) \in Nat
      /\ \A k \in 1 .. Size(x) : x.run.attempts[k] \in Attempt
      /\ x.nodes \in [Intents -> NodeStates]
  BY Zenon, GoodParts
<1>d. "dispatched" \in NodeStates
  BY Zenon DEF NodeStates
<1>2. /\ y \in Object /\ y.run = r /\ y.selected = x.selected
      /\ y.nodes = [x.nodes EXCEPT ![i] = "dispatched"]
  BY SMTT(20), <1>0, <1>1, <1>d, WrittenParts
<1> HIDE DEF y
<1>3. Size(y) = Size(x) + 1
  BY Zenon, <1>0, <1>2 DEF Size
<1>4. /\ \A j \in Intents : x.nodes[j] # "none" <=> y.nodes[j] # "none"
      /\ \A j \in Intents \ {i} : y.nodes[j] = x.nodes[j]
  BY Zenon, <1>1, <1>2
<1>5. \A k \in 1 .. Size(x) : y.run.attempts[k] = x.run.attempts[k]
  BY Zenon, <1>0, <1>2
<1>6. ASSUME NEW k \in 1 .. Size(y)
      PROVE  /\ y.run.attempts[k].node \in Intents
             /\ y.nodes[y.run.attempts[k].node] # "none"
             /\ y.run.attempts[k].worker \in Slaves
             /\ y.run.attempts[k].heir \in 0 .. Size(y)
  <2>1. CASE k \in 1 .. Size(x)
    BY SMTT(20), <1>1, <1>3, <1>4, <1>5, <2>1 DEF Good
  <2>2. CASE k = Size(x) + 1
    BY SMTT(20), <1>0, <1>1, <1>2, <1>3, <1>4, <2>2
  <2> QED
    BY SMTT(20), <1>1, <1>3, <2>1, <2>2
<1>7. \A j \in Intents : y.nodes[j] # "none" => y.selected[j] \in Slaves
  BY Zenon, <1>2, <1>4 DEF Good
<1>8. Good(y)
  BY Zenon, <1>2, <1>6, <1>7 DEF Good
<1>9. \A k \in 1 .. Size(x) : Kept(i, x.run.attempts[k], y.run.attempts[k])
  BY Zenon, <1>1, <1>5, SameIsKept
<1> QED
  BY ZenonT(30), <1>0, <1>2, <1>3, <1>4, <1>8, <1>9 DEF Edit, y, r

\* A report ends its attempt and leaves the others alone.
LEMMA SetAttemptParts ==
  ASSUME NEW x, Good(x), NEW k \in 1 .. Size(x), NEW state \in AttemptStates
  PROVE  LET r == SetAttempt(x.run, k, state)
         IN /\ r \in RunRecord /\ r.state = x.run.state
            /\ Len(r.attempts) = Size(x)
            /\ r.attempts[k] = [x.run.attempts[k] EXCEPT !.state = state]
            /\ \A j \in 1 .. Size(x) : j # k => r.attempts[j] = x.run.attempts[j]
<1> DEFINE q == x.run.attempts
           b == [q[k] EXCEPT !.state = state]
           s == [q EXCEPT ![k] = b]
           r == SetAttempt(x.run, k, state)
<1>1. /\ x.run \in RunRecord /\ q \in Seq(Attempt) /\ Size(x) = Len(q)
      /\ Size(x) \in Nat /\ q[k] \in Attempt
  BY Zenon, GoodParts DEF Size
<1>2. b \in Attempt
  BY Zenon, <1>1 DEF Attempt
<1>3. r = [x.run EXCEPT !.attempts = s]
  BY Zenon DEF SetAttempt
<1> HIDE DEF b, r
<1>4. s \in Seq(Attempt) /\ Len(s) = Len(q)
  <2>1. q \in [1 .. Len(q) -> Attempt] /\ Len(q) \in Nat
    BY SMTT(20), <1>1
  <2>2. s \in [1 .. Len(q) -> Attempt]
    BY Zenon, <1>2, <2>1
  <2> QED
    BY SMTT(20), <2>1, <2>2
<1>5. s[k] = b /\ \A j \in 1 .. Size(x) : j # k => s[j] = q[j]
  BY SMTT(20), <1>1, <1>2
<1> HIDE DEF s
<1>6. r \in RunRecord /\ r.state = x.run.state /\ r.attempts = s
  BY Zenon, <1>1, <1>3, <1>4 DEF RunRecord
<1> QED
  BY Zenon, <1>1, <1>4, <1>5, <1>6 DEF b, r

\* The new state of an attempt that was not lost.
LEMMA StateIsKept ==
  ASSUME NEW i, NEW a \in Attempt, NEW state \in AttemptStates,
         a.state # "lost", state \notin {"created", "lost"},
         a.node = i \/ (a.state = "created" /\ state = "failed")
  PROVE  Kept(i, a, [a EXCEPT !.state = state])
<1> DEFINE b == [a EXCEPT !.state = state]
<1>1. b \in Attempt /\ b.state = state /\ b.node = a.node
      /\ b.worker = a.worker /\ b.heir = a.heir
  BY Zenon DEF Attempt
<1> HIDE DEF b
<1>2. Kept(i, a, b)
  BY Zenon, <1>1 DEF Kept
<1> QED
  BY Zenon, <1>2 DEF b

ResultStates == {"completed", "failed", "decision_required"}

\* The state of a report.
Reported(x, i, k, state) == Marked(x, SetAttempt(x.run, k, state), i, state)

\* record_dynamic_node_result gives its attempt and its node the state of the
\* report.
LEMMA ReportEdit ==
  ASSUME NEW x, Good(x), NEW i \in Intents, NEW k \in 1 .. Size(x),
         x.run.attempts[k].node = i, ~Lost(x, k),
         NEW state \in ResultStates
  PROVE  LET y == Reported(x, i, k, state)
         IN /\ Edit(i, x, y) /\ y.nodes = [x.nodes EXCEPT ![i] = state]
            /\ y.run = SetAttempt(x.run, k, state) /\ Size(y) = Size(x)
<1> DEFINE r == SetAttempt(x.run, k, state)
<1>1. /\ state \in AttemptStates \ {"created", "lost"} /\ state \in NodeStates
      /\ state # "none"
  BY Zenon DEF AttemptStates, NodeStates, ResultStates
<1>2. /\ Size(x) \in Nat
      /\ \A j \in 1 .. Size(x) : x.run.attempts[j] \in Attempt
  BY Zenon, GoodParts
<1>3. /\ r \in RunRecord /\ Len(r.attempts) = Size(x)
      /\ r.attempts[k] = [x.run.attempts[k] EXCEPT !.state = state]
      /\ \A j \in 1 .. Size(x) : j # k => r.attempts[j] = x.run.attempts[j]
  BY SMTT(20), <1>1, SetAttemptParts
<1> HIDE DEF r
<1>4. Kept(i, x.run.attempts[k], r.attempts[k])
  BY SMTT(20), <1>1, <1>2, <1>3, StateIsKept DEF Lost
<1>5. \A j \in 1 .. Size(x) : Kept(i, x.run.attempts[j], r.attempts[j])
  BY ZenonT(30), <1>2, <1>3, <1>4, SameIsKept
<1>6. x.nodes[i] # "none"
  BY Zenon DEF Good
<1> QED
  BY SMTT(20), <1>1, <1>3, <1>5, <1>6, MarkEdit DEF r, Reported

\* The attempts with some of them failed.
FailedAttempts(x, marks) ==
  [k \in DOMAIN x.run.attempts |->
     IF k \in marks THEN [x.run.attempts[k] EXCEPT !.state = "failed"]
                    ELSE x.run.attempts[k]]

\* fail_dynamic_node ends the attempt it looks at, which is live.
LEMMA FailMarks ==
  ASSUME NEW x, Good(x), NEW i, NEW marks,
         \A k \in marks : Live(x.run.attempts[k])
  PROVE  LET q == FailedAttempts(x, marks)
         IN /\ q \in Seq(Attempt) /\ Len(q) = Size(x)
            /\ \A k \in 1 .. Size(x) : Kept(i, x.run.attempts[k], q[k])
<1> DEFINE q == FailedAttempts(x, marks)
<1>1. /\ Size(x) \in Nat /\ DOMAIN x.run.attempts = 1 .. Size(x)
      /\ \A k \in 1 .. Size(x) : x.run.attempts[k] \in Attempt
  BY Zenon, GoodParts
<1>2. ASSUME NEW k \in 1 .. Size(x)
      PROVE  Kept(i, x.run.attempts[k], q[k])
  <2> DEFINE a == x.run.attempts[k]
  <2>1. a \in Attempt
    BY Zenon, <1>1
  <2>2. CASE k \in marks
    <3>1. q[k] = [a EXCEPT !.state = "failed"] /\ a.state = "created"
      BY Zenon, <1>1, <2>2 DEF Live, FailedAttempts
    <3> HIDE DEF q, a
    <3>2. "failed" \in AttemptStates
      BY Zenon DEF AttemptStates
    <3>3. Kept(i, a, q[k])
      BY SMTT(20), <2>1, <3>1, <3>2, StateIsKept
    <3> QED
      BY Zenon, <3>3 DEF a
  <2>3. CASE k \notin marks
    BY Zenon, <1>1, <2>1, <2>3, SameIsKept DEF FailedAttempts
  <2> QED
    BY Zenon, <2>2, <2>3
<1>3. q = [k \in 1 .. Size(x) |-> q[k]]
  BY Zenon, <1>1 DEF FailedAttempts
<1> HIDE DEF q
<1>4. \A k \in 1 .. Size(x) : q[k] \in Attempt
  BY Zenon, <1>2 DEF Kept
<1>5. q \in [1 .. Size(x) -> Attempt]
  BY Zenon, <1>3, <1>4
<1>6. q \in Seq(Attempt) /\ Len(q) = Size(x)
  BY SMTT(20), <1>1, <1>5
<1> QED
  BY Zenon, <1>2, <1>6 DEF q

\* It then settles the Run and fails the node.
LEMMA FailEdit ==
  ASSUME NEW x, Good(x), NEW i \in Intents, x.nodes[i] # "none",
         NEW q \in Seq(Attempt), Len(q) = Size(x),
         \A k \in 1 .. Size(x) : Kept(i, x.run.attempts[k], q[k])
  PROVE  LET r == Settle([x.run EXCEPT !.attempts = q], "run_needs_decision",
                         Pending("repair"))
             y == Marked(x, r, i, "failed")
         IN /\ Edit(i, x, y) /\ y.nodes = [x.nodes EXCEPT ![i] = "failed"]
            /\ y.run = r /\ Size(y) = Size(x) /\ r.attempts = q
            /\ r.state = "completed" => x.run.state = "completed"
<1> DEFINE p == [x.run EXCEPT !.attempts = q]
           r == Settle(p, "run_needs_decision", Pending("repair"))
<1>1. x.run \in RunRecord
  BY Zenon, GoodParts
<1>2. p \in RunRecord /\ p.attempts = q /\ p.state = x.run.state
  BY Zenon, <1>1 DEF RunRecord
<1>3. Pending("repair") \in Outcome
  BY Zenon, NodeOutcomes
<1> HIDE DEF p
<1>4. Keeps(p, r) /\ (r.state = "completed" => p.state = "completed")
  BY SMTT(20), <1>2, <1>3, SettleKeeps
<1> HIDE DEF r
<1>5. r \in RunRecord /\ r.attempts = q
  BY Zenon, <1>2, <1>4 DEF Keeps
<1>6. "failed" \in NodeStates /\ "failed" # "none"
  BY Zenon DEF NodeStates
<1>7. LET y == Marked(x, r, i, "failed")
      IN /\ Edit(i, x, y) /\ y.nodes = [x.nodes EXCEPT ![i] = "failed"]
         /\ y.run = r /\ Size(y) = Size(x)
  BY SMTT(20), <1>5, <1>6, MarkEdit
<1> QED
  BY ZenonT(30), <1>2, <1>4, <1>5, <1>7 DEF r, p

\* The object y is x with attempt k of node i lost and replaced by one of s.
Replaced(x, i, k, s, y) ==
  LET n == Size(x) + 1
  IN /\ y \in Object /\ y.run.state = x.run.state
     /\ y.nodes = [x.nodes EXCEPT ![i] = "dispatched"]
     /\ y.selected = [x.selected EXCEPT ![i] = s]
     /\ Size(y) = n
     /\ \A j \in 1 .. Size(x) : j # k => y.run.attempts[j] = x.run.attempts[j]
     /\ y.run.attempts[k].state = "lost" /\ y.run.attempts[k].node = i
     /\ y.run.attempts[k].worker = x.run.attempts[k].worker
     /\ y.run.attempts[k].heir = n
     /\ y.run.attempts[n].state = "created" /\ y.run.attempts[n].node = i
     /\ y.run.attempts[n].worker = s /\ y.run.attempts[n].heir = 0

\* reassign_dynamic_node: the record with the attempt lost and one more.
LEMMA ReassignedParts ==
  ASSUME NEW x, Good(x), NEW i \in Intents, NEW k \in 1 .. Size(x),
         NEW s \in Slaves, x.run.attempts[k].node = i, leases[s].instance \in Nat
  PROVE  Replaced(x, i, k, s, Reassigned(x, i, k, s))
<1> DEFINE r == AddAttempt(x.run, i, s, leases[s].instance)
           m == Size(x) + 1
           q == r.attempts
           b == [q[k] EXCEPT !.state = "lost", !.heir = m]
           p == [q EXCEPT ![k] = b]
           t == [r EXCEPT !.attempts = p]
           y == Reassigned(x, i, k, s)
<1>1. /\ r \in RunRecord /\ r.state = x.run.state
      /\ q \in Seq(Attempt) /\ Len(q) = m
      /\ \A j \in 1 .. Size(x) : q[j] = x.run.attempts[j]
      /\ q[m].node = i /\ q[m].state = "created"
      /\ q[m].worker = s /\ q[m].heir = 0
  BY SMTT(20), AddParts
<1>2. /\ x \in Object /\ Size(x) \in Nat
      /\ x.nodes \in [Intents -> NodeStates]
      /\ x.selected \in [Intents -> Slaves \cup {0}]
      /\ x.run.attempts[k] \in Attempt
  BY Zenon, GoodParts
<1>3. y = [x EXCEPT !.run = t, !.nodes[i] = "dispatched", !.selected[i] = s]
  <2>1. [r EXCEPT !.attempts[k].state = "lost", !.attempts[k].heir = m] = t
    <3> HIDE DEF r
    <3>0. DOMAIN q = 1 .. m /\ k \in 1 .. m
      BY SMTT(20), <1>1, <1>2
    <3> HIDE DEF m
    <3>1. r \in RunRecord /\ q \in Seq(Attempt) /\ k \in DOMAIN q
      BY Zenon, <1>1, <3>0
    <3> QED
      BY ZenonT(30), <3>1 DEF RunRecord
  <2> QED
    BY Zenon, <2>1 DEF Reassigned, Size
<1> HIDE DEF r, y, t
<1>4. /\ b \in Attempt /\ b.state = "lost" /\ b.heir = m /\ b.node = i
      /\ b.worker = x.run.attempts[k].worker
  <2>1. q[k] = x.run.attempts[k]
    BY Zenon, <1>1
  <2>2. "lost" \in AttemptStates /\ m \in Nat
    BY SMTT(20), <1>2 DEF AttemptStates
  <2> HIDE DEF q, m
  <2> QED
    BY ZenonT(30), <1>2, <2>1, <2>2 DEF Attempt
<1> HIDE DEF b
<1>5. /\ p \in Seq(Attempt) /\ Len(p) = m /\ p[k] = b
      /\ \A j \in 1 .. m : j # k => p[j] = q[j]
  <2>1. q \in [1 .. m -> Attempt] /\ k \in 1 .. m /\ m \in Nat
    BY SMTT(20), <1>1, <1>2
  <2> HIDE DEF q, m
  <2>2. /\ p \in [1 .. m -> Attempt] /\ p[k] = b
        /\ \A j \in 1 .. m : j # k => p[j] = q[j]
    BY Zenon, <1>4, <2>1
  <2> HIDE DEF p
  <2> QED
    BY SMTT(20), <2>1, <2>2
<1> HIDE DEF p
<1>6. t \in RunRecord /\ t.state = r.state /\ t.attempts = p
  BY ZenonT(30), <1>1, <1>5 DEF RunRecord, t
<1>7. /\ [x.nodes EXCEPT ![i] = "dispatched"] \in [Intents -> NodeStates]
      /\ [x.selected EXCEPT ![i] = s] \in [Intents -> Slaves \cup {0}]
  BY Zenon, <1>2 DEF NodeStates
<1>8. /\ y = [x EXCEPT !.run = t, !.nodes = [x.nodes EXCEPT ![i] = "dispatched"],
                       !.selected = [x.selected EXCEPT ![i] = s]]
  BY Zenon, <1>2, <1>3 DEF Object
<1>9. /\ y \in Object /\ y.run = t
      /\ y.nodes = [x.nodes EXCEPT ![i] = "dispatched"]
      /\ y.selected = [x.selected EXCEPT ![i] = s]
  BY ZenonT(30), <1>2, <1>6, <1>7, <1>8 DEF Object
<1>10. /\ y.run.state = x.run.state /\ Size(y) = m /\ y.run.attempts = p
  BY Zenon, <1>1, <1>5, <1>6, <1>9 DEF Size
<1>11. \A j \in 1 .. Size(x) : j # k => y.run.attempts[j] = x.run.attempts[j]
  <2>1. \A j \in 1 .. Size(x) : j \in 1 .. m
    BY SMTT(20), <1>2
  <2> HIDE DEF m, q
  <2> QED
    BY ZenonT(30), <1>1, <1>5, <1>10, <2>1
<1>12. m \in 1 .. m /\ m # k
  BY SMTT(20), <1>2
<1>13. Replaced(x, i, k, s, y)
  BY ZenonT(30), <1>1, <1>4, <1>5, <1>9, <1>10, <1>11, <1>12 DEF Replaced
<1> QED
  BY Zenon, <1>13 DEF y

\* The copy is a sound object, and what was lost is lost in it.
LEMMA ReassignedIsGood ==
  ASSUME NEW x, Good(x), NEW i \in Intents, NEW k \in 1 .. Size(x),
         NEW s \in Slaves, x.run.attempts[k].node = i, leases[s].instance \in Nat
  PROVE  LET y == Reassigned(x, i, k, s)
         IN /\ Good(y) /\ Size(y) = Size(x) + 1
            /\ \A j \in 1 .. Size(x) : Lost(x, j) => Lost(y, j)
<1> DEFINE y == Reassigned(x, i, k, s)
           n == Size(x) + 1
<1>0. Replaced(x, i, k, s, y)
  BY Zenon, ReassignedParts
<1> HIDE DEF y
<1>1. /\ y \in Object
      /\ y.nodes = [x.nodes EXCEPT ![i] = "dispatched"]
      /\ y.selected = [x.selected EXCEPT ![i] = s]
      /\ Size(y) = n
      /\ \A j \in 1 .. Size(x) : j # k => y.run.attempts[j] = x.run.attempts[j]
      /\ y.run.attempts[k].state = "lost" /\ y.run.attempts[k].node = i
      /\ y.run.attempts[k].worker = x.run.attempts[k].worker
      /\ y.run.attempts[k].heir = n
      /\ y.run.attempts[n].node = i
      /\ y.run.attempts[n].worker = s /\ y.run.attempts[n].heir = 0
  BY Zenon, <1>0 DEF Replaced
<1>2. /\ Size(x) \in Nat /\ x.nodes \in [Intents -> NodeStates]
      /\ x.selected \in [Intents -> Slaves \cup {0}]
  BY Zenon, GoodParts
<1>3. /\ \A j \in Intents : x.nodes[j] # "none" => y.nodes[j] # "none"
      /\ y.nodes[i] # "none"
  BY Zenon, <1>1, <1>2
<1>4. \A j \in Intents : y.nodes[j] # "none" => y.selected[j] \in Slaves
  BY Zenon, <1>1, <1>2 DEF Good
<1>5. ASSUME NEW j \in 1 .. Size(y)
      PROVE  /\ y.run.attempts[j].node \in Intents
             /\ y.nodes[y.run.attempts[j].node] # "none"
             /\ y.run.attempts[j].worker \in Slaves
             /\ y.run.attempts[j].heir \in 0 .. Size(y)
  <2>1. CASE j = k
    BY SMTT(20), <1>1, <1>2, <1>3, <2>1 DEF Good
  <2>2. CASE j = n
    BY SMTT(20), <1>1, <1>2, <1>3, <2>2
  <2>3. CASE j \in 1 .. Size(x) /\ j # k
    BY SMTT(20), <1>1, <1>2, <1>3, <2>3 DEF Good
  <2> QED
    BY SMTT(20), <1>1, <1>2, <2>1, <2>2, <2>3
<1>6. Good(y)
  BY ZenonT(30), <1>1, <1>4, <1>5 DEF Good
<1>7. \A j \in 1 .. Size(x) : Lost(x, j) => Lost(y, j)
  BY SMTT(20), <1>1, <1>2 DEF Lost
<1> QED
  BY Zenon, <1>1, <1>6, <1>7 DEF y

---------------------------------------------------------------------------
\* The kinds of steps

\* The objects stay, and no call begins.
Quiet == objects' = objects /\ calls' \subseteq calls

\* A call begins.
Asks(c) ==
  /\ objects' = objects /\ calls' = calls \cup {c}
  /\ CallOK(c) /\ c.op # "swap"
  /\ HoldsLock(c) => ~Locked

\* An object is edited for node i, which may end a call.
Edits(o, i, y) ==
  /\ o \in 1 .. Len(objects)
  /\ objects' = [objects EXCEPT ![o] = y] /\ Edit(i, objects[o], y)
  /\ calls' \subseteq calls

\* A reassignment has made its copy c of the Run.
Copies(b, c) ==
  /\ objects' = objects /\ calls' = (calls \ {b}) \cup {c}
  /\ b \in calls /\ b.op = "reassign" /\ c.op = "swap"
  /\ CallOK(c)

\* The copy becomes the Run.
Swaps(c) ==
  /\ c \in calls /\ c.op = "swap"
  /\ objects' = Append(objects, c.copy) /\ calls' = calls \ {c}

Kind ==
  \/ Quiet
  \/ \E c : Asks(c)
  \/ \E o, i, y : Edits(o, i, y)
  \/ \E b, c : Copies(b, c)
  \/ \E c : Swaps(c)

\* The Run is one of the objects.
LEMMA CurrentIsGood ==
  ASSUME RecordsInv
  PROVE  /\ Len(objects) \in 1 .. Len(objects) /\ Good(Current)
         /\ Size(Current) \in Nat
BY SMTT(20), GoodParts DEF RecordsInv, Current

\* A task asks for something: what Begin says.
LEMMA BeginAsks ==
  ASSUME NEW op, NEW i, NEW target, NEW stage, Begin(op, i, target, stage)
  PROVE  \E c : /\ calls' = calls \cup {c}
                /\ c.op = op /\ c.intent = i /\ c.target = target
                /\ c.object = Len(objects) /\ c.attempt = tasks[i].attempt
                /\ c.runtime = driver.runtime
<1> DEFINE c == [op |-> op, runtime |-> driver.runtime, intent |-> i,
                 object |-> Len(objects), attempt |-> tasks[i].attempt,
                 target |-> target]
<1>1. calls' = calls \cup {c}
  BY Zenon DEF Begin
<1>2. /\ c.op = op /\ c.intent = i /\ c.target = target
      /\ c.object = Len(objects) /\ c.attempt = tasks[i].attempt
      /\ c.runtime = driver.runtime
  BY Zenon
<1> HIDE DEF c
<1> QED
  BY Zenon, <1>1, <1>2

\* An edit followed by a change of the Run's state.
LEMMA EditThen ==
  ASSUME NEW x, Good(x), NEW i, NEW y, Edit(i, x, y), NEW r, Keeps(y.run, r)
  PROVE  LET z == [y EXCEPT !.run = r]
         IN /\ Edit(i, x, z) /\ z.nodes = y.nodes
            /\ z.run = r /\ Size(z) = Size(y)
<1> DEFINE z == [y EXCEPT !.run = r]
<1>0. Good(y)
  BY Zenon DEF Edit
<1>1. /\ Edit(i, y, z) /\ z.nodes = y.nodes
      /\ z.run = r /\ Size(z) = Size(y)
  BY Zenon, <1>0, RunEdit
<1> HIDE DEF z
<1>2. z.run.attempts = y.run.attempts
  BY Zenon, <1>1 DEF Keeps
<1>3. Good(z)
  BY ZenonT(30), <1>1 DEF Edit
<1>4. Edit(i, x, z)
  BY Zenon, <1>1, <1>2, <1>3 DEF Edit
<1> QED
  BY Zenon, <1>1, <1>4 DEF z

\* fail_dynamic_node does nothing or edits the Run for its node.
LEMMA FailNodeEdits ==
  ASSUME RecordsInv, NEW i \in Intents, FailNode(i)
  PROVE  \/ objects' = objects
         \/ \E y : /\ objects' = [objects EXCEPT ![Len(objects)] = y]
                   /\ Edit(i, Current, y) /\ Size(y) = Size(Current)
                   /\ y.nodes = [Current.nodes EXCEPT ![i] = "failed"]
                   /\ y.run.state = "completed" => Current.run.state = "completed"
<1> DEFINE x == Current
           all == NodeAttempts(x, i)
           marks == {j \in DOMAIN x.run.attempts : all # {} /\ j = LastOf(all)}
           q == FailedAttempts(x, marks)
           r == Settle([x.run EXCEPT !.attempts = q], "run_needs_decision",
                       Pending("repair"))
           y == Marked(x, r, i, "failed")
<1>1. Good(Current)
  BY Zenon, CurrentIsGood
<1>2. [j \in DOMAIN x.run.attempts |->
         IF all # {} /\ j = LastOf(all)
         THEN [x.run.attempts[j] EXCEPT !.state = "failed"]
         ELSE x.run.attempts[j]] = q
  BY Zenon DEF FailedAttempts
<1>3. \/ objects' = objects
      \/ /\ x.nodes[i] # "none" /\ (all # {} => Live(x.run.attempts[LastOf(all)]))
         /\ Write(Len(objects), y)
  <2> HIDE DEF q
  <2> QED
    BY Zenon, <1>2 DEF FailNode, Marked
<1>4. CASE /\ x.nodes[i] # "none" /\ (all # {} => Live(x.run.attempts[LastOf(all)]))
           /\ Write(Len(objects), y)
  <2>1. \A j \in marks : Live(x.run.attempts[j])
    BY Zenon, <1>4
  <2> HIDE DEF marks
  <2>2. /\ q \in Seq(Attempt) /\ Len(q) = Size(x)
        /\ \A j \in 1 .. Size(x) : Kept(i, x.run.attempts[j], q[j])
    BY Zenon, <1>1, <2>1, FailMarks
  <2> HIDE DEF q
  <2>3. /\ Edit(i, x, y) /\ y.nodes = [x.nodes EXCEPT ![i] = "failed"]
        /\ y.run = r /\ Size(y) = Size(x)
        /\ r.state = "completed" => x.run.state = "completed"
    BY SMTT(20), <1>1, <1>4, <2>2, FailEdit
  <2> HIDE DEF r, y
  <2>4. objects' = [objects EXCEPT ![Len(objects)] = y]
    BY Zenon, <1>4 DEF Write
  <2> QED
    BY ZenonT(30), <2>3, <2>4
<1> QED
  BY Zenon, <1>3, <1>4

\* What the tasks of the Driver ask for, and fail_dynamic_node.
LEMMA TaskKinds ==
  ASSUME NodesInv, NEW i \in Intents, TaskStep(i)
  PROVE  Kind
<1> DEFINE k == tasks[i].attempt
<1>0. RecordsInv /\ OthersInv
  BY Zenon DEF NodesInv
<1>1. /\ Len(objects) \in 1 .. Len(objects) /\ Good(Current)
      /\ Size(Current) \in Nat /\ Current = objects[Len(objects)]
  BY Zenon, <1>0, CurrentIsGood DEF Current
<1>2. DOMAIN Current.run.attempts = 1 .. Size(Current)
  BY Zenon, <1>1, GoodParts
<1>3. CASE EmitNode(i) \/ ContinueNode(i) \/ WorkFails(i) \/ ConfirmResult(i)
             \/ GiveUp(i)
  BY Zenon, <1>3 DEF EmitNode, ContinueNode, WorkFails, ConfirmResult, GiveUp, Kind, Quiet
<1>4. CASE BeginAccept(i)
  <2>0. objects' = objects /\ ~Locked /\ tasks[i].target \in Slaves
    BY Zenon, <1>0, <1>4 DEF BeginAccept, OthersInv
  <2>1. CASE calls' = calls
    BY Zenon, <2>0, <2>1 DEF Kind, Quiet
  <2>2. CASE Begin("accept", i, tasks[i].target, "accepting")
    <3>1. PICK c : /\ calls' = calls \cup {c}
                   /\ c.op = "accept" /\ c.intent = i
                   /\ c.target = tasks[i].target /\ c.object = Len(objects)
      BY SMTT(20), <2>2, BeginAsks
    <3>2. CallOK(c)
      BY Zenon, <1>1, <2>0, <3>1 DEF CallOK
    <3>3. Asks(c)
      BY Zenon, <2>0, <3>1, <3>2 DEF Asks
    <3> QED
      BY Zenon, <3>3 DEF Kind
  <2> QED
    BY Zenon, <1>4, <2>1, <2>2 DEF BeginAccept, Refuse
<1>5. CASE BeginDispatch(i)
  <2>0. objects' = objects
    BY Zenon, <1>5 DEF BeginDispatch
  <2>1. CASE calls' = calls
    BY Zenon, <2>0, <2>1 DEF Kind, Quiet
  <2>2. CASE /\ Current.nodes[i] = "accepted"
             /\ Begin("dispatch", i, tasks[i].target, "dispatching")
    <3>1. PICK c : /\ calls' = calls \cup {c}
                   /\ c.op = "dispatch" /\ c.intent = i
                   /\ c.object = Len(objects)
      BY SMTT(20), <2>2, BeginAsks
    <3>2. CallOK(c)
      BY Zenon, <1>1, <2>2, <3>1 DEF CallOK, HoldsLock
    <3>3. Asks(c)
      BY Zenon, <2>0, <3>1, <3>2 DEF Asks, HoldsLock
    <3> QED
      BY Zenon, <3>3 DEF Kind
  <2> QED
    BY Zenon, <1>5, <2>1, <2>2 DEF BeginDispatch, Refuse
<1>6. CASE BeginReport(i)
  <2>0. objects' = objects
    BY Zenon, <1>6 DEF BeginReport
  <2>1. CASE calls' = calls
    BY Zenon, <2>0, <2>1 DEF Kind, Quiet
  <2>2. CASE /\ Has(Current, i, k, tasks[i].target)
             /\ Live(Current.run.attempts[k])
             /\ Begin("report", i, tasks[i].target, "reporting")
    <3>1. PICK c : /\ calls' = calls \cup {c}
                   /\ c.op = "report" /\ c.intent = i
                   /\ c.object = Len(objects) /\ c.attempt = k
      BY SMTT(20), <2>2, BeginAsks
    <3>2. /\ k \in 1 .. Size(Current) /\ Current.run.attempts[k].node = i
          /\ ~Lost(Current, k)
      BY Zenon, <1>2, <2>2 DEF Has, NodeAttempts, Live, Lost
    <3>3. CallOK(c)
      BY Zenon, <1>1, <3>1, <3>2 DEF CallOK, HoldsLock
    <3>4. Asks(c)
      BY Zenon, <2>0, <3>1, <3>3 DEF Asks, HoldsLock
    <3> QED
      BY Zenon, <3>4 DEF Kind
  <2> QED
    BY Zenon, <1>6, <2>1, <2>2 DEF BeginReport, Refuse
<1>7. ASSUME NEW s \in Slaves, BeginReassign(i, s)
      PROVE  Kind
  <2>0. objects' = objects /\ ~Locked
    BY Zenon, <1>7 DEF BeginReassign
  <2>1. CASE calls' = calls
    BY Zenon, <2>0, <2>1 DEF Kind, Quiet
  <2>2. CASE /\ MayReassign(Current, i, k, tasks[i].target)
             /\ Begin("reassign", i, s, "reassigning")
    <3>1. PICK c : /\ calls' = calls \cup {c}
                   /\ c.op = "reassign" /\ c.intent = i /\ c.target = s
                   /\ c.object = Len(objects) /\ c.attempt = k
      BY SMTT(20), <2>2, BeginAsks
    <3>2. k \in 1 .. Size(Current) /\ Current.run.attempts[k].node = i
      BY Zenon, <1>2, <2>2 DEF MayReassign, Has, NodeAttempts
    <3>3. Size(Current) <= MaxAttempts
      BY SMTT(20), <1>1, <2>2, NodeConstantsAreSound DEF MayReassign,
         WithinBudget, Size
    <3>4. CallOK(c)
      BY Zenon, <1>1, <3>1, <3>2, <3>3 DEF CallOK, HoldsLock
    <3>5. Asks(c)
      BY Zenon, <2>0, <3>1, <3>4 DEF Asks, HoldsLock
    <3> QED
      BY Zenon, <3>5 DEF Kind
  <2> QED
    BY Zenon, <1>7, <2>1, <2>2 DEF BeginReassign, Refuse
<1>8. CASE FailNode(i)
  <2>1. calls' = calls
    BY Zenon, <1>8 DEF FailNode
  <2>2. \/ objects' = objects
        \/ \E y : /\ objects' = [objects EXCEPT ![Len(objects)] = y]
                  /\ Edit(i, Current, y)
    BY Zenon, <1>0, <1>8, FailNodeEdits
  <2>3. ASSUME NEW y, objects' = [objects EXCEPT ![Len(objects)] = y],
               Edit(i, Current, y)
        PROVE  Kind
    <3>1. Edits(Len(objects), i, y)
      BY Zenon, <1>1, <2>1, <2>3 DEF Edits
    <3> QED
      BY Zenon, <3>1 DEF Kind
  <2> QED
    BY ZenonT(30), <2>1, <2>2, <2>3 DEF Kind, Quiet
<1> QED
  BY Zenon, <1>3, <1>4, <1>5, <1>6, <1>7, <1>8 DEF TaskStep

\* accept_node_intent raises or edits the Run for its node.
LEMMA EndAcceptEdits ==
  ASSUME RecordsInv, NEW c \in calls, EndAccept(c)
  PROVE  /\ calls' = calls \ {c}
         /\ \/ objects' = objects
            \/ \E y : /\ objects' = [objects EXCEPT ![c.object] = y]
                      /\ WithinLimits(objects[c.object])
                      /\ Edit(c.intent, objects[c.object], y)
                      /\ Size(y) = Size(objects[c.object])
                      /\ y.run = objects[c.object].run
                      /\ y.nodes = [objects[c.object].nodes EXCEPT
                                      ![c.intent] = "accepted"]
<1> DEFINE x == objects[c.object]
           y == AcceptedIn(x, c.intent, c.target)
<1>1. calls' = calls \ {c}
  BY Zenon DEF EndAccept, AnswerStage, Answer
<1>2. Good(x) /\ c.intent \in Intents /\ c.target \in Slaves
  BY Zenon DEF EndAccept, RecordsInv, CallOK, HoldsLock
<1>4. objects' = objects \/ (WithinLimits(x) /\ objects' = [objects EXCEPT ![c.object] = y])
  BY Zenon DEF EndAccept, Write, AcceptedIn
<1> HIDE DEF x
<1>3. /\ Edit(c.intent, x, y) /\ y.nodes = [x.nodes EXCEPT ![c.intent] = "accepted"]
      /\ y.run = x.run /\ Size(y) = Size(x)
  BY ZenonT(30), <1>2, AcceptEdit
<1> HIDE DEF y
<1> QED
  BY Zenon, <1>1, <1>3, <1>4 DEF x

\* dispatch_dynamic_node raises or edits the object it loaded.
LEMMA EndDispatchEdits ==
  ASSUME NodesInv, NEW c \in calls, EndDispatch(c)
  PROVE  /\ calls' = calls \ {c}
         /\ \/ objects' = objects
            \/ \E y : /\ objects' = [objects EXCEPT ![c.object] = y]
                      /\ Edit(c.intent, objects[c.object], y)
                      /\ Size(y) = Size(objects[c.object]) + 1
                      /\ y.run.state = objects[c.object].run.state
                      /\ y.nodes = [objects[c.object].nodes EXCEPT
                                      ![c.intent] = "dispatched"]
<1> DEFINE x == objects[c.object]
           r == AddAttempt(x.run, c.intent, c.target, leases[c.target].instance)
           y == Marked(x, r, c.intent, "dispatched")
<1>1. calls' = calls \ {c}
  BY ZenonT(30) DEF EndDispatch, AnswerStage, Answer
<1>2. Good(x) /\ c.intent \in Intents /\ x.nodes[c.intent] # "none"
  BY Zenon DEF EndDispatch, NodesInv, RecordsInv, CallOK
<1>3. \/ objects' = objects
      \/ /\ x.selected[c.intent] = c.target /\ WithinBudget(x)
         /\ objects' = [objects EXCEPT ![c.object] = y]
  BY Zenon DEF EndDispatch, Write, Marked
<1>4. CASE /\ x.selected[c.intent] = c.target /\ WithinBudget(x)
           /\ objects' = [objects EXCEPT ![c.object] = y]
  <2>1. c.target \in Slaves
    BY Zenon, <1>2, <1>4 DEF Good
  <2>2. leases[c.target].instance \in Nat
    BY Zenon, <2>1 DEF NodesInv, OthersInv
  <2>3. Size(x) < MaxAttempts
    BY Zenon, <1>4 DEF WithinBudget, Size
  <2>4. /\ Edit(c.intent, x, y)
        /\ y.nodes = [x.nodes EXCEPT ![c.intent] = "dispatched"]
        /\ y.run = r /\ Size(y) = Size(x) + 1
    BY SMTT(20), <1>2, <2>1, <2>2, <2>3, DispatchEdit
  <2>5. r.state = x.run.state
    BY SMTT(20), <1>2, <2>1, <2>2, AddParts
  <2> HIDE DEF r, y
  <2> QED
    BY ZenonT(30), <1>1, <1>4, <2>4, <2>5
<1> HIDE DEF y
<1> QED
  BY ZenonT(30), <1>1, <1>3, <1>4

\* The decision that a Run needs after a report that is no success.
Undecided(x, i, k, state, d) ==
  LET y == Reported(x, i, k, state)
  IN [y EXCEPT !.run = Report(y.run, Pending(d), "run_needs_decision")]

\* What a report leaves of the object.
ReportOf(x, i, k, state, y) ==
  /\ Edit(i, x, y)
  /\ Size(y) = Size(x)
  /\ state \in ResultStates
  /\ y.nodes = [x.nodes EXCEPT ![i] = state]
  /\ y.run.attempts[k].state = state
  /\ y.run.state = "completed" => x.run.state = "completed"

\* The attempt and the node get the state of the report.
LEMMA ReportedParts ==
  ASSUME NEW x, Good(x), NEW i \in Intents, NEW k \in 1 .. Size(x),
         x.run.attempts[k].node = i, ~Lost(x, k),
         NEW state \in ResultStates
  PROVE  /\ ReportOf(x, i, k, state, Reported(x, i, k, state))
         /\ Reported(x, i, k, state).run \in RunRecord
<1> DEFINE r == SetAttempt(x.run, k, state)
           y == Reported(x, i, k, state)
<1>0. state \in AttemptStates
  BY Zenon DEF AttemptStates, ResultStates
<1>1. /\ r \in RunRecord /\ r.state = x.run.state
      /\ r.attempts[k] = [x.run.attempts[k] EXCEPT !.state = state]
  BY SMTT(20), <1>0, SetAttemptParts
<1>2. /\ Edit(i, x, y) /\ y.nodes = [x.nodes EXCEPT ![i] = state]
      /\ y.run = r /\ Size(y) = Size(x)
  BY SMTT(20), ReportEdit
<1>3. x.run.attempts[k] \in Attempt
  BY ZenonT(30), GoodParts
<1>4. r.attempts[k].state = state
  BY ZenonT(30), <1>1, <1>3 DEF Attempt
<1> HIDE DEF r, y
<1>5. ReportOf(x, i, k, state, y)
  BY ZenonT(30), <1>1, <1>2, <1>4 DEF ReportOf
<1> QED
  BY Zenon, <1>1, <1>2, <1>5 DEF y

\* A report that is no success also changes the Run.
LEMMA UndecidedParts ==
  ASSUME NEW x, Good(x), NEW i \in Intents, NEW k \in 1 .. Size(x),
         x.run.attempts[k].node = i, ~Lost(x, k),
         NEW state \in ResultStates,
         NEW d \in {"repair", "attestation"}
  PROVE  ReportOf(x, i, k, state, Undecided(x, i, k, state, d))
<1> DEFINE y == Reported(x, i, k, state)
           r == Report(y.run, Pending(d), "run_needs_decision")
           z == [y EXCEPT !.run = r]
<1>1. ReportOf(x, i, k, state, y) /\ y.run \in RunRecord
  BY Zenon, ReportedParts
<1>2. Undecided(x, i, k, state, d) = z
  BY Zenon DEF Undecided
<1> HIDE DEF y
<1>3. Pending(d) \in Outcome
  BY Zenon, NodeOutcomes
<1>4. Keeps(y.run, r) /\ (r.state = "completed" => y.run.state = "completed")
  BY SMTT(20), <1>1, <1>3, ReportKeeps
<1> HIDE DEF r
<1>5. Edit(i, x, y)
  BY Zenon, <1>1 DEF ReportOf
<1>6. /\ Edit(i, x, z) /\ z.nodes = y.nodes
      /\ z.run = r /\ Size(z) = Size(y)
  BY SMTT(20), <1>4, <1>5, EditThen
<1> HIDE DEF z
<1>7. r.attempts = y.run.attempts
  BY Zenon, <1>4 DEF Keeps
<1>8. ReportOf(x, i, k, state, z)
  BY Zenon, <1>1, <1>4, <1>6, <1>7 DEF ReportOf
<1> QED
  BY Zenon, <1>2, <1>8

\* record_dynamic_node_result raises or edits the object it loaded.
LEMMA EndReportEdits ==
  ASSUME RecordsInv, NEW c \in calls, EndReport(c)
  PROVE  /\ calls' = calls \ {c}
         /\ \/ objects' = objects
            \/ \E y, state :
                 /\ objects' = [objects EXCEPT ![c.object] = y]
                 /\ ReportOf(objects[c.object], c.intent, c.attempt, state, y)
<1> DEFINE x == objects[c.object]
           i == c.intent
           k == c.attempt
           p == Reported(x, i, k, "completed")
           q == Undecided(x, i, k, "failed", "repair")
           r == Undecided(x, i, k, "decision_required", "attestation")
<1>1. calls' = calls \ {c}
  BY ZenonT(30) DEF EndReport, AnswerStage, Answer
<1>2. /\ Good(x) /\ i \in Intents /\ k \in 1 .. Size(x)
      /\ x.run.attempts[k].node = i /\ ~Lost(x, k)
  BY Zenon DEF EndReport, RecordsInv, CallOK
<1>3. \/ objects' = objects
      \/ objects' = [objects EXCEPT ![c.object] = p]
      \/ objects' = [objects EXCEPT ![c.object] = q]
      \/ objects' = [objects EXCEPT ![c.object] = r]
  BY Zenon DEF EndReport, Write, Marked, Reported, Undecided
<1> HIDE DEF x, i, k
<1>s. {"completed", "failed", "decision_required"} \subseteq ResultStates
  BY Zenon DEF ResultStates
<1>4. ReportOf(x, i, k, "completed", p)
  BY ZenonT(30), <1>2, <1>s, ReportedParts
<1>5. /\ ReportOf(x, i, k, "failed", q)
      /\ ReportOf(x, i, k, "decision_required", r)
  BY ZenonT(30), <1>2, <1>s, UndecidedParts
<1> HIDE DEF p, q, r
<1> QED
  BY ZenonT(30), <1>1, <1>3, <1>4, <1>5 DEF x, i, k

\* reassign_dynamic_node copies the Run when the lease of the Slave is over.
LEMMA CopyKinds ==
  ASSUME NodesInv, NEW b \in calls, CopyRecord(b)
  PROVE  \/ Quiet /\ calls' = calls \ {b}
         \/ \E c : /\ Copies(b, c)
                   /\ c.intent = b.intent /\ c.runtime = b.runtime
                   /\ c.copy = Reassigned(Current, b.intent, b.attempt, b.target)
                   /\ tasks' = tasks
<1> DEFINE x == Current
           y == Reassigned(x, b.intent, b.attempt, b.target)
           c == [op |-> "swap", runtime |-> b.runtime, intent |-> b.intent,
                 target |-> b.target, copy |-> y]
<1>0. RecordsInv /\ OthersInv
  BY Zenon DEF NodesInv
<1>1. /\ b.op = "reassign" /\ CallOK(b) /\ objects' = objects
  BY ZenonT(30), <1>0 DEF CopyRecord, RecordsInv
<1>2. /\ b.object = Len(objects) /\ b.intent \in Intents /\ b.target \in Slaves
      /\ b.attempt \in 1 .. Size(x) /\ x.run.attempts[b.attempt].node = b.intent
      /\ Size(x) <= MaxAttempts
  BY Zenon, <1>1 DEF CallOK, HoldsLock
<1>3. Good(x) /\ Size(x) \in Nat
  BY ZenonT(30), <1>0, CurrentIsGood
<1>4. leases[b.target].instance \in Nat
  BY ZenonT(30), <1>0, <1>2 DEF OthersInv
<1>5. objects[b.object] = x
  BY Zenon, <1>2 DEF Current
<1>6. \/ calls' = calls \ {b}
      \/ calls' = (calls \ {b}) \cup {c} /\ tasks' = tasks
  BY ZenonT(30), <1>5 DEF CopyRecord, AnswerStage, Answer
<1>7. /\ c.op = "swap" /\ c.runtime = b.runtime /\ c.intent = b.intent
      /\ c.target = b.target /\ c.copy = y
  BY Zenon
<1> HIDE DEF c, x
<1>8. /\ Good(y) /\ Size(y) = Size(x) + 1
      /\ \A k \in 1 .. Size(x) : Lost(x, k) => Lost(y, k)
  BY ZenonT(30), <1>2, <1>3, <1>4, ReassignedIsGood
<1>9. Size(y) <= MaxAttempts + 1
  BY SMTT(20), <1>2, <1>3, <1>8, NodeConstantsAreSound
<1> HIDE DEF y
<1>10. CallOK(c)
  BY ZenonT(30), <1>2, <1>7, <1>8, <1>9 DEF CallOK, HoldsLock, x
<1> QED
  BY ZenonT(30), <1>1, <1>6, <1>7, <1>10 DEF Quiet, Copies, x, y

\* A record that takes another state.
LEMMA RunEdits ==
  ASSUME RecordsInv, NEW o \in 1 .. Len(objects), NEW r, Keeps(objects[o].run, r),
         calls' \subseteq calls,
         objects' = [objects EXCEPT ![o] = [objects[o] EXCEPT !.run = r]]
  PROVE  Kind
<1> DEFINE x == objects[o]
           y == [x EXCEPT !.run = r]
<1>1. Good(x)
  BY Zenon DEF RecordsInv
<1> HIDE DEF x
<1>2. Edit(0, x, y)
  BY ZenonT(30), <1>1, RunEdit DEF x
<1>3. Edits(o, 0, y)
  BY Zenon, <1>2 DEF Edits, x
<1> QED
  BY Zenon, <1>3 DEF Kind

\* complete_orchestration settles the Run it loaded.
LEMMA EndCompleteEdits ==
  ASSUME RecordsInv, NEW c \in calls, EndComplete(c)
  PROVE  \E r : /\ Keeps(objects[c.object].run, r)
                /\ objects' = [objects EXCEPT ![c.object] =
                                 [objects[c.object] EXCEPT !.run = r]]
<1> DEFINE x == objects[c.object]
           p == Settle(x.run, "run_succeeded", Final("completed"))
           q == Settle(x.run, "run_needs_decision", Pending("attestation"))
           s == Settle(x.run, "run_needs_decision", Pending("repair"))
<1>1. Good(x)
  BY Zenon DEF EndComplete, RecordsInv, CallOK
<1>2. \/ objects' = [objects EXCEPT ![c.object] = [x EXCEPT !.run = p]]
      \/ objects' = [objects EXCEPT ![c.object] = [x EXCEPT !.run = q]]
      \/ objects' = [objects EXCEPT ![c.object] = [x EXCEPT !.run = s]]
  BY Zenon DEF EndComplete, Write
<1> HIDE DEF x
<1>3. x.run \in RunRecord
  BY ZenonT(30), <1>1, GoodParts
<1>4. /\ Final("completed") \in Outcome /\ Pending("attestation") \in Outcome
      /\ Pending("repair") \in Outcome
  BY Zenon, NodeOutcomes
<1>5. Keeps(x.run, p) /\ Keeps(x.run, q) /\ Keeps(x.run, s)
  BY ZenonT(30), <1>3, <1>4, SettleKeeps
<1> HIDE DEF p, q, s
<1> QED
  BY Zenon, <1>2, <1>5 DEF x

\* The calls in progress.
LEMMA CallKinds ==
  ASSUME NodesInv, CallStep
  PROVE  Kind
<1>0. RecordsInv /\ OthersInv
  BY Zenon DEF NodesInv
<1>1. PICK c \in calls :
        \/ EndAccept(c) \/ EndDispatch(c) \/ EndReport(c)
        \/ CopyRecord(c) \/ SwapRecord(c) \/ EndComplete(c)
  BY Zenon DEF CallStep
<1>2. CallOK(c)
  BY Zenon, <1>0 DEF RecordsInv
<1>3. ASSUME NEW y, c.op # "swap", objects' = [objects EXCEPT ![c.object] = y],
             Edit(c.intent, objects[c.object], y), calls' = calls \ {c}
      PROVE  Kind
  <2>1. Edits(c.object, c.intent, y)
    BY ZenonT(30), <1>2, <1>3 DEF Edits, CallOK
  <2> QED
    BY Zenon, <2>1 DEF Kind
<1>4. CASE EndAccept(c)
  BY ZenonT(30), <1>0, <1>3, <1>4, EndAcceptEdits DEF Kind, Quiet, EndAccept
<1>5. CASE EndDispatch(c)
  BY ZenonT(30), <1>3, <1>5, EndDispatchEdits DEF Kind, Quiet, EndDispatch
<1>6. CASE EndReport(c)
  BY ZenonT(30), <1>0, <1>3, <1>6, EndReportEdits DEF Kind, Quiet, EndReport, ReportOf
<1>7. CASE CopyRecord(c)
  BY ZenonT(30), <1>7, CopyKinds DEF Kind
<1>8. CASE SwapRecord(c)
  <2>1. Swaps(c)
    BY Zenon, <1>8 DEF SwapRecord, Swaps, Answer
  <2> QED
    BY Zenon, <2>1 DEF Kind
<1>9. CASE EndComplete(c)
  <2>1. PICK r : /\ Keeps(objects[c.object].run, r)
                 /\ objects' = [objects EXCEPT ![c.object] =
                                  [objects[c.object] EXCEPT !.run = r]]
    BY Zenon, <1>0, <1>9, EndCompleteEdits
  <2>2. c.object \in 1 .. Len(objects) /\ calls' \subseteq calls
    BY Zenon, <1>2, <1>9 DEF EndComplete, CallOK
  <2> QED
    BY ZenonT(30), <1>0, <2>1, <2>2, RunEdits
<1> QED
  BY ZenonT(30), <1>1, <1>4, <1>5, <1>6, <1>7, <1>8, <1>9

\* The end of the program fails a Run that still runs.
LEMMA EndProgramEdits ==
  ASSUME RecordsInv, EndProgram \/ (CancelRun /\ calls' = calls)
  PROVE  \E r : /\ Keeps(Current.run, r)
                /\ r.state = "completed" => Current.run.state = "completed"
                /\ objects' = [objects EXCEPT ![Len(objects)] =
                                 [objects[Len(objects)] EXCEPT !.run = r]]
<1> DEFINE x == Current
           p == Failed(x.run)
           q == Cancelled(x.run)
<1>1. x.run \in RunRecord
  BY Zenon, CurrentIsGood, GoodParts
<1>2. \/ objects' = [objects EXCEPT ![Len(objects)] = [x EXCEPT !.run = x.run]]
      \/ objects' = [objects EXCEPT ![Len(objects)] = [x EXCEPT !.run = p]]
      \/ objects' = [objects EXCEPT ![Len(objects)] = [x EXCEPT !.run = q]]
  BY Zenon DEF EndProgram, CancelRun, Write
<1>3. x = objects[Len(objects)]
  BY Zenon DEF Current
<1> HIDE DEF x
<1>4. Final("failed") \in Outcome /\ Final("cancelled") \in Outcome
  BY Zenon, NodeOutcomes
<1>5. /\ Keeps(x.run, p) /\ (p.state = "completed" => x.run.state = "completed")
      /\ Keeps(x.run, q) /\ (q.state = "completed" => x.run.state = "completed")
  BY SMTT(20), <1>1, <1>4, SettleKeeps DEF Failed, Cancelled
<1>6. Keeps(x.run, x.run)
  BY Zenon, <1>1 DEF Keeps
<1> HIDE DEF p, q
<1> QED
  BY Zenon, <1>2, <1>3, <1>5, <1>6 DEF x

\* The kinds of all steps.
LEMMA StepKinds ==
  ASSUME NodesInv, [NodesNext]_nodeVars
  PROVE  Kind
<1>0. RecordsInv /\ OthersInv
  BY Zenon DEF NodesInv
<1>1. Len(objects) \in 1 .. Len(objects) /\ Current = objects[Len(objects)]
  BY Zenon, <1>0, CurrentIsGood DEF Current
<1>2. ASSUME EndProgram \/ (CancelRun /\ calls' = calls), calls' = calls
      PROVE  Kind
  <2>1. PICK r : /\ Keeps(Current.run, r)
                 /\ objects' = [objects EXCEPT ![Len(objects)] =
                                  [objects[Len(objects)] EXCEPT !.run = r]]
    BY Zenon, <1>0, <1>2, EndProgramEdits
  <2> QED
    BY Zenon, <1>0, <1>1, <1>2, <2>1, RunEdits
<1>3. CASE UNCHANGED nodeVars
  BY Zenon, <1>3 DEF nodeVars, Kind, Quiet
<1>4. CASE \E i \in Intents : TaskStep(i)
  BY Zenon, <1>4, TaskKinds
<1>5. CASE CallStep
  BY Zenon, <1>5, CallKinds
<1>6. CASE NodeFailed
  BY Zenon, <1>2, <1>6 DEF NodeFailed, EndProgram
<1>7. CASE ProgramFailed
  BY ZenonT(30), <1>2, <1>7 DEF ProgramFailed, EndProgram
<1>8. CASE BeginComplete
  <2>1. CASE EndProgram
    BY Zenon, <1>2, <2>1 DEF EndProgram
  <2>2. CASE /\ calls' = calls \cup {[op |-> "complete", runtime |-> driver.runtime,
                                      object |-> Len(objects)]}
             /\ objects' = objects
    <3> DEFINE c == [op |-> "complete", runtime |-> driver.runtime,
                     object |-> Len(objects)]
    <3>1. c.op = "complete" /\ c.object = Len(objects)
      BY Zenon
    <3> HIDE DEF c
    <3>2. Asks(c)
      BY ZenonT(30), <1>1, <2>2, <3>1 DEF Asks, CallOK, HoldsLock, c
    <3> QED
      BY Zenon, <3>2 DEF Kind
  <2> QED
    BY ZenonT(30), <1>8, <2>1, <2>2 DEF BeginComplete
<1>9. CASE CancelRun
  BY ZenonT(30), <1>2, <1>9 DEF CancelRun
<1>10. CASE NoticeCancel \/ Crash \/ Resume
  BY Zenon, <1>10 DEF NoticeCancel, Crash, Resume, Kind, Quiet
<1>11. CASE \E s \in Slaves : LoseLease(s) \/ RegisterSlave(s)
  BY ZenonT(30), <1>11 DEF LoseLease, RegisterSlave, Kind, Quiet
<1> QED
  BY Zenon, <1>3, <1>4, <1>5, <1>6, <1>7, <1>8, <1>9, <1>10, <1>11 DEF NodesNext

---------------------------------------------------------------------------
\* The invariant

\* What the calls in progress may rely on in an object that is edited.
Moved(x, y) ==
  /\ \A j \in Intents : x.nodes[j] # "none" => y.nodes[j] # "none"
  /\ \A k \in 1 .. Size(x) :
       k \in 1 .. Size(y) /\ y.run.attempts[k].node = x.run.attempts[k].node
  /\ \A k \in 1 .. Size(y) : Lost(y, k) <=> Lost(x, k)
  /\ Size(x) <= MaxAttempts => Size(y) <= MaxAttempts

\* An edit keeps what they rely on.
LEMMA EditMoves ==
  ASSUME NEW x, Good(x), NEW i, NEW y, Edit(i, x, y)
  PROVE  Moved(x, y)
<1>1. Size(x) \in Nat /\ Size(y) \in Nat
  BY Zenon, GoodParts DEF Edit
<1>2. \A k \in 1 .. Size(x) :
        k \in 1 .. Size(y) /\ y.run.attempts[k].node = x.run.attempts[k].node
  BY SMTT(20), <1>1 DEF Edit, Kept
<1>3. ASSUME NEW k \in 1 .. Size(y)
      PROVE  Lost(y, k) <=> Lost(x, k)
  <2>1. CASE k \in 1 .. Size(x)
    BY Zenon, <2>1 DEF Edit, Kept, Lost
  <2>2. CASE k \notin 1 .. Size(x)
    <3>1. k = Size(y) /\ y.run.attempts[k].state = "created"
      BY SMTT(20), <1>1, <2>2 DEF Edit
    <3> QED
      BY Zenon, <2>2, <3>1 DEF Lost
  <2> QED
    BY Zenon, <2>1, <2>2
<1>4. Size(x) <= MaxAttempts => Size(y) <= MaxAttempts
  BY SMTT(20), <1>1, NodeConstantsAreSound DEF Edit
<1>5. \A j \in Intents : x.nodes[j] # "none" => y.nodes[j] # "none"
  BY Zenon DEF Edit
<1> QED
  BY ZenonT(30), <1>2, <1>3, <1>4, <1>5 DEF Moved

\* Calls go on while the objects are edited.
LEMMA CallsGoOn ==
  ASSUME Len(objects) \in Nat \ {0}, Len(objects') = Len(objects),
         \A p \in 1 .. Len(objects) : Moved(objects[p], objects'[p]),
         NEW c, CallOK(c)
  PROVE  CallOK(c)'
<1>1. Current' = objects'[Len(objects)] /\ Moved(Current, Current')
  BY SMTT(20) DEF Current
<1>2. c.op = "dispatch" => objects'[c.object].nodes[c.intent] # "none"
  BY Zenon DEF CallOK, Moved
<1>3. c.op = "report" =>
        /\ c.attempt \in 1 .. Size(objects'[c.object])
        /\ objects'[c.object].run.attempts[c.attempt].node = c.intent
        /\ ~Lost(objects'[c.object], c.attempt)
  BY ZenonT(30) DEF CallOK, Moved
<1>4. c.op = "reassign" =>
        /\ c.object = Len(objects')
        /\ c.attempt \in 1 .. Size(Current')
        /\ Current'.run.attempts[c.attempt].node = c.intent
        /\ Size(Current') <= MaxAttempts
  BY Zenon, <1>1 DEF CallOK, Moved
<1>5. c.op = "swap" =>
        \A k \in 1 .. Size(Current') : Lost(Current', k) => Lost(c.copy, k)
  <2> SUFFICES ASSUME c.op = "swap", NEW k \in 1 .. Size(Current'), Lost(Current', k)
               PROVE  Lost(c.copy, k)
    BY Zenon
  <2>1. Lost(Current, k)
    BY ZenonT(30), <1>1 DEF Moved
  <2> QED
    BY Zenon, <2>1 DEF CallOK, Lost
<1>6. /\ c.op \in {"accept", "dispatch", "report", "reassign", "swap", "complete"}
      /\ c.op # "swap" => c.object \in 1 .. Len(objects')
      /\ c.op # "complete" => c.intent \in Intents
      /\ HoldsLock(c) => c.target \in Slaves
      /\ c.op = "swap" => Good(c.copy) /\ Size(c.copy) <= MaxAttempts + 1
  BY Zenon DEF CallOK
<1> QED
  BY ZenonT(30), <1>2, <1>3, <1>4, <1>5, <1>6 DEF CallOK, Current, Lost, Size, Good, HoldsLock

\* The invariant without its primes, for a state that is not yet known to be
\* the next one.
LEMMA RecordsNext ==
  ASSUME Len(objects') \in Nat \ {0}, DOMAIN objects' = 1 .. Len(objects'),
         objects' \in Seq(Object),
         \A o \in 1 .. Len(objects') :
           Good(objects'[o]) /\ Size(objects'[o]) <= MaxAttempts + 1,
         \A c \in calls' : CallOK(c)',
         \A b, c \in calls' : HoldsLock(b) /\ HoldsLock(c) => b = c
  PROVE  RecordsInv'
BY ZenonT(30) DEF RecordsInv, Good, Size, HoldsLock

\* An edit of one object.
LEMMA EditsKeep ==
  ASSUME RecordsInv, NEW o, NEW i, NEW y, Edits(o, i, y)
  PROVE  RecordsInv'
<1>1. /\ Len(objects) \in Nat \ {0} /\ DOMAIN objects = 1 .. Len(objects)
      /\ objects \in Seq(Object) /\ o \in 1 .. Len(objects)
      /\ objects' = [objects EXCEPT ![o] = y] /\ Good(objects[o])
      /\ Size(objects[o]) <= MaxAttempts + 1
      /\ Edit(i, objects[o], y) /\ calls' \subseteq calls
  BY Zenon DEF RecordsInv, Edits
<1>2. Good(y) /\ y \in Object
  BY ZenonT(30), <1>1 DEF Edit, Good
<1>3. /\ objects' \in Seq(Object) /\ Len(objects') = Len(objects)
      /\ DOMAIN objects' = 1 .. Len(objects')
  <2>1. objects \in [1 .. Len(objects) -> Object]
    BY SMTT(20), <1>1
  <2>2. objects' \in [1 .. Len(objects) -> Object]
    BY Zenon, <1>1, <1>2, <2>1
  <2> QED
    BY SMTT(20), <1>1, <2>2
<1>4. \A p \in 1 .. Len(objects) : objects'[p] = IF p = o THEN y ELSE objects[p]
  BY Zenon, <1>1
<1>5. Size(y) <= MaxAttempts + 1
  <2>1. Size(objects[o]) \in Nat /\ Size(y) \in Nat
    BY Zenon, <1>1, <1>2, GoodParts
  <2> QED
    BY SMTT(20), <1>1, <2>1, NodeConstantsAreSound DEF Edit
<1>6. \A p \in 1 .. Len(objects') :
        Good(objects'[p]) /\ Size(objects'[p]) <= MaxAttempts + 1
  BY Zenon, <1>2, <1>3, <1>4, <1>5 DEF RecordsInv
<1>7. ASSUME NEW p \in 1 .. Len(objects)
      PROVE  Moved(objects[p], objects'[p])
  <2>1. Moved(objects[o], y)
    BY ZenonT(30), <1>1, EditMoves
  <2>2. Moved(objects[p], objects[p])
    <3>1. Size(objects[p]) \in Nat
      BY ZenonT(30), GoodParts DEF RecordsInv
    <3> QED
      BY ZenonT(30), <3>1 DEF Moved
  <2> QED
    BY ZenonT(30), <1>4, <2>1, <2>2
<1>8. \A c \in calls' : CallOK(c)'
  <2> SUFFICES ASSUME NEW c \in calls'
               PROVE  CallOK(c)'
    BY Zenon
  <2>1. CallOK(c)
    BY ZenonT(30), <1>1 DEF RecordsInv
  <2> QED
    BY ZenonT(30), <1>1, <1>3, <1>7, <2>1, CallsGoOn
<1>9. \A b, c \in calls' : HoldsLock(b) /\ HoldsLock(c) => b = c
  BY ZenonT(30), <1>1 DEF RecordsInv
<1> QED
  BY ZenonT(30), <1>1, <1>3, <1>6, <1>8, <1>9, RecordsNext

\* Calls whose objects stay stay as they are.
LEMMA CallsStay ==
  ASSUME objects' = objects, NEW c, CallOK(c)
  PROVE  CallOK(c)'
BY ZenonT(30) DEF CallOK, Current, Lost, Size, Good, HoldsLock

\* The copy becomes the Run: the lock keeps other reassignments out, and the
\* other calls go on with the objects they have.
LEMMA SwapsKeep ==
  ASSUME RecordsInv, NEW b, Swaps(b)
  PROVE  RecordsInv'
<1>1. /\ Len(objects) \in Nat \ {0} /\ DOMAIN objects = 1 .. Len(objects)
      /\ objects \in Seq(Object) /\ b \in calls /\ b.op = "swap"
      /\ objects' = Append(objects, b.copy) /\ calls' = calls \ {b}
  BY Zenon DEF RecordsInv, Swaps
<1>2. Good(b.copy) /\ Size(b.copy) <= MaxAttempts + 1 /\ b.copy \in Object
  BY ZenonT(30), <1>1 DEF RecordsInv, CallOK, Good
<1>3. /\ objects' \in Seq(Object) /\ Len(objects') = Len(objects) + 1
      /\ DOMAIN objects' = 1 .. Len(objects')
      /\ objects'[Len(objects) + 1] = b.copy
      /\ \A o \in 1 .. Len(objects) : objects'[o] = objects[o]
  BY SMTT(20), <1>1, <1>2
<1>4. \A o \in 1 .. Len(objects') :
        Good(objects'[o]) /\ Size(objects'[o]) <= MaxAttempts + 1
  <2> SUFFICES ASSUME NEW o \in 1 .. Len(objects')
               PROVE  Good(objects'[o]) /\ Size(objects'[o]) <= MaxAttempts + 1
    BY Zenon
  <2>1. o \in 1 .. Len(objects) \/ o = Len(objects) + 1
    BY SMTT(20), <1>1, <1>3
  <2> QED
    BY ZenonT(30), <1>2, <1>3, <2>1 DEF RecordsInv
<1>5. ASSUME NEW c \in calls'
      PROVE  CallOK(c)'
  <2>1. CallOK(c) /\ ~HoldsLock(c)
    BY Zenon, <1>1, <1>5 DEF RecordsInv, HoldsLock
  <2>2. c.op \in {"dispatch", "report", "complete"} /\ c.object \in 1 .. Len(objects)
    BY Zenon, <2>1 DEF CallOK, HoldsLock
  <2>3. objects'[c.object] = objects[c.object] /\ c.object \in 1 .. Len(objects')
    BY SMTT(20), <1>1, <1>3, <2>2
  <2>4. /\ c.op = "dispatch" => objects'[c.object].nodes[c.intent] # "none"
        /\ c.op = "report" =>
             /\ c.attempt \in 1 .. Size(objects'[c.object])
             /\ objects'[c.object].run.attempts[c.attempt].node = c.intent
             /\ ~Lost(objects'[c.object], c.attempt)
        /\ c.op # "complete" => c.intent \in Intents
    BY ZenonT(30), <2>1, <2>3 DEF CallOK
  <2> QED
    BY ZenonT(30), <2>1, <2>2, <2>3, <2>4 DEF CallOK, Current, Lost, Size, Good, HoldsLock
<1>6. \A c, d \in calls' : HoldsLock(c) /\ HoldsLock(d) => c = d
  BY Zenon, <1>1 DEF RecordsInv
<1> QED
  BY SMTT(20), <1>1, <1>3, <1>4, <1>5, <1>6, RecordsNext

\* The records, the calls and the lock after any step.
LEMMA RecordsStep ==
  ASSUME RecordsInv, Kind
  PROVE  RecordsInv'
<1>0. /\ Len(objects) \in Nat \ {0} /\ DOMAIN objects = 1 .. Len(objects)
      /\ objects \in Seq(Object)
      /\ \A o \in 1 .. Len(objects) :
           Good(objects[o]) /\ Size(objects[o]) <= MaxAttempts + 1
      /\ \A c \in calls : CallOK(c)
      /\ \A b, c \in calls : HoldsLock(b) /\ HoldsLock(c) => b = c
  BY Zenon DEF RecordsInv
<1>1. ASSUME objects' = objects, \A c \in calls' : CallOK(c),
             \A b, c \in calls' : HoldsLock(b) /\ HoldsLock(c) => b = c
      PROVE  RecordsInv'
  <2>1. \A c \in calls' : CallOK(c)'
    BY Zenon, <1>1, CallsStay
  <2> QED
    BY Zenon, <1>0, <1>1, <2>1, RecordsNext
<1>2. CASE Quiet
  BY Zenon, <1>0, <1>1, <1>2 DEF Quiet
<1>3. ASSUME NEW c, Asks(c)
      PROVE  RecordsInv'
  <2>1. \A b \in calls : ~(HoldsLock(b) /\ HoldsLock(c))
    BY Zenon, <1>3 DEF Asks, Locked, HoldsLock
  <2> QED
    BY Zenon, <1>0, <1>1, <1>3, <2>1 DEF Asks
<1>4. ASSUME NEW b, NEW c, Copies(b, c)
      PROVE  RecordsInv'
  <2>1. \A d \in calls \ {b} : ~HoldsLock(d)
    BY ZenonT(30), <1>0, <1>4 DEF Copies, HoldsLock
  <2> QED
    BY ZenonT(30), <1>0, <1>1, <1>4, <2>1 DEF Copies
<1> QED
  BY Zenon, <1>2, <1>3, <1>4, EditsKeep, SwapsKeep DEF Kind

\* The last of some attempts is one of them.
LEMMA LastIsIn ==
  ASSUME NEW n \in Nat, NEW indexes \in SUBSET (1 .. n), indexes # {}
  PROVE  LastOf(indexes) \in indexes
<1> DEFINE R == OpToRel(<, Nat)
           T == {n - k : k \in indexes}
<1>1. IsWellFoundedOn(R, Nat)
  BY Zenon, NatLessThanWellFounded
<1>2. T \subseteq Nat /\ T # {}
  <2>1. \A k \in indexes : n - k \in Nat /\ n - k \in T
    BY SMTT(20)
  <2> QED
    BY Zenon, <2>1
<1>3. \A x, y \in Nat : y < x => <<y, x>> \in R
  BY Zenon DEF OpToRel
<1> HIDE DEF R, T
<1>4. PICK x \in T : \A y \in T : ~(<<y, x>> \in R)
  BY Zenon, <1>1, <1>2, WFMin
<1>5. PICK k \in indexes : x = n - k
  BY Zenon DEF T
<1>6. ASSUME NEW j \in indexes
      PROVE  j <= k
  <2>1. n - j \in T /\ n - j \in Nat /\ x \in Nat
    BY Zenon, <1>2 DEF T
  <2>2. ~(n - j < x)
    BY Zenon, <1>3, <1>4, <2>1
  <2> QED
    BY SMTT(20), <1>5, <2>1, <2>2
<1> QED
  BY Zenon, <1>6 DEF LastOf

\* What a task becomes.
TaskOK(t) == t \in Task /\ (t.stage = "accept" => t.target \in Slaves)

\* The tasks and the Driver's view of the nodes, field by field.
LEMMA TasksNext ==
  ASSUME NEW t \in [Intents -> Task], \A i \in Intents : TaskOK(t[i]),
         NEW i \in Intents, NEW u, TaskOK(u)
  PROVE  /\ [t EXCEPT ![i] = u] \in [Intents -> Task]
         /\ \A j \in Intents : TaskOK([t EXCEPT ![i] = u][j])
BY Zenon DEF TaskOK

\* A change of the stage of a task.
LEMMA StageIsOK ==
  ASSUME NEW t \in Task, NEW stage \in Stages, stage # "accept"
  PROVE  TaskOK([t EXCEPT !.stage = stage])
BY Zenon DEF Task, TaskOK

\* GoTo, as a task of its own.
LEMMA GoToIs ==
  ASSUME NEW i \in Intents, NEW stage, tasks \in [Intents -> Task]
  PROVE  [tasks EXCEPT ![i].stage = stage]
           = [tasks EXCEPT ![i] = [tasks[i] EXCEPT !.stage = stage]]
BY Zenon

TasksOK(t) == t \in [Intents -> Task] /\ \A i \in Intents : TaskOK(t[i])

\* A task of the Driver goes on.
LEMMA TasksGoOn ==
  ASSUME NEW i \in Intents, NEW u, TaskOK(u), TasksOK(tasks),
         tasks' = [tasks EXCEPT ![i] = u]
  PROVE  TasksOK(tasks')
BY Zenon, TasksNext DEF TasksOK

\* A task of the Driver enters another stage.
LEMMA StagesGoOn ==
  ASSUME NEW i \in Intents, NEW stage \in Stages, stage # "accept", TasksOK(tasks),
         GoTo(i, stage)
  PROVE  TasksOK(tasks')
<1>1. tasks[i] \in Task /\ tasks \in [Intents -> Task]
  BY Zenon DEF TasksOK
<1>2. TaskOK([tasks[i] EXCEPT !.stage = stage])
  BY Zenon, <1>1, StageIsOK
<1>3. tasks' = [tasks EXCEPT ![i] = [tasks[i] EXCEPT !.stage = stage]]
  BY Zenon, <1>1, GoToIs DEF GoTo
<1> QED
  BY ZenonT(30), <1>2, <1>3, TasksGoOn

\* The answer of a call reaches its task, or nobody.
LEMMA AnswersGoOn ==
  ASSUME NEW c, c.intent \in Intents, NEW u, TaskOK(u), TasksOK(tasks), Answer(c, u)
  PROVE  TasksOK(tasks')
BY ZenonT(30), TasksGoOn DEF Answer

\* The same for an answer that only gives a stage.
LEMMA AnswerStagesGoOn ==
  ASSUME NEW c, c.intent \in Intents, NEW stage \in Stages, stage # "accept",
         TasksOK(tasks), AnswerStage(c, stage)
  PROVE  TasksOK(tasks')
<1>1. TaskOK([tasks[c.intent] EXCEPT !.stage = stage])
  BY Zenon, StageIsOK DEF TasksOK
<1> QED
  BY Zenon, <1>1, AnswersGoOn DEF AnswerStage

\* The tasks of a runtime that is gone.
LEMMA NoTasks == TasksOK([i \in Intents |-> NoTask])
<1>1. NoTask \in Task /\ NoTask.stage = "none"
  BY Zenon DEF NoTask, Task, Stages
<1> QED
  BY Zenon, <1>1 DEF TasksOK, TaskOK

\* The steps of the tasks.
LEMMA TaskTasks ==
  ASSUME NodesInv, NEW i \in Intents, TaskStep(i), TasksOK(tasks)
  PROVE  TasksOK(tasks')
<1>0. RecordsInv /\ OthersInv
  BY Zenon DEF NodesInv
<1>s. /\ {"done", "failed", "fail", "accepting", "dispatch", "continue", "recover",
          "dispatching", "work", "reporting", "confirm", "reassigning"}
            \subseteq Stages
      /\ "accept" \in Stages
  BY Zenon DEF Stages
<1>t. tasks[i] \in Task /\ tasks \in [Intents -> Task]
  BY Zenon DEF TasksOK
<1>c. /\ Good(Current) /\ DOMAIN Current.run.attempts = 1 .. Size(Current)
      /\ Size(Current) \in Nat
  BY ZenonT(30), <1>0, CurrentIsGood, GoodParts
<1>h. \A k \in 1 .. Size(Current) :
        /\ Current.run.attempts[k].worker \in Slaves
        /\ Current.run.attempts[k].heir \in 0 .. Size(Current)
  BY Zenon, <1>c DEF Good
<1>g. ASSUME NEW stage \in Stages, stage # "accept", GoTo(i, stage)
      PROVE  TasksOK(tasks')
  BY ZenonT(30), <1>g, StagesGoOn
<1>1. CASE EmitNode(i)
  <2>1. ASSUME NEW s \in Targets(i),
               tasks' = [tasks EXCEPT ![i].stage = "accept", ![i].target = s]
        PROVE  TasksOK(tasks')
    <3> DEFINE u == [tasks[i] EXCEPT !.stage = "accept", !.target = s]
    <3>1. s \in Slaves
      BY Zenon, <1>0, <2>1 DEF Targets, OthersInv
    <3>2. TaskOK(u)
      BY Zenon, <1>s, <1>t, <3>1 DEF TaskOK, Task
    <3>3. tasks' = [tasks EXCEPT ![i] = u]
      BY ZenonT(30), <1>t, <2>1
    <3> HIDE DEF u
    <3> QED
      BY Zenon, <3>2, <3>3, TasksGoOn
  <2> QED
    BY ZenonT(30), <1>1, <1>g, <1>s, <2>1 DEF EmitNode
<1>2. CASE BeginAccept(i)
  <2>1. \A state : NextStage(state) \in Stages /\ NextStage(state) # "accept"
    BY Zenon, <1>s DEF NextStage
  <2> QED
    BY Zenon, <1>2, <1>g, <1>s, <2>1 DEF BeginAccept, Refuse, Begin
<1>3. CASE ContinueNode(i)
  <2> DEFINE live == LiveAttempts(Current, i)
             k == LastOf(live)
             a == Current.run.attempts[k]
             u == [stage |-> IF InstanceLost(a) THEN "recover" ELSE "work",
                   target |-> a.worker, attempt |-> k]
  <2>1. CASE live # {} /\ tasks' = [tasks EXCEPT ![i] = u]
    <3>1. k \in 1 .. Size(Current)
      BY ZenonT(30), <1>c, <2>1, LastIsIn DEF LiveAttempts, NodeAttempts
    <3>2. a.worker \in Slaves /\ k \in Nat
      BY SMTT(20), <1>c, <1>h, <3>1
    <3> HIDE DEF k, a
    <3>3. TaskOK(u)
      BY ZenonT(30), <1>s, <3>2 DEF TaskOK, Task
    <3> HIDE DEF u
    <3> QED
      BY Zenon, <2>1, <3>3, TasksGoOn
  <2>2. CASE GoTo(i, "fail")
    BY ZenonT(30), <1>g, <1>s, <2>2
  <2> QED
    BY ZenonT(30), <1>3, <2>1, <2>2 DEF ContinueNode
<1>4. CASE BeginDispatch(i) \/ WorkFails(i) \/ BeginReport(i) \/ ConfirmResult(i)
             \/ GiveUp(i) \/ FailNode(i)
  BY ZenonT(30), <1>4, <1>g, <1>s DEF BeginDispatch, WorkFails, BeginReport, ConfirmResult,
                          GiveUp, FailNode, Refuse, Begin
<1>5. ASSUME NEW s \in Slaves, BeginReassign(i, s)
      PROVE  TasksOK(tasks')
  <2> DEFINE k == tasks[i].attempt
             a == Current.run.attempts[k]
             b == Current.run.attempts[a.heir]
             u == [tasks[i] EXCEPT !.stage = "work", !.attempt = a.heir,
                                   !.target = b.worker]
  <2>1. CASE /\ Has(Current, i, k, tasks[i].target) /\ a.heir # 0
             /\ tasks' = [tasks EXCEPT ![i] = u]
    <3>1. k \in 1 .. Size(Current)
      BY Zenon, <1>c, <2>1 DEF Has, NodeAttempts
    <3>2. a.heir \in 1 .. Size(Current)
      <4>1. a.heir \in 0 .. Size(Current)
        BY ZenonT(30), <1>h, <3>1
      <4> HIDE DEF a
      <4> QED
        BY SMTT(20), <1>c, <2>1, <4>1
    <3>3. b.worker \in Slaves /\ a.heir \in Nat
      <4> HIDE DEF a
      <4> QED
        BY SMTT(20), <1>c, <1>h, <3>2
    <3> HIDE DEF b, a, k
    <3>4. TaskOK(u)
      BY ZenonT(30), <1>s, <1>t, <3>3 DEF TaskOK, Task
    <3> HIDE DEF u
    <3> QED
      BY ZenonT(30), <2>1, <3>4, TasksGoOn
  <2>2. \/ /\ Has(Current, i, k, tasks[i].target) /\ a.heir # 0
           /\ tasks' = [tasks EXCEPT ![i] = u]
        \/ GoTo(i, "reassigning") \/ GoTo(i, "fail")
    BY Zenon, <1>5 DEF BeginReassign, Refuse, Begin
  <2> QED
    BY ZenonT(30), <1>g, <1>s, <2>1, <2>2
<1> QED
  BY ZenonT(30), <1>1, <1>2, <1>3, <1>4, <1>5 DEF TaskStep

\* The answers of the calls.
LEMMA CallTasks ==
  ASSUME NodesInv, CallStep, TasksOK(tasks)
  PROVE  TasksOK(tasks')
<1>0. RecordsInv /\ OthersInv
  BY Zenon DEF NodesInv
<1>s. /\ {"failed", "dispatch", "fail", "confirm", "recover", "work"} \subseteq Stages
      /\ NextStage("accepted") = "dispatch"
  BY Zenon DEF Stages, NextStage
<1>1. PICK c \in calls :
        \/ EndAccept(c) \/ EndDispatch(c) \/ EndReport(c)
        \/ CopyRecord(c) \/ SwapRecord(c) \/ EndComplete(c)
  BY Zenon DEF CallStep
<1>2. CallOK(c)
  BY Zenon, <1>0 DEF RecordsInv
<1>3. CASE EndComplete(c)
  BY ZenonT(30), <1>3, NoTasks DEF EndComplete, DriverOff
<1>4. CASE ~EndComplete(c)
  <2>1. c.intent \in Intents
    BY ZenonT(30), <1>1, <1>2, <1>4 DEF CallOK, EndAccept, EndDispatch, EndReport, CopyRecord,
                            SwapRecord
  <2>2. ASSUME NEW stage \in Stages, stage # "accept", AnswerStage(c, stage)
        PROVE  TasksOK(tasks')
    BY ZenonT(30), <2>1, <2>2, AnswerStagesGoOn
  <2>3. tasks[c.intent] \in Task
    BY ZenonT(30), <2>1 DEF TasksOK
  <2>4. CASE EndAccept(c) \/ EndReport(c) \/ CopyRecord(c)
    BY ZenonT(30), <1>s, <2>2, <2>4 DEF EndAccept, EndReport, CopyRecord
  <2>5. CASE EndDispatch(c)
    <3> DEFINE x == objects[c.object]
               y == [x EXCEPT !.run = AddAttempt(x.run, c.intent, c.target,
                                                 leases[c.target].instance),
                              !.nodes[c.intent] = "dispatched"]
               u == [tasks[c.intent] EXCEPT !.stage = "work",
                                            !.attempt = Len(y.run.attempts)]
    <3>1. CASE Write(c.object, y) /\ Answer(c, u)
      <4>1. /\ Good(x) /\ x.run \in RunRecord /\ x.run.attempts \in Seq(Attempt)
            /\ x \in Object
        BY ZenonT(30), <1>0, <1>2, <2>5, GoodParts DEF EndDispatch, RecordsInv, CallOK
      <4>2. y.run = AddAttempt(x.run, c.intent, c.target, leases[c.target].instance)
        BY Zenon, <4>1 DEF Object
      <4>3. Len(y.run.attempts) \in Nat
        BY SMTT(20), <4>1, <4>2 DEF AddAttempt, RunRecord
      <4> HIDE DEF y
      <4>4. TaskOK(u)
        BY Zenon, <1>s, <2>3, <4>3 DEF TaskOK, Task
      <4> HIDE DEF u
      <4> QED
        BY ZenonT(30), <2>1, <3>1, <4>4, AnswersGoOn
    <3>2. CASE AnswerStage(c, "fail")
      BY Zenon, <1>s, <2>2, <3>2
    <3> QED
      BY ZenonT(30), <2>5, <3>1, <3>2 DEF EndDispatch
  <2>6. CASE SwapRecord(c)
    <3> DEFINE u == [tasks[c.intent] EXCEPT !.stage = "work",
                       !.attempt = Len(c.copy.run.attempts), !.target = c.target]
    <3>1. Answer(c, u)
      BY Zenon, <2>6 DEF SwapRecord
    <3>2. Good(c.copy) /\ c.target \in Slaves
      BY Zenon, <1>2, <2>6 DEF SwapRecord, CallOK, HoldsLock
    <3>3. Len(c.copy.run.attempts) \in Nat
      BY Zenon, <3>2, GoodParts DEF Size
    <3>4. TaskOK(u)
      BY ZenonT(30), <1>s, <2>3, <3>2, <3>3 DEF TaskOK, Task
    <3> HIDE DEF u
    <3> QED
      BY Zenon, <2>1, <3>1, <3>4, AnswersGoOn
  <2> QED
    BY ZenonT(30), <1>1, <1>4, <2>4, <2>5, <2>6
<1> QED
  BY ZenonT(30), <1>3, <1>4

\* A runtime that ends keeps what it has seen.
LEMMA DriverEnds ==
  ASSUME NEW d \in Driver
  PROVE  LET e == [d EXCEPT !.runtime = 0]
         IN /\ e \in Driver /\ e.runtime = 0 /\ e.started = d.started
            /\ e.nodes = d.nodes /\ e.selected = d.selected
BY Zenon DEF Driver

\* A lease that begins or ends.
LEMMA LeaseTypes ==
  ASSUME NEW l \in [instance : Nat, active : BOOLEAN], NEW b \in BOOLEAN
  PROVE  /\ [l EXCEPT !.active = b] \in [instance : Nat, active : BOOLEAN]
         /\ [instance |-> l.instance + 1, active |-> b]
              \in [instance : Nat, active : BOOLEAN]
BY SMTT(20)

\* The Driver, the Slaves and the tasks after any step.
LEMMA OthersStep ==
  ASSUME NodesInv, [NodesNext]_nodeVars
  PROVE  OthersInv'
<1>0. RecordsInv /\ OthersInv
  BY Zenon DEF NodesInv
<1>1. TasksOK(tasks)
  BY Zenon, <1>0 DEF OthersInv, TasksOK, TaskOK
<1>2. TasksOK(tasks')
  <2>1. CASE UNCHANGED tasks
    BY Zenon, <1>1, <2>1
  <2>2. CASE DriverOff
    BY ZenonT(30), <2>2, NoTasks DEF DriverOff
  <2>3. CASE \E i \in Intents : TaskStep(i)
    BY ZenonT(30), <1>1, <2>3, TaskTasks
  <2>4. CASE CallStep
    BY ZenonT(30), <1>1, <2>4, CallTasks
  <2> QED
    BY ZenonT(30), <2>1, <2>2, <2>3, <2>4
    DEF NodesNext, nodeVars, NodeFailed, ProgramFailed, EndProgram, BeginComplete,
        CancelRun, NoticeCancel, Crash, Resume, LoseLease, RegisterSlave
<1>3. \/ driver' = driver
      \/ driver' = [driver EXCEPT !.runtime = 0]
      \/ Resume
  <2>1. ASSUME NEW i \in Intents, TaskStep(i)
        PROVE  driver' = driver
    BY ZenonT(30), <2>1 DEF TaskStep, EmitNode, BeginAccept, ContinueNode, BeginDispatch,
                WorkFails, BeginReport, ConfirmResult, GiveUp, BeginReassign, FailNode
  <2>2. ASSUME CallStep
        PROVE  driver' \in {driver, [driver EXCEPT !.runtime = 0]}
    BY Zenon, <2>2 DEF CallStep, EndAccept, EndDispatch, EndReport, CopyRecord,
       SwapRecord,
                EndComplete, DriverOff
  <2> QED
    BY ZenonT(30), <2>1, <2>2
    DEF NodesNext, nodeVars, NodeFailed, ProgramFailed, EndProgram, BeginComplete,
        DriverOff, CancelRun, NoticeCancel, Crash, LoseLease, RegisterSlave
<1>4. /\ driver' \in Driver /\ driver'.runtime <= driver'.started
      /\ \A i \in Intents : driver'.nodes[i] # "none" => driver'.selected[i] \in Slaves
  <2>0. /\ driver \in Driver /\ driver.runtime <= driver.started
        /\ \A i \in Intents : driver.nodes[i] # "none" => driver.selected[i] \in Slaves
        /\ driver.started \in Nat
    BY Zenon, <1>0 DEF OthersInv, Driver
  <2>1. CASE driver' = driver
    BY ZenonT(30), <2>0, <2>1
  <2>2. CASE driver' = [driver EXCEPT !.runtime = 0]
    BY SMTT(20), <2>0, <2>2, DriverEnds
  <2>3. CASE Resume
    <3>1. driver' = [runtime |-> driver.started + 1, started |-> driver.started + 1,
                     nodes |-> Current.nodes, selected |-> Current.selected]
      BY Zenon, <2>3 DEF Resume
    <3>2. /\ Current.nodes \in [Intents -> NodeStates]
          /\ Current.selected \in [Intents -> Slaves \cup {0}]
          /\ \A i \in Intents : Current.nodes[i] # "none" => Current.selected[i] \in Slaves
      BY Zenon, <1>0, CurrentIsGood, GoodParts DEF Good
    <3>3. driver.started + 1 \in Nat
      BY SMTT(20), <2>0
    <3>4. driver' \in Driver
      BY Zenon, <3>1, <3>2, <3>3 DEF Driver
    <3>5. /\ driver'.nodes = Current.nodes /\ driver'.selected = Current.selected
          /\ driver'.runtime = driver'.started /\ driver'.started \in Nat
      BY Zenon, <3>1, <3>3
    <3> QED
      BY SMTT(20), <3>2, <3>4, <3>5
  <2> QED
    BY ZenonT(30), <1>3, <2>1, <2>2, <2>3
<1>5. leases' \in [Slaves -> [instance : Nat, active : BOOLEAN]]
  <2>0. leases \in [Slaves -> [instance : Nat, active : BOOLEAN]]
    BY Zenon, <1>0 DEF OthersInv
  <2>1. ASSUME NEW s \in Slaves, LoseLease(s) \/ RegisterSlave(s)
        PROVE  leases' \in [Slaves -> [instance : Nat, active : BOOLEAN]]
    <3> DEFINE p == [leases[s] EXCEPT !.active = FALSE]
               q == [leases[s] EXCEPT !.active = TRUE]
               r == [instance |-> leases[s].instance + 1, active |-> TRUE]
    <3>1. /\ p \in [instance : Nat, active : BOOLEAN]
          /\ q \in [instance : Nat, active : BOOLEAN]
          /\ r \in [instance : Nat, active : BOOLEAN]
      <4>1. leases[s] \in [instance : Nat, active : BOOLEAN]
        BY Zenon, <2>0
      <4> QED
        BY ZenonT(30), <4>1, LeaseTypes
    <3>2. \/ leases' = [leases EXCEPT ![s] = p] \/ leases' = [leases EXCEPT ![s] = q]
          \/ leases' = [leases EXCEPT ![s] = r]
      BY Zenon, <2>1 DEF LoseLease, RegisterSlave
    <3> HIDE DEF p, q, r
    <3> QED
      BY ZenonT(30), <2>0, <3>1, <3>2
  <2>2. ASSUME NEW i \in Intents, TaskStep(i)
        PROVE  leases' = leases
    BY Zenon, <2>2 DEF TaskStep, EmitNode, BeginAccept, ContinueNode, BeginDispatch,
                WorkFails, BeginReport, ConfirmResult, GiveUp, BeginReassign, FailNode
  <2>3. ASSUME CallStep
        PROVE  leases' = leases
    BY ZenonT(30), <2>3 DEF CallStep, EndAccept, EndDispatch, EndReport, CopyRecord, SwapRecord,
                EndComplete
  <2> QED
    BY Zenon, <2>0, <2>1, <2>2, <2>3
    DEF NodesNext, nodeVars, NodeFailed, ProgramFailed, BeginComplete,
        CancelRun, NoticeCancel, Crash, Resume
<1> QED
  BY Zenon, <1>2, <1>4, <1>5 DEF OthersInv, TasksOK, TaskOK

\* The Run when it has just been started.
LEMMA NewObjectIsGood ==
  /\ Good(NewObject) /\ Size(NewObject) = 0
  /\ NewObject.run.state = "running"
  /\ NewObject.nodes = [i \in Intents |-> "none"]
  /\ NewObject.selected = [i \in Intents |-> 0]
<1>1. RunningRun \in RunRecord /\ RunningRun.attempts = <<>>
      /\ RunningRun.state = "running"
  <2> DEFINE x == OpenedRun("orchestrated")
             d == [x.committed EXCEPT !.version = 1, !.draft = 1]
  <2>1. x \in RunRecord /\ x.attempts = <<>>
    BY SMTT(20) DEF OpenedRun, RunRecord, RunStates, Draft, Closure, ProgramKinds,
           Outcome, NoOutcome, Dispositions, Decisions
  <2> HIDE DEF x
  <2>2. d \in Closure
    <3>1. x.committed \in Closure
      BY Zenon, <2>1 DEF RunRecord
    <3> QED
      BY Zenon, <3>1 DEF Closure
  <2>3. RunningRun = [x EXCEPT !.state = "running", !.committed = d, !.execution = 1]
    BY ZenonT(30), <2>1 DEF RunningRun, RunRecord, x
  <2> HIDE DEF d
  <2>4. "running" \in RunStates
    BY Zenon DEF RunStates
  <2> QED
    BY Zenon, <2>1, <2>2, <2>3, <2>4 DEF RunRecord
<1>2. /\ NewObject.run = RunningRun
      /\ NewObject.nodes = [i \in Intents |-> "none"]
      /\ NewObject.selected = [i \in Intents |-> 0]
  BY Zenon DEF NewObject
<1>3. NewObject \in Object
  BY Zenon, <1>1 DEF NewObject, Object, NodeStates
<1>4. Size(NewObject) = 0
  BY SMTT(20), <1>1, <1>2 DEF Size
<1>5. Good(NewObject)
  BY SMTT(20), <1>2, <1>3, <1>4 DEF Good
<1> QED
  BY ZenonT(30), <1>1, <1>2, <1>4, <1>5

\* At first the Run has no nodes and no call is in progress.
LEMMA NodesStart == NodesInit => NodesInv
<1> SUFFICES ASSUME NodesInit
             PROVE  NodesInv
  BY Zenon
<1>1. /\ objects = <<NewObject>> /\ calls = {}
      /\ tasks = [i \in Intents |-> NoTask]
      /\ driver = [runtime |-> 1, started |-> 1, nodes |-> NewObject.nodes,
                   selected |-> NewObject.selected]
      /\ leases = [s \in Slaves |-> [instance |-> 1, active |-> TRUE]]
  BY Zenon DEF NodesInit
<1>2. Good(NewObject) /\ Size(NewObject) = 0 /\ NewObject \in Object
  BY Zenon, NewObjectIsGood DEF Good
<1>3. RecordsInv
  BY SMTT(20), <1>1, <1>2, NodeConstantsAreSound DEF RecordsInv
<1>4. TasksOK(tasks)
  BY Zenon, <1>1, NoTasks
<1>5. /\ NewObject.nodes \in [Intents -> NodeStates]
      /\ NewObject.selected \in [Intents -> Slaves \cup {0}]
      /\ \A i \in Intents : NewObject.nodes[i] = "none"
  BY ZenonT(30), <1>2, NewObjectIsGood, GoodParts
<1>6. /\ driver \in Driver /\ driver.runtime = 1 /\ driver.started = 1
      /\ driver.nodes = NewObject.nodes
  BY Zenon, <1>1, <1>5 DEF Driver
<1>7. leases \in [Slaves -> [instance : Nat, active : BOOLEAN]]
  BY Zenon, <1>1
<1>8. OthersInv
  BY SMTT(20), <1>4, <1>5, <1>6, <1>7 DEF OthersInv, TasksOK, TaskOK
<1> QED
  BY ZenonT(30), <1>3, <1>8 DEF NodesInv

\* Every step of the Driver, the Observer and the Slaves keeps the invariant.
LEMMA NodesStep ==
  ASSUME NodesInv, [NodesNext]_nodeVars
  PROVE  NodesInv'
<1>1. Kind
  BY Zenon, StepKinds
<1>2. RecordsInv'
  BY Zenon, <1>1, RecordsStep DEF NodesInv
<1> QED
  BY Zenon, <1>2, OthersStep DEF NodesInv

\* The objects, the calls of the Observer, the Driver and the Slaves stay as
\* the methods of the Observer expect them.
THEOREM NodesInvariant == NodesSpec => []NodesInv
<1>1. NodesInit => NodesInv
  BY Zenon, NodesStart
<1>2. NodesInv /\ [NodesNext]_nodeVars => NodesInv'
  BY Zenon, NodesStep
<1> QED
  BY <1>1, <1>2, PTL DEF NodesSpec

\* The records, the nodes, the tasks and the runtime always have their types.
THEOREM NodesTypeCorrect == NodesSpec => []NodesTypeOK
<1>1. NodesInv => NodesTypeOK
  BY SMTT(20) DEF NodesInv, RecordsInv, OthersInv, NodesTypeOK, Good, Driver
<1> QED
  BY <1>1, NodesInvariant, PTL

\* However many runtimes, dispatches and reassignments overlap, the attempts
\* of a Run are one more than max_attempts at most.
THEOREM AttemptsStayNearBudget == NodesSpec => []BudgetIsNearlyKept
<1>1. NodesInv => BudgetIsNearlyKept
  BY SMTT(20) DEF NodesInv, RecordsInv, BudgetIsNearlyKept, Current, Size
<1> QED
  BY <1>1, NodesInvariant, PTL

\* An attempt that reassign_dynamic_node has given up as lost stays lost, in
\* every step and also when another object becomes the Run.
THEOREM LostAttemptsStayLost == NodesSpec => LostStaysLost
<1> DEFINE Stays == \A k \in DOMAIN Current.run.attempts :
                      Current.run.attempts[k].state = "lost" =>
                        Current'.run.attempts[k].state = "lost"
<1>1. ASSUME NodesInv, [NodesNext]_nodeVars
      PROVE  Stays
  <2>0. RecordsInv /\ Kind
    BY Zenon, <1>1, StepKinds DEF NodesInv
  <2>1. /\ Len(objects) \in 1 .. Len(objects) /\ Good(Current)
        /\ Len(objects) \in Nat
        /\ DOMAIN Current.run.attempts = 1 .. Size(Current)
        /\ Current = objects[Len(objects)] /\ objects \in Seq(Object)
    BY ZenonT(30), <2>0, CurrentIsGood, GoodParts DEF RecordsInv, Current
  <2> SUFFICES ASSUME NEW k \in 1 .. Size(Current),
                      Current.run.attempts[k].state = "lost"
               PROVE  Current'.run.attempts[k].state = "lost"
    BY Zenon, <2>1
  <2>2. Lost(Current, k)
    BY Zenon DEF Lost
  <2>3. ASSUME objects' = objects
        PROVE  Current' = Current
    BY ZenonT(30), <2>3 DEF Current
  <2>4. ASSUME NEW o, NEW i, NEW y, Edits(o, i, y)
        PROVE  Current'.run.attempts[k].state = "lost"
    <3>1. /\ objects' = [objects EXCEPT ![o] = y] /\ Edit(i, objects[o], y)
          /\ o \in 1 .. Len(objects)
      BY ZenonT(30), <2>4 DEF Edits
    <3>2. Len(objects') = Len(objects)
      BY SMTT(20), <2>1, <3>1
    <3>3. Current' = IF o = Len(objects) THEN y ELSE Current
      BY SMTT(20), <2>1, <3>1, <3>2 DEF Current
    <3>4. o = Len(objects) => Moved(Current, y)
      BY ZenonT(30), <2>1, <3>1, EditMoves
    <3> QED
      BY ZenonT(30), <2>2, <3>3, <3>4 DEF Moved, Lost
  <2>5. ASSUME NEW c, Swaps(c)
        PROVE  Current'.run.attempts[k].state = "lost"
    <3>1. /\ objects' = Append(objects, c.copy) /\ CallOK(c) /\ c.op = "swap"
      BY ZenonT(30), <2>0, <2>5 DEF Swaps, RecordsInv
    <3>2. Current' = c.copy
      BY SMTT(20), <2>1, <3>1 DEF Current
    <3> QED
      BY ZenonT(30), <2>2, <3>1, <3>2 DEF CallOK, Lost
  <2> QED
    BY Zenon, <2>0, <2>3, <2>4, <2>5 DEF Kind, Quiet, Asks, Copies
<1> QED
  BY <1>1, NodesInvariant, PTL DEF NodesSpec, LostStaysLost
===========================================================================
