------------------------- MODULE RunLifecycleProofs -------------------------
(***************************************************************************)
(* Theorems about RunLifecycle, for any number of overlapping calls.       *)
(*                                                                         *)
(* Every operation of Runs gets one lemma, which says of the record before *)
(* and the record after it that the type is kept, that epochs stay unique  *)
(* and that an ended Run is not revived (Sound).  A step of LifecycleNext  *)
(* either leaves the record alone or is one of these operations.           *)
(***************************************************************************)
EXTENDS RunLifecycle, TLAPS

\* No attempt is ahead of the Run, an unstarted Run has no attempts, and no
\* epoch has two.
EpochsFit(x) ==
  /\ \A i \in DOMAIN x.attempts : x.attempts[i].epoch <= x.epoch
  /\ x.execution = 0 => x.attempts = <<>>
  /\ \A i, j \in DOMAIN x.attempts :
       x.attempts[i].epoch = x.attempts[j].epoch => i = j

\* An ended Run keeps its state or is closed.
StaysEnded(x, y) == x.state \in Ended => y.state \in {x.state, "closed"}

Sound(x, y) ==
  /\ y \in RunRecord
  /\ EpochsFit(x) => EpochsFit(y)
  /\ StaysEnded(x, y)

\* y has the epoch, the executions and the attempts of x.
SameAttempts(x, y) ==
  y.epoch = x.epoch /\ y.execution = x.execution /\ y.attempts = x.attempts

---------------------------------------------------------------------------
\* The transition function

\* The table has no way out of an ended Run but its closing.
LEMMA TableEnds ==
  ASSUME NEW state \in Ended, NEW event, NEW target,
         <<state, event, target>> \in RUN_TRANSITIONS
  PROVE  target = "closed" /\ event = "run_closed"
BY Zenon DEF Ended, Terminal, RUN_TRANSITIONS

\* What _transition leads to is what the table says.
LEMMA TargetInTable ==
  ASSUME NEW x, NEW event, Allows(x, event)
  PROVE  /\ TargetOf(x.state, event) \in RunStates
         /\ <<x.state, event, TargetOf(x.state, event)>> \in RUN_TRANSITIONS
<1>1. \E target \in RunStates : <<x.state, event, target>> \in RUN_TRANSITIONS
  BY Zenon DEF Allows
<1> QED
  BY Zenon, <1>1 DEF TargetOf

\* _transition changes the state of a record and nothing else.
LEMMA TransitionIsSound ==
  ASSUME NEW x \in RunRecord, NEW event
  PROVE  /\ Transition(x, event) \in RunRecord
         /\ SameAttempts(x, Transition(x, event))
         /\ StaysEnded(x, Transition(x, event))
<1>1. CASE Allows(x, event)
  <2> DEFINE t == TargetOf(x.state, event)
             y == [x EXCEPT !.state = t]
  <2>1. t \in RunStates /\ <<x.state, event, t>> \in RUN_TRANSITIONS
    BY Zenon, <1>1, TargetInTable
  <2>2. Transition(x, event) = y
    BY Zenon, <1>1 DEF Transition
  <2>3. y \in RunRecord /\ y.state = t /\ SameAttempts(x, y)
    BY Zenon, <2>1 DEF RunRecord, SameAttempts
  <2>4. StaysEnded(x, y)
    BY Zenon, <2>1, <2>3, TableEnds DEF StaysEnded
  <2> QED
    BY Zenon, <2>2, <2>3, <2>4
<1>2. CASE ~Allows(x, event)
  BY Zenon, <1>2 DEF Transition, SameAttempts, StaysEnded
<1> QED
  BY Zenon, <1>1, <1>2

\* The assignment of an outcome is no change of state.
LEMMA OutcomeIsSound ==
  ASSUME NEW x \in RunRecord, NEW outcome \in Outcome
  PROVE  /\ [x EXCEPT !.outcome = outcome] \in RunRecord
         /\ SameAttempts(x, [x EXCEPT !.outcome = outcome])
         /\ [x EXCEPT !.outcome = outcome].state = x.state
BY Zenon DEF RunRecord, SameAttempts

\* Records with the same attempts and epochs are equally sound.
LEMMA SameIsSound ==
  ASSUME NEW x, NEW y \in RunRecord, SameAttempts(x, y), StaysEnded(x, y)
  PROVE  Sound(x, y)
BY Zenon DEF SameAttempts, Sound, EpochsFit

\* A transition that then assigns the outcome, as cancel, fail and resolve do.
LEMMA SettleIsSound ==
  ASSUME NEW x \in RunRecord, NEW event, NEW outcome \in Outcome
  PROVE  /\ Sound(x, Settle(x, event, outcome))
         /\ SameAttempts(x, Settle(x, event, outcome))
<1> DEFINE y == Transition(x, event)
           z == [y EXCEPT !.outcome = outcome]
<1>1. y \in RunRecord /\ SameAttempts(x, y) /\ StaysEnded(x, y)
  BY Zenon, TransitionIsSound
<1> HIDE DEF y
<1>2. z \in RunRecord /\ SameAttempts(y, z) /\ z.state = y.state
  BY Zenon, <1>1, OutcomeIsSound
<1>3. Settle(x, event, outcome) \in {x, z}
  BY Zenon DEF Settle, y
<1> HIDE DEF z
<1>4. SameAttempts(x, z) /\ StaysEnded(x, z)
  BY Zenon, <1>1, <1>2 DEF SameAttempts, StaysEnded
<1>5. SameAttempts(x, x) /\ StaysEnded(x, x)
  BY Zenon DEF SameAttempts, StaysEnded
<1>6. Sound(x, x) /\ Sound(x, z)
  BY Zenon, <1>2, <1>4, <1>5, SameIsSound
<1> QED
  BY Zenon, <1>3, <1>4, <1>5, <1>6

\* An outcome assigned before its transition, as record_result does.
LEMMA ReportIsSound ==
  ASSUME NEW x \in RunRecord, NEW event, NEW outcome \in Outcome
  PROVE  /\ Sound(x, Report(x, outcome, event))
         /\ SameAttempts(x, Report(x, outcome, event))
<1> DEFINE y == [x EXCEPT !.outcome = outcome]
           z == Transition(y, event)
<1>1. y \in RunRecord /\ SameAttempts(x, y) /\ y.state = x.state
  BY Zenon, OutcomeIsSound
<1> HIDE DEF y
<1>2. z \in RunRecord /\ SameAttempts(y, z) /\ StaysEnded(y, z)
  BY Zenon, <1>1, TransitionIsSound
<1>3. Report(x, outcome, event) = z
  BY Zenon DEF Report, y
<1> HIDE DEF z
<1>4. SameAttempts(x, z) /\ StaysEnded(x, z)
  BY Zenon, <1>1, <1>2 DEF SameAttempts, StaysEnded
<1> QED
  BY Zenon, <1>2, <1>3, <1>4, SameIsSound

\* A change that neither the state nor the attempts take part in may come
\* before an operation.
LEMMA SoundAfter ==
  ASSUME NEW x, NEW y, NEW z,
         SameAttempts(x, y), y.state = x.state, Sound(y, z)
  PROVE  Sound(x, z)
BY Zenon DEF SameAttempts, Sound, EpochsFit, StaysEnded

---------------------------------------------------------------------------
\* The operations

\* The outcomes that the operations assign are outcomes.
LEMMA OutcomeTypes ==
  /\ NoOutcome \in Outcome
  /\ \A d \in Dispositions : Final(d) \in Outcome
  /\ \A d \in Decisions : Pending(d) \in Outcome
BY Zenon DEF NoOutcome, Final, Pending, Outcome, Dispositions, Decisions

\* The tail of apply_patch replaces the draft and may start a refinement.
LEMMA PatchedIsSound ==
  ASSUME NEW x \in RunRecord, NEW base \in Nat, NEW from,
         NEW kind \in ProgramKinds
  PROVE  Sound(x, Patched(x, base, from, kind))
<1> DEFINE y == [x EXCEPT !.draft = [version |-> x.draft.version + 1,
                                     base |-> base, kind |-> kind]]
<1>1. y \in RunRecord /\ SameAttempts(x, y) /\ y.state = x.state
  BY SMTT(20) DEF RunRecord, Draft, SameAttempts
<1>2. Patched(x, base, from, kind) \in
        {y, Transition(y, "refinement_started"),
         Settle(y, "refinement_started", NoOutcome)}
  BY Zenon DEF Patched
<1> HIDE DEF y
<1>3. Sound(y, y)
  BY Zenon, <1>1 DEF Sound, StaysEnded
<1>4. Sound(y, Transition(y, "refinement_started"))
  BY Zenon, <1>1, TransitionIsSound, SameIsSound
<1>5. Sound(y, Settle(y, "refinement_started", NoOutcome))
  BY Zenon, <1>1, SettleIsSound, OutcomeTypes
<1> QED
  BY Zenon, <1>1, <1>2, <1>3, <1>4, <1>5, SoundAfter

\* The tail of commit replaces the committed version.
LEMMA CommittedIsSound ==
  ASSUME NEW x \in RunRecord
  PROVE  Sound(x, Committed(x))
<1> DEFINE y == [x EXCEPT !.committed = [version |-> x.committed.version + 1,
                                         draft |-> x.draft.version,
                                         kind |-> x.draft.kind]]
<1>1. y \in RunRecord /\ SameAttempts(x, y) /\ y.state = x.state
  BY SMTT(20) DEF RunRecord, Draft, Closure, SameAttempts
<1>2. Committed(x) = Transition(y, "committed")
  BY Zenon DEF Committed
<1> HIDE DEF y
<1>3. Sound(y, Transition(y, "committed"))
  BY Zenon, <1>1, TransitionIsSound, SameIsSound
<1> QED
  BY Zenon, <1>1, <1>2, <1>3, SoundAfter

\* Epochs are numbers.
LEMMA EpochsAreNat ==
  ASSUME NEW s \in Seq(Attempt), NEW i \in DOMAIN s
  PROVE  s[i].epoch \in Nat
<1>1. s[i] \in Attempt
  BY SMTT(20)
<1> QED
  BY Zenon, <1>1 DEF Attempt

\* The epoch of a new execution is beyond that of every attempt.
LEMMA NewExecutionIsSound ==
  ASSUME NEW x \in RunRecord
  PROVE  LET y == NewExecution(x)
         IN /\ y \in RunRecord
            /\ y.state = x.state /\ y.attempts = x.attempts /\ y.execution # 0
            /\ EpochsFit(x) => /\ EpochsFit(y)
                               /\ \A i \in DOMAIN y.attempts :
                                    y.attempts[i].epoch < y.epoch
<1> DEFINE y == NewExecution(x)
<1>1. /\ y \in RunRecord
      /\ y.state = x.state /\ y.attempts = x.attempts
      /\ y.execution = x.execution + 1
      /\ y.epoch = IF x.execution = 0 THEN 1 ELSE x.epoch + 1
  <2> DEFINE n == x.execution + 1
             e == IF x.execution = 0 THEN 1 ELSE x.epoch + 1
  <2>1. n \in Nat /\ e \in Nat
    BY SMTT(20) DEF RunRecord
  <2>2. y = [x EXCEPT !.execution = n, !.epoch = e, !.outcome = NoOutcome]
    BY Zenon DEF NewExecution
  <2> HIDE DEF n, e, y
  <2>3. /\ y \in RunRecord
        /\ y.state = x.state /\ y.attempts = x.attempts
        /\ y.execution = n /\ y.epoch = e
    BY Zenon, <2>1, <2>2, OutcomeTypes DEF RunRecord
  <2> QED
    BY Zenon, <2>3 DEF n, e
<1>2. x.execution \in Nat /\ x.epoch \in Nat /\ x.attempts \in Seq(Attempt)
  BY Zenon DEF RunRecord
<1>3. \A i \in DOMAIN x.attempts : x.attempts[i].epoch \in Nat
  BY Zenon, <1>2, EpochsAreNat
<1>4. ASSUME EpochsFit(x)
      PROVE  \A i \in DOMAIN y.attempts : y.attempts[i].epoch < y.epoch
  <2>1. CASE x.execution = 0
    BY SMTT(20), <1>1, <1>4, <2>1 DEF EpochsFit
  <2>2. CASE x.execution # 0
    BY SMTT(20), <1>1, <1>2, <1>3, <1>4, <2>2 DEF EpochsFit
  <2> QED
    BY Zenon, <2>1, <2>2
<1> HIDE DEF y
<1>5. ASSUME EpochsFit(x)
      PROVE  EpochsFit(y)
  BY SMTT(20), <1>1, <1>2, <1>3, <1>4, <1>5 DEF EpochsFit
<1>6. y.execution # 0
  BY SMTT(20), <1>1, <1>2
<1> QED
  BY Zenon, <1>1, <1>4, <1>5, <1>6 DEF y

\* A new attempt takes the epoch of the Run, which must be a fresh one.
LEMMA AddAttemptIsSound ==
  ASSUME NEW x \in RunRecord, NEW node \in Nat, NEW worker \in Nat,
         NEW instance \in Nat
  PROVE  LET y == AddAttempt(x, node, worker, instance)
         IN /\ y \in RunRecord /\ y.state = x.state
            /\ EpochsFit(x) /\ x.execution # 0
                 /\ (\A i \in DOMAIN x.attempts : x.attempts[i].epoch < x.epoch)
                 => EpochsFit(y)
<1> DEFINE a == [node |-> node, epoch |-> x.epoch, state |-> "created",
                 worker |-> worker, instance |-> instance, heir |-> 0]
           s == x.attempts
           y == AddAttempt(x, node, worker, instance)
<1>1. a \in Attempt /\ a.epoch = x.epoch /\ s \in Seq(Attempt) /\ x.epoch \in Nat
  BY Zenon DEF Attempt, AttemptStates, RunRecord
<1>2. y = [x EXCEPT !.attempts = Append(s, a)]
  BY Zenon DEF AddAttempt
<1> HIDE DEF a, y
<1>3. Append(s, a) \in Seq(Attempt)
  BY SMTT(20), <1>1
<1>4. /\ y \in RunRecord
      /\ y.state = x.state /\ y.epoch = x.epoch /\ y.execution = x.execution
      /\ y.attempts = Append(s, a)
  BY Zenon, <1>2, <1>3 DEF RunRecord
<1>5. ASSUME EpochsFit(x), x.execution # 0,
             \A i \in DOMAIN s : s[i].epoch < x.epoch
      PROVE  EpochsFit(y)
  <2>1. \A i \in DOMAIN s : s[i].epoch \in Nat
    BY Zenon, <1>1, EpochsAreNat
  <2>2. /\ DOMAIN Append(s, a) = DOMAIN s \cup {Len(s) + 1}
        /\ Append(s, a)[Len(s) + 1] = a
        /\ \A i \in DOMAIN s : Append(s, a)[i] = s[i]
    BY SMTT(20), <1>1
  <2>3. \A i \in DOMAIN y.attempts : y.attempts[i].epoch <= y.epoch
    BY SMTT(20), <1>1, <1>4, <1>5, <2>1, <2>2
  <2>4. ASSUME NEW i \in DOMAIN y.attempts, NEW j \in DOMAIN y.attempts,
               y.attempts[i].epoch = y.attempts[j].epoch
        PROVE  i = j
    BY SMTT(20), <1>1, <1>4, <1>5, <2>1, <2>2, <2>4 DEF EpochsFit
  <2> QED
    BY Zenon, <1>4, <1>5, <2>3, <2>4 DEF EpochsFit
<1> QED
  BY Zenon, <1>4, <1>5 DEF y

\* start numbers its execution before it adds the attempt, so the epoch of
\* the attempt is fresh, also when two starts overlap.
LEMMA StartedIsSound ==
  ASSUME NEW x \in RunRecord
  PROVE  Sound(x, Started(x))
<1> DEFINE y == NewExecution(x)
           z == Transition(y, "execution_started")
           w == AddAttempt(z, 0, 0, 0)
<1>1. /\ y \in RunRecord
      /\ y.state = x.state /\ y.execution # 0
      /\ EpochsFit(x) => /\ EpochsFit(y)
                         /\ \A i \in DOMAIN y.attempts :
                              y.attempts[i].epoch < y.epoch
  BY Zenon, NewExecutionIsSound
<1>2. Started(x) \in {z, w}
  BY Zenon DEF Started
<1> HIDE DEF y
<1>3. z \in RunRecord /\ SameAttempts(y, z) /\ StaysEnded(y, z)
  BY Zenon, <1>1, TransitionIsSound
<1> HIDE DEF z
<1>4. /\ w \in RunRecord /\ w.state = z.state
      /\ EpochsFit(z) /\ z.execution # 0
           /\ (\A i \in DOMAIN z.attempts : z.attempts[i].epoch < z.epoch)
           => EpochsFit(w)
  BY Zenon, <1>3, AddAttemptIsSound
<1> HIDE DEF w
<1>5. EpochsFit(y) => EpochsFit(z)
  BY Zenon, <1>3 DEF SameAttempts, EpochsFit
<1>6. EpochsFit(x) => EpochsFit(w)
  BY Zenon, <1>1, <1>3, <1>4, <1>5 DEF SameAttempts
<1>7. Sound(x, z) /\ Sound(x, w)
  BY Zenon, <1>1, <1>3, <1>4, <1>5, <1>6 DEF Sound, StaysEnded
<1> QED
  BY Zenon, <1>2, <1>7

\* Attempts that only change their states keep their epochs.
LEMMA MarkIsSound ==
  ASSUME NEW x \in RunRecord, NEW s \in Seq(Attempt),
         DOMAIN s = DOMAIN x.attempts,
         \A i \in DOMAIN s : s[i].epoch = x.attempts[i].epoch
  PROVE  LET y == [x EXCEPT !.attempts = s]
         IN /\ y \in RunRecord /\ Sound(x, y)
            /\ y.state = x.state /\ y.epoch = x.epoch
<1> DEFINE y == [x EXCEPT !.attempts = s]
<1>1. /\ y \in RunRecord /\ y.state = x.state /\ y.epoch = x.epoch
      /\ y.execution = x.execution /\ y.attempts = s
  BY Zenon DEF RunRecord
<1> HIDE DEF y
<1>2. ASSUME EpochsFit(x)
      PROVE  EpochsFit(y)
  <2>1. y.execution = 0 => y.attempts = <<>>
    <3> SUFFICES ASSUME y.execution = 0
                 PROVE  y.attempts = <<>>
      BY Zenon
    <3>1. x.attempts = <<>>
      BY Zenon, <1>1, <1>2 DEF EpochsFit
    <3>2. DOMAIN s = {}
      BY SMTT(20), <3>1
    <3> QED
      BY SMTT(20), <1>1, <3>2
  <2> QED
    BY Zenon, <1>1, <1>2, <2>1 DEF EpochsFit
<1>3. StaysEnded(x, y)
  BY Zenon, <1>1 DEF StaysEnded
<1> QED
  BY Zenon, <1>1, <1>2, <1>3 DEF Sound, y

\* Two operations in a row.
LEMMA SoundThen ==
  ASSUME NEW x, NEW y, NEW z, Sound(x, y), y.state = x.state, Sound(y, z)
  PROVE  Sound(x, z)
BY Zenon DEF Sound, StaysEnded

\* The end of an attempt.
LEMMA SetAttemptIsSound ==
  ASSUME NEW x \in RunRecord, NEW i \in Nat, NEW state \in AttemptStates
  PROVE  LET y == SetAttempt(x, i, state)
         IN y \in RunRecord /\ Sound(x, y) /\ y.state = x.state
<1> DEFINE s == [x.attempts EXCEPT ![i].state = state]
<1>1. x.attempts \in Seq(Attempt)
  BY Zenon DEF RunRecord
<1>2. SetAttempt(x, i, state) = [x EXCEPT !.attempts = s]
  BY Zenon DEF SetAttempt
<1>3. DOMAIN s = DOMAIN x.attempts
  BY Zenon
<1>4. ASSUME NEW j \in DOMAIN x.attempts
      PROVE  s[j] \in Attempt /\ s[j].epoch = x.attempts[j].epoch
  <2>1. x.attempts[j] \in Attempt
    BY SMTT(20), <1>1
  <2>2. s[j] \in {x.attempts[j], [x.attempts[j] EXCEPT !.state = state]}
    BY Zenon
  <2> HIDE DEF s
  <2> QED
    BY Zenon, <2>1, <2>2 DEF Attempt
<1> HIDE DEF s
<1>5. s \in Seq(Attempt)
  <2>1. s = [j \in 1 .. Len(x.attempts) |-> s[j]]
    BY SMTT(20), <1>1, <1>3 DEF s
  <2>2. Len(x.attempts) \in Nat /\ DOMAIN x.attempts = 1 .. Len(x.attempts)
    BY SMTT(20), <1>1
  <2>3. s \in [1 .. Len(x.attempts) -> Attempt]
    BY SMTT(30), <1>4, <2>1, <2>2
  <2> QED
    BY SMTT(20), <2>2, <2>3
<1> QED
  BY SMTT(20), <1>2, <1>3, <1>4, <1>5, MarkIsSound

\* record_result ends its attempt, and then the Run if it may.
LEMMA ResultedIsSound ==
  ASSUME NEW x \in RunRecord, NEW i \in Nat,
         NEW terminal \in {"completed", "failed", "decision_required"}
  PROVE  Sound(x, Resulted(x, i, terminal))
<1> DEFINE y == SetAttempt(x, i, terminal)
<1>1. y \in RunRecord /\ Sound(x, y) /\ y.state = x.state
  <2>1. terminal \in AttemptStates
    BY Zenon DEF AttemptStates
  <2> QED
    BY Zenon, <2>1, SetAttemptIsSound
<1>2. /\ Final("completed") \in Outcome
      /\ Pending("repair") \in Outcome
      /\ Pending("attestation") \in Outcome
  BY Zenon, OutcomeTypes DEF Dispositions, Decisions, Terminal
<1>3. Resulted(x, i, terminal) \in
        {Report(y, Final("completed"), "run_succeeded"),
         Report(y, Pending("repair"), "run_needs_decision"),
         Report(y, Pending("attestation"), "run_needs_decision")}
  BY Zenon DEF Resulted
<1> HIDE DEF y
<1>4. Sound(y, Resulted(x, i, terminal))
  BY Zenon, <1>1, <1>2, <1>3, ReportIsSound
<1> QED
  BY Zenon, <1>1, <1>4, SoundThen

\* cancel_run, fail_run and the two decisions of resolve.
LEMMA EndsAreSound ==
  ASSUME NEW x \in RunRecord, NEW decision
  PROVE  Sound(x, Cancelled(x)) /\ Sound(x, Failed(x))
           /\ Sound(x, Resolved(x, decision))
<1>1. \A d \in Terminal : Final(d) \in Outcome
  BY Zenon, OutcomeTypes DEF Dispositions
<1> QED
  BY Zenon, <1>1, SettleIsSound DEF Cancelled, Failed, Resolved, Terminal

\* The fence of recover_stale_runs changes states of attempts only.
LEMMA FencedTypes ==
  ASSUME NEW attempts \in Seq(Attempt)
  PROVE  /\ Fenced(attempts) \in Seq(Attempt)
         /\ DOMAIN Fenced(attempts) = DOMAIN attempts
         /\ \A i \in DOMAIN attempts :
              Fenced(attempts)[i].epoch = attempts[i].epoch
<1> DEFINE s == Fenced(attempts)
<1>1. ASSUME NEW j \in DOMAIN attempts
      PROVE  s[j] \in Attempt /\ s[j].epoch = attempts[j].epoch
  <2>1. attempts[j] \in Attempt
    BY SMTT(20)
  <2>2. s[j] \in {attempts[j], [attempts[j] EXCEPT !.state = "failed"]}
    BY Zenon DEF Fenced
  <2> HIDE DEF s
  <2> QED
    BY Zenon, <2>1, <2>2 DEF Attempt, AttemptStates
<1>2. DOMAIN s = DOMAIN attempts /\ s = [j \in DOMAIN attempts |-> s[j]]
  BY Zenon DEF Fenced
<1> HIDE DEF s
<1>3. Len(attempts) \in Nat /\ DOMAIN attempts = 1 .. Len(attempts)
  BY SMTT(20)
<1>4. s \in [1 .. Len(attempts) -> Attempt]
  BY Zenon, <1>1, <1>2, <1>3
<1>5. s \in Seq(Attempt)
  BY SMTT(20), <1>3, <1>4
<1> QED
  BY Zenon, <1>1, <1>2, <1>5 DEF s

\* recover_stale_runs fences the attempts and moves the epoch on, or fails
\* the Run.
LEMMA RecoveredIsSound ==
  ASSUME NEW x \in RunRecord, NEW replayable
  PROVE  Sound(x, Recovered(x, replayable))
<1> DEFINE s == Fenced(x.attempts)
           y == [x EXCEPT !.attempts = s]
           z == [y EXCEPT !.epoch = y.epoch + 1]
<1>1. x.attempts \in Seq(Attempt)
  BY Zenon DEF RunRecord
<1>2. /\ s \in Seq(Attempt) /\ DOMAIN s = DOMAIN x.attempts
      /\ \A i \in DOMAIN s : s[i].epoch = x.attempts[i].epoch
  BY Zenon, <1>1, FencedTypes
<1>3. Recovered(x, replayable) \in {z, Failed(y)}
  <2>1. z = [y EXCEPT !.epoch = @ + 1]
    BY Zenon
  <2>2. Recovered(x, replayable) \in {[y EXCEPT !.epoch = @ + 1], Failed(y)}
    BY Zenon DEF Recovered
  <2> HIDE DEF y, z
  <2> QED
    BY Zenon, <2>1, <2>2
<1> HIDE DEF s
<1>4. y \in RunRecord /\ Sound(x, y) /\ y.state = x.state
  BY Zenon, <1>2, MarkIsSound
<1> HIDE DEF y
<1>5. /\ z \in RunRecord /\ z.state = y.state /\ z.attempts = y.attempts
      /\ z.execution = y.execution /\ z.epoch = y.epoch + 1 /\ y.epoch \in Nat
      /\ y.attempts \in Seq(Attempt)
  BY SMTT(20), <1>4 DEF RunRecord
<1> HIDE DEF z
<1>6. \A i \in DOMAIN y.attempts : y.attempts[i].epoch \in Nat
  BY Zenon, <1>5, EpochsAreNat
<1>7. EpochsFit(y) => EpochsFit(z)
  BY SMTT(20), <1>5, <1>6 DEF EpochsFit
<1>8. Sound(y, z)
  BY Zenon, <1>5, <1>7 DEF Sound, StaysEnded
<1>9. Sound(y, Failed(y))
  BY Zenon, <1>4, EndsAreSound
<1> QED
  BY Zenon, <1>3, <1>4, <1>8, <1>9, SoundThen

---------------------------------------------------------------------------
\* The calls in progress

\* What a continuation finds in its call.
LEMMA CallFields ==
  ASSUME NEW c \in Call
  PROVE  /\ c.op = "patch" => /\ c.operation \in Operations
                              /\ c.draft \in Draft
                              /\ c.from \in RunStates
         /\ c.op = "answer" => c.operation \in Operations
         /\ c.op = "result" => c.attempt \in Nat
BY SMTT(20) DEF Call, Idle

\* What a method puts into its call.
LEMMA CallTypes ==
  /\ Idle \in Call
  /\ \A o \in Operations, d \in Draft, f \in RunStates :
       [op |-> "patch", operation |-> o, draft |-> d, from |-> f] \in Call
  /\ \A o \in Operations : [op |-> "answer", operation |-> o] \in Call
  /\ [op |-> "commit"] \in Call
  /\ [op |-> "start"] \in Call
  /\ \A i \in Nat : [op |-> "result", attempt |-> i] \in Call
BY Zenon DEF Call

\* The beginning of a method keeps the types of the calls.
LEMMA EnterTypes ==
  ASSUME calls \in [Handlers -> Call], NEW h \in Handlers, NEW c \in Call,
         Enter(h, c)
  PROVE  calls' \in [Handlers -> Call]
BY Zenon DEF Enter

\* The end of a method keeps the types of the calls.
LEMMA LeaveTypes ==
  ASSUME calls \in [Handlers -> Call], NEW h \in Handlers, Leave(h)
  PROVE  calls' \in [Handlers -> Call]
BY Zenon, CallTypes DEF Leave

---------------------------------------------------------------------------
\* The steps

LifecycleInv == LifecycleTypeOK /\ EpochsFit(run)

\* What a step keeps of the calls and of the histories.
OthersTyped ==
  /\ calls' \in [Handlers -> Call]
  /\ answered' \subseteq Operations

\* A newly opened Run.
LEMMA InitIsSound ==
  LifecycleInit => LifecycleInv
<1> SUFFICES ASSUME LifecycleInit
             PROVE  LifecycleInv
  BY Zenon
<1>1. PICK kind \in Kinds : run = OpenedRun(kind)
  BY Zenon DEF LifecycleInit
<1>2. kind \in ProgramKinds
  BY Zenon, ConstantsAreSound
<1>3. /\ run \in RunRecord
      /\ run.attempts = <<>>
  BY SMTT(20), <1>1, <1>2, OutcomeTypes
     DEF OpenedRun, RunRecord, RunStates, Draft, Closure
<1>4. EpochsFit(run)
  BY SMTT(20), <1>3 DEF EpochsFit
<1>5. calls \in [Handlers -> Call] /\ answered \subseteq Operations
  BY Zenon, CallTypes DEF LifecycleInit
<1> QED
  BY Zenon, <1>3, <1>4, <1>5 DEF LifecycleInv, LifecycleTypeOK

\* A step that leaves the record alone.
LEMMA UnchangedIsSound ==
  ASSUME NEW x \in RunRecord
  PROVE  Sound(x, x)
BY Zenon DEF Sound, StaysEnded

\* A method that runs at once touches nothing but the record.
LEMMA AtOnceTypes ==
  ASSUME LifecycleTypeOK, AtOnce
  PROVE  OthersTyped
BY Zenon DEF LifecycleTypeOK, AtOnce, OthersTyped

\* The methods that change a draft: apply_patch and commit.
LEMMA RefinementStep ==
  ASSUME LifecycleTypeOK, NEW h \in Handlers,
         \/ \E o \in Operations : BeginPatch(h, o)
         \/ ApplyPatch(h) \/ AnswerPatch(h)
         \/ BeginCommit(h) \/ EndCommit(h)
  PROVE  Sound(run, run') /\ OthersTyped
<1>1. /\ run \in RunRecord /\ calls \in [Handlers -> Call]
      /\ answered \subseteq Operations /\ calls[h] \in Call
  BY Zenon DEF LifecycleTypeOK
<1>2. Sound(run, run)
  BY Zenon, <1>1, UnchangedIsSound
<1>3. run.draft \in Draft /\ run.draft.version \in Nat /\ run.state \in RunStates
  BY Zenon, <1>1 DEF RunRecord, Draft
<1>4. ASSUME NEW o \in Operations, BeginPatch(h, o)
      PROVE  Sound(run, run') /\ OthersTyped
  <2> DEFINE c == [op |-> "patch", operation |-> o, draft |-> run.draft,
                   from |-> run.state]
  <2>1. c \in Call
    BY Zenon, <1>3, CallTypes
  <2>2. Enter(h, c) /\ UNCHANGED <<run, answered>>
    BY Zenon, <1>4 DEF BeginPatch
  <2> HIDE DEF c
  <2>3. calls' \in [Handlers -> Call]
    BY Zenon, <1>1, <2>1, <2>2, EnterTypes
  <2> QED
    BY Zenon, <1>1, <1>2, <2>2, <2>3 DEF OthersTyped
<1>5. CASE ApplyPatch(h)
  <2> DEFINE c == calls[h]
             a == [op |-> "answer", operation |-> c.operation]
  <2>1. c.operation \in Operations /\ c.draft \in Draft
    BY Zenon, <1>1, <1>5, CallFields DEF ApplyPatch
  <2>2. PICK kind \in Kinds : run' = Patched(run, c.draft.version, c.from, kind)
    BY Zenon, <1>5 DEF ApplyPatch
  <2>3. c.draft.version \in Nat /\ kind \in ProgramKinds
    BY Zenon, <2>1, ConstantsAreSound DEF Draft
  <2>4. Sound(run, run')
    BY Zenon, <1>1, <2>2, <2>3, PatchedIsSound
  <2>5. a \in Call /\ Idle \in Call
    BY Zenon, <2>1, CallTypes
  <2>6. calls' = [calls EXCEPT ![h] = a] \/ calls' = [calls EXCEPT ![h] = Idle]
    BY Zenon, <1>5 DEF ApplyPatch
  <2> HIDE DEF a
  <2>7. calls' \in [Handlers -> Call]
    BY Zenon, <1>1, <2>5, <2>6
  <2>8. UNCHANGED answered
    BY Zenon, <1>5 DEF ApplyPatch
  <2> QED
    BY Zenon, <1>1, <2>4, <2>7, <2>8 DEF OthersTyped
<1>6. CASE AnswerPatch(h)
  <2>1. calls[h].operation \in Operations
    BY Zenon, <1>1, <1>6, CallFields DEF AnswerPatch
  <2>2. calls' \in [Handlers -> Call]
    BY Zenon, <1>1, <1>6, LeaveTypes DEF AnswerPatch
  <2> QED
    BY Zenon, <1>1, <1>2, <1>6, <2>1, <2>2 DEF AnswerPatch, OthersTyped
<1>7. CASE BeginCommit(h)
  <2> DEFINE c == [op |-> "commit"]
  <2>1. c \in Call
    BY Zenon, CallTypes
  <2>2. Enter(h, c) /\ UNCHANGED <<run, answered>>
    BY Zenon, <1>7 DEF BeginCommit
  <2> HIDE DEF c
  <2>3. calls' \in [Handlers -> Call]
    BY Zenon, <1>1, <2>1, <2>2, EnterTypes
  <2> QED
    BY Zenon, <1>1, <1>2, <2>2, <2>3 DEF OthersTyped
<1>8. CASE EndCommit(h)
  <2>1. calls' \in [Handlers -> Call]
    BY Zenon, <1>1, <1>8, LeaveTypes DEF EndCommit
  <2>2. Sound(run, run')
    BY Zenon, <1>1, <1>8, CommittedIsSound DEF EndCommit
  <2> QED
    BY ZenonT(30), <1>1, <1>8, <2>1, <2>2 DEF EndCommit, OthersTyped
<1> QED
  BY Zenon, <1>4, <1>5, <1>6, <1>7, <1>8

\* The methods of an execution: start and record_result.
LEMMA ExecutionStep ==
  ASSUME LifecycleTypeOK, NEW h \in Handlers,
         \/ BeginStart(h) \/ EndStart(h)
         \/ \E i \in 1 .. Len(run.attempts) : BeginResult(h, i)
         \/ EndResult(h) \/ Refuse(h)
  PROVE  Sound(run, run') /\ OthersTyped
<1>1. /\ run \in RunRecord /\ calls \in [Handlers -> Call]
      /\ answered \subseteq Operations /\ calls[h] \in Call
  BY Zenon DEF LifecycleTypeOK
<1>2. Sound(run, run)
  BY Zenon, <1>1, UnchangedIsSound
<1>3. CASE BeginStart(h)
  <2>1. [op |-> "start"] \in Call
    BY Zenon, CallTypes
  <2>2. calls' \in [Handlers -> Call]
    BY SMTT(30), <1>1, <1>3, <2>1, EnterTypes DEF BeginStart
  <2> QED
    BY Zenon, <1>1, <1>2, <1>3, <2>2 DEF BeginStart, OthersTyped
<1>4. CASE EndStart(h)
  <2>1. calls' \in [Handlers -> Call]
    BY Zenon, <1>1, <1>4, LeaveTypes DEF EndStart
  <2>2. Sound(run, run')
    BY SMTT(30), <1>1, <1>4, StartedIsSound DEF EndStart
  <2> QED
    BY Zenon, <1>1, <1>4, <2>1, <2>2 DEF EndStart, OthersTyped
<1>5. ASSUME NEW i \in 1 .. Len(run.attempts), BeginResult(h, i)
      PROVE  Sound(run, run') /\ OthersTyped
  <2>1. i \in Nat
    BY SMTT(30), <1>1 DEF RunRecord
  <2>2. [op |-> "result", attempt |-> i] \in Call
    BY SMTT(30), <2>1, CallTypes
  <2>3. calls' \in [Handlers -> Call]
    BY Zenon, <1>1, <1>5, <2>2, EnterTypes DEF BeginResult
  <2> QED
    BY Zenon, <1>1, <1>2, <1>5, <2>3 DEF BeginResult, OthersTyped
<1>6. CASE EndResult(h)
  <2>1. calls[h].attempt \in Nat
    BY Zenon, <1>1, <1>6, CallFields DEF EndResult
  <2>2. calls' \in [Handlers -> Call]
    BY Zenon, <1>1, <1>6, LeaveTypes DEF EndResult
  <2>3. Sound(run, run')
    BY Zenon, <1>1, <1>6, <2>1, ResultedIsSound DEF EndResult
  <2> QED
    BY Zenon, <1>1, <1>6, <2>2, <2>3 DEF EndResult, OthersTyped
<1>7. CASE Refuse(h)
  <2>1. calls' \in [Handlers -> Call]
    BY Zenon, <1>1, <1>7, LeaveTypes DEF Refuse
  <2> QED
    BY Zenon, <1>1, <1>2, <1>7, <2>1 DEF Refuse, OthersTyped
<1> QED
  BY Zenon, <1>3, <1>4, <1>5, <1>6, <1>7

\* The methods that never await.
LEMMA AtOnceStep ==
  ASSUME LifecycleTypeOK,
         \/ BeginRefinement \/ CancelRun \/ FailRun \/ CloseRun
         \/ \E decision \in {"accept", "abandon"} : ResolveRun(decision)
         \/ \E replayable \in BOOLEAN : RecoverStaleRun(replayable)
  PROVE  Sound(run, run') /\ OthersTyped
<1>1. run \in RunRecord
  BY Zenon DEF LifecycleTypeOK
<1>2. AtOnce
  BY Zenon DEF BeginRefinement, CancelRun, FailRun, CloseRun, ResolveRun,
         RecoverStaleRun
<1>3. OthersTyped
  BY Zenon, <1>2, AtOnceTypes
<1>4. CASE BeginRefinement \/ CloseRun
  BY Zenon, <1>1, <1>3, <1>4, TransitionIsSound, SameIsSound
     DEF BeginRefinement, CloseRun
<1>5. CASE \/ CancelRun \/ FailRun
           \/ \E decision \in {"accept", "abandon"} : ResolveRun(decision)
  BY Zenon, <1>1, <1>3, <1>5, EndsAreSound DEF CancelRun, FailRun, ResolveRun
<1>6. CASE \E replayable \in BOOLEAN : RecoverStaleRun(replayable)
  BY SMTT(30), <1>1, <1>3, <1>6, RecoveredIsSound DEF RecoverStaleRun
<1> QED
  BY Zenon, <1>4, <1>5, <1>6

\* Every step keeps the invariant and revives no Run that has ended.
LEMMA StepIsSound ==
  ASSUME LifecycleInv, [LifecycleNext]_lifecycleVars
  PROVE  LifecycleInv' /\ StaysEnded(run, run')
<1>1. LifecycleTypeOK /\ EpochsFit(run)
  BY Zenon DEF LifecycleInv
<1>2. Sound(run, run') /\ OthersTyped
  <2>1. CASE UNCHANGED lifecycleVars
    BY Zenon, <1>1, <2>1, UnchangedIsSound
       DEF lifecycleVars, LifecycleTypeOK, OthersTyped
  <2>2. CASE LifecycleNext
    BY Zenon, <1>1, <2>2, RefinementStep, ExecutionStep, AtOnceStep
       DEF LifecycleNext
  <2> QED
    BY Zenon, <2>1, <2>2
<1> QED
  BY Zenon, <1>1, <1>2 DEF Sound, OthersTyped, LifecycleInv, LifecycleTypeOK,
     EpochsFit

---------------------------------------------------------------------------
\* Theorems

\* The invariant holds in every state of every behaviour.
THEOREM LifecycleInvariant == LifecycleSpec => []LifecycleInv
<1>1. LifecycleInit => LifecycleInv
  BY Zenon, InitIsSound
<1>2. LifecycleInv /\ [LifecycleNext]_lifecycleVars => LifecycleInv'
  BY Zenon, StepIsSound
<1> QED
  BY <1>1, <1>2, PTL DEF LifecycleSpec

\* The Run record, the calls in progress and the histories keep their types,
\* for any number of calls that overlap in the Observer.
THEOREM LifecycleTypes == LifecycleSpec => []LifecycleTypeOK
<1>1. LifecycleInv => LifecycleTypeOK
  BY Zenon DEF LifecycleInv
<1> QED
  BY <1>1, LifecycleInvariant, PTL

\* No two attempts that start creates have the same epoch, so the epoch check
\* of record_result admits at most one of them.
THEOREM EpochsAreUnique == LifecycleSpec => []AttemptsHaveTheirEpoch
<1>1. LifecycleInv => AttemptsHaveTheirEpoch
  BY Zenon DEF LifecycleInv, EpochsFit, AttemptsHaveTheirEpoch
<1> QED
  BY <1>1, LifecycleInvariant, PTL

\* No method of the repository, and no rest of a method that was awaiting
\* when the Run ended, brings an ended Run back.
THEOREM EndedRunsStayEnded == LifecycleSpec => EndedIsFinal
<1>1. LifecycleInv /\ [LifecycleNext]_lifecycleVars
        => [run.state \in Ended => run'.state \in {run.state, "closed"}]_lifecycleVars
  BY Zenon, StepIsSound DEF StaysEnded
<1> QED
  BY <1>1, LifecycleInvariant, PTL DEF LifecycleSpec, EndedIsFinal

-----------------------------------------------------------------------------
(***************************************************************************)
(* A Run is completed only by an attempt that succeeded, for any number of *)
(* overlapping calls (CompletedWasEarned).                                 *)
(*                                                                         *)
(* The property is not inductive.  A decision may complete the Run later,  *)
(* so an outcome that asks for an attestation must be backed by an attempt *)
(* too, and the rest of a record_result overwrites the state of its        *)
(* attempt without a second look, so that attempt must not be one that     *)
(* backs anything (ReportsOpen).                                           *)
(***************************************************************************)

Shows(x, states) ==
  \E i \in DOMAIN x.attempts : x.attempts[i].state \in states

Backed(x) ==
  /\ x.state = "completed" => Shows(x, {"completed", "decision_required"})
  /\ x.outcome.decision = "attestation" => Shows(x, {"decision_required"})

\* Attempt i has not reported, or was fenced before it could.
Open(x, i) ==
  i \in DOMAIN x.attempts /\ x.attempts[i].state \in {"created", "failed"}

Reporting(h) == calls[h].op = "result"

\* Every report in progress is about an open attempt, each about its own.
ReportsOpen ==
  /\ \A h \in Handlers : Reporting(h) => Open(run, calls[h].attempt)
  /\ \A g, h \in Handlers :
       /\ Reporting(g) /\ Reporting(h) /\ calls[g].attempt = calls[h].attempt
       => g = h

\* Open attempts stay open and the others keep their states.
Keeps(x, y) ==
  \A i \in DOMAIN x.attempts :
    /\ i \in DOMAIN y.attempts
    /\ \/ y.attempts[i].state = x.attempts[i].state
       \/ Open(x, i) /\ Open(y, i)

Backs(x, y) == Keeps(x, y) /\ (Backed(x) => Backed(y))

---------------------------------------------------------------------------
\* The operations

\* Attempts that were reported are still there.
LEMMA KeepsShows ==
  ASSUME NEW x, NEW y, Keeps(x, y),
         NEW states \in SUBSET {"completed", "decision_required"},
         Shows(x, states)
  PROVE  Shows(y, states)
BY SMTT(30) DEF Keeps, Shows, Open

\* Two operations in a row.
LEMMA BacksThen ==
  ASSUME NEW x, NEW y, NEW z, Backs(x, y), Backs(y, z)
  PROVE  Backs(x, z)
BY Zenon DEF Backs, Keeps, Open

\* The same attempts are kept.
LEMMA SameKeeps ==
  ASSUME NEW x, NEW y, y.attempts = x.attempts
  PROVE  Keeps(x, y)
BY Zenon DEF Keeps

\* The two ways the table has to completed.
LEMMA TableCompletes ==
  ASSUME NEW state, NEW event, <<state, event, "completed">> \in RUN_TRANSITIONS
  PROVE  event \in {"run_succeeded", "decision_accepted"}
BY Zenon DEF RUN_TRANSITIONS

\* A transition that is not a success completes no Run but one whose
\* attestation was asked for.
LEMMA TransitionBacks ==
  ASSUME NEW x \in RunRecord, NEW event, event # "run_succeeded"
  PROVE  Backs(x, Transition(x, event))
<1> DEFINE y == Transition(x, event)
<1>1. y.attempts = x.attempts
  BY Zenon, TransitionIsSound DEF SameAttempts
<1>2. y.outcome = x.outcome
  BY Zenon DEF Transition, RunRecord
<1>3. y.state = "completed" =>
        x.state = "completed" \/ x.outcome.decision = "attestation"
  <2>1. CASE Allows(x, event)
    <3>1. y.state = TargetOf(x.state, event)
      BY Zenon, <2>1 DEF Transition, RunRecord
    <3>2. <<x.state, event, TargetOf(x.state, event)>> \in RUN_TRANSITIONS
      BY Zenon, <2>1, TargetInTable
    <3>3. event = "decision_accepted" => x.outcome.decision = "attestation"
      BY Zenon, <2>1 DEF Allows
    <3> HIDE DEF y
    <3> QED
      BY Zenon, <3>1, <3>2, <3>3, TableCompletes
  <2>2. CASE ~Allows(x, event)
    BY Zenon, <2>2 DEF Transition
  <2> QED
    BY Zenon, <2>1, <2>2
<1> HIDE DEF y
<1>4. Keeps(x, y)
  BY Zenon, <1>1, SameKeeps
<1>5. ASSUME Backed(x)
      PROVE  Backed(y)
  BY Zenon, <1>1, <1>2, <1>3, <1>5 DEF Backed, Shows
<1> QED
  BY Zenon, <1>4, <1>5 DEF Backs, y

\* An outcome that asks for no attestation needs no backing.
LEMMA OutcomeBacks ==
  ASSUME NEW x \in RunRecord, NEW outcome \in Outcome,
         outcome.decision # "attestation"
  PROVE  Backs(x, [x EXCEPT !.outcome = outcome])
<1> DEFINE y == [x EXCEPT !.outcome = outcome]
<1>1. y.attempts = x.attempts /\ y.state = x.state /\ y.outcome = outcome
  BY Zenon DEF RunRecord
<1> HIDE DEF y
<1>2. Keeps(x, y)
  BY Zenon, <1>1, SameKeeps
<1> QED
  BY Zenon, <1>1, <1>2 DEF Backs, Backed, Shows, y

\* Backed records stay as they are.
LEMMA UnchangedBacks ==
  ASSUME NEW x
  PROVE  Backs(x, x)
BY Zenon, SameKeeps DEF Backs

\* cancel, fail and resolve assign such an outcome after their transition.
LEMMA SettleBacks ==
  ASSUME NEW x \in RunRecord, NEW event, event # "run_succeeded",
         NEW outcome \in Outcome, outcome.decision # "attestation"
  PROVE  Backs(x, Settle(x, event, outcome))
<1> DEFINE y == Transition(x, event)
           z == [y EXCEPT !.outcome = outcome]
<1>1. Settle(x, event, outcome) \in {x, z}
  BY Zenon DEF Settle
<1>2. y \in RunRecord /\ Backs(x, y)
  BY Zenon, TransitionIsSound, TransitionBacks
<1> HIDE DEF y
<1>3. Backs(y, z)
  BY Zenon, <1>2, OutcomeBacks
<1> HIDE DEF z
<1> QED
  BY SMTT(20), <1>1, <1>2, <1>3, BacksThen, UnchangedBacks

\* The outcomes of every operation but record_result.
LEMMA PlainOutcomes ==
  /\ NoOutcome \in Outcome /\ NoOutcome.decision # "attestation"
  /\ \A d \in Terminal : Final(d) \in Outcome /\ Final(d).decision # "attestation"
BY Zenon DEF NoOutcome, Final, Outcome, Dispositions, Decisions

\* A change of a draft or of the committed version, or a new attempt: what
\* was reported is left alone.
LEMMA AsideBacks ==
  ASSUME NEW x, NEW y, Keeps(x, y), y.state = x.state, y.outcome = x.outcome
  PROVE  Backs(x, y)
<1>1. {"completed", "decision_required"} \in
        SUBSET {"completed", "decision_required"}
  BY Zenon
<1>2. {"decision_required"} \in SUBSET {"completed", "decision_required"}
  BY Zenon
<1> QED
  BY Zenon, <1>1, <1>2, KeepsShows DEF Backs, Backed

\* The tail of apply_patch.
LEMMA PatchedBacks ==
  ASSUME NEW x \in RunRecord, NEW base \in Nat, NEW from,
         NEW kind \in ProgramKinds
  PROVE  Backs(x, Patched(x, base, from, kind))
<1> DEFINE y == [x EXCEPT !.draft = [version |-> x.draft.version + 1,
                                     base |-> base, kind |-> kind]]
<1>1. /\ y \in RunRecord /\ y.attempts = x.attempts
      /\ y.state = x.state /\ y.outcome = x.outcome
  BY SMTT(30) DEF RunRecord, Draft
<1>2. Patched(x, base, from, kind) \in
        {y, Transition(y, "refinement_started"),
         Settle(y, "refinement_started", NoOutcome)}
  BY Zenon DEF Patched
<1> HIDE DEF y
<1>3. Backs(x, y)
  BY Zenon, <1>1, SameKeeps, AsideBacks
<1>4. Backs(y, Transition(y, "refinement_started"))
  BY Zenon, <1>1, TransitionBacks
<1>5. Backs(y, Settle(y, "refinement_started", NoOutcome))
  BY Zenon, <1>1, SettleBacks, PlainOutcomes
<1> QED
  BY SMTT(20), <1>2, <1>3, <1>4, <1>5, BacksThen

\* The tail of commit.
LEMMA CommittedBacks ==
  ASSUME NEW x \in RunRecord
  PROVE  Backs(x, Committed(x))
<1> DEFINE y == [x EXCEPT !.committed = [version |-> x.committed.version + 1,
                                         draft |-> x.draft.version,
                                         kind |-> x.draft.kind]]
<1>1. /\ y \in RunRecord /\ y.attempts = x.attempts
      /\ y.state = x.state /\ y.outcome = x.outcome
  BY SMTT(30) DEF RunRecord, Draft, Closure
<1>2. Committed(x) = Transition(y, "committed")
  BY Zenon DEF Committed
<1> HIDE DEF y
<1>3. Backs(x, y)
  BY Zenon, <1>1, SameKeeps, AsideBacks
<1>4. Backs(y, Transition(y, "committed"))
  BY Zenon, <1>1, TransitionBacks
<1> QED
  BY Zenon, <1>2, <1>3, <1>4, BacksThen

\* start takes back the outcome of the execution before and adds an attempt.
LEMMA StartedBacks ==
  ASSUME NEW x \in RunRecord
  PROVE  Backs(x, Started(x))
<1> DEFINE y == NewExecution(x)
           z == Transition(y, "execution_started")
           w == AddAttempt(z, 0, 0, 0)
<1>1. Started(x) \in {z, w}
  BY Zenon DEF Started
<1>2. y \in RunRecord /\ y.state = x.state /\ y.attempts = x.attempts
  BY Zenon, NewExecutionIsSound
<1>3. y.outcome = NoOutcome
  BY Zenon DEF NewExecution, RunRecord
<1> HIDE DEF y
<1>4. Backs(x, y)
  BY Zenon, <1>2, <1>3, SameKeeps, PlainOutcomes DEF Backs, Backed, Shows
<1>5. z \in RunRecord /\ Backs(y, z)
  BY Zenon, <1>2, TransitionIsSound, TransitionBacks
<1> HIDE DEF z
<1>6. Backs(z, w)
  <2> DEFINE a == [node |-> 0, epoch |-> z.epoch, state |-> "created",
                   worker |-> 0, instance |-> 0, heir |-> 0]
  <2>1. /\ w.attempts = Append(z.attempts, a)
        /\ w.state = z.state /\ w.outcome = z.outcome
        /\ z.attempts \in Seq(Attempt)
    BY Zenon, <1>5 DEF AddAttempt, RunRecord
  <2>2. a \in Attempt
    BY Zenon, <1>5 DEF Attempt, AttemptStates, RunRecord
  <2> HIDE DEF a, w
  <2>3. \A i \in DOMAIN z.attempts :
          i \in DOMAIN w.attempts /\ w.attempts[i] = z.attempts[i]
    BY SMTT(20), <2>1, <2>2
  <2>4. Keeps(z, w)
    BY Zenon, <2>3 DEF Keeps
  <2> QED
    BY Zenon, <2>1, <2>4, AsideBacks
<1> QED
  BY SMTT(20), <1>1, <1>4, <1>5, <1>6, BacksThen

\* cancel, fail and resolve.
LEMMA EndsBack ==
  ASSUME NEW x \in RunRecord, NEW decision
  PROVE  Backs(x, Cancelled(x)) /\ Backs(x, Failed(x))
           /\ Backs(x, Resolved(x, decision))
<1>1. \A d \in Terminal : Final(d) \in Outcome /\ Final(d).decision # "attestation"
  BY Zenon, PlainOutcomes
<1>2. {"completed", "failed", "cancelled"} \subseteq Terminal
  BY Zenon DEF Terminal
<1> QED
  BY Zenon, <1>1, <1>2, SettleBacks DEF Cancelled, Failed, Resolved

\* recover_stale_runs fences open attempts only.
LEMMA RecoveredBacks ==
  ASSUME NEW x \in RunRecord, NEW replayable
  PROVE  Backs(x, Recovered(x, replayable))
<1> DEFINE s == Fenced(x.attempts)
           y == [x EXCEPT !.attempts = s]
           z == [y EXCEPT !.epoch = @ + 1]
<1>1. Recovered(x, replayable) \in {z, Failed(y)}
  BY Zenon DEF Recovered
<1>2. ASSUME NEW i \in DOMAIN x.attempts
      PROVE  /\ i \in DOMAIN s
             /\ \/ s[i].state = x.attempts[i].state
                \/ s[i].state = "failed" /\ x.attempts[i].state = "created"
  <2>1. x.attempts[i] \in Attempt
    BY SMTT(20) DEF RunRecord
  <2>2. i \in DOMAIN s /\ s[i] = IF Live(x.attempts[i])
                                 THEN [x.attempts[i] EXCEPT !.state = "failed"]
                                 ELSE x.attempts[i]
    BY Zenon DEF Fenced
  <2> HIDE DEF s
  <2> QED
    BY Zenon, <2>1, <2>2 DEF Live, Attempt
<1>3. y \in RunRecord
  <2>1. s \in Seq(Attempt)
    BY Zenon, FencedTypes DEF RunRecord
  <2> HIDE DEF s
  <2> QED
    BY SMTT(30), <2>1 DEF RunRecord
<1>4. y.attempts = s /\ y.state = x.state /\ y.outcome = x.outcome
  BY SMTT(30) DEF RunRecord
<1> HIDE DEF s, y
<1>5. Keeps(x, y)
  BY Zenon, <1>2, <1>4 DEF Keeps, Open
<1>6. Backs(x, y)
  BY Zenon, <1>4, <1>5, AsideBacks
<1>7. z.attempts = y.attempts /\ z.state = y.state /\ z.outcome = y.outcome
  BY Zenon, <1>3 DEF RunRecord
<1> HIDE DEF z
<1>8. Backs(y, z)
  BY Zenon, <1>7, SameKeeps, AsideBacks
<1>9. Backs(y, Failed(y))
  BY Zenon, <1>3, EndsBack
<1> QED
  BY SMTT(20), <1>1, <1>6, <1>8, <1>9, BacksThen

\* record_result writes its attempt and leaves the others alone.
LEMMA SetAttemptFields ==
  ASSUME NEW x \in RunRecord, NEW i \in DOMAIN x.attempts, NEW state
  PROVE  LET y == SetAttempt(x, i, state)
         IN /\ y.state = x.state /\ y.outcome = x.outcome
            /\ DOMAIN y.attempts = DOMAIN x.attempts
            /\ y.attempts[i].state = state
            /\ \A j \in DOMAIN x.attempts \ {i} : y.attempts[j] = x.attempts[j]
<1> DEFINE y == SetAttempt(x, i, state)
           s == [x.attempts EXCEPT ![i].state = state]
<1>1. y.state = x.state /\ y.outcome = x.outcome /\ y.attempts = s
  BY Zenon DEF SetAttempt, RunRecord
<1>2. x.attempts[i] \in Attempt
  BY SMTT(20) DEF RunRecord
<1>3. s[i] = [x.attempts[i] EXCEPT !.state = state]
  BY Zenon
<1>4. s[i].state = state
  BY Zenon, <1>2, <1>3 DEF Attempt
<1>5. DOMAIN s = DOMAIN x.attempts
        /\ \A j \in DOMAIN x.attempts \ {i} : s[j] = x.attempts[j]
  BY SMTT(30)
<1> HIDE DEF y, s
<1> QED
  BY Zenon, <1>1, <1>4, <1>5 DEF y

\* The report of an open attempt takes no backing away, and gives the
\* backing that the outcome it assigns needs.
LEMMA ResultedBacks ==
  ASSUME NEW x \in RunRecord, NEW i \in Nat, Open(x, i), Backed(x),
         NEW terminal \in {"completed", "failed", "decision_required"}
  PROVE  LET z == Resulted(x, i, terminal)
         IN /\ Backed(z)
            /\ \A j \in DOMAIN x.attempts \ {i} :
                 j \in DOMAIN z.attempts /\ z.attempts[j] = x.attempts[j]
<1> DEFINE y == SetAttempt(x, i, terminal)
           z == Resulted(x, i, terminal)
<1>1. y \in RunRecord
  <2>1. terminal \in AttemptStates
    BY SMTT(30) DEF AttemptStates
  <2> QED
    BY Zenon, <2>1, SetAttemptIsSound
<1>2. /\ y.state = x.state /\ y.outcome = x.outcome
      /\ DOMAIN y.attempts = DOMAIN x.attempts
      /\ y.attempts[i].state = terminal
      /\ \A j \in DOMAIN x.attempts \ {i} : y.attempts[j] = x.attempts[j]
  BY SMTT(20), SetAttemptFields DEF Open
<1>3. /\ terminal = "completed" =>
           z = Report(y, Final("completed"), "run_succeeded")
      /\ terminal = "failed" =>
           z = Report(y, Pending("repair"), "run_needs_decision")
      /\ terminal = "decision_required" =>
           z = Report(y, Pending("attestation"), "run_needs_decision")
  BY Zenon DEF Resulted
<1> HIDE DEF y, z
<1>4. Backed(y)
  BY Zenon, <1>2 DEF Backed, Shows, Open
<1>5. /\ Final("completed") \in Outcome /\ Pending("repair") \in Outcome
      /\ Pending("attestation") \in Outcome
  BY SMTT(30), OutcomeTypes DEF Dispositions, Decisions, Terminal
<1>6. z.attempts = y.attempts
  BY SMTT(30), <1>1, <1>3, <1>5, ReportIsSound DEF SameAttempts
<1>7. ASSUME terminal = "completed"
      PROVE  Backed(z)
  <2> DEFINE v == [y EXCEPT !.outcome = Final("completed")]
  <2>1. v.outcome.decision = "none" /\ z = Transition(v, "run_succeeded")
    BY Zenon, <1>1, <1>3, <1>7 DEF RunRecord, Final, Report
  <2>2. v \in RunRecord
    BY Zenon, <1>1, <1>5, OutcomeIsSound
  <2> HIDE DEF v
  <2>3. z.outcome = v.outcome
    BY Zenon, <2>1, <2>2 DEF Transition, RunRecord
  <2> QED
    BY Zenon, <1>2, <1>6, <1>7, <2>1, <2>3 DEF Backed, Shows, Open
<1>8. ASSUME terminal = "failed"
      PROVE  Backed(z)
  <2> DEFINE v == [y EXCEPT !.outcome = Pending("repair")]
  <2>1. Pending("repair").decision # "attestation"
    BY Zenon DEF Pending
  <2>2. z = Transition(v, "run_needs_decision")
    BY Zenon, <1>3, <1>8 DEF Report
  <2>3. v \in RunRecord /\ Backs(y, v)
    BY Zenon, <1>1, <1>5, <2>1, OutcomeIsSound, OutcomeBacks
  <2> HIDE DEF v
  <2>4. Backs(v, z)
    BY Zenon, <2>2, <2>3, TransitionBacks
  <2> QED
    BY Zenon, <1>4, <2>3, <2>4 DEF Backs
<1>9. ASSUME terminal = "decision_required"
      PROVE  Backed(z)
  <2> DEFINE v == [y EXCEPT !.outcome = Pending("attestation")]
  <2>1. z = Transition(v, "run_needs_decision")
    BY Zenon, <1>3, <1>9 DEF Report
  <2>2. v \in RunRecord /\ v.state = y.state /\ v.attempts = y.attempts
    BY Zenon, <1>1, <1>5, OutcomeIsSound DEF SameAttempts
  <2> HIDE DEF v
  <2>3. Backed(v)
    BY Zenon, <1>2, <1>9, <2>2 DEF Backed, Shows, Open
  <2>4. Backs(v, z)
    BY Zenon, <2>1, <2>2, TransitionBacks
  <2> QED
    BY Zenon, <2>3, <2>4 DEF Backs
<1>10. Backed(z)
  BY Zenon, <1>7, <1>8, <1>9
<1> QED
  BY Zenon, <1>2, <1>6, <1>10 DEF z

---------------------------------------------------------------------------
\* The steps

EarnedInv == Backed(run) /\ ReportsOpen

\* A call that reports is the name of its attempt and nothing more.
LEMMA ResultCall ==
  ASSUME NEW c \in Call, c.op = "result"
  PROVE  c = [op |-> "result", attempt |-> c.attempt]
BY SMTT(20) DEF Call, Idle

\* A step that begins no report and ends no attempt that one is about.
LEMMA ReportsStayOpen ==
  ASSUME ReportsOpen, Keeps(run, run'),
         \A h \in Handlers : Reporting(h)' => calls'[h] = calls[h]
  PROVE  ReportsOpen'
<1>1. ASSUME NEW i, Open(run, i)
      PROVE  Open(run', i)
  BY Zenon, <1>1 DEF Keeps, Open
<1>2. \A h \in Handlers :
        Reporting(h)' => Reporting(h) /\ calls'[h].attempt = calls[h].attempt
  BY Zenon DEF Reporting
<1>3. ASSUME NEW h \in Handlers, Reporting(h)'
      PROVE  Open(run', calls'[h].attempt)
  BY Zenon, <1>1, <1>2, <1>3 DEF ReportsOpen
<1>4. ASSUME NEW g \in Handlers, NEW h \in Handlers, Reporting(g)', Reporting(h)',
             calls'[g].attempt = calls'[h].attempt
      PROVE  g = h
  BY Zenon, <1>2, <1>4 DEF ReportsOpen
<1>5. \A h \in Handlers : Open(run, calls[h].attempt)' <=> Open(run', calls'[h].attempt)
  BY Zenon DEF Open
<1> QED
  BY Zenon, <1>3, <1>4, <1>5 DEF ReportsOpen

\* No call begins to report when one call is put in place of another.
LEMMA OtherCalls ==
  ASSUME calls \in [Handlers -> Call], NEW h \in Handlers, NEW c,
         c.op # "result", calls' = [calls EXCEPT ![h] = c]
  PROVE  \A g \in Handlers : Reporting(g)' => calls'[g] = calls[g]
BY Zenon DEF Reporting

\* The beginnings and ends of calls that do not report.
LEMMA OtherHandlers ==
  ASSUME LifecycleTypeOK, NEW h \in Handlers,
         \/ \E o \in Operations : BeginPatch(h, o)
         \/ ApplyPatch(h) \/ AnswerPatch(h) \/ BeginCommit(h) \/ EndCommit(h)
         \/ BeginStart(h) \/ EndStart(h) \/ Refuse(h) \/ EndResult(h)
  PROVE  \A g \in Handlers : Reporting(g)' => calls'[g] = calls[g]
<1>1. PICK c : c.op # "result" /\ calls' = [calls EXCEPT ![h] = c]
  BY Zenon DEF BeginPatch, ApplyPatch, AnswerPatch, BeginCommit, EndCommit,
         BeginStart, EndStart, Refuse, EndResult, Enter, Leave, Idle
<1> QED
  BY ZenonT(30), <1>1, OtherCalls DEF LifecycleTypeOK

\* What the handlers do to the record, record_result aside.
LEMMA HandlersBack ==
  ASSUME LifecycleTypeOK, NEW h \in Handlers,
         \/ \E o \in Operations : BeginPatch(h, o)
         \/ ApplyPatch(h) \/ AnswerPatch(h) \/ BeginCommit(h) \/ EndCommit(h)
         \/ BeginStart(h) \/ EndStart(h) \/ Refuse(h)
  PROVE  Backs(run, run')
<1>1. run \in RunRecord /\ calls[h] \in Call
  BY Zenon DEF LifecycleTypeOK
<1>2. CASE ApplyPatch(h)
  <2>1. calls[h].draft \in Draft
    BY SMTT(30), <1>1, <1>2, CallFields DEF ApplyPatch
  <2>2. calls[h].draft.version \in Nat
    BY SMTT(30), <2>1 DEF Draft
  <2>3. PICK kind \in Kinds :
          run' = Patched(run, calls[h].draft.version, calls[h].from, kind)
    BY Zenon, <1>2 DEF ApplyPatch
  <2>4. kind \in ProgramKinds
    BY SMTT(30), ConstantsAreSound
  <2> QED
    BY Zenon, <1>1, <2>2, <2>3, <2>4, PatchedBacks
<1>3. CASE EndCommit(h)
  BY ZenonT(30), <1>1, <1>3, CommittedBacks DEF EndCommit
<1>4. CASE EndStart(h)
  BY Zenon, <1>1, <1>4, StartedBacks DEF EndStart
<1>5. CASE \/ \E o \in Operations : BeginPatch(h, o)
           \/ AnswerPatch(h) \/ BeginCommit(h) \/ BeginStart(h) \/ Refuse(h)
  <2>1. run' = run
    BY ZenonT(30), <1>5 DEF BeginPatch, AnswerPatch, BeginCommit, BeginStart, Refuse
  <2> QED
    BY SMTT(30), <2>1, UnchangedBacks
<1> QED
  BY Zenon, <1>2, <1>3, <1>4, <1>5

\* What the methods that never await do to the record and to the calls.
LEMMA AtOnceBacks ==
  ASSUME LifecycleTypeOK,
         \/ BeginRefinement \/ CancelRun \/ FailRun \/ CloseRun
         \/ \E decision \in {"accept", "abandon"} : ResolveRun(decision)
         \/ \E replayable \in BOOLEAN : RecoverStaleRun(replayable)
  PROVE  Backs(run, run') /\ calls' = calls
<1>1. run \in RunRecord
  BY Zenon DEF LifecycleTypeOK
<1>2. calls' = calls
  BY Zenon DEF BeginRefinement, CancelRun, FailRun, CloseRun, ResolveRun,
         RecoverStaleRun, AtOnce
<1>3. CASE BeginRefinement \/ CloseRun
  BY Zenon, <1>1, <1>2, <1>3, TransitionBacks DEF BeginRefinement, CloseRun
<1>4. CASE \/ CancelRun \/ FailRun
           \/ \E decision \in {"accept", "abandon"} : ResolveRun(decision)
  BY Zenon, <1>1, <1>2, <1>4, EndsBack DEF CancelRun, FailRun, ResolveRun
<1>5. CASE \E replayable \in BOOLEAN : RecoverStaleRun(replayable)
  BY SMTT(30), <1>1, <1>2, <1>5, RecoveredBacks DEF RecoverStaleRun
<1> QED
  BY Zenon, <1>3, <1>4, <1>5

\* A report begins about a live attempt that no other call reports.
LEMMA BeginResultEarns ==
  ASSUME LifecycleTypeOK, EarnedInv, NEW h \in Handlers, NEW i,
         BeginResult(h, i)
  PROVE  EarnedInv'
<1> DEFINE c == [op |-> "result", attempt |-> i]
<1>1. /\ run' = run /\ calls' = [calls EXCEPT ![h] = c] /\ Open(run, i)
      /\ \A g \in Handlers : calls[g] # c
  BY Zenon DEF BeginResult, Enter, Live, Open
<1>2. c.op = "result" /\ c.attempt = i
  BY Zenon
<1>3. \A g \in Handlers : calls[g] \in Call
  BY Zenon DEF LifecycleTypeOK
<1>4. \A g \in Handlers : Reporting(g) => calls[g].attempt # i
  BY Zenon, <1>1, <1>3, ResultCall DEF Reporting
<1>5. /\ calls'[h] = c
      /\ \A g \in Handlers \ {h} : calls'[g] = calls[g]
  BY SMTT(30), <1>1 DEF LifecycleTypeOK
<1> HIDE DEF c
<1>6. ASSUME NEW g \in Handlers, Reporting(g)'
      PROVE  Open(run, calls[g].attempt)'
  BY SMTT(30), <1>1, <1>2, <1>5, <1>6 DEF EarnedInv, ReportsOpen, Reporting, Open
<1>7. ASSUME NEW f \in Handlers, NEW g \in Handlers, Reporting(f)', Reporting(g)',
             calls'[f].attempt = calls'[g].attempt
      PROVE  f = g
  BY Zenon, <1>2, <1>4, <1>5, <1>7 DEF EarnedInv, ReportsOpen, Reporting
<1>8. Backed(run)'
  BY SMTT(30), <1>1 DEF EarnedInv, Backed, Shows
<1> QED
  BY SMTT(30), <1>6, <1>7, <1>8 DEF EarnedInv, ReportsOpen

\* A report ends its own attempt and no other that a call reports.
LEMMA EndResultEarns ==
  ASSUME LifecycleTypeOK, EarnedInv, NEW h \in Handlers, EndResult(h)
  PROVE  EarnedInv'
<1> DEFINE i == calls[h].attempt
<1>1. run \in RunRecord /\ calls \in [Handlers -> Call] /\ calls[h] \in Call
  BY Zenon DEF LifecycleTypeOK
<1>2. Reporting(h) /\ i \in Nat
  BY Zenon, <1>1, CallFields DEF EndResult, Reporting
<1>3. Open(run, i) /\ Backed(run)
  BY Zenon, <1>2 DEF EarnedInv, ReportsOpen
<1>4. PICK terminal \in {"completed", "failed", "decision_required"} :
        run' = Resulted(run, i, terminal)
  BY SMTT(30) DEF EndResult
<1>5. /\ Backed(run')
      /\ \A j \in DOMAIN run.attempts \ {i} :
           j \in DOMAIN run'.attempts /\ run'.attempts[j] = run.attempts[j]
  BY Zenon, <1>1, <1>2, <1>3, <1>4, ResultedBacks
<1>6. calls'[h] = Idle /\ \A g \in Handlers \ {h} : calls'[g] = calls[g]
  BY SMTT(30), <1>1 DEF EndResult, Leave
<1>7. \A g \in Handlers :
        Reporting(g)' => g # h /\ Reporting(g) /\ calls'[g] = calls[g]
  BY SMTT(30), <1>6 DEF Reporting, Idle
<1>8. ASSUME NEW g \in Handlers, Reporting(g)'
      PROVE  Open(run, calls[g].attempt)'
  <2>1. g # h /\ Reporting(g) /\ calls'[g] = calls[g]
    BY Zenon, <1>7, <1>8
  <2>2. calls[g].attempt # i /\ Open(run, calls[g].attempt)
    BY SMTT(30), <1>2, <2>1 DEF EarnedInv, ReportsOpen
  <2> HIDE DEF i
  <2> QED
    BY Zenon, <1>5, <2>1, <2>2 DEF Open
<1>9. ASSUME NEW f \in Handlers, NEW g \in Handlers, Reporting(f)', Reporting(g)',
             calls'[f].attempt = calls'[g].attempt
      PROVE  f = g
  BY SMTT(30), <1>7, <1>9 DEF EarnedInv, ReportsOpen
<1>10. Backed(run)'
  BY Zenon, <1>5 DEF Backed, Shows
<1> QED
  BY Zenon, <1>8, <1>9, <1>10 DEF EarnedInv, ReportsOpen

\* Every step keeps the attempts that completions and attestations rest on.
LEMMA StepEarns ==
  ASSUME LifecycleTypeOK, EarnedInv, [LifecycleNext]_lifecycleVars
  PROVE  EarnedInv'
<1>1. ASSUME Backs(run, run'),
             \A h \in Handlers : Reporting(h)' => calls'[h] = calls[h]
      PROVE  EarnedInv'
  <2>1. Keeps(run, run') /\ Backed(run')
    BY SMTT(30), <1>1 DEF Backs, EarnedInv
  <2>2. ReportsOpen'
    BY Zenon, <1>1, <2>1, ReportsStayOpen DEF EarnedInv
  <2>3. Backed(run)'
    BY Zenon, <2>1 DEF Backed, Shows
  <2> QED
    BY SMTT(30), <2>2, <2>3 DEF EarnedInv
<1>2. CASE UNCHANGED lifecycleVars
  BY Zenon, <1>1, <1>2, UnchangedBacks DEF lifecycleVars
<1>3. ASSUME NEW h \in Handlers,
             \/ \E o \in Operations : BeginPatch(h, o)
             \/ ApplyPatch(h) \/ AnswerPatch(h) \/ BeginCommit(h)
             \/ EndCommit(h) \/ BeginStart(h) \/ EndStart(h) \/ Refuse(h)
      PROVE  EarnedInv'
  <2>1. Backs(run, run')
    BY SMTT(30), <1>3, HandlersBack
  <2>2. \A g \in Handlers : Reporting(g)' => calls'[g] = calls[g]
    BY Zenon, <1>3, OtherHandlers
  <2> QED
    BY Zenon, <1>1, <2>1, <2>2
<1>4. ASSUME NEW h \in Handlers,
             \/ \E i \in 1 .. Len(run.attempts) : BeginResult(h, i)
             \/ EndResult(h)
      PROVE  EarnedInv'
  BY Zenon, <1>4, BeginResultEarns, EndResultEarns
<1>5. CASE \/ BeginRefinement \/ CancelRun \/ FailRun \/ CloseRun
           \/ \E decision \in {"accept", "abandon"} : ResolveRun(decision)
           \/ \E replayable \in BOOLEAN : RecoverStaleRun(replayable)
  <2>1. Backs(run, run') /\ calls' = calls
    BY Zenon, <1>5, AtOnceBacks
  <2> QED
    BY Zenon, <1>1, <2>1
<1> QED
  BY Zenon, <1>2, <1>3, <1>4, <1>5 DEF LifecycleNext

\* A newly opened Run has nothing to back and no calls.
LEMMA InitEarns ==
  LifecycleInit => EarnedInv
<1> SUFFICES ASSUME LifecycleInit
             PROVE  EarnedInv
  BY Zenon
<1>1. run.state = "opened" /\ run.outcome.decision = "none"
  BY SMTT(20) DEF LifecycleInit, OpenedRun, NoOutcome
<1>2. \A h \in Handlers : ~Reporting(h)
  BY Zenon DEF LifecycleInit, Reporting, Idle
<1> QED
  BY SMTT(30), <1>1, <1>2 DEF EarnedInv, Backed, ReportsOpen

---------------------------------------------------------------------------
\* Theorem

\* A completed Run has an attempt whose value record_result accepted, or one
\* whose value was attested, whatever calls overlap.
THEOREM CompletionIsEarned == LifecycleSpec => []CompletedWasEarned
<1>1. LifecycleInit => EarnedInv
  BY Zenon, InitEarns
<1>2. LifecycleTypeOK /\ EarnedInv /\ [LifecycleNext]_lifecycleVars => EarnedInv'
  BY Zenon, StepEarns
<1>3. EarnedInv => CompletedWasEarned
  BY Zenon DEF EarnedInv, Backed, Shows, CompletedWasEarned
<1> QED
  BY <1>1, <1>2, <1>3, LifecycleTypes, PTL DEF LifecycleSpec

-----------------------------------------------------------------------------
(***************************************************************************)
(* Calls that never overlap: OutcomeMatchesState and RerunIsAnswerable.    *)
(*                                                                         *)
(* While no call has begun during another, at most one is in progress, and *)
(* what it checked before its await still holds when it continues          *)
(* (StillTrue).  A Run that is neither running nor ended has no attempt    *)
(* that may still report, and the ones of a running Run are of its epoch   *)
(* (Answers), which is unique to an attempt by EpochsFit.                  *)
(***************************************************************************)

\* The outcome says what the state says.
Says(x) ==
  /\ x.state = "awaiting_decision" =>
       /\ x.outcome.disposition = "awaiting_decision"
       /\ x.outcome.decision \in {"repair", "attestation"}
  /\ x.state \in Terminal => x.outcome = Final(x.state)

NoneLive(x) == \A i \in DOMAIN x.attempts : ~Live(x.attempts[i])

Answers(x) ==
  /\ x.state = "running" =>
       /\ \A i \in DOMAIN x.attempts :
            Live(x.attempts[i]) => x.attempts[i].epoch = x.epoch
       /\ x.committed.kind = "direct" =>
            \E i \in DOMAIN x.attempts : Live(x.attempts[i])
  /\ x.state \notin Ended \cup {"running"} => NoneLive(x)

Tidy(x) == Says(x) /\ Answers(x)

\* What call c found in the record x before its await.
StillTrue(x, c) ==
  /\ c.op = "patch" =>
       /\ c.draft = x.draft /\ c.from = x.state
       /\ x.state \in {"opened", "thinking", "awaiting_decision"}
       /\ x.state = "awaiting_decision" => x.outcome.decision = "repair"
  /\ c.op = "commit" => x.state = "thinking"
  /\ c.op = "start" => x.state = "committed"
  /\ c.op = "result" =>
       /\ x.state = "running" /\ c.attempt \in DOMAIN x.attempts
       /\ Live(x.attempts[c.attempt])
       /\ x.attempts[c.attempt].epoch = x.epoch

\* At most one call is in progress.
OneCall ==
  \A g, h \in Handlers : calls[g] # Idle /\ calls[h] # Idle => g = h

InTurn ==
  /\ OneCall
  /\ Tidy(run)
  /\ \A h \in Handlers : StillTrue(run, calls[h])

SequentialInv == ~overlapped => InTurn

---------------------------------------------------------------------------
\* The operations

SameVersions(x, y) == y.draft = x.draft /\ y.committed = x.committed

\* The table leads from a state by an event to one state only.
LEMMA TableIsFunction ==
  ASSUME NEW state, NEW event, NEW t, NEW u,
         <<state, event, t>> \in RUN_TRANSITIONS,
         <<state, event, u>> \in RUN_TRANSITIONS
  PROVE  t = u
BY SMTT(20) DEF RUN_TRANSITIONS

\* The draft and the committed version are not _transition's to change.
LEMMA TransitionVersions ==
  ASSUME NEW x \in RunRecord, NEW event
  PROVE  /\ SameVersions(x, Transition(x, event))
         /\ Transition(x, event).outcome = x.outcome
<1>1. CASE Allows(x, event)
  <2> DEFINE t == TargetOf(x.state, event)
  <2>1. Transition(x, event) = [x EXCEPT !.state = t]
    BY Zenon, <1>1 DEF Transition
  <2> HIDE DEF t
  <2> QED
    BY Zenon, <2>1 DEF RunRecord, SameVersions
<1>2. CASE ~Allows(x, event)
  BY Zenon, <1>2 DEF Transition, SameVersions
<1> QED
  BY Zenon, <1>1, <1>2

\* A transition that the table and the pending decision admit.
LEMMA TransitionTo ==
  ASSUME NEW x \in RunRecord, NEW event, NEW target \in RunStates,
         <<x.state, event, target>> \in RUN_TRANSITIONS,
         event = "refinement_started" /\ x.state = "awaiting_decision"
           => x.outcome.decision = "repair",
         event = "decision_accepted" => x.outcome.decision = "attestation"
  PROVE  Allows(x, event) /\ Transition(x, event).state = target
<1>1. Allows(x, event)
  BY Zenon DEF Allows
<1>2. TargetOf(x.state, event) = target
  BY Zenon, <1>1, TargetInTable, TableIsFunction
<1> QED
  BY Zenon, <1>1, <1>2 DEF Transition, RunRecord

\* Such a transition, followed by the assignment of an outcome.
LEMMA SettleTo ==
  ASSUME NEW x \in RunRecord, NEW event, NEW target \in RunStates,
         NEW outcome \in Outcome,
         <<x.state, event, target>> \in RUN_TRANSITIONS,
         event = "refinement_started" /\ x.state = "awaiting_decision"
           => x.outcome.decision = "repair",
         event = "decision_accepted" => x.outcome.decision = "attestation"
  PROVE  LET y == Settle(x, event, outcome)
         IN y.state = target /\ y.outcome = outcome
<1> DEFINE y == Transition(x, event)
<1>1. Allows(x, event) /\ y.state = target
  BY Zenon, TransitionTo
<1>2. y \in RunRecord
  BY Zenon, TransitionIsSound
<1>3. Settle(x, event, outcome) = [y EXCEPT !.outcome = outcome]
  BY Zenon, <1>1 DEF Settle
<1> HIDE DEF y
<1> QED
  BY Zenon, <1>1, <1>2, <1>3 DEF RunRecord

\* cancel, fail and resolve leave the versions alone.
LEMMA SettleVersions ==
  ASSUME NEW x \in RunRecord, NEW event, NEW outcome \in Outcome
  PROVE  SameVersions(x, Settle(x, event, outcome))
<1> DEFINE y == Transition(x, event)
<1>1. y \in RunRecord /\ SameVersions(x, y)
  BY Zenon, TransitionIsSound, TransitionVersions
<1>2. Settle(x, event, outcome) \in {x, [y EXCEPT !.outcome = outcome]}
  BY SMTT(30) DEF Settle
<1> HIDE DEF y
<1> QED
  BY Zenon, <1>1, <1>2 DEF RunRecord, SameVersions

\* An outcome followed by a transition that no decision guards.
LEMMA ReportTo ==
  ASSUME NEW x \in RunRecord, NEW event, NEW target \in RunStates,
         NEW outcome \in Outcome,
         <<x.state, event, target>> \in RUN_TRANSITIONS,
         event \notin {"refinement_started", "decision_accepted"}
  PROVE  LET y == Report(x, outcome, event)
         IN /\ y.state = target /\ y.outcome = outcome
            /\ SameVersions(x, y) /\ SameAttempts(x, y)
<1> DEFINE y == [x EXCEPT !.outcome = outcome]
<1>1. /\ y \in RunRecord /\ y.state = x.state /\ y.outcome = outcome
      /\ SameVersions(x, y) /\ SameAttempts(x, y)
  BY SMTT(30) DEF RunRecord, SameVersions, SameAttempts
<1>2. Report(x, outcome, event) = Transition(y, event)
  BY Zenon DEF Report
<1> HIDE DEF y
<1>3. Transition(y, event).state = target
  BY Zenon, <1>1, TransitionTo
<1>4. /\ Transition(y, event).outcome = outcome
      /\ SameVersions(y, Transition(y, event))
      /\ SameAttempts(y, Transition(y, event))
  BY Zenon, <1>1, TransitionVersions, TransitionIsSound
<1> QED
  BY Zenon, <1>1, <1>2, <1>3, <1>4 DEF SameVersions, SameAttempts

\* A Run that thinks or is committed owes nothing but to have no attempt
\* that may still report.
LEMMA RestingIsTidy ==
  ASSUME NEW x, x.state \in {"thinking", "committed"}, NoneLive(x)
  PROVE  Tidy(x)
BY Zenon DEF Tidy, Says, Answers, Terminal

\* A Run that ended needs the outcome that says so.
LEMMA EndedIsTidy ==
  ASSUME NEW x, x.state \in Terminal => x.outcome = Final(x.state),
         x.state \in Ended
  PROVE  Tidy(x)
BY SMTT(30) DEF Tidy, Says, Answers, Ended, Terminal

\* The tail of apply_patch leaves the Run thinking.
LEMMA PatchedTidies ==
  ASSUME NEW x \in RunRecord, NEW base \in Nat, NEW kind \in ProgramKinds,
         Tidy(x), x.state \in {"opened", "thinking", "awaiting_decision"},
         x.state = "awaiting_decision" => x.outcome.decision = "repair"
  PROVE  LET y == Patched(x, base, x.state, kind)
         IN /\ Tidy(y) /\ y.state = "thinking"
            /\ y.committed = x.committed /\ y.draft.base = base
<1> DEFINE d == [version |-> x.draft.version + 1, base |-> base, kind |-> kind]
           y == [x EXCEPT !.draft = d]
           z == Patched(x, base, x.state, kind)
<1>1. d \in Draft /\ d.base = base
  BY SMTT(20) DEF RunRecord, Draft
<1> HIDE DEF d
<1>2. /\ y \in RunRecord /\ y.state = x.state /\ y.outcome = x.outcome
      /\ SameAttempts(x, y) /\ y.committed = x.committed /\ y.draft = d
  BY SMTT(30), <1>1 DEF RunRecord, SameAttempts
<1>3. NoneLive(x)
  BY Zenon DEF Tidy, Answers, Ended, Terminal
<1>4. /\ x.state = "opened" => z = Transition(y, "refinement_started")
      /\ x.state = "awaiting_decision" =>
           z = Settle(y, "refinement_started", NoOutcome)
      /\ x.state = "thinking" => z = y
  BY SMTT(30) DEF Patched, d
<1> HIDE DEF y, z
<1>5. /\ <<"opened", "refinement_started", "thinking">> \in RUN_TRANSITIONS
      /\ <<"awaiting_decision", "refinement_started", "thinking">> \in RUN_TRANSITIONS
      /\ "thinking" \in RunStates /\ NoOutcome \in Outcome
  BY SMTT(30), OutcomeTypes DEF RUN_TRANSITIONS, RunStates
<1>6. z.state = "thinking" /\ SameVersions(y, z) /\ SameAttempts(y, z)
  <2>1. CASE x.state = "opened"
    BY ZenonT(30), <1>2, <1>4, <1>5, <2>1, TransitionTo, TransitionVersions, TransitionIsSound
  <2>2. CASE x.state = "awaiting_decision"
    BY SMTT(30), <1>2, <1>4, <1>5, <2>2, SettleTo, SettleVersions, SettleIsSound
  <2>3. CASE x.state = "thinking"
    BY SMTT(30), <1>2, <1>4, <2>3 DEF SameVersions, SameAttempts
  <2> QED
    BY ZenonT(30), <2>1, <2>2, <2>3
<1>7. NoneLive(z)
  BY ZenonT(30), <1>2, <1>3, <1>6 DEF SameAttempts, NoneLive
<1>8. Tidy(z)
  BY SMTT(30), <1>6, <1>7, RestingIsTidy
<1> QED
  BY SMTT(30), <1>1, <1>2, <1>6, <1>8 DEF SameVersions, z

\* The tail of commit, which nothing came before, commits the draft.
LEMMA CommittedTidies ==
  ASSUME NEW x \in RunRecord, Tidy(x), x.state = "thinking"
  PROVE  LET y == Committed(x)
         IN /\ Tidy(y) /\ y.draft = x.draft
            /\ y.committed.draft = x.draft.version
<1> DEFINE c == [version |-> x.committed.version + 1, draft |-> x.draft.version,
                 kind |-> x.draft.kind]
           y == [x EXCEPT !.committed = c]
           z == Committed(x)
<1>1. c \in Closure /\ c.draft = x.draft.version
  BY SMTT(20) DEF RunRecord, Draft, Closure
<1>2. z = Transition(y, "committed")
  BY Zenon DEF Committed
<1> HIDE DEF c
<1>3. /\ y \in RunRecord /\ y.state = x.state
      /\ SameAttempts(x, y) /\ y.committed = c /\ y.draft = x.draft
  BY Zenon, <1>1 DEF RunRecord, SameAttempts
<1>4. NoneLive(x)
  BY Zenon DEF Tidy, Answers, Ended, Terminal
<1> HIDE DEF y, z
<1>5. /\ <<"thinking", "committed", "committed">> \in RUN_TRANSITIONS
      /\ "committed" \in RunStates
  BY SMTT(30) DEF RUN_TRANSITIONS, RunStates
<1>6. z.state = "committed" /\ SameVersions(y, z) /\ SameAttempts(y, z)
  BY SMTT(30), <1>2, <1>3, <1>5, TransitionTo, TransitionVersions, TransitionIsSound
<1>7. NoneLive(z)
  BY Zenon, <1>3, <1>4, <1>6 DEF SameAttempts, NoneLive
<1>8. Tidy(z)
  BY SMTT(30), <1>6, <1>7, RestingIsTidy
<1> QED
  BY Zenon, <1>1, <1>3, <1>6, <1>8 DEF SameVersions, z

\* start, which nothing came before, leaves one attempt that may report: the
\* one it adds.
LEMMA StartedTidies ==
  ASSUME NEW x \in RunRecord, Tidy(x), x.state = "committed"
  PROVE  Tidy(Started(x)) /\ SameVersions(x, Started(x))
<1> DEFINE y == NewExecution(x)
           z == Transition(y, "execution_started")
           w == AddAttempt(z, 0, 0, 0)
           a == [node |-> 0, epoch |-> z.epoch, state |-> "created",
                 worker |-> 0, instance |-> 0, heir |-> 0]
<1>1. y \in RunRecord /\ y.state = x.state /\ y.attempts = x.attempts
  BY Zenon, NewExecutionIsSound
<1>2. SameVersions(x, y)
  <2> DEFINE n == x.execution + 1
             e == IF x.execution = 0 THEN 1 ELSE x.epoch + 1
  <2>1. y = [x EXCEPT !.execution = n, !.epoch = e, !.outcome = NoOutcome]
    BY Zenon DEF NewExecution
  <2> HIDE DEF n, e, y
  <2> QED
    BY Zenon, <2>1 DEF RunRecord, SameVersions
<1>3. /\ <<"committed", "execution_started", "running">> \in RUN_TRANSITIONS
      /\ "running" \in RunStates
  BY SMTT(30) DEF RUN_TRANSITIONS, RunStates
<1>4. Started(x) = IF Allows(y, "execution_started") /\ z.committed.kind = "direct"
                   THEN w ELSE z
  BY SMTT(30) DEF Started
<1> HIDE DEF y
<1>5. Allows(y, "execution_started") /\ z.state = "running"
  BY Zenon, <1>1, <1>3, TransitionTo
<1>6. z \in RunRecord /\ SameVersions(y, z) /\ SameAttempts(y, z)
  BY SMTT(30), <1>1, TransitionVersions, TransitionIsSound
<1>7. NoneLive(x)
  BY Zenon DEF Tidy, Answers, Ended, Terminal
<1> HIDE DEF z
<1>8. NoneLive(z)
  BY SMTT(30), <1>1, <1>6, <1>7 DEF SameAttempts, NoneLive
<1>9. CASE z.committed.kind = "direct"
  <2>1. w = [z EXCEPT !.attempts = Append(z.attempts, a)]
    BY Zenon DEF AddAttempt
  <2>2. a.epoch = z.epoch /\ Live(a)
    BY Zenon DEF Live
  <2> HIDE DEF a, w
  <2>3. /\ w.state = "running" /\ w.epoch = z.epoch
        /\ SameVersions(z, w) /\ w.attempts = Append(z.attempts, a)
    BY Zenon, <1>5, <1>6, <2>1 DEF RunRecord, SameVersions
  <2>4. z.attempts \in Seq(Attempt)
    BY SMTT(30), <1>6 DEF RunRecord
  <2>5. /\ DOMAIN w.attempts = DOMAIN z.attempts \cup {Len(z.attempts) + 1}
        /\ w.attempts[Len(z.attempts) + 1] = a
        /\ \A i \in DOMAIN z.attempts : w.attempts[i] = z.attempts[i]
    BY SMTT(30), <2>3, <2>4
  <2>6. Answers(w)
    BY Zenon, <1>8, <2>2, <2>3, <2>5 DEF Answers, NoneLive
  <2>7. Says(w)
    BY Zenon, <2>3 DEF Says, Terminal
  <2> QED
    BY Zenon, <1>2, <1>4, <1>5, <1>6, <1>9, <2>3, <2>6, <2>7 DEF SameVersions,
       Tidy
<1>10. CASE z.committed.kind # "direct"
  <2>1. Tidy(z)
    BY Zenon, <1>5, <1>8, <1>10 DEF Tidy, Says, Answers, NoneLive, Terminal
  <2> QED
    BY SMTT(30), <1>2, <1>4, <1>6, <1>10, <2>1 DEF SameVersions
<1> QED
  BY SMTT(30), <1>9, <1>10

\* The end of an attempt is no change of versions.
LEMMA SetAttemptVersions ==
  ASSUME NEW x \in RunRecord, NEW i, NEW state
  PROVE  SameVersions(x, SetAttempt(x, i, state))
<1> DEFINE s == [x.attempts EXCEPT ![i].state = state]
<1>1. SetAttempt(x, i, state) = [x EXCEPT !.attempts = s]
  BY Zenon DEF SetAttempt
<1> HIDE DEF s
<1> QED
  BY Zenon, <1>1 DEF RunRecord, SameVersions

\* record_result of the attempt that may report ends it, and the Run with it
\* or leaves a decision; no other attempt may still report.
LEMMA ResultedTidies ==
  ASSUME NEW x \in RunRecord, Tidy(x), EpochsFit(x), x.state = "running",
         NEW i \in DOMAIN x.attempts, Live(x.attempts[i]),
         NEW terminal \in {"completed", "failed", "decision_required"}
  PROVE  LET y == Resulted(x, i, terminal)
         IN Tidy(y) /\ SameVersions(x, y)
<1> DEFINE y == SetAttempt(x, i, terminal)
           z == Resulted(x, i, terminal)
<1>0. x.attempts \in Seq(Attempt) /\ i \in Nat /\ terminal \in AttemptStates
  BY SMTT(20) DEF RunRecord, AttemptStates
<1>1. y \in RunRecord /\ y.state = "running"
  BY SMTT(30), <1>0, SetAttemptIsSound
<1>2. /\ SameVersions(x, y)
      /\ DOMAIN y.attempts = DOMAIN x.attempts
      /\ y.attempts[i].state = terminal
      /\ \A j \in DOMAIN x.attempts \ {i} : y.attempts[j] = x.attempts[j]
  BY SMTT(20), SetAttemptFields, SetAttemptVersions
<1>3. /\ terminal = "completed" =>
           z = Report(y, Final("completed"), "run_succeeded")
      /\ terminal = "failed" =>
           z = Report(y, Pending("repair"), "run_needs_decision")
      /\ terminal = "decision_required" =>
           z = Report(y, Pending("attestation"), "run_needs_decision")
  BY SMTT(30) DEF Resulted
<1> HIDE DEF y, z
<1>4. NoneLive(y)
  <2>1. \A j \in DOMAIN x.attempts : Live(x.attempts[j]) => j = i
    BY Zenon DEF Tidy, Answers, EpochsFit
  <2> QED
    BY SMTT(30), <1>2, <2>1 DEF NoneLive, Live
<1>5. /\ Final("completed") \in Outcome
      /\ Pending("repair") \in Outcome
      /\ Pending("attestation") \in Outcome
  BY Zenon, OutcomeTypes DEF Dispositions, Decisions, Terminal
<1>6. /\ <<"running", "run_succeeded", "completed">> \in RUN_TRANSITIONS
      /\ <<"running", "run_needs_decision", "awaiting_decision">> \in RUN_TRANSITIONS
      /\ "completed" \in RunStates /\ "awaiting_decision" \in RunStates
  BY Zenon DEF RUN_TRANSITIONS, RunStates
<1>7. CASE terminal = "completed"
  <2>1. z.state = "completed" /\ z.outcome = Final("completed") /\ SameVersions(y, z)
    BY SMTT(20), <1>1, <1>3, <1>5, <1>6, <1>7, ReportTo
  <2>2. Tidy(z)
    BY SMTT(30), <2>1, EndedIsTidy DEF Ended, Terminal
  <2> QED
    BY Zenon, <1>2, <2>1, <2>2 DEF SameVersions, z
<1>8. CASE terminal # "completed"
  <2>1. PICK d \in {"repair", "attestation"} :
          /\ z = Report(y, Pending(d), "run_needs_decision")
          /\ Pending(d) \in Outcome
    BY SMTT(30), <1>3, <1>5, <1>8
  <2>2. /\ z.state = "awaiting_decision" /\ z.outcome = Pending(d)
        /\ SameVersions(y, z) /\ SameAttempts(y, z)
    BY SMTT(30), <1>1, <1>6, <2>1, ReportTo
  <2>3. Says(z)
    BY SMTT(30), <2>2 DEF Says, Pending, Terminal
  <2>4. Answers(z)
    BY Zenon, <1>4, <2>2 DEF Answers, NoneLive, SameAttempts
  <2> QED
    BY Zenon, <1>2, <2>2, <2>3, <2>4 DEF SameVersions, Tidy, z
<1> QED
  BY Zenon, <1>7, <1>8

\* cancel_run and fail_run either end the Run or leave it as it was.
LEMMA EndsTidy ==
  ASSUME NEW x \in RunRecord
  PROVE  /\ x.state \notin Ended => Tidy(Cancelled(x))
         /\ Tidy(x) \/ x.state \in {"thinking", "running"} => Tidy(Failed(x))
         /\ SameVersions(x, Cancelled(x)) /\ SameVersions(x, Failed(x))
<1>1. Final("cancelled") \in Outcome /\ Final("failed") \in Outcome
  BY Zenon, OutcomeTypes DEF Dispositions, Terminal
<1>2. SameVersions(x, Cancelled(x)) /\ SameVersions(x, Failed(x))
  BY Zenon, <1>1, SettleVersions DEF Cancelled, Failed
<1>3. ASSUME x.state \notin Ended
      PROVE  Tidy(Cancelled(x))
  <2>1. /\ <<x.state, "run_cancelled", "cancelled">> \in RUN_TRANSITIONS
        /\ "cancelled" \in RunStates
    BY Zenon, <1>3 DEF RUN_TRANSITIONS, RunStates, Ended, Terminal, RunRecord
  <2>2. Cancelled(x).state = "cancelled" /\ Cancelled(x).outcome = Final("cancelled")
    BY SMTT(20), <1>1, <2>1, SettleTo DEF Cancelled
  <2> QED
    BY Zenon, <2>2, EndedIsTidy DEF Ended, Terminal
<1>4. ASSUME Tidy(x) \/ x.state \in {"thinking", "running"}
      PROVE  Tidy(Failed(x))
  <2>1. CASE x.state \in {"thinking", "running"}
    <3>1. /\ <<x.state, "run_failed", "failed">> \in RUN_TRANSITIONS
          /\ "failed" \in RunStates
      BY Zenon, <2>1 DEF RUN_TRANSITIONS, RunStates
    <3>2. Failed(x).state = "failed" /\ Failed(x).outcome = Final("failed")
      BY SMTT(20), <1>1, <3>1, SettleTo DEF Failed
    <3> QED
      BY Zenon, <3>2, EndedIsTidy DEF Ended, Terminal
  <2>2. CASE x.state \notin {"thinking", "running"}
    <3>1. ~Allows(x, "run_failed")
      BY Zenon, <2>2 DEF Allows, RUN_TRANSITIONS
    <3>2. Failed(x) = x
      BY Zenon, <3>1 DEF Failed, Settle
    <3> QED
      BY Zenon, <1>4, <2>2, <3>2
  <2> QED
    BY Zenon, <2>1, <2>2
<1> QED
  BY Zenon, <1>2, <1>3, <1>4

\* resolve ends a Run that awaits a decision.
LEMMA ResolvedTidies ==
  ASSUME NEW x \in RunRecord, NEW decision, x.state = "awaiting_decision",
         decision = "accept" => x.outcome.decision = "attestation"
  PROVE  Tidy(Resolved(x, decision)) /\ SameVersions(x, Resolved(x, decision))
<1>1. Final("completed") \in Outcome /\ Final("failed") \in Outcome
  BY Zenon, OutcomeTypes DEF Dispositions, Terminal
<1>2. /\ <<x.state, "decision_accepted", "completed">> \in RUN_TRANSITIONS
      /\ <<x.state, "decision_abandoned", "failed">> \in RUN_TRANSITIONS
      /\ "completed" \in RunStates /\ "failed" \in RunStates
  BY Zenon DEF RUN_TRANSITIONS, RunStates
<1>3. SameVersions(x, Resolved(x, decision))
  BY SMTT(30), <1>1, SettleVersions DEF Resolved
<1>4. PICK t \in {"completed", "failed"} :
        Resolved(x, decision).state = t /\ Resolved(x, decision).outcome = Final(t)
  BY SMTT(20), <1>1, <1>2, SettleTo DEF Resolved
<1> QED
  BY Zenon, <1>3, <1>4, EndedIsTidy DEF Ended, Terminal

\* The start of a refinement and the closing of a Run.
LEMMA BareTransitionTidies ==
  ASSUME NEW x \in RunRecord, Tidy(x)
  PROVE  /\ x.state = "opened" => Tidy(Transition(x, "refinement_started"))
         /\ x.state \in Terminal => Tidy(Transition(x, "run_closed"))
<1>1. ASSUME x.state = "opened"
      PROVE  Tidy(Transition(x, "refinement_started"))
  <2> DEFINE y == Transition(x, "refinement_started")
  <2>1. /\ <<x.state, "refinement_started", "thinking">> \in RUN_TRANSITIONS
        /\ "thinking" \in RunStates
    BY SMTT(30), <1>1 DEF RUN_TRANSITIONS, RunStates
  <2>2. y.state = "thinking" /\ SameAttempts(x, y)
    BY SMTT(30), <1>1, <2>1, TransitionTo, TransitionIsSound
  <2>3. NoneLive(x)
    BY Zenon, <1>1 DEF Tidy, Answers, Ended, Terminal
  <2> HIDE DEF y
  <2>4. NoneLive(y)
    BY Zenon, <2>2, <2>3 DEF SameAttempts, NoneLive
  <2> QED
    BY SMTT(20), <2>2, <2>4, RestingIsTidy DEF y
<1>2. ASSUME x.state \in Terminal
      PROVE  Tidy(Transition(x, "run_closed"))
  <2>1. /\ <<x.state, "run_closed", "closed">> \in RUN_TRANSITIONS
        /\ "closed" \in RunStates
    BY Zenon, <1>2 DEF RUN_TRANSITIONS, RunStates, Terminal
  <2>2. Transition(x, "run_closed").state = "closed"
    BY Zenon, <2>1, TransitionTo
  <2> QED
    BY Zenon, <2>2, EndedIsTidy DEF Ended, Terminal
<1> QED
  BY Zenon, <1>1, <1>2

\* recover_stale_runs leaves no attempt that may report: it fails the Run,
\* or keeps an orchestration, which has no attempt of its own.
LEMMA RecoveredTidies ==
  ASSUME NEW x \in RunRecord, NEW replayable, Tidy(x),
         x.state \in {"thinking", "running"}
  PROVE  LET y == Recovered(x, replayable)
         IN Tidy(y) /\ SameVersions(x, y)
<1> DEFINE s == Fenced(x.attempts)
           y == [x EXCEPT !.attempts = s]
           z == [y EXCEPT !.epoch = @ + 1]
<1>1. x.attempts \in Seq(Attempt)
  BY Zenon DEF RunRecord
<1>2. s \in Seq(Attempt)
  BY Zenon, <1>1, FencedTypes
<1>3. \A i \in DOMAIN s : ~Live(s[i])
  <2> SUFFICES ASSUME NEW i \in DOMAIN s
               PROVE  ~Live(s[i])
    BY Zenon
  <2>1. i \in DOMAIN x.attempts /\ x.attempts[i] \in Attempt
    BY SMTT(20), <1>1 DEF Fenced
  <2>2. s[i] = IF Live(x.attempts[i]) THEN [x.attempts[i] EXCEPT !.state = "failed"]
                                      ELSE x.attempts[i]
    BY Zenon, <2>1 DEF Fenced
  <2> HIDE DEF s
  <2> QED
    BY Zenon, <2>1, <2>2 DEF Live, Attempt
<1>4. Recovered(x, replayable) =
        IF x.state = "running" /\ x.committed.kind = "orchestrated" /\ replayable
        THEN z ELSE Failed(y)
  BY Zenon DEF Recovered
<1> HIDE DEF s
<1>5. /\ y \in RunRecord /\ y.state = x.state /\ y.attempts = s
      /\ SameVersions(x, y)
  BY Zenon, <1>2 DEF RunRecord, SameVersions
<1> HIDE DEF y
<1>6. Tidy(Failed(y)) /\ SameVersions(y, Failed(y))
  BY Zenon, <1>5, EndsTidy
<1>7. z.state = x.state /\ z.attempts = s /\ SameVersions(y, z)
  BY SMTT(30), <1>5 DEF RunRecord, SameVersions
<1> HIDE DEF z
<1>8. ASSUME x.state = "running", x.committed.kind = "orchestrated"
      PROVE  Tidy(z)
  <2>1. z.committed.kind = "orchestrated"
    BY Zenon, <1>5, <1>7, <1>8 DEF SameVersions
  <2> QED
    BY Zenon, <1>3, <1>7, <1>8, <2>1 DEF Tidy, Says, Answers, Terminal
<1> QED
  BY Zenon, <1>4, <1>5, <1>6, <1>7, <1>8 DEF SameVersions

---------------------------------------------------------------------------
\* The steps

\* The parts of InTurn, of the next state.
LEMMA InTurnNext ==
  ASSUME OneCall', Tidy(run'),
         \A h \in Handlers : StillTrue(run', calls'[h])
  PROVE  InTurn'
<1>1. Tidy(run)'
  BY SMTT(30) DEF Tidy, Says, Answers, NoneLive
<1>2. \A h \in Handlers : StillTrue(run, calls[h])'
  BY Zenon DEF StillTrue
<1> QED
  BY SMTT(30), <1>1, <1>2 DEF InTurn

\* A step that notes no overlap found every handler free.
LEMMA NotedIsFree ==
  ASSUME NoteOverlap, ~overlapped'
  PROVE  ~overlapped /\ \A h \in Handlers : calls[h] = Idle
BY ZenonT(30) DEF NoteOverlap

\* A free handler relies on nothing.
LEMMA IdleIsTrue ==
  ASSUME NEW x
  PROVE  /\ StillTrue(x, Idle)
         /\ \A o : StillTrue(x, [op |-> "answer", operation |-> o])
BY Zenon DEF StillTrue, Idle

\* What the methods that never await do to a tidy Run.
LEMMA AtOnceTidies ==
  ASSUME run \in RunRecord, Tidy(run),
         \/ BeginRefinement \/ CancelRun \/ FailRun \/ CloseRun
         \/ \E decision \in {"accept", "abandon"} : ResolveRun(decision)
         \/ \E replayable \in BOOLEAN : RecoverStaleRun(replayable)
  PROVE  Tidy(run') /\ SameVersions(run, run')
<1>1. CASE BeginRefinement \/ CloseRun
  BY Zenon, <1>1, BareTransitionTidies, TransitionVersions DEF BeginRefinement,
     CloseRun
<1>2. CASE CancelRun \/ FailRun
  BY Zenon, <1>2, EndsTidy DEF CancelRun, FailRun
<1>3. CASE \E decision \in {"accept", "abandon"} : ResolveRun(decision)
  BY Zenon, <1>3, ResolvedTidies DEF ResolveRun
<1>4. CASE \E replayable \in BOOLEAN : RecoverStaleRun(replayable)
  BY Zenon, <1>4, RecoveredTidies DEF RecoverStaleRun
<1> QED
  BY Zenon, <1>1, <1>2, <1>3, <1>4

\* The methods that never await find every handler free and leave it so.
LEMMA AtOnceInTurn ==
  ASSUME LifecycleTypeOK, SequentialInv, ~overlapped',
         \/ BeginRefinement \/ CancelRun \/ FailRun \/ CloseRun
         \/ \E decision \in {"accept", "abandon"} : ResolveRun(decision)
         \/ \E replayable \in BOOLEAN : RecoverStaleRun(replayable)
  PROVE  InTurn'
<1>1. AtOnce
  BY Zenon DEF BeginRefinement, CancelRun, FailRun, CloseRun, ResolveRun,
     RecoverStaleRun
<1>2. /\ ~overlapped /\ \A h \in Handlers : calls[h] = Idle
      /\ calls' = calls
  BY Zenon, <1>1, NotedIsFree DEF AtOnce
<1>3. run \in RunRecord /\ Tidy(run)
  BY Zenon, <1>2 DEF LifecycleTypeOK, SequentialInv, InTurn
<1>4. Tidy(run')
  BY Zenon, <1>3, AtOnceTidies
<1>5. OneCall'
  BY Zenon, <1>2 DEF OneCall
<1>6. \A h \in Handlers : StillTrue(run', calls'[h])
  BY SMTT(30), <1>2, IdleIsTrue
<1> QED
  BY Zenon, <1>4, <1>5, <1>6, InTurnNext

\* A call that begins while every handler is free has just checked what it
\* relies on.
LEMMA BeginsInTurn ==
  ASSUME LifecycleTypeOK, SequentialInv, ~overlapped', NEW h \in Handlers,
         \/ \E o \in Operations : BeginPatch(h, o)
         \/ BeginCommit(h) \/ BeginStart(h)
         \/ \E i \in 1 .. Len(run.attempts) : BeginResult(h, i)
  PROVE  InTurn'
<1>1. PICK c : Enter(h, c) /\ StillTrue(run, c)
  <2>1. ASSUME NEW o \in Operations, BeginPatch(h, o)
        PROVE  \E c : Enter(h, c) /\ StillTrue(run, c)
    <3> DEFINE c == [op |-> "patch", operation |-> o, draft |-> run.draft,
                     from |-> run.state]
    <3>1. Enter(h, c) /\ StillTrue(run, c)
      BY ZenonT(30), <2>1 DEF BeginPatch, StillTrue
    <3> QED
      BY SMTT(30), <3>1
  <2>2. ASSUME BeginCommit(h)
        PROVE  \E c : Enter(h, c) /\ StillTrue(run, c)
    <3> DEFINE c == [op |-> "commit"]
    <3>1. Enter(h, c) /\ StillTrue(run, c)
      BY ZenonT(30), <2>2 DEF BeginCommit, StillTrue
    <3> QED
      BY SMTT(30), <3>1
  <2>3. ASSUME BeginStart(h)
        PROVE  \E c : Enter(h, c) /\ StillTrue(run, c)
    <3> DEFINE c == [op |-> "start"]
    <3>1. Enter(h, c) /\ StillTrue(run, c)
      BY ZenonT(30), <2>3 DEF BeginStart, StillTrue
    <3> QED
      BY SMTT(30), <3>1
  <2>4. ASSUME NEW i \in 1 .. Len(run.attempts), BeginResult(h, i)
        PROVE  \E c : Enter(h, c) /\ StillTrue(run, c)
    <3> DEFINE c == [op |-> "result", attempt |-> i]
    <3>1. Enter(h, c) /\ StillTrue(run, c)
      BY ZenonT(30), <2>4 DEF BeginResult, StillTrue
    <3> QED
      BY SMTT(30), <3>1
  <2> QED
    BY SMTT(30), <2>1, <2>2, <2>3, <2>4
<1>2. run' = run
  BY ZenonT(30) DEF BeginPatch, BeginCommit, BeginStart, BeginResult
<1>3. ~overlapped /\ \A g \in Handlers : calls[g] = Idle
  BY Zenon, <1>1, NotedIsFree DEF Enter
<1>4. Tidy(run)
  BY Zenon, <1>3 DEF SequentialInv, InTurn
<1>5. calls'[h] = c /\ \A g \in Handlers \ {h} : calls'[g] = Idle
  BY Zenon, <1>1, <1>3 DEF Enter, LifecycleTypeOK
<1>6. OneCall'
  BY SMTT(30), <1>5 DEF OneCall
<1>7. \A g \in Handlers : StillTrue(run', calls'[g])
  BY ZenonT(30), <1>1, <1>2, <1>5, IdleIsTrue
<1> QED
  BY SMTT(30), <1>2, <1>4, <1>6, <1>7, InTurnNext

\* What the rest of a call that nothing came before does to a tidy Run.
LEMMA EndsTidies ==
  ASSUME LifecycleInv, InTurn, NEW h \in Handlers,
         \/ ApplyPatch(h) \/ AnswerPatch(h) \/ EndCommit(h) \/ EndStart(h)
         \/ EndResult(h) \/ Refuse(h)
  PROVE  Tidy(run')
<1>1. /\ run \in RunRecord /\ calls[h] \in Call /\ EpochsFit(run)
      /\ Tidy(run) /\ StillTrue(run, calls[h])
  BY SMTT(30) DEF LifecycleInv, LifecycleTypeOK, InTurn
<1>2. CASE ApplyPatch(h)
  <2>1. /\ calls[h].draft = run.draft /\ calls[h].from = run.state
        /\ run.state \in {"opened", "thinking", "awaiting_decision"}
        /\ run.state = "awaiting_decision" => run.outcome.decision = "repair"
    BY SMTT(30), <1>1, <1>2 DEF ApplyPatch, StillTrue
  <2>2. PICK kind \in Kinds :
          run' = Patched(run, calls[h].draft.version, calls[h].from, kind)
    BY SMTT(30), <1>2 DEF ApplyPatch
  <2>3. kind \in ProgramKinds /\ run.draft.version \in Nat
    BY SMTT(30), <1>1, ConstantsAreSound DEF RunRecord, Draft
  <2>4. run' = Patched(run, run.draft.version, run.state, kind)
    BY ZenonT(30), <2>1, <2>2
  <2> QED
    BY ZenonT(30), <1>1, <2>1, <2>3, <2>4, PatchedTidies
<1>3. CASE EndCommit(h)
  <2>1. run.state = "thinking" /\ run' = Committed(run)
    BY ZenonT(30), <1>1, <1>3 DEF EndCommit, StillTrue
  <2> QED
    BY ZenonT(30), <1>1, <2>1, CommittedTidies
<1>4. CASE EndStart(h)
  <2>1. run.state = "committed" /\ run' = Started(run)
    BY ZenonT(30), <1>1, <1>4 DEF EndStart, StillTrue
  <2> QED
    BY SMTT(30), <1>1, <2>1, StartedTidies
<1>5. CASE EndResult(h)
  <2>1. /\ run.state = "running" /\ calls[h].attempt \in DOMAIN run.attempts
        /\ Live(run.attempts[calls[h].attempt])
    BY ZenonT(30), <1>1, <1>5 DEF EndResult, StillTrue
  <2> QED
    BY ZenonT(30), <1>1, <1>5, <2>1, ResultedTidies DEF EndResult
<1>6. CASE AnswerPatch(h) \/ Refuse(h)
  BY SMTT(30), <1>1, <1>6 DEF AnswerPatch, Refuse
<1> QED
  BY SMTT(30), <1>2, <1>3, <1>4, <1>5, <1>6

\* The rest of a call ends the only one in progress, or has its receipt left
\* to write.
LEMMA EndsInTurn ==
  ASSUME LifecycleInv, SequentialInv, ~overlapped', NEW h \in Handlers,
         \/ ApplyPatch(h) \/ AnswerPatch(h) \/ EndCommit(h) \/ EndStart(h)
         \/ EndResult(h) \/ Refuse(h)
  PROVE  InTurn'
<1>1. overlapped' = overlapped
  BY Zenon DEF ApplyPatch, AnswerPatch, EndCommit, EndStart, EndResult, Refuse,
     Leave
<1>2. InTurn
  BY SMTT(30), <1>1 DEF SequentialInv
<1>3. Tidy(run')
  BY SMTT(30), <1>2, EndsTidies
<1>4. calls[h] # Idle
  BY SMTT(20) DEF ApplyPatch, AnswerPatch, EndCommit, EndStart, EndResult,
     Refuse, Idle
<1>5. \A g \in Handlers \ {h} : calls[g] = Idle
  BY SMTT(30), <1>2, <1>4 DEF InTurn, OneCall
<1>6. PICK c : /\ calls' = [calls EXCEPT ![h] = c]
               /\ c = Idle \/ \E o : c = [op |-> "answer", operation |-> o]
  BY Zenon DEF ApplyPatch, AnswerPatch, EndCommit, EndStart, EndResult, Refuse,
     Leave
<1>7. calls'[h] = c /\ \A g \in Handlers \ {h} : calls'[g] = Idle
  BY Zenon, <1>5, <1>6 DEF LifecycleInv, LifecycleTypeOK
<1>8. OneCall'
  BY SMTT(30), <1>7 DEF OneCall
<1>9. \A g \in Handlers : StillTrue(run', calls'[g])
  BY ZenonT(30), <1>6, <1>7, IdleIsTrue
<1> QED
  BY ZenonT(30), <1>3, <1>8, <1>9, InTurnNext

\* Every step keeps the invariant.
LEMMA StepInTurn ==
  ASSUME LifecycleInv, SequentialInv, [LifecycleNext]_lifecycleVars
  PROVE  SequentialInv'
<1> SUFFICES ASSUME ~overlapped'
             PROVE  InTurn'
  BY Zenon DEF SequentialInv
<1>1. LifecycleTypeOK
  BY Zenon DEF LifecycleInv
<1>2. CASE UNCHANGED lifecycleVars
  <2>1. InTurn /\ run' = run /\ calls' = calls
    BY Zenon, <1>2 DEF lifecycleVars, SequentialInv
  <2>2. OneCall'
    BY Zenon, <2>1 DEF InTurn, OneCall
  <2> QED
    BY Zenon, <2>1, <2>2, InTurnNext DEF InTurn
<1>3. ASSUME NEW h \in Handlers,
             \/ \E o \in Operations : BeginPatch(h, o)
             \/ BeginCommit(h) \/ BeginStart(h)
             \/ \E i \in 1 .. Len(run.attempts) : BeginResult(h, i)
      PROVE  InTurn'
  BY SMTT(30), <1>1, <1>3, BeginsInTurn
<1>4. ASSUME NEW h \in Handlers,
             \/ ApplyPatch(h) \/ AnswerPatch(h) \/ EndCommit(h) \/ EndStart(h)
             \/ EndResult(h) \/ Refuse(h)
      PROVE  InTurn'
  BY SMTT(30), <1>4, EndsInTurn
<1>5. ASSUME \/ BeginRefinement \/ CancelRun \/ FailRun \/ CloseRun
             \/ \E decision \in {"accept", "abandon"} : ResolveRun(decision)
             \/ \E replayable \in BOOLEAN : RecoverStaleRun(replayable)
      PROVE  InTurn'
  BY Zenon, <1>1, <1>5, AtOnceInTurn
<1> QED
  BY ZenonT(30), <1>2, <1>3, <1>4, <1>5 DEF LifecycleNext

\* A newly opened Run is tidy and no call is in progress.
LEMMA InitInTurn ==
  LifecycleInit => SequentialInv
<1> SUFFICES ASSUME LifecycleInit
             PROVE  InTurn
  BY SMTT(30) DEF SequentialInv
<1>1. run.state = "opened" /\ run.attempts = <<>>
  BY SMTT(20) DEF LifecycleInit, OpenedRun
<1>2. \A h \in Handlers : calls[h] = Idle
  BY Zenon DEF LifecycleInit
<1>3. Tidy(run)
  BY SMTT(20), <1>1 DEF Tidy, Says, Answers, NoneLive, Terminal
<1> QED
  BY Zenon, <1>1, <1>2, <1>3, IdleIsTrue DEF InTurn, OneCall

---------------------------------------------------------------------------
\* Theorems

\* As long as no call begins during another: one call is in progress at most,
\* and what it checked before its await still holds.
THEOREM CallsInTurn == LifecycleSpec => []SequentialInv
<1>1. LifecycleInit => SequentialInv
  BY Zenon, InitInTurn
<1>2. LifecycleInv /\ SequentialInv /\ [LifecycleNext]_lifecycleVars => SequentialInv'
  BY SMTT(30), StepInTurn
<1> QED
  BY <1>1, <1>2, LifecycleInvariant, PTL DEF LifecycleSpec

\* Calls that do not overlap keep the outcome true to the state: cancel,
\* fail, resolve and record_result write both, and a patch that repairs
\* clears the decision.
THEOREM OutcomesAreTrue == LifecycleSpec => []OutcomeMatchesState
<1>1. SequentialInv => OutcomeMatchesState
  BY SMTT(30) DEF SequentialInv, InTurn, Tidy, Says, OutcomeMatchesState
<1> QED
  BY <1>1, CallsInTurn, PTL

\* Calls that do not overlap leave a running direct program one attempt that
\* record_result admits, through repairs, reruns and stale-run recovery.
THEOREM RerunsAreAnswerable == LifecycleSpec => []RerunIsAnswerable
<1>1. LifecycleInv /\ SequentialInv => RerunIsAnswerable
  <2> SUFFICES ASSUME LifecycleInv, InTurn, run.state = "running",
                      run.committed.kind = "direct"
               PROVE  \E i \in DOMAIN run.attempts :
                        /\ Live(run.attempts[i]) /\ run.attempts[i].epoch = run.epoch
                        /\ \A j \in DOMAIN run.attempts : Live(run.attempts[j]) => j = i
    BY SMTT(30) DEF SequentialInv, RerunIsAnswerable, RunningIsAnswerable
  <2>1. PICK i \in DOMAIN run.attempts : Live(run.attempts[i])
    BY SMTT(30) DEF InTurn, Tidy, Answers
  <2>2. \A j \in DOMAIN run.attempts :
          Live(run.attempts[j]) => run.attempts[j].epoch = run.epoch
    BY SMTT(30) DEF InTurn, Tidy, Answers
  <2>3. \A j \in DOMAIN run.attempts : Live(run.attempts[j]) => j = i
    BY Zenon, <2>1, <2>2 DEF LifecycleInv, EpochsFit
  <2> QED
    BY Zenon, <2>1, <2>2, <2>3
<1> QED
  BY <1>1, CallsInTurn, LifecycleInvariant, PTL
=============================================================================
