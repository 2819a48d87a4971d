-------------------------- MODULE AgentToolsProofs --------------------------
(***************************************************************************)
(* Proofs about the tools of the coding agent, for any number of patches   *)
(* and deliveries of the message.                                          *)
(*                                                                         *)
(* Of the operations on the record only the start of an execution makes    *)
(* the Run running, and it adds the attempt.  Follows says this of all the *)
(* others: a record that runs after one of them did so before, with the    *)
(* same attempts and the same epoch.                                       *)
(***************************************************************************)
EXTENDS AgentTools, TLAPS

\* The agent works on direct programs.
Direct(x) ==
  x \in RunRecord /\ x.draft.kind = "direct" /\ x.committed.kind = "direct"

\* An execution that runs has the attempt that can report it.
Backed(x) ==
  x.state = "running" =>
    \E i \in LiveAttempts(x) : x.attempts[i].epoch = x.epoch

SameAttempts(x, y) == y.attempts = x.attempts /\ y.epoch = x.epoch

Follows(x, y) ==
  Direct(y) /\ (y.state = "running" => x.state = "running" /\ SameAttempts(x, y))

\* The Run that is opened is the one whose answer is stored.
ToolsInv ==
  /\ opened \in Nat /\ opened <= 1
  /\ opened # 0 => IsStored("open")
  /\ Direct(run)
  /\ Backed(run)

---------------------------------------------------------------------------
\* The operations on the record

\* What follows on a record that is backed is backed.
LEMMA FollowsIsBacked ==
  ASSUME NEW x, Backed(x), NEW y, Follows(x, y)
  PROVE  Direct(y) /\ Backed(y)
BY Zenon DEF Follows, SameAttempts, Backed, LiveAttempts

\* A record without changes.
LEMMA SameFollows ==
  ASSUME NEW x, Direct(x)
  PROVE  Follows(x, x)
BY Zenon DEF Follows, SameAttempts

\* The table lets only the start of an execution lead to running.
LEMMA TableRuns ==
  ASSUME NEW state, NEW event, <<state, event, "running">> \in RUN_TRANSITIONS
  PROVE  event = "execution_started"
BY Zenon DEF RUN_TRANSITIONS

\* What _transition leads to is what the table says.
LEMMA TargetInTable ==
  ASSUME NEW x, NEW event, Allows(x, event)
  PROVE  /\ TargetOf(x.state, event) \in RunStates
         /\ <<x.state, event, TargetOf(x.state, event)>> \in RUN_TRANSITIONS
<1>1. \E target \in RunStates : <<x.state, event, target>> \in RUN_TRANSITIONS
  BY Zenon DEF Allows
<1> QED
  BY Zenon, <1>1 DEF TargetOf

\* _transition changes the state and nothing else.
LEMMA TransitionFollows ==
  ASSUME NEW x, Direct(x), NEW event, event # "execution_started"
  PROVE  /\ Follows(x, Transition(x, event))
         /\ SameAttempts(x, Transition(x, event))
         /\ Allows(x, event) => Transition(x, event).state # "running"
<1>1. CASE Allows(x, event)
  <2> DEFINE t == TargetOf(x.state, event)
             y == [x EXCEPT !.state = t]
  <2>1. t \in RunStates /\ t # "running"
    BY ZenonT(30), <1>1, TargetInTable, TableRuns
  <2>2. Transition(x, event) = y
    BY Zenon, <1>1 DEF Transition
  <2> HIDE DEF t
  <2>3. Direct(y) /\ y.state = t /\ SameAttempts(x, y)
    BY Zenon, <2>1 DEF RunRecord, Direct, SameAttempts
  <2> QED
    BY Zenon, <2>1, <2>2, <2>3 DEF Follows
<1>2. CASE ~Allows(x, event)
  BY Zenon, <1>2, SameFollows DEF Transition, SameAttempts
<1> QED
  BY Zenon, <1>1, <1>2

\* The assignment of an outcome is no change of state.
LEMMA OutcomeFollows ==
  ASSUME NEW x, Direct(x), NEW outcome \in Outcome
  PROVE  /\ Direct([x EXCEPT !.outcome = outcome])
         /\ SameAttempts(x, [x EXCEPT !.outcome = outcome])
         /\ [x EXCEPT !.outcome = outcome].state = x.state
BY Zenon DEF RunRecord, Direct, SameAttempts

\* A transition that then assigns the outcome, as cancel, fail and resolve do.
LEMMA SettleFollows ==
  ASSUME NEW x, Direct(x), NEW event, event # "execution_started",
         NEW outcome \in Outcome
  PROVE  Follows(x, Settle(x, event, outcome))
<1> DEFINE y == Transition(x, event)
           z == [y EXCEPT !.outcome = outcome]
<1>1. Follows(x, y)
  BY Zenon, TransitionFollows
<1> HIDE DEF y
<1>2. Direct(z) /\ SameAttempts(y, z) /\ z.state = y.state
  BY Zenon, <1>1, OutcomeFollows DEF Follows
<1>3. Settle(x, event, outcome) \in {x, z}
  BY Zenon DEF Settle, y
<1> HIDE DEF z
<1>4. Follows(x, z)
  BY Zenon, <1>1, <1>2 DEF Follows, SameAttempts
<1> QED
  BY Zenon, <1>3, <1>4, SameFollows

\* The outcomes that the operations assign.
LEMMA OutcomesFit ==
  /\ NoOutcome \in Outcome
  /\ \A d \in Dispositions : Final(d) \in Outcome
  /\ \A d \in Decisions : Pending(d) \in Outcome
  /\ {"completed", "failed", "cancelled"} \subseteq Dispositions
  /\ {"repair", "attestation"} \subseteq Decisions
BY Zenon DEF NoOutcome, Final, Pending, Outcome, Dispositions, Decisions, Terminal

\* fail_run, cancel and resolve.
LEMMA EndsFollow ==
  ASSUME NEW x, Direct(x)
  PROVE  /\ Follows(x, Failed(x)) /\ Follows(x, Cancelled(x))
         /\ \A decision : Follows(x, Resolved(x, decision))
BY Zenon, OutcomesFit, SettleFollows DEF Failed, Cancelled, Resolved

\* apply_patch: a new draft of the same kind.
LEMMA PatchFollows ==
  ASSUME NEW x, Direct(x), NEW base \in Nat, NEW from
  PROVE  Follows(x, Patched(x, base, from, "direct"))
<1> DEFINE d == [version |-> x.draft.version + 1, base |-> base, kind |-> "direct"]
           y == [x EXCEPT !.draft = d]
<1>1. d \in Draft
  BY DEF Draft, Direct, RunRecord, ProgramKinds
<1>2. Direct(y) /\ SameAttempts(x, y) /\ y.state = x.state
  BY Zenon, <1>1 DEF RunRecord, Direct, SameAttempts
<1> HIDE DEF d
<1>3. Patched(x, base, from, "direct") \in
        {y, Transition(y, "refinement_started"),
         Settle(y, "refinement_started", NoOutcome)}
  BY Zenon DEF Patched, d
<1> HIDE DEF y
<1>4. Follows(y, Patched(x, base, from, "direct"))
  BY Zenon, <1>2, <1>3, SameFollows, TransitionFollows, SettleFollows, OutcomesFit
<1> QED
  BY Zenon, <1>2, <1>4 DEF Follows, SameAttempts

\* commit: the closure has the kind of the draft.
LEMMA CommitFollows ==
  ASSUME NEW x, Direct(x)
  PROVE  Follows(x, Committed(x))
<1> DEFINE c == [version |-> x.committed.version + 1,
                 draft |-> x.draft.version, kind |-> x.draft.kind]
           y == [x EXCEPT !.committed = c]
<1>1. c \in Closure /\ c.kind = "direct"
  BY DEF Closure, Draft, Direct, RunRecord
<1>2. Committed(x) = Transition(y, "committed")
  BY Zenon DEF Committed
<1> HIDE DEF c
<1>3. Direct(y) /\ SameAttempts(x, y) /\ y.state = x.state
  BY Zenon, <1>1 DEF RunRecord, Direct, SameAttempts
<1> HIDE DEF y
<1>4. Follows(y, Committed(x))
  BY Zenon, <1>2, <1>3, TransitionFollows
<1> QED
  BY Zenon, <1>3, <1>4 DEF Follows, SameAttempts

\* start: the execution of a committed Run gets its epoch first and then the
\* attempt of that epoch.
LEMMA StartIsBacked ==
  ASSUME NEW x, Direct(x), x.state = "committed"
  PROVE  Direct(Started(x)) /\ Backed(Started(x))
<1> DEFINE y == NewExecution(x)
           z == Transition(y, "execution_started")
           a == [node |-> 0, epoch |-> z.epoch, state |-> "created",
                 worker |-> 0, instance |-> 0, heir |-> 0]
           w == AddAttempt(z, 0, 0, 0)
<1>1. Direct(y) /\ y.state = "committed"
  <2> DEFINE e == IF x.execution = 0 THEN 1 ELSE x.epoch + 1
  <2>1. x.execution + 1 \in Nat /\ e \in Nat
    BY DEF RunRecord, Direct
  <2>2. y = [x EXCEPT !.execution = x.execution + 1, !.epoch = e,
                      !.outcome = NoOutcome]
    BY Zenon DEF NewExecution
  <2> HIDE DEF e, y
  <2> QED
    BY ZenonT(30), <2>1, <2>2, OutcomesFit DEF RunRecord, Direct
<1> HIDE DEF y
<1>2. Allows(y, "execution_started")
  <2>1. /\ "running" \in RunStates
        /\ <<"committed", "execution_started", "running">> \in RUN_TRANSITIONS
    BY Zenon DEF RunStates, RUN_TRANSITIONS
  <2> QED
    BY Zenon, <1>1, <2>1 DEF Allows
<1>3. Direct(z)
  <2> DEFINE t == TargetOf(y.state, "execution_started")
  <2>1. t \in RunStates
    BY ZenonT(30), <1>2, TargetInTable
  <2>2. z = [y EXCEPT !.state = t]
    BY Zenon, <1>2 DEF Transition
  <2> HIDE DEF t, z
  <2> QED
    BY Zenon, <1>1, <2>1, <2>2 DEF RunRecord, Direct
<1>4. Started(x) = w
  BY Zenon, <1>2, <1>3 DEF Started, Direct, y, z
<1> HIDE DEF z
<1>5. a \in Attempt
  BY Zenon, <1>3 DEF Attempt, AttemptStates, Direct, RunRecord
<1>6. w = [z EXCEPT !.attempts = Append(z.attempts, a)]
  BY Zenon DEF AddAttempt
<1>7. /\ Append(z.attempts, a) \in Seq(Attempt)
      /\ Len(z.attempts) + 1 \in DOMAIN Append(z.attempts, a)
      /\ Append(z.attempts, a)[Len(z.attempts) + 1] = a
  BY <1>3, <1>5 DEF Direct, RunRecord
<1>8. a.state = "created" /\ a.epoch = z.epoch
  BY Zenon
<1> HIDE DEF a, w
<1>9. Direct(w) /\ w.attempts = Append(z.attempts, a) /\ w.epoch = z.epoch
  BY ZenonT(30), <1>3, <1>6, <1>7 DEF Direct, RunRecord
<1> QED
  BY Zenon, <1>4, <1>7, <1>8, <1>9 DEF Backed, LiveAttempts, Live

\* record_result: an execution that is reported no longer runs.
LEMMA ResultFollows ==
  ASSUME NEW x, Direct(x), NEW i \in LiveAttempts(x),
         NEW terminal \in {"completed", "failed", "decision_required"}
  PROVE  Direct(Resulted(x, i, terminal)) /\ Backed(Resulted(x, i, terminal))
<1> DEFINE y == SetAttempt(x, i, terminal)
           Event == {"run_succeeded", "run_needs_decision"}
           Told(o) == [y EXCEPT !.outcome = o]
<1>1. Direct(y)
  <2>1. i \in DOMAIN x.attempts /\ terminal \in AttemptStates
    BY Zenon DEF LiveAttempts, AttemptStates
  <2>2. x.attempts \in Seq(Attempt) /\ x.attempts[i] \in Attempt
    BY <2>1 DEF Direct, RunRecord
  <2>3. [x.attempts[i] EXCEPT !.state = terminal] \in Attempt
    BY ZenonT(30), <2>1, <2>2 DEF Attempt
  <2>4. [x.attempts EXCEPT ![i] = [x.attempts[i] EXCEPT !.state = terminal]]
          \in Seq(Attempt)
    BY <2>1, <2>2, <2>3
  <2>5. y = [x EXCEPT !.attempts =
               [x.attempts EXCEPT ![i] = [x.attempts[i] EXCEPT !.state = terminal]]]
    BY Zenon DEF SetAttempt, Direct, RunRecord
  <2> QED
    BY ZenonT(30), <2>4, <2>5 DEF Direct, RunRecord
<1>2. \E o \in Outcome, event \in Event :
        Resulted(x, i, terminal) = Transition(Told(o), event)
  BY Zenon, OutcomesFit DEF Resulted, Report
<1> HIDE DEF y
<1>3. PICK o \in Outcome, event \in Event :
        Resulted(x, i, terminal) = Transition(Told(o), event)
  BY Zenon, <1>2
<1> DEFINE z == Told(o)
<1>4. Direct(z)
  BY Zenon, <1>1, OutcomeFollows
<1> HIDE DEF z
<1>5. Follows(z, Transition(z, event))
      /\ (Allows(z, event) => Transition(z, event).state # "running")
  BY Zenon, <1>4, TransitionFollows
<1>6. z.state = "running" => Allows(z, event)
  <2>1. /\ {"completed", "awaiting_decision"} \subseteq RunStates
        /\ <<"running", "run_succeeded", "completed">> \in RUN_TRANSITIONS
        /\ <<"running", "run_needs_decision", "awaiting_decision">>
              \in RUN_TRANSITIONS
    BY Zenon DEF RunStates, RUN_TRANSITIONS
  <2> QED
    BY Zenon, <2>1 DEF Allows
<1>7. Transition(z, event).state # "running"
  BY Zenon, <1>5, <1>6 DEF Follows
<1> QED
  BY Zenon, <1>3, <1>5, <1>7 DEF z, Follows, Backed

---------------------------------------------------------------------------
\* The steps

\* A command: what it answers was answered before, or its result follows.
LEMMA CommandIsBacked ==
  ASSUME ToolsInv, NEW command, NEW mayRun, NEW result, NEW version,
         mayRun => Direct(result) /\ Backed(result),
         Command(command, mayRun, result, version)
  PROVE  Direct(run') /\ Backed(run') /\ stored \subseteq stored'
BY Zenon DEF Command, Repeat, Execute, Raise, ToolsInv

\* A stored answer stays stored.
LEMMA StoredStays ==
  ASSUME stored \subseteq stored', NEW command, IsStored(command)
  PROVE  IsStored(command)'
BY Zenon DEF IsStored

\* loom_open_run opens a Run once.
LEMMA OpenKeeps ==
  ASSUME ToolsInv, OpenRun
  PROVE  ToolsInv'
<1>1. Direct(OpenedRun("direct")) /\ Backed(OpenedRun("direct"))
  <2>1. <<>> \in Seq(Attempt)
    OBVIOUS
  <2> QED
    BY Zenon, <2>1, OutcomesFit
    DEF OpenedRun, Direct, Backed, RunRecord, RunStates, Draft, Closure, ProgramKinds
<1>2. CASE Repeat("open") /\ UNCHANGED opened
  BY Zenon, <1>2 DEF Repeat, ToolsInv, IsStored
<1>3. CASE Execute("open", TRUE, OpenedRun("direct"), 0) /\ opened' = opened + 1
  <2>1. opened = 0 /\ run' = OpenedRun("direct")
    BY Zenon, <1>3 DEF Execute, ToolsInv
  <2>2. Answer("open", 0) \in stored' /\ Answer("open", 0).tool = "open"
    BY Zenon, <1>3 DEF Execute, Answer
  <2>3. IsStored("open")'
    BY Zenon, <2>2 DEF IsStored
  <2> QED
    BY <1>1, <1>3, <2>1, <2>3 DEF ToolsInv
<1> QED
  BY ZenonT(30), <1>2, <1>3 DEF OpenRun

\* Every other step leaves the number of Runs alone.
LEMMA OthersKeep ==
  ASSUME ToolsInv, UNCHANGED opened, stored \subseteq stored',
         Direct(run'), Backed(run')
  PROVE  ToolsInv'
BY Zenon, StoredStays DEF ToolsInv

\* Every tool keeps the invariant, as do the end of the turn and a crash.
LEMMA ToolsStep ==
  ASSUME ToolsInv, [ToolsNext]_toolVars
  PROVE  ToolsInv'
<1>0. Direct(run) /\ Backed(run)
  BY Zenon DEF ToolsInv
<1>f. \A y : Follows(run, y) => Direct(y) /\ Backed(y)
  BY Zenon, <1>0, FollowsIsBacked
<1>1. CASE OpenRun
  BY Zenon, <1>1, OpenKeeps
<1>2. CASE BeginRefinement
  <2> DEFINE y == Transition(run, "refinement_started")
  <2>1. Direct(y) /\ Backed(y)
    BY Zenon, <1>0, <1>f, TransitionFollows
  <2>2. Command("begin", TRUE, y, 0) /\ UNCHANGED opened
    BY ZenonT(30), <1>2 DEF BeginRefinement
  <2> HIDE DEF y
  <2> QED
    BY ZenonT(30), <2>1, <2>2, CommandIsBacked, OthersKeep
<1>3. CASE ApplyPlanPatch
  <2>1. run.draft.version \in Nat
    BY Zenon, <1>0 DEF Direct, RunRecord, Draft
  <2>2. Direct(run') /\ Backed(run')
    BY Zenon, <1>0, <1>3, <1>f, <2>1, PatchFollows DEF ApplyPlanPatch
  <2> QED
    BY Zenon, <1>3, <2>2, OthersKeep DEF ApplyPlanPatch
<1>4. CASE CommitPlan
  <2>1. Direct(Committed(run)) /\ Backed(Committed(run))
    BY Zenon, <1>0, <1>f, CommitFollows
  <2>2. Direct(run') /\ Backed(run') /\ stored \subseteq stored'
    BY Zenon, <1>4, <2>1, CommandIsBacked DEF CommitPlan
  <2> QED
    BY Zenon, <1>4, <2>2, OthersKeep DEF CommitPlan
<1>5. CASE StartRun
  <2> DEFINE y == IF run.state = "running" THEN run ELSE Started(run)
  <2>1. run.state \in {"running", "committed"} => Direct(y) /\ Backed(y)
    BY Zenon, <1>0, StartIsBacked
  <2> HIDE DEF y
  <2>2. PICK ready \in BOOLEAN :
          Command("start", run.state = "running" \/ (run.state = "committed" /\ ready),
                  y, run.committed.version)
    BY Zenon, <1>5 DEF StartRun, y
  <2>3. Direct(run') /\ Backed(run') /\ stored \subseteq stored'
    BY ZenonT(30), <2>1, <2>2, CommandIsBacked
  <2> QED
    BY Zenon, <1>5, <2>3, OthersKeep DEF StartRun
<1>6. CASE ReportResult
  <2>1. Direct(run') /\ Backed(run')
    BY <1>0, <1>6, <1>f, ResultFollows, EndsFollow DEF ReportResult
  <2> QED
    BY Zenon, <1>6, <2>1, OthersKeep DEF ReportResult
<1>7. ASSUME NEW decision \in {"accept", "abandon"}, ResolveRun(decision)
      PROVE  ToolsInv'
  <2> DEFINE y == Resolved(run, decision)
  <2>1. Direct(y) /\ Backed(y)
    BY Zenon, <1>0, <1>f, EndsFollow
  <2> HIDE DEF y
  <2>2. Direct(run') /\ Backed(run') /\ stored \subseteq stored'
    BY ZenonT(30), <1>7, <2>1, CommandIsBacked DEF ResolveRun, y
  <2> QED
    BY Zenon, <1>7, <2>2, OthersKeep DEF ResolveRun
<1>8. CASE CloseRun
  <2>1. Direct(run') /\ Backed(run')
    BY Zenon, <1>0, <1>8, <1>f, TransitionFollows DEF CloseRun
  <2> QED
    BY Zenon, <1>8, <2>1, OthersKeep DEF CloseRun
<1>9. CASE EndTurn
  <2>1. Direct(run') /\ Backed(run')
    BY Zenon, <1>0, <1>9, <1>f, EndsFollow DEF EndTurn
  <2> QED
    BY Zenon, <1>9, <2>1, OthersKeep DEF EndTurn
<1>10. CASE Redeliver \/ UNCHANGED toolVars
  BY Zenon, <1>0, <1>10, OthersKeep DEF Redeliver, toolVars
<1> QED
  BY Zenon, <1>1, <1>2, <1>3, <1>4, <1>5, <1>6, <1>7, <1>8, <1>9, <1>10
     DEF ToolsNext

\* The tools start detached, with no Run opened.
LEMMA ToolsStart == ToolsInit => ToolsInv
<1>1. <<>> \in Seq(Attempt)
  OBVIOUS
<1> QED
  BY <1>1, OutcomesFit
  DEF ToolsInit, ToolsInv, IsStored, OpenedRun, Direct, Backed, RunRecord, RunStates,
      Draft, Closure, ProgramKinds

\* Whatever the agent calls, repeats and loses the answer of, the Run of the
\* message is the stored one, and it is backed while it runs.
THEOREM ToolsInvariant == ToolsSpec => []ToolsInv
<1>1. ToolsInv /\ [ToolsNext]_toolVars => ToolsInv'
  BY Zenon, ToolsStep
<1> QED
  BY <1>1, ToolsStart, PTL DEF ToolsSpec

\* A message opens one Run however often it is delivered: the second run.open
\* has the request_id of the first and gets its stored answer.
THEOREM MessagesHaveOneRun == ToolsSpec => []OneRunPerMessage
<1>1. ToolsInv => OneRunPerMessage
  BY Zenon DEF ToolsInv, OneRunPerMessage
<1> QED
  BY <1>1, ToolsInvariant, PTL

\* A start that is repeated supersedes no execution: a Run that runs has a
\* live attempt of its current epoch, which record_result accepts.
THEOREM RunningIsReported == ToolsSpec => []RunningKeepsItsAttempt
<1>1. ToolsInv => RunningKeepsItsAttempt
  BY Zenon DEF ToolsInv, Backed, RunningKeepsItsAttempt
<1> QED
  BY <1>1, ToolsInvariant, PTL
=============================================================================
