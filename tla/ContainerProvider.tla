------------------------- MODULE ContainerProvider -------------------------
(***************************************************************************)
(* The operations of the container runtime plugin                          *)
(* (DockerContainerHTTPRuntimeV1), each as the sequence of docker commands *)
(* and health probes it awaits.  An operation in progress is a record; one *)
(* step of it reads and changes the container of its digest.  The name and *)
(* the labels of a container depend on the digest only, so coordinates     *)
(* with the same digest work on the same container.                        *)
(***************************************************************************)
EXTENDS Activations, Sequences

CONSTANTS
  Attempts,     \* the attempts that are dispatched to the Slave
  NoAttempt

ASSUME NoAttemptIsNone == NoAttempt \notin Attempts

\* "sick": running and not answering the health path.
ContainerStates == {"absent", "created", "running", "sick"}

Entry == [ref : Refs, desired : Desires]

\* doing is the operation of the current entry; for the plain operations it
\* is kind itself and list is empty.  attempt is what an invoke works on, and
\* value which execution of it gave the answer.
Op ==
  [kind : {"provision", "deprovision", "inspect", "invoke", "reconcile"},
   doing : {"provision", "deprovision", "inspect", "invoke"},
   ref : Refs, attempt : Attempts \cup {NoAttempt},
   stage : {"look", "create", "launch", "start", "await", "probe", "remove",
            "work", "answered"},
   list : Seq(Entry),
   found : [Refs -> ReportStates \cup {"none"}],
   answer : ReportStates \cup {"none", "value", "error"}, value : Nat]

NoOp == [kind |-> "none", stage |-> "none"]

NewOp(kind, ref, attempt) ==
  [kind |-> kind, doing |-> kind, ref |-> ref, attempt |-> attempt,
   stage |-> "look", list |-> <<>>, found |-> [r \in Refs |-> "none"],
   answer |-> "none", value |-> 0]

Live(op) == op.stage \notin {"none", "answered"}

\* The first operation of an entry: a stopped one is removed, a running one
\* is inspected.
EntryDoing(entry) ==
  IF entry.desired = "stopped" THEN "deprovision" ELSE "inspect"

NewReconcile(list) ==
  [NewOp("reconcile", Head(list).ref, NoAttempt)
     EXCEPT !.doing = EntryDoing(Head(list)), !.list = list]

\* Mutant: an activation that should run and was inspected counts as ready.
ConcludeTrusting(op, answer) ==
  IF op.kind # "reconcile"
  THEN [op EXCEPT !.stage = "answered", !.answer = answer]
  ELSE LET rest == Tail(op.list)
           done == [op EXCEPT !.list = rest,
                      !.found[op.ref] = IF op.doing = "inspect" THEN "ready"
                                        ELSE answer]
       IN  IF rest = <<>>
           THEN [done EXCEPT !.stage = "answered"]
           ELSE [done EXCEPT !.stage = "look", !.ref = Head(rest).ref,
                             !.doing = EntryDoing(Head(rest))]

\* The operation of op ends with answer.  reconcile goes on: an activation
\* that should run and is not healthy is provisioned, an error makes the
\* entry failed, and the next entry of the list is taken.
Conclude(op, answer) ==
  IF op.kind # "reconcile"
  THEN [op EXCEPT !.stage = "answered", !.answer = answer]
  ELSE IF op.doing = "inspect" /\ answer \notin {"ready", "error"}
  THEN [op EXCEPT !.doing = "provision", !.stage = "look"]
  ELSE LET rest == Tail(op.list)
           done == [op EXCEPT !.list = rest,
                      !.found[op.ref] = IF answer = "error" THEN "failed"
                                        ELSE answer]
       IN  IF rest = <<>>
           THEN [done EXCEPT !.stage = "answered"]
           ELSE [done EXCEPT !.stage = "look", !.ref = Head(rest).ref,
                             !.doing = EntryDoing(Head(rest))]

-----------------------------------------------------------------------------

\* docker inspect
Look(op, container) ==
  LET up == container \in {"running", "sick"} IN
  CASE op.doing = "provision" ->
         [op EXCEPT !.stage = IF container = "absent" THEN "create"
                              ELSE IF up THEN "await" ELSE "start"]
    [] op.doing = "deprovision" ->
         IF container = "absent" THEN Conclude(op, "stopped")
         ELSE [op EXCEPT !.stage = "remove"]
    [] op.doing = "inspect" ->
         IF up THEN [op EXCEPT !.stage = "probe"] ELSE Conclude(op, "failed")
    [] op.doing = "invoke" ->
         IF up THEN [op EXCEPT !.stage = "work"] ELSE Conclude(op, "error")

\* One docker command or probe of op, with the container as it finds it and
\* as it leaves it.  docker create fails when the name is taken, docker start
\* when there is no such container; docker rm of an absent container passes.
OpStep(op, container) ==
  CASE op.stage = "look" ->
         [op |-> Look(op, container), container |-> container]
    [] op.stage = "create" ->
         IF container = "absent"
         THEN [op |-> [op EXCEPT !.stage = "launch"], container |-> "created"]
         ELSE [op |-> Conclude(op, "error"), container |-> container]
    [] op.stage \in {"launch", "start"} ->
         IF container = "absent"
         THEN [op |-> Conclude(op, "error"), container |-> container]
         ELSE [op |-> [op EXCEPT !.stage = "await"],
               container |-> IF container = "created" THEN "running"
                             ELSE container]
    [] op.stage = "await" ->
         [op |-> Conclude(op, IF container = "running" THEN "ready"
                              ELSE "failed"),
          container |-> container]
    [] op.stage = "probe" ->
         [op |-> Conclude(op, IF container = "running" THEN "ready"
                              ELSE "degraded"),
          container |-> container]
    [] op.stage = "remove" ->
         [op |-> Conclude(op, "stopped"), container |-> "absent"]
    [] op.stage = "work" ->
         [op |-> Conclude(op, IF container = "running" THEN "value"
                              ELSE "error"),
          container |-> container]

\* The request of an invoke reaches a service that answers.
Works(op, container) == op.stage = "work" /\ container = "running"

\* What may come of a docker command of op that fails.  It raises, when it
\* takes too long, whether or not docker has carried it out; or docker returns
\* an error.  An inspect that returns an error counts as no container, and a
\* container that was just created and does not start is removed.
OpFailures(op, container) ==
  {[op |-> Conclude(op, "error"), container |-> c] :
     c \in {container, OpStep(op, container).container}}
  \cup
  (IF op.stage = "look"
   THEN {[op |-> Look(op, "absent"), container |-> container]} ELSE {})
  \cup
  (IF op.stage = "launch"
   THEN {[op |-> Conclude(op, "error"), container |-> "absent"]} ELSE {})

\* The stages that are docker commands; the others are HTTP requests.
DockerCommand(op) ==
  op.stage \in {"look", "create", "launch", "start", "remove"}

=============================================================================
