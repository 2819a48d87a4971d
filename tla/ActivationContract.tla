------------------------- MODULE ActivationContract -------------------------
(***************************************************************************)
(* What the Observer and a Slave promise each other about activations,     *)
(* without the Driver, the commands, the plugin or the database: the       *)
(* Observer numbers the desired states; the Slave follows, behind but      *)
(* never ahead, and may fall back when it crashes; what the Observer shows *)
(* at a number is what the Slave had at that number, and a failed or       *)
(* stopped activation is revived by a new number only.                     *)
(*                                                                         *)
(* That the Slave is never ahead is promised for the coordinates in Own.   *)
(***************************************************************************)
EXTENDS Activations

CONSTANTS
  Own       \* the coordinates that share no command id with another one

VARIABLES
  shown,    \* the Observer's activation of each coordinate
  actual,   \* the Slave's activation of each coordinate
  mail      \* the reports on their way

contractVars == <<shown, actual, mail>>

Mail == [ref : Refs, revision : Nat \ {0}, state : ReportStates]

ContractInit ==
  /\ shown = [r \in Refs |-> NoActivation]
  /\ actual = [r \in Refs |-> NoActivation]
  /\ mail = {}

\* The Observer assigns the next number.
Assign(r) ==
  /\ \E d \in Desires, k \in Keys :
       shown' = [shown EXCEPT ![r] = SetDesired(shown[r], d, k)]
  /\ UNCHANGED <<actual, mail>>

\* No later than the Observer, and for the same desired state when level.
Behind(a, s) ==
  /\ a.revision <= s.revision
  /\ a.revision = s.revision => a.desired = s.desired

\* The Slave moves, of its own or by a crash, and may send what it has then;
\* reports may get lost.  With a command id in common, it may be given the
\* number of another coordinate.
Move ==
  /\ actual' \in [Refs -> MaybeActivation]
  /\ \A r \in Refs \cap Own : Behind(actual'[r], shown[r])
  /\ mail' \subseteq mail \cup
       {[ref |-> r, revision |-> actual'[r].revision,
         state |-> actual'[r].state] : r \in Refs}
  /\ mail' \subseteq Mail
  /\ UNCHANGED shown

\* The Observer takes a report.
Project(m) ==
  /\ m \in mail
  /\ ReportAccepted(shown[m.ref], m.revision, m.state)
  /\ shown' = [shown EXCEPT ![m.ref].state = m.state]
  /\ mail' \in {mail, mail \ {m}}
  /\ UNCHANGED actual

ContractNext ==
  \/ \E r \in Refs : Assign(r)
  \/ Move
  \/ \E m \in mail : Project(m)

ContractSpec == ContractInit /\ [][ContractNext]_contractVars

\* Of a coordinate that shares no command id, the Slave and the reports on their
\* way are no later than the Observer, and the Slave has the Observer's desired
\* state when it is level with it.
SlaveFollows ==
  /\ shown \in [Refs -> MaybeActivation]
  /\ actual \in [Refs -> MaybeActivation]
  /\ mail \subseteq Mail
  /\ \A r \in Refs \cap Own : Behind(actual[r], shown[r])
  /\ \A m \in mail : m.ref \in Own => m.revision <= shown[m.ref].revision

\* The number of any coordinate never falls, its desired state changes with the
\* number only, and a failed or stopped activation comes back with a new number
\* only.
RevivedByNumber ==
  [][\A r \in Refs :
       /\ shown[r].revision <= shown'[r].revision
       /\ shown'[r].revision = shown[r].revision =>
            /\ shown'[r].desired = shown[r].desired
            /\ shown[r].state = "stopped" => shown'[r].state = "stopped"
            /\ shown[r].state = "failed" => shown'[r].state \in {"failed", "stopped"}
     ]_contractVars
=============================================================================
