---------------------------- MODULE Activations ----------------------------
(***************************************************************************)
(* The activation of a capability package on a Slave, and the pure rules   *)
(* the two sides apply to it.  The Observer numbers the desired states     *)
(* (set_capability_desired) and judges the reports that come back          *)
(* (record_capability_health); the Slave judges the commands it receives   *)
(* by that number and by the idempotency key (_lifecycle_retry).           *)
(*                                                                         *)
(* A package coordinate (version_ref) is immutable: its digest is a        *)
(* constant of the coordinate.  Promotion gives a second coordinate to the *)
(* same digest, so several coordinates may share one.                      *)
(***************************************************************************)
EXTENDS Naturals

CONSTANTS
  Refs,      \* the package coordinates, one activation each
  Digests,   \* the package digests
  Digest,    \* the digest of a coordinate
  Keys       \* the idempotency keys

ASSUME DigestIsTotal == Digest \in [Refs -> Digests]

Desires == {"running", "stopped"}

ActivationStates ==
  {"not_installed", "provisioning", "ready", "degraded", "failed", "stopped",
   "lost"}

ReportStates == {"ready", "degraded", "failed", "stopped"}

NoKey == "no_key"

\* idempotency_key_required
ASSUME NoKeyIsNone == NoKey \notin Keys

\* CapabilityPackageActivation; NoActivation where the table has no entry.
NoActivation ==
  [desired |-> "none", revision |-> 0, key |-> NoKey, state |-> "none"]

Activation ==
  [desired : Desires, revision : Nat \ {0}, key : Keys,
   state : ActivationStates]

MaybeActivation == Activation \cup {NoActivation}

-----------------------------------------------------------------------------
(***************************************************************************)
(* The Observer.                                                           *)
(***************************************************************************)

\* The same key with another desired state: idempotency_key_reused.
DesireRefused(current, desired, key) ==
  current.key = key /\ current.desired # desired

\* The same key again, or the desired state the activation already has,
\* leaves the record as it is.
SetDesired(current, desired, key) ==
  IF current.key = key \/ current.desired = desired
  THEN current
  ELSE [desired |-> desired, revision |-> current.revision + 1, key |-> key,
        state |-> IF desired = "running" THEN "provisioning"
                  ELSE IF current = NoActivation THEN "stopped"
                  ELSE current.state]

\* allowed_transitions
AllowedTransitions(state) ==
  CASE state = "not_installed" -> {"ready", "failed", "stopped"}
    [] state \in {"provisioning", "ready", "degraded", "lost"} -> ReportStates
    [] state = "failed" -> {"failed", "stopped"}
    [] state = "stopped" -> {"stopped"}
    [] OTHER -> {}

\* stale_activation_revision, future_activation_revision and
\* activation_state_transition_invalid are refusals.
ReportAccepted(current, revision, state) ==
  /\ current # NoActivation
  /\ revision = current.revision
  /\ state \in AllowedTransitions(current.state)

-----------------------------------------------------------------------------
(***************************************************************************)
(* The Slave.                                                              *)
(***************************************************************************)

Established(existing) ==
  \/ existing.desired = "running" /\ existing.state = "ready"
  \/ existing.desired = "stopped" /\ existing.state = "stopped"

\* Mutant: a known key is a retry whatever its revision.
LifecycleVerdictByKey(existing, desired, revision, key) ==
  IF revision >= existing.revision /\ key = existing.key
  THEN "retry"
  ELSE IF revision > existing.revision THEN "new" ELSE "refused"

\* _lifecycle_retry: a command is new, a retry, or refused.
LifecycleVerdict(existing, desired, revision, key) ==
  IF revision > existing.revision
  THEN "new"
  ELSE IF /\ revision = existing.revision
          /\ desired = existing.desired
          /\ key = existing.key \/ Established(existing)
       THEN "retry"
       ELSE "refused"

\* Mutant: a state the contract does not know.
CommandedStopping(existing, desired, revision, key) ==
  [desired |-> desired, revision |-> revision, key |-> key,
   state |-> IF desired = "running" THEN "provisioning" ELSE "stopping"]

\* The record a command that is not refused writes before the runtime is
\* touched.
Commanded(existing, desired, revision, key) ==
  [desired |-> desired, revision |-> revision, key |-> key,
   state |-> IF desired = "running" THEN "provisioning"
             ELSE IF existing = NoActivation THEN "not_installed"
             ELSE existing.state]

=============================================================================
