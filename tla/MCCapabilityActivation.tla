----------------------- MODULE MCCapabilityActivation -----------------------
(* A small instance of CapabilityActivation for TLC. *)
EXTENDS CapabilityActivation

CONSTANTS r1, d1

OneDigest == [r \in Refs |-> d1]

NoPackage == [a \in Attempts |-> r1]

AllCount == [kind \in FaultKinds |-> 1]

Start(key, by_run) ==
  [kind |-> "provision", ref |-> r1, key |-> key, by_run |-> by_run]

Stop(key) ==
  [kind |-> "deprovision", ref |-> r1, key |-> key, by_run |-> FALSE]

\* A user activates and deactivates the package; either may be repeated.
OnOff == {Start("on", FALSE), Stop("off")}

\* The user activates it under another key, or a Run activates it.
Another == {Start("again", FALSE), Start("run", TRUE)}

OnOffOn == OnOff \cup Another
=============================================================================
