---------------------------- MODULE MCReleaseGate ----------------------------
(* Small instances of ReleaseGate. *)
EXTENDS ReleaseGate

\* A threshold of one for the classes that fail closed, of two for the others.
MCThreshold == [rc \in RiskClass |-> IF rc \in FailClosed THEN 1 ELSE 2]
=============================================================================
