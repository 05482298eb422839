-------------------------- MODULE MCIncidentStore --------------------------
(* Small instances of IncidentStore for TLC. *)
EXTENDS IncidentStore

(* Fingerprints that agree in no 32-bit prefix get names of their own. *)
OwnNames == [f \in Fingerprints |-> f]

(* How often each message comes. *)
TwoEvents == [f \in Fingerprints |-> 2]
OneIsRepeated == [f \in Fingerprints |-> IF f = "f1" THEN 2 ELSE 1]
=============================================================================
