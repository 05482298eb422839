------------------------ MODULE MCIncidentLifecycle ------------------------
(* Small instances of IncidentLifecycle for TLC. *)
EXTENDS IncidentLifecycle

OwnNames == [f \in Fingerprints |-> f]

(* The message comes, and comes again. *)
TwoEvents == [f \in Fingerprints |-> 2]
=============================================================================
