----------------------------- MODULE OneStream -----------------------------
(***************************************************************************)
(* What logwatcher.Watcher promises about the goroutines behind its map:   *)
(* a container is served by no stream or by exactly one.  Starting a       *)
(* container that is served is a no-op (a stuttering step here).           *)
(***************************************************************************)
CONSTANTS Keys, Routines

VARIABLE streams    \* the goroutines that stream each container

Init == streams = [k \in Keys |-> {}]

Begin(k, r) ==
    /\ streams[k] = {}
    /\ \A other \in Keys : r \notin streams[other]
    /\ streams' = [streams EXCEPT ![k] = {r}]

End(k) ==
    /\ streams[k] # {}
    /\ streams' = [streams EXCEPT ![k] = {}]

Next == \E k \in Keys : End(k) \/ \E r \in Routines : Begin(k, r)

Spec == Init /\ [][Next]_streams
=============================================================================
