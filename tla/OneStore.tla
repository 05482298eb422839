------------------------------ MODULE OneStore ------------------------------
(***************************************************************************)
(* What the reload of the platform promises to whoever reads Incidents:    *)
(* one store at a time owns them and is the only one that writes them.  It *)
(* took over when nobody did, began with no more than what had been        *)
(* written to them, counts only lines that are there, and does not come    *)
(* back once it has been released.  Who counts for a store that is not the *)
(* owner changes nothing.  How often the owner may count a line is not     *)
(* promised here.                                                          *)
(***************************************************************************)
EXTENDS Naturals

CONSTANTS Stores, Lines, Nobody

VARIABLES
    written,  \* the lines there are
    owner,    \* the store that owns the Incidents, or Nobody
    used,     \* the stores that own them or have done so
    seen,     \* how often the owner counts each line
    saved     \* the highest count of each line an Incident was given

Nothing == [line \in Lines |-> 0]

Init ==
    /\ written = {} /\ owner = Nobody /\ used = {}
    /\ seen = Nothing /\ saved = Nothing

Write(line) ==
    /\ written' = written \union {line}
    /\ UNCHANGED <<owner, used, seen, saved>>

TakeOver(s) ==
    /\ owner = Nobody /\ s \notin used
    /\ owner' = s
    /\ used' = used \union {s}
    /\ seen' \in [Lines -> Nat] /\ \A line \in Lines : seen'[line] <= saved[line]
    /\ UNCHANGED <<written, saved>>

Release ==
    /\ owner # Nobody
    /\ owner' = Nobody
    /\ seen' = Nothing
    /\ UNCHANGED <<written, used, saved>>

Count(line) ==
    /\ owner # Nobody /\ line \in written
    /\ seen' = [seen EXCEPT ![line] = @ + 1]
    /\ UNCHANGED <<written, owner, used, saved>>

Save(line) ==
    /\ owner # Nobody /\ seen[line] > saved[line]
    /\ saved' = [saved EXCEPT ![line] = seen[line]]
    /\ UNCHANGED <<written, owner, used, seen>>

Next ==
    \/ \E line \in Lines : Write(line) \/ Count(line) \/ Save(line)
    \/ \E s \in Stores : TakeOver(s)
    \/ Release

Spec == Init /\ [][Next]_<<written, owner, used, seen, saved>>
=============================================================================
