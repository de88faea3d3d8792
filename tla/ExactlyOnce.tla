----------------------------- MODULE ExactlyOnce -----------------------------
(***************************************************************************)
(* What the name R2dbcProjection.exactlyOnce promises of the table movie,  *)
(* whatever workers, queries, failures and restarts lie below: the events  *)
(* of a movie are processed one by one, in their order, none twice, and    *)
(* the row of the movie appears in the same instant as its first event     *)
(* becomes processed.  DBProjection is shown to implement this.            *)
(***************************************************************************)
EXTENDS Naturals

CONSTANT Movies

VARIABLES
    written,        \* written[m]: the number of events of m in the journal
    processed,      \* processed[m]: how many of them have been processed
    table           \* table[m]: the smstatus of the row of m, or "none"

Init == /\ written = [m \in Movies |-> 0]
        /\ processed = [m \in Movies |-> 0]
        /\ table = [m \in Movies |-> "none"]

Write(m) == /\ written' = [written EXCEPT ![m] = @ + 1]
            /\ UNCHANGED <<processed, table>>

Process(m) ==
    /\ processed[m] < written[m]
    /\ processed' = [processed EXCEPT ![m] = @ + 1]
    /\ table' = IF processed[m] = 0 THEN [table EXCEPT ![m] = "NEW"] ELSE table
    /\ UNCHANGED written

Next == \E m \in Movies : Write(m) \/ Process(m)

Spec == Init /\ [][Next]_<<written, processed, table>>
=============================================================================
