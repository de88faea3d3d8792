----------------------------- MODULE AtLeastOnce -----------------------------
(***************************************************************************)
(* What the name R2dbcProjection.atLeastOnce promises of the topic,        *)
(* whatever workers, sends, failures and restarts lie below: only what has *)
(* been registered is published, and it stays published; it is settled,    *)
(* never to be looked at again, only once it is published; and it is       *)
(* published again only if the projection has been disturbed before.       *)
(* EventsProjection is shown to implement this.                            *)
(***************************************************************************)
EXTENDS Naturals

CONSTANT Movies

VARIABLES
    written,        \* written[m]: the number of events of m in the journal
    topic,          \* topic[m]: how often m is in the topic: 0, 1, or 2 for more
    settled,        \* settled[m]: the events of m that the projection has done with
    disturbed       \* something has failed, or cannot be published

vars == <<written, topic, settled, disturbed>>

Init == /\ written = [m \in Movies |-> 0]
        /\ topic = [m \in Movies |-> 0]
        /\ settled = [m \in Movies |-> 0]
        /\ disturbed = FALSE

\* The second event of a movie is one that cannot be published.
Write(m) == /\ written' = [written EXCEPT ![m] = @ + 1]
            /\ disturbed' = (disturbed \/ written[m] > 0)
            /\ UNCHANGED <<topic, settled>>

Publish(m) == /\ written[m] >= 1
              /\ topic[m] = 0 \/ disturbed
              /\ topic' = [topic EXCEPT ![m] = IF @ = 0 THEN 1 ELSE 2]
              /\ UNCHANGED <<written, settled, disturbed>>

\* Events of several movies are settled together.
Settle(M) == /\ \A m \in M : settled[m] = 0 /\ topic[m] >= 1
             /\ settled' = [m \in Movies |-> IF m \in M THEN 1 ELSE settled[m]]
             /\ UNCHANGED <<written, topic, disturbed>>

Disturb == /\ disturbed' = TRUE
           /\ UNCHANGED <<written, topic, settled>>

Next == \/ \E m \in Movies : Write(m) \/ Publish(m)
        \/ \E M \in SUBSET Movies : Settle(M)
        \/ Disturb

Spec == Init /\ [][Next]_vars
=============================================================================
