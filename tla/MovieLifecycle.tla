--------------------------- MODULE MovieLifecycle ---------------------------
(***************************************************************************)
(* What the command side promises about a movie, whatever nodes, journal   *)
(* writes and crashes lie below: a movie that does not exist is registered *)
(* at most once, and a registered movie is disabled at most once.  The     *)
(* Aggregate module is shown to implement this specification.              *)
(***************************************************************************)

CONSTANT Movies          \* the movie identifiers

VARIABLE status          \* status[m]: the smStatus of movie m

\* The three values of smStatus that the event handler ever produces
\* (a fourth, "CHANGED", is tested by isChanged and never assigned).
Status == {"EMPTY", "NEW", "DISABLED"}

TypeOK == status \in [Movies -> Status]

Init == status = [m \in Movies |-> "EMPTY"]

\* RegisterMovie is only accepted in the state isEmpty.
Register(m) == /\ status[m] = "EMPTY"
               /\ status' = [status EXCEPT ![m] = "NEW"]

\* DisableMovie is only accepted in the state isNew.
Disable(m) == /\ status[m] = "NEW"
              /\ status' = [status EXCEPT ![m] = "DISABLED"]

Next == \E m \in Movies : Register(m) \/ Disable(m)

Spec == Init /\ [][Next]_status
=============================================================================
