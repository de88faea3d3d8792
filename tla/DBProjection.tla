---------------------------- MODULE DBProjection ----------------------------
(***************************************************************************)
(* The projection that fills the table the queries read.  It is exactly    *)
(* once: the handler's INSERT and the offset are written in one            *)
(* transaction, and both tables have a primary key.                        *)
(***************************************************************************)
EXTENDS SliceProjection

CONSTANTS
    TableColumns,       \* the columns of the table the database has
    RequiredColumns     \* those of them that are NOT NULL

VARIABLE table          \* table[m]: the smstatus of the row of m, or "none"

vars == <<sourceVars, table>>

\* The columns that process names in its INSERT.
InsertColumns == {"movieid", "title", "releaseyear", "rating", "genre",
                  "createdby", "creationdatetime", "smstatus"}

\* Whether the database can execute the INSERT at all.
InsertFits == /\ InsertColumns \subseteq TableColumns
              /\ RequiredColumns \subseteq InsertColumns

\* The table that create_projection_tables.sql creates.
ShippedColumns == {"movieid", "title", "description", "rating", "gnere",
                   "createdby", "lastmodifiedby", "creationdatetime",
                   "lastmodifieddatetime", "smstatus"}
ShippedRequired == ShippedColumns \ {"lastmodifiedby", "lastmodifieddatetime"}

Init == SourceInit /\ table = [m \in Movies |-> "none"]

\* The primary keys admit the offset of the event and, for a registration,
\* the new row.
Admitted(e) == /\ stored[e.movie] < e.seqNr
               /\ e.kind = "Registered" => InsertFits /\ table[e.movie] = "none"

\* process(session, envelope) for event e, and the offset with it.  Any event
\* but a registration is only logged.
Transaction(e) ==
    /\ Admitted(e)
    /\ table' = IF e.kind = "Registered" THEN [table EXCEPT ![e.movie] = "NEW"] ELSE table
    /\ stored' = [stored EXCEPT ![e.movie] = e.seqNr]

\* The transaction commits, and the worker goes on.
Commit(w) ==
    /\ running[w] = "handling"
    /\ Transaction(Event(w))
    /\ seen' = [seen EXCEPT ![w][Event(w).movie] = Event(w).seqNr]
    /\ running' = [running EXCEPT ![w] = "reading"]
    /\ envelope' = [envelope EXCEPT ![w] = 0]
    /\ UNCHANGED <<log, cursor, faults>>

\* The database refuses the transaction, which leaves nothing behind.
Refused(w) ==
    /\ running[w] = "handling"
    /\ ~Admitted(Event(w))
    /\ Fail(w)
    /\ UNCHANGED <<log, stored, faults, table>>

\* Mutant: the offset is stored in a transaction of its own.
MutRollbackRowOnly(w) ==
    /\ running[w] = "handling"
    /\ Fault
    /\ Fail(w)
    /\ stored' = [stored EXCEPT ![Event(w).movie] = Event(w).seqNr]
    /\ UNCHANGED <<log, table>>

\* Mutant: the handler recovers from the failure and goes on.
MutRollbackSwallowed(w) ==
    /\ running[w] = "handling"
    /\ Fault
    /\ seen' = [seen EXCEPT ![w][Event(w).movie] = Event(w).seqNr]
    /\ running' = [running EXCEPT ![w] = "reading"]
    /\ envelope' = [envelope EXCEPT ![w] = 0]
    /\ UNCHANGED <<log, stored, cursor, table>>

\* The database fails; the transaction is rolled back.
Rollback(w) ==
    /\ running[w] = "handling"
    /\ Fault
    /\ Fail(w)
    /\ UNCHANGED <<log, stored, table>>

\* The transaction commits, but the worker is told that it failed.
CommitUnacknowledged(w) ==
    /\ running[w] = "handling"
    /\ Transaction(Event(w))
    /\ Fault
    /\ Fail(w)
    /\ UNCHANGED log

Work(w) == \/ (StartWorker(w) \/ RestartWorker(w)) /\ UNCHANGED table
           \/ \E k \in DOMAIN log : Accept(w, k) /\ UNCHANGED table
           \/ PassOver(w) /\ UNCHANGED table
           \/ Commit(w) \/ Refused(w)

Next == \/ \E m \in Movies : Write(m) /\ UNCHANGED table
        \/ \E w \in Workers :
              \/ Work(w)
              \/ Rollback(w) \/ CommitUnacknowledged(w)
              \/ StopWorker(w) /\ UNCHANGED table

\* Some worker always gets to run: ShardedDaemonProcess keeps one alive and
\* the restart backoff of a projection never gives up.
Fairness == WF_vars(\E w \in Workers : Work(w))

Spec == Init /\ [][Next]_vars
FairSpec == Spec /\ Fairness

-----------------------------------------------------------------------------
(* Properties.                                                             *)

TypeOK == SourceTypeOK /\ table \in [Movies -> {"none", "NEW"}]

\* Row and offset are written together or not at all: across failures, lost
\* acknowledgements and two workers for one range, a movie has a row exactly
\* when its registration counts as processed.
RowIffProcessed == \A m \in Movies : table[m] = "NEW" <=> stored[m] >= 1

\* No event is taken for a duplicate that has not been processed, what is
\* handled is the successor of what was seen, and no offset is stored for an
\* event that does not exist.
SeenIsProcessed ==
    \A w \in Workers, m \in Movies :
        running[w] \in {"reading", "handling"} => seen[w][m] <= stored[m]

HandledIsNext ==
    \A w \in Workers :
        running[w] = "handling" =>
            /\ envelope[w] \in DOMAIN log
            /\ log[envelope[w]].seqNr = seen[w][log[envelope[w]].movie] + 1

ProcessedIsWritten == \A m \in Movies : stored[m] <= Written(m)

NothingSkipped == SeenIsProcessed /\ HandledIsNext /\ ProcessedIsWritten

\* Together with the numbering of the log, these are inductive.
ProjectionInvariant == TypeOK /\ LogNumbered /\ NothingSkipped /\ RowIffProcessed

\* The projection keeps the promise of its name.
Promise == INSTANCE ExactlyOnce
              WITH written <- [m \in Movies |-> Written(m)], processed <- stored

ImplementsExactlyOnce == Promise!Spec

\* Every registered movie gets into the table, whatever happens meanwhile.
RegisteredAreListed ==
    \A m \in Movies : (Written(m) >= 1) ~> (table[m] = "NEW")

\* Every event is processed in the end: the registration, and the disabling.
AllAreProcessed ==
    \A m \in Movies, k \in 1 .. 2 : (Written(m) >= k) ~> (stored[m] >= k)
=============================================================================
