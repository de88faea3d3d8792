------------------------------- MODULE System -------------------------------
(***************************************************************************)
(* The whole way of a movie: nodes that start and end (ManagementApp), the *)
(* gRPC service on them, the aggregates, the journal, the projection that  *)
(* follows it, the table and getMovies, which reads the table.             *)
(*                                                                         *)
(* A node is one process.  When it goes, the entities, the projection      *)
(* worker and the calls it hosts go with it.  What the projection reads is *)
(* what the aggregates have written: log is fed by the commits of journal. *)
(***************************************************************************)
EXTENDS MovieService, TagIndex

CONSTANTS
    TableColumns, RequiredColumns       \* as in DBProjection

VARIABLES
    app,            \* the nodes whose process runs
    servedAt,       \* servedAt[r]: the node at which call r is waiting
    log, stored, running, seen, cursor, envelope, table,    \* as in DBProjection
    projectionFaults                    \* those of the faults that it meets

projectionVars == <<log, stored, running, seen, cursor, envelope, table, projectionFaults>>
nodeVars == <<app, servedAt>>
systemVars == <<allVars, projectionVars, nodeVars>>

\* The worker of the slice range that may run at each node.
Projection == INSTANCE DBProjection
                 WITH Workers <- Nodes, faults <- projectionFaults

SystemInit == /\ ServiceInit
              /\ Projection!Init
              /\ app = {}
              /\ servedAt = [r \in Requests |-> null]

-----------------------------------------------------------------------------
(* Nodes.                                                                  *)

\* main: the aggregate and the projections are started, then the gRPC server.
Main(n) == /\ n \notin app
           /\ app' = app \cup {n}
           /\ UNCHANGED <<allVars, projectionVars, servedAt>>

\* The process ends, be it that the gRPC server cannot be bound: no entity, no
\* worker and no call outlives it.  A command on its way may still arrive, or
\* be lost before (Lose).
Ends(n) ==
    /\ n \in app
    /\ app' = app \ {n}
    /\ Crash(n)
    /\ \/ Projection!StopWorker(n) /\ UNCHANGED table
       \/ running[n] = "stopped" /\ UNCHANGED projectionVars
    /\ calls' = [r \in Requests |->
                    IF servedAt[r] = n
                    THEN [calls[r] EXCEPT !.phase = "timedOut"] ELSE calls[r]]
    /\ servedAt' = [r \in Requests |-> IF servedAt[r] = n THEN null ELSE servedAt[r]]
    /\ UNCHANGED movieCounter

-----------------------------------------------------------------------------
(* Entities, the projection, and calls.                                    *)

\* Mutant: the query reads inserts before they have committed.
MutLogFollowsWrites ==
    log' = IF writes' \subseteq writes THEN log
           ELSE LET w == CHOOSE x \in writes' \ writes : TRUE
                IN  Append(log, [movie |-> w.movie, seqNr |-> w.seqNr, kind |-> w.event.kind])

\* The journal's rows in the order of their commits.
LogFollows ==
    log' = IF journal' = journal THEN log
           ELSE LET m == CHOOSE x \in Movies : journal'[x] # journal[x]
                    k == Len(journal'[m])
                IN  Append(log, [movie |-> m, seqNr |-> k, kind |-> journal'[m][k].kind])

WithLog(A) == /\ A
              /\ LogFollows
              /\ UNCHANGED <<serviceVars, nodeVars, stored, running, seen, cursor,
                             envelope, table, projectionFaults>>

\* A command reaches a node that is up; a shard moves to one.
Delivery == \E c \in inFlight : home[c.movie] \in app /\ Deliver(c)
Move(m, n) == n \in app /\ HandOff(m, n)

Mishap == \/ \E c \in inFlight : Lose(c)
          \/ \E i \in Incarnations : RecoveryFailed(i) \/ PersistTimedOut(i)
          \/ \E w \in writes : JournalRollback(w)

\* A fault of the projection is one of the system's.
Counted == /\ IF projectionFaults' = projectionFaults THEN UNCHANGED faults ELSE Fault
           /\ UNCHANGED <<journal, writes, home, entityVars, asked, inFlight, replies,
                          serviceVars, nodeVars>>

\* Without a split, a second worker of the range does not start.
ProjectionWork(n) == /\ n \in app
                     /\ SplitBrain \/ Projection!Alone(n)
                     /\ Projection!Work(n)
                     /\ Counted

ProjectionMishap(n) == /\ Projection!Rollback(n) \/ Projection!CommitUnacknowledged(n)
                       /\ Counted

\* A call is made at a node.
CallAt(n, r) == /\ n \in app
                /\ registerMovie(r) \/ disableMovie(r) \/ getMovie(r)
                /\ servedAt' = [servedAt EXCEPT ![r] = n]
                /\ UNCHANGED <<projectionVars, app>>

Over(r) == /\ servedAt' = [servedAt EXCEPT ![r] = null]
           /\ UNCHANGED <<projectionVars, app>>

Answered(r) == (handleConfirmation(r) \/ receiveSummary(r)) /\ Over(r)

TimesOut(r) == askTimeout(r) /\ Over(r)

\* The columns that mapRowToMovie reads; a row without one of them ends the
\* stream of getMovies with an exception.
RowColumns == {"movieid", "title", "releaseyear", "rating", "genre", "createdby",
               "creationdatetime", "lastmodifiedby", "disableddatetime", "smstatus"}

\* The movies in the response to a call of getMovies now; it changes nothing.
getMovies == IF RowColumns \subseteq TableColumns
             THEN {m \in Movies : table[m] # "none"} ELSE {}

SystemNext ==
    \/ \E n \in Nodes : \/ Main(n) \/ Ends(n)
                        \/ ProjectionWork(n) \/ ProjectionMishap(n)
                        \/ \E r \in Requests : CallAt(n, r)
    \/ \E r \in Requests : Answered(r) \/ TimesOut(r)
    \/ \E i \in Incarnations : WithLog(Work(i)) \/ WithLog(Passivate(i))
    \/ WithLog(DatabaseStep) \/ WithLog(Delivery) \/ WithLog(Mishap)
    \/ \E m \in Movies, n \in Nodes : WithLog(Move(m, n))

SystemSpec == SystemInit /\ [][SystemNext]_systemVars

\* Dispatchers run every actor that has something to do, the database answers,
\* a command that is not lost arrives, the coordinator moves a shard away from a
\* node that is gone, and on some node the projection works (DBProjection).
\* Nothing forces a node to be started, a call to be made, an entity to be
\* passivated or a fault to happen.
SystemFairness ==
    /\ \A i \in Incarnations : WF_systemVars(WithLog(Work(i)))
    /\ WF_systemVars(WithLog(DatabaseStep))
    /\ WF_systemVars(WithLog(Delivery))
    /\ \A m \in Movies :
          WF_systemVars(\E n \in Nodes : home[m] \notin app /\ WithLog(Move(m, n)))
    /\ WF_systemVars(\E n \in Nodes : ProjectionWork(n))

FairSystemSpec == SystemSpec /\ SystemFairness

-----------------------------------------------------------------------------
(* Properties.                                                             *)

\* Fed by the commits of the aggregates, and with workers that come and go
\* with their nodes, the projection is the one DBProjection describes: what is
\* shown there of freely written events holds of those the entities write.
ImplementsProjection == Projection!Spec

\* End to end, the table is what ExactlyOnce promises of the journal itself: of
\* the events the entities have committed, whatever becomes of the nodes, those
\* of a movie are processed one by one, in order, none twice, and its row
\* appears with the first.
Listing == INSTANCE ExactlyOnce
              WITH written <- [m \in Movies |-> Len(journal[m])], processed <- stored

TableFollowsJournal == Listing!Spec

\* As long as some node is up, a movie whose registration was confirmed gets
\* into the response of getMovies, whatever fails; and one whose registration is
\* waiting does, even if its caller is told of a timeout, unless something fails
\* (registerMovie to process to getMovies).
RegistrationIs(m, p) ==
    \E r \in Requests : calls[r].phase = p /\ calls[r].op = "Register" /\ calls[r].movie = m

RegistrationsAreListed ==
    <>[](app # {}) => \A m \in Movies :
        /\ RegistrationIs(m, "ok") ~> m \in getMovies
        /\ [](faults = 0) => (RegistrationIs(m, "waiting") ~> m \in getMovies)

\* A movie that getMovies shows is known to whoever asks its entity: the
\* read side never runs ahead of what an entity recovers.  After a fault, or in
\* a split, it may: an insert given up by an entity can commit and be listed
\* while the entity, which recovered without it, answers for an empty state.
ListedAreKnown ==
    \A m \in getMovies :
        /\ journal[m] # << >>
        /\ ~SplitBrain /\ faults = 0 =>
              \A n \in Nodes : phase[<<n, m>>] = "ready" => ~isEmpty(state[<<n, m>>])

\* Entities, workers and calls are where a process runs: none is left behind by
\* the end of a node, or set going at a node that is gone by a command, a move
\* of a shard or a backoff (MovieApp).
HostedByNodes ==
    /\ app \subseteq Nodes /\ servedAt \in [Requests -> Nodes \cup {null}]
    /\ \A i \in Incarnations : phase[i] # "stopped" \/ mailbox[i] # << >> => i[1] \in app
    /\ \A n \in Nodes : running[n] # "stopped" => n \in app
    /\ \A r \in Requests : calls[r].phase = "waiting" => servedAt[r] \in app

\* Whatever the hash code of its id, an entity that is started gets a tag
\* (the factory in MovieAggregate.init).
EntitiesHaveTags == (\E i \in Incarnations : phase[i] # "stopped") => TagsExist
=============================================================================
