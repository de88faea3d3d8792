----------------------------- MODULE R2dbcHandle -----------------------------
(***************************************************************************)
(* The life of a database connection under the reactive helpers of the     *)
(* query side: R2dbc.withHandle, Handle.inTransaction inside it, and the   *)
(* DAO's own Mono.usingWhen.  Each use of a connection is a chain of       *)
(* publishers.  It opens, begins, runs the caller's function, commits or   *)
(* rolls back, and closes; any of these may fail, the function may throw   *)
(* rather than return a publisher, and the subscriber may cancel at any    *)
(* moment: a client of getMovies that goes away, for one.                  *)
(*                                                                         *)
(* Reactor and the driver are libraries, modelled from how the helpers use *)
(* them: onErrorResume and concatWith hear of errors and of completion,    *)
(* never of a cancellation, and of an exception of the function only if    *)
(* it is thrown inside the chain they are attached to.                     *)
(***************************************************************************)
EXTENDS Naturals, FiniteSets

CONSTANTS
    Uses,               \* the uses of a connection
    MaxConnections,     \* how many connections the database accepts
    MaxFaults           \* bound on failures and cancellations

ASSUME BoundsAssumption == MaxConnections \in Nat \ {0} /\ MaxFaults \in Nat

VARIABLES
    kind,       \* kind[u]: the helper that u goes through
    stage,      \* stage[u]: the publisher of the chain that is subscribed to
    conn,       \* conn[u]: the connection of u, at the database
    txn,        \* txn[u]: its transaction, at the database
    error,      \* error[u]: the error on its way to the subscriber
    first,      \* first[u]: the first thing of u that failed
    outcome,    \* outcome[u]: what the subscriber has been told
    faults      \* the number of faults so far

vars == <<kind, stage, conn, txn, error, first, outcome, faults>>

\* getMovieById; getMovies and getMovieByMovieId; R2dbc.inTransaction.
Kinds  == {"usingWhen", "withHandle", "inTransaction"}
Stages == {"idle", "open", "begin", "body", "commit", "rollback", "close",
           "cleanup", "finished"}
Errors == {"none", "open", "apply", "begin", "body", "commit", "rollback", "close"}

Init == /\ kind \in [Uses -> Kinds]
        /\ stage = [u \in Uses |-> "idle"]
        /\ conn = [u \in Uses |-> "none"]
        /\ txn = [u \in Uses |-> "none"]
        /\ error = [u \in Uses |-> "none"]
        /\ first = [u \in Uses |-> "none"]
        /\ outcome = [u \in Uses |-> "none"]
        /\ faults = 0

Fault == faults < MaxFaults /\ faults' = faults + 1

\* A connection that opens after its subscriber has gone is abandoned.
Opened == {u \in Uses : conn[u] \in {"open", "abandoned"}}

To(u, s) == stage' = [stage EXCEPT ![u] = s]

\* The chain ends, and the subscriber is told o.
Finish(u, o) == To(u, "finished") /\ outcome' = [outcome EXCEPT ![u] = o]

\* Error e takes the place of whatever u was propagating.
Raise(u, e) == /\ error' = [error EXCEPT ![u] = e]
               /\ first' = [first EXCEPT ![u] = IF @ = "none" THEN e ELSE @]

-----------------------------------------------------------------------------
Subscribe(u) ==
    /\ stage[u] = "idle"
    /\ To(u, "open")
    /\ UNCHANGED <<kind, conn, txn, error, first, outcome, faults>>

\* The connection is there and the function has returned its publisher.
open(u) ==
    /\ stage[u] = "open"
    /\ Cardinality(Opened) < MaxConnections
    /\ conn' = [conn EXCEPT ![u] = "open"]
    /\ To(u, IF kind[u] = "inTransaction" THEN "begin" ELSE "body")
    /\ UNCHANGED <<kind, txn, error, first, outcome, faults>>

\* The database has no connection left, or cannot be reached.
openFails(u) ==
    /\ stage[u] = "open"
    /\ IF Cardinality(Opened) < MaxConnections THEN Fault ELSE UNCHANGED faults
    /\ Raise(u, "open")
    /\ Finish(u, "open")
    /\ UNCHANGED <<kind, conn, txn>>

\* The function throws.  With usingWhen that is an error like any other;
\* withHandle has not attached its close yet, nor inTransaction its rollback.
applyThrows(u) ==
    /\ stage[u] = "open"
    /\ Cardinality(Opened) < MaxConnections
    /\ Fault
    /\ conn' = [conn EXCEPT ![u] = "open"]
    /\ Raise(u, "apply")
    /\ IF kind[u] = "usingWhen" THEN To(u, "cleanup") /\ UNCHANGED outcome
                                ELSE Finish(u, "apply")
    /\ UNCHANGED <<kind, txn>>

beginTransaction(u) ==
    /\ stage[u] = "begin"
    /\ txn' = [txn EXCEPT ![u] = "active"]
    /\ To(u, "body")
    /\ UNCHANGED <<kind, conn, error, first, outcome, faults>>

beginFails(u) ==
    /\ stage[u] = "begin"
    /\ Fault
    /\ Raise(u, "begin")
    /\ To(u, "rollback")
    /\ UNCHANGED <<kind, conn, txn, outcome>>

\* The publisher of the function completes; concatWith goes on.
bodyCompletes(u) ==
    /\ stage[u] = "body"
    /\ To(u, IF kind[u] = "inTransaction" THEN "commit" ELSE "close")
    /\ UNCHANGED <<kind, conn, txn, error, first, outcome, faults>>

\* Mutant: the commit is attached so that it runs after an error, too.
MutBodyFailureCommits(u) ==
    /\ stage[u] = "body"
    /\ Fault
    /\ Raise(u, "body")
    /\ To(u, IF kind[u] = "inTransaction" THEN "commit" ELSE "cleanup")
    /\ UNCHANGED <<kind, conn, txn, outcome>>

\* Mutant: withHandle closes after completion only.
MutBodyFailureEnds(u) ==
    /\ stage[u] = "body"
    /\ Fault
    /\ Raise(u, "body")
    /\ IF kind[u] = "inTransaction" THEN To(u, "rollback") /\ UNCHANGED outcome
                                    ELSE Finish(u, "body")
    /\ UNCHANGED <<kind, conn, txn>>

\* Mutant: inTransaction does not roll back after an error.
MutBodyFailureCloses(u) ==
    /\ stage[u] = "body"
    /\ Fault
    /\ Raise(u, "body")
    /\ To(u, "cleanup")
    /\ UNCHANGED <<kind, conn, txn, outcome>>

\* It fails; the nearest onErrorResume takes over.
bodyFails(u) ==
    /\ stage[u] = "body"
    /\ Fault
    /\ Raise(u, "body")
    /\ To(u, IF kind[u] = "inTransaction" THEN "rollback" ELSE "cleanup")
    /\ UNCHANGED <<kind, conn, txn, outcome>>

commitTransaction(u) ==
    /\ stage[u] = "commit"
    /\ txn' = [txn EXCEPT ![u] = "committed"]
    /\ To(u, "close")
    /\ UNCHANGED <<kind, conn, error, first, outcome, faults>>

\* Mutant: the commit is attached behind the rollback, which misses its failure.
MutCommitFailureCloses(u) ==
    /\ stage[u] = "commit"
    /\ Fault
    /\ \E t \in {"active", "committed"} : txn' = [txn EXCEPT ![u] = t]
    /\ Raise(u, "commit")
    /\ To(u, "cleanup")
    /\ UNCHANGED <<kind, conn, outcome>>

\* The commit fails; whether the database has done it is not known.
commitFails(u) ==
    /\ stage[u] = "commit"
    /\ Fault
    /\ \E t \in {"active", "committed"} : txn' = [txn EXCEPT ![u] = t]
    /\ Raise(u, "commit")
    /\ To(u, "rollback")
    /\ UNCHANGED <<kind, conn, outcome>>

\* appendError(rollbackTransaction).
rollbackTransaction(u) ==
    /\ stage[u] = "rollback"
    /\ txn' = [txn EXCEPT ![u] = IF @ = "active" THEN "rolledBack" ELSE @]
    /\ To(u, "cleanup")
    /\ UNCHANGED <<kind, conn, error, first, outcome, faults>>

\* then(Mono.error(t)) is not reached: the error of the rollback goes on.
rollbackFails(u) ==
    /\ stage[u] = "rollback"
    /\ Fault
    /\ Raise(u, "rollback")
    /\ To(u, "cleanup")
    /\ UNCHANGED <<kind, conn, txn, outcome>>

\* The database ends a connection, and with it a transaction left open.
Disconnect(u) == /\ conn' = [conn EXCEPT ![u] = "closed"]
                 /\ txn' = [txn EXCEPT ![u] = IF @ = "active" THEN "rolledBack" ELSE @]

\* The close that follows completion.
close(u) ==
    /\ stage[u] = "close"
    /\ Disconnect(u)
    /\ Finish(u, "completed")
    /\ UNCHANGED <<kind, error, first, faults>>

\* It fails, with the connection closed or not.  withHandle's onErrorResume
\* is downstream of it, and closes a second time.
closeFails(u) ==
    /\ stage[u] = "close"
    /\ Fault
    /\ Disconnect(u) \/ UNCHANGED <<conn, txn>>
    /\ Raise(u, "close")
    /\ IF kind[u] = "usingWhen" THEN Finish(u, "close")
                                ELSE To(u, "cleanup") /\ UNCHANGED outcome
    /\ UNCHANGED kind

\* appendError(close): the close that follows an error.
appendError(u) ==
    /\ stage[u] = "cleanup"
    /\ Disconnect(u)
    /\ IF outcome[u] = "cancelled" THEN To(u, "finished") /\ UNCHANGED outcome
                                   ELSE Finish(u, error[u])
    /\ UNCHANGED <<kind, error, first, faults>>

\* It fails: what the subscriber is told is this failure.
appendErrorFails(u) ==
    /\ stage[u] = "cleanup"
    /\ Fault
    /\ Disconnect(u) \/ UNCHANGED <<conn, txn>>
    /\ Raise(u, "close")
    /\ IF outcome[u] = "cancelled" THEN To(u, "finished") /\ UNCHANGED outcome
                                   ELSE Finish(u, "close")
    /\ UNCHANGED kind

\* The subscriber cancels.  A request that is under way takes effect or not.
\* usingWhen closes then, too; nothing in withHandle or inTransaction does.
Cancel(u) ==
    /\ stage[u] \notin {"idle", "finished"}
    /\ outcome[u] = "none"
    /\ Fault
    /\ \/ UNCHANGED <<conn, txn>>
       \/ /\ stage[u] = "open"
          /\ Cardinality(Opened) < MaxConnections
          /\ conn' = [conn EXCEPT ![u] = "abandoned"]
          /\ UNCHANGED txn
       \/ /\ stage[u] = "begin"
          /\ txn' = [txn EXCEPT ![u] = "active"]
          /\ UNCHANGED conn
       \/ /\ stage[u] = "commit"
          /\ txn' = [txn EXCEPT ![u] = "committed"]
          /\ UNCHANGED conn
       \/ /\ stage[u] = "rollback"
          /\ txn' = [txn EXCEPT ![u] = IF @ = "active" THEN "rolledBack" ELSE @]
          /\ UNCHANGED conn
       \/ stage[u] \in {"close", "cleanup"} /\ Disconnect(u)
    /\ outcome' = [outcome EXCEPT ![u] = "cancelled"]
    /\ To(u, IF kind[u] = "usingWhen" /\ stage[u] # "open" THEN "cleanup" ELSE "finished")
    /\ UNCHANGED <<kind, error, first>>

-----------------------------------------------------------------------------
Step(u) == \/ open(u) \/ beginTransaction(u) \/ bodyCompletes(u) \/ commitTransaction(u)
           \/ rollbackTransaction(u) \/ close(u) \/ appendError(u)

Failure(u) == \/ openFails(u) \/ applyThrows(u) \/ beginFails(u) \/ bodyFails(u)
              \/ commitFails(u) \/ rollbackFails(u) \/ closeFails(u)
              \/ appendErrorFails(u)

Next == \E u \in Uses : Subscribe(u) \/ Step(u) \/ Failure(u) \/ Cancel(u)

Spec == Init /\ [][Next]_vars

-----------------------------------------------------------------------------
(* Properties.                                                             *)

TypeOK ==
    /\ kind \in [Uses -> Kinds]
    /\ stage \in [Uses -> Stages]
    /\ conn \in [Uses -> {"none", "open", "closed", "abandoned"}]
    /\ txn \in [Uses -> {"none", "active", "committed", "rolledBack"}]
    /\ error \in [Uses -> Errors]
    /\ first \in [Uses -> Errors]
    /\ outcome \in [Uses -> Errors \cup {"completed", "cancelled"}]
    /\ faults \in 0 .. MaxFaults

\* The transaction is committed if the function's publisher completes, and
\* never after it, or what came before it, has failed (Handle.inTransaction).
AllOrNothing ==
    \A u \in Uses : kind[u] = "inTransaction" =>
        /\ outcome[u] = "completed" => txn[u] = "committed"
        /\ first[u] \in {"open", "apply", "begin", "body"} => txn[u] # "committed"

\* When a use is over its connection is closed, however many things failed,
\* but for a close that failed itself and, outside usingWhen, a function
\* that threw or a subscriber that cancelled: those leave it open.  One that
\* opens only after the subscriber has gone is in nobody's hands.
ConnectionsReturn ==
    \A u \in Uses : stage[u] = "finished" /\ conn[u] = "open" =>
        \/ error[u] = "close"
        \/ kind[u] # "usingWhen" /\ outcome[u] \in {"apply", "cancelled"}

\* The helpers do not leave it to the disconnect to end a transaction: unless
\* the rollback failed, it is decided before its connection is closed.
DecidedBeforeClosed ==
    [][\A u \in Uses : conn[u] = "open" /\ conn'[u] = "closed" =>
          txn[u] # "active" \/ error[u] = "rollback"]_vars

\* What is true of a use at each publisher of its chain: the transaction is
\* active while the function runs, committed before the close that follows
\* completion, and behind an error it is open only if its rollback failed.
StageInvariant(u) ==
    /\ kind[u] # "inTransaction" =>
          txn[u] = "none" /\ stage[u] \notin {"begin", "commit", "rollback"}
    /\ stage[u] \in {"idle", "open"} =>
          conn[u] = "none" /\ txn[u] = "none"
    /\ stage[u] \in {"begin", "body", "commit", "rollback", "close"} => conn[u] = "open"
    /\ stage[u] \in {"idle", "open", "begin", "body", "commit", "close"} =>
          error[u] = "none" /\ first[u] = "none"
    /\ stage[u] \in {"rollback", "cleanup"} => error[u] # "none" \/ outcome[u] = "cancelled"
    /\ stage[u] = "begin" => txn[u] = "none"
    /\ kind[u] = "inTransaction" /\ stage[u] \in {"body", "commit"} => txn[u] = "active"
    /\ kind[u] = "inTransaction" /\ stage[u] = "close" => txn[u] = "committed"
    /\ stage[u] = "cleanup" => txn[u] # "active" \/ error[u] = "rollback"
    /\ stage[u] # "finished" =>
          \/ outcome[u] = "none"
          \/ outcome[u] = "cancelled" /\ kind[u] = "usingWhen"
    /\ conn[u] = "abandoned" => stage[u] = "finished" /\ outcome[u] = "cancelled"

\* The inductive invariant behind the properties above: the stages of
\* R2dbc.withHandle and Handle.inTransaction, each with what it relies on.
HandleInvariant == /\ TypeOK
                   /\ \A u \in Uses : StageInvariant(u)
                   /\ AllOrNothing
                   /\ ConnectionsReturn

\* What ReactiveUtils.appendError documents: the subscriber is told the error
\* that began the failure.
ErrorsPropagate ==
    \A u \in Uses :
        kind[u] # "usingWhen" /\ outcome[u] \in Errors \ {"none"} => outcome[u] = first[u]
=============================================================================
