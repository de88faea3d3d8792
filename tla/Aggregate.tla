------------------------------ MODULE Aggregate ------------------------------
(***************************************************************************)
(* The movie aggregate: an event sourced entity that Akka Cluster Sharding *)
(* runs at one node at a time, or, while the cluster is split, at several. *)
(*                                                                         *)
(* An incarnation is the actor of one movie at one node.  It rebuilds its  *)
(* state from the journal, handles the commands of its mailbox one at a    *)
(* time, and persists at most one event per command.  A write travels to   *)
(* the database on its own: the actor may be told that it failed, or may   *)
(* crash, while the write is still under way and commits later.  The       *)
(* primary key (persistence_id, seq_nr) of the journal is the only thing   *)
(* that keeps two incarnations of one movie apart.                         *)
(*                                                                         *)
(* Sharding, the mailbox, the replay and the journal plugin are libraries; *)
(* they are modelled from how the aggregate uses them.                     *)
(***************************************************************************)
EXTENDS Naturals, Sequences

CONSTANTS
    Movies,         \* movie identifiers: the entity ids of the sharded entities
    Nodes,          \* the nodes of the cluster
    Requests,       \* one per ask: it stands for the replyTo of a command, and
                    \* for the data (title, rating, createdBy...) sent with it
    null,           \* Java's null
    SplitBrain,     \* TRUE: a movie may be started at a node while an
                    \* incarnation of it still runs at another
    MaxFaults       \* bound on crashes, lost messages and spurious failures

ASSUME ConstantsAssumption ==
    /\ null \notin Movies
    /\ null \notin Requests
    /\ SplitBrain \in BOOLEAN
    /\ MaxFaults \in Nat

VARIABLES
    journal,        \* journal[m]: the events of m, in the order of seq_nr
    writes,         \* inserts sent to the database and not yet decided there
    home,           \* home[m]: the node the shard of m is allocated to
    phase,          \* phase[i]: what incarnation i is doing
    target,         \* target[i]: the highest seq_nr when the replay of i began
    seqNr,          \* seqNr[i]: the number of events i has applied
    state,          \* state[i]: the state those events have led to
    current,        \* current[i]: the command whose event i is persisting
    mailbox,        \* mailbox[i]: the commands waiting for i, stash included
    asked,          \* every command ever sent to an entity
    inFlight,       \* the commands of asked that no mailbox has received yet
    replies,        \* every reply ever sent
    faults          \* the number of faults so far

entityVars == <<phase, target, seqNr, state, current, mailbox>>
vars == <<journal, writes, home, entityVars, asked, inFlight, replies, faults>>

-----------------------------------------------------------------------------
(* The data.                                                               *)

Incarnations == Nodes \X Movies

Event   == [kind : {"Registered", "Disabled"}, cause : Requests]
Command == [op : {"Register", "Disable", "Get"}, movie : Movies, replyTo : Requests]
Write   == [movie : Movies, seqNr : Nat, event : Event]

\* The state object: its movieId, its smStatus, and all its other fields
\* (details), which are those of the request that registered the movie.
State == [id : Movies \cup {null}, smStatus : {"EMPTY", "NEW", "DISABLED"},
          details : Requests \cup {null}]

\* A Summary has the fields of the state.  A rejection carries a reason only.
Reply == [to : Requests, kind : {"Accepted", "Rejected", "Summary"},
          summary : State \cup {null}]

Phases == {"stopped", "recovering", "ready", "persisting", "backoff"}

emptyState == [id |-> null, smStatus |-> "EMPTY", details |-> null]

isEmpty(s)    == s.smStatus = "EMPTY"
isNew(s)      == s.smStatus = "NEW"
isDisabled(s) == s.smStatus = "DISABLED"

\* Mutant: a disabled event starts from an empty state.
MutEventHandlerFresh(m, s, e) ==
    IF e.kind = "Registered"
    THEN [id |-> m, smStatus |-> "NEW", details |-> e.cause]
    ELSE [emptyState EXCEPT !.id = m, !.smStatus = "DISABLED"]

\* The event handler.  It is registered for any state: a disabled event keeps
\* the other fields of the state it meets, whatever these are.
eventHandler(m, s, e) ==
    IF e.kind = "Registered"
    THEN [id |-> m, smStatus |-> "NEW", details |-> e.cause]
    ELSE [s EXCEPT !.id = m, !.smStatus = "DISABLED"]

\* The event that onRegisterMovie or onDisableMovie persists for command c.
EventOf(c) == [kind  |-> IF c.op = "Register" THEN "Registered" ELSE "Disabled",
               cause |-> c.replyTo]

\* The insert that incarnation i sends for the command it is persisting.
WriteOf(i) == [movie |-> i[2], seqNr |-> seqNr[i] + 1, event |-> EventOf(current[i])]

\* The journal holds the very event that incarnation i is persisting.
Written(i) == /\ seqNr[i] < Len(journal[i[2]])
              /\ journal[i[2]][seqNr[i] + 1] = EventOf(current[i])

Accepted(c, s) == [to |-> c.replyTo, kind |-> "Accepted", summary |-> s]
Rejected(c)    == [to |-> c.replyTo, kind |-> "Rejected", summary |-> null]
Summary(c, s)  == [to |-> c.replyTo, kind |-> "Summary",  summary |-> s]

Fault == faults < MaxFaults /\ faults' = faults + 1

-----------------------------------------------------------------------------
(* The initial state: an empty database and no entity started.             *)

Init == /\ journal = [m \in Movies |-> << >>]
        /\ writes = {}
        /\ home \in [Movies -> Nodes]
        /\ phase = [i \in Incarnations |-> "stopped"]
        /\ target = [i \in Incarnations |-> 0]
        /\ seqNr = [i \in Incarnations |-> 0]
        /\ state = [i \in Incarnations |-> emptyState]
        /\ current = [i \in Incarnations |-> null]
        /\ mailbox = [i \in Incarnations |-> << >>]
        /\ asked = {}
        /\ inFlight = {}
        /\ replies = {}
        /\ faults = 0

-----------------------------------------------------------------------------
(* Messages between the service and the entities.                          *)

\* What incarnation i held in memory, but for its mailbox, is gone.
Forget(i) == /\ target' = [target EXCEPT ![i] = 0]
             /\ seqNr' = [seqNr EXCEPT ![i] = 0]
             /\ state' = [state EXCEPT ![i] = emptyState]
             /\ current' = [current EXCEPT ![i] = null]

\* The service sends command c; its replyTo is an actor of this ask alone.
Ask(c) == /\ \A d \in asked : d.replyTo # c.replyTo
          /\ asked' = asked \cup {c}
          /\ inFlight' = inFlight \cup {c}
          /\ UNCHANGED <<journal, writes, home, entityVars, replies, faults>>

\* Sharding routes c to the node its movie is allocated to.
Deliver(c) == /\ c \in inFlight
              /\ inFlight' = inFlight \ {c}
              /\ LET i == <<home[c.movie], c.movie>>
                 IN  mailbox' = [mailbox EXCEPT ![i] = Append(@, c)]
              /\ UNCHANGED <<journal, writes, home, phase, target, seqNr, state,
                             current, asked, replies, faults>>

\* A message is delivered at most once: it may be lost on the way.
Lose(c) == /\ c \in inFlight
           /\ Fault
           /\ inFlight' = inFlight \ {c}
           /\ UNCHANGED <<journal, writes, home, entityVars, asked, replies>>

\* Mutant: a healthy cluster moves a shard without stopping its entities.
MutHandOffRunning(m, n) ==
    /\ n # home[m]
    /\ home' = [home EXCEPT ![m] = n]
    /\ UNCHANGED <<journal, writes, entityVars, asked, inFlight, replies, faults>>

\* The shard of m moves to node n, after a rebalance or the loss of its node.
\* In a healthy cluster the incarnation at the old node has stopped before.
HandOff(m, n) ==
    /\ n # home[m]
    /\ \/ SplitBrain
       \/ phase[<<home[m], m>>] = "stopped" /\ mailbox[<<home[m], m>>] = << >>
    /\ home' = [home EXCEPT ![m] = n]
    /\ UNCHANGED <<journal, writes, entityVars, asked, inFlight, replies, faults>>

-----------------------------------------------------------------------------
(* Start and recovery of an incarnation.                                   *)

\* Mutant: the replay goes one event too far.
MutBeginReplayTooFar(i) ==
    /\ phase' = [phase EXCEPT ![i] = "recovering"]
    /\ target' = [target EXCEPT ![i] = Len(journal[i[2]]) + 1]
    /\ seqNr' = [seqNr EXCEPT ![i] = 0]
    /\ state' = [state EXCEPT ![i] = emptyState]
    /\ UNCHANGED <<journal, writes, home, current, mailbox, asked, inFlight,
                   replies, faults>>

\* Mutant: recovery is disabled.
MutBeginReplayNever(i) ==
    /\ phase' = [phase EXCEPT ![i] = "recovering"]
    /\ target' = [target EXCEPT ![i] = 0]
    /\ seqNr' = [seqNr EXCEPT ![i] = 0]
    /\ state' = [state EXCEPT ![i] = emptyState]
    /\ UNCHANGED <<journal, writes, home, current, mailbox, asked, inFlight,
                   replies, faults>>

\* The behaviour begins with emptyState and asks for the highest seq_nr.
BeginReplay(i) ==
    /\ phase' = [phase EXCEPT ![i] = "recovering"]
    /\ target' = [target EXCEPT ![i] = Len(journal[i[2]])]
    /\ seqNr' = [seqNr EXCEPT ![i] = 0]
    /\ state' = [state EXCEPT ![i] = emptyState]
    /\ UNCHANGED <<journal, writes, home, current, mailbox, asked, inFlight,
                   replies, faults>>

\* The shard starts the entity when a message for it arrives.
Start(i) == phase[i] = "stopped" /\ mailbox[i] # << >> /\ BeginReplay(i)

\* Mutant: the supervisor gives up when there have been too many failures.
MutRestartGivesUp(i) == phase[i] = "backoff" /\ faults < MaxFaults /\ BeginReplay(i)

\* The restart of the supervisor strategy, after its backoff.
Restart(i) == phase[i] = "backoff" /\ BeginReplay(i)

ReplayEvent(i) ==
    /\ phase[i] = "recovering"
    /\ seqNr[i] < target[i]
    /\ seqNr' = [seqNr EXCEPT ![i] = @ + 1]
    /\ state' = [state EXCEPT ![i] =
                    eventHandler(i[2], @, journal[i[2]][seqNr[i] + 1])]
    /\ UNCHANGED <<journal, writes, home, phase, target, current, mailbox, asked,
                   inFlight, replies, faults>>

RecoveryCompleted(i) ==
    /\ phase[i] = "recovering"
    /\ seqNr[i] = target[i]
    /\ phase' = [phase EXCEPT ![i] = "ready"]
    /\ target' = [target EXCEPT ![i] = 0]
    /\ UNCHANGED <<journal, writes, home, seqNr, state, current, mailbox, asked,
                   inFlight, replies, faults>>

\* The replay fails: a journal failure, after which the supervisor backs off.
RecoveryFailed(i) ==
    /\ phase[i] = "recovering"
    /\ Fault
    /\ phase' = [phase EXCEPT ![i] = "backoff"]
    /\ Forget(i)
    /\ UNCHANGED <<journal, writes, home, mailbox, asked, inFlight, replies>>

-----------------------------------------------------------------------------
(* The command handler.  An incarnation that is ready takes the first      *)
(* command of its mailbox.                                                 *)

Takes(i, op) == /\ phase[i] = "ready"
                /\ mailbox[i] # << >>
                /\ Head(mailbox[i]).op = op
                /\ mailbox' = [mailbox EXCEPT ![i] = Tail(@)]

\* Effect().persist: the event is sent to the journal, and further commands
\* wait until the journal answers.
Persist(i) ==
    LET c == Head(mailbox[i]) IN
    /\ phase' = [phase EXCEPT ![i] = "persisting"]
    /\ current' = [current EXCEPT ![i] = c]
    /\ writes' = writes \cup
          {[movie |-> i[2], seqNr |-> seqNr[i] + 1, event |-> EventOf(c)]}
    /\ UNCHANGED <<journal, home, target, seqNr, state, asked, inFlight, replies, faults>>

\* Effect().reply: an answer, and nothing else changes.
ReplyWith(r) ==
    /\ replies' = replies \cup {r}
    /\ UNCHANGED <<journal, writes, home, phase, target, seqNr, state, current,
                   asked, inFlight, faults>>

onRegister(i) == Takes(i, "Register") /\ isEmpty(state[i]) /\ Persist(i)

\* Mutant: disabling is accepted in any state.
MutDisableAnyState(i) == Takes(i, "Disable") /\ Persist(i)

\* Mutant: disabling is accepted again in the state isDisabled.
MutDisableTwice(i) == Takes(i, "Disable") /\ ~isEmpty(state[i]) /\ Persist(i)

onDisable(i) == Takes(i, "Disable") /\ isNew(state[i]) /\ Persist(i)

\* Mutant: the rejection also answers for a movie that does not exist.
MutRejectUnlessNew(i) == /\ Takes(i, "Disable")
                         /\ ~isNew(state[i])
                         /\ ReplyWith(Rejected(Head(mailbox[i])))

onDisableDisabled(i) == /\ Takes(i, "Disable")
                        /\ isDisabled(state[i])
                        /\ ReplyWith(Rejected(Head(mailbox[i])))

onGet(i) == /\ Takes(i, "Get")
            /\ ReplyWith(Summary(Head(mailbox[i]), state[i]))

\* The command and state for which commandHandler has a case.
Handled(c, s) == \/ c.op = "Register" /\ isEmpty(s)
                 \/ c.op = "Disable" /\ (isNew(s) \/ isDisabled(s))
                 \/ c.op = "Get"

\* No case matches: the builder's handler throws a MatchError, which the
\* supervisor strategy, made for journal failures, does not catch.  The actor
\* stops, and its mailbox with it.
onUnmatched(i) ==
    /\ phase[i] = "ready"
    /\ mailbox[i] # << >>
    /\ ~Handled(Head(mailbox[i]), state[i])
    /\ phase' = [phase EXCEPT ![i] = "stopped"]
    /\ mailbox' = [mailbox EXCEPT ![i] = << >>]
    /\ Forget(i)
    /\ UNCHANGED <<journal, writes, home, asked, inFlight, replies, faults>>

-----------------------------------------------------------------------------
(* The journal.                                                            *)

\* Mutant: event_journal has no primary key.
MutCommitNoKey(w) ==
    /\ w \in writes
    /\ journal' = [journal EXCEPT ![w.movie] = Append(@, w.event)]
    /\ writes' = writes \ {w}
    /\ UNCHANGED <<home, entityVars, asked, inFlight, replies, faults>>

\* Mutant: without a primary key, a retried insert commits twice.
MutCommitTwice(w) ==
    /\ w \in writes
    /\ Len(journal[w.movie]) < 3
    /\ journal' = [journal EXCEPT ![w.movie] = Append(@, w.event)]
    /\ UNCHANGED <<writes, home, entityVars, asked, inFlight, replies, faults>>

\* The database executes an insert: its seq_nr is free.
JournalCommit(w) ==
    /\ w \in writes
    /\ w.seqNr = Len(journal[w.movie]) + 1
    /\ journal' = [journal EXCEPT ![w.movie] = Append(@, w.event)]
    /\ writes' = writes \ {w}
    /\ UNCHANGED <<home, entityVars, asked, inFlight, replies, faults>>

\* The primary key (persistence_id, seq_nr) refuses an insert.
JournalReject(w) ==
    /\ w \in writes
    /\ w.seqNr <= Len(journal[w.movie])
    /\ writes' = writes \ {w}
    /\ UNCHANGED <<journal, home, entityVars, asked, inFlight, replies, faults>>

\* The database drops an insert: its connection or the server fails.
JournalRollback(w) ==
    /\ w \in writes
    /\ Fault
    /\ writes' = writes \ {w}
    /\ UNCHANGED <<journal, home, entityVars, asked, inFlight, replies>>

\* Mutant: the confirmation does not wait for the journal.
MutPersistedEarly(i) ==
    /\ phase[i] = "persisting"
    /\ LET s == eventHandler(i[2], state[i], EventOf(current[i])) IN
       /\ state' = [state EXCEPT ![i] = s]
       /\ replies' = replies \cup {Accepted(current[i], s)}
    /\ seqNr' = [seqNr EXCEPT ![i] = @ + 1]
    /\ phase' = [phase EXCEPT ![i] = "ready"]
    /\ current' = [current EXCEPT ![i] = null]
    /\ UNCHANGED <<journal, writes, home, target, mailbox, asked, inFlight, faults>>

\* Mutant: the command that has been persisted is unstashed with the others.
MutPersistedUnstashes(i) ==
    /\ phase[i] = "persisting"
    /\ Written(i)
    /\ LET s == eventHandler(i[2], state[i], EventOf(current[i])) IN
       /\ state' = [state EXCEPT ![i] = s]
       /\ replies' = replies \cup {Accepted(current[i], s)}
    /\ seqNr' = [seqNr EXCEPT ![i] = @ + 1]
    /\ phase' = [phase EXCEPT ![i] = "ready"]
    /\ mailbox' = [mailbox EXCEPT ![i] = <<current[i]>> \o @]
    /\ current' = [current EXCEPT ![i] = null]
    /\ UNCHANGED <<journal, writes, home, target, asked, inFlight, faults>>

\* The journal acknowledges: the event is applied, then thenReply answers
\* with the new state.
Persisted(i) ==
    /\ phase[i] = "persisting"
    /\ Written(i)
    /\ LET s == eventHandler(i[2], state[i], EventOf(current[i])) IN
       /\ state' = [state EXCEPT ![i] = s]
       /\ replies' = replies \cup {Accepted(current[i], s)}
    /\ seqNr' = [seqNr EXCEPT ![i] = @ + 1]
    /\ phase' = [phase EXCEPT ![i] = "ready"]
    /\ current' = [current EXCEPT ![i] = null]
    /\ UNCHANGED <<journal, writes, home, target, mailbox, asked, inFlight, faults>>

\* The incarnation backs off; it forgets its state and the command it was
\* persisting, and keeps the stashed ones.
BackOff(i) ==
    /\ phase' = [phase EXCEPT ![i] = "backoff"]
    /\ Forget(i)
    /\ UNCHANGED <<journal, writes, home, mailbox, asked, inFlight, replies>>

\* The journal reports that the insert was refused or dropped.
PersistRefused(i) == /\ phase[i] = "persisting"
                     /\ WriteOf(i) \notin writes
                     /\ ~Written(i)
                     /\ BackOff(i)
                     /\ UNCHANGED faults

\* The journal reports a failure (the circuit breaker's call-timeout, a lost
\* connection) though the insert is still under way, or has committed.
PersistTimedOut(i) == phase[i] = "persisting" /\ BackOff(i) /\ Fault

-----------------------------------------------------------------------------
(* Passivation and crashes.                                                *)

\* Mutant: an entity is passivated with commands in its mailbox.
MutPassivateBusy(i) ==
    /\ phase[i] = "ready"
    /\ phase' = [phase EXCEPT ![i] = "stopped"]
    /\ mailbox' = [mailbox EXCEPT ![i] = << >>]
    /\ Forget(i)
    /\ UNCHANGED <<journal, writes, home, asked, inFlight, replies, faults>>

\* Sharding stops an idle entity.
Passivate(i) ==
    /\ phase[i] = "ready"
    /\ mailbox[i] = << >>
    /\ phase' = [phase EXCEPT ![i] = "stopped"]
    /\ Forget(i)
    /\ UNCHANGED <<journal, writes, home, mailbox, asked, inFlight, replies, faults>>

\* The process of node n dies, with every incarnation it hosts and their
\* mailboxes.  Inserts that have reached the database are not called back.
Crash(n) ==
    /\ Fault
    /\ phase' = [i \in Incarnations |-> IF i[1] = n THEN "stopped" ELSE phase[i]]
    /\ target' = [i \in Incarnations |-> IF i[1] = n THEN 0 ELSE target[i]]
    /\ seqNr' = [i \in Incarnations |-> IF i[1] = n THEN 0 ELSE seqNr[i]]
    /\ state' = [i \in Incarnations |-> IF i[1] = n THEN emptyState ELSE state[i]]
    /\ current' = [i \in Incarnations |-> IF i[1] = n THEN null ELSE current[i]]
    /\ mailbox' = [i \in Incarnations |-> IF i[1] = n THEN << >> ELSE mailbox[i]]
    /\ UNCHANGED <<journal, writes, home, asked, inFlight, replies>>

-----------------------------------------------------------------------------
(* The steps of one incarnation that its actor is due to take.             *)
Work(i) == \/ Start(i) \/ Restart(i) \/ ReplayEvent(i) \/ RecoveryCompleted(i)
           \/ onRegister(i) \/ onDisable(i) \/ onDisableDisabled(i)
           \/ onGet(i) \/ onUnmatched(i)
           \/ Persisted(i) \/ PersistRefused(i)

DatabaseStep == \E w \in writes : JournalCommit(w) \/ JournalReject(w)

Misfortune == \/ \E c \in inFlight : Lose(c)
              \/ \E i \in Incarnations : RecoveryFailed(i) \/ PersistTimedOut(i)
              \/ \E w \in writes : JournalRollback(w)
              \/ \E n \in Nodes : Crash(n)

\* Everything but the asks: a module that models the callers adds those.
Internal == \/ \E c \in inFlight : Deliver(c)
            \/ \E i \in Incarnations : Work(i) \/ Passivate(i)
            \/ DatabaseStep
            \/ \E m \in Movies, n \in Nodes : HandOff(m, n)
            \/ Misfortune

Next == Internal \/ \E c \in Command : Ask(c)

Spec == Init /\ [][Next]_vars

-----------------------------------------------------------------------------
(* Properties.                                                             *)

TypeOK ==
    /\ journal \in [Movies -> Seq(Event)]
    /\ writes \subseteq Write
    /\ home \in [Movies -> Nodes]
    /\ phase \in [Incarnations -> Phases]
    /\ target \in [Incarnations -> Nat]
    /\ seqNr \in [Incarnations -> Nat]
    /\ state \in [Incarnations -> State]
    /\ current \in [Incarnations -> Command \cup {null}]
    /\ mailbox \in [Incarnations -> Seq(Command)]
    /\ asked \subseteq Command
    /\ inFlight \subseteq asked
    /\ replies \subseteq Reply
    /\ faults \in Nat

\* Whatever incarnations race, writes that commit late and crashes, the
\* journal of a movie is empty, a registration, or a registration followed by
\* one disabling (Aggregate.onRegister, onDisable; key of event_journal).
JournalWellFormed ==
    \A m \in Movies :
        \/ journal[m] = << >>
        \/ Len(journal[m]) = 1 /\ journal[m][1].kind = "Registered"
        \/ /\ Len(journal[m]) = 2
           /\ journal[m][1].kind = "Registered"
           /\ journal[m][2].kind = "Disabled"

\* What the first k events of a well-formed journal j of movie m amount to.
StateAt(m, j, k) ==
    IF k = 0 THEN emptyState
    ELSE [id |-> m, smStatus |-> IF k = 1 THEN "NEW" ELSE "DISABLED",
          details |-> j[1].cause]

\* An incarnation never holds anything but the outcome of a prefix of the
\* journal: not an event that did not commit, not one of another movie, and
\* a disabled movie keeps the data it was registered with (eventHandler).
MemoryReflectsJournal ==
    \A i \in Incarnations :
        /\ seqNr[i] <= Len(journal[i[2]])
        /\ state[i] = StateAt(i[2], journal[i[2]], seqNr[i])

\* A request is confirmed only when its event is in the journal, and with
\* the state as of that event (onRegister, onDisable: thenReply).
AcceptedIsDurable ==
    \A c \in asked, p \in replies :
        p.to = c.replyTo /\ p.kind = "Accepted" =>
            \E k \in 1 .. Len(journal[c.movie]) :
                /\ journal[c.movie][k] = EventOf(c)
                /\ p.summary = StateAt(c.movie, journal[c.movie], k)

\* A request is rejected only when the movie had been disabled, by another
\* request (commandHandler: "Cannot disable already disabled").
RejectedIsJustified ==
    \A c \in asked, p \in replies :
        p.to = c.replyTo /\ p.kind = "Rejected" =>
            /\ c.op = "Disable"
            /\ \E k \in 1 .. Len(journal[c.movie]) :
                  /\ journal[c.movie][k].kind = "Disabled"
                  /\ journal[c.movie][k].cause # c.replyTo

\* No request takes effect twice, though its insert may outlive the
\* incarnation that sent it.
OneEffectPerRequest ==
    \A m1, m2 \in Movies :
        \A k1 \in 1 .. Len(journal[m1]), k2 \in 1 .. Len(journal[m2]) :
            journal[m1][k1].cause = journal[m2][k2].cause => m1 = m2 /\ k1 = k2

\* No request is answered twice: a command forgotten at a persist failure is
\* not taken up again after the restart.
OneAnswerPerRequest == \A p, q \in replies : p.to = q.to => p = q

\* The strengthening that makes these inductive: a replay aims at a seq_nr
\* that the journal has, an incarnation that persists knows the command it
\* does so for, and an insert under way has the seq_nr and the kind
\* of event that the command handler gives it in a state that is a replay.
TargetsExist ==
    \A i \in Incarnations :
        phase[i] = "recovering" => target[i] <= Len(journal[i[2]])

PersistsForCommand ==
    \A i \in Incarnations : phase[i] = "persisting" => current[i] \in Command

WritesLegal ==
    \A w \in writes : \/ w.seqNr = 1 /\ w.event.kind = "Registered"
                      \/ w.seqNr = 2 /\ w.event.kind = "Disabled"

\* Further, for what replies say: asks differ in their replyTo, a command
\* reaches incarnations of its own movie only, and only an ask is answered.
AsksDiffer == \A c, d \in asked : c.replyTo = d.replyTo => c = d

CommandsAreRouted ==
    \A i \in Incarnations :
        /\ \A k \in 1 .. Len(mailbox[i]) :
              mailbox[i][k] \in asked /\ mailbox[i][k].movie = i[2]
        /\ phase[i] = "persisting" => current[i] \in asked /\ current[i].movie = i[2]

RepliesAreToAsks == \A p \in replies : \E c \in asked : p.to = c.replyTo

JournalInvariant == /\ TypeOK
                    /\ TargetsExist
                    /\ PersistsForCommand
                    /\ WritesLegal
                    /\ JournalWellFormed
                    /\ MemoryReflectsJournal

RepliesInvariant == /\ AsksDiffer
                    /\ CommandsAreRouted
                    /\ RepliesAreToAsks
                    /\ AcceptedIsDurable

\* Further, for "once": a command is in one place until it is taken up, and in
\* one hand then; before that it has had no effect and no answer, and of those
\* that are answered only the confirmed ones have an effect.
Queued(c) == \/ c \in inFlight
             \/ \E i \in Incarnations : \E k \in 1 .. Len(mailbox[i]) : mailbox[i][k] = c

InHand(i, c) == phase[i] = "persisting" /\ current[i] = c

HasEffect(r) == \/ \E w \in writes : w.event.cause = r
                \/ \E m \in Movies : \E k \in 1 .. Len(journal[m]) : journal[m][k].cause = r

QueuedOnce ==
    \A i, j \in Incarnations :
        \A k \in 1 .. Len(mailbox[i]), l \in 1 .. Len(mailbox[j]) :
            /\ mailbox[i][k] \notin inFlight
            /\ mailbox[i][k] = mailbox[j][l] => i = j /\ k = l

TakenOnce ==
    \A i, j \in Incarnations, c \in asked :
        InHand(i, c) => ~Queued(c) /\ (InHand(j, c) => i = j)

EffectsOnce ==
    /\ OneEffectPerRequest
    /\ \A v, w \in writes : v.event.cause = w.event.cause => v = w
    /\ \A w \in writes, m \in Movies : \A k \in 1 .. Len(journal[m]) :
          w.event.cause # journal[m][k].cause

EffectsAreAsked ==
    /\ \A w \in writes : \E c \in asked : w.movie = c.movie /\ w.event = EventOf(c)
    /\ \A m \in Movies : \A k \in 1 .. Len(journal[m]) :
          \E c \in asked : m = c.movie /\ journal[m][k] = EventOf(c)

EffectsComeLater == \A c \in asked : Queued(c) => ~HasEffect(c.replyTo)

AnswersComeLast ==
    \A c \in asked, p \in replies :
        p.to = c.replyTo => ~Queued(c) /\ \A i \in Incarnations : ~InHand(i, c)

OnlyConfirmedHaveEffect == \A p \in replies : p.kind # "Accepted" => ~HasEffect(p.to)

TokensInvariant == /\ QueuedOnce
                   /\ TakenOnce
                   /\ EffectsOnce
                   /\ EffectsAreAsked
                   /\ EffectsComeLater
                   /\ AnswersComeLast
                   /\ OnlyConfirmedHaveEffect
                   /\ OneAnswerPerRequest
                   /\ RejectedIsJustified

\* Further, for what a Get sees while the cluster is not split: only the
\* incarnation at the home of a movie is awake, and it has applied, or is going
\* to apply before it handles a command, every event that a confirmation told of.
Rank(s) == IF isEmpty(s) THEN 0 ELSE IF isNew(s) THEN 1 ELSE 2

AwakeAtHome ==
    \A i \in Incarnations :
        phase[i] # "stopped" \/ mailbox[i] # << >> => i[1] = home[i[2]]

ConfirmedIsKnown ==
    \A i \in Incarnations, q \in replies :
        q.kind = "Accepted" /\ q.summary.id = i[2] =>
            /\ phase[i] \in {"ready", "persisting"} => Rank(q.summary) <= seqNr[i]
            /\ phase[i] = "recovering" => Rank(q.summary) <= target[i]

ReadsInvariant == ~SplitBrain => AwakeAtHome /\ ConfirmedIsKnown

\* What AggregateProofs shows to be inductive.
InductiveInvariant == /\ JournalInvariant
                      /\ RepliesInvariant
                      /\ TokensInvariant
                      /\ ReadsInvariant

\* While sharding keeps one incarnation of a movie at a time, a Get never
\* answers with a state older than one a confirmation has reported, whatever
\* crashed, moved, passivated or recovered in between (onGet).
ReadsSeeConfirmations ==
    [][~SplitBrain =>
        \A c \in asked, p \in replies' \ replies, q \in replies :
            /\ p.to = c.replyTo /\ p.kind = "Summary"
            /\ q.kind = "Accepted" /\ q.summary.id = c.movie
            => Rank(q.summary) <= Rank(p.summary)]_vars

\* The journal implements the life cycle the command side promises.
StatusOf(j) == IF j = << >> THEN "EMPTY"
               ELSE IF j[Len(j)].kind = "Registered" THEN "NEW" ELSE "DISABLED"

Lifecycle == INSTANCE MovieLifecycle
                WITH status <- [m \in Movies |-> StatusOf(journal[m])]

ImplementsLifecycle == Lifecycle!Spec
=============================================================================
