---------------------------- MODULE MovieService ----------------------------
(***************************************************************************)
(* The gRPC service in front of the aggregates (MovieServiceImpl).  A call *)
(* asks one entity and waits for its answer, for at most ask-timeout.  The *)
(* service never asks twice: a client that calls again makes a new call,   *)
(* and a new call of RegisterMovie registers a new movie.                  *)
(***************************************************************************)
EXTENDS Aggregate

VARIABLES
    calls,          \* calls[r]: the call that uses the ask r
    movieCounter    \* the metric that counts the calls of RegisterMovie

serviceVars == <<calls, movieCounter>>
allVars == <<vars, serviceVars>>

\* A call is waiting for the entity, has returned a response, has completed
\* with an exception, or has run into the ask timeout.
Call == [phase  : {"idle", "waiting", "ok", "failed", "timedOut"},
         op     : {"Register", "Disable", "Get", "none"},
         movie  : Movies \cup {null},
         result : State \cup {null}]

noCall == [phase |-> "idle", op |-> "none", movie |-> null, result |-> null]

ServiceInit == /\ Init
               /\ calls = [r \in Requests |-> noCall]
               /\ movieCounter = 0

-----------------------------------------------------------------------------
(* The calls.                                                              *)

\* entityRef(m).ask(...): one command, to the entity of m.
AskEntity(r, op, m) ==
    /\ calls[r].phase = "idle"
    /\ Ask([op |-> op, movie |-> m, replyTo |-> r])
    /\ calls' = [calls EXCEPT ![r] =
                    [phase |-> "waiting", op |-> op, movie |-> m, result |-> null]]

\* Mutant: the id is looked up in the database rather than drawn at random.
MutFreshIfUnwritten(m) == journal[m] = << >>

\* No call has ever mentioned m: what UUID.randomUUID() returns.
FreshId(m) == \A r \in Requests : calls[r].movie # m

\* Ids a client can come by: those of registered movies, which responses and
\* the read side give out, and made-up ones.  An id just drawn for a
\* registration under way is neither.
ClientId(m) == \/ journal[m] # << >>
               \/ \A r \in Requests : ~(calls[r].op = "Register" /\ calls[r].movie = m)

\* The counter counts the attempt, whatever becomes of it.
registerMovie(r) ==
    /\ movieCounter' = movieCounter + 1
    /\ \E m \in Movies : FreshId(m) /\ AskEntity(r, "Register", m)

disableMovie(r) ==
    /\ \E m \in Movies : ClientId(m) /\ AskEntity(r, "Disable", m)
    /\ UNCHANGED movieCounter

getMovie(r) ==
    /\ \E m \in Movies : ClientId(m) /\ AskEntity(r, "Get", m)
    /\ UNCHANGED movieCounter

Finish(r, outcome, result) ==
    /\ calls' = [calls EXCEPT ![r].phase = outcome, ![r].result = result]
    /\ UNCHANGED <<vars, movieCounter>>

\* handleConfirmation: an Accepted becomes the response, anything else an
\* exception with the reason of the rejection.
handleConfirmation(r) ==
    /\ calls[r].phase = "waiting"
    /\ calls[r].op \in {"Register", "Disable"}
    /\ \E p \in replies :
          /\ p.to = r
          /\ Finish(r, IF p.kind = "Accepted" THEN "ok" ELSE "failed", p.summary)

\* Mutant: the reply is returned unconverted.
MutReceiveReply(r) ==
    /\ calls[r].phase = "waiting"
    /\ calls[r].op = "Get"
    /\ \E p \in replies : p.to = r /\ Finish(r, "ok", p)

\* getMovie copies the summary into a protobuf builder, whose setMovieId
\* throws on the null id of an empty state.
receiveSummary(r) ==
    /\ calls[r].phase = "waiting"
    /\ calls[r].op = "Get"
    /\ \E p \in replies :
          /\ p.to = r
          /\ IF p.summary.id = null THEN Finish(r, "failed", null)
                                    ELSE Finish(r, "ok", p.summary)

\* Mutant: a timeout is reported as a failure of the operation.
MutTimeoutFails(r) == calls[r].phase = "waiting" /\ Finish(r, "failed", null)

\* ask-timeout passes.  An answer that comes later finds no one waiting.
askTimeout(r) == calls[r].phase = "waiting" /\ Finish(r, "timedOut", null)

ServiceStep(r) == \/ registerMovie(r) \/ disableMovie(r) \/ getMovie(r)
                  \/ handleConfirmation(r) \/ receiveSummary(r) \/ askTimeout(r)

EntityStep == Internal /\ UNCHANGED serviceVars

ServiceNext == EntityStep \/ \E r \in Requests : ServiceStep(r)

ServiceSpec == ServiceInit /\ [][ServiceNext]_allVars

-----------------------------------------------------------------------------
(* Properties.                                                             *)

ServiceTypeOK == calls \in [Requests -> Call] /\ movieCounter \in Nat

\* A call that ends in an exception has changed nothing and never will (only
\* a timeout leaves the outcome open): handleConfirmation, getMovie.
FailedCallsHaveNoEffect ==
    \A r \in Requests : calls[r].phase = "failed" => ~HasEffect(r)

\* A response of registerMovie names the movie that was registered with the
\* request's own data, and of all the calls of disableMovie for one movie at
\* most one succeeds, however they race.
ResponsesAreTrue ==
    /\ \A r \in Requests :
          calls[r].phase = "ok" /\ calls[r].op = "Register" =>
             /\ calls[r].result.id = calls[r].movie
             /\ calls[r].result.details = r
             /\ journal[calls[r].movie][1].cause = r
    /\ \A r, q \in Requests :
          /\ calls[r].phase = "ok" /\ calls[r].op = "Disable"
          /\ calls[q].phase = "ok" /\ calls[q].op = "Disable"
          /\ calls[r].movie = calls[q].movie
          => r = q

\* A registration never meets an entity that has no case for it, so it never
\* stops an entity: its id is new, and its command is delivered once.
RegistrationsMatch ==
    \A i \in Incarnations :
        phase[i] = "ready" /\ mailbox[i] # << >> /\ Head(mailbox[i]).op = "Register"
            => isEmpty(state[i])

\* The strengthening that makes these inductive, with what holds of the entities:
\* an ask belongs to the call that made it, the one registration of its movie is
\* asked with an id of its own, a Get writes nothing, and a call that has ended
\* otherwise than by a timeout has been told so by the reply of the entity.
AsksAreCalls ==
    \A c \in asked : calls[c.replyTo].phase # "idle"
                     /\ calls[c.replyTo].op = c.op /\ calls[c.replyTo].movie = c.movie

IdsAreFresh ==
    \A c, d \in asked : c.op = "Register" /\ d.op = "Register" /\ c.movie = d.movie => c = d

GetsWriteNothing == \A c \in asked : c.op = "Get" => ~HasEffect(c.replyTo)

OutcomesAreReplies ==
    \A r \in Requests :
        /\ calls[r].phase = "ok" /\ calls[r].op \in {"Register", "Disable"} =>
              \E c \in asked, p \in replies :
                 /\ c.replyTo = r /\ p.to = r
                 /\ p.kind = "Accepted" /\ p.summary = calls[r].result
        /\ calls[r].phase = "failed" => \E p \in replies : p.to = r /\ p.kind # "Accepted"

CallsInvariant == /\ ServiceTypeOK
                  /\ AsksAreCalls
                  /\ IdsAreFresh
                  /\ GetsWriteNothing
                  /\ OutcomesAreReplies

ServiceInvariant == InductiveInvariant /\ CallsInvariant

\* Whatever fails, no command stays with an entity for ever, in its mailbox,
\* in its stash or being persisted.
Holds(i, r) == \/ \E k \in 1 .. Len(mailbox[i]) : mailbox[i][k].replyTo = r
               \/ current[i] # null /\ current[i].replyTo = r

Held(r) == \E i \in Incarnations : Holds(i, r)

CommandsAreConsumed == \A r \in Requests : Held(r) ~> ~Held(r)

\* What EventSourcedBehaviorWithEnforcedReplies is chosen for: unless a fault
\* intervenes, a command that an entity has taken is answered.
CommandsAreAnswered ==
    faults = 0 =>
        \A c \in asked : \/ c \in inFlight
                         \/ Held(c.replyTo)
                         \/ \E p \in replies : p.to = c.replyTo
=============================================================================
