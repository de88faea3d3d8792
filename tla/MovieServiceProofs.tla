------------------------- MODULE MovieServiceProofs -------------------------
(***************************************************************************)
(* Theorems about MovieService: its calls drive the aggregates as          *)
(* Aggregate allows any caller to, so all that is proved there holds, and  *)
(* what a call returns is what has become of its command.                  *)
(***************************************************************************)
EXTENDS MovieService, AggregateProofs

-----------------------------------------------------------------------------
(* The service is one of the callers that Aggregate allows for.            *)

LEMMA CallsAsk ==
  ASSUME NEW r \in Requests, registerMovie(r) \/ disableMovie(r) \/ getMovie(r)
  PROVE  \E op \in {"Register", "Disable", "Get"}, m \in Movies :
            /\ AskEntity(r, op, m)
            /\ op = "Register" => FreshId(m)
            /\ movieCounter' = movieCounter \/ movieCounter' = movieCounter + 1
  BY DEF registerMovie, disableMovie, getMovie

LEMMA AskIsCommand ==
  ASSUME NEW r \in Requests, NEW op \in {"Register", "Disable", "Get"}, NEW m \in Movies
  PROVE  [op |-> op, movie |-> m, replyTo |-> r] \in Command
  BY DEF Command

\* A call ends, by its answer or its timeout, without a trace at the entities.
LEMMA CallsEnd ==
  ASSUME NEW r \in Requests, handleConfirmation(r) \/ receiveSummary(r) \/ askTimeout(r)
  PROVE  UNCHANGED <<vars, movieCounter>>
  BY DEF handleConfirmation, receiveSummary, askTimeout, Finish

LEMMA ServiceStepIsStep ==
  ASSUME [ServiceNext]_allVars
  PROVE  [Next]_vars
<1>1. ASSUME NEW r \in Requests, ServiceStep(r) PROVE [Next]_vars
  <2>1. CASE registerMovie(r) \/ disableMovie(r) \/ getMovie(r)
    <3>1. PICK op \in {"Register", "Disable", "Get"}, m \in Movies : AskEntity(r, op, m)
      BY <2>1, CallsAsk
    <3>2. Ask([op |-> op, movie |-> m, replyTo |-> r])
      BY <3>1 DEF AskEntity
    <3> QED BY <3>2, AskIsCommand DEF Next
  <2>2. CASE handleConfirmation(r) \/ receiveSummary(r) \/ askTimeout(r)
    BY <2>2, CallsEnd
  <2> QED BY <1>1, <2>1, <2>2 DEF ServiceStep
<1>2. CASE EntityStep
  BY <1>2 DEF EntityStep, Next
<1>3. CASE UNCHANGED allVars
  BY <1>3 DEF allVars
<1> QED BY <1>1, <1>2, <1>3 DEF ServiceNext

\* Whatever Aggregate promises its callers, it promises to the service.
THEOREM ServiceDrivesAggregate == ServiceSpec => Spec
<1>1. ServiceInit => Init
  BY DEF ServiceInit
<1>2. [ServiceNext]_allVars => [Next]_vars
  BY ServiceStepIsStep
<1> QED BY <1>1, <1>2, PTL DEF ServiceSpec, Spec

-----------------------------------------------------------------------------
(* CallsInvariant is inductive, given what holds of the entities.          *)

\* What a step of the entities does to what the calls refer to.
LEMMA EntityStepKeeps ==
  ASSUME InductiveInvariant, EntityStep
  PROVE  /\ asked' = asked /\ replies \subseteq replies' /\ UNCHANGED serviceVars
         /\ \A r : HasEffect(r)' => \/ HasEffect(r)
                                    \/ \E c \in asked : c.op # "Get" /\ c.replyTo = r
<1> USE DEF InductiveInvariant, JournalInvariant
<1>1. asked' = asked /\ replies \subseteq replies' /\ UNCHANGED serviceVars
  BY DEF EntityStep, Internal, Work, DatabaseStep, Misfortune, entityVars, Deliver, Lose,
     HandOff, Start, Restart, BeginReplay, ReplayEvent, RecoveryCompleted,
     RecoveryFailed, onRegister, onDisable, onDisableDisabled, onGet, onUnmatched,
     Persist, ReplyWith, JournalCommit, JournalReject, JournalRollback, Persisted,
     PersistRefused, PersistTimedOut, BackOff, Passivate, Crash
<1>2. ASSUME NEW i \in Incarnations, onRegister(i) \/ onDisable(i), NEW r, HasEffect(r)'
      PROVE  HasEffect(r) \/ \E c \in asked : c.op # "Get" /\ c.replyTo = r
  <2> DEFINE c == Head(mailbox[i])
             w == [movie |-> i[2], seqNr |-> seqNr[i] + 1, event |-> EventOf(c)]
  <2>1. c \in asked
    BY <1>2, TailIsRouted DEF RepliesInvariant, onRegister, onDisable, Takes
  <2>2. c.op # "Get" /\ writes' = writes \cup {w} /\ journal' = journal
    BY <1>2 DEF onRegister, onDisable, Takes, Persist
  <2>3. w.event.cause = c.replyTo
    BY DEF EventOf
  <2> HIDE DEF c, w
  <2> QED BY <1>2, <2>1, <2>2, <2>3 DEF HasEffect
<1>3. ASSUME NEW w \in writes, JournalCommit(w), NEW r, HasEffect(r)' PROVE HasEffect(r)
  <2>1. w.movie \in Movies /\ w.event \in Event
    BY DEF TypeOK, Write
  <2>2. /\ writes' = writes \ {w}
        /\ journal' = [journal EXCEPT ![w.movie] = Append(@, w.event)]
    BY <1>3 DEF JournalCommit
  <2>3. ASSUME NEW m \in Movies, NEW k \in 1 .. Len(journal'[m])
        PROVE  \/ k \in 1 .. Len(journal[m]) /\ journal'[m][k] = journal[m][k]
               \/ journal'[m][k] = w.event
    <3>1. journal[m] \in Seq(Event)
      BY DEF TypeOK
    <3>2. CASE m # w.movie BY <2>2, <3>2 DEF TypeOK
    <3>3. CASE m = w.movie BY <2>1, <2>2, <3>1, <3>3 DEF TypeOK
    <3> QED BY <3>2, <3>3
  <2> QED BY <1>3, <2>2, <2>3 DEF HasEffect
<1>4. ASSUME ~ \E i \in Incarnations : onRegister(i) \/ onDisable(i),
             ~ \E w \in writes : JournalCommit(w), NEW r, HasEffect(r)'
      PROVE  HasEffect(r)
  <2>1. journal' = journal /\ writes' \subseteq writes
    BY <1>4 DEF EntityStep, Internal, Work, DatabaseStep, Misfortune, entityVars, Deliver,
       Lose, HandOff, Start, Restart, BeginReplay, ReplayEvent, RecoveryCompleted,
       RecoveryFailed, onDisableDisabled, onGet, onUnmatched,
       ReplyWith, JournalReject, JournalRollback, Persisted,
       PersistRefused, PersistTimedOut, BackOff, Passivate, Crash
  <2> QED BY <1>4, <2>1 DEF HasEffect
<1> QED BY <1>1, <1>2, <1>3, <1>4

\* A call that begins.
LEMMA BeginStep ==
  ASSUME InductiveInvariant, InductiveInvariant', CallsInvariant, NEW r \in Requests,
         registerMovie(r) \/ disableMovie(r) \/ getMovie(r)
  PROVE  CallsInvariant'
<1> USE DEF CallsInvariant, ServiceTypeOK
<1>1. PICK op \in {"Register", "Disable", "Get"}, m \in Movies :
         /\ AskEntity(r, op, m)
         /\ op = "Register" => FreshId(m)
         /\ movieCounter' = movieCounter \/ movieCounter' = movieCounter + 1
  BY CallsAsk
<1>c. PICK c : c = [op |-> op, movie |-> m, replyTo |-> r] OBVIOUS
<1>2. /\ c.op = op /\ c.movie = m /\ c.replyTo = r
      /\ c \in Command
  BY <1>c, AskIsCommand
<1>3. /\ calls[r].phase = "idle"
      /\ \A d \in asked : d.replyTo # r
      /\ asked' = asked \cup {c}
      /\ UNCHANGED <<journal, writes, replies>>
      /\ calls' = [calls EXCEPT ![r] =
                      [phase |-> "waiting", op |-> op, movie |-> m, result |-> null]]
  BY <1>1, <1>c DEF AskEntity, Ask
<1>4. /\ calls'[r].phase = "waiting" /\ calls'[r].op = op /\ calls'[r].movie = m
      /\ \A q \in Requests \ {r} : calls'[q] = calls[q]
  BY <1>3
<1>5. \A d \in asked : d.replyTo \in Requests
  BY DEF InductiveInvariant, JournalInvariant, TypeOK, Command
<1>6. ServiceTypeOK'
  <2>1. [phase |-> "waiting", op |-> op, movie |-> m, result |-> null] \in Call
    BY DEF Call
  <2> QED BY <1>1, <1>3, <2>1
<1>7. AsksAreCalls'
  BY <1>2, <1>3, <1>4, <1>5 DEF AsksAreCalls
<1>8. IdsAreFresh'
  <2>1. ASSUME op = "Register", NEW d \in asked PROVE d.movie # m
    BY <1>1, <1>5, <2>1 DEF FreshId, AsksAreCalls
  <2> QED BY <1>2, <1>3, <2>1 DEF IdsAreFresh
<1>9. GetsWriteNothing'
  <2>1. \A e : HasEffect(e)' => HasEffect(e)
    BY <1>3 DEF HasEffect
  <2>2. ~HasEffect(r)'
    <3>1. Queued(c)'
      BY <1>1, <1>c DEF AskEntity, Ask, Queued
    <3> QED
      BY <1>2, <1>3, <3>1 DEF InductiveInvariant, TokensInvariant, EffectsComeLater
  <2> QED BY <1>2, <1>3, <2>1, <2>2 DEF GetsWriteNothing
<1>10. OutcomesAreReplies'
  BY <1>3, <1>4 DEF OutcomesAreReplies
<1> QED BY <1>6, <1>7, <1>8, <1>9, <1>10

\* A call that has been waiting is that of the one command with its replyTo, and
\* a Get is never answered by a confirmation.
LEMMA ConfirmedIsNoGet ==
  ASSUME InductiveInvariant, CallsInvariant, NEW p \in replies, p.kind = "Accepted",
         NEW c \in asked, p.to = c.replyTo
  PROVE  c.op # "Get"
<1>1. c.movie \in Movies
  BY DEF InductiveInvariant, JournalInvariant, TypeOK, Command
<1>2. PICK k \in 1 .. Len(journal[c.movie]) : journal[c.movie][k] = EventOf(c)
  BY DEF InductiveInvariant, RepliesInvariant, AcceptedIsDurable
<1>3. HasEffect(c.replyTo)
  BY <1>1, <1>2 DEF HasEffect, EventOf
<1> QED BY <1>3 DEF CallsInvariant, GetsWriteNothing

\* A call that ends.
LEMMA EndStep ==
  ASSUME InductiveInvariant, CallsInvariant, NEW r \in Requests,
         handleConfirmation(r) \/ receiveSummary(r) \/ askTimeout(r)
  PROVE  CallsInvariant'
<1> USE DEF CallsInvariant, ServiceTypeOK
<1>1. PICK outcome \in {"ok", "failed", "timedOut"}, result \in State \cup {null} :
         /\ calls[r].phase = "waiting"
         /\ Finish(r, outcome, result)
         /\ outcome = "ok" /\ calls[r].op \in {"Register", "Disable"} =>
               \E p \in replies : p.to = r /\ p.kind = "Accepted" /\ p.summary = result
         /\ outcome = "failed" => \E p \in replies : p.to = r /\ p.kind # "Accepted"
  <2>1. \A p \in replies : p.summary \in State \cup {null}
    BY DEF InductiveInvariant, JournalInvariant, TypeOK, Reply
  <2>2. CASE handleConfirmation(r)
    BY <2>1, <2>2 DEF handleConfirmation
  <2>3. CASE receiveSummary(r)
    <3>1. PICK p \in replies :
             /\ p.to = r
             /\ IF p.summary.id = null THEN Finish(r, "failed", null)
                                       ELSE Finish(r, "ok", p.summary)
      BY <2>3 DEF receiveSummary
    <3>2. PICK c \in asked : p.to = c.replyTo
      BY DEF InductiveInvariant, RepliesInvariant, RepliesAreToAsks
    <3>3. calls[r].phase = "waiting" /\ calls[r].op = "Get"
      BY <2>3 DEF receiveSummary
    <3>4. p.kind # "Accepted"
      BY <3>1, <3>2, <3>3, ConfirmedIsNoGet DEF AsksAreCalls
    <3> QED BY <2>1, <3>1, <3>3, <3>4
  <2>4. CASE askTimeout(r)
    BY <2>4 DEF askTimeout
  <2> QED BY <2>2, <2>3, <2>4
<1>2. /\ calls' = [calls EXCEPT ![r].phase = outcome, ![r].result = result]
      /\ UNCHANGED <<vars, movieCounter>>
  BY <1>1 DEF Finish
<1>3. /\ calls[r] \in Call
      /\ calls'[r] = [calls[r] EXCEPT !.phase = outcome, !.result = result]
      /\ \A q \in Requests \ {r} : calls'[q] = calls[q]
  BY <1>2
<1>4. /\ calls'[r].phase = outcome /\ calls'[r].result = result
      /\ calls'[r].op = calls[r].op /\ calls'[r].movie = calls[r].movie
      /\ calls'[r] \in Call
  BY <1>3 DEF Call
<1>5. ServiceTypeOK'
  BY <1>2, <1>3, <1>4
<1>6. \A c \in asked : c.replyTo \in Requests
  BY DEF InductiveInvariant, JournalInvariant, TypeOK, Command
<1>7. AsksAreCalls'
  BY <1>2, <1>3, <1>4, <1>6 DEF AsksAreCalls, vars
<1>8. IdsAreFresh' /\ GetsWriteNothing'
  BY <1>2 DEF IdsAreFresh, GetsWriteNothing, HasEffect, vars
<1>9. ASSUME outcome = "ok", calls[r].op \in {"Register", "Disable"}
      PROVE  \E c \in asked, p \in replies :
                 /\ c.replyTo = r /\ p.to = r
                 /\ p.kind = "Accepted" /\ p.summary = result
  <2>1. PICK p \in replies : p.to = r /\ p.kind = "Accepted" /\ p.summary = result
    BY <1>1, <1>9
  <2>2. PICK c \in asked : p.to = c.replyTo
    BY DEF InductiveInvariant, RepliesInvariant, RepliesAreToAsks
  <2> QED BY <2>1, <2>2
<1>10. OutcomesAreReplies'
  <2> SUFFICES ASSUME NEW q \in Requests
               PROVE  /\ calls'[q].phase = "ok" /\ calls'[q].op \in {"Register", "Disable"} =>
                            \E c \in asked, p \in replies :
                               /\ c.replyTo = q /\ p.to = q
                               /\ p.kind = "Accepted" /\ p.summary = calls'[q].result
                      /\ calls'[q].phase = "failed" =>
                            \E p \in replies : p.to = q /\ p.kind # "Accepted"
    BY <1>2 DEF OutcomesAreReplies, vars
  <2>1. CASE q = r
    BY <1>1, <1>4, <1>9, <2>1
  <2>2. CASE q # r
    BY <1>3, <2>2 DEF OutcomesAreReplies
  <2> QED BY <2>1, <2>2
<1> QED BY <1>5, <1>7, <1>8, <1>10

LEMMA CallsStep ==
  ASSUME InductiveInvariant, InductiveInvariant', CallsInvariant, [ServiceNext]_allVars
  PROVE  CallsInvariant'
<1> USE DEF CallsInvariant
<1>1. CASE UNCHANGED allVars
  BY <1>1 DEF allVars, vars, serviceVars, ServiceTypeOK, AsksAreCalls, IdsAreFresh,
     GetsWriteNothing, HasEffect, OutcomesAreReplies
<1>2. CASE EntityStep
  <2>1. /\ asked' = asked /\ replies \subseteq replies' /\ UNCHANGED serviceVars
        /\ \A r : HasEffect(r)' => \/ HasEffect(r)
                                   \/ \E c \in asked : c.op # "Get" /\ c.replyTo = r
    BY <1>2, EntityStepKeeps
  <2>2. ServiceTypeOK' /\ AsksAreCalls' /\ IdsAreFresh' /\ OutcomesAreReplies'
    BY <2>1 DEF serviceVars, ServiceTypeOK, AsksAreCalls, IdsAreFresh, OutcomesAreReplies
  <2>3. GetsWriteNothing'
    BY <2>1 DEF GetsWriteNothing, InductiveInvariant, RepliesInvariant, AsksDiffer
  <2> QED BY <2>2, <2>3
<1>3. ASSUME NEW r \in Requests, ServiceStep(r) PROVE CallsInvariant'
  BY <1>3, BeginStep, EndStep DEF ServiceStep
<1> QED BY <1>1, <1>2, <1>3 DEF ServiceNext

LEMMA CallsInit == ServiceInit => CallsInvariant
<1> SUFFICES ASSUME ServiceInit PROVE CallsInvariant
  OBVIOUS
<1>1. asked = {} /\ replies = {} /\ movieCounter = 0
  BY DEF ServiceInit, Init
<1>2. calls = [r \in Requests |-> noCall] /\ noCall \in Call /\ noCall.phase = "idle"
  BY DEF ServiceInit, noCall, Call
<1>3. ServiceTypeOK
  BY <1>1, <1>2 DEF ServiceTypeOK
<1> QED
  BY <1>1, <1>2, <1>3 DEF CallsInvariant, AsksAreCalls, IdsAreFresh, GetsWriteNothing,
     OutcomesAreReplies

\* What holds of the calls and of the entities, together.
THEOREM ServiceInvariantHolds == ServiceSpec => []ServiceInvariant
<1>1. ServiceInit => CallsInvariant
  BY CallsInit
<1>2. InductiveInvariant /\ InductiveInvariant' /\ CallsInvariant /\ [ServiceNext]_allVars
         => CallsInvariant'
  BY CallsStep
<1>3. ServiceSpec => []InductiveInvariant
  BY ServiceDrivesAggregate, InductiveInvariantHolds, PTL
<1>4. InductiveInvariant /\ CallsInvariant => ServiceInvariant
  BY DEF ServiceInvariant
<1> QED BY <1>1, <1>2, <1>3, <1>4, PTL DEF ServiceSpec

-----------------------------------------------------------------------------
(* The theorems about calls.                                               *)

\* A call has failed because its reply said so, and such a reply has no effect.
LEMMA NoEffectOfFailure == ServiceInvariant => FailedCallsHaveNoEffect
  BY DEF ServiceInvariant, CallsInvariant, OutcomesAreReplies, FailedCallsHaveNoEffect,
         InductiveInvariant, TokensInvariant, OnlyConfirmedHaveEffect

\* A call that ends in an exception has changed nothing and never will
\* (handleConfirmation, getMovie).
THEOREM FailuresAreFinal == ServiceSpec => []FailedCallsHaveNoEffect
BY NoEffectOfFailure, ServiceInvariantHolds, PTL

\* The event of a confirmed command is the first of its movie when it registers
\* it, and the second when it disables it.
LEMMA ConfirmedEvents ==
  ASSUME ServiceInvariant, NEW c \in asked, NEW p \in replies,
         p.to = c.replyTo, p.kind = "Accepted", c.op # "Get"
  PROVE  LET k == IF c.op = "Register" THEN 1 ELSE 2
         IN  /\ k <= Len(journal[c.movie]) /\ journal[c.movie][k] = EventOf(c)
             /\ p.summary = StateAt(c.movie, journal[c.movie], k)
<1> USE DEF ServiceInvariant, InductiveInvariant, JournalInvariant
<1>1. c.movie \in Movies
  BY DEF TypeOK, Command
<1>2. PICK k \in 1 .. Len(journal[c.movie]) :
         /\ journal[c.movie][k] = EventOf(c)
         /\ p.summary = StateAt(c.movie, journal[c.movie], k)
  BY DEF RepliesInvariant, AcceptedIsDurable
<1>3. Len(journal[c.movie]) \in Nat /\ Len(journal[c.movie]) <= 2
  BY <1>1, JournalLength
<1>4. k = IF c.op = "Register" THEN 1 ELSE 2
  <2>1. k \in {1, 2}
    BY <1>2, <1>3
  <2>2. journal[c.movie][k].kind = IF c.op = "Register" THEN "Registered" ELSE "Disabled"
    BY <1>2 DEF EventOf
  <2>3. journal[c.movie][k].kind = IF k = 1 THEN "Registered" ELSE "Disabled"
    BY <1>1, <1>2, <1>3, <2>1 DEF JournalWellFormed
  <2> QED BY <2>1, <2>2, <2>3
<1> QED BY <1>2, <1>3, <1>4

\* A call that succeeded was told of the event its own command caused.
LEMMA TruthOfResponses == ServiceInvariant => ResponsesAreTrue
<1> SUFFICES ASSUME ServiceInvariant PROVE ResponsesAreTrue
  OBVIOUS
<1>1. ASSUME NEW r \in Requests, calls[r].phase = "ok", calls[r].op \in {"Register", "Disable"}
      PROVE  LET k == IF calls[r].op = "Register" THEN 1 ELSE 2
                 m == calls[r].movie
             IN  /\ k <= Len(journal[m]) /\ journal[m][k].cause = r
                 /\ calls[r].result = StateAt(m, journal[m], k)
                 /\ m \in Movies
  <2>1. PICK c \in asked, p \in replies :
           /\ c.replyTo = r /\ p.to = r
           /\ p.kind = "Accepted" /\ p.summary = calls[r].result
    BY <1>1 DEF ServiceInvariant, CallsInvariant, OutcomesAreReplies
  <2>2. calls[r].op = c.op /\ calls[r].movie = c.movie
    BY <2>1 DEF ServiceInvariant, CallsInvariant, AsksAreCalls
  <2>3. EventOf(c).cause = r /\ c.movie \in Movies
    BY <2>1 DEF EventOf, ServiceInvariant, InductiveInvariant, JournalInvariant,
                TypeOK, Command
  <2>4. c.op # "Get"
    BY <1>1, <2>2
  <2> QED BY <2>1, <2>2, <2>3, <2>4, ConfirmedEvents
<1>2. ASSUME NEW r \in Requests, calls[r].phase = "ok", calls[r].op = "Register"
      PROVE  /\ calls[r].result.id = calls[r].movie
             /\ calls[r].result.details = r
             /\ journal[calls[r].movie][1].cause = r
  <2>1. /\ journal[calls[r].movie][1].cause = r
        /\ calls[r].result = StateAt(calls[r].movie, journal[calls[r].movie], 1)
    BY <1>1, <1>2
  <2> QED BY <2>1 DEF StateAt
<1>3. ASSUME NEW r \in Requests, NEW q \in Requests,
             calls[r].phase = "ok", calls[r].op = "Disable",
             calls[q].phase = "ok", calls[q].op = "Disable",
             calls[r].movie = calls[q].movie
      PROVE  r = q
  <2>1. journal[calls[r].movie][2].cause = r /\ journal[calls[q].movie][2].cause = q
    BY <1>1, <1>3
  <2> QED BY <1>3, <2>1
<1> QED BY <1>2, <1>3 DEF ResponsesAreTrue

\* The response of registerMovie names the movie registered with the request's
\* data; at most one call of disableMovie for a movie succeeds.
THEOREM ResponsesTellTheTruth == ServiceSpec => []ResponsesAreTrue
BY TruthOfResponses, ServiceInvariantHolds, PTL

\* An entity that is not empty has replayed or written a registration, which
\* would be that of another call with the same id.
LEMMA MatchOfRegistrations == ServiceInvariant => RegistrationsMatch
<1> SUFFICES ASSUME ServiceInvariant, NEW i \in Incarnations, mailbox[i] # << >>,
                    Head(mailbox[i]).op = "Register", ~isEmpty(state[i])
             PROVE  FALSE
  BY DEF RegistrationsMatch
<1> USE DEF ServiceInvariant, InductiveInvariant, CallsInvariant
<1>c. PICK c : c = Head(mailbox[i]) OBVIOUS
<1>1. c \in asked /\ c.movie = i[2] /\ i[2] \in Movies
  BY <1>c, TailIsRouted DEF JournalInvariant, RepliesInvariant, Incarnations
<1>2. Queued(c)
  <2>1. mailbox[i] \in Seq(Command)
    BY DEF JournalInvariant, TypeOK
  <2>2. 1 \in 1 .. Len(mailbox[i]) /\ mailbox[i][1] = c
    BY <1>c, <2>1
  <2> QED BY <2>2 DEF Queued
<1>3. ~HasEffect(c.replyTo)
  BY <1>1, <1>2 DEF TokensInvariant, EffectsComeLater
<1>4. 1 \in 1 .. Len(journal[i[2]]) /\ journal[i[2]][1].kind = "Registered"
  <2>1. seqNr[i] \in {1, 2}
    BY StatusTellsSeqNr
  <2>2. Len(journal[i[2]]) \in Nat /\ 1 <= Len(journal[i[2]])
    BY <1>1, <2>1 DEF JournalInvariant, TypeOK, MemoryReflectsJournal
  <2>3. journal[i[2]] # << >>
    BY <2>2
  <2> QED BY <1>1, <2>2, <2>3 DEF JournalInvariant, JournalWellFormed
<1>5. PICK d \in asked : i[2] = d.movie /\ journal[i[2]][1] = EventOf(d)
  BY <1>1, <1>4 DEF TokensInvariant, EffectsAreAsked
<1>6. d.op = "Register" /\ journal[i[2]][1].cause = d.replyTo
  BY <1>4, <1>5 DEF EventOf
<1>7. d = c
  BY <1>1, <1>c, <1>5, <1>6 DEF IdsAreFresh
<1> QED BY <1>1, <1>3, <1>4, <1>6, <1>7 DEF HasEffect

\* A registration never meets an entity that has no case for it (registerMovie,
\* commandHandler).
THEOREM RegistrationsAreHandled == ServiceSpec => []RegistrationsMatch
BY MatchOfRegistrations, ServiceInvariantHolds, PTL
=============================================================================
