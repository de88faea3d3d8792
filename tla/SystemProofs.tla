---------------------------- MODULE SystemProofs ----------------------------
(***************************************************************************)
(* Theorems about System: what is proved of the entities, of the calls and *)
(* of the projection each by itself holds of them together, with nodes     *)
(* that start and end, for every set of movies, nodes and requests.        *)
(***************************************************************************)
EXTENDS System, MovieServiceProofs, FiniteSetTheorems

\* The theorems about the projection, of the one that System runs.
P == INSTANCE DBProjectionProofs WITH Workers <- Nodes, faults <- projectionFaults

\* The projection reads what the entities have written, and all of it.
LogIsJournal == /\ log \in Seq(P!EventRecord)
                /\ \A m \in Movies : P!Written(m) = Len(journal[m])

-----------------------------------------------------------------------------
(* The steps of the system, as those of its parts see them.                *)

EntitiesStep == /\ Internal
                /\ LogFollows
                /\ UNCHANGED <<serviceVars, stored, running, seen, cursor, envelope, table,
                               projectionFaults>>

ProjectionStep(n) == /\ Projection!Work(n) \/ Projection!Rollback(n)
                                           \/ Projection!CommitUnacknowledged(n)
                     /\ Counted

CallStep(r) == ServiceStep(r) /\ UNCHANGED projectionVars

LEMMA SystemStepShapes ==
  ASSUME [SystemNext]_systemVars
  PROVE  \/ EntitiesStep
         \/ \E n \in Nodes : Ends(n) \/ ProjectionStep(n)
         \/ \E r \in Requests : CallStep(r)
         \/ UNCHANGED <<allVars, projectionVars>>
<1>1. ASSUME NEW i \in Incarnations, WithLog(Work(i)) \/ WithLog(Passivate(i))
      PROVE  EntitiesStep
  BY <1>1 DEF WithLog, EntitiesStep, Internal
<1>2. CASE WithLog(DatabaseStep) \/ WithLog(Delivery) \/ WithLog(Mishap)
  BY <1>2 DEF WithLog, EntitiesStep, Internal, Delivery, Mishap, Misfortune
<1>3. ASSUME NEW m \in Movies, NEW n \in Nodes, WithLog(Move(m, n)) PROVE EntitiesStep
  BY <1>3 DEF WithLog, EntitiesStep, Internal, Move
<1>4. ASSUME NEW n \in Nodes, Main(n) PROVE UNCHANGED <<allVars, projectionVars>>
  BY <1>4 DEF Main
<1>5. ASSUME NEW n \in Nodes, ProjectionWork(n) \/ ProjectionMishap(n)
      PROVE  ProjectionStep(n)
  BY <1>5 DEF ProjectionWork, ProjectionMishap, ProjectionStep
<1>6. ASSUME NEW n \in Nodes, NEW r \in Requests, CallAt(n, r) PROVE CallStep(r)
  BY <1>6 DEF CallAt, CallStep, ServiceStep, projectionVars
<1>7. ASSUME NEW r \in Requests, Answered(r) \/ TimesOut(r) PROVE CallStep(r)
  BY <1>7 DEF Answered, TimesOut, Over, CallStep, ServiceStep, projectionVars
<1>8. CASE UNCHANGED systemVars
  BY <1>8 DEF systemVars
<1> QED
  BY <1>1, <1>2, <1>3, <1>4, <1>5, <1>6, <1>7, <1>8 DEF SystemNext

-----------------------------------------------------------------------------
(* The entities and the calls, in the system.                              *)

\* The count of faults bounds the model; nothing else depends on it.
LEMMA OnlyFaults ==
  ASSUME ServiceInvariant, faults' \in Nat,
         UNCHANGED <<journal, writes, home, entityVars, asked, inFlight, replies, serviceVars>>
  PROVE  ServiceInvariant'
<1> USE DEF entityVars, serviceVars
<1>1. JournalInvariant'
  BY DEF ServiceInvariant, InductiveInvariant, JournalInvariant, TypeOK, TargetsExist,
     PersistsForCommand, WritesLegal, JournalWellFormed, MemoryReflectsJournal, StateAt
<1>2. RepliesInvariant'
  BY DEF ServiceInvariant, InductiveInvariant, RepliesInvariant, AsksDiffer,
     CommandsAreRouted, RepliesAreToAsks, AcceptedIsDurable, StateAt
<1>3. /\ QueuedOnce' /\ TakenOnce' /\ EffectsOnce' /\ EffectsAreAsked'
      /\ EffectsComeLater' /\ AnswersComeLast' /\ OnlyConfirmedHaveEffect'
      /\ OneAnswerPerRequest' /\ RejectedIsJustified'
  BY DEF ServiceInvariant, InductiveInvariant, TokensInvariant, QueuedOnce, TakenOnce,
     EffectsOnce, OneEffectPerRequest, EffectsAreAsked, EffectsComeLater, AnswersComeLast,
     OnlyConfirmedHaveEffect, OneAnswerPerRequest, RejectedIsJustified,
     Queued, InHand, HasEffect
<1>4. ReadsInvariant'
  BY DEF ServiceInvariant, InductiveInvariant, ReadsInvariant, AwakeAtHome, ConfirmedIsKnown
<1>5. CallsInvariant'
  BY DEF ServiceInvariant, CallsInvariant, ServiceTypeOK, AsksAreCalls, IdsAreFresh,
     GetsWriteNothing, HasEffect, OutcomesAreReplies
<1> QED BY <1>1, <1>2, <1>3, <1>4, <1>5 DEF ServiceInvariant, InductiveInvariant, TokensInvariant

\* The calls that a node takes along with it have timed out for their callers.
LEMMA EndsKeepsCalls ==
  ASSUME ServiceInvariant, NEW n \in Nodes, Ends(n)
  PROVE  ServiceInvariant'
<1>1. Crash(n)
  BY DEF Ends
<1>2. InductiveInvariant'
  BY <1>1, InvariantStep DEF ServiceInvariant, Next, Internal, Misfortune
<1>3. /\ UNCHANGED <<journal, writes, asked, replies, movieCounter>>
      /\ calls' = [r \in Requests |->
                      IF servedAt[r] = n
                      THEN [calls[r] EXCEPT !.phase = "timedOut"] ELSE calls[r]]
  BY <1>1 DEF Ends, Crash
<1> USE DEF ServiceInvariant, CallsInvariant
<1>4. ASSUME NEW r \in Requests
      PROVE  /\ calls'[r] \in Call
             /\ calls'[r].op = calls[r].op /\ calls'[r].movie = calls[r].movie
             /\ \/ calls'[r] = calls[r]
                \/ calls'[r].phase = "timedOut"
  BY <1>3 DEF ServiceTypeOK, Call
<1>5. ServiceTypeOK'
  BY <1>3, <1>4 DEF ServiceTypeOK
<1>6. \A c \in asked : c.replyTo \in Requests
  BY DEF InductiveInvariant, JournalInvariant, TypeOK, Command
<1>7. AsksAreCalls'
  BY <1>3, <1>4, <1>6 DEF AsksAreCalls
<1>8. IdsAreFresh' /\ GetsWriteNothing'
  BY <1>3 DEF IdsAreFresh, GetsWriteNothing, HasEffect
<1>9. OutcomesAreReplies'
  BY <1>3, <1>4 DEF OutcomesAreReplies
<1> QED BY <1>2, <1>5, <1>7, <1>8, <1>9

LEMMA ServiceInvariantStep ==
  ASSUME ServiceInvariant, [SystemNext]_systemVars
  PROVE  ServiceInvariant'
<1>1. ASSUME [ServiceNext]_allVars PROVE ServiceInvariant'
  <2>1. InductiveInvariant'
    BY <1>1, ServiceStepIsStep, InvariantStep DEF ServiceInvariant
  <2> QED BY <1>1, <2>1, CallsStep DEF ServiceInvariant
<1>2. CASE EntitiesStep
  BY <1>1, <1>2 DEF EntitiesStep, EntityStep, ServiceNext
<1>3. CASE \E r \in Requests : CallStep(r)
  BY <1>1, <1>3 DEF CallStep, ServiceNext
<1>4. CASE UNCHANGED <<allVars, projectionVars>>
  BY <1>1, <1>4
<1>5. ASSUME NEW n \in Nodes, ProjectionStep(n) PROVE ServiceInvariant'
  <2>1. faults \in Nat
    BY DEF ServiceInvariant, InductiveInvariant, JournalInvariant, TypeOK
  <2>2. faults' \in Nat
    BY <1>5, <2>1 DEF ProjectionStep, Counted, Fault
  <2> QED BY <1>5, <2>2, OnlyFaults DEF ProjectionStep, Counted
<1> QED
  BY <1>2, <1>3, <1>4, <1>5, EndsKeepsCalls, SystemStepShapes

\* What holds of the entities and the calls by themselves holds in the system,
\* in which nodes start and end (ManagementApp).
THEOREM ServiceInvariantInSystem == SystemSpec => []ServiceInvariant
<1>1. SystemInit => ServiceInvariant
  BY InvariantInit, CallsInit DEF SystemInit, ServiceInit, ServiceInvariant
<1>2. ServiceInvariant /\ [SystemNext]_systemVars => ServiceInvariant'
  BY ServiceInvariantStep
<1> QED BY <1>1, <1>2, PTL DEF SystemSpec

-----------------------------------------------------------------------------
(* What is promised to callers, in the system.                             *)

\* A step of the system is one of the entities, or leaves journal and replies.
LEMMA EntitiesSee ==
  ASSUME [SystemNext]_systemVars
  PROVE  [Next]_vars \/ UNCHANGED <<journal, replies>>
<1>1. CASE EntitiesStep
  BY <1>1 DEF EntitiesStep, Next
<1>2. ASSUME NEW n \in Nodes, Ends(n) PROVE [Next]_vars
  BY <1>2 DEF Ends, Next, Internal, Misfortune
<1>3. CASE \E r \in Requests : CallStep(r)
  BY <1>3, ServiceStepIsStep DEF CallStep, ServiceNext
<1>4. CASE \/ \E n \in Nodes : ProjectionStep(n)
           \/ UNCHANGED <<allVars, projectionVars>>
  BY <1>4 DEF ProjectionStep, Counted, allVars, vars
<1> QED BY <1>1, <1>2, <1>3, <1>4, SystemStepShapes

\* With nodes that start and end as with entities alone, a movie is registered
\* once and then disabled once.
THEOREM SystemImplementsLifecycle == SystemSpec => ImplementsLifecycle
<1>1. SystemInit => Lifecycle!Init
  BY LifecycleStarts DEF SystemInit, ServiceInit
<1>2. ServiceInvariant /\ [SystemNext]_systemVars
         => [Lifecycle!Next]_([m \in Movies |-> StatusOf(journal[m])])
  BY EntitiesSee, LifecycleSteps DEF ServiceInvariant, InductiveInvariant
<1> QED
  BY <1>1, <1>2, ServiceInvariantInSystem, PTL
  DEF ImplementsLifecycle, Lifecycle!Spec, SystemSpec

\* A caller is told the truth also by a service whose nodes end under it: an
\* exception means that nothing was written, a response carries the caller's own
\* registration, and one of racing calls of disableMovie at most succeeds.
THEOREM CallersAreToldTheTruth ==
  SystemSpec => [](FailedCallsHaveNoEffect /\ ResponsesAreTrue /\ RegistrationsMatch)
BY NoEffectOfFailure, TruthOfResponses, MatchOfRegistrations,
   ServiceInvariantInSystem, PTL

\* Unless the cluster is split, a Get shows at least what has been confirmed,
\* whichever nodes have ended since (getMovie, onGet).
THEOREM SystemReadsAreCurrent == SystemSpec => ReadsSeeConfirmations
<1>1. ServiceInvariant /\ [SystemNext]_systemVars =>
         [~SplitBrain =>
            \A c \in asked, p \in replies' \ replies, q \in replies :
               /\ p.to = c.replyTo /\ p.kind = "Summary"
               /\ q.kind = "Accepted" /\ q.summary.id = c.movie
               => Rank(q.summary) <= Rank(p.summary)]_vars
  BY EntitiesSee, SummaryIsCurrent DEF ServiceInvariant
<1> QED
  BY <1>1, ServiceInvariantInSystem, PTL DEF SystemSpec, ReadsSeeConfirmations

-----------------------------------------------------------------------------
(* The projection, in the system.                                          *)

\* System and P speak of one projection.
LEMMA SameProjection ==
  /\ \A m : P!Written(m) = Projection!Written(m)
  /\ \A m : (P!Written(m) = Projection!Written(m))'
  BY DEF P!Written, Projection!Written, P!Cardinality, Projection!Cardinality

\* The insert that commits is the next event of its movie in the log (Write).
LEMMA CommitIsWrite ==
  ASSUME ServiceInvariant, ServiceInvariant', LogIsJournal,
         NEW w \in writes, JournalCommit(w), LogFollows,
         UNCHANGED <<stored, running, seen, cursor, envelope, projectionFaults>>
  PROVE  LogIsJournal' /\ Projection!Write(w.movie) /\ w.movie \in Movies
<1> USE DEF ServiceInvariant, InductiveInvariant, JournalInvariant
<1> DEFINE m == w.movie
           e == [movie |-> m, seqNr |-> Len(journal'[m]), kind |-> journal'[m][Len(journal'[m])].kind]
<1>1. m \in Movies /\ w.event \in Event
  BY DEF TypeOK, Write
<1>2. /\ journal[m] \in Seq(Event)
      /\ journal'[m] = Append(journal[m], w.event)
      /\ \A n \in Movies \ {m} : journal'[n] = journal[n]
  BY <1>1 DEF JournalCommit, TypeOK
<1>3. /\ Len(journal[m]) \in Nat
      /\ Len(journal'[m]) = Len(journal[m]) + 1
  BY <1>2
<1>4. journal'[m] # journal[m] /\ journal' # journal
  BY <1>3
<1>5. (CHOOSE x \in Movies : journal'[x] # journal[x]) = m
  BY <1>1, <1>2, <1>4
<1>6. log' = Append(log, e)
  BY <1>4, <1>5 DEF LogFollows
<1>7. \/ Len(journal'[m]) = 1 /\ journal'[m][1].kind = "Registered"
      \/ Len(journal'[m]) = 2 /\ journal'[m][2].kind = "Disabled"
  <2>1. journal'[m] # << >>
    BY <1>3
  <2> QED BY <1>1, <2>1 DEF JournalWellFormed
<1>8. Len(journal[m]) \in {0, 1}
  <2> DEFINE k == Len(journal[m])
  <2>1. k \in Nat /\ (k + 1 = 1 \/ k + 1 = 2)
    BY <1>3, <1>7
  <2> HIDE DEF k
  <2>2. k \in {0, 1}
    BY <2>1
  <2> QED BY <2>2 DEF k
<1>9. e.kind = IF Len(journal[m]) = 0 THEN "Registered" ELSE "Disabled"
  BY <1>3, <1>7
<1>10. P!Written(m) = Len(journal[m])
  BY <1>1 DEF LogIsJournal
<1>11. e \in P!EventRecord
  <2>1. Len(journal'[m]) \in 1 .. 2 /\ e.kind \in {"Registered", "Disabled"}
    BY <1>7, <1>9
  <2> QED BY <1>1, <2>1 DEF P!EventRecord, P!Kinds
<1>12. Projection!Write(m)
  <2>1. Projection!Written(m) = Len(journal[m])
    BY <1>10, SameProjection
  <2>2. Projection!Written(m) < 2 /\ Projection!Written(m) + 1 = Len(journal'[m])
    <3>1. \A k \in {0, 1} : k < 2
      OBVIOUS
    <3> QED BY <1>3, <1>8, <2>1, <3>1
  <2>3. e = [movie |-> m, seqNr |-> Projection!Written(m) + 1,
             kind |-> IF Projection!Written(m) = 0 THEN "Registered" ELSE "Disabled"]
    BY <1>9, <2>1, <2>2
  <2> QED BY <1>6, <2>2, <2>3 DEF Projection!Write
<1> HIDE DEF e
<1>13. /\ log' \in Seq(P!EventRecord)
       /\ \A n : P!Written(n)' = IF n = e.movie THEN P!Written(n) + 1 ELSE P!Written(n)
  BY <1>6, <1>11, P!AppendCounts DEF LogIsJournal
<1>14. e.movie = m
  BY DEF e
<1>15. LogIsJournal'
  BY <1>2, <1>3, <1>13, <1>14 DEF LogIsJournal, P!EventRecord, P!Kinds
<1> QED BY <1>1, <1>12, <1>15

\* Of the steps of the system, the projection sees commits, its own steps, and
\* the end of a node that runs its worker.
LEMMA ProjectionSees ==
  ASSUME ServiceInvariant, ServiceInvariant', LogIsJournal, [SystemNext]_systemVars
  PROVE  LogIsJournal' /\ [Projection!Next]_Projection!vars
<1> USE DEF Projection!vars, Projection!sourceVars
<1>1. ASSUME UNCHANGED <<journal, log>> PROVE LogIsJournal'
  BY <1>1 DEF LogIsJournal, P!EventRecord, P!Kinds, P!Written
<1>2. CASE EntitiesStep
  <2>1. [Next]_vars
    BY <1>2 DEF EntitiesStep, Next
  <2>2. CASE journal' = journal
    <3>1. UNCHANGED Projection!vars
      BY <1>2, <2>2 DEF EntitiesStep, LogFollows
    <3> QED BY <1>1, <2>2, <3>1
  <2>3. CASE \E w \in writes : JournalCommit(w)
    <3>1. PICK w \in writes : JournalCommit(w)
      BY <2>3
    <3>2. LogIsJournal' /\ Projection!Write(w.movie) /\ w.movie \in Movies
      BY <1>2, <3>1, CommitIsWrite DEF EntitiesStep
    <3> QED BY <1>2, <3>2 DEF EntitiesStep, Projection!Next
  <2> QED BY <2>1, <2>2, <2>3, JournalUnchangedButByCommit
<1>3. ASSUME NEW n \in Nodes, ProjectionStep(n)
      PROVE  LogIsJournal' /\ [Projection!Next]_Projection!vars
  <2>1. journal' = journal
    BY <1>3 DEF ProjectionStep, Counted
  <2>2. log' = log
    BY <1>3 DEF ProjectionStep, Projection!Work, Projection!StartWorker,
       Projection!RestartWorker, Projection!ReadOffsets, Projection!Accept,
       Projection!PassOver, Projection!Commit, Projection!Refused, Projection!Rollback,
       Projection!CommitUnacknowledged
  <2> QED BY <1>1, <1>3, <2>1, <2>2 DEF ProjectionStep, Projection!Next
<1>4. ASSUME NEW n \in Nodes, Ends(n)
      PROVE  LogIsJournal' /\ [Projection!Next]_Projection!vars
  <2>1. journal' = journal
    BY <1>4 DEF Ends, Crash
  <2>2. CASE Projection!StopWorker(n) /\ UNCHANGED table
    BY <1>1, <2>1, <2>2 DEF Projection!StopWorker, Projection!Next
  <2>3. CASE UNCHANGED projectionVars
    BY <1>1, <2>1, <2>3 DEF projectionVars
  <2> QED BY <1>4, <2>2, <2>3 DEF Ends
<1>5. CASE \E r \in Requests : CallStep(r)
  <2>1. journal' = journal
    BY <1>5, CallsAsk, CallsEnd DEF CallStep, ServiceStep, AskEntity, Ask, vars
  <2> QED BY <1>1, <1>5, <2>1 DEF CallStep, projectionVars
<1>6. CASE UNCHANGED <<allVars, projectionVars>>
  BY <1>1, <1>6 DEF allVars, vars, projectionVars
<1> QED
  BY <1>2, <1>3, <1>4, <1>5, <1>6, SystemStepShapes

LEMMA LogStarts == SystemInit => LogIsJournal
<1> SUFFICES ASSUME SystemInit PROVE LogIsJournal
  OBVIOUS
<1>1. log = << >> /\ \A m \in Movies : Len(journal[m]) = 0
  BY DEF SystemInit, Projection!Init, Projection!SourceInit, ServiceInit, Init
<1>2. P!SourceInit
  BY DEF SystemInit, Projection!Init, Projection!SourceInit, P!SourceInit
<1>3. \A m : P!Written(m) = 0
  BY <1>2, P!SourceStarts
<1> QED BY <1>1, <1>3 DEF LogIsJournal

\* Fed by the commits of the aggregates, and with workers that come and go with
\* their nodes, the projection is the one DBProjection describes (startProjection,
\* ManagementApp).
THEOREM SystemRunsProjection == SystemSpec => ImplementsProjection
<1>1. SystemInit => Projection!Init /\ LogIsJournal
  BY LogStarts DEF SystemInit
<1>2. ServiceInvariant /\ ServiceInvariant' /\ LogIsJournal /\ [SystemNext]_systemVars
         => LogIsJournal' /\ [Projection!Next]_Projection!vars
  BY ProjectionSees
<1> QED
  BY <1>1, <1>2, ServiceInvariantInSystem, PTL
  DEF SystemSpec, ImplementsProjection, Projection!Spec

-----------------------------------------------------------------------------
(* What the read side shows.                                               *)

\* The definitions that P and Projection have in common.
LEMMA SameSteps ==
  /\ Projection!Init => P!Init
  /\ [Projection!Next]_Projection!vars => [P!Next]_P!vars
<1> USE DEF Projection!Fault, P!Fault, Projection!Alone, P!Alone, Projection!Event, P!Event
<1>1. Projection!Init => P!Init
  BY DEF Projection!Init, Projection!SourceInit, P!Init, P!SourceInit
<1>2. \A m \in Movies : Projection!Write(m) => P!Write(m)
  BY SameProjection DEF Projection!Write, P!Write
<1>3. \A w \in Nodes : Projection!ReadOffsets(w) => P!ReadOffsets(w)
  BY DEF Projection!ReadOffsets, P!ReadOffsets, Projection!LatestStored, P!LatestStored
<1>4. \A w \in Nodes : /\ Projection!StartWorker(w) => P!StartWorker(w)
                       /\ Projection!RestartWorker(w) => P!RestartWorker(w)
  BY <1>3 DEF Projection!StartWorker, P!StartWorker, Projection!RestartWorker, P!RestartWorker
<1>5. \A w \in Nodes : /\ \A k \in DOMAIN log : Projection!Accept(w, k) => P!Accept(w, k)
                       /\ Projection!PassOver(w) => P!PassOver(w)
  BY DEF Projection!Accept, P!Accept, Projection!PassOver, P!PassOver,
     Projection!NextOf, P!NextOf, Projection!Max, P!Max
<1>6. \A w \in Nodes : Projection!StopWorker(w) => P!StopWorker(w)
  BY DEF Projection!StopWorker, P!StopWorker, Projection!Forget, P!Forget
<1>7. \A e : /\ Projection!Admitted(e) <=> P!Admitted(e)
             /\ Projection!Transaction(e) => P!Transaction(e)
  BY DEF Projection!Admitted, P!Admitted, Projection!Transaction, P!Transaction,
     Projection!InsertFits, P!InsertFits, Projection!InsertColumns, P!InsertColumns
<1>8. \A w \in Nodes : /\ Projection!Commit(w) => P!Commit(w)
                       /\ Projection!Refused(w) => P!Refused(w)
                       /\ Projection!Rollback(w) => P!Rollback(w)
                       /\ Projection!CommitUnacknowledged(w) => P!CommitUnacknowledged(w)
  BY <1>7 DEF Projection!Commit, P!Commit, Projection!Refused, P!Refused,
     Projection!Rollback, P!Rollback, Projection!CommitUnacknowledged,
     P!CommitUnacknowledged, Projection!Fail, P!Fail, Projection!Forget, P!Forget
<1>9. Projection!Next => P!Next
  BY <1>2, <1>4, <1>5, <1>6, <1>8 DEF Projection!Next, P!Next, Projection!Work, P!Work
<1>10. UNCHANGED Projection!vars => UNCHANGED P!vars
  BY DEF Projection!vars, Projection!sourceVars, P!vars, P!sourceVars
<1> QED BY <1>1, <1>9, <1>10

\* The log is the journal, and what is proved of the projection holds of it here.
LEMMA LogIsJournalInSystem == SystemSpec => [](LogIsJournal /\ P!ProjectionInvariant)
<1>1. SystemInit => LogIsJournal
  BY LogStarts
<1>2. ServiceInvariant /\ ServiceInvariant' /\ LogIsJournal /\ [SystemNext]_systemVars
         => LogIsJournal'
  BY ProjectionSees
<1>3. ImplementsProjection => P!Spec
  BY SameSteps, PTL DEF ImplementsProjection, Projection!Spec, P!Spec
<1> QED
  BY <1>1, <1>2, <1>3, ServiceInvariantInSystem, SystemRunsProjection,
     P!ProjectionInvariantHolds, PTL DEF SystemSpec

\* End to end: the table is what ExactlyOnce promises of the journal itself, since
\* the projection is exactly once and the log it follows is the journal.
THEOREM TableIsExactlyOnce == SystemSpec => TableFollowsJournal
<1>1. SystemSpec => P!ImplementsExactlyOnce
  <2>1. ImplementsProjection => P!Spec
    BY SameSteps, PTL DEF ImplementsProjection, Projection!Spec, P!Spec
  <2> QED BY <2>1, SystemRunsProjection, P!ProjectionIsExactlyOnce, PTL
<1>2. LogIsJournal => [m \in Movies |-> P!Written(m)] = [m \in Movies |-> Len(journal[m])]
  BY DEF LogIsJournal
<1>3. LogIsJournal /\ P!Promise!Init => Listing!Init
  BY <1>2 DEF P!Promise!Init, Listing!Init
<1>4. /\ LogIsJournal /\ LogIsJournal'
      /\ [P!Promise!Next]_<<[m \in Movies |-> P!Written(m)], stored, table>>
      => [Listing!Next]_<<[m \in Movies |-> Len(journal[m])], stored, table>>
  <2> SUFFICES ASSUME LogIsJournal, LogIsJournal',
                      [P!Promise!Next]_<<[m \in Movies |-> P!Written(m)], stored, table>>
               PROVE  [Listing!Next]_<<[m \in Movies |-> Len(journal[m])], stored, table>>
    OBVIOUS
  <2>1. /\ [m \in Movies |-> P!Written(m)] = [m \in Movies |-> Len(journal[m])]
        /\ [m \in Movies |-> P!Written(m)]' = [m \in Movies |-> Len(journal[m])]'
    BY DEF LogIsJournal
  <2>2. ASSUME NEW m \in Movies, P!Promise!Write(m) PROVE Listing!Write(m)
    BY <2>1, <2>2 DEF P!Promise!Write, Listing!Write
  <2>3. ASSUME NEW m \in Movies, P!Promise!Process(m) PROVE Listing!Process(m)
    BY <2>1, <2>3 DEF P!Promise!Process, Listing!Process
  <2> QED BY <2>1, <2>2, <2>3 DEF P!Promise!Next, Listing!Next
<1> QED
  BY <1>1, <1>3, <1>4, LogIsJournalInSystem, PTL
  DEF P!ImplementsExactlyOnce, P!Promise!Spec, TableFollowsJournal, Listing!Spec

\* Without a fault, and unless the cluster is split, the entity at the home of a
\* movie is, or is going to be, up to date with its journal, and no insert is under
\* way but its own.
Settled(m) ==
    LET i == <<home[m], m>> IN
    /\ phase[i] # "backoff"
    /\ phase[i] = "ready" => seqNr[i] = Len(journal[m])
    /\ phase[i] = "recovering" => target[i] = Len(journal[m])
    /\ phase[i] # "persisting" => \A w \in writes : w.movie # m
    /\ phase[i] = "persisting" =>
          \/ /\ seqNr[i] = Len(journal[m])
             /\ WriteOf(i) \in writes
             /\ \A w \in writes : w.movie = m => w = WriteOf(i)
          \/ /\ seqNr[i] + 1 = Len(journal[m])
             /\ Written(i)
             /\ \A w \in writes : w.movie # m

AllSettled == ~SplitBrain /\ faults = 0 => \A m \in Movies : Settled(m)

\* What concerns other movies leaves m settled.
LEMMA SettledFrame ==
  ASSUME TypeOK, NEW m \in Movies, Settled(m), NEW i, i = <<home[m], m>>,
         home'[m] = home[m], journal'[m] = journal[m], phase'[i] = phase[i],
         seqNr'[i] = seqNr[i], target'[i] = target[i], current'[i] = current[i],
         \A w : w.movie = m => (w \in writes' <=> w \in writes)
  PROVE  Settled(m)'
<1>1. <<home'[m], m>> = i
  OBVIOUS
<1>2. i[2] = m
  OBVIOUS
<1>3. /\ (WriteOf(<<home[m], m>>))' = WriteOf(i)
      /\ (Written(<<home[m], m>>))' = Written(i)
      /\ WriteOf(i).movie = m
  BY <1>1, <1>2 DEF WriteOf, Written
<1> QED BY <1>1, <1>3 DEF Settled

\* A step of the entity of m at its home.
LEMMA SettledWork ==
  ASSUME JournalInvariant, NEW m \in Movies, Settled(m), faults' = faults, faults \in Nat,
         NEW i \in Incarnations, i = <<home[m], m>>, Work(i) \/ Passivate(i)
  PROVE  Settled(m)'
<1> USE DEF JournalInvariant
<1>m. i[2] = m /\ seqNr[i] \in Nat /\ Len(journal[m]) \in Nat
  BY DEF TypeOK
<1>h. home' = home /\ journal' = journal
  BY DEF Work, Start, Restart, BeginReplay, ReplayEvent, RecoveryCompleted, onRegister,
     onDisable, onDisableDisabled, onGet, onUnmatched, Persist, ReplyWith, Persisted,
     PersistRefused, BackOff, Passivate
<1>i. <<home'[m], m>> = i
  BY <1>h
<1>1. CASE Start(i) \/ Restart(i)
  <2>1. /\ phase'[i] = "recovering" /\ target'[i] = Len(journal[m]) /\ writes' = writes
        /\ phase[i] # "persisting"
    BY <1>1, <1>m DEF Start, Restart, BeginReplay, TypeOK
  <2> QED BY <1>h, <1>i, <2>1 DEF Settled
<1>2. CASE ReplayEvent(i)
  <2>1. phase[i] = "recovering" /\ UNCHANGED <<phase, target, writes>>
    BY <1>2 DEF ReplayEvent
  <2> QED BY <1>h, <1>i, <2>1 DEF Settled
<1>3. CASE RecoveryCompleted(i)
  <2>1. /\ phase[i] = "recovering" /\ phase'[i] = "ready" /\ seqNr'[i] = target[i]
        /\ writes' = writes
    BY <1>3 DEF RecoveryCompleted, TypeOK
  <2> QED BY <1>h, <1>i, <2>1 DEF Settled
<1>4. CASE onRegister(i) \/ onDisable(i)
  <2> DEFINE c == Head(mailbox[i])
             w == [movie |-> i[2], seqNr |-> seqNr[i] + 1, event |-> EventOf(c)]
  <2>1. /\ phase[i] = "ready" /\ phase'[i] = "persisting" /\ current'[i] = c
        /\ writes' = writes \cup {w} /\ seqNr' = seqNr
    BY <1>4 DEF onRegister, onDisable, Takes, Persist, TypeOK
  <2>2. (WriteOf(<<home[m], m>>))' = w
    BY <1>i, <2>1 DEF WriteOf, EventOf
  <2>3. \A v \in writes : v.movie # m
    BY <2>1 DEF Settled
  <2> HIDE DEF w
  <2> QED BY <1>h, <1>i, <2>1, <2>2, <2>3 DEF Settled
<1>5. CASE onDisableDisabled(i) \/ onGet(i)
  <2>1. UNCHANGED <<phase, target, seqNr, writes>> /\ phase[i] = "ready"
    BY <1>5 DEF onDisableDisabled, onGet, Takes, ReplyWith
  <2> QED BY <1>h, <1>i, <2>1 DEF Settled
<1>6. CASE onUnmatched(i) \/ Passivate(i)
  <2>1. phase[i] = "ready" /\ phase'[i] = "stopped" /\ writes' = writes
    BY <1>6 DEF onUnmatched, Passivate, TypeOK
  <2> QED BY <1>h, <1>i, <2>1 DEF Settled
<1>7. CASE Persisted(i)
  <2>1. /\ phase[i] = "persisting" /\ phase'[i] = "ready" /\ Written(i)
        /\ seqNr'[i] = seqNr[i] + 1 /\ writes' = writes
    BY <1>7 DEF Persisted, TypeOK
  <2>2. seqNr[i] # Len(journal[m])
    BY <1>m, <2>1 DEF Written
  <2> QED BY <1>h, <1>i, <2>1, <2>2 DEF Settled
<1>8. CASE PersistRefused(i)
  BY <1>8 DEF PersistRefused, Settled
<1> QED
  BY <1>1, <1>2, <1>3, <1>4, <1>5, <1>6, <1>7, <1>8 DEF Work

LEMMA SettledCommit ==
  ASSUME JournalInvariant, NEW m \in Movies, Settled(m),
         NEW w \in writes, JournalCommit(w) \/ JournalReject(w)
  PROVE  Settled(m)'
<1> USE DEF JournalInvariant
<1>i. PICK i : i = <<home[m], m>>
  OBVIOUS
<1>m. /\ i \in Incarnations /\ i[2] = m /\ seqNr[i] \in Nat /\ Len(journal[m]) \in Nat
      /\ w.movie \in Movies /\ w.event \in Event /\ journal[m] \in Seq(Event)
  BY <1>i DEF TypeOK, Incarnations, Write
<1>h. UNCHANGED <<home, phase, seqNr, target, current>> /\ writes' = writes \ {w}
  BY DEF JournalCommit, JournalReject, entityVars
<1>1. CASE w.movie # m
  <2>1. journal'[m] = journal[m]
    BY <1>1, <1>m DEF JournalCommit, JournalReject, TypeOK
  <2>2. \A v : v.movie = m => (v \in writes' <=> v \in writes)
    BY <1>1, <1>h
  <2> QED BY <1>h, <1>i, <2>1, <2>2, SettledFrame
<1>2. CASE w.movie = m
  <2>1. /\ phase[i] = "persisting" /\ seqNr[i] = Len(journal[m])
        /\ w = WriteOf(i)
        /\ \A v \in writes : v.movie = m => v = WriteOf(i)
    BY <1>i, <1>2 DEF Settled
  <2>2. w.seqNr = Len(journal[m]) + 1 /\ w.event = EventOf(current[i])
    BY <2>1 DEF WriteOf
  <2>3. journal'[m] = Append(journal[m], w.event)
    BY <1>2, <1>m, <2>2 DEF JournalCommit, JournalReject, TypeOK
  <2>4. /\ Len(journal'[m]) = Len(journal[m]) + 1
        /\ journal'[m][Len(journal[m]) + 1] = w.event
    BY <1>m, <2>3
  <2>5. <<home'[m], m>> = i
    BY <1>h, <1>i
  <2>6. (Written(<<home[m], m>>))'
    <3>1. /\ seqNr'[i] = Len(journal[m])
          /\ EventOf(current'[i]) = EventOf(current[i])
      BY <1>h, <2>1
    <3>2. /\ seqNr'[i] < Len(journal'[i[2]])
          /\ journal'[i[2]][seqNr'[i] + 1] = EventOf(current'[i])
      BY <1>m, <2>2, <2>4, <3>1
    <3> HIDE DEF JournalInvariant
    <3> QED BY <2>5, <3>2 DEF Written
  <2>7. \A v \in writes' : v.movie # m
    BY <1>h, <2>1
  <2> QED BY <1>h, <1>m, <2>1, <2>4, <2>5, <2>6, <2>7 DEF Settled
<1> QED BY <1>1, <1>2

LEMMA SettledStep ==
  ASSUME JournalInvariant, ReadsInvariant, AllSettled, [Next]_vars
  PROVE  AllSettled'
<1> SUFFICES ASSUME ~SplitBrain, faults' = 0, NEW m \in Movies
             PROVE  Settled(m)'
  BY DEF AllSettled
<1> USE DEF JournalInvariant
<1>1. faults \in Nat /\ AwakeAtHome
  BY DEF TypeOK, ReadsInvariant
<1>2. faults = 0 /\ ~Misfortune
  <2>1. Misfortune => faults' = faults + 1
    BY DEF Misfortune, Lose, RecoveryFailed, PersistTimedOut, JournalRollback, Crash, Fault
  <2>2. ~Misfortune => faults' = faults
    BY DEF Next, Internal, Work, DatabaseStep, vars, entityVars, Ask, Deliver,
       HandOff, Start, Restart, BeginReplay, ReplayEvent, RecoveryCompleted,
       onRegister, onDisable, onDisableDisabled, onGet, onUnmatched, Persist, ReplyWith,
       JournalCommit, JournalReject, Persisted, PersistRefused, Passivate
  <2> QED BY <1>1, <2>1, <2>2
<1>s. Settled(m)
  BY <1>2 DEF AllSettled
<1>i. PICK i : i = <<home[m], m>>
  OBVIOUS
<1>m. i \in Incarnations
  BY <1>i DEF TypeOK, Incarnations
<1>3. CASE \/ UNCHANGED vars
           \/ \E c \in Command : Ask(c)
           \/ \E c \in inFlight : Deliver(c)
  <2>1. UNCHANGED <<journal, writes, home, phase, seqNr, target, current>>
    BY <1>3 DEF vars, entityVars, Ask, Deliver
  <2> QED BY <1>s, <1>i, <2>1, SettledFrame
<1>4. ASSUME NEW x \in Movies, NEW n \in Nodes, HandOff(x, n) PROVE Settled(m)'
  <2>1. /\ UNCHANGED <<journal, writes, phase, seqNr, target, current>>
        /\ n # home[x] /\ phase[<<home[x], x>>] = "stopped"
        /\ home' = [home EXCEPT ![x] = n]
    BY <1>4 DEF HandOff, entityVars
  <2>2. CASE x # m
    BY <1>s, <1>i, <2>1, <2>2, SettledFrame DEF TypeOK
  <2>3. CASE x = m
    <3>1. <<home'[m], m>> = <<n, m>>
      BY <2>1, <2>3 DEF TypeOK
    <3>2. phase[<<n, m>>] = "stopped"
      BY <1>1, <2>1, <2>3 DEF AwakeAtHome, Incarnations
    <3>3. \A w \in writes : w.movie # m
      BY <1>s, <2>1, <2>3 DEF Settled
    <3> QED BY <2>1, <3>1, <3>2, <3>3 DEF Settled
  <2> QED BY <2>2, <2>3
<1>5. ASSUME NEW j \in Incarnations, Work(j) \/ Passivate(j) PROVE Settled(m)'
  <2>1. CASE j = i
    BY <1>1, <1>2, <1>s, <1>i, <1>m, <1>5, <2>1, SettledWork
  <2>2. CASE j # i
    <3>1. phase[j] # "stopped" \/ mailbox[j] # << >>
      BY <1>5 DEF Work, Start, Restart, ReplayEvent, RecoveryCompleted, onRegister,
         onDisable, onDisableDisabled, onGet, onUnmatched, Takes, Persisted,
         PersistRefused, Passivate
    <3>2. j[1] = home[j[2]] /\ j = <<j[1], j[2]>>
      BY <1>1, <3>1 DEF AwakeAtHome, Incarnations
    <3>3. j[2] # m
      BY <1>i, <2>2, <3>2
    <3>4. /\ UNCHANGED <<journal, home>>
          /\ phase'[i] = phase[i] /\ seqNr'[i] = seqNr[i]
          /\ target'[i] = target[i] /\ current'[i] = current[i]
      BY <1>5, <1>m, <2>2 DEF Work, Start, Restart, BeginReplay, ReplayEvent,
         RecoveryCompleted, onRegister, onDisable, onDisableDisabled, onGet, onUnmatched,
         Persist, ReplyWith, Persisted, PersistRefused, BackOff, Passivate, Forget, TypeOK
    <3>5. \/ writes' = writes
          \/ \E w : w.movie = j[2] /\ writes' = writes \cup {w}
      <4>1. CASE onRegister(j) \/ onDisable(j)
        <5> DEFINE w == [movie |-> j[2], seqNr |-> seqNr[j] + 1,
                         event |-> EventOf(Head(mailbox[j]))]
        <5>1. writes' = writes \cup {w}
          BY <4>1 DEF onRegister, onDisable, Persist
        <5>2. w.movie = j[2]
          OBVIOUS
        <5> QED BY <5>1, <5>2
      <4>2. CASE ~(onRegister(j) \/ onDisable(j))
        BY <1>5, <4>2 DEF Work, Start, Restart, BeginReplay, ReplayEvent,
           RecoveryCompleted, onDisableDisabled, onGet, onUnmatched, ReplyWith,
           Persisted, PersistRefused, BackOff, Passivate
      <4> QED BY <4>1, <4>2
    <3>6. \A w : w.movie = m => (w \in writes' <=> w \in writes)
      BY <3>3, <3>5
    <3> QED BY <1>s, <1>i, <3>4, <3>6, SettledFrame
  <2> QED BY <2>1, <2>2
<1>6. CASE DatabaseStep
  BY <1>s, <1>6, SettledCommit DEF DatabaseStep
<1> QED
  BY <1>2, <1>3, <1>4, <1>5, <1>6 DEF Next, Internal

\* The faults of the projection count as faults of the system.
LEMMA SettledInSystem == SystemSpec => []AllSettled
<1>1. SystemInit => AllSettled
  <2> SUFFICES ASSUME SystemInit, NEW m \in Movies PROVE Settled(m)
    BY DEF AllSettled
  <2>1. Init
    BY DEF SystemInit, ServiceInit
  <2>2. <<home[m], m>> \in Incarnations
    BY <2>1 DEF Init, Incarnations
  <2> QED BY <2>1, <2>2 DEF Init, Settled
<1>2. ServiceInvariant /\ AllSettled /\ [SystemNext]_systemVars => AllSettled'
  <2> SUFFICES ASSUME ServiceInvariant, AllSettled, [SystemNext]_systemVars
               PROVE  AllSettled'
    OBVIOUS
  <2> USE DEF ServiceInvariant, InductiveInvariant
  <2>1. ASSUME [Next]_vars PROVE AllSettled'
    BY <2>1, SettledStep
  <2>2. CASE EntitiesStep
    BY <2>1, <2>2 DEF EntitiesStep, Next
  <2>3. CASE \E r \in Requests : CallStep(r)
    BY <2>1, <2>3, ServiceStepIsStep DEF CallStep, ServiceNext
  <2>4. CASE \E n \in Nodes : Ends(n)
    BY <2>1, <2>4 DEF Ends, Next, Internal, Misfortune
  <2>5. CASE UNCHANGED <<allVars, projectionVars>>
    BY <2>1, <2>5 DEF allVars
  <2>6. ASSUME NEW n \in Nodes, ProjectionStep(n) PROVE AllSettled'
    <3>1. UNCHANGED <<journal, writes, home, phase, seqNr, target, current>>
      BY <2>6 DEF ProjectionStep, Counted, entityVars
    <3>2. faults \in Nat /\ (faults' = faults \/ faults' = faults + 1)
      BY <2>6 DEF ProjectionStep, Counted, Fault, JournalInvariant, TypeOK
    <3>3. faults' = 0 => faults = 0
      BY <3>2
    <3>4. \A m \in Movies : Settled(m) => Settled(m)'
      BY <3>1, SettledFrame DEF JournalInvariant
    <3> QED BY <3>3, <3>4 DEF AllSettled
  <2> QED BY <2>2, <2>3, <2>4, <2>5, <2>6, SystemStepShapes
<1> QED BY <1>1, <1>2, ServiceInvariantInSystem, PTL DEF SystemSpec

\* A movie that getMovies shows is in the journal and, without a fault or a split,
\* known to its entity (getMovies, process, onGet).
THEOREM ListedMoviesAreKnown == SystemSpec => []ListedAreKnown
<1>1. ServiceInvariant /\ LogIsJournal /\ P!ProjectionInvariant /\ AllSettled
         => ListedAreKnown
  <2> SUFFICES ASSUME ServiceInvariant, LogIsJournal, P!ProjectionInvariant, AllSettled,
                      NEW m \in getMovies
               PROVE  /\ journal[m] # << >>
                      /\ ~SplitBrain /\ faults = 0 =>
                            \A n \in Nodes : phase[<<n, m>>] = "ready"
                               => ~isEmpty(state[<<n, m>>])
    BY DEF ListedAreKnown
  <2> USE DEF ServiceInvariant, InductiveInvariant
  <2>1. m \in Movies /\ table[m] # "none"
    BY DEF getMovies
  <2>2. stored[m] >= 1 /\ stored[m] \in 0 .. 2 /\ stored[m] <= P!Written(m)
    BY <2>1 DEF P!ProjectionInvariant, P!TypeOK, P!SourceTypeOK, P!RowIffProcessed,
       P!NothingSkipped, P!ProcessedIsWritten
  <2>3. Len(journal[m]) \in Nat /\ Len(journal[m]) >= 1
    BY <2>1, <2>2 DEF LogIsJournal, JournalInvariant, TypeOK
  <2>4. ASSUME ~SplitBrain, faults = 0, NEW n \in Nodes, phase[<<n, m>>] = "ready"
        PROVE  ~isEmpty(state[<<n, m>>])
    <3>1. <<n, m>> \in Incarnations
      BY <2>1 DEF Incarnations
    <3>2. n = home[m]
      BY <2>4, <3>1 DEF ReadsInvariant, AwakeAtHome
    <3>3. seqNr[<<n, m>>] = Len(journal[m])
      BY <2>1, <2>4, <3>2 DEF AllSettled, Settled
    <3> QED BY <2>3, <3>1, <3>3, StatusTellsSeqNr
  <2> QED BY <2>3, <2>4
<1> QED
  BY <1>1, ServiceInvariantInSystem, LogIsJournalInSystem, SettledInSystem, PTL

-----------------------------------------------------------------------------
(* Nodes, and what runs on them.                                           *)

\* Of the entities' steps only a command that is delivered wakes one, and it is
\* delivered to a node that is up.
LEMMA EntitiesHosted ==
  ASSUME TypeOK, HostedByNodes, [SystemNext]_systemVars
  PROVE  \A i \in Incarnations :
            phase'[i] # "stopped" \/ mailbox'[i] # << >> => i[1] \in app'
<1> DEFINE Hosted == \A i \in Incarnations :
                        phase'[i] # "stopped" \/ mailbox'[i] # << >> => i[1] \in app'
<1>1. ASSUME app \subseteq app', StaysQuiet PROVE Hosted
  BY <1>1 DEF StaysQuiet, HostedByNodes
<1>2. CASE \/ \E i \in Incarnations : WithLog(Work(i)) \/ WithLog(Passivate(i))
           \/ WithLog(DatabaseStep) \/ WithLog(Mishap)
  BY <1>1, <1>2, NobodyWakes DEF WithLog, nodeVars, Mishap, Misfortune
<1>3. CASE WithLog(Delivery)
  <2>1. PICK c \in inFlight : home[c.movie] \in app /\ Deliver(c)
    BY <1>3 DEF WithLog, Delivery
  <2>2. app' = app /\ phase' = phase
    BY <1>3, <2>1 DEF WithLog, nodeVars, Deliver
  <2>3. \A i \in Incarnations \ {<<home[c.movie], c.movie>>} : mailbox'[i] = mailbox[i]
    BY <2>1 DEF Deliver, TypeOK
  <2> QED BY <2>1, <2>2, <2>3 DEF HostedByNodes
<1>4. CASE \E m \in Movies, n \in Nodes : WithLog(Move(m, n))
  BY <1>4 DEF WithLog, nodeVars, Move, HandOff, entityVars, HostedByNodes
<1>5. ASSUME NEW n \in Nodes, Ends(n) PROVE Hosted
  <2>1. \A i \in Incarnations :
           phase'[i] # "stopped" \/ mailbox'[i] # << >>
              => i[1] # n /\ (phase[i] # "stopped" \/ mailbox[i] # << >>)
    BY <1>5 DEF Ends, Crash
  <2> QED BY <1>5, <2>1 DEF Ends, HostedByNodes
<1>6. ASSUME NEW n \in Nodes, Main(n) PROVE Hosted
  BY <1>6 DEF Main, allVars, vars, entityVars, HostedByNodes
<1>7. ASSUME NEW n \in Nodes, ProjectionWork(n) \/ ProjectionMishap(n) PROVE Hosted
  BY <1>7 DEF ProjectionWork, ProjectionMishap, Counted, nodeVars, entityVars, HostedByNodes
<1>8. ASSUME NEW r \in Requests,
             \/ \E n \in Nodes : CallAt(n, r)
             \/ Answered(r) \/ TimesOut(r)
      PROVE  Hosted
  <2>1. app' = app /\ UNCHANGED entityVars
    BY <1>8, CallsAsk, CallsEnd DEF CallAt, Answered, TimesOut, Over, AskEntity, Ask, vars
  <2> QED BY <2>1 DEF entityVars, HostedByNodes
<1>9. CASE UNCHANGED systemVars
  BY <1>9 DEF systemVars, nodeVars, allVars, vars, entityVars, HostedByNodes
<1> QED
  BY <1>2, <1>3, <1>4, <1>5, <1>6, <1>7, <1>8, <1>9 DEF SystemNext

\* A worker is started by a node that is up; the end of a node stops its own.
LEMMA WorkersHosted ==
  ASSUME P!ProjectionInvariant, HostedByNodes, [SystemNext]_systemVars
  PROVE  \A n \in Nodes : running'[n] # "stopped" => n \in app'
<1> DEFINE Hosted == \A n \in Nodes : running'[n] # "stopped" => n \in app'
<1>t. running \in [Nodes -> P!Phases]
  BY DEF P!ProjectionInvariant, P!TypeOK, P!SourceTypeOK
<1>1. ASSUME running' = running, app \subseteq app' PROVE Hosted
  BY <1>1 DEF HostedByNodes
<1>2. ASSUME NEW n \in Nodes, ProjectionWork(n) PROVE Hosted
  <2>1. n \in app /\ app' = app
    BY <1>2 DEF ProjectionWork, Counted, nodeVars
  <2>2. \A w \in Nodes \ {n} : running'[w] = running[w]
    BY <1>t, <1>2 DEF ProjectionWork, Projection!Work, Projection!StartWorker,
       Projection!RestartWorker, Projection!ReadOffsets, Projection!Accept,
       Projection!PassOver, Projection!Commit, Projection!Refused, Projection!Fail
  <2> QED BY <2>1, <2>2 DEF HostedByNodes
<1>3. ASSUME NEW n \in Nodes, ProjectionMishap(n) PROVE Hosted
  <2>1. running[n] = "handling" /\ app' = app
    BY <1>3 DEF ProjectionMishap, Counted, nodeVars, Projection!Rollback,
       Projection!CommitUnacknowledged
  <2>2. \A w \in Nodes \ {n} : running'[w] = running[w]
    BY <1>t, <1>3 DEF ProjectionMishap, Projection!Rollback,
       Projection!CommitUnacknowledged, Projection!Fail
  <2> QED BY <2>1, <2>2 DEF HostedByNodes
<1>4. ASSUME NEW n \in Nodes, Ends(n) PROVE Hosted
  <2>1. app' = app \ {n}
    BY <1>4 DEF Ends
  <2>2. running'[n] = "stopped" /\ \A w \in Nodes \ {n} : running'[w] = running[w]
    BY <1>t, <1>4 DEF Ends, Projection!StopWorker, projectionVars
  <2> QED BY <2>1, <2>2 DEF HostedByNodes
<1>5. CASE \/ \E i \in Incarnations : WithLog(Work(i)) \/ WithLog(Passivate(i))
           \/ WithLog(DatabaseStep) \/ WithLog(Delivery) \/ WithLog(Mishap)
           \/ \E m \in Movies, n \in Nodes : WithLog(Move(m, n))
  BY <1>1, <1>5 DEF WithLog, nodeVars
<1>6. CASE \/ \E n \in Nodes : Main(n)
           \/ \E n \in Nodes, r \in Requests : CallAt(n, r)
           \/ \E r \in Requests : Answered(r) \/ TimesOut(r)
           \/ UNCHANGED systemVars
  BY <1>1, <1>6 DEF Main, CallAt, Answered, TimesOut, Over, systemVars, projectionVars, nodeVars
<1> QED
  BY <1>2, <1>3, <1>4, <1>5, <1>6 DEF SystemNext

\* A call begins at a node that is up, and is over when its node ends.
LEMMA CallsHosted ==
  ASSUME ServiceTypeOK, HostedByNodes, [SystemNext]_systemVars
  PROVE  /\ app' \subseteq Nodes /\ servedAt' \in [Requests -> Nodes \cup {null}]
         /\ \A r \in Requests : calls'[r].phase = "waiting" => servedAt'[r] \in app'
<1> DEFINE Hosted ==
             /\ app' \subseteq Nodes /\ servedAt' \in [Requests -> Nodes \cup {null}]
             /\ \A r \in Requests : calls'[r].phase = "waiting" => servedAt'[r] \in app'
<1>t. /\ app \subseteq Nodes /\ servedAt \in [Requests -> Nodes \cup {null}]
      /\ calls \in [Requests -> Call]
  BY DEF HostedByNodes, ServiceTypeOK
<1>1. ASSUME NEW n \in Nodes, Ends(n) PROVE Hosted
  <2>1. /\ app' = app \ {n}
        /\ servedAt' = [r \in Requests |-> IF servedAt[r] = n THEN null ELSE servedAt[r]]
        /\ calls' = [r \in Requests |->
                        IF servedAt[r] = n
                        THEN [calls[r] EXCEPT !.phase = "timedOut"] ELSE calls[r]]
    BY <1>1 DEF Ends
  <2>2. servedAt' \in [Requests -> Nodes \cup {null}]
    BY <1>t, <2>1
  <2>3. ASSUME NEW r \in Requests, calls'[r].phase = "waiting" PROVE servedAt'[r] \in app'
    <3>1. CASE servedAt[r] = n
      BY <1>t, <2>1, <2>3, <3>1 DEF Call
    <3>2. CASE servedAt[r] # n
      BY <1>t, <2>1, <2>3, <3>2 DEF HostedByNodes
    <3> QED BY <3>1, <3>2
  <2> QED BY <1>t, <2>1, <2>2, <2>3
<1>2. ASSUME NEW n \in Nodes, NEW r \in Requests, CallAt(n, r) PROVE Hosted
  <2>1. /\ n \in app /\ app' = app
        /\ servedAt' = [servedAt EXCEPT ![r] = n]
        /\ \A q \in Requests \ {r} : calls'[q] = calls[q]
    BY <1>t, <1>2, CallsAsk DEF CallAt, AskEntity
  <2> QED BY <1>t, <2>1 DEF HostedByNodes
<1>3. ASSUME NEW r \in Requests, Answered(r) \/ TimesOut(r) PROVE Hosted
  <2>1. app' = app /\ servedAt' = [servedAt EXCEPT ![r] = null]
    BY <1>3 DEF Answered, TimesOut, Over
  <2>2. PICK outcome, result : /\ outcome # "waiting"
                               /\ Finish(r, outcome, result)
    BY <1>3 DEF Answered, TimesOut, handleConfirmation, receiveSummary, askTimeout
  <2>3. calls'[r].phase # "waiting" /\ \A q \in Requests \ {r} : calls'[q] = calls[q]
    BY <1>t, <2>2 DEF Finish, Call
  <2> QED BY <1>t, <2>1, <2>3 DEF HostedByNodes
<1>4. ASSUME app \subseteq app', app' \subseteq Nodes, UNCHANGED <<calls, servedAt>>
      PROVE  Hosted
  BY <1>t, <1>4 DEF HostedByNodes
<1>5. CASE \/ \E i \in Incarnations : WithLog(Work(i)) \/ WithLog(Passivate(i))
           \/ WithLog(DatabaseStep) \/ WithLog(Delivery) \/ WithLog(Mishap)
           \/ \E m \in Movies, n \in Nodes : WithLog(Move(m, n))
  BY <1>t, <1>4, <1>5 DEF WithLog, nodeVars, serviceVars
<1>6. CASE \/ \E n \in Nodes : Main(n) \/ ProjectionWork(n) \/ ProjectionMishap(n)
           \/ UNCHANGED systemVars
  BY <1>t, <1>4, <1>6 DEF Main, ProjectionWork, ProjectionMishap, Counted, systemVars,
     allVars, serviceVars, nodeVars
<1> QED
  BY <1>1, <1>2, <1>3, <1>5, <1>6 DEF SystemNext

\* Whatever starts, ends, moves, backs off or is delivered: nothing runs or waits
\* at a node that is gone (MovieApp).
THEOREM NothingOutlivesItsNode == SystemSpec => []HostedByNodes
<1>1. SystemInit => HostedByNodes
  BY DEF SystemInit, ServiceInit, Init, noCall, Projection!Init, Projection!SourceInit,
     HostedByNodes, Incarnations
<1>2. ServiceInvariant /\ P!ProjectionInvariant /\ HostedByNodes /\ [SystemNext]_systemVars
         => HostedByNodes'
  BY EntitiesHosted, WorkersHosted, CallsHosted
  DEF HostedByNodes, ServiceInvariant, InductiveInvariant, JournalInvariant, CallsInvariant
<1> QED
  BY <1>1, <1>2, ServiceInvariantInSystem, LogIsJournalInSystem, PTL DEF SystemSpec

-----------------------------------------------------------------------------
(* Tags.                                                                   *)

\* The remainder has the sign of the dividend, and its distance to 0 is below 5:
\* far from the least int, which has no absolute value (Math.abs).
LEMMA EveryHashHasItsTag == TagsExist
<1> USE MaxIntAssumption DEF NumTags
<1> SUFFICES ASSUME NEW h \in HashCodes
             PROVE  /\ IndexOf(h) \in 0 .. NumTags - 1
                    /\ IndexOf(h) = (IF h < 0 THEN -h ELSE h) % NumTags
  BY DEF TagsExist
<1>1. h \in Int /\ MinInt \in Int /\ MinInt < -5
  BY DEF HashCodes, MinInt
<1>2. CASE h >= 0
  <2>1. h % 5 \in 0 .. 4
    BY <1>1, <1>2
  <2> QED BY <1>1, <1>2, <2>1 DEF IndexOf, Abs, Rem
<1>3. CASE h < 0
  <2>1. (-h) % 5 \in 0 .. 4
    BY <1>1, <1>3
  <2>2. Rem(h, 5) = -((-h) % 5)
    BY <1>1, <1>3 DEF Rem
  <2> DEFINE r == (-h) % 5
  <2> HIDE DEF r
  <2>3. r \in 0 .. 4 /\ Rem(h, 5) = -r
    BY <2>1, <2>2 DEF r
  <2>4. Abs(-r) = r
    BY <1>1, <2>3 DEF Abs
  <2>5. IndexOf(h) = r
    BY <2>3, <2>4 DEF IndexOf
  <2> QED BY <1>1, <1>3, <2>3, <2>5 DEF r
<1> QED BY <1>1, <1>2, <1>3

\* Whatever the hash code of its id, an entity that is started gets a tag
\* (MovieAggregate.init).
THEOREM StartedEntitiesHaveTags == SystemSpec => []EntitiesHaveTags
<1>1. EntitiesHaveTags
  BY EveryHashHasItsTag DEF EntitiesHaveTags
<1> QED BY <1>1, PTL
=============================================================================
