------------------------- MODULE DBProjectionProofs -------------------------
(***************************************************************************)
(* Theorems about DBProjection, for any number of movies, workers and      *)
(* faults, and whatever columns the table has: row and offset agree, and   *)
(* the projection processes every event at most once, in order.            *)
(***************************************************************************)
EXTENDS DBProjection, SliceProjectionProofs, SequenceTheorems

-----------------------------------------------------------------------------
(* The transaction.                                                        *)

\* What a worker handles is an event of the log; if the tables admit it, it
\* is the successor of what its movie has stored, it exists in the journal,
\* and it is the registration exactly if nothing is stored yet (process).
LEMMA HandledEvent ==
  ASSUME ProjectionInvariant, NEW w \in Workers, running[w] = "handling"
  PROVE  /\ Event(w) \in EventRecord
         /\ Event(w).seqNr = seen[w][Event(w).movie] + 1
         /\ Event(w).seqNr <= Written(Event(w).movie)
         /\ Event(w).kind = "Registered" <=> Event(w).seqNr = 1
         /\ Admitted(Event(w)) => Event(w).seqNr = stored[Event(w).movie] + 1
<1> USE DEF ProjectionInvariant, TypeOK
<1>1. /\ envelope[w] \in DOMAIN log
      /\ log[envelope[w]].seqNr = seen[w][log[envelope[w]].movie] + 1
  BY DEF NothingSkipped, HandledIsNext
<1>2. Event(w) \in EventRecord
  <2>1. log \in Seq(EventRecord) BY DEF SourceTypeOK, EventRecord
  <2>2. envelope[w] \in 1 .. Len(log) BY <1>1, <2>1
  <2> QED BY <2>1, <2>2, ElementOfSeq DEF Event
<1>3. Event(w).seqNr = seen[w][Event(w).movie] + 1
  BY <1>1 DEF Event
<1>4. /\ Event(w).seqNr <= Written(Event(w).movie)
      /\ Event(w).kind = "Registered" <=> Event(w).seqNr = 1
  BY <1>1 DEF LogNumbered, Event
<1>5. Event(w).movie \in Movies
  BY <1>2 DEF EventRecord
<1>6. seen[w][Event(w).movie] <= stored[Event(w).movie]
  BY <1>5 DEF NothingSkipped, SeenIsProcessed
<1>7. stored[Event(w).movie] \in 0 .. 2 /\ seen[w][Event(w).movie] \in 0 .. 2
  BY <1>5 DEF SourceTypeOK
<1>8. Admitted(Event(w)) => stored[Event(w).movie] < Event(w).seqNr
  BY DEF Admitted
<1> QED BY <1>2, <1>3, <1>4, <1>6, <1>7, <1>8

\* The transaction of the event that w handles moves the offset of its movie
\* by one, and gives the movie its row if it is the first (Transaction).
LEMMA TransactionStores ==
  ASSUME ProjectionInvariant, NEW w \in Workers, running[w] = "handling",
         Transaction(Event(w))
  PROVE  LET m == Event(w).movie IN
         /\ m \in Movies
         /\ Event(w).seqNr \in 1 .. 2
         /\ Event(w).seqNr = stored[m] + 1
         /\ stored[m] < Written(m)
         /\ stored' = [stored EXCEPT ![m] = @ + 1]
         /\ stored' \in [Movies -> 0 .. 2]
         /\ table' = IF stored[m] = 0 THEN [table EXCEPT ![m] = "NEW"] ELSE table
<1> DEFINE m == Event(w).movie
<1>1. /\ Event(w) \in EventRecord
      /\ Event(w).seqNr <= Written(m)
      /\ Event(w).kind = "Registered" <=> Event(w).seqNr = 1
      /\ Event(w).seqNr = stored[m] + 1
  BY HandledEvent DEF Transaction
<1>2. m \in Movies /\ Event(w).seqNr \in 1 .. 2
  BY <1>1 DEF EventRecord
<1>3. stored \in [Movies -> 0 .. 2]
  BY DEF ProjectionInvariant, TypeOK, SourceTypeOK
<1>4. Written(m) \in Nat
  BY WrittenIsNatural DEF ProjectionInvariant, TypeOK, SourceTypeOK, EventRecord
<1>5. /\ stored' = [stored EXCEPT ![m] = Event(w).seqNr]
      /\ table' = IF Event(w).kind = "Registered"
                  THEN [table EXCEPT ![m] = "NEW"] ELSE table
  BY DEF Transaction
<1>6. stored' = [stored EXCEPT ![m] = @ + 1] /\ stored' \in [Movies -> 0 .. 2]
  BY <1>1, <1>2, <1>3, <1>5
<1>7. Event(w).seqNr = 1 <=> stored[m] = 0
  BY <1>1, <1>2, <1>3
<1>8. stored[m] < Written(m)
  BY <1>1, <1>2, <1>3, <1>4
<1> QED BY <1>1, <1>2, <1>5, <1>6, <1>7, <1>8

-----------------------------------------------------------------------------
(* The invariant, one step per action.                                     *)

LEMMA ProjectionInit == Init => ProjectionInvariant
<1> SUFFICES ASSUME Init PROVE ProjectionInvariant
  OBVIOUS
<1>1. SourceTypeOK /\ LogNumbered /\ \A m : Written(m) = 0
  BY SourceStarts DEF Init
<1>2. TypeOK
  BY <1>1 DEF TypeOK, Init
<1>3. NothingSkipped
  BY <1>1 DEF NothingSkipped, SeenIsProcessed, HandledIsNext, ProcessedIsWritten,
     Init, SourceInit
<1>4. RowIffProcessed
  BY DEF RowIffProcessed, Init, SourceInit
<1> QED BY <1>1, <1>2, <1>3, <1>4 DEF ProjectionInvariant

\* A journaled event changes nothing that has been processed (Write).
LEMMA InvariantWrite ==
  ASSUME ProjectionInvariant, NEW m \in Movies, Write(m), UNCHANGED table
  PROVE  ProjectionInvariant'
<1> USE DEF ProjectionInvariant, TypeOK
<1>1. /\ SourceTypeOK'
      /\ LogNumbered'
      /\ \A n \in Movies : Written(n)' = IF n = m THEN Written(n) + 1 ELSE Written(n)
      /\ \A k \in DOMAIN log : k \in DOMAIN log' /\ log'[k] = log[k]
  BY SourceWrite
<1>2. UNCHANGED <<stored, running, seen, envelope>>
  BY DEF Write
<1>3. \A n \in Movies : Written(n) \in Nat
  BY WrittenIsNatural DEF SourceTypeOK, EventRecord
<1>4. NothingSkipped'
  <2>1. SeenIsProcessed'
    BY <1>2 DEF NothingSkipped, SeenIsProcessed
  <2>2. HandledIsNext'
    BY <1>1, <1>2 DEF NothingSkipped, HandledIsNext
  <2>3. ASSUME NEW n \in Movies PROVE (stored[n] <= Written(n))'
    <3>1. stored[n] \in 0 .. 2 /\ stored'[n] = stored[n]
      BY <1>2 DEF SourceTypeOK
    <3>2. stored[n] <= Written(n)
      BY DEF NothingSkipped, ProcessedIsWritten
    <3> QED BY <1>1, <1>3, <3>1, <3>2
  <2>4. ProcessedIsWritten'
    BY <2>3 DEF ProcessedIsWritten
  <2> QED BY <2>1, <2>2, <2>4 DEF NothingSkipped
<1>5. RowIffProcessed'
  BY <1>2 DEF RowIffProcessed
<1> QED BY <1>1, <1>4, <1>5

\* A step that leaves log, offsets and table alone only has to see to what
\* the workers know.
LEMMA InvariantOtherwise ==
  ASSUME ProjectionInvariant, UNCHANGED <<log, stored, table>>, SourceTypeOK',
         SeenIsProcessed', HandledIsNext'
  PROVE  ProjectionInvariant'
<1>1. LogNumbered' /\ \A m : Written(m)' = Written(m)
  BY SameLog DEF ProjectionInvariant
<1>2. ProcessedIsWritten'
  BY <1>1 DEF ProjectionInvariant, NothingSkipped, ProcessedIsWritten
<1>3. RowIffProcessed' /\ TypeOK'
  BY DEF ProjectionInvariant, RowIffProcessed, TypeOK
<1> QED BY <1>1, <1>2, <1>3 DEF ProjectionInvariant, NothingSkipped

\* A worker that starts, reads, passes over events or stops, and one whose
\* transaction is refused or rolled back.
LEMMA InvariantWorker ==
  ASSUME ProjectionInvariant, NEW w \in Workers,
         \/ (StartWorker(w) \/ RestartWorker(w)) /\ UNCHANGED table
         \/ \E k \in DOMAIN log : Accept(w, k) /\ UNCHANGED table
         \/ PassOver(w) /\ UNCHANGED table
         \/ StopWorker(w) /\ UNCHANGED table
         \/ Refused(w) \/ Rollback(w)
  PROVE  ProjectionInvariant'
<1>1. SourceTypeOK /\ SeenIsProcessed /\ HandledIsNext
  BY DEF ProjectionInvariant, TypeOK, NothingSkipped
<1>2. CASE (StartWorker(w) \/ RestartWorker(w)) /\ UNCHANGED table
  <2>1. SourceTypeOK' BY <1>1, <1>2, SourceSteps
  <2>2. ReadOffsets(w) BY <1>2 DEF StartWorker, RestartWorker
  <2>3. ASSUME NEW v \in Workers, NEW m \in Movies, running'[v] \in {"reading", "handling"}
        PROVE  seen'[v][m] <= stored'[m]
    <3>1. stored[m] \in 0 .. 2 BY <1>1 DEF SourceTypeOK
    <3> QED BY <1>1, <2>2, <2>3, <3>1 DEF ReadOffsets, SourceTypeOK, SeenIsProcessed
  <2>4. SeenIsProcessed' BY <2>3 DEF SeenIsProcessed
  <2>5. HandledIsNext'
    BY <1>1, <2>2 DEF ReadOffsets, SourceTypeOK, HandledIsNext
  <2> QED BY <1>2, <2>1, <2>2, <2>4, <2>5, InvariantOtherwise DEF ReadOffsets
<1>3. CASE \E k \in DOMAIN log : Accept(w, k) /\ UNCHANGED table
  <2>1. PICK k \in DOMAIN log : Accept(w, k) /\ UNCHANGED table BY <1>3
  <2>2. SourceTypeOK' BY <1>1, <2>1, SourceSteps
  <2>3. SeenIsProcessed'
    BY <1>1, <2>1 DEF Accept, SourceTypeOK, SeenIsProcessed
  <2>4. HandledIsNext'
    BY <1>1, <2>1 DEF Accept, NextOf, SourceTypeOK, HandledIsNext
  <2> QED BY <2>1, <2>2, <2>3, <2>4, InvariantOtherwise DEF Accept
<1>4. CASE PassOver(w) /\ UNCHANGED table
  <2>1. SourceTypeOK' BY <1>1, <1>4, SourceSteps
  <2>2. SeenIsProcessed' /\ HandledIsNext'
    BY <1>1, <1>4 DEF PassOver, SeenIsProcessed, HandledIsNext
  <2> QED BY <1>4, <2>1, <2>2, InvariantOtherwise DEF PassOver
<1>5. ASSUME running'[w] \notin {"reading", "handling"}, SourceTypeOK', Forget(w),
             \A v \in Workers \ {w} : running'[v] = running[v],
             UNCHANGED <<log, stored, table>>
      PROVE  ProjectionInvariant'
  <2>1. SeenIsProcessed'
    BY <1>1, <1>5 DEF Forget, SourceTypeOK, SeenIsProcessed
  <2>2. HandledIsNext'
    BY <1>1, <1>5 DEF Forget, SourceTypeOK, HandledIsNext
  <2> QED BY <1>5, <2>1, <2>2, InvariantOtherwise
<1>6. CASE StopWorker(w) /\ UNCHANGED table
  <2>1. SourceTypeOK' BY <1>1, <1>6, SourceSteps
  <2> QED BY <1>1, <1>5, <1>6, <2>1 DEF StopWorker, SourceTypeOK
<1>7. CASE Refused(w) \/ Rollback(w)
  <2>1. Fail(w) /\ UNCHANGED <<log, stored, table>> /\ faults' \in Nat
    BY <1>1, <1>7 DEF Refused, Rollback, Fault, SourceTypeOK
  <2>2. SourceTypeOK' BY <1>1, <2>1 DEF Fail, Forget, SourceTypeOK, Phases
  <2> QED BY <1>1, <1>5, <2>1, <2>2 DEF Fail, SourceTypeOK
<1> QED BY <1>2, <1>3, <1>4, <1>6, <1>7

\* A transaction that commits, whether or not the worker is told.
LEMMA InvariantCommit ==
  ASSUME ProjectionInvariant, NEW w \in Workers, Commit(w) \/ CommitUnacknowledged(w)
  PROVE  ProjectionInvariant'
<1> DEFINE m == Event(w).movie
<1> USE DEF ProjectionInvariant, TypeOK
<1>1. running[w] = "handling" /\ Transaction(Event(w)) /\ UNCHANGED log
  BY DEF Commit, CommitUnacknowledged
<1>2. /\ m \in Movies
      /\ Event(w).seqNr \in 1 .. 2
      /\ Event(w).seqNr = stored[m] + 1
      /\ stored[m] < Written(m)
      /\ stored' = [stored EXCEPT ![m] = @ + 1]
      /\ stored' \in [Movies -> 0 .. 2]
      /\ table' = IF stored[m] = 0 THEN [table EXCEPT ![m] = "NEW"] ELSE table
  BY <1>1, TransactionStores
<1>3. LogNumbered' /\ \A n : Written(n)' = Written(n)
  BY <1>1, SameLog
<1>4. \A n \in Movies : Written(n) \in Nat
  BY WrittenIsNatural DEF SourceTypeOK, EventRecord
<1>5. \/ /\ seen' = [seen EXCEPT ![w][m] = Event(w).seqNr]
         /\ running' = [running EXCEPT ![w] = "reading"]
         /\ envelope' = [envelope EXCEPT ![w] = 0]
         /\ UNCHANGED <<cursor, faults>>
      \/ Fail(w) /\ faults' \in Nat
  BY DEF Commit, CommitUnacknowledged, Fault, SourceTypeOK
<1> HIDE DEF m
<1>6. TypeOK'
  <2>1. table' \in [Movies -> {"none", "NEW"}]
    BY <1>2
  <2>2. seen' \in [Workers -> [Movies -> 0 .. 2]]
    <3>1. seen \in [Workers -> [Movies -> 0 .. 2]] /\ Event(w).seqNr \in 0 .. 2
      BY <1>2 DEF SourceTypeOK
    <3>2. CASE seen' = [seen EXCEPT ![w][m] = Event(w).seqNr]
      BY <3>1, <3>2
    <3>3. CASE Fail(w)
      BY <3>1, <3>3 DEF Fail, Forget
    <3> QED BY <1>5, <3>2, <3>3
  <2>3. /\ running' \in [Workers -> Phases]
        /\ cursor' \in [Workers -> Nat]
        /\ envelope' \in [Workers -> Nat]
        /\ faults' \in Nat
    <3>1. CASE Fail(w) /\ faults' \in Nat
      BY <3>1 DEF Fail, Forget, SourceTypeOK, Phases
    <3>2. CASE /\ running' = [running EXCEPT ![w] = "reading"]
               /\ envelope' = [envelope EXCEPT ![w] = 0]
               /\ UNCHANGED <<cursor, faults>>
      BY <3>2 DEF SourceTypeOK, Phases
    <3> QED BY <1>5, <3>1, <3>2
  <2>4. SourceTypeOK'
    BY <1>1, <1>2, <2>2, <2>3 DEF SourceTypeOK
  <2> QED BY <2>1, <2>4
<1>7. \A n \in Movies : stored[n] <= stored'[n] /\ stored[n] \in 0 .. 2 /\ stored'[n] \in 0 .. 2
  BY <1>2 DEF SourceTypeOK
<1>8. NothingSkipped'
  <2>1. ASSUME NEW v \in Workers, NEW n \in Movies, running'[v] \in {"reading", "handling"}
        PROVE  seen'[v][n] <= stored'[n]
    <3>1. CASE v = w
      <4>1. seen' = [seen EXCEPT ![w][m] = Event(w).seqNr]
        BY <1>5, <2>1, <3>1 DEF Fail, SourceTypeOK
      <4>2. seen[w] \in [Movies -> 0 .. 2] /\ seen \in [Workers -> [Movies -> 0 .. 2]]
        BY DEF SourceTypeOK
      <4>3. seen[w][n] <= stored[n]
        BY <1>1 DEF NothingSkipped, SeenIsProcessed
      <4>4. CASE n = m
        <5>1. seen'[w][m] = Event(w).seqNr BY <1>2, <4>1, <4>2
        <5>2. stored'[m] = Event(w).seqNr BY <1>2 DEF SourceTypeOK
        <5> QED BY <1>2, <3>1, <4>4, <5>1, <5>2
      <4>5. CASE n # m
        <5>1. seen'[w][n] = seen[w][n] BY <4>1, <4>2, <4>5
        <5> QED BY <1>7, <3>1, <4>2, <4>3, <5>1
      <4> QED BY <4>4, <4>5
    <3>2. CASE v # w
      <4>1. seen'[v] = seen[v] /\ running'[v] = running[v]
        BY <1>5, <3>2 DEF Fail, Forget, SourceTypeOK
      <4>2. seen[v][n] <= stored[n] /\ seen[v][n] \in 0 .. 2
        BY <2>1, <4>1 DEF NothingSkipped, SeenIsProcessed, SourceTypeOK
      <4> QED BY <1>7, <4>1, <4>2
    <3> QED BY <3>1, <3>2
  <2>2. ASSUME NEW v \in Workers, running'[v] = "handling"
        PROVE  (/\ envelope[v] \in DOMAIN log
                /\ log[envelope[v]].seqNr = seen[v][log[envelope[v]].movie] + 1)'
    <3>1. v # w
      BY <1>5, <2>2 DEF Fail, SourceTypeOK
    <3>2. running'[v] = running[v] /\ seen'[v] = seen[v] /\ envelope'[v] = envelope[v]
      BY <1>5, <3>1 DEF Fail, Forget, SourceTypeOK
    <3> QED BY <1>1, <2>2, <3>2 DEF NothingSkipped, HandledIsNext
  <2>3. ASSUME NEW n \in Movies PROVE (stored[n] <= Written(n))'
    <3>1. stored[n] <= Written(n) BY DEF NothingSkipped, ProcessedIsWritten
    <3>2. Written(n)' = Written(n) /\ Written(n) \in Nat BY <1>3, <1>4
    <3>3. CASE n = m
      <4>1. stored[m] \in 0 .. 2 /\ stored'[m] = stored[m] + 1 BY <1>2, <1>7 DEF SourceTypeOK
      <4> QED BY <1>2, <3>2, <3>3, <4>1
    <3>4. CASE n # m
      <4>1. stored'[n] = stored[n] BY <1>2, <3>4 DEF SourceTypeOK
      <4> QED BY <3>1, <3>2, <4>1
    <3> QED BY <3>3, <3>4
  <2>4. SeenIsProcessed' BY <2>1 DEF SeenIsProcessed
  <2>5. HandledIsNext' BY <2>2 DEF HandledIsNext
  <2>6. ProcessedIsWritten' BY <2>3 DEF ProcessedIsWritten
  <2> QED BY <2>4, <2>5, <2>6 DEF NothingSkipped
<1>9. RowIffProcessed'
  <2> SUFFICES ASSUME NEW n \in Movies
               PROVE  table'[n] = "NEW" <=> stored'[n] >= 1
    BY DEF RowIffProcessed
  <2>1. table[n] = "NEW" <=> stored[n] >= 1
    BY DEF RowIffProcessed
  <2>2. CASE n = m
    BY <1>2, <1>7, <2>1, <2>2
  <2>3. CASE n # m
    BY <1>2, <2>1, <2>3 DEF SourceTypeOK
  <2> QED BY <2>2, <2>3
<1> QED BY <1>3, <1>6, <1>8, <1>9

LEMMA ProjectionStep == ProjectionInvariant /\ [Next]_vars => ProjectionInvariant'
<1> SUFFICES ASSUME ProjectionInvariant, [Next]_vars PROVE ProjectionInvariant'
  OBVIOUS
<1>1. CASE UNCHANGED vars
  <2>1. UNCHANGED <<log, stored, running, seen, cursor, envelope, faults, table>>
    BY <1>1 DEF vars, sourceVars
  <2>2. SourceTypeOK' /\ SeenIsProcessed' /\ HandledIsNext'
    BY <2>1 DEF ProjectionInvariant, TypeOK, NothingSkipped, SourceTypeOK,
       SeenIsProcessed, HandledIsNext
  <2> QED BY <2>1, <2>2, InvariantOtherwise
<1>2. CASE \E m \in Movies : Write(m) /\ UNCHANGED table
  BY <1>2, InvariantWrite
<1>3. CASE \E w \in Workers : \/ Work(w)
                              \/ Rollback(w) \/ CommitUnacknowledged(w)
                              \/ StopWorker(w) /\ UNCHANGED table
  BY <1>3, InvariantWorker, InvariantCommit DEF Work
<1> QED BY <1>1, <1>2, <1>3 DEF Next

-----------------------------------------------------------------------------
(* The theorems.                                                           *)

\* Whatever workers, failures and queries do, the types hold, the numbers in
\* the log and in memory agree with the offsets, and row and offset with each
\* other.
THEOREM ProjectionInvariantHolds == Spec => []ProjectionInvariant
  BY ProjectionInit, ProjectionStep, PTL DEF Spec

\* The projection's variables keep their types.
THEOREM ProjectionTypeCorrect == Spec => []TypeOK
<1>1. ProjectionInvariant => TypeOK
  BY DEF ProjectionInvariant
<1> QED BY <1>1, ProjectionInvariantHolds, PTL

\* A movie has a row exactly when its registration counts as processed
\* (process and the offset in one transaction).
THEOREM RowsAgreeWithOffsets == Spec => []RowIffProcessed
<1>1. ProjectionInvariant => RowIffProcessed
  BY DEF ProjectionInvariant
<1> QED BY <1>1, ProjectionInvariantHolds, PTL

\* A transaction is the processing of one event of the abstract projection.
LEMMA TransactionProcesses ==
  ASSUME ProjectionInvariant, NEW w \in Workers, running[w] = "handling",
         Transaction(Event(w)), UNCHANGED log
  PROVE  Promise!Next
<1> DEFINE m == Event(w).movie
           s == [n \in Movies |-> Written(n)]
<1>1. /\ m \in Movies
      /\ stored[m] < Written(m)
      /\ stored' = [stored EXCEPT ![m] = @ + 1]
      /\ table' = IF stored[m] = 0 THEN [table EXCEPT ![m] = "NEW"] ELSE table
  BY TransactionStores
<1>2. \A n : Written(n)' = Written(n)
  BY SameLog
<1>3. [n \in Movies |-> Written(n)]' = [n \in Movies |-> Written(n)]
  BY <1>2
<1>4. Promise!Process(m)
  BY <1>1, <1>3 DEF Promise!Process
<1> QED BY <1>1, <1>4 DEF Promise!Next

\* The projection is exactly once, as its name promises: whatever workers,
\* late events, restarts and lost acknowledgements lie below, the events of
\* a movie are processed one by one in their order, and its row appears with
\* the first (R2dbcProjection.exactlyOnce and process).
THEOREM ProjectionIsExactlyOnce == Spec => ImplementsExactlyOnce
<1>1. Init => Promise!Init
  <2> SUFFICES ASSUME Init PROVE Promise!Init
    OBVIOUS
  <2>1. \A m : Written(m) = 0
    BY SourceStarts DEF Init
  <2> QED BY <2>1 DEF Init, SourceInit, Promise!Init
<1>2. ProjectionInvariant /\ [Next]_vars
         => [Promise!Next]_<<[m \in Movies |-> Written(m)], stored, table>>
  <2> SUFFICES ASSUME ProjectionInvariant, [Next]_vars
               PROVE  [Promise!Next]_<<[m \in Movies |-> Written(m)], stored, table>>
    OBVIOUS
  <2>1. CASE \E m \in Movies : Write(m) /\ UNCHANGED table
    <3>1. PICK m \in Movies : Write(m) /\ UNCHANGED table BY <2>1
    <3>2. \A n \in Movies : Written(n)' = IF n = m THEN Written(n) + 1 ELSE Written(n)
      BY <3>1, SourceWrite DEF ProjectionInvariant, TypeOK
    <3>3. [n \in Movies |-> Written(n)]'
             = [[n \in Movies |-> Written(n)] EXCEPT ![m] = @ + 1]
      BY <3>2
    <3>4. UNCHANGED <<stored, table>>
      BY <3>1 DEF Write
    <3>5. Promise!Write(m)
      BY <3>3, <3>4 DEF Promise!Write
    <3> QED BY <3>5 DEF Promise!Next
  <2>2. CASE \E w \in Workers : Commit(w) \/ CommitUnacknowledged(w)
    BY <2>2, TransactionProcesses DEF Commit, CommitUnacknowledged
  <2>3. CASE UNCHANGED <<log, stored, table>>
    <3>1. \A n : Written(n)' = Written(n)
      BY <2>3, SameLog
    <3> QED BY <2>3, <3>1
  <2>4. \/ \E m \in Movies : Write(m) /\ UNCHANGED table
        \/ \E w \in Workers : Commit(w) \/ CommitUnacknowledged(w)
        \/ UNCHANGED <<log, stored, table>>
    BY DEF Next, vars, sourceVars, Work, StartWorker, RestartWorker, ReadOffsets,
       Accept, PassOver, Refused, Rollback, StopWorker
  <2> QED BY <2>1, <2>2, <2>3, <2>4
<1> QED
  BY <1>1, <1>2, ProjectionInvariantHolds, PTL
  DEF ImplementsExactlyOnce, Promise!Spec, Spec
=============================================================================
