------------------------ MODULE SliceProjectionProofs ------------------------
(***************************************************************************)
(* Lemmas about SliceProjection, for any number of movies and workers: how *)
(* the log and its numbers grow, and that the steps both projections share *)
(* keep the types.                                                         *)
(***************************************************************************)
EXTENDS SliceProjection, FiniteSetTheorems, TLAPS

EventRecord == [movie : Movies, seqNr : 1 .. 2, kind : Kinds]

\* The positions in log of the events of m; Written counts them.
Positions(m) == {k \in DOMAIN log : log[k].movie = m}

\* The log is a sequence, so a movie has finitely many events in it (Written).
LEMMA WrittenIsNatural ==
  ASSUME log \in Seq(EventRecord), NEW m
  PROVE  IsFiniteSet(Positions(m)) /\ Written(m) \in Nat /\ Written(m) = Cardinality(Positions(m))
<1>1. DOMAIN log = 1 .. Len(log) /\ Len(log) \in Nat
  OBVIOUS
<1>2. IsFiniteSet(1 .. Len(log))
  BY <1>1, FS_Interval
<1>3. Positions(m) \in SUBSET (1 .. Len(log))
  BY <1>1 DEF Positions
<1>4. IsFiniteSet(Positions(m))
  BY <1>2, <1>3, FS_Subset
<1>5. Written(m) = Cardinality(Positions(m))
  BY DEF Written, Positions
<1> QED BY <1>4, <1>5, FS_CardinalityType

\* An event appended to the log counts for its own movie only (Write).
LEMMA AppendCounts ==
  ASSUME log \in Seq(EventRecord), NEW e \in EventRecord, log' = Append(log, e)
  PROVE  /\ log' \in Seq(EventRecord)
         /\ DOMAIN log' = DOMAIN log \cup {Len(log) + 1}
         /\ Len(log) + 1 \notin DOMAIN log
         /\ \A k \in DOMAIN log : log'[k] = log[k]
         /\ log'[Len(log) + 1] = e
         /\ \A n : Written(n)' = IF n = e.movie THEN Written(n) + 1 ELSE Written(n)
<1>1. /\ log' \in Seq(EventRecord)
      /\ DOMAIN log = 1 .. Len(log)
      /\ DOMAIN log' = 1 .. Len(log')
      /\ Len(log) \in Nat
      /\ Len(log') = Len(log) + 1
      /\ \A k \in 1 .. Len(log) : log'[k] = log[k]
      /\ log'[Len(log) + 1] = e
  OBVIOUS
<1>2. /\ DOMAIN log' = DOMAIN log \cup {Len(log) + 1}
      /\ Len(log) + 1 \notin DOMAIN log
  BY <1>1
<1>3. ASSUME NEW n
      PROVE  Written(n)' = IF n = e.movie THEN Written(n) + 1 ELSE Written(n)
  <2>1. Written(n)' = Cardinality(Positions(n)')
    BY DEF Written, Positions
  <2>2. IsFiniteSet(Positions(n)) /\ Written(n) = Cardinality(Positions(n))
    BY WrittenIsNatural
  <2>3. CASE n = e.movie
    <3>1. Positions(n)' = Positions(n) \cup {Len(log) + 1}
      BY <1>1, <1>2, <2>3 DEF Positions
    <3>2. Len(log) + 1 \notin Positions(n)
      BY <1>2 DEF Positions
    <3> QED BY <2>1, <2>2, <2>3, <3>1, <3>2, FS_AddElement
  <2>4. CASE n # e.movie
    <3>1. Positions(n)' = Positions(n)
      BY <1>1, <1>2, <2>4 DEF Positions
    <3> QED BY <2>1, <2>2, <2>4, <3>1
  <2> QED BY <2>3, <2>4
<1> QED BY <1>1, <1>2, <1>3

\* Of two positions, the later one (Accept).
LEMMA MaxOfTwo ==
  ASSUME NEW a \in Nat, NEW b \in Nat
  PROVE  Max({a, b}) \in Nat
<1>1. \E x \in {a, b} : \A y \in {a, b} : x >= y
  OBVIOUS
<1>2. Max({a, b}) \in {a, b}
  BY <1>1 DEF Max
<1> QED BY <1>2

\* A journaled event keeps the log typed and numbered, and disturbs nothing
\* that a worker knows (Write).
LEMMA SourceWrite ==
  ASSUME SourceTypeOK, LogNumbered, NEW m \in Movies, Write(m)
  PROVE  /\ SourceTypeOK'
         /\ LogNumbered'
         /\ \A n \in Movies : Written(n)' = IF n = m THEN Written(n) + 1 ELSE Written(n)
         /\ \A k \in DOMAIN log : k \in DOMAIN log' /\ log'[k] = log[k]
<1> DEFINE e == [movie |-> m, seqNr |-> Written(m) + 1,
                 kind |-> IF Written(m) = 0 THEN "Registered" ELSE "Disabled"]
<1>1. log \in Seq(EventRecord)
  BY DEF SourceTypeOK, EventRecord
<1>2. \A n : Written(n) \in Nat
  BY <1>1, WrittenIsNatural
<1>3. e \in EventRecord
  BY <1>2 DEF Write, EventRecord, Kinds
<1>4. log' = Append(log, e)
  BY DEF Write
<1> HIDE DEF e
<1>5. /\ log' \in Seq(EventRecord)
      /\ DOMAIN log' = DOMAIN log \cup {Len(log) + 1}
      /\ \A k \in DOMAIN log : log'[k] = log[k]
      /\ log'[Len(log) + 1] = e
      /\ \A n : Written(n)' = IF n = e.movie THEN Written(n) + 1 ELSE Written(n)
  BY <1>1, <1>3, <1>4, AppendCounts
<1>6. SourceTypeOK'
  BY <1>5 DEF SourceTypeOK, EventRecord, Write
<1>7. e.movie = m /\ e.seqNr = Written(m) + 1
  BY DEF e
<1>8. e.kind = "Registered" <=> e.seqNr = 1
  BY <1>2 DEF e
<1>9. LogNumbered'
  <2> SUFFICES ASSUME NEW k \in DOMAIN log'
               PROVE  (/\ log[k].seqNr <= Written(log[k].movie)
                       /\ log[k].kind = "Registered" <=> log[k].seqNr = 1)'
    BY DEF LogNumbered
  <2>1. CASE k \in DOMAIN log
    <3>1. log'[k] = log[k] BY <1>5, <2>1
    <3>2. log[k] \in EventRecord BY <1>1, <2>1
    <3>3. log[k].seqNr \in Nat BY <3>2 DEF EventRecord
    <3>4. PICK n : n = log[k].movie OBVIOUS
    <3>5. Written(n)' \in Nat /\ Written(n)' >= Written(n) BY <1>2, <1>5
    <3>6. /\ log[k].seqNr <= Written(n)
          /\ log[k].kind = "Registered" <=> log[k].seqNr = 1
      BY <2>1, <3>4 DEF LogNumbered
    <3>7. log[k].seqNr <= Written(n)' BY <1>2, <3>3, <3>5, <3>6
    <3> QED BY <3>1, <3>4, <3>6, <3>7
  <2>2. CASE k = Len(log) + 1
    <3>1. log'[k] = e BY <1>5, <2>2
    <3>2. Written(m)' = Written(m) + 1 BY <1>5, <1>7
    <3>3. e.seqNr <= Written(m)' BY <1>2, <1>7, <3>2
    <3> QED BY <1>7, <1>8, <3>1, <3>3
  <2> QED BY <1>5, <2>1, <2>2
<1> QED BY <1>5, <1>6, <1>7, <1>9

\* The steps that leave the log alone leave its numbers alone, too.
LEMMA SameLog ==
  ASSUME UNCHANGED log
  PROVE  /\ \A m : Written(m)' = Written(m)
         /\ LogNumbered => LogNumbered'
  BY DEF Written, LogNumbered

\* Reading offsets, accepting and passing over events, stopping and failing
\* keep the types (ReadOffsets, Accept, PassOver, StopWorker, Fail).
LEMMA SourceSteps ==
  ASSUME SourceTypeOK, NEW w \in Workers
  PROVE  /\ StartWorker(w) \/ RestartWorker(w) => SourceTypeOK'
         /\ \A k \in DOMAIN log : Accept(w, k) => SourceTypeOK'
         /\ PassOver(w) => SourceTypeOK'
         /\ StopWorker(w) => SourceTypeOK'
<1> USE DEF Phases
<1>1. ASSUME StartWorker(w) \/ RestartWorker(w) PROVE SourceTypeOK'
  <2>1. ReadOffsets(w) /\ faults' \in Nat
    BY <1>1 DEF StartWorker, RestartWorker, Fault, SourceTypeOK
  <2>2. cursor' \in [Workers -> Nat]
    BY <2>1 DEF ReadOffsets, SourceTypeOK
  <2> QED BY <2>1, <2>2 DEF ReadOffsets, SourceTypeOK
<1>2. ASSUME NEW k \in DOMAIN log, Accept(w, k) PROVE SourceTypeOK'
  <2>1. k \in Nat /\ cursor[w] \in Nat
    BY DEF SourceTypeOK
  <2>2. Max({cursor[w], k}) \in Nat
    BY <2>1, MaxOfTwo
  <2> QED BY <1>2, <2>1, <2>2 DEF Accept, SourceTypeOK
<1>3. ASSUME PassOver(w) PROVE SourceTypeOK'
  BY <1>3 DEF PassOver, Fault, SourceTypeOK
<1>4. ASSUME StopWorker(w) PROVE SourceTypeOK'
  BY <1>4 DEF StopWorker, Forget, Fault, SourceTypeOK
<1> QED BY <1>1, <1>2, <1>3, <1>4

\* The first state is typed and numbered, with no event written (SourceInit).
LEMMA SourceStarts ==
  ASSUME SourceInit
  PROVE  SourceTypeOK /\ LogNumbered /\ \A m : Written(m) = 0
<1>1. SourceTypeOK
  BY DEF SourceInit, SourceTypeOK, Phases
<1>2. DOMAIN log = {}
  BY DEF SourceInit
<1>3. \A m : Written(m) = 0
  <2> SUFFICES ASSUME NEW m PROVE Written(m) = 0
    OBVIOUS
  <2>1. {k \in DOMAIN log : log[k].movie = m} = {}
    BY <1>2
  <2> QED BY <2>1, FS_EmptySet DEF Written
<1> QED BY <1>1, <1>2, <1>3 DEF LogNumbered
=============================================================================
