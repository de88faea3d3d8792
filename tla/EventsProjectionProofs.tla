----------------------- MODULE EventsProjectionProofs -----------------------
(***************************************************************************)
(* Theorems about EventsProjection, for any number of movies, workers and  *)
(* faults: no offset outruns the topic, nothing is dropped that is not in  *)
(* it, and without a failure nothing is published twice.                   *)
(***************************************************************************)
EXTENDS EventsProjection, SliceProjectionProofs, SequenceTheorems

\* The conjunct of PublicationInvariant that has no name of its own there.
OnlyRegistrationsSeen ==
    \A w \in Workers, m \in Movies :
        running[w] \notin {"stopped", "failed"} => seen[w][m] <= 1

\* An event under way is typed, and the first of its movie exactly if it is a
\* registration (EventsProjectionHandler.process).
LEMMA HandledEvent ==
  ASSUME PublicationInvariant, NEW w \in Workers, running[w] \in {"handling", "handled"}
  PROVE  /\ envelope[w] \in DOMAIN log
         /\ Event(w) \in EventRecord
         /\ Event(w).movie \in Movies
         /\ Event(w).seqNr = seen[w][Event(w).movie] + 1
         /\ Event(w).kind = "Registered" <=> Event(w).seqNr = 1
<1>1. /\ envelope[w] \in DOMAIN log
      /\ Event(w).seqNr = seen[w][Event(w).movie] + 1
  BY DEF PublicationInvariant, HandledIsNext
<1>2. Event(w) \in EventRecord
  <2>1. log \in Seq(EventRecord)
    BY DEF PublicationInvariant, TypeOK, SourceTypeOK, EventRecord
  <2>2. envelope[w] \in 1 .. Len(log) BY <1>1, <2>1
  <2> QED BY <2>1, <2>2, ElementOfSeq DEF Event
<1>3. Event(w).kind = "Registered" <=> Event(w).seqNr = 1
  BY <1>1 DEF PublicationInvariant, LogNumbered, Event
<1> QED BY <1>1, <1>2, <1>3 DEF EventRecord

\* Without a failure, a worker that has started is the only one, and knows
\* the offsets that are stored.
LEMMA TheOneWorker ==
  ASSUME PublicationInvariant, Undisturbed, NEW w \in Workers, running[w] # "stopped"
  PROVE  /\ running[w] # "failed"
         /\ saved[w] = stored
         /\ \A m \in Movies : stored[m] <= seen[w][m]
         /\ \A v \in Workers : v # w => running[v] = "stopped"
<1>1. /\ \A v, u \in Workers : running[v] # "stopped" /\ running[u] # "stopped" => v = u
      /\ \A v \in Workers : /\ running[v] # "failed"
                            /\ running[v] # "stopped" =>
                                 saved[v] = stored /\ \A m \in Movies : stored[m] <= seen[v][m]
  BY Zenon DEF PublicationInvariant, OneWorkerUntilFailure
<1>2. running[w] # "failed" BY <1>1
<1>3. saved[w] = stored /\ \A m \in Movies : stored[m] <= seen[w][m] BY Zenon, <1>1
<1>4. \A v \in Workers : v # w => running[v] = "stopped" BY Zenon, <1>1
<1> QED BY <1>2, <1>3, <1>4

-----------------------------------------------------------------------------
(* The invariant, one lemma per kind of step.                              *)

LEMMA PublicationInit == Init => PublicationInvariant
<1> SUFFICES ASSUME Init PROVE PublicationInvariant
  OBVIOUS
<1>1. SourceTypeOK /\ LogNumbered
  BY SourceStarts DEF Init
<1>2. TypeOK
  BY <1>1 DEF TypeOK, Init, NothingSaved
<1>3. HandledIsNext /\ StoredArePublished /\ DroppedArePublished
  BY DEF HandledIsNext, StoredArePublished, DroppedArePublished, Init, SourceInit
<1>4. OneWorkerUntilFailure
  BY DEF OneWorkerUntilFailure, Init, SourceInit
<1> QED BY <1>1, <1>2, <1>3, <1>4 DEF PublicationInvariant, Init, SourceInit

\* A journaled event changes nothing that has been handled or sent (Write).
LEMMA PublicationWrite ==
  ASSUME PublicationInvariant, NEW m \in Movies, Write(m), UNCHANGED ownVars
  PROVE  PublicationInvariant'
<1> USE DEF PublicationInvariant, TypeOK
<1>1. /\ SourceTypeOK'
      /\ LogNumbered'
      /\ \A k \in DOMAIN log : k \in DOMAIN log' /\ log'[k] = log[k]
  BY SourceWrite
<1>2. UNCHANGED <<stored, running, seen, envelope, faults, topic, saved>>
  BY DEF Write, ownVars
<1>3. \A w \in Workers : running[w] \in {"handling", "handled"} => Event(w)' = Event(w)
  BY <1>1, <1>2 DEF HandledIsNext, Event
<1>4. HandledIsNext'
  <2> SUFFICES ASSUME NEW w \in Workers
               PROVE  (/\ running[w] \in {"handling", "handled"} =>
                            /\ envelope[w] \in DOMAIN log
                            /\ Event(w).seqNr = seen[w][Event(w).movie] + 1
                       /\ running[w] = "handled" =>
                            Event(w).kind = "Registered" /\ topic[Event(w).movie] >= 1)'
    BY DEF HandledIsNext
  <2> QED BY <1>1, <1>2, <1>3 DEF HandledIsNext
<1>5. StoredArePublished' /\ DroppedArePublished' /\ OnlyRegistrationsSeen'
  BY <1>2 DEF StoredArePublished, DroppedArePublished, OnlyRegistrationsSeen
<1>6. Undisturbed' => Undisturbed
  BY <1>1, <1>2 DEF Undisturbed
<1>7. OneWorkerUntilFailure'
  <2> SUFFICES ASSUME Undisturbed' PROVE OneWorkerUntilFailure'
    BY DEF OneWorkerUntilFailure
  <2>1. /\ \A v, w \in Workers : running[v] # "stopped" /\ running[w] # "stopped" => v = w
        /\ \A w \in Workers : /\ running[w] # "failed"
                              /\ running[w] # "stopped" =>
                                   saved[w] = stored /\ \A n \in Movies : stored[n] <= seen[w][n]
        /\ \A n \in Movies : topic[n] >= 1 =>
              /\ topic[n] = 1
              /\ \E w \in Workers : \/ running[w] # "stopped" /\ seen[w][n] >= 1
                                    \/ running[w] = "handled" /\ Event(w).movie = n
    BY <1>6 DEF OneWorkerUntilFailure
  <2> QED BY <1>2, <1>3, <2>1 DEF OneWorkerUntilFailure
<1> QED BY <1>1, <1>2, <1>4, <1>5, <1>7 DEF OnlyRegistrationsSeen

\* A worker whose stream ends, after which the system is not undisturbed, takes
\* nothing with it that the invariant speaks of (StopWorker, SendFails,
\* SerializeThrows, and a SaveOffsets that is refused).
LEMMA WorkerEnds ==
  ASSUME PublicationInvariant, NEW w \in Workers, Forget(w), faults' \in Nat, ~Undisturbed',
         \/ running' = [running EXCEPT ![w] = "failed"]
         \/ running' = [running EXCEPT ![w] = "stopped"],
         UNCHANGED <<log, stored, topic, saved>>
  PROVE  PublicationInvariant'
<1> USE DEF PublicationInvariant, TypeOK
<1>1. TypeOK'
  <2>1. running' \in [Workers -> Phases]
    BY DEF SourceTypeOK, Phases
  <2>2. seen' \in [Workers -> [Movies -> 0 .. 2]]
    <3>1. [n \in Movies |-> 0] \in [Movies -> 0 .. 2] OBVIOUS
    <3> QED BY <3>1 DEF SourceTypeOK, Forget
  <2>3. cursor' \in [Workers -> Nat] /\ envelope' \in [Workers -> Nat]
    BY DEF SourceTypeOK, Forget
  <2> QED BY <2>1, <2>2, <2>3 DEF SourceTypeOK
<1>2. LogNumbered' BY SameLog
<1>3. running'[w] \in {"failed", "stopped"}
  BY DEF SourceTypeOK
<1>4. \A v \in Workers \ {w} : /\ running'[v] = running[v]
                               /\ seen'[v] = seen[v]
                               /\ envelope'[v] = envelope[v]
  BY DEF SourceTypeOK, Forget
<1>5. HandledIsNext'
  <2> SUFFICES ASSUME NEW v \in Workers, running'[v] \in {"handling", "handled"}
               PROVE  (/\ envelope[v] \in DOMAIN log
                       /\ Event(v).seqNr = seen[v][Event(v).movie] + 1
                       /\ running[v] = "handled" =>
                            Event(v).kind = "Registered" /\ topic[Event(v).movie] >= 1)'
    BY DEF HandledIsNext
  <2>1. v # w BY <1>3
  <2> QED BY <1>4, <2>1 DEF HandledIsNext, Event
<1>6. StoredArePublished'
  BY DEF StoredArePublished
<1>7. DroppedArePublished' /\ OnlyRegistrationsSeen'
  BY <1>3, <1>4 DEF DroppedArePublished, OnlyRegistrationsSeen
<1>8. OneWorkerUntilFailure'
  BY DEF OneWorkerUntilFailure
<1> QED BY <1>1, <1>2, <1>5, <1>6, <1>7, <1>8 DEF OnlyRegistrationsSeen

\* A worker that starts knows what is stored, and nothing else (Start).
LEMMA PublicationStart ==
  ASSUME PublicationInvariant, NEW w \in Workers, Start(w)
  PROVE  PublicationInvariant'
<1> USE DEF PublicationInvariant, TypeOK
<1>1. /\ ReadOffsets(w)
      /\ saved' = [saved EXCEPT ![w] = stored]
      /\ UNCHANGED topic
      /\ faults' \in Nat
      /\ faults' = 0 => faults = 0 /\ running[w] \in {"stopped", "failed"}
      /\ faults' = 0 => Alone(w) \/ running[w] = "failed"
  BY DEF Start, StartWorker, RestartWorker, Fault, SourceTypeOK
<1>2. SourceTypeOK'
  BY SourceSteps DEF Start
<1>3. TypeOK'
  <2>1. stored \in [Movies -> 0 .. 2] BY DEF SourceTypeOK
  <2> QED BY <1>1, <1>2, <2>1
<1>4. UNCHANGED <<log, stored, envelope, topic>>
  BY <1>1 DEF ReadOffsets
<1>5. LogNumbered' BY <1>4, SameLog
<1>6. running'[w] = "reading" /\ seen'[w] = stored
  BY <1>1 DEF ReadOffsets, SourceTypeOK
<1>7. \A v \in Workers \ {w} : running'[v] = running[v] /\ seen'[v] = seen[v]
  BY <1>1 DEF ReadOffsets, SourceTypeOK
<1>8. HandledIsNext'
  <2> SUFFICES ASSUME NEW v \in Workers, running'[v] \in {"handling", "handled"}
               PROVE  (/\ envelope[v] \in DOMAIN log
                       /\ Event(v).seqNr = seen[v][Event(v).movie] + 1
                       /\ running[v] = "handled" =>
                            Event(v).kind = "Registered" /\ topic[Event(v).movie] >= 1)'
    BY DEF HandledIsNext
  <2>1. v # w BY <1>6
  <2> QED BY <1>4, <1>7, <2>1 DEF HandledIsNext, Event
<1>9. StoredArePublished' BY <1>4 DEF StoredArePublished
<1>10. DroppedArePublished' /\ OnlyRegistrationsSeen'
  <2> SUFFICES ASSUME NEW v \in Workers, NEW m \in Movies,
                      running'[v] \notin {"stopped", "failed"}
               PROVE  (seen'[v][m] >= 1 => topic'[m] >= 1) /\ seen'[v][m] <= 1
    BY DEF DroppedArePublished, OnlyRegistrationsSeen
  <2>1. CASE v = w BY <1>4, <1>6, <2>1 DEF StoredArePublished
  <2>2. CASE v # w BY <1>4, <1>7, <2>2 DEF DroppedArePublished
  <2> QED BY <2>1, <2>2
<1>11. OneWorkerUntilFailure'
  <2> SUFFICES ASSUME Undisturbed' PROVE OneWorkerUntilFailure'
    BY DEF OneWorkerUntilFailure
  <2>1. faults' = 0 /\ Undisturbed
    BY <1>1, <1>4 DEF Undisturbed
  <2>2. running[w] # "failed" /\ Alone(w) /\ running[w] = "stopped"
    <3>1. running[w] # "failed" BY <2>1, TheOneWorker
    <3> QED BY <1>1, <2>1, <3>1
  <2>3. \A v \in Workers : running[v] = "stopped"
    BY <2>2 DEF Alone
  <2>4. \A m \in Movies : ~(topic[m] >= 1)
    BY <2>1, <2>3 DEF OneWorkerUntilFailure
  <2>5. saved'[w] = stored
    BY <1>1
  <2>7. \A m \in Movies : stored[m] <= seen'[w][m]
    <3>1. \A m \in Movies : stored[m] \in 0 .. 2 BY DEF SourceTypeOK
    <3> QED BY <1>6, <3>1
  <2>6. \A v \in Workers : running'[v] # "stopped" => v = w
    BY <1>7, <2>3
  <2> QED BY <1>4, <1>6, <2>4, <2>5, <2>6, <2>7 DEF OneWorkerUntilFailure
<1> QED BY <1>3, <1>5, <1>8, <1>9, <1>10, <1>11 DEF OnlyRegistrationsSeen

\* A worker that reads handles the successor of what it has handled, or moves
\* on past an event (Accept, PassOver).
LEMMA PublicationRead ==
  ASSUME PublicationInvariant, NEW w \in Workers, Read(w), UNCHANGED ownVars
  PROVE  PublicationInvariant'
<1> USE DEF PublicationInvariant, TypeOK
<1>1. UNCHANGED <<log, stored, seen, topic, saved>>
  BY DEF Read, Accept, PassOver, ownVars
<1>2. SourceTypeOK'
  BY SourceSteps DEF Read
<1>3. TypeOK' BY <1>1, <1>2
<1>4. LogNumbered' BY <1>1, SameLog
<1>5. running[w] = "reading" /\ running'[w] \in {"reading", "handling"}
  BY DEF Read, Accept, PassOver, SourceTypeOK
<1>6. \A v \in Workers \ {w} : running'[v] = running[v] /\ envelope'[v] = envelope[v]
  BY DEF Read, Accept, PassOver, SourceTypeOK
<1>7. faults \in Nat /\ faults' \in Nat /\ (faults' = 0 => faults = 0)
  <2>1. faults \in Nat BY DEF SourceTypeOK
  <2>2. faults' = faults \/ faults' = faults + 1
    BY DEF Read, Accept, PassOver, Fault
  <2> QED BY <2>1, <2>2
<1>8. running'[w] = "handling" =>
        /\ envelope'[w] \in DOMAIN log
        /\ log[envelope'[w]].seqNr = seen[w][log[envelope'[w]].movie] + 1
  <2> SUFFICES ASSUME running'[w] = "handling"
               PROVE  /\ envelope'[w] \in DOMAIN log
                      /\ log[envelope'[w]].seqNr = seen[w][log[envelope'[w]].movie] + 1
    OBVIOUS
  <2>1. ~PassOver(w) BY <1>5 DEF PassOver
  <2>2. PICK k \in DOMAIN log : Accept(w, k) BY <2>1 DEF Read
  <2>3. envelope'[w] = k BY <2>2 DEF Accept, SourceTypeOK
  <2> QED BY <2>2, <2>3 DEF Accept, NextOf
<1>9. HandledIsNext'
  <2> SUFFICES ASSUME NEW v \in Workers, running'[v] \in {"handling", "handled"}
               PROVE  (/\ envelope[v] \in DOMAIN log
                       /\ Event(v).seqNr = seen[v][Event(v).movie] + 1
                       /\ running[v] = "handled" =>
                            Event(v).kind = "Registered" /\ topic[Event(v).movie] >= 1)'
    BY DEF HandledIsNext
  <2>1. CASE v = w BY <1>1, <1>5, <1>8, <2>1 DEF Event
  <2>2. CASE v # w BY <1>1, <1>6, <2>2 DEF HandledIsNext, Event
  <2> QED BY <2>1, <2>2
<1>10. StoredArePublished' BY <1>1 DEF StoredArePublished
<1>11. \A v \in Workers : running'[v] \notin {"stopped", "failed"} =>
                             running[v] \notin {"stopped", "failed"}
  BY <1>5, <1>6
<1>12. DroppedArePublished' /\ OnlyRegistrationsSeen'
  BY <1>1, <1>11 DEF DroppedArePublished, OnlyRegistrationsSeen
<1>13. OneWorkerUntilFailure'
  <2> SUFFICES ASSUME Undisturbed' PROVE OneWorkerUntilFailure'
    BY DEF OneWorkerUntilFailure
  <2>1. Undisturbed
    BY <1>1, <1>7 DEF Undisturbed
  <2>2. \A v \in Workers : running'[v] # "stopped" <=> running[v] # "stopped"
    BY <1>5, <1>6
  <2>3. \A v \in Workers : running'[v] # "failed"
    BY <1>5, <1>6, <2>1 DEF OneWorkerUntilFailure
  <2>4. \A v \in Workers : running'[v] = "handled" <=> running[v] = "handled"
    BY <1>5, <1>6
  <2>5. \A v \in Workers : running[v] = "handled" => Event(v)' = Event(v)
    BY <1>1, <1>5, <1>6 DEF Event
  <2>6. \A m \in Movies : topic[m] >= 1 =>
              /\ topic[m] = 1
              /\ \E v \in Workers : \/ running[v] # "stopped" /\ seen[v][m] >= 1
                                    \/ running[v] = "handled" /\ Event(v).movie = m
    BY <2>1 DEF OneWorkerUntilFailure
  <2>7. (\A m \in Movies : topic[m] >= 1 =>
              /\ topic[m] = 1
              /\ \E v \in Workers : \/ running[v] # "stopped" /\ seen[v][m] >= 1
                                    \/ running[v] = "handled" /\ Event(v).movie = m)'
    BY <1>1, <2>2, <2>4, <2>5, <2>6
  <2>8. (/\ \A v, u \in Workers : running[v] # "stopped" /\ running[u] # "stopped" => v = u
         /\ \A v \in Workers : running[v] # "stopped" =>
                 saved[v] = stored /\ \A m \in Movies : stored[m] <= seen[v][m])'
    <3>1. \A v, u \in Workers : running[v] # "stopped" /\ running[u] # "stopped" => v = u
      BY <2>1, TheOneWorker
    <3>2. \A v \in Workers : running[v] # "stopped" =>
             saved[v] = stored /\ \A m \in Movies : stored[m] <= seen[v][m]
      BY <2>1, TheOneWorker
    <3> QED BY <1>1, <2>2, <3>1, <3>2
  <2> QED BY <2>3, <2>7, <2>8 DEF OneWorkerUntilFailure
<1> QED BY <1>3, <1>4, <1>9, <1>10, <1>12, <1>13 DEF OnlyRegistrationsSeen

\* Of a number and two, the smaller one (Send).
LEMMA MinWithTwo ==
  ASSUME NEW n \in 0 .. 2
  PROVE  Min({n + 1, 2}) = IF n = 0 THEN 1 ELSE 2
<1>1. \A x \in {n + 1, 2} : (\A y \in {n + 1, 2} : x <= y) <=> x = IF n = 0 THEN 1 ELSE 2
  OBVIOUS
<1>2. (IF n = 0 THEN 1 ELSE 2) \in {n + 1, 2}
  OBVIOUS
<1> QED BY <1>1, <1>2 DEF Min

\* A registration gets into the topic; without a failure it was not there,
\* because the one worker handles it for the first time (Send).
LEMMA PublicationSend ==
  ASSUME PublicationInvariant, NEW w \in Workers, Send(w)
  PROVE  PublicationInvariant'
<1> DEFINE m == Event(w).movie
<1> USE DEF PublicationInvariant, TypeOK
<1>1. /\ running[w] = "handling"
      /\ Event(w).kind = "Registered"
      /\ UNCHANGED <<log, stored, seen, cursor, envelope, faults, saved>>
      /\ running' = [running EXCEPT ![w] = "handled"]
  BY DEF Send
<1>2. /\ m \in Movies
      /\ envelope[w] \in DOMAIN log
      /\ Event(w).seqNr = seen[w][m] + 1
      /\ Event(w).seqNr = 1
  BY <1>1, HandledEvent
<1>3. topic \in [Movies -> 0 .. 2] /\ topic' = [topic EXCEPT ![m] = Min({@ + 1, 2})]
  BY DEF Send
<1>4. topic[m] \in 0 .. 2 BY <1>2, <1>3
<1>5. topic'[m] = IF topic[m] = 0 THEN 1 ELSE 2
  BY <1>2, <1>3, <1>4, MinWithTwo
<1>6. \A n \in Movies \ {m} : topic'[n] = topic[n]
  BY <1>3
<1>7. topic' \in [Movies -> 0 .. 2]
  <2>1. Min({topic[m] + 1, 2}) \in 0 .. 2
    <3>1. Min({topic[m] + 1, 2}) = IF topic[m] = 0 THEN 1 ELSE 2
      BY <1>4, MinWithTwo
    <3> QED BY <3>1
  <2> QED BY <1>3, <2>1
<1>8. \A n \in Movies : topic[n] >= 1 => topic'[n] >= 1
  BY <1>4, <1>5, <1>6
<1>9. Event(w)' = Event(w) /\ \A v \in Workers : Event(v)' = Event(v)
  BY <1>1 DEF Event
<1>10. running'[w] = "handled" /\ \A v \in Workers \ {w} : running'[v] = running[v]
  BY <1>1 DEF SourceTypeOK
<1>11. seen[w][m] = 0
  <2>1. seen[w][m] \in 0 .. 2 BY <1>2 DEF SourceTypeOK
  <2> QED BY <1>2, <2>1
<1> HIDE DEF m
<1>12. TypeOK'
  BY <1>1, <1>7 DEF SourceTypeOK, Phases
<1>13. LogNumbered' BY <1>1, SameLog
<1>14. HandledIsNext'
  <2> SUFFICES ASSUME NEW v \in Workers, running'[v] \in {"handling", "handled"}
               PROVE  (/\ envelope[v] \in DOMAIN log
                       /\ Event(v).seqNr = seen[v][Event(v).movie] + 1
                       /\ running[v] = "handled" =>
                            Event(v).kind = "Registered" /\ topic[Event(v).movie] >= 1)'
    BY DEF HandledIsNext
  <2>1. CASE v = w
    <3>1. topic'[m] >= 1 BY <1>4, <1>5
    <3> QED BY <1>1, <1>2, <1>9, <2>1, <3>1 DEF m
  <2>2. CASE v # w
    <3>1. running[v] \in {"handling", "handled"} /\ running'[v] = running[v]
      BY <1>10, <2>2
    <3>2. Event(v).movie \in Movies BY <3>1, HandledEvent
    <3>3. /\ envelope[v] \in DOMAIN log
          /\ Event(v).seqNr = seen[v][Event(v).movie] + 1
          /\ running[v] = "handled" =>
               Event(v).kind = "Registered" /\ topic[Event(v).movie] >= 1
      BY <3>1 DEF HandledIsNext
    <3> QED BY <1>1, <1>8, <1>9, <3>1, <3>2, <3>3
  <2> QED BY <2>1, <2>2
<1>15. StoredArePublished'
  BY <1>1, <1>8 DEF StoredArePublished
<1>16. DroppedArePublished' /\ OnlyRegistrationsSeen'
  <2>1. \A v \in Workers : running'[v] \notin {"stopped", "failed"} =>
                              running[v] \notin {"stopped", "failed"}
    BY <1>1, <1>10
  <2> QED BY <1>1, <1>8, <2>1 DEF DroppedArePublished, OnlyRegistrationsSeen
<1>17. OneWorkerUntilFailure'
  <2> SUFFICES ASSUME Undisturbed' PROVE OneWorkerUntilFailure'
    BY DEF OneWorkerUntilFailure
  <2>1. Undisturbed
    BY <1>1 DEF Undisturbed
  <2>2. \A v \in Workers : v # w => running[v] = "stopped"
    BY <1>1, <2>1 DEF OneWorkerUntilFailure
  <2>3. topic[m] = 0
    <3> SUFFICES ASSUME topic[m] >= 1 PROVE FALSE
      BY <1>4
    <3>1. PICK v \in Workers : \/ running[v] # "stopped" /\ seen[v][m] >= 1
                               \/ running[v] = "handled" /\ Event(v).movie = m
      BY <1>2, <2>1 DEF OneWorkerUntilFailure
    <3>2. v = w BY <2>2, <3>1
    <3> QED BY <1>1, <1>11, <3>1, <3>2
  <2>4. \A v \in Workers : v # w => running'[v] = "stopped"
    BY <1>10, <2>2
  <2>5. \A v \in Workers : /\ running'[v] # "failed"
                           /\ running'[v] # "stopped" =>
                                saved'[v] = stored' /\ \A n \in Movies : stored'[n] <= seen'[v][n]
    BY <1>1, <1>10, <2>1, <2>4, TheOneWorker
  <2>6. ASSUME NEW n \in Movies, topic'[n] >= 1
        PROVE  (/\ topic[n] = 1
                /\ \E v \in Workers : \/ running[v] # "stopped" /\ seen[v][n] >= 1
                                      \/ running[v] = "handled" /\ Event(v).movie = n)'
    <3>1. CASE n = m
      BY <1>5, <1>9, <1>10, <2>3, <3>1 DEF m
    <3>2. CASE n # m
      <4>1. topic'[n] = topic[n] BY <1>6, <3>2
      <4>2. topic[n] = 1
        BY <2>1, <2>6, <4>1 DEF OneWorkerUntilFailure
      <4>3. PICK v \in Workers : \/ running[v] # "stopped" /\ seen[v][n] >= 1
                                 \/ running[v] = "handled" /\ Event(v).movie = n
        BY <2>1, <4>2 DEF OneWorkerUntilFailure
      <4>4. v = w BY <2>2, <4>3
      <4>5. running'[w] # "stopped" /\ seen'[w][n] >= 1
        BY <1>1, <1>10, <4>3, <4>4
      <4> QED BY <4>1, <4>2, <4>5
    <3> QED BY <3>1, <3>2
  <2> QED BY <2>4, <2>5, <2>6 DEF OneWorkerUntilFailure
<1> QED BY <1>12, <1>13, <1>14, <1>15, <1>16, <1>17 DEF OnlyRegistrationsSeen

\* The broker has acknowledged: the worker counts as handled what is in the
\* topic (Acknowledged).
LEMMA PublicationAcknowledged ==
  ASSUME PublicationInvariant, NEW w \in Workers, Acknowledged(w)
  PROVE  PublicationInvariant'
<1> DEFINE m == Event(w).movie
<1> USE DEF PublicationInvariant, TypeOK
<1>1. /\ running[w] = "handled"
      /\ seen' = [seen EXCEPT ![w][m] = Event(w).seqNr]
      /\ running' = [running EXCEPT ![w] = "reading"]
      /\ envelope' = [envelope EXCEPT ![w] = 0]
      /\ UNCHANGED <<log, stored, cursor, faults, topic, saved>>
  BY DEF Acknowledged, ownVars
<1>2. /\ m \in Movies
      /\ Event(w).seqNr = 1
      /\ topic[m] >= 1
  <2>1. Event(w).kind = "Registered" /\ topic[m] >= 1
    BY <1>1 DEF HandledIsNext
  <2> QED BY <1>1, <2>1, HandledEvent
<1> HIDE DEF m
<1>3. seen' \in [Workers -> [Movies -> 0 .. 2]]
  <2>1. seen \in [Workers -> [Movies -> 0 .. 2]] BY DEF SourceTypeOK
  <2> QED BY <1>1, <1>2, <2>1
<1>4. TypeOK'
  BY <1>1, <1>3 DEF SourceTypeOK, Phases
<1>5. LogNumbered' BY <1>1, SameLog
<1>6. running'[w] = "reading" /\ \A v \in Workers \ {w} : /\ running'[v] = running[v]
                                                          /\ seen'[v] = seen[v]
                                                          /\ envelope'[v] = envelope[v]
  BY <1>1 DEF SourceTypeOK
<1>7. \A n \in Movies : seen'[w][n] = IF n = m THEN 1 ELSE seen[w][n]
  BY <1>1, <1>2 DEF SourceTypeOK
<1>8. HandledIsNext'
  <2> SUFFICES ASSUME NEW v \in Workers, running'[v] \in {"handling", "handled"}
               PROVE  (/\ envelope[v] \in DOMAIN log
                       /\ Event(v).seqNr = seen[v][Event(v).movie] + 1
                       /\ running[v] = "handled" =>
                            Event(v).kind = "Registered" /\ topic[Event(v).movie] >= 1)'
    BY DEF HandledIsNext
  <2>1. v # w BY <1>6
  <2> QED BY <1>1, <1>6, <2>1 DEF HandledIsNext, Event
<1>9. StoredArePublished' BY <1>1 DEF StoredArePublished
<1>10. DroppedArePublished' /\ OnlyRegistrationsSeen'
  <2> SUFFICES ASSUME NEW v \in Workers, NEW n \in Movies,
                      running'[v] \notin {"stopped", "failed"}
               PROVE  (seen'[v][n] >= 1 => topic[n] >= 1) /\ seen'[v][n] <= 1
    BY <1>1 DEF DroppedArePublished, OnlyRegistrationsSeen
  <2>1. (seen[v][n] >= 1 => topic[n] >= 1) /\ seen[v][n] <= 1
    BY <1>1, <1>6 DEF DroppedArePublished
  <2>2. CASE v = w BY <1>2, <1>7, <2>1, <2>2
  <2>3. CASE v # w BY <1>6, <2>1, <2>3
  <2> QED BY <2>2, <2>3
<1>11. OneWorkerUntilFailure'
  <2> SUFFICES ASSUME Undisturbed' PROVE OneWorkerUntilFailure'
    BY DEF OneWorkerUntilFailure
  <2>1. Undisturbed
    BY <1>1 DEF Undisturbed
  <2>2. \A v \in Workers : v # w => running[v] = "stopped" /\ running'[v] = "stopped"
    BY <1>1, <1>6, <2>1 DEF OneWorkerUntilFailure
  <2>3. \A v \in Workers : /\ running'[v] # "failed"
                           /\ running'[v] # "stopped" =>
                                saved'[v] = stored' /\ \A n \in Movies : stored'[n] <= seen'[v][n]
    <3>1. saved[w] = stored /\ \A n \in Movies : stored[n] <= seen[w][n]
      BY <1>1, <2>1, TheOneWorker
    <3>2. \A n \in Movies : stored[n] <= 1 /\ stored[n] \in 0 .. 2
      BY DEF StoredArePublished, SourceTypeOK
    <3>3. \A n \in Movies : stored'[n] <= seen'[w][n]
      BY <1>1, <1>7, <3>1, <3>2
    <3> QED BY <1>1, <1>6, <2>2, <3>1, <3>3
  <2>4. ASSUME NEW n \in Movies, topic[n] >= 1
        PROVE  topic[n] = 1 /\ seen'[w][n] >= 1
    <3>1. topic[n] = 1
      BY <2>1, <2>4 DEF OneWorkerUntilFailure
    <3>2. PICK v \in Workers : \/ running[v] # "stopped" /\ seen[v][n] >= 1
                               \/ running[v] = "handled" /\ Event(v).movie = n
      BY <2>1, <2>4 DEF OneWorkerUntilFailure
    <3>3. v = w BY <2>2, <3>2
    <3>4. seen[w][n] >= 1 \/ n = m
      BY <3>2, <3>3 DEF m
    <3> QED BY <1>7, <3>1, <3>4
  <2> QED BY <1>1, <1>6, <2>2, <2>3, <2>4 DEF OneWorkerUntilFailure
<1> QED BY <1>4, <1>5, <1>8, <1>9, <1>10, <1>11 DEF OnlyRegistrationsSeen

\* Offsets that are stored are of handled events; without a failure nobody
\* else has stored one (SaveOffsets).
LEMMA PublicationSave ==
  ASSUME PublicationInvariant, NEW w \in Workers, SaveOffsets(w)
  PROVE  PublicationInvariant'
<1> USE DEF PublicationInvariant, TypeOK
<1>1. running[w] \notin {"stopped", "failed"} /\ UNCHANGED <<log, faults, topic>>
  BY DEF SaveOffsets
<1>2. CASE \A m \in Unsaved(w) : stored[m] = saved[w][m]
  <2>1. /\ stored' = [m \in Movies |-> IF m \in Unsaved(w) THEN seen[w][m] ELSE stored[m]]
        /\ saved' = [saved EXCEPT ![w] = seen[w]]
        /\ UNCHANGED <<running, seen, cursor, envelope>>
    BY <1>2 DEF SaveOffsets
  <2>2. seen[w] \in [Movies -> 0 .. 2] /\ stored \in [Movies -> 0 .. 2]
    BY DEF SourceTypeOK
  <2>3. stored' \in [Movies -> 0 .. 2] /\ saved' \in [Workers -> [Movies -> 0 .. 2]]
    BY <2>1, <2>2
  <2>4. TypeOK'
    BY <1>1, <2>1, <2>3 DEF SourceTypeOK
  <2>5. LogNumbered' BY <1>1, SameLog
  <2>6. \A v \in Workers : Event(v)' = Event(v)
    BY <1>1, <2>1 DEF Event
  <2>7. HandledIsNext'
    BY <1>1, <2>1, <2>6 DEF HandledIsNext
  <2>8. StoredArePublished'
    <3> SUFFICES ASSUME NEW m \in Movies
                 PROVE  (stored'[m] >= 1 => topic[m] >= 1) /\ stored'[m] <= 1
      BY <1>1 DEF StoredArePublished
    <3>1. (stored[m] >= 1 => topic[m] >= 1) /\ stored[m] <= 1
      BY DEF StoredArePublished
    <3>2. (seen[w][m] >= 1 => topic[m] >= 1) /\ seen[w][m] <= 1
      BY <1>1 DEF DroppedArePublished
    <3>3. stored'[m] = stored[m] \/ stored'[m] = seen[w][m]
      BY <2>1
    <3> QED BY <3>1, <3>2, <3>3
  <2>9. DroppedArePublished' /\ OnlyRegistrationsSeen'
    BY <1>1, <2>1 DEF DroppedArePublished, OnlyRegistrationsSeen
  <2>10. OneWorkerUntilFailure'
    <3> SUFFICES ASSUME Undisturbed' PROVE OneWorkerUntilFailure'
      BY DEF OneWorkerUntilFailure
    <3>1. Undisturbed
      BY <1>1 DEF Undisturbed
    <3>2. \A v \in Workers : v # w => running[v] = "stopped"
      BY <1>1, <3>1 DEF OneWorkerUntilFailure
    <3>3. saved[w] = stored
      BY <1>1, <3>1 DEF OneWorkerUntilFailure
    <3>4. stored' = seen[w]
      <4>1. ASSUME NEW m \in Movies PROVE stored'[m] = seen[w][m]
        <5>1. CASE m \in Unsaved(w) BY <2>1, <5>1
        <5>2. CASE m \notin Unsaved(w)
          <6>1. stored[m] \in 0 .. 2 /\ seen[w][m] \in 0 .. 2 BY <2>2
          <6>2. ~(stored[m] < seen[w][m]) BY <3>3, <5>2 DEF Unsaved
          <6>3. stored[m] <= seen[w][m]
            BY <1>1, <3>1, TheOneWorker
          <6> QED BY <2>1, <5>2, <6>1, <6>2, <6>3
        <5> QED BY <5>1, <5>2
      <4> QED BY <2>1, <2>2, <4>1
    <3>5. saved'[w] = stored'
      BY <2>1, <3>4
    <3>6. \A v \in Workers : /\ running'[v] # "failed"
                             /\ running'[v] # "stopped" =>
                                  saved'[v] = stored' /\ \A m \in Movies : stored'[m] <= seen'[v][m]
      <4>1. \A m \in Movies : stored'[m] <= seen'[w][m]
        BY <2>1, <2>2, <3>4
      <4>2. running[w] # "failed" BY <1>1
      <4> QED BY <2>1, <3>2, <3>5, <4>1, <4>2
    <3>7. \A v, u \in Workers : running'[v] # "stopped" /\ running'[u] # "stopped" => v = u
      BY <2>1, <3>2
    <3>8. \A m \in Movies : topic[m] >= 1 =>
              /\ topic[m] = 1
              /\ \E v \in Workers : \/ running[v] # "stopped" /\ seen[v][m] >= 1
                                    \/ running[v] = "handled" /\ Event(v).movie = m
      BY <3>1 DEF OneWorkerUntilFailure
    <3>9. (\A m \in Movies : topic[m] >= 1 =>
              /\ topic[m] = 1
              /\ \E v \in Workers : \/ running[v] # "stopped" /\ seen[v][m] >= 1
                                    \/ running[v] = "handled" /\ Event(v).movie = m)'
      BY <1>1, <2>1, <2>6, <3>8
    <3> QED BY <3>6, <3>7, <3>9 DEF OneWorkerUntilFailure
  <2> QED BY <2>4, <2>5, <2>7, <2>8, <2>9, <2>10 DEF OnlyRegistrationsSeen
<1>3. CASE ~ \A m \in Unsaved(w) : stored[m] = saved[w][m]
  <2>1. Fail(w) /\ UNCHANGED <<log, stored, saved, topic, faults>>
    BY <1>3 DEF SaveOffsets
  <2>2. saved[w] # stored
    BY <1>3
  <2>3. ~Undisturbed
    BY <1>1, <2>2 DEF OneWorkerUntilFailure
  <2>4. ~Undisturbed' /\ faults' \in Nat
    BY <1>1, <2>3 DEF Undisturbed, SourceTypeOK
  <2> QED BY <2>1, <2>4, WorkerEnds DEF Fail
<1> QED BY <1>2, <1>3

-----------------------------------------------------------------------------
(* The theorems.                                                           *)

LEMMA PublicationStep == PublicationInvariant /\ [Next]_vars => PublicationInvariant'
<1> SUFFICES ASSUME PublicationInvariant, [Next]_vars PROVE PublicationInvariant'
  OBVIOUS
<1>1. CASE UNCHANGED vars
  <2>1. UNCHANGED <<log, stored, running, seen, cursor, envelope, faults, topic, saved>>
    BY <1>1 DEF vars, sourceVars, ownVars
  <2>2. LogNumbered' BY <2>1, SameLog DEF PublicationInvariant
  <2>3. TypeOK' BY <2>1 DEF PublicationInvariant, TypeOK, SourceTypeOK
  <2>4. \A w \in Workers : Event(w)' = Event(w) BY <2>1 DEF Event
  <2>5. HandledIsNext' BY <2>1, <2>4 DEF PublicationInvariant, HandledIsNext
  <2>6. StoredArePublished' /\ DroppedArePublished' /\ OnlyRegistrationsSeen'
    BY <2>1 DEF PublicationInvariant, StoredArePublished, DroppedArePublished, OnlyRegistrationsSeen
  <2>7. Undisturbed' <=> Undisturbed BY <2>1 DEF Undisturbed
  <2>8. OneWorkerUntilFailure'
    BY <2>1, <2>4, <2>7 DEF PublicationInvariant, OneWorkerUntilFailure
  <2> QED BY <2>2, <2>3, <2>5, <2>6, <2>8 DEF PublicationInvariant, OnlyRegistrationsSeen
<1>2. CASE \E m \in Movies : Write(m) /\ UNCHANGED ownVars
  BY <1>2, PublicationWrite
<1>3. ASSUME NEW w \in Workers, Work(w) \/ SaveOffsets(w) \/ SendFails(w)
                                \/ (StopWorker(w) /\ UNCHANGED ownVars)
      PROVE  PublicationInvariant'
  <2>1. faults \in Nat /\ running \in [Workers -> Phases]
    BY DEF PublicationInvariant, TypeOK, SourceTypeOK
  <2>2. CASE Start(w) BY <2>2, PublicationStart
  <2>3. CASE Read(w) /\ UNCHANGED ownVars BY <2>3, PublicationRead
  <2>4. CASE Send(w) BY <2>4, PublicationSend
  <2>5. CASE Acknowledged(w) BY <2>5, PublicationAcknowledged
  <2>6. CASE SaveOffsets(w) BY <2>6, PublicationSave
  <2>7. CASE SerializeThrows(w)
    <3>1. envelope[w] \in DOMAIN log /\ log[envelope[w]].kind # "Registered"
      BY <2>7, HandledEvent DEF SerializeThrows, Event
    <3>2. Fail(w) /\ UNCHANGED <<log, stored, faults, topic, saved>>
      BY <2>7 DEF SerializeThrows, ownVars
    <3>3. ~Undisturbed'
      BY <3>1, <3>2 DEF Undisturbed
    <3> QED BY <2>1, <3>2, <3>3, WorkerEnds DEF Fail
  <2>8. CASE SendFails(w)
    <3>1. Fail(w) /\ UNCHANGED <<log, stored, topic, saved>> /\ faults' = faults + 1
      BY <2>8 DEF SendFails, Fault, ownVars
    <3>2. ~Undisturbed' /\ faults' \in Nat
      BY <2>1, <3>1 DEF Undisturbed
    <3> QED BY <3>1, <3>2, WorkerEnds DEF Fail
  <2>9. CASE StopWorker(w) /\ UNCHANGED ownVars
    <3>1. /\ Forget(w)
          /\ running' = [running EXCEPT ![w] = "stopped"]
          /\ UNCHANGED <<log, stored, topic, saved>>
          /\ running[w] # "stopped"
      BY <2>9 DEF StopWorker, ownVars
    <3>2. CASE Alone(w)
      <4>1. faults' = faults + 1 BY <2>9, <3>2 DEF StopWorker, Fault
      <4>2. ~Undisturbed' /\ faults' \in Nat BY <2>1, <4>1 DEF Undisturbed
      <4> QED BY <3>1, <4>2, WorkerEnds
    <3>3. CASE ~Alone(w)
      <4>1. faults' = faults BY <2>9, <3>3 DEF StopWorker
      <4>2. ~Undisturbed
        BY <3>1, <3>3 DEF Alone, PublicationInvariant, OneWorkerUntilFailure
      <4>3. ~Undisturbed' /\ faults' \in Nat
        BY <2>1, <3>1, <4>1, <4>2 DEF Undisturbed
      <4> QED BY <3>1, <4>3, WorkerEnds
    <3> QED BY <3>2, <3>3
  <2> QED BY <1>3, <2>2, <2>3, <2>4, <2>5, <2>6, <2>7, <2>8, <2>9 DEF Work
<1> QED BY <1>1, <1>2, <1>3 DEF Next

\* The invariant of sending and storing holds in every reachable state.
THEOREM PublicationInvariantHolds == Spec => []PublicationInvariant
  BY PublicationInit, PublicationStep, PTL DEF Spec

\* No offset outruns the topic: what is stored has been published, whatever
\* fails between the send and the saving of offsets (atLeastOnce).
THEOREM OffsetsFollowTheTopic == Spec => []StoredArePublished
<1>1. PublicationInvariant => StoredArePublished
  BY DEF PublicationInvariant
<1> QED BY <1>1, PublicationInvariantHolds, PTL

\* An event that a worker takes for a duplicate is in the topic.
THEOREM DuplicatesAreDuplicates == Spec => []DroppedArePublished
<1>1. PublicationInvariant => DroppedArePublished
  BY DEF PublicationInvariant
<1> QED BY <1>1, PublicationInvariantHolds, PTL

\* As long as nothing fails, and no event that fails the handler is written,
\* subscribers see every registration once at most.
THEOREM UndisturbedIsExactlyOnce == Spec => []TwiceOnlyAfterFailure
<1>1. PublicationInvariant => TwiceOnlyAfterFailure
  BY DEF PublicationInvariant, OneWorkerUntilFailure, TwiceOnlyAfterFailure
<1> QED BY <1>1, PublicationInvariantHolds, PTL

-----------------------------------------------------------------------------
(* The abstract promise.                                                   *)

\* A journaled event is one of the promise: a movie's second one, which cannot
\* be published, disturbs (Write).
LEMMA WriteIsPromised ==
  ASSUME PublicationInvariant, NEW m \in Movies, Write(m), UNCHANGED ownVars
  PROVE  Promise!Write(m)
<1>1. SourceTypeOK /\ LogNumbered
  BY DEF PublicationInvariant, TypeOK
<1>2. log \in Seq(EventRecord)
  BY <1>1 DEF SourceTypeOK, EventRecord
<1>3. \A n : Written(n) \in Nat
  BY <1>2, WrittenIsNatural
<1>4. PICK e \in EventRecord : /\ log' = Append(log, e)
                               /\ e.kind = "Registered" <=> Written(m) = 0
  <2> DEFINE e == [movie |-> m, seqNr |-> Written(m) + 1,
                   kind |-> IF Written(m) = 0 THEN "Registered" ELSE "Disabled"]
  <2>1. e \in EventRecord
    BY <1>3 DEF Write, EventRecord, Kinds
  <2>2. log' = Append(log, e) /\ (e.kind = "Registered" <=> Written(m) = 0)
    BY DEF Write
  <2> QED BY <2>1, <2>2
<1>5. /\ DOMAIN log' = DOMAIN log \cup {Len(log) + 1}
      /\ \A k \in DOMAIN log : log'[k] = log[k]
      /\ log'[Len(log) + 1] = e
  BY <1>2, <1>4, AppendCounts
<1>6. UNCHANGED <<faults, stored, topic>>
  BY DEF Write, ownVars
<1>7. Undisturbed' <=> Undisturbed /\ Written(m) = 0
  BY <1>4, <1>5, <1>6 DEF Undisturbed
<1>8. (~Undisturbed)' = (~Undisturbed \/ Written(m) > 0)
  BY <1>3, <1>7
<1>9. [n \in Movies |-> Written(n)]' = [[n \in Movies |-> Written(n)] EXCEPT ![m] = @ + 1]
  BY <1>1, SourceWrite
<1> QED BY <1>6, <1>8, <1>9 DEF Promise!Write

\* A record sent again is sent after a failure: otherwise it was not yet in the
\* topic (Send).
LEMMA SendIsPromised ==
  ASSUME PublicationInvariant, PublicationInvariant', NEW w \in Workers, Send(w)
  PROVE  Promise!Next
<1> DEFINE m == Event(w).movie
<1>1. /\ running[w] = "handling"
      /\ UNCHANGED <<log, stored, faults>>
      /\ topic' = [topic EXCEPT ![m] = Min({@ + 1, 2})]
  BY DEF Send
<1>2. m \in Movies /\ envelope[w] \in DOMAIN log /\ Event(w) \in EventRecord
  BY <1>1, HandledEvent
<1>3. topic[m] \in 0 .. 2
  BY <1>2 DEF PublicationInvariant, TypeOK
<1>4. topic' = [topic EXCEPT ![m] = IF @ = 0 THEN 1 ELSE 2]
  BY <1>1, <1>2, <1>3, MinWithTwo
<1>5. Written(m) >= 1
  <2>1. Event(w).seqNr <= Written(m)
    BY <1>2 DEF PublicationInvariant, LogNumbered, Event
  <2>2. log \in Seq(EventRecord)
    BY DEF PublicationInvariant, TypeOK, SourceTypeOK, EventRecord
  <2>3. Written(m) \in Nat BY <2>2, WrittenIsNatural
  <2>4. Event(w).seqNr \in 1 .. 2 BY <1>2 DEF EventRecord
  <2> QED BY <2>1, <2>3, <2>4
<1>6. Undisturbed' <=> Undisturbed
  BY <1>1 DEF Undisturbed
<1>7. topic[m] = 0 \/ ~Undisturbed
  <2> SUFFICES ASSUME topic[m] # 0, Undisturbed PROVE FALSE
    OBVIOUS
  <2>1. topic \in [Movies -> 0 .. 2]
    BY DEF PublicationInvariant, TypeOK
  <2>2. topic'[m] = 2 BY <1>2, <1>4, <2>1
  <2>3. topic'[m] = 1
    BY <1>2, <1>6, <2>2 DEF PublicationInvariant, OneWorkerUntilFailure
  <2> QED BY <2>2, <2>3
<1>8. \A n : Written(n)' = Written(n)
  BY <1>1, SameLog
<1> HIDE DEF m
<1>9. [n \in Movies |-> Written(n)]' = [n \in Movies |-> Written(n)]
  BY <1>8
<1>10. (~Undisturbed)' = ~Undisturbed
  BY <1>6
<1>11. Promise!Publish(m)
  BY <1>1, <1>2, <1>4, <1>5, <1>7, <1>9, <1>10 DEF Promise!Publish
<1> QED BY <1>2, <1>11 DEF Promise!Next

\* What is saved in one transaction was published, and had not been saved
\* before; one that is refused saves nothing (SaveOffsets).
LEMMA SaveIsPromised ==
  ASSUME PublicationInvariant, NEW w \in Workers, SaveOffsets(w)
  PROVE  Promise!Next \/ UNCHANGED Promise!vars
<1>1. running[w] \notin {"stopped", "failed"} /\ UNCHANGED <<log, faults, topic>>
  BY DEF SaveOffsets
<1>2. \A n : Written(n)' = Written(n)
  BY <1>1, SameLog
<1>3. [n \in Movies |-> Written(n)]' = [n \in Movies |-> Written(n)]
  BY <1>2
<1>4. (~Undisturbed)' = ~Undisturbed
  BY <1>1 DEF Undisturbed
<1>5. CASE \A m \in Unsaved(w) : stored[m] = saved[w][m]
  <2>1. stored' = [m \in Movies |-> IF m \in Unsaved(w) THEN seen[w][m] ELSE stored[m]]
    BY <1>5 DEF SaveOffsets
  <2>2. /\ seen[w] \in [Movies -> 0 .. 2]
        /\ saved[w] \in [Movies -> 0 .. 2]
    BY DEF PublicationInvariant, TypeOK, SourceTypeOK
  <2>3. ASSUME NEW m \in Unsaved(w)
        PROVE  m \in Movies /\ stored[m] = 0 /\ seen[w][m] = 1 /\ topic[m] >= 1
    <3>1. m \in Movies /\ saved[w][m] < seen[w][m]
      BY DEF Unsaved
    <3>2. seen[w][m] <= 1
      BY <1>1, <3>1 DEF PublicationInvariant
    <3>3. seen[w][m] = 1 /\ saved[w][m] = 0
      BY <2>2, <3>1, <3>2
    <3>4. topic[m] >= 1
      BY <1>1, <3>1, <3>3 DEF PublicationInvariant, DroppedArePublished
    <3> QED BY <1>5, <3>1, <3>3, <3>4
  <2>4. stored' = [m \in Movies |-> IF m \in Unsaved(w) THEN 1 ELSE stored[m]]
    BY <2>1, <2>3
  <2>5. Promise!Settle(Unsaved(w))
    BY <1>1, <1>3, <1>4, <2>3, <2>4 DEF Promise!Settle
  <2>6. Unsaved(w) \in SUBSET Movies BY DEF Unsaved
  <2> QED BY <2>5, <2>6 DEF Promise!Next
<1>6. CASE ~ \A m \in Unsaved(w) : stored[m] = saved[w][m]
  <2>1. UNCHANGED stored BY <1>6 DEF SaveOffsets
  <2> QED BY <1>1, <1>3, <1>4, <2>1 DEF Promise!vars
<1> QED BY <1>5, <1>6

\* The steps that neither write nor publish nor save may count a fault.
LEMMA OthersDisturb ==
  ASSUME faults \in Nat, faults' = faults \/ faults' = faults + 1,
         UNCHANGED <<log, stored, topic>>
  PROVE  Promise!Next \/ UNCHANGED Promise!vars
<1>1. \A n : Written(n)' = Written(n)
  BY SameLog
<1>2. [n \in Movies |-> Written(n)]' = [n \in Movies |-> Written(n)]
  BY <1>1
<1>3. CASE faults' = faults
  <2>1. (~Undisturbed)' = ~Undisturbed BY <1>3 DEF Undisturbed
  <2> QED BY <1>2, <2>1 DEF Promise!vars
<1>4. CASE faults' = faults + 1
  <2>1. (~Undisturbed)' = TRUE BY <1>4 DEF Undisturbed
  <2>2. Promise!Disturb BY <1>2, <2>1 DEF Promise!Disturb
  <2> QED BY <2>2 DEF Promise!Next
<1> QED BY <1>3, <1>4

\* The projection is at least once, as its name promises: a record once in the
\* topic stays, an offset is stored for good and only of what is published,
\* and nothing is published again unless something has failed
\* (R2dbcProjection.atLeastOnce and EventsProjectionHandler.process).
THEOREM PublicationIsAtLeastOnce == Spec => ImplementsAtLeastOnce
<1>1. Init => Promise!Init
  <2> SUFFICES ASSUME Init PROVE Promise!Init
    OBVIOUS
  <2>1. \A m : Written(m) = 0
    BY SourceStarts DEF Init
  <2>2. (~Undisturbed) = FALSE
    BY DEF Undisturbed, Init, SourceInit
  <2> QED BY <2>1, <2>2 DEF Init, SourceInit, Promise!Init
<1>2. PublicationInvariant /\ PublicationInvariant' /\ [Next]_vars
         => [Promise!Next]_(Promise!vars)
  <2> SUFFICES ASSUME PublicationInvariant, PublicationInvariant', [Next]_vars
               PROVE  Promise!Next \/ UNCHANGED Promise!vars
    OBVIOUS
  <2>1. faults \in Nat
    BY DEF PublicationInvariant, TypeOK, SourceTypeOK
  <2>2. CASE \E m \in Movies : Write(m) /\ UNCHANGED ownVars
    BY <2>2, WriteIsPromised DEF Promise!Next
  <2>3. CASE \E w \in Workers : Send(w)
    BY <2>3, SendIsPromised
  <2>4. CASE \E w \in Workers : SaveOffsets(w)
    BY <2>4, SaveIsPromised
  <2>5. CASE UNCHANGED <<log, stored, topic>> /\ (faults' = faults \/ faults' = faults + 1)
    BY <2>1, <2>5, OthersDisturb
  <2>6. \/ \E m \in Movies : Write(m) /\ UNCHANGED ownVars
        \/ \E w \in Workers : Send(w) \/ SaveOffsets(w)
        \/ UNCHANGED <<log, stored, topic>> /\ (faults' = faults \/ faults' = faults + 1)
    BY DEF Next, vars, sourceVars, ownVars, Work, Start, StartWorker, RestartWorker, ReadOffsets,
       Read, Accept, PassOver, Acknowledged, SerializeThrows, SendFails, StopWorker, Fault
  <2> QED BY <2>2, <2>3, <2>4, <2>5, <2>6
<1> QED
  BY <1>1, <1>2, PublicationInvariantHolds, PTL
  DEF ImplementsAtLeastOnce, Promise!Spec, Spec
=============================================================================
