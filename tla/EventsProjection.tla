-------------------------- MODULE EventsProjection --------------------------
(***************************************************************************)
(* The projection that publishes events to the Kafka topic.  It is at      *)
(* least once: an event is sent first, and its offset is stored later,     *)
(* together with those of other events.  serialize knows registrations     *)
(* only; a disabled event fails the handler, and with it the projection,   *)
(* which restarts and meets the same event again.                          *)
(***************************************************************************)
EXTENDS SliceProjection

VARIABLES
    topic,          \* topic[m]: how often m's registration is in the topic:
                    \* 0, 1, or 2 for two times or more
    saved           \* saved[w][m]: the seq_nr of m that w knows to be stored

ownVars == <<topic, saved>>
vars == <<sourceVars, ownVars>>

NothingSaved == [m \in Movies |-> 0]

Init == /\ SourceInit
        /\ topic = [m \in Movies |-> 0]
        /\ saved = [w \in Workers |-> NothingSaved]

Start(w) == /\ StartWorker(w) \/ RestartWorker(w)
            /\ saved' = [saved EXCEPT ![w] = stored]
            /\ UNCHANGED topic

\* sendProducer.send: the record gets into the topic, under the movie's id.
Send(w) ==
    /\ running[w] = "handling"
    /\ Event(w).kind = "Registered"
    /\ topic' = [topic EXCEPT ![Event(w).movie] = Min({@ + 1, 2})]
    /\ running' = [running EXCEPT ![w] = "handled"]
    /\ UNCHANGED <<log, stored, seen, cursor, envelope, faults, saved>>

\* Mutant: the position of the event is taken for its sequence number.
MutAcknowledgedPosition(w) ==
    /\ running[w] = "handled"
    /\ seen' = [seen EXCEPT ![w][Event(w).movie] = envelope[w]]
    /\ running' = [running EXCEPT ![w] = "reading"]
    /\ envelope' = [envelope EXCEPT ![w] = 0]
    /\ UNCHANGED <<log, stored, cursor, faults, ownVars>>

\* The broker acknowledges, the future that process returned completes.
Acknowledged(w) ==
    /\ running[w] = "handled"
    /\ seen' = [seen EXCEPT ![w][Event(w).movie] = Event(w).seqNr]
    /\ running' = [running EXCEPT ![w] = "reading"]
    /\ envelope' = [envelope EXCEPT ![w] = 0]
    /\ UNCHANGED <<log, stored, cursor, faults, ownVars>>

\* Mutant: the handler's future completes though the send has failed.
MutSendFailureIgnored(w) ==
    /\ running[w] \in {"handling", "handled"}
    /\ Event(w).kind = "Registered"
    /\ Fault
    /\ seen' = [seen EXCEPT ![w][Event(w).movie] = Event(w).seqNr]
    /\ running' = [running EXCEPT ![w] = "reading"]
    /\ envelope' = [envelope EXCEPT ![w] = 0]
    /\ UNCHANGED <<log, stored, cursor, ownVars>>

\* The send fails, before or after the record got into the topic.
SendFails(w) ==
    /\ running[w] \in {"handling", "handled"}
    /\ Event(w).kind = "Registered"
    /\ Fault
    /\ Fail(w)
    /\ UNCHANGED <<log, stored, ownVars>>

\* serialize throws IllegalArgumentException("Unknown event type").
SerializeThrows(w) ==
    /\ running[w] = "handling"
    /\ Event(w).kind # "Registered"
    /\ Fail(w)
    /\ UNCHANGED <<log, stored, faults, ownVars>>

\* The movies of which w has handled events and not yet stored the offset.
Unsaved(w) == {m \in Movies : saved[w][m] < seen[w][m]}

\* Mutant: the offsets of all movies are stored, those of another worker's, too.
MutSaveAllOffsets(w) ==
    /\ running[w] \in {"reading", "handling", "handled"}
    /\ Unsaved(w) # {}
    /\ IF \A m \in Unsaved(w) : stored[m] = saved[w][m]
       THEN /\ stored' = seen[w]
            /\ saved' = [saved EXCEPT ![w] = seen[w]]
            /\ UNCHANGED <<running, seen, cursor, envelope>>
       ELSE /\ Fail(w)
            /\ UNCHANGED <<stored, saved>>
    /\ UNCHANGED <<log, faults, topic>>

\* The offsets of the events handled so far are stored, in one transaction
\* that the primary key refuses if another worker has stored one of them.
SaveOffsets(w) ==
    /\ running[w] \in {"reading", "handling", "handled"}
    /\ Unsaved(w) # {}
    /\ IF \A m \in Unsaved(w) : stored[m] = saved[w][m]
       THEN /\ stored' = [m \in Movies |-> IF m \in Unsaved(w) THEN seen[w][m] ELSE stored[m]]
            /\ saved' = [saved EXCEPT ![w] = seen[w]]
            /\ UNCHANGED <<running, seen, cursor, envelope>>
       ELSE /\ Fail(w)
            /\ UNCHANGED <<stored, saved>>
    /\ UNCHANGED <<log, faults, topic>>

Read(w) == \/ \E k \in DOMAIN log : Accept(w, k)
           \/ PassOver(w)

Work(w) == \/ Start(w)
           \/ Read(w) /\ UNCHANGED ownVars
           \/ Send(w) \/ Acknowledged(w) \/ SerializeThrows(w)

Next == \/ \E m \in Movies : Write(m) /\ UNCHANGED ownVars
        \/ \E w \in Workers :
              \/ Work(w) \/ SaveOffsets(w) \/ SendFails(w)
              \/ StopWorker(w) /\ UNCHANGED ownVars

\* Some worker always gets to run, and offsets are stored after a while.
Fairness == /\ WF_vars(\E w \in Workers : Work(w))
            /\ \A w \in Workers : WF_vars(SaveOffsets(w))

Spec == Init /\ [][Next]_vars
FairSpec == Spec /\ Fairness

-----------------------------------------------------------------------------
(* Properties.                                                             *)

TypeOK == /\ SourceTypeOK
          /\ topic \in [Movies -> 0 .. 2]
          /\ saved \in [Workers -> [Movies -> 0 .. 2]]

\* No offset outruns the topic: an event whose offset is stored, and that no
\* restart will look at again, has been published; so an event that cannot
\* be published is never stored.
StoredArePublished ==
    \A m \in Movies : (stored[m] >= 1 => topic[m] >= 1) /\ stored[m] <= 1

\* A worker that takes an event for a duplicate is right: it is in the topic.
DroppedArePublished ==
    \A w \in Workers, m \in Movies :
        running[w] \notin {"stopped", "failed"} /\ seen[w][m] >= 1 => topic[m] >= 1

\* No fault so far, and no event that fails the handler.
Undisturbed == faults = 0 /\ \A k \in DOMAIN log : log[k].kind = "Registered"

\* Subscribers see a registration twice only after a failure: some fault, or
\* an event that cannot be serialized and makes the projection start over.
TwiceOnlyAfterFailure == \A m \in Movies : topic[m] = 2 => ~Undisturbed

\* Seen from outside, the projection keeps what atLeastOnce promises: a record
\* is never taken back, an offset never goes back, and is stored only of what is
\* published, though offsets are stored in batches, by workers that race.
Promise == INSTANCE AtLeastOnce
              WITH written <- [m \in Movies |-> Written(m)], settled <- stored,
                   disturbed <- ~Undisturbed

ImplementsAtLeastOnce == Promise!Spec

\* The event a worker handles is one of the log, and the successor of what
\* the worker has handled; once sent, it is a registration in the topic.
HandledIsNext ==
    \A w \in Workers :
        /\ running[w] \in {"handling", "handled"} =>
              /\ envelope[w] \in DOMAIN log
              /\ Event(w).seqNr = seen[w][Event(w).movie] + 1
        /\ running[w] = "handled" =>
              Event(w).kind = "Registered" /\ topic[Event(w).movie] >= 1

\* Before anything has failed, one worker at most has started; it knows which
\* offsets are stored, and whatever is in the topic it has handled or sent.
OneWorkerUntilFailure ==
    Undisturbed =>
        /\ \A v, w \in Workers : running[v] # "stopped" /\ running[w] # "stopped" => v = w
        /\ \A w \in Workers : /\ running[w] # "failed"
                              /\ running[w] # "stopped" =>
                                    saved[w] = stored /\ \A m \in Movies : stored[m] <= seen[w][m]
        /\ \A m \in Movies : topic[m] >= 1 =>
              /\ topic[m] = 1
              /\ \E w \in Workers :
                    \/ running[w] # "stopped" /\ seen[w][m] >= 1
                    \/ running[w] = "handled" /\ Event(w).movie = m

\* The inductive invariant behind the three properties above: what is known,
\* stored or sent, at every worker, between sending and storing
\* (atLeastOnce around EventsProjectionHandler.process).
PublicationInvariant ==
    /\ TypeOK
    /\ LogNumbered
    /\ HandledIsNext
    /\ StoredArePublished
    /\ DroppedArePublished
    /\ \A w \in Workers, m \in Movies :
          running[w] \notin {"stopped", "failed"} => seen[w][m] <= 1
    /\ OneWorkerUntilFailure

\* As long as no movie of the range is disabled, every registration gets
\* published, whatever fails meanwhile.
PublishedUnlessDisabled ==
    \A m \in Movies :
        [](\A k \in DOMAIN log : log[k].kind = "Registered") =>
            (Written(m) >= 1 ~> topic[m] >= 1)

\* Every registration gets published.
RegisteredArePublished == \A m \in Movies : (Written(m) >= 1) ~> (topic[m] >= 1)
=============================================================================
