--------------------------- MODULE SliceProjection ---------------------------
(***************************************************************************)
(* What both projections share: a range of slices of the event journal,    *)
(* read by eventsBySlices, and the workers ShardedDaemonProcess runs for   *)
(* the range.  DBProjection and EventsProjection extend this module with   *)
(* their handler and with the way it saves offsets.                        *)
(*                                                                         *)
(* A worker reads the events in the order of their timestamps.  The live   *)
(* query may pass over an event whose transaction becomes visible late; a  *)
(* backtracking query finds it later.  An envelope is handled only when it *)
(* is the successor of the last one of its movie: the worker keeps the     *)
(* sequence numbers in memory, read from the offset store when it starts.  *)
(***************************************************************************)
EXTENDS Naturals, Sequences, FiniteSets, FiniteSetsExt

CONSTANTS
    Movies,         \* the movies of the slice range
    Workers,        \* the processes that may run the projection of the range
    MaxFaults       \* bound on crashes, database failures, late events, splits

VARIABLES
    log,            \* the events of the range, in the order of db_timestamp
    stored,         \* stored[m]: last seq_nr of m in the offset store
    running,        \* running[w]: what worker w is doing
    seen,           \* seen[w][m]: last seq_nr of m that w has accepted
    cursor,         \* cursor[w]: how far in log the live query of w has come
    envelope,       \* envelope[w]: the position in log of the event w handles, or 0
    faults          \* the number of faults so far

sourceVars == <<log, stored, running, seen, cursor, envelope, faults>>

Kinds == {"Registered", "Disabled"}
Phases == {"stopped", "reading", "handling", "handled", "failed"}

Fault == faults < MaxFaults /\ faults' = faults + 1

\* The seq_nr of the last event of m in the journal.
Written(m) == Cardinality({k \in DOMAIN log : log[k].movie = m})

\* Position k in log is that of the latest event with a stored offset.
LatestStored(k) ==
    LET Offsets == {l \in DOMAIN log : log[l].seqNr <= stored[log[l].movie]}
    IN  (k = 0 \/ k \in Offsets) /\ \A l \in Offsets : l <= k

SourceInit == /\ log = << >>
              /\ stored = [m \in Movies |-> 0]
              /\ running = [w \in Workers |-> "stopped"]
              /\ seen = [w \in Workers |-> [m \in Movies |-> 0]]
              /\ cursor = [w \in Workers |-> 0]
              /\ envelope = [w \in Workers |-> 0]
              /\ faults = 0

\* The aggregate of m persists its next event: it is registered, then
\* disabled, and no more (module Aggregate).
Write(m) ==
    /\ Written(m) < 2
    /\ log' = Append(log, [movie |-> m, seqNr |-> Written(m) + 1,
                           kind |-> IF Written(m) = 0 THEN "Registered" ELSE "Disabled"])
    /\ UNCHANGED <<stored, running, seen, cursor, envelope, faults>>

\* What a worker does first: it reads the offsets, and begins where they end.
ReadOffsets(w) ==
    /\ running' = [running EXCEPT ![w] = "reading"]
    /\ seen' = [seen EXCEPT ![w] = stored]
    /\ \E k \in 0 .. Len(log) :
          LatestStored(k) /\ cursor' = [cursor EXCEPT ![w] = k]
    /\ UNCHANGED <<log, stored, envelope>>

Alone(w) == \A v \in Workers \ {w} : running[v] = "stopped"

\* Mutant: every node starts the projection for itself.
MutStartEverywhere(w) == running[w] = "stopped" /\ ReadOffsets(w) /\ UNCHANGED faults

\* startProjection: ShardedDaemonProcess starts a worker for the range.  A
\* second one only starts while the cluster is split.
StartWorker(w) == /\ running[w] = "stopped"
                  /\ IF Alone(w) THEN UNCHANGED faults ELSE Fault
                  /\ ReadOffsets(w)

\* Mutant: the projection gives up after a number of failures.
MutRestartGivesUp(w) == /\ running[w] = "failed"
                        /\ faults < MaxFaults
                        /\ ReadOffsets(w)
                        /\ UNCHANGED faults

\* A projection whose stream has failed restarts after a backoff.
RestartWorker(w) == running[w] = "failed" /\ ReadOffsets(w) /\ UNCHANGED faults

\* Mutant: a gap in the sequence numbers is accepted.
MutNextOfWithGap(w, k) == log[k].seqNr > seen[w][log[k].movie]

NextOf(w, k) == log[k].seqNr = seen[w][log[k].movie] + 1

\* Mutant: backtracking is disabled.
MutAcceptNoBacktracking(w, k) ==
    /\ running[w] = "reading"
    /\ k = cursor[w] + 1
    /\ NextOf(w, k)
    /\ running' = [running EXCEPT ![w] = "handling"]
    /\ envelope' = [envelope EXCEPT ![w] = k]
    /\ cursor' = [cursor EXCEPT ![w] = k]
    /\ UNCHANGED <<log, stored, seen, faults>>

\* Mutant: an event counts as handled when it is read.
MutAcceptAsHandled(w, k) ==
    /\ running[w] = "reading"
    /\ k <= cursor[w] + 1
    /\ NextOf(w, k)
    /\ running' = [running EXCEPT ![w] = "handling"]
    /\ seen' = [seen EXCEPT ![w][log[k].movie] = log[k].seqNr]
    /\ envelope' = [envelope EXCEPT ![w] = k]
    /\ cursor' = [cursor EXCEPT ![w] = Max({@, k})]
    /\ UNCHANGED <<log, stored, faults>>

\* The live query emits the next event, or backtracking one that lies behind,
\* and the offset store accepts it.
Accept(w, k) ==
    /\ running[w] = "reading"
    /\ k <= cursor[w] + 1
    /\ NextOf(w, k)
    /\ running' = [running EXCEPT ![w] = "handling"]
    /\ envelope' = [envelope EXCEPT ![w] = k]
    /\ cursor' = [cursor EXCEPT ![w] = Max({@, k})]
    /\ UNCHANGED <<log, stored, seen, faults>>

\* The offset store drops a duplicate, or an event whose predecessor is still
\* missing; or the event is not visible yet when the live query passes it.
PassOver(w) ==
    /\ running[w] = "reading"
    /\ cursor[w] < Len(log)
    /\ IF NextOf(w, cursor[w] + 1) THEN Fault ELSE UNCHANGED faults
    /\ cursor' = [cursor EXCEPT ![w] = @ + 1]
    /\ UNCHANGED <<log, stored, running, seen, envelope>>

\* What a worker holds in memory is gone when its stream ends.
Forget(w) == /\ seen' = [seen EXCEPT ![w] = [m \in Movies |-> 0]]
             /\ cursor' = [cursor EXCEPT ![w] = 0]
             /\ envelope' = [envelope EXCEPT ![w] = 0]

\* The node of w crashes or, at the end of a split, one worker is stopped.
StopWorker(w) ==
    /\ running[w] # "stopped"
    /\ IF Alone(w) THEN Fault ELSE UNCHANGED faults
    /\ running' = [running EXCEPT ![w] = "stopped"]
    /\ Forget(w)
    /\ UNCHANGED <<log, stored>>

\* A failure of the handler or of the database: the stream fails, and the
\* projection restarts after a backoff.
Fail(w) == running' = [running EXCEPT ![w] = "failed"] /\ Forget(w)

Event(w) == log[envelope[w]]

SourceTypeOK ==
    /\ log \in Seq([movie : Movies, seqNr : 1 .. 2, kind : Kinds])
    /\ stored \in [Movies -> 0 .. 2]
    /\ running \in [Workers -> Phases]
    /\ seen \in [Workers -> [Movies -> 0 .. 2]]
    /\ cursor \in [Workers -> Nat]
    /\ envelope \in [Workers -> Nat]
    /\ faults \in Nat

\* An event is numbered within those of its movie; the first one of a movie is
\* its registration.
LogNumbered ==
    \A k \in DOMAIN log : /\ log[k].seqNr <= Written(log[k].movie)
                          /\ log[k].kind = "Registered" <=> log[k].seqNr = 1
=============================================================================
