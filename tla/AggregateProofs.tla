--------------------------- MODULE AggregateProofs ---------------------------
(***************************************************************************)
(* Theorems about Aggregate, for every set of movies, nodes and requests,  *)
(* any number of faults, and whether or not the cluster may split: first   *)
(* the journal and the confirmations, then the requests (each takes effect *)
(* once and is answered once, a rejection has a reason) and, for a cluster *)
(* that is not split, the reads.                                           *)
(***************************************************************************)
EXTENDS Aggregate, TLAPS

-----------------------------------------------------------------------------
(* Type correctness: one step per action.                                  *)

\* Every operator that yields an event, a state or a reply yields one of the
\* right type (EventOf, eventHandler, Accepted, Rejected, Summary).
LEMMA DataTypes ==
    /\ emptyState \in State
    /\ \A c \in Command : EventOf(c) \in Event
    /\ \A m \in Movies, s \in State, e \in Event : eventHandler(m, s, e) \in State
    /\ \A c \in Command, s \in State :
          Accepted(c, s) \in Reply /\ Rejected(c) \in Reply /\ Summary(c, s) \in Reply
  BY DEF emptyState, State, Command, EventOf, Event, eventHandler, Accepted,
         Rejected, Summary, Reply

\* The steps that only move messages keep the types.
LEMMA TypeMessages ==
  ASSUME TypeOK,
         \/ \E c \in Command : Ask(c)
         \/ \E c \in inFlight : Deliver(c) \/ Lose(c)
         \/ \E m \in Movies, n \in Nodes : HandOff(m, n)
  PROVE  TypeOK'
<1>1. ASSUME NEW c \in Command, Ask(c) PROVE TypeOK'
  BY <1>1 DEF TypeOK, Ask, entityVars
<1>2. ASSUME NEW c \in inFlight, Deliver(c) PROVE TypeOK'
  <2>1. c \in Command BY DEF TypeOK
  <2>2. <<home[c.movie], c.movie>> \in Incarnations
    BY <2>1 DEF TypeOK, Command, Incarnations
  <2>3. mailbox' \in [Incarnations -> Seq(Command)]
    BY <1>2, <2>1, <2>2 DEF TypeOK, Deliver
  <2> QED BY <1>2, <2>3 DEF TypeOK, Deliver
<1>3. ASSUME NEW c \in inFlight, Lose(c) PROVE TypeOK'
  BY <1>3 DEF TypeOK, Lose, Fault, entityVars
<1>4. ASSUME NEW m \in Movies, NEW n \in Nodes, HandOff(m, n) PROVE TypeOK'
  BY <1>4 DEF TypeOK, HandOff, entityVars
<1> QED BY <1>1, <1>2, <1>3, <1>4

\* Starting and recovering an incarnation keep the types.
LEMMA TypeRecovery ==
  ASSUME TypeOK, TargetsExist, NEW i \in Incarnations,
         \/ Start(i) \/ Restart(i)
         \/ ReplayEvent(i) \/ RecoveryCompleted(i) \/ RecoveryFailed(i)
         \/ Passivate(i)
  PROVE  TypeOK'
<1>m. i[2] \in Movies BY DEF Incarnations
<1>1. CASE Start(i) \/ Restart(i)
  <2>1. BeginReplay(i) BY <1>1 DEF Start, Restart
  <2>2. Len(journal[i[2]]) \in Nat BY <1>m DEF TypeOK
  <2> QED BY <2>1, <2>2, DataTypes DEF BeginReplay, TypeOK, Phases
<1>2. CASE ReplayEvent(i)
  <2>1. seqNr[i] + 1 \in 1 .. Len(journal[i[2]])
    BY <1>2, <1>m DEF ReplayEvent, TargetsExist, TypeOK
  <2>2. journal[i[2]][seqNr[i] + 1] \in Event
    BY <1>m, <2>1 DEF TypeOK
  <2>3. eventHandler(i[2], state[i], journal[i[2]][seqNr[i] + 1]) \in State
    BY <1>m, <2>2, DataTypes DEF TypeOK
  <2> QED BY <1>2, <2>3 DEF ReplayEvent, TypeOK
<1>3. CASE RecoveryCompleted(i)
  BY <1>3 DEF RecoveryCompleted, TypeOK, Phases
<1>4. CASE RecoveryFailed(i)
  BY <1>4, DataTypes DEF Forget, RecoveryFailed, Fault, TypeOK, Phases
<1>5. CASE Passivate(i)
  BY <1>5, DataTypes DEF Forget, Passivate, TypeOK, Phases
<1> QED BY <1>1, <1>2, <1>3, <1>4, <1>5

\* So do the steps of the command handler.
LEMMA TypeHandlers ==
  ASSUME TypeOK, NEW i \in Incarnations,
         \/ onRegister(i) \/ onDisable(i) \/ onDisableDisabled(i)
         \/ onGet(i) \/ onUnmatched(i)
  PROVE  TypeOK'
<1>m. i[2] \in Movies BY DEF Incarnations
<1>h. /\ mailbox[i] # << >>
      /\ mailbox[i] \in Seq(Command)
  BY DEF TypeOK, onRegister, onDisable, onDisableDisabled, onGet, onUnmatched, Takes
<1>c. /\ Head(mailbox[i]) \in Command
      /\ Tail(mailbox[i]) \in Seq(Command)
  BY <1>h
<1>1. CASE onRegister(i) \/ onDisable(i)
  <2>1. Persist(i) /\ mailbox' = [mailbox EXCEPT ![i] = Tail(@)]
    BY <1>1 DEF onRegister, onDisable, Takes
  <2>2. [movie |-> i[2], seqNr |-> seqNr[i] + 1, event |-> EventOf(Head(mailbox[i]))]
            \in Write
    BY <1>m, <1>c, DataTypes DEF TypeOK, Write
  <2> QED BY <1>c, <2>1, <2>2 DEF Persist, TypeOK, Phases
<1>2. CASE onDisableDisabled(i)
  BY <1>2, <1>c, DataTypes DEF onDisableDisabled, Takes, ReplyWith, TypeOK
<1>3. CASE onGet(i)
  BY <1>3, <1>c, DataTypes DEF onGet, Takes, ReplyWith, TypeOK
<1>4. CASE onUnmatched(i)
  BY <1>4, DataTypes DEF Forget, onUnmatched, TypeOK, Phases
<1> QED BY <1>1, <1>2, <1>3, <1>4

\* So do the outcome of a persist, at the journal and at the incarnation,
\* and crashes.
LEMMA TypeJournal ==
  ASSUME TypeOK,
         \/ \E w \in writes : JournalCommit(w) \/ JournalReject(w) \/ JournalRollback(w)
         \/ \E n \in Nodes : Crash(n)
  PROVE  TypeOK'
<1>1. ASSUME NEW w \in writes, JournalCommit(w) PROVE TypeOK'
  <2>1. w.movie \in Movies /\ w.event \in Event BY DEF TypeOK, Write
  <2>2. journal' \in [Movies -> Seq(Event)]
    BY <1>1, <2>1 DEF JournalCommit, TypeOK
  <2> QED BY <1>1, <2>2 DEF JournalCommit, TypeOK, entityVars
<1>2. ASSUME NEW w \in writes, JournalReject(w) PROVE TypeOK'
  BY <1>2 DEF JournalReject, TypeOK, entityVars
<1>3. ASSUME NEW w \in writes, JournalRollback(w) PROVE TypeOK'
  BY <1>3 DEF JournalRollback, Fault, TypeOK, entityVars
<1>4. ASSUME NEW n \in Nodes, Crash(n) PROVE TypeOK'
  BY <1>4, DataTypes DEF Crash, Fault, TypeOK, Phases
<1> QED BY <1>1, <1>2, <1>3, <1>4

LEMMA TypePersist ==
  ASSUME TypeOK, PersistsForCommand, NEW i \in Incarnations,
         Persisted(i) \/ PersistRefused(i) \/ PersistTimedOut(i)
  PROVE  TypeOK'
<1>m. i[2] \in Movies BY DEF Incarnations
<1>1. CASE Persisted(i)
  <2>1. current[i] \in Command BY <1>1 DEF Persisted, PersistsForCommand
  <2>2. eventHandler(i[2], state[i], EventOf(current[i])) \in State
    BY <1>m, <2>1, DataTypes DEF TypeOK
  <2>3. Accepted(current[i], eventHandler(i[2], state[i], EventOf(current[i]))) \in Reply
    BY <2>1, <2>2, DataTypes
  <2> QED BY <1>1, <2>2, <2>3 DEF Persisted, TypeOK, Phases
<1>2. CASE PersistRefused(i)
  BY <1>2, DataTypes DEF Forget, PersistRefused, BackOff, TypeOK, Phases
<1>3. CASE PersistTimedOut(i)
  BY <1>3, DataTypes DEF Forget, PersistTimedOut, BackOff, Fault, TypeOK, Phases
<1> QED BY <1>1, <1>2, <1>3

\* Every action keeps the types, given what the strengthening says of replays
\* and persists.
LEMMA TypeNext ==
  ASSUME TypeOK, TargetsExist, PersistsForCommand, [Next]_vars
  PROVE  TypeOK'
<1>1. CASE UNCHANGED vars
  BY <1>1 DEF vars, entityVars, TypeOK
<1>2. CASE Next
  <2>1. CASE \/ \E c \in Command : Ask(c)
             \/ \E c \in inFlight : Deliver(c) \/ Lose(c)
             \/ \E m \in Movies, n \in Nodes : HandOff(m, n)
    BY <2>1, TypeMessages
  <2>2. CASE \E i \in Incarnations : Work(i) \/ Passivate(i)
    BY <2>2, TypeRecovery, TypeHandlers, TypePersist DEF Work
  <2>3. CASE \E i \in Incarnations : RecoveryFailed(i) \/ PersistTimedOut(i)
    BY <2>3, TypeRecovery, TypePersist
  <2>4. CASE \/ \E w \in writes : JournalCommit(w) \/ JournalReject(w) \/ JournalRollback(w)
             \/ \E n \in Nodes : Crash(n)
    BY <2>4, TypeJournal
  <2> QED BY <1>2, <2>1, <2>2, <2>3, <2>4 DEF Next, Internal, DatabaseStep, Misfortune
<1> QED BY <1>1, <1>2

-----------------------------------------------------------------------------
(* The journal and the memory of the incarnations.                         *)

\* Only a commit changes the journal.
LEMMA JournalUnchangedButByCommit ==
  ASSUME [Next]_vars
  PROVE  journal' = journal \/ \E w \in writes : JournalCommit(w)
  BY DEF Next, Internal, Work, DatabaseStep, Misfortune, vars, Ask, Deliver, Lose,
         HandOff, Start, Restart, BeginReplay, ReplayEvent, RecoveryCompleted,
         RecoveryFailed, onRegister, onDisable, onDisableDisabled, onGet,
         onUnmatched, Persist, ReplyWith, JournalReject, JournalRollback,
         Persisted, PersistRefused, PersistTimedOut, BackOff, Passivate, Crash

\* The journal of a movie only grows, at its end.
LEMMA JournalGrows ==
  ASSUME TypeOK, [Next]_vars, NEW m \in Movies
  PROVE  /\ Len(journal[m]) <= Len(journal'[m])
         /\ \A k \in 1 .. Len(journal[m]) : journal'[m][k] = journal[m][k]
<1>1. CASE \E w \in writes : JournalCommit(w)
  <2>1. PICK w \in writes : JournalCommit(w) BY <1>1
  <2>2. w.movie \in Movies /\ w.event \in Event BY DEF TypeOK, Write
  <2>3. CASE m = w.movie
    BY <2>1, <2>2, <2>3 DEF JournalCommit, TypeOK
  <2>4. CASE m # w.movie
    BY <2>1, <2>2, <2>4 DEF JournalCommit, TypeOK
  <2> QED BY <2>3, <2>4
<1>2. CASE journal' = journal
  BY <1>2 DEF TypeOK
<1> QED BY <1>1, <1>2, JournalUnchangedButByCommit

\* The actions that leave the journal, the inserts under way and the progress
\* of every incarnation alone.
LEMMA CoreMessages ==
  ASSUME JournalInvariant, TypeOK',
         UNCHANGED <<journal, writes, phase, target, seqNr, state, current>>
  PROVE  JournalInvariant'
  BY DEF JournalInvariant, TargetsExist, PersistsForCommand, WritesLegal,
         JournalWellFormed, MemoryReflectsJournal, StateAt

\* No journal has more than two events.
LEMMA JournalLength ==
  ASSUME TypeOK, JournalWellFormed, NEW m \in Movies
  PROVE  Len(journal[m]) \in Nat /\ Len(journal[m]) <= 2
<1>1. journal[m] \in Seq(Event) BY DEF TypeOK
<1>2. Len(journal[m]) \in Nat BY <1>1
<1>3. CASE journal[m] = << >>
  BY <1>3
<1>4. CASE Len(journal[m]) = 1
  BY <1>2, <1>4
<1>5. CASE Len(journal[m]) = 2
  BY <1>2, <1>5
<1> QED BY <1>3, <1>4, <1>5 DEF JournalWellFormed

\* The state of an incarnation tells how many events it has applied.
LEMMA StatusTellsSeqNr ==
  ASSUME JournalInvariant, NEW i \in Incarnations
  PROVE  /\ seqNr[i] \in 0 .. 2
         /\ isEmpty(state[i]) <=> seqNr[i] = 0
         /\ isNew(state[i]) <=> seqNr[i] = 1
         /\ isDisabled(state[i]) <=> seqNr[i] = 2
<1>1. i[2] \in Movies BY DEF Incarnations
<1>2. Len(journal[i[2]]) \in Nat /\ Len(journal[i[2]]) <= 2
  BY <1>1, JournalLength DEF JournalInvariant
<1>3. seqNr[i] \in Nat /\ seqNr[i] <= Len(journal[i[2]])
  BY <1>1 DEF JournalInvariant, TypeOK, MemoryReflectsJournal
<1>4. seqNr[i] \in {0, 1, 2}
  BY <1>2, <1>3
<1>5. state[i].smStatus = IF seqNr[i] = 0 THEN "EMPTY"
                          ELSE IF seqNr[i] = 1 THEN "NEW" ELSE "DISABLED"
  <2>1. state[i] = StateAt(i[2], journal[i[2]], seqNr[i])
    BY DEF JournalInvariant, MemoryReflectsJournal
  <2> QED BY <2>1 DEF StateAt, emptyState
<1> QED
  BY <1>4, <1>5 DEF isEmpty, isNew, isDisabled

\* Applying the next event of a well-formed journal to what the events before
\* it amount to gives what the events up to it amount to (eventHandler).
LEMMA NextStateAt ==
  ASSUME TypeOK, JournalWellFormed, NEW m \in Movies,
         NEW k \in Nat, k < Len(journal[m])
  PROVE  eventHandler(m, StateAt(m, journal[m], k), journal[m][k + 1])
            = StateAt(m, journal[m], k + 1)
<1>1. CASE k = 0
  BY <1>1 DEF JournalWellFormed, StateAt, eventHandler
<1>2. CASE k = 1
  <2> DEFINE s == [id |-> m, smStatus |-> "NEW", details |-> journal[m][1].cause]
  <2>1. StateAt(m, journal[m], k) = s
    BY <1>2 DEF StateAt
  <2>2. journal[m][k + 1].kind = "Disabled"
    BY <1>2 DEF JournalWellFormed
  <2>3. eventHandler(m, s, journal[m][k + 1])
            = [id |-> m, smStatus |-> "DISABLED", details |-> journal[m][1].cause]
    <3>1. journal[m][k + 1].kind # "Registered" BY <2>2
    <3>2. eventHandler(m, s, journal[m][k + 1]) = [s EXCEPT !.id = m, !.smStatus = "DISABLED"]
      BY <3>1 DEF eventHandler
    <3> QED BY <3>2
  <2>4. StateAt(m, journal[m], k + 1)
            = [id |-> m, smStatus |-> "DISABLED", details |-> journal[m][1].cause]
    BY <1>2 DEF StateAt
  <2> QED BY <2>1, <2>3, <2>4
<1>3. k = 0 \/ k = 1
  <2>1. Len(journal[m]) \in Nat /\ Len(journal[m]) <= 2
    BY JournalLength
  <2> QED BY <2>1
<1> QED BY <1>1, <1>2, <1>3

\* The journal stays well-formed and memory a replay when one incarnation i
\* applies the event after those it has applied.
LEMMA OneMoreEvent ==
  ASSUME JournalInvariant, NEW i \in Incarnations,
         journal' = journal,
         seqNr[i] < Len(journal[i[2]]),
         seqNr' = [seqNr EXCEPT ![i] = seqNr[i] + 1],
         state'[i] = StateAt(i[2], journal[i[2]], seqNr[i] + 1),
         \A j \in Incarnations \ {i} : state'[j] = state[j]
  PROVE  MemoryReflectsJournal'
<1>1. seqNr \in [Incarnations -> Nat] BY DEF JournalInvariant, TypeOK
<1>2. seqNr'[i] = seqNr[i] + 1 /\ \A j \in Incarnations \ {i} : seqNr'[j] = seqNr[j]
  BY <1>1
<1>3. Len(journal[i[2]]) \in Nat
  <2>1. i[2] \in Movies BY DEF Incarnations
  <2> QED BY <2>1 DEF JournalInvariant, TypeOK
<1>4. seqNr'[i] <= Len(journal'[i[2]])
  BY <1>1, <1>2, <1>3
<1>5. \A j \in Incarnations :
         /\ seqNr[j] <= Len(journal[j[2]])
         /\ state[j] = StateAt(j[2], journal[j[2]], seqNr[j])
  BY DEF JournalInvariant, MemoryReflectsJournal
<1>6. ASSUME NEW j \in Incarnations
      PROVE  /\ seqNr'[j] <= Len(journal'[j[2]])
             /\ state'[j] = StateAt(j[2], journal'[j[2]], seqNr'[j])
  <2>1. CASE j = i BY <2>1, <1>2, <1>4
  <2>2. CASE j # i BY <2>2, <1>2, <1>5
  <2> QED BY <2>1, <2>2
<1> QED BY <1>6 DEF MemoryReflectsJournal, StateAt

\* A step that changes nothing of the journal and of the writes, starts neither
\* a replay nor a write, and of what the incarnations remember only forgets.
LEMMA CoreUntouched ==
  ASSUME JournalInvariant, TypeOK',
         UNCHANGED <<journal, writes>>,
         \A j \in Incarnations : \/ seqNr'[j] = seqNr[j] /\ state'[j] = state[j]
                                 \/ seqNr'[j] = 0 /\ state'[j] = emptyState,
         \A j \in Incarnations : phase'[j] = "recovering" =>
            phase[j] = "recovering" /\ target'[j] = target[j],
         \A j \in Incarnations : phase'[j] = "persisting" =>
            phase[j] = "persisting" /\ current'[j] = current[j]
  PROVE  JournalInvariant'
<1>1. TargetsExist' BY DEF JournalInvariant, TargetsExist
<1>2. PersistsForCommand' BY DEF JournalInvariant, PersistsForCommand
<1>3. WritesLegal' /\ JournalWellFormed'
  BY DEF JournalInvariant, WritesLegal, JournalWellFormed
<1>4. MemoryReflectsJournal'
  <2> SUFFICES ASSUME NEW j \in Incarnations
               PROVE  /\ seqNr'[j] <= Len(journal[j[2]])
                      /\ state'[j] = StateAt(j[2], journal[j[2]], seqNr'[j])
    BY DEF MemoryReflectsJournal, StateAt
  <2>1. Len(journal[j[2]]) \in Nat
    BY DEF JournalInvariant, TypeOK, Incarnations
  <2> QED BY <2>1 DEF JournalInvariant, MemoryReflectsJournal, StateAt
<1> QED BY <1>1, <1>2, <1>3, <1>4 DEF JournalInvariant

\* An incarnation that forgets all, as Forget(i) has it.
LEMMA CoreForgets ==
  ASSUME JournalInvariant, TypeOK', NEW i \in Incarnations,
         UNCHANGED <<journal, writes>>, Forget(i),
         \/ phase' = [phase EXCEPT ![i] = "backoff"]
         \/ phase' = [phase EXCEPT ![i] = "stopped"]
  PROVE  JournalInvariant'
<1>1. \A j \in Incarnations : \/ seqNr'[j] = seqNr[j] /\ state'[j] = state[j]
                              \/ seqNr'[j] = 0 /\ state'[j] = emptyState
  BY DEF Forget, JournalInvariant, TypeOK
<1>2. \A j \in Incarnations :
         /\ phase'[j] = "recovering" => phase[j] = "recovering" /\ target'[j] = target[j]
         /\ phase'[j] = "persisting" => phase[j] = "persisting" /\ current'[j] = current[j]
  BY DEF Forget, JournalInvariant, TypeOK
<1> QED BY <1>1, <1>2, CoreUntouched

LEMMA CoreRecovery ==
  ASSUME JournalInvariant, TypeOK', NEW i \in Incarnations,
         \/ Start(i) \/ Restart(i)
         \/ ReplayEvent(i) \/ RecoveryCompleted(i) \/ RecoveryFailed(i)
         \/ Passivate(i)
  PROVE  JournalInvariant'
<1>m. i[2] \in Movies BY DEF Incarnations
<1>1. CASE Start(i) \/ Restart(i)
  <2>1. BeginReplay(i) BY <1>1 DEF Start, Restart
  <2>2. TargetsExist'
    BY <2>1, <1>m DEF BeginReplay, JournalInvariant, TargetsExist, TypeOK
  <2>3. PersistsForCommand'
    BY <2>1 DEF BeginReplay, JournalInvariant, PersistsForCommand, TypeOK
  <2>4. MemoryReflectsJournal'
    <3>1. /\ journal' = journal
          /\ seqNr'[i] = 0 /\ state'[i] = emptyState
          /\ \A j \in Incarnations \ {i} : seqNr'[j] = seqNr[j] /\ state'[j] = state[j]
      BY <2>1 DEF BeginReplay, JournalInvariant, TypeOK
    <3>2. StateAt(i[2], journal[i[2]], 0) = emptyState
      BY DEF StateAt
    <3>3. journal[i[2]] \in Seq(Event) /\ 0 <= Len(journal[i[2]])
      BY <1>m DEF JournalInvariant, TypeOK
    <3>4. MemoryReflectsJournal
      BY DEF JournalInvariant
    <3> QED BY <3>1, <3>2, <3>3, <3>4 DEF MemoryReflectsJournal
  <2> QED BY <2>1, <2>2, <2>3, <2>4
          DEF BeginReplay, JournalInvariant, WritesLegal, JournalWellFormed
<1>2. CASE ReplayEvent(i)
  <2>1. seqNr[i] < Len(journal[i[2]])
    BY <1>2, <1>m DEF ReplayEvent, JournalInvariant, TargetsExist, TypeOK
  <2>2. state'[i] = StateAt(i[2], journal[i[2]], seqNr[i] + 1)
    BY <1>2, <1>m, <2>1, NextStateAt
       DEF ReplayEvent, JournalInvariant, MemoryReflectsJournal, TypeOK
  <2>3. MemoryReflectsJournal'
    <3>1. /\ journal' = journal
          /\ seqNr' = [seqNr EXCEPT ![i] = seqNr[i] + 1]
          /\ \A j \in Incarnations \ {i} : state'[j] = state[j]
      BY <1>2 DEF ReplayEvent, JournalInvariant, TypeOK
    <3> QED BY <2>1, <2>2, <3>1, OneMoreEvent
  <2> QED BY <1>2, <2>3 DEF ReplayEvent, JournalInvariant, TargetsExist,
             PersistsForCommand, WritesLegal, JournalWellFormed
<1>3. CASE RecoveryCompleted(i)
  <2>1. \A j \in Incarnations :
           /\ phase'[j] = "recovering" => phase[j] = "recovering" /\ target'[j] = target[j]
           /\ phase'[j] = "persisting" => phase[j] = "persisting"
    BY <1>3 DEF RecoveryCompleted, JournalInvariant, TypeOK
  <2>2. UNCHANGED <<journal, writes, seqNr, state, current>>
    BY <1>3 DEF RecoveryCompleted
  <2> QED BY <2>1, <2>2, CoreUntouched
<1>4. CASE RecoveryFailed(i) \/ Passivate(i)
  BY <1>4, CoreForgets DEF RecoveryFailed, Passivate
<1> QED BY <1>1, <1>2, <1>3, <1>4

LEMMA CoreHandlers ==
  ASSUME JournalInvariant, TypeOK', NEW i \in Incarnations,
         \/ onRegister(i) \/ onDisable(i) \/ onDisableDisabled(i)
         \/ onGet(i) \/ onUnmatched(i)
  PROVE  JournalInvariant'
<1>1. CASE onRegister(i) \/ onDisable(i)
  <2> DEFINE c == Head(mailbox[i])
             w == [movie |-> i[2], seqNr |-> seqNr[i] + 1, event |-> EventOf(c)]
  <2>1. Persist(i) BY <1>1 DEF onRegister, onDisable
  <2>2. c \in Command
    BY <1>1 DEF onRegister, onDisable, Takes, JournalInvariant, TypeOK
  <2>3. \/ w.seqNr = 1 /\ w.event.kind = "Registered"
        \/ w.seqNr = 2 /\ w.event.kind = "Disabled"
    BY <1>1, StatusTellsSeqNr DEF onRegister, onDisable, Takes, EventOf
  <2>4. WritesLegal'
    BY <2>1, <2>3 DEF Persist, JournalInvariant, WritesLegal
  <2>5. PersistsForCommand'
    BY <2>1, <2>2 DEF Persist, JournalInvariant, PersistsForCommand, TypeOK
  <2>6. TargetsExist'
    BY <2>1 DEF Persist, JournalInvariant, TargetsExist, TypeOK
  <2> QED BY <2>1, <2>4, <2>5, <2>6
          DEF Persist, JournalInvariant, JournalWellFormed, MemoryReflectsJournal, StateAt
<1>2. CASE onDisableDisabled(i) \/ onGet(i)
  BY <1>2, CoreMessages DEF onDisableDisabled, onGet, ReplyWith
<1>3. CASE onUnmatched(i)
  BY <1>3, CoreForgets DEF onUnmatched
<1> QED BY <1>1, <1>2, <1>3

\* A commit extends the journal by an event that may follow it; what the
\* incarnations hold stays the outcome of a prefix.
LEMMA CoreCommit ==
  ASSUME JournalInvariant, TypeOK', NEW w \in writes, JournalCommit(w)
  PROVE  JournalInvariant'
<1> USE DEF JournalInvariant
<1>1. w.movie \in Movies /\ w.event \in Event
  BY DEF TypeOK, Write
<1>2. /\ journal'[w.movie] = Append(journal[w.movie], w.event)
      /\ \A m \in Movies : m # w.movie => journal'[m] = journal[m]
      /\ w.seqNr = Len(journal[w.movie]) + 1
      /\ journal[w.movie] \in Seq(Event)
  BY <1>1 DEF JournalCommit, TypeOK
<1>3. JournalWellFormed'
  <2> SUFFICES ASSUME NEW m \in Movies
               PROVE  \/ journal'[m] = << >>
                      \/ Len(journal'[m]) = 1 /\ journal'[m][1].kind = "Registered"
                      \/ /\ Len(journal'[m]) = 2
                         /\ journal'[m][1].kind = "Registered"
                         /\ journal'[m][2].kind = "Disabled"
    BY DEF JournalWellFormed
  <2>1. CASE m # w.movie
    BY <2>1, <1>2 DEF JournalWellFormed
  <2>2. CASE m = w.movie /\ w.seqNr = 1 /\ w.event.kind = "Registered"
    BY <2>2, <1>1, <1>2
  <2>3. CASE m = w.movie /\ w.seqNr = 2 /\ w.event.kind = "Disabled"
    <3>1. PICK n \in Nat : n = Len(journal[m])
      BY <2>3, <1>2
    <3>2. n + 1 = 2
      BY <3>1, <2>3, <1>2
    <3>3. n = 1
      BY <3>2
    <3>4. Len(journal[m]) = 1
      BY <3>1, <3>3
    <3>5. journal[m][1].kind = "Registered"
      BY <3>4 DEF JournalWellFormed
    <3> QED BY <2>3, <3>4, <3>5, <1>1, <1>2
  <2> QED BY <2>1, <2>2, <2>3 DEF WritesLegal
<1>4. \A m \in Movies : /\ Len(journal[m]) <= Len(journal'[m])
                        /\ \A k \in 1 .. Len(journal[m]) : journal'[m][k] = journal[m][k]
  <2>1. Next BY DEF Next, Internal, DatabaseStep
  <2> QED BY <2>1, JournalGrows
<1>5. MemoryReflectsJournal'
  <2> SUFFICES ASSUME NEW i \in Incarnations
               PROVE  /\ seqNr[i] <= Len(journal'[i[2]])
                      /\ state[i] = StateAt(i[2], journal'[i[2]], seqNr[i])
    BY DEF MemoryReflectsJournal, JournalCommit, entityVars
  <2>1. i[2] \in Movies BY DEF Incarnations
  <2>2. /\ seqNr[i] \in Nat
        /\ Len(journal[i[2]]) \in Nat
        /\ Len(journal'[i[2]]) \in Nat
    BY <2>1 DEF TypeOK
  <2>3. seqNr[i] <= Len(journal[i[2]])
    BY DEF MemoryReflectsJournal
  <2>4. seqNr[i] <= Len(journal'[i[2]])
    BY <2>1, <2>2, <2>3, <1>4
  <2>5. seqNr[i] # 0 => journal'[i[2]][1] = journal[i[2]][1]
    BY <2>1, <2>2, <2>3, <1>4
  <2>6. state[i] = StateAt(i[2], journal[i[2]], seqNr[i])
    BY DEF MemoryReflectsJournal
  <2> QED BY <2>4, <2>5, <2>6 DEF StateAt
<1>6. TargetsExist'
  <2> SUFFICES ASSUME NEW i \in Incarnations, phase[i] = "recovering"
               PROVE  target[i] <= Len(journal'[i[2]])
    BY DEF TargetsExist, JournalCommit, entityVars
  <2>1. i[2] \in Movies BY DEF Incarnations
  <2>2. /\ target[i] \in Nat
        /\ Len(journal[i[2]]) \in Nat
        /\ Len(journal'[i[2]]) \in Nat
    BY <2>1 DEF TypeOK
  <2>3. target[i] <= Len(journal[i[2]])
    BY DEF TargetsExist
  <2> QED BY <2>1, <2>2, <2>3, <1>4
<1>7. PersistsForCommand' /\ WritesLegal'
  BY DEF JournalCommit, entityVars, PersistsForCommand, WritesLegal
<1> QED BY <1>3, <1>5, <1>6, <1>7

\* What the database refuses or drops leaves everything else alone.
LEMMA CoreDropped ==
  ASSUME JournalInvariant, TypeOK', NEW w \in writes,
         JournalReject(w) \/ JournalRollback(w)
  PROVE  JournalInvariant'
  BY DEF JournalReject, JournalRollback, entityVars, JournalInvariant, TargetsExist,
     PersistsForCommand, WritesLegal, JournalWellFormed, MemoryReflectsJournal, StateAt

LEMMA CorePersist ==
  ASSUME JournalInvariant, TypeOK', NEW i \in Incarnations,
         Persisted(i) \/ PersistRefused(i) \/ PersistTimedOut(i)
  PROVE  JournalInvariant'
<1>m. i[2] \in Movies BY DEF Incarnations
<1>1. CASE Persisted(i)
  <2>1. /\ seqNr[i] < Len(journal[i[2]])
        /\ state'[i] = eventHandler(i[2], state[i], journal[i[2]][seqNr[i] + 1])
    BY <1>1 DEF Persisted, Written, JournalInvariant, TypeOK
  <2>2. state'[i] = StateAt(i[2], journal[i[2]], seqNr[i] + 1)
    BY <1>m, <2>1, NextStateAt
       DEF JournalInvariant, MemoryReflectsJournal, TypeOK
  <2>3. MemoryReflectsJournal'
    <3>1. /\ journal' = journal
          /\ seqNr' = [seqNr EXCEPT ![i] = seqNr[i] + 1]
          /\ \A j \in Incarnations \ {i} : state'[j] = state[j]
      BY <1>1 DEF Persisted, JournalInvariant, TypeOK
    <3> QED BY <2>1, <2>2, <3>1, OneMoreEvent
  <2>4. TargetsExist' /\ PersistsForCommand'
    BY <1>1 DEF Persisted, JournalInvariant, TargetsExist, PersistsForCommand, TypeOK
  <2> QED BY <1>1, <2>3, <2>4
          DEF Persisted, JournalInvariant, WritesLegal, JournalWellFormed
<1>2. CASE PersistRefused(i) \/ PersistTimedOut(i)
  BY <1>2, CoreForgets DEF PersistRefused, PersistTimedOut, BackOff
<1> QED BY <1>1, <1>2

LEMMA CoreCrash ==
  ASSUME JournalInvariant, TypeOK', NEW n \in Nodes, Crash(n)
  PROVE  JournalInvariant'
<1>1. \A j \in Incarnations : \/ seqNr'[j] = seqNr[j] /\ state'[j] = state[j]
                              \/ seqNr'[j] = 0 /\ state'[j] = emptyState
  BY DEF Crash
<1>2. \A j \in Incarnations :
         /\ phase'[j] = "recovering" => phase[j] = "recovering" /\ target'[j] = target[j]
         /\ phase'[j] = "persisting" => phase[j] = "persisting" /\ current'[j] = current[j]
  BY DEF Crash
<1> QED BY <1>1, <1>2, CoreUntouched DEF Crash

-----------------------------------------------------------------------------
(* The theorems.                                                           *)

LEMMA JournalInit == Init => JournalInvariant
<1> SUFFICES ASSUME Init PROVE JournalInvariant OBVIOUS
<1>1. TypeOK
  BY DataTypes DEF Init, TypeOK, Phases
<1>2. MemoryReflectsJournal
  BY DEF Init, MemoryReflectsJournal, StateAt, Incarnations
<1>3. JournalWellFormed /\ WritesLegal /\ PersistsForCommand /\ TargetsExist
  BY DEF Init, JournalWellFormed, WritesLegal, PersistsForCommand, TargetsExist
<1> QED BY <1>1, <1>2, <1>3 DEF JournalInvariant

LEMMA JournalStep == JournalInvariant /\ [Next]_vars => JournalInvariant'
<1> SUFFICES ASSUME JournalInvariant, [Next]_vars PROVE JournalInvariant'
  OBVIOUS
<1>t. TypeOK'
  BY TypeNext DEF JournalInvariant
<1>1. CASE UNCHANGED vars
  BY <1>1, <1>t, CoreMessages DEF vars, entityVars
<1>2. CASE Next
  <2>1. CASE \/ \E c \in Command : Ask(c)
             \/ \E c \in inFlight : Deliver(c) \/ Lose(c)
             \/ \E m \in Movies, n \in Nodes : HandOff(m, n)
    BY <2>1, <1>t, CoreMessages DEF Ask, Deliver, Lose, HandOff, entityVars
  <2>2. CASE \E i \in Incarnations : Work(i) \/ Passivate(i)
    BY <2>2, <1>t, CoreRecovery, CoreHandlers, CorePersist DEF Work
  <2>3. CASE \E i \in Incarnations : RecoveryFailed(i) \/ PersistTimedOut(i)
    BY <2>3, <1>t, CoreRecovery, CorePersist
  <2>4. CASE \E w \in writes : JournalCommit(w) \/ JournalReject(w) \/ JournalRollback(w)
    BY <2>4, <1>t, CoreCommit, CoreDropped
  <2>5. CASE \E n \in Nodes : Crash(n)
    BY <2>5, <1>t, CoreCrash
  <2> QED BY <1>2, <2>1, <2>2, <2>3, <2>4, <2>5
          DEF Next, Internal, DatabaseStep, Misfortune
<1> QED BY <1>1, <1>2

\* The inductive invariant holds of every reachable state.
THEOREM JournalInvariantHolds == Spec => []JournalInvariant
  BY JournalInit, JournalStep, PTL DEF Spec

\* The variables keep their types.
THEOREM TypeCorrect == Spec => []TypeOK
  BY JournalInvariantHolds, PTL DEF JournalInvariant

\* With any number of incarnations racing for a movie, its journal is empty,
\* a registration, or a registration followed by one disabling.
THEOREM JournalIsWellFormed == Spec => []JournalWellFormed
  BY JournalInvariantHolds, PTL DEF JournalInvariant

\* Every incarnation holds the outcome of a prefix of its movie's journal.
THEOREM MemoryIsAReplay == Spec => []MemoryReflectsJournal
  BY JournalInvariantHolds, PTL DEF JournalInvariant

-----------------------------------------------------------------------------
(* Refinement: the journal implements MovieLifecycle.                      *)

\* A commit is a registration or a disabling of the movie it writes to.
LEMMA CommitIsLifecycleStep ==
  ASSUME JournalInvariant, NEW w \in writes, JournalCommit(w)
  PROVE  Lifecycle!Register(w.movie) \/ Lifecycle!Disable(w.movie)
<1> DEFINE s == [m \in Movies |-> StatusOf(journal[m])]
           t == [m \in Movies |-> StatusOf(journal'[m])]
<1> USE DEF JournalInvariant
<1>1. w.movie \in Movies /\ w.event \in Event
  BY DEF TypeOK, Write
<1>2. /\ journal[w.movie] \in Seq(Event)
      /\ w.seqNr = Len(journal[w.movie]) + 1
      /\ journal' = [journal EXCEPT ![w.movie] = Append(journal[w.movie], w.event)]
  BY <1>1 DEF JournalCommit, TypeOK
<1>3. journal'[w.movie] = Append(journal[w.movie], w.event)
  BY <1>1, <1>2 DEF TypeOK
<1>4. StatusOf(journal'[w.movie])
         = IF w.event.kind = "Registered" THEN "NEW" ELSE "DISABLED"
  BY <1>1, <1>2, <1>3 DEF StatusOf
<1>5. t = [s EXCEPT ![w.movie] =
              IF w.event.kind = "Registered" THEN "NEW" ELSE "DISABLED"]
  <2>1. ASSUME NEW m \in Movies, m # w.movie PROVE journal'[m] = journal[m]
    BY <2>1, <1>2 DEF TypeOK
  <2> QED BY <1>4, <2>1
<1>6. PICK n \in Nat : n = Len(journal[w.movie])
  BY <1>2
<1>7. n + 1 = w.seqNr
  BY <1>2, <1>6
<1>8. CASE w.seqNr = 1 /\ w.event.kind = "Registered"
  <2>1. n = 0 BY <1>7, <1>8
  <2>2. journal[w.movie] = << >> BY <2>1, <1>2, <1>6
  <2>3. s[w.movie] = "EMPTY" BY <1>1, <2>2 DEF StatusOf
  <2> QED BY <1>5, <1>8, <2>3 DEF Lifecycle!Register
<1>9. CASE w.seqNr = 2 /\ w.event.kind = "Disabled"
  <2>1. n + 1 = 2 BY <1>7, <1>9
  <2>2. n = 1 BY <2>1
  <2>3. Len(journal[w.movie]) = 1 BY <2>2, <1>6
  <2>4. journal[w.movie] # << >> /\ journal[w.movie][1].kind = "Registered"
    BY <1>1, <2>3 DEF JournalWellFormed
  <2>5. s[w.movie] = "NEW" BY <1>1, <2>3, <2>4 DEF StatusOf
  <2> QED BY <1>5, <1>9, <2>5 DEF Lifecycle!Disable
<1> QED BY <1>8, <1>9 DEF WritesLegal

LEMMA LifecycleStarts == Init => Lifecycle!Init
  BY DEF Init, Lifecycle!Init, StatusOf

LEMMA LifecycleSteps ==
  ASSUME JournalInvariant, [Next]_vars
  PROVE  [Lifecycle!Next]_([m \in Movies |-> StatusOf(journal[m])])
<1>1. CASE \E w \in writes : JournalCommit(w)
  <2>1. PICK w \in writes : JournalCommit(w) BY <1>1
  <2>2. w.movie \in Movies BY DEF JournalInvariant, TypeOK, Write
  <2> QED BY <2>1, <2>2, CommitIsLifecycleStep DEF Lifecycle!Next
<1>2. CASE journal' = journal
  BY <1>2
<1> QED BY <1>1, <1>2, JournalUnchangedButByCommit

\* The command side keeps the promise of MovieLifecycle: through every race,
\* crash and late write, a movie is registered once, then disabled once.
THEOREM JournalImplementsLifecycle == Spec => ImplementsLifecycle
<1>1. Init => Lifecycle!Init
  BY LifecycleStarts
<1>2. JournalInvariant /\ [Next]_vars
         => [Lifecycle!Next]_([m \in Movies |-> StatusOf(journal[m])])
  BY LifecycleSteps
<1> QED
  BY <1>1, <1>2, JournalInvariantHolds, PTL DEF ImplementsLifecycle, Lifecycle!Spec, Spec

-----------------------------------------------------------------------------
(* What a confirmation means.                                              *)

\* asked only grows, and only by a command with a replyTo of its own.
LEMMA AsksStayDifferent ==
  ASSUME JournalInvariant, AsksDiffer, [Next]_vars
  PROVE  /\ AsksDiffer'
         /\ asked \subseteq asked'
         /\ \A c \in asked' \ asked, d \in asked : c.replyTo # d.replyTo
<1>1. CASE \E c \in Command : Ask(c)
  BY <1>1 DEF Ask, AsksDiffer
<1>2. CASE asked' = asked
  BY <1>2 DEF AsksDiffer
<1>3. asked' = asked \/ \E c \in Command : Ask(c)
  BY DEF Next, Internal, Work, DatabaseStep, Misfortune, vars, Deliver, Lose,
         HandOff, Start, Restart, BeginReplay, ReplayEvent, RecoveryCompleted,
         RecoveryFailed, onRegister, onDisable, onDisableDisabled, onGet,
         onUnmatched, Persist, ReplyWith, JournalCommit, JournalReject, JournalRollback,
         Persisted, PersistRefused, PersistTimedOut, BackOff, Passivate, Crash
<1> QED BY <1>1, <1>2, <1>3

\* The commands of a mailbox, and those of its tail.
LEMMA TailIsRouted ==
  ASSUME TypeOK, CommandsAreRouted, NEW i \in Incarnations, mailbox[i] # << >>
  PROVE  /\ Head(mailbox[i]) \in asked
         /\ Head(mailbox[i]).movie = i[2]
         /\ \A k \in 1 .. Len(Tail(mailbox[i])) :
               /\ Tail(mailbox[i])[k] \in asked
               /\ Tail(mailbox[i])[k].movie = i[2]
<1>1. mailbox[i] \in Seq(Command) BY DEF TypeOK
<1>2. 1 \in 1 .. Len(mailbox[i]) /\ Head(mailbox[i]) = mailbox[i][1]
  BY <1>1
<1>3. \A k \in 1 .. Len(Tail(mailbox[i])) :
         /\ k + 1 \in 1 .. Len(mailbox[i])
         /\ Tail(mailbox[i])[k] = mailbox[i][k + 1]
  BY <1>1
<1> QED BY <1>2, <1>3 DEF CommandsAreRouted

\* Commands only reach incarnations of their movie.
LEMMA RoutingStep ==
  ASSUME JournalInvariant, AsksDiffer, CommandsAreRouted, Next
  PROVE  CommandsAreRouted'
<1> USE DEF JournalInvariant
<1>a. asked \subseteq asked' BY AsksStayDifferent
<1>b. ASSUME NEW i \in Incarnations, mailbox[i] # << >>,
             mailbox' = [mailbox EXCEPT ![i] = Tail(mailbox[i])]
      PROVE  \A j \in Incarnations : \A k \in 1 .. Len(mailbox'[j]) :
                mailbox'[j][k] \in asked /\ mailbox'[j][k].movie = j[2]
  <2>1. mailbox'[i] = Tail(mailbox[i])
    BY <1>b DEF TypeOK
  <2>2. \A j \in Incarnations : j # i => mailbox'[j] = mailbox[j]
    BY <1>b DEF TypeOK
  <2> QED BY <1>b, <2>1, <2>2, TailIsRouted DEF CommandsAreRouted
<1>1. ASSUME UNCHANGED <<mailbox, phase, current>> PROVE CommandsAreRouted'
  BY <1>1, <1>a DEF CommandsAreRouted
<1>2. ASSUME NEW c \in inFlight, Deliver(c) PROVE CommandsAreRouted'
  <2> DEFINE j == <<home[c.movie], c.movie>>
  <2>1. c \in asked /\ c \in Command /\ j \in Incarnations
    BY DEF TypeOK, Command, Incarnations
  <2>2. /\ mailbox[j] \in Seq(Command)
        /\ mailbox'[j] = Append(mailbox[j], c)
        /\ \A i \in Incarnations : i # j => mailbox'[i] = mailbox[i]
    BY <1>2, <2>1 DEF Deliver, TypeOK
  <2>3. \A k \in 1 .. Len(mailbox'[j]) :
           mailbox'[j][k] \in asked /\ mailbox'[j][k].movie = c.movie
    <3>1. \A k \in 1 .. Len(mailbox'[j]) :
             \/ k \in 1 .. Len(mailbox[j]) /\ mailbox'[j][k] = mailbox[j][k]
             \/ mailbox'[j][k] = c
      BY <2>1, <2>2
    <3> QED BY <2>1, <3>1 DEF CommandsAreRouted
  <2> QED BY <1>2, <2>1, <2>2, <2>3 DEF Deliver, CommandsAreRouted
<1>3. ASSUME UNCHANGED <<mailbox, asked>>,
             \A j \in Incarnations : phase'[j] = "persisting" =>
                phase[j] = "persisting" /\ current'[j] = current[j]
      PROVE  CommandsAreRouted'
  BY <1>3 DEF CommandsAreRouted
<1>4. ASSUME NEW i \in Incarnations,
             \/ Start(i) \/ Restart(i) \/ ReplayEvent(i) \/ RecoveryCompleted(i)
             \/ RecoveryFailed(i) \/ Passivate(i)
      PROVE  CommandsAreRouted'
  <2>1. UNCHANGED <<mailbox, asked>>
    BY <1>4 DEF Start, Restart, BeginReplay, ReplayEvent, RecoveryCompleted,
       RecoveryFailed, Passivate
  <2>2. \A j \in Incarnations : phase'[j] = "persisting" =>
           phase[j] = "persisting" /\ current'[j] = current[j]
    BY <1>4 DEF Forget, Start, Restart, BeginReplay, ReplayEvent, RecoveryCompleted,
       RecoveryFailed, Passivate, TypeOK
  <2> QED BY <1>3, <2>1, <2>2
<1>5. ASSUME NEW i \in Incarnations, onRegister(i) \/ onDisable(i)
      PROVE  CommandsAreRouted'
  <2>1. mailbox[i] # << >> /\ mailbox' = [mailbox EXCEPT ![i] = Tail(mailbox[i])]
    BY <1>5 DEF onRegister, onDisable, Takes
  <2>2. /\ phase' = [phase EXCEPT ![i] = "persisting"]
        /\ current' = [current EXCEPT ![i] = Head(mailbox[i])]
        /\ asked' = asked
    BY <1>5 DEF onRegister, onDisable, Persist
  <2>3. Head(mailbox[i]) \in asked /\ Head(mailbox[i]).movie = i[2]
    BY <2>1, TailIsRouted
  <2>4. \A j \in Incarnations : phase'[j] = "persisting" =>
           current'[j] \in asked /\ current'[j].movie = j[2]
    BY <2>2, <2>3 DEF CommandsAreRouted, TypeOK
  <2> QED BY <1>b, <2>1, <2>2, <2>4 DEF CommandsAreRouted
<1>6. ASSUME NEW i \in Incarnations, onDisableDisabled(i) \/ onGet(i)
      PROVE  CommandsAreRouted'
  <2>1. mailbox[i] # << >> /\ mailbox' = [mailbox EXCEPT ![i] = Tail(mailbox[i])]
    BY <1>6 DEF onDisableDisabled, onGet, Takes
  <2>2. UNCHANGED <<phase, current, asked>>
    BY <1>6 DEF onDisableDisabled, onGet, ReplyWith
  <2> QED BY <1>b, <2>1, <2>2 DEF CommandsAreRouted
<1>c. ASSUME \A j \in Incarnations : \/ mailbox'[j] = mailbox[j]
                                     \/ Len(mailbox'[j]) = 0,
             \A j \in Incarnations : phase'[j] = "persisting" =>
                phase[j] = "persisting" /\ current'[j] = current[j]
      PROVE  CommandsAreRouted'
  <2>1. ASSUME NEW j \in Incarnations, NEW k \in 1 .. Len(mailbox'[j])
        PROVE  mailbox'[j][k] \in asked /\ mailbox'[j][k].movie = j[2]
    <3>1. Len(mailbox'[j]) # 0 BY <2>1
    <3>2. mailbox'[j] = mailbox[j] BY <1>c, <3>1
    <3> QED BY <2>1, <3>2 DEF CommandsAreRouted
  <2>2. ASSUME NEW j \in Incarnations, phase'[j] = "persisting"
        PROVE  current'[j] \in asked /\ current'[j].movie = j[2]
    BY <1>c, <2>2 DEF CommandsAreRouted
  <2> QED BY <1>a, <2>1, <2>2 DEF CommandsAreRouted
<1>7. ASSUME NEW i \in Incarnations, onUnmatched(i)
      PROVE  CommandsAreRouted'
  <2>1. /\ phase' = [phase EXCEPT ![i] = "stopped"]
        /\ mailbox' = [mailbox EXCEPT ![i] = << >>]
        /\ current' = [current EXCEPT ![i] = null]
    BY <1>7 DEF Forget, onUnmatched
  <2>2. Len(<< >>) = 0 OBVIOUS
  <2>3. \A j \in Incarnations : \/ mailbox'[j] = mailbox[j] \/ Len(mailbox'[j]) = 0
    BY <2>1, <2>2 DEF TypeOK
  <2>4. \A j \in Incarnations : phase'[j] = "persisting" =>
           phase[j] = "persisting" /\ current'[j] = current[j]
    BY <2>1 DEF TypeOK
  <2> QED BY <1>c, <2>3, <2>4
<1>8. ASSUME NEW i \in Incarnations,
             Persisted(i) \/ PersistRefused(i) \/ PersistTimedOut(i)
      PROVE  CommandsAreRouted'
  <2>1. /\ mailbox' = mailbox
        /\ current' = [current EXCEPT ![i] = null]
        /\ \/ phase' = [phase EXCEPT ![i] = "ready"]
           \/ phase' = [phase EXCEPT ![i] = "backoff"]
    BY <1>8 DEF Forget, Persisted, PersistRefused, PersistTimedOut, BackOff
  <2>2. \A j \in Incarnations : phase'[j] = "persisting" =>
           phase[j] = "persisting" /\ current'[j] = current[j]
    BY <2>1 DEF TypeOK
  <2> QED BY <1>c, <2>1, <2>2
<1>9. ASSUME NEW n \in Nodes, Crash(n) PROVE CommandsAreRouted'
  <2>1. \A j \in Incarnations :
           /\ phase'[j] = IF j[1] = n THEN "stopped" ELSE phase[j]
           /\ current'[j] = IF j[1] = n THEN null ELSE current[j]
           /\ mailbox'[j] = IF j[1] = n THEN << >> ELSE mailbox[j]
    BY <1>9 DEF Crash
  <2>2. Len(<< >>) = 0 OBVIOUS
  <2>3. \A j \in Incarnations : \/ mailbox'[j] = mailbox[j] \/ Len(mailbox'[j]) = 0
    BY <2>1, <2>2
  <2>4. \A j \in Incarnations : phase'[j] = "persisting" =>
           phase[j] = "persisting" /\ current'[j] = current[j]
    BY <2>1
  <2> QED BY <1>c, <2>3, <2>4
<1>10. CASE \/ \E c \in Command : Ask(c)
            \/ \E c \in inFlight : Lose(c)
            \/ \E m \in Movies, n \in Nodes : HandOff(m, n)
            \/ \E w \in writes : JournalCommit(w) \/ JournalReject(w) \/ JournalRollback(w)
  BY <1>10, <1>1 DEF Ask, Lose, HandOff, JournalCommit, JournalReject,
     JournalRollback, entityVars
<1> QED
  BY <1>2, <1>4, <1>5, <1>6, <1>7, <1>8, <1>9, <1>10
     DEF Next, Internal, Work, DatabaseStep, Misfortune

\* A step sends at most one reply: to the command at the head of a mailbox,
\* and then not a confirmation, or to the command whose event has committed.
LEMMA NewReplies ==
  ASSUME JournalInvariant, CommandsAreRouted, [Next]_vars,
         NEW p \in replies' \ replies
  PROVE  /\ journal' = journal
         /\ \E i \in Incarnations, c \in asked :
              /\ p.to = c.replyTo
              /\ \/ p.kind # "Accepted"
                 \/ /\ c.movie = i[2]
                    /\ c = current[i]
                    /\ Written(i)
                    /\ p.summary = eventHandler(i[2], state[i], EventOf(c))
<1>1. ASSUME NEW i \in Incarnations, onDisableDisabled(i)
      PROVE  /\ journal' = journal
             /\ p.to = Head(mailbox[i]).replyTo /\ p.kind # "Accepted"
             /\ mailbox[i] # << >>
  BY <1>1 DEF onDisableDisabled, Takes, ReplyWith, Rejected
<1>2. ASSUME NEW i \in Incarnations, onGet(i)
      PROVE  /\ journal' = journal
             /\ p.to = Head(mailbox[i]).replyTo /\ p.kind # "Accepted"
             /\ mailbox[i] # << >>
  BY <1>2 DEF onGet, Takes, ReplyWith, Summary
<1>3. ASSUME NEW i \in Incarnations, Persisted(i)
      PROVE  /\ journal' = journal
             /\ p.to = current[i].replyTo
             /\ current[i] \in asked /\ current[i].movie = i[2]
             /\ Written(i)
             /\ p.summary = eventHandler(i[2], state[i], EventOf(current[i]))
  BY <1>3 DEF Persisted, Accepted, CommandsAreRouted
<1>4. \E i \in Incarnations : onDisableDisabled(i) \/ onGet(i) \/ Persisted(i)
  BY DEF Next, Internal, Work, DatabaseStep, Misfortune, vars, entityVars, Ask, Deliver,
         Lose, HandOff, Start, Restart, BeginReplay, ReplayEvent, RecoveryCompleted,
         RecoveryFailed, onRegister, onDisable, onUnmatched, Persist, JournalCommit,
         JournalReject, JournalRollback, PersistRefused, PersistTimedOut, BackOff,
         Passivate, Crash
<1> QED BY <1>1, <1>2, <1>3, <1>4, TailIsRouted DEF JournalInvariant

LEMMA RepliesStep ==
  ASSUME JournalInvariant, RepliesInvariant, [Next]_vars
  PROVE  RepliesInvariant'
<1> USE DEF JournalInvariant, RepliesInvariant
<1>1. AsksDiffer' /\ asked \subseteq asked'
  BY AsksStayDifferent
<1>2. CommandsAreRouted'
  <2>1. CASE UNCHANGED vars
    BY <2>1 DEF vars, entityVars, CommandsAreRouted
  <2>2. CASE Next
    BY <2>2, RoutingStep
  <2> QED BY <2>1, <2>2
<1>3. RepliesAreToAsks'
  <2> SUFFICES ASSUME NEW p \in replies' PROVE \E c \in asked' : p.to = c.replyTo
    BY DEF RepliesAreToAsks
  <2>1. CASE p \in replies
    BY <2>1, <1>1 DEF RepliesAreToAsks
  <2>2. CASE p \notin replies
    BY <2>2, <1>1, NewReplies
  <2> QED BY <2>1, <2>2
<1>4. AcceptedIsDurable'
  <2> SUFFICES ASSUME NEW c \in asked', NEW p \in replies',
                      p.to = c.replyTo, p.kind = "Accepted"
               PROVE  \E k \in 1 .. Len(journal'[c.movie]) :
                         /\ journal'[c.movie][k] = EventOf(c)
                         /\ p.summary = StateAt(c.movie, journal'[c.movie], k)
    BY DEF AcceptedIsDurable
  <2>1. CASE p \in replies
    <3>1. PICK d \in asked : p.to = d.replyTo
      BY <2>1 DEF RepliesAreToAsks
    <3>2. c = d
      BY <3>1, <1>1 DEF AsksDiffer
    <3>3. c.movie \in Movies
      BY <3>1, <3>2 DEF TypeOK, Command
    <3>4. PICK k \in 1 .. Len(journal[c.movie]) :
             /\ journal[c.movie][k] = EventOf(c)
             /\ p.summary = StateAt(c.movie, journal[c.movie], k)
      BY <2>1, <3>1, <3>2 DEF AcceptedIsDurable
    <3>5. /\ Len(journal[c.movie]) <= Len(journal'[c.movie])
          /\ \A l \in 1 .. Len(journal[c.movie]) :
                journal'[c.movie][l] = journal[c.movie][l]
      BY <3>3, JournalGrows
    <3>6. Len(journal[c.movie]) \in Nat /\ Len(journal'[c.movie]) \in Nat
      <4>1. TypeOK' BY TypeNext
      <4> QED BY <3>3, <4>1 DEF TypeOK
    <3>7. /\ k \in 1 .. Len(journal'[c.movie])
          /\ journal'[c.movie][k] = EventOf(c)
          /\ journal'[c.movie][1] = journal[c.movie][1]
      BY <3>4, <3>5, <3>6
    <3> QED BY <3>4, <3>7 DEF StateAt
  <2>2. CASE p \notin replies
    <3>1. PICK i \in Incarnations, d \in asked :
             /\ journal' = journal
             /\ p.to = d.replyTo
             /\ d.movie = i[2] /\ d = current[i] /\ Written(i)
             /\ p.summary = eventHandler(i[2], state[i], EventOf(d))
      BY <2>2, NewReplies
    <3>2. c = d
      BY <3>1, <1>1 DEF AsksDiffer
    <3>3. i[2] \in Movies /\ seqNr[i] \in Nat /\ Len(journal[i[2]]) \in Nat
      BY DEF TypeOK, Incarnations
    <3>4. /\ seqNr[i] < Len(journal[i[2]])
          /\ journal[i[2]][seqNr[i] + 1] = EventOf(c)
      BY <3>1, <3>2 DEF Written
    <3>5. p.summary = StateAt(i[2], journal[i[2]], seqNr[i] + 1)
      BY <3>1, <3>2, <3>3, <3>4, NextStateAt DEF MemoryReflectsJournal
    <3>6. seqNr[i] + 1 \in 1 .. Len(journal[i[2]])
      BY <3>3, <3>4
    <3> QED BY <3>1, <3>2, <3>4, <3>5, <3>6
  <2> QED BY <2>1, <2>2
<1> QED BY <1>1, <1>2, <1>3, <1>4

LEMMA RepliesInit == Init => RepliesInvariant
  BY DEF Init, RepliesInvariant, AsksDiffer, CommandsAreRouted, RepliesAreToAsks,
     AcceptedIsDurable

\* The two invariants, of the journal and of the replies, hold together.
THEOREM RepliesInvariantHolds == Spec => [](JournalInvariant /\ RepliesInvariant)
<1>1. Init => JournalInvariant /\ RepliesInvariant
  BY JournalInit, RepliesInit
<1>2. JournalInvariant /\ RepliesInvariant /\ [Next]_vars
         => (JournalInvariant /\ RepliesInvariant)'
  BY JournalStep, RepliesStep
<1> QED BY <1>1, <1>2, PTL DEF Spec

\* A confirmed request is in the journal, and the confirmation told the state
\* as of its event, for ever after.
THEOREM ConfirmationsAreDurable == Spec => []AcceptedIsDurable
<1>1. RepliesInvariant => AcceptedIsDurable
  BY DEF RepliesInvariant
<1> QED BY <1>1, RepliesInvariantHolds, PTL

-----------------------------------------------------------------------------
(* How commands move: queued, taken up, forgotten.                         *)

\* The steps that do not take up a command, write or answer: of what is queued
\* or in hand they only lose something, and of the inserts under way as well.
Loses == /\ UNCHANGED <<journal, asked, replies>>
         /\ writes' \subseteq writes
         /\ inFlight' \subseteq inFlight
         /\ \A i \in Incarnations :
               /\ mailbox'[i] = mailbox[i] \/ mailbox'[i] = << >>
               /\ \A c \in asked : InHand(i, c)' => InHand(i, c)

\* Every step sends, delivers, takes up to persist or to answer, confirms,
\* commits, or only loses something (Next).
LEMMA StepShapes ==
  ASSUME TypeOK, [Next]_vars
  PROVE  \/ \E c \in Command : Ask(c)
         \/ \E c \in inFlight : Deliver(c)
         \/ \E i \in Incarnations : \/ onRegister(i) \/ onDisable(i)
                                    \/ onDisableDisabled(i) \/ onGet(i)
                                    \/ Persisted(i)
         \/ \E w \in writes : JournalCommit(w)
         \/ Loses
<1>1. CASE UNCHANGED vars
  BY <1>1 DEF vars, entityVars, Loses, InHand
<1>2. ASSUME NEW c \in inFlight, Lose(c) PROVE Loses
  BY <1>2 DEF Lose, entityVars, Loses, InHand
<1>3. ASSUME NEW m \in Movies, NEW n \in Nodes, HandOff(m, n) PROVE Loses
  BY <1>3 DEF HandOff, entityVars, Loses, InHand
<1>4. ASSUME NEW w \in writes, JournalReject(w) \/ JournalRollback(w) PROVE Loses
  BY <1>4 DEF JournalReject, JournalRollback, entityVars, Loses, InHand
<1>5. ASSUME NEW i \in Incarnations,
             \/ Start(i) \/ Restart(i) \/ ReplayEvent(i) \/ RecoveryCompleted(i)
             \/ RecoveryFailed(i) \/ Passivate(i)
             \/ PersistRefused(i) \/ PersistTimedOut(i)
      PROVE  Loses
  <2>1. UNCHANGED <<journal, writes, asked, replies, inFlight, mailbox>>
    BY <1>5 DEF Start, Restart, BeginReplay, ReplayEvent, RecoveryCompleted,
       RecoveryFailed, Passivate, PersistRefused, PersistTimedOut, BackOff
  <2>2. ASSUME NEW j \in Incarnations, phase'[j] = "persisting"
        PROVE  phase[j] = "persisting" /\ current'[j] = current[j]
    BY <1>5, <2>2 DEF Start, Restart, BeginReplay, ReplayEvent, RecoveryCompleted,
       RecoveryFailed, Passivate, PersistRefused, PersistTimedOut, BackOff, Forget, TypeOK
  <2> QED BY <2>1, <2>2 DEF Loses, InHand
<1>6. ASSUME NEW i \in Incarnations, onUnmatched(i) PROVE Loses
  <2>1. /\ UNCHANGED <<journal, writes, asked, replies, inFlight>>
        /\ mailbox' = [mailbox EXCEPT ![i] = << >>]
        /\ phase' = [phase EXCEPT ![i] = "stopped"]
        /\ current' = [current EXCEPT ![i] = null]
    BY <1>6 DEF onUnmatched, Forget
  <2>2. \A j \in Incarnations : mailbox'[j] = mailbox[j] \/ mailbox'[j] = << >>
    BY <2>1 DEF TypeOK
  <2>3. ASSUME NEW j \in Incarnations, phase'[j] = "persisting"
        PROVE  phase[j] = "persisting" /\ current'[j] = current[j]
    BY <2>1, <2>3 DEF TypeOK
  <2> QED BY <2>1, <2>2, <2>3 DEF Loses, InHand
<1>7. ASSUME NEW n \in Nodes, Crash(n) PROVE Loses
  <2>1. UNCHANGED <<journal, writes, asked, replies, inFlight>>
    BY <1>7 DEF Crash
  <2>2. \A j \in Incarnations :
           /\ phase'[j] = IF j[1] = n THEN "stopped" ELSE phase[j]
           /\ current'[j] = IF j[1] = n THEN null ELSE current[j]
           /\ mailbox'[j] = IF j[1] = n THEN << >> ELSE mailbox[j]
    BY <1>7 DEF Crash
  <2> QED BY <2>1, <2>2 DEF Loses, InHand
<1> QED
  BY <1>1, <1>2, <1>3, <1>4, <1>5, <1>6, <1>7
     DEF Next, Internal, Work, DatabaseStep, Misfortune

\* Where the command of a mailbox is once the first one has been taken.
LEMMA TakeFromQueue ==
  ASSUME TypeOK, QueuedOnce, NEW i \in Incarnations, mailbox[i] # << >>,
         mailbox' = [mailbox EXCEPT ![i] = Tail(@)], inFlight' = inFlight,
         NEW c, c = Head(mailbox[i])
  PROVE  /\ QueuedOnce'
         /\ Queued(c) /\ ~Queued(c)'
         /\ \A d : Queued(d)' => Queued(d)
<1>1. mailbox[i] \in Seq(Command) BY DEF TypeOK
<1>2. 1 \in 1 .. Len(mailbox[i]) /\ c = mailbox[i][1]
  BY <1>1
<1>3. \A k \in 1 .. Len(Tail(mailbox[i])) :
         /\ k + 1 \in 1 .. Len(mailbox[i])
         /\ Tail(mailbox[i])[k] = mailbox[i][k + 1]
  BY <1>1
<1>4. mailbox'[i] = Tail(mailbox[i]) /\ \A j \in Incarnations \ {i} : mailbox'[j] = mailbox[j]
  BY DEF TypeOK
<1>5. ASSUME NEW j \in Incarnations, NEW k \in 1 .. Len(mailbox'[j])
      PROVE  LET l == IF j = i THEN k + 1 ELSE k
             IN  l \in 1 .. Len(mailbox[j]) /\ mailbox'[j][k] = mailbox[j][l]
  BY <1>3, <1>4
<1>6. Queued(c)
  BY <1>2 DEF Queued
<1>7. ASSUME NEW d, Queued(d)' PROVE Queued(d)
  BY <1>5, <1>7 DEF Queued
<1>8. ~Queued(c)'
  <2> SUFFICES ASSUME Queued(c)' PROVE FALSE
    OBVIOUS
  <2>1. c \notin inFlight
    BY <1>2 DEF QueuedOnce
  <2>j. PICK j \in Incarnations : \E k \in 1 .. Len(mailbox'[j]) : mailbox'[j][k] = c
    BY <2>1 DEF Queued
  <2>2. PICK k \in 1 .. Len(mailbox'[j]) : mailbox'[j][k] = c
    BY <2>j
  <2>3. PICK l \in 1 .. Len(mailbox[j]) : mailbox[j][l] = c /\ l = IF j = i THEN k + 1 ELSE k
    BY <1>5, <2>2
  <2>4. j = i /\ l = 1
    BY <1>2, <2>3 DEF QueuedOnce
  <2> QED BY <2>3, <2>4
<1>9. QueuedOnce'
  <2> SUFFICES ASSUME NEW j1 \in Incarnations, NEW j2 \in Incarnations,
                      NEW k1 \in 1 .. Len(mailbox'[j1]), NEW k2 \in 1 .. Len(mailbox'[j2])
               PROVE  /\ mailbox'[j1][k1] \notin inFlight'
                      /\ mailbox'[j1][k1] = mailbox'[j2][k2] => j1 = j2 /\ k1 = k2
    BY DEF QueuedOnce
  <2>1. PICK l1 \in 1 .. Len(mailbox[j1]) :
           mailbox'[j1][k1] = mailbox[j1][l1] /\ l1 = IF j1 = i THEN k1 + 1 ELSE k1
    BY <1>5
  <2>2. PICK l2 \in 1 .. Len(mailbox[j2]) :
           mailbox'[j2][k2] = mailbox[j2][l2] /\ l2 = IF j2 = i THEN k2 + 1 ELSE k2
    BY <1>5
  <2> QED BY <2>1, <2>2 DEF QueuedOnce
<1> QED BY <1>6, <1>7, <1>8, <1>9

\* A delivered command is where it was queued before: nowhere else (Deliver).
LEMMA DeliverToQueue ==
  ASSUME TypeOK, QueuedOnce, NEW c \in inFlight, Deliver(c)
  PROVE  QueuedOnce' /\ \A d : Queued(d)' => Queued(d)
<1> DEFINE i == <<home[c.movie], c.movie>>
<1>1. i \in Incarnations
  <2>1. c \in Command BY DEF TypeOK
  <2> QED BY <2>1 DEF TypeOK, Command, Incarnations
<1>2. /\ mailbox[i] \in Seq(Command)
      /\ mailbox'[i] = Append(mailbox[i], c)
      /\ \A j \in Incarnations \ {i} : mailbox'[j] = mailbox[j]
      /\ inFlight' = inFlight \ {c}
  BY <1>1 DEF TypeOK, Deliver
<1> HIDE DEF i
<1>3. ASSUME NEW j \in Incarnations, NEW k \in 1 .. Len(mailbox'[j])
      PROVE  \/ k \in 1 .. Len(mailbox[j]) /\ mailbox'[j][k] = mailbox[j][k]
             \/ j = i /\ k = Len(mailbox[i]) + 1 /\ mailbox'[j][k] = c
  <2>1. CASE j # i BY <1>2, <2>1
  <2>2. CASE j = i BY <1>2, <2>2
  <2> QED BY <2>1, <2>2
<1>4. ASSUME NEW d, Queued(d)' PROVE Queued(d)
  BY <1>2, <1>3, <1>4 DEF Queued
<1>5. QueuedOnce'
  <2> SUFFICES ASSUME NEW j1 \in Incarnations, NEW j2 \in Incarnations,
                      NEW k1 \in 1 .. Len(mailbox'[j1]), NEW k2 \in 1 .. Len(mailbox'[j2])
               PROVE  /\ mailbox'[j1][k1] \notin inFlight'
                      /\ mailbox'[j1][k1] = mailbox'[j2][k2] => j1 = j2 /\ k1 = k2
    BY DEF QueuedOnce
  <2>1. \A j \in Incarnations : \A k \in 1 .. Len(mailbox[j]) :
           mailbox[j][k] \notin inFlight /\ mailbox[j][k] # c
    BY DEF QueuedOnce
  <2>2. \/ k1 \in 1 .. Len(mailbox[j1]) /\ mailbox'[j1][k1] = mailbox[j1][k1]
        \/ j1 = i /\ k1 = Len(mailbox[i]) + 1 /\ mailbox'[j1][k1] = c
    BY <1>3
  <2>3. \/ k2 \in 1 .. Len(mailbox[j2]) /\ mailbox'[j2][k2] = mailbox[j2][k2]
        \/ j2 = i /\ k2 = Len(mailbox[i]) + 1 /\ mailbox'[j2][k2] = c
    BY <1>3
  <2>4. mailbox'[j1][k1] \notin inFlight'
    BY <1>2, <2>1, <2>2
  <2>5. ASSUME mailbox'[j1][k1] = mailbox'[j2][k2] PROVE j1 = j2 /\ k1 = k2
    <3>1. CASE k1 \in 1 .. Len(mailbox[j1]) /\ mailbox'[j1][k1] = mailbox[j1][k1]
      <4>1. k2 \in 1 .. Len(mailbox[j2]) /\ mailbox'[j2][k2] = mailbox[j2][k2]
        BY <2>1, <2>3, <2>5, <3>1
      <4>2. mailbox[j1][k1] = mailbox[j2][k2] BY <2>5, <3>1, <4>1
      <4> QED BY <3>1, <4>1, <4>2 DEF QueuedOnce
    <3>2. CASE j1 = i /\ k1 = Len(mailbox[i]) + 1 /\ mailbox'[j1][k1] = c
      <4>1. ~(k2 \in 1 .. Len(mailbox[j2]) /\ mailbox'[j2][k2] = mailbox[j2][k2])
        BY <2>1, <2>5, <3>2
      <4> QED BY <2>3, <3>2, <4>1
    <3> QED BY <2>2, <3>1, <3>2
  <2> QED BY <2>4, <2>5
<1> QED BY <1>4, <1>5

\* A step that takes the first command c of i changes hands as told here.
LEMMA TakeInHand ==
  ASSUME TypeOK, TakenOnce, QueuedOnce, CommandsAreRouted,
         NEW i \in Incarnations, NEW c, c = Head(mailbox[i]),
         \/ onRegister(i) \/ onDisable(i) \/ onDisableDisabled(i) \/ onGet(i)
  PROVE  /\ c \in asked /\ c.movie = i[2]
         /\ QueuedOnce'
         /\ Queued(c) /\ ~Queued(c)'
         /\ \A d : Queued(d)' => Queued(d)
         /\ \A j \in Incarnations : \A d : InHand(j, d)' => InHand(j, d) \/ (j = i /\ d = c)
         /\ TakenOnce'
<1>1. /\ mailbox[i] # << >>
      /\ mailbox' = [mailbox EXCEPT ![i] = Tail(@)]
      /\ UNCHANGED <<asked, inFlight>>
  BY DEF onRegister, onDisable, onDisableDisabled, onGet, Takes, Persist, ReplyWith
<1>2. c \in asked /\ c.movie = i[2]
  BY <1>1, TailIsRouted
<1>3. /\ QueuedOnce'
      /\ Queued(c) /\ ~Queued(c)'
      /\ \A d : Queued(d)' => Queued(d)
  BY <1>1, TakeFromQueue
<1>4. \A j \in Incarnations : \A d : InHand(j, d)' => InHand(j, d) \/ (j = i /\ d = c)
  <2>1. CASE onRegister(i) \/ onDisable(i)
    <3>1. phase' = [phase EXCEPT ![i] = "persisting"] /\ current' = [current EXCEPT ![i] = c]
      BY <2>1 DEF onRegister, onDisable, Persist
    <3> QED BY <3>1 DEF TypeOK, InHand
  <2>2. CASE onDisableDisabled(i) \/ onGet(i)
    <3>1. UNCHANGED <<phase, current>>
      BY <2>2 DEF onDisableDisabled, onGet, ReplyWith
    <3> QED BY <3>1 DEF InHand
  <2> QED BY <2>1, <2>2
<1>5. TakenOnce'
  BY <1>1, <1>2, <1>3, <1>4 DEF TakenOnce
<1> QED BY <1>2, <1>3, <1>4, <1>5

-----------------------------------------------------------------------------
(* TokensInvariant is inductive: one lemma per shape of step.              *)

\* A command is at the service, at one queue, or in one hand; a step after
\* which no more is queued, in hand or on its way to the journal.
LEMMA TokensFewer ==
  ASSUME TokensInvariant, QueuedOnce',
         UNCHANGED <<journal, asked, replies>>, writes' \subseteq writes,
         \A d : Queued(d)' => Queued(d),
         \A j \in Incarnations, d \in asked : InHand(j, d)' => InHand(j, d)
  PROVE  TokensInvariant'
<1> USE DEF TokensInvariant
<1>1. \A r : HasEffect(r)' => HasEffect(r)
  BY DEF HasEffect
<1>2. TakenOnce'
  BY DEF TakenOnce
<1>3. EffectsOnce' /\ EffectsAreAsked'
  BY DEF EffectsOnce, OneEffectPerRequest, EffectsAreAsked
<1>4. EffectsComeLater' /\ OnlyConfirmedHaveEffect'
  BY <1>1 DEF EffectsComeLater, OnlyConfirmedHaveEffect
<1>5. AnswersComeLast'
  BY DEF AnswersComeLast
<1>6. OneAnswerPerRequest' /\ RejectedIsJustified'
  BY DEF OneAnswerPerRequest, RejectedIsJustified
<1> QED BY <1>2, <1>3, <1>4, <1>5, <1>6

LEMMA TokensLoses ==
  ASSUME TypeOK, TokensInvariant, Loses
  PROVE  TokensInvariant'
<1>1. ASSUME NEW j \in Incarnations, NEW k \in 1 .. Len(mailbox'[j])
      PROVE  k \in 1 .. Len(mailbox[j]) /\ mailbox'[j][k] = mailbox[j][k]
  <2>1. mailbox'[j] # << >> BY <1>1
  <2> QED BY <2>1 DEF Loses
<1>2. \A d : Queued(d)' => Queued(d)
  BY <1>1 DEF Loses, Queued
<1>3. QueuedOnce'
  BY <1>1 DEF Loses, TokensInvariant, QueuedOnce
<1>4. \A j \in Incarnations, d \in asked : InHand(j, d)' => InHand(j, d)
  BY DEF Loses
<1> QED BY <1>2, <1>3, <1>4, TokensFewer DEF Loses

LEMMA TokensDeliver ==
  ASSUME TypeOK, TokensInvariant, NEW c \in inFlight, Deliver(c)
  PROVE  TokensInvariant'
<1>1. QueuedOnce' /\ \A d : Queued(d)' => Queued(d)
  BY DeliverToQueue DEF TokensInvariant
<1>2. UNCHANGED <<journal, asked, replies, writes, phase, current>>
  BY DEF Deliver
<1>3. \A j \in Incarnations, d \in asked : InHand(j, d)' => InHand(j, d)
  BY <1>2 DEF InHand
<1> QED BY <1>1, <1>2, <1>3, TokensFewer

\* A new command has a replyTo that nothing knows of yet (Ask).
LEMMA TokensAsk ==
  ASSUME TypeOK, RepliesInvariant, TokensInvariant, NEW c \in Command, Ask(c)
  PROVE  TokensInvariant'
<1> USE DEF RepliesInvariant, TokensInvariant
<1>1. /\ asked' = asked \cup {c} /\ inFlight' = inFlight \cup {c}
      /\ \A d \in asked : d.replyTo # c.replyTo
      /\ UNCHANGED <<journal, writes, phase, current, mailbox, replies>>
  BY DEF Ask, entityVars
<1>2. c \notin asked
  BY <1>1
<1>3. /\ \A i \in Incarnations : \A k \in 1 .. Len(mailbox[i]) : mailbox[i][k] # c
      /\ \A i \in Incarnations : ~InHand(i, c)
  BY <1>2 DEF CommandsAreRouted, InHand
<1>4. ~HasEffect(c.replyTo)
  <2>0. \A d : EventOf(d).cause = d.replyTo
    BY DEF EventOf
  <2>1. ASSUME NEW w \in writes PROVE w.event.cause # c.replyTo
    <3>1. PICK d \in asked : w.event = EventOf(d)
      BY DEF EffectsAreAsked
    <3> QED BY <1>1, <2>0, <3>1
  <2>2. ASSUME NEW m \in Movies, NEW k \in 1 .. Len(journal[m])
        PROVE  journal[m][k].cause # c.replyTo
    <3>1. PICK d \in asked : journal[m][k] = EventOf(d)
      BY DEF EffectsAreAsked
    <3> QED BY <1>1, <2>0, <3>1
  <2> QED BY <2>1, <2>2 DEF HasEffect
<1>5. \A p \in replies : p.to # c.replyTo
  BY <1>1 DEF RepliesAreToAsks
<1>6. /\ \A d : Queued(d)' => Queued(d) \/ d = c
      /\ \A i \in Incarnations : \A d : InHand(i, d)' <=> InHand(i, d)
      /\ \A r : HasEffect(r)' <=> HasEffect(r)
  BY <1>1 DEF Queued, InHand, HasEffect
<1>7. QueuedOnce'
  BY <1>1, <1>3 DEF QueuedOnce
<1>8. TakenOnce'
  BY <1>1, <1>2, <1>3, <1>6 DEF TakenOnce
<1>9. EffectsOnce' /\ EffectsAreAsked'
  BY <1>1 DEF EffectsOnce, OneEffectPerRequest, EffectsAreAsked
<1>10. EffectsComeLater' /\ OnlyConfirmedHaveEffect'
  BY <1>1, <1>2, <1>4, <1>6 DEF EffectsComeLater, OnlyConfirmedHaveEffect
<1>11. AnswersComeLast'
  BY <1>1, <1>2, <1>5, <1>6 DEF AnswersComeLast
<1>12. OneAnswerPerRequest' /\ RejectedIsJustified'
  BY <1>1, <1>5 DEF OneAnswerPerRequest, RejectedIsJustified
<1> QED BY <1>7, <1>8, <1>9, <1>10, <1>11, <1>12

\* The first command c of i has had no effect and no answer before it is taken.
LEMMA HeadIsFresh ==
  ASSUME RepliesInvariant, TokensInvariant, NEW c \in asked, Queued(c)
  PROVE  /\ ~HasEffect(c.replyTo)
         /\ \A p \in replies : p.to # c.replyTo
         /\ \A j \in Incarnations : ~InHand(j, c)
         /\ \A d \in asked : d.replyTo = c.replyTo => d = c
  BY DEF TokensInvariant, EffectsComeLater, AnswersComeLast, TakenOnce,
         RepliesInvariant, AsksDiffer

\* A command that is persisted has its effect from then on (Persist).
LEMMA TokensPersist ==
  ASSUME TypeOK, RepliesInvariant, TokensInvariant, NEW i \in Incarnations,
         onRegister(i) \/ onDisable(i)
  PROVE  TokensInvariant'
<1> USE DEF RepliesInvariant, TokensInvariant
<1>c. PICK c : c = Head(mailbox[i]) OBVIOUS
<1>1. /\ c \in asked /\ c.movie = i[2]
      /\ QueuedOnce'
      /\ Queued(c) /\ ~Queued(c)'
      /\ \A d : Queued(d)' => Queued(d)
      /\ \A j \in Incarnations : \A d : InHand(j, d)' => InHand(j, d) \/ (j = i /\ d = c)
      /\ TakenOnce'
  BY <1>c, TakeInHand
<1>2. /\ ~HasEffect(c.replyTo)
      /\ \A p \in replies : p.to # c.replyTo
      /\ \A j \in Incarnations : ~InHand(j, c)
      /\ \A d \in asked : d.replyTo = c.replyTo => d = c
  BY <1>1, HeadIsFresh
<1>w. PICK w : w = [movie |-> i[2], seqNr |-> seqNr[i] + 1, event |-> EventOf(c)]
  OBVIOUS
<1>3. writes' = writes \cup {w} /\ UNCHANGED <<journal, asked, replies>>
  BY <1>c, <1>w DEF onRegister, onDisable, Persist
<1>4. w.movie = c.movie /\ w.event = EventOf(c) /\ w.event.cause = c.replyTo
  BY <1>1, <1>w DEF EventOf
<1>5. \A r : HasEffect(r)' => HasEffect(r) \/ r = c.replyTo
  BY <1>3, <1>4 DEF HasEffect
<1>6. EffectsOnce'
  BY <1>2, <1>3, <1>4 DEF EffectsOnce, OneEffectPerRequest, HasEffect
<1>7. EffectsAreAsked'
  BY <1>1, <1>3, <1>4 DEF EffectsAreAsked
<1>8. EffectsComeLater'
  BY <1>1, <1>2, <1>3, <1>5 DEF EffectsComeLater
<1>9. OnlyConfirmedHaveEffect'
  BY <1>2, <1>3, <1>5 DEF OnlyConfirmedHaveEffect
<1>10. AnswersComeLast'
  BY <1>1, <1>2, <1>3 DEF AnswersComeLast
<1>11. OneAnswerPerRequest' /\ RejectedIsJustified'
  BY <1>3 DEF OneAnswerPerRequest, RejectedIsJustified
<1> QED BY <1>1, <1>6, <1>7, <1>8, <1>9, <1>10, <1>11

\* A movie that is disabled was so by an event of the journal, which no command
\* has caused that has had no effect (onDisableDisabled).
LEMMA RejectionHasReason ==
  ASSUME JournalInvariant, NEW i \in Incarnations, isDisabled(state[i]),
         NEW c, c.movie = i[2], ~HasEffect(c.replyTo)
  PROVE  \E k \in 1 .. Len(journal[c.movie]) :
            /\ journal[c.movie][k].kind = "Disabled"
            /\ journal[c.movie][k].cause # c.replyTo
<1>1. c.movie \in Movies
  BY DEF Incarnations
<1>2. seqNr[i] = 2
  BY StatusTellsSeqNr
<1>3. Len(journal[c.movie]) \in Nat /\ 2 <= Len(journal[c.movie])
  <2>1. journal[c.movie] \in Seq(Event)
    BY <1>1 DEF JournalInvariant, TypeOK
  <2> QED BY <1>2, <2>1 DEF JournalInvariant, MemoryReflectsJournal
<1>4. journal[c.movie][2].kind = "Disabled"
  BY <1>1, <1>3 DEF JournalInvariant, JournalWellFormed
<1> QED BY <1>1, <1>3, <1>4 DEF HasEffect

\* A command that is answered at once has no effect, then or later (ReplyWith).
LEMMA TokensAnswer ==
  ASSUME JournalInvariant, RepliesInvariant, TokensInvariant, NEW i \in Incarnations,
         onDisableDisabled(i) \/ onGet(i)
  PROVE  TokensInvariant'
<1> USE DEF RepliesInvariant, TokensInvariant
<1>c. PICK c : c = Head(mailbox[i]) OBVIOUS
<1>1. /\ c \in asked /\ c.movie = i[2]
      /\ QueuedOnce'
      /\ Queued(c) /\ ~Queued(c)'
      /\ \A d : Queued(d)' => Queued(d)
      /\ TakenOnce'
  BY <1>c, TakeInHand DEF JournalInvariant
<1>2. /\ ~HasEffect(c.replyTo)
      /\ \A p \in replies : p.to # c.replyTo
      /\ \A j \in Incarnations : ~InHand(j, c)
      /\ \A d \in asked : d.replyTo = c.replyTo => d = c
  BY <1>1, HeadIsFresh
<1>3. /\ UNCHANGED <<journal, writes, asked, phase, current>>
      /\ \E q : /\ replies' = replies \cup {q}
                /\ q.to = c.replyTo /\ q.kind # "Accepted"
                /\ q.kind = "Rejected" => c.op = "Disable" /\ isDisabled(state[i])
  <2>1. CASE onDisableDisabled(i)
    <3>1. /\ UNCHANGED <<journal, writes, asked, phase, current>>
          /\ replies' = replies \cup {Rejected(c)}
          /\ c.op = "Disable" /\ isDisabled(state[i])
      BY <1>c, <2>1 DEF onDisableDisabled, Takes, ReplyWith
    <3>2. Rejected(c).to = c.replyTo /\ Rejected(c).kind # "Accepted"
      BY DEF Rejected
    <3> QED BY <3>1, <3>2
  <2>2. CASE onGet(i)
    <3>1. /\ UNCHANGED <<journal, writes, asked, phase, current>>
          /\ replies' = replies \cup {Summary(c, state[i])}
      BY <1>c, <2>2 DEF onGet, ReplyWith
    <3>2. Summary(c, state[i]).to = c.replyTo /\ Summary(c, state[i]).kind = "Summary"
      BY DEF Summary
    <3> QED BY <3>1, <3>2
  <2> QED BY <2>1, <2>2
<1>4. PICK q : /\ replies' = replies \cup {q}
               /\ q.to = c.replyTo /\ q.kind # "Accepted"
               /\ q.kind = "Rejected" => c.op = "Disable" /\ isDisabled(state[i])
  BY <1>3
<1>5. /\ \A r : HasEffect(r)' <=> HasEffect(r)
      /\ \A j \in Incarnations : \A d : InHand(j, d)' <=> InHand(j, d)
  BY <1>3 DEF HasEffect, InHand
<1>6. EffectsOnce' /\ EffectsAreAsked'
  BY <1>3 DEF EffectsOnce, OneEffectPerRequest, EffectsAreAsked
<1>7. EffectsComeLater'
  BY <1>1, <1>3, <1>5 DEF EffectsComeLater
<1>8. OnlyConfirmedHaveEffect'
  BY <1>2, <1>4, <1>5 DEF OnlyConfirmedHaveEffect
<1>9. AnswersComeLast'
  BY <1>1, <1>2, <1>3, <1>4, <1>5 DEF AnswersComeLast
<1>10. OneAnswerPerRequest'
  BY <1>2, <1>4 DEF OneAnswerPerRequest
<1>11. RejectedIsJustified'
  <2> SUFFICES ASSUME NEW d \in asked, NEW p \in replies', p.to = d.replyTo,
                      p.kind = "Rejected"
               PROVE  /\ d.op = "Disable"
                      /\ \E k \in 1 .. Len(journal[d.movie]) :
                            /\ journal[d.movie][k].kind = "Disabled"
                            /\ journal[d.movie][k].cause # d.replyTo
    BY <1>3 DEF RejectedIsJustified
  <2>1. CASE p \in replies
    BY <2>1 DEF RejectedIsJustified
  <2>2. CASE p = q
    BY <1>1, <1>2, <1>4, <2>2, RejectionHasReason
  <2> QED BY <1>4, <2>1, <2>2
<1> QED BY <1>1, <1>6, <1>7, <1>8, <1>9, <1>10, <1>11

\* A command in hand has not been answered, and is in no hand once it has been
\* confirmed (Persisted).
LEMMA TokensConfirm ==
  ASSUME TypeOK, RepliesInvariant, TokensInvariant, NEW i \in Incarnations, Persisted(i)
  PROVE  TokensInvariant'
<1> USE DEF RepliesInvariant, TokensInvariant
<1>c. PICK c : c = current[i] OBVIOUS
<1>1. InHand(i, c) /\ c \in asked
  BY <1>c DEF Persisted, InHand, CommandsAreRouted
<1>2. /\ ~Queued(c)
      /\ \A j \in Incarnations : InHand(j, c) => i = j
      /\ \A p \in replies : p.to # c.replyTo
      /\ \A d \in asked : d.replyTo = c.replyTo => d = c
  BY <1>1 DEF TakenOnce, AnswersComeLast, AsksDiffer
<1>3. /\ UNCHANGED <<journal, writes, asked, inFlight, mailbox>>
      /\ phase' = [phase EXCEPT ![i] = "ready"]
      /\ current' = [current EXCEPT ![i] = null]
      /\ replies' = replies \cup {Accepted(c, eventHandler(i[2], state[i], EventOf(c)))}
  BY <1>c DEF Persisted
<1>q. PICK q : q = Accepted(c, eventHandler(i[2], state[i], EventOf(c))) OBVIOUS
<1>4. replies' = replies \cup {q} /\ q.to = c.replyTo /\ q.kind = "Accepted"
  BY <1>3, <1>q DEF Accepted
<1>5. \A j \in Incarnations : \A d : InHand(j, d)' => InHand(j, d) /\ j # i
  BY <1>3 DEF InHand, TypeOK
<1>6. /\ \A d : Queued(d)' <=> Queued(d)
      /\ \A r : HasEffect(r)' <=> HasEffect(r)
  BY <1>3 DEF Queued, HasEffect
<1>7. QueuedOnce' /\ EffectsOnce' /\ EffectsAreAsked'
  BY <1>3 DEF QueuedOnce, EffectsOnce, OneEffectPerRequest, EffectsAreAsked
<1>8. TakenOnce'
  BY <1>3, <1>5, <1>6 DEF TakenOnce
<1>9. EffectsComeLater' /\ OnlyConfirmedHaveEffect'
  BY <1>3, <1>4, <1>6 DEF EffectsComeLater, OnlyConfirmedHaveEffect
<1>10. AnswersComeLast'
  BY <1>2, <1>3, <1>4, <1>5, <1>6 DEF AnswersComeLast
<1>11. OneAnswerPerRequest' /\ RejectedIsJustified'
  BY <1>2, <1>3, <1>4 DEF OneAnswerPerRequest, RejectedIsJustified
<1> QED BY <1>7, <1>8, <1>9, <1>10, <1>11

\* An insert that commits becomes a row of the journal: the same effect
\* (JournalCommit).
LEMMA TokensCommit ==
  ASSUME TypeOK, TypeOK', TokensInvariant, [Next]_vars, NEW w \in writes, JournalCommit(w)
  PROVE  TokensInvariant'
<1> USE DEF TokensInvariant
<1>1. w.movie \in Movies /\ w.event \in Event
  BY DEF TypeOK, Write
<1>2. /\ writes' = writes \ {w}
      /\ UNCHANGED <<phase, current, mailbox, asked, inFlight, replies>>
  BY DEF JournalCommit, entityVars
<1>3. /\ journal[w.movie] \in Seq(Event)
      /\ journal'[w.movie] = Append(journal[w.movie], w.event)
      /\ \A m \in Movies \ {w.movie} : journal'[m] = journal[m]
  BY <1>1 DEF JournalCommit, TypeOK
<1>4. ASSUME NEW m \in Movies, NEW k \in 1 .. Len(journal'[m])
      PROVE  \/ k \in 1 .. Len(journal[m]) /\ journal'[m][k] = journal[m][k]
             \/ m = w.movie /\ k = Len(journal[m]) + 1 /\ journal'[m][k] = w.event
  <2>1. CASE m # w.movie BY <1>3, <2>1
  <2>2. CASE m = w.movie BY <1>3, <2>2
  <2> QED BY <2>1, <2>2
<1>5. \A r : HasEffect(r)' => HasEffect(r)
  BY <1>2, <1>4 DEF HasEffect
<1>6. /\ \A d : Queued(d)' <=> Queued(d)
      /\ \A j \in Incarnations : \A d : InHand(j, d)' <=> InHand(j, d)
  BY <1>2 DEF Queued, InHand
<1>7. EffectsOnce'
  <2>1. OneEffectPerRequest'
    <3> SUFFICES ASSUME NEW m1 \in Movies, NEW m2 \in Movies,
                        NEW k1 \in 1 .. Len(journal'[m1]), NEW k2 \in 1 .. Len(journal'[m2]),
                        journal'[m1][k1].cause = journal'[m2][k2].cause
                 PROVE  m1 = m2 /\ k1 = k2
      BY DEF OneEffectPerRequest
    <3>1. \/ k1 \in 1 .. Len(journal[m1]) /\ journal'[m1][k1] = journal[m1][k1]
          \/ m1 = w.movie /\ k1 = Len(journal[m1]) + 1 /\ journal'[m1][k1] = w.event
      BY <1>4
    <3>2. \/ k2 \in 1 .. Len(journal[m2]) /\ journal'[m2][k2] = journal[m2][k2]
          \/ m2 = w.movie /\ k2 = Len(journal[m2]) + 1 /\ journal'[m2][k2] = w.event
      BY <1>4
    <3>3. \A m \in Movies : \A k \in 1 .. Len(journal[m]) : w.event.cause # journal[m][k].cause
      BY DEF EffectsOnce
    <3>4. CASE k1 \in 1 .. Len(journal[m1]) /\ journal'[m1][k1] = journal[m1][k1]
      <4>1. k2 \in 1 .. Len(journal[m2]) /\ journal'[m2][k2] = journal[m2][k2]
        BY <3>2, <3>3, <3>4
      <4>2. journal[m1][k1].cause = journal[m2][k2].cause BY <3>4, <4>1
      <4>3. OneEffectPerRequest BY DEF EffectsOnce
      <4> HIDE DEF TokensInvariant
      <4> QED BY <3>4, <4>1, <4>2, <4>3 DEF OneEffectPerRequest
    <3>5. CASE m1 = w.movie /\ k1 = Len(journal[m1]) + 1 /\ journal'[m1][k1] = w.event
      <4>1. ~(k2 \in 1 .. Len(journal[m2]) /\ journal'[m2][k2] = journal[m2][k2])
        BY <3>3, <3>5
      <4> QED BY <3>2, <3>5, <4>1
    <3> QED BY <3>1, <3>4, <3>5
  <2>2. \A u, v \in writes' : u.event.cause = v.event.cause => u = v
    BY <1>2 DEF EffectsOnce
  <2>3. ASSUME NEW v \in writes', NEW m \in Movies, NEW k \in 1 .. Len(journal'[m])
        PROVE  v.event.cause # journal'[m][k].cause
    BY <1>2, <1>4, <2>3 DEF EffectsOnce
  <2> QED BY <2>1, <2>2, <2>3 DEF EffectsOnce
<1>8. EffectsAreAsked'
  BY <1>2, <1>4 DEF EffectsAreAsked
<1>9. QueuedOnce' /\ TakenOnce' /\ AnswersComeLast'
  BY <1>2, <1>6 DEF QueuedOnce, TakenOnce, AnswersComeLast
<1>10. EffectsComeLater' /\ OnlyConfirmedHaveEffect'
  BY <1>2, <1>5, <1>6 DEF EffectsComeLater, OnlyConfirmedHaveEffect
<1>11. OneAnswerPerRequest'
  BY <1>2 DEF OneAnswerPerRequest
<1>12. RejectedIsJustified'
  <2> SUFFICES ASSUME NEW c \in asked, NEW p \in replies, p.to = c.replyTo,
                      p.kind = "Rejected"
               PROVE  /\ c.op = "Disable"
                      /\ \E k \in 1 .. Len(journal'[c.movie]) :
                            /\ journal'[c.movie][k].kind = "Disabled"
                            /\ journal'[c.movie][k].cause # c.replyTo
    BY <1>2 DEF RejectedIsJustified
  <2>1. c.movie \in Movies
    BY DEF TypeOK, Command
  <2>2. PICK k \in 1 .. Len(journal[c.movie]) : /\ journal[c.movie][k].kind = "Disabled"
                                                /\ journal[c.movie][k].cause # c.replyTo
    BY DEF RejectedIsJustified
  <2>3. k \in 1 .. Len(journal'[c.movie]) /\ journal'[c.movie][k] = journal[c.movie][k]
    <3>1. CASE c.movie = w.movie BY <1>3, <3>1
    <3>2. CASE c.movie # w.movie BY <1>3, <2>1, <3>2
    <3> QED BY <3>1, <3>2
  <2> QED BY <2>2, <2>3 DEF RejectedIsJustified
<1> QED BY <1>7, <1>8, <1>9, <1>10, <1>11, <1>12

-----------------------------------------------------------------------------
(* ReadsInvariant is inductive.                                            *)

\* Apart from a delivery and a hand-off, a step wakes nobody and moves no shard.
StaysQuiet == /\ home' = home
              /\ \A j \in Incarnations :
                    phase'[j] # "stopped" \/ mailbox'[j] # << >>
                       => phase[j] # "stopped" \/ mailbox[j] # << >>

LEMMA NobodyWakes ==
  ASSUME TypeOK,
         \/ UNCHANGED vars
         \/ \E c \in Command : Ask(c)
         \/ \E i \in Incarnations : Work(i) \/ Passivate(i)
         \/ DatabaseStep
         \/ Misfortune
  PROVE  StaysQuiet
<1> USE DEF StaysQuiet
<1>1. CASE \/ UNCHANGED vars
           \/ \E c \in Command : Ask(c)
           \/ \E c \in inFlight : Lose(c)
           \/ \E w \in writes : JournalCommit(w) \/ JournalReject(w) \/ JournalRollback(w)
  BY <1>1 DEF vars, Ask, Lose, JournalCommit, JournalReject, JournalRollback, entityVars
<1>2. ASSUME NEW i \in Incarnations,
             \/ Start(i) \/ Restart(i) \/ ReplayEvent(i) \/ RecoveryCompleted(i)
             \/ RecoveryFailed(i) \/ Persisted(i) \/ PersistRefused(i)
             \/ PersistTimedOut(i) \/ Passivate(i)
      PROVE  StaysQuiet
  BY <1>2 DEF Start, Restart, BeginReplay, ReplayEvent, RecoveryCompleted,
     RecoveryFailed, Persisted, PersistRefused, PersistTimedOut, BackOff, Passivate, TypeOK
<1>3. ASSUME NEW i \in Incarnations,
             \/ onRegister(i) \/ onDisable(i) \/ onDisableDisabled(i)
             \/ onGet(i) \/ onUnmatched(i)
      PROVE  StaysQuiet
  <2>1. /\ home' = home /\ phase[i] = "ready"
        /\ \A j \in Incarnations \ {i} : phase'[j] = phase[j] /\ mailbox'[j] = mailbox[j]
    BY <1>3 DEF onRegister, onDisable, onDisableDisabled, onGet, onUnmatched, Takes,
       Persist, ReplyWith, TypeOK
  <2> QED BY <2>1
<1>4. ASSUME NEW n \in Nodes, Crash(n) PROVE StaysQuiet
  <2>1. /\ home' = home
        /\ \A j \in Incarnations :
              /\ phase'[j] = IF j[1] = n THEN "stopped" ELSE phase[j]
              /\ mailbox'[j] = IF j[1] = n THEN << >> ELSE mailbox[j]
    BY <1>4 DEF Crash
  <2> QED BY <2>1
<1> QED
  BY <1>1, <1>2, <1>3, <1>4 DEF Work, DatabaseStep, Misfortune

LEMMA AwakeStep ==
  ASSUME TypeOK, AwakeAtHome, ~SplitBrain, [Next]_vars
  PROVE  AwakeAtHome'
<1>1. ASSUME NEW c \in inFlight, Deliver(c) PROVE AwakeAtHome'
  <2>1. /\ UNCHANGED <<phase, home>>
        /\ mailbox' = [mailbox EXCEPT ![<<home[c.movie], c.movie>>] = Append(@, c)]
    BY <1>1 DEF Deliver
  <2>2. ASSUME NEW j \in Incarnations, j # <<home[c.movie], c.movie>>
        PROVE  mailbox'[j] = mailbox[j]
    BY <2>1, <2>2 DEF TypeOK
  <2>3. ASSUME NEW j \in Incarnations, phase'[j] # "stopped" \/ mailbox'[j] # << >>
        PROVE  j[1] = home[j[2]]
    BY <2>1, <2>2, <2>3 DEF AwakeAtHome
  <2> QED BY <2>1, <2>3 DEF AwakeAtHome
<1>2. ASSUME NEW m \in Movies, NEW n \in Nodes, HandOff(m, n) PROVE AwakeAtHome'
  <2>1. /\ UNCHANGED <<phase, mailbox>>
        /\ phase[<<home[m], m>>] = "stopped" /\ mailbox[<<home[m], m>>] = << >>
        /\ \A x \in Movies \ {m} : home'[x] = home[x]
    BY <1>2 DEF HandOff, entityVars, TypeOK
  <2>2. ASSUME NEW j \in Incarnations, phase[j] # "stopped" \/ mailbox[j] # << >>
        PROVE  j[1] = home'[j[2]]
    <3>1. j[1] = home[j[2]] /\ j = <<j[1], j[2]>> /\ j[2] \in Movies
      BY <2>2 DEF AwakeAtHome, Incarnations
    <3>2. j[2] # m
      BY <2>1, <2>2, <3>1
    <3> QED BY <2>1, <3>1, <3>2
  <2> QED BY <2>1, <2>2 DEF AwakeAtHome
<1>3. StaysQuiet => AwakeAtHome'
  BY DEF StaysQuiet, AwakeAtHome
<1> QED BY <1>1, <1>2, <1>3, NobodyWakes DEF Next, Internal

\* What a confirmation told of is no further than the journal.
LEMMA ConfirmedIsWritten ==
  ASSUME JournalInvariant, RepliesInvariant, NEW i \in Incarnations,
         NEW q \in replies, q.kind = "Accepted", q.summary.id = i[2]
  PROVE  Rank(q.summary) <= Len(journal[i[2]])
<1>1. PICK c \in asked : q.to = c.replyTo
  BY DEF RepliesInvariant, RepliesAreToAsks
<1>2. PICK k \in 1 .. Len(journal[c.movie]) : q.summary = StateAt(c.movie, journal[c.movie], k)
  BY <1>1 DEF RepliesInvariant, AcceptedIsDurable
<1>3. c.movie \in Movies
  BY DEF JournalInvariant, TypeOK, Command
<1>4. Len(journal[c.movie]) \in Nat /\ Len(journal[c.movie]) <= 2
  BY <1>3, JournalLength DEF JournalInvariant
<1>5. q.summary.id = c.movie /\ q.summary.smStatus = IF k = 1 THEN "NEW" ELSE "DISABLED"
  BY <1>2, <1>4 DEF StateAt
<1>6. Rank(q.summary) <= k
  BY <1>4, <1>5 DEF Rank, isEmpty, isNew
<1> QED BY <1>4, <1>5, <1>6 DEF Rank

\* The progress of an incarnation that handles commands changes with a
\* confirmation only; it has come from a replay up to the end of the journal.
LEMMA ProgressSteps ==
  ASSUME TypeOK, [Next]_vars, NEW j \in Incarnations, ~ \E i \in Incarnations : Persisted(i)
  PROVE  /\ phase'[j] \in {"ready", "persisting"} =>
               \/ phase[j] \in {"ready", "persisting"} /\ seqNr'[j] = seqNr[j]
               \/ phase[j] = "recovering" /\ seqNr'[j] = target[j]
         /\ phase'[j] = "recovering" =>
               \/ phase[j] = "recovering" /\ target'[j] = target[j]
               \/ target'[j] = Len(journal[j[2]])
<1>1. CASE \/ UNCHANGED vars
           \/ \E c \in Command : Ask(c)
           \/ \E c \in inFlight : Lose(c) \/ Deliver(c)
           \/ \E m \in Movies, n \in Nodes : HandOff(m, n)
           \/ \E w \in writes : JournalCommit(w) \/ JournalReject(w) \/ JournalRollback(w)
  <2>1. UNCHANGED <<phase, seqNr, target>>
    BY <1>1 DEF vars, Ask, Lose, Deliver, HandOff, JournalCommit, JournalReject,
       JournalRollback, entityVars
  <2> QED BY <2>1
<1>2. ASSUME NEW i \in Incarnations,
             \/ onRegister(i) \/ onDisable(i) \/ onDisableDisabled(i) \/ onGet(i)
      PROVE  /\ UNCHANGED <<seqNr, target>> /\ phase[i] = "ready"
             /\ phase' = phase \/ phase' = [phase EXCEPT ![i] = "persisting"]
  BY <1>2 DEF onRegister, onDisable, onDisableDisabled, onGet, Takes, Persist, ReplyWith
<1>3. ASSUME NEW i \in Incarnations,
             \/ onUnmatched(i) \/ RecoveryFailed(i) \/ PersistRefused(i)
             \/ PersistTimedOut(i) \/ Passivate(i)
      PROVE  /\ phase'[j] = phase[j] /\ seqNr'[j] = seqNr[j] /\ target'[j] = target[j]
             \/ phase'[j] = "stopped" \/ phase'[j] = "backoff"
  BY <1>3 DEF onUnmatched, RecoveryFailed, PersistRefused, PersistTimedOut, Passivate,
     BackOff, Forget, TypeOK
<1>4. ASSUME NEW i \in Incarnations, Start(i) \/ Restart(i)
      PROVE  \/ phase'[j] = phase[j] /\ seqNr'[j] = seqNr[j] /\ target'[j] = target[j]
             \/ phase'[j] = "recovering" /\ target'[j] = Len(journal[j[2]])
  BY <1>4 DEF Start, Restart, BeginReplay, TypeOK
<1>5. ASSUME NEW i \in Incarnations, ReplayEvent(i) \/ RecoveryCompleted(i)
      PROVE  \/ phase'[j] = phase[j] /\ seqNr'[j] = seqNr[j] /\ target'[j] = target[j]
             \/ phase[j] = "recovering" /\ phase'[j] = "recovering" /\ target'[j] = target[j]
             \/ phase[j] = "recovering" /\ phase'[j] = "ready" /\ seqNr'[j] = target[j]
  BY <1>5 DEF ReplayEvent, RecoveryCompleted, TypeOK
<1>6. ASSUME NEW n \in Nodes, Crash(n)
      PROVE  \/ phase'[j] = phase[j] /\ seqNr'[j] = seqNr[j] /\ target'[j] = target[j]
             \/ phase'[j] = "stopped"
  <2>1. /\ phase'[j] = IF j[1] = n THEN "stopped" ELSE phase[j]
        /\ seqNr'[j] = IF j[1] = n THEN 0 ELSE seqNr[j]
        /\ target'[j] = IF j[1] = n THEN 0 ELSE target[j]
    BY <1>6 DEF Crash
  <2> QED BY <2>1
<1>7. CASE \E i \in Incarnations :
              \/ onRegister(i) \/ onDisable(i) \/ onDisableDisabled(i) \/ onGet(i)
  BY <1>7, <1>2 DEF TypeOK
<1>8. CASE \/ \E i \in Incarnations :
                 \/ onUnmatched(i) \/ RecoveryFailed(i) \/ PersistRefused(i)
                 \/ PersistTimedOut(i) \/ Passivate(i)
                 \/ Start(i) \/ Restart(i) \/ ReplayEvent(i) \/ RecoveryCompleted(i)
           \/ \E n \in Nodes : Crash(n)
  BY <1>8, <1>3, <1>4, <1>5, <1>6
<1> QED
  BY <1>1, <1>7, <1>8 DEF Next, Internal, Work, DatabaseStep, Misfortune

\* Only the incarnation that has its event acknowledged confirms.
LEMMA AcceptedByPersisted ==
  ASSUME [Next]_vars, ~ \E i \in Incarnations : Persisted(i),
         NEW q \in replies', q.kind = "Accepted"
  PROVE  q \in replies
<1>1. ASSUME NEW i \in Incarnations, onDisableDisabled(i) PROVE q \in replies
  BY <1>1 DEF onDisableDisabled, ReplyWith, Rejected
<1>2. ASSUME NEW i \in Incarnations, onGet(i) PROVE q \in replies
  BY <1>2 DEF onGet, ReplyWith, Summary
<1>3. \/ replies' = replies
      \/ \E i \in Incarnations : onDisableDisabled(i) \/ onGet(i)
  BY DEF Next, Internal, Work, DatabaseStep, Misfortune, vars, entityVars, Ask, Deliver,
     Lose, HandOff, Start, Restart, BeginReplay, ReplayEvent, RecoveryCompleted,
     RecoveryFailed, onRegister, onDisable, onUnmatched, Persist, JournalCommit,
     JournalReject, JournalRollback, PersistRefused, PersistTimedOut, BackOff,
     Passivate, Crash
<1> QED BY <1>1, <1>2, <1>3

LEMMA KnownStep ==
  ASSUME JournalInvariant, RepliesInvariant, AwakeAtHome, ConfirmedIsKnown, [Next]_vars
  PROVE  ConfirmedIsKnown'
<1> USE DEF JournalInvariant
<1>1. CASE \E i \in Incarnations : Persisted(i)
  <2>1. PICK i \in Incarnations : Persisted(i)
    BY <1>1
  <2>m. i[2] \in Movies /\ seqNr[i] \in Nat /\ Len(journal[i[2]]) \in Nat
    BY DEF Incarnations, TypeOK
  <2>2. /\ phase[i] = "persisting" /\ Written(i)
        /\ phase' = [phase EXCEPT ![i] = "ready"]
        /\ seqNr' = [seqNr EXCEPT ![i] = @ + 1]
        /\ target' = target
        /\ replies' = replies \cup {Accepted(current[i],
                                       eventHandler(i[2], state[i], EventOf(current[i])))}
    BY <2>1 DEF Persisted
  <2>3. eventHandler(i[2], state[i], EventOf(current[i]))
           = StateAt(i[2], journal[i[2]], seqNr[i] + 1)
    BY <2>m, <2>2, NextStateAt DEF Written, MemoryReflectsJournal
  <2>4. \A q \in replies' \ replies :
           q.summary = StateAt(i[2], journal[i[2]], seqNr[i] + 1)
    BY <2>2, <2>3 DEF Accepted
  <2>5. seqNr[i] \in 0 .. 2
    BY StatusTellsSeqNr
  <2>6. \A q \in replies' \ replies : q.summary.id = i[2] /\ Rank(q.summary) <= seqNr[i] + 1
    BY <2>4, <2>5 DEF StateAt, Rank, isEmpty, isNew
  <2> SUFFICES ASSUME NEW j \in Incarnations, NEW q \in replies',
                      q.kind = "Accepted", q.summary.id = j[2]
               PROVE  /\ phase'[j] \in {"ready", "persisting"} => Rank(q.summary) <= seqNr'[j]
                      /\ phase'[j] = "recovering" => Rank(q.summary) <= target'[j]
    BY DEF ConfirmedIsKnown
  <2>7. CASE j = i
    <3>1. phase'[i] = "ready" /\ seqNr'[i] = seqNr[i] + 1
      BY <2>2 DEF TypeOK
    <3>2. CASE q \in replies
      <4>1. Rank(q.summary) <= seqNr[i]
        BY <2>2, <2>7, <3>2 DEF ConfirmedIsKnown
      <4>2. Rank(q.summary) \in Nat
        BY DEF Rank
      <4> QED BY <2>m, <2>7, <3>1, <4>1, <4>2
    <3>3. CASE q \notin replies
      BY <2>6, <2>7, <3>1, <3>3
    <3> QED BY <3>2, <3>3
  <2>8. CASE j # i
    <3>1. phase'[j] = phase[j] /\ seqNr'[j] = seqNr[j] /\ target'[j] = target[j]
      BY <2>2, <2>8 DEF TypeOK
    <3>2. CASE q \in replies
      BY <3>1, <3>2 DEF ConfirmedIsKnown
    <3>3. CASE q \notin replies
      <4>1. j[2] = i[2]
        BY <2>6, <3>3
      <4>2. j[1] # i[1]
        BY <2>8, <4>1 DEF Incarnations
      <4>3. phase[j] = "stopped"
        BY <2>2, <4>1, <4>2 DEF AwakeAtHome
      <4> QED BY <3>1, <4>3
    <3> QED BY <3>2, <3>3
  <2> QED BY <2>7, <2>8
<1>2. CASE ~ \E i \in Incarnations : Persisted(i)
  <2> SUFFICES ASSUME NEW j \in Incarnations, NEW q \in replies',
                      q.kind = "Accepted", q.summary.id = j[2]
               PROVE  /\ phase'[j] \in {"ready", "persisting"} => Rank(q.summary) <= seqNr'[j]
                      /\ phase'[j] = "recovering" => Rank(q.summary) <= target'[j]
    BY DEF ConfirmedIsKnown
  <2>1. q \in replies
    BY <1>2, AcceptedByPersisted DEF RepliesInvariant
  <2>2. Rank(q.summary) <= Len(journal[j[2]])
    BY <2>1, ConfirmedIsWritten
  <2> QED BY <1>2, <2>1, <2>2, ProgressSteps DEF ConfirmedIsKnown
<1> QED BY <1>1, <1>2

LEMMA ReadsInit == Init => ReadsInvariant
  BY DEF Init, ReadsInvariant, AwakeAtHome, ConfirmedIsKnown

LEMMA ReadsStep ==
  ASSUME JournalInvariant, RepliesInvariant, ReadsInvariant, [Next]_vars
  PROVE  ReadsInvariant'
<1> SUFFICES ASSUME ~SplitBrain PROVE AwakeAtHome' /\ ConfirmedIsKnown'
  BY DEF ReadsInvariant
<1> QED BY AwakeStep, KnownStep DEF ReadsInvariant, JournalInvariant

-----------------------------------------------------------------------------
(* The theorems.                                                           *)

LEMMA TokensInit == Init => TokensInvariant
<1> SUFFICES ASSUME Init PROVE TokensInvariant
  OBVIOUS
<1>1. /\ writes = {} /\ asked = {} /\ inFlight = {} /\ replies = {}
      /\ \A m \in Movies : journal[m] = << >>
      /\ \A i \in Incarnations : mailbox[i] = << >>
  BY DEF Init
<1>2. /\ \A m \in Movies : 1 .. Len(journal[m]) = {}
      /\ \A i \in Incarnations : 1 .. Len(mailbox[i]) = {}
  BY <1>1
<1> QED
  BY <1>1, <1>2 DEF TokensInvariant, QueuedOnce, TakenOnce, EffectsOnce,
     OneEffectPerRequest, EffectsAreAsked, EffectsComeLater, AnswersComeLast,
     OnlyConfirmedHaveEffect, OneAnswerPerRequest, RejectedIsJustified

LEMMA TokensStep ==
  ASSUME JournalInvariant, RepliesInvariant, TokensInvariant, [Next]_vars
  PROVE  TokensInvariant'
<1>1. TypeOK BY DEF JournalInvariant
<1>2. TypeOK' BY TypeNext DEF JournalInvariant
<1> QED
  BY <1>1, <1>2, StepShapes, TokensAsk, TokensDeliver, TokensPersist, TokensAnswer,
     TokensConfirm, TokensCommit, TokensLoses

LEMMA InvariantInit == Init => InductiveInvariant
  BY JournalInit, RepliesInit, TokensInit, ReadsInit DEF InductiveInvariant

LEMMA InvariantStep == InductiveInvariant /\ [Next]_vars => InductiveInvariant'
  BY JournalStep, RepliesStep, TokensStep, ReadsStep DEF InductiveInvariant

\* Every reachable state satisfies all that the runs check of the aggregate,
\* and what it rests on.
THEOREM InductiveInvariantHolds == Spec => []InductiveInvariant
  BY InvariantInit, InvariantStep, PTL DEF Spec

\* No request takes effect twice, though its insert may outlive the incarnation
\* that sent it (onRegister, onDisable).
THEOREM RequestsTakeEffectOnce == Spec => []OneEffectPerRequest
<1>1. InductiveInvariant => OneEffectPerRequest
  BY DEF InductiveInvariant, TokensInvariant, EffectsOnce
<1> QED BY <1>1, InductiveInvariantHolds, PTL

\* No request is answered twice, though a command is forgotten when its persist
\* fails and stashed ones are kept (commandHandler).
THEOREM RequestsAreAnsweredOnce == Spec => []OneAnswerPerRequest
<1>1. InductiveInvariant => OneAnswerPerRequest
  BY DEF InductiveInvariant, TokensInvariant
<1> QED BY <1>1, InductiveInvariantHolds, PTL

\* A request is rejected only when another one has disabled the movie
\* (onDisableDisabled).
THEOREM RejectionsAreJustified == Spec => []RejectedIsJustified
<1>1. InductiveInvariant => RejectedIsJustified
  BY DEF InductiveInvariant, TokensInvariant
<1> QED BY <1>1, InductiveInvariantHolds, PTL

\* Only a Get is answered with a summary.
LEMMA SummaryByGet ==
  ASSUME [Next]_vars, NEW p \in replies' \ replies, p.kind = "Summary"
  PROVE  \E i \in Incarnations : onGet(i)
<1>1. ASSUME NEW i \in Incarnations, onDisableDisabled(i) PROVE FALSE
  BY <1>1 DEF onDisableDisabled, ReplyWith, Rejected
<1>2. ASSUME NEW i \in Incarnations, Persisted(i) PROVE FALSE
  BY <1>2 DEF Persisted, Accepted
<1>3. \/ replies' = replies
      \/ \E i \in Incarnations : onDisableDisabled(i) \/ onGet(i) \/ Persisted(i)
  BY DEF Next, Internal, Work, DatabaseStep, Misfortune, vars, entityVars, Ask, Deliver,
     Lose, HandOff, Start, Restart, BeginReplay, ReplayEvent, RecoveryCompleted,
     RecoveryFailed, onRegister, onDisable, onUnmatched, Persist, JournalCommit,
     JournalReject, JournalRollback, PersistRefused, PersistTimedOut, BackOff,
     Passivate, Crash
<1> QED BY <1>1, <1>2, <1>3

\* A summary is the state of an incarnation that knows all that is confirmed.
LEMMA SummaryIsCurrent ==
  ASSUME InductiveInvariant, [Next]_vars, ~SplitBrain,
         NEW c \in asked, NEW p \in replies' \ replies, NEW q \in replies,
         p.to = c.replyTo, p.kind = "Summary",
         q.kind = "Accepted", q.summary.id = c.movie
  PROVE  Rank(q.summary) <= Rank(p.summary)
<1> USE DEF InductiveInvariant
<1>1. PICK i \in Incarnations : onGet(i)
  BY SummaryByGet
<1>2. /\ phase[i] = "ready" /\ mailbox[i] # << >>
      /\ replies' = replies \cup {Summary(Head(mailbox[i]), state[i])}
  BY <1>1 DEF onGet, Takes, ReplyWith
<1>3. p.to = Head(mailbox[i]).replyTo /\ p.summary = state[i]
  BY <1>2 DEF Summary
<1>4. Head(mailbox[i]) \in asked /\ Head(mailbox[i]).movie = i[2]
  BY <1>2, TailIsRouted DEF JournalInvariant, RepliesInvariant
<1>5. c = Head(mailbox[i])
  BY <1>3, <1>4 DEF RepliesInvariant, AsksDiffer
<1>6. Rank(q.summary) <= seqNr[i]
  BY <1>2, <1>4, <1>5 DEF ReadsInvariant, ConfirmedIsKnown
<1>7. Rank(state[i]) = seqNr[i]
  BY StatusTellsSeqNr DEF Rank
<1> QED BY <1>3, <1>6, <1>7

\* While sharding keeps one incarnation of a movie at a time, a Get answers with
\* a state no older than any confirmed before (onGet).
THEOREM ReadsAreCurrent == Spec => ReadsSeeConfirmations
<1>1. InductiveInvariant /\ [Next]_vars =>
         [~SplitBrain =>
            \A c \in asked, p \in replies' \ replies, q \in replies :
               /\ p.to = c.replyTo /\ p.kind = "Summary"
               /\ q.kind = "Accepted" /\ q.summary.id = c.movie
               => Rank(q.summary) <= Rank(p.summary)]_vars
  BY SummaryIsCurrent
<1> QED BY <1>1, InductiveInvariantHolds, PTL DEF Spec, ReadsSeeConfirmations
=============================================================================
