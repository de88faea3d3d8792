-------------------------- MODULE R2dbcHandleProofs --------------------------
(***************************************************************************)
(* Theorems about R2dbcHandle, for any number of uses, connections and     *)
(* faults: a transaction is all or nothing, a connection is closed when    *)
(* its use is over, and decided is what it was used for before that.       *)
(***************************************************************************)
EXTENDS R2dbcHandle, TLAPS

\* What AllOrNothing and ConnectionsReturn say of one use.
UseIsSound(u) ==
    /\ kind[u] = "inTransaction" =>
          /\ outcome[u] = "completed" => txn[u] = "committed"
          /\ first[u] \in {"open", "apply", "begin", "body"} => txn[u] # "committed"
    /\ stage[u] = "finished" /\ conn[u] = "open" =>
          \/ error[u] = "close"
          \/ kind[u] # "usingWhen" /\ outcome[u] \in {"apply", "cancelled"}

\* What can happen to the use u.
UseStep(u) == Subscribe(u) \/ Step(u) \/ Failure(u) \/ Cancel(u)

LEMMA UsesAreSound ==
  HandleInvariant <=> TypeOK /\ \A u \in Uses : StageInvariant(u) /\ UseIsSound(u)
  BY DEF HandleInvariant, AllOrNothing, ConnectionsReturn, UseIsSound

\* A step of one use leaves the others alone.
LEMMA OthersKeepStill ==
  ASSUME TypeOK, NEW u \in Uses, UseStep(u), NEW v \in Uses, v # u
  PROVE  /\ kind'[v] = kind[v] /\ stage'[v] = stage[v]
         /\ conn'[v] = conn[v] /\ txn'[v] = txn[v]
         /\ error'[v] = error[v] /\ first'[v] = first[v]
         /\ outcome'[v] = outcome[v]
<1> USE DEF To, Finish, Raise, Disconnect
<1>1. CASE Subscribe(u) BY <1>1 DEF Subscribe, TypeOK
<1>2. CASE Step(u)
  <2>1. CASE open(u) \/ beginTransaction(u) \/ bodyCompletes(u) \/ commitTransaction(u)
    BY <2>1 DEF open, beginTransaction, bodyCompletes, commitTransaction, TypeOK
  <2>2. CASE rollbackTransaction(u) \/ close(u) \/ appendError(u)
    BY <2>2 DEF rollbackTransaction, close, appendError, TypeOK
  <2> QED BY <1>2, <2>1, <2>2 DEF Step
<1>3. CASE Failure(u)
  <2>1. CASE openFails(u) \/ applyThrows(u) \/ beginFails(u) \/ bodyFails(u)
    BY <2>1 DEF openFails, applyThrows, beginFails, bodyFails, TypeOK
  <2>2. CASE commitFails(u) \/ rollbackFails(u)
    BY <2>2 DEF commitFails, rollbackFails, TypeOK
  <2>3. CASE closeFails(u) BY <2>3 DEF closeFails, TypeOK
  <2>4. CASE appendErrorFails(u) BY <2>4 DEF appendErrorFails, TypeOK
  <2> QED BY <1>3, <2>1, <2>2, <2>3, <2>4 DEF Failure
<1>4. CASE Cancel(u) BY <1>4 DEF Cancel, TypeOK
<1> QED BY <1>1, <1>2, <1>3, <1>4 DEF UseStep

\* The invariant of all uses follows from that of the one that moved.
LEMMA OneUseSuffices ==
  ASSUME HandleInvariant, NEW u \in Uses, UseStep(u),
         TypeOK', StageInvariant(u)', UseIsSound(u)'
  PROVE  HandleInvariant'
<1>1. ASSUME NEW v \in Uses PROVE StageInvariant(v)' /\ UseIsSound(v)'
  <2>1. CASE v = u BY <2>1
  <2>2. CASE v # u
    <3>1. TypeOK /\ StageInvariant(v) /\ UseIsSound(v) BY UsesAreSound
    <3>2. /\ kind'[v] = kind[v] /\ stage'[v] = stage[v]
          /\ conn'[v] = conn[v] /\ txn'[v] = txn[v]
          /\ error'[v] = error[v] /\ first'[v] = first[v]
          /\ outcome'[v] = outcome[v]
      BY <2>2, <3>1, OthersKeepStill
    <3> QED BY <3>1, <3>2 DEF StageInvariant, UseIsSound
  <2> QED BY <2>1, <2>2
<1>2. (TypeOK /\ \A v \in Uses : StageInvariant(v) /\ UseIsSound(v))'
  BY <1>1
<1> QED BY <1>2 DEF HandleInvariant, AllOrNothing, ConnectionsReturn, UseIsSound

-----------------------------------------------------------------------------
(* The steps of one use.                                                   *)

LEMMA HandleInit == Init => HandleInvariant
  BY BoundsAssumption DEF Init, HandleInvariant, TypeOK, StageInvariant, AllOrNothing,
     ConnectionsReturn, Kinds, Stages, Errors

\* A fault is counted within its bound.
LEMMA FaultIsCounted == faults \in 0 .. MaxFaults /\ Fault => faults' \in 0 .. MaxFaults
  BY BoundsAssumption DEF Fault

\* Every step of a use keeps the types, and leads it to a publisher of its
\* chain with what that relies on.
LEMMA HandleUse ==
  ASSUME HandleInvariant, NEW u \in Uses, UseStep(u)
  PROVE  HandleInvariant'
<1> USE DEF To, Finish, Raise, Disconnect, Kinds, Stages, Errors
<1>1. TypeOK /\ StageInvariant(u) /\ UseIsSound(u)
  BY UsesAreSound
<1>2. ASSUME Subscribe(u) PROVE TypeOK' /\ StageInvariant(u)' /\ UseIsSound(u)'
  BY <1>1, <1>2 DEF Subscribe, TypeOK, StageInvariant, UseIsSound
<1>3. ASSUME open(u) PROVE TypeOK' /\ StageInvariant(u)' /\ UseIsSound(u)'
  BY <1>1, <1>3 DEF open, TypeOK, StageInvariant, UseIsSound
<1>4. ASSUME openFails(u) PROVE TypeOK' /\ StageInvariant(u)' /\ UseIsSound(u)'
  <2>1. faults' \in 0 .. MaxFaults BY <1>1, <1>4, FaultIsCounted DEF openFails, TypeOK
  <2> QED BY <1>1, <1>4, <2>1 DEF openFails, TypeOK, StageInvariant, UseIsSound
<1>5. ASSUME applyThrows(u) PROVE TypeOK' /\ StageInvariant(u)' /\ UseIsSound(u)'
  <2>1. faults' \in 0 .. MaxFaults BY <1>1, <1>5, FaultIsCounted DEF applyThrows, TypeOK
  <2> QED BY <1>1, <1>5, <2>1 DEF applyThrows, TypeOK, StageInvariant, UseIsSound
<1>6. ASSUME beginTransaction(u) PROVE TypeOK' /\ StageInvariant(u)' /\ UseIsSound(u)'
  BY <1>1, <1>6 DEF beginTransaction, TypeOK, StageInvariant, UseIsSound
<1>7. ASSUME beginFails(u) PROVE TypeOK' /\ StageInvariant(u)' /\ UseIsSound(u)'
  <2>1. faults' \in 0 .. MaxFaults BY <1>1, <1>7, FaultIsCounted DEF beginFails, TypeOK
  <2> QED BY <1>1, <1>7, <2>1 DEF beginFails, TypeOK, StageInvariant, UseIsSound
<1>8. ASSUME bodyCompletes(u) PROVE TypeOK' /\ StageInvariant(u)' /\ UseIsSound(u)'
  BY <1>1, <1>8 DEF bodyCompletes, TypeOK, StageInvariant, UseIsSound
<1>9. ASSUME bodyFails(u) PROVE TypeOK' /\ StageInvariant(u)' /\ UseIsSound(u)'
  <2>1. faults' \in 0 .. MaxFaults BY <1>1, <1>9, FaultIsCounted DEF bodyFails, TypeOK
  <2> QED BY <1>1, <1>9, <2>1 DEF bodyFails, TypeOK, StageInvariant, UseIsSound
<1>10. ASSUME commitTransaction(u) PROVE TypeOK' /\ StageInvariant(u)' /\ UseIsSound(u)'
  BY <1>1, <1>10 DEF commitTransaction, TypeOK, StageInvariant, UseIsSound
<1>11. ASSUME commitFails(u) PROVE TypeOK' /\ StageInvariant(u)' /\ UseIsSound(u)'
  <2>1. faults' \in 0 .. MaxFaults BY <1>1, <1>11, FaultIsCounted DEF commitFails, TypeOK
  <2> QED BY <1>1, <1>11, <2>1 DEF commitFails, TypeOK, StageInvariant, UseIsSound
<1>12. ASSUME rollbackTransaction(u) PROVE TypeOK' /\ StageInvariant(u)' /\ UseIsSound(u)'
  BY <1>1, <1>12 DEF rollbackTransaction, TypeOK, StageInvariant, UseIsSound
<1>13. ASSUME rollbackFails(u) PROVE TypeOK' /\ StageInvariant(u)' /\ UseIsSound(u)'
  <2>1. faults' \in 0 .. MaxFaults BY <1>1, <1>13, FaultIsCounted DEF rollbackFails, TypeOK
  <2> QED BY <1>1, <1>13, <2>1 DEF rollbackFails, TypeOK, StageInvariant, UseIsSound
<1>14. ASSUME close(u) PROVE TypeOK' /\ StageInvariant(u)' /\ UseIsSound(u)'
  BY <1>1, <1>14 DEF close, TypeOK, StageInvariant, UseIsSound
<1>15. ASSUME closeFails(u) PROVE TypeOK' /\ StageInvariant(u)' /\ UseIsSound(u)'
  <2>1. faults' \in 0 .. MaxFaults BY <1>1, <1>15, FaultIsCounted DEF closeFails, TypeOK
  <2> QED BY <1>1, <1>15, <2>1 DEF closeFails, TypeOK, StageInvariant, UseIsSound
<1>16. ASSUME appendError(u) PROVE TypeOK' /\ StageInvariant(u)' /\ UseIsSound(u)'
  BY <1>1, <1>16 DEF appendError, TypeOK, StageInvariant, UseIsSound
<1>17. ASSUME appendErrorFails(u) PROVE TypeOK' /\ StageInvariant(u)' /\ UseIsSound(u)'
  <2>1. faults' \in 0 .. MaxFaults BY <1>1, <1>17, FaultIsCounted DEF appendErrorFails, TypeOK
  <2> QED BY <1>1, <1>17, <2>1 DEF appendErrorFails, TypeOK, StageInvariant, UseIsSound
<1>18. ASSUME Cancel(u) PROVE TypeOK' /\ StageInvariant(u)' /\ UseIsSound(u)'
  <2>1. faults' \in 0 .. MaxFaults BY <1>1, <1>18, FaultIsCounted DEF Cancel, TypeOK
  <2> QED BY <1>1, <1>18, <2>1 DEF Cancel, TypeOK, StageInvariant, UseIsSound
<1>19. TypeOK' /\ StageInvariant(u)' /\ UseIsSound(u)'
  BY <1>2, <1>3, <1>4, <1>5, <1>6, <1>7, <1>8, <1>9, <1>10, <1>11, <1>12, <1>13, <1>14,
     <1>15, <1>16, <1>17, <1>18 DEF UseStep, Step, Failure
<1> QED BY <1>19, OneUseSuffices

LEMMA HandleStep == HandleInvariant /\ [Next]_vars => HandleInvariant'
<1> SUFFICES ASSUME HandleInvariant, [Next]_vars PROVE HandleInvariant'
  OBVIOUS
<1>1. CASE UNCHANGED vars
  BY <1>1 DEF vars, HandleInvariant, TypeOK, StageInvariant, AllOrNothing, ConnectionsReturn
<1>2. CASE Next
  BY <1>2, HandleUse DEF Next, UseStep
<1> QED BY <1>1, <1>2

-----------------------------------------------------------------------------
(* The theorems.                                                           *)

\* The invariant of the chains holds in every reachable state.
THEOREM HandleInvariantHolds == Spec => []HandleInvariant
  BY HandleInit, HandleStep, PTL DEF Spec

\* A transaction is committed if its function completes, and never after a
\* failure before the commit (Handle.inTransaction).
THEOREM TransactionsAreAllOrNothing == Spec => []AllOrNothing
<1>1. HandleInvariant => AllOrNothing
  BY DEF HandleInvariant
<1> QED BY <1>1, HandleInvariantHolds, PTL

\* No connection is left open when its use is over, with the exceptions the
\* property names (R2dbc.withHandle, Mono.usingWhen).
THEOREM ConnectionsAreReturned == Spec => []ConnectionsReturn
<1>1. HandleInvariant => ConnectionsReturn
  BY DEF HandleInvariant
<1> QED BY <1>1, HandleInvariantHolds, PTL

\* A connection is closed over an open transaction only if its rollback has
\* failed (Handle.inTransaction inside R2dbc.withHandle).
THEOREM DecisionsPrecedeClosing == Spec => DecidedBeforeClosed
<1>1. ASSUME HandleInvariant, [Next]_vars
      PROVE  [\A u \in Uses : conn[u] = "open" /\ conn'[u] = "closed" =>
                 txn[u] # "active" \/ error[u] = "rollback"]_vars
  <2> SUFFICES ASSUME Next, NEW v \in Uses, conn[v] = "open", conn'[v] = "closed"
               PROVE  txn[v] # "active" \/ error[v] = "rollback"
    BY <1>1
  <2>1. PICK u \in Uses : UseStep(u)
    BY DEF Next, UseStep
  <2>2. TypeOK /\ StageInvariant(u)
    BY <1>1 DEF HandleInvariant
  <2>3. v = u
    BY <2>1, <2>2, OthersKeepStill
  <2>4. stage[u] \in {"close", "cleanup"}
    <3> USE DEF To, Finish, Raise, Disconnect
    <3>1. conn[u] = "open" /\ conn'[u] = "closed" /\ conn'[u] # conn[u]
      BY <2>3
    <3>2. CASE Subscribe(u) \/ Step(u)
      BY <2>2, <3>1, <3>2 DEF Step, Subscribe, open, beginTransaction, bodyCompletes,
         commitTransaction, rollbackTransaction, close, appendError, TypeOK
    <3>3. CASE Failure(u)
      BY <2>2, <3>1, <3>3 DEF Failure, openFails, applyThrows, beginFails, bodyFails,
         commitFails, rollbackFails, closeFails, appendErrorFails, TypeOK
    <3>4. CASE Cancel(u)
      BY <2>2, <3>1, <3>4 DEF Cancel, TypeOK
    <3> QED BY <2>1, <3>2, <3>3, <3>4 DEF UseStep
  <2> QED BY <2>2, <2>3, <2>4 DEF StageInvariant
<1> QED BY <1>1, HandleInvariantHolds, PTL DEF DecidedBeforeClosed, Spec
=============================================================================
