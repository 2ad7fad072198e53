---------------------- MODULE CompletionDelivery_proofs ----------------------
(***************************************************************************)
(* Safety of CompletionDelivery for any number of sessions, handlers and   *)
(* relays and any bounds.  The inductive invariant adds to the properties  *)
(* what ties them together: where a handler can be with which transaction, *)
(* and that a row some relay holds is pending and held by it alone.        *)
(***************************************************************************)
EXTENDS CompletionDelivery, TLAPS

(* A handler holds a session exactly while it is at work, statements only  *)
(* in an open transaction, and publishes only what is committed.           *)
HandlerInv ==
    \A h \in Handlers :
        /\ hpc[h] # "idle" => hjob[h] \in Sessions
        /\ htx[h] # {} => hpc[h] = "open"
        /\ hpc[h] \in {"publish", "republish"} => backup[hjob[h]] # "none"

(* A committed completion has its outbox row, and only committed sessions  *)
(* were ever published.                                                    *)
CompletionInv ==
    \A s \in Sessions :
        /\ backup[s] # "none" <=> outbox[s] # "none"
        /\ status[s] = "completed" => backup[s] # "none"
        /\ s \in accepted => backup[s] # "none"

(* The row's status tells its attempts and whether the broker has it.      *)
RowInv ==
    \A s \in Sessions :
        /\ outbox[s] \in {"none", "pending"} => attempts[s] < RelayMaxAttempts
        /\ outbox[s] = "failed" => attempts[s] = RelayMaxAttempts
        /\ outbox[s] = "published" => s \in accepted

(* Row locks.                                                              *)
ClaimInv ==
    \A r \in Relays : \A s \in Sessions :
        /\ claim[r][s] # "free" => outbox[s] = "pending"
        /\ claim[r][s] = "published" => s \in accepted
        /\ \A q \in Relays : claim[r][s] # "free" /\ claim[q][s] # "free" => q = r

DeliveryInv == HandlerInv /\ CompletionInv /\ RowInv /\ ClaimInv

QueueInv == \A s \in Sessions : queue[s] > 0 => s \in accepted

CDInv == CDTypeOK /\ DeliveryInv /\ QueueInv

-----------------------------------------------------------------------------
LEMMA InitType == CDInit => CDTypeOK
  BY TablesAssumption, DeliveryAssumption DEF CDInit, CDTypeOK, TablesInit, TablesTypeOK, Messages, Transcripts,
         DeliveryInit, DeliveryTypeOK, Unclaimed

LEMMA InitInv == CDInit => DeliveryInv /\ QueueInv
  BY DeliveryAssumption DEF CDInit, TablesInit, DeliveryInit, Unclaimed, Messages, DeliveryInv,
         HandlerInv, CompletionInv, RowInv, ClaimInv, QueueInv

(* No step of the gateway or the relay leaves the types.                   *)
LEMMA DeliveryKeepsType ==
  ASSUME CDTypeOK, DeliveryInv, DeliveryNext
  PROVE  CDTypeOK'
  <1> USE TablesAssumption, DeliveryAssumption DEF CDTypeOK, TablesTypeOK, DeliveryTypeOK
  <1>1. ASSUME NEW s \in Sessions, Start(s) PROVE CDTypeOK'
    BY <1>1 DEF Start, tables
  <1>2. ASSUME NEW h \in Handlers, BeginPersist(h) PROVE CDTypeOK'
    BY <1>2 DEF BeginPersist, Fault
  <1>3. ASSUME NEW h \in Handlers, ExecUpdate(h) PROVE CDTypeOK'
    BY <1>3 DEF ExecUpdate, tables
  <1>4. ASSUME NEW h \in Handlers, ExecEnqueue(h) PROVE CDTypeOK'
    BY <1>4 DEF ExecEnqueue, tables
  <1>5. ASSUME NEW h \in Handlers, Commit(h) PROVE CDTypeOK'
    <2>1. PICK b \in Spoken : CommitRows(h, b)
      BY <1>5 DEF Commit
    <2>2. /\ status' \in [Sessions -> {"streaming", "completed"}]
          /\ backup' \in [Sessions -> Transcripts \union {"none"}]
          /\ outbox' \in [Sessions -> {"none", "pending", "published", "failed"}]
      BY <2>1 DEF CommitRows
    <2> QED BY <1>5, <2>2 DEF Commit
  <1>6. ASSUME NEW h \in Handlers, CommitReplyLost(h) PROVE CDTypeOK'
    <2>1. PICK b \in Spoken : CommitRows(h, b)
      BY <1>6 DEF CommitReplyLost
    <2>2. /\ status' \in [Sessions -> {"streaming", "completed"}]
          /\ backup' \in [Sessions -> Transcripts \union {"none"}]
          /\ outbox' \in [Sessions -> {"none", "pending", "published", "failed"}]
      BY <2>1 DEF CommitRows
    <2> QED BY <1>6, <2>2 DEF CommitReplyLost, HandlerDone, PersistFault, Fault
  <1>7. ASSUME NEW h \in Handlers, PersistFails(h) PROVE CDTypeOK'
    BY <1>7 DEF PersistFails, HandlerDone, PersistFault, Fault
  <1>8. ASSUME NEW h \in Handlers, PublishConfirmed(h) PROVE CDTypeOK'
    BY <1>8 DEF PublishConfirmed, HandlerDone, Enqueue, DeliveryInv, HandlerInv, Messages
  <1>9. ASSUME NEW h \in Handlers, PublishRaises(h) PROVE CDTypeOK'
    BY <1>9 DEF PublishRaises, MaybeEnqueue, Enqueue, PersistFault, Fault, DeliveryInv, HandlerInv, Messages
  <1>10. ASSUME NEW h \in Handlers, PublishGivesUp(h) PROVE CDTypeOK'
    BY <1>10 DEF PublishGivesUp, HandlerDone, MaybeEnqueue, Enqueue, PersistFault, Fault,
                 DeliveryInv, HandlerInv, Messages
  <1>11. ASSUME GatewayCrash PROVE CDTypeOK'
    BY <1>11 DEF GatewayCrash, Fault
  <1>12. ASSUME NEW r \in Relays, Claim(r) PROVE CDTypeOK'
    BY <1>12 DEF Claim, tables
  <1>13. ASSUME NEW r \in Relays, NEW s \in Sessions, RelayPublishConfirmed(r, s)
         PROVE  CDTypeOK'
    BY <1>13 DEF RelayPublishConfirmed, Enqueue, Messages
  <1>14. ASSUME NEW r \in Relays, NEW s \in Sessions, RelayPublishFails(r, s)
         PROVE  CDTypeOK'
    BY <1>14 DEF RelayPublishFails, MaybeEnqueue, Enqueue, Fault, Messages
  <1>15. ASSUME NEW r \in Relays, RelayCommit(r) PROVE CDTypeOK'
    <2>1. TablesTypeOK'
      BY <1>15 DEF RelayCommit, tables
    <2>2. attempts' \in [Sessions -> 0 .. RelayMaxAttempts]
      <3>1. \A s \in Sessions : claim[r][s] = "retry" => attempts[s] < RelayMaxAttempts
        BY DEF DeliveryInv, ClaimInv, RowInv
      <3>2. ASSUME NEW s \in Sessions
            PROVE  (IF claim[r][s] = "retry" THEN attempts[s] + 1 ELSE attempts[s])
                        \in 0 .. RelayMaxAttempts
        <4>1. attempts[s] \in 0 .. RelayMaxAttempts
          OBVIOUS
        <4> QED BY <3>1, <4>1
      <3> QED BY <1>15, <3>2 DEF RelayCommit
    <2>3. outbox' \in [Sessions -> {"none", "pending", "published", "failed"}]
      BY <1>15 DEF RelayCommit
    <2>4. claim' \in [Relays -> [Sessions -> {"free", "claimed", "published", "retry"}]]
      BY <1>15 DEF RelayCommit, Unclaimed
    <2> QED BY <1>15, <2>1, <2>2, <2>3, <2>4 DEF RelayCommit
  <1>16. ASSUME NEW r \in Relays, RelayAbort(r) PROVE CDTypeOK'
    BY <1>16 DEF RelayAbort, Fault, Unclaimed
  <1>17. ASSUME NEW s \in Sessions, Restart(s) PROVE CDTypeOK'
    BY <1>17 DEF Restart, Fault
  <1>18. ASSUME NEW s \in Sessions, Reopen(s) PROVE CDTypeOK'
    BY <1>18 DEF Reopen, Fault, delivery
  <1>19. ASSUME StopResets PROVE CDTypeOK'
    BY <1>19 DEF StopResets, tables
  <1> QED
    BY <1>1, <1>2, <1>3, <1>4, <1>5, <1>6, <1>7, <1>8, <1>9, <1>10, <1>11, <1>12,
       <1>13, <1>14, <1>15, <1>16, <1>17, <1>18, <1>19
    DEF DeliveryNext, HandlerStep, HandlerFault, RelayStep, RelayFault

(* No step of the gateway or the relay breaks the invariant.               *)
LEMMA DeliveryKeepsInv ==
  ASSUME CDTypeOK, DeliveryInv, QueueInv, DeliveryNext
  PROVE  DeliveryInv' /\ QueueInv'
  <1> DEFINE Inv == DeliveryInv /\ QueueInv
  <1> USE TablesAssumption, DeliveryAssumption
          DEF CDTypeOK, TablesTypeOK, DeliveryTypeOK, Messages, DeliveryInv,
              HandlerInv, CompletionInv, RowInv, ClaimInv, QueueInv
  <1>1. ASSUME NEW s \in Sessions, Start(s) PROVE Inv'
    BY <1>1 DEF Start, tables
  <1>2. ASSUME NEW h \in Handlers, BeginPersist(h) PROVE Inv'
    BY <1>2 DEF BeginPersist
  <1>3. ASSUME NEW h \in Handlers, ExecUpdate(h) PROVE Inv'
    BY <1>3 DEF ExecUpdate, tables
  <1>4. ASSUME NEW h \in Handlers, ExecEnqueue(h) PROVE Inv'
    <2>1. htx[h] # {}
      BY <1>4 DEF ExecEnqueue
    <2>2. ASSUME NEW g \in Handlers, htx'[g] # {} PROVE htx[g] # {}
      <3>1. CASE g = h
        BY <2>1, <3>1
      <3>2. CASE g # h
        <4>1. htx'[g] = htx[g]
          BY <1>4, <3>2 DEF ExecEnqueue
        <4> QED BY <2>2, <4>1
      <3> QED BY <3>1, <3>2
    <2>3. UNCHANGED <<tables, active, hpc, hjob, outbox, attempts, claim>>
      BY <1>4 DEF ExecEnqueue
    <2> QED BY <2>2, <2>3 DEF tables
  <1>5. ASSUME NEW h \in Handlers, Commit(h) PROVE Inv'
    BY <1>5 DEF Commit, ReadyToCommit, CommitRows, Transcripts
  <1>6. ASSUME NEW h \in Handlers, CommitReplyLost(h) PROVE Inv'
    BY <1>6 DEF CommitReplyLost, ReadyToCommit, CommitRows, HandlerDone, Transcripts
  <1>7. ASSUME NEW h \in Handlers, PersistFails(h) PROVE Inv'
    BY <1>7 DEF PersistFails, HandlerDone
  <1>8. ASSUME NEW h \in Handlers, PublishConfirmed(h) PROVE Inv'
    BY <1>8 DEF PublishConfirmed, HandlerDone, Enqueue
  <1>9. ASSUME NEW h \in Handlers, PublishRaises(h) PROVE Inv'
    BY <1>9 DEF PublishRaises, MaybeEnqueue, Enqueue
  <1>10. ASSUME NEW h \in Handlers, PublishGivesUp(h) PROVE Inv'
    BY <1>10 DEF PublishGivesUp, HandlerDone, MaybeEnqueue, Enqueue
  <1>11. ASSUME GatewayCrash PROVE Inv'
    BY <1>11 DEF GatewayCrash
  <1>12. ASSUME NEW r \in Relays, Claim(r) PROVE Inv'
    BY <1>12 DEF Claim, Claimable, Locked, Unclaimed, tables
  <1>13. ASSUME NEW r \in Relays, NEW s \in Sessions,
                RelayPublishConfirmed(r, s) \/ RelayPublishFails(r, s)
         PROVE  Inv'
    <2>1. /\ claim[r][s] = "claimed"
          /\ UNCHANGED <<status, backup, outbox, attempts, hpc, hjob, htx>>
      BY <1>13 DEF RelayPublishConfirmed, RelayPublishFails
    <2>2. PICK c \in {"published", "retry"} :
            /\ claim' = [claim EXCEPT ![r][s] = c]
            /\ Enqueue(s) \/ (c = "retry" /\ UNCHANGED <<queue, accepted>>)
      BY <1>13 DEF RelayPublishConfirmed, RelayPublishFails, MaybeEnqueue
    <2>3. backup[s] # "none" /\ outbox[s] = "pending"
      BY <2>1, <2>2
    <2>4. accepted' \in {accepted, accepted \union {s}} /\ (c = "published" => s \in accepted')
      BY <2>1, <2>2 DEF Enqueue
    <2>5. HandlerInv' /\ CompletionInv' /\ RowInv'
      BY <2>1, <2>2, <2>3, <2>4
    <2>6. ClaimInv'
      <3> SUFFICES ASSUME NEW q \in Relays, NEW u \in Sessions
                   PROVE  /\ claim'[q][u] # "free" => claim[q][u] # "free"
                          /\ claim'[q][u] = "published" => u \in accepted'
        BY <2>1, <2>2
      <3>1. CASE q = r /\ u = s
        BY <2>1, <2>2, <2>4, <3>1
      <3>2. CASE ~(q = r /\ u = s)
        <4>1. claim'[q][u] = claim[q][u]
          BY <2>1, <2>2, <3>2
        <4> QED BY <2>4, <4>1
      <3> QED BY <3>1, <3>2
    <2>7. QueueInv'
      <3> SUFFICES ASSUME NEW u \in Sessions, queue'[u] > 0 PROVE u \in accepted'
        OBVIOUS
      <3>1. CASE u = s /\ Enqueue(s)
        BY <3>1 DEF Enqueue
      <3>2. CASE ~(u = s /\ Enqueue(s))
        <4>1. queue'[u] = queue[u]
          BY <2>1, <2>2, <3>2 DEF Enqueue
        <4> QED BY <2>4, <4>1
      <3> QED BY <3>1, <3>2
    <2> QED BY <2>5, <2>6, <2>7
  <1>14. ASSUME NEW r \in Relays, RelayCommit(r) PROVE Inv'
    BY <1>14 DEF RelayCommit, Unclaimed, tables
  <1>15. ASSUME NEW r \in Relays, RelayAbort(r) PROVE Inv'
    BY <1>15 DEF RelayAbort, Unclaimed
  <1>16. ASSUME NEW s \in Sessions, Restart(s) PROVE Inv'
    BY <1>16 DEF Restart
  <1>17. ASSUME NEW s \in Sessions, Reopen(s) PROVE Inv'
    BY <1>17 DEF Reopen, delivery
  <1>18. ASSUME StopResets PROVE Inv'
    BY <1>18 DEF StopResets, tables
  <1> QED
    BY <1>1, <1>2, <1>3, <1>4, <1>5, <1>6, <1>7, <1>8, <1>9, <1>10, <1>11, <1>12,
       <1>13, <1>14, <1>15, <1>16, <1>17, <1>18
    DEF DeliveryNext, HandlerStep, HandlerFault, RelayStep, RelayFault

-----------------------------------------------------------------------------
LEMMA ConsumeKeepsInv ==
  ASSUME CDInv, NEW s \in Sessions, Consume(s)
  PROVE  CDInv'
  BY DEF CDInv, Consume, delivery, CDTypeOK, TablesTypeOK, DeliveryTypeOK, Messages,
         DeliveryInv, HandlerInv, CompletionInv, RowInv, ClaimInv, QueueInv

LEMMA StutterKeepsInv ==
  ASSUME CDInv, UNCHANGED deliveryVars
  PROVE  CDInv'
  BY DEF CDInv, deliveryVars, tables, delivery, CDTypeOK, TablesTypeOK, DeliveryTypeOK,
         DeliveryInv, HandlerInv, CompletionInv, RowInv, ClaimInv, QueueInv

LEMMA CDNextKeepsInv ==
  ASSUME CDInv, [CDNext]_deliveryVars
  PROVE  CDInv'
  <1>1. CASE DeliveryNext
    BY <1>1, DeliveryKeepsType, DeliveryKeepsInv DEF CDInv
  <1>2. ASSUME NEW s \in Sessions, Consume(s) PROVE CDInv'
    BY <1>2, ConsumeKeepsInv
  <1>3. CASE UNCHANGED deliveryVars
    BY <1>3, StutterKeepsInv
  <1> QED BY <1>1, <1>2, <1>3 DEF CDNext

(* The inductive invariant holds in every reachable state.                 *)
THEOREM DeliveryInvariant == CDSpec => []CDInv
  <1>1. CDInit => CDInv
    BY InitType, InitInv DEF CDInv
  <1> QED BY <1>1, CDNextKeepsInv, PTL DEF CDSpec

(* Type correctness of the gateway, the outbox and the relays.             *)
THEOREM DeliveryTypeCorrect == CDSpec => []CDTypeOK
  BY DeliveryInvariant, PTL DEF CDInv

(* The outbox row is durable exactly when the completion is, for any       *)
(* number of overlapping END_SESSION handlers, failures and crashes.       *)
THEOREM OutboxDurableIffCommitted == CDSpec => []OutboxIffCommitted
  <1>1. CDInv => OutboxIffCommitted
    BY DEF CDInv, DeliveryInv, CompletionInv, OutboxIffCommitted, Committed
  <1> QED BY <1>1, DeliveryInvariant, PTL

(* A completion the broker never accepted is always recoverable from its   *)
(* outbox row, and a row marked published really is in the broker.         *)
THEOREM CompletionRecoverable == CDSpec => []RecoveryState
  <1>1. CDInv => RecoveryState
    BY DeliveryAssumption
    DEF CDInv, CDTypeOK, DeliveryTypeOK, DeliveryInv, CompletionInv, RowInv, RecoveryState,
        Committed
  <1> QED BY <1>1, DeliveryInvariant, PTL

(* No message overtakes the commit it announces.                           *)
THEOREM MessageAfterCommit == CDSpec => []NoMessageBeforeCommit
  <1>1. CDInv => NoMessageBeforeCommit
    BY DEF CDInv, DeliveryInv, CompletionInv, QueueInv, NoMessageBeforeCommit, Committed
  <1> QED BY <1>1, DeliveryInvariant, PTL

(* What an outbox row has become is final: the row locks keep every other  *)
(* relay, and ON CONFLICT DO NOTHING every second completion, off it.      *)
LEMMA DeliveryKeepsFinal ==
  ASSUME CDInv, DeliveryNext, NEW s \in Sessions, outbox[s] \in {"published", "failed"}
  PROVE  outbox'[s] = outbox[s]
  <1> USE DEF CDInv, CDTypeOK, DeliveryTypeOK, DeliveryInv
  <1>1. ASSUME NEW h \in Handlers, NEW b \in Spoken, CommitRows(h, b)
        PROVE  outbox'[s] = outbox[s]
    BY <1>1 DEF CommitRows
  <1>2. ASSUME NEW r \in Relays, RelayCommit(r) PROVE outbox'[s] = outbox[s]
    BY <1>2 DEF RelayCommit, ClaimInv
  <1>3. CASE UNCHANGED outbox
    BY <1>3
  <1> QED
    BY <1>1, <1>2, <1>3
    DEF DeliveryNext, HandlerStep, HandlerFault, RelayStep, RelayFault, Start, Restart, Reopen,
        delivery, BeginPersist, StopResets, ExecUpdate, ExecEnqueue, Commit, CommitReplyLost,
        PersistFails, PublishConfirmed, PublishRaises, PublishGivesUp, GatewayCrash, Claim, RelayPublishConfirmed,
        RelayPublishFails, RelayAbort

THEOREM OutboxRowsFinal == CDSpec => OutboxFinal
  <1>1. CDInv /\ [CDNext]_deliveryVars =>
          [\A s \in Sessions : outbox[s] \in {"published", "failed"}
                                  => outbox'[s] = outbox[s]]_outbox
    BY DeliveryKeepsFinal DEF CDNext, Consume, delivery, deliveryVars
  <1> QED BY <1>1, DeliveryInvariant, PTL DEF CDSpec, OutboxFinal
=============================================================================
