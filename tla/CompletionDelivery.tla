------------------------- MODULE CompletionDelivery -------------------------
(***************************************************************************)
(* How the completion of a session becomes a message for the grading       *)
(* worker.  The realtime gateway (luve_extension._persist_event_log)       *)
(* writes the transcript, the completed status and a session_outbox row in *)
(* one transaction and then publishes inline.  The outbox relay of the     *)
(* grading worker (worker.relay_forever) claims pending rows, publishes    *)
(* them and marks them, in one transaction per cycle.                      *)
(***************************************************************************)
EXTENDS SessionTables, FiniteSets

CONSTANTS
    Handlers,         \* END_SESSION handlers that can be at work at once, and
    Stopper,          \* the one that is the stop of the runtime, if any
    NoSession,        \* no session: the extension is idle
    Spoken,           \* which of the Transcripts the sessions come to
    Relays,           \* running outbox relays; {} is OUTBOX_RELAY_ENABLED=false
    BatchSize,        \* OUTBOX_RELAY_BATCH_SIZE
    RelayMaxAttempts  \* OUTBOX_RELAY_MAX_ATTEMPTS

ASSUME DeliveryAssumption ==
    /\ NoSession \notin Sessions
    /\ Spoken \subseteq Transcripts
    /\ BatchSize \in Nat \ {0}
    /\ RelayMaxAttempts \in Nat \ {0}

VARIABLES
    active,     \* the extension's _session_id
    hpc,        \* where each handler is in _persist_event_log
    hjob,       \* the session a handler persists
    htx,        \* statements a handler has run in its open transaction
    outbox,     \* SESSION_OUTBOX.status of the session.completed row
    attempts,   \* SESSION_OUTBOX.attempt_count
    claim       \* per relay, what its open transaction did with each row

delivery == <<active, hpc, hjob, htx, outbox, attempts, claim>>
deliveryVars == <<tables, delivery>>

Unclaimed == [s \in Sessions |-> "free"]

DeliveryInit ==
    /\ active = NoSession
    /\ hpc = [h \in Handlers |-> "idle"]
    /\ hjob = [h \in Handlers |-> NoSession]
    /\ htx = [h \in Handlers |-> {}]
    /\ outbox = [s \in Sessions |-> "none"]
    /\ attempts = [s \in Sessions |-> 0]
    /\ claim = [r \in Relays |-> Unclaimed]

DeliveryTypeOK ==
    /\ active \in Sessions \union {NoSession}
    /\ hpc \in [Handlers -> {"idle", "open", "publish", "republish"}]
    /\ hjob \in [Handlers -> Sessions \union {NoSession}]
    /\ htx \in [Handlers -> SUBSET {"update", "enqueue"}]
    /\ outbox \in [Sessions -> {"none", "pending", "published", "failed"}]
    /\ attempts \in [Sessions -> 0 .. RelayMaxAttempts]
    /\ claim \in [Relays -> [Sessions -> {"free", "claimed", "published", "retry"}]]

-----------------------------------------------------------------------------
(***************************************************************************)
(* The gateway: _persist_event_log and publish_session_completed.          *)
(***************************************************************************)
(* START is accepted when no other session is active; the gateway sends it *)
(* for an offer of a session whose row is joinable.                        *)
Start(s) ==
    /\ active = NoSession
    /\ status[s] = "streaming"
    /\ s \notin deleted
    /\ active' = s
    /\ UNCHANGED <<tables, hpc, hjob, htx, outbox, attempts, claim>>

(* A client that reconnected while its session was being ended: START is   *)
(* sent again, by the gateway or over the new data channel, when the       *)
(* completion is committed and the extension reset.                        *)
Restart(s) ==
    /\ active = NoSession
    /\ Committed(s)
    /\ Fault
    /\ active' = s
    /\ UNCHANGED <<status, backup, deleted, queue, accepted, hpc, hjob, htx, outbox,
                   attempts, claim>>

(* Its offer puts the row back: the reservation checked the row before the *)
(* completion committed and writes after it, or the SDP exchange fails.    *)
Reopen(s) ==
    /\ Committed(s) /\ status[s] = "completed"
    /\ \A h \in Handlers : hjob[h] = s => htx[h] = {}
    /\ Fault
    /\ status' = [status EXCEPT ![s] = "streaming"]
    /\ UNCHANGED <<backup, deleted, queue, accepted, delivery>>

(* A handler returns from _persist_event_log and resets the extension,     *)
(* whatever session that had become active by then.  The stop has other    *)
(* things to wait for before it does.                                      *)
HandlerDone(h) ==
    /\ active' = IF h = Stopper THEN active ELSE NoSession
    /\ hpc' = [hpc EXCEPT ![h] = "idle"]
    /\ hjob' = [hjob EXCEPT ![h] = NoSession]
    /\ htx' = [htx EXCEPT ![h] = {}]

(* A handler reaches _persist_event_log, which takes the session that is   *)
(* active now.  A second handler may do so while the first is still at     *)
(* work.  A stop uses up a fault.                                          *)
BeginPersist(h) ==
    /\ hpc[h] = "idle"
    /\ active # NoSession
    /\ IF h = Stopper THEN Fault ELSE UNCHANGED faults
    /\ hpc' = [hpc EXCEPT ![h] = "open"]
    /\ hjob' = [hjob EXCEPT ![h] = active]
    /\ UNCHANGED <<status, backup, deleted, queue, accepted, active, htx, outbox, attempts, claim>>

(* The stop resets the extension in the end.                               *)
StopResets ==
    /\ Stopper \in Handlers
    /\ hpc[Stopper] = "idle" /\ active # NoSession
    /\ active' = NoSession
    /\ UNCHANGED <<tables, hpc, hjob, htx, outbox, attempts, claim>>

(* UPDATE SESSIONS takes the row lock until the transaction ends.          *)
ExecUpdate(h) ==
    /\ hpc[h] = "open"
    /\ htx[h] = {}
    /\ \A g \in Handlers : hjob[g] = hjob[h] => htx[g] = {}
    /\ htx' = [htx EXCEPT ![h] = {"update"}]
    /\ UNCHANGED <<tables, active, hpc, hjob, outbox, attempts, claim>>

ExecEnqueue(h) ==
    /\ htx[h] = {"update"}
    /\ htx' = [htx EXCEPT ![h] = @ \union {"enqueue"}]
    /\ UNCHANGED <<tables, active, hpc, hjob, outbox, attempts, claim>>

(* What becomes durable with the commit: the completion with the           *)
(* transcript b, and the outbox row unless one exists already.             *)
CommitRows(h, b) ==
    LET s == hjob[h] IN
    /\ status' = [status EXCEPT ![s] = "completed"]
    /\ backup' = [backup EXCEPT ![s] = b]
    /\ outbox' = [outbox EXCEPT ![s] =
                    IF @ = "none" /\ "enqueue" \in htx[h] THEN "pending" ELSE @]

(* Mutant: a failed enqueue does not keep the completion from committing.  *)
CommitWithoutEnqueue(h) == hpc[h] = "open" /\ "update" \in htx[h]

ReadyToCommit(h) == hpc[h] = "open" /\ htx[h] = {"update", "enqueue"}

Commit(h) ==
    /\ ReadyToCommit(h)
    /\ \E b \in Spoken : CommitRows(h, b)
    /\ hpc' = [hpc EXCEPT ![h] = "publish"]
    /\ htx' = [htx EXCEPT ![h] = {}]
    /\ UNCHANGED <<deleted, queue, accepted, faults, active, hjob, attempts, claim>>

(* What fails in the stop is covered by the fault it began with.           *)
PersistFault(h) == IF h = Stopper THEN UNCHANGED faults ELSE Fault

(* The commit took effect but its reply was lost: the exception skips the  *)
(* inline publish.                                                         *)
CommitReplyLost(h) ==
    /\ ReadyToCommit(h)
    /\ PersistFault(h)
    /\ \E b \in Spoken : CommitRows(h, b)
    /\ HandlerDone(h)
    /\ UNCHANGED <<deleted, queue, accepted, attempts, claim>>

(* Any statement may raise: the transaction rolls back, the exception is   *)
(* swallowed and the handler goes on to reset the session.                 *)
PersistFails(h) ==
    /\ hpc[h] = "open"
    /\ PersistFault(h)
    /\ HandlerDone(h)
    /\ UNCHANGED <<status, backup, deleted, queue, accepted, outbox, attempts, claim>>

(* Mutant: the message is published from inside the transaction.           *)
PublishEarly(h) ==
    /\ hpc[h] \in {"open", "publish", "republish"}
    /\ Enqueue(hjob[h])
    /\ HandlerDone(h)
    /\ UNCHANGED <<status, backup, deleted, faults, outbox, attempts, claim>>

PublishConfirmed(h) ==
    /\ hpc[h] \in {"publish", "republish"}
    /\ Enqueue(hjob[h])
    /\ HandlerDone(h)
    /\ UNCHANGED <<status, backup, deleted, faults, outbox, attempts, claim>>

(* The first failed publish drops the connection and tries once more.      *)
PublishRaises(h) ==
    /\ hpc[h] = "publish"
    /\ PersistFault(h)
    /\ MaybeEnqueue(hjob[h])
    /\ hpc' = [hpc EXCEPT ![h] = "republish"]
    /\ UNCHANGED <<status, backup, deleted, active, hjob, htx, outbox, attempts, claim>>

(* The second failure, or the timeout around both, gives up.               *)
PublishGivesUp(h) ==
    /\ hpc[h] \in {"publish", "republish"}
    /\ PersistFault(h)
    /\ MaybeEnqueue(hjob[h])
    /\ HandlerDone(h)
    /\ UNCHANGED <<status, backup, deleted, outbox, attempts, claim>>

GatewayCrash ==
    /\ active # NoSession \/ \E h \in Handlers : hpc[h] # "idle"
    /\ Fault
    /\ active' = NoSession
    /\ hpc' = [h \in Handlers |-> "idle"]
    /\ hjob' = [h \in Handlers |-> NoSession]
    /\ htx' = [h \in Handlers |-> {}]
    /\ UNCHANGED <<status, backup, deleted, queue, accepted, outbox, attempts, claim>>

-----------------------------------------------------------------------------
(***************************************************************************)
(* The relay: _relay_drain_once, one transaction from claim to commit.     *)
(***************************************************************************)
Locked == {s \in Sessions : \E r \in Relays : claim[r][s] # "free"}

(* Mutant: rows are claimed without SKIP LOCKED.                           *)
ClaimableLocked == {s \in Sessions : outbox[s] = "pending"}

(* Mutant: a row is claimed only before its first attempt.                 *)
ClaimableOnce == {s \in Sessions : outbox[s] = "pending" /\ attempts[s] = 0} \ Locked

Claimable == {s \in Sessions : outbox[s] = "pending"} \ Locked

(* FOR UPDATE SKIP LOCKED with LIMIT: as many unlocked pending rows as     *)
(* there are, up to the batch size.                                        *)
Claim(r) ==
    /\ claim[r] = Unclaimed
    /\ \E rows \in SUBSET Claimable \ {{}} :
        /\ Cardinality(rows) = BatchSize \/ (rows = Claimable /\ Cardinality(rows) < BatchSize)
        /\ claim' = [claim EXCEPT ![r] =
                        [s \in Sessions |-> IF s \in rows THEN "claimed" ELSE "free"]]
    /\ UNCHANGED <<tables, active, hpc, hjob, htx, outbox, attempts>>

RelayPublishConfirmed(r, s) ==
    /\ claim[r][s] = "claimed"
    /\ Enqueue(s)
    /\ claim' = [claim EXCEPT ![r][s] = "published"]
    /\ UNCHANGED <<status, backup, deleted, faults, active, hpc, hjob, htx, outbox, attempts>>

(* Mutant: a row is marked published although the publish raised.          *)
RelayMarksAnyway(r, s) ==
    /\ claim[r][s] = "claimed"
    /\ Fault
    /\ MaybeEnqueue(s)
    /\ claim' = [claim EXCEPT ![r][s] = "published"]
    /\ UNCHANGED <<status, backup, deleted, active, hpc, hjob, htx, outbox, attempts>>

RelayPublishFails(r, s) ==
    /\ claim[r][s] = "claimed"
    /\ Fault
    /\ MaybeEnqueue(s)
    /\ claim' = [claim EXCEPT ![r][s] = "retry"]
    /\ UNCHANGED <<status, backup, deleted, active, hpc, hjob, htx, outbox, attempts>>

RelayCommit(r) ==
    /\ claim[r] # Unclaimed
    /\ \A s \in Sessions : claim[r][s] # "claimed"
    /\ outbox' = [s \in Sessions |->
            CASE claim[r][s] = "published" -> "published"
              [] claim[r][s] = "retry" ->
                    IF attempts[s] + 1 >= RelayMaxAttempts THEN "failed" ELSE "pending"
              [] OTHER -> outbox[s]]
    /\ attempts' = [s \in Sessions |->
            IF claim[r][s] = "retry" THEN attempts[s] + 1 ELSE attempts[s]]
    /\ claim' = [claim EXCEPT ![r] = Unclaimed]
    /\ UNCHANGED <<tables, active, hpc, hjob, htx>>

(* A crash or a database error anywhere in the cycle rolls the marks back; *)
(* what was published stays published.                                     *)
RelayAbort(r) ==
    /\ claim[r] # Unclaimed
    /\ Fault
    /\ claim' = [claim EXCEPT ![r] = Unclaimed]
    /\ UNCHANGED <<status, backup, deleted, queue, accepted, active, hpc, hjob, htx, outbox, attempts>>

-----------------------------------------------------------------------------
HandlerStep(h) ==
    \/ ExecUpdate(h)
    \/ ExecEnqueue(h)
    \/ Commit(h)
    \/ PublishConfirmed(h)

HandlerFault(h) ==
    \/ CommitReplyLost(h)
    \/ PersistFails(h)
    \/ PublishRaises(h)
    \/ PublishGivesUp(h)

RelayStep(r) ==
    \/ Claim(r)
    \/ \E s \in Sessions : RelayPublishConfirmed(r, s)
    \/ RelayCommit(r)

RelayFault(r) ==
    \/ \E s \in Sessions : RelayPublishFails(r, s)
    \/ RelayAbort(r)

DeliveryNext ==
    \/ \E s \in Sessions : Start(s) \/ Restart(s) \/ Reopen(s)
    \/ \E h \in Handlers :
        \/ BeginPersist(h)
        \/ HandlerStep(h)
        \/ HandlerFault(h)
    \/ StopResets
    \/ GatewayCrash
    \/ \E r \in Relays : RelayStep(r) \/ RelayFault(r)

(* Alone, the component meets an environment that consumes its messages.   *)
Consume(s) ==
    /\ queue[s] > 0
    /\ queue' = [queue EXCEPT ![s] = @ - 1]
    /\ UNCHANGED <<status, backup, deleted, accepted, faults, delivery>>

CDInit == TablesInit /\ DeliveryInit

CDNext == DeliveryNext \/ \E s \in Sessions : Consume(s)

(* Both processes are event loops that never block for ever: every step a  *)
(* handler or a relay can take is taken in the end.                        *)
DeliveryFairness ==
    /\ \A h \in Handlers : WF_deliveryVars(HandlerStep(h))
    /\ \A r \in Relays : WF_deliveryVars(RelayStep(r))

CDSpec == CDInit /\ [][CDNext]_deliveryVars /\ DeliveryFairness

-----------------------------------------------------------------------------
(***************************************************************************)
(* Properties.                                                             *)
(***************************************************************************)

CDTypeOK == TablesTypeOK /\ DeliveryTypeOK

(* The outbox row is durable exactly for the sessions with a committed     *)
(* completion, whatever handler crashed, failed or ran twice, and however  *)
(* often the session was joined again.                                     *)
OutboxIffCommitted ==
    \A s \in Sessions :
        /\ Committed(s) <=> outbox[s] # "none"
        /\ status[s] = "completed" => Committed(s)

(* A row is marked published only after the broker has the message, and a  *)
(* row is given up only when its attempts are used up: a completion that   *)
(* never reached the broker is still there to be recovered.                *)
RecoveryState ==
    \A s \in Sessions :
        /\ Committed(s) /\ s \notin accepted =>
              \/ outbox[s] = "pending" /\ attempts[s] < RelayMaxAttempts
              \/ outbox[s] = "failed" /\ attempts[s] = RelayMaxAttempts
        /\ outbox[s] = "published" => s \in accepted

(* No consumer can be told of a session before its completion, with the    *)
(* transcript, is committed.                                               *)
NoMessageBeforeCommit ==
    \A s \in Sessions :
        s \in accepted \/ queue[s] > 0 => Committed(s)

(* Once a row is published or failed no relay and no second completion     *)
(* takes it back: a slow relay cannot undo another one's mark.             *)
OutboxFinal ==
    [][\A s \in Sessions : outbox[s] \in {"published", "failed"} => outbox'[s] = outbox[s]]_outbox

(* With a relay, every completion reaches the broker or ends as a failed   *)
(* row for an operator.                                                    *)
EventuallyDelivered ==
    \A s \in Sessions :
        Committed(s) ~> (s \in accepted \/ outbox[s] = "failed")
=============================================================================
