------------------------ MODULE GradingPipeline_proofs ------------------------
(***************************************************************************)
(* Safety of the whole pipeline and its refinement of GradingContract, for *)
(* any number of sessions, handlers, relays, consumers and tools.  The     *)
(* lemmas of the two components carry most of it: what is left to show is  *)
(* that each leaves the other's invariant alone.                           *)
(***************************************************************************)
EXTENDS GradingPipeline, CompletionDelivery_proofs, GradingWorker_proofs

PipelineInv == PipelineTypeOK /\ DeliveryInv /\ GradingInv

(* What a step of the gateway or the relay means to the graders: a         *)
(* committed transcript stays one, and what the broker newly accepted it   *)
(* still has.                                                              *)
LEMMA DeliveryEffect ==
  ASSUME CDTypeOK, DeliveryInv, DeliveryNext
  PROVE  /\ deleted' = deleted
         /\ \A s \in Sessions : backup[s] # "none" => backup'[s] # "none"
         /\ \A s \in Sessions : queue[s] > 0 \/ (s \in accepted' /\ s \notin accepted)
                                  => queue'[s] > 0
         /\ accepted \subseteq accepted'
  <1> USE TablesAssumption
          DEF CDTypeOK, TablesTypeOK, DeliveryTypeOK, DeliveryInv, HandlerInv, Messages
  <1> DEFINE Effect == /\ deleted' = deleted
                       /\ \A s \in Sessions :
                            backup[s] # "none" => backup'[s] # "none"
                       /\ \A s \in Sessions :
                            queue[s] > 0 \/ (s \in accepted' /\ s \notin accepted)
                                => queue'[s] > 0
                       /\ accepted \subseteq accepted'
  <1>1. ASSUME UNCHANGED <<backup, deleted, queue, accepted>> PROVE Effect
    BY <1>1
  <1>2. ASSUME NEW u \in Sessions, Enqueue(u), UNCHANGED <<backup, deleted>> PROVE Effect
    BY <1>2 DEF Enqueue
  <1>3. ASSUME NEW h \in Handlers, NEW b \in Spoken, CommitRows(h, b),
               UNCHANGED <<deleted, queue, accepted>>
        PROVE  Effect
    BY <1>3, DeliveryAssumption DEF CommitRows, Transcripts
  <1>4. ASSUME NEW h \in Handlers, HandlerStep(h) PROVE Effect
    <2>1. CASE ExecUpdate(h) \/ ExecEnqueue(h)
      BY <1>1, <2>1 DEF ExecUpdate, ExecEnqueue, tables
    <2>2. CASE Commit(h)
      BY <1>3, <2>2 DEF Commit
    <2>3. CASE PublishConfirmed(h)
      BY <1>2, <2>3 DEF PublishConfirmed
    <2> QED BY <1>4, <2>1, <2>2, <2>3 DEF HandlerStep
  <1>5. ASSUME NEW h \in Handlers, HandlerFault(h) PROVE Effect
    <2>1. CASE CommitReplyLost(h)
      BY <1>3, <2>1 DEF CommitReplyLost
    <2>2. CASE PersistFails(h)
      BY <1>1, <2>2 DEF PersistFails
    <2>3. CASE PublishRaises(h) \/ PublishGivesUp(h)
      BY <1>1, <1>2, <2>3 DEF PublishRaises, PublishGivesUp, MaybeEnqueue
    <2> QED BY <1>5, <2>1, <2>2, <2>3 DEF HandlerFault
  <1>6. ASSUME NEW r \in Relays, RelayStep(r) \/ RelayFault(r) PROVE Effect
    <2>1. CASE Claim(r) \/ RelayCommit(r) \/ RelayAbort(r)
      BY <1>1, <2>1 DEF Claim, RelayCommit, RelayAbort, tables
    <2>2. ASSUME NEW s \in Sessions, RelayPublishConfirmed(r, s) \/ RelayPublishFails(r, s)
          PROVE  Effect
      BY <1>1, <1>2, <2>2 DEF RelayPublishConfirmed, RelayPublishFails, MaybeEnqueue
    <2> QED BY <1>6, <2>1, <2>2 DEF RelayStep, RelayFault
  <1>7. ASSUME GatewayCrash PROVE Effect
    BY <1>1, <1>7 DEF GatewayCrash
  <1>8. ASSUME NEW s \in Sessions, Start(s) PROVE Effect
    BY <1>1, <1>8 DEF Start, tables
  <1>9. ASSUME NEW h \in Handlers, BeginPersist(h) PROVE Effect
    BY <1>1, <1>9 DEF BeginPersist
  <1>10. ASSUME NEW s \in Sessions, Restart(s) \/ Reopen(s) PROVE Effect
    BY <1>1, <1>10 DEF Restart, Reopen
  <1>11. ASSUME StopResets PROVE Effect
    BY <1>1, <1>11 DEF StopResets, tables
  <1>12. Effect
    BY <1>4, <1>5, <1>6, <1>7, <1>8, <1>9, <1>10, <1>11 DEF DeliveryNext
  <1> QED BY <1>12

-----------------------------------------------------------------------------
LEMMA PipelineInitInv == PipelineInit => PipelineInv
  BY InitType, InitInv, GradingInitType, GradingInitInv
  DEF PipelineInit, CDInit, PipelineInv, PipelineTypeOK, CDTypeOK, GWTypeOK

LEMMA DeliveryStepKeepsInv ==
  ASSUME PipelineInv, DeliveryNext, UNCHANGED grading
  PROVE  PipelineInv'
  <1>1. CDTypeOK /\ GWTypeOK
    BY DEF PipelineInv, PipelineTypeOK, CDTypeOK, GWTypeOK
  <1>2. DeliveryInv /\ GradingInv /\ QueueInv
    BY DEF PipelineInv, GradingInv, SourceInv, QueueInv
  <1>3. CDTypeOK' /\ DeliveryInv' /\ QueueInv'
    BY <1>1, <1>2, DeliveryKeepsType, DeliveryKeepsInv
  <1>4. wpc' = wpc /\ job' = job /\ held' = held /\ batch' = batch
    BY DEF grading
  <1>5. grade' = grade /\ skipped' = skipped /\ attempt' = attempt /\ upserts' = upserts
        /\ dead' = dead
    BY DEF grading
  <1>6. GradingTypeOK'
    BY <1>1, <1>4, <1>5 DEF GWTypeOK, GradingTypeOK
  <1>7. JobInv' /\ RowExistsInv'
    BY <1>2, <1>4, <1>5 DEF GradingInv, JobInv, RowExistsInv
  <1>8. SourceInv'
    <2>1. \A s \in Sessions :
            /\ s \in accepted' => backup'[s] # "none"
            /\ queue'[s] > 0 => s \in accepted'
      BY <1>3 DEF DeliveryInv, CompletionInv, QueueInv
    <2>2. /\ \A s \in Sessions : backup[s] # "none" => backup'[s] # "none"
          /\ accepted \subseteq accepted'
      BY <1>1, <1>2, DeliveryEffect
    <2>3. batch \in [Tools -> SUBSET Sessions]
      BY <1>1 DEF GWTypeOK, GradingTypeOK
    <2> QED BY <1>2, <1>4, <1>5, <2>1, <2>2, <2>3 DEF GradingInv, SourceInv
  <1>9. NothingDropped'
    <2>1. ASSUME NEW s \in Sessions, Unacknowledged(s) PROVE Unacknowledged(s)'
      BY <1>1, <1>2, <1>4, <2>1, DeliveryEffect DEF Unacknowledged
    <2>2. ASSUME NEW s \in Sessions, s \in accepted', s \notin accepted
          PROVE  Unacknowledged(s)'
      BY <1>1, <1>2, <2>2, DeliveryEffect DEF Unacknowledged
    <2>3. deleted' = deleted /\ accepted' \subseteq Sessions
      BY <1>1, <1>2, <1>3, DeliveryEffect DEF CDTypeOK, TablesTypeOK
    <2> SUFFICES ASSUME NEW s \in accepted' \ deleted'
                 PROVE  Unacknowledged(s)' \/ grade'[s] # "none" \/ s \in skipped'
      BY DEF NothingDropped
    <2>4. CASE s \in accepted
      <3>1. Unacknowledged(s) \/ grade[s] # "none" \/ s \in skipped
        BY <1>2, <2>3, <2>4 DEF GradingInv, RecordedInv, NothingDropped
      <3> QED BY <1>5, <2>1, <2>3, <3>1
    <2>5. CASE s \notin accepted
      BY <2>2, <2>3, <2>5
    <2> QED BY <2>4, <2>5
  <1>10. RecordedInv'
    <2>1. deleted' = deleted
      BY <1>1, <1>2, DeliveryEffect
    <2> QED BY <1>2, <1>4, <1>5, <1>9, <2>1 DEF GradingInv, RecordedInv
  <1> QED
    BY <1>3, <1>6, <1>7, <1>8, <1>10
    DEF PipelineInv, PipelineTypeOK, CDTypeOK, GradingInv

LEMMA GradingStepKeepsInv ==
  ASSUME PipelineInv, GradingNext, UNCHANGED delivery
  PROVE  PipelineInv'
  <1>1. GWTypeOK /\ GradingInv /\ DeliveryInv
    BY DEF PipelineInv, PipelineTypeOK, GWTypeOK
  <1>2. GWTypeOK' /\ GradingInv'
    BY <1>1, GradingKeepsInv
  <1>3. UNCHANGED <<status, backup, accepted>>
    BY <1>1, GradingWrites DEF RowWrites
  <1>4. DeliveryInv'
    BY <1>1, <1>3 DEF DeliveryInv, HandlerInv, CompletionInv, RowInv, ClaimInv, delivery
  <1>5. DeliveryTypeOK'
    BY DEF PipelineInv, PipelineTypeOK, DeliveryTypeOK, delivery
  <1> QED BY <1>2, <1>4, <1>5 DEF PipelineInv, PipelineTypeOK, GWTypeOK

LEMMA SoftDeleteKeepsInv ==
  ASSUME PipelineInv, NEW s \in Sessions, SoftDelete(s), UNCHANGED delivery
  PROVE  PipelineInv'
  <1> USE DEF PipelineInv, SoftDelete
  <1>1. PipelineTypeOK'
    BY DEF PipelineTypeOK, TablesTypeOK, DeliveryTypeOK, GradingTypeOK, delivery, grading
  <1>2. DeliveryInv'
    BY DEF DeliveryInv, HandlerInv, CompletionInv, RowInv, ClaimInv, delivery
  <1>3. JobInv' /\ SourceInv' /\ RowExistsInv'
    BY DEF GradingInv, JobInv, SourceInv, RowExistsInv, grading
  <1>4. RecordedInv'
    BY DEF GradingInv, RecordedInv, NothingDropped, Unacknowledged, grading
  <1> QED BY <1>1, <1>2, <1>3, <1>4 DEF GradingInv

LEMMA PipelineStutterKeepsInv ==
  ASSUME PipelineInv, UNCHANGED pipelineVars
  PROVE  PipelineInv'
  <1> USE DEF PipelineInv, pipelineVars
  <1>1. PipelineTypeOK'
    BY DEF PipelineTypeOK, TablesTypeOK, DeliveryTypeOK, GradingTypeOK, tables, delivery, grading
  <1>2. DeliveryInv'
    BY DEF DeliveryInv, HandlerInv, CompletionInv, RowInv, ClaimInv, tables, delivery
  <1>3. GradingInv'
    BY DEF GradingInv, JobInv, SourceInv, RowExistsInv, RecordedInv, NothingDropped,
           Unacknowledged, tables, grading
  <1> QED BY <1>1, <1>2, <1>3

(* The inductive invariant holds in every reachable state.                 *)
THEOREM PipelineInvariant == PipelineSpec => []PipelineInv
  <1>1. PipelineInv /\ [PipelineNext]_pipelineVars => PipelineInv'
    BY DeliveryStepKeepsInv, GradingStepKeepsInv, SoftDeleteKeepsInv, PipelineStutterKeepsInv
    DEF PipelineNext
  <1> QED BY <1>1, PipelineInitInv, PTL DEF PipelineSpec

(* Type correctness of the composed system.                                *)
THEOREM PipelineTypeCorrect == PipelineSpec => []PipelineTypeOK
  BY PipelineInvariant, PTL DEF PipelineInv

(* No outcome is recorded before the completion it is about is committed.  *)
THEOREM OutcomeAfterCompletion == PipelineSpec => []NoOutcomeBeforeCompletion
  <1>1. PipelineInv => NoOutcomeBeforeCompletion
    BY DEF PipelineInv, DeliveryInv, CompletionInv, GradingInv, SourceInv,
           NoOutcomeBeforeCompletion, Committed
  <1> QED BY <1>1, PipelineInvariant, PTL

(* From its commit on no completion is ever lost between the gateway, the  *)
(* outbox, the broker and the graders.                                     *)
THEOREM CompletionsAccounted == PipelineSpec => []EveryCompletionAccounted
  <1>1. PipelineInv => EveryCompletionAccounted
    BY DEF PipelineInv, PipelineTypeOK, DeliveryTypeOK, DeliveryInv, CompletionInv, RowInv,
           GradingInv, RecordedInv, NothingDropped, EveryCompletionAccounted, Committed
  <1> QED BY <1>1, PipelineInvariant, PTL

-----------------------------------------------------------------------------
(***************************************************************************)
(* One worker and no repair tool, behind the gateway and the relay: they   *)
(* may publish a session as often as they like and replace its transcript. *)
(***************************************************************************)
LEMMA LonePipelineInvariant ==
  ASSUME LoneWorker
  PROVE  PipelineSpec => []LoneInv
  <1>1. PipelineInit => LoneInv
    BY LoneInit DEF PipelineInit
  <1>2. PipelineInv /\ LoneInv /\ [PipelineNext]_pipelineVars => LoneInv'
    <2> SUFFICES ASSUME PipelineInv, LoneInv, [PipelineNext]_pipelineVars PROVE LoneInv'
      OBVIOUS
    <2>1. CDTypeOK /\ GWTypeOK /\ DeliveryInv /\ GradingInv
      BY DEF PipelineInv, PipelineTypeOK, CDTypeOK, GWTypeOK
    <2>2. CASE DeliveryNext /\ UNCHANGED grading
      <3>1. deleted \subseteq deleted' /\ \A s \in Sessions : queue[s] > 0 => queue'[s] > 0
        BY <2>1, <2>2, DeliveryEffect
      <3> QED BY <2>1, <2>2, <3>1, LoneOthersKeepInv
    <2>3. CASE GradingNext /\ UNCHANGED delivery
      BY <2>1, <2>3, LoneKeepsInv
    <2>4. CASE (\E s \in Sessions : SoftDelete(s)) \/ UNCHANGED pipelineVars
      <3>1. UNCHANGED <<grading, queue>> /\ deleted \subseteq deleted'
        BY <2>4 DEF SoftDelete, pipelineVars, tables
      <3> QED BY <2>1, <3>1, LoneOthersKeepInv
    <2> QED BY <2>2, <2>3, <2>4 DEF PipelineNext
  <1> QED BY <1>1, <1>2, PipelineInvariant, PTL DEF PipelineSpec

(* Behind the real gateway and relay, too, a session has one result, though *)
(* its message is published inline, by the relay and again on completion.   *)
THEOREM PipelineGradesOnce ==
  ASSUME LoneWorker
  PROVE  PipelineSpec => []GradedOnce
  <1>1. LoneInv => GradedOnce
    BY DEF LoneInv, GradedOnce
  <1> QED BY <1>1, LonePipelineInvariant, PTL

(* No row stays in "processing" that the worker neither works on nor will  *)
(* be told of again, unless a replaced transcript made it log a skip.      *)
THEOREM PipelineOwnsProcessing ==
  ASSUME LoneWorker
  PROVE  PipelineSpec => []ProcessingOwned
  <1>1. LoneInv => ProcessingOwned
    BY DEF LoneInv, ProcessingOwned, Unacknowledged
  <1> QED BY <1>1, LonePipelineInvariant, PTL

-----------------------------------------------------------------------------
(***************************************************************************)
(* Refinement: every step is, in the client's view, a step of the contract *)
(* about one session, or invisible.                                        *)
(***************************************************************************)
Phases == [s \in Sessions |-> StatusView(s)]

(* A step that changes one session's view by a legal move is a Next step.  *)
LEMMA MoveIsContractStep ==
  ASSUME NEW s \in Sessions,
         \A u \in Sessions \ {s} : StatusView(u)' = StatusView(u),
         \/ StatusView(s) \in Contract!Waiting /\ StatusView(s)' \in Contract!Waiting
         \/ /\ StatusView(s) \in Contract!Waiting \union {"failed", "processing"}
            /\ StatusView(s)' \in {"processing", "failed"}
         \/ StatusView(s) \in {"processing", "failed"} /\ StatusView(s)' = "graded"
  PROVE  Contract!Next
  <1>1. ASSUME NEW from, NEW to, StatusView(s) \in from, StatusView(s)' \in to
        PROVE  Contract!Move(s, from, to)
    <2>1. Phases' = [Phases EXCEPT ![s] = StatusView(s)']
      BY DEF Phases
    <2> QED BY <1>1, <2>1 DEF Contract!Move, Phases
  <1> QED BY <1>1 DEF Contract!Next, Contract!Assess, Contract!Attempt, Contract!Succeed

(* A session's view changes with its row, its skip log and its transcript. *)
LEMMA DeliveryStepRefines ==
  ASSUME PipelineInv, DeliveryNext, UNCHANGED grading
  PROVE  Contract!Next \/ UNCHANGED Phases
  <1>1. grade' = grade /\ skipped' = skipped
    BY DEF grading
  <1>2. ASSUME NEW h \in Handlers, NEW b \in Spoken, CommitRows(h, b),
               NEW s \in Sessions, hjob[h] = s
        PROVE  Contract!Next \/ UNCHANGED Phases
    <2>1. \A u \in Sessions \ {s} : backup'[u] = backup[u]
      BY <1>2 DEF CommitRows, PipelineInv, PipelineTypeOK, TablesTypeOK
    <2>2. \A u \in Sessions \ {s} : StatusView(u)' = StatusView(u)
      BY <1>1, <2>1 DEF StatusView, InferredStatus
    <2>3. CASE grade[s] = "none"
      <3>1. StatusView(s) \in Contract!Waiting /\ StatusView(s)' \in Contract!Waiting
        BY <1>1, <2>3 DEF StatusView, InferredStatus, Contract!Waiting
      <3> QED BY <2>2, <3>1, MoveIsContractStep
    <2>4. CASE grade[s] # "none"
      BY <1>1, <1>2, <2>2, <2>4 DEF Phases, StatusView
    <2> QED BY <2>3, <2>4
  <1>3. ASSUME backup' = backup PROVE UNCHANGED Phases
    BY <1>1, <1>3 DEF Phases, StatusView, InferredStatus
  <1>4. ASSUME NEW h \in Handlers, Commit(h) \/ CommitReplyLost(h)
        PROVE  hjob[h] \in Sessions /\ \E b \in Spoken : CommitRows(h, b)
    BY <1>4 DEF Commit, CommitReplyLost, ReadyToCommit, PipelineInv, DeliveryInv, HandlerInv
  <1>5. ASSUME \A h \in Handlers : ~Commit(h) /\ ~CommitReplyLost(h)
        PROVE  backup' = backup
    BY <1>5
    DEF DeliveryNext, HandlerStep, HandlerFault, RelayStep, RelayFault, Start, Restart, Reopen,
        BeginPersist, StopResets, ExecUpdate, ExecEnqueue, PersistFails, PublishConfirmed,
        PublishRaises, PublishGivesUp, GatewayCrash, Claim, RelayPublishConfirmed, RelayPublishFails, RelayCommit, RelayAbort,
        tables
  <1> QED BY <1>2, <1>3, <1>4, <1>5

(* What a grader's step does to the row of its session.                    *)
LEMMA GradingRowStep ==
  ASSUME GWTypeOK, GradingInv, GradingNext, NEW s \in Sessions, grade'[s] # grade[s]
  PROVE  \/ grade'[s] \in {"processing", "failed"} /\ grade[s] # "graded"
         \/ grade'[s] = "graded" /\ grade[s] \in {"processing", "failed"}
  <1> USE DEF GWTypeOK, GradingTypeOK, GradingInv, JobInv, RowExistsInv
  <1> DEFINE Legal == \/ grade'[s] \in {"processing", "failed"} /\ grade[s] # "graded"
                      \/ grade'[s] = "graded" /\ grade[s] \in {"processing", "failed"}
  <1>1. ASSUME NEW m \in Messages \union {NoJob}, MarkProcessing(m) \/ MarkFailed(m) PROVE Legal
    BY <1>1 DEF MarkProcessing, MarkFailed
  <1>2. ASSUME NEW w \in Graders, wpc[w] = "upsert", UpsertResult(job[w]) PROVE Legal
    BY <1>2 DEF UpsertResult
  <1>3. ASSUME NEW w \in Graders, JobStep(w) PROVE Legal
    BY <1>1, <1>2, <1>3
    DEF JobStep, Fetch, LogSkip, Mark, Grade, GradeFails, RecordFailure, Upsert, Finish
  <1>4. ASSUME NEW w \in Graders, JobFault(w) PROVE Legal
    BY <1>1, <1>2, <1>4 DEF JobFault, RecordFailureFails, CallFails
  <1>5. ASSUME NEW c \in Consumers,
               \/ \E m \in Messages : Deliver(c, m)
               \/ Reject(c) \/ GiveUp(c) \/ GiveUpFails(c)
               \/ ConnectionLost(c) \/ ConsumerCrash(c)
        PROVE  Legal
    <2> job[c] \in Messages \union {NoJob}
      BY DEF Graders
    <2> QED
      BY <1>1, <1>5 DEF Deliver, Reject, GiveUp, GiveUpFails, ConnectionLost, ConsumerCrash
  <1>6. ASSUME NEW t \in Tools, Scan(t) \/ ProcessCandidate(t) \/ ToolCrash(t) PROVE Legal
    BY <1>6 DEF Scan, ProcessCandidate, ToolCrash
  <1>7. Legal
    BY <1>3, <1>4, <1>5, <1>6
    DEF GradingNext, ConsumerStep, ConsumerFault, ToolStep, ToolFault, Graders
  <1> QED BY <1>7

LEMMA GradingStepRefines ==
  ASSUME PipelineInv, GradingNext, UNCHANGED delivery
  PROVE  Contract!Next \/ UNCHANGED Phases
  <1>1. GWTypeOK /\ GradingInv
    BY DEF PipelineInv, PipelineTypeOK, GWTypeOK
  <1>2. PICK w \in Graders : RowWrites(w)
    BY <1>1, GradingWrites
  <1>3. backup' = backup
    BY <1>2 DEF RowWrites
  <1>4. ASSUME NEW u \in Sessions, grade'[u] = grade[u], u \in skipped <=> u \in skipped'
        PROVE  StatusView(u)' = StatusView(u)
    BY <1>3, <1>4 DEF StatusView, InferredStatus
  <1>5. CASE job[w] \notin Sessions
    BY <1>2, <1>4, <1>5 DEF RowWrites, Phases
  <1>6. ASSUME NEW s \in Sessions, job[w] = s PROVE Contract!Next \/ UNCHANGED Phases
    <2>1. \A u \in Sessions \ {s} : StatusView(u)' = StatusView(u)
      BY <1>2, <1>4, <1>6 DEF RowWrites
    <2>2. CASE grade'[s] = grade[s] /\ grade[s] = "none"
      <3>1. StatusView(s) \in Contract!Waiting /\ StatusView(s)' \in Contract!Waiting
        BY <2>2 DEF StatusView, InferredStatus, Contract!Waiting
      <3> QED BY <2>1, <3>1, MoveIsContractStep
    <2>3. CASE grade'[s] = grade[s] /\ grade[s] # "none"
      <3>1. StatusView(s)' = StatusView(s)
        BY <2>3 DEF StatusView
      <3> QED BY <2>1, <3>1 DEF Phases
    <2>4. CASE grade'[s] # grade[s]
      <3>1. \/ grade'[s] \in {"processing", "failed"} /\ grade[s] # "graded"
            \/ grade'[s] = "graded" /\ grade[s] \in {"processing", "failed"}
        BY <1>1, <2>4, GradingRowStep
      <3>2. grade[s] \in {"none", "processing", "failed", "graded"}
        BY <1>1 DEF GWTypeOK, GradingTypeOK
      <3>3. /\ grade[s] = "none" => StatusView(s) \in Contract!Waiting
            /\ grade[s] # "none" => StatusView(s) = grade[s]
            /\ grade'[s] # "none" => StatusView(s)' = grade'[s]
        BY DEF StatusView, InferredStatus, Contract!Waiting
      <3>4. \/ /\ StatusView(s) \in Contract!Waiting \union {"failed", "processing"}
               /\ StatusView(s)' \in {"processing", "failed"}
            \/ StatusView(s) \in {"processing", "failed"} /\ StatusView(s)' = "graded"
        BY <3>1, <3>2, <3>3
      <3> QED BY <2>1, <3>4, MoveIsContractStep
    <2> QED BY <2>2, <2>3, <2>4
  <1> QED BY <1>5, <1>6

(* What a polling client sees of the pipeline implements GradingContract.  *)
THEOREM PipelineImplementsContract == PipelineSpec => ContractSpec
  <1>1. PipelineInit => Contract!Init
    BY DEF PipelineInit, TablesInit, GradingInit, StatusView, InferredStatus, Contract!Init
  <1>2. PipelineInv /\ [PipelineNext]_pipelineVars => [Contract!Next]_Phases
    <2> SUFFICES ASSUME PipelineInv, [PipelineNext]_pipelineVars
                 PROVE  Contract!Next \/ UNCHANGED Phases
      OBVIOUS
    <2>1. CASE DeliveryNext /\ UNCHANGED grading
      BY <2>1, DeliveryStepRefines
    <2>2. CASE GradingNext /\ UNCHANGED delivery
      BY <2>2, GradingStepRefines
    <2>3. CASE (\E s \in Sessions : SoftDelete(s)) \/ UNCHANGED pipelineVars
      BY <2>3 DEF SoftDelete, pipelineVars, tables, grading, Phases, StatusView, InferredStatus
    <2> QED BY <2>1, <2>2, <2>3 DEF PipelineNext
  <1> QED
    BY <1>1, <1>2, PipelineInvariant, PTL DEF PipelineSpec, ContractSpec, Contract!Spec, Phases
=============================================================================
