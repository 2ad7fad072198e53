--------------------------- MODULE GradingPipeline ---------------------------
(***************************************************************************)
(* Completion and grading together: the gateway and the relay of           *)
(* CompletionDelivery feed the queue that the consumers of GradingWorker   *)
(* drain, the repair tools read the rows the gateway commits, and a client *)
(* polls the status that session_service.get_session_grading_status        *)
(* computes from all of it.                                                *)
(***************************************************************************)
EXTENDS CompletionDelivery, GradingWorker

pipelineVars == <<tables, delivery, grading>>

PipelineInit == TablesInit /\ DeliveryInit /\ GradingInit

PipelineNext ==
    \/ DeliveryNext /\ UNCHANGED grading
    \/ GradingNext /\ UNCHANGED delivery
    \/ (\E s \in Sessions : SoftDelete(s)) /\ UNCHANGED delivery

PipelineFairness ==
    /\ \A h \in Handlers : WF_pipelineVars(HandlerStep(h) /\ UNCHANGED grading)
    /\ \A r \in Relays : WF_pipelineVars(RelayStep(r) /\ UNCHANGED grading)
    /\ \A c \in Consumers : WF_pipelineVars(ConsumerStep(c) /\ UNCHANGED delivery)

PipelineSpec == PipelineInit /\ [][PipelineNext]_pipelineVars /\ PipelineFairness

-----------------------------------------------------------------------------
(* The status the API infers without a grading row: its own word count of  *)
(* the stored transcript decides, unless a skip is logged.                 *)
InferredStatus(s) ==
    IF s \in skipped \/ backup[s] = "short" THEN "insufficient_evidence" ELSE "pending"

StatusView(s) == IF grade[s] = "none" THEN InferredStatus(s) ELSE grade[s]

-----------------------------------------------------------------------------
PipelineTypeOK == TablesTypeOK /\ DeliveryTypeOK /\ GradingTypeOK

(* Nothing is graded, failed or skipped before the session's completion is *)
(* committed: a message never overtakes the transaction it announces.      *)
NoOutcomeBeforeCompletion ==
    \A s \in Sessions :
        grade[s] # "none" \/ s \in skipped => Committed(s) /\ outbox[s] # "none"

(* From the commit on, every completion is accounted for: its outbox row   *)
(* can still be relayed or shows that it was given up, a message is on its *)
(* way or being handled, or an outcome is recorded.                        *)
EveryCompletionAccounted ==
    \A s \in Sessions \ deleted :
        Committed(s) =>
            \/ outbox[s] = "pending"
            \/ outbox[s] = "failed" /\ attempts[s] = RelayMaxAttempts
            \/ Unacknowledged(s)
            \/ grade[s] # "none" \/ s \in skipped

(* What the polling client sees implements the contract.                   *)
Contract == INSTANCE GradingContract WITH phase <- [s \in Sessions |-> StatusView(s)]

ContractSpec == Contract!Spec

=============================================================================
