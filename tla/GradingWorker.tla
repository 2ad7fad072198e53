---------------------------- MODULE GradingWorker ----------------------------
(***************************************************************************)
(* The grading worker (worker.py) and the two repair scripts that call the *)
(* same process_session_completed_job: reconciliation_scanner.py and       *)
(* backfill_completed_sessions.py.  Every database call of the job is a    *)
(* transaction of its own, so the graders interleave between the calls.    *)
(***************************************************************************)
EXTENDS SessionTables, FiniteSets

CONSTANTS
    Consumers,      \* worker processes consuming the queue, one job at a time
    Tools,          \* running scanner or backfill processes
    MaxAttempts,    \* GRADING_MAX_ATTEMPTS
    Provider,       \* GRADING_PROVIDER: "fake" or "llm"
    FakeFallback,   \* GRADING_FAKE_FALLBACK
    NoJob           \* what an idle grader works on

Graders == Consumers \union Tools

ASSUME WorkerAssumption ==
    /\ Consumers \intersect Tools = {}
    /\ MaxAttempts \in Nat \ {0}
    /\ Provider \in {"fake", "llm"}
    /\ FakeFallback \in BOOLEAN
    /\ NoJob \notin Messages

VARIABLES
    wpc,        \* where each grader is in the job
    job,        \* the message or session it works on
    attempt,    \* the consumer's attempt number
    held,       \* the consumer's message is still unacknowledged in its channel
    batch,      \* candidates a tool has yet to process
    grade,      \* GRADING_RESULTS.status, "none" without a row
    skipped,    \* sessions with a GRADING_SKIP_LOG row
    upserts,    \* history: how often a result was stored
    dead        \* messages in the dead-letter queue

grading == <<wpc, job, attempt, held, batch, grade, skipped, upserts, dead>>
gradingVars == <<tables, grading>>

GradingInit ==
    /\ wpc = [w \in Graders |-> "idle"]
    /\ job = [w \in Graders |-> NoJob]
    /\ attempt = [w \in Graders |-> 1]
    /\ held = [w \in Graders |-> FALSE]
    /\ batch = [t \in Tools |-> {}]
    /\ grade = [s \in Sessions |-> "none"]
    /\ skipped = {}
    /\ upserts = [s \in Sessions |-> 0]
    /\ dead = 0

GradingTypeOK ==
    /\ wpc \in [Graders -> {"idle", "fetch", "skip", "mark", "grade", "upsert",
                            "markFailed", "giveUp", "done"}]
    /\ job \in [Graders -> Messages \union {NoJob}]
    /\ attempt \in [Graders -> 1 .. MaxAttempts]
    /\ held \in [Graders -> BOOLEAN]
    /\ batch \in [Tools -> SUBSET Sessions]
    /\ grade \in [Sessions -> {"none", "processing", "failed", "graded"}]
    /\ skipped \in SUBSET Sessions
    /\ upserts \in [Sessions -> Nat]
    /\ dead \in Nat

-----------------------------------------------------------------------------
(***************************************************************************)
(* The statements of grading_repository.py.  A row that is "graded" is     *)
(* left alone by the first two.                                            *)
(***************************************************************************)
(* Mutants: the WHERE clause on the status is missing.                     *)
MarkProcessingAlways(s) == grade' = [grade EXCEPT ![s] = "processing"]

MarkFailedAlways(s) == grade' = [grade EXCEPT ![s] = "failed"]

MarkProcessing(s) ==
    grade' = [grade EXCEPT ![s] = IF @ = "graded" THEN @ ELSE "processing"]

MarkFailed(s) ==
    grade' = [grade EXCEPT ![s] = IF @ = "graded" THEN @ ELSE "failed"]

UpsertResult(s) ==
    /\ grade' = [grade EXCEPT ![s] = "graded"]
    /\ upserts' = [upserts EXCEPT ![s] = @ + 1]

(***************************************************************************)
(* How a job ends for the grader that runs it.                             *)
(***************************************************************************)
GoTo(w, label) == wpc' = [wpc EXCEPT ![w] = label]

Idle(w) ==
    /\ wpc' = [wpc EXCEPT ![w] = "idle"]
    /\ job' = [job EXCEPT ![w] = NoJob]
    /\ attempt' = [attempt EXCEPT ![w] = 1]
    /\ held' = [held EXCEPT ![w] = FALSE]

(* A requeue reaches the broker only over the channel of the delivery.     *)
Requeue(w) == queue' = [queue EXCEPT ![job[w]] = IF held[w] THEN @ + 1 ELSE @]

(* An exception leaves the job: a consumer tries again until its attempts  *)
(* are used up, a tool counts an error and goes on to the next candidate.  *)
Raise(w) ==
    IF w \in Consumers /\ attempt[w] < MaxAttempts
    THEN /\ attempt' = [attempt EXCEPT ![w] = @ + 1]
         /\ GoTo(w, "fetch")
    ELSE /\ GoTo(w, IF w \in Consumers THEN "giveUp" ELSE "done")
         /\ UNCHANGED attempt

-----------------------------------------------------------------------------
(***************************************************************************)
(* process_session_completed_job, one step per awaited call.               *)
(***************************************************************************)
(* Mutant: the eligibility gate is missing.                                *)
FetchUngated(w) ==
    /\ wpc[w] = "fetch"
    /\ job[w] \in Sessions
    /\ GoTo(w, IF job[w] \in deleted THEN "done" ELSE "mark")
    /\ UNCHANGED <<tables, job, attempt, held, batch, grade, skipped, upserts, dead>>

Fetch(w) ==
    /\ wpc[w] = "fetch"
    /\ job[w] \in Sessions
    /\ GoTo(w, IF job[w] \in deleted THEN "done"
               ELSE IF Eligible(backup[job[w]]) THEN "mark" ELSE "skip")
    /\ UNCHANGED <<tables, job, attempt, held, batch, grade, skipped, upserts, dead>>

(* Mutant: the skip is logged but not stored.                              *)
LogSkipOnly(w) ==
    /\ wpc[w] = "skip"
    /\ GoTo(w, "done")
    /\ UNCHANGED <<tables, job, attempt, held, batch, grade, skipped, upserts, dead>>

LogSkip(w) ==
    /\ wpc[w] = "skip"
    /\ skipped' = skipped \union {job[w]}
    /\ GoTo(w, "done")
    /\ UNCHANGED <<tables, job, attempt, held, batch, grade, upserts, dead>>

(* Mutant: the answer of mark_grading_processing is ignored.               *)
MarkIgnored(w) ==
    /\ wpc[w] = "mark"
    /\ MarkProcessing(job[w])
    /\ GoTo(w, "grade")
    /\ UNCHANGED <<tables, job, attempt, held, batch, skipped, upserts, dead>>

(* mark_grading_processing reports that the session is graded already.     *)
Mark(w) ==
    /\ wpc[w] = "mark"
    /\ MarkProcessing(job[w])
    /\ GoTo(w, IF grade[job[w]] = "graded" THEN "done" ELSE "grade")
    /\ UNCHANGED <<tables, job, attempt, held, batch, skipped, upserts, dead>>

(* The grader call returns: a result, or a failure that no fallback hides. *)
Grade(w) ==
    /\ wpc[w] = "grade"
    /\ GoTo(w, "upsert")
    /\ UNCHANGED <<tables, job, attempt, held, batch, grade, skipped, upserts, dead>>

GradeFails(w) ==
    /\ wpc[w] = "grade"
    /\ Provider = "llm" /\ ~FakeFallback
    /\ GoTo(w, "markFailed")
    /\ UNCHANGED <<tables, job, attempt, held, batch, grade, skipped, upserts, dead>>

RecordFailure(w) ==
    /\ wpc[w] = "markFailed"
    /\ MarkFailed(job[w])
    /\ Raise(w)
    /\ UNCHANGED <<tables, job, held, batch, skipped, upserts, dead>>

(* Its own failure is swallowed; the LLM's exception is raised either way. *)
RecordFailureFails(w) ==
    /\ wpc[w] = "markFailed"
    /\ Fault
    /\ MarkFailed(job[w]) \/ UNCHANGED grade
    /\ Raise(w)
    /\ UNCHANGED <<status, backup, deleted, queue, accepted, job, held, batch,
                   skipped, upserts, dead>>

Upsert(w) ==
    /\ wpc[w] = "upsert"
    /\ UpsertResult(job[w])
    /\ GoTo(w, "done")
    /\ UNCHANGED <<tables, job, attempt, held, batch, skipped, dead>>

(* A database call raises, having taken effect or not.                     *)
CallFails(w) ==
    /\ wpc[w] \in {"fetch", "skip", "mark", "upsert"}
    /\ job[w] \in Sessions
    /\ Fault
    /\ \/ UNCHANGED <<grade, skipped, upserts>>
       \/ /\ wpc[w] = "skip"
          /\ skipped' = skipped \union {job[w]}
          /\ UNCHANGED <<grade, upserts>>
       \/ /\ wpc[w] = "mark"
          /\ MarkProcessing(job[w])
          /\ UNCHANGED <<skipped, upserts>>
       \/ /\ wpc[w] = "upsert"
          /\ UpsertResult(job[w])
          /\ UNCHANGED skipped
    /\ Raise(w)
    /\ UNCHANGED <<status, backup, deleted, queue, accepted, job, held, batch, dead>>

-----------------------------------------------------------------------------
(***************************************************************************)
(* The consumer: consume_forever, _handle_queue_message and                *)
(* _process_payload_with_retries.                                          *)
(***************************************************************************)
Deliver(c, m) ==
    /\ wpc[c] = "idle"
    /\ queue[m] > 0
    /\ queue' = [queue EXCEPT ![m] = @ - 1]
    /\ job' = [job EXCEPT ![c] = m]
    /\ held' = [held EXCEPT ![c] = TRUE]
    /\ GoTo(c, "fetch")
    /\ UNCHANGED <<status, backup, deleted, accepted, faults, attempt, batch,
                   grade, skipped, upserts, dead>>

(* A body that is no valid job is rejected and dead-lettered.              *)
Reject(c) ==
    /\ wpc[c] = "fetch"
    /\ job[c] = Poison
    /\ dead' = IF held[c] THEN dead + 1 ELSE dead
    /\ Idle(c)
    /\ UNCHANGED <<tables, batch, grade, skipped, upserts>>

(* Mutant: the job ends without a record of its failure.                   *)
GiveUpSilently(c) ==
    /\ wpc[c] = "giveUp"
    /\ GoTo(c, "done")
    /\ UNCHANGED <<tables, job, attempt, held, batch, grade, skipped, upserts, dead>>

(* The attempts are used up: the failure is recorded and the job ends.     *)
GiveUp(c) ==
    /\ wpc[c] = "giveUp"
    /\ MarkFailed(job[c])
    /\ GoTo(c, "done")
    /\ UNCHANGED <<tables, job, attempt, held, batch, skipped, upserts, dead>>

(* Not even the failure can be recorded: the message goes back.            *)
GiveUpFails(c) ==
    /\ wpc[c] = "giveUp"
    /\ Fault
    /\ MarkFailed(job[c]) \/ UNCHANGED grade
    /\ Requeue(c)
    /\ Idle(c)
    /\ UNCHANGED <<status, backup, deleted, accepted, batch, skipped, upserts, dead>>

(* The job is over.  A consumer acknowledges; if its connection was lost   *)
(* the acknowledgement raises and the process is restarted instead.        *)
Finish(w) ==
    /\ wpc[w] = "done"
    /\ Idle(w)
    /\ UNCHANGED <<tables, batch, grade, skipped, upserts, dead>>

(* The broker sees the connection drop and requeues the message, while the *)
(* handler of it goes on.                                                  *)
ConnectionLost(c) ==
    /\ held[c]
    /\ Fault
    /\ Requeue(c)
    /\ held' = [held EXCEPT ![c] = FALSE]
    /\ UNCHANGED <<status, backup, deleted, accepted, wpc, job, attempt, batch,
                   grade, skipped, upserts, dead>>

ConsumerCrash(c) ==
    /\ wpc[c] # "idle"
    /\ Fault
    /\ Requeue(c)
    /\ Idle(c)
    /\ UNCHANGED <<status, backup, deleted, accepted, batch, grade, skipped, upserts, dead>>

-----------------------------------------------------------------------------
(***************************************************************************)
(* The repair tools.  The candidate query runs once; each candidate is     *)
(* then processed from that snapshot.  The grace window and the limit make *)
(* the batch an arbitrary part of the candidates.                          *)
(***************************************************************************)
Candidates ==
    {s \in Sessions \ deleted :
        /\ status[s] = "completed"
        /\ grade[s] \in {"none", "failed"}
        /\ Eligible(backup[s])}

Scan(t) ==
    /\ wpc[t] = "idle" /\ batch[t] = {}
    /\ \E found \in SUBSET Candidates \ {{}} : batch' = [batch EXCEPT ![t] = found]
    /\ UNCHANGED <<tables, wpc, job, attempt, held, grade, skipped, upserts, dead>>

ProcessCandidate(t) ==
    /\ wpc[t] = "idle"
    /\ \E s \in batch[t] :
        /\ job' = [job EXCEPT ![t] = s]
        /\ batch' = [batch EXCEPT ![t] = @ \ {s}]
    /\ GoTo(t, "fetch")
    /\ UNCHANGED <<tables, attempt, held, grade, skipped, upserts, dead>>

ToolCrash(t) ==
    /\ wpc[t] # "idle" \/ batch[t] # {}
    /\ Fault
    /\ Idle(t)
    /\ batch' = [batch EXCEPT ![t] = {}]
    /\ UNCHANGED <<status, backup, deleted, queue, accepted, grade, skipped, upserts, dead>>

-----------------------------------------------------------------------------
JobStep(w) ==
    \/ Fetch(w)
    \/ LogSkip(w)
    \/ Mark(w)
    \/ Grade(w)
    \/ GradeFails(w)
    \/ RecordFailure(w)
    \/ Upsert(w)
    \/ Finish(w)

JobFault(w) == RecordFailureFails(w) \/ CallFails(w)

ConsumerStep(c) ==
    \/ JobStep(c)
    \/ \E m \in Messages : Deliver(c, m)
    \/ Reject(c)
    \/ GiveUp(c)

ConsumerFault(c) ==
    \/ JobFault(c)
    \/ GiveUpFails(c)
    \/ ConnectionLost(c)
    \/ ConsumerCrash(c)

ToolStep(t) == JobStep(t) \/ Scan(t) \/ ProcessCandidate(t)

ToolFault(t) == JobFault(t) \/ ToolCrash(t)

GradingNext ==
    \/ \E c \in Consumers : ConsumerStep(c) \/ ConsumerFault(c)
    \/ \E t \in Tools : ToolStep(t) \/ ToolFault(t)

(***************************************************************************)
(* The component alone.  Its environment completes a session and publishes *)
(* it, possibly more than once; a message that is no job may be published, *)
(* and an operator may soft-delete a session.                              *)
(***************************************************************************)
CONSTANT MaxCopies  \* bound on the messages published for one session

Complete(s) ==
    /\ status[s] = "streaming"
    /\ status' = [status EXCEPT ![s] = "completed"]
    /\ \E b \in Transcripts : backup' = [backup EXCEPT ![s] = b]
    /\ UNCHANGED <<deleted, queue, accepted, faults, grading>>

Published(s) ==
    /\ Committed(s)
    /\ queue[s] < MaxCopies
    /\ Enqueue(s)
    /\ UNCHANGED <<status, backup, deleted, faults, grading>>

PublishPoison ==
    /\ Fault
    /\ queue' = [queue EXCEPT ![Poison] = @ + 1]
    /\ UNCHANGED <<status, backup, deleted, accepted, grading>>

SoftDelete(s) ==
    /\ s \notin deleted
    /\ deleted' = deleted \union {s}
    /\ UNCHANGED <<status, backup, queue, accepted, faults, grading>>

GWInit == TablesInit /\ GradingInit

GWNext ==
    \/ GradingNext
    \/ \E s \in Sessions : Complete(s) \/ Published(s) \/ SoftDelete(s)
    \/ PublishPoison

(* The consumer is a loop that takes the next message as soon as it is     *)
(* done, and the broker's queue is first in, first out: no message is      *)
(* passed over for ever.  Nobody has to run a repair tool.                 *)
GradingFairness ==
    \A c \in Consumers :
        /\ WF_gradingVars(ConsumerStep(c))
        /\ \A m \in Messages : SF_gradingVars(Deliver(c, m))

GWSpec == GWInit /\ [][GWNext]_gradingVars /\ GradingFairness

-----------------------------------------------------------------------------
(***************************************************************************)
(* Properties.                                                             *)
(***************************************************************************)

GWTypeOK == TablesTypeOK /\ GradingTypeOK

WorkedOn(s) == \E w \in Graders : job[w] = s

Unacknowledged(s) == queue[s] > 0 \/ \E c \in Consumers : job[c] = s /\ held[c]

Settled(s) == grade[s] \in {"graded", "failed"} \/ s \in skipped

(* A message leaves the queue for good only after the worker has recorded  *)
(* something about its session, whatever call failed and whoever crashed.  *)
NothingDropped ==
    \A s \in accepted \ deleted :
        Unacknowledged(s) \/ grade[s] # "none" \/ s \in skipped

(* A result is final: no late failure, retry or second grader takes the    *)
(* row out of "graded".                                                    *)
GradedFinal ==
    [][\A s \in Sessions : grade[s] = "graded" => grade'[s] = "graded"]_grade

(* Work is spent and results are stored only for sessions with a committed *)
(* transcript that carries enough evidence.                                *)
OnlyEvidenceGraded ==
    \A s \in Sessions :
        grade[s] \in {"processing", "graded"} =>
            Eligible(backup[s]) /\ s \notin skipped

(* README: "grading is idempotent (deduped on session_id)": however often  *)
(* its message is delivered, one result is stored for a session.           *)
GradedOnce == \A s \in Sessions : upserts[s] <= 1

(* A lone worker never leaves a row in "processing" that it neither works  *)
(* on nor will be told of again, unless it has logged a skip: a second     *)
(* completion may replace the transcript between two attempts.             *)
ProcessingOwned ==
    \A s \in Sessions \ deleted :
        grade[s] = "processing" => Unacknowledged(s) \/ WorkedOn(s) \/ s \in skipped

(* Every published session is settled in the end, poison messages and      *)
(* bounded failures notwithstanding.                                       *)
EventuallySettled ==
    \A s \in Sessions : s \in accepted ~> (Settled(s) \/ s \in deleted)
=============================================================================
