------------------------- MODULE GradingWorker_proofs -------------------------
(***************************************************************************)
(* Safety of GradingWorker for any number of sessions, consumers and       *)
(* repair tools.  The lemmas about GradingNext do not depend on the        *)
(* environment, so the pipeline's proofs use them as well.                 *)
(***************************************************************************)
EXTENDS GradingWorker, TLAPS

(* What each grader works on, and that only consumers hold messages.       *)
JobInv ==
    \A w \in Graders :
        /\ wpc[w] = "idle" => job[w] = NoJob /\ ~held[w]
        /\ wpc[w] = "fetch" => job[w] \in Messages
        /\ wpc[w] \notin {"idle", "fetch"} => job[w] \in Sessions
        /\ w \in Tools => ~held[w] /\ job[w] # Poison

(* Graders are busy with, and rows exist for, completed sessions only.     *)
SourceInv ==
    /\ \A s \in Sessions :
        /\ s \in accepted => backup[s] # "none"
        /\ queue[s] > 0 => s \in accepted
        /\ grade[s] # "none" \/ s \in skipped => backup[s] # "none"
    /\ \A c \in Consumers : job[c] \in Sessions => job[c] \in accepted
    /\ \A t \in Tools :
        /\ job[t] \in Sessions => backup[job[t]] # "none"
        /\ \A s \in batch[t] : backup[s] # "none"

(* A grader past mark_grading_processing works on an existing row, and     *)
(* only a session with a stored result is "graded" when it is marked.      *)
RowExistsInv ==
    \A w \in Graders :
        wpc[w] \in {"grade", "upsert", "markFailed"} => grade[job[w]] # "none"

(* A consumer is done with a session only when something is recorded.      *)
RecordedInv ==
    /\ \A c \in Consumers :
        wpc[c] = "done" =>
            job[c] \in deleted \/ grade[job[c]] # "none" \/ job[c] \in skipped
    /\ NothingDropped

GradingInv == JobInv /\ SourceInv /\ RowExistsInv /\ RecordedInv

-----------------------------------------------------------------------------
LEMMA GradingInitType == TablesInit /\ GradingInit => GWTypeOK
  BY TablesAssumption, WorkerAssumption
  DEF GWTypeOK, TablesInit, TablesTypeOK, Messages, Transcripts, GradingInit, GradingTypeOK

LEMMA GradingInitInv == TablesInit /\ GradingInit => GradingInv
  BY TablesAssumption, WorkerAssumption
  DEF TablesInit, GradingInit, Messages, GradingInv, JobInv, SourceInv, RowExistsInv,
      RecordedInv, NothingDropped, Graders

(* Counters stay natural numbers.                                          *)
LEMMA IncrementType ==
  ASSUME NEW S, NEW f \in [S -> Nat], NEW x
  PROVE  [f EXCEPT ![x] = @ + 1] \in [S -> Nat]
  <1>1. ASSUME NEW y \in S PROVE [f EXCEPT ![x] = @ + 1][y] \in Nat
    <2>1. CASE y = x
      BY <2>1
    <2>2. CASE y # x
      BY <2>2
    <2> QED BY <2>1, <2>2
  <1> QED BY <1>1

(* Raising an exception changes only where the grader is.                  *)
LEMMA RaiseType ==
  ASSUME GWTypeOK, NEW w \in Graders, Raise(w)
  PROVE  /\ attempt' \in [Graders -> 1 .. MaxAttempts]
         /\ \E label \in {"fetch", "giveUp", "done"} :
              /\ wpc' = [wpc EXCEPT ![w] = label]
              /\ label = "done" => w \notin Consumers
  BY WorkerAssumption DEF Raise, GoTo, GWTypeOK, GradingTypeOK

(* So does the end of a job, and a requeue changes only the queue.         *)
LEMMA IdleType ==
  ASSUME GWTypeOK, NEW w \in Graders, Idle(w)
  PROVE  /\ wpc' \in [Graders -> {"idle", "fetch", "skip", "mark", "grade", "upsert",
                                  "markFailed", "giveUp", "done"}]
         /\ job' \in [Graders -> Messages \union {NoJob}]
         /\ attempt' \in [Graders -> 1 .. MaxAttempts]
         /\ held' \in [Graders -> BOOLEAN]
  BY WorkerAssumption DEF Idle, GWTypeOK, GradingTypeOK

LEMMA RequeueType ==
  ASSUME GWTypeOK, NEW w \in Graders, Requeue(w)
  PROVE  queue' \in [Messages -> Nat]
  <1>1. CASE held[w]
    <2>1. queue' = [queue EXCEPT ![job[w]] = @ + 1]
      BY <1>1 DEF Requeue
    <2> QED BY <2>1, IncrementType DEF GWTypeOK, TablesTypeOK
  <1>2. CASE ~held[w]
    <2>1. queue' = [queue EXCEPT ![job[w]] = @]
      BY <1>2 DEF Requeue
    <2> QED BY <2>1 DEF GWTypeOK, TablesTypeOK
  <1> QED BY <1>1, <1>2

LEMMA GradingKeepsType ==
  ASSUME GWTypeOK, GradingInv, GradingNext
  PROVE  GWTypeOK'
  <1> USE TablesAssumption, WorkerAssumption DEF GWTypeOK, TablesTypeOK, GradingTypeOK
  <1>1. ASSUME NEW w \in Graders, JobStep(w) PROVE GWTypeOK'
    <2>1. CASE Fetch(w)
      BY <2>1 DEF Fetch, GoTo, tables
    <2>2. CASE LogSkip(w)
      BY <2>2 DEF LogSkip, GoTo, tables, GradingInv, JobInv
    <2>3. CASE Mark(w)
      BY <2>3 DEF Mark, MarkProcessing, GoTo, tables
    <2>4. CASE Grade(w)
      BY <2>4 DEF Grade, GoTo, tables
    <2>5. CASE GradeFails(w)
      BY <2>5 DEF GradeFails, GoTo, tables
    <2>6. CASE RecordFailure(w)
      BY <2>6, RaiseType DEF RecordFailure, MarkFailed, tables
    <2>7. CASE Upsert(w)
      <3>1. grade' \in [Sessions -> {"none", "processing", "failed", "graded"}]
        BY <2>7 DEF Upsert, UpsertResult
      <3>2. upserts' \in [Sessions -> Nat]
        BY <2>7, IncrementType DEF Upsert, UpsertResult
      <3>3. wpc' \in [Graders -> {"idle", "fetch", "skip", "mark", "grade", "upsert",
                                  "markFailed", "giveUp", "done"}]
        BY <2>7 DEF Upsert, GoTo
      <3> QED BY <2>7, <3>1, <3>2, <3>3 DEF Upsert, tables
    <2>8. CASE Finish(w)
      BY <2>8 DEF Finish, Idle, tables
    <2> QED BY <1>1, <2>1, <2>2, <2>3, <2>4, <2>5, <2>6, <2>7, <2>8 DEF JobStep
  <1>2. ASSUME NEW w \in Graders, JobFault(w) PROVE GWTypeOK'
    <2>1. CASE RecordFailureFails(w)
      BY <2>1, RaiseType DEF RecordFailureFails, MarkFailed, Fault
    <2>2. CASE CallFails(w)
      <3>1. /\ grade' \in [Sessions -> {"none", "processing", "failed", "graded"}]
            /\ skipped' \in SUBSET Sessions
            /\ upserts' \in [Sessions -> Nat]
        BY <2>2 DEF CallFails, MarkProcessing, UpsertResult
      <3>2. /\ wpc' \in [Graders -> {"idle", "fetch", "skip", "mark", "grade", "upsert",
                            "markFailed", "giveUp", "done"}]
            /\ attempt' \in [Graders -> 1 .. MaxAttempts]
        BY <2>2, RaiseType DEF CallFails
      <3> QED BY <2>2, <3>1, <3>2 DEF CallFails, Fault
    <2> QED BY <1>2, <2>1, <2>2 DEF JobFault
  <1>3. ASSUME NEW c \in Consumers,
               \/ \E m \in Messages : Deliver(c, m)
               \/ Reject(c) \/ GiveUp(c) \/ GiveUpFails(c)
               \/ ConnectionLost(c) \/ ConsumerCrash(c)
        PROVE  GWTypeOK'
    <2> c \in Graders
      BY DEF Graders
    <2>1. ASSUME NEW m \in Messages, Deliver(c, m) PROVE GWTypeOK'
      BY <2>1 DEF Deliver, GoTo
    <2>2. CASE Reject(c)
      BY <2>2 DEF Reject, Idle, tables
    <2>3. CASE GiveUp(c)
      BY <2>3 DEF GiveUp, MarkFailed, GoTo, tables
    <2>4. CASE GiveUpFails(c)
      <3>1. queue' \in [Messages -> Nat]
        BY <2>4, RequeueType DEF GiveUpFails
      <3>2. grade' \in [Sessions -> {"none", "processing", "failed", "graded"}]
        BY <2>4 DEF GiveUpFails, MarkFailed
      <3>3. /\ wpc' \in [Graders -> {"idle", "fetch", "skip", "mark", "grade", "upsert",
                                     "markFailed", "giveUp", "done"}]
            /\ job' \in [Graders -> Messages \union {NoJob}]
            /\ attempt' \in [Graders -> 1 .. MaxAttempts]
            /\ held' \in [Graders -> BOOLEAN]
        BY <2>4, IdleType DEF GiveUpFails
      <3> QED BY <2>4, <3>1, <3>2, <3>3 DEF GiveUpFails, Fault
    <2>5. CASE ConnectionLost(c)
      <3>1. queue' \in [Messages -> Nat]
        BY <2>5, RequeueType DEF ConnectionLost
      <3>2. held' \in [Graders -> BOOLEAN]
        BY <2>5 DEF ConnectionLost
      <3> QED BY <2>5, <3>1, <3>2 DEF ConnectionLost, Fault
    <2>6. CASE ConsumerCrash(c)
      <3>1. queue' \in [Messages -> Nat]
        BY <2>6, RequeueType DEF ConsumerCrash
      <3>2. /\ wpc' \in [Graders -> {"idle", "fetch", "skip", "mark", "grade", "upsert",
                                     "markFailed", "giveUp", "done"}]
            /\ job' \in [Graders -> Messages \union {NoJob}]
            /\ attempt' \in [Graders -> 1 .. MaxAttempts]
            /\ held' \in [Graders -> BOOLEAN]
        BY <2>6, IdleType DEF ConsumerCrash
      <3> QED BY <2>6, <3>1, <3>2 DEF ConsumerCrash, Fault
    <2> QED BY <1>3, <2>1, <2>2, <2>3, <2>4, <2>5, <2>6
  <1>4. ASSUME NEW t \in Tools, Scan(t) \/ ProcessCandidate(t) \/ ToolCrash(t)
        PROVE  GWTypeOK'
    <2> t \in Graders
      BY DEF Graders
    <2>1. CASE Scan(t)
      BY <2>1 DEF Scan, Candidates, tables
    <2>2. CASE ProcessCandidate(t)
      BY <2>2 DEF ProcessCandidate, GoTo, Messages, tables
    <2>3. CASE ToolCrash(t)
      BY <2>3 DEF ToolCrash, Idle, Fault
    <2> QED BY <1>4, <2>1, <2>2, <2>3
  <1> QED
    BY <1>1, <1>2, <1>3, <1>4
    DEF GradingNext, ConsumerStep, ConsumerFault, ToolStep, ToolFault, Graders
-----------------------------------------------------------------------------
(* The invariant is kept, one lemma for each part.                         *)
LEMMA GradingKeepsJobInv ==
  ASSUME GWTypeOK, GradingInv, GradingNext
  PROVE  JobInv'
  <1> USE TablesAssumption, WorkerAssumption
          DEF GWTypeOK, TablesTypeOK, GradingTypeOK, GradingInv, JobInv, Graders, GoTo, Messages
  <1>1. ASSUME NEW w \in Graders, JobStep(w) PROVE JobInv'
    <2>1. CASE Fetch(w) \/ LogSkip(w) \/ Mark(w) \/ Grade(w) \/ GradeFails(w)
      BY <2>1 DEF Fetch, LogSkip, Mark, Grade, GradeFails
    <2>2. CASE RecordFailure(w)
      BY <2>2 DEF RecordFailure, Raise
    <2>3. CASE Upsert(w)
      BY <2>3 DEF Upsert
    <2>4. CASE Finish(w)
      BY <2>4 DEF Finish, Idle
    <2> QED BY <1>1, <2>1, <2>2, <2>3, <2>4 DEF JobStep
  <1>2. ASSUME NEW w \in Graders, JobFault(w) PROVE JobInv'
    <2>1. CASE RecordFailureFails(w)
      BY <2>1 DEF RecordFailureFails, Raise
    <2>2. CASE CallFails(w)
      BY <2>2 DEF CallFails, Raise
    <2> QED BY <1>2, <2>1, <2>2 DEF JobFault
  <1>3. ASSUME NEW c \in Consumers,
               \/ \E m \in Messages : Deliver(c, m)
               \/ Reject(c) \/ GiveUp(c) \/ GiveUpFails(c)
               \/ ConnectionLost(c) \/ ConsumerCrash(c)
        PROVE  JobInv'
    <2>1. ASSUME NEW m \in Messages, Deliver(c, m) PROVE JobInv'
      BY <2>1 DEF Deliver
    <2>2. CASE Reject(c) \/ GiveUpFails(c) \/ ConsumerCrash(c)
      BY <2>2 DEF Reject, GiveUpFails, ConsumerCrash, Idle
    <2>3. CASE GiveUp(c)
      BY <2>3 DEF GiveUp
    <2>4. CASE ConnectionLost(c)
      BY <2>4 DEF ConnectionLost
    <2> QED BY <1>3, <2>1, <2>2, <2>3, <2>4
  <1>4. ASSUME NEW t \in Tools, Scan(t) \/ ProcessCandidate(t) \/ ToolCrash(t)
        PROVE  JobInv'
    <2>1. CASE Scan(t)
      BY <2>1 DEF Scan
    <2>2. CASE ProcessCandidate(t)
      BY <2>2 DEF ProcessCandidate
    <2>3. CASE ToolCrash(t)
      BY <2>3 DEF ToolCrash, Idle
    <2> QED BY <1>4, <2>1, <2>2, <2>3
  <1> QED
    BY <1>1, <1>2, <1>3, <1>4
    DEF GradingNext, ConsumerStep, ConsumerFault, ToolStep, ToolFault

(* What a grader writes, it writes about the session it works on; a row    *)
(* never vanishes, a result and a logged skip stay.                        *)
RowWrites(w) ==
    /\ UNCHANGED <<status, backup, deleted, accepted>>
    /\ \A s \in Sessions :
        /\ grade[s] # "none" => grade'[s] # "none"
        /\ grade[s] = "graded" => grade'[s] = "graded"
        /\ s \in skipped => s \in skipped'
        /\ grade'[s] # grade[s] \/ (s \in skipped' /\ s \notin skipped) => s = job[w]

LEMMA GradingWrites ==
  ASSUME GWTypeOK, GradingInv, GradingNext
  PROVE  \E w \in Graders : RowWrites(w)
  <1> USE DEF GWTypeOK, TablesTypeOK, GradingTypeOK, RowWrites, tables
  <1>1. ASSUME NEW w \in Graders, JobStep(w) PROVE RowWrites(w)
    BY <1>1 DEF JobStep, Fetch, LogSkip, Mark, Grade, GradeFails, RecordFailure, Upsert, Finish,
                MarkProcessing, MarkFailed, UpsertResult
  <1>2. ASSUME NEW w \in Graders, JobFault(w) PROVE RowWrites(w)
    <2>1. CASE RecordFailureFails(w)
      BY <2>1 DEF RecordFailureFails, MarkFailed
    <2>2. CASE CallFails(w)
      BY <2>2 DEF CallFails, MarkProcessing, UpsertResult
    <2> QED BY <1>2, <2>1, <2>2 DEF JobFault
  <1>3. ASSUME NEW c \in Consumers,
               \/ \E m \in Messages : Deliver(c, m)
               \/ Reject(c) \/ GiveUp(c) \/ GiveUpFails(c)
               \/ ConnectionLost(c) \/ ConsumerCrash(c)
        PROVE  RowWrites(c)
    BY <1>3 DEF Deliver, Reject, GiveUp, GiveUpFails, ConnectionLost, ConsumerCrash, MarkFailed
  <1>4. ASSUME NEW t \in Tools, Scan(t) \/ ProcessCandidate(t) \/ ToolCrash(t)
        PROVE  RowWrites(t)
    BY <1>4 DEF Scan, ProcessCandidate, ToolCrash
  <1> QED
    BY <1>1, <1>2, <1>3, <1>4
    DEF GradingNext, ConsumerStep, ConsumerFault, ToolStep, ToolFault, Graders

(* What graders work on stays completed, and completed stays what it is.   *)
LEMMA GradingKeepsSourceInv ==
  ASSUME GWTypeOK, GradingInv, GradingNext
  PROVE  SourceInv'
  <1> USE TablesAssumption, WorkerAssumption
          DEF GWTypeOK, TablesTypeOK, GradingTypeOK, Messages, Graders
  <1>1. PICK w \in Graders : RowWrites(w)
    BY GradingWrites
  <1>2. \A v \in Graders : job[v] \in Sessions => backup[job[v]] # "none"
    BY DEF GradingInv, SourceInv
  <1>3. ASSUME NEW s \in Sessions, grade'[s] # "none" \/ s \in skipped'
        PROVE  backup'[s] # "none"
    BY <1>1, <1>2, <1>3 DEF RowWrites, GradingInv, SourceInv
  <1>4. /\ \A s \in Sessions : queue'[s] > 0 => s \in accepted
        /\ \A c \in Consumers : job'[c] \in Sessions => job'[c] \in accepted
        /\ \A t \in Tools :
            /\ job'[t] \in Sessions => backup[job'[t]] # "none"
            /\ \A s \in batch'[t] : backup[s] # "none"
    <2> USE DEF GradingInv, JobInv, SourceInv
    <2>1. ASSUME UNCHANGED <<queue, job, batch>> PROVE <1>4!:
      BY <2>1
    <2>2. ASSUME NEW v \in Graders, Idle(v), UNCHANGED <<queue, batch>> PROVE <1>4!:
      BY <2>2 DEF Idle
    <2>3. ASSUME NEW c \in Consumers, NEW m \in Messages, Deliver(c, m) PROVE <1>4!:
      BY <2>3 DEF Deliver
    <2>4. ASSUME NEW c \in Consumers, Requeue(c), UNCHANGED batch,
                 Idle(c) \/ UNCHANGED job
          PROVE <1>4!:
      BY <2>4 DEF Requeue, Idle
    <2>5. ASSUME NEW t \in Tools, Scan(t) PROVE <1>4!:
      BY <2>5 DEF Scan, Candidates, Eligible, tables
    <2>6. ASSUME NEW t \in Tools, ProcessCandidate(t) PROVE <1>4!:
      BY <2>6 DEF ProcessCandidate, tables
    <2>7. ASSUME NEW t \in Tools, ToolCrash(t) PROVE <1>4!:
      BY <2>7 DEF ToolCrash, Idle
    <2> QED
      BY <2>1, <2>2, <2>3, <2>4, <2>5, <2>6, <2>7
      DEF GradingNext, ConsumerStep, ConsumerFault, ToolStep, ToolFault, JobStep, JobFault,
          Fetch, LogSkip, Mark, Grade, GradeFails, RecordFailure, Upsert, Finish,
          RecordFailureFails, CallFails, Reject, GiveUp, GiveUpFails, ConnectionLost,
          ConsumerCrash, tables
  <1> QED BY <1>1, <1>3, <1>4 DEF RowWrites, SourceInv, GradingInv

LEMMA GradingKeepsRowExists ==
  ASSUME GWTypeOK, GradingInv, GradingNext
  PROVE  RowExistsInv'
  <1> USE DEF GWTypeOK, GradingTypeOK, GradingInv, JobInv, RowExistsInv
  <1>1. PICK w \in Graders : RowWrites(w)
    BY GradingWrites
  <1>2. \A v \in Graders :
          wpc'[v] \in {"grade", "upsert", "markFailed"} =>
            /\ job'[v] = job[v]
            /\ job[v] \in Sessions
            /\ grade[job[v]] # "none" \/ grade'[job[v]] # "none"
    <2>1. ASSUME NEW v \in Graders, JobStep(v) PROVE <1>2!:
      BY <2>1 DEF JobStep, GoTo, Fetch, LogSkip, Mark, MarkProcessing, Grade, GradeFails,
                  RecordFailure, Raise, Upsert, Finish, Idle
    <2>2. ASSUME NEW v \in Graders, JobFault(v) PROVE <1>2!:
      BY <2>2 DEF JobFault, RecordFailureFails, CallFails, Raise, GoTo
    <2>3. ASSUME NEW v \in Graders, Idle(v) PROVE <1>2!:
      BY <2>3 DEF Idle
    <2>4. ASSUME NEW c \in Consumers, GiveUp(c) \/ ConnectionLost(c) PROVE <1>2!:
      BY <2>4 DEF GiveUp, ConnectionLost, GoTo, Graders
    <2>5. ASSUME NEW c \in Consumers, NEW m \in Messages, Deliver(c, m) PROVE <1>2!:
      BY <2>5 DEF Deliver, GoTo, Graders
    <2>6. ASSUME NEW t \in Tools, Scan(t) \/ ProcessCandidate(t) PROVE <1>2!:
      BY <2>6 DEF Scan, ProcessCandidate, GoTo, Graders
    <2> QED
      BY <2>1, <2>2, <2>3, <2>4, <2>5, <2>6
      DEF GradingNext, ConsumerStep, ConsumerFault, ToolStep, ToolFault, Graders,
          Reject, GiveUpFails, ConsumerCrash, ToolCrash
  <1> QED BY <1>1, <1>2 DEF RowWrites

(* A consumer acknowledges only what is recorded; whatever else it does    *)
(* with a message leaves it unacknowledged.                                *)
Recorded(s) == s \in deleted \/ grade[s] # "none" \/ s \in skipped

LEMMA RecordedStays ==
  ASSUME GWTypeOK, GradingInv, GradingNext, NEW s \in Sessions, Recorded(s)
  PROVE  Recorded(s)'
  BY GradingWrites DEF RowWrites, Recorded

LEMMA GradingKeepsRecorded ==
  ASSUME GWTypeOK, GradingInv, GradingNext
  PROVE  RecordedInv'
  <1> USE TablesAssumption, WorkerAssumption
          DEF GWTypeOK, TablesTypeOK, GradingTypeOK, GradingInv, JobInv, Messages, Graders
  <1>1. ASSUME NEW c \in Consumers, wpc'[c] = "done", NEW s \in Sessions, job'[c] = s
        PROVE  Recorded(s)'
    <2>1. CASE wpc[c] = "done" /\ job[c] = s
      BY <2>1, RecordedStays DEF RecordedInv, Recorded
    <2>2. ASSUME wpc[c] # "done" \/ job[c] # s, NEW w \in Graders, JobStep(w)
          PROVE  Recorded(s)'
      BY <1>1, <2>2
      DEF JobStep, Fetch, LogSkip, Mark, Grade, GradeFails, RecordFailure, Raise, Upsert,
          Finish, Idle, GoTo, MarkProcessing, UpsertResult, Recorded, tables
    <2>3. ASSUME wpc[c] # "done" \/ job[c] # s, NEW w \in Graders, JobFault(w)
          PROVE  Recorded(s)'
      BY <1>1, <2>3 DEF JobFault, RecordFailureFails, CallFails, Raise, GoTo
    <2>4. ASSUME wpc[c] # "done" \/ job[c] # s, NEW d \in Consumers, GiveUp(d)
          PROVE  Recorded(s)'
      BY <1>1, <2>4 DEF GiveUp, MarkFailed, GoTo, Recorded
    <2>5. ASSUME wpc[c] # "done" \/ job[c] # s, NEW d \in Consumers,
                 \/ \E m \in Messages : Deliver(d, m)
                 \/ Reject(d) \/ GiveUpFails(d) \/ ConnectionLost(d) \/ ConsumerCrash(d)
          PROVE  Recorded(s)'
      BY <1>1, <2>5 DEF Deliver, Reject, GiveUpFails, ConnectionLost, ConsumerCrash, Idle, GoTo
    <2>6. ASSUME wpc[c] # "done" \/ job[c] # s, NEW t \in Tools,
                 Scan(t) \/ ProcessCandidate(t) \/ ToolCrash(t)
          PROVE  Recorded(s)'
      BY <1>1, <2>6 DEF Scan, ProcessCandidate, ToolCrash, Idle, GoTo
    <2> QED
      BY <2>1, <2>2, <2>3, <2>4, <2>5, <2>6
      DEF GradingNext, ConsumerStep, ConsumerFault, ToolStep, ToolFault
  <1>2. ASSUME NEW s \in Sessions, s \in accepted, Unacknowledged(s)
        PROVE  Unacknowledged(s)' \/ Recorded(s)'
    <2>1. ASSUME UNCHANGED <<queue, job, held>> PROVE Unacknowledged(s)'
      BY <1>2, <2>1 DEF Unacknowledged
    <2>2. ASSUME NEW c \in Consumers, Finish(c)
          PROVE  Unacknowledged(s)' \/ Recorded(s)'
      <3>1. CASE job[c] = s
        BY <2>2, <3>1, RecordedStays DEF Finish, RecordedInv, Recorded
      <3>2. CASE job[c] # s
        BY <1>2, <2>2, <3>2 DEF Finish, Idle, Unacknowledged, tables
      <3> QED BY <3>1, <3>2
    <2>3. ASSUME NEW c \in Consumers, Reject(c) PROVE Unacknowledged(s)'
      BY <1>2, <2>3 DEF Reject, Idle, Unacknowledged, tables
    <2>4. ASSUME NEW c \in Consumers, NEW m \in Messages, Deliver(c, m)
          PROVE  Unacknowledged(s)'
      <3>1. CASE m = s
        BY <2>4, <3>1 DEF Deliver, Unacknowledged
      <3>2. CASE m # s
        BY <1>2, <2>4, <3>2 DEF Deliver, Unacknowledged
      <3> QED BY <3>1, <3>2
    <2>5. ASSUME NEW c \in Consumers, Requeue(c),
                 Idle(c) \/ (held' = [held EXCEPT ![c] = FALSE] /\ UNCHANGED job)
          PROVE  Unacknowledged(s)'
      <3>1. CASE job[c] = s /\ held[c]
        <4>1. queue' = [queue EXCEPT ![s] = @ + 1]
          BY <2>5, <3>1 DEF Requeue
        <4> QED BY <4>1 DEF Unacknowledged
      <3>2. CASE ~(job[c] = s /\ held[c])
        <4>1. queue'[s] = queue[s]
          BY <2>5, <3>2 DEF Requeue
        <4>2. \A d \in Consumers \ {c} : job'[d] = job[d] /\ held'[d] = held[d]
          BY <2>5 DEF Idle
        <4> QED BY <1>2, <3>2, <4>1, <4>2 DEF Unacknowledged
      <3> QED BY <3>1, <3>2
    <2>6. ASSUME NEW t \in Tools, Idle(t), UNCHANGED queue PROVE Unacknowledged(s)'
      BY <1>2, <2>6 DEF Idle, Unacknowledged
    <2>7. ASSUME NEW t \in Tools, ProcessCandidate(t) PROVE Unacknowledged(s)'
      BY <1>2, <2>7 DEF ProcessCandidate, Unacknowledged, tables
    <2>8. ASSUME NEW w \in Graders, JobStep(w) \/ JobFault(w), ~Finish(w)
          PROVE  UNCHANGED <<queue, job, held>>
      BY <2>8
      DEF JobStep, JobFault, Fetch, LogSkip, Mark, Grade, GradeFails, RecordFailure, Upsert,
          RecordFailureFails, CallFails, tables
    <2>9. ASSUME NEW t \in Tools, Finish(t) \/ ToolCrash(t)
          PROVE  Idle(t) /\ UNCHANGED queue
      BY <2>9 DEF Finish, ToolCrash, tables
    <2>10. ASSUME NEW c \in Consumers, ConsumerStep(c) \/ ConsumerFault(c)
           PROVE  Unacknowledged(s)' \/ Recorded(s)'
      <3>1. CASE JobStep(c) \/ JobFault(c)
        BY <2>1, <2>2, <2>8, <3>1
      <3>2. CASE GiveUp(c)
        BY <2>1, <3>2 DEF GiveUp, tables
      <3>3. CASE GiveUpFails(c) \/ ConsumerCrash(c)
        <4>1. Requeue(c) /\ Idle(c)
          BY <3>3 DEF GiveUpFails, ConsumerCrash
        <4> QED BY <2>5, <4>1
      <3>4. CASE ConnectionLost(c)
        <4>1. Requeue(c) /\ held' = [held EXCEPT ![c] = FALSE] /\ UNCHANGED job
          BY <3>4 DEF ConnectionLost
        <4> QED BY <2>5, <4>1
      <3> QED BY <2>3, <2>4, <2>10, <3>1, <3>2, <3>3, <3>4 DEF ConsumerStep, ConsumerFault
    <2>11. ASSUME NEW t \in Tools, ToolStep(t) \/ ToolFault(t)
           PROVE  Unacknowledged(s)' \/ Recorded(s)'
      <3>1. CASE JobStep(t) \/ JobFault(t)
        BY <2>1, <2>6, <2>8, <2>9, <3>1
      <3>2. CASE Scan(t)
        BY <2>1, <3>2 DEF Scan, tables
      <3> QED BY <2>6, <2>7, <2>9, <2>11, <3>1, <3>2 DEF ToolStep, ToolFault
    <2> QED BY <2>10, <2>11 DEF GradingNext
  <1>3. UNCHANGED <<deleted, accepted>>
    BY GradingWrites DEF RowWrites
  <1>4. ASSUME NEW c \in Consumers, wpc'[c] = "done"
        PROVE  job'[c] \in Sessions
    BY <1>4, GradingKeepsJobInv
  <1>5. NothingDropped'
    <2> SUFFICES ASSUME NEW s \in accepted' \ deleted'
                 PROVE  Unacknowledged(s)' \/ Recorded(s)'
      BY DEF NothingDropped, Recorded
    <2> s \in Sessions
      BY <1>3
    <2>1. s \in accepted /\ s \notin deleted
      BY <1>3
    <2>2. Unacknowledged(s) \/ Recorded(s)
      BY <2>1 DEF RecordedInv, NothingDropped, Recorded
    <2>3. Recorded(s) => Recorded(s)'
      BY RecordedStays
    <2> QED BY <1>2, <2>1, <2>2, <2>3
  <1> QED BY <1>1, <1>4, <1>5 DEF RecordedInv, Recorded

LEMMA GradingKeepsInv ==
  ASSUME GWTypeOK, GradingInv, GradingNext
  PROVE  GWTypeOK' /\ GradingInv'
  BY GradingKeepsType, GradingKeepsJobInv, GradingKeepsSourceInv, GradingKeepsRowExists,
     GradingKeepsRecorded
  DEF GradingInv

(* A grader that writes a row has seen the evidence.                       *)
EvidenceInv ==
    /\ \A w \in Graders :
        /\ wpc[w] \in {"mark", "grade", "upsert", "markFailed"} => Eligible(backup[job[w]])
        /\ wpc[w] = "skip" => ~Eligible(backup[job[w]])
    /\ \A s \in Sessions :
        /\ s \in skipped => ~Eligible(backup[s])
        /\ grade[s] \in {"processing", "graded"} => Eligible(backup[s])

(* In this component's environment a transcript is stored once.            *)
WrittenOnce == \A s \in Sessions : status[s] = "streaming" => backup[s] = "none"

LEMMA GradingKeepsEvidence ==
  ASSUME GWTypeOK, GradingInv, EvidenceInv, GradingNext
  PROVE  EvidenceInv'
  <1> USE TablesAssumption, WorkerAssumption
          DEF GWTypeOK, TablesTypeOK, GradingTypeOK, GradingInv, JobInv, EvidenceInv, Graders,
              GoTo, tables
  <1>1. ASSUME NEW w \in Graders, JobStep(w) PROVE EvidenceInv'
    <2>1. CASE Fetch(w) \/ LogSkip(w) \/ Grade(w) \/ GradeFails(w)
      BY <2>1 DEF Fetch, LogSkip, Grade, GradeFails
    <2>2. CASE Mark(w)
      BY <2>2 DEF Mark, MarkProcessing
    <2>3. CASE RecordFailure(w)
      BY <2>3 DEF RecordFailure, MarkFailed, Raise
    <2>4. CASE Upsert(w)
      BY <2>4 DEF Upsert, UpsertResult
    <2>5. CASE Finish(w)
      BY <2>5 DEF Finish, Idle
    <2> QED BY <1>1, <2>1, <2>2, <2>3, <2>4, <2>5 DEF JobStep
  <1>2. ASSUME NEW w \in Graders, JobFault(w) PROVE EvidenceInv'
    <2>1. CASE RecordFailureFails(w)
      BY <2>1 DEF RecordFailureFails, MarkFailed, Raise
    <2>2. CASE CallFails(w)
      <3>1. \A v \in Graders :
              wpc'[v] \in {"skip", "mark", "grade", "upsert", "markFailed"} => wpc'[v] = wpc[v]
        BY <2>2 DEF CallFails, Raise
      <3>2. UNCHANGED <<job, backup>>
        BY <2>2 DEF CallFails
      <3>3. \A s \in Sessions :
              /\ s \in skipped' => ~Eligible(backup[s])
              /\ grade'[s] \in {"processing", "graded"} => Eligible(backup[s])
        BY <2>2 DEF CallFails, MarkProcessing, UpsertResult
      <3> QED BY <3>1, <3>2, <3>3
    <2> QED BY <1>2, <2>1, <2>2 DEF JobFault
  <1>3. ASSUME NEW c \in Consumers,
               \/ \E m \in Messages : Deliver(c, m)
               \/ Reject(c) \/ GiveUp(c) \/ GiveUpFails(c)
               \/ ConnectionLost(c) \/ ConsumerCrash(c)
        PROVE  EvidenceInv'
    <2>1. ASSUME NEW m \in Messages, Deliver(c, m) PROVE EvidenceInv'
      BY <2>1 DEF Deliver
    <2>2. CASE Reject(c) \/ ConsumerCrash(c)
      BY <2>2 DEF Reject, ConsumerCrash, Idle
    <2>3. CASE GiveUp(c)
      BY <2>3 DEF GiveUp, MarkFailed
    <2>4. CASE GiveUpFails(c)
      BY <2>4 DEF GiveUpFails, MarkFailed, Idle
    <2>5. CASE ConnectionLost(c)
      BY <2>5 DEF ConnectionLost
    <2> QED BY <1>3, <2>1, <2>2, <2>3, <2>4, <2>5
  <1>4. ASSUME NEW t \in Tools, Scan(t) \/ ProcessCandidate(t) \/ ToolCrash(t)
        PROVE  EvidenceInv'
    BY <1>4 DEF Scan, ProcessCandidate, ToolCrash, Idle
  <1> QED
    BY <1>1, <1>2, <1>3, <1>4
    DEF GradingNext, ConsumerStep, ConsumerFault, ToolStep, ToolFault

-----------------------------------------------------------------------------
(* The environment of the component alone.                                 *)
EnvNext ==
    \/ \E s \in Sessions : Complete(s) \/ Published(s) \/ SoftDelete(s)
    \/ PublishPoison

GWInv == GWTypeOK /\ GradingInv /\ EvidenceInv /\ WrittenOnce

LEMMA EnvKeepsInv ==
  ASSUME GWInv, EnvNext
  PROVE  GWInv'
  <1> USE TablesAssumption, WorkerAssumption
          DEF GWInv, GWTypeOK, TablesTypeOK, GradingTypeOK, grading, Messages, Graders,
              GradingInv, JobInv, SourceInv, RowExistsInv, RecordedInv, NothingDropped,
              Unacknowledged, EvidenceInv, WrittenOnce, Committed
  <1>1. ASSUME NEW s \in Sessions, Complete(s) PROVE GWInv'
    <2>1. PICK b \in Transcripts : backup' = [backup EXCEPT ![s] = b]
      BY <1>1 DEF Complete
    <2>2. /\ status'[s] = "completed" /\ backup'[s] # "none"
          /\ \A u \in Sessions \ {s} : status'[u] = status[u] /\ backup'[u] = backup[u]
      BY <1>1, <2>1 DEF Complete, Transcripts
    <2>3. GWTypeOK'
      BY <1>1, <2>1 DEF Complete
    <2>4. s \notin accepted /\ grade[s] = "none" /\ s \notin skipped /\ \A w \in Graders : job[w] # s
      <3>1. backup[s] = "none"
        BY <1>1 DEF Complete
      <3> QED BY <3>1
    <2>5. JobInv' /\ RowExistsInv' /\ RecordedInv'
      BY <1>1 DEF Complete
    <2>6. SourceInv' /\ EvidenceInv' /\ WrittenOnce'
      BY <1>1, <2>2, <2>4 DEF Complete
    <2> QED BY <2>3, <2>5, <2>6
  <1>2. ASSUME NEW s \in Sessions, Published(s) PROVE GWInv'
    BY <1>2 DEF Published, Enqueue
  <1>3. ASSUME NEW s \in Sessions, SoftDelete(s) PROVE GWInv'
    BY <1>3 DEF SoftDelete
  <1>4. ASSUME PublishPoison PROVE GWInv'
    BY <1>4 DEF PublishPoison, Fault
  <1> QED BY <1>1, <1>2, <1>3, <1>4 DEF EnvNext

LEMMA GWStutterKeepsInv ==
  ASSUME GWInv, UNCHANGED gradingVars
  PROVE  GWInv'
  BY DEF gradingVars, tables, grading, GWInv, GWTypeOK, TablesTypeOK, GradingTypeOK, GradingInv,
         JobInv, SourceInv, RowExistsInv, RecordedInv, NothingDropped, Unacknowledged,
         EvidenceInv, WrittenOnce

(* The inductive invariant holds in every reachable state.                 *)
THEOREM GradingInvariant == GWSpec => []GWInv
  <1>1. GWInit => GWInv
    <2>1. GWInit => EvidenceInv /\ WrittenOnce
      BY DEF GWInit, TablesInit, GradingInit, EvidenceInv, WrittenOnce
    <2> QED BY <2>1, GradingInitType, GradingInitInv DEF GWInit, GWInv
  <1>2. GWInv /\ [GWNext]_gradingVars => GWInv'
    <2> SUFFICES ASSUME GWInv, [GWNext]_gradingVars PROVE GWInv'
      OBVIOUS
    <2>1. CASE GradingNext
      <3>1. WrittenOnce'
        BY <2>1, GradingWrites DEF GWInv, WrittenOnce, RowWrites
      <3> QED BY <2>1, <3>1, GradingKeepsInv, GradingKeepsEvidence DEF GWInv
    <2>2. CASE EnvNext
      BY <2>2, EnvKeepsInv
    <2>3. CASE UNCHANGED gradingVars
      BY <2>3, GWStutterKeepsInv
    <2> QED BY <2>1, <2>2, <2>3 DEF GWNext, EnvNext
  <1> QED BY <1>1, <1>2, PTL DEF GWSpec

(* Type correctness of the worker and the repair tools.                    *)
THEOREM GradingTypeCorrect == GWSpec => []GWTypeOK
  BY GradingInvariant, PTL DEF GWInv

(* No session whose message the broker accepted is forgotten, for any      *)
(* number of consumers and tools, crashes and failed calls.                *)
THEOREM NoMessageDropped == GWSpec => []NothingDropped
  <1>1. GWInv => NothingDropped
    BY DEF GWInv, GradingInv, RecordedInv
  <1> QED BY <1>1, GradingInvariant, PTL

(* Only a session whose committed transcript carries enough evidence is    *)
(* graded, and none that was skipped.                                      *)
THEOREM EvidenceRequired == GWSpec => []OnlyEvidenceGraded
  <1>1. GWInv => OnlyEvidenceGraded
    BY DEF GWInv, GradingInv, SourceInv, EvidenceInv, OnlyEvidenceGraded
  <1> QED BY <1>1, GradingInvariant, PTL

(* A stored result is final.                                               *)
THEOREM ResultsFinal == GWSpec => GradedFinal
  <1>1. GWInv /\ [GWNext]_gradingVars =>
          [\A s \in Sessions : grade[s] = "graded" => grade'[s] = "graded"]_grade
    BY GradingWrites
    DEF GWInv, RowWrites, GWNext, Complete, Published, SoftDelete, PublishPoison, grading,
        gradingVars
  <1> QED BY <1>1, GradingInvariant, PTL DEF GWSpec, GradedFinal

-----------------------------------------------------------------------------
(***************************************************************************)
(* A deployment with one worker and no repair tool running.                *)
(***************************************************************************)
LoneWorker == Tools = {} /\ \A c, d \in Consumers : c = d

(* A grader past mark_grading_processing works on a session without a      *)
(* result, a job that lost its message can be told of it again, and a job  *)
(* that is over leaves no row in "processing" unless it has logged a skip. *)
(* Nothing is said of the transcript, which the pipeline may replace.      *)
LoneInv ==
    /\ \A s \in Sessions :
        /\ upserts[s] <= 1
        /\ upserts[s] > 0 => grade[s] = "graded"
        /\ s \notin deleted /\ grade[s] = "processing" =>
                queue[s] > 0 \/ WorkedOn(s) \/ s \in skipped
    /\ \A c \in Consumers :
        /\ wpc[c] \in {"grade", "upsert", "markFailed"} => grade[job[c]] # "graded"
        /\ job[c] \in Sessions /\ ~held[c] => queue[job[c]] > 0
        /\ wpc[c] = "done" =>
                job[c] \in deleted \/ grade[job[c]] # "processing" \/ job[c] \in skipped

LEMMA LoneKeepsInv ==
  ASSUME LoneWorker, GWTypeOK, GradingInv, LoneInv, GradingNext
  PROVE  LoneInv'
  <1> USE TablesAssumption, WorkerAssumption
          DEF LoneWorker, GWTypeOK, TablesTypeOK, GradingTypeOK, GradingInv, JobInv,
              LoneInv, WorkedOn, Graders, Messages, GoTo, tables
  <1>1. PICK c \in Consumers : ConsumerStep(c) \/ ConsumerFault(c)
    BY DEF GradingNext
  <1>2. Graders = {c} /\ Consumers = {c}
    BY <1>1
  <1>3. CASE Fetch(c) \/ Grade(c) \/ GradeFails(c)
    BY <1>2, <1>3 DEF Fetch, Grade, GradeFails
  <1>4. CASE LogSkip(c)
    BY <1>2, <1>4 DEF LogSkip
  <1>5. CASE Mark(c)
    BY <1>2, <1>5 DEF Mark, MarkProcessing
  <1>6. CASE RecordFailure(c)
    BY <1>2, <1>6 DEF RecordFailure, MarkFailed, Raise
  <1>7. CASE Upsert(c)
    BY <1>2, <1>7 DEF Upsert, UpsertResult
  <1>8. CASE Finish(c)
    BY <1>2, <1>8 DEF Finish, Idle
  <1>9. CASE RecordFailureFails(c)
    BY <1>2, <1>9 DEF RecordFailureFails, MarkFailed, Raise
  <1>10. CASE CallFails(c)
    BY <1>2, <1>10 DEF CallFails, MarkProcessing, UpsertResult, Raise
  <1>11. ASSUME NEW m \in Messages, Deliver(c, m) PROVE LoneInv'
    BY <1>2, <1>11 DEF Deliver
  <1>12. CASE Reject(c)
    BY <1>2, <1>12 DEF Reject, Idle
  <1>13. CASE GiveUp(c)
    BY <1>2, <1>13 DEF GiveUp, MarkFailed
  <1>14. CASE GiveUpFails(c)
    BY <1>2, <1>14 DEF GiveUpFails, MarkFailed, Requeue, Idle
  <1>15. CASE ConnectionLost(c)
    BY <1>2, <1>15 DEF ConnectionLost, Requeue
  <1>16. CASE ConsumerCrash(c)
    BY <1>2, <1>16 DEF ConsumerCrash, Requeue, Idle
  <1> QED
    BY <1>1, <1>3, <1>4, <1>5, <1>6, <1>7, <1>8, <1>9, <1>10, <1>11, <1>12, <1>13, <1>14,
       <1>15, <1>16
    DEF ConsumerStep, ConsumerFault, JobStep, JobFault

(* A step that leaves the worker and its rows alone and takes no message   *)
(* out of the queue keeps it too, whoever makes that step.                 *)
LEMMA LoneOthersKeepInv ==
  ASSUME GWTypeOK, LoneInv, UNCHANGED grading, deleted \subseteq deleted',
         \A m \in Sessions : queue[m] > 0 => queue'[m] > 0
  PROVE  LoneInv'
  <1>1. wpc' = wpc /\ job' = job /\ held' = held /\ grade' = grade /\ upserts' = upserts
        /\ skipped' = skipped
    BY DEF grading
  <1>2. \A s \in Sessions : WorkedOn(s)' <=> WorkedOn(s)
    BY <1>1 DEF WorkedOn
  <1> QED BY <1>1, <1>2 DEF LoneInv

LEMMA LoneEnvKeepsInv ==
  ASSUME GWTypeOK, LoneInv, EnvNext
  PROVE  LoneInv'
  <1>1. /\ UNCHANGED grading
        /\ deleted \subseteq deleted'
    BY DEF EnvNext, Complete, Published, SoftDelete, PublishPoison
  <1>2. \A m \in Sessions : queue[m] > 0 => queue'[m] > 0
    <2> USE DEF GWTypeOK, TablesTypeOK, Messages
    <2>1. ASSUME NEW n \in Messages, queue' = [queue EXCEPT ![n] = @ + 1],
                 NEW m \in Sessions, queue[m] > 0
          PROVE  queue'[m] > 0
      BY <2>1
    <2>2. CASE PublishPoison
      BY <2>1, <2>2 DEF PublishPoison
    <2>3. ASSUME NEW s \in Sessions, Published(s) PROVE <1>2!:
      BY <2>1, <2>3 DEF Published, Enqueue
    <2> QED BY <2>2, <2>3 DEF EnvNext, Complete, SoftDelete
  <1> QED BY <1>1, <1>2, LoneOthersKeepInv

LEMMA LoneInit == GradingInit => LoneInv
  BY WorkerAssumption DEF GradingInit, LoneInv, Graders, Messages

LEMMA LoneInvariant ==
  ASSUME LoneWorker
  PROVE  GWSpec => []LoneInv
  <1>1. GWInit => LoneInv
    BY LoneInit DEF GWInit
  <1>2. GWInv /\ LoneInv /\ [GWNext]_gradingVars => LoneInv'
    <2> SUFFICES ASSUME GWInv, LoneInv, [GWNext]_gradingVars PROVE LoneInv'
      OBVIOUS
    <2>1. CASE GradingNext
      BY <2>1, LoneKeepsInv DEF GWInv
    <2>2. CASE EnvNext
      BY <2>2, LoneEnvKeepsInv DEF GWInv
    <2>3. CASE UNCHANGED gradingVars
      BY <2>3 DEF LoneInv, WorkedOn, gradingVars, grading, tables
    <2> QED BY <2>1, <2>2, <2>3 DEF GWNext, EnvNext
  <1> QED BY <1>1, <1>2, GradingInvariant, PTL DEF GWSpec

(* README: grading is deduped on session_id.  True of a worker that runs   *)
(* alone, however often a message is delivered and whatever fails.         *)
THEOREM LoneWorkerGradesOnce ==
  ASSUME LoneWorker
  PROVE  GWSpec => []GradedOnce
  <1>1. LoneInv => GradedOnce
    BY DEF LoneInv, GradedOnce
  <1> QED BY <1>1, LoneInvariant, PTL

(* Alone, a worker leaves no row in "processing" behind.                   *)
THEOREM LoneWorkerOwnsProcessing ==
  ASSUME LoneWorker
  PROVE  GWSpec => []ProcessingOwned
  <1>1. LoneInv => ProcessingOwned
    BY DEF LoneInv, ProcessingOwned, Unacknowledged
  <1> QED BY <1>1, LoneInvariant, PTL
=============================================================================
