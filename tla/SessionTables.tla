---------------------------- MODULE SessionTables ----------------------------
(***************************************************************************)
(* The durable state the LUVE services share: the rows of SESSIONS that    *)
(* completion and grading read and write, and the RabbitMQ queue           *)
(* luve.session.completed.  PostgreSQL and RabbitMQ are external: they are *)
(* modelled by what the services see of them.  One SQL statement outside a *)
(* transaction is one step; a message is acknowledged, requeued or         *)
(* dead-lettered as a whole.                                               *)
(***************************************************************************)
EXTENDS Naturals

CONSTANTS
    Sessions,   \* the persisted sessions
    Poison,     \* a message whose body is no valid session.completed job
    MaxFaults   \* bound on crashes, failed calls, lost connections, and
                \* reconnections that race the end of their session

ASSUME TablesAssumption ==
    /\ Poison \notin Sessions
    /\ MaxFaults \in Nat

VARIABLES
    status,     \* SESSIONS.status; "streaming" is any joinable row
    backup,     \* SESSIONS.raw_backup_json, by what the word counts make of it
    deleted,    \* the sessions whose deleted_at is set
    queue,      \* ready copies of each message in luve.session.completed
    accepted,   \* history: sessions whose message the broker ever accepted
    faults      \* faults so far

tables == <<status, backup, deleted, queue, accepted, faults>>

Messages == Sessions \union {Poison}

(***************************************************************************)
(* What a stored transcript amounts to: "short" has too few student words  *)
(* for the API's count as well as the worker's, "unreliable" has enough    *)
(* for the API but too few the worker accepts as evidence, "rich" is       *)
(* eligible.  "none" is NULL.                                              *)
(***************************************************************************)
Transcripts == {"short", "unreliable", "rich"}

Eligible(b) == b = "rich"

(* A completion of the session was committed.  The status alone does not   *)
(* tell: the gateway may put it back.                                      *)
Committed(s) == backup[s] # "none"

TablesInit ==
    /\ status = [s \in Sessions |-> "streaming"]
    /\ backup = [s \in Sessions |-> "none"]
    /\ deleted = {}
    /\ queue = [m \in Messages |-> 0]
    /\ accepted = {}
    /\ faults = 0

TablesTypeOK ==
    /\ status \in [Sessions -> {"streaming", "completed"}]
    /\ backup \in [Sessions -> Transcripts \union {"none"}]
    /\ deleted \in SUBSET Sessions
    /\ queue \in [Messages -> Nat]
    /\ accepted \in SUBSET Sessions
    /\ faults \in 0 .. MaxFaults

(* A fault uses up one unit of the budget, so that runs stay finite.       *)
Fault == faults < MaxFaults /\ faults' = faults + 1

(* The broker stores a persistent message.                                 *)
Enqueue(s) ==
    /\ queue' = [queue EXCEPT ![s] = @ + 1]
    /\ accepted' = accepted \union {s}

(* A publish that raised or timed out may still have reached the broker.   *)
MaybeEnqueue(s) == Enqueue(s) \/ UNCHANGED <<queue, accepted>>
=============================================================================
