------------------------------ MODULE TurnEvidence ------------------------------
(***************************************************************************)
(* What the event log of a session proves about the learner: the words     *)
(* that count as evidence, the input built for the grader from them, and   *)
(* the count the status page shows.  session_eligibility.py and            *)
(* evaluation_input_builder.py of the worker, session_service.py of the    *)
(* API.  An event is a record of its kind and text; a USER_TURN also has   *)
(* what the gate said of it.  A log that was never stored is None.         *)
(***************************************************************************)
EXTENDS STTGate

HardReasons == {"verification_language_mismatch", "non_english_verification_failed",
                "non_target_language", "mixed_non_english", "hallucination_suspected",
                "empty_transcript", "no_speech_detected", "background_noise",
                "weak_mixed_language_english"}

UserTurn(e) == e.kind = "USER_TURN"

(* The text that counts: the English segment when there is one.            *)
GradingText(e) ==
    IF UserTurn(e) /\ e.segment # None /\ e.segment # << >> THEN e.segment ELSE e.text

Reliable(e) ==
    /\ UserTurn(e)
    /\ GradingText(e) # << >>
    /\ e.eligible /\ ~e.excluded
    /\ e.language \notin {"vietnamese", "noise"}
    /\ e.reasons \intersect HardReasons = {}

(* The words of some turns of a log, each in its place: an equal word that  *)
(* is said again counts again.                                             *)
WordsIn(log, turns) == Cardinality(UNION {{i} \X DOMAIN GradingText(log[i]) : i \in turns})

ReliableTurns(log) == {i \in DOMAIN log : Reliable(log[i])}
ReliableWords(log) == WordsIn(log, ReliableTurns(log))

(* evaluate_grading_eligibility: the reason a session is graded or not.    *)
Eligibility(log, minWords) ==
    IF log = None THEN "no_raw_backup"
    ELSE IF \A i \in DOMAIN log : ~UserTurn(log[i]) THEN "no_user_turns"
    ELSE IF ReliableTurns(log) = {} \/ ReliableWords(log) < minWords THEN "insufficient_words"
    ELSE "eligible"

(* What the input of the grader is built from: the places in the log of the *)
(* turns that are kept, and of the learner's turns among them.              *)
Kept(e) == IF UserTurn(e) THEN Reliable(e) ELSE e.text # << >>
KeptTurns(log) == {i \in DOMAIN log : Kept(log[i])}
StudentTurns(log) == {i \in KeptTurns(log) : UserTurn(log[i])}

(* build_evaluation_input: the turns in their order, numbered from 0, and  *)
(* the quality signals.                                                    *)
EvaluationInput(log) ==
    [turns |-> [i \in KeptTurns(log) |->
        [seq |-> Cardinality({j \in KeptTurns(log) : j < i}),
         speaker |-> IF UserTurn(log[i]) THEN "student" ELSE "assistant",
         text |-> GradingText(log[i]),
         uncertain |-> UserTurn(log[i]) /\ log[i].reasons # {}]],
     ignored |-> Cardinality(DOMAIN log \ KeptTurns(log)),
     students |-> Cardinality(StudentTurns(log)),
     uncertain |-> Cardinality({i \in StudentTurns(log) : log[i].reasons # {}}),
     words |-> WordsIn(log, StudentTurns(log))]

(* Mutant: the page counts a turn that is not eligible.                    *)
ShownWordsOfAll(log) == WordsIn(log, {i \in DOMAIN log : UserTurn(log[i])})

(* _compute_student_word_count: what the status page shows.                *)
ShownWords(log) ==
    WordsIn(log, {i \in DOMAIN log : UserTurn(log[i]) /\ log[i].eligible})
================================================================================
