------------------------------ MODULE GradeReport ------------------------------
(***************************************************************************)
(* From an evaluation input to a grading result: the language model's      *)
(* answer read by llm_grader.py, or the placeholder of fake_grader.py.     *)
(* Scores are in hundredths of a point, and halves of one are rounded up;  *)
(* a score that is missing is None.                                        *)
(***************************************************************************)
EXTENDS TurnEvidence

CONSTANT Failed  \* the result of a grading that raised LLMGraderError

Skills == <<"fluency", "grammar", "vocabulary", "pronunciation_clarity">>

Least(a, b) == IF a < b THEN a ELSE b
Most(a, b) == IF a > b THEN a ELSE b

(* A call of the provider ends in an answer or in an error: a timeout, a   *)
(* status that is not 200, an empty list of choices, an empty content.     *)
(* An answer is not JSON, or an object with a field for each score (a      *)
(* number, a text that is no number, or None where the field is missing),  *)
(* whether there is a summary, a correction for each item of the list (TRUE *)
(* for one with all its keys) and the skill items in their order.          *)
Scale == 0..1000
ValidScore(x) == x \in Int /\ x \in Scale

(* Mutant: a score out of range is taken over.                             *)
ReadableAnyScore(answer) ==
    /\ answer.kind = "object"
    /\ \A f \in {"fluency", "grammar", "vocab"} : answer[f] \in Int
    /\ answer.summary /\ answer.corrections # None

(* parse_grading_response raises nothing.                                  *)
Readable(answer) ==
    /\ answer.kind = "object"
    /\ \A f \in {"fluency", "grammar", "vocab"} : ValidScore(answer[f])
    /\ answer.pronunciation = None \/ ValidScore(answer.pronunciation)
    /\ answer.summary
    /\ answer.corrections # None

(* _weighted_overall_score.                                                *)
Overall(f, g, v, p) ==
    ((IF p = None THEN 30 * f + 35 * g + 35 * v
                  ELSE 25 * f + 30 * g + 25 * v + 20 * p) + 50) \div 100

(* _filter_skill_feedback: one item per skill, in a fixed order; the       *)
(* model's words are kept, the last item of a skill winning, its scores    *)
(* and its status are not.                                                 *)
Feedback(items, scores) ==
    [k \in DOMAIN Skills |->
        LET mine == {i \in DOMAIN items : items[i].skill = Skills[k]} IN
        [skill |-> Skills[k],
         score |-> scores[k],
         status |-> IF scores[k] = None THEN "insufficient_evidence" ELSE "scored",
         summary |-> IF mine = {} THEN "default"
                     ELSE items[CHOOSE i \in mine : \A j \in mine : j <= i].summary]]

Report(provider, overall, scores, feedback, corrections) ==
    [provider |-> provider, overall |-> overall, scores |-> scores,
     schema |-> IF provider = "llm" /\ scores[4] # None THEN "grading.v2" ELSE "grading.v1",
     feedback |-> feedback, corrections |-> corrections]

(* llm_grade_with_client.                                                  *)
LLMGrade(input, answer) ==
    IF input.students = 0 \/ ~Readable(answer) THEN Failed
    ELSE LET p == answer.pronunciation
             scores == <<answer.fluency, answer.grammar, answer.vocab, p>>
         IN  Report("llm", Overall(answer.fluency, answer.grammar, answer.vocab, p), scores,
                    Feedback(answer.skills, scores),
                    Cardinality({i \in DOMAIN answer.corrections : answer.corrections[i]}))

Clamp(x) == Most(0, Least(1000, x))

(* fake_grade.                                                             *)
FakeGrade(input) ==
    LET students == {i \in DOMAIN input.turns : input.turns[i].speaker = "student"}
        vocabulary ==
            UNION {{input.turns[i].text[j] : j \in DOMAIN input.turns[i].text} : i \in students}
        f == Clamp(Clamp(500 + 60 * Least(input.students, 5)) - 10 * Least(input.ignored, 5))
        g == Clamp(600 + 5 * Least(input.words, 40))
        v == Clamp(550 + (40 * Least(Cardinality(vocabulary), 30) + 3) \div 6)
        p == IF input.students = 0 THEN None ELSE Clamp(700 - 40 * Least(input.uncertain, 4))
        scores == <<f, g, v, p>>
    IN  Report("fake", (2 * (f + g + v) + 3) \div 6, scores, Feedback(<< >>, scores), 2)
================================================================================
