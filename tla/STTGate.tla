-------------------------------- MODULE STTGate --------------------------------
(***************************************************************************)
(* The gate between a decoded utterance and the session's transcript: the  *)
(* text filters of the inference loop in luve_extension.py.  A text is a   *)
(* sequence of words, and Lexicon says of a word what the gate looks up in *)
(* its word lists.  The decoder's figures are integers: milliseconds, and  *)
(* probabilities, log probabilities and ratios in hundredths.  A figure    *)
(* the decoder does not give is None.                                      *)
(***************************************************************************)
EXTENDS Integers, Sequences, FiniteSets

CONSTANTS
    Lexicon,    \* word -> [common, controlled, lowInfo, viet, ascii, alpha, letters]
    Fragments,  \* INCOMPLETE_SHORT_ENGLISH_FRAGMENTS
    Canned,     \* CANNED_STT_HALLUCINATION_PHRASES -> [speech, audio], the least to believe them
    Fillers,    \* the short fillers Whisper makes up on silence
    None        \* a figure that is missing

Words == DOMAIN Lexicon

ASSUME LexiconAssumption == \A w \in Words : Lexicon[w].letters \in Nat
ASSUME NoneAssumption == None \notin Int

(* Figures are compared only when they are there.                          *)
Over(x, bound) == x # None /\ x > bound
Under(x, bound) == x # None /\ x < bound
Larger(x, y) == IF x > y THEN x ELSE y
-----------------------------------------------------------------------------
(***************************************************************************)
(* What a text is made of.                                                 *)
(***************************************************************************)
Where(t, S) == {i \in DOMAIN t : t[i] \in S}
Common == {w \in Words : Lexicon[w].common}
Anchors == {w \in Words : Lexicon[w].common \/ Lexicon[w].controlled}
LowInfo == {w \in Words : Lexicon[w].lowInfo}
Vietnamese == {w \in Words : Lexicon[w].viet}
Ascii == {w \in Words : Lexicon[w].ascii}
Alphabetic == {w \in Words : Lexicon[w].alpha}
LongerThan(n) == {w \in Words : Lexicon[w].letters > n}
Says(t, p) == \E i \in 0..(Len(t) - Len(p)) : SubSeq(t, i + 1, i + Len(p)) = p

(* The code looks for a canned phrase among the characters of the text.    *)
(* Here it is found word by word: no word of the Lexicon ends in the first *)
(* word of a phrase, or begins with its last one, without being it.        *)
CannedIn(t) == {p \in DOMAIN Canned : Says(t, p)}

HasVietnamese(t) == Where(t, Vietnamese) # {}
IsAscii(t) == Where(t, Ascii) = DOMAIN t
IsAlphabetic(t) == Where(t, Alphabetic) = DOMAIN t

(* _has_learner_english_evidence: the branch on the ratio asks for two     *)
(* common words as well.                                                   *)
PhraseEvidence(t) ==
    /\ ~HasVietnamese(t)
    /\ Cardinality(Where(t, Common)) >= 2

(* _has_strong_learner_english_attempt: both of its first alternatives ask *)
(* for two common words, and the last is covered by the second.            *)
StrongAttempt(t) ==
    /\ Len(t) >= 3 /\ PhraseEvidence(t)
    /\ \/ Cardinality(Where(t, Common)) >= 3
       \/ Cardinality(Where(t, LongerThan(2) \ LowInfo)) >= 2

ControlledShort(t) ==
    /\ Len(t) \in 1..2 /\ ~HasVietnamese(t)
    /\ \E i \in DOMAIN t : Lexicon[t[i]].controlled

PlausibleShortText(t) ==
    /\ Len(t) \in 1..2 /\ ~HasVietnamese(t) /\ IsAscii(t) /\ IsAlphabetic(t)
    /\ t \notin Fragments
    /\ Where(t, LowInfo) # DOMAIN t
    /\ IF Len(t) = 1
       THEN \/ ControlledShort(t)
            \/ t[1] \in Common \intersect LongerThan(3)
            \/ t[1] \in LongerThan(4)
       ELSE Where(t, Anchors) # {} /\ Where(t, LongerThan(3)) # {}

-----------------------------------------------------------------------------
(***************************************************************************)
(* Transcripts that mix languages.                                         *)
(***************************************************************************)
(* The maximal stretches without a Vietnamese word.                        *)
Runs(t) ==
    {r \in (1..Len(t)) \X (1..Len(t)) : LET i == r[1] j == r[2] IN
        /\ i <= j
        /\ \A k \in i..j : t[k] \notin Vietnamese
        /\ (i = 1 \/ t[i - 1] \in Vietnamese)
        /\ (j = Len(t) \/ t[j + 1] \in Vietnamese)}

Piece(t, r) == SubSeq(t, r[1], r[2])
Letters(p) == Cardinality(UNION {{i} \X (0..Lexicon[p[i]].letters) : i \in DOMAIN p})  \* with the blanks

(* Anchors, then words, then letters; the first of equals.                 *)
Beats(p, q) ==
    LET a == Cardinality(Where(p, Anchors))
        b == Cardinality(Where(q, Anchors))
    IN  \/ a > b
        \/ a = b /\ Len(p) > Len(q)
        \/ a = b /\ Len(p) = Len(q) /\ Letters(p) > Letters(q)

Best(t, runs) ==
    CHOOSE r \in runs : \A q \in runs :
        ~Beats(Piece(t, q), Piece(t, r)) /\ (Beats(Piece(t, r), Piece(t, q)) \/ r[1] <= q[1])

Segments(t) ==
    {r \in Runs(t) :
        /\ Len(Piece(t, r)) >= 3
        /\ Piece(t, r) \notin Fragments
        /\ (PhraseEvidence(Piece(t, r)) \/ StrongAttempt(Piece(t, r)))}

WeakFragments(t) ==
    {r \in Runs(t) :
        LET p == Piece(t, r) IN
        /\ Len(p) <= 2 /\ IsAscii(p) /\ IsAlphabetic(p)
        /\ Where(p, LowInfo) # DOMAIN p
        /\ Where(p, Anchors) # {}
        /\ Len(p) = 2 => Where(p, LongerThan(3)) # {}}

(* _split_mixed_language_transcript.                                       *)
Split(t) ==
    IF ~HasVietnamese(t) THEN [text |-> t, mixed |-> "no"]
    ELSE IF Segments(t) # {} THEN [text |-> Piece(t, Best(t, Segments(t))), mixed |-> "filtered"]
    ELSE IF WeakFragments(t) # {} THEN [text |-> Piece(t, Best(t, WeakFragments(t))), mixed |-> "weak"]
    ELSE [text |-> << >>, mixed |-> "rejected"]

-----------------------------------------------------------------------------
(***************************************************************************)
(* Text and sound together.  a is a decode's figures: speech (ms), audio   *)
(* (ms), noSpeech, logprob, compression, lowRatio.                         *)
(***************************************************************************)
PlausibleShort(t, a) ==
    LET boosted == ControlledShort(t) IN
    /\ PlausibleShortText(t)
    /\ ~Under(a.speech, 300)
    /\ ~Over(a.noSpeech, IF boosted THEN 35 ELSE 30)
    /\ ~Under(a.logprob, IF boosted THEN -78 ELSE -70)
    /\ a.lowRatio <= (IF boosted THEN 45 ELSE 35)
    /\ ~Over(a.compression, 220)

PlausibleFragment(t, a) ==
    /\ t \in Fragments
    /\ ~HasVietnamese(t) /\ IsAscii(t) /\ CannedIn(t) = {}
    /\ ~Under(a.speech, 300) /\ ~Over(a.noSpeech, 35) /\ ~Under(a.logprob, -80)
    /\ a.lowRatio <= 45

Autocorrection(t, a) ==
    /\ ~PlausibleShort(t, a) /\ PhraseEvidence(t)
    /\ IsAscii(t) /\ Len(t) >= 3
    /\ a.lowRatio <= 25 /\ Under(a.logprob, -55)

StrongAcoustics(t, a) ==
    /\ ~HasVietnamese(t) /\ IsAscii(t)
    /\ a.logprob # None /\ a.logprob >= -50 /\ a.lowRatio <= 20

HighConfidence(a) ==
    /\ a.logprob # None /\ a.logprob >= -40
    /\ a.lowRatio <= 15 /\ ~Under(a.speech, 500)

(* _is_probable_stt_hallucination of a final.                              *)
Hallucination(t, a) ==
    /\ t # << >>
    /\ \/ \E k \in 3..(Len(t) \div 2) : \E i \in 0..(Len(t) - 2 * k) :
            SubSeq(t, i + 1, i + k) = SubSeq(t, i + k + 1, i + 2 * k)
       \/ \E p \in CannedIn(t) :
            /\ \A q \in CannedIn(t) : Canned[p].speech <= Canned[q].speech
            /\ (Under(a.speech, Canned[p].speech) \/ a.audio < Canned[p].audio)
       \/ t \in Fillers /\ Under(a.speech, 900)
       \/ t \notin Fillers /\ Len(t) > Larger(7, (a.audio * 48) \div 10000 + 4)

Suspicions(t, a) ==
    {s \in 1..8 :
        \/ s = 1 /\ ~PhraseEvidence(t) /\ ~StrongAttempt(t)
        \/ s = 2 /\ Under(a.logprob, -55)
        \/ s = 3 /\ Over(a.noSpeech, 20)
        \/ s = 4 /\ Over(a.compression, 160)
        \/ s = 5 /\ a.lowRatio > 25
        \/ s = 6 /\ Autocorrection(t, a)
        \/ s = 7 /\ Len(t) <= 2 /\ ~PlausibleShort(t, a)
        \/ s = 8 /\ Under(a.speech, 700)}

(* _should_run_non_english_verification.                                   *)
ShouldVerify(t, a) ==
    /\ Len(t) \in 1..6 /\ ~HasVietnamese(t) /\ IsAscii(t)
    /\ ~ /\ Len(t) <= 2 /\ PlausibleShort(t, a) /\ ~Under(a.speech, 450)
         /\ ~Over(a.noSpeech, 18) /\ ~Under(a.logprob, -45) /\ a.lowRatio <= 20
    /\ ~ /\ Len(t) > 2 /\ StrongAttempt(t) /\ PhraseEvidence(t) /\ ~Autocorrection(t, a)
         /\ ~Under(a.speech, 1000) /\ ~Over(a.noSpeech, 22) /\ ~Under(a.logprob, -60)
         /\ a.lowRatio <= 40
    /\ Cardinality(Suspicions(t, a)) >= (IF Len(t) <= 2 THEN 1 ELSE 2)

-----------------------------------------------------------------------------
(***************************************************************************)
(* The verdict on a final.                                                 *)
(***************************************************************************)
Evident(t, a) == PlausibleShort(t, a) \/ PlausibleFragment(t, a)

EligibleEnglish(t, a) ==
    /\ ~HasVietnamese(t)
    /\ \/ Evident(t, a) \/ PhraseEvidence(t) \/ StrongAttempt(t)
       \/ HighConfidence(a) \/ StrongAcoustics(t, a)

MinSpeech(t, a) ==
    IF Evident(t, a) THEN 300 ELSE IF EligibleEnglish(t, a) THEN 500 ELSE 1000

(* The bounds on the figures, relaxed for English, for a controlled short  *)
(* answer and most for a strong attempt.                                   *)
Bounds(t, a) ==
    IF StrongAttempt(t) THEN [noSpeech |-> 90, logprob |-> -130, lowRatio |-> 85]
    ELSE IF EligibleEnglish(t, a) THEN [noSpeech |-> 80, logprob |-> -115, lowRatio |-> 75]
    ELSE IF ControlledShort(t) THEN [noSpeech |-> 35, logprob |-> -78, lowRatio |-> 45]
    ELSE [noSpeech |-> 35, logprob |-> -65, lowRatio |-> 40]

(* By then everything else is passed: clean text of two words is English.  *)
NoEvidence(t, a) ==
    /\ ~EligibleEnglish(t, a)
    /\ ~(~HasVietnamese(t) /\ IsAscii(t) /\ Len(t) >= 2)

(* _stt_rejection_reason of a final: whether there is one.                 *)
Rejected(t, a) ==
    LET b == Bounds(t, a) IN
    \/ t = << >>
    \/ t \in Fragments /\ ~PlausibleFragment(t, a)
    \/ CannedIn(t) # {} /\ (Under(a.logprob, -45) \/ a.lowRatio > 15)
    \/ Under(a.speech, MinSpeech(t, a))
    \/ Over(a.compression, 220)
    \/ Over(a.noSpeech, b.noSpeech) \/ Under(a.logprob, b.logprob) \/ a.lowRatio > b.lowRatio
    \/ NoEvidence(t, a)

-----------------------------------------------------------------------------
(***************************************************************************)
(* What a turn is logged with.                                             *)
(***************************************************************************)
(* How the second decode, without a language forced on it, ends.  It is    *)
(* "elsewhere" when it heard another language, less than surely.           *)
Verifications == {"skipped", "unavailable", "suppressed", "verified", "elsewhere"}

Uncertainties(t, a, verification, mixed) ==
    LET base ==
        {u \in {"low_average_logprob", "high_no_speech_probability",
                "many_low_confidence_words", "short_utterance"} :
            \/ u = "low_average_logprob" /\ Under(a.logprob, -55)
            \/ u = "high_no_speech_probability" /\ Over(a.noSpeech, 25)
            \/ u = "many_low_confidence_words" /\ a.lowRatio > 25
            \/ u = "short_utterance" /\ ~PlausibleShort(t, a) /\ Under(a.speech, 500)}
        more == base \union
        {u \in {"possible_stt_autocorrection", "mixed_language_filtered",
                "verification_unavailable", "verification_language_mismatch"} :
            \/ u = "possible_stt_autocorrection" /\ Autocorrection(t, a)
            \/ u = "mixed_language_filtered" /\ mixed # "no"
            \/ u = "verification_unavailable" /\ verification = "unavailable"
            \/ u = "verification_language_mismatch" /\ verification = "elsewhere"}
        borderline ==
            /\ ~PhraseEvidence(t) /\ ~PlausibleShort(t, a) /\ StrongAcoustics(t, a)
            /\ (base # {} \/ (more = {} /\ ~HighConfidence(a)))
    IN  more \union (IF borderline THEN {"borderline_learner_english"} ELSE {})

(* Mutant: a fragment counts as evidence.                                  *)
AssessGenerously(t, a, verification, mixed) ==
    [kind |-> "USER_TURN", text |-> t, figures |-> a,
     segment |-> IF mixed = "no" THEN None ELSE IF mixed = "weak" THEN << >> ELSE t,
     eligible |-> mixed # "weak", excluded |-> mixed = "weak",
     language |-> IF mixed = "no" THEN "english" ELSE "mixed",
     reasons |-> Uncertainties(t, a, verification, mixed)]

(* _stt_quality_assessment: the event a turn is logged as.  A weak leftover *)
(* of a mixed text is logged without a segment to grade.                   *)
Assess(t, a, verification, mixed) ==
    [kind |-> "USER_TURN", text |-> t, figures |-> a,
     segment |-> IF mixed = "no" THEN None ELSE IF mixed = "weak" THEN << >> ELSE t,
     eligible |-> ~PlausibleFragment(t, a) /\ mixed # "weak",
     excluded |-> mixed = "weak",
     language |-> IF mixed = "no" THEN "english" ELSE "mixed",
     reasons |-> Uncertainties(t, a, verification, mixed)
        \union (IF PlausibleFragment(t, a) THEN {"short_utterance", "incomplete_fragment"} ELSE {})
        \union (IF mixed = "weak" THEN {"weak_mixed_language_english"} ELSE {})]

(* The steps of the inference loop on a decoded final of text t0.  First   *)
(* the screening of the text, *)
Screened(t0, a) ==
    Split(t0).mixed # "rejected" /\ ~Hallucination(Split(t0).text, a)

(* then a second decode, when it is switched on, if the first is doubtful, *)
Doubtful(t0, a) ==
    t0 # << >> /\ Split(t0).mixed = "no" /\ ShouldVerify(t0, a)

(* then the verdict, with what the second decode said: the turn that is    *)
(* logged, if any.                                                         *)
Turns(t0, a, verification) ==
    LET t == Split(t0).text
        turn == Assess(t, a, verification, Split(t0).mixed)
    IN  IF \/ verification = "suppressed"
           \/ Rejected(t, a)
           \/ "verification_language_mismatch" \in turn.reasons
        THEN {} ELSE {turn}
================================================================================
