------------------------------ MODULE MCSpeechTurn ------------------------------
(* An instance of SpeechTurn: a handful of words that stand for the entries *)
(* of the code's word lists, and decodes on both sides of each threshold.   *)
EXTENDS SpeechTurn, TLC

W(common, controlled, lowInfo, viet, letters) ==
    [common |-> common, controlled |-> controlled, lowInfo |-> lowInfo, viet |-> viet,
     ascii |-> ~viet, alpha |-> TRUE, letters |-> letters]

MCLexicon ==
    [i |-> W(TRUE, FALSE, FALSE, FALSE, 1), go |-> W(TRUE, FALSE, FALSE, FALSE, 2),
     school |-> W(TRUE, FALSE, FALSE, FALSE, 6), hello |-> W(FALSE, TRUE, FALSE, FALSE, 5),
     what |-> W(TRUE, TRUE, FALSE, FALSE, 4), is |-> W(TRUE, FALSE, TRUE, FALSE, 2),
     tired |-> W(FALSE, FALSE, FALSE, FALSE, 5), thanks |-> W(TRUE, FALSE, FALSE, FALSE, 6),
     toi |-> W(FALSE, FALSE, FALSE, TRUE, 3),
     covid19 |-> [W(FALSE, FALSE, FALSE, FALSE, 7) EXCEPT !.alpha = FALSE]]

MCFragments == {<<"what", "is">>}
MCCanned == (<<"go", "go", "tired">> :> [speech |-> 1500, audio |-> 2000])
MCFillers == {<<"thanks">>}

F(noSpeech, logprob, lowRatio) ==
    [noSpeech |-> noSpeech, logprob |-> logprob, lowRatio |-> lowRatio, compression |-> 120]
Clear == F(10, -30, 10)
Fair == F(28, -60, 20)
Poor == F(60, -100, 60)

MCDecodes ==
    {[text |-> t, figures |-> Clear] : t \in {<<"hello">>, <<"covid19">>, <<"toi", "go">>, <<"go", "go", "tired">>}}
    \union {[text |-> t, figures |-> Fair] : t \in {<<"what", "is">>, <<"toi", "i", "go", "school">>}}
    \union {[text |-> t, figures |-> Poor] : t \in {<<"i", "go", "school">>, <<"tired", "tired">>}}

Reply(kind, fluency, pronunciation, skills) ==
    [kind |-> kind, fluency |-> fluency, grammar |-> 400, vocab |-> 700,
     pronunciation |-> pronunciation, summary |-> TRUE, corrections |-> <<TRUE, FALSE>>,
     skills |-> skills]
MCAnswers ==
    {Failed, Reply("text", 500, None, << >>), Reply("object", 1100, None, << >>),
     Reply("object", 500, 0, <<[skill |-> "grammar", summary |-> "a"],
                               [skill |-> "fluency", summary |-> "b"],
                               [skill |-> "grammar", summary |-> "c"]>>)}
MCReplies == {<<"hello", "thanks">>}
================================================================================
