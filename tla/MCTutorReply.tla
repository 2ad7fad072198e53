------------------------------ MODULE MCTutorReply ------------------------------
(* An instance of TutorReply: answers in one token and in several, with the *)
(* marker of the feedback whole or in halves, one that fails half way.      *)
EXTENDS TutorReply

Script(chunks, fails) == [chunks |-> chunks, fails |-> fails]
MCScripts ==
    <<{Script(<<<<R, 1>>, <<2, NL, Fa, Fb>>>>, FALSE), Script(<< >>, TRUE)}, {Script(<<<<R, 1>>>>, FALSE)}>>
MCFallback == <<12>>
MCGreeting == <<1, 2>>
================================================================================
