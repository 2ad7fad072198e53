--------------------------- MODULE GradingContract ---------------------------
(***************************************************************************)
(* What the grading pipeline promises a client that polls                  *)
(* GET /sessions/{id}/grading/status: per session a phase that moves       *)
(* forward from waiting to an outcome.  A failed session may be tried      *)
(* again, a result is reached only through an attempt, and it is final.    *)
(***************************************************************************)
CONSTANT Sessions

VARIABLE phase

Waiting == {"pending", "insufficient_evidence"}

Init == phase \in [Sessions -> {"pending"}]

Move(s, from, to) ==
    /\ phase[s] \in from
    /\ \E p \in to : phase' = [phase EXCEPT ![s] = p]

(* Before any attempt the phase reflects the transcript that is stored.    *)
Assess(s) == Move(s, Waiting, Waiting)

Attempt(s) == Move(s, Waiting \union {"failed", "processing"}, {"processing", "failed"})

Succeed(s) == Move(s, {"processing", "failed"}, {"graded"})

Next == \E s \in Sessions : Assess(s) \/ Attempt(s) \/ Succeed(s)

Spec == Init /\ [][Next]_phase
=============================================================================
