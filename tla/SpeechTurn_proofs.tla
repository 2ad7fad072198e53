---------------------------- MODULE SpeechTurn_proofs ----------------------------
(***************************************************************************)
(* The count of the inference queue and the evidence in the event log, for  *)
(* microphones, decoders, lexicons and thresholds of every kind.            *)
(***************************************************************************)
EXTENDS SpeechTurn, SequenceTheorems, FiniteSetTheorems, TLAPS

(* An utterance under collection: silence ends it, and without silence it   *)
(* never passes its limit.                                                 *)
Collects(m) ==
    /\ m \in Microphone
    /\ m.speaking => m.pcm < MaxUtterance + m.silence /\ m.silence < SilenceFrames
    /\ ~m.speaking => m.pcm = 0

JobsHold ==
    /\ queue \in Seq(Utterances \union {StopJob}) /\ Len(queue) <= 1 /\ unfinished \in Nat
    /\ QueueAccounting

(* What the loop is at work on came out of the queue and of the decoder.    *)
LoopHolds ==
    /\ loop.at \in {"waiting", "decoding", "verifying", "replying", "pausing", "stopped"}
    /\ loop.at \in {"decoding", "verifying"} => loop.job \in Utterances
    /\ loop.at = "verifying" =>
        \E d \in Decodes, job \in Utterances : loop.text = d.text /\ loop.figures = Figures(d, job)

(* The turns the gate can let through, and those of the tutor.              *)
Heard == UNION {Turns(d.text, Figures(d, job), v) : d \in Decodes, job \in Utterances, v \in Verifications}
Told == {[kind |-> "AI_TURN", text |-> text] : text \in Replies}
LogHolds == log \in Seq(Heard \union Told)

SpeechInv ==
    /\ Collects(mic) /\ JobsHold /\ LoopHolds /\ LogHolds
    /\ sent \in 0..MaxFrames /\ assistant \in BOOLEAN /\ owed \in Nat
    /\ barging \in [before : Nat, after : Nat]

-----------------------------------------------------------------------------
(***************************************************************************)
(* Finite sets.                                                             *)
(***************************************************************************)
(* In a finite set with a strict order some element is not beaten: one with *)
(* the fewest elements above it.                                            *)
LEMMA Unbeaten ==
    ASSUME NEW S, IsFiniteSet(S), S # {}, NEW R,
           \A x \in S : <<x, x>> \notin R,
           \A x, y, z \in S : <<x, y>> \in R /\ <<y, z>> \in R => <<x, z>> \in R
    PROVE  \E x \in S : \A y \in S : <<y, x>> \notin R
<1> DEFINE Above(x) == {y \in S : <<y, x>> \in R}
           W == {Above(x) : x \in S}
<1>1. W \subseteq FiniteSubsetsOf(S) /\ W # {}
  <2>1. FiniteSubsetsOf(S) = SUBSET S
      BY FS_FiniteSubsetsOfFinite
  <2>2. \A x \in S : Above(x) \in FiniteSubsetsOf(S)
      BY <2>1
  <2> HIDE DEF Above
  <2> QED
      BY <2>2
<1>2. PICK A \in W : \A B \in W : <<B, A>> \notin StrictSubsetOrdering(S)
    BY <1>1, FS_StrictSubsetOrderingWellFounded, WFMin
<1>3. PICK x \in S : A = Above(x)
    OBVIOUS
<1>4. \A y \in S : <<y, x>> \notin R
  <2> SUFFICES ASSUME NEW y \in S, <<y, x>> \in R PROVE FALSE
      OBVIOUS
  <2>1. Above(y) \subseteq Above(x) /\ y \in Above(x) /\ y \notin Above(y)
      OBVIOUS
  <2>2. <<Above(y), Above(x)>> \in StrictSubsetOrdering(S)
      BY <2>1 DEF StrictSubsetOrdering
  <2> QED
      BY <2>2, <1>2, <1>3
<1> QED
    BY <1>4

(* What a function takes a finite set to.                                   *)
LEMMA FiniteImage ==
    ASSUME NEW S, IsFiniteSet(S), NEW f, DOMAIN f = S
    PROVE  IsFiniteSet({f[x] : x \in S})
<1> DEFINE T == {f[x] : x \in S}
           g == [x \in S |-> f[x]]
<1>1. g \in Surjection(S, T)
    BY DEF Surjection
<1> QED
    BY <1>1, FS_Surjection

LEMMA FiniteFamily ==
    ASSUME NEW S, IsFiniteSet(S), NEW f, DOMAIN f = S, \A x \in S : IsFiniteSet(f[x])
    PROVE  IsFiniteSet(UNION {f[x] : x \in S})
<1> DEFINE T == {f[x] : x \in S}
<1>1. IsFiniteSet(T)
    BY FiniteImage
<1>2. \A A \in T : IsFiniteSet(A)
    OBVIOUS
<1> QED
    BY <1>1, <1>2, FS_UNION

(* Places of a sequence are finitely many.                                  *)
LEMMA FinitePlaces ==
    ASSUME NEW S, NEW s \in Seq(S), NEW T \in SUBSET DOMAIN s
    PROVE  IsFiniteSet(T) /\ Cardinality(T) \in Nat
<1>1. DOMAIN s = 1..Len(s) /\ Len(s) \in Int
    BY LenProperties
<1>2. IsFiniteSet(DOMAIN s)
    BY <1>1, FS_Interval
<1> QED
    BY <1>2, FS_Subset, FS_CardinalityType

-----------------------------------------------------------------------------
(***************************************************************************)
(* The gate.                                                                *)
(***************************************************************************)
(* A stretch of a text that holds no Vietnamese word.                       *)
LEMMA StretchOfText ==
    ASSUME NEW t \in Seq(Words), NEW r \in Runs(t)
    PROVE  Piece(t, r) \in Seq(Words) /\ ~HasVietnamese(Piece(t, r)) /\ Piece(t, r) # << >>
<1>1. /\ r[1] \in 1..Len(t) /\ r[2] \in 1..Len(t) /\ r[1] <= r[2]
      /\ \A k \in r[1]..r[2] : t[k] \notin Vietnamese
    BY DEF Runs
<1>2. Len(t) \in Nat /\ \A k \in 1..Len(t) : t[k] \in Words
    BY LenProperties, ElementOfSeq
<1>3. r[1] \in Int /\ r[2] \in Int /\ \A k \in r[1]..r[2] : t[k] \in Words
    BY <1>1, <1>2
<1>4. /\ Piece(t, r) \in Seq(Words)
      /\ Len(Piece(t, r)) = r[2] - r[1] + 1
      /\ \A k \in 1..(r[2] - r[1] + 1) : Piece(t, r)[k] = t[r[1] + k - 1]
    BY <1>1, <1>3, SubSeqProperties DEF Piece
<1>5. \A k \in DOMAIN Piece(t, r) : Piece(t, r)[k] \notin Vietnamese
  <2>1. DOMAIN Piece(t, r) = 1..(r[2] - r[1] + 1)
      BY <1>4, LenProperties
  <2>2. \A k \in 1..(r[2] - r[1] + 1) : r[1] + k - 1 \in r[1]..r[2]
      BY <1>3
  <2> QED
      BY <1>1, <1>4, <2>1, <2>2
<1>6. Len(Piece(t, r)) # 0
    BY <1>1, <1>3, <1>4
<1> QED
    BY <1>4, <1>5, <1>6, EmptySeq DEF HasVietnamese, Where

(* What stretches are compared by is counted.                               *)
LEMMA StretchIsCounted ==
    ASSUME NEW p \in Seq(Words)
    PROVE  Cardinality(Where(p, Anchors)) \in Nat /\ Len(p) \in Nat /\ Letters(p) \in Nat
<1>1. Cardinality(Where(p, Anchors)) \in Nat
    BY FinitePlaces DEF Where
<1>2. Len(p) \in Nat
    BY LenProperties
<1>3. Letters(p) \in Nat
  <2> DEFINE f == [i \in DOMAIN p |-> {i} \X (0..Lexicon[p[i]].letters)]
  <2>1. IsFiniteSet(DOMAIN p)
      BY FinitePlaces
  <2>2. \A i \in DOMAIN p : IsFiniteSet(f[i])
    <3> SUFFICES ASSUME NEW i \in DOMAIN p PROVE IsFiniteSet({i} \X (0..Lexicon[p[i]].letters))
        OBVIOUS
    <3>1. p[i] \in Words
        BY ElementOfSeq, LenProperties
    <3>2. Lexicon[p[i]].letters \in Int
        BY <3>1, LexiconAssumption
    <3>3. \A n \in Int : IsFiniteSet(0..n)
        BY FS_Interval
    <3>4. IsFiniteSet({i})
        BY FS_Singleton
    <3>5. IsFiniteSet(0..Lexicon[p[i]].letters)
        BY <3>2, <3>3
    <3> QED
        BY <3>4, <3>5, FS_Product
  <2>3. IsFiniteSet(UNION {f[i] : i \in DOMAIN p})
    <3>1. DOMAIN f = DOMAIN p
        OBVIOUS
    <3> HIDE DEF f
    <3> QED
        BY <2>1, <2>2, <3>1, FiniteFamily
  <2>4. UNION {f[i] : i \in DOMAIN p} = UNION {{i} \X (0..Lexicon[p[i]].letters) : i \in DOMAIN p}
      OBVIOUS
  <2> QED
      BY <2>3, <2>4, FS_CardinalityType DEF Letters
<1> QED
    BY <1>1, <1>2, <1>3

(* The order of stretches: more anchors, more words, more letters, earlier. *)
Ahead(a1, n1, l1, p1, a2, n2, l2, p2) ==
    \/ a1 > a2
    \/ a1 = a2 /\ n1 > n2
    \/ a1 = a2 /\ n1 = n2 /\ l1 > l2
    \/ a1 = a2 /\ n1 = n2 /\ l1 = l2 /\ p1 < p2

LEMMA AheadIsTransitive ==
    ASSUME NEW a1 \in Int, NEW n1 \in Int, NEW l1 \in Int, NEW p1 \in Int,
           NEW a2 \in Int, NEW n2 \in Int, NEW l2 \in Int, NEW p2 \in Int,
           NEW a3 \in Int, NEW n3 \in Int, NEW l3 \in Int, NEW p3 \in Int,
           Ahead(a1, n1, l1, p1, a2, n2, l2, p2), Ahead(a2, n2, l2, p2, a3, n3, l3, p3)
    PROVE  Ahead(a1, n1, l1, p1, a3, n3, l3, p3)
  BY DEF Ahead

(* There is a best one among stretches of a text: no other beats it, and    *)
(* its equals come after it.                                                *)
LEMMA BestIsThere ==
    ASSUME NEW t \in Seq(Words), NEW runs \in SUBSET Runs(t), runs # {}
    PROVE  Best(t, runs) \in runs
<1> DEFINE a(r) == Cardinality(Where(Piece(t, r), Anchors))
           n(r) == Len(Piece(t, r))
           l(r) == Letters(Piece(t, r))
           Better(q, r) == Beats(Piece(t, q), Piece(t, r)) \/ (~Beats(Piece(t, r), Piece(t, q)) /\ q[1] < r[1])
           R == {qr \in runs \X runs : Better(qr[1], qr[2])}
<1>1. \A r \in runs : a(r) \in Nat /\ n(r) \in Nat /\ l(r) \in Nat /\ r[1] \in Int
  <2>1. \A r \in runs : Piece(t, r) \in Seq(Words)
      BY StretchOfText
  <2>2. \A r \in runs : r[1] \in Int
      BY LenProperties DEF Runs
  <2> QED
      BY <2>1, <2>2, StretchIsCounted
<1>2. \A q, r \in runs : Beats(Piece(t, q), Piece(t, r)) <=>
            \/ a(q) > a(r)
            \/ a(q) = a(r) /\ n(q) > n(r)
            \/ a(q) = a(r) /\ n(q) = n(r) /\ l(q) > l(r)
    BY DEF Beats
<1>3. IsFiniteSet(runs)
  <2>1. Len(t) \in Int
      BY LenProperties
  <2>2. IsFiniteSet(1..Len(t))
      BY <2>1, FS_Interval
  <2>3. runs \subseteq (1..Len(t)) \X (1..Len(t))
      BY DEF Runs
  <2>4. IsFiniteSet((1..Len(t)) \X (1..Len(t)))
      BY <2>2, FS_Product
  <2> QED
      BY <2>3, <2>4, FS_Subset
<1> HIDE DEF a, n, l
<1>4. \A x \in runs : ~Better(x, x)
    BY <1>1, <1>2
<1>5. \A x, y, z \in runs : Better(x, y) /\ Better(y, z) => Better(x, z)
  <2>1. \A q, r \in runs : Better(q, r) <=> Ahead(a(q), n(q), l(q), q[1], a(r), n(r), l(r), r[1])
      BY <1>1, <1>2 DEF Ahead
  <2> HIDE DEF Better
  <2> SUFFICES ASSUME NEW x \in runs, NEW y \in runs, NEW z \in runs, Better(x, y), Better(y, z)
               PROVE  Better(x, z)
      OBVIOUS
  <2>2. Ahead(a(x), n(x), l(x), x[1], a(y), n(y), l(y), y[1])
      BY <2>1
  <2>3. Ahead(a(y), n(y), l(y), y[1], a(z), n(z), l(z), z[1])
      BY <2>1
  <2>4. /\ a(x) \in Int /\ n(x) \in Int /\ l(x) \in Int /\ x[1] \in Int
        /\ a(y) \in Int /\ n(y) \in Int /\ l(y) \in Int /\ y[1] \in Int
        /\ a(z) \in Int /\ n(z) \in Int /\ l(z) \in Int /\ z[1] \in Int
      BY <1>1
  <2>5. Ahead(a(x), n(x), l(x), x[1], a(z), n(z), l(z), z[1])
      BY <2>2, <2>3, <2>4, AheadIsTransitive
  <2> QED
      BY <2>1, <2>5
<1>6. PICK r \in runs : \A q \in runs : ~Better(q, r)
  <2> HIDE DEF Better
  <2>1. \A x \in runs : <<x, x>> \notin R
      BY <1>4
  <2>2. \A x, y, z \in runs : <<x, y>> \in R /\ <<y, z>> \in R => <<x, z>> \in R
      BY <1>5
  <2>3. \E x \in runs : \A y \in runs : <<y, x>> \notin R
    <3> HIDE DEF R
    <3> QED
        BY <1>3, <2>1, <2>2, Unbeaten
  <2> QED
      BY <2>3
<1>7. \A q \in runs :
        ~Beats(Piece(t, q), Piece(t, r)) /\ (Beats(Piece(t, r), Piece(t, q)) \/ r[1] <= q[1])
    BY <1>1, <1>6
<1> QED
    BY <1>7 DEF Best

(* What is left of a text when its Vietnamese is cut away: a text of the    *)
(* lexicon's words without a Vietnamese one.                                *)
THEOREM SplitIsEnglish ==
    ASSUME NEW t \in Seq(Words)
    PROVE  Split(t).text \in Seq(Words) /\ ~HasVietnamese(Split(t).text)
<1>1. CASE ~HasVietnamese(t)
    BY <1>1 DEF Split
<1>2. CASE HasVietnamese(t) /\ Segments(t) # {}
  <2>1. Segments(t) \in SUBSET Runs(t)
      BY DEF Segments
  <2>2. Best(t, Segments(t)) \in Runs(t)
      BY <1>2, <2>1, BestIsThere
  <2> QED
      BY <1>2, <2>2, StretchOfText DEF Split
<1>3. CASE HasVietnamese(t) /\ Segments(t) = {} /\ WeakFragments(t) # {}
  <2>1. WeakFragments(t) \in SUBSET Runs(t)
      BY DEF WeakFragments
  <2>2. Best(t, WeakFragments(t)) \in Runs(t)
      BY <1>3, <2>1, BestIsThere
  <2> QED
      BY <1>3, <2>2, StretchOfText DEF Split
<1>4. CASE HasVietnamese(t) /\ Segments(t) = {} /\ WeakFragments(t) = {}
  <2>1. Split(t).text = << >>
      BY <1>4 DEF Split
  <2>2. DOMAIN << >> = {}
      OBVIOUS
  <2> QED
      BY <2>1, <2>2, EmptySeq DEF HasVietnamese, Where
<1> QED
    BY <1>1, <1>2, <1>3, <1>4

(* What the gate lets through as evidence is English that was heard.        *)
LEMMA TurnIsEarned ==
    ASSUME NEW t0, NEW a, NEW v, NEW turn \in Turns(t0, a, v), Reliable(turn),
           a.speech \in Int, a.logprob \in Int \union {None}, a.lowRatio \in Int
    PROVE  Earned(turn)
<1> DEFINE t == Split(t0).text
           mixed == Split(t0).mixed
<1>1. turn = Assess(t, a, v, mixed) /\ ~Rejected(t, a)
    BY DEF Turns
<1> HIDE DEF t, mixed
<1>2. /\ turn.figures = a /\ turn.text = t /\ turn.kind = "USER_TURN"
      /\ turn.segment \in {None, << >>, t}
      /\ turn.eligible => ~PlausibleFragment(t, a)
    BY <1>1 DEF Assess
<1>3. ~PlausibleFragment(t, a)
    BY <1>2 DEF Reliable
<1>4. GradingText(turn) = t
    BY <1>2 DEF GradingText
<1>5. ~HasVietnamese(t)
    BY <1>1 DEF Rejected, NoEvidence, EligibleEnglish
<1>6. t \notin Fragments
    BY <1>1, <1>3 DEF Rejected
<1>7. Under(a.speech, 500) => PlausibleShort(t, a)
  <2> SUFFICES ASSUME Under(a.speech, 500), ~Evident(t, a) PROVE FALSE
      BY <1>3 DEF Evident
  <2>1. MinSpeech(t, a) \in {500, 1000}
      BY DEF MinSpeech
  <2>2. Under(a.speech, MinSpeech(t, a))
      BY <2>1 DEF Under
  <2> QED
      BY <1>1, <2>2 DEF Rejected
<1>8. Under(a.logprob, -78) \/ a.lowRatio > 45 => PhraseEvidence(t)
  <2> SUFFICES ASSUME Under(a.logprob, -78) \/ a.lowRatio > 45, ~PhraseEvidence(t) PROVE FALSE
      OBVIOUS
  <2>1. ~StrongAttempt(t)
      BY DEF StrongAttempt
  <2>2. ~PlausibleShort(t, a)
      BY DEF PlausibleShort, Under
  <2>3. ~HighConfidence(a) /\ ~StrongAcoustics(t, a)
      BY DEF HighConfidence, StrongAcoustics, Under
  <2>4. ~EligibleEnglish(t, a)
      BY <1>3, <2>1, <2>2, <2>3 DEF EligibleEnglish, Evident
  <2>5. Bounds(t, a) \in {[noSpeech |-> 35, logprob |-> -78, lowRatio |-> 45],
                          [noSpeech |-> 35, logprob |-> -65, lowRatio |-> 40]}
      BY <2>1, <2>4 DEF Bounds
  <2>6. Under(a.logprob, Bounds(t, a).logprob) \/ a.lowRatio > Bounds(t, a).lowRatio
    <3>1. CASE Bounds(t, a) = [noSpeech |-> 35, logprob |-> -78, lowRatio |-> 45]
        BY <3>1
    <3>2. CASE Bounds(t, a) = [noSpeech |-> 35, logprob |-> -65, lowRatio |-> 40]
        BY <3>2 DEF Under
    <3> QED
        BY <2>5, <3>1, <3>2
  <2> QED
      BY <1>1, <2>6 DEF Rejected
<1> QED
    BY <1>2, <1>4, <1>5, <1>6, <1>7, <1>8 DEF Earned

(* And so is every turn of the log.                                         *)
LEMMA HeardIsEarned ==
    ASSUME NEW e \in Heard \union Told, Reliable(e)
    PROVE  Earned(e)
<1>1. e \in Heard
    BY DEF Told, Reliable, UserTurn
<1>2. PICK d \in Decodes, job \in Utterances, v \in Verifications : e \in Turns(d.text, Figures(d, job), v)
    BY <1>1 DEF Heard
<1>3. /\ Figures(d, job).speech \in Int
      /\ Figures(d, job).logprob \in Int \union {None}
      /\ Figures(d, job).lowRatio \in Int
    BY DecodesAssumption DEF Figures, Utterances
<1> QED
    BY <1>2, <1>3, TurnIsEarned

-----------------------------------------------------------------------------
(***************************************************************************)
(* The microphone and the queue.                                            *)
(***************************************************************************)
(* The speech of an utterance is counted in whole milliseconds.             *)
LEMMA SpeechIsCounted ==
    ASSUME NEW m \in Microphone, NEW n \in Nat
    PROVE  SpeechMs(m, n) \in Nat
<1>1. m.speech \in Nat /\ m.frames \in Nat /\ FrameMs \in Nat
    BY SpeechAssumption DEF Microphone
<1>2. \A x, y \in Nat : x * y \in Nat
    OBVIOUS
<1>3. m.speech * n * FrameMs \in Nat
    BY <1>1, <1>2
<1>4. \A x \in Nat, y \in Nat \ {0} : x \div y \in Nat
    OBVIOUS
<1> QED
    BY <1>1, <1>3, <1>4 DEF SpeechMs

LEMMA JobIsUtterance ==
    ASSUME NEW m \in Microphone, NEW n \in Nat, NEW kind \in {"partial", "final"}, NEW suppress \in BOOLEAN
    PROVE  Job(kind, m, n, suppress) \in Utterances
  BY SpeechIsCounted DEF Job, Utterances

(* A queue of one job, or of none.                                          *)
LEMMA ShortQueues ==
    /\ << >> \in Seq(Utterances \union {StopJob}) /\ Len(<< >>) = 0
    /\ \A job \in Utterances \union {StopJob} :
        <<job>> \in Seq(Utterances \union {StopJob}) /\ Len(<<job>>) = 1
  OBVIOUS

LEMMA FinalKeepsCount ==
    ASSUME JobsHold, NEW job \in Utterances, EnqueueFinal(job), UNCHANGED loop
    PROVE  JobsHold'
<1>1. CASE FinalQueued \/ stopping = "stopped"
    BY <1>1 DEF EnqueueFinal, JobsHold, QueueAccounting, jobs
<1>2. CASE ~(FinalQueued \/ stopping = "stopped")
  <2>1. queue' = <<job>> /\ unfinished' = unfinished - Len(queue) + 1
      BY <1>2 DEF EnqueueFinal
  <2>2. Len(queue) \in Nat
      BY LenProperties DEF JobsHold
  <2> QED
      BY <2>1, <2>2, ShortQueues DEF JobsHold, QueueAccounting
<1> QED
    BY <1>1, <1>2

LEMMA PartialKeepsCount ==
    ASSUME JobsHold, NEW job \in Utterances, EnqueuePartial(job), UNCHANGED loop
    PROVE  JobsHold'
<1>1. CASE loop.at = "decoding" \/ queue # << >> \/ stopping = "stopped"
    BY <1>1 DEF EnqueuePartial, JobsHold, QueueAccounting, jobs
<1>2. CASE queue = << >> /\ queue' = <<job>> /\ unfinished' = unfinished + 1
    BY <1>2, ShortQueues DEF JobsHold, QueueAccounting
<1> QED
    BY <1>1, <1>2 DEF EnqueuePartial

LEMMA JobsUnchanged ==
    ASSUME JobsHold, UNCHANGED <<jobs, loop>>
    PROVE  JobsHold'
  BY DEF jobs, JobsHold, QueueAccounting

LEMMA ResetCollects ==
    ASSUME NEW m \in Microphone
    PROVE  Collects(Reset(m)) /\ Collects(Quiet)
<1>1. PreRollFrames \in Nat /\ m.preRoll \in 0..PreRollFrames
    BY SpeechAssumption DEF Microphone
<1>2. Quiet \in Microphone /\ ~Quiet.speaking /\ Quiet.pcm = 0
    BY <1>1 DEF Quiet, Microphone
<1>3. /\ Reset(m) \in Microphone
      /\ ~Reset(m).speaking /\ Reset(m).pcm = 0
    BY <1>1, <1>2 DEF Reset, Microphone
<1> QED
    BY <1>2, <1>3 DEF Collects

LEMMA PreRollCollects ==
    ASSUME NEW m, Collects(m)
    PROVE  Collects(PreRoll(m))
<1>1. m \in Microphone /\ m.preRoll \in 0..PreRollFrames /\ PreRollFrames \in Nat
    BY SpeechAssumption DEF Collects, Microphone
<1>2. Least(m.preRoll + 1, PreRollFrames) \in 0..PreRollFrames
    BY <1>1 DEF Least
<1> QED
    BY <1>1, <1>2 DEF PreRoll, Collects, Microphone

LEMMA FinalizeKeeps ==
    ASSUME JobsHold, NEW m \in Microphone, NEW suppress \in BOOLEAN, Finalize(m, suppress), UNCHANGED loop
    PROVE  Collects(mic') /\ JobsHold'
<1>1. m.pcm \in Nat
    BY DEF Microphone
<1> QED
    BY <1>1, JobIsUtterance, FinalKeepsCount, ResetCollects DEF Finalize

(* An utterance with other counts is one.                                   *)
Counting(m, pending, pcm, silence, frames, speech) ==
    [m EXCEPT !.pending = pending, !.pcm = pcm, !.silence = silence, !.frames = frames, !.speech = speech]

LEMMA CountingKeeps ==
    ASSUME NEW m \in Microphone, NEW pending \in Nat, NEW pcm \in Nat, NEW silence \in Nat, NEW frames \in Nat,
           NEW speech \in Nat
    PROVE  Counting(m, pending, pcm, silence, frames, speech) \in Microphone
  BY DEF Microphone, Counting

LEMMA VoicedKeeps ==
    ASSUME JobsHold, NEW m, Collects(m), Voiced(m), UNCHANGED loop
    PROVE  Collects(mic') /\ JobsHold'
<1> DEFINE begun == IF m.speaking THEN m
                    ELSE [m EXCEPT !.speaking = TRUE, !.frames = 0, !.speech = 0,
                                   !.pcm = IF @ = 0 THEN m.preRoll ELSE @]
           grown == [begun EXCEPT !.pending = @ + 1, !.pcm = @ + 1, !.silence = 0,
                                  !.frames = @ + 1, !.speech = @ + 1]
           window == Least(grown.pcm, PartialWindow)
           mayBeDue == grown.pcm >= PartialFrames /\ SpeechMs(grown, grown.pcm) >= PartialSpeechMs
<1>1. begun \in Microphone /\ begun.speaking
  <2>1. m \in Microphone /\ m.pcm \in Nat /\ m.preRoll \in Nat
      BY SpeechAssumption DEF Collects, Microphone
  <2>2. \A pcm \in Nat :
          LET start == [m EXCEPT !.speaking = TRUE, !.frames = 0, !.speech = 0, !.pcm = pcm]
          IN  start \in Microphone /\ start.speaking
      BY <2>1 DEF Microphone
  <2> QED
      BY <2>1, <2>2
<1>2. \/ mic' = [m EXCEPT !.pending = @ + 1] /\ UNCHANGED jobs
      \/ Finalize(grown, FALSE)
      \/ /\ ~(grown.pcm >= MaxUtterance)
         /\ EnqueuePartial(Job("partial", grown, window, FALSE))
         /\ mic' = [grown EXCEPT !.partial = TRUE]
      \/ ~(grown.pcm >= MaxUtterance) /\ mic' = grown /\ UNCHANGED jobs
    BY DEF Voiced
<1> HIDE DEF begun
<1>3. grown \in Microphone /\ grown.speaking /\ grown.silence = 0 /\ grown.pcm \in Nat
  <2>1. /\ begun.pending + 1 \in Nat /\ begun.pcm + 1 \in Nat /\ begun.frames + 1 \in Nat
        /\ begun.speech + 1 \in Nat /\ 0 \in Nat
      BY <1>1 DEF Microphone
  <2>2. grown = Counting(begun, begun.pending + 1, begun.pcm + 1, 0, begun.frames + 1, begun.speech + 1)
      BY DEF Counting
  <2>3. grown.speaking = begun.speaking /\ grown.pcm = begun.pcm + 1 /\ grown.silence = 0
      BY <1>1 DEF Microphone
  <2> HIDE DEF grown
  <2>4. grown \in Microphone
      BY <1>1, <2>1, <2>2, CountingKeeps
  <2> QED
      BY <1>1, <2>1, <2>3, <2>4
<1> HIDE DEF grown
<1>4. window \in Nat
    BY <1>3, SpeechAssumption DEF Least
<1> HIDE DEF window
<1>5. ~(grown.pcm >= MaxUtterance) => Collects(grown) /\ Collects([grown EXCEPT !.partial = TRUE])
  <2>1. LET more == [grown EXCEPT !.partial = TRUE] IN
        /\ more \in Microphone
        /\ more.speaking = grown.speaking /\ more.pcm = grown.pcm /\ more.silence = grown.silence
      BY <1>3 DEF Microphone
  <2>2. MaxUtterance \in Nat /\ SilenceFrames \in Nat \ {0}
      BY SpeechAssumption
  <2> QED
      BY <1>3, <2>1, <2>2 DEF Collects
<1>6. Collects([m EXCEPT !.pending = @ + 1])
    BY SpeechAssumption DEF Collects, Microphone
<1>7. Job("partial", grown, window, FALSE) \in Utterances
    BY <1>3, <1>4, JobIsUtterance
<1> QED
    BY <1>2, <1>3, <1>5, <1>6, <1>7, FinalizeKeeps, PartialKeepsCount, JobsUnchanged

LEMMA SilentKeeps ==
    ASSUME JobsHold, NEW m, Collects(m), Silent(m), UNCHANGED loop
    PROVE  Collects(mic') /\ JobsHold'
<1> DEFINE grown == [m EXCEPT !.pending = 0, !.pcm = @ + 1, !.silence = @ + 1, !.frames = @ + 1]
<1>1. \/ mic' = [m EXCEPT !.pending = 0] /\ UNCHANGED jobs
      \/ m.speaking /\ grown.silence < SilenceFrames /\ mic' = grown /\ UNCHANGED jobs
      \/ mic' = Reset(grown) /\ UNCHANGED jobs
      \/ Finalize(grown, FALSE)
    BY DEF Silent
<1>2. /\ grown \in Microphone /\ grown.speaking = m.speaking
      /\ grown.pcm = m.pcm + 1 /\ grown.silence = m.silence + 1
  <2>1. m \in Microphone /\ m.pcm + 1 \in Nat /\ m.silence + 1 \in Nat /\ m.frames + 1 \in Nat /\ 0 \in Nat
      BY DEF Collects, Microphone
  <2>2. m.speech \in Nat
      BY <2>1 DEF Microphone
  <2>3. grown = Counting(m, 0, m.pcm + 1, m.silence + 1, m.frames + 1, m.speech)
      BY <2>1 DEF Microphone, Counting
  <2>4. grown.speaking = m.speaking /\ grown.pcm = m.pcm + 1 /\ grown.silence = m.silence + 1
      BY <2>1 DEF Microphone
  <2> HIDE DEF grown
  <2>5. grown \in Microphone
      BY <2>1, <2>2, <2>3, CountingKeeps
  <2> QED
      BY <2>4, <2>5
<1>3. m.speaking /\ grown.silence < SilenceFrames => Collects(grown)
  <2>1. m.pcm \in Nat /\ m.silence \in Nat /\ MaxUtterance \in Nat
      BY SpeechAssumption DEF Collects, Microphone
  <2> QED
      BY <1>2, <2>1 DEF Collects
<1>4. Collects([m EXCEPT !.pending = 0])
    BY SpeechAssumption DEF Collects, Microphone
<1> HIDE DEF grown
<1> QED
    BY <1>1, <1>2, <1>3, <1>4, ResetCollects, FinalizeKeeps, JobsUnchanged

(* A frame of either kind, a barge-in, a flush.                             *)
LEMMA IngestKeeps ==
    ASSUME SpeechInv, NEW voiced \in BOOLEAN, Ingest(voiced)
    PROVE  SpeechInv'
<1>1. Collects(PreRoll(mic))
    BY PreRollCollects DEF SpeechInv
<1>2. Collects(mic') /\ JobsHold'
  <2>1. CASE assistant
      BY <2>1, <1>1, JobsUnchanged DEF Ingest, SpeechInv
  <2>2. CASE ~assistant
      BY <2>2, <1>1, VoicedKeeps, SilentKeeps DEF Ingest, SpeechInv
  <2> QED
      BY <2>1, <2>2
<1>3. sent' \in 0..MaxFrames /\ barging' \in [before : Nat, after : Nat]
    BY SpeechAssumption DEF Ingest, SpeechInv
<1> QED
    BY <1>2, <1>3 DEF Ingest, SpeechInv, LoopHolds, LogHolds

LEMMA BargeKeeps ==
    ASSUME SpeechInv, SilenceTutor \/ BargedIn
    PROVE  SpeechInv'
<1>1. CASE SilenceTutor
  <2>1. barging' \in [before : Nat, after : Nat]
      BY <1>1 DEF SilenceTutor, SpeechInv
  <2>2. JobsHold'
      BY <1>1, JobsUnchanged DEF SilenceTutor, SpeechInv
  <2> QED
      BY <1>1, <2>1, <2>2 DEF SilenceTutor, SpeechInv, LoopHolds, LogHolds
<1>2. CASE BargedIn
  <2>1. Collects(mic') /\ JobsHold'
      BY <1>2, VoicedKeeps DEF BargedIn, SpeechInv
  <2> QED
      BY <1>2, <2>1 DEF BargedIn, SpeechInv, LoopHolds, LogHolds
<1> QED
    BY <1>1, <1>2

LEMMA FlushKeeps ==
    ASSUME SpeechInv, NEW suppress \in BOOLEAN, Flush(suppress)
    PROVE  SpeechInv'
<1>1. mic \in Microphone
    BY DEF SpeechInv, Collects
<1>2. Collects(mic') /\ JobsHold'
    BY <1>1, FinalizeKeeps, ResetCollects, JobsUnchanged DEF Flush, SpeechInv
<1> QED
    BY <1>2 DEF Flush, SpeechInv, LoopHolds, LogHolds

-----------------------------------------------------------------------------
(***************************************************************************)
(* The inference loop.                                                      *)
(***************************************************************************)
Working == loop.at \in {"decoding", "verifying", "replying", "pausing"}

(* The job at work is done.                                                 *)
LEMMA NextJobKeeps ==
    ASSUME JobsHold, Working, NextJob
    PROVE  JobsHold' /\ LoopHolds'
<1>1. Len(queue) \in Nat
    BY LenProperties DEF JobsHold
<1>2. loop' = Waiting /\ queue' = queue /\ unfinished' = unfinished - 1
    BY DEF NextJob, TaskDone
<1>3. unfinished = Len(queue) + 1
    BY DEF JobsHold, QueueAccounting, Working
<1> QED
    BY <1>1, <1>2, <1>3 DEF JobsHold, LoopHolds, QueueAccounting, Waiting

LEMMA TakeKeeps ==
    ASSUME SpeechInv, Take
    PROVE  SpeechInv'
<1> DEFINE job == Head(queue)
<1>1. /\ queue \in Seq(Utterances \union {StopJob}) /\ queue # << >> /\ Len(queue) <= 1
      /\ loop = Waiting /\ queue' = << >>
    BY DEF Take, SpeechInv, JobsHold
<1>2. /\ Len(queue) = 1
      /\ job \in Utterances \union {StopJob}
  <2>1. Len(queue) \in Nat
      BY <1>1, LenProperties
  <2>2. Len(queue) # 0
      BY <1>1, EmptySeq
  <2>3. job \in Utterances \union {StopJob}
      BY <1>1, HeadTailProperties
  <2>4. Len(queue) <= 1
      BY <1>1
  <2>5. \A n \in Nat : n # 0 /\ n <= 1 => n = 1
      OBVIOUS
  <2> QED
      BY <2>1, <2>2, <2>3, <2>4, <2>5
<1>3. unfinished = 1
    BY <1>1, <1>2 DEF SpeechInv, JobsHold, QueueAccounting, Waiting
<1>4. \/ loop' = [at |-> "stopped"] /\ unfinished' = unfinished - 1
      \/ loop' = loop /\ unfinished' = unfinished - 1
      \/ job.kind # "stop" /\ loop' = [at |-> "decoding", job |-> job] /\ unfinished' = unfinished
    BY DEF Take
<1> HIDE DEF job
<1>5. job.kind # "stop" => job \in Utterances
    BY <1>2 DEF StopJob
<1>6. JobsHold'
    BY <1>1, <1>3, <1>4, ShortQueues DEF JobsHold, QueueAccounting, Waiting
<1>7. LoopHolds'
    BY <1>1, <1>4, <1>5 DEF LoopHolds, Waiting
<1> QED
    BY <1>6, <1>7 DEF Take, hearing, SpeechInv, LogHolds

(* The gate lets a turn through, or nothing.                                *)
LEMMA JudgeKeeps ==
    ASSUME SpeechInv, loop.at \in {"decoding", "verifying"}, NEW d \in Decodes, NEW job \in Utterances,
           NEW v \in Verifications, NEW made, Judge(made, d.text, Figures(d, job), v)
    PROVE  Collects(mic') /\ JobsHold' /\ LoopHolds' /\ LogHolds' /\ owed' \in Nat
<1> DEFINE turns == Turns(d.text, Figures(d, job), v)
<1>1. JobsHold /\ Working /\ mic \in Microphone /\ Collects(mic) /\ owed \in Nat
    BY DEF SpeechInv, Collects, Working
<1>2. turns \subseteq Heard
    BY DEF Heard
<1>3. CASE turns = {}
  <2>1. Suppress
      BY <1>3 DEF Judge
  <2>2. Collects(mic')
      BY <2>1, <1>1, ResetCollects DEF Suppress
  <2>3. JobsHold' /\ LoopHolds'
      BY <2>1, <1>1, NextJobKeeps DEF Suppress
  <2> QED
      BY <2>1, <2>2, <2>3 DEF Suppress, SpeechInv, LogHolds
<1>4. CASE turns # {}
  <2>1. PICK turn \in turns : log' = Append(log, turn)
      BY <1>4 DEF Judge
  <2>2. LogHolds'
    <3>1. turn \in Heard \union Told /\ log \in Seq(Heard \union Told)
        BY <2>1, <1>2 DEF SpeechInv, LogHolds
    <3> QED
        BY <2>1, <3>1, AppendProperties DEF LogHolds
  <2>3. UNCHANGED mic /\ Collects(mic')
      BY <1>4, <1>1 DEF Judge
  <2>4. CASE NextJob /\ UNCHANGED owed
      BY <2>2, <2>3, <2>4, <1>1, NextJobKeeps
  <2>5. CASE loop' = [at |-> "replying"] /\ owed' = owed + 1 /\ UNCHANGED jobs
    <3>1. JobsHold'
        BY <2>5, <1>1 DEF jobs, JobsHold, QueueAccounting, Working
    <3>2. LoopHolds'
        BY <2>5 DEF LoopHolds
    <3> QED
        BY <2>2, <2>3, <2>5, <3>1, <3>2, <1>1
  <2> QED
      BY <1>4, <2>4, <2>5 DEF Judge
<1> QED
    BY <1>3, <1>4

LEMMA DecodesFinalKeeps ==
    ASSUME SpeechInv, NEW d \in Decodes, DecodesFinal(d)
    PROVE  SpeechInv'
<1> DEFINE a == Figures(d, loop.job)
<1>1. loop.at = "decoding" /\ loop.job \in Utterances
    BY DEF DecodesFinal, SpeechInv, LoopHolds
<1>2. \/ Suppress
      \/ /\ loop' = [at |-> "verifying", job |-> loop.job, text |-> d.text, figures |-> a]
         /\ UNCHANGED <<mic, jobs, log, owed>>
      \/ Judge(loop.job, d.text, a, "skipped")
    BY DEF DecodesFinal
<1>3. Collects(mic') /\ JobsHold' /\ LoopHolds' /\ LogHolds' /\ owed' \in Nat
  <2>1. CASE Suppress
    <3>1. Collects(mic')
        BY <2>1, ResetCollects DEF Suppress, SpeechInv, Collects
    <3>2. JobsHold' /\ LoopHolds'
        BY <2>1, <1>1, NextJobKeeps DEF Suppress, SpeechInv, Working
    <3> QED
        BY <2>1, <3>1, <3>2 DEF Suppress, SpeechInv, LogHolds
  <2>2. CASE /\ loop' = [at |-> "verifying", job |-> loop.job, text |-> d.text, figures |-> a]
             /\ UNCHANGED <<mic, jobs, log, owed>>
    <3>1. JobsHold'
        BY <2>2, <1>1 DEF jobs, SpeechInv, JobsHold, QueueAccounting
    <3>2. loop'.at = "verifying" /\ loop'.job = loop.job /\ loop'.text = d.text /\ loop'.figures = a
        BY <2>2
    <3>3. LoopHolds'
        BY <3>2, <1>1 DEF LoopHolds
    <3> QED
        BY <2>2, <3>1, <3>3 DEF SpeechInv, LogHolds
  <2>3. CASE Judge(loop.job, d.text, a, "skipped")
      BY <2>3, <1>1, JudgeKeeps DEF Verifications
  <2> QED
      BY <1>2, <2>1, <2>2, <2>3
<1> QED
    BY <1>3 DEF DecodesFinal, SpeechInv

LEMMA VerifiedKeeps ==
    ASSUME SpeechInv, NEW v \in Verifications, Verified(v)
    PROVE  SpeechInv'
<1>1. PICK d \in Decodes, job \in Utterances : loop.text = d.text /\ loop.figures = Figures(d, job)
    BY DEF Verified, SpeechInv, LoopHolds
<1>2. Collects(mic') /\ JobsHold' /\ LoopHolds' /\ LogHolds' /\ owed' \in Nat
    BY <1>1, JudgeKeeps DEF Verified
<1> QED
    BY <1>2 DEF Verified, SpeechInv

(* The decodes that leave no trace.                                         *)
LEMMA LoopKeeps ==
    ASSUME SpeechInv, DecodeFails \/ DecodeRaises \/ DecodesPartial \/ GoOn
    PROVE  SpeechInv'
<1>1. mic \in Microphone /\ Collects(mic) /\ JobsHold
    BY DEF SpeechInv, Collects
<1>2. CASE DecodeFails
  <2>1. JobsHold' /\ LoopHolds'
      BY <1>2, <1>1, NextJobKeeps DEF DecodeFails, Working
  <2>2. Collects(mic')
      BY <1>2, <1>1, ResetCollects DEF DecodeFails
  <2> QED
      BY <1>2, <2>1, <2>2 DEF DecodeFails, SpeechInv, LogHolds
<1>3. CASE DecodeRaises
  <2>1. JobsHold' /\ LoopHolds'
      BY <1>3, <1>1 DEF DecodeRaises, jobs, JobsHold, QueueAccounting, LoopHolds
  <2> QED
      BY <1>3, <2>1 DEF DecodeRaises, hearing, SpeechInv, LogHolds
<1>4. CASE DecodesPartial \/ GoOn
  <2>1. JobsHold' /\ LoopHolds'
      BY <1>4, <1>1, NextJobKeeps DEF DecodesPartial, GoOn, Working
  <2> QED
      BY <1>4, <2>1 DEF DecodesPartial, GoOn, hearing, SpeechInv, LogHolds
<1> QED
    BY <1>2, <1>3, <1>4

-----------------------------------------------------------------------------
(***************************************************************************)
(* The tutor, and the end.                                                  *)
(***************************************************************************)
LEMMA TutorKeeps ==
    ASSUME SpeechInv, TutorSpeaks \/ \E text \in Replies : TutorAnswers(text)
    PROVE  SpeechInv'
<1>1. JobsHold
    BY DEF SpeechInv
<1>2. CASE TutorSpeaks
  <2>1. JobsHold'
      BY <1>2, <1>1, JobsUnchanged DEF TutorSpeaks
  <2>2. assistant' \in BOOLEAN
    <3>1. assistant' = (owed > 0) \/ assistant' = FALSE
        BY <1>2 DEF TutorSpeaks
    <3>2. (owed > 0) \in BOOLEAN
        OBVIOUS
    <3> QED
        BY <3>1, <3>2
  <2> QED
      BY <1>2, <2>1, <2>2 DEF TutorSpeaks, SpeechInv, LoopHolds, LogHolds
<1>3. ASSUME NEW text \in Replies, TutorAnswers(text) PROVE SpeechInv'
  <2>1. JobsHold'
      BY <1>3, <1>1, JobsUnchanged DEF TutorAnswers
  <2>2. owed' \in Nat
      BY <1>3 DEF TutorAnswers, SpeechInv
  <2>3. [kind |-> "AI_TURN", text |-> text] \in Heard \union Told /\ log \in Seq(Heard \union Told)
      BY <1>3 DEF Told, SpeechInv, LogHolds
  <2>4. LogHolds'
      BY <1>3, <2>3, AppendProperties DEF TutorAnswers, LogHolds
  <2> QED
      BY <1>3, <2>1, <2>2, <2>4 DEF TutorAnswers, hearing, SpeechInv, LoopHolds
<1> QED
    BY <1>2, <1>3

LEMMA EndKeeps ==
    ASSUME SpeechInv, EndSession \/ Joined \/ EndCloses \/ \E ok \in BOOLEAN : EndPersists(ok) \/ StopPersists(ok)
    PROVE  SpeechInv'
<1>1. mic \in Microphone /\ Collects(mic) /\ JobsHold
    BY DEF SpeechInv, Collects
<1>2. CASE EndSession
  <2>1. Collects(mic') /\ JobsHold'
      BY <1>2, <1>1, FinalizeKeeps, JobsUnchanged DEF EndSession
  <2> QED
      BY <1>2, <2>1 DEF EndSession, SpeechInv, LoopHolds, LogHolds
<1>3. CASE Joined
    BY <1>3, <1>1, JobsUnchanged DEF Joined, SpeechInv, LoopHolds, LogHolds
<1>4. CASE EndCloses
  <2>1. JobsHold' /\ Collects(mic')
      BY <1>4, <1>1, JobsUnchanged, ResetCollects DEF EndCloses, Close
  <2>2. LogHolds'
      BY <1>4, EmptySeq DEF EndCloses, Close, LogHolds
  <2> QED
      BY <1>4, <2>1, <2>2 DEF EndCloses, Close, SpeechInv, LoopHolds
<1>5. CASE \E ok \in BOOLEAN : EndPersists(ok) \/ StopPersists(ok)
  <2>1. UNCHANGED <<hearing, jobs, loop, log, owed>>
      BY <1>5 DEF EndPersists, StopPersists
  <2>2. JobsHold'
      BY <2>1, <1>1, JobsUnchanged
  <2> QED
      BY <2>1, <2>2 DEF hearing, SpeechInv, LoopHolds, LogHolds
<1> QED
    BY <1>2, <1>3, <1>4, <1>5

LEMMA StopKeeps ==
    ASSUME SpeechInv, PutStop \/ Stopped
    PROVE  SpeechInv'
<1>1. mic \in Microphone /\ JobsHold
    BY DEF SpeechInv, Collects
<1>2. CASE PutStop
  <2>1. Len(queue) = 0 /\ queue' = <<StopJob>> /\ unfinished' = unfinished + 1 /\ loop' = loop
      BY <1>2, ShortQueues DEF PutStop
  <2>2. JobsHold'
      BY <2>1, <1>1, ShortQueues DEF JobsHold, QueueAccounting
  <2> QED
      BY <1>2, <2>2 DEF PutStop, SpeechInv, LoopHolds, LogHolds
<1>3. CASE Stopped
  <2>1. JobsHold'
      BY <1>3, ShortQueues DEF Stopped, JobsHold, QueueAccounting
  <2>2. Collects(mic')
      BY <1>3, <1>1, ResetCollects DEF Stopped, Close
  <2>3. LogHolds'
      BY <1>3, EmptySeq DEF Stopped, Close, LogHolds
  <2> QED
      BY <1>3, <2>1, <2>2, <2>3 DEF Stopped, Close, SpeechInv, LoopHolds
<1> QED
    BY <1>2, <1>3

(* Grading reads what was stored.                                           *)
LEMMA NothingHeardKeeps ==
    ASSUME SpeechInv, UNCHANGED <<hearing, jobs, loop, log, owed>>
    PROVE  SpeechInv'
<1>1. JobsHold'
    BY JobsUnchanged DEF SpeechInv
<1> QED
    BY <1>1 DEF hearing, SpeechInv, LoopHolds, LogHolds

-----------------------------------------------------------------------------
(***************************************************************************)
(* The words that count.                                                    *)
(***************************************************************************)
(* A turn of the learner that the gate let through is text, and counts as   *)
(* evidence when it is eligible.                                            *)
LEMMA HeardCounts ==
    ASSUME NEW e \in Heard \union Told, UserTurn(e)
    PROVE  GradingText(e) \in Seq(Words) /\ (e.eligible => Reliable(e))
<1>1. e \in Heard
    BY DEF Told, UserTurn
<1>2. PICK d \in Decodes, job \in Utterances, v \in Verifications : e \in Turns(d.text, Figures(d, job), v)
    BY <1>1 DEF Heard
<1> DEFINE a == Figures(d, job)
           t == Split(d.text).text
           mixed == Split(d.text).mixed
<1>3. /\ e = Assess(t, a, v, mixed) /\ ~Rejected(t, a)
      /\ "verification_language_mismatch" \notin e.reasons
    BY <1>2 DEF Turns
<1>4. t \in Seq(Words)
    BY SplitIsEnglish, DecodesAssumption
<1> HIDE DEF t, mixed, a
<1>5. /\ e.text = t /\ e.segment \in {None, << >>, t}
      /\ e.eligible => mixed # "weak" /\ ~PlausibleFragment(t, a)
      /\ e.excluded = (mixed = "weak") /\ e.language \in {"english", "mixed"}
    BY <1>3 DEF Assess
<1>6. GradingText(e) = t
    BY <1>5 DEF GradingText
<1>7. t # << >>
    BY <1>3 DEF Rejected
<1>8. e.eligible => e.reasons = Uncertainties(t, a, v, mixed)
    BY <1>3, <1>5 DEF Assess
<1>9. Uncertainties(t, a, v, mixed) \intersect HardReasons \subseteq {"verification_language_mismatch"}
    BY DEF Uncertainties, HardReasons
<1> QED
    BY <1>3, <1>4, <1>5, <1>6, <1>7, <1>8, <1>9 DEF Reliable

(* The words of some turns of a log are a number.                           *)
LEMMA WordsAreCounted ==
    ASSUME NEW events \in Seq(Heard \union Told), NEW turns \in SUBSET DOMAIN events,
           \A i \in turns : UserTurn(events[i])
    PROVE  WordsIn(events, turns) \in Nat
<1> DEFINE f == [i \in turns |-> {i} \X DOMAIN GradingText(events[i])]
<1>1. IsFiniteSet(turns)
    BY FinitePlaces
<1>2. \A i \in turns : IsFiniteSet(f[i])
  <2> SUFFICES ASSUME NEW i \in turns PROVE IsFiniteSet({i} \X DOMAIN GradingText(events[i]))
      OBVIOUS
  <2>1. events[i] \in Heard \union Told
      BY ElementOfSeq, LenProperties
  <2>2. GradingText(events[i]) \in Seq(Words)
      BY <2>1, HeardCounts
  <2>3. IsFiniteSet(DOMAIN GradingText(events[i]))
      BY <2>2, FinitePlaces
  <2>4. IsFiniteSet({i})
      BY FS_Singleton
  <2> QED
      BY <2>3, <2>4, FS_Product
<1>3. IsFiniteSet(UNION {f[i] : i \in turns})
  <2>1. DOMAIN f = turns
      OBVIOUS
  <2> HIDE DEF f
  <2> QED
      BY <1>1, <1>2, <2>1, FiniteFamily
<1>4. UNION {f[i] : i \in turns} = UNION {{i} \X DOMAIN GradingText(events[i]) : i \in turns}
    OBVIOUS
<1> QED
    BY <1>3, <1>4, FS_CardinalityType DEF WordsIn

(* The three readers of a log pick the same turns.                          *)
LEMMA SameTurns ==
    ASSUME NEW events \in Seq(Heard \union Told)
    PROVE  /\ {i \in DOMAIN events : UserTurn(events[i]) /\ events[i].eligible} = ReliableTurns(events)
           /\ StudentTurns(events) = ReliableTurns(events)
<1>1. \A i \in DOMAIN events : events[i] \in Heard \union Told
    BY ElementOfSeq, LenProperties
<1>2. \A i \in DOMAIN events : UserTurn(events[i]) /\ events[i].eligible <=> Reliable(events[i])
  <2>1. \A i \in DOMAIN events : Reliable(events[i]) => UserTurn(events[i]) /\ events[i].eligible
      BY DEF Reliable
  <2> QED
      BY <1>1, <2>1, HeardCounts
<1>3. \A i \in DOMAIN events : Kept(events[i]) /\ UserTurn(events[i]) <=> Reliable(events[i])
    BY DEF Kept, Reliable
<1>4. {i \in DOMAIN events : UserTurn(events[i]) /\ events[i].eligible} = ReliableTurns(events)
    BY <1>2 DEF ReliableTurns
<1>5. StudentTurns(events) = ReliableTurns(events)
    BY <1>3 DEF ReliableTurns, StudentTurns, KeptTurns
<1> QED
    BY <1>4, <1>5

-----------------------------------------------------------------------------
(***************************************************************************)
(* The grading result.                                                      *)
(***************************************************************************)
(* A weighted score lies between the least and the highest of its parts.    *)
LEMMA OverallIsBetween ==
    ASSUME NEW f \in Scale, NEW g \in Scale, NEW v \in Scale, NEW p \in Scale \union {None},
           NEW given, given = {f, g, v, p} \ {None}
    PROVE  /\ Overall(f, g, v, p) \in Int
           /\ \E x \in given : x <= Overall(f, g, v, p)
           /\ \E x \in given : x >= Overall(f, g, v, p)
<1>1. f \in Int /\ g \in Int /\ v \in Int /\ f # None /\ g # None /\ v # None
    BY NoneAssumption DEF Scale
<1>2. \A n \in Int : n \div 100 \in Int /\ 100 * (n \div 100) <= n /\ n < 100 * (n \div 100) + 100
    OBVIOUS
<1>3. CASE p = None
  <2> DEFINE n == 30 * f + 35 * g + 35 * v + 50
             o == n \div 100
  <2>1. n \in Int /\ Overall(f, g, v, p) = o
      BY <1>1, <1>3 DEF Overall
  <2>2. o \in Int /\ 100 * o <= n /\ n < 100 * o + 100
      BY <1>2, <2>1
  <2> HIDE DEF o
  <2>3. f <= o \/ g <= o \/ v <= o
      BY <1>1, <2>2
  <2>4. f >= o \/ g >= o \/ v >= o
      BY <1>1, <2>2
  <2> QED
      BY <1>1, <2>1, <2>2, <2>3, <2>4
<1>4. CASE p # None
  <2> DEFINE n == 25 * f + 30 * g + 25 * v + 20 * p + 50
             o == n \div 100
  <2>1. p \in Int
      BY <1>4 DEF Scale
  <2>2. n \in Int /\ Overall(f, g, v, p) = o
      BY <1>1, <1>4, <2>1 DEF Overall
  <2>3. o \in Int /\ 100 * o <= n /\ n < 100 * o + 100
      BY <1>2, <2>2
  <2> HIDE DEF o
  <2>4. f <= o \/ g <= o \/ v <= o \/ p <= o
      BY <1>1, <2>1, <2>3
  <2>5. f >= o \/ g >= o \/ v >= o \/ p >= o
      BY <1>1, <2>1, <2>3
  <2> QED
      BY <1>1, <1>4, <2>2, <2>3, <2>4, <2>5
<1> QED
    BY <1>3, <1>4

LEMMA GivenInRange ==
    ASSUME NEW f \in Scale, NEW g \in Scale, NEW v \in Scale, NEW p \in Scale \union {None},
           NEW given, given = {f, g, v, p} \ {None}
    PROVE  \A x \in given : x \in Scale
  OBVIOUS

(* A report on scores in range with an overall score between them.          *)
LEMMA ReportIsStorable ==
    ASSUME NEW f \in Scale, NEW g \in Scale, NEW v \in Scale, NEW p \in Scale \union {None},
           NEW given, given = {f, g, v, p} \ {None},
           NEW o \in Int, NEW provider, NEW items, NEW corrections,
           \E x \in given : x <= o + 1, \E x \in given : x >= o - 1
    PROVE  Storable(Report(provider, o, <<f, g, v, p>>, Feedback(items, <<f, g, v, p>>), corrections))
<1>1. \A x \in given : x \in Scale
    BY GivenInRange
<1> DEFINE scores == <<f, g, v, p>>
           feedback == Feedback(items, scores)
           result == Report(provider, o, scores, feedback, corrections)
<1>2. {scores[k] : k \in DOMAIN scores} \ {None} = given
    OBVIOUS
<1>3. /\ DOMAIN feedback = DOMAIN Skills
      /\ \A k \in DOMAIN Skills : feedback[k].skill = Skills[k] /\ feedback[k].score = scores[k]
    BY DEF Feedback
<1>4. [k \in DOMAIN feedback |-> feedback[k].skill] = Skills
    BY <1>3 DEF Skills
<1> HIDE DEF feedback, scores
<1>5. /\ result.scores = scores /\ result.overall = o /\ result.feedback = feedback
      /\ result.schema = "grading.v2" => scores[4] # None
    BY DEF Report
<1> HIDE DEF result
<1>6. {result.scores[k] : k \in DOMAIN result.scores} \ {None} = given
    BY <1>2, <1>5
<1>7. [k \in DOMAIN result.feedback |-> result.feedback[k].skill] = Skills
    BY <1>4, <1>5
<1>8. given \subseteq Scale
    BY <1>1
<1>9. \A k \in DOMAIN result.feedback : result.feedback[k].score = result.scores[k]
    BY <1>3, <1>5
<1>10. Storable(result)
    BY <1>5, <1>6, <1>7, <1>8, <1>9, Zenon DEF Storable
<1> QED
    BY <1>10 DEF result, feedback, scores

(* What the language model answers is stored only when it can be.           *)
LEMMA LLMGradeIsStorable ==
    ASSUME NEW input, NEW answer, LLMGrade(input, answer) # Failed
    PROVE  Storable(LLMGrade(input, answer))
<1> DEFINE f == answer.fluency
           g == answer.grammar
           v == answer.vocab
           p == answer.pronunciation
<1>1. Readable(answer)
    BY DEF LLMGrade
<1>2. answer["fluency"] \in Scale /\ answer["grammar"] \in Scale /\ answer["vocab"] \in Scale
    BY <1>1 DEF Readable, ValidScore
<1>3. f \in Scale /\ g \in Scale /\ v \in Scale /\ p \in Scale \union {None}
    BY <1>1, <1>2 DEF Readable, ValidScore
<1> HIDE DEF f, g, v, p
<1> DEFINE o == Overall(f, g, v, p)
           corrections == Cardinality({i \in DOMAIN answer.corrections : answer.corrections[i]})
<1>4. LLMGrade(input, answer) =
        Report("llm", o, <<f, g, v, p>>, Feedback(answer.skills, <<f, g, v, p>>), corrections)
    BY DEF LLMGrade, f, g, v, p
<1> HIDE DEF corrections
<1> DEFINE given == {f, g, v, p} \ {None}
<1>5. o \in Int /\ (\E x \in given : x <= o) /\ (\E x \in given : x >= o)
    BY <1>3, OverallIsBetween
<1>6. \A x \in given : x \in Int
  <2>1. \A x \in given : x \in Scale
      BY <1>3, GivenInRange
  <2> QED
      BY <2>1 DEF Scale
<1>7. given = {f, g, v, p} \ {None}
    OBVIOUS
<1> HIDE DEF o, given
<1>8. (\E x \in given : x <= o + 1) /\ (\E x \in given : x >= o - 1)
  <2>1. PICK x \in given : x <= o
      BY <1>5
  <2>2. PICK y \in given : y >= o
      BY <1>5
  <2>3. x \in Int /\ y \in Int /\ o \in Int
      BY <1>5, <1>6
  <2>4. x <= o + 1 /\ y >= o - 1
      BY <2>1, <2>2, <2>3
  <2> QED
      BY <2>4
<1>9. Storable(Report("llm", o, <<f, g, v, p>>, Feedback(answer.skills, <<f, g, v, p>>), corrections))
    BY <1>3, <1>5, <1>7, <1>8, ReportIsStorable
<1> QED
    BY <1>4, <1>9

LEMMA ClampIsInRange ==
    ASSUME NEW x \in Int
    PROVE  Clamp(x) \in Scale /\ Clamp(x) \in Int
  BY DEF Clamp, Most, Least, Scale

(* The placeholder's scores are in range whatever it counts.                *)
LEMMA FakeGradeIsStorable ==
    ASSUME NEW input, input.students \in Nat, input.ignored \in Nat, input.words \in Nat, input.uncertain \in Nat,
           IsFiniteSet(UNION {{input.turns[i].text[j] : j \in DOMAIN input.turns[i].text} :
                                i \in {i \in DOMAIN input.turns : input.turns[i].speaker = "student"}})
    PROVE  Storable(FakeGrade(input))
<1> DEFINE students == {i \in DOMAIN input.turns : input.turns[i].speaker = "student"}
           vocabulary ==
               UNION {{input.turns[i].text[j] : j \in DOMAIN input.turns[i].text} : i \in students}
           many == Least(input.students, 5)
           lost == Least(input.ignored, 5)
           long == Least(input.words, 40)
           rich == Least(Cardinality(vocabulary), 30)
           vague == Least(input.uncertain, 4)
           f == Clamp(Clamp(500 + 60 * many) - 10 * lost)
           g == Clamp(600 + 5 * long)
           v == Clamp(550 + (40 * rich + 3) \div 6)
           p == IF input.students = 0 THEN None ELSE Clamp(700 - 40 * vague)
           o == (2 * (f + g + v) + 3) \div 6
<1>1. FakeGrade(input) = Report("fake", o, <<f, g, v, p>>, Feedback(<< >>, <<f, g, v, p>>), 2)
    BY DEF FakeGrade
<1>2. Cardinality(vocabulary) \in Nat
    BY FS_CardinalityType
<1> HIDE DEF vocabulary
<1>3. many \in Int /\ lost \in Int /\ long \in Int /\ rich \in Int /\ vague \in Int
    BY <1>2 DEF Least
<1>4. \A x \in Int : Clamp(x) \in Scale /\ Clamp(x) \in Int
    BY ClampIsInRange
<1> HIDE DEF many, lost, long, rich, vague
<1>5. f \in Scale
  <2>1. 500 + 60 * many \in Int /\ 10 * lost \in Int
      BY <1>3
  <2>2. \A x, y \in Int : Clamp(x) - y \in Int
      BY <1>4
  <2>3. Clamp(500 + 60 * many) - 10 * lost \in Int
      BY <2>1, <2>2
  <2> QED
      BY <1>4, <2>3
<1>6. g \in Scale
    BY <1>3, <1>4
<1>7. v \in Scale
  <2>1. 40 * rich + 3 \in Int
      BY <1>3
  <2>2. \A n \in Int : 550 + n \div 6 \in Int
      OBVIOUS
  <2> QED
      BY <1>4, <2>1, <2>2
<1>8. p \in Scale \union {None}
  <2>1. 700 - 40 * vague \in Int
      BY <1>3
  <2> QED
      BY <1>4, <2>1
<1> HIDE DEF f, g, v, p
<1>9. f \in Int /\ g \in Int /\ v \in Int /\ f # None /\ g # None /\ v # None
    BY <1>5, <1>6, <1>7, NoneAssumption DEF Scale
<1>10. o \in Int /\ 6 * o <= 2 * (f + g + v) + 3 /\ 2 * (f + g + v) + 3 < 6 * o + 6
    BY <1>9
<1> HIDE DEF o
<1>11. (f <= o \/ g <= o \/ v <= o) /\ (f >= o \/ g >= o \/ v >= o)
    BY <1>9, <1>10
<1> DEFINE given == {f, g, v, p} \ {None}
<1>12. f \in given /\ g \in given /\ v \in given
    BY <1>9
<1>13. given = {f, g, v, p} \ {None}
    OBVIOUS
<1> HIDE DEF given
<1>14. (\E x \in given : x <= o + 1) /\ (\E x \in given : x >= o - 1)
  <2>1. f <= o + 1 \/ g <= o + 1 \/ v <= o + 1
      BY <1>9, <1>10, <1>11
  <2>2. f >= o - 1 \/ g >= o - 1 \/ v >= o - 1
      BY <1>9, <1>10, <1>11
  <2> QED
      BY <1>12, <2>1, <2>2
<1>15. o \in Int
    BY <1>10
<1>16. Storable(Report("fake", o, <<f, g, v, p>>, Feedback(<< >>, <<f, g, v, p>>), 2))
    BY <1>5, <1>6, <1>7, <1>8, <1>13, <1>14, <1>15, ReportIsStorable
<1> QED
    BY <1>1, <1>16

(* The placeholder reads a log of the gate's turns.                         *)
LEMMA LogIsGradable ==
    ASSUME NEW events \in Seq(Heard \union Told)
    PROVE  Storable(FakeGrade(EvaluationInput(events)))
<1> DEFINE input == EvaluationInput(events)
           students == {i \in DOMAIN input.turns : input.turns[i].speaker = "student"}
           f == [i \in students |-> {input.turns[i].text[j] : j \in DOMAIN input.turns[i].text}]
<1>1. StudentTurns(events) \in SUBSET DOMAIN events /\ \A i \in StudentTurns(events) : UserTurn(events[i])
    BY DEF StudentTurns, KeptTurns
<1>2. /\ input.students = Cardinality(StudentTurns(events))
      /\ input.ignored = Cardinality(DOMAIN events \ KeptTurns(events))
      /\ input.uncertain = Cardinality({i \in StudentTurns(events) : events[i].reasons # {}})
      /\ input.words = WordsIn(events, StudentTurns(events))
    BY DEF EvaluationInput
<1>3. input.students \in Nat /\ input.ignored \in Nat /\ input.uncertain \in Nat /\ input.words \in Nat
    BY <1>1, <1>2, FinitePlaces, WordsAreCounted
<1>4. /\ DOMAIN input.turns = KeptTurns(events)
      /\ \A i \in KeptTurns(events) :
            /\ input.turns[i].text = GradingText(events[i])
            /\ input.turns[i].speaker = IF UserTurn(events[i]) THEN "student" ELSE "assistant"
    BY DEF EvaluationInput
<1>5. students = StudentTurns(events) /\ \A i \in students : input.turns[i].text = GradingText(events[i])
    BY <1>4 DEF StudentTurns
<1> HIDE DEF input, students
<1>6. IsFiniteSet(students)
    BY <1>1, <1>5, FinitePlaces
<1>7. \A i \in students : IsFiniteSet(f[i])
  <2> SUFFICES ASSUME NEW i \in students
               PROVE  IsFiniteSet({input.turns[i].text[j] : j \in DOMAIN input.turns[i].text})
      OBVIOUS
  <2>1. events[i] \in Heard \union Told /\ UserTurn(events[i])
      BY <1>1, <1>5, ElementOfSeq, LenProperties
  <2>2. input.turns[i].text \in Seq(Words)
      BY <1>5, <2>1, HeardCounts
  <2>3. IsFiniteSet(DOMAIN input.turns[i].text)
      BY <2>2, FinitePlaces
  <2> QED
      BY <2>3, FiniteImage
<1>8. IsFiniteSet(UNION {f[i] : i \in students})
  <2>1. DOMAIN f = students
      OBVIOUS
  <2> HIDE DEF f
  <2> QED
      BY <1>6, <1>7, <2>1, FiniteFamily
<1>9. UNION {f[i] : i \in students} =
        UNION {{input.turns[i].text[j] : j \in DOMAIN input.turns[i].text} : i \in students}
    OBVIOUS
<1> QED
    BY <1>3, <1>8, <1>9, FakeGradeIsStorable DEF input, students

(* What is stored is a log of the gate, and what is graded of it holds.     *)
StoredHolds == stored = None \/ stored \in Seq(Heard \union Told)
OutcomeInv == StoredHolds /\ ReportHolds

LEMMA OutcomeInvNext == SpeechInv /\ OutcomeInv /\ [Next]_vars => OutcomeInv'
<1> SUFFICES ASSUME SpeechInv, OutcomeInv, [Next]_vars PROVE OutcomeInv'
    OBVIOUS
<1>1. CASE UNCHANGED outcome
    BY <1>1 DEF outcome, OutcomeInv, StoredHolds, ReportHolds
<1>2. CASE \E ok \in BOOLEAN : Persist(ok) /\ UNCHANGED report
    BY <1>2 DEF Persist, OutcomeInv, StoredHolds, ReportHolds, SpeechInv, LogHolds
<1>3. ASSUME NEW provider \in Providers, NEW answer \in Answers, Grade(provider, answer) PROVE OutcomeInv'
  <2> DEFINE fake == FakeGrade(EvaluationInput(stored))
             llm == LLMGrade(EvaluationInput(stored), answer)
  <2>1. stored \in Seq(Heard \union Told) /\ stored' = stored
      BY <1>3 DEF Grade, OutcomeInv, StoredHolds
  <2>2. report' \in {fake, llm, Failed}
      BY <1>3 DEF Grade
  <2>3. Storable(fake)
      BY <2>1, LogIsGradable
  <2>4. llm = Failed \/ Storable(llm)
      BY LLMGradeIsStorable
  <2> HIDE DEF fake, llm
  <2> QED
      BY <2>1, <2>2, <2>3, <2>4 DEF OutcomeInv, StoredHolds, ReportHolds
<1>4. UNCHANGED outcome \/ (\E ok \in BOOLEAN : Persist(ok) /\ UNCHANGED report)
        \/ \E provider \in Providers, answer \in Answers : Grade(provider, answer)
  <2>1. CASE UNCHANGED vars
      BY <2>1 DEF vars
  <2>2. CASE \E voiced \in BOOLEAN : Ingest(voiced)
      BY <2>2 DEF Ingest
  <2>3. CASE SilenceTutor \/ BargedIn \/ TutorSpeaks \/ EndSession
      BY <2>3 DEF SilenceTutor, BargedIn, TutorSpeaks, EndSession
  <2>4. CASE \E suppress \in BOOLEAN : Flush(suppress)
      BY <2>4 DEF Flush
  <2>5. CASE LoopStep
      BY <2>5 DEF LoopStep, Take, DecodeFails, DecodeRaises, DecodesPartial, GoOn, DecodesFinal, Verified
  <2>6. CASE \E text \in Replies : TutorAnswers(text)
      BY <2>6 DEF TutorAnswers
  <2>7. CASE EndStep
      BY <2>7 DEF EndStep, Joined, EndCloses, PutStop, Stopped, EndPersists
  <2>8. CASE \E ok \in BOOLEAN : StopPersists(ok)
      BY <2>8 DEF StopPersists
  <2> QED
      BY <2>1, <2>2, <2>3, <2>4, <2>5, <2>6, <2>7, <2>8 DEF Next
<1> QED
    BY <1>1, <1>2, <1>3, <1>4

-----------------------------------------------------------------------------
(***************************************************************************)
(* The theorems.                                                            *)
(***************************************************************************)
LEMMA SpeechInvInit == Init => SpeechInv
<1> SUFFICES ASSUME Init PROVE SpeechInv
    OBVIOUS
<1>1. Collects(mic)
  <2>1. Quiet \in Microphone /\ ~Quiet.speaking /\ Quiet.pcm = 0
      BY SpeechAssumption DEF Quiet, Microphone
  <2> QED
      BY <2>1 DEF Init, Collects
<1>2. JobsHold
    BY ShortQueues DEF Init, JobsHold, QueueAccounting, Waiting
<1>3. LoopHolds
    BY DEF Init, LoopHolds, Waiting
<1>4. LogHolds
    BY EmptySeq DEF Init, LogHolds
<1>5. sent \in 0..MaxFrames
    BY SpeechAssumption DEF Init
<1>6. barging \in [before : Nat, after : Nat]
    BY DEF Init
<1> QED
    BY <1>1, <1>2, <1>3, <1>4, <1>5, <1>6 DEF Init, SpeechInv

LEMMA SpeechInvNext == SpeechInv /\ [Next]_vars => SpeechInv'
<1> SUFFICES ASSUME SpeechInv, [Next]_vars PROVE SpeechInv'
    OBVIOUS
<1>1. CASE \E voiced \in BOOLEAN : Ingest(voiced)
    BY <1>1, IngestKeeps
<1>2. CASE SilenceTutor \/ BargedIn
    BY <1>2, BargeKeeps
<1>3. CASE \E suppress \in BOOLEAN : Flush(suppress)
    BY <1>3, FlushKeeps
<1>4. CASE LoopStep
    BY <1>4, TakeKeeps, LoopKeeps, DecodesFinalKeeps, VerifiedKeeps DEF LoopStep
<1>5. CASE TutorSpeaks \/ \E text \in Replies : TutorAnswers(text)
    BY <1>5, TutorKeeps
<1>6. CASE EndSession \/ \E ok \in BOOLEAN : StopPersists(ok)
    BY <1>6, EndKeeps
<1>7. CASE EndStep
    BY <1>7, EndKeeps, StopKeeps DEF EndStep
<1>8. CASE \E provider \in Providers, answer \in Answers : Grade(provider, answer)
    BY <1>8, NothingHeardKeeps DEF Grade
<1>9. CASE UNCHANGED vars
    BY <1>9, NothingHeardKeeps DEF vars
<1> QED
    BY <1>1, <1>2, <1>3, <1>4, <1>5, <1>6, <1>7, <1>8, <1>9 DEF Next

(* The invariant from which the rest follows.                               *)
THEOREM SpeechInvariant == Spec => []SpeechInv
    BY SpeechInvInit, SpeechInvNext, PTL DEF Spec

(* Types, and the length of an utterance, for every voice activity.         *)
THEOREM SpeechTypeCorrect == Spec => []SpeechTypeOK
<1>1. SpeechInv => SpeechTypeOK
  <2> SUFFICES ASSUME SpeechInv PROVE SpeechTypeOK
      OBVIOUS
  <2>1. mic \in Microphone /\ mic.pcm \in Nat /\ mic.silence \in Nat
      BY DEF SpeechInv, Collects, Microphone
  <2>2. mic.pcm < MaxUtterance + SilenceFrames
      BY <2>1, SpeechAssumption DEF SpeechInv, Collects
  <2> QED
      BY <2>1, <2>2 DEF SpeechInv, JobsHold, LoopHolds, SpeechTypeOK
<1> QED
    BY <1>1, SpeechInvariant, PTL

(* What join() counts is what is queued and in work.                        *)
THEOREM QueueCountIsRight == Spec => []QueueAccounting
<1>1. SpeechInv => QueueAccounting
    BY DEF SpeechInv, JobsHold
<1> QED
    BY <1>1, SpeechInvariant, PTL

(* What counts as evidence is English that was heard, for every lexicon and  *)
(* all that a decoder may answer.                                           *)
THEOREM EvidenceEarned == Spec => []EvidenceIsEarned
<1>1. SpeechInv => EvidenceIsEarned
  <2> SUFFICES ASSUME SpeechInv, NEW i \in DOMAIN log, Reliable(log[i]) PROVE Earned(log[i])
      BY DEF EvidenceIsEarned
  <2>1. log[i] \in Heard \union Told
      BY ElementOfSeq DEF SpeechInv, LogHolds
  <2> QED
      BY <2>1, HeardIsEarned
<1> QED
    BY <1>1, SpeechInvariant, PTL

(* The status page, the eligibility check and the grader's input count the  *)
(* same words, for every log the gate can write.                            *)
THEOREM CountsAlwaysAgree == Spec => []CountsAgree
<1>1. SpeechInv => CountsAgree
  <2> SUFFICES ASSUME SpeechInv PROVE CountsAgree
      OBVIOUS
  <2>1. log \in Seq(Heard \union Told)
      BY DEF SpeechInv, LogHolds
  <2> QED
      BY <2>1, SameTurns DEF CountsAgree, ShownWords, ReliableWords, EvaluationInput
<1> QED
    BY <1>1, SpeechInvariant, PTL

(* What the worker stores as a grading result can be stored, whatever the   *)
(* provider answers and however long the transcript is.                     *)
THEOREM ReportsHold == Spec => []ReportHolds
<1>1. Init => OutcomeInv
    BY DEF Init, OutcomeInv, StoredHolds, ReportHolds
<1>2. OutcomeInv => ReportHolds
    BY DEF OutcomeInv
<1> QED
    BY <1>1, <1>2, SpeechInvariant, OutcomeInvNext, PTL DEF Spec
================================================================================
