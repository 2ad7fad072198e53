--------------------------- MODULE TutorReply_proofs ---------------------------
(***************************************************************************)
(* What is proved of the tutor's replies, for every value of the constants: *)
(* the type invariant, LoggedWhereAsked and SpokenInOrder, and what the     *)
(* text functions they rest on return.  Inv is inductive: Types and         *)
(* OneOpener bound the state, LogInv says where a reply may be when its     *)
(* session ends, and LineInv what the line of phrases may hold.            *)
(*                                                                         *)
(* Every step of a reply is the same step seen from outside: a record       *)
(* moves on and a text joins the line (Moves).  Every other step keeps the  *)
(* line or takes from it (Keeps).                                          *)
(***************************************************************************)
EXTENDS TutorReply, FiniteSetTheorems, SequenceTheorems, TLAPS

-----------------------------------------------------------------------------
(***************************************************************************)
(* The state.                                                              *)
(***************************************************************************)
Text == Seq(Nat)
Phrase == Seq(Nat \X Nat)
Script == [chunks : Seq(Text), fails : BOOLEAN]
Stages == {"waiting", "thinking", "putting", "restart", "restarting", "settle", "settling",
           "closing", "finishing", "done"}
Reply == [kind : {"llm", "local", "opener"}, script : Script, session : Nat,
          at : Stages, then : Stages, todo : Seq(Phrase),
          heard : Nat, raw : Text, said : Text, answer : Text, cancelled : BOOLEAN]
Timer == [at : {"off", "armed", "cancelled"}] \union [at : {"putting"}, phrase : Phrase]
Worker == [at : {"idle", "stopping"}] \union [at : {"synthesising", "ready"}, phrase : Phrase]
Stop == [barge : {"off", "synthesis", "cancel", "gather", "persist"},
         end : {"off", "synthesis", "cancel", "gather", "persist"}]

(* Every variable has its type.                                            *)
Types ==
    /\ session \in {None} \union (1..MaxSessions) /\ started \in 0..MaxSessions
    /\ audible \in BOOLEAN /\ greeted \in BOOLEAN
    /\ reply \in Seq(Reply) /\ Len(reply) <= MaxReplies
    /\ timer \in Timer /\ strays \in Seq(Timer)
    /\ buffer \in Phrase /\ Len(buffer) < PhraseWords
    /\ queue \in Seq(Phrase) /\ Len(queue) <= PhraseRoom
    /\ worker \in Worker
    /\ speaking \in BOOLEAN /\ tail \in [current : BOOLEAN, others : Nat]
    /\ stop \in Stop
    /\ log \in Seq(Nat) /\ dialogue \in Seq([speaker : {"learner", "tutor"}, reply : Nat])
    /\ crowded \in BOOLEAN

-----------------------------------------------------------------------------
(***************************************************************************)
(* The invariants.                                                         *)
(***************************************************************************)
(* One opener to a session, and of the history only their turns are kept   *)
(* beyond the limit.                                                       *)
Openers == {r \in Ids : reply[r].kind = "opener"}
OpenersDone == {r \in Openers : reply[r].at = "done"}
Awaited == IF Enabled /\ ~greeted THEN 1 ELSE 0
OneOpener ==
    /\ ~Enabled => ~greeted
    /\ Cardinality(Openers) + Awaited <= started
    /\ Len(dialogue) <= KeepTurns + Cardinality(OpenersDone)

(* A reply of the model is over before its session is persisted; an opener *)
(* is told without a wait, unless the queue was full.                      *)
Local == {"waiting", "putting", "closing", "finishing", "done"}
Told == {"closing", "finishing", "done"}
RecordHolds(x) ==
    /\ x.heard <= Len(x.script.chunks) /\ x.then # "waiting"
    /\ x.at = "waiting" => Len(x.script.chunks) = 1
    /\ x.at = "putting" => crowded
    /\ x.kind = "llm" /\ x.at # "done" => Enabled /\ x.session = session /\ stop.end # "persist"
    /\ x.kind # "llm" => x.at \in Local /\ x.then \in Told
    /\ x.kind = "opener" /\ x.at \notin {"waiting", "done"} => crowded \/ (Enabled /\ x.session = session)
RepliesHold == \A r \in Ids : RecordHolds(reply[r])
SessionHolds == Enabled => session = started
LogHolds ==
    \A i \in DOMAIN log :
        /\ log[i] \in Ids
        /\ (Enabled /\ reply[log[i]].session = session) \/ (crowded /\ reply[log[i]].kind = "opener")
LogInv == RepliesHold /\ SessionHolds /\ LogHolds

(* A timer that has to wait with its phrase met a full queue.              *)
TimersHold ==
    /\ timer.at = "putting" => crowded
    /\ \A i \in DOMAIN strays : strays[i].at = "putting" => crowded

(* What the model has streamed so far, and what it may stream yet.         *)
Streaming == {"thinking", "restart", "restarting"}
Streamed(chunks, n, p) == \E m \in 1..n : m \in DOMAIN chunks /\ \E j \in DOMAIN chunks[m] : chunks[m][j] = p
StreamHolds(r, x) ==
    /\ x.script \in Scripts[r]
    /\ Ascends(x.raw)
    /\ x.answer \in {<< >>, Fallback}
    /\ x.answer # << >> => x.heard = Len(x.script.chunks)
    /\ x.answer = << >> =>
        \A i \in DOMAIN x.raw : Spoken(x.raw[i]) => Streamed(x.script.chunks, x.heard, x.raw[i])
TextOf(r, x) ==
    /\ x.at \in Streaming => StreamHolds(r, x)
    /\ x.at = "waiting" => Ascends(x.script.chunks[1])
TextHolds == \A r \in Ids : TextOf(r, reply[r])

(* A word in the line is one of a reply, and one that it has said.         *)
Line == AtWork \o Append(queue, buffer)
SaidBy(x, p) ==
    /\ x.at # "waiting"
    /\ x.at \in Streaming => \E j \in DOMAIN x.said : x.said[j] = p
Known(word) ==
    /\ word[1] \in Ids
    /\ word[1] \notin retold /\ Spoken(word[2]) => SaidBy(reply[word[1]], word[2])
LineHolds == \A k \in DOMAIN Line : \A i \in DOMAIN Line[k] : Known(Line[k][i])
LineInv == TimersHold /\ (crowded \/ (TextHolds /\ LineHolds /\ SpokenInOrder))

-----------------------------------------------------------------------------
(***************************************************************************)
(* Places of a sequence.                                                   *)
(***************************************************************************)
(* Every rank up to their number is the rank of one of finitely many places. *)
LEMMA NthIsThere ==
    ASSUME NEW S, \A x \in S : x \in Int, IsFiniteSet(S), NEW k \in 1..Cardinality(S)
    PROVE  Nth(S, k) \in S /\ Cardinality({j \in S : j <= Nth(S, k)}) = k
<1> DEFINE Upto(i) == {j \in S : j <= i}
           rank == [i \in S |-> Cardinality(Upto(i))]
           n == Cardinality(S)
<1>1. \A i \in S : IsFiniteSet(Upto(i)) /\ Upto(i) \in SUBSET S
    BY FS_Subset
<1>2. n \in Nat /\ \A i \in S : Cardinality(Upto(i)) \in Nat /\ Cardinality(Upto(i)) <= n
    BY <1>1, FS_Subset, FS_CardinalityType
<1>3. \A i \in S : Cardinality(Upto(i)) # 0
  <2>1. \A i \in S : i \in Upto(i)
      OBVIOUS
  <2> QED
      BY <1>1, <2>1, FS_EmptySet
<1>4. \A i, j \in S : i < j => Cardinality(Upto(i)) # Cardinality(Upto(j))
  <2> SUFFICES ASSUME NEW i \in S, NEW j \in S, i < j,
                      Cardinality(Upto(i)) = Cardinality(Upto(j))
               PROVE  FALSE
      OBVIOUS
  <2>1. Upto(i) \in SUBSET Upto(j) /\ j \in Upto(j) /\ j \notin Upto(i)
      OBVIOUS
  <2>2. Upto(i) = Upto(j)
    <3> HIDE DEF Upto
    <3> QED
        BY <1>1, <2>1, FS_Subset
  <2> QED
      BY <2>1, <2>2
<1>5. rank \in Injection(S, 1..n)
  <2> HIDE DEF Upto
  <2>1. \A i \in S : Cardinality(Upto(i)) \in 1..n
      BY <1>2, <1>3
  <2>2. \A i, j \in S : i # j => rank[i] # rank[j]
    <3>1. \A i, j \in S : i # j => i < j \/ j < i
        OBVIOUS
    <3> QED
        BY <1>4, <3>1
  <2> QED
      BY <2>1, <2>2 DEF Injection, IsInjective
<1>6. IsFiniteSet(1..n) /\ Cardinality(1..n) = n
    BY <1>2, FS_Interval
<1>7. rank \in Surjection(S, 1..n)
    BY <1>5, <1>6, FS_Injection
<1>8. \E i \in S : Cardinality(Upto(i)) = k
    BY <1>7 DEF Surjection
<1> QED
    BY <1>8 DEF Nth

LEMMA NthAscends ==
    ASSUME NEW S, \A x \in S : x \in Int, IsFiniteSet(S),
           NEW k \in 1..Cardinality(S), NEW l \in 1..Cardinality(S), k < l
    PROVE  Nth(S, k) < Nth(S, l)
<1> DEFINE Upto(i) == {j \in S : j <= i}
<1>1. /\ Nth(S, k) \in S /\ Cardinality(Upto(Nth(S, k))) = k
      /\ Nth(S, l) \in S /\ Cardinality(Upto(Nth(S, l))) = l
    BY NthIsThere
<1>2. ASSUME Nth(S, l) <= Nth(S, k) PROVE FALSE
  <2>1. Upto(Nth(S, l)) \in SUBSET Upto(Nth(S, k))
      BY <1>1, <1>2
  <2>2. IsFiniteSet(Upto(Nth(S, k)))
      BY FS_Subset
  <2>3. Cardinality(Upto(Nth(S, l))) <= Cardinality(Upto(Nth(S, k)))
    <3> HIDE DEF Upto
    <3> QED
        BY <2>1, <2>2, FS_Subset
  <2>4. k \in Int /\ l \in Int
      BY FS_CardinalityType
  <2> QED
      BY <1>1, <2>3, <2>4
<1> QED
    BY <1>1, <1>2

LEMMA FirstIsThere ==
    ASSUME NEW S, \A x \in S : x \in Int, IsFiniteSet(S), S # {}, NEW otherwise
    PROVE  FirstOf(S, otherwise) \in S
<1>1. Cardinality(S) \in Nat /\ Cardinality(S) # 0
    BY FS_EmptySet, FS_CardinalityType
<1>2. Nth(S, 1) \in S /\ Cardinality({j \in S : j <= Nth(S, 1)}) = 1
    BY <1>1, NthIsThere
<1>3. PICK x : {j \in S : j <= Nth(S, 1)} = {x}
  <2>1. IsFiniteSet({j \in S : j <= Nth(S, 1)})
      BY FS_Subset
  <2> QED
      BY <1>2, <2>1, FS_Singleton
<1>4. \A j \in S : Nth(S, 1) <= j
    BY <1>2, <1>3
<1> QED
    BY <1>2, <1>4 DEF FirstOf

(* Places of a text are finitely many.                                      *)
LEMMA FinitePlaces ==
    ASSUME NEW S, NEW s \in Seq(S), NEW T \in SUBSET DOMAIN s
    PROVE  IsFiniteSet(T) /\ Cardinality(T) \in Nat /\ \A x \in T : x \in Int
<1>1. DOMAIN s = 1..Len(s) /\ Len(s) \in Int
    BY LenProperties
<1>2. IsFiniteSet(DOMAIN s)
    BY <1>1, FS_Interval
<1> QED
    BY <1>1, <1>2, FS_Subset, FS_CardinalityType

(* A text drawn from another one: pieces of it, in its order.               *)
Drawn(t, s) ==
    \E f \in [DOMAIN t -> DOMAIN s] :
        /\ \A i \in DOMAIN t : t[i] = s[f[i]]
        /\ \A i, j \in DOMAIN t : i < j => f[i] < f[j]

LEMMA OnlyIsDrawn ==
    ASSUME NEW s \in Text, NEW places \in SUBSET DOMAIN s
    PROVE  Only(s, places) \in Text /\ Drawn(Only(s, places), s)
<1> DEFINE n == Cardinality(places)
           f == [k \in 1..n |-> Nth(places, k)]
           t == Only(s, places)
<1>1. IsFiniteSet(places) /\ n \in Nat /\ \A x \in places : x \in Int
    BY FinitePlaces DEF Text
<1>2. \A k \in 1..n : Nth(places, k) \in places
    BY <1>1, NthIsThere
<1>3. \A k \in 1..n : s[Nth(places, k)] \in Nat
    BY <1>2, LenProperties, ElementOfSeq DEF Text
<1>4. t = [k \in 1..n |-> s[Nth(places, k)]] /\ t \in Text
    BY <1>1, <1>3, IsASeq DEF Only, Text
<1>5. \A k, l \in 1..n : k < l => f[k] < f[l]
    BY <1>1, NthAscends
<1>6. f \in [1..n -> DOMAIN s]
    BY <1>2
<1>7. DOMAIN t = 1..n /\ \A k \in 1..n : t[k] = s[f[k]]
    BY <1>4
<1> QED
  <2> HIDE DEF f, t, n
  <2> QED
      BY <1>4, <1>5, <1>6, <1>7 DEF Drawn, t

LEMMA StretchIsDrawn ==
    ASSUME NEW s \in Text, NEW m \in Nat, NEW n \in Int, 1 <= m, n <= Len(s)
    PROVE  SubSeq(s, m, n) \in Text /\ Drawn(SubSeq(s, m, n), s)
<1> DEFINE t == SubSeq(s, m, n)
           f == [i \in DOMAIN t |-> i + m - 1]
<1>1. Len(s) \in Nat /\ DOMAIN s = 1..Len(s)
    BY LenProperties DEF Text
<1>2. \A i \in m..n : s[i] \in Nat
    BY <1>1, ElementOfSeq DEF Text
<1>3. /\ t \in Text /\ Len(t) = IF m <= n THEN n - m + 1 ELSE 0
      /\ \A i \in 1..(n - m + 1) : t[i] = s[m + i - 1]
    BY <1>2, SubSeqProperties DEF Text
<1>4. DOMAIN t = 1..Len(t)
    BY <1>3, LenProperties DEF Text
<1>5. f \in [DOMAIN t -> DOMAIN s]
    BY <1>1, <1>3, <1>4
<1>6. \A i \in DOMAIN t : t[i] = s[f[i]]
    BY <1>3, <1>4
<1>7. \A i, j \in DOMAIN t : i < j => f[i] < f[j]
    BY <1>4
<1> QED
    BY <1>3, <1>5, <1>6, <1>7 DEF Drawn

LEMMA DrawnTwice ==
    ASSUME NEW t, NEW s, NEW u, Drawn(t, s), Drawn(s, u) PROVE Drawn(t, u)
<1>1. PICK f \in [DOMAIN t -> DOMAIN s] :
        /\ \A i \in DOMAIN t : t[i] = s[f[i]]
        /\ \A i, j \in DOMAIN t : i < j => f[i] < f[j]
    BY DEF Drawn
<1>2. PICK g \in [DOMAIN s -> DOMAIN u] :
        /\ \A i \in DOMAIN s : s[i] = u[g[i]]
        /\ \A i, j \in DOMAIN s : i < j => g[i] < g[j]
    BY DEF Drawn
<1> DEFINE h == [i \in DOMAIN t |-> g[f[i]]]
<1>3. h \in [DOMAIN t -> DOMAIN u] /\ \A i \in DOMAIN t : t[i] = u[h[i]]
    BY <1>1, <1>2
<1>4. \A i, j \in DOMAIN t : i < j => h[i] < h[j]
    BY <1>1, <1>2
<1> QED
    BY <1>3, <1>4 DEF Drawn

LEMMA DrawnAscends ==
    ASSUME NEW t \in Text, NEW s, Drawn(t, s), Ascends(s) PROVE Ascends(t)
<1>1. PICK f \in [DOMAIN t -> DOMAIN s] :
        /\ \A i \in DOMAIN t : t[i] = s[f[i]]
        /\ \A i, j \in DOMAIN t : i < j => f[i] < f[j]
    BY DEF Drawn
<1> QED
    BY <1>1 DEF Ascends

(* The text of a response is drawn from what was streamed: whatever the     *)
(* marks and the ends of lines, _extract_response_text adds no piece,       *)
(* changes none and keeps their order.                                      *)
THEOREM ExtractIsDrawn ==
    ASSUME NEW raw \in Text
    PROVE  Extract(raw) \in Text /\ Drawn(Extract(raw), raw)
<1> DEFINE marks == {i \in DOMAIN raw : raw[i] = R}
           from == FirstOf(marks, Len(raw))
           body == SubSeq(raw, from + 1, Len(raw))
           ends == {i \in 1..(Len(body) - 1) : body[i] = Fa /\ body[i + 1] = Fb}
           to == FirstOf(ends, Len(body) + 1)
           said == SubSeq(body, 1, to - 1)
<1>1. Len(raw) \in Nat /\ DOMAIN raw = 1..Len(raw)
    BY LenProperties DEF Text
<1>2. from \in 0..Len(raw)
  <2>1. IsFiniteSet(marks) /\ \A x \in marks : x \in Int
      BY FinitePlaces DEF Text
  <2>2. marks # {} => from \in marks
    <3> HIDE DEF marks
    <3> QED
        BY <2>1, FirstIsThere
  <2>3. marks = {} => from = Len(raw)
      BY DEF FirstOf
  <2> QED
      BY <1>1, <2>2, <2>3
<1>3. body \in Text /\ Drawn(body, raw)
  <2> HIDE DEF from
  <2> QED
      BY <1>1, <1>2, StretchIsDrawn
<1>4. Len(body) \in Nat /\ DOMAIN body = 1..Len(body)
  <2> HIDE DEF body
  <2> QED
      BY <1>3, LenProperties DEF Text
<1>5. to \in 1..(Len(body) + 1)
  <2> HIDE DEF body
  <2>1. IsFiniteSet(ends) /\ \A x \in ends : x \in Int
      BY <1>3, <1>4, FinitePlaces DEF Text
  <2>2. ends # {} => to \in ends
    <3> HIDE DEF ends
    <3> QED
        BY <2>1, FirstIsThere
  <2>3. ends = {} => to = Len(body) + 1
      BY DEF FirstOf
  <2> QED
      BY <1>4, <2>2, <2>3
<1>6. said \in Text /\ Drawn(said, body)
  <2> HIDE DEF body, to
  <2> QED
      BY <1>3, <1>4, <1>5, StretchIsDrawn
<1>7. Words(said) \in Text /\ Drawn(Words(said), said)
  <2> HIDE DEF said
  <2> QED
      BY <1>6, OnlyIsDrawn DEF Words
<1>8. Extract(raw) = Words(said)
    BY DEF Extract
<1> QED
  <2> HIDE DEF said, body
  <2> QED
      BY <1>3, <1>6, <1>7, <1>8, DrawnTwice

LEMMA ParseIsDrawn ==
    ASSUME NEW raw \in Text
    PROVE  Parse(raw) \in Text /\ Drawn(Parse(raw), raw)
<1> DEFINE marks == {i \in DOMAIN raw : raw[i] = R}
           Ends(from) == {i \in (from + 1)..Len(raw) :
                            raw[i] = NL \/ (raw[i] = Fa /\ i < Len(raw) /\ raw[i + 1] = Fb)}
           OneLine(from) == SubSeq(raw, from + 1, FirstOf(Ends(from), Len(raw) + 1) - 1)
<1>1. Len(raw) \in Nat /\ DOMAIN raw = 1..Len(raw)
    BY LenProperties DEF Text
<1>2. ASSUME NEW from \in Nat PROVE OneLine(from) \in Text /\ Drawn(OneLine(from), raw)
  <2> DEFINE to == FirstOf(Ends(from), Len(raw) + 1)
  <2>1. Ends(from) \in SUBSET DOMAIN raw
      BY <1>1, <1>2
  <2>2. IsFiniteSet(Ends(from)) /\ \A x \in Ends(from) : x \in Int
    <3> HIDE DEF Ends
    <3> QED
        BY <2>1, FinitePlaces DEF Text
  <2>3. Ends(from) # {} => to \in Ends(from)
    <3> HIDE DEF Ends
    <3> QED
        BY <2>2, FirstIsThere
  <2>4. Ends(from) = {} => to = Len(raw) + 1
      BY DEF FirstOf
  <2>5. to \in Int /\ to - 1 <= Len(raw)
      BY <1>1, <2>3, <2>4
  <2> HIDE DEF to
  <2> QED
      BY <1>2, <2>5, StretchIsDrawn DEF to
<1>3. marks # {} => FirstOf(marks, 0) \in Nat
  <2>1. IsFiniteSet(marks) /\ \A x \in marks : x \in Int
      BY FinitePlaces DEF Text
  <2>2. marks # {} => FirstOf(marks, 0) \in marks
    <3> HIDE DEF marks
    <3> QED
        BY <2>1, FirstIsThere
  <2> QED
      BY <1>1, <2>2
<1>4. Parse(raw) = IF marks # {} /\ OneLine(FirstOf(marks, 0)) # << >>
                   THEN OneLine(FirstOf(marks, 0)) ELSE OneLine(0)
    BY DEF Parse
<1> QED
  <2> HIDE DEF OneLine, marks
  <2> QED
      BY <1>2, <1>3, <1>4

-----------------------------------------------------------------------------
(***************************************************************************)
(* The stream.                                                             *)
(***************************************************************************)
LEMMA JoinedText ==
    ASSUME NEW s \in Text, NEW t \in Text
    PROVE  /\ s \o t \in Text /\ DOMAIN (s \o t) = 1..(Len(s) + Len(t))
           /\ Len(s) \in Nat /\ Len(t) \in Nat /\ DOMAIN s = 1..Len(s) /\ DOMAIN t = 1..Len(t)
           /\ \A i \in 1..(Len(s) + Len(t)) : (s \o t)[i] = IF i <= Len(s) THEN s[i] ELSE t[i - Len(s)]
           /\ \A i \in DOMAIN s : s[i] \in Nat
           /\ \A i \in DOMAIN t : t[i] \in Nat
    BY ConcatProperties, LenProperties, ElementOfSeq DEF Text

(* What is new of a text goes on from what was before.                      *)
LEMMA NewGoesOn ==
    ASSUME NEW said \in Text, NEW text \in Text, NEW new, new = Diff(said, text)
    PROVE  /\ new \in Text /\ said \o new \in Text
           /\ IsPrefix(said, text) /\ Ascends(text) => Ascends(new) /\ Below(said, new)
<1>1. CASE ~IsPrefix(said, text)
    BY <1>1, JoinedText DEF Diff
<1>2. CASE IsPrefix(said, text)
  <2>1. new = SubSeq(text, Len(said) + 1, Len(text))
      BY <1>2 DEF Diff
  <2>2. /\ Len(said) \in Nat /\ Len(text) \in Nat /\ Len(said) <= Len(text)
        /\ DOMAIN said = 1..Len(said) /\ DOMAIN text = 1..Len(text)
        /\ \A i \in DOMAIN text : text[i] \in Nat
        /\ SubSeq(said, 1, Len(said)) = SubSeq(text, 1, Len(said))
      BY <1>2, LenProperties, ElementOfSeq DEF Text, IsPrefix
  <2>3. new \in Text /\ Drawn(new, text)
      BY <2>1, <2>2, StretchIsDrawn
  <2>4. /\ DOMAIN new = 1..(Len(text) - Len(said))
        /\ \A i \in DOMAIN new : new[i] = text[i + Len(said)]
    <3>1. \A i \in (Len(said) + 1)..Len(text) : text[i] \in Nat
        BY <2>2
    <3>2. /\ Len(new) = IF Len(said) + 1 <= Len(text) THEN Len(text) - (Len(said) + 1) + 1 ELSE 0
          /\ \A i \in 1..(Len(text) - (Len(said) + 1) + 1) : new[i] = text[Len(said) + 1 + i - 1]
        BY <2>1, <2>2, <3>1, SubSeqProperties DEF Text
    <3>3. DOMAIN new = 1..Len(new)
        BY <2>3, LenProperties DEF Text
    <3>4. \A a, b \in Nat : a <= b =>
            /\ (IF a + 1 <= b THEN b - (a + 1) + 1 ELSE 0) = b - a
            /\ b - (a + 1) + 1 = b - a
            /\ \A i \in 1..(b - a) : a + 1 + i - 1 = i + a
        OBVIOUS
    <3>5. Len(new) = Len(text) - Len(said)
        BY <2>2, <3>2, <3>4
    <3>6. \A i \in 1..(Len(text) - Len(said)) : new[i] = text[i + Len(said)]
        BY <2>2, <3>2, <3>4
    <3> QED
        BY <3>3, <3>5, <3>6
  <2>5. \A i \in DOMAIN said : said[i] = text[i]
    <3>1. SubSeq(said, 1, Len(said)) = said
        BY SubSeqFull DEF Text
    <3>2. \A i \in 1..Len(said) : text[i] \in Nat
        BY <2>2
    <3>3. \A i \in 1..(Len(said) - 1 + 1) : SubSeq(text, 1, Len(said))[i] = text[1 + i - 1]
        BY <2>2, <3>2, SubSeqProperties
    <3> QED
        BY <2>2, <3>1, <3>3
  <2>6. Ascends(text) => Ascends(new)
      BY <2>3, DrawnAscends
  <2>7. Ascends(text) => Below(said, new)
    <3> SUFFICES ASSUME Ascends(text), NEW i \in DOMAIN said, NEW j \in DOMAIN new,
                        Spoken(said[i]), Spoken(new[j])
                 PROVE  said[i] < new[j]
        BY DEF Below
    <3>1. said[i] = text[i] /\ new[j] = text[j + Len(said)]
        BY <2>4, <2>5
    <3>2. i \in DOMAIN text /\ j + Len(said) \in DOMAIN text /\ i < j + Len(said)
        BY <2>2, <2>4
    <3> QED
        BY <3>1, <3>2 DEF Ascends
  <2> QED
      BY <2>3, <2>6, <2>7, JoinedText
<1> QED
    BY <1>1, <1>2

LEMMA JoinedAscends ==
    ASSUME NEW s \in Text, NEW t \in Text, Ascends(s), Ascends(t), Below(s, t)
    PROVE  Ascends(s \o t)
<1> SUFFICES ASSUME NEW i \in DOMAIN (s \o t), NEW j \in DOMAIN (s \o t), i < j,
                    Spoken((s \o t)[i]), Spoken((s \o t)[j])
             PROVE  (s \o t)[i] < (s \o t)[j]
    BY DEF Ascends
<1> DEFINE u == s \o t
<1>1. /\ DOMAIN u = 1..(Len(s) + Len(t)) /\ Len(s) \in Nat /\ Len(t) \in Nat
      /\ DOMAIN s = 1..Len(s) /\ DOMAIN t = 1..Len(t)
      /\ \A k \in DOMAIN s : u[k] = s[k]
      /\ \A k \in DOMAIN u : k > Len(s) => u[k] = t[k - Len(s)] /\ k - Len(s) \in DOMAIN t
  <2>1. /\ DOMAIN u = 1..(Len(s) + Len(t)) /\ Len(s) \in Nat /\ Len(t) \in Nat
        /\ DOMAIN s = 1..Len(s) /\ DOMAIN t = 1..Len(t)
        /\ \A k \in 1..(Len(s) + Len(t)) : u[k] = IF k <= Len(s) THEN s[k] ELSE t[k - Len(s)]
      BY JoinedText
  <2> HIDE DEF u
  <2> QED
      BY <2>1
<1> HIDE DEF u
<1>2. i \in DOMAIN u /\ j \in DOMAIN u /\ i \in Int /\ j \in Int /\ Spoken(u[i]) /\ Spoken(u[j])
    BY <1>1 DEF u
<1>3. CASE j <= Len(s)
  <2>1. i \in DOMAIN s /\ j \in DOMAIN s
      BY <1>1, <1>2, <1>3
  <2> QED
      BY <1>1, <1>2, <2>1 DEF Ascends, u
<1>4. CASE i <= Len(s) /\ j > Len(s)
  <2>1. i \in DOMAIN s
      BY <1>1, <1>2, <1>4
  <2> QED
      BY <1>1, <1>2, <1>4, <2>1 DEF Below, u
<1>5. CASE i > Len(s)
  <2>1. i - Len(s) \in DOMAIN t /\ j - Len(s) \in DOMAIN t /\ i - Len(s) < j - Len(s)
      BY <1>1, <1>2, <1>5
  <2> QED
      BY <1>1, <1>2, <1>5, <2>1 DEF Ascends, u
<1> QED
    BY <1>1, <1>2, <1>3, <1>4, <1>5

-----------------------------------------------------------------------------
(***************************************************************************)
(* Phrases.                                                                *)
(***************************************************************************)
LEMMA PhraseFacts ==
    ASSUME NEW t \in Phrase
    PROVE  Len(t) \in Nat /\ DOMAIN t = 1..Len(t) /\ \A i \in 1..Len(t) : t[i] \in Nat \X Nat
    BY LenProperties, ElementOfSeq DEF Phrase

LEMMA PhraseStretch ==
    ASSUME NEW t \in Phrase, NEW m \in Int, NEW n \in Int, 1 <= m, n <= Len(t), m <= n + 1
    PROVE  /\ SubSeq(t, m, n) \in Phrase /\ Len(SubSeq(t, m, n)) = n - m + 1
           /\ \A i \in 1..(n - m + 1) : SubSeq(t, m, n)[i] = t[m + i - 1]
<1>1. \A i \in m..n : t[i] \in Nat \X Nat
    BY PhraseFacts
<1>2. /\ SubSeq(t, m, n) \in Seq(Nat \X Nat)
      /\ Len(SubSeq(t, m, n)) = IF m <= n THEN n - m + 1 ELSE 0
      /\ \A i \in 1..(n - m + 1) : SubSeq(t, m, n)[i] = t[m + i - 1]
    BY <1>1, SubSeqProperties
<1>3. (IF m <= n THEN n - m + 1 ELSE 0) = n - m + 1
    OBVIOUS
<1> QED
    BY <1>2, <1>3 DEF Phrase

LEMMA ListFacts ==
    ASSUME NEW P \in Seq(Phrase)
    PROVE  Len(P) \in Nat /\ DOMAIN P = 1..Len(P) /\ \A k \in 1..Len(P) : P[k] \in Phrase
    BY LenProperties, ElementOfSeq

(* A list of phrases that a text is cut into.                               *)
Cut(P, text) ==
    \E p \in [DOMAIN P -> Nat] :
        /\ \A k \in DOMAIN P :
            p[k] + Len(P[k]) <= Len(text) /\ \A i \in DOMAIN P[k] : P[k][i] = text[p[k] + i]
        /\ \A k, l \in DOMAIN P : k < l => p[k] + Len(P[k]) <= p[l]

(* Its last phrase can be cut further.                                      *)
LEMMA CutFurther ==
    ASSUME NEW P \in Seq(Phrase), NEW t \in Phrase, NEW text \in Phrase, Cut(Append(P, t), text),
           NEW x \in Phrase, NEW y \in Phrase, t = x \o y
    PROVE  Append(P, x) \in Seq(Phrase) /\ Cut(Append(Append(P, x), y), text)
<1> DEFINE n == Len(P)
           S == Append(P, t)
           N == Append(Append(P, x), y)
<1>1. n \in Nat /\ Len(x) \in Nat /\ Len(y) \in Nat /\ Len(t) \in Nat /\ Len(text) \in Nat
    BY ListFacts, PhraseFacts
<1>2. /\ S \in Seq(Phrase) /\ DOMAIN S = 1..(n + 1)
      /\ \A k \in 1..n : S[k] = P[k]
      /\ S[n + 1] = t
    BY AppendProperties, ListFacts
<1>3. /\ Append(P, x) \in Seq(Phrase) /\ Len(Append(P, x)) = n + 1
      /\ \A k \in 1..n : Append(P, x)[k] = P[k]
      /\ Append(P, x)[n + 1] = x
    BY AppendProperties, ListFacts
<1>4. /\ N \in Seq(Phrase) /\ DOMAIN N = 1..(n + 2)
      /\ \A k \in 1..n : N[k] = P[k]
      /\ N[n + 1] = x /\ N[n + 2] = y
  <2>1. /\ N \in Seq(Phrase) /\ Len(N) = n + 2
        /\ \A k \in 1..(n + 1) : N[k] = Append(P, x)[k]
        /\ N[n + 2] = y
      BY <1>1, <1>3, AppendProperties
  <2> QED
      BY <1>1, <1>3, <2>1, ListFacts
<1>5. /\ Len(t) = Len(x) + Len(y)
      /\ \A i \in 1..Len(x) : x[i] = t[i]
      /\ \A i \in 1..Len(y) : y[i] = t[Len(x) + i]
    BY <1>1, ConcatProperties DEF Phrase
<1>6. PICK p \in [DOMAIN S -> Nat] :
        /\ \A k \in DOMAIN S :
            p[k] + Len(S[k]) <= Len(text) /\ \A i \in DOMAIN S[k] : S[k][i] = text[p[k] + i]
        /\ \A k, l \in DOMAIN S : k < l => p[k] + Len(S[k]) <= p[l]
    BY DEF Cut
<1> DEFINE q == [k \in 1..(n + 2) |-> IF k <= n + 1 THEN p[k] ELSE p[n + 1] + Len(x)]
<1> HIDE DEF N, S, n
<1>7. \A k \in 1..n : P[k] \in Phrase /\ Len(P[k]) \in Nat
    BY ListFacts, PhraseFacts DEF n
<1>8. p \in [1..(n + 1) -> Nat] /\ \A k \in 1..(n + 1) : p[k] \in Nat
    BY <1>2, <1>6
<1>9. q \in [DOMAIN N -> Nat]
    BY <1>1, <1>4, <1>8
<1>10. /\ \A k \in 1..n : q[k] = p[k]
       /\ q[n + 1] = p[n + 1] /\ q[n + 2] = p[n + 1] + Len(x)
    BY <1>1
<1> HIDE DEF q
<1>11. \A k \in DOMAIN N :
        q[k] + Len(N[k]) <= Len(text) /\ \A i \in DOMAIN N[k] : N[k][i] = text[q[k] + i]
  <2>1. ASSUME NEW k \in 1..n
        PROVE  q[k] + Len(N[k]) <= Len(text) /\ \A i \in DOMAIN N[k] : N[k][i] = text[q[k] + i]
    <3>1. N[k] = S[k] /\ q[k] = p[k] /\ k \in DOMAIN S
        BY <1>1, <1>2, <1>4, <1>10
    <3> QED
        BY <1>6, <3>1
  <2>2. /\ n + 1 \in DOMAIN S /\ S[n + 1] = t
        /\ p[n + 1] + Len(t) <= Len(text) /\ \A i \in DOMAIN t : t[i] = text[p[n + 1] + i]
    <3>1. n + 1 \in DOMAIN S
        BY <1>1, <1>2
    <3> QED
        BY <1>2, <1>6, <3>1
  <2>3. q[n + 1] + Len(N[n + 1]) <= Len(text)
        /\ \A i \in DOMAIN N[n + 1] : N[n + 1][i] = text[q[n + 1] + i]
    <3>1. p[n + 1] \in Nat /\ N[n + 1] = x /\ q[n + 1] = p[n + 1]
        BY <1>1, <1>4, <1>8, <1>10
    <3>2. ASSUME NEW i \in DOMAIN x PROVE x[i] = text[p[n + 1] + i]
      <4>1. i \in 1..Len(x) /\ i \in DOMAIN t
          BY <1>1, <1>5, PhraseFacts
      <4> QED
          BY <1>5, <2>2, <4>1
    <3> QED
        BY <1>1, <1>5, <2>2, <3>1, <3>2
  <2>4. q[n + 2] + Len(N[n + 2]) <= Len(text)
        /\ \A i \in DOMAIN N[n + 2] : N[n + 2][i] = text[q[n + 2] + i]
    <3>1. p[n + 1] \in Nat
        BY <1>1, <1>8
    <3>2. ASSUME NEW i \in DOMAIN y PROVE y[i] = text[p[n + 1] + Len(x) + i]
      <4>1. i \in 1..Len(y) /\ Len(x) + i \in DOMAIN t
          BY <1>1, <1>5, <3>2, PhraseFacts
      <4>2. y[i] = t[Len(x) + i]
          BY <1>5, <4>1
      <4>3. t[Len(x) + i] = text[p[n + 1] + (Len(x) + i)]
          BY <2>2, <4>1
      <4>4. p[n + 1] + (Len(x) + i) = p[n + 1] + Len(x) + i
          BY <1>1, <3>1, <4>1
      <4> QED
          BY <4>2, <4>3, <4>4
    <3> QED
        BY <1>1, <1>4, <1>5, <1>10, <2>2, <3>1, <3>2
  <2>5. \A k \in DOMAIN N : k \in 1..n \/ k = n + 1 \/ k = n + 2
      BY <1>1, <1>4
  <2> QED
      BY <2>1, <2>3, <2>4, <2>5
<1>12. \A k, l \in DOMAIN N : k < l => q[k] + Len(N[k]) <= q[l]
  <2> SUFFICES ASSUME NEW k \in DOMAIN N, NEW l \in DOMAIN N, k < l
               PROVE  q[k] + Len(N[k]) <= q[l]
      OBVIOUS
  <2>1. CASE l \in 1..n
    <3>1. k \in 1..n
        BY <1>1, <1>4, <2>1
    <3>2. k \in DOMAIN S /\ l \in DOMAIN S /\ N[k] = S[k] /\ q[k] = p[k] /\ q[l] = p[l]
        BY <1>1, <1>2, <1>4, <1>10, <2>1, <3>1
    <3> QED
        BY <1>6, <3>2
  <2>2. CASE l = n + 1
    <3>1. k \in 1..n
        BY <1>1, <1>4, <2>2
    <3>2. k \in DOMAIN S /\ l \in DOMAIN S /\ N[k] = S[k] /\ q[k] = p[k] /\ q[l] = p[l]
        BY <1>1, <1>2, <1>4, <1>10, <2>2, <3>1
    <3> QED
        BY <1>6, <3>2
  <2>3. CASE l = n + 2 /\ k = n + 1
      BY <1>1, <1>4, <1>10, <2>3, <1>8
  <2>4. CASE l = n + 2 /\ k \in 1..n
    <3>1. k \in DOMAIN S /\ n + 1 \in DOMAIN S /\ k < n + 1 /\ N[k] = S[k] /\ q[k] = p[k]
        BY <1>1, <1>2, <1>4, <1>10, <2>4
    <3>2. p[k] + Len(N[k]) <= p[n + 1]
        BY <1>6, <3>1
    <3>3. p[k] \in Nat /\ p[n + 1] \in Nat /\ Len(N[k]) \in Nat
        BY <1>1, <1>4, <1>7, <1>8, <2>4
    <3> QED
        BY <1>1, <1>10, <2>4, <3>1, <3>2, <3>3
  <2> QED
      BY <1>1, <1>4, <2>1, <2>2, <2>3, <2>4
<1> QED
    BY <1>3, <1>9, <1>11, <1>12 DEF Cut, N

(* What _drain_ready_phrases makes of the buffer, with what it leaves there, *)
(* are stretches of the text, one after the other: no word twice, none out  *)
(* of order.  What is left is shorter than a phrase, and at the end nothing. *)
THEOREM PhrasesAreCut ==
    ASSUME NEW text \in Phrase, NEW final \in BOOLEAN, NEW cut, cut = Phrases(text, final)
    PROVE  /\ cut.phrases \in Seq(Phrase) /\ cut.rest \in Phrase
           /\ Len(cut.rest) < PhraseWords
           /\ Cut(Append(cut.phrases, cut.rest), text)
           /\ final => cut.rest = << >>
<1> DEFINE ends == {i \in DOMAIN text : text[i][2] \in Stops}
           from(k) == IF k = 1 THEN 1 ELSE Nth(ends, k - 1) + 1
           whole == [k \in 1..Cardinality(ends) |-> SubSeq(text, from(k), Nth(ends, k))]
           left == SubSeq(text, from(Cardinality(ends) + 1), Len(text))
           n == Cardinality(ends)
<1>1. Len(text) \in Nat /\ DOMAIN text = 1..Len(text)
    BY PhraseFacts
<1>2. IsFiniteSet(ends) /\ n \in Nat /\ \A x \in ends : x \in Int
    BY FinitePlaces DEF Phrase
<1>3. cut = IF Len(left) >= PhraseWords /\ final
            THEN [phrases |-> whole \o <<Front(left), <<Last(left)>>>>, rest |-> << >>]
            ELSE IF Len(left) >= PhraseWords
            THEN [phrases |-> Append(whole, Front(left)), rest |-> <<Last(left)>>]
            ELSE IF final /\ left # << >>
            THEN [phrases |-> Append(whole, left), rest |-> << >>]
            ELSE [phrases |-> whole, rest |-> left]
    BY DEF Phrases
<1>4. \A k \in 1..n : Nth(ends, k) \in 1..Len(text)
  <2>1. \A k \in 1..n : Nth(ends, k) \in ends
    <3> HIDE DEF ends
    <3> QED
        BY <1>2, NthIsThere
  <2> QED
      BY <1>1, <2>1
<1>5. \A k, l \in 1..n : k < l => Nth(ends, k) < Nth(ends, l)
  <2> HIDE DEF ends
  <2> QED
      BY <1>2, NthAscends
<1> HIDE DEF ends
<1>6. \A k \in 1..(n + 1) : from(k) \in 1..(Len(text) + 1)
    BY <1>1, <1>2, <1>4
<1>7. \A k \in 1..n : from(k) <= Nth(ends, k)
    BY <1>1, <1>2, <1>4, <1>5
<1>8. \A k \in 1..n, l \in 1..(n + 1) : k < l => Nth(ends, k) <= from(l) - 1
    BY <1>1, <1>2, <1>4, <1>5
<1> HIDE DEF from
<1>9. \A k \in 1..n :
        /\ SubSeq(text, from(k), Nth(ends, k)) \in Phrase
        /\ Len(SubSeq(text, from(k), Nth(ends, k))) = Nth(ends, k) - from(k) + 1
        /\ \A i \in 1..(Nth(ends, k) - from(k) + 1) :
            SubSeq(text, from(k), Nth(ends, k))[i] = text[from(k) + i - 1]
  <2> TAKE k \in 1..n
  <2>1. /\ from(k) \in Int /\ Nth(ends, k) \in Int /\ 1 <= from(k) /\ Nth(ends, k) <= Len(text)
        /\ from(k) <= Nth(ends, k) + 1
      BY <1>2, <1>4, <1>6, <1>7
  <2> QED
      BY <2>1, PhraseStretch
<1>10. /\ left \in Phrase /\ Len(left) = Len(text) - from(n + 1) + 1
       /\ \A i \in 1..(Len(text) - from(n + 1) + 1) : left[i] = text[from(n + 1) + i - 1]
  <2>1. from(n + 1) \in 1..(Len(text) + 1)
      BY <1>2, <1>6
  <2>2. from(n + 1) \in Int /\ Len(text) \in Int /\ 1 <= from(n + 1) /\ from(n + 1) <= Len(text) + 1
      BY <1>1, <2>1
  <2> QED
      BY <2>2, PhraseStretch
<1>11. whole \in Seq(Phrase) /\ Len(whole) = n
  <2>1. whole \in Seq(Phrase)
    <3> DEFINE e(k) == SubSeq(text, from(k), Nth(ends, k))
    <3>1. \A k \in 1..n : e(k) \in Phrase
        BY <1>9
    <3> HIDE DEF e
    <3>2. [k \in 1..n |-> e(k)] \in Seq(Phrase)
        BY <1>2, <3>1, IsASeq
    <3> QED
        BY <3>2 DEF e
  <2> QED
      BY <1>2, <2>1, ListFacts
<1>12. \A k \in 1..n : whole[k] = SubSeq(text, from(k), Nth(ends, k))
    OBVIOUS
<1> HIDE DEF whole, left
<1> DEFINE S == Append(whole, left)
           p == [k \in 1..(n + 1) |-> from(k) - 1]
<1>13. /\ S \in Seq(Phrase) /\ DOMAIN S = 1..(n + 1)
       /\ \A k \in 1..n : S[k] = whole[k]
       /\ S[n + 1] = left
    BY <1>2, <1>10, <1>11, AppendProperties, ListFacts
<1> HIDE DEF S, n
<1>14. p \in [DOMAIN S -> Nat] /\ \A k \in 1..(n + 1) : p[k] = from(k) - 1
    BY <1>6, <1>13
<1> HIDE DEF p
<1>15. \A k \in 1..n :
        /\ p[k] + Len(S[k]) = Nth(ends, k) /\ p[k] + Len(S[k]) <= Len(text)
        /\ \A i \in DOMAIN S[k] : S[k][i] = text[p[k] + i]
  <2> TAKE k \in 1..n
  <2>1. /\ S[k] \in Phrase /\ Len(S[k]) = Nth(ends, k) - from(k) + 1
        /\ \A i \in 1..(Nth(ends, k) - from(k) + 1) : S[k][i] = text[from(k) + i - 1]
      BY <1>9, <1>12, <1>13
  <2>2. DOMAIN S[k] = 1..(Nth(ends, k) - from(k) + 1)
      BY <2>1, PhraseFacts
  <2>3. from(k) \in Int /\ Nth(ends, k) \in Int /\ Nth(ends, k) <= Len(text) /\ p[k] = from(k) - 1
      BY <1>1, <1>2, <1>4, <1>6, <1>14 DEF n
  <2>4. \A i \in DOMAIN S[k] : S[k][i] = text[from(k) + i - 1] /\ from(k) + i - 1 = p[k] + i
      BY <2>1, <2>2, <2>3
  <2> QED
      BY <2>1, <2>3, <2>4
<1>16. /\ p[n + 1] + Len(S[n + 1]) <= Len(text)
       /\ \A i \in DOMAIN S[n + 1] : S[n + 1][i] = text[p[n + 1] + i]
  <2>1. /\ from(n + 1) \in Int /\ p[n + 1] = from(n + 1) - 1
      BY <1>1, <1>2, <1>6, <1>14 DEF n
  <2>2. DOMAIN left = 1..(Len(text) - from(n + 1) + 1)
      BY <1>10, PhraseFacts
  <2>3. \A i \in DOMAIN left : left[i] = text[from(n + 1) + i - 1] /\ from(n + 1) + i - 1 = p[n + 1] + i
      BY <1>1, <1>10, <2>1, <2>2
  <2> QED
      BY <1>1, <1>10, <1>13, <2>1, <2>3
<1>17. Cut(S, text)
  <2>1. n \in Nat
      BY <1>2 DEF n
  <2>2. \A k \in DOMAIN S : k \in 1..n \/ k = n + 1
      BY <2>1, <1>13
  <2>3. \A k, l \in DOMAIN S : k < l => p[k] + Len(S[k]) <= p[l]
    <3> SUFFICES ASSUME NEW k \in DOMAIN S, NEW l \in DOMAIN S, k < l
                 PROVE  p[k] + Len(S[k]) <= p[l]
        OBVIOUS
    <3>1. k \in 1..n /\ l \in 1..(n + 1)
        BY <2>1, <1>13
    <3> QED
        BY <3>1, <1>8, <1>14, <1>15
  <2> QED
      BY <1>14, <1>15, <1>16, <2>2, <2>3 DEF Cut
<1>18. Len(left) \in Nat /\ Len(<< >>) = 0 /\ << >> \in Phrase
    BY <1>10, PhraseFacts, EmptySeq DEF Phrase
<1>19. left = left \o << >>
    BY <1>10, ConcatEmptySeq DEF Phrase
<1>20. ASSUME Len(left) >= PhraseWords
       PROVE  /\ Front(left) \in Phrase /\ <<Last(left)>> \in Phrase
              /\ left = Front(left) \o <<Last(left)>>
              /\ <<Last(left)>> = <<Last(left)>> \o << >>
              /\ Len(<<Last(left)>>) = 1
  <2>1. Len(left) \in Nat /\ Len(left) >= 2
      BY <1>18, <1>20, ReplyAssumption
  <2>2. Front(left) = SubSeq(left, 1, Len(left) - 1) /\ Last(left) = left[Len(left)]
      BY DEF Front, Last
  <2>3. Front(left) \in Phrase
      BY <1>10, <2>1, <2>2, PhraseStretch
  <2>4. Last(left) \in Nat \X Nat
      BY <1>10, <2>1, <2>2, PhraseFacts
  <2>5. <<Last(left)>> \in Phrase /\ Len(<<Last(left)>>) = 1
      BY <2>4 DEF Phrase
  <2>6. left = SubSeq(left, 1, Len(left) - 1) \o <<left[Len(left)]>>
    <3>1. SubSeq(left, 1, Len(left)) = left
        BY <1>10, SubSeqFull DEF Phrase
    <3>2. 1 \in 1..Len(left) /\ Len(left) \in 1..Len(left)
        BY <2>1
    <3>3. SubSeq(left, 1, Len(left)) = SubSeq(left, 1, Len(left) - 1) \o <<left[Len(left)]>>
        BY <1>10, <3>2, SubSeqRecursiveSecond DEF Phrase
    <3> QED
        BY <3>1, <3>3
  <2>7. <<Last(left)>> = <<Last(left)>> \o << >>
      BY <2>5, ConcatEmptySeq DEF Phrase
  <2> QED
      BY <2>2, <2>3, <2>5, <2>6, <2>7
<1> HIDE DEF S
<1>21. CASE Len(left) >= PhraseWords /\ final
  <2> DEFINE A == Append(Append(whole, Front(left)), <<Last(left)>>)
  <2>1. Append(whole, Front(left)) \in Seq(Phrase)
        /\ Cut(A, text)
      BY <1>10, <1>11, <1>17, <1>20, <1>21, CutFurther DEF S
  <2>2. A \in Seq(Phrase) /\ Cut(Append(A, << >>), text)
      BY <1>18, <1>20, <1>21, <2>1, CutFurther
  <2>3. whole \o <<Front(left), <<Last(left)>>>> = A
    <3>1. <<Front(left), <<Last(left)>>>> = <<Front(left)>> \o << <<Last(left)>> >>
        OBVIOUS
    <3>2. <<Front(left)>> \in Seq(Phrase) /\ << <<Last(left)>> >> \in Seq(Phrase)
        BY <1>20, <1>21
    <3>3. Append(whole, Front(left)) = whole \o <<Front(left)>>
        BY <1>11, <1>20, <1>21, AppendIsConcat
    <3>4. A = Append(whole, Front(left)) \o << <<Last(left)>> >>
        BY <1>20, <1>21, <2>1, AppendIsConcat
    <3>5. whole \o (<<Front(left)>> \o << <<Last(left)>> >>) = (whole \o <<Front(left)>>) \o << <<Last(left)>> >>
        BY <1>11, <3>2, ConcatAssociative
    <3> QED
        BY <3>1, <3>3, <3>4, <3>5
  <2>4. cut = [phrases |-> A, rest |-> << >>]
      BY <1>3, <1>21, <2>3
  <2>5. cut.phrases = A /\ cut.rest = << >>
      BY <2>4
  <2> HIDE DEF A
  <2> QED
      BY <1>18, <2>2, <2>5, ReplyAssumption
<1>22. CASE Len(left) >= PhraseWords /\ ~final
  <2>1. Append(whole, Front(left)) \in Seq(Phrase)
        /\ Cut(Append(Append(whole, Front(left)), <<Last(left)>>), text)
      BY <1>10, <1>11, <1>17, <1>20, <1>22, CutFurther DEF S
  <2>2. cut = [phrases |-> Append(whole, Front(left)), rest |-> <<Last(left)>>]
      BY <1>3, <1>22
  <2>3. cut.phrases = Append(whole, Front(left)) /\ cut.rest = <<Last(left)>>
      BY <2>2
  <2> QED
      BY <1>20, <1>22, <2>1, <2>3, ReplyAssumption
<1>23. CASE ~(Len(left) >= PhraseWords) /\ final /\ left # << >>
  <2>1. Append(whole, left) \in Seq(Phrase) /\ Cut(Append(Append(whole, left), << >>), text)
      BY <1>10, <1>11, <1>17, <1>18, <1>19, CutFurther DEF S
  <2>2. cut = [phrases |-> Append(whole, left), rest |-> << >>]
      BY <1>3, <1>23
  <2>3. cut.phrases = Append(whole, left) /\ cut.rest = << >>
      BY <2>2
  <2> QED
      BY <1>18, <2>1, <2>3, ReplyAssumption
<1>24. CASE ~(Len(left) >= PhraseWords) /\ ~(final /\ left # << >>)
  <2>1. cut = [phrases |-> whole, rest |-> left]
      BY <1>3, <1>24
  <2>2. cut.phrases = whole /\ cut.rest = left
      BY <2>1
  <2> QED
      BY <1>10, <1>11, <1>17, <1>18, <1>24, <2>2, ReplyAssumption DEF S
<1> QED
    BY <1>21, <1>22, <1>23, <1>24

-----------------------------------------------------------------------------
(***************************************************************************)
(* The line of phrases.                                                    *)
(***************************************************************************)
Word(x, r) == x[1] = r /\ Spoken(x[2])

(* The words of r in the phrases of P come before the ones in those of Q.   *)
Under(P, Q, r) ==
    \A k \in DOMAIN P, l \in DOMAIN Q : \A i \in DOMAIN P[k], j \in DOMAIN Q[l] :
        Word(P[k][i], r) /\ Word(Q[l][j], r) => P[k][i][2] < Q[l][j][2]
AllIn(P, W) == \A k \in DOMAIN P : \A i \in DOMAIN P[k] : P[k][i] \in W

LEMMA OrderMeans ==
    ASSUME NEW P, NEW r
    PROVE  InOrder(P, r) <=>
            \A k, l \in DOMAIN P : \A i \in DOMAIN P[k], j \in DOMAIN P[l] :
                Word(P[k][i], r) /\ Word(P[l][j], r) /\ (k < l \/ (k = l /\ i < j)) =>
                    P[k][i][2] < P[l][j][2]
    BY DEF InOrder, Word

LEMMA JoinedList ==
    ASSUME NEW P \in Seq(Phrase), NEW Q \in Seq(Phrase)
    PROVE  /\ P \o Q \in Seq(Phrase) /\ DOMAIN (P \o Q) = 1..(Len(P) + Len(Q))
           /\ Len(P) \in Nat /\ Len(Q) \in Nat /\ DOMAIN P = 1..Len(P) /\ DOMAIN Q = 1..Len(Q)
           /\ \A k \in DOMAIN P : k \in DOMAIN (P \o Q) /\ (P \o Q)[k] = P[k]
           /\ \A k \in DOMAIN Q : k + Len(P) \in DOMAIN (P \o Q) /\ (P \o Q)[k + Len(P)] = Q[k]
           /\ \A k \in DOMAIN (P \o Q) :
                k \in DOMAIN P \/ (k \notin DOMAIN P /\ k - Len(P) \in DOMAIN Q /\ (P \o Q)[k] = Q[k - Len(P)])
<1> DEFINE S == P \o Q
<1>1. /\ S \in Seq(Phrase) /\ Len(S) = Len(P) + Len(Q)
      /\ \A k \in 1..(Len(P) + Len(Q)) : S[k] = IF k <= Len(P) THEN P[k] ELSE Q[k - Len(P)]
    BY ConcatProperties
<1>2. /\ Len(P) \in Nat /\ Len(Q) \in Nat /\ DOMAIN P = 1..Len(P) /\ DOMAIN Q = 1..Len(Q)
      /\ DOMAIN S = 1..Len(S)
    BY <1>1, ListFacts
<1> HIDE DEF S
<1>3. \A k \in DOMAIN P : k \in DOMAIN S /\ S[k] = P[k]
    BY <1>1, <1>2
<1>4. \A k \in DOMAIN Q : k + Len(P) \in DOMAIN S /\ S[k + Len(P)] = Q[k]
  <2> TAKE k \in DOMAIN Q
  <2>1. k + Len(P) \in 1..(Len(P) + Len(Q)) /\ ~(k + Len(P) <= Len(P)) /\ k + Len(P) - Len(P) = k
      BY <1>2
  <2> QED
      BY <1>1, <1>2, <2>1
<1>5. \A k \in DOMAIN S :
        k \in DOMAIN P \/ (k \notin DOMAIN P /\ k - Len(P) \in DOMAIN Q /\ S[k] = Q[k - Len(P)])
    BY <1>1, <1>2
<1> QED
    BY <1>1, <1>2, <1>3, <1>4, <1>5 DEF S

LEMMA JoinedUnder ==
    ASSUME NEW P \in Seq(Phrase), NEW Q \in Seq(Phrase), NEW S, NEW r
    PROVE  /\ Under(P \o Q, S, r) <=> Under(P, S, r) /\ Under(Q, S, r)
           /\ Under(S, P \o Q, r) <=> Under(S, P, r) /\ Under(S, Q, r)
<1> DEFINE J == P \o Q
           n == Len(P)
<1>1. /\ \A k \in DOMAIN P : k \in DOMAIN J /\ J[k] = P[k]
      /\ \A k \in DOMAIN Q : k + n \in DOMAIN J /\ J[k + n] = Q[k]
      /\ \A k \in DOMAIN J : k \in DOMAIN P \/ (k \notin DOMAIN P /\ k - n \in DOMAIN Q /\ J[k] = Q[k - n])
    BY JoinedList
<1> HIDE DEF J, n
<1>2. Under(J, S, r) <=> Under(P, S, r) /\ Under(Q, S, r)
  <2>1. Under(J, S, r) => Under(P, S, r) /\ Under(Q, S, r)
      BY <1>1 DEF Under
  <2>2. Under(P, S, r) /\ Under(Q, S, r) => Under(J, S, r)
      BY <1>1 DEF Under
  <2> QED
      BY <2>1, <2>2
<1>3. Under(S, J, r) <=> Under(S, P, r) /\ Under(S, Q, r)
  <2>1. Under(S, J, r) => Under(S, P, r) /\ Under(S, Q, r)
      BY <1>1 DEF Under
  <2>2. Under(S, P, r) /\ Under(S, Q, r) => Under(S, J, r)
      BY <1>1 DEF Under
  <2> QED
      BY <2>1, <2>2
<1> QED
    BY <1>2, <1>3 DEF J

LEMMA JoinedAllIn ==
    ASSUME NEW P \in Seq(Phrase), NEW Q \in Seq(Phrase), NEW W
    PROVE  AllIn(P \o Q, W) <=> AllIn(P, W) /\ AllIn(Q, W)
<1> DEFINE J == P \o Q
           n == Len(P)
<1>1. /\ \A k \in DOMAIN P : k \in DOMAIN J /\ J[k] = P[k]
      /\ \A k \in DOMAIN Q : k + n \in DOMAIN J /\ J[k + n] = Q[k]
      /\ \A k \in DOMAIN J : k \in DOMAIN P \/ (k \notin DOMAIN P /\ k - n \in DOMAIN Q /\ J[k] = Q[k - n])
    BY JoinedList
<1> HIDE DEF J, n
<1>2. AllIn(J, W) => AllIn(P, W) /\ AllIn(Q, W)
    BY <1>1 DEF AllIn
<1>3. AllIn(P, W) /\ AllIn(Q, W) => AllIn(J, W)
    BY <1>1 DEF AllIn
<1> QED
    BY <1>2, <1>3 DEF J

LEMMA JoinedInOrder ==
    ASSUME NEW P \in Seq(Phrase), NEW Q \in Seq(Phrase), NEW r
    PROVE  InOrder(P \o Q, r) <=> InOrder(P, r) /\ InOrder(Q, r) /\ Under(P, Q, r)
<1> DEFINE J == P \o Q
           n == Len(P)
<1>1. /\ n \in Nat /\ DOMAIN P = 1..n /\ DOMAIN Q \in SUBSET Nat /\ DOMAIN J \in SUBSET Nat
      /\ \A k \in DOMAIN P : k \in DOMAIN J /\ J[k] = P[k]
      /\ \A k \in DOMAIN Q : k + n \in DOMAIN J /\ J[k + n] = Q[k]
      /\ \A k \in DOMAIN J : k \in DOMAIN P \/ (k \notin DOMAIN P /\ k - n \in DOMAIN Q /\ J[k] = Q[k - n])
    BY JoinedList
<1>2. \A k \in DOMAIN Q : k \in Nat /\ k > 0
    BY JoinedList
<1>3. \A k \in DOMAIN J : k \in Nat
    BY <1>1
<1> HIDE DEF J, n
<1>4. ASSUME InOrder(J, r) PROVE InOrder(P, r) /\ InOrder(Q, r) /\ Under(P, Q, r)
  <2>1. InOrder(P, r)
      BY <1>1, <1>4, OrderMeans
  <2>2. \A k, l \in DOMAIN Q : (k < l => k + n < l + n) /\ (k = l => k + n = l + n)
      BY <1>1, <1>2
  <2>3. InOrder(Q, r)
    <3> SUFFICES ASSUME NEW k \in DOMAIN Q, NEW l \in DOMAIN Q, NEW i \in DOMAIN Q[k], NEW j \in DOMAIN Q[l],
                        Word(Q[k][i], r), Word(Q[l][j], r), k < l \/ (k = l /\ i < j)
                 PROVE  Q[k][i][2] < Q[l][j][2]
        BY OrderMeans
    <3>1. /\ k + n \in DOMAIN J /\ l + n \in DOMAIN J /\ J[k + n] = Q[k] /\ J[l + n] = Q[l]
          /\ k + n < l + n \/ (k + n = l + n /\ i < j)
        BY <1>1, <2>2
    <3> QED
        BY <1>4, <3>1, OrderMeans
  <2>4. Under(P, Q, r)
    <3> SUFFICES ASSUME NEW k \in DOMAIN P, NEW l \in DOMAIN Q, NEW i \in DOMAIN P[k], NEW j \in DOMAIN Q[l],
                        Word(P[k][i], r), Word(Q[l][j], r)
                 PROVE  P[k][i][2] < Q[l][j][2]
        BY DEF Under
    <3>1. k \in DOMAIN J /\ l + n \in DOMAIN J /\ J[k] = P[k] /\ J[l + n] = Q[l] /\ k < l + n
        BY <1>1, <1>2
    <3> QED
        BY <1>4, <3>1, OrderMeans
  <2> QED
      BY <2>1, <2>3, <2>4
<1>5. ASSUME InOrder(P, r), InOrder(Q, r), Under(P, Q, r) PROVE InOrder(J, r)
  <2> SUFFICES ASSUME NEW k \in DOMAIN J, NEW l \in DOMAIN J, NEW i \in DOMAIN J[k], NEW j \in DOMAIN J[l],
                      Word(J[k][i], r), Word(J[l][j], r), k < l \/ (k = l /\ i < j)
               PROVE  J[k][i][2] < J[l][j][2]
      BY OrderMeans
  <2>0. k \in Nat /\ l \in Nat
      BY <1>3
  <2>1. CASE k \in DOMAIN P /\ l \in DOMAIN P
      BY <1>1, <1>5, <2>1, OrderMeans
  <2>2. CASE k \in DOMAIN P /\ l \notin DOMAIN P
      BY <1>1, <1>5, <2>2 DEF Under
  <2>3. CASE k \notin DOMAIN P /\ l \notin DOMAIN P
    <3>1. k - n \in DOMAIN Q /\ l - n \in DOMAIN Q /\ J[k] = Q[k - n] /\ J[l] = Q[l - n]
        BY <1>1, <2>3
    <3>2. k - n < l - n \/ (k - n = l - n /\ i < j)
        BY <1>1, <2>0
    <3> QED
        BY <1>5, <3>1, <3>2, OrderMeans
  <2>4. CASE k \notin DOMAIN P /\ l \in DOMAIN P
    <3>1. k > n \/ k = 0
        BY <1>1, <2>0, <2>4
    <3>2. k # 0
        BY <1>1, <1>2, <2>0, <2>4
    <3>3. l <= n
        BY <1>1, <2>4
    <3> QED
        BY <1>1, <2>0, <3>1, <3>2, <3>3
  <2> QED
      BY <2>1, <2>2, <2>3, <2>4
<1> QED
    BY <1>4, <1>5 DEF J

LEMMA NoPhrase ==
    ASSUME NEW P, NEW r, NEW W
    PROVE  /\ InOrder(<< >>, r) /\ Under(<< >>, P, r) /\ Under(P, << >>, r) /\ AllIn(<< >>, W)
           /\ InOrder(<< << >> >>, r) /\ Under(<< << >> >>, P, r) /\ Under(P, << << >> >>, r)
           /\ AllIn(<< << >> >>, W)
<1>1. DOMAIN << >> = {} /\ DOMAIN << << >> >> = {1} /\ << << >> >>[1] = << >>
    OBVIOUS
<1> QED
    BY <1>1, OrderMeans DEF Under, AllIn

LEMMA CutInOrder ==
    ASSUME NEW P \in Seq(Phrase), NEW t \in Phrase, Cut(P, t)
    PROVE  /\ \A r : InOrder(<<t>>, r) => InOrder(P, r)
           /\ \A S, r : Under(S, <<t>>, r) => Under(S, P, r)
           /\ \A W : AllIn(<<t>>, W) => AllIn(P, W)
<1>1. PICK p \in [DOMAIN P -> Nat] :
        /\ \A k \in DOMAIN P :
            p[k] + Len(P[k]) <= Len(t) /\ \A i \in DOMAIN P[k] : P[k][i] = t[p[k] + i]
        /\ \A k, l \in DOMAIN P : k < l => p[k] + Len(P[k]) <= p[l]
    BY DEF Cut
<1>2. DOMAIN <<t>> = {1} /\ <<t>>[1] = t
    OBVIOUS
<1>3. \A k \in DOMAIN P : DOMAIN P[k] = 1..Len(P[k]) /\ Len(P[k]) \in Nat /\ p[k] \in Nat /\ k \in Int
    BY <1>1, ListFacts, PhraseFacts
<1>4. \A k \in DOMAIN P : \A i \in DOMAIN P[k] : p[k] + i \in DOMAIN t /\ P[k][i] = t[p[k] + i]
  <2> TAKE k \in DOMAIN P
  <2> TAKE i \in DOMAIN P[k]
  <2>1. DOMAIN t = 1..Len(t) /\ Len(t) \in Nat
      BY PhraseFacts
  <2>2. p[k] + Len(P[k]) <= Len(t) /\ P[k][i] = t[p[k] + i]
      BY <1>1
  <2> QED
      BY <1>3, <2>1, <2>2
<1>5. ASSUME NEW r, InOrder(<<t>>, r) PROVE InOrder(P, r)
  <2> SUFFICES ASSUME NEW k \in DOMAIN P, NEW l \in DOMAIN P, NEW i \in DOMAIN P[k], NEW j \in DOMAIN P[l],
                      Word(P[k][i], r), Word(P[l][j], r), k < l \/ (k = l /\ i < j)
               PROVE  P[k][i][2] < P[l][j][2]
      BY OrderMeans
  <2>1. p[k] + i < p[l] + j
    <3>1. CASE k < l
      <4>1. p[k] + Len(P[k]) <= p[l]
          BY <1>1, <3>1
      <4> QED
          BY <1>3, <4>1
    <3>2. CASE k = l /\ i < j
        BY <1>3, <3>2
    <3> QED
        BY <3>1, <3>2
  <2>2. /\ p[k] + i \in DOMAIN t /\ P[k][i] = t[p[k] + i]
        /\ p[l] + j \in DOMAIN t /\ P[l][j] = t[p[l] + j]
      BY <1>4
  <2> QED
      BY <1>2, <1>5, <2>1, <2>2, OrderMeans
<1>6. \A S, r : Under(S, <<t>>, r) => Under(S, P, r)
    BY <1>2, <1>4 DEF Under
<1>7. \A W : AllIn(<<t>>, W) => AllIn(P, W)
    BY <1>2, <1>4 DEF AllIn
<1> QED
    BY <1>5, <1>6, <1>7

(* The line, part by part: the phrase at work, the queue and the buffer.    *)
LineOf(A, Q, B) == A \o Append(Q, B)

LEMMA LineParts ==
    ASSUME NEW A \in Seq(Phrase), NEW Q \in Seq(Phrase), NEW B \in Phrase
    PROVE  /\ LineOf(A, Q, B) \in Seq(Phrase)
           /\ <<B>> \in Seq(Phrase)
           /\ \A r : InOrder(LineOf(A, Q, B), r) <=>
                /\ InOrder(A, r) /\ InOrder(Q, r) /\ InOrder(<<B>>, r)
                /\ Under(A, Q, r) /\ Under(A, <<B>>, r) /\ Under(Q, <<B>>, r)
           /\ \A W : AllIn(LineOf(A, Q, B), W) <=> AllIn(A, W) /\ AllIn(Q, W) /\ AllIn(<<B>>, W)
<1>1. <<B>> \in Seq(Phrase) /\ Append(Q, B) \in Seq(Phrase) /\ Append(Q, B) = Q \o <<B>>
    BY AppendProperties, AppendIsConcat
<1>2. LineOf(A, Q, B) = A \o (Q \o <<B>>) /\ Q \o <<B>> \in Seq(Phrase)
    BY <1>1 DEF LineOf
<1>3. LineOf(A, Q, B) \in Seq(Phrase)
    BY <1>2, JoinedList
<1>4. ASSUME NEW r
      PROVE  InOrder(LineOf(A, Q, B), r) <=>
                /\ InOrder(A, r) /\ InOrder(Q, r) /\ InOrder(<<B>>, r)
                /\ Under(A, Q, r) /\ Under(A, <<B>>, r) /\ Under(Q, <<B>>, r)
  <2>1. InOrder(A \o (Q \o <<B>>), r) <=> InOrder(A, r) /\ InOrder(Q \o <<B>>, r) /\ Under(A, Q \o <<B>>, r)
      BY <1>2, JoinedInOrder
  <2>2. InOrder(Q \o <<B>>, r) <=> InOrder(Q, r) /\ InOrder(<<B>>, r) /\ Under(Q, <<B>>, r)
      BY <1>1, JoinedInOrder
  <2>3. Under(A, Q \o <<B>>, r) <=> Under(A, Q, r) /\ Under(A, <<B>>, r)
      BY <1>1, JoinedUnder
  <2> QED
      BY <1>2, <2>1, <2>2, <2>3
<1>5. ASSUME NEW W
      PROVE  AllIn(LineOf(A, Q, B), W) <=> AllIn(A, W) /\ AllIn(Q, W) /\ AllIn(<<B>>, W)
  <2>1. AllIn(A \o (Q \o <<B>>), W) <=> AllIn(A, W) /\ AllIn(Q \o <<B>>, W)
      BY <1>2, JoinedAllIn
  <2>2. AllIn(Q \o <<B>>, W) <=> AllIn(Q, W) /\ AllIn(<<B>>, W)
      BY <1>1, JoinedAllIn
  <2> QED
      BY <1>2, <2>1, <2>2
<1> QED
    BY <1>1, <1>3, <1>4, <1>5

(* One line keeps to another: what is in order there is in order here, and  *)
(* nothing is here that is not there.                                       *)
Keeps(new, old) ==
    /\ \A r : InOrder(old, r) => InOrder(new, r)
    /\ \A W : AllIn(old, W) => AllIn(new, W)

(* A flush, *)
LEMMA FlushKeeps ==
    ASSUME NEW A \in Seq(Phrase), NEW Q \in Seq(Phrase), NEW B \in Phrase
    PROVE  Keeps(LineOf(A, Q \o <<B>>, << >>), LineOf(A, Q, B))
<1>1. << >> \in Phrase /\ <<B>> \in Seq(Phrase) /\ Q \o <<B>> \in Seq(Phrase)
  <2>1. << >> \in Phrase
      BY EmptySeq DEF Phrase
  <2>2. <<B>> \in Seq(Phrase)
      BY LineParts
  <2> QED
      BY <2>1, <2>2, JoinedList
<1>2. ASSUME NEW r, InOrder(LineOf(A, Q, B), r)
      PROVE  InOrder(LineOf(A, Q \o <<B>>, << >>), r)
  <2>1. /\ InOrder(A, r) /\ InOrder(Q, r) /\ InOrder(<<B>>, r)
        /\ Under(A, Q, r) /\ Under(A, <<B>>, r) /\ Under(Q, <<B>>, r)
      BY <1>2, LineParts
  <2>2. InOrder(Q \o <<B>>, r) /\ Under(A, Q \o <<B>>, r)
      BY <1>1, <2>1, JoinedInOrder, JoinedUnder
  <2>3. InOrder(<< << >> >>, r) /\ Under(A, << << >> >>, r) /\ Under(Q \o <<B>>, << << >> >>, r)
      BY NoPhrase
  <2> QED
      BY <1>1, <2>1, <2>2, <2>3, LineParts
<1>3. ASSUME NEW W, AllIn(LineOf(A, Q, B), W)
      PROVE  AllIn(LineOf(A, Q \o <<B>>, << >>), W)
  <2>1. AllIn(A, W) /\ AllIn(Q, W) /\ AllIn(<<B>>, W)
      BY <1>3, LineParts
  <2>2. AllIn(Q \o <<B>>, W) /\ AllIn(<< << >> >>, W)
      BY <1>1, <2>1, JoinedAllIn, NoPhrase
  <2> QED
      BY <1>1, <2>1, <2>2, LineParts
<1> QED
    BY <1>2, <1>3 DEF Keeps

(* the next phrase, *)
LEMMA TakeKeeps ==
    ASSUME NEW Q \in Seq(Phrase), Q # << >>, NEW B \in Phrase
    PROVE  LineOf(<<Head(Q)>>, Tail(Q), B) = LineOf(<< >>, Q, B)
<1>1. Head(Q) \in Phrase /\ Tail(Q) \in Seq(Phrase)
    BY HeadTailProperties
<1>2. Q = <<Head(Q)>> \o Tail(Q)
  <2>1. Len(Q) \in Nat /\ Len(Q) # 0
      BY EmptySeq, ListFacts
  <2>2. 1 \in 1..Len(Q) /\ Len(Q) \in 1..Len(Q)
      BY <2>1
  <2>3. SubSeq(Q, 1, Len(Q)) = <<Q[1]>> \o SubSeq(Q, 1 + 1, Len(Q))
      BY <2>2, SubSeqRecursiveFirst
  <2>4. SubSeq(Q, 1, Len(Q)) = Q /\ Tail(Q) = SubSeq(Q, 2, Len(Q)) /\ Head(Q) = Q[1]
      BY SubSeqFull, TailIsSubSeq
  <2> QED
      BY <2>3, <2>4
<1>3. <<Head(Q)>> \in Seq(Phrase) /\ <<B>> \in Seq(Phrase)
    BY <1>1
<1>4. Append(Tail(Q), B) = Tail(Q) \o <<B>> /\ Append(Q, B) = Q \o <<B>> /\ Q \o <<B>> \in Seq(Phrase)
    BY <1>1, <1>3, AppendIsConcat, JoinedList
<1>5. (<<Head(Q)>> \o Tail(Q)) \o <<B>> = <<Head(Q)>> \o (Tail(Q) \o <<B>>)
    BY <1>1, <1>3, ConcatAssociative
<1>6. << >> \o (Q \o <<B>>) = Q \o <<B>>
    BY <1>4, ConcatEmptySeq
<1> QED
    BY <1>2, <1>4, <1>5, <1>6 DEF LineOf

(* one that is done with, *)
LEMMA DropKeeps ==
    ASSUME NEW A \in Seq(Phrase), NEW Q \in Seq(Phrase), NEW B \in Phrase
    PROVE  Keeps(LineOf(<< >>, Q, B), LineOf(A, Q, B))
<1>1. << >> \in Seq(Phrase)
    BY EmptySeq
<1>2. ASSUME NEW r, InOrder(LineOf(A, Q, B), r) PROVE InOrder(LineOf(<< >>, Q, B), r)
  <2>1. InOrder(Q, r) /\ InOrder(<<B>>, r) /\ Under(Q, <<B>>, r)
      BY <1>2, LineParts
  <2>2. InOrder(<< >>, r) /\ Under(<< >>, Q, r) /\ Under(<< >>, <<B>>, r)
      BY NoPhrase
  <2> QED
      BY <1>1, <2>1, <2>2, LineParts
<1>3. ASSUME NEW W, AllIn(LineOf(A, Q, B), W) PROVE AllIn(LineOf(<< >>, Q, B), W)
  <2>1. AllIn(Q, W) /\ AllIn(<<B>>, W) /\ AllIn(<< >>, W)
      BY <1>3, LineParts, NoPhrase
  <2> QED
      BY <1>1, <2>1, LineParts
<1> QED
    BY <1>2, <1>3 DEF Keeps

(* and a queue and a buffer that are emptied.                               *)
LEMMA ClearKeeps ==
    ASSUME NEW A \in Seq(Phrase), NEW Q \in Seq(Phrase), NEW B \in Phrase
    PROVE  Keeps(LineOf(A, << >>, << >>), LineOf(A, Q, B))
<1>1. << >> \in Seq(Phrase) /\ << >> \in Phrase
    BY EmptySeq DEF Phrase
<1>2. ASSUME NEW r, InOrder(LineOf(A, Q, B), r) PROVE InOrder(LineOf(A, << >>, << >>), r)
  <2>1. InOrder(A, r)
      BY <1>2, LineParts
  <2>2. /\ InOrder(<< >>, r) /\ InOrder(<< << >> >>, r)
        /\ Under(A, << >>, r) /\ Under(A, << << >> >>, r) /\ Under(<< >>, << << >> >>, r)
      BY NoPhrase
  <2> QED
      BY <1>1, <2>1, <2>2, LineParts
<1>3. ASSUME NEW W, AllIn(LineOf(A, Q, B), W) PROVE AllIn(LineOf(A, << >>, << >>), W)
  <2>1. AllIn(A, W) /\ AllIn(<< >>, W) /\ AllIn(<< << >> >>, W)
      BY <1>3, LineParts, NoPhrase
  <2> QED
      BY <1>1, <2>1, LineParts
<1> QED
    BY <1>2, <1>3 DEF Keeps

(* A text that is fed: what is cut from it goes to the end of the queue,    *)
(* and what is left to the buffer.                                          *)
LEMMA FedText ==
    ASSUME NEW B \in Phrase, NEW f \in Nat, NEW text \in Text
    PROVE  /\ Mine(f, text) \in Phrase /\ B \o Mine(f, text) \in Phrase
           /\ Len(B \o Mine(f, text)) = Len(B) + Len(text)
           /\ Len(B) \in Nat /\ Len(text) \in Nat /\ DOMAIN B = 1..Len(B) /\ DOMAIN text = 1..Len(text)
           /\ DOMAIN (B \o Mine(f, text)) = 1..(Len(B) + Len(text))
           /\ \A i \in 1..(Len(B) + Len(text)) :
                (B \o Mine(f, text))[i] = IF i <= Len(B) THEN B[i] ELSE <<f, text[i - Len(B)]>>
<1> DEFINE m == Mine(f, text)
<1>1. Len(text) \in Nat /\ DOMAIN text = 1..Len(text) /\ \A i \in 1..Len(text) : text[i] \in Nat
    BY LenProperties, ElementOfSeq DEF Text
<1>2. m = [i \in 1..Len(text) |-> <<f, text[i]>>]
    BY <1>1 DEF Mine
<1>3. m \in Phrase /\ Len(m) = Len(text)
  <2> DEFINE e(i) == <<f, text[i]>>
  <2>1. \A i \in 1..Len(text) : e(i) \in Nat \X Nat
      BY <1>1
  <2> HIDE DEF e
  <2>2. [i \in 1..Len(text) |-> e(i)] \in Seq(Nat \X Nat)
      BY <1>1, <2>1, IsASeq
  <2>3. m \in Phrase
      BY <1>2, <2>2 DEF e, Phrase
  <2> QED
      BY <1>1, <1>2, <2>3, PhraseFacts
<1>4. \A i \in 1..Len(text) : m[i] = <<f, text[i]>>
    BY <1>2
<1> HIDE DEF m
<1>5. /\ B \o m \in Phrase /\ Len(B \o m) = Len(B) + Len(m)
      /\ \A i \in 1..(Len(B) + Len(m)) : (B \o m)[i] = IF i <= Len(B) THEN B[i] ELSE m[i - Len(B)]
    BY <1>3, ConcatProperties DEF Phrase
<1>6. Len(B) \in Nat /\ DOMAIN B = 1..Len(B) /\ DOMAIN (B \o m) = 1..Len(B \o m)
    BY <1>5, PhraseFacts
<1>7. \A i \in 1..(Len(B) + Len(text)) : ~(i <= Len(B)) => i - Len(B) \in 1..Len(text)
    BY <1>1, <1>6
<1> QED
    BY <1>1, <1>3, <1>4, <1>5, <1>6, <1>7 DEF m

LEMMA FeedKeeps ==
    ASSUME NEW A \in Seq(Phrase), NEW Q \in Seq(Phrase), NEW B \in Phrase,
           NEW f \in Nat, NEW text \in Text,
           NEW P \in Seq(Phrase), NEW rest \in Phrase, Cut(Append(P, rest), B \o Mine(f, text))
    PROVE  /\ \A r : r # f /\ InOrder(LineOf(A, Q, B), r) => InOrder(LineOf(A, Q \o P, rest), r)
           /\ \A U : /\ InOrder(LineOf(A, Q, B), f) /\ Ascends(text) /\ AllIn(LineOf(A, Q, B), U)
                     /\ \A x \in U, j \in DOMAIN text : Word(x, f) /\ Spoken(text[j]) => x[2] < text[j]
                     => InOrder(LineOf(A, Q \o P, rest), f)
           /\ \A W : AllIn(LineOf(A, Q, B), W) /\ (\A j \in DOMAIN text : <<f, text[j]>> \in W)
                     => AllIn(LineOf(A, Q \o P, rest), W)
<1> DEFINE t == B \o Mine(f, text)
<1>1. /\ t \in Phrase /\ Len(B) \in Nat /\ Len(text) \in Nat
      /\ DOMAIN B = 1..Len(B) /\ DOMAIN text = 1..Len(text) /\ DOMAIN t = 1..(Len(B) + Len(text))
      /\ \A i \in 1..(Len(B) + Len(text)) : t[i] = IF i <= Len(B) THEN B[i] ELSE <<f, text[i - Len(B)]>>
  <2>1. /\ Mine(f, text) \in Phrase /\ B \o Mine(f, text) \in Phrase
        /\ Len(B \o Mine(f, text)) = Len(B) + Len(text)
        /\ Len(B) \in Nat /\ Len(text) \in Nat /\ DOMAIN B = 1..Len(B) /\ DOMAIN text = 1..Len(text)
        /\ DOMAIN (B \o Mine(f, text)) = 1..(Len(B) + Len(text))
        /\ \A i \in 1..(Len(B) + Len(text)) :
                (B \o Mine(f, text))[i] = IF i <= Len(B) THEN B[i] ELSE <<f, text[i - Len(B)]>>
      BY FedText
  <2> QED
      BY <2>1
<1> HIDE DEF t
<1> DEFINE L == LineOf(A, Q, B)
           N == LineOf(A, Q \o P, rest)
           C == Append(P, rest)
<1>2. C \in Seq(Phrase) /\ <<rest>> \in Seq(Phrase) /\ C = P \o <<rest>> /\ Q \o P \in Seq(Phrase)
    BY AppendProperties, AppendIsConcat, JoinedList
<1>3. /\ \A r : InOrder(<<t>>, r) => InOrder(C, r)
      /\ \A S, r : Under(S, <<t>>, r) => Under(S, C, r)
      /\ \A W : AllIn(<<t>>, W) => AllIn(C, W)
    BY <1>1, <1>2, CutInOrder DEF t
<1> HIDE DEF C
<1>4. DOMAIN <<t>> = {1} /\ <<t>>[1] = t /\ DOMAIN <<B>> = {1} /\ <<B>>[1] = B
    OBVIOUS
<1>5. \A i \in DOMAIN t : (i \in DOMAIN B /\ t[i] = B[i]) \/
                          (i > Len(B) /\ i - Len(B) \in DOMAIN text /\ t[i] = <<f, text[i - Len(B)]>>)
    BY <1>1
<1>6. ASSUME NEW r, InOrder(L, r), InOrder(<<t>>, r), Under(A, <<t>>, r), Under(Q, <<t>>, r)
      PROVE  InOrder(N, r)
  <2>1. InOrder(A, r) /\ InOrder(Q, r) /\ Under(A, Q, r)
      BY <1>6, LineParts
  <2>2. InOrder(C, r) /\ Under(A, C, r) /\ Under(Q, C, r)
      BY <1>3, <1>6
  <2>3. InOrder(P, r) /\ InOrder(<<rest>>, r) /\ Under(P, <<rest>>, r)
      BY <1>2, <2>2, JoinedInOrder
  <2>4. /\ Under(A, P, r) /\ Under(A, <<rest>>, r)
        /\ Under(Q, P, r) /\ Under(Q, <<rest>>, r)
      BY <1>2, <2>2, JoinedUnder
  <2>5. InOrder(Q \o P, r) /\ Under(A, Q \o P, r) /\ Under(Q \o P, <<rest>>, r)
      BY <1>2, <2>1, <2>3, <2>4, JoinedInOrder, JoinedUnder
  <2> QED
      BY <1>2, <2>1, <2>3, <2>4, <2>5, LineParts
<1>7. ASSUME NEW r, r # f, InOrder(L, r) PROVE InOrder(N, r)
  <2>1. InOrder(<<B>>, r) /\ Under(A, <<B>>, r) /\ Under(Q, <<B>>, r)
      BY <1>7, LineParts
  <2>2. \A i \in DOMAIN t : Word(t[i], r) => i \in DOMAIN B /\ t[i] = B[i]
      BY <1>5, <1>7 DEF Word
  <2>3. InOrder(<<t>>, r)
      BY <1>4, <2>1, <2>2, OrderMeans
  <2>4. ASSUME NEW S, Under(S, <<B>>, r) PROVE Under(S, <<t>>, r)
    <3> SUFFICES ASSUME NEW k \in DOMAIN S, NEW i \in DOMAIN S[k], NEW j \in DOMAIN t,
                        Word(S[k][i], r), Word(t[j], r)
                 PROVE  S[k][i][2] < t[j][2]
        BY <1>4 DEF Under
    <3>1. j \in DOMAIN B /\ t[j] = B[j]
        BY <2>2
    <3> QED
        BY <1>4, <2>4, <3>1 DEF Under
  <2> QED
      BY <1>6, <1>7, <2>1, <2>3, <2>4
<1>8. ASSUME NEW U, InOrder(L, f), Ascends(text), AllIn(L, U),
             \A x \in U, j \in DOMAIN text : Word(x, f) /\ Spoken(text[j]) => x[2] < text[j]
      PROVE  InOrder(N, f)
  <2>1. InOrder(<<B>>, f) /\ Under(A, <<B>>, f) /\ Under(Q, <<B>>, f)
      BY <1>8, LineParts
  <2>2. AllIn(A, U) /\ AllIn(Q, U) /\ AllIn(<<B>>, U)
      BY <1>8, LineParts
  <2>3. \A i \in DOMAIN B : B[i] \in U
      BY <1>4, <2>2 DEF AllIn
  <2>4. InOrder(<<t>>, f)
    <3> SUFFICES ASSUME NEW i \in DOMAIN t, NEW j \in DOMAIN t, Word(t[i], f), Word(t[j], f), i < j
                 PROVE  t[i][2] < t[j][2]
        BY <1>4, OrderMeans
    <3>1. CASE i \in DOMAIN B /\ j \in DOMAIN B
      <4>1. t[i] = B[i] /\ t[j] = B[j]
          BY <1>1, <3>1
      <4>2. i \in DOMAIN <<B>>[1] /\ j \in DOMAIN <<B>>[1] /\ 1 \in DOMAIN <<B>>
            /\ Word(<<B>>[1][i], f) /\ Word(<<B>>[1][j], f)
          BY <1>4, <3>1, <4>1
      <4>3. <<B>>[1][i][2] < <<B>>[1][j][2]
          BY <2>1, <4>2, OrderMeans
      <4> QED
          BY <1>4, <4>1, <4>3
    <3>2. CASE i \in DOMAIN B /\ j \notin DOMAIN B
      <4>1. t[i] \in U /\ j - Len(B) \in DOMAIN text /\ t[j] = <<f, text[j - Len(B)]>>
          BY <1>5, <2>3, <3>2, <1>1
      <4> QED
          BY <1>8, <4>1 DEF Word
    <3>3. CASE i \notin DOMAIN B
      <4>1. j \notin DOMAIN B
          BY <1>1, <3>3
      <4>2. /\ i - Len(B) \in DOMAIN text /\ t[i] = <<f, text[i - Len(B)]>>
            /\ j - Len(B) \in DOMAIN text /\ t[j] = <<f, text[j - Len(B)]>>
            /\ i - Len(B) < j - Len(B)
          BY <1>1, <1>5, <3>3, <4>1
      <4> QED
          BY <1>8, <4>2 DEF Word, Ascends
    <3> QED
        BY <3>1, <3>2, <3>3
  <2>5. ASSUME NEW S, AllIn(S, U), Under(S, <<B>>, f) PROVE Under(S, <<t>>, f)
    <3> SUFFICES ASSUME NEW k \in DOMAIN S, NEW i \in DOMAIN S[k], NEW j \in DOMAIN t,
                        Word(S[k][i], f), Word(t[j], f)
                 PROVE  S[k][i][2] < t[j][2]
        BY <1>4 DEF Under
    <3>1. S[k][i] \in U
        BY <2>5 DEF AllIn
    <3>2. CASE j \in DOMAIN B
      <4>1. t[j] = B[j]
          BY <1>1, <3>2
      <4> QED
          BY <1>4, <2>5, <3>2, <4>1 DEF Under
    <3>3. CASE j \notin DOMAIN B
      <4>1. j - Len(B) \in DOMAIN text /\ t[j] = <<f, text[j - Len(B)]>>
          BY <1>5, <3>3
      <4> QED
          BY <1>8, <3>1, <4>1 DEF Word
    <3> QED
        BY <3>2, <3>3
  <2> QED
      BY <1>6, <1>8, <2>1, <2>2, <2>4, <2>5
<1>9. ASSUME NEW W, AllIn(L, W), \A j \in DOMAIN text : <<f, text[j]>> \in W PROVE AllIn(N, W)
  <2>1. AllIn(A, W) /\ AllIn(Q, W) /\ AllIn(<<B>>, W)
      BY <1>9, LineParts
  <2>2. \A i \in DOMAIN t : t[i] \in W
      BY <1>4, <1>5, <1>9, <2>1 DEF AllIn
  <2>3. AllIn(C, W)
      BY <1>3, <1>4, <2>2 DEF AllIn
  <2>4. AllIn(P, W) /\ AllIn(<<rest>>, W)
      BY <1>2, <2>3, JoinedAllIn
  <2>5. AllIn(Q \o P, W)
      BY <2>1, <2>4, JoinedAllIn
  <2> QED
      BY <1>2, <2>1, <2>4, <2>5, LineParts
<1> QED
    BY <1>7, <1>8, <1>9

-----------------------------------------------------------------------------
(***************************************************************************)
(* Replies and the phrase queue, step by step.                             *)
(***************************************************************************)
LEMMA ReplyFields ==
    ASSUME NEW x \in Reply
    PROVE  /\ x.kind \in {"llm", "local", "opener"} /\ x.script \in Script /\ x.session \in Nat
           /\ x.at \in Stages /\ x.then \in Stages /\ x.todo \in Seq(Phrase) /\ x.heard \in Nat
           /\ x.raw \in Text /\ x.said \in Text /\ x.answer \in Text /\ x.cancelled \in BOOLEAN
    BY DEF Reply

LEMMA ReplyAt ==
    ASSUME Types, NEW r \in Ids
    PROVE  reply[r] \in Reply /\ r \in Nat /\ r \in 1..Len(reply) /\ Len(reply) \in Nat
<1>1. reply \in Seq(Reply)
    BY DEF Types
<1> QED
    BY <1>1, LenProperties, ElementOfSeq DEF Ids

LEMMA ReplySet ==
    ASSUME Types, NEW r \in Ids, NEW x \in Reply, reply' = [reply EXCEPT ![r] = x]
    PROVE  /\ reply' \in Seq(Reply) /\ Len(reply') = Len(reply) /\ Len(reply') <= MaxReplies
           /\ Ids' = Ids /\ reply'[r] = x
           /\ \A q \in Ids : q # r => reply'[q] = reply[q]
<1>1. reply \in Seq(Reply) /\ Len(reply) <= MaxReplies
    BY DEF Types
<1>2. r \in 1..Len(reply) /\ Ids = 1..Len(reply)
    BY <1>1, LenProperties DEF Ids
<1>3. reply' \in Seq(Reply) /\ Len(reply') = Len(reply)
    BY <1>1, <1>2, ExceptSeq
<1> QED
    BY <1>1, <1>2, <1>3, LenProperties DEF Ids

LEMMA NoText == << >> \in Text /\ << >> \in Phrase /\ << >> \in Seq(Phrase) /\ Len(<< >>) = 0
    BY EmptySeq DEF Text, Phrase

LEMMA WholeIsScript ==
    ASSUME NEW words \in Text
    PROVE  Whole(words) \in Script /\ Whole(words).chunks = <<words>>
<1>1. <<words>> \in Seq(Text)
    OBVIOUS
<1> QED
    BY <1>1 DEF Whole, Script

LEMMA OverIsReply ==
    ASSUME NEW x \in Reply
    PROVE  Over(x) \in Reply /\ Over(x).at = "done" /\ Over(x).then = "done" /\ Over(x).kind = x.kind /\ Over(x).session = x.session
<1>1. << >> \in Text /\ << >> \in Seq(Phrase) /\ Whole(<< >>) \in Script
    BY NoText, WholeIsScript
<1>2. "done" \in Stages
    BY DEF Stages
<1> HIDE DEF Script, Text, Phrase, Stages, Whole
<1> QED
    BY <1>1, <1>2 DEF Over, Reply

(* What is put, and what has to wait.                                       *)
LEMMA PutEffect ==
    ASSUME queue \in Seq(Phrase), Len(queue) <= PhraseRoom, crowded \in BOOLEAN,
           NEW phrases \in Seq(Phrase), PutSome(phrases)
    PROVE  /\ queue' \in Seq(Phrase) /\ Len(queue') <= PhraseRoom /\ crowded' \in BOOLEAN
           /\ crowded => crowded'
           /\ Unput(phrases) \in Seq(Phrase)
           /\ Unput(phrases) # << >> => crowded'
           /\ ~crowded' => queue' = queue \o phrases
           /\ Len(phrases) > Room => crowded'
<1>1. /\ Len(queue) \in Nat /\ Len(phrases) \in Nat /\ PhraseRoom \in Nat
      /\ DOMAIN phrases = 1..Len(phrases) /\ \A k \in 1..Len(phrases) : phrases[k] \in Phrase
    BY ListFacts, ReplyAssumption
<1>2. Room \in Nat /\ Room = PhraseRoom - Len(queue)
    BY <1>1 DEF Room
<1> DEFINE n == Fitting(phrases)
<1>3. n \in Nat /\ n <= Len(phrases) /\ n <= Room /\ (~(Len(phrases) > Room) => n = Len(phrases))
    BY <1>1, <1>2 DEF Fitting
<1>4. queue' = queue \o SubSeq(phrases, 1, n) /\ crowded' = (crowded \/ Len(phrases) > Room)
    BY DEF PutSome
<1>5. Unput(phrases) = SubSeq(phrases, n + 1, Len(phrases))
    BY DEF Unput
<1> HIDE DEF n
<1>6. SubSeq(phrases, 1, n) \in Seq(Phrase) /\ Len(SubSeq(phrases, 1, n)) = n
  <2>1. \A i \in 1..n : phrases[i] \in Phrase
    <3>1. \A m, k \in Nat : m <= k => \A i \in 1..m : i \in 1..k
        OBVIOUS
    <3> QED
        BY <1>1, <1>3, <3>1
  <2>2. /\ SubSeq(phrases, 1, n) \in Seq(Phrase)
        /\ Len(SubSeq(phrases, 1, n)) = IF 1 <= n THEN n - 1 + 1 ELSE 0
      BY <1>3, <2>1, SubSeqProperties
  <2> QED
      BY <1>3, <2>2
<1>7. queue' \in Seq(Phrase) /\ Len(queue') = Len(queue) + n
    BY <1>4, <1>6, ConcatProperties
<1>8. Unput(phrases) \in Seq(Phrase)
  <2>1. \A i \in (n + 1)..Len(phrases) : phrases[i] \in Phrase
    <3>1. \A m, k \in Nat : \A i \in (m + 1)..k : i \in 1..k
        OBVIOUS
    <3> QED
        BY <1>1, <1>3, <3>1
  <2> QED
      BY <1>1, <1>3, <1>5, <2>1, SubSeqProperties
<1>9. ~(Len(phrases) > Room) => Unput(phrases) = << >> /\ SubSeq(phrases, 1, n) = phrases
  <2> SUFFICES ASSUME ~(Len(phrases) > Room) PROVE Unput(phrases) = << >> /\ SubSeq(phrases, 1, n) = phrases
      OBVIOUS
  <2>1. n = Len(phrases)
      BY <1>3
  <2>2. n + 1 \in Int /\ n \in Int /\ n < n + 1
      BY <1>3
  <2>3. SubSeq(phrases, n + 1, n) = << >>
      BY <2>2, SubSeqEmpty
  <2>4. SubSeq(phrases, 1, Len(phrases)) = phrases
      BY SubSeqFull
  <2> QED
      BY <1>5, <2>1, <2>3, <2>4
<1>10. Len(queue') <= PhraseRoom
  <2>1. \A a, b, c \in Nat : b <= c - a => a + b <= c
      OBVIOUS
  <2>2. n \in Nat /\ n <= PhraseRoom - Len(queue)
      BY <1>2, <1>3
  <2> QED
      BY <1>1, <1>7, <2>1, <2>2
<1>11. CASE Len(phrases) > Room
    BY <1>4, <1>7, <1>8, <1>10, <1>11
<1>12. CASE ~(Len(phrases) > Room)
    BY <1>4, <1>7, <1>8, <1>9, <1>10, <1>12
<1> QED
    BY <1>11, <1>12

(* What a fed text becomes: a part of the line, unless the speech is off.   *)
Joins(r, text) ==
    \/ UNCHANGED <<buffer, queue>>
    \/ \E P \in Seq(Phrase) :
        queue' = queue \o P /\ Cut(Append(P, buffer'), buffer \o Mine(r, text))

SpeechTypes ==
    /\ buffer \in Phrase /\ Len(buffer) < PhraseWords
    /\ queue \in Seq(Phrase) /\ Len(queue) <= PhraseRoom
    /\ crowded \in BOOLEAN

LEMMA FeedEffect ==
    ASSUME SpeechTypes, NEW r \in Nat, NEW record \in Reply, NEW text \in Text, NEW final \in BOOLEAN,
           NEW at \in Stages, Feed(r, record, text, final, at)
    PROVE  /\ SpeechTypes' /\ (crowded => crowded')
           /\ \E x \in Reply :
                /\ reply' = [reply EXCEPT ![r] = x]
                /\ x.kind = record.kind /\ x.script = record.script /\ x.session = record.session
                /\ x.heard = record.heard /\ x.raw = record.raw /\ x.said = record.said
                /\ x.answer = record.answer /\ x.cancelled = record.cancelled
                /\ x.at = at \/ (x.at = "putting" /\ x.then = at /\ crowded')
                /\ x.then \in {record.then, at}
           /\ crowded' \/ Joins(r, text)
           /\ final => buffer' = << >> \/ ~audible
<1>1. PICK whole \in {buffer \o Mine(r, text)} : \E cut \in {Phrases(whole, final)} :
        IF audible
        THEN /\ buffer' = cut.rest
             /\ PutSome(cut.phrases)
             /\ reply' = [reply EXCEPT ![r] =
                    [record EXCEPT !.at = IF Unput(cut.phrases) = << >> THEN at ELSE "putting",
                                   !.then = at, !.todo = Unput(cut.phrases)]]
        ELSE /\ reply' = [reply EXCEPT ![r] = [record EXCEPT !.at = at]]
             /\ UNCHANGED <<buffer, queue, crowded>>
    BY DEF Feed
<1>2. PICK cut \in {Phrases(whole, final)} :
        IF audible
        THEN /\ buffer' = cut.rest
             /\ PutSome(cut.phrases)
             /\ reply' = [reply EXCEPT ![r] =
                    [record EXCEPT !.at = IF Unput(cut.phrases) = << >> THEN at ELSE "putting",
                                   !.then = at, !.todo = Unput(cut.phrases)]]
        ELSE /\ reply' = [reply EXCEPT ![r] = [record EXCEPT !.at = at]]
             /\ UNCHANGED <<buffer, queue, crowded>>
    BY <1>1
<1>3. CASE audible
  <2>1. whole \in Phrase /\ whole = buffer \o Mine(r, text) /\ cut = Phrases(whole, final)
      BY <1>1, <1>2, FedText DEF SpeechTypes
  <2>2. /\ cut.phrases \in Seq(Phrase) /\ cut.rest \in Phrase
        /\ Len(cut.rest) < PhraseWords
        /\ Cut(Append(cut.phrases, cut.rest), whole)
        /\ final => cut.rest = << >>
      BY <2>1, PhrasesAreCut
  <2>3. /\ queue' \in Seq(Phrase) /\ Len(queue') <= PhraseRoom /\ crowded' \in BOOLEAN
        /\ crowded => crowded'
        /\ Unput(cut.phrases) \in Seq(Phrase)
        /\ Unput(cut.phrases) # << >> => crowded'
        /\ ~crowded' => queue' = queue \o cut.phrases
      BY <1>2, <1>3, <2>2, PutEffect DEF SpeechTypes
  <2>4. buffer' = cut.rest
      BY <1>2, <1>3
  <2>5. SpeechTypes'
      BY <2>2, <2>3, <2>4 DEF SpeechTypes
  <2>6. crowded' \/ Joins(r, text)
      BY <2>1, <2>2, <2>3, <2>4 DEF Joins
  <2> DEFINE stage == IF Unput(cut.phrases) = << >> THEN at ELSE "putting"
             x == [record EXCEPT !.at = stage, !.then = at, !.todo = Unput(cut.phrases)]
  <2>7. reply' = [reply EXCEPT ![r] = x]
      BY <1>2, <1>3
  <2>8. stage \in Stages /\ (stage = at \/ (stage = "putting" /\ crowded'))
      BY <2>3 DEF Stages
  <2> HIDE DEF stage
  <2>9. x \in Reply
    <3> HIDE DEF Script, Text, Phrase, Stages
    <3> QED
        BY <2>3, <2>8 DEF Reply
  <2>10. /\ x.kind = record.kind /\ x.script = record.script /\ x.session = record.session
         /\ x.heard = record.heard /\ x.raw = record.raw /\ x.said = record.said
         /\ x.answer = record.answer /\ x.cancelled = record.cancelled
         /\ x.at = stage /\ x.then = at
    <3> HIDE DEF Script, Text, Phrase, Stages
    <3> QED
        BY DEF Reply
  <2> HIDE DEF x
  <2> QED
      BY <2>2, <2>3, <2>4, <2>5, <2>6, <2>7, <2>8, <2>9, <2>10
<1>4. CASE ~audible
  <2>1. UNCHANGED <<buffer, queue, crowded>> /\ reply' = [reply EXCEPT ![r] = [record EXCEPT !.at = at]]
      BY <1>2, <1>4
  <2> DEFINE x == [record EXCEPT !.at = at]
  <2>2. x \in Reply /\ x.at = at
      /\ x.kind = record.kind /\ x.script = record.script /\ x.session = record.session
      /\ x.heard = record.heard /\ x.raw = record.raw /\ x.said = record.said
      /\ x.answer = record.answer /\ x.cancelled = record.cancelled /\ x.then = record.then
    <3> HIDE DEF Script, Text, Phrase, Stages
    <3> QED
        BY DEF Reply
  <2>3. SpeechTypes'
      BY <2>1 DEF SpeechTypes
  <2>4. reply' = [reply EXCEPT ![r] = x]
      BY <2>1
  <2> HIDE DEF x
  <2> QED
      BY <1>4, <2>1, <2>2, <2>3, <2>4 DEF Joins
<1> QED
    BY <1>3, <1>4

-----------------------------------------------------------------------------
(***************************************************************************)
(* What a step of a reply does: the reply becomes x, and a text is fed.     *)
(***************************************************************************)
GoesOn(old, text, x) ==
    /\ Ascends(text)
    /\ \A j \in DOMAIN text : Spoken(text[j]) => SaidBy(x, text[j])
    /\ \A p \in Nat : Spoken(p) /\ SaidBy(old, p) =>
        SaidBy(x, p) /\ \A j \in DOMAIN text : Spoken(text[j]) => p < text[j]

Moved(r, x, text) ==
    /\ reply' = [reply EXCEPT ![r] = x]
    /\ x.kind = reply[r].kind /\ x.session = reply[r].session /\ reply[r].at # "done"
    /\ RecordHolds(x)'
    /\ SpeechTypes' /\ (crowded => crowded')
    /\ retold \subseteq retold'
    /\ crowded' \/ Joins(r, text)
    /\ TextOf(r, reply[r]) /\ ~crowded' => TextOf(r, x) /\ (r \notin retold' => GoesOn(reply[r], text, x))
Moves(r) == \E x \in Reply, text \in Text : Moved(r, x, text)

LEMMA NothingGoesOn ==
    ASSUME NEW old, NEW x, \A p \in Nat : SaidBy(old, p) => SaidBy(x, p)
    PROVE  GoesOn(old, << >>, x)
<1>1. DOMAIN << >> = {}
    OBVIOUS
<1> QED
    BY <1>1 DEF GoesOn, Ascends

LEMMA ScriptFacts ==
    ASSUME NEW x \in Reply
    PROVE  /\ Len(x.script.chunks) \in Nat /\ DOMAIN x.script.chunks = 1..Len(x.script.chunks)
           /\ \A n \in 1..Len(x.script.chunks) : x.script.chunks[n] \in Text
<1>1. x.script.chunks \in Seq(Text)
    BY ReplyFields DEF Script
<1> QED
    BY <1>1, LenProperties, ElementOfSeq

(* The end of a reply.                                                      *)
LEMMA OverMoves ==
    ASSUME Types, RepliesHold, NEW r \in Ids, reply[r].at # "done",
           reply' = [reply EXCEPT ![r] = Over(@)],
           UNCHANGED <<buffer, queue, crowded, retold>>
    PROVE  Moves(r)
<1>0. PICK x \in Reply : x = Over(reply[r])
    BY ReplyAt, OverIsReply
<1>1. /\ x.at = "done" /\ x.then = "done"
      /\ x.kind = reply[r].kind /\ x.session = reply[r].session
    BY <1>0, ReplyAt, OverIsReply
<1>2. x.heard = 0 /\ x.script.chunks = << << >> >>
  <2>1. Whole(<< >>).chunks = << << >> >>
      BY NoText, WholeIsScript
  <2>2. reply[r] \in Reply
      BY ReplyAt
  <2> HIDE DEF Script, Text, Phrase, Stages
  <2> QED
      BY <1>0, <2>1, <2>2 DEF Over, Reply
<1>3. RecordHolds(x)'
  <2>1. Len(<< << >> >>) = 1
      OBVIOUS
  <2> QED
      BY <1>1, <1>2, <2>1, ReplyFields DEF RecordHolds, Told, Local
<1>4. reply' = [reply EXCEPT ![r] = x]
    BY <1>0
<1>5. SpeechTypes' /\ (crowded => crowded') /\ retold \subseteq retold' /\ Joins(r, << >>)
    BY DEF SpeechTypes, Types, Joins
<1>6. TextOf(r, x) /\ GoesOn(reply[r], << >>, x)
  <2>1. \A p \in Nat : SaidBy(x, p)
      BY <1>1 DEF SaidBy, Streaming
  <2> QED
      BY <1>1, <2>1, NothingGoesOn DEF TextOf, Streaming
<1> QED
    BY <1>1, <1>3, <1>4, <1>5, <1>6, NoText DEF Moves, Moved

(* What happens to a reply that feeds nothing.                              *)
LEMMA SilentMoves ==
    ASSUME Types, RepliesHold, NEW r \in Ids, NEW x \in Reply,
           reply' = [reply EXCEPT ![r] = x], reply[r].at # "done",
           x.kind = reply[r].kind, x.session = reply[r].session, RecordHolds(x)',
           UNCHANGED <<buffer, queue, crowded, retold>>,
           TextOf(r, reply[r]) /\ ~crowded' => TextOf(r, x),
           \A p \in Nat : SaidBy(reply[r], p) => SaidBy(x, p)
    PROVE  Moves(r)
<1>1. SpeechTypes' /\ (crowded => crowded') /\ retold \subseteq retold' /\ Joins(r, << >>)
    BY DEF SpeechTypes, Types, Joins
<1>2. GoesOn(reply[r], << >>, x)
    BY NothingGoesOn
<1> QED
    BY <1>1, <1>2, NoText DEF Moves, Moved

LEMMA FeedMoves ==
    ASSUME Types, RepliesHold, NEW r \in Ids, NEW record \in Reply, NEW text \in Text, NEW final \in BOOLEAN,
           NEW at \in Stages, Feed(r, record, text, final, at), reply[r].at # "done",
           record.kind = reply[r].kind, record.session = reply[r].session,
           record.heard <= Len(record.script.chunks), record.then # "waiting", at \notin {"waiting", "putting"},
           record.kind = "llm" => Enabled /\ record.session = session /\ stop.end # "persist",
           record.kind # "llm" => at \in Told /\ record.then \in Told,
           record.kind = "opener" => crowded \/ (Enabled /\ record.session = session),
           UNCHANGED <<turns, stop>>, retold \subseteq retold',
           NEW x \in Reply, x = [record EXCEPT !.at = at],
           TextOf(r, reply[r]) => TextOf(r, x) /\ (r \notin retold' => GoesOn(reply[r], text, x))
    PROVE  Moves(r)
<1>1. r \in Nat /\ SpeechTypes
    BY ReplyAt DEF Types, SpeechTypes
<1>2. PICK y \in Reply :
        /\ reply' = [reply EXCEPT ![r] = y]
        /\ y.kind = record.kind /\ y.script = record.script /\ y.session = record.session
        /\ y.heard = record.heard /\ y.raw = record.raw /\ y.said = record.said
        /\ y.answer = record.answer /\ y.cancelled = record.cancelled
        /\ y.at = at \/ (y.at = "putting" /\ y.then = at /\ crowded')
        /\ y.then \in {record.then, at}
    BY <1>1, FeedEffect
<1>3. SpeechTypes' /\ (crowded => crowded') /\ (crowded' \/ Joins(r, text))
    BY <1>1, FeedEffect
<1>4. RecordHolds(y)'
  <2>1. UNCHANGED <<session, stop>>
      BY DEF turns
  <2>2. y.heard <= Len(y.script.chunks) /\ y.then # "waiting" /\ y.at # "waiting"
      BY <1>2
  <2>3. y.at = "putting" => crowded'
      BY <1>2
  <2>4. y.kind = "llm" /\ y.at # "done" => (Enabled /\ y.session = session /\ stop.end # "persist")'
      BY <1>2, <2>1 DEF Enabled
  <2>5. y.kind # "llm" => y.at \in Local /\ y.then \in Told
      BY <1>2 DEF Told, Local
  <2>6. y.kind = "opener" => (crowded \/ (Enabled /\ y.session = session))'
      BY <1>2, <1>3, <2>1 DEF Enabled
  <2> QED
      BY <2>2, <2>3, <2>4, <2>5, <2>6 DEF RecordHolds
<1>5. /\ x.at = at /\ x.script = record.script /\ x.heard = record.heard /\ x.raw = record.raw
      /\ x.said = record.said /\ x.answer = record.answer
  <2> USE DEF Reply
  <2> HIDE DEF Script, Text, Phrase, Stages
  <2> QED
      OBVIOUS
<1>6. ASSUME TextOf(r, reply[r]), ~crowded'
      PROVE  TextOf(r, y) /\ (r \notin retold' => GoesOn(reply[r], text, y))
  <2>1. y.at = x.at /\ y.script = x.script /\ y.heard = x.heard /\ y.raw = x.raw /\ y.said = x.said /\ y.answer = x.answer
      BY <1>2, <1>5, <1>6
  <2>2. TextOf(r, y)
      BY <1>6, <2>1 DEF TextOf, StreamHolds
  <2>3. \A p : SaidBy(y, p) <=> SaidBy(x, p)
      BY <2>1 DEF SaidBy
  <2>4. r \notin retold' => GoesOn(reply[r], text, y)
      BY <1>6, <2>3 DEF GoesOn
  <2> QED
      BY <2>2, <2>4
<1> QED
    BY <1>2, <1>3, <1>4, <1>6 DEF Moves, Moved

LEMMA TellWholeMoves ==
    ASSUME Types, RepliesHold, NEW r \in Ids, TellWhole(r)
    PROVE  Moves(r)
<1>1. reply[r].at = "waiting" /\ reply[r] \in Reply /\ RecordHolds(reply[r])
    BY ReplyAt DEF TellWhole, Running, RepliesHold
<1>2. UNCHANGED <<turns, stop, retold>>
    BY DEF TellWhole
<1>3. CASE Enabled /\ reply[r].session = session
  <2>1. PICK words \in Text : words = reply[r].script.chunks[1]
    <3>1. Len(reply[r].script.chunks) = 1
        BY <1>1 DEF RecordHolds
    <3> QED
        BY <1>1, <3>1, ScriptFacts
  <2>2. PICK record \in Reply : record = [reply[r] EXCEPT !.answer = words]
    <3>1. [reply[r] EXCEPT !.answer = words] \in Reply
      <4> HIDE DEF Script, Text, Phrase, Stages
      <4> QED
          BY <1>1 DEF Reply
    <3> QED
        BY <3>1
  <2>3. /\ record.kind = reply[r].kind /\ record.session = reply[r].session /\ record.heard = reply[r].heard
        /\ record.script = reply[r].script /\ record.then = reply[r].then
    <3> USE DEF Reply
    <3> HIDE DEF Script, Text, Phrase, Stages
    <3> QED
        BY <1>1, <2>2
  <2>4. Feed(r, record, words, FALSE, "closing")
      BY <1>3, <2>1, <2>2 DEF TellWhole
  <2>5. PICK x \in Reply : x = [record EXCEPT !.at = "closing"] /\ x.at = "closing"
    <3>1. [record EXCEPT !.at = "closing"] \in Reply /\ [record EXCEPT !.at = "closing"].at = "closing"
      <4>1. "closing" \in Stages
          BY DEF Stages
      <4> HIDE DEF Script, Text, Phrase, Stages
      <4> QED
          BY <4>1 DEF Reply
    <3> QED
        BY <3>1
  <2>6. TextOf(r, reply[r]) => TextOf(r, x) /\ GoesOn(reply[r], words, x)
      BY <1>1, <2>1, <2>5 DEF TextOf, Streaming, GoesOn, SaidBy
  <2>7. /\ record.heard <= Len(record.script.chunks) /\ record.then # "waiting"
        /\ record.kind = "llm" => Enabled /\ record.session = session /\ stop.end # "persist"
        /\ record.kind # "llm" => record.then \in Told
        /\ record.kind = "opener" => crowded \/ (Enabled /\ record.session = session)
      BY <1>1, <1>3, <2>3 DEF RecordHolds
  <2>8. "closing" \in Stages /\ "closing" \in Told /\ "closing" \notin {"waiting", "putting"}
      BY DEF Stages, Told
  <2> QED
      BY <1>1, <1>2, <2>3, <2>4, <2>5, <2>6, <2>7, <2>8, FeedMoves
<1>4. CASE ~(Enabled /\ reply[r].session = session)
  <2>1. reply' = [reply EXCEPT ![r] = Over(@)] /\ UNCHANGED <<buffer, queue, crowded>>
      BY <1>4 DEF TellWhole
  <2> QED
      BY <1>1, <1>2, <2>1, OverMoves
<1> QED
    BY <1>3, <1>4

(* The record of a reply of the model that moves on.                        *)
LEMMA ModelHolds ==
    ASSUME Types, RepliesHold, NEW r \in Ids, reply[r].at \notin Local,
           UNCHANGED <<turns, stop>>, NEW x \in Reply,
           x.kind = reply[r].kind, x.session = reply[r].session, x.heard <= Len(x.script.chunks),
           x.then = reply[r].then, x.at \notin {"waiting", "putting"}
    PROVE  /\ RecordHolds(x)' /\ reply[r].kind = "llm" /\ x.kind = "llm"
           /\ Enabled /\ reply[r].session = session /\ stop.end # "persist"
<1>1. RecordHolds(reply[r])
    BY DEF RepliesHold
<1>2. reply[r].at # "done"
    BY DEF Local
<1>3. reply[r].kind = "llm" /\ Enabled /\ reply[r].session = session /\ stop.end # "persist"
    BY <1>1, <1>2 DEF RecordHolds
<1>4. UNCHANGED <<session, stop>>
    BY DEF turns
<1> QED
    BY <1>1, <1>3, <1>4 DEF RecordHolds, Enabled

LEMMA RestartMoves ==
    ASSUME Types, RepliesHold, NEW r \in Ids, Restart(r)
    PROVE  Moves(r)
<1>1. reply[r].at = "restart" /\ reply[r] \in Reply
    BY ReplyAt DEF Restart
<1>2. UNCHANGED <<turns, stop, buffer, queue, crowded, retold>>
    BY DEF Restart, speech, history
<1>3. PICK at \in {"thinking", "restarting"} : reply' = [reply EXCEPT ![r].at = at]
    BY DEF Restart
<1>4. PICK x \in Reply :
        /\ reply' = [reply EXCEPT ![r] = x] /\ x.at = at
        /\ x.kind = reply[r].kind /\ x.script = reply[r].script /\ x.session = reply[r].session
        /\ x.then = reply[r].then /\ x.heard = reply[r].heard /\ x.raw = reply[r].raw
        /\ x.said = reply[r].said /\ x.answer = reply[r].answer
  <2>1. at \in Stages
      BY DEF Stages
  <2> DEFINE x == [reply[r] EXCEPT !.at = at]
  <2>2. /\ x \in Reply /\ x.at = at
        /\ x.kind = reply[r].kind /\ x.script = reply[r].script /\ x.session = reply[r].session
        /\ x.then = reply[r].then /\ x.heard = reply[r].heard /\ x.raw = reply[r].raw
        /\ x.said = reply[r].said /\ x.answer = reply[r].answer
    <3> USE DEF Reply
    <3> HIDE DEF Script, Text, Phrase, Stages
    <3> QED
        BY <1>1, <2>1
  <2>3. reply' = [reply EXCEPT ![r] = x]
      BY <1>3
  <2> HIDE DEF x
  <2> QED
      BY <2>2, <2>3
<1>5. reply[r].at \notin Local /\ reply[r].at # "done" /\ x.at \notin {"waiting", "putting"}
    BY <1>1, <1>4 DEF Local
<1>6. RecordHolds(x)'
    BY <1>2, <1>4, <1>5, ModelHolds DEF RepliesHold, RecordHolds
<1>7. TextOf(r, reply[r]) => TextOf(r, x)
    BY <1>1, <1>4 DEF TextOf, StreamHolds, Streaming
<1>8. \A p \in Nat : SaidBy(reply[r], p) => SaidBy(x, p)
    BY <1>1, <1>4 DEF SaidBy, Streaming
<1> QED
    BY <1>2, <1>4, <1>5, <1>6, <1>7, <1>8, SilentMoves

LEMMA RestartedMoves ==
    ASSUME Types, RepliesHold, NEW r \in Ids, Restarted(r)
    PROVE  Moves(r)
<1>1. reply[r].at = "restarting" /\ reply[r] \in Reply
    BY ReplyAt DEF Restarted
<1>2. UNCHANGED <<turns, stop, buffer, queue, crowded, retold>>
    BY DEF Restarted, speech, history
<1>3. PICK x \in Reply :
        /\ reply' = [reply EXCEPT ![r] = x] /\ x.at = "thinking"
        /\ x.kind = reply[r].kind /\ x.script = reply[r].script /\ x.session = reply[r].session
        /\ x.then = reply[r].then /\ x.heard = reply[r].heard /\ x.raw = reply[r].raw
        /\ x.said = reply[r].said /\ x.answer = reply[r].answer
  <2>1. "thinking" \in Stages
      BY DEF Stages
  <2> DEFINE x == [reply[r] EXCEPT !.at = "thinking", !.cancelled = FALSE]
  <2>2. /\ x \in Reply /\ x.at = "thinking"
        /\ x.kind = reply[r].kind /\ x.script = reply[r].script /\ x.session = reply[r].session
        /\ x.then = reply[r].then /\ x.heard = reply[r].heard /\ x.raw = reply[r].raw
        /\ x.said = reply[r].said /\ x.answer = reply[r].answer
    <3> USE DEF Reply
    <3> HIDE DEF Script, Text, Phrase, Stages
    <3> QED
        BY <1>1, <2>1
  <2>3. reply' = [reply EXCEPT ![r] = x]
      BY DEF Restarted
  <2> HIDE DEF x
  <2> QED
      BY <2>2, <2>3
<1>4. reply[r].at \notin Local /\ reply[r].at # "done" /\ x.at \notin {"waiting", "putting"}
    BY <1>1, <1>3 DEF Local
<1>5. RecordHolds(x)'
    BY <1>2, <1>3, <1>4, ModelHolds DEF RepliesHold, RecordHolds
<1>6. TextOf(r, reply[r]) => TextOf(r, x)
    BY <1>1, <1>3 DEF TextOf, StreamHolds, Streaming
<1>7. \A p \in Nat : SaidBy(reply[r], p) => SaidBy(x, p)
    BY <1>1, <1>3 DEF SaidBy, Streaming
<1> QED
    BY <1>2, <1>3, <1>4, <1>5, <1>6, <1>7, SilentMoves

LEMMA SettleMoves ==
    ASSUME Types, RepliesHold, NEW r \in Ids, Settle(r) \/ Settled(r)
    PROVE  Moves(r)
<1>1. reply[r].at \in {"settle", "settling"} /\ reply[r] \in Reply
    BY ReplyAt DEF Settle, Settled
<1>2. UNCHANGED <<turns, stop, buffer, queue, crowded, retold>>
    BY DEF Settle, Settled, speech, history
<1>3. PICK at \in {"closing", "settling"}, c \in BOOLEAN :
        reply' = [reply EXCEPT ![r] = [reply[r] EXCEPT !.at = at, !.cancelled = c]]
  <2>1. CASE Settle(r)
    <3>1. PICK at \in {"closing", "settling"} : reply' = [reply EXCEPT ![r].at = at]
        BY <2>1 DEF Settle
    <3>2. [reply[r] EXCEPT !.at = at] = [reply[r] EXCEPT !.at = at, !.cancelled = reply[r].cancelled]
      <4> USE DEF Reply
      <4> HIDE DEF Script, Text, Phrase, Stages
      <4> QED
          BY <1>1
    <3>3. reply[r].cancelled \in BOOLEAN
        BY <1>1, ReplyFields
    <3>4. reply' = [reply EXCEPT ![r] = [reply[r] EXCEPT !.at = at]]
        BY <3>1
    <3> QED
        BY <3>2, <3>3, <3>4
  <2>2. CASE Settled(r)
      BY <2>2 DEF Settled
  <2> QED
      BY <2>1, <2>2
<1>4. PICK x \in Reply :
        /\ reply' = [reply EXCEPT ![r] = x] /\ x.at = at
        /\ x.kind = reply[r].kind /\ x.script = reply[r].script /\ x.session = reply[r].session
        /\ x.then = reply[r].then /\ x.heard = reply[r].heard
  <2>1. at \in Stages
      BY DEF Stages
  <2> DEFINE x == [reply[r] EXCEPT !.at = at, !.cancelled = c]
  <2>2. /\ x \in Reply /\ x.at = at
        /\ x.kind = reply[r].kind /\ x.script = reply[r].script /\ x.session = reply[r].session
        /\ x.then = reply[r].then /\ x.heard = reply[r].heard
    <3> USE DEF Reply
    <3> HIDE DEF Script, Text, Phrase, Stages
    <3> QED
        BY <1>1, <2>1
  <2>3. reply' = [reply EXCEPT ![r] = x]
      BY <1>3
  <2> HIDE DEF x
  <2> QED
      BY <2>2, <2>3
<1>5. reply[r].at \notin Local /\ reply[r].at # "done" /\ x.at \notin {"waiting", "putting"}
    BY <1>1, <1>4 DEF Local
<1>6. RecordHolds(x)'
    BY <1>2, <1>4, <1>5, ModelHolds DEF RepliesHold, RecordHolds
<1>7. TextOf(r, x) /\ \A p \in Nat : SaidBy(x, p)
    BY <1>4 DEF TextOf, SaidBy, Streaming
<1> QED
    BY <1>2, <1>4, <1>5, <1>6, <1>7, SilentMoves

LEMMA CloseTextMoves ==
    ASSUME Types, RepliesHold, NEW r \in Ids, CloseText(r)
    PROVE  Moves(r)
<1>1. reply[r].at = "closing" /\ RecordHolds(reply[r])
    BY DEF CloseText, RepliesHold
<1>2. UNCHANGED <<turns, stop, retold>>
    BY DEF CloseText
<1>3. PICK record \in Reply : record = reply[r]
    BY ReplyAt
<1>4. Feed(r, record, << >>, TRUE, "finishing")
    BY <1>3 DEF CloseText
<1>5. "finishing" \in Stages /\ "finishing" \in Told /\ "finishing" \notin {"waiting", "putting"}
    BY DEF Stages, Told
<1>6. PICK x \in Reply : x = [record EXCEPT !.at = "finishing"] /\ x.at = "finishing"
  <2>1. [record EXCEPT !.at = "finishing"] \in Reply /\ [record EXCEPT !.at = "finishing"].at = "finishing"
    <3> HIDE DEF Script, Text, Phrase, Stages
    <3> QED
        BY <1>5 DEF Reply
  <2> QED
      BY <2>1
<1>7. TextOf(r, x) /\ GoesOn(reply[r], << >>, x)
  <2>1. TextOf(r, x) /\ \A p \in Nat : SaidBy(x, p)
      BY <1>6 DEF TextOf, SaidBy, Streaming
  <2> QED
      BY <2>1, NothingGoesOn
<1>8. /\ record.heard <= Len(record.script.chunks) /\ record.then # "waiting"
      /\ record.kind = "llm" => Enabled /\ record.session = session /\ stop.end # "persist"
      /\ record.kind # "llm" => record.then \in Told
      /\ record.kind = "opener" => crowded \/ (Enabled /\ record.session = session)
    BY <1>1, <1>3 DEF RecordHolds
<1> QED
    BY <1>1, <1>2, <1>3, <1>4, <1>5, <1>6, <1>7, <1>8, NoText, FeedMoves

LEMMA OverMoving ==
    ASSUME Types, RepliesHold, NEW r \in Ids, Finish(r) \/ Cancelled(r)
    PROVE  Moves(r)
<1>1. reply[r].at # "done" /\ reply' = [reply EXCEPT ![r] = Over(@)]
    BY DEF Finish, Cancelled, Done
<1>2. UNCHANGED <<buffer, queue, crowded, retold>>
    BY DEF Finish, Cancelled, speech, history
<1> QED
    BY <1>1, <1>2, OverMoves

LEMMA PutMoves ==
    ASSUME Types, RepliesHold, NEW r \in Ids, Put(r)
    PROVE  Moves(r)
<1>1. reply[r].at = "putting" /\ reply[r] \in Reply /\ RecordHolds(reply[r]) /\ crowded
    BY ReplyAt DEF Put, Running, RepliesHold, RecordHolds
<1>2. UNCHANGED <<turns, stop, retold, buffer>>
    BY DEF Put
<1>3. reply[r].todo \in Seq(Phrase) /\ PutSome(reply[r].todo)
    BY <1>1, ReplyFields DEF Put
<1>4. /\ queue' \in Seq(Phrase) /\ Len(queue') <= PhraseRoom /\ crowded' \in BOOLEAN
      /\ crowded' /\ Unput(reply[r].todo) \in Seq(Phrase)
    BY <1>1, <1>3, PutEffect DEF Types
<1>5. PICK todo \in Seq(Phrase), at \in Stages :
        /\ reply' = [reply EXCEPT ![r].todo = todo, ![r].at = at]
        /\ at \in {"putting", reply[r].then}
  <2>1. "putting" \in Stages /\ reply[r].then \in Stages
      BY <1>1, ReplyFields DEF Stages
  <2>2. reply' = [reply EXCEPT ![r].todo = Unput(reply[r].todo),
                               ![r].at = IF Unput(reply[r].todo) = << >> THEN reply[r].then ELSE "putting"]
      BY <1>1 DEF Put
  <2> QED
      BY <1>4, <2>1, <2>2
<1>6. PICK x \in Reply :
        /\ reply' = [reply EXCEPT ![r] = x] /\ x.at = at
        /\ x.kind = reply[r].kind /\ x.script = reply[r].script /\ x.session = reply[r].session
        /\ x.then = reply[r].then /\ x.heard = reply[r].heard
  <2> DEFINE x == [reply[r] EXCEPT !.todo = todo, !.at = at]
  <2>1. /\ x \in Reply /\ x.at = at
        /\ x.kind = reply[r].kind /\ x.script = reply[r].script /\ x.session = reply[r].session
        /\ x.then = reply[r].then /\ x.heard = reply[r].heard
    <3> USE DEF Reply
    <3> HIDE DEF Script, Text, Phrase, Stages
    <3> QED
        BY <1>1
  <2>2. reply' = [reply EXCEPT ![r] = x]
      BY <1>5
  <2> HIDE DEF x
  <2> QED
      BY <2>1, <2>2
<1>7. RecordHolds(x)'
  <2>1. UNCHANGED <<session, stop>>
      BY <1>2 DEF turns
  <2> QED
      BY <1>1, <1>4, <1>5, <1>6, <2>1 DEF RecordHolds, Enabled, Local, Told
<1>8. SpeechTypes'
    BY <1>2, <1>4 DEF SpeechTypes, Types
<1> QED
    BY <1>1, <1>2, <1>4, <1>6, <1>7, <1>8, NoText DEF Moves, Moved

(* A token: what is new of the text is said and fed.                        *)
LEMMA TokenMoves ==
    ASSUME Types, RepliesHold, NEW r \in Ids, reply[r].at = "thinking",
           NEW record \in Reply, NEW delta \in Text, Token(r, record, delta),
           record.at = "thinking", record.kind = reply[r].kind, record.session = reply[r].session,
           record.then = reply[r].then, record.said = reply[r].said,
           record.heard <= Len(record.script.chunks),
           UNCHANGED <<turns, stop>>,
           StreamHolds(r, reply[r]) =>
            \A x \in Reply : x.script = record.script /\ x.heard = record.heard /\ x.answer = record.answer
                             /\ x.raw = record.raw \o delta => StreamHolds(r, x)
    PROVE  Moves(r)
<1>1. /\ reply[r] \in Reply /\ RecordHolds(reply[r]) /\ r \in Nat
      /\ reply[r].kind = "llm" /\ Enabled /\ reply[r].session = session /\ stop.end # "persist"
    BY ReplyAt DEF RepliesHold, RecordHolds, Local
<1>2. PICK raw \in {record.raw \o delta} : \E text \in {Extract(raw)} : \E new \in {Diff(record.said, text)} :
        \E grown \in {[record EXCEPT !.raw = @ \o delta, !.said = @ \o new]} :
            /\ retold' = IF IsPrefix(record.said, text) THEN retold ELSE retold \union {r}
            /\ IF ~Enabled \/ new = << >>
               THEN /\ reply' = [reply EXCEPT ![r] = IF Enabled THEN grown ELSE record]
                    /\ UNCHANGED <<buffer, queue, crowded>>
               ELSE Feed(r, grown, new, FALSE, IF audible THEN "restart" ELSE "thinking")
    BY DEF Token
<1>3. PICK text \in {Extract(raw)} : \E new \in {Diff(record.said, text)} :
        \E grown \in {[record EXCEPT !.raw = @ \o delta, !.said = @ \o new]} :
            /\ retold' = IF IsPrefix(record.said, text) THEN retold ELSE retold \union {r}
            /\ IF ~Enabled \/ new = << >>
               THEN /\ reply' = [reply EXCEPT ![r] = IF Enabled THEN grown ELSE record]
                    /\ UNCHANGED <<buffer, queue, crowded>>
               ELSE Feed(r, grown, new, FALSE, IF audible THEN "restart" ELSE "thinking")
    BY <1>2
<1>4. PICK new \in {Diff(record.said, text)} :
        \E grown \in {[record EXCEPT !.raw = @ \o delta, !.said = @ \o new]} :
            /\ retold' = IF IsPrefix(record.said, text) THEN retold ELSE retold \union {r}
            /\ IF ~Enabled \/ new = << >>
               THEN /\ reply' = [reply EXCEPT ![r] = IF Enabled THEN grown ELSE record]
                    /\ UNCHANGED <<buffer, queue, crowded>>
               ELSE Feed(r, grown, new, FALSE, IF audible THEN "restart" ELSE "thinking")
    BY <1>3
<1>5. PICK grown \in {[record EXCEPT !.raw = @ \o delta, !.said = @ \o new]} :
            /\ retold' = IF IsPrefix(record.said, text) THEN retold ELSE retold \union {r}
            /\ IF ~Enabled \/ new = << >>
               THEN /\ reply' = [reply EXCEPT ![r] = IF Enabled THEN grown ELSE record]
                    /\ UNCHANGED <<buffer, queue, crowded>>
               ELSE Feed(r, grown, new, FALSE, IF audible THEN "restart" ELSE "thinking")
    BY <1>4
<1>6. /\ raw = record.raw \o delta /\ text = Extract(raw) /\ new = Diff(record.said, text)
      /\ grown = [record EXCEPT !.raw = @ \o delta, !.said = @ \o new]
    BY <1>2, <1>3, <1>4, <1>5
<1>7. record.raw \in Text /\ record.said \in Text
    BY ReplyFields
<1>8. raw \in Text
    BY <1>6, <1>7, JoinedText
<1>9. text \in Text /\ Drawn(text, raw)
    BY <1>6, <1>8, ExtractIsDrawn
<1>10. /\ new \in Text /\ record.said \o new \in Text
       /\ IsPrefix(record.said, text) /\ Ascends(text) => Ascends(new) /\ Below(record.said, new)
    BY <1>6, <1>7, <1>9, NewGoesOn
<1>11. /\ grown \in Reply /\ grown.at = "thinking" /\ grown.raw = raw /\ grown.said = record.said \o new
       /\ grown.kind = record.kind /\ grown.session = record.session /\ grown.script = record.script
       /\ grown.heard = record.heard /\ grown.answer = record.answer /\ grown.then = record.then
  <2> HIDE DEF Script, Text, Phrase, Stages
  <2> QED
      BY <1>6, <1>8, <1>10 DEF Reply
<1>12. retold \subseteq retold' /\ (r \notin retold' => IsPrefix(record.said, text))
    BY <1>5
<1>13. \A p \in Nat : (\E j \in DOMAIN record.said : record.said[j] = p)
                      => \E j \in DOMAIN (record.said \o new) : (record.said \o new)[j] = p
  <2>1. \A j \in DOMAIN record.said :
            j \in DOMAIN (record.said \o new) /\ (record.said \o new)[j] = record.said[j]
    <3> DEFINE s == record.said
               u == record.said \o new
    <3>1. /\ DOMAIN u = 1..(Len(s) + Len(new)) /\ Len(s) \in Nat /\ Len(new) \in Nat
          /\ DOMAIN s = 1..Len(s) /\ DOMAIN new = 1..Len(new)
          /\ \A i \in 1..(Len(s) + Len(new)) : u[i] = IF i <= Len(s) THEN s[i] ELSE new[i - Len(s)]
        BY <1>7, <1>10, JoinedText
    <3> HIDE DEF s, u
    <3>2. \A j \in DOMAIN s : j \in DOMAIN u /\ u[j] = s[j]
        BY <3>1
    <3> QED
        BY <3>2 DEF s, u
  <2> QED
      BY <2>1
<1>14. \A i \in DOMAIN new : \E j \in DOMAIN (record.said \o new) : (record.said \o new)[j] = new[i]
  <2> DEFINE s == record.said
             u == record.said \o new
  <2>1. /\ DOMAIN u = 1..(Len(s) + Len(new)) /\ Len(s) \in Nat /\ Len(new) \in Nat
        /\ DOMAIN s = 1..Len(s) /\ DOMAIN new = 1..Len(new)
        /\ \A i \in 1..(Len(s) + Len(new)) : u[i] = IF i <= Len(s) THEN s[i] ELSE new[i - Len(s)]
      BY <1>7, <1>10, JoinedText
  <2> HIDE DEF s, u
  <2>2. ASSUME NEW i \in DOMAIN new PROVE \E j \in DOMAIN u : u[j] = new[i]
    <3>1. i + Len(s) \in DOMAIN u /\ ~(i + Len(s) <= Len(s)) /\ i + Len(s) - Len(s) = i
        BY <2>1
    <3>2. u[i + Len(s)] = new[i]
        BY <2>1, <3>1
    <3> QED
        BY <3>1, <3>2
  <2> QED
      BY <2>2 DEF s, u
<1>15. ASSUME NEW x \in Reply, x.at \in {"thinking", "restart"}, x.raw = raw, x.said = record.said \o new,
              x.script = record.script, x.heard = record.heard, x.answer = record.answer,
              TextOf(r, reply[r])
       PROVE  TextOf(r, x) /\ (r \notin retold' => GoesOn(reply[r], new, x))
  <2>1. StreamHolds(r, reply[r])
      BY <1>15 DEF TextOf, Streaming
  <2>2. StreamHolds(r, x)
      BY <1>6, <1>15, <2>1
  <2>3. TextOf(r, x)
      BY <1>15, <2>2 DEF TextOf
  <2>4. Ascends(text)
      BY <1>9, <1>15, <2>2, DrawnAscends DEF StreamHolds
  <2>5. ASSUME r \notin retold' PROVE GoesOn(reply[r], new, x)
    <3>1. Ascends(new) /\ Below(record.said, new)
        BY <1>10, <1>12, <2>4, <2>5
    <3>2. \A j \in DOMAIN new : SaidBy(x, new[j])
        BY <1>14, <1>15 DEF SaidBy
    <3>3. ASSUME NEW p \in Nat, Spoken(p), SaidBy(reply[r], p)
          PROVE  SaidBy(x, p) /\ \A j \in DOMAIN new : Spoken(new[j]) => p < new[j]
      <4>1. \E j \in DOMAIN record.said : record.said[j] = p
          BY <3>3 DEF SaidBy, Streaming
      <4>2. SaidBy(x, p)
          BY <1>13, <1>15, <4>1 DEF SaidBy
      <4>3. \A j \in DOMAIN new : Spoken(new[j]) => p < new[j]
          BY <3>1, <3>3, <4>1 DEF Below
      <4> QED
          BY <4>2, <4>3
    <3> QED
        BY <3>1, <3>2, <3>3 DEF GoesOn
  <2> QED
      BY <2>3, <2>5
<1>16. CASE new = << >>
  <2>1. reply' = [reply EXCEPT ![r] = grown] /\ UNCHANGED <<buffer, queue, crowded>>
      BY <1>1, <1>5, <1>16
  <2>2. SpeechTypes' /\ (crowded => crowded') /\ Joins(r, new)
      BY <2>1 DEF SpeechTypes, Types, Joins
  <2>3. RecordHolds(grown)'
    <3>1. UNCHANGED <<session, stop>>
        BY DEF turns
    <3> QED
        BY <1>1, <1>11, <3>1 DEF RecordHolds, Enabled
  <2>4. TextOf(r, reply[r]) => TextOf(r, grown) /\ (r \notin retold' => GoesOn(reply[r], new, grown))
      BY <1>11, <1>15
  <2> QED
      BY <1>1, <1>10, <1>11, <1>12, <2>1, <2>2, <2>3, <2>4 DEF Moves, Moved
<1>17. CASE new # << >>
  <2>1. PICK at \in {"restart", "thinking"} : Feed(r, grown, new, FALSE, at)
      BY <1>1, <1>5, <1>17
  <2>2. PICK x \in Reply :
          /\ x = [grown EXCEPT !.at = at] /\ x.at = at /\ x.raw = raw /\ x.said = record.said \o new
          /\ x.script = record.script /\ x.heard = record.heard /\ x.answer = record.answer
    <3> DEFINE x == [grown EXCEPT !.at = at]
    <3>1. at \in Stages
        BY DEF Stages
    <3>2. /\ x \in Reply /\ x.at = at /\ x.raw = raw /\ x.said = record.said \o new
          /\ x.script = record.script /\ x.heard = record.heard /\ x.answer = record.answer
      <4> USE DEF Reply
      <4> HIDE DEF Script, Text, Phrase, Stages
      <4> QED
          BY <1>11, <3>1
    <3> QED
        BY <3>2
  <2>3. TextOf(r, reply[r]) => TextOf(r, x) /\ (r \notin retold' => GoesOn(reply[r], new, x))
      BY <1>15, <2>2
  <2>4. /\ grown.heard <= Len(grown.script.chunks) /\ grown.then # "waiting"
        /\ grown.kind = "llm" /\ grown.session = session
      BY <1>1, <1>11 DEF RecordHolds
  <2>5. at \in Stages /\ at \notin {"waiting", "putting"}
      BY DEF Stages
  <2> QED
      BY <1>1, <1>10, <1>11, <1>12, <2>1, <2>2, <2>3, <2>4, <2>5, FeedMoves
<1> QED
    BY <1>16, <1>17

LEMMA StreamsMoves ==
    ASSUME Types, RepliesHold, NEW r \in Ids, Streams(r)
    PROVE  Moves(r)
<1>1. reply[r].at = "thinking" /\ reply[r] \in Reply /\ RecordHolds(reply[r]) /\ r \in 1..MaxReplies
  <2>1. r \in 1..Len(reply) /\ Len(reply) \in Nat /\ Len(reply) <= MaxReplies
      BY ReplyAt DEF Types
  <2> QED
      BY <2>1, ReplyAt, ReplyAssumption DEF Streams, Running, RepliesHold
<1>2. UNCHANGED <<turns, stop>>
    BY DEF Streams
<1>3. PICK n \in Nat : n = reply[r].heard + 1
    BY <1>1, ReplyFields
<1>4. n \in 1..Len(reply[r].script.chunks)
  <2>1. reply[r].heard <= Len(reply[r].script.chunks) /\ reply[r].heard # Len(reply[r].script.chunks)
      BY <1>1 DEF RecordHolds, Streams, Heard
  <2> QED
      BY <1>1, <1>3, <2>1, ReplyFields, ScriptFacts
<1>5. PICK delta \in Text : delta = reply[r].script.chunks[n]
    BY <1>1, <1>4, ScriptFacts
<1>6. PICK record \in Reply :
        /\ record = [reply[r] EXCEPT !.heard = n]
        /\ record.at = reply[r].at /\ record.kind = reply[r].kind /\ record.session = reply[r].session
        /\ record.then = reply[r].then /\ record.said = reply[r].said /\ record.heard = n
        /\ record.script = reply[r].script /\ record.raw = reply[r].raw /\ record.answer = reply[r].answer
  <2> DEFINE x == [reply[r] EXCEPT !.heard = n]
  <2>1. /\ x \in Reply
        /\ x.at = reply[r].at /\ x.kind = reply[r].kind /\ x.session = reply[r].session
        /\ x.then = reply[r].then /\ x.said = reply[r].said /\ x.heard = n
        /\ x.script = reply[r].script /\ x.raw = reply[r].raw /\ x.answer = reply[r].answer
    <3> USE DEF Reply
    <3> HIDE DEF Script, Text, Phrase, Stages
    <3> QED
        BY <1>1
  <2> QED
      BY <2>1
<1>7. Token(r, record, delta)
    BY <1>3, <1>5, <1>6 DEF Streams
<1>8. record.heard <= Len(record.script.chunks)
    BY <1>4, <1>6
<1>9. ASSUME StreamHolds(r, reply[r]), NEW x \in Reply, x.script = record.script, x.heard = record.heard,
             x.answer = record.answer, x.raw = record.raw \o delta
      PROVE  StreamHolds(r, x)
  <2> DEFINE chunks == reply[r].script.chunks
             raw == reply[r].raw
  <2>1. x.script = reply[r].script /\ x.heard = n /\ x.answer = reply[r].answer /\ x.raw = raw \o delta
      BY <1>6, <1>9
  <2>2. reply[r].answer = << >>
      BY <1>9 DEF StreamHolds, Streams, Heard
  <2>3. /\ n \in DOMAIN chunks /\ delta = chunks[n] /\ raw \in Text
        /\ reply[r].heard = n - 1 /\ n - 1 \in Nat
      BY <1>1, <1>3, <1>4, <1>5, ReplyFields, ScriptFacts
  <2>4. Ascends(delta) /\ \A m \in 1..(n - 1) : Below(chunks[m], delta)
      BY <1>1, <1>9, <2>3, NumberedAssumption DEF StreamHolds
  <2>5. \A i \in DOMAIN raw : Spoken(raw[i]) => Streamed(chunks, n - 1, raw[i])
      BY <1>9, <2>2, <2>3 DEF StreamHolds
  <2>6. Ascends(raw)
      BY <1>9 DEF StreamHolds
  <2> HIDE DEF raw, chunks
  <2>7. Below(raw, delta)
      BY <2>4, <2>5 DEF Below, Streamed
  <2>8. Ascends(raw \o delta)
      BY <2>3, <2>4, <2>6, <2>7, JoinedAscends
  <2>9. \A p : Streamed(chunks, n - 1, p) => Streamed(chunks, n, p)
      BY <2>3 DEF Streamed
  <2>10. \A j \in DOMAIN delta : Streamed(chunks, n, delta[j])
      BY <1>3, <1>4, <2>3 DEF Streamed
  <2>11. \A i \in DOMAIN (raw \o delta) :
            (i \in DOMAIN raw /\ (raw \o delta)[i] = raw[i])
            \/ (i - Len(raw) \in DOMAIN delta /\ (raw \o delta)[i] = delta[i - Len(raw)])
    <3> DEFINE u == raw \o delta
    <3>1. /\ DOMAIN u = 1..(Len(raw) + Len(delta)) /\ Len(raw) \in Nat /\ Len(delta) \in Nat
          /\ DOMAIN raw = 1..Len(raw) /\ DOMAIN delta = 1..Len(delta)
          /\ \A i \in 1..(Len(raw) + Len(delta)) : u[i] = IF i <= Len(raw) THEN raw[i] ELSE delta[i - Len(raw)]
        BY <2>3, JoinedText
    <3> HIDE DEF u
    <3>2. \A i \in DOMAIN u : (i \in DOMAIN raw /\ u[i] = raw[i])
                              \/ (i - Len(raw) \in DOMAIN delta /\ u[i] = delta[i - Len(raw)])
        BY <3>1
    <3> QED
        BY <3>2 DEF u
  <2>12. \A i \in DOMAIN (raw \o delta) : Spoken((raw \o delta)[i]) => Streamed(chunks, n, (raw \o delta)[i])
      BY <2>5, <2>9, <2>10, <2>11
  <2> QED
      BY <1>9, <2>1, <2>2, <2>8, <2>12 DEF StreamHolds, chunks
<1> QED
    BY <1>1, <1>2, <1>5, <1>6, <1>7, <1>8, <1>9, TokenMoves

LEMMA FailsMoves ==
    ASSUME Types, RepliesHold, NEW r \in Ids, Fails(r)
    PROVE  Moves(r)
<1>1. reply[r].at = "thinking" /\ reply[r] \in Reply /\ RecordHolds(reply[r]) /\ r \in 1..MaxReplies
  <2>1. r \in 1..Len(reply) /\ Len(reply) \in Nat /\ Len(reply) <= MaxReplies
      BY ReplyAt DEF Types
  <2> QED
      BY <2>1, ReplyAt, ReplyAssumption DEF Fails, Running, RepliesHold
<1>2. UNCHANGED <<turns, stop>> /\ reply[r].answer = << >> /\ reply[r].heard = Len(reply[r].script.chunks)
    BY DEF Fails, Heard
<1>3. Fallback \in Text
    BY ScriptAssumption DEF Text
<1>4. PICK record \in Reply :
        /\ record = [reply[r] EXCEPT !.answer = Fallback]
        /\ record.at = reply[r].at /\ record.kind = reply[r].kind /\ record.session = reply[r].session
        /\ record.then = reply[r].then /\ record.said = reply[r].said /\ record.heard = reply[r].heard
        /\ record.script = reply[r].script /\ record.raw = reply[r].raw /\ record.answer = Fallback
  <2> DEFINE x == [reply[r] EXCEPT !.answer = Fallback]
  <2>1. /\ x \in Reply
        /\ x.at = reply[r].at /\ x.kind = reply[r].kind /\ x.session = reply[r].session
        /\ x.then = reply[r].then /\ x.said = reply[r].said /\ x.heard = reply[r].heard
        /\ x.script = reply[r].script /\ x.raw = reply[r].raw /\ x.answer = Fallback
    <3> USE DEF Reply
    <3> HIDE DEF Script, Text, Phrase, Stages
    <3> QED
        BY <1>1, <1>3
  <2> QED
      BY <2>1
<1>5. Token(r, record, Fallback)
    BY <1>4 DEF Fails
<1>6. record.heard <= Len(record.script.chunks)
    BY <1>1, <1>4 DEF RecordHolds
<1>7. ASSUME StreamHolds(r, reply[r]), NEW x \in Reply, x.script = record.script, x.heard = record.heard,
             x.answer = record.answer, x.raw = record.raw \o Fallback
      PROVE  StreamHolds(r, x)
  <2> DEFINE chunks == reply[r].script.chunks
             raw == reply[r].raw
             n == reply[r].heard
  <2>1. x.script = reply[r].script /\ x.heard = n /\ x.answer = Fallback /\ x.raw = raw \o Fallback
      BY <1>4, <1>7
  <2>2. raw \in Text
      BY <1>1, ReplyFields
  <2>3. \A m \in DOMAIN chunks : Below(chunks[m], Fallback)
      BY <1>1, <1>7, NumberedAssumption DEF StreamHolds
  <2>4. \A i \in DOMAIN raw : Spoken(raw[i]) => Streamed(chunks, n, raw[i])
      BY <1>2, <1>7 DEF StreamHolds
  <2>5. Ascends(raw) /\ Ascends(Fallback)
      BY <1>7, NumberedAssumption DEF StreamHolds
  <2> HIDE DEF raw, chunks, n
  <2>6. Below(raw, Fallback)
      BY <2>3, <2>4 DEF Below, Streamed
  <2>7. Ascends(raw \o Fallback)
      BY <1>3, <2>2, <2>5, <2>6, JoinedAscends
  <2>8. Fallback = << >> => raw \o Fallback = raw
      BY <2>2, ConcatEmptySeq DEF Text
  <2>9. x.answer # << >> => x.heard = Len(x.script.chunks)
      BY <1>2, <2>1 DEF n
  <2>10. x.answer = << >> =>
            \A i \in DOMAIN x.raw : Spoken(x.raw[i]) => Streamed(x.script.chunks, x.heard, x.raw[i])
      BY <2>1, <2>4, <2>8 DEF chunks
  <2> QED
      BY <1>7, <2>1, <2>7, <2>9, <2>10 DEF StreamHolds
<1> QED
    BY <1>1, <1>2, <1>3, <1>4, <1>5, <1>6, <1>7, TokenMoves

LEMMA ConcludesMoves ==
    ASSUME Types, RepliesHold, NEW r \in Ids, Concludes(r)
    PROVE  Moves(r)
<1>1. /\ reply[r].at = "thinking" /\ reply[r] \in Reply /\ RecordHolds(reply[r])
      /\ reply[r].kind = "llm" /\ Enabled /\ reply[r].session = session /\ stop.end # "persist"
    BY ReplyAt DEF Concludes, Running, RepliesHold, RecordHolds, Local
<1>2. UNCHANGED <<turns, stop>>
    BY DEF Concludes
<1>3. PICK answer \in {IF reply[r].answer # << >> THEN reply[r].answer ELSE Parse(reply[r].raw)} :
        \E record \in {[reply[r] EXCEPT !.answer = answer]} :
            /\ Feed(r, record, Diff(record.said, answer), FALSE, "settle")
            /\ retold' = IF IsPrefix(record.said, answer) THEN retold ELSE retold \union {r}
    BY <1>1 DEF Concludes
<1>4. PICK record \in {[reply[r] EXCEPT !.answer = answer]} :
            /\ Feed(r, record, Diff(record.said, answer), FALSE, "settle")
            /\ retold' = IF IsPrefix(record.said, answer) THEN retold ELSE retold \union {r}
    BY <1>3
<1>5. reply[r].raw \in Text /\ reply[r].said \in Text /\ reply[r].answer \in Text
    BY <1>1, ReplyFields
<1>6. /\ Parse(reply[r].raw) \in Text
      /\ Ascends(reply[r].raw) => Ascends(Parse(reply[r].raw))
    BY <1>5, ParseIsDrawn, DrawnAscends
<1>7. answer \in Text
    BY <1>3, <1>5, <1>6
<1>8. StreamHolds(r, reply[r]) => Ascends(answer)
    BY <1>3, <1>6, NumberedAssumption DEF StreamHolds
<1>9. /\ record \in Reply /\ record.kind = reply[r].kind /\ record.session = reply[r].session
      /\ record.said = reply[r].said /\ record.heard = reply[r].heard /\ record.script = reply[r].script
      /\ record.then = reply[r].then
  <2> HIDE DEF Script, Text, Phrase, Stages
  <2> QED
      BY <1>1, <1>4, <1>7 DEF Reply
<1>10. PICK text \in Text : /\ text = Diff(record.said, answer)
                            /\ IsPrefix(record.said, answer) /\ Ascends(answer)
                               => Ascends(text) /\ Below(record.said, text)
    BY <1>5, <1>7, <1>9, NewGoesOn
<1>11. retold \subseteq retold' /\ (r \notin retold' => IsPrefix(record.said, answer))
    BY <1>4
<1>12. PICK x \in Reply : x = [record EXCEPT !.at = "settle"] /\ x.at = "settle"
  <2>1. [record EXCEPT !.at = "settle"] \in Reply /\ [record EXCEPT !.at = "settle"].at = "settle"
    <3>1. "settle" \in Stages
        BY DEF Stages
    <3> HIDE DEF Script, Text, Phrase, Stages
    <3> QED
        BY <1>9, <3>1 DEF Reply
  <2> QED
      BY <2>1
<1>13. TextOf(r, reply[r]) => TextOf(r, x) /\ (r \notin retold' => GoesOn(reply[r], text, x))
  <2>1. TextOf(r, x) /\ \A p : SaidBy(x, p)
      BY <1>12 DEF TextOf, SaidBy, Streaming
  <2>2. ASSUME TextOf(r, reply[r]), r \notin retold' PROVE GoesOn(reply[r], text, x)
    <3>1. Ascends(text) /\ Below(record.said, text)
        BY <1>1, <1>8, <1>10, <1>11, <2>2 DEF TextOf, Streaming
    <3>2. \A p \in Nat : Spoken(p) /\ SaidBy(reply[r], p) => \A j \in DOMAIN text : Spoken(text[j]) => p < text[j]
        BY <1>1, <1>9, <3>1 DEF SaidBy, Streaming, Below
    <3> QED
        BY <2>1, <3>1, <3>2 DEF GoesOn
  <2> QED
      BY <2>1, <2>2
<1>14. record.heard <= Len(record.script.chunks) /\ record.then # "waiting"
    BY <1>1, <1>9 DEF RecordHolds
<1>15. "settle" \in Stages /\ "settle" \notin {"waiting", "putting"}
    BY DEF Stages
<1>16. Feed(r, record, text, FALSE, "settle")
    BY <1>4, <1>10
<1> QED
    BY <1>1, <1>2, <1>9, <1>11, <1>12, <1>13, <1>14, <1>15, <1>16, FeedMoves

(* Every step of a reply moves it.                                          *)
LEMMA ReplyStepMoves ==
    ASSUME Types, RepliesHold, NEW r \in Ids, ReplyStep(r) \/ Goes(r)
    PROVE  Moves(r)
    BY TellWholeMoves, StreamsMoves, FailsMoves, PutMoves, RestartedMoves, ConcludesMoves, SettleMoves,
       OverMoving, RestartMoves, CloseTextMoves DEF ReplyStep, Goes

-----------------------------------------------------------------------------
(***************************************************************************)
(* Type correctness.                                                       *)
(***************************************************************************)
TurnType == [speaker : {"learner", "tutor"}, reply : Nat]

LEMMA TimerFacts ==
    /\ [at |-> "off"] \in Timer /\ [at |-> "armed"] \in Timer /\ [at |-> "cancelled"] \in Timer
    /\ \A p \in Phrase : [at |-> "putting", phrase |-> p] \in Timer
    /\ \A t \in Timer : /\ t.at \in {"off", "armed", "putting", "cancelled"}
                        /\ t.at = "putting" => t.phrase \in Phrase
    BY DEF Timer

LEMMA WorkerFacts ==
    /\ [at |-> "idle"] \in Worker /\ [at |-> "stopping"] \in Worker
    /\ \A p \in Phrase : /\ [at |-> "synthesising", phrase |-> p] \in Worker
                         /\ [at |-> "ready", phrase |-> p] \in Worker
    /\ \A w \in Worker : /\ w.at \in {"idle", "synthesising", "ready", "stopping"}
                         /\ w.at \in {"synthesising", "ready"} => w.phrase \in Phrase
    BY DEF Worker

LEMMA LastOfKeeps ==
    ASSUME NEW S, NEW s \in Seq(S), NEW n \in Nat
    PROVE  LastOf(s, n) \in Seq(S) /\ Len(LastOf(s, n)) <= n
<1>1. Len(s) \in Nat /\ \A i \in 1..Len(s) : s[i] \in S
    BY LenProperties, ElementOfSeq
<1>2. PICK m \in Int : m = IF Len(s) > n THEN Len(s) - n + 1 ELSE 1
    BY <1>1
<1>3. \A i \in m..Len(s) : s[i] \in S
    BY <1>1, <1>2
<1>4. /\ SubSeq(s, m, Len(s)) \in Seq(S)
      /\ Len(SubSeq(s, m, Len(s))) = IF m <= Len(s) THEN Len(s) - m + 1 ELSE 0
    BY <1>1, <1>3, SubSeqProperties
<1>5. LastOf(s, n) = SubSeq(s, m, Len(s))
    BY <1>2 DEF LastOf
<1> QED
    BY <1>1, <1>2, <1>4, <1>5

LEMMA TurnIsTyped ==
    ASSUME NEW r \in Nat
    PROVE  <<Turn("learner", r), Turn("tutor", r)>> \in Seq(TurnType) /\ Turn("tutor", r) \in TurnType
<1>1. Turn("learner", r) \in TurnType /\ Turn("tutor", r) \in TurnType
    BY DEF Turn, TurnType
<1> QED
    BY <1>1

LEMMA SetTimerTypes ==
    ASSUME timer \in Timer, strays \in Seq(Timer), NEW at \in {"off", "armed"}, SetTimer(at)
    PROVE  timer' \in Timer /\ strays' \in Seq(Timer)
<1>1. timer' \in Timer
    BY TimerFacts DEF SetTimer
<1>2. Append(strays, timer) \in Seq(Timer)
    BY AppendProperties
<1> QED
    BY <1>1, <1>2 DEF SetTimer

(* What else a step of a reply changes.                                     *)
LEMMA ReplyStepFrame ==
    ASSUME Types, NEW r \in Ids, ReplyStep(r) \/ Goes(r)
    PROVE  /\ UNCHANGED <<turns, worker, tail, stop>>
           /\ timer' \in Timer /\ strays' \in Seq(Timer) /\ speaking' \in BOOLEAN
           /\ log' \in Seq(Nat) /\ dialogue' \in Seq(TurnType)
           /\ UNCHANGED memory \/ Finish(r)
<1>0. /\ timer \in Timer /\ strays \in Seq(Timer) /\ speaking \in BOOLEAN /\ audible \in BOOLEAN
      /\ log \in Seq(Nat) /\ dialogue \in Seq(TurnType) /\ r \in Nat /\ KeepTurns \in Nat
    BY ReplyAt, ReplyAssumption DEF Types, TurnType
<1>1. CASE TellWhole(r)
  <2>1. speaking' \in BOOLEAN
      BY <1>0, <1>1 DEF TellWhole
  <2>2. UNCHANGED <<turns, worker, tail, stop, flushing, memory>>
      BY <1>1 DEF TellWhole
  <2> QED
      BY <1>0, <2>1, <2>2 DEF flushing, memory
<1>2. CASE Streams(r) \/ Fails(r) \/ Put(r)
  <2>1. UNCHANGED <<turns, worker, mic, stop, flushing, memory>>
      BY <1>2 DEF Streams, Fails, Put
  <2> QED
      BY <1>0, <2>1 DEF flushing, memory, mic
<1>3. CASE Restart(r) \/ Settle(r)
  <2>1. timer' \in Timer /\ strays' = strays
      BY <1>0, <1>3, TimerFacts DEF Restart, Settle
  <2>2. UNCHANGED <<turns, speech, mic, stop, memory>>
      BY <1>3 DEF Restart, Settle
  <2> QED
      BY <1>0, <2>1, <2>2 DEF speech, mic, memory
<1>4. CASE Restarted(r) \/ Settled(r)
  <2>1. timer' \in Timer /\ strays' \in Seq(Timer)
      BY <1>0, <1>4, SetTimerTypes DEF Restarted, Settled
  <2>2. UNCHANGED <<turns, speech, mic, stop, memory>>
      BY <1>4 DEF Restarted, Settled
  <2> QED
      BY <1>0, <2>1, <2>2 DEF speech, mic, memory
<1>5. CASE Concludes(r)
  <2>1. UNCHANGED <<turns, worker, tail, stop, flushing, memory>> /\ (speaking' = speaking \/ speaking' = FALSE)
      BY <1>5 DEF Concludes, Done
  <2> QED
      BY <1>0, <2>1 DEF flushing, memory
<1>6. CASE CloseText(r)
  <2>1. UNCHANGED <<turns, worker, mic, stop, flushing, memory>>
      BY <1>6 DEF CloseText
  <2> QED
      BY <1>0, <2>1 DEF flushing, memory, mic
<1>7. CASE Cancelled(r)
  <2>1. UNCHANGED <<turns, speech, tail, stop, flushing, memory>> /\ speaking' = FALSE
      BY <1>7 DEF Cancelled, Done
  <2> QED
      BY <1>0, <2>1 DEF flushing, memory, speech
<1>8. CASE Finish(r)
  <2>1. UNCHANGED <<turns, speech, tail, stop, flushing>> /\ speaking' = FALSE
      BY <1>8 DEF Finish, Done
  <2>2. log' \in Seq(Nat)
    <3>1. Append(log, r) \in Seq(Nat)
        BY <1>0, AppendProperties
    <3> QED
        BY <1>0, <1>8, <3>1 DEF Finish
  <2>3. dialogue' \in Seq(TurnType)
    <3>1. <<Turn("learner", r), Turn("tutor", r)>> \in Seq(TurnType) /\ Turn("tutor", r) \in TurnType
        BY <1>0, TurnIsTyped
    <3>2. dialogue \o <<Turn("learner", r), Turn("tutor", r)>> \in Seq(TurnType)
        BY <1>0, <3>1, ConcatProperties
    <3>3. LastOf(dialogue \o <<Turn("learner", r), Turn("tutor", r)>>, KeepTurns) \in Seq(TurnType)
        BY <1>0, <3>2, LastOfKeeps
    <3>4. Append(dialogue, Turn("tutor", r)) \in Seq(TurnType)
        BY <1>0, <3>1, AppendProperties
    <3> QED
        BY <1>0, <1>8, <3>3, <3>4 DEF Finish
  <2> QED
      BY <1>0, <1>8, <2>1, <2>2, <2>3 DEF flushing, speech
<1> QED
    BY <1>1, <1>2, <1>3, <1>4, <1>5, <1>6, <1>7, <1>8 DEF ReplyStep, Goes

LEMMA ReplyStepTypes ==
    ASSUME Types, RepliesHold, NEW r \in Ids, ReplyStep(r) \/ Goes(r)
    PROVE  Types'
<1>1. /\ UNCHANGED <<turns, worker, tail, stop>>
      /\ timer' \in Timer /\ strays' \in Seq(Timer) /\ speaking' \in BOOLEAN
      /\ log' \in Seq(Nat) /\ dialogue' \in Seq(TurnType)
    BY ReplyStepFrame
<1>2. PICK x \in Reply, text \in Text : Moved(r, x, text)
    BY ReplyStepMoves DEF Moves
<1>3. reply' = [reply EXCEPT ![r] = x] /\ SpeechTypes'
    BY <1>2 DEF Moved
<1>4. reply' \in Seq(Reply) /\ Len(reply') <= MaxReplies
    BY <1>3, ReplySet
<1> QED
    BY <1>1, <1>3, <1>4 DEF Types, SpeechTypes, turns, TurnType

(* A reply that begins.                                                     *)
LEMMA NewReply ==
    ASSUME Types, Enabled, NEW kind \in {"llm", "local", "opener"}, NEW script \in Script
    PROVE  /\ New(kind, script) \in Reply
           /\ New(kind, script).kind = kind /\ New(kind, script).script = script
           /\ New(kind, script).session = session
           /\ New(kind, script).at = (IF kind = "llm" THEN "thinking" ELSE "waiting")
           /\ New(kind, script).then = "done"
           /\ New(kind, script).heard = 0 /\ New(kind, script).raw = << >> /\ New(kind, script).said = << >>
           /\ New(kind, script).answer = << >>
<1>1. session \in Nat
    BY DEF Types, Enabled
<1>2. << >> \in Text /\ << >> \in Seq(Phrase) /\ "thinking" \in Stages /\ "waiting" \in Stages /\ "done" \in Stages
    BY NoText DEF Stages
<1> HIDE DEF Script, Text, Phrase, Stages
<1> QED
    BY <1>1, <1>2 DEF New, Reply

LEMMA ReplyAppended ==
    ASSUME Types, NEW x \in Reply, Len(reply) < MaxReplies, reply' = Append(reply, x)
    PROVE  /\ reply' \in Seq(Reply) /\ Len(reply') <= MaxReplies
           /\ Ids' = Ids \union {Len(reply) + 1} /\ Len(reply) + 1 \notin Ids
           /\ reply'[Len(reply) + 1] = x /\ \A q \in Ids : reply'[q] = reply[q]
           /\ Len(reply) + 1 \in 1..MaxReplies
<1>1. reply \in Seq(Reply) /\ Len(reply) \in Nat /\ Ids = 1..Len(reply) /\ MaxReplies \in Nat
    BY LenProperties, ReplyAssumption DEF Types, Ids
<1>2. /\ reply' \in Seq(Reply) /\ Len(reply') = Len(reply) + 1
      /\ \A i \in 1..Len(reply) : reply'[i] = reply[i]
      /\ reply'[Len(reply) + 1] = x
    BY <1>1, AppendProperties
<1>3. Ids' = 1..(Len(reply) + 1)
    BY <1>2, LenProperties DEF Ids
<1> QED
    BY <1>1, <1>2, <1>3

(* The three ways in which it begins.                                       *)
Begins(kind, script) ==
    /\ Enabled /\ Len(reply) < MaxReplies
    /\ reply' = Append(reply, New(kind, script))
    /\ UNCHANGED <<session, started, audible, flushing, speech, mic, stop, memory, history>>
    /\ greeted' = (greeted \/ kind = "opener")
    /\ kind = "opener" => ~greeted
    /\ kind = "llm" => stop.end # "persist" /\ script \in Scripts[Len(reply) + 1]
    /\ kind # "llm" => Len(script.chunks) = 1 /\ Ascends(script.chunks[1])

LEMMA BeginsMeans ==
    ASSUME Types, Greet \/ Answer \/ AnswerLocally
    PROVE  \E kind \in {"llm", "local", "opener"}, script \in Script : Begins(kind, script)
<1>1. CASE Greet
  <2>1. Whole(Greeting) \in Script /\ Whole(Greeting).chunks = <<Greeting>>
      BY ScriptAssumption, WholeIsScript DEF Text
  <2>2. Len(<<Greeting>>) = 1 /\ <<Greeting>>[1] = Greeting
      OBVIOUS
  <2>3. Begins("opener", Whole(Greeting))
      BY <1>1, <2>1, <2>2, NumberedAssumption DEF Greet, Begins
  <2> QED
      BY <2>1, <2>3
<1>2. CASE Answer
  <2>1. PICK script \in Scripts[Len(reply) + 1] : AnswerWith("llm", "local", script)
      BY <1>2 DEF Answer
  <2>2. Len(reply) + 1 \in 1..MaxReplies
      BY <1>2, LenProperties, ReplyAssumption DEF Answer, Types
  <2>3. script \in Script
      BY <2>1, <2>2, ScriptAssumption DEF Script, Text
  <2>4. Begins("llm", script)
      BY <1>2, <2>1 DEF Answer, AnswerWith, Begins, turns, Types
  <2> QED
      BY <2>3, <2>4
<1>3. CASE AnswerLocally
  <2>1. Whole(Fallback) \in Script /\ Whole(Fallback).chunks = <<Fallback>>
      BY ScriptAssumption, WholeIsScript DEF Text
  <2>2. Len(<<Fallback>>) = 1 /\ <<Fallback>>[1] = Fallback
      OBVIOUS
  <2>3. Begins("local", Whole(Fallback))
      BY <1>3, <2>1, <2>2, NumberedAssumption DEF AnswerLocally, AnswerWith, Begins, turns, Types
  <2> QED
      BY <2>1, <2>3
<1> QED
    BY <1>1, <1>2, <1>3

LEMMA BeginsTypes ==
    ASSUME Types, NEW kind \in {"llm", "local", "opener"}, NEW script \in Script, Begins(kind, script)
    PROVE  Types'
<1>1. New(kind, script) \in Reply
    BY NewReply DEF Begins
<1>2. reply' \in Seq(Reply) /\ Len(reply') <= MaxReplies
    BY <1>1, ReplyAppended DEF Begins
<1>3. greeted' \in BOOLEAN
    BY DEF Begins, Types
<1> QED
    BY <1>2, <1>3 DEF Begins, Types, flushing, speech, mic, memory, history

-----------------------------------------------------------------------------
(***************************************************************************)
(* The speech and the timers.                                              *)
(***************************************************************************)
LEMMA WorkTyped ==
    ASSUME Types
    PROVE  /\ AtWork \in Seq(Phrase) /\ Line = LineOf(AtWork, queue, buffer)
           /\ queue \in Seq(Phrase) /\ buffer \in Phrase
<1>1. worker.at \in {"synthesising", "ready"} => worker.phrase \in Phrase
    BY WorkerFacts DEF Types
<1>2. AtWork \in Seq(Phrase)
    BY <1>1, NoText DEF AtWork
<1> QED
    BY <1>2 DEF Types, Line, LineOf

LEMMA PutOne ==
    ASSUME Types, NEW p \in Phrase, PutSome(<<p>>)
    PROVE  /\ queue' \in Seq(Phrase) /\ Len(queue') <= PhraseRoom /\ crowded' \in BOOLEAN
           /\ crowded => crowded'
           /\ ~crowded' => queue' = queue \o <<p>>
           /\ ~(Room > 0) => crowded'
<1>1. <<p>> \in Seq(Phrase) /\ Len(<<p>>) = 1
    OBVIOUS
<1>2. Room \in Int
    BY ListFacts, ReplyAssumption DEF Types, Room
<1>3. ~(Room > 0) => Len(<<p>>) > Room
    BY <1>1, <1>2
<1> QED
    BY <1>1, <1>3, PutEffect DEF Types

(* A timer that fires: its phrase is put, or the buffer, or nothing.        *)
FireEffect ==
    /\ SpeechTypes' /\ (crowded => crowded')
    /\ \/ crowded' \/ UNCHANGED <<buffer, queue>>
       \/ buffer' = << >> /\ queue' = queue \o <<buffer>>

LEMMA FireIsTyped ==
    ASSUME Types, NEW t \in Timer, TimersHold, t.at = "putting" => crowded,
           NEW dead, NEW waiting, Fire(t, dead, waiting)
    PROVE  FireEffect /\ (dead \/ (waiting /\ crowded'))
<1>1. CASE t.at = "putting"
  <2>1. t.phrase \in Phrase
      BY <1>1, TimerFacts
  <2>2. PutSome(<<t.phrase>>) /\ UNCHANGED buffer /\ dead
      BY <1>1 DEF Fire
  <2> QED
      BY <1>1, <2>1, <2>2, PutOne DEF FireEffect, SpeechTypes, Types
<1>2. CASE t.at # "putting" /\ (~Enabled \/ buffer = << >>)
    BY <1>2 DEF Fire, FireEffect, SpeechTypes, Types
<1>3. CASE t.at # "putting" /\ ~(~Enabled \/ buffer = << >>)
  <2>1. buffer' = << >> /\ PutSome(<<buffer>>) /\ IF Room > 0 THEN dead ELSE waiting
      BY <1>3 DEF Fire
  <2>2. buffer \in Phrase
      BY DEF Types
  <2>3. /\ queue' \in Seq(Phrase) /\ Len(queue') <= PhraseRoom /\ crowded' \in BOOLEAN
        /\ crowded => crowded'
        /\ ~crowded' => queue' = queue \o <<buffer>>
        /\ ~(Room > 0) => crowded'
      BY <2>1, <2>2, PutOne
  <2>4. SpeechTypes'
      BY <2>1, <2>3, NoText, ReplyAssumption DEF SpeechTypes
  <2> QED
      BY <2>1, <2>3, <2>4 DEF FireEffect
<1> QED
    BY <1>1, <1>2, <1>3

LEMMA FireKeeps ==
    ASSUME Types, FireEffect, UNCHANGED worker
    PROVE  crowded' \/ Keeps(Line', Line)
<1>1. SUFFICES ASSUME ~crowded' PROVE Keeps(Line', Line)
    OBVIOUS
<1>2. AtWork' = AtWork /\ Line' = LineOf(AtWork', queue', buffer')
    BY DEF AtWork, Line, LineOf
<1>3. CASE UNCHANGED <<buffer, queue>>
    BY <1>2, <1>3, WorkTyped DEF Keeps
<1>4. CASE buffer' = << >> /\ queue' = queue \o <<buffer>>
    BY <1>2, <1>4, WorkTyped, FlushKeeps
<1> QED
    BY <1>1, <1>3, <1>4 DEF FireEffect

(* Timers among the ones that nothing refers to.                            *)
LEMMA StraysWithout ==
    ASSUME NEW s \in Seq(Timer), NEW i \in DOMAIN s
    PROVE  /\ RemoveAt(s, i) \in Seq(Timer)
           /\ \A k \in DOMAIN RemoveAt(s, i) : \E l \in DOMAIN s : RemoveAt(s, i)[k] = s[l]
<1>1. Len(s) \in Nat /\ DOMAIN s = 1..Len(s) /\ i \in 1..Len(s) /\ i \in Int
    BY LenProperties
<1>2. \A k \in 1..Len(s) : s[k] \in Timer
    BY ElementOfSeq
<1> DEFINE a == SubSeq(s, 1, i - 1)
           b == SubSeq(s, i + 1, Len(s))
<1>3. /\ a \in Seq(Timer) /\ Len(a) = i - 1 /\ \A k \in 1..(i - 1) : a[k] = s[k]
  <2>1. \A k \in 1..(i - 1) : s[k] \in Timer
      BY <1>1, <1>2
  <2>2. /\ a \in Seq(Timer) /\ Len(a) = (IF 1 <= i - 1 THEN i - 1 - 1 + 1 ELSE 0)
        /\ \A k \in 1..(i - 1 - 1 + 1) : a[k] = s[1 + k - 1]
      BY <1>1, <2>1, SubSeqProperties
  <2>3. i - 1 - 1 + 1 = i - 1 /\ \A k \in 1..(i - 1) : 1 + k - 1 = k
      BY <1>1
  <2> HIDE DEF a
  <2> QED
      BY <1>1, <2>2, <2>3
<1>4. /\ b \in Seq(Timer) /\ Len(b) = Len(s) - i /\ \A k \in 1..(Len(s) - i) : b[k] = s[k + i]
  <2>1. \A k \in (i + 1)..Len(s) : s[k] \in Timer
      BY <1>1, <1>2
  <2>2. /\ b \in Seq(Timer) /\ Len(b) = (IF i + 1 <= Len(s) THEN Len(s) - (i + 1) + 1 ELSE 0)
        /\ \A k \in 1..(Len(s) - (i + 1) + 1) : b[k] = s[i + 1 + k - 1]
      BY <1>1, <2>1, SubSeqProperties
  <2>3. Len(s) - (i + 1) + 1 = Len(s) - i /\ \A k \in 1..(Len(s) - i) : i + 1 + k - 1 = k + i
      BY <1>1
  <2> HIDE DEF b
  <2> QED
      BY <1>1, <2>2, <2>3
<1>5. RemoveAt(s, i) = a \o b
    BY DEF RemoveAt
<1> HIDE DEF a, b
<1>6. /\ a \o b \in Seq(Timer) /\ Len(a \o b) = Len(a) + Len(b)
      /\ \A k \in 1..(Len(a) + Len(b)) : (a \o b)[k] = IF k <= Len(a) THEN a[k] ELSE b[k - Len(a)]
    BY <1>3, <1>4, ConcatProperties
<1>7. DOMAIN (a \o b) = 1..(Len(a) + Len(b))
    BY <1>6, LenProperties
<1>8. ASSUME NEW k \in DOMAIN (a \o b) PROVE \E l \in DOMAIN s : (a \o b)[k] = s[l]
  <2>1. CASE k <= i - 1
    <3>1. k \in 1..(i - 1) /\ k \in DOMAIN s /\ (a \o b)[k] = a[k]
        BY <1>1, <1>3, <1>4, <1>6, <1>7, <2>1
    <3> QED
        BY <1>3, <3>1
  <2>2. CASE ~(k <= i - 1)
    <3>1. k - (i - 1) \in 1..(Len(s) - i) /\ k + 1 \in DOMAIN s /\ (a \o b)[k] = b[k - (i - 1)]
        BY <1>1, <1>3, <1>4, <1>6, <1>7, <2>2
    <3>2. b[k - (i - 1)] = s[k - (i - 1) + i] /\ k - (i - 1) + i = k + 1
        BY <1>1, <1>4, <1>7, <3>1
    <3> QED
        BY <3>1, <3>2
  <2> QED
      BY <2>1, <2>2
<1> QED
    BY <1>5, <1>6, <1>8

LEMMA TimerFiresEffect ==
    ASSUME Types, TimersHold, TimerFires
    PROVE  /\ FireEffect /\ timer' \in Timer /\ strays' \in Seq(Timer) /\ TimersHold'
           /\ UNCHANGED <<turns, reply, worker, mic, stop, memory, retold>>
<1>1. timer \in Timer /\ strays \in Seq(Timer) /\ (timer.at = "putting" => crowded) /\ buffer \in Phrase
    BY DEF Types, TimersHold
<1>2. Fire(timer, timer' = [at |-> "off"], timer' = [at |-> "putting", phrase |-> buffer])
      /\ UNCHANGED <<turns, reply, strays, worker, mic, stop, memory, retold>>
    BY DEF TimerFires
<1>3. FireEffect /\ (timer' = [at |-> "off"] \/ (timer' = [at |-> "putting", phrase |-> buffer] /\ crowded'))
    BY <1>1, <1>2, FireIsTyped
<1>4. timer' \in Timer
    BY <1>1, <1>3, TimerFacts
<1>5. TimersHold'
    BY <1>2, <1>3 DEF TimersHold, FireEffect
<1> QED
    BY <1>1, <1>2, <1>3, <1>4, <1>5

LEMMA StrayFiresEffect ==
    ASSUME Types, TimersHold, NEW i \in DOMAIN strays, StrayFires(i)
    PROVE  /\ FireEffect /\ timer' \in Timer /\ strays' \in Seq(Timer) /\ TimersHold'
           /\ UNCHANGED <<turns, reply, worker, mic, stop, memory, retold>>
<1>1. timer \in Timer /\ strays \in Seq(Timer) /\ buffer \in Phrase
    BY DEF Types
<1>2. i \in 1..Len(strays) /\ strays[i] \in Timer /\ (strays[i].at = "putting" => crowded)
    BY <1>1, LenProperties, ElementOfSeq DEF TimersHold
<1>3. Fire(strays[i], strays' = RemoveAt(strays, i),
            strays' = [strays EXCEPT ![i] = [at |-> "putting", phrase |-> buffer]])
      /\ UNCHANGED <<turns, reply, timer, worker, mic, stop, memory, retold>>
    BY DEF StrayFires
<1>4. FireEffect /\ (strays' = RemoveAt(strays, i)
        \/ (strays' = [strays EXCEPT ![i] = [at |-> "putting", phrase |-> buffer]] /\ crowded'))
    BY <1>2, <1>3, FireIsTyped
<1>5. CASE strays' = RemoveAt(strays, i)
  <2>1. strays' \in Seq(Timer) /\ \A k \in DOMAIN strays' : \E l \in DOMAIN strays : strays'[k] = strays[l]
      BY <1>1, <1>5, StraysWithout
  <2>2. TimersHold'
      BY <1>3, <1>4, <2>1 DEF TimersHold, FireEffect
  <2> QED
      BY <1>1, <1>3, <1>4, <2>1, <2>2
<1>6. CASE strays' = [strays EXCEPT ![i] = [at |-> "putting", phrase |-> buffer]] /\ crowded'
  <2>1. [at |-> "putting", phrase |-> buffer] \in Timer
      BY <1>1, TimerFacts
  <2>2. strays' \in Seq(Timer)
      BY <1>1, <1>2, <1>6, <2>1, ExceptSeq
  <2>3. TimersHold'
      BY <1>6 DEF TimersHold
  <2> QED
      BY <1>1, <1>3, <1>4, <2>2, <2>3
<1> QED
    BY <1>4, <1>5, <1>6

(* What a step of the speech leaves as it was, and what it keeps of the line. *)
SpeechEffect ==
    /\ Types' /\ TimersHold' /\ (crowded => crowded')
    /\ crowded' \/ Keeps(Line', Line)
    /\ UNCHANGED <<turns, reply, memory, retold>>
    /\ stop'.end = "persist" => stop.end = "persist"

LEMMA KeepsItself == \A line : Keeps(line, line)
    BY DEF Keeps

(* A step of the worker.                                                    *)
LEMMA WorkerStepEffect ==
    ASSUME Types, TimersHold, UNCHANGED <<turns, reply, flushing, buffer, stop, memory, history>>,
           worker' \in Worker, queue' \in Seq(Phrase), Len(queue') <= PhraseRoom,
           speaking' \in BOOLEAN, tail' \in [current : BOOLEAN, others : Nat],
           Keeps(LineOf(AtWork', queue', buffer), LineOf(AtWork, queue, buffer))
    PROVE  SpeechEffect
<1>1. Types'
    BY DEF Types, turns, flushing, memory, history
<1>2. TimersHold' /\ crowded' = crowded /\ retold' = retold
    BY DEF TimersHold, flushing, history
<1>3. Keeps(Line', Line)
  <2>1. Line' = LineOf(AtWork', queue', buffer') /\ Line = LineOf(AtWork, queue, buffer) /\ buffer' = buffer
      BY DEF Line, LineOf
  <2> QED
      BY <2>1
<1> QED
    BY <1>1, <1>2, <1>3 DEF SpeechEffect

LEMMA WorkerSteps ==
    ASSUME Types, TimersHold,
           Synthesise \/ (\E ok \in BOOLEAN : Synthesised(ok)) \/ SynthesisDies \/ SendPhrase \/ Release
    PROVE  SpeechEffect
<1>0. /\ worker \in Worker /\ queue \in Seq(Phrase) /\ buffer \in Phrase /\ Len(queue) <= PhraseRoom
      /\ speaking \in BOOLEAN /\ tail \in [current : BOOLEAN, others : Nat] /\ AtWork \in Seq(Phrase)
      /\ Enabled \in BOOLEAN /\ audible \in BOOLEAN
    BY WorkTyped DEF Types, Enabled
<1>1. CASE Synthesise
  <2>1. Head(queue) \in Phrase /\ Tail(queue) \in Seq(Phrase) /\ Len(Tail(queue)) = Len(queue) - 1
      BY <1>0, <1>1, HeadTailProperties DEF Synthesise
  <2>2. /\ worker.at = "idle" /\ queue # << >> /\ queue' = Tail(queue)
        /\ worker' = [at |-> "synthesising", phrase |-> Head(queue)]
        /\ UNCHANGED <<turns, reply, flushing, buffer, stop, memory, history, speaking, tail>>
      BY <1>1 DEF Synthesise, mic
  <2>3. worker' \in Worker
      BY <2>1, <2>2, WorkerFacts
  <2>4. AtWork = << >> /\ AtWork' = <<Head(queue)>>
      BY <2>2 DEF AtWork
  <2>5. LineOf(<<Head(queue)>>, Tail(queue), buffer) = LineOf(<< >>, queue, buffer)
      BY <1>0, <2>2, TakeKeeps
  <2>6. Keeps(LineOf(AtWork', queue', buffer), LineOf(AtWork, queue, buffer))
      BY <2>2, <2>4, <2>5, KeepsItself
  <2>7. Len(queue') <= PhraseRoom
      BY <1>0, <2>1, <2>2, ListFacts, ReplyAssumption
  <2> QED
      BY <1>0, <2>1, <2>2, <2>3, <2>6, <2>7, WorkerStepEffect
<1>2. ASSUME NEW ok \in BOOLEAN, Synthesised(ok) PROVE SpeechEffect
  <2>1. /\ worker.at = "synthesising"
        /\ worker' = IF ok THEN [worker EXCEPT !.at = "ready"] ELSE [at |-> "idle"]
        /\ UNCHANGED <<turns, reply, flushing, buffer, queue, stop, memory, history, speaking, tail>>
      BY <1>2 DEF Synthesised, mic
  <2>2. worker.phrase \in Phrase /\ AtWork = <<worker.phrase>>
      BY <1>0, <2>1, WorkerFacts DEF AtWork
  <2>3. CASE ok
    <3>1. worker' = [at |-> "ready", phrase |-> worker.phrase]
        BY <1>0, <2>1, <2>3 DEF Worker
    <3>2. worker' \in Worker /\ AtWork' = <<worker.phrase>>
        BY <2>2, <3>1, WorkerFacts DEF AtWork
    <3> QED
        BY <1>0, <2>1, <2>2, <3>2, KeepsItself, WorkerStepEffect
  <2>4. CASE ~ok
    <3>1. worker' \in Worker /\ AtWork' = << >>
        BY <2>1, <2>4, WorkerFacts DEF AtWork
    <3>2. Keeps(LineOf(<< >>, queue, buffer), LineOf(AtWork, queue, buffer))
        BY <1>0, DropKeeps
    <3> QED
        BY <1>0, <2>1, <3>1, <3>2, WorkerStepEffect
  <2> QED
      BY <2>3, <2>4
<1>3. CASE SynthesisDies \/ SendPhrase
  <2>1. /\ worker' = [at |-> "idle"]
        /\ UNCHANGED <<turns, reply, flushing, buffer, queue, stop, memory, history>>
      BY <1>3 DEF SynthesisDies, SendPhrase
  <2>2. speaking' \in BOOLEAN /\ tail' \in [current : BOOLEAN, others : Nat]
      BY <1>0, <1>3 DEF SynthesisDies, SendPhrase, mic
  <2>3. worker' \in Worker /\ AtWork' = << >>
      BY <2>1, WorkerFacts DEF AtWork
  <2>4. Keeps(LineOf(<< >>, queue, buffer), LineOf(AtWork, queue, buffer))
      BY <1>0, DropKeeps
  <2> QED
      BY <1>0, <2>1, <2>2, <2>3, <2>4, WorkerStepEffect
<1>4. CASE Release
  <2>1. speaking' \in BOOLEAN /\ tail' \in [current : BOOLEAN, others : Nat]
    <3>1. [tail EXCEPT !.current = FALSE] \in [current : BOOLEAN, others : Nat]
        BY <1>0
    <3>2. tail.others > 0 => [tail EXCEPT !.others = @ - 1] \in [current : BOOLEAN, others : Nat]
        BY <1>0
    <3> QED
        BY <1>4, <3>1, <3>2 DEF Release
  <2>2. UNCHANGED <<turns, reply, flushing, buffer, queue, worker, stop, memory, history>>
      BY <1>4 DEF Release, speech
  <2>3. AtWork' = AtWork
      BY <2>2 DEF AtWork
  <2> QED
      BY <1>0, <2>1, <2>2, <2>3, KeepsItself, WorkerStepEffect
<1> QED
    BY <1>1, <1>2, <1>3, <1>4

(* A timer.                                                                 *)
LEMMA FiringEffect ==
    ASSUME Types, FireEffect, timer' \in Timer, strays' \in Seq(Timer), TimersHold',
           UNCHANGED <<turns, reply, worker, mic, stop, memory, retold>>
    PROVE  SpeechEffect
<1>1. Types'
    BY DEF Types, FireEffect, SpeechTypes, turns, mic, memory
<1>2. crowded' \/ Keeps(Line', Line)
    BY FireKeeps
<1> QED
    BY <1>1, <1>2 DEF SpeechEffect, FireEffect

LEMMA TimerSteps ==
    ASSUME Types, TimersHold, TimerDies \/ TimerFires \/ (\E i \in DOMAIN strays : StrayFires(i))
    PROVE  SpeechEffect
<1>1. CASE TimerDies
  <2>1. timer' \in Timer /\ strays' \in Seq(Timer) /\ TimersHold'
      BY <1>1, TimerFacts DEF TimerDies, Types, TimersHold, history
  <2>2. UNCHANGED <<turns, reply, worker, mic, stop, memory, retold, buffer, queue, crowded>>
      BY <1>1 DEF TimerDies, speech, history
  <2>3. FireEffect
      BY <2>2 DEF FireEffect, SpeechTypes, Types
  <2> QED
      BY <2>1, <2>2, <2>3, FiringEffect
<1>2. CASE TimerFires
    BY <1>2, TimerFiresEffect, FiringEffect
<1>3. ASSUME NEW i \in DOMAIN strays, StrayFires(i) PROVE SpeechEffect
    BY <1>3, StrayFiresEffect, FiringEffect
<1> QED
    BY <1>1, <1>2, <1>3

(* The stop of the speech.                                                  *)
LEMMA StopSteps ==
    ASSUME Types, TimersHold, NEW k \in {"barge", "end"}, BeginStop(k) \/ Silent(k)
    PROVE  SpeechEffect
<1>0. /\ worker \in Worker /\ queue \in Seq(Phrase) /\ buffer \in Phrase /\ Len(queue) <= PhraseRoom
      /\ speaking \in BOOLEAN /\ tail \in [current : BOOLEAN, others : Nat] /\ AtWork \in Seq(Phrase)
      /\ timer \in Timer /\ stop \in Stop
    BY WorkTyped DEF Types
<1>1. CASE BeginStop(k)
  <2>1. /\ stop' = [stop EXCEPT ![k] = IF worker.at = "synthesising" THEN "synthesis" ELSE "cancel"]
        /\ timer' = [at |-> IF Pending THEN "cancelled" ELSE timer.at]
        /\ tail' = [tail EXCEPT !.current = FALSE] /\ speaking' = FALSE
        /\ buffer' = << >> /\ queue' = << >>
        /\ worker' = (IF worker.at = "synthesising" THEN [at |-> "stopping"] ELSE worker)
        /\ UNCHANGED <<turns, reply, strays, memory, history>>
      BY <1>1 DEF BeginStop
  <2>2. stop' \in Stop /\ (stop'.end = "persist" => stop.end = "persist")
    <3>1. \A a \in {"synthesis", "cancel"} :
            /\ [stop EXCEPT ![k] = a] \in Stop
            /\ [stop EXCEPT ![k] = a].end = "persist" => stop.end = "persist"
        BY <1>0 DEF Stop
    <3> QED
        BY <2>1, <3>1
  <2>3. timer' \in Timer /\ timer'.at # "putting"
    <3>1. timer.at \in {"off", "armed", "putting", "cancelled"}
        BY <1>0, TimerFacts
    <3> QED
        BY <2>1, <3>1, TimerFacts DEF Pending
  <2>4. tail' \in [current : BOOLEAN, others : Nat]
      BY <1>0, <2>1
  <2>5. worker' \in Worker
      BY <1>0, <2>1, WorkerFacts
  <2>6. buffer' \in Phrase /\ queue' \in Seq(Phrase) /\ Len(buffer') = 0 /\ Len(queue') = 0
      BY <2>1, NoText
  <2>7. Types'
    <3>1. Len(buffer') < PhraseWords /\ Len(queue') <= PhraseRoom
        BY <2>6, ReplyAssumption
    <3>2. UNCHANGED <<session, started, audible, greeted, reply, strays, log, dialogue, crowded>> /\ speaking' \in BOOLEAN
        BY <2>1 DEF turns, memory, history
    <3> QED
        BY <2>2, <2>3, <2>4, <2>5, <2>6, <3>1, <3>2 DEF Types
  <2>8. TimersHold' /\ crowded' = crowded /\ retold' = retold
      BY <2>1, <2>3 DEF TimersHold, history
  <2>9. Keeps(LineOf(AtWork', queue', buffer'), LineOf(AtWork, queue, buffer))
    <3>1. Keeps(LineOf(AtWork, << >>, << >>), LineOf(AtWork, queue, buffer))
        BY <1>0, ClearKeeps
    <3>2. CASE worker.at = "synthesising"
      <4>1. AtWork' = << >>
          BY <2>1, <3>2 DEF AtWork
      <4>2. Keeps(LineOf(<< >>, << >>, << >>), LineOf(AtWork, << >>, << >>))
          BY <1>0, DropKeeps, NoText
      <4>3. Keeps(LineOf(<< >>, << >>, << >>), LineOf(AtWork, queue, buffer))
          BY <3>1, <4>2 DEF Keeps
      <4> QED
          BY <2>1, <4>1, <4>3
    <3>3. CASE worker.at # "synthesising"
      <4>1. AtWork' = AtWork
          BY <2>1, <3>3 DEF AtWork
      <4> QED
          BY <2>1, <3>1, <4>1
    <3> QED
        BY <3>2, <3>3
  <2>10. Keeps(Line', Line)
      BY <2>9 DEF Line, LineOf
  <2> QED
      BY <2>1, <2>2, <2>7, <2>8, <2>10 DEF SpeechEffect
<1>2. CASE Silent(k)
  <2>1. stop' \in Stop /\ (stop'.end = "persist" => stop.end = "persist")
    <3>1. /\ [stop EXCEPT ![k] = "cancel"] \in Stop
          /\ [stop EXCEPT ![k] = "cancel"].end = "persist" => stop.end = "persist"
        BY <1>0 DEF Stop
    <3> QED
        BY <1>2, <3>1 DEF Silent
  <2>2. UNCHANGED <<turns, reply, flushing, speech, mic, memory, history>>
      BY <1>2 DEF Silent
  <2>3. Types' /\ TimersHold' /\ Line' = Line
      BY <2>1, <2>2 DEF Types, TimersHold, Line, AtWork, turns, flushing, speech, mic, memory, history
  <2> QED
      BY <2>1, <2>2, <2>3, KeepsItself DEF SpeechEffect, history
<1> QED
    BY <1>1, <1>2

-----------------------------------------------------------------------------
(***************************************************************************)
(* The invariants, kept.                                                   *)
(***************************************************************************)
Inv == Types /\ OneOpener /\ LogInv /\ LineInv

(* The line in terms of AllIn and InOrder.                                  *)
KnownWords == {w \in Nat \X Nat : Known(w)}

LEMMA LineMeans ==
    ASSUME Types
    PROVE  /\ LineHolds <=> AllIn(Line, KnownWords)
           /\ SpokenInOrder <=> crowded \/ \A r \in Ids \ retold : InOrder(Line, r)
<1>1. Line \in Seq(Phrase)
    BY WorkTyped, LineParts
<1>2. \A k \in DOMAIN Line : \A i \in DOMAIN Line[k] : Line[k][i] \in Nat \X Nat
  <2>1. \A k \in DOMAIN Line : Line[k] \in Phrase
      BY <1>1, LenProperties, ElementOfSeq
  <2>2. \A p \in Phrase : \A i \in DOMAIN p : p[i] \in Nat \X Nat
      BY LenProperties, ElementOfSeq DEF Phrase
  <2> QED
      BY <2>1, <2>2
<1>3. LineHolds <=> AllIn(Line, KnownWords)
    BY <1>2 DEF LineHolds, AllIn, KnownWords
<1>4. SpokenInOrder <=> crowded \/ \A r \in Ids \ retold : InOrder(Line, r)
    BY DEF SpokenInOrder, Line
<1> QED
    BY <1>3, <1>4

(* A record that holds goes on to hold while its session lasts.             *)
LEMMA RecordKept ==
    ASSUME NEW x, RecordHolds(x), session' = session, crowded => crowded',
           stop'.end = "persist" => stop.end = "persist"
    PROVE  RecordHolds(x)'
    BY DEF RecordHolds, Enabled

(* Records that differ only in their cancellation.                          *)
Same(x, y) ==
    /\ x.kind = y.kind /\ x.script = y.script /\ x.session = y.session /\ x.at = y.at /\ x.then = y.then
    /\ x.heard = y.heard /\ x.raw = y.raw /\ x.said = y.said /\ x.answer = y.answer

LEMMA SameMeans ==
    ASSUME NEW r, NEW x, NEW y, Same(x, y)
    PROVE  /\ RecordHolds(x) <=> RecordHolds(y)
           /\ TextOf(r, x) <=> TextOf(r, y)
           /\ \A p : SaidBy(x, p) <=> SaidBy(y, p)
<1>1. RecordHolds(x) <=> RecordHolds(y)
    BY DEF Same, RecordHolds
<1>2. TextOf(r, x) <=> TextOf(r, y)
    BY DEF Same, TextOf, StreamHolds
<1>3. \A p : SaidBy(x, p) <=> SaidBy(y, p)
    BY DEF Same, SaidBy
<1> QED
    BY <1>1, <1>2, <1>3

(* A step that leaves the replies where they are.                           *)
Quiet ==
    /\ Ids' = Ids /\ \A q \in Ids : Same(reply'[q], reply[q])
    /\ crowded => crowded'
    /\ crowded' \/ Keeps(Line', Line)
    /\ retold' = retold

LEMMA QuietOpeners ==
    ASSUME Quiet
    PROVE  Openers' = Openers /\ OpenersDone' = OpenersDone
    BY DEF Quiet, Same, Openers, OpenersDone

LEMMA QuietLine ==
    ASSUME Types, Types', LineInv, TimersHold', Quiet
    PROVE  LineInv'
<1>1. SUFFICES ASSUME ~crowded' PROVE TextHolds' /\ LineHolds' /\ SpokenInOrder'
    BY DEF LineInv
<1>2. ~crowded /\ TextHolds /\ LineHolds /\ SpokenInOrder /\ Keeps(Line', Line)
    BY <1>1 DEF LineInv, Quiet
<1>3. TextHolds'
  <2> SUFFICES ASSUME NEW q \in Ids PROVE TextOf(q, reply'[q])
      BY DEF TextHolds, Quiet, TextOf, StreamHolds
  <2>1. TextOf(q, reply[q]) /\ Same(reply'[q], reply[q])
      BY <1>2 DEF TextHolds, Quiet
  <2> QED
      BY <2>1, SameMeans
<1>4. \A w : Known(w) => Known(w)'
  <2>1. \A q \in Ids : \A p : SaidBy(reply'[q], p) <=> SaidBy(reply[q], p)
      BY SameMeans DEF Quiet
  <2> QED
      BY <2>1 DEF Known, Quiet, SaidBy
<1>5. AllIn(Line, KnownWords) /\ \A r \in Ids \ retold : InOrder(Line, r)
    BY <1>2, LineMeans
<1>6. AllIn(Line', KnownWords) /\ \A r \in Ids \ retold : InOrder(Line', r)
    BY <1>2, <1>5 DEF Keeps
<1>7. LineHolds'
    BY <1>4, <1>6 DEF LineHolds, AllIn, KnownWords
<1>8. SpokenInOrder'
  <2>1. SpokenInOrder' <=> (crowded' \/ \A r \in Ids' \ retold' : InOrder(Line', r))
      BY DEF SpokenInOrder, Line
  <2> QED
      BY <1>6, <2>1 DEF Quiet
<1> QED
    BY <1>3, <1>7, <1>8

LEMMA QuietRecords ==
    ASSUME RepliesHold, Quiet, session' = session, stop'.end = "persist" => stop.end = "persist"
    PROVE  RepliesHold'
<1>1. ASSUME NEW q \in Ids PROVE RecordHolds(reply[q])'
  <2>1. RecordHolds(reply[q]) /\ Same(reply'[q], reply[q])
      BY DEF RepliesHold, Quiet
  <2>2. PICK x : x = reply'[q]
      OBVIOUS
  <2>3. RecordHolds(x)
      BY <2>1, <2>2, SameMeans
  <2>4. RecordHolds(x)'
      BY <2>3, RecordKept DEF Quiet
  <2> QED
      BY <2>2, <2>4 DEF RecordHolds
<1> QED
    BY <1>1 DEF RepliesHold, Quiet

LEMMA QuietLog ==
    ASSUME LogHolds, Quiet, session' = session, log' = log
    PROVE  LogHolds'
    BY DEF LogHolds, Quiet, Same, Enabled

(* A step of the speech keeps them all.                                     *)
LEMMA SpeechKeeps ==
    ASSUME Inv, SpeechEffect
    PROVE  Inv'
<1>1. Quiet /\ session' = session /\ log' = log
    BY DEF SpeechEffect, Quiet, Same, turns, memory, Ids
<1>2. Types' /\ TimersHold' /\ (stop'.end = "persist" => stop.end = "persist")
    BY DEF SpeechEffect
<1>3. RepliesHold' /\ LogHolds' /\ LineInv'
    BY <1>1, <1>2, QuietRecords, QuietLog, QuietLine DEF Inv, LogInv
<1>4. SessionHolds'
    BY DEF SpeechEffect, turns, Inv, LogInv, SessionHolds, Enabled
<1>5. OneOpener'
    BY <1>1, QuietOpeners DEF SpeechEffect, turns, memory, Inv, OneOpener, Awaited, Enabled
<1> QED
    BY <1>2, <1>3, <1>4, <1>5 DEF Inv, LogInv

(* The replies of the model are cancelled.                                  *)
LEMMA CancelEffect ==
    ASSUME Types, CancelReplies
    PROVE  reply' \in Seq(Reply) /\ Len(reply') = Len(reply) /\ Ids' = Ids /\ \A q \in Ids : Same(reply'[q], reply[q])
<1>1. reply \in Seq(Reply) /\ Len(reply) \in Nat /\ Ids = 1..Len(reply)
    BY LenProperties DEF Types, Ids
<1>2. ASSUME NEW x \in Reply, NEW c \in BOOLEAN
      PROVE  [x EXCEPT !.cancelled = c] \in Reply /\ Same([x EXCEPT !.cancelled = c], x)
  <2> HIDE DEF Script, Text, Phrase, Stages
  <2> QED
      BY <1>2 DEF Reply, Same
<1> DEFINE e(q) == [reply[q] EXCEPT !.cancelled = reply[q].kind = "llm" /\ reply[q].at # "done"]
<1>3. \A q \in Ids : e(q) \in Reply /\ Same(e(q), reply[q])
  <2> TAKE q \in Ids
  <2>1. reply[q] \in Reply /\ (reply[q].kind = "llm" /\ reply[q].at # "done") \in BOOLEAN
      BY ReplyAt
  <2> QED
      BY <1>2, <2>1
<1>4. reply' = [q \in 1..Len(reply) |-> e(q)]
    BY <1>1 DEF CancelReplies
<1> HIDE DEF e
<1>5. reply' \in Seq(Reply) /\ \A q \in Ids : reply'[q] = e(q)
    BY <1>1, <1>3, <1>4, IsASeq
<1>6. Len(reply') = Len(reply) /\ Ids' = Ids
  <2>1. DOMAIN reply' = 1..Len(reply) /\ DOMAIN reply' = 1..Len(reply') /\ Len(reply') \in Nat
      BY <1>4, <1>5, LenProperties
  <2> QED
      BY <1>1, <2>1 DEF Ids
<1> QED
    BY <1>3, <1>5, <1>6

LEMMA CancelKeeps ==
    ASSUME Inv, BargedIn \/ EndCancels
    PROVE  Inv'
<1>1. CancelReplies /\ UNCHANGED <<turns, flushing, speech, mic, memory, history>>
    BY DEF BargedIn, EndCancels
<1>2. Types /\ reply' \in Seq(Reply) /\ Len(reply') = Len(reply) /\ Ids' = Ids /\ \A q \in Ids : Same(reply'[q], reply[q])
    BY <1>1, CancelEffect DEF Inv
<1>3. stop' \in Stop /\ (stop'.end = "persist" => stop.end = "persist")
  <2>1. stop \in Stop
      BY <1>2 DEF Types
  <2>2. /\ [stop EXCEPT !.barge = "off"] \in Stop /\ [stop EXCEPT !.end = "gather"] \in Stop
        /\ [stop EXCEPT !.barge = "off"].end = stop.end /\ [stop EXCEPT !.end = "gather"].end = "gather"
      BY <2>1 DEF Stop
  <2> QED
      BY <2>2 DEF BargedIn, EndCancels
<1>4. Types' /\ TimersHold'
    BY <1>1, <1>2, <1>3 DEF Types, Inv, LineInv, TimersHold, turns, flushing, speech, mic, memory, history
<1>5. Line' = Line /\ session' = session /\ log' = log
    BY <1>1 DEF Line, AtWork, speech, turns, memory
<1>6. Quiet
    BY <1>1, <1>2, <1>5, KeepsItself DEF Quiet, history
<1>7. RepliesHold' /\ LogHolds' /\ LineInv'
    BY <1>2, <1>3, <1>4, <1>5, <1>6, QuietRecords, QuietLog, QuietLine DEF Inv, LogInv
<1>8. SessionHolds' /\ OneOpener'
    BY <1>1, <1>6, QuietOpeners DEF turns, memory, Inv, LogInv, SessionHolds, OneOpener, Awaited, Enabled
<1> QED
    BY <1>4, <1>7, <1>8 DEF Inv, LogInv

(* What becomes of the line when no reply is touched.                       *)
LEMMA StillLine ==
    ASSUME LineInv, UNCHANGED <<reply, flushing, speech, crowded, retold>>
    PROVE  LineInv'
<1>1. UNCHANGED <<timer, strays, buffer, queue, worker>> /\ Ids' = Ids
    BY DEF flushing, speech, Ids
<1>2. TimersHold' = TimersHold
    BY <1>1 DEF TimersHold
<1>3. TextHolds' = TextHolds
    BY <1>1 DEF TextHolds, TextOf, StreamHolds
<1>4. LineHolds' = LineHolds
    BY <1>1 DEF LineHolds, Line, AtWork, Known, SaidBy
<1>5. SpokenInOrder' = SpokenInOrder
    BY <1>1 DEF SpokenInOrder, AtWork
<1> QED
    BY <1>2, <1>3, <1>4, <1>5 DEF LineInv

LEMMA OpenersCounted ==
    ASSUME Types
    PROVE  /\ IsFiniteSet(Openers) /\ IsFiniteSet(OpenersDone) /\ OpenersDone \in SUBSET Openers
           /\ Cardinality(Openers) \in Nat /\ Cardinality(OpenersDone) \in Nat
           /\ Cardinality(OpenersDone) <= Cardinality(Openers)
<1>1. Ids = 1..Len(reply) /\ Len(reply) \in Nat
    BY LenProperties DEF Types, Ids
<1>2. IsFiniteSet(Ids)
    BY <1>1, FS_Interval
<1>3. Openers \in SUBSET Ids /\ OpenersDone \in SUBSET Openers
    BY DEF Openers, OpenersDone
<1>4. IsFiniteSet(Openers)
    BY <1>2, <1>3, FS_Subset
<1> QED
    BY <1>3, <1>4, FS_Subset, FS_CardinalityType

(* END_SESSION goes on once the replies of the model are over.              *)
LEMMA GatheredKeeps ==
    ASSUME Inv, Gathered
    PROVE  Inv'
<1>1. /\ \A r \in Ids : reply[r].kind = "llm" => reply[r].at = "done"
      /\ UNCHANGED <<turns, reply, flushing, speech, mic, memory, history>>
      /\ stop' = [stop EXCEPT !.end = "persist"]
    BY DEF Gathered
<1>2. Types'
  <2>1. stop' \in Stop
      BY <1>1 DEF Inv, Types, Stop
  <2> QED
      BY <1>1, <2>1 DEF Inv, Types, turns, flushing, speech, mic, memory, history
<1>3. OneOpener'
    BY <1>1 DEF Inv, OneOpener, Openers, OpenersDone, Awaited, Enabled, Ids, turns, memory
<1>4. RepliesHold'
    BY <1>1 DEF Inv, LogInv, RepliesHold, RecordHolds, Enabled, Ids, turns, history
<1>5. SessionHolds' /\ LogHolds'
    BY <1>1 DEF Inv, LogInv, SessionHolds, LogHolds, Enabled, Ids, turns, memory, history
<1>6. LineInv'
    BY <1>1, StillLine DEF Inv, history
<1> QED
    BY <1>2, <1>3, <1>4, <1>5, <1>6 DEF Inv, LogInv

(* The end of a session: what is left of it is an opener that waits for     *)
(* room.                                                                    *)
LEMMA EndSessionKeeps ==
    ASSUME Inv, ~Moving, EndSession
    PROVE  Inv'
<1>1. /\ stop.end = "persist" /\ stop' = [stop EXCEPT !.end = "off"]
      /\ session' = None /\ audible' = TRUE /\ greeted' = FALSE
      /\ speaking' = FALSE /\ tail' = Forget /\ log' = << >>
      /\ UNCHANGED <<started, reply, flushing, speech, dialogue, history>>
    BY DEF EndSession
<1>2. Types'
  <2>1. stop' \in Stop
      BY <1>1 DEF Inv, Types, Stop
  <2>2. tail' \in [current : BOOLEAN, others : Nat]
    <3>1. tail \in [current : BOOLEAN, others : Nat]
        BY DEF Inv, Types
    <3>2. PICK n \in Nat : n = tail.others + IF tail.current THEN 1 ELSE 0
        BY <3>1
    <3>3. tail' = [tail EXCEPT !.current = FALSE, !.others = n]
        BY <1>1, <3>2 DEF Forget
    <3> QED
        BY <3>1, <3>3
  <2>3. log' \in Seq(Nat)
      BY <1>1
  <2> QED
      BY <1>1, <2>1, <2>2, <2>3 DEF Inv, Types, flushing, speech, history
<1>3. OneOpener'
  <2>1. Openers' = Openers /\ OpenersDone' = OpenersDone
      BY <1>1 DEF Openers, OpenersDone, Ids
  <2>2. Cardinality(Openers) \in Nat
      BY OpenersCounted DEF Inv
  <2>3. Cardinality(Openers) <= started /\ started \in Nat
      BY <2>2 DEF Inv, Types, OneOpener, Awaited
  <2> QED
      BY <1>1, <2>1, <2>2, <2>3 DEF Inv, OneOpener, Awaited, Enabled
<1>4. RepliesHold'
  <2>1. ASSUME NEW r \in Ids PROVE RecordHolds(reply[r])'
    <3>1. RecordHolds(reply[r]) /\ reply[r].at \notin {"restart", "settle", "closing", "finishing"}
        BY DEF Inv, LogInv, RepliesHold, Moving
    <3>2. reply[r].kind = "llm" => reply[r].at = "done"
        BY <1>1, <3>1 DEF RecordHolds
    <3>3. reply[r].kind = "opener" /\ reply[r].at \notin {"waiting", "done"} => crowded
        BY <3>1 DEF RecordHolds, Local
    <3> QED
        BY <1>1, <3>1, <3>2, <3>3 DEF RecordHolds, history
  <2> QED
      BY <1>1, <2>1 DEF RepliesHold, Ids
<1>5. SessionHolds' /\ LogHolds'
  <2>1. DOMAIN log' = {}
      BY <1>1
  <2> QED
      BY <1>1, <2>1 DEF SessionHolds, LogHolds, Enabled
<1>6. LineInv'
    BY <1>1, StillLine DEF Inv, history
<1> QED
    BY <1>2, <1>3, <1>4, <1>5, <1>6 DEF Inv, LogInv

(* A session that begins finds no reply of the model.                       *)
LEMMA StartKeeps ==
    ASSUME Inv, NEW sound \in BOOLEAN, Start(sound)
    PROVE  Inv'
<1>1. /\ ~Enabled /\ started < MaxSessions
      /\ session' = started + 1 /\ started' = started + 1 /\ audible' = sound
      /\ UNCHANGED <<greeted, reply, flushing, speech, mic, stop, memory, history>>
    BY DEF Start
<1>2. started \in Nat /\ session' # None /\ session' \in 1..MaxSessions /\ started' \in 0..MaxSessions
    BY <1>1, NoneAssumption, ReplyAssumption DEF Inv, Types
<1>3. Types'
    BY <1>1, <1>2 DEF Inv, Types, flushing, speech, mic, memory, history
<1>4. OneOpener'
  <2>1. Openers' = Openers /\ OpenersDone' = OpenersDone
      BY <1>1 DEF Openers, OpenersDone, Ids
  <2>2. Cardinality(Openers) + 0 <= started /\ ~greeted
      BY <1>1 DEF Inv, OneOpener, Awaited
  <2>3. Cardinality(Openers) \in Nat
      BY OpenersCounted DEF Inv
  <2> QED
      BY <1>1, <1>2, <2>1, <2>2, <2>3 DEF Inv, OneOpener, Awaited, Enabled, memory
<1>5. RepliesHold'
  <2>1. ASSUME NEW r \in Ids PROVE RecordHolds(reply[r])'
      BY <1>1 DEF Inv, LogInv, RepliesHold, RecordHolds, history
  <2> QED
      BY <1>1, <2>1 DEF RepliesHold, Ids
<1>6. SessionHolds' /\ LogHolds'
    BY <1>1 DEF Inv, LogInv, SessionHolds, LogHolds, Ids, memory, history
<1>7. LineInv'
    BY <1>1, StillLine DEF Inv, history
<1> QED
    BY <1>3, <1>4, <1>5, <1>6, <1>7 DEF Inv, LogInv

(* A reply that begins has said nothing.                                    *)
LEMMA BeginsRecord ==
    ASSUME Types, NEW kind \in {"llm", "local", "opener"}, NEW script \in Script, Begins(kind, script),
           NEW n, n = Len(reply) + 1
    PROVE  /\ n \notin Ids /\ Ids' = Ids \union {n} /\ \A q \in Ids : reply'[q] = reply[q]
           /\ reply'[n].kind = kind /\ reply'[n].session = session
           /\ reply'[n].at = (IF kind = "llm" THEN "thinking" ELSE "waiting")
           /\ RecordHolds(reply[n])' /\ TextOf(n, reply'[n])
<1>1. PICK x \in Reply : x = New(kind, script)
    BY NewReply DEF Begins
<1>2. /\ n \notin Ids /\ Ids' = Ids \union {n} /\ reply'[n] = x /\ \A q \in Ids : reply'[q] = reply[q]
      /\ n \in 1..MaxReplies
    BY <1>1, ReplyAppended DEF Begins
<1>3. /\ x.kind = kind /\ x.script = script /\ x.session = session
      /\ x.at = (IF kind = "llm" THEN "thinking" ELSE "waiting") /\ x.then = "done"
      /\ x.heard = 0 /\ x.raw = << >> /\ x.said = << >> /\ x.answer = << >>
    BY <1>1, NewReply DEF Begins
<1>4. Len(script.chunks) \in Nat
    BY <1>1, <1>3, ScriptFacts
<1>5. RecordHolds(x)'
  <2>1. Enabled /\ Enabled' /\ session' = session /\ stop' = stop
      BY DEF Begins, Enabled
  <2>2. kind = "llm" => stop.end # "persist"
      BY DEF Begins
  <2>3. kind # "llm" => Len(script.chunks) = 1
      BY DEF Begins
  <2> QED
      BY <1>3, <1>4, <2>1, <2>2, <2>3 DEF RecordHolds, Told, Local
<1>6. TextOf(n, x)
  <2>1. CASE kind = "llm"
    <3>1. script \in Scripts[n]
        BY <2>1 DEF Begins
    <3>2. DOMAIN << >> = {}
        OBVIOUS
    <3> QED
        BY <1>3, <2>1, <3>1, <3>2 DEF TextOf, StreamHolds, Ascends, Streaming
  <2>2. CASE kind # "llm"
      BY <1>3, <2>2 DEF TextOf, Streaming, Begins
  <2> QED
      BY <2>1, <2>2
<1> QED
    BY <1>2, <1>3, <1>5, <1>6 DEF RecordHolds

LEMMA BeginsLine ==
    ASSUME Inv, NEW kind \in {"llm", "local", "opener"}, NEW script \in Script, Begins(kind, script)
    PROVE  LineInv'
<1>1. PICK n : n = Len(reply) + 1
    OBVIOUS
<1>2. /\ n \notin Ids /\ Ids' = Ids \union {n} /\ (\A q \in Ids : reply'[q] = reply[q])
      /\ TextOf(n, reply'[n])
    BY <1>1, BeginsRecord DEF Inv
<1>3. UNCHANGED <<timer, strays, buffer, queue, worker, crowded, retold>>
    BY DEF Begins, flushing, speech, history
<1>4. Line' = Line
    BY <1>3 DEF Line, AtWork
<1>5. TimersHold'
    BY <1>3 DEF Inv, LineInv, TimersHold
<1>6. SUFFICES ASSUME ~crowded PROVE TextHolds' /\ LineHolds' /\ SpokenInOrder'
    BY <1>3, <1>5 DEF LineInv
<1>7. TextHolds /\ LineHolds /\ SpokenInOrder
    BY <1>6 DEF Inv, LineInv
<1>8. TextHolds'
  <2> SUFFICES ASSUME NEW q \in Ids' PROVE TextOf(q, reply'[q])
      BY DEF TextHolds, TextOf, StreamHolds
  <2> QED
      BY <1>2, <1>7 DEF TextHolds
<1>9. \A w : Known(w) => Known(w)'
    BY <1>2, <1>3 DEF Known, SaidBy
<1>10. LineHolds'
    BY <1>4, <1>7, <1>9 DEF LineHolds
<1>11. SpokenInOrder'
  <2> SUFFICES ASSUME NEW r \in Ids', r \notin retold PROVE InOrder(Line, r)
      BY <1>3, <1>4 DEF SpokenInOrder, Line
  <2>1. CASE r \in Ids
      BY <1>6, <1>7, <2>1 DEF SpokenInOrder, Line
  <2>2. CASE r = n
    <3>1. \A k \in DOMAIN Line : \A i \in DOMAIN Line[k] : Line[k][i][1] # n
        BY <1>2, <1>7 DEF LineHolds, Known
    <3> QED
        BY <2>2, <3>1, OrderMeans DEF Word
  <2> QED
      BY <1>2, <2>1, <2>2
<1> QED
    BY <1>8, <1>10, <1>11

LEMMA BeginsKeeps ==
    ASSUME Inv, NEW kind \in {"llm", "local", "opener"}, NEW script \in Script, Begins(kind, script)
    PROVE  Inv'
<1>1. PICK n : n = Len(reply) + 1
    OBVIOUS
<1>2. /\ n \notin Ids /\ Ids' = Ids \union {n} /\ (\A q \in Ids : reply'[q] = reply[q])
      /\ reply'[n].kind = kind /\ reply'[n].at # "done" /\ RecordHolds(reply[n])'
    BY <1>1, BeginsRecord DEF Inv
<1>3. /\ Enabled /\ UNCHANGED <<session, started, stop, log, dialogue, crowded, retold>>
      /\ greeted' = (greeted \/ kind = "opener") /\ (kind = "opener" => ~greeted)
    BY DEF Begins, memory, history
<1>4. Types' /\ LineInv'
    BY BeginsTypes, BeginsLine DEF Inv
<1>5. RepliesHold'
  <2>1. ASSUME NEW q \in Ids PROVE RecordHolds(reply[q])'
      BY <1>2, <1>3 DEF Inv, LogInv, RepliesHold, RecordHolds, Enabled
  <2> QED
      BY <1>2, <2>1 DEF RepliesHold
<1>6. SessionHolds' /\ LogHolds'
    BY <1>2, <1>3 DEF Inv, LogInv, SessionHolds, LogHolds, Enabled
<1>7. OneOpener'
  <2>1. /\ IsFiniteSet(Openers) /\ Cardinality(Openers) \in Nat
      BY OpenersCounted DEF Inv
  <2>2. OpenersDone' = OpenersDone
      BY <1>2 DEF OpenersDone, Openers
  <2>3. CASE kind = "opener"
    <3>1. Openers' = Openers \union {n} /\ n \notin Openers
        BY <1>2, <2>3 DEF Openers
    <3>2. Cardinality(Openers') = Cardinality(Openers) + 1
        BY <2>1, <3>1, FS_AddElement
    <3>3. Awaited = 1 /\ Awaited' = 0 /\ Enabled'
        BY <1>3, <2>3 DEF Awaited, Enabled
    <3> QED
        BY <1>3, <2>1, <2>2, <3>2, <3>3 DEF Inv, OneOpener
  <2>4. CASE kind # "opener"
    <3>1. Openers' = Openers
        BY <1>2, <2>4 DEF Openers
    <3>2. Awaited' = Awaited /\ greeted' = greeted /\ Enabled'
        BY <1>3, <2>4 DEF Awaited, Enabled, Inv, Types
    <3> QED
        BY <1>3, <2>2, <3>1, <3>2 DEF Inv, OneOpener
  <2> QED
      BY <2>3, <2>4
<1> QED
    BY <1>4, <1>5, <1>6, <1>7 DEF Inv, LogInv

(* The timers after a step of a reply.                                      *)
LEMMA ReplyTimers ==
    ASSUME Types, TimersHold, NEW r \in Ids, ReplyStep(r) \/ Goes(r), crowded => crowded'
    PROVE  TimersHold'
<1>0. timer \in Timer /\ strays \in Seq(Timer)
    BY DEF Types
<1>1. CASE Restart(r) \/ Settle(r)
  <2>1. strays' = strays /\ (timer' = timer \/ timer'.at # "putting")
      BY <1>1 DEF Restart, Settle
  <2> QED
      BY <2>1 DEF TimersHold
<1>2. CASE Restarted(r) \/ Settled(r)
  <2>1. timer'.at # "putting" /\ (strays' = strays \/ strays' = Append(strays, timer))
      BY <1>2 DEF Restarted, Settled, SetTimer
  <2>2. CASE strays' = Append(strays, timer)
    <3>1. /\ Len(strays) \in Nat /\ DOMAIN strays = 1..Len(strays)
          /\ DOMAIN Append(strays, timer) = 1..(Len(strays) + 1)
          /\ \A i \in 1..Len(strays) : Append(strays, timer)[i] = strays[i]
          /\ Append(strays, timer)[Len(strays) + 1] = timer
        BY <1>0, AppendProperties, LenProperties
    <3>2. \A i \in DOMAIN strays' : i \in DOMAIN strays \/ i = Len(strays) + 1
        BY <2>2, <3>1
    <3> QED
        BY <2>1, <2>2, <3>1, <3>2 DEF TimersHold
  <2> QED
      BY <2>1, <2>2 DEF TimersHold
<1>3. CASE ~(Restart(r) \/ Settle(r) \/ Restarted(r) \/ Settled(r))
  <2>1. UNCHANGED flushing
      BY <1>3 DEF ReplyStep, Goes, TellWhole, Streams, Fails, Put, Concludes, Cancelled, CloseText, Finish
  <2> QED
      BY <2>1 DEF TimersHold, flushing
<1> QED
    BY <1>1, <1>2, <1>3

(* The line after a step of a reply.                                        *)
LEMMA MovedLine ==
    ASSUME Inv, NEW r \in Ids, NEW x \in Reply, NEW text \in Text, Moved(r, x, text),
           TimersHold', worker' = worker
    PROVE  LineInv'
<1>1. SUFFICES ASSUME ~crowded' PROVE TextHolds' /\ LineHolds' /\ SpokenInOrder'
    BY DEF LineInv
<1>2. Types /\ ~crowded /\ TextHolds /\ LineHolds /\ SpokenInOrder
    BY <1>1 DEF Inv, LineInv, Moved
<1>3. Ids' = Ids /\ reply'[r] = x /\ \A q \in Ids : q # r => reply'[q] = reply[q]
    BY <1>2, ReplySet DEF Moved
<1>4. TextOf(r, reply[r])
    BY <1>2 DEF TextHolds
<1>5. TextOf(r, x) /\ (r \notin retold' => GoesOn(reply[r], text, x)) /\ retold \subseteq retold' /\ Joins(r, text)
    BY <1>1, <1>4 DEF Moved
<1>6. TextHolds'
  <2> SUFFICES ASSUME NEW q \in Ids PROVE TextOf(q, reply'[q])
      BY <1>3 DEF TextHolds, TextOf, StreamHolds
  <2> QED
      BY <1>2, <1>3, <1>5 DEF TextHolds
<1>7. ASSUME NEW w \in KnownWords PROVE Known(w)'
  <2>1. Known(w) /\ w \in Nat \X Nat /\ w[2] \in Nat
      BY DEF KnownWords
  <2>2. CASE w[1] = r
      BY <1>3, <1>5, <2>1, <2>2 DEF Known, GoesOn, SaidBy
  <2>3. CASE w[1] # r
      BY <1>3, <1>5, <2>1, <2>3 DEF Known, SaidBy
  <2> QED
      BY <2>2, <2>3
<1> DEFINE W == {w \in Nat \X Nat : Known(w)'}
<1>8. KnownWords \in SUBSET W
    BY <1>7 DEF KnownWords
<1>9. \A j \in DOMAIN text : <<r, text[j]>> \in W
  <2> TAKE j \in DOMAIN text
  <2>1. r \in Nat /\ text[j] \in Nat
      BY <1>2, ReplyAt, LenProperties, ElementOfSeq DEF Text
  <2>2. r \notin retold' /\ Spoken(text[j]) => SaidBy(x, text[j])
      BY <1>5 DEF GoesOn
  <2>3. Known(<<r, text[j]>>)'
      BY <1>3, <2>2 DEF Known, SaidBy
  <2> QED
      BY <2>1, <2>3
<1> HIDE DEF W
<1>10. AllIn(Line, KnownWords) /\ \A q \in Ids \ retold : InOrder(Line, q)
    BY <1>2, LineMeans
<1>11. /\ AtWork \in Seq(Phrase) /\ queue \in Seq(Phrase) /\ buffer \in Phrase
       /\ Line = LineOf(AtWork, queue, buffer)
    BY <1>2, WorkTyped
<1>12. Line' = LineOf(AtWork, queue', buffer')
    BY DEF Line, LineOf, AtWork
<1>13. AllIn(Line, W)
    BY <1>8, <1>10 DEF AllIn
<1>14. AllIn(Line', W) /\ \A q \in Ids \ retold' : InOrder(Line', q)
  <2>1. CASE UNCHANGED <<buffer, queue>>
      BY <1>5, <1>10, <1>11, <1>12, <1>13, <2>1
  <2>2. CASE ~UNCHANGED <<buffer, queue>>
    <3>1. PICK P \in Seq(Phrase) : queue' = queue \o P /\ Cut(Append(P, buffer'), buffer \o Mine(r, text))
        BY <1>5, <2>2 DEF Joins
    <3>2. r \in Nat /\ buffer' \in Phrase
        BY <1>2, ReplyAt DEF Moved, SpeechTypes
    <3>3. /\ \A q : q # r /\ InOrder(Line, q) => InOrder(LineOf(AtWork, queue \o P, buffer'), q)
          /\ \A U : /\ InOrder(Line, r) /\ Ascends(text) /\ AllIn(Line, U)
                    /\ \A u \in U, j \in DOMAIN text : Word(u, r) /\ Spoken(text[j]) => u[2] < text[j]
                    => InOrder(LineOf(AtWork, queue \o P, buffer'), r)
          /\ \A V : AllIn(Line, V) /\ (\A j \in DOMAIN text : <<r, text[j]>> \in V)
                    => AllIn(LineOf(AtWork, queue \o P, buffer'), V)
        BY <1>11, <3>1, <3>2, FeedKeeps
    <3>4. Line' = LineOf(AtWork, queue \o P, buffer')
        BY <1>12, <3>1
    <3>5. AllIn(Line', W)
        BY <1>9, <1>13, <3>3, <3>4
    <3>6. ASSUME r \notin retold' PROVE InOrder(Line', r)
      <4>1. GoesOn(reply[r], text, x) /\ r \notin retold
          BY <1>5, <3>6
      <4>2. ASSUME NEW u \in KnownWords, NEW j \in DOMAIN text, Word(u, r), Spoken(text[j])
            PROVE  u[2] < text[j]
        <5>1. u[2] \in Nat /\ Known(u) /\ u[1] = r /\ Spoken(u[2])
            BY <4>2 DEF KnownWords, Word
        <5>2. SaidBy(reply[r], u[2])
            BY <4>1, <5>1 DEF Known
        <5> QED
            BY <4>1, <4>2, <5>1, <5>2 DEF GoesOn
      <4>3. InOrder(Line, r) /\ Ascends(text)
          BY <1>10, <4>1 DEF GoesOn
      <4> QED
          BY <1>10, <3>3, <3>4, <4>2, <4>3
    <3>7. \A q \in Ids \ retold' : q # r => InOrder(Line', q)
        BY <1>5, <1>10, <3>3, <3>4
    <3> QED
        BY <3>5, <3>6, <3>7
  <2> QED
      BY <2>1, <2>2
<1>15. LineHolds'
    BY <1>14 DEF LineHolds, AllIn, W
<1>16. SpokenInOrder'
    BY <1>3, <1>14 DEF SpokenInOrder, Line
<1> QED
    BY <1>6, <1>15, <1>16

(* The log and the history after a reply that is told to its end.           *)
LEMMA FinishKeeps ==
    ASSUME Inv, NEW r \in Ids, Finish(r)
    PROVE  LogHolds' /\ OneOpener'
<1>1. /\ reply[r].at = "finishing" /\ reply' = [reply EXCEPT ![r] = Over(@)]
      /\ log' = (IF reply[r].kind = "local" THEN log ELSE Append(log, r))
      /\ dialogue' =
            IF reply[r].kind = "llm"
            THEN LastOf(dialogue \o <<Turn("learner", r), Turn("tutor", r)>>, KeepTurns)
            ELSE IF reply[r].kind = "opener" THEN Append(dialogue, Turn("tutor", r)) ELSE dialogue
      /\ UNCHANGED <<session, started, greeted, stop, crowded>>
    BY DEF Finish, Done, turns, history
<1>2. /\ Types /\ r \in Nat /\ reply[r] \in Reply /\ log \in Seq(Nat) /\ dialogue \in Seq(TurnType)
      /\ RecordHolds(reply[r])
    BY ReplyAt DEF Inv, Types, TurnType, LogInv, RepliesHold
<1>3. PICK x \in Reply : x = Over(reply[r]) /\ x.at = "done" /\ x.kind = reply[r].kind /\ x.session = reply[r].session
    BY <1>2, OverIsReply
<1>4. Ids' = Ids /\ reply'[r] = x /\ \A q \in Ids : q # r => reply'[q] = reply[q]
    BY <1>1, <1>2, <1>3, ReplySet
<1>5. \A q \in Ids : reply'[q].kind = reply[q].kind /\ reply'[q].session = reply[q].session
    BY <1>3, <1>4
<1>6. LogHolds'
  <2>1. /\ DOMAIN log = 1..Len(log) /\ Len(log) \in Nat
        /\ DOMAIN Append(log, r) = 1..(Len(log) + 1)
        /\ \A i \in 1..Len(log) : Append(log, r)[i] = log[i]
        /\ Append(log, r)[Len(log) + 1] = r
      BY <1>2, AppendProperties, LenProperties
  <2>2. ASSUME NEW i \in DOMAIN log PROVE (log[i] \in Ids /\
            ((Enabled /\ reply[log[i]].session = session) \/ (crowded /\ reply[log[i]].kind = "opener")))
      BY DEF Inv, LogInv, LogHolds
  <2>3. reply[r].kind # "local" =>
            (Enabled /\ reply[r].session = session) \/ (crowded /\ reply[r].kind = "opener")
      BY <1>1, <1>2, ReplyFields DEF RecordHolds
  <2>4. Enabled' = Enabled
      BY <1>1 DEF Enabled
  <2>5. ASSUME NEW i \in DOMAIN log'
        PROVE  log'[i] \in Ids /\
            ((Enabled /\ reply[log'[i]].session = session) \/ (crowded /\ reply[log'[i]].kind = "opener"))
    <3>1. CASE reply[r].kind = "local"
        BY <1>1, <2>2, <3>1
    <3>2. CASE reply[r].kind # "local"
      <4>1. log' = Append(log, r)
          BY <1>1, <3>2
      <4>2. i \in DOMAIN log \/ i = Len(log) + 1
          BY <2>1, <4>1
      <4>3. CASE i \in DOMAIN log
          BY <2>1, <2>2, <4>1, <4>3
      <4>4. CASE i = Len(log) + 1
          BY <2>1, <2>3, <3>2, <4>1, <4>4
      <4> QED
          BY <4>2, <4>3, <4>4
    <3> QED
        BY <3>1, <3>2
  <2> QED
      BY <1>1, <1>4, <1>5, <2>4, <2>5 DEF LogHolds
<1>7. OneOpener'
  <2>1. Openers' = Openers
      BY <1>4, <1>5 DEF Openers
  <2>2. OpenersDone' = IF reply[r].kind = "opener" THEN OpenersDone \union {r} ELSE OpenersDone
      BY <1>3, <1>4, <1>5, <2>1 DEF OpenersDone, Openers
  <2>3. r \notin OpenersDone /\ IsFiniteSet(OpenersDone) /\ Cardinality(OpenersDone) \in Nat /\ KeepTurns \in Nat
      BY <1>1, <1>2, OpenersCounted, ReplyAssumption DEF OpenersDone
  <2>4. Len(dialogue) <= KeepTurns + Cardinality(OpenersDone) /\ Len(dialogue) \in Nat
      BY <1>2, LenProperties DEF Inv, OneOpener
  <2>5. Len(dialogue') <= KeepTurns + Cardinality(OpenersDone')
    <3>1. <<Turn("learner", r), Turn("tutor", r)>> \in Seq(TurnType) /\ Turn("tutor", r) \in TurnType
        BY <1>2, TurnIsTyped
    <3>2. CASE reply[r].kind = "llm"
      <4>1. dialogue \o <<Turn("learner", r), Turn("tutor", r)>> \in Seq(TurnType)
          BY <1>2, <3>1, ConcatProperties
      <4>2. /\ LastOf(dialogue \o <<Turn("learner", r), Turn("tutor", r)>>, KeepTurns) \in Seq(TurnType)
            /\ Len(LastOf(dialogue \o <<Turn("learner", r), Turn("tutor", r)>>, KeepTurns)) <= KeepTurns
          BY <2>3, <4>1, LastOfKeeps
      <4>3. Len(dialogue') <= KeepTurns /\ Len(dialogue') \in Nat
          BY <1>1, <3>2, <4>2, LenProperties
      <4> QED
          BY <2>2, <2>3, <3>2, <4>3
    <3>3. CASE reply[r].kind = "opener"
      <4>1. Len(dialogue') = Len(dialogue) + 1
          BY <1>1, <1>2, <3>1, <3>3, AppendProperties
      <4>2. Cardinality(OpenersDone') = Cardinality(OpenersDone) + 1
          BY <2>2, <2>3, <3>3, FS_AddElement
      <4> QED
          BY <2>3, <2>4, <4>1, <4>2
    <3>4. CASE reply[r].kind = "local"
        BY <1>1, <2>2, <2>4, <3>4
    <3> QED
        BY <1>2, <3>2, <3>3, <3>4, ReplyFields
  <2> QED
      BY <1>1, <2>1, <2>5 DEF Inv, OneOpener, Awaited, Enabled
<1> QED
    BY <1>6, <1>7

(* Every step of a reply keeps the invariants.                              *)
LEMMA ReplyStepKeeps ==
    ASSUME Inv, NEW r \in Ids, ReplyStep(r) \/ Goes(r)
    PROVE  Inv'
<1>1. Types /\ RepliesHold /\ TimersHold
    BY DEF Inv, LogInv, LineInv
<1>2. PICK x \in Reply, text \in Text : Moved(r, x, text)
    BY <1>1, ReplyStepMoves DEF Moves
<1>3. /\ reply' = [reply EXCEPT ![r] = x] /\ (crowded => crowded') /\ RecordHolds(x)'
      /\ x.kind = reply[r].kind /\ x.session = reply[r].session /\ reply[r].at # "done"
    BY <1>2 DEF Moved
<1>4. Ids' = Ids /\ reply'[r] = x /\ \A q \in Ids : q # r => reply'[q] = reply[q]
    BY <1>1, <1>3, ReplySet
<1>5. UNCHANGED <<session, started, greeted, worker, stop>> /\ (UNCHANGED <<log, dialogue>> \/ Finish(r))
    BY <1>1, ReplyStepFrame DEF turns, memory
<1>6. Types' /\ TimersHold'
    BY <1>1, <1>3, ReplyStepTypes, ReplyTimers
<1>7. LineInv'
    BY <1>2, <1>5, <1>6, MovedLine
<1>8. RepliesHold'
  <2>1. ASSUME NEW q \in Ids, q # r PROVE RecordHolds(reply[q])'
    <3>1. PICK y : y = reply[q]
        OBVIOUS
    <3>2. RecordHolds(y)'
        BY <1>1, <1>3, <1>5, <3>1, RecordKept DEF RepliesHold
    <3> QED
        BY <1>4, <2>1, <3>1, <3>2 DEF RecordHolds
  <2>2. RecordHolds(reply[r])'
      BY <1>3, <1>4 DEF RecordHolds
  <2> QED
      BY <1>4, <2>1, <2>2 DEF RepliesHold
<1>9. SessionHolds'
    BY <1>5 DEF Inv, LogInv, SessionHolds, Enabled
<1>10. LogHolds' /\ OneOpener'
  <2>1. CASE Finish(r)
      BY <2>1, FinishKeeps
  <2>2. CASE UNCHANGED <<log, dialogue>>
    <3>1. \A q \in Ids : reply'[q].kind = reply[q].kind /\ reply'[q].session = reply[q].session
        BY <1>3, <1>4
    <3>2. LogHolds'
        BY <1>3, <1>4, <1>5, <2>2, <3>1 DEF Inv, LogInv, LogHolds, Enabled
    <3>3. Openers' = Openers /\ OpenersDone \in SUBSET OpenersDone'
        BY <1>3, <1>4, <3>1 DEF Openers, OpenersDone
    <3>4. Cardinality(OpenersDone) <= Cardinality(OpenersDone') /\ Cardinality(OpenersDone) \in Nat
          /\ Cardinality(OpenersDone') \in Nat
      <4>1. IsFiniteSet(OpenersDone') /\ IsFiniteSet(OpenersDone)
        <5>1. OpenersDone' \in SUBSET Openers /\ IsFiniteSet(Openers) /\ IsFiniteSet(OpenersDone)
            BY <1>1, <3>3, OpenersCounted DEF OpenersDone
        <5> QED
            BY <5>1, FS_Subset
      <4> QED
          BY <3>3, <4>1, FS_Subset, FS_CardinalityType
    <3>5. Len(dialogue) \in Nat /\ KeepTurns \in Nat
        BY <1>1, LenProperties, ReplyAssumption DEF Types
    <3> QED
        BY <1>5, <2>2, <3>2, <3>3, <3>4, <3>5 DEF Inv, OneOpener, Awaited, Enabled
  <2> QED
      BY <1>5, <2>1, <2>2
<1> QED
    BY <1>6, <1>7, <1>8, <1>9, <1>10 DEF Inv, LogInv

LEMMA InitInv ==
    ASSUME Init
    PROVE  Inv
<1>1. reply = << >> /\ strays = << >> /\ buffer = << >> /\ queue = << >> /\ log = << >> /\ dialogue = << >>
    BY DEF Init
<1>2. DOMAIN << >> = {} /\ Ids = {} /\ Len(<< >>) = 0
    BY <1>1 DEF Ids
<1>3. Types
  <2>1. /\ reply \in Seq(Reply) /\ strays \in Seq(Timer) /\ log \in Seq(Nat)
        /\ dialogue \in Seq([speaker : {"learner", "tutor"}, reply : Nat])
        /\ buffer \in Phrase /\ queue \in Seq(Phrase)
      BY <1>1, NoText
  <2>2. Len(reply) <= MaxReplies /\ Len(buffer) < PhraseWords /\ Len(queue) <= PhraseRoom
      BY <1>1, <1>2, ReplyAssumption
  <2>3. timer \in Timer /\ worker \in Worker
      BY TimerFacts, WorkerFacts DEF Init
  <2>4. tail \in [current : BOOLEAN, others : Nat] /\ stop \in Stop
      BY DEF Init, Stop
  <2>5. session \in {None} \union (1..MaxSessions) /\ started \in 0..MaxSessions
      BY ReplyAssumption DEF Init
  <2>6. audible \in BOOLEAN /\ greeted \in BOOLEAN /\ speaking \in BOOLEAN /\ crowded \in BOOLEAN
      BY DEF Init
  <2> QED
      BY <2>1, <2>2, <2>3, <2>4, <2>5, <2>6 DEF Types
<1>4. OneOpener
  <2>1. Openers = {} /\ OpenersDone = {}
      BY <1>2 DEF Openers, OpenersDone
  <2>2. Cardinality({}) = 0
      BY FS_EmptySet
  <2> QED
      BY <1>1, <1>2, <2>1, <2>2, ReplyAssumption DEF Init, OneOpener, Awaited, Enabled
<1>5. LogInv
    BY <1>1, <1>2 DEF Init, LogInv, RepliesHold, SessionHolds, LogHolds, Enabled
<1>6. LineInv
  <2>1. AtWork = << >>
      BY DEF Init, AtWork
  <2>2. Line = LineOf(<< >>, << >>, << >>)
      BY <1>1, <2>1 DEF Line, LineOf
  <2>3. AllIn(<< >>, KnownWords) /\ AllIn(<< << >> >>, KnownWords)
      BY NoPhrase
  <2>4. AllIn(Line, KnownWords)
      BY <2>2, <2>3, NoText, LineParts
  <2>5. LineHolds
      BY <1>3, <2>4, LineMeans
  <2>6. TextHolds /\ SpokenInOrder
      BY <1>2 DEF TextHolds, SpokenInOrder
  <2>7. TimersHold
      BY <1>1, <1>2 DEF Init, TimersHold
  <2> QED
      BY <2>5, <2>6, <2>7 DEF LineInv
<1> QED
    BY <1>3, <1>4, <1>5, <1>6 DEF Inv

LEMMA NextInv ==
    ASSUME Inv, [Next]_vars
    PROVE  Inv'
<1>0. Types /\ TimersHold /\ stop \in Stop
    BY DEF Inv, LineInv, Types
<1>1. DOMAIN stop = {"barge", "end"}
    BY <1>0 DEF Stop
<1>2. ASSUME NEW r \in Ids, Goes(r) \/ ReplyStep(r) PROVE Inv'
    BY <1>2, ReplyStepKeeps
<1>3. CASE BargedIn \/ EndCancels
    BY <1>3, CancelKeeps
<1>4. ASSUME NEW sound \in BOOLEAN, Start(sound) PROVE Inv'
    BY <1>4, StartKeeps
<1>5. CASE Greet \/ Answer \/ AnswerLocally
    BY <1>0, <1>5, BeginsMeans, BeginsKeeps
<1>6. CASE SpeechStep \/ Release
  <2>1. SpeechEffect
      BY <1>0, <1>6, TimerSteps, WorkerSteps DEF SpeechStep
  <2> QED
      BY <2>1, SpeechKeeps
<1>7. ASSUME NEW k \in DOMAIN stop, BeginStop(k) \/ Silent(k) PROVE Inv'
  <2>1. SpeechEffect
      BY <1>0, <1>1, <1>7, StopSteps
  <2> QED
      BY <2>1, SpeechKeeps
<1>8. CASE Gathered
    BY <1>8, GatheredKeeps
<1>9. CASE ~Moving /\ EndSession
    BY <1>9, EndSessionKeeps
<1>10. CASE UNCHANGED vars
  <2>1. SpeechEffect
    <3>1. UNCHANGED <<turns, reply, flushing, speech, mic, stop, memory, history>>
        BY <1>10 DEF vars
    <3>2. Types' /\ TimersHold' /\ Line' = Line
        BY <1>0, <3>1 DEF Types, TimersHold, Line, AtWork, turns, flushing, speech, mic, memory, history
    <3> QED
        BY <3>1, <3>2, KeepsItself DEF SpeechEffect, history
  <2> QED
      BY <2>1, SpeechKeeps
<1>11. CASE GoOn
    BY <1>2, <1>3, <1>11 DEF GoOn
<1>12. CASE ~Moving /\ Wake
    BY <1>1, <1>2, <1>4, <1>5, <1>6, <1>7, <1>8, <1>9, <1>12 DEF Wake, EndStep
<1> QED
    BY <1>10, <1>11, <1>12 DEF Next

LEMMA AlwaysInv == Spec => []Inv
<1>1. Init => Inv
    BY InitInv
<1>2. Inv /\ [Next]_vars => Inv'
    BY NextInv
<1> QED
    BY <1>1, <1>2, PTL DEF Spec

(* Every variable of a session's tutor has its type; the phrase queue never *)
(* holds more than its room (the worker and every producer share it), the   *)
(* buffer never a phrase's length after a feed, and the dialogue history,   *)
(* which openers extend without a cut (luve_extension.py), never more than  *)
(* its limit and one turn for each session.                                 *)
THEOREM RepliesTyped == Spec => []ReplyTypeOK
<1>1. Inv => ReplyTypeOK
  <2> SUFFICES ASSUME Inv PROVE ReplyTypeOK
      OBVIOUS
  <2>1. Types /\ OneOpener
      BY DEF Inv
  <2>2. timer.at \in {"off", "armed", "putting", "cancelled"}
      BY <2>1, TimerFacts DEF Types
  <2>3. worker.at \in {"idle", "synthesising", "ready", "stopping"}
      BY <2>1, WorkerFacts DEF Types
  <2>4. \A k \in DOMAIN stop : stop[k] \in {"off", "synthesis", "cancel", "gather", "persist"}
      BY <2>1 DEF Types, Stop
  <2>5. Len(dialogue) <= KeepTurns + MaxSessions
    <3>1. Cardinality(OpenersDone) <= Cardinality(Openers) /\ Cardinality(Openers) \in Nat /\ Cardinality(OpenersDone) \in Nat
        BY <2>1, OpenersCounted
    <3>2. Cardinality(Openers) <= started /\ started \in 0..MaxSessions
        BY <2>1, <3>1 DEF Types, OneOpener, Awaited
    <3>3. Len(dialogue) \in Nat /\ KeepTurns \in Nat /\ MaxSessions \in Nat
        BY <2>1, LenProperties, ReplyAssumption DEF Types
    <3> QED
        BY <2>1, <3>1, <3>2, <3>3 DEF OneOpener
  <2> QED
      BY <2>1, <2>2, <2>3, <2>4, <2>5 DEF Types, ReplyTypeOK
<1> QED
    BY <1>1, AlwaysInv, PTL

(* END_SESSION waits for every reply of the model, also for one whose       *)
(* cancellation was swallowed by the wait for a timer: none of them is      *)
(* logged in another session than the one it was asked in.                  *)
THEOREM LoggedWhereAskedAlways == Spec => []LoggedWhereAsked
<1>1. Inv => LoggedWhereAsked
    BY DEF Inv, LogInv, LogHolds, LoggedWhereAsked
<1> QED
    BY <1>1, AlwaysInv, PTL

(* As long as nothing had to wait for room in the queue, the words of every *)
(* reply whose streamed text was never taken back wait in the order of its  *)
(* answer and none of them twice, for every script the model may stream.    *)
THEOREM SpokenInOrderAlways == Spec => []SpokenInOrder
<1>1. Inv => SpokenInOrder
    BY DEF Inv, LineInv, SpokenInOrder
<1> QED
    BY <1>1, AlwaysInv, PTL

================================================================================
