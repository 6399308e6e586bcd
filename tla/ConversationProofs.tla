------------------------- MODULE ConversationProofs -------------------------
(***************************************************************************)
(* Proofs about ChatStream and DiagnoseLoop, for any limits, windows,      *)
(* numbers of rounds and calls, and sizes of results.                      *)
(*                                                                         *)
(* The cuts of trimHistory and CompactMessages come before a message that  *)
(* answers no call, so what is left is Whole when the history was; and a   *)
(* turn that has dropped nothing still has before it the history it began  *)
(* with, which is what a rollback needs.  A diagnosis keeps an estimate of *)
(* what it has said, which is never below what the messages weigh.         *)
(*                                                                         *)
(* What Bedrock is sent is laid out by induction on the history: each turn *)
(* holds a stretch of it, and where the history is whole the stretches end *)
(* at its calls and begin with their answers.                              *)
(***************************************************************************)
EXTENDS ChatStream, DiagnoseLoop, SequenceLemmas

(***************************************************************************)
(* The history of a chat.                                                  *)
(***************************************************************************)
Messages ==
    [role : {"system", "user", "text", "stale", "call", "tool"}, calls : Nat, tokens : Nat]

\* The messages of a chat.
LEMMA MessageTypes ==
  /\ {System, User, Text, Stale} \subseteq Messages
  /\ \A n \in 1..MaxCalls : Call(n) \in Messages
  /\ Result \subseteq Messages
BY ChatAssumption DEF Messages, Message, System, User, Text, Stale, Call, Result

\* A message before others.
LEMMA Prepended ==
  ASSUME NEW S, NEW a \in S, NEW t \in Seq(S)
  PROVE  /\ <<a>> \o t \in Seq(S) /\ Len(<<a>> \o t) = Len(t) + 1 /\ (<<a>> \o t)[1] = a
         /\ \A j \in 1..Len(t) : (<<a>> \o t)[j + 1] = t[j]
<1>1. <<a>> \in Seq(S) /\ Len(<<a>>) = 1 /\ <<a>>[1] = a
  OBVIOUS
<1>2. Len(t) \in Nat
  BY LenProperties
<1>3. /\ <<a>> \o t \in Seq(S) /\ Len(<<a>> \o t) = 1 + Len(t)
      /\ \A j \in 1..(1 + Len(t)) :
            (<<a>> \o t)[j] = IF j <= 1 THEN <<a>>[j] ELSE t[j - 1]
  BY <1>1, ConcatProperties
<1>. QED BY <1>1, <1>2, <1>3

\* The first message and those from the i-th on.
Cut(ms, i) == <<ms[1]>> \o From(ms, i)

\* Where the messages go when those from the second to the one before i are cut (compact.go:43-45).
LEMMA CutShifts ==
  ASSUME NEW ms \in Seq(Messages), NEW i \in 2..Len(ms)
  PROVE  /\ Cut(ms, i) \in Seq(Messages) /\ Len(Cut(ms, i)) = Len(ms) - i + 2
         /\ Cut(ms, i)[1] = ms[1]
         /\ \A j \in 2..(Len(ms) - i + 2) : Cut(ms, i)[j] = ms[i + j - 2]
         /\ From(ms, i) \in Seq(Messages)
<1>1. Len(ms) \in Nat /\ i \in Nat
  BY LenProperties
<1>2. \A j \in i..Len(ms) : ms[j] \in Messages
  BY <1>1, ElementOfSeq
<1>3. /\ From(ms, i) \in Seq(Messages) /\ Len(From(ms, i)) = Len(ms) - i + 1
      /\ \A j \in 1..(Len(ms) - i + 1) : From(ms, i)[j] = ms[i + j - 1]
  BY <1>1, <1>2, SubSeqProperties DEF From
<1>4. ms[1] \in Messages
  BY <1>1, ElementOfSeq
<1>5. /\ Cut(ms, i) \in Seq(Messages) /\ Len(Cut(ms, i)) = Len(From(ms, i)) + 1
      /\ Cut(ms, i)[1] = ms[1]
      /\ \A j \in 1..Len(From(ms, i)) : Cut(ms, i)[j + 1] = From(ms, i)[j]
  <2>1. PICK a \in Messages, t \in Seq(Messages) : a = ms[1] /\ t = From(ms, i)
    BY <1>3, <1>4
  <2>2. /\ <<a>> \o t \in Seq(Messages) /\ Len(<<a>> \o t) = Len(t) + 1 /\ (<<a>> \o t)[1] = a
        /\ \A j \in 1..Len(t) : (<<a>> \o t)[j + 1] = t[j]
    BY Prepended
  <2>3. Cut(ms, i) = <<a>> \o t
    BY <2>1, Zenon DEF Cut
  <2>. QED BY <2>1, <2>2, <2>3, Zenon
<1>6. ASSUME NEW j \in 2..(Len(ms) - i + 2) PROVE Cut(ms, i)[j] = ms[i + j - 2]
  <2>1. j - 1 \in 1..(Len(ms) - i + 1) /\ (j - 1) + 1 = j
    BY <1>1
  <2>2. From(ms, i)[j - 1] = ms[i + (j - 1) - 1] /\ i + (j - 1) - 1 = i + j - 2
    BY <1>1, <1>3, <2>1
  <2>3. Cut(ms, i)[(j - 1) + 1] = From(ms, i)[j - 1]
    BY <1>3, <1>5, <2>1
  <2>. QED BY <2>1, <2>2, <2>3
<1>. QED BY <1>1, <1>3, <1>5, <1>6

\* What is cut before a message that answers no call stays whole.
LEMMA CutWhole ==
  ASSUME NEW ms \in Seq(Messages), Whole(ms), ms[1].role # "call",
         NEW i \in 2..Len(ms), ~Answers(ms, i)
  PROVE  Whole(Cut(ms, i))
<1>. DEFINE d == Cut(ms, i)
            k == i - 2
<1>1. /\ d \in Seq(Messages) /\ Len(d) = Len(ms) - k /\ d[1] = ms[1] /\ Len(ms) \in Nat
      /\ i \in Nat /\ k \in Nat /\ i = k + 2
      /\ \A j \in 2..Len(d) : d[j] = ms[j + k]
  <2>1. Len(ms) \in Nat /\ i \in Nat /\ k \in Nat
    BY LenProperties
  <2>2. /\ d \in Seq(Messages) /\ Len(d) = Len(ms) - i + 2 /\ d[1] = ms[1]
        /\ \A j \in 2..(Len(ms) - i + 2) : d[j] = ms[i + j - 2]
    BY CutShifts
  <2>. HIDE DEF d
  <2>3. k = i - 2 /\ i = k + 2 /\ Len(ms) - k = Len(ms) - i + 2 /\ k \in Nat
    BY <2>1
  <2>4. Len(d) = Len(ms) - k
    BY <2>2, <2>3
  <2>5. ASSUME NEW j \in 2..Len(d) PROVE d[j] = ms[j + k]
    <3>1. j \in 2..(Len(ms) - i + 2)
      BY <2>2
    <3>2. i + j - 2 = j + k
      BY <2>1, <2>3
    <3>3. d[j] = ms[i + j - 2]
      BY <2>2, <3>1
    <3>. QED BY <3>2, <3>3
  <2>. QED BY <2>1, <2>2, <2>3, <2>4, <2>5
<1>. HIDE DEF d, k
<1>2. ASSUME NEW j \in 2..Len(d), d[j].role = "tool" PROVE Answers(d, j)
  <2>1. j + k \in 2..Len(ms) /\ ms[j + k].role = "tool"
    BY <1>1, <1>2
  <2>2. PICK c \in 2..((j + k) - 1) : /\ ms[c].role = "call"
                                    /\ \A l \in (c + 1)..((j + k) - 1) : ms[l].role = "tool"
    <3>1. Answers(ms, j + k)
      BY <2>1 DEF Whole
    <3>. QED BY <3>1, Zenon DEF Answers
  <2>3. c >= i
    <3>. SUFFICES ASSUME c < i PROVE FALSE
      BY <1>1
    <3>0. i <= j + k /\ j + k \in Nat /\ c \in Nat /\ c >= 2
      BY <1>1, <2>1, <2>2
    <3>1. c \in 2..(i - 1) /\ \A l \in (c + 1)..(i - 1) : ms[l].role = "tool"
      <4>1. (c + 1)..(i - 1) \subseteq (c + 1)..((j + k) - 1)
        BY <1>1, <3>0
      <4>. QED BY <1>1, <2>2, <3>0, <4>1
    <3>2. ms[i].role = "tool"
      <4>1. i = j + k \/ i \in (c + 1)..((j + k) - 1)
        BY <3>0, <2>2
      <4>. QED BY <2>1, <2>2, <4>1
    <3>. QED BY <3>1, <3>2, <2>2 DEF Answers
  <2>4. c - k \in 2..(j - 1) /\ d[c - k].role = "call"
    <3>1. c - k \in 2..(j - 1) /\ c - k \in 2..Len(d) /\ (c - k) + k = c
      BY <1>1, <2>1, <2>2, <2>3
    <3>2. d[c - k] = ms[c]
      BY <1>1, <3>1
    <3>. QED BY <2>2, <3>1, <3>2
  <2>5. ASSUME NEW l \in ((c - k) + 1)..(j - 1) PROVE d[l].role = "tool"
    <3>1. l \in 2..Len(d) /\ l + k \in (c + 1)..((j + k) - 1)
      BY <1>1, <2>1, <2>2, <2>4
    <3>. QED BY <1>1, <2>2, <3>1
  <2>. QED BY <1>2, <2>4, <2>5 DEF Answers
<1>3. ASSUME NEW c \in DOMAIN d, d[c].role = "call"
      PROVE  /\ c + d[c].calls <= Len(d)
             /\ \A j \in (c + 1)..(c + d[c].calls) : d[j].role = "tool"
             /\ c + d[c].calls < Len(d) => d[c + d[c].calls + 1].role # "tool"
  <2>1. c \in 2..Len(d)
    BY <1>1, <1>3
  <2>2. c + k \in DOMAIN ms /\ d[c] = ms[c + k] /\ d[c].calls \in Nat
    <3>1. c + k \in 1..Len(ms) /\ d[c] = ms[c + k]
      BY <1>1, <2>1
    <3>2. ms[c + k] \in Messages
      BY <3>1, ElementOfSeq
    <3>. QED BY <3>1, <3>2 DEF Messages
  <2>3. PICK n \in Nat : n = d[c].calls
    BY <2>2
  <2>4. /\ c + k + n <= Len(ms)
        /\ \A j \in (c + k + 1)..(c + k + n) : ms[j].role = "tool"
        /\ c + k + n < Len(ms) => ms[c + k + n + 1].role # "tool"
    BY <1>3, <2>2, <2>3 DEF Whole
  <2>5. c + n <= Len(d)
    BY <1>1, <2>1, <2>4
  <2>6. ASSUME NEW j \in (c + 1)..(c + n) PROVE d[j].role = "tool"
    <3>1. j \in 2..Len(d) /\ j + k \in (c + k + 1)..(c + k + n)
      BY <1>1, <2>1, <2>5
    <3>. QED BY <1>1, <2>4, <3>1
  <2>7. ASSUME c + n < Len(d) PROVE d[c + n + 1].role # "tool"
    <3>1. c \in Nat /\ c >= 2 /\ Len(d) \in Nat
      BY <1>1, <2>1
    <3>2. c + n + 1 \in 2..Len(d)
      BY <2>7, <3>1
    <3>3. (c + n + 1) + k = c + k + n + 1 /\ c + k + n < Len(ms)
      BY <1>1, <2>7, <3>1
    <3>. QED BY <1>1, <2>4, <3>2, <3>3
  <2>. QED BY <2>3, <2>5, <2>6, <2>7
<1>4. Whole(d)
  BY <1>2, <1>3 DEF Whole
<1>. QED BY <1>4 DEF d

\* What is added behind a message does not change what it answers.
LEMMA AnswersKept ==
  ASSUME NEW ms \in Seq(Messages), NEW d \in Seq(Messages), NEW j \in 2..Len(ms),
         \A l \in 1..Len(ms) : d[l] = ms[l], Answers(ms, j)
  PROVE  Answers(d, j)
<1>1. Len(ms) \in Nat /\ ms[j].role = "tool"
  BY LenProperties DEF Answers
<1>2. PICK c \in 2..(j - 1) : ms[c].role = "call" /\ \A l \in (c + 1)..(j - 1) : ms[l].role = "tool"
  BY Zenon DEF Answers
<1>3. d[c].role = "call" /\ \A l \in (c + 1)..(j - 1) : d[l].role = "tool"
  BY <1>1, <1>2
<1>. QED BY <1>1, <1>3 DEF Answers

\* A message that is no call has the calls of its history before it.
CallAnswered(ms, c) ==
    ms[c].role = "call" =>
        /\ c + ms[c].calls <= Len(ms)
        /\ \A j \in (c + 1)..(c + ms[c].calls) : ms[j].role = "tool"
        /\ c + ms[c].calls < Len(ms) => ms[c + ms[c].calls + 1].role # "tool"

\* A history is whole if every result answers a call and every call is answered.
LEMMA WholeCalls ==
  ASSUME NEW ms \in Seq(Messages)
  PROVE  Whole(ms) <=> /\ \A j \in 2..Len(ms) : ms[j].role = "tool" => Answers(ms, j)
                       /\ \A c \in 1..Len(ms) : CallAnswered(ms, c)
<1>1. DOMAIN ms = 1..Len(ms)
  OBVIOUS
<1>. QED BY <1>1, Zenon DEF Whole, CallAnswered

\* A call that is answered stays so when something else than a result follows.
LEMMA CallKept ==
  ASSUME NEW ms \in Seq(Messages), NEW d \in Seq(Messages), NEW c \in 1..Len(ms),
         \A l \in 1..Len(ms) : d[l] = ms[l],
         Len(d) > Len(ms), d[Len(ms) + 1].role # "tool", CallAnswered(ms, c)
  PROVE  CallAnswered(d, c)
<1>. SUFFICES ASSUME d[c].role = "call" PROVE CallAnswered(d, c)
  BY DEF CallAnswered
<1>1. Len(ms) \in Nat /\ Len(d) \in Nat /\ d[c] = ms[c] /\ ms[c] \in Messages
  BY LenProperties, ElementOfSeq
<1>2. PICK n \in Nat : n = ms[c].calls
  BY <1>1 DEF Messages
<1>3. /\ c + n <= Len(ms) /\ \A j \in (c + 1)..(c + n) : ms[j].role = "tool"
      /\ c + n < Len(ms) => ms[c + n + 1].role # "tool"
  BY <1>1, <1>2 DEF CallAnswered
<1>4. \A j \in (c + 1)..(c + n) : d[j].role = "tool"
  <2>. SUFFICES ASSUME NEW j \in (c + 1)..(c + n) PROVE d[j].role = "tool"
    OBVIOUS
  <2>1. j \in 1..Len(ms)
    BY <1>1, <1>3
  <2>. QED BY <1>3, <2>1
<1>5. d[c + n + 1].role # "tool"
  <2>1. CASE c + n < Len(ms)
    <3>1. c + n + 1 \in 1..Len(ms)
      BY <1>1, <2>1
    <3>. QED BY <1>3, <2>1, <3>1
  <2>2. CASE c + n = Len(ms)
    BY <2>2
  <2>. QED BY <1>1, <1>3, <2>1, <2>2
<1>6. c + n <= Len(d)
  BY <1>1, <1>3
<1>. QED BY <1>1, <1>2, <1>4, <1>5, <1>6 DEF CallAnswered

\* A message that is no call and no answer may follow.
LEMMA OneMore ==
  ASSUME NEW ms \in Seq(Messages), Whole(ms), NEW d \in Seq(Messages), Len(d) = Len(ms) + 1,
         \A l \in 1..Len(ms) : d[l] = ms[l], d[Len(ms) + 1].role \notin {"call", "tool"}
  PROVE  Whole(d)
<1>1. Len(ms) \in Nat
  BY LenProperties
<1>2. ASSUME NEW j \in 2..Len(d), d[j].role = "tool" PROVE Answers(d, j)
  <2>1. j \in 2..Len(ms) /\ ms[j].role = "tool"
    BY <1>1, <1>2
  <2>. QED BY <2>1, AnswersKept DEF Whole
<1>3. ASSUME NEW c \in 1..Len(d) PROVE CallAnswered(d, c)
  <2>1. CASE c \in 1..Len(ms)
    <3>1. CallAnswered(ms, c)
      BY <2>1, WholeCalls
    <3>. QED BY <1>1, <2>1, <3>1, CallKept
  <2>2. CASE c = Len(ms) + 1
    BY <2>2 DEF CallAnswered
  <2>. QED BY <1>1, <2>1, <2>2
<1>. QED BY <1>2, <1>3, WholeCalls

\* A call with all its answers may follow.
LEMMA CallMore ==
  ASSUME NEW ms \in Seq(Messages), Whole(ms), Len(ms) >= 1, NEW n \in Nat \ {0},
         NEW d \in Seq(Messages), Len(d) = Len(ms) + (n + 1), \A l \in 1..Len(ms) : d[l] = ms[l],
         d[Len(ms) + 1].role = "call", d[Len(ms) + 1].calls = n,
         \A l \in (Len(ms) + 2)..Len(d) : d[l].role = "tool"
  PROVE  Whole(d)
<1>1. Len(ms) \in Nat
  BY LenProperties
<1>2. ASSUME NEW j \in 2..Len(d), d[j].role = "tool" PROVE Answers(d, j)
  <2>1. CASE j <= Len(ms)
    <3>1. j \in 2..Len(ms) /\ ms[j].role = "tool"
      BY <1>1, <1>2, <2>1
    <3>. QED BY <3>1, AnswersKept DEF Whole
  <2>2. CASE j > Len(ms)
    <3>1. j # Len(ms) + 1
      BY <1>2
    <3>2. Len(ms) + 1 \in 2..(j - 1)
      BY <1>1, <2>2, <3>1
    <3>3. \A l \in ((Len(ms) + 1) + 1)..(j - 1) : d[l].role = "tool"
      BY <1>1
    <3>. QED BY <1>2, <3>2, <3>3 DEF Answers
  <2>. QED BY <1>1, <2>1, <2>2
<1>3. ASSUME NEW c \in 1..Len(d) PROVE CallAnswered(d, c)
  <2>1. CASE c \in 1..Len(ms)
    <3>1. CallAnswered(ms, c)
      BY <2>1, WholeCalls
    <3>. QED BY <1>1, <2>1, <3>1, CallKept
  <2>2. CASE c = Len(ms) + 1
    <3>1. c + n = Len(d) /\ \A j \in (c + 1)..(c + n) : d[j].role = "tool"
      BY <1>1, <2>2
    <3>. QED BY <1>1, <2>2, <3>1 DEF CallAnswered
  <2>3. CASE c \in (Len(ms) + 2)..Len(d)
    BY <2>3 DEF CallAnswered
  <2>. QED BY <1>1, <2>1, <2>2, <2>3
<1>. QED BY <1>2, <1>3, WholeCalls

\* The last message, when it answers nothing, may be taken away.
LEMMA FrontWhole ==
  ASSUME NEW ms \in Seq(Messages), Whole(ms), Len(ms) >= 2, ms[Len(ms)].role # "tool"
  PROVE  /\ Front(ms) \in Seq(Messages) /\ Len(Front(ms)) = Len(ms) - 1
         /\ Front(ms)[1] = ms[1] /\ Whole(Front(ms))
<1>1. Len(ms) \in Nat /\ \A l \in 1..Len(ms) : ms[l] \in Messages
  BY LenProperties, ElementOfSeq
<1>2. PICK d : d = Front(ms)
  OBVIOUS
<1>3. /\ d \in Seq(Messages) /\ Len(d) = Len(ms) - 1
      /\ \A l \in 1..(Len(ms) - 1) : d[l] = ms[l]
  <2>1. /\ SubSeq(ms, 1, Len(ms) - 1) \in Seq(Messages)
        /\ Len(SubSeq(ms, 1, Len(ms) - 1)) = Len(ms) - 1
        /\ \A l \in 1..((Len(ms) - 1) - 1 + 1) : SubSeq(ms, 1, Len(ms) - 1)[l] = ms[1 + l - 1]
    BY <1>1, SubSeqProperties
  <2>2. d = SubSeq(ms, 1, Len(ms) - 1)
    BY <1>2, Zenon DEF Front
  <2>3. \A l \in 1..(Len(ms) - 1) : l \in 1..((Len(ms) - 1) - 1 + 1) /\ 1 + l - 1 = l
    BY <1>1
  <2>. QED BY <2>1, <2>2, <2>3
<1>4. ASSUME NEW j \in 2..Len(d), d[j].role = "tool" PROVE Answers(d, j)
  <2>1. Answers(ms, j)
    BY <1>1, <1>3, <1>4 DEF Whole
  <2>2. PICK c \in 2..(j - 1) : ms[c].role = "call" /\ \A l \in (c + 1)..(j - 1) : ms[l].role = "tool"
    BY <2>1, Zenon DEF Answers
  <2>3. d[c].role = "call" /\ \A l \in (c + 1)..(j - 1) : d[l].role = "tool"
    BY <1>1, <1>3, <2>2
  <2>. QED BY <1>4, <2>3 DEF Answers
<1>5. ASSUME NEW c \in 1..Len(d), d[c].role = "call" PROVE CallAnswered(d, c)
  <2>1. c \in 1..(Len(ms) - 1) /\ d[c] = ms[c]
    BY <1>3
  <2>2. PICK n \in Nat : n = ms[c].calls
    <3>1. ms[c] \in Messages
      BY <1>1, <2>1
    <3>. QED BY <3>1 DEF Messages
  <2>3. /\ c + n <= Len(ms) /\ \A j \in (c + 1)..(c + n) : ms[j].role = "tool"
        /\ c + n < Len(ms) => ms[c + n + 1].role # "tool"
    BY <1>1, <1>5, <2>1, <2>2 DEF Whole
  <2>4. c + n <= Len(d)
    <3>1. c + n # Len(ms)
      <4>. SUFFICES ASSUME c + n = Len(ms) PROVE FALSE
        OBVIOUS
      <4>1. Len(ms) \in (c + 1)..(c + n)
        BY <1>1, <2>1
      <4>. QED BY <2>3, <4>1
    <3>. QED BY <1>1, <1>3, <2>1, <2>3, <3>1
  <2>5. ASSUME NEW j \in (c + 1)..(c + n) PROVE d[j].role = "tool"
    <3>1. j \in 1..(Len(ms) - 1)
      BY <1>1, <1>3, <2>1, <2>4
    <3>. QED BY <1>3, <2>3, <3>1
  <2>6. c + n < Len(d) => d[c + n + 1].role # "tool"
    BY <1>1, <1>3, <2>1, <2>3
  <2>. QED BY <2>1, <2>2, <2>4, <2>5, <2>6 DEF CallAnswered
<1>6. Whole(d)
  <2>1. \A c \in 1..Len(d) : CallAnswered(d, c)
    BY <1>5 DEF CallAnswered
  <2>. QED BY <1>3, <1>4, <2>1, WholeCalls
<1>7. d[1] = ms[1]
  BY <1>1, <1>3
<1>. QED BY <1>2, <1>3, <1>6, <1>7, Zenon

\* What trimHistory makes of a history that ends with a question.
LEMMA TrimCut ==
  ASSUME NEW ms \in Seq(Messages), Len(ms) >= 2, ms[Len(ms)].role = "user"
  PROVE  \/ Trim(ms, MaxHistory) = ms /\ Len(ms) <= MaxHistory + 1
         \/ \E i \in 2..Len(ms) : /\ ms[i].role \notin {"call", "tool"}
                                  /\ Trim(ms, MaxHistory) = Cut(ms, i)
                                  /\ Len(ms) - i + 2 <= MaxHistory + 1
<1>1. Len(ms) \in Nat /\ MaxHistory \in Nat \ {0}
  BY LenProperties, ChatAssumption
<1>2. CASE Len(ms) <= MaxHistory + 1
  BY <1>2 DEF Trim
<1>3. CASE Len(ms) > MaxHistory + 1
  <2>1. SafeCuts(ms, MaxHistory) \subseteq {i \in 2..Len(ms) : /\ ms[i].role \notin {"call", "tool"}
                                                              /\ Len(ms) - i + 2 <= MaxHistory + 1}
    BY <1>1, <1>3 DEF SafeCuts
  <2>2. Len(ms) \in SafeCuts(ms, MaxHistory)
    BY <1>1 DEF SafeCuts
  <2>3. Min(SafeCuts(ms, MaxHistory)) \in SafeCuts(ms, MaxHistory)
    BY <2>1, <2>2, LeastIn
  <2>4. Trim(ms, MaxHistory) = Cut(ms, Min(SafeCuts(ms, MaxHistory)))
    <3>1. ~(Len(ms) <= MaxHistory + 1) /\ SafeCuts(ms, MaxHistory) # {}
      BY <1>1, <1>3, <2>2
    <3>. QED BY <3>1, Zenon DEF Trim, Cut
  <2>. QED BY <2>1, <2>3, <2>4
<1>. QED BY <1>1, <1>2, <1>3

\* What CompactMessages makes of a history.
Short(ms, lim) == Len(ms) <= 1 \/ lim <= 0 \/ Tokens(ms) <= lim

\* CompactMessages leaves all, the first, or the first and those from a message that
\* answers no call (compact.go:9-47).
LEMMA CompactCut ==
  ASSUME NEW ms \in Seq(Messages), NEW lim
  PROVE  \/ Short(ms, lim) /\ Compact(ms, lim) = ms
         \/ Compact(ms, lim) = <<ms[1]>>
         \/ \E i \in 2..Len(ms) : /\ ~Answers(ms, i) /\ Compact(ms, lim) = Cut(ms, i)
                                  /\ Tokens(From(ms, i)) <= lim - ms[1].tokens
<1>1. CASE Short(ms, lim)
  BY <1>1, Zenon DEF Compact, Short
<1>2. CASE ~Short(ms, lim) /\ (lim <= ms[1].tokens \/ Kept(ms, lim) = {})
  BY <1>2, Zenon DEF Compact, Short
<1>3. CASE ~Short(ms, lim) /\ ~(lim <= ms[1].tokens \/ Kept(ms, lim) = {})
  <2>1. Kept(ms, lim) \subseteq {i \in 2..Len(ms) : ~Answers(ms, i)
                                      /\ Tokens(From(ms, i)) <= lim - ms[1].tokens}
    BY DEF Kept, GroupStarts
  <2>2. Min(Kept(ms, lim)) \in Kept(ms, lim)
    <3>1. Kept(ms, lim) \in SUBSET Nat
      BY <2>1, LenProperties
    <3>. QED BY <1>3, <3>1, LeastIn
  <2>3. Compact(ms, lim) = Cut(ms, Min(Kept(ms, lim)))
    BY <1>3, Zenon DEF Compact, Short, Cut
  <2>. QED BY <2>1, <2>2, <2>3
<1>. QED BY <1>1, <1>2, <1>3

(***************************************************************************)
(* Tokens, by induction on the length of its argument.                     *)
(***************************************************************************)
IsTotal(f, ms, n) ==
    f = [S \in SUBSET (1..n) |-> IF S = {} THEN 0 ELSE f[S \ {Max(S)}] + ms[Max(S)].tokens]

\* Tokens folds over the positions of the messages: the function it defines by recursion,
LEMMA TotalEquation ==
  ASSUME NEW f, NEW ms, NEW n, IsTotal(f, ms, n), NEW S \in SUBSET (1..n)
  PROVE  f[S] = IF S = {} THEN 0 ELSE f[S \ {Max(S)}] + ms[Max(S)].tokens
BY Zenon DEF IsTotal

\* that it exists,
LEMMA TotalExists ==
  ASSUME NEW ms \in Seq(Messages) PROVE \E f : IsTotal(f, ms, Len(ms))
<1>. DEFINE n == Len(ms)
            step == [x \in Nat \X (1..n) |-> x[1] + ms[x[2]].tokens]
<1>1. n \in Nat /\ step \in [Nat \X (1..n) -> Nat]
  <2>1. ASSUME NEW k \in 1..n PROVE ms[k].tokens \in Nat
    <3>1. ms[k] \in Messages
      BY ElementOfSeq
    <3>. QED BY <3>1 DEF Messages
  <2>. QED BY <2>1, LenProperties
<1>2. PICK f \in [SUBSET (1..n) -> Nat] : IsFold(f, n, 0, step)
  <2>. HIDE DEF n, step
  <2>. QED BY <1>1, FoldExists DEF FoldIn
<1>3. ASSUME NEW S \in SUBSET (1..n), S # {}
      PROVE  step[<<f[S \ {Max(S)}], Max(S)>>] = f[S \ {Max(S)}] + ms[Max(S)].tokens
  <2>1. S \ {Max(S)} \in SUBSET (1..n) /\ Max(S) \in 1..n
    BY <1>1, <1>3, LargestIn
  <2>2. PICK v \in Nat, k \in 1..n : v = f[S \ {Max(S)}] /\ k = Max(S)
    BY <2>1
  <2>3. step[<<v, k>>] = v + ms[k].tokens
    OBVIOUS
  <2>. QED BY <2>2, <2>3, Zenon
<1>4. f = [S \in SUBSET (1..n) |-> IF S = {} THEN 0 ELSE f[S \ {Max(S)}] + ms[Max(S)].tokens]
  <2>. HIDE DEF step
  <2>. QED BY <1>2, <1>3, Zenon DEF IsFold
<1>. QED BY <1>4, Zenon DEF IsTotal

\* that Tokens is its value for all positions,
LEMMA TokensTotal ==
  ASSUME NEW ms \in Seq(Messages)
  PROVE  \E f : IsTotal(f, ms, Len(ms)) /\ Tokens(ms) = f[1..Len(ms)]
<1>1. DOMAIN ms = 1..Len(ms) /\ Len(ms) \in Nat
  BY LenProperties
<1>2. Tokens(ms) = (CHOOSE f : IsTotal(f, ms, Len(ms)))[1..Len(ms)]
  BY <1>1 DEF Tokens, FoldLeft, MapThenFoldSet, IsTotal
<1>. QED BY <1>1, <1>2, TotalExists

\* One message more.
LEMMA TotalNext ==
  ASSUME NEW f, NEW ms, NEW n \in Nat, IsTotal(f, ms, n), NEW k \in Nat, NEW m \in 1..n, m = k + 1
  PROVE  f[1..m] = f[1..k] + ms[m].tokens
<1>1. 1..m \in SUBSET (1..n) /\ 1..m # {} /\ Max(1..m) = m /\ (1..m) \ {m} = 1..(m - 1)
  BY FirstPositions
<1>2. 1..(m - 1) = 1..k
  OBVIOUS
<1>3. f[1..m] = f[(1..m) \ {Max(1..m)}] + ms[Max(1..m)].tokens
  <2>1. PICK S \in SUBSET (1..n) : S = 1..m /\ S # {}
    BY <1>1, Zenon
  <2>2. f[S] = IF S = {} THEN 0 ELSE f[S \ {Max(S)}] + ms[Max(S)].tokens
    BY Zenon DEF IsTotal
  <2>. QED BY <2>1, <2>2, Zenon
<1>. QED BY <1>1, <1>2, <1>3, Zenon

\* and for none.
LEMMA TotalNone ==
  ASSUME NEW f, NEW ms, NEW n \in Nat, IsTotal(f, ms, n)
  PROVE  f[1..0] = 0
<1>1. 1..0 = {}
  OBVIOUS
<1>. QED BY <1>1, TotalEquation

\* The tokens of messages are a natural number:
LEMMA TokensIsNat ==
  ASSUME NEW ms \in Seq(Messages) PROVE Tokens(ms) \in Nat
<1>1. PICK f : IsTotal(f, ms, Len(ms)) /\ Tokens(ms) = f[1..Len(ms)]
  BY TokensTotal
<1>2. Len(ms) \in Nat
  BY LenProperties
<1>. DEFINE N == {k \in Nat : k <= Len(ms) => f[1..k] \in Nat}
<1>3. 0 \in N
  BY <1>1, <1>2, TotalNone
<1>4. ASSUME NEW k \in Nat, k \in N PROVE k + 1 \in N
  <2>. SUFFICES ASSUME k + 1 <= Len(ms) PROVE f[1..(k + 1)] \in Nat
    OBVIOUS
  <2>1. f[1..k] \in Nat
    BY <1>2, <1>4
  <2>2. ms[k + 1].tokens \in Nat
    <3>1. ms[k + 1] \in Messages
      BY <1>2, ElementOfSeq
    <3>. QED BY <3>1 DEF Messages
  <2>3. f[1..(k + 1)] = f[1..k] + ms[k + 1].tokens
    <3>1. PICK m \in 1..Len(ms) : m = k + 1
      BY <1>2
    <3>2. f[1..m] = f[1..k] + ms[m].tokens
      BY <1>1, <1>2, <3>1, TotalNext
    <3>. QED BY <3>1, <3>2, Zenon
  <2>. QED BY <2>1, <2>2, <2>3
<1>5. Nat \subseteq N
  <2>. HIDE DEF N
  <2>. QED BY <1>3, <1>4, NatInSet
<1>. QED BY <1>1, <1>2, <1>5

\* A sequence in two parts.
LEMMA TokensJoined ==
  ASSUME NEW s \in Seq(Messages), NEW t \in Seq(Messages), NEW d \in Seq(Messages),
         Len(d) = Len(s) + Len(t), \A i \in 1..Len(s) : d[i] = s[i],
         \A i \in 1..Len(t) : d[Len(s) + i] = t[i]
  PROVE  Tokens(d) = Tokens(s) + Tokens(t)
<1>1. PICK l \in Nat, m \in Nat : l = Len(s) /\ m = Len(t) /\ Len(d) = l + m
  BY LenProperties
<1>2. PICK f : IsTotal(f, d, l + m) /\ Tokens(d) = f[1..(l + m)]
  BY <1>1, TokensTotal
<1>3. PICK g : IsTotal(g, s, l) /\ Tokens(s) = g[1..l]
  BY <1>1, TokensTotal
<1>4. PICK h : IsTotal(h, t, m) /\ Tokens(t) = h[1..m]
  BY <1>1, TokensTotal
<1>. DEFINE N == {k \in Nat : k <= l => f[1..k] = g[1..k]}
            P == {k \in Nat : k <= m => f[1..(l + k)] = Tokens(s) + h[1..k] /\ h[1..k] \in Nat}
<1>5. Nat \subseteq N
  <2>1. 0 \in N
    BY <1>1, <1>2, <1>3, TotalNone
  <2>2. ASSUME NEW k \in Nat, k \in N PROVE k + 1 \in N
    <3>. SUFFICES ASSUME k + 1 <= l PROVE f[1..(k + 1)] = g[1..(k + 1)]
      OBVIOUS
    <3>1. PICK j \in 1..l : j = k + 1 /\ j \in 1..(l + m)
      OBVIOUS
    <3>2. f[1..j] = f[1..k] + d[j].tokens
      BY <1>2, <3>1, TotalNext
    <3>3. g[1..j] = g[1..k] + s[j].tokens
      BY <1>3, <3>1, TotalNext
    <3>4. d[j] = s[j] /\ f[1..k] = g[1..k]
      BY <1>1, <2>2, <3>1
    <3>. QED BY <3>1, <3>2, <3>3, <3>4, Zenon
  <2>. HIDE DEF N
  <2>. QED BY <2>1, <2>2, NatInSet
<1>6. f[1..l] = Tokens(s) /\ Tokens(s) \in Nat
  <2>1. f[1..l] = g[1..l]
    BY <1>5
  <2>. QED BY <1>3, <2>1, TokensIsNat, Zenon
<1>7. Nat \subseteq P
  <2>1. 0 \in P
    <3>1. h[1..0] = 0
      BY <1>4, TotalNone
    <3>2. l + 0 = l
      OBVIOUS
    <3>3. f[1..(l + 0)] = Tokens(s)
      BY <1>6, <3>2, Zenon
    <3>. QED BY <1>6, <3>1, <3>3
  <2>2. ASSUME NEW k \in Nat, k \in P PROVE k + 1 \in P
    <3>. SUFFICES ASSUME k + 1 <= m
                  PROVE  /\ f[1..(l + (k + 1))] = Tokens(s) + h[1..(k + 1)]
                         /\ h[1..(k + 1)] \in Nat
      OBVIOUS
    <3>1. PICK j \in 1..m, i \in Nat, n \in 1..(l + m) :
             j = k + 1 /\ i = l + k /\ n = l + (k + 1) /\ n = i + 1 /\ n = l + j
      <4>1. k + 1 \in 1..m /\ l + k \in Nat /\ l + (k + 1) \in 1..(l + m)
            /\ l + (k + 1) = (l + k) + 1
        OBVIOUS
      <4>. QED BY <4>1
    <3>2. f[1..n] = f[1..i] + d[n].tokens
      <4>1. l + m \in Nat
        OBVIOUS
      <4>. QED BY <1>2, <3>1, <4>1, TotalNext
    <3>3. h[1..j] = h[1..k] + t[j].tokens
      BY <1>4, <3>1, TotalNext
    <3>4. d[n] = t[j] /\ t[j] \in Messages
      <4>1. d[Len(s) + j] = t[j]
        BY <1>1
      <4>2. t[j] \in Messages
        BY <1>1, ElementOfSeq
      <4>. QED BY <1>1, <3>1, <4>1, <4>2, Zenon
    <3>5. f[1..i] = Tokens(s) + h[1..k] /\ h[1..k] \in Nat
      <4>1. f[1..(l + k)] = Tokens(s) + h[1..k] /\ h[1..k] \in Nat
        BY <2>2
      <4>. QED BY <3>1, <4>1, Zenon
    <3>6. PICK x \in Nat, y \in Nat : x = h[1..k] /\ y = t[j].tokens
      BY <3>4, <3>5 DEF Messages
    <3>7. f[1..n] = (Tokens(s) + x) + y /\ h[1..j] = x + y
      BY <3>2, <3>3, <3>4, <3>5, <3>6, Zenon
    <3>8. (Tokens(s) + x) + y = Tokens(s) + (x + y) /\ x + y \in Nat
      BY <1>6
    <3>9. f[1..n] = Tokens(s) + h[1..j] /\ h[1..j] \in Nat
      BY <3>7, <3>8, Zenon
    <3>. QED BY <3>1, <3>9, Zenon
  <2>. HIDE DEF P
  <2>. QED BY <2>1, <2>2, NatInSet
<1>8. f[1..(l + m)] = Tokens(s) + h[1..m]
  BY <1>7
<1>. QED BY <1>2, <1>4, <1>8, Zenon

\* of one message, its own,
LEMMA TokensOne ==
  ASSUME NEW a \in Messages PROVE Tokens(<<a>>) = a.tokens
<1>1. PICK d \in Seq(Messages) : d = <<a>> /\ Len(d) = 1 /\ d[1] = a
  <2>1. <<a>> \in Seq(Messages) /\ Len(<<a>>) = 1 /\ <<a>>[1] = a
    OBVIOUS
  <2>. QED BY <2>1, Zenon
<1>2. PICK k \in Nat, n \in Nat : k = 0 /\ n = 1 /\ n = k + 1 /\ n \in 1..n /\ Len(d) = n
  <2>1. 1 = 0 + 1 /\ 1 \in 1..1 /\ 0 \in Nat /\ 1 \in Nat
    OBVIOUS
  <2>. QED BY <1>1, <2>1, Zenon
<1>3. PICK f : IsTotal(f, d, n) /\ Tokens(d) = f[1..n]
  BY <1>2, TokensTotal
<1>4. f[1..n] = f[1..k] + d[n].tokens
  <2>1. PICK m \in 1..n : m = n /\ m = k + 1
    BY <1>2, Zenon
  <2>2. f[1..m] = f[1..k] + d[m].tokens
    BY <1>3, <2>1, TotalNext
  <2>. QED BY <2>1, <2>2, Zenon
<1>5. f[1..0] = 0 /\ a.tokens \in Nat
  BY <1>3, TotalNone DEF Messages
<1>6. f[1..k] = 0 /\ d[n].tokens = a.tokens
  BY <1>1, <1>2, <1>5, Zenon
<1>7. 0 + a.tokens = a.tokens
  BY <1>5
<1>8. f[1..n] = a.tokens
  BY <1>4, <1>6, <1>7, Zenon
<1>. QED BY <1>1, <1>3, <1>8, Zenon

\* of a message and others, their sum.
LEMMA TokensPrepended ==
  ASSUME NEW a \in Messages, NEW t \in Seq(Messages)
  PROVE  Tokens(<<a>> \o t) = a.tokens + Tokens(t)
<1>1. PICK d \in Seq(Messages) :
         /\ d = <<a>> \o t /\ Len(d) = Len(t) + 1 /\ d[1] = a
         /\ \A j \in 1..Len(t) : d[j + 1] = t[j]
  <2>1. /\ <<a>> \o t \in Seq(Messages) /\ Len(<<a>> \o t) = Len(t) + 1 /\ (<<a>> \o t)[1] = a
        /\ \A j \in 1..Len(t) : (<<a>> \o t)[j + 1] = t[j]
    BY Prepended
  <2>. QED BY <2>1, Zenon
<1>2. PICK s \in Seq(Messages) : s = <<a>> /\ Len(s) = 1 /\ s[1] = a
  <2>1. <<a>> \in Seq(Messages) /\ Len(<<a>>) = 1 /\ <<a>>[1] = a
    OBVIOUS
  <2>. QED BY <2>1, Zenon
<1>3. /\ Len(d) = Len(s) + Len(t) /\ \A i \in 1..Len(s) : d[i] = s[i]
      /\ \A i \in 1..Len(t) : d[Len(s) + i] = t[i]
  BY <1>1, <1>2, LenProperties
<1>4. Tokens(d) = Tokens(s) + Tokens(t)
  BY <1>3, TokensJoined
<1>5. Tokens(s) = a.tokens
  BY <1>2, TokensOne, Zenon
<1>. QED BY <1>1, <1>4, <1>5, Zenon

\* Sums of ordered numbers are ordered.
LEMMA SumsLess ==
  ASSUME NEW u \in Nat, NEW v \in Nat, NEW x \in Nat, NEW y \in Nat, u <= v, x <= y
  PROVE  u + x <= v + y /\ u + x \in Nat /\ v + y \in Nat
OBVIOUS

\* A sequence no message of which weighs more.
LEMMA TokensLess ==
  ASSUME NEW s \in Seq(Messages), NEW t \in Seq(Messages), Len(s) = Len(t),
         \A i \in 1..Len(s) : s[i].tokens <= t[i].tokens
  PROVE  Tokens(s) <= Tokens(t)
<1>1. PICK l \in Nat : l = Len(s) /\ l = Len(t)
  BY LenProperties
<1>2. PICK g : IsTotal(g, s, l) /\ Tokens(s) = g[1..l]
  BY <1>1, TokensTotal
<1>3. PICK h : IsTotal(h, t, l) /\ Tokens(t) = h[1..l]
  BY <1>1, TokensTotal
<1>. DEFINE N == {k \in Nat : k <= l => g[1..k] <= h[1..k] /\ g[1..k] \in Nat /\ h[1..k] \in Nat}
<1>4. 0 \in N
  <2>1. g[1..0] = 0 /\ h[1..0] = 0
    BY <1>2, <1>3, TotalNone
  <2>. QED BY <2>1
<1>5. ASSUME NEW k \in Nat, k \in N PROVE k + 1 \in N
  <2>. SUFFICES ASSUME k + 1 <= l
                PROVE  /\ g[1..(k + 1)] <= h[1..(k + 1)]
                       /\ g[1..(k + 1)] \in Nat /\ h[1..(k + 1)] \in Nat
    OBVIOUS
  <2>1. PICK j \in 1..l : j = k + 1
    OBVIOUS
  <2>2. g[1..j] = g[1..k] + s[j].tokens
    BY <1>2, <2>1, TotalNext
  <2>3. h[1..j] = h[1..k] + t[j].tokens
    BY <1>3, <2>1, TotalNext
  <2>4. s[j] \in Messages /\ t[j] \in Messages /\ s[j].tokens <= t[j].tokens
    BY <1>1, ElementOfSeq
  <2>5. PICK x \in Nat, y \in Nat : x = s[j].tokens /\ y = t[j].tokens /\ x <= y
    BY <2>4 DEF Messages
  <2>6. PICK u \in Nat, v \in Nat : u = g[1..k] /\ v = h[1..k] /\ u <= v
    BY <1>5
  <2>7. g[1..j] = u + x /\ h[1..j] = v + y
    BY <2>2, <2>3, <2>5, <2>6, Zenon
  <2>8. u + x <= v + y /\ u + x \in Nat /\ v + y \in Nat
    <3>1. x <= y /\ u <= v
      BY <2>5, <2>6, Zenon
    <3>. QED BY <3>1, SumsLess
  <2>. QED BY <2>1, <2>7, <2>8, Zenon
<1>6. Nat \subseteq N
  <2>. HIDE DEF N
  <2>. QED BY <1>4, <1>5, NatInSet
<1>7. g[1..l] <= h[1..l]
  BY <1>6
<1>. QED BY <1>2, <1>3, <1>7, Zenon

\* What CompactMessages leaves fits, or it leaves the system prompt alone.
LEMMA CompactFits ==
  ASSUME NEW ms \in Seq(Messages), Len(ms) >= 1, NEW lim \in Nat
  PROVE  Fits(Compact(ms, lim), lim)
<1>1. Len(ms) \in Nat /\ ms[1] \in Messages
  BY LenProperties, ElementOfSeq
<1>2. CASE Compact(ms, lim) = ms /\ Short(ms, lim)
  <2>1. Len(ms) <= 1 \/ lim <= 0 \/ Tokens(ms) <= lim
    BY <1>2, Zenon DEF Short
  <2>2. Len(ms) <= 1 => Len(ms) = 1
    BY <1>1
  <2>3. ~(lim <= 0 /\ lim > 0)
    OBVIOUS
  <2>4. Fits(ms, lim)
    BY <2>1, <2>2, <2>3, Zenon DEF Fits
  <2>. QED BY <1>2, <2>4, Zenon
<1>3. CASE Compact(ms, lim) = <<ms[1]>>
  <2>1. Len(<<ms[1]>>) = 1
    OBVIOUS
  <2>. QED BY <1>3, <2>1, Zenon DEF Fits
<1>4. ASSUME NEW i \in 2..Len(ms), Compact(ms, lim) = Cut(ms, i),
             Tokens(From(ms, i)) <= lim - ms[1].tokens
      PROVE  Fits(Compact(ms, lim), lim)
  <2>1. From(ms, i) \in Seq(Messages)
    BY CutShifts
  <2>2. Tokens(Cut(ms, i)) = ms[1].tokens + Tokens(From(ms, i))
    BY <1>1, <2>1, TokensPrepended, Zenon DEF Cut
  <2>3. Tokens(From(ms, i)) \in Nat /\ ms[1].tokens \in Nat
    BY <1>1, <2>1, TokensIsNat DEF Messages
  <2>4. Tokens(Cut(ms, i)) <= lim
    BY <1>4, <2>2, <2>3
  <2>. QED BY <1>4, <2>4, Zenon DEF Fits
<1>. QED BY <1>2, <1>3, <1>4, CompactCut

(***************************************************************************)
(* A history that a request can be made from, and what a turn has to know  *)
(* of the history it began with.                                           *)
(***************************************************************************)
Good(h) == Whole(h) /\ h[1] = System

Busy == chatPc \in {"round", "asking"}

ChatTyped ==
    /\ chatPc \in {"idle", "round", "asking"}
    /\ history \in Seq(Messages) /\ Len(history) >= 1
    /\ shrunk \in BOOLEAN /\ spoiled \in BOOLEAN /\ failed \in BOOLEAN
    /\ Busy => msgCount \in Nat /\ msgCount >= 2 /\ kept \in Seq(Messages) /\ Len(kept) = msgCount - 1

\* As long as nothing was dropped the turn has its beginning before it.
Begun ==
    Busy => /\ ~failed
            /\ ~shrunk => /\ msgCount <= Len(history)
                          /\ \A l \in 1..(msgCount - 1) : kept[l] = history[l]

GoodHistory == ~spoiled => Good(history) /\ (Busy => Good(kept))

ChatInv == ChatTyped /\ Begun /\ GoodHistory /\ RolledBackUnlessShrunk

\* A message alone.
LEMMA Alone ==
  ASSUME NEW m \in Messages
  PROVE  /\ <<m>> \in Seq(Messages) /\ Len(<<m>>) = 1 /\ <<m>>[1] = m
         /\ m.role # "call" => Whole(<<m>>)
BY DEF Whole

LEMMA ChatStart == ChatInit => ChatInv
<1>1. System \in Messages /\ System.role # "call"
  BY MessageTypes DEF System, Message
<1>2. /\ <<System>> \in Seq(Messages) /\ Len(<<System>>) = 1 /\ <<System>>[1] = System
      /\ Whole(<<System>>)
  BY <1>1, Alone
<1>. SUFFICES ASSUME ChatInit PROVE ChatInv
  OBVIOUS
<1>3. chatPc = "idle" /\ history = <<System>> /\ shrunk = FALSE /\ spoiled = FALSE /\ failed = FALSE
  BY DEF ChatInit
<1>4. ~Busy /\ {shrunk, spoiled, failed} \subseteq BOOLEAN
  BY <1>3 DEF Busy
<1>5. history \in Seq(Messages) /\ Len(history) >= 1 /\ Good(history)
  BY <1>2, <1>3 DEF Good
<1>. QED BY <1>3, <1>4, <1>5 DEF ChatInv, ChatTyped, Begun, GoodHistory, RolledBackUnlessShrunk

\* A cut before a message that answers no call keeps a history good.
LEMMA CutGood ==
  ASSUME NEW ms \in Seq(Messages), NEW i \in 2..Len(ms), ~Answers(ms, i)
  PROVE  Good(ms) => Good(Cut(ms, i))
<1>. SUFFICES ASSUME Good(ms) PROVE Good(Cut(ms, i))
  OBVIOUS
<1>1. Whole(ms) /\ ms[1] = System /\ System.role # "call"
  BY DEF Good, System, Message
<1>2. Whole(Cut(ms, i)) /\ Cut(ms, i)[1] = System
  BY <1>1, CutWhole, CutShifts
<1>. QED BY <1>2 DEF Good

\* What CompactMessages leaves can be sent when what it was given could.
LEMMA CompactGood ==
  ASSUME NEW ms \in Seq(Messages), Len(ms) >= 1, NEW lim
  PROVE  /\ Compact(ms, lim) \in Seq(Messages) /\ Len(Compact(ms, lim)) >= 1
         /\ Good(ms) => Good(Compact(ms, lim))
<1>1. PICK d : d = Compact(ms, lim)
  OBVIOUS
<1>2. Len(ms) \in Nat /\ ms[1] \in Messages
  BY LenProperties, ElementOfSeq
<1>3. CASE d = ms
  BY <1>1, <1>3, Zenon
<1>4. CASE d = <<ms[1]>>
  <2>1. /\ <<ms[1]>> \in Seq(Messages) /\ Len(<<ms[1]>>) = 1 /\ <<ms[1]>>[1] = ms[1]
        /\ ms[1].role # "call" => Whole(<<ms[1]>>)
    BY <1>2, Alone
  <2>2. Good(ms) => ms[1] = System /\ System.role # "call"
    BY DEF Good, System, Message
  <2>3. d \in Seq(Messages) /\ Len(d) >= 1 /\ (Good(ms) => Good(d))
    BY <1>4, <2>1, <2>2 DEF Good
  <2>. QED BY <1>1, <2>3, Zenon
<1>5. ASSUME NEW i \in 2..Len(ms), ~Answers(ms, i), d = Cut(ms, i)
      PROVE  d \in Seq(Messages) /\ Len(d) >= 1 /\ (Good(ms) => Good(d))
  <2>1. Cut(ms, i) \in Seq(Messages) /\ Len(Cut(ms, i)) = Len(ms) - i + 2
    BY CutShifts
  <2>2. Good(ms) => Good(Cut(ms, i))
    BY <1>5, CutGood
  <2>3. Len(ms) - i + 2 >= 1
    BY <1>2
  <2>. QED BY <1>5, <2>1, <2>2, <2>3
<1>6. CASE \E i \in 2..Len(ms) : ~Answers(ms, i) /\ d = Cut(ms, i)
  BY <1>1, <1>5, <1>6, Zenon
<1>. QED BY <1>1, <1>3, <1>4, <1>6, CompactCut, Zenon

\* HandleMessage: the question comes to the end of the history, which is then trimmed.
LEMMA HandleStep == ChatInv /\ HandleMessage => ChatInv'
<1>. SUFFICES ASSUME ChatInv, HandleMessage PROVE ChatInv'
  OBVIOUS
<1>1. PICK asked \in Seq(Messages) :
         /\ asked = Append(history, User) /\ Len(asked) >= 2 /\ asked[Len(asked)] = User
         /\ asked[1] = history[1] /\ (~spoiled => Whole(asked))
  <2>1. /\ history \in Seq(Messages) /\ Len(history) >= 1 /\ Len(history) \in Nat
        /\ User \in Messages /\ User.role = "user"
    BY MessageTypes, LenProperties DEF ChatInv, ChatTyped, User, Message
  <2>2. /\ Append(history, User) \in Seq(Messages) /\ Len(Append(history, User)) = Len(history) + 1
        /\ Append(history, User)[Len(history) + 1] = User
        /\ \A l \in 1..Len(history) : Append(history, User)[l] = history[l]
    BY <2>1, AppendProperties
  <2>3. ~spoiled => Whole(Append(history, User))
    BY <2>1, <2>2, OneMore DEF ChatInv, GoodHistory, Good
  <2>4. Append(history, User)[1] = history[1]
    BY <2>1, <2>2
  <2>5. Len(Append(history, User)) >= 2
        /\ Append(history, User)[Len(Append(history, User))] = User
    BY <2>1, <2>2
  <2>. QED BY <2>2, <2>3, <2>4, <2>5
<1>2. /\ history' = Trim(asked, MaxHistory) /\ msgCount' = Len(history') /\ kept' = Front(history')
      /\ shrunk' = FALSE /\ chatPc' = "round" /\ failed' = FALSE /\ spoiled' = spoiled
  BY <1>1 DEF HandleMessage
<1>3. /\ history' \in Seq(Messages) /\ Len(history') >= 2 /\ history'[Len(history')] = User
      /\ ~spoiled => Good(history')
  <2>1. User.role = "user" /\ Len(asked) \in Nat
    BY LenProperties DEF User, Message
  <2>2. CASE history' = asked
    BY <1>1, <2>1, <2>2 DEF ChatInv, GoodHistory, Good
  <2>3. ASSUME NEW i \in 2..Len(asked), asked[i].role \notin {"call", "tool"},
               history' = Cut(asked, i)
        PROVE  /\ history' \in Seq(Messages) /\ Len(history') >= 2
               /\ history'[Len(history')] = User /\ (~spoiled => Good(history'))
    <3>1. /\ Cut(asked, i) \in Seq(Messages) /\ Len(Cut(asked, i)) = Len(asked) - i + 2
          /\ \A j \in 2..(Len(asked) - i + 2) : Cut(asked, i)[j] = asked[i + j - 2]
      BY CutShifts
    <3>2. Cut(asked, i)[Len(asked) - i + 2] = User
      <4>1. Len(asked) - i + 2 \in 2..(Len(asked) - i + 2)
            /\ i + (Len(asked) - i + 2) - 2 = Len(asked)
        BY <2>1
      <4>2. Cut(asked, i)[Len(asked) - i + 2] = asked[i + (Len(asked) - i + 2) - 2]
        BY <3>1, <4>1
      <4>. QED BY <1>1, <4>1, <4>2
    <3>3. ~spoiled => Good(Cut(asked, i))
      <4>1. ~Answers(asked, i)
        BY <2>3 DEF Answers
      <4>2. ~spoiled => Good(asked)
        BY <1>1 DEF ChatInv, GoodHistory, Good
      <4>. QED BY <4>1, <4>2, CutGood
    <3>. QED BY <2>1, <2>3, <3>1, <3>2, <3>3
  <2>4. asked[Len(asked)].role = "user"
    BY <1>1, <2>1
  <2>. QED BY <1>1, <1>2, <2>2, <2>3, <2>4, TrimCut
<1>4. /\ kept' \in Seq(Messages) /\ Len(kept') = Len(history') - 1
      /\ \A l \in 1..(Len(history') - 1) : kept'[l] = history'[l]
  <2>1. Len(history') \in Nat /\ \A l \in 1..Len(history') : history'[l] \in Messages
    BY <1>3, LenProperties, ElementOfSeq
  <2>2. /\ SubSeq(history', 1, Len(history') - 1) \in Seq(Messages)
        /\ Len(SubSeq(history', 1, Len(history') - 1)) = Len(history') - 1
        /\ \A l \in 1..((Len(history') - 1) - 1 + 1) :
              SubSeq(history', 1, Len(history') - 1)[l] = history'[1 + l - 1]
    BY <1>3, <2>1, SubSeqProperties
  <2>3. kept' = SubSeq(history', 1, Len(history') - 1)
    BY <1>2, Zenon DEF Front
  <2>4. \A l \in 1..(Len(history') - 1) : l \in 1..((Len(history') - 1) - 1 + 1) /\ 1 + l - 1 = l
    BY <2>1
  <2>. QED BY <2>2, <2>3, <2>4
<1>5. ~spoiled => Good(kept')
  <2>1. User.role = "user"
    BY DEF User, Message
  <2>. QED BY <1>2, <1>3, <2>1, FrontWhole DEF Good
<1>6. Len(history') \in Nat
  BY <1>3, LenProperties
<1>7. ChatTyped'
  <2>1. shrunk' \in BOOLEAN /\ spoiled' \in BOOLEAN /\ failed' \in BOOLEAN
    BY <1>2, Zenon DEF ChatInv, ChatTyped
  <2>. QED BY <1>2, <1>3, <1>4, <1>6, <2>1 DEF ChatTyped
<1>8. Begun'
  BY <1>2, <1>4, <1>6 DEF Begun, Busy
<1>9. GoodHistory' /\ RolledBackUnlessShrunk'
  BY <1>2, <1>3, <1>5 DEF GoodHistory, RolledBackUnlessShrunk
<1>. QED BY <1>7, <1>8, <1>9 DEF ChatInv

\* A turn fails: with all of its beginning there, the rollback brings back exactly it.
LEMMA RollbackTyped ==
  ASSUME ChatInv, Busy, Rollback
  PROVE  history' \in Seq(Messages) /\ Len(history') >= 1 /\ (~shrunk => history' = kept)
<1>1. /\ history \in Seq(Messages) /\ Len(history) \in Nat /\ Len(history) >= 1
      /\ msgCount \in Nat /\ msgCount >= 2 /\ kept \in Seq(Messages) /\ Len(kept) = msgCount - 1
  BY LenProperties DEF ChatInv, ChatTyped
<1>2. ~shrunk => msgCount - 1 <= Len(history)
  BY <1>1 DEF ChatInv, Begun
<1>3. CASE msgCount - 1 <= Len(history)
  <2>1. history' = SubSeq(history, 1, msgCount - 1)
    BY <1>3, Zenon DEF Rollback
  <2>2. \A l \in 1..(msgCount - 1) : history[l] \in Messages
    BY <1>1, <1>3, ElementOfSeq
  <2>3. /\ SubSeq(history, 1, msgCount - 1) \in Seq(Messages)
        /\ Len(SubSeq(history, 1, msgCount - 1)) = msgCount - 1
        /\ \A l \in 1..((msgCount - 1) - 1 + 1) : SubSeq(history, 1, msgCount - 1)[l] = history[1 + l - 1]
    BY <1>1, <2>2, SubSeqProperties
  <2>4. \A l \in 1..(msgCount - 1) : history'[l] = history[l]
    <3>1. \A l \in 1..(msgCount - 1) : l \in 1..((msgCount - 1) - 1 + 1) /\ 1 + l - 1 = l
      BY <1>1
    <3>. QED BY <2>1, <2>3, <3>1
  <2>5. history' \in Seq(Messages) /\ Len(history') = msgCount - 1
    BY <2>1, <2>3
  <2>6. ~shrunk => history' = kept
    <3>. SUFFICES ASSUME ~shrunk PROVE history' = kept
      OBVIOUS
    <3>1. \A l \in 1..(msgCount - 1) : kept[l] = history[l]
      BY DEF ChatInv, Begun
    <3>. QED BY <1>1, <2>4, <2>5, <3>1, SeqEqual
  <2>. QED BY <1>1, <2>5, <2>6
<1>4. CASE ~(msgCount - 1 <= Len(history)) /\ msgCount - 1 > capacity
  <2>1. history' = history
    BY <1>4, Zenon DEF Rollback
  <2>. QED BY <1>1, <1>2, <1>4, <2>1
<1>5. CASE ~(msgCount - 1 <= Len(history)) /\ ~(msgCount - 1 > capacity)
  <2>1. PICK rest \in Seq(Messages) : rest = [i \in 1..(msgCount - 1 - Len(history)) |-> Stale]
    <3>0. (msgCount - 1) - Len(history) \in Nat
      BY <1>1, <1>5
    <3>1. PICK n \in Nat : n = msgCount - 1 - Len(history)
      BY <3>0, Zenon
    <3>2. [i \in 1..n |-> Stale] \in Seq(Messages)
      BY MessageTypes
    <3>. QED BY <3>1, <3>2
  <2>2. history' = history \o rest
    BY <1>5, <2>1, Zenon DEF Rollback
  <2>3. history \o rest \in Seq(Messages) /\ Len(history \o rest) = Len(history) + Len(rest)
    BY <1>1, <2>1, ConcatProperties
  <2>4. Len(rest) \in Nat
    BY <2>1, LenProperties
  <2>5. Len(history \o rest) >= 1
    BY <1>1, <2>3, <2>4
  <2>. QED BY <1>2, <1>5, <2>2, <2>3, <2>5, Zenon
<1>. QED BY <1>3, <1>4, <1>5

LEMMA FailStep == ChatInv /\ Busy /\ Fail => ChatInv'
<1>. SUFFICES ASSUME ChatInv, Busy, Fail PROVE ChatInv'
  OBVIOUS
<1>1. history' \in Seq(Messages) /\ Len(history') >= 1 /\ (~shrunk => history' = kept)
  BY RollbackTyped DEF Fail
<1>2. /\ chatPc' = "idle" /\ failed' = TRUE /\ kept' = kept /\ shrunk' = shrunk
      /\ spoiled' = (spoiled \/ history' # kept)
  BY DEF Fail
<1>3. ~Busy' /\ shrunk' \in BOOLEAN /\ spoiled' \in BOOLEAN /\ failed' \in BOOLEAN
  <2>1. ~Busy'
    BY <1>2 DEF Busy
  <2>2. shrunk' \in BOOLEAN /\ spoiled' \in BOOLEAN /\ failed' \in BOOLEAN
    BY <1>2, Zenon DEF ChatInv, ChatTyped
  <2>. QED BY <2>1, <2>2
<1>4. ChatTyped'
  BY <1>1, <1>2, <1>3 DEF ChatTyped
<1>5. GoodHistory'
  <2>. SUFFICES ASSUME ~spoiled' PROVE Good(history')
    BY <1>3 DEF GoodHistory
  <2>1. ~spoiled /\ history' = kept
    BY <1>2, Zenon
  <2>2. Good(kept)
    BY <2>1 DEF ChatInv, GoodHistory
  <2>. QED BY <2>1, <2>2
<1>6. Begun' /\ RolledBackUnlessShrunk'
  BY <1>1, <1>2, <1>3 DEF Begun, RolledBackUnlessShrunk
<1>. QED BY <1>4, <1>5, <1>6 DEF ChatInv

\* A round begins: what it drops is remembered.
LEMMA AskStep == ChatInv /\ Ask => ChatInv'
<1>. SUFFICES ASSUME ChatInv, Ask PROVE ChatInv'
  OBVIOUS
<1>1. /\ chatPc = "round" /\ chatPc' = "asking" /\ history' = Compact(history, limit)
      /\ UNCHANGED <<msgCount, kept, spoiled, failed>>
      /\ shrunk' = (shrunk \/ history' # history)
  BY DEF Ask
<1>2. /\ history \in Seq(Messages) /\ Len(history) \in Nat /\ Len(history) >= 1
      /\ history[1] \in Messages /\ Busy
  BY <1>1, LenProperties, ElementOfSeq DEF ChatInv, ChatTyped, Busy
<1>3. /\ history' \in Seq(Messages) /\ Len(history') >= 1
      /\ ~spoiled => Good(history')
  BY <1>1, <1>2, CompactGood DEF ChatInv, GoodHistory
<1>4. ChatTyped'
  <2>1. shrunk' \in BOOLEAN /\ spoiled' \in BOOLEAN /\ failed' \in BOOLEAN
    BY <1>1, Zenon DEF ChatInv, ChatTyped
  <2>. QED BY <1>1, <1>2, <1>3, <2>1 DEF ChatInv, ChatTyped
<1>5. GoodHistory'
  BY <1>1, <1>2, <1>3 DEF ChatInv, GoodHistory
<1>6. Begun'
  <2>. SUFFICES ASSUME ~shrunk'
                PROVE  msgCount <= Len(history') /\ \A l \in 1..(msgCount - 1) : kept[l] = history'[l]
    BY <1>1, <1>2 DEF ChatInv, Begun
  <2>1. ~shrunk /\ history' = history
    BY <1>1, Zenon
  <2>. QED BY <1>2, <2>1 DEF ChatInv, Begun
<1>7. RolledBackUnlessShrunk'
  BY <1>1, <1>2 DEF ChatInv, Begun, RolledBackUnlessShrunk
<1>. QED BY <1>4, <1>5, <1>6, <1>7 DEF ChatInv

\* Messages come behind the history.
LEMMA ExtendStep ==
  ASSUME ChatInv, Busy, UNCHANGED <<msgCount, kept, shrunk, spoiled, failed>>,
         chatPc' \in {"idle", "round", "asking"},
         history' \in Seq(Messages), Len(history) <= Len(history'),
         \A l \in 1..Len(history) : history'[l] = history[l], ~spoiled => Whole(history')
  PROVE  ChatInv'
<1>1. /\ Len(history) \in Nat /\ Len(history) >= 1 /\ Len(history') \in Nat
      /\ history'[1] = history[1] /\ msgCount \in Nat /\ ~failed
  BY LenProperties DEF ChatInv, ChatTyped, Begun
<1>2. ChatTyped'
  BY <1>1 DEF ChatInv, ChatTyped
<1>3. Begun'
  BY <1>1 DEF ChatInv, ChatTyped, Begun
<1>4. GoodHistory'
  BY <1>1 DEF ChatInv, GoodHistory, Good
<1>. QED BY <1>1, <1>2, <1>3, <1>4 DEF ChatInv, RolledBackUnlessShrunk

LEMMA AnswerStep == ChatInv /\ Answer => ChatInv'
<1>. SUFFICES ASSUME ChatInv, Answer PROVE ChatInv'
  OBVIOUS
<1>1. /\ Busy /\ chatPc' = "idle" /\ history' = history \o <<Text>>
      /\ UNCHANGED <<msgCount, kept, shrunk, spoiled, failed>>
  BY DEF Answer, Appended, Busy
<1>2. /\ history \in Seq(Messages) /\ Len(history) \in Nat /\ Text \in Messages
      /\ Text.role = "text"
  BY MessageTypes, LenProperties DEF ChatInv, ChatTyped, Text, Message
<1>3. history' = Append(history, Text)
  BY <1>1, <1>2, AppendIsConcat
<1>4. /\ Append(history, Text) \in Seq(Messages)
      /\ Len(Append(history, Text)) = Len(history) + 1
      /\ Append(history, Text)[Len(history) + 1] = Text
      /\ \A l \in 1..Len(history) : Append(history, Text)[l] = history[l]
  BY <1>2, AppendProperties
<1>5. ~spoiled => Whole(Append(history, Text))
  BY <1>2, <1>4, OneMore DEF ChatInv, GoodHistory, Good
<1>6. Len(history) <= Len(Append(history, Text))
  BY <1>2, <1>4
<1>. QED BY <1>1, <1>3, <1>4, <1>5, <1>6, ExtendStep

\* The answers to a call are messages of tools, one for each.
LEMMA ResultsOfTools ==
  ASSUME NEW n \in 1..MaxCalls, NEW rs \in [1..n -> Result]
  PROVE  rs \in Seq(Messages) /\ Len(rs) = n /\ \A i \in 1..n : rs[i].role = "tool"
<1>1. n \in Nat /\ Result \subseteq Messages /\ \A r \in Result : r.role = "tool"
  BY ChatAssumption, MessageTypes DEF Result, Message
<1>2. rs \in [1..n -> Messages]
  BY <1>1
<1>3. rs \in Seq(Messages) /\ Len(rs) = n
  BY <1>1, <1>2
<1>. QED BY <1>1, <1>3

\* A history, a call and its answers, in one.
Together(d, h, a, rs) == d = h \o (<<a>> \o rs)

\* A call followed by its results keeps a history whole (streaming.go:144-188).
LEMMA CallBehind ==
  ASSUME NEW h \in Seq(Messages), Len(h) >= 1, NEW n \in Nat \ {0}, NEW a \in Messages,
         a.role = "call", a.calls = n, NEW rs \in Seq(Messages), Len(rs) = n,
         \A i \in 1..n : rs[i].role = "tool",
         NEW d, Together(d, h, a, rs)
  PROVE  /\ d \in Seq(Messages) /\ Len(d) = Len(h) + (n + 1) /\ \A l \in 1..Len(h) : d[l] = h[l]
         /\ Whole(h) => Whole(d)
<1>1. PICK t : t = <<a>> \o rs
  OBVIOUS
<1>2. /\ t \in Seq(Messages) /\ Len(t) = n + 1 /\ t[1] = a
      /\ \A j \in 1..n : t[j + 1] = rs[j]
  BY <1>1, Prepended
<1>3. d = h \o t
  BY <1>1, Zenon DEF Together
<1>4. Len(h) \in Nat
  BY LenProperties
<1>5. /\ h \o t \in Seq(Messages) /\ Len(h \o t) = Len(h) + Len(t)
      /\ \A j \in 1..(Len(h) + Len(t)) :
            (h \o t)[j] = IF j <= Len(h) THEN h[j] ELSE t[j - Len(h)]
  BY <1>2, ConcatProperties
<1>6. /\ d \in Seq(Messages) /\ Len(d) = Len(h) + (n + 1)
      /\ \A j \in 1..(Len(h) + (n + 1)) : d[j] = IF j <= Len(h) THEN h[j] ELSE t[j - Len(h)]
  BY <1>2, <1>3, <1>5
<1>7. \A l \in 1..Len(h) : d[l] = h[l]
  BY <1>4, <1>6
<1>8. d[Len(h) + 1] = a
  <2>1. Len(h) + 1 \in 1..(Len(h) + (n + 1)) /\ ~(Len(h) + 1 <= Len(h))
        /\ (Len(h) + 1) - Len(h) = 1
    BY <1>4
  <2>. QED BY <1>2, <1>6, <2>1
<1>9. \A l \in (Len(h) + 2)..Len(d) : d[l].role = "tool"
  <2>. SUFFICES ASSUME NEW l \in (Len(h) + 2)..Len(d) PROVE d[l].role = "tool"
    OBVIOUS
  <2>1. PICK j \in 1..n : l = Len(h) + (j + 1)
    <3>1. l - Len(h) - 1 \in 1..n /\ l = Len(h) + ((l - Len(h) - 1) + 1)
      BY <1>4, <1>6
    <3>. QED BY <3>1
  <2>2. d[l] = t[j + 1]
    <3>1. l \in 1..(Len(h) + (n + 1)) /\ ~(l <= Len(h)) /\ l - Len(h) = j + 1
      BY <1>4, <1>6, <2>1
    <3>. QED BY <1>6, <3>1
  <2>. QED BY <1>2, <2>2
<1>10. d[Len(h) + 1].role = "call" /\ d[Len(h) + 1].calls = n
  BY <1>8
<1>11. Whole(h) => Whole(d)
  BY <1>6, <1>7, <1>9, <1>10, CallMore, Zenon
<1>. QED BY <1>6, <1>7, <1>11, Zenon

LEMMA CallToolsStep == ChatInv /\ CallTools => ChatInv'
<1>. SUFFICES ASSUME ChatInv, CallTools PROVE ChatInv'
  OBVIOUS
<1>0. PICK n \in 1..MaxCalls : \E rs \in [1..n -> Result] : history' = history \o (<<Call(n)>> \o rs)
  BY Zenon DEF CallTools, Appended
<1>1. PICK rs \in [1..n -> Result] : history' = history \o (<<Call(n)>> \o rs)
  BY <1>0, Zenon
<1>2. Busy /\ chatPc' = "round" /\ UNCHANGED <<msgCount, kept, shrunk, spoiled, failed>>
  BY DEF CallTools, Busy
<1>3. n \in Nat \ {0} /\ Call(n) \in Messages /\ Call(n).role = "call" /\ Call(n).calls = n
  BY ChatAssumption, MessageTypes DEF Call, Message
<1>4. history \in Seq(Messages) /\ Len(history) >= 1 /\ Len(history) \in Nat
  BY LenProperties DEF ChatInv, ChatTyped
<1>5. rs \in Seq(Messages) /\ Len(rs) = n /\ \A i \in 1..n : rs[i].role = "tool"
  BY ResultsOfTools
<1>6. /\ history' \in Seq(Messages) /\ Len(history') = Len(history) + (n + 1)
      /\ \A l \in 1..Len(history) : history'[l] = history[l]
      /\ Whole(history) => Whole(history')
  <2>1. Together(history', history, Call(n), rs)
    BY <1>1, Zenon DEF Together
  <2>. QED BY <1>3, <1>4, <1>5, <2>1, CallBehind
<1>7. ~spoiled => Whole(history')
  BY <1>6 DEF ChatInv, GoodHistory, Good
<1>8. Len(history) <= Len(history')
  BY <1>3, <1>4, <1>6
<1>. QED BY <1>2, <1>6, <1>7, <1>8, ExtendStep

LEMMA ResetStep == ChatInv /\ Reset => ChatInv'
<1>. SUFFICES ASSUME ChatInv, Reset PROVE ChatInv'
  OBVIOUS
<1>1. System \in Messages /\ System.role # "call"
  BY MessageTypes DEF System, Message
<1>2. /\ <<System>> \in Seq(Messages) /\ Len(<<System>>) = 1 /\ <<System>>[1] = System
      /\ Whole(<<System>>)
  BY <1>1, Alone
<1>3. /\ chatPc = "idle" /\ chatPc' = "idle" /\ history' = <<System>> /\ shrunk' = shrunk
      /\ spoiled' = FALSE /\ failed' = FALSE
  BY DEF Reset
<1>4. ~Busy'
  BY <1>3 DEF Busy
<1>5. shrunk' \in BOOLEAN /\ spoiled' \in BOOLEAN /\ failed' \in BOOLEAN
  BY <1>3, Zenon DEF ChatInv, ChatTyped
<1>6. history' \in Seq(Messages) /\ Len(history') >= 1 /\ Good(history')
  BY <1>2, <1>3 DEF Good
<1>. QED BY <1>3, <1>4, <1>5, <1>6
     DEF ChatInv, ChatTyped, Begun, GoodHistory, RolledBackUnlessShrunk

LEMMA ChatStep == ChatInv /\ [ChatNext]_chatVars => ChatInv'
<1>. SUFFICES ASSUME ChatInv, [ChatNext]_chatVars PROVE ChatInv'
  OBVIOUS
<1>1. CASE HandleMessage
  BY <1>1, HandleStep
<1>2. CASE ChatCancelled
  BY <1>2, FailStep DEF ChatCancelled, Busy
<1>3. CASE Ask
  BY <1>3, AskStep
<1>4. CASE AskFails
  BY <1>4, FailStep DEF AskFails, Busy
<1>5. CASE Answer
  BY <1>5, AnswerStep
<1>6. CASE CallTools
  BY <1>6, CallToolsStep
<1>7. CASE RoundsUsedUp
  <2>1. /\ Busy /\ chatPc' = "idle" /\ history' = history
        /\ UNCHANGED <<msgCount, kept, shrunk, spoiled, failed>>
    BY <1>7 DEF RoundsUsedUp, Busy
  <2>2. history \in Seq(Messages) /\ Len(history) \in Nat /\ (~spoiled => Whole(history))
    BY LenProperties DEF ChatInv, ChatTyped, GoodHistory, Good
  <2>. QED BY <2>1, <2>2, ExtendStep
<1>8. CASE Reset
  BY <1>8, ResetStep
<1>9. CASE UNCHANGED chatVars
  BY <1>9 DEF chatVars, ChatInv, ChatTyped, Begun, GoodHistory, RolledBackUnlessShrunk, Busy
<1>. QED BY <1>1, <1>2, <1>3, <1>4, <1>5, <1>6, <1>7, <1>8, <1>9 DEF ChatNext

\* A failed turn of a chat, however many rounds it took, leaves the history exactly as it
\* was before the turn unless a round of it was compacted (streaming.go:82-86): for every
\* limit, window, number of rounds, calls and sizes of results.
THEOREM FailedTurnRollsBack == ChatSpec => []RolledBackUnlessShrunk
<1>1. ChatInit => ChatInv
  BY ChatStart
<1>2. ChatInv /\ [ChatNext]_chatVars => ChatInv'
  BY ChatStep
<1>3. ChatInv => RolledBackUnlessShrunk
  BY DEF ChatInv
<1>. QED BY <1>1, <1>2, <1>3, PTL DEF ChatSpec

\* No request asks the AI to go on from a tool call without all its answers or from answers
\* without their call, whatever was trimmed, compacted and rolled back before
\* (streaming.go:322-325, compact.go:3-6), as long as no rollback has gone wrong.
THEOREM RequestsStayWhole == ChatSpec => []RequestsWhole
<1>1. ChatInit => ChatInv
  BY ChatStart
<1>2. ChatInv /\ [ChatNext]_chatVars => ChatInv'
  BY ChatStep
<1>3. ChatInv => RequestsWhole
  BY DEF ChatInv, GoodHistory, Good, RequestsWhole
<1>. QED BY <1>1, <1>2, <1>3, PTL DEF ChatSpec

(***************************************************************************)
(* What is asked for fits the window.                                      *)
(***************************************************************************)
FitInv == limit \in ContextLimits /\ RequestsFit

LEMMA FitStart == ChatInit => FitInv
BY DEF ChatInit, FitInv, RequestsFit

LEMMA FitStep == ChatInv /\ FitInv /\ [ChatNext]_chatVars => FitInv'
<1>. SUFFICES ASSUME ChatInv, FitInv, [ChatNext]_chatVars PROVE FitInv'
  OBVIOUS
<1>1. CASE Ask
  <2>1. /\ history' = Compact(history, limit) /\ limit' = limit
        /\ history \in Seq(Messages) /\ Len(history) >= 1
    BY <1>1 DEF Ask, ChatInv, ChatTyped
  <2>2. limit \in Nat
    BY ChatAssumption DEF FitInv
  <2>3. Fits(Compact(history, limit), limit)
    BY <2>1, <2>2, CompactFits
  <2>4. Fits(history', limit')
    BY <2>1, <2>3, Zenon
  <2>. QED BY <2>1, <2>4 DEF FitInv, RequestsFit
<1>2. CASE HandleMessage
  BY <1>2 DEF HandleMessage, FitInv, RequestsFit
<1>3. CASE ChatCancelled \/ AskFails
  BY <1>3 DEF ChatCancelled, AskFails, Fail, FitInv, RequestsFit
<1>4. CASE Answer
  BY <1>4 DEF Answer, FitInv, RequestsFit
<1>5. CASE CallTools
  BY <1>5 DEF CallTools, FitInv, RequestsFit
<1>6. CASE RoundsUsedUp \/ Reset
  BY <1>6 DEF RoundsUsedUp, Reset, FitInv, RequestsFit
<1>7. CASE UNCHANGED chatVars
  <2>1. chatPc' = chatPc /\ history' = history /\ limit' = limit
    BY <1>7 DEF chatVars
  <2>. QED BY <2>1, Zenon DEF FitInv, RequestsFit
<1>. QED BY <1>1, <1>2, <1>3, <1>4, <1>5, <1>6, <1>7 DEF ChatNext

\* Every request fits the context window, with all results of the rounds before
\* (streaming.go:99-101), for every window.
THEOREM RequestsAlwaysFit == ChatSpec => []RequestsFit
<1>1. ChatInit => ChatInv /\ FitInv
  BY ChatStart, FitStart
<1>2. ChatInv /\ FitInv /\ [ChatNext]_chatVars => (ChatInv /\ FitInv)'
  BY ChatStep, FitStep
<1>3. FitInv => RequestsFit
  BY DEF FitInv
<1>. QED BY <1>1, <1>2, <1>3, PTL DEF ChatSpec

(***************************************************************************)
(* The conversation that Bedrock is sent.  The turns are the longest       *)
(* stretches of one role, whatever the history is; in a whole history a    *)
(* call ends its stretch and its answers begin the next.                   *)
(***************************************************************************)
Turns == [role : {"user", "assistant"}, content : Seq(Messages)]

LEMMA TurnOf ==
  ASSUME NEW m \in Messages
  PROVE  /\ Converted(m) \in Turns /\ Converted(m).role = BedrockRole(m)
         /\ Converted(m).content = <<m>> /\ BedrockRole(m) \in {"user", "assistant"}
BY DEF Turns, Converted, BedrockRole

\* Merged with the last turn,
Longer(t, m) == [role |-> t.role, content |-> t.content \o <<m>>]

LEMMA GrownTyped ==
  ASSUME NEW t \in Turns, NEW m \in Messages PROVE Longer(t, m) \in Turns
<1>1. t.content \in Seq(Messages) /\ <<m>> \in Seq(Messages) /\ t.role \in {"user", "assistant"}
  BY DEF Turns
<1>2. t.content \o <<m>> \in Seq(Messages)
  BY <1>1, ConcatProperties
<1>. QED BY <1>1, <1>2 DEF Turns, Longer

LEMMA MergedLast ==
  ASSUME NEW u \in Seq(Turns), NEW t \in Turns, NEW m \in Messages, t.role = BedrockRole(m)
  PROVE  Merge(Append(u, t), Converted(m)) = Append(u, Longer(t, m))
<1>1. PICK T \in Seq(Turns) : T = Append(u, t)
  BY AppendProperties
<1>2. PICK n \in Nat : n = Len(u)
  BY LenProperties
<1>3. Len(T) = n + 1 /\ T[n + 1] = t /\ \A i \in 1..n : T[i] = u[i]
  BY <1>1, <1>2, AppendProperties
<1>4. T # <<>> /\ Last(T) = t
  <2>1. Last(T) = T[Len(T)]
    BY DEF Last
  <2>. QED BY <1>3, <2>1, EmptySeq
<1>5. Merge(T, Converted(m)) = [T EXCEPT ![n + 1].content = @ \o <<m>>]
  BY <1>3, <1>4, TurnOf, Zenon DEF Merge
<1>6. [T EXCEPT ![n + 1].content = @ \o <<m>>] = [T EXCEPT ![n + 1] = Longer(t, m)]
  <2>1. PICK c \in Seq(Messages) : c = t.content \o <<m>>
    <3>1. Longer(t, m) \in Turns
      BY GrownTyped
    <3>. QED BY <3>1 DEF Longer, Turns
  <2>2. [t EXCEPT !.content = c] = Longer(t, m)
    <3>1. [t EXCEPT !.content = c] = [role |-> t.role, content |-> c]
      BY DEF Turns
    <3>. QED BY <2>1, <3>1, Zenon DEF Longer
  <2>. QED BY <1>3, <2>1, <2>2, Zenon
<1>7. PICK g \in Turns : g = Longer(t, m)
  BY GrownTyped
<1>8. [T EXCEPT ![n + 1] = g] = Append(u, g)
  <2>1. PICK X : X = [T EXCEPT ![n + 1] = g]
    OBVIOUS
  <2>2. n + 1 \in 1..Len(T)
    BY <1>3
  <2>3. X \in Seq(Turns) /\ Len(X) = n + 1 /\ X[n + 1] = g /\ \A i \in 1..n : X[i] = T[i]
    BY <1>3, <2>1, <2>2, ExceptSeq
  <2>4. PICK Y \in Seq(Turns) : /\ Y = Append(u, g) /\ Len(Y) = n + 1 /\ Y[n + 1] = g
                                /\ \A i \in 1..n : Y[i] = u[i]
    <3>1. /\ Append(u, g) \in Seq(Turns) /\ Len(Append(u, g)) = n + 1 /\ Append(u, g)[n + 1] = g
          /\ \A i \in 1..n : Append(u, g)[i] = u[i]
      BY <1>2, AppendProperties
    <3>. QED BY <3>1
  <2>5. \A i \in 1..Len(X) : X[i] = Y[i]
    <3>1. \A i \in 1..(n + 1) : i \in 1..n \/ i = n + 1
      OBVIOUS
    <3>. QED BY <1>3, <2>3, <2>4, <3>1
  <2>6. X = Y
    BY <2>3, <2>4, <2>5, SeqEqual
  <2>. QED BY <2>1, <2>4, <2>6
<1>. QED BY <1>1, <1>5, <1>6, <1>7, <1>8, Zenon

\* or behind it.
LEMMA MergedBehind ==
  ASSUME NEW T \in Seq(Turns), NEW m \in Messages,
         T = <<>> \/ Last(T).role # BedrockRole(m)
  PROVE  Merge(T, Converted(m)) = Append(T, Converted(m))
BY TurnOf, Zenon DEF Merge

IsConversion(f, s) ==
    f = [S \in SUBSET (1..Len(s)) |-> IF S = {} THEN <<>> ELSE AddMessage(f[S \ {Max(S)}], s[Max(S)])]

LEMMA AddTyped ==
  ASSUME NEW T \in Seq(Turns), NEW m \in Messages PROVE AddMessage(T, m) \in Seq(Turns)
<1>1. CASE m.role = "system"
  BY <1>1 DEF AddMessage
<1>2. CASE m.role # "system"
  <2>1. AddMessage(T, m) = Merge(T, Converted(m))
    BY <1>2 DEF AddMessage
  <2>2. CASE T = <<>> \/ Last(T).role # BedrockRole(m)
    BY <2>1, <2>2, MergedBehind, TurnOf, AppendProperties
  <2>3. CASE T # <<>> /\ Last(T).role = BedrockRole(m)
    <3>1. PICK u \in Seq(Turns), t \in Turns : T = Append(u, t)
      BY <2>3, SequenceEmptyOrAppend
    <3>2. Last(T) = t
      <4>1. Last(T) = T[Len(T)]
        BY DEF Last
      <4>. QED BY <3>1, <4>1, AppendProperties, LenProperties
    <3>3. Append(u, Longer(t, m)) \in Seq(Turns)
      BY GrownTyped, AppendProperties
    <3>4. Merge(Append(u, t), Converted(m)) = Append(u, Longer(t, m))
      BY <2>3, <3>2, MergedLast
    <3>. QED BY <2>1, <3>1, <3>3, <3>4
  <2>. QED BY <2>2, <2>3
<1>. QED BY <1>1, <1>2

\* The function that the fold of Converse defines exists.
LEMMA ConversionExists ==
  ASSUME NEW s \in Seq(Messages)
  PROVE  \E f \in [SUBSET (1..Len(s)) -> Seq(Turns)] : IsConversion(f, s)
<1>. DEFINE n == Len(s)
            step == [x \in Seq(Turns) \X (1..n) |-> AddMessage(x[1], s[x[2]])]
<1>1. n \in Nat /\ <<>> \in Seq(Turns) /\ step \in [Seq(Turns) \X (1..n) -> Seq(Turns)]
  <2>1. ASSUME NEW r \in Seq(Turns), NEW k \in 1..n PROVE AddMessage(r, s[k]) \in Seq(Turns)
    BY ElementOfSeq, AddTyped
  <2>2. <<>> \in Seq(Turns)
    OBVIOUS
  <2>. QED BY <2>1, <2>2, LenProperties
<1>2. PICK f \in [SUBSET (1..n) -> Seq(Turns)] : IsFold(f, n, <<>>, step)
  <2>. HIDE DEF n, step
  <2>. QED BY <1>1, FoldExists DEF FoldIn
<1>3. ASSUME NEW S \in SUBSET (1..n), S # {}
      PROVE  step[<<f[S \ {Max(S)}], Max(S)>>] = AddMessage(f[S \ {Max(S)}], s[Max(S)])
  <2>1. S \ {Max(S)} \in SUBSET (1..n) /\ Max(S) \in 1..n
    BY <1>1, <1>3, LargestIn
  <2>2. PICK v \in Seq(Turns), k \in 1..n : v = f[S \ {Max(S)}] /\ k = Max(S)
    BY <2>1
  <2>3. step[<<v, k>>] = AddMessage(v, s[k])
    OBVIOUS
  <2>. QED BY <2>2, <2>3, Zenon
<1>4. f = [S \in SUBSET (1..n) |-> IF S = {} THEN <<>> ELSE AddMessage(f[S \ {Max(S)}], s[Max(S)])]
  <2>. HIDE DEF step
  <2>. QED BY <1>2, <1>3, Zenon DEF IsFold
<1>. QED BY <1>4, Zenon DEF IsConversion

\* The turns after k messages.
TurnsTo(s, k) == (CHOOSE f : IsConversion(f, s))[1..k]

LEMMA TurnsOn ==
  ASSUME NEW s \in Seq(Messages)
  PROVE  /\ TurnsTo(s, 0) = <<>> /\ Converse(s) = TurnsTo(s, Len(s))
         /\ \A k \in 1..Len(s) : TurnsTo(s, k) = AddMessage(TurnsTo(s, k - 1), s[k])
<1>. DEFINE n == Len(s)
<1>0. n \in Nat
  BY LenProperties
<1>1. PICK f : f = CHOOSE g : IsConversion(g, s)
  OBVIOUS
<1>2. IsConversion(f, s)
  BY <1>1, ConversionExists, Zenon
<1>3. \A S \in SUBSET (1..n) : f[S] = IF S = {} THEN <<>> ELSE AddMessage(f[S \ {Max(S)}], s[Max(S)])
  BY <1>2, Zenon DEF IsConversion
<1>4. f[1..0] = <<>>
  <2>1. 1..0 = {} /\ {} \in SUBSET (1..n)
    OBVIOUS
  <2>. QED BY <1>3, <2>1, Zenon
<1>5. ASSUME NEW k \in 1..n PROVE f[1..k] = AddMessage(f[1..(k - 1)], s[k])
  <2>1. 1..k \in SUBSET (1..n) /\ 1..k # {} /\ Max(1..k) = k /\ (1..k) \ {k} = 1..(k - 1)
    BY <1>0, FirstPositions
  <2>. QED BY <1>3, <2>1, Zenon
<1>6. Converse(s) = TurnsTo(s, Len(s))
  <2>1. DOMAIN s = 1..Len(s)
    OBVIOUS
  <2>. QED BY <2>1, Zenon DEF Converse, FoldLeft, MapThenFoldSet, TurnsTo, IsConversion
<1>. QED BY <1>1, <1>4, <1>5, <1>6, Zenon DEF TurnsTo

(***************************************************************************)
(* Turn i holds the messages behind the o[i]-th up to the o[i + 1]-th.     *)
(***************************************************************************)
Holds(t, ms, a, b) ==
    /\ a < b /\ Len(t.content) = b - a
    /\ \A j \in 1..(b - a) : t.content[j] = ms[a + j] /\ BedrockRole(ms[a + j]) = t.role

Layout(T, ms, k, o) ==
    /\ o \in [1..(Len(T) + 1) -> 1..k] /\ o[1] = 1 /\ o[Len(T) + 1] = k
    /\ \A i \in 1..Len(T) : Holds(T[i], ms, o[i], o[i + 1])
    /\ \A i \in 1..(Len(T) - 1) : T[i].role # T[i + 1].role

LaidOut(T, ms, k) == T \in Seq(Turns) /\ \E o : Layout(T, ms, k, o)

\* One message more in the last turn,
LEMMA HoldsMore ==
  ASSUME NEW t \in Turns, NEW ms \in Seq(Messages), NEW a \in Nat, NEW k \in Nat,
         k + 1 \in 1..Len(ms), Holds(t, ms, a, k), BedrockRole(ms[k + 1]) = t.role
  PROVE  Holds(Longer(t, ms[k + 1]), ms, a, k + 1)
<1>1. PICK m \in Messages : m = ms[k + 1]
  BY ElementOfSeq
<1>2. PICK c \in Seq(Messages) : c = t.content
  BY DEF Turns
<1>3. PICK n \in Nat : n = k - a /\ Len(c) = n /\ n = Len(t.content)
  BY <1>2 DEF Holds
<1>4. PICK q \in Seq(Messages) : q = <<m>> /\ Len(q) = 1 /\ q[1] = m
  <2>1. <<m>> \in Seq(Messages) /\ Len(<<m>>) = 1 /\ <<m>>[1] = m
    OBVIOUS
  <2>. QED BY <2>1
<1>5. Len(c \o q) = n + 1 /\ \A j \in 1..(n + 1) : (c \o q)[j] = IF j <= n THEN c[j] ELSE q[j - n]
  <2>1. Len(c \o q) = Len(c) + Len(q)
        /\ \A j \in 1..(Len(c) + Len(q)) : (c \o q)[j] = IF j <= Len(c) THEN c[j] ELSE q[j - Len(c)]
    BY ConcatProperties
  <2>. QED BY <1>3, <1>4, <2>1
<1>6. PICK d : d = c \o q /\ d = c \o <<m>>
  BY <1>4
<1>7. d[n + 1] = m /\ \A j \in 1..n : d[j] = c[j]
  <2>1. n + 1 \in 1..(n + 1) /\ ~(n + 1 <= n) /\ (n + 1) - n = 1 /\ \A j \in 1..n : j \in 1..(n + 1) /\ j <= n
    OBVIOUS
  <2>. QED BY <1>4, <1>5, <1>6, <2>1
<1>8. Longer(t, m).content = d /\ Longer(t, m).role = t.role
  BY <1>2, <1>6 DEF Longer
<1>9. a < k + 1 /\ (k + 1) - a = n + 1 /\ a + (n + 1) = k + 1
  BY <1>3 DEF Holds
<1>10. ASSUME NEW j \in 1..(n + 1) PROVE d[j] = ms[a + j] /\ BedrockRole(ms[a + j]) = t.role
  <2>1. CASE j = n + 1
    BY <1>1, <1>7, <1>9, <2>1
  <2>2. CASE j \in 1..n
    <3>1. t.content[j] = ms[a + j] /\ BedrockRole(ms[a + j]) = t.role
      BY <1>3, <2>2, Zenon DEF Holds
    <3>. QED BY <1>2, <1>7, <2>2, <3>1
  <2>. QED BY <2>1, <2>2
<1>. QED BY <1>1, <1>5, <1>6, <1>8, <1>9, <1>10 DEF Holds

\* How long T is does not matter to what is known of its turns.
LEMMA MergedLaidOut ==
  ASSUME NEW u \in Seq(Turns), NEW t \in Turns, NEW ms \in Seq(Messages), NEW k \in Nat,
         k + 1 \in 1..Len(ms), LaidOut(Append(u, t), ms, k), BedrockRole(ms[k + 1]) = t.role
  PROVE  LaidOut(Append(u, Longer(t, ms[k + 1])), ms, k + 1)
<1>1. PICK T \in Seq(Turns) : T = Append(u, t)
  BY AppendProperties
<1>2. PICK n \in Nat : n = Len(u)
  BY LenProperties
<1>3. Len(T) = n + 1 /\ T[n + 1] = t /\ \A i \in 1..n : T[i] = u[i]
  BY <1>1, <1>2, AppendProperties
<1>4. PICK g \in Turns : g = Longer(t, ms[k + 1])
  BY GrownTyped, ElementOfSeq
<1>5. PICK X \in Seq(Turns) : /\ X = Append(u, g) /\ Len(X) = n + 1 /\ X[n + 1] = g
                             /\ \A i \in 1..n : X[i] = u[i]
  <2>1. /\ Append(u, g) \in Seq(Turns) /\ Len(Append(u, g)) = n + 1 /\ Append(u, g)[n + 1] = g
        /\ \A i \in 1..n : Append(u, g)[i] = u[i]
    BY <1>2, AppendProperties
  <2>. QED BY <2>1
<1>6. PICK o : Layout(T, ms, k, o)
  BY <1>1 DEF LaidOut
<1>7. /\ o \in [1..(n + 2) -> 1..k] /\ o[1] = 1 /\ o[n + 2] = k
      /\ \A i \in 1..(n + 1) : Holds(T[i], ms, o[i], o[i + 1])
      /\ \A i \in 1..n : T[i].role # T[i + 1].role
  <2>1. Len(T) + 1 = n + 2 /\ Len(T) - 1 = n
    BY <1>3
  <2>. QED BY <1>3, <1>6, <2>1, Zenon DEF Layout
<1>8. PICK w : w = [o EXCEPT ![n + 2] = k + 1]
  OBVIOUS
<1>9. /\ w \in [1..(n + 2) -> 1..(k + 1)] /\ w[1] = 1 /\ w[n + 2] = k + 1
      /\ \A i \in 1..(n + 1) : w[i] = o[i]
  BY <1>7, <1>8
<1>10. ASSUME NEW i \in 1..(n + 1) PROVE Holds(X[i], ms, w[i], w[i + 1])
  <2>1. CASE i = n + 1
    <3>1. Holds(t, ms, o[n + 1], k) /\ o[n + 1] \in Nat
      <4>1. n + 1 \in 1..(n + 1) /\ (n + 1) + 1 = n + 2 /\ n + 1 \in 1..(n + 2)
        OBVIOUS
      <4>2. o[n + 1] \in 1..k
        BY <1>7, <4>1
      <4>3. Holds(T[n + 1], ms, o[n + 1], o[(n + 1) + 1])
        BY <1>7, <4>1
      <4>. QED BY <1>3, <1>7, <4>1, <4>2, <4>3
    <3>2. Holds(g, ms, o[n + 1], k + 1)
      BY <1>4, <3>1, HoldsMore
    <3>3. n + 1 \in 1..(n + 1) /\ i + 1 = n + 2
      BY <2>1
    <3>. QED BY <1>5, <1>9, <2>1, <3>2, <3>3, Zenon
  <2>2. CASE i \in 1..n
    <3>1. i + 1 \in 1..(n + 1) /\ i \in 1..(n + 1)
      BY <2>2
    <3>. QED BY <1>3, <1>5, <1>7, <1>9, <2>2, <3>1, Zenon
  <2>. QED BY <2>1, <2>2
<1>11. ASSUME NEW i \in 1..n PROVE X[i].role # X[i + 1].role
  <2>1. X[i] = T[i] /\ T[i].role # T[i + 1].role
    BY <1>3, <1>5, <1>7
  <2>2. X[i + 1].role = T[i + 1].role
    <3>1. CASE i = n
      BY <1>3, <1>4, <1>5, <3>1 DEF Longer
    <3>2. CASE i + 1 \in 1..n
      BY <1>3, <1>5, <3>2
    <3>. QED BY <3>1, <3>2
  <2>. QED BY <2>1, <2>2
<1>12. Layout(X, ms, k + 1, w)
  <2>1. Len(X) + 1 = n + 2 /\ Len(X) - 1 = n
    BY <1>5
  <2>. QED BY <1>5, <1>9, <1>10, <1>11, <2>1, Zenon DEF Layout
<1>. QED BY <1>4, <1>5, <1>12, Zenon DEF LaidOut

\* or in a turn behind.
LEMMA BehindLaidOut ==
  ASSUME NEW T \in Seq(Turns), NEW ms \in Seq(Messages), NEW k \in Nat,
         k + 1 \in 1..Len(ms), LaidOut(T, ms, k),
         T = <<>> \/ Last(T).role # BedrockRole(ms[k + 1])
  PROVE  LaidOut(Append(T, Converted(ms[k + 1])), ms, k + 1)
<1>1. PICK n \in Nat : n = Len(T)
  BY LenProperties
<1>2. PICK m \in Messages : m = ms[k + 1]
  BY ElementOfSeq
<1>3. PICK g \in Turns : g = Converted(m) /\ g.role = BedrockRole(m) /\ g.content = <<m>>
  BY TurnOf
<1>4. PICK X \in Seq(Turns) : /\ X = Append(T, g) /\ Len(X) = n + 1 /\ X[n + 1] = g
                             /\ \A i \in 1..n : X[i] = T[i]
  <2>1. /\ Append(T, g) \in Seq(Turns) /\ Len(Append(T, g)) = n + 1 /\ Append(T, g)[n + 1] = g
        /\ \A i \in 1..n : Append(T, g)[i] = T[i]
    BY <1>1, AppendProperties
  <2>. QED BY <2>1
<1>5. PICK o : Layout(T, ms, k, o)
  BY DEF LaidOut
<1>6. /\ o \in [1..(n + 1) -> 1..k] /\ o[1] = 1 /\ o[n + 1] = k
      /\ \A i \in 1..n : Holds(T[i], ms, o[i], o[i + 1])
      /\ \A i \in 1..(n - 1) : T[i].role # T[i + 1].role
  BY <1>1, <1>5, Zenon DEF Layout
<1>7. PICK w : w = [i \in 1..(n + 2) |-> IF i \in 1..(n + 1) THEN o[i] ELSE k + 1]
  OBVIOUS
<1>8. /\ w \in [1..(n + 2) -> 1..(k + 1)] /\ w[1] = 1 /\ w[n + 2] = k + 1
      /\ \A i \in 1..(n + 1) : w[i] = o[i]
  BY <1>6, <1>7
<1>9. ASSUME NEW i \in 1..(n + 1) PROVE Holds(X[i], ms, w[i], w[i + 1])
  <2>1. CASE i = n + 1
    <3>1. Holds(g, ms, k, k + 1)
      <4>1. (k + 1) - k = 1 /\ k < k + 1 /\ Len(<<m>>) = 1 /\ <<m>>[1] = m
        OBVIOUS
      <4>2. \A j \in 1..1 : j = 1
        OBVIOUS
      <4>. QED BY <1>2, <1>3, <4>1, <4>2, Zenon DEF Holds
    <3>2. w[i] = k /\ w[i + 1] = k + 1
      <4>1. n + 1 \in 1..(n + 1) /\ i + 1 = n + 2
        BY <2>1
      <4>. QED BY <1>6, <1>8, <2>1, <4>1
    <3>. QED BY <1>4, <2>1, <3>1, <3>2
  <2>2. CASE i \in 1..n
    <3>1. i + 1 \in 1..(n + 1) /\ i \in 1..(n + 1)
      BY <2>2
    <3>. QED BY <1>4, <1>6, <1>8, <2>2, <3>1, Zenon
  <2>. QED BY <2>1, <2>2
<1>10. ASSUME NEW i \in 1..n PROVE X[i].role # X[i + 1].role
  <2>1. CASE i = n
    <3>1. T # <<>> /\ Last(T) = T[n]
      BY <1>1, <2>1, EmptySeq DEF Last
    <3>. QED BY <1>2, <1>3, <1>4, <2>1, <3>1
  <2>2. CASE i \in 1..(n - 1)
    <3>1. i + 1 \in 1..n
      BY <2>2
    <3>. QED BY <1>4, <1>6, <2>2, <3>1
  <2>. QED BY <2>1, <2>2
<1>11. Layout(X, ms, k + 1, w)
  <2>1. Len(X) + 1 = n + 2 /\ Len(X) - 1 = n
    BY <1>4
  <2>. QED BY <1>4, <1>8, <1>9, <1>10, <2>1, Zenon DEF Layout
<1>. QED BY <1>2, <1>3, <1>4, <1>11, Zenon DEF LaidOut

\* What the turns say in all.
Contents(T) == [i \in DOMAIN T |-> T[i].content]

LEMMA ContentsTyped ==
  ASSUME NEW T \in Seq(Turns)
  PROVE  /\ Contents(T) \in Seq(Seq(Messages)) /\ Len(Contents(T)) = Len(T)
         /\ \A i \in 1..Len(T) : Contents(T)[i] = T[i].content
<1>1. PICK n \in Nat : n = Len(T) /\ DOMAIN T = 1..n
  BY LenProperties
<1>2. \A i \in 1..n : T[i].content \in Seq(Messages)
  <2>1. \A i \in 1..n : T[i] \in Turns
    BY <1>1, ElementOfSeq
  <2>. QED BY <2>1 DEF Turns
<1>3. PICK c : c = [i \in 1..n |-> T[i].content]
  OBVIOUS
<1>4. c \in Seq(Seq(Messages)) /\ Len(c) = n /\ \A i \in 1..n : c[i] = T[i].content
  BY <1>2, <1>3
<1>5. Contents(T) = c
  BY <1>1, <1>3, Zenon DEF Contents
<1>. QED BY <1>1, <1>4, <1>5

LEMMA ContentsAppend ==
  ASSUME NEW u \in Seq(Turns), NEW t \in Turns
  PROVE  Contents(Append(u, t)) = Append(Contents(u), t.content)
<1>1. PICK n \in Nat : n = Len(u)
  BY LenProperties
<1>2. PICK T \in Seq(Turns) : T = Append(u, t) /\ Len(T) = n + 1 /\ T[n + 1] = t /\ \A i \in 1..n : T[i] = u[i]
  <2>1. /\ Append(u, t) \in Seq(Turns) /\ Len(Append(u, t)) = n + 1 /\ Append(u, t)[n + 1] = t
        /\ \A i \in 1..n : Append(u, t)[i] = u[i]
    BY <1>1, AppendProperties
  <2>. QED BY <2>1
<1>3. PICK c \in Seq(Seq(Messages)) : /\ c = Contents(u) /\ Len(c) = n
                                      /\ \A i \in 1..n : c[i] = u[i].content
  BY <1>1, ContentsTyped
<1>4. PICK d \in Seq(Seq(Messages)) : /\ d = Contents(T) /\ Len(d) = n + 1
                                      /\ \A i \in 1..(n + 1) : d[i] = T[i].content
  BY <1>2, ContentsTyped
<1>5. PICK a \in Seq(Messages) : a = t.content
  BY DEF Turns
<1>6. PICK e \in Seq(Seq(Messages)) : /\ e = Append(c, a) /\ Len(e) = n + 1 /\ e[n + 1] = a
                                      /\ \A i \in 1..n : e[i] = c[i]
  <2>1. /\ Append(c, a) \in Seq(Seq(Messages)) /\ Len(Append(c, a)) = n + 1 /\ Append(c, a)[n + 1] = a
        /\ \A i \in 1..n : Append(c, a)[i] = c[i]
    BY <1>3, AppendProperties
  <2>. QED BY <2>1
<1>7. \A i \in 1..Len(d) : d[i] = e[i]
  <2>1. \A i \in 1..(n + 1) : i \in 1..n \/ i = n + 1
    OBVIOUS
  <2>2. ASSUME NEW i \in 1..n PROVE i \in 1..(n + 1) /\ d[i] = e[i]
    <3>1. i \in 1..(n + 1)
      OBVIOUS
    <3>2. d[i] = T[i].content /\ T[i] = u[i] /\ c[i] = u[i].content /\ e[i] = c[i]
      BY <1>2, <1>3, <1>4, <1>6, <3>1
    <3>. QED BY <3>1, <3>2, Zenon
  <2>3. d[n + 1] = e[n + 1] /\ n + 1 \in 1..(n + 1)
    BY <1>2, <1>4, <1>5, <1>6
  <2>. QED BY <1>4, <2>1, <2>2, <2>3
<1>8. d = e
  BY <1>4, <1>6, <1>7, SeqEqual
<1>. QED BY <1>2, <1>3, <1>4, <1>5, <1>6, <1>8

\* One message more is said, whether it is merged or not.
LEMMA OneMoreSaid ==
  ASSUME NEW T \in Seq(Turns), NEW m \in Messages
  PROVE  /\ FlattenSeq(Contents(Append(T, Converted(m)))) = FlattenSeq(Contents(T)) \o <<m>>
         /\ \A t \in Turns : FlattenSeq(Contents(Append(T, Longer(t, m))))
                               = FlattenSeq(Contents(Append(T, t))) \o <<m>>
<1>1. PICK c \in Seq(Seq(Messages)) : c = Contents(T)
  BY ContentsTyped
<1>2. <<m>> \in Seq(Messages)
  OBVIOUS
<1>3. FlattenSeq(Contents(Append(T, Converted(m)))) = FlattenSeq(Contents(T)) \o <<m>>
  <2>1. Contents(Append(T, Converted(m))) = Append(c, <<m>>)
    <3>1. PICK g \in Turns : g = Converted(m) /\ g.content = <<m>>
      BY TurnOf
    <3>2. Contents(Append(T, g)) = Append(Contents(T), g.content)
      BY ContentsAppend
    <3>. QED BY <1>1, <3>1, <3>2, Zenon
  <2>2. FlattenSeq(Append(c, <<m>>)) = FlattenSeq(c) \o <<m>>
    BY <1>2, FlattenAppend
  <2>. QED BY <1>1, <2>1, <2>2, Zenon
<1>4. ASSUME NEW t \in Turns
      PROVE  FlattenSeq(Contents(Append(T, Longer(t, m)))) = FlattenSeq(Contents(Append(T, t))) \o <<m>>
  <2>1. PICK a \in Seq(Messages) : a = t.content
    BY DEF Turns
  <2>2. a \o <<m>> \in Seq(Messages)
    BY <1>2, ConcatProperties
  <2>3. Contents(Append(T, t)) = Append(c, a)
    BY <1>1, <2>1, ContentsAppend, Zenon
  <2>4. Contents(Append(T, Longer(t, m))) = Append(c, a \o <<m>>)
    <3>1. PICK g \in Turns : g = Longer(t, m)
      BY GrownTyped
    <3>2. g.content = a \o <<m>>
      BY <2>1, <3>1 DEF Longer
    <3>3. Contents(Append(T, g)) = Append(Contents(T), g.content)
      BY ContentsAppend
    <3>. QED BY <1>1, <3>1, <3>2, <3>3, Zenon
  <2>5. FlattenSeq(Append(c, a)) = FlattenSeq(c) \o a
    BY FlattenAppend
  <2>6. FlattenSeq(Append(c, a \o <<m>>)) = FlattenSeq(c) \o (a \o <<m>>)
    BY <2>2, FlattenAppend
  <2>7. PICK q \in Seq(Messages) : q = <<m>>
    BY <1>2
  <2>8. Associates(FlattenSeq(c), a, q)
    <3>1. FlattenSeq(c) \in Seq(Messages)
      BY FlattenType
    <3>. QED BY <3>1, ConcatThree
  <2>. QED BY <2>3, <2>4, <2>5, <2>6, <2>7, <2>8, Zenon DEF Associates
<1>. QED BY <1>3, <1>4, Zenon

(***************************************************************************)
(* The turns of a history that begins with its only system prompt.         *)
(***************************************************************************)
Prompted(ms) ==
    /\ ms \in Seq(Messages) /\ Len(ms) \in Nat \ {0} /\ ms[1].role = "system"
    /\ \A i \in 2..Len(ms) : ms[i].role # "system" /\ (ms[i].role = "call" => ms[i].calls # 0)

Arranged(T, ms, k) == LaidOut(T, ms, k) /\ FlattenSeq(Contents(T)) = SubSeq(ms, 2, k)

LEMMA NothingArranged ==
  ASSUME NEW ms, Prompted(ms) PROVE Arranged(<<>>, ms, 1)
<1>1. PICK T \in Seq(Turns) : T = <<>> /\ Len(T) = 0
  <2>1. <<>> \in Seq(Turns) /\ Len(<<>>) = 0
    OBVIOUS
  <2>. QED BY <2>1, Zenon
<1>2. PICK o : o = [i \in 1..1 |-> 1]
  OBVIOUS
<1>3. o \in [1..1 -> 1..1] /\ o[1] = 1 /\ 1..0 = {}
  BY <1>2
<1>4. Layout(T, ms, 1, o)
  <2>1. Len(T) + 1 = 1 /\ 1..Len(T) = {} /\ 1..(Len(T) - 1) = {}
    BY <1>1
  <2>. QED BY <1>3, <2>1, Zenon DEF Layout
<1>5. FlattenSeq(Contents(T)) = <<>>
  <2>1. Contents(T) \in Seq(Seq(Messages)) /\ Len(Contents(T)) = 0
    BY <1>1, ContentsTyped
  <2>2. Contents(T) = <<>>
    BY <2>1, EmptySeq
  <2>. QED BY <2>2, FlattenEmpty, Zenon
<1>6. SubSeq(ms, 2, 1) = <<>>
  BY SubSeqEmpty
<1>. QED BY <1>1, <1>4, <1>5, <1>6, Zenon DEF Arranged, LaidOut

LEMMA ArrangedNext ==
  ASSUME NEW ms, Prompted(ms), NEW k \in Nat \ {0}, k + 1 \in 1..Len(ms),
         NEW T, Arranged(T, ms, k)
  PROVE  Arranged(AddMessage(T, ms[k + 1]), ms, k + 1)
<1>0. ms \in Seq(Messages) /\ Len(ms) \in Nat /\ k \in Nat
  BY DEF Prompted
<1>1. PICK m \in Messages : m = ms[k + 1] /\ m.role # "system"
  <2>1. k + 1 \in 2..Len(ms)
    BY <1>0
  <2>2. ms[k + 1] \in Messages
    BY <1>0, ElementOfSeq
  <2>. QED BY <2>1, <2>2 DEF Prompted
<1>2. T \in Seq(Turns) /\ LaidOut(T, ms, k) /\ FlattenSeq(Contents(T)) = SubSeq(ms, 2, k)
  BY DEF Arranged, LaidOut
<1>3. AddMessage(T, m) = Merge(T, Converted(m))
  BY <1>1 DEF AddMessage
<1>4. SubSeq(ms, 2, k + 1) = SubSeq(ms, 2, k) \o <<m>>
  <2>1. PICK l : l = k + 1
    OBVIOUS
  <2>2. 2 \in 1..Len(ms) /\ l \in 2..Len(ms) /\ l - 1 = k
    BY <1>0, <2>1
  <2>3. SubSeq(ms, 2, l) = SubSeq(ms, 2, l - 1) \o <<ms[l]>>
    BY <1>0, <2>2, SubSeqRecursiveSecond
  <2>. QED BY <1>1, <2>1, <2>2, <2>3, Zenon
<1>5. CASE T = <<>> \/ Last(T).role # BedrockRole(m)
  <2>1. AddMessage(T, m) = Append(T, Converted(m))
    BY <1>2, <1>3, <1>5, MergedBehind, Zenon
  <2>2. LaidOut(Append(T, Converted(m)), ms, k + 1)
    BY <1>0, <1>1, <1>2, <1>5, BehindLaidOut
  <2>3. FlattenSeq(Contents(Append(T, Converted(m)))) = FlattenSeq(Contents(T)) \o <<m>>
    BY <1>2, OneMoreSaid
  <2>. QED BY <1>1, <1>2, <1>4, <2>1, <2>2, <2>3, Zenon DEF Arranged
<1>6. CASE T # <<>> /\ Last(T).role = BedrockRole(m)
  <2>1. PICK u \in Seq(Turns), t \in Turns : T = Append(u, t)
    BY <1>2, <1>6, SequenceEmptyOrAppend
  <2>2. t.role = BedrockRole(m)
    <3>1. Last(T) = T[Len(T)]
      BY DEF Last
    <3>2. T[Len(T)] = t
      BY <2>1, AppendProperties, LenProperties
    <3>. QED BY <1>6, <3>1, <3>2, Zenon
  <2>3. AddMessage(T, m) = Append(u, Longer(t, m))
    <3>1. Merge(Append(u, t), Converted(m)) = Append(u, Longer(t, m))
      BY <2>2, MergedLast
    <3>. QED BY <1>3, <2>1, <3>1, Zenon
  <2>4. LaidOut(Append(u, Longer(t, m)), ms, k + 1)
    <3>1. LaidOut(Append(u, t), ms, k) /\ BedrockRole(ms[k + 1]) = t.role
      BY <1>1, <1>2, <2>1, <2>2, Zenon
    <3>2. LaidOut(Append(u, Longer(t, ms[k + 1])), ms, k + 1)
      BY <1>0, <3>1, MergedLaidOut
    <3>. QED BY <1>1, <3>2, Zenon
  <2>5. FlattenSeq(Contents(Append(u, Longer(t, m)))) = FlattenSeq(Contents(T)) \o <<m>>
    BY <2>1, OneMoreSaid, Zenon
  <2>. QED BY <1>1, <1>2, <1>4, <2>3, <2>4, <2>5, Zenon DEF Arranged
<1>. QED BY <1>5, <1>6

\* All of it is arranged in turns.
LEMMA AllArranged ==
  ASSUME NEW ms, Prompted(ms) PROVE Arranged(Converse(ms), ms, Len(ms))
<1>. DEFINE N == {j \in Nat : j + 1 <= Len(ms) => Arranged(TurnsTo(ms, j + 1), ms, j + 1)}
<1>0. ms \in Seq(Messages) /\ Len(ms) \in Nat \ {0} /\ ms[1].role = "system"
  BY DEF Prompted
<1>1. 0 \in N
  <2>1. 1 \in 1..Len(ms) /\ 1 - 1 = 0 /\ 0 + 1 = 1
    BY <1>0
  <2>2. TurnsTo(ms, 1) = AddMessage(TurnsTo(ms, 1 - 1), ms[1]) /\ TurnsTo(ms, 0) = <<>>
    BY <1>0, <2>1, TurnsOn
  <2>3. TurnsTo(ms, 1) = <<>>
    BY <1>0, <2>1, <2>2, Zenon DEF AddMessage
  <2>4. Arranged(TurnsTo(ms, 1), ms, 1)
    BY <2>3, NothingArranged, Zenon
  <2>. QED BY <2>1, <2>4
<1>2. ASSUME NEW j \in Nat, j \in N PROVE j + 1 \in N
  <2>. SUFFICES ASSUME (j + 1) + 1 <= Len(ms)
                PROVE  Arranged(TurnsTo(ms, (j + 1) + 1), ms, (j + 1) + 1)
    OBVIOUS
  <2>1. PICK k \in Nat \ {0} : k = j + 1 /\ k + 1 \in 1..Len(ms) /\ (k + 1) - 1 = k
    BY <1>0
  <2>2. Arranged(TurnsTo(ms, k), ms, k)
    BY <1>0, <1>2, <2>1
  <2>3. TurnsTo(ms, k + 1) = AddMessage(TurnsTo(ms, (k + 1) - 1), ms[k + 1])
    BY <1>0, <2>1, TurnsOn
  <2>4. Arranged(AddMessage(TurnsTo(ms, k), ms[k + 1]), ms, k + 1)
    BY <2>1, <2>2, ArrangedNext
  <2>. QED BY <2>1, <2>3, <2>4, Zenon
<1>3. Nat \subseteq N
  <2>. HIDE DEF N
  <2>. QED BY <1>1, <1>2, NatInSet
<1>4. PICK j \in Nat : j + 1 = Len(ms) /\ j + 1 <= Len(ms)
  <2>1. Len(ms) - 1 \in Nat /\ (Len(ms) - 1) + 1 = Len(ms)
    BY <1>0
  <2>2. (Len(ms) - 1) + 1 <= Len(ms)
    BY <1>0
  <2>. QED BY <2>1, <2>2, Zenon
<1>5. Arranged(TurnsTo(ms, j + 1), ms, j + 1)
  BY <1>3, <1>4
<1>. QED BY <1>0, <1>4, <1>5, TurnsOn, Zenon

(***************************************************************************)
(* Calls and answers in the turns of a whole history.                      *)
(***************************************************************************)
LEMMA Sides ==
  \A m : /\ m.role = "call" => BedrockRole(m) = "assistant"
         /\ m.role = "tool" => BedrockRole(m) = "user"
BY DEF BedrockRole

\* Where a turn lies.
LiesAt(T, ms, L, o, i) ==
    /\ T[i] \in Turns
    /\ o[i] \in 1..L /\ o[i + 1] \in 1..L /\ Holds(T[i], ms, o[i], o[i + 1])
    /\ i = 1 => o[i] = 1
    /\ i = Len(T) => o[i + 1] = L
    /\ i < Len(T) => i + 1 \in 1..Len(T) /\ T[i].role # T[i + 1].role
    /\ i > 1 => i - 1 \in 1..Len(T) /\ T[i - 1].role # T[i].role /\ (i - 1) + 1 = i

LEMMA Lies ==
  ASSUME NEW T \in Seq(Turns), NEW ms, NEW L \in Nat, NEW o, Layout(T, ms, L, o), NEW i \in 1..Len(T)
  PROVE  LiesAt(T, ms, L, o, i)
<1>1. PICK n \in Nat : n = Len(T)
  BY LenProperties
<1>2. /\ o \in [1..(n + 1) -> 1..L] /\ o[1] = 1 /\ o[n + 1] = L
      /\ \A x \in 1..n : Holds(T[x], ms, o[x], o[x + 1])
      /\ \A x \in 1..(n - 1) : T[x].role # T[x + 1].role
  BY <1>1, Zenon DEF Layout
<1>3. i \in 1..n /\ i \in 1..(n + 1) /\ i + 1 \in 1..(n + 1)
  BY <1>1
<1>4. i < n => i + 1 \in 1..n /\ i \in 1..(n - 1)
  BY <1>3
<1>5. i > 1 => i - 1 \in 1..n /\ i - 1 \in 1..(n - 1) /\ (i - 1) + 1 = i
  BY <1>3
<1>6. o[i] \in 1..L /\ o[i + 1] \in 1..L
  BY <1>2, <1>3
<1>7. i > 1 => T[i - 1].role # T[i].role
  <2>. SUFFICES ASSUME i > 1 PROVE T[i - 1].role # T[i].role
    OBVIOUS
  <2>1. PICK x \in 1..(n - 1) : x = i - 1 /\ x + 1 = i
    BY <1>5
  <2>. QED BY <1>2, <2>1
<1>8. i = 1 => o[i] = 1
  BY <1>2, Zenon
<1>9. i = n => o[i + 1] = L
  BY <1>2, Zenon
<1>10. i < n => T[i].role # T[i + 1].role
  BY <1>2, <1>4, Zenon
<1>11. Holds(T[i], ms, o[i], o[i + 1])
  BY <1>2, <1>3, Zenon
<1>12. /\ i = Len(T) => o[i + 1] = L
       /\ i < Len(T) => i + 1 \in 1..Len(T) /\ T[i].role # T[i + 1].role
  BY <1>1, <1>4, <1>9, <1>10, Zenon
<1>13. i > 1 => i - 1 \in 1..Len(T) /\ T[i - 1].role # T[i].role /\ (i - 1) + 1 = i
  BY <1>1, <1>5, <1>7, Zenon
<1>14. T[i] \in Turns
  BY ElementOfSeq
<1>. QED BY <1>6, <1>8, <1>11, <1>12, <1>13, <1>14, Zenon DEF LiesAt

\* A position of a turn.
Within(t, ms, L, a, k, b) ==
    /\ k \in Nat \ {0} /\ a + k <= b /\ a + k \in 2..L
    /\ t.content[k] = ms[a + k] /\ BedrockRole(ms[a + k]) = t.role

LEMMA Position ==
  ASSUME NEW t, NEW ms, NEW L \in Nat, NEW a \in 1..L, NEW b \in 1..L, Holds(t, ms, a, b),
         NEW k, k \in 1..Len(t.content)
  PROVE  Within(t, ms, L, a, k, b)
<1>1. Len(t.content) = b - a /\ a < b
  BY DEF Holds
<1>2. k \in 1..(b - a)
  BY <1>1
<1>3. t.content[k] = ms[a + k] /\ BedrockRole(ms[a + k]) = t.role
  BY <1>2, Zenon DEF Holds
<1>4. k \in Nat \ {0} /\ a + k <= b /\ a + k \in 2..L
  BY <1>2
<1>. QED BY <1>3, <1>4, Zenon DEF Within

\* A message of a turn is of its side.
OnSide(m, t) == BedrockRole(m) = t.role

LEMMA OfItsSide ==
  ASSUME NEW t, NEW ms, NEW L \in Nat, NEW a \in 1..L, NEW b \in 1..L, Holds(t, ms, a, b),
         NEW p \in Nat, a < p, p <= b
  PROVE  OnSide(ms[p], t)
<1>1. PICK j \in 1..(b - a) : p = a + j
  <2>1. p - a \in 1..(b - a) /\ p = a + (p - a)
    OBVIOUS
  <2>. QED BY <2>1
<1>. QED BY <1>1, Zenon DEF Holds, OnSide

\* What Whole says of the call at p.
CallOf(ms, p, n) ==
    /\ ms[p].role = "call" /\ p + n <= Len(ms)
    /\ \A j \in (p + 1)..(p + n) : ms[j].role = "tool"
    /\ p + n < Len(ms) => ms[p + n + 1].role # "tool"

LEMMA WholeCall ==
  ASSUME NEW ms, Prompted(ms), Whole(ms), NEW p \in 2..Len(ms), ms[p].role = "call"
  PROVE  CallOf(ms, p, ms[p].calls) /\ ms[p].calls \in Nat \ {0}
<1>1. ms \in Seq(Messages) /\ Len(ms) \in Nat /\ p \in 1..Len(ms) /\ DOMAIN ms = 1..Len(ms)
  BY DEF Prompted
<1>2. ms[p].calls \in Nat
  <2>1. ms[p] \in Messages
    BY <1>1, ElementOfSeq
  <2>. QED BY <2>1 DEF Messages
<1>3. ms[p].calls # 0
  BY DEF Prompted
<1>4. CallOf(ms, p, ms[p].calls)
  BY <1>1, Zenon DEF Whole, CallOf
<1>. QED BY <1>2, <1>3, <1>4

\* What it says of an answer.
AnswerOf(ms, p, c) ==
    c \in 2..(p - 1) /\ ms[c].role = "call" /\ \A j \in (c + 1)..(p - 1) : ms[j].role = "tool"

LEMMA WholeAnswer ==
  ASSUME NEW ms, Whole(ms), NEW p \in 2..Len(ms), ms[p].role = "tool"
  PROVE  \E c : AnswerOf(ms, p, c)
<1>1. Answers(ms, p)
  BY Zenon DEF Whole
<1>. QED BY <1>1, Zenon DEF Answers, AnswerOf

\* Whatever answers lie behind a call of which they are not, are not there.
LEMMA OnlyItsOwn ==
  ASSUME NEW ms, NEW p \in Nat, NEW n \in Nat \ {0}, CallOf(ms, p, n), NEW q \in Nat, q > p + n,
         q <= Len(ms), Len(ms) \in Nat, ms[q].role = "tool", NEW c, AnswerOf(ms, q, c)
  PROVE  c > p
<1>1. c \in Nat /\ c <= q - 1
  BY DEF AnswerOf
<1>. SUFFICES ASSUME ~(c > p) PROVE FALSE
  OBVIOUS
<1>2. CASE c < p
  <2>1. p \in (c + 1)..(q - 1)
    BY <1>1, <1>2
  <2>2. ms[p].role = "tool"
    BY <2>1, Zenon DEF AnswerOf
  <2>3. ms[p].role = "call" /\ "call" # "tool"
    BY DEF CallOf
  <2>. QED BY <2>2, <2>3, Zenon
<1>3. CASE c = p
  <2>1. PICK x : x = p + n + 1 /\ x \in Nat /\ p + n < Len(ms)
    OBVIOUS
  <2>2. ms[x].role # "tool"
    BY <2>1 DEF CallOf
  <2>3. x = q \/ x \in (c + 1)..(q - 1)
    BY <1>1, <1>3, <2>1
  <2>. QED BY <1>3, <2>2, <2>3, Zenon DEF AnswerOf
<1>. QED BY <1>1, <1>2, <1>3

\* The turn behind a call begins with its answers.
LEMMA AnswersFirst ==
  ASSUME NEW ms, Prompted(ms), Whole(ms), NEW p \in 2..Len(ms), NEW n \in Nat \ {0}, CallOf(ms, p, n),
         NEW u \in Turns, NEW e \in 1..Len(ms), Holds(u, ms, p, e), u.role # "assistant", p + n <= e
  PROVE  BeginsWithResults(u, n)
<1>1. Len(ms) \in Nat /\ p \in 1..Len(ms)
  BY DEF Prompted
<1>2. PICK l \in Nat : l = Len(u.content) /\ DOMAIN u.content = 1..l /\ p + l = e
  <2>1. u.content \in Seq(Messages) /\ Len(u.content) = e - p /\ p < e
    BY DEF Turns, Holds
  <2>2. DOMAIN u.content = 1..Len(u.content) /\ Len(u.content) \in Nat
    BY <2>1, LenProperties
  <2>. QED BY <1>1, <2>1, <2>2
<1>3. ASSUME NEW j \in 1..l PROVE u.content[j].role = "tool" <=> j <= n
  <2>1. PICK q \in 2..Len(ms) : q = p + j /\ u.content[j] = ms[q] /\ q <= e
    <3>1. j \in 1..Len(u.content)
      BY <1>2
    <3>2. Within(u, ms, Len(ms), p, j, e)
      BY <1>1, <3>1, Position
    <3>. QED BY <3>2, Zenon DEF Within
  <2>2. ASSUME j <= n PROVE ms[q].role = "tool"
    <3>1. q \in (p + 1)..(p + n)
      BY <1>1, <2>1, <2>2
    <3>. QED BY <3>1, Zenon DEF CallOf
  <2>3. ASSUME ~(j <= n), ms[q].role = "tool" PROVE FALSE
    <3>1. q > p + n /\ q \in Nat /\ p \in Nat /\ q <= Len(ms)
      BY <1>1, <2>1, <2>3
    <3>2. PICK c : AnswerOf(ms, q, c)
      BY <2>3, WholeAnswer
    <3>3. c > p
      BY <1>1, <2>3, <3>1, <3>2, OnlyItsOwn
    <3>4. c \in Nat /\ p < c /\ c <= e /\ ms[c].role = "call"
      BY <2>1, <3>2, <3>3 DEF AnswerOf
    <3>5. OnSide(ms[c], u)
      BY <1>1, <3>4, OfItsSide
    <3>. QED BY <3>4, <3>5, Sides, Zenon DEF OnSide
  <2>. QED BY <2>1, <2>2, <2>3, Zenon
<1>4. n <= l
  BY <1>1, <1>2
<1>. QED BY <1>2, <1>3, <1>4, Zenon DEF BeginsWithResults

\* The two conditions of CallsAnswered for position k of turn i,
LEMMA CallEndsTurn ==
  ASSUME NEW ms, Prompted(ms), Whole(ms), NEW T \in Seq(Turns), NEW o, Layout(T, ms, Len(ms), o),
         NEW i \in 1..Len(T), NEW k \in 1..Len(T[i].content), T[i].content[k].role = "call"
  PROVE  /\ k = Len(T[i].content) /\ i < Len(T)
         /\ BeginsWithResults(T[i + 1], T[i].content[k].calls)
<1>1. PICK L \in Nat : L = Len(ms)
  BY DEF Prompted
<1>2. PICK N \in Nat : N = Len(T)
  BY LenProperties
<1>. DEFINE t == T[i]
<1>3. PICK a \in 1..L, b \in 1..L :
         /\ a = o[i] /\ b = o[i + 1] /\ Holds(t, ms, a, b)
         /\ i = N => b = L
         /\ i < N => i + 1 \in 1..N /\ t.role # T[i + 1].role
  <2>1. LiesAt(T, ms, L, o, i)
    BY <1>1, Lies
  <2>. QED BY <1>2, <2>1, Zenon DEF LiesAt
<1>. HIDE DEF t
<1>4. PICK p \in 2..L : k \in Nat \ {0} /\ p = a + k /\ p <= b /\ t.content[k] = ms[p] /\ BedrockRole(ms[p]) = t.role
  <2>1. k \in 1..Len(t.content)
    BY DEF t
  <2>2. Within(t, ms, L, a, k, b)
    BY <1>3, <2>1, Position
  <2>. QED BY <2>2, Zenon DEF Within
<1>5. ms[p].role = "call" /\ t.role = "assistant"
  BY <1>4, Sides, Zenon DEF t
<1>6. PICK n \in Nat \ {0} : n = ms[p].calls /\ CallOf(ms, p, n)
  BY <1>1, <1>5, WholeCall
<1>7. p + n <= L /\ \A j \in (p + 1)..(p + n) : BedrockRole(ms[j]) = "user"
  BY <1>1, <1>6, Sides, Zenon DEF CallOf
<1>8. p = b
  <2>. SUFFICES ASSUME p # b PROVE FALSE
    OBVIOUS
  <2>1. PICK x \in Nat : x = p + 1 /\ a < x /\ x <= b /\ x \in (p + 1)..(p + n)
    <3>1. p + 1 \in Nat /\ a < p + 1 /\ p + 1 <= b /\ p + 1 \in (p + 1)..(p + n)
      BY <1>4
    <3>. QED BY <3>1
  <2>2. OnSide(ms[x], t)
    BY <1>3, <2>1, OfItsSide
  <2>. QED BY <1>5, <1>7, <2>1, <2>2, Zenon DEF OnSide
<1>9. k = Len(t.content) /\ k \in Nat
  <2>1. Len(t.content) = b - a
    BY <1>3 DEF Holds
  <2>. QED BY <1>4, <1>8, <2>1
<1>10. i < N
  BY <1>2, <1>3, <1>7, <1>8
<1>11. PICK v \in 1..N : v = i + 1
  BY <1>3, <1>10
<1>. DEFINE u == T[v]
<1>12. PICK e \in 1..L : /\ u \in Turns /\ e = o[v + 1] /\ Holds(u, ms, p, e)
                         /\ v = N => e = L
                         /\ v < N => v + 1 \in 1..N /\ u.role # T[v + 1].role
  <2>1. LiesAt(T, ms, L, o, v)
    BY <1>1, <1>2, Lies
  <2>2. o[v] = p
    BY <1>3, <1>8, <1>11, Zenon
  <2>. QED BY <1>2, <2>1, <2>2, Zenon DEF LiesAt
<1>13. u.role # "assistant"
  BY <1>3, <1>5, <1>10, <1>11, Zenon
<1>. HIDE DEF u
<1>14. p + n <= e
  <2>. SUFFICES ASSUME ~(p + n <= e) PROVE FALSE
    OBVIOUS
  <2>1. v < N /\ p < e
    BY <1>7, <1>12 DEF Holds
  <2>2. PICK w \in 1..N : w = v + 1
    BY <1>12, <2>1
  <2>3. PICK x \in Turns, f \in 1..L : x = T[w] /\ Holds(x, ms, e, f)
    <3>1. LiesAt(T, ms, L, o, w)
      BY <1>1, <1>2, Lies
    <3>2. o[w] = e
      BY <1>12, <2>2, Zenon
    <3>. QED BY <3>1, <3>2, Zenon DEF LiesAt
  <2>4. OnSide(ms[e], u)
    <3>1. e \in Nat /\ e <= e /\ p \in 1..L
      OBVIOUS
    <3>2. Holds(u, ms, p, e) /\ p < e
      BY <1>12, <2>1
    <3>. QED BY <3>1, <3>2, OfItsSide
  <2>5. PICK q \in Nat : q = e + 1 /\ e < q /\ q <= f
    <3>1. e < f
      BY <2>3 DEF Holds
    <3>. QED BY <3>1
  <2>6. OnSide(ms[q], x)
    BY <2>3, <2>5, OfItsSide
  <2>7. e \in (p + 1)..(p + n) /\ q \in (p + 1)..(p + n)
    <3>1. e \in Int /\ p \in Int /\ n \in Int /\ e < p + n
      OBVIOUS
    <3>2. p < e /\ q = e + 1 /\ q \in Int
      BY <2>1, <2>5
    <3>3. p + 1 <= e /\ e <= p + n /\ p + 1 <= q /\ q <= p + n
      BY <3>1, <3>2
    <3>. QED BY <3>1, <3>2, <3>3
  <2>8. BedrockRole(ms[e]) = "user" /\ BedrockRole(ms[q]) = "user"
    BY <1>7, <2>7, Zenon
  <2>. QED BY <2>3, <1>12, <2>1, <2>2, <2>4, <2>6, <2>8, Zenon DEF OnSide
<1>15. BeginsWithResults(u, n)
  BY <1>1, <1>6, <1>12, <1>13, <1>14, AnswersFirst
<1>. QED BY <1>2, <1>4, <1>6, <1>9, <1>10, <1>11, <1>15, Zenon DEF t, u

LEMMA AnswerFollowsCall ==
  ASSUME NEW ms, Prompted(ms), Whole(ms), NEW T \in Seq(Turns), NEW o, Layout(T, ms, Len(ms), o),
         NEW i \in 1..Len(T), NEW k \in 1..Len(T[i].content), T[i].content[k].role = "tool"
  PROVE  i > 1 /\ Last(T[i - 1].content).role = "call"
<1>1. PICK L \in Nat : L = Len(ms)
  BY DEF Prompted
<1>2. PICK N \in Nat : N = Len(T)
  BY LenProperties
<1>. DEFINE t == T[i]
<1>3. PICK a \in 1..L, b \in 1..L :
         /\ a = o[i] /\ b = o[i + 1] /\ Holds(t, ms, a, b)
         /\ i = 1 => a = 1
         /\ i > 1 => i - 1 \in 1..N /\ T[i - 1].role # t.role /\ (i - 1) + 1 = i
  <2>1. LiesAt(T, ms, L, o, i)
    BY <1>1, Lies
  <2>. QED BY <1>2, <2>1, Zenon DEF LiesAt
<1>. HIDE DEF t
<1>4. PICK p \in 2..L : k \in Nat \ {0} /\ p = a + k /\ p <= b /\ t.content[k] = ms[p] /\ BedrockRole(ms[p]) = t.role
  <2>1. k \in 1..Len(t.content)
    BY DEF t
  <2>2. Within(t, ms, L, a, k, b)
    BY <1>3, <2>1, Position
  <2>. QED BY <2>2, Zenon DEF Within
<1>5. ms[p].role = "tool" /\ t.role = "user"
  BY <1>4, Sides, Zenon DEF t
<1>6. PICK c \in 2..(p - 1) : AnswerOf(ms, p, c)
  <2>1. PICK c : AnswerOf(ms, p, c)
    BY <1>1, <1>5, WholeAnswer
  <2>. QED BY <2>1 DEF AnswerOf
<1>7. ms[c].role = "call" /\ BedrockRole(ms[c]) = "assistant"
  <2>1. ms[c].role = "call"
    BY <1>6 DEF AnswerOf
  <2>. QED BY <2>1, Sides, Zenon
<1>8. c <= a
  <2>. SUFFICES ASSUME ~(c <= a) PROVE FALSE
    OBVIOUS
  <2>1. c \in Nat /\ a < c /\ c <= b
    BY <1>4
  <2>2. OnSide(ms[c], t)
    BY <1>3, <2>1, OfItsSide
  <2>. QED BY <1>5, <1>7, <2>2, Zenon DEF OnSide
<1>9. i > 1
  BY <1>3, <1>8
<1>10. PICK h \in 1..N : h = i - 1 /\ h + 1 = i /\ T[h].role # t.role
  BY <1>3, <1>9
<1>11. PICK s \in Turns, d \in 1..L : s = T[h] /\ Holds(s, ms, d, a)
  <2>1. LiesAt(T, ms, L, o, h)
    BY <1>1, <1>2, Lies
  <2>2. o[h + 1] = a
    BY <1>3, <1>10, Zenon
  <2>. QED BY <2>1, <2>2, Zenon DEF LiesAt
<1>12. d < a /\ a \in Nat /\ a <= a
  BY <1>11 DEF Holds
<1>13. OnSide(ms[a], s)
  BY <1>11, <1>12, OfItsSide
<1>14. c = a
  <2>. SUFFICES ASSUME c # a PROVE FALSE
    OBVIOUS
  <2>1. a \in (c + 1)..(p - 1)
    <3>1. a \in Int /\ c \in Int /\ p \in Int /\ c < a
      BY <1>8
    <3>2. a <= p - 1
      BY <1>4, <3>1
    <3>. QED BY <3>1, <3>2
  <2>2. ms[a].role = "tool"
    BY <1>6, <2>1, Zenon DEF AnswerOf
  <2>3. BedrockRole(ms[a]) = "user"
    BY <2>2, Sides, Zenon
  <2>. QED BY <1>5, <1>10, <1>11, <1>13, <2>3, Zenon DEF OnSide
<1>15. Last(s.content) = ms[a]
  <2>1. PICK l \in Nat : l = Len(s.content) /\ l \in 1..Len(s.content) /\ d + l = a
    <3>1. Len(s.content) = a - d
      BY <1>11 DEF Holds
    <3>. QED BY <1>12, <3>1
  <2>2. Within(s, ms, L, d, l, a)
    BY <1>11, <2>1, Position
  <2>3. Last(s.content) = s.content[Len(s.content)]
    BY DEF Last
  <2>. QED BY <2>1, <2>2, <2>3, Zenon DEF Within
<1>. QED BY <1>7, <1>9, <1>10, <1>11, <1>14, <1>15, Zenon

LEMMA PromptedIsWhole ==
  ASSUME NEW ms, Prompted(ms), Whole(ms) PROVE ConverseWhole(ms)
<1>1. PICK T \in Seq(Turns) : /\ T = Converse(ms) /\ LaidOut(T, ms, Len(ms))
                              /\ FlattenSeq(Contents(T)) = SubSeq(ms, 2, Len(ms))
  <2>1. Converse(ms) \in Seq(Turns)
    BY AllArranged DEF Arranged, LaidOut
  <2>. QED BY <2>1, AllArranged, Zenon DEF Arranged
<1>2. PICK o : Layout(T, ms, Len(ms), o)
  BY <1>1, Zenon DEF LaidOut
<1>3. FlattenSeq(Contents(T)) = Tail(ms)
  <2>1. ms \in Seq(Messages) /\ ms # <<>>
    <3>1. ms \in Seq(Messages) /\ Len(ms) # 0
      BY DEF Prompted
    <3>. QED BY <3>1, EmptySeq
  <2>2. Tail(ms) = SubSeq(ms, 2, Len(ms))
    BY <2>1, TailIsSubSeq
  <2>. QED BY <1>1, <2>2, Zenon
<1>4. \A i \in 1..(Len(T) - 1) : T[i].role # T[i + 1].role
  BY <1>2, Zenon DEF Layout
<1>5. CallsAnswered(T)
  <2>1. DOMAIN T = 1..Len(T)
    BY LenProperties
  <2>2. ASSUME NEW i \in 1..Len(T) PROVE DOMAIN T[i].content = 1..Len(T[i].content)
    <3>1. T[i] \in Turns
      BY ElementOfSeq
    <3>2. T[i].content \in Seq(Messages)
      BY <3>1 DEF Turns
    <3>. QED BY <3>2, LenProperties
  <2>3. ASSUME NEW i \in 1..Len(T), NEW k \in 1..Len(T[i].content)
        PROVE  /\ T[i].content[k].role = "call" =>
                    /\ k = Len(T[i].content) /\ i < Len(T)
                    /\ BeginsWithResults(T[i + 1], T[i].content[k].calls)
               /\ T[i].content[k].role = "tool" => i > 1 /\ Last(T[i - 1].content).role = "call"
    <3>1. ASSUME T[i].content[k].role = "call"
          PROVE  /\ k = Len(T[i].content) /\ i < Len(T)
                 /\ BeginsWithResults(T[i + 1], T[i].content[k].calls)
      BY <1>2, <3>1, CallEndsTurn
    <3>2. ASSUME T[i].content[k].role = "tool"
          PROVE  i > 1 /\ Last(T[i - 1].content).role = "call"
      BY <1>2, <3>2, AnswerFollowsCall
    <3>. QED BY <3>1, <3>2, Zenon
  <2>. QED BY <2>1, <2>2, <2>3, Zenon DEF CallsAnswered
<1>. QED BY <1>1, <1>3, <1>4, <1>5, Zenon DEF ConverseWhole, Contents

(***************************************************************************)
(* Of a chat only the first message is a system prompt, and a call that is *)
(* kept calls something.                                                   *)
(***************************************************************************)
PlainMessage(m) == m \in {User, Text, Stale} \cup {Call(n) : n \in 1..MaxCalls} \cup Result

Plain(ms) == \A i \in 2..Len(ms) : PlainMessage(ms[i])

\* Whatever a chat adds to its history is plain.
LEMMA PlainMessages ==
  /\ PlainMessage(User) /\ PlainMessage(Text) /\ PlainMessage(Stale)
  /\ \A n \in 1..MaxCalls : PlainMessage(Call(n))
  /\ \A m \in Result : PlainMessage(m)
  /\ \A m : PlainMessage(m) => m.role # "system" /\ (m.role = "call" => m.calls # 0)
<1>1. /\ PlainMessage(User) /\ PlainMessage(Text) /\ PlainMessage(Stale)
      /\ \A n \in 1..MaxCalls : PlainMessage(Call(n))
      /\ \A m \in Result : PlainMessage(m)
  BY DEF PlainMessage
<1>2. ASSUME NEW m, m \in {User, Text, Stale} PROVE m.role \notin {"system", "call"}
  BY <1>2 DEF User, Text, Stale, Message
<1>3. ASSUME NEW n \in 1..MaxCalls PROVE Call(n).role # "system" /\ Call(n).calls # 0
  BY ChatAssumption DEF Call, Message
<1>4. ASSUME NEW m \in Result PROVE m.role \notin {"system", "call"}
  BY DEF Result, Message
<1>5. ASSUME NEW m, PlainMessage(m) PROVE m.role # "system" /\ (m.role = "call" => m.calls # 0)
  BY <1>2, <1>3, <1>4, <1>5 DEF PlainMessage
<1>. QED BY <1>1, <1>5

LEMMA PlainCut ==
  ASSUME NEW ms \in Seq(Messages), Plain(ms), NEW i \in 2..Len(ms)
  PROVE  Plain(Cut(ms, i))
<1>1. PICK d \in Seq(Messages) : /\ d = Cut(ms, i) /\ Len(d) = Len(ms) - i + 2
                                 /\ \A j \in 2..(Len(ms) - i + 2) : d[j] = ms[i + j - 2]
  BY CutShifts
<1>2. Len(ms) \in Nat /\ i \in Nat
  BY LenProperties
<1>3. ASSUME NEW j \in 2..Len(d) PROVE PlainMessage(d[j])
  <2>1. PICK l \in 2..Len(ms) : l = i + j - 2 /\ d[j] = ms[l]
    <3>1. i + j - 2 \in 2..Len(ms) /\ j \in 2..(Len(ms) - i + 2)
      BY <1>1, <1>2
    <3>. QED BY <1>1, <3>1
  <2>. QED BY <2>1 DEF Plain
<1>. QED BY <1>1, <1>3 DEF Plain

LEMMA PlainJoined ==
  ASSUME NEW h \in Seq(Messages), Plain(h), Len(h) >= 1, NEW t \in Seq(Messages),
         \A j \in 1..Len(t) : PlainMessage(t[j])
  PROVE  Plain(h \o t)
<1>1. PICK a \in Nat, b \in Nat : a = Len(h) /\ b = Len(t)
  BY LenProperties
<1>2. PICK d \in Seq(Messages) : /\ d = h \o t /\ Len(d) = a + b
                                 /\ \A j \in 1..(a + b) : d[j] = IF j <= a THEN h[j] ELSE t[j - a]
  <2>1. /\ h \o t \in Seq(Messages) /\ Len(h \o t) = Len(h) + Len(t)
        /\ \A j \in 1..(Len(h) + Len(t)) : (h \o t)[j] = IF j <= Len(h) THEN h[j] ELSE t[j - Len(h)]
    BY ConcatProperties
  <2>. QED BY <1>1, <2>1
<1>3. ASSUME NEW j \in 2..(a + b) PROVE PlainMessage(d[j])
  <2>1. CASE j <= a
    <3>1. d[j] = h[j] /\ j \in 2..Len(h)
      BY <1>1, <1>2, <2>1
    <3>. QED BY <3>1 DEF Plain
  <2>2. CASE ~(j <= a)
    <3>1. d[j] = t[j - a] /\ j - a \in 1..Len(t)
      BY <1>1, <1>2, <2>2
    <3>. QED BY <3>1
  <2>. QED BY <2>1, <2>2
<1>. QED BY <1>2, <1>3 DEF Plain

LEMMA PlainOneMore ==
  ASSUME NEW h \in Seq(Messages), Plain(h), Len(h) >= 1, NEW m \in Messages, PlainMessage(m)
  PROVE  Plain(h \o <<m>>)
<1>1. PICK t \in Seq(Messages) : t = <<m>> /\ Len(t) = 1 /\ t[1] = m
  BY Alone
<1>2. \A j \in 1..Len(t) : PlainMessage(t[j])
  <2>1. \A j \in 1..1 : j = 1
    OBVIOUS
  <2>. QED BY <1>1, <2>1
<1>. QED BY <1>1, <1>2, PlainJoined

LEMMA PlainAlone == ASSUME NEW m \in Messages PROVE Plain(<<m>>)
BY DEF Plain

\* The steps: a question, a rollback, a compaction, an answer, calls with their results.
LEMMA PlainHandle == ChatInv /\ Plain(history) /\ HandleMessage => Plain(history')
<1>. SUFFICES ASSUME ChatInv, Plain(history), HandleMessage PROVE Plain(history')
  OBVIOUS
<1>1. /\ history \in Seq(Messages) /\ Len(history) >= 1 /\ Len(history) \in Nat
      /\ User \in Messages /\ User.role = "user"
  BY MessageTypes, LenProperties DEF ChatInv, ChatTyped, User, Message
<1>2. PICK asked \in Seq(Messages) : /\ asked = Append(history, User) /\ Len(asked) >= 2
                                     /\ asked[Len(asked)] = User
  <2>1. /\ Append(history, User) \in Seq(Messages) /\ Len(Append(history, User)) = Len(history) + 1
        /\ Append(history, User)[Len(history) + 1] = User
    BY <1>1, AppendProperties
  <2>2. Len(Append(history, User)) >= 2 /\ Append(history, User)[Len(Append(history, User))] = User
    BY <1>1, <2>1
  <2>. QED BY <2>1, <2>2
<1>3. Plain(asked)
  <2>1. asked = history \o <<User>>
    BY <1>1, <1>2, AppendIsConcat
  <2>2. Plain(history \o <<User>>)
    BY <1>1, PlainMessages, PlainOneMore
  <2>. QED BY <2>1, <2>2
<1>4. history' = Trim(asked, MaxHistory)
  BY <1>2 DEF HandleMessage
<1>5. history' = asked \/ \E i \in 2..Len(asked) : history' = Cut(asked, i)
  <2>1. asked[Len(asked)].role = "user"
    BY <1>1, <1>2
  <2>. QED BY <1>2, <1>4, <2>1, TrimCut
<1>. QED BY <1>3, <1>5, PlainCut

LEMMA PlainFail == ChatInv /\ Busy /\ Plain(history) /\ Rollback => Plain(history')
<1>. SUFFICES ASSUME ChatInv, Busy, Plain(history), Rollback PROVE Plain(history')
  OBVIOUS
<1>1. /\ history \in Seq(Messages) /\ Len(history) \in Nat /\ Len(history) >= 1
      /\ msgCount \in Nat /\ msgCount >= 2
  BY LenProperties DEF ChatInv, ChatTyped
<1>2. PICK k \in Nat : k = msgCount - 1
  BY <1>1
<1>3. CASE k <= Len(history)
  <2>1. history' = SubSeq(history, 1, k)
    BY <1>2, <1>3, Zenon DEF Rollback
  <2>2. \A l \in 1..k : history[l] \in Messages
    BY <1>1, <1>3, ElementOfSeq
  <2>3. PICK d : /\ d = SubSeq(history, 1, k) /\ Len(d) = k
                 /\ \A l \in 1..k : d[l] = history[l]
    <3>1. /\ SubSeq(history, 1, k) \in Seq(Messages) /\ Len(SubSeq(history, 1, k)) = k
          /\ \A l \in 1..(k - 1 + 1) : SubSeq(history, 1, k)[l] = history[1 + l - 1]
      BY <1>1, <2>2, SubSeqProperties
    <3>2. \A l \in 1..k : l \in 1..(k - 1 + 1) /\ 1 + l - 1 = l
      OBVIOUS
    <3>. QED BY <3>1, <3>2
  <2>4. ASSUME NEW j \in 2..k PROVE PlainMessage(d[j])
    <3>1. j \in 1..k /\ j \in 2..Len(history)
      BY <1>1, <1>3
    <3>. QED BY <2>3, <3>1 DEF Plain
  <2>. QED BY <2>1, <2>3, <2>4 DEF Plain
<1>4. CASE ~(k <= Len(history)) /\ k > capacity
  <2>1. history' = history
    BY <1>2, <1>4, Zenon DEF Rollback
  <2>. QED BY <2>1
<1>5. CASE ~(k <= Len(history)) /\ ~(k > capacity)
  <2>1. PICK n \in Nat : n = k - Len(history)
    BY <1>1, <1>5
  <2>2. PICK rest \in Seq(Messages) : /\ rest = [i \in 1..n |-> Stale] /\ Len(rest) = n
                                      /\ \A j \in 1..n : rest[j] = Stale
    <3>1. PICK m \in Messages : m = Stale
      BY MessageTypes
    <3>2. /\ [i \in 1..n |-> m] \in Seq(Messages) /\ Len([i \in 1..n |-> m]) = n
          /\ \A j \in 1..n : [i \in 1..n |-> m][j] = m
      OBVIOUS
    <3>. QED BY <3>1, <3>2
  <2>3. history' = history \o rest
    BY <1>2, <1>5, <2>1, <2>2, Zenon DEF Rollback
  <2>4. Plain(history \o rest)
    BY <1>1, <2>2, PlainMessages, PlainJoined
  <2>. QED BY <2>3, <2>4
<1>. QED BY <1>3, <1>4, <1>5

LEMMA PlainAsk == ChatInv /\ Plain(history) /\ Ask => Plain(history')
<1>. SUFFICES ASSUME ChatInv, Plain(history), Ask PROVE Plain(history')
  OBVIOUS
<1>1. /\ history \in Seq(Messages) /\ Len(history) \in Nat /\ Len(history) >= 1
      /\ history[1] \in Messages
  BY LenProperties, ElementOfSeq DEF ChatInv, ChatTyped
<1>2. history' = Compact(history, limit)
  BY DEF Ask
<1>3. \/ history' = history \/ history' = <<history[1]>>
      \/ \E i \in 2..Len(history) : history' = Cut(history, i)
  BY <1>1, <1>2, CompactCut, Zenon
<1>. QED BY <1>1, <1>3, PlainCut, PlainAlone

LEMMA PlainCalls == ChatInv /\ Plain(history) /\ CallTools => Plain(history')
<1>. SUFFICES ASSUME ChatInv, Plain(history), CallTools PROVE Plain(history')
  OBVIOUS
<1>0. PICK n \in 1..MaxCalls : \E rs \in [1..n -> Result] : history' = history \o (<<Call(n)>> \o rs)
  BY Zenon DEF CallTools, Appended
<1>1. PICK rs \in [1..n -> Result] : history' = history \o (<<Call(n)>> \o rs)
  BY <1>0, Zenon
<1>2. PICK a \in Messages : a = Call(n) /\ PlainMessage(a)
  BY MessageTypes, PlainMessages
<1>3. n \in Nat /\ rs \in Seq(Messages) /\ Len(rs) = n /\ \A i \in 1..n : PlainMessage(rs[i])
  BY ResultsOfTools, PlainMessages
<1>4. PICK t \in Seq(Messages) : /\ t = <<a>> \o rs /\ Len(t) = n + 1 /\ t[1] = a
                                 /\ \A j \in 1..n : t[j + 1] = rs[j]
  <2>1. /\ <<a>> \o rs \in Seq(Messages) /\ Len(<<a>> \o rs) = n + 1 /\ (<<a>> \o rs)[1] = a
        /\ \A j \in 1..n : (<<a>> \o rs)[j + 1] = rs[j]
    BY <1>3, Prepended
  <2>. QED BY <2>1
<1>5. ASSUME NEW j \in 1..Len(t) PROVE PlainMessage(t[j])
  <2>1. CASE j = 1
    BY <1>2, <1>4, <2>1
  <2>2. CASE j # 1
    <3>1. PICK l \in 1..n : j = l + 1
      <4>1. j - 1 \in 1..n /\ j = (j - 1) + 1
        BY <1>3, <1>4, <2>2
      <4>. QED BY <4>1
    <3>. QED BY <1>3, <1>4, <3>1
  <2>. QED BY <2>1, <2>2
<1>6. history \in Seq(Messages) /\ Len(history) >= 1
  BY DEF ChatInv, ChatTyped
<1>7. Plain(history \o t)
  BY <1>5, <1>6, PlainJoined
<1>. QED BY <1>1, <1>2, <1>4, <1>7, Zenon

LEMMA PlainStep == ChatInv /\ Plain(history) /\ [ChatNext]_chatVars => Plain(history')
<1>. SUFFICES ASSUME ChatInv, Plain(history), [ChatNext]_chatVars PROVE Plain(history')
  OBVIOUS
<1>1. CASE HandleMessage
  BY <1>1, PlainHandle
<1>2. CASE ChatCancelled \/ AskFails
  BY <1>2, PlainFail DEF ChatCancelled, AskFails, Fail, Busy
<1>3. CASE Ask
  BY <1>3, PlainAsk
<1>4. CASE Answer
  <2>1. history' = history \o <<Text>> /\ history \in Seq(Messages) /\ Len(history) >= 1
    BY <1>4 DEF Answer, Appended, ChatInv, ChatTyped
  <2>2. Plain(history \o <<Text>>)
    BY <2>1, MessageTypes, PlainMessages, PlainOneMore
  <2>. QED BY <2>1, <2>2
<1>5. CASE CallTools
  BY <1>5, PlainCalls
<1>6. CASE Reset
  <2>1. history' = <<System>> /\ System \in Messages
    BY <1>6, MessageTypes DEF Reset
  <2>. QED BY <2>1, PlainAlone
<1>7. CASE RoundsUsedUp \/ UNCHANGED chatVars
  <2>1. history' = history
    BY <1>7 DEF RoundsUsedUp, chatVars
  <2>. QED BY <2>1
<1>. QED BY <1>1, <1>2, <1>3, <1>4, <1>5, <1>6, <1>7 DEF ChatNext

\* A request to Bedrock has all of the history but the system prompt, in turns that alternate,
\* and every call is followed by its answers and by nothing else before them, whatever was
\* cut, merged and rolled back before (bedrock.go:167-185, 247-264).
LEMMA RequestsToBedrock == ChatInv /\ Plain(history) => RequestsAlternate
<1>. SUFFICES ASSUME ChatInv, Plain(history), ~spoiled PROVE ConverseWhole(history)
  BY DEF RequestsAlternate
<1>1. /\ history \in Seq(Messages) /\ Len(history) \in Nat \ {0}
      /\ Whole(history) /\ history[1] = System
  <2>1. history \in Seq(Messages) /\ Len(history) >= 1 /\ Good(history)
    BY DEF ChatInv, ChatTyped, GoodHistory
  <2>. QED BY <2>1, LenProperties DEF Good
<1>2. Prompted(history)
  <2>1. history[1].role = "system"
    BY <1>1 DEF System, Message
  <2>. QED BY <1>1, <2>1, PlainMessages DEF Prompted, Plain
<1>. QED BY <1>1, <1>2, PromptedIsWhole

\* Every request of a chat is one that the models accept, after any number of turns, of which
\* some failed: calls with their answers, within the window, alternating
\* (streaming.go:71-190), for every limit, window, number of rounds and calls.
THEOREM RequestsAreSound == ChatSpec => []RequestsSound
<1>1. ChatInit => ChatInv /\ Plain(history)
  <2>1. ChatInit => Plain(history)
    <3>. SUFFICES ASSUME ChatInit PROVE Plain(history)
      OBVIOUS
    <3>1. history = <<System>> /\ System \in Messages
      BY MessageTypes DEF ChatInit
    <3>. QED BY <3>1, PlainAlone
  <2>. QED BY <2>1, ChatStart
<1>2. ChatInv /\ Plain(history) /\ [ChatNext]_chatVars => (ChatInv /\ Plain(history))'
  BY ChatStep, PlainStep
<1>3. ChatInv /\ Plain(history) => RequestsAlternate
  BY RequestsToBedrock
<1>4. ChatSpec => []RequestsAlternate
  BY <1>1, <1>2, <1>3, PTL DEF ChatSpec
<1>. QED BY <1>4, RequestsStayWhole, RequestsAlwaysFit, PTL DEF RequestsSound

(***************************************************************************)
(* How long the history of a chat can be: trimming comes at the beginning  *)
(* of a turn, and what the rounds add until the next is bounded.  What a   *)
(* rollback brings back is no more than there was when the turn began,     *)
(* even if it is none of the messages that were there.                     *)
(***************************************************************************)
\* After so many rounds of a turn.
Most(r) == (MaxHistory + 1) + r * (1 + MaxCalls)

LEMMA MostGrows ==
  /\ MaxHistory + 1 \in Nat /\ ChatRounds \in Nat /\ Most(0) = MaxHistory + 1
  /\ \A r \in Nat : /\ Most(r) \in Nat /\ Most(r + 1) = Most(r) + (1 + MaxCalls)
                    /\ \A s \in Nat : r <= s => Most(r) <= Most(s)
<1>1. PICK l \in Nat, m \in Nat : l = 1 + MaxCalls /\ m = MaxHistory + 1
  <2>1. 1 + MaxCalls \in Nat /\ MaxHistory + 1 \in Nat
    BY ChatAssumption
  <2>. QED BY <2>1
<1>2. \A r : Most(r) = m + r * l
  BY <1>1, Zenon DEF Most
<1>3. ASSUME NEW r \in Nat
      PROVE  Most(r) \in Nat /\ Most(r + 1) = Most(r) + l
  <2>1. PICK x \in Nat : x = r * l /\ (r + 1) * l = x + l
    BY Times
  <2>2. Most(r) = m + x /\ Most(r + 1) = m + (x + l)
    BY <1>2, <2>1
  <2>. QED BY <2>2
<1>4. ASSUME NEW r \in Nat, NEW s \in Nat, r <= s PROVE Most(r) <= Most(s)
  <2>1. PICK x \in Nat, y \in Nat : x = r * l /\ y = s * l /\ x <= y
    BY <1>4, Times
  <2>2. Most(r) = m + x /\ Most(s) = m + y
    BY <1>2, <2>1
  <2>. QED BY <2>1, <2>2
<1>5. Most(0) = m
  <2>1. 0 * l = 0
    OBVIOUS
  <2>. QED BY <1>2, <2>1
<1>6. ChatRounds \in Nat
  BY ChatAssumption
<1>. QED BY <1>1, <1>3, <1>4, <1>5, <1>6

\* After all of them.
LEMMA MostAtEnd ==
  /\ MaxHistory + 1 \in Nat /\ ChatRounds \in Nat /\ Most(0) = MaxHistory + 1
  /\ Most(ChatRounds) \in Nat /\ Most(0) <= Most(ChatRounds)
<1>1. 0 \in Nat /\ ChatRounds \in Nat /\ 0 <= ChatRounds
  BY MostGrows
<1>2. Most(0) <= Most(ChatRounds) /\ Most(ChatRounds) \in Nat
  BY <1>1, MostGrows
<1>. QED BY <1>1, <1>2, MostGrows

SizeInv ==
    /\ limit \in ContextLimits
    /\ chatPc \in {"idle", "round", "asking"} /\ round \in 0..ChatRounds
    /\ chatPc = "asking" => round < ChatRounds
    /\ msgCount \in Nat /\ msgCount <= MaxHistory + 1
    /\ history[1] = System
    /\ capacity \in Nat /\ Len(history) <= capacity
    /\ Busy => Len(history) <= Most(round)
    /\ Len(history) <= Most(ChatRounds) + 1

LEMMA SizeStart == ChatInit => SizeInv
<1>. SUFFICES ASSUME ChatInit PROVE SizeInv
  OBVIOUS
<1>1. /\ limit \in ContextLimits /\ chatPc = "idle" /\ round = 0 /\ msgCount = 0
      /\ history = <<System>> /\ capacity = 1
  BY DEF ChatInit
<1>2. Len(history) = 1 /\ history[1] = System /\ ~Busy
  BY <1>1 DEF Busy
<1>3. 0 \in 0..ChatRounds /\ 0 <= MaxHistory + 1 /\ 1 <= Most(ChatRounds) + 1
  BY MostGrows
<1>. QED BY <1>1, <1>2, <1>3 DEF SizeInv

\* What a growing slice has room for.
LEMMA GrownRoom ==
  ASSUME NEW cap \in Nat, NEW len \in Nat
  PROVE  Grown(cap, len) \in Nat /\ len <= Grown(cap, len)
BY DEF Grown

IsRoom(f, len, cap, n) ==
    f = [S \in SUBSET (1..n) |->
            IF S = {} THEN cap
            ELSE Grown(f[S \ {Max(S)}], len + [i \in 1..n |-> i][Max(S)])]

\* Messages that are appended find room, by induction (streaming.go:147-149, 187).
LEMMA RoomExists ==
  ASSUME NEW len \in Nat, NEW cap \in Nat, NEW n \in Nat \ {0}
  PROVE  \E f : IsRoom(f, len, cap, n)
<1>. DEFINE step == [x \in Nat \X (1..n) |-> Grown(x[1], len + x[2])]
<1>1. step \in [Nat \X (1..n) -> Nat]
  <2>1. ASSUME NEW c \in Nat, NEW k \in 1..n PROVE Grown(c, len + k) \in Nat
    BY GrownRoom
  <2>. QED BY <2>1
<1>2. PICK f \in [SUBSET (1..n) -> Nat] : IsFold(f, n, cap, step)
  <2>. HIDE DEF step
  <2>. QED BY <1>1, FoldExists DEF FoldIn
<1>3. ASSUME NEW S \in SUBSET (1..n), S # {}
      PROVE  /\ step[<<f[S \ {Max(S)}], Max(S)>>]
                    = Grown(f[S \ {Max(S)}], len + [i \in 1..n |-> i][Max(S)])
             /\ [i \in 1..n |-> i][Max(S)] = Max(S)
  <2>1. S \ {Max(S)} \in SUBSET (1..n) /\ Max(S) \in 1..n
    BY <1>3, LargestIn
  <2>2. PICK v \in Nat, k \in 1..n : v = f[S \ {Max(S)}] /\ k = Max(S)
    BY <2>1
  <2>3. step[<<v, k>>] = Grown(v, len + k) /\ [i \in 1..n |-> i][k] = k
    OBVIOUS
  <2>. QED BY <2>2, <2>3, Zenon
<1>4. f = [S \in SUBSET (1..n) |->
             IF S = {} THEN cap ELSE Grown(f[S \ {Max(S)}], len + [i \in 1..n |-> i][Max(S)])]
  <2>. HIDE DEF step
  <2>. QED BY <1>2, <1>3, Zenon DEF IsFold
<1>. QED BY <1>4, Zenon DEF IsRoom

LEMMA RoomNext ==
  ASSUME NEW len \in Nat, NEW cap \in Nat, NEW n \in Nat, NEW f, IsRoom(f, len, cap, n),
         NEW k \in Nat, NEW m \in 1..n, m = k + 1
  PROVE  f[1..m] = Grown(f[1..k], len + m)
<1>1. 1..m \in SUBSET (1..n) /\ 1..m # {} /\ Max(1..m) = m /\ (1..m) \ {m} = 1..(m - 1)
  BY FirstPositions
<1>2. 1..(m - 1) = 1..k /\ [i \in 1..n |-> i][m] = m
  OBVIOUS
<1>3. f[1..m] = Grown(f[(1..m) \ {Max(1..m)}], len + [i \in 1..n |-> i][Max(1..m)])
  <2>1. PICK S \in SUBSET (1..n) : S = 1..m /\ S # {}
    BY <1>1, Zenon
  <2>2. f[S] = IF S = {} THEN cap ELSE Grown(f[S \ {Max(S)}], len + [i \in 1..n |-> i][Max(S)])
    BY Zenon DEF IsRoom
  <2>. QED BY <2>1, <2>2, Zenon
<1>. QED BY <1>1, <1>2, <1>3, Zenon

LEMMA RoomFound ==
  ASSUME NEW len \in Nat, NEW cap \in Nat, NEW n \in Nat \ {0}, NEW f, IsRoom(f, len, cap, n)
  PROVE  f[1..n] \in Nat /\ len + n <= f[1..n]
<1>. DEFINE N == {k \in Nat : k <= n => f[1..k] \in Nat}
<1>1. 0 \in N
  <2>1. 1..0 = {} /\ {} \in SUBSET (1..n)
    OBVIOUS
  <2>2. f[{}] = cap
    BY <2>1, Zenon DEF IsRoom
  <2>. QED BY <2>1, <2>2
<1>2. ASSUME NEW k \in Nat, k \in N PROVE k + 1 \in N
  <2>. SUFFICES ASSUME k + 1 <= n PROVE f[1..(k + 1)] \in Nat
    OBVIOUS
  <2>1. PICK m \in 1..n : m = k + 1 /\ f[1..k] \in Nat /\ len + m \in Nat
    <3>1. k + 1 \in 1..n /\ k <= n
      OBVIOUS
    <3>. QED BY <1>2, <3>1
  <2>2. f[1..m] = Grown(f[1..k], len + m)
    BY <2>1, RoomNext
  <2>. QED BY <2>1, <2>2, GrownRoom
<1>3. Nat \subseteq N
  <2>. HIDE DEF N
  <2>. QED BY <1>1, <1>2, NatInSet
<1>4. PICK k \in Nat : n = k + 1
  <2>1. n - 1 \in Nat /\ n = (n - 1) + 1
    OBVIOUS
  <2>. QED BY <2>1
<1>5. f[1..k] \in Nat
  <2>1. k <= n
    BY <1>4
  <2>. QED BY <1>3, <2>1
<1>6. n \in 1..n /\ len + n \in Nat
  OBVIOUS
<1>7. f[1..n] = Grown(f[1..k], len + n)
  BY <1>4, <1>6, RoomNext
<1>. QED BY <1>5, <1>6, <1>7, GrownRoom

LEMMA AppendedRoom ==
  ASSUME NEW ms \in Seq(Messages), Len(ms) # 0, history \in Seq(Messages), capacity \in Nat, Appended(ms)
  PROVE  capacity' \in Nat /\ Len(history) + Len(ms) <= capacity'
<1>1. DOMAIN ms = 1..Len(ms) /\ Len(ms) \in Nat \ {0} /\ Len(history) \in Nat
  BY LenProperties
<1>2. capacity' = (CHOOSE f : IsRoom(f, Len(history), capacity, Len(ms)))[1..Len(ms)]
  <2>1. DOMAIN [i \in 1..Len(ms) |-> i] = 1..Len(ms)
    OBVIOUS
  <2>. QED BY <1>1, <2>1 DEF Appended, FoldLeft, MapThenFoldSet, IsRoom
<1>3. PICK f : IsRoom(f, Len(history), capacity, Len(ms)) /\ capacity' = f[1..Len(ms)]
  BY <1>1, <1>2, RoomExists
<1>. QED BY <1>1, <1>3, RoomFound

LEMMA SizeHandle == ChatInv /\ SizeInv /\ HandleMessage => SizeInv'
<1>. SUFFICES ASSUME ChatInv, SizeInv, HandleMessage PROVE SizeInv'
  OBVIOUS
<1>1. /\ history \in Seq(Messages) /\ Len(history) >= 1 /\ Len(history) \in Nat
      /\ User \in Messages /\ User.role = "user" /\ capacity \in Nat /\ history[1] = System
  BY MessageTypes, LenProperties DEF ChatInv, ChatTyped, SizeInv, User, Message
<1>2. PICK asked \in Seq(Messages) :
         /\ asked = Append(history, User) /\ Len(asked) \in Nat /\ Len(asked) >= 2
         /\ asked[Len(asked)] = User /\ asked[1] = System
  <2>1. /\ Append(history, User) \in Seq(Messages) /\ Len(Append(history, User)) = Len(history) + 1
        /\ Append(history, User)[Len(history) + 1] = User
        /\ \A l \in 1..Len(history) : Append(history, User)[l] = history[l]
    BY <1>1, AppendProperties
  <2>2. /\ Len(Append(history, User)) >= 2
        /\ Append(history, User)[Len(Append(history, User))] = User
        /\ Append(history, User)[1] = System
    BY <1>1, <2>1
  <2>. QED BY <2>1, <2>2, LenProperties
<1>3. /\ history' = Trim(asked, MaxHistory) /\ msgCount' = Len(history')
      /\ capacity' = IF history' = asked THEN Grown(capacity, Len(asked)) ELSE Len(history')
      /\ chatPc' = "round" /\ round' = 0 /\ limit' = limit
  BY <1>2 DEF HandleMessage
<1>4. history' \in Seq(Messages) /\ history'[1] = System /\ Len(history') <= MaxHistory + 1
  <2>1. asked[Len(asked)].role = "user"
    BY <1>1, <1>2
  <2>2. CASE history' = asked /\ Len(asked) <= MaxHistory + 1
    BY <1>2, <2>2
  <2>3. ASSUME NEW i \in 2..Len(asked), history' = Cut(asked, i),
               Len(asked) - i + 2 <= MaxHistory + 1
        PROVE  history' \in Seq(Messages) /\ history'[1] = System /\ Len(history') <= MaxHistory + 1
    BY <1>2, <2>3, CutShifts
  <2>. QED BY <1>2, <1>3, <2>1, <2>2, <2>3, TrimCut
<1>5. Len(history') \in Nat
  BY <1>4, LenProperties
<1>6. capacity' \in Nat /\ Len(history') <= capacity'
  <2>1. CASE history' = asked
    BY <1>1, <1>2, <1>3, <2>1, GrownRoom
  <2>2. CASE history' # asked
    BY <1>3, <1>5, <2>2
  <2>. QED BY <2>1, <2>2
<1>7. Len(history') <= Most(0) /\ Len(history') <= Most(ChatRounds) + 1 /\ 0 \in 0..ChatRounds
  <2>1. /\ MaxHistory + 1 \in Nat /\ ChatRounds \in Nat /\ Most(0) = MaxHistory + 1
        /\ Most(ChatRounds) \in Nat /\ Most(0) <= Most(ChatRounds)
    BY MostAtEnd
  <2>. QED BY <1>4, <1>5, <2>1
<1>8. limit' \in ContextLimits
  BY <1>3 DEF SizeInv
<1>. QED BY <1>3, <1>4, <1>5, <1>6, <1>7, <1>8 DEF SizeInv

\* A rollback makes the history no longer than the turn found it, if it makes it longer.
LEMMA SizeFail == ChatInv /\ SizeInv /\ Busy /\ Fail => SizeInv'
<1>. SUFFICES ASSUME ChatInv, SizeInv, Busy, Fail PROVE SizeInv'
  OBVIOUS
<1>1. /\ history \in Seq(Messages) /\ Len(history) \in Nat /\ Len(history) >= 1
      /\ msgCount \in Nat /\ msgCount >= 2 /\ msgCount <= MaxHistory + 1
      /\ capacity \in Nat /\ Len(history) <= capacity /\ history[1] = System
      /\ Len(history) <= Most(ChatRounds) + 1
  BY LenProperties DEF ChatInv, ChatTyped, SizeInv
<1>2. PICK k \in Nat : k = msgCount - 1 /\ k >= 1
  BY <1>1
<1>3. /\ Rollback /\ capacity' = capacity /\ chatPc' = "idle"
      /\ limit' = limit /\ round' = round /\ msgCount' = msgCount
  BY DEF Fail, Rollback
<1>4. k <= Most(ChatRounds) + 1
  <2>1. /\ MaxHistory + 1 \in Nat /\ ChatRounds \in Nat /\ Most(0) = MaxHistory + 1
        /\ Most(ChatRounds) \in Nat /\ Most(0) <= Most(ChatRounds)
    BY MostAtEnd
  <2>. QED BY <1>1, <1>2, <2>1
<1>5. history'[1] = System /\ Len(history') <= capacity /\ Len(history') <= Most(ChatRounds) + 1
  <2>1. CASE k <= Len(history)
    <3>1. history' = SubSeq(history, 1, k)
      BY <1>2, <1>3, <2>1, Zenon DEF Rollback
    <3>2. \A l \in 1..k : history[l] \in Messages
      BY <1>1, <2>1, ElementOfSeq
    <3>3. /\ Len(SubSeq(history, 1, k)) = k
          /\ \A l \in 1..(k - 1 + 1) : SubSeq(history, 1, k)[l] = history[1 + l - 1]
      BY <1>1, <3>2, SubSeqProperties
    <3>4. 1 \in 1..(k - 1 + 1) /\ 1 + 1 - 1 = 1
      BY <1>2
    <3>5. history'[1] = System
      BY <1>1, <3>1, <3>3, <3>4
    <3>6. k <= capacity
      BY <1>1, <2>1
    <3>. QED BY <1>4, <3>1, <3>3, <3>5, <3>6
  <2>2. CASE ~(k <= Len(history)) /\ k > capacity
    <3>1. history' = history
      BY <1>2, <1>3, <2>2, Zenon DEF Rollback
    <3>. QED BY <1>1, <3>1
  <2>3. CASE ~(k <= Len(history)) /\ ~(k > capacity)
    <3>1. PICK n \in Nat : n = k - Len(history)
      BY <1>1, <2>3
    <3>2. PICK rest \in Seq(Messages) : rest = [i \in 1..n |-> Stale] /\ Len(rest) = n
      <4>1. PICK m \in Messages : m = Stale
        BY MessageTypes
      <4>2. [i \in 1..n |-> m] \in Seq(Messages) /\ Len([i \in 1..n |-> m]) = n
        OBVIOUS
      <4>. QED BY <4>1, <4>2
    <3>3. history' = history \o rest
      BY <1>2, <1>3, <2>3, <3>1, <3>2, Zenon DEF Rollback
    <3>4. /\ Len(history \o rest) = Len(history) + n
          /\ \A j \in 1..(Len(history) + n) :
                (history \o rest)[j] = IF j <= Len(history) THEN history[j] ELSE rest[j - Len(history)]
      BY <1>1, <3>2, ConcatProperties
    <3>5. 1 \in 1..(Len(history) + n) /\ 1 <= Len(history)
      BY <1>1
    <3>6. history'[1] = System
      BY <1>1, <3>3, <3>4, <3>5
    <3>7. Len(history) + n = k /\ k <= capacity
      BY <1>1, <2>3, <3>1
    <3>8. Len(history') = k
      BY <3>3, <3>4, <3>7
    <3>. QED BY <1>4, <3>6, <3>7, <3>8
  <2>. QED BY <2>1, <2>2, <2>3
<1>6. ~Busy'
  BY <1>3 DEF Busy
<1>7. limit' \in ContextLimits /\ round' \in 0..ChatRounds /\ msgCount' <= MaxHistory + 1
  BY <1>1, <1>3 DEF SizeInv
<1>. QED BY <1>1, <1>3, <1>5, <1>6, <1>7 DEF SizeInv

\* Compaction makes nothing longer.
LEMMA SizeAsk == ChatInv /\ SizeInv /\ Ask => SizeInv'
<1>. SUFFICES ASSUME ChatInv, SizeInv, Ask PROVE SizeInv'
  OBVIOUS
<1>1. /\ history \in Seq(Messages) /\ Len(history) \in Nat /\ Len(history) >= 1
      /\ history[1] \in Messages /\ history[1] = System
      /\ capacity \in Nat /\ Len(history) <= capacity
      /\ Len(history) <= Most(ChatRounds) + 1 /\ Busy /\ Len(history) <= Most(round)
      /\ round \in Nat /\ ChatRounds \in Nat
  <2>1. Busy
    BY DEF Ask, Busy
  <2>2. history \in Seq(Messages) /\ Len(history) >= 1
    BY DEF ChatInv, ChatTyped
  <2>3. history[1] \in Messages /\ Len(history) \in Nat
    BY <2>2, LenProperties, ElementOfSeq
  <2>. QED BY <2>1, <2>2, <2>3, MostAtEnd DEF SizeInv
<1>2. /\ history' = Compact(history, limit) /\ chatPc' = "asking" /\ round < ChatRounds
      /\ capacity' = IF history' = history \/ Len(history') = 1 THEN capacity ELSE Len(history')
      /\ limit' = limit /\ round' = round /\ msgCount' = msgCount
  BY DEF Ask
<1>3. \/ history' = history \/ history' = <<history[1]>>
      \/ \E i \in 2..Len(history) : history' = Cut(history, i)
  BY <1>1, <1>2, CompactCut, Zenon
<1>4. Len(history') \in Nat /\ Len(history') <= Len(history) /\ history'[1] = System
  <2>1. CASE history' = history
    BY <1>1, <2>1
  <2>2. CASE history' = <<history[1]>>
    <3>1. Len(<<history[1]>>) = 1 /\ <<history[1]>>[1] = history[1]
      OBVIOUS
    <3>. QED BY <1>1, <2>2, <3>1
  <2>3. ASSUME NEW i \in 2..Len(history), history' = Cut(history, i)
        PROVE  Len(history') \in Nat /\ Len(history') <= Len(history) /\ history'[1] = System
    <3>1. Len(Cut(history, i)) = Len(history) - i + 2 /\ Cut(history, i)[1] = history[1]
      BY <1>1, CutShifts
    <3>2. Len(history) - i + 2 \in Nat /\ Len(history) - i + 2 <= Len(history)
      BY <1>1
    <3>. QED BY <1>1, <2>3, <3>1, <3>2
  <2>. QED BY <1>3, <2>1, <2>2, <2>3
<1>5. capacity' \in Nat /\ Len(history') <= capacity'
  <2>1. CASE history' = history \/ Len(history') = 1
    BY <1>1, <1>2, <1>4, <2>1
  <2>2. CASE ~(history' = history \/ Len(history') = 1)
    BY <1>2, <1>4, <2>2
  <2>. QED BY <2>1, <2>2
<1>6. Len(history') <= Most(round) /\ Len(history') <= Most(ChatRounds) + 1
  <2>1. Most(round) \in Nat /\ Most(ChatRounds) \in Nat
    BY <1>1, MostGrows
  <2>. QED BY <1>1, <1>4, <2>1
<1>7. /\ limit' \in ContextLimits /\ round' \in 0..ChatRounds
      /\ msgCount' \in Nat /\ msgCount' <= MaxHistory + 1
  BY <1>2 DEF SizeInv
<1>. QED BY <1>2, <1>4, <1>5, <1>6, <1>7 DEF SizeInv

\* What a round adds.
LEMMA SizeGrows ==
  ASSUME ChatInv, SizeInv, NEW ms \in Seq(Messages), Len(ms) # 0, Appended(ms)
  PROVE  /\ Len(history') = Len(history) + Len(ms) /\ Len(history) \in Nat /\ Len(ms) \in Nat
         /\ capacity' \in Nat /\ Len(history') <= capacity' /\ history'[1] = System
<1>1. /\ history \in Seq(Messages) /\ Len(history) \in Nat /\ Len(history) >= 1 /\ Len(ms) \in Nat
      /\ capacity \in Nat /\ history[1] = System /\ history' = history \o ms
  BY LenProperties DEF ChatInv, ChatTyped, SizeInv, Appended
<1>2. /\ Len(history \o ms) = Len(history) + Len(ms)
      /\ \A j \in 1..(Len(history) + Len(ms)) :
            (history \o ms)[j] = IF j <= Len(history) THEN history[j] ELSE ms[j - Len(history)]
  BY <1>1, ConcatProperties
<1>3. capacity' \in Nat /\ Len(history) + Len(ms) <= capacity'
  BY <1>1, AppendedRoom
<1>4. 1 \in 1..(Len(history) + Len(ms))
  BY <1>1
<1>. QED BY <1>1, <1>2, <1>3, <1>4

LEMMA SizeAnswer == ChatInv /\ SizeInv /\ Answer => SizeInv'
<1>. SUFFICES ASSUME ChatInv, SizeInv, Answer PROVE SizeInv'
  OBVIOUS
<1>1. PICK t \in Seq(Messages) : t = <<Text>> /\ Len(t) = 1
  BY MessageTypes, Alone
<1>2. /\ Appended(t) /\ chatPc = "asking" /\ chatPc' = "idle"
      /\ limit' = limit /\ round' = round /\ msgCount' = msgCount
  BY <1>1 DEF Answer
<1>3. /\ Len(history') = Len(history) + 1 /\ Len(history) \in Nat
      /\ capacity' \in Nat /\ Len(history') <= capacity' /\ history'[1] = System
  <2>1. Len(t) # 0
    BY <1>1
  <2>2. /\ Len(history') = Len(history) + Len(t) /\ Len(history) \in Nat
        /\ capacity' \in Nat /\ Len(history') <= capacity' /\ history'[1] = System
    BY <1>2, <2>1, SizeGrows
  <2>. QED BY <1>1, <2>2
<1>4. Len(history') <= Most(ChatRounds) + 1
  <2>1. Busy /\ Len(history) <= Most(round) /\ round \in Nat /\ ChatRounds \in Nat /\ round <= ChatRounds
    BY <1>2, MostGrows DEF SizeInv, Busy
  <2>2. Most(round) \in Nat /\ Most(ChatRounds) \in Nat /\ Most(round) <= Most(ChatRounds)
    BY <2>1, MostGrows
  <2>. QED BY <1>3, <2>1, <2>2
<1>5. /\ limit' \in ContextLimits /\ round' \in 0..ChatRounds
      /\ msgCount' \in Nat /\ msgCount' <= MaxHistory + 1
  BY <1>2 DEF SizeInv
<1>6. ~Busy'
  BY <1>2 DEF Busy
<1>. QED BY <1>2, <1>3, <1>4, <1>5, <1>6 DEF SizeInv

LEMMA SizeCalls == ChatInv /\ SizeInv /\ CallTools => SizeInv'
<1>. SUFFICES ASSUME ChatInv, SizeInv, CallTools PROVE SizeInv'
  OBVIOUS
<1>0. PICK n \in 1..MaxCalls : \E rs \in [1..n -> Result] : Appended(<<Call(n)>> \o rs)
  BY Zenon DEF CallTools
<1>1. PICK rs \in [1..n -> Result] : Appended(<<Call(n)>> \o rs)
  BY <1>0, Zenon
<1>2. PICK t \in Seq(Messages) : t = <<Call(n)>> \o rs /\ Len(t) = n + 1
  <2>1. rs \in Seq(Messages) /\ Len(rs) = n /\ Call(n) \in Messages
    BY ResultsOfTools, MessageTypes
  <2>. QED BY <2>1, Prepended
<1>3. /\ Appended(t) /\ chatPc = "asking" /\ chatPc' = "round" /\ round' = round + 1
      /\ limit' = limit /\ msgCount' = msgCount
  BY <1>1, <1>2, Zenon DEF CallTools
<1>4. n \in Nat /\ n <= MaxCalls /\ MaxCalls \in Nat /\ n + 1 # 0
  BY ChatAssumption
<1>5. /\ Len(history') = Len(history) + (n + 1) /\ Len(history) \in Nat
      /\ capacity' \in Nat /\ Len(history') <= capacity' /\ history'[1] = System
  BY <1>2, <1>3, <1>4, SizeGrows
<1>6. /\ Len(history) <= Most(round) /\ round \in Nat /\ ChatRounds \in Nat /\ round < ChatRounds
  BY <1>3, MostGrows DEF SizeInv, Busy
<1>7. /\ Most(round) \in Nat /\ Most(round + 1) = Most(round) + (1 + MaxCalls)
      /\ Most(ChatRounds) \in Nat /\ Most(round + 1) <= Most(ChatRounds)
  <2>1. round + 1 \in Nat /\ round + 1 <= ChatRounds
    BY <1>6
  <2>. QED BY <1>6, <2>1, MostGrows
<1>8. Len(history') <= Most(round + 1) /\ Len(history') <= Most(ChatRounds) + 1
  <2>1. Len(history') <= Most(round) + (1 + MaxCalls)
    BY <1>4, <1>5, <1>6, <1>7
  <2>. QED BY <1>4, <1>5, <1>7, <2>1
<1>9. round + 1 \in 0..ChatRounds
  BY <1>6
<1>10. /\ limit' \in ContextLimits /\ msgCount' \in Nat /\ msgCount' <= MaxHistory + 1
  BY <1>3 DEF SizeInv
<1>. QED BY <1>3, <1>5, <1>8, <1>9, <1>10 DEF SizeInv

LEMMA SizeStep == ChatInv /\ SizeInv /\ [ChatNext]_chatVars => SizeInv'
<1>. SUFFICES ASSUME ChatInv, SizeInv, [ChatNext]_chatVars PROVE SizeInv'
  OBVIOUS
<1>1. CASE HandleMessage
  BY <1>1, SizeHandle
<1>2. CASE ChatCancelled \/ AskFails
  BY <1>2, SizeFail DEF ChatCancelled, AskFails, Busy
<1>3. CASE Ask
  BY <1>3, SizeAsk
<1>4. CASE Answer
  BY <1>4, SizeAnswer
<1>5. CASE CallTools
  BY <1>5, SizeCalls
<1>6. CASE Reset
  <2>1. /\ history' = <<System>> /\ capacity' = 1 /\ chatPc = "idle"
        /\ limit' = limit /\ chatPc' = chatPc /\ round' = round /\ msgCount' = msgCount
    BY <1>6 DEF Reset
  <2>2. Len(<<System>>) = 1 /\ <<System>>[1] = System
    OBVIOUS
  <2>3. 1 <= Most(ChatRounds) + 1 /\ ~Busy'
    BY <2>1, MostGrows DEF Busy
  <2>. QED BY <2>1, <2>2, <2>3 DEF SizeInv
<1>7. CASE RoundsUsedUp \/ UNCHANGED chatVars
  <2>1. /\ history' = history /\ capacity' = capacity /\ limit' = limit
        /\ round' = round /\ msgCount' = msgCount /\ (chatPc' = chatPc \/ chatPc' = "idle")
    BY <1>7 DEF RoundsUsedUp, chatVars
  <2>. QED BY <2>1 DEF SizeInv, Busy
<1>. QED BY <1>1, <1>2, <1>3, <1>4, <1>5, <1>6, <1>7 DEF ChatNext

\* However many turns fail, are cut short or are rolled back to what is no longer there, the
\* history keeps its system prompt and never holds more than the limit and one turn's rounds
\* (streaming.go:69-190, 325-364).
THEOREM HistoryStaysBounded == ChatSpec => []ChatTypeOK
<1>. DEFINE Inv == ChatInv /\ Plain(history) /\ SizeInv
<1>1. ChatInit => Inv
  <2>1. ChatInit => Plain(history)
    <3>. SUFFICES ASSUME ChatInit PROVE Plain(history)
      OBVIOUS
    <3>1. history = <<System>> /\ System \in Messages
      BY MessageTypes DEF ChatInit
    <3>. QED BY <3>1, PlainAlone
  <2>. QED BY <2>1, ChatStart, SizeStart
<1>2. Inv /\ [ChatNext]_chatVars => Inv'
  BY ChatStep, PlainStep, SizeStep
<1>3. Inv => ChatTypeOK
  <2>. SUFFICES ASSUME ChatInv, Plain(history), SizeInv PROVE ChatTypeOK
    OBVIOUS
  <2>1. /\ history \in Seq(Messages) /\ Len(history) \in Nat /\ history[1] = System
        /\ {shrunk, spoiled, failed} \subseteq BOOLEAN
    BY LenProperties DEF ChatInv, ChatTyped, SizeInv
  <2>. DEFINE Kinds == {System, User, Text, Stale} \cup {Call(n) : n \in 1..MaxCalls} \cup Result
  <2>2. history \in Seq(Kinds)
    <3>1. ASSUME NEW i \in 1..Len(history) PROVE history[i] \in Kinds
      <4>1. CASE i = 1
        BY <2>1, <4>1
      <4>2. CASE i \in 2..Len(history)
        BY <4>2 DEF Plain, PlainMessage
      <4>. QED BY <2>1, <4>1, <4>2
    <3>. HIDE DEF Kinds
    <3>. QED BY <2>1, <3>1
  <2>3. Len(history) <= MaxHistory + 2 + ChatRounds * (1 + MaxCalls)
    <3>1. PICK x \in Nat : x = ChatRounds * (1 + MaxCalls)
      <4>1. ChatRounds \in Nat /\ 1 + MaxCalls \in Nat
        BY ChatAssumption
      <4>. QED BY <4>1, Times
    <3>2. Most(ChatRounds) = (MaxHistory + 1) + x
      BY <3>1, Zenon DEF Most
    <3>3. Len(history) <= ((MaxHistory + 1) + x) + 1 /\ MaxHistory \in Nat
      BY <3>2, ChatAssumption DEF SizeInv
    <3>4. Len(history) <= MaxHistory + 2 + x
      BY <2>1, <3>1, <3>3
    <3>. QED BY <3>1, <3>4
  <2>4. msgCount \in 0..(MaxHistory + 2)
    BY ChatAssumption DEF SizeInv
  <2>. QED BY <2>1, <2>2, <2>3, <2>4 DEF SizeInv, ChatTypeOK
<1>. QED BY <1>1, <1>2, <1>3, PTL DEF ChatSpec

(***************************************************************************)
(* A diagnosis: what it sends can be answered, fits and ends with the      *)
(* instruction to report, and its record counts its rounds.                *)
(***************************************************************************)
Untold == Message("user", 0, 0)

\* The messages of a diagnosis.
LEMMA LoopTypes ==
  /\ Prompt = System /\ Prompt \in Messages /\ Stop \in Messages /\ Untold \in Messages
  /\ Stop.role = "user" /\ Untold.tokens = 0
  /\ \A n \in Nat : Asked(n) \in Messages /\ Asked(n).role = "call" /\ Asked(n).calls = n
BY DEF Prompt, System, Stop, Untold, Asked, Messages, Message

\* What Unprompted leaves of each message.
LEMMA UnpromptedTyped ==
  ASSUME NEW ms \in Seq(Messages)
  PROVE  /\ Unprompted(ms) \in Seq(Messages) /\ Len(Unprompted(ms)) = Len(ms)
         /\ \A i \in 1..Len(ms) : Unprompted(ms)[i] = IF ms[i] = Stop THEN Untold ELSE ms[i]
<1>1. PICK n \in Nat : n = Len(ms) /\ DOMAIN ms = 1..n
  BY LenProperties
<1>2. \A i \in 1..n : (IF ms[i] = Stop THEN Untold ELSE ms[i]) \in Messages
  BY <1>1, LoopTypes, ElementOfSeq
<1>3. PICK d : d = [i \in 1..n |-> IF ms[i] = Stop THEN Untold ELSE ms[i]]
  OBVIOUS
<1>4. /\ d \in Seq(Messages) /\ Len(d) = n
      /\ \A i \in 1..n : d[i] = IF ms[i] = Stop THEN Untold ELSE ms[i]
  BY <1>2, <1>3
<1>5. Unprompted(ms) = d
  BY <1>1, <1>3, Zenon DEF Unprompted, Untold
<1>. QED BY <1>1, <1>4, <1>5, Zenon

\* Without the instructions to stop messages weigh no more.
LEMMA UnpromptedLess ==
  ASSUME NEW ms \in Seq(Messages)
  PROVE  Tokens(Unprompted(ms)) <= Tokens(ms)
<1>1. PICK d \in Seq(Messages) :
         /\ d = Unprompted(ms) /\ Len(d) = Len(ms)
         /\ \A i \in 1..Len(d) : d[i] = IF ms[i] = Stop THEN Untold ELSE ms[i]
  <2>1. /\ Unprompted(ms) \in Seq(Messages) /\ Len(Unprompted(ms)) = Len(ms)
        /\ \A i \in 1..Len(ms) : Unprompted(ms)[i] = IF ms[i] = Stop THEN Untold ELSE ms[i]
    BY UnpromptedTyped
  <2>. QED BY <2>1, Zenon
<1>2. ASSUME NEW i \in 1..Len(d) PROVE d[i].tokens <= ms[i].tokens
  <2>1. ms[i] \in Messages
    BY <1>1, LenProperties, ElementOfSeq
  <2>2. ms[i].tokens \in Nat
    BY <2>1 DEF Messages
  <2>. QED BY <1>1, <2>2, LoopTypes
<1>3. Tokens(d) <= Tokens(ms)
  BY <1>1, <1>2, TokensLess
<1>. QED BY <1>1, <1>3, Zenon

\* The messages of a sequence in two parts.
LEMMA UnpromptedJoined ==
  ASSUME NEW s \in Seq(Messages), NEW t \in Seq(Messages)
  PROVE  Tokens(Unprompted(s \o t)) = Tokens(Unprompted(s)) + Tokens(Unprompted(t))
<1>1. PICK q \in Seq(Messages) :
         /\ q = s \o t /\ Len(q) = Len(s) + Len(t)
         /\ \A j \in 1..(Len(s) + Len(t)) : q[j] = IF j <= Len(s) THEN s[j] ELSE t[j - Len(s)]
  <2>1. /\ s \o t \in Seq(Messages) /\ Len(s \o t) = Len(s) + Len(t)
        /\ \A j \in 1..(Len(s) + Len(t)) :
              (s \o t)[j] = IF j <= Len(s) THEN s[j] ELSE t[j - Len(s)]
    BY ConcatProperties
  <2>. QED BY <2>1, Zenon
<1>2. PICK l \in Nat, m \in Nat : l = Len(s) /\ m = Len(t) /\ Len(q) = l + m
  BY <1>1, LenProperties
<1>3. (\A i \in 1..l : q[i] = s[i]) /\ (\A i \in 1..m : q[l + i] = t[i])
  <2>1. ASSUME NEW i \in 1..l PROVE q[i] = s[i]
    <3>1. i \in 1..(l + m) /\ i <= l
      OBVIOUS
    <3>. QED BY <1>1, <1>2, <3>1
  <2>2. ASSUME NEW i \in 1..m PROVE q[l + i] = t[i]
    <3>1. l + i \in 1..(l + m) /\ ~(l + i <= l) /\ (l + i) - l = i
      OBVIOUS
    <3>. QED BY <1>1, <1>2, <3>1
  <2>. QED BY <2>1, <2>2
<1>4. PICK a \in Seq(Messages) :
         /\ a = Unprompted(s) /\ Len(a) = l
         /\ \A i \in 1..l : a[i] = IF s[i] = Stop THEN Untold ELSE s[i]
  BY <1>2, UnpromptedTyped, Zenon
<1>5. PICK b \in Seq(Messages) :
         /\ b = Unprompted(t) /\ Len(b) = m
         /\ \A i \in 1..m : b[i] = IF t[i] = Stop THEN Untold ELSE t[i]
  BY <1>2, UnpromptedTyped, Zenon
<1>6. PICK d \in Seq(Messages) :
         /\ d = Unprompted(q) /\ Len(d) = l + m
         /\ \A i \in 1..(l + m) : d[i] = IF q[i] = Stop THEN Untold ELSE q[i]
  <2>1. /\ Unprompted(q) \in Seq(Messages) /\ Len(Unprompted(q)) = Len(q)
        /\ \A i \in 1..Len(q) : Unprompted(q)[i] = IF q[i] = Stop THEN Untold ELSE q[i]
    BY UnpromptedTyped
  <2>2. Len(q) = l + m
    BY <1>2
  <2>3. /\ Len(Unprompted(q)) = l + m
        /\ \A i \in 1..(l + m) : Unprompted(q)[i] = IF q[i] = Stop THEN Untold ELSE q[i]
    BY <2>1, <2>2, Zenon
  <2>. QED BY <2>1, <2>3, Zenon
<1>7. ASSUME NEW i \in 1..l PROVE d[i] = a[i]
  <2>1. i \in 1..(l + m)
    OBVIOUS
  <2>2. d[i] = IF q[i] = Stop THEN Untold ELSE q[i]
    BY <1>6, <2>1
  <2>3. q[i] = s[i]
    BY <1>3
  <2>. QED BY <1>4, <2>2, <2>3, Zenon
<1>8. ASSUME NEW i \in 1..m PROVE d[l + i] = b[i]
  <2>1. l + i \in 1..(l + m)
    OBVIOUS
  <2>2. d[l + i] = IF q[l + i] = Stop THEN Untold ELSE q[l + i]
    BY <1>6, <2>1
  <2>3. q[l + i] = t[i]
    BY <1>3
  <2>. QED BY <1>5, <2>2, <2>3, Zenon
<1>9. Tokens(d) = Tokens(a) + Tokens(b)
  <2>1. Len(d) = Len(a) + Len(b)
    BY <1>4, <1>5, <1>6, Zenon
  <2>2. (\A i \in 1..Len(a) : d[i] = a[i]) /\ (\A i \in 1..Len(b) : d[Len(a) + i] = b[i])
    BY <1>4, <1>5, <1>7, <1>8, Zenon
  <2>. QED BY <2>1, <2>2, TokensJoined
<1>. QED BY <1>1, <1>4, <1>5, <1>6, <1>9, Zenon

\* An instruction to stop weighs nothing.
LEMMA StopWeightless ==
  ASSUME NEW ms \in Seq(Messages)
  PROVE  Tokens(Unprompted(Append(ms, Stop))) = Tokens(Unprompted(ms))
<1>1. PICK t \in Seq(Messages) : t = <<Stop>> /\ Len(t) = 1 /\ t[1] = Stop
  <2>1. <<Stop>> \in Seq(Messages) /\ Len(<<Stop>>) = 1 /\ <<Stop>>[1] = Stop
    BY LoopTypes, Alone
  <2>. QED BY <2>1, Zenon
<1>2. Append(ms, Stop) = ms \o t
  BY <1>1, LoopTypes, AppendIsConcat
<1>3. Tokens(Unprompted(ms \o t)) = Tokens(Unprompted(ms)) + Tokens(Unprompted(t))
  BY UnpromptedJoined
<1>4. Tokens(Unprompted(t)) = 0
  <2>1. Unprompted(t) \in Seq(Messages) /\ Len(Unprompted(t)) = 1 /\ Unprompted(t)[1] = Untold
    <3>1. /\ Unprompted(t) \in Seq(Messages) /\ Len(Unprompted(t)) = Len(t)
          /\ \A i \in 1..Len(t) : Unprompted(t)[i] = IF t[i] = Stop THEN Untold ELSE t[i]
      BY UnpromptedTyped
    <3>2. 1 \in 1..Len(t)
      BY <1>1
    <3>3. Unprompted(t)[1] = IF t[1] = Stop THEN Untold ELSE t[1]
      BY <3>1, <3>2, Zenon
    <3>. QED BY <1>1, <3>1, <3>3, Zenon
  <2>2. Unprompted(t) = <<Untold>>
    <3>1. PICK d \in Seq(Messages) : d = Unprompted(t) /\ Len(d) = 1 /\ d[1] = Untold
      BY <2>1, Zenon
    <3>2. d = <<Untold>>
      BY <3>1
    <3>. QED BY <3>1, <3>2, Zenon
  <2>3. Tokens(<<Untold>>) = 0
    BY LoopTypes, TokensOne
  <2>. QED BY <2>2, <2>3, Zenon
<1>5. Tokens(Unprompted(ms)) \in Nat
  BY UnpromptedTyped, TokensIsNat
<1>6. Tokens(Unprompted(ms)) + 0 = Tokens(Unprompted(ms))
  BY <1>5
<1>. QED BY <1>2, <1>3, <1>4, <1>6, Zenon

LoopTyped ==
    /\ window \in Nat /\ estimate \in Nat
    /\ messages \in Seq(Messages) /\ Len(messages) >= 1 /\ Good(messages)
    /\ loopPc \in {"start", "round", "asking", "end"}

\* The record has a round for every one that is over, and the totals follow it.
Counted ==
    /\ loopRound \in 0..MaxRounds /\ (loopPc = "asking" => loopRound < MaxRounds)
    /\ records \in Seq(Nat) /\ Len(records) = loopRound
    /\ result = "report" => totalRounds = loopRound + 1
    /\ result = "incomplete" => totalRounds = loopRound
    /\ loopPc # "end" => result = "none"

\* The last request asks for the report.
Told == loopPc = "asking" /\ loopRound = MaxRounds - 1 => Last(messages) = Stop

\* The estimate is no less than what the messages weigh, but for instructions to stop.
Weighed == ~countsLess => Tokens(Unprompted(messages)) <= estimate

LoopInv == LoopTyped /\ Counted /\ Told /\ Weighed /\ LoopFits

LEMMA LoopStart == LoopInit => LoopInv
<1>. SUFFICES ASSUME LoopInit PROVE LoopInv
  OBVIOUS
<1>1. /\ window \in Nat /\ messages = <<Prompt>> /\ estimate = 1 /\ loopRound = 0 /\ loopPc = "start"
      /\ result = "none" /\ records = <<>>
  BY LoopAssumption DEF LoopInit
<1>2. /\ <<Prompt>> \in Seq(Messages) /\ Len(<<Prompt>>) = 1 /\ <<Prompt>>[1] = Prompt
      /\ Whole(<<Prompt>>)
  BY LoopTypes, Alone DEF Prompt, Message
<1>3. LoopTyped
  BY <1>1, <1>2, LoopTypes DEF LoopTyped, Good
<1>4. Counted
  BY <1>1, LoopAssumption DEF Counted
<1>5. Weighed
  <2>1. Tokens(<<Prompt>>) = 1
    BY LoopTypes, TokensOne DEF Prompt, Message
  <2>2. Tokens(Unprompted(<<Prompt>>)) <= Tokens(<<Prompt>>)
    BY <1>2, UnpromptedLess
  <2>3. Tokens(Unprompted(<<Prompt>>)) <= 1
    BY <2>1, <2>2
  <2>. QED BY <1>1, <2>3 DEF Weighed
<1>6. Told /\ LoopFits
  BY <1>1 DEF Told, LoopFits
<1>. QED BY <1>3, <1>4, <1>5, <1>6 DEF LoopInv

\* The end of a diagnosis leaves its history and its record as they are.
LEMMA EndStep ==
  ASSUME LoopInv, NEW r, NEW rounds, End(r, rounds),
         r = "report" => rounds = loopRound + 1, r = "incomplete" => rounds = loopRound
  PROVE  LoopInv'
<1>1. /\ loopPc' = "end" /\ result' = r /\ totalRounds' = rounds
      /\ UNCHANGED <<window, countsLess, messages, estimate, loopRound, records>>
  BY DEF End
<1>. QED BY <1>1 DEF LoopInv, LoopTyped, Counted, Told, Weighed, LoopFits

\* What a request is made from: the history, compacted when the estimate is over the window.
Shortened == IF TooLong THEN Compact(messages, window) ELSE messages
Estimated == IF TooLong THEN Tokens(Shortened) ELSE estimate

\* What compaction leaves of a diagnosis and of its estimate (engine.go:271-274).
LEMMA ShortenedIs ==
  ASSUME LoopInv
  PROVE  /\ Shortened \in Seq(Messages) /\ Len(Shortened) >= 1 /\ Good(Shortened)
         /\ Estimated \in Nat
         /\ ~countsLess => Tokens(Unprompted(Shortened)) <= Estimated
         /\ window > 0 /\ ~countsLess => Tokens(Unprompted(Shortened)) <= window
<1>1. /\ window \in Nat /\ estimate \in Nat
      /\ messages \in Seq(Messages) /\ Len(messages) >= 1 /\ Good(messages)
      /\ ~countsLess => Tokens(Unprompted(messages)) <= estimate
  BY DEF LoopInv, LoopTyped, Weighed
<1>2. CASE TooLong
  <2>1. PICK d : d = Compact(messages, window)
    OBVIOUS
  <2>2. d \in Seq(Messages) /\ Len(d) >= 1 /\ Good(d) /\ Fits(d, window)
    BY <1>1, <2>1, CompactGood, CompactFits, Zenon
  <2>3. Shortened = d /\ Estimated = Tokens(d)
    BY <1>2, <2>1, Zenon DEF Shortened, Estimated
  <2>4. Tokens(d) \in Nat /\ Unprompted(d) \in Seq(Messages)
    BY <2>2, TokensIsNat, UnpromptedTyped
  <2>5. Tokens(Unprompted(d)) <= Tokens(d) /\ Tokens(Unprompted(d)) \in Nat
    BY <2>2, <2>4, UnpromptedLess, TokensIsNat
  <2>6. window > 0 => Tokens(Unprompted(d)) <= window
    <3>. SUFFICES ASSUME window > 0 PROVE Tokens(Unprompted(d)) <= window
      OBVIOUS
    <3>1. CASE Tokens(d) <= window
      BY <1>1, <2>4, <2>5, <3>1
    <3>2. CASE Len(d) = 1
      <4>1. d[1] = System
        BY <2>2 DEF Good
      <4>2. d = <<System>>
        BY <2>2, <3>2, <4>1
      <4>3. Tokens(d) = 1
        BY <4>2, LoopTypes, TokensOne DEF System, Message
      <4>. QED BY <1>1, <2>5, <4>3
    <3>. QED BY <2>2, <3>1, <3>2 DEF Fits
  <2>. QED BY <2>2, <2>3, <2>4, <2>5, <2>6, Zenon
<1>3. CASE ~TooLong
  <2>1. Shortened = messages /\ Estimated = estimate
    BY <1>3, Zenon DEF Shortened, Estimated
  <2>2. Tokens(Unprompted(messages)) \in Nat
    BY <1>1, UnpromptedTyped, TokensIsNat
  <2>3. window > 0 => estimate <= window
    BY <1>1, <1>3 DEF TooLong
  <2>4. window > 0 /\ ~countsLess => Tokens(Unprompted(messages)) <= window
    BY <1>1, <2>2, <2>3
  <2>. QED BY <1>1, <2>1, <2>4, Zenon
<1>. QED BY <1>2, <1>3

LEMMA RequestStep == LoopInv /\ Request => LoopInv'
<1>. SUFFICES ASSUME LoopInv, Request PROVE LoopInv'
  OBVIOUS
<1>1. /\ loopPc = "round" /\ RoundsLeft /\ loopPc' = "asking"
      /\ UNCHANGED <<window, countsLess, loopRound, result, records, totalRounds>>
  BY DEF Request
<1>2. PICK ms \in Seq(Messages), est \in Nat :
         /\ ms = Shortened /\ est = Estimated /\ Len(ms) >= 1 /\ Good(ms)
         /\ ~countsLess => Tokens(Unprompted(ms)) <= est
         /\ window > 0 /\ ~countsLess => Tokens(Unprompted(ms)) <= window
  BY ShortenedIs, Zenon
<1>3. estimate' = est /\ (messages' = Append(ms, Stop) \/ (messages' = ms /\ ~LastRound))
  <2>1. /\ estimate' = Estimated
        /\ messages' = IF NearlyFull(Estimated) \/ LastRound THEN Append(Shortened, Stop)
                       ELSE Shortened
    BY Zenon DEF Request, Shortened, Estimated
  <2>. QED BY <1>2, <2>1, Zenon
<1>4. /\ messages' \in Seq(Messages) /\ Len(messages') >= 1 /\ Good(messages')
      /\ Tokens(Unprompted(messages')) = Tokens(Unprompted(ms))
      /\ LastRound => Last(messages') = Stop
  <2>1. CASE messages' = ms /\ ~LastRound
    BY <1>2, <2>1, Zenon
  <2>2. CASE messages' = Append(ms, Stop)
    <3>1. /\ Append(ms, Stop) \in Seq(Messages) /\ Len(Append(ms, Stop)) = Len(ms) + 1
          /\ Append(ms, Stop)[Len(ms) + 1] = Stop
          /\ \A l \in 1..Len(ms) : Append(ms, Stop)[l] = ms[l]
      BY LoopTypes, AppendProperties
    <3>2. Whole(Append(ms, Stop))
      BY <1>2, <3>1, LoopTypes, LenProperties, OneMore DEF Good
    <3>3. Len(ms) \in Nat
      BY LenProperties
    <3>4. Append(ms, Stop)[1] = System
      BY <1>2, <3>1, <3>3 DEF Good
    <3>5. Tokens(Unprompted(Append(ms, Stop))) = Tokens(Unprompted(ms))
      BY StopWeightless
    <3>6. PICK d : d = Append(ms, Stop)
      OBVIOUS
    <3>7. d \in Seq(Messages) /\ Len(d) >= 1 /\ Good(d) /\ d[Len(d)] = Stop
      BY <1>2, <3>1, <3>2, <3>3, <3>4, <3>6 DEF Good
    <3>8. Last(d) = Stop
      BY <3>7 DEF Last
    <3>. QED BY <2>2, <3>5, <3>6, <3>7, <3>8, Zenon
  <2>. QED BY <1>3, <2>1, <2>2
<1>5. LoopTyped'
  BY <1>1, <1>2, <1>3, <1>4 DEF LoopInv, LoopTyped
<1>6. Counted'
  BY <1>1 DEF LoopInv, Counted, RoundsLeft
<1>7. Told'
  BY <1>1, <1>4 DEF Told, LastRound
<1>8. Weighed'
  <2>1. ~countsLess => Tokens(Unprompted(messages')) <= est
    BY <1>2, <1>4, Zenon
  <2>. QED BY <1>1, <1>3, <2>1, Zenon DEF Weighed
<1>9. LoopFits'
  <2>1. window > 0 /\ ~countsLess => Tokens(Unprompted(messages')) <= window
    BY <1>2, <1>4, Zenon
  <2>. QED BY <1>1, <2>1, Zenon DEF LoopFits
<1>. QED BY <1>5, <1>6, <1>7, <1>8, <1>9 DEF LoopInv

\* The results of calls are messages of tools, one for each.
LEMMA LoopResults ==
  ASSUME NEW n \in Nat, NEW rs \in ResultsOf(n)
  PROVE  rs \in Seq(Messages) /\ Len(rs) = n /\ \A i \in 1..n : rs[i].role = "tool"
<1>1. Results \subseteq Messages /\ \A r \in Results : r.role = "tool"
  BY LoopAssumption DEF Results, Message, Messages
<1>2. rs \in [1..n -> Results]
  BY DEF ResultsOf
<1>3. rs \in [1..n -> Messages]
  BY <1>1, <1>2
<1>4. rs \in Seq(Messages) /\ Len(rs) = n
  BY <1>3
<1>. QED BY <1>1, <1>2, <1>4

LEMMA UseToolsStep == LoopInv /\ UseTools => LoopInv'
<1>. SUFFICES ASSUME LoopInv, UseTools PROVE LoopInv'
  OBVIOUS
<1>1. /\ loopPc = "asking" /\ loopPc' = "round" /\ loopRound' = loopRound + 1
      /\ UNCHANGED <<window, countsLess, result, totalRounds>>
  BY DEF UseTools
<1>2. PICK n \in 1..LoopCalls, u \in Usages : \E rs \in ResultsOf(n) :
         /\ messages' = messages \o <<Asked(n)>> \o rs
         /\ estimate' = Used(u) + Tokens(<<Asked(n)>> \o rs)
         /\ RecordRound(n)
  BY Zenon DEF UseTools
<1>3. PICK rs \in ResultsOf(n) :
         /\ messages' = messages \o <<Asked(n)>> \o rs
         /\ estimate' = Used(u) + Tokens(<<Asked(n)>> \o rs)
         /\ RecordRound(n)
  BY <1>2, Zenon
<1>4. n \in Nat \ {0}
  BY LoopAssumption
<1>5. rs \in Seq(Messages) /\ Len(rs) = n /\ \A i \in 1..n : rs[i].role = "tool"
  BY <1>4, LoopResults
<1>6. PICK a \in Messages : a = Asked(n) /\ a.role = "call" /\ a.calls = n
  BY <1>4, LoopTypes
<1>7. PICK t \in Seq(Messages) : t = <<a>> \o rs
  BY <1>5, Prepended
<1>8. messages \in Seq(Messages) /\ Len(messages) >= 1 /\ Good(messages) /\ Len(messages) \in Nat
  BY LenProperties DEF LoopInv, LoopTyped
<1>9. messages' = messages \o t
  <2>1. <<a>> \in Seq(Messages)
    BY Alone
  <2>2. (messages \o <<a>>) \o rs = messages \o (<<a>> \o rs)
    BY <1>5, <1>8, <2>1, ConcatAssociative
  <2>. QED BY <1>3, <1>6, <1>7, <2>2, Zenon
<1>10. /\ messages' \in Seq(Messages) /\ Len(messages') = Len(messages) + (n + 1)
       /\ \A l \in 1..Len(messages) : messages'[l] = messages[l]
       /\ Whole(messages) => Whole(messages')
  <2>1. Together(messages', messages, a, rs)
    BY <1>7, <1>9, Zenon DEF Together
  <2>. QED BY <1>4, <1>5, <1>6, <1>8, <2>1, CallBehind
<1>11. Len(messages') >= 1 /\ Good(messages')
  <2>1. 1 \in 1..Len(messages) /\ Len(messages) + (n + 1) >= 1
    BY <1>4, <1>8
  <2>. QED BY <1>8, <1>10, <2>1 DEF Good
<1>12. PICK x \in Nat, y \in Nat, z \in Nat, v \in Nat :
          /\ x = Tokens(messages) /\ y = Tokens(Unprompted(messages)) /\ y <= x
          /\ z = Tokens(t) /\ v = Tokens(Unprompted(t)) /\ v <= z
          /\ Tokens(Unprompted(messages')) = y + v
  <2>1. Tokens(messages) \in Nat /\ Tokens(t) \in Nat
    BY <1>8, TokensIsNat
  <2>2. Tokens(Unprompted(messages)) \in Nat /\ Tokens(Unprompted(t)) \in Nat
    BY <1>8, UnpromptedTyped, TokensIsNat
  <2>3. /\ Tokens(Unprompted(messages)) <= Tokens(messages)
        /\ Tokens(Unprompted(t)) <= Tokens(t)
    BY <1>8, UnpromptedLess
  <2>4. Tokens(Unprompted(messages \o t)) = Tokens(Unprompted(messages)) + Tokens(Unprompted(t))
    BY <1>8, UnpromptedJoined
  <2>. QED BY <1>9, <2>1, <2>2, <2>3, <2>4, Zenon
<1>13. PICK w \in Nat : w = Used(u) /\ (~countsLess => y <= w)
  <2>1. estimate \in Nat /\ (~countsLess => y <= estimate)
    BY <1>12 DEF LoopInv, LoopTyped, Weighed
  <2>2. u = 0 \/ u = IF countsLess THEN 1 ELSE x + 1
    BY <1>12, Zenon DEF Usages
  <2>3. u \in Nat /\ (u > 0 /\ ~countsLess => y <= u)
    BY <1>12, <2>2
  <2>. QED BY <2>1, <2>3 DEF Used
<1>14. estimate' = w + z
  BY <1>3, <1>6, <1>7, <1>12, <1>13, Zenon
<1>15. LoopTyped'
  <2>1. w + z \in Nat
    OBVIOUS
  <2>. QED BY <1>1, <1>10, <1>11, <1>14, <2>1 DEF LoopInv, LoopTyped
<1>16. Counted'
  <2>1. records' = Append(records, n) /\ records \in Seq(Nat) /\ Len(records) = loopRound
    BY <1>3 DEF RecordRound, LoopInv, Counted
  <2>2. records' \in Seq(Nat) /\ Len(records') = loopRound + 1
    BY <1>4, <2>1, AppendProperties
  <2>. QED BY <1>1, <2>2, LoopAssumption DEF LoopInv, Counted
<1>17. Weighed'
  <2>1. ~countsLess => y + v <= w + z
    BY <1>12, <1>13, SumsLess
  <2>2. ~countsLess => Tokens(Unprompted(messages')) <= estimate'
    BY <1>12, <1>14, <2>1, Zenon
  <2>. QED BY <1>1, <2>2, Zenon DEF Weighed
<1>18. Told' /\ LoopFits'
  BY <1>1 DEF Told, LoopFits
<1>. QED BY <1>15, <1>16, <1>17, <1>18 DEF LoopInv

LEMMA LoopStep == LoopInv /\ [LoopNext]_loopVars => LoopInv'
<1>. SUFFICES ASSUME LoopInv, [LoopNext]_loopVars PROVE LoopInv'
  OBVIOUS
<1>1. CASE AccessorFails
  BY <1>1, EndStep DEF AccessorFails
<1>2. CASE Begin
  BY <1>2 DEF Begin, LoopInv, LoopTyped, Counted, Told, Weighed, LoopFits
<1>3. CASE LoopCancelled
  BY <1>3, EndStep DEF LoopCancelled
<1>4. CASE Request
  BY <1>4, RequestStep
<1>5. CASE RequestFails
  BY <1>5, EndStep DEF RequestFails
<1>6. CASE Report
  BY <1>6, EndStep DEF Report
<1>7. CASE UseTools
  BY <1>7, UseToolsStep
<1>8. CASE Incomplete
  BY <1>8, EndStep DEF Incomplete
<1>9. CASE UNCHANGED loopVars
  BY <1>9 DEF loopVars, LoopInv, LoopTyped, Counted, Told, Weighed, LoopFits
<1>. QED BY <1>1, <1>2, <1>3, <1>4, <1>5, <1>6, <1>7, <1>8, <1>9 DEF LoopNext

\* The round after the last one is reached only from a request that asked for the report.
LEMMA LastWasTold ==
  LoopInv /\ [LoopNext]_loopVars =>
      (loopRound # loopRound' /\ loopRound' = MaxRounds => Last(messages) = Stop)
<1>. SUFFICES ASSUME LoopInv, [LoopNext]_loopVars, loopRound # loopRound', loopRound' = MaxRounds
              PROVE  Last(messages) = Stop
  OBVIOUS
<1>1. UseTools
  BY DEF LoopNext, loopVars, AccessorFails, Begin, LoopCancelled, Request, RequestFails, Report,
         Incomplete, End
<1>2. loopPc = "asking" /\ loopRound = MaxRounds - 1
  BY <1>1 DEF UseTools, LoopInv, Counted
<1>. QED BY <1>2 DEF LoopInv, Told

\* A diagnosis, for every window, number of rounds and of calls and sizes of results: its
\* requests pair calls and results and, if the AI counts as the estimate does, fit the window
\* but for instructions to stop, its record tells of every round, and it gives up only after
\* the AI was told to report (engine.go:264-281, 317, 377-391).
THEOREM DiagnosisIsSound == LoopSpec => LoopSound
<1>1. LoopInit => LoopInv
  BY LoopStart
<1>2. LoopInv /\ [LoopNext]_loopVars => LoopInv'
  BY LoopStep
<1>3. LoopInv => LoopWhole /\ LoopFits /\ RoundsRecorded
  <2>1. LoopInv => LoopWhole /\ LoopFits
    BY DEF LoopInv, LoopTyped, Good, LoopWhole
  <2>2. LoopInv => RoundsRecorded
    BY DEF LoopInv, Counted, RoundsRecorded
  <2>. QED BY <2>1, <2>2
<1>4. LoopInv /\ [LoopNext]_loopVars =>
          [loopRound # loopRound' /\ loopRound' = MaxRounds => Last(messages) = Stop]_loopVars
  BY LastWasTold
<1>. QED BY <1>1, <1>2, <1>3, <1>4, PTL DEF LoopSpec, LoopSound, ToldToStop
=============================================================================
