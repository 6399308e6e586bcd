----------------------------- MODULE ShellWords -----------------------------
(***************************************************************************)
(* QuoteSplit of pkg/shell/shellquote.go, which splits a command into      *)
(* words as /bin/sh does, and a definition of what that is.                *)
(*                                                                         *)
(* The code goes through the input by its labels: it looks ahead for the   *)
(* next special character, copies the piece before it in one go and jumps. *)
(* The definition reads one character at a time.  Windows is left out.     *)
(***************************************************************************)
EXTENDS Integers, Sequences, SequencesExt

CONSTANT MaxInput    \* bound: characters of the input

\* A letter, a blank, a newline and the three characters that quote.
Char == {"a", " ", "nl", "'", "\"", "\\"}
Blank == {" ", "nl"}                           \* splitChars
DoubleEscape == {"nl", "\"", "\\"}             \* doubleEscapeChars

VARIABLES
    command,   \* the whole input
    input,     \* what is left of it
    label,     \* "words" (the loop of QuoteSplit), "raw", "escape", "single", "double" or "end"
    word, words,
    err        \* "none", "escape", "single" or "double" is unterminated

splitVars == <<command, input, label, word, words, err>>

SplitInit ==
    /\ command \in UNION {[1..n -> Char] : n \in 0..MaxInput}
    /\ input = command /\ label = "words" /\ word = <<>> /\ words = <<>> /\ err = "none"

Drop(s, n) == SubSeq(s, n + 1, Len(s))

\* The first place whose character is one of these; 0 if there is none.
Find(s, chars) == SelectInSeq(s, LAMBDA c : c \in chars)

\* The words before the error are returned with it.
Fail(e) ==
    /\ err' = e /\ label' = "end"
    /\ UNCHANGED <<command, input, word, words>>

GoOn(rest, to, more) ==
    /\ input' = rest /\ label' = to /\ word' = word \o more
    /\ UNCHANGED <<command, words, err>>

EndWord(rest, more) ==
    /\ input' = rest /\ label' = "words" /\ word' = <<>>
    /\ words' = Append(words, word \o more)
    /\ UNCHANGED <<command, err>>

-----------------------------------------------------------------------------
(***************************************************************************)
(* QuoteSplit: the loop skips blanks and escaped newlines between words.   *)
(***************************************************************************)
SkipBlank == label = "words" /\ input # <<>> /\ Head(input) \in Blank /\ GoOn(Tail(input), "words", <<>>)

EscapeAhead == input # <<>> /\ Head(input) = "\\"

SkipEscapedNewline ==
    /\ label = "words" /\ EscapeAhead /\ Len(input) > 1 /\ input[2] = "nl"
    /\ GoOn(Drop(input, 2), "words", <<>>)

NothingEscaped == label = "words" /\ EscapeAhead /\ Len(input) = 1 /\ Fail("escape")

BeginWord ==
    /\ label = "words" /\ input # <<>> /\ Head(input) \notin Blank
    /\ EscapeAhead => Len(input) > 1 /\ input[2] # "nl"
    /\ GoOn(input, "raw", <<>>)

SplitEnds ==
    /\ label = "words" /\ input = <<>> /\ label' = "end"
    /\ UNCHANGED <<command, input, word, words, err>>

(***************************************************************************)
(* splitWord                                                               *)
(***************************************************************************)
Special == Blank \cup {"'", "\"", "\\"}

Opens == [c \in {"'", "\"", "\\"} |->
              CASE c = "'" -> "single" [] c = "\"" -> "double" [] c = "\\" -> "escape"]

\* raw: up to the next special character.
Raw ==
    /\ label = "raw"
    /\ LET i == Find(input, Special)
           piece == SubSeq(input, 1, i - 1)
       IN  IF i = 0 THEN EndWord(<<>>, input)
           ELSE IF input[i] \in Blank THEN EndWord(Drop(input, i), piece)
           ELSE GoOn(Drop(input, i), Opens[input[i]], piece)

\* escape: one character as it is, and a newline not at all.
Escape ==
    /\ label = "escape"
    /\ IF input = <<>> THEN Fail("escape")
       ELSE GoOn(Tail(input), "raw", IF Head(input) = "nl" THEN <<>> ELSE <<Head(input)>>)

\* single: up to the other quote.
Single ==
    /\ label = "single"
    /\ LET i == Find(input, {"'"})
       IN  IF i = 0 THEN Fail("single") ELSE GoOn(Drop(input, i), "raw", SubSeq(input, 1, i - 1))

\* double: up to the other quote or to an escape that means something; any other escape
\* is part of the piece.
Stops == {i \in DOMAIN input :
             \/ input[i] = "\""
             \/ input[i] = "\\" /\ i < Len(input) /\ input[i + 1] \in DoubleEscape}

Double ==
    /\ label = "double"
    /\ IF Stops = {} THEN Fail("double")
       ELSE LET i == Min(Stops)
                piece == SubSeq(input, 1, i - 1)
            IN  IF input[i] = "\"" THEN GoOn(Drop(input, i), "raw", piece)
                ELSE GoOn(Drop(input, i + 1), "double",
                          IF input[i + 1] = "nl" THEN piece ELSE Append(piece, input[i + 1]))

SplitNext ==
    \/ SkipBlank \/ SkipEscapedNewline \/ NothingEscaped \/ BeginWord \/ SplitEnds
    \/ Raw \/ Escape \/ Single \/ Double

SplitSpec == SplitInit /\ [][SplitNext]_splitVars

-----------------------------------------------------------------------------
(***************************************************************************)
(* The definition: quoting is a state, "out" between words and "word" in   *)
(* one, and a character is what it is in that state.                       *)
(***************************************************************************)
Reading(state, piece, done) == [state |-> state, word |-> piece, done |-> done]

Read(r, c) ==
    LET to(state)  == [r EXCEPT !.state = state]
        add(state) == Reading(state, Append(r.word, c), r.done)
    IN  CASE r.state \in {"out", "word"} /\ c = "'"  -> to("single")
          [] r.state \in {"out", "word"} /\ c = "\"" -> to("double")
          [] r.state = "out" /\ c = "\\"             -> to("out\\")
          [] r.state = "word" /\ c = "\\"            -> to("word\\")
          [] r.state = "out" /\ c \in Blank          -> r
          [] r.state = "word" /\ c \in Blank         -> Reading("out", <<>>, Append(r.done, r.word))
          [] r.state = "out\\" /\ c = "nl"           -> to("out")
          [] r.state = "word\\" /\ c = "nl"          -> to("word")
          [] r.state = "single" /\ c = "'"           -> to("word")
          [] r.state = "single" /\ c # "'"           -> add("single")
          [] r.state = "double" /\ c = "\""          -> to("word")
          [] r.state = "double" /\ c = "\\"          -> to("double\\")
          [] r.state = "double" /\ c \notin {"\"", "\\"} -> add("double")
          [] r.state = "double\\" /\ c = "nl"        -> to("double")
          [] r.state = "double\\" /\ c \in {"\"", "\\"} -> add("double")
          [] r.state = "double\\" /\ c \notin DoubleEscape ->
                Reading("double", r.word \o <<"\\", c>>, r.done)
          [] OTHER                                   -> add("word")

\* Words and error by the definition.
Shell(s) ==
    LET r == FoldLeft(Read, Reading("out", <<>>, <<>>), s)
    IN  CASE r.state = "out"               -> <<r.done, "none">>
          [] r.state = "word"              -> <<Append(r.done, r.word), "none">>
          [] r.state \in {"out\\", "word\\"} -> <<r.done, "escape">>
          [] r.state = "single"            -> <<r.done, "single">>
          [] OTHER                         -> <<r.done, "double">>

(***************************************************************************)
(* Properties.                                                             *)
(***************************************************************************)

\* For every input, the words are those of the definition, and the error is, also for
\* quotes and escapes that end where the input does (shellquote.go:25-33).
SplitAsShell == label = "end" => <<words, err>> = Shell(command)
=============================================================================
