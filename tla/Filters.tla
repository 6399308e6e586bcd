------------------------------ MODULE Filters ------------------------------
(***************************************************************************)
(* The filters of pkg/filter/filter.go: what lists of patterns to include  *)
(* and to exclude are compiled to, and what that matches.  The compiled    *)
(* globs of the library are modelled by what they match, with the meaning  *)
(* that braces, commas and backslashes have in them and HasMeta does not   *)
(* look for; classes in brackets are left out, and regular expressions are *)
(* there for plain letters only.                                           *)
(***************************************************************************)
EXTENDS Integers, Sequences, FiniteSets, SequencesExt

CONSTANTS
    Character,
    Patterns, Texts,    \* bound: sequences of characters
    MaxPatterns         \* bound: patterns of a list

ASSUME FiltersAssumption ==
    /\ MaxPatterns \in Nat
    /\ {"{", "}", ","} \subseteq Character
    /\ Patterns \subseteq {p \in Seq(Character) : p # <<>> /\ ~Contains(p, "[")}
    /\ Texts \subseteq Seq(Character)

VARIABLES
    include, exclude,                  \* the lists
    includeDefault, excludeDefault,
    text,
    verdict                            \* "open", "match" or "other"

filterVars == <<include, exclude, includeDefault, excludeDefault, text, verdict>>

PatternLists == UNION {[1..n -> Patterns] : n \in 0..MaxPatterns}

isRegexPattern(p) == Len(p) >= 2 /\ Head(p) = "/" /\ Last(p) = "/"

HasMeta(p) == \E i \in DOMAIN p : p[i] \in {"*", "?", "["}

\* regexp: the letters occur in the text.
RegexMatches(p, s) ==
    LET letters == SubSeq(p, 2, Len(p) - 1)
    IN  \E i \in 0..Len(s) : IsPrefix(letters, SubSeq(s, i + 1, Len(s)))

(***************************************************************************)
(* glob.Compile.  A backslash makes text of the next character.  Braces    *)
(* hold alternatives, each up to a comma or to the end of them, and may be *)
(* nested; braces that are left open end with the pattern, and outside of  *)
(* any a comma or a closing brace is text.                                 *)
(***************************************************************************)
EscapedIn(p) == LET e[i \in DOMAIN p] == i > 1 /\ p[i - 1] = "\\" /\ ~e[i - 1] IN e

IsMeta(p, i, c) == p[i] = c /\ ~EscapedIn(p)[i]

\* How many braces are open behind a position.
Depth(p) ==
    LET d[i \in 0..Len(p)] ==
            IF i = 0 THEN 0
            ELSE IF IsMeta(p, i, "{") THEN d[i - 1] + 1
            ELSE IF IsMeta(p, i, "}") /\ d[i - 1] > 0 THEN d[i - 1] - 1
            ELSE d[i - 1]
    IN  d

Inside(p, i) == Depth(p)[i - 1] > 0

\* The commas of the braces that open at i,
Separators(p, i) ==
    {k \in i..Len(p) : IsMeta(p, k, ",") /\ Depth(p)[k] = Depth(p)[i]
                       /\ \A x \in i..k : Depth(p)[x] >= Depth(p)[i]}

\* and what is behind the braces in which there is a comma at i.
AfterBraces(p, i) ==
    LET shut == {k \in i..Len(p) : Depth(p)[k] < Depth(p)[i]}
    IN  IF shut = {} THEN Len(p) + 1 ELSE Min(shut) + 1

\* From which positions of the text the pattern's characters from i on match its rest, when
\* later says it of the characters behind.
GlobStep(p, s, i, later) ==
    IF i > Len(p) THEN {Len(s) + 1}
    ELSE IF IsMeta(p, i, "*") THEN {j \in 1..(Len(s) + 1) : \E k \in later[i + 1] : j <= k}
    ELSE IF IsMeta(p, i, "?") THEN {j \in 1..Len(s) : j + 1 \in later[i + 1]}
    ELSE IF IsMeta(p, i, "{") THEN UNION {later[k + 1] : k \in {i} \cup Separators(p, i)}
    ELSE IF IsMeta(p, i, ",") /\ Inside(p, i) THEN later[AfterBraces(p, i)]
    ELSE IF IsMeta(p, i, "\\") \/ (IsMeta(p, i, "}") /\ Inside(p, i)) THEN later[i + 1]
    ELSE {j \in 1..Len(s) : p[i] = s[j] /\ j + 1 \in later[i + 1]}

GlobMatches(p, s) ==
    LET m[i \in 1..(Len(p) + 1)] == GlobStep(p, s, i, m) IN 1 \in m[1]

\* The globs of a list between braces, with commas
Joined(list, globs) ==
    LET mark(k) == IF k = Min(globs) THEN "{" ELSE ","
    IN  Append(FlattenSeq([k \in DOMAIN list |->
                   IF k \in globs THEN <<mark(k)>> \o list[k] ELSE <<>>]), "}")

-----------------------------------------------------------------------------
\* Fault: the first pattern stands for all.
FirstHasMeta(list, globs) == HasMeta(list[Min(globs)])

AnyHasMeta(list, globs) == \E k \in globs : HasMeta(list[k])

\* compileGlob of the patterns at these positions: one word, a set of words, one glob, or
\* globs joined in braces
GlobFilterMatches(list, globs, s) ==
    IF ~AnyHasMeta(list, globs) THEN \E k \in globs : list[k] = s
    ELSE IF Cardinality(globs) = 1 THEN \E k \in globs : GlobMatches(list[k], s)
    ELSE GlobMatches(Joined(list, globs), s)

\* Compile and CombinedFilter: the globs together, and each regular expression.
FilterMatches(list, s) ==
    LET globs == {k \in DOMAIN list : ~isRegexPattern(list[k])}
    IN  \/ globs # {} /\ GlobFilterMatches(list, globs, s)
        \/ \E k \in DOMAIN list \ globs : RegexMatches(list[k], s)

FilterInit ==
    /\ include \in PatternLists /\ exclude \in PatternLists
    /\ includeDefault \in BOOLEAN /\ excludeDefault \in BOOLEAN
    /\ text \in Texts /\ verdict = "open"

\* IncludeExcludeFilter.Match; the filter of an empty list is nil.
Included == IF include # <<>> THEN FilterMatches(include, text) ELSE includeDefault

Excluded == IF exclude # <<>> THEN FilterMatches(exclude, text) ELSE excludeDefault

MatchText ==
    /\ verdict = "open"
    /\ verdict' = IF Included /\ ~Excluded THEN "match" ELSE "other"
    /\ UNCHANGED <<include, exclude, includeDefault, excludeDefault, text>>

FilterNext == MatchText

FilterSpec == FilterInit /\ [][FilterNext]_filterVars

-----------------------------------------------------------------------------
(***************************************************************************)
(* Properties.                                                             *)
(***************************************************************************)

\* A pattern by itself
Matches(p, s) ==
    IF isRegexPattern(p) THEN RegexMatches(p, s) ELSE IF HasMeta(p) THEN GlobMatches(p, s) ELSE p = s

\* Globs that are joined with something of their own that braces give a meaning to.
JoinedOtherwise(list) ==
    LET globs == {k \in DOMAIN list : ~isRegexPattern(list[k])}
    IN  /\ Cardinality(globs) > 1 /\ \E k \in globs : HasMeta(list[k])
        /\ \E k \in globs : \E c \in {"{", "}", ",", "\\"} : Contains(list[k], c)

\* What the lists say, one pattern at a time.
Wanted ==
    LET some(list, default) ==
            IF list = <<>> THEN default ELSE \E k \in DOMAIN list : Matches(list[k], text)
    IN  some(include, includeDefault) /\ ~some(exclude, excludeDefault)

\* A text is matched when one pattern of the list would match it alone, whatever kinds of
\* patterns stand beside it, and an empty list does what its default says, in both roles
\* (filter.go:36-103, 148-193).  Left out are lists of several globs in which one has a
\* comma, a brace or a backslash of its own: joining gives these a meaning, although the
\* comment says "(OR logic)" (filter.go:21), so that the list of b* and {a} matches a.
FiltersSound ==
    verdict # "open" /\ ~JoinedOtherwise(include) /\ ~JoinedOtherwise(exclude) =>
        (verdict = "match" <=> Wanted)
=============================================================================
