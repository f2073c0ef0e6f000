----------------------------- MODULE LineReplace -----------------------------
(***************************************************************************)
(* replace_string and write_replacement of src/rrep.c and match_pattern    *)
(* and check_whole of src/pattern.c, for one line, after the arguments     *)
(* have been parsed.  regexec and strstr are functions of where they start *)
(* and what they find is part of the input.  A step is a call of one of    *)
(* them, or one write to the output.                                       *)
(***************************************************************************)
EXTENDS ParseStrings

CONSTANTS
  WordChars,   \* letters, digits and the underscore
  Newline

\* An input also has the line, as read_line returns it (without terminator);
\* the options -w and -x; and found, which gives for every start at or before
\* the end of the C string the match that regexec, or strstr with -F, reports
\* from there: [from, len, group1] with positions in the line, or None.
\* group1 is the span of the first subexpression or <<>>.
None == [from |-> -1, len |-> 0, group1 |-> <<>>]

\* A match found from position p in a C string of n characters.
MatchIn(m, p, n) ==
  /\ m.from \in p .. n /\ m.len \in 0 .. (n - m.from)
  /\ m.group1 # <<>> =>
       \E a, b \in m.from .. (m.from + m.len) : a <= b /\ m.group1 = <<a, b>>

\* The C string is the line up to its first null character.  A newline, if
\* there is one, is the last character of a line.
ASSUME LineAssumption ==
  /\ Newline \notin WordChars
  /\ \A inp \in Inputs :
       /\ inp.word \in BOOLEAN /\ inp.whole \in BOOLEAN /\ inp.plen \in Nat
       /\ inp.line \in Seq(STRING)
       /\ \E n \in 0 .. Len(inp.line) :
            /\ \A q \in 1 .. n : inp.line[q] # Nul /\ (inp.line[q] = Newline => q = n)
            /\ n < Len(inp.line) => inp.line[n + 1] = Nul
            /\ DOMAIN inp.found = 0 .. n
            /\ \A p \in 0 .. n :
                 LET m == inp.found[p]
                 IN  m # None => MatchIn(m, p, n) /\ (inp.fixed => m.len = inp.plen)

VARIABLES
  start,            \* where the rest of the line begins
  first,            \* where match_pattern searches
  match,            \* offsets from first, then from start, by group
  last_empty_flag,
  break_flag,
  out,              \* what has been written to the stream or to file_buffer
  gone,             \* history: number of characters of line gone through
  replaced,         \* history: the matches replaced, positions in the line
  lpc               \* where replace_string is

search == <<start, first, match, last_empty_flag, break_flag>>
writing == <<out, gone, replaced>>
lineVars == <<search, writing, lpc>>
vars == <<parseVars, lineVars>>

line == input.line
Groups == 0 .. 9

\* The character p behind the start of the line, and where strlen ends.
Char(p) == IF p < Len(line) THEN line[p + 1] ELSE Nul
CEnd == CHOOSE p \in 0 .. Len(line) : Char(p) = Nul /\ \A q \in 0 .. (p - 1) : Char(q) # Nul

NoMatch == [k \in Groups |-> <<-1, -1>>]

So(k) == match[k][1]
Eo(k) == match[k][2]

Init ==
  /\ ParseInit
  /\ start = 0 /\ first = 0 /\ match = NoMatch
  /\ last_empty_flag = TRUE /\ break_flag = FALSE
  /\ out = <<>> /\ gone = 0 /\ replaced = <<>>
  /\ lpc = "idle"

-----------------------------------------------------------------------------
(* match_pattern.  Its loop goes on while a match is not a whole word or a *)
(* whole line, from behind that match.                                     *)

\* Mutant: the rest of the line is taken for the line.
CheckWholeOfRest(p, n) ==
  \/ ~ input.word /\ ~ input.whole
  \/ /\ p > start => ~ input.whole /\ Char(p - 1) \notin WordChars
     /\ Char(p + n) # Newline => ~ input.whole /\ Char(p + n) \notin WordChars

\* check_whole for the len characters behind position p.
CheckWhole(p, n) ==
  \/ ~ input.word /\ ~ input.whole
  \/ /\ p > 0 => ~ input.whole /\ Char(p - 1) \notin WordChars
     /\ Char(p + n) # Newline => ~ input.whole /\ Char(p + n) \notin WordChars

\* The prologue of match_pattern, called with start = p.
Call(p) ==
  /\ lpc' = "match"
  /\ IF input.fixed
     THEN first' = p - input.plen /\ match' = NoMatch
     ELSE first' = p - 1 /\ match' = [match EXCEPT ![0][2] = 0]

\* Mutant: an empty match that is not whole is found again.
NextFirstStays ==
  IF input.fixed THEN first + input.plen
  ELSE IF Eo(0) = 0 /\ first < start THEN first + 1 ELSE first + Eo(0)

\* Where the next search starts.
NextFirst ==
  IF input.fixed THEN first + input.plen
  ELSE IF Eo(0) = 0 THEN first + 1 ELSE first + Eo(0)

\* An empty match that is not whole was found at the end.
AtEnd == ~ input.fixed /\ Eo(0) = 0 /\ first >= start /\ Char(first) \in {Newline, Nul}

\* The offsets for a match m, counted from position p.
Offsets(m, p) ==
  [k \in Groups |->
     CASE k = 0 -> <<m.from - p, m.from + m.len - p>>
       [] k = 1 /\ m.group1 # <<>> -> <<m.group1[1] - p, m.group1[2] - p>>
       [] OTHER -> <<-1, -1>>]

\* "Correct offsets."
Corrected(mt, p) ==
  [k \in Groups |->
     IF mt[k][2] > -1 THEN <<mt[k][1] + p - start, mt[k][2] + p - start>> ELSE mt[k]]

MatchWhole ==
  /\ lpc = "match" /\ ~ AtEnd
  /\ \E m \in {input.found[NextFirst]} \ {None} :
       /\ CheckWhole(m.from, m.len)
       /\ match' = Corrected(Offsets(m, NextFirst), NextFirst)
  /\ first' = NextFirst
  /\ lpc' = "prefix"
  /\ UNCHANGED <<parseVars, start, last_empty_flag, break_flag, writing>>

MatchPart ==
  /\ lpc = "match" /\ ~ AtEnd
  /\ \E m \in {input.found[NextFirst]} \ {None} :
       /\ ~ CheckWhole(m.from, m.len)
       /\ match' = Offsets(m, NextFirst)
       /\ first' = IF input.fixed THEN m.from ELSE NextFirst
  /\ UNCHANGED <<parseVars, start, last_empty_flag, break_flag, writing, lpc>>

\* REG_NOMATCH: the loop over the matches of the line ends.
MatchNone ==
  /\ lpc = "match"
  /\ ~ AtEnd => input.found[NextFirst] = None
  /\ lpc' = "flush"
  /\ UNCHANGED <<parseVars, search, writing>>

\* regexec runs out of memory.
MatchFails ==
  /\ lpc = "match" /\ ~ AtEnd /\ ~ input.fixed
  /\ "regexec" \in Faults
  /\ lpc' = "failed"
  /\ UNCHANGED <<parseVars, search, writing>>

-----------------------------------------------------------------------------
(* replace_string.                                                         *)

\* write_string; text stands for the line from gone up to position p.
Write(text, p) == out' = out \o text /\ gone' = p

\* The characters from position p up to position q.
Span(p, q) == SubSeq(line, p + 1, q)

\* What write_replacement writes.
PartText(k) == [p \in 1 .. part_len[k] |-> part[k][p - 1]]

Replacement ==
  IF input.fixed THEN string
  ELSE PartText(0) \o
       FlattenSeq([k \in 1 .. nsub |->
         (IF So(sub[k - 1]) > -1
          THEN Span(start + So(sub[k - 1]), start + Eo(sub[k - 1]))
          ELSE <<>>) \o PartText(k)])

\* Mutant: nothing is replaced right behind the last match.
ReplacingApart == last_empty_flag

\* An empty match right behind the last one is not replaced.
Replacing == last_empty_flag \/ Eo(0) > 0

\* The text the next step writes.
Pending ==
  CASE lpc = "prefix" /\ Eo(0) > 0 -> Span(start, start + So(0))
    [] lpc = "replace" /\ Replacing -> Replacement
    [] lpc = "advance" /\ Eo(0) = 0 -> Span(start, start + 1)
    [] lpc = "flush" -> Span(start, Len(line))
    [] OTHER -> <<>>

BeginLine ==
  /\ lpc = "idle" /\ pc = "parsed"
  /\ Call(start)
  /\ UNCHANGED <<parseVars, start, last_empty_flag, break_flag, writing>>

BehindNewline == Char(start) = Nul /\ start > 0 /\ Char(start - 1) = Newline

\* A match that is searched for behind the newline is none.
StopBehindNewline ==
  /\ lpc = "prefix" /\ BehindNewline
  /\ break_flag' = TRUE
  /\ lpc' = "flush"
  /\ UNCHANGED <<parseVars, start, first, match, last_empty_flag, writing>>

WritePrefix ==
  /\ lpc = "prefix" /\ ~ BehindNewline
  /\ break_flag' = (Char(start) = Nul)
  /\ Write(Pending, IF Eo(0) > 0 THEN start + So(0) ELSE start)
  /\ lpc' = "replace"
  /\ UNCHANGED <<parseVars, start, first, match, last_empty_flag, replaced>>

WriteReplacement ==
  /\ lpc = "replace" /\ Replacing
  /\ Write(Pending, start + Eo(0))
  /\ replaced' = Append(replaced, [from |-> start + So(0), len |-> Eo(0) - So(0)])
  /\ lpc' = IF break_flag THEN "flush" ELSE "advance"
  /\ UNCHANGED <<parseVars, search>>

SkipReplacement ==
  /\ lpc = "replace" /\ ~ Replacing
  /\ lpc' = IF break_flag THEN "flush" ELSE "advance"
  /\ UNCHANGED <<parseVars, search, writing>>

Advance ==
  /\ lpc = "advance"
  /\ IF Eo(0) = 0
     THEN start' = start + 1 /\ last_empty_flag' = TRUE
     ELSE start' = start + Eo(0) /\ last_empty_flag' = FALSE
  /\ Write(Pending, start')
  /\ Call(start')
  /\ UNCHANGED <<parseVars, break_flag, replaced>>

Flush ==
  /\ lpc = "flush"
  /\ Write(Pending, Len(line))
  /\ lpc' = "done"
  /\ UNCHANGED <<parseVars, search, replaced>>

\* file_buffer cannot grow for the text.
WriteFails ==
  /\ "realloc" \in Faults
  /\ Pending # <<>>
  /\ lpc' = "failed"
  /\ UNCHANGED <<parseVars, search, writing>>

LineNext ==
  \/ BeginLine
  \/ MatchWhole \/ MatchPart \/ MatchNone
  \/ StopBehindNewline \/ WritePrefix \/ WriteReplacement \/ SkipReplacement
  \/ Advance \/ Flush

Works == (ParseNext /\ UNCHANGED lineVars) \/ LineNext

CallFails == (MallocFails /\ UNCHANGED lineVars) \/ MatchFails \/ WriteFails

Next == Works \/ CallFails

Spec == Init /\ [][Next]_vars

\* The code goes on by itself; no call has to fail for it to come to an end.
FairSpec == Spec /\ WF_vars(Works)

-----------------------------------------------------------------------------
(* Properties.                                                             *)

TypeOK ==
  /\ start \in 0 .. Len(line) /\ gone \in 0 .. Len(line)
  /\ first \in Int /\ next \in 0 .. Len(string)
  /\ match \in [Groups -> Int \X Int]
  /\ last_empty_flag \in BOOLEAN /\ break_flag \in BOOLEAN
  /\ \A k \in DOMAIN replaced : replaced[k].from \in Nat /\ replaced[k].len \in Nat
  /\ lpc \in {"idle", "match", "prefix", "replace", "advance", "flush", "done", "failed"}
  /\ pc \in {"pattern", "string", "count", "arrays", "measure", "extract",
             "parsed", "failed", "undefined"}

\* What -w and -x ask of a match, with the line around it.
Acceptable(m) ==
  /\ input.whole => m.from = 0 /\ Char(m.len) = Newline
  /\ input.word =>
       /\ m.from > 0 => Char(m.from - 1) \notin WordChars
       /\ Char(m.from + m.len) \notin WordChars

Found == {input.found[p] : p \in 0 .. CEnd} \ {None}

ItemsWanted ==
  IF input.fixed THEN [p \in DOMAIN string |-> S!Lit(string[p])] ELSE S!Meaning(string)

Sub == INSTANCE Substitution WITH
         text <- line,
         meaning <- ItemsWanted,
         accepted <- {m \in Found : Acceptable(m)},
         at <- gone,
         ended <- lpc = "done",
         last <- IF replaced = <<>> THEN -1
                 ELSE replaced[Len(replaced)].from + replaced[Len(replaced)].len

\* No string with an escape that stands for one character replaces anything:
\* such a part would be written with bytes from behind its terminator.
SimpleEscapesUnused ==
  \A inp \in Inputs :
    \/ inp.fixed
    \/ \A p \in DOMAIN inp.found : inp.found[p] = None
    \/ SimpleEscapes(inp.string) = {}

\* A line is gone through from left to right; every character is copied once
\* or belongs to one replaced match, what is replaced was found in the line
\* and is whole where -w or -x asks for it, and no empty match is replaced
\* where another one ended (rrep.c:204-256, pattern.c:70-148).
ImplementsSubstitution == Sub!Spec

\* What is found does not depend on where the search starts, as for a pattern
\* without context operators.
Consistent ==
  \A p \in 0 .. CEnd :
    LET m == input.found[p] IN
    /\ m = None => \A q \in p .. CEnd : input.found[q] = None
    /\ m # None => \A q \in p .. m.from : input.found[q] = m

Covers(m, p) == m.from = p \/ (m.from < p /\ p < m.from + m.len)

\* Every match that could be replaced either is, or overlaps one that is, or
\* one that -w or -x refused; an empty one may touch the end of a replaced one
\* (rrep.c:232-255, pattern.c:113-137).
NoneMissed ==
  lpc = "done" /\ Consistent =>
    \A m \in Found :
      m.from < CEnd =>
        \/ \E k \in DOMAIN replaced :
             \/ Covers(replaced[k], m.from)
             \/ m.len = 0 /\ m.from = replaced[k].from + replaced[k].len
        \/ \E r \in Found : ~ Acceptable(r) /\ Covers(r, m.from)

\* The line is finished, or the program gives up, however empty matches and
\* refused ones follow each other (rrep.c:211, pattern.c:117-137).
Ends ==
  <>(lpc \in {"done", "failed"} \/ pc \in {"failed", "undefined"})
=============================================================================
