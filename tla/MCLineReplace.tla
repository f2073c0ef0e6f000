--------------------------- MODULE MCLineReplace ---------------------------
(***************************************************************************)
(* Instances of LineReplace for TLC: all replacement strings of up to      *)
(* MaxString characters with a line in which nothing is found, and a few   *)
(* strings with every short line and everything that could be found in it. *)
(***************************************************************************)
EXTENDS LineReplace

CONSTANTS MaxString, MaxText  \* bounds of this instance

Text == {"a", "."}
MCWordChars == {"a"}
MCNewline == "\n"

MCStrings == BoundedSeq({"&", "\\", "n", "1", "x"}, MaxString)

\* A match, with its last character as the first subexpression.
M(p, n) == [from |-> p, len |-> n, group1 |-> IF n = 0 THEN <<>> ELSE <<p + n - 1, p + n>>]

\* The functions found for a C string of n characters: any at all for short
\* strings; for longer ones those of patterns without context operators,
\* which have a match or none at every position and find the nearest one.
AnyFound(n) ==
  {f \in [0 .. n -> {None} \cup {M(q, k) : q \in 0 .. n, k \in 0 .. n}] :
     \A p \in 0 .. n : f[p] # None => f[p].from >= p /\ f[p].from + f[p].len <= n}

Nearest(at, n) ==
  [p \in 0 .. n |->
     LET ahead == {q \in p .. n : at[q] # -1}
     IN  IF ahead = {} THEN None ELSE M(Min(ahead), at[Min(ahead)])]

Tables(n) == {at \in [0 .. n -> -1 .. n] : \A p \in 0 .. n : p + at[p] <= n}

Founds ==
  [n \in 0 .. (MaxText + 1) |->
     IF n <= 2 THEN AnyFound(n) ELSE {Nearest(at, n) : at \in Tables(n)}]

\* With -F, every match has the length of the pattern.
FixedFounds ==
  [n \in 0 .. (MaxText + 1), plen \in 1 .. 2 |->
    {Nearest(at, n) : at \in {t \in Tables(n) : \A p \in 0 .. n : t[p] \in {-1, plen}}}]

\* A line in its C string of n characters: text and a newline, text and a
\* null character (with --binary), text alone (the end of the file), and a
\* text with more behind its first null character (from standard input).
Lines ==
  UNION {[1 .. n -> Text] : n \in 1 .. MaxText}
    \cup UNION {{t \o e : t \in [1 .. n -> Text], e \in {<<Newline>>, <<Nul>>}} : n \in 0 .. MaxText}
    \cup {t \o <<Nul, "a", Newline>> : t \in [1 .. 1 -> Text]}

CLen(l) == Cardinality({p \in DOMAIN l : \A q \in 1 .. p : l[q] # Nul})

Base(l, s) ==
  [pattern |-> "text", string |-> s, fixed |-> FALSE, plen |-> 1,
   line |-> l, word |-> FALSE, whole |-> FALSE, found |-> [p \in 0 .. CLen(l) |-> None]]

Options(b) == {b, [b EXCEPT !.word = TRUE], [b EXCEPT !.whole = TRUE]}

WithMatches(l, s) == {[Base(l, s) EXCEPT !.found = f] : f \in Founds[CLen(l)]}

WithFixed(l, k) ==
  {[Base(l, <<"\\", "&">>) EXCEPT !.fixed = TRUE, !.plen = k, !.found = f] :
     f \in FixedFounds[CLen(l), k]}

MCInputs ==
  {Base(<<Newline>>, s) : s \in MCStrings}
    \cup {[Base(<<"a">>, <<"x">>) EXCEPT !.pattern = "empty", !.fixed = b] : b \in BOOLEAN}
    \cup UNION {WithMatches(l, <<"\\", "1", "&", "x", "&">>) : l \in Lines}
    \cup UNION {Options(b) : b \in UNION {WithMatches(l, <<"x">>) : l \in Lines}
                                 \cup UNION {WithFixed(l, k) : l \in Lines, k \in 1 .. 2}}

\* What the proof that a line is a substitution assumes.
ASSUME NoneWithSimpleEscapes == SimpleEscapesUnused
=============================================================================
