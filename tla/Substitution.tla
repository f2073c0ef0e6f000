---------------------------- MODULE Substitution ----------------------------
(***************************************************************************)
(* What replacing in a line promises, without pointers and parts: what a   *)
(* replacement string means, and that a line is gone through from left to  *)
(* right, every character either copied once or part of one replaced       *)
(* match.                                                                  *)
(***************************************************************************)
EXTENDS Integers, Sequences, SequencesExt

\* The digits that name a subexpression, with its index.
GroupOf ==
  [c \in {"1", "2", "3", "4", "5", "6", "7", "8", "9"} |->
     CHOOSE k \in 1..9 : <<"1", "2", "3", "4", "5", "6", "7", "8", "9">>[k] = c]

Digits == DOMAIN GroupOf
Escapable == Digits \cup {"&", "n", "\\"}

-----------------------------------------------------------------------------
(* The meaning of a replacement string is a sequence of items: a literal   *)
(* character, or the text of a match (0) or of a subexpression.            *)

Lit(c) == [char |-> c, group |-> -1]
Ref(k) == [char |-> "", group |-> k]

\* Which positions of s follow a backslash that is not itself escaped.
Escaped(s) ==
  LET esc[p \in 0 .. Len(s)] == p > 1 /\ s[p - 1] = "\\" /\ ~ esc[p - 1]
  IN  esc

Unescape(c) == IF c = "n" THEN "\n" ELSE c

Item(s, p) ==
  IF Escaped(s)[p]
  THEN <<IF s[p] \in Digits THEN Ref(GroupOf[s[p]]) ELSE Lit(Unescape(s[p]))>>
  ELSE IF s[p] = "\\" THEN <<>> ELSE <<IF s[p] = "&" THEN Ref(0) ELSE Lit(s[p])>>

Meaning(s) == FlattenSeq([p \in 1 .. Len(s) |-> Item(s, p)])

\* A string with no meaning: a backslash before anything else, or at its end.
Meaningless(s) ==
  \E p \in 1 .. Len(s) :
    /\ s[p] = "\\" /\ ~ Escaped(s)[p]
    /\ p = Len(s) \/ s[p + 1] \notin Escapable

-----------------------------------------------------------------------------
VARIABLES
  text,      \* the line
  meaning,   \* the items to write for a match
  accepted,  \* the matches that may be replaced: [from, len, group1]
  at,        \* number of characters of the line gone through
  out,       \* what has been written
  last,      \* where the last replaced match ended, or -1
  ended      \* whether the line is finished

vars == <<text, meaning, accepted, at, out, last, ended>>

\* What an item stands for when m is replaced; group1 is a span or <<>>.
Expand(item, m) ==
  CASE item.group = -1 -> <<item.char>>
    [] item.group = 0 -> SubSeq(text, m.from + 1, m.from + m.len)
    [] item.group = 1 /\ m.group1 # <<>> ->
         SubSeq(text, m.group1[1] + 1, m.group1[2])
    [] OTHER -> <<>>

Init == at = 0 /\ out = <<>> /\ last = -1 /\ ended = FALSE

\* The rest of the line, copied at once, may end it.
Copy ==
  /\ ~ ended
  /\ \E p \in (at + 1) .. Len(text) :
       at' = p /\ out' = out \o SubSeq(text, at + 1, p)
  /\ ended' \in {FALSE, at' = Len(text)}
  /\ UNCHANGED <<text, meaning, accepted, last>>

\* An empty match is not replaced where the last replaced match ended.
Replace ==
  /\ ~ ended
  /\ \E m \in accepted :
       /\ m.from = at
       /\ m.len = 0 => last # at
       /\ at' = at + m.len /\ last' = at'
       /\ out' = out \o FlattenSeq([k \in DOMAIN meaning |-> Expand(meaning[k], m)])
  /\ UNCHANGED <<text, meaning, accepted, ended>>

End ==
  /\ ~ ended /\ at = Len(text)
  /\ ended' = TRUE
  /\ UNCHANGED <<text, meaning, accepted, at, out, last>>

Next == Copy \/ Replace \/ End

Spec == Init /\ [][Next]_vars
=============================================================================
