---------------------------- MODULE ParseStrings ----------------------------
(***************************************************************************)
(* parse_pattern and parse_replace of src/pattern.c, as main calls them.   *)
(* The replacement string is gone through three times: to count the        *)
(* references in it, to allocate the parts between them, and to fill the   *)
(* parts.  The three sweeps do not split the string by the same rule,      *)
(* which is why blocks of memory, their sizes and the writes to them are   *)
(* kept.  A step is one turn of a loop, or one allocation.                 *)
(***************************************************************************)
EXTENDS Integers, Sequences, FiniteSets, SequencesExt, FiniteSetsExt

CONSTANTS
  Inputs,   \* records with at least [pattern, string, fixed]
  Faults    \* the failures that may happen: "malloc", "regcomp" and others

\* Names for two bytes that no argument of a program contains.
Nul == "nul"
Junk == "junk"

\* string is the replacement string, without its terminator; of the pattern
\* it matters here only whether it is empty; fixed stands for -F.
ASSUME InputAssumption ==
  \A inp \in Inputs :
    /\ inp.fixed \in BOOLEAN
    /\ inp.pattern \in {"empty", "text"}
    /\ inp.string \in Seq(STRING \ {Nul, Junk})

VARIABLES
  input,      \* the arguments
  nsub,       \* number of references in the replacement
  part,       \* blocks of memory by index, each a function, or <<>> (NULL)
  part_len,   \* their lengths, without the terminator
  sub,        \* the references between the parts
  next,       \* position in the string, from 0
  i, j, len,  \* counters of the sweeps
  pc          \* where the program is

locals == <<next, i, j, len>>
replacement == <<nsub, part, part_len, sub>>
parseVars == <<input, replacement, locals, pc>>

string == input.string
Unset == -1   \* a number that has not been written yet

-----------------------------------------------------------------------------
S == INSTANCE Substitution WITH
       text <- <<>>, meaning <- <<>>, accepted <- {}, at <- 0, out <- <<>>, last <- 0,
       ended <- FALSE

\* The character p behind the start of the string.
At(p) == IF p < Len(string) THEN string[p + 1] ELSE Nul

IsReference(p) == At(p) = "\\" /\ At(p + 1) \in S!Digits

ParseInit ==
  /\ input \in Inputs
  /\ nsub = 0 /\ part = <<>> /\ part_len = <<>> /\ sub = <<>>
  /\ next = 0 /\ i = 0 /\ j = 0 /\ len = 0
  /\ pc = "pattern"

-----------------------------------------------------------------------------
(* parse_pattern refuses an empty pattern and one that does not compile.   *)

PatternParsed ==
  /\ pc = "pattern" /\ input.pattern # "empty"
  /\ pc' = "string"
  /\ UNCHANGED <<input, replacement, locals>>

PatternFails ==
  /\ pc = "pattern"
  /\ \/ input.pattern = "empty"
     \/ ~ input.fixed /\ "regcomp" \in Faults
  /\ pc' = "failed"
  /\ UNCHANGED <<input, replacement, locals>>

-----------------------------------------------------------------------------
(* parse_replace: the copy of the string, which is all -F needs, then the  *)
(* first sweep and the arrays.                                             *)

CopyString ==
  /\ pc = "string"
  /\ pc' = IF input.fixed THEN "parsed" ELSE "count"
  /\ UNCHANGED <<input, replacement, locals>>

\* Mutant: what follows a backslash is not looked at.
CountOneAny ==
  /\ pc = "count" /\ At(next) # Nul
  /\ nsub' = IF At(next) = "&" \/ IsReference(next) THEN nsub + 1 ELSE nsub
  /\ next' = IF At(next) = "\\" THEN next + 2 ELSE next + 1
  /\ UNCHANGED <<input, part, part_len, sub, i, j, len, pc>>

\* Mutant: the escaped character is looked at again.
CountOneSlow ==
  /\ pc = "count" /\ At(next) # Nul
  /\ At(next) = "\\" => At(next + 1) \in S!Escapable
  /\ nsub' = IF At(next) = "&" \/ IsReference(next) THEN nsub + 1 ELSE nsub
  /\ next' = next + 1
  /\ UNCHANGED <<input, part, part_len, sub, i, j, len, pc>>

CountOne ==
  /\ pc = "count" /\ At(next) # Nul
  /\ At(next) = "\\" => At(next + 1) \in S!Escapable
  /\ nsub' = IF At(next) = "&" \/ IsReference(next) THEN nsub + 1 ELSE nsub
  /\ next' = IF At(next) = "\\" THEN next + 2 ELSE next + 1
  /\ UNCHANGED <<input, part, part_len, sub, i, j, len, pc>>

UnknownEscape ==
  /\ pc = "count" /\ At(next) = "\\" /\ At(next + 1) \notin S!Escapable
  /\ pc' = "failed"
  /\ UNCHANGED <<input, replacement, locals>>

CountEnds ==
  /\ pc = "count" /\ At(next) = Nul
  /\ pc' = "arrays"
  /\ UNCHANGED <<input, replacement, locals>>

AllocArrays ==
  /\ pc = "arrays" /\ pc' = "measure"
  /\ part' = [k \in 0 .. nsub |-> <<>>]
  /\ part_len' = [k \in 0 .. nsub |-> Unset]
  /\ sub' = [k \in 0 .. (nsub - 1) |-> Unset]
  /\ next' = 0 /\ len' = 0 /\ i' = 0
  /\ UNCHANGED <<input, nsub, j>>

-----------------------------------------------------------------------------
(* The second sweep allocates a part at every "&", at every reference and  *)
(* at the end.  It does not pass over the character after a backslash.     *)

\* Mutant: the second sweep takes every escape for a reference.
SplitsAtEscapes(p) == At(p) \in {Nul, "&", "\\"}

Splits(p) == At(p) \in {Nul, "&"} \/ IsReference(p)

MeasureOne ==
  /\ pc = "measure" /\ ~ Splits(next)
  /\ len' = len + 1 /\ next' = next + 1
  /\ UNCHANGED <<input, replacement, i, j, pc>>

\* Mutant: no byte for the terminator.
MeasurePartShort ==
  /\ pc = "measure" /\ Splits(next) /\ i \in DOMAIN part
  /\ part' = [part EXCEPT ![i] = [k \in 0 .. (len - 1) |-> Junk]]
  /\ part_len' = [part_len EXCEPT ![i] = len]
  /\ len' = 0
  /\ IF At(next) = Nul
     THEN pc' = "extract" /\ next' = 0 /\ i' = 0 /\ j' = 0
     ELSE /\ next' = IF At(next) = "\\" THEN next + 2 ELSE next + 1
          /\ i' = i + 1
          /\ UNCHANGED <<j, pc>>
  /\ UNCHANGED <<input, nsub, sub>>

MeasurePart ==
  /\ pc = "measure" /\ Splits(next) /\ i \in DOMAIN part
  /\ part' = [part EXCEPT ![i] = [k \in 0 .. len |-> Junk]]
  /\ part_len' = [part_len EXCEPT ![i] = len]
  /\ len' = 0
  /\ IF At(next) = Nul
     THEN pc' = "extract" /\ next' = 0 /\ i' = 0 /\ j' = 0
     ELSE /\ next' = IF At(next) = "\\" THEN next + 2 ELSE next + 1
          /\ i' = i + 1
          /\ UNCHANGED <<j, pc>>
  /\ UNCHANGED <<input, nsub, sub>>

\* part[i] does not exist: what the program does from here is not defined.
MeasureBeyond ==
  /\ pc = "measure" /\ Splits(next) /\ i \notin DOMAIN part
  /\ pc' = "undefined"
  /\ UNCHANGED <<input, replacement, locals>>

-----------------------------------------------------------------------------
(* The third sweep fills the parts.                                        *)

\* replacement->part[i][j] = c
Store(c) == part' = [part EXCEPT ![i][j] = c]

\* Mutant: the escaped character is taken as it is.
ExtractCharVerbatim ==
  /\ pc = "extract" /\ At(next) \notin {Nul, "&"} /\ ~ IsReference(next)
  /\ IF At(next) = "\\"
     THEN Store(At(next + 1)) /\ next' = next + 2
     ELSE Store(At(next)) /\ next' = next + 1
  /\ j' = j + 1
  /\ UNCHANGED <<input, nsub, part_len, sub, i, len, pc>>

ExtractChar ==
  /\ pc = "extract" /\ At(next) \notin {Nul, "&"} /\ ~ IsReference(next)
  /\ IF At(next) = "\\"
     THEN Store(S!Unescape(At(next + 1))) /\ next' = next + 2
     ELSE Store(At(next)) /\ next' = next + 1
  /\ j' = j + 1
  /\ UNCHANGED <<input, nsub, part_len, sub, i, len, pc>>

ExtractReference ==
  /\ pc = "extract" /\ Store(Nul)
  /\ \/ /\ At(next) = "&"
        /\ sub' = [sub EXCEPT ![i] = 0] /\ next' = next + 1
     \/ /\ IsReference(next)
        /\ sub' = [sub EXCEPT ![i] = S!GroupOf[At(next + 1)]] /\ next' = next + 2
  /\ i' = i + 1 /\ j' = 0
  /\ UNCHANGED <<input, nsub, part_len, len, pc>>

ExtractEnds ==
  /\ pc = "extract" /\ At(next) = Nul /\ Store(Nul)
  /\ pc' = "parsed"
  /\ UNCHANGED <<input, nsub, part_len, sub, locals>>

\* malloc returns NULL, in either function.
MallocFails ==
  /\ "malloc" \in Faults
  /\ \/ pc = "pattern" /\ input.pattern # "empty"
     \/ pc \in {"string", "arrays"}
     \/ pc = "measure" /\ Splits(next) /\ i \in DOMAIN part
  /\ pc' = "failed"
  /\ UNCHANGED <<input, replacement, locals>>

ParseNext ==
  \/ PatternParsed \/ PatternFails \/ CopyString
  \/ CountOne \/ UnknownEscape \/ CountEnds \/ AllocArrays
  \/ MeasureOne \/ MeasurePart \/ MeasureBeyond
  \/ ExtractChar \/ ExtractReference \/ ExtractEnds

ParseSpec == ParseInit /\ [][ParseNext \/ MallocFails]_parseVars

-----------------------------------------------------------------------------
(* What the parts say.                                                     *)

\* The first n characters of part k, as items.
Literals(k, n) == [p \in 1 .. n |-> S!Lit(part[k][p - 1])]

\* The items the parts and references make when part k ends after Size(k).
Items(Size(_)) ==
  Literals(0, Size(0))
    \o FlattenSeq([k \in 1 .. nsub |-> <<S!Ref(sub[k - 1])>> \o Literals(k, Size(k))])

\* Where the text of part k ends: at its terminator.
StrLen(k) ==
  CHOOSE p \in DOMAIN part[k] :
    part[k][p] = Nul /\ \A q \in 0 .. (p - 1) : part[k][q] # Nul

\* What the second sweep takes for references.
Splitters(s) ==
  {p \in 1 .. Len(s) : s[p] = "&" \/ (s[p] = "\\" /\ p < Len(s) /\ s[p + 1] \in S!Digits)}

\* An escaped "&" may be among them, and an escaped backslash before a digit.
Oversplit(s) == \E p \in Splitters(s) : S!Escaped(s)[p]

\* The escapes that stand for one character, and those of them in part k.
SimpleEscapes(s) == {p \in 1 .. Len(s) : S!Escaped(s)[p] /\ s[p] \notin S!Digits}
SimpleEscapesIn(s, k) ==
  {p \in SimpleEscapes(s) : Cardinality({q \in Splitters(s) : q <= p}) = k}

Extracted == pc = "parsed" /\ ~ input.fixed

-----------------------------------------------------------------------------
(* Properties.                                                             *)

\* A replacement string is refused by the first sweep if and only if it has
\* no meaning, whatever stands before the unknown escape (pattern.c:275-297).
RejectsMeaningless ==
  [][pc = "count" /\ pc' # "count" =>
       (pc' = "failed" <=> S!Meaningless(string))]_parseVars

\* The third sweep writes only to memory the second one allocated, although
\* they measure by different rules (pattern.c:331-398).
WritesInParts ==
  pc = "extract" =>
    /\ i \in DOMAIN part /\ j \in DOMAIN part[i]
    /\ At(next) = "&" \/ IsReference(next) => i \in DOMAIN sub

\* The second sweep leaves the arrays exactly for the strings in which it
\* takes an escaped character for a reference (pattern.c:331-351).
UndefinedExactly ==
  pc \in {"extract", "undefined"} => (pc = "undefined" <=> Oversplit(string))

\* The references and the text of the parts up to their terminators say what
\* the string means.  The length of a part is too large by one for every simple
\* escape in it and by nothing else: so many bytes from behind the terminator
\* are written for a match too (pattern.c:331-398, rrep.c:150-163).
TextsMeanString ==
  Extracted =>
    /\ Items(StrLen) = S!Meaning(string)
    /\ \A k \in 0 .. nsub :
         part_len[k] = StrLen(k) + Cardinality(SimpleEscapesIn(string, k))

\* What write_replacement writes, the parts to their lengths, is what the
\* string means: "The string can contain escape sequences which are replaced
\* in this function" (pattern.c:248-249).
PartsMeanString ==
  Extracted => Items(LAMBDA k : part_len[k]) = S!Meaning(string)
=============================================================================
