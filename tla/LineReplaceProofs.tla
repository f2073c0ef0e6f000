-------------------------- MODULE LineReplaceProofs --------------------------
(***************************************************************************)
(* What rrep does with a line, for every line, pattern, replacement string *)
(* and option: the types, that it is a substitution, and that no match is  *)
(* missed.                                                                 *)
(*                                                                         *)
(* LInv says where the line has been gone through up to, that match_pattern*)
(* goes on in the rest of it, what match holds, and that last_empty_flag   *)
(* tells whether the last replaced match ended where the rest begins.      *)
(* MInv adds, for a pattern that finds the same match from wherever it is  *)
(* searched, up to where every match has been dealt with.  What the parts  *)
(* hold when a line is begun is TextInv of the parser underneath.          *)
(***************************************************************************)
EXTENDS LineReplace, ParseStringsProofs

-----------------------------------------------------------------------------
(* The parser underneath.                                                  *)

\* A step of the program is a step of the parser or leaves its state alone.
LEMMA ParserStep == [Next]_vars => [ParseNext \/ MallocFails]_parseVars
<1> SUFFICES ASSUME [Next]_vars PROVE [ParseNext \/ MallocFails]_parseVars
  OBVIOUS
<1>1. CASE (ParseNext /\ UNCHANGED lineVars) \/ (MallocFails /\ UNCHANGED lineVars)
  BY <1>1
<1>2. CASE LineNext \/ MatchFails \/ WriteFails
  <2>1. UNCHANGED parseVars
    BY <1>2 DEF LineNext, BeginLine, MatchWhole, MatchPart, MatchNone, StopBehindNewline,
       WritePrefix, WriteReplacement, SkipReplacement, Advance, Flush, MatchFails, WriteFails
  <2> QED
    BY <2>1
<1>3. CASE UNCHANGED vars
  BY <1>3 DEF vars
<1> QED
  BY <1>1, <1>2, <1>3 DEF Next, Works, CallFails

\* Everything the parser promises holds while a line is gone through.
THEOREM LineParses == Spec => ParseSpec
<1>1. Init => ParseInit
  BY DEF Init
<1> QED
  BY <1>1, ParserStep, PTL DEF Spec, ParseSpec

\* So do its guarantees: writes stay in what was allocated, only a string that
\* is split where no reference is leaves the arrays, a string without meaning
\* is refused, and the parts tell the meaning (pattern.c:275-398).
THEOREM LineKeepsParts ==
  Spec => [](WritesInParts /\ UndefinedExactly /\ TextsMeanString) /\ RejectsMeaningless
BY LineParses, WritesStayInParts, UndefinedForOversplit, PartsTellMeaning, MeaninglessRefused, PTL

\* The parser has come to its end.
LEMMA ParsedStays == pc \in {"parsed", "failed", "undefined"} => ~ ParseNext /\ ~ MallocFails
BY DEF ParseNext, MallocFails, PatternParsed, PatternFails, CopyString, CountOne,
   UnknownEscape, CountEnds, AllocArrays, MeasureOne, MeasurePart, MeasureBeyond,
   ExtractChar, ExtractReference, ExtractEnds

-----------------------------------------------------------------------------
(* The line and what is found in it.                                       *)

\* n is the length of the C string.
LEMMA CString ==
  ASSUME input \in Inputs
  PROVE  \E n \in 0 .. Len(line) :
           /\ CEnd = n
           /\ \A p \in 0 .. (n - 1) : Char(p) # Nul /\ (Char(p) = Newline => p = n - 1)
           /\ Char(n) = Nul
           /\ DOMAIN input.found = 0 .. n
           /\ \A p \in 0 .. n : input.found[p] # None =>
                MatchIn(input.found[p], p, n) /\ (input.fixed => input.found[p].len = input.plen)
<1>1. PICK n \in 0 .. Len(line) :
        /\ \A q \in 1 .. n : line[q] # Nul /\ (line[q] = Newline => q = n)
        /\ n < Len(line) => line[n + 1] = Nul
        /\ DOMAIN input.found = 0 .. n
        /\ \A p \in 0 .. n : input.found[p] # None =>
             MatchIn(input.found[p], p, n) /\ (input.fixed => input.found[p].len = input.plen)
  BY LineAssumption DEF line
<1>2. Len(line) \in Nat
  BY LineAssumption DEF line
<1>3. Char(n) = Nul
  BY <1>1, <1>2 DEF Char
<1>4. \A p \in 0 .. (n - 1) : Char(p) # Nul /\ (Char(p) = Newline => p = n - 1)
  <2> SUFFICES ASSUME NEW p \in 0 .. (n - 1)
               PROVE  Char(p) # Nul /\ (Char(p) = Newline => p = n - 1)
    OBVIOUS
  <2>1. p + 1 \in 1 .. n /\ p < Len(line)
    BY <1>2
  <2> QED
    BY <1>1, <2>1 DEF Char
<1>5. ASSUME NEW p \in 0 .. Len(line), Char(p) = Nul, \A q \in 0 .. (p - 1) : Char(q) # Nul
      PROVE  p = n
  <2>1. ~ (p < n)
    BY <1>4, <1>5
  <2>2. ~ (n < p)
    BY <1>3, <1>5
  <2> QED
    BY <2>1, <2>2
<1>6. CEnd = n
  BY <1>3, <1>4, <1>5 DEF CEnd
<1> QED
  BY <1>1, <1>3, <1>4, <1>6

\* What a match found in the line is.
IsMatch(m, n) ==
  /\ m.from \in Nat /\ m.len \in Nat /\ m.from + m.len <= n
  /\ m.group1 # <<>> =>
       \E a, b \in Nat : m.from <= a /\ a <= b /\ b <= m.from + m.len /\ m.group1 = <<a, b>>

\* The same, with the facts in the form the steps need.
LEMMA MatchInIs ==
  ASSUME NEW m, NEW p \in Nat, NEW n \in Nat, MatchIn(m, p, n)
  PROVE  IsMatch(m, n) /\ p <= m.from
<1>1. m.from \in p .. n /\ m.len \in 0 .. (n - m.from)
  BY DEF MatchIn
<1>2. m.from \in Nat /\ m.len \in Nat /\ m.from + m.len <= n /\ p <= m.from
  BY <1>1
<1>3. ASSUME m.group1 # <<>>
      PROVE  \E a, b \in Nat : m.from <= a /\ a <= b /\ b <= m.from + m.len /\ m.group1 = <<a, b>>
  <2>1. PICK a, b \in m.from .. (m.from + m.len) : a <= b /\ m.group1 = <<a, b>>
    BY <1>3 DEF MatchIn
  <2>2. a \in Nat /\ b \in Nat /\ m.from <= a /\ b <= m.from + m.len
    BY <1>2
  <2> QED
    BY <2>1, <2>2
<1> QED
  BY <1>2, <1>3 DEF IsMatch

\* What the C string is, with the facts in the form the steps need.
LEMMA LineEnd ==
  ASSUME input \in Inputs
  PROVE  /\ CEnd \in Nat /\ Len(line) \in Nat /\ CEnd <= Len(line)
         /\ \A p \in Nat : p < CEnd => Char(p) # Nul /\ (Char(p) = Newline => p = CEnd - 1)
         /\ Char(CEnd) = Nul
         /\ DOMAIN input.found = 0 .. CEnd
         /\ \A p \in Nat : p <= CEnd /\ input.found[p] # None =>
              /\ input.found[p] \in Found
              /\ IsMatch(input.found[p], CEnd) /\ p <= input.found[p].from
              /\ input.fixed => input.found[p].len = input.plen
         /\ \A m \in Found : IsMatch(m, CEnd)
         /\ input.plen \in Nat /\ input.fixed \in BOOLEAN
<1>1. PICK n \in 0 .. Len(line) :
           /\ CEnd = n
           /\ \A p \in 0 .. (n - 1) : Char(p) # Nul /\ (Char(p) = Newline => p = n - 1)
           /\ Char(n) = Nul
           /\ DOMAIN input.found = 0 .. n
           /\ \A p \in 0 .. n : input.found[p] # None =>
                MatchIn(input.found[p], p, n) /\ (input.fixed => input.found[p].len = input.plen)
  BY CString
<1>2. Len(line) \in Nat
  BY LineAssumption DEF line
<1>3. n \in Nat /\ n <= Len(line)
  BY <1>2
<1>4. \A p \in Nat : p <= n => p \in 0 .. n
  BY <1>3
<1>5. \A p \in Nat : p <= n /\ input.found[p] # None =>
              /\ input.found[p] \in Found
              /\ IsMatch(input.found[p], n) /\ p <= input.found[p].from
              /\ input.fixed => input.found[p].len = input.plen
  <2> SUFFICES ASSUME NEW p \in Nat, p <= n, input.found[p] # None
               PROVE  /\ input.found[p] \in Found
                      /\ IsMatch(input.found[p], n) /\ p <= input.found[p].from
                      /\ input.fixed => input.found[p].len = input.plen
    OBVIOUS
  <2>1. p \in 0 .. n
    BY <1>4
  <2>2. MatchIn(input.found[p], p, n) /\ (input.fixed => input.found[p].len = input.plen)
    BY <1>1, <2>1
  <2>3. IsMatch(input.found[p], n) /\ p <= input.found[p].from
    BY <1>3, <2>2, MatchInIs
  <2>4. input.found[p] \in Found
    BY <1>1, <2>1 DEF Found
  <2> QED
    BY <2>2, <2>3, <2>4
<1>6. \A m \in Found : IsMatch(m, n)
  <2> SUFFICES ASSUME NEW m \in Found PROVE IsMatch(m, n)
    OBVIOUS
  <2>1. PICK p \in 0 .. n : m = input.found[p] /\ m # None
    BY <1>1 DEF Found
  <2>2. p \in Nat /\ p <= n
    BY <1>3
  <2> QED
    BY <1>5, <2>1, <2>2
<1>7. input.plen \in Nat /\ input.fixed \in BOOLEAN
  BY LineAssumption, InputAssumption
<1>8. \A p \in Nat : p < n => p \in 0 .. (n - 1)
  BY <1>3
<1> QED
  BY <1>1, <1>2, <1>3, <1>5, <1>6, <1>7, <1>8

\* The offsets of a match.
LEMMA OffsetsAre ==
  ASSUME NEW m, NEW n \in Nat, IsMatch(m, n), NEW p \in Int
  PROVE  /\ Offsets(m, p) \in [Groups -> Int \X Int]
         /\ Offsets(m, p)[0] = <<m.from - p, m.from + m.len - p>>
         /\ m.group1 # <<>> => Offsets(m, p)[1] = <<m.group1[1] - p, m.group1[2] - p>>
         /\ m.group1 = <<>> => Offsets(m, p)[1] = <<-1, -1>>
         /\ \A k \in 2 .. 9 : Offsets(m, p)[k] = <<-1, -1>>
<1>1. m.group1 # <<>> => m.group1[1] \in Int /\ m.group1[2] \in Int
  BY DEF IsMatch
<1>2. m.from \in Int /\ m.len \in Int
  BY DEF IsMatch
<1>3. \A k \in Groups : Offsets(m, p)[k] =
         IF k = 0 THEN <<m.from - p, m.from + m.len - p>>
         ELSE IF k = 1 /\ m.group1 # <<>> THEN <<m.group1[1] - p, m.group1[2] - p>>
         ELSE <<-1, -1>>
  BY DEF Offsets, Groups
<1>t. \A a, b \in Int : <<a, b>> \in Int \X Int
  OBVIOUS
<1>n. m.from - p \in Int /\ m.from + m.len - p \in Int /\ -1 \in Int
  BY <1>2
<1>4. \A k \in Groups : Offsets(m, p)[k] \in Int \X Int
  <2> SUFFICES ASSUME NEW k \in Groups PROVE Offsets(m, p)[k] \in Int \X Int
    OBVIOUS
  <2>1. CASE k = 0
    BY <1>3, <1>n, <1>t, <2>1
  <2>2. CASE k = 1 /\ m.group1 # <<>>
    <3>1. m.group1[1] - p \in Int /\ m.group1[2] - p \in Int
      BY <1>1, <2>2
    <3> QED
      BY <1>3, <1>t, <2>2, <3>1
  <2>3. CASE k # 0 /\ ~ (k = 1 /\ m.group1 # <<>>)
    BY <1>3, <1>n, <1>t, <2>3
  <2> QED
    BY <2>1, <2>2, <2>3
<1>5. Offsets(m, p) = [k \in Groups |-> Offsets(m, p)[k]]
  BY DEF Offsets
<1> QED
  BY <1>3, <1>4, <1>5 DEF Groups

\* Corrected, the offsets from where the search started are those from start.
LEMMA CorrectedIs ==
  ASSUME NEW m, NEW n \in Nat, IsMatch(m, n), NEW p \in Nat, p <= m.from, start \in Nat
  PROVE  Corrected(Offsets(m, p), p) = Offsets(m, start)
<1> DEFINE F == Offsets(m, p)
           G == Offsets(m, start)
<1>0. IsMatch(m, n) /\ n \in Nat /\ p \in Int /\ start \in Int
  OBVIOUS
<1>1. /\ F \in [Groups -> Int \X Int] /\ F[0] = <<m.from - p, m.from + m.len - p>>
      /\ m.group1 # <<>> => F[1] = <<m.group1[1] - p, m.group1[2] - p>>
      /\ m.group1 = <<>> => F[1] = <<-1, -1>>
      /\ \A k \in 2 .. 9 : F[k] = <<-1, -1>>
  BY ONLY <1>0, OffsetsAre, Zenon DEF F
<1>2. /\ G \in [Groups -> Int \X Int] /\ G[0] = <<m.from - start, m.from + m.len - start>>
      /\ m.group1 # <<>> => G[1] = <<m.group1[1] - start, m.group1[2] - start>>
      /\ m.group1 = <<>> => G[1] = <<-1, -1>>
      /\ \A k \in 2 .. 9 : G[k] = <<-1, -1>>
  BY ONLY <1>0, OffsetsAre, Zenon DEF G
<1> HIDE DEF F, G
<1> DEFINE H == Corrected(F, p)
<1>3. H = [k \in Groups |-> IF F[k][2] > -1 THEN <<F[k][1] + p - start, F[k][2] + p - start>>
                            ELSE F[k]]
  BY DEF Corrected
<1>4. H[0] = G[0]
  <2>1. m.from \in Nat /\ m.len \in Nat
    BY DEF IsMatch
  <2>2. F[0][2] = m.from + m.len - p /\ F[0][1] = m.from - p /\ 0 \in Groups
    BY <1>1 DEF Groups
  <2>3. m.from - p \in Int /\ m.from + m.len - p > -1
    BY <2>1
  <2>4. H[0] = <<F[0][1] + p - start, F[0][2] + p - start>>
    BY <1>3, <2>2, <2>3
  <2>5. H[0] = <<(m.from - p) + p - start, (m.from + m.len - p) + p - start>>
    BY <2>2, <2>4
  <2>6. /\ (m.from - p) + p - start = m.from - start
        /\ (m.from + m.len - p) + p - start = m.from + m.len - start
    BY <2>1
  <2> QED
    BY <1>2, <2>5, <2>6
<1>5. H[1] = G[1]
  <2>0. 1 \in Groups
    BY DEF Groups
  <2>1. CASE m.group1 = <<>>
    <3>1. F[1] = <<-1, -1>> /\ ~ (F[1][2] > -1)
      BY <1>1, <2>1
    <3> QED
      BY <1>2, <1>3, <2>0, <2>1, <3>1
  <2>2. CASE m.group1 # <<>>
    <3>1. PICK a, b \in Nat : m.from <= a /\ a <= b /\ m.group1 = <<a, b>>
      BY <2>2 DEF IsMatch
    <3>2. F[1] = <<a - p, b - p>> /\ G[1] = <<a - start, b - start>>
      BY <1>1, <1>2, <2>2, <3>1
    <3>3. p <= b /\ b - p > -1
      BY <3>1 DEF IsMatch
    <3>4. H[1] = <<(a - p) + p - start, (b - p) + p - start>>
      BY <1>3, <2>0, <3>2, <3>3
    <3>5. (a - p) + p - start = a - start /\ (b - p) + p - start = b - start
      BY <3>1
    <3> QED
      BY <3>2, <3>4, <3>5
  <2> QED
    BY <2>1, <2>2
<1>6. \A k \in 2 .. 9 : H[k] = G[k]
  <2> SUFFICES ASSUME NEW k \in 2 .. 9 PROVE H[k] = G[k]
    OBVIOUS
  <2>1. F[k] = <<-1, -1>> /\ G[k] = <<-1, -1>>
    BY <1>1, <1>2, Zenon
  <2>3. k \in Groups
    BY DEF Groups
  <2>2. ~ (F[k][2] > -1)
    BY <2>1
  <2> QED
    BY <1>3, <2>1, <2>2, <2>3
<1>7. \A k \in Groups : k = 0 \/ k = 1 \/ k \in 2 .. 9
  BY DEF Groups
<1>8. H = [k \in Groups |-> H[k]] /\ G = [k \in Groups |-> G[k]]
  BY <1>2, <1>3
<1> HIDE DEF H
<1>9. H = G
  BY <1>4, <1>5, <1>6, <1>7, <1>8
<1> QED
  BY <1>9 DEF F, G, H

\* check_whole accepts what -w and -x ask for.
LEMMA WholeIsAcceptable ==
  ASSUME input \in Inputs, NEW m, NEW n \in Nat, IsMatch(m, n)
  PROVE  CheckWhole(m.from, m.len) <=> Acceptable(m)
<1>1. input.word \in BOOLEAN /\ input.whole \in BOOLEAN /\ Newline \notin WordChars
  BY LineAssumption
<1>2. m.from \in Nat /\ m.len \in Nat
  BY DEF IsMatch
<1>3. (m.from > 0 <=> m.from # 0) /\ (m.from = 0 => m.from + m.len = m.len)
  BY <1>2
<1>4. CheckWhole(m.from, m.len) <=>
        \/ ~ input.word /\ ~ input.whole
        \/ /\ m.from > 0 => ~ input.whole /\ Char(m.from - 1) \notin WordChars
           /\ Char(m.from + m.len) # Newline =>
                ~ input.whole /\ Char(m.from + m.len) \notin WordChars
  BY DEF CheckWhole
<1>5. Acceptable(m) <=>
        /\ input.whole => m.from = 0 /\ Char(m.len) = Newline
        /\ input.word =>
             /\ m.from > 0 => Char(m.from - 1) \notin WordChars
             /\ Char(m.from + m.len) \notin WordChars
  BY DEF Acceptable
<1>6. CASE ~ input.whole
  BY <1>1, <1>3, <1>4, <1>5, <1>6, Zenon
<1>7. CASE input.whole
  <2>1. CASE m.from # 0
    BY <1>3, <1>4, <1>5, <1>7, <2>1, Zenon
  <2>2. CASE m.from = 0
    BY <1>1, <1>3, <1>4, <1>5, <1>7, <2>2, Zenon
  <2> QED
    BY <2>1, <2>2
<1> QED
  BY <1>6, <1>7

-----------------------------------------------------------------------------
(* Going through the line.                                                  *)

\* What the history of replaced matches is made of.
Spans == [from : Nat, len : Nat]

\* Where the last replaced match ended.
LastEnd ==
  IF replaced = <<>> THEN -1 ELSE replaced[Len(replaced)].from + replaced[Len(replaced)].len

\* The types, with what of the line can be gone through.
LTypes ==
  /\ input \in Inputs
  /\ start \in Nat /\ start <= CEnd /\ gone \in Nat /\ gone <= Len(line) /\ first \in Int
  /\ match \in [Groups -> Int \X Int]
  /\ last_empty_flag \in BOOLEAN /\ break_flag \in BOOLEAN
  /\ replaced \in Seq(Spans)
  /\ lpc \in {"idle", "match", "prefix", "replace", "advance", "flush", "done", "failed"}
  /\ pc \in {"pattern", "string", "count", "arrays", "measure", "extract",
             "parsed", "failed", "undefined"}

\* Where match_pattern goes on is in the rest of the line: f and mt stand for
\* first and match.
SearchFrom(f, mt) ==
  /\ input.fixed => start <= f + input.plen /\ f + input.plen <= CEnd
  /\ ~ input.fixed => \/ mt[0][2] = 0 /\ f = start - 1
                      \/ mt[0][2] >= 0 /\ start <= f /\ f + mt[0][2] <= CEnd

\* match holds the offsets of m from start.
Matched(m) == m \in Found /\ start <= m.from /\ Acceptable(m) /\ match = Offsets(m, start)

\* The inductive invariant: where the line is gone through up to, where the
\* last replaced match ended, and what the flags say of it.
Going ==
  /\ lpc = "idle" => start = 0 /\ gone = 0 /\ replaced = <<>> /\ last_empty_flag
  /\ lpc # "idle" => pc = "parsed"
  /\ lpc = "match" => SearchFrom(first, match)
  /\ lpc \in {"match", "prefix", "flush"} => gone = start
  /\ lpc \in {"match", "prefix", "replace"} =>
       LastEnd <= start /\ (last_empty_flag <=> LastEnd < start)
  /\ lpc \in {"prefix", "replace", "advance"} => \E m \in Found : Matched(m)
  /\ lpc = "replace" => gone = start + So(0) /\ (break_flag <=> Char(start) = Nul)
  /\ lpc = "advance" =>
       /\ gone = start + Eo(0) /\ Char(start) # Nul
       /\ LastEnd <= start + Eo(0) /\ (Eo(0) > 0 => LastEnd = start + Eo(0))

\* The inductive invariant of a line.
LInv == LTypes /\ Going

\* The line, and what is found in it, stay what they are.
LEMMA SameLine ==
  ASSUME input' = input
  PROVE  /\ line' = line /\ string' = string /\ CEnd' = CEnd /\ Found' = Found
         /\ \A p : Char(p)' = Char(p)
         /\ \A m : Acceptable(m)' = Acceptable(m)
  BY DEF line, string, CEnd, Found, Char, Acceptable

\* What match says of the match.
LEMMA MatchedIs ==
  ASSUME LTypes, NEW m, Matched(m)
  PROVE  /\ IsMatch(m, CEnd) /\ m.from \in Nat /\ m.len \in Nat
         /\ So(0) = m.from - start /\ Eo(0) = m.from + m.len - start
         /\ So(0) \in Nat /\ Eo(0) \in Nat /\ So(0) <= Eo(0) /\ start + Eo(0) <= CEnd
<1>1. CEnd \in Nat /\ IsMatch(m, CEnd)
  BY LineEnd DEF LTypes, Matched
<1>2. start \in Nat /\ start \in Int /\ start <= m.from /\ match = Offsets(m, start)
  BY DEF LTypes, Matched
<1>3. m.from \in Nat /\ m.len \in Nat /\ m.from + m.len <= CEnd
  BY <1>1 DEF IsMatch
<1>4. match[0] = <<m.from - start, m.from + m.len - start>>
  <2>1. Offsets(m, start)[0] = <<m.from - start, m.from + m.len - start>>
    BY ONLY <1>1, <1>2, OffsetsAre
  <2> QED
    BY ONLY <1>2, <2>1
<1>5. So(0) = m.from - start /\ Eo(0) = m.from + m.len - start
  BY <1>4 DEF So, Eo
<1>6. \A a, b, s, e \in Nat : s <= a /\ a + b <= e =>
        /\ a - s \in Nat /\ a + b - s \in Nat /\ a - s <= a + b - s
        /\ s + (a + b - s) <= e
  OBVIOUS
<1>7. /\ m.from - start \in Nat /\ m.from + m.len - start \in Nat
      /\ m.from - start <= m.from + m.len - start
      /\ start + (m.from + m.len - start) <= CEnd
  BY ONLY <1>1, <1>2, <1>3, <1>6
<1> QED
  BY ONLY <1>1, <1>3, <1>5, <1>7

\* The next search starts in the rest of the line.
LEMMA NextFirstIs ==
  ASSUME LInv, lpc = "match", ~ AtEnd
  PROVE  NextFirst \in Nat /\ start <= NextFirst /\ NextFirst <= CEnd
<1>1. /\ CEnd \in Nat /\ start \in Nat /\ start <= CEnd /\ first \in Int /\ input.plen \in Nat
      /\ \A p \in Nat : p < CEnd => Char(p) # Nul
      /\ Char(CEnd) = Nul
  BY LineEnd DEF LInv, LTypes
<1>2. match[0] \in Int \X Int
  BY DEF LInv, LTypes, Groups
<1>3. Eo(0) \in Int
  BY <1>2 DEF Eo
<1>4. SearchFrom(first, match)
  BY DEF LInv, Going
<1>5. CASE input.fixed
  BY <1>1, <1>4, <1>5 DEF SearchFrom, NextFirst
<1>6. CASE ~ input.fixed
  <2>1. \/ Eo(0) = 0 /\ first = start - 1
        \/ Eo(0) >= 0 /\ start <= first /\ first + Eo(0) <= CEnd
    BY <1>4, <1>6 DEF SearchFrom, Eo
  <2>2. NextFirst = IF Eo(0) = 0 THEN first + 1 ELSE first + Eo(0)
    BY <1>6 DEF NextFirst
  <2>3. CASE Eo(0) = 0 /\ first >= start
    <3>1. Char(first) # Nul /\ first <= CEnd
      BY <1>1, <1>6, <2>1, <2>3 DEF AtEnd
    <3>2. first # CEnd
      BY <1>1, <3>1
    <3> QED
      BY <1>1, <2>2, <2>3, <3>1, <3>2
  <2>4. CASE Eo(0) = 0 /\ first = start - 1
    BY <1>1, <2>2, <2>4
  <2>5. CASE Eo(0) # 0
    BY <1>1, <1>3, <2>1, <2>2, <2>5
  <2> QED
    BY <1>1, <2>1, <2>3, <2>4, <2>5
<1> QED
  BY <1>5, <1>6

\* The prologue of match_pattern.
LEMMA CallIs ==
  ASSUME LTypes, NEW p \in Nat, Call(p)
  PROVE  /\ lpc' = "match" /\ first' \in Int /\ match' \in [Groups -> Int \X Int]
         /\ input.fixed => first' + input.plen = p
         /\ ~ input.fixed => match'[0][2] = 0 /\ first' = p - 1
<1>1. input.plen \in Nat /\ input.fixed \in BOOLEAN
  BY LineEnd DEF LTypes
<1>2. lpc' = "match"
  BY DEF Call
<1>3. CASE input.fixed
  <2>1. first' = p - input.plen /\ match' = NoMatch
    BY <1>3 DEF Call
  <2>2. NoMatch \in [Groups -> Int \X Int]
    BY DEF NoMatch
  <2>3. first' \in Int /\ first' + input.plen = p
    BY <1>1, <2>1
  <2> QED
    BY <1>2, <1>3, <2>1, <2>2, <2>3
<1>4. CASE ~ input.fixed
  <2>1. first' = p - 1 /\ match' = [match EXCEPT ![0][2] = 0]
    BY <1>4 DEF Call
  <2>2. match \in [Groups -> Int \X Int] /\ 0 \in Groups
    BY DEF LTypes, Groups
  <2>3. [match[0] EXCEPT ![2] = 0] \in Int \X Int /\ [match[0] EXCEPT ![2] = 0][2] = 0
    <3>1. match[0] \in Int \X Int
      BY <2>2
    <3> QED
      BY <3>1
  <2>4. match' = [match EXCEPT ![0] = [match[0] EXCEPT ![2] = 0]]
    BY <2>1, <2>2
  <2>5. match' \in [Groups -> Int \X Int] /\ match'[0][2] = 0
    BY <2>2, <2>3, <2>4
  <2> QED
    BY <1>2, <1>4, <2>1, <2>5
<1> QED
  BY <1>1, <1>3, <1>4

\* The invariant holds when main calls parse_pattern.
LEMMA LInvInit == Init => LInv
<1> SUFFICES ASSUME Init PROVE LInv
  OBVIOUS
<1>1. input \in Inputs /\ pc = "pattern"
  BY DEF Init, ParseInit
<1>2. NoMatch \in [Groups -> Int \X Int]
  BY DEF NoMatch
<1>3. CEnd \in Nat /\ Len(line) \in Nat
  BY <1>1, LineEnd
<1>4. <<>> \in Seq(Spans)
  OBVIOUS
<1>5. LTypes
  <2>1. /\ start = 0 /\ gone = 0 /\ first = 0 /\ match = NoMatch /\ replaced = <<>>
        /\ last_empty_flag \in BOOLEAN /\ break_flag \in BOOLEAN /\ lpc = "idle"
    BY DEF Init
  <2>2. /\ start \in Nat /\ start <= CEnd /\ gone \in Nat /\ gone <= Len(line) /\ first \in Int
    BY <1>3, <2>1
  <2> QED
    BY <1>1, <1>2, <1>4, <2>1, <2>2 DEF LTypes
<1>6. /\ lpc = "idle" /\ start = 0 /\ gone = 0 /\ replaced = <<>>
      /\ last_empty_flag
      /\ "idle" \notin {"match", "prefix", "flush", "replace", "advance"}
  BY DEF Init
<1>7. Going
  BY <1>6 DEF Going
<1> QED
  BY <1>5, <1>7 DEF LInv

\* A step of the parser.
LEMMA ParsingStep ==
  ASSUME LInv, ParseNext \/ MallocFails, UNCHANGED lineVars
  PROVE  LInv'
<1>1. pc # "parsed" /\ input' = input
  BY ParsedStays DEF ParseNext, MallocFails, PatternParsed, PatternFails, CopyString, CountOne,
   UnknownEscape, CountEnds, AllocArrays, MeasureOne, MeasurePart, MeasureBeyond,
   ExtractChar, ExtractReference, ExtractEnds
<1>2. pc' \in {"pattern", "string", "count", "arrays", "measure", "extract",
               "parsed", "failed", "undefined"}
  BY DEF LInv, LTypes, ParseNext, MallocFails, PatternParsed, PatternFails, CopyString, CountOne,
   UnknownEscape, CountEnds, AllocArrays, MeasureOne, MeasurePart, MeasureBeyond,
   ExtractChar, ExtractReference, ExtractEnds
<1>3. lpc = "idle"
  BY <1>1 DEF LInv, Going
<1>4. /\ start' = start /\ first' = first /\ match' = match /\ gone' = gone /\ lpc' = lpc
      /\ last_empty_flag' = last_empty_flag /\ break_flag' = break_flag /\ replaced' = replaced
  BY DEF lineVars, search, writing
<1>5. LTypes'
  BY <1>1, <1>2, <1>4, SameLine DEF LInv, LTypes
<1>6. Going'
  BY <1>3, <1>4 DEF LInv, Going
<1> QED
  BY <1>5, <1>6 DEF LInv

\* The first call of match_pattern.
LEMMA BeginLineStep ==
  ASSUME LInv, BeginLine
  PROVE  LInv'
<1>1. /\ UNCHANGED parseVars /\ input' = input /\ pc' = "parsed" /\ pc = "parsed"
      /\ start' = start /\ start = 0 /\ gone' = gone /\ gone = 0
      /\ replaced' = replaced /\ replaced = <<>>
      /\ last_empty_flag' = last_empty_flag /\ last_empty_flag
      /\ break_flag' = break_flag
  BY DEF BeginLine, LInv, Going, parseVars, writing
<1>2. 0 \in Nat /\ Call(0) /\ LTypes /\ CEnd \in Nat
  BY <1>1, LineEnd DEF BeginLine, LInv, LTypes
<1>3. /\ lpc' = "match" /\ first' \in Int /\ match' \in [Groups -> Int \X Int]
      /\ input.fixed => first' + input.plen = 0
      /\ ~ input.fixed => match'[0][2] = 0 /\ first' = 0 - 1
  BY <1>2, CallIs
<1>4. LTypes'
  BY <1>1, <1>3, SameLine DEF LInv, LTypes
<1>5. SearchFrom(first, match)'
  BY <1>1, <1>2, <1>3, SameLine DEF SearchFrom
<1>6. LastEnd' = -1
  BY <1>1 DEF LastEnd
<1>7. Going'
  BY <1>1, <1>3, <1>5, <1>6 DEF Going
<1> QED
  BY <1>4, <1>7 DEF LInv

\* A match that is whole where -w or -x asks for it.
LEMMA MatchWholeStep ==
  ASSUME LInv, MatchWhole
  PROVE  LInv'
<1>1. /\ UNCHANGED parseVars /\ input' = input /\ pc' = pc /\ start' = start /\ gone' = gone
      /\ replaced' = replaced /\ last_empty_flag' = last_empty_flag /\ break_flag' = break_flag
      /\ lpc = "match" /\ lpc' = "prefix" /\ ~ AtEnd
  BY DEF MatchWhole, parseVars, writing
<1>2. PICK p \in Nat : p = NextFirst /\ start <= p /\ p <= CEnd
  BY <1>1, NextFirstIs
<1>3. PICK m \in {input.found[p]} \ {None} :
        CheckWhole(m.from, m.len) /\ match' = Corrected(Offsets(m, p), p)
  BY <1>2 DEF MatchWhole
<1>4. m \in Found /\ IsMatch(m, CEnd) /\ p <= m.from /\ CEnd \in Nat /\ start \in Nat
  BY <1>2, <1>3, LineEnd DEF LInv, LTypes
<1>5. match' = Offsets(m, start)
  BY <1>3, <1>4, CorrectedIs
<1>6. m.from \in Nat /\ start \in Int /\ start <= m.from
  BY <1>2, <1>4 DEF IsMatch
<1>7. Acceptable(m)
  BY <1>3, <1>4, WholeIsAcceptable DEF LInv, LTypes
<1>8. match' \in [Groups -> Int \X Int]
  BY ONLY <1>4, <1>5, <1>6, OffsetsAre
<1>9. first' \in Int
  BY <1>2 DEF MatchWhole
<1>10. LTypes'
  BY <1>1, <1>8, <1>9, SameLine DEF LInv, LTypes
<1>11. \E r \in Found' : Matched(r)'
  BY <1>1, <1>4, <1>5, <1>6, <1>7, SameLine DEF Matched
<1>12. LastEnd' = LastEnd
  BY <1>1 DEF LastEnd
<1>13. Going'
  BY <1>1, <1>11, <1>12 DEF LInv, Going
<1> QED
  BY <1>10, <1>13 DEF LInv

\* A match that is not; the search goes on behind it.
LEMMA MatchPartStep ==
  ASSUME LInv, MatchPart
  PROVE  LInv'
<1>1. /\ UNCHANGED parseVars /\ input' = input /\ pc' = pc /\ start' = start /\ gone' = gone
      /\ replaced' = replaced /\ last_empty_flag' = last_empty_flag /\ break_flag' = break_flag
      /\ lpc = "match" /\ lpc' = "match" /\ ~ AtEnd
  BY DEF MatchPart, parseVars, writing
<1>2. PICK p \in Nat : p = NextFirst /\ start <= p /\ p <= CEnd
  BY <1>1, NextFirstIs
<1>3. PICK m \in {input.found[p]} \ {None} :
        match' = Offsets(m, p) /\ first' = IF input.fixed THEN m.from ELSE p
  BY <1>2 DEF MatchPart
<1>4. /\ IsMatch(m, CEnd) /\ p <= m.from /\ CEnd \in Nat /\ start \in Nat /\ p \in Int
      /\ input.fixed => m.len = input.plen
  <2>1. m = input.found[p] /\ input.found[p] # None /\ input \in Inputs /\ start \in Nat
    BY <1>3 DEF LInv, LTypes
  <2>2. /\ IsMatch(m, CEnd) /\ p <= m.from /\ CEnd \in Nat
        /\ input.fixed => m.len = input.plen
    BY <1>2, <2>1, LineEnd, Zenon
  <2>3. p \in Int
    BY <1>2
  <2> QED
    BY <2>1, <2>2, <2>3
<1>5. m.from \in Nat /\ m.len \in Nat /\ m.from + m.len <= CEnd
  BY <1>4 DEF IsMatch
<1>6. /\ Offsets(m, p) \in [Groups -> Int \X Int]
      /\ Offsets(m, p)[0] = <<m.from - p, m.from + m.len - p>>
  BY ONLY <1>4, OffsetsAre
<1>7. match' \in [Groups -> Int \X Int] /\ match'[0][2] = m.from + m.len - p
  <2>1. match'[0] = <<m.from - p, m.from + m.len - p>>
    BY <1>3, <1>6
  <2>2. match' \in [Groups -> Int \X Int]
    BY ONLY <1>3, <1>6
  <2> QED
    BY ONLY <2>1, <2>2
<1>8. first' \in Int
  BY <1>2, <1>3, <1>5
<1>9. LTypes'
  BY <1>1, <1>7, <1>8, SameLine DEF LInv, LTypes
<1>10. SearchFrom(first', match')
  <2>1. CASE input.fixed
    BY <1>2, <1>3, <1>4, <1>5, <2>1 DEF SearchFrom
  <2>2. CASE ~ input.fixed
    <3>1. first' = p /\ match'[0][2] = m.from + m.len - p
      BY <1>3, <1>7, <2>2
    <3>2. \A a, b \in Nat : p <= a => a + b - p >= 0 /\ p + (a + b - p) = a + b
      OBVIOUS
    <3>3. m.from + m.len - p >= 0 /\ p + (m.from + m.len - p) <= CEnd
      BY ONLY <1>4, <1>5, <3>2
    <3> QED
      BY <1>2, <2>2, <3>1, <3>3 DEF SearchFrom
  <2> QED
    BY <2>1, <2>2
<1>11. SearchFrom(first, match)'
  BY <1>1, <1>10, SameLine DEF SearchFrom
<1>12. LastEnd' = LastEnd
  BY <1>1 DEF LastEnd
<1>13. Going'
  BY <1>1, <1>11, <1>12 DEF LInv, Going
<1> QED
  BY <1>9, <1>13 DEF LInv

\* The rest of the line is written next, or a call has failed.
LEMMA EndingStep ==
  ASSUME LInv, MatchNone \/ MatchFails \/ StopBehindNewline \/ WriteFails
  PROVE  LInv'
<1>0. Pending # <<>> => lpc \in {"prefix", "replace", "advance", "flush"}
  BY DEF LInv, LTypes, Pending
<1>1. /\ input' = input /\ pc' = pc /\ start' = start /\ first' = first /\ match' = match
      /\ gone' = gone /\ replaced' = replaced /\ last_empty_flag' = last_empty_flag
      /\ break_flag' \in BOOLEAN
      /\ lpc \in {"match", "prefix", "replace", "advance", "flush"}
      /\ lpc' = "failed" \/ (lpc' = "flush" /\ lpc \in {"match", "prefix"})
  <2>1. CASE MatchNone
    BY <2>1 DEF LInv, LTypes, MatchNone, parseVars, search, writing
  <2>2. CASE MatchFails
    BY <2>2 DEF LInv, LTypes, MatchFails, parseVars, search, writing
  <2>3. CASE StopBehindNewline
    BY <2>3 DEF StopBehindNewline, parseVars, writing
  <2>4. CASE WriteFails
    <3>1. lpc \in {"match", "prefix", "replace", "advance", "flush"} /\ lpc' = "failed"
      BY <1>0, <2>4 DEF WriteFails
    <3>2. UNCHANGED <<parseVars, search, writing>>
      BY <2>4 DEF WriteFails
    <3>3. break_flag \in BOOLEAN
      BY DEF LInv, LTypes
    <3> QED
      BY ONLY <3>1, <3>2, <3>3 DEF parseVars, search, writing
  <2> QED
    BY <2>1, <2>2, <2>3, <2>4
<1>2. LTypes'
  BY <1>1, SameLine DEF LInv, LTypes
<1>3. Going'
  BY <1>1 DEF LInv, Going
<1> QED
  BY <1>2, <1>3 DEF LInv

\* The rest of the line is written.
LEMMA FlushStep ==
  ASSUME LInv, Flush
  PROVE  LInv'
<1>1. /\ input' = input /\ pc' = pc /\ start' = start /\ first' = first /\ match' = match
      /\ gone' = Len(line) /\ replaced' = replaced /\ last_empty_flag' = last_empty_flag
      /\ break_flag' = break_flag /\ lpc = "flush" /\ lpc' = "done"
  BY DEF Flush, Write, parseVars, search
<1>2. Len(line) \in Nat
  BY LineEnd DEF LInv, LTypes
<1>3. LTypes'
  BY <1>1, <1>2, SameLine DEF LInv, LTypes
<1>4. Going'
  BY <1>1 DEF LInv, Going
<1> QED
  BY <1>3, <1>4 DEF LInv

\* What is in front of the match is written.
LEMMA WritePrefixStep ==
  ASSUME LInv, WritePrefix
  PROVE  LInv'
<1>1. /\ input' = input /\ pc' = pc /\ start' = start /\ first' = first /\ match' = match
      /\ gone' = (IF Eo(0) > 0 THEN start + So(0) ELSE start)
      /\ replaced' = replaced /\ last_empty_flag' = last_empty_flag
      /\ break_flag' = (Char(start) = Nul) /\ lpc = "prefix" /\ lpc' = "replace"
  BY DEF WritePrefix, Write, parseVars
<1>2. LTypes /\ \E m \in Found : Matched(m)
  BY <1>1 DEF LInv, Going
<1>3. PICK m \in Found : Matched(m)
  BY <1>2
<1>4. /\ So(0) \in Nat /\ Eo(0) \in Nat /\ So(0) <= Eo(0) /\ start + Eo(0) <= CEnd
  BY <1>2, <1>3, MatchedIs
<1>5. /\ CEnd \in Nat /\ Len(line) \in Nat /\ CEnd <= Len(line) /\ start \in Nat /\ start <= CEnd
  BY LineEnd DEF LInv, LTypes
<1>6. gone' = start + So(0) /\ gone' \in Nat /\ gone' <= Len(line)
  <2>1. PICK a \in Nat, b \in Nat : a = So(0) /\ b = Eo(0)
    BY <1>4
  <2>2. CASE b > 0
    BY <1>1, <1>4, <1>5, <2>1, <2>2
  <2>3. CASE b = 0
    BY <1>1, <1>4, <1>5, <2>1, <2>3
  <2> QED
    BY <2>1, <2>2, <2>3
<1>7. LTypes'
  BY <1>1, <1>6, SameLine DEF LInv, LTypes
<1>8. Found' = Found /\ Matched(m)' /\ So(0)' = So(0) /\ Char(start)' = Char(start)
  BY <1>1, <1>3, SameLine DEF Matched, So, Char, line
<1>9. LastEnd' = LastEnd
  BY <1>1 DEF LastEnd
<1>10. Going'
  BY <1>1, <1>3, <1>6, <1>8, <1>9 DEF LInv, Going
<1> QED
  BY <1>7, <1>10 DEF LInv

\* A line that is gone through to its end in a match has an empty one there.
LEMMA AtTheEnd ==
  ASSUME LTypes, NEW m, Matched(m), Char(start) = Nul
  PROVE  start = CEnd /\ So(0) = 0 /\ Eo(0) = 0 /\ m.from = start /\ m.len = 0
<1>1. /\ CEnd \in Nat /\ start \in Nat /\ start <= CEnd
      /\ \A p \in Nat : p < CEnd => Char(p) # Nul
  BY LineEnd DEF LTypes
<1>2. start = CEnd
  BY <1>1
<1>3. /\ So(0) \in Nat /\ Eo(0) \in Nat /\ So(0) <= Eo(0) /\ start + Eo(0) <= CEnd
      /\ So(0) = m.from - start /\ Eo(0) = m.from + m.len - start
      /\ m.from \in Nat /\ m.len \in Nat
  BY MatchedIs
<1>4. \A a, b, s \in Nat : a <= b /\ s + b <= s => a = 0 /\ b = 0
  OBVIOUS
<1>5. So(0) = 0 /\ Eo(0) = 0
  BY ONLY <1>1, <1>2, <1>3, <1>4
<1>6. \A a, b, s \in Nat : 0 = a - s /\ 0 = a + b - s => a = s /\ b = 0
  OBVIOUS
<1> QED
  BY ONLY <1>1, <1>2, <1>3, <1>5, <1>6

\* The record of a match that is replaced.
LEMMA ReplacedMore ==
  ASSUME LTypes, NEW m, Matched(m), WriteReplacement
  PROVE  /\ replaced' = Append(replaced, [from |-> m.from, len |-> m.len])
         /\ replaced' \in Seq(Spans)
         /\ LastEnd' = m.from + m.len
         /\ m.from + m.len = start + Eo(0)
<1>1. /\ So(0) \in Nat /\ Eo(0) \in Nat /\ So(0) <= Eo(0)
      /\ So(0) = m.from - start /\ Eo(0) = m.from + m.len - start
      /\ m.from \in Nat /\ m.len \in Nat /\ start \in Nat
  BY MatchedIs DEF LTypes
<1>2. \A a, b, s \in Nat : s + (a - s) = a /\ (a + b - s) - (a - s) = b /\ s + (a + b - s) = a + b
  OBVIOUS
<1>3. start + So(0) = m.from /\ Eo(0) - So(0) = m.len /\ start + Eo(0) = m.from + m.len
  BY ONLY <1>1, <1>2
<1>4. replaced' = Append(replaced, [from |-> m.from, len |-> m.len])
  BY <1>3 DEF WriteReplacement
<1>5. PICK r \in Spans : r = [from |-> m.from, len |-> m.len]
  BY <1>1 DEF Spans
<1>6. replaced \in Seq(Spans)
  BY DEF LTypes
<1>7. /\ replaced' \in Seq(Spans) /\ replaced' # <<>>
      /\ replaced'[Len(replaced')] = r
  BY <1>4, <1>5, <1>6
<1>8. r.from = m.from /\ r.len = m.len
  BY <1>5
<1> QED
  BY <1>3, <1>4, <1>7, <1>8 DEF LastEnd

\* The match is replaced.
LEMMA WriteReplacementStep ==
  ASSUME LInv, WriteReplacement
  PROVE  LInv'
<1>1. /\ input' = input /\ pc' = pc /\ start' = start /\ first' = first /\ match' = match
      /\ gone' = start + Eo(0) /\ last_empty_flag' = last_empty_flag
      /\ break_flag' = break_flag /\ lpc = "replace"
      /\ lpc' = (IF break_flag THEN "flush" ELSE "advance")
  BY DEF WriteReplacement, Write, parseVars, search
<1>2. LTypes /\ \E m \in Found : Matched(m)
  BY <1>1 DEF LInv, Going
<1>3. PICK m \in Found : Matched(m)
  BY <1>2
<1>4. /\ So(0) \in Nat /\ Eo(0) \in Nat /\ So(0) <= Eo(0) /\ start + Eo(0) <= CEnd
  BY <1>2, <1>3, MatchedIs
<1>5. /\ CEnd \in Nat /\ Len(line) \in Nat /\ CEnd <= Len(line) /\ start \in Nat /\ start <= CEnd
      /\ break_flag \in BOOLEAN
  BY LineEnd DEF LInv, LTypes
<1>6. replaced' \in Seq(Spans) /\ LastEnd' = start + Eo(0)
  <2>1. /\ replaced' \in Seq(Spans) /\ LastEnd' = m.from + m.len
        /\ m.from + m.len = start + Eo(0)
    BY <1>2, <1>3, ReplacedMore
  <2> QED
    BY ONLY <2>1
<1>7. gone' \in Nat /\ gone' <= Len(line)
  BY <1>1, <1>4, <1>5
<1>8. LTypes'
  BY <1>1, <1>6, <1>7, SameLine DEF LInv, LTypes
<1>9. Found' = Found /\ Matched(m)' /\ Eo(0)' = Eo(0) /\ Char(start)' = Char(start)
  BY <1>1, <1>3, SameLine DEF Matched, Eo, Char, line
<1>10. break_flag <=> Char(start) = Nul
  BY <1>1 DEF LInv, Going
<1>11. CASE break_flag
  <2>1. Eo(0) = 0
    BY <1>2, <1>3, <1>10, <1>11, AtTheEnd
  <2>2. gone' = start'
    BY <1>1, <1>5, <2>1
  <2>3. lpc' = "flush" /\ pc' = "parsed"
    BY <1>1, <1>11 DEF LInv, Going
  <2>4. Going'
    BY <2>2, <2>3 DEF Going
  <2> QED
    BY <1>8, <2>4 DEF LInv
<1>12. CASE ~ break_flag
  <2>1. lpc' = "advance" /\ pc' = "parsed"
    BY <1>1, <1>12 DEF LInv, Going
  <2>2. LastEnd' <= start' + Eo(0)' /\ LastEnd' = start' + Eo(0)' /\ gone' = start' + Eo(0)'
    BY <1>1, <1>4, <1>5, <1>6, <1>9
  <2>3. Char(start)' # Nul
    BY <1>9, <1>10, <1>12
  <2>4. Going'
    BY <1>3, <1>9, <2>1, <2>2, <2>3 DEF Going
  <2> QED
    BY <1>8, <2>4 DEF LInv
<1> QED
  BY <1>5, <1>11, <1>12

\* An empty match right behind the last one is left alone.
LEMMA SkipReplacementStep ==
  ASSUME LInv, SkipReplacement
  PROVE  LInv'
<1>1. /\ input' = input /\ pc' = pc /\ start' = start /\ first' = first /\ match' = match
      /\ gone' = gone /\ replaced' = replaced /\ last_empty_flag' = last_empty_flag
      /\ break_flag' = break_flag /\ lpc = "replace"
      /\ lpc' = (IF break_flag THEN "flush" ELSE "advance") /\ ~ (Eo(0) > 0)
  BY DEF SkipReplacement, Replacing, parseVars, search, writing
<1>2. LTypes /\ \E m \in Found : Matched(m)
  BY <1>1 DEF LInv, Going
<1>3. PICK m \in Found : Matched(m)
  BY <1>2
<1>4. /\ So(0) \in Nat /\ Eo(0) \in Nat /\ So(0) <= Eo(0) /\ start + Eo(0) <= CEnd
  BY <1>2, <1>3, MatchedIs
<1>5. So(0) = 0 /\ Eo(0) = 0 /\ start \in Nat /\ break_flag \in BOOLEAN
  BY <1>1, <1>4 DEF LInv, LTypes
<1>6. /\ gone = start + So(0) /\ LastEnd <= start /\ pc = "parsed"
      /\ break_flag <=> Char(start) = Nul
  BY <1>1 DEF LInv, Going
<1>7. gone = start /\ gone = start + Eo(0) /\ LastEnd <= start + Eo(0)
  BY <1>5, <1>6
<1>8. LTypes'
  BY <1>1, SameLine DEF LInv, LTypes
<1>9. /\ Found' = Found /\ Matched(m)' /\ Eo(0)' = Eo(0) /\ Char(start)' = Char(start)
      /\ LastEnd' = LastEnd
  BY <1>1, <1>3, SameLine DEF Matched, Eo, Char, line, LastEnd
<1>10. Going'
  <2>1. CASE break_flag
    <3>1. lpc' = "flush"
      BY <1>1, <2>1
    <3> QED
      BY <1>1, <1>6, <1>7, <3>1 DEF Going
  <2>2. CASE ~ break_flag
    <3>1. lpc' = "advance" /\ Char(start)' # Nul
      BY <1>1, <1>6, <1>9, <2>2
    <3> QED
      BY <1>1, <1>3, <1>5, <1>6, <1>7, <1>9, <3>1 DEF Going
  <2> QED
    BY <2>1, <2>2
<1> QED
  BY <1>8, <1>10 DEF LInv

\* The rest of the line begins behind the match, or behind the character
\* after an empty one.
LEMMA AdvanceStep ==
  ASSUME LInv, Advance
  PROVE  LInv'
<1>1. /\ input' = input /\ pc' = pc /\ break_flag' = break_flag /\ replaced' = replaced
      /\ lpc = "advance" /\ gone' = start' /\ Call(start')
      /\ IF Eo(0) = 0 THEN start' = start + 1 /\ last_empty_flag' = TRUE
         ELSE start' = start + Eo(0) /\ last_empty_flag' = FALSE
  BY DEF Advance, Write, parseVars
<1>2. LTypes /\ \E m \in Found : Matched(m)
  BY <1>1 DEF LInv, Going
<1>3. PICK m \in Found : Matched(m)
  BY <1>2
<1>4. /\ Eo(0) \in Nat /\ start + Eo(0) <= CEnd
  BY <1>2, <1>3, MatchedIs
<1>5. /\ CEnd \in Nat /\ Len(line) \in Nat /\ CEnd <= Len(line) /\ start \in Nat /\ start <= CEnd
      /\ Char(CEnd) = Nul
  BY LineEnd DEF LInv, LTypes
<1>6. /\ Char(start) # Nul /\ pc = "parsed"
      /\ LastEnd <= start + Eo(0) /\ (Eo(0) > 0 => LastEnd = start + Eo(0))
  BY <1>1 DEF LInv, Going
<1>7. start # CEnd
  BY <1>5, <1>6
<1>8. PICK s \in Nat : s = start' /\ s <= CEnd
  <2>1. CASE Eo(0) = 0
    BY <1>1, <1>5, <1>7, <2>1
  <2>2. CASE Eo(0) # 0
    BY <1>1, <1>4, <1>5, <2>2
  <2> QED
    BY <2>1, <2>2
<1>9. /\ lpc' = "match" /\ first' \in Int /\ match' \in [Groups -> Int \X Int]
      /\ input.fixed => first' + input.plen = s
      /\ ~ input.fixed => match'[0][2] = 0 /\ first' = s - 1
  BY <1>1, <1>2, <1>8, CallIs
<1>10. LastEnd' = LastEnd
  BY <1>1 DEF LastEnd
<1>11. LastEnd <= s /\ (last_empty_flag' <=> LastEnd < s) /\ last_empty_flag' \in BOOLEAN
  <2>0. LastEnd \in Int
    <3>1. replaced \in Seq(Spans)
      BY <1>2 DEF LTypes
    <3>2. CASE replaced = <<>>
      BY <3>2 DEF LastEnd
    <3>3. CASE replaced # <<>>
      <4>0. replaced[Len(replaced)] \in Spans
        BY ONLY <3>1, <3>3
      <4>1. PICK r \in [from : Nat, len : Nat] : r = replaced[Len(replaced)]
        BY <4>0 DEF Spans
      <4>2. r.from \in Nat /\ r.len \in Nat
        BY <4>1
      <4> QED
        BY <3>3, <4>1, <4>2 DEF LastEnd
    <3> QED
      BY <3>2, <3>3
  <2>1. CASE Eo(0) = 0
    <3>1. LastEnd <= start /\ s = start + 1 /\ last_empty_flag' = TRUE
      BY <1>1, <1>5, <1>6, <1>8, <2>1
    <3> QED
      BY <1>5, <2>0, <3>1
  <2>2. CASE Eo(0) # 0
    <3>1. LastEnd = s /\ last_empty_flag' = FALSE
      BY <1>1, <1>4, <1>6, <1>8, <2>2
    <3>2. \A n \in Nat : n <= n /\ ~ (n < n)
      OBVIOUS
    <3> QED
      BY ONLY <1>8, <3>1, <3>2
  <2> QED
    BY <2>1, <2>2
<1>12. LTypes'
  <2>1. gone' \in Nat /\ gone' <= Len(line)
    BY <1>1, <1>5, <1>8
  <2> QED
    BY <1>1, <1>8, <1>9, <1>11, <2>1, SameLine DEF LInv, LTypes
<1>13. SearchFrom(first, match)'
  <2>1. line' = line /\ input' = input /\ CEnd' = CEnd
    BY <1>1, SameLine
  <2>3. s <= s
    BY <1>8
  <2>2. /\ input.fixed => s <= first' + input.plen /\ first' + input.plen <= CEnd
        /\ ~ input.fixed => match'[0][2] = 0 /\ first' = s - 1
    BY ONLY <1>8, <1>9, <2>3
  <2> QED
    BY <1>8, <2>1, <2>2 DEF SearchFrom
<1>14. Going'
  BY <1>1, <1>6, <1>8, <1>9, <1>10, <1>11, <1>13 DEF Going
<1> QED
  BY <1>12, <1>14 DEF LInv

\* Every step keeps the invariant.
LEMMA LInvStep == LInv /\ [Next]_vars => LInv'
<1> SUFFICES ASSUME LInv, [Next]_vars PROVE LInv'
  OBVIOUS
<1>1. CASE (ParseNext /\ UNCHANGED lineVars) \/ (MallocFails /\ UNCHANGED lineVars)
  BY <1>1, ParsingStep
<1>2. CASE BeginLine \/ MatchWhole \/ MatchPart
  BY <1>2, BeginLineStep, MatchWholeStep, MatchPartStep
<1>3. CASE MatchNone \/ StopBehindNewline \/ MatchFails \/ WriteFails \/ Flush
  BY <1>3, EndingStep, FlushStep
<1>4. CASE WritePrefix \/ WriteReplacement \/ SkipReplacement \/ Advance
  BY <1>4, WritePrefixStep, WriteReplacementStep, SkipReplacementStep, AdvanceStep
<1>5. CASE UNCHANGED vars
  <2>1. /\ input' = input /\ pc' = pc /\ start' = start /\ first' = first /\ match' = match
        /\ gone' = gone /\ lpc' = lpc /\ replaced' = replaced
        /\ last_empty_flag' = last_empty_flag /\ break_flag' = break_flag
    BY <1>5 DEF vars, parseVars, lineVars, search, writing
  <2>2. LTypes'
    BY <2>1, SameLine DEF LInv, LTypes
  <2>3. /\ SearchFrom(first, match)' <=> SearchFrom(first, match)
        /\ LastEnd' = LastEnd /\ So(0)' = So(0) /\ Eo(0)' = Eo(0) /\ Found' = Found
        /\ \A m : Matched(m)' <=> Matched(m)
        /\ Char(start)' = Char(start)
    BY <2>1, SameLine DEF SearchFrom, LastEnd, So, Eo, Matched
  <2>4. Going'
    BY <2>1, <2>3 DEF LInv, Going
  <2> QED
    BY <2>2, <2>4 DEF LInv
<1> QED
  BY <1>1, <1>2, <1>3, <1>4, <1>5 DEF Next, Works, CallFails, LineNext

\* Where replace_string and match_pattern are in a line is consistent.
THEOREM LineInvariant == Spec => []LInv
<1> QED
  BY LInvInit, LInvStep, PTL DEF Spec

\* Every variable keeps its type.
THEOREM LineTypeCorrect == Spec => []TypeOK
<1>1. LInv /\ ParseInv => TypeOK
  <2> SUFFICES ASSUME LInv, ParseInv PROVE TypeOK
    OBVIOUS
  <2>1. CEnd \in Nat /\ Len(line) \in Nat /\ CEnd <= Len(line)
    BY LineEnd DEF LInv, LTypes
  <2>2. next \in 0 .. Len(string)
    BY DEF ParseInv, Types
  <2>3. \A k \in DOMAIN replaced : replaced[k].from \in Nat /\ replaced[k].len \in Nat
    <3> SUFFICES ASSUME NEW k \in DOMAIN replaced
                 PROVE  replaced[k].from \in Nat /\ replaced[k].len \in Nat
      OBVIOUS
    <3>0. replaced \in Seq(Spans) /\ k \in DOMAIN replaced
      BY DEF LInv, LTypes
    <3>2. replaced[k] \in Spans
      BY ONLY <3>0
    <3>1. PICK r \in [from : Nat, len : Nat] : r = replaced[k]
      BY <3>2 DEF Spans
    <3> QED
      BY <3>1
  <2>4. start \in 0 .. Len(line) /\ gone \in 0 .. Len(line)
    BY <2>1 DEF LInv, LTypes
  <2> QED
    BY <2>2, <2>3, <2>4 DEF LInv, LTypes, TypeOK
<1> QED
  BY <1>1, LineInvariant, LineParses, ParseInvariant, PTL

-----------------------------------------------------------------------------
(* What is written for a match.                                            *)

\* What is written, and what is written for every item for a match m.
OutChars == STRING \cup TextChars

\* What is written for every item for a match m.
Expander(m) == [it \in ItemSet |-> Sub!Expand(it, m)]

\* The text of a reference, as write_replacement writes it.
RefText(g) == IF So(g) > -1 THEN Span(start + So(g), start + Eo(g)) ELSE <<>>

\* A span of the line is a sequence of its characters.
LEMMA SpanType ==
  ASSUME input \in Inputs, NEW p \in Nat, NEW q \in Nat, q <= Len(line)
  PROVE  Span(p, q) \in Seq(OutChars)
<1>1. line \in Seq(STRING) /\ Len(line) \in Nat
  BY LineAssumption DEF line
<1>2. line \in Seq(OutChars)
  BY <1>1 DEF OutChars
<1>3. p + 1 \in 1 .. (Len(line) + 1) \/ p + 1 > q
  BY <1>1
<1> QED
  BY <1>1, <1>2, <1>3 DEF Span

\* The offsets give the text of every reference.
LEMMA RefIs ==
  ASSUME LTypes, NEW m, Matched(m)
  PROVE  /\ \A g \in 0 .. 9 : RefText(g) =
              CASE g = 0 -> SubSeq(line, m.from + 1, m.from + m.len)
                [] g = 1 /\ m.group1 # <<>> -> SubSeq(line, m.group1[1] + 1, m.group1[2])
                [] OTHER -> <<>>
         /\ \A g \in 0 .. 9 : RefText(g) \in Seq(OutChars)
<1>1. /\ CEnd \in Nat /\ Len(line) \in Nat /\ CEnd <= Len(line) /\ input \in Inputs
      /\ start \in Nat /\ start \in Int
  BY LineEnd DEF LTypes
<1>2. /\ IsMatch(m, CEnd) /\ m.from \in Nat /\ m.len \in Nat /\ start <= m.from
      /\ So(0) = m.from - start /\ Eo(0) = m.from + m.len - start
  BY MatchedIs DEF Matched
<1>3. m.from + m.len <= CEnd
  BY <1>2 DEF IsMatch
<1>4. RefText(0) = SubSeq(line, m.from + 1, m.from + m.len) /\ RefText(0) \in Seq(OutChars)
  <2>1. \A a, b, s \in Nat : s <= a =>
           a - s > -1 /\ s + (a - s) = a /\ s + (a + b - s) = a + b /\ a + b \in Nat
    OBVIOUS
  <2>2. /\ So(0) > -1 /\ start + So(0) = m.from /\ start + Eo(0) = m.from + m.len
        /\ m.from + m.len \in Nat
    BY ONLY <1>1, <1>2, <2>1
  <2>3. RefText(0) = Span(m.from, m.from + m.len)
    BY <2>2 DEF RefText
  <2>4. m.from + m.len <= Len(line)
    BY <1>1, <1>3, <2>2
  <2> QED
    BY <1>1, <1>2, <2>2, <2>3, <2>4, SpanType DEF Span
<1>5. /\ m.group1 # <<>> => match[1] = <<m.group1[1] - start, m.group1[2] - start>>
      /\ m.group1 = <<>> => match[1] = <<-1, -1>>
      /\ \A k \in 2 .. 9 : match[k] = <<-1, -1>>
  <2>1. match = Offsets(m, start)
    BY DEF Matched
  <2>2. /\ Offsets(m, start) \in [Groups -> Int \X Int]
        /\ Offsets(m, start)[0] = <<m.from - start, m.from + m.len - start>>
        /\ m.group1 # <<>> => Offsets(m, start)[1] = <<m.group1[1] - start, m.group1[2] - start>>
        /\ m.group1 = <<>> => Offsets(m, start)[1] = <<-1, -1>>
        /\ \A k \in 2 .. 9 : Offsets(m, start)[k] = <<-1, -1>>
    BY <1>1, <1>2, OffsetsAre, Zenon
  <2> QED
    BY ONLY <2>1, <2>2
<1>8. \A k \in 2 .. 9 : RefText(k) = <<>>
  <2> SUFFICES ASSUME NEW k \in 2 .. 9 PROVE RefText(k) = <<>>
    OBVIOUS
  <2>1. match[k] = <<-1, -1>>
    BY <1>5, Zenon
  <2>2. ~ (So(k) > -1)
    BY <2>1 DEF So
  <2> QED
    BY <2>2 DEF RefText
<1>6. CASE m.group1 # <<>>
  <2>1. PICK a, b \in Nat :
          m.from <= a /\ a <= b /\ b <= m.from + m.len /\ m.group1 = <<a, b>>
    BY <1>2, <1>6 DEF IsMatch
  <2>2. match[1] = <<a - start, b - start>> /\ m.group1[1] = a /\ m.group1[2] = b
    BY <1>5, <1>6, <2>1
  <2>3. So(1) = a - start /\ Eo(1) = b - start
    BY <2>2 DEF So, Eo
  <2>4. So(1) > -1 /\ start + So(1) = a /\ start + Eo(1) = b
    BY <1>1, <1>2, <2>1, <2>3
  <2>5. RefText(1) = Span(a, b)
    BY <2>4 DEF RefText
  <2>6. b <= Len(line)
    BY <1>1, <1>2, <1>3, <2>1
  <2>7. RefText(1) \in Seq(OutChars) /\ RefText(1) = SubSeq(line, m.group1[1] + 1, m.group1[2])
    BY <1>1, <2>1, <2>2, <2>5, <2>6, SpanType DEF Span
  <2>9. \A g \in 0 .. 9 : g = 0 \/ g = 1 \/ g \in 2 .. 9
    OBVIOUS
  <2>10. <<>> \in Seq(OutChars)
    OBVIOUS
  <2> SUFFICES ASSUME NEW g \in 0 .. 9
               PROVE  /\ RefText(g) =
                           CASE g = 0 -> SubSeq(line, m.from + 1, m.from + m.len)
                             [] g = 1 /\ m.group1 # <<>> ->
                                  SubSeq(line, m.group1[1] + 1, m.group1[2])
                             [] OTHER -> <<>>
                      /\ RefText(g) \in Seq(OutChars)
    OBVIOUS
  <2>11. CASE g = 0
    BY <1>4, <2>11
  <2>12. CASE g = 1
    BY <1>6, <2>7, <2>12
  <2>13. CASE g \in 2 .. 9
    <3>1. g # 0 /\ g # 1 /\ RefText(g) = <<>>
      BY <1>8, <2>13
    <3> QED
      BY <2>10, <3>1
  <2> QED
    BY <2>9, <2>11, <2>12, <2>13
<1>7. CASE m.group1 = <<>>
  <2>1. RefText(1) = <<>>
    BY <1>5, <1>7 DEF RefText, So
  <2>3. \A g \in 0 .. 9 : g = 0 \/ g = 1 \/ g \in 2 .. 9
    OBVIOUS
  <2>4. <<>> \in Seq(OutChars)
    OBVIOUS
  <2> QED
    BY <1>4, <1>7, <1>8, <2>1, <2>3, <2>4
<1> QED
  BY <1>6, <1>7

\* An item of the string's meaning is replaced by itself or by a subexpression.
LEMMA ExpanderIs ==
  ASSUME LTypes, NEW m, Matched(m)
  PROVE  /\ Expander(m) \in [ItemSet -> Seq(OutChars)]
         /\ \A c \in TextChars : Expander(m)[S!Lit(c)] = <<c>>
         /\ \A g \in 0 .. 9 : Expander(m)[S!Ref(g)] = RefText(g)
<1>1. \A c \in TextChars : Sub!Expand(S!Lit(c), m) = <<c>> /\ <<c>> \in Seq(OutChars)
  BY DEF Sub!Expand, S!Lit, OutChars
<1>2. ASSUME NEW g \in 0 .. 9 PROVE Sub!Expand(S!Ref(g), m) = RefText(g)
  <2>1. RefText(g) =
              CASE g = 0 -> SubSeq(line, m.from + 1, m.from + m.len)
                [] g = 1 /\ m.group1 # <<>> -> SubSeq(line, m.group1[1] + 1, m.group1[2])
                [] OTHER -> <<>>
    BY RefIs
  <2>2. S!Ref(g).group = g /\ g # -1
    BY DEF S!Ref
  <2> QED
    BY <2>1, <2>2 DEF Sub!Expand
<1>3. \A g \in 0 .. 9 : RefText(g) \in Seq(OutChars)
  BY RefIs
<1>4. \A it \in ItemSet : Sub!Expand(it, m) \in Seq(OutChars)
  BY <1>1, <1>2, <1>3 DEF ItemSet
<1> QED
  BY <1>1, <1>2, <1>4, ItemTypes DEF Expander

\* The text of a part is written as it is.
LEMMA PartExpanded ==
  ASSUME NEW e \in [ItemSet -> Seq(OutChars)], \A c \in TextChars : e[S!Lit(c)] = <<c>>,
         NEW k, NEW n, Filled(part, k, n), part_len[k] = n
  PROVE  Mapped(e, Text(part, k, n)) = PartText(k) /\ PartText(k) \in Seq(OutChars)
<1>1. n \in Nat /\ \A p \in 1 .. n : part[k][p - 1] \in TextChars
  BY DEF Filled
<1>2. PartText(k) = [p \in 1 .. n |-> part[k][p - 1]]
  BY DEF PartText
<1>3. PartText(k) \in Seq(TextChars) /\ Len(PartText(k)) = n
  BY <1>1, <1>2
<1>4. /\ Len(Text(part, k, n)) = n
      /\ \A p \in 1 .. n : e[Text(part, k, n)[p]] = <<PartText(k)[p]>>
  BY <1>1, <1>2 DEF Text
<1>5. Mapped(e, Text(part, k, n)) = FlattenSeq([p \in 1 .. n |-> <<PartText(k)[p]>>])
  BY <1>4 DEF Mapped
<1>6. FlattenSeq([p \in 1 .. Len(PartText(k)) |-> <<PartText(k)[p]>>]) = PartText(k)
  BY <1>3, FlattenSingles
<1>7. PartText(k) \in Seq(OutChars)
  BY <1>1, <1>2 DEF OutChars
<1> QED
  BY <1>3, <1>5, <1>6, <1>7

\* With -F the string is written as it is.
LEMMA FixedExpanded ==
  ASSUME input \in Inputs, input.fixed,
         NEW e \in [ItemSet -> Seq(OutChars)], \A c \in TextChars : e[S!Lit(c)] = <<c>>
  PROVE  /\ Mapped(e, ItemsWanted) = Replacement /\ ItemsWanted \in Seq(ItemSet)
         /\ Replacement \in Seq(OutChars)
<1>1. string \in Seq(Chars) /\ Len(string) \in Nat /\ DOMAIN string = 1 .. Len(string)
  BY InputType
<1>2. Replacement = string /\ ItemsWanted = [p \in 1 .. Len(string) |-> S!Lit(string[p])]
  BY <1>1 DEF Replacement, ItemsWanted
<1>3. \A p \in 1 .. Len(string) : string[p] \in TextChars /\ S!Lit(string[p]) \in ItemSet
  BY <1>1, ItemTypes, SMTT(20)
<1>4. ItemsWanted \in Seq(ItemSet) /\ Len(ItemsWanted) = Len(string)
  BY <1>1, <1>2, <1>3
<1>5. \A p \in 1 .. Len(string) : e[ItemsWanted[p]] = <<string[p]>>
  BY <1>2, <1>3
<1>6. Mapped(e, ItemsWanted) = FlattenSeq([p \in 1 .. Len(string) |-> <<string[p]>>])
  BY <1>4, <1>5 DEF Mapped
<1>7. FlattenSeq([p \in 1 .. Len(string) |-> <<string[p]>>]) = string
  BY <1>1, FlattenSingles
<1>8. string \in Seq(OutChars)
  BY <1>1, <1>3 DEF OutChars
<1> QED
  BY <1>2, <1>4, <1>6, <1>7, <1>8

\* Without simple escapes the parts are written to their terminators.
LEMMA PartsExpanded ==
  ASSUME TextInv, LTypes, pc = "parsed", ~ input.fixed, SimpleEscapes(string) = {},
         NEW e \in [ItemSet -> Seq(OutChars)], \A c \in TextChars : e[S!Lit(c)] = <<c>>,
         \A g \in 0 .. 9 : e[S!Ref(g)] = RefText(g)
  PROVE  /\ Mapped(e, ItemsWanted) = Replacement /\ ItemsWanted \in Seq(ItemSet)
         /\ Replacement \in Seq(OutChars)
<1>0. nsub \in Nat
  BY DEF TextInv, ParseInv, Types
<1>1. PICK z \in [Nat -> Nat] :
        /\ AllFilled(part, sub, z, nsub)
        /\ Told(part, sub, z, nsub) = S!Meaning(string)
        /\ \A k \in 0 .. nsub : Ended(k, z[k])
  BY DEF TextInv, InTexts, Extracted
<1>2. \A k \in 0 .. nsub : part_len[k] = z[k]
  <2> SUFFICES ASSUME NEW k \in 0 .. nsub PROVE part_len[k] = z[k]
    OBVIOUS
  <2>0. z[k] \in Nat
    <3>1. k \in Nat
      BY <1>0
    <3> QED
      BY <3>1
  <2>1. SimpleEscapesIn(string, k) = {}
    BY DEF SimpleEscapesIn
  <2>2. Cardinality(SimpleEscapesIn(string, k)) = 0
    BY <2>1, FS_EmptySet
  <2>3. Ended(k, z[k])
    BY <1>1, Zenon
  <2>4. part_len[k] = z[k] + Cardinality(SimpleEscapesIn(string, k))
    BY <2>3, Zenon DEF Ended
  <2> QED
    BY <2>0, <2>2, <2>4
<1> DEFINE lit == [k \in 0 .. nsub |-> Text(part, k, z[k])]
           ref == [k \in 1 .. nsub |-> S!Ref(sub[k - 1])]
           xx == [k \in 1 .. nsub |-> <<ref[k]>> \o lit[k]]
           yy == [k \in 1 .. nsub |-> RefText(sub[k - 1]) \o PartText(k)]
<1>3. \A k \in 0 .. nsub : /\ lit[k] \in Seq(ItemSet) /\ Mapped(e, lit[k]) = PartText(k)
                           /\ PartText(k) \in Seq(OutChars)
  <2> SUFFICES ASSUME NEW k \in 0 .. nsub
               PROVE  /\ Text(part, k, z[k]) \in Seq(ItemSet)
                      /\ Mapped(e, Text(part, k, z[k])) = PartText(k)
                      /\ PartText(k) \in Seq(OutChars)
    OBVIOUS
  <2>1. Filled(part, k, z[k])
    BY <1>1 DEF AllFilled
  <2>2. part_len[k] = z[k]
    BY <1>2
  <2> QED
    BY <2>1, <2>2, TextType, PartExpanded
<1>4. \A k \in 1 .. nsub : /\ ref[k] \in ItemSet /\ e[ref[k]] = RefText(sub[k - 1])
                           /\ RefText(sub[k - 1]) \in Seq(OutChars)
  <2> SUFFICES ASSUME NEW k \in 1 .. nsub
               PROVE  /\ S!Ref(sub[k - 1]) \in ItemSet
                      /\ e[S!Ref(sub[k - 1])] = RefText(sub[k - 1])
                      /\ RefText(sub[k - 1]) \in Seq(OutChars)
    OBVIOUS
  <2>1. k - 1 \in 0 .. (nsub - 1)
    BY <1>0
  <2>2. sub[k - 1] \in 0 .. 9
    BY <1>1, <2>1 DEF AllFilled
  <2>3. S!Ref(sub[k - 1]) \in ItemSet
    BY <2>2, ItemTypes
  <2>4. e[S!Ref(sub[k - 1])] = RefText(sub[k - 1])
    BY <2>2
  <2>5. e[S!Ref(sub[k - 1])] \in Seq(OutChars)
    BY <2>3
  <2> QED
    BY <2>3, <2>4, <2>5
<1>5. ItemsWanted = lit[0] \o FlattenSeq(xx)
  <2>3. \A k \in 1 .. nsub : ref[k] = S!Ref(sub[k - 1]) /\ lit[k] = Text(part, k, z[k])
    BY <1>0
  <2>1. xx = [k \in 1 .. nsub |-> <<S!Ref(sub[k - 1])>> \o Text(part, k, z[k])]
    <3> HIDE DEF lit, ref
    <3> QED
      BY <2>3
  <2>2. lit[0] = Text(part, 0, z[0])
    BY <1>0
  <2> HIDE DEF xx, lit
  <2> QED
    BY <1>1, <2>1, <2>2 DEF Told, ItemsWanted
<1>6. Replacement = PartText(0) \o FlattenSeq(yy)
  BY DEF Replacement, RefText
<1> HIDE DEF lit, ref
<1>7. xx \in Seq(Seq(ItemSet)) /\ Len(xx) = nsub
  <2>1. \A k \in 1 .. nsub : <<ref[k]>> \o lit[k] \in Seq(ItemSet)
    <3> SUFFICES ASSUME NEW k \in 1 .. nsub PROVE <<ref[k]>> \o lit[k] \in Seq(ItemSet)
      OBVIOUS
    <3>1. k \in 0 .. nsub
      BY <1>0
    <3>2. ref[k] \in ItemSet /\ lit[k] \in Seq(ItemSet)
      BY <1>3, <1>4, <3>1
    <3> QED
      BY <3>2
  <2> QED
    BY <1>0, <2>1
<1>8. \A k \in 1 .. nsub : Mapped(e, xx[k]) = yy[k] /\ yy[k] \in Seq(OutChars)
  <2> SUFFICES ASSUME NEW k \in 1 .. nsub
               PROVE  /\ Mapped(e, <<ref[k]>> \o lit[k]) = RefText(sub[k - 1]) \o PartText(k)
                      /\ RefText(sub[k - 1]) \o PartText(k) \in Seq(OutChars)
    OBVIOUS
  <2>1. k \in 0 .. nsub
    BY <1>0
  <2>2. /\ ref[k] \in ItemSet /\ lit[k] \in Seq(ItemSet) /\ <<ref[k]>> \in Seq(ItemSet)
        /\ e[ref[k]] = RefText(sub[k - 1]) /\ RefText(sub[k - 1]) \in Seq(OutChars)
        /\ Mapped(e, lit[k]) = PartText(k) /\ PartText(k) \in Seq(OutChars)
    BY <1>3, <1>4, <2>1
  <2>3. /\ Mapped(e, <<ref[k]>> \o lit[k]) = Mapped(e, <<ref[k]>>) \o Mapped(e, lit[k])
        /\ Mapped(e, <<ref[k]>>) \in Seq(OutChars)
    BY <2>2, MappedConcat, Zenon
  <2>5. PICK r \in ItemSet : r = ref[k]
    BY <2>2
  <2>6. Mapped(e, <<r>>) = e[r] /\ e[r] \in Seq(OutChars)
    BY MappedOne, Zenon
  <2>4. Mapped(e, <<ref[k]>>) = e[ref[k]] /\ e[ref[k]] \in Seq(OutChars)
    BY ONLY <2>5, <2>6
  <2>7. /\ Mapped(e, <<ref[k]>>) \o Mapped(e, lit[k]) = RefText(sub[k - 1]) \o PartText(k)
        /\ RefText(sub[k - 1]) \o PartText(k) \in Seq(OutChars)
    <3>1. PICK a \in Seq(OutChars), b \in Seq(OutChars) :
            a = RefText(sub[k - 1]) /\ b = PartText(k)
      BY <2>2
    <3>2. a \o b \in Seq(OutChars)
      OBVIOUS
    <3>3. Mapped(e, <<ref[k]>>) = a /\ Mapped(e, lit[k]) = b
      BY <2>2, <2>4, <3>1, Zenon
    <3> QED
      BY <3>1, <3>2, <3>3, Zenon
  <2> QED
    BY <2>3, <2>7, Zenon
<1> HIDE DEF xx, yy
<1>9. /\ Mapped(e, FlattenSeq(xx)) = FlattenSeq([k \in 1 .. Len(xx) |-> Mapped(e, xx[k])])
      /\ FlattenSeq(xx) \in Seq(ItemSet)
  BY <1>7, MappedFlatten, Zenon
<1>10. [k \in 1 .. Len(xx) |-> Mapped(e, xx[k])] = yy /\ yy \in Seq(Seq(OutChars))
  <2>1. yy = [k \in 1 .. nsub |-> yy[k]]
    BY DEF yy
  <2>2. [k \in 1 .. nsub |-> Mapped(e, xx[k])] = [k \in 1 .. nsub |-> yy[k]]
    BY ONLY <1>8
  <2>3. yy \in Seq(Seq(OutChars))
    <3>1. \A k \in 1 .. nsub : yy[k] \in Seq(OutChars)
      BY <1>8
    <3>2. [k \in 1 .. nsub |-> yy[k]] \in Seq(Seq(OutChars))
      BY ONLY <1>0, <3>1
    <3> QED
      BY ONLY <2>1, <3>2
  <2> QED
    BY ONLY <1>7, <2>1, <2>2, <2>3
<1>11. FlattenSeq(xx) \in Seq(ItemSet) /\ FlattenSeq(yy) \in Seq(OutChars)
  BY <1>7, <1>10, FlattenType
<1>12. 0 \in 0 .. nsub
  BY <1>0
<1>13. /\ lit[0] \in Seq(ItemSet) /\ Mapped(e, lit[0]) = PartText(0)
       /\ PartText(0) \in Seq(OutChars)
  BY <1>3, <1>12
<1>14. /\ Mapped(e, lit[0] \o FlattenSeq(xx)) = Mapped(e, lit[0]) \o Mapped(e, FlattenSeq(xx))
       /\ Mapped(e, lit[0]) \in Seq(OutChars)
  BY <1>11, <1>13, MappedConcat, Zenon
<1>15. /\ lit[0] \o FlattenSeq(xx) \in Seq(ItemSet)
       /\ PartText(0) \o FlattenSeq(yy) \in Seq(OutChars)
  BY <1>11, <1>13
<1> QED
  BY <1>5, <1>6, <1>9, <1>10, <1>13, <1>14, <1>15

-----------------------------------------------------------------------------
(* Every step is a step of Substitution, or none.                          *)

\* The matches that may be replaced, and where the last replaced one ended.
Wanted == {m \in Found : Acceptable(m)}

\* Where the last replaced one ended.
SubLast ==
  IF replaced = <<>> THEN -1
  ELSE replaced[Len(replaced)].from + replaced[Len(replaced)].len

\* What Substitution sees does not change.
Unseen ==
  /\ input' = input /\ gone' = gone /\ out' = out /\ replaced' = replaced
  /\ (lpc' = "done") = (lpc = "done")

\* A step that writes nothing and passes nothing is none of Substitution.
LEMMA Stutters ==
  ASSUME Unseen
  PROVE  UNCHANGED Sub!vars
BY DEF Unseen, Sub!vars, line, Found, CEnd, Char, Acceptable, ItemsWanted, string

\* The line's text, the items and the matches are fixed.
LEMMA SameGiven ==
  ASSUME input' = input
  PROVE  line' = line /\ ItemsWanted' = ItemsWanted /\ Wanted' = Wanted
BY SameLine DEF line, ItemsWanted, Wanted, string

\* Text is copied up to position p.
LEMMA Copied ==
  ASSUME input' = input, replaced' = replaced, lpc # "done",
         NEW p \in (gone + 1) .. Len(line), gone' = p, out' = out \o Span(gone, p),
         lpc' = "done" => p = Len(line)
  PROVE  Sub!Copy
<1>1. line' = line /\ ItemsWanted' = ItemsWanted /\ Wanted' = Wanted
  BY SameGiven
<1>2. (lpc' = "done") \in {FALSE, gone' = Len(line)}
  OBVIOUS
<1>3. ~ (lpc = "done")
  OBVIOUS
<1>4. out' = out \o SubSeq(line, gone + 1, p)
  BY DEF Span
<1> QED
  BY <1>1, <1>2, <1>3, <1>4 DEF Sub!Copy, Wanted

\* Substitution flattens sequences as the model does.
LEMMA FlattenSub == ASSUME NEW ss PROVE Sub!FlattenSeq(ss) = FlattenSeq(ss)
BY DEF Sub!FlattenSeq, FlattenSeq

\* What write_replacement writes for a match is what the string means for it.
LEMMA ReplacementIs ==
  ASSUME SimpleEscapesUnused, TextInv, LTypes, pc = "parsed", NEW m, Matched(m)
  PROVE  /\ Replacement =
              Sub!FlattenSeq([k \in DOMAIN ItemsWanted |-> Sub!Expand(ItemsWanted[k], m)])
         /\ Replacement \in Seq(OutChars)
<1>1. PICK e : e = Expander(m)
  OBVIOUS
<1>2. /\ e \in [ItemSet -> Seq(OutChars)] /\ \A c \in TextChars : e[S!Lit(c)] = <<c>>
      /\ \A g \in 0 .. 9 : e[S!Ref(g)] = RefText(g)
  BY <1>1, ExpanderIs
<1>3. input \in Inputs /\ input.fixed \in BOOLEAN
  BY LineEnd DEF LTypes
<1>4. Mapped(e, ItemsWanted) = Replacement /\ ItemsWanted \in Seq(ItemSet) /\ Replacement \in Seq(OutChars)
  <2>1. CASE input.fixed
    BY <1>2, <1>3, <2>1, FixedExpanded
  <2>2. CASE ~ input.fixed
    <3>1. \E p \in DOMAIN input.found : input.found[p] # None
      <4>1. m \in Found
        BY DEF Matched
      <4>2. DOMAIN input.found = 0 .. CEnd
        BY <1>3, LineEnd
      <4> QED
        BY <4>1, <4>2 DEF Found
    <3>2. SimpleEscapes(string) = {}
      BY <1>3, <2>2, <3>1 DEF SimpleEscapesUnused, string
    <3> QED
      BY <1>2, <2>2, <3>2, PartsExpanded
  <2> QED
    BY <1>3, <2>1, <2>2
<1>5. DOMAIN ItemsWanted = 1 .. Len(ItemsWanted) /\ \A k \in DOMAIN ItemsWanted : ItemsWanted[k] \in ItemSet
  BY <1>4
<1>6. [k \in DOMAIN ItemsWanted |-> Sub!Expand(ItemsWanted[k], m)]
        = [k \in 1 .. Len(ItemsWanted) |-> e[ItemsWanted[k]]]
  BY <1>1, <1>5 DEF Expander
<1>7. Sub!FlattenSeq([k \in DOMAIN ItemsWanted |-> Sub!Expand(ItemsWanted[k], m)])
        = FlattenSeq([k \in 1 .. Len(ItemsWanted) |-> e[ItemsWanted[k]]])
  BY <1>6, FlattenSub
<1> QED
  BY <1>4, <1>7 DEF Mapped

\* The steps that write nothing.
LEMMA QuietStep ==
  ASSUME LInv, \/ ParseNext /\ UNCHANGED lineVars
               \/ MallocFails /\ UNCHANGED lineVars
               \/ BeginLine \/ MatchWhole \/ MatchPart \/ MatchNone \/ MatchFails
               \/ StopBehindNewline \/ SkipReplacement \/ WriteFails
               \/ UNCHANGED vars
  PROVE  Unseen
<1>1. CASE (ParseNext \/ MallocFails) /\ UNCHANGED lineVars
  <2>1. input' = input
    BY <1>1 DEF ParseNext, MallocFails, PatternParsed, PatternFails, CopyString, CountOne,
       UnknownEscape, CountEnds, AllocArrays, MeasureOne, MeasurePart, MeasureBeyond,
       ExtractChar, ExtractReference, ExtractEnds
  <2> QED
    BY <1>1, <2>1 DEF Unseen, lineVars, writing
<1>2. CASE BeginLine
  BY <1>2 DEF BeginLine, Call, Unseen, parseVars, writing
<1>3. CASE MatchWhole \/ MatchPart
  BY <1>3 DEF MatchWhole, MatchPart, Unseen, parseVars, writing
<1>4. CASE MatchNone \/ MatchFails
  BY <1>4 DEF MatchNone, MatchFails, Unseen, parseVars, search, writing
<1>5. CASE StopBehindNewline
  BY <1>5 DEF StopBehindNewline, Unseen, parseVars, writing
<1>6. CASE SkipReplacement
  <2>1. lpc' # "done" /\ lpc # "done"
    BY <1>6 DEF SkipReplacement
  <2> QED
    BY <1>6, <2>1 DEF SkipReplacement, Unseen, parseVars, search, writing
<1>7. CASE WriteFails
  <2>1. lpc # "done" /\ lpc' = "failed"
    BY <1>7 DEF WriteFails, Pending
  <2> QED
    BY <1>7, <2>1 DEF WriteFails, Unseen, parseVars, search, writing
<1>8. CASE UNCHANGED vars
  BY <1>8 DEF vars, Unseen, parseVars, lineVars, search, writing
<1> QED
  BY <1>1, <1>2, <1>3, <1>4, <1>5, <1>6, <1>7, <1>8

\* What is to show of a step.
Refines == [Sub!Next]_(Sub!vars) /\ out' \in Seq(OutChars)

\* A step that leaves alone what Substitution sees refines it.
LEMMA NothingWritten ==
  ASSUME Unseen, out \in Seq(OutChars)
  PROVE  Refines
<1>1. UNCHANGED Sub!vars
  BY Stutters
<1>2. out' = out
  BY DEF Unseen
<1> QED
  BY <1>1, <1>2 DEF Refines

\* Text is copied, if there is any.
LEMMA SpanWritten ==
  ASSUME input \in Inputs, input' = input, replaced' = replaced, lpc # "done", lpc' # "done",
         gone \in Nat, NEW p \in Nat, gone <= p, p <= Len(line), gone' = p,
         out \in Seq(OutChars), out' = out \o Span(gone, p)
  PROVE  Refines
<1>1. Len(line) \in Nat
  BY LineEnd
<1>2. Span(gone, p) \in Seq(OutChars)
  BY SpanType
<1>3. out' \in Seq(OutChars)
  BY <1>2
<1>4. CASE gone < p
  <2>1. p \in (gone + 1) .. Len(line)
    BY <1>1, <1>4
  <2>2. Sub!Copy
    BY <2>1, Copied
  <2> QED
    BY <1>3, <2>2 DEF Refines, Sub!Next
<1>5. CASE gone = p
  <2>1. Span(gone, p) = <<>>
    BY <1>1, <1>5 DEF Span
  <2>2. out' = out
    BY <2>1
  <2>3. Unseen
    BY <1>5, <2>2 DEF Unseen
  <2> QED
    BY <2>3, NothingWritten
<1> QED
  BY <1>4, <1>5

\* Writing what is in front of a match is copying.
LEMMA PrefixRefines ==
  ASSUME LInv, out \in Seq(OutChars), WritePrefix
  PROVE  Refines
<1>1. /\ input' = input /\ replaced' = replaced /\ lpc = "prefix" /\ lpc' = "replace"
      /\ gone' = (IF Eo(0) > 0 THEN start + So(0) ELSE start)
      /\ out' = out \o (IF Eo(0) > 0 THEN Span(start, start + So(0)) ELSE <<>>)
  BY DEF WritePrefix, Write, parseVars, Pending
<1>2. /\ LTypes /\ input \in Inputs /\ gone = start /\ start \in Nat
      /\ \E m \in Found : Matched(m)
  BY <1>1 DEF LInv, LTypes, Going
<1>3. PICK m \in Found : Matched(m)
  BY <1>2
<1>4. /\ So(0) \in Nat /\ Eo(0) \in Nat /\ So(0) <= Eo(0) /\ start + Eo(0) <= CEnd
  BY <1>2, <1>3, MatchedIs
<1>5. /\ CEnd \in Nat /\ Len(line) \in Nat /\ CEnd <= Len(line)
  BY <1>2, LineEnd
<1>6. CASE Eo(0) > 0
  <2>1. PICK p \in Nat : p = start + So(0)
    BY <1>2, <1>4
  <2>2. gone <= p /\ p <= Len(line)
    BY <1>2, <1>4, <1>5, <2>1
  <2>3. gone' = p /\ out' = out \o Span(gone, p)
    BY <1>1, <1>2, <1>6, <2>1
  <2> QED
    BY <1>1, <1>2, <2>2, <2>3, SpanWritten
<1>7. CASE ~ (Eo(0) > 0)
  <2>1. gone' = gone /\ out' = out
    BY <1>1, <1>2, <1>7
  <2>2. Unseen
    BY <1>1, <2>1 DEF Unseen
  <2> QED
    BY <2>2, NothingWritten
<1> QED
  BY <1>6, <1>7

\* Writing the character after an empty match is copying.
LEMMA AdvanceRefines ==
  ASSUME LInv, out \in Seq(OutChars), Advance
  PROVE  Refines
<1>1. /\ input' = input /\ replaced' = replaced /\ lpc = "advance" /\ lpc' = "match"
      /\ gone' = start' /\ out' = out \o (IF Eo(0) = 0 THEN Span(start, start + 1) ELSE <<>>)
      /\ start' = (IF Eo(0) = 0 THEN start + 1 ELSE start + Eo(0))
  BY DEF Advance, Call, Write, parseVars, Pending
<1>2. /\ LTypes /\ input \in Inputs /\ gone = start + Eo(0) /\ start \in Nat /\ start <= CEnd
      /\ Char(start) # Nul
  BY <1>1 DEF LInv, LTypes, Going
<1>3. /\ CEnd \in Nat /\ Len(line) \in Nat /\ CEnd <= Len(line) /\ Char(CEnd) = Nul
  BY <1>2, LineEnd
<1>4. start # CEnd
  BY <1>2, <1>3
<1>5. CASE Eo(0) = 0
  <2>1. PICK p \in Nat : p = start + 1
    BY <1>2
  <2>2. gone = start /\ gone \in Nat /\ gone <= p /\ p <= Len(line)
    BY <1>2, <1>3, <1>4, <1>5, <2>1
  <2>3. gone' = p /\ out' = out \o Span(gone, p)
    BY <1>1, <1>5, <2>1, <2>2
  <2> QED
    BY <1>1, <1>2, <2>2, <2>3, SpanWritten
<1>6. CASE Eo(0) # 0
  <2>1. gone' = gone /\ out' = out
    BY <1>1, <1>2, <1>6
  <2>2. Unseen
    BY <1>1, <2>1 DEF Unseen
  <2> QED
    BY <2>2, NothingWritten
<1> QED
  BY <1>5, <1>6

\* Writing the rest of the line is copying and coming to the end.
LEMMA FlushRefines ==
  ASSUME LInv, out \in Seq(OutChars), Flush
  PROVE  Refines
<1>1. /\ input' = input /\ replaced' = replaced /\ lpc = "flush" /\ lpc' = "done"
      /\ gone' = Len(line) /\ out' = out \o Span(start, Len(line))
  BY DEF Flush, Write, parseVars, Pending
<1>2. input \in Inputs /\ gone = start /\ start \in Nat /\ start <= CEnd
  BY <1>1 DEF LInv, LTypes, Going
<1>3. PICK n \in Nat : n = Len(line) /\ gone \in Nat /\ gone <= n
  BY <1>2, LineEnd
<1>4. Span(gone, n) \in Seq(OutChars) /\ out' = out \o Span(gone, n)
  BY <1>1, <1>2, <1>3, SpanType
<1>5. out' \in Seq(OutChars)
  BY <1>4
<1>6. CASE gone < n
  <2>1. n \in (gone + 1) .. Len(line)
    BY <1>3, <1>6
  <2>2. Sub!Copy
    BY <1>1, <1>3, <1>4, <2>1, Copied
  <2> QED
    BY <1>5, <2>2 DEF Refines, Sub!Next
<1>7. CASE gone = n
  <2>1. Span(gone, n) = <<>>
    BY <1>3, <1>7 DEF Span
  <2>2. out' = out
    BY <1>4, <2>1
  <2>3. line' = line /\ ItemsWanted' = ItemsWanted /\ Wanted' = Wanted
    BY <1>1, SameGiven
  <2>4. gone' = gone /\ gone = Len(line)
    BY <1>1, <1>3, <1>7
  <2>5. Sub!End
    BY <1>1, <2>2, <2>3, <2>4 DEF Sub!End, Wanted
  <2> QED
    BY <1>5, <2>5 DEF Refines, Sub!Next
<1> QED
  BY <1>3, <1>6, <1>7

\* Writing the replacement is replacing a match.
LEMMA ReplacementRefines ==
  ASSUME SimpleEscapesUnused, LInv, TextInv, out \in Seq(OutChars), WriteReplacement
  PROVE  Refines
<1>1. /\ input' = input /\ lpc = "replace" /\ lpc' # "done" /\ gone' = start + Eo(0)
      /\ last_empty_flag \/ Eo(0) > 0
      /\ out' = out \o Replacement
  BY DEF WriteReplacement, Replacing, Write, parseVars, Pending
<1>2. /\ LTypes /\ pc = "parsed" /\ gone = start + So(0) /\ LastEnd <= start
      /\ last_empty_flag <=> LastEnd < start
      /\ start \in Nat /\ \E m \in Found : Matched(m)
  BY <1>1 DEF LInv, LTypes, Going
<1>3. PICK m \in Found : Matched(m)
  BY <1>2
<1>4. /\ m.from \in Nat /\ m.len \in Nat
      /\ So(0) = m.from - start /\ Eo(0) = m.from + m.len - start
      /\ So(0) \in Nat /\ Eo(0) \in Nat
  BY <1>2, <1>3, MatchedIs
<1>5. /\ Replacement =
              Sub!FlattenSeq([k \in DOMAIN ItemsWanted |-> Sub!Expand(ItemsWanted[k], m)])
      /\ Replacement \in Seq(OutChars)
  BY <1>2, <1>3, ReplacementIs
<1>6. out' \in Seq(OutChars)
  BY <1>1, <1>5
<1>7. LastEnd' = m.from + m.len
  BY <1>2, <1>3, ReplacedMore
<1>8. m \in Wanted
  BY <1>3 DEF Wanted, Matched
<1>9. gone = m.from /\ gone' = gone + m.len /\ gone' = m.from + m.len
  <2>1. PICK a \in Nat, b \in Nat, s \in Nat : a = m.from /\ b = m.len /\ s = start
    BY <1>2, <1>4
  <2>2. gone = s + (a - s) /\ gone' = s + (a + b - s)
    BY <1>1, <1>2, <1>4, <2>1, Zenon
  <2>3. s + (a - s) = a /\ s + (a + b - s) = a + b
    OBVIOUS
  <2> QED
    BY <2>1, <2>2, <2>3
<1>10. ASSUME m.len = 0 PROVE LastEnd # gone
  <2>0. start <= gone /\ (Eo(0) > 0 => start < gone)
    <3>1. PICK a \in Nat, s \in Nat, x \in Nat, y \in Nat :
            a = m.from /\ s = start /\ x = So(0) /\ y = Eo(0)
      BY <1>2, <1>4
    <3>2. gone = s + x /\ x = a - s /\ y = a + m.len - s
      BY <1>2, <1>4, <3>1, Zenon
    <3>3. y = a + 0 - s
      BY <1>10, <3>2, Zenon
    <3>4. s <= s + x /\ (y > 0 => s < s + x)
      BY <3>2, <3>3
    <3> QED
      BY <3>1, <3>2, <3>4
  <2>1. CASE last_empty_flag
    BY <1>2, <1>4, <1>9, <2>0, <2>1
  <2>2. CASE Eo(0) > 0
    BY <1>2, <1>4, <1>9, <2>0, <2>2
  <2> QED
    BY <1>1, <2>1, <2>2
<1>11. line' = line /\ ItemsWanted' = ItemsWanted /\ Wanted' = Wanted
  BY <1>1, SameGiven
<1>12. (lpc' = "done") = (lpc = "done") /\ ~ (lpc = "done")
  BY <1>1
<1>13. out' = out \o Sub!FlattenSeq([k \in DOMAIN ItemsWanted |-> Sub!Expand(ItemsWanted[k], m)])
  BY <1>1, <1>5
<1>14. Sub!Replace
  BY <1>7, <1>8, <1>9, <1>10, <1>11, <1>12, <1>13 DEF Sub!Replace, Wanted, LastEnd
<1> QED
  BY <1>6, <1>14 DEF Refines, Sub!Next

\* Every step is a step of Substitution, or none.
LEMMA RefineStep ==
  SimpleEscapesUnused /\ LInv /\ TextInv /\ out \in Seq(OutChars) /\ [Next]_vars => Refines
<1> SUFFICES ASSUME SimpleEscapesUnused, LInv, TextInv, out \in Seq(OutChars), [Next]_vars
             PROVE  Refines
  OBVIOUS
<1>1. CASE \/ ParseNext /\ UNCHANGED lineVars
           \/ MallocFails /\ UNCHANGED lineVars
           \/ BeginLine \/ MatchWhole \/ MatchPart \/ MatchNone \/ MatchFails
           \/ StopBehindNewline \/ SkipReplacement \/ WriteFails
           \/ UNCHANGED vars
  BY <1>1, QuietStep, NothingWritten
<1>2. CASE WritePrefix \/ WriteReplacement \/ Advance \/ Flush
  BY <1>2, PrefixRefines, ReplacementRefines, AdvanceRefines, FlushRefines
<1> QED
  BY <1>1, <1>2 DEF Next, Works, CallFails, LineNext

\* What rrep does with a line is a substitution, for every line, everything
\* that can be found in it and every replacement string, but for a string with
\* an escape that stands for one character: text from left to right is copied
\* once or belongs to one replaced match (rrep.c:204-256, pattern.c:70-148).
THEOREM LineIsSubstitution ==
  ASSUME SimpleEscapesUnused
  PROVE  Spec => ImplementsSubstitution
<1>1. Init => Sub!Init /\ out \in Seq(OutChars)
  BY DEF Init, Sub!Init
<1>2. LInv /\ TextInv /\ out \in Seq(OutChars) /\ [Next]_vars =>
        [Sub!Next]_(Sub!vars) /\ (out \in Seq(OutChars))'
  BY RefineStep DEF Refines
<1> QED
  BY <1>1, <1>2, LineInvariant, LineParses, TextInvariant, PTL DEF Spec, ImplementsSubstitution, Sub!Spec

-----------------------------------------------------------------------------
(* No match is missed.                                                     *)

\* A match is replaced, or why it is not.
Handled(m) ==
  \/ \E k \in DOMAIN replaced :
       \/ Covers(replaced[k], m.from)
       \/ m.len = 0 /\ m.from = replaced[k].from + replaced[k].len
  \/ \E r \in Found : ~ Acceptable(r) /\ Covers(r, m.from)
\* Every match that begins before p is.
HandledTo(p) == \A m \in Found : m.from < p => Handled(m)

\* m is the only match that begins where it does.
Only(m) == \A r \in Found : r.from = m.from => r = m

\* Up to where the matches have been dealt with.
Progress ==
  /\ lpc = "match" => HandledTo(IF AtEnd THEN CEnd ELSE NextFirst)
  /\ lpc \in {"prefix", "replace"} => \E m \in Found : Matched(m) /\ HandledTo(m.from) /\ Only(m)
  /\ lpc = "advance" => HandledTo(IF Eo(0) > 0 THEN start + Eo(0) ELSE start + 1)
  /\ lpc \in {"flush", "done"} => HandledTo(CEnd)

\* The inductive invariant of what is searched for from anywhere.
MInv == Consistent => Progress

\* What is handled stays handled.
LEMMA HandledStays ==
  ASSUME LTypes, input' = input,
         \/ replaced' = replaced
         \/ \E s : replaced' = Append(replaced, s)
  PROVE  /\ \A m : Handled(m) => Handled(m)'
         /\ \A p : HandledTo(p) => HandledTo(p)'
<1>1. Found' = Found /\ \A m : Acceptable(m)' = Acceptable(m)
  BY SameLine
<1>2. \A k \in DOMAIN replaced : k \in DOMAIN replaced' /\ replaced'[k] = replaced[k]
  BY DEF LTypes
<1>3. \A m : Handled(m) => Handled(m)'
  <2> SUFFICES ASSUME NEW m, Handled(m) PROVE Handled(m)'
    OBVIOUS
  <2>1. CASE \E k \in DOMAIN replaced :
               \/ Covers(replaced[k], m.from)
               \/ m.len = 0 /\ m.from = replaced[k].from + replaced[k].len
    BY <1>2, <2>1 DEF Handled
  <2>2. CASE \E r \in Found : ~ Acceptable(r) /\ Covers(r, m.from)
    <3>1. PICK r \in Found : ~ Acceptable(r) /\ Covers(r, m.from)
      BY <2>2
    <3>2. r \in Found' /\ ~ Acceptable(r)'
      BY <1>1, <3>1
    <3> QED
      BY <3>1, <3>2 DEF Handled
  <2> QED
    BY <2>1, <2>2 DEF Handled
<1> QED
  BY <1>1, <1>3 DEF HandledTo

\* What is found from p is the next match there is.
LEMMA NextIs ==
  ASSUME input \in Inputs, Consistent, NEW p \in Nat, p <= CEnd
  PROVE  /\ input.found[p] = None => \A r \in Found : r.from < p
         /\ input.found[p] # None =>
              \A r \in Found : p <= r.from /\ r.from <= input.found[p].from => r = input.found[p]
<1>1. CEnd \in Nat /\ DOMAIN input.found = 0 .. CEnd
  BY LineEnd
<1>2. ASSUME NEW r \in Found PROVE r # None /\ r.from \in 0 .. CEnd /\ input.found[r.from] = r
  <2>1. PICK q \in 0 .. CEnd : r = input.found[q]
    BY <1>1 DEF Found
  <2>2. r # None
    BY DEF Found
  <2>3. q \in Nat /\ q <= CEnd
    BY <1>1
  <2>4. IsMatch(r, CEnd) /\ q <= r.from
    BY <2>1, <2>2, <2>3, LineEnd
  <2>5. r.from \in Nat /\ r.from <= CEnd /\ r.from \in q .. r.from /\ r.from \in 0 .. CEnd
    BY <1>1, <2>3, <2>4 DEF IsMatch
  <2>6. \A x \in q .. r.from : input.found[x] = r
    BY <2>1, <2>2 DEF Consistent
  <2> QED
    BY <2>2, <2>5, <2>6
<1>3. p \in 0 .. CEnd
  BY <1>1
<1>4. ASSUME input.found[p] = None, NEW r \in Found PROVE r.from < p
  <2>1. \A x \in p .. CEnd : input.found[x] = None
    BY <1>3, <1>4 DEF Consistent
  <2>2. r.from \notin p .. CEnd
    BY <1>2, <2>1
  <2> QED
    BY <1>1, <1>2, <2>2
<1>5. ASSUME input.found[p] # None, NEW r \in Found, p <= r.from, r.from <= input.found[p].from
      PROVE  r = input.found[p]
  <2>1. \A x \in p .. input.found[p].from : input.found[x] = input.found[p]
    BY <1>3, <1>5 DEF Consistent
  <2>2. IsMatch(input.found[p], CEnd)
    BY <1>5, LineEnd
  <2>3. r.from \in p .. input.found[p].from
    BY <1>2, <1>5, <2>2 DEF IsMatch
  <2> QED
    BY <1>2, <2>1, <2>3
<1> QED
  BY <1>4, <1>5

\* From the match found next, everything in front of it has been dealt with.
LEMMA NextHandled ==
  ASSUME input \in Inputs, Consistent, NEW p \in Nat, p <= CEnd, HandledTo(p),
         NEW m, m = input.found[p]
  PROVE  /\ m = None => HandledTo(CEnd)
         /\ m # None => m \in Found /\ HandledTo(m.from) /\ Only(m)
<1>1. m = None => \A r \in Found : r.from < p
  BY NextIs
<1>2. m # None => \A r \in Found : p <= r.from /\ r.from <= m.from => r = m
  BY NextIs
<1>3. \A r \in Found : r.from \in Nat
  BY LineEnd DEF IsMatch
<1>4. m # None => m \in Found /\ p <= m.from
  BY LineEnd
<1>5. ASSUME m # None, NEW r \in Found, r.from < m.from PROVE Handled(r)
  <2>1. r # m
    BY <1>3, <1>4, <1>5
  <2>2. ~ (p <= r.from)
    BY <1>2, <1>3, <1>4, <1>5, <2>1
  <2>3. r.from < p
    BY <1>3, <2>2
  <2> QED
    BY <2>3 DEF HandledTo
<1>6. ASSUME m # None PROVE Only(m)
  <2>1. \A r \in Found : r.from = m.from => p <= r.from /\ r.from <= m.from
    BY <1>3, <1>4, <1>6
  <2> QED
    BY <1>2, <1>6, <2>1 DEF Only
<1> QED
  BY <1>1, <1>4, <1>5, <1>6 DEF HandledTo

\* The call of match_pattern goes on where the rest of the line begins.
LEMMA CallNext ==
  ASSUME LTypes, input' = input, NEW p \in Nat, Call(p), start' = p
  PROVE  ~ AtEnd' /\ NextFirst' = p
<1>1. /\ input.fixed => first' + input.plen = p
      /\ ~ input.fixed => match'[0][2] = 0 /\ first' = p - 1
  BY CallIs
<1>2. CASE input.fixed
  BY <1>1, <1>2 DEF AtEnd, NextFirst
<1>3. CASE ~ input.fixed
  <2>1. Eo(0)' = 0 /\ first' + 1 = p /\ ~ (first' >= p)
    BY <1>1, <1>3 DEF Eo
  <2> QED
    BY <1>3, <2>1 DEF AtEnd, NextFirst
<1> QED
  BY <1>2, <1>3

\* A step of the parser, and a step that changes nothing.
LEMMA IdleProgress ==
  ASSUME LInv, Progress, \/ (ParseNext \/ MallocFails) /\ UNCHANGED lineVars
                         \/ WriteFails \/ MatchFails
                         \/ UNCHANGED vars
  PROVE  Progress'
<1>1. CASE (ParseNext \/ MallocFails) /\ UNCHANGED lineVars
  <2>1. lpc = "idle"
    BY <1>1, ParsedStays DEF LInv, Going
  <2>2. lpc' = "idle"
    BY <1>1, <2>1 DEF lineVars
  <2> QED
    BY <2>2 DEF Progress
<1>2. CASE WriteFails \/ MatchFails
  <2>1. lpc' = "failed"
    BY <1>2 DEF WriteFails, MatchFails
  <2> QED
    BY <2>1 DEF Progress
<1>3. CASE UNCHANGED vars
  <2>1. /\ input' = input /\ start' = start /\ first' = first /\ match' = match /\ lpc' = lpc
        /\ replaced' = replaced
    BY <1>3 DEF vars, parseVars, lineVars, search, writing
  <2>2. /\ Found' = Found /\ CEnd' = CEnd /\ \A m : Matched(m)' <=> Matched(m)
        /\ \A m : Only(m)' <=> Only(m)
        /\ AtEnd' = AtEnd /\ NextFirst' = NextFirst /\ Eo(0)' = Eo(0)
    BY <2>1, SameLine DEF Matched, Only, AtEnd, NextFirst, Eo, Char, line
  <2>3. \A p : HandledTo(p) => HandledTo(p)'
    BY <2>1, HandledStays DEF LInv
  <2>4. lpc = "match" => HandledTo(IF AtEnd THEN CEnd ELSE NextFirst)'
    BY <2>2, <2>3 DEF Progress
  <2>5. lpc \in {"prefix", "replace"} =>
           \E m \in Found : Matched(m)' /\ HandledTo(m.from)' /\ Only(m)'
    BY <2>2, <2>3 DEF Progress
  <2>6. lpc = "advance" => HandledTo(IF Eo(0) > 0 THEN start + Eo(0) ELSE start + 1)'
    BY <2>1, <2>2, <2>3 DEF Progress
  <2>7. lpc \in {"flush", "done"} => HandledTo(CEnd)'
    BY <2>2, <2>3 DEF Progress
  <2> QED
    BY <2>1, <2>2, <2>4, <2>5, <2>6, <2>7 DEF Progress
<1> QED
  BY <1>1, <1>2, <1>3

\* Before the first match nothing has to be dealt with.
LEMMA BeginProgress ==
  ASSUME LInv, BeginLine
  PROVE  Progress'
<1>1. input' = input /\ start' = start /\ start = 0 /\ Call(0) /\ lpc' = "match" /\ LTypes
  BY DEF BeginLine, Call, LInv, Going, parseVars
<1>2. ~ AtEnd' /\ NextFirst' = 0
  BY <1>1, CallNext
<1>3. Found' = Found /\ \A m \in Found : m.from \in Nat
  BY <1>1, SameLine, LineEnd DEF LTypes, IsMatch
<1>4. HandledTo(0)'
  BY <1>3 DEF HandledTo
<1> QED
  BY <1>1, <1>2, <1>4 DEF Progress

\* A match that is whole is the next there is.
LEMMA WholeProgress ==
  ASSUME LInv, Consistent, Progress, MatchWhole
  PROVE  Progress'
<1>1. /\ input' = input /\ start' = start /\ replaced' = replaced
      /\ lpc = "match" /\ lpc' = "prefix" /\ ~ AtEnd
  BY DEF MatchWhole, parseVars, writing
<1>2. PICK p \in Nat : p = NextFirst /\ start <= p /\ p <= CEnd
  BY <1>1, NextFirstIs
<1>3. PICK m \in {input.found[p]} \ {None} :
        CheckWhole(m.from, m.len) /\ match' = Corrected(Offsets(m, p), p)
  BY <1>2 DEF MatchWhole
<1>4. /\ m \in Found /\ IsMatch(m, CEnd) /\ p <= m.from /\ CEnd \in Nat /\ start \in Nat
      /\ input \in Inputs /\ LTypes
  BY <1>2, <1>3, LineEnd DEF LInv, LTypes
<1>5. match' = Offsets(m, start)
  BY <1>3, <1>4, CorrectedIs
<1>6. start <= m.from
  BY <1>2, <1>4 DEF IsMatch
<1>7. Acceptable(m)
  BY <1>3, <1>4, WholeIsAcceptable
<1>8. HandledTo(p)
  BY <1>1, <1>2 DEF Progress
<1>9. HandledTo(m.from) /\ Only(m)
  BY <1>2, <1>3, <1>4, <1>8, NextHandled
<1>10. Found' = Found /\ Acceptable(m)' = Acceptable(m)
  BY <1>1, SameLine
<1>11. m \in Found' /\ Matched(m)' /\ Only(m)'
  BY <1>1, <1>4, <1>5, <1>6, <1>7, <1>9, <1>10 DEF Matched, Only
<1>12. HandledTo(m.from)'
  BY <1>1, <1>4, <1>9, HandledStays
<1> QED
  BY <1>1, <1>11, <1>12 DEF Progress

\* A match that is refused is dealt with, and what begins in it.
LEMMA PartProgress ==
  ASSUME LInv, Consistent, Progress, MatchPart
  PROVE  Progress'
<1>1. /\ input' = input /\ start' = start /\ replaced' = replaced
      /\ lpc = "match" /\ lpc' = "match" /\ ~ AtEnd
  BY DEF MatchPart, parseVars, writing
<1>2. PICK p \in Nat : p = NextFirst /\ start <= p /\ p <= CEnd
  BY <1>1, NextFirstIs
<1>3. PICK m \in {input.found[p]} \ {None} :
        /\ ~ CheckWhole(m.from, m.len)
        /\ match' = Offsets(m, p) /\ first' = IF input.fixed THEN m.from ELSE p
  BY <1>2 DEF MatchPart
<1>4. /\ m = input.found[p] /\ m # None /\ input \in Inputs /\ LTypes
      /\ CEnd \in Nat /\ p \in Int /\ start \in Nat
      /\ \A q \in Nat : q < CEnd => (Char(q) = Newline => q = CEnd - 1)
      /\ \A q \in Nat : q < CEnd => Char(q) # Nul
      /\ input.fixed \in BOOLEAN
  BY <1>2, <1>3, LineEnd DEF LInv, LTypes
<1>5. /\ m \in Found /\ IsMatch(m, CEnd) /\ p <= m.from
      /\ input.fixed => m.len = input.plen
  BY <1>2, <1>4, LineEnd, Zenon
<1>6. m.from \in Nat /\ m.len \in Nat /\ m.from + m.len <= CEnd
  BY <1>5 DEF IsMatch
<1>7. HandledTo(p)
  BY <1>1, <1>2 DEF Progress
<1>8. HandledTo(m.from)
  BY <1>2, <1>4, <1>7, NextHandled
<1>9. ~ Acceptable(m)
  BY <1>3, <1>4, <1>5, WholeIsAcceptable
<1>10. \A r \in Found : r.from \in Nat
  BY <1>4, LineEnd DEF IsMatch
<1>11. HandledTo(m.from + m.len) /\ (m.len = 0 => HandledTo(m.from + 1))
  <2>1. ASSUME NEW r \in Found, m.from <= r.from, r.from < m.from + m.len \/ r.from = m.from
        PROVE  Handled(r)
    <3>1. Covers(m, r.from)
      BY <1>6, <1>10, <2>1 DEF Covers
    <3> QED
      BY <1>5, <1>9, <3>1 DEF Handled
  <2>2. ASSUME NEW r \in Found, r.from < m.from PROVE Handled(r)
    BY <1>8, <2>2 DEF HandledTo
  <2>3. \A r \in Found : r.from < m.from + m.len =>
           r.from < m.from \/ (m.from <= r.from /\ r.from < m.from + m.len)
    BY <1>6, <1>10
  <2>4. \A r \in Found : r.from < m.from + 1 =>
           r.from < m.from \/ (m.from <= r.from /\ r.from = m.from)
    BY <1>6, <1>10
  <2>5. HandledTo(m.from + m.len)
    BY <2>1, <2>2, <2>3 DEF HandledTo
  <2>6. HandledTo(m.from + 1)
    BY <2>1, <2>2, <2>4 DEF HandledTo
  <2> QED
    BY <2>5, <2>6
<1>12. Offsets(m, p)[0] = <<m.from - p, m.from + m.len - p>>
  <2>1. CEnd \in Nat /\ IsMatch(m, CEnd) /\ p \in Int
    BY <1>4, <1>5
  <2> QED
    BY ONLY <2>1, OffsetsAre
<1>13. match'[0][2] = m.from + m.len - p
  BY <1>3, <1>12
<1>14. Eo(0)' = m.from + m.len - p
  BY <1>13 DEF Eo
<1>15. line' = line /\ CEnd' = CEnd /\ \A q : Char(q)' = Char(q)
  BY <1>1, SameLine
<1>16. HandledTo(IF AtEnd' THEN CEnd ELSE NextFirst')
  <2>1. CASE input.fixed
    <3>1. ~ AtEnd' /\ NextFirst' = m.from + input.plen
      BY <1>1, <1>3, <2>1 DEF AtEnd, NextFirst
    <3> QED
      BY <1>5, <1>11, <2>1, <3>1
  <2>2. CASE ~ input.fixed /\ m.from + m.len # p
    <3>0. Eo(0)' # 0
      <4>1. \A a, b, q \in Int : a + b # q => a + b - q # 0
        OBVIOUS
      <4>2. m.from \in Int /\ m.len \in Int /\ p \in Int
        BY <1>4, <1>6
      <4>3. m.from + m.len - p # 0
        BY <2>2, <4>1, <4>2, Zenon
      <4> QED
        BY <1>14, <4>3
    <3>1. ~ AtEnd'
      BY <3>0 DEF AtEnd
    <3>2. NextFirst' = p + (m.from + m.len - p)
      BY <1>1, <1>3, <1>14, <2>2, <3>0 DEF NextFirst
    <3>3. p + (m.from + m.len - p) = m.from + m.len
      BY <1>6
    <3> QED
      BY <1>11, <3>1, <3>2, <3>3
  <2>3. CASE ~ input.fixed /\ m.from + m.len = p
    <3>1. m.from = p /\ m.len = 0
      BY <1>5, <1>6, <2>3
    <3>2. HandledTo(p + 1)
      BY <1>11, <3>1
    <3>3. Eo(0)' = 0 /\ first' = p /\ start' = start
      <4>1. \A a, b, q \in Int : a + b = q => a + b - q = 0
        OBVIOUS
      <4>2. m.from \in Int /\ m.len \in Int /\ p \in Int
        BY <1>4, <1>6
      <4>3. m.from + m.len - p = 0
        BY <2>3, <4>1, <4>2, Zenon
      <4> QED
        BY <1>1, <1>3, <1>14, <2>3, <4>3
    <3>4. NextFirst' = p + 1
      BY <1>1, <2>3, <3>3 DEF NextFirst
    <3>5. ASSUME AtEnd' PROVE HandledTo(CEnd)
      <4>1. Char(p) = Newline \/ Char(p) = Nul
        <5>1. Char(first)' = Char(p)
          BY <1>15, <3>3 DEF Char
        <5>2. Char(first)' \in {Newline, Nul}
          BY <3>5, <2>3, <1>1 DEF AtEnd
        <5> QED
          BY <5>1, <5>2
      <4>2. CEnd <= p + 1
        <5>1. p < CEnd => p = CEnd - 1
          BY <1>4, <4>1
        <5> QED
          BY <1>2, <1>4, <5>1
      <4>3. \A r \in Found : r.from < CEnd => r.from < p + 1
        BY <1>2, <1>4, <1>10, <4>2
      <4> QED
        BY <3>2, <4>3 DEF HandledTo
    <3> QED
      BY <3>2, <3>4, <3>5
  <2> QED
    BY <1>4, <2>1, <2>2, <2>3
<1>17. \A q : HandledTo(q) => HandledTo(q)'
  BY <1>1, <1>4, HandledStays
<1>18. HandledTo(IF AtEnd THEN CEnd ELSE NextFirst)'
  <2>1. PICK q : q = IF AtEnd' THEN CEnd ELSE NextFirst'
    OBVIOUS
  <2>2. HandledTo(q)'
    BY <1>16, <1>17, <2>1
  <2>3. q = (IF AtEnd THEN CEnd ELSE NextFirst)'
    BY <1>15, <2>1
  <2> QED
    BY <2>2, <2>3 DEF HandledTo, Handled
<1> QED
  BY <1>1, <1>18 DEF Progress

\* Nothing more is found, or only behind the newline.
LEMMA FlushProgress ==
  ASSUME LInv, Consistent, Progress, MatchNone \/ StopBehindNewline \/ Flush
  PROVE  Progress'
<1>1. input' = input /\ replaced' = replaced /\ lpc' \in {"flush", "done"}
  BY DEF MatchNone, StopBehindNewline, Flush, parseVars, writing
<1>2. LTypes /\ input \in Inputs
  BY DEF LInv, LTypes
<1>3. HandledTo(CEnd)
  <2>1. CASE MatchNone /\ AtEnd
    BY <2>1 DEF Progress, MatchNone
  <2>2. CASE MatchNone /\ ~ AtEnd
    <3>1. lpc = "match" /\ input.found[NextFirst] = None
      BY <2>2 DEF MatchNone
    <3>2. PICK p \in Nat : p = NextFirst /\ p <= CEnd
      BY <2>2, <3>1, NextFirstIs
    <3>3. HandledTo(p)
      BY <2>2, <3>1, <3>2 DEF Progress
    <3> QED
      BY <1>2, <3>1, <3>2, <3>3, NextHandled
  <2>3. CASE StopBehindNewline
    <3>1. lpc = "prefix" /\ Char(start) = Nul
      BY <2>3 DEF StopBehindNewline, BehindNewline
    <3>2. PICK m \in Found : Matched(m) /\ HandledTo(m.from)
      BY <3>1 DEF Progress
    <3>3. m.from = CEnd
      BY <1>2, <3>1, <3>2, AtTheEnd
    <3> QED
      BY <3>2, <3>3
  <2>4. CASE Flush
    BY <2>4 DEF Flush, Progress
  <2> QED
    BY <2>1, <2>2, <2>3, <2>4
<1>4. HandledTo(CEnd)'
  <2>1. PICK c : c = CEnd
    OBVIOUS
  <2>2. HandledTo(c)' /\ CEnd' = c
    BY <1>1, <1>2, <1>3, <2>1, HandledStays, SameLine
  <2> QED
    BY <2>2 DEF HandledTo
<1> QED
  BY <1>1, <1>4 DEF Progress

\* Writing what is in front of a match deals with nothing.
LEMMA PrefixProgress ==
  ASSUME LInv, Progress, WritePrefix
  PROVE  Progress'
<1>1. /\ input' = input /\ start' = start /\ match' = match /\ replaced' = replaced
      /\ lpc = "prefix" /\ lpc' = "replace"
  BY DEF WritePrefix, parseVars
<1>2. PICK m \in Found : Matched(m) /\ HandledTo(m.from) /\ Only(m)
  BY <1>1 DEF Progress
<1>3. m \in Found' /\ Matched(m)' /\ Only(m)'
  BY <1>1, <1>2, SameLine DEF Matched, Only
<1>4. HandledTo(m.from)'
  BY <1>1, <1>2, HandledStays DEF LInv
<1> QED
  BY <1>1, <1>3, <1>4 DEF Progress

\* Where the rest of the line begins behind a match that is dealt with.
LEMMA BehindIs ==
  ASSUME LTypes, NEW m, Matched(m)
  PROVE  /\ Eo(0) > 0 => start + Eo(0) = m.from + m.len
         /\ ~ (Eo(0) > 0) => Eo(0) = 0 /\ start = m.from /\ m.len = 0
<1>1. /\ So(0) \in Nat /\ Eo(0) \in Nat /\ So(0) <= Eo(0)
      /\ So(0) = m.from - start /\ Eo(0) = m.from + m.len - start
      /\ m.from \in Nat /\ m.len \in Nat /\ start \in Nat
  BY MatchedIs DEF LTypes
<1>2. \A a, b, s \in Nat : s + (a + b - s) = a + b
  OBVIOUS
<1>3. \A a, b, s \in Nat :
        /\ (a + b - s) \in Nat /\ (a - s) \in Nat /\ a - s <= a + b - s /\ ~ (a + b - s > 0)
        => a + b - s = 0 /\ s = a /\ b = 0
  OBVIOUS
<1> QED
  BY ONLY <1>1, <1>2, <1>3

\* A match that is replaced is dealt with, and what begins in it; so is an
\* empty one right behind the last one.
LEMMA ReplaceProgress ==
  ASSUME LInv, Progress, WriteReplacement \/ SkipReplacement
  PROVE  Progress'
<1>1. /\ input' = input /\ start' = start /\ match' = match /\ lpc = "replace"
      /\ lpc' = IF break_flag THEN "flush" ELSE "advance"
      /\ \/ replaced' = replaced
         \/ \E s : replaced' = Append(replaced, s)
  BY DEF WriteReplacement, SkipReplacement, Write, parseVars, search, writing
<1>2. /\ LTypes /\ input \in Inputs /\ LastEnd <= start /\ (last_empty_flag <=> LastEnd < start)
      /\ start \in Nat /\ (break_flag <=> Char(start) = Nul) /\ replaced \in Seq(Spans)
  BY <1>1 DEF LInv, LTypes, Going
<1>3. PICK m \in Found : Matched(m) /\ HandledTo(m.from) /\ Only(m)
  BY <1>1 DEF Progress
<1>4. m.from \in Nat /\ m.len \in Nat
  BY <1>2, <1>3, MatchedIs
<1>5. HandledTo(m.from)' /\ Found' = Found /\ CEnd' = CEnd /\ Eo(0)' = Eo(0)
  BY <1>1, <1>2, <1>3, HandledStays, SameLine DEF Eo
<1>6. \A r \in Found : r.from \in Nat
  BY <1>2, LineEnd DEF IsMatch
<1>7. ASSUME NEW r \in Found, Covers(m, r.from) PROVE Handled(r)'
  <2>1. CASE WriteReplacement
    <3>1. replaced' = Append(replaced, [from |-> m.from, len |-> m.len])
      BY <1>2, <1>3, <2>1, ReplacedMore
    <3>2. PICK k : k = Len(replaced) + 1
      OBVIOUS
    <3>3. k \in DOMAIN replaced' /\ replaced'[k] = [from |-> m.from, len |-> m.len]
      BY <1>2, <3>1, <3>2
    <3>4. Covers(replaced'[k], r.from)
      BY <1>7, <3>3 DEF Covers
    <3>5. \E x \in DOMAIN replaced' :
            \/ Covers(replaced'[x], r.from)
            \/ r.len = 0 /\ r.from = replaced'[x].from + replaced'[x].len
      BY <3>3, <3>4
    <3> QED
      BY <3>5 DEF Handled, Covers
  <2>2. CASE SkipReplacement
    <3>1. ~ last_empty_flag /\ ~ (Eo(0) > 0) /\ replaced' = replaced
      BY <2>2 DEF SkipReplacement, Replacing, writing
    <3>2. Eo(0) = 0 /\ start = m.from /\ m.len = 0
      BY <1>2, <1>3, <3>1, BehindIs
    <3>3. LastEnd = start /\ replaced # <<>>
      <4>1. LastEnd \in Int
        <5>1. replaced # <<>> => replaced[Len(replaced)] \in Spans
          BY <1>2
        <5>2. \A s \in Spans : s.from + s.len \in Int
          BY DEF Spans
        <5> QED
          BY <5>1, <5>2 DEF LastEnd
      <4>2. LastEnd = start
        BY <1>2, <3>1, <4>1
      <4> QED
        BY <1>2, <4>2 DEF LastEnd
    <3>4. r.from = m.from
      BY <1>4, <1>6, <1>7, <3>2 DEF Covers
    <3>5. r = m
      BY <1>3, <3>4 DEF Only
    <3>6. PICK k \in DOMAIN replaced : k = Len(replaced)
      BY <1>2, <3>3
    <3>7. r.len = 0 /\ r.from = replaced[k].from + replaced[k].len
      BY <3>2, <3>3, <3>5, <3>6 DEF LastEnd
    <3>8. Handled(r)
      BY <3>7 DEF Handled
    <3> QED
      BY <1>1, <1>2, <3>8, HandledStays
  <2> QED
    BY <2>1, <2>2
<1>8. ASSUME NEW q \in Nat, q = m.from + m.len \/ q = m.from + 1 PROVE HandledTo(q)'
  <2>1. ASSUME NEW r \in Found, r.from < q PROVE Handled(r)'
    <3>1. CASE r.from < m.from
      BY <1>5, <3>1 DEF HandledTo
    <3>2. CASE ~ (r.from < m.from)
      <4>1. Covers(m, r.from)
        BY <1>4, <1>6, <1>8, <2>1, <3>2 DEF Covers
      <4> QED
        BY <1>7, <4>1
    <3> QED
      BY <3>1, <3>2
  <2> QED
    BY <1>5, <2>1 DEF HandledTo
<1>9. CASE break_flag
  <2>1. lpc' = "flush" /\ m.from = CEnd'
    BY <1>1, <1>2, <1>3, <1>5, <1>9, AtTheEnd
  <2>2. HandledTo(CEnd)'
    BY <1>5, <2>1 DEF HandledTo
  <2> QED
    BY <2>1, <2>2 DEF Progress
<1>10. CASE ~ break_flag
  <2>1. lpc' = "advance"
    BY <1>1, <1>10
  <2>2. PICK q \in Nat : /\ q = m.from + m.len \/ q = m.from + 1
                         /\ q = IF Eo(0) > 0 THEN start + Eo(0) ELSE start + 1
    <3>1. CASE Eo(0) > 0
      BY <1>2, <1>3, <1>4, <3>1, BehindIs
    <3>2. CASE ~ (Eo(0) > 0)
      BY <1>2, <1>3, <1>4, <3>2, BehindIs
    <3> QED
      BY <3>1, <3>2
  <2>3. HandledTo(q)' /\ q = (IF Eo(0) > 0 THEN start + Eo(0) ELSE start + 1)'
    BY <1>1, <1>5, <1>8, <2>2
  <2>4. HandledTo(IF Eo(0) > 0 THEN start + Eo(0) ELSE start + 1)'
    BY <2>3 DEF HandledTo
  <2> QED
    BY <2>1, <2>4 DEF Progress
<1> QED
  BY <1>9, <1>10

\* The search goes on where everything in front has been dealt with.
LEMMA AdvanceProgress ==
  ASSUME LInv, Progress, Advance
  PROVE  Progress'
<1>1. /\ input' = input /\ replaced' = replaced /\ lpc = "advance" /\ Call(start')
      /\ start' = IF Eo(0) = 0 THEN start + 1 ELSE start + Eo(0)
  BY DEF Advance, parseVars
<1>2. LTypes /\ start \in Nat /\ \E m \in Found : Matched(m)
  BY <1>1 DEF LInv, LTypes, Going
<1>3. Eo(0) \in Nat
  BY <1>2, MatchedIs
<1>4. PICK p \in Nat : p = start' /\ p = IF Eo(0) > 0 THEN start + Eo(0) ELSE start + 1
  BY <1>1, <1>2, <1>3
<1>5. HandledTo(p)
  BY <1>1, <1>4 DEF Progress
<1>6. HandledTo(p)'
  BY <1>1, <1>2, <1>5, HandledStays
<1>7. Call(p) /\ start' = p
  BY <1>1, <1>4
<1>8. lpc' = "match" /\ ~ AtEnd' /\ NextFirst' = p
  BY <1>1, <1>2, <1>7, CallNext, CallIs
<1>9. HandledTo(IF AtEnd THEN CEnd ELSE NextFirst)'
  BY <1>6, <1>8 DEF HandledTo
<1> QED
  BY <1>8, <1>9 DEF Progress

\* Every step keeps the invariant with what has been dealt with.
LEMMA MInvStep ==
  ASSUME LInv, MInv, [Next]_vars
  PROVE  MInv'
<1>1. input' = input
  BY DEF Next, Works, CallFails, LineNext, vars, parseVars, ParseNext, MallocFails,
   PatternParsed, PatternFails, CopyString, CountOne, UnknownEscape, CountEnds, AllocArrays,
   MeasureOne, MeasurePart, MeasureBeyond, ExtractChar, ExtractReference, ExtractEnds,
   BeginLine, MatchWhole, MatchPart, MatchNone, MatchFails, StopBehindNewline, WritePrefix,
   WriteReplacement, SkipReplacement, Advance, Flush, WriteFails
<1>2. Consistent' = Consistent
  BY <1>1, SameLine DEF Consistent
<1>3. ASSUME Consistent PROVE Progress'
  <2>1. Progress
    BY <1>3 DEF MInv
  <2>2. CASE \/ (ParseNext \/ MallocFails) /\ UNCHANGED lineVars
             \/ WriteFails \/ MatchFails \/ UNCHANGED vars
    BY <2>1, <2>2, IdleProgress
  <2>3. CASE BeginLine \/ MatchWhole \/ MatchPart
    BY <1>3, <2>1, <2>3, BeginProgress, WholeProgress, PartProgress
  <2>4. CASE \/ MatchNone \/ StopBehindNewline \/ Flush
             \/ WritePrefix \/ WriteReplacement \/ SkipReplacement \/ Advance
    BY <1>3, <2>1, <2>4, FlushProgress, PrefixProgress, ReplaceProgress, AdvanceProgress
  <2> QED
    BY <2>2, <2>3, <2>4 DEF Next, Works, CallFails, LineNext
<1> QED
  BY <1>2, <1>3 DEF MInv

\* For a pattern that finds the same match from wherever it is searched,
\* every match of a line is replaced, or overlaps one that is or one that -w
\* or -x refused; only an empty one may also touch the end of a replaced one
\* (rrep.c:211-255, pattern.c:113-137).
THEOREM NoneIsMissed == Spec => []NoneMissed
<1>1. Init => MInv
  BY DEF Init, MInv, Progress
<1>2. LInv /\ MInv /\ [Next]_vars => MInv'
  BY MInvStep
<1>3. LInv /\ MInv => NoneMissed
  <2> SUFFICES ASSUME LInv, MInv, lpc = "done", Consistent, NEW m \in Found, m.from < CEnd
               PROVE  Handled(m)
    BY DEF NoneMissed, Handled
  <2> QED
    BY DEF MInv, Progress, HandledTo
<1> QED
  BY <1>1, <1>2, <1>3, LineInvariant, PTL DEF Spec
==============================================================================
