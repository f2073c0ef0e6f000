------------------------- MODULE ParseStringsProofs -------------------------
(***************************************************************************)
(* The three sweeps of parse_replace, for every replacement string: what   *)
(* the first one refuses, when the second one leaves the arrays, that the  *)
(* third one writes only to memory that was allocated, and what the parts  *)
(* and references say in the end.                                          *)
(*                                                                         *)
(* The sweeps step over a string by different rules.  ParseInv says of     *)
(* each where it is, and counts what is before it: the first counts the    *)
(* references, the second the splitters (the references and what looks     *)
(* like one), and the blocks it allocates reach from splitter to splitter. *)
(* TextInv adds what the third sweep has told of the string's meaning.     *)
(***************************************************************************)
EXTENDS ParseStrings, SequenceLemmas, FiniteSetTheorems

-----------------------------------------------------------------------------
(* Which characters of a string are escaped.                                *)

\* e is the function that Escaped defines by recursion, as far as n.
Escapes(e, s, n) == e = [p \in 0 .. n |-> p > 1 /\ s[p - 1] = "\\" /\ ~ e[p - 1]]

\* There is such a function (the recursion reaches every position).
LEMMA EscapesExist ==
  ASSUME NEW s, NEW n \in Nat
  PROVE  \E e : Escapes(e, s, n)
<1> DEFINE T == {m \in Nat : \E e : Escapes(e, s, m)}
<1>1. 0 \in T
  <2> DEFINE e == [p \in 0 .. 0 |-> FALSE]
  <2>1. e = [p \in 0 .. 0 |-> e[p]]
    OBVIOUS
  <2>2. \A p \in 0 .. 0 : e[p] = (p > 1 /\ s[p - 1] = "\\" /\ ~ e[p - 1])
    <3>1. \A p \in 0 .. 0 : e[p] = FALSE /\ ~ (p > 1)
      OBVIOUS
    <3> HIDE DEF e
    <3> QED
      BY <3>1
  <2> HIDE DEF e
  <2>3. Escapes(e, s, 0)
    BY <2>1, <2>2 DEF Escapes
  <2> QED
    BY <2>3
<1>2. ASSUME NEW m \in T PROVE m + 1 \in T
  <2>1. PICK e : Escapes(e, s, m)
    OBVIOUS
  <2> DEFINE d == [p \in 0 .. m + 1 |->
                     IF p <= m THEN e[p] ELSE p > 1 /\ s[p - 1] = "\\" /\ ~ e[p - 1]]
  <2>2. \A p \in 0 .. m : e[p] = (p > 1 /\ s[p - 1] = "\\" /\ ~ e[p - 1])
    BY <2>1 DEF Escapes
  <2>3. \A p \in 0 .. m + 1 : p > 1 => d[p - 1] = e[p - 1]
    OBVIOUS
  <2>4. \A p \in 0 .. m + 1 : d[p] = (p > 1 /\ s[p - 1] = "\\" /\ ~ d[p - 1])
    BY <2>2, <2>3
  <2>5. Escapes(d, s, m + 1)
    <3>1. d = [p \in 0 .. m + 1 |-> d[p]]
      OBVIOUS
    <3> HIDE DEF d
    <3> QED
      BY <2>4, <3>1 DEF Escapes
  <2> QED
    BY <2>5
<1>3. T \in SUBSET Nat
  OBVIOUS
<1> HIDE DEF T
<1>4. T = Nat
  BY <1>1, <1>2, <1>3, NatInd, Zenon
<1> QED
  BY <1>4 DEF T

\* A character is escaped if the one before it is a backslash that is not.
LEMMA EscapedValue ==
  ASSUME NEW S0, NEW s \in Seq(S0), NEW p \in 1 .. Len(s)
  PROVE  /\ S!Escaped(s)[p] <=> p > 1 /\ s[p - 1] = "\\" /\ ~ S!Escaped(s)[p - 1]
         /\ S!Escaped(s)[p] \in BOOLEAN
<1> DEFINE e == CHOOSE e : Escapes(e, s, Len(s))
<1>1. Escapes(e, s, Len(s))
  BY EscapesExist
<1>2. S!Escaped(s) = e
  BY DEF S!Escaped, Escapes
<1> HIDE DEF e
<1>3. e[p] = (p > 1 /\ s[p - 1] = "\\" /\ ~ e[p - 1])
  BY <1>1 DEF Escapes
<1> QED
  BY <1>2, <1>3

-----------------------------------------------------------------------------
(* Counting the positions in a set up to one of them.                       *)

\* The members of a set of positions up to n, and their number.
UpTo(A, n) == {p \in A : p <= n}

\* And their number.
Count(A, n) == Cardinality(UpTo(A, n))

\* The positions up to one of them are finitely many, and their number a number.
LEMMA CountType ==
  ASSUME NEW A, \A a \in A : a \in Nat /\ a > 0, NEW n \in Nat
  PROVE  IsFiniteSet(UpTo(A, n)) /\ Count(A, n) \in Nat
<1>1. UpTo(A, n) \subseteq 1 .. n
  BY DEF UpTo
<1>2. IsFiniteSet(1 .. n)
  BY FS_Interval
<1>3. IsFiniteSet(UpTo(A, n))
  BY <1>1, <1>2, FS_Subset
<1> QED
  BY <1>3, FS_CardinalityType DEF Count

\* No position is 0.
LEMMA CountZero ==
  ASSUME NEW A, \A a \in A : a \in Nat /\ a > 0
  PROVE  Count(A, 0) = 0
<1>1. UpTo(A, 0) = {}
  BY DEF UpTo
<1> QED
  BY <1>1, FS_EmptySet DEF Count

\* Counting on by one position.
LEMMA CountNext ==
  ASSUME NEW A, \A a \in A : a \in Nat /\ a > 0, NEW n \in Nat
  PROVE  Count(A, n + 1) = Count(A, n) + (IF n + 1 \in A THEN 1 ELSE 0)
<1>1. IsFiniteSet(UpTo(A, n)) /\ Count(A, n) \in Nat /\ n + 1 \notin UpTo(A, n)
  BY CountType DEF UpTo
<1>2. CASE n + 1 \in A
  <2>1. UpTo(A, n + 1) = UpTo(A, n) \cup {n + 1}
    BY <1>2 DEF UpTo
  <2>2. Cardinality(UpTo(A, n) \cup {n + 1}) = Cardinality(UpTo(A, n)) + 1
    BY <1>1, FS_AddElement
  <2> QED
    BY <1>2, <2>1, <2>2 DEF Count
<1>3. CASE n + 1 \notin A
  <2>1. UpTo(A, n + 1) = UpTo(A, n)
    BY <1>3 DEF UpTo
  <2> QED
    BY <1>1, <1>3, <2>1 DEF Count
<1> QED
  BY <1>2, <1>3

\* A count never goes down, and goes up over a member.
LEMMA CountMore ==
  ASSUME NEW A, \A a \in A : a \in Nat /\ a > 0, NEW m \in Nat, NEW n \in Nat, m <= n
  PROVE  /\ Count(A, m) <= Count(A, n)
         /\ m < n /\ n \in A => Count(A, m) < Count(A, n)
<1>1. UpTo(A, m) \subseteq UpTo(A, n)
  BY DEF UpTo
<1>2. IsFiniteSet(UpTo(A, m)) /\ IsFiniteSet(UpTo(A, n)) /\ Count(A, m) \in Nat /\ Count(A, n) \in Nat
  BY CountType
<1>3. Count(A, m) <= Count(A, n)
  BY <1>1, <1>2, FS_Subset DEF Count
<1>4. ASSUME m < n, n \in A PROVE Count(A, m) < Count(A, n)
  <2>1. n \in UpTo(A, n) /\ n \notin UpTo(A, m)
    BY <1>4 DEF UpTo
  <2>2. UpTo(A, m) # UpTo(A, n)
    BY <2>1
  <2> QED
    BY <1>1, <1>2, <1>3, <2>2, FS_Subset DEF Count
<1> QED
  BY <1>3, <1>4

\* Up to the last position, all are counted.
LEMMA CountAll ==
  ASSUME NEW n \in Nat, NEW A, \A a \in A : a \in 1 .. n
  PROVE  Count(A, n) = Cardinality(A) /\ Cardinality(A) \in Nat /\ IsFiniteSet(A)
<1>1. UpTo(A, n) = A /\ \A a \in A : a \in Nat /\ a > 0
  BY DEF UpTo
<1> QED
  BY <1>1, CountType DEF Count

-----------------------------------------------------------------------------
(* The references of a string among what the second sweep takes for them.   *)

\* The splitters that are references: the character is not escaped.
References(s) == {p \in Splitters(s) : ~ S!Escaped(s)[p]}

\* What may stand in a string.
Chars == STRING \ {Nul, Junk}

\* Position n is between two items of the string.
Boundary(s, n) == n \in 0 .. Len(s) /\ (n < Len(s) => ~ S!Escaped(s)[n + 1])

\* A backslash at p has no meaning.
Bad(s, p) ==
  s[p] = "\\" /\ ~ S!Escaped(s)[p] /\ (p = Len(s) \/ s[p + 1] \notin S!Escapable)

\* The characters with a role are different ones.
LEMMA Characters ==
  /\ "\\" \notin S!Digits /\ "&" \notin S!Digits /\ Nul \notin S!Escapable /\ "\\" # "&"
  /\ S!Digits \subseteq S!Escapable /\ Nul # "\\" /\ Nul # "&"
BY DEF S!Digits, S!GroupOf, S!Escapable, Nul

\* The splitters and the references of a string are positions in it.
LEMMA SplittersType ==
  ASSUME NEW s \in Seq(Chars)
  PROVE  /\ \A p \in Splitters(s) : p \in 1 .. Len(s) /\ p \in Nat /\ p > 0
         /\ \A p \in References(s) : p \in 1 .. Len(s) /\ p \in Nat /\ p > 0
         /\ References(s) \subseteq Splitters(s) /\ Len(s) \in Nat
BY DEF Splitters, References

\* There are as many splitters as references just if no splitter is escaped.
LEMMA OversplitCounts ==
  ASSUME NEW s \in Seq(Chars)
  PROVE  /\ Oversplit(s) <=> Splitters(s) # References(s)
         /\ Cardinality(References(s)) \in Nat /\ Cardinality(Splitters(s)) \in Nat
         /\ Cardinality(References(s)) <= Cardinality(Splitters(s))
         /\ Cardinality(References(s)) = Cardinality(Splitters(s))
              => References(s) = Splitters(s)
<1>1. Oversplit(s) <=> Splitters(s) # References(s)
  BY DEF Oversplit, Splitters, References
<1>2. IsFiniteSet(Splitters(s)) /\ IsFiniteSet(References(s))
      /\ Cardinality(References(s)) \in Nat /\ Cardinality(Splitters(s)) \in Nat
  BY SplittersType, CountAll
<1> QED
  BY <1>1, <1>2, SplittersType, FS_Subset

\* What the sweeps see at a position.
LEMMA Sees ==
  ASSUME string \in Seq(Chars), NEW p \in 0 .. Len(string)
  PROVE  /\ At(p) = Nul <=> p = Len(string)
         /\ p < Len(string) => At(p) = string[p + 1] /\ p + 1 \in 1 .. Len(string)
         /\ At(p) = "&" \/ IsReference(p) <=> p + 1 \in Splitters(string)
         /\ IsReference(p) => p + 2 \in 1 .. Len(string) /\ string[p + 2] \in S!Digits
         /\ IsReference(p) => p < Len(string) /\ string[p + 1] = "\\"
         /\ p + 2 <= Len(string) => At(p + 1) = string[p + 2]
         /\ p + 2 > Len(string) => At(p + 1) = Nul
<1>1. Len(string) \in Nat /\ \A q \in 1 .. Len(string) : string[q] \in Chars
  OBVIOUS
<1>2. At(p) = Nul <=> p = Len(string)
  BY <1>1 DEF At, Chars
<1>3. p < Len(string) => At(p) = string[p + 1] /\ p + 1 \in 1 .. Len(string)
  BY <1>1 DEF At
<1>4. /\ p + 2 <= Len(string) => At(p + 1) = string[p + 2]
      /\ p + 2 > Len(string) => At(p + 1) = Nul
  <2>1. (p + 1) + 1 = p + 2 /\ (p + 1 < Len(string) <=> p + 2 <= Len(string))
    BY <1>1
  <2> QED
    BY <2>1 DEF At
<1>5. IsReference(p) => /\ p < Len(string) /\ string[p + 1] = "\\"
                        /\ p + 2 \in 1 .. Len(string) /\ string[p + 2] \in S!Digits
  <2> SUFFICES ASSUME IsReference(p)
               PROVE  /\ p < Len(string) /\ string[p + 1] = "\\"
                      /\ p + 2 \in 1 .. Len(string) /\ string[p + 2] \in S!Digits
    OBVIOUS
  <2>1. At(p) = "\\" /\ At(p + 1) \in S!Digits
    BY DEF IsReference
  <2>2. p # Len(string)
    BY <1>2, <2>1, Characters
  <2>3. p + 2 <= Len(string)
    BY <1>1, <1>4, <2>1, Characters
  <2> QED
    BY <1>1, <1>3, <1>4, <2>1, <2>2, <2>3
<1>6. At(p) = "&" \/ IsReference(p) <=> p + 1 \in Splitters(string)
  <2>1. CASE p = Len(string)
    BY <1>1, <1>2, <1>5, <2>1, Characters DEF Splitters
  <2>2. CASE p < Len(string)
    <3>1. (p + 1) + 1 = p + 2 /\ (p + 1 < Len(string) <=> p + 2 <= Len(string))
      BY <1>1
    <3>2. p + 1 \in Splitters(string) <=>
            \/ string[p + 1] = "&"
            \/ string[p + 1] = "\\" /\ p + 2 <= Len(string) /\ string[p + 2] \in S!Digits
      BY <1>3, <2>2, <3>1 DEF Splitters
    <3> QED
      BY <1>1, <1>3, <1>4, <1>5, <2>2, <3>2 DEF IsReference
  <2> QED
    BY <1>1, <2>1, <2>2
<1> QED
  BY <1>2, <1>3, <1>4, <1>5, <1>6

-----------------------------------------------------------------------------
(* The three sweeps.                                                        *)

\* Where the text behind the splitter p begins, and part k, and where it ends.
Behind(s, p) == IF s[p] = "&" THEN p ELSE p + 1

\* Where part k begins.
Begins(s, k, b) ==
  \/ k = 0 /\ b = 0
  \/ \E p \in Splitters(s) : Count(Splitters(s), p) = k /\ b = Behind(s, p)

\* Where part k ends.
EndsAt(s, k, e) ==
  e \in 0 .. Len(s) /\ Count(Splitters(s), e) = k /\ (e = Len(s) \/ e + 1 \in Splitters(s))

\* The block of part k has room for the text of the part as it is in the string.
Allocated(k) ==
  \E b, e \in 0 .. Len(string) :
    /\ Begins(string, k, b) /\ EndsAt(string, k, e) /\ b <= e
    /\ part_len[k] = e - b /\ DOMAIN part[k] = 0 .. (e - b)

\* The inductive invariant, by sweep.
Types ==
  /\ input \in Inputs
  /\ next \in 0 .. Len(string) /\ nsub \in Nat /\ i \in Nat /\ j \in Nat /\ len \in Nat

\* Up to its position the first sweep has counted the references and met no escape
\* without a meaning.
InCount ==
  /\ pc \in {"pattern", "string"} => next = 0 /\ nsub = 0
  /\ pc = "count" =>
       /\ Boundary(string, next) /\ nsub = Count(References(string), next)
       /\ \A p \in 1 .. next : ~ Bad(string, p)

\* Behind the first sweep the references have all been counted, and the arrays
\* have been made for them.
Counted == pc \in {"arrays", "measure", "extract", "undefined"} \/ Extracted

\* While the arrays are there, and from then on.
InArrays ==
  /\ Counted => /\ nsub = Cardinality(References(string))
                /\ \A p \in 1 .. Len(string) : ~ Bad(string, p)
  /\ Counted /\ pc # "arrays" =>
       DOMAIN part = 0 .. nsub /\ DOMAIN part_len = 0 .. nsub /\ DOMAIN sub = 0 .. (nsub - 1)

\* The second sweep has seen i splitters, and is not between a backslash and its digit.
InMeasure ==
  /\ pc = "measure" =>
       /\ i = Count(Splitters(string), next) /\ len <= next /\ Begins(string, i, next - len)
       /\ next \in Splitters(string) => string[next] = "&"
       /\ \A k \in 0 .. (i - 1) : Allocated(k)
  /\ pc = "undefined" => Cardinality(Splitters(string)) > nsub

\* The third sweep finds the same splitters.
InExtract ==
  /\ pc = "extract" \/ Extracted =>
       /\ Splitters(string) = References(string)
       /\ \A k \in 0 .. nsub : Allocated(k)
  /\ pc = "extract" =>
       /\ Boundary(string, next) /\ i = Count(Splitters(string), next)
       /\ \E b \in 0 .. next : Begins(string, i, b) /\ j <= next - b

\* The inductive invariant.
ParseInv == Types /\ InCount /\ InArrays /\ InMeasure /\ InExtract

\* What the assumption on the inputs says of the string.
LEMMA InputType ==
  ASSUME input \in Inputs
  PROVE  /\ string \in Seq(Chars) /\ Len(string) \in Nat /\ input.fixed \in BOOLEAN
         /\ \A p \in 1 .. Len(string) : string[p] \in Chars
         /\ \A p \in 1 .. Len(string) : S!Escaped(string)[p] \in BOOLEAN
<1>1. string \in Seq(Chars)
  BY InputAssumption DEF Chars, string
<1>2. input.fixed \in BOOLEAN
  BY InputAssumption
<1>3. Len(string) \in Nat /\ \A p \in 1 .. Len(string) : string[p] \in Chars
  BY <1>1
<1>4. \A p \in 1 .. Len(string) : S!Escaped(string)[p] \in BOOLEAN
  BY <1>1, EscapedValue
<1> QED
  BY <1>1, <1>2, <1>3, <1>4

\* Going over one item from a boundary leads to the next boundary.
LEMMA Steps ==
  ASSUME string \in Seq(Chars), Boundary(string, next), At(next) # Nul
  PROVE  /\ next < Len(string) /\ next + 1 \in 0 .. Len(string)
         /\ At(next) # "\\" => /\ Boundary(string, next + 1) /\ ~ Bad(string, next + 1)
                               /\ At(next) = "&" <=> next + 1 \in References(string)
                               /\ ~ IsReference(next)
         /\ At(next) = "\\" =>
              /\ At(next + 1) \notin S!Escapable <=> Bad(string, next + 1)
              /\ At(next + 1) \in S!Escapable =>
                   /\ next + 2 \in 0 .. Len(string) /\ Boundary(string, next + 2)
                   /\ At(next + 1) = string[next + 2] /\ ~ Bad(string, next + 2)
                   /\ next + 2 \notin References(string)
                   /\ IsReference(next) <=> next + 1 \in References(string)
<1>a. /\ next \in 0 .. Len(string) /\ Len(string) \in Nat /\ next # Len(string)
      /\ At(next) = string[next + 1] /\ ~ S!Escaped(string)[next + 1]
      /\ next + 1 \in 1 .. Len(string)
  BY Sees DEF Boundary
<1>b. next + 1 \in References(string) <=> At(next) = "&" \/ IsReference(next)
  BY <1>a, Sees DEF References
<1>1. ASSUME At(next) # "\\"
      PROVE  /\ Boundary(string, next + 1) /\ ~ Bad(string, next + 1)
             /\ At(next) = "&" <=> next + 1 \in References(string)
             /\ ~ IsReference(next)
  <2>1. ASSUME next + 1 < Len(string) PROVE ~ S!Escaped(string)[next + 2]
    <3>1. next + 2 \in 1 .. Len(string) /\ (next + 2) - 1 = next + 1
      BY <1>a, <2>1
    <3>2. string[next + 1] # "\\"
      BY <1>a, <1>1
    <3> QED
      BY <3>1, <3>2, EscapedValue
  <2>2. Boundary(string, next + 1)
    BY <1>a, <2>1 DEF Boundary
  <2>3. ~ Bad(string, next + 1)
    BY <1>a, <1>1 DEF Bad
  <2>4. ~ IsReference(next)
    BY <1>1 DEF IsReference
  <2> QED
    BY <1>b, <2>2, <2>3, <2>4
<1>2. ASSUME At(next) = "\\"
      PROVE  At(next + 1) \notin S!Escapable <=> Bad(string, next + 1)
  <2>1. string[next + 1] = "\\"
    BY <1>a, <1>2
  <2>2. CASE next + 2 <= Len(string)
    <3>1. At(next + 1) = string[next + 2] /\ next + 1 # Len(string)
      BY <1>a, <2>2, Sees
    <3>2. (next + 1) + 1 = next + 2
      BY <1>a
    <3> QED
      BY <1>a, <2>1, <3>1, <3>2 DEF Bad
  <2>3. CASE ~ (next + 2 <= Len(string))
    <3>1. At(next + 1) = Nul /\ next + 1 = Len(string)
      BY <1>a, <2>3, Sees
    <3> QED
      BY <1>a, <2>1, <3>1, Characters DEF Bad
  <2> QED
    BY <2>2, <2>3
<1>3. ASSUME At(next) = "\\", At(next + 1) \in S!Escapable
      PROVE  /\ next + 2 \in 0 .. Len(string) /\ Boundary(string, next + 2)
             /\ At(next + 1) = string[next + 2] /\ ~ Bad(string, next + 2)
             /\ next + 2 \notin References(string)
             /\ IsReference(next) <=> next + 1 \in References(string)
  <2>1. At(next + 1) # Nul
    BY <1>3, Characters
  <2>2. next + 2 <= Len(string) /\ At(next + 1) = string[next + 2]
    BY <1>a, <2>1, Sees
  <2>3. S!Escaped(string)[next + 2]
    <3> DEFINE q == next + 2
    <3>1. q \in 1 .. Len(string) /\ q - 1 = next + 1 /\ q > 1
      BY <1>a, <2>2
    <3>2. string[next + 1] = "\\"
      BY <1>a, <1>3
    <3> HIDE DEF q
    <3>3. S!Escaped(string)[q]
      BY <1>a, <3>1, <3>2, EscapedValue
    <3> QED
      BY <3>3 DEF q
  <2>4. ASSUME next + 2 < Len(string) PROVE ~ S!Escaped(string)[(next + 2) + 1]
    <3> DEFINE q == (next + 2) + 1
    <3>1. q \in 1 .. Len(string) /\ q - 1 = next + 2
      BY <1>a, <2>4
    <3> HIDE DEF q
    <3>2. ~ S!Escaped(string)[q]
      BY <2>3, <3>1, EscapedValue
    <3> QED
      BY <3>2 DEF q
  <2>5. Boundary(string, next + 2)
    BY <1>a, <2>2, <2>4 DEF Boundary
  <2>6. ~ Bad(string, next + 2) /\ next + 2 \notin References(string)
    BY <2>3 DEF Bad, References
  <2>7. At(next) # "&"
    BY <1>3, Characters
  <2> QED
    BY <1>a, <1>b, <2>2, <2>5, <2>6, <2>7
<1> QED
  BY <1>a, <1>1, <1>2, <1>3

\* The invariant holds when main calls parse_pattern.
LEMMA ParseInvInit == ParseInit => ParseInv
<1> SUFFICES ASSUME ParseInit PROVE ParseInv
  OBVIOUS
<1>1. Len(string) \in Nat
  BY InputType DEF ParseInit
<1> QED
  BY <1>1 DEF ParseInit, ParseInv, Types, InCount, InArrays, InMeasure, InExtract,
     Counted, Extracted

\* A position where the second sweep splits.
LEMMA SplitsAt ==
  ASSUME string \in Seq(Chars), NEW p \in 0 .. Len(string)
  PROVE  /\ Splits(p) <=> p = Len(string) \/ p + 1 \in Splitters(string)
         /\ p + 1 \in Splitters(string) =>
              p < Len(string) /\ (At(p) = "&" <=> string[p + 1] = "&")
              /\ (At(p) = "\\" <=> string[p + 1] = "\\") /\ (At(p) = "&" \/ At(p) = "\\")
BY Sees DEF Splits, Splitters

\* Part k begins in one place only, and ends behind every position in it.
LEMMA BeginsOnce ==
  ASSUME NEW s \in Seq(Chars), NEW k, NEW b, NEW c, Begins(s, k, b), Begins(s, k, c)
  PROVE  b = c
<1> DEFINE A == Splitters(s)
<1>1. \A p \in A : p \in Nat /\ p > 0
  BY SplittersType
<1>2. Count(A, 0) = 0
  BY <1>1, CountZero
<1> HIDE DEF A
<1>3. ASSUME NEW p \in A PROVE Count(A, p) # 0
  <2>1. p \in Nat /\ 0 \in Nat /\ 0 <= p /\ 0 < p
    BY <1>1
  <2>2. Count(A, 0) < Count(A, p)
    BY <1>1, <2>1, CountMore
  <2> QED
    BY <1>2, <2>2
<1>4. ASSUME NEW p \in A, NEW q \in A, Count(A, p) = Count(A, q) PROVE p = q
  <2>1. p \in Nat /\ q \in Nat /\ Count(A, p) \in Nat
    BY <1>1, CountType
  <2>2. ASSUME p < q PROVE FALSE
    <3>1. p <= q
      BY <2>1, <2>2
    <3>2. Count(A, p) < Count(A, q)
      BY <1>1, <2>1, <2>2, <3>1, CountMore
    <3> QED
      BY <1>4, <2>1, <3>2
  <2>3. ASSUME q < p PROVE FALSE
    <3>1. q <= p
      BY <2>1, <2>3
    <3>2. Count(A, q) < Count(A, p)
      BY <1>1, <2>1, <2>3, <3>1, CountMore
    <3> QED
      BY <1>4, <2>1, <3>2
  <2> QED
    BY <2>1, <2>2, <2>3
<1> QED
  BY <1>3, <1>4 DEF Begins, A

\* The splitter that ends a part is behind the splitters counted before it.
LEMMA EndsBehind ==
  ASSUME NEW s \in Seq(Chars), NEW n \in 0 .. Len(s), NEW e,
         EndsAt(s, Count(Splitters(s), n), e)
  PROVE  n <= e
<1> DEFINE A == Splitters(s)
<1>1. \A p \in A : p \in Nat /\ p > 0
  BY SplittersType
<1>2. Len(s) \in Nat /\ e \in 0 .. Len(s) /\ Count(A, e) = Count(A, n)
      /\ (e = Len(s) \/ e + 1 \in A)
  BY DEF EndsAt
<1> HIDE DEF A
<1>3. SUFFICES ASSUME e + 1 \in A, e + 1 <= n PROVE FALSE
  BY <1>2
<1>4. Count(A, e + 1) = Count(A, e) + 1 /\ Count(A, e) \in Nat
  BY <1>1, <1>2, <1>3, CountNext, CountType
<1>5. e + 1 \in Nat /\ n \in Nat
  BY <1>2
<1>6. Count(A, e + 1) <= Count(A, n)
  BY <1>1, <1>3, <1>5, CountMore
<1> QED
  BY <1>2, <1>4, <1>6

\* Counting goes on by one or two positions.
LEMMA CountOn ==
  ASSUME NEW s \in Seq(Chars), NEW A, A = Splitters(s) \/ A = References(s), NEW n \in Nat
  PROVE  /\ Count(A, n) \in Nat /\ Count(A, 0) = 0
         /\ Count(A, n + 1) = Count(A, n) + (IF n + 1 \in A THEN 1 ELSE 0)
         /\ n + 2 \notin A =>
              Count(A, n + 2) = Count(A, n) + (IF n + 1 \in A THEN 1 ELSE 0)
         /\ Count(A, Len(s)) = Cardinality(A) /\ Cardinality(A) \in Nat
         /\ n <= Len(s) => Count(A, n) <= Cardinality(A)
<1>1. /\ \A p \in A : p \in Nat /\ p > 0
      /\ \A p \in A : p \in 1 .. Len(s)
      /\ Len(s) \in Nat
  BY SplittersType
<1>2. Count(A, n) \in Nat /\ Count(A, 0) = 0
      /\ Count(A, n + 1) = Count(A, n) + (IF n + 1 \in A THEN 1 ELSE 0)
  BY <1>1, CountType, CountZero, CountNext
<1>3. Count(A, (n + 1) + 1) = Count(A, n + 1) + (IF (n + 1) + 1 \in A THEN 1 ELSE 0)
  <2>1. n + 1 \in Nat
    OBVIOUS
  <2> QED
    BY <1>1, <2>1, CountNext
<1>4. (n + 1) + 1 = n + 2
  OBVIOUS
<1>5. Count(A, Len(s)) = Cardinality(A) /\ Cardinality(A) \in Nat
  BY <1>1, CountAll
<1>6. n <= Len(s) => Count(A, n) <= Cardinality(A)
  BY <1>1, <1>5, CountMore
<1>7. n + 2 \notin A => Count(A, n + 2) = Count(A, n) + (IF n + 1 \in A THEN 1 ELSE 0)
  BY <1>2, <1>3, <1>4
<1> QED
  BY <1>2, <1>5, <1>6, <1>7

\* What the string says does not change, nor what the blocks measure.
LEMMA Kept ==
  ASSUME input' = input
  PROVE  /\ string' = string
         /\ \A k : Allocated(k) /\ part_len'[k] = part_len[k] /\ DOMAIN part'[k] = DOMAIN part[k]
                     => Allocated(k)'
<1>1. string' = string
  BY DEF string
<1> QED
  BY <1>1 DEF Allocated

\* A step after which the parsing has failed, or not begun.
LEMMA StepAside ==
  ASSUME ParseInv, UNCHANGED <<input, replacement, locals>>,
         \/ pc' \in {"string", "failed"} /\ (pc' = "string" => pc = "pattern")
         \/ pc' = "parsed" /\ input.fixed
  PROVE  ParseInv'
<1>1. string' = string /\ input' = input /\ next' = next /\ nsub' = nsub
      /\ i' = i /\ j' = j /\ len' = len
  BY Kept DEF replacement, locals
<1>2. Types'
  BY <1>1 DEF ParseInv, Types
<1>3. InCount'
  BY <1>1 DEF ParseInv, InCount
<1>4. ~ Counted' /\ ~ Extracted' /\ pc' \notin {"measure", "undefined", "extract"}
  BY <1>1 DEF Counted, Extracted
<1>5. InArrays'
  BY <1>4 DEF InArrays
<1>6. InMeasure' /\ InExtract'
  BY <1>4 DEF InMeasure, InExtract
<1> QED
  BY <1>2, <1>3, <1>5, <1>6 DEF ParseInv

\* The copy of the string, and the decision for -F.
LEMMA CopyStep ==
  ASSUME ParseInv, CopyString
  PROVE  ParseInv'
<1>1. CASE input.fixed
  BY <1>1, StepAside DEF CopyString
<1>2. CASE ~ input.fixed
  <2>1. /\ string' = string /\ input' = input /\ next' = next /\ nsub' = nsub
        /\ i' = i /\ j' = j /\ len' = len /\ pc' = "count" /\ next = 0 /\ nsub = 0
    BY <1>2, Kept DEF CopyString, replacement, locals, ParseInv, InCount
  <2>2. Types'
    BY <2>1 DEF ParseInv, Types
  <2>3. string \in Seq(Chars) /\ Len(string) \in Nat
    BY InputType DEF ParseInv, Types
  <2>4. Boundary(string, 0)
    <3>1. 0 < Len(string) => 1 \in 1 .. Len(string)
      BY <2>3
    <3>2. 0 < Len(string) => ~ S!Escaped(string)[1]
      BY <2>3, <3>1, EscapedValue
    <3> QED
      BY <2>3, <3>2 DEF Boundary
  <2>5. Count(References(string), 0) = 0
    BY <2>3, CountOn
  <2>6. InCount'
    BY <2>1, <2>4, <2>5 DEF InCount
  <2>7. ~ Counted' /\ ~ Extracted'
    BY <2>1 DEF Counted, Extracted
  <2>8. InArrays' /\ InMeasure' /\ InExtract'
    BY <2>1, <2>7 DEF InArrays, InMeasure, InExtract
  <2> QED
    BY <2>2, <2>6, <2>8 DEF ParseInv
<1> QED
  BY <1>1, <1>2

\* How the number of references behind the position goes on.
LEMMA ReferencesOn ==
  ASSUME string \in Seq(Chars), next \in 0 .. Len(string)
  PROVE  /\ Count(References(string), next) \in Nat
         /\ next = Len(string) =>
              Count(References(string), next) = Cardinality(References(string))
         /\ Count(References(string), next + 1) =
              Count(References(string), next) + (IF next + 1 \in References(string) THEN 1 ELSE 0)
         /\ next + 2 \notin References(string) => Count(References(string), next + 2) =
              Count(References(string), next) + (IF next + 1 \in References(string) THEN 1 ELSE 0)
<1>1. next \in Nat
  OBVIOUS
<1> QED
  BY <1>1, CountOn

\* A turn of the first sweep.
LEMMA CountOneStep ==
  ASSUME ParseInv, CountOne
  PROVE  ParseInv'
<1>1. /\ string' = string /\ input' = input /\ i' = i /\ j' = j /\ len' = len
      /\ pc' = "count" /\ pc = "count" /\ At(next) # Nul
  BY Kept DEF CountOne
<1>2. /\ string \in Seq(Chars) /\ Len(string) \in Nat
      /\ Boundary(string, next) /\ nsub = Count(References(string), next)
      /\ \A p \in 1 .. next : ~ Bad(string, p)
      /\ next \in 0 .. Len(string)
  BY <1>1, InputType DEF ParseInv, Types, InCount
<1>3. Count(References(string), next) \in Nat
  BY <1>2, ReferencesOn
<1>4. /\ next' \in 0 .. Len(string) /\ Boundary(string, next')
      /\ nsub' = Count(References(string), next') /\ nsub' \in Nat
      /\ \A p \in 1 .. next' : ~ Bad(string, p)
  <2>1. CASE At(next) = "\\"
    <3>1. /\ next' = next + 2 /\ At(next + 1) \in S!Escapable /\ At(next) # "&"
          /\ nsub' = IF IsReference(next) THEN nsub + 1 ELSE nsub
      BY <2>1, Characters DEF CountOne
    <3>2. /\ next + 2 \in 0 .. Len(string) /\ Boundary(string, next + 2)
          /\ ~ Bad(string, next + 2) /\ ~ Bad(string, next + 1)
          /\ next + 2 \notin References(string)
          /\ IsReference(next) <=> next + 1 \in References(string)
      BY <1>1, <1>2, <2>1, <3>1, Steps
    <3>3. Count(References(string), next + 2) =
            Count(References(string), next) + (IF next + 1 \in References(string) THEN 1 ELSE 0)
      BY <1>2, <3>2, ReferencesOn
    <3>4. nsub' = Count(References(string), next + 2) /\ nsub' \in Nat
      BY <1>2, <1>3, <3>1, <3>2, <3>3
    <3>5. \A p \in 1 .. next + 2 : p \in 1 .. next \/ p = next + 1 \/ p = next + 2
      BY <1>2
    <3>6. \A p \in 1 .. next + 2 : ~ Bad(string, p)
      BY <1>2, <3>2, <3>5
    <3> QED
      BY <3>1, <3>2, <3>4, <3>6
  <2>2. CASE At(next) # "\\"
    <3>0. ~ IsReference(next)
      BY <2>2 DEF IsReference
    <3>1. /\ next' = next + 1
          /\ nsub' = IF At(next) = "&" THEN nsub + 1 ELSE nsub
      BY <2>2, <3>0 DEF CountOne
    <3>2. /\ next + 1 \in 0 .. Len(string) /\ Boundary(string, next + 1)
          /\ ~ Bad(string, next + 1)
          /\ At(next) = "&" <=> next + 1 \in References(string)
      BY <1>1, <1>2, <2>2, Steps
    <3>3. Count(References(string), next + 1) =
            Count(References(string), next) + (IF next + 1 \in References(string) THEN 1 ELSE 0)
      BY <1>2, ReferencesOn
    <3>4. nsub' = Count(References(string), next + 1) /\ nsub' \in Nat
      BY <1>2, <1>3, <3>1, <3>2, <3>3
    <3>5. \A p \in 1 .. next + 1 : p \in 1 .. next \/ p = next + 1
      BY <1>2
    <3>6. \A p \in 1 .. next + 1 : ~ Bad(string, p)
      BY <1>2, <3>2, <3>5
    <3> QED
      BY <3>1, <3>2, <3>4, <3>6
  <2> QED
    BY <2>1, <2>2
<1>5. Types'
  BY <1>1, <1>4 DEF ParseInv, Types
<1>6. InCount'
  BY <1>1, <1>4 DEF InCount
<1>7. ~ Counted' /\ ~ Extracted'
  BY <1>1 DEF Counted, Extracted
<1>8. InArrays' /\ InMeasure' /\ InExtract'
  BY <1>1, <1>7 DEF InArrays, InMeasure, InExtract
<1> QED
  BY <1>5, <1>6, <1>8 DEF ParseInv

\* The first sweep ends at the terminator, with every reference counted.
LEMMA CountEndsStep ==
  ASSUME ParseInv, CountEnds
  PROVE  ParseInv'
<1>1. /\ string' = string /\ input' = input /\ i' = i /\ j' = j /\ len' = len /\ nsub' = nsub
      /\ next' = next /\ pc' = "arrays" /\ pc = "count" /\ At(next) = Nul
  BY Kept DEF CountEnds, replacement, locals
<1>2. /\ string \in Seq(Chars) /\ Len(string) \in Nat /\ next \in 0 .. Len(string)
      /\ nsub = Count(References(string), next)
      /\ \A p \in 1 .. next : ~ Bad(string, p)
  BY <1>1, InputType DEF ParseInv, Types, InCount
<1>3. next = Len(string)
  BY <1>1, <1>2, Sees
<1>4. nsub = Cardinality(References(string))
  BY <1>2, <1>3, ReferencesOn
<1>5. Types'
  BY <1>1 DEF ParseInv, Types
<1>6. InCount' /\ InMeasure'
  BY <1>1 DEF InCount, InMeasure
<1>7. InArrays'
  BY <1>1, <1>2, <1>3, <1>4 DEF InArrays
<1>8. InExtract'
  BY <1>1 DEF InExtract, Extracted
<1> QED
  BY <1>5, <1>6, <1>7, <1>8 DEF ParseInv

\* The arrays get an element for every reference.
LEMMA AllocStep ==
  ASSUME ParseInv, AllocArrays
  PROVE  ParseInv'
<1>1. /\ string' = string /\ input' = input /\ j' = j /\ nsub' = nsub
      /\ next' = 0 /\ len' = 0 /\ i' = 0 /\ pc' = "measure" /\ pc = "arrays"
      /\ DOMAIN part' = 0 .. nsub /\ DOMAIN part_len' = 0 .. nsub /\ DOMAIN sub' = 0 .. (nsub - 1)
  BY Kept DEF AllocArrays
<1>2. /\ string \in Seq(Chars) /\ Len(string) \in Nat
      /\ nsub = Cardinality(References(string))
      /\ \A p \in 1 .. Len(string) : ~ Bad(string, p)
  BY <1>1, InputType DEF ParseInv, Types, InArrays, Counted
<1>3. Count(Splitters(string), 0) = 0 /\ 0 \notin Splitters(string)
  <2>1. 0 \in Nat
    OBVIOUS
  <2>2. Count(Splitters(string), 0) = 0
    BY <1>2, <2>1, CountOn
  <2>3. 0 \notin Splitters(string)
    BY <1>2, SplittersType
  <2> QED
    BY <2>2, <2>3
<1>5. Types'
  BY <1>1, <1>2 DEF ParseInv, Types
<1>6. InCount'
  BY <1>1 DEF InCount
<1>7. InArrays'
  BY <1>1, <1>2 DEF InArrays
<1>8. InExtract'
  BY <1>1 DEF InExtract, Extracted
<1>9. InMeasure'
  <2>1. Begins(string, 0, 0)
    BY DEF Begins
  <2>2. Begins(string, i, next - len)'
    <3>1. next' - len' = 0
      BY <1>1
    <3> QED
      BY <1>1, <2>1, <3>1
  <2>3. (\A k \in 0 .. (i - 1) : Allocated(k))'
    <3>1. 0 .. (i' - 1) = {}
      BY <1>1
    <3> QED
      BY <3>1
  <2>4. (i = Count(Splitters(string), next))' /\ len' <= next'
    BY <1>1, <1>3
  <2> QED
    BY <1>1, <1>3, <2>2, <2>3, <2>4 DEF InMeasure
<1> QED
  BY <1>5, <1>6, <1>7, <1>8, <1>9 DEF ParseInv

\* How the number of splitters behind the position goes on.
LEMMA SplittersOn ==
  ASSUME ParseInv
  PROVE  /\ Count(Splitters(string), next) \in Nat
         /\ Count(Splitters(string), next) <= Cardinality(Splitters(string))
         /\ next = Len(string) => Count(Splitters(string), next) = Cardinality(Splitters(string))
         /\ Cardinality(Splitters(string)) \in Nat
         /\ Count(Splitters(string), next + 1) =
              Count(Splitters(string), next) + (IF next + 1 \in Splitters(string) THEN 1 ELSE 0)
         /\ next + 2 \notin Splitters(string) => Count(Splitters(string), next + 2) =
              Count(Splitters(string), next) + (IF next + 1 \in Splitters(string) THEN 1 ELSE 0)
<1>1. string \in Seq(Chars) /\ next \in Nat /\ Len(string) \in Nat /\ next <= Len(string)
  BY InputType DEF ParseInv, Types
<1> QED
  BY <1>1, CountOn

\* What the invariant says in the second sweep.
LEMMA InSecond ==
  ASSUME ParseInv, pc = "measure"
  PROVE  /\ string \in Seq(Chars) /\ Len(string) \in Nat /\ next \in 0 .. Len(string)
         /\ nsub \in Nat /\ i \in Nat /\ j \in Nat /\ len \in Nat /\ input \in Inputs
         /\ nsub = Cardinality(References(string))
         /\ \A p \in 1 .. Len(string) : ~ Bad(string, p)
         /\ DOMAIN part = 0 .. nsub /\ DOMAIN part_len = 0 .. nsub
         /\ DOMAIN sub = 0 .. (nsub - 1)
         /\ i = Count(Splitters(string), next) /\ len <= next
         /\ Begins(string, i, next - len)
         /\ next \in Splitters(string) => string[next] = "&"
         /\ \A k \in 0 .. (i - 1) : Allocated(k)
BY InputType DEF ParseInv, Types, InArrays, Counted, InMeasure

\* A turn of the second sweep over a character that does not split.
LEMMA MeasureOneStep ==
  ASSUME ParseInv, MeasureOne
  PROVE  ParseInv'
<1>1. /\ string' = string /\ input' = input /\ i' = i /\ j' = j /\ nsub' = nsub
      /\ part' = part /\ part_len' = part_len /\ sub' = sub
      /\ next' = next + 1 /\ len' = len + 1 /\ pc' = "measure" /\ pc = "measure"
      /\ ~ Splits(next)
  BY Kept DEF MeasureOne, replacement
<1> USE <1>1, InSecond
<1>2. next # Len(string) /\ next + 1 \notin Splitters(string)
  BY SplitsAt
<1>3. next + 1 \in 0 .. Len(string) /\ next \in Nat
  BY <1>2
<1>4. Count(Splitters(string), next + 1) = i /\ i \in Nat
  <2>1. Count(Splitters(string), next + 1) =
          Count(Splitters(string), next) + (IF next + 1 \in Splitters(string) THEN 1 ELSE 0)
    BY SplittersOn
  <2> QED
    BY <1>2, <2>1
<1>5. Types'
  BY <1>3 DEF Types
<1>6. InCount'
  BY DEF InCount
<1>7. InArrays'
  BY DEF InArrays
<1>8. InExtract'
  BY DEF InExtract, Extracted
<1>9. InMeasure'
  <2>1. next' - len' = next - len /\ len' <= next'
    BY <1>3
  <2>2. \A k \in 0 .. (i - 1) : Allocated(k)'
    BY Kept
  <2>3. (i = Count(Splitters(string), next))'
    BY <1>4
  <2>4. Begins(string, i, next - len)'
    BY <2>1
  <2>5. (next \notin Splitters(string))'
    BY <1>2
  <2> QED
    BY <2>1, <2>2, <2>3, <2>4, <2>5 DEF InMeasure
<1> QED
  BY <1>5, <1>6, <1>7, <1>8, <1>9 DEF ParseInv

\* The block of the part that ends is allocated, and the others stay.
LEMMA PartAllocated ==
  ASSUME ParseInv, MeasurePart
  PROVE  /\ \A k \in 0 .. i : Allocated(k)'
         /\ DOMAIN part' = 0 .. nsub /\ DOMAIN part_len' = 0 .. nsub
         /\ i \in 0 .. nsub
<1>1. /\ string' = string /\ input' = input /\ pc = "measure" /\ Splits(next)
      /\ i \in DOMAIN part
      /\ part' = [part EXCEPT ![i] = [k \in 0 .. len |-> Junk]]
      /\ part_len' = [part_len EXCEPT ![i] = len]
  BY Kept DEF MeasurePart
<1> USE <1>1, InSecond
<1>2. DOMAIN part' = 0 .. nsub /\ DOMAIN part_len' = 0 .. nsub /\ i \in 0 .. nsub
      /\ part_len'[i] = len /\ DOMAIN part'[i] = 0 .. len
  OBVIOUS
<1>3. ASSUME NEW k, k = i PROVE Allocated(k)'
  <2>1. EndsAt(string, i, next)
    BY SplitsAt DEF EndsAt
  <2>2. /\ next - len \in 0 .. Len(string) /\ next - len <= next
        /\ next - (next - len) = len
    OBVIOUS
  <2>3. \E b, e \in 0 .. Len(string) :
          /\ Begins(string, k, b) /\ EndsAt(string, k, e) /\ b <= e
          /\ part_len'[k] = e - b /\ DOMAIN part'[k] = 0 .. (e - b)
    BY <1>2, <1>3, <2>1, <2>2
  <2>4. string' = string
    OBVIOUS
  <2> QED
    BY ONLY <2>3, <2>4 DEF Allocated
<1>4. ASSUME NEW k \in 0 .. (i - 1) PROVE Allocated(k)'
  <2>1. k # i /\ k \in DOMAIN part /\ k \in DOMAIN part_len
    BY <1>2
  <2>2. part'[k] = part[k] /\ part_len'[k] = part_len[k]
    BY <2>1
  <2>3. Allocated(k) /\ DOMAIN part'[k] = DOMAIN part[k]
    BY <2>2
  <2> QED
    BY <2>2, <2>3, Kept
<1>5. \A k \in 0 .. i : k = i \/ k \in 0 .. (i - 1)
  OBVIOUS
<1> QED
  BY ONLY <1>2, <1>3, <1>4, <1>5

\* At the end of the string the second sweep gives way to the third.
LEMMA MeasureLastStep ==
  ASSUME ParseInv, MeasurePart, At(next) = Nul
  PROVE  ParseInv'
<1>1. /\ string' = string /\ input' = input /\ nsub' = nsub /\ sub' = sub
      /\ len' = 0 /\ pc' = "extract" /\ next' = 0 /\ i' = 0 /\ j' = 0 /\ pc = "measure"
  BY Kept DEF MeasurePart
<1> USE <1>1, InSecond
<1>2. /\ \A k \in 0 .. i : Allocated(k)'
      /\ DOMAIN part' = 0 .. nsub /\ DOMAIN part_len' = 0 .. nsub
      /\ i \in 0 .. nsub
  BY PartAllocated
<1>3. next = Len(string)
  BY Sees
<1>4. i = nsub /\ Splitters(string) = References(string)
  <2>1. i = Cardinality(Splitters(string))
    BY <1>3, SplittersOn
  <2> QED
    BY <1>2, <2>1, OversplitCounts
<1>5. Types'
  BY DEF Types
<1>6. InCount'
  BY DEF InCount
<1>7. InArrays'
  BY <1>2 DEF InArrays
<1>8. InMeasure'
  BY DEF InMeasure
<1>9. InExtract'
  <2>1. Boundary(string, 0)
    <3>1. 0 < Len(string) => 1 \in 1 .. Len(string)
      OBVIOUS
    <3>2. 0 < Len(string) => ~ S!Escaped(string)[1]
      BY <3>1, EscapedValue
    <3> QED
      BY <3>2 DEF Boundary
  <2>2. Count(Splitters(string), 0) = 0
    <3>1. 0 \in Nat
      OBVIOUS
    <3> QED
      BY <3>1, CountOn
  <2>3. Begins(string, 0, 0) /\ 0 \in 0 .. 0 /\ 0 <= 0 - 0
    BY DEF Begins
  <2>4. (\E b \in 0 .. next : Begins(string, i, b) /\ j <= next - b)'
    BY <2>3
  <2>5. (\A k \in 0 .. nsub : Allocated(k))'
    BY <1>2, <1>4
  <2> QED
    BY <1>4, <2>1, <2>2, <2>4, <2>5 DEF InExtract
<1> QED
  BY <1>5, <1>6, <1>7, <1>8, <1>9 DEF ParseInv

\* Behind a splitter the next part begins.
LEMMA MeasureMoreStep ==
  ASSUME ParseInv, MeasurePart, At(next) # Nul
  PROVE  ParseInv'
<1>1. /\ string' = string /\ input' = input /\ nsub' = nsub /\ sub' = sub
      /\ len' = 0 /\ pc' = "measure" /\ pc = "measure" /\ i' = i + 1 /\ j' = j
      /\ next' = IF At(next) = "\\" THEN next + 2 ELSE next + 1
      /\ Splits(next)
  BY Kept DEF MeasurePart
<1> USE <1>1, InSecond
<1>2. /\ \A k \in 0 .. i : Allocated(k)'
      /\ DOMAIN part' = 0 .. nsub /\ DOMAIN part_len' = 0 .. nsub
  BY PartAllocated
<1>3. next # Len(string)
  BY Sees
<1>4. /\ next + 1 \in Splitters(string) /\ next \in Nat /\ next + 1 \in 0 .. Len(string)
      /\ At(next) = "&" <=> string[next + 1] = "&"
      /\ At(next) = "\\" <=> string[next + 1] = "\\"
      /\ At(next) = "&" \/ At(next) = "\\"
  BY <1>3, SplitsAt
<1>5. /\ next' \in 0 .. Len(string) /\ next' \in Nat
      /\ Count(Splitters(string), next') = i + 1
      /\ Begins(string, i + 1, next')
      /\ next' \in Splitters(string) => string[next'] = "&"
  <2>0. Count(Splitters(string), next + 1) = i + 1
    <3>1. Count(Splitters(string), next + 1) =
            Count(Splitters(string), next) + (IF next + 1 \in Splitters(string) THEN 1 ELSE 0)
      BY SplittersOn
    <3> QED
      BY <1>4, <3>1
  <2>1. CASE At(next) = "&"
    <3>1. next' = next + 1 /\ string[next + 1] = "&"
      BY <1>4, <2>1, Characters
    <3>2. Behind(string, next + 1) = next + 1
      BY <3>1 DEF Behind
    <3>3. Begins(string, i + 1, next + 1)
      BY <1>4, <2>0, <3>2 DEF Begins
    <3> QED
      BY <1>4, <2>0, <3>1, <3>3
  <2>2. CASE At(next) = "\\"
    <3>1. /\ next' = next + 2 /\ string[next + 1] = "\\" /\ string[next + 1] # "&"
          /\ (next + 1) + 1 = next + 2
      BY <1>4, <2>2, Characters
    <3>2. next + 1 < Len(string) /\ string[next + 2] \in S!Digits
      BY <1>4, <3>1 DEF Splitters
    <3>3. next + 2 \notin Splitters(string)
      BY <3>2, Characters DEF Splitters
    <3>4. Behind(string, next + 1) = next + 2
      BY <3>1 DEF Behind
    <3>5. Begins(string, i + 1, next + 2)
      BY <1>4, <2>0, <3>4 DEF Begins
    <3>6. Count(Splitters(string), next + 2) = i + 1
      <4>1. Count(Splitters(string), next + 2) =
              Count(Splitters(string), next) + (IF next + 1 \in Splitters(string) THEN 1 ELSE 0)
        BY <3>3, SplittersOn
      <4> QED
        BY <1>4, <4>1
    <3>7. next + 2 \in 0 .. Len(string)
      BY <1>4, <3>2
    <3> QED
      BY <1>4, <3>1, <3>3, <3>5, <3>6, <3>7
  <2> QED
    BY <1>4, <2>1, <2>2
<1>6. Types'
  BY <1>5 DEF Types
<1>7. InCount'
  BY DEF InCount
<1>8. InArrays'
  BY <1>2 DEF InArrays
<1>9. InMeasure'
  <2>0. len' = 0 /\ i' = i + 1 /\ i \in Nat /\ next' \in Nat
    BY <1>5
  <2>1. next' - len' = next' /\ len' <= next' /\ i' - 1 = i
    <3>0. \A n \in Nat : n - 0 = n /\ 0 <= n
      BY ONLY TRUE
    <3>1. next' - 0 = next' /\ 0 <= next'
      BY ONLY <2>0, <3>0, Zenon
    <3>2. (i + 1) - 1 = i
      BY ONLY <2>0
    <3> QED
      BY ONLY <2>0, <3>1, <3>2
  <2>2. Begins(string, i, next - len)'
    BY <1>5, <2>1
  <2>3. (\A k \in 0 .. (i - 1) : Allocated(k))'
    BY <1>2, <2>1
  <2> QED
    BY <1>5, <2>1, <2>2, <2>3 DEF InMeasure
<1>10. InExtract'
  BY DEF InExtract, Extracted
<1> QED
  BY <1>6, <1>7, <1>8, <1>9, <1>10 DEF ParseInv

\* The second sweep leaves the arrays.
LEMMA BeyondStep ==
  ASSUME ParseInv, MeasureBeyond
  PROVE  ParseInv'
<1>1. /\ string' = string /\ input' = input /\ nsub' = nsub /\ sub' = sub /\ part' = part
      /\ part_len' = part_len /\ next' = next /\ i' = i /\ j' = j /\ len' = len
      /\ pc' = "undefined" /\ pc = "measure" /\ i \notin DOMAIN part
  BY Kept DEF MeasureBeyond, replacement, locals
<1> USE <1>1, InSecond
<1>2. Cardinality(Splitters(string)) > nsub
  <2>1. i <= Cardinality(Splitters(string)) /\ Cardinality(Splitters(string)) \in Nat
    BY SplittersOn
  <2>2. i > nsub
    OBVIOUS
  <2> QED
    BY <2>1, <2>2
<1>3. Types'
  BY DEF Types
<1>4. InCount'
  BY DEF InCount
<1>5. InArrays'
  BY DEF InArrays
<1>6. InMeasure'
  BY <1>2 DEF InMeasure
<1>7. InExtract'
  BY DEF InExtract, Extracted
<1> QED
  BY <1>3, <1>4, <1>5, <1>6, <1>7 DEF ParseInv

\* What the invariant says in the third sweep.
LEMMA InThird ==
  ASSUME ParseInv, pc = "extract"
  PROVE  /\ string \in Seq(Chars) /\ Len(string) \in Nat /\ next \in 0 .. Len(string)
         /\ nsub \in Nat /\ i \in Nat /\ j \in Nat /\ len \in Nat /\ input \in Inputs
         /\ nsub = Cardinality(References(string))
         /\ \A p \in 1 .. Len(string) : ~ Bad(string, p)
         /\ DOMAIN part = 0 .. nsub /\ DOMAIN part_len = 0 .. nsub
         /\ DOMAIN sub = 0 .. (nsub - 1)
         /\ Splitters(string) = References(string)
         /\ \A k \in 0 .. nsub : Allocated(k)
         /\ Boundary(string, next) /\ i = Count(Splitters(string), next)
         /\ i \in 0 .. nsub
<1>1. /\ string \in Seq(Chars) /\ Len(string) \in Nat /\ next \in 0 .. Len(string)
      /\ nsub \in Nat /\ i \in Nat /\ j \in Nat /\ len \in Nat /\ input \in Inputs
  BY InputType DEF ParseInv, Types
<1>2. /\ nsub = Cardinality(References(string))
      /\ \A p \in 1 .. Len(string) : ~ Bad(string, p)
      /\ DOMAIN part = 0 .. nsub /\ DOMAIN part_len = 0 .. nsub
      /\ DOMAIN sub = 0 .. (nsub - 1)
  BY DEF ParseInv, InArrays, Counted
<1>3. /\ Splitters(string) = References(string)
      /\ \A k \in 0 .. nsub : Allocated(k)
      /\ Boundary(string, next) /\ i = Count(Splitters(string), next)
  BY DEF ParseInv, InExtract
<1>4. i <= nsub
  <2>1. Count(Splitters(string), next) <= Cardinality(Splitters(string))
    BY SplittersOn
  <2> QED
    BY ONLY <1>2, <1>3, <2>1
<1>5. i \in 0 .. nsub
  BY ONLY <1>1, <1>4
<1> QED
  BY ONLY <1>1, <1>2, <1>3, <1>5

\* In the third sweep a write stays in the block of part i.
LEMMA WriteFits ==
  ASSUME ParseInv, pc = "extract"
  PROVE  /\ i \in DOMAIN part /\ j \in DOMAIN part[i]
         /\ At(next) = "&" \/ IsReference(next) => i \in DOMAIN sub
<1>1. /\ string \in Seq(Chars) /\ Len(string) \in Nat /\ next \in 0 .. Len(string)
      /\ i \in 0 .. nsub /\ j \in Nat /\ DOMAIN part = 0 .. nsub /\ nsub \in Nat
      /\ DOMAIN sub = 0 .. (nsub - 1) /\ nsub = Cardinality(References(string))
      /\ Splitters(string) = References(string) /\ i = Count(Splitters(string), next)
  BY InThird
<1>2. Allocated(i)
  BY InThird
<1>3. PICK b \in 0 .. next : Begins(string, i, b) /\ j <= next - b
  BY DEF ParseInv, InExtract
<1>4. PICK c, e \in 0 .. Len(string) :
        /\ Begins(string, i, c) /\ EndsAt(string, i, e) /\ c <= e
        /\ DOMAIN part[i] = 0 .. (e - c)
  BY <1>2 DEF Allocated
<1>5. b = c
  BY <1>1, <1>3, <1>4, BeginsOnce
<1>6. next <= e
  BY <1>1, <1>4, EndsBehind
<1>7. j \in 0 .. (e - c)
  BY ONLY <1>1, <1>3, <1>4, <1>5, <1>6
<1>8. ASSUME At(next) = "&" \/ IsReference(next) PROVE i \in DOMAIN sub
  <2>1. next + 1 \in Splitters(string) /\ next + 1 <= Len(string)
    BY <1>1, <1>8, Sees, SplittersType
  <2>2. Count(Splitters(string), next + 1) = i + 1
    BY <1>1, <2>1, SplittersOn
  <2>3. Count(Splitters(string), next + 1) <= Cardinality(Splitters(string))
    <3>1. next + 1 \in Nat
      BY <1>1
    <3> QED
      BY <1>1, <2>1, <3>1, CountOn
  <2>4. i + 1 <= nsub
    BY ONLY <1>1, <2>2, <2>3
  <2> QED
    BY ONLY <1>1, <2>4
<1> QED
  BY <1>1, <1>4, <1>7, <1>8

\* A write changes no length.
LEMMA StoreKeeps ==
  ASSUME NEW c, Store(c)
  PROVE  DOMAIN part' = DOMAIN part /\ \A k : DOMAIN part'[k] = DOMAIN part[k]
<1>1. part' = [part EXCEPT ![i] = [part[i] EXCEPT ![j] = c]]
  BY DEF Store
<1> QED
  BY <1>1

\* A turn of the third sweep that writes a character.
LEMMA ExtractCharStep ==
  ASSUME ParseInv, ExtractChar
  PROVE  ParseInv'
<1>1. /\ string' = string /\ input' = input /\ nsub' = nsub /\ sub' = sub /\ i' = i
      /\ len' = len /\ part_len' = part_len /\ j' = j + 1 /\ pc' = "extract" /\ pc = "extract"
      /\ At(next) \notin {Nul, "&"} /\ ~ IsReference(next)
  BY Kept DEF ExtractChar
<1>2. DOMAIN part' = DOMAIN part /\ \A k : DOMAIN part'[k] = DOMAIN part[k]
  BY StoreKeeps DEF ExtractChar
<1>3. /\ string \in Seq(Chars) /\ Len(string) \in Nat /\ next \in 0 .. Len(string)
      /\ nsub \in Nat /\ i \in Nat /\ j \in Nat /\ len \in Nat /\ input \in Inputs
      /\ Splitters(string) = References(string) /\ Boundary(string, next)
      /\ i = Count(Splitters(string), next)
  BY <1>1, InThird
<1>4. /\ next' \in 0 .. Len(string) /\ Boundary(string, next') /\ next < next'
      /\ Count(Splitters(string), next') = i
  <2>1. next + 1 \notin Splitters(string) /\ next + 1 \in 1 .. Len(string)
    BY <1>1, <1>3, Sees
  <2>2. CASE At(next) = "\\"
    <3>1. next' = next + 2
      BY <2>2 DEF ExtractChar
    <3>2. At(next + 1) \in S!Escapable
      BY <1>1, <1>3, <2>1, <2>2, InThird, Steps
    <3>3. next + 2 \in 0 .. Len(string) /\ Boundary(string, next + 2)
          /\ next + 2 \notin References(string)
      BY <1>1, <1>3, <2>2, <3>2, Steps
    <3>4. Count(Splitters(string), next + 2) = Count(Splitters(string), next) + 0
      BY <1>3, <2>1, <3>3, SplittersOn
    <3>5. next < next + 2
      BY <1>3
    <3> QED
      BY <1>3, <3>1, <3>3, <3>4, <3>5
  <2>3. CASE At(next) # "\\"
    <3>1. next' = next + 1
      BY <2>3 DEF ExtractChar
    <3>2. next + 1 \in 0 .. Len(string) /\ Boundary(string, next + 1)
      BY <1>1, <1>3, <2>3, Steps
    <3>3. Count(Splitters(string), next + 1) = Count(Splitters(string), next) + 0
      BY <2>1, SplittersOn
    <3>4. next < next + 1
      BY <1>3
    <3> QED
      BY <1>3, <3>1, <3>2, <3>3, <3>4
  <2> QED
    BY <2>2, <2>3
<1>5. Types'
  BY <1>1, <1>3, <1>4 DEF Types
<1>6. InCount' /\ InMeasure'
  BY <1>1 DEF InCount, InMeasure
<1>7. InArrays'
  BY <1>1, <1>2, InThird DEF InArrays
<1>8. InExtract'
  <2>1. \A k \in 0 .. nsub : Allocated(k)'
    BY <1>1, <1>2, InThird, Kept
  <2>2. PICK b \in 0 .. next : Begins(string, i, b) /\ j <= next - b
    BY <1>1 DEF ParseInv, InExtract
  <2>2a. \A n, m, c, k \in Nat : c <= m /\ m < n /\ k <= m - c => c \in 0 .. n /\ k + 1 <= n - c
    BY ONLY TRUE
  <2>2b. next \in Nat /\ next' \in Nat /\ b \in Nat /\ j \in Nat /\ b <= next
    BY <1>3, <1>4, <2>2
  <2>3. b \in 0 .. next' /\ j + 1 <= next' - b
    BY ONLY <1>4, <2>2, <2>2a, <2>2b, Zenon
  <2>4. (\E c \in 0 .. next : Begins(string, i, c) /\ j <= next - c)'
    BY <1>1, <2>2, <2>3
  <2> QED
    BY <1>1, <1>3, <1>4, <2>1, <2>4 DEF InExtract
<1> QED
  BY <1>5, <1>6, <1>7, <1>8 DEF ParseInv

\* A reference leads over a splitter to the next part.
LEMMA ReferenceOver ==
  ASSUME ParseInv, ExtractReference
  PROVE  /\ next + 1 \in Splitters(string) /\ next + 1 \in 1 .. Len(string)
         /\ next' \in 0 .. Len(string) /\ Boundary(string, next')
         /\ Count(Splitters(string), next') = i + 1 /\ Begins(string, i + 1, next')
<1>a. /\ pc = "extract" /\ (At(next) = "&" \/ IsReference(next))
  BY DEF ExtractReference
<1>b. /\ string \in Seq(Chars) /\ Len(string) \in Nat /\ next \in 0 .. Len(string)
      /\ nsub \in Nat /\ i \in Nat /\ Boundary(string, next)
      /\ i = Count(Splitters(string), next) /\ Splitters(string) = References(string)
  BY <1>a, InThird
<1>1. next + 1 \in Splitters(string) /\ next + 1 \in 1 .. Len(string)
  BY <1>a, <1>b, Sees, SplittersType
<1>2. Count(Splitters(string), next + 1) = i + 1
  BY <1>b, <1>1, SplittersOn
<1>3. At(next) # Nul /\ At(next) = string[next + 1]
  BY <1>b, <1>1, Sees
<1>4. CASE At(next) = "&"
  <2>0. At(next) # "\\"
    BY <1>4, Characters
  <2>1. next' = next + 1
    BY <1>4, <2>0 DEF ExtractReference, IsReference
  <2>2. next + 1 \in 0 .. Len(string) /\ Boundary(string, next + 1)
    BY <1>b, <1>3, <2>0, Steps
  <2>3. Behind(string, next + 1) = next + 1
    BY <1>3, <1>4 DEF Behind
  <2>4. Begins(string, i + 1, next + 1)
    BY <1>1, <1>2, <2>3 DEF Begins
  <2> QED
    BY <1>1, <1>2, <2>1, <2>2, <2>4
<1>5. CASE IsReference(next)
  <2>0. At(next) = "\\" /\ At(next) # "&" /\ At(next + 1) \in S!Escapable
    BY <1>5, Characters DEF IsReference
  <2>1. next' = next + 2
    BY <2>0 DEF ExtractReference
  <2>2. next + 2 \in 0 .. Len(string) /\ Boundary(string, next + 2)
        /\ next + 2 \notin References(string)
    BY <1>b, <1>3, <2>0, Steps
  <2>3. Count(Splitters(string), next + 2) = i + 1
    BY <1>b, <1>1, <2>2, SplittersOn
  <2>4. Behind(string, next + 1) = next + 2
    <3>1. (next + 1) + 1 = next + 2
      BY <1>b
    <3> QED
      BY <1>3, <2>0, <3>1 DEF Behind
  <2>5. Begins(string, i + 1, next + 2)
    BY <1>1, <1>2, <2>4 DEF Begins
  <2> QED
    BY <1>1, <2>1, <2>2, <2>3, <2>5
<1> QED
  BY <1>1, <1>2, <1>a, <1>4, <1>5

\* A turn of the third sweep that ends a part and writes a reference.
LEMMA ExtractReferenceStep ==
  ASSUME ParseInv, ExtractReference
  PROVE  ParseInv'
<1>1. /\ string' = string /\ input' = input /\ nsub' = nsub /\ i' = i + 1 /\ j' = 0
      /\ len' = len /\ part_len' = part_len /\ pc' = "extract" /\ pc = "extract"
      /\ At(next) = "&" \/ IsReference(next)
      /\ DOMAIN sub' = DOMAIN sub
  BY Kept DEF ExtractReference
<1>2. DOMAIN part' = DOMAIN part /\ \A k : DOMAIN part'[k] = DOMAIN part[k]
  BY StoreKeeps DEF ExtractReference
<1>3. /\ string \in Seq(Chars) /\ Len(string) \in Nat /\ next \in 0 .. Len(string)
      /\ nsub \in Nat /\ i \in Nat /\ j \in Nat /\ len \in Nat /\ input \in Inputs
      /\ Splitters(string) = References(string) /\ Boundary(string, next)
      /\ i = Count(Splitters(string), next)
  BY <1>1, InThird
<1>4. /\ next' \in 0 .. Len(string) /\ Boundary(string, next')
      /\ Count(Splitters(string), next') = i + 1 /\ Begins(string, i + 1, next')
  BY ReferenceOver
<1>5. Types'
  BY <1>1, <1>3, <1>4 DEF Types
<1>6. InCount' /\ InMeasure'
  BY <1>1 DEF InCount, InMeasure
<1>7. InArrays'
  BY <1>1, <1>2, InThird DEF InArrays
<1>8. InExtract'
  <2>1. \A k \in 0 .. nsub : Allocated(k)'
    BY <1>1, <1>2, InThird, Kept
  <2>1a. \A n \in Nat : n \in 0 .. n /\ 0 <= n - n
    BY ONLY TRUE
  <2>1b. next' \in Nat
    BY <1>3, <1>4
  <2>2. next' \in 0 .. next' /\ 0 <= next' - next'
    BY ONLY <2>1a, <2>1b, Zenon
  <2>4. (\E c \in 0 .. next : Begins(string, i, c) /\ j <= next - c)'
    BY <1>1, <1>4, <2>2
  <2> QED
    BY <1>1, <1>3, <1>4, <2>1, <2>4 DEF InExtract
<1> QED
  BY <1>5, <1>6, <1>7, <1>8 DEF ParseInv

\* The third sweep ends the last part.
LEMMA ExtractEndsStep ==
  ASSUME ParseInv, ExtractEnds
  PROVE  ParseInv'
<1>1. /\ string' = string /\ input' = input /\ nsub' = nsub /\ sub' = sub /\ i' = i /\ j' = j
      /\ len' = len /\ part_len' = part_len /\ next' = next /\ pc' = "parsed" /\ pc = "extract"
  BY Kept DEF ExtractEnds, locals
<1>2. DOMAIN part' = DOMAIN part /\ \A k : DOMAIN part'[k] = DOMAIN part[k]
  BY StoreKeeps DEF ExtractEnds
<1>3. Types'
  BY <1>1 DEF ParseInv, Types
<1>4. InCount' /\ InMeasure'
  BY <1>1 DEF InCount, InMeasure
<1>5. InArrays'
  BY <1>1, <1>2, InThird DEF InArrays
<1>6. InExtract'
  <2>1. \A k \in 0 .. nsub : Allocated(k)'
    BY <1>1, <1>2, InThird, Kept
  <2>2. Splitters(string) = References(string)
    BY <1>1, InThird
  <2> QED
    BY <1>1, <2>1, <2>2 DEF InExtract
<1> QED
  BY <1>3, <1>4, <1>5, <1>6 DEF ParseInv

\* Every step keeps the invariant.
LEMMA ParseInvStep ==
  ParseInv /\ [ParseNext \/ MallocFails]_parseVars => ParseInv'
<1> SUFFICES ASSUME ParseInv, [ParseNext \/ MallocFails]_parseVars PROVE ParseInv'
  OBVIOUS
<1>1. CASE PatternParsed
  BY <1>1, StepAside DEF PatternParsed
<1>2. CASE PatternFails
  BY <1>2, StepAside DEF PatternFails
<1>3. CASE CopyString
  BY <1>3, CopyStep
<1>4. CASE CountOne
  BY <1>4, CountOneStep
<1>5. CASE UnknownEscape
  BY <1>5, StepAside DEF UnknownEscape
<1>6. CASE CountEnds
  BY <1>6, CountEndsStep
<1>7. CASE AllocArrays
  BY <1>7, AllocStep
<1>8. CASE MeasureOne
  BY <1>8, MeasureOneStep
<1>9. CASE MeasurePart
  BY <1>9, MeasureLastStep, MeasureMoreStep
<1>10. CASE MeasureBeyond
  BY <1>10, BeyondStep
<1>11. CASE ExtractChar
  BY <1>11, ExtractCharStep
<1>12. CASE ExtractReference
  BY <1>12, ExtractReferenceStep
<1>13. CASE ExtractEnds
  BY <1>13, ExtractEndsStep
<1>14. CASE MallocFails
  BY <1>14, StepAside DEF MallocFails
<1>15. CASE UNCHANGED parseVars
  <2>1. /\ input' = input /\ pc' = pc /\ nsub' = nsub /\ part' = part /\ part_len' = part_len
        /\ sub' = sub /\ next' = next /\ i' = i /\ j' = j /\ len' = len /\ string' = string
    BY <1>15, Kept DEF parseVars, replacement, locals
  <2>2. Types' /\ InCount' /\ (Counted' <=> Counted) /\ (Extracted' <=> Extracted)
    BY <2>1 DEF ParseInv, Types, InCount, Counted, Extracted
  <2>3. InArrays'
    BY <2>1, <2>2 DEF ParseInv, InArrays
  <2>4. \A k : Allocated(k)' <=> Allocated(k)
    BY <2>1 DEF Allocated
  <2>5. InMeasure'
    BY <2>1, <2>4 DEF ParseInv, InMeasure
  <2>6. InExtract'
    BY <2>1, <2>2, <2>4 DEF ParseInv, InExtract
  <2> QED
    BY <2>2, <2>3, <2>5, <2>6 DEF ParseInv
<1> QED
  BY <1>1, <1>2, <1>3, <1>4, <1>5, <1>6, <1>7, <1>8, <1>9, <1>10, <1>11, <1>12, <1>13, <1>14,
     <1>15 DEF ParseNext

\* The invariant says that nothing is written outside the blocks, and when
\* the second sweep leaves the arrays.
LEMMA ParseInvUse ==
  ParseInv => WritesInParts /\ UndefinedExactly
<1> SUFFICES ASSUME ParseInv PROVE WritesInParts /\ UndefinedExactly
  OBVIOUS
<1>1. WritesInParts
  BY WriteFits DEF WritesInParts
<1>2. string \in Seq(Chars)
  BY InputType DEF ParseInv, Types
<1>3. ASSUME pc = "undefined" PROVE Oversplit(string)
  <2>1. /\ nsub = Cardinality(References(string))
        /\ Cardinality(Splitters(string)) > nsub
    BY <1>3 DEF ParseInv, InArrays, InMeasure, Counted
  <2> QED
    BY <1>2, <2>1, OversplitCounts
<1>4. ASSUME pc = "extract" PROVE ~ Oversplit(string)
  BY <1>2, <1>4, InThird, OversplitCounts
<1>5. UndefinedExactly
  BY <1>3, <1>4 DEF UndefinedExactly
<1> QED
  BY <1>1, <1>5

\* The first sweep ends at an unknown escape or at the end, behind a string
\* without one.
LEMMA RejectsStep ==
  ASSUME ParseInv, [ParseNext \/ MallocFails]_parseVars, pc = "count", pc' # "count"
  PROVE  pc' = "failed" <=> S!Meaningless(string)
<1>1. UnknownEscape \/ CountEnds
  BY DEF ParseNext, PatternParsed, PatternFails, CopyString, CountOne, AllocArrays, MeasureOne,
     MeasurePart, MeasureBeyond, ExtractChar, ExtractReference, ExtractEnds, MallocFails,
     parseVars
<1>2. /\ string \in Seq(Chars) /\ Boundary(string, next) /\ next \in 0 .. Len(string)
      /\ \A p \in 1 .. next : ~ Bad(string, p)
  BY InputType DEF ParseInv, Types, InCount
<1>3. S!Meaningless(string) <=> \E p \in 1 .. Len(string) : Bad(string, p)
  BY DEF S!Meaningless, Bad
<1>4. CASE UnknownEscape
  <2>1. At(next) = "\\" /\ At(next) # Nul /\ At(next + 1) \notin S!Escapable /\ pc' = "failed"
    BY <1>4, Characters DEF UnknownEscape
  <2>2. Bad(string, next + 1) /\ next + 1 \in 1 .. Len(string)
    BY <1>2, <2>1, Steps
  <2> QED
    BY <1>3, <2>1, <2>2
<1>5. CASE CountEnds
  <2>1. next = Len(string) /\ pc' = "arrays"
    BY <1>2, <1>5, Sees DEF CountEnds
  <2> QED
    BY <1>2, <1>3, <2>1
<1> QED
  BY <1>1, <1>4, <1>5

\* The inductive invariant of the three sweeps.
THEOREM ParseInvariant == ParseSpec => []ParseInv
<1>1. ParseInit => ParseInv
  BY ParseInvInit
<1>2. ParseInv /\ [ParseNext \/ MallocFails]_parseVars => ParseInv'
  BY ParseInvStep
<1> QED
  BY <1>1, <1>2, PTL DEF ParseSpec

-----------------------------------------------------------------------------
(* What the parts say.                                                      *)

\* The characters of the parts and the items.
TextChars == Chars \cup {"\n"}

\* The items a string may mean.
ItemSet == {S!Lit(c) : c \in TextChars} \cup {S!Ref(k) : k \in 0 .. 9}

\* Characters and references make items; none of the characters is a terminator.
LEMMA ItemTypes ==
  /\ \A c \in Chars : c \in TextChars /\ S!Unescape(c) \in TextChars
  /\ \A c \in TextChars : S!Lit(c) \in ItemSet /\ c # Nul
  /\ \A k \in 0 .. 9 : S!Ref(k) \in ItemSet
  /\ \A d \in S!Digits : S!GroupOf[d] \in 0 .. 9
<1>1. \A c \in Chars : c \in TextChars /\ S!Unescape(c) \in TextChars
  BY DEF S!Unescape, TextChars
<1>3. \A c \in TextChars : S!Lit(c) \in ItemSet /\ c # Nul
  BY DEF ItemSet, TextChars, Chars, Nul
<1>2. \A d \in S!Digits : S!GroupOf[d] \in 0 .. 9
  <2> SUFFICES ASSUME NEW d \in S!Digits PROVE S!GroupOf[d] \in 0 .. 9
    OBVIOUS
  <2> DEFINE T == <<"1", "2", "3", "4", "5", "6", "7", "8", "9">>
  <2>1. d \in {"1", "2", "3", "4", "5", "6", "7", "8", "9"}
    BY DEF S!Digits, S!GroupOf
  <2>2. S!GroupOf[d] = CHOOSE k \in 1 .. 9 : T[k] = d
    BY <2>1 DEF S!GroupOf
  <2>3. /\ T[1] = "1" /\ T[2] = "2" /\ T[3] = "3" /\ T[4] = "4" /\ T[5] = "5"
        /\ T[6] = "6" /\ T[7] = "7" /\ T[8] = "8" /\ T[9] = "9"
    OBVIOUS
  <2> HIDE DEF T
  <2>4. \E k \in 1 .. 9 : T[k] = d
    BY <2>1, <2>3
  <2> QED
    BY <2>2, <2>4
<1> QED
  BY <1>1, <1>2, <1>3 DEF ItemSet

\* What the first n characters of a string mean.
Said(s, n) == FlattenSeq([p \in 1 .. n |-> S!Item(s, p)])

\* What a character of the string contributes is a sequence of items.
LEMMA ItemType ==
  ASSUME NEW s \in Seq(Chars), NEW p \in 1 .. Len(s)
  PROVE  S!Item(s, p) \in Seq(ItemSet)
<1>1. s[p] \in Chars
  OBVIOUS
<1>2. /\ S!Lit(s[p]) \in ItemSet /\ S!Lit(S!Unescape(s[p])) \in ItemSet
      /\ s[p] \in S!Digits => S!Ref(S!GroupOf[s[p]]) \in ItemSet
      /\ S!Ref(0) \in ItemSet
  BY <1>1, ItemTypes
<1>3. \A x \in ItemSet : <<x>> \in Seq(ItemSet)
  OBVIOUS
<1>4. <<>> \in Seq(ItemSet)
  OBVIOUS
<1> QED
  BY <1>2, <1>3, <1>4, Zenon DEF S!Item

\* What is said up to the next character.
LEMMA SaidOn ==
  ASSUME NEW s \in Seq(Chars), NEW n \in Nat, n < Len(s)
  PROVE  /\ Said(s, n + 1) = Said(s, n) \o S!Item(s, n + 1)
         /\ Said(s, n) \in Seq(ItemSet)
<1> DEFINE ss == [p \in 1 .. n |-> S!Item(s, p)]
           tt == [p \in 1 .. n + 1 |-> S!Item(s, p)]
<1>1. \A p \in 1 .. n + 1 : S!Item(s, p) \in Seq(ItemSet)
  BY ItemType
<1>2. ss \in Seq(Seq(ItemSet)) /\ S!Item(s, n + 1) \in Seq(ItemSet)
  BY <1>1
<1>3. tt = Append(ss, S!Item(s, n + 1))
  <2>1. tt \in Seq(Seq(ItemSet)) /\ Len(tt) = n + 1 /\ Len(ss) = n
    BY <1>1
  <2> QED
    BY <1>1, <1>2, <2>1
<1>4. Said(s, n) = FlattenSeq(ss) /\ Said(s, n + 1) = FlattenSeq(tt)
  BY DEF Said
<1> HIDE DEF ss, tt
<1>5. FlattenSeq(tt) = FlattenSeq(ss) \o S!Item(s, n + 1) /\ FlattenSeq(ss) \in Seq(ItemSet)
  BY <1>2, <1>3, FlattenAppend, FlattenType, Zenon
<1> QED
  BY <1>4, <1>5

\* Before the first character nothing is said.
LEMMA SaidNothing == ASSUME NEW s PROVE Said(s, 0) = <<>>
<1>1. [p \in 1 .. 0 |-> S!Item(s, p)] = <<>>
  OBVIOUS
<1> QED
  BY <1>1, FlattenEmpty, Zenon DEF Said

\* The first n characters of part k, and all that parts 0 to m say, if z
\* gives their lengths.
Text(pt, k, n) == [p \in 1 .. n |-> S!Lit(pt[k][p - 1])]

\* All that parts 0 to m say, if z gives their lengths.
Told(pt, sb, z, m) ==
  Text(pt, 0, z[0]) \o FlattenSeq([k \in 1 .. m |-> <<S!Ref(sb[k - 1])>> \o Text(pt, k, z[k])])

\* Part k has n characters of text.
Filled(pt, k, n) == n \in Nat /\ \A q \in 0 .. (n - 1) : pt[k][q] \in TextChars

\* The text of a filled part is a sequence of items, one for a character.
LEMMA TextType ==
  ASSUME NEW pt, NEW k, NEW n, Filled(pt, k, n)
  PROVE  Text(pt, k, n) \in Seq(ItemSet) /\ Len(Text(pt, k, n)) = n
<1>1. n \in Nat /\ \A p \in 1 .. n : p - 1 \in 0 .. (n - 1)
  BY DEF Filled
<1>2. \A p \in 1 .. n : S!Lit(pt[k][p - 1]) \in ItemSet
  BY <1>1, ItemTypes DEF Filled
<1> QED
  BY <1>1, <1>2 DEF Text

\* The text depends on the characters in front of its end only.
LEMMA TextSame ==
  ASSUME NEW pt, NEW pu, NEW k, NEW n \in Nat, \A q \in 0 .. (n - 1) : pt[k][q] = pu[k][q]
  PROVE  Text(pt, k, n) = Text(pu, k, n)
<1>1. \A p \in 1 .. n : p - 1 \in 0 .. (n - 1)
  OBVIOUS
<1> QED
  BY <1>1 DEF Text

\* A text of one more character.
LEMMA TextMore ==
  ASSUME NEW pt, NEW k, NEW n \in Nat, Filled(pt, k, n + 1)
  PROVE  Text(pt, k, n + 1) = Text(pt, k, n) \o <<S!Lit(pt[k][n])>>
<1>1. Filled(pt, k, n)
  BY DEF Filled
<1>2. /\ Text(pt, k, n) \in Seq(ItemSet) /\ Len(Text(pt, k, n)) = n
      /\ Text(pt, k, n + 1) \in Seq(ItemSet) /\ Len(Text(pt, k, n + 1)) = n + 1
  <2>1. n + 1 \in Nat
    OBVIOUS
  <2> QED
    BY <1>1, <2>1, TextType
<1>3. S!Lit(pt[k][n]) \in ItemSet
  BY ItemTypes DEF Filled
<1>4. /\ \A p \in 1 .. n : Text(pt, k, n + 1)[p] = Text(pt, k, n)[p]
      /\ Text(pt, k, n + 1)[n + 1] = S!Lit(pt[k][n])
  <2>1. \A p \in 1 .. n : p \in 1 .. n + 1
    OBVIOUS
  <2>2. n + 1 \in 1 .. n + 1 /\ (n + 1) - 1 = n
    OBVIOUS
  <2> QED
    BY <2>1, <2>2 DEF Text
<1> DEFINE a == Text(pt, k, n)
           b == Text(pt, k, n + 1)
           x == S!Lit(pt[k][n])
<1>5. a \in Seq(ItemSet) /\ b \in Seq(ItemSet) /\ Len(a) = n /\ Len(b) = n + 1
      /\ x \in ItemSet /\ b[n + 1] = x /\ \A p \in 1 .. n : b[p] = a[p]
  BY <1>2, <1>3, <1>4
<1> HIDE DEF a, b, x
<1>6. b = a \o <<x>>
  BY <1>5
<1> QED
  BY <1>6 DEF a, b, x

\* Parts 0 to m are filled to the lengths z, with references between them.
AllFilled(pt, sb, z, m) ==
  /\ z \in [Nat -> Nat]
  /\ \A k \in 0 .. m : Filled(pt, k, z[k])
  /\ \A k \in 0 .. (m - 1) : sb[k] \in 0 .. 9

\* Two fillings agree on parts 0 to m.
Alike(pt, sb, z, pu, sc, y, m) ==
  /\ \A k \in 0 .. m : z[k] = y[k] /\ \A q \in 0 .. (z[k] - 1) : pt[k][q] = pu[k][q]
  /\ \A k \in 0 .. (m - 1) : sb[k] = sc[k]

\* Fillings that agree tell the same.
LEMMA ToldAlike ==
  ASSUME NEW pt, NEW sb, NEW z, NEW pu, NEW sc, NEW y, NEW m \in Nat,
         AllFilled(pt, sb, z, m), Alike(pt, sb, z, pu, sc, y, m)
  PROVE  Told(pu, sc, y, m) = Told(pt, sb, z, m) /\ AllFilled(pt, sb, z, m)
<1>1. \A k \in 0 .. m : y[k] = z[k] /\ z[k] \in Nat /\ Text(pu, k, z[k]) = Text(pt, k, z[k])
  <2> SUFFICES ASSUME NEW k \in 0 .. m
               PROVE  y[k] = z[k] /\ z[k] \in Nat /\ Text(pu, k, z[k]) = Text(pt, k, z[k])
    OBVIOUS
  <2>1. z[k] \in Nat /\ y[k] = z[k] /\ \A q \in 0 .. (z[k] - 1) : pt[k][q] = pu[k][q]
    BY DEF AllFilled, Filled, Alike
  <2> DEFINE n == z[k]
  <2>2. n \in Nat /\ \A q \in 0 .. (n - 1) : pt[k][q] = pu[k][q]
    BY <2>1
  <2> HIDE DEF n
  <2>3. Text(pt, k, n) = Text(pu, k, n)
    BY <2>2, TextSame
  <2> QED
    BY <2>1, <2>3 DEF n
<1>2. \A k \in 1 .. m : k \in 0 .. m /\ k - 1 \in 0 .. (m - 1)
  OBVIOUS
<1>3. \A k \in 1 .. m : sb[k - 1] = sc[k - 1] /\ y[k] = z[k] /\ Text(pu, k, z[k]) = Text(pt, k, z[k])
  BY <1>1, <1>2 DEF Alike
<1>4. [k \in 1 .. m |-> <<S!Ref(sb[k - 1])>> \o Text(pt, k, z[k])]
        = [k \in 1 .. m |-> <<S!Ref(sc[k - 1])>> \o Text(pu, k, y[k])]
  BY <1>3
<1>5. 0 \in 0 .. m
  OBVIOUS
<1> QED
  BY <1>1, <1>4, <1>5 DEF Told

\* Part 0 alone tells its own text.
LEMMA ToldZero ==
  ASSUME NEW pt, NEW sb, NEW z, AllFilled(pt, sb, z, 0)
  PROVE  Told(pt, sb, z, 0) = Text(pt, 0, z[0]) /\ Told(pt, sb, z, 0) \in Seq(ItemSet)
<1>1. [k \in 1 .. 0 |-> <<S!Ref(sb[k - 1])>> \o Text(pt, k, z[k])] = <<>>
  OBVIOUS
<1>2. Told(pt, sb, z, 0) = Text(pt, 0, z[0]) \o <<>>
  BY <1>1, FlattenEmpty, Zenon DEF Told
<1>3. Filled(pt, 0, z[0])
  <2>1. 0 \in 0 .. 0
    OBVIOUS
  <2> QED
    BY <2>1 DEF AllFilled
<1>4. Text(pt, 0, z[0]) \in Seq(ItemSet)
  BY <1>3, TextType
<1>5. \A s \in Seq(ItemSet) : s \o <<>> = s
  OBVIOUS
<1> QED
  BY <1>2, <1>4, <1>5, Zenon

\* Concatenation of sequences of items is associative.
LEMMA Associates ==
  ASSUME NEW a \in Seq(ItemSet), NEW b \in Seq(ItemSet), NEW c \in Seq(ItemSet)
  PROVE  (a \o b) \o c = a \o (b \o c) /\ a \o b \in Seq(ItemSet)
OBVIOUS


\* Two ways to put three sequences behind a fourth.
Chained(h, a, b, c) == h \o (a \o (b \o c)) = (h \o (a \o b)) \o c

\* The same for four of them, in a form that can be cited by name.
LEMMA AssociateFour == \A h, a, b, c \in Seq(ItemSet) : Chained(h, a, b, c)
<1>1. SUFFICES ASSUME NEW h \in Seq(ItemSet), NEW a \in Seq(ItemSet),
                      NEW b \in Seq(ItemSet), NEW c \in Seq(ItemSet)
               PROVE  h \o (a \o (b \o c)) = (h \o (a \o b)) \o c
  BY DEF Chained
<1>2. a \o (b \o c) = (a \o b) \o c /\ a \o b \in Seq(ItemSet)
  BY Associates
<1> QED
  BY ONLY <1>1, <1>2, Associates, SMTT(20)

\* A part more, with the reference before it.
LEMMA ToldNext ==
  ASSUME NEW pt, NEW sb, NEW z, NEW m \in Nat, AllFilled(pt, sb, z, m + 1)
  PROVE  /\ Told(pt, sb, z, m + 1) =
              Told(pt, sb, z, m) \o (<<S!Ref(sb[m])>> \o Text(pt, m + 1, z[m + 1]))
         /\ Told(pt, sb, z, m) \in Seq(ItemSet) /\ Told(pt, sb, z, m + 1) \in Seq(ItemSet)
         /\ AllFilled(pt, sb, z, m)
<1> DEFINE B(k) == <<S!Ref(sb[k - 1])>> \o Text(pt, k, z[k])
           ss == [k \in 1 .. m |-> B(k)]
           tt == [k \in 1 .. m + 1 |-> B(k)]
           h == Text(pt, 0, z[0])
           x == B(m + 1)
<1>1. \A k \in 1 .. m + 1 : B(k) \in Seq(ItemSet)
  <2> SUFFICES ASSUME NEW k \in 1 .. m + 1 PROVE B(k) \in Seq(ItemSet)
    OBVIOUS
  <2>1. k - 1 \in 0 .. ((m + 1) - 1) /\ k \in 0 .. (m + 1)
    OBVIOUS
  <2>2. S!Ref(sb[k - 1]) \in ItemSet
    BY <2>1, ItemTypes DEF AllFilled
  <2>3. Text(pt, k, z[k]) \in Seq(ItemSet)
    <3>1. Filled(pt, k, z[k])
      BY <2>1 DEF AllFilled
    <3> QED
      BY <3>1, TextType
  <2> QED
    BY <2>2, <2>3
<1>2. h \in Seq(ItemSet)
  <2>1. 0 \in 0 .. (m + 1)
    OBVIOUS
  <2>2. Filled(pt, 0, z[0])
    BY <2>1 DEF AllFilled
  <2> QED
    BY <2>2, TextType
<1>3. x \in Seq(ItemSet) /\ m + 1 \in 1 .. m + 1
  BY <1>1
<1> HIDE DEF B
<1>4. ss \in Seq(Seq(ItemSet)) /\ tt \in Seq(Seq(ItemSet)) /\ Len(ss) = m /\ Len(tt) = m + 1
  BY <1>1
<1>5. tt = Append(ss, x)
  BY <1>3, <1>4
<1>6. Told(pt, sb, z, m) = h \o FlattenSeq(ss) /\ Told(pt, sb, z, m + 1) = h \o FlattenSeq(tt)
  BY DEF Told, B
<1>7. x = <<S!Ref(sb[m])>> \o Text(pt, m + 1, z[m + 1])
  <2>1. (m + 1) - 1 = m
    OBVIOUS
  <2> QED
    BY <2>1 DEF B
<1> HIDE DEF ss, tt, x, h
<1>8. FlattenSeq(tt) = FlattenSeq(ss) \o x /\ FlattenSeq(ss) \in Seq(ItemSet)
  BY <1>3, <1>4, <1>5, FlattenAppend, FlattenType, Zenon
<1>9. Told(pt, sb, z, m + 1) = Told(pt, sb, z, m) \o x
  <2> DEFINE f == FlattenSeq(ss)
  <2>1. h \in Seq(ItemSet) /\ f \in Seq(ItemSet) /\ x \in Seq(ItemSet)
    BY <1>2, <1>3, <1>8
  <2>2. FlattenSeq(tt) = f \o x /\ Told(pt, sb, z, m) = h \o f
    BY <1>6, <1>8
  <2> HIDE DEF f
  <2>3. (h \o f) \o x = h \o (f \o x)
    BY ONLY <2>1, Associates
  <2> QED
    BY ONLY <1>6, <2>2, <2>3
<1>10. Told(pt, sb, z, m) \in Seq(ItemSet)
  <2>1. h \o FlattenSeq(ss) \in Seq(ItemSet)
    BY <1>2, <1>8
  <2> QED
    BY <1>6, <2>1
<1>11. Told(pt, sb, z, m) \o x \in Seq(ItemSet)
  BY <1>3, <1>10
<1>12. AllFilled(pt, sb, z, m)
  BY DEF AllFilled
<1> QED
  BY <1>7, <1>9, <1>10, <1>11, <1>12

\* A character more in the last part.
OneMore(pt, sb, z, pu, y, m, c) ==
  /\ AllFilled(pt, sb, z, m) /\ AllFilled(pu, sb, y, m)
  /\ Alike(pt, sb, z, pu, sb, y, m - 1) /\ y[m] = z[m] + 1
  /\ \A q \in 0 .. (z[m] - 1) : pt[m][q] = pu[m][q]
  /\ pu[m][z[m]] = c /\ c \in TextChars /\ m \in Nat

\* A character more is an item more.
LEMMA ToldChar ==
  ASSUME NEW pt, NEW sb, NEW z, NEW pu, NEW y, NEW m, NEW c, OneMore(pt, sb, z, pu, y, m, c)
  PROVE  Told(pu, sb, y, m) = Told(pt, sb, z, m) \o <<S!Lit(c)>>
<1>0. /\ AllFilled(pt, sb, z, m) /\ AllFilled(pu, sb, y, m)
      /\ Alike(pt, sb, z, pu, sb, y, m - 1) /\ y[m] = z[m] + 1
      /\ \A q \in 0 .. (z[m] - 1) : pt[m][q] = pu[m][q]
      /\ pu[m][z[m]] = c /\ c \in TextChars /\ m \in Nat
  BY DEF OneMore
<1> USE <1>0
<1> DEFINE n == z[m]
           a == Text(pt, m, n)
<1>1. n \in Nat /\ m \in 0 .. m /\ Filled(pt, m, n) /\ Filled(pu, m, n + 1) /\ y[m] = n + 1
  BY DEF AllFilled, Filled
<1>2. S!Lit(c) \in ItemSet /\ pu[m][n] = c /\ \A q \in 0 .. (n - 1) : pt[m][q] = pu[m][q]
  BY ItemTypes
<1>n. n = z[m]
  OBVIOUS
<1> HIDE DEF n
<1>3. Text(pu, m, n + 1) = a \o <<S!Lit(c)>>
  <2>1. Text(pu, m, n + 1) = Text(pu, m, n) \o <<S!Lit(pu[m][n])>>
    BY <1>1, TextMore
  <2>2. Text(pt, m, n) = Text(pu, m, n)
    BY <1>1, <1>2, TextSame
  <2> QED
    BY <1>2, <2>1, <2>2
<1>4. a \in Seq(ItemSet) /\ <<S!Lit(c)>> \in Seq(ItemSet)
  BY <1>1, <1>2, TextType
<1>5. CASE m = 0
  <2>1. Told(pu, sb, y, 0) = Text(pu, 0, y[0]) /\ Told(pt, sb, z, 0) = Text(pt, 0, z[0])
    BY <1>5, ToldZero
  <2> QED
    BY <1>1, <1>3, <1>5, <1>n, <2>1
<1>6. CASE m # 0
  <2>1. PICK l \in Nat : m = l + 1 /\ l = m - 1
    BY <1>6
  <2>2. /\ Told(pt, sb, z, m) = Told(pt, sb, z, l) \o (<<S!Ref(sb[l])>> \o a)
        /\ Told(pt, sb, z, l) \in Seq(ItemSet) /\ AllFilled(pt, sb, z, l)
    <3>1. AllFilled(pt, sb, z, l + 1)
      BY <2>1
    <3>2. /\ Told(pt, sb, z, l + 1) =
               Told(pt, sb, z, l) \o (<<S!Ref(sb[l])>> \o Text(pt, l + 1, z[l + 1]))
          /\ Told(pt, sb, z, l) \in Seq(ItemSet) /\ AllFilled(pt, sb, z, l)
      BY ONLY <2>1, <3>1, ToldNext
    <3> QED
      BY <1>n, <2>1, <3>2
  <2>3. Told(pu, sb, y, m) = Told(pu, sb, y, l) \o (<<S!Ref(sb[l])>> \o (a \o <<S!Lit(c)>>))
    <3>1. Told(pu, sb, y, l + 1) =
            Told(pu, sb, y, l) \o (<<S!Ref(sb[l])>> \o Text(pu, l + 1, y[l + 1]))
      <4>1. AllFilled(pu, sb, y, l + 1)
        BY <2>1
      <4> QED
        BY ONLY <2>1, <4>1, ToldNext
    <3> QED
      BY <1>1, <1>3, <2>1, <3>1
  <2>4. Told(pu, sb, y, l) = Told(pt, sb, z, l)
    <3>1. Alike(pt, sb, z, pu, sb, y, l)
      BY <2>1
    <3> QED
      BY <2>1, <2>2, <3>1, ToldAlike
  <2>5. <<S!Ref(sb[l])>> \in Seq(ItemSet)
    <3>1. l \in 0 .. (m - 1)
      BY ONLY <1>0, <2>1
    <3>2. S!Ref(sb[l]) \in ItemSet
      BY <3>1, ItemTypes DEF AllFilled
    <3> QED
      BY <3>2
  <2>6. PICK h, r, e, d : /\ h = Told(pt, sb, z, l) /\ r = <<S!Ref(sb[l])>>
                          /\ e = a /\ d = <<S!Lit(c)>>
    OBVIOUS
  <2>7. h \in Seq(ItemSet) /\ r \in Seq(ItemSet) /\ e \in Seq(ItemSet) /\ d \in Seq(ItemSet)
    BY <1>4, <2>2, <2>5, <2>6
  <2>8. h \o (r \o (e \o d)) = (h \o (r \o e)) \o d
    <3>1. Chained(h, r, e, d)
      BY ONLY <2>7, AssociateFour, Zenon
    <3> QED
      BY ONLY <3>1 DEF Chained
  <2>9. Told(pt, sb, z, m) = h \o (r \o e)
    BY ONLY <2>2, <2>6
  <2>10. Told(pu, sb, y, m) = h \o (r \o (e \o d))
    BY ONLY <2>3, <2>4, <2>6
  <2> QED
    BY ONLY <2>6, <2>8, <2>9, <2>10
<1> QED
  BY <1>5, <1>6

\* Part k says n characters, and its length counts its simple escapes twice.
Ended(k, n) ==
  /\ n \in DOMAIN part[k] /\ part[k][n] = Nul
  /\ part_len[k] = n + Cardinality(SimpleEscapesIn(string, k))

\* The third sweep has told what the string means up to its position.
InTexts ==
  /\ pc = "extract" =>
       \E z \in [Nat -> Nat] : \E b \in 0 .. next :
         /\ AllFilled(part, sub, z, i) /\ z[i] = j
         /\ Told(part, sub, z, i) = Said(string, next)
         /\ Begins(string, i, b) /\ next - b = j + Count(SimpleEscapesIn(string, i), next)
         /\ \A k \in 0 .. (i - 1) : Ended(k, z[k])
  /\ Extracted =>
       \E z \in [Nat -> Nat] :
         /\ AllFilled(part, sub, z, nsub)
         /\ Told(part, sub, z, nsub) = S!Meaning(string)
         /\ \A k \in 0 .. nsub : Ended(k, z[k])

\* The inductive invariant with the texts.
TextInv == ParseInv /\ InTexts

\* Counting the simple escapes of a part.
LEMMA EscapesOn ==
  ASSUME string \in Seq(Chars), NEW k, NEW n \in 0 .. Len(string)
  PROVE  /\ \A p \in SimpleEscapesIn(string, k) : p \in 1 .. Len(string) /\ p \in Nat /\ p > 0
         /\ Count(SimpleEscapesIn(string, k), n) \in Nat
         /\ Count(SimpleEscapesIn(string, k), 0) = 0
         /\ Count(SimpleEscapesIn(string, k), n + 1) = Count(SimpleEscapesIn(string, k), n)
              + (IF n + 1 \in SimpleEscapesIn(string, k) THEN 1 ELSE 0)
         /\ n + 1 \notin SimpleEscapesIn(string, k) =>
              Count(SimpleEscapesIn(string, k), n + 2) = Count(SimpleEscapesIn(string, k), n)
                + (IF n + 2 \in SimpleEscapesIn(string, k) THEN 1 ELSE 0)
         /\ \A p \in 1 .. Len(string) : p \in SimpleEscapesIn(string, k) <=>
              /\ S!Escaped(string)[p] /\ string[p] \notin S!Digits
              /\ Count(Splitters(string), p) = k
<1> DEFINE A == SimpleEscapesIn(string, k)
<1>1. \A p \in A : p \in 1 .. Len(string) /\ p \in Nat /\ p > 0
  BY DEF SimpleEscapesIn, SimpleEscapes
<1>2. \A p \in 1 .. Len(string) : p \in A <=>
        /\ S!Escaped(string)[p] /\ string[p] \notin S!Digits
        /\ Count(Splitters(string), p) = k
  BY DEF SimpleEscapesIn, SimpleEscapes, Count, UpTo
<1>3. n \in Nat /\ n + 1 \in Nat /\ (n + 1) + 1 = n + 2
  OBVIOUS
<1> HIDE DEF A
<1>4. \A p \in A : p \in Nat /\ p > 0
  BY <1>1
<1>5. Count(A, n) \in Nat /\ Count(A, 0) = 0
  BY ONLY <1>3, <1>4, CountType, CountZero
<1>6. Count(A, n + 1) = Count(A, n) + (IF n + 1 \in A THEN 1 ELSE 0)
  BY ONLY <1>3, <1>4, CountNext
<1>7. Count(A, (n + 1) + 1) = Count(A, n + 1) + (IF (n + 1) + 1 \in A THEN 1 ELSE 0)
  BY ONLY <1>3, <1>4, CountNext
<1>8. n + 1 \notin A => Count(A, n + 2) = Count(A, n) + (IF n + 2 \in A THEN 1 ELSE 0)
  BY ONLY <1>3, <1>5, <1>6, <1>7
<1> QED
  BY <1>1, <1>2, <1>5, <1>6, <1>8 DEF A

\* Where part i ends, its length is known.
LEMMA PartEnds ==
  ASSUME ParseInv, pc = "extract", next = Len(string) \/ next + 1 \in Splitters(string),
         NEW b \in 0 .. next, Begins(string, i, b),
         next - b = j + Count(SimpleEscapesIn(string, i), next)
  PROVE  part_len[i] = j + Cardinality(SimpleEscapesIn(string, i))
<1>1. /\ string \in Seq(Chars) /\ Len(string) \in Nat /\ next \in 0 .. Len(string)
      /\ i \in 0 .. nsub /\ j \in Nat /\ i = Count(Splitters(string), next)
  BY InThird
<1>2. Allocated(i)
  BY InThird
<1>3. PICK c, e \in 0 .. Len(string) :
        Begins(string, i, c) /\ EndsAt(string, i, e) /\ part_len[i] = e - c
  BY <1>2 DEF Allocated
<1>4. b = c
  BY <1>1, <1>3, BeginsOnce
<1>5. e = next
  <2>1. next <= e
    BY <1>1, <1>3, EndsBehind
  <2>2. EndsAt(string, Count(Splitters(string), e), next)
    BY <1>1, <1>3 DEF EndsAt
  <2>3. e <= next
    BY <1>1, <1>3, <2>2, EndsBehind
  <2> QED
    BY <1>1, <2>1, <2>3
<1>6. UpTo(SimpleEscapesIn(string, i), next) = SimpleEscapesIn(string, i)
  <2> SUFFICES ASSUME NEW p \in SimpleEscapesIn(string, i), next < p PROVE FALSE
    BY <1>1, EscapesOn, SMTT(20) DEF UpTo
  <2>1. p \in 1 .. Len(string) /\ Count(Splitters(string), p) = i
    BY <1>1, EscapesOn
  <2>2. next + 1 \in Splitters(string) /\ next + 1 <= p /\ next + 1 \in Nat /\ p \in Nat
    BY <1>1, <2>1
  <2>3. Count(Splitters(string), next + 1) = i + 1
    BY <1>1, <2>2, SplittersOn
  <2>4. \A q \in Splitters(string) : q \in Nat /\ q > 0
    BY <1>1, SplittersType
  <2>5. Count(Splitters(string), next + 1) <= Count(Splitters(string), p)
    BY ONLY <2>2, <2>4, CountMore
  <2> QED
    BY ONLY <1>1, <2>1, <2>3, <2>5
<1>7. Count(SimpleEscapesIn(string, i), next) = Cardinality(SimpleEscapesIn(string, i))
  BY <1>6 DEF Count
<1>8. part_len[i] = next - b
  BY <1>3, <1>4, <1>5
<1>9. next - b = j + Cardinality(SimpleEscapesIn(string, i))
  BY <1>7
<1> QED
  BY ONLY <1>8, <1>9

\* A write puts one character in its place.
LEMMA Stored ==
  ASSUME NEW c, Store(c), i \in DOMAIN part, j \in DOMAIN part[i]
  PROVE  /\ part'[i][j] = c /\ \A q \in DOMAIN part[i] : q # j => part'[i][q] = part[i][q]
         /\ \A k \in DOMAIN part : k # i => part'[k] = part[k]
         /\ DOMAIN part' = DOMAIN part /\ DOMAIN part'[i] = DOMAIN part[i]
<1>1. part' = [part EXCEPT ![i] = [part[i] EXCEPT ![j] = c]]
  BY DEF Store
<1> QED
  BY <1>1

\* What the next items of the string mean, from a boundary.
LEMMA SaidSteps ==
  ASSUME ParseInv, pc = "extract", next # Len(string)
  PROVE  /\ Said(string, next) \in Seq(ItemSet)
         /\ At(next) # "\\" /\ At(next) # "&" =>
              /\ Said(string, next + 1) = Said(string, next) \o <<S!Lit(At(next))>>
              /\ At(next) \in TextChars
         /\ At(next) = "&" => Said(string, next + 1) = Said(string, next) \o <<S!Ref(0)>>
         /\ At(next) = "\\" =>
              /\ next + 2 \in 1 .. Len(string) /\ S!Escaped(string)[next + 2]
              /\ string[next + 2] = At(next + 1)
              /\ Said(string, next + 2) = Said(string, next) \o
                   <<IF At(next + 1) \in S!Digits THEN S!Ref(S!GroupOf[At(next + 1)])
                     ELSE S!Lit(S!Unescape(At(next + 1)))>>
              /\ S!Unescape(At(next + 1)) \in TextChars
<1>1. /\ string \in Seq(Chars) /\ Len(string) \in Nat /\ next \in 0 .. Len(string)
      /\ next \in Nat /\ next < Len(string) /\ Boundary(string, next)
      /\ ~ Bad(string, next + 1) /\ next + 1 \in 1 .. Len(string)
      /\ At(next) # Nul /\ At(next) = string[next + 1] /\ string[next + 1] \in Chars
  <2>1. /\ string \in Seq(Chars) /\ Len(string) \in Nat /\ next \in 0 .. Len(string)
        /\ Boundary(string, next) /\ \A p \in 1 .. Len(string) : ~ Bad(string, p)
    BY InThird
  <2>2. next \in Nat /\ next < Len(string) /\ next + 1 \in 1 .. Len(string)
    BY <2>1
  <2> QED
    BY <2>1, <2>2, Sees
<1>2. ~ S!Escaped(string)[next + 1]
  BY <1>1 DEF Boundary
<1>3. /\ Said(string, next) \in Seq(ItemSet)
      /\ Said(string, next + 1) = Said(string, next) \o S!Item(string, next + 1)
  BY <1>1, SaidOn
<1>4. ASSUME At(next) # "\\", At(next) # "&"
      PROVE  /\ S!Item(string, next + 1) = <<S!Lit(At(next))>> /\ At(next) \in TextChars
  BY <1>1, <1>2, <1>4, ItemTypes DEF S!Item
<1>5. ASSUME At(next) = "&"
      PROVE  S!Item(string, next + 1) = <<S!Ref(0)>>
  <2>1. At(next) # "\\"
    BY <1>5, Characters
  <2> QED
    BY <1>1, <1>2, <1>5, <2>1 DEF S!Item
<1>6. ASSUME At(next) = "\\"
      PROVE  /\ next + 2 \in 1 .. Len(string) /\ S!Escaped(string)[next + 2]
             /\ string[next + 2] = At(next + 1)
             /\ Said(string, next + 2) = Said(string, next) \o
                  <<IF At(next + 1) \in S!Digits THEN S!Ref(S!GroupOf[At(next + 1)])
                    ELSE S!Lit(S!Unescape(At(next + 1)))>>
             /\ S!Unescape(At(next + 1)) \in TextChars
  <2>1. At(next + 1) \in S!Escapable
    BY <1>1, <1>6, Steps
  <2>2. /\ next + 2 \in 0 .. Len(string) /\ At(next + 1) = string[next + 2]
    BY <1>1, <1>6, <2>1, Steps
  <2> DEFINE q == next + 2
  <2>3. q \in 1 .. Len(string) /\ q - 1 = next + 1 /\ q > 1 /\ q = (next + 1) + 1
        /\ next + 1 \in Nat /\ next + 1 < Len(string)
    BY <1>1, <2>2
  <2>q. q = next + 2
    OBVIOUS
  <2> HIDE DEF q
  <2>4. S!Escaped(string)[q]
    BY <1>1, <1>2, <1>6, <2>3, EscapedValue
  <2>5. S!Item(string, next + 1) = <<>>
    BY <1>1, <1>2, <1>6 DEF S!Item
  <2>6. Said(string, q) = Said(string, next + 1) \o S!Item(string, q)
    <3>1. Said(string, (next + 1) + 1) = Said(string, next + 1) \o S!Item(string, (next + 1) + 1)
      BY <1>1, <2>3, SaidOn
    <3> QED
      BY <2>3, <3>1
  <2>7. \A s \in Seq(ItemSet) : s \o <<>> = s
    OBVIOUS
  <2>8. Said(string, q) = Said(string, next) \o S!Item(string, q)
    BY <1>3, <2>5, <2>6, <2>7
  <2>9. S!Item(string, q) = <<IF string[q] \in S!Digits THEN S!Ref(S!GroupOf[string[q]])
                              ELSE S!Lit(S!Unescape(string[q]))>>
    BY <2>4 DEF S!Item
  <2>10. string[q] \in Chars /\ string[q] = At(next + 1)
    BY <1>1, <2>2, <2>3, <2>q
  <2> QED
    BY <2>3, <2>4, <2>8, <2>9, <2>10, <2>q, ItemTypes
<1> QED
  BY <1>3, <1>4, <1>5, <1>6

\* What the invariant says of the texts, with names for the witnesses.
Telling(z, b) ==
  /\ z \in [Nat -> Nat] /\ b \in 0 .. next
  /\ AllFilled(part, sub, z, i) /\ z[i] = j
  /\ Told(part, sub, z, i) = Said(string, next)
  /\ Begins(string, i, b) /\ next - b = j + Count(SimpleEscapesIn(string, i), next)
  /\ \A k \in 0 .. (i - 1) : Ended(k, z[k])

\* A turn of the third sweep that writes a character tells what the string says there.
LEMMA TellingChar ==
  ASSUME TextInv, ExtractChar
  PROVE  InTexts'
<1>1. /\ string' = string /\ sub' = sub /\ i' = i /\ j' = j + 1 /\ pc' = "extract"
      /\ pc = "extract" /\ part_len' = part_len /\ ParseInv
      /\ At(next) \notin {Nul, "&"} /\ ~ IsReference(next)
  BY Kept DEF ExtractChar, TextInv
<1>2. PICK z, b : Telling(z, b)
  BY <1>1 DEF TextInv, InTexts, Telling
<1>3. /\ string \in Seq(Chars) /\ Len(string) \in Nat /\ next \in 0 .. Len(string)
      /\ i \in 0 .. nsub /\ i \in Nat /\ j \in Nat /\ nsub \in Nat
      /\ i = Count(Splitters(string), next)
      /\ Splitters(string) = References(string) /\ DOMAIN part = 0 .. nsub
  BY <1>1, InThird
<1>4. /\ i \in DOMAIN part /\ j \in DOMAIN part[i]
  BY <1>1, WriteFits
<1>5. next # Len(string) /\ next + 1 \notin Splitters(string) /\ next \in Nat
  BY <1>1, <1>3, Sees
\* The character, and how far it goes.
<1>6. PICK c \in TextChars :
        /\ Store(c)
        /\ Said(string, next') = Said(string, next) \o <<S!Lit(c)>>
        /\ next' - next = 1 + (Count(SimpleEscapesIn(string, i), next')
                                 - Count(SimpleEscapesIn(string, i), next))
        /\ next' \in Nat /\ next < next'
  <2>0. ~ S!Escaped(string)[next + 1] /\ next + 1 \in 1 .. Len(string)
    <3>1. Boundary(string, next) /\ next + 1 \in 1 .. Len(string) /\ next < Len(string)
      BY <1>1, <1>3, <1>5, InThird
    <3> QED
      BY <3>1 DEF Boundary
  <2>1. next + 1 \notin SimpleEscapesIn(string, i)
    BY <1>3, <2>0, EscapesOn
  <2>2. Count(SimpleEscapesIn(string, i), next) \in Nat
    BY <1>3, EscapesOn
  <2>3. CASE At(next) = "\\"
    <3>1. next' = next + 2 /\ Store(S!Unescape(At(next + 1)))
      BY <2>3 DEF ExtractChar
    <3>2. /\ next + 2 \in 1 .. Len(string) /\ S!Escaped(string)[next + 2]
          /\ string[next + 2] = At(next + 1) /\ S!Unescape(At(next + 1)) \in TextChars
          /\ Said(string, next + 2) = Said(string, next) \o
               <<IF At(next + 1) \in S!Digits THEN S!Ref(S!GroupOf[At(next + 1)])
                 ELSE S!Lit(S!Unescape(At(next + 1)))>>
      BY <1>1, <1>5, <2>3, SaidSteps
    <3>3. At(next + 1) \notin S!Digits
      BY <1>1, <2>3 DEF IsReference
    <3>4. next + 2 \in SimpleEscapesIn(string, i)
      <4>1. next + 2 \notin References(string)
        BY <3>2 DEF References
      <4>2. Count(Splitters(string), next + 2) = Count(Splitters(string), next) + 0
        BY <1>1, <1>3, <1>5, <4>1, SplittersOn
      <4>3. Count(Splitters(string), next + 2) = i
        BY ONLY <1>3, <4>2
      <4> QED
        BY <1>3, <3>2, <3>3, <4>3, EscapesOn
    <3>5. Count(SimpleEscapesIn(string, i), next + 2) =
            Count(SimpleEscapesIn(string, i), next) + 1
      BY <1>3, <2>1, <3>4, EscapesOn
    <3>6. /\ (next + 2) - next = 1 + (Count(SimpleEscapesIn(string, i), next + 2)
                                      - Count(SimpleEscapesIn(string, i), next))
          /\ next + 2 \in Nat /\ next < next + 2
      BY ONLY <1>5, <2>2, <3>5
    <3> QED
      BY <3>1, <3>2, <3>3, <3>6
  <2>4. CASE At(next) # "\\"
    <3>1. next' = next + 1 /\ Store(At(next))
      BY <2>4 DEF ExtractChar
    <3>2. /\ Said(string, next + 1) = Said(string, next) \o <<S!Lit(At(next))>>
          /\ At(next) \in TextChars
      BY <1>1, <1>5, <2>4, SaidSteps
    <3>3. Count(SimpleEscapesIn(string, i), next + 1) =
            Count(SimpleEscapesIn(string, i), next) + 0
      BY <1>3, <2>1, EscapesOn
    <3>4. /\ (next + 1) - next = 1 + (Count(SimpleEscapesIn(string, i), next + 1)
                                      - Count(SimpleEscapesIn(string, i), next))
          /\ next + 1 \in Nat /\ next < next + 1
      BY ONLY <1>5, <2>2, <3>3
    <3> QED
      BY <3>1, <3>2, <3>4
  <2> QED
    BY <2>3, <2>4
<1>7. /\ part'[i][j] = c /\ \A q \in DOMAIN part[i] : q # j => part'[i][q] = part[i][q]
      /\ \A k \in DOMAIN part : k # i => part'[k] = part[k]
      /\ DOMAIN part' = DOMAIN part /\ DOMAIN part'[i] = DOMAIN part[i]
  BY <1>4, <1>6, Stored
<1>3a. /\ i \in Nat /\ j \in Nat /\ nsub \in Nat /\ i <= nsub /\ DOMAIN part = 0 .. nsub
       /\ c \in TextChars
  BY <1>3
<1>8. PICK n \in Nat : DOMAIN part[i] = 0 .. n
  <2>1. Allocated(i)
    BY <1>1, <1>3, InThird
  <2>2. PICK b0, e \in 0 .. Len(string) : b0 <= e /\ DOMAIN part[i] = 0 .. (e - b0)
    BY <2>1 DEF Allocated
  <2>3. e - b0 \in Nat
    BY ONLY <1>3, <2>2
  <2> QED
    BY <2>2, <2>3
<1>9. PICK y \in [Nat -> Nat] :
        /\ y[i] = j + 1 /\ \A k \in Nat : k # i => y[k] = z[k]
  <2> DEFINE y == [z EXCEPT ![i] = j + 1]
  <2>0. j + 1 \in Nat
    BY ONLY <1>3a
  <2>1. z \in [Nat -> Nat] /\ j + 1 \in Nat
    BY <1>2, <2>0 DEF Telling
  <2>2. y \in [Nat -> Nat] /\ y[i] = j + 1 /\ \A k \in Nat : k # i => y[k] = z[k]
    BY <1>3, <2>1
  <2> HIDE DEF y
  <2> QED
    BY <2>2
<1>9a. z \in [Nat -> Nat] /\ z[i] = j /\ AllFilled(part, sub, z, i)
  BY <1>2 DEF Telling
<1>10. /\ \A k \in 0 .. (i - 1) : k \in Nat /\ k \in 0 .. i /\ part'[k] = part[k] /\ y[k] = z[k]
       /\ \A q \in 0 .. (j - 1) : part'[i][q] = part[i][q]
  <2>1. \A k \in 0 .. (i - 1) : k \in Nat /\ k \in 0 .. i /\ k # i /\ k \in DOMAIN part
    BY ONLY <1>3a
  <2>2. \A q \in 0 .. (j - 1) : q # j /\ q \in DOMAIN part[i]
    BY <1>3, <1>4, <1>8
  <2> QED
    BY <1>7, <1>9, <1>9a, <2>1, <2>2
<1>11. AllFilled(part', sub, y, i)
  <2>1. \A k \in 0 .. i : k = i \/ k \in 0 .. (i - 1)
    BY <1>3
  <2>2. ASSUME NEW k \in 0 .. (i - 1) PROVE Filled(part', k, y[k])
    BY <1>9, <1>9a, <1>10 DEF AllFilled, Filled
  <2>3. Filled(part', i, y[i])
    <3>1. \A q \in 0 .. ((j + 1) - 1) : q = j \/ q \in 0 .. (j - 1)
      BY <1>3
    <3>2. \A q \in 0 .. (j - 1) : part[i][q] \in TextChars
      <4>1. i \in 0 .. i
        BY <1>3
      <4> QED
        BY <1>9, <1>9a, <4>1 DEF AllFilled, Filled
    <3>3. \A q \in 0 .. ((j + 1) - 1) : part'[i][q] \in TextChars
      BY <1>7, <1>10, <3>1, <3>2
    <3>4. j + 1 \in Nat
      BY <1>3
    <3> QED
      BY <1>9, <1>9a, <3>3, <3>4 DEF Filled
  <2> QED
    BY <1>9, <1>9a, <2>1, <2>2, <2>3 DEF AllFilled
<1>12. Alike(part, sub, z, part', sub, y, i - 1)
  BY <1>10 DEF Alike
<1>13. Told(part', sub, y, i) = Told(part, sub, z, i) \o <<S!Lit(c)>>
  <2>1. part'[i][z[i]] = c /\ \A q \in 0 .. (z[i] - 1) : part[i][q] = part'[i][q]
    BY <1>7, <1>9, <1>9a, <1>10
  <2>2. y[i] = z[i] + 1
    BY <1>9, <1>9a
  <2>3. OneMore(part, sub, z, part', y, i, c)
    BY ONLY <1>3a, <1>9a, <1>11, <1>12, <2>1, <2>2 DEF OneMore
  <2> QED
    BY ONLY <2>3, ToldChar
<1>14. Told(part', sub, y, i) = Said(string, next')
  BY <1>2, <1>6, <1>13 DEF Telling
<1>15. next' - b = (j + 1) + Count(SimpleEscapesIn(string, i), next') /\ b \in 0 .. next'
  <2>1. PICK N, M : /\ N = Count(SimpleEscapesIn(string, i), next)
                    /\ M = Count(SimpleEscapesIn(string, i), next')
    OBVIOUS
  <2>2. next - b = j + N /\ next' - next = 1 + (M - N) /\ b \in 0 .. next
    BY <1>2, <1>6, <2>1 DEF Telling
  <2>3. N \in Nat /\ M \in Nat
    <3>1. next' \in 0 .. Len(string)
      BY <1>1, ExtractCharStep, InThird DEF ParseInv, Types
    <3> QED
      BY <1>3, <2>1, <3>1, EscapesOn
  <2>5. next \in Nat /\ next' \in Nat /\ b \in Nat /\ j \in Nat /\ next < next'
    BY ONLY <1>3a, <1>5, <1>6, <2>2
  <2>6. next' - b = (j + 1) + M
    <3>1. PICK m \in Nat, n1 \in Nat, k \in Nat : m = next /\ n1 = next' /\ k = j
      BY ONLY <2>5
    <3>2. m - b = k + N /\ n1 - m = 1 + (M - N) /\ b \in Nat /\ m \in Nat /\ n1 \in Nat
          /\ k \in Nat
      BY ONLY <2>2, <2>5, <3>1
    <3>3. n1 - b = (k + 1) + M
      BY ONLY <2>3, <3>2
    <3> QED
      BY ONLY <3>1, <3>3
  <2>7. b \in 0 .. next'
    BY ONLY <2>2, <2>5
  <2> QED
    BY <2>1, <2>6, <2>7
<1>16. \A k \in 0 .. (i - 1) : Ended(k, y[k])'
  <2> SUFFICES ASSUME NEW k \in 0 .. (i - 1) PROVE Ended(k, y[k])'
    OBVIOUS
  <2>1. Ended(k, z[k]) /\ part'[k] = part[k] /\ y[k] = z[k]
    BY <1>2, <1>10 DEF Telling
  <2> QED
    BY <1>1, <2>1 DEF Ended
<1>17. (\E x \in [Nat -> Nat] : \E d \in 0 .. next :
         /\ AllFilled(part, sub, x, i) /\ x[i] = j
         /\ Told(part, sub, x, i) = Said(string, next)
         /\ Begins(string, i, d) /\ next - d = j + Count(SimpleEscapesIn(string, i), next)
         /\ \A k \in 0 .. (i - 1) : Ended(k, x[k]))'
  <2>1. Begins(string, i, b)
    BY <1>2 DEF Telling
  <2>2. /\ string' = string /\ sub' = sub /\ i' = i /\ j' = j + 1
    BY <1>1
  <2> QED
    BY ONLY <1>9, <1>9a, <1>11, <1>14, <1>15, <1>16, <2>1, <2>2
<1> QED
  BY <1>1, <1>17 DEF InTexts, Extracted

\* A turn of the third sweep that writes a reference tells what the string says there.
LEMMA TellingReference ==
  ASSUME TextInv, ExtractReference
  PROVE  InTexts'
<1>1. /\ string' = string /\ i' = i + 1 /\ j' = 0 /\ pc' = "extract"
      /\ pc = "extract" /\ part_len' = part_len /\ ParseInv /\ Store(Nul)
      /\ At(next) = "&" \/ IsReference(next)
  BY Kept DEF ExtractReference, TextInv
<1>2. PICK z, b : Telling(z, b)
  BY <1>1 DEF TextInv, InTexts, Telling
<1>3. /\ string \in Seq(Chars) /\ Len(string) \in Nat /\ next \in 0 .. Len(string)
      /\ i \in 0 .. nsub /\ i \in Nat /\ j \in Nat /\ nsub \in Nat
      /\ i = Count(Splitters(string), next) /\ Boundary(string, next)
      /\ DOMAIN part = 0 .. nsub /\ DOMAIN sub = 0 .. (nsub - 1)
  BY <1>1, InThird
<1>3a. /\ i \in Nat /\ j \in Nat /\ nsub \in Nat /\ i <= nsub /\ DOMAIN part = 0 .. nsub
       /\ i + 1 \in Nat /\ (i + 1) - 1 = i
  BY <1>3
<1>4. /\ i \in DOMAIN part /\ j \in DOMAIN part[i] /\ i \in DOMAIN sub
  BY <1>1, WriteFits
<1>5. /\ next + 1 \in Splitters(string) /\ next + 1 \in 1 .. Len(string)
      /\ next' \in 0 .. Len(string) /\ Begins(string, i + 1, next')
  BY <1>1, ReferenceOver
<1>6. next # Len(string) /\ next \in Nat /\ next' \in Nat
  BY <1>3, <1>5
\* The reference.
<1>7. PICK r \in 0 .. 9 :
        /\ sub' = [sub EXCEPT ![i] = r]
        /\ Said(string, next') = Said(string, next) \o <<S!Ref(r)>>
        /\ Said(string, next) \in Seq(ItemSet)
  <2>1. CASE At(next) = "&"
    <3>1. ~ IsReference(next)
      BY <2>1, Characters DEF IsReference
    <3>2. sub' = [sub EXCEPT ![i] = 0] /\ next' = next + 1
      BY <3>1 DEF ExtractReference
    <3>3. /\ Said(string, next + 1) = Said(string, next) \o <<S!Ref(0)>>
          /\ Said(string, next) \in Seq(ItemSet)
      BY <1>1, <1>6, <2>1, SaidSteps
    <3>4. 0 \in 0 .. 9
      OBVIOUS
    <3> QED
      BY <3>2, <3>3, <3>4
  <2>2. CASE IsReference(next)
    <3>1. At(next) = "\\" /\ At(next) # "&" /\ At(next + 1) \in S!Digits
      BY <2>2, Characters DEF IsReference
    <3>2. sub' = [sub EXCEPT ![i] = S!GroupOf[At(next + 1)]] /\ next' = next + 2
      BY <3>1 DEF ExtractReference
    <3>3. /\ Said(string, next + 2) = Said(string, next) \o
               <<IF At(next + 1) \in S!Digits THEN S!Ref(S!GroupOf[At(next + 1)])
                 ELSE S!Lit(S!Unescape(At(next + 1)))>>
          /\ Said(string, next) \in Seq(ItemSet)
      BY <1>1, <1>6, <3>1, SaidSteps
    <3>4. S!GroupOf[At(next + 1)] \in 0 .. 9
      BY <3>1, ItemTypes
    <3> QED
      BY <3>1, <3>2, <3>3, <3>4
  <2> QED
    BY <1>1, <2>1, <2>2
<1>8. /\ part'[i][j] = Nul /\ \A q \in DOMAIN part[i] : q # j => part'[i][q] = part[i][q]
      /\ \A k \in DOMAIN part : k # i => part'[k] = part[k]
      /\ DOMAIN part' = DOMAIN part /\ DOMAIN part'[i] = DOMAIN part[i]
  BY <1>1, <1>4, Stored
<1>9. PICK n \in Nat : DOMAIN part[i] = 0 .. n
  <2>1. Allocated(i)
    BY <1>1, <1>3, InThird
  <2>2. PICK b0, e \in 0 .. Len(string) : b0 <= e /\ DOMAIN part[i] = 0 .. (e - b0)
    BY <2>1 DEF Allocated
  <2>3. e - b0 \in Nat
    BY ONLY <1>3, <2>2
  <2> QED
    BY <2>2, <2>3
<1>10. PICK y \in [Nat -> Nat] : y[i + 1] = 0 /\ \A k \in Nat : k # i + 1 => y[k] = z[k]
  <2> DEFINE y == [z EXCEPT ![i + 1] = 0]
  <2>1. z \in [Nat -> Nat]
    BY <1>2 DEF Telling
  <2>2. y \in [Nat -> Nat] /\ y[i + 1] = 0 /\ \A k \in Nat : k # i + 1 => y[k] = z[k]
    BY <1>3a, <2>1
  <2> HIDE DEF y
  <2> QED
    BY <2>2
<1>11. z \in [Nat -> Nat] /\ z[i] = j /\ AllFilled(part, sub, z, i)
  BY <1>2 DEF Telling
<1>12. /\ \A k \in 0 .. i : k \in Nat /\ y[k] = z[k]
       /\ \A k \in 0 .. (i - 1) : k \in 0 .. i /\ part'[k] = part[k] /\ sub'[k] = sub[k]
       /\ \A q \in 0 .. (j - 1) : part'[i][q] = part[i][q]
       /\ sub'[i] = r
  <2>1. /\ \A k \in 0 .. i : k \in Nat /\ k # i + 1
        /\ \A k \in 0 .. (i - 1) : k \in 0 .. i /\ k # i /\ k \in DOMAIN part
    BY ONLY <1>3a
  <2>2. \A q \in 0 .. (j - 1) : q # j /\ q \in DOMAIN part[i]
    BY <1>3a, <1>4, <1>9
  <2>3. sub'[i] = r /\ \A k \in 0 .. (i - 1) : sub'[k] = sub[k]
    <3>1. \A k \in 0 .. (i - 1) : k # i /\ k \in DOMAIN sub
      <4>1. DOMAIN sub = 0 .. (nsub - 1)
        BY <1>3
      <4> QED
        BY ONLY <1>3a, <1>4, <4>1
    <3> QED
      BY <1>4, <1>7, <3>1
  <2>4. \A k \in 0 .. i : k \in Nat /\ y[k] = z[k]
    BY <1>10, <2>1
  <2>5. \A k \in 0 .. (i - 1) : k \in 0 .. i /\ part'[k] = part[k]
    BY <1>8, <2>1
  <2>6. \A q \in 0 .. (j - 1) : part'[i][q] = part[i][q]
    BY <1>8, <2>2
  <2> QED
    BY ONLY <2>3, <2>4, <2>5, <2>6
<1>13. Alike(part, sub, z, part', sub', y, i)
  <2>1. \A k \in 0 .. i : k = i \/ k \in 0 .. (i - 1)
    BY ONLY <1>3a
  <2> QED
    BY <1>11, <1>12, <2>1 DEF Alike
<1>14. Told(part', sub', y, i) = Told(part, sub, z, i)
  BY ONLY <1>3a, <1>11, <1>13, ToldAlike
<1>15. AllFilled(part', sub', y, i + 1)
  <2>1. \A k \in 0 .. (i + 1) : k = i + 1 \/ k = i \/ k \in 0 .. (i - 1)
    BY ONLY <1>3a
  <2>2. ASSUME NEW k \in 0 .. (i - 1) PROVE Filled(part', k, y[k])
    BY <1>11, <1>12 DEF AllFilled, Filled
  <2>3. Filled(part', i, y[i])
    <3>1. i \in 0 .. i
      BY ONLY <1>3a
    <3> QED
      BY <1>11, <1>12, <3>1 DEF AllFilled, Filled
  <2>4. Filled(part', i + 1, y[i + 1])
    BY <1>10 DEF Filled
  <2>5. \A k \in 0 .. ((i + 1) - 1) : k = i \/ k \in 0 .. (i - 1)
    BY ONLY <1>3a
  <2>6. \A k \in 0 .. ((i + 1) - 1) : sub'[k] \in 0 .. 9
    BY <1>11, <1>12, <2>5 DEF AllFilled
  <2> QED
    BY <1>10, <2>1, <2>2, <2>3, <2>4, <2>6 DEF AllFilled
<1>16. Told(part', sub', y, i + 1) = Said(string, next')
  <2>0. i \in Nat
    BY ONLY <1>3a
  <2>1. /\ Told(part', sub', y, i + 1) =
              Told(part', sub', y, i) \o (<<S!Ref(sub'[i])>> \o Text(part', i + 1, y[i + 1]))
        /\ Told(part', sub', y, i) \in Seq(ItemSet) /\ Told(part', sub', y, i + 1) \in Seq(ItemSet)
        /\ AllFilled(part', sub', y, i)
    BY ONLY <2>0, <1>15, ToldNext, Zenon
  <2>2. Text(part', i + 1, y[i + 1]) = <<>>
    BY <1>10 DEF Text
  <2>3. <<S!Ref(r)>> \o <<>> = <<S!Ref(r)>>
    <3>1. S!Ref(r) \in ItemSet
      BY ItemTypes
    <3> QED
      BY <3>1
  <2>4. Told(part, sub, z, i) = Said(string, next)
    BY <1>2 DEF Telling
  <2> QED
    BY <1>7, <1>12, <1>14, <2>1, <2>2, <2>3, <2>4
<1>17. Count(SimpleEscapesIn(string, i + 1), next') = 0
  <2>1. ~ S!Escaped(string)[next + 1]
    <3>1. next < Len(string)
      BY <1>3, <1>5
    <3> QED
      BY <1>3, <3>1 DEF Boundary
  <2>2. UpTo(SimpleEscapesIn(string, i + 1), next') = {}
    <3> SUFFICES ASSUME NEW p \in SimpleEscapesIn(string, i + 1), p <= next' PROVE FALSE
      BY DEF UpTo
    <3>1. /\ p \in 1 .. Len(string) /\ S!Escaped(string)[p] /\ string[p] \notin S!Digits
          /\ Count(Splitters(string), p) = i + 1
      BY <1>3, EscapesOn
    <3>2. p \in Nat /\ p # next + 1
      <4>1. Len(string) \in Nat
        BY <1>3
      <4> QED
        BY ONLY <2>1, <3>1, <4>1, SMTT(20)
    <3>3. ~ (p <= next)
      <4> SUFFICES ASSUME p <= next PROVE FALSE
        OBVIOUS
      <4>1. \A q \in Splitters(string) : q \in Nat /\ q > 0
        BY <1>3, SplittersType
      <4>2. Count(Splitters(string), p) <= Count(Splitters(string), next)
        BY <1>6, <3>2, <4>1, CountMore
      <4> QED
        BY ONLY <1>3, <3>1, <4>2
    <3>4. next' = next + 1 \/ (next' = next + 2 /\ IsReference(next))
      BY DEF ExtractReference, IsReference
    <3>5. p = next + 2 /\ IsReference(next)
      BY <1>6, <3>2, <3>3, <3>4
    <3>6. string[next + 2] \in S!Digits
      BY <1>3, <3>5, Sees
    <3> QED
      BY <3>1, <3>5, <3>6
  <2> QED
    BY <2>2, FS_EmptySet DEF Count
<1>18. \A k \in 0 .. i : Ended(k, y[k])'
  <2> SUFFICES ASSUME NEW k \in 0 .. i PROVE Ended(k, y[k])'
    OBVIOUS
  <2>1. CASE k = i
    <3>1. part_len[i] = j + Cardinality(SimpleEscapesIn(string, i))
      BY <1>1, <1>2, <1>5, PartEnds DEF Telling
    <3>2. y[k] = j
      BY <1>11, <1>12, <2>1
    <3> QED
      BY <1>1, <1>4, <1>8, <2>1, <3>1, <3>2 DEF Ended
  <2>2. CASE k # i
    <3>1. k \in 0 .. (i - 1)
      BY <1>3a, <2>2
    <3>2. Ended(k, z[k]) /\ part'[k] = part[k] /\ y[k] = z[k]
      BY <1>2, <1>12, <3>1 DEF Telling
    <3> QED
      BY <1>1, <3>2 DEF Ended
  <2> QED
    BY <2>1, <2>2
<1>19. (\E x \in [Nat -> Nat] : \E d \in 0 .. next :
         /\ AllFilled(part, sub, x, i) /\ x[i] = j
         /\ Told(part, sub, x, i) = Said(string, next)
         /\ Begins(string, i, d) /\ next - d = j + Count(SimpleEscapesIn(string, i), next)
         /\ \A k \in 0 .. (i - 1) : Ended(k, x[k]))'
  <2>1. PICK d : d = next'
    OBVIOUS
  <2>2. d \in 0 .. d /\ d - d = 0 + 0
    <3>1. d \in Nat
      BY <1>6, <2>1
    <3> QED
      BY ONLY <3>1
  <2>3. y[i + 1] = 0 /\ y \in [Nat -> Nat]
    BY <1>10
  <2>4. /\ string' = string /\ i' = i + 1 /\ j' = 0
    BY <1>1
  <2>5. \A k \in 0 .. (i' - 1) : Ended(k, y[k])'
    BY ONLY <1>3a, <1>18, <2>4
  <2> QED
    BY ONLY <1>5, <1>15, <1>16, <1>17, <2>1, <2>2, <2>3, <2>4, <2>5
<1> QED
  BY <1>1, <1>19 DEF InTexts, Extracted

(***************************************************************************)
(* What the whole string says is its meaning.                              *)
(***************************************************************************)
LEMMA SaidAll ==
    ASSUME NEW s
    PROVE  Said(s, Len(s)) = S!Meaning(s)
  BY DEF Said, S!Meaning, S!FlattenSeq, FlattenSeq

\* The end of the string ends the last part.
LEMMA TellingEnds ==
  ASSUME TextInv, ExtractEnds
  PROVE  InTexts'
<1>1. /\ string' = string /\ sub' = sub /\ nsub' = nsub /\ pc' = "parsed"
      /\ pc = "extract" /\ part_len' = part_len /\ ParseInv /\ Store(Nul) /\ At(next) = Nul
  BY Kept DEF ExtractEnds, TextInv
<1>2. PICK z, b : Telling(z, b)
  BY <1>1 DEF TextInv, InTexts, Telling
<1>3. /\ string \in Seq(Chars) /\ Len(string) \in Nat /\ next \in 0 .. Len(string)
      /\ i \in 0 .. nsub /\ i \in Nat /\ j \in Nat /\ nsub \in Nat
      /\ i = Count(Splitters(string), next) /\ nsub = Cardinality(References(string))
      /\ Splitters(string) = References(string) /\ DOMAIN part = 0 .. nsub
  BY <1>1, InThird
<1>4. /\ i \in DOMAIN part /\ j \in DOMAIN part[i]
  BY <1>1, WriteFits
<1>5. next = Len(string)
  BY <1>1, <1>3, Sees
<1>6. i = nsub
  BY <1>1, <1>3, <1>5, SplittersOn
<1>7. /\ part'[i][j] = Nul /\ \A q \in DOMAIN part[i] : q # j => part'[i][q] = part[i][q]
      /\ \A k \in DOMAIN part : k # i => part'[k] = part[k]
      /\ DOMAIN part' = DOMAIN part /\ DOMAIN part'[i] = DOMAIN part[i]
  BY <1>1, <1>4, Stored
<1>8. PICK n \in Nat : DOMAIN part[i] = 0 .. n
  <2>1. Allocated(i)
    BY <1>1, <1>3, InThird
  <2>2. PICK b0, e \in 0 .. Len(string) : b0 <= e /\ DOMAIN part[i] = 0 .. (e - b0)
    BY <2>1 DEF Allocated
  <2>3. e - b0 \in Nat
    BY ONLY <1>3, <2>2
  <2> QED
    BY <2>2, <2>3
<1>9. z \in [Nat -> Nat] /\ z[i] = j /\ AllFilled(part, sub, z, i)
  BY <1>2 DEF Telling
<1>10. /\ \A k \in 0 .. i : k = i \/ k \in 0 .. (i - 1)
       /\ \A k \in 0 .. (i - 1) : k \in 0 .. i /\ k # i /\ k \in DOMAIN part
  <2>1. i \in Nat /\ nsub \in Nat /\ i <= nsub /\ DOMAIN part = 0 .. nsub
    BY <1>3
  <2> QED
    BY ONLY <2>1
<1>11. /\ \A k \in 0 .. (i - 1) : part'[k] = part[k]
       /\ \A q \in 0 .. (j - 1) : part'[i][q] = part[i][q]
  <2>1. \A q \in 0 .. (j - 1) : q # j /\ q \in DOMAIN part[i]
    BY <1>3, <1>4, <1>8
  <2> QED
    BY <1>7, <1>10, <2>1
<1>12. Alike(part, sub, z, part', sub, z, i)
  BY <1>9, <1>10, <1>11 DEF Alike
<1>13. Told(part', sub, z, i) = Told(part, sub, z, i)
  <2>1. i \in Nat
    BY <1>3
  <2> QED
    BY ONLY <1>9, <1>12, <2>1, ToldAlike
<1>14. AllFilled(part', sub, z, i)
  <2>1. ASSUME NEW k \in 0 .. i PROVE Filled(part', k, z[k])
    <3>1. Filled(part, k, z[k])
      BY <1>9 DEF AllFilled
    <3>2. \A q \in 0 .. (z[k] - 1) : part'[k][q] = part[k][q]
      BY <1>9, <1>10, <1>11
    <3> QED
      BY <3>1, <3>2 DEF Filled
  <2> QED
    BY <1>9, <2>1 DEF AllFilled
<1>15. Told(part', sub, z, i) = S!Meaning(string)
  <2>1. Said(string, Len(string)) = S!Meaning(string)
    BY SaidAll
  <2>2. Told(part, sub, z, i) = Said(string, next)
    BY <1>2 DEF Telling
  <2> QED
    BY ONLY <1>5, <1>13, <2>1, <2>2
<1>16. \A k \in 0 .. i : Ended(k, z[k])'
  <2> SUFFICES ASSUME NEW k \in 0 .. i PROVE Ended(k, z[k])'
    OBVIOUS
  <2>1. CASE k = i
    <3>1. part_len[i] = j + Cardinality(SimpleEscapesIn(string, i))
      BY <1>1, <1>2, <1>5, PartEnds DEF Telling
    <3>2. z[k] = j
      BY <1>9, <2>1
    <3> QED
      BY <1>1, <1>4, <1>7, <2>1, <3>1, <3>2 DEF Ended
  <2>2. CASE k # i
    <3>1. k \in 0 .. (i - 1)
      BY <1>10, <2>2
    <3>2. Ended(k, z[k]) /\ part'[k] = part[k]
      BY <1>2, <1>11, <3>1 DEF Telling
    <3> QED
      BY <1>1, <3>2 DEF Ended
  <2> QED
    BY <2>1, <2>2
<1>17. (\E x \in [Nat -> Nat] :
         /\ AllFilled(part, sub, x, nsub)
         /\ Told(part, sub, x, nsub) = S!Meaning(string)
         /\ \A k \in 0 .. nsub : Ended(k, x[k]))'
  BY <1>1, <1>6, <1>9, <1>14, <1>15, <1>16
<1> QED
  BY <1>1, <1>17 DEF InTexts

\* When the third sweep begins nothing has been told.
LEMMA TellingBegins ==
  ASSUME TextInv, MeasurePart
  PROVE  InTexts'
<1>1. CASE pc' # "extract"
  <2>1. pc' = "measure"
    BY <1>1 DEF MeasurePart
  <2> QED
    BY <1>1, <2>1 DEF InTexts, Extracted
<1>2. CASE pc' = "extract"
  <2>1. next' = 0 /\ i' = 0 /\ j' = 0 /\ string' = string /\ pc = "measure" /\ ParseInv
    BY <1>2, Kept DEF MeasurePart, TextInv
  <2>2. string \in Seq(Chars) /\ Len(string) \in Nat
    BY <2>1, InSecond
  <2>3. PICK z \in [Nat -> Nat] : z[0] = 0
    <3>1. [k \in Nat |-> 0] \in [Nat -> Nat] /\ [k \in Nat |-> 0][0] = 0
      OBVIOUS
    <3> QED
      BY <3>1
  <2>4. AllFilled(part', sub', z, 0)
    <3>1. \A k \in 0 .. 0 : k = 0
      OBVIOUS
    <3>2. 0 .. (0 - 1) = {}
      OBVIOUS
    <3> QED
      BY <2>3, <3>1, <3>2 DEF AllFilled, Filled
  <2>5. Told(part', sub', z, 0) = Said(string, 0)
    <3>1. Told(part', sub', z, 0) = Text(part', 0, z[0])
      BY ONLY <2>4, ToldZero
    <3>2. Text(part', 0, 0) = <<>>
      BY DEF Text
    <3> QED
      BY <2>3, <3>1, <3>2, SaidNothing
  <2>6. Begins(string, 0, 0)
    BY DEF Begins
  <2>7. Count(SimpleEscapesIn(string, 0), 0) = 0
    <3>1. 0 \in 0 .. Len(string)
      BY <2>2
    <3> QED
      BY <2>2, <3>1, EscapesOn
  <2>8. (\E x \in [Nat -> Nat] : \E d \in 0 .. next :
           /\ AllFilled(part, sub, x, i) /\ x[i] = j
           /\ Told(part, sub, x, i) = Said(string, next)
           /\ Begins(string, i, d) /\ next - d = j + Count(SimpleEscapesIn(string, i), next)
           /\ \A k \in 0 .. (i - 1) : Ended(k, x[k]))'
    <3>1. 0 \in 0 .. 0 /\ 0 - 0 = 0 + 0 /\ 0 .. (0 - 1) = {}
      OBVIOUS
    <3>2. \A k \in 0 .. (i' - 1) : Ended(k, z[k])'
      BY <2>1, <3>1
    <3> QED
      BY ONLY <2>1, <2>3, <2>4, <2>5, <2>6, <2>7, <3>1, <3>2
  <2> QED
    BY <1>2, <2>8 DEF InTexts, Extracted
<1> QED
  BY <1>1, <1>2

\* Every step keeps the invariant with what has been told.
LEMMA TextInvStep ==
  TextInv /\ [ParseNext \/ MallocFails]_parseVars => TextInv'
<1> SUFFICES ASSUME TextInv, [ParseNext \/ MallocFails]_parseVars PROVE TextInv'
  OBVIOUS
<1>1. ParseInv'
  BY ParseInvStep DEF TextInv
<1>2. InTexts'
  <2>1. CASE ExtractChar
    BY <2>1, TellingChar
  <2>2. CASE ExtractReference
    BY <2>2, TellingReference
  <2>3. CASE ExtractEnds
    BY <2>3, TellingEnds
  <2>4. CASE MeasurePart
    BY <2>4, TellingBegins
  <2>5. CASE UNCHANGED parseVars
    <3>1. /\ input' = input /\ pc' = pc /\ nsub' = nsub /\ part' = part /\ part_len' = part_len
          /\ sub' = sub /\ next' = next /\ i' = i /\ j' = j /\ string' = string
      BY <2>5, Kept DEF parseVars, replacement, locals
    <3>2. \A k, n : Ended(k, n)' <=> Ended(k, n)
      BY <3>1 DEF Ended
    <3>3. Extracted' <=> Extracted
      BY <3>1 DEF Extracted
    <3> QED
      BY <3>1, <3>2, <3>3 DEF InTexts, TextInv
  <2>6. ASSUME pc' # "extract" /\ ~ Extracted' PROVE InTexts'
    BY <2>6 DEF InTexts
  <2>7. CASE \/ PatternParsed \/ PatternFails \/ CopyString \/ CountOne \/ UnknownEscape
             \/ CountEnds \/ AllocArrays \/ MeasureOne \/ MeasureBeyond \/ MallocFails
    <3>1. input' = input
      BY <2>7 DEF PatternParsed, PatternFails, CopyString, CountOne, UnknownEscape, CountEnds,
         AllocArrays, MeasureOne, MeasureBeyond, MallocFails
    <3>2. pc' # "extract" /\ (pc' = "parsed" => input.fixed)
      BY <2>7 DEF PatternParsed, PatternFails, CopyString, CountOne, UnknownEscape, CountEnds,
         AllocArrays, MeasureOne, MeasureBeyond, MallocFails
    <3> QED
      BY <2>6, <3>1, <3>2 DEF Extracted
  <2> QED
    BY <2>1, <2>2, <2>3, <2>4, <2>5, <2>7 DEF ParseNext
<1> QED
  BY <1>1, <1>2 DEF TextInv

\* The length of a text is the place of its terminator.
LEMMA StrLenIs ==
  ASSUME NEW k, NEW n \in Nat, Filled(part, k, n), Ended(k, n), NEW m \in Nat,
         DOMAIN part[k] = 0 .. m
  PROVE  StrLen(k) = n
<1>1. n \in DOMAIN part[k] /\ part[k][n] = Nul /\ \A q \in 0 .. (n - 1) : part[k][q] # Nul
  BY ItemTypes DEF Filled, Ended
<1>2. ASSUME NEW p \in DOMAIN part[k], part[k][p] = Nul, \A q \in 0 .. (p - 1) : part[k][q] # Nul
      PROVE  p = n
  <2>1. p \in Nat
    OBVIOUS
  <2>2. ~ (p < n)
    <3>1. p < n => p \in 0 .. (n - 1)
      BY <2>1
    <3> QED
      BY <1>1, <1>2, <3>1
  <2>3. ~ (n < p)
    <3>1. n < p => n \in 0 .. (p - 1)
      BY <2>1
    <3> QED
      BY <1>1, <1>2, <3>1
  <2> QED
    BY <2>1, <2>2, <2>3
<1> QED
  BY <1>1, <1>2 DEF StrLen

\* When the string has been parsed, everything has been told.
LEMMA TextInvUse == TextInv => TextsMeanString
<1> SUFFICES ASSUME TextInv, Extracted
             PROVE  /\ Items(StrLen) = S!Meaning(string)
                    /\ \A k \in 0 .. nsub :
                         part_len[k] = StrLen(k) + Cardinality(SimpleEscapesIn(string, k))
  BY DEF TextsMeanString
<1>1. PICK z \in [Nat -> Nat] :
        /\ AllFilled(part, sub, z, nsub)
        /\ Told(part, sub, z, nsub) = S!Meaning(string)
        /\ \A k \in 0 .. nsub : Ended(k, z[k])
  BY DEF TextInv, InTexts
<1>2. nsub \in Nat /\ \A k \in 0 .. nsub : Allocated(k)
  BY DEF TextInv, ParseInv, Types, InExtract
<1>3. \A k \in 0 .. nsub : StrLen(k) = z[k]
  <2> SUFFICES ASSUME NEW k \in 0 .. nsub PROVE StrLen(k) = z[k]
    OBVIOUS
  <2>1. Allocated(k) /\ Ended(k, z[k]) /\ Filled(part, k, z[k]) /\ z[k] \in Nat
    BY <1>1, <1>2 DEF AllFilled, Filled
  <2>2. Len(string) \in Nat
    BY InputType DEF TextInv, ParseInv, Types
  <2>3. PICK b, e \in 0 .. Len(string) : b <= e /\ DOMAIN part[k] = 0 .. (e - b)
    BY <2>1 DEF Allocated
  <2>4. e - b \in Nat
    BY ONLY <2>2, <2>3
  <2> QED
    BY ONLY <2>1, <2>3, <2>4, StrLenIs
<1>4. Items(StrLen) = Told(part, sub, z, nsub)
  <2>1. \A k \in 1 .. nsub : k \in 0 .. nsub
    BY <1>2
  <2>2. 0 \in 0 .. nsub
    BY <1>2
  <2>3. \A k \in 0 .. nsub : Literals(k, StrLen(k)) = Text(part, k, z[k])
    BY <1>3 DEF Literals, Text
  <2>4. [k \in 1 .. nsub |-> <<S!Ref(sub[k - 1])>> \o Literals(k, StrLen(k))]
          = [k \in 1 .. nsub |-> <<S!Ref(sub[k - 1])>> \o Text(part, k, z[k])]
    BY <2>1, <2>3
  <2> QED
    BY <2>2, <2>3, <2>4 DEF Items, Told
<1> QED
  BY <1>1, <1>3, <1>4 DEF Ended

\* The inductive invariant with what has been told.
THEOREM TextInvariant == ParseSpec => []TextInv
<1>1. ParseInit => TextInv
  <2>1. ParseInit => InTexts
    BY DEF ParseInit, InTexts, Extracted
  <2> QED
    BY <2>1, ParseInvInit DEF TextInv
<1>2. TextInv /\ [ParseNext \/ MallocFails]_parseVars => TextInv'
  BY TextInvStep
<1> QED
  BY <1>1, <1>2, PTL DEF ParseSpec

-----------------------------------------------------------------------------
(* The properties.                                                         *)

\* The third sweep writes only to memory the second one allocated, for every
\* replacement string, although they measure by different rules
\* (pattern.c:331-398).
THEOREM WritesStayInParts == ParseSpec => []WritesInParts
BY ParseInvariant, ParseInvUse, PTL

\* The second sweep leaves the arrays for the strings in which it takes an
\* escaped character for a reference, and for no other (pattern.c:331-351).
THEOREM UndefinedForOversplit == ParseSpec => []UndefinedExactly
BY ParseInvariant, ParseInvUse, PTL

\* The first sweep refuses the strings that have no meaning, and no other
\* (pattern.c:275-297).
THEOREM MeaninglessRefused == ParseSpec => RejectsMeaningless
<1>1. ParseInv /\ [ParseNext \/ MallocFails]_parseVars =>
        [pc = "count" /\ pc' # "count" =>
           (pc' = "failed" <=> S!Meaningless(string))]_parseVars
  BY RejectsStep
<1> QED
  BY <1>1, ParseInvariant, PTL DEF ParseSpec, RejectsMeaningless

\* What the parts and references say when the string has been parsed is what
\* the string means, and a length exceeds its text by the simple escapes in
\* it (pattern.c:331-398).
THEOREM PartsTellMeaning == ParseSpec => []TextsMeanString
BY TextInvariant, TextInvUse, PTL
=============================================================================
