------------------------- MODULE NumberedBackupProofs -------------------------
(***************************************************************************)
(* The pass of numbered_backup over a directory, for every listing of it   *)
(* and every radix: strings of digits are compared and incremented as the  *)
(* numbers they are, and the name the pass ends with is one above the      *)
(* largest version it came across.                                         *)
(*                                                                         *)
(* Number and NextVersion are recursive functions.  That they have the     *)
(* values their definitions give them is shown first; the comparison and   *)
(* the increment are then lemmas by induction over the digits, and the pass*)
(* is one by induction over the entries.  RecursionExists, SeqInd and      *)
(* UpwardInd, which this rests on, are in SequenceLemmas.                  *)
(***************************************************************************)
EXTENDS NumberedBackup, SequenceLemmas, FiniteSetTheorems

-----------------------------------------------------------------------------
(* Versions as strings of digits and as numbers.                            *)

\* What a version is written with.
Digit == 0 .. (Radix - 1)

\* The function that Number is defined with.
Counts(f, p) ==
  f = [k \in 0 .. Len(p) |-> IF k = 0 THEN 0 ELSE f[k - 1] * Radix + p[k]]

\* A digit more leads to a natural number.
LEMMA Shift ==
  ASSUME NEW a \in Nat, NEW d \in Nat
  PROVE  a * Radix + d \in Nat
BY RadixAssumption

\* Number goes from digit to digit.
LEMMA NumberIs ==
  ASSUME NEW p \in Seq(Digit)
  PROVE  \E f \in [0 .. Len(p) -> Nat] :
           /\ Number(p) = f[Len(p)] /\ f[0] = 0
           /\ \A k \in 1 .. Len(p) : f[k] = f[k - 1] * Radix + p[k]
<1> DEFINE n == Len(p)
<1>g. PICK g : g = [k \in 1 .. n |-> [x \in Nat |-> x * Radix + p[k]]]
  OBVIOUS
<1>0. n \in Nat /\ 0 \in Nat /\ \A k \in 1 .. n : p[k] \in Nat
  BY RadixAssumption DEF Digit
<1>1. g \in [1 .. n -> [Nat -> Nat]]
  BY <1>0, <1>g, Shift
<1>2a. PICK h : Stepwise(h, Nat, 0, n, g)
  BY <1>0, <1>1, RecursionExists, Zenon
<1>2. h \in [0 .. n -> Nat] /\ h[0] = 0 /\ \A k \in 1 .. n : h[k] = g[k][h[k - 1]]
  BY <1>2a DEF Stepwise
<1>3. \A k \in 1 .. n : k - 1 \in 0 .. n /\ h[k - 1] \in Nat
  <2>1. \A k \in 1 .. n : k - 1 \in 0 .. n
    BY <1>0
  <2>2. \A k \in 0 .. n : h[k] \in Nat
    BY ONLY <1>2
  <2> QED
    BY ONLY <2>1, <2>2
<1>4. \A k \in 1 .. n : h[k] = h[k - 1] * Radix + p[k]
  BY <1>2, <1>3, <1>g
<1>5. Counts(h, p)
  <2>1. \A k \in 0 .. n : h[k] = IF k = 0 THEN 0 ELSE h[k - 1] * Radix + p[k]
    BY <1>0, <1>2, <1>4
  <2>2. h = [k \in 0 .. n |-> h[k]]
    BY <1>2
  <2> QED
    BY <2>1, <2>2 DEF Counts
<1>6. PICK f : f = CHOOSE e : Counts(e, p)
  OBVIOUS
<1>7. Counts(f, p)
  BY <1>5, <1>6
<1>8. Number(p) = f[n]
  BY <1>6 DEF Number, Counts
<1>9. f[0] = 0 /\ \A k \in 1 .. n : f[k] = f[k - 1] * Radix + p[k]
  BY <1>0, <1>7 DEF Counts
<1>10. \A k \in 0 .. n : f[k] = h[k]
  <2> DEFINE P == {k \in 0 .. n : f[k] = h[k]}
  <2>1. 0 \in P /\ P \in SUBSET (0 .. n)
    BY <1>0, <1>2, <1>9
  <2>2. \A k \in 1 .. n : k - 1 \in P => k \in P
    BY <1>0, <1>4, <1>9
  <2> HIDE DEF P, n
  <2>3. P = 0 .. n
    BY <1>0, <2>1, <2>2, UpwardInd, Zenon
  <2> QED
    BY <2>3 DEF P
<1>11. f = [k \in 0 .. n |-> f[k]]
  <2>1. DOMAIN f = 0 .. n /\ f = [k \in DOMAIN f |-> f[k]]
    BY <1>7 DEF Counts
  <2> QED
    BY <2>1
<1>12. f \in [0 .. n -> Nat]
  BY <1>10, <1>11
<1> QED
  BY <1>8, <1>9, <1>12

\* No digits are the number 0.
LEMMA NumberEmpty == Number(<<>>) = 0
<1>1. <<>> \in Seq(Digit) /\ Len(<<>>) = 0
  OBVIOUS
<1>2. PICK f : Number(<<>>) = f[Len(<<>>)] /\ f[0] = 0
  BY <1>1, NumberIs
<1> QED
  BY <1>1, <1>2

\* A digit behind a string shifts its number by one place.
LEMMA NumberAppend ==
  ASSUME NEW p \in Seq(Digit), NEW d \in Digit
  PROVE  Number(Append(p, d)) = Number(p) * Radix + d /\ Number(p) \in Nat
<1> DEFINE n == Len(p)
           q == Append(p, d)
<1>1. n \in Nat /\ q \in Seq(Digit) /\ Len(q) = n + 1 /\ q[n + 1] = d
      /\ \A k \in 1 .. n : q[k] = p[k]
  OBVIOUS
<1>2. PICK f \in [0 .. n -> Nat] :
           /\ Number(p) = f[n] /\ f[0] = 0
           /\ \A k \in 1 .. n : f[k] = f[k - 1] * Radix + p[k]
  BY NumberIs
<1>3. PICK h \in [0 .. (n + 1) -> Nat] :
           /\ Number(q) = h[n + 1] /\ h[0] = 0
           /\ \A k \in 1 .. (n + 1) : h[k] = h[k - 1] * Radix + q[k]
  BY <1>1, NumberIs
<1>4. \A k \in 1 .. n : h[k] = h[k - 1] * Radix + p[k]
  BY <1>1, <1>3
<1>5. \A k \in 0 .. n : f[k] = h[k]
  <2> DEFINE P == {k \in 0 .. n : f[k] = h[k]}
  <2>1. 0 \in P /\ P \in SUBSET (0 .. n)
    BY <1>1, <1>2, <1>3
  <2>2. \A k \in 1 .. n : k - 1 \in P => k \in P
    BY <1>2, <1>4
  <2> HIDE DEF P, n
  <2>3. P = 0 .. n
    BY <1>1, <2>1, <2>2, UpwardInd, Zenon
  <2> QED
    BY <2>3 DEF P
<1>6. h[n + 1] = h[n] * Radix + d
  <2>1. n + 1 \in 1 .. (n + 1) /\ (n + 1) - 1 = n
    BY <1>1
  <2>2. h[n + 1] = h[(n + 1) - 1] * Radix + q[n + 1]
    BY <1>3, <2>1
  <2> QED
    BY ONLY <1>1, <2>1, <2>2
<1>7. h[n] = f[n] /\ f[n] \in Nat
  BY <1>1, <1>5
<1> QED
  BY <1>2, <1>3, <1>6, <1>7

-----------------------------------------------------------------------------
(* Supersedes compares numbers.                                             *)

\* A sequence of digits that is not empty ends in one.
LEMMA LastDigit ==
  ASSUME NEW p \in Seq(Digit), p # <<>>
  PROVE  \E r \in Seq(Digit), d \in Digit :
           /\ p = Append(r, d) /\ Len(p) = Len(r) + 1 /\ Len(r) \in Nat
           /\ \A k \in 1 .. Len(r) : p[k] = r[k]
           /\ p[Len(p)] = d
<1>1. Len(p) \in Nat /\ Len(p) # 0
  OBVIOUS
<1>2. PICK n \in Nat : Len(p) = n + 1
  BY <1>1
<1>3. PICK r \in Seq(Digit), d \in Digit : p = Append(r, d) /\ Len(r) = n
  BY <1>2, FrontLast
<1> QED
  BY <1>2, <1>3

\* A digit more tells two numbers apart only if they were the same.
LEMMA ShiftOrder ==
  ASSUME NEW a \in Nat, NEW b \in Nat, NEW d \in Digit, NEW e \in Digit
  PROVE  /\ a > b => a * Radix + d > b * Radix + e
         /\ a * Radix + d \in Nat /\ b * Radix + e \in Nat
<1>1. Radix \in Nat /\ Radix > 1 /\ d \in Nat /\ e \in Nat /\ e < Radix
  BY RadixAssumption DEF Digit
<1>2. ASSUME a > b PROVE a * Radix + d > b * Radix + e
  <2>1. PICK c \in Nat : a = b + 1 + c
    <3>1. a - b - 1 \in Nat /\ a = b + 1 + (a - b - 1)
      BY <1>2
    <3> QED
      BY <3>1
  <2>2. a * Radix = b * Radix + Radix + c * Radix
    BY <1>1, <2>1
  <2>3. c * Radix \in Nat /\ b * Radix \in Nat
    BY <1>1
  <2> QED
    BY <1>1, <2>2, <2>3
<1> QED
  BY <1>1, <1>2

\* The number of an entry, and that of a version.
LEMMA NumberType ==
  ASSUME NEW p \in Seq(Digit)
  PROVE  Number(p) \in Nat
<1>1. CASE p = <<>>
  BY <1>1, NumberEmpty
<1>2. CASE p # <<>>
  <2>1. PICK r \in Seq(Digit), d \in Digit : p = Append(r, d)
    BY <1>2, LastDigit
  <2>2. Number(p) = Number(r) * Radix + d /\ Number(r) \in Nat
    BY <2>1, NumberAppend
  <2> QED
    BY <2>1, <2>2, ShiftOrder
<1> QED
  BY <1>1, <1>2

\* Without zeros in front, the longer string is the larger number.
LEMMA LongerIsLarger ==
  ASSUME NEW q \in Seq(Digit)
  PROVE  \A p \in Seq(Digit) : IsVersion(p) /\ Len(p) > Len(q) => Number(p) > Number(q)
<1> DEFINE P == {w \in Seq(Digit) :
                   \A p \in Seq(Digit) : IsVersion(p) /\ Len(p) > Len(w) => Number(p) > Number(w)}
<1>0. ASSUME NEW r \in Seq(Digit), NEW d \in Digit, IsVersion(Append(r, d)), r # <<>>
      PROVE  IsVersion(r)
  <2>1. Append(r, d)[1] = r[1]
    BY <1>0
  <2> QED
    BY <1>0, <2>1 DEF IsVersion
<1>1. <<>> \in P
  <2> DEFINE Z == {v \in Seq(Digit) : IsVersion(v) => Number(v) > 0}
  <2>1. <<>> \in Z
    BY DEF IsVersion
  <2>2. ASSUME NEW r \in Z, NEW d \in Digit PROVE Append(r, d) \in Z
    <3>1. Append(r, d) \in Seq(Digit) /\ r \in Seq(Digit)
      OBVIOUS
    <3>2. ASSUME IsVersion(Append(r, d)) PROVE Number(Append(r, d)) > 0
      <4>1. Number(Append(r, d)) = Number(r) * Radix + d /\ Number(r) \in Nat
        BY <3>1, NumberAppend
      <4>2. CASE r = <<>>
        <5>1. d # 0
          BY <3>2, <4>2 DEF IsVersion
        <5>2. Number(r) = 0
          BY <4>2, NumberEmpty
        <5> QED
          BY <4>1, <5>1, <5>2, RadixAssumption DEF Digit
      <4>3. CASE r # <<>>
        <5>1. Number(r) > 0
          BY <1>0, <3>1, <3>2, <4>3
        <5>2. 0 \in Digit /\ 0 \in Nat /\ Radix \in Nat
          BY RadixAssumption DEF Digit
        <5>3. Number(r) * Radix + d > 0 * Radix + 0
          BY <4>1, <5>1, <5>2, ShiftOrder
        <5> QED
          BY <4>1, <5>2, <5>3
      <4> QED
        BY <4>2, <4>3
    <3> QED
      BY <3>1, <3>2
  <2>3. Z \in SUBSET Seq(Digit)
    OBVIOUS
  <2> HIDE DEF Z
  <2>4. Z = Seq(Digit)
    BY <2>1, <2>2, <2>3, SeqInd, Zenon
  <2> QED
    BY <2>4, NumberEmpty DEF Z
<1>2. ASSUME NEW w \in P, NEW e \in Digit PROVE Append(w, e) \in P
  <2>1. Append(w, e) \in Seq(Digit) /\ w \in Seq(Digit) /\ Len(Append(w, e)) = Len(w) + 1
        /\ Len(w) \in Nat
    OBVIOUS
  <2>2. ASSUME NEW p \in Seq(Digit), IsVersion(p), Len(p) > Len(w) + 1
        PROVE  Number(p) > Number(Append(w, e))
    <3>1. p # <<>>
      BY <2>2 DEF IsVersion
    <3>2. PICK r \in Seq(Digit), d \in Digit :
           /\ p = Append(r, d) /\ Len(p) = Len(r) + 1 /\ Len(r) \in Nat
           /\ \A k \in 1 .. Len(r) : p[k] = r[k]
           /\ p[Len(p)] = d
      BY <3>1, LastDigit
    <3>3. Len(r) > Len(w) /\ r # <<>>
      BY <2>1, <2>2, <3>2
    <3>4. IsVersion(r)
      BY <1>0, <2>2, <3>2, <3>3
    <3>5. Number(r) > Number(w)
      BY <3>3, <3>4
    <3>6. /\ Number(p) = Number(r) * Radix + d /\ Number(r) \in Nat
          /\ Number(Append(w, e)) = Number(w) * Radix + e /\ Number(w) \in Nat
      BY <2>1, <3>2, NumberAppend
    <3> QED
      BY <3>5, <3>6, ShiftOrder
  <2> QED
    BY <2>1, <2>2
<1>3. P \in SUBSET Seq(Digit)
  OBVIOUS
<1> HIDE DEF P
<1>4. P = Seq(Digit)
  BY <1>1, <1>2, <1>3, SeqInd, Zenon
<1> QED
  BY <1>4 DEF P

\* Of two strings of one length, the one memcmp puts behind is the larger
\* number.
Comparable(p, q) ==
  /\ NotBefore(p, q) <=> Number(p) >= Number(q)
  /\ p # q => Number(p) # Number(q)

\* The comparison of two strings, from that of the strings without the last digit.
LEMMA CompareAppend ==
  ASSUME NEW r \in Seq(Digit), NEW w \in Seq(Digit), Len(r) = Len(w),
         NEW d \in Digit, NEW e \in Digit, Comparable(r, w)
  PROVE  Comparable(Append(r, d), Append(w, e))
<1> DEFINE n == Len(r)
<1>1. PICK p : p = Append(r, d)
  OBVIOUS
<1>2. PICK q : q = Append(w, e)
  OBVIOUS
<1>3. /\ n \in Nat /\ Len(w) = n /\ DOMAIN r = 1 .. n /\ DOMAIN w = 1 .. n
      /\ DOMAIN p = 1 .. (n + 1) /\ p[n + 1] = d /\ q[n + 1] = e
      /\ \A k \in 1 .. n : p[k] = r[k] /\ q[k] = w[k] /\ r[k] \in Digit /\ w[k] \in Digit
  BY <1>1, <1>2
<1>4. d \in Int /\ e \in Int /\ \A k \in 1 .. n : r[k] \in Int /\ w[k] \in Int
  BY <1>3, RadixAssumption DEF Digit
<1>5. /\ Number(p) = Number(r) * Radix + d /\ Number(r) \in Nat
      /\ Number(q) = Number(w) * Radix + e /\ Number(w) \in Nat
      /\ Number(r) * Radix \in Nat
  <2>1. Number(r) \in Nat /\ Number(w) \in Nat /\ Number(p) = Number(r) * Radix + d
        /\ Number(q) = Number(w) * Radix + e
    BY <1>1, <1>2, NumberAppend
  <2> QED
    BY <2>1, RadixAssumption
<1>6. Number(p) \in Nat /\ Number(q) \in Nat
  BY <1>5, ShiftOrder
<1> HIDE DEF n
<1>7. CASE r = w
  <2>1. \A k \in 1 .. n : p[k] = q[k]
    BY <1>3, <1>7
  <2>2. NotBefore(p, q) <=> ~ (d < e)
    <3>1. ASSUME d < e PROVE ~ NotBefore(p, q)
      <4>1. n + 1 \in DOMAIN p /\ p[n + 1] < q[n + 1] /\ (n + 1) - 1 = n
        BY <1>3, <3>1
      <4>2. \A h \in 1 .. n : ~ (p[h] > q[h])
        BY <1>3, <1>4, <2>1
      <4> QED
        BY <4>1, <4>2 DEF NotBefore
    <3>2. ASSUME ~ (d < e), NEW k \in DOMAIN p PROVE ~ (p[k] < q[k])
      <4>1. CASE k = n + 1
        BY <1>3, <3>2, <4>1
      <4>2. CASE k # n + 1
        BY <1>3, <1>4, <2>1, <4>2
      <4> QED
        BY <4>1, <4>2
    <3> QED
      BY <3>1, <3>2 DEF NotBefore
  <2>3. Number(p) >= Number(q) <=> ~ (d < e)
    BY <1>4, <1>5, <1>7
  <2>4. p # q => d # e
    BY <1>1, <1>2, <1>7
  <2>5. d # e => Number(p) # Number(q)
    BY <1>4, <1>5, <1>7
  <2> QED
    BY <1>1, <1>2, <2>2, <2>3, <2>4, <2>5 DEF Comparable
<1>8. CASE r # w /\ NotBefore(r, w)
  <2>1. Number(r) > Number(w)
    BY <1>5, <1>8 DEF Comparable
  <2>2. Number(p) > Number(q)
    BY <1>5, <2>1, ShiftOrder
  <2>3. PICK h \in 1 .. n : r[h] > w[h]
    <3>1. PICK k \in 1 .. n : r[k] # w[k]
      BY <1>3, <1>8
    <3>2. CASE r[k] > w[k]
      BY <3>2
    <3>3. CASE r[k] < w[k]
      <4>1. PICK h \in 1 .. (k - 1) : r[h] > w[h]
        BY <1>3, <1>8, <3>3 DEF NotBefore
      <4>2. h \in 1 .. n
        BY <1>3
      <4> QED
        BY <4>1, <4>2
    <3> QED
      BY <1>4, <3>1, <3>2, <3>3
  <2>4. ASSUME NEW k \in DOMAIN p, p[k] < q[k] PROVE \E x \in 1 .. k - 1 : p[x] > q[x]
    <3>1. CASE k = n + 1
      <4>1. h \in 1 .. k - 1 /\ p[h] > q[h]
        BY <1>3, <2>3, <3>1
      <4> QED
        BY <4>1
    <3>2. CASE k # n + 1
      <4>1. k \in 1 .. n
        BY <1>3, <3>2
      <4>2. r[k] < w[k]
        BY <1>3, <2>4, <4>1
      <4>3. PICK x \in 1 .. k - 1 : r[x] > w[x]
        BY <1>3, <1>8, <4>1, <4>2 DEF NotBefore
      <4>4. x \in 1 .. n
        BY <1>3, <4>1
      <4> QED
        BY <1>3, <4>3, <4>4
    <3> QED
      BY <3>1, <3>2
  <2>5. NotBefore(p, q)
    BY <2>4 DEF NotBefore
  <2> QED
    BY <1>1, <1>2, <1>6, <2>2, <2>5 DEF Comparable
<1>9. CASE ~ NotBefore(r, w)
  <2>1. Number(w) > Number(r)
    BY <1>5, <1>9 DEF Comparable
  <2>2. Number(q) > Number(p)
    BY <1>5, <2>1, ShiftOrder
  <2>3. PICK k \in 1 .. n : r[k] < w[k] /\ \A h \in 1 .. k - 1 : ~ (r[h] > w[h])
    BY <1>3, <1>9 DEF NotBefore
  <2>4. k \in DOMAIN p /\ p[k] < q[k] /\ \A h \in 1 .. k - 1 : ~ (p[h] > q[h])
    <3>1. k \in DOMAIN p /\ \A h \in 1 .. k - 1 : h \in 1 .. n
      BY <1>3
    <3> QED
      BY <1>3, <2>3, <3>1
  <2>5. ~ NotBefore(p, q)
    BY <2>4 DEF NotBefore
  <2> QED
    BY <1>1, <1>2, <1>6, <2>2, <2>5 DEF Comparable
<1> QED
  BY <1>7, <1>8, <1>9

\* Strings of one length compare as the numbers they are.
LEMMA SameLength ==
  ASSUME NEW q \in Seq(Digit)
  PROVE  \A p \in Seq(Digit) : Len(p) = Len(q) => Comparable(p, q)
<1> DEFINE P == {w \in Seq(Digit) : \A p \in Seq(Digit) : Len(p) = Len(w) => Comparable(p, w)}
<1>1. <<>> \in P
  <2>1. NotBefore(<<>>, <<>>)
    BY DEF NotBefore
  <2>2. Comparable(<<>>, <<>>)
    BY <2>1, NumberEmpty DEF Comparable
  <2>3. \A p \in Seq(Digit) : Len(p) = Len(<<>>) => p = <<>>
    OBVIOUS
  <2>4. <<>> \in Seq(Digit)
    OBVIOUS
  <2> QED
    BY <2>2, <2>3, <2>4
<1>2. ASSUME NEW w \in P, NEW e \in Digit PROVE Append(w, e) \in P
  <2>1. Append(w, e) \in Seq(Digit) /\ w \in Seq(Digit) /\ Len(Append(w, e)) = Len(w) + 1
        /\ Len(w) \in Nat
    OBVIOUS
  <2>2. ASSUME NEW p \in Seq(Digit), Len(p) = Len(w) + 1 PROVE Comparable(p, Append(w, e))
    <3>1. p # <<>>
      BY <2>1, <2>2
    <3>2. PICK r \in Seq(Digit), d \in Digit :
           /\ p = Append(r, d) /\ Len(p) = Len(r) + 1 /\ Len(r) \in Nat
           /\ \A k \in 1 .. Len(r) : p[k] = r[k]
           /\ p[Len(p)] = d
      BY <3>1, LastDigit
    <3>3. Len(r) = Len(w)
      BY <2>1, <2>2, <3>2
    <3>4. Comparable(r, w)
      BY <3>3
    <3> QED
      BY <2>1, <3>2, <3>3, <3>4, CompareAppend
  <2> QED
    BY <2>1, <2>2
<1>3. P \in SUBSET Seq(Digit)
  OBVIOUS
<1> HIDE DEF P
<1>4. P = Seq(Digit)
  BY <1>1, <1>2, <1>3, SeqInd, Zenon
<1> QED
  BY <1>4 DEF P

\* An entry supersedes the name built so far if its number is no smaller.
LEMMA SupersedesIs ==
  ASSUME NEW p \in Seq(Digit), NEW b \in Seq(Digit), IsVersion(p), IsVersion(b)
  PROVE  Supersedes(p, b) <=> Number(p) >= Number(b)
<1>1. Number(p) \in Nat /\ Number(b) \in Nat /\ Len(p) \in Nat /\ Len(b) \in Nat
  BY NumberType
<1>2. CASE Len(p) > Len(b)
  <2>1. Number(p) > Number(b)
    BY <1>2, LongerIsLarger
  <2> QED
    BY <1>1, <1>2, <2>1 DEF Supersedes
<1>3. CASE Len(p) = Len(b)
  <2>1. NotBefore(p, b) <=> Number(p) >= Number(b)
    BY <1>3, SameLength DEF Comparable
  <2> QED
    BY <1>1, <1>3, <2>1 DEF Supersedes
<1>4. CASE Len(p) < Len(b)
  <2>1. Number(b) > Number(p)
    BY <1>1, <1>4, LongerIsLarger
  <2> QED
    BY <1>1, <1>4, <2>1 DEF Supersedes
<1> QED
  BY <1>1, <1>2, <1>3, <1>4

-----------------------------------------------------------------------------
(* Increment adds one.                                                      *)

\* l is the last digit that is not a nine.
LastBelowNine(q, l) ==
  l \in DOMAIN q /\ q[l] # Nine /\ \A h \in l + 1 .. Len(q) : q[h] = Nine

\* What Increment makes of the digits from there on.
Bumped(q, l) == [k \in DOMAIN q |-> IF k < l THEN q[k] ELSE IF k = l THEN q[k] + 1 ELSE 0]

\* Increment, once there is a digit below nine.
FromLast(q) ==
  Bumped(q, CHOOSE k \in DOMAIN q : q[k] # Nine /\ \A h \in k + 1 .. Len(q) : q[h] = Nine)

\* One more, with as many digits.
LEMMA BumpedIs ==
  ASSUME NEW q \in Seq(Digit), NEW x \in DOMAIN q, q[x] # Nine
  PROVE  \E l \in DOMAIN q :
           LastBelowNine(q, l) /\ Bumped(q, l) \in Seq(Digit) /\ Number(Bumped(q, l)) = Number(q) + 1
<1> DEFINE Good(w) ==
             (\E k \in DOMAIN w : w[k] # Nine) =>
               \E l \in DOMAIN w :
                 /\ LastBelowNine(w, l) /\ Bumped(w, l) \in Seq(Digit)
                 /\ Number(Bumped(w, l)) = Number(w) + 1
           P == {w \in Seq(Digit) : Good(w)}
<1>0. Radix \in Nat /\ Radix > 1 /\ Nine \in Digit /\ 0 \in Digit
      /\ \A d \in Digit : d # Nine => d + 1 \in Digit /\ d \in Nat
  BY RadixAssumption DEF Digit, Nine
<1>1. <<>> \in P
  OBVIOUS
<1>2. ASSUME NEW w \in P, NEW e \in Digit PROVE Append(w, e) \in P
  <2>1. PICK q2 : q2 = Append(w, e)
    OBVIOUS
  <2>2. w \in Seq(Digit) /\ Good(w)
    OBVIOUS
  <2> DEFINE n == Len(w)
  <2>3. /\ q2 \in Seq(Digit) /\ n \in Nat /\ Len(q2) = n + 1 /\ DOMAIN q2 = 1 .. (n + 1)
        /\ DOMAIN w = 1 .. n /\ q2[n + 1] = e
        /\ \A k \in 1 .. n : q2[k] = w[k] /\ w[k] \in Digit
    BY <2>1, <2>2
  <2>4. Number(q2) = Number(w) * Radix + e /\ Number(w) \in Nat
    BY <2>1, <2>2, NumberAppend
  <2> HIDE DEF n
  <2>5. CASE e # Nine
    <3>1. LastBelowNine(q2, n + 1)
      BY <2>3, <2>5 DEF LastBelowNine
    <3>2. Append(w, e + 1) \in Seq(Digit)
      BY <1>0, <2>2, <2>5
    <3>3. Bumped(q2, n + 1) = [k \in 1 .. (n + 1) |-> IF k = n + 1 THEN e + 1 ELSE w[k]]
      <4>1. \A k \in 1 .. (n + 1) :
              (IF k < n + 1 THEN q2[k] ELSE IF k = n + 1 THEN q2[k] + 1 ELSE 0)
              = IF k = n + 1 THEN e + 1 ELSE w[k]
        BY <2>3
      <4> QED
        BY <2>3, <4>1 DEF Bumped
    <3>4. Append(w, e + 1) = [k \in 1 .. (n + 1) |-> IF k = n + 1 THEN e + 1 ELSE w[k]]
      BY <2>2 DEF n
    <3>5. Number(Append(w, e + 1)) = Number(w) * Radix + (e + 1)
      BY <1>0, <2>2, <2>5, NumberAppend
    <3>6. Number(Append(w, e + 1)) = Number(q2) + 1
      <4>1. Number(w) * Radix \in Nat /\ e \in Nat
        BY <1>0, <2>4, <2>5
      <4> QED
        BY <2>4, <3>5, <4>1
    <3>7. n + 1 \in DOMAIN q2
      BY <2>3
    <3>8. Good(q2)
      BY <3>1, <3>2, <3>3, <3>4, <3>6, <3>7
    <3> QED
      BY <2>1, <2>3, <3>8
  <2>6. CASE e = Nine /\ \E k \in DOMAIN w : w[k] # Nine
    <3>1. PICK l \in DOMAIN w :
            /\ LastBelowNine(w, l) /\ Bumped(w, l) \in Seq(Digit)
            /\ Number(Bumped(w, l)) = Number(w) + 1
      BY <2>2, <2>6
    <3>2. l \in DOMAIN q2 /\ l \in Nat /\ l <= n
      BY <2>3
    <3>3. LastBelowNine(q2, l)
      <4>1. q2[l] # Nine /\ \A h \in l + 1 .. n : q2[h] = Nine
        <5>1. \A h \in l + 1 .. n : h \in 1 .. n
          BY <3>2
        <5> QED
          BY <2>3, <3>1, <5>1 DEF LastBelowNine, n
      <4>2. \A h \in l + 1 .. (n + 1) : h \in l + 1 .. n \/ h = n + 1
        BY <2>3, <3>2
      <4> QED
        BY <2>3, <2>6, <3>2, <4>1, <4>2 DEF LastBelowNine
    <3>4. PICK b : b = Bumped(w, l)
      OBVIOUS
    <3>5. b \in Seq(Digit) /\ Len(b) = n
      <4>1. b \in Seq(Digit)
        BY <3>1, <3>4
      <4>2. DOMAIN b = 1 .. n
        BY <2>3, <3>4 DEF Bumped
      <4>3. Len(b) \in Nat /\ DOMAIN b = 1 .. Len(b)
        BY ONLY <4>1
      <4>4. \A i, j \in Nat : 1 .. i = 1 .. j => i = j
        <5> SUFFICES ASSUME NEW i \in Nat, NEW j \in Nat, 1 .. i = 1 .. j PROVE i = j
          OBVIOUS
        <5>1. i >= 1 => i \in 1 .. j
          OBVIOUS
        <5>2. j >= 1 => j \in 1 .. i
          OBVIOUS
        <5> QED
          BY <5>1, <5>2
      <4> QED
        BY ONLY <2>3, <4>1, <4>2, <4>3, <4>4
    <3>6. Bumped(q2, l) = Append(b, 0)
      <4>1. \A k \in 1 .. n : b[k] = IF k < l THEN w[k] ELSE IF k = l THEN w[k] + 1 ELSE 0
        BY <2>3, <3>4 DEF Bumped
      <4>2. Bumped(q2, l) = [k \in 1 .. (n + 1) |-> IF k = n + 1 THEN 0 ELSE b[k]]
        <5>1. \A k \in 1 .. (n + 1) :
                (IF k < l THEN q2[k] ELSE IF k = l THEN q2[k] + 1 ELSE 0)
                = IF k = n + 1 THEN 0 ELSE b[k]
          <6> SUFFICES ASSUME NEW k \in 1 .. (n + 1)
                       PROVE  (IF k < l THEN q2[k] ELSE IF k = l THEN q2[k] + 1 ELSE 0)
                              = IF k = n + 1 THEN 0 ELSE b[k]
            OBVIOUS
          <6>1. CASE k = n + 1
            BY <2>3, <3>2, <6>1
          <6>2. CASE k # n + 1
            <7>1. k \in 1 .. n
              BY <2>3, <6>2
            <7> QED
              BY <2>3, <4>1, <6>2, <7>1
          <6> QED
            BY <6>1, <6>2
        <5> QED
          BY <2>3, <5>1 DEF Bumped
      <4>3. Append(b, 0) = [k \in 1 .. (n + 1) |-> IF k = n + 1 THEN 0 ELSE b[k]]
        <5>1. /\ Append(b, 0) \in Seq(Digit) /\ Len(Append(b, 0)) = Len(b) + 1
              /\ DOMAIN Append(b, 0) = 1 .. (Len(b) + 1)
              /\ \A k \in 1 .. Len(b) : Append(b, 0)[k] = b[k]
              /\ Append(b, 0)[Len(b) + 1] = 0 /\ Len(b) \in Nat
          BY <1>0, <3>5
        <5>2. PICK c : c = Append(b, 0)
          OBVIOUS
        <5>3. c = [k \in 1 .. (n + 1) |-> c[k]]
          <6>1. c \in Seq(Digit) /\ DOMAIN c = 1 .. (n + 1)
            BY ONLY <3>5, <5>1, <5>2
          <6>2. c = [k \in DOMAIN c |-> c[k]]
            BY ONLY <6>1
          <6> QED
            BY ONLY <6>1, <6>2
        <5>4. \A k \in 1 .. (n + 1) : k = n + 1 \/ k \in 1 .. n
          BY <2>3
        <5>5. \A k \in 1 .. (n + 1) : c[k] = IF k = n + 1 THEN 0 ELSE b[k]
          BY ONLY <3>5, <5>1, <5>2, <5>4
        <5> QED
          BY ONLY <5>2, <5>3, <5>5
      <4> QED
        BY <4>2, <4>3
    <3>7. Append(b, 0) \in Seq(Digit) /\ Number(Append(b, 0)) = Number(b) * Radix + 0
      BY <1>0, <3>5, NumberAppend
    <3>8. Number(b) = Number(w) + 1
      BY <3>1, <3>4
    <3>9. (Number(w) + 1) * Radix = Number(w) * Radix + Radix /\ Number(w) * Radix \in Nat
      BY <1>0, <2>4
    <3>10. Number(Append(b, 0)) = Number(q2) + 1
      BY <1>0, <2>4, <2>6, <3>7, <3>8, <3>9 DEF Nine
    <3>11. Good(q2)
      BY <3>2, <3>3, <3>6, <3>7, <3>10
    <3> QED
      BY <2>1, <2>3, <3>11
  <2>7. CASE e = Nine /\ ~ \E k \in DOMAIN w : w[k] # Nine
    <3>1. \A k \in DOMAIN q2 : q2[k] = Nine
      BY <2>3, <2>7
    <3> QED
      BY <2>1, <2>3, <3>1
  <2> QED
    BY <2>5, <2>6, <2>7
<1>3. P \in SUBSET Seq(Digit)
  OBVIOUS
<1> HIDE DEF P
<1>4. P = Seq(Digit)
  BY <1>1, <1>2, <1>3, SeqInd, Zenon
<1> QED
  BY <1>4 DEF P

\* A zero in front says nothing.
LEMMA ZeroInFront ==
  ASSUME NEW p \in Seq(Digit)
  PROVE  Number(<<0>> \o p) = Number(p) /\ <<0>> \o p \in Seq(Digit)
<1> DEFINE P == {w \in Seq(Digit) : Number(<<0>> \o w) = Number(w)}
<1>0. 0 \in Digit /\ Radix \in Nat /\ <<>> \in Seq(Digit) /\ <<0>> \in Seq(Digit)
  BY RadixAssumption DEF Digit
<1>1. <<>> \in P
  <2>1. <<0>> \o <<>> = Append(<<>>, 0)
    BY <1>0
  <2>2. Number(Append(<<>>, 0)) = Number(<<>>) * Radix + 0
    BY <1>0, NumberAppend
  <2>3. Number(Append(<<>>, 0)) = 0
    BY <1>0, <2>2, NumberEmpty
  <2> QED
    BY <1>0, <2>1, <2>3, NumberEmpty
<1>2. ASSUME NEW w \in P, NEW e \in Digit PROVE Append(w, e) \in P
  <2>1. w \in Seq(Digit) /\ Append(w, e) \in Seq(Digit) /\ <<0>> \o w \in Seq(Digit)
    BY <1>0
  <2>2. <<0>> \o Append(w, e) = Append(<<0>> \o w, e)
    BY <1>0, <2>1
  <2>3. Number(Append(<<0>> \o w, e)) = Number(<<0>> \o w) * Radix + e
    BY <2>1, NumberAppend
  <2>4. Number(Append(w, e)) = Number(w) * Radix + e
    BY <2>1, NumberAppend
  <2> QED
    BY <2>1, <2>2, <2>3, <2>4
<1>3. P \in SUBSET Seq(Digit)
  OBVIOUS
<1> HIDE DEF P
<1>4. P = Seq(Digit)
  BY <1>1, <1>2, <1>3, SeqInd, Zenon
<1> QED
  BY <1>0, <1>4 DEF P

\* The last digit below nine is one only.
LEMMA LastBelowNineOnly ==
  ASSUME NEW q \in Seq(Digit), NEW l \in DOMAIN q, NEW m \in DOMAIN q,
         LastBelowNine(q, l), LastBelowNine(q, m)
  PROVE  l = m
<1>1. Len(q) \in Nat /\ DOMAIN q = 1 .. Len(q)
  OBVIOUS
<1>2. ~ (l < m)
  <2> SUFFICES ASSUME l < m PROVE FALSE
    OBVIOUS
  <2>1. m \in l + 1 .. Len(q)
    BY <1>1
  <2> QED
    BY <2>1 DEF LastBelowNine
<1>3. ~ (m < l)
  <2> SUFFICES ASSUME m < l PROVE FALSE
    OBVIOUS
  <2>1. l \in m + 1 .. Len(q)
    BY <1>1
  <2> QED
    BY <2>1 DEF LastBelowNine
<1> QED
  BY <1>1, <1>2, <1>3

\* The next version, without a zero in front.
LEMMA IncrementIs ==
  ASSUME NEW p \in Seq(Digit), IsVersion(p)
  PROVE  /\ Increment(p) \in Seq(Digit) /\ IsVersion(Increment(p))
         /\ Number(Increment(p)) = Number(p) + 1
<1>0. 0 \in Digit /\ 0 # Nine /\ p[1] # 0 /\ p # <<>>
  BY RadixAssumption DEF Digit, Nine, IsVersion
<1>1. PICK q : q = IF \A k \in DOMAIN p : p[k] = Nine THEN <<0>> \o p ELSE p
  OBVIOUS
<1>2. /\ Len(p) \in Nat /\ Len(<<0>> \o p) = Len(p) + 1 /\ (<<0>> \o p)[1] = 0
      /\ \A k \in 2 .. (Len(p) + 1) : (<<0>> \o p)[k] = p[k - 1] /\ k - 1 \in DOMAIN p
      /\ <<0>> \o p \in Seq(Digit) /\ 1 \in DOMAIN p
  <2>1. <<0>> \in Seq(Digit) /\ <<0>>[1] = 0 /\ Len(<<0>>) = 1
    BY <1>0
  <2> QED
    BY <1>0, <2>1
<1>3. q \in Seq(Digit) /\ Number(q) = Number(p) /\ 1 \in DOMAIN q
  BY <1>1, <1>2, ZeroInFront
<1>4. \E x \in DOMAIN q : q[x] # Nine
  <2>1. CASE \A k \in DOMAIN p : p[k] = Nine
    BY <1>0, <1>1, <1>2, <1>3, <2>1
  <2>2. CASE ~ \A k \in DOMAIN p : p[k] = Nine
    BY <1>1, <2>2
  <2> QED
    BY <2>1, <2>2
<1>5. PICK l \in DOMAIN q :
        LastBelowNine(q, l) /\ Bumped(q, l) \in Seq(Digit) /\ Number(Bumped(q, l)) = Number(q) + 1
  BY <1>3, <1>4, BumpedIs
<1>6. PICK last : last = CHOOSE k \in DOMAIN q : q[k] # Nine /\ \A h \in k + 1 .. Len(q) : q[h] = Nine
  OBVIOUS
<1>7. last \in DOMAIN q /\ LastBelowNine(q, last)
  BY <1>5, <1>6 DEF LastBelowNine
<1>8. last = l
  BY <1>3, <1>5, <1>7, LastBelowNineOnly
<1>9. Increment(p) = Bumped(q, l)
  <2>1. Increment(p) = FromLast(IF \A k \in DOMAIN p : p[k] = Nine THEN <<0>> \o p ELSE p)
    BY Zenon DEF Increment, FromLast, Bumped
  <2>2. Increment(p) = FromLast(q)
    BY ONLY <1>1, <2>1
  <2>3. FromLast(q) = Bumped(q, last)
    BY ONLY <1>6, Zenon DEF FromLast
  <2> QED
    BY ONLY <1>8, <2>2, <2>3
<1>10. IsVersion(Bumped(q, l))
  <2>1. DOMAIN Bumped(q, l) = DOMAIN q
    BY DEF Bumped
  <2>2. Bumped(q, l) # <<>>
    BY <1>3, <2>1
  <2>3. CASE l = 1
    <3>1. Bumped(q, l)[1] = q[1] + 1
      BY <1>3, <2>3 DEF Bumped
    <3>2. q[1] \in Nat
      BY <1>3, RadixAssumption DEF Digit
    <3> QED
      BY <2>2, <3>1, <3>2 DEF IsVersion
  <2>4. CASE l # 1
    <3>1. l \in Nat /\ 1 < l /\ l <= Len(q)
      BY <1>3, <1>5, <2>4
    <3>2. Bumped(q, l)[1] = q[1]
      BY <1>3, <3>1 DEF Bumped
    <3>3. ~ \A k \in DOMAIN p : p[k] = Nine
      <4> SUFFICES ASSUME \A k \in DOMAIN p : p[k] = Nine PROVE FALSE
        OBVIOUS
      <4>1. q = <<0>> \o p
        BY <1>1
      <4>2. l \in 2 .. (Len(p) + 1)
        BY <1>2, <3>1, <4>1
      <4>3. q[l] = Nine
        BY <1>2, <4>1, <4>2
      <4> QED
        BY <1>5, <4>3 DEF LastBelowNine
    <3>4. q = p
      BY <1>1, <3>3
    <3> QED
      BY <1>0, <2>2, <3>2, <3>4 DEF IsVersion
  <2> QED
    BY <2>3, <2>4
<1> QED
  BY <1>3, <1>5, <1>9, <1>10

-----------------------------------------------------------------------------
(* The pass over the directory.                                             *)

\* The strings that are versions.
Version == {p \in Seq(Digit) : IsVersion(p)}

\* The function that NextVersion is defined with.
Passes(f, listing) ==
  f = [k \in 0 .. Len(listing) |->
         IF k = 0 THEN <<1>>
         ELSE LET p == listing[k] IN
              IF IsVersion(p) /\ Supersedes(p, f[k - 1]) THEN Increment(p) ELSE f[k - 1]]

\* The name after an entry p of the directory, when b was built before.
After(p, b) == IF IsVersion(p) /\ Supersedes(p, b) THEN Increment(p) ELSE b

\* NextVersion goes from entry to entry.
LEMMA NextVersionIs ==
  ASSUME NEW listing \in Seq(Seq(Digit))
  PROVE  \E f \in [0 .. Len(listing) -> Version] :
           /\ NextVersion(listing) = f[Len(listing)] /\ f[0] = <<1>>
           /\ \A k \in 1 .. Len(listing) : f[k] = After(listing[k], f[k - 1])
<1> DEFINE n == Len(listing)
<1>g. PICK g : g = [k \in 1 .. n |-> [b \in Version |-> After(listing[k], b)]]
  OBVIOUS
<1>0. n \in Nat /\ \A k \in 1 .. n : listing[k] \in Seq(Digit)
  OBVIOUS
<1>1. <<1>> \in Version
  <2>1. 1 \in Digit
    BY RadixAssumption DEF Digit
  <2>2. <<1>> \in Seq(Digit) /\ <<1>> # <<>> /\ <<1>>[1] = 1
    BY <2>1
  <2> QED
    BY <2>2 DEF Version, IsVersion
<1>2. \A k \in 1 .. n : \A b \in Version : After(listing[k], b) \in Version
  BY <1>0, IncrementIs DEF After, Version
<1>3. g \in [1 .. n -> [Version -> Version]]
  BY <1>g, <1>2
<1>4. PICK h : Stepwise(h, Version, <<1>>, n, g)
  BY <1>0, <1>1, <1>3, RecursionExists, Zenon
<1>5. h \in [0 .. n -> Version] /\ h[0] = <<1>> /\ \A k \in 1 .. n : h[k] = g[k][h[k - 1]]
  BY <1>4 DEF Stepwise
<1>6. \A k \in 1 .. n : k - 1 \in 0 .. n /\ h[k - 1] \in Version
  <2>1. \A k \in 1 .. n : k - 1 \in 0 .. n
    BY <1>0
  <2>2. \A k \in 0 .. n : h[k] \in Version
    BY ONLY <1>5
  <2> QED
    BY ONLY <2>1, <2>2
<1>7. \A k \in 1 .. n : h[k] = After(listing[k], h[k - 1])
  BY <1>5, <1>6, <1>g
<1>8. Passes(h, listing)
  <2>1. \A k \in 0 .. n : k # 0 => k \in 1 .. n
    BY <1>0
  <2>2. \A k \in 0 .. n : h[k] = IF k = 0 THEN <<1>> ELSE After(listing[k], h[k - 1])
    BY <1>5, <1>7, <2>1
  <2>3. h = [k \in 0 .. n |-> h[k]]
    BY <1>5
  <2>4. h = [k \in 0 .. n |-> IF k = 0 THEN <<1>> ELSE After(listing[k], h[k - 1])]
    BY <2>2, <2>3
  <2> QED
    BY <2>4, Zenon DEF Passes, After
<1>9. PICK f : f = CHOOSE e : Passes(e, listing)
  OBVIOUS
<1>10. Passes(f, listing)
  BY <1>8, <1>9
<1>11. NextVersion(listing) = f[n]
  BY <1>9, Zenon DEF NextVersion, Passes
<1>12. f = [k \in 0 .. n |-> IF k = 0 THEN <<1>> ELSE After(listing[k], f[k - 1])]
  BY <1>10, Zenon DEF Passes, After
<1>13. f[0] = <<1>> /\ \A k \in 1 .. n : f[k] = After(listing[k], f[k - 1])
  <2>1. \A k \in 0 .. n : f[k] = IF k = 0 THEN <<1>> ELSE After(listing[k], f[k - 1])
    BY ONLY <1>12
  <2>2. 0 \in 0 .. n /\ \A k \in 1 .. n : k \in 0 .. n /\ k # 0
    BY <1>0
  <2> QED
    BY ONLY <2>1, <2>2
<1>14. \A k \in 0 .. n : f[k] = h[k]
  <2>1. PICK P : P = {k \in 0 .. n : f[k] = h[k]}
    OBVIOUS
  <2>2. 0 \in P /\ P \in SUBSET (0 .. n)
    BY <1>0, <1>5, <1>13, <2>1
  <2>3. \A k \in 1 .. n : k - 1 \in P => k \in P
    BY <1>0, <1>7, <1>13, <2>1
  <2>4. P = 0 .. n
    BY <1>0, <2>2, <2>3, UpwardInd, Zenon
  <2> QED
    BY <2>1, <2>4
<1>15. f \in [0 .. n -> Version]
  <2>1. \A k \in 0 .. n : f[k] \in Version
    BY <1>5, <1>14
  <2>2. f = [k \in 0 .. n |-> f[k]]
    <3>1. DOMAIN f = 0 .. n
      BY ONLY <1>12
    <3>2. f = [k \in DOMAIN f |-> f[k]]
      BY ONLY <1>12
    <3> QED
      BY ONLY <3>1, <3>2
  <2> QED
    BY ONLY <2>1, <2>2
<1> QED
  BY <1>11, <1>13, <1>15

\* The numbers of the versions among the first k entries.
Seen(listing, k) == {Number(listing[j]) : j \in {j \in 1 .. k : IsVersion(listing[j])}}

\* For every listing, of whatever strings of digits in whatever order: the name
\* the pass of numbered_backup ends with is one above the largest version, or 1
\* if there is none (lib/backupfile.c:238-299).
THEOREM NextVersionAbove ==
  ASSUME NEW listing \in Seq(Seq(Digit))
  PROVE  /\ Number(NextVersion(listing)) \in Nat
         /\ Number(NextVersion(listing)) - 1 \in {0} \cup Seen(listing, Len(listing))
         /\ \A s \in {0} \cup Seen(listing, Len(listing)) :
              s \in Nat /\ s <= Number(NextVersion(listing)) - 1
<1> DEFINE n == Len(listing)
<1>0. n \in Nat /\ \A k \in 1 .. n : listing[k] \in Seq(Digit) /\ Number(listing[k]) \in Nat
  BY NumberType
<1>1. PICK f \in [0 .. n -> Version] :
           /\ NextVersion(listing) = f[n] /\ f[0] = <<1>>
           /\ \A k \in 1 .. n : f[k] = After(listing[k], f[k - 1])
  BY NextVersionIs
<1> DEFINE Above(k) ==
             /\ Number(f[k]) - 1 \in {0} \cup Seen(listing, k)
             /\ \A j \in 1 .. k : IsVersion(listing[j]) => Number(listing[j]) < Number(f[k])
             /\ Number(f[k]) \in Nat /\ Number(f[k]) >= 1
<1>2. \A k \in 0 .. n : f[k] \in Version /\ f[k] \in Seq(Digit) /\ IsVersion(f[k])
                        /\ Number(f[k]) \in Nat
  BY <1>1, NumberType DEF Version
<1>3. Above(0)
  <2>1. Number(<<1>>) = 1
    <3>1. 1 \in Digit /\ <<>> \in Seq(Digit) /\ <<1>> = Append(<<>>, 1) /\ Radix \in Nat
      BY RadixAssumption DEF Digit
    <3>2. Number(Append(<<>>, 1)) = Number(<<>>) * Radix + 1
      BY <3>1, NumberAppend
    <3> QED
      BY <3>1, <3>2, NumberEmpty
  <2> QED
    BY <1>1, <2>1
<1>4. ASSUME NEW k \in 1 .. n, Above(k - 1) PROVE Above(k)
  <2>1. PICK p : p = listing[k]
    OBVIOUS
  <2>2. PICK b : b = f[k - 1]
    OBVIOUS
  <2>3. /\ p \in Seq(Digit) /\ b \in Seq(Digit) /\ IsVersion(b) /\ f[k] = After(p, b)
        /\ Number(b) \in Nat /\ Number(p) \in Nat
    <3>1. k - 1 \in 0 .. n
      BY <1>0
    <3> QED
      BY <1>0, <1>1, <1>2, <2>1, <2>2, <3>1
  <2>4. \A j \in 1 .. k : j = k \/ j \in 1 .. (k - 1)
    OBVIOUS
  <2>5. Seen(listing, k - 1) \subseteq Seen(listing, k)
    <3>1. \A j \in 1 .. (k - 1) : j \in 1 .. k
      OBVIOUS
    <3> QED
      BY <3>1 DEF Seen
  <2>6. CASE IsVersion(p) /\ Supersedes(p, b)
    <3>1. Number(p) >= Number(b)
      BY <2>3, <2>6, SupersedesIs
    <3>2. f[k] = Increment(p) /\ Number(f[k]) = Number(p) + 1
      BY <2>3, <2>6, IncrementIs DEF After
    <3>3. Number(p) \in Seen(listing, k)
      <4>1. k \in 1 .. k
        OBVIOUS
      <4> QED
        BY <2>1, <2>6, <4>1 DEF Seen
    <3>4. \A j \in 1 .. (k - 1) : IsVersion(listing[j]) => Number(listing[j]) < Number(f[k])
      <4> SUFFICES ASSUME NEW j \in 1 .. (k - 1), IsVersion(listing[j])
                   PROVE  Number(listing[j]) < Number(f[k])
        OBVIOUS
      <4>1. Number(listing[j]) < Number(b)
        BY <1>4, <2>2
      <4>2. Number(listing[j]) \in Nat
        BY <1>0
      <4> QED
        BY <2>3, <3>1, <3>2, <4>1, <4>2
    <3>5. Number(listing[k]) < Number(f[k])
      BY <2>1, <2>3, <3>2
    <3>6. Number(f[k]) - 1 = Number(p) /\ Number(f[k]) \in Nat /\ Number(f[k]) >= 1
      BY <2>3, <3>2
    <3> QED
      BY <2>4, <3>3, <3>4, <3>5, <3>6
  <2>7. CASE ~ (IsVersion(p) /\ Supersedes(p, b))
    <3>1. f[k] = b
      BY <2>3, <2>7 DEF After
    <3>2. IsVersion(p) => Number(p) < Number(b)
      BY <2>3, <2>7, SupersedesIs
    <3> QED
      BY <1>4, <2>1, <2>2, <2>4, <2>5, <3>1, <3>2
  <2> QED
    BY <2>6, <2>7
<1> HIDE DEF Above
<1>5. Above(n)
  <2>1. PICK P : P = {k \in 0 .. n : Above(k)}
    OBVIOUS
  <2>2. 0 \in P /\ P \in SUBSET (0 .. n)
    BY <1>0, <1>3, <2>1
  <2>3. \A k \in 1 .. n : k - 1 \in P => k \in P
    <3>1. \A k \in 1 .. n : k \in 0 .. n
      BY <1>0
    <3> QED
      BY <1>4, <2>1, <3>1
  <2>4. P = 0 .. n
    BY <1>0, <2>2, <2>3, UpwardInd, Zenon
  <2>5. n \in 0 .. n
    BY <1>0
  <2> QED
    BY <2>1, <2>4, <2>5
<1>6. PICK v : v = Number(f[n])
  OBVIOUS
<1>7. /\ v - 1 \in {0} \cup Seen(listing, n) /\ v \in Nat /\ v >= 1
      /\ \A j \in 1 .. n : IsVersion(listing[j]) => Number(listing[j]) < v
  BY <1>5, <1>6 DEF Above
<1>8. \A s \in Seen(listing, n) : s \in Nat /\ s < v
  BY <1>0, <1>7 DEF Seen
<1>9. \A s \in {0} \cup Seen(listing, n) : s \in Nat /\ s <= v - 1
  BY <1>7, <1>8
<1> QED
  BY <1>1, <1>6, <1>7, <1>9

\* In whatever order readdir lists the backups of a file, whichever of them are
\* still there, and whatever else looks like one: the version computed digit by
\* digit is one above the largest.  It follows from NextVersionAbove alone: what
\* the run has in the directory is one case of what that theorem is about.
THEOREM NextAlwaysAbove == Spec => []NextIsAboveAll
<1>1. ASSUME NEW E \in SUBSET Entries, NEW listing \in SetToAllKPermutations(E)
      PROVE  Number(NextVersion(listing)) =
               1 + Max({0} \cup {Number(p) : p \in {p \in ToSet(listing) : IsVersion(p)}})
  <2>1. listing \in Seq(Seq(Digit))
    <3>1. PICK s \in SUBSET E : listing \in SetToSeqs(s)
      BY DEF SetToAllKPermutations
    <3>2. s \subseteq Entries /\ s \subseteq Seq(Digit)
      BY <3>1, EntriesAssumption DEF Digit
    <3>3. Cardinality(s) \in Nat
      BY <3>2, EntriesAssumption, FS_Subset, FS_CardinalityType
    <3>4. listing \in [1 .. Cardinality(s) -> s]
      BY <3>1, Zenon DEF SetToSeqs
    <3>5. listing \in Seq(s)
      BY ONLY <3>3, <3>4
    <3> QED
      BY ONLY <3>2, <3>5
  <2>2. PICK S : S = {0} \cup {Number(p) : p \in {p \in ToSet(listing) : IsVersion(p)}}
    OBVIOUS
  <2>3. S = {0} \cup Seen(listing, Len(listing))
    <3>1. DOMAIN listing = 1 .. Len(listing)
      BY ONLY <2>1
    <3> QED
      BY <2>2, <3>1 DEF Seen, ToSet
  <2>4. PICK v : v = Number(NextVersion(listing))
    OBVIOUS
  <2>5. v \in Nat /\ v - 1 \in S /\ \A s \in S : s \in Nat /\ s <= v - 1
    BY <2>1, <2>3, <2>4, NextVersionAbove, Zenon
  <2>6. Max(S) = v - 1
    <3>1. Max(S) \in S /\ \A y \in S : Max(S) >= y
      BY <2>5 DEF Max
    <3> QED
      BY ONLY <2>5, <3>1
  <2> QED
    BY <2>2, <2>4, <2>5, <2>6
<1>2. NextIsAboveAll
  <2>1. {p \in Entries : IsVersion(p) => Number(p) \in Versions(cur)} \in SUBSET Entries
    OBVIOUS
  <2> QED
    BY <1>1, <2>1, Zenon DEF NextIsAboveAll
<1> QED
  BY <1>2, PTL
===============================================================================
