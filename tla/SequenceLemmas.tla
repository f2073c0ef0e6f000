--------------------------- MODULE SequenceLemmas ---------------------------
(***************************************************************************)
(* Induction on the natural numbers and on sequences, stated with a set    *)
(* for the predicate, the existence of functions that are defined by       *)
(* recursion on numbers, what FlattenSeq of the community modules returns, *)
(* and the concatenation of what a function gives for the elements, and of *)
(* three sequences in a row.                                               *)
(***************************************************************************)
EXTENDS Integers, Sequences, SequencesExt, SequenceTheorems, WellFoundedInduction, TLAPS

\* Three sequences of elements of S in a row may be concatenated in either order.
Regroups(S) == \A s, t, u \in Seq(S) : (s \o t) \o u = s \o (t \o u)

\* They may for every S.
LEMMA Reassociate == ASSUME NEW S PROVE Regroups(S)
BY ConcatAssociative, SMTT(60) DEF Regroups

\* Every set of natural numbers that is not empty has a least element.
LEMMA Least ==
  ASSUME NEW T \in SUBSET Nat, T # {}
  PROVE  \E m \in T : \A k \in T : m <= k
<1>1. PICK m \in T : \A k \in T : ~ (k < m)
  <2>1. PICK m \in T : \A k \in T : <<k, m>> \notin OpToRel(<, Nat)
    BY NatLessThanWellFounded, WFMin, Zenon
  <2> QED
    BY <2>1, Zenon DEF OpToRel
<1> QED
  BY <1>1

\* Induction, with the set of the numbers the claim holds of.
LEMMA NatInd ==
  ASSUME NEW T \in SUBSET Nat, 0 \in T, \A n \in T : n + 1 \in T
  PROVE  T = Nat
<1> DEFINE U == Nat \ T
<1>1. SUFFICES ASSUME U # {} PROVE FALSE
  OBVIOUS
<1>2. PICK m \in U : \A k \in U : m <= k
  BY <1>1, Least, Zenon
<1>3. m # 0 /\ m - 1 \in Nat /\ m - 1 \notin U
  BY <1>2
<1> QED
  BY <1>3

-----------------------------------------------------------------------------
(* Functions that are defined from 0 on.                                    *)

\* What follows from one number for the next, from 0 on.
LEMMA UpwardInd ==
  ASSUME NEW n \in Nat, NEW P \in SUBSET (0 .. n), 0 \in P,
         \A k \in 1 .. n : k - 1 \in P => k \in P
  PROVE  P = 0 .. n
<1> DEFINE Q == {k \in Nat : k <= n => k \in P}
<1>1. ASSUME NEW k \in Q PROVE k + 1 \in Q
  <2> SUFFICES ASSUME k + 1 <= n PROVE k + 1 \in P
    OBVIOUS
  <2>1. k \in P /\ k + 1 \in 1 .. n /\ (k + 1) - 1 = k
    OBVIOUS
  <2> QED
    BY <2>1
<1>2. 0 \in Q /\ Q \in SUBSET Nat
  OBVIOUS
<1> HIDE DEF Q
<1>3. Q = Nat
  BY <1>1, <1>2, NatInd, Zenon
<1>4. ASSUME NEW k \in 0 .. n PROVE k \in P
  <2>1. k \in Nat /\ k <= n
    OBVIOUS
  <2> QED
    BY <1>3, <2>1 DEF Q
<1> QED
  BY <1>4

\* f has values in T, from base on by g.
Stepwise(f, T, base, n, g) ==
  f \in [0 .. n -> T] /\ f[0] = base /\ \A k \in 1 .. n : f[k] = g[k][f[k - 1]]

\* There is a function with such values.
LEMMA RecursionExists ==
  ASSUME NEW T, NEW base \in T, NEW n \in Nat, NEW g \in [1 .. n -> [T -> T]]
  PROVE  \E f : Stepwise(f, T, base, n, g)
<1> DEFINE Good(m, f) == f[0] = base /\ \A k \in 1 .. m : f[k] = g[k][f[k - 1]]
           P == {m \in 0 .. n : \E f \in [0 .. m -> T] : Good(m, f)}
<1>1. 0 \in P
  <2>1. [k \in 0 .. 0 |-> base] \in [0 .. 0 -> T] /\ Good(0, [k \in 0 .. 0 |-> base])
    OBVIOUS
  <2> HIDE DEF Good
  <2> QED
    BY <2>1
<1>2. ASSUME NEW m \in 1 .. n, m - 1 \in P PROVE m \in P
  <2>1. PICK f \in [0 .. (m - 1) -> T] : Good(m - 1, f)
    BY <1>2
  <2> DEFINE h == [k \in 0 .. m |-> IF k = m THEN g[m][f[m - 1]] ELSE f[k]]
  <2>2. m - 1 \in 0 .. (m - 1) /\ f[m - 1] \in T /\ g[m][f[m - 1]] \in T
    OBVIOUS
  <2>3. h \in [0 .. m -> T]
    BY <2>2
  <2>4. h[0] = base
    BY <2>1
  <2>5. ASSUME NEW k \in 1 .. m PROVE h[k] = g[k][h[k - 1]]
    <3>1. h[k - 1] = f[k - 1]
      OBVIOUS
    <3>2. CASE k = m
      BY <3>1, <3>2
    <3>3. CASE k # m
      <4>1. k \in 1 .. (m - 1) /\ h[k] = f[k]
        BY <3>3
      <4> QED
        BY <2>1, <3>1, <4>1
    <3> QED
      BY <3>2, <3>3
  <2>6. Good(m, h)
    BY <2>4, <2>5
  <2> HIDE DEF h, Good
  <2> QED
    BY <2>3, <2>6
<1>3. P \in SUBSET (0 .. n)
  OBVIOUS
<1> HIDE DEF P
<1>4. P = 0 .. n
  BY <1>1, <1>2, <1>3, UpwardInd, Zenon
<1> QED
  BY <1>4 DEF P, Stepwise

-----------------------------------------------------------------------------
(* FlattenSeq is defined with a recursive function, that this says f is.    *)

\* f gives, for every k, what the first k sequences flatten to.
Flat(f, ss, n) ==
  f = [i \in 1..n |-> IF i = 1 THEN ss[i] ELSE f[i - 1] \o ss[i]]

\* What it gives for one sequence more.
LEMMA FlatValue ==
  ASSUME NEW f, NEW ss, NEW n \in Nat, Flat(f, ss, n)
  PROVE  \A k \in Nat : k + 1 \in 1..n =>
            f[k + 1] = IF k = 0 THEN ss[k + 1] ELSE f[k] \o ss[k + 1]
<1>1. \A i \in 1..n : f[i] = IF i = 1 THEN ss[i] ELSE f[i - 1] \o ss[i]
  BY DEF Flat
<1>2. \A k \in Nat : (k + 1) - 1 = k /\ (k + 1 = 1 <=> k = 0)
  OBVIOUS
<1> QED
  BY <1>1, <1>2

\* There is one.
LEMMA FlatExists ==
  ASSUME NEW ss, NEW n \in Nat
  PROVE  \E f : Flat(f, ss, n)
<1> DEFINE T == {m \in Nat : \E f : Flat(f, ss, m)}
<1>1. 0 \in T
  <2>1. Flat(<<>>, ss, 0)
    BY DEF Flat
  <2> QED
    BY <2>1
<1>2. ASSUME NEW m \in T PROVE m + 1 \in T
  <2>1. PICK f : Flat(f, ss, m)
    OBVIOUS
  <2> DEFINE g == [i \in 1..m + 1 |-> IF i <= m THEN f[i]
                                     ELSE IF i = 1 THEN ss[i] ELSE f[i - 1] \o ss[i]]
  <2>2. \A i \in 1..m : f[i] = IF i = 1 THEN ss[i] ELSE f[i - 1] \o ss[i]
    BY <2>1 DEF Flat
  <2>3. \A i \in 1..m + 1 : i # 1 => g[i - 1] = f[i - 1]
    OBVIOUS
  <2>4. \A i \in 1..m + 1 : g[i] = IF i = 1 THEN ss[i] ELSE g[i - 1] \o ss[i]
    BY <2>2, <2>3
  <2>5. Flat(g, ss, m + 1)
    <3>1. g = [i \in 1..m + 1 |-> g[i]]
      OBVIOUS
    <3> HIDE DEF g
    <3> QED
      BY <2>4, <3>1 DEF Flat
  <2> QED
    BY <2>5
<1>3. T \in SUBSET Nat
  OBVIOUS
<1> HIDE DEF T
<1>4. T = Nat
  BY <1>1, <1>2, <1>3, NatInd, Zenon
<1> QED
  BY <1>4 DEF T

\* Two sequences have their first n elements in common.
Agree(ss, tt, n) == \A i \in 1..n : ss[i] = tt[i]

\* There is only one, and what it gives depends on no later sequence.
LEMMA FlatUnique ==
  ASSUME NEW ss, NEW tt, NEW n \in Nat, NEW m \in Nat, n <= m, Agree(ss, tt, n),
         NEW f, NEW g, Flat(f, ss, n), Flat(g, tt, m)
  PROVE  \A i \in 1..n : f[i] = g[i]
<1> DEFINE T == {k \in Nat : k \in 1..n => f[k] = g[k]}
<1>1. 0 \in T
  OBVIOUS
<1>2. ASSUME NEW k \in T PROVE k + 1 \in T
  <2> SUFFICES ASSUME k + 1 \in 1..n PROVE f[k + 1] = g[k + 1]
    OBVIOUS
  <2>0. k \in Nat /\ k + 1 \in 1..m /\ k + 1 \in 1..n
    OBVIOUS
  <2>1. f[k + 1] = IF k = 0 THEN ss[k + 1] ELSE f[k] \o ss[k + 1]
    BY <2>0, FlatValue
  <2>2. g[k + 1] = IF k = 0 THEN tt[k + 1] ELSE g[k] \o tt[k + 1]
    BY <2>0, FlatValue
  <2>3. k # 0 => f[k] = g[k]
    OBVIOUS
  <2> QED
    BY <2>0, <2>1, <2>2, <2>3 DEF Agree
<1>3. T \in SUBSET Nat
  OBVIOUS
<1> HIDE DEF T
<1>4. T = Nat
  BY <1>1, <1>2, <1>3, NatInd, Zenon
<1> QED
  BY <1>4 DEF T

\* FlattenSeq is one.
LEMMA FlattenIsFlat ==
  ASSUME NEW S, NEW ss \in Seq(S), ss # <<>>
  PROVE  \E f : Flat(f, ss, Len(ss)) /\ FlattenSeq(ss) = f[Len(ss)]
<1> DEFINE f == CHOOSE f : Flat(f, ss, Len(ss))
<1>1. Flat(f, ss, Len(ss))
  BY FlatExists
<1>2. FlattenSeq(ss) = f[Len(ss)]
  BY DEF FlattenSeq, Flat
<1> QED
  BY <1>1, <1>2

\* Nothing flattens to nothing.
LEMMA FlattenEmpty == FlattenSeq(<<>>) = <<>>
BY DEF FlattenSeq

\* What is appended to a sequence of sequences is appended to the flattened one.
LEMMA FlattenAppend ==
  ASSUME NEW S, NEW ss \in Seq(Seq(S)), NEW s \in Seq(S)
  PROVE  FlattenSeq(Append(ss, s)) = FlattenSeq(ss) \o s
<1> DEFINE tt == Append(ss, s)
<1>1. /\ tt \in Seq(Seq(S)) /\ Len(tt) = Len(ss) + 1 /\ Len(ss) \in Nat /\ tt[Len(tt)] = s
      /\ \A i \in 1..Len(ss) : ss[i] = tt[i]
  OBVIOUS
<1>t. tt = Append(ss, s)
  OBVIOUS
<1> HIDE DEF tt
<1>2. PICK g : Flat(g, tt, Len(tt)) /\ FlattenSeq(tt) = g[Len(tt)]
  BY <1>1, FlattenIsFlat
<1>3. CASE ss = <<>>
  <2>1. Len(tt) = 0 + 1 /\ 0 + 1 \in 1..Len(tt)
    BY <1>1, <1>3
  <2>2. FlattenSeq(tt) = s
    BY <1>1, <1>2, <2>1, FlatValue
  <2>3. FlattenSeq(ss) \o s = s
    BY <1>3, FlattenEmpty
  <2> QED
    BY <1>t, <2>2, <2>3
<1>4. CASE ss # <<>>
  <2>1. PICK f : Flat(f, ss, Len(ss)) /\ FlattenSeq(ss) = f[Len(ss)]
    BY <1>4, FlattenIsFlat
  <2>2. f[Len(ss)] = g[Len(ss)]
    <3> DEFINE n == Len(ss)
               m == Len(tt)
    <3>1. n \in Nat /\ m \in Nat /\ n <= m /\ n \in 1..n
      BY <1>1, <1>4
    <3>2. Agree(ss, tt, n)
      BY <1>1 DEF Agree
    <3>3. Flat(f, ss, n) /\ Flat(g, tt, m)
      BY <1>2, <2>1
    <3> HIDE DEF n, m
    <3>4. \A i \in 1..n : f[i] = g[i]
      BY <3>1, <3>2, <3>3, FlatUnique, SMT
    <3> QED
      BY <3>1, <3>4 DEF n
  <2>3. g[Len(tt)] = g[Len(ss)] \o s
    <3>1. Len(ss) # 0 /\ Len(ss) + 1 \in 1..Len(tt) /\ Len(ss) \in Nat /\ Len(tt) \in Nat
      BY <1>1, <1>4
    <3>2. \A k \in Nat : k + 1 \in 1..Len(tt) =>
             g[k + 1] = IF k = 0 THEN tt[k + 1] ELSE g[k] \o tt[k + 1]
      BY <1>2, <3>1, FlatValue, Zenon
    <3> QED
      BY <1>1, <3>1, <3>2
  <2> QED
    BY <1>2, <1>t, <2>1, <2>2, <2>3
<1> QED
  BY <1>3, <1>4

\* The flattened sequence is made of the elements of the sequences.
LEMMA FlattenType ==
  ASSUME NEW S, NEW ss \in Seq(Seq(S))
  PROVE  FlattenSeq(ss) \in Seq(S)
<1>1. CASE ss = <<>>
  <2>1. FlattenSeq(ss) = <<>>
    BY <1>1, FlattenEmpty, Zenon
  <2> QED
    BY <2>1
<1>2. CASE ss # <<>>
  <2>1. PICK f : Flat(f, ss, Len(ss)) /\ FlattenSeq(ss) = f[Len(ss)]
    BY <1>2, FlattenIsFlat
  <2>v. \A k \in Nat : k + 1 \in 1..Len(ss) =>
           f[k + 1] = IF k = 0 THEN ss[k + 1] ELSE f[k] \o ss[k + 1]
    <3>1. Len(ss) \in Nat
      OBVIOUS
    <3> QED
      BY <2>1, <3>1, FlatValue, Zenon
  <2> DEFINE T == {k \in Nat : k \in 1..Len(ss) => f[k] \in Seq(S)}
  <2>2. 0 \in T
    OBVIOUS
  <2>3. ASSUME NEW k \in T PROVE k + 1 \in T
    <3> SUFFICES ASSUME k + 1 \in 1..Len(ss) PROVE f[k + 1] \in Seq(S)
      OBVIOUS
    <3>1. f[k + 1] = IF k = 0 THEN ss[k + 1] ELSE f[k] \o ss[k + 1]
      BY <2>v
    <3>2. ss[k + 1] \in Seq(S) /\ (k # 0 => f[k] \in Seq(S))
      OBVIOUS
    <3> QED
      BY <3>1, <3>2
  <2>4. T \in SUBSET Nat
    OBVIOUS
  <2>5. Len(ss) \in Nat /\ Len(ss) # 0
    BY <1>2
  <2> HIDE DEF T
  <2>6. T = Nat
    BY <2>2, <2>3, <2>4, NatInd, Zenon
  <2> QED
    BY <2>1, <2>5, <2>6 DEF T
<1> QED
  BY <1>1, <1>2

-----------------------------------------------------------------------------
(* Putting the values of a function in the place of the elements.           *)

\* The values of e for the elements of ss, one after the other.
Mapped(e, ss) == FlattenSeq([k \in 1 .. Len(ss) |-> e[ss[k]]])

\* Nothing is mapped to nothing.
LEMMA MappedEmpty ==
  ASSUME NEW e
  PROVE  Mapped(e, <<>>) = <<>>
<1>1. [k \in 1 .. Len(<<>>) |-> e[<<>>[k]]] = <<>>
  OBVIOUS
<1> QED
  BY <1>1, FlattenEmpty DEF Mapped

\* One element more, one value more.
LEMMA MappedAppend ==
  ASSUME NEW S, NEW T, NEW e \in [S -> Seq(T)], NEW ss \in Seq(S), NEW x \in S
  PROVE  /\ Mapped(e, Append(ss, x)) = Mapped(e, ss) \o e[x]
         /\ Mapped(e, ss) \in Seq(T)
<1> DEFINE F == [k \in 1 .. Len(ss) |-> e[ss[k]]]
           G == [k \in 1 .. Len(Append(ss, x)) |-> e[Append(ss, x)[k]]]
<1>1. Len(ss) \in Nat /\ Len(Append(ss, x)) = Len(ss) + 1
  OBVIOUS
<1>2. \A k \in 1 .. Len(ss) : ss[k] \in S
  OBVIOUS
<1>3. F \in Seq(Seq(T)) /\ Len(F) = Len(ss)
  <2>1. \A k \in 1 .. Len(ss) : e[ss[k]] \in Seq(T)
    BY <1>2
  <2> QED
    BY <1>1, <2>1
<1>4. e[x] \in Seq(T)
  OBVIOUS
<1>5. \A k \in 1 .. (Len(ss) + 1) : G[k] = IF k = Len(ss) + 1 THEN e[x] ELSE F[k]
  OBVIOUS
<1>6. G = Append(F, e[x])
  <2>1. G = [k \in 1 .. (Len(ss) + 1) |-> G[k]]
    BY <1>1
  <2>2. Append(F, e[x]) = [k \in 1 .. (Len(ss) + 1) |->
                             IF k = Len(ss) + 1 THEN e[x] ELSE F[k]]
    BY <1>1, <1>3, <1>4
  <2> HIDE DEF F, G
  <2> QED
    BY <1>5, <2>1, <2>2
<1> HIDE DEF F, G
<1>7. FlattenSeq(G) = FlattenSeq(F) \o e[x] /\ FlattenSeq(F) \in Seq(T)
  BY <1>3, <1>4, <1>6, FlattenAppend, FlattenType
<1> QED
  BY <1>7 DEF F, G, Mapped

\* The type of what is mapped.
LEMMA MappedType ==
  ASSUME NEW S, NEW T, NEW e \in [S -> Seq(T)], NEW ss \in Seq(S)
  PROVE  Mapped(e, ss) \in Seq(T)
<1>1. \A k \in 1 .. Len(ss) : e[ss[k]] \in Seq(T)
  OBVIOUS
<1>2. [k \in 1 .. Len(ss) |-> e[ss[k]]] \in Seq(Seq(T))
  BY <1>1
<1> QED
  BY <1>2, FlattenType DEF Mapped

\* A sequence that is not empty ends in an element.
LEMMA FrontLast ==
  ASSUME NEW S, NEW ss \in Seq(S), NEW n \in Nat, Len(ss) = n + 1
  PROVE  \E tt \in Seq(S), x \in S : ss = Append(tt, x) /\ Len(tt) = n
<1> DEFINE tt == [k \in 1 .. n |-> ss[k]]
<1>1. tt \in Seq(S) /\ Len(tt) = n /\ ss[n + 1] \in S
  OBVIOUS
<1>2. ss = Append(tt, ss[n + 1])
  OBVIOUS
<1> QED
  BY <1>1, <1>2

\* Induction on sequences, from the end, stated with a set.
LEMMA SeqInd ==
  ASSUME NEW S, NEW P \in SUBSET Seq(S), <<>> \in P,
         \A tt \in P, x \in S : Append(tt, x) \in P
  PROVE  P = Seq(S)
<1> DEFINE N == {n \in Nat : \A ss \in Seq(S) : Len(ss) = n => ss \in P}
<1>1. 0 \in N
  <2>1. \A ss \in Seq(S) : Len(ss) = 0 => ss = <<>>
    OBVIOUS
  <2> QED
    BY <2>1
<1>2. ASSUME NEW n \in N PROVE n + 1 \in N
  <2> SUFFICES ASSUME NEW ss \in Seq(S), Len(ss) = n + 1 PROVE ss \in P
    OBVIOUS
  <2>1. PICK tt \in Seq(S), x \in S : ss = Append(tt, x) /\ Len(tt) = n
    BY FrontLast
  <2>2. tt \in P
    BY <2>1
  <2> QED
    BY <2>1, <2>2
<1>3. N \in SUBSET Nat
  OBVIOUS
<1> HIDE DEF N
<1>4. N = Nat
  BY <1>1, <1>2, <1>3, NatInd, Zenon
<1>5. \A ss \in Seq(S) : Len(ss) \in Nat
  OBVIOUS
<1> QED
  BY <1>4, <1>5 DEF N

\* The elements of a sequence, one at a time.
LEMMA FlattenSingles ==
  ASSUME NEW S, NEW ss \in Seq(S)
  PROVE  FlattenSeq([k \in 1 .. Len(ss) |-> <<ss[k]>>]) = ss
<1> DEFINE e == [x \in S |-> <<x>>]
           P == {tt \in Seq(S) : Mapped(e, tt) = tt}
<1>1. e \in [S -> Seq(S)]
  OBVIOUS
<1>2. <<>> \in P
  BY MappedEmpty
<1>3. ASSUME NEW tt \in P, NEW x \in S PROVE Append(tt, x) \in P
  <2>1. tt \in Seq(S) /\ Mapped(e, tt) = tt /\ e[x] = <<x>>
    OBVIOUS
  <2> HIDE DEF e
  <2>2. Mapped(e, Append(tt, x)) = Mapped(e, tt) \o e[x] /\ Mapped(e, tt) \in Seq(S)
    BY <1>1, <2>1, MappedAppend, Zenon
  <2>3. tt \o <<x>> = Append(tt, x) /\ Append(tt, x) \in Seq(S)
    BY <2>1
  <2> QED
    BY <2>1, <2>2, <2>3
<1>4. P \in SUBSET Seq(S)
  OBVIOUS
<1> HIDE DEF P
<1>5. P = Seq(S)
  BY <1>2, <1>3, <1>4, SeqInd, Zenon
<1>6. Mapped(e, ss) = ss
  BY <1>5 DEF P
<1>7. \A k \in 1 .. Len(ss) : e[ss[k]] = <<ss[k]>>
  OBVIOUS
<1> HIDE DEF e
<1> QED
  BY <1>6, <1>7 DEF Mapped

\* Mapping two sequences one after the other.
LEMMA MappedConcat ==
  ASSUME NEW S, NEW T, NEW e \in [S -> Seq(T)], NEW ss \in Seq(S), NEW tt \in Seq(S)
  PROVE  /\ Mapped(e, ss \o tt) = Mapped(e, ss) \o Mapped(e, tt)
         /\ Mapped(e, ss) \in Seq(T)
<1> DEFINE P == {uu \in Seq(S) : Mapped(e, ss \o uu) = Mapped(e, ss) \o Mapped(e, uu)}
<1>0. Mapped(e, ss) \in Seq(T)
  BY MappedType
<1>1. <<>> \in P
  <2>1. ss \o <<>> = ss /\ Mapped(e, ss) \o <<>> = Mapped(e, ss)
    BY <1>0
  <2>2. Mapped(e, <<>>) = <<>> /\ <<>> \in Seq(S)
    BY MappedEmpty
  <2> QED
    BY <2>1, <2>2
<1>2. ASSUME NEW uu \in P, NEW x \in S PROVE Append(uu, x) \in P
  <2>1. uu \in Seq(S) /\ Mapped(e, ss \o uu) = Mapped(e, ss) \o Mapped(e, uu)
    OBVIOUS
  <2>2. ss \o Append(uu, x) = Append(ss \o uu, x) /\ ss \o uu \in Seq(S)
    BY <2>1
  <2>3. /\ Mapped(e, Append(ss \o uu, x)) = Mapped(e, ss \o uu) \o e[x]
        /\ Mapped(e, ss \o uu) \in Seq(T)
    BY <2>2, MappedAppend, Zenon
  <2>4. Mapped(e, Append(uu, x)) = Mapped(e, uu) \o e[x] /\ Mapped(e, uu) \in Seq(T)
    BY <2>1, MappedAppend
  <2>5. e[x] \in Seq(T)
    OBVIOUS
  <2>6. (Mapped(e, ss) \o Mapped(e, uu)) \o e[x] = Mapped(e, ss) \o (Mapped(e, uu) \o e[x])
    BY <1>0, <2>4, <2>5
  <2>7. Append(uu, x) \in Seq(S)
    BY <2>1
  <2> QED
    BY <2>1, <2>2, <2>3, <2>4, <2>6, <2>7
<1>3. P \in SUBSET Seq(S)
  OBVIOUS
<1> HIDE DEF P
<1>4. P = Seq(S)
  BY <1>1, <1>2, <1>3, SeqInd, Zenon
<1> QED
  BY <1>0, <1>4 DEF P

\* Flattening first or last is the same.
LEMMA MappedFlatten ==
  ASSUME NEW S, NEW T, NEW e \in [S -> Seq(T)], NEW xx \in Seq(Seq(S))
  PROVE  /\ Mapped(e, FlattenSeq(xx)) = FlattenSeq([k \in 1 .. Len(xx) |-> Mapped(e, xx[k])])
         /\ FlattenSeq(xx) \in Seq(S)
<1> DEFINE f == [ss \in Seq(S) |-> Mapped(e, ss)]
           P == {uu \in Seq(Seq(S)) : Mapped(e, FlattenSeq(uu)) = Mapped(f, uu)}
<1>1. f \in [Seq(S) -> Seq(T)]
  BY MappedType
<1>2. <<>> \in P
  BY MappedEmpty, FlattenEmpty
<1>3. ASSUME NEW uu \in P, NEW x \in Seq(S) PROVE Append(uu, x) \in P
  <2>1. /\ uu \in Seq(Seq(S)) /\ Mapped(e, FlattenSeq(uu)) = Mapped(f, uu) /\ f[x] = Mapped(e, x)
        /\ Append(uu, x) \in Seq(Seq(S))
    OBVIOUS
  <2> HIDE DEF f
  <2>2. FlattenSeq(Append(uu, x)) = FlattenSeq(uu) \o x /\ FlattenSeq(uu) \in Seq(S)
    BY <2>1, FlattenAppend, FlattenType
  <2>3. /\ Mapped(e, FlattenSeq(uu) \o x) = Mapped(e, FlattenSeq(uu)) \o Mapped(e, x)
        /\ Mapped(e, FlattenSeq(uu)) \in Seq(T)
    BY <2>2, MappedConcat, Zenon
  <2>4. Mapped(f, Append(uu, x)) = Mapped(f, uu) \o f[x] /\ Mapped(f, uu) \in Seq(T)
    BY <1>1, <2>1, MappedAppend, Zenon
  <2> QED
    BY <2>1, <2>2, <2>3, <2>4
<1>4. P \in SUBSET Seq(Seq(S))
  OBVIOUS
<1> HIDE DEF P
<1>5. P = Seq(Seq(S))
  BY <1>2, <1>3, <1>4, SeqInd, Zenon
<1>6. Mapped(e, FlattenSeq(xx)) = Mapped(f, xx)
  BY <1>5 DEF P
<1>7. \A k \in 1 .. Len(xx) : f[xx[k]] = Mapped(e, xx[k])
  OBVIOUS
<1> HIDE DEF f
<1> QED
  BY <1>6, <1>7, FlattenType DEF Mapped

\* The value of one element.
LEMMA MappedOne ==
  ASSUME NEW S, NEW T, NEW e \in [S -> Seq(T)], NEW x \in S
  PROVE  Mapped(e, <<x>>) = e[x] /\ e[x] \in Seq(T)
<1>0. <<>> \in Seq(S)
  OBVIOUS
<1>1. /\ Mapped(e, Append(<<>>, x)) = Mapped(e, <<>>) \o e[x]
      /\ Mapped(e, <<>>) \in Seq(T)
  BY <1>0, MappedAppend, Zenon
<1>2. Append(<<>>, x) = <<x>> /\ e[x] \in Seq(T) /\ <<>> \o e[x] = e[x]
  OBVIOUS
<1> QED
  BY <1>1, <1>2, MappedEmpty
=============================================================================
